----------------------------- MODULE SetupProofs -----------------------------
(***************************************************************************)
(* Theorems about MCSetup for every number of loops, peers, accepted       *)
(* connections, loop threads and callbacks: the counts of the listening    *)
(* port, the process, the query and the attempt to connect are the numbers *)
(* of their holders, a port keeps one connection per peer, the monitor's   *)
(* alarms are right, and nobody is answered twice.  Each part has its own  *)
(* inductive invariant, and the steps of one part leave the other three.   *)
(***************************************************************************)
EXTENDS MCSetup, FiniteSetTheorems, FunctionTheorems, SequenceTheorems, TLAPS

-----------------------------------------------------------------------------
(* The listening port.                                                     *)

OwnerPcs == {"create", "open", "closing", "closed", "refused"}
Asking == {<<"postAccept", "close">>, <<"close">>}
PortTasks == {<<>>, <<"postAccept">>} \cup Asking

PortTypeOK ==
  /\ bTcp \in BOOLEAN /\ bActive \in BOOLEAN
  /\ portRefs \in Int /\ ownerRefs \in Int
  /\ handle \in [Loops -> BOOLEAN] /\ listening \in [Loops -> BOOLEAN]
  /\ portTasks \in [Loops -> PortTasks]
  /\ map \in SUBSET Peers /\ conns \in [Peers -> Nat]
  /\ at \in [Loops -> {<<"poll">>} \cup ({"unknown", "making"} \X Peers)]
  /\ ownerPc \in OwnerPcs /\ scanned \in SUBSET Loops
  /\ serviceUp \in BOOLEAN /\ ioUp \in BOOLEAN
  /\ portFaults \in SUBSET {"null", "refused"}
  /\ failed \in BOOLEAN /\ accepted \in Nat

\* A loop that makes a connection listens, one that listens has its handle, and one
\* that the closing owner has looked at has its handle only until the queued close.
LoopsInv ==
  \A l \in Loops :
    /\ at[l] # <<"poll">> => listening[l]
    /\ listening[l] => handle[l]
    /\ portTasks[l] \in {<<"postAccept">>, <<"postAccept", "close">>} => handle[l] /\ ~listening[l]
    /\ portTasks[l] \in Asking => l \in scanned
    /\ handle[l] /\ l \in scanned => portTasks[l] \in Asking
    /\ portTasks[l] \in Asking /\ ~handle[l] => failed

OwnerInv ==
  /\ ownerPc \in {"create", "refused"} => \A l \in Loops : ~handle[l] /\ portTasks[l] = <<>>
  /\ ownerPc \in {"create", "open", "refused"} => scanned = {}
  /\ ownerPc = "closed" => scanned = Loops
  /\ ownerPc = "create" => portRefs = 0 /\ \A p \in Peers : conns[p] = 0

Making(l, p) == at[l] = <<"making", p>>

\* The map and the loops that make a connection say the same as the connections.
PeersInv ==
  ~bTcp =>
    \A p \in Peers :
      /\ \A l, k \in Loops : Making(l, p) /\ Making(k, p) => l = k
      /\ conns[p] > 0 => conns[p] = 1 /\ \A l \in Loops : ~Making(l, p)
      /\ p \in map <=> conns[p] > 0 \/ \E l \in Loops : Making(l, p)

HandleLoops == {l \in Loops : handle[l]}

OwnerShare == IF ownerPc \in {"open", "closing", "refused"} THEN 1 ELSE 0

PortCountInv ==
  /\ IsFiniteSet(LiveConnections)
  /\ Sound => /\ portRefs = OwnerShare + Cardinality(HandleLoops) + Cardinality(Closing)
                            + Cardinality(LiveConnections)
              /\ ownerRefs = OwnerHolders

PortInv ==
  /\ PortTypeOK /\ LoopsInv /\ OwnerInv /\ PeersInv /\ PortCountInv
  /\ bTcp => \A l \in Loops : at[l] = <<"poll">>
  /\ "null" \in portFaults => failed

LEMMA LoopSets ==
  ASSUME NEW S \in SUBSET Loops
  PROVE  IsFiniteSet(S) /\ Cardinality(S) \in Nat
BY LoopsAreFinite, FS_Subset, FS_CardinalityType

LEMMA ClosingIs ==
  ASSUME NEW queue \in [Loops -> PortTasks]
  PROVE  {l \in Loops : \E i \in 1..Len(queue[l]) : queue[l][i] = "close"}
           = {l \in Loops : queue[l] \in Asking}
<1>1. ASSUME NEW q \in PortTasks PROVE (\E i \in 1..Len(q) : q[i] = "close") <=> q \in Asking
  <2>1. CASE q = <<>>
    BY <2>1 DEF Asking
  <2>2. CASE q = <<"postAccept">>
    BY <2>2 DEF Asking
  <2>3. CASE q = <<"postAccept", "close">>
    <3>1. 2 \in 1..Len(q) /\ q[2] = "close"
      BY <2>3
    <3> QED BY <2>3, <3>1 DEF Asking
  <2>4. CASE q = <<"close">>
    <3>1. 1 \in 1..Len(q) /\ q[1] = "close"
      BY <2>4
    <3> QED BY <2>4, <3>1 DEF Asking
  <2> QED BY <2>1, <2>2, <2>3, <2>4 DEF PortTasks, Asking
<1> QED BY <1>1

\* The counts, wherever the variables that they count have these values.
LEMMA PortCardinalities ==
  ASSUME PortTypeOK, IsFiniteSet(LiveConnections)
  PROVE  /\ Closing = {l \in Loops : portTasks[l] \in Asking}
         /\ IsFiniteSet(HandleLoops) /\ Cardinality(HandleLoops) \in Nat
         /\ IsFiniteSet(Closing) /\ Cardinality(Closing) \in Nat
         /\ Cardinality(LiveConnections) \in Nat
         /\ portRefs \in Int /\ ownerRefs \in Int /\ OwnerShare \in 0..1
<1>1. Closing = {l \in Loops : portTasks[l] \in Asking}
  BY ClosingIs DEF Closing, PortTypeOK
<1>2. HandleLoops \in SUBSET Loops /\ Closing \in SUBSET Loops
  BY DEF HandleLoops, Closing
<1> QED BY <1>1, <1>2, LoopSets, FS_CardinalityType DEF PortTypeOK, OwnerShare

Pairs(f) == UNION {{p} \X (1..f[p]) : p \in Peers}

LEMMA OneMoreConnection ==
  ASSUME NEW f \in [Peers -> Nat], NEW p \in Peers, IsFiniteSet(Pairs(f)),
         NEW g, g = [f EXCEPT ![p] = @ + 1]
  PROVE  IsFiniteSet(Pairs(g)) /\ Cardinality(Pairs(g)) = Cardinality(Pairs(f)) + 1
<1> DEFINE new == <<p, f[p] + 1>>
<1>1. Pairs(g) = Pairs(f) \cup {new}
  <2>1. ASSUME NEW x \in Pairs(g) PROVE x \in Pairs(f) \cup {new}
    <3>1. PICK q \in Peers : \E i \in 1..g[q] : x = <<q, i>>
      BY DEF Pairs
    <3>0. PICK i \in Nat : i \in 1..g[q] /\ x = <<q, i>>
      BY <3>1
    <3>2. CASE q = p
      <4>1. i \in 1..f[p] \/ i = f[p] + 1
        BY <3>0, <3>2
      <4> QED BY <3>0, <3>2, <4>1 DEF Pairs
    <3>3. CASE q # p
      BY <3>0, <3>3 DEF Pairs
    <3> QED BY <3>2, <3>3
  <2>2. ASSUME NEW x \in Pairs(f) PROVE x \in Pairs(g)
    <3>1. PICK q \in Peers : \E i \in 1..f[q] : x = <<q, i>>
      BY DEF Pairs
    <3>0. PICK i \in Nat : i \in 1..f[q] /\ x = <<q, i>>
      BY <3>1
    <3>2. i \in 1..g[q]
      BY <3>0
    <3> QED BY <3>0, <3>2 DEF Pairs
  <2>3. new \in Pairs(g)
    <3>1. f[p] + 1 \in 1..g[p]
      OBVIOUS
    <3> QED BY <3>1 DEF Pairs
  <2> QED BY <2>1, <2>2, <2>3
<1>2. new \notin Pairs(f)
  <2>1. f[p] + 1 \notin 1..f[p]
    OBVIOUS
  <2> QED BY <2>1 DEF Pairs
<1> HIDE DEF new
<1>3. /\ IsFiniteSet(Pairs(f) \cup {new})
      /\ Cardinality(Pairs(f) \cup {new}) = Cardinality(Pairs(f)) + 1
  BY <1>2, FS_AddElement
<1> QED BY <1>1, <1>3

LEMMA OneConnectionLess ==
  ASSUME NEW f \in [Peers -> Nat], NEW p \in Peers, f[p] > 0, IsFiniteSet(Pairs(f)),
         NEW g, g = [f EXCEPT ![p] = @ - 1]
  PROVE  IsFiniteSet(Pairs(g)) /\ Cardinality(Pairs(f)) = Cardinality(Pairs(g)) + 1
<1>1. g \in [Peers -> Nat] /\ f = [g EXCEPT ![p] = @ + 1]
  <2>1. \A q \in Peers : g[q] = IF q = p THEN f[q] - 1 ELSE f[q]
    OBVIOUS
  <2>2. g \in [Peers -> Nat]
    OBVIOUS
  <2>3. [g EXCEPT ![p] = @ + 1] \in [Peers -> Nat]
    BY <2>2
  <2>4. \A q \in Peers : [g EXCEPT ![p] = @ + 1][q] = f[q]
    BY <2>1, <2>2
  <2> QED BY <2>2, <2>3, <2>4
<1>2. Pairs(g) \subseteq Pairs(f)
  <2>1. ASSUME NEW x \in Pairs(g) PROVE x \in Pairs(f)
    <3>1. PICK q \in Peers : \E i \in 1..g[q] : x = <<q, i>>
      BY DEF Pairs
    <3>0. PICK i \in Nat : i \in 1..g[q] /\ x = <<q, i>>
      BY <3>1
    <3>2. i \in 1..f[q]
      BY <3>0
    <3> QED BY <3>0, <3>2 DEF Pairs
  <2> QED BY <2>1
<1>3. IsFiniteSet(Pairs(g))
  BY <1>2, FS_Subset
<1> QED BY <1>1, <1>3, OneMoreConnection

LEMMA InitPort == PortInit => PortInv
<1> SUFFICES ASSUME PortInit PROVE PortInv
  OBVIOUS
<1>1. PortTypeOK
  <2>1. /\ bTcp \in BOOLEAN /\ bActive \in BOOLEAN
        /\ serviceUp \in BOOLEAN /\ ioUp \in BOOLEAN /\ failed \in BOOLEAN
    BY Zenon DEF PortInit
  <2>2. /\ handle \in [Loops -> BOOLEAN] /\ listening \in [Loops -> BOOLEAN]
        /\ portTasks \in [Loops -> PortTasks] /\ conns \in [Peers -> Nat]
        /\ at \in [Loops -> {<<"poll">>} \cup ({"unknown", "making"} \X Peers)]
    BY DEF PortInit, PortTasks
  <2>3. /\ portRefs \in Int /\ ownerRefs \in Int /\ accepted \in Nat
        /\ map \in SUBSET Peers /\ scanned \in SUBSET Loops
        /\ ownerPc \in OwnerPcs /\ portFaults \in SUBSET {"null", "refused"}
    BY DEF PortInit, OwnerPcs
  <2> QED BY <2>1, <2>2, <2>3 DEF PortTypeOK
<1>2. LoopsInv /\ OwnerInv
  BY DEF PortInit, LoopsInv, OwnerInv, Asking
<1>3. PeersInv
  BY DEF PortInit, PeersInv, Making
<1>4. LiveConnections = {} /\ HandleLoops = {} /\ Closing = {}
  BY DEF PortInit, LiveConnections, HandleLoops, Closing
<1>5. PortCountInv
  <2>1. IsFiniteSet(LiveConnections) /\ Cardinality(LiveConnections) = 0
        /\ Cardinality(HandleLoops) = 0 /\ Cardinality(Closing) = 0
    BY <1>4, FS_EmptySet
  <2>2. OwnerShare = 0 /\ OwnerHolders = 1 /\ portRefs = 0 /\ ownerRefs = 1
    BY DEF PortInit, OwnerShare, OwnerHolders
  <2> QED BY <2>1, <2>2 DEF PortCountInv
<1> QED BY <1>1, <1>2, <1>3, <1>5 DEF PortInit, PortInv

\* What a step needs to show of the counts.
LEMMA PortIsCounted ==
  ASSUME PortTypeOK, PortTypeOK', IsFiniteSet(LiveConnections), IsFiniteSet(LiveConnections'),
         NEW dr \in Int, NEW do \in Int, NEW dh \in Int, NEW dc \in Int, NEW da \in Int,
         portRefs = OwnerShare + Cardinality(HandleLoops) + Cardinality(Closing)
                    + Cardinality(LiveConnections),
         portRefs' = portRefs + dr,
         OwnerShare' = OwnerShare + do,
         Cardinality(HandleLoops') = Cardinality(HandleLoops) + dh,
         Cardinality(Closing') = Cardinality(Closing) + dc,
         Cardinality(LiveConnections') = Cardinality(LiveConnections) + da,
         dr = do + dh + dc + da
  PROVE  portRefs' = OwnerShare' + Cardinality(HandleLoops') + Cardinality(Closing')
                     + Cardinality(LiveConnections')
<1>1. /\ portRefs \in Int /\ OwnerShare \in Int
      /\ Cardinality(HandleLoops) \in Int /\ Cardinality(Closing) \in Int
      /\ Cardinality(LiveConnections) \in Int
  BY PortCardinalities
<1> QED BY <1>1

\* The sets that are counted, when what they are made of does not change.
LEMMA PortFrame ==
  /\ UNCHANGED handle => HandleLoops' = HandleLoops
  /\ UNCHANGED portTasks => Closing' = Closing
  /\ UNCHANGED conns => LiveConnections' = LiveConnections
  /\ UNCHANGED ownerPc => OwnerShare' = OwnerShare
BY DEF HandleLoops, Closing, LiveConnections, OwnerShare

LEMMA AppendToOne ==
  ASSUME NEW a, NEW b
  PROVE  Append(<<a>>, b) = <<a, b>>
<1>1. <<a>> \in Seq({a, b})
  OBVIOUS
<1>2. Append(<<a>>, b) \in Seq({a, b}) /\ Len(Append(<<a>>, b)) = 2
  BY <1>1, AppendProperties
<1>3. Append(<<a>>, b)[1] = a /\ Append(<<a>>, b)[2] = b
  BY <1>1
<1>4. <<a, b>> \in Seq({a, b}) /\ Len(<<a, b>>) = 2 /\ <<a, b>>[1] = a /\ <<a, b>>[2] = b
  OBVIOUS
<1>5. ASSUME NEW s \in Seq({a, b}), NEW t \in Seq({a, b}),
             Len(s) = 2, Len(t) = 2, s[1] = t[1], s[2] = t[2]
      PROVE  s = t
  <2>1. \A i \in 1..Len(s) : s[i] = t[i]
    <3>1. \A i \in 1..2 : i = 1 \/ i = 2
      OBVIOUS
    <3> QED BY <1>5, <3>1
  <2> QED BY <1>5, <2>1, SeqEqual
<1> QED BY <1>2, <1>3, <1>4, <1>5

LEMMA StartKeepsPort ==
  ASSUME PortInv, NEW free \in BOOLEAN, Start(free)
  PROVE  PortInv'
<1>1. /\ ownerPc = "create" /\ Sound
      /\ UNCHANGED <<bTcp, listening, map, conns, at, scanned, serviceUp, ioUp, portFaults, failed, accepted>>
  BY DEF Start
<1>2. \A l \in Loops : ~handle[l] /\ ~listening[l] /\ portTasks[l] = <<>> /\ at[l] = <<"poll">>
  BY <1>1 DEF PortInv, OwnerInv, LoopsInv
<1>3. scanned = {} /\ portRefs = 0 /\ \A p \in Peers : conns[p] = 0
  BY <1>1 DEF PortInv, OwnerInv
<1>4. HandleLoops = {} /\ Closing = {} /\ LiveConnections = {}
  BY <1>2, <1>3 DEF HandleLoops, Closing, LiveConnections
<1>5. OwnerHolders = 1 /\ ownerRefs = 1
  BY <1>1, <1>3 DEF OwnerHolders, PortInv, PortCountInv
<1>6. LiveConnections' = {}
  BY <1>1, <1>4, PortFrame
<1>7. PeersInv'
  BY <1>1 DEF PortInv, PeersInv, Making
<1>8. CASE free
  <2>1. /\ bActive' = TRUE /\ portRefs' = 1 + Cardinality(Loops) /\ ownerRefs' = ownerRefs + 1
        /\ handle' = [l \in Loops |-> TRUE]
        /\ portTasks' = [l \in Loops |-> <<"postAccept">>]
        /\ ownerPc' = "open"
    BY <1>8 DEF Start
  <2>2. IsFiniteSet(Loops) /\ Cardinality(Loops) \in Nat
    BY LoopSets
  <2>3. PortTypeOK'
    BY <1>1, <1>5, <2>1, <2>2 DEF PortInv, PortTypeOK, OwnerPcs, PortTasks
  <2>4. LoopsInv' /\ OwnerInv'
    BY <1>1, <1>2, <1>3, <2>1 DEF PortInv, LoopsInv, OwnerInv, Asking
  <2>5. HandleLoops' = Loops /\ Closing' = {}
    BY <2>1 DEF HandleLoops, Closing
  <2>6. PortCountInv'
    <3>1. /\ IsFiniteSet(LiveConnections') /\ Cardinality(LiveConnections') = 0
          /\ Cardinality(HandleLoops') = Cardinality(Loops) /\ Cardinality(Closing') = 0
      BY <1>6, <2>5, FS_EmptySet
    <3>2. OwnerShare' = 1
      BY <2>1 DEF OwnerShare
    <3>3. portRefs' > 0 /\ ownerRefs' = 2
      BY <1>5, <2>1, <2>2
    <3>4. OwnerHolders' = 2
      BY <2>1, <3>3 DEF OwnerHolders
    <3> QED BY <2>1, <2>2, <3>1, <3>2, <3>3, <3>4 DEF PortCountInv
  <2> QED BY <1>1, <1>7, <2>3, <2>4, <2>6 DEF PortInv
<1>9. CASE ~free
  <2>1. /\ portRefs' = 1 /\ ownerPc' = "refused"
        /\ UNCHANGED <<bActive, ownerRefs, handle, portTasks>>
    BY <1>9 DEF Start
  <2>2. PortTypeOK'
    BY <1>1, <2>1 DEF PortInv, PortTypeOK, OwnerPcs
  <2>3. LoopsInv' /\ OwnerInv'
    BY <1>1, <1>2, <1>3, <2>1 DEF PortInv, LoopsInv, OwnerInv
  <2>4. PortCountInv'
    <3>1. HandleLoops' = {} /\ Closing' = {}
      BY <1>4, <2>1, PortFrame
    <3>2. /\ IsFiniteSet(LiveConnections') /\ Cardinality(LiveConnections') = 0
          /\ Cardinality(HandleLoops') = 0 /\ Cardinality(Closing') = 0
      BY <1>6, <3>1, FS_EmptySet
    <3>3. OwnerShare' = 1 /\ OwnerHolders' = 1 /\ ownerRefs' = 1
      BY <1>5, <2>1 DEF OwnerShare, OwnerHolders
    <3> QED BY <2>1, <3>2, <3>3 DEF PortCountInv
  <2> QED BY <1>1, <1>7, <2>2, <2>3, <2>4 DEF PortInv
<1> QED BY <1>8, <1>9

LEMMA CloseBeginsKeepsPort ==
  ASSUME PortInv, CloseBegins \/ ServiceEnds \/ EventIOEnds
  PROVE  PortInv'
<1>1. /\ UNCHANGED <<bTcp, portRefs, ownerRefs, handle, listening, portTasks, map, conns, at,
                     scanned, portFaults, failed, accepted>>
      /\ \/ ownerPc = "open" /\ ownerPc' = "closing"
         \/ ownerPc' = ownerPc
      /\ bActive' \in BOOLEAN /\ serviceUp' \in BOOLEAN /\ ioUp' \in BOOLEAN
  BY DEF CloseBegins, ServiceEnds, EventIOEnds, PortInv, PortTypeOK
<1>2. PortTypeOK'
  BY <1>1 DEF PortInv, PortTypeOK, OwnerPcs
<1>3. LoopsInv' /\ OwnerInv'
  BY <1>1 DEF PortInv, LoopsInv, OwnerInv
<1>4. PeersInv'
  BY <1>1 DEF PortInv, PeersInv, Making
<1>5. PortCountInv'
  <2>1. OwnerShare' = OwnerShare /\ OwnerHolders' = OwnerHolders /\ Sound' = Sound
    BY <1>1 DEF OwnerShare, OwnerHolders, Sound
  <2>2. HandleLoops' = HandleLoops /\ Closing' = Closing /\ LiveConnections' = LiveConnections
    BY <1>1, PortFrame
  <2> QED BY <1>1, <2>1, <2>2 DEF PortInv, PortCountInv
<1> QED BY <1>1, <1>2, <1>3, <1>4, <1>5 DEF PortInv

LEMMA CloseOneKeepsPort ==
  ASSUME PortInv, NEW l \in Loops, CloseOne(l)
  PROVE  PortInv'
<1>1. /\ ownerPc = "closing" /\ l \notin scanned /\ Sound /\ scanned' = scanned \cup {l}
      /\ UNCHANGED <<bTcp, bActive, ownerRefs, handle, listening, map, conns, at, ownerPc, serviceUp,
                     ioUp, portFaults, failed, accepted>>
  BY DEF CloseOne
<1>2. PeersInv'
  BY <1>1 DEF PortInv, PeersInv, Making
<1>3. HandleLoops' = HandleLoops /\ LiveConnections' = LiveConnections /\ OwnerShare' = OwnerShare
  BY <1>1, PortFrame
<1>4. portTasks[l] \notin Asking /\ portTasks[l] \in PortTasks
  BY <1>1 DEF PortInv, LoopsInv, PortTypeOK
<1>5. CASE handle[l]
  <2>1. /\ portRefs' = portRefs + 1
        /\ portTasks' = [portTasks EXCEPT ![l] = Append(@, "close")]
    BY <1>5 DEF CloseOne, CloseAsks
  <2>2. /\ portTasks[l] = <<>> => portTasks'[l] = <<"close">>
        /\ portTasks[l] = <<"postAccept">> => portTasks'[l] = <<"postAccept", "close">>
        /\ portTasks[l] = <<>> \/ portTasks[l] = <<"postAccept">>
        /\ \A k \in Loops \ {l} : portTasks'[k] = portTasks[k]
    <3>1. /\ portTasks'[l] = Append(portTasks[l], "close")
          /\ \A k \in Loops \ {l} : portTasks'[k] = portTasks[k]
      BY <2>1 DEF PortInv, PortTypeOK
    <3>2. Append(<<>>, "close") = <<"close">>
      OBVIOUS
    <3>3. Append(<<"postAccept">>, "close") = <<"postAccept", "close">>
      BY AppendToOne
    <3> QED BY <1>4, <3>1, <3>2, <3>3 DEF PortTasks
  <2>3. portTasks'[l] \in Asking
    BY <2>2 DEF Asking
  <2>4. portTasks' \in [Loops -> PortTasks]
    BY <2>1, <2>2, <2>3 DEF PortInv, PortTypeOK, PortTasks
  <2>5. PortTypeOK'
    BY <1>1, <2>1, <2>4 DEF PortInv, PortTypeOK
  <2>6. LoopsInv'
    <3> SUFFICES ASSUME NEW k \in Loops
                 PROVE  /\ at[k] # <<"poll">> => listening[k]
                        /\ listening[k] => handle[k]
                        /\ portTasks'[k] \in {<<"postAccept">>, <<"postAccept", "close">>}
                             => handle[k] /\ ~listening[k]
                        /\ portTasks'[k] \in Asking => k \in scanned'
                        /\ handle[k] /\ k \in scanned' => portTasks'[k] \in Asking
                        /\ portTasks'[k] \in Asking /\ ~handle[k] => failed
      BY <1>1 DEF LoopsInv
    <3>1. CASE k = l
      <4>1. l \in scanned'
        BY <1>1
      <4>2. portTasks'[l] = <<"postAccept", "close">> => portTasks[l] = <<"postAccept">>
        BY <2>2
      <4>3. portTasks'[l] # <<"postAccept">>
        BY <2>3 DEF Asking
      <4> QED BY <1>5, <2>3, <3>1, <4>1, <4>2, <4>3 DEF PortInv, LoopsInv
    <3>2. CASE k # l
      BY <1>1, <2>2, <3>2 DEF PortInv, LoopsInv
    <3> QED BY <3>1, <3>2
  <2>7. OwnerInv'
    BY <1>1 DEF PortInv, OwnerInv
  <2>8. PortCountInv'
    <3>1. /\ Closing = {k \in Loops : portTasks[k] \in Asking}
          /\ Closing' = {k \in Loops : portTasks'[k] \in Asking}
      BY <2>4, ClosingIs DEF Closing, PortInv, PortTypeOK
    <3>2. Closing' = Closing \cup {l} /\ l \notin Closing
      BY <1>4, <2>2, <2>3, <3>1
    <3>3. IsFiniteSet(LiveConnections)
      BY DEF PortInv, PortCountInv
    <3>4. /\ IsFiniteSet(Closing) /\ Cardinality(Closing) \in Nat
          /\ Cardinality(HandleLoops) \in Nat /\ Cardinality(LiveConnections) \in Nat
          /\ OwnerShare \in 0..1 /\ portRefs \in Int
      BY <3>3, PortCardinalities DEF PortInv
    <3>5. Cardinality(Closing') = Cardinality(Closing) + 1
      BY <3>2, <3>4, FS_AddElement
    <3>6. portRefs = OwnerShare + Cardinality(HandleLoops) + Cardinality(Closing)
                     + Cardinality(LiveConnections)
      BY <1>1 DEF PortInv, PortCountInv
    <3>7. portRefs' = OwnerShare' + Cardinality(HandleLoops') + Cardinality(Closing')
                      + Cardinality(LiveConnections')
      BY <1>3, <2>1, <3>4, <3>5, <3>6
    <3>8. OwnerShare = 1
      BY <1>1 DEF OwnerShare
    <3>9. portRefs > 0 /\ portRefs' > 0
      BY <2>1, <3>4, <3>6, <3>8
    <3>10. OwnerHolders' = OwnerHolders
      BY <1>1, <3>9 DEF OwnerHolders
    <3> QED BY <1>1, <1>3, <3>3, <3>7, <3>10 DEF PortInv, PortCountInv
  <2> QED BY <1>1, <1>2, <2>5, <2>6, <2>7, <2>8 DEF PortInv
<1>6. CASE ~handle[l]
  <2>1. UNCHANGED <<portRefs, portTasks>>
    BY <1>6 DEF CloseOne, CloseAsks
  <2>2. PortTypeOK'
    BY <1>1, <2>1 DEF PortInv, PortTypeOK
  <2>3. LoopsInv' /\ OwnerInv'
    BY <1>1, <1>4, <1>6, <2>1 DEF PortInv, LoopsInv, OwnerInv
  <2>4. PortCountInv'
    <3>1. OwnerHolders' = OwnerHolders /\ Closing' = Closing
      BY <1>1, <2>1, PortFrame DEF OwnerHolders
    <3> QED BY <1>1, <1>3, <2>1, <3>1 DEF PortInv, PortCountInv, Sound
  <2> QED BY <1>1, <1>2, <2>2, <2>3, <2>4 DEF PortInv
<1> QED BY <1>5, <1>6

LEMMA CloseReturnsKeepsPort ==
  ASSUME PortInv, CloseReturns
  PROVE  PortInv'
<1>1. /\ ownerPc = "closing" /\ scanned = Loops /\ Sound /\ ownerPc' = "closed"
      /\ portRefs' = portRefs - 1
      /\ ownerRefs' = ownerRefs - (IF portRefs = 1 THEN 2 ELSE 1)
      /\ UNCHANGED <<bTcp, bActive, handle, listening, portTasks, map, conns, at, scanned, serviceUp,
                     ioUp, portFaults, failed, accepted>>
  BY DEF CloseReturns
<1>2. PeersInv'
  BY <1>1 DEF PortInv, PeersInv, Making
<1>3. /\ HandleLoops' = HandleLoops /\ Closing' = Closing /\ LiveConnections' = LiveConnections
      /\ OwnerShare = 1 /\ OwnerShare' = 0
  BY <1>1, PortFrame DEF OwnerShare
<1>4. PortTypeOK'
  BY <1>1 DEF PortInv, PortTypeOK, OwnerPcs
<1>5. LoopsInv' /\ OwnerInv'
  BY <1>1 DEF PortInv, LoopsInv, OwnerInv
<1>6. PortCountInv'
  <2>1. IsFiniteSet(LiveConnections)
    BY DEF PortInv, PortCountInv
  <2>2. /\ Cardinality(Closing) \in Nat /\ Cardinality(HandleLoops) \in Nat
        /\ Cardinality(LiveConnections) \in Nat /\ portRefs \in Int /\ ownerRefs \in Int
    BY <2>1, PortCardinalities DEF PortInv
  <2>3. portRefs = 1 + Cardinality(HandleLoops) + Cardinality(Closing) + Cardinality(LiveConnections)
    BY <1>1, <1>3 DEF PortInv, PortCountInv
  <2>4. portRefs' = Cardinality(HandleLoops) + Cardinality(Closing) + Cardinality(LiveConnections)
    BY <1>1, <2>2, <2>3
  <2>5. portRefs > 0 /\ (portRefs' > 0 <=> portRefs # 1)
    BY <1>1, <2>2, <2>3
  <2>6. ownerRefs = 2
    BY <1>1, <2>5 DEF PortInv, PortCountInv, OwnerHolders
  <2>7. ownerRefs' = OwnerHolders'
    <3>1. OwnerHolders' = IF portRefs' > 0 THEN 1 ELSE 0
      BY <1>1 DEF OwnerHolders
    <3> QED BY <1>1, <2>5, <2>6, <3>1
  <2>8. portRefs' = OwnerShare' + Cardinality(HandleLoops') + Cardinality(Closing')
                    + Cardinality(LiveConnections')
    BY <1>3, <2>2, <2>4
  <2> QED BY <1>3, <2>1, <2>7, <2>8 DEF PortCountInv
<1> QED BY <1>1, <1>2, <1>4, <1>5, <1>6 DEF PortInv

\* What a loop's turn leaves in its queue.
LEMMA TurnLeaves ==
  ASSUME PortInv, NEW l \in Loops, NEW task, Turn(l, task)
  PROVE  /\ at[l] = <<"poll">> /\ Sound
         /\ portTasks' \in [Loops -> PortTasks]
         /\ \A k \in Loops : k # l => portTasks'[k] = portTasks[k]
         /\ task = "postAccept" =>
              /\ portTasks[l] \in {<<"postAccept">>, <<"postAccept", "close">>}
              /\ portTasks[l] \in Asking <=> portTasks'[l] \in Asking
              /\ portTasks'[l] \in {<<>>, <<"close">>}
              /\ handle[l] /\ ~listening[l]
         /\ task = "close" =>
              portTasks[l] = <<"close">> /\ portTasks'[l] = <<>>
<1>1. /\ at[l] = <<"poll">> /\ Sound /\ portTasks[l] # <<>> /\ Head(portTasks[l]) = task
      /\ portTasks' = [portTasks EXCEPT ![l] = Tail(@)]
  BY DEF Turn
<1>2. portTasks \in [Loops -> PortTasks]
  BY DEF PortInv, PortTypeOK
<1>3. /\ portTasks'[l] = Tail(portTasks[l])
      /\ \A k \in Loops : k # l => portTasks'[k] = portTasks[k]
  BY <1>1, <1>2
<1>4. PICK q \in PortTasks : q = portTasks[l]
  BY <1>2
<1>5. /\ q # <<>> => q \in {<<"postAccept">>, <<"postAccept", "close">>, <<"close">>}
      /\ q = <<"postAccept">> => Head(q) = "postAccept" /\ Tail(q) = <<>>
      /\ q = <<"postAccept", "close">> => Head(q) = "postAccept" /\ Tail(q) = <<"close">>
      /\ q = <<"close">> => Head(q) = "close" /\ Tail(q) = <<>>
  <2>1. q # <<>> => q \in {<<"postAccept">>, <<"postAccept", "close">>, <<"close">>}
    BY DEF PortTasks, Asking
  <2>2. \A a : Head(<<a>>) = a /\ Tail(<<a>>) = <<>>
    OBVIOUS
  <2>3. \A a, b : Head(<<a, b>>) = a /\ Tail(<<a, b>>) = <<b>>
    OBVIOUS
  <2> QED BY <2>1, <2>2, <2>3, Zenon
<1>6. portTasks' \in [Loops -> PortTasks]
  <2>1. portTasks'[l] \in PortTasks
    BY <1>1, <1>3, <1>4, <1>5 DEF PortTasks, Asking
  <2> QED BY <1>1, <1>2, <1>3, <2>1
<1>7. ASSUME task = "postAccept"
      PROVE  /\ portTasks[l] \in {<<"postAccept">>, <<"postAccept", "close">>}
             /\ portTasks[l] \in Asking <=> portTasks'[l] \in Asking
             /\ portTasks'[l] \in {<<>>, <<"close">>}
             /\ handle[l] /\ ~listening[l]
  <2>1. q = <<"postAccept">> \/ q = <<"postAccept", "close">>
    BY <1>1, <1>4, <1>5, <1>7
  <2>2. handle[l] /\ ~listening[l]
    BY <1>4, <2>1 DEF PortInv, LoopsInv
  <2> QED BY <1>3, <1>4, <1>5, <2>1, <2>2 DEF Asking
<1>8. ASSUME task = "close" PROVE portTasks[l] = <<"close">> /\ portTasks'[l] = <<>>
  BY <1>1, <1>3, <1>4, <1>5, <1>8
<1> QED BY <1>1, <1>3, <1>6, <1>7, <1>8

\* A loop that gives up its handle, with or without having listened.
LEMMA HandleIsLost ==
  ASSUME PortTypeOK, NEW l \in Loops, handle[l], handle' = [handle EXCEPT ![l] = FALSE]
  PROVE  /\ Cardinality(HandleLoops) = Cardinality(HandleLoops') + 1
         /\ Cardinality(HandleLoops') \in Nat
         /\ \A k \in Loops : handle'[k] <=> handle[k] /\ k # l
<1>1. \A k \in Loops : handle'[k] <=> handle[k] /\ k # l
  BY DEF PortTypeOK
<1>2. HandleLoops' = HandleLoops \ {l} /\ l \in HandleLoops
  BY <1>1 DEF HandleLoops
<1>3. IsFiniteSet(HandleLoops) /\ Cardinality(HandleLoops) \in Nat
  <2>1. HandleLoops \in SUBSET Loops
    BY DEF HandleLoops
  <2> QED BY <2>1, LoopSets
<1>4. Cardinality(HandleLoops \ {l}) = Cardinality(HandleLoops) - 1 /\ IsFiniteSet(HandleLoops \ {l})
  BY <1>2, <1>3, FS_RemoveElement
<1>5. Cardinality(HandleLoops \ {l}) \in Nat
  BY <1>4, FS_CardinalityType
<1> QED BY <1>1, <1>2, <1>3, <1>4, <1>5

\* While a loop is about to listen, somebody else holds the port as well.
LEMMA NotTheLast ==
  ASSUME PortInv, Sound, NEW l \in Loops, portTasks[l] \in {<<"postAccept">>, <<"postAccept", "close">>}
  PROVE  portRefs >= 2
<1>1. handle[l]
  BY DEF PortInv, LoopsInv
<1>2. IsFiniteSet(LiveConnections)
  BY DEF PortInv, PortCountInv
<1>3. /\ Closing = {k \in Loops : portTasks[k] \in Asking}
      /\ Cardinality(Closing) \in Nat /\ IsFiniteSet(Closing)
      /\ Cardinality(HandleLoops) \in Nat /\ IsFiniteSet(HandleLoops)
      /\ Cardinality(LiveConnections) \in Nat /\ OwnerShare \in 0..1
  BY <1>2, PortCardinalities DEF PortInv
<1>4. Cardinality(HandleLoops) >= 1
  <2>1. HandleLoops # {}
    BY <1>1 DEF HandleLoops
  <2>2. Cardinality(HandleLoops) # 0
    BY <1>3, <2>1, FS_EmptySet
  <2> QED BY <1>3, <2>2
<1>5. OwnerShare + Cardinality(Closing) >= 1
  <2>1. CASE OwnerShare = 1
    BY <1>3, <2>1
  <2>2. CASE OwnerShare # 1
    <3>1. ownerPc \in {"create", "closed"}
      BY <2>2 DEF OwnerShare, PortInv, PortTypeOK, OwnerPcs
    <3>2. ownerPc = "closed"
      BY <1>1, <3>1 DEF PortInv, OwnerInv
    <3>3. l \in Closing
      BY <1>1, <1>3, <3>2 DEF PortInv, OwnerInv, LoopsInv
    <3>4. Cardinality(Closing) # 0
      BY <1>3, <3>3, FS_EmptySet
    <3> QED BY <1>3, <3>4
  <2> QED BY <2>1, <2>2
<1>6. portRefs = OwnerShare + Cardinality(HandleLoops) + Cardinality(Closing) + Cardinality(LiveConnections)
  BY DEF PortInv, PortCountInv
<1> QED BY <1>3, <1>4, <1>5, <1>6

LEMMA PostAcceptKeepsPort ==
  ASSUME PortInv, NEW l \in Loops,
         (\E ok \in BOOLEAN : PostAccept(l, ok)) \/ CancelAccept(l)
  PROVE  PortInv'
<1>1. /\ Turn(l, "postAccept")
      /\ UNCHANGED <<bTcp, bActive, map, conns, at, ownerPc, scanned, serviceUp, ioUp, accepted>>
  BY DEF PostAccept, CancelAccept
<1>2. /\ at[l] = <<"poll">> /\ Sound
      /\ portTasks' \in [Loops -> PortTasks]
      /\ \A k \in Loops : k # l => portTasks'[k] = portTasks[k]
      /\ portTasks[l] \in {<<"postAccept">>, <<"postAccept", "close">>}
      /\ portTasks[l] \in Asking <=> portTasks'[l] \in Asking
      /\ portTasks'[l] \in {<<>>, <<"close">>}
      /\ handle[l] /\ ~listening[l]
  BY <1>1, TurnLeaves
<1>3. PeersInv'
  BY <1>1 DEF PortInv, PeersInv, Making
<1>4. Closing' = Closing
  <2>1. /\ Closing = {k \in Loops : portTasks[k] \in Asking}
        /\ Closing' = {k \in Loops : portTasks'[k] \in Asking}
    BY <1>2, ClosingIs DEF Closing, PortInv, PortTypeOK
  <2> QED BY <1>2, <2>1
<1>5. LiveConnections' = LiveConnections /\ OwnerShare' = OwnerShare
  BY <1>1, PortFrame
<1>6. OwnerInv'
  <2>1. ownerPc \notin {"create", "refused"}
    BY <1>2 DEF PortInv, OwnerInv
  <2> QED BY <1>1, <2>1 DEF PortInv, OwnerInv
<1>7. portTasks'[l] \notin {<<"postAccept">>, <<"postAccept", "close">>}
  BY <1>2
<1>8. CASE /\ listening' = [listening EXCEPT ![l] = TRUE]
           /\ UNCHANGED <<handle, portRefs, ownerRefs, portFaults, failed>>
  <2>1. PortTypeOK'
    BY <1>1, <1>2, <1>8 DEF PortInv, PortTypeOK
  <2>2. LoopsInv'
    <3>1. \A k \in Loops : listening'[k] <=> listening[k] \/ k = l
      BY <1>8 DEF PortInv, PortTypeOK
    <3> QED BY <1>1, <1>2, <1>7, <1>8, <3>1 DEF PortInv, LoopsInv
  <2>3. PortCountInv'
    <3>1. HandleLoops' = HandleLoops /\ OwnerHolders' = OwnerHolders /\ Sound' = Sound
      BY <1>1, <1>8, PortFrame DEF OwnerHolders, Sound
    <3> QED BY <1>4, <1>5, <1>8, <3>1 DEF PortInv, PortCountInv
  <2> QED BY <1>1, <1>3, <1>6, <1>8, <2>1, <2>2, <2>3 DEF PortInv
<1>9. CASE /\ handle' = [handle EXCEPT ![l] = FALSE] /\ failed' = TRUE
           /\ portRefs' = portRefs - 1 /\ ownerRefs' = ownerRefs /\ portFaults' = portFaults
           /\ UNCHANGED listening
  <2>1. PortTypeOK'
    BY <1>1, <1>2, <1>9 DEF PortInv, PortTypeOK
  <2>2. \A k \in Loops : handle'[k] <=> handle[k] /\ k # l
    BY <1>2, <1>9, HandleIsLost DEF PortInv
  <2>3. LoopsInv'
    BY <1>1, <1>2, <1>7, <1>9, <2>2 DEF PortInv, LoopsInv
  <2>4. PortCountInv'
    <3>1. IsFiniteSet(LiveConnections)
      BY DEF PortInv, PortCountInv
    <3>2. /\ Cardinality(Closing) \in Nat /\ Cardinality(LiveConnections) \in Nat
          /\ portRefs \in Int /\ OwnerShare \in 0..1
      BY <3>1, PortCardinalities DEF PortInv
    <3>3. /\ Cardinality(HandleLoops) = Cardinality(HandleLoops') + 1
          /\ Cardinality(HandleLoops') \in Nat
      BY <1>2, <1>9, HandleIsLost DEF PortInv
    <3>4. portRefs = OwnerShare + Cardinality(HandleLoops) + Cardinality(Closing)
                     + Cardinality(LiveConnections)
      BY <1>2 DEF PortInv, PortCountInv
    <3>5. portRefs' = OwnerShare' + Cardinality(HandleLoops') + Cardinality(Closing')
                      + Cardinality(LiveConnections')
      BY <1>4, <1>5, <1>9, <3>2, <3>3, <3>4
    <3>6. portRefs >= 2
      BY <1>2, NotTheLast
    <3>7. portRefs > 0 /\ portRefs' > 0
      BY <1>9, <3>2, <3>6
    <3>8. OwnerHolders' = OwnerHolders
      BY <1>1, <3>7 DEF OwnerHolders
    <3> QED BY <1>2, <1>5, <1>9, <3>1, <3>5, <3>8 DEF PortInv, PortCountInv
  <2> QED BY <1>1, <1>3, <1>6, <1>9, <2>1, <2>3, <2>4 DEF PortInv
<1>10. portRefs >= 2 /\ portRefs \in Int
  BY <1>2, NotTheLast DEF PortInv, PortTypeOK
<1>11. CASE \E ok \in BOOLEAN : PostAccept(l, ok)
  <2>1. PICK ok \in BOOLEAN : PostAccept(l, ok)
    BY <1>11
  <2>2. CASE ok
    BY <1>8, <2>1, <2>2 DEF PostAccept
  <2>3. CASE ~ok
    <3>1. handle' = [handle EXCEPT ![l] = FALSE] /\ failed' = TRUE /\ ReleasePort(1) /\ UNCHANGED listening
      BY <2>1, <2>3 DEF PostAccept
    <3>2. portRefs' = portRefs - 1 /\ ownerRefs' = ownerRefs /\ portFaults' = portFaults
      BY <1>10, <3>1 DEF ReleasePort
    <3> QED BY <1>9, <3>1, <3>2
  <2> QED BY <2>2, <2>3
<1>12. CASE CancelAccept(l)
  <2>1. /\ handle' = [handle EXCEPT ![l] = FALSE] /\ failed' = TRUE /\ UNCHANGED listening
        /\ portRefs' = portRefs - 1 /\ ownerRefs' = ownerRefs /\ portFaults' = portFaults
    BY <1>10, <1>12 DEF CancelAccept
  <2> QED BY <1>9, <2>1
<1> QED BY <1>11, <1>12

LEMMA InLoopCloseKeepsPort ==
  ASSUME PortInv, NEW l \in Loops, InLoopClose(l)
  PROVE  PortInv'
<1>1. /\ Turn(l, "close")
      /\ listening' = [listening EXCEPT ![l] = FALSE]
      /\ handle' = [handle EXCEPT ![l] = FALSE]
      /\ UNCHANGED <<bTcp, bActive, map, conns, at, ownerPc, scanned, serviceUp, ioUp, failed, accepted>>
  BY DEF InLoopClose
<1>2. /\ at[l] = <<"poll">> /\ Sound
      /\ portTasks' \in [Loops -> PortTasks]
      /\ \A k \in Loops : k # l => portTasks'[k] = portTasks[k]
      /\ portTasks[l] = <<"close">> /\ portTasks'[l] = <<>>
  BY <1>1, TurnLeaves
<1>3. PeersInv'
  BY <1>1 DEF PortInv, PeersInv, Making
<1>4. LiveConnections' = LiveConnections /\ OwnerShare' = OwnerShare
  BY <1>1, PortFrame
<1>5. portTasks[l] \in Asking /\ portTasks'[l] \notin Asking
  BY <1>2 DEF Asking
<1>6. Closing' = Closing \ {l} /\ l \in Closing
  <2>1. /\ Closing = {k \in Loops : portTasks[k] \in Asking}
        /\ Closing' = {k \in Loops : portTasks'[k] \in Asking}
    BY <1>2, ClosingIs DEF Closing, PortInv, PortTypeOK
  <2> QED BY <1>2, <1>5, <2>1
<1>7. /\ \A k \in Loops : handle'[k] <=> handle[k] /\ k # l
      /\ \A k \in Loops : listening'[k] <=> listening[k] /\ k # l
  BY <1>1 DEF PortInv, PortTypeOK
<1>8. LoopsInv'
  BY <1>1, <1>2, <1>5, <1>7 DEF PortInv, LoopsInv
<1>9. OwnerInv'
  <2>1. ownerPc \notin {"create", "refused"}
    BY <1>2 DEF PortInv, OwnerInv
  <2> QED BY <1>1, <2>1 DEF PortInv, OwnerInv
<1>10. IsFiniteSet(LiveConnections)
  BY DEF PortInv, PortCountInv
<1>11. handle' \in [Loops -> BOOLEAN] /\ listening' \in [Loops -> BOOLEAN]
  BY <1>1 DEF PortInv, PortTypeOK
<1>12. CASE ~handle[l]
  <2>1. portFaults' = portFaults \cup {"null"} /\ UNCHANGED <<portRefs, ownerRefs>>
    BY <1>12 DEF InLoopClose
  <2>2. failed
    BY <1>5, <1>12 DEF PortInv, LoopsInv
  <2>3. PortTypeOK'
    BY <1>1, <1>2, <1>11, <2>1 DEF PortInv, PortTypeOK
  <2>4. PortCountInv'
    BY <1>4, <1>10, <2>1 DEF PortCountInv, Sound
  <2> QED BY <1>1, <1>3, <1>8, <1>9, <2>2, <2>3, <2>4 DEF PortInv
<1>13. CASE handle[l]
  <2>1. ReleasePort(2)
    BY <1>13 DEF InLoopClose
  <2>2. /\ Cardinality(HandleLoops) = Cardinality(HandleLoops') + 1
        /\ Cardinality(HandleLoops') \in Nat
    BY <1>1, <1>13, HandleIsLost DEF PortInv
  <2>3. /\ Cardinality(Closing) \in Nat /\ IsFiniteSet(Closing)
        /\ Cardinality(LiveConnections) \in Nat
        /\ portRefs \in Int /\ ownerRefs \in Int /\ OwnerShare \in 0..1
    BY <1>10, PortCardinalities DEF PortInv
  <2>4. Cardinality(Closing) = Cardinality(Closing') + 1 /\ Cardinality(Closing') \in Nat
    <3>1. IsFiniteSet(Closing') /\ Cardinality(Closing') = Cardinality(Closing) - 1
      BY <1>6, <2>3, FS_RemoveElement
    <3> QED BY <2>3, <3>1, FS_CardinalityType
  <2>5. portRefs = OwnerShare + Cardinality(HandleLoops) + Cardinality(Closing)
                   + Cardinality(LiveConnections)
    BY <1>2 DEF PortInv, PortCountInv
  <2>6. portRefs >= 2
    BY <2>2, <2>3, <2>4, <2>5
  <2>7. /\ portRefs' = portRefs - 2 /\ portFaults' = portFaults
        /\ ownerRefs' = IF portRefs = 2 THEN ownerRefs - 1 ELSE ownerRefs
    BY <2>1, <2>3, <2>6 DEF ReleasePort
  <2>8. portRefs' = OwnerShare + Cardinality(HandleLoops') + Cardinality(Closing')
                    + Cardinality(LiveConnections)
    BY <2>2, <2>3, <2>4, <2>5, <2>7
  <2>9. ownerRefs' = OwnerHolders'
    <3>1. portRefs' > 0 <=> portRefs # 2
      BY <2>3, <2>6, <2>7
    <3>2. ownerRefs = (IF ownerPc \in {"create", "open", "closing"} THEN 1 ELSE 0) + 1
      <4>1. portRefs > 0
        BY <2>3, <2>6
      <4> QED BY <1>2, <4>1 DEF PortInv, PortCountInv, OwnerHolders
    <3>3. OwnerHolders' = (IF ownerPc \in {"create", "open", "closing"} THEN 1 ELSE 0)
                          + (IF portRefs' > 0 THEN 1 ELSE 0)
      BY <1>1 DEF OwnerHolders
    <3> QED BY <2>7, <3>1, <3>2, <3>3
  <2>10. PortTypeOK'
    <3>1. portRefs' \in Int /\ ownerRefs' \in Int
      BY <2>3, <2>7
    <3> QED BY <1>1, <1>2, <1>11, <2>7, <3>1 DEF PortInv, PortTypeOK
  <2>11. PortCountInv'
    BY <1>4, <1>10, <2>8, <2>9 DEF PortCountInv
  <2> QED BY <1>1, <1>3, <1>8, <1>9, <2>7, <2>10, <2>11 DEF PortInv
<1> QED BY <1>12, <1>13

\* A connection more, of a loop that listens.
LEMMA AcceptedCounts ==
  ASSUME PortInv, Sound, NEW l \in Loops, listening[l], NEW p \in Peers, Accepted(p),
         UNCHANGED <<ownerRefs, handle, portTasks, ownerPc>>
  PROVE  /\ PortCountInv' /\ portRefs' \in Int /\ accepted' \in Nat
         /\ conns' \in [Peers -> Nat] /\ conns' = [conns EXCEPT ![p] = @ + 1]
         /\ portFaults' \in SUBSET {"null", "refused"}
         /\ "null" \in portFaults' => "null" \in portFaults
<1>1. /\ accepted' = accepted + 1
      /\ conns' = [conns EXCEPT ![p] = @ + 1]
      /\ portRefs' = portRefs + 1
      /\ portFaults' = IF serviceUp THEN portFaults ELSE portFaults \cup {"refused"}
  BY DEF Accepted
<1>2. IsFiniteSet(LiveConnections)
  BY DEF PortInv, PortCountInv
<1>3. /\ Cardinality(Closing) \in Nat /\ Cardinality(HandleLoops) \in Nat /\ IsFiniteSet(HandleLoops)
      /\ Cardinality(LiveConnections) \in Nat
      /\ portRefs \in Int /\ OwnerShare \in 0..1
  BY <1>2, PortCardinalities DEF PortInv
<1>4. /\ IsFiniteSet(LiveConnections')
      /\ Cardinality(LiveConnections') = Cardinality(LiveConnections) + 1
  <2>1. LiveConnections = Pairs(conns) /\ LiveConnections' = Pairs(conns')
    BY DEF LiveConnections, Pairs
  <2>2. conns \in [Peers -> Nat]
    BY DEF PortInv, PortTypeOK
  <2> QED BY <1>1, <1>2, <2>1, <2>2, OneMoreConnection
<1>5. HandleLoops' = HandleLoops /\ Closing' = Closing /\ OwnerShare' = OwnerShare
  BY PortFrame
<1>6. portRefs = OwnerShare + Cardinality(HandleLoops) + Cardinality(Closing)
                 + Cardinality(LiveConnections)
  BY DEF PortInv, PortCountInv
<1>7. portRefs' = OwnerShare' + Cardinality(HandleLoops') + Cardinality(Closing')
                  + Cardinality(LiveConnections')
  BY <1>1, <1>3, <1>4, <1>5, <1>6
<1>8. portRefs > 0 /\ portRefs' > 0
  <2>1. l \in HandleLoops
    BY DEF PortInv, LoopsInv, HandleLoops
  <2>2. Cardinality(HandleLoops) # 0
    BY <1>3, <2>1, FS_EmptySet
  <2> QED BY <1>1, <1>3, <1>6, <2>2
<1>9. OwnerHolders' = OwnerHolders
  BY <1>8 DEF OwnerHolders
<1>10. PortCountInv'
  BY <1>4, <1>7, <1>9 DEF PortInv, PortCountInv
<1> QED BY <1>1, <1>3, <1>10 DEF PortInv, PortTypeOK

\* The counts, when only the loops' datagrams and the map change.
LEMMA PortCountStays ==
  ASSUME PortInv,
         UNCHANGED <<portRefs, ownerRefs, handle, portTasks, conns, ownerPc, portFaults>>
  PROVE  PortCountInv'
<1>1. /\ HandleLoops' = HandleLoops /\ Closing' = Closing /\ OwnerShare' = OwnerShare
      /\ LiveConnections' = LiveConnections
  BY PortFrame
<1>2. OwnerHolders' = OwnerHolders /\ Sound' = Sound
  BY DEF OwnerHolders, Sound
<1> QED BY <1>1, <1>2 DEF PortInv, PortCountInv

LEMMA AcceptTcpKeepsPort ==
  ASSUME PortInv, NEW l \in Loops, NEW p \in Peers, AcceptTcp(l, p)
  PROVE  PortInv'
<1>1. /\ bTcp /\ Sound /\ listening[l] /\ Accepted(p)
      /\ UNCHANGED <<bTcp, bActive, ownerRefs, handle, listening, portTasks, map, at, ownerPc, scanned,
                     serviceUp, ioUp, failed>>
  BY DEF AcceptTcp, Polled
<1>2. /\ PortCountInv' /\ portRefs' \in Int /\ accepted' \in Nat
      /\ conns' \in [Peers -> Nat]
      /\ portFaults' \in SUBSET {"null", "refused"}
      /\ "null" \in portFaults' => "null" \in portFaults
  BY <1>1, AcceptedCounts
<1>3. PortTypeOK'
  BY <1>1, <1>2 DEF PortInv, PortTypeOK
<1>4. LoopsInv'
  BY <1>1 DEF PortInv, LoopsInv
<1>5. OwnerInv'
  <2>1. handle[l]
    BY <1>1 DEF PortInv, LoopsInv
  <2> QED BY <1>1, <2>1 DEF PortInv, OwnerInv
<1>6. PeersInv'
  BY <1>1 DEF PeersInv
<1> QED BY <1>1, <1>2, <1>3, <1>4, <1>5, <1>6 DEF PortInv

LEMMA DatagramKeepsPort ==
  ASSUME PortInv, NEW l \in Loops, NEW p \in Peers, Datagram(l, p)
  PROVE  PortInv'
<1>1. /\ ~bTcp /\ listening[l] /\ at' = [at EXCEPT ![l] = <<"unknown", p>>] /\ at[l] = <<"poll">>
      /\ UNCHANGED <<bTcp, bActive, portRefs, ownerRefs, handle, listening, portTasks, map, conns,
                     ownerPc, scanned, serviceUp, ioUp, portFaults, failed, accepted>>
  BY DEF Datagram, Polled
<1>2. PortTypeOK'
  <2>1. at' \in [Loops -> {<<"poll">>} \cup ({"unknown", "making"} \X Peers)]
    BY <1>1 DEF PortInv, PortTypeOK
  <2> QED BY <1>1, <2>1 DEF PortInv, PortTypeOK
<1>3. \A k \in Loops : at'[k] = IF k = l THEN <<"unknown", p>> ELSE at[k]
  BY <1>1 DEF PortInv, PortTypeOK
<1>4. LoopsInv' /\ OwnerInv'
  BY <1>1, <1>3 DEF PortInv, LoopsInv, OwnerInv
<1>5. PeersInv'
  <2>1. \A k \in Loops, q \in Peers : Making(k, q)' <=> Making(k, q)
    BY <1>1, <1>3 DEF Making
  <2> QED BY <1>1, <2>1 DEF PortInv, PeersInv
<1>6. PortCountInv'
  BY <1>1, PortCountStays
<1> QED BY <1>1, <1>2, <1>4, <1>5, <1>6 DEF PortInv

LEMMA RegisterKeepsPort ==
  ASSUME PortInv, NEW l \in Loops, Register(l)
  PROVE  PortInv'
<1>1. /\ at[l][1] = "unknown"
      /\ UNCHANGED <<bTcp, bActive, portRefs, ownerRefs, handle, listening, portTasks, conns, ownerPc,
                     scanned, serviceUp, ioUp, portFaults, failed, accepted>>
  BY DEF Register
<1>2. PICK p \in Peers : at[l] = <<"unknown", p>>
  BY <1>1 DEF PortInv, PortTypeOK
<1>3. /\ at' = [at EXCEPT ![l] = IF p \notin map THEN <<"making", p>> ELSE <<"poll">>]
      /\ map' = map \cup {p}
  BY <1>2 DEF Register, IsStillNew
<1>4. PortTypeOK'
  <2>1. at' \in [Loops -> {<<"poll">>} \cup ({"unknown", "making"} \X Peers)]
    BY <1>3 DEF PortInv, PortTypeOK
  <2> QED BY <1>1, <1>3, <2>1 DEF PortInv, PortTypeOK
<1>5. /\ \A k \in Loops : k # l => at'[k] = at[k]
      /\ at'[l] = IF p \notin map THEN <<"making", p>> ELSE <<"poll">>
  BY <1>3 DEF PortInv, PortTypeOK
<1>6. listening[l] /\ ~bTcp
  BY <1>2 DEF PortInv, LoopsInv
<1>7. LoopsInv' /\ OwnerInv'
  BY <1>1, <1>5, <1>6 DEF PortInv, LoopsInv, OwnerInv
<1>8. /\ \A k \in Loops, q \in Peers : k # l => (Making(k, q)' <=> Making(k, q))
      /\ \A q \in Peers : ~Making(l, q)
      /\ \A q \in Peers : Making(l, q)' <=> q = p /\ p \notin map
  BY <1>2, <1>5 DEF Making
<1>9. PeersInv'
  <2> SUFFICES ASSUME NEW q \in Peers
               PROVE  /\ \A j, k \in Loops : Making(j, q)' /\ Making(k, q)' => j = k
                      /\ conns[q] > 0 => conns[q] = 1 /\ \A k \in Loops : ~Making(k, q)'
                      /\ q \in map' <=> conns[q] > 0 \/ \E k \in Loops : Making(k, q)'
    BY <1>1 DEF PeersInv
  <2>1. /\ \A j, k \in Loops : Making(j, q) /\ Making(k, q) => j = k
        /\ conns[q] > 0 => conns[q] = 1 /\ \A k \in Loops : ~Making(k, q)
        /\ q \in map <=> conns[q] > 0 \/ \E k \in Loops : Making(k, q)
    BY <1>6 DEF PortInv, PeersInv
  <2>2. CASE q = p /\ p \notin map
    BY <1>3, <1>8, <2>1, <2>2
  <2>3. CASE ~(q = p /\ p \notin map)
    <3>1. \A k \in Loops : Making(k, q)' <=> Making(k, q)
      BY <1>8, <2>3
    <3>2. q \in map' <=> q \in map
      BY <1>3, <2>3
    <3> QED BY <2>1, <3>1, <3>2
  <2> QED BY <2>2, <2>3
<1>10. PortCountInv'
  BY <1>1, PortCountStays
<1> QED BY <1>1, <1>4, <1>6, <1>7, <1>9, <1>10 DEF PortInv

LEMMA MakeConnectionKeepsPort ==
  ASSUME PortInv, NEW l \in Loops, NEW ok \in BOOLEAN, MakeConnection(l, ok)
  PROVE  PortInv'
<1>1. /\ at[l][1] = "making" /\ Sound /\ at' = [at EXCEPT ![l] = <<"poll">>]
      /\ UNCHANGED <<bTcp, bActive, ownerRefs, handle, listening, portTasks, ownerPc, scanned, serviceUp,
                     ioUp, failed>>
  BY DEF MakeConnection
<1>2. PICK p \in Peers : at[l] = <<"making", p>>
  BY <1>1 DEF PortInv, PortTypeOK
<1>3. listening[l] /\ handle[l] /\ ~bTcp
  BY <1>2 DEF PortInv, LoopsInv
<1>4. /\ at' \in [Loops -> {<<"poll">>} \cup ({"unknown", "making"} \X Peers)]
      /\ \A k \in Loops : at'[k] = IF k = l THEN <<"poll">> ELSE at[k]
  BY <1>1 DEF PortInv, PortTypeOK
<1>5. LoopsInv'
  BY <1>1, <1>3, <1>4 DEF PortInv, LoopsInv
<1>6. /\ \A k \in Loops, q \in Peers : Making(k, q)' <=> k # l /\ Making(k, q)
      /\ \A q \in Peers : Making(l, q) <=> q = p
  BY <1>2, <1>4 DEF Making
<1>7. \A q \in Peers :
        /\ \A j, k \in Loops : Making(j, q) /\ Making(k, q) => j = k
        /\ conns[q] > 0 => conns[q] = 1 /\ \A k \in Loops : ~Making(k, q)
        /\ q \in map <=> conns[q] > 0 \/ \E k \in Loops : Making(k, q)
        /\ conns[q] \in Nat
  BY <1>3 DEF PortInv, PeersInv, PortTypeOK
<1>8. conns[p] = 0 /\ \A k \in Loops : ~Making(k, p)'
  BY <1>6, <1>7
<1>9. ownerPc # "create"
  BY <1>3 DEF PortInv, OwnerInv
<1>10. CASE ok
  <2>1. Accepted(p) /\ map' = map
    BY <1>2, <1>10 DEF MakeConnection
  <2>2. /\ PortCountInv' /\ portRefs' \in Int /\ accepted' \in Nat
        /\ conns' \in [Peers -> Nat] /\ conns' = [conns EXCEPT ![p] = @ + 1]
        /\ portFaults' \in SUBSET {"null", "refused"}
        /\ "null" \in portFaults' => "null" \in portFaults
    BY <1>1, <1>3, <2>1, AcceptedCounts
  <2>3. PortTypeOK'
    BY <1>1, <1>4, <2>1, <2>2 DEF PortInv, PortTypeOK
  <2>4. OwnerInv'
    BY <1>1, <1>9 DEF PortInv, OwnerInv
  <2>5. conns'[p] = 1 /\ \A q \in Peers : q # p => conns'[q] = conns[q]
    BY <1>8, <2>2 DEF PortInv, PortTypeOK
  <2>6. PeersInv'
    <3> SUFFICES ASSUME NEW q \in Peers
                 PROVE  /\ \A j, k \in Loops : Making(j, q)' /\ Making(k, q)' => j = k
                        /\ conns'[q] > 0 => conns'[q] = 1 /\ \A k \in Loops : ~Making(k, q)'
                        /\ q \in map <=> conns'[q] > 0 \/ \E k \in Loops : Making(k, q)'
      BY <1>1, <2>1 DEF PeersInv
    <3>1. CASE q = p
      BY <1>6, <1>7, <1>8, <2>5, <3>1
    <3>2. CASE q # p
      BY <1>6, <1>7, <2>5, <3>2
    <3> QED BY <3>1, <3>2
  <2> QED BY <1>1, <1>3, <1>5, <2>2, <2>3, <2>4, <2>6 DEF PortInv
<1>11. CASE ~ok
  <2>1. map' = map \ {p} /\ UNCHANGED <<accepted, conns, portRefs, portFaults>>
    BY <1>2, <1>11 DEF MakeConnection
  <2>2. PortTypeOK'
    BY <1>1, <1>4, <2>1 DEF PortInv, PortTypeOK
  <2>3. OwnerInv'
    BY <1>1, <1>9 DEF PortInv, OwnerInv
  <2>4. PeersInv'
    <3> SUFFICES ASSUME NEW q \in Peers
                 PROVE  /\ \A j, k \in Loops : Making(j, q)' /\ Making(k, q)' => j = k
                        /\ conns[q] > 0 => conns[q] = 1 /\ \A k \in Loops : ~Making(k, q)'
                        /\ q \in map' <=> conns[q] > 0 \/ \E k \in Loops : Making(k, q)'
      BY <1>1, <2>1 DEF PeersInv
    <3>1. CASE q = p
      BY <1>7, <1>8, <2>1, <3>1
    <3>2. CASE q # p
      BY <1>6, <1>7, <2>1, <3>2
    <3> QED BY <3>1, <3>2
  <2>5. PortCountInv'
    BY <1>1, <2>1, PortCountStays
  <2> QED BY <1>1, <1>3, <1>5, <2>1, <2>2, <2>3, <2>4, <2>5 DEF PortInv
<1> QED BY <1>10, <1>11

LEMMA ConnectionFreedKeepsPort ==
  ASSUME PortInv, NEW p \in Peers, ConnectionFreed(p)
  PROVE  PortInv'
<1>1. /\ conns[p] > 0 /\ Sound
      /\ conns' = [conns EXCEPT ![p] = @ - 1]
      /\ map' = IF bTcp THEN map ELSE map \ {p}
      /\ portRefs' = portRefs - 1
      /\ ownerRefs' = IF portRefs = 1 THEN ownerRefs - 1 ELSE ownerRefs
      /\ UNCHANGED <<bTcp, bActive, handle, listening, portTasks, at, ownerPc, scanned, serviceUp,
                     ioUp, failed, accepted>>
  BY DEF ConnectionFreed
<1>2. conns \in [Peers -> Nat] /\ portRefs \in Int /\ ownerRefs \in Int
  BY DEF PortInv, PortTypeOK
<1>3. /\ IsFiniteSet(LiveConnections') /\ IsFiniteSet(LiveConnections)
      /\ Cardinality(LiveConnections) = Cardinality(LiveConnections') + 1
  <2>1. LiveConnections = Pairs(conns) /\ LiveConnections' = Pairs(conns')
    BY DEF LiveConnections, Pairs
  <2>2. IsFiniteSet(LiveConnections)
    BY DEF PortInv, PortCountInv
  <2> QED BY <1>1, <1>2, <2>1, <2>2, OneConnectionLess
<1>4. /\ Cardinality(Closing) \in Nat /\ Cardinality(HandleLoops) \in Nat
      /\ Cardinality(LiveConnections') \in Nat /\ OwnerShare \in 0..1
  BY <1>3, PortCardinalities, FS_CardinalityType DEF PortInv
<1>5. portRefs = OwnerShare + Cardinality(HandleLoops) + Cardinality(Closing)
                 + Cardinality(LiveConnections)
  BY <1>1 DEF PortInv, PortCountInv
<1>6. HandleLoops' = HandleLoops /\ Closing' = Closing /\ OwnerShare' = OwnerShare
  BY <1>1, PortFrame
<1>7. portRefs' = OwnerShare' + Cardinality(HandleLoops') + Cardinality(Closing')
                  + Cardinality(LiveConnections')
  BY <1>1, <1>2, <1>3, <1>4, <1>5, <1>6
<1>8. portRefs >= 1
  BY <1>2, <1>3, <1>4, <1>5
<1>9. ownerRefs' = OwnerHolders'
  <2>1. portRefs > 0 /\ (portRefs' > 0 <=> portRefs # 1)
    BY <1>1, <1>2, <1>8
  <2>2. ownerRefs = (IF ownerPc \in {"create", "open", "closing"} THEN 1 ELSE 0) + 1
    BY <1>1, <2>1 DEF PortInv, PortCountInv, OwnerHolders
  <2>3. OwnerHolders' = (IF ownerPc \in {"create", "open", "closing"} THEN 1 ELSE 0)
                        + (IF portRefs' > 0 THEN 1 ELSE 0)
    BY <1>1 DEF OwnerHolders
  <2> QED BY <1>1, <2>1, <2>2, <2>3
<1>10. ~bTcp => p \in map /\ conns[p] = 1
  BY <1>1 DEF PortInv, PeersInv
<1>11. portFaults' = portFaults
  BY <1>2, <1>8, <1>10 DEF ConnectionFreed
<1>12. conns' \in [Peers -> Nat] /\ \A q \in Peers : conns'[q] = IF q = p THEN conns[q] - 1 ELSE conns[q]
  BY <1>1, <1>2
<1>13. PortTypeOK'
  <2>1. portRefs' \in Int /\ ownerRefs' \in Int
    BY <1>1, <1>2
  <2>2. map' \in SUBSET Peers
    BY <1>1 DEF PortInv, PortTypeOK
  <2> QED BY <1>1, <1>11, <1>12, <2>1, <2>2 DEF PortInv, PortTypeOK
<1>14. LoopsInv'
  BY <1>1 DEF PortInv, LoopsInv
<1>15. OwnerInv'
  <2>1. ownerPc # "create"
    BY <1>1 DEF PortInv, OwnerInv
  <2> QED BY <1>1, <2>1 DEF PortInv, OwnerInv
<1>16. PeersInv'
  <2> SUFFICES ASSUME ~bTcp, NEW q \in Peers
               PROVE  /\ \A l, k \in Loops : Making(l, q) /\ Making(k, q) => l = k
                      /\ conns'[q] > 0 => conns'[q] = 1 /\ \A l \in Loops : ~Making(l, q)
                      /\ q \in map' <=> conns'[q] > 0 \/ \E l \in Loops : Making(l, q)
    BY <1>1 DEF PeersInv, Making
  <2>1. /\ \A l, k \in Loops : Making(l, q) /\ Making(k, q) => l = k
        /\ conns[q] > 0 => conns[q] = 1 /\ \A l \in Loops : ~Making(l, q)
        /\ q \in map <=> conns[q] > 0 \/ \E l \in Loops : Making(l, q)
    BY DEF PortInv, PeersInv
  <2>2. CASE q = p
    <3>1. conns'[q] = 0 /\ q \notin map' /\ \A l \in Loops : ~Making(l, q)
      BY <1>1, <1>10, <1>12, <2>1, <2>2
    <3> QED BY <2>1, <3>1
  <2>3. CASE q # p
    <3>1. conns'[q] = conns[q] /\ (q \in map' <=> q \in map)
      BY <1>1, <1>12, <2>3
    <3> QED BY <2>1, <3>1
  <2> QED BY <2>2, <2>3
<1>17. PortCountInv'
  BY <1>3, <1>7, <1>9 DEF PortCountInv
<1> QED BY <1>1, <1>11, <1>13, <1>14, <1>15, <1>16, <1>17 DEF PortInv

LEMMA PortStutters == ASSUME PortInv, UNCHANGED portVars PROVE PortInv'
<1>1. UNCHANGED <<bTcp, bActive, portRefs, ownerRefs, handle, listening, portTasks, map, conns, at,
                  ownerPc, scanned, serviceUp, ioUp, portFaults, failed, accepted>>
  BY DEF portVars
<1>2. PortTypeOK' /\ LoopsInv' /\ OwnerInv'
  BY <1>1 DEF PortInv, PortTypeOK, LoopsInv, OwnerInv
<1>3. PeersInv'
  BY <1>1 DEF PortInv, PeersInv, Making
<1>4. PortCountInv'
  BY <1>1, PortCountStays
<1> QED BY <1>1, <1>2, <1>3, <1>4 DEF PortInv

LEMMA PortSteps == ASSUME PortInv, PortNext PROVE PortInv'
<1>1. CASE \E free \in BOOLEAN : Start(free)
  BY <1>1, StartKeepsPort
<1>2. CASE CloseBegins \/ ServiceEnds \/ EventIOEnds
  BY <1>2, CloseBeginsKeepsPort
<1>3. CASE OwnerCloses
  BY <1>3, CloseOneKeepsPort, CloseReturnsKeepsPort DEF OwnerCloses
<1>4. ASSUME NEW l \in Loops, LoopGoesOn(l) PROVE PortInv'
  <2>1. CASE (\E ok \in BOOLEAN : PostAccept(l, ok)) \/ CancelAccept(l)
    BY <2>1, PostAcceptKeepsPort
  <2>2. CASE InLoopClose(l)
    BY <2>2, InLoopCloseKeepsPort
  <2>3. CASE Register(l)
    BY <2>3, RegisterKeepsPort
  <2>4. CASE \E ok \in BOOLEAN : MakeConnection(l, ok)
    BY <2>4, MakeConnectionKeepsPort
  <2> QED BY <1>4, <2>1, <2>2, <2>3, <2>4 DEF LoopGoesOn, LoopTask
<1>5. ASSUME NEW l \in Loops, NEW p \in Peers, AcceptTcp(l, p) \/ Datagram(l, p) PROVE PortInv'
  BY <1>5, AcceptTcpKeepsPort, DatagramKeepsPort
<1>6. ASSUME NEW p \in Peers, ConnectionFreed(p) PROVE PortInv'
  BY <1>6, ConnectionFreedKeepsPort
<1> QED BY <1>1, <1>2, <1>3, <1>4, <1>5, <1>6 DEF PortNext

LEMMA PortImplies == PortInv => PortCounted /\ OneConnectionPerPeer
<1> SUFFICES ASSUME PortInv PROVE PortCounted /\ OneConnectionPerPeer
  OBVIOUS
<1>1. PortCounted
  BY DEF PortInv, PortTypeOK, PortCountInv, PortCounted, PortHolders, HandleLoops, OwnerShare
<1>2. ASSUME ~bTcp, NEW p \in Peers
      PROVE  LET making == {l \in Loops : at[l] = <<"making", p>>} IN
             /\ conns[p] + Cardinality(making) <= 1
             /\ p \in map <=> conns[p] + Cardinality(making) = 1
  <2> DEFINE making == {l \in Loops : at[l] = <<"making", p>>}
  <2>1. /\ \A l, k \in making : l = k
        /\ conns[p] > 0 => conns[p] = 1 /\ making = {}
        /\ p \in map <=> conns[p] > 0 \/ making # {}
        /\ conns[p] \in Nat
    BY <1>2 DEF PortInv, PeersInv, PortTypeOK, Making
  <2> HIDE DEF making
  <2>2. CASE making = {}
    <3>1. Cardinality(making) = 0
      BY <2>2, FS_EmptySet
    <3>2. conns[p] = 0 \/ conns[p] = 1
      BY <2>1
    <3> QED BY <2>1, <2>2, <3>1, <3>2 DEF making
  <2>3. CASE making # {}
    <3>1. PICK l : making = {l}
      BY <2>1, <2>3
    <3>2. Cardinality(making) = 1
      BY <3>1, FS_Singleton
    <3>3. conns[p] = 0
      BY <2>1, <2>3
    <3> QED BY <2>1, <2>3, <3>2, <3>3 DEF making
  <2> QED BY <2>2, <2>3
<1>3. OneConnectionPerPeer
  BY <1>2 DEF OneConnectionPerPeer
<1> QED BY <1>1, <1>3

-----------------------------------------------------------------------------
(* The process.                                                            *)

Places == {"poll", "entering", "in", "leaving", "left", "joining"}
MonitorSlots == [destination : Nat, version : Nat, checked : Nat]

ThreadInv ==
  /\ thStatus \in {"Starting", "Running", "Stopping", "Stopped"}
  /\ thPc \in {"none", "begin", "dispatch", "post", "release", "over"}
  /\ mainPc \in {"init", "starting", "up", "joins", "join", "done"}
  /\ dispatched \in BOOLEAN /\ waited \in BOOLEAN
  /\ mainPc = "init" <=> thPc = "none"
  /\ thStatus = "Stopped" => thPc \in {"none", "release", "over"}
  /\ thPc \in {"none", "begin"} => ~dispatched
  /\ thPc # "dispatch" => check[1] = "idle"
  /\ dispatched /\ thPc # "dispatch" => \A w \in Slots : where[w] = "left"
  /\ waited => thPc \in {"release", "over"}
  /\ thRefs = (IF mainPc # "done" THEN 1 ELSE 0)
              + (IF thPc \notin {"none", "over"} THEN 1 ELSE 0)

MonitorTypeOK ==
  /\ slot \in [Slots -> MonitorSlots]
  /\ where \in [Slots -> Places]
  /\ nth \in [Slots -> Nat] /\ seen \in [Slots -> Nat]
  /\ check \in {<<"idle", 0>>} \cup ({"load", "send", "clear"} \X Slots)

\* A slot that was noted since its thread counted names what the check has seen there;
\* and a slot names nobody but the callback that its thread is in.
SlotInv(w) ==
  /\ slot[w].checked <= slot[w].version
  /\ where[w] \in {"in", "joining"} /\ slot[w].checked = slot[w].version => seen[w] = nth[w]
  /\ slot[w].destination # 0 =>
       where[w] \in {"entering", "in", "joining"} /\ slot[w].destination = nth[w]

\* What the check is about to send it has seen, or it changed under its eyes.
SendInv(w) ==
  check = <<"send", w>> =>
    seen[w] = slot[w].destination \/ <<w, slot[w].destination>> \in raced

MonitorInv ==
  /\ MonitorTypeOK
  /\ \A w \in Slots : SlotInv(w) /\ SendInv(w)
  /\ AlarmsAreRight

EnvInv == ThreadInv /\ MonitorInv

LEMMA InitEnv == EnvInit => EnvInv
<1> SUFFICES ASSUME EnvInit PROVE EnvInv
  OBVIOUS
<1>1. ThreadInv
  <2>1. /\ thStatus = "Stopped" /\ thRefs = 1 /\ thPc = "none" /\ mainPc = "init"
        /\ check = <<"idle", 0>> /\ ~dispatched /\ ~waited
        /\ dispatched \in BOOLEAN /\ waited \in BOOLEAN
    BY Zenon DEF EnvInit
  <2> QED BY <2>1 DEF ThreadInv
<1>2. MonitorTypeOK
  BY DEF EnvInit, MonitorTypeOK, MonitorSlots, Places
<1>3. \A w \in Slots : SlotInv(w) /\ SendInv(w)
  <2> TAKE w \in Slots
  <2>1. slot[w].destination = 0 /\ slot[w].version = 0 /\ slot[w].checked = 0
        /\ where[w] = "poll" /\ check = <<"idle", 0>>
    BY DEF EnvInit
  <2> QED BY <2>1 DEF SlotInv, SendInv
<1>4. AlarmsAreRight
  BY DEF EnvInit, AlarmsAreRight
<1> QED BY <1>1, <1>2, <1>3, <1>4 DEF EnvInv, MonitorInv

\* The dispatching thread, and whoever stops it.
LEMMA DispatcherKeepsThread ==
  ASSUME ThreadInv, DispatchStep \/ HostStop
  PROVE  ThreadInv' /\ UNCHANGED <<slot, check, seen, raced, alarms, workerVars>>
<1> USE DEF ThreadInv
<1>1. CASE ThreadBegins
  BY <1>1 DEF ThreadBegins, monitorVars, workerVars
<1>2. ASSUME NEW ok \in BOOLEAN, RunBootstrap(ok)
      PROVE  ThreadInv' /\ UNCHANGED <<monitorVars, workerVars>>
  <2>1. /\ thStatus' = thStatus \/ thStatus' = "Stopping" 
        /\ thPc = "dispatch"
        /\ UNCHANGED <<thRefs, thPc, mainPc, dispatched, waited, monitorVars, workerVars>>
    BY <1>2 DEF RunBootstrap, StopThread
  <2> QED BY <2>1 DEF monitorVars, workerVars
<1>3. CASE DispatchReturns
  BY <1>3 DEF DispatchReturns, monitorVars, workerVars
<1>4. CASE ThreadStopped
  BY <1>4 DEF ThreadStopped, monitorVars, workerVars
<1>5. CASE ThreadReleases
  <2>1. /\ thPc = "release" /\ thRefs' = thRefs - 1 /\ thPc' = "over"
        /\ UNCHANGED <<thStatus, mainPc, dispatched, waited, check, where, monitorVars, workerVars>>
    BY <1>5 DEF ThreadReleases, monitorVars, workerVars
  <2> QED BY <2>1 DEF monitorVars
<1>6. CASE HostStop
  <2>1. /\ thStatus' = "Stopping" /\ thStatus \in {"Starting", "Running"}
        /\ UNCHANGED <<thRefs, thPc, mainPc, dispatched, waited, monitorVars, workerVars>>
    BY <1>6 DEF HostStop, StopThread, Stops
  <2> QED BY <2>1 DEF monitorVars, workerVars
<1>7. CASE MonitorTimerStarts
  BY <1>7 DEF MonitorTimerStarts, threadVars, workerVars
<1> QED BY <1>1, <1>2, <1>3, <1>4, <1>5, <1>6, <1>7 DEF DispatchStep, monitorVars

LEMMA ScriptKeepsThread ==
  ASSUME ThreadInv, MainStep \/ MainCalls
  PROVE  /\ ThreadInv'
         /\ UNCHANGED <<watching, slot, check, seen, raced, alarms, workerVars>>
<1> USE DEF ThreadInv, MainGoes
<1>1. CASE StartReturns
  BY <1>1 DEF StartReturns, workerVars
<1>2. CASE JoinLooks
  BY <1>2 DEF JoinLooks, monitorVars, workerVars
<1>3. CASE JoinReturns
  BY <1>3 DEF JoinReturns, monitorVars, workerVars
<1>4. CASE StartThread
  BY <1>4 DEF StartThread, monitorVars, workerVars
<1>5. CASE Wait
  BY <1>5 DEF Wait, monitorVars, workerVars
<1>6. CASE LenvStop
  <2>1. /\ mainPc = "up" /\ mainPc' \in {"joins", "up"}
        /\ \/ thStatus' = thStatus
           \/ thStatus' = "Stopping" /\ thStatus \in {"Starting", "Running"}
        /\ UNCHANGED <<thRefs, thPc, dispatched, waited, monitorVars, workerVars>>
    BY <1>6 DEF LenvStop, StopThread, Stops
  <2> QED BY <2>1 DEF monitorVars, workerVars
<1>7. CASE Exit
  BY <1>7 DEF Exit, workerVars
<1> QED BY <1>1, <1>2, <1>3, <1>4, <1>5, <1>6, <1>7 DEF MainStep, MainCalls

\* A loop thread that takes a step has not left: the dispatching thread dispatches, or
\* never did.
LEMMA WorkerKeepsThread ==
  ASSUME ThreadInv, NEW w \in Slots, where[w] # "left",
         UNCHANGED <<thRefs, thPc, mainPc, dispatched, waited, check>>,
         \/ thStatus' = thStatus
         \/ thStatus' = "Stopping" /\ thStatus \in {"Starting", "Running"}
  PROVE  ThreadInv'
BY DEF ThreadInv

LEMMA CheckKeepsThread ==
  ASSUME ThreadInv, thPc = "dispatch", UNCHANGED threadVars
  PROVE  ThreadInv'
BY DEF ThreadInv, threadVars

\* A step of one loop thread, as far as the monitor goes.
LEMMA SlotStep ==
  ASSUME MonitorInv, MonitorTypeOK', NEW w \in Slots,
         \A v \in Slots \ {w} : slot'[v] = slot[v] /\ where'[v] = where[v] /\ nth'[v] = nth[v],
         UNCHANGED <<seen, check, alarms>>, raced \subseteq raced',
         SlotInv(w)', SendInv(w)'
  PROVE  MonitorInv'
<1>1. ASSUME NEW v \in Slots, v # w PROVE SlotInv(v)' /\ SendInv(v)'
  BY <1>1 DEF MonitorInv, SlotInv, SendInv
<1>2. AlarmsAreRight'
  BY DEF MonitorInv, AlarmsAreRight
<1> QED BY <1>1, <1>2 DEF MonitorInv

LEMMA WrittenSlot ==
  ASSUME MonitorInv, NEW w \in Slots, NEW s \in MonitorSlots, Written(w, s)
  PROVE  /\ slot' \in [Slots -> MonitorSlots]
         /\ slot'[w] = s /\ \A v \in Slots \ {w} : slot'[v] = slot[v]
         /\ raced \subseteq raced'
         /\ SendInv(w)'
         /\ UNCHANGED <<seen, check, alarms, threadVars>>
<1>1. /\ slot' = [slot EXCEPT ![w] = s] /\ raced' = Meets(w, s)
      /\ UNCHANGED <<seen, check, alarms, threadVars>>
  BY DEF Written
<1>2. slot' \in [Slots -> MonitorSlots] /\ slot'[w] = s /\ \A v \in Slots \ {w} : slot'[v] = slot[v]
  BY <1>1 DEF MonitorInv, MonitorTypeOK
<1>3. raced \subseteq raced' /\ (check[2] = w => <<w, s.destination>> \in raced')
  BY <1>1 DEF Meets
<1>4. SendInv(w)'
  BY <1>1, <1>2, <1>3 DEF SendInv
<1> QED BY <1>1, <1>2, <1>3, <1>4

LEMMA SlotFields ==
  ASSUME NEW s \in MonitorSlots, NEW n \in Nat
  PROVE  /\ [s EXCEPT !.version = @ + 1] \in MonitorSlots
         /\ [s EXCEPT !.destination = n] \in MonitorSlots
         /\ [s EXCEPT !.checked = s.version] \in MonitorSlots
BY DEF MonitorSlots

LEMMA WorkerSteps ==
  ASSUME EnvInv, NEW w \in Slots,
         \/ WorkerStep(w) \/ LenvStopByService(w) \/ MonitorStartStop(w)
         \/ \E ends \in BOOLEAN : EnterStores(w, ends)
  PROVE  EnvInv'
<1>1. /\ slot[w] \in MonitorSlots /\ where[w] \in Places /\ nth[w] \in Nat /\ seen[w] \in Nat
      /\ slot[w].checked <= slot[w].version
      /\ slot[w].version \in Nat /\ slot[w].checked \in Nat /\ slot[w].destination \in Nat
      /\ SlotInv(w) /\ SendInv(w) /\ MonitorInv /\ ThreadInv
  BY DEF EnvInv, MonitorInv, MonitorTypeOK, MonitorSlots, SlotInv
<1>2. ASSUME NEW from \in Places, NEW to \in Places, WorkerGoes(w, from, to)
      PROVE  /\ where' \in [Slots -> Places] /\ where[w] = from /\ where'[w] = to
             /\ \A v \in Slots \ {w} : where'[v] = where[v]
  BY <1>2 DEF WorkerGoes, EnvInv, MonitorInv, MonitorTypeOK
<1>3. ASSUME NEW s \in MonitorSlots, Written(w, s), where[w] # "left",
             where' \in [Slots -> Places], \A v \in Slots \ {w} : where'[v] = where[v],
             nth' \in [Slots -> Nat], \A v \in Slots \ {w} : nth'[v] = nth[v],
             slot'[w] = s => SlotInv(w)'
      PROVE  EnvInv'
  <2>1. /\ slot' \in [Slots -> MonitorSlots]
        /\ slot'[w] = s /\ \A v \in Slots \ {w} : slot'[v] = slot[v]
        /\ raced \subseteq raced'
        /\ SendInv(w)'
        /\ UNCHANGED <<seen, check, alarms, threadVars>>
    BY <1>1, <1>3, WrittenSlot
  <2>2. MonitorTypeOK'
    BY <1>1, <1>3, <2>1 DEF MonitorInv, MonitorTypeOK
  <2>3. MonitorInv'
    BY <1>1, <1>3, <2>1, <2>2, SlotStep
  <2>4. ThreadInv'
    BY <1>1, <1>3, <2>1, WorkerKeepsThread DEF threadVars
  <2> QED BY <2>3, <2>4 DEF EnvInv
<1>4. CASE EnterCounts(w)
  <2>1. /\ WorkerGoes(w, "entering", "in") /\ nth' = nth
        /\ Written(w, [slot[w] EXCEPT !.version = @ + 1])
    BY <1>4 DEF EnterCounts
  <2>2. PICK s \in MonitorSlots : s = [slot[w] EXCEPT !.version = @ + 1]
    BY <1>1, SlotFields
  <2>3. /\ s.version = slot[w].version + 1 /\ s.checked = slot[w].checked
        /\ s.destination = slot[w].destination
    BY <1>1, <2>2 DEF MonitorSlots
  <2>4. /\ where' \in [Slots -> Places] /\ where[w] = "entering" /\ where'[w] = "in"
        /\ \A v \in Slots \ {w} : where'[v] = where[v]
    BY <1>2, <2>1 DEF Places
  <2>5. s.checked <= s.version /\ s.checked # s.version
    BY <1>1, <2>3
  <2>6. slot'[w] = s => SlotInv(w)'
    BY <1>1, <2>1, <2>3, <2>4, <2>5 DEF SlotInv
  <2> QED BY <1>1, <1>3, <2>1, <2>2, <2>4, <2>6 DEF MonitorInv, MonitorTypeOK
<1>5. CASE LeaveStores(w)
  <2>1. /\ WorkerGoes(w, "in", "leaving") /\ nth' = nth
        /\ Written(w, [slot[w] EXCEPT !.destination = 0])
    BY <1>5 DEF LeaveStores
  <2>2. PICK s \in MonitorSlots : s = [slot[w] EXCEPT !.destination = 0]
    BY <1>1, SlotFields
  <2>3. /\ s.version = slot[w].version /\ s.checked = slot[w].checked
        /\ s.destination = 0
    BY <1>1, <2>2 DEF MonitorSlots
  <2>4. /\ where' \in [Slots -> Places] /\ where[w] = "in" /\ where'[w] = "leaving"
        /\ \A v \in Slots \ {w} : where'[v] = where[v]
    BY <1>2, <2>1 DEF Places
  <2>6. slot'[w] = s => SlotInv(w)'
    BY <1>1, <2>1, <2>3, <2>4 DEF SlotInv
  <2> QED BY <1>1, <1>3, <2>1, <2>2, <2>4, <2>6 DEF MonitorInv, MonitorTypeOK
<1>6. CASE LeaveCounts(w)
  <2>1. /\ WorkerGoes(w, "leaving", "poll") /\ nth' = nth
        /\ Written(w, [slot[w] EXCEPT !.version = @ + 1])
    BY <1>6 DEF LeaveCounts
  <2>2. PICK s \in MonitorSlots : s = [slot[w] EXCEPT !.version = @ + 1]
    BY <1>1, SlotFields
  <2>3. /\ s.version = slot[w].version + 1 /\ s.checked = slot[w].checked
        /\ s.destination = slot[w].destination
    BY <1>1, <2>2 DEF MonitorSlots
  <2>4. /\ where' \in [Slots -> Places] /\ where[w] = "leaving" /\ where'[w] = "poll"
        /\ \A v \in Slots \ {w} : where'[v] = where[v]
    BY <1>2, <2>1 DEF Places
  <2>5. s.checked <= s.version /\ s.destination = 0
    BY <1>1, <2>3, <2>4 DEF SlotInv
  <2>6. slot'[w] = s => SlotInv(w)'
    BY <1>1, <2>1, <2>4, <2>5 DEF SlotInv
  <2> QED BY <1>1, <1>3, <2>1, <2>2, <2>4, <2>6 DEF MonitorInv, MonitorTypeOK
<1>7. CASE \E ends \in BOOLEAN : EnterStores(w, ends)
  <2>1. /\ WorkerGoes(w, "poll", "entering") /\ nth' = [nth EXCEPT ![w] = @ + 1]
        /\ Written(w, [slot[w] EXCEPT !.destination = nth[w] + 1])
    BY <1>7 DEF EnterStores
  <2>2. PICK s \in MonitorSlots : s = [slot[w] EXCEPT !.destination = nth[w] + 1]
    <3>1. PICK n \in Nat : n = nth[w] + 1
      BY <1>1
    <3> QED BY <1>1, <3>1, SlotFields
  <2>3. /\ s.version = slot[w].version /\ s.checked = slot[w].checked
        /\ s.destination = nth[w] + 1
    BY <1>1, <2>2 DEF MonitorSlots
  <2>4. /\ where' \in [Slots -> Places] /\ where[w] = "poll" /\ where'[w] = "entering"
        /\ \A v \in Slots \ {w} : where'[v] = where[v]
    BY <1>2, <2>1 DEF Places
  <2>5. /\ nth' \in [Slots -> Nat] /\ nth'[w] = nth[w] + 1
        /\ \A v \in Slots \ {w} : nth'[v] = nth[v]
    BY <2>1 DEF EnvInv, MonitorInv, MonitorTypeOK
  <2>6. slot'[w] = s => SlotInv(w)'
    BY <1>1, <2>3, <2>4, <2>5 DEF SlotInv
  <2> QED BY <1>1, <1>3, <2>1, <2>2, <2>4, <2>5, <2>6
<1>8. ASSUME UNCHANGED <<slot, seen, check, raced, alarms, nth>>,
             where' \in [Slots -> Places], \A v \in Slots \ {w} : where'[v] = where[v],
             where[w] # "left",
             \/ where'[w] = "left" /\ where[w] = "poll"
             \/ where'[w] \in {where[w], "joining"} /\ where[w] = "in",
             UNCHANGED <<thRefs, thPc, mainPc, dispatched, waited>>,
             \/ thStatus' = thStatus
             \/ thStatus' = "Stopping" /\ thStatus \in {"Starting", "Running"}
      PROVE  EnvInv'
  <2>1. SlotInv(w)' /\ SendInv(w)'
    BY <1>1, <1>8 DEF SlotInv, SendInv
  <2>2. MonitorTypeOK'
    BY <1>1, <1>8 DEF MonitorInv, MonitorTypeOK
  <2>3. MonitorInv'
    BY <1>1, <1>8, <2>1, <2>2, SlotStep
  <2>4. ThreadInv'
    BY <1>1, <1>8, WorkerKeepsThread
  <2> QED BY <2>3, <2>4 DEF EnvInv
<1>9. CASE LoopLeaves(w)
  <2>1. /\ WorkerGoes(w, "poll", "left")
        /\ UNCHANGED <<nth, threadVars, monitorVars>>
    BY <1>9 DEF LoopLeaves
  <2>2. /\ where' \in [Slots -> Places] /\ where[w] = "poll" /\ where'[w] = "left"
        /\ \A v \in Slots \ {w} : where'[v] = where[v]
    BY <1>2, <2>1 DEF Places
  <2> QED BY <1>8, <2>1, <2>2 DEF threadVars, monitorVars
<1>10. CASE LenvStopByService(w)
  <2>1. /\ WorkerGoes(w, "in", "joining") /\ Stops /\ StopThread
        /\ UNCHANGED <<thRefs, thPc, mainPc, dispatched, waited, nth, monitorVars>>
    BY <1>10 DEF LenvStopByService
  <2>2. /\ where' \in [Slots -> Places] /\ where[w] = "in" /\ where'[w] = "joining"
        /\ \A v \in Slots \ {w} : where'[v] = where[v]
    BY <1>2, <2>1 DEF Places
  <2>3. thStatus' = "Stopping" /\ thStatus \in {"Starting", "Running"}
    BY <2>1 DEF Stops, StopThread
  <2> QED BY <1>8, <2>1, <2>2, <2>3 DEF monitorVars
<1>11. CASE MonitorStartStop(w)
  <2>1. /\ where[w] = "in" /\ where' = where
        /\ UNCHANGED <<nth, slot, check, seen, raced, alarms, threadVars>>
    BY <1>11 DEF MonitorStartStop, workerVars
  <2>2. where' \in [Slots -> Places]
    BY <1>1, <2>1 DEF MonitorInv, MonitorTypeOK
  <2> QED BY <1>8, <2>1, <2>2 DEF threadVars
<1> QED BY <1>4, <1>5, <1>6, <1>7, <1>9, <1>10, <1>11 DEF WorkerStep

\* The check, a step on one slot.
LEMMA CheckKeepsMonitor ==
  ASSUME MonitorInv, CheckStep
  PROVE  MonitorInv'
<1>1. /\ MonitorTypeOK /\ AlarmsAreRight
      /\ \A w \in Slots : /\ SlotInv(w) /\ SendInv(w)
                          /\ slot[w].version \in Nat /\ slot[w].checked \in Nat
                          /\ slot[w].destination \in Nat /\ nth[w] \in Nat
                          /\ [slot[w] EXCEPT !.checked = slot[w].version] \in MonitorSlots
                          /\ [slot[w] EXCEPT !.destination = 0] \in MonitorSlots
  BY SlotFields DEF MonitorInv, MonitorTypeOK, MonitorSlots
<1>2. ASSUME NEW w \in Slots
      PROVE  /\ NextSlot(w) \in {<<"idle", 0>>} \cup ({"load"} \X Slots)
             /\ \A v \in Slots : NextSlot(w) # <<"send", v>>
  <2>1. w # Workers => w + 1 \in Slots
    BY EnvironmentAssumption DEF Slots
  <2> QED BY <2>1 DEF NextSlot
<1>3. CASE CheckBegins
  <2>1. /\ check' = <<"load", 1>>
        /\ UNCHANGED <<slot, seen, raced, alarms, where, nth>>
    BY <1>3 DEF CheckBegins, workerVars
  <2>2. 1 \in Slots
    BY EnvironmentAssumption DEF Slots
  <2>3. MonitorTypeOK'
    BY <1>1, <2>1, <2>2 DEF MonitorTypeOK
  <2>4. \A w \in Slots : SlotInv(w)' /\ SendInv(w)'
    BY <1>1, <2>1 DEF SlotInv, SendInv
  <2> QED BY <1>1, <2>1, <2>3, <2>4 DEF MonitorInv, AlarmsAreRight
<1>4. ASSUME NEW w \in Slots, CheckLoads(w) PROVE MonitorInv'
  <2>1. /\ check = <<"load", w>>
        /\ UNCHANGED <<alarms, where, nth>>
        /\ raced' = IF where[w] = "entering" THEN raced \union {<<w, nth[w]>>} ELSE raced
        /\ raced \subseteq raced'
    BY <1>4 DEF CheckLoads, Checks, workerVars
  <2>2. AlarmsAreRight'
    BY <1>1, <2>1 DEF AlarmsAreRight
  <2>3. CASE slot[w].version = slot[w].checked
    <3>1. /\ check' = IF slot[w].destination # 0 THEN <<"send", w>> ELSE NextSlot(w)
          /\ UNCHANGED <<slot, seen>>
      BY <1>4, <2>3 DEF CheckLoads
    <3>2. MonitorTypeOK'
      BY <1>1, <1>2, <2>1, <3>1 DEF MonitorTypeOK
    <3>3. \A v \in Slots : SlotInv(v)'
      BY <1>1, <2>1, <3>1 DEF SlotInv
    <3>4. slot[w].destination # 0 =>
            seen[w] = slot[w].destination \/ <<w, slot[w].destination>> \in raced'
      BY <1>1, <2>1, <2>3 DEF SlotInv
    <3>5. \A v \in Slots : SendInv(v)'
      <4> TAKE v \in Slots
      <4>1. check' = <<"send", v>> => v = w /\ slot[w].destination # 0
        BY <1>2, <3>1
      <4> QED BY <3>1, <3>4, <4>1 DEF SendInv
    <3> QED BY <2>2, <3>2, <3>3, <3>5 DEF MonitorInv
  <2>4. CASE slot[w].version # slot[w].checked
    <3>1. /\ slot' = [slot EXCEPT ![w].checked = slot[w].version]
          /\ seen' = [seen EXCEPT ![w] = IF where[w] \in {"in", "joining"} THEN nth[w] ELSE 0]
          /\ check' = NextSlot(w)
      BY <1>4, <2>4 DEF CheckLoads
    <3>2. PICK s \in MonitorSlots : s = [slot[w] EXCEPT !.checked = slot[w].version]
      BY <1>1
    <3>3. /\ s.version = slot[w].version /\ s.checked = slot[w].version
          /\ s.destination = slot[w].destination
      BY <1>1, <3>2 DEF MonitorSlots, MonitorTypeOK
    <3>4. slot' = [slot EXCEPT ![w] = s]
      BY <3>1, <3>2
    <3>5. PICK n \in Nat : n = IF where[w] \in {"in", "joining"} THEN nth[w] ELSE 0
      BY <1>1
    <3>6. seen' = [seen EXCEPT ![w] = n]
      BY <3>1, <3>5
    <3>7. MonitorTypeOK'
      BY <1>1, <1>2, <2>1, <3>1, <3>4, <3>6 DEF MonitorTypeOK
    <3>8. /\ slot'[w] = s /\ seen'[w] = n
          /\ \A v \in Slots : v # w => slot'[v] = slot[v] /\ seen'[v] = seen[v]
      BY <1>1, <3>4, <3>6 DEF MonitorTypeOK
    <3>9. SlotInv(w)'
      <4>1. /\ slot'[w].version = slot[w].version /\ slot'[w].checked = slot[w].version
            /\ slot'[w].destination = slot[w].destination /\ seen'[w] = n
            /\ where'[w] = where[w] /\ nth'[w] = nth[w]
        BY <2>1, <3>3, <3>8
      <4>2. SlotInv(w) /\ slot[w].version \in Nat
        BY <1>1
      <4>3. where[w] \in {"in", "joining"} => n = nth[w]
        BY <3>5
      <4> QED BY <4>1, <4>2, <4>3 DEF SlotInv
    <3>10. \A v \in Slots : SlotInv(v)'
      BY <1>1, <2>1, <3>8, <3>9 DEF SlotInv
    <3>11. \A v \in Slots : SendInv(v)'
      BY <1>2, <3>1 DEF SendInv
    <3> QED BY <2>2, <3>7, <3>10, <3>11 DEF MonitorInv
  <2> QED BY <2>3, <2>4
<1>5. ASSUME NEW w \in Slots, CheckSends(w) PROVE MonitorInv'
  <2>1. /\ check = <<"send", w>> /\ check' = <<"clear", w>>
        /\ UNCHANGED <<slot, seen, raced, where, nth>>
        /\ alarms' = alarms \union {<<w, slot[w].destination, seen[w] = slot[w].destination>>}
    BY <1>5 DEF CheckSends, Checks, workerVars
  <2>2. MonitorTypeOK'
    BY <1>1, <2>1 DEF MonitorTypeOK
  <2>3. \A v \in Slots : SlotInv(v)' /\ SendInv(v)'
    BY <1>1, <2>1 DEF SlotInv, SendInv
  <2>4. seen[w] = slot[w].destination \/ <<w, slot[w].destination>> \in raced
    BY <1>1, <2>1 DEF SendInv
  <2>5. AlarmsAreRight'
    <3>1. PICK d : d = slot[w].destination
      OBVIOUS
    <3>2. PICK right \in BOOLEAN : right = (seen[w] = slot[w].destination)
      OBVIOUS
    <3>3. right \/ <<w, d>> \in raced
      BY <2>4, <3>1, <3>2
    <3>4. alarms' = alarms \union {<<w, d, right>>}
      BY <2>1, <3>1, <3>2
    <3>5. ASSUME NEW a \in alarms' PROVE a[3] \/ <<a[1], a[2]>> \in raced
      <4>1. CASE a \in alarms
        BY <1>1, <4>1 DEF AlarmsAreRight
      <4>2. CASE a = <<w, d, right>>
        <5>1. a[1] = w /\ a[2] = d /\ a[3] = right
          BY <4>2
        <5> QED BY <3>3, <5>1
      <4> QED BY <3>4, <3>5, <4>1, <4>2
    <3> QED BY <2>1, <3>5 DEF AlarmsAreRight
  <2> QED BY <2>2, <2>3, <2>5 DEF MonitorInv
<1>6. ASSUME NEW w \in Slots, CheckClears(w) PROVE MonitorInv'
  <2>1. /\ slot' = [slot EXCEPT ![w].destination = 0]
        /\ check' = NextSlot(w)
        /\ UNCHANGED <<seen, raced, alarms, where, nth>>
    BY <1>6 DEF CheckClears, workerVars
  <2>2. PICK s \in MonitorSlots : s = [slot[w] EXCEPT !.destination = 0]
    BY <1>1
  <2>3. s.version = slot[w].version /\ s.checked = slot[w].checked /\ s.destination = 0
    BY <1>1, <2>2 DEF MonitorSlots, MonitorTypeOK
  <2>4. slot' = [slot EXCEPT ![w] = s]
    BY <2>1, <2>2
  <2>5. MonitorTypeOK'
    BY <1>1, <1>2, <2>1, <2>4 DEF MonitorTypeOK
  <2>6. slot'[w] = s /\ \A v \in Slots : v # w => slot'[v] = slot[v]
    BY <1>1, <2>4 DEF MonitorTypeOK
  <2>7. \A v \in Slots : SlotInv(v)'
    BY <1>1, <2>1, <2>3, <2>6, ZenonT(40) DEF SlotInv
  <2>8. \A v \in Slots : SendInv(v)'
    BY <1>2, <2>1 DEF SendInv
  <2> QED BY <1>1, <2>1, <2>5, <2>7, <2>8 DEF MonitorInv, AlarmsAreRight
<1> QED BY <1>3, <1>4, <1>5, <1>6 DEF CheckStep

LEMMA MonitorStays ==
  ASSUME MonitorInv, UNCHANGED <<slot, check, seen, raced, alarms, where, nth>>
  PROVE  MonitorInv'
BY DEF MonitorInv, MonitorTypeOK, SlotInv, SendInv, AlarmsAreRight

LEMMA EnvStutters ==
  ASSUME EnvInv, UNCHANGED envVars
  PROVE  EnvInv'
<1>1. ThreadInv'
  BY DEF EnvInv, ThreadInv, envVars, threadVars, monitorVars, workerVars
<1>2. MonitorInv'
  BY MonitorStays DEF EnvInv, envVars, monitorVars, workerVars
<1> QED BY <1>1, <1>2 DEF EnvInv

LEMMA EnvSteps ==
  ASSUME EnvInv, EnvNext
  PROVE  EnvInv'
<1>1. ThreadInv /\ MonitorInv
  BY DEF EnvInv
<1>2. CASE DispatchStep \/ HostStop
  BY <1>1, <1>2, DispatcherKeepsThread, MonitorStays DEF EnvInv, workerVars
<1>3. CASE MainStep \/ MainCalls
  BY <1>1, <1>3, ScriptKeepsThread, MonitorStays DEF EnvInv, workerVars
<1>4. CASE CheckStep
  <2>1. thPc = "dispatch" /\ UNCHANGED <<threadVars, workerVars>>
    BY <1>4 DEF CheckStep, CheckBegins, CheckLoads, CheckSends, CheckClears, Checks
  <2>2. ThreadInv'
    BY <1>1, <2>1, CheckKeepsThread
  <2> QED BY <1>1, <1>4, <2>2, CheckKeepsMonitor DEF EnvInv
<1>5. ASSUME NEW w \in Slots,
             \/ WorkerStep(w) \/ LenvStopByService(w) \/ MonitorStartStop(w)
             \/ \E ends \in BOOLEAN : EnterStores(w, ends)
      PROVE  EnvInv'
  BY <1>5, WorkerSteps
<1> QED BY <1>2, <1>3, <1>4, <1>5 DEF EnvNext

LEMMA EnvImplies == EnvInv => EnvironmentCounted /\ AlarmsAreRight
<1> SUFFICES ASSUME EnvInv PROVE EnvironmentCounted /\ AlarmsAreRight
  OBVIOUS
<1>1. waited /\ dispatched => check[1] = "idle" /\ \A w \in Slots : where[w] = "left"
  BY DEF EnvInv, ThreadInv
<1>2. thRefs = (IF mainPc # "done" THEN 1 ELSE 0)
               + (IF thPc \notin {"none", "over"} THEN 1 ELSE 0)
  BY DEF EnvInv, ThreadInv
<1>3. AlarmsAreRight
  BY DEF EnvInv, MonitorInv
<1> QED BY <1>1, <1>2, <1>3 DEF EnvironmentCounted

-----------------------------------------------------------------------------
(* The query.                                                              *)

Posted == {<<>>, <<"reply">>, <<"timeout">>}
UdpQueues == {<<>>, <<"connect">>, <<"forceClose">>}
Silences == {"answered at once", "not connected", "disconnected"}
Helds == [dns : Int, conn : Int, freed : SUBSET {"dns", "conn"}]

DnsTypeOK ==
  /\ hQuery \in BOOLEAN /\ hTimeout \in BOOLEAN /\ udpBound \in BOOLEAN
  /\ fnOnDisconnect \in BOOLEAN /\ early \in BOOLEAN
  /\ held \in Helds
  /\ udpStatus \in {"Disconnected", "Connecting", "Connected"}
  /\ udpSock \in {"none", "unpolled", "polled", "deaf", "closed"}
  /\ udpTasks \in UdpQueues
  /\ resolverAt \in {"poll", "connected", "bind", "release", "received", "error"}
  /\ timeoutAt \in {"none", "armed", "stopped", "fired", "closing", "over"}
  /\ asker \in {"ask", "wait", "over"}
  /\ dnsEvents \in Posted /\ replies \in Posted
  /\ silences \in SUBSET Silences

\* Whoever exchanges the connection answers, or closes it: a query whose connection is
\* there was not answered, and its connection is not being closed.
QueryInv ==
  /\ hQuery => replies = <<>> /\ udpTasks # <<"forceClose">>
  /\ dnsEvents # <<>> => replies # <<>>
  /\ hQuery /\ resolverAt # "connected" => udpStatus # "Disconnected"

\* How far the connection has come, and what its loop has queued for it.
SocketInv ==
  /\ asker = "ask" => /\ udpSock = "none" /\ udpTasks = <<>> /\ ~hQuery /\ silences = {}
                      /\ held = [dns |-> 0, conn |-> 0, freed |-> {}]
  /\ udpSock = "none" => /\ resolverAt = "poll" /\ timeoutAt = "none" /\ ~udpBound /\ ~early
                         /\ replies = <<>>
                         /\ silences \subseteq {"answered at once"}
                         /\ hQuery <=> udpTasks = <<"connect">>
  /\ udpTasks = <<"connect">> => udpSock = "none" /\ udpStatus = "Connecting"
  /\ udpTasks = <<"forceClose">> => /\ udpStatus = "Disconnected" /\ replies # <<"reply">>
                                    /\ udpSock \in {"unpolled", "polled", "deaf"}
  /\ resolverAt = "connected" =>
       /\ hQuery /\ timeoutAt = "none" /\ udpTasks = <<>> /\ ~udpBound
       /\ \/ udpSock = "unpolled" /\ udpStatus = "Connecting"
          \/ udpSock = "closed" /\ udpStatus = "Disconnected"
  /\ resolverAt = "bind" => /\ udpSock = "unpolled" /\ timeoutAt # "none"
                            /\ udpStatus \in {"Connecting", "Disconnected"}
                            /\ hQuery <=> udpStatus = "Connecting"
  /\ resolverAt \in {"received", "error"} => udpSock = "polled"
  /\ udpSock = "unpolled" => /\ early \/ resolverAt \in {"connected", "bind"}
                             /\ ~udpBound /\ "not connected" \notin silences
                             /\ replies # <<"reply">>
  /\ udpSock \in {"polled", "deaf"} => udpBound
  /\ udpSock = "deaf" => resolverAt = "poll" /\ ~hQuery
  /\ udpSock = "closed" /\ hQuery => resolverAt = "connected"
  /\ udpBound => udpSock \notin {"none", "unpolled"} /\ "not connected" \notin silences
  /\ early => ~udpBound /\ ~hQuery /\ resolverAt \in {"release", "poll"}
  /\ "not connected" \in silences => udpSock = "closed" /\ ~hQuery
  /\ ~udpBound /\ ~early /\ udpSock = "closed" => resolverAt = "connected" \/ "not connected" \in silences

DnsCountInv ==
  /\ ~early => Good
  /\ Good => held.dns = DnsHolders /\ (~early => held.conn = UdpHolders)

DnsInv == DnsTypeOK /\ QueryInv /\ SocketInv /\ DnsCountInv

LEMMA OneLong ==
  /\ Len(<<>>) = 0
  /\ \A x : /\ Append(<<>>, x) = <<x>> /\ Len(<<x>>) = 1 /\ <<x>> # <<>>
            /\ Head(<<x>>) = x /\ Tail(<<x>>) = <<>>
<1>1. ASSUME NEW x PROVE Append(<<>>, x) = <<x>>
  <2>1. <<>> \in Seq({x}) /\ <<x>> \in Seq({x}) /\ x \in {x}
    OBVIOUS
  <2> QED BY <2>1
<1> QED BY <1>1

LEMMA DropDnsDoes ==
  ASSUME NEW h \in Helds
  PROVE  /\ DropDns(h) \in Helds
         /\ DropDns(h).dns = h.dns - 1 /\ DropDns(h).conn = h.conn
         /\ h.freed \subseteq DropDns(h).freed
         /\ h.dns > 0 => DropDns(h).freed = h.freed
<1>1. PICK d \in Int : d = h.dns - 1
  BY DEF Helds
<1>2. PICK f \in SUBSET {"dns", "conn"} : f = IF h.dns <= 0 THEN h.freed \union {"dns"} ELSE h.freed
  <2>1. h.dns <= 0 \/ ~(h.dns <= 0)
    OBVIOUS
  <2> QED BY <2>1 DEF Helds
<1>3. DropDns(h) = [h EXCEPT !.dns = d, !.freed = f]
  BY <1>1, <1>2 DEF DropDns
<1>4. /\ h.freed \subseteq f /\ (h.dns > 0 => f = h.freed)
  BY <1>2 DEF Helds
<1> QED BY <1>1, <1>3, <1>4 DEF Helds

LEMMA DropUdpDoes ==
  ASSUME NEW h \in Helds
  PROVE  /\ DropUdp(h) \in Helds
         /\ DropUdp(h).conn = h.conn - 1
         /\ DropUdp(h).dns = IF h.conn = 1 /\ udpBound THEN h.dns - 1 ELSE h.dns
         /\ h.freed \subseteq DropUdp(h).freed
         /\ h.conn > 0 /\ (h.conn = 1 /\ udpBound => h.dns > 0) => DropUdp(h).freed = h.freed
<1> DEFINE g == [h EXCEPT !.conn = @ - 1, !.freed = IF h.conn <= 0 THEN @ \union {"conn"} ELSE @]
<1>1. /\ g \in Helds /\ g.conn = h.conn - 1 /\ g.dns = h.dns
      /\ h.freed \subseteq g.freed /\ (h.conn > 0 => g.freed = h.freed)
  <2>1. PICK c \in Int : c = h.conn - 1
    BY DEF Helds
  <2>2. PICK f \in SUBSET {"dns", "conn"} : f = IF h.conn <= 0 THEN h.freed \union {"conn"} ELSE h.freed
    <3>1. h.conn <= 0 \/ ~(h.conn <= 0)
      OBVIOUS
    <3> QED BY <3>1 DEF Helds
  <2>3. g = [h EXCEPT !.conn = c, !.freed = f]
    BY <2>1, <2>2
  <2>4. h.freed \subseteq f /\ (h.conn > 0 => f = h.freed)
    BY <2>2 DEF Helds
  <2> HIDE DEF g
  <2> QED BY <2>1, <2>3, <2>4 DEF Helds
<1>2. DropUdp(h) = IF h.conn = 1 /\ udpBound THEN DropDns(g) ELSE g
  BY DEF DropUdp
<1> HIDE DEF g
<1>3. /\ DropDns(g) \in Helds
      /\ DropDns(g).dns = g.dns - 1 /\ DropDns(g).conn = g.conn
      /\ g.freed \subseteq DropDns(g).freed
      /\ g.dns > 0 => DropDns(g).freed = g.freed
  BY <1>1, DropDnsDoes
<1>4. CASE h.conn = 1 /\ udpBound
  BY <1>1, <1>2, <1>3, <1>4
<1>5. CASE ~(h.conn = 1 /\ udpBound)
  BY <1>1, <1>2, <1>5
<1> QED BY <1>4, <1>5

\* The holders, one by one.
AskerShare == IF asker = "wait" THEN 1 ELSE 0
TimerShare == IF timeoutAt \notin {"none", "over"} THEN 1 ELSE 0
BoundShare == IF udpBound /\ held.conn > 0 THEN 1 ELSE 0
SentShare ==
  IF ~udpBound /\ ("not connected" \in silences \/ early \/ udpTasks = <<"connect">>
                    \/ resolverAt \in {"connected", "bind"}) THEN 1 ELSE 0
QueryShare == IF hQuery THEN 1 ELSE 0
LoopShare == IF resolverAt \in {"connected", "bind", "release"} THEN 1 ELSE 0
BindShare == IF resolverAt = "bind" THEN 1 ELSE 0
PollShare == IF udpSock \in {"polled", "deaf"} THEN 1 ELSE 0
ReplyShare == IF replies = <<"reply">> THEN 1 ELSE 0

LEMMA DnsSharesAdd ==
  /\ DnsHolders = AskerShare + TimerShare + BoundShare + SentShare
  /\ AskerShare \in {0, 1} /\ TimerShare \in {0, 1} /\ BoundShare \in {0, 1} /\ SentShare \in {0, 1}
BY DEF DnsHolders, Count, AskerShare, TimerShare, BoundShare, SentShare

LEMMA UdpSharesAdd ==
  /\ UdpHolders = QueryShare + Len(udpTasks) + LoopShare + BindShare + PollShare + ReplyShare
  /\ QueryShare \in {0, 1} /\ LoopShare \in {0, 1} /\ BindShare \in {0, 1}
  /\ PollShare \in {0, 1} /\ ReplyShare \in {0, 1}
BY DEF UdpHolders, Count, QueryShare, LoopShare, BindShare, PollShare, ReplyShare

LEMMA QueueLength == ASSUME udpTasks \in UdpQueues PROVE Len(udpTasks) \in {0, 1}
BY OneLong DEF UdpQueues

LEMMA InitDns == DnsInit => DnsInv
<1> SUFFICES ASSUME DnsInit PROVE DnsInv
  OBVIOUS
<1>1. /\ hQuery \in BOOLEAN /\ hTimeout \in BOOLEAN /\ udpBound \in BOOLEAN
      /\ fnOnDisconnect \in BOOLEAN /\ early \in BOOLEAN
      /\ ~hQuery /\ ~udpBound /\ ~early
  BY Zenon DEF DnsInit
<1>2. DnsTypeOK
  BY <1>1 DEF DnsInit, DnsTypeOK, Posted, UdpQueues, Helds
<1>3. QueryInv
  BY <1>1 DEF DnsInit, QueryInv
<1>4. SocketInv
  BY <1>1 DEF DnsInit, SocketInv
<1>5. DnsCountInv
  BY <1>1, OneLong DEF DnsInit, DnsCountInv, Good, DnsHolders, UdpHolders, Count
<1> QED BY <1>2, <1>3, <1>4, <1>5 DEF DnsInv

LEMMA DnsStutters ==
  ASSUME DnsInv, UNCHANGED dnsVars
  PROVE  DnsInv'
<1> USE DEF DnsInv, dnsVars
<1>1. DnsTypeOK'
  BY DEF DnsTypeOK
<1>2. QueryInv'
  BY DEF QueryInv
<1>3. SocketInv'
  BY DEF SocketInv
<1>4. DnsCountInv'
  BY DEF DnsCountInv, Good, DnsHolders, UdpHolders
<1> QED BY <1>1, <1>2, <1>3, <1>4


LEMMA DnsCounts ==
  ASSUME DnsInv, ~early' => Good', 
         Good' => /\ held'.dns = AskerShare' + TimerShare' + BoundShare' + SentShare'
                  /\ ~early' => held'.conn = QueryShare' + Len(udpTasks') + LoopShare' + BindShare'
                                             + PollShare' + ReplyShare'
  PROVE  DnsCountInv'
<1>1. DnsHolders' = AskerShare' + TimerShare' + BoundShare' + SentShare'
  BY DEF DnsHolders, Count, AskerShare, TimerShare, BoundShare, SentShare
<1>2. UdpHolders' = QueryShare' + Len(udpTasks') + LoopShare' + BindShare' + PollShare' + ReplyShare'
  BY DEF UdpHolders, Count, QueryShare, LoopShare, BindShare, PollShare, ReplyShare
<1> QED BY <1>1, <1>2 DEF DnsCountInv

LEMMA DnsRanges ==
  ASSUME DnsInv
  PROVE  /\ held \in Helds /\ held.dns \in Int /\ held.conn \in Int
         /\ AskerShare \in {0, 1} /\ TimerShare \in {0, 1} /\ BoundShare \in {0, 1}
         /\ SentShare \in {0, 1} /\ QueryShare \in {0, 1} /\ LoopShare \in {0, 1}
         /\ BindShare \in {0, 1} /\ PollShare \in {0, 1} /\ ReplyShare \in {0, 1}
         /\ Len(udpTasks) \in {0, 1}
<1>1. held \in Helds /\ held.dns \in Int /\ held.conn \in Int /\ udpTasks \in UdpQueues
  BY DEF DnsInv, DnsTypeOK, Helds
<1> QED BY <1>1, DnsSharesAdd, UdpSharesAdd, QueueLength

LEMMA DnsShares ==
  ASSUME DnsInv, Good
  PROVE  /\ held.dns = AskerShare + TimerShare + BoundShare + SentShare
         /\ ~early => held.conn = QueryShare + Len(udpTasks) + LoopShare + BindShare
                                  + PollShare + ReplyShare
BY DnsSharesAdd, UdpSharesAdd DEF DnsInv, DnsCountInv

LEMMA QueryKeepsDns ==
  ASSUME DnsInv, NEW sent \in BOOLEAN, Query(sent)
  PROVE  DnsInv'
<1>1. /\ asker = "ask" /\ asker' = "wait"
      /\ UNCHANGED <<hTimeout, udpSock, udpBound, fnOnDisconnect, resolverAt, timeoutAt, dnsEvents,
                     replies, early>>
  BY DEF Query
<1>2. /\ DnsTypeOK /\ QueryInv /\ SocketInv
      /\ udpSock = "none" /\ udpTasks = <<>> /\ ~hQuery /\ silences = {} /\ ~early /\ ~udpBound
      /\ resolverAt = "poll" /\ timeoutAt = "none" /\ replies = <<>>
      /\ held = [dns |-> 0, conn |-> 0, freed |-> {}]
  BY <1>1 DEF DnsInv, SocketInv
<1>3. CASE sent
  <2>1. /\ held' = [dns |-> 2, conn |-> 2, freed |-> {}]
        /\ hQuery' = TRUE /\ udpStatus' = "Connecting" /\ udpTasks' = <<"connect">>
        /\ UNCHANGED silences
    BY <1>2, <1>3 DEF Query
  <2>2. DnsTypeOK'
    BY <1>1, <1>2, <2>1 DEF DnsTypeOK, UdpQueues, Helds
  <2>3. QueryInv'
    BY <1>1, <1>2, <2>1 DEF QueryInv
  <2>4. SocketInv'
    BY <1>1, <1>2, <2>1 DEF SocketInv
  <2>5. /\ AskerShare' = 1 /\ TimerShare' = 0 /\ BoundShare' = 0 /\ SentShare' = 1
        /\ QueryShare' = 1 /\ LoopShare' = 0 /\ BindShare' = 0 /\ PollShare' = 0 /\ ReplyShare' = 0
    BY <1>1, <1>2, <2>1 DEF AskerShare, TimerShare, BoundShare, SentShare, QueryShare, LoopShare,
                            BindShare, PollShare, ReplyShare
  <2>6. held'.dns = 2 /\ held'.conn = 2 /\ Good' /\ Len(udpTasks') = 1
    BY <2>1, OneLong DEF Good
  <2>7. DnsCountInv'
    BY <2>5, <2>6, DnsCounts
  <2> QED BY <2>2, <2>3, <2>4, <2>7 DEF DnsInv
<1>4. CASE ~sent
  <2>1. /\ held' = [dns |-> 1, conn |-> 0, freed |-> {}]
        /\ silences' = {"answered at once"}
        /\ UNCHANGED <<hQuery, udpStatus, udpTasks>>
    BY <1>2, <1>4 DEF Query
  <2>2. DnsTypeOK'
    <3>1. held' \in Helds
      <4>1. held' = [held EXCEPT !.dns = 1]
        BY <1>2, <1>4 DEF Query
      <4> QED BY <1>2, <4>1 DEF DnsTypeOK, Helds
    <3>2. silences' \in SUBSET Silences
      BY <2>1 DEF Silences
    <3> QED BY <1>1, <1>2, <2>1, <3>1, <3>2 DEF DnsTypeOK
  <2>3. QueryInv'
    BY <1>1, <1>2, <2>1 DEF QueryInv
  <2>4. SocketInv'
    BY <1>1, <1>2, <2>1 DEF SocketInv
  <2>5. /\ AskerShare' = 1 /\ TimerShare' = 0 /\ BoundShare' = 0 /\ SentShare' = 0
        /\ QueryShare' = 0 /\ LoopShare' = 0 /\ BindShare' = 0 /\ PollShare' = 0 /\ ReplyShare' = 0
    BY <1>1, <1>2, <2>1 DEF AskerShare, TimerShare, BoundShare, SentShare, QueryShare, LoopShare,
                            BindShare, PollShare, ReplyShare
  <2>6. held'.dns = 1 /\ held'.conn = 0 /\ Good' /\ Len(udpTasks') = 0
    BY <1>2, <2>1, OneLong DEF Good
  <2>7. DnsCountInv'
    BY <2>5, <2>6, DnsCounts
  <2> QED BY <2>2, <2>3, <2>4, <2>7 DEF DnsInv
<1> QED BY <1>3, <1>4

LEMMA AskerKeepsDns ==
  ASSUME DnsInv, Answered \/ Abandon
  PROVE  DnsInv'
<1>1. /\ asker = "wait" /\ asker' = "over" /\ Good /\ held' = DropDns(held)
      /\ \/ dnsEvents' = dnsEvents
         \/ dnsEvents' = Tail(dnsEvents) /\ dnsEvents # <<>>
      /\ UNCHANGED <<hQuery, hTimeout, udpStatus, udpSock, udpBound, fnOnDisconnect, udpTasks,
                     resolverAt, timeoutAt, replies, silences, early>>
  BY DEF Answered, Abandon
<1>2. DnsTypeOK /\ QueryInv /\ SocketInv /\ dnsEvents' \in {<<>>, dnsEvents}
  BY <1>1, OneLong DEF DnsInv, DnsTypeOK, Posted
<1>3. AskerShare = 1 /\ AskerShare' = 0
  BY <1>1 DEF AskerShare
<1>4. held.dns > 0
  BY <1>1, <1>3, DnsShares, DnsRanges
<1>5. held' \in Helds /\ held'.dns = held.dns - 1 /\ held'.conn = held.conn /\ Good'
  BY <1>1, <1>4, DnsRanges, DropDnsDoes DEF Good
<1>6. DnsTypeOK'
  BY <1>1, <1>2, <1>5 DEF DnsTypeOK, Posted
<1>7. QueryInv'
  BY <1>1, <1>2 DEF QueryInv
<1>8. SocketInv'
  BY <1>1, <1>2 DEF SocketInv
<1>9. /\ TimerShare' = TimerShare /\ BoundShare' = BoundShare /\ SentShare' = SentShare
      /\ QueryShare' = QueryShare /\ LoopShare' = LoopShare /\ BindShare' = BindShare
      /\ PollShare' = PollShare /\ ReplyShare' = ReplyShare /\ udpTasks' = udpTasks
  BY <1>1, <1>5 DEF TimerShare, BoundShare, SentShare, QueryShare, LoopShare, BindShare,
                    PollShare, ReplyShare
<1>10. DnsCountInv'
  <2>1. /\ held.dns = AskerShare + TimerShare + BoundShare + SentShare
        /\ ~early => held.conn = QueryShare + Len(udpTasks) + LoopShare + BindShare
                                 + PollShare + ReplyShare
    BY <1>1, DnsShares
  <2>2. held'.dns = AskerShare' + TimerShare' + BoundShare' + SentShare'
    BY <1>1, <1>3, <1>5, <1>9, DnsRanges, <2>1
  <2>3. ~early' => held'.conn = QueryShare' + Len(udpTasks') + LoopShare' + BindShare'
                                 + PollShare' + ReplyShare'
    BY <1>1, <1>3, <1>5, <1>9, DnsRanges, <2>1
  <2> QED BY <1>1, <1>3, <1>5, <1>9, <2>2, <2>3, DnsCounts
<1> QED BY <1>6, <1>7, <1>8, <1>10 DEF DnsInv

\* The loop.
LEMMA UdpConnectKeepsDns ==
  ASSUME DnsInv, NEW made \in BOOLEAN, UdpConnect(made)
  PROVE  DnsInv'
<1>1. /\ DnsTypeOK /\ QueryInv /\ SocketInv /\ DnsCountInv
      /\ resolverAt = "poll" /\ resolverAt' = "connected" /\ Good
      /\ udpTasks # <<>> /\ Head(udpTasks) = "connect" /\ udpTasks' = Tail(udpTasks)
      /\ udpSock' = IF made THEN "unpolled" ELSE "closed"
      /\ udpStatus' = IF made THEN udpStatus ELSE "Disconnected"
      /\ UNCHANGED <<hQuery, hTimeout, held, udpBound, fnOnDisconnect, timeoutAt, asker, dnsEvents,
                     replies, silences, early>>
  BY DEF UdpConnect, DnsInv
<1>2. udpTasks = <<"connect">>
  <2>1. Head(<<"forceClose">>) = "forceClose"
    BY OneLong
  <2> QED BY <1>1, <2>1 DEF DnsTypeOK, UdpQueues
<1>3. udpTasks' = <<>> /\ udpTasks' # <<"connect">> /\ udpTasks' # <<"forceClose">>
  BY <1>1, <1>2, OneLong
<1>4. /\ udpSock = "none" /\ udpStatus = "Connecting" /\ hQuery /\ timeoutAt = "none" /\ ~udpBound
      /\ ~early /\ replies = <<>> /\ "not connected" \notin silences
  BY <1>1, <1>2 DEF SocketInv
<1>5. \/ udpSock' = "unpolled" /\ udpStatus' = "Connecting"
      \/ udpSock' = "closed" /\ udpStatus' = "Disconnected"
  BY <1>1, <1>4
<1>6. DnsTypeOK'
  BY <1>1, <1>3, <1>5 DEF DnsTypeOK, UdpQueues
<1>7. QueryInv'
  BY <1>1, <1>3, <1>4 DEF QueryInv
<1>8. asker # "ask"
  BY <1>1, <1>2 DEF SocketInv
<1>9. SocketInv'
  BY <1>1, <1>3, <1>4, <1>5, <1>8 DEF SocketInv
<1>10. /\ AskerShare' = AskerShare /\ TimerShare' = TimerShare /\ BoundShare' = BoundShare
       /\ SentShare = 1 /\ SentShare' = 1
       /\ QueryShare' = QueryShare /\ LoopShare = 0 /\ LoopShare' = 1 /\ BindShare' = BindShare
       /\ PollShare' = PollShare /\ ReplyShare' = ReplyShare
  BY <1>1, <1>2, <1>3, <1>4, <1>5 DEF AskerShare, TimerShare, BoundShare, SentShare, QueryShare,
     LoopShare, BindShare, PollShare, ReplyShare
<1>11. Len(udpTasks) = 1 /\ Len(udpTasks') = 0 /\ Good' /\ ~early /\ held' = held
  BY <1>1, <1>2, <1>3, <1>4, OneLong DEF Good
<1>12. DnsCountInv'
  <2>1. /\ held.dns = AskerShare + TimerShare + BoundShare + SentShare
        /\ ~early => held.conn = QueryShare + Len(udpTasks) + LoopShare + BindShare
                                 + PollShare + ReplyShare
    BY <1>1, DnsShares
  <2>2. held'.dns = AskerShare' + TimerShare' + BoundShare' + SentShare'
    BY <1>10, <1>11, <2>1, DnsRanges
  <2>3. ~early' => held'.conn = QueryShare' + Len(udpTasks') + LoopShare' + BindShare'
                                 + PollShare' + ReplyShare'
    BY <1>10, <1>11, <2>1, DnsRanges
  <2> QED BY <1>11, <2>2, <2>3, DnsCounts
<1> QED BY <1>6, <1>7, <1>9, <1>12 DEF DnsInv

LEMMA OnConnectedKeepsDns ==
  ASSUME DnsInv, OnConnected
  PROVE  DnsInv'
<1>1. /\ DnsTypeOK /\ QueryInv /\ SocketInv /\ DnsCountInv
      /\ resolverAt = "connected" /\ Good
      /\ UNCHANGED <<udpStatus, udpSock, udpBound, fnOnDisconnect, udpTasks, asker, dnsEvents,
                     replies, early>>
  BY DEF OnConnected, DnsInv
<1>2. /\ hQuery /\ timeoutAt = "none" /\ udpTasks = <<>> /\ ~udpBound /\ ~early /\ replies = <<>>
      /\ \/ udpSock = "unpolled" /\ udpStatus = "Connecting"
         \/ udpSock = "closed" /\ udpStatus = "Disconnected"
      /\ asker # "ask"
  BY <1>1 DEF SocketInv, QueryInv
<1>3. /\ LoopShare = 1 /\ QueryShare = 1 /\ TimerShare = 0 /\ BoundShare = 0 /\ SentShare = 1
      /\ BindShare = 0
  BY <1>1, <1>2 DEF LoopShare, QueryShare, TimerShare, BoundShare, SentShare, BindShare
<1>4. CASE udpStatus # "Connecting"
  <2>1. /\ resolverAt' = "release" /\ ~hQuery' /\ hQuery' \in BOOLEAN
        /\ held' = DropUdp(held)
        /\ silences' = silences \union {"not connected"}
        /\ UNCHANGED <<hTimeout, timeoutAt>>
    BY <1>2, <1>4 DEF OnConnected
  <2>2. held.conn > 1
    BY <1>1, <1>2, <1>3, DnsShares, DnsRanges
  <2>3. /\ held' \in Helds /\ held'.conn = held.conn - 1 /\ held'.dns = held.dns
        /\ held'.freed = held.freed
    <3>1. /\ DropUdp(held) \in Helds
          /\ DropUdp(held).conn = held.conn - 1
          /\ DropUdp(held).dns = IF held.conn = 1 /\ udpBound THEN held.dns - 1 ELSE held.dns
          /\ held.conn > 0 /\ (held.conn = 1 /\ udpBound => held.dns > 0)
               => DropUdp(held).freed = held.freed
      BY DnsRanges, DropUdpDoes
    <3>2. held.conn > 0 /\ held.conn # 1
      BY <2>2, DnsRanges
    <3> QED BY <2>1, <3>1, <3>2
  <2>4. DnsTypeOK'
    BY <1>1, <2>1, <2>3, ZenonT(40) DEF DnsTypeOK, Silences
  <2>5. QueryInv'
    BY <1>1, <2>1 DEF QueryInv
  <2>6. SocketInv'
    BY <1>1, <1>2, <1>4, <2>1 DEF SocketInv
  <2>7. /\ AskerShare' = AskerShare /\ TimerShare' = 0 /\ BoundShare' = 0 /\ SentShare' = 1
        /\ QueryShare' = 0 /\ LoopShare' = 1 /\ BindShare' = 0
        /\ PollShare' = PollShare /\ ReplyShare' = ReplyShare
    BY <1>1, <1>2, <2>1 DEF AskerShare, TimerShare, BoundShare, SentShare, QueryShare, LoopShare,
       BindShare, PollShare, ReplyShare
  <2>8. DnsCountInv'
    <3>1. /\ held.dns = AskerShare + TimerShare + BoundShare + SentShare
          /\ ~early => held.conn = QueryShare + Len(udpTasks) + LoopShare + BindShare
                                   + PollShare + ReplyShare
      BY <1>1, DnsShares
    <3>2. held'.dns = AskerShare' + TimerShare' + BoundShare' + SentShare'
      BY <1>1, <1>2, <1>3, <2>3, <2>7, DnsRanges, <3>1
    <3>3. ~early' => held'.conn = QueryShare' + Len(udpTasks') + LoopShare' + BindShare'
                                   + PollShare' + ReplyShare'
      BY <1>1, <1>2, <1>3, <2>3, <2>7, DnsRanges, <3>1
    <3>4. Good'
      BY <1>1, <2>3 DEF Good
    <3> QED BY <1>2, <3>2, <3>3, <3>4, DnsCounts
  <2> QED BY <2>4, <2>5, <2>6, <2>8 DEF DnsInv
<1>5. CASE udpStatus = "Connecting"
  <2>1. /\ resolverAt' = "bind" /\ hTimeout' = TRUE /\ timeoutAt' = "armed"
        /\ held' = [held EXCEPT !.dns = @ + 1, !.conn = @ + 1]
        /\ UNCHANGED <<hQuery, silences>>
    BY <1>5 DEF OnConnected
  <2>2. /\ held' \in Helds /\ held'.conn = held.conn + 1 /\ held'.dns = held.dns + 1
        /\ held'.freed = held.freed
    <3>1. PICK d \in Int, c \in Int : d = held.dns + 1 /\ c = held.conn + 1
      BY DnsRanges
    <3>2. held' = [held EXCEPT !.dns = d, !.conn = c]
      BY <2>1, <3>1
    <3> QED BY <1>1, <3>1, <3>2 DEF DnsTypeOK, Helds
  <2>3. DnsTypeOK'
    BY <1>1, <2>1, <2>2 DEF DnsTypeOK
  <2>4. QueryInv'
    BY <1>1, <1>5, <2>1 DEF QueryInv
  <2>5. "not connected" \notin silences
    BY <1>1, <1>2 DEF SocketInv
  <2>6. SocketInv'
    BY <1>1, <1>2, <1>5, <2>1, <2>5 DEF SocketInv
  <2>7. /\ AskerShare' = AskerShare /\ TimerShare' = 1 /\ BoundShare' = 0 /\ SentShare' = 1
        /\ QueryShare' = 1 /\ LoopShare' = 1 /\ BindShare' = 1
        /\ PollShare' = PollShare /\ ReplyShare' = ReplyShare
    BY <1>1, <1>2, <2>1 DEF AskerShare, TimerShare, BoundShare, SentShare, QueryShare, LoopShare,
       BindShare, PollShare, ReplyShare
  <2>8. Good' /\ udpTasks' = udpTasks
    BY <1>1, <2>2 DEF Good
  <2>9. DnsCountInv'
    <3>1. /\ held.dns = AskerShare + TimerShare + BoundShare + SentShare
          /\ ~early => held.conn = QueryShare + Len(udpTasks) + LoopShare + BindShare
                                   + PollShare + ReplyShare
      BY <1>1, DnsShares
    <3>2. held'.dns = AskerShare' + TimerShare' + BoundShare' + SentShare'
      BY <1>1, <1>2, <1>3, <2>2, <2>7, <2>8, DnsRanges, <3>1
    <3>3. ~early' => held'.conn = QueryShare' + Len(udpTasks') + LoopShare' + BindShare'
                                   + PollShare' + ReplyShare'
      BY <1>1, <1>2, <1>3, <2>2, <2>7, <2>8, DnsRanges, <3>1
    <3> QED BY <1>1, <1>2, <1>3, <2>2, <2>7, <2>8, <3>2, <3>3, DnsCounts
  <2> QED BY <2>3, <2>4, <2>6, <2>9 DEF DnsInv
<1> QED BY <1>4, <1>5

LEMMA OnConnectedBindsKeepsDns ==
  ASSUME DnsInv, OnConnectedBinds
  PROVE  DnsInv'
<1>1. /\ DnsTypeOK /\ QueryInv /\ SocketInv /\ DnsCountInv
      /\ resolverAt = "bind" /\ Good /\ resolverAt' = "release" /\ fnOnDisconnect' = TRUE
      /\ UNCHANGED <<udpTasks, asker, dnsEvents, replies, silences>>
  BY DEF OnConnectedBinds, DnsInv
<1>2. /\ udpSock = "unpolled" /\ timeoutAt # "none" /\ ~udpBound /\ ~early
      /\ (hQuery <=> udpStatus = "Connecting") /\ udpStatus \in {"Connecting", "Disconnected"}
      /\ udpTasks # <<"connect">> /\ replies # <<"reply">>
      /\ asker # "ask" /\ "not connected" \notin silences
  BY <1>1 DEF SocketInv
<1>3. LoopShare = 1 /\ BindShare = 1 /\ SentShare = 1 /\ BoundShare = 0 /\ PollShare = 0
  BY <1>1, <1>2 DEF LoopShare, BindShare, SentShare, BoundShare, PollShare
<1>4. CASE udpStatus = "Connecting"
  <2>1. /\ udpStatus' = "Connected" /\ udpBound' = TRUE /\ udpSock' = "polled"
        /\ UNCHANGED <<hQuery, hTimeout, held, timeoutAt, early>>
    BY <1>4 DEF OnConnectedBinds
  <2>2. held.conn > 0
    <3>1. held.conn = QueryShare + Len(udpTasks) + LoopShare + BindShare + PollShare + ReplyShare
      BY <1>1, <1>2, DnsShares
    <3> QED BY <1>3, <3>1, DnsRanges
  <2>3. DnsTypeOK'
    BY <1>1, <2>1 DEF DnsTypeOK
  <2>4. QueryInv'
    BY <1>1, <2>1 DEF QueryInv
  <2>5. udpTasks # <<"forceClose">>
    BY <1>1, <1>4 DEF SocketInv
  <2>6. SocketInv'
    BY <1>1, <1>2, <2>1, <2>5 DEF SocketInv
  <2>7. /\ AskerShare' = AskerShare /\ TimerShare' = TimerShare /\ BoundShare' = 1 /\ SentShare' = 0
        /\ QueryShare' = QueryShare /\ LoopShare' = 1 /\ BindShare' = 0
        /\ PollShare' = 1 /\ ReplyShare' = ReplyShare
    BY <1>1, <1>2, <2>1, <2>2 DEF AskerShare, TimerShare, BoundShare, SentShare, QueryShare,
       LoopShare, BindShare, PollShare, ReplyShare
  <2>8. Good' /\ udpTasks' = udpTasks /\ held' = held /\ ~early
    BY <1>1, <1>2, <2>1 DEF Good
  <2>9. DnsCountInv'
    <3>1. /\ held.dns = AskerShare + TimerShare + BoundShare + SentShare
          /\ ~early => held.conn = QueryShare + Len(udpTasks) + LoopShare + BindShare
                                   + PollShare + ReplyShare
      BY <1>1, DnsShares
    <3>2. held'.dns = AskerShare' + TimerShare' + BoundShare' + SentShare'
      BY <1>3, <2>7, <2>8, <3>1, DnsRanges
    <3>3. ~early' => held'.conn = QueryShare' + Len(udpTasks') + LoopShare' + BindShare'
                                   + PollShare' + ReplyShare'
      BY <1>3, <2>7, <2>8, <3>1, DnsRanges
    <3> QED BY <1>1, <1>2, <1>3, <2>7, <2>8, <3>2, <3>3, DnsCounts
  <2> QED BY <2>3, <2>4, <2>6, <2>9 DEF DnsInv
<1>5. CASE udpStatus # "Connecting"
  <2>1. /\ ~hQuery' /\ hQuery' \in BOOLEAN /\ StopQueryTimer /\ held' = DropUdp(held)
        /\ early' /\ early' \in BOOLEAN
        /\ UNCHANGED <<udpStatus, udpBound, udpSock>>
    BY <1>2, <1>5 DEF OnConnectedBinds
  <2>2. /\ held' \in Helds /\ held'.dns = held.dns
    BY <1>2, <2>1, DnsRanges, DropUdpDoes
  <2>3. /\ hTimeout' \in BOOLEAN /\ timeoutAt' \in {timeoutAt, "stopped"}
        /\ (timeoutAt' # timeoutAt => timeoutAt = "armed")
    BY <2>1 DEF StopQueryTimer
  <2>4. DnsTypeOK'
    BY <1>1, <2>1, <2>2, <2>3 DEF DnsTypeOK
  <2>5. QueryInv'
    BY <1>1, <2>1 DEF QueryInv
  <2>6. SocketInv'
    BY <1>1, <1>2, <1>5, <2>1, <2>3 DEF SocketInv
  <2>7. /\ AskerShare' = AskerShare /\ TimerShare' = TimerShare /\ BoundShare' = 0 /\ SentShare' = 1
    BY <1>1, <1>2, <2>1, <2>3 DEF AskerShare, TimerShare, BoundShare, SentShare
  <2>8. DnsCountInv'
    <3>1. /\ held.dns = AskerShare + TimerShare + BoundShare + SentShare
          /\ ~early => held.conn = QueryShare + Len(udpTasks) + LoopShare + BindShare
                                   + PollShare + ReplyShare
      BY <1>1, DnsShares
    <3>2. held'.dns = AskerShare' + TimerShare' + BoundShare' + SentShare'
      BY <1>1, <1>3, <2>1, <2>2, <2>7, DnsRanges, <3>1
    <3>3. ~early' => held'.conn = QueryShare' + Len(udpTasks') + LoopShare' + BindShare'
                                   + PollShare' + ReplyShare'
      BY <1>1, <1>3, <2>1, <2>2, <2>7, DnsRanges, <3>1
    <3> QED BY <1>1, <1>3, <2>1, <2>2, <2>7, <3>2, <3>3, DnsCounts
  <2> QED BY <2>4, <2>5, <2>6, <2>8 DEF DnsInv
<1> QED BY <1>4, <1>5

LEMMA CallbackEndsKeepsDns ==
  ASSUME DnsInv, CallbackEnds
  PROVE  DnsInv'
<1>1. /\ DnsTypeOK /\ QueryInv /\ SocketInv /\ DnsCountInv
      /\ resolverAt = "release" /\ Good /\ resolverAt' = "poll" /\ held' = DropUdp(held)
      /\ UNCHANGED <<hQuery, hTimeout, udpStatus, udpSock, udpBound, fnOnDisconnect, udpTasks,
                     timeoutAt, asker, dnsEvents, replies, silences, early>>
  BY DEF CallbackEnds, DnsInv
<1>2. LoopShare = 1 /\ asker # "ask" /\ udpSock # "none" /\ (udpSock = "unpolled" => early)
  BY <1>1 DEF LoopShare, SocketInv
<1>3. /\ held' \in Helds /\ held'.conn = held.conn - 1
      /\ held'.dns = IF held.conn = 1 /\ udpBound THEN held.dns - 1 ELSE held.dns
      /\ held.conn > 0 /\ (held.conn = 1 /\ udpBound => held.dns > 0) => held'.freed = held.freed
  BY <1>1, DnsRanges, DropUdpDoes
<1>4. DnsTypeOK'
  BY <1>1, <1>3 DEF DnsTypeOK
<1>5. QueryInv'
  BY <1>1 DEF QueryInv
<1>6. SocketInv'
  BY <1>1, <1>2 DEF SocketInv
<1>7. /\ AskerShare' = AskerShare /\ TimerShare' = TimerShare /\ SentShare' = SentShare
      /\ QueryShare' = QueryShare /\ LoopShare' = 0 /\ BindShare = 0 /\ BindShare' = 0
      /\ PollShare' = PollShare /\ ReplyShare' = ReplyShare /\ udpTasks' = udpTasks
      /\ early' = early
  BY <1>1 DEF AskerShare, TimerShare, SentShare, QueryShare, LoopShare, BindShare, PollShare,
     ReplyShare
<1>8. /\ udpBound /\ held.conn > 0 => BoundShare = 1
      /\ udpBound /\ held'.conn > 0 => BoundShare' = 1
      /\ ~udpBound => BoundShare = 0 /\ BoundShare' = 0
      /\ ~(held.conn > 0) => BoundShare = 0
      /\ ~(held'.conn > 0) => BoundShare' = 0
  BY <1>1 DEF BoundShare
<1>9. early => ~udpBound
  BY <1>1 DEF SocketInv
<1>10. ~early => held.conn > 0
  BY <1>1, <1>2, DnsShares, DnsRanges
<1>11. held'.dns = AskerShare' + TimerShare' + BoundShare' + SentShare'
  <2>1. held.dns = AskerShare + TimerShare + BoundShare + SentShare
    BY <1>1, DnsShares
  <2>2. CASE early
    BY <1>3, <1>7, <1>8, <1>9, <2>1, <2>2, DnsRanges
  <2>3. CASE ~early
    BY <1>3, <1>7, <1>8, <1>10, <2>1, <2>3, DnsRanges
  <2> QED BY <2>2, <2>3
<1>12. ~early => Good'
  <2>1. udpBound /\ held.conn > 0 => held.dns > 0
    BY <1>1, <1>8, DnsShares, DnsRanges
  <2> QED BY <1>1, <1>3, <1>10, <2>1 DEF Good
<1>13. DnsCountInv'
  <2>1. /\ held.dns = AskerShare + TimerShare + BoundShare + SentShare
        /\ ~early => held.conn = QueryShare + Len(udpTasks) + LoopShare + BindShare
                                 + PollShare + ReplyShare
    BY <1>1, DnsShares
  <2>2. held'.dns = AskerShare' + TimerShare' + BoundShare' + SentShare'
    BY <1>1, <1>2, <1>3, <1>7, <1>11, <1>12, DnsRanges, <2>1
  <2>3. ~early' => held'.conn = QueryShare' + Len(udpTasks') + LoopShare' + BindShare'
                                 + PollShare' + ReplyShare'
    BY <1>1, <1>2, <1>3, <1>7, <1>11, <1>12, DnsRanges, <2>1
  <2> QED BY <1>1, <1>2, <1>3, <1>7, <1>11, <1>12, <2>2, <2>3, DnsCounts
<1> QED BY <1>4, <1>5, <1>6, <1>13 DEF DnsInv

\* A datagram, or an error.
LEMMA ReadableKeepsDns ==
  ASSUME DnsInv, NEW what \in {"received", "error"}, Readable(what)
  PROVE  DnsInv'
<1>1. /\ DnsTypeOK /\ QueryInv /\ SocketInv /\ DnsCountInv
      /\ resolverAt = "poll" /\ resolverAt' = what /\ Good
      /\ udpSock = "polled" /\ udpStatus = "Connected" /\ StopQueryTimer
      /\ UNCHANGED <<hQuery, held, udpStatus, udpSock, udpBound, fnOnDisconnect, udpTasks, asker,
                     dnsEvents, replies, silences, early>>
  BY DEF Readable, DnsInv
<1>2. /\ hTimeout' \in BOOLEAN /\ timeoutAt' \in {timeoutAt, "stopped"}
      /\ (timeoutAt' # timeoutAt => timeoutAt = "armed")
  BY <1>1 DEF StopQueryTimer, DnsTypeOK
<1>3. udpTasks = <<>> /\ udpBound /\ ~early
  BY <1>1 DEF SocketInv, DnsTypeOK, UdpQueues
<1>4. DnsTypeOK'
  BY <1>1, <1>2 DEF DnsTypeOK
<1>5. QueryInv'
  BY <1>1 DEF QueryInv
<1>6. SocketInv'
  BY <1>1, <1>2, <1>3 DEF SocketInv
<1>7. /\ AskerShare' = AskerShare /\ TimerShare' = TimerShare /\ BoundShare' = BoundShare
      /\ SentShare' = SentShare /\ QueryShare' = QueryShare /\ LoopShare' = LoopShare
      /\ BindShare' = BindShare /\ PollShare' = PollShare /\ ReplyShare' = ReplyShare
  BY <1>1, <1>2 DEF AskerShare, TimerShare, BoundShare, SentShare, QueryShare, LoopShare,
     BindShare, PollShare, ReplyShare
<1>8. Good' /\ held' = held /\ udpTasks' = udpTasks /\ early' = early
  BY <1>1 DEF Good
<1>9. DnsCountInv'
  BY <1>1, <1>7, <1>8, DnsShares, DnsCounts
<1> QED BY <1>4, <1>5, <1>6, <1>9 DEF DnsInv

LEMMA OnReceiveKeepsDns ==
  ASSUME DnsInv, OnReceive
  PROVE  DnsInv'
<1>1. /\ DnsTypeOK /\ QueryInv /\ SocketInv /\ DnsCountInv
      /\ resolverAt = "received" /\ resolverAt' = "poll" /\ Good
      /\ ~hQuery' /\ hQuery' \in BOOLEAN
      /\ udpSock' = "deaf" /\ fnOnDisconnect' = FALSE
      /\ UNCHANGED <<hTimeout, held, udpStatus, udpBound, udpTasks, timeoutAt, asker, silences, early>>
  BY Zenon DEF OnReceive, DnsInv
<1>2. /\ udpSock = "polled" /\ udpBound /\ ~early /\ asker # "ask"
      /\ "not connected" \notin silences
      /\ udpTasks # <<"connect">>
  BY <1>1 DEF SocketInv
<1>3. \/ /\ hQuery /\ udpTasks = <<>> /\ replies = <<>> /\ dnsEvents = <<>>
         /\ replies' = <<"reply">> /\ dnsEvents' = <<"reply">>
      \/ ~hQuery /\ UNCHANGED <<replies, dnsEvents>>
  <2>1. CASE hQuery
    <3>1. /\ replies' = Append(replies, "reply") /\ dnsEvents' = Append(dnsEvents, "reply")
      BY <2>1 DEF OnReceive, AnswerReceived
    <3>2. replies = <<>> /\ dnsEvents = <<>> /\ udpTasks = <<>>
      BY <1>1, <1>2, <2>1 DEF QueryInv, DnsTypeOK, UdpQueues
    <3> QED BY <2>1, <3>1, <3>2, OneLong
  <2>2. CASE ~hQuery
    BY <2>2 DEF OnReceive, AnswerReceived
  <2> QED BY <2>1, <2>2
<1>4. /\ replies' \in Posted /\ dnsEvents' \in Posted /\ (dnsEvents' # <<>> => replies' # <<>>)
      /\ udpTasks = <<"forceClose">> => replies' # <<"reply">>
  <2>1. <<"reply">> # <<>> /\ <<"forceClose">> # <<>>
    BY OneLong
  <2> QED BY <1>1, <1>3, <2>1 DEF DnsTypeOK, Posted, QueryInv, SocketInv
<1>5. DnsTypeOK'
  BY <1>1, <1>4 DEF DnsTypeOK
<1>6. QueryInv'
  BY <1>1, <1>4 DEF QueryInv
<1>7. SocketInv'
  BY <1>1, <1>2, <1>4 DEF SocketInv
<1>8. /\ AskerShare' = AskerShare /\ TimerShare' = TimerShare /\ BoundShare' = BoundShare
      /\ SentShare' = SentShare /\ LoopShare' = LoopShare
      /\ BindShare' = BindShare /\ PollShare' = PollShare
  BY <1>1, <1>2 DEF AskerShare, TimerShare, BoundShare, SentShare, LoopShare, BindShare, PollShare
<1>9. \/ QueryShare = 1 /\ ReplyShare = 0 /\ QueryShare' = 0 /\ ReplyShare' = 1
      \/ QueryShare' = QueryShare /\ ReplyShare' = ReplyShare
  <2>1. CASE hQuery
    BY <1>1, <1>3, <2>1, OneLong DEF QueryShare, ReplyShare
  <2>2. CASE ~hQuery
    BY <1>1, <1>3, <2>2 DEF QueryShare, ReplyShare
  <2> QED BY <2>1, <2>2
<1>11. Good' /\ held' = held /\ udpTasks' = udpTasks /\ ~early
  BY <1>1, <1>2 DEF Good
<1>12. /\ held.dns = AskerShare + TimerShare + BoundShare + SentShare
       /\ held.conn = QueryShare + Len(udpTasks) + LoopShare + BindShare + PollShare + ReplyShare
  BY <1>1, <1>11, DnsShares
<1>13. held'.dns = AskerShare' + TimerShare' + BoundShare' + SentShare'
  BY <1>8, <1>11, <1>12
<1>14. held'.conn = QueryShare' + Len(udpTasks') + LoopShare' + BindShare' + PollShare' + ReplyShare'
  BY <1>8, <1>9, <1>11, <1>12, DnsRanges
<1>15. DnsCountInv'
  BY <1>11, <1>13, <1>14, DnsCounts
<1> QED BY <1>5, <1>6, <1>7, <1>15 DEF DnsInv

\* Whoever took the connection closes it: its reference goes to the queued close.
LEMMA CloseUdpDoes ==
  ASSUME DnsInv, hQuery, resolverAt # "connected", udpSock # "none", CloseUdp(held)
  PROVE  /\ udpStatus' = "Disconnected" /\ held' = held
         /\ udpTasks = <<>> /\ udpTasks' = <<"forceClose">>
<1>1. udpStatus # "Disconnected" /\ udpTasks = <<>>
  BY DEF DnsInv, DnsTypeOK, QueryInv, SocketInv, UdpQueues
<1> QED BY <1>1, OneLong DEF CloseUdp

LEMMA OnDisconnectKeepsDns ==
  ASSUME DnsInv, OnDisconnect
  PROVE  DnsInv'
<1>1. /\ DnsTypeOK /\ QueryInv /\ SocketInv /\ DnsCountInv
      /\ resolverAt = "error" /\ resolverAt' = "poll" /\ Good
      /\ ~hQuery' /\ hQuery' \in BOOLEAN
      /\ udpSock' = "deaf" /\ fnOnDisconnect' = FALSE
      /\ UNCHANGED <<hTimeout, udpBound, timeoutAt, asker, dnsEvents, replies, early>>
  BY Zenon DEF OnDisconnect, DnsInv
<1>2. /\ udpSock = "polled" /\ udpBound /\ ~early /\ asker # "ask"
      /\ "not connected" \notin silences
      /\ udpTasks # <<"connect">>
  BY <1>1 DEF SocketInv
<1>3. \/ /\ hQuery /\ replies = <<>> /\ udpStatus' = "Disconnected"
         /\ udpTasks = <<>> /\ udpTasks' = <<"forceClose">>
      \/ ~hQuery /\ UNCHANGED <<udpStatus, udpTasks>>
  <2>1. CASE hQuery
    <3>1. CloseUdp(held)
      BY <2>1 DEF OnDisconnect
    <3> QED BY <1>1, <1>2, <2>1, <3>1, CloseUdpDoes DEF QueryInv
  <2>2. CASE ~hQuery
    BY <2>2 DEF OnDisconnect
  <2> QED BY <2>1, <2>2
<1>4. held' = held
  <2>1. CASE hQuery
    <3>1. CloseUdp(held)
      BY <2>1 DEF OnDisconnect
    <3> QED BY <1>1, <1>2, <2>1, <3>1, CloseUdpDoes
  <2>2. CASE ~hQuery
    BY <2>2 DEF OnDisconnect
  <2> QED BY <2>1, <2>2
<1>5. silences' \in SUBSET Silences /\ "not connected" \notin silences'
  <2>1. silences' = silences \union (IF hQuery THEN {"disconnected"} ELSE {})
    BY DEF OnDisconnect
  <2>2. CASE hQuery
    BY <1>1, <1>2, <2>1, <2>2 DEF DnsTypeOK, Silences
  <2>3. CASE ~hQuery
    BY <1>1, <1>2, <2>1, <2>3 DEF DnsTypeOK
  <2> QED BY <2>2, <2>3
<1>6. udpStatus' \in {"Disconnected", "Connecting", "Connected"} /\ udpTasks' \in UdpQueues
  BY <1>1, <1>3 DEF DnsTypeOK, UdpQueues
<1>7. DnsTypeOK'
  BY <1>1, <1>4, <1>5, <1>6 DEF DnsTypeOK
<1>8. QueryInv'
  BY <1>1 DEF QueryInv
<1>9. /\ udpTasks' # <<"connect">>
      /\ udpTasks' = <<"forceClose">> => udpStatus' = "Disconnected" /\ replies # <<"reply">>
  <2>1. <<"forceClose">> # <<"connect">> /\ <<>> # <<"reply">>
    BY OneLong
  <2>2. udpTasks = <<"forceClose">> => udpStatus = "Disconnected" /\ replies # <<"reply">>
    BY <1>1 DEF SocketInv
  <2> QED BY <1>2, <1>3, <2>1, <2>2
<1>10. SocketInv'
  BY <1>1, <1>2, <1>5, <1>9 DEF SocketInv
<1>11. /\ AskerShare' = AskerShare /\ TimerShare' = TimerShare /\ BoundShare' = BoundShare
       /\ SentShare' = SentShare /\ LoopShare' = LoopShare
       /\ BindShare' = BindShare /\ PollShare' = PollShare /\ ReplyShare' = ReplyShare
  BY <1>1, <1>2, <1>4 DEF AskerShare, TimerShare, BoundShare, SentShare, LoopShare, BindShare,
     PollShare, ReplyShare
<1>12. QueryShare' + Len(udpTasks') = QueryShare + Len(udpTasks)
  <2>1. CASE hQuery
    <3>1. QueryShare = 1 /\ QueryShare' = 0 /\ Len(udpTasks) = 0 /\ Len(udpTasks') = 1
      BY <1>1, <1>3, <2>1, OneLong DEF QueryShare
    <3> QED BY <3>1
  <2>2. CASE ~hQuery
    <3>1. QueryShare = 0 /\ QueryShare' = 0 /\ udpTasks' = udpTasks
      BY <1>1, <1>3, <2>2 DEF QueryShare
    <3> QED BY <3>1
  <2> QED BY <2>1, <2>2
<1>13. QueryShare' \in {0, 1} /\ Len(udpTasks') \in {0, 1}
  BY <1>6, OneLong DEF QueryShare, UdpQueues
<1>14. Good' /\ held' = held /\ ~early
  BY <1>1, <1>2, <1>4 DEF Good
<1>15. /\ held.dns = AskerShare + TimerShare + BoundShare + SentShare
       /\ held.conn = QueryShare + Len(udpTasks) + LoopShare + BindShare + PollShare + ReplyShare
  BY <1>1, <1>14, DnsShares
<1>16. held'.dns = AskerShare' + TimerShare' + BoundShare' + SentShare'
  BY <1>11, <1>14, <1>15
<1>17. held'.conn = QueryShare' + Len(udpTasks') + LoopShare' + BindShare' + PollShare' + ReplyShare'
  BY <1>11, <1>12, <1>13, <1>14, <1>15, DnsRanges
<1>18. DnsCountInv'
  BY <1>14, <1>16, <1>17, DnsCounts
<1> QED BY <1>7, <1>8, <1>10, <1>18 DEF DnsInv

LEMMA UdpForceCloseKeepsDns ==
  ASSUME DnsInv, UdpForceClose
  PROVE  DnsInv'
<1>1. /\ DnsTypeOK /\ QueryInv /\ SocketInv /\ DnsCountInv
      /\ resolverAt = "poll" /\ Good /\ udpTasks # <<>> /\ Head(udpTasks) = "forceClose"
      /\ udpTasks' = Tail(udpTasks) /\ udpStatus' = "Disconnected" /\ udpSock' = "closed"
      /\ UNCHANGED <<hQuery, hTimeout, udpBound, fnOnDisconnect, resolverAt, timeoutAt, asker,
                     dnsEvents, replies, silences, early>>
  BY DEF UdpForceClose, DnsInv
<1>2. udpTasks = <<"forceClose">>
  <2>1. Head(<<"connect">>) = "connect"
    BY OneLong
  <2> QED BY <1>1, <2>1 DEF DnsTypeOK, UdpQueues
<1>3. udpTasks' = <<>> /\ udpTasks' # <<"connect">> /\ udpTasks' # <<"forceClose">>
  BY <1>1, <1>2, OneLong
<1>4. /\ ~hQuery /\ udpSock \in {"unpolled", "polled", "deaf"} /\ replies # <<"reply">>
      /\ asker # "ask" /\ (~early => udpSock # "unpolled" /\ udpBound) /\ (early => ~udpBound)
      /\ "not connected" \notin silences
  BY <1>1, <1>2, OneLong DEF QueryInv, SocketInv
<1>5. held' = DropUdp(DropUdp(held))
  BY <1>4 DEF UdpForceClose
<1>6. PICK g \in Helds :
        /\ g = DropUdp(held) /\ g.conn = held.conn - 1
        /\ g.dns = IF held.conn = 1 /\ udpBound THEN held.dns - 1 ELSE held.dns
        /\ held.conn > 0 /\ (held.conn = 1 /\ udpBound => held.dns > 0) => g.freed = held.freed
  BY DnsRanges, DropUdpDoes
<1>7. /\ held' \in Helds /\ held'.conn = g.conn - 1
      /\ held'.dns = IF g.conn = 1 /\ udpBound THEN g.dns - 1 ELSE g.dns
      /\ g.conn > 0 /\ (g.conn = 1 /\ udpBound => g.dns > 0) => held'.freed = g.freed
  BY <1>5, <1>6, DropUdpDoes
<1>8. DnsTypeOK'
  BY <1>1, <1>3, <1>7 DEF DnsTypeOK, UdpQueues
<1>9. QueryInv'
  BY <1>1, <1>3, <1>4 DEF QueryInv
<1>10. SocketInv'
  BY <1>1, <1>3, <1>4 DEF SocketInv
<1>11. /\ AskerShare' = AskerShare /\ TimerShare' = TimerShare
       /\ SentShare' = SentShare
       /\ QueryShare = 0 /\ QueryShare' = 0 /\ LoopShare = 0 /\ LoopShare' = 0
       /\ BindShare = 0 /\ BindShare' = 0 /\ PollShare' = 0 /\ ReplyShare = 0 /\ ReplyShare' = 0
       /\ early' = early
  BY <1>1, <1>2, <1>3, <1>4 DEF AskerShare, TimerShare, SentShare, QueryShare, LoopShare,
     BindShare, PollShare, ReplyShare
<1>12. Len(udpTasks) = 1 /\ Len(udpTasks') = 0
  BY <1>2, <1>3, OneLong
<1>13. held.dns = AskerShare + TimerShare + BoundShare + SentShare
  BY <1>1, DnsShares
<1>14. CASE ~early
  <2>1. PollShare = 1 /\ udpBound
    BY <1>4, <1>14 DEF PollShare
  <2>2. held.conn = 2
    <3>1. held.conn = QueryShare + Len(udpTasks) + LoopShare + BindShare + PollShare + ReplyShare
      BY <1>1, <1>14, DnsShares
    <3> QED BY <1>11, <1>12, <2>1, <3>1
  <2>3. BoundShare = 1
    BY <2>1, <2>2 DEF BoundShare
  <2>4. held.dns > 0
    BY <1>13, <2>3, DnsRanges
  <2>5. g.conn = 1 /\ g.dns = held.dns /\ g.freed = held.freed
    BY <1>6, <2>2
  <2>6. held'.conn = 0 /\ held'.dns = held.dns - 1 /\ held'.freed = held.freed
    BY <1>7, <2>1, <2>4, <2>5
  <2>7. BoundShare' = 0
    BY <2>6 DEF BoundShare
  <2>8. held'.dns = AskerShare' + TimerShare' + BoundShare' + SentShare'
    BY <1>11, <1>13, <2>3, <2>6, <2>7, DnsRanges
  <2>9. held'.conn = QueryShare' + Len(udpTasks') + LoopShare' + BindShare' + PollShare' + ReplyShare'
    BY <1>11, <1>12, <2>6
  <2>10. Good'
    BY <1>1, <2>6 DEF Good
  <2> QED BY <1>8, <1>9, <1>10, <2>8, <2>9, <2>10, DnsCounts DEF DnsInv
<1>15. CASE early
  <2>1. ~udpBound /\ ~udpBound'
    BY <1>1, <1>4, <1>15
  <2>2. BoundShare = 0 /\ BoundShare' = 0
    BY <2>1 DEF BoundShare
  <2>3. held'.dns = held.dns
    BY <1>6, <1>7, <2>1
  <2>4. held'.dns = AskerShare' + TimerShare' + BoundShare' + SentShare'
    BY <1>11, <1>13, <2>2, <2>3, DnsRanges
  <2>5. early'
    BY <1>11, <1>15
  <2> QED BY <1>8, <1>9, <1>10, <2>4, <2>5, DnsCounts DEF DnsInv
<1> QED BY <1>14, <1>15

\* The timer.
LEMMA QueryTimerKeepsDns ==
  ASSUME DnsInv, QueryTimerFires \/ QueryTimerCloses
  PROVE  DnsInv'
<1>1. /\ DnsTypeOK /\ QueryInv /\ SocketInv /\ DnsCountInv /\ Good
      /\ UNCHANGED <<hQuery, udpStatus, udpSock, udpBound, fnOnDisconnect, udpTasks, resolverAt,
                     asker, dnsEvents, replies, silences, early>>
      /\ timeoutAt' \in {"fired", "over"} /\ timeoutAt # "none"
  BY DEF QueryTimerFires, QueryTimerCloses, DnsInv
<1>2. /\ held' \in Helds /\ held'.conn = held.conn /\ Good' /\ hTimeout' \in BOOLEAN
      /\ held'.dns - TimerShare' = held.dns - TimerShare
  <2>1. CASE QueryTimerFires
    <3>1. TimerShare = 1 /\ TimerShare' = 1 /\ held' = held /\ hTimeout' \in BOOLEAN
      BY <2>1 DEF QueryTimerFires, TimerShare
    <3> QED BY <1>1, <3>1, DnsRanges DEF Good
  <2>2. CASE QueryTimerCloses
    <3>1. TimerShare = 1 /\ TimerShare' = 0 /\ held' = DropDns(held) /\ hTimeout' = hTimeout
      BY <2>2 DEF QueryTimerCloses, TimerShare
    <3>2. held.dns > 0
      BY <1>1, <3>1, DnsShares, DnsRanges
    <3>3. held' \in Helds /\ held'.dns = held.dns - 1 /\ held'.conn = held.conn
          /\ held'.freed = held.freed
      BY <3>1, <3>2, DnsRanges, DropDnsDoes
    <3> QED BY <1>1, <3>1, <3>3, DnsRanges DEF Good, DnsTypeOK
  <2> QED BY <2>1, <2>2 DEF QueryTimerFires, QueryTimerCloses
<1>3. DnsTypeOK'
  BY <1>1, <1>2 DEF DnsTypeOK
<1>4. QueryInv'
  BY <1>1 DEF QueryInv
<1>5. SocketInv'
  BY <1>1 DEF SocketInv
<1>6. /\ AskerShare' = AskerShare /\ BoundShare' = BoundShare /\ SentShare' = SentShare
      /\ QueryShare' = QueryShare /\ LoopShare' = LoopShare /\ BindShare' = BindShare
      /\ PollShare' = PollShare /\ ReplyShare' = ReplyShare /\ udpTasks' = udpTasks /\ early' = early
  BY <1>1, <1>2 DEF AskerShare, BoundShare, SentShare, QueryShare, LoopShare, BindShare,
     PollShare, ReplyShare
<1>7. /\ held.dns = AskerShare + TimerShare + BoundShare + SentShare
      /\ ~early => held.conn = QueryShare + Len(udpTasks) + LoopShare + BindShare
                               + PollShare + ReplyShare
  BY <1>1, DnsShares
<1>8. TimerShare' \in {0, 1}
  BY DEF TimerShare
<1>9. held'.dns = AskerShare' + TimerShare' + BoundShare' + SentShare'
  BY <1>2, <1>6, <1>7, <1>8, DnsRanges DEF Helds
<1>10. DnsCountInv'
  BY <1>2, <1>6, <1>7, <1>9, DnsCounts
<1> QED BY <1>3, <1>4, <1>5, <1>10 DEF DnsInv

LEMMA OnTimeoutKeepsDns ==
  ASSUME DnsInv, OnTimeout
  PROVE  DnsInv'
<1>1. /\ DnsTypeOK /\ QueryInv /\ SocketInv /\ DnsCountInv
      /\ timeoutAt = "fired" /\ timeoutAt' = "closing" /\ Good
      /\ ~hQuery' /\ hQuery' \in BOOLEAN
      /\ UNCHANGED <<hTimeout, udpSock, udpBound, fnOnDisconnect, resolverAt, asker, silences, early>>
  BY Zenon DEF OnTimeout, DnsInv
<1>2. udpSock # "none" /\ resolverAt # "connected" /\ udpTasks # <<"connect">> /\ asker # "ask"
  BY <1>1 DEF SocketInv
<1>3. CASE hQuery
  <2>1. /\ CloseUdp(held)
        /\ replies' = Append(replies, "timeout") /\ dnsEvents' = Append(dnsEvents, "timeout")
    BY <1>3 DEF OnTimeout
  <2>2. /\ udpStatus' = "Disconnected" /\ held' = held
        /\ udpTasks = <<>> /\ udpTasks' = <<"forceClose">>
    BY <1>2, <1>3, <2>1, CloseUdpDoes
  <2>3. replies = <<>> /\ dnsEvents = <<>>
    BY <1>1, <1>3 DEF QueryInv
  <2>4. replies' = <<"timeout">> /\ dnsEvents' = <<"timeout">>
    BY <2>1, <2>3, OneLong
  <2>5. /\ <<"timeout">> # <<>> /\ <<"timeout">> # <<"reply">> /\ <<"forceClose">> # <<"connect">>
        /\ <<>> # <<"reply">>
    BY OneLong
  <2>6. DnsTypeOK'
    BY <1>1, <2>2, <2>4 DEF DnsTypeOK, UdpQueues, Posted
  <2>7. QueryInv'
    BY <1>1, <2>4, <2>5 DEF QueryInv
  <2>8. udpSock \in {"unpolled", "polled"} /\ ~early
    BY <1>1, <1>2, <1>3 DEF DnsTypeOK, SocketInv
  <2>9. resolverAt = "bind" => ~hQuery' /\ udpStatus' # "Connecting"
    BY <1>1, <2>2
  <2>10. SocketInv'
    BY <1>1, <1>2, <2>2, <2>4, <2>5, <2>8, <2>9 DEF SocketInv
  <2>11. /\ AskerShare' = AskerShare /\ TimerShare = 1 /\ TimerShare' = 1 /\ BoundShare' = BoundShare
         /\ LoopShare' = LoopShare /\ BindShare' = BindShare
         /\ PollShare' = PollShare /\ ReplyShare = 0 /\ ReplyShare' = 0
         /\ QueryShare = 1 /\ QueryShare' = 0
    BY <1>1, <1>3, <2>2, <2>3, <2>4, <2>5 DEF AskerShare, TimerShare, BoundShare, LoopShare,
       BindShare, PollShare, ReplyShare, QueryShare
  <2>12. SentShare' = SentShare
    BY <1>1, <1>2, <2>2, <2>5 DEF SentShare
  <2>13. Len(udpTasks) = 0 /\ Len(udpTasks') = 1
    BY <2>2, OneLong
  <2>14. Good'
    BY <1>1, <2>2 DEF Good
  <2>15. /\ held.dns = AskerShare + TimerShare + BoundShare + SentShare
         /\ held.conn = QueryShare + Len(udpTasks) + LoopShare + BindShare + PollShare + ReplyShare
    BY <1>1, <2>8, DnsShares
  <2>16. held'.dns = AskerShare' + TimerShare' + BoundShare' + SentShare'
    BY <2>2, <2>11, <2>12, <2>15
  <2>17. held'.conn = QueryShare' + Len(udpTasks') + LoopShare' + BindShare' + PollShare' + ReplyShare'
    BY <2>2, <2>11, <2>13, <2>15, DnsRanges
  <2>18. DnsCountInv'
    BY <2>14, <2>16, <2>17, DnsCounts
  <2> QED BY <2>6, <2>7, <2>10, <2>18 DEF DnsInv
<1>4. CASE ~hQuery
  <2>1. UNCHANGED <<held, udpStatus, udpTasks, replies, dnsEvents>>
    BY <1>4 DEF OnTimeout
  <2>2. DnsTypeOK'
    BY <1>1, <2>1 DEF DnsTypeOK
  <2>3. QueryInv'
    BY <1>1, <2>1 DEF QueryInv
  <2>4. SocketInv'
    BY <1>1, <1>2, <1>4, <2>1 DEF SocketInv
  <2>5. /\ AskerShare' = AskerShare /\ TimerShare' = TimerShare /\ BoundShare' = BoundShare
        /\ SentShare' = SentShare /\ QueryShare' = QueryShare /\ LoopShare' = LoopShare
        /\ BindShare' = BindShare /\ PollShare' = PollShare /\ ReplyShare' = ReplyShare
    BY <1>1, <1>4, <2>1 DEF AskerShare, TimerShare, BoundShare, SentShare, QueryShare, LoopShare,
       BindShare, PollShare, ReplyShare
  <2>6. Good' /\ held' = held /\ udpTasks' = udpTasks /\ early' = early
    BY <1>1, <2>1 DEF Good
  <2>7. DnsCountInv'
    BY <1>1, <2>5, <2>6, DnsShares, DnsCounts
  <2> QED BY <2>2, <2>3, <2>4, <2>7 DEF DnsInv
<1> QED BY <1>3, <1>4

LEMMA DnsSteps ==
  ASSUME DnsInv, DnsNext
  PROVE  DnsInv'
<1>1. ASSUME NEW sent \in BOOLEAN, Query(sent) PROVE DnsInv'
  BY <1>1, QueryKeepsDns
<1>2. CASE Answered \/ Abandon
  BY <1>2, AskerKeepsDns
<1>3. CASE DnsLoop
  BY <1>3, UdpConnectKeepsDns, OnConnectedKeepsDns, OnConnectedBindsKeepsDns, CallbackEndsKeepsDns,
     OnReceiveKeepsDns, OnDisconnectKeepsDns, UdpForceCloseKeepsDns DEF DnsLoop
<1>4. ASSUME NEW what \in {"received", "error"}, Readable(what) PROVE DnsInv'
  BY <1>4, ReadableKeepsDns
<1>5. CASE DnsTimer
  BY <1>5, QueryTimerKeepsDns, OnTimeoutKeepsDns DEF DnsTimer
<1> QED BY <1>1, <1>2, <1>3, <1>4, <1>5 DEF DnsNext

LEMMA DnsImplies == DnsInv => QueryCounted /\ QueryAnsweredOnce
<1> SUFFICES ASSUME DnsInv PROVE QueryCounted /\ QueryAnsweredOnce
  OBVIOUS
<1>1. QueryCounted
  BY DEF DnsInv, DnsCountInv, QueryCounted
<1>2. Len(replies) \in {0, 1}
  BY OneLong DEF DnsInv, DnsTypeOK, Posted
<1> QED BY <1>1, <1>2, SMTT(30) DEF QueryAnsweredOnce

-----------------------------------------------------------------------------
(* The attempt to connect.                                                 *)

\* Where the timer of an attempt can be.
TimerPlaces == {"none", "queued", "early", "armed", "stopped", "fired", "closing", "over", "cancelled"}

AttemptQueues == {<<>>, <<"connect">>, <<"forceClose">>, <<"connect", "forceClose">>}
ConnRefs == [connector : Int, conn : Int, freed : SUBSET {"connector", "conn"}]
Answers == {<<>>, <<"connection">>, <<"nothing">>}
Races == {"timed out first", "twice", "overlap", "left polled"}

ConnectorTypeOK ==
  /\ tcp \in BOOLEAN /\ timed \in BOOLEAN /\ up \in BOOLEAN /\ halted \in BOOLEAN
  /\ hConnection \in BOOLEAN /\ hConnecting \in BOOLEAN /\ luaHolds \in BOOLEAN
  /\ withdrawn \in BOOLEAN
  /\ refs \in ConnRefs /\ tasks \in AttemptQueues /\ answers \in Answers
  /\ races \in SUBSET Races
  /\ iStatus \in {"Disconnected", "Connecting", "Connected"}
  /\ sock \in {"none", "waiting", "quiet", "unpolled", "closed"}
  /\ userData \in {"none", "connector", "channel"}
  /\ askerPc \in {"create", "connect", "idle", "closing", "refused", "gone"}
  /\ loopAt \in {"poll", "left", "event", "callback", "take", "release"}
  /\ timerAt \in TimerPlaces
  /\ event \in {"none", "connection", "nothing", "channel", "bound"}

\* Whoever exchanges the connection answers, closes it or takes it back, and nobody did
\* as long as it is there.
TakenInv ==
  /\ hConnection => answers = <<>> /\ ~withdrawn /\ tasks \in {<<>>, <<"connect">>}
                    /\ event = "none"
  /\ withdrawn => answers = <<>>
  /\ askerPc \in {"create", "connect", "refused"} =>
       /\ tasks = <<>> /\ iStatus = "Disconnected" /\ sock = "none" /\ AtPoll
       /\ userData = "none" /\ ~luaHolds /\ races = {}
       /\ event \in {"none", "nothing"}
  /\ askerPc \in {"create", "refused"} => /\ ~hConnection /\ timerAt = "none" /\ event = "none"
                                          /\ answers = <<>> /\ ~withdrawn
  /\ askerPc = "create" => refs = [connector |-> 1, conn |-> 0, freed |-> {}]
  /\ askerPc = "closing" => luaHolds
  /\ askerPc = "gone" => loopAt = "left"

\* How far an attempt has come whose steps kept their order.
OrderInv ==
  /\ askerPc \in {"idle", "closing"} => userData # "none"
  /\ userData = "channel" <=> event = "bound"
  /\ loopAt \in {"event", "callback", "take"} => event \in {"none", "nothing"}
  /\ loopAt = "event" => sock = "waiting"
  /\ sock = "waiting" => AtPoll \/ loopAt = "event"
  /\ tasks \in {<<"connect">>, <<"connect", "forceClose">>} => sock = "none"
  /\ sock = "none" => AtPoll /\ event \in {"none", "nothing"}
  /\ tasks \in {<<"forceClose">>, <<"connect", "forceClose">>} =>
       /\ ~hConnection /\ iStatus = "Disconnected" /\ event \in {"none", "nothing"}
       /\ sock \in {"quiet", "unpolled"} => loopAt \in {"callback", "take"}
  /\ sock = "closed" => iStatus = "Disconnected"
  /\ hConnection /\ sock \in {"quiet", "unpolled"} => loopAt \in {"callback", "take"}
  /\ event \in {"connection", "channel"} => iStatus = "Connecting"
  /\ event \in {"connection", "channel", "bound"} => sock \in {"quiet", "unpolled"}

AttemptCountInv ==
  /\ Fine
  /\ refs.conn = ConnHolders
  /\ refs.connector = ConnectorHolders

ConnectorInv ==
  /\ ConnectorTypeOK
  /\ TakenInv
  /\ races = {} => OrderInv /\ AttemptCountInv

\* The holders, one by one.
AskerHolds == IF askerPc \in {"create", "connect"} \/ luaHolds THEN 1 ELSE 0
TimerHolds == IF timerAt \notin {"none", "over"} THEN 1 ELSE 0
ConnHolds == IF (userData = "connector" /\ refs.conn > 0) \/ askerPc = "connect" THEN 1 ELSE 0
HandleHolds == IF hConnection THEN 1 ELSE 0
PollerHolds == IF sock = "waiting" /\ AtPoll THEN 1 ELSE 0
LoopHolds == IF ~AtPoll THEN 1 ELSE 0
EventHolds == IF event = "connection" THEN 1 ELSE 0
ChannelHolds == IF event \in {"channel", "bound"} THEN 1 ELSE 0

ConnSum == HandleHolds + PollerHolds + LoopHolds + EventHolds + ChannelHolds + Len(tasks)
ConnectorSum == AskerHolds + TimerHolds + ConnHolds

USE DEF AtPoll, TimerPlaces

LEMMA SumsAre == ConnHolders = ConnSum /\ ConnectorHolders = ConnectorSum
BY DEF ConnHolders, ConnectorHolders, One, ConnSum, ConnectorSum, AskerHolds, TimerHolds, ConnHolds,
       HandleHolds, PollerHolds, LoopHolds, EventHolds, ChannelHolds

LEMMA HoldsAre ==
  /\ AskerHolds \in {0, 1} /\ TimerHolds \in {0, 1} /\ ConnHolds \in {0, 1}
  /\ HandleHolds \in {0, 1} /\ PollerHolds \in {0, 1} /\ LoopHolds \in {0, 1}
  /\ EventHolds \in {0, 1} /\ ChannelHolds \in {0, 1}
BY DEF AskerHolds, TimerHolds, ConnHolds, HandleHolds, PollerHolds, LoopHolds, EventHolds, ChannelHolds

LEMMA AttemptQueue ==
  /\ Len(<<>>) = 0 /\ \A a : Len(<<a>>) = 1 /\ <<a>> # <<>> /\ Head(<<a>>) = a /\ Tail(<<a>>) = <<>>
  /\ \A a, b : /\ Len(<<a, b>>) = 2 /\ <<a, b>> # <<>> /\ <<a, b>> # <<a>> /\ <<a, b>> # <<b>>
               /\ Head(<<a, b>>) = a /\ Tail(<<a, b>>) = <<b>>
  /\ \A a : Append(<<>>, a) = <<a>>
  /\ \A a, b : Append(<<a>>, b) = <<a, b>>
<1>1. \A a : Append(<<>>, a) = <<a>>
  BY OneLong
<1>2. \A a, b : Append(<<a>>, b) = <<a, b>>
  BY AppendToOne
<1>3. \A a : Len(<<a>>) = 1 /\ <<a>> # <<>> /\ Head(<<a>>) = a /\ Tail(<<a>>) = <<>>
  BY OneLong
<1>4. \A a, b : Head(<<a, b>>) = a /\ Tail(<<a, b>>) = <<b>>
  OBVIOUS
<1>5. \A a, b : Len(<<a, b>>) = 2 /\ <<a, b>> # <<>> /\ <<a, b>> # <<a>> /\ <<a, b>> # <<b>>
  OBVIOUS
<1> QED BY <1>1, <1>2, <1>3, <1>4, <1>5

LEMMA AttemptLengths ==
  ASSUME tasks \in AttemptQueues PROVE Len(tasks) \in {0, 1, 2}
BY AttemptQueue DEF AttemptQueues

LEMMA UseDoes ==
  ASSUME NEW r \in ConnRefs, NEW object \in {"connector", "conn"}
  PROVE  /\ Use(r, object) \in ConnRefs
         /\ Use(r, object).conn = r.conn /\ Use(r, object).connector = r.connector
         /\ r[object] > 0 => Use(r, object) = r
<1>1. CASE r[object] <= 0
  <2>1. PICK f \in SUBSET {"connector", "conn"} : f = r.freed \union {object}
    BY DEF ConnRefs
  <2>2. Use(r, object) = [r EXCEPT !.freed = f]
    BY <1>1, <2>1 DEF Use
  <2>3. r[object] \in Int
    BY DEF ConnRefs
  <2> QED BY <1>1, <2>1, <2>2, <2>3 DEF ConnRefs
<1>2. CASE ~(r[object] <= 0)
  BY <1>2 DEF Use
<1> QED BY <1>1, <1>2

LEMMA DropDoes ==
  ASSUME NEW r \in ConnRefs
  PROVE  /\ Drop(r) \in ConnRefs
         /\ Drop(r).connector = r.connector - 1 /\ Drop(r).conn = r.conn
         /\ r.connector > 0 => Drop(r).freed = r.freed
<1>1. PICK u \in ConnRefs : /\ u = Use(r, "connector") /\ u.conn = r.conn
                            /\ u.connector = r.connector /\ (r.connector > 0 => u = r)
  BY UseDoes
<1>2. PICK c \in Int : c = u.connector - 1
  BY DEF ConnRefs
<1>3. Drop(r) = [u EXCEPT !.connector = c]
  BY <1>1, <1>2 DEF Drop
<1> QED BY <1>1, <1>2, <1>3 DEF ConnRefs

LEMMA DropConnDoes ==
  ASSUME NEW r \in ConnRefs
  PROVE  /\ DropConn(r) \in ConnRefs
         /\ DropConn(r).conn = r.conn - 1
         /\ DropConn(r).connector = IF r.conn = 1 /\ userData = "connector"
                                    THEN r.connector - 1 ELSE r.connector
         /\ r.conn > 0 /\ (r.conn = 1 /\ userData = "connector" => r.connector > 0)
              => DropConn(r).freed = r.freed
<1>1. PICK u \in ConnRefs : /\ u = Use(r, "conn") /\ u.conn = r.conn
                            /\ u.connector = r.connector /\ (r.conn > 0 => u = r)
  BY UseDoes
<1>2. PICK c \in Int : c = u.conn - 1
  BY DEF ConnRefs
<1>3. PICK s : s = [u EXCEPT !.conn = c]
  OBVIOUS
<1>4. /\ s \in ConnRefs /\ s.conn = r.conn - 1 /\ s.connector = r.connector
      /\ (r.conn > 0 => s.freed = r.freed)
  BY <1>1, <1>2, <1>3 DEF ConnRefs
<1>5. DropConn(r) = IF r.conn = 1 /\ userData = "connector" THEN Drop(s) ELSE s
  BY <1>1, <1>2, <1>3 DEF DropConn
<1>6. CASE r.conn = 1 /\ userData = "connector"
  BY <1>4, <1>5, <1>6, DropDoes
<1>7. CASE ~(r.conn = 1 /\ userData = "connector")
  BY <1>4, <1>5, <1>7
<1> QED BY <1>6, <1>7

\* Whoever took the connection closes it: its reference goes to the queued close, unless
\* the connection has failed already.
LEMMA ForceCloseDoes ==
  ASSUME NEW r \in ConnRefs, tasks \in {<<>>, <<"connect">>}, ForceCloseAndRelease(r)
  PROVE  /\ refs' \in ConnRefs /\ iStatus' = "Disconnected" /\ tasks' \in AttemptQueues
         /\ \/ iStatus = "Disconnected" /\ tasks' = tasks
            \/ iStatus # "Disconnected" /\ tasks = <<>> /\ tasks' = <<"forceClose">>
            \/ iStatus # "Disconnected" /\ tasks = <<"connect">> /\ tasks' = <<"connect", "forceClose">>
         /\ r.conn > 0 =>
              \/ iStatus = "Disconnected" /\ refs' = DropConn(r)
              \/ /\ iStatus # "Disconnected" /\ refs'.conn = r.conn
                 /\ refs'.connector = r.connector /\ refs'.freed = r.freed
<1>1. PICK s \in ConnRefs : /\ s = Use(r, "conn") /\ s.conn = r.conn
                            /\ s.connector = r.connector /\ (r.conn > 0 => s = r)
  BY UseDoes
<1>2. iStatus' = "Disconnected"
  BY DEF ForceCloseAndRelease
<1>3. CASE iStatus = "Disconnected"
  <2>1. refs' = DropConn(s) /\ tasks' = tasks
    BY <1>1, <1>3 DEF ForceCloseAndRelease
  <2>2. tasks' \in AttemptQueues
    BY <2>1 DEF AttemptQueues
  <2> QED BY <1>1, <1>2, <1>3, <2>1, <2>2, DropConnDoes
<1>4. CASE iStatus # "Disconnected"
  <2>1. PICK c \in Int : c = s.conn + 1
    BY DEF ConnRefs
  <2>2. PICK u : u = [s EXCEPT !.conn = c]
    OBVIOUS
  <2>3. /\ u \in ConnRefs /\ u.conn = s.conn + 1 /\ u.connector = s.connector /\ u.freed = s.freed
    BY <2>1, <2>2 DEF ConnRefs
  <2>4. refs' = DropConn(u) /\ tasks' = Append(tasks, "forceClose")
    BY <1>1, <1>4, <2>1, <2>2 DEF ForceCloseAndRelease
  <2>5. \/ tasks = <<>> /\ tasks' = <<"forceClose">>
        \/ tasks = <<"connect">> /\ tasks' = <<"connect", "forceClose">>
    BY <2>4, AttemptQueue
  <2>6. tasks' \in AttemptQueues
    BY <2>5 DEF AttemptQueues
  <2>7. /\ refs' \in ConnRefs /\ refs'.conn = u.conn - 1
        /\ refs'.connector = IF u.conn = 1 /\ userData = "connector"
                             THEN u.connector - 1 ELSE u.connector
        /\ u.conn > 0 /\ (u.conn = 1 /\ userData = "connector" => u.connector > 0)
             => refs'.freed = u.freed
    BY <2>3, <2>4, DropConnDoes
  <2>8. r.conn \in Int /\ r.connector \in Int
    BY DEF ConnRefs
  <2>9. r.conn > 0 => u.conn > 0 /\ u.conn # 1
    BY <1>1, <2>3, <2>8
  <2>10. r.conn > 0 => /\ refs'.conn = r.conn /\ refs'.connector = r.connector
                       /\ refs'.freed = r.freed
    BY <1>1, <2>3, <2>7, <2>8, <2>9
  <2> QED BY <1>2, <1>4, <2>5, <2>6, <2>7, <2>10
<1> QED BY <1>3, <1>4

LEMMA InitConnector == ConnectorInit => ConnectorInv
<1> SUFFICES ASSUME ConnectorInit PROVE ConnectorInv
  OBVIOUS
<1>1. /\ tcp \in BOOLEAN /\ timed \in BOOLEAN /\ up \in BOOLEAN /\ halted \in BOOLEAN
      /\ hConnection \in BOOLEAN /\ hConnecting \in BOOLEAN /\ luaHolds \in BOOLEAN
      /\ withdrawn \in BOOLEAN /\ ~hConnection /\ ~withdrawn /\ ~luaHolds
  BY Zenon DEF ConnectorInit
<1>2. /\ refs = [connector |-> 1, conn |-> 0, freed |-> {}]
      /\ iStatus = "Disconnected" /\ sock = "none" /\ tasks = <<>> /\ userData = "none"
      /\ askerPc = "create" /\ loopAt = "poll" /\ timerAt = "none" /\ event = "none"
      /\ answers = <<>> /\ races = {}
  BY DEF ConnectorInit
<1>3. ConnectorTypeOK
  <2>1. refs \in ConnRefs
    BY <1>2 DEF ConnRefs
  <2>2. tasks \in AttemptQueues /\ answers \in Answers
    BY <1>2 DEF AttemptQueues, Answers
  <2> QED BY <1>1, <1>2, <2>1, <2>2 DEF ConnectorTypeOK
<1>4. TakenInv
  BY <1>1, <1>2 DEF TakenInv
<1>5. tasks # <<"connect">> /\ tasks # <<"forceClose">> /\ tasks # <<"connect", "forceClose">>
  BY <1>2, AttemptQueue
<1>6. OrderInv
  BY <1>1, <1>2, <1>5 DEF OrderInv
<1>7. AttemptCountInv
  <2>1. /\ AskerHolds = 1 /\ TimerHolds = 0 /\ ConnHolds = 0 /\ HandleHolds = 0 /\ PollerHolds = 0
        /\ LoopHolds = 0 /\ EventHolds = 0 /\ ChannelHolds = 0
    BY <1>1, <1>2 DEF AskerHolds, TimerHolds, ConnHolds, HandleHolds, PollerHolds, LoopHolds,
       EventHolds, ChannelHolds
  <2>2. Len(tasks) = 0 /\ refs.connector = 1 /\ refs.conn = 0 /\ refs.freed = {}
    BY <1>2, AttemptQueue
  <2> QED BY <2>1, <2>2, SumsAre DEF AttemptCountInv, Fine, ConnSum, ConnectorSum
<1> QED BY <1>3, <1>4, <1>6, <1>7 DEF ConnectorInv

LEMMA ConnectorStutters ==
  ASSUME ConnectorInv, UNCHANGED connectorVars
  PROVE  ConnectorInv'
<1> USE DEF connectorVars, sideVars, handleVars
<1>1. ConnectorTypeOK'
  BY DEF ConnectorInv, ConnectorTypeOK
<1>2. TakenInv'
  BY DEF ConnectorInv, TakenInv
<1>3. OrderInv => OrderInv'
  BY DEF OrderInv
<1>4. AttemptCountInv => AttemptCountInv'
  BY DEF AttemptCountInv, Fine, ConnHolders, ConnectorHolders
<1> QED BY <1>1, <1>2, <1>3, <1>4 DEF ConnectorInv

LEMMA AttemptHolds ==
  ASSUME ConnectorInv
  PROVE  /\ ConnectorTypeOK /\ TakenInv
         /\ refs \in ConnRefs /\ refs.conn \in Int /\ refs.connector \in Int
         /\ Len(tasks) \in {0, 1, 2}
         /\ races = {} => OrderInv /\ Fine /\ refs.conn = ConnSum /\ refs.connector = ConnectorSum
<1>1. refs \in ConnRefs /\ refs.conn \in Int /\ refs.connector \in Int /\ tasks \in AttemptQueues
  BY DEF ConnectorInv, ConnectorTypeOK, ConnRefs
<1> QED BY <1>1, SumsAre, AttemptLengths DEF ConnectorInv, AttemptCountInv

LEMMA AttemptCounts ==
  ASSUME Fine', refs'.conn = ConnSum', refs'.connector = ConnectorSum'
  PROVE  AttemptCountInv'
<1>1. ConnHolders' = ConnSum'
  BY DEF ConnHolders, One, ConnSum, HandleHolds, PollerHolds, LoopHolds, EventHolds, ChannelHolds
<1>2. ConnectorHolders' = ConnectorSum'
  BY DEF ConnectorHolders, One, ConnectorSum, AskerHolds, TimerHolds, ConnHolds
<1> QED BY <1>1, <1>2 DEF AttemptCountInv

LEMMA CreateKeepsAttempt ==
  ASSUME ConnectorInv, NEW valid \in BOOLEAN, Create(valid)
  PROVE  ConnectorInv'
<1>1. /\ ConnectorTypeOK /\ TakenInv /\ refs \in ConnRefs
      /\ askerPc = "create"
      /\ UNCHANGED <<sideVars, iStatus, sock, tasks, userData, loopAt, luaHolds, event, answers,
                     withdrawn, races>>
  BY AttemptHolds DEF Create
<1>2. /\ tasks = <<>> /\ iStatus = "Disconnected" /\ sock = "none" /\ AtPoll
      /\ userData = "none" /\ ~luaHolds /\ races = {} /\ event = "none"
      /\ ~hConnection /\ timerAt = "none" /\ answers = <<>> /\ ~withdrawn
      /\ refs = [connector |-> 1, conn |-> 0, freed |-> {}]
  BY <1>1 DEF TakenInv
<1>3. tasks # <<"connect">> /\ tasks # <<"forceClose">> /\ tasks # <<"connect", "forceClose">>
  BY <1>2, AttemptQueue
<1>4. /\ PollerHolds' = 0 /\ LoopHolds' = 0 /\ EventHolds' = 0 /\ ChannelHolds' = 0
      /\ Len(tasks') = 0
  BY <1>1, <1>2, AttemptQueue DEF PollerHolds, LoopHolds, EventHolds, ChannelHolds
<1>5. CASE valid
  <2>1. /\ refs' = [refs EXCEPT !.connector = @ + ConnectReferences, !.conn = 1]
        /\ hConnection' = TRUE /\ hConnecting' = timed
        /\ timerAt' = (IF timed THEN "queued" ELSE "none") /\ askerPc' = "connect"
    BY <1>5 DEF Create
  <2>2. PICK n \in {2, 3} : n = IF timed THEN 3 ELSE 2
    OBVIOUS
  <2>3. refs' = [connector |-> n, conn |-> 1, freed |-> {}]
    <3>1. 1 + ConnectReferences = n
      BY <2>2 DEF ConnectReferences
    <3> QED BY <1>2, <2>1, <3>1
  <2>4. refs' \in ConnRefs /\ refs'.connector = n /\ refs'.conn = 1 /\ Fine'
    BY <2>3 DEF ConnRefs, Fine
  <2>5. ConnectorTypeOK'
    BY <1>1, <2>1, <2>4 DEF ConnectorTypeOK, sideVars
  <2>6. TakenInv'
    BY <1>1, <1>2, <2>1 DEF TakenInv
  <2>7. OrderInv'
    BY <1>1, <1>2, <1>3, <2>1 DEF OrderInv
  <2>8. AskerHolds' = 1 /\ TimerHolds' = n - 2 /\ ConnHolds' = 1 /\ HandleHolds' = 1
    BY <2>1, <2>2 DEF AskerHolds, TimerHolds, ConnHolds, HandleHolds
  <2>9. AttemptCountInv'
    BY <1>4, <2>4, <2>8, AttemptCounts DEF ConnSum, ConnectorSum
  <2> QED BY <2>5, <2>6, <2>7, <2>9 DEF ConnectorInv
<1>6. CASE ~valid
  <2>1. refs' = Drop(refs) /\ askerPc' = "refused" /\ UNCHANGED <<handleVars, timerAt>>
    BY <1>6 DEF Create
  <2>2. refs' \in ConnRefs /\ refs'.connector = 0 /\ refs'.conn = 0 /\ refs'.freed = {}
    BY <1>1, <1>2, <2>1, DropDoes
  <2>3. ConnectorTypeOK'
    BY <1>1, <2>1, <2>2 DEF ConnectorTypeOK, sideVars, handleVars
  <2>4. TakenInv'
    BY <1>1, <1>2, <2>1 DEF TakenInv, handleVars
  <2>5. OrderInv'
    BY <1>1, <1>2, <1>3, <2>1 DEF OrderInv, handleVars
  <2>6. AskerHolds' = 0 /\ TimerHolds' = 0 /\ ConnHolds' = 0 /\ HandleHolds' = 0
    BY <1>1, <1>2, <2>1 DEF AskerHolds, TimerHolds, ConnHolds, HandleHolds, handleVars
  <2>7. AttemptCountInv'
    BY <1>4, <2>2, <2>6, AttemptCounts DEF ConnSum, ConnectorSum, Fine
  <2> QED BY <2>3, <2>4, <2>5, <2>7 DEF ConnectorInv
<1> QED BY <1>5, <1>6

LEMMA ConnectKeepsAttempt ==
  ASSUME ConnectorInv, Connect
  PROVE  ConnectorInv'
<1>1. /\ ConnectorTypeOK /\ TakenInv /\ refs \in ConnRefs
      /\ askerPc = "connect" /\ askerPc' = "idle" /\ luaHolds' = TRUE
      /\ iStatus' = "Connecting" /\ userData' = "connector"
      /\ UNCHANGED <<sideVars, handleVars, sock, loopAt, timerAt, event, answers, withdrawn>>
  BY AttemptHolds DEF Connect
<1>2. /\ tasks = <<>> /\ sock = "none" /\ AtPoll /\ races = {} /\ event \in {"none", "nothing"}
      /\ ~luaHolds
  BY <1>1 DEF TakenInv
<1>3. /\ tasks' = <<"connect">> /\ tasks' \in AttemptQueues
      /\ tasks' # <<"forceClose">> /\ tasks' # <<"connect", "forceClose">>
  <2>1. tasks' = Append(tasks, "connect")
    BY DEF Connect
  <2>2. tasks' = <<"connect">>
    BY <1>2, <2>1, AttemptQueue
  <2>3. <<"connect">> # <<"connect", "forceClose">>
    BY AttemptQueue
  <2> QED BY <2>2, <2>3 DEF AttemptQueues
<1>4. PICK u \in ConnRefs : /\ u = Use(refs, "conn") /\ u.conn = refs.conn
                            /\ u.connector = refs.connector /\ (refs.conn > 0 => u = refs)
  BY <1>1, UseDoes
<1>5. PICK c \in Int : c = u.conn + 1
  BY DEF ConnRefs
<1>6. refs' = [u EXCEPT !.conn = c]
  BY <1>4, <1>5 DEF Connect
<1>7. /\ refs' \in ConnRefs /\ refs'.conn = refs.conn + 1 /\ refs'.connector = refs.connector
      /\ refs'.freed = u.freed
  BY <1>4, <1>5, <1>6 DEF ConnRefs
<1>8. ConnectorTypeOK'
  <2>1. races' \in SUBSET Races
    BY <1>2 DEF Races, Connect
  <2> QED BY <1>1, <1>3, <1>7, <2>1 DEF ConnectorTypeOK, sideVars, handleVars
<1>9. TakenInv'
  BY <1>1, <1>2, <1>3 DEF TakenInv, handleVars
<1>10. ASSUME races' = {} PROVE OrderInv' /\ AttemptCountInv'
  <2>1. refs.conn > 0
    <3>1. ~(refs.conn <= 0)
      BY <1>10 DEF Connect
    <3> QED BY <3>1, AttemptHolds
  <2>2. OrderInv'
    BY <1>1, <1>2, <1>3 DEF OrderInv, handleVars
  <2>3. /\ AskerHolds = 1 /\ AskerHolds' = 1 /\ TimerHolds' = TimerHolds /\ ConnHolds = 1
        /\ HandleHolds' = HandleHolds /\ PollerHolds' = PollerHolds /\ LoopHolds' = LoopHolds
        /\ EventHolds' = EventHolds /\ ChannelHolds' = ChannelHolds
    BY <1>1 DEF AskerHolds, TimerHolds, ConnHolds, HandleHolds, PollerHolds, LoopHolds,
       EventHolds, ChannelHolds, handleVars
  <2>4. Len(tasks) = 0 /\ Len(tasks') = 1
    BY <1>2, <1>3, AttemptQueue
  <2>5. /\ refs.conn \in Int /\ refs.connector \in Int /\ Fine
        /\ refs.conn = ConnSum /\ refs.connector = ConnectorSum
    BY <1>2, AttemptHolds
  <2>6. refs'.conn > 0
    BY <1>7, <2>1, <2>5
  <2>7. ConnHolds' = 1
    BY <1>1, <2>6 DEF ConnHolds
  <2>8. Fine'
    BY <1>4, <1>7, <2>1, <2>5 DEF Fine
  <2>9. refs'.conn = ConnSum'
    BY <1>7, <2>3, <2>4, <2>5, HoldsAre DEF ConnSum
  <2>10. refs'.connector = ConnectorSum'
    BY <1>7, <2>3, <2>5, <2>7, HoldsAre DEF ConnectorSum
  <2> QED BY <2>2, <2>8, <2>9, <2>10, AttemptCounts
<1> QED BY <1>8, <1>9, <1>10 DEF ConnectorInv


LEMMA StopTimeoutDoes ==
  ASSUME ConnectorInv, StopTimeout
  PROVE  /\ hConnecting' \in BOOLEAN
         /\ timerAt' \in TimerPlaces
         /\ TimerHolds' = TimerHolds /\ (timerAt = "none" => timerAt' = "none")
<1>1. \/ timerAt' = timerAt
      \/ timerAt = "queued" /\ timerAt' = "early"
      \/ timerAt = "armed" /\ timerAt' = "stopped"
  BY DEF StopTimeout
<1>2. hConnecting' = FALSE
  BY DEF StopTimeout
<1>3. TimerHolds' = TimerHolds
  BY <1>1 DEF TimerHolds
<1> QED BY <1>1, <1>2, <1>3 DEF ConnectorInv, ConnectorTypeOK

LEMMA LuaCloseKeepsAttempt ==
  ASSUME ConnectorInv, LuaClose
  PROVE  ConnectorInv'
<1>1. /\ ConnectorTypeOK /\ TakenInv
      /\ askerPc = "idle" /\ luaHolds /\ askerPc' = "closing" /\ StopTimeout
      /\ UNCHANGED <<sideVars, hConnection, refs, iStatus, sock, tasks, userData, loopAt, luaHolds,
                     event, answers, withdrawn, races>>
  BY AttemptHolds DEF LuaClose
<1>2. /\ hConnecting' \in BOOLEAN
      /\ timerAt' \in TimerPlaces
      /\ TimerHolds' = TimerHolds
  BY <1>1, StopTimeoutDoes
<1>3. ConnectorTypeOK'
  BY <1>1, <1>2 DEF ConnectorTypeOK, sideVars
<1>4. TakenInv'
  BY <1>1 DEF TakenInv
<1>5. ASSUME races' = {} PROVE OrderInv' /\ AttemptCountInv'
  <2>1. /\ OrderInv /\ Fine /\ refs.conn = ConnSum /\ refs.connector = ConnectorSum
    BY <1>1, <1>5, AttemptHolds
  <2>2. OrderInv'
    BY <1>1, <2>1 DEF OrderInv
  <2>3. /\ AskerHolds' = AskerHolds /\ ConnHolds' = ConnHolds
        /\ HandleHolds' = HandleHolds /\ PollerHolds' = PollerHolds /\ LoopHolds' = LoopHolds
        /\ EventHolds' = EventHolds /\ ChannelHolds' = ChannelHolds
    BY <1>1 DEF AskerHolds, ConnHolds, HandleHolds, PollerHolds, LoopHolds, EventHolds, ChannelHolds
  <2>4. Fine' /\ refs' = refs /\ tasks' = tasks
    BY <1>1, <2>1 DEF Fine
  <2>5. AttemptCountInv'
    BY <1>2, <2>1, <2>3, <2>4, AttemptCounts DEF ConnSum, ConnectorSum
  <2> QED BY <2>2, <2>5
<1> QED BY <1>3, <1>4, <1>5 DEF ConnectorInv

LEMMA LuaGcKeepsAttempt ==
  ASSUME ConnectorInv, LuaGc
  PROVE  ConnectorInv'
<1>1. /\ ConnectorTypeOK /\ TakenInv
      /\ askerPc = "idle" /\ luaHolds /\ ~luaHolds' /\ luaHolds' \in BOOLEAN /\ refs' = Drop(refs)
      /\ UNCHANGED <<sideVars, handleVars, iStatus, sock, tasks, userData, askerPc, loopAt, timerAt,
                     event, answers, withdrawn, races>>
  BY AttemptHolds, Zenon DEF LuaGc
<1>2. /\ refs' \in ConnRefs /\ refs'.connector = refs.connector - 1 /\ refs'.conn = refs.conn
      /\ (refs.connector > 0 => refs'.freed = refs.freed)
  BY <1>1, DropDoes DEF ConnectorTypeOK
<1>3. ConnectorTypeOK'
  BY <1>1, <1>2 DEF ConnectorTypeOK, sideVars, handleVars
<1>4. TakenInv'
  BY <1>1 DEF TakenInv, handleVars
<1>5. ASSUME races' = {} PROVE OrderInv' /\ AttemptCountInv'
  <2>1. /\ OrderInv /\ Fine /\ refs.conn = ConnSum /\ refs.connector = ConnectorSum
        /\ refs.connector \in Int
    BY <1>1, <1>5, AttemptHolds
  <2>2. OrderInv'
    BY <1>1, <2>1 DEF OrderInv, handleVars
  <2>3. /\ AskerHolds = 1 /\ AskerHolds' = 0 /\ ConnHolds' = ConnHolds /\ TimerHolds' = TimerHolds
        /\ HandleHolds' = HandleHolds /\ PollerHolds' = PollerHolds /\ LoopHolds' = LoopHolds
        /\ EventHolds' = EventHolds /\ ChannelHolds' = ChannelHolds
    BY <1>1, <1>2 DEF AskerHolds, ConnHolds, HandleHolds, PollerHolds, LoopHolds, EventHolds,
       ChannelHolds, TimerHolds, handleVars
  <2>4. refs.connector > 0
    BY <2>1, <2>3, HoldsAre DEF ConnectorSum
  <2>5. Fine' /\ tasks' = tasks
    BY <1>1, <1>2, <2>1, <2>4 DEF Fine
  <2>6. refs'.conn = ConnSum'
    BY <1>2, <2>1, <2>3, <2>5 DEF ConnSum
  <2>7. refs'.connector = ConnectorSum'
    BY <1>2, <2>1, <2>3, HoldsAre DEF ConnectorSum
  <2> QED BY <2>2, <2>5, <2>6, <2>7, AttemptCounts
<1> QED BY <1>3, <1>4, <1>5 DEF ConnectorInv

LEMMA StopsKeepAttempt ==
  ASSUME ConnectorInv, ServiceStops \/ EventIOStops
  PROVE  ConnectorInv'
<1>1. /\ ConnectorTypeOK /\ TakenInv /\ up' \in BOOLEAN /\ halted' \in BOOLEAN
      /\ UNCHANGED <<tcp, timed, handleVars, refs, iStatus, sock, tasks, userData, askerPc, loopAt,
                     timerAt, luaHolds, event, answers, withdrawn, races>>
  BY AttemptHolds DEF ServiceStops, EventIOStops, ConnectorTypeOK
<1>2. ConnectorTypeOK'
  BY <1>1 DEF ConnectorTypeOK, handleVars
<1>3. TakenInv'
  BY <1>1 DEF TakenInv, handleVars
<1>4. OrderInv => OrderInv'
  BY <1>1 DEF OrderInv, handleVars
<1>5. AttemptCountInv => AttemptCountInv'
  BY <1>1 DEF AttemptCountInv, Fine, ConnHolders, ConnectorHolders, handleVars
<1> QED BY <1>1, <1>2, <1>3, <1>4, <1>5 DEF ConnectorInv

\* A reference to the connection is released; the last one takes the connector's share
\* along.
LEMMA ReleaseDoes ==
  ASSUME NEW r \in ConnRefs, r.conn > 0, r.freed = {}, NEW n \in Int, r.connector = n + ConnHolds,
         n >= 0, userData = "connector" /\ askerPc # "connect" => ConnHolds = 1,
         refs' = DropConn(r), UNCHANGED userData, askerPc = "connect" <=> askerPc' = "connect",
         askerPc = "connect" => userData # "connector"
  PROVE  /\ refs' \in ConnRefs /\ refs'.conn = r.conn - 1 /\ refs'.connector = n + ConnHolds'
         /\ refs'.freed = {} /\ Fine'
         /\ userData = "connector" /\ askerPc' # "connect" /\ refs'.conn > 0 => ConnHolds' = 1
<1>1. /\ r.conn \in Int /\ r.connector \in Int /\ ConnHolds \in {0, 1}
  BY HoldsAre DEF ConnRefs
<1>2. /\ refs' \in ConnRefs /\ refs'.conn = r.conn - 1
      /\ refs'.connector = IF r.conn = 1 /\ userData = "connector" THEN r.connector - 1 ELSE r.connector
      /\ (r.conn = 1 /\ userData = "connector" => r.connector > 0) => refs'.freed = r.freed
  BY DropConnDoes
<1>3. CASE r.conn = 1 /\ userData = "connector"
  <2>1. ConnHolds = 1
    BY <1>3
  <2>2. refs'.conn = 0 /\ refs'.connector = n /\ refs'.freed = {}
    BY <1>1, <1>2, <1>3, <2>1
  <2>3. ConnHolds' = 0
    BY <1>3, <2>2 DEF ConnHolds
  <2> QED BY <1>2, <2>2, <2>3 DEF Fine
<1>4. CASE userData # "connector"
  <2>1. refs'.connector = r.connector /\ refs'.freed = {}
    BY <1>2, <1>4
  <2>2. ConnHolds' = ConnHolds
    BY <1>4 DEF ConnHolds
  <2> QED BY <1>2, <1>4, <2>1, <2>2 DEF Fine
<1>5. CASE userData = "connector" /\ r.conn # 1
  <2>1. refs'.connector = r.connector /\ refs'.freed = {} /\ refs'.conn > 0
    BY <1>1, <1>2, <1>5
  <2>2. ConnHolds' = 1 /\ ConnHolds = 1
    BY <1>5, <2>1 DEF ConnHolds
  <2> QED BY <1>2, <2>1, <2>2 DEF Fine
<1> QED BY <1>3, <1>4, <1>5

LEMMA QueueGrows ==
  ASSUME \/ tasks = <<>> /\ tasks' = <<"forceClose">>
         \/ tasks = <<"connect">> /\ tasks' = <<"connect", "forceClose">>
  PROVE  Len(tasks') = Len(tasks) + 1
<1>1. CASE tasks = <<>> /\ tasks' = <<"forceClose">>
  <2>1. Len(tasks) = 0 /\ Len(tasks') = 1
    BY <1>1, AttemptQueue
  <2> QED BY <2>1
<1>2. CASE tasks = <<"connect">> /\ tasks' = <<"connect", "forceClose">>
  <2>1. Len(tasks) = 1 /\ Len(tasks') = 2
    BY <1>2, AttemptQueue
  <2> QED BY <2>1
<1> QED BY <1>1, <1>2

LEMMA LuaClosesKeepsAttempt ==
  ASSUME ConnectorInv, LuaCloses
  PROVE  ConnectorInv'
<1>1. /\ ConnectorTypeOK /\ TakenInv
      /\ askerPc = "closing" /\ askerPc' = "idle" /\ ~luaHolds' /\ luaHolds' \in BOOLEAN
      /\ ~hConnection' /\ hConnection' \in BOOLEAN
      /\ withdrawn' = (withdrawn \/ hConnection)
      /\ UNCHANGED <<sideVars, hConnecting, sock, userData, loopAt, timerAt, event, answers, races>>
  BY AttemptHolds, Zenon DEF LuaCloses
<1>2. PICK d \in ConnRefs : /\ d = Drop(refs) /\ d.connector = refs.connector - 1 /\ d.conn = refs.conn
                            /\ (refs.connector > 0 => d.freed = refs.freed)
  BY <1>1, DropDoes DEF ConnectorTypeOK
<1>3. luaHolds /\ withdrawn' \in BOOLEAN /\ (withdrawn' => answers = <<>>)
  BY <1>1 DEF TakenInv
<1>4. AskerHolds = 1 /\ AskerHolds' = 0
  BY <1>1, <1>3 DEF AskerHolds
<1>5. /\ TimerHolds' = TimerHolds /\ HandleHolds' = 0 /\ PollerHolds' = PollerHolds
      /\ LoopHolds' = LoopHolds /\ EventHolds' = EventHolds /\ ChannelHolds' = ChannelHolds
  BY <1>1 DEF TimerHolds, HandleHolds, PollerHolds, LoopHolds, EventHolds, ChannelHolds
<1>6. ASSUME races = {} PROVE /\ d.freed = {} /\ d.connector = TimerHolds + ConnHolds
                              /\ d.connector \in Int /\ d.conn \in Int /\ d.conn = ConnSum
  <2>1. /\ Fine /\ refs.conn = ConnSum /\ refs.connector = ConnectorSum
        /\ refs.connector \in Int /\ refs.conn \in Int
    BY <1>6, AttemptHolds
  <2>2. refs.connector > 0 /\ d.connector = TimerHolds + ConnHolds
    BY <1>2, <1>4, <2>1, HoldsAre DEF ConnectorSum
  <2> QED BY <1>2, <2>1, <2>2 DEF Fine, ConnRefs
<1>7. CASE hConnection
  <2>1. ForceCloseAndRelease(d)
    BY <1>2, <1>7 DEF LuaCloses
  <2>2. tasks \in {<<>>, <<"connect">>} /\ answers = <<>> /\ event = "none"
    BY <1>1, <1>7 DEF TakenInv
  <2>3. /\ refs' \in ConnRefs /\ iStatus' = "Disconnected" /\ tasks' \in AttemptQueues
        /\ \/ iStatus = "Disconnected" /\ tasks' = tasks
           \/ iStatus # "Disconnected" /\ tasks = <<>> /\ tasks' = <<"forceClose">>
           \/ iStatus # "Disconnected" /\ tasks = <<"connect">> /\ tasks' = <<"connect", "forceClose">>
        /\ d.conn > 0 =>
             \/ iStatus = "Disconnected" /\ refs' = DropConn(d)
             \/ /\ iStatus # "Disconnected" /\ refs'.conn = d.conn
                /\ refs'.connector = d.connector /\ refs'.freed = d.freed
    BY <2>1, <2>2, ForceCloseDoes
  <2>4. ConnectorTypeOK'
    BY <1>1, <1>3, <2>3 DEF ConnectorTypeOK, sideVars
  <2>5. TakenInv'
    BY <1>1, <1>3 DEF TakenInv
  <2>6. ASSUME races' = {} PROVE OrderInv' /\ AttemptCountInv'
    <3>1. races = {} /\ OrderInv
      BY <1>1, <2>6, AttemptHolds
    <3>2. /\ tasks' \in {<<"connect">>, <<"connect", "forceClose">>}
               => tasks \in {<<"connect">>, <<"connect", "forceClose">>}
          /\ iStatus' = "Disconnected"
      <4>1. <<"forceClose">> # <<"connect">> /\ <<"forceClose">> # <<"connect", "forceClose">>
        BY AttemptQueue
      <4> QED BY <2>3, <4>1
    <3>3. OrderInv'
      BY <1>1, <1>7, <2>2, <3>1, <3>2 DEF OrderInv
    <3>4. HandleHolds = 1 /\ d.conn > 0
      <4>1. HandleHolds = 1
        BY <1>7 DEF HandleHolds
      <4> QED BY <1>6, <3>1, <4>1, HoldsAre, AttemptHolds DEF ConnSum
    <3>5. ConnHolds = 1 \/ userData # "connector"
      <4>1. refs.conn > 0
        BY <1>2, <3>4
      <4> QED BY <4>1 DEF ConnHolds
    <3>6. CASE iStatus = "Disconnected"
      <4>1. refs' = DropConn(d) /\ tasks' = tasks
        BY <2>3, <3>4, <3>6
      <4>2. TimerHolds \in Int /\ TimerHolds >= 0
        BY HoldsAre
      <4>3. /\ refs'.conn = d.conn - 1 /\ refs'.connector = TimerHolds + ConnHolds' /\ Fine'
        BY <1>1, <1>6, <3>1, <3>4, <3>5, <4>1, <4>2, ReleaseDoes
      <4>4. refs'.conn = ConnSum'
        BY <1>5, <1>6, <3>1, <3>4, <4>1, <4>3, HoldsAre, AttemptHolds DEF ConnSum
      <4>5. ConnHolds' \in {0, 1}
        BY DEF ConnHolds
      <4>6. refs'.connector = ConnectorSum'
        BY <1>4, <1>5, <4>2, <4>3, <4>5 DEF ConnectorSum
      <4> QED BY <3>3, <4>3, <4>4, <4>6, AttemptCounts
    <3>7. CASE iStatus # "Disconnected"
      <4>1. refs'.conn = d.conn /\ refs'.connector = d.connector /\ refs'.freed = d.freed
        BY <2>3, <3>4, <3>7
      <4>2. Len(tasks') = Len(tasks) + 1
        BY <2>3, <3>7, QueueGrows
      <4>3. ConnHolds' = ConnHolds
        BY <1>1, <1>2, <4>1 DEF ConnHolds
      <4>4. refs'.conn = ConnSum'
        BY <1>5, <1>6, <3>1, <3>4, <4>1, <4>2, HoldsAre, AttemptHolds DEF ConnSum
      <4>5. refs'.connector = ConnectorSum'
        BY <1>4, <1>5, <1>6, <3>1, <4>1, <4>3, HoldsAre DEF ConnectorSum
      <4>6. Fine'
        BY <1>6, <3>1, <4>1 DEF Fine
      <4> QED BY <3>3, <4>4, <4>5, <4>6, AttemptCounts
    <3> QED BY <3>6, <3>7
  <2> QED BY <2>4, <2>5, <2>6 DEF ConnectorInv
<1>8. CASE ~hConnection
  <2>1. refs' = d /\ UNCHANGED <<iStatus, tasks>>
    BY <1>2, <1>8 DEF LuaCloses
  <2>2. ConnectorTypeOK'
    BY <1>1, <1>3, <2>1 DEF ConnectorTypeOK, sideVars
  <2>3. TakenInv'
    BY <1>1, <1>3, <2>1 DEF TakenInv
  <2>4. ASSUME races' = {} PROVE OrderInv' /\ AttemptCountInv'
    <3>1. races = {} /\ OrderInv
      BY <1>1, <2>4, AttemptHolds
    <3>2. OrderInv'
      BY <1>1, <1>8, <2>1, <3>1 DEF OrderInv
    <3>3. ConnHolds' = ConnHolds /\ HandleHolds = 0
      BY <1>1, <1>2, <1>8, <2>1 DEF ConnHolds, HandleHolds
    <3>4. refs'.conn = ConnSum'
      BY <1>5, <1>6, <2>1, <3>1, <3>3, HoldsAre DEF ConnSum
    <3>5. refs'.connector = ConnectorSum'
      BY <1>4, <1>5, <1>6, <2>1, <3>1, <3>3, HoldsAre DEF ConnectorSum
    <3>6. Fine'
      BY <1>6, <2>1, <3>1 DEF Fine
    <3> QED BY <3>2, <3>4, <3>5, <3>6, AttemptCounts
  <2> QED BY <2>2, <2>3, <2>4 DEF ConnectorInv
<1> QED BY <1>7, <1>8

LEMMA TakeConnect ==
  ASSUME tasks \in AttemptQueues, tasks # <<>>, Head(tasks) = "connect", tasks' = Tail(tasks)
  PROVE  /\ tasks \in {<<"connect">>, <<"connect", "forceClose">>}
         /\ tasks' \in AttemptQueues /\ Len(tasks) = Len(tasks') + 1 /\ Len(tasks') \in {0, 1}
         /\ tasks' # <<"connect">> /\ tasks' # <<"connect", "forceClose">>
         /\ tasks' = <<"forceClose">> => tasks = <<"connect", "forceClose">>
<1>1. Head(<<"forceClose">>) = "forceClose"
  BY AttemptQueue
<1>2. tasks = <<"connect">> \/ tasks = <<"connect", "forceClose">>
  BY <1>1 DEF AttemptQueues
<1>3. CASE tasks = <<"connect">>
  <2>1. tasks' = <<>> /\ Len(tasks) = 1 /\ Len(tasks') = 0
    BY <1>3, AttemptQueue
  <2>2. /\ <<>> # <<"connect">> /\ <<>> # <<"connect", "forceClose">> /\ <<>> # <<"forceClose">>
    BY AttemptQueue
  <2>3. tasks' \in AttemptQueues
    BY <2>1 DEF AttemptQueues
  <2> QED BY <1>3, <2>1, <2>2, <2>3
<1>4. CASE tasks = <<"connect", "forceClose">>
  <2>1. tasks' = <<"forceClose">> /\ Len(tasks) = 2 /\ Len(tasks') = 1
    BY <1>4, AttemptQueue
  <2>2. /\ <<"forceClose">> # <<"connect">> /\ <<"forceClose">> # <<"connect", "forceClose">>
    BY AttemptQueue
  <2>3. tasks' \in AttemptQueues
    BY <2>1 DEF AttemptQueues
  <2> QED BY <1>4, <2>1, <2>2, <2>3
<1> QED BY <1>2, <1>3, <1>4

LEMMA RunConnectKeepsAttempt ==
  ASSUME ConnectorInv, NEW made \in BOOLEAN, RunConnect(made)
  PROVE  ConnectorInv'
<1>1. /\ ConnectorTypeOK /\ TakenInv
      /\ loopAt = "poll" /\ tasks # <<>> /\ Head(tasks) = "connect" /\ tasks' = Tail(tasks)
      /\ UNCHANGED <<sideVars, handleVars, refs, userData, askerPc, timerAt, luaHolds, event,
                     answers, withdrawn, races>>
  BY AttemptHolds DEF RunConnect
<1>2. /\ tasks \in {<<"connect">>, <<"connect", "forceClose">>}
      /\ tasks' \in AttemptQueues /\ Len(tasks) = Len(tasks') + 1 /\ Len(tasks') \in {0, 1}
      /\ tasks' # <<"connect">> /\ tasks' # <<"connect", "forceClose">>
      /\ tasks' = <<"forceClose">> => tasks = <<"connect", "forceClose">>
  BY <1>1, TakeConnect DEF ConnectorTypeOK
<1>3. \/ sock' = "waiting" /\ loopAt' = "poll" /\ iStatus' = iStatus
      \/ sock' = "unpolled" /\ loopAt' = "callback" /\ iStatus' = iStatus
      \/ sock' = "closed" /\ loopAt' = "callback" /\ iStatus' = "Disconnected"
  BY DEF RunConnect
<1>4. ConnectorTypeOK'
  BY <1>1, <1>2, <1>3 DEF ConnectorTypeOK, sideVars, handleVars
<1>5. askerPc \notin {"create", "connect", "refused"}
  BY <1>1 DEF TakenInv
<1>6. hConnection => tasks' = <<>>
  <2>1. <<"connect", "forceClose">> # <<"connect">> /\ <<"connect", "forceClose">> # <<>>
    BY AttemptQueue
  <2>2. hConnection => tasks # <<"connect", "forceClose">>
    BY <1>1, <2>1 DEF TakenInv
  <2> QED BY <1>2, <2>2 DEF AttemptQueues
<1>7. TakenInv'
  BY <1>1, <1>5, <1>6 DEF TakenInv, handleVars
<1>8. ASSUME races' = {} PROVE OrderInv' /\ AttemptCountInv'
  <2>1. /\ OrderInv /\ Fine /\ refs.conn = ConnSum /\ refs.connector = ConnectorSum
    BY <1>1, <1>8, AttemptHolds
  <2>2. sock = "none" /\ event \in {"none", "nothing"}
    BY <1>2, <2>1 DEF OrderInv
  <2>3. tasks' = <<"forceClose">> => ~hConnection /\ iStatus = "Disconnected"
    BY <1>2, <2>1 DEF OrderInv
  <2>4. OrderInv'
    BY <1>1, <1>2, <1>3, <2>1, <2>2, <2>3 DEF OrderInv, handleVars
  <2>5. /\ AskerHolds' = AskerHolds /\ TimerHolds' = TimerHolds /\ ConnHolds' = ConnHolds
        /\ HandleHolds' = HandleHolds /\ EventHolds' = EventHolds /\ ChannelHolds' = ChannelHolds
    BY <1>1 DEF AskerHolds, TimerHolds, ConnHolds, HandleHolds, EventHolds, ChannelHolds, handleVars
  <2>6. /\ PollerHolds = 0 /\ LoopHolds = 0
        /\ \/ PollerHolds' = 1 /\ LoopHolds' = 0
           \/ PollerHolds' = 0 /\ LoopHolds' = 1
    BY <1>1, <1>3, <2>2 DEF PollerHolds, LoopHolds
  <2>7. Fine' /\ refs' = refs
    BY <1>1, <2>1 DEF Fine
  <2>8. refs'.conn = ConnSum'
    BY <1>2, <2>1, <2>5, <2>6, <2>7, HoldsAre DEF ConnSum
  <2>9. refs'.connector = ConnectorSum'
    BY <2>1, <2>5, <2>7 DEF ConnectorSum
  <2> QED BY <2>4, <2>7, <2>8, <2>9, AttemptCounts
<1> QED BY <1>4, <1>7, <1>8 DEF ConnectorInv

LEMMA ReadyKeepsAttempt ==
  ASSUME ConnectorInv, Ready
  PROVE  ConnectorInv'
<1>1. /\ ConnectorTypeOK /\ TakenInv
      /\ loopAt = "poll" /\ loopAt' = "event" /\ sock \in {"waiting", "quiet"} /\ iStatus = "Connecting"
      /\ refs' = Use(refs, "conn")
      /\ UNCHANGED <<sideVars, handleVars, iStatus, sock, tasks, userData, askerPc, timerAt, luaHolds,
                     event, answers, withdrawn>>
  BY AttemptHolds DEF Ready
<1>2. /\ refs' \in ConnRefs /\ (refs.conn > 0 => refs' = refs)
  BY <1>1, UseDoes DEF ConnectorTypeOK
<1>3. races' = races \union (IF sock = "quiet" THEN {"twice"} ELSE {})
  BY DEF Ready
<1>4. races' \in SUBSET Races /\ (races' = {} => races = {} /\ sock = "waiting")
  <2>1. CASE sock = "quiet"
    BY <1>1, <1>3, <2>1 DEF ConnectorTypeOK, Races
  <2>2. CASE sock # "quiet"
    BY <1>1, <1>3, <2>2 DEF ConnectorTypeOK
  <2> QED BY <2>1, <2>2
<1>5. ConnectorTypeOK'
  BY <1>1, <1>2, <1>4 DEF ConnectorTypeOK, sideVars, handleVars
<1>6. TakenInv'
  BY <1>1 DEF TakenInv, handleVars
<1>7. ASSUME races' = {} PROVE OrderInv' /\ AttemptCountInv'
  <2>1. /\ OrderInv /\ Fine /\ refs.conn = ConnSum /\ refs.connector = ConnectorSum /\ sock = "waiting"
    BY <1>4, <1>7, AttemptHolds
  <2>2. event \in {"none", "nothing"}
    BY <1>1, <2>1 DEF OrderInv, ConnectorTypeOK
  <2>3. OrderInv'
    BY <1>1, <2>1, <2>2 DEF OrderInv, handleVars
  <2>4. /\ AskerHolds' = AskerHolds /\ TimerHolds' = TimerHolds
        /\ HandleHolds' = HandleHolds /\ EventHolds' = EventHolds /\ ChannelHolds' = ChannelHolds
        /\ PollerHolds = 1 /\ PollerHolds' = 0 /\ LoopHolds = 0 /\ LoopHolds' = 1
    BY <1>1, <2>1 DEF AskerHolds, TimerHolds, HandleHolds, EventHolds, ChannelHolds, PollerHolds,
       LoopHolds, handleVars
  <2>5. refs.conn > 0
    BY <2>1, <2>4, HoldsAre, AttemptHolds DEF ConnSum
  <2>6. Fine' /\ refs' = refs /\ tasks' = tasks
    BY <1>1, <1>2, <2>1, <2>5 DEF Fine
  <2>7. ConnHolds' = ConnHolds
    BY <1>1, <2>6 DEF ConnHolds
  <2>8. refs'.conn = ConnSum'
    BY <2>1, <2>4, <2>6, HoldsAre, AttemptHolds DEF ConnSum
  <2>9. refs'.connector = ConnectorSum'
    BY <2>1, <2>4, <2>6, <2>7 DEF ConnectorSum
  <2> QED BY <2>3, <2>6, <2>8, <2>9, AttemptCounts
<1> QED BY <1>5, <1>6, <1>7 DEF ConnectorInv

LEMMA OutcomeKeepsAttempt ==
  ASSUME ConnectorInv, NEW ok \in BOOLEAN, Outcome(ok)
  PROVE  ConnectorInv'
<1>1. /\ ConnectorTypeOK /\ TakenInv
      /\ loopAt = "event" /\ loopAt' = "callback"
      /\ UNCHANGED <<sideVars, handleVars, refs, tasks, userData, askerPc, timerAt, luaHolds, event,
                     answers, withdrawn, races>>
      /\ \/ sock' = "quiet" /\ iStatus' = iStatus
         \/ sock' = "closed" /\ iStatus' = "Disconnected"
  BY AttemptHolds DEF Outcome
<1>2. ConnectorTypeOK'
  BY <1>1 DEF ConnectorTypeOK, sideVars, handleVars
<1>3. TakenInv'
  BY <1>1 DEF TakenInv, handleVars
<1>4. ASSUME races' = {} PROVE OrderInv' /\ AttemptCountInv'
  <2>1. /\ OrderInv /\ Fine /\ refs.conn = ConnSum /\ refs.connector = ConnectorSum
    BY <1>1, <1>4, AttemptHolds
  <2>2. event \in {"none", "nothing"} /\ sock = "waiting"
    BY <1>1, <2>1 DEF OrderInv
  <2>3. OrderInv'
    BY <1>1, <2>1, <2>2 DEF OrderInv, handleVars
  <2>4. /\ AskerHolds' = AskerHolds /\ TimerHolds' = TimerHolds /\ ConnHolds' = ConnHolds
        /\ HandleHolds' = HandleHolds /\ EventHolds' = EventHolds /\ ChannelHolds' = ChannelHolds
        /\ PollerHolds = 0 /\ PollerHolds' = 0 /\ LoopHolds = 1 /\ LoopHolds' = 1
    BY <1>1 DEF AskerHolds, TimerHolds, ConnHolds, HandleHolds, EventHolds, ChannelHolds, PollerHolds,
       LoopHolds, handleVars
  <2>5. Fine' /\ refs' = refs /\ tasks' = tasks
    BY <1>1, <2>1 DEF Fine
  <2>6. refs'.conn = ConnSum' /\ refs'.connector = ConnectorSum'
    BY <2>1, <2>4, <2>5 DEF ConnSum, ConnectorSum
  <2> QED BY <2>3, <2>5, <2>6, AttemptCounts
<1> QED BY <1>2, <1>3, <1>4 DEF ConnectorInv

LEMMA OnConnectorKeepsAttempt ==
  ASSUME ConnectorInv, OnConnector
  PROVE  ConnectorInv'
<1>1. /\ ConnectorTypeOK /\ TakenInv /\ refs \in ConnRefs
      /\ loopAt = "callback" /\ loopAt' = "take" /\ StopTimeout
      /\ UNCHANGED <<sideVars, hConnection, iStatus, sock, tasks, userData, askerPc, luaHolds, event,
                     answers, withdrawn, races>>
  BY AttemptHolds DEF OnConnector
<1>2. PICK r \in ConnRefs :
        /\ refs' = Use(r, "connector") /\ (userData = "connector" => r = refs)
  <2>1. PICK f \in SUBSET {"connector", "conn"} : f = refs.freed \union {"connector"}
    BY <1>1 DEF ConnRefs
  <2>2. [refs EXCEPT !.freed = f] \in ConnRefs
    BY <1>1 DEF ConnRefs
  <2>3. CASE userData = "connector"
    BY <1>1, <2>3 DEF OnConnector
  <2>4. CASE userData # "connector"
    BY <2>1, <2>2, <2>4 DEF OnConnector
  <2> QED BY <2>3, <2>4
<1>3. refs' \in ConnRefs /\ (r.connector > 0 => refs' = r)
  BY <1>2, UseDoes
<1>4. /\ hConnecting' \in BOOLEAN
      /\ timerAt' \in TimerPlaces
      /\ TimerHolds' = TimerHolds /\ (timerAt = "none" => timerAt' = "none")
  BY <1>1, StopTimeoutDoes
<1>5. ConnectorTypeOK'
  BY <1>1, <1>3, <1>4 DEF ConnectorTypeOK, sideVars
<1>6. askerPc \notin {"create", "connect", "refused", "gone"}
  BY <1>1 DEF TakenInv
<1>7. TakenInv'
  BY <1>1, <1>6 DEF TakenInv
<1>8. ASSUME races' = {} PROVE OrderInv' /\ AttemptCountInv'
  <2>1. /\ OrderInv /\ Fine /\ refs.conn = ConnSum /\ refs.connector = ConnectorSum
    BY <1>1, <1>8, AttemptHolds
  <2>2. OrderInv'
    BY <1>1, <2>1 DEF OrderInv
  <2>3. userData = "connector"
    BY <1>1, <1>6, <2>1 DEF OrderInv, ConnectorTypeOK
  <2>4. LoopHolds = 1 /\ LoopHolds' = 1 /\ PollerHolds = 0 /\ PollerHolds' = 0
    BY <1>1 DEF LoopHolds, PollerHolds
  <2>5. refs.conn > 0
    BY <2>1, <2>4, HoldsAre, AttemptHolds DEF ConnSum
  <2>6. ConnHolds = 1
    BY <2>3, <2>5 DEF ConnHolds
  <2>7. refs.connector > 0
    BY <2>1, <2>6, HoldsAre DEF ConnectorSum
  <2>8. Fine' /\ refs' = refs /\ tasks' = tasks
    BY <1>1, <1>2, <1>3, <2>1, <2>3, <2>7 DEF Fine
  <2>9. /\ AskerHolds' = AskerHolds /\ ConnHolds' = ConnHolds
        /\ HandleHolds' = HandleHolds /\ EventHolds' = EventHolds /\ ChannelHolds' = ChannelHolds
    BY <1>1, <2>8 DEF AskerHolds, ConnHolds, HandleHolds, EventHolds, ChannelHolds
  <2>10. refs'.conn = ConnSum' /\ refs'.connector = ConnectorSum'
    BY <1>4, <2>1, <2>4, <2>8, <2>9 DEF ConnSum, ConnectorSum
  <2> QED BY <2>2, <2>8, <2>10, AttemptCounts
<1> QED BY <1>5, <1>7, <1>8 DEF ConnectorInv

\* One of the holders of the connection releases its reference.
LEMMA ReleaseKeepsCounts ==
  ASSUME ConnectorInv, Fine, refs.conn = ConnSum, refs.connector = ConnectorSum, ConnSum > 0,
         ConnSum' = ConnSum - 1, AskerHolds' = AskerHolds, TimerHolds' = TimerHolds,
         askerPc \notin {"create", "connect", "refused"}, UNCHANGED <<askerPc, userData>>,
         refs' = DropConn(refs)
  PROVE  AttemptCountInv'
<1>1. refs \in ConnRefs /\ refs.conn \in Int /\ refs.connector \in Int /\ refs.freed = {} /\ refs.conn > 0
  BY AttemptHolds DEF Fine
<1>2. userData = "connector" /\ askerPc # "connect" => ConnHolds = 1
  BY <1>1 DEF ConnHolds
<1>3. PICK n \in Int : n = AskerHolds + TimerHolds /\ n >= 0
  BY HoldsAre
<1>4. refs.connector = n + ConnHolds
  BY <1>3 DEF ConnectorSum
<1>5. refs'.conn = refs.conn - 1 /\ refs'.connector = n + ConnHolds' /\ Fine'
  BY <1>1, <1>2, <1>3, <1>4, ReleaseDoes
<1>6. refs'.connector = ConnectorSum'
  BY <1>3, <1>5 DEF ConnectorSum
<1>7. refs'.conn = ConnSum'
  BY <1>1, <1>5
<1> QED BY <1>5, <1>6, <1>7, AttemptCounts

LEMMA OnConnectorAnswersKeepsAttempt ==
  ASSUME ConnectorInv, OnConnectorAnswers
  PROVE  ConnectorInv'
<1>1. /\ ConnectorTypeOK /\ TakenInv /\ refs \in ConnRefs
      /\ loopAt = "take" /\ loopAt' = "release" /\ ~hConnection' /\ hConnection' \in BOOLEAN
      /\ UNCHANGED <<sideVars, hConnecting, iStatus, sock, tasks, userData, askerPc, timerAt, luaHolds,
                     withdrawn>>
  BY AttemptHolds, Zenon DEF OnConnectorAnswers, TakeConnection
<1>2. askerPc \notin {"create", "connect", "refused"}
  BY <1>1 DEF TakenInv
<1>3. /\ AskerHolds' = AskerHolds /\ TimerHolds' = TimerHolds /\ HandleHolds' = 0
      /\ PollerHolds' = 0 /\ PollerHolds = 0 /\ LoopHolds = 1 /\ LoopHolds' = 1
  BY <1>1 DEF AskerHolds, TimerHolds, HandleHolds, PollerHolds, LoopHolds
<1>4. races = {} => /\ OrderInv /\ Fine /\ refs.conn = ConnSum /\ refs.connector = ConnectorSum
                    /\ sock \in {"quiet", "unpolled", "closed"}
  BY <1>1, AttemptHolds DEF OrderInv, ConnectorTypeOK
<1>5. CASE hConnection
  <2>1. /\ answers = <<>> /\ ~withdrawn /\ tasks \in {<<>>, <<"connect">>} /\ event = "none"
        /\ HandleHolds = 1 /\ EventHolds = 0 /\ ChannelHolds = 0 /\ races' = races
    BY <1>1, <1>5 DEF TakenInv, HandleHolds, EventHolds, ChannelHolds, OnConnectorAnswers
  <2>2. races = {} => tasks # <<"connect">> /\ tasks # <<"connect", "forceClose">> /\ tasks # <<"forceClose">>
    <3>1. <<>> # <<"connect">> /\ <<>> # <<"forceClose">> /\ <<>> # <<"connect", "forceClose">>
      BY AttemptQueue
    <3>2. races = {} => tasks # <<"connect">>
      BY <1>4 DEF OrderInv
    <3> QED BY <2>1, <3>1, <3>2
  <2>3. PICK what \in {"connection", "nothing"} :
          /\ what = IF iStatus = "Connecting" THEN "connection" ELSE "nothing"
          /\ refs' = IF what = "nothing" \/ ~up THEN DropConn(refs) ELSE refs
          /\ event' = IF up THEN what ELSE event
          /\ answers' = IF up THEN Append(answers, what) ELSE answers
    BY <1>5 DEF OnConnectorAnswers
  <2>4. answers' \in Answers
    <3>1. Append(answers, what) = <<what>>
      BY <2>1, AttemptQueue
    <3> QED BY <2>1, <2>3, <3>1 DEF Answers
  <2>5. refs' \in ConnRefs
    BY <1>1, <2>3, DropConnDoes
  <2>6. event' \in {"none", "connection", "nothing"} /\ (event' = "connection" => iStatus = "Connecting")
    BY <2>1, <2>3
  <2>7. ConnectorTypeOK'
    BY <1>1, <2>1, <2>4, <2>5, <2>6 DEF ConnectorTypeOK, sideVars
  <2>8. TakenInv'
    BY <1>1, <1>2, <2>1 DEF TakenInv
  <2>9. ASSUME races' = {} PROVE OrderInv' /\ AttemptCountInv'
    <3>1. races = {}
      BY <2>1, <2>9
    <3>2. OrderInv'
      BY <1>1, <1>4, <2>2, <2>6, <3>1 DEF OrderInv
    <3>3. ChannelHolds' = 0 /\ (event' = "connection" => EventHolds' = 1)
                            /\ (event' # "connection" => EventHolds' = 0)
      BY <2>6 DEF ChannelHolds, EventHolds
    <3>4. CASE up /\ what = "connection"
      <4>1. refs' = refs /\ event' = "connection"
        BY <2>3, <3>4
      <4>2. EventHolds' = 1
        BY <3>3, <4>1
      <4>3. tasks' = tasks /\ Fine' /\ ConnHolds' = ConnHolds
        BY <1>1, <1>4, <3>1, <4>1 DEF Fine, ConnHolds
      <4>4. refs'.conn = ConnSum'
        BY <1>3, <1>4, <2>1, <3>1, <3>3, <4>1, <4>2, <4>3, AttemptHolds DEF ConnSum
      <4>5. refs'.connector = ConnectorSum'
        BY <1>3, <1>4, <3>1, <4>1, <4>3 DEF ConnectorSum
      <4> QED BY <3>2, <4>3, <4>4, <4>5, AttemptCounts
    <3>5. CASE ~(up /\ what = "connection")
      <4>1. refs' = DropConn(refs) /\ event' # "connection"
        BY <2>1, <2>3, <3>5
      <4>2. EventHolds' = 0 /\ tasks' = tasks
        BY <1>1, <3>3, <4>1
      <4>3. ConnSum > 0 /\ ConnSum' = ConnSum - 1
        BY <1>3, <2>1, <3>3, <4>2, AttemptHolds DEF ConnSum
      <4>4. UNCHANGED <<askerPc, userData>>
        BY <1>1
      <4>5. AttemptCountInv'
        BY <1>2, <1>3, <1>4, <3>1, <4>1, <4>3, <4>4, ReleaseKeepsCounts
      <4> QED BY <3>2, <4>5
    <3> QED BY <3>4, <3>5
  <2> QED BY <2>7, <2>8, <2>9 DEF ConnectorInv
<1>6. CASE ~hConnection
  <2>1. /\ UNCHANGED <<refs, event, answers>>
        /\ races' = races \union (IF sock \in {"quiet", "unpolled"} THEN {"overlap"} ELSE {})
    BY <1>6 DEF OnConnectorAnswers
  <2>2. races' \in SUBSET Races /\ (races' = {} => races = {} /\ sock \notin {"quiet", "unpolled"})
    <3>1. CASE sock \in {"quiet", "unpolled"}
      BY <1>1, <2>1, <3>1 DEF ConnectorTypeOK, Races
    <3>2. CASE sock \notin {"quiet", "unpolled"}
      BY <1>1, <2>1, <3>2 DEF ConnectorTypeOK, Races
    <3> QED BY <3>1, <3>2
  <2>3. ConnectorTypeOK'
    BY <1>1, <2>1, <2>2 DEF ConnectorTypeOK, sideVars
  <2>4. TakenInv'
    BY <1>1, <1>2, <2>1 DEF TakenInv
  <2>5. ASSUME races' = {} PROVE OrderInv' /\ AttemptCountInv'
    <3>1. /\ OrderInv /\ Fine /\ refs.conn = ConnSum /\ refs.connector = ConnectorSum /\ sock = "closed"
      BY <1>4, <2>2, <2>5
    <3>2. OrderInv'
      BY <1>1, <2>1, <3>1 DEF OrderInv
    <3>3. /\ HandleHolds = 0 /\ EventHolds' = EventHolds /\ ChannelHolds' = ChannelHolds
          /\ ConnHolds' = ConnHolds
      BY <1>1, <1>6, <2>1 DEF HandleHolds, EventHolds, ChannelHolds, ConnHolds
    <3>4. Fine' /\ refs' = refs /\ tasks' = tasks
      BY <1>1, <2>1, <3>1 DEF Fine
    <3>5. refs'.conn = ConnSum' /\ refs'.connector = ConnectorSum'
      BY <1>3, <3>1, <3>3, <3>4 DEF ConnSum, ConnectorSum
    <3> QED BY <3>2, <3>4, <3>5, AttemptCounts
  <2> QED BY <2>3, <2>4, <2>5 DEF ConnectorInv
<1> QED BY <1>5, <1>6

LEMMA LoopReleasesKeepsAttempt ==
  ASSUME ConnectorInv, LoopReleases
  PROVE  ConnectorInv'
<1>1. /\ ConnectorTypeOK /\ TakenInv /\ refs \in ConnRefs
      /\ loopAt = "release" /\ loopAt' = "poll" /\ refs' = DropConn(refs)
      /\ UNCHANGED <<sideVars, handleVars, iStatus, sock, tasks, userData, askerPc, timerAt, luaHolds,
                     event, answers, withdrawn>>
  BY AttemptHolds DEF LoopReleases
<1>2. races' \in SUBSET Races /\ (races' = {} => races = {})
  <2>1. races' = races \union LeftPolled(DropConn(refs))
    BY DEF LoopReleases
  <2>2. LeftPolled(DropConn(refs)) \in SUBSET Races
    BY DEF LeftPolled, Races
  <2> QED BY <1>1, <2>1, <2>2 DEF ConnectorTypeOK
<1>3. refs' \in ConnRefs
  BY <1>1, DropConnDoes
<1>4. askerPc \notin {"create", "connect", "refused"}
  BY <1>1 DEF TakenInv
<1>5. ConnectorTypeOK'
  BY <1>1, <1>2, <1>3 DEF ConnectorTypeOK, sideVars, handleVars
<1>6. TakenInv'
  BY <1>1, <1>4 DEF TakenInv, handleVars
<1>7. ASSUME races' = {} PROVE OrderInv' /\ AttemptCountInv'
  <2>1. /\ OrderInv /\ Fine /\ refs.conn = ConnSum /\ refs.connector = ConnectorSum
    BY <1>2, <1>7, AttemptHolds
  <2>2. OrderInv'
    BY <1>1, <2>1 DEF OrderInv, handleVars
  <2>3. sock # "waiting"
    BY <1>1, <2>1 DEF OrderInv
  <2>4. /\ AskerHolds' = AskerHolds /\ TimerHolds' = TimerHolds
        /\ HandleHolds' = HandleHolds /\ EventHolds' = EventHolds /\ ChannelHolds' = ChannelHolds
        /\ PollerHolds = 0 /\ PollerHolds' = 0 /\ LoopHolds = 1 /\ LoopHolds' = 0 /\ tasks' = tasks
    BY <1>1, <2>3 DEF AskerHolds, TimerHolds, HandleHolds, EventHolds, ChannelHolds, PollerHolds,
       LoopHolds, handleVars
  <2>5. ConnSum > 0 /\ ConnSum' = ConnSum - 1
    BY <2>4, HoldsAre, AttemptHolds DEF ConnSum
  <2>6. UNCHANGED <<askerPc, userData>>
    BY <1>1
  <2>7. AttemptCountInv'
    BY <1>1, <1>4, <2>1, <2>4, <2>5, <2>6, ReleaseKeepsCounts
  <2> QED BY <2>2, <2>7
<1> QED BY <1>5, <1>6, <1>7 DEF ConnectorInv

LEMMA CancelConnectKeepsAttempt ==
  ASSUME ConnectorInv, CancelConnect
  PROVE  ConnectorInv'
<1>1. /\ ConnectorTypeOK /\ TakenInv /\ refs \in ConnRefs
      /\ loopAt = "poll" /\ tasks # <<>> /\ Head(tasks) = "connect" /\ tasks' = Tail(tasks)
      /\ refs' = DropConn(refs)
      /\ UNCHANGED <<sideVars, handleVars, iStatus, sock, userData, askerPc, loopAt, timerAt, luaHolds,
                     event, answers, withdrawn, races>>
  BY AttemptHolds DEF CancelConnect
<1>2. /\ tasks \in {<<"connect">>, <<"connect", "forceClose">>}
      /\ tasks' \in AttemptQueues /\ Len(tasks) = Len(tasks') + 1 /\ Len(tasks') \in {0, 1}
      /\ tasks' # <<"connect">> /\ tasks' # <<"connect", "forceClose">>
      /\ tasks' = <<"forceClose">> => tasks = <<"connect", "forceClose">>
  BY <1>1, TakeConnect DEF ConnectorTypeOK
<1>3. refs' \in ConnRefs
  BY <1>1, DropConnDoes
<1>4. ConnectorTypeOK'
  BY <1>1, <1>2, <1>3 DEF ConnectorTypeOK, sideVars, handleVars
<1>5. askerPc \notin {"create", "connect", "refused"}
  BY <1>1 DEF TakenInv
<1>6. hConnection => tasks' = <<>>
  <2>1. <<"connect", "forceClose">> # <<"connect">> /\ <<"connect", "forceClose">> # <<>>
    BY AttemptQueue
  <2>2. hConnection => tasks # <<"connect", "forceClose">>
    BY <1>1, <2>1 DEF TakenInv
  <2> QED BY <1>2, <2>2 DEF AttemptQueues
<1>7. TakenInv'
  BY <1>1, <1>5, <1>6 DEF TakenInv, handleVars
<1>8. ASSUME races' = {} PROVE OrderInv' /\ AttemptCountInv'
  <2>1. /\ OrderInv /\ Fine /\ refs.conn = ConnSum /\ refs.connector = ConnectorSum
    BY <1>1, <1>8, AttemptHolds
  <2>2. sock = "none"
    BY <1>2, <2>1 DEF OrderInv
  <2>3. tasks' = <<"forceClose">> => ~hConnection /\ iStatus = "Disconnected"
    BY <1>2, <2>1 DEF OrderInv
  <2>4. OrderInv'
    BY <1>1, <1>2, <2>1, <2>2, <2>3 DEF OrderInv, handleVars
  <2>5. /\ AskerHolds' = AskerHolds /\ TimerHolds' = TimerHolds
        /\ HandleHolds' = HandleHolds /\ EventHolds' = EventHolds /\ ChannelHolds' = ChannelHolds
        /\ PollerHolds' = PollerHolds /\ LoopHolds' = LoopHolds
    BY <1>1 DEF AskerHolds, TimerHolds, HandleHolds, EventHolds, ChannelHolds, PollerHolds, LoopHolds,
       handleVars
  <2>6. ConnSum > 0 /\ ConnSum' = ConnSum - 1
    BY <1>2, <2>5, HoldsAre DEF ConnSum
  <2>7. UNCHANGED <<askerPc, userData>>
    BY <1>1
  <2>8. AttemptCountInv'
    BY <1>1, <1>5, <2>1, <2>5, <2>6, <2>7, ReleaseKeepsCounts
  <2> QED BY <2>4, <2>8
<1> QED BY <1>4, <1>7, <1>8 DEF ConnectorInv

LEMMA RunForceCloseKeepsAttempt ==
  ASSUME ConnectorInv, RunForceClose
  PROVE  ConnectorInv'
<1>1. /\ ConnectorTypeOK /\ TakenInv /\ refs \in ConnRefs
      /\ loopAt = "poll" /\ tasks # <<>> /\ Head(tasks) = "forceClose" /\ tasks' = Tail(tasks)
      /\ UNCHANGED <<sideVars, handleVars, userData, askerPc, loopAt, timerAt, luaHolds, event, answers,
                     withdrawn, races>>
  BY AttemptHolds DEF RunForceClose
<1>2. /\ tasks = <<"forceClose">> /\ tasks' = <<>> /\ Len(tasks) = 1 /\ Len(tasks') = 0
      /\ tasks' \in AttemptQueues
  <2>1. tasks # <<"connect">> /\ tasks # <<"connect", "forceClose">>
    BY <1>1, AttemptQueue
  <2>2. tasks = <<"forceClose">>
    BY <1>1, <2>1 DEF ConnectorTypeOK, AttemptQueues
  <2>3. tasks' = <<>>
    BY <1>1, <2>2, AttemptQueue
  <2> QED BY <2>2, <2>3, AttemptQueue DEF AttemptQueues
<1>3. /\ tasks' # <<"connect">> /\ tasks' # <<"forceClose">> /\ tasks' # <<"connect", "forceClose">>
  BY <1>2, AttemptQueue
<1>4. \/ sock \in {"none", "closed"} /\ refs' = DropConn(refs) /\ UNCHANGED <<sock, iStatus>>
      \/ /\ sock \notin {"none", "closed"} /\ sock' = "closed" /\ iStatus' = "Disconnected"
         /\ refs' = DropConn(DropConn(refs))
  BY DEF RunForceClose
<1>5. PICK r \in ConnRefs :
        /\ r = DropConn(refs) /\ r.conn = refs.conn - 1
        /\ refs.conn > 1 => r.connector = refs.connector /\ r.freed = refs.freed
  <2>1. DropConn(refs) \in ConnRefs /\ refs.conn \in Int
    BY <1>1, DropConnDoes DEF ConnRefs
  <2>2. refs.conn > 1 => refs.conn > 0 /\ refs.conn # 1
    BY <2>1
  <2> QED BY <1>1, <2>1, <2>2, DropConnDoes
<1>6. refs' \in ConnRefs
  <2>1. DropConn(r) \in ConnRefs
    BY DropConnDoes
  <2> QED BY <1>4, <1>5, <2>1
<1>7. ConnectorTypeOK'
  BY <1>1, <1>2, <1>4, <1>6 DEF ConnectorTypeOK, sideVars, handleVars
<1>8. askerPc \notin {"create", "connect", "refused"}
  BY <1>1 DEF TakenInv
<1>9. TakenInv'
  BY <1>1, <1>2, <1>8 DEF TakenInv, handleVars
<1>10. ASSUME races' = {} PROVE OrderInv' /\ AttemptCountInv'
  <2>1. /\ OrderInv /\ Fine /\ refs.conn = ConnSum /\ refs.connector = ConnectorSum
        /\ refs.conn \in Int /\ refs.connector \in Int
    BY <1>1, <1>10, AttemptHolds
  <2>2. ~hConnection /\ iStatus = "Disconnected" /\ event \in {"none", "nothing"}
        /\ sock \in {"none", "closed", "waiting"}
    BY <1>1, <1>2, <2>1 DEF OrderInv, ConnectorTypeOK
  <2>3. OrderInv'
    BY <1>1, <1>3, <1>4, <2>1, <2>2 DEF OrderInv, handleVars
  <2>4. /\ AskerHolds' = AskerHolds /\ TimerHolds' = TimerHolds /\ LoopHolds' = LoopHolds
        /\ HandleHolds' = HandleHolds /\ EventHolds' = EventHolds /\ ChannelHolds' = ChannelHolds
    BY <1>1 DEF AskerHolds, TimerHolds, HandleHolds, EventHolds, ChannelHolds, LoopHolds, handleVars
  <2>5. UNCHANGED <<askerPc, userData>>
    BY <1>1
  <2>6. CASE sock \in {"none", "closed"}
    <3>1. refs' = DropConn(refs) /\ PollerHolds = 0 /\ PollerHolds' = 0
      BY <1>4, <2>6 DEF PollerHolds
    <3>2. ConnSum > 0 /\ ConnSum' = ConnSum - 1
      BY <1>2, <2>4, <3>1, HoldsAre DEF ConnSum
    <3>3. AttemptCountInv'
      BY <1>8, <2>1, <2>4, <2>5, <3>1, <3>2, ReleaseKeepsCounts
    <3> QED BY <2>3, <3>3
  <2>7. CASE sock = "waiting"
    <3>1. refs' = DropConn(r) /\ PollerHolds = 1 /\ PollerHolds' = 0
      BY <1>1, <1>4, <1>5, <2>7 DEF PollerHolds
    <3>2. ConnSum > 1 /\ ConnSum' = ConnSum - 2
      BY <1>2, <2>4, <3>1, HoldsAre DEF ConnSum
    <3>3. r.conn > 0 /\ r.connector = refs.connector /\ r.freed = {} /\ r.conn = ConnSum - 1
      BY <1>5, <2>1, <3>2 DEF Fine
    <3>4. userData = "connector" /\ askerPc # "connect" => ConnHolds = 1
      BY <2>1, <3>2 DEF ConnHolds
    <3>5. PICK n \in Int : n = AskerHolds + TimerHolds /\ n >= 0
      BY HoldsAre
    <3>6. r.connector = n + ConnHolds
      BY <2>1, <3>3, <3>5 DEF ConnectorSum
    <3>7. refs'.conn = r.conn - 1 /\ refs'.connector = n + ConnHolds' /\ Fine'
      BY <1>8, <2>5, <3>1, <3>3, <3>4, <3>5, <3>6, ReleaseDoes
    <3>8. refs'.connector = ConnectorSum'
      BY <2>4, <3>5, <3>7 DEF ConnectorSum
    <3>9. refs'.conn = ConnSum'
      BY <2>1, <3>2, <3>3, <3>7
    <3> QED BY <2>3, <3>7, <3>8, <3>9, AttemptCounts
  <2> QED BY <2>2, <2>6, <2>7
<1> QED BY <1>7, <1>9, <1>10 DEF ConnectorInv

LEMMA TimeoutFiresKeepsAttempt ==
  ASSUME ConnectorInv, TimeoutFires
  PROVE  ConnectorInv'
<1>1. /\ ConnectorTypeOK /\ TakenInv /\ refs \in ConnRefs
      /\ timerAt = "armed" /\ timerAt' = "fired" /\ refs' = Use(refs, "connector")
      /\ hConnecting' \in BOOLEAN
      /\ UNCHANGED <<sideVars, hConnection, iStatus, sock, tasks, userData, askerPc, loopAt, luaHolds,
                     event, answers, withdrawn, races>>
  BY AttemptHolds DEF TimeoutFires
<1>2. refs' \in ConnRefs /\ (refs.connector > 0 => refs' = refs)
  BY <1>1, UseDoes
<1>3. ConnectorTypeOK'
  BY <1>1, <1>2 DEF ConnectorTypeOK, sideVars
<1>4. TakenInv'
  BY <1>1 DEF TakenInv
<1>5. ASSUME races' = {} PROVE OrderInv' /\ AttemptCountInv'
  <2>1. /\ OrderInv /\ Fine /\ refs.conn = ConnSum /\ refs.connector = ConnectorSum
    BY <1>1, <1>5, AttemptHolds
  <2>2. OrderInv'
    BY <1>1, <2>1 DEF OrderInv
  <2>3. TimerHolds = 1 /\ TimerHolds' = 1
    BY <1>1 DEF TimerHolds
  <2>4. refs.connector > 0
    BY <2>1, <2>3, HoldsAre DEF ConnectorSum
  <2>5. Fine' /\ refs' = refs /\ tasks' = tasks
    BY <1>1, <1>2, <2>1, <2>4 DEF Fine
  <2>6. /\ AskerHolds' = AskerHolds /\ ConnHolds' = ConnHolds
        /\ HandleHolds' = HandleHolds /\ PollerHolds' = PollerHolds /\ LoopHolds' = LoopHolds
        /\ EventHolds' = EventHolds /\ ChannelHolds' = ChannelHolds
    BY <1>1, <2>5 DEF AskerHolds, ConnHolds, HandleHolds, PollerHolds, LoopHolds, EventHolds, ChannelHolds
  <2>7. refs'.conn = ConnSum' /\ refs'.connector = ConnectorSum'
    BY <2>1, <2>3, <2>5, <2>6 DEF ConnSum, ConnectorSum
  <2> QED BY <2>2, <2>5, <2>7, AttemptCounts
<1> QED BY <1>3, <1>4, <1>5 DEF ConnectorInv

LEMMA TimeoutCloseKeepsAttempt ==
  ASSUME ConnectorInv, OnConnectingTimeoutClose
  PROVE  ConnectorInv'
<1>1. /\ ConnectorTypeOK /\ TakenInv /\ refs \in ConnRefs
      /\ timerAt \in {"closing", "stopped"} /\ timerAt' = "over" /\ refs' = Drop(refs)
      /\ UNCHANGED <<sideVars, handleVars, iStatus, sock, tasks, userData, askerPc, loopAt, luaHolds,
                     event, answers, withdrawn, races>>
  BY AttemptHolds DEF OnConnectingTimeoutClose
<1>2. /\ refs' \in ConnRefs /\ refs'.connector = refs.connector - 1 /\ refs'.conn = refs.conn
      /\ (refs.connector > 0 => refs'.freed = refs.freed)
  BY <1>1, DropDoes
<1>3. ConnectorTypeOK'
  BY <1>1, <1>2 DEF ConnectorTypeOK, sideVars, handleVars
<1>4. TakenInv'
  BY <1>1 DEF TakenInv, handleVars
<1>5. ASSUME races' = {} PROVE OrderInv' /\ AttemptCountInv'
  <2>1. /\ OrderInv /\ Fine /\ refs.conn = ConnSum /\ refs.connector = ConnectorSum
        /\ refs.connector \in Int
    BY <1>1, <1>5, AttemptHolds
  <2>2. OrderInv'
    BY <1>1, <2>1 DEF OrderInv, handleVars
  <2>3. TimerHolds = 1 /\ TimerHolds' = 0
    BY <1>1 DEF TimerHolds
  <2>4. refs.connector > 0
    BY <2>1, <2>3, HoldsAre DEF ConnectorSum
  <2>5. Fine' /\ tasks' = tasks
    BY <1>1, <1>2, <2>1, <2>4 DEF Fine
  <2>6. /\ AskerHolds' = AskerHolds /\ ConnHolds' = ConnHolds
        /\ HandleHolds' = HandleHolds /\ PollerHolds' = PollerHolds /\ LoopHolds' = LoopHolds
        /\ EventHolds' = EventHolds /\ ChannelHolds' = ChannelHolds
    BY <1>1, <1>2 DEF AskerHolds, ConnHolds, HandleHolds, PollerHolds, LoopHolds, EventHolds,
       ChannelHolds, handleVars
  <2>7. refs'.conn = ConnSum'
    BY <1>2, <2>1, <2>5, <2>6 DEF ConnSum
  <2>8. refs'.connector = ConnectorSum'
    BY <1>2, <2>1, <2>3, <2>6, HoldsAre DEF ConnectorSum
  <2> QED BY <2>2, <2>5, <2>7, <2>8, AttemptCounts
<1> QED BY <1>3, <1>4, <1>5 DEF ConnectorInv

LEMMA TimeoutStartsKeepsAttempt ==
  ASSUME ConnectorInv, TimeoutStarts
  PROVE  ConnectorInv'
<1>1. /\ ConnectorTypeOK /\ TakenInv /\ refs \in ConnRefs
      /\ timerAt \in {"queued", "early"} /\ timerAt' \in {"armed", "cancelled", "over"}
      /\ refs' = IF timerAt' = "over" THEN Drop(refs) ELSE refs
      /\ UNCHANGED <<sideVars, handleVars, iStatus, sock, tasks, userData, askerPc, loopAt, luaHolds,
                     event, answers, withdrawn, races>>
  BY AttemptHolds DEF TimeoutStarts
<1>2. /\ refs' \in ConnRefs /\ refs'.conn = refs.conn
      /\ refs'.connector = IF timerAt' = "over" THEN refs.connector - 1 ELSE refs.connector
      /\ (refs.connector > 0 => refs'.freed = refs.freed)
  <2>1. CASE timerAt' = "over"
    BY <1>1, <2>1, DropDoes
  <2>2. CASE timerAt' # "over"
    BY <1>1, <2>2
  <2> QED BY <2>1, <2>2
<1>3. ConnectorTypeOK'
  BY <1>1, <1>2 DEF ConnectorTypeOK, sideVars, handleVars
<1>4. TakenInv'
  BY <1>1 DEF TakenInv, handleVars
<1>5. ASSUME races' = {} PROVE OrderInv' /\ AttemptCountInv'
  <2>1. /\ OrderInv /\ Fine /\ refs.conn = ConnSum /\ refs.connector = ConnectorSum
        /\ refs.connector \in Int
    BY <1>1, <1>5, AttemptHolds
  <2>2. OrderInv'
    BY <1>1, <2>1 DEF OrderInv, handleVars
  <2>3. TimerHolds = 1 /\ TimerHolds' = IF timerAt' = "over" THEN 0 ELSE 1
    BY <1>1 DEF TimerHolds
  <2>4. refs.connector > 0
    BY <2>1, <2>3, HoldsAre DEF ConnectorSum
  <2>5. Fine' /\ tasks' = tasks
    BY <1>1, <1>2, <2>1, <2>4 DEF Fine
  <2>6. /\ AskerHolds' = AskerHolds /\ ConnHolds' = ConnHolds
        /\ HandleHolds' = HandleHolds /\ PollerHolds' = PollerHolds /\ LoopHolds' = LoopHolds
        /\ EventHolds' = EventHolds /\ ChannelHolds' = ChannelHolds
    BY <1>1, <1>2 DEF AskerHolds, ConnHolds, HandleHolds, PollerHolds, LoopHolds, EventHolds,
       ChannelHolds, handleVars
  <2>7. refs'.conn = ConnSum'
    BY <1>2, <2>1, <2>5, <2>6 DEF ConnSum
  <2>8. refs'.connector = ConnectorSum'
    BY <1>2, <2>1, <2>3, <2>6, HoldsAre DEF ConnectorSum
  <2> QED BY <2>2, <2>5, <2>7, <2>8, AttemptCounts
<1> QED BY <1>3, <1>4, <1>5 DEF ConnectorInv

\* The loop and the dispatching thread leave, and no count changes.
LEMMA LeavesKeepAttempt ==
  ASSUME ConnectorInv, LoopClears \/ DispatcherLeaves
  PROVE  ConnectorInv'
<1>1. /\ ConnectorTypeOK /\ TakenInv
      /\ \/ loopAt = "poll" /\ loopAt' = "left" /\ askerPc' = askerPc
         \/ loopAt = "left" /\ loopAt' = loopAt /\ askerPc \in {"idle", "refused"} /\ askerPc' = "gone"
      /\ UNCHANGED <<sideVars, handleVars, refs, iStatus, sock, tasks, userData, timerAt, luaHolds,
                     event, answers, withdrawn, races>>
  BY AttemptHolds DEF LoopClears, DispatcherLeaves
<1>2. ConnectorTypeOK'
  BY <1>1 DEF ConnectorTypeOK, sideVars, handleVars
<1>3. TakenInv'
  BY <1>1 DEF TakenInv, handleVars
<1>4. OrderInv => OrderInv'
  BY <1>1 DEF OrderInv, handleVars
<1>5. AttemptCountInv => AttemptCountInv'
  <2>1. ConnHolders' = ConnHolders
    BY <1>1 DEF ConnHolders, handleVars
  <2>2. ConnectorHolders' = ConnectorHolders
    BY <1>1 DEF ConnectorHolders
  <2> QED BY <1>1, <2>1, <2>2 DEF AttemptCountInv, Fine
<1> QED BY <1>1, <1>2, <1>3, <1>4, <1>5 DEF ConnectorInv

LEMMA OnConnectingTimeoutKeepsAttempt ==
  ASSUME ConnectorInv, OnConnectingTimeout
  PROVE  ConnectorInv'
<1>1. /\ ConnectorTypeOK /\ TakenInv /\ refs \in ConnRefs
      /\ timerAt = "fired" /\ timerAt' = "closing" /\ ~hConnection' /\ hConnection' \in BOOLEAN
      /\ UNCHANGED <<sideVars, hConnecting, sock, userData, askerPc, loopAt, luaHolds, withdrawn, races>>
  BY AttemptHolds, Zenon DEF OnConnectingTimeout
<1>2. askerPc \notin {"create", "refused"}
  BY <1>1 DEF TakenInv
<1>3. /\ AskerHolds' = AskerHolds /\ TimerHolds = 1 /\ TimerHolds' = 1 /\ HandleHolds' = 0
      /\ PollerHolds' = PollerHolds /\ LoopHolds' = LoopHolds
  BY <1>1 DEF AskerHolds, TimerHolds, HandleHolds, PollerHolds, LoopHolds
<1>4. CASE ~hConnection
  <2>1. UNCHANGED <<refs, iStatus, tasks, event, answers>>
    BY <1>4 DEF OnConnectingTimeout
  <2>2. ConnectorTypeOK'
    BY <1>1, <2>1 DEF ConnectorTypeOK, sideVars
  <2>3. TakenInv'
    BY <1>1, <1>2, <1>4, <2>1 DEF TakenInv
  <2>4. ASSUME races' = {} PROVE OrderInv' /\ AttemptCountInv'
    <3>1. /\ OrderInv /\ Fine /\ refs.conn = ConnSum /\ refs.connector = ConnectorSum
      BY <1>1, <2>4, AttemptHolds
    <3>2. OrderInv'
      BY <1>1, <1>4, <2>1, <3>1 DEF OrderInv
    <3>3. /\ HandleHolds = 0 /\ EventHolds' = EventHolds /\ ChannelHolds' = ChannelHolds
          /\ ConnHolds' = ConnHolds
      BY <1>1, <1>4, <2>1 DEF HandleHolds, EventHolds, ChannelHolds, ConnHolds
    <3>4. Fine' /\ refs' = refs /\ tasks' = tasks
      BY <2>1, <3>1 DEF Fine
    <3>5. refs'.conn = ConnSum' /\ refs'.connector = ConnectorSum'
      BY <1>3, <3>1, <3>3, <3>4 DEF ConnSum, ConnectorSum
    <3> QED BY <3>2, <3>4, <3>5, AttemptCounts
  <2> QED BY <2>2, <2>3, <2>4 DEF ConnectorInv
<1>5. CASE hConnection
  <2>1. PICK r \in ConnRefs : /\ r = Use(refs, "connector") /\ r.conn = refs.conn
                              /\ r.connector = refs.connector /\ (refs.connector > 0 => r = refs)
    BY <1>1, UseDoes
  <2>2. ForceCloseAndRelease(r)
    BY <1>5, <2>1 DEF OnConnectingTimeout
  <2>3. /\ tasks \in {<<>>, <<"connect">>} /\ answers = <<>> /\ event = "none" /\ ~withdrawn
        /\ (askerPc = "connect" => tasks = <<>> /\ iStatus = "Disconnected" /\ userData = "none")
    BY <1>1, <1>5 DEF TakenInv
  <2>4. /\ refs' \in ConnRefs /\ iStatus' = "Disconnected" /\ tasks' \in AttemptQueues
        /\ \/ iStatus = "Disconnected" /\ tasks' = tasks
           \/ iStatus # "Disconnected" /\ tasks = <<>> /\ tasks' = <<"forceClose">>
           \/ iStatus # "Disconnected" /\ tasks = <<"connect">> /\ tasks' = <<"connect", "forceClose">>
        /\ r.conn > 0 =>
             \/ iStatus = "Disconnected" /\ refs' = DropConn(r)
             \/ /\ iStatus # "Disconnected" /\ refs'.conn = r.conn
                /\ refs'.connector = r.connector /\ refs'.freed = r.freed
    BY <2>2, <2>3, ForceCloseDoes
  <2>5. event' \in {"none", "nothing"} /\ answers' \in Answers
    <3>1. Append(<<>>, "nothing") = <<"nothing">>
      BY AttemptQueue
    <3>2. event' = (IF up THEN "nothing" ELSE event)
          /\ answers' = (IF up THEN Append(answers, "nothing") ELSE answers)
      BY <1>5 DEF OnConnectingTimeout
    <3> QED BY <2>3, <3>1, <3>2 DEF Answers
  <2>6. ConnectorTypeOK'
    BY <1>1, <2>4, <2>5 DEF ConnectorTypeOK, sideVars
  <2>7. TakenInv'
    BY <1>1, <1>2, <2>3, <2>4, <2>5 DEF TakenInv
  <2>8. ASSUME races' = {} PROVE OrderInv' /\ AttemptCountInv'
    <3>1. /\ OrderInv /\ Fine /\ refs.conn = ConnSum /\ refs.connector = ConnectorSum
          /\ refs.conn \in Int /\ refs.connector \in Int
      BY <1>1, <2>8, AttemptHolds
    <3>2. tasks' \in {<<"connect">>, <<"connect", "forceClose">>}
            => tasks \in {<<"connect">>, <<"connect", "forceClose">>}
      <4>1. <<"forceClose">> # <<"connect">> /\ <<"forceClose">> # <<"connect", "forceClose">>
        BY AttemptQueue
      <4> QED BY <2>4, <4>1
    <3>3. OrderInv'
      BY <1>1, <1>5, <2>3, <2>4, <2>5, <3>1, <3>2 DEF OrderInv
    <3>4. HandleHolds = 1 /\ EventHolds = 0 /\ ChannelHolds = 0 /\ EventHolds' = 0 /\ ChannelHolds' = 0
      BY <1>5, <2>3, <2>5 DEF HandleHolds, EventHolds, ChannelHolds
    <3>5. refs.connector > 0 /\ refs.conn > 0
      BY <1>3, <3>1, <3>4, HoldsAre, AttemptHolds DEF ConnSum, ConnectorSum
    <3>6. r = refs /\ r.freed = {}
      BY <2>1, <3>1, <3>5 DEF Fine
    <3>7. userData = "connector" /\ askerPc # "connect" => ConnHolds = 1
      BY <3>5 DEF ConnHolds
    <3>8. CASE iStatus = "Disconnected"
      <4>1. refs' = DropConn(r) /\ tasks' = tasks
        BY <2>4, <3>5, <3>6, <3>8
      <4>2. PICK n \in Int : n = AskerHolds + TimerHolds /\ n >= 0
        BY HoldsAre
      <4>3. r.connector = n + ConnHolds
        BY <3>1, <3>6, <4>2 DEF ConnectorSum
      <4>4. refs'.conn = r.conn - 1 /\ refs'.connector = n + ConnHolds' /\ Fine'
        BY <1>1, <2>3, <3>5, <3>6, <3>7, <4>1, <4>2, <4>3, ReleaseDoes
      <4>5. refs'.conn = ConnSum'
        BY <1>3, <3>1, <3>4, <3>6, <4>1, <4>4, HoldsAre, AttemptHolds DEF ConnSum
      <4>6. refs'.connector = ConnectorSum'
        BY <1>3, <4>2, <4>4 DEF ConnectorSum
      <4> QED BY <3>3, <4>4, <4>5, <4>6, AttemptCounts
    <3>9. CASE iStatus # "Disconnected"
      <4>1. refs'.conn = refs.conn /\ refs'.connector = refs.connector /\ refs'.freed = {}
        BY <2>4, <3>5, <3>6, <3>9
      <4>2. Len(tasks') = Len(tasks) + 1
        BY <2>4, <3>9, QueueGrows
      <4>3. ConnHolds' = ConnHolds /\ Fine'
        BY <1>1, <4>1 DEF ConnHolds, Fine
      <4>4. refs'.conn = ConnSum'
        BY <1>3, <3>1, <3>4, <4>1, <4>2, HoldsAre, AttemptHolds DEF ConnSum
      <4>5. refs'.connector = ConnectorSum'
        BY <1>3, <3>1, <4>1, <4>3 DEF ConnectorSum
      <4> QED BY <3>3, <4>3, <4>4, <4>5, AttemptCounts
    <3> QED BY <3>8, <3>9
  <2> QED BY <2>6, <2>7, <2>8 DEF ConnectorInv
<1> QED BY <1>4, <1>5

LEMMA DeliverKeepsAttempt ==
  ASSUME ConnectorInv, Deliver
  PROVE  ConnectorInv'
<1>1. /\ ConnectorTypeOK /\ TakenInv /\ refs \in ConnRefs
      /\ event \in {"connection", "nothing"} /\ askerPc = "idle"
      /\ UNCHANGED <<sideVars, handleVars, iStatus, sock, tasks, userData, askerPc, loopAt, timerAt,
                     luaHolds, answers, withdrawn, races>>
  BY AttemptHolds DEF Deliver
<1>2. \/ event = "connection" /\ iStatus = "Connecting" /\ event' = "channel" /\ refs' = refs
      \/ event = "connection" /\ iStatus # "Connecting" /\ event' = "none" /\ refs' = DropConn(refs)
      \/ event = "nothing" /\ event' = "none" /\ refs' = refs
  BY <1>1 DEF Deliver
<1>3. refs' \in ConnRefs
  BY <1>1, <1>2, DropConnDoes
<1>4. ConnectorTypeOK'
  BY <1>1, <1>2, <1>3 DEF ConnectorTypeOK, sideVars, handleVars
<1>5. TakenInv'
  BY <1>1 DEF TakenInv, handleVars
<1>6. ASSUME races' = {} PROVE OrderInv' /\ AttemptCountInv'
  <2>1. /\ OrderInv /\ Fine /\ refs.conn = ConnSum /\ refs.connector = ConnectorSum
    BY <1>1, <1>6, AttemptHolds
  <2>2. \/ event = "connection" /\ iStatus = "Connecting" /\ event' = "channel" /\ refs' = refs
        \/ event = "nothing" /\ event' = "none" /\ refs' = refs
    BY <1>2, <2>1 DEF OrderInv
  <2>3. OrderInv'
    BY <1>1, <2>1, <2>2 DEF OrderInv, handleVars
  <2>4. \/ EventHolds = 1 /\ EventHolds' = 0 /\ ChannelHolds = 0 /\ ChannelHolds' = 1
        \/ EventHolds = 0 /\ EventHolds' = 0 /\ ChannelHolds = 0 /\ ChannelHolds' = 0
    BY <2>2 DEF EventHolds, ChannelHolds
  <2>5. Fine' /\ refs' = refs /\ tasks' = tasks
    BY <1>1, <2>1, <2>2 DEF Fine
  <2>6. /\ AskerHolds' = AskerHolds /\ ConnHolds' = ConnHolds /\ TimerHolds' = TimerHolds
        /\ HandleHolds' = HandleHolds /\ PollerHolds' = PollerHolds /\ LoopHolds' = LoopHolds
    BY <1>1, <2>5 DEF AskerHolds, ConnHolds, HandleHolds, PollerHolds, LoopHolds, TimerHolds, handleVars
  <2>7. refs'.conn = ConnSum'
    BY <2>1, <2>4, <2>5, <2>6, HoldsAre, AttemptHolds DEF ConnSum
  <2>8. refs'.connector = ConnectorSum'
    BY <2>1, <2>5, <2>6 DEF ConnectorSum
  <2> QED BY <2>3, <2>5, <2>7, <2>8, AttemptCounts
<1> QED BY <1>4, <1>5, <1>6 DEF ConnectorInv

LEMMA BindKeepsAttempt ==
  ASSUME ConnectorInv, Bind
  PROVE  ConnectorInv'
<1>1. /\ ConnectorTypeOK /\ TakenInv /\ refs \in ConnRefs
      /\ event = "channel" /\ event' = "bound" /\ askerPc = "idle"
      /\ iStatus = "Connecting" /\ iStatus' = "Connected" /\ userData' = "channel"
      /\ refs' = Drop(refs)
      /\ UNCHANGED <<sideVars, handleVars, sock, tasks, askerPc, loopAt, timerAt, luaHolds, answers,
                     withdrawn, races>>
  BY AttemptHolds DEF Bind
<1>2. /\ refs' \in ConnRefs /\ refs'.connector = refs.connector - 1 /\ refs'.conn = refs.conn
      /\ (refs.connector > 0 => refs'.freed = refs.freed)
  BY <1>1, DropDoes
<1>3. ConnectorTypeOK'
  BY <1>1, <1>2 DEF ConnectorTypeOK, sideVars, handleVars
<1>4. TakenInv'
  BY <1>1 DEF TakenInv, handleVars
<1>5. ASSUME races' = {} PROVE OrderInv' /\ AttemptCountInv'
  <2>1. /\ OrderInv /\ Fine /\ refs.conn = ConnSum /\ refs.connector = ConnectorSum
        /\ refs.connector \in Int
    BY <1>1, <1>5, AttemptHolds
  <2>2. OrderInv'
    BY <1>1, <2>1 DEF OrderInv, handleVars
  <2>3. userData = "connector"
    BY <1>1, <2>1 DEF OrderInv, ConnectorTypeOK
  <2>4. EventHolds = 0 /\ EventHolds' = 0 /\ ChannelHolds = 1 /\ ChannelHolds' = 1
    BY <1>1 DEF EventHolds, ChannelHolds
  <2>5. refs.conn > 0
    BY <2>1, <2>4, HoldsAre, AttemptHolds DEF ConnSum
  <2>6. ConnHolds = 1 /\ ConnHolds' = 0
    BY <1>1, <2>3, <2>5 DEF ConnHolds
  <2>7. refs.connector > 0
    BY <2>1, <2>6, HoldsAre DEF ConnectorSum
  <2>8. Fine' /\ tasks' = tasks
    BY <1>1, <1>2, <2>1, <2>7 DEF Fine
  <2>9. /\ AskerHolds' = AskerHolds /\ TimerHolds' = TimerHolds
        /\ HandleHolds' = HandleHolds /\ PollerHolds' = PollerHolds /\ LoopHolds' = LoopHolds
    BY <1>1 DEF AskerHolds, HandleHolds, PollerHolds, LoopHolds, TimerHolds, handleVars
  <2>10. refs'.conn = ConnSum'
    BY <1>2, <2>1, <2>4, <2>8, <2>9 DEF ConnSum
  <2>11. refs'.connector = ConnectorSum'
    BY <1>2, <2>1, <2>6, <2>9, HoldsAre DEF ConnectorSum
  <2> QED BY <2>2, <2>8, <2>10, <2>11, AttemptCounts
<1> QED BY <1>3, <1>4, <1>5 DEF ConnectorInv

LEMMA ConnectorSteps ==
  ASSUME ConnectorInv, ConnectorNext
  PROVE  ConnectorInv'
<1>1. CASE \E valid \in BOOLEAN : Create(valid)
  BY <1>1, CreateKeepsAttempt
<1>2. CASE ServiceCall
  BY <1>2, ConnectKeepsAttempt, LuaClosesKeepsAttempt DEF ServiceCall
<1>3. CASE LuaClose
  BY <1>3, LuaCloseKeepsAttempt
<1>4. CASE LuaGc
  BY <1>4, LuaGcKeepsAttempt
<1>5. CASE ServiceStops \/ EventIOStops
  BY <1>5, StopsKeepAttempt
<1>6. CASE LoopRuns
  <2>1. CASE \E ok \in BOOLEAN : RunConnect(ok) \/ Outcome(ok)
    BY <2>1, RunConnectKeepsAttempt, OutcomeKeepsAttempt
  <2>2. CASE OnConnector
    BY <2>2, OnConnectorKeepsAttempt
  <2>3. CASE OnConnectorAnswers
    BY <2>3, OnConnectorAnswersKeepsAttempt
  <2>4. CASE LoopReleases
    BY <2>4, LoopReleasesKeepsAttempt
  <2>5. CASE RunForceClose
    BY <2>5, RunForceCloseKeepsAttempt
  <2>6. CASE CancelConnect
    BY <2>6, CancelConnectKeepsAttempt
  <2>7. CASE LoopClears
    BY <2>7, LeavesKeepAttempt
  <2> QED BY <1>6, <2>1, <2>2, <2>3, <2>4, <2>5, <2>6, <2>7 DEF LoopRuns
<1>7. CASE Ready
  BY <1>7, ReadyKeepsAttempt
<1>8. CASE TimerRuns
  BY <1>8, TimeoutStartsKeepsAttempt, TimeoutFiresKeepsAttempt, OnConnectingTimeoutKeepsAttempt,
     TimeoutCloseKeepsAttempt DEF TimerRuns
<1>9. CASE Deliver
  BY <1>9, DeliverKeepsAttempt
<1>10. CASE Bind
  BY <1>10, BindKeepsAttempt
<1>11. CASE DispatcherLeaves
  BY <1>11, LeavesKeepAttempt
<1> QED BY <1>1, <1>2, <1>3, <1>4, <1>5, <1>6, <1>7, <1>8, <1>9, <1>10, <1>11 DEF ConnectorNext

LEMMA ConnectorImplies == ConnectorInv => ConnectorCounted /\ OneAnswer
<1> SUFFICES ASSUME ConnectorInv PROVE ConnectorCounted /\ OneAnswer
  OBVIOUS
<1>1. ConnectorCounted
  BY DEF ConnectorInv, AttemptCountInv, ConnectorCounted
<1>2. answers \in Answers /\ (withdrawn => answers = <<>>)
  BY DEF ConnectorInv, ConnectorTypeOK, TakenInv
<1>3. Len(answers) <= 1
  <2>1. Len(answers) \in {0, 1}
    BY <1>2, AttemptQueue DEF Answers
  <2> QED BY <2>1
<1> QED BY <1>1, <1>2, <1>3 DEF OneAnswer

-----------------------------------------------------------------------------
(* The four together. *)

SetupInv == ConnectorInv /\ PortInv /\ DnsInv /\ EnvInv

LEMMA InitSetup == Init => SetupInv
BY InitConnector, InitPort, InitDns, InitEnv DEF Init, SetupInv

LEMMA SetupSteps == SetupInv /\ [Next]_vars => SetupInv'
<1> SUFFICES ASSUME SetupInv, [Next]_vars PROVE SetupInv'
  OBVIOUS
<1>1. ConnectorInv /\ PortInv /\ DnsInv /\ EnvInv
  BY DEF SetupInv
<1>2. CASE Connecting
  BY <1>1, <1>2, ConnectorSteps, PortStutters, DnsStutters, EnvStutters DEF Connecting, SetupInv
<1>3. CASE Listening
  BY <1>1, <1>3, ConnectorStutters, PortSteps, DnsStutters, EnvStutters DEF Listening, SetupInv
<1>4. CASE Resolving
  BY <1>1, <1>4, ConnectorStutters, PortStutters, DnsSteps, EnvStutters DEF Resolving, SetupInv
<1>5. CASE Running
  BY <1>1, <1>5, ConnectorStutters, PortStutters, DnsStutters, EnvSteps DEF Running, SetupInv
<1>6. CASE UNCHANGED vars
  BY <1>1, <1>6, ConnectorStutters, PortStutters, DnsStutters, EnvStutters DEF vars, SetupInv
<1> QED BY <1>2, <1>3, <1>4, <1>5, <1>6 DEF Next

\* The invariants of the four parts hold together, at every moment of a connection
\* attempt, a listening port, a query and a life of the process.
THEOREM SetupInvHolds == Spec => []SetupInv
BY InitSetup, SetupSteps, PTL DEF Spec

\* connector_release, eventListenPort_release, dnsResolve_release,
\* eventConnection_release and eventIOThread_release: every count is the number of its
\* holders, and nothing is used after its last release, except after the orders of
\* steps that the four modules name.
THEOREM HoldersAreCounted == Spec => []Counted
<1>1. SetupInv => Counted
  BY ConnectorImplies, PortImplies, DnsImplies, EnvImplies DEF SetupInv, Counted
<1> QED BY <1>1, SetupInvHolds, PTL

\* connector_onConnector, connector_onConnectingTimeout and connector_close, and
\* eventTimer_onTimeout with dnsResolve_onReceive: whoever exchanges the handle of the
\* connection is the only one to answer, whatever the order they come in.
THEOREM NobodyIsAnsweredTwice == Spec => []AnsweredOnce
<1>1. SetupInv => AnsweredOnce
  BY ConnectorImplies, DnsImplies DEF SetupInv, AnsweredOnce
<1> QED BY <1>1, SetupInvHolds, PTL

\* The map of a UDP port in eventListenPort_t.c: however many loops receive datagrams of
\* one peer at once, it has at most one connection, made or being made, and is in the map
\* exactly as long.
THEOREM PeersHaveOneConnection == Spec => []OneConnectionPerPeer
<1>1. SetupInv => OneConnectionPerPeer
  BY PortImplies DEF SetupInv
<1> QED BY <1>1, SetupInvHolds, PTL

\* serviceMonitor_enter, serviceMonitor_leave and serviceMonitor_check: a callback that
\* is reported was seen by an earlier check, for any number of loop threads, unless its
\* thread was entering or leaving while the check looked.
THEOREM AlarmsAreDeserved == Spec => []AlarmsAreRight
<1>1. SetupInv => AlarmsAreRight
  BY EnvImplies DEF SetupInv
<1> QED BY <1>1, SetupInvHolds, PTL
=============================================================================
