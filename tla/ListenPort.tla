----------------------------- MODULE ListenPort -----------------------------
(***************************************************************************)
(* A listening port, with a socket in every loop of the eventIO:           *)
(* posix/eventListenPort_t.c, listenPort_t.c, llistenPort_t.c and          *)
(* lservice.listenPort.  A TCP socket accepts connections; a UDP socket    *)
(* makes a connection for every peer it has not got one for, and the loops *)
(* share the map that says so.  What becomes of an accepted connection is  *)
(* Connection's; here it is the reference it holds to the port.            *)
(***************************************************************************)
EXTENDS Integers, Sequences, FiniteSets

CONSTANTS Loops,        \* the loops of the eventIO
          Peers,        \* the addresses that send to the port
          MaxAccepted   \* bound: connections made

ASSUME LoopsAreFinite == IsFiniteSet(Loops) /\ MaxAccepted \in Nat

VARIABLES
  bTcp, bActive,   \* eventListenPort_s
  portRefs,        \* eventListenPort_s.iRefCount
  ownerRefs,       \* listenPort_s.iRefCount
  handle,          \* listenHandle_s.pEventListenPort # NULL, for every loop
  listening,       \* listenHandle_s.hSocket # -1, and polled
  portTasks,       \* what is queued in every loop for this port
  map,             \* mapAddressConnection: the peers in it
  conns,           \* live connections of the port, for every peer
  at,              \* where every loop is with a peer's datagram
  ownerPc,         \* where the service is: listenPort, or the close of the object
  scanned,         \* the loops that its close has looked at
  serviceUp, ioUp, \* the service takes events; the eventIO is running
  portFaults,      \* release(NULL), a failed assertion, a use after free
  failed,          \* history: a loop could not listen
  accepted         \* history: connections made, for the bound

portVars == <<bTcp, bActive, portRefs, ownerRefs, handle, listening, portTasks, map, conns, at,
              ownerPc, scanned, serviceUp, ioUp, portFaults, failed, accepted>>

PortInit ==
  /\ bTcp \in BOOLEAN /\ bActive = FALSE
  /\ portRefs = 0 /\ ownerRefs = 1
  /\ handle = [l \in Loops |-> FALSE] /\ listening = [l \in Loops |-> FALSE]
  /\ portTasks = [l \in Loops |-> <<>>]
  /\ map = {} /\ conns = [p \in Peers |-> 0]
  /\ at = [l \in Loops |-> <<"poll">>]
  /\ ownerPc = "create" /\ scanned = {}
  /\ serviceUp = TRUE /\ ioUp = TRUE
  /\ portFaults = {} /\ failed = FALSE /\ accepted = 0

Sound == portFaults = {}

\* eventListenPort_release, n times; the last one calls listenPort_onUserFree.
ReleasePort(n) ==
  /\ portRefs' = portRefs - n
  /\ ownerRefs' = IF portRefs = n THEN ownerRefs - 1 ELSE ownerRefs
  /\ portFaults' = IF portRefs < n THEN portFaults \union {"freed"} ELSE portFaults

-----------------------------------------------------------------------------
(* The service.                                                             *)

\* listenPort_start and eventListenPort_start, which tries the address first.
\* A port that cannot be had is not released by anybody.
Start(free) ==
  /\ ownerPc = "create" /\ Sound
  /\ IF free
     THEN /\ bActive' = TRUE
          /\ portRefs' = 1 + Cardinality(Loops)
          /\ ownerRefs' = ownerRefs + 1
          /\ handle' = [l \in Loops |-> TRUE]
          /\ portTasks' = [l \in Loops |-> <<"postAccept">>]
          /\ ownerPc' = "open"
     ELSE /\ portRefs' = 1
          /\ ownerPc' = "refused"
          /\ UNCHANGED <<bActive, ownerRefs, handle, portTasks>>
  /\ UNCHANGED <<bTcp, listening, map, conns, at, scanned, serviceUp, ioUp, portFaults, failed,
                 accepted>>

\* llistenPort_gc and eventListenPort_close, which ask the loops one by one ...
CloseBegins ==
  /\ ownerPc = "open" /\ Sound
  /\ ownerPc' = "closing"
  /\ bActive' = FALSE
  /\ UNCHANGED <<bTcp, portRefs, ownerRefs, handle, listening, portTasks, map, conns, at, scanned,
                 serviceUp, ioUp, portFaults, failed, accepted>>

\* Faulty variant: only the loops that listen are asked, not those that are about to.
CloseAsksListening(l) == listening[l]

CloseAsks(l) == handle[l]

CloseOne(l) ==
  /\ ownerPc = "closing" /\ l \notin scanned /\ Sound
  /\ scanned' = scanned \union {l}
  /\ IF CloseAsks(l)
     THEN /\ portRefs' = portRefs + 1
          /\ portTasks' = [portTasks EXCEPT ![l] = Append(@, "close")]
     ELSE UNCHANGED <<portRefs, portTasks>>
  /\ UNCHANGED <<bTcp, bActive, ownerRefs, handle, listening, map, conns, at, ownerPc, serviceUp,
                 ioUp, portFaults, failed, accepted>>

\* ... and the service's references: eventListenPort_release, listenPort_release.
CloseReturns ==
  /\ ownerPc = "closing" /\ scanned = Loops /\ Sound
  /\ ownerPc' = "closed"
  /\ portRefs' = portRefs - 1
  /\ ownerRefs' = ownerRefs - (IF portRefs = 1 THEN 2 ELSE 1)
  /\ UNCHANGED <<bTcp, bActive, handle, listening, portTasks, map, conns, at, scanned, serviceUp,
                 ioUp, portFaults, failed, accepted>>

ServiceEnds ==
  /\ serviceUp /\ Sound /\ ownerPc \in {"open", "closed"}
  /\ serviceUp' = FALSE
  /\ UNCHANGED <<bTcp, bActive, portRefs, ownerRefs, handle, listening, portTasks, map, conns, at,
                 ownerPc, scanned, ioUp, portFaults, failed, accepted>>

EventIOEnds ==
  /\ ioUp /\ Sound /\ \A l \in Loops : at[l] = <<"poll">>
  /\ ioUp' = FALSE
  /\ UNCHANGED <<bTcp, bActive, portRefs, ownerRefs, handle, listening, portTasks, map, conns, at,
                 ownerPc, scanned, serviceUp, portFaults, failed, accepted>>

-----------------------------------------------------------------------------
(* The loops.                                                               *)

Turn(l, task) ==
  /\ at[l] = <<"poll">> /\ Sound
  /\ portTasks[l] # <<>> /\ Head(portTasks[l]) = task
  /\ portTasks' = [portTasks EXCEPT ![l] = Tail(@)]

\* inLoop_eventListenPort_postAccept: the loop listens, or gives the port up and
\* tells the service that it does.
PostAccept(l, ok) ==
  /\ Turn(l, "postAccept") /\ ioUp
  /\ IF ok
     THEN /\ listening' = [listening EXCEPT ![l] = TRUE]
          /\ UNCHANGED <<handle, portRefs, ownerRefs, portFaults, failed>>
     ELSE /\ handle' = [handle EXCEPT ![l] = FALSE]
          /\ failed' = TRUE
          /\ ReleasePort(1)
          /\ UNCHANGED listening
  /\ UNCHANGED <<bTcp, bActive, map, conns, at, ownerPc, scanned, serviceUp, ioUp, accepted>>

\* inLoop_eventListenPort_cancel, which clears its handle after the release that
\* may have freed it.
CancelAccept(l) ==
  /\ Turn(l, "postAccept") /\ ~ioUp
  /\ handle' = [handle EXCEPT ![l] = FALSE]
  /\ portRefs' = portRefs - 1
  /\ ownerRefs' = IF portRefs = 1 THEN ownerRefs - 1 ELSE ownerRefs
  /\ portFaults' = IF portRefs <= 1 THEN portFaults \union {"freed"} ELSE portFaults
  /\ failed' = TRUE
  /\ UNCHANGED <<bTcp, bActive, listening, map, conns, at, ownerPc, scanned, serviceUp, ioUp,
                 accepted>>

\* inLoop_eventListenPort_close, run or cancelled: the loop's reference and the
\* task's, by a pointer that a loop which does not listen has set to NULL.
InLoopClose(l) ==
  /\ Turn(l, "close")
  /\ listening' = [listening EXCEPT ![l] = FALSE]
  /\ handle' = [handle EXCEPT ![l] = FALSE]
  /\ IF handle[l]
     THEN ReleasePort(2)
     ELSE portFaults' = portFaults \union {"null"} /\ UNCHANGED <<portRefs, ownerRefs>>
  /\ UNCHANGED <<bTcp, bActive, map, conns, at, ownerPc, scanned, serviceUp, ioUp, failed, accepted>>

Polled(l) == at[l] = <<"poll">> /\ listening[l] /\ ioUp /\ Sound

\* acceptEventConnection or acceptUdpEventConnection, and listenPort_onAccept: a
\* connection that a stopped service refuses is closed and released, once more
\* than it was counted.
Accepted(p) ==
  /\ accepted' = accepted + 1
  /\ conns' = [conns EXCEPT ![p] = @ + 1]
  /\ portRefs' = portRefs + 1
  /\ portFaults' = IF serviceUp THEN portFaults ELSE portFaults \union {"refused"}

AcceptTcp(l, p) ==
  /\ bTcp /\ Polled(l)
  /\ accepted < MaxAccepted
  /\ Accepted(p)
  /\ UNCHANGED <<bTcp, bActive, ownerRefs, handle, listening, portTasks, map, at, ownerPc, scanned,
                 serviceUp, ioUp, failed>>

\* A datagram: its sender is looked up under the read lock ...
Datagram(l, p) ==
  /\ ~bTcp /\ Polled(l)
  /\ accepted < MaxAccepted
  /\ p \notin map
  /\ at' = [at EXCEPT ![l] = <<"unknown", p>>]
  /\ UNCHANGED <<bTcp, bActive, portRefs, ownerRefs, handle, listening, portTasks, map, conns,
                 ownerPc, scanned, serviceUp, ioUp, portFaults, failed, accepted>>

\* Faulty variant: what the read lock showed is taken for granted under the write lock.
IsNew(p) == TRUE

\* RB_INSERT found nobody there.
IsStillNew(p) == p \notin map

\* ... and put into the map under the write lock, or left to the loop that was faster ...
Register(l) ==
  /\ at[l][1] = "unknown" /\ Sound
  /\ LET p == at[l][2] IN
     /\ at' = [at EXCEPT ![l] = IF IsStillNew(p) THEN <<"making", p>> ELSE <<"poll">>]
     /\ map' = map \union {p}
  /\ UNCHANGED <<bTcp, bActive, portRefs, ownerRefs, handle, listening, portTasks, conns, ownerPc,
                 scanned, serviceUp, ioUp, portFaults, failed, accepted>>

\* ... and gets a socket of its own, or is taken out of the map again.
MakeConnection(l, ok) ==
  /\ at[l][1] = "making" /\ Sound
  /\ at' = [at EXCEPT ![l] = <<"poll">>]
  /\ LET p == at[l][2] IN
     IF ok THEN Accepted(p) /\ UNCHANGED map
     ELSE map' = map \ {p} /\ UNCHANGED <<accepted, conns, portRefs, portFaults>>
  /\ UNCHANGED <<bTcp, bActive, ownerRefs, handle, listening, portTasks, ownerPc, scanned, serviceUp,
                 ioUp, failed>>

\* The last eventConnection_release of a connection, on any thread:
\* eventListenPort_removeAddressConnection, then the port.
ConnectionFreed(p) ==
  /\ conns[p] > 0 /\ Sound
  /\ conns' = [conns EXCEPT ![p] = @ - 1]
  /\ map' = IF bTcp THEN map ELSE map \ {p}
  /\ portRefs' = portRefs - 1
  /\ ownerRefs' = IF portRefs = 1 THEN ownerRefs - 1 ELSE ownerRefs
  /\ portFaults' = portFaults \union (IF ~bTcp /\ p \notin map THEN {"assert"} ELSE {})
                              \union (IF portRefs < 1 THEN {"freed"} ELSE {})
  /\ UNCHANGED <<bTcp, bActive, handle, listening, portTasks, at, ownerPc, scanned, serviceUp, ioUp,
                 failed, accepted>>

OwnerCloses == (\E l \in Loops : CloseOne(l)) \/ CloseReturns
LoopTask(l) == (\E ok \in BOOLEAN : PostAccept(l, ok)) \/ CancelAccept(l) \/ InLoopClose(l)
LoopGoesOn(l) == LoopTask(l) \/ Register(l) \/ \E ok \in BOOLEAN : MakeConnection(l, ok)

PortNext == \/ \E free \in BOOLEAN : Start(free)
            \/ CloseBegins \/ OwnerCloses \/ ServiceEnds \/ EventIOEnds
            \/ \E l \in Loops : LoopGoesOn(l) \/ \E p \in Peers : AcceptTcp(l, p) \/ Datagram(l, p)
            \/ \E p \in Peers : ConnectionFreed(p)

\* The service returns from its call; a loop finishes with a datagram, and gets to
\* its queue between two rounds of the poller, however many datagrams there are.
PortFairness ==
  /\ WF_portVars(OwnerCloses)
  /\ \A l \in Loops : WF_portVars(LoopGoesOn(l)) /\ SF_portVars(LoopTask(l))

-----------------------------------------------------------------------------
\* Every loop is asked at most once, so that these are the close tasks that are queued.
Closing == {l \in Loops : \E i \in 1..Len(portTasks[l]) : portTasks[l][i] = "close"}
LiveConnections == UNION {{p} \X (1..conns[p]) : p \in Peers}

PortHolders ==
  (IF ownerPc \in {"open", "closing", "refused"} THEN 1 ELSE 0)
  + Cardinality({l \in Loops : handle[l]})
  + Cardinality(Closing)
  + Cardinality(LiveConnections)

OwnerHolders == (IF ownerPc \in {"create", "open", "closing"} THEN 1 ELSE 0)
                + (IF portRefs > 0 THEN 1 ELSE 0)

\* The port's count is the number of its holders, so that the service's object, the
\* loops and the connections may let go of it in any order; what goes wrong is
\* only the release of NULL after a loop failed to listen, or was cancelled, ahead
\* of a close, and the connection that a stopped service refuses.
PortCounted ==
  /\ Sound => portRefs = PortHolders /\ ownerRefs = OwnerHolders
  /\ portFaults \subseteq {"null", "refused"}
  /\ "null" \in portFaults => failed

\* However the loops' datagrams interleave, a peer has at most one connection, and
\* it is in the map exactly while it has one or one is being made: the assertion of
\* removeAddressConnection holds.
OneConnectionPerPeer ==
  Sound /\ ~bTcp =>
    \A p \in Peers :
      LET making == {l \in Loops : at[l] = <<"making", p>>} IN
      /\ conns[p] + Cardinality(making) <= 1
      /\ p \in map <=> conns[p] + Cardinality(making) = 1

\* A closed port falls silent: in the end no loop listens on it.
ClosedPortFallsSilent ==
  (ownerPc = "closed") ~> (~Sound \/ \A l \in Loops : ~listening[l])
=============================================================================
