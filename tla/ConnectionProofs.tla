-------------------------- MODULE ConnectionProofs --------------------------
(***************************************************************************)
(* Theorems about Connection for every set of buffers and every number of  *)
(* calls: both reference counts are the number of holders, up to the two   *)
(* releases that the code makes once too often; every write that was taken *)
(* on is reported once; and a channel that is bound and closed in time     *)
(* outlives its connection.                                                *)
(***************************************************************************)
EXTENDS Connection, FiniteSetTheorems, SequenceTheorems, TLAPS

-----------------------------------------------------------------------------
(* The inductive invariant. *)

Objects == {"conn", "chan"}
Users == {"loop", "timer", "service", "stale", "userFree"}

Mems == [conn : Int, chan : Int, slot : BOOLEAN, userFree : BOOLEAN,
         dangling : SUBSET (Objects \X Users)]

Ops == [op : {"bind", "send", "close", "forceClose"}, buf : Bufs \union {NoBuf}]

PCs == {"callback", "idle", "bound", "write", "query", "closeNow", "force", "timer", "ask",
        "released", "refuse", "refuseForce", "refused"}

\* The variables of the connection, of the channel and of the threads.
TypeOK ==
  /\ iStatus \in {"Connecting", "Connected", "Disconnecting", "Disconnected"}
  /\ hSocket \in BOOLEAN /\ fnDisconnect \in BOOLEAN /\ fnClose \in BOOLEAN
  /\ attr \in SUBSET {"R", "W", "C"}
  /\ pending \in Seq(Bufs)
  /\ queue \in Seq(Ops)
  /\ bound \in {"no", "queued", "yes", "cancelled"}
  /\ chStatus \in {"Starting", "Running", "Stopping", "Stopped"}
  /\ hConnection \in BOOLEAN /\ hTimer \in BOOLEAN
  /\ mem \in Mems
  /\ loopPc \in {"poll", "onClose", "onCloseOp", "final", "finalOp", "opEnds"}
  /\ timer \in {"none", "armed", "stopping", "stopped", "fired", "took", "closing", "done"}
  /\ timerConn \in BOOLEAN
  /\ pc \in PCs /\ arg \in Bufs \union {NoBuf}
  /\ here \in BOOLEAN /\ svcConn \in BOOLEAN
  /\ closes \in Nat /\ extra \in {0, 1}
  /\ accepted \in SUBSET Bufs
  /\ reports \in [Bufs -> Seq({"ok", "failed", "astray"})]

\* Until the service binds the channel or closes it, the loop has nothing to do
\* with the connection, and there is no timer.
OpenInv ==
  /\ bound = "no" =>
       attr = {"C"} /\ pending = <<>> /\ iStatus \in {"Connecting", "Disconnected"}
  /\ bound = "no" /\ chStatus \in {"Starting", "Running"} =>
       /\ hSocket /\ hConnection /\ queue = <<>>
       /\ iStatus = "Connecting" /\ loopPc = "poll"
  /\ chStatus = "Starting" => bound = "no"
  /\ pc = "bound" <=> bound = "no" /\ chStatus = "Running"
  /\ bound = "no" => (fnClose <=> pc = "bound")
  /\ chStatus \in {"Starting", "Running"} \/ pc = "timer" => timer = "none" /\ ~hTimer
  /\ Closing => chStatus \in {"Stopping", "Stopped"}
  /\ timerConn => timer = "took"

\* A closed socket is left alone: only the bind of the queue says otherwise.
SocketInv ==
  /\ ~hSocket /\ bound # "yes" => iStatus = "Disconnected"
  /\ InHandleClose => ~hSocket

\* The bind is the first operation that is asked of the loop.
QueueInv ==
  /\ \A i \in 1..Len(queue) : queue[i].op = "bind" <=> i = 1 /\ bound = "queued"
  /\ bound = "queued" => queue # <<>>

\* The memory of a channel whose connection was bound or not: the last release
\* of a bound connection has let go of the channel, and none came after it.
Kept(m, wasBound) ==
  /\ m \in Mems
  /\ m.slot = ~m.userFree
  /\ m.userFree <=> wasBound /\ m.conn <= 0

\* The channel's count without the center, and without its surplus release.
Owned(m) == m.chan - N(m.slot) + N(m.userFree)

\* Those who hold the channel beside the center.
ServiceShare == (1 - closes + N(Closing)) + extra + N(Gained)
BindShare    == N(bound # "no" /\ fnClose)
TimerShare   == N(timer \in {"armed", "stopping", "fired", "took", "closing"}) - N(timer = "done")

\* Those who hold the connection.
LoopShare  == N(bound = "yes" /\ (hSocket \/ InHandleClose)) - ConnSurplus
              + N(loopPc \in {"opEnds", "onCloseOp", "finalOp"})
TakenShare == N(timerConn) + N(svcConn /\ pc \in {"force", "refuseForce"})

ChanShares == ServiceShare + BindShare + TimerShare
ConnShares == N(hConnection) + LoopShare + Len(queue) + TakenShare

RefInv ==
  /\ Kept(mem, bound # "no")
  /\ Owned(mem) = ChanShares
  /\ mem.conn = ConnShares

\* A channel that is bound, or can still be, and was closed once and in time.
InTime == /\ ~TimedOut /\ closes <= 1
          /\ bound \in {"queued", "yes"} \/ (bound = "no" /\ chStatus \in {"Starting", "Running"})

FaultInv == InTime => mem.dangling \subseteq {<<"conn", "stale">>} \/ mem.userFree

\* Where the writes are: those taken on (a) wait in p or in q, or were reported (r).
Writes(p, q, a, r) ==
  /\ p \in Seq(Bufs) /\ q \in Seq(Ops) /\ a \in SUBSET Bufs
  /\ r \in [Bufs -> Seq({"ok", "failed", "astray"})]
  /\ \A i, j \in 1..Len(p) : p[i] = p[j] => i = j
  /\ \A i, j \in 1..Len(q) : q[i].op = "send" /\ q[i] = q[j] => i = j
  /\ \A i \in 1..Len(p) : p[i] \in a
  /\ \A i \in 1..Len(q) : q[i].op = "send" => q[i].buf \in a
  /\ \A i \in 1..Len(q), j \in 1..Len(p) : q[i].op = "send" => q[i].buf # p[j]
  /\ \A b \in Bufs \ a : r[b] = <<>>
  /\ \A b \in a : Len(r[b]) = N(~Contains(p, b) /\ Op("send", b) \notin ToSet(q))

WriteInv ==
  /\ Writes(pending, queue, accepted, reports)
  /\ pc = "write" => arg \in Bufs \ accepted

ConnectionInv ==
  TypeOK /\ OpenInv /\ SocketInv /\ QueueInv /\ RefInv /\ FaultInv /\ WriteInv

-----------------------------------------------------------------------------
(* The releases and the references, one by one.  Safe says which of them may *)
(* use an object after it was freed; Moves, by how much they change what the *)
(* connection's count and the channel's are without the center.              *)

Safe(m, n) ==
  m.conn > 0 /\ n.conn > 0 /\ m.chan > 0 /\ n.chan > 0 /\ ~n.userFree
    => n.dangling \subseteq m.dangling \union {<<"conn", "stale">>}

Moves(m, n, c, h) ==
  /\ Kept(n, bound # "no")
  /\ n.conn = m.conn + c
  /\ Owned(n) = Owned(m) + h
  /\ m.userFree => n.userFree
  /\ Safe(m, n)

\* n is m but for its counts, the one use after free it may have added, and what
\* follows from the release that was the connection's last.
LEMMA TouchAdds ==
  ASSUME NEW m \in Mems, NEW object \in Objects, NEW who \in Users
  PROVE  /\ Touch(m, object, who) \in Mems
         /\ Touch(m, object, who).conn = m.conn
         /\ Touch(m, object, who).chan = m.chan
         /\ Touch(m, object, who).slot = m.slot
         /\ Touch(m, object, who).userFree = m.userFree
         /\ Touch(m, object, who).dangling \subseteq m.dangling \union {<<object, who>>}
         /\ m[object] > 0 => Touch(m, object, who).dangling = m.dangling
<1>1. CASE m[object] > 0
  <2>1. ~(m[object] <= 0)
    BY <1>1 DEF Mems, Objects
  <2>2. Touch(m, object, who) = m
    BY <2>1 DEF Touch
  <2> QED BY <2>2
<1>2. CASE ~(m[object] > 0)
  <2>1. m[object] <= 0
    BY <1>2 DEF Mems, Objects
  <2> DEFINE d == m.dangling \union {<<object, who>>}
  <2>2. d \in SUBSET (Objects \X Users)
    BY DEF Mems
  <2>3. Touch(m, object, who) = [m EXCEPT !.dangling = d]
    BY <2>1 DEF Touch
  <2> HIDE DEF d
  <2>4. /\ Touch(m, object, who) \in Mems
        /\ Touch(m, object, who).conn = m.conn
        /\ Touch(m, object, who).chan = m.chan
        /\ Touch(m, object, who).slot = m.slot
        /\ Touch(m, object, who).userFree = m.userFree
        /\ Touch(m, object, who).dangling = d
    BY <2>2, <2>3 DEF Mems
  <2> QED BY <1>2, <2>4 DEF d
<1> QED BY <1>1, <1>2

\* A read through a pointer that was loaded before.
LEMMA StaleMoves ==
  ASSUME NEW m, Kept(m, bound # "no")
  PROVE  Moves(m, Touch(m, "conn", "stale"), 0, 0)
<1>1. m \in Mems /\ "conn" \in Objects /\ "stale" \in Users
  BY DEF Kept, Objects, Users
<1> DEFINE n == Touch(m, "conn", "stale")
<1>2. /\ n \in Mems /\ n.conn = m.conn /\ n.chan = m.chan /\ n.slot = m.slot
      /\ n.userFree = m.userFree
      /\ n.dangling \subseteq m.dangling \union {<<"conn", "stale">>}
  BY <1>1, TouchAdds
<1> HIDE DEF n
<1>3. Moves(m, n, 0, 0)
  BY <1>1, <1>2 DEF Moves, Kept, Owned, Safe, Mems, N
<1> QED BY <1>3 DEF n

LEMMA StillMoves ==
  ASSUME NEW m, Kept(m, bound # "no")
  PROVE  Moves(m, m, 0, 0)
BY DEF Moves, Kept, Owned, Safe, Mems, N

\* A channel's release and reference.
LEMMA ChanDrops ==
  ASSUME NEW m \in Mems, NEW who \in Users
  PROVE  /\ ChanRelease(m, who) \in Mems
         /\ ChanRelease(m, who).conn = m.conn
         /\ ChanRelease(m, who).chan = m.chan - 1
         /\ ChanRelease(m, who).slot = m.slot
         /\ ChanRelease(m, who).userFree = m.userFree
         /\ m.chan > 0 => ChanRelease(m, who).dangling = m.dangling
<1>1. "chan" \in Objects /\ m["chan"] = m.chan
  BY DEF Objects
<1> DEFINE t == Touch(m, "chan", who)
<1>2. /\ t \in Mems /\ t.conn = m.conn /\ t.chan = m.chan /\ t.slot = m.slot
      /\ t.userFree = m.userFree
      /\ m.chan > 0 => t.dangling = m.dangling
  BY <1>1, TouchAdds
<1>3. ChanRelease(m, who) = [t EXCEPT !.chan = t.chan - 1]
  BY DEF ChanRelease
<1> HIDE DEF t
<1> QED BY <1>2, <1>3 DEF Mems

LEMMA Adds ==
  ASSUME NEW m \in Mems, NEW who \in Users
  PROVE  /\ AddRef(m, "chan", who) \in Mems
         /\ AddRef(m, "chan", who).conn = m.conn
         /\ AddRef(m, "chan", who).chan = m.chan + 1
         /\ AddRef(m, "chan", who).slot = m.slot
         /\ AddRef(m, "chan", who).userFree = m.userFree
         /\ m.chan > 0 => AddRef(m, "chan", who).dangling = m.dangling
         /\ AddRef(m, "conn", who) \in Mems
         /\ AddRef(m, "conn", who).conn = m.conn + 1
         /\ AddRef(m, "conn", who).chan = m.chan
         /\ AddRef(m, "conn", who).slot = m.slot
         /\ AddRef(m, "conn", who).userFree = m.userFree
         /\ m.conn > 0 => AddRef(m, "conn", who).dangling = m.dangling
<1>1. "chan" \in Objects /\ m["chan"] = m.chan /\ "conn" \in Objects /\ m["conn"] = m.conn
  BY DEF Objects
<1> DEFINE t == Touch(m, "chan", who)
           u == Touch(m, "conn", who)
<1>2. /\ t \in Mems /\ t.conn = m.conn /\ t.chan = m.chan /\ t.slot = m.slot
      /\ t.userFree = m.userFree
      /\ m.chan > 0 => t.dangling = m.dangling
  BY <1>1, TouchAdds
<1>3. /\ u \in Mems /\ u.conn = m.conn /\ u.chan = m.chan /\ u.slot = m.slot
      /\ u.userFree = m.userFree
      /\ m.conn > 0 => u.dangling = m.dangling
  BY <1>1, TouchAdds
<1>4. /\ AddRef(m, "chan", who) = [t EXCEPT !["chan"] = t["chan"] + 1]
      /\ AddRef(m, "conn", who) = [u EXCEPT !["conn"] = u["conn"] + 1]
  BY DEF AddRef
<1> HIDE DEF t, u
<1>5. /\ AddRef(m, "chan", who) = [t EXCEPT !.chan = t.chan + 1]
      /\ AddRef(m, "conn", who) = [u EXCEPT !.conn = u.conn + 1]
  BY <1>4
<1> QED BY <1>2, <1>3, <1>5 DEF Mems

\* The last release of a bound connection lets go of the channel, and takes it
\* from the center, whose reference goes with the slot.
LEMMA ConnDrops ==
  ASSUME NEW m, Kept(m, bound # "no"), NEW who \in Users
  PROVE  /\ Kept(ConnRelease(m, who), bound # "no")
         /\ ConnRelease(m, who).conn = m.conn - 1
         /\ Owned(ConnRelease(m, who)) = Owned(m)
         /\ m.userFree => ConnRelease(m, who).userFree
         /\ ~ConnRelease(m, who).userFree =>
              /\ ConnRelease(m, who).chan = m.chan
              /\ m.conn > 0 => ConnRelease(m, who).dangling = m.dangling
<1>1. /\ m \in Mems /\ m.slot = ~m.userFree
      /\ m.userFree <=> bound # "no" /\ m.conn <= 0
      /\ "conn" \in Objects /\ m["conn"] = m.conn /\ "userFree" \in Users
  BY DEF Kept, Objects, Users
<1> DEFINE t == Touch(m, "conn", who)
           n == [t EXCEPT !.conn = t.conn - 1]
<1>2. /\ t \in Mems /\ t.conn = m.conn /\ t.chan = m.chan /\ t.slot = m.slot
      /\ t.userFree = m.userFree
      /\ m.conn > 0 => t.dangling = m.dangling
  BY <1>1, TouchAdds
<1>2a. ConnRelease(m, who) = IF m.conn = 1 /\ bound # "no" THEN OnUserFree(n) ELSE n
  BY DEF ConnRelease
<1> HIDE DEF t
<1>3. /\ n \in Mems /\ n.conn = m.conn - 1 /\ n.chan = m.chan /\ n.slot = m.slot
      /\ n.userFree = m.userFree
      /\ m.conn > 0 => n.dangling = m.dangling
  BY <1>2 DEF Mems
<1> HIDE DEF n
<1>4. CASE ~(m.conn = 1 /\ bound # "no")
  <2>1. ConnRelease(m, who) = n
    BY <1>2a, <1>4
  <2>2. m.conn \in Int /\ n.userFree \in BOOLEAN
    BY <1>1, <1>3 DEF Mems
  <2>3. n.userFree <=> bound # "no" /\ n.conn <= 0
    BY <1>1, <1>3, <1>4, <2>2
  <2> QED BY <1>1, <1>3, <2>1, <2>2, <2>3 DEF Kept, Owned
<1>5. CASE m.conn = 1 /\ bound # "no"
  <2>1. ConnRelease(m, who) = OnUserFree(n)
    BY <1>2a, <1>5
  <2>2. ~m.userFree /\ m.slot /\ n.slot /\ ~n.userFree
    BY <1>1, <1>3, <1>5 DEF Mems
  <2> DEFINE c == ChanRelease(n, "userFree")
             o == [c EXCEPT !.slot = FALSE, !.userFree = TRUE]
  <2>3. /\ c \in Mems /\ c.conn = n.conn /\ c.chan = n.chan - 1
    BY <1>1, <1>3, ChanDrops
  <2>4. OnUserFree(n) = ChanRelease(o, "userFree")
    BY <2>2 DEF OnUserFree
  <2> HIDE DEF c
  <2>5. /\ o \in Mems /\ o.conn = n.conn /\ o.chan = n.chan - 1 /\ o.slot = FALSE /\ o.userFree = TRUE
    BY <2>3 DEF Mems
  <2> HIDE DEF o
  <2> DEFINE r == ChanRelease(o, "userFree")
  <2>6. /\ r \in Mems /\ r.conn = 0 /\ r.chan = m.chan - 2 /\ r.slot = FALSE /\ r.userFree = TRUE
    <3>1. /\ r \in Mems /\ r.conn = o.conn /\ r.chan = o.chan - 1 /\ r.slot = o.slot
          /\ r.userFree = o.userFree
      BY <1>1, <2>5, ChanDrops
    <3>2. m.chan \in Int
      BY <1>1 DEF Mems
    <3> HIDE DEF r
    <3> QED BY <1>3, <1>5, <2>5, <3>1, <3>2
  <2> HIDE DEF r
  <2>7. ConnRelease(m, who) = r
    BY <2>1, <2>4 DEF r
  <2>8. Owned(r) = Owned(m)
    <3>1. m.chan \in Int
      BY <1>1 DEF Mems
    <3> QED BY <2>2, <2>6, <3>1 DEF Owned, N
  <2>9. Kept(r, bound # "no")
    <3>1. r.conn <= 0
      BY <2>6
    <3>2. r.userFree
      BY <2>6
    <3>3. r.slot = ~r.userFree
      BY <2>6, Zenon
    <3> QED BY <1>5, <2>6, <3>1, <3>2, <3>3 DEF Kept
  <2> QED BY <1>5, <2>2, <2>6, <2>7, <2>8, <2>9
<1> QED BY <1>4, <1>5

-----------------------------------------------------------------------------
(* What the calls of an action do together.                                  *)

\* One reference, or one release.
LEMMA ChanAddMoves ==
  ASSUME NEW m, Kept(m, bound # "no"), NEW who \in Users
  PROVE  Moves(m, AddRef(m, "chan", who), 0, 1)
<1>1. m \in Mems
  BY DEF Kept
<1> DEFINE n == AddRef(m, "chan", who)
<1>2. /\ n \in Mems /\ n.conn = m.conn /\ n.chan = m.chan + 1 /\ n.slot = m.slot
      /\ n.userFree = m.userFree
      /\ m.chan > 0 => n.dangling = m.dangling
  BY <1>1, Adds
<1> HIDE DEF n
<1>3. Moves(m, n, 0, 1)
  BY <1>1, <1>2 DEF Moves, Kept, Owned, Safe, Mems, N
<1> QED BY <1>3 DEF n

LEMMA ChanDropMoves ==
  ASSUME NEW m, Kept(m, bound # "no"), NEW who \in Users
  PROVE  Moves(m, ChanRelease(m, who), 0, -1)
<1>1. m \in Mems
  BY DEF Kept
<1> DEFINE n == ChanRelease(m, who)
<1>2. /\ n \in Mems /\ n.conn = m.conn /\ n.chan = m.chan - 1 /\ n.slot = m.slot
      /\ n.userFree = m.userFree
      /\ m.chan > 0 => n.dangling = m.dangling
  BY <1>1, ChanDrops
<1> HIDE DEF n
<1>3. Moves(m, n, 0, -1)
  BY <1>1, <1>2 DEF Moves, Kept, Owned, Safe, Mems, N
<1> QED BY <1>3 DEF n

LEMMA ConnDropMoves ==
  ASSUME NEW m, Kept(m, bound # "no"), NEW who \in Users
  PROVE  Moves(m, ConnRelease(m, who), -1, 0)
<1> DEFINE n == ConnRelease(m, who)
<1>1. /\ Kept(n, bound # "no") /\ n.conn = m.conn - 1 /\ Owned(n) = Owned(m)
      /\ m.userFree => n.userFree
      /\ ~n.userFree => n.chan = m.chan /\ (m.conn > 0 => n.dangling = m.dangling)
  BY ConnDrops
<1> HIDE DEF n
<1>2. Owned(n) = Owned(m) + 0 /\ n.conn = m.conn + (-1)
  BY <1>1 DEF Kept, Owned, Mems, N
<1>3. Safe(m, n)
  BY <1>1 DEF Safe, Kept, Mems
<1>4. Moves(m, n, -1, 0)
  BY <1>1, <1>2, <1>3 DEF Moves
<1> QED BY <1>4 DEF n

\* A reference to a connection that is alive.
LEMMA ConnAddMoves ==
  ASSUME NEW m, Kept(m, bound # "no"), NEW who \in Users, m.conn > 0
  PROVE  Moves(m, AddRef(m, "conn", who), 1, 0)
<1>1. m \in Mems
  BY DEF Kept
<1> DEFINE n == AddRef(m, "conn", who)
<1>2. /\ n \in Mems /\ n.conn = m.conn + 1 /\ n.chan = m.chan /\ n.slot = m.slot
      /\ n.userFree = m.userFree
      /\ n.dangling = m.dangling
  BY <1>1, Adds
<1> HIDE DEF n
<1>3. Moves(m, n, 1, 0)
  BY <1>1, <1>2 DEF Moves, Kept, Owned, Safe, Mems, N
<1> QED BY <1>3 DEF n

\* Two of them: what lies between is alive where both ends are.
LEMMA TwoMove ==
  ASSUME NEW m, NEW n, NEW o, NEW c \in Int, NEW d \in Int, NEW h \in Int, NEW k \in Int,
         Kept(m, bound # "no"), Moves(m, n, c, h), Moves(n, o, d, k),
         m.conn > 0 /\ o.conn > 0 /\ ~o.userFree => n.conn > 0,
         m.chan > 0 /\ o.chan > 0 /\ ~o.userFree => n.chan > 0
  PROVE  Moves(m, o, c + d, h + k)
<1>1. Kept(o, bound # "no") /\ (m.userFree => o.userFree)
  BY DEF Moves
<1>2. o.conn = m.conn + (c + d)
  BY DEF Moves, Kept, Mems
<1>3. Owned(o) = Owned(m) + (h + k)
  <2>1. Owned(m) \in Int
    BY DEF Kept, Mems, Owned, N
  <2> QED BY <2>1 DEF Moves
<1>4. Safe(m, o)
  <2> SUFFICES ASSUME m.conn > 0, o.conn > 0, m.chan > 0, o.chan > 0, ~o.userFree
               PROVE  o.dangling \subseteq m.dangling \union {<<"conn", "stale">>}
    BY DEF Safe
  <2>1. ~n.userFree /\ n.conn > 0 /\ n.chan > 0
    <3>1. n.userFree => o.userFree
      BY DEF Moves
    <3> QED BY <3>1
  <2>2. /\ n.dangling \subseteq m.dangling \union {<<"conn", "stale">>}
        /\ o.dangling \subseteq n.dangling \union {<<"conn", "stale">>}
    BY <2>1 DEF Moves, Safe
  <2> QED BY <2>2
<1> QED BY <1>1, <1>2, <1>3, <1>4 DEF Moves

\* Where the channel is not let go of, its count moves with what it is owned by.
LEMMA OwnedIsCount ==
  ASSUME NEW m, NEW n, NEW c \in Int, NEW h \in Int,
         Kept(m, bound # "no"), Moves(m, n, c, h), ~n.userFree
  PROVE  n.chan = m.chan + h
<1>1. ~m.userFree /\ m.slot = TRUE /\ n.slot = TRUE /\ m.chan \in Int /\ n.chan \in Int
  BY DEF Moves, Kept, Mems
<1>2. Owned(m) = m.chan - 1 /\ Owned(n) = n.chan - 1
  BY <1>1 DEF Owned, N
<1> QED BY <1>1, <1>2 DEF Moves

\* Releases only, or references only: nothing between is less than both ends.
LEMMA TwoMoveOn ==
  ASSUME NEW m, NEW n, NEW o, NEW c \in Int, NEW d \in Int, NEW h \in Int, NEW k \in Int,
         Kept(m, bound # "no"), Moves(m, n, c, h), Moves(n, o, d, k),
         c >= 0 \/ d <= 0, h >= 0 \/ k <= 0
  PROVE  Moves(m, o, c + d, h + k)
<1>1. Kept(n, bound # "no") /\ Kept(o, bound # "no")
  BY DEF Moves
<1>2. m.conn > 0 /\ o.conn > 0 /\ ~o.userFree => n.conn > 0
  <2>1. m.conn \in Int /\ n.conn \in Int /\ o.conn \in Int /\ n.conn = m.conn + c /\ o.conn = n.conn + d
    BY <1>1 DEF Moves, Kept, Mems
  <2> QED BY <2>1
<1>3. m.chan > 0 /\ o.chan > 0 /\ ~o.userFree => n.chan > 0
  <2> SUFFICES ASSUME m.chan > 0, o.chan > 0, ~o.userFree
               PROVE  n.chan > 0
    OBVIOUS
  <2>1. ~n.userFree
    BY DEF Moves
  <2>2. n.chan = m.chan + h /\ o.chan = n.chan + k
    BY <1>1, <2>1, OwnedIsCount
  <2>3. m.chan \in Int /\ n.chan \in Int
    BY <1>1 DEF Kept, Mems
  <2> QED BY <2>2, <2>3
<1> QED BY <1>2, <1>3, TwoMove

-----------------------------------------------------------------------------
(* What a step has to show.                                                  *)

LEMMA SharesAreInts ==
  ASSUME TypeOK
  PROVE  /\ ServiceShare \in Int /\ BindShare \in {0, 1} /\ TimerShare \in {-1, 0, 1}
         /\ LoopShare \in Int /\ TakenShare \in 0..2 /\ Len(queue) \in Nat
         /\ N(hConnection) \in {0, 1}
<1>1. closes \in Int /\ extra \in Int /\ queue \in Seq(Ops)
  BY DEF TypeOK
<1>2. ServiceShare \in Int
  BY <1>1 DEF ServiceShare, N
<1>3. BindShare \in {0, 1} /\ N(hConnection) \in {0, 1}
  BY DEF BindShare, N
<1>4. TimerShare \in {-1, 0, 1}
  BY DEF TimerShare, N
<1>5. LoopShare \in Int
  BY DEF LoopShare, ConnSurplus, N
<1>6. TakenShare \in 0..2
  BY DEF TakenShare, N
<1> QED BY <1>1, <1>2, <1>3, <1>4, <1>5, <1>6, LenProperties

LEMMA RefStep ==
  ASSUME RefInv, NEW c \in Int, NEW h \in Int, Moves(mem, mem', c, h),
         bound' # "no" <=> bound # "no",
         ChanShares' = ChanShares + h, ConnShares' = ConnShares + c
  PROVE  RefInv'
<1>1. Kept(mem', bound' # "no")
  <2>1. Kept(mem', bound # "no")
    BY DEF Moves
  <2> QED BY <2>1 DEF Kept
<1>2. Owned(mem') = Owned(mem) + h /\ mem'.conn = mem.conn + c
  BY DEF Moves
<1>3. Owned(mem)' = Owned(mem')
  BY DEF Owned
<1>4. Kept(mem, bound # "no")'
  BY <1>1 DEF Kept
<1> QED BY <1>2, <1>3, <1>4 DEF RefInv

\* Until the channel's last reference is gone with the connection's.
LEMMA AliveInTime ==
  ASSUME TypeOK, OpenInv, RefInv, InTime, ~mem.userFree
  PROVE  mem.conn > 0 /\ mem.chan > 0
<1>1. mem.conn > 0
  <2>1. mem.conn \in Int
    BY DEF TypeOK, Mems
  <2>2. CASE bound # "no"
    BY <2>1, <2>2 DEF RefInv, Kept
  <2>3. CASE bound = "no"
    <3>1. hSocket /\ hConnection /\ queue = <<>> /\ loopPc = "poll"
      BY <2>3 DEF InTime, OpenInv
    <3>2. LoopShare = 0
      BY <2>3, <3>1 DEF LoopShare, ConnSurplus, N
    <3>3. N(hConnection) = 1 /\ Len(queue) = 0
      BY <3>1 DEF N
    <3>4. TakenShare \in 0..2
      BY SharesAreInts
    <3> QED BY <3>2, <3>3, <3>4 DEF RefInv, ConnShares
  <2> QED BY <2>2, <2>3
<1>2. mem.chan > 0
  <2>1. mem.chan \in Int /\ mem.slot = TRUE
    BY DEF TypeOK, RefInv, Kept, Mems
  <2>2. Owned(mem) = mem.chan - 1
    BY <2>1 DEF Owned, N
  <2>3. ServiceShare >= 0
    <3>1. closes \in Nat /\ closes <= 1 /\ extra \in {0, 1}
      BY DEF TypeOK, InTime
    <3> QED BY <3>1 DEF ServiceShare, N
  <2>4. TimerShare >= 0
    <3>1. timer # "done"
      BY DEF InTime, TimedOut
    <3> QED BY <3>1 DEF TimerShare, N
  <2>5. BindShare \in {0, 1} /\ ServiceShare \in Int /\ TimerShare \in {-1, 0, 1}
    BY SharesAreInts
  <2> QED BY <2>1, <2>2, <2>3, <2>4, <2>5 DEF RefInv, ChanShares
<1> QED BY <1>1, <1>2

LEMMA AliveInTimeNext ==
  ASSUME TypeOK', OpenInv', RefInv', InTime', ~mem'.userFree
  PROVE  mem'.conn > 0 /\ mem'.chan > 0
<1>1. mem'.conn > 0
  <2>1. mem'.conn \in Int
    BY DEF TypeOK, Mems
  <2>2. CASE bound' # "no"
    BY <2>1, <2>2 DEF RefInv, Kept
  <2>3. CASE bound' = "no"
    <3>1. hSocket' /\ hConnection' /\ queue' = <<>> /\ loopPc' = "poll"
      BY <2>3 DEF InTime, OpenInv
    <3>2. LoopShare' = 0
      BY <2>3, <3>1 DEF LoopShare, ConnSurplus, N
    <3>3. N(hConnection)' = 1 /\ Len(queue)' = 0
      BY <3>1 DEF N
    <3>4. TakenShare' \in 0..2
      BY DEF TakenShare, N
    <3>5. mem'.conn = N(hConnection)' + LoopShare' + Len(queue)' + TakenShare'
      BY DEF RefInv, ConnShares
    <3>6. TakenShare' \in Int /\ TakenShare' >= 0
      BY <3>4
    <3>7. mem'.conn = 1 + TakenShare'
      BY <3>2, <3>3, <3>5, <3>6
    <3>8. ASSUME NEW t, t \in Int, t >= 0
          PROVE  1 + t > 0
      BY <3>8
    <3>9. 1 + TakenShare' > 0
      BY <3>6, <3>8
    <3> QED BY <3>7, <3>9
  <2> QED BY <2>2, <2>3
<1>2. mem'.chan > 0
  <2>1. mem'.chan \in Int /\ mem'.slot = TRUE
    BY DEF TypeOK, RefInv, Kept, Mems
  <2>2. Owned(mem)' = mem'.chan - 1
    BY <2>1 DEF Owned, N
  <2>3. ServiceShare' >= 0 /\ ServiceShare' \in Int
    <3>1. closes' \in Nat /\ closes' <= 1 /\ extra' \in {0, 1}
      BY DEF TypeOK, InTime
    <3>2. N(Closing)' \in {0, 1} /\ N(Gained)' \in {0, 1}
      BY DEF N
    <3> QED BY <3>1, <3>2 DEF ServiceShare
  <2>4. TimerShare' >= 0 /\ TimerShare' \in Int
    <3>1. timer' # "done"
      BY DEF InTime, TimedOut
    <3> QED BY <3>1 DEF TimerShare, N
  <2>5. BindShare' \in {0, 1}
    BY DEF BindShare, N
  <2> QED BY <2>1, <2>2, <2>3, <2>4, <2>5 DEF RefInv, ChanShares
<1> QED BY <1>1, <1>2

LEMMA FaultStep ==
  ASSUME TypeOK, OpenInv, RefInv, FaultInv, TypeOK', OpenInv', RefInv',
         Safe(mem, mem'), mem.userFree => mem'.userFree, InTime' => InTime
  PROVE  FaultInv'
<1> SUFFICES ASSUME InTime', ~mem'.userFree
             PROVE  mem'.dangling \subseteq {<<"conn", "stale">>}
  BY DEF FaultInv
<1>1. InTime /\ ~mem.userFree
  OBVIOUS
<1>2. mem.conn > 0 /\ mem.chan > 0
  BY <1>1, AliveInTime
<1>3. mem'.conn > 0 /\ mem'.chan > 0
  BY AliveInTimeNext
<1>4. mem.dangling \subseteq {<<"conn", "stale">>}
  BY <1>1 DEF FaultInv
<1>5. mem'.dangling \subseteq mem.dangling \union {<<"conn", "stale">>}
  BY <1>2, <1>3 DEF Safe
<1> QED BY <1>4, <1>5

LEMMA InvStep ==
  ASSUME ConnectionInv, NEW c \in Int, NEW h \in Int, Moves(mem, mem', c, h),
         bound' # "no" <=> bound # "no",
         ChanShares' = ChanShares + h, ConnShares' = ConnShares + c,
         TypeOK', OpenInv', SocketInv', QueueInv', InTime' => InTime, WriteInv'
  PROVE  ConnectionInv'
<1>1. RefInv'
  BY RefStep DEF ConnectionInv
<1>2. FaultInv'
  BY <1>1, FaultStep DEF ConnectionInv, Moves
<1> QED BY <1>1, <1>2 DEF ConnectionInv

\* What the queue and the writes keep when an operation that is not a write, or
\* not the bind, comes or goes.
LEMMA QueueGrows ==
  ASSUME TypeOK, QueueInv, NEW o \in Ops, o.op # "bind", queue' = Append(queue, o), bound' = bound
  PROVE  QueueInv'
<1>1. queue \in Seq(Ops)
  BY DEF TypeOK
<1>2. /\ Len(queue') = Len(queue) + 1
      /\ \A i \in 1..Len(queue) : queue'[i] = queue[i]
      /\ queue'[Len(queue) + 1] = o
      /\ Len(queue) \in Nat
  BY <1>1
<1>3. bound = "queued" => Len(queue) > 0
  BY <1>1, <1>2 DEF QueueInv
<1>4. ASSUME NEW i \in 1..Len(queue')
      PROVE  queue'[i].op = "bind" <=> i = 1 /\ bound' = "queued"
  <2>1. CASE i \in 1..Len(queue)
    BY <1>2, <2>1 DEF QueueInv
  <2>2. CASE i = Len(queue) + 1
    BY <1>2, <1>3, <2>2
  <2> QED BY <1>2, <1>4, <2>1, <2>2
<1> QED BY <1>2, <1>4 DEF QueueInv

LEMMA QueueShrinks ==
  ASSUME TypeOK, QueueInv, queue # <<>>, Head(queue).op # "bind", queue' = Tail(queue),
         bound' = bound
  PROVE  QueueInv' /\ bound # "queued"
<1>1. queue \in Seq(Ops)
  BY DEF TypeOK
<1>2. /\ Len(queue') = Len(queue) - 1 /\ Len(queue) \in Nat \ {0}
      /\ \A i \in 1..Len(queue') : queue'[i] = queue[i + 1]
      /\ queue[1] = Head(queue)
  BY <1>1
<1>3. bound # "queued"
  BY <1>2 DEF QueueInv
<1> QED BY <1>2, <1>3 DEF QueueInv

-----------------------------------------------------------------------------
(* The writes: what the loop's queue, the pending writes and the reports     *)
(* keep when one of them is put somewhere, taken out, or reported.           *)

LEMMA OpsAreOps ==
  ASSUME NEW what \in {"bind", "send", "close", "forceClose"}, NEW b \in Bufs \union {NoBuf}
  PROVE  Op(what, b) \in Ops /\ Op(what, b).op = what /\ Op(what, b).buf = b
BY DEF Op, Ops

LEMMA InQueue ==
  ASSUME NEW q \in Seq(Ops), NEW b
  PROVE  Op("send", b) \in ToSet(q) <=> \E i \in 1..Len(q) : q[i] = Op("send", b)
<1>1. DOMAIN q = 1..Len(q)
  OBVIOUS
<1> QED BY <1>1 DEF ToSet

LEMMA OthersJoin ==
  ASSUME NEW p, NEW q, NEW a, NEW r, Writes(p, q, a, r), NEW o \in Ops, o.op # "send"
  PROVE  Writes(p, Append(q, o), a, r)
<1> DEFINE s == Append(q, o)
<1>1. q \in Seq(Ops)
  BY DEF Writes
<1>2. /\ s \in Seq(Ops) /\ Len(s) = Len(q) + 1 /\ Len(q) \in Nat
      /\ \A i \in 1..Len(q) : s[i] = q[i] /\ i \in 1..Len(s)
      /\ s[Len(q) + 1] = o
  BY <1>1
<1> HIDE DEF s
<1>3. \A i \in 1..Len(s) : s[i].op = "send" => i \in 1..Len(q) /\ s[i] = q[i]
  BY <1>2
<1>4. \A i, j \in 1..Len(s) : s[i].op = "send" /\ s[i] = s[j] => i = j
  <2>1. \A i, j \in 1..Len(q) : q[i].op = "send" /\ q[i] = q[j] => i = j
    BY DEF Writes
  <2> QED BY <1>3, <2>1, SMTT(30)
<1>5. \A i \in 1..Len(s) : s[i].op = "send" => s[i].buf \in a
  BY <1>3 DEF Writes
<1>6. \A i \in 1..Len(s), j \in 1..Len(p) : s[i].op = "send" => s[i].buf # p[j]
  BY <1>3 DEF Writes
<1>7. ASSUME NEW b \in a
      PROVE  Op("send", b) \in ToSet(s) <=> Op("send", b) \in ToSet(q)
  <2>1. Op("send", b).op = "send"
    BY DEF Op
  <2>2. /\ Op("send", b) \in ToSet(q) <=> \E i \in 1..Len(q) : q[i] = Op("send", b)
        /\ Op("send", b) \in ToSet(s) <=> \E i \in 1..Len(s) : s[i] = Op("send", b)
    BY <1>1, <1>2, InQueue
  <2> QED BY <1>2, <1>3, <2>1, <2>2
<1>8. Writes(p, s, a, r)
  BY <1>2, <1>4, <1>5, <1>6, <1>7 DEF Writes
<1> QED BY <1>8 DEF s

\* The head of the queue is taken: a write is then nowhere, as if it was not yet
\* taken on; another operation leaves the writes as they are.
LEMMA HeadLeaves ==
  ASSUME NEW p, NEW q, NEW a, NEW r, Writes(p, q, a, r), q # <<>>
  PROVE  /\ Head(q) \in Ops
         /\ Head(q).op # "send" => Writes(p, Tail(q), a, r)
         /\ Head(q).op = "send" =>
              Head(q).buf \in a /\ Writes(p, Tail(q), a \ {Head(q).buf}, r)
<1> DEFINE s == Tail(q)
           h == Head(q)
<1>1. q \in Seq(Ops)
  BY DEF Writes
<1>2. /\ s \in Seq(Ops) /\ Len(s) = Len(q) - 1 /\ Len(q) \in Nat \ {0}
      /\ \A i \in 1..Len(s) : s[i] = q[i + 1] /\ i + 1 \in 1..Len(q)
      /\ q[1] = h /\ h \in Ops
  BY <1>1
<1> HIDE DEF s, h
<1>3. \A i \in 1..Len(q) : i = 1 \/ (i - 1 \in 1..Len(s) /\ s[i - 1] = q[i])
  <2> SUFFICES ASSUME NEW i \in 1..Len(q), i # 1
               PROVE  i - 1 \in 1..Len(s) /\ s[i - 1] = q[i]
    OBVIOUS
  <2>1. i - 1 \in 1..Len(s) /\ (i - 1) + 1 = i
    BY <1>2
  <2> QED BY <1>2, <2>1
<1>4. \A i, j \in 1..Len(s) : s[i].op = "send" /\ s[i] = s[j] => i = j
  <2> SUFFICES ASSUME NEW i \in 1..Len(s), NEW j \in 1..Len(s), s[i].op = "send", s[i] = s[j]
               PROVE  i = j
    OBVIOUS
  <2>1. i + 1 = j + 1
    BY <1>2 DEF Writes
  <2> QED BY <2>1
<1>5. \A i \in 1..Len(s), j \in 1..Len(p) : s[i].op = "send" => s[i].buf # p[j]
  <2>1. \A i \in 1..Len(q), j \in 1..Len(p) : q[i].op = "send" => q[i].buf # p[j]
    BY DEF Writes
  <2> QED BY <1>2, <2>1
<1>5a. \A b \in a : b \in Bufs /\ Op("send", b).op = "send" /\ Op("send", b).buf = b
  BY DEF Writes, Op
<1>6. \A i \in 1..Len(s) : s[i].op = "send" => s[i].buf \in a /\ s[i] # h
  <2> SUFFICES ASSUME NEW i \in 1..Len(s), s[i].op = "send"
               PROVE  s[i].buf \in a /\ s[i] # h
    OBVIOUS
  <2>1. s[i] = q[i + 1] /\ i + 1 \in 1..Len(q) /\ 1 \in 1..Len(q) /\ i + 1 # 1
    BY <1>2
  <2> QED BY <1>2, <2>1 DEF Writes
<1>7. ASSUME NEW b \in Bufs, Op("send", b) # h
      PROVE  Op("send", b) \in ToSet(s) <=> Op("send", b) \in ToSet(q)
  <2>1. /\ Op("send", b) \in ToSet(q) <=> \E i \in 1..Len(q) : q[i] = Op("send", b)
        /\ Op("send", b) \in ToSet(s) <=> \E i \in 1..Len(s) : s[i] = Op("send", b)
    BY <1>1, <1>2, InQueue
  <2> QED BY <1>2, <1>3, <1>7, <2>1
<1>8. CASE h.op # "send"
  <2>1. \A b \in a : Op("send", b) \in ToSet(s) <=> Op("send", b) \in ToSet(q)
    BY <1>5a, <1>7, <1>8
  <2>2. Writes(p, s, a, r)
    BY <1>2, <1>4, <1>5, <1>6, <2>1 DEF Writes
  <2> QED BY <1>2, <1>8, <2>2 DEF s, h
<1>9. CASE h.op = "send"
  <2> DEFINE b == h.buf
  <2>1. b \in a /\ h = Op("send", b)
    <3>1. 1 \in 1..Len(q) /\ q[1].op = "send"
      BY <1>2, <1>9
    <3>2. b \in a
      BY <1>2, <3>1 DEF Writes
    <3>3. h = [op |-> "send", buf |-> h.buf]
      BY <1>2, <1>9 DEF Ops
    <3> QED BY <3>2, <3>3 DEF Op
  <2>2. Op("send", b) \in ToSet(q)
    BY <1>1, <1>2, <2>1, InQueue
  <2>3. r[b] = <<>>
    <3>1. Len(r[b]) = 0 /\ r[b] \in Seq({"ok", "failed", "astray"})
      BY <2>1, <2>2 DEF Writes, N
    <3> QED BY <3>1
  <2>4. \A i \in 1..Len(s) : s[i].op = "send" => s[i].buf \in a \ {b}
    <3> SUFFICES ASSUME NEW i \in 1..Len(s), s[i].op = "send"
                 PROVE  s[i].buf \in a \ {b}
      OBVIOUS
    <3>1. s[i] \in Ops /\ s[i].buf \in a /\ s[i] # h
      BY <1>2, <1>6
    <3>2. s[i] = Op("send", s[i].buf)
      BY <3>1 DEF Ops, Op
    <3> QED BY <2>1, <3>1, <3>2
  <2>5. \A i \in 1..Len(p) : p[i] \in a \ {b}
    <3> SUFFICES ASSUME NEW i \in 1..Len(p)
                 PROVE  p[i] \in a \ {b}
      OBVIOUS
    <3>1. p[i] \in a
      BY DEF Writes
    <3>2. 1 \in 1..Len(q) /\ q[1].op = "send" /\ q[1].buf = b
      BY <1>2, <1>9
    <3>3. b # p[i]
      BY <3>2 DEF Writes
    <3> QED BY <3>1, <3>3
  <2>6. \A c \in a \ {b} : Op("send", c) \in ToSet(s) <=> Op("send", c) \in ToSet(q)
    BY <1>5a, <1>7, <2>1
  <2> HIDE DEF b
  <2>7. \A c \in Bufs \ (a \ {b}) : r[c] = <<>>
    BY <2>3 DEF Writes
  <2>8. \A c \in a \ {b} : Len(r[c]) = N(~Contains(p, c) /\ Op("send", c) \notin ToSet(s))
    BY <2>6 DEF Writes
  <2>9. a \ {b} \in SUBSET Bufs
    BY DEF Writes
  <2>10. Writes(p, s, a \ {b}, r)
    BY <1>2, <1>4, <1>5, <2>4, <2>5, <2>7, <2>8, <2>9 DEF Writes
  <2> QED BY <1>2, <1>9, <2>1, <2>10 DEF s, h, b
<1> QED BY <1>8, <1>9

\* A write that is nowhere joins the pending ones, joins the queue, or is reported.
LEMMA Nowhere ==
  ASSUME NEW p, NEW q, NEW a, NEW r, Writes(p, q, a, r), NEW b \in Bufs \ a
  PROVE  /\ \A i \in 1..Len(p) : p[i] # b
         /\ \A i \in 1..Len(q) : q[i].op = "send" => q[i].buf # b
         /\ \A i \in 1..Len(q) : q[i] # Op("send", b)
         /\ ~Contains(p, b) /\ Op("send", b) \notin ToSet(q)
         /\ r[b] = <<>>
<1>1. \A i \in 1..Len(p) : p[i] # b
  BY DEF Writes
<1>2. \A i \in 1..Len(q) : q[i].op = "send" => q[i].buf # b
  BY DEF Writes
<1>3. \A i \in 1..Len(q) : q[i] # Op("send", b)
  BY <1>2 DEF Op
<1>4. q \in Seq(Ops)
  BY DEF Writes
<1>5. ~Contains(p, b) /\ Op("send", b) \notin ToSet(q)
  BY <1>1, <1>3, <1>4, InQueue DEF Contains
<1>6. r[b] = <<>>
  BY DEF Writes
<1> QED BY <1>1, <1>2, <1>3, <1>5, <1>6

LEMMA JoinsPending ==
  ASSUME NEW p, NEW q, NEW a, NEW r, Writes(p, q, a, r), NEW b \in Bufs \ a
  PROVE  Writes(Append(p, b), q, a \union {b}, r)
<1> DEFINE s == Append(p, b)
           d == a \union {b}
<1>1. p \in Seq(Bufs) /\ d \in SUBSET Bufs /\ b \in d /\ (\A c \in a : c \in d)
  BY DEF Writes
<1>2. /\ s \in Seq(Bufs) /\ Len(s) = Len(p) + 1 /\ Len(p) \in Nat
      /\ \A i \in 1..Len(p) : s[i] = p[i] /\ i \in 1..Len(s)
      /\ s[Len(p) + 1] = b /\ Len(p) + 1 \in 1..Len(s)
  BY <1>1
<1> HIDE DEF s
<1>3. \A i \in 1..Len(s) : i \in 1..Len(p) \/ (i = Len(p) + 1 /\ s[i] = b)
  BY <1>2
<1>4. /\ \A i \in 1..Len(p) : p[i] # b
      /\ \A i \in 1..Len(q) : q[i].op = "send" => q[i].buf # b
      /\ r[b] = <<>>
  BY Nowhere
<1>5. \A i, j \in 1..Len(s) : s[i] = s[j] => i = j
  <2> SUFFICES ASSUME NEW i \in 1..Len(s), NEW j \in 1..Len(s), s[i] = s[j]
               PROVE  i = j
    OBVIOUS
  <2>1. \A k, l \in 1..Len(p) : p[k] = p[l] => k = l
    BY DEF Writes
  <2> QED BY <1>2, <1>3, <1>4, <2>1
<1>6. \A i \in 1..Len(s) : s[i] \in d
  <2>1. \A i \in 1..Len(p) : p[i] \in a
    BY DEF Writes
  <2> QED BY <1>1, <1>2, <1>3, <2>1
<1>7. \A i \in 1..Len(q), j \in 1..Len(s) : q[i].op = "send" => q[i].buf # s[j]
  <2>1. \A i \in 1..Len(q), j \in 1..Len(p) : q[i].op = "send" => q[i].buf # p[j]
    BY DEF Writes
  <2> QED BY <1>2, <1>3, <1>4, <2>1
<1>8. ASSUME NEW c \in d
      PROVE  Len(r[c]) = N(~Contains(s, c) /\ Op("send", c) \notin ToSet(q))
  <2>1. CASE c = b
    <3>1. Contains(s, c)
      BY <1>2, <2>1 DEF Contains
    <3> QED BY <1>4, <2>1, <3>1 DEF N
  <2>2. CASE c # b
    <3>1. c \in a
      BY <2>2
    <3>2. Contains(s, c) <=> Contains(p, c)
      BY <1>2, <1>3, <2>2 DEF Contains
    <3> QED BY <3>1, <3>2 DEF Writes
  <2> QED BY <2>1, <2>2
<1>9. \A c \in Bufs \ d : r[c] = <<>>
  BY DEF Writes
<1>10. \A i \in 1..Len(q) : q[i].op = "send" => q[i].buf \in d
  BY <1>1 DEF Writes
<1> HIDE DEF d
<1>11. Writes(s, q, d, r)
  BY <1>1, <1>2, <1>5, <1>6, <1>7, <1>8, <1>9, <1>10 DEF Writes
<1> QED BY <1>11 DEF s, d

LEMMA JoinsQueue ==
  ASSUME NEW p, NEW q, NEW a, NEW r, Writes(p, q, a, r), NEW b \in Bufs \ a
  PROVE  Writes(p, Append(q, Op("send", b)), a \union {b}, r)
<1> DEFINE o == Op("send", b)
           s == Append(q, o)
           d == a \union {b}
<1>1. q \in Seq(Ops) /\ d \in SUBSET Bufs /\ b \in d /\ (\A c \in a : c \in d)
  BY DEF Writes
<1>1a. o \in Ops /\ o.op = "send" /\ o.buf = b
  BY OpsAreOps
<1> HIDE DEF o
<1>2. /\ s \in Seq(Ops) /\ Len(s) = Len(q) + 1 /\ Len(q) \in Nat
      /\ \A i \in 1..Len(q) : s[i] = q[i] /\ i \in 1..Len(s)
      /\ s[Len(q) + 1] = o /\ Len(q) + 1 \in 1..Len(s)
  BY <1>1, <1>1a
<1> HIDE DEF s
<1>3. \A i \in 1..Len(s) : i \in 1..Len(q) \/ (i = Len(q) + 1 /\ s[i] = o)
  BY <1>2
<1>4. /\ \A i \in 1..Len(p) : p[i] # b
      /\ \A i \in 1..Len(q) : q[i].op = "send" => q[i].buf # b
      /\ r[b] = <<>>
  BY Nowhere
<1>4a. \A i \in 1..Len(q) : q[i] # o
  BY <1>1a, <1>4
<1>5. \A i, j \in 1..Len(s) : s[i].op = "send" /\ s[i] = s[j] => i = j
  <2> SUFFICES ASSUME NEW i \in 1..Len(s), NEW j \in 1..Len(s), s[i].op = "send", s[i] = s[j]
               PROVE  i = j
    OBVIOUS
  <2>1. \A k, l \in 1..Len(q) : q[k].op = "send" /\ q[k] = q[l] => k = l
    BY DEF Writes
  <2> QED BY <1>2, <1>3, <1>4a, <2>1
<1>6. \A i \in 1..Len(s) : s[i].op = "send" => s[i].buf \in d
  <2>1. \A i \in 1..Len(q) : q[i].op = "send" => q[i].buf \in a
    BY DEF Writes
  <2> QED BY <1>1, <1>1a, <1>2, <1>3, <2>1
<1>7. \A i \in 1..Len(s), j \in 1..Len(p) : s[i].op = "send" => s[i].buf # p[j]
  <2>1. \A i \in 1..Len(q), j \in 1..Len(p) : q[i].op = "send" => q[i].buf # p[j]
    BY DEF Writes
  <2> QED BY <1>1a, <1>2, <1>3, <1>4, <2>1
<1>8. ASSUME NEW c \in d
      PROVE  Len(r[c]) = N(~Contains(p, c) /\ Op("send", c) \notin ToSet(s))
  <2>0. /\ Op("send", c) \in ToSet(q) <=> \E i \in 1..Len(q) : q[i] = Op("send", c)
        /\ Op("send", c) \in ToSet(s) <=> \E i \in 1..Len(s) : s[i] = Op("send", c)
    BY <1>1, <1>2, InQueue
  <2>1. CASE c = b
    <3>1. Op("send", c) \in ToSet(s)
      BY <1>2, <2>0, <2>1 DEF o
    <3> QED BY <1>4, <2>1, <3>1 DEF N
  <2>2. CASE c # b
    <3>1. c \in a /\ Op("send", c) # o
      BY <1>1a, <2>2 DEF Op
    <3>2. Op("send", c) \in ToSet(s) <=> Op("send", c) \in ToSet(q)
      BY <1>2, <1>3, <2>0, <3>1
    <3> QED BY <3>1, <3>2 DEF Writes
  <2> QED BY <2>1, <2>2
<1>9. \A c \in Bufs \ d : r[c] = <<>>
  BY DEF Writes
<1>10. \A i \in 1..Len(p) : p[i] \in d
  BY <1>1 DEF Writes
<1>11. p \in Seq(Bufs) /\ r \in [Bufs -> Seq({"ok", "failed", "astray"})]
  BY DEF Writes
<1>12. \A i, j \in 1..Len(p) : p[i] = p[j] => i = j
  BY DEF Writes
<1> HIDE DEF d
<1>13. Writes(p, s, d, r)
  BY <1>1, <1>2, <1>5, <1>6, <1>7, <1>8, <1>9, <1>10, <1>11, <1>12 DEF Writes
<1> QED BY <1>13 DEF s, d, o

LEMMA IsReported ==
  ASSUME NEW p, NEW q, NEW a, NEW r, Writes(p, q, a, r), NEW b \in Bufs \ a,
         NEW x \in {"ok", "failed", "astray"}
  PROVE  Writes(p, q, a \union {b}, [r EXCEPT ![b] = Append(r[b], x)])
<1> DEFINE s == [r EXCEPT ![b] = Append(r[b], x)]
           d == a \union {b}
<1>1. /\ r \in [Bufs -> Seq({"ok", "failed", "astray"})] /\ d \in SUBSET Bufs
      /\ b \in d /\ (\A c \in a : c \in d)
  BY DEF Writes
<1>2. ~Contains(p, b) /\ Op("send", b) \notin ToSet(q) /\ r[b] = <<>>
  BY Nowhere
<1>3. /\ s \in [Bufs -> Seq({"ok", "failed", "astray"})]
      /\ \A c \in Bufs : c # b => s[c] = r[c]
      /\ Len(s[b]) = 1
  BY <1>1, <1>2
<1> HIDE DEF s
<1>4. ASSUME NEW c \in d
      PROVE  Len(s[c]) = N(~Contains(p, c) /\ Op("send", c) \notin ToSet(q))
  <2>1. CASE c = b
    BY <1>2, <1>3, <2>1 DEF N
  <2>2. CASE c # b
    <3>1. c \in a /\ s[c] = r[c]
      BY <1>1, <1>3, <2>2
    <3> QED BY <3>1 DEF Writes
  <2> QED BY <2>1, <2>2
<1>5. \A c \in Bufs \ d : s[c] = <<>>
  <2>1. \A c \in Bufs \ a : r[c] = <<>>
    BY DEF Writes
  <2> QED BY <1>3, <2>1
<1>6. \A i \in 1..Len(p) : p[i] \in d
  BY <1>1 DEF Writes
<1>7. \A i \in 1..Len(q) : q[i].op = "send" => q[i].buf \in d
  BY <1>1 DEF Writes
<1> HIDE DEF d
<1>8. Writes(p, q, d, s)
  BY <1>1, <1>3, <1>4, <1>5, <1>6, <1>7 DEF Writes
<1> QED BY <1>8 DEF s, d

\* Some of the pending writes are reported; the others, s, stay pending.
Leave(p, r, s, d) ==
  /\ s \in Seq(Bufs) /\ d \in [Bufs -> Seq({"ok", "failed", "astray"})]
  /\ \A i, j \in 1..Len(s) : s[i] = s[j] => i = j
  /\ \A i \in 1..Len(s) : \E j \in 1..Len(p) : p[j] = s[i]
  /\ \A b \in Bufs : ~Contains(p, b) \/ Contains(s, b) => d[b] = r[b]
  /\ \A b \in Bufs : Contains(p, b) /\ ~Contains(s, b) => Len(d[b]) = Len(r[b]) + 1

LEMMA AreReported ==
  ASSUME NEW p, NEW q, NEW a, NEW r, NEW s, NEW d, Writes(p, q, a, r), Leave(p, r, s, d)
  PROVE  Writes(s, q, a, d)
<1> USE DEF Leave
<1>1. \A i \in 1..Len(s) : s[i] \in a
  <2>1. \A i \in 1..Len(p) : p[i] \in a
    BY DEF Writes
  <2> QED BY <2>1
<1>2. \A i \in 1..Len(q), j \in 1..Len(s) : q[i].op = "send" => q[i].buf # s[j]
  <2>1. \A i \in 1..Len(q), j \in 1..Len(p) : q[i].op = "send" => q[i].buf # p[j]
    BY DEF Writes
  <2> QED BY <2>1
<1>3. \A b \in Bufs : Contains(s, b) => Contains(p, b)
  BY DEF Contains
<1>4. \A b \in Bufs : Contains(p, b) => b \in a
  BY DEF Contains, Writes
<1>5. \A b \in Bufs \ a : d[b] = <<>>
  <2>1. \A b \in Bufs \ a : r[b] = <<>>
    BY DEF Writes
  <2> QED BY <1>4, <2>1
<1>6. ASSUME NEW b \in a
      PROVE  Len(d[b]) = N(~Contains(s, b) /\ Op("send", b) \notin ToSet(q))
  <2>1. /\ b \in Bufs /\ q \in Seq(Ops)
        /\ Len(r[b]) = N(~Contains(p, b) /\ Op("send", b) \notin ToSet(q))
    BY DEF Writes
  <2>2. CASE Contains(p, b) /\ ~Contains(s, b)
    <3>1. Len(r[b]) = 0 /\ Len(d[b]) = 1
      <4>1. Len(d[b]) = Len(r[b]) + 1
        BY <2>1, <2>2
      <4>2. Len(r[b]) = 0
        BY <2>1, <2>2 DEF N
      <4> QED BY <4>1, <4>2
    <3>2. Op("send", b) \notin ToSet(q)
      <4>1. PICK j \in 1..Len(p) : p[j] = b
        BY <2>2 DEF Contains
      <4>2. \A i \in 1..Len(q) : q[i].op = "send" => q[i].buf # p[j]
        BY DEF Writes
      <4>3. \A i \in 1..Len(q) : q[i] # Op("send", b)
        BY <4>1, <4>2 DEF Op
      <4> QED BY <2>1, <4>3, InQueue
    <3> QED BY <2>2, <3>1, <3>2 DEF N
  <2>3. CASE ~(Contains(p, b) /\ ~Contains(s, b))
    <3>1. d[b] = r[b] /\ (Contains(s, b) <=> Contains(p, b))
      BY <1>3, <2>1, <2>3
    <3> QED BY <2>1, <3>1
  <2> QED BY <2>2, <2>3
<1>7. /\ q \in Seq(Ops) /\ a \in SUBSET Bufs
      /\ \A i, j \in 1..Len(q) : q[i].op = "send" /\ q[i] = q[j] => i = j
      /\ \A i \in 1..Len(q) : q[i].op = "send" => q[i].buf \in a
  BY DEF Writes
<1> QED BY <1>1, <1>2, <1>5, <1>6, <1>7 DEF Writes

\* The variables of WriteInv, where the service begins no write.
LEMMA WritesKept ==
  ASSUME Writes(pending', queue', accepted', reports'), pc' # "write"
  PROVE  WriteInv'
BY DEF WriteInv

LEMMA WritesStayPut ==
  ASSUME WriteInv, UNCHANGED <<pending, accepted, reports, queue>>,
         pc' = "write" => pc = "write" /\ arg' = arg
  PROVE  WriteInv'
BY DEF WriteInv

LEMMA WritesStayBehind ==
  ASSUME WriteInv, UNCHANGED <<pending, accepted, reports>>,
         pc' = "write" => pc = "write" /\ arg' = arg,
         NEW o \in Ops, o.op # "send", queue' = Append(queue, o)
  PROVE  WriteInv'
<1>1. Writes(pending, Append(queue, o), accepted, reports)
  BY OthersJoin DEF WriteInv
<1> QED BY <1>1 DEF WriteInv

-----------------------------------------------------------------------------
(* The service's calls that neither take nor close the connection.           *)

LEMMA GainMoves ==
  ASSUME ConnectionInv, NEW next, NEW h, Gain(next, h)
  PROVE  Moves(mem, mem', 0, 1) /\ pc = "idle" /\ pc' = next /\ here' = h
<1>1. Kept(mem, bound # "no") /\ "service" \in Users
  BY DEF ConnectionInv, RefInv, Users
<1>2. mem' = AddRef(mem, "chan", "service")
  BY DEF Gain
<1> QED BY <1>1, <1>2, ChanAddMoves DEF Gain

LEMMA QueryKeeps ==
  ASSUME ConnectionInv, NEW h \in BOOLEAN, Query(h)
  PROVE  ConnectionInv'
<1> USE DEF connVars, chanVars, loopVars, timerVars, luaVars, history
<1>1. /\ TypeOK /\ OpenInv /\ SocketInv /\ QueueInv /\ WriteInv
      /\ Moves(mem, mem', 0, 1) /\ pc = "idle" /\ pc' = "query" /\ here' = h
  BY GainMoves DEF ConnectionInv, Query
<1>2. mem' \in Mems
  BY <1>1 DEF Moves, Kept
<1>3. TypeOK'
  BY <1>1, <1>2 DEF TypeOK, Query, PCs
<1>4. OpenInv' /\ SocketInv' /\ QueueInv'
  BY <1>1 DEF OpenInv, Closing, SocketInv, QueueInv, InHandleClose, Query
<1>5. InTime' => InTime
  BY DEF InTime, TimedOut, Query
<1>6. WriteInv'
  BY <1>1, WritesStayPut DEF Query
<1>7. ChanShares' = ChanShares + 1
  <2>1. ServiceShare' = ServiceShare + 1
    BY <1>1 DEF ServiceShare, Closing, Gained, N, Query, TypeOK
  <2>2. BindShare' = BindShare /\ TimerShare' = TimerShare
    BY DEF BindShare, TimerShare, Query
  <2> QED BY <1>1, <2>1, <2>2, SharesAreInts DEF ChanShares
<1>8. ConnShares' = ConnShares + 0
  <2>1. LoopShare' = LoopShare
    BY DEF LoopShare, ConnSurplus, InHandleClose, Query
  <2>2. TakenShare' = TakenShare
    BY <1>1 DEF TakenShare, Query
  <2> QED BY <1>1, <2>1, <2>2, SharesAreInts DEF ConnShares, Query
<1> QED BY <1>1, <1>3, <1>4, <1>5, <1>6, <1>7, <1>8, InvStep DEF Query

LEMMA QueryEndsKeeps ==
  ASSUME ConnectionInv, QueryEnds
  PROVE  ConnectionInv'
<1> USE DEF connVars, chanVars, loopVars, timerVars, luaVars, history
<1>1. /\ TypeOK /\ OpenInv /\ SocketInv /\ QueueInv /\ WriteInv /\ Kept(mem, bound # "no")
      /\ pc = "query" /\ pc' = "idle" /\ "service" \in Users
  BY DEF ConnectionInv, RefInv, QueryEnds, Users
<1>2. Moves(mem, mem', 0, -1)
  <2> DEFINE m == IF svcConn THEN Touch(mem, "conn", "stale") ELSE mem
  <2>1. Moves(mem, m, 0, 0)
    BY <1>1, StaleMoves, StillMoves
  <2>2. Kept(m, bound # "no")
    BY <2>1 DEF Moves
  <2>3. mem' = ChanRelease(m, "service")
    BY DEF QueryEnds
  <2> HIDE DEF m
  <2>4. Moves(m, mem', 0, -1)
    BY <1>1, <2>2, <2>3, ChanDropMoves
  <2>5. Moves(mem, mem', 0 + 0, 0 + (-1))
    BY <1>1, <2>1, <2>4, TwoMoveOn
  <2> QED BY <2>5
<1>3. mem' \in Mems
  BY <1>2 DEF Moves, Kept
<1>4. TypeOK'
  <2>0. here' \in BOOLEAN /\ svcConn' \in BOOLEAN
    BY Zenon DEF QueryEnds
  <2>1. /\ UNCHANGED <<connVars, chanVars, queue, loopPc, timerVars, arg, luaVars, accepted, reports>>
    BY DEF QueryEnds
  <2>2. TypeOK /\ pc' = "idle"
    BY <1>1
  <2> QED BY <1>3, <2>0, <2>1, <2>2 DEF TypeOK, PCs
<1>5. OpenInv' /\ SocketInv' /\ QueueInv'
  BY <1>1 DEF OpenInv, Closing, SocketInv, QueueInv, InHandleClose, QueryEnds
<1>6. InTime' => InTime
  BY DEF InTime, TimedOut, QueryEnds
<1>7. WriteInv'
  BY <1>1, WritesStayPut DEF QueryEnds
<1>8. ChanShares' = ChanShares + (-1)
  <2>1. ServiceShare' = ServiceShare - 1
    BY <1>1 DEF ServiceShare, Closing, Gained, N, QueryEnds, TypeOK
  <2>2. BindShare' = BindShare /\ TimerShare' = TimerShare
    BY DEF BindShare, TimerShare, QueryEnds
  <2> QED BY <1>1, <2>1, <2>2, SharesAreInts DEF ChanShares
<1>9. ConnShares' = ConnShares + 0
  <2>1. LoopShare' = LoopShare
    BY DEF LoopShare, ConnSurplus, InHandleClose, QueryEnds
  <2>2. TakenShare' = TakenShare
    BY <1>1 DEF TakenShare, QueryEnds
  <2> QED BY <1>1, <2>1, <2>2, SharesAreInts DEF ConnShares, QueryEnds
<1> QED BY <1>1, <1>2, <1>4, <1>5, <1>6, <1>7, <1>8, <1>9, InvStep DEF QueryEnds

LEMMA CallbackKeeps ==
  ASSUME ConnectionInv, NEW takes \in BOOLEAN, NEW h \in BOOLEAN, Callback(takes, h)
  PROVE  ConnectionInv'
<1> USE DEF connVars, loopVars, timerVars, history
<1>1. /\ TypeOK /\ OpenInv /\ SocketInv /\ QueueInv /\ WriteInv /\ Kept(mem, bound # "no")
      /\ pc = "callback" /\ pc' \in {"idle", "refuse"} /\ mem' = mem
      /\ closes' \in {closes, closes + 1} /\ chStatus' \in {chStatus, "Stopped"}
  BY DEF ConnectionInv, RefInv, Callback
<1>2. Moves(mem, mem', 0, 0)
  BY <1>1, StillMoves
<1>3. TypeOK'
  BY <1>1 DEF TypeOK, Callback, PCs
<1>4. OpenInv' /\ SocketInv' /\ QueueInv'
  BY <1>1 DEF OpenInv, Closing, SocketInv, QueueInv, InHandleClose, Callback
<1>5. InTime' => InTime
  <2>1. closes' <= 1 => closes <= 1
    BY <1>1 DEF TypeOK
  <2> QED BY <1>1, <2>1 DEF InTime, TimedOut, Callback
<1>6. WriteInv'
  BY <1>1, WritesStayPut DEF Callback
<1>7. ChanShares' = ChanShares + 0
  <2>1. ServiceShare' = ServiceShare
    <3>1. closes \in Int /\ extra \in Int /\ extra' = extra
      BY <1>1 DEF TypeOK, Callback
    <3>2. \/ pc' = "idle" /\ closes' = closes
          \/ pc' = "refuse" /\ closes' = closes + 1
      BY DEF Callback
    <3>3. N(Closing) = 0 /\ N(Gained) = 0 /\ N(Gained)' = 0
      BY <1>1 DEF Closing, Gained, N
    <3>4. CASE pc' = "idle" /\ closes' = closes
      <4>1. N(Closing)' = 0
        BY <3>4 DEF Closing, N
      <4> QED BY <3>1, <3>3, <3>4, <4>1 DEF ServiceShare
    <3>5. CASE pc' = "refuse" /\ closes' = closes + 1
      <4>1. N(Closing)' = 1
        BY <3>5 DEF Closing, N
      <4> QED BY <3>1, <3>3, <3>5, <4>1 DEF ServiceShare
    <3> QED BY <3>2, <3>4, <3>5
  <2>2. BindShare' = BindShare /\ TimerShare' = TimerShare
    BY DEF BindShare, TimerShare, Callback
  <2> QED BY <1>1, <2>1, <2>2, SharesAreInts DEF ChanShares
<1>8. ConnShares' = ConnShares + 0
  <2>1. LoopShare' = LoopShare
    BY DEF LoopShare, ConnSurplus, InHandleClose, Callback
  <2>2. TakenShare' = TakenShare
    BY <1>1 DEF TakenShare, Callback
  <2> QED BY <1>1, <2>1, <2>2, SharesAreInts DEF ConnShares, Callback
<1> QED BY <1>1, <1>2, <1>3, <1>4, <1>5, <1>6, <1>7, <1>8, InvStep DEF Callback

LEMMA BindKeeps ==
  ASSUME ConnectionInv, NEW h \in BOOLEAN, Bind(h)
  PROVE  ConnectionInv'
<1> USE DEF connVars, chanVars, loopVars, timerVars, luaVars, history
<1>1. /\ TypeOK /\ OpenInv /\ SocketInv /\ QueueInv /\ WriteInv
      /\ Moves(mem, mem', 0, 1) /\ pc = "idle" /\ pc' = "bound" /\ here' = h
  BY GainMoves DEF ConnectionInv, Bind
<1>2. mem' \in Mems
  BY <1>1 DEF Moves, Kept
<1>2a. chStatus = "Starting" /\ chStatus' = "Running" /\ bound = "no" /\ bound' = "no"
  BY <1>1 DEF Bind, OpenInv
<1>3. TypeOK'
  BY <1>1, <1>2 DEF TypeOK, Bind, PCs
<1>4. OpenInv' /\ SocketInv' /\ QueueInv'
  BY <1>1, <1>2a DEF OpenInv, Closing, SocketInv, QueueInv, InHandleClose, Bind
<1>5. InTime' => InTime
  BY <1>2a DEF InTime, TimedOut, Bind
<1>6. WriteInv'
  BY <1>1, WritesStayPut DEF Bind
<1>7. ChanShares' = ChanShares + 1
  <2>1. ServiceShare' = ServiceShare + 1
    BY <1>1 DEF ServiceShare, Closing, Gained, N, Bind, TypeOK
  <2>2. BindShare' = BindShare /\ TimerShare' = TimerShare
    BY <1>2a DEF BindShare, TimerShare, N, Bind
  <2> QED BY <1>1, <2>1, <2>2, SharesAreInts DEF ChanShares
<1>8. ConnShares' = ConnShares + 0
  <2>1. LoopShare' = LoopShare
    BY DEF LoopShare, ConnSurplus, InHandleClose, Bind
  <2>2. TakenShare' = TakenShare
    BY <1>1 DEF TakenShare, Bind
  <2>3. hConnection' = hConnection /\ queue' = queue
    BY DEF Bind
  <2> QED BY <1>1, <2>1, <2>2, <2>3, SharesAreInts DEF ConnShares
<1> QED BY <1>1, <1>3, <1>4, <1>5, <1>6, <1>7, <1>8, InvStep DEF Bind

LEMMA CloseNowKeeps ==
  ASSUME ConnectionInv, NEW h \in BOOLEAN, CloseNow(h)
  PROVE  ConnectionInv'
<1> USE DEF connVars, loopVars, timerVars, history
<1> DEFINE next == IF chStatus = "Stopped" THEN "released" ELSE "closeNow"
<1>1. /\ TypeOK /\ OpenInv /\ SocketInv /\ QueueInv /\ WriteInv
      /\ Moves(mem, mem', 0, 1) /\ pc = "idle" /\ pc' = next /\ here' = h
  BY GainMoves DEF ConnectionInv, CloseNow
<1>2. mem' \in Mems /\ pc' \in {"released", "closeNow"}
  BY <1>1 DEF Moves, Kept
<1> HIDE DEF next
<1>3. TypeOK'
  BY <1>1, <1>2 DEF TypeOK, CloseNow, PCs
<1>4. OpenInv' /\ SocketInv' /\ QueueInv'
  BY <1>1, <1>2 DEF OpenInv, Closing, SocketInv, QueueInv, InHandleClose, CloseNow
<1>5. InTime' => InTime
  <2>1. closes' <= 1 => closes <= 1
    BY <1>1 DEF TypeOK, CloseNow
  <2> QED BY <1>1, <2>1 DEF InTime, TimedOut, CloseNow
<1>6. WriteInv'
  BY <1>1, <1>2, WritesStayPut DEF CloseNow
<1>7. ChanShares' = ChanShares + 1
  <2>1. ServiceShare' = ServiceShare + 1
    <3>1. closes \in Int /\ extra \in Int /\ extra' = extra /\ closes' = closes + 1
      BY <1>1 DEF TypeOK, CloseNow
    <3>2. N(Closing) = 0 /\ N(Gained) = 0 /\ N(Gained)' = 1 /\ N(Closing)' = 1
      BY <1>1, <1>2 DEF Closing, Gained, N
    <3> QED BY <3>1, <3>2 DEF ServiceShare
  <2>2. BindShare' = BindShare /\ TimerShare' = TimerShare
    BY DEF BindShare, TimerShare, CloseNow
  <2> QED BY <1>1, <2>1, <2>2, SharesAreInts DEF ChanShares
<1>8. ConnShares' = ConnShares + 0
  <2>1. LoopShare' = LoopShare
    BY DEF LoopShare, ConnSurplus, InHandleClose, CloseNow
  <2>2. TakenShare' = TakenShare
    BY <1>1, <1>2 DEF TakenShare, CloseNow
  <2> QED BY <1>1, <2>1, <2>2, SharesAreInts DEF ConnShares, CloseNow
<1> QED BY <1>1, <1>3, <1>4, <1>5, <1>6, <1>7, <1>8, InvStep DEF CloseNow

LEMMA CloseSlowlyKeeps ==
  ASSUME ConnectionInv, NEW h \in BOOLEAN, CloseSlowly(h)
  PROVE  ConnectionInv'
<1> USE DEF connVars, loopVars, timerVars, history
<1> DEFINE next == IF chStatus \in {"Starting", "Running"} THEN "timer" ELSE "released"
<1>1. /\ TypeOK /\ OpenInv /\ SocketInv /\ QueueInv /\ WriteInv
      /\ Moves(mem, mem', 0, 1) /\ pc = "idle" /\ pc' = next /\ here' = h
  BY GainMoves DEF ConnectionInv, CloseSlowly
<1>2. mem' \in Mems
  BY <1>1 DEF Moves, Kept
<1>2a. /\ pc' \in {"released", "timer"}
       /\ pc' = "timer" => chStatus \in {"Starting", "Running"}
  BY <1>1
<1> HIDE DEF next
<1>3. TypeOK'
  BY <1>1, <1>2, <1>2a DEF TypeOK, CloseSlowly, PCs
<1>4. OpenInv' /\ SocketInv' /\ QueueInv'
  BY <1>1, <1>2a DEF OpenInv, Closing, SocketInv, QueueInv, InHandleClose, CloseSlowly
<1>5. InTime' => InTime
  <2>1. closes' <= 1 => closes <= 1
    BY <1>1 DEF TypeOK, CloseSlowly
  <2> QED BY <1>1, <2>1 DEF InTime, TimedOut, CloseSlowly
<1>6. WriteInv'
  BY <1>1, <1>2a, WritesStayPut DEF CloseSlowly
<1>7. ChanShares' = ChanShares + 1
  <2>1. ServiceShare' = ServiceShare + 1
    <3>1. closes \in Int /\ extra \in Int /\ extra' = extra /\ closes' = closes + 1
      BY <1>1 DEF TypeOK, CloseSlowly
    <3>2. N(Closing) = 0 /\ N(Gained) = 0 /\ N(Gained)' = 1 /\ N(Closing)' = 1
      BY <1>1, <1>2a DEF Closing, Gained, N
    <3> QED BY <3>1, <3>2 DEF ServiceShare
  <2>2. BindShare' = BindShare /\ TimerShare' = TimerShare
    BY DEF BindShare, TimerShare, CloseSlowly
  <2> QED BY <1>1, <2>1, <2>2, SharesAreInts DEF ChanShares
<1>8. ConnShares' = ConnShares + 0
  <2>1. LoopShare' = LoopShare
    BY DEF LoopShare, ConnSurplus, InHandleClose, CloseSlowly
  <2>2. TakenShare' = TakenShare
    BY <1>1, <1>2a DEF TakenShare, CloseSlowly
  <2> QED BY <1>1, <2>1, <2>2, SharesAreInts DEF ConnShares, CloseSlowly
<1> QED BY <1>1, <1>3, <1>4, <1>5, <1>6, <1>7, <1>8, InvStep DEF CloseSlowly

\* Two releases one after the other, or two references.
LEMMA TwoDrops ==
  ASSUME NEW m, Kept(m, bound # "no"), NEW who \in Users
  PROVE  /\ Moves(m, ChanRelease(ChanRelease(m, who), who), 0, -2)
         /\ Moves(m, ConnRelease(ConnRelease(m, who), who), -2, 0)
         /\ Moves(m, ChanRelease(ConnRelease(m, who), who), -1, -1)
         /\ Moves(m, ChanRelease(ChanRelease(AddRef(m, "chan", who), who), who), 0, -1)
<1> DEFINE c == ChanRelease(m, who)
           d == ConnRelease(m, who)
           a == AddRef(m, "chan", who)
<1>1. Moves(m, c, 0, -1) /\ Moves(m, d, -1, 0) /\ Moves(m, a, 0, 1)
  BY ChanDropMoves, ConnDropMoves, ChanAddMoves
<1>2. Kept(c, bound # "no") /\ Kept(d, bound # "no") /\ Kept(a, bound # "no")
  BY <1>1 DEF Moves
<1> HIDE DEF c, d, a
<1>3. /\ Moves(c, ChanRelease(c, who), 0, -1) /\ Moves(d, ConnRelease(d, who), -1, 0)
      /\ Moves(d, ChanRelease(d, who), 0, -1) /\ Moves(a, ChanRelease(a, who), 0, -1)
  BY <1>2, ChanDropMoves, ConnDropMoves
<1>4. Moves(m, ChanRelease(c, who), 0 + 0, (-1) + (-1))
  BY <1>1, <1>3, TwoMoveOn
<1>5. Moves(m, ConnRelease(d, who), (-1) + (-1), 0 + 0)
  BY <1>1, <1>3, TwoMoveOn
<1>6. Moves(m, ChanRelease(d, who), (-1) + 0, 0 + (-1))
  BY <1>1, <1>3, TwoMoveOn
<1>7. Moves(m, ChanRelease(a, who), 0 + 0, 1 + (-1))
  BY <1>1, <1>3, TwoMoveOn
<1> DEFINE b == ChanRelease(a, who)
<1>8. Moves(m, b, 0, 0)
  BY <1>7
<1>9. Kept(b, bound # "no")
  BY <1>8 DEF Moves
<1> HIDE DEF b
<1>10. Moves(b, ChanRelease(b, who), 0, -1)
  BY <1>9, ChanDropMoves
<1>11. Moves(m, ChanRelease(b, who), 0 + 0, 0 + (-1))
  BY <1>8, <1>10, TwoMoveOn
<1> QED BY <1>4, <1>5, <1>6, <1>11 DEF c, d, a, b

LEMMA CloseReturnsKeeps ==
  ASSUME ConnectionInv, CloseReturns
  PROVE  ConnectionInv'
<1> USE DEF connVars, chanVars, loopVars, timerVars, luaVars, history
<1>1. /\ TypeOK /\ OpenInv /\ SocketInv /\ QueueInv /\ WriteInv
      /\ pc \in {"released", "refused"} /\ pc' = "idle" /\ "service" \in Users
  BY DEF ConnectionInv, CloseReturns, Users
<1>2. Kept(mem, bound # "no")
  BY DEF ConnectionInv, RefInv
<1> DEFINE h == IF pc = "refused" THEN -1 ELSE -2
<1>3. Moves(mem, mem', 0, h)
  BY <1>1, <1>2, ChanDropMoves, TwoDrops DEF CloseReturns
<1>4. mem' \in Mems /\ here' \in BOOLEAN /\ h \in Int
  <2>1. mem' \in Mems
    BY <1>3 DEF Moves, Kept
  <2>2. here' \in BOOLEAN
    BY Zenon DEF CloseReturns
  <2> QED BY <2>1, <2>2
<1>5. TypeOK'
  <2>1. /\ UNCHANGED <<connVars, chanVars, queue, loopPc, timerVars, arg, svcConn, luaVars,
                       accepted, reports>>
    BY DEF CloseReturns
  <2> QED BY <1>1, <1>4, <2>1 DEF TypeOK, PCs
<1>6. OpenInv' /\ SocketInv' /\ QueueInv'
  BY <1>1 DEF OpenInv, Closing, SocketInv, QueueInv, InHandleClose, CloseReturns
<1>7. InTime' => InTime
  BY DEF InTime, TimedOut, CloseReturns
<1>8. WriteInv'
  BY <1>1, WritesStayPut DEF CloseReturns
<1>9. ChanShares' = ChanShares + h
  <2>1. ServiceShare' = ServiceShare + h
    <3>1. closes \in Int /\ extra \in Int /\ extra' = extra /\ closes' = closes
      BY <1>1 DEF TypeOK, CloseReturns
    <3>2. N(Closing) = 1 /\ N(Gained)' = 0 /\ N(Closing)' = 0
      BY <1>1 DEF Closing, Gained, N
    <3>3. N(Gained) = IF pc = "refused" THEN 0 ELSE 1
      BY <1>1 DEF Gained, N
    <3> QED BY <1>1, <3>1, <3>2, <3>3 DEF ServiceShare
  <2>2. BindShare' = BindShare /\ TimerShare' = TimerShare
    BY DEF BindShare, TimerShare, CloseReturns
  <2> QED BY <1>1, <1>4, <2>1, <2>2, SharesAreInts DEF ChanShares
<1>10. ConnShares' = ConnShares + 0
  <2>1. LoopShare' = LoopShare
    BY DEF LoopShare, ConnSurplus, InHandleClose, CloseReturns
  <2>2. TakenShare' = TakenShare
    BY <1>1 DEF TakenShare, CloseReturns
  <2> QED BY <1>1, <2>1, <2>2, SharesAreInts DEF ConnShares, CloseReturns
<1> HIDE DEF h
<1> QED BY <1>3, <1>4, <1>5, <1>6, <1>7, <1>8, <1>9, <1>10, InvStep DEF CloseReturns

LEMMA LuaAddrefKeeps ==
  ASSUME ConnectionInv, LuaAddref
  PROVE  ConnectionInv'
<1> USE DEF connVars, chanVars, loopVars, timerVars, svcVars, history
<1>1. /\ TypeOK /\ OpenInv /\ SocketInv /\ QueueInv /\ WriteInv
      /\ extra = 0 /\ extra' = 1 /\ "service" \in Users
  BY DEF ConnectionInv, LuaAddref, Users
<1>2. Kept(mem, bound # "no")
  BY DEF ConnectionInv, RefInv
<1>3. Moves(mem, mem', 0, 1)
  BY <1>1, <1>2, ChanAddMoves DEF LuaAddref
<1>4. mem' \in Mems
  BY <1>3 DEF Moves, Kept
<1>5. TypeOK'
  BY <1>1, <1>4 DEF TypeOK, LuaAddref
<1>6. OpenInv' /\ SocketInv' /\ QueueInv'
  BY <1>1 DEF OpenInv, Closing, SocketInv, QueueInv, InHandleClose, LuaAddref
<1>7. InTime' => InTime
  BY DEF InTime, TimedOut, LuaAddref
<1>8. WriteInv'
  BY <1>1, WritesStayPut DEF LuaAddref
<1>9. ChanShares' = ChanShares + 1
  <2>1. ServiceShare' = ServiceShare + 1
    <3>1. closes \in Int /\ closes' = closes /\ pc' = pc
      BY <1>1 DEF TypeOK, LuaAddref
    <3>2. N(Closing) \in {0, 1} /\ N(Gained) \in {0, 1}
      BY DEF N
    <3>3. N(Closing)' = N(Closing) /\ N(Gained)' = N(Gained)
      BY <3>1 DEF Closing, Gained
    <3> QED BY <1>1, <3>1, <3>2, <3>3 DEF ServiceShare
  <2>2. BindShare' = BindShare /\ TimerShare' = TimerShare
    BY DEF BindShare, TimerShare, LuaAddref
  <2> QED BY <1>1, <2>1, <2>2, SharesAreInts DEF ChanShares
<1>10. ConnShares' = ConnShares + 0
  <2>1. LoopShare' = LoopShare
    BY DEF LoopShare, ConnSurplus, InHandleClose, LuaAddref
  <2>2. TakenShare' = TakenShare
    BY DEF TakenShare, LuaAddref
  <2> QED BY <1>1, <2>1, <2>2, SharesAreInts DEF ConnShares, LuaAddref
<1> QED BY <1>3, <1>5, <1>6, <1>7, <1>8, <1>9, <1>10, InvStep DEF LuaAddref

LEMMA LuaReleaseKeeps ==
  ASSUME ConnectionInv, LuaRelease
  PROVE  ConnectionInv'
<1> USE DEF connVars, chanVars, loopVars, timerVars, svcVars, history
<1>1. /\ TypeOK /\ OpenInv /\ SocketInv /\ QueueInv /\ WriteInv
      /\ extra = 1 /\ extra' = 0 /\ "service" \in Users
  BY DEF ConnectionInv, LuaRelease, Users
<1>2. Kept(mem, bound # "no")
  BY DEF ConnectionInv, RefInv
<1>3. Moves(mem, mem', 0, -1)
  BY <1>1, <1>2, TwoDrops DEF LuaRelease
<1>4. mem' \in Mems
  BY <1>3 DEF Moves, Kept
<1>5. TypeOK'
  <2>1. UNCHANGED <<connVars, chanVars, queue, loopPc, timerVars, svcVars, closes, accepted, reports>>
    BY DEF LuaRelease
  <2> QED BY <1>1, <1>4, <2>1 DEF TypeOK
<1>6. OpenInv' /\ SocketInv' /\ QueueInv'
  BY <1>1 DEF OpenInv, Closing, SocketInv, QueueInv, InHandleClose, LuaRelease
<1>7. InTime' => InTime
  BY DEF InTime, TimedOut, LuaRelease
<1>8. WriteInv'
  BY <1>1, WritesStayPut DEF LuaRelease
<1>9. ChanShares' = ChanShares + (-1)
  <2>1. ServiceShare' = ServiceShare - 1
    <3>1. closes \in Int /\ closes' = closes /\ pc' = pc
      BY <1>1 DEF TypeOK, LuaRelease
    <3>2. N(Closing) \in {0, 1} /\ N(Gained) \in {0, 1}
      BY DEF N
    <3>3. N(Closing)' = N(Closing) /\ N(Gained)' = N(Gained)
      BY <3>1 DEF Closing, Gained
    <3> QED BY <1>1, <3>1, <3>2, <3>3 DEF ServiceShare
  <2>2. BindShare' = BindShare /\ TimerShare' = TimerShare
    BY DEF BindShare, TimerShare, LuaRelease
  <2> QED BY <1>1, <2>1, <2>2, SharesAreInts DEF ChanShares
<1>10. ConnShares' = ConnShares + 0
  <2>1. LoopShare' = LoopShare
    BY DEF LoopShare, ConnSurplus, InHandleClose, LuaRelease
  <2>2. TakenShare' = TakenShare
    BY DEF TakenShare, LuaRelease
  <2> QED BY <1>1, <2>1, <2>2, SharesAreInts DEF ConnShares, LuaRelease
<1> QED BY <1>3, <1>5, <1>6, <1>7, <1>8, <1>9, <1>10, InvStep DEF LuaRelease

-----------------------------------------------------------------------------
(* The calls, and the timer, that take the connection and close it.          *)

LEMMA StartTimerKeeps ==
  ASSUME ConnectionInv, StartTimer
  PROVE  ConnectionInv'
<1> USE DEF connVars, loopVars, luaVars, history
<1>1. /\ TypeOK /\ OpenInv /\ SocketInv /\ QueueInv /\ WriteInv
      /\ pc = "timer" /\ pc' = "ask" /\ "service" \in Users
      /\ timer' = "armed" /\ svcConn' = hConnection
  BY DEF ConnectionInv, StartTimer, Users
<1>2. Kept(mem, bound # "no")
  BY DEF ConnectionInv, RefInv
<1>3. Moves(mem, mem', 0, 1)
  BY <1>1, <1>2, ChanAddMoves DEF StartTimer
<1>4. mem' \in Mems /\ hTimer' \in BOOLEAN
  <2>1. hTimer' \in BOOLEAN
    BY Zenon DEF StartTimer
  <2> QED BY <1>3, <2>1 DEF Moves, Kept
<1>5. TypeOK'
  <2>1. UNCHANGED <<connVars, chStatus, hConnection, queue, loopPc, timerConn, arg, here, luaVars,
                    accepted, reports>>
    BY DEF StartTimer
  <2> QED BY <1>1, <1>4, <2>1 DEF TypeOK, PCs
<1>5a. timer = "none" /\ chStatus \in {"Stopping", "Stopped"} /\ ~timerConn
  BY <1>1 DEF OpenInv, Closing
<1>6. OpenInv' /\ SocketInv' /\ QueueInv'
  BY <1>1, <1>5a DEF OpenInv, Closing, SocketInv, QueueInv, InHandleClose, StartTimer, loopVars
<1>7. InTime' => InTime
  BY <1>1, <1>5a DEF InTime, TimedOut, StartTimer
<1>8. WriteInv'
  BY <1>1, WritesStayPut DEF StartTimer
<1>9. ChanShares' = ChanShares + 1
  <2>1. ServiceShare' = ServiceShare
    BY <1>1 DEF ServiceShare, Closing, Gained, StartTimer
  <2>2. BindShare' = BindShare
    BY DEF BindShare, StartTimer
  <2>3. TimerShare' = 1 /\ TimerShare = 0
    BY <1>1, <1>5a DEF TimerShare, N
  <2> QED BY <1>1, <2>1, <2>2, <2>3, SharesAreInts DEF ChanShares
<1>10. ConnShares' = ConnShares + 0
  <2>1. LoopShare' = LoopShare
    BY DEF LoopShare, ConnSurplus, InHandleClose, StartTimer, loopVars
  <2>2. TakenShare' = TakenShare
    BY <1>1 DEF TakenShare, N, StartTimer
  <2> QED BY <1>1, <2>1, <2>2, SharesAreInts DEF ConnShares, StartTimer
<1> QED BY <1>3, <1>5, <1>6, <1>7, <1>8, <1>9, <1>10, InvStep DEF StartTimer

LEMMA CloseNowTakesKeeps ==
  ASSUME ConnectionInv, CloseNowTakes
  PROVE  ConnectionInv'
<1> USE DEF connVars, luaVars, loopVars, history
<1>1. /\ TypeOK /\ OpenInv /\ SocketInv /\ QueueInv /\ WriteInv
      /\ pc \in {"closeNow", "refuse"} /\ pc' \in {"force", "refuseForce"}
      /\ pc' = "refuseForce" <=> pc = "refuse"
      /\ svcConn' = hConnection /\ mem' = mem
      /\ timer' = IF hTimer /\ timer = "armed" THEN "stopping" ELSE timer
  BY DEF ConnectionInv, CloseNowTakes
<1>2. Kept(mem, bound # "no")
  BY DEF ConnectionInv, RefInv
<1>3. Moves(mem, mem', 0, 0)
  BY <1>1, <1>2, StillMoves
<1>4. hTimer' \in BOOLEAN /\ hConnection' \in BOOLEAN /\ ~hTimer' /\ ~hConnection'
  BY Zenon DEF CloseNowTakes
<1>5. TypeOK'
  <2>1. UNCHANGED <<connVars, chStatus, queue, loopPc, timerConn, arg, here, luaVars,
                    accepted, reports, mem>>
    BY DEF CloseNowTakes
  <2> QED BY <1>1, <1>4, <2>1 DEF TypeOK, PCs
<1>5a. chStatus \in {"Stopping", "Stopped"}
  BY <1>1 DEF OpenInv, Closing
<1>6. OpenInv' /\ SocketInv' /\ QueueInv'
  <2>1. UNCHANGED <<connVars, chStatus, queue, loopVars, timerConn>>
    BY DEF CloseNowTakes
  <2> QED BY <1>1, <1>4, <1>5a, <2>1 DEF OpenInv, Closing, SocketInv, QueueInv, InHandleClose
<1>7. InTime' => InTime
  BY <1>1 DEF InTime, TimedOut, CloseNowTakes
<1>8. WriteInv'
  BY <1>1, WritesStayPut DEF CloseNowTakes
<1>9. ChanShares' = ChanShares + 0
  <2>1. ServiceShare' = ServiceShare
    BY <1>1 DEF ServiceShare, Closing, Gained, CloseNowTakes
  <2>2. BindShare' = BindShare
    BY DEF BindShare, CloseNowTakes
  <2>3. TimerShare' = TimerShare
    BY <1>1 DEF TimerShare, N
  <2> QED BY <1>1, <2>1, <2>2, <2>3, SharesAreInts DEF ChanShares
<1>10. ConnShares' = ConnShares + 0
  <2>1. LoopShare' = LoopShare
    BY DEF LoopShare, ConnSurplus, InHandleClose, CloseNowTakes
  <2>2. TakenShare = N(timerConn) /\ TakenShare' = N(timerConn) + N(hConnection)
    BY <1>1 DEF TakenShare, N, CloseNowTakes
  <2>3. N(hConnection)' = 0 /\ queue' = queue
    BY <1>4 DEF N, CloseNowTakes
  <2>4. N(hConnection) \in Int /\ N(timerConn) \in Int
    BY DEF N
  <2> QED BY <1>1, <2>1, <2>2, <2>3, <2>4, SharesAreInts DEF ConnShares
<1> QED BY <1>3, <1>5, <1>6, <1>7, <1>8, <1>9, <1>10, InvStep DEF CloseNowTakes

\* Whoever took the connection finds it alive, or closed.
LEMMA TakenIsAlive ==
  ASSUME ConnectionInv, TakenShare >= 1, iStatus # "Disconnected"
  PROVE  mem.conn > 0
<1>1. TypeOK /\ SocketInv /\ mem.conn = ConnShares
  BY DEF ConnectionInv, RefInv
<1>2. ~(~hSocket /\ bound # "yes")
  BY <1>1 DEF SocketInv
<1>3. LoopShare >= 0
  BY <1>2 DEF LoopShare, ConnSurplus, N
<1> QED BY <1>1, <1>3, SharesAreInts DEF ConnShares

\* eventConnection_forceClose
LEMMA ForceCloseMoves ==
  ASSUME ConnectionInv, TakenShare >= 1, NEW who \in Users, ForceClose(mem, who)
  PROVE  /\ iStatus' = "Disconnected"
         /\ \/ queue' = queue /\ Moves(mem, mem', -1, 0)
            \/ queue' = Append(queue, Op("forceClose", NoBuf)) /\ Moves(mem, mem', 0, 0)
<1>1. Kept(mem, bound # "no")
  BY DEF ConnectionInv, RefInv
<1>2. CASE iStatus = "Disconnected"
  BY <1>1, <1>2, ConnDropMoves DEF ForceClose
<1>3. CASE iStatus # "Disconnected"
  <2>1. mem.conn > 0
    BY <1>3, TakenIsAlive
  <2> DEFINE a == AddRef(mem, "conn", who)
  <2>2. Moves(mem, a, 1, 0)
    BY <1>1, <2>1, ConnAddMoves
  <2>3. Kept(a, bound # "no")
    BY <2>2 DEF Moves
  <2>4. mem' = ConnRelease(a, who) /\ queue' = Append(queue, Op("forceClose", NoBuf))
        /\ iStatus' = "Disconnected"
    BY <1>3 DEF ForceClose
  <2> HIDE DEF a
  <2>5. Moves(a, mem', -1, 0)
    BY <2>3, <2>4, ConnDropMoves
  <2>6. Moves(mem, mem', 1 + (-1), 0 + 0)
    BY <1>1, <2>2, <2>5, TwoMoveOn
  <2> QED BY <2>4, <2>6
<1> QED BY <1>2, <1>3

\* The queue and the writes of a step that may ask the loop for a close.
LEMMA AskingKeeps ==
  ASSUME TypeOK, QueueInv, WriteInv, bound' = bound, NEW what \in {"close", "forceClose"},
         queue' = queue \/ queue' = Append(queue, Op(what, NoBuf)),
         UNCHANGED <<pending, accepted, reports>>,
         pc' = "write" => pc = "write" /\ arg' = arg
  PROVE  /\ QueueInv' /\ WriteInv' /\ queue' \in Seq(Ops)
         /\ queue' = Append(queue, Op(what, NoBuf)) => Len(queue') = Len(queue) + 1
<1>1. queue \in Seq(Ops) /\ Op(what, NoBuf) \in Ops /\ Op(what, NoBuf).op \notin {"bind", "send"}
  BY OpsAreOps DEF TypeOK
<1>2. CASE queue' = queue
  <2>1. WriteInv'
    BY <1>2, WritesStayPut
  <2>2. QueueInv'
    BY <1>2 DEF QueueInv
  <2> QED BY <1>1, <1>2, <2>1, <2>2
<1>3. CASE queue' = Append(queue, Op(what, NoBuf))
  <2>1. WriteInv'
    BY <1>1, <1>3, WritesStayBehind
  <2>2. QueueInv'
    BY <1>1, <1>3, QueueGrows
  <2> QED BY <1>1, <1>3, <2>1, <2>2
<1> QED BY <1>2, <1>3

LEMMA CloseNowForcesKeeps ==
  ASSUME ConnectionInv, CloseNowForces
  PROVE  ConnectionInv'
<1> USE DEF chanVars, luaVars, loopVars, timerVars, history
<1>1. /\ TypeOK /\ OpenInv /\ SocketInv /\ QueueInv /\ WriteInv
      /\ pc \in {"force", "refuseForce"} /\ pc' \in {"refused", "released"}
      /\ pc' = "refused" <=> pc = "refuseForce"
  BY DEF ConnectionInv, CloseNowForces
<1>2. Kept(mem, bound # "no")
  BY DEF ConnectionInv, RefInv
<1>3. /\ UNCHANGED <<hSocket, attr, fnDisconnect, fnClose, pending, bound, chStatus, hConnection,
                     hTimer, loopPc, timer, timerConn, arg, here, closes, extra, accepted, reports>>
      /\ ~svcConn' /\ svcConn' \in BOOLEAN
  <2>1. ~svcConn' /\ svcConn' \in BOOLEAN
    BY Zenon DEF CloseNowForces
  <2> QED BY <2>1 DEF CloseNowForces
<1>4. PICK c \in {-1, 0} :
        /\ Moves(mem, mem', c, 0)
        /\ svcConn => iStatus' = "Disconnected"
        /\ ~svcConn => iStatus' = iStatus
        /\ IF svcConn /\ c = 0 THEN queue' = Append(queue, Op("forceClose", NoBuf))
                               ELSE queue' = queue
        /\ c = -1 => svcConn
  <2>1. CASE svcConn
    <3>1. ForceClose(mem, "service") /\ "service" \in Users
      BY <2>1 DEF CloseNowForces, Users
    <3>2. TakenShare >= 1
      BY <1>1, <2>1 DEF TakenShare, N
    <3> QED BY <2>1, <3>1, <3>2, ForceCloseMoves
  <2>2. CASE ~svcConn
    <3>1. mem' = mem /\ queue' = queue /\ iStatus' = iStatus
      BY <2>2 DEF CloseNowForces
    <3>2. Moves(mem, mem', 0, 0)
      BY <1>2, <3>1, StillMoves
    <3> QED BY <2>2, <3>1, <3>2
  <2> QED BY <2>1, <2>2
<1>5. mem' \in Mems /\ iStatus' \in {iStatus, "Disconnected"}
  BY <1>4 DEF Moves, Kept
<1>6. /\ QueueInv' /\ WriteInv' /\ queue' \in Seq(Ops)
      /\ queue' = Append(queue, Op("forceClose", NoBuf)) => Len(queue') = Len(queue) + 1
  BY <1>1, <1>3, <1>4, AskingKeeps
<1>7. TypeOK'
  BY <1>1, <1>3, <1>5, <1>6 DEF TypeOK, PCs
<1>8. chStatus \in {"Stopping", "Stopped"}
  BY <1>1 DEF OpenInv, Closing
<1>9. OpenInv' /\ SocketInv'
  BY <1>1, <1>3, <1>5, <1>8 DEF OpenInv, Closing, SocketInv, InHandleClose
<1>10. InTime' => InTime
  BY <1>3 DEF InTime, TimedOut
<1>11. ChanShares' = ChanShares + 0
  <2>1. ServiceShare' = ServiceShare
    BY <1>1, <1>3 DEF ServiceShare, Closing, Gained
  <2>2. BindShare' = BindShare /\ TimerShare' = TimerShare
    BY <1>3 DEF BindShare, TimerShare
  <2> QED BY <1>1, <2>1, <2>2, SharesAreInts DEF ChanShares
<1>12. ConnShares' = ConnShares + c
  <2>1. LoopShare' = LoopShare
    BY <1>3 DEF LoopShare, ConnSurplus, InHandleClose
  <2>2. TakenShare = N(timerConn) + N(svcConn) /\ TakenShare' = N(timerConn)
    BY <1>1, <1>3 DEF TakenShare, N
  <2>3. N(hConnection)' = N(hConnection)
    BY <1>3
  <2>4. N(timerConn) \in Int /\ N(svcConn) = IF svcConn THEN 1 ELSE 0
    BY DEF N
  <2>5. Len(queue') = Len(queue) + N(svcConn) + c
    <3>1. Len(queue) \in Int
      BY <1>1, SharesAreInts
    <3> QED BY <1>4, <1>6, <2>4, <3>1
  <2> QED BY <1>1, <2>1, <2>2, <2>3, <2>4, <2>5, SharesAreInts DEF ConnShares
<1> QED BY <1>3, <1>4, <1>6, <1>7, <1>9, <1>10, <1>11, <1>12, InvStep

LEMMA TimerRunKeeps ==
  ASSUME ConnectionInv, TimerRun, UNCHANGED <<iStatus, hConnection, timerConn, queue>>,
         UNCHANGED <<hSocket, attr, fnDisconnect, fnClose, pending, bound, chStatus, peer, wrShut,
                     loopVars, svcVars, luaVars, history>>
  PROVE  ConnectionInv'
<1> USE DEF luaVars, loopVars, svcVars, history
<1>1. /\ TypeOK /\ OpenInv /\ SocketInv /\ QueueInv /\ WriteInv
  BY DEF ConnectionInv
<1>2. Kept(mem, bound # "no") /\ "timer" \in Users
  BY DEF ConnectionInv, RefInv, Users
<1>3. PICK h \in {-1, 0} :
        /\ Moves(mem, mem', 0, h)
        /\ \/ h = 0 /\ timer = "armed" /\ timer' = "fired"
           \/ h = -1 /\ timer = "stopping" /\ timer' = "stopped"
        /\ hTimer' \in BOOLEAN /\ (hTimer' => hTimer)
  <2>1. CASE timer = "armed"
    <3>1. timer' = "fired" /\ mem' = mem
      BY <2>1 DEF TimerRun
    <3>2. hTimer' \in BOOLEAN /\ ~hTimer'
      BY <2>1, Zenon DEF TimerRun
    <3>3. Moves(mem, mem', 0, 0)
      BY <1>2, <3>1, StillMoves
    <3> QED BY <2>1, <3>1, <3>2, <3>3
  <2>2. CASE timer = "stopping"
    <3>1. timer' = "stopped" /\ mem' = ChanRelease(mem, "timer") /\ hTimer' = hTimer
      BY <2>2 DEF TimerRun
    <3>2. Moves(mem, mem', 0, -1)
      BY <1>2, <3>1, ChanDropMoves
    <3> QED BY <1>1, <2>2, <3>1, <3>2 DEF TypeOK
  <2> QED BY <2>1, <2>2 DEF TimerRun
<1>4. mem' \in Mems
  BY <1>3 DEF Moves, Kept
<1>5. TypeOK'
  BY <1>1, <1>3, <1>4 DEF TypeOK
<1>6. OpenInv' /\ SocketInv' /\ QueueInv'
  BY <1>1, <1>3 DEF OpenInv, Closing, SocketInv, QueueInv, InHandleClose
<1>7. InTime' => InTime
  BY <1>3 DEF InTime, TimedOut
<1>8. WriteInv'
  BY <1>1, WritesStayPut
<1>9. ChanShares' = ChanShares + h
  <2>1. ServiceShare' = ServiceShare /\ BindShare' = BindShare
    BY DEF ServiceShare, BindShare, Closing, Gained
  <2>2. TimerShare' = TimerShare + h
    BY <1>3 DEF TimerShare, N
  <2> QED BY <1>1, <2>1, <2>2, SharesAreInts DEF ChanShares
<1>10. ConnShares' = ConnShares + 0
  <2>1. LoopShare' = LoopShare /\ TakenShare' = TakenShare
    BY DEF LoopShare, ConnSurplus, InHandleClose, TakenShare
  <2> QED BY <1>1, <2>1, SharesAreInts DEF ConnShares
<1> QED BY <1>3, <1>5, <1>6, <1>7, <1>8, <1>9, <1>10, InvStep

LEMMA TimerTakesKeeps ==
  ASSUME ConnectionInv, TimerTakes, UNCHANGED <<iStatus, hTimer, mem, queue>>,
         UNCHANGED <<hSocket, attr, fnDisconnect, fnClose, pending, bound, chStatus, peer, wrShut,
                     loopVars, svcVars, luaVars, history>>
  PROVE  ConnectionInv'
<1> USE DEF luaVars, loopVars, svcVars, history
<1>1. /\ TypeOK /\ OpenInv /\ SocketInv /\ QueueInv /\ WriteInv
      /\ timer = "fired" /\ timer' = "took" /\ timerConn' = hConnection
  BY DEF ConnectionInv, TimerTakes
<1>1a. hConnection' \in BOOLEAN /\ ~hConnection'
  BY Zenon DEF TimerTakes
<1>2. Kept(mem, bound # "no")
  BY DEF ConnectionInv, RefInv
<1>3. Moves(mem, mem', 0, 0)
  BY <1>2, StillMoves
<1>4. ~timerConn /\ chStatus \in {"Stopping", "Stopped"}
  BY <1>1 DEF OpenInv, TypeOK
<1>5. TypeOK'
  BY <1>1, <1>1a DEF TypeOK
<1>6. OpenInv' /\ SocketInv' /\ QueueInv'
  BY <1>1, <1>1a, <1>4 DEF OpenInv, Closing, SocketInv, QueueInv, InHandleClose
<1>7. InTime' => InTime
  BY <1>1 DEF InTime, TimedOut
<1>8. WriteInv'
  BY <1>1, WritesStayPut
<1>9. ChanShares' = ChanShares + 0
  <2>1. ServiceShare' = ServiceShare /\ BindShare' = BindShare
    BY DEF ServiceShare, BindShare, Closing, Gained
  <2>2. TimerShare' = TimerShare
    BY <1>1 DEF TimerShare, N
  <2> QED BY <1>1, <2>1, <2>2, SharesAreInts DEF ChanShares
<1>10. ConnShares' = ConnShares + 0
  <2>1. LoopShare' = LoopShare
    BY DEF LoopShare, ConnSurplus, InHandleClose
  <2> DEFINE s == N(svcConn /\ pc \in {"force", "refuseForce"})
  <2>2. N(timerConn) = 0 /\ N(timerConn)' = N(hConnection) /\ s \in Int /\ s' = s
    BY <1>1, <1>4 DEF N
  <2>3. TakenShare = N(timerConn) + s /\ TakenShare' = N(timerConn)' + s'
    BY DEF TakenShare
  <2>4. N(hConnection)' = 0
    BY <1>1a DEF N
  <2> HIDE DEF s
  <2> QED BY <1>1, <2>1, <2>2, <2>3, <2>4, SharesAreInts DEF ConnShares
<1> QED BY <1>3, <1>5, <1>6, <1>7, <1>8, <1>9, <1>10, InvStep

LEMMA TimerForcesKeeps ==
  ASSUME ConnectionInv, TimerCloses, timer = "took", UNCHANGED <<hTimer, hConnection>>,
         UNCHANGED <<hSocket, attr, fnDisconnect, fnClose, pending, bound, chStatus, peer, wrShut,
                     loopVars, svcVars, luaVars, history>>
  PROVE  ConnectionInv'
<1> USE DEF luaVars, loopVars, svcVars, history
<1>1. /\ TypeOK /\ OpenInv /\ SocketInv /\ QueueInv /\ WriteInv
      /\ timer = "took" /\ timer' = "closing"
  BY DEF ConnectionInv, TimerCloses
<1>2. Kept(mem, bound # "no")
  BY DEF ConnectionInv, RefInv
<1>3. ~timerConn' /\ timerConn' \in BOOLEAN
  BY <1>1, Zenon DEF TimerCloses
<1>4. PICK c \in {-1, 0} :
        /\ Moves(mem, mem', c, 0)
        /\ timerConn => iStatus' = "Disconnected"
        /\ ~timerConn => iStatus' = iStatus
        /\ IF timerConn /\ c = 0 THEN queue' = Append(queue, Op("forceClose", NoBuf))
                                 ELSE queue' = queue
        /\ c = -1 => timerConn
  <2>1. CASE timerConn
    <3>1. ForceClose(mem, "timer") /\ "timer" \in Users
      BY <1>1, <2>1 DEF TimerCloses, Users
    <3>2. TakenShare >= 1
      BY <1>1, <2>1 DEF TakenShare, N
    <3> QED BY <2>1, <3>1, <3>2, ForceCloseMoves
  <2>2. CASE ~timerConn
    <3>1. mem' = mem /\ queue' = queue /\ iStatus' = iStatus
      BY <1>1, <2>2 DEF TimerCloses
    <3>2. Moves(mem, mem', 0, 0)
      BY <1>2, <3>1, StillMoves
    <3> QED BY <2>2, <3>1, <3>2
  <2> QED BY <2>1, <2>2
<1>5. mem' \in Mems /\ iStatus' \in {iStatus, "Disconnected"}
  BY <1>4 DEF Moves, Kept
<1>6. /\ QueueInv' /\ WriteInv' /\ queue' \in Seq(Ops)
      /\ queue' = Append(queue, Op("forceClose", NoBuf)) => Len(queue') = Len(queue) + 1
  BY <1>1, <1>4, AskingKeeps
<1>7. TypeOK'
  BY <1>1, <1>3, <1>5, <1>6 DEF TypeOK
<1>8. chStatus \in {"Stopping", "Stopped"} /\ pc # "timer"
  BY <1>1 DEF OpenInv, TypeOK
<1>9. OpenInv' /\ SocketInv'
  BY <1>1, <1>3, <1>5, <1>8 DEF OpenInv, Closing, SocketInv, InHandleClose
<1>10. InTime' => InTime
  BY <1>1 DEF InTime, TimedOut
<1>11. ChanShares' = ChanShares + 0
  <2>1. ServiceShare' = ServiceShare /\ BindShare' = BindShare
    BY DEF ServiceShare, BindShare, Closing, Gained
  <2>2. TimerShare' = TimerShare
    BY <1>1 DEF TimerShare, N
  <2> QED BY <1>1, <2>1, <2>2, SharesAreInts DEF ChanShares
<1>12. ConnShares' = ConnShares + c
  <2>1. LoopShare' = LoopShare
    BY DEF LoopShare, ConnSurplus, InHandleClose
  <2> DEFINE s == N(svcConn /\ pc \in {"force", "refuseForce"})
  <2>2. N(timerConn)' = 0 /\ N(timerConn) = (IF timerConn THEN 1 ELSE 0) /\ s \in Int /\ s' = s
    BY <1>3 DEF N
  <2>3. TakenShare = N(timerConn) + s /\ TakenShare' = N(timerConn)' + s'
    BY DEF TakenShare
  <2> HIDE DEF s
  <2>4. Len(queue') = Len(queue) + N(timerConn) + c
    <3>1. Len(queue) \in Int
      BY <1>1, SharesAreInts
    <3> QED BY <1>4, <1>6, <2>2, <3>1
  <2> QED BY <1>1, <2>1, <2>2, <2>3, <2>4, SharesAreInts DEF ConnShares
<1> QED BY <1>4, <1>6, <1>7, <1>9, <1>10, <1>11, <1>12, InvStep

LEMMA TimerEndsKeeps ==
  ASSUME ConnectionInv, TimerCloses, timer # "took", UNCHANGED <<hTimer, hConnection>>,
         UNCHANGED <<hSocket, attr, fnDisconnect, fnClose, pending, bound, chStatus, peer, wrShut,
                     loopVars, svcVars, luaVars, history>>
  PROVE  ConnectionInv'
<1> USE DEF luaVars, loopVars, svcVars, history
<1>1. /\ TypeOK /\ OpenInv /\ SocketInv /\ QueueInv /\ WriteInv
      /\ timer = "closing" /\ timer' = "done" /\ "timer" \in Users
      /\ UNCHANGED <<timerConn, queue, iStatus>>
      /\ mem' = ChanRelease(ChanRelease(mem, "timer"), "timer")
  BY DEF ConnectionInv, TimerCloses, Users
<1>2. Kept(mem, bound # "no")
  BY DEF ConnectionInv, RefInv
<1>3. Moves(mem, mem', 0, -2)
  BY <1>1, <1>2, TwoDrops
<1>4. mem' \in Mems
  BY <1>3 DEF Moves, Kept
<1>5. TypeOK'
  BY <1>1, <1>4 DEF TypeOK
<1>6. OpenInv' /\ SocketInv' /\ QueueInv'
  BY <1>1 DEF OpenInv, Closing, SocketInv, QueueInv, InHandleClose
<1>7. InTime' => InTime
  BY <1>1 DEF InTime, TimedOut
<1>8. WriteInv'
  BY <1>1, WritesStayPut
<1>9. ChanShares' = ChanShares + (-2)
  <2>1. ServiceShare' = ServiceShare /\ BindShare' = BindShare
    BY DEF ServiceShare, BindShare, Closing, Gained
  <2>2. TimerShare' = -1 /\ TimerShare = 1
    BY <1>1 DEF TimerShare, N
  <2> QED BY <1>1, <2>1, <2>2, SharesAreInts DEF ChanShares
<1>10. ConnShares' = ConnShares + 0
  <2>1. LoopShare' = LoopShare /\ TakenShare' = TakenShare
    BY <1>1 DEF LoopShare, ConnSurplus, InHandleClose, TakenShare
  <2> QED BY <1>1, <2>1, SharesAreInts DEF ConnShares
<1> QED BY <1>3, <1>5, <1>6, <1>7, <1>8, <1>9, <1>10, InvStep

LEMMA TimerStepKeeps ==
  ASSUME ConnectionInv, TimerStep
  PROVE  ConnectionInv'
<1>1. CASE TimerRun /\ UNCHANGED <<iStatus, hConnection, timerConn, queue>>
  BY <1>1, TimerRunKeeps DEF TimerStep
<1>2. CASE TimerTakes /\ UNCHANGED <<iStatus, hTimer, mem, queue>>
  BY <1>2, TimerTakesKeeps DEF TimerStep
<1>3. CASE TimerCloses /\ UNCHANGED <<hTimer, hConnection>>
  <2>1. CASE timer = "took"
    BY <1>3, <2>1, TimerForcesKeeps DEF TimerStep
  <2>2. CASE timer # "took"
    BY <1>3, <2>2, TimerEndsKeeps DEF TimerStep
  <2> QED BY <2>1, <2>2
<1> QED BY <1>1, <1>2, <1>3 DEF TimerStep

\* The loop's own steps that change neither the counts nor the queue.
LEMMA QuietKeeps ==
  ASSUME ConnectionInv,
         UNCHANGED <<connVars, chanVars, queue, mem, loopPc, timerVars, svcVars, luaVars, accepted,
                     reports>>
  PROVE  ConnectionInv'
<1> USE DEF connVars, chanVars, timerVars, svcVars, luaVars
<1>1. /\ TypeOK /\ OpenInv /\ SocketInv /\ QueueInv /\ WriteInv /\ RefInv /\ FaultInv
  BY DEF ConnectionInv
<1>2. OpenInv' /\ SocketInv' /\ QueueInv'
  BY <1>1 DEF OpenInv, Closing, SocketInv, QueueInv, InHandleClose
<1>3. WriteInv'
  BY <1>1, WritesStayPut
<1>4. FaultInv'
  BY <1>1 DEF FaultInv, InTime, TimedOut
<1>5. RefInv'
  <2>1. ChanShares' = ChanShares /\ ConnShares' = ConnShares
    BY DEF ChanShares, ServiceShare, BindShare, TimerShare, Closing, Gained,
           ConnShares, LoopShare, ConnSurplus, InHandleClose, TakenShare
  <2> QED BY <1>1, <2>1 DEF RefInv, Kept, Owned
<1>6. TypeOK'
  BY <1>1 DEF TypeOK
<1> QED BY <1>1, <1>2, <1>3, <1>4, <1>5, <1>6 DEF ConnectionInv

LEMMA StopKeeps ==
  ASSUME ConnectionInv, Stop \/ \E p \in {"eof", "reset"} : PeerLeaves(p)
  PROVE  ConnectionInv'
<1>1. CASE Stop
  <2>1. UNCHANGED <<connVars, chanVars, queue, mem, loopPc, timerVars, svcVars, luaVars, accepted,
                    reports>>
    BY <1>1 DEF Stop, history
  <2> QED BY <2>1, QuietKeeps
<1>2. CASE \E p \in {"eof", "reset"} : PeerLeaves(p)
  <2>1. UNCHANGED <<connVars, chanVars, queue, mem, loopPc, timerVars, svcVars, luaVars, accepted,
                    reports>>
    BY <1>2 DEF PeerLeaves, history, loopVars
  <2> QED BY <2>1, QuietKeeps
<1> QED BY <1>1, <1>2

LEMMA CloseAsksKeeps ==
  ASSUME ConnectionInv, CloseAsks
  PROVE  ConnectionInv'
<1> USE DEF chanVars, luaVars, loopVars, timerVars, history
<1>1. /\ TypeOK /\ OpenInv /\ SocketInv /\ QueueInv /\ WriteInv
      /\ pc = "ask" /\ pc' = "released"
  BY DEF ConnectionInv, CloseAsks
<1>2. Kept(mem, bound # "no")
  BY DEF ConnectionInv, RefInv
<1>3. /\ UNCHANGED <<hSocket, attr, fnDisconnect, fnClose, pending, bound, chStatus, hConnection,
                     hTimer, loopPc, timer, timerConn, arg, here, closes, extra, accepted, reports>>
      /\ svcConn' \in BOOLEAN
  <2>1. svcConn' \in BOOLEAN
    BY Zenon DEF CloseAsks
  <2> QED BY <2>1 DEF CloseAsks
<1> DEFINE m == IF svcConn THEN Touch(mem, "conn", "stale") ELSE mem
           asks == svcConn /\ iStatus = "Connected" /\ mem.conn > 0
<1>4. Moves(mem, m, 0, 0) /\ "service" \in Users
  BY <1>2, StaleMoves, StillMoves DEF Users
<1>5. Kept(m, bound # "no") /\ m.conn = mem.conn
  BY <1>2, <1>4 DEF Moves, Kept, Mems
<1>6. IF asks THEN /\ iStatus' = "Disconnecting" /\ mem' = AddRef(m, "conn", "service")
                   /\ queue' = Append(queue, Op("close", NoBuf))
              ELSE mem' = m /\ iStatus' = iStatus /\ queue' = queue
  BY DEF CloseAsks
<1> HIDE DEF m
<1>7. PICK c \in {0, 1} :
        /\ Moves(mem, mem', c, 0)
        /\ c = 1 => /\ queue' = Append(queue, Op("close", NoBuf))
                    /\ iStatus = "Connected" /\ iStatus' = "Disconnecting"
        /\ c = 0 => queue' = queue /\ iStatus' = iStatus
  <2>1. CASE asks
    <3>1. Moves(m, mem', 1, 0)
      BY <1>4, <1>5, <1>6, <2>1, ConnAddMoves
    <3>2. Moves(mem, mem', 0 + 1, 0 + 0)
      BY <1>2, <1>4, <3>1, TwoMoveOn
    <3> QED BY <1>6, <2>1, <3>2
  <2>2. CASE ~asks
    BY <1>4, <1>6, <2>2
  <2> QED BY <2>1, <2>2
<1>8. mem' \in Mems
  BY <1>7 DEF Moves, Kept
<1>9. /\ QueueInv' /\ WriteInv' /\ queue' \in Seq(Ops)
      /\ queue' = Append(queue, Op("close", NoBuf)) => Len(queue') = Len(queue) + 1
  BY <1>1, <1>3, <1>7, AskingKeeps
<1>10. TypeOK'
  BY <1>1, <1>3, <1>7, <1>8, <1>9 DEF TypeOK, PCs
<1>11. chStatus \in {"Stopping", "Stopped"}
  BY <1>1 DEF OpenInv, Closing
<1>12. OpenInv' /\ SocketInv'
  BY <1>1, <1>3, <1>7, <1>11 DEF OpenInv, Closing, SocketInv, InHandleClose
<1>13. InTime' => InTime
  BY <1>3 DEF InTime, TimedOut
<1>14. ChanShares' = ChanShares + 0
  <2>1. ServiceShare' = ServiceShare
    BY <1>1, <1>3 DEF ServiceShare, Closing, Gained
  <2>2. BindShare' = BindShare /\ TimerShare' = TimerShare
    BY <1>3 DEF BindShare, TimerShare
  <2> QED BY <1>1, <2>1, <2>2, SharesAreInts DEF ChanShares
<1>15. ConnShares' = ConnShares + c
  <2>1. LoopShare' = LoopShare
    BY <1>3 DEF LoopShare, ConnSurplus, InHandleClose
  <2>2. TakenShare' = TakenShare
    BY <1>1, <1>3 DEF TakenShare, N
  <2>3. N(hConnection)' = N(hConnection)
    BY <1>3
  <2>4. Len(queue') = Len(queue) + c
    <3>1. Len(queue) \in Int
      BY <1>1, SharesAreInts
    <3> QED BY <1>7, <1>9, <3>1
  <2> QED BY <1>1, <2>1, <2>2, <2>3, <2>4, SharesAreInts DEF ConnShares
<1> QED BY <1>3, <1>7, <1>9, <1>10, <1>12, <1>13, <1>14, <1>15, InvStep

LEMMA BindEndsKeeps ==
  ASSUME ConnectionInv, BindEnds
  PROVE  ConnectionInv'
<1> USE DEF chanVars, luaVars, loopVars, timerVars, history
<1>1. /\ TypeOK /\ OpenInv /\ SocketInv /\ QueueInv /\ WriteInv /\ RefInv /\ FaultInv
      /\ pc = "bound" /\ pc' = "idle"
  BY DEF ConnectionInv, BindEnds
<1>2. /\ bound = "no" /\ chStatus = "Running" /\ hSocket /\ hConnection /\ queue = <<>>
      /\ loopPc = "poll" /\ timer = "none" /\ ~timerConn /\ fnClose /\ attr = {"C"}
      /\ pending = <<>>
  BY <1>1 DEF OpenInv
<1>3. /\ UNCHANGED <<hSocket, fnDisconnect, fnClose, pending, chStatus, hConnection,
                     hTimer, loopPc, timer, timerConn, arg, svcConn, closes, extra, accepted,
                     reports>>
      /\ here' \in BOOLEAN
  <2>1. here' \in BOOLEAN
    BY Zenon DEF BindEnds
  <2> QED BY <2>1 DEF BindEnds
<1>4. /\ iStatus' = "Connected" /\ attr' \in SUBSET {"R", "W", "C"}
      /\ \/ bound' = "yes" /\ queue' = queue
         \/ bound' = "queued" /\ queue' = Append(queue, Op("bind", NoBuf))
  <2>1. CASE here
    BY <1>2, <2>1 DEF BindEnds, InLoopBind
  <2>2. CASE ~here
    BY <1>1, <2>2 DEF BindEnds, TypeOK
  <2> QED BY <2>1, <2>2
<1>5. mem.conn = 1
  <2>1. TakenShare = 0
    BY <1>1, <1>2 DEF TakenShare, N
  <2>2. LoopShare = 0
    BY <1>2 DEF LoopShare, ConnSurplus, InHandleClose, N
  <2>3. N(hConnection) = 1 /\ Len(queue) = 0
    BY <1>2 DEF N
  <2> QED BY <1>1, <2>1, <2>2, <2>3 DEF RefInv, ConnShares
<1>6. Kept(mem, bound # "no") /\ "service" \in Users
  BY <1>1 DEF RefInv, Users
<1>7. Moves(mem, mem', 1, 0)
  <2> DEFINE a == AddRef(mem, "conn", "service")
  <2>1. Moves(mem, a, 1, 0)
    BY <1>5, <1>6, ConnAddMoves
  <2>2. Kept(a, bound # "no")
    BY <2>1 DEF Moves
  <2>3. mem' = ChanRelease(AddRef(a, "chan", "service"), "service")
    BY DEF BindEnds
  <2> HIDE DEF a
  <2> DEFINE b == AddRef(a, "chan", "service")
  <2>4. Moves(a, b, 0, 1)
    BY <1>6, <2>2, ChanAddMoves
  <2>5. Kept(b, bound # "no")
    BY <2>4 DEF Moves
  <2>6. mem' = ChanRelease(b, "service")
    BY <2>3
  <2> HIDE DEF b
  <2>7. Moves(b, mem', 0, -1)
    BY <1>6, <2>5, <2>6, ChanDropMoves
  <2>8. Moves(mem, b, 1 + 0, 0 + 1)
    BY <1>6, <2>1, <2>4, TwoMoveOn
  <2>9. Moves(mem, b, 1, 1)
    BY <2>8
  <2>10. Moves(mem, mem', 1 + 0, 1 + (-1))
    BY <1>6, <2>7, <2>9, TwoMoveOn
  <2> QED BY <2>10
<1>8. mem' \in Mems /\ mem'.conn = 2 /\ Owned(mem') = Owned(mem) + 0
  BY <1>5, <1>7 DEF Moves, Kept
<1>9. queue' \in Seq(Ops) /\ WriteInv' /\ Len(queue') = N(bound' = "queued")
  <2>1. CASE bound' = "yes" /\ queue' = queue
    <3>1. WriteInv'
      BY <1>1, <1>3, <2>1, WritesStayPut
    <3>2. Len(queue') = N(bound' = "queued")
      BY <1>2, <2>1 DEF N
    <3> QED BY <1>1, <2>1, <3>1, <3>2 DEF TypeOK
  <2>2. CASE bound' = "queued" /\ queue' = Append(queue, Op("bind", NoBuf))
    <3>1. Op("bind", NoBuf) \in Ops /\ Op("bind", NoBuf).op # "send"
      BY OpsAreOps
    <3>2. WriteInv'
      BY <1>1, <1>3, <2>2, <3>1, WritesStayBehind
    <3>3. queue \in Seq(Ops) /\ Len(queue) = 0
      BY <1>1, <1>2 DEF TypeOK
    <3>4. queue' \in Seq(Ops) /\ Len(queue') = 1
      BY <2>2, <3>1, <3>3
    <3> QED BY <2>2, <3>2, <3>4 DEF N
  <2> QED BY <1>4, <2>1, <2>2
<1>10. TypeOK'
  BY <1>1, <1>3, <1>4, <1>8, <1>9 DEF TypeOK, PCs
<1>11. OpenInv'
  BY <1>1, <1>2, <1>3, <1>4 DEF OpenInv, Closing
<1>12. SocketInv'
  BY <1>2, <1>3, <1>4 DEF SocketInv, InHandleClose
<1>13. QueueInv'
  <2>1. CASE bound' = "yes" /\ queue' = queue
    BY <1>2, <2>1 DEF QueueInv
  <2>2. CASE bound' = "queued" /\ queue' = Append(queue, Op("bind", NoBuf))
    <3>1. queue' = <<Op("bind", NoBuf)>>
      BY <1>2, <2>2
    <3>2. Len(queue') = 1 /\ queue'[1].op = "bind" /\ queue' # <<>>
      BY <3>1 DEF Op
    <3> QED BY <2>2, <3>2 DEF QueueInv
  <2> QED BY <1>4, <2>1, <2>2
<1>14. ChanShares' = ChanShares + 0
  <2>1. ServiceShare' = ServiceShare - 1
    <3>1. closes \in Int /\ closes' = closes /\ extra \in Int /\ extra' = extra
      BY <1>1, <1>3 DEF TypeOK
    <3>2. N(Closing) = 0 /\ N(Closing)' = 0 /\ N(Gained) = 1 /\ N(Gained)' = 0
      BY <1>1 DEF Closing, Gained, N
    <3> QED BY <3>1, <3>2 DEF ServiceShare
  <2>2. BindShare = 0 /\ BindShare' = 1
    BY <1>2, <1>3, <1>4 DEF BindShare, N
  <2>3. TimerShare' = TimerShare
    BY <1>3 DEF TimerShare
  <2> QED BY <1>1, <2>1, <2>2, <2>3, SharesAreInts DEF ChanShares
<1>15. ConnShares' = 2
  <2>1. TakenShare' = 0
    BY <1>1, <1>2, <1>3 DEF TakenShare, N
  <2>2. LoopShare' = N(bound' = "yes")
    BY <1>2, <1>3 DEF LoopShare, ConnSurplus, InHandleClose, N
  <2>3. N(hConnection)' = 1
    BY <1>2, <1>3 DEF N
  <2>4. N(bound' = "yes") + N(bound' = "queued") = 1
    BY <1>4 DEF N
  <2>5. N(bound' = "yes") \in Int /\ N(bound' = "queued") \in Int
    BY DEF N
  <2> QED BY <1>9, <2>1, <2>2, <2>3, <2>4, <2>5 DEF ConnShares
<1>16. RefInv'
  <2>1. /\ mem' \in Mems /\ mem'.slot = ~mem'.userFree /\ ~mem'.userFree
    BY <1>2, <1>7 DEF Moves, Kept
  <2>2. ~(mem'.conn <= 0)
    BY <1>8
  <2>3. Kept(mem, bound # "no")'
    BY <2>1, <2>2 DEF Kept
  <2>4. Owned(mem)' = Owned(mem') /\ Owned(mem) = ChanShares
    BY <1>1 DEF Owned, RefInv
  <2> QED BY <1>8, <1>14, <1>15, <2>3, <2>4 DEF RefInv
<1>17. InTime' => InTime
  BY <1>2, <1>3 DEF InTime, TimedOut
<1>18. FaultInv'
  <2>1. Safe(mem, mem') /\ (mem.userFree => mem'.userFree)
    BY <1>7 DEF Moves
  <2> QED BY <1>1, <1>10, <1>11, <1>16, <1>17, <2>1, FaultStep
<1> QED BY <1>9, <1>10, <1>11, <1>12, <1>13, <1>16, <1>18 DEF ConnectionInv

-----------------------------------------------------------------------------
(* The writes of the service. *)

LEMMA WriteKeeps ==
  ASSUME ConnectionInv, NEW b \in Bufs, NEW h \in BOOLEAN, Write(b, h)
  PROVE  ConnectionInv'
<1> USE DEF connVars, chanVars, loopVars, timerVars, luaVars
<1>1. /\ TypeOK /\ OpenInv /\ SocketInv /\ QueueInv /\ WriteInv
      /\ Moves(mem, mem', 0, 1) /\ pc = "idle" /\ pc' = "write" /\ here' = h
  BY GainMoves DEF ConnectionInv, Write
<1>2. mem' \in Mems
  BY <1>1 DEF Moves, Kept
<1>2a. svcConn' \in BOOLEAN /\ arg' = b /\ b \notin accepted
  BY <1>1 DEF Write, TypeOK
<1>3. TypeOK'
  <2>1. UNCHANGED <<connVars, chanVars, queue, loopPc, timerVars, luaVars, accepted, reports>>
    BY DEF Write
  <2> QED BY <1>1, <1>2, <1>2a, <2>1 DEF TypeOK, PCs
<1>4. OpenInv' /\ SocketInv' /\ QueueInv'
  BY <1>1 DEF OpenInv, Closing, SocketInv, QueueInv, InHandleClose, Write
<1>5. InTime' => InTime
  BY DEF InTime, TimedOut, Write
<1>6. WriteInv'
  BY <1>1, <1>2a DEF WriteInv, Write
<1>7. ChanShares' = ChanShares + 1
  <2>1. ServiceShare' = ServiceShare + 1
    <3>1. closes \in Int /\ closes' = closes /\ extra \in Int /\ extra' = extra
      BY <1>1 DEF TypeOK, Write
    <3>2. N(Closing) = 0 /\ N(Closing)' = 0 /\ N(Gained) = 0 /\ N(Gained)' = 1
      BY <1>1 DEF Closing, Gained, N
    <3> QED BY <3>1, <3>2 DEF ServiceShare
  <2>2. BindShare' = BindShare /\ TimerShare' = TimerShare
    BY DEF BindShare, TimerShare, Write
  <2> QED BY <1>1, <2>1, <2>2, SharesAreInts DEF ChanShares
<1>8. ConnShares' = ConnShares + 0
  <2>1. LoopShare' = LoopShare
    BY DEF LoopShare, ConnSurplus, InHandleClose, Write
  <2>2. TakenShare' = TakenShare
    BY <1>1 DEF TakenShare, Write
  <2>3. hConnection' = hConnection /\ queue' = queue
    BY DEF Write
  <2> QED BY <1>1, <2>1, <2>2, <2>3, SharesAreInts DEF ConnShares
<1>9. bound' = bound
  BY DEF Write
<1> QED BY <1>1, <1>3, <1>4, <1>5, <1>6, <1>7, <1>8, <1>9, InvStep

\* A report does not say which of its outcomes it is.
LEMMA ReportIsReport ==
  ASSUME TypeOK, NEW b \in Bufs, NEW x \in {"ok", "failed"}
  PROVE  \E y \in {"ok", "failed", "astray"} : Report(b, x) = [reports EXCEPT ![b] = Append(reports[b], y)]
<1>1. CASE b \in unset
  BY <1>1 DEF Report, Reported
<1>2. CASE b \notin unset
  BY <1>2 DEF Report, Reported
<1> QED BY <1>1, <1>2

\* A write that is nowhere, sent: it waits, or it is reported.
LEMMA SendDataPuts ==
  ASSUME TypeOK, NEW b \in Bufs, NEW q, NEW a, Writes(pending, q, a, reports), b \notin a,
         NEW how, SendData(b, how)
  PROVE  /\ Writes(pending', q, a \union {b}, reports')
         /\ attr' \in SUBSET {"R", "W", "C"}
<1>1. ASSUME NEW x \in {"ok", "failed"}, reports' = Report(b, x), pending' = pending
      PROVE  Writes(pending', q, a \union {b}, reports')
  <2>1. PICK y \in {"ok", "failed", "astray"} :
          reports' = [reports EXCEPT ![b] = Append(reports[b], y)]
    BY <1>1, ReportIsReport
  <2>2. b \in Bufs \ a
    OBVIOUS
  <2>3. Writes(pending, q, a \union {b}, [reports EXCEPT ![b] = Append(reports[b], y)])
    BY <2>2, IsReported
  <2> QED BY <1>1, <2>1, <2>3
<1>2. CASE how = "wait"
  <2>1. /\ pending' = Append(pending, b) /\ attr' = attr \union {"W"} /\ reports' = reports
    BY <1>2 DEF SendData
  <2> QED BY <2>1, JoinsPending DEF TypeOK
<1>3. CASE how \in {"sent", "dropped"}
  <2>1. pending' = pending /\ attr' = attr /\ reports' = Report(b, "ok")
    BY <1>3 DEF SendData
  <2> QED BY <1>1, <2>1 DEF TypeOK
<1>4. CASE how = "failed"
  <2>1. pending' = pending /\ attr' = {"C"} /\ reports' = Report(b, "failed")
    BY <1>4 DEF SendData
  <2> QED BY <1>1, <2>1
<1> QED BY <1>2, <1>3, <1>4 DEF SendData

LEMMA WriteEndsKeeps ==
  ASSUME ConnectionInv, NEW how \in How, WriteEnds(how)
  PROVE  ConnectionInv'
<1> USE DEF chanVars, luaVars, loopVars, timerVars
<1>1. /\ TypeOK /\ OpenInv /\ SocketInv /\ QueueInv /\ WriteInv
      /\ pc = "write" /\ pc' = "idle" /\ arg \in Bufs \ accepted
      /\ Writes(pending, queue, accepted, reports)
  BY DEF ConnectionInv, WriteEnds, WriteInv
<1>2. Kept(mem, bound # "no")
  BY DEF ConnectionInv, RefInv
<1>3. /\ UNCHANGED <<iStatus, hSocket, fnDisconnect, fnClose, bound, chStatus, hConnection,
                     hTimer, loopPc, timer, timerConn, closes, extra>>
      /\ here' \in BOOLEAN /\ svcConn' \in BOOLEAN /\ arg' = NoBuf
  <2>1. here' \in BOOLEAN /\ svcConn' \in BOOLEAN
    BY Zenon DEF WriteEnds
  <2> QED BY <2>1 DEF WriteEnds
<1> DEFINE m == IF svcConn THEN Touch(mem, "conn", "stale") ELSE mem
           sends == svcConn /\ iStatus = "Connected" /\ mem.conn > 0
<1>4. Moves(mem, m, 0, 0) /\ "service" \in Users
  BY <1>2, StaleMoves, StillMoves DEF Users
<1>5. Kept(m, bound # "no") /\ m.conn = mem.conn
  BY <1>2, <1>4 DEF Moves, Kept, Mems
<1>6. \/ /\ ~sends
         /\ mem' = ChanRelease(m, "service")
         /\ UNCHANGED <<attr, pending, queue, accepted, reports>>
      \/ /\ sends /\ SendData(arg, how)
         /\ accepted' = accepted \union {arg}
         /\ mem' = ChanRelease(m, "service") /\ queue' = queue
      \/ /\ sends
         /\ accepted' = accepted \union {arg}
         /\ queue' = Append(queue, Op("send", arg))
         /\ mem' = ChanRelease(AddRef(m, "conn", "service"), "service")
         /\ UNCHANGED <<attr, pending, reports>>
  BY DEF WriteEnds
<1> HIDE DEF m
<1>7a. /\ \/ Moves(mem, mem', 0, -1) /\ queue' = queue
          \/ Moves(mem, mem', 1, -1) /\ queue' = Append(queue, Op("send", arg))
       /\ Writes(pending', queue', accepted', reports')
       /\ attr' \in SUBSET {"R", "W", "C"}
       /\ bound # "no" \/ (attr' = attr /\ pending' = pending /\ queue' = queue)
  <2>0. sends => bound # "no"
    BY <1>1 DEF OpenInv
  <2>1. CASE queue' = queue /\ mem' = ChanRelease(m, "service")
    <3>1. Moves(m, mem', 0, -1)
      BY <1>4, <1>5, <2>1, ChanDropMoves
    <3>2a. Moves(mem, mem', 0 + 0, 0 + (-1))
      BY <1>2, <1>4, <3>1, TwoMoveOn
    <3>2. Moves(mem, mem', 0, -1)
      BY <3>2a
    <3>3. CASE UNCHANGED <<attr, pending, queue, accepted, reports>>
      <4>1. attr' \in SUBSET {"R", "W", "C"} /\ attr' = attr /\ pending' = pending
        BY <1>1, <3>3 DEF TypeOK
      <4>2. Writes(pending', queue', accepted', reports')
        BY <1>1, <3>3
      <4> QED BY <2>1, <3>2, <4>1, <4>2
    <3>4. CASE sends /\ SendData(arg, how) /\ accepted' = accepted \union {arg}
      <4>1. Writes(pending', queue, accepted \union {arg}, reports') /\ attr' \in SUBSET {"R", "W", "C"}
        BY <1>1, <3>4, SendDataPuts
      <4> QED BY <2>0, <2>1, <3>2, <3>4, <4>1
    <3>5. CASE sends /\ UNCHANGED <<attr, pending, reports>> /\ accepted' = accepted \union {arg}
               /\ queue' = Append(queue, Op("send", arg))
      <4>1. queue \in Seq(Ops) /\ Op("send", arg) \in Ops
        BY <1>1, OpsAreOps DEF TypeOK
      <4>2. Len(queue') = Len(queue) + 1 /\ Len(queue) \in Nat
        BY <3>5, <4>1
      <4> QED BY <2>1, <4>2
    <3> QED BY <1>6, <3>3, <3>4, <3>5
  <2>2. CASE /\ sends
             /\ accepted' = accepted \union {arg}
             /\ queue' = Append(queue, Op("send", arg))
             /\ mem' = ChanRelease(AddRef(m, "conn", "service"), "service")
             /\ UNCHANGED <<attr, pending, reports>>
    <3> DEFINE a == AddRef(m, "conn", "service")
    <3>1. Moves(m, a, 1, 0)
      BY <1>4, <1>5, <2>2, ConnAddMoves
    <3>2. Kept(a, bound # "no") /\ mem' = ChanRelease(a, "service")
      BY <2>2, <3>1 DEF Moves
    <3> HIDE DEF a
    <3>3. Moves(a, mem', 0, -1)
      BY <1>4, <3>2, ChanDropMoves
    <3>4. Moves(mem, a, 0 + 1, 0 + 0)
      BY <1>2, <1>4, <3>1, TwoMoveOn
    <3>5. Moves(mem, a, 1, 0)
      BY <3>4
    <3>6. Moves(mem, mem', 1 + 0, 0 + (-1))
      BY <1>2, <3>3, <3>5, TwoMoveOn
    <3>7. Writes(pending, Append(queue, Op("send", arg)), accepted \union {arg}, reports)
      BY <1>1, JoinsQueue
    <3>8. attr' \in SUBSET {"R", "W", "C"}
      BY <1>1, <2>2 DEF TypeOK
    <3>9. Writes(pending', queue', accepted', reports')
      BY <2>2, <3>7
    <3>10. Moves(mem, mem', 1, -1)
      BY <3>6
    <3> QED BY <2>0, <2>2, <3>8, <3>9, <3>10
  <2> QED BY <1>6, <2>1, <2>2
<1>7. PICK c \in {0, 1} :
        /\ Moves(mem, mem', c, -1)
        /\ c = 1 => queue' = Append(queue, Op("send", arg))
        /\ c = 0 => queue' = queue
  <2>1. CASE Moves(mem, mem', 0, -1) /\ queue' = queue
    BY <2>1
  <2>2. CASE Moves(mem, mem', 1, -1) /\ queue' = Append(queue, Op("send", arg))
    BY <2>2
  <2> QED BY <1>7a, <2>1, <2>2
<1>8. mem' \in Mems
  BY <1>7 DEF Moves, Kept
<1>9. /\ pending' \in Seq(Bufs) /\ queue' \in Seq(Ops) /\ accepted' \in SUBSET Bufs
      /\ reports' \in [Bufs -> Seq({"ok", "failed", "astray"})]
  BY <1>7a DEF Writes
<1>10. TypeOK'
  BY <1>1, <1>3, <1>7a, <1>8, <1>9 DEF TypeOK, PCs
<1>11. OpenInv' /\ SocketInv'
  BY <1>1, <1>3, <1>7a DEF OpenInv, Closing, SocketInv, InHandleClose
<1>12. QueueInv'
  <2>1. CASE c = 0
    BY <1>1, <1>3, <1>7, <2>1 DEF QueueInv
  <2>2. CASE c = 1
    <3>1. Op("send", arg) \in Ops /\ Op("send", arg).op # "bind"
      BY <1>1, OpsAreOps
    <3> QED BY <1>1, <1>3, <1>7, <2>2, <3>1, QueueGrows
  <2> QED BY <2>1, <2>2
<1>13. InTime' => InTime
  BY <1>3 DEF InTime, TimedOut
<1>14. ChanShares' = ChanShares + (-1)
  <2>1. ServiceShare' = ServiceShare - 1
    <3>1. closes \in Int /\ closes' = closes /\ extra \in Int /\ extra' = extra
      BY <1>1, <1>3 DEF TypeOK
    <3>2. N(Closing) = 0 /\ N(Closing)' = 0 /\ N(Gained) = 1 /\ N(Gained)' = 0
      BY <1>1 DEF Closing, Gained, N
    <3> QED BY <3>1, <3>2 DEF ServiceShare
  <2>2. BindShare' = BindShare /\ TimerShare' = TimerShare
    BY <1>3 DEF BindShare, TimerShare
  <2> QED BY <1>1, <2>1, <2>2, SharesAreInts DEF ChanShares
<1>15. ConnShares' = ConnShares + c
  <2>1. LoopShare' = LoopShare
    BY <1>3 DEF LoopShare, ConnSurplus, InHandleClose
  <2>2. TakenShare' = TakenShare
    BY <1>1, <1>3 DEF TakenShare, N
  <2>3. N(hConnection)' = N(hConnection)
    BY <1>3
  <2>4. Len(queue') = Len(queue) + c
    <3>1. queue \in Seq(Ops) /\ Op("send", arg) \in Ops
      BY <1>1, OpsAreOps DEF TypeOK
    <3> QED BY <1>7, <3>1
  <2> QED BY <1>1, <2>1, <2>2, <2>3, <2>4, SharesAreInts DEF ConnShares
<1>16. WriteInv'
  BY <1>1, <1>7a, WritesKept
<1> QED BY <1>3, <1>7, <1>10, <1>11, <1>12, <1>13, <1>14, <1>15, <1>16, InvStep

\* What a closing socket leaves behind is reported.
LEMMA DrainReports ==
  ASSUME TypeOK, NEW q, NEW a, Writes(pending, q, a, reports),
         \/ pending' = <<>> /\ Drain
         \/ UNCHANGED <<pending, reports>>
  PROVE  Writes(pending', q, a, reports')
<1>1. CASE UNCHANGED <<pending, reports>>
  BY <1>1
<1>2. CASE pending' = <<>> /\ Drain
  <2>1. reports' = [b \in Bufs |-> IF Contains(pending, b) THEN Reported(b, "failed") ELSE reports[b]]
    BY <1>2 DEF Drain
  <2>2. \A b \in Bufs : /\ Reported(b, "failed") \in Seq({"ok", "failed", "astray"})
                        /\ Len(Reported(b, "failed")) = Len(reports[b]) + 1
    <3> SUFFICES ASSUME NEW b \in Bufs
                 PROVE  /\ Reported(b, "failed") \in Seq({"ok", "failed", "astray"})
                        /\ Len(Reported(b, "failed")) = Len(reports[b]) + 1
      OBVIOUS
    <3>1. reports[b] \in Seq({"ok", "failed", "astray"})
      BY DEF TypeOK
    <3> DEFINE x == IF b \in unset THEN "astray" ELSE "failed"
    <3>2. x \in {"ok", "failed", "astray"} /\ Reported(b, "failed") = Append(reports[b], x)
      BY DEF Reported
    <3> HIDE DEF x
    <3> QED BY <3>1, <3>2
  <2>3. reports' \in [Bufs -> Seq({"ok", "failed", "astray"})]
    BY <2>1, <2>2 DEF TypeOK
  <2>4. \A b \in Bufs : ~Contains(<<>>, b)
    BY DEF Contains
  <2> DEFINE s == <<>>
  <2>5. s \in Seq(Bufs) /\ Len(s) = 0 /\ (\A b \in Bufs : ~Contains(s, b)) /\ pending' = s
    BY <1>2, <2>4
  <2> HIDE DEF s
  <2>6. /\ \A b \in Bufs : ~Contains(pending, b) \/ Contains(s, b) => reports'[b] = reports[b]
        /\ \A b \in Bufs : Contains(pending, b) /\ ~Contains(s, b) =>
             Len(reports'[b]) = Len(reports[b]) + 1
    BY <2>1, <2>2, <2>5
  <2>7. /\ \A i, j \in 1..Len(s) : s[i] = s[j] => i = j
        /\ \A i \in 1..Len(s) : \E j \in 1..Len(pending) : pending[j] = s[i]
    BY <2>5
  <2>8. Leave(pending, reports, s, reports')
    BY <2>3, <2>5, <2>6, <2>7 DEF Leave
  <2>9. Writes(s, q, a, reports')
    BY <2>8, AreReported
  <2> QED BY <2>5, <2>9
<1> QED BY <1>1, <1>2

-----------------------------------------------------------------------------
(* The loop: the end of handleClose. *)

LEMMA OnCloseKeeps ==
  ASSUME ConnectionInv, OnClose
  PROVE  ConnectionInv'
<1> USE DEF svcVars, luaVars, history
<1>1. /\ TypeOK /\ OpenInv /\ SocketInv /\ QueueInv /\ WriteInv
      /\ loopPc \in {"onClose", "onCloseOp"} /\ loopPc' \in {"final", "finalOp"}
      /\ loopPc' = "finalOp" <=> loopPc = "onCloseOp"
  BY DEF ConnectionInv, OnClose
<1>2. Kept(mem, bound # "no") /\ "loop" \in Users
  BY DEF ConnectionInv, RefInv, Users
<1>3. /\ UNCHANGED <<iStatus, hSocket, attr, fnDisconnect, pending, bound, chStatus, queue,
                     timerConn, pc, arg, here, svcConn, closes, extra, accepted, reports>>
  BY DEF OnClose
<1>4. fnClose => bound # "no"
  BY <1>1 DEF OpenInv
<1>5. ~(bound = "no" /\ chStatus \in {"Starting", "Running"})
  BY <1>1 DEF OpenInv
<1> DEFINE c == IF fnClose /\ hConnection THEN -1 ELSE 0
           h == IF fnClose THEN -1 ELSE 0
<1>6. /\ fnClose' = FALSE /\ fnClose' \in BOOLEAN
      /\ hConnection' \in BOOLEAN /\ hConnection' = (hConnection /\ ~fnClose)
      /\ hTimer' \in BOOLEAN /\ (hTimer' => hTimer)
  <2>1. CASE fnClose
    <3>1. fnClose' = FALSE /\ hConnection' = FALSE /\ hTimer' = FALSE
      BY <2>1, Zenon DEF OnClose
    <3> QED BY <2>1, <3>1, Zenon
  <2>2. CASE ~fnClose
    <3>1. fnClose' = fnClose /\ hConnection' = hConnection /\ hTimer' = hTimer
      BY <2>2 DEF OnClose
    <3>2. fnClose \in BOOLEAN /\ hConnection \in BOOLEAN /\ hTimer \in BOOLEAN
      BY <1>1 DEF TypeOK
    <3> QED BY <2>2, <3>1, <3>2, Zenon
  <2> QED BY <2>1, <2>2
<1>7. /\ timer' \in {timer, "stopping"} /\ (timer' # timer => timer = "armed")
  BY DEF OnClose
<1>8. Moves(mem, mem', c, h)
  <2>1. CASE fnClose /\ hConnection
    <3>1. mem' = ChanRelease(ConnRelease(mem, "loop"), "loop")
      BY <2>1 DEF OnClose
    <3> QED BY <1>2, <2>1, <3>1, TwoDrops
  <2>2. CASE fnClose /\ ~hConnection
    <3>1. mem' = ChanRelease(mem, "loop")
      BY <2>2 DEF OnClose
    <3> QED BY <1>2, <2>2, <3>1, ChanDropMoves
  <2>3. CASE ~fnClose
    <3>1. mem' = mem
      BY <2>3 DEF OnClose
    <3> QED BY <1>2, <2>3, <3>1, StillMoves
  <2> QED BY <2>1, <2>2, <2>3
<1>9. mem' \in Mems
  BY <1>8 DEF Moves, Kept
<1>10. TypeOK'
  BY <1>1, <1>3, <1>6, <1>7, <1>9 DEF TypeOK
<1>11. OpenInv' /\ SocketInv' /\ QueueInv'
  <2>1. timer = "none" /\ ~hTimer => timer' = "none" /\ ~hTimer'
    BY <1>6, <1>7
  <2>2. timer = "took" => timer' = "took"
    BY <1>7
  <2>3. ~fnClose'
    BY <1>6
  <2>4. bound = "no" => pc # "bound"
    BY <1>1, <1>5 DEF OpenInv
  <2>5. OpenInv'
    BY <1>1, <1>3, <1>5, <2>1, <2>2, <2>3, <2>4 DEF OpenInv, Closing
  <2>6. ~hSocket
    BY <1>1 DEF SocketInv, InHandleClose
  <2> QED BY <1>1, <1>3, <2>5, <2>6 DEF SocketInv, QueueInv, InHandleClose
<1>12. InTime' => InTime
  <2>1. TimedOut' <=> TimedOut
    BY <1>7 DEF TimedOut
  <2> QED BY <1>3, <2>1 DEF InTime
<1>13. WriteInv'
  BY <1>1, <1>3, WritesStayPut
<1>14. ChanShares' = ChanShares + h
  <2>1. ServiceShare' = ServiceShare
    BY <1>3 DEF ServiceShare, Closing, Gained
  <2>2. BindShare' = BindShare + h
    <3>1. BindShare' = 0
      BY <1>6 DEF BindShare, N
    <3>2. BindShare = IF fnClose THEN 1 ELSE 0
      BY <1>4 DEF BindShare, N
    <3> QED BY <3>1, <3>2
  <2>3. TimerShare' = TimerShare
    BY <1>7 DEF TimerShare, N
  <2> QED BY <1>1, <2>1, <2>2, <2>3, SharesAreInts DEF ChanShares
<1>15. ConnShares' = ConnShares + c
  <2>1. LoopShare' = LoopShare
    <3>1. InHandleClose /\ InHandleClose'
      BY <1>1 DEF InHandleClose
    <3>2. (loopPc \in {"opEnds", "onCloseOp", "finalOp"})' <=> loopPc \in {"opEnds", "onCloseOp", "finalOp"}
      BY <1>1
    <3> QED BY <1>3, <3>1, <3>2 DEF LoopShare, ConnSurplus, N
  <2>2. TakenShare' = TakenShare /\ Len(queue)' = Len(queue)
    BY <1>3 DEF TakenShare
  <2>3. N(hConnection)' = N(hConnection) + c
    <3>1. CASE hConnection /\ ~fnClose
      <4>1. hConnection'
        BY <1>6, <3>1
      <4> QED BY <3>1, <4>1 DEF N
    <3>2. CASE ~(hConnection /\ ~fnClose)
      <4>1. ~hConnection'
        BY <1>6, <3>2
      <4> QED BY <3>2, <4>1 DEF N
    <3> QED BY <3>1, <3>2
  <2> QED BY <1>1, <2>1, <2>2, <2>3, SharesAreInts DEF ConnShares
<1>16. c \in Int /\ h \in Int
  OBVIOUS
<1> HIDE DEF c, h
<1> QED BY <1>3, <1>8, <1>10, <1>11, <1>12, <1>13, <1>14, <1>15, <1>16, InvStep

LEMMA CloseEndsKeeps ==
  ASSUME ConnectionInv, CloseEnds
  PROVE  ConnectionInv'
<1> USE DEF connVars, chanVars, timerVars, svcVars, luaVars, history
<1>1. /\ TypeOK /\ OpenInv /\ SocketInv /\ QueueInv /\ WriteInv
      /\ loopPc \in {"final", "finalOp", "opEnds"} /\ loopPc' = "poll"
  BY DEF ConnectionInv, CloseEnds
<1>2. Kept(mem, bound # "no") /\ "loop" \in Users
  BY DEF ConnectionInv, RefInv, Users
<1>3. /\ UNCHANGED <<iStatus, hSocket, attr, fnDisconnect, fnClose, pending, bound, chStatus,
                     hConnection, hTimer, queue, timer, timerConn, pc, arg, here, svcConn,
                     closes, extra, accepted, reports>>
  BY DEF CloseEnds
<1> DEFINE c == IF loopPc = "finalOp" THEN -2 ELSE -1
<1>4. Moves(mem, mem', c, 0)
  <2>1. CASE loopPc = "finalOp"
    <3>1. mem' = ConnRelease(ConnRelease(mem, "loop"), "loop")
      BY <2>1 DEF CloseEnds
    <3> QED BY <1>2, <2>1, <3>1, TwoDrops
  <2>2. CASE loopPc # "finalOp"
    <3>1. mem' = ConnRelease(mem, "loop")
      BY <1>1, <2>2 DEF CloseEnds
    <3> QED BY <1>2, <2>2, <3>1, ConnDropMoves
  <2> QED BY <2>1, <2>2
<1>5. mem' \in Mems
  BY <1>4 DEF Moves, Kept
<1>6. TypeOK'
  BY <1>1, <1>3, <1>5 DEF TypeOK
<1>7. OpenInv' /\ SocketInv' /\ QueueInv'
  BY <1>1, <1>3 DEF OpenInv, Closing, SocketInv, QueueInv, InHandleClose
<1>8. InTime' => InTime
  BY <1>3 DEF InTime, TimedOut
<1>9. WriteInv'
  BY <1>1, <1>3, WritesStayPut
<1>10. ChanShares' = ChanShares + 0
  <2>1. ServiceShare' = ServiceShare /\ BindShare' = BindShare /\ TimerShare' = TimerShare
    BY <1>3 DEF ServiceShare, Closing, Gained, BindShare, TimerShare
  <2> QED BY <1>1, <2>1, SharesAreInts DEF ChanShares
<1>12. c \in Int
  OBVIOUS
<1>11. ConnShares' = ConnShares + c
  <2>1. LoopShare' = LoopShare + c
    <3>1. ~InHandleClose' /\ (loopPc = "opEnds" => ~InHandleClose)
      BY <1>1 DEF InHandleClose
    <3>2. loopPc # "opEnds" => InHandleClose /\ ~hSocket
      BY <1>1 DEF InHandleClose, SocketInv
    <3>3. LoopShare' = N(bound = "yes" /\ hSocket) - N(~hSocket /\ bound # "yes")
      BY <1>1, <1>3, <3>1 DEF LoopShare, ConnSurplus, N
    <3>4. CASE loopPc = "opEnds"
      <4>1. LoopShare = N(bound = "yes" /\ hSocket) - N(~hSocket /\ bound # "yes") + 1
        BY <3>1, <3>4 DEF LoopShare, ConnSurplus, N
      <4> QED BY <3>3, <3>4, <4>1 DEF N
    <3>5. CASE loopPc # "opEnds"
      <4>1. LoopShare = N(bound = "yes") + N(loopPc = "finalOp")
        BY <1>1, <3>2, <3>5 DEF LoopShare, ConnSurplus, N
      <4>2. LoopShare' = 0 - N(bound # "yes")
        BY <3>2, <3>3, <3>5 DEF N
      <4> QED BY <1>1, <3>5, <4>1, <4>2 DEF N
    <3> QED BY <3>4, <3>5
  <2>2. TakenShare' = TakenShare /\ Len(queue)' = Len(queue) /\ N(hConnection)' = N(hConnection)
    BY <1>3 DEF TakenShare
  <2>3. LoopShare \in Int /\ TakenShare \in Int /\ N(hConnection) \in Int /\ Len(queue) \in Int
    BY <1>1, SharesAreInts
  <2> QED BY <1>12, <2>1, <2>2, <2>3, SMTT(30) DEF ConnShares
<1> HIDE DEF c
<1> QED BY <1>3, <1>4, <1>6, <1>7, <1>8, <1>9, <1>10, <1>11, <1>12, InvStep

-----------------------------------------------------------------------------
(* The loop: what it takes from its queue. *)

\* The head of the queue, and the queue without it.
LEMMA HeadIsTaken ==
  ASSUME TypeOK, QueueInv, queue # <<>>, queue' = Tail(queue)
  PROVE  /\ Head(queue) \in Ops /\ queue' \in Seq(Ops)
         /\ Len(queue') = Len(queue) - 1 /\ Len(queue) \in Nat
         /\ Head(queue).op = "bind" <=> bound = "queued"
         /\ \A i \in 1..Len(queue') : queue'[i].op # "bind"
<1>1. queue \in Seq(Ops)
  BY DEF TypeOK
<1>2. /\ Len(queue') = Len(queue) - 1 /\ Len(queue) \in Nat \ {0} /\ queue' \in Seq(Ops)
      /\ \A i \in 1..Len(queue') : queue'[i] = queue[i + 1] /\ i + 1 \in 1..Len(queue) /\ i + 1 # 1
      /\ queue[1] = Head(queue) /\ 1 \in 1..Len(queue) /\ Head(queue) \in Ops
  BY <1>1
<1>3. \A i \in 1..Len(queue) : queue[i].op = "bind" <=> i = 1 /\ bound = "queued"
  BY DEF QueueInv
<1>4. Head(queue).op = "bind" <=> bound = "queued"
  BY <1>2, <1>3
<1>5. \A i \in 1..Len(queue') : queue'[i].op # "bind"
  BY <1>2, <1>3
<1> QED BY <1>2, <1>4, <1>5

\* A write is taken from the queue, and goes its way.
LEMMA LoopSendKeeps ==
  ASSUME ConnectionInv, loopPc = "poll", queue # <<>>, Head(queue).op = "send",
         queue' = Tail(queue), mem' = ConnRelease(mem, "loop"),
         Writes(pending', queue', accepted', reports'),
         attr' \in SUBSET {"R", "W", "C"}, fnDisconnect' \in BOOLEAN,
         bound # "no" \/ UNCHANGED <<attr, pending>>,
         UNCHANGED <<iStatus, hSocket, fnClose, bound, loopPc, chanVars, timerVars, svcVars,
                     luaVars, accepted>>
  PROVE  ConnectionInv'
<1> USE DEF chanVars, timerVars, svcVars, luaVars
<1>1. /\ TypeOK /\ OpenInv /\ SocketInv /\ QueueInv /\ WriteInv
  BY DEF ConnectionInv
<1>2. Kept(mem, bound # "no") /\ "loop" \in Users
  BY DEF ConnectionInv, RefInv, Users
<1>3. Moves(mem, mem', -1, 0)
  BY <1>2, ConnDropMoves
<1>4. mem' \in Mems
  BY <1>3 DEF Moves, Kept
<1>5. /\ queue' \in Seq(Ops) /\ Len(queue') = Len(queue) - 1 /\ Len(queue) \in Nat
      /\ bound # "queued" /\ \A i \in 1..Len(queue') : queue'[i].op # "bind"
  BY <1>1, HeadIsTaken
<1>6. pending' \in Seq(Bufs) /\ reports' \in [Bufs -> Seq({"ok", "failed", "astray"})]
  BY DEF Writes
<1>7. TypeOK'
  BY <1>1, <1>4, <1>5, <1>6 DEF TypeOK
<1>8. OpenInv'
  BY <1>1 DEF OpenInv, Closing
<1>9. SocketInv' /\ QueueInv'
  BY <1>1, <1>5 DEF SocketInv, QueueInv, InHandleClose
<1>10. InTime' => InTime
  BY DEF InTime, TimedOut
<1>11. WriteInv'
  BY <1>1 DEF WriteInv
<1>12. ChanShares' = ChanShares + 0
  <2>1. ServiceShare' = ServiceShare /\ BindShare' = BindShare /\ TimerShare' = TimerShare
    BY DEF ServiceShare, Closing, Gained, BindShare, TimerShare
  <2> QED BY <1>1, <2>1, SharesAreInts DEF ChanShares
<1>13. ConnShares' = ConnShares + (-1)
  <2>1. LoopShare' = LoopShare /\ TakenShare' = TakenShare /\ N(hConnection)' = N(hConnection)
    BY DEF LoopShare, ConnSurplus, InHandleClose, TakenShare
  <2> QED BY <1>1, <1>5, <2>1, SharesAreInts DEF ConnShares
<1> QED BY <1>3, <1>7, <1>8, <1>9, <1>10, <1>11, <1>12, <1>13, InvStep

\* The write is reported as failed: the connection is not connected, or the
\* queue is cancelled.
LEMMA SendFails ==
  ASSUME TypeOK, WriteInv, queue # <<>>, Head(queue).op = "send", queue' = Tail(queue),
         reports' = Report(Head(queue).buf, "failed"), UNCHANGED <<pending, accepted>>
  PROVE  Writes(pending', queue', accepted', reports')
<1> DEFINE b == Head(queue).buf
           a == accepted \ {b}
<1>1. b \in accepted /\ Writes(pending, Tail(queue), a, reports)
  BY HeadLeaves DEF WriteInv
<1>2. accepted \in SUBSET Bufs
  BY DEF TypeOK
<1>3. b \in Bufs \ a /\ a \union {b} = accepted
  BY <1>1, <1>2
<1> HIDE DEF a, b
<1>4. PICK y \in {"ok", "failed", "astray"} :
        Report(b, "failed") = [reports EXCEPT ![b] = Append(reports[b], y)]
  BY <1>3, ReportIsReport
<1>5. Writes(pending, Tail(queue), a \union {b}, [reports EXCEPT ![b] = Append(reports[b], y)])
  BY <1>1, <1>3, IsReported
<1>6. reports' = [reports EXCEPT ![b] = Append(reports[b], y)]
  BY <1>4 DEF b
<1> QED BY <1>3, <1>5, <1>6

\* The socket is closed for an operation of the queue, or only shut down.
LEMMA LoopCloseKeeps ==
  ASSUME ConnectionInv, loopPc = "poll", queue # <<>>, Head(queue).op \in {"close", "forceClose"},
         queue' = Tail(queue), UNCHANGED mem, UNCHANGED fnDisconnect,
         \/ CloseSocket("opEnds")
         \/ loopPc' = "opEnds" /\ UNCHANGED <<iStatus, attr, hSocket, pending, reports>>,
         UNCHANGED <<fnClose, bound, chanVars, timerVars, svcVars, luaVars, accepted>>
  PROVE  ConnectionInv'
<1> USE DEF chanVars, timerVars, svcVars, luaVars
<1>1. /\ TypeOK /\ OpenInv /\ SocketInv /\ QueueInv /\ WriteInv
  BY DEF ConnectionInv
<1>2. Kept(mem, bound # "no")
  BY DEF ConnectionInv, RefInv
<1>3. Moves(mem, mem', 0, 0)
  BY <1>2, StillMoves
<1>5. /\ queue' \in Seq(Ops) /\ Len(queue') = Len(queue) - 1 /\ Len(queue) \in Nat
      /\ bound # "queued" /\ \A i \in 1..Len(queue') : queue'[i].op # "bind"
  BY <1>1, HeadIsTaken
<1>6. Writes(pending, queue', accepted, reports)
  BY <1>1, HeadLeaves DEF WriteInv
<1>7. \/ /\ loopPc' = "opEnds" /\ UNCHANGED <<iStatus, attr, hSocket, pending, reports>>
      \/ /\ hSocket /\ ~hSocket' /\ hSocket' \in BOOLEAN
         /\ loopPc' = "onCloseOp" /\ iStatus' = "Disconnected" /\ attr' = {"C"}
         /\ pending' = <<>> /\ Drain
  <2>1. CASE loopPc' = "opEnds" /\ UNCHANGED <<iStatus, attr, hSocket, pending, reports>>
    BY <2>1
  <2>2. CASE CloseSocket("opEnds") /\ ~hSocket
    BY <2>2 DEF CloseSocket
  <2>3. CASE CloseSocket("opEnds") /\ hSocket
    <3>1. ~hSocket' /\ hSocket' \in BOOLEAN
      BY <2>3, Zenon DEF CloseSocket
    <3> QED BY <2>3, <3>1 DEF CloseSocket
  <2> QED BY <2>1, <2>2, <2>3
<1>8. Writes(pending', queue', accepted', reports')
  BY <1>1, <1>6, <1>7, DrainReports
<1>9. pending' \in Seq(Bufs) /\ reports' \in [Bufs -> Seq({"ok", "failed", "astray"})]
  BY <1>8 DEF Writes
<1>10a. /\ iStatus' \in {"Connecting", "Connected", "Disconnecting", "Disconnected"}
        /\ attr' \in SUBSET {"R", "W", "C"} /\ hSocket' \in BOOLEAN
        /\ loopPc' \in {"opEnds", "onCloseOp"}
  <2>1. CASE loopPc' = "opEnds" /\ UNCHANGED <<iStatus, attr, hSocket, pending, reports>>
    BY <1>1, <2>1 DEF TypeOK
  <2>2. CASE hSocket' \in BOOLEAN /\ loopPc' = "onCloseOp" /\ iStatus' = "Disconnected" /\ attr' = {"C"}
    BY <2>2
  <2> QED BY <1>7, <2>1, <2>2
<1>10. TypeOK'
  BY <1>1, <1>5, <1>9, <1>10a DEF TypeOK
<1>11. OpenInv'
  BY <1>1, <1>7 DEF OpenInv, Closing
<1>12. SocketInv' /\ QueueInv'
  BY <1>1, <1>5, <1>7 DEF SocketInv, QueueInv, InHandleClose
<1>13. InTime' => InTime
  BY DEF InTime, TimedOut
<1>14. WriteInv'
  BY <1>1, <1>8 DEF WriteInv
<1>15. ChanShares' = ChanShares + 0
  <2>1. ServiceShare' = ServiceShare /\ BindShare' = BindShare /\ TimerShare' = TimerShare
    BY DEF ServiceShare, Closing, Gained, BindShare, TimerShare
  <2> QED BY <1>1, <2>1, SharesAreInts DEF ChanShares
<1>16. ConnShares' = ConnShares + 0
  <2>1. TakenShare' = TakenShare /\ N(hConnection)' = N(hConnection)
    BY DEF TakenShare
  <2>2. LoopShare' = LoopShare + 1
    <3>1. ~InHandleClose
      BY DEF InHandleClose
    <3>2. LoopShare = N(bound = "yes" /\ hSocket) - N(~hSocket /\ bound # "yes")
      BY <3>1 DEF LoopShare, ConnSurplus, N
    <3>3. CASE loopPc' = "opEnds" /\ UNCHANGED <<iStatus, attr, hSocket, pending, reports>>
      <4>1. ~InHandleClose'
        BY <3>3 DEF InHandleClose
      <4>2. LoopShare' = N(bound = "yes" /\ hSocket) - N(~hSocket /\ bound # "yes") + 1
        BY <3>3, <4>1 DEF LoopShare, ConnSurplus, N
      <4> QED BY <3>2, <4>2
    <3>4. CASE hSocket /\ loopPc' = "onCloseOp"
      <4>1. InHandleClose'
        BY <3>4 DEF InHandleClose
      <4>2. LoopShare' = N(bound = "yes") + 1
        BY <3>4, <4>1 DEF LoopShare, ConnSurplus, N
      <4>3. LoopShare = N(bound = "yes")
        BY <3>2, <3>4 DEF N
      <4> QED BY <4>2, <4>3
    <3> QED BY <1>7, <3>3, <3>4
  <2> QED BY <1>1, <1>5, <2>1, <2>2, SharesAreInts DEF ConnShares
<1> QED BY <1>3, <1>10, <1>11, <1>12, <1>13, <1>14, <1>15, <1>16, InvStep


\* The bind comes to the loop, which takes the connection on or is being stopped.
LEMMA LoopBindKeeps ==
  ASSUME ConnectionInv, loopPc = "poll", queue # <<>>, Head(queue).op = "bind",
         queue' = Tail(queue),
         \/ InLoopBind /\ UNCHANGED mem
         \/ bound' = "cancelled" /\ mem' = ConnRelease(mem, "loop") /\ UNCHANGED <<iStatus, attr>>,
         UNCHANGED <<hSocket, fnDisconnect, fnClose, pending, reports, loopPc, chanVars, timerVars,
                     svcVars, luaVars, accepted>>
  PROVE  ConnectionInv'
<1> USE DEF chanVars, timerVars, svcVars, luaVars
<1>1. /\ TypeOK /\ OpenInv /\ SocketInv /\ QueueInv /\ WriteInv
  BY DEF ConnectionInv
<1>2. Kept(mem, bound # "no") /\ "loop" \in Users
  BY DEF ConnectionInv, RefInv, Users
<1>3. /\ queue' \in Seq(Ops) /\ Len(queue') = Len(queue) - 1 /\ Len(queue) \in Nat
      /\ bound = "queued" /\ \A i \in 1..Len(queue') : queue'[i].op # "bind"
  BY <1>1, HeadIsTaken
<1>4. UNCHANGED <<hSocket, fnDisconnect, fnClose, pending, reports, loopPc, chStatus, hConnection,
                  hTimer, timer, timerConn, pc, arg, here, svcConn, closes, extra, accepted>>
  OBVIOUS
<1>5a. /\ attr' \in SUBSET {"R", "W", "C"}
       /\ \/ Moves(mem, mem', 0, 0) /\ bound' = "yes" /\ iStatus' = "Connected"
          \/ Moves(mem, mem', -1, 0) /\ bound' = "cancelled" /\ iStatus' = iStatus
  <2>0. attr \in SUBSET {"R", "W", "C"}
    BY <1>1 DEF TypeOK
  <2>1. CASE InLoopBind /\ UNCHANGED mem
    <3>1. Moves(mem, mem', 0, 0)
      BY <1>2, <2>1, StillMoves
    <3>2. bound' = "yes" /\ iStatus' = "Connected" /\ attr' \in SUBSET {"R", "W", "C"}
      BY <2>0, <2>1 DEF InLoopBind
    <3> QED BY <3>1, <3>2
  <2>2. CASE bound' = "cancelled" /\ mem' = ConnRelease(mem, "loop") /\ UNCHANGED <<iStatus, attr>>
    <3>1. Moves(mem, mem', -1, 0)
      BY <1>2, <2>2, ConnDropMoves
    <3> QED BY <2>0, <2>2, <3>1
  <2> QED BY <2>1, <2>2
<1> DEFINE c == IF bound' = "yes" THEN 0 ELSE -1
<1>5. /\ Moves(mem, mem', c, 0)
      /\ c = 0 => bound' = "yes" /\ iStatus' = "Connected"
      /\ c = -1 => bound' = "cancelled" /\ iStatus' = iStatus
      /\ attr' \in SUBSET {"R", "W", "C"}
  <2>1. CASE Moves(mem, mem', 0, 0) /\ bound' = "yes" /\ iStatus' = "Connected"
    BY <1>5a, <2>1
  <2>2. CASE Moves(mem, mem', -1, 0) /\ bound' = "cancelled" /\ iStatus' = iStatus
    BY <1>5a, <2>2
  <2> QED BY <1>5a, <2>1, <2>2
<1>5b. c \in {0, -1}
  OBVIOUS
<1> HIDE DEF c
<1>6. mem' \in Mems
  BY <1>5 DEF Moves, Kept
<1>7. /\ bound' \in {"yes", "cancelled"}
      /\ iStatus' \in {"Connecting", "Connected", "Disconnecting", "Disconnected"}
  BY <1>1, <1>5, <1>5b DEF TypeOK
<1>8. TypeOK'
  BY <1>1, <1>3, <1>4, <1>5, <1>6, <1>7 DEF TypeOK
<1>9. OpenInv'
  BY <1>1, <1>3, <1>4, <1>7 DEF OpenInv, Closing
<1>10. SocketInv'
  BY <1>1, <1>3, <1>4, <1>5, <1>5b DEF SocketInv, InHandleClose
<1>11. QueueInv'
  BY <1>3, <1>7 DEF QueueInv
<1>12. InTime' => InTime
  BY <1>3, <1>4 DEF InTime, TimedOut
<1>13. WriteInv'
  BY <1>1, <1>4, HeadLeaves DEF WriteInv
<1>14. ChanShares' = ChanShares + 0
  <2>1. ServiceShare' = ServiceShare /\ TimerShare' = TimerShare
    BY <1>4 DEF ServiceShare, Closing, Gained, TimerShare
  <2>2. BindShare' = BindShare
    BY <1>3, <1>4, <1>7 DEF BindShare
  <2> QED BY <1>1, <2>1, <2>2, SharesAreInts DEF ChanShares
<1>15. ConnShares' = ConnShares + c
  <2>1. TakenShare' = TakenShare /\ N(hConnection)' = N(hConnection)
    BY <1>4 DEF TakenShare
  <2>2. LoopShare' = LoopShare + 1 + c
    <3>1. ~InHandleClose /\ ~InHandleClose'
      BY <1>4 DEF InHandleClose
    <3>2. LoopShare = 0 - N(~hSocket)
      BY <1>3, <3>1 DEF LoopShare, ConnSurplus, N
    <3>3. CASE c = 0
      <4>1. LoopShare' = N(hSocket)
        BY <1>4, <1>5, <3>1, <3>3 DEF LoopShare, ConnSurplus, N
      <4> QED BY <3>2, <3>3, <4>1 DEF N
    <3>4. CASE c = -1
      <4>1. LoopShare' = 0 - N(~hSocket)
        BY <1>4, <1>5, <3>1, <3>4 DEF LoopShare, ConnSurplus, N
      <4>2. N(~hSocket) \in Int
        BY DEF N
      <4> QED BY <3>2, <3>4, <4>1, <4>2
    <3> QED BY <1>5b, <3>3, <3>4
  <2>3. /\ LoopShare \in Int /\ TakenShare \in Int /\ N(hConnection) \in Int
    BY <1>1, SharesAreInts
  <2> QED BY <1>3, <1>5b, <2>1, <2>2, <2>3 DEF ConnShares
<1>16. bound' # "no" <=> bound # "no"
  BY <1>3, <1>7
<1> QED BY <1>5, <1>5b, <1>8, <1>9, <1>10, <1>11, <1>12, <1>13, <1>14, <1>15, <1>16, InvStep

LEMMA LoopRunKeeps ==
  ASSUME ConnectionInv, NEW how \in How, LoopRun(how)
  PROVE  ConnectionInv'
<1> USE DEF history
<1>1. /\ TypeOK /\ OpenInv /\ QueueInv /\ WriteInv /\ Writes(pending, queue, accepted, reports)
      /\ loopPc = "poll" /\ queue # <<>> /\ queue' = Tail(queue)
      /\ UNCHANGED <<fnClose, chanVars, timerVars, svcVars, luaVars, accepted>>
  BY DEF ConnectionInv, LoopRun, WriteInv
<1> DEFINE o == Head(queue)
<1>2. CASE /\ o.op = "bind"
           /\ InLoopBind
           /\ UNCHANGED <<hSocket, fnDisconnect, pending, mem, reports, told, wrShut, loopPc>>
  BY <1>1, <1>2, LoopBindKeeps
<1>3. CASE /\ o.op = "send" /\ iStatus = "Connected"
           /\ SendData(o.buf, how)
           /\ IF how \in {"dropped", "failed"} THEN Disconnect ELSE UNCHANGED <<fnDisconnect, told>>
           /\ mem' = ConnRelease(mem, "loop")
           /\ UNCHANGED <<iStatus, hSocket, bound, wrShut, loopPc>>
  <2> DEFINE b == o.buf
             a == accepted \ {b}
  <2>1. b \in accepted /\ Writes(pending, Tail(queue), a, reports)
    BY <1>1, <1>3, HeadLeaves
  <2>2. accepted \in SUBSET Bufs
    BY <1>1 DEF TypeOK
  <2>3. b \in Bufs /\ b \notin a /\ a \union {b} = accepted
    BY <2>1, <2>2
  <2>4. SendData(b, how)
    BY <1>3
  <2>5. fnDisconnect' \in BOOLEAN
    <3>1. CASE how \in {"dropped", "failed"}
      BY <1>3, <3>1, Zenon DEF Disconnect
    <3>2. CASE how \notin {"dropped", "failed"}
      <4>1. fnDisconnect' = fnDisconnect
        BY <1>3, <3>2
      <4> QED BY <1>1, <4>1 DEF TypeOK
    <3> QED BY <3>1, <3>2
  <2>6. bound # "no"
    BY <1>1, <1>3 DEF OpenInv
  <2> HIDE DEF a, b
  <2>7. Writes(pending', Tail(queue), a \union {b}, reports') /\ attr' \in SUBSET {"R", "W", "C"}
    BY <1>1, <2>1, <2>3, <2>4, SendDataPuts
  <2>8. Writes(pending', queue', accepted', reports')
    BY <1>1, <2>3, <2>7
  <2> QED BY <1>1, <1>3, <2>5, <2>6, <2>7, <2>8, LoopSendKeeps
<1>4. CASE /\ o.op = "send" /\ iStatus # "Connected" /\ how = "failed"
           /\ reports' = Report(o.buf, "failed")
           /\ mem' = ConnRelease(mem, "loop")
           /\ UNCHANGED <<iStatus, hSocket, attr, fnDisconnect, pending, bound, told, wrShut, loopPc>>
  <2>1. Writes(pending', queue', accepted', reports')
    BY <1>1, <1>4, SendFails
  <2>2. attr' \in SUBSET {"R", "W", "C"} /\ fnDisconnect' \in BOOLEAN
    BY <1>1, <1>4 DEF TypeOK
  <2> QED BY <1>1, <1>4, <2>1, <2>2, LoopSendKeeps
<1>5. CASE /\ o.op = "close" /\ how = "sent" /\ hSocket /\ "R" \in attr
           /\ wrShut' = TRUE
           /\ loopPc' = "opEnds"
           /\ UNCHANGED <<iStatus, hSocket, attr, fnDisconnect, pending, bound, mem, reports, told>>
  BY <1>1, <1>5, LoopCloseKeeps
<1>6. CASE /\ o.op \in {"close", "forceClose"}
           /\ CloseSocket("opEnds")
           /\ UNCHANGED <<fnDisconnect, bound, mem, told, wrShut>>
  BY <1>1, <1>6, LoopCloseKeeps
<1>7. \/ /\ o.op = "bind"
         /\ InLoopBind
         /\ UNCHANGED <<hSocket, fnDisconnect, pending, mem, reports, told, wrShut, loopPc>>
      \/ /\ o.op = "send" /\ iStatus = "Connected"
         /\ SendData(o.buf, how)
         /\ IF how \in {"dropped", "failed"} THEN Disconnect ELSE UNCHANGED <<fnDisconnect, told>>
         /\ mem' = ConnRelease(mem, "loop")
         /\ UNCHANGED <<iStatus, hSocket, bound, wrShut, loopPc>>
      \/ /\ o.op = "send" /\ iStatus # "Connected" /\ how = "failed"
         /\ reports' = Report(o.buf, "failed")
         /\ mem' = ConnRelease(mem, "loop")
         /\ UNCHANGED <<iStatus, hSocket, attr, fnDisconnect, pending, bound, told, wrShut, loopPc>>
      \/ /\ o.op = "close" /\ how = "sent" /\ hSocket /\ "R" \in attr
         /\ wrShut' = TRUE
         /\ loopPc' = "opEnds"
         /\ UNCHANGED <<iStatus, hSocket, attr, fnDisconnect, pending, bound, mem, reports, told>>
      \/ /\ o.op \in {"close", "forceClose"}
         /\ CloseSocket("opEnds")
         /\ UNCHANGED <<fnDisconnect, bound, mem, told, wrShut>>
  BY DEF LoopRun
<1> HIDE DEF o
<1> QED BY <1>2, <1>3, <1>4, <1>5, <1>6, <1>7

LEMMA LoopCancelKeeps ==
  ASSUME ConnectionInv, LoopCancel
  PROVE  ConnectionInv'
<1>1. /\ TypeOK /\ OpenInv /\ QueueInv /\ WriteInv
      /\ loopPc = "poll" /\ queue # <<>> /\ queue' = Tail(queue)
      /\ UNCHANGED <<fnDisconnect, fnClose, chanVars, timerVars, svcVars, luaVars, accepted>>
  BY DEF ConnectionInv, LoopCancel
<1> DEFINE o == Head(queue)
<1>2. CASE /\ o.op = "bind"
           /\ bound' = "cancelled"
           /\ mem' = ConnRelease(mem, "loop")
           /\ UNCHANGED <<iStatus, hSocket, attr, pending, reports, loopPc>>
  BY <1>1, <1>2, LoopBindKeeps
<1>3. CASE /\ o.op = "send"
           /\ reports' = Report(o.buf, "failed")
           /\ mem' = ConnRelease(mem, "loop")
           /\ UNCHANGED <<iStatus, hSocket, attr, pending, bound, loopPc>>
  <2>1. Writes(pending', queue', accepted', reports')
    BY <1>1, <1>3, SendFails
  <2>2. attr' \in SUBSET {"R", "W", "C"} /\ fnDisconnect' \in BOOLEAN
    BY <1>1, <1>3 DEF TypeOK
  <2> QED BY <1>1, <1>3, <2>1, <2>2, LoopSendKeeps
<1>4. CASE /\ o.op \in {"close", "forceClose"}
           /\ CloseSocket("opEnds")
           /\ UNCHANGED <<bound, mem>>
  BY <1>1, <1>4, LoopCloseKeeps
<1>5. \/ /\ o.op = "bind"
         /\ bound' = "cancelled"
         /\ mem' = ConnRelease(mem, "loop")
         /\ UNCHANGED <<iStatus, hSocket, attr, pending, reports, loopPc>>
      \/ /\ o.op = "send"
         /\ reports' = Report(o.buf, "failed")
         /\ mem' = ConnRelease(mem, "loop")
         /\ UNCHANGED <<iStatus, hSocket, attr, pending, bound, loopPc>>
      \/ /\ o.op \in {"close", "forceClose"}
         /\ CloseSocket("opEnds")
         /\ UNCHANGED <<bound, mem>>
  BY DEF LoopCancel
<1> HIDE DEF o
<1> QED BY <1>2, <1>3, <1>4, <1>5

-----------------------------------------------------------------------------
(* The loop: what its poller tells it. *)

\* An event of a bound connection, which may close its socket.
LEMMA EventKeeps ==
  ASSUME ConnectionInv, loopPc = "poll", attr # {"C"},
         Writes(pending', queue', accepted', reports'),
         attr' \in SUBSET {"R", "W", "C"}, fnDisconnect' \in BOOLEAN,
         \/ UNCHANGED <<iStatus, hSocket, loopPc>>
         \/ /\ hSocket /\ ~hSocket' /\ hSocket' \in BOOLEAN
            /\ iStatus' = "Disconnected" /\ loopPc' = "onClose",
         UNCHANGED <<fnClose, bound, chanVars, queue, mem, timerVars, svcVars, luaVars, accepted>>
  PROVE  ConnectionInv'
<1> USE DEF chanVars, timerVars, svcVars, luaVars
<1>1. /\ TypeOK /\ OpenInv /\ SocketInv /\ QueueInv /\ WriteInv
  BY DEF ConnectionInv
<1>2. Kept(mem, bound # "no")
  BY DEF ConnectionInv, RefInv
<1>3. Moves(mem, mem', 0, 0)
  BY <1>2, StillMoves
<1>4. UNCHANGED <<fnClose, bound, chStatus, hConnection, hTimer, queue, mem, timer, timerConn, pc,
                  arg, here, svcConn, closes, extra, accepted>>
  OBVIOUS
<1>5. bound # "no"
  BY <1>1 DEF OpenInv
<1>6. pending' \in Seq(Bufs) /\ reports' \in [Bufs -> Seq({"ok", "failed", "astray"})]
  BY DEF Writes
<1>7. /\ iStatus' \in {"Connecting", "Connected", "Disconnecting", "Disconnected"}
      /\ hSocket' \in BOOLEAN /\ loopPc' \in {"poll", "onClose"}
  <2>1. CASE UNCHANGED <<iStatus, hSocket, loopPc>>
    BY <1>1, <2>1 DEF TypeOK
  <2>2. CASE hSocket' \in BOOLEAN /\ iStatus' = "Disconnected" /\ loopPc' = "onClose"
    BY <2>2
  <2> QED BY <2>1, <2>2
<1>8. TypeOK'
  BY <1>1, <1>4, <1>6, <1>7 DEF TypeOK
<1>9. OpenInv'
  BY <1>1, <1>4, <1>5 DEF OpenInv, Closing
<1>10. SocketInv' /\ QueueInv'
  <2>1. QueueInv'
    BY <1>1, <1>4 DEF QueueInv
  <2>2. CASE UNCHANGED <<iStatus, hSocket, loopPc>>
    BY <1>1, <1>4, <2>1, <2>2 DEF SocketInv, InHandleClose
  <2>3. CASE ~hSocket' /\ iStatus' = "Disconnected"
    BY <2>1, <2>3 DEF SocketInv, InHandleClose
  <2> QED BY <2>2, <2>3
<1>11. InTime' => InTime
  BY <1>4 DEF InTime, TimedOut
<1>12. WriteInv'
  BY <1>1, <1>4 DEF WriteInv
<1>13. ChanShares' = ChanShares + 0
  <2>1. ServiceShare' = ServiceShare /\ BindShare' = BindShare /\ TimerShare' = TimerShare
    BY <1>4 DEF ServiceShare, Closing, Gained, BindShare, TimerShare
  <2> QED BY <1>1, <2>1, SharesAreInts DEF ChanShares
<1>14. ConnShares' = ConnShares + 0
  <2>1. TakenShare' = TakenShare /\ N(hConnection)' = N(hConnection) /\ Len(queue)' = Len(queue)
    BY <1>4 DEF TakenShare
  <2>2. LoopShare' = LoopShare
    <3>1. CASE UNCHANGED <<iStatus, hSocket, loopPc>>
      BY <1>4, <3>1 DEF LoopShare, ConnSurplus, InHandleClose
    <3>2. CASE hSocket /\ loopPc' = "onClose"
      <4>1. ~InHandleClose /\ InHandleClose'
        BY <3>2 DEF InHandleClose
      <4>2. LoopShare = N(bound = "yes")
        BY <3>2, <4>1 DEF LoopShare, ConnSurplus, N
      <4>3. LoopShare' = N(bound = "yes")
        BY <1>4, <3>2, <4>1 DEF LoopShare, ConnSurplus, N
      <4> QED BY <4>2, <4>3
    <3> QED BY <3>1, <3>2
  <2> QED BY <1>1, <2>1, <2>2, SharesAreInts DEF ConnShares
<1> QED BY <1>3, <1>4, <1>8, <1>9, <1>10, <1>11, <1>12, <1>13, <1>14, InvStep

LEMMA DisconnectIsFlag ==
  ASSUME Disconnect
  PROVE  fnDisconnect' \in BOOLEAN
BY Zenon DEF Disconnect

\* Of the pending writes the first n are reported, and either all others or none.
LEMMA WritableReports ==
  ASSUME ConnectionInv, NEW how \in How, NEW n \in Nat, n <= Len(pending), NEW s,
         reports' = [b \in Bufs |->
           IF \E i \in 1..n : pending[i] = b THEN Reported(b, "ok")
           ELSE IF how = "failed" /\ Contains(pending, b) THEN Reported(b, "failed")
           ELSE reports[b]],
         \/ how # "failed" /\ s = SubSeq(pending, n + 1, Len(pending))
         \/ how = "failed" /\ s = <<>>
  PROVE  Writes(s, queue, accepted, reports')
<1>1. /\ TypeOK /\ Writes(pending, queue, accepted, reports)
      /\ pending \in Seq(Bufs) /\ Len(pending) \in Nat
      /\ \A i, j \in 1..Len(pending) : pending[i] = pending[j] => i = j
  <2>1. TypeOK /\ Writes(pending, queue, accepted, reports)
    BY DEF ConnectionInv, WriteInv
  <2>2. /\ pending \in Seq(Bufs)
        /\ \A i, j \in 1..Len(pending) : pending[i] = pending[j] => i = j
    BY <2>1, ZenonT(30) DEF Writes
  <2> QED BY <2>1, <2>2
<1>2. \A b \in Bufs, x \in {"ok", "failed"} :
        /\ Reported(b, x) \in Seq({"ok", "failed", "astray"})
        /\ Len(Reported(b, x)) = Len(reports[b]) + 1
  <2> SUFFICES ASSUME NEW b \in Bufs, NEW x \in {"ok", "failed"}
               PROVE  /\ Reported(b, x) \in Seq({"ok", "failed", "astray"})
                      /\ Len(Reported(b, x)) = Len(reports[b]) + 1
    OBVIOUS
  <2>1. reports[b] \in Seq({"ok", "failed", "astray"})
    BY <1>1 DEF TypeOK
  <2> DEFINE y == IF b \in unset THEN "astray" ELSE x
  <2>2. y \in {"ok", "failed", "astray"} /\ Reported(b, x) = Append(reports[b], y)
    BY DEF Reported
  <2> HIDE DEF y
  <2> QED BY <2>1, <2>2
<1>3. reports' \in [Bufs -> Seq({"ok", "failed", "astray"})]
  BY <1>1, <1>2 DEF TypeOK
<1>4. /\ s \in Seq(Bufs) /\ Len(s) \in Nat
      /\ how # "failed" => Len(s) = Len(pending) - n /\ \A i \in 1..Len(s) : s[i] = pending[n + i]
      /\ how = "failed" => Len(s) = 0
  <2>1. CASE how # "failed" /\ s = SubSeq(pending, n + 1, Len(pending))
    BY <1>1, <2>1
  <2>2. CASE how = "failed" /\ s = <<>>
    BY <2>2
  <2> QED BY <2>1, <2>2
<1>5. /\ \A i, j \in 1..Len(s) : s[i] = s[j] => i = j
      /\ \A i \in 1..Len(s) : \E j \in 1..Len(pending) : pending[j] = s[i]
  <2>1. CASE how = "failed"
    BY <1>4, <2>1
  <2>2. CASE how # "failed"
    <3>1. \A i \in 1..Len(s) : s[i] = pending[n + i] /\ n + i \in 1..Len(pending) /\ i \in Nat
      BY <1>1, <1>4, <2>2
    <3>2. \A i \in 1..Len(s) : \E j \in 1..Len(pending) : pending[j] = s[i]
      BY <3>1
    <3>3. \A i, j \in 1..Len(s) : s[i] = s[j] => n + i = n + j
      BY <1>1, <3>1
    <3> QED BY <3>1, <3>2, <3>3
  <2> QED BY <2>1, <2>2
<1>6. ASSUME NEW b \in Bufs
      PROVE  /\ ~Contains(pending, b) \/ Contains(s, b) => reports'[b] = reports[b]
             /\ Contains(pending, b) /\ ~Contains(s, b) => Len(reports'[b]) = Len(reports[b]) + 1
  <2>1. Contains(pending, b) <=> \E i \in 1..Len(pending) : pending[i] = b
    BY DEF Contains
  <2>2. Contains(s, b) <=> \E i \in 1..Len(s) : s[i] = b
    BY DEF Contains
  <2>3. CASE \E i \in 1..n : pending[i] = b
    <3>1. PICK i \in 1..n : pending[i] = b
      BY <2>3
    <3>2. Contains(pending, b)
      BY <1>1, <2>1, <3>1
    <3>3. ~Contains(s, b)
      <4>1. CASE how = "failed"
        BY <1>4, <2>2, <4>1
      <4>2. CASE how # "failed"
        <5> SUFFICES ASSUME NEW j \in 1..Len(s), s[j] = b
                     PROVE  FALSE
          BY <2>2
        <5>1. pending[n + j] = b /\ n + j \in 1..Len(pending) /\ i \in 1..Len(pending)
          BY <1>1, <1>4, <4>2
        <5>2. i = n + j
          BY <1>1, <3>1, <5>1
        <5> QED BY <5>2
      <4> QED BY <4>1, <4>2
    <3>4. reports'[b] = Reported(b, "ok")
      BY <2>3
    <3> QED BY <1>2, <3>2, <3>3, <3>4
  <2>4. CASE ~\E i \in 1..n : pending[i] = b
    <3>1. CASE how = "failed"
      <4>1. ~Contains(s, b)
        BY <1>4, <2>2, <3>1
      <4>2. reports'[b] = IF Contains(pending, b) THEN Reported(b, "failed") ELSE reports[b]
        BY <2>4, <3>1
      <4> QED BY <1>2, <4>1, <4>2
    <3>2. CASE how # "failed"
      <4>1. reports'[b] = reports[b]
        BY <2>4, <3>2
      <4>2. Contains(pending, b) => Contains(s, b)
        <5> SUFFICES ASSUME NEW i \in 1..Len(pending), pending[i] = b
                     PROVE  Contains(s, b)
          BY <2>1
        <5>1. i > n /\ i \in Nat
          BY <1>1, <2>4
        <5>2. i - n \in 1..Len(s) /\ n + (i - n) = i
          BY <1>1, <1>4, <3>2, <5>1
        <5>3. s[i - n] = b
          BY <1>4, <3>2, <5>2
        <5> QED BY <2>2, <5>2, <5>3
      <4> QED BY <4>1, <4>2
    <3> QED BY <3>1, <3>2
  <2> QED BY <2>3, <2>4
<1>7. Leave(pending, reports, s, reports')
  BY <1>3, <1>4, <1>5, <1>6 DEF Leave
<1> QED BY <1>1, <1>7, AreReported

LEMMA WritableKeeps ==
  ASSUME ConnectionInv, NEW how \in How, NEW n \in Nat, Writable(n, how)
  PROVE  ConnectionInv'
<1> USE DEF loopVars
<1>1. /\ TypeOK /\ loopPc = "poll" /\ attr # {"C"} /\ n <= Len(pending)
      /\ UNCHANGED <<iStatus, hSocket, fnClose, bound, chanVars, queue, mem, loopPc, timerVars,
                     svcVars, luaVars, accepted>>
  BY DEF ConnectionInv, Writable, EventMay
<1>2. reports' = [b \in Bufs |->
        IF \E i \in 1..n : pending[i] = b THEN Reported(b, "ok")
        ELSE IF how = "failed" /\ Contains(pending, b) THEN Reported(b, "failed")
        ELSE reports[b]]
  BY DEF Writable
<1>3. /\ attr' \in SUBSET {"R", "W", "C"} /\ fnDisconnect' \in BOOLEAN
      /\ \/ how # "failed" /\ pending' = SubSeq(pending, n + 1, Len(pending))
         \/ how = "failed" /\ pending' = <<>>
  <2>0. /\ attr \in SUBSET {"R", "W", "C"} /\ fnDisconnect \in BOOLEAN
        /\ pending \in Seq(Bufs) /\ Len(pending) \in Nat
    BY <1>1 DEF TypeOK
  <2>1. CASE /\ how = "wait"
             /\ pending' = SubSeq(pending, n + 1, Len(pending))
             /\ UNCHANGED <<attr, fnDisconnect, told>>
    BY <2>0, <2>1
  <2>2. CASE /\ how = "sent" /\ n = Len(pending)
             /\ pending' = <<>>
             /\ attr' = attr \ {"W"}
             /\ UNCHANGED <<fnDisconnect, told>>
    <3>1. SubSeq(pending, n + 1, Len(pending)) = <<>>
      BY <2>0, <2>2
    <3>2. attr' \in SUBSET {"R", "W", "C"} /\ fnDisconnect' \in BOOLEAN
      BY <2>0, <2>2
    <3> QED BY <2>2, <3>1, <3>2
  <2>3. CASE /\ how = "failed"
             /\ pending' = <<>>
             /\ attr' = {"C"}
             /\ Disconnect
    BY <2>3, DisconnectIsFlag
  <2> QED BY <2>1, <2>2, <2>3 DEF Writable
<1>4. Writes(pending', queue, accepted, reports')
  BY <1>1, <1>2, <1>3, WritableReports
<1>5. Writes(pending', queue', accepted', reports')
  BY <1>1, <1>4
<1> QED BY <1>1, <1>3, <1>5, EventKeeps

LEMMA ReadFailsKeeps ==
  ASSUME ConnectionInv, ReadFails
  PROVE  ConnectionInv'
<1>1. /\ TypeOK /\ loopPc = "poll" /\ attr # {"C"} /\ Writes(pending, queue, accepted, reports)
      /\ UNCHANGED <<fnClose, bound, chanVars, queue, mem, timerVars, svcVars, luaVars, accepted>>
  BY DEF ConnectionInv, WriteInv, ReadFails, EventMay
<1>2. attr \in SUBSET {"R", "W", "C"} /\ fnDisconnect \in BOOLEAN
  BY <1>1 DEF TypeOK
<1>3. CASE /\ iStatus = "Connected"
           /\ attr' = attr \ {"R"}
           /\ Disconnect
           /\ UNCHANGED <<iStatus, hSocket, pending, reports, loopPc>>
  <2>1. attr' \in SUBSET {"R", "W", "C"} /\ fnDisconnect' \in BOOLEAN
    BY <1>2, <1>3, DisconnectIsFlag
  <2>2. Writes(pending', queue', accepted', reports')
    BY <1>1, <1>3
  <2> QED BY <1>1, <1>3, <2>1, <2>2, EventKeeps
<1>4. CASE /\ iStatus = "Disconnecting"
           /\ CloseSocket("poll")
           /\ UNCHANGED <<fnDisconnect, told>>
  <2>1. \/ UNCHANGED <<iStatus, hSocket, loopPc, attr, pending, reports>>
        \/ /\ hSocket /\ ~hSocket' /\ hSocket' \in BOOLEAN
           /\ iStatus' = "Disconnected" /\ loopPc' = "onClose"
           /\ attr' = {"C"} /\ pending' = <<>> /\ Drain
    <3>1. CASE ~hSocket
      BY <1>1, <1>4, <3>1 DEF CloseSocket
    <3>2. CASE hSocket
      <4>1. ~hSocket' /\ hSocket' \in BOOLEAN
        BY <1>4, <3>2, Zenon DEF CloseSocket
      <4> QED BY <1>4, <3>2, <4>1 DEF CloseSocket
    <3> QED BY <3>1, <3>2
  <2>2. Writes(pending', queue, accepted, reports')
    BY <1>1, <2>1, DrainReports
  <2>3. Writes(pending', queue', accepted', reports')
    BY <1>1, <2>2
  <2>4. attr' \in SUBSET {"R", "W", "C"} /\ fnDisconnect' \in BOOLEAN
    <3>1. fnDisconnect' = fnDisconnect
      BY <1>4
    <3> QED BY <1>2, <2>1, <3>1
  <2> QED BY <1>1, <2>1, <2>3, <2>4, EventKeeps
<1> QED BY <1>3, <1>4 DEF ReadFails

-----------------------------------------------------------------------------
(* The theorems.                                                             *)

LEMMA InitKeeps ==
  ASSUME Init
  PROVE  ConnectionInv
<1> DEFINE m == [conn |-> 1, chan |-> 2, slot |-> TRUE, userFree |-> FALSE, dangling |-> {}]
<1>1. /\ iStatus = "Connecting" /\ hSocket = TRUE /\ attr = {"C"}
      /\ fnDisconnect = FALSE /\ fnClose = FALSE /\ pending = <<>> /\ bound = "no"
      /\ queue = <<>>
      /\ chStatus = "Starting" /\ hConnection = TRUE /\ hTimer = FALSE
      /\ mem = m
      /\ loopPc = "poll"
      /\ timer = "none" /\ timerConn = FALSE
      /\ pc = "callback" /\ arg = NoBuf /\ here = FALSE /\ svcConn = FALSE
      /\ closes = 0 /\ extra = 0
      /\ accepted = {} /\ reports = [b \in Bufs |-> <<>>]
  BY DEF Init
<1>2. /\ m \in Mems /\ m.conn = 1 /\ m.chan = 2 /\ m.slot = TRUE /\ m.userFree = FALSE
      /\ m.dangling = {}
  BY DEF Mems
<1> HIDE DEF m
<1>3. \A b \in Bufs : <<>> \in Seq({"ok", "failed", "astray"})
  OBVIOUS
<1>4. /\ reports \in [Bufs -> Seq({"ok", "failed", "astray"})]
      /\ pending \in Seq(Bufs) /\ queue \in Seq(Ops) /\ Len(pending) = 0 /\ Len(queue) = 0
  BY <1>1, <1>3
<1>5. TypeOK
  BY <1>1, <1>2, <1>4 DEF TypeOK, PCs
<1>6. OpenInv
  BY <1>1 DEF OpenInv, Closing
<1>7. SocketInv /\ QueueInv
  BY <1>1, <1>4 DEF SocketInv, QueueInv, InHandleClose
<1>8. RefInv
  <2>0. mem \in Mems /\ mem.slot /\ ~mem.userFree /\ mem.slot = ~mem.userFree /\ mem.chan = 2
    BY <1>1, <1>2, Zenon
  <2>1a. Kept(mem, bound # "no")
    BY <1>1, <2>0 DEF Kept
  <2>1. Kept(mem, bound # "no") /\ Owned(mem) = 1
    BY <2>0, <2>1a DEF Owned, N
  <2>2. ServiceShare = 1 /\ BindShare = 0 /\ TimerShare = 0
    BY <1>1 DEF ServiceShare, BindShare, TimerShare, Closing, Gained, N
  <2>3. LoopShare = 0 /\ TakenShare = 0 /\ N(hConnection) = 1
    BY <1>1 DEF LoopShare, ConnSurplus, TakenShare, InHandleClose, N
  <2>4. ChanShares = 1 /\ ConnShares = 1
    BY <1>4, <2>2, <2>3 DEF ChanShares, ConnShares
  <2> QED BY <1>1, <1>2, <2>1, <2>4 DEF RefInv
<1>9. FaultInv
  BY <1>1, <1>2 DEF FaultInv
<1>10. WriteInv
  <2>1. \A b \in Bufs : reports[b] = <<>>
    BY <1>1
  <2> QED BY <1>1, <1>4, <2>1 DEF WriteInv, Writes
<1> QED BY <1>5, <1>6, <1>7, <1>8, <1>9, <1>10 DEF ConnectionInv

LEMMA CallKeeps ==
  ASSUME ConnectionInv, Call \/ CallStep
  PROVE  ConnectionInv'
<1>1. CASE \E h \in BOOLEAN : Bind(h) \/ Query(h) \/ CloseNow(h) \/ CloseSlowly(h)
  BY <1>1, BindKeeps, QueryKeeps, CloseNowKeeps, CloseSlowlyKeeps
<1>2. CASE \E b \in Bufs, h \in BOOLEAN : Write(b, h)
  BY <1>2, WriteKeeps
<1>3. CASE LuaAddref \/ LuaRelease
  BY <1>3, LuaAddrefKeeps, LuaReleaseKeeps
<1>4. CASE BindEnds \/ QueryEnds
  BY <1>4, BindEndsKeeps, QueryEndsKeeps
<1>5. CASE \E how \in How : WriteEnds(how)
  BY <1>5, WriteEndsKeeps
<1>6. CASE CloseNowTakes \/ CloseNowForces
  BY <1>6, CloseNowTakesKeeps, CloseNowForcesKeeps
<1>7. CASE StartTimer \/ CloseAsks \/ CloseReturns
  BY <1>7, StartTimerKeeps, CloseAsksKeeps, CloseReturnsKeeps
<1> QED BY <1>1, <1>2, <1>3, <1>4, <1>5, <1>6, <1>7 DEF Call, CallStep

LEMMA LoopStepKeeps ==
  ASSUME ConnectionInv, LoopStep
  PROVE  ConnectionInv'
<1>1. CASE OnClose \/ CloseEnds \/ LoopCancel
  BY <1>1, OnCloseKeeps, CloseEndsKeeps, LoopCancelKeeps
<1>2. CASE \E how \in How : LoopRun(how)
  BY <1>2, LoopRunKeeps
<1>3. CASE \E how \in How, n \in 0..Cardinality(Bufs) : Writable(n, how)
  <2>1. PICK how \in How, n \in 0..Cardinality(Bufs) : Writable(n, how)
    BY <1>3
  <2>2. n \in Nat
    OBVIOUS
  <2> QED BY <2>1, <2>2, WritableKeeps
<1>4. CASE ReadFails
  BY <1>4, ReadFailsKeeps
<1> QED BY <1>1, <1>2, <1>3, <1>4 DEF LoopStep

LEMMA NextKeeps ==
  ASSUME ConnectionInv, [Next]_vars
  PROVE  ConnectionInv'
<1>1. CASE \E takes, h \in BOOLEAN : Callback(takes, h)
  BY <1>1, CallbackKeeps
<1>2. CASE Call \/ CallStep
  BY <1>2, CallKeeps
<1>3. CASE LoopStep
  BY <1>3, LoopStepKeeps
<1>4. CASE TimerStep
  BY <1>4, TimerStepKeeps
<1>5. CASE Stop \/ \E p \in {"eof", "reset"} : PeerLeaves(p)
  BY <1>5, StopKeeps
<1>6. CASE UNCHANGED vars
  <2>1. UNCHANGED <<connVars, chanVars, queue, mem, loopPc, timerVars, svcVars, luaVars, accepted,
                    reports>>
    BY <1>6 DEF vars, loopVars, history
  <2> QED BY <2>1, QuietKeeps
<1> QED BY <1>1, <1>2, <1>3, <1>4, <1>5, <1>6 DEF Next

(* The inductive invariant of a connection and its channel, whatever the     *)
(* loop, the service and the thread of the disconnect timer do.              *)
THEOREM ConnectionInvHolds == Spec => []ConnectionInv
<1>1. Init => ConnectionInv
  BY InitKeeps
<1>2. ConnectionInv /\ [Next]_vars => ConnectionInv'
  BY NextKeeps
<1> QED BY <1>1, <1>2, PTL DEF Spec

(* iRefCount of the connection and of its channel is the number of their     *)
(* holders at every moment, up to the releases that the disconnect timer and *)
(* eventConnection_onUserFree make beside those of their own references, and *)
(* that of handleClose for a bind that never came: no order of bind, write,  *)
(* close, timeout, end of the peer and stop of the loop loses one or drops   *)
(* one twice.                                                                *)
THEOREM HoldersOfConnection == Spec => []RefsMatchHolders
<1>1. ConnectionInv => RefsMatchHolders
  <2> SUFFICES ASSUME ConnectionInv
               PROVE  RefsMatchHolders
    OBVIOUS
  <2>1. TypeOK /\ Kept(mem, bound # "no") /\ Owned(mem) = ChanShares /\ mem.conn = ConnShares
    BY DEF ConnectionInv, RefInv
  <2>2. mem.chan \in Int /\ mem.conn \in Int /\ mem.slot \in BOOLEAN /\ mem.userFree \in BOOLEAN
    BY <2>1 DEF TypeOK, Mems
  <2>3. mem.chan = ChanHolders - ChanSurplus
    <3>1. closes \in Int /\ extra \in Int
      BY <2>1 DEF TypeOK
    <3>2. mem.chan = ChanShares + N(mem.slot) - N(mem.userFree)
      BY <2>1, <2>2, SharesAreInts DEF Owned, ChanShares, N
    <3> DEFINE s == N(Closing)
               g == N(Gained)
               t == N(mem.slot)
               u == N(mem.userFree)
               b == N(bound # "no" /\ fnClose)
               r == N(timer \in {"armed", "stopping", "fired", "took", "closing"})
               d == N(timer = "done")
    <3>3. {s, g, t, u, b, r, d} \subseteq Int
      BY DEF N
    <3>4. ChanShares = ((1 - closes + s) + extra + g) + b + (r - d)
      BY DEF ChanShares, ServiceShare, BindShare, TimerShare
    <3>5. ChanHolders = (1 - closes + s) + extra + t + b + g + r /\ ChanSurplus = d + u
      BY DEF ChanHolders, ChanSurplus
    <3>6. mem.chan = ChanShares + t - u
      BY <3>2
    <3> HIDE DEF s, g, t, u, b, r, d
    <3> QED BY <3>1, <3>3, <3>4, <3>5, <3>6
  <2>4. mem.conn = ConnHolders - ConnSurplus
    <3> DEFINE h == N(hConnection)
               b == N(bound = "yes" /\ (hSocket \/ InHandleClose))
               l == N(loopPc \in {"opEnds", "onCloseOp", "finalOp"})
               t == N(timerConn)
               s == N(svcConn /\ pc \in {"force", "refuseForce"})
    <3>1. {h, b, l, t, s} \subseteq Int /\ ConnSurplus \in Int /\ Len(queue) \in Int
      BY <2>1, SharesAreInts DEF N, ConnSurplus
    <3>2. ConnShares = h + (b - ConnSurplus + l) + Len(queue) + (t + s)
      BY DEF ConnShares, LoopShare, TakenShare
    <3>3. ConnHolders = h + b + Len(queue) + l + t + s
      BY DEF ConnHolders
    <3>4. mem.conn = ConnShares
      BY <2>1
    <3> HIDE DEF h, b, l, t, s
    <3>5. ConnShares = ConnHolders - ConnSurplus
      BY <3>1, <3>2, <3>3, SMTT(30)
    <3> QED BY <3>4, <3>5
  <2> QED BY <2>3, <2>4 DEF RefsMatchHolders
<1> QED BY <1>1, ConnectionInvHolds, PTL

(* Every buffer that eventConnection_send took on is reported to its         *)
(* fnCallback once it is neither pending nor queued, and only then: the      *)
(* writable event, the failing send, handleClose and eventIOLoop_clear never *)
(* report one twice, and leave none behind.                                  *)
THEOREM WritesAreReportedOnce == Spec => []ReportedOnce
<1>1. ConnectionInv => ReportedOnce
  BY DEF ConnectionInv, WriteInv, Writes, ReportedOnce
<1> QED BY <1>1, ConnectionInvHolds, PTL

(* A channel that was bound, closed at most once and not timed out is not    *)
(* freed before its connection is, and until then nothing of the two is used *)
(* after free but the connection, by a service that had read hConnection     *)
(* before the loop took it.                                                  *)
THEOREM ChannelsOutliveConnections == Spec => []FaultsOnlyAtTheEnd
<1>1. ConnectionInv => FaultsOnlyAtTheEnd
  <2> SUFFICES ASSUME ConnectionInv, bound \in {"queued", "yes"}, ~TimedOut, closes <= 1
               PROVE  /\ mem.dangling \subseteq {<<"conn", "stale">>} \/ mem.userFree
                      /\ mem.chan <= 0 => mem.userFree
    BY DEF FaultsOnlyAtTheEnd
  <2>1. TypeOK /\ OpenInv /\ RefInv /\ FaultInv
    BY DEF ConnectionInv
  <2>2. InTime
    BY DEF InTime
  <2>3. mem.dangling \subseteq {<<"conn", "stale">>} \/ mem.userFree
    BY <2>1, <2>2 DEF FaultInv
  <2>4. ~mem.userFree => mem.chan > 0
    BY <2>1, <2>2, AliveInTime
  <2>5. mem.chan \in Int
    BY <2>1 DEF TypeOK, Mems
  <2> QED BY <2>3, <2>4, <2>5
<1> QED BY <1>1, ConnectionInvHolds, PTL

=============================================================================
