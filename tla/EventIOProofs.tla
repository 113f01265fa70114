---------------------------- MODULE EventIOProofs ---------------------------
(***************************************************************************)
(* For any number of loops, threads and events: no loop sleeps on an event *)
(* that nobody is going to wake it for, the eventIO lives as long as a     *)
(* thread of its own is inside, the last to leave frees it, and it keeps   *)
(* the promise of Executor.                                                *)
(*                                                                         *)
(* ByteQueue, what the connections of a loop receive into: for every       *)
(* sequence of texts, capacities and reads the ring is the sequence of the *)
(* bytes written and not yet read.                                         *)
(*                                                                         *)
(* SendPath, what they send: for all shapes of the writes and whatever     *)
(* room the sockets have, each write is reported once, in order.           *)
(***************************************************************************)
EXTENDS EventIO, ByteQueue, SendPath, FiniteSetTheorems, FunctionTheorems, SequenceTheorems,
        WellFoundedInduction, TLAPS

LEMMA LoopsAreCallers ==
  /\ \A l \in Loops : l \in Callers /\ l \in Nat
  /\ Main \in Callers
  /\ \A t \in Threads : t \in Callers
  /\ 1 \in Loops
BY LoopsAreBounded DEF Callers, Loops

LEMMA InitTyped == Init => TypeOK
<1> SUFFICES ASSUME Init PROVE TypeOK
  OBVIOUS
<1>1. NoCall \in Calls
  BY DEF NoCall, Calls
<1>2. call \in [Callers -> Calls]
  BY <1>1 DEF Init
<1>3. bLoopRunning \in BOOLEAN /\ bRunning \in BOOLEAN /\ queuedFd \in BOOLEAN
  BY Zenon DEF Init
<1>4. /\ uiCocurrentThreads \in 0..MaxLoops
      /\ uiCocurrentRunning \in Int /\ iRefCount \in Int
      /\ queuedEvent \in Seq(Events)
      /\ mainPending \in Seq(Events \cup {Stop}) /\ mainBatch \in Seq(Events \cup {Stop})
      /\ main \in MainStates
      /\ fate \in [Events -> Fates]
  BY LoopsAreBounded DEF Init, MainStates, Fates
<1>5. /\ loopRunning \in [Loops -> BOOLEAN]
      /\ bNotified \in [Loops -> BOOLEAN] /\ wakeFd \in [Loops -> BOOLEAN]
  BY Zenon DEF Init
<1>6. /\ queuePending \in [Loops -> Seq(Events \cup {Stop})]
      /\ batch \in [Loops -> Seq(Events \cup {Stop})]
      /\ loop \in [Loops -> LoopStates]
      /\ ready \in [Loops -> SUBSET {"wake", "pool"}]
  BY DEF Init, LoopStates
<1> QED BY <1>2, <1>3, <1>4, <1>5, <1>6 DEF TypeOK

LEMMA RunningAreLoops ==
  ASSUME uiCocurrentThreads \in 0..MaxLoops
  PROVE  \A l \in Running : l \in Loops
BY LoopsAreBounded DEF Running, Loops

\* The kinds of calls, told apart by where they are.
LEMMA CallKinds ==
  ASSUME NEW k \in Calls
  PROVE  /\ k.at = "post" => k.item \in Events
         /\ k.at \in {"stop", "notify", "store", "write"} => k \in LoopCalls
BY DEF Calls, LoopCalls

LEMMA LoopCallTyped ==
  ASSUME NEW k \in LoopCalls
  PROVE  /\ k.loop \in Loops /\ k.stops \in BOOLEAN
         /\ \A at \in {"stop", "notify", "store", "write"} :
              /\ [k EXCEPT !.at = at] \in LoopCalls
              /\ [k EXCEPT !.at = at].at = at
              /\ [k EXCEPT !.at = at].loop = k.loop
BY DEF LoopCalls

LEMMA EnterTyped ==
  ASSUME TypeOK, NEW c \in Callers, NEW k \in Calls, Enter(c, k)
  PROVE  call' \in [Callers -> Calls]
BY DEF TypeOK, Enter

\* The calls that are ever entered.
LEMMA CallValues ==
  /\ NoCall \in Calls
  /\ [at |-> "postWrite"] \in Calls
  /\ \A e \in Events : [at |-> "post", item |-> e] \in Calls
  /\ \A at \in {"stop", "notify", "store", "write"}, l \in Loops, b \in BOOLEAN :
       [at |-> at, loop |-> l, stops |-> b] \in LoopCalls
  /\ LoopCalls \subseteq Calls
<1>1. /\ NoCall \in Calls
      /\ [at |-> "postWrite"] \in Calls
      /\ \A e \in Events : [at |-> "post", item |-> e] \in Calls
  BY DEF NoCall, Calls
<1>2. \A at \in {"stop", "notify", "store", "write"}, l \in Loops, b \in BOOLEAN :
        [at |-> at, loop |-> l, stops |-> b] \in LoopCalls
  BY Zenon DEF LoopCalls
<1>3. LoopCalls \subseteq Calls
  BY Zenon DEF Calls
<1> QED BY <1>1, <1>2, <1>3

LEMMA CallEndsTyped ==
  ASSUME TypeOK, NEW c \in Callers, call[c] \in LoopCalls, CallEnds(c)
  PROVE  call' \in [Callers -> Calls]
<1>1. CASE call[c].stops /\ call[c].loop + 1 \in Running
  <2> DEFINE k == [at |-> "stop", loop |-> call[c].loop + 1, stops |-> TRUE]
  <2>1. call[c].loop + 1 \in Loops
    BY <1>1, RunningAreLoops DEF TypeOK
  <2>2. k \in Calls
    BY <2>1, CallValues
  <2>3. Enter(c, k)
    BY <1>1 DEF CallEnds
  <2> QED BY <2>2, <2>3, EnterTyped
<1>2. CASE ~(call[c].stops /\ call[c].loop + 1 \in Running)
  <2>1. Enter(c, NoCall)
    BY <1>2 DEF CallEnds
  <2> QED BY <2>1, CallValues, EnterTyped
<1> QED BY <1>1, <1>2

LEMMA AppendTyped ==
  ASSUME NEW S, NEW q \in [Loops -> Seq(S)], NEW l \in Loops, NEW e \in S
  PROVE  [q EXCEPT ![l] = Append(@, e)] \in [Loops -> Seq(S)]
<1>1. Append(q[l], e) \in Seq(S)
  OBVIOUS
<1> QED BY <1>1

LEMMA TailTyped ==
  ASSUME NEW S, NEW q \in [Loops -> Seq(S)], NEW l \in Loops, q[l] # <<>>
  PROVE  Head(q[l]) \in S /\ [q EXCEPT ![l] = Tail(@)] \in [Loops -> Seq(S)]
<1>1. Head(q[l]) \in S /\ Tail(q[l]) \in Seq(S)
  OBVIOUS
<1> QED BY <1>1

LEMMA CallTyped ==
  ASSUME TypeOK, NEW c \in Callers, CallNext(c)
  PROVE  TypeOK'
<1>1. CASE PostInsert(c)
  <2>1. call[c].item \in Events
    BY <1>1, CallKinds DEF PostInsert, TypeOK
  <2>2. call' \in [Callers -> Calls]
    BY <1>1, EnterTyped, CallValues DEF PostInsert
  <2>3. queuedEvent' \in Seq(Events) /\ fate' \in [Events -> Fates]
    BY <1>1, <2>1 DEF PostInsert, Become, TypeOK, Fates
  <2> QED BY <1>1, <2>2, <2>3 DEF PostInsert, TypeOK, mainVars, countVars, wakeVars, loopVars
<1>2. CASE PostWrite(c)
  <2>1. call' \in [Callers -> Calls]
    BY <1>2, EnterTyped, CallValues DEF PostWrite
  <2>2. queuedFd' \in BOOLEAN
    BY <1>2 DEF PostWrite
  <2> QED BY <1>2, <2>1, <2>2 DEF PostWrite, TypeOK, mainVars, countVars, wakeVars, loopVars
<1>3. CASE NotifyLoad(c)
  <2>1. call[c] \in LoopCalls
    BY <1>3, CallKinds DEF NotifyLoad, TypeOK
  <2>2. call' \in [Callers -> Calls]
    BY <1>3, <2>1, EnterTyped, CallEndsTyped, LoopCallTyped, CallValues DEF NotifyLoad, Advance
  <2> QED BY <1>3, <2>2 DEF NotifyLoad, TypeOK, mainVars, poolVars, countVars, wakeVars, loopVars
<1>4. CASE NotifyStore(c)
  <2>1. call[c] \in LoopCalls
    BY <1>4, CallKinds DEF NotifyStore, TypeOK
  <2>2. call' \in [Callers -> Calls]
    BY <1>4, <2>1, EnterTyped, LoopCallTyped, CallValues DEF NotifyStore, Advance
  <2>3. bNotified' \in [Loops -> BOOLEAN]
    BY <1>4 DEF NotifyStore, TypeOK
  <2> QED BY <1>4, <2>2, <2>3 DEF NotifyStore, TypeOK, mainVars, poolVars, countVars, loopVars
<1>5. CASE NotifyWrite(c)
  <2>1. call[c] \in LoopCalls
    BY <1>5, CallKinds DEF NotifyWrite, TypeOK
  <2>2. call' \in [Callers -> Calls]
    BY <1>5, <2>1, CallEndsTyped DEF NotifyWrite
  <2>3. wakeFd' \in [Loops -> BOOLEAN]
    BY <1>5 DEF NotifyWrite, TypeOK
  <2> QED BY <1>5, <2>2, <2>3 DEF NotifyWrite, TypeOK, mainVars, poolVars, countVars, loopVars
<1>6. CASE StopInsert(c)
  <2>1. call[c] \in LoopCalls
    BY <1>6, CallKinds DEF StopInsert, TypeOK
  <2>2. call' \in [Callers -> Calls]
    BY <1>6, <2>1, EnterTyped, LoopCallTyped, CallValues DEF StopInsert, Advance
  <2>3. queuePending' \in [Loops -> Seq(Events \cup {Stop})]
    BY <1>6, <2>1, LoopCallTyped, AppendTyped DEF StopInsert, TypeOK
  <2> QED BY <1>6, <2>2, <2>3 DEF StopInsert, TypeOK, mainVars, poolVars, countVars, wakeVars,
                                 loopVars
<1> QED BY <1>1, <1>2, <1>3, <1>4, <1>5, <1>6 DEF CallNext

LEMMA BeginTyped ==
  ASSUME TypeOK, NEW c \in Callers, Begin(c)
  PROVE  TypeOK'
<1>1. CASE CallStop(c)
  <2>1. call' \in [Callers -> Calls]
    BY <1>1, LoopsAreCallers, EnterTyped, CallValues DEF CallStop
  <2> QED BY <1>1, <2>1 DEF CallStop, TypeOK, mainVars, poolVars, countVars, wakeVars, loopVars
<1>2. ASSUME NEW e \in Events, PostCheck(c, e) PROVE TypeOK'
  <2>1. call' \in [Callers -> Calls]
    <3>1. (IF bLoopRunning THEN [at |-> "post", item |-> e] ELSE NoCall) \in Calls
      BY CallValues
    <3> QED BY <1>2, <3>1, EnterTyped DEF PostCheck
  <2>2. fate' \in [Events -> Fates]
    BY <1>2 DEF PostCheck, Become, TypeOK, Fates
  <2> QED BY <1>2, <2>1, <2>2 DEF PostCheck, TypeOK, mainVars, poolVars, countVars, wakeVars,
                                 loopVars
<1>3. ASSUME NEW e \in Events, QueueInMain(c, e) PROVE TypeOK'
  <2>1. fate' \in [Events -> Fates]
    BY <1>3 DEF QueueInMain, Become, TypeOK, Fates
  <2>2. mainPending' \in Seq(Events \cup {Stop})
    BY <1>3 DEF QueueInMain, TypeOK
  <2> QED BY <1>3, <2>1, <2>2 DEF QueueInMain, TypeOK, poolVars, countVars, wakeVars, loopVars
<1>4. ASSUME NEW e \in Events, RunHere(c, e) PROVE TypeOK'
  <2>1. fate' \in [Events -> Fates]
    BY <1>4 DEF RunHere, Become, Outcome, TypeOK, Fates
  <2> QED BY <1>4, <2>1 DEF RunHere, TypeOK, mainVars, poolVars, countVars, wakeVars, loopVars
<1>5. ASSUME NEW e \in Events, NEW l \in Loops, QueueInLoop(c, e, l) PROVE TypeOK'
  <2>1. call' \in [Callers -> Calls]
    BY <1>5, EnterTyped, CallValues DEF QueueInLoop
  <2>2. fate' \in [Events -> Fates]
    BY <1>5 DEF QueueInLoop, Become, TypeOK, Fates
  <2>3. queuePending' \in [Loops -> Seq(Events \cup {Stop})]
    <3>1. queuePending \in [Loops -> Seq(Events \cup {Stop})] /\ e \in Events \cup {Stop}
      BY DEF TypeOK
    <3>2. [queuePending EXCEPT ![l] = Append(@, e)] \in [Loops -> Seq(Events \cup {Stop})]
      BY <3>1, AppendTyped
    <3>3. \/ queuePending' = [queuePending EXCEPT ![l] = Append(@, e)]
          \/ queuePending' = queuePending
      BY <1>5 DEF QueueInLoop, Put
    <3> QED BY <3>1, <3>2, <3>3, Zenon
  <2> QED BY <1>5, <2>1, <2>2, <2>3 DEF QueueInLoop, TypeOK, mainVars, poolVars, countVars,
                                       wakeVars, loopVars
<1> QED BY <1>1, <1>2, <1>3, <1>4, <1>5 DEF Begin

LEMMA GotoTyped ==
  ASSUME TypeOK, NEW l \in Loops, NEW at \in LoopStates, Goto(l, at)
  PROVE  loop' \in [Loops -> LoopStates]
BY DEF TypeOK, Goto

LEMMA LoopTyped ==
  ASSUME TypeOK, NEW l \in Loops, LoopNext(l)
  PROVE  TypeOK'
<1> USE DEF mainVars, poolVars, countVars, wakeVars
<1>1. CASE Poll(l)
  BY <1>1, GotoTyped DEF Poll, Readable, TypeOK, LoopStates
<1>2. CASE WakeRead(l)
  BY <1>2, GotoTyped DEF WakeRead, TypeOK, LoopStates
<1>3. CASE WakeStore(l)
  BY <1>3, GotoTyped DEF WakeStore, TypeOK, LoopStates
<1>4. CASE Take(l)
  BY <1>4, GotoTyped DEF Take, TypeOK, LoopStates
<1>5. CASE PoolRead(l)
  BY <1>5, GotoTyped DEF PoolRead, TypeOK, LoopStates
<1>6. CASE TakePool(l)
  <2>1. batch' \in [Loops -> Seq(Events \cup {Stop})] /\ queuedEvent' \in Seq(Events)
    BY <1>6 DEF TakePool, TypeOK
  <2> QED BY <1>6, <2>1, GotoTyped DEF TakePool, TypeOK, LoopStates
<1>7. CASE Run(l)
  <2>1. /\ Head(batch[l]) \in Events \cup {Stop}
        /\ batch' \in [Loops -> Seq(Events \cup {Stop})]
    BY <1>7, TailTyped DEF Run, TypeOK
  <2>2. /\ loopRunning' \in [Loops -> BOOLEAN]
        /\ loop' \in [Loops -> LoopStates]
        /\ fate' \in [Events -> Fates]
    BY <1>7, <2>1, GotoTyped DEF Run, Become, Outcome, TypeOK, Fates, LoopStates
  <2> QED BY <1>7, <2>1, <2>2 DEF Run, TypeOK
<1>8. CASE WorkEnds(l)
  BY <1>8, GotoTyped DEF WorkEnds, TypeOK, LoopStates
<1>9. CASE PollAgain(l)
  BY <1>9, GotoTyped DEF PollAgain, TypeOK, LoopStates
<1>10. CASE ClearCancel(l)
  <2>1. queuePending' \in [Loops -> Seq(Events \cup {Stop})]
    <3>1. queuePending \in [Loops -> Seq(Events \cup {Stop})] /\ queuePending[l] # <<>>
      BY <1>10 DEF ClearCancel, TypeOK
    <3>2. [queuePending EXCEPT ![l] = Tail(@)] \in [Loops -> Seq(Events \cup {Stop})]
      BY <3>1, TailTyped
    <3>3. queuePending' = [queuePending EXCEPT ![l] = Tail(@)]
      BY <1>10 DEF ClearCancel
    <3> QED BY <3>2, <3>3
  <2>2. fate' \in [Events -> Fates]
    BY <1>10 DEF ClearCancel, Become, TypeOK, Fates
  <2> QED BY <1>10, <2>1, <2>2 DEF ClearCancel, TypeOK, loopVars
<1>11. CASE Close(l)
  BY <1>11, GotoTyped DEF Close, TypeOK, LoopStates
<1>12. CASE LoopStop(l)
  <2>1. mainPending' \in Seq(Events \cup {Stop})
    <3>1. mainPending \in Seq(Events \cup {Stop}) /\ Stop \in Events \cup {Stop}
      BY DEF TypeOK
    <3>2. Append(mainPending, Stop) \in Seq(Events \cup {Stop})
      BY <3>1
    <3>3. mainPending' = Append(mainPending, Stop) \/ mainPending' = mainPending
      BY <1>12, Zenon DEF LoopStop
    <3> QED BY <3>1, <3>2, <3>3, Zenon
  <2>2. iRefCount' \in Int
    BY <1>12 DEF LoopStop, TypeOK
  <2> QED BY <1>12, <2>1, <2>2, GotoTyped DEF LoopStop, TypeOK, LoopStates
<1>13. CASE LoopRelease(l)
  BY <1>13, GotoTyped DEF LoopRelease, TypeOK, LoopStates
<1> QED BY <1>1, <1>2, <1>3, <1>4, <1>5, <1>6, <1>7, <1>8, <1>9, <1>10, <1>11, <1>12, <1>13
        DEF LoopNext

LEMMA MainTyped ==
  ASSUME TypeOK, MainNext
  PROVE  TypeOK'
<1> USE DEF mainVars, poolVars, countVars, wakeVars, loopVars, MainGoto
<1>1. CASE StartEnds
  BY <1>1 DEF StartEnds, TypeOK, MainStates
<1>2. CASE Dispatch
  BY <1>2, GotoTyped, LoopsAreCallers DEF Dispatch, TypeOK, MainStates, LoopStates
<1>3. CASE MainTake
  BY <1>3 DEF MainTake, TypeOK
<1>4. CASE MainRun
  <2>1. Head(mainBatch) \in Events \cup {Stop} /\ mainBatch' \in Seq(Events \cup {Stop})
    BY <1>4 DEF MainRun, TypeOK
  <2>2. bRunning' \in BOOLEAN /\ main' \in MainStates
    BY <1>4 DEF MainRun, TypeOK, MainStates
  <2>3. iRefCount' \in Int
    BY <1>4 DEF MainRun, TypeOK
  <2>4. fate' \in [Events -> Fates]
    BY <1>4, <2>1 DEF MainRun, Become, Outcome, TypeOK, Fates
  <2> QED BY <1>4, <2>1, <2>2, <2>3, <2>4 DEF MainRun, TypeOK
<1>5. CASE MainWorkEnds
  BY <1>5 DEF MainWorkEnds, TypeOK, MainStates
<1>6. CASE MainDrain
  <2>1. fate' \in [Events -> Fates]
    BY <1>6 DEF MainDrain, CancelAll, TypeOK, Fates
  <2> QED BY <1>6, <2>1 DEF MainDrain, TypeOK, MainStates
<1>7. CASE LoopReturns
  BY <1>7 DEF LoopReturns, TypeOK, MainStates
<1>8. CASE PoolDrain
  <2>1. fate' \in [Events -> Fates]
    BY <1>8 DEF PoolDrain, CancelAll, TypeOK, Fates
  <2> QED BY <1>8, <2>1 DEF PoolDrain, TypeOK, MainStates
<1>9. CASE DispatchReturns
  BY <1>9 DEF DispatchReturns, TypeOK, MainStates
<1>10. CASE OwnerReleases
  BY <1>10 DEF OwnerReleases, TypeOK, MainStates
<1>11. ASSUME NEW l \in Loops, StartLoop(l) PROVE TypeOK'
  BY <1>11, GotoTyped DEF StartLoop, TypeOK, LoopStates
<1> QED BY <1>1, <1>2, <1>3, <1>4, <1>5, <1>6, <1>7, <1>8, <1>9, <1>10, <1>11 DEF MainNext

LEMMA NextTyped == TypeOK /\ [Next]_vars => TypeOK'
<1> SUFFICES ASSUME TypeOK, [Next]_vars PROVE TypeOK'
  OBVIOUS
<1>1. CASE UNCHANGED vars
  BY <1>1 DEF vars, mainVars, poolVars, countVars, wakeVars, loopVars, TypeOK
<1> QED BY <1>1, BeginTyped, CallTyped, LoopTyped, MainTyped DEF Next

(***************************************************************************)
(* Every variable keeps to its type, the calls' records included.          *)
(***************************************************************************)
THEOREM TypeCorrect == Spec => []TypeOK
BY InitTyped, NextTyped, PTL DEF Spec

-----------------------------------------------------------------------------
(* The inductive invariant of NoLostWakeup. *)

\* Before eventIO_start ends nobody calls, and the loops' threads only wait.
NothingStirs ==
  /\ main = "start" => /\ ~queuedFd
                       /\ \A c \in Callers : call[c] = NoCall
                       /\ \A l \in Loops : ~wakeFd[l] /\ loop[l] \in {"off", "poll"}
  /\ main \in {"start", "idle"} /\ uiCocurrentThreads = 0 => \A l \in Loops : loop[l] = "off"

WakeWritten(l) == wakeFd[l] \/ \E c \in Callers : call[c].at = "write" /\ call[c].loop = l

Woken(l) == wakeFd[l] \/ \E c \in Callers : WillWake(c, l)

\* bNotified tells the truth, but for the loop that has read its eventfd and
\* not yet reset it, and for one that is past its last event.
NotifiedBacked ==
  \A l \in Loops : bNotified[l] /\ loop[l] \notin {"woken", "fnStop", "release", "gone"} => WakeWritten(l)

\* Who inserts wakes, unless the loop is about to take the queue anyway.
QueueBacked ==
  \A l \in Loops : queuePending[l] # <<>> /\ loop[l] \notin {"woken", "take"} /\ ~Closed(l) => Woken(l)

PoolBacked ==
  queuedEvent # <<>> => \/ queuedFd
                        \/ \E c \in Callers : call[c].at = "postWrite"
                        \/ \E l \in Loops : loop[l] = "takePool"

WakeInv == NothingStirs /\ NotifiedBacked /\ QueueBacked /\ PoolBacked

LEMMA InitWake == Init => WakeInv
BY DEF Init, WakeInv, NothingStirs, NotifiedBacked, QueueBacked, PoolBacked

LEMMA WakeImplies == WakeInv => NoLostWakeup
BY DEF WakeInv, QueueBacked, PoolBacked, Closed, Woken, NoLostWakeup

\* The steps of the dispatching thread that leave the loops alone.
LEMMA LoopsUntouched ==
  ASSUME WakeInv,
         UNCHANGED <<uiCocurrentThreads, queuedFd, bNotified, wakeFd, queuePending, loop, call>>,
         main' = main \/ main' \notin {"start", "idle"},
         queuedEvent' \in {queuedEvent, <<>>}
  PROVE  WakeInv'
<1>1. NothingStirs'
  BY DEF WakeInv, NothingStirs
<1>2. NotifiedBacked'
  BY DEF WakeInv, NotifiedBacked, WakeWritten
<1>3. QueueBacked'
  BY DEF WakeInv, QueueBacked, Closed, Woken, WillWake
<1>4. PoolBacked'
  BY DEF WakeInv, PoolBacked
<1> QED BY <1>1, <1>2, <1>3, <1>4 DEF WakeInv

\* A loop that goes on from where it owes nobody anything.
LEMMA OutOfRun ==
  ASSUME TypeOK, WakeInv, NEW l \in Loops, NEW at \in LoopStates,
         loop[l] \in {"off", "poll", "run", "work"},
         loop' = [loop EXCEPT ![l] = at] \/ loop' = loop,
         at = "poll" \/ main' # "start",
         UNCHANGED <<uiCocurrentThreads, queuedEvent, queuedFd, bNotified, wakeFd, queuePending,
                     call>>,
         main' = main \/ main' \notin {"start", "idle"},
         main' \in {"start", "idle"} => uiCocurrentThreads # 0 \/ loop' = loop
  PROVE  WakeInv'
<1>1. NothingStirs'
  BY DEF WakeInv, NothingStirs, TypeOK
<1>2. NotifiedBacked'
  BY DEF WakeInv, NotifiedBacked, WakeWritten, TypeOK
<1>3. QueueBacked'
  BY DEF WakeInv, QueueBacked, Closed, Woken, WillWake, TypeOK
<1>4. PoolBacked'
  BY DEF WakeInv, PoolBacked, TypeOK
<1> QED BY <1>1, <1>2, <1>3, <1>4 DEF WakeInv

LEMMA LoopWake ==
  ASSUME TypeOK, WakeInv, NEW l \in Loops, LoopNext(l)
  PROVE  WakeInv'
<1> USE DEF mainVars, poolVars, countVars, wakeVars, Goto, Closed, WakeWritten, Woken, WillWake,
            WakeInv, NothingStirs, NotifiedBacked, QueueBacked, PoolBacked
<1>1. CASE Poll(l)
  BY <1>1 DEF Poll, Readable, TypeOK
<1>2. CASE WakeRead(l)
  BY <1>2 DEF WakeRead, Dispatching, TypeOK
<1>3. CASE WakeStore(l)
  BY <1>3 DEF WakeStore, TypeOK
<1>4. CASE Take(l)
  BY <1>4 DEF Take, TypeOK
<1>5. CASE PoolRead(l)
  BY <1>5, SMTT(20) DEF PoolRead, Dispatching, TypeOK
<1>6. CASE TakePool(l)
  BY <1>6 DEF TakePool, TypeOK
<1>7. CASE Run(l)
  <2>1. loop[l] = "run" /\ (loop' = [loop EXCEPT ![l] = "work"] \/ loop' = loop)
    BY <1>7 DEF Run, TypeOK
  <2>2. UNCHANGED <<main, uiCocurrentThreads, queuedEvent, queuedFd, bNotified, wakeFd,
                    queuePending, call>>
    BY <1>7 DEF Run
  <2>3. "work" \in LoopStates
    BY DEF LoopStates
  <2>4. main # "start" /\ (main = "idle" => uiCocurrentThreads # 0)
    BY <2>1 DEF WakeInv, NothingStirs
  <2> QED BY <2>1, <2>2, <2>3, <2>4, OutOfRun
<1>8. CASE WorkEnds(l)
  BY <1>8 DEF WorkEnds, TypeOK
<1>9. CASE PollAgain(l)
  BY <1>9 DEF PollAgain, Dispatching, TypeOK
<1>10. CASE ClearCancel(l)
  BY <1>10 DEF ClearCancel, loopVars, TypeOK
<1>11. CASE Close(l)
  BY <1>11 DEF Close, TypeOK
<1>12. CASE LoopStop(l)
  BY <1>12 DEF LoopStop, TypeOK
<1>13. CASE LoopRelease(l)
  BY <1>13 DEF LoopRelease, TypeOK
<1> QED BY <1>1, <1>2, <1>3, <1>4, <1>5, <1>6, <1>7, <1>8, <1>9, <1>10, <1>11, <1>12, <1>13
        DEF LoopNext

LEMMA MainWake ==
  ASSUME TypeOK, WakeInv, MainNext
  PROVE  WakeInv'
<1> USE DEF mainVars, poolVars, countVars, wakeVars, loopVars, MainGoto
<1>1. CASE StartEnds
  BY <1>1 DEF StartEnds, TypeOK, Closed, WakeWritten, Woken, WillWake,
              WakeInv, NothingStirs, NotifiedBacked, QueueBacked, PoolBacked
<1>2. CASE Dispatch
  <2>1. CASE uiCocurrentThreads = 0
    <3>1. 1 \in Loops /\ "poll" \in LoopStates
      BY LoopsAreCallers DEF LoopStates
    <3>2. loop[1] = "off"
      BY <1>2, <2>1, <3>1 DEF Dispatch, WakeInv, NothingStirs
    <3>3. loop' = [loop EXCEPT ![1] = "poll"] /\ main' = "loop"
      BY <1>2, <2>1 DEF Dispatch, Goto
    <3>4. UNCHANGED <<uiCocurrentThreads, queuedEvent, queuedFd, bNotified, wakeFd, queuePending,
                      call>>
      BY <1>2 DEF Dispatch
    <3> QED BY <3>1, <3>2, <3>3, <3>4, OutOfRun
  <2>2. CASE uiCocurrentThreads # 0
    BY <1>2, <2>2, LoopsUntouched DEF Dispatch
  <2> QED BY <2>1, <2>2
<1>3. CASE MainTake
  BY <1>3, LoopsUntouched DEF MainTake
<1>4. CASE MainRun
  <2>1. main' = main \/ main' \notin {"start", "idle"}
    BY <1>4 DEF MainRun
  <2> QED BY <1>4, <2>1, LoopsUntouched DEF MainRun
<1>5. CASE MainWorkEnds
  BY <1>5, LoopsUntouched DEF MainWorkEnds
<1>6. CASE MainDrain
  BY <1>6, LoopsUntouched DEF MainDrain
<1>7. CASE LoopReturns
  BY <1>7, LoopsUntouched DEF LoopReturns
<1>8. CASE PoolDrain
  BY <1>8, LoopsUntouched DEF PoolDrain
<1>9. CASE DispatchReturns
  BY <1>9, LoopsUntouched DEF DispatchReturns
<1>10. CASE OwnerReleases
  BY <1>10, LoopsUntouched DEF OwnerReleases
<1>11. ASSUME NEW l \in Loops, StartLoop(l) PROVE WakeInv'
  <2>1. CASE uiCocurrentThreads = 0
    BY <1>11, <2>1, LoopsUntouched DEF StartLoop
  <2>2. CASE uiCocurrentThreads # 0
    <3>1. "poll" \in LoopStates /\ loop[l] \in {"off", "poll"}
      BY <1>11 DEF StartLoop, LoopStates, WakeInv, NothingStirs
    <3>2. loop' = [loop EXCEPT ![l] = "poll"] /\ main' = main
      BY <1>11, <2>2 DEF StartLoop, Goto
    <3>3. UNCHANGED <<uiCocurrentThreads, queuedEvent, queuedFd, bNotified, wakeFd, queuePending,
                      call>>
      BY <1>11 DEF StartLoop
    <3> QED BY <2>2, <3>1, <3>2, <3>3, OutOfRun
  <2> QED BY <2>1, <2>2
<1> QED BY <1>1, <1>2, <1>3, <1>4, <1>5, <1>6, <1>7, <1>8, <1>9, <1>10, <1>11 DEF MainNext

\* A call begins that has nothing inserted yet.
LEMMA CallEntered ==
  ASSUME TypeOK, WakeInv, NEW c \in Callers, main # "start",
         call[c].at = "none", NEW k, call' = [call EXCEPT ![c] = k],
         UNCHANGED <<uiCocurrentThreads, main, queuedEvent, queuedFd, bNotified, wakeFd,
                     queuePending, loop>>
  PROVE  WakeInv'
<1>1. \A d \in Callers : d # c => call'[d] = call[d]
  BY DEF TypeOK
<1>2. \A d \in Callers, l \in Loops : WillWake(d, l) => WillWake(d, l)'
  BY <1>1 DEF WillWake
<1>3. NothingStirs'
  BY DEF WakeInv, NothingStirs
<1>4. NotifiedBacked'
  BY <1>1 DEF WakeInv, NotifiedBacked, WakeWritten
<1>5. QueueBacked'
  BY <1>2 DEF WakeInv, QueueBacked, Closed, Woken
<1>6. PoolBacked'
  BY <1>1 DEF WakeInv, PoolBacked
<1> QED BY <1>3, <1>4, <1>5, <1>6 DEF WakeInv

LEMMA BeginWake ==
  ASSUME TypeOK, WakeInv, NEW c \in Callers, Begin(c)
  PROVE  WakeInv'
<1> USE DEF mainVars, poolVars, countVars, wakeVars, loopVars
<1>1. main # "start"
  <2> SUFFICES ASSUME main = "start" PROVE FALSE
    OBVIOUS
  <2>1. MayCall(c)
    BY DEF Begin, CallStop, PostCheck, QueueInMain, RunHere, QueueInLoop
  <2>2. c \in Loops /\ loop[c] = "work"
    BY <2>1 DEF MayCall, Callers
  <2> QED BY <2>2 DEF WakeInv, NothingStirs
<1>2. CASE CallStop(c)
  <2>1. /\ call[c].at = "none"
        /\ call' = [call EXCEPT ![c] = [at |-> "stop", loop |-> 1, stops |-> TRUE]]
        /\ UNCHANGED <<uiCocurrentThreads, main, queuedEvent, queuedFd, bNotified, wakeFd,
                       queuePending, loop>>
    BY <1>2 DEF CallStop, MayCall, NoCall, Enter
  <2> QED BY <1>1, <2>1, CallEntered
<1>3. ASSUME NEW e \in Events, PostCheck(c, e) PROVE WakeInv'
  <2>1. /\ call[c].at = "none"
        /\ call' = [call EXCEPT ![c] = IF bLoopRunning THEN [at |-> "post", item |-> e]
                                       ELSE NoCall]
        /\ UNCHANGED <<uiCocurrentThreads, main, queuedEvent, queuedFd, bNotified, wakeFd,
                       queuePending, loop>>
    BY <1>3 DEF PostCheck, MayCall, NoCall, Enter
  <2> QED BY <1>1, <2>1, CallEntered
<1>4. ASSUME NEW e \in Events, QueueInMain(c, e) PROVE WakeInv'
  BY <1>4, LoopsUntouched DEF QueueInMain
<1>5. ASSUME NEW e \in Events, RunHere(c, e) PROVE WakeInv'
  BY <1>5, LoopsUntouched DEF RunHere
<1>6. ASSUME NEW e \in Events, NEW l \in Loops, QueueInLoop(c, e, l) PROVE WakeInv'
  <2>1. \A k \in Loops : k # l => queuePending'[k] = queuePending[k]
    BY <1>6 DEF QueueInLoop, Put, TypeOK
  <2>2. call' = [call EXCEPT ![c] = [at |-> "notify", loop |-> l, stops |-> FALSE]]
    BY <1>6 DEF QueueInLoop, Enter
  <2>3. call[c] = [at |-> "none"]
    BY <1>6 DEF QueueInLoop, MayCall, NoCall
  <2> HIDE DEF mainVars, poolVars, countVars, wakeVars, loopVars
  <2>4. UNCHANGED <<main, uiCocurrentThreads, queuedEvent, queuedFd, bNotified, wakeFd, loop>>
    BY <1>6 DEF QueueInLoop, mainVars, poolVars, countVars, wakeVars, loopVars
  <2>5. WillWake(c, l)'
    BY <2>2 DEF WillWake, TypeOK
  <2>6. \A d \in Callers, k \in Loops : WillWake(d, k) => WillWake(d, k)'
    BY <2>2, <2>3 DEF WillWake, TypeOK
  <2>7. QueueBacked'
    BY <2>1, <2>4, <2>5, <2>6 DEF QueueBacked, WakeInv, Woken, Closed
  <2>8. NothingStirs' /\ NotifiedBacked' /\ PoolBacked'
    BY <1>1, <2>2, <2>3, <2>4 DEF WakeInv, NothingStirs, NotifiedBacked, WakeWritten, PoolBacked, TypeOK
  <2> QED BY <2>7, <2>8 DEF WakeInv
<1> QED BY <1>2, <1>3, <1>4, <1>5, <1>6 DEF Begin

\* What a call's end does to it: eventIO_stop goes on to another loop.
LEMMA CallEnded ==
  ASSUME TypeOK, NEW c \in Callers, CallEnds(c)
  PROVE  /\ \A d \in Callers : d # c => call'[d] = call[d]
         /\ call'[c].at \in {"none", "stop"}
BY DEF CallEnds, Enter, NoCall, TypeOK

LEMMA CallWake ==
  ASSUME TypeOK, WakeInv, NEW c \in Callers, CallNext(c)
  PROVE  WakeInv'
<1>1. call[c].at # "none" /\ main # "start"
  <2>1. call[c].at # "none"
    BY DEF CallNext, PostInsert, PostWrite, NotifyLoad, NotifyStore, NotifyWrite, StopInsert
  <2> QED BY <2>1 DEF WakeInv, NothingStirs, NoCall
<1>2. CASE PostInsert(c)
  <2>1. /\ UNCHANGED <<uiCocurrentThreads, main, queuedFd, bNotified, wakeFd, queuePending, loop>>
        /\ call' = [call EXCEPT ![c] = [at |-> "postWrite"]]
    BY <1>2 DEF PostInsert, Enter, mainVars, wakeVars, loopVars
  <2>2. /\ \A d \in Callers : d # c => call'[d] = call[d]
        /\ call'[c].at = "postWrite" /\ call[c].at = "post"
    BY <1>2, <2>1 DEF PostInsert, TypeOK
  <2>3. \A d \in Callers, l \in Loops : WillWake(d, l) => WillWake(d, l)'
    BY <2>2 DEF WillWake
  <2>4. NothingStirs' /\ PoolBacked'
    BY <1>1, <2>1, <2>2 DEF WakeInv, NothingStirs, PoolBacked
  <2>5. NotifiedBacked'
    BY <2>1, <2>2 DEF WakeInv, NotifiedBacked, WakeWritten
  <2>6. QueueBacked'
    BY <2>1, <2>3 DEF WakeInv, QueueBacked, Closed, Woken
  <2> QED BY <2>4, <2>5, <2>6 DEF WakeInv
<1>3. CASE PostWrite(c)
  <2>1. /\ UNCHANGED <<uiCocurrentThreads, main, bNotified, wakeFd, queuePending, loop>>
        /\ queuedFd' = TRUE
        /\ call' = [call EXCEPT ![c] = NoCall]
    BY <1>3 DEF PostWrite, Enter, mainVars, wakeVars, loopVars
  <2>2. /\ \A d \in Callers : d # c => call'[d] = call[d]
        /\ call[c].at = "postWrite"
    BY <1>3, <2>1 DEF PostWrite, TypeOK
  <2>3. \A d \in Callers, l \in Loops : WillWake(d, l) => WillWake(d, l)'
    BY <2>2 DEF WillWake
  <2>4. NothingStirs' /\ PoolBacked'
    BY <1>1, <2>1 DEF WakeInv, NothingStirs, PoolBacked
  <2>5. NotifiedBacked'
    BY <2>1, <2>2 DEF WakeInv, NotifiedBacked, WakeWritten
  <2>6. QueueBacked'
    BY <2>1, <2>3 DEF WakeInv, QueueBacked, Closed, Woken
  <2> QED BY <2>4, <2>5, <2>6 DEF WakeInv
<1>4. CASE NotifyLoad(c)
  <2>1. /\ UNCHANGED <<uiCocurrentThreads, main, queuedEvent, queuedFd, bNotified, wakeFd,
                        queuePending, loop>>
        /\ call[c].at = "notify"
    BY <1>4 DEF NotifyLoad, mainVars, poolVars, wakeVars, loopVars
  <2>2. call[c] \in LoopCalls
    BY <2>1, CallKinds DEF TypeOK
  <2>3. PICK own \in Loops : own = call[c].loop
    BY <2>2, LoopCallTyped
  <2>4. \A d \in Callers : d # c => call'[d] = call[d]
    BY <1>4, CallEnded DEF NotifyLoad, Advance, Enter, TypeOK
  <2>5. NothingStirs' /\ NotifiedBacked' /\ PoolBacked'
    BY <1>1, <2>1, <2>4 DEF WakeInv, NothingStirs, NotifiedBacked, WakeWritten, PoolBacked
  <2>6. QueueBacked'
    <3>1. CASE bNotified[own]
      <4>1. \A d \in Callers, l \in Loops : WillWake(d, l) /\ l # own => WillWake(d, l)'
        BY <2>3, <2>4 DEF WillWake
      <4>2. WakeWritten(own) => Woken(own)'
        BY <2>1, <2>4 DEF WakeWritten, Woken, WillWake
      <4>3. Closed(own) \/ loop[own] = "woken" \/ Woken(own)'
        BY <3>1, <4>2 DEF WakeInv, NotifiedBacked, Closed
      <4> QED BY <2>1, <4>1, <4>3 DEF WakeInv, QueueBacked, Woken, Closed
    <3>2. CASE ~bNotified[own]
      <4>1. call' = [call EXCEPT ![c] = [call[c] EXCEPT !.at = "store"]]
        BY <1>4, <2>3, <3>2 DEF NotifyLoad, Advance, Enter
      <4>2. call'[c].at = "store" /\ call'[c].loop = call[c].loop
        BY <2>2, <4>1, LoopCallTyped DEF TypeOK
      <4>3. \A d \in Callers, l \in Loops : WillWake(d, l) => WillWake(d, l)'
        BY <2>4, <4>2 DEF WillWake
      <4> QED BY <2>1, <4>3 DEF WakeInv, QueueBacked, Woken, Closed
    <3> QED BY <3>1, <3>2
  <2> QED BY <2>5, <2>6 DEF WakeInv
<1>5. CASE NotifyStore(c)
  <2>1. /\ UNCHANGED <<uiCocurrentThreads, main, queuedEvent, queuedFd, wakeFd, queuePending,
                        loop>>
        /\ call[c].at = "store"
        /\ bNotified' = [bNotified EXCEPT ![call[c].loop] = TRUE]
        /\ call' = [call EXCEPT ![c] = [call[c] EXCEPT !.at = "write"]]
    BY <1>5 DEF NotifyStore, Advance, Enter, mainVars, poolVars, loopVars
  <2>2. call[c] \in LoopCalls
    BY <2>1, CallKinds DEF TypeOK
  <2>3. PICK own \in Loops : own = call[c].loop
    BY <2>2, LoopCallTyped
  <2>4. /\ \A d \in Callers : d # c => call'[d] = call[d]
        /\ call'[c].at = "write" /\ call'[c].loop = own
    BY <2>1, <2>2, <2>3, LoopCallTyped DEF TypeOK
  <2>5. NothingStirs' /\ PoolBacked'
    BY <1>1, <2>1, <2>4 DEF WakeInv, NothingStirs, PoolBacked
  <2>6. NotifiedBacked'
    <3>1. WakeWritten(own)'
      BY <2>4 DEF WakeWritten
    <3>2. \A l \in Loops : WakeWritten(l) => WakeWritten(l)'
      BY <2>1, <2>4 DEF WakeWritten
    <3>3. \A l \in Loops : l # own => bNotified'[l] = bNotified[l]
      BY <2>1, <2>3 DEF TypeOK
    <3> QED BY <2>1, <3>1, <3>2, <3>3 DEF WakeInv, NotifiedBacked
  <2>7. QueueBacked'
    <3>1. \A d \in Callers, l \in Loops : WillWake(d, l) => WillWake(d, l)'
      BY <2>3, <2>4 DEF WillWake
    <3> QED BY <2>1, <3>1 DEF WakeInv, QueueBacked, Woken, Closed
  <2> QED BY <2>5, <2>6, <2>7 DEF WakeInv
<1>6. CASE NotifyWrite(c)
  <2>1. /\ UNCHANGED <<uiCocurrentThreads, main, queuedEvent, queuedFd, bNotified, queuePending,
                        loop>>
        /\ call[c].at = "write"
        /\ wakeFd' = [wakeFd EXCEPT ![call[c].loop] =
                        loop[call[c].loop] \notin {"fnStop", "release", "gone"}]
    BY <1>6 DEF NotifyWrite, mainVars, poolVars, loopVars
  <2>2. call[c] \in LoopCalls
    BY <2>1, CallKinds DEF TypeOK
  <2>3. PICK own \in Loops : own = call[c].loop
    BY <2>2, LoopCallTyped
  <2>4. \A d \in Callers : d # c => call'[d] = call[d]
    BY <1>6, CallEnded DEF NotifyWrite
  <2>5. /\ loop[own] \notin {"fnStop", "release", "gone"} => wakeFd'[own]
        /\ \A l \in Loops : l # own => wakeFd'[l] = wakeFd[l]
    BY <2>1, <2>3 DEF TypeOK
  <2>6. NothingStirs' /\ PoolBacked'
    BY <1>1, <2>1, <2>4 DEF WakeInv, NothingStirs, PoolBacked
  <2>7. NotifiedBacked'
    <3>1. \A l \in Loops : l # own /\ WakeWritten(l) => WakeWritten(l)'
      BY <2>3, <2>4, <2>5 DEF WakeWritten
    <3> QED BY <2>1, <2>5, <3>1 DEF WakeInv, NotifiedBacked, WakeWritten
  <2>8. QueueBacked'
    <3>1. \A l \in Loops : l # own /\ Woken(l) => Woken(l)'
      BY <2>3, <2>4, <2>5 DEF Woken, WillWake
    <3> QED BY <2>1, <2>5, <3>1 DEF WakeInv, QueueBacked, Woken, Closed
  <2> QED BY <2>6, <2>7, <2>8 DEF WakeInv
<1>7. CASE StopInsert(c)
  <2>1. /\ UNCHANGED <<uiCocurrentThreads, main, queuedEvent, queuedFd, bNotified, wakeFd, loop>>
        /\ call[c].at = "stop"
        /\ queuePending' = [queuePending EXCEPT ![call[c].loop] = Append(@, Stop)]
        /\ call' = [call EXCEPT ![c] = [call[c] EXCEPT !.at = "notify"]]
    BY <1>7 DEF StopInsert, Advance, Enter, mainVars, poolVars, wakeVars, loopVars
  <2>2. call[c] \in LoopCalls
    BY <2>1, CallKinds DEF TypeOK
  <2>3. PICK own \in Loops : own = call[c].loop
    BY <2>2, LoopCallTyped
  <2>4. /\ \A d \in Callers : d # c => call'[d] = call[d]
        /\ call'[c].at = "notify" /\ call'[c].loop = own
    BY <2>1, <2>2, <2>3, LoopCallTyped DEF TypeOK
  <2>5. \A l \in Loops : l # own => queuePending'[l] = queuePending[l]
    BY <2>1, <2>3 DEF TypeOK
  <2>6. NothingStirs' /\ PoolBacked'
    BY <1>1, <2>1, <2>4 DEF WakeInv, NothingStirs, PoolBacked
  <2>7. NotifiedBacked'
    BY <2>1, <2>4 DEF WakeInv, NotifiedBacked, WakeWritten
  <2>8. QueueBacked'
    <3>1. \A d \in Callers, l \in Loops : WillWake(d, l) => WillWake(d, l)'
      BY <2>1, <2>4 DEF WillWake
    <3>2. Woken(own)'
      BY <2>4 DEF Woken, WillWake
    <3> QED BY <2>1, <2>5, <3>1, <3>2 DEF WakeInv, QueueBacked, Woken, Closed
  <2> QED BY <2>6, <2>7, <2>8 DEF WakeInv
<1> QED BY <1>2, <1>3, <1>4, <1>5, <1>6, <1>7 DEF CallNext

LEMMA NextWake == TypeOK /\ WakeInv /\ [Next]_vars => WakeInv'
<1> SUFFICES ASSUME TypeOK, WakeInv, [Next]_vars PROVE WakeInv'
  OBVIOUS
<1>1. CASE UNCHANGED vars
  BY <1>1, LoopsUntouched DEF vars, mainVars, poolVars, countVars, wakeVars, loopVars
<1> QED BY <1>1, BeginWake, CallWake, LoopWake, MainWake DEF Next

(***************************************************************************)
(* However many loops there are, whichever threads post to them and stop   *)
(* them, and however the load, the store and the write of                  *)
(* wakeupEvent_notify interleave with the read and the store of            *)
(* wakeupEvent_handleEvent: no loop waits in its poller on an event that   *)
(* nobody is about to wake it for.                                         *)
(***************************************************************************)
THEOREM NoLoopOversleeps == Spec => []NoLostWakeup
<1>1. Init => TypeOK /\ WakeInv
  BY InitTyped, InitWake
<1>2. TypeOK /\ WakeInv /\ [Next]_vars => (TypeOK /\ WakeInv)'
  BY NextTyped, NextWake
<1> QED BY <1>1, <1>2, WakeImplies, PTL DEF Spec
-----------------------------------------------------------------------------
(* Who holds a reference: the owner, eventIO_dispatch, each loop, and the  *)
(* event that the last loop to leave sends to the dispatching thread.      *)

Owner == IF main = "gone" THEN 0 ELSE 1

Dispatcher == IF main \in {"start", "done", "gone"} THEN 0 ELSE 1

\* A loop that has been started holds one also before it is run.
InLoops == {l \in Loops : loop[l] # "gone" /\ (loop[l] # "off" \/ loopRunning[l])}

StopsAt(q) == {i \in 1..Len(q) : q[i] = Stop}

Stops(q) == Cardinality(StopsAt(q))

StopsQueued == Stops(mainPending) + Stops(mainBatch)

RefsExact == iRefCount = Owner + Dispatcher + Cardinality(InLoops) + StopsQueued

\* The loops with threads that have not called eventIO_loopStop.
Unstopped == {l \in 1..uiCocurrentThreads : loop[l] \notin {"release", "gone"}}

\* The last loop sends one event, and the dispatching thread returns after it.
StopInv ==
  /\ uiCocurrentRunning = Cardinality(Unstopped)
  /\ StopsQueued <= 1
  /\ StopsQueued > 0 => Unstopped = {}
  /\ main \in {"run", "work"} /\ ~bRunning => Unstopped = {} /\ StopsQueued = 0

StartInv ==
  /\ \A l \in Loops : loop[l] # "off" => l \in Running
  /\ main = "start" => \A l \in Loops : loop[l] = "off" \/ loopRunning[l]
  /\ main = "idle" /\ uiCocurrentThreads = 0 => loopRunning[1]
  /\ \A l \in Loops : loop[l] = "fnStop" => uiCocurrentThreads # 0

RefInv == RefsExact /\ StopInv /\ StartInv

LEMMA StopsType ==
  ASSUME NEW S, NEW q \in Seq(S)
  PROVE  IsFiniteSet(StopsAt(q)) /\ Stops(q) \in Nat
<1>1. StopsAt(q) \in SUBSET (1..Len(q)) /\ IsFiniteSet(1..Len(q))
  BY FS_Interval DEF StopsAt
<1> QED BY <1>1, FS_Subset, FS_CardinalityType DEF Stops

LEMMA StopsEmpty == Stops(<<>>) = 0
<1>1. StopsAt(<<>>) = {}
  BY DEF StopsAt
<1> QED BY <1>1, FS_EmptySet DEF Stops

LEMMA StopsAppend ==
  ASSUME NEW S, NEW q \in Seq(S), NEW e \in S
  PROVE  Stops(Append(q, e)) = IF e = Stop THEN Stops(q) + 1 ELSE Stops(q)
<1> DEFINE n == Len(q) + 1
<1>1. /\ Len(q) \in Nat /\ Len(Append(q, e)) = n /\ Append(q, e)[n] = e
      /\ \A i \in 1..Len(q) : Append(q, e)[i] = q[i]
  OBVIOUS
<1>2. n \notin StopsAt(q)
  BY <1>1 DEF StopsAt
<1>3. StopsAt(Append(q, e)) = IF e = Stop THEN StopsAt(q) \cup {n} ELSE StopsAt(q)
  BY <1>1 DEF StopsAt
<1> QED BY <1>2, <1>3, StopsType, FS_AddElement DEF Stops

LEMMA StopsTail ==
  ASSUME NEW S, NEW q \in Seq(S), q # <<>>
  PROVE  Stops(Tail(q)) = IF Head(q) = Stop THEN Stops(q) - 1 ELSE Stops(q)
<1> DEFINE T == StopsAt(Tail(q))
           P == StopsAt(q) \ {1}
           shift == [i \in T |-> i + 1]
<1>1. /\ Len(q) \in Nat /\ Len(q) > 0 /\ Tail(q) \in Seq(S) /\ Len(Tail(q)) = Len(q) - 1
      /\ Head(q) = q[1]
      /\ \A i \in 1..Len(Tail(q)) : Tail(q)[i] = q[i + 1]
  OBVIOUS
<1>2. T \subseteq Nat /\ \A i \in T : i \in 1..(Len(q) - 1) /\ q[i + 1] = Stop
  BY <1>1 DEF StopsAt
<1>3. \A i \in 1..(Len(q) - 1) : q[i + 1] = Stop => i \in T
  BY <1>1 DEF StopsAt
<1>4. \A j \in P : j - 1 \in T /\ (j - 1) + 1 = j
  <2> TAKE j \in P
  <2>1. j \in 1..Len(q) /\ q[j] = Stop /\ j # 1
    BY DEF StopsAt
  <2>2. j - 1 \in 1..(Len(q) - 1) /\ (j - 1) + 1 = j
    BY <1>1, <2>1
  <2> QED BY <1>3, <2>1, <2>2
<1>5. \A i \in T : i + 1 \in P
  BY <1>1, <1>2 DEF StopsAt
<1> HIDE DEF T, P
<1>6. shift \in [T -> P] /\ DOMAIN shift = T /\ \A i \in T : shift[i] = i + 1
  BY <1>5
<1>7. \A i, j \in T : shift[i] = shift[j] => i = j
  BY <1>2, <1>6
<1>8. \A j \in P : \E i \in T : shift[i] = j
  BY <1>4, <1>6
<1> HIDE DEF shift
<1>9. shift \in Bijection(T, P)
  BY <1>6, <1>7, <1>8 DEF Bijection, Injection, Surjection, IsInjective
<1>10. IsFiniteSet(T) /\ Cardinality(P) = Cardinality(T)
  <2>1. IsFiniteSet(T)
    BY <1>1, StopsType DEF T
  <2> QED BY <1>9, <2>1, FS_Bijection DEF ExistsBijection
<1>11. Cardinality(P) = IF Head(q) = Stop THEN Stops(q) - 1 ELSE Stops(q)
  <2>1. 1 \in StopsAt(q) <=> Head(q) = Stop
    BY <1>1 DEF StopsAt
  <2> QED BY <2>1, StopsType, FS_RemoveElement DEF P, Stops
<1> QED BY <1>10, <1>11 DEF Stops, T

LEMMA HeadCounts ==
  ASSUME NEW S, NEW q \in Seq(S), q # <<>>, Head(q) = Stop
  PROVE  Stops(q) > 0
<1>1. 1 \in StopsAt(q)
  BY DEF StopsAt
<1>2. Stops(q) # 0
  BY <1>1, StopsType, FS_EmptySet DEF Stops
<1> QED BY <1>2, StopsType

LEMMA RefTypes ==
  ASSUME TypeOK
  PROVE  /\ IsFiniteSet(InLoops) /\ Cardinality(InLoops) \in Nat
         /\ IsFiniteSet(Unstopped) /\ Cardinality(Unstopped) \in Nat
         /\ Owner \in 0..1 /\ Dispatcher \in 0..1
         /\ Stops(mainPending) \in Nat /\ Stops(mainBatch) \in Nat
<1>1. IsFiniteSet(Loops) /\ IsFiniteSet(1..uiCocurrentThreads)
  BY FS_Interval, LoopsAreBounded DEF TypeOK, Loops
<1>2. InLoops \in SUBSET Loops /\ Unstopped \in SUBSET (1..uiCocurrentThreads)
  BY DEF InLoops, Unstopped
<1>3. Stops(mainPending) \in Nat /\ Stops(mainBatch) \in Nat
  BY StopsType DEF TypeOK
<1>4. IsFiniteSet(InLoops) /\ IsFiniteSet(Unstopped)
  BY <1>1, <1>2, FS_Subset
<1>5. Cardinality(InLoops) \in Nat /\ Cardinality(Unstopped) \in Nat
  BY <1>4, FS_CardinalityType
<1>6. Owner \in 0..1 /\ Dispatcher \in 0..1
  BY DEF Owner, Dispatcher
<1> QED BY <1>3, <1>4, <1>5, <1>6

LEMMA InitRefs == Init => RefInv
<1> SUFFICES ASSUME Init PROVE RefInv
  OBVIOUS
<1>1. InLoops = {} /\ Cardinality(InLoops) = 0
  <2>1. InLoops = {}
    BY DEF Init, InLoops
  <2> QED BY <2>1, FS_EmptySet
<1>2. StopsQueued = 0
  BY StopsEmpty DEF Init, StopsQueued
<1>3. uiCocurrentRunning = Cardinality(Unstopped)
  <2>1. uiCocurrentThreads \in Nat /\ uiCocurrentThreads <= MaxLoops
    BY LoopsAreBounded DEF Init
  <2>2. \A l \in 1..uiCocurrentThreads : l \in Loops
    BY <2>1, LoopsAreBounded DEF Loops
  <2>3. Unstopped = 1..uiCocurrentThreads
    BY <2>2 DEF Init, Unstopped
  <2>4. Cardinality(1..uiCocurrentThreads) = uiCocurrentThreads
    BY <2>1, FS_Interval
  <2> QED BY <2>3, <2>4 DEF Init
<1>4. RefsExact /\ StopInv
  BY <1>1, <1>2, <1>3 DEF Init, RefsExact, StopInv, Owner, Dispatcher
<1>5. StartInv
  BY DEF Init, StartInv
<1> QED BY <1>4, <1>5 DEF RefInv

\* What the counts do not see: the events of the queues, and who does what where.
LEMMA RefsUntouched ==
  ASSUME RefInv, StartInv',
         UNCHANGED <<uiCocurrentRunning, iRefCount>>,
         Owner' = Owner, Dispatcher' = Dispatcher, InLoops' = InLoops, Unstopped' = Unstopped,
         StopsQueued' = StopsQueued,
         main' \in {"run", "work"} /\ ~bRunning' =>
           (main \in {"run", "work"} /\ ~bRunning) \/ (Unstopped = {} /\ StopsQueued = 0)
  PROVE  RefInv'
<1>1. RefsExact'
  BY DEF RefInv, RefsExact
<1>2. StopInv'
  BY DEF RefInv, StopInv
<1> QED BY <1>1, <1>2 DEF RefInv

LEMMA CallRefs ==
  ASSUME TypeOK, RefInv, NEW c \in Callers, Begin(c) \/ CallNext(c)
  PROVE  RefInv'
<1> USE DEF mainVars, poolVars, countVars, wakeVars, loopVars
<1>1. /\ UNCHANGED <<uiCocurrentThreads, bRunning, main, mainBatch, loop, loopRunning>>
      /\ UNCHANGED <<uiCocurrentRunning, iRefCount>>
  <2>1. CASE Begin(c)
    BY <2>1 DEF Begin, CallStop, PostCheck, QueueInMain, RunHere, QueueInLoop
  <2>2. CASE CallNext(c)
    BY <2>2 DEF CallNext, PostInsert, PostWrite, NotifyLoad, NotifyStore, NotifyWrite, StopInsert
  <2> QED BY <2>1, <2>2
<1>2. mainPending' = mainPending \/ \E e \in Events : mainPending' = Append(mainPending, e)
  <2>1. CASE Begin(c)
    BY <2>1 DEF Begin, CallStop, PostCheck, QueueInMain, RunHere, QueueInLoop
  <2>2. CASE CallNext(c)
    BY <2>2 DEF CallNext, PostInsert, PostWrite, NotifyLoad, NotifyStore, NotifyWrite, StopInsert
  <2> QED BY <2>1, <2>2
<1>3. Stops(mainPending') = Stops(mainPending)
  <2>1. ASSUME NEW e \in Events, mainPending' = Append(mainPending, e)
        PROVE  Stops(mainPending') = Stops(mainPending)
    <3>1. e \in Events \cup {Stop} /\ mainPending \in Seq(Events \cup {Stop}) /\ e # Stop
      BY StopIsNoEvent DEF TypeOK
    <3> QED BY <2>1, <3>1, StopsAppend
  <2> QED BY <1>2, <2>1
<1>4. StopsQueued' = StopsQueued
  BY <1>1, <1>3 DEF StopsQueued
<1>5. /\ Owner' = Owner /\ Dispatcher' = Dispatcher /\ InLoops' = InLoops
      /\ Unstopped' = Unstopped
  BY <1>1 DEF Owner, Dispatcher, InLoops, Unstopped
<1>6. StartInv'
  BY <1>1 DEF RefInv, StartInv, Running
<1> QED BY <1>1, <1>4, <1>5, <1>6, RefsUntouched

\* A loop goes on inside.
LEMMA LoopMoved ==
  ASSUME TypeOK, WakeInv, RefInv, NEW l \in Loops, NEW at,
         loop[l] \notin {"off", "release", "gone"}, at \notin {"off", "gone"},
         at = "release" => uiCocurrentThreads = 0,
         at = "fnStop" => uiCocurrentThreads # 0,
         loop' = [loop EXCEPT ![l] = at],
         \A k \in Loops : k # l => loopRunning'[k] = loopRunning[k],
         loop[l] = "poll" => loopRunning' = loopRunning,
         UNCHANGED <<uiCocurrentThreads, bRunning, main, mainPending, mainBatch>>,
         UNCHANGED <<uiCocurrentRunning, iRefCount>>
  PROVE  RefInv'
<1>1. \A k \in Loops : loop'[k] = IF k = l THEN at ELSE loop[k]
  BY DEF TypeOK
<1>2. InLoops' = InLoops
  BY <1>1 DEF InLoops
<1>3. Unstopped' = Unstopped
  <2>1. \A k \in 1..uiCocurrentThreads : k \in Loops
    BY LoopsAreBounded DEF TypeOK, Loops
  <2>2. at = "release" => 1..uiCocurrentThreads = {}
    OBVIOUS
  <2> QED BY <1>1, <2>1, <2>2 DEF Unstopped
<1>4. StartInv'
  <2>1. main = "start" => loopRunning' = loopRunning
    BY DEF WakeInv, NothingStirs
  <2>2. main = "idle" => uiCocurrentThreads # 0
    BY DEF WakeInv, NothingStirs
  <2> QED BY <1>1, <2>1, <2>2 DEF RefInv, StartInv, Running
<1> QED BY <1>2, <1>3, <1>4, RefsUntouched DEF Owner, Dispatcher, StopsQueued

LEMMA LoopStopRefs ==
  ASSUME TypeOK, WakeInv, RefInv, NEW l \in Loops, LoopStop(l)
  PROVE  RefInv'
<1>1. /\ loop[l] = "fnStop"
      /\ \A k \in Loops : loop'[k] = IF k = l THEN "release" ELSE loop[k]
      /\ uiCocurrentRunning' = uiCocurrentRunning - 1
      /\ UNCHANGED <<uiCocurrentThreads, bRunning, main, mainBatch, loopRunning>>
  BY DEF LoopStop, Goto, TypeOK
<1>2. uiCocurrentThreads \in 0..MaxLoops /\ MaxLoops \in Nat
  BY LoopsAreBounded DEF TypeOK
<1>3. uiCocurrentThreads = 0 \/ l \in 1..uiCocurrentThreads
  BY <1>1, <1>2 DEF RefInv, StartInv, Running
<1>4. InLoops' = InLoops
  BY <1>1 DEF InLoops
<1>5. StartInv'
  <2>1. main # "start"
    BY <1>1 DEF WakeInv, NothingStirs
  <2> QED BY <1>1, <2>1 DEF RefInv, StartInv, Running
<1>6. /\ Owner' = Owner /\ Dispatcher' = Dispatcher
      /\ Owner \in 0..1 /\ Dispatcher \in 0..1
      /\ Cardinality(InLoops) \in Nat /\ Cardinality(Unstopped) \in Nat /\ IsFiniteSet(Unstopped)
      /\ Stops(mainPending) \in Nat /\ Stops(mainBatch) \in Nat
  BY <1>1, RefTypes DEF Owner, Dispatcher
<1>7. l \in Unstopped
  <2>1. uiCocurrentThreads # 0
    <3> SUFFICES ASSUME uiCocurrentThreads = 0 PROVE FALSE
      OBVIOUS
    <3> QED BY <1>1 DEF RefInv, StartInv
  <2> QED BY <1>1, <1>3, <2>1 DEF Unstopped
<1>8. /\ Unstopped' = Unstopped \ {l}
      /\ Cardinality(Unstopped') = Cardinality(Unstopped) - 1
  <2>1. \A k \in 1..uiCocurrentThreads : k \in Loops
    BY <1>2 DEF Loops
  <2>2. Unstopped' = Unstopped \ {l}
    BY <1>1, <2>1 DEF Unstopped
  <2> QED BY <1>6, <1>7, <2>2, FS_RemoveElement
<1>9. StopsQueued = 0 /\ ~(main \in {"run", "work"} /\ ~bRunning)
  BY <1>6, <1>7 DEF RefInv, StopInv, StopsQueued
<1>10. CASE uiCocurrentRunning = 1
  <2>1. iRefCount' = iRefCount + 1 /\ mainPending' = Append(mainPending, Stop)
    BY <1>10 DEF LoopStop
  <2>2. Stops(mainPending') = Stops(mainPending) + 1
    BY <2>1, StopsAppend DEF TypeOK
  <2>3. StopsQueued' = 1
    BY <1>1, <1>6, <1>9, <2>2 DEF StopsQueued
  <2>4. Unstopped' = {}
    <3>1. Cardinality(Unstopped') = 0
      BY <1>8, <1>10 DEF RefInv, StopInv
    <3> QED BY <1>6, <1>8, <3>1, FS_RemoveElement, FS_EmptySet
  <2>5. RefsExact'
    BY <1>4, <1>6, <1>9, <2>1, <2>3 DEF RefInv, RefsExact
  <2>6. StopInv'
    BY <1>1, <1>8, <1>9, <2>3, <2>4 DEF RefInv, StopInv
  <2> QED BY <1>5, <2>5, <2>6 DEF RefInv
<1>11. CASE uiCocurrentRunning # 1
  <2>1. iRefCount' = iRefCount /\ mainPending' = mainPending
    BY <1>11 DEF LoopStop
  <2>2. StopsQueued' = 0
    BY <1>1, <1>9, <2>1 DEF StopsQueued
  <2>3. RefsExact'
    BY <1>4, <1>6, <1>9, <2>1, <2>2 DEF RefInv, RefsExact
  <2>4. StopInv'
    BY <1>1, <1>8, <1>9, <2>2 DEF RefInv, StopInv
  <2> QED BY <1>5, <2>3, <2>4 DEF RefInv
<1> QED BY <1>10, <1>11

LEMMA LoopReleaseRefs ==
  ASSUME TypeOK, WakeInv, RefInv, NEW l \in Loops, LoopRelease(l)
  PROVE  RefInv'
<1>1. /\ loop[l] = "release"
      /\ \A k \in Loops : loop'[k] = IF k = l THEN "gone" ELSE loop[k]
      /\ iRefCount' = iRefCount - 1
      /\ UNCHANGED <<uiCocurrentThreads, bRunning, main, mainPending, mainBatch, loopRunning,
                     uiCocurrentRunning>>
  BY DEF LoopRelease, Goto, TypeOK, mainVars
<1>2. InLoops' = InLoops \ {l} /\ l \in InLoops
  BY <1>1 DEF InLoops
<1>3. Unstopped' = Unstopped
  <2>1. \A k \in 1..uiCocurrentThreads : k \in Loops
    BY LoopsAreBounded DEF TypeOK, Loops
  <2> QED BY <1>1, <2>1 DEF Unstopped
<1>4. StartInv'
  BY <1>1 DEF RefInv, StartInv, Running, WakeInv, NothingStirs
<1>5. /\ Owner' = Owner /\ Dispatcher' = Dispatcher /\ StopsQueued' = StopsQueued
      /\ StopsQueued \in Nat
      /\ Owner \in 0..1 /\ Dispatcher \in 0..1
      /\ Cardinality(InLoops) \in Nat /\ IsFiniteSet(InLoops)
  BY <1>1, RefTypes DEF Owner, Dispatcher, StopsQueued
<1>6. Cardinality(InLoops') = Cardinality(InLoops) - 1
  BY <1>2, <1>5, FS_RemoveElement
<1>7. RefsExact'
  BY <1>1, <1>5, <1>6 DEF RefInv, RefsExact
<1>8. StopInv'
  BY <1>1, <1>3, <1>5 DEF RefInv, StopInv
<1> QED BY <1>4, <1>7, <1>8 DEF RefInv

LEMMA LoopRefs ==
  ASSUME TypeOK, WakeInv, RefInv, NEW l \in Loops, LoopNext(l)
  PROVE  RefInv'
<1> USE DEF mainVars, poolVars, countVars, wakeVars, loopVars, Goto
<1>1. CASE Poll(l)
  BY <1>1, LoopMoved DEF Poll
<1>2. CASE WakeRead(l)
  BY <1>2, LoopMoved DEF WakeRead, Dispatching
<1>3. CASE WakeStore(l)
  BY <1>3, LoopMoved DEF WakeStore
<1>4. CASE Take(l)
  BY <1>4, LoopMoved DEF Take
<1>5. CASE PoolRead(l)
  BY <1>5, LoopMoved DEF PoolRead, Dispatching
<1>6. CASE TakePool(l)
  BY <1>6, LoopMoved DEF TakePool
<1>7. CASE Run(l)
  <2>1. /\ loop[l] = "run"
        /\ UNCHANGED <<uiCocurrentThreads, bRunning, main, mainPending, mainBatch>>
        /\ UNCHANGED <<uiCocurrentRunning, iRefCount>>
    BY <1>7 DEF Run
  <2>2. CASE Head(batch[l]) = Stop
    <3>1. loop' = [loop EXCEPT ![l] = "run"] /\ loopRunning' = [loopRunning EXCEPT ![l] = FALSE]
      BY <1>7, <2>1, <2>2 DEF Run, TypeOK
    <3>2. \A k \in Loops : k # l => loopRunning'[k] = loopRunning[k]
      BY <3>1 DEF TypeOK
    <3> QED BY <2>1, <3>1, <3>2, LoopMoved
  <2>3. CASE Head(batch[l]) # Stop
    <3>1. loop' = [loop EXCEPT ![l] = IF bLoopRunning THEN "work" ELSE "run"]
          /\ loopRunning' = loopRunning
      BY <1>7, <2>3 DEF Run
    <3> QED BY <2>1, <3>1, LoopMoved
  <2> QED BY <2>2, <2>3
<1>8. CASE WorkEnds(l)
  BY <1>8, LoopMoved DEF WorkEnds
<1>9. CASE PollAgain(l)
  BY <1>9, LoopMoved DEF PollAgain, Dispatching
<1>10. CASE ClearCancel(l)
  <2>1. /\ UNCHANGED <<uiCocurrentThreads, bRunning, main, mainPending, mainBatch>>
        /\ UNCHANGED <<uiCocurrentRunning, iRefCount, loop, loopRunning>>
    BY <1>10 DEF ClearCancel
  <2>2. loop' = [loop EXCEPT ![l] = "clear"] /\ loop[l] = "clear"
    BY <1>10, <2>1 DEF ClearCancel, TypeOK
  <2> QED BY <2>1, <2>2, LoopMoved
<1>11. CASE Close(l)
  <2>1. /\ loop[l] = "clear"
        /\ loop' = [loop EXCEPT ![l] = IF uiCocurrentThreads = 0 THEN "release" ELSE "fnStop"]
        /\ UNCHANGED <<uiCocurrentThreads, bRunning, main, mainPending, mainBatch>>
        /\ UNCHANGED <<uiCocurrentRunning, iRefCount, loopRunning>>
    BY <1>11 DEF Close
  <2> QED BY <2>1, LoopMoved
<1> HIDE DEF Goto
<1> QED BY <1>1, <1>2, <1>3, <1>4, <1>5, <1>6, <1>7, <1>8, <1>9, <1>10, <1>11,
           LoopStopRefs, LoopReleaseRefs DEF LoopNext

LEMMA StartLoopRefs ==
  ASSUME TypeOK, RefInv, NEW l \in Loops, StartLoop(l)
  PROVE  RefInv'
<1>1. /\ main = "start" /\ l \in Running /\ ~loopRunning[l]
      /\ \A k \in Loops : loopRunning'[k] = IF k = l THEN TRUE ELSE loopRunning[k]
      /\ iRefCount' = iRefCount + 1
      /\ UNCHANGED <<uiCocurrentThreads, bRunning, main, mainPending, mainBatch,
                     uiCocurrentRunning>>
  <2>1. \A k \in Running : loopRunning[k] <=> k < l
    BY DEF StartLoop
  <2>2. ~(l < l)
    BY LoopsAreCallers
  <2>3. l \in Running
    BY DEF StartLoop
  <2>4. ~loopRunning[l]
    BY <2>1, <2>2, <2>3
  <2> QED BY <2>3, <2>4 DEF StartLoop, TypeOK, mainVars
<1>2. loop[l] = "off"
  BY <1>1 DEF RefInv, StartInv
<1>3. \A k \in Loops : loop'[k] = IF k = l /\ uiCocurrentThreads # 0 THEN "poll" ELSE loop[k]
  BY DEF StartLoop, Goto, TypeOK
<1>4. InLoops' = InLoops \cup {l} /\ l \notin InLoops
  BY <1>1, <1>2, <1>3 DEF InLoops
<1>5. Unstopped' = Unstopped
  <2>1. \A k \in 1..uiCocurrentThreads : k \in Loops
    BY LoopsAreBounded DEF TypeOK, Loops
  <2> QED BY <1>1, <1>2, <1>3, <2>1 DEF Unstopped
<1>6. StartInv'
  BY <1>1, <1>3 DEF RefInv, StartInv, Running
<1>7. /\ Owner' = Owner /\ Dispatcher' = Dispatcher /\ StopsQueued' = StopsQueued
      /\ StopsQueued \in Nat
      /\ Owner \in 0..1 /\ Dispatcher \in 0..1
      /\ Cardinality(InLoops) \in Nat /\ IsFiniteSet(InLoops)
  BY <1>1, RefTypes DEF Owner, Dispatcher, StopsQueued
<1>8. Cardinality(InLoops') = Cardinality(InLoops) + 1
  BY <1>4, <1>7, FS_AddElement
<1>9. RefsExact'
  BY <1>1, <1>7, <1>8 DEF RefInv, RefsExact
<1>10. StopInv'
  BY <1>1, <1>5, <1>7 DEF RefInv, StopInv
<1> QED BY <1>6, <1>9, <1>10 DEF RefInv

LEMMA DispatchRefs ==
  ASSUME TypeOK, WakeInv, RefInv, Dispatch
  PROVE  RefInv'
<1>1. /\ main = "idle" /\ bRunning' = TRUE
      /\ main' = IF uiCocurrentThreads = 0 THEN "loop" ELSE "run"
      /\ UNCHANGED <<uiCocurrentThreads, mainPending, mainBatch, loopRunning>>
      /\ UNCHANGED <<uiCocurrentRunning, iRefCount>>
  BY DEF Dispatch, MainGoto, countVars
<1>2. 1 \in Loops
  BY LoopsAreCallers
<1>3. \A k \in Loops : loop'[k] = IF k = 1 /\ uiCocurrentThreads = 0 THEN "poll" ELSE loop[k]
  BY DEF Dispatch, Goto, TypeOK
<1>4. uiCocurrentThreads = 0 => loopRunning[1] /\ loop[1] = "off"
  BY <1>1, <1>2 DEF RefInv, StartInv, WakeInv, NothingStirs
<1>5. InLoops' = InLoops
  BY <1>1, <1>3, <1>4 DEF InLoops
<1>6. Unstopped' = Unstopped
  <2>1. \A k \in 1..uiCocurrentThreads : k \in Loops
    BY LoopsAreBounded DEF TypeOK, Loops
  <2>2. uiCocurrentThreads = 0 => 1..uiCocurrentThreads = {}
    OBVIOUS
  <2> QED BY <1>1, <1>3, <2>1, <2>2 DEF Unstopped
<1>7. StartInv'
  BY <1>1, <1>3 DEF RefInv, StartInv, Running
<1> QED BY <1>1, <1>5, <1>6, <1>7, RefsUntouched DEF Owner, Dispatcher, StopsQueued

LEMMA MainRunRefs ==
  ASSUME TypeOK, RefInv, MainRun
  PROVE  RefInv'
<1>1. /\ main = "run" /\ mainBatch # <<>> /\ mainBatch' = Tail(mainBatch)
      /\ UNCHANGED <<uiCocurrentThreads, mainPending, loop, loopRunning, uiCocurrentRunning>>
  BY DEF MainRun, loopVars
<1>2. Stops(mainBatch') = IF Head(mainBatch) = Stop THEN Stops(mainBatch) - 1 ELSE Stops(mainBatch)
  BY <1>1, StopsTail DEF TypeOK
<1>3. InLoops' = InLoops /\ Unstopped' = Unstopped
  BY <1>1 DEF InLoops, Unstopped
<1>4. main' \in {"run", "work"}
  BY <1>1 DEF MainRun, MainGoto
<1>5. StartInv'
  BY <1>1, <1>4 DEF RefInv, StartInv, Running
<1>6. /\ Owner' = Owner /\ Dispatcher' = Dispatcher
      /\ Owner \in 0..1 /\ Dispatcher \in 0..1
      /\ Cardinality(InLoops) \in Nat
      /\ Stops(mainPending) \in Nat /\ Stops(mainBatch) \in Nat
  BY <1>1, <1>4, RefTypes DEF Owner, Dispatcher
<1>7. CASE Head(mainBatch) = Stop
  <2>1. bRunning' = FALSE /\ iRefCount' = iRefCount - 1
    BY <1>7 DEF MainRun
  <2>2. Stops(mainBatch) > 0
    BY <1>1, <1>7, HeadCounts DEF TypeOK
  <2>3. StopsQueued = 1 /\ StopsQueued' = 0 /\ Unstopped = {}
    BY <1>1, <1>2, <1>6, <1>7, <2>2 DEF RefInv, StopInv, StopsQueued
  <2>4. RefsExact'
    BY <1>3, <1>6, <2>1, <2>3 DEF RefInv, RefsExact
  <2>5. StopInv'
    BY <1>1, <1>3, <2>3 DEF RefInv, StopInv
  <2> QED BY <1>5, <2>4, <2>5 DEF RefInv
<1>8. CASE Head(mainBatch) # Stop
  <2>1. bRunning' = bRunning /\ iRefCount' = iRefCount
    BY <1>8 DEF MainRun
  <2>2. StopsQueued' = StopsQueued
    BY <1>1, <1>2, <1>8 DEF StopsQueued
  <2> QED BY <1>1, <1>3, <1>5, <1>6, <2>1, <2>2, RefsUntouched
<1> QED BY <1>7, <1>8

\* The dispatching thread lets go of a reference or goes on without.
LEMMA MainMoved ==
  ASSUME TypeOK, RefInv,
         UNCHANGED <<uiCocurrentThreads, loop, loopRunning, uiCocurrentRunning>>,
         StopsQueued' = StopsQueued,
         main' \in MainStates, main \notin {"gone"}, main' # "start",
         main' = "idle" => \A l \in Running : loopRunning[l],
         iRefCount' = iRefCount + (Owner' - Owner) + (Dispatcher' - Dispatcher),
         main' \in {"run", "work"} => main \in {"run", "work"} /\ bRunning' = bRunning
  PROVE  RefInv'
<1>1. InLoops' = InLoops /\ Unstopped' = Unstopped
  BY DEF InLoops, Unstopped
<1>2. /\ Owner \in 0..1 /\ Dispatcher \in 0..1 /\ Owner' \in 0..1 /\ Dispatcher' \in 0..1
      /\ Cardinality(InLoops) \in Nat /\ StopsQueued \in Nat /\ iRefCount \in Int
  BY RefTypes DEF Owner, Dispatcher, StopsQueued, TypeOK
<1>3. RefsExact'
  BY <1>1, <1>2 DEF RefInv, RefsExact
<1>4. StopInv'
  BY <1>1 DEF RefInv, StopInv
<1>5. StartInv'
  <2>1. main' = "idle" /\ uiCocurrentThreads = 0 => loopRunning[1]
    BY DEF Running
  <2> QED BY <2>1 DEF RefInv, StartInv, Running
<1> QED BY <1>3, <1>4, <1>5 DEF RefInv

LEMMA MainRefs ==
  ASSUME TypeOK, WakeInv, RefInv, MainNext
  PROVE  RefInv'
<1> USE DEF mainVars, poolVars, countVars, wakeVars, loopVars, MainGoto
<1>1. CASE StartEnds
  <2>1. /\ main = "start" /\ main' = "idle" /\ iRefCount' = iRefCount + 1
        /\ \A l \in Running : loopRunning[l]
        /\ UNCHANGED <<uiCocurrentThreads, loop, loopRunning, uiCocurrentRunning, mainPending,
                       mainBatch>>
    BY <1>1 DEF StartEnds
  <2>2. Owner' = 1 /\ Owner = 1 /\ Dispatcher' = 1 /\ Dispatcher = 0
    BY <2>1 DEF Owner, Dispatcher
  <2>3. iRefCount' = iRefCount + (Owner' - Owner) + (Dispatcher' - Dispatcher)
    BY <2>1, <2>2 DEF TypeOK
  <2> QED BY <2>1, <2>3, MainMoved DEF StopsQueued, MainStates
<1>2. CASE MainTake
  <2>1. StopsQueued' = StopsQueued
    <3>1. Stops(mainPending') = 0 /\ Stops(mainBatch) = 0 /\ mainBatch' = mainPending
      BY <1>2, StopsEmpty DEF MainTake
    <3>2. Stops(mainPending) \in Nat
      BY RefTypes
    <3> QED BY <3>1, <3>2 DEF StopsQueued
  <2>2. /\ UNCHANGED <<uiCocurrentThreads, loop, loopRunning, uiCocurrentRunning, main, bRunning,
                       iRefCount>>
        /\ main = "run"
    BY <1>2 DEF MainTake
  <2>3. Owner' = Owner /\ Dispatcher' = Dispatcher /\ InLoops' = InLoops /\ Unstopped' = Unstopped
    BY <2>2 DEF Owner, Dispatcher, InLoops, Unstopped
  <2>4. StartInv'
    BY <2>2 DEF RefInv, StartInv, Running
  <2> QED BY <2>1, <2>2, <2>3, <2>4, RefsUntouched
<1>3. CASE MainWorkEnds \/ LoopReturns \/ PoolDrain \/ DispatchReturns \/ OwnerReleases
  <2>1. /\ UNCHANGED <<uiCocurrentThreads, loop, loopRunning, uiCocurrentRunning, mainPending,
                       mainBatch>>
        /\ main' \in MainStates /\ main \notin {"start", "gone"} /\ main' \notin {"start", "idle"}
        /\ main' \in {"run", "work"} => main \in {"run", "work"} /\ bRunning' = bRunning
    BY <1>3 DEF MainWorkEnds, LoopReturns, PoolDrain, DispatchReturns, OwnerReleases, MainStates
  <2>2. iRefCount' = iRefCount + (Owner' - Owner) + (Dispatcher' - Dispatcher)
    <3>1. CASE MainWorkEnds \/ LoopReturns \/ PoolDrain
      <4>1. Owner' = Owner /\ Dispatcher' = Dispatcher /\ iRefCount' = iRefCount
        BY <3>1 DEF MainWorkEnds, LoopReturns, PoolDrain, Owner, Dispatcher
      <4> QED BY <4>1, RefTypes DEF TypeOK
    <3>2. CASE DispatchReturns
      <4>1. Owner' = 1 /\ Owner = 1 /\ Dispatcher' = 0 /\ Dispatcher = 1 /\ iRefCount' = iRefCount - 1
        BY <3>2 DEF DispatchReturns, Owner, Dispatcher
      <4> QED BY <4>1 DEF TypeOK
    <3>3. CASE OwnerReleases
      <4>1. Owner' = 0 /\ Owner = 1 /\ Dispatcher' = 0 /\ Dispatcher = 0 /\ iRefCount' = iRefCount - 1
        BY <3>3 DEF OwnerReleases, Owner, Dispatcher
      <4> QED BY <4>1 DEF TypeOK
    <3> QED BY <1>3, <3>1, <3>2, <3>3
  <2>3. StopsQueued' = StopsQueued
    BY <2>1 DEF StopsQueued
  <2> QED BY <2>1, <2>2, <2>3, MainMoved
<1>4. CASE MainDrain
  <2>1. /\ main = "run" /\ main' = "last" /\ ~bRunning /\ mainPending' = <<>>
        /\ UNCHANGED <<uiCocurrentThreads, loop, loopRunning, uiCocurrentRunning, mainBatch,
                       iRefCount>>
    BY <1>4 DEF MainDrain
  <2>2. StopsQueued = 0 /\ Stops(mainPending) \in Nat /\ Stops(mainBatch) \in Nat
    BY <2>1, RefTypes DEF RefInv, StopInv
  <2>3. Stops(mainPending') = 0 /\ Stops(mainBatch') = Stops(mainBatch)
    BY <2>1, StopsEmpty
  <2>4. StopsQueued' = StopsQueued
    BY <2>2, <2>3 DEF StopsQueued
  <2>5. iRefCount' = iRefCount + (Owner' - Owner) + (Dispatcher' - Dispatcher)
    <3>1. Owner' = Owner /\ Dispatcher' = Dispatcher
      BY <2>1 DEF Owner, Dispatcher
    <3> QED BY <2>1, <3>1, RefTypes DEF TypeOK
  <2> QED BY <2>1, <2>4, <2>5, MainMoved DEF MainStates
<1> QED BY <1>1, <1>2, <1>3, <1>4, DispatchRefs, MainRunRefs, StartLoopRefs DEF MainNext

LEMMA NextRefs == TypeOK /\ WakeInv /\ RefInv /\ [Next]_vars => RefInv'
<1> SUFFICES ASSUME TypeOK, WakeInv, RefInv, [Next]_vars PROVE RefInv'
  OBVIOUS
<1>1. CASE UNCHANGED vars
  <2>1. /\ UNCHANGED <<uiCocurrentThreads, bRunning, main, mainPending, mainBatch>>
        /\ UNCHANGED <<uiCocurrentRunning, iRefCount, loop, loopRunning>>
    BY <1>1 DEF vars, mainVars, countVars, loopVars
  <2>2. StartInv'
    BY <2>1 DEF RefInv, StartInv, Running
  <2> QED BY <2>1, <2>2, RefsUntouched DEF Owner, Dispatcher, InLoops, Unstopped, StopsQueued
<1> QED BY <1>1, CallRefs, LoopRefs, MainRefs DEF Next

LEMMA AlwaysRefs == Spec => [](TypeOK /\ RefInv)
<1>1. Init => TypeOK /\ WakeInv /\ RefInv
  BY InitTyped, InitWake, InitRefs
<1>2. TypeOK /\ WakeInv /\ RefInv /\ [Next]_vars => (TypeOK /\ WakeInv /\ RefInv)'
  BY NextTyped, NextWake, NextRefs
<1> QED BY <1>1, <1>2, PTL DEF Spec

(***************************************************************************)
(* The eventIO and the array of its loops are not freed while the owner, a *)
(* loop's thread or the dispatching thread is inside: each has a reference *)
(* of its own, whoever leaves first.                                       *)
(***************************************************************************)
THEOREM NothingIsFreedEarly == Spec => []NoUseAfterFree
<1>1. TypeOK /\ RefInv => NoUseAfterFree
  <2> SUFFICES ASSUME TypeOK, RefInv,
                      main # "gone" \/ \E l \in Loops : loop[l] \notin {"off", "gone"}
               PROVE  iRefCount > 0
    BY DEF NoUseAfterFree
  <2>1. /\ Owner \in 0..1 /\ Dispatcher \in 0..1
        /\ Cardinality(InLoops) \in Nat /\ StopsQueued \in Nat /\ IsFiniteSet(InLoops)
    BY RefTypes DEF StopsQueued
  <2>2. Owner = 1 \/ Cardinality(InLoops) # 0
    <3>1. CASE main # "gone"
      BY <3>1 DEF Owner
    <3>2. ASSUME NEW l \in Loops, loop[l] \notin {"off", "gone"} PROVE Cardinality(InLoops) # 0
      <4>1. l \in InLoops
        BY <3>2 DEF InLoops
      <4> QED BY <2>1, <4>1, FS_EmptySet
    <3> QED BY <3>1, <3>2
  <2> QED BY <2>1, <2>2 DEF RefInv, RefsExact
<1> QED BY <1>1, AlwaysRefs, PTL

\* Everybody has left, and nothing is on its way to the dispatching thread.
AllOut == main = "gone" /\ InLoops = {} /\ StopsQueued = 0

(***************************************************************************)
(* It is not leaked either: no count is taken that nobody gives back, and  *)
(* the last one to leave frees it.                                         *)
(***************************************************************************)
THEOREM FreedByTheLast == Spec => [](iRefCount = 0 <=> AllOut)
<1>1. TypeOK /\ RefInv => (iRefCount = 0 <=> AllOut)
  <2> SUFFICES ASSUME TypeOK, RefInv PROVE iRefCount = 0 <=> AllOut
    OBVIOUS
  <2>1. /\ Owner \in 0..1 /\ Dispatcher \in 0..1
        /\ Cardinality(InLoops) \in Nat /\ StopsQueued \in Nat /\ IsFiniteSet(InLoops)
        /\ Cardinality(InLoops) = 0 <=> InLoops = {}
    BY RefTypes, FS_EmptySet DEF StopsQueued
  <2>2. Owner = 0 <=> main = "gone"
    BY DEF Owner
  <2>3. Owner = 0 => Dispatcher = 0
    BY DEF Owner, Dispatcher
  <2> QED BY <2>1, <2>2, <2>3 DEF RefInv, RefsExact, AllOut
<1> QED BY <1>1, AlwaysRefs, PTL

-----------------------------------------------------------------------------
(* Functions by steps *)

\* A set of numbers that is not empty has a least one.
LEMMA Least ==
  ASSUME NEW T \in SUBSET Nat, T # {}
  PROVE  \E x \in T : \A y \in T : x <= y
<1> DEFINE R == OpToRel(<, Nat)
<1>1. IsWellFoundedOn(R, Nat)
  BY NatLessThanWellFounded
<1>2. \A x, y \in Nat : <<y, x>> \in R <=> y < x
  BY DEF OpToRel
<1> HIDE DEF R
<1>3. PICK x \in T : \A y \in T : ~ (<<y, x>> \in R)
  BY <1>1, WFMin
<1>4. \A y \in T : ~(y < x)
  BY <1>2, <1>3
<1>5. QED BY <1>3, <1>4

\* A function is made from its first value, each of the others from the one before.
Steps(n, D, step) == n \in Nat /\ step \in [(1..n) \X D -> D]
Follows(f, n, D, d, step) ==
  f \in [0..n -> D] /\ f[0] = d /\ \A i \in 1..n : f[i] = step[<<i, f[i - 1]>>]

LEMMA StepByStep ==
  ASSUME NEW n, NEW D, NEW step, Steps(n, D, step), NEW d \in D
  PROVE  \E f : Follows(f, n, D, d, step)
<1> DEFINE Made(k) == \E f \in [0..k -> D] : f[0] = d /\ \A i \in 1..k : f[i] = step[<<i, f[i - 1]>>]
           T == {k \in 0..n : ~Made(k)}
<1>0. n \in Nat /\ step \in [(1..n) \X D -> D]
  BY DEF Steps
<1>1. ASSUME T # {} PROVE FALSE
  <2>1. PICK k \in T : \A j \in T : k <= j
    <3>1. T \in SUBSET Nat
      BY <1>0
    <3> HIDE DEF T
    <3>2. QED BY <1>1, <3>1, Least
  <2>2. k \in 0..n /\ ~Made(k)
    OBVIOUS
  <2>3. CASE k = 0
    <3> DEFINE f == [i \in 0..0 |-> d]
    <3>1. f \in [0..0 -> D] /\ f[0] = d /\ \A i \in 1..0 : f[i] = step[<<i, f[i - 1]>>]
      OBVIOUS
    <3> HIDE DEF f
    <3>2. Made(0)
      BY <3>1
    <3>3. QED BY <2>2, <2>3, <3>2
  <2>4. CASE k # 0
    <3>1. k - 1 \in 0..n /\ ~(k <= k - 1) /\ k \in 1..n
      BY <1>0, <2>2, <2>4
    <3>2. Made(k - 1)
      BY <2>1, <3>1
    <3>3. PICK f \in [0..(k - 1) -> D] : f[0] = d /\ \A i \in 1..(k - 1) : f[i] = step[<<i, f[i - 1]>>]
      BY <3>2
    <3> HIDE DEF Made, T
    <3> DEFINE g == [i \in 0..k |-> IF i = k THEN step[<<k, f[k - 1]>>] ELSE f[i]]
    <3>4. f[k - 1] \in D
      BY <3>1, <3>3
    <3>5. step[<<k, f[k - 1]>>] \in D
      BY <1>0, <3>1, <3>4
    <3>6. \A i \in 0..k : i # k => i \in 0..(k - 1) /\ f[i] \in D
      BY <3>1, <3>3
    <3>7. g \in [0..k -> D]
      BY <3>5, <3>6
    <3>8. g[0] = d /\ \A i \in 0..k : g[i] = IF i = k THEN step[<<k, f[k - 1]>>] ELSE f[i]
      BY <3>1, <3>3
    <3> HIDE DEF g
    <3>9. ASSUME NEW i \in 1..k PROVE g[i] = step[<<i, g[i - 1]>>]
      <4>1. i \in 0..k /\ i - 1 \in 0..k /\ i - 1 # k
        BY <3>1
      <4>2. g[i - 1] = f[i - 1]
        BY <3>8, <4>1
      <4>3. CASE i = k
        BY <3>8, <4>1, <4>2, <4>3
      <4>4. CASE i # k
        <5>1. i \in 1..(k - 1)
          BY <3>1, <4>4
        <5>2. QED BY <3>3, <3>8, <4>1, <4>2, <4>4, <5>1
      <4>5. QED BY <4>3, <4>4
    <3>10. Made(k)
      BY <3>7, <3>8, <3>9 DEF Made
    <3>11. QED BY <2>2, <3>10
  <2>5. QED BY <2>3, <2>4
<1>2. n \in 0..n
  BY <1>0
<1>3. Made(n)
  BY <1>1, <1>2
<1>4. QED BY <1>3 DEF Follows

\* It is determined by them.
Alike(f, g, n) == f[0] = g[0] /\ \A i \in 1..n : f[i - 1] = g[i - 1] => f[i] = g[i]

LEMMA SameSteps ==
  ASSUME NEW n \in Nat, NEW f, NEW g, Alike(f, g, n)
  PROVE  \A i \in 0..n : f[i] = g[i]
<1> DEFINE T == {i \in 0..n : f[i] # g[i]}
<1>1. ASSUME T # {} PROVE FALSE
  <2>1. PICK k \in T : \A j \in T : k <= j
    <3>1. T \in SUBSET Nat
      OBVIOUS
    <3> HIDE DEF T
    <3>2. QED BY <1>1, <3>1, Least
  <2>2. k \in 0..n /\ f[k] # g[k]
    OBVIOUS
  <2>3. k # 0
    BY <2>2 DEF Alike
  <2>4. k \in 1..n /\ k - 1 \in 0..n /\ ~(k <= k - 1)
    BY <2>2, <2>3
  <2>5. f[k - 1] = g[k - 1]
    BY <2>1, <2>4
  <2>6. QED BY <2>2, <2>4, <2>5 DEF Alike
<1>2. QED BY <1>1

\* What Sums gives.
LEMMA SumsOf ==
  ASSUME NEW s \in Seq(Int)
  PROVE  /\ Sums(s) \in [0..Len(s) -> Int] /\ Sums(s)[0] = 0
         /\ \A i \in 1..Len(s) : Sums(s)[i] = Sums(s)[i - 1] + s[i]
<1> DEFINE n == Len(s)
           u == Sums(s)
           step == [p \in (1..n) \X Int |-> p[2] + s[p[1]]]
<1>1. n \in Nat /\ \A i \in 1..n : s[i] \in Int
  OBVIOUS
<1>2. step \in [(1..n) \X Int -> Int]
  <2>1. ASSUME NEW p \in (1..n) \X Int PROVE p[2] + s[p[1]] \in Int
    <3>1. p[1] \in 1..n /\ p[2] \in Int
      OBVIOUS
    <3> HIDE DEF n
    <3>2. QED BY <1>1, <3>1
  <2>2. QED BY <2>1
<1>3. \A i \in 1..n, a \in Int : step[<<i, a>>] = a + s[i]
  OBVIOUS
<1>4. PICK f \in [0..n -> Int] : f[0] = 0 /\ \A i \in 1..n : f[i] = step[<<i, f[i - 1]>>]
  <2>1. 0 \in Int
    OBVIOUS
  <2>2. Steps(n, Int, step)
    BY <1>1, <1>2 DEF Steps
  <2> HIDE DEF n, step
  <2>3. PICK f : Follows(f, n, Int, 0, step)
    BY <2>1, <2>2, StepByStep
  <2>4. QED BY <2>3 DEF Follows
<1>a. u = CHOOSE g : g = [i \in 0..n |-> IF i = 0 THEN 0 ELSE g[i - 1] + s[i]]
  BY DEF Sums
<1> HIDE DEF n, step, u
<1>5. \A i \in 1..n : f[i] = f[i - 1] + s[i]
  <2>1. ASSUME NEW i \in 1..n PROVE f[i] = f[i - 1] + s[i]
    <3>1. i - 1 \in 0..n
      BY <1>1
    <3>2. f[i - 1] \in Int
      BY <3>1
    <3>3. QED BY <1>3, <1>4, <3>2
  <2>2. QED BY <2>1
<1>6. f = [i \in 0..n |-> IF i = 0 THEN 0 ELSE f[i - 1] + s[i]]
  <2>1. \A i \in 0..n : f[i] = IF i = 0 THEN 0 ELSE f[i - 1] + s[i]
    BY <1>1, <1>4, <1>5
  <2>2. QED BY <2>1
<1>7. u = [i \in 0..n |-> IF i = 0 THEN 0 ELSE u[i - 1] + s[i]]
  BY <1>6, <1>a
<1>8. u[0] = 0 /\ \A i \in 1..n : u[i] = u[i - 1] + s[i]
  <2>1. 0 \in 0..n /\ \A i \in 1..n : i \in 0..n /\ i # 0
    BY <1>1
  <2>2. QED BY <1>7, <2>1
<1>9. \A i \in 0..n : u[i] = f[i]
  <2>1. Alike(u, f, n)
    BY <1>4, <1>5, <1>8 DEF Alike
  <2>2. QED BY <1>1, <2>1, SameSteps
<1>10. u \in [0..n -> Int]
  <2>1. \A i \in 0..n : u[i] \in Int
    BY <1>9
  <2>2. DOMAIN u = 0..n /\ u = [i \in DOMAIN u |-> u[i]]
    BY <1>7
  <2>3. QED BY <2>1, <2>2
<1>11. QED BY <1>8, <1>10 DEF n, u

\* A function that adds up the elements is Sums.
LEMMA SumsAre ==
  ASSUME NEW s \in Seq(Int), NEW g, g[0] = 0, \A i \in 1..Len(s) : g[i] = g[i - 1] + s[i]
  PROVE  /\ \A i \in 0..Len(s) : Sums(s)[i] = g[i]
         /\ Sum(s) = g[Len(s)]
<1>1. Len(s) \in Nat
  OBVIOUS
<1>2. Sums(s)[0] = g[0]
  BY SumsOf
<1>3. \A i \in 1..Len(s) : Sums(s)[i - 1] = g[i - 1] => Sums(s)[i] = g[i]
  BY SumsOf
<1>4. \A i \in 0..Len(s) : Sums(s)[i] = g[i]
  <2>1. Alike(Sums(s), g, Len(s))
    BY <1>2, <1>3 DEF Alike
  <2>2. QED BY <1>1, <2>1, SameSteps
<1>5. Len(s) \in 0..Len(s)
  BY <1>1
<1>6. QED BY <1>4, <1>5 DEF Sum

LEMMA SumTyped ==
  ASSUME NEW s \in Seq(Int)
  PROVE  Sum(s) \in Int
<1>1. Len(s) \in 0..Len(s)
  OBVIOUS
<1>2. QED BY <1>1, SumsOf DEF Sum

LEMMA SumOfNothing == Sum(<<>>) = 0
<1>1. <<>> \in Seq(Int) /\ Len(<<>>) = 0
  OBVIOUS
<1>2. Sums(<<>>)[0] = 0
  BY <1>1, SumsOf
<1>3. QED BY <1>1, <1>2 DEF Sum

\* One more element.
LEMMA SumOfAppended ==
  ASSUME NEW s \in Seq(Int), NEW x \in Int
  PROVE  Sum(Append(s, x)) = Sum(s) + x
<1> DEFINE t == Append(s, x)
           n == Len(s)
           g == Sums(t)
<1>1. /\ t \in Seq(Int) /\ n \in Nat /\ Len(t) = n + 1 /\ t[n + 1] = x
      /\ \A i \in 1..n : t[i] = s[i]
  OBVIOUS
<1> HIDE DEF t
<1>2. g[0] = 0 /\ \A i \in 1..(n + 1) : g[i] = g[i - 1] + t[i]
  BY <1>1, SumsOf
<1> HIDE DEF g
<1>3. \A i \in 1..Len(s) : g[i] = g[i - 1] + s[i]
  BY <1>1, <1>2
<1>4. Sum(s) = g[n]
  BY <1>2, <1>3, SumsAre
<1>5. n + 1 \in 1..(n + 1) /\ n + 1 - 1 = n
  BY <1>1
<1>6. g[n + 1] = g[n] + x
  BY <1>1, <1>2, <1>5
<1>7. Sum(t) = g[n + 1]
  BY <1>1 DEF Sum, g
<1>8. QED BY <1>4, <1>6, <1>7 DEF t

\* What is left after the first elements.
LEMMA SumOfRest ==
  ASSUME NEW s \in Seq(Int), NEW m \in 0..Len(s)
  PROVE  Sum(SubSeq(s, m + 1, Len(s))) = Sum(s) - Sums(s)[m]
<1> DEFINE t == SubSeq(s, m + 1, Len(s))
           n == Len(s)
           u == Sums(s)
           g == [i \in 0..(n - m) |-> u[m + i] - u[m]]
<1>1. /\ n \in Nat /\ m \in Nat /\ m <= n /\ n - m \in Nat
      /\ t \in Seq(Int) /\ Len(t) = n - m /\ \A i \in 1..(n - m) : t[i] = s[m + i]
  OBVIOUS
<1> HIDE DEF t
<1>2. \A i \in 0..n : u[i] \in Int
  BY SumsOf
<1>3. \A i \in 1..n : u[i] = u[i - 1] + s[i]
  BY SumsOf
<1>a. \A i \in 0..(n - m) : g[i] = u[m + i] - u[m]
  OBVIOUS
<1> HIDE DEF u, n, g
<1>4. g[0] = 0
  <2>1. g[0] = u[m + 0] - u[m] /\ m + 0 = m /\ u[m] \in Int
    BY <1>1, <1>2, <1>a
  <2>2. QED BY <2>1
<1>5. ASSUME NEW i \in 1..(n - m) PROVE g[i] = g[i - 1] + t[i]
  <2>1. /\ i \in 0..(n - m) /\ i - 1 \in 0..(n - m) /\ m + i \in 1..n /\ m + i \in 0..n
        /\ m + (i - 1) = (m + i) - 1 /\ (m + i) - 1 \in 0..n /\ m \in 0..n
    BY <1>1
  <2>2. g[i] = u[m + i] - u[m] /\ g[i - 1] = u[(m + i) - 1] - u[m]
    BY <1>a, <2>1
  <2>3. u[m + i] = u[(m + i) - 1] + t[i]
    BY <1>1, <1>3, <2>1
  <2>4. t[i] \in Int
    BY <1>1
  <2>5. u[m + i] \in Int /\ u[(m + i) - 1] \in Int /\ u[m] \in Int
    BY <1>2, <2>1
  <2> HIDE DEF g
  <2>6. QED BY <2>2, <2>3, <2>4, <2>5
<1>6. Sum(t) = g[n - m]
  BY <1>1, <1>4, <1>5, SumsAre
<1>7. g[n - m] = u[n] - u[m]
  <2>1. n - m \in 0..(n - m) /\ m + (n - m) = n
    BY <1>1
  <2>2. QED BY <1>a, <2>1
<1>8. QED BY <1>6, <1>7 DEF Sum, n, t, u

-----------------------------------------------------------------------------
(* What is chosen from a queue *)

Elements(q) == {q[i] : i \in 1..Len(q)}

LEMMA ChoosingIs ==
  ASSUME NEW T, NEW q \in Seq(T), NEW S
  PROVE  /\ Choosing(q, S) \in [0..Len(q) -> Seq(T)] /\ Choosing(q, S)[0] = <<>>
         /\ \A i \in 1..Len(q) : Choosing(q, S)[i] = IF q[i] \in S THEN Append(Choosing(q, S)[i - 1], q[i])
                                                     ELSE Choosing(q, S)[i - 1]
<1> DEFINE n == Len(q)
           u == Choosing(q, S)
           D == Seq(T)
           step == [p \in (1..n) \X D |-> IF q[p[1]] \in S THEN Append(p[2], q[p[1]]) ELSE p[2]]
<1>1. n \in Nat /\ \A i \in 1..n : q[i] \in T
  OBVIOUS
<1>2. step \in [(1..n) \X D -> D]
  <2>1. ASSUME NEW p \in (1..n) \X D PROVE (IF q[p[1]] \in S THEN Append(p[2], q[p[1]]) ELSE p[2]) \in D
    <3>1. p[1] \in 1..n /\ p[2] \in Seq(T)
      OBVIOUS
    <3>2. q[p[1]] \in T
      BY <1>1, <3>1
    <3>3. Append(p[2], q[p[1]]) \in Seq(T)
      BY <3>1, <3>2, AppendProperties
    <3>4. QED BY <3>1, <3>3
  <2>2. QED BY <2>1
<1>3. \A i \in 1..n, a \in D : step[<<i, a>>] = IF q[i] \in S THEN Append(a, q[i]) ELSE a
  OBVIOUS
<1>4. PICK f \in [0..n -> D] : f[0] = <<>> /\ \A i \in 1..n : f[i] = step[<<i, f[i - 1]>>]
  <2>1. <<>> \in D
    OBVIOUS
  <2>2. Steps(n, D, step)
    BY <1>1, <1>2 DEF Steps
  <2> HIDE DEF n, step, D
  <2>3. PICK f : Follows(f, n, D, <<>>, step)
    BY <2>1, <2>2, StepByStep
  <2>4. QED BY <2>3 DEF Follows
<1>5. u = CHOOSE g : g = [i \in 0..n |-> IF i = 0 THEN <<>> ELSE IF q[i] \in S THEN Append(g[i - 1], q[i]) ELSE g[i - 1]]
  BY DEF Choosing
<1> HIDE DEF n, step, u, D
<1>6. \A i \in 1..n : f[i] = IF q[i] \in S THEN Append(f[i - 1], q[i]) ELSE f[i - 1]
  <2>1. ASSUME NEW i \in 1..n PROVE f[i] = IF q[i] \in S THEN Append(f[i - 1], q[i]) ELSE f[i - 1]
    <3>1. i - 1 \in 0..n
      BY <1>1
    <3>2. f[i - 1] \in D
      BY <3>1
    <3>3. QED BY <1>3, <1>4, <3>2
  <2>2. QED BY <2>1
<1>7. f = [i \in 0..n |-> IF i = 0 THEN <<>> ELSE IF q[i] \in S THEN Append(f[i - 1], q[i]) ELSE f[i - 1]]
  <2>1. \A i \in 0..n : f[i] = IF i = 0 THEN <<>> ELSE IF q[i] \in S THEN Append(f[i - 1], q[i]) ELSE f[i - 1]
    <3>1. \A i \in 0..n : i = 0 \/ i \in 1..n
      BY <1>1
    <3>2. \A i \in 1..n : i # 0
      BY <1>1
    <3>3. f[0] = <<>>
      BY <1>4
    <3>4. QED BY <1>6, <3>1, <3>2, <3>3
  <2>2. QED BY <2>1
<1>8. u = [i \in 0..n |-> IF i = 0 THEN <<>> ELSE IF q[i] \in S THEN Append(u[i - 1], q[i]) ELSE u[i - 1]]
  BY <1>5, <1>7
<1>9. u[0] = <<>> /\ \A i \in 1..n : u[i] = IF q[i] \in S THEN Append(u[i - 1], q[i]) ELSE u[i - 1]
  <2>1. 0 \in 0..n /\ \A i \in 1..n : i \in 0..n /\ i # 0
    BY <1>1
  <2>2. QED BY <1>8, <2>1
<1>10. \A i \in 0..n : u[i] = f[i]
  <2>1. Alike(u, f, n)
    BY <1>4, <1>6, <1>9 DEF Alike
  <2>2. QED BY <1>1, <2>1, SameSteps
<1>11. u \in [0..n -> D]
  <2>1. \A i \in 0..n : u[i] \in D
    BY <1>10
  <2>2. DOMAIN u = 0..n /\ u = [i \in DOMAIN u |-> u[i]]
    BY <1>8
  <2>3. QED BY <2>1, <2>2
<1>12. QED BY <1>9, <1>11 DEF n, u, D

\* A function that goes by the same steps leads to it.
Chooses(g, q, S) ==
  g[0] = <<>> /\ \A i \in 1..Len(q) : g[i] = IF q[i] \in S THEN Append(g[i - 1], q[i]) ELSE g[i - 1]

LEMMA ChosenIs ==
  ASSUME NEW T, NEW q \in Seq(T), NEW S, NEW g, Chooses(g, q, S)
  PROVE  Chosen(q, S) = g[Len(q)]
<1>1. PICK u : u = Choosing(q, S)
  OBVIOUS
<1>2. u[0] = <<>> /\ \A i \in 1..Len(q) : u[i] = IF q[i] \in S THEN Append(u[i - 1], q[i]) ELSE u[i - 1]
  BY <1>1, ChoosingIs
<1>3. Alike(u, g, Len(q))
  BY <1>2 DEF Alike, Chooses
<1>4. Len(q) \in Nat /\ Len(q) \in 0..Len(q)
  OBVIOUS
<1>5. \A i \in 0..Len(q) : u[i] = g[i]
  BY <1>3, <1>4, SameSteps
<1>6. QED BY <1>1, <1>4, <1>5 DEF Chosen

LEMMA ChosenTyped ==
  ASSUME NEW T, NEW q \in Seq(T), NEW S
  PROVE  Chosen(q, S) \in Seq(T)
<1>1. Len(q) \in 0..Len(q)
  OBVIOUS
<1>2. Choosing(q, S) \in [0..Len(q) -> Seq(T)]
  BY ChoosingIs
<1>3. QED BY <1>1, <1>2 DEF Chosen

LEMMA ChosenFromNothing ==
  ASSUME NEW S
  PROVE  Chosen(<<>>, S) = <<>>
<1>1. <<>> \in Seq({}) /\ Len(<<>>) = 0
  OBVIOUS
<1>2. PICK q : q = <<>>
  OBVIOUS
<1>3. Choosing(q, S)[0] = <<>>
  <2>1. PICK T : q \in Seq(T)
    BY <1>1, <1>2
  <2>2. QED BY <2>1, ChoosingIs
<1>4. QED BY <1>1, <1>2, <1>3 DEF Chosen

LEMMA ChosenFromOne ==
  ASSUME NEW x, NEW S
  PROVE  Chosen(<<x>>, S) = IF x \in S THEN <<x>> ELSE <<>>
<1>1. <<x>> \in Seq({x}) /\ Len(<<x>>) = 1 /\ <<x>>[1] = x
  OBVIOUS
<1>2. PICK q : q = <<x>>
  OBVIOUS
<1>3. PICK u : u = Choosing(q, S)
  OBVIOUS
<1>4. u[0] = <<>> /\ \A i \in 1..Len(q) : u[i] = IF q[i] \in S THEN Append(u[i - 1], q[i]) ELSE u[i - 1]
  <2>1. PICK T : q \in Seq(T)
    BY <1>1, <1>2
  <2>2. QED BY <1>3, <2>1, ChoosingIs
<1>5. 1 \in 1..Len(q) /\ 1 - 1 = 0 /\ q[1] = x
  BY <1>1, <1>2
<1>6. u[1] = IF x \in S THEN Append(<<>>, x) ELSE <<>>
  BY <1>4, <1>5
<1>7. Append(<<>>, x) = <<x>>
  OBVIOUS
<1>8. QED BY <1>1, <1>2, <1>3, <1>6, <1>7 DEF Chosen

\* Queue by queue.
LEMMA ChosenFromBoth ==
  ASSUME NEW T, NEW a \in Seq(T), NEW b \in Seq(T), NEW S
  PROVE  Chosen(a \o b, S) = Chosen(a, S) \o Chosen(b, S)
<1> DEFINE m == Len(a)
           n == Len(b)
           q == a \o b
           u == Choosing(a, S)
           v == Choosing(b, S)
           w == u[m]
           g == [i \in 0..(m + n) |-> IF i <= m THEN u[i] ELSE w \o v[i - m]]
<1>1. /\ m \in Nat /\ n \in Nat /\ q \in Seq(T) /\ Len(q) = m + n
      /\ \A i \in 1..(m + n) : q[i] = IF i <= m THEN a[i] ELSE b[i - m]
      /\ \A i \in 1..n : b[i] \in T
  BY ConcatProperties
<1>2. /\ u \in [0..m -> Seq(T)] /\ u[0] = <<>>
      /\ \A i \in 1..m : u[i] = IF a[i] \in S THEN Append(u[i - 1], a[i]) ELSE u[i - 1]
  BY ChoosingIs
<1>3. /\ v \in [0..n -> Seq(T)] /\ v[0] = <<>>
      /\ \A i \in 1..n : v[i] = IF b[i] \in S THEN Append(v[i - 1], b[i]) ELSE v[i - 1]
  BY ChoosingIs
<1> HIDE DEF m, n, q, u, v
<1>4. w \in Seq(T)
  BY <1>1, <1>2
<1> HIDE DEF w
<1>5. \A i \in 0..(m + n) : g[i] = IF i <= m THEN u[i] ELSE w \o v[i - m]
  OBVIOUS
<1> HIDE DEF g
<1>6. g[m] = w /\ g[0] = <<>> /\ w \o v[0] = w
  BY <1>1, <1>2, <1>3, <1>4, <1>5, ConcatEmptySeq DEF w
<1>7. ASSUME NEW i \in 1..(m + n) PROVE g[i] = IF q[i] \in S THEN Append(g[i - 1], q[i]) ELSE g[i - 1]
  <2>1. i \in 0..(m + n) /\ i - 1 \in 0..(m + n)
    BY <1>1
  <2>2. CASE i <= m
    <3>1. i \in 1..m /\ i - 1 <= m
      BY <1>1, <2>2
    <3>2. g[i] = u[i] /\ g[i - 1] = u[i - 1] /\ q[i] = a[i]
      BY <1>1, <1>5, <2>1, <2>2, <3>1
    <3>3. QED BY <1>2, <3>1, <3>2
  <2>3. CASE ~(i <= m)
    <3>1. PICK k : k = i - m
      OBVIOUS
    <3>2. k \in 1..n /\ k - 1 \in 0..n /\ (i - 1) - m = k - 1
      BY <1>1, <2>3, <3>1
    <3>3. g[i] = w \o v[k] /\ q[i] = b[k] /\ b[k] \in T /\ v[k - 1] \in Seq(T)
      BY <1>1, <1>3, <1>5, <2>1, <2>3, <3>1, <3>2
    <3>4. g[i - 1] = w \o v[k - 1]
      <4>1. CASE i - 1 <= m
        <5>1. i - 1 = m /\ k - 1 = 0
          BY <1>1, <2>3, <3>1, <4>1
        <5>2. QED BY <1>6, <5>1
      <4>2. CASE ~(i - 1 <= m)
        BY <1>5, <2>1, <3>2, <4>2
      <4>3. QED BY <4>1, <4>2
    <3>5. Append(w \o v[k - 1], b[k]) = w \o Append(v[k - 1], b[k])
      <4>1. PICK s : s = v[k - 1]
        OBVIOUS
      <4>2. PICK x : x = b[k]
        OBVIOUS
      <4>3. s \in Seq(T) /\ x \in T /\ <<x>> \in Seq(T) /\ w \o s \in Seq(T)
        BY <1>4, <3>3, <4>1, <4>2, ConcatProperties
      <4>4. Append(w \o s, x) = (w \o s) \o <<x>> /\ Append(s, x) = s \o <<x>>
        BY <4>3, AppendIsConcat
      <4>5. (w \o s) \o <<x>> = w \o (s \o <<x>>)
        BY <1>4, <4>3, ConcatAssociative
      <4>6. QED BY <4>1, <4>2, <4>4, <4>5
    <3>6. v[k] = IF b[k] \in S THEN Append(v[k - 1], b[k]) ELSE v[k - 1]
      BY <1>3, <3>2
    <3>7. QED BY <3>3, <3>4, <3>5, <3>6
  <2>4. QED BY <2>2, <2>3
<1>8. Chosen(q, S) = g[m + n]
  <2>1. Chooses(g, q, S)
    BY <1>1, <1>6, <1>7 DEF Chooses
  <2>2. QED BY <1>1, <2>1, ChosenIs
<1>9. g[m + n] = w \o v[n]
  <2>1. CASE n = 0
    BY <1>1, <1>6, <2>1
  <2>2. CASE n # 0
    <3>1. m + n \in 0..(m + n) /\ ~(m + n <= m) /\ (m + n) - m = n
      BY <1>1, <2>2
    <3>2. QED BY <1>5, <3>1
  <2>3. QED BY <2>1, <2>2
<1>10. Chosen(a, S) = w /\ Chosen(b, S) = v[n]
  BY DEF Chosen, w, u, v, m, n
<1>11. QED BY <1>8, <1>9, <1>10 DEF q

\* Only what is in the queue matters.
LEMMA ChosenAlike ==
  ASSUME NEW T, NEW q \in Seq(T), NEW R, NEW S, \A x \in Elements(q) : x \in R <=> x \in S
  PROVE  Chosen(q, R) = Chosen(q, S)
<1>1. PICK u : u = Choosing(q, S)
  OBVIOUS
<1>2. u[0] = <<>> /\ \A i \in 1..Len(q) : u[i] = IF q[i] \in S THEN Append(u[i - 1], q[i]) ELSE u[i - 1]
  BY <1>1, ChoosingIs
<1>3. \A i \in 1..Len(q) : q[i] \in R <=> q[i] \in S
  BY DEF Elements
<1>4. \A i \in 1..Len(q) : u[i] = IF q[i] \in R THEN Append(u[i - 1], q[i]) ELSE u[i - 1]
  BY <1>2, <1>3
<1>5. Chooses(u, q, R)
  BY <1>2, <1>4 DEF Chooses
<1>6. Chosen(q, R) = u[Len(q)]
  BY <1>5, ChosenIs
<1>7. QED BY <1>1, <1>6 DEF Chosen

LEMMA ElementsOfMore ==
  ASSUME NEW T, NEW q \in Seq(T), NEW x \in T
  PROVE  Elements(Append(q, x)) = Elements(q) \cup {x}
<1>1. PICK n : n = Len(q)
  OBVIOUS
<1>2. PICK t : t = Append(q, x)
  OBVIOUS
<1>3. n \in Nat /\ Len(t) = n + 1 /\ t[n + 1] = x /\ \A i \in 1..n : t[i] = q[i]
  BY <1>1, <1>2
<1>4. \A i \in 1..(n + 1) : i \in 1..n \/ i = n + 1
  BY <1>3
<1>5. n + 1 \in 1..(n + 1) /\ \A i \in 1..n : i \in 1..(n + 1)
  BY <1>3
<1>6. Elements(t) = {t[i] : i \in 1..(n + 1)} /\ Elements(q) = {q[i] : i \in 1..n}
  BY <1>1, <1>3 DEF Elements
<1>7. \A y : y \in Elements(t) <=> y \in Elements(q) \/ y = x
  BY <1>3, <1>4, <1>5, <1>6
<1>8. QED BY <1>2, <1>7

LEMMA ElementsOfChosen ==
  ASSUME NEW T, NEW q \in Seq(T), NEW S
  PROVE  Elements(Chosen(q, S)) = Elements(q) \cap S
<1> DEFINE n == Len(q)
           u == Choosing(q, S)
           f == [i \in 0..n |-> Elements(u[i])]
           g == [i \in 0..n |-> {q[j] : j \in 1..i} \cap S]
<1>1. n \in Nat /\ \A i \in 1..n : q[i] \in T
  OBVIOUS
<1>2. /\ u \in [0..n -> Seq(T)] /\ u[0] = <<>>
      /\ \A i \in 1..n : u[i] = IF q[i] \in S THEN Append(u[i - 1], q[i]) ELSE u[i - 1]
  BY ChoosingIs
<1> HIDE DEF n, u
<1>3. /\ \A i \in 0..n : f[i] = Elements(u[i])
      /\ \A i \in 0..n : g[i] = {q[j] : j \in 1..i} \cap S
  OBVIOUS
<1> HIDE DEF f, g
<1>4. f[0] = g[0]
  <2>1. 0 \in 0..n /\ Len(<<>>) = 0 /\ 1..0 = {}
    BY <1>1
  <2>2. f[0] = {}
    BY <1>2, <1>3, <2>1 DEF Elements
  <2>3. g[0] = {}
    BY <1>3, <2>1
  <2>4. QED BY <2>2, <2>3
<1>5. ASSUME NEW i \in 1..n, f[i - 1] = g[i - 1] PROVE f[i] = g[i]
  <2>1. i \in 0..n /\ i - 1 \in 0..n
    BY <1>1
  <2>2. g[i] = g[i - 1] \cup ({q[i]} \cap S)
    <3>1. \A j : j \in 1..i <=> j \in 1..(i - 1) \/ j = i
      BY <1>1
    <3>2. {q[j] : j \in 1..i} = {q[j] : j \in 1..(i - 1)} \cup {q[i]}
      BY <3>1
    <3>3. QED BY <1>3, <2>1, <3>2
  <2>3. CASE q[i] \in S
    <3>1. u[i] = Append(u[i - 1], q[i]) /\ u[i - 1] \in Seq(T) /\ q[i] \in T
      BY <1>1, <1>2, <2>1, <2>3
    <3>2. Elements(u[i]) = Elements(u[i - 1]) \cup {q[i]}
      BY <3>1, ElementsOfMore
    <3>3. QED BY <1>3, <1>5, <2>1, <2>2, <2>3, <3>2
  <2>4. CASE q[i] \notin S
    <3>1. u[i] = u[i - 1]
      BY <1>2, <2>4
    <3>2. QED BY <1>3, <1>5, <2>1, <2>2, <2>4, <3>1
  <2>5. QED BY <2>3, <2>4
<1>6. \A i \in 0..n : f[i] = g[i]
  <2>1. Alike(f, g, n)
    BY <1>4, <1>5 DEF Alike
  <2>2. QED BY <1>1, <2>1, SameSteps
<1>7. n \in 0..n
  BY <1>1
<1>8. f[n] = Elements(Chosen(q, S)) /\ g[n] = Elements(q) \cap S
  BY <1>3, <1>7 DEF Chosen, Elements, n, u
<1>9. QED BY <1>6, <1>7, <1>8

-----------------------------------------------------------------------------
(* What is in a queue *)

\* Without Stop.
EventsIn(q) == Elements(q) \cap Events

\* No event is twice in a queue; Stop may be.
Once(q) == \A i, j \in 1..Len(q) : q[i] = q[j] /\ q[i] \in Events => i = j

LEMMA NothingIn == Elements(<<>>) = {} /\ EventsIn(<<>>) = {} /\ Once(<<>>)
<1>1. Len(<<>>) = 0 /\ 1..0 = {}
  OBVIOUS
<1>2. QED BY <1>1 DEF Elements, EventsIn, Once

LEMMA InBoth ==
  ASSUME NEW T, NEW a \in Seq(T), NEW b \in Seq(T)
  PROVE  /\ Elements(a \o b) = Elements(a) \cup Elements(b)
         /\ Once(a \o b) <=> Once(a) /\ Once(b) /\ EventsIn(a) \cap EventsIn(b) = {}
<1>1. PICK m : m = Len(a)
  OBVIOUS
<1>2. PICK n : n = Len(b)
  OBVIOUS
<1>3. PICK q : q = a \o b
  OBVIOUS
<1>4. /\ m \in Nat /\ n \in Nat /\ Len(q) = m + n
      /\ \A i \in 1..(m + n) : q[i] = IF i <= m THEN a[i] ELSE b[i - m]
  BY <1>1, <1>2, <1>3, ConcatProperties
<1>5. \A i \in 1..m : i \in 1..(m + n) /\ q[i] = a[i]
  BY <1>4
<1>6. \A i \in 1..n : m + i \in 1..(m + n) /\ q[m + i] = b[i]
  <2>1. ASSUME NEW i \in 1..n PROVE m + i \in 1..(m + n) /\ q[m + i] = b[i]
    <3>1. m + i \in 1..(m + n) /\ ~(m + i <= m) /\ (m + i) - m = i
      BY <1>4
    <3>2. QED BY <1>4, <3>1
  <2>2. QED BY <2>1
<1>7. \A i \in 1..(m + n) : i \in 1..m \/ \E j \in 1..n : i = m + j
  <2>1. ASSUME NEW i \in 1..(m + n), i \notin 1..m PROVE i - m \in 1..n /\ i = m + (i - m)
    BY <1>4, <2>1
  <2>2. QED BY <2>1
<1>8. /\ Elements(q) = {q[i] : i \in 1..(m + n)} /\ Elements(a) = {a[i] : i \in 1..m}
      /\ Elements(b) = {b[i] : i \in 1..n}
  BY <1>1, <1>2, <1>4 DEF Elements
<1>9. Elements(q) = Elements(a) \cup Elements(b)
  <2>1. \A x \in Elements(a) \cup Elements(b) : x \in Elements(q)
    BY <1>5, <1>6, <1>8
  <2>2. \A x \in Elements(q) : x \in Elements(a) \cup Elements(b)
    <3>1. ASSUME NEW i \in 1..(m + n) PROVE q[i] \in Elements(a) \cup Elements(b)
      <4>1. CASE i \in 1..m
        BY <1>5, <1>8, <4>1
      <4>2. CASE i \notin 1..m
        <5>1. PICK j \in 1..n : i = m + j
          BY <1>7, <4>2
        <5>2. q[i] = b[j]
          BY <1>6, <5>1
        <5>3. QED BY <1>8, <5>2
      <4>3. QED BY <4>1, <4>2
    <3>2. QED BY <1>8, <3>1
  <2>3. QED BY <2>1, <2>2
<1>10. Once(q) <=> \A i, j \in 1..(m + n) : q[i] = q[j] /\ q[i] \in Events => i = j
  BY <1>4 DEF Once
<1>11. ASSUME Once(q) PROVE Once(a) /\ Once(b) /\ EventsIn(a) \cap EventsIn(b) = {}
  <2>1. Once(a)
    BY <1>1, <1>5, <1>10, <1>11 DEF Once
  <2>2. Once(b)
    <3>1. ASSUME NEW i \in 1..n, NEW j \in 1..n, b[i] = b[j], b[i] \in Events PROVE i = j
      <4>1. q[m + i] = q[m + j] /\ q[m + i] \in Events /\ m + i \in 1..(m + n) /\ m + j \in 1..(m + n)
        BY <1>6, <3>1
      <4>2. m + i = m + j
        BY <1>10, <1>11, <4>1
      <4>3. QED BY <1>4, <4>2
    <3>2. QED BY <1>2, <3>1 DEF Once
  <2>3. ASSUME NEW x \in EventsIn(a), x \in EventsIn(b) PROVE FALSE
    <3>1. x \in Events /\ x \in Elements(a) /\ x \in Elements(b)
      BY <2>3 DEF EventsIn
    <3>2. PICK i \in 1..m : x = a[i]
      BY <1>8, <3>1
    <3>3. PICK j \in 1..n : x = b[j]
      BY <1>8, <3>1
    <3>4. i \in 1..(m + n) /\ m + j \in 1..(m + n) /\ q[i] = x /\ q[m + j] = x
      BY <1>5, <1>6, <3>2, <3>3
    <3>5. i = m + j
      BY <1>10, <1>11, <3>1, <3>4
    <3>6. QED BY <1>4, <3>5
  <2>4. QED BY <2>1, <2>2, <2>3
<1>12. ASSUME Once(a), Once(b), EventsIn(a) \cap EventsIn(b) = {} PROVE Once(q)
  <2>1. ASSUME NEW i \in 1..(m + n), NEW j \in 1..(m + n), q[i] = q[j], q[i] \in Events PROVE i = j
    <3>1. CASE i \in 1..m /\ j \in 1..m
      BY <1>1, <1>5, <1>12, <2>1, <3>1 DEF Once
    <3>2. CASE i \notin 1..m /\ j \notin 1..m
      <4>1. PICK k \in 1..n : i = m + k
        BY <1>7, <3>2
      <4>2. PICK o \in 1..n : j = m + o
        BY <1>7, <3>2
      <4>3. b[k] = b[o] /\ b[k] \in Events
        BY <1>6, <2>1, <4>1, <4>2
      <4>4. k = o
        BY <1>2, <1>12, <4>3 DEF Once
      <4>5. QED BY <4>1, <4>2, <4>4
    <3>3. \A k \in 1..m, o \in 1..n : a[k] = b[o] => a[k] \notin Events
      <4>1. ASSUME NEW k \in 1..m, NEW o \in 1..n, a[k] = b[o], a[k] \in Events PROVE FALSE
        <5>1. a[k] \in Elements(a) /\ a[k] \in Elements(b)
          BY <1>8, <4>1
        <5>2. QED BY <1>12, <4>1, <5>1 DEF EventsIn
      <4>2. QED BY <4>1
    <3>4. CASE i \in 1..m /\ j \notin 1..m
      <4>1. PICK o \in 1..n : j = m + o
        BY <1>7, <3>4
      <4>2. q[i] = a[i] /\ q[j] = b[o]
        BY <1>5, <1>6, <3>4, <4>1
      <4>3. QED BY <2>1, <3>3, <3>4, <4>2
    <3>5. CASE i \notin 1..m /\ j \in 1..m
      <4>1. PICK o \in 1..n : i = m + o
        BY <1>7, <3>5
      <4>2. q[j] = a[j] /\ q[i] = b[o]
        BY <1>5, <1>6, <3>5, <4>1
      <4>3. QED BY <2>1, <3>3, <3>5, <4>2
    <3>6. QED BY <3>1, <3>2, <3>4, <3>5
  <2>2. QED BY <1>10, <2>1
<1>13. QED BY <1>3, <1>9, <1>11, <1>12

LEMMA InOne ==
  ASSUME NEW x
  PROVE  Elements(<<x>>) = {x} /\ Once(<<x>>)
<1>1. PICK q : q = <<x>>
  OBVIOUS
<1>2. Len(q) = 1 /\ q[1] = x /\ 1..1 = {1}
  BY <1>1
<1>3. Elements(q) = {x}
  BY <1>2 DEF Elements
<1>4. Once(q)
  BY <1>2 DEF Once
<1>5. QED BY <1>1, <1>3, <1>4

\* The last and the first of a queue.
LEMMA LastOf ==
  ASSUME NEW T, NEW q \in Seq(T), NEW x \in T
  PROVE  /\ Elements(Append(q, x)) = Elements(q) \cup {x}
         /\ Once(Append(q, x)) <=> Once(q) /\ x \notin EventsIn(q)
         /\ \A S : Chosen(Append(q, x), S) = IF x \in S THEN Append(Chosen(q, S), x) ELSE Chosen(q, S)
<1>1. <<x>> \in Seq(T) /\ Append(q, x) = q \o <<x>>
  BY AppendIsConcat
<1>2. Elements(<<x>>) = {x} /\ Once(<<x>>)
  BY InOne
<1>3. /\ Elements(q \o <<x>>) = Elements(q) \cup Elements(<<x>>)
      /\ Once(q \o <<x>>) <=> Once(q) /\ Once(<<x>>) /\ EventsIn(q) \cap EventsIn(<<x>>) = {}
  BY <1>1, InBoth
<1>4. EventsIn(q) \cap EventsIn(<<x>>) = {} <=> x \notin EventsIn(q)
  BY <1>2 DEF EventsIn
<1>5. ASSUME NEW S PROVE Chosen(Append(q, x), S) = IF x \in S THEN Append(Chosen(q, S), x) ELSE Chosen(q, S)
  <2>1. Chosen(q \o <<x>>, S) = Chosen(q, S) \o Chosen(<<x>>, S)
    <3>1. PICK y : y = <<x>>
      OBVIOUS
    <3>2. y \in Seq(T)
      BY <1>1, <3>1
    <3>3. Chosen(q \o y, S) = Chosen(q, S) \o Chosen(y, S)
      BY <3>2, ChosenFromBoth
    <3>4. QED BY <3>1, <3>3
  <2>2. Chosen(q, S) \in Seq(T)
    BY ChosenTyped
  <2>3. Chosen(<<x>>, S) = IF x \in S THEN <<x>> ELSE <<>>
    BY ChosenFromOne
  <2>4. Chosen(q, S) \o <<x>> = Append(Chosen(q, S), x) /\ Chosen(q, S) \o <<>> = Chosen(q, S)
    BY <2>2, AppendIsConcat, ConcatEmptySeq
  <2>5. QED BY <1>1, <2>1, <2>3, <2>4
<1>6. QED BY <1>1, <1>2, <1>3, <1>4, <1>5

LEMMA FirstOf ==
  ASSUME NEW T, NEW q \in Seq(T), q # <<>>
  PROVE  /\ Head(q) \in T /\ Tail(q) \in Seq(T)
         /\ q = <<Head(q)>> \o Tail(q)
         /\ Elements(q) = {Head(q)} \cup Elements(Tail(q))
         /\ Once(q) => Once(Tail(q)) /\ Head(q) \notin EventsIn(Tail(q))
         /\ \A S : Chosen(q, S) = IF Head(q) \in S THEN <<Head(q)>> \o Chosen(Tail(q), S) ELSE Chosen(Tail(q), S)
<1>1. PICK x : x = Head(q)
  OBVIOUS
<1>2. PICK r : r = Tail(q)
  OBVIOUS
<1>3. x \in T /\ r \in Seq(T) /\ <<x>> \in Seq(T)
  BY <1>1, <1>2
<1>4. q = <<x>> \o r
  <2>1. PICK n : n = Len(q)
    OBVIOUS
  <2>2. n \in Nat \ {0} /\ Len(r) = n - 1 /\ x = q[1] /\ \A i \in 1..(n - 1) : r[i] = q[i + 1]
    BY <1>1, <1>2, <2>1
  <2>3. PICK s : s = <<x>>
    OBVIOUS
  <2>4. s \in Seq(T) /\ Len(s) = 1 /\ s[1] = x
    BY <1>3, <2>3
  <2>5. PICK t : t = s \o r
    OBVIOUS
  <2>6. t \in Seq(T) /\ Len(t) = 1 + (n - 1) /\ \A i \in 1..(1 + (n - 1)) : t[i] = IF i <= 1 THEN s[i] ELSE r[i - 1]
    <3>1. /\ t \in Seq(T) /\ Len(t) = Len(s) + Len(r)
          /\ \A i \in 1..(Len(s) + Len(r)) : t[i] = IF i <= Len(s) THEN s[i] ELSE r[i - Len(s)]
      BY <1>3, <2>4, <2>5, ConcatProperties
    <3>2. QED BY <2>2, <2>4, <3>1
  <2>7. Len(t) = n
    BY <2>2, <2>6
  <2>8. ASSUME NEW i \in 1..n PROVE t[i] = q[i]
    <3>1. i \in 1..(1 + (n - 1))
      BY <2>2
    <3>2. CASE i = 1
      BY <2>2, <2>4, <2>6, <3>1, <3>2
    <3>3. CASE i # 1
      <4>1. ~(i <= 1) /\ i - 1 \in 1..(n - 1) /\ (i - 1) + 1 = i
        BY <2>2, <3>3
      <4>2. QED BY <2>2, <2>6, <3>1, <4>1
    <3>4. QED BY <3>2, <3>3
  <2>9. t = q
    BY <2>1, <2>6, <2>7, <2>8, SeqEqual
  <2>10. QED BY <2>3, <2>5, <2>9
<1>5. Elements(<<x>>) = {x}
  BY InOne
<1>6. /\ Elements(<<x>> \o r) = Elements(<<x>>) \cup Elements(r)
      /\ Once(<<x>> \o r) <=> Once(<<x>>) /\ Once(r) /\ EventsIn(<<x>>) \cap EventsIn(r) = {}
  BY <1>3, InBoth
<1>7. EventsIn(<<x>>) \cap EventsIn(r) = {} => x \notin EventsIn(r)
  BY <1>5 DEF EventsIn
<1>8. ASSUME NEW S PROVE Chosen(q, S) = IF x \in S THEN <<x>> \o Chosen(r, S) ELSE Chosen(r, S)
  <2>1. Chosen(<<x>> \o r, S) = Chosen(<<x>>, S) \o Chosen(r, S)
    <3>1. PICK y : y = <<x>>
      OBVIOUS
    <3>2. y \in Seq(T)
      BY <1>3, <3>1
    <3>3. Chosen(y \o r, S) = Chosen(y, S) \o Chosen(r, S)
      BY <1>3, <3>2, ChosenFromBoth
    <3>4. QED BY <3>1, <3>3
  <2>2. Chosen(<<x>>, S) = IF x \in S THEN <<x>> ELSE <<>>
    BY ChosenFromOne
  <2>3. <<>> \o Chosen(r, S) = Chosen(r, S)
    BY <1>3, ChosenTyped, ConcatEmptySeq
  <2>4. QED BY <1>4, <2>1, <2>2, <2>3
<1>9. QED BY <1>1, <1>2, <1>3, <1>4, <1>5, <1>6, <1>7, <1>8

-----------------------------------------------------------------------------
(* After the stop: what is over when eventIO_dispatch returns. *)

Left == {"last", "release", "done", "gone"}

Stopped == main # "start" /\ ~bLoopRunning

\* A call that brings a loop its Stop.
BringsStop(k) == k \in LoopCalls /\ (k.at = "stop" \/ k.stops)

\* Who is between what batches leaves nothing in them.
BatchesDone ==
  /\ \A l \in Loops : loop[l] \notin {"run", "work"} => batch[l] = <<>>
  /\ main \notin {"run", "work"} => mainBatch = <<>>

\* No loop ends before eventIO_stop, and eventIO_dispatch not before the loops.
EndInv ==
  /\ bLoopRunning => main # "start"
  /\ main \in {"run", "work"} => uiCocurrentThreads # 0
  /\ main = "loop" => uiCocurrentThreads = 0
  /\ main \in Left => \A l \in Running : Closed(l)
  /\ \A l \in Loops : Stop \in Elements(batch[l]) \/ Stop \in Elements(queuePending[l]) => Stopped
  /\ \A l \in Loops : loop[l] # "off" /\ ~loopRunning[l] => Stopped
  /\ \A l \in Loops : Closed(l) => Stopped
  /\ \A c \in Callers : BringsStop(call[c]) => Stopped

LEMMA InitDone == Init => BatchesDone
BY DEF Init, BatchesDone

LEMMA InitEnd == Init => EndInv
<1> SUFFICES ASSUME Init PROVE EndInv
  OBVIOUS
<1>1. \A l \in Loops : batch[l] = <<>> /\ queuePending[l] = <<>> /\ loop[l] = "off" /\ ~Closed(l)
  BY DEF Init, Closed
<1>2. \A l \in Loops : Stop \notin Elements(batch[l]) /\ Stop \notin Elements(queuePending[l])
  BY <1>1, NothingIn
<1>3. \A c \in Callers : ~BringsStop(call[c])
  BY DEF Init, BringsStop, LoopCalls, NoCall
<1>4. main = "start" /\ ~bLoopRunning
  BY DEF Init
<1>5. QED BY <1>1, <1>2, <1>3, <1>4 DEF EndInv, Left

LEMMA CallDone ==
  ASSUME BatchesDone, NEW c \in Callers, Begin(c) \/ CallNext(c)
  PROVE  BatchesDone' /\ UNCHANGED <<loop, loopRunning, batch, main, mainBatch, uiCocurrentThreads>>
<1> USE DEF mainVars, loopVars
<1>1. UNCHANGED <<loop, loopRunning, batch, main, mainBatch, uiCocurrentThreads>>
  <2>1. CASE Begin(c)
    BY <2>1 DEF Begin, CallStop, PostCheck, QueueInMain, RunHere, QueueInLoop
  <2>2. CASE CallNext(c)
    BY <2>2 DEF CallNext, PostInsert, PostWrite, NotifyLoad, NotifyStore, NotifyWrite, StopInsert
  <2> QED BY <2>1, <2>2
<1>2. QED BY <1>1 DEF BatchesDone

LEMMA LoopDone ==
  ASSUME TypeOK, BatchesDone, NEW l \in Loops, LoopNext(l)
  PROVE  BatchesDone'
<1> USE DEF mainVars, loopVars, Goto, Dispatching
<1>1. UNCHANGED <<main, mainBatch>>
  BY DEF LoopNext, Poll, WakeRead, WakeStore, Take, PoolRead, TakePool, Run, WorkEnds, PollAgain,
         ClearCancel, Close, LoopStop, LoopRelease
<1>2. \A k \in Loops : k # l => loop'[k] = loop[k] /\ batch'[k] = batch[k]
  BY DEF TypeOK, LoopNext, Poll, WakeRead, WakeStore, Take, PoolRead, TakePool, Run, WorkEnds,
         PollAgain, ClearCancel, Close, LoopStop, LoopRelease
<1>3. loop'[l] \notin {"run", "work"} => batch'[l] = <<>>
  BY DEF BatchesDone, TypeOK, LoopNext, Poll, WakeRead, WakeStore, Take, PoolRead, TakePool, Run,
         WorkEnds, PollAgain, ClearCancel, Close, LoopStop, LoopRelease
<1>4. QED BY <1>1, <1>2, <1>3 DEF BatchesDone

\* The dispatching thread starts loops that were off.
LEMMA LoopsStarted ==
  ASSUME TypeOK, WakeInv, MainNext
  PROVE  /\ UNCHANGED <<batch, queuePending, call>>
         /\ \A l \in Loops : loop'[l] # loop[l] =>
              /\ loop[l] = "off" /\ loop'[l] = "poll" /\ main \in {"start", "idle"}
              /\ main = "idle" => l = 1 /\ uiCocurrentThreads = 0
         /\ \A l \in Loops : loopRunning[l] => loopRunning'[l]
         /\ uiCocurrentThreads' = uiCocurrentThreads
<1> USE DEF mainVars, loopVars, poolVars, MainGoto
<1>1. CASE StartEnds \/ MainTake \/ MainRun \/ MainWorkEnds \/ MainDrain \/ LoopReturns \/ PoolDrain
           \/ DispatchReturns \/ OwnerReleases
  BY <1>1 DEF StartEnds, MainTake, MainRun, MainWorkEnds, MainDrain, LoopReturns, PoolDrain,
              DispatchReturns, OwnerReleases
<1>2. CASE Dispatch
  <2>1. UNCHANGED <<batch, queuePending, call, loopRunning, uiCocurrentThreads>> /\ main = "idle"
    BY <1>2 DEF Dispatch
  <2>2. CASE uiCocurrentThreads = 0
    <3>1. \A l \in Loops : loop[l] = "off"
      BY <2>1, <2>2 DEF WakeInv, NothingStirs
    <3>2. loop' = [loop EXCEPT ![1] = "poll"]
      BY <1>2, <2>2 DEF Dispatch, Goto
    <3>3. \A l \in Loops : loop'[l] # loop[l] => l = 1 /\ loop'[l] = "poll"
      BY <3>2 DEF TypeOK
    <3> QED BY <2>1, <2>2, <3>1, <3>3
  <2>3. CASE uiCocurrentThreads # 0
    BY <1>2, <2>1, <2>3 DEF Dispatch
  <2> QED BY <2>2, <2>3
<1>3. ASSUME NEW k \in Loops, StartLoop(k)
      PROVE  /\ UNCHANGED <<batch, queuePending, call>>
             /\ \A l \in Loops : loop'[l] # loop[l] =>
                  /\ loop[l] = "off" /\ loop'[l] = "poll" /\ main \in {"start", "idle"}
                  /\ main = "idle" => l = 1 /\ uiCocurrentThreads = 0
             /\ \A l \in Loops : loopRunning[l] => loopRunning'[l]
             /\ uiCocurrentThreads' = uiCocurrentThreads
  <2>1. UNCHANGED <<batch, queuePending, call, uiCocurrentThreads>> /\ main = "start"
    BY <1>3 DEF StartLoop
  <2>2. \A l \in Loops : loop[l] \in {"off", "poll"}
    BY <2>1 DEF WakeInv, NothingStirs
  <2>3. loop' = [loop EXCEPT ![k] = "poll"] \/ loop' = loop
    BY <1>3 DEF StartLoop, Goto
  <2>4. loopRunning' = [loopRunning EXCEPT ![k] = TRUE]
    BY <1>3 DEF StartLoop
  <2>5. \A l \in Loops : loop'[l] # loop[l] => loop[l] = "off" /\ loop'[l] = "poll"
    BY <2>2, <2>3 DEF TypeOK
  <2>6. \A l \in Loops : loopRunning[l] => loopRunning'[l]
    BY <2>4 DEF TypeOK
  <2> QED BY <2>1, <2>5, <2>6
<1> QED BY <1>1, <1>2, <1>3 DEF MainNext

LEMMA MainDone ==
  ASSUME TypeOK, WakeInv, BatchesDone, MainNext
  PROVE  BatchesDone'
<1>1. \A l \in Loops : loop'[l] \notin {"run", "work"} => batch'[l] = <<>>
  BY LoopsStarted DEF BatchesDone
<1>2. main' \notin {"run", "work"} => mainBatch' = <<>>
  BY DEF BatchesDone, MainNext, StartEnds, Dispatch, MainTake, MainRun, MainWorkEnds, MainDrain,
         LoopReturns, PoolDrain, DispatchReturns, OwnerReleases, StartLoop, MainGoto, mainVars
<1>3. QED BY <1>1, <1>2 DEF BatchesDone

\* What a call does to the loops' queues, and what it may still do.
LEMMA CallEnd ==
  ASSUME TypeOK, WakeInv, EndInv, NEW c \in Callers, Begin(c) \/ CallNext(c)
  PROVE  EndInv'
<1> USE DEF mainVars, loopVars, poolVars, countVars, wakeVars
<1>1. UNCHANGED <<loop, loopRunning, batch, main, mainBatch, uiCocurrentThreads>>
  <2>1. CASE Begin(c)
    BY <2>1 DEF Begin, CallStop, PostCheck, QueueInMain, RunHere, QueueInLoop
  <2>2. CASE CallNext(c)
    BY <2>2 DEF CallNext, PostInsert, PostWrite, NotifyLoad, NotifyStore, NotifyWrite, StopInsert
  <2> QED BY <2>1, <2>2
<1>2. bLoopRunning' = bLoopRunning \/ (bLoopRunning /\ bLoopRunning' = FALSE)
  <2>1. CASE Begin(c)
    BY <2>1 DEF Begin, CallStop, PostCheck, QueueInMain, RunHere, QueueInLoop
  <2>2. CASE CallNext(c)
    BY <2>2 DEF CallNext, PostInsert, PostWrite, NotifyLoad, NotifyStore, NotifyWrite, StopInsert
  <2> QED BY <2>1, <2>2
<1>3. Stopped => Stopped'
  BY <1>1, <1>2 DEF Stopped
<1>4. \A d \in Callers : call'[d] = call[d] \/ d = c
  <2>1. call' = call \/ \E k : call' = [call EXCEPT ![c] = k]
    <3>1. CASE Begin(c)
      BY <3>1 DEF Begin, CallStop, PostCheck, QueueInMain, RunHere, QueueInLoop, Enter
    <3>2. CASE CallNext(c)
      BY <3>2 DEF CallNext, PostInsert, PostWrite, NotifyLoad, NotifyStore, NotifyWrite, StopInsert,
                  Enter, Advance, CallEnds
    <3> QED BY <3>1, <3>2
  <2>2. QED BY <2>1 DEF TypeOK
<1>5. BringsStop(call'[c]) => Stopped'
  <2>1. CASE CallStop(c)
    BY <1>1, <2>1 DEF CallStop, Stopped, EndInv
  <2>2. ASSUME NEW e \in Events, PostCheck(c, e) PROVE ~BringsStop(call'[c])
    <3>1. call'[c] = [at |-> "post", item |-> e] \/ call'[c] = NoCall
      BY <2>2 DEF PostCheck, Enter, TypeOK
    <3> QED BY <3>1 DEF BringsStop, LoopCalls, NoCall
  <2>3. ASSUME NEW e \in Events, QueueInMain(c, e) \/ RunHere(c, e) PROVE call' = call
    BY <2>3 DEF QueueInMain, RunHere
  <2>4. ASSUME NEW e \in Events, NEW l \in Loops, QueueInLoop(c, e, l) PROVE ~BringsStop(call'[c])
    <3>1. call'[c] = [at |-> "notify", loop |-> l, stops |-> FALSE]
      BY <2>4 DEF QueueInLoop, Enter, TypeOK
    <3> QED BY <3>1 DEF BringsStop
  <2>5. CASE PostInsert(c) \/ PostWrite(c)
    <3>1. call'[c] = [at |-> "postWrite"] \/ call'[c] = NoCall
      BY <2>5 DEF PostInsert, PostWrite, Enter, TypeOK
    <3> QED BY <3>1 DEF BringsStop, LoopCalls, NoCall
  <2>6. CASE NotifyLoad(c) \/ NotifyStore(c) \/ NotifyWrite(c) \/ StopInsert(c)
    <3>1. call[c] \in LoopCalls
      BY <2>6, CallKinds DEF NotifyLoad, NotifyStore, NotifyWrite, StopInsert, TypeOK
    <3>2. CallEnds(c) \/ Advance(c, "store") \/ Advance(c, "write") \/ Advance(c, "notify")
      BY <2>6 DEF NotifyLoad, NotifyStore, NotifyWrite, StopInsert
    <3>3. ASSUME NEW at \in {"store", "write", "notify"}, Advance(c, at) PROVE BringsStop(call'[c]) => BringsStop(call[c])
      <4>1. call'[c] = [call[c] EXCEPT !.at = at]
        BY <3>3 DEF Advance, Enter, TypeOK
      <4>2. call'[c].at = at /\ call'[c].stops = call[c].stops
        BY <3>1, <4>1 DEF LoopCalls
      <4> QED BY <3>1, <4>2 DEF BringsStop
    <3>4. CASE CallEnds(c)
      <4>1. CASE call[c].stops
        BY <1>3, <3>1, <4>1 DEF BringsStop, EndInv
      <4>2. CASE ~call[c].stops
        <5>1. call'[c] = NoCall
          BY <3>4, <4>2 DEF CallEnds, Enter, TypeOK
        <5> QED BY <5>1 DEF BringsStop, LoopCalls, NoCall
      <4> QED BY <4>1, <4>2
    <3> QED BY <1>3, <3>2, <3>3, <3>4 DEF EndInv
  <2>7. BringsStop(call[c]) => Stopped'
    BY <1>3 DEF EndInv
  <2> QED BY <2>1, <2>2, <2>3, <2>4, <2>5, <2>6, <2>7 DEF Begin, CallNext
<1>6. ASSUME NEW l \in Loops, Stop \in Elements(queuePending'[l]) PROVE Stopped'
  <2>1. queuePending[l] \in Seq(Events \cup {Stop})
    BY DEF TypeOK
  <2>2. CASE queuePending'[l] = queuePending[l]
    BY <1>3, <1>6, <2>2 DEF EndInv
  <2>3. ASSUME NEW e \in Events, queuePending'[l] = Append(queuePending[l], e) PROVE Stopped'
    <3>1. Stop \in Elements(queuePending[l])
      BY <1>6, <2>1, <2>3, LastOf, StopIsNoEvent
    <3> QED BY <1>3, <3>1 DEF EndInv
  <2>4. CASE StopInsert(c)
    <3>1. BringsStop(call[c])
      BY <2>4, CallKinds DEF StopInsert, TypeOK, BringsStop
    <3> QED BY <1>3, <3>1 DEF EndInv
  <2>5. StopInsert(c) \/ queuePending'[l] = queuePending[l] \/ \E e \in Events : queuePending'[l] = Append(queuePending[l], e)
    <3>1. ASSUME NEW e \in Events, NEW k \in Loops, QueueInLoop(c, e, k)
          PROVE  queuePending'[l] = queuePending[l] \/ queuePending'[l] = Append(queuePending[l], e)
      BY <3>1 DEF QueueInLoop, Put, TypeOK
    <3>2. CASE \A e \in Events, k \in Loops : ~QueueInLoop(c, e, k)
      BY <3>2 DEF Begin, CallStop, PostCheck, QueueInMain, RunHere, CallNext, PostInsert, PostWrite,
                  NotifyLoad, NotifyStore, NotifyWrite
    <3> QED BY <3>1, <3>2
  <2> QED BY <2>2, <2>3, <2>4, <2>5
<1>7. bLoopRunning' => main' # "start"
  BY <1>1, <1>2 DEF EndInv
<1>8. \A l \in Loops : Closed(l)' = Closed(l)
  BY <1>1 DEF Closed
<1>9. Running' = Running
  BY <1>1 DEF Running
<1>10. \A d \in Callers : BringsStop(call'[d]) => Stopped'
  BY <1>3, <1>4, <1>5 DEF EndInv
<1>11. /\ main' \in {"run", "work"} => uiCocurrentThreads' # 0
       /\ main' = "loop" => uiCocurrentThreads' = 0
       /\ main' \in Left => \A l \in Running' : Closed(l)'
  <2>1. \A l \in Running : l \in Loops
    BY RunningAreLoops DEF TypeOK
  <2> QED BY <1>1, <1>8, <1>9, <2>1 DEF EndInv
<1>12. \A l \in Loops : /\ Stop \in Elements(batch'[l]) => Stopped'
                        /\ loop'[l] # "off" /\ ~loopRunning'[l] => Stopped'
                        /\ Closed(l)' => Stopped'
  BY <1>1, <1>3, <1>8 DEF EndInv
<1> QED BY <1>6, <1>7, <1>10, <1>11, <1>12 DEF EndInv

\* A loop ends because it was stopped.
LEMMA LoopEnd ==
  ASSUME TypeOK, EndInv, NEW l \in Loops, LoopNext(l)
  PROVE  EndInv'
<1> USE DEF mainVars, loopVars, poolVars, countVars, wakeVars, Goto, Dispatching
<1>1. UNCHANGED <<main, bLoopRunning, uiCocurrentThreads, call>>
  BY DEF LoopNext, Poll, WakeRead, WakeStore, Take, PoolRead, TakePool, Run, WorkEnds, PollAgain,
         ClearCancel, Close, LoopStop, LoopRelease
<1>2. \A k \in Loops : k # l => /\ loop'[k] = loop[k] /\ loopRunning'[k] = loopRunning[k]
                                /\ batch'[k] = batch[k] /\ queuePending'[k] = queuePending[k]
  BY DEF TypeOK, LoopNext, Poll, WakeRead, WakeStore, Take, PoolRead, TakePool, Run, WorkEnds,
         PollAgain, ClearCancel, Close, LoopStop, LoopRelease
<1>3. Stopped' = Stopped
  BY <1>1 DEF Stopped
<1>4. /\ queuedEvent \in Seq(Events) /\ batch[l] \in Seq(Events \cup {Stop})
      /\ queuePending[l] \in Seq(Events \cup {Stop}) /\ loop[l] \in LoopStates /\ loopRunning[l] \in BOOLEAN
  BY DEF TypeOK
<1>5. Stop \notin Elements(queuedEvent)
  BY <1>4, StopIsNoEvent DEF Elements
<1>6. \A q \in Seq(Events \cup {Stop}) : q # <<>> => Head(q) \in Elements(q) /\ Elements(Tail(q)) \subseteq Elements(q)
  <2>1. ASSUME NEW q \in Seq(Events \cup {Stop}), q # <<>>
        PROVE  Head(q) \in Elements(q) /\ Elements(Tail(q)) \subseteq Elements(q)
    <3>1. Elements(q) = {Head(q)} \cup Elements(Tail(q))
      BY <2>1, FirstOf
    <3> QED BY <3>1
  <2> QED BY <2>1
<1>7. Elements(<<>>) = {}
  BY NothingIn
<1>8. Stop \in Elements(batch'[l]) => Stopped'
  <2>1. Stop \in Elements(batch'[l]) => Stop \in Elements(batch[l]) \cup Elements(queuePending[l])
    <3>1. \/ batch'[l] = batch[l] \/ batch'[l] = queuePending[l] \/ batch'[l] = queuedEvent
          \/ batch[l] # <<>> /\ batch'[l] = Tail(batch[l])
      BY DEF TypeOK, LoopNext, Poll, WakeRead, WakeStore, Take, PoolRead, TakePool, Run, WorkEnds,
             PollAgain, ClearCancel, Close, LoopStop, LoopRelease
    <3> QED BY <1>4, <1>5, <1>6, <3>1
  <2> QED BY <1>3, <2>1 DEF EndInv
<1>9. Stop \in Elements(queuePending'[l]) => Stopped'
  <2>1. Stop \in Elements(queuePending'[l]) => Stop \in Elements(queuePending[l])
    <3>1. \/ queuePending'[l] = queuePending[l] \/ queuePending'[l] = <<>>
          \/ queuePending[l] # <<>> /\ queuePending'[l] = Tail(queuePending[l])
      BY DEF TypeOK, LoopNext, Poll, WakeRead, WakeStore, Take, PoolRead, TakePool, Run, WorkEnds,
             PollAgain, ClearCancel, Close, LoopStop, LoopRelease
    <3> QED BY <1>4, <1>6, <1>7, <3>1
  <2> QED BY <1>3, <2>1 DEF EndInv
<1>10. ~loopRunning'[l] => Stopped'
  <2>1. loop[l] # "off"
    BY DEF LoopNext, Poll, WakeRead, WakeStore, Take, PoolRead, TakePool, Run, WorkEnds, PollAgain,
           ClearCancel, Close, LoopStop, LoopRelease
  <2>2. loopRunning'[l] = loopRunning[l] \/ (batch[l] # <<>> /\ Head(batch[l]) = Stop)
    BY DEF LoopNext, Poll, WakeRead, WakeStore, Take, PoolRead, TakePool, Run, WorkEnds, PollAgain,
           ClearCancel, Close, LoopStop, LoopRelease
  <2>3. batch[l] # <<>> /\ Head(batch[l]) = Stop => Stop \in Elements(batch[l])
    BY <1>4, <1>6
  <2> QED BY <1>3, <2>1, <2>2, <2>3 DEF EndInv
<1>11. Closed(l) => Closed(l)'
  BY DEF TypeOK, Closed, LoopNext, Poll, WakeRead, WakeStore, Take, PoolRead, TakePool, Run, WorkEnds,
         PollAgain, ClearCancel, Close, LoopStop, LoopRelease
<1>12. Closed(l)' => Stopped'
  <2>1. Closed(l)' => Closed(l) \/ (loop[l] = "run" /\ ~loopRunning[l])
    BY <1>4 DEF TypeOK, Closed, LoopNext, Poll, WakeRead, WakeStore, Take, PoolRead, TakePool, Run,
           WorkEnds, PollAgain, ClearCancel, Close, LoopStop, LoopRelease
  <2> QED BY <1>3, <2>1 DEF EndInv
<1>13. \A k \in Loops : k # l => Closed(k)' = Closed(k)
  BY <1>2 DEF Closed
<1>14. main' \in Left => \A k \in Running' : Closed(k)'
  <2>1. Running' = Running /\ \A k \in Running : k \in Loops
    BY <1>1, RunningAreLoops DEF Running, TypeOK
  <2> QED BY <1>1, <1>11, <1>13, <2>1 DEF EndInv
<1>15. \A k \in Loops : /\ Stop \in Elements(batch'[k]) \/ Stop \in Elements(queuePending'[k]) => Stopped'
                        /\ loop'[k] # "off" /\ ~loopRunning'[k] => Stopped'
                        /\ Closed(k)' => Stopped'
  BY <1>2, <1>3, <1>8, <1>9, <1>10, <1>12, <1>13 DEF EndInv
<1>16. \A c \in Callers : BringsStop(call'[c]) => Stopped'
  BY <1>1, <1>3 DEF EndInv
<1>17. /\ bLoopRunning' => main' # "start"
       /\ main' \in {"run", "work"} => uiCocurrentThreads' # 0
       /\ main' = "loop" => uiCocurrentThreads' = 0
  BY <1>1 DEF EndInv
<1> QED BY <1>14, <1>15, <1>16, <1>17 DEF EndInv

\* The dispatching thread starts no loop that is stopped, and leaves after the loops.
LEMMA MainEnd ==
  ASSUME TypeOK, WakeInv, RefInv, EndInv, MainNext
  PROVE  EndInv'
<1> USE DEF mainVars, loopVars, poolVars, countVars, wakeVars, MainGoto
<1>1. /\ UNCHANGED <<batch, queuePending, call>>
      /\ \A l \in Loops : loop'[l] # loop[l] =>
           /\ loop[l] = "off" /\ loop'[l] = "poll" /\ main \in {"start", "idle"}
           /\ main = "idle" => l = 1 /\ uiCocurrentThreads = 0
      /\ \A l \in Loops : loopRunning[l] => loopRunning'[l]
      /\ uiCocurrentThreads' = uiCocurrentThreads
  BY LoopsStarted
<1>2. /\ main # "start" => main' # "start" /\ bLoopRunning' = bLoopRunning
      /\ main = "start" => bLoopRunning' = bLoopRunning \/ main' # "start"
  BY DEF MainNext, StartEnds, Dispatch, MainTake, MainRun, MainWorkEnds, MainDrain, LoopReturns,
         PoolDrain, DispatchReturns, OwnerReleases, StartLoop
<1>3. Stopped => Stopped'
  BY <1>2 DEF Stopped
<1>4. bLoopRunning' => main' # "start"
  BY <1>2 DEF EndInv
<1>5. main' \in {"run", "work"} => uiCocurrentThreads' # 0
  BY <1>1 DEF EndInv, MainNext, StartEnds, Dispatch, MainTake, MainRun, MainWorkEnds, MainDrain,
         LoopReturns, PoolDrain, DispatchReturns, OwnerReleases, StartLoop
<1>6. main' = "loop" => uiCocurrentThreads' = 0
  BY <1>1 DEF EndInv, MainNext, StartEnds, Dispatch, MainTake, MainRun, MainWorkEnds, MainDrain,
         LoopReturns, PoolDrain, DispatchReturns, OwnerReleases, StartLoop
<1>7. \A l \in Loops : Closed(l)' = Closed(l)
  BY <1>1 DEF Closed
<1>8. \A l \in Loops : loop'[l] # "off" /\ ~loopRunning'[l] => Stopped'
  <2>1. ASSUME NEW l \in Loops, loop'[l] # "off", ~loopRunning'[l] PROVE Stopped'
    <3>1. ~loopRunning[l]
      BY <1>1, <2>1
    <3>2. CASE loop[l] # "off"
      BY <1>3, <3>1, <3>2 DEF EndInv
    <3>3. CASE loop[l] = "off" /\ main = "idle"
      BY <1>1, <2>1, <3>1, <3>3 DEF RefInv, StartInv
    <3>4. CASE loop[l] = "off" /\ main = "start"
      <4>1. PICK k \in Loops : StartLoop(k)
        BY <1>1, <2>1, <3>4 DEF MainNext, StartEnds, Dispatch, MainTake, MainRun, MainWorkEnds, MainDrain,
           LoopReturns, PoolDrain, DispatchReturns, OwnerReleases
      <4>2. loop' = loop \/ loop' = [loop EXCEPT ![k] = "poll"]
        BY <4>1 DEF StartLoop, Goto
      <4>3. loopRunning' = [loopRunning EXCEPT ![k] = TRUE]
        BY <4>1 DEF StartLoop
      <4> QED BY <2>1, <3>4, <4>2, <4>3 DEF TypeOK
    <3>5. loop[l] = "off" => main \in {"start", "idle"}
      BY <1>1, <2>1
    <3> QED BY <3>2, <3>3, <3>4, <3>5
  <2> QED BY <2>1
<1>9. main' \in Left => \A l \in Running' : Closed(l)'
  <2>1. Running' = Running /\ \A l \in Running : l \in Loops
    BY <1>1, RunningAreLoops DEF Running, TypeOK
  <2>2. CASE main \in Left
    BY <1>7, <2>1, <2>2 DEF EndInv
  <2>3. CASE MainDrain
    <3>1. uiCocurrentThreads # 0
      BY <2>3 DEF MainDrain, EndInv
    <3>2. Unstopped = {}
      BY <2>3 DEF MainDrain, RefInv, StopInv
    <3>3. \A l \in Running : loop[l] \in {"release", "gone"}
      BY <3>1, <3>2 DEF Running, Unstopped
    <3> QED BY <1>7, <2>1, <3>3 DEF Closed
  <2>4. CASE LoopReturns
    <3>1. uiCocurrentThreads = 0 /\ loop[1] = "gone"
      BY <2>4 DEF LoopReturns, EndInv
    <3>2. \A l \in Running : l = 1
      BY <3>1 DEF Running
    <3> QED BY <1>7, <2>1, <3>1, <3>2 DEF Closed
  <2>5. main' \in Left => main \in Left \/ MainDrain \/ LoopReturns
    BY DEF Left, MainNext, StartEnds, Dispatch, MainTake, MainRun, MainWorkEnds, PoolDrain,
           DispatchReturns, OwnerReleases, StartLoop
  <2> QED BY <2>2, <2>3, <2>4, <2>5
<1>10. \A l \in Loops : /\ Stop \in Elements(batch'[l]) \/ Stop \in Elements(queuePending'[l]) => Stopped'
                        /\ Closed(l)' => Stopped'
  BY <1>1, <1>3, <1>7 DEF EndInv
<1>11. \A c \in Callers : BringsStop(call'[c]) => Stopped'
  BY <1>1, <1>3 DEF EndInv
<1> QED BY <1>4, <1>5, <1>6, <1>8, <1>9, <1>10, <1>11 DEF EndInv

LEMMA NextEnd ==
  TypeOK /\ WakeInv /\ RefInv /\ BatchesDone /\ EndInv /\ [Next]_vars => (BatchesDone /\ EndInv)'
<1> SUFFICES ASSUME TypeOK, WakeInv, RefInv, BatchesDone, EndInv, [Next]_vars
             PROVE  BatchesDone' /\ EndInv'
  OBVIOUS
<1>1. ASSUME NEW c \in Callers, Begin(c) \/ CallNext(c) PROVE BatchesDone' /\ EndInv'
  BY <1>1, CallDone, CallEnd
<1>2. ASSUME NEW l \in Loops, LoopNext(l) PROVE BatchesDone' /\ EndInv'
  BY <1>2, LoopDone, LoopEnd
<1>3. CASE MainNext
  BY <1>3, MainDone, MainEnd
<1>4. CASE UNCHANGED vars
  BY <1>4 DEF vars, mainVars, poolVars, wakeVars, loopVars, countVars, BatchesDone, EndInv, Stopped,
              Running, Closed
<1> QED BY <1>1, <1>2, <1>3, <1>4 DEF Next

-----------------------------------------------------------------------------
(* Where an event can be: a batch or a queue of each target, or the shared  *)
(* queue, which is Stop's.                                                  *)

Targets == Loops \cup {Main}

Bat(t) == <<t, "batch">>

Que(t) == <<t, "queue">>

Places == {Bat(t) : t \in Targets} \cup {Que(t) : t \in Targets \cup {Stop}}

HeldBy(b, q, mb, mp, qe) ==
  [p \in Places |->
     IF p[2] = "batch" THEN (IF p[1] = Main THEN mb ELSE b[p[1]])
     ELSE IF p[1] = Stop THEN qe ELSE IF p[1] = Main THEN mp ELSE q[p[1]]]

\* What each place holds now.
held == HeldBy(batch, queuePending, mainBatch, mainPending, queuedEvent)

LEMMA Apart ==
  /\ Main \notin Loops /\ Stop # Main /\ Stop \notin Loops
  /\ \A t \in Targets : t \in Loops \/ t = Main
  /\ Main \in Targets /\ \A l \in Loops : l \in Targets
BY CallersAreDistinct, StopIsNoTarget DEF Targets

LEMMA PlacesApart ==
  /\ \A t, u : (Bat(t) = Bat(u) <=> t = u) /\ (Que(t) = Que(u) <=> t = u) /\ Bat(t) # Que(u)
  /\ \A t \in Targets : Bat(t) \in Places /\ Que(t) \in Places
  /\ Que(Stop) \in Places
  /\ \A p \in Places : \/ \E l \in Loops : p = Bat(l) \/ p = Que(l)
                       \/ p \in {Bat(Main), Que(Main), Que(Stop)}
<1>1. \A t, u : (Bat(t) = Bat(u) <=> t = u) /\ (Que(t) = Que(u) <=> t = u) /\ Bat(t) # Que(u)
  BY DEF Bat, Que
<1>2. /\ \A t \in Targets : Bat(t) \in Places /\ Que(t) \in Places
      /\ Que(Stop) \in Places
  BY DEF Places
<1>3. ASSUME NEW p \in Places
      PROVE  \/ \E l \in Loops : p = Bat(l) \/ p = Que(l)
             \/ p \in {Bat(Main), Que(Main), Que(Stop)}
  <2>1. (\E t \in Targets : p = Bat(t)) \/ (\E t \in Targets \cup {Stop} : p = Que(t))
    BY DEF Places
  <2>2. \A t \in Targets : t \in Loops \/ t = Main
    BY Apart
  <2>3. QED BY <2>1, <2>2
<1>4. QED BY <1>1, <1>2, <1>3

LEMMA HeldByIs ==
  ASSUME NEW b, NEW q, NEW mb, NEW mp, NEW qe
  PROVE  /\ HeldBy(b, q, mb, mp, qe) = [p \in Places |-> HeldBy(b, q, mb, mp, qe)[p]]
         /\ DOMAIN HeldBy(b, q, mb, mp, qe) = Places
         /\ \A l \in Loops : /\ HeldBy(b, q, mb, mp, qe)[Bat(l)] = b[l]
                             /\ HeldBy(b, q, mb, mp, qe)[Que(l)] = q[l]
         /\ HeldBy(b, q, mb, mp, qe)[Bat(Main)] = mb
         /\ HeldBy(b, q, mb, mp, qe)[Que(Main)] = mp
         /\ HeldBy(b, q, mb, mp, qe)[Que(Stop)] = qe
<1>1. /\ \A t \in Targets : Bat(t) \in Places /\ Que(t) \in Places
      /\ Que(Stop) \in Places
  BY PlacesApart
<1>2. \A t : Bat(t)[1] = t /\ Bat(t)[2] = "batch" /\ Que(t)[1] = t /\ Que(t)[2] = "queue"
  BY DEF Bat, Que
<1>3. \A l \in Loops : l \in Targets /\ l # Main /\ l # Stop
  BY Apart
<1>4. Main \in Targets /\ Main # Stop
  BY Apart
<1>5. /\ HeldBy(b, q, mb, mp, qe)[Bat(Main)] = mb
      /\ HeldBy(b, q, mb, mp, qe)[Que(Main)] = mp
      /\ HeldBy(b, q, mb, mp, qe)[Que(Stop)] = qe
  BY <1>1, <1>2, <1>4 DEF HeldBy
<1>6. \A l \in Loops : /\ HeldBy(b, q, mb, mp, qe)[Bat(l)] = b[l]
                       /\ HeldBy(b, q, mb, mp, qe)[Que(l)] = q[l]
  BY <1>1, <1>2, <1>3 DEF HeldBy
<1>7. /\ HeldBy(b, q, mb, mp, qe) = [p \in Places |-> HeldBy(b, q, mb, mp, qe)[p]]
      /\ DOMAIN HeldBy(b, q, mb, mp, qe) = Places
  BY DEF HeldBy
<1>8. QED BY <1>5, <1>6, <1>7

LEMMA HeldIs ==
  /\ \A l \in Loops : held[Bat(l)] = batch[l] /\ held[Que(l)] = queuePending[l]
  /\ held[Bat(Main)] = mainBatch /\ held[Que(Main)] = mainPending /\ held[Que(Stop)] = queuedEvent
BY HeldByIs DEF held

\* Functions over the places that agree on each are the same.
LEMMA SameHeld ==
  ASSUME NEW g, NEW h, g = [p \in Places |-> g[p]], h = [p \in Places |-> h[p]],
         \A l \in Loops : g[Bat(l)] = h[Bat(l)] /\ g[Que(l)] = h[Que(l)],
         g[Bat(Main)] = h[Bat(Main)], g[Que(Main)] = h[Que(Main)], g[Que(Stop)] = h[Que(Stop)]
  PROVE  g = h
<1>1. \A p \in Places : g[p] = h[p]
  BY PlacesApart
<1>2. QED BY <1>1

LEMMA HeldTyped == TypeOK => held \in [Places -> Seq(Events \cup {Stop})]
<1> SUFFICES ASSUME TypeOK PROVE held \in [Places -> Seq(Events \cup {Stop})]
  OBVIOUS
<1>1. queuedEvent \in Seq(Events \cup {Stop})
  <2>1. queuedEvent \in Seq(Events)
    BY DEF TypeOK
  <2>2. QED BY <2>1, SeqMonotonic
<1>2. \A l \in Loops : batch[l] \in Seq(Events \cup {Stop}) /\ queuePending[l] \in Seq(Events \cup {Stop})
  BY DEF TypeOK
<1>3. mainBatch \in Seq(Events \cup {Stop}) /\ mainPending \in Seq(Events \cup {Stop})
  BY DEF TypeOK
<1>4. \A p \in Places : held[p] \in Seq(Events \cup {Stop})
  BY <1>1, <1>2, <1>3, HeldIs, PlacesApart
<1>5. held = [p \in Places |-> held[p]]
  BY HeldByIs DEF held
<1>6. QED BY <1>4, <1>5

-----------------------------------------------------------------------------
(* What a step does to the places and the fates. *)

Keeps == held' = held /\ fate' = fate

Decides(e, f) == held' = held /\ Become(e, f)

Receives(p, e, f) == held' = [held EXCEPT ![p] = Append(@, e)] /\ Become(e, f)

\* Stop has no fate.
ReceivesStop(p) == held' = [held EXCEPT ![p] = Append(@, Stop)] /\ fate' = fate

Moves(p, r) == /\ held[r] = <<>>
               /\ held' = [held EXCEPT ![r] = held[p], ![p] = <<>>]
               /\ fate' = fate

Loses(p, f) == /\ held[p] # <<>>
               /\ held' = [held EXCEPT ![p] = Tail(@)]
               /\ IF Head(held[p]) \in Events THEN Become(Head(held[p]), f) ELSE fate' = fate

Empties(p) == /\ held' = [held EXCEPT ![p] = <<>>]
              /\ fate' = [e \in Events |-> IF e \in EventsIn(held[p]) THEN "cancelled" ELSE fate[e]]

\* The places, but for p.
With(h, p, v) == [h EXCEPT ![p] = v]

\* One place of a loop, or of the dispatching thread, changes.
LEMMA BatchChanges ==
  ASSUME NEW b, NEW q, NEW mb, NEW mp, NEW qe, NEW l \in Loops, NEW v, NEW c,
         DOMAIN b = Loops, c = With(b, l, v)
  PROVE  HeldBy(c, q, mb, mp, qe) = With(HeldBy(b, q, mb, mp, qe), Bat(l), v)
<1>1. PICK g : g = HeldBy(c, q, mb, mp, qe)
  OBVIOUS
<1>2. PICK h : h = HeldBy(b, q, mb, mp, qe)
  OBVIOUS
<1>3. PICK i : i = [h EXCEPT ![Bat(l)] = v]
  OBVIOUS
<1>4. /\ g = [p \in Places |-> g[p]]
      /\ \A k \in Loops : g[Bat(k)] = c[k] /\ g[Que(k)] = q[k]
      /\ g[Bat(Main)] = mb /\ g[Que(Main)] = mp /\ g[Que(Stop)] = qe
  <2>1. PICK d : d = c
    OBVIOUS
  <2>2. g = HeldBy(d, q, mb, mp, qe)
    BY <1>1, <2>1
  <2> HIDE <1>1
  <2>3. /\ g = [p \in Places |-> g[p]]
        /\ \A k \in Loops : g[Bat(k)] = d[k] /\ g[Que(k)] = q[k]
        /\ g[Bat(Main)] = mb /\ g[Que(Main)] = mp /\ g[Que(Stop)] = qe
    BY <2>2, HeldByIs
  <2> QED BY <2>1, <2>3
<1>5. /\ h = [p \in Places |-> h[p]]
      /\ \A k \in Loops : h[Bat(k)] = b[k] /\ h[Que(k)] = q[k]
      /\ h[Bat(Main)] = mb /\ h[Que(Main)] = mp /\ h[Que(Stop)] = qe
  BY <1>2, HeldByIs
<1>6. \A k \in Loops : c[k] = IF k = l THEN v ELSE b[k]
  BY DEF With
<1>7. /\ \A t, u : (Bat(t) = Bat(u) <=> t = u) /\ (Que(t) = Que(u) <=> t = u) /\ Bat(t) # Que(u)
      /\ \A t \in Targets : Bat(t) \in Places /\ Que(t) \in Places
      /\ Que(Stop) \in Places
  BY PlacesApart
<1>8. i = [p \in Places |-> i[p]] /\ \A p \in Places : i[p] = IF p = Bat(l) THEN v ELSE h[p]
  BY <1>3, <1>5
<1>9. \A k \in Loops : g[Bat(k)] = i[Bat(k)] /\ g[Que(k)] = i[Que(k)]
  BY <1>4, <1>5, <1>6, <1>7, <1>8, Apart
<1>10. g[Bat(Main)] = i[Bat(Main)] /\ g[Que(Main)] = i[Que(Main)] /\ g[Que(Stop)] = i[Que(Stop)]
  BY <1>4, <1>5, <1>7, <1>8, Apart
<1>11. g = i
  BY <1>4, <1>8, <1>9, <1>10, SameHeld
<1>12. QED BY <1>1, <1>2, <1>3, <1>11 DEF With

LEMMA QueueChanges ==
  ASSUME NEW b, NEW q, NEW mb, NEW mp, NEW qe, NEW l \in Loops, NEW v, NEW c,
         DOMAIN q = Loops, c = With(q, l, v)
  PROVE  HeldBy(b, c, mb, mp, qe) = With(HeldBy(b, q, mb, mp, qe), Que(l), v)
<1>1. PICK g : g = HeldBy(b, c, mb, mp, qe)
  OBVIOUS
<1>2. PICK h : h = HeldBy(b, q, mb, mp, qe)
  OBVIOUS
<1>3. PICK i : i = [h EXCEPT ![Que(l)] = v]
  OBVIOUS
<1>4. /\ g = [p \in Places |-> g[p]]
      /\ \A k \in Loops : g[Bat(k)] = b[k] /\ g[Que(k)] = c[k]
      /\ g[Bat(Main)] = mb /\ g[Que(Main)] = mp /\ g[Que(Stop)] = qe
  <2>1. PICK d : d = c
    OBVIOUS
  <2>2. g = HeldBy(b, d, mb, mp, qe)
    BY <1>1, <2>1
  <2> HIDE <1>1
  <2>3. /\ g = [p \in Places |-> g[p]]
        /\ \A k \in Loops : g[Bat(k)] = b[k] /\ g[Que(k)] = d[k]
        /\ g[Bat(Main)] = mb /\ g[Que(Main)] = mp /\ g[Que(Stop)] = qe
    BY <2>2, HeldByIs
  <2> QED BY <2>1, <2>3
<1>5. /\ h = [p \in Places |-> h[p]]
      /\ \A k \in Loops : h[Bat(k)] = b[k] /\ h[Que(k)] = q[k]
      /\ h[Bat(Main)] = mb /\ h[Que(Main)] = mp /\ h[Que(Stop)] = qe
  BY <1>2, HeldByIs
<1>6. \A k \in Loops : c[k] = IF k = l THEN v ELSE q[k]
  BY DEF With
<1>7. /\ \A t, u : (Bat(t) = Bat(u) <=> t = u) /\ (Que(t) = Que(u) <=> t = u) /\ Bat(t) # Que(u)
      /\ \A t \in Targets : Bat(t) \in Places /\ Que(t) \in Places
      /\ Que(Stop) \in Places
  BY PlacesApart
<1>8. i = [p \in Places |-> i[p]] /\ \A p \in Places : i[p] = IF p = Que(l) THEN v ELSE h[p]
  BY <1>3, <1>5
<1>9. \A k \in Loops : g[Bat(k)] = i[Bat(k)] /\ g[Que(k)] = i[Que(k)]
  BY <1>4, <1>5, <1>6, <1>7, <1>8, Apart
<1>10. g[Bat(Main)] = i[Bat(Main)] /\ g[Que(Main)] = i[Que(Main)] /\ g[Que(Stop)] = i[Que(Stop)]
  BY <1>4, <1>5, <1>7, <1>8, Apart
<1>11. g = i
  BY <1>4, <1>8, <1>9, <1>10, SameHeld
<1>12. QED BY <1>1, <1>2, <1>3, <1>11 DEF With

LEMMA MainChanges ==
  ASSUME NEW b, NEW q, NEW mb, NEW mp, NEW qe, NEW v
  PROVE  /\ HeldBy(b, q, v, mp, qe) = With(HeldBy(b, q, mb, mp, qe), Bat(Main), v)
         /\ HeldBy(b, q, mb, v, qe) = With(HeldBy(b, q, mb, mp, qe), Que(Main), v)
         /\ HeldBy(b, q, mb, mp, v) = With(HeldBy(b, q, mb, mp, qe), Que(Stop), v)
<1>1. PICK h : h = HeldBy(b, q, mb, mp, qe)
  OBVIOUS
<1>2. /\ h = [p \in Places |-> h[p]]
      /\ \A k \in Loops : h[Bat(k)] = b[k] /\ h[Que(k)] = q[k]
      /\ h[Bat(Main)] = mb /\ h[Que(Main)] = mp /\ h[Que(Stop)] = qe
  BY <1>1, HeldByIs
<1>3. /\ \A t, u : (Bat(t) = Bat(u) <=> t = u) /\ (Que(t) = Que(u) <=> t = u) /\ Bat(t) # Que(u)
      /\ \A t \in Targets : Bat(t) \in Places /\ Que(t) \in Places
      /\ Que(Stop) \in Places
  BY PlacesApart
<1>4. ASSUME NEW g, NEW r \in Places, g = [p \in Places |-> g[p]],
             \A k \in Loops : g[Bat(k)] = b[k] /\ g[Que(k)] = q[k] /\ r # Bat(k) /\ r # Que(k),
             g[Bat(Main)] = IF r = Bat(Main) THEN v ELSE mb,
             g[Que(Main)] = IF r = Que(Main) THEN v ELSE mp,
             g[Que(Stop)] = IF r = Que(Stop) THEN v ELSE qe
      PROVE  g = [h EXCEPT ![r] = v]
  <2>1. PICK i : i = [h EXCEPT ![r] = v]
    OBVIOUS
  <2>2. i = [p \in Places |-> i[p]] /\ \A p \in Places : i[p] = IF p = r THEN v ELSE h[p]
    BY <1>2, <2>1
  <2>3. \A k \in Loops : g[Bat(k)] = i[Bat(k)] /\ g[Que(k)] = i[Que(k)]
    BY <1>2, <1>3, <1>4, <2>2, Apart
  <2>4. g[Bat(Main)] = i[Bat(Main)] /\ g[Que(Main)] = i[Que(Main)] /\ g[Que(Stop)] = i[Que(Stop)]
    BY <1>2, <1>3, <1>4, <2>2, Apart
  <2>5. g = i
    BY <1>4, <2>2, <2>3, <2>4, SameHeld
  <2>6. QED BY <2>1, <2>5 DEF With
<1>5. HeldBy(b, q, v, mp, qe) = With(h, Bat(Main), v)
  <2>1. PICK g : g = HeldBy(b, q, v, mp, qe)
    OBVIOUS
  <2>2. /\ g = [p \in Places |-> g[p]]
        /\ \A k \in Loops : g[Bat(k)] = b[k] /\ g[Que(k)] = q[k]
        /\ g[Bat(Main)] = v /\ g[Que(Main)] = mp /\ g[Que(Stop)] = qe
    BY <2>1, HeldByIs
  <2>3. \A k \in Loops : Bat(Main) # Bat(k) /\ Bat(Main) # Que(k)
    BY <1>3, Apart
  <2>4. Bat(Main) # Que(Main) /\ Bat(Main) # Que(Stop) /\ Bat(Main) \in Places
    BY <1>3, Apart
  <2>5. g = [h EXCEPT ![Bat(Main)] = v]
    BY <1>4, <2>2, <2>3, <2>4
  <2>6. QED BY <2>1, <2>5 DEF With
<1>6. HeldBy(b, q, mb, v, qe) = With(h, Que(Main), v)
  <2>1. PICK g : g = HeldBy(b, q, mb, v, qe)
    OBVIOUS
  <2>2. /\ g = [p \in Places |-> g[p]]
        /\ \A k \in Loops : g[Bat(k)] = b[k] /\ g[Que(k)] = q[k]
        /\ g[Bat(Main)] = mb /\ g[Que(Main)] = v /\ g[Que(Stop)] = qe
    BY <2>1, HeldByIs
  <2>3. \A k \in Loops : Que(Main) # Bat(k) /\ Que(Main) # Que(k)
    BY <1>3, Apart
  <2>4. Que(Main) # Bat(Main) /\ Que(Main) # Que(Stop) /\ Que(Main) \in Places
    BY <1>3, Apart
  <2>5. g = [h EXCEPT ![Que(Main)] = v]
    BY <1>4, <2>2, <2>3, <2>4
  <2>6. QED BY <2>1, <2>5 DEF With
<1>7. HeldBy(b, q, mb, mp, v) = With(h, Que(Stop), v)
  <2>1. PICK g : g = HeldBy(b, q, mb, mp, v)
    OBVIOUS
  <2>2. /\ g = [p \in Places |-> g[p]]
        /\ \A k \in Loops : g[Bat(k)] = b[k] /\ g[Que(k)] = q[k]
        /\ g[Bat(Main)] = mb /\ g[Que(Main)] = mp /\ g[Que(Stop)] = v
    BY <2>1, HeldByIs
  <2>3. \A k \in Loops : Que(Stop) # Bat(k) /\ Que(Stop) # Que(k)
    BY <1>3, Apart
  <2>4. Que(Stop) # Bat(Main) /\ Que(Main) # Que(Stop) /\ Que(Stop) \in Places
    BY <1>3, Apart
  <2>5. g = [h EXCEPT ![Que(Stop)] = v]
    BY <1>4, <2>2, <2>3, <2>4
  <2>6. QED BY <2>1, <2>5 DEF With
<1>8. QED BY <1>1, <1>5, <1>6, <1>7

LEMMA OneChanges ==
  ASSUME TypeOK, NEW v
  PROVE  /\ \A l \in Loops : /\ batch' = [batch EXCEPT ![l] = v]
                             /\ UNCHANGED <<queuePending, mainBatch, mainPending, queuedEvent>>
                             => held' = [held EXCEPT ![Bat(l)] = v]
         /\ \A l \in Loops : /\ queuePending' = [queuePending EXCEPT ![l] = v]
                             /\ UNCHANGED <<batch, mainBatch, mainPending, queuedEvent>>
                             => held' = [held EXCEPT ![Que(l)] = v]
         /\ mainBatch' = v /\ UNCHANGED <<batch, queuePending, mainPending, queuedEvent>>
            => held' = [held EXCEPT ![Bat(Main)] = v]
         /\ mainPending' = v /\ UNCHANGED <<batch, queuePending, mainBatch, queuedEvent>>
            => held' = [held EXCEPT ![Que(Main)] = v]
         /\ queuedEvent' = v /\ UNCHANGED <<batch, queuePending, mainBatch, mainPending>>
            => held' = [held EXCEPT ![Que(Stop)] = v]
<1>1. DOMAIN batch = Loops /\ DOMAIN queuePending = Loops
  BY DEF TypeOK
<1>2. ASSUME NEW l \in Loops, batch' = [batch EXCEPT ![l] = v],
             UNCHANGED <<queuePending, mainBatch, mainPending, queuedEvent>>
      PROVE  held' = [held EXCEPT ![Bat(l)] = v]
  <2>1. held' = HeldBy(batch', queuePending, mainBatch, mainPending, queuedEvent)
    BY <1>2 DEF held
  <2>2. held' = With(HeldBy(batch, queuePending, mainBatch, mainPending, queuedEvent), Bat(l), v)
    <3>1. batch' = With(batch, l, v)
      BY <1>2 DEF With
    <3>2. QED BY <1>1, <2>1, <3>1, BatchChanges
  <2>3. QED BY <2>2 DEF held, With
<1>3. ASSUME NEW l \in Loops, queuePending' = [queuePending EXCEPT ![l] = v],
             UNCHANGED <<batch, mainBatch, mainPending, queuedEvent>>
      PROVE  held' = [held EXCEPT ![Que(l)] = v]
  <2>1. held' = HeldBy(batch, queuePending', mainBatch, mainPending, queuedEvent)
    BY <1>3 DEF held
  <2>2. held' = With(HeldBy(batch, queuePending, mainBatch, mainPending, queuedEvent), Que(l), v)
    <3>1. queuePending' = With(queuePending, l, v)
      BY <1>3 DEF With
    <3>2. QED BY <1>1, <2>1, <3>1, QueueChanges
  <2>3. QED BY <2>2 DEF held, With
<1>4. ASSUME mainBatch' = v, UNCHANGED <<batch, queuePending, mainPending, queuedEvent>>
      PROVE  held' = [held EXCEPT ![Bat(Main)] = v]
  <2>1. held' = HeldBy(batch, queuePending, v, mainPending, queuedEvent)
    BY <1>4 DEF held
  <2>2. held' = With(HeldBy(batch, queuePending, mainBatch, mainPending, queuedEvent), Bat(Main), v)
    BY <2>1, MainChanges
  <2>3. QED BY <2>2 DEF held, With
<1>5. ASSUME mainPending' = v, UNCHANGED <<batch, queuePending, mainBatch, queuedEvent>>
      PROVE  held' = [held EXCEPT ![Que(Main)] = v]
  <2>1. held' = HeldBy(batch, queuePending, mainBatch, v, queuedEvent)
    BY <1>5 DEF held
  <2>2. held' = With(HeldBy(batch, queuePending, mainBatch, mainPending, queuedEvent), Que(Main), v)
    BY <2>1, MainChanges
  <2>3. QED BY <2>2 DEF held, With
<1>6. ASSUME queuedEvent' = v, UNCHANGED <<batch, queuePending, mainBatch, mainPending>>
      PROVE  held' = [held EXCEPT ![Que(Stop)] = v]
  <2>1. held' = HeldBy(batch, queuePending, mainBatch, mainPending, v)
    BY <1>6 DEF held
  <2>2. held' = With(HeldBy(batch, queuePending, mainBatch, mainPending, queuedEvent), Que(Stop), v)
    BY <2>1, MainChanges
  <2>3. QED BY <2>2 DEF held, With
<1>7. QED BY <1>2, <1>3, <1>4, <1>5, <1>6

LEMMA HeldSame ==
  ASSUME UNCHANGED <<batch, queuePending, mainBatch, mainPending, queuedEvent>>
  PROVE  held' = held
BY DEF held

\* What the calls do.
LEMMA CallsMove ==
  ASSUME TypeOK, NEW c \in Callers
  PROVE  /\ PostWrite(c) \/ NotifyLoad(c) \/ NotifyStore(c) \/ NotifyWrite(c) \/ CallStop(c) => Keeps
         /\ StopInsert(c) => call[c].loop \in Loops /\ ReceivesStop(Que(call[c].loop))
         /\ PostInsert(c) => /\ call[c].item \in Events
                             /\ Receives(Que(Stop), call[c].item,
                                         IF main \in {"release", "done"} THEN "late" ELSE "pooled")
         /\ \A e \in Events :
              /\ PostCheck(c, e) => Decides(e, IF bLoopRunning THEN "given" ELSE "cancelled")
              /\ RunHere(c, e) => Decides(e, Outcome)
              /\ QueueInMain(c, e) =>
                   Receives(Que(Main), e, IF main \in {"last", "release", "done"} THEN "late" ELSE "queued")
              /\ \A l \in Loops : QueueInLoop(c, e, l) =>
                   \/ Receives(Que(l), e, IF Closed(l) THEN "late" ELSE "queued")
                   \/ Closed(l) /\ Decides(e, "late")
<1> USE DEF mainVars, loopVars, poolVars
<1>1. PostWrite(c) \/ NotifyLoad(c) \/ NotifyStore(c) \/ NotifyWrite(c) \/ CallStop(c) => Keeps
  BY HeldSame DEF PostWrite, NotifyLoad, NotifyStore, NotifyWrite, CallStop, Keeps
<1>2. ASSUME StopInsert(c) PROVE call[c].loop \in Loops /\ ReceivesStop(Que(call[c].loop))
  <2>1. call[c].loop \in Loops
    BY <1>2, CallKinds, LoopCallTyped DEF StopInsert, TypeOK
  <2>2. PICK l \in Loops : l = call[c].loop
    BY <2>1
  <2>3. /\ queuePending' = [queuePending EXCEPT ![l] = Append(queuePending[l], Stop)]
        /\ UNCHANGED <<batch, mainBatch, mainPending, queuedEvent>> /\ fate' = fate
    BY <1>2, <2>2 DEF StopInsert
  <2>4. held' = [held EXCEPT ![Que(l)] = Append(queuePending[l], Stop)]
    BY <2>3, OneChanges
  <2>5. held' = [held EXCEPT ![Que(l)] = Append(@, Stop)]
    BY <2>4, HeldIs
  <2>6. QED BY <2>1, <2>2, <2>3, <2>5 DEF ReceivesStop
<1>3. ASSUME PostInsert(c)
      PROVE  /\ call[c].item \in Events
             /\ Receives(Que(Stop), call[c].item, IF main \in {"release", "done"} THEN "late" ELSE "pooled")
  <2>1. call[c].item \in Events
    BY <1>3, CallKinds DEF PostInsert, TypeOK
  <2>2. /\ queuedEvent' = Append(queuedEvent, call[c].item)
        /\ UNCHANGED <<batch, mainBatch, mainPending, queuePending>>
        /\ Become(call[c].item, IF main \in {"release", "done"} THEN "late" ELSE "pooled")
    BY <1>3 DEF PostInsert
  <2>3. held' = [held EXCEPT ![Que(Stop)] = Append(queuedEvent, call[c].item)]
    BY <2>2, OneChanges
  <2>4. held' = [held EXCEPT ![Que(Stop)] = Append(@, call[c].item)]
    BY <2>3, HeldIs
  <2>5. QED BY <2>1, <2>2, <2>4 DEF Receives
<1>4. ASSUME NEW e \in Events, PostCheck(c, e)
      PROVE  Decides(e, IF bLoopRunning THEN "given" ELSE "cancelled")
  BY <1>4, HeldSame DEF PostCheck, Decides
<1>5. ASSUME NEW e \in Events, RunHere(c, e) PROVE Decides(e, Outcome)
  BY <1>5, HeldSame DEF RunHere, Decides
<1>6. ASSUME NEW e \in Events, QueueInMain(c, e)
      PROVE  Receives(Que(Main), e, IF main \in {"last", "release", "done"} THEN "late" ELSE "queued")
  <2>1. /\ mainPending' = Append(mainPending, e)
        /\ UNCHANGED <<batch, mainBatch, queuedEvent, queuePending>>
        /\ Become(e, IF main \in {"last", "release", "done"} THEN "late" ELSE "queued")
    BY <1>6 DEF QueueInMain
  <2>2. held' = [held EXCEPT ![Que(Main)] = Append(mainPending, e)]
    BY <2>1, OneChanges
  <2>3. held' = [held EXCEPT ![Que(Main)] = Append(@, e)]
    BY <2>2, HeldIs
  <2>4. QED BY <2>1, <2>3 DEF Receives
<1>7. ASSUME NEW e \in Events, NEW l \in Loops, QueueInLoop(c, e, l)
      PROVE  \/ Receives(Que(l), e, IF Closed(l) THEN "late" ELSE "queued")
             \/ Closed(l) /\ Decides(e, "late")
  <2>1. /\ UNCHANGED <<batch, mainBatch, mainPending, queuedEvent>>
        /\ Become(e, IF Closed(l) THEN "late" ELSE "queued")
    BY <1>7 DEF QueueInLoop
  <2>2. CASE queuePending' = [queuePending EXCEPT ![l] = Append(@, e)]
    <3>1. held' = [held EXCEPT ![Que(l)] = Append(queuePending[l], e)]
      BY <2>1, <2>2, OneChanges
    <3>2. held' = [held EXCEPT ![Que(l)] = Append(@, e)]
      BY <3>1, HeldIs
    <3>3. QED BY <2>1, <3>2 DEF Receives
  <2>3. CASE loop[l] = "clear" /\ UNCHANGED queuePending
    BY <2>1, <2>3, HeldSame DEF Decides, Closed
  <2>4. QED BY <1>7, <2>2, <2>3 DEF QueueInLoop, Put
<1>8. QED BY <1>1, <1>2, <1>3, <1>4, <1>5, <1>6, <1>7

\* Handling an event changes its fate, and handling Stop none.
LEMMA HeadBecomes ==
  ASSUME TypeOK, NEW q \in Seq(Events \cup {Stop}), q # <<>>, NEW f,
         Become(Head(q), f) \/ (Head(q) = Stop /\ fate' = fate)
  PROVE  IF Head(q) \in Events THEN Become(Head(q), f) ELSE fate' = fate
<1>1. Head(q) \in Events \cup {Stop}
  OBVIOUS
<1>2. CASE Head(q) \in Events
  BY <1>2, StopIsNoEvent
<1>3. CASE Head(q) \notin Events
  <2>1. Become(Head(q), f) => fate' = fate
    BY <1>3 DEF Become, TypeOK
  <2>2. QED BY <1>3, <2>1
<1>4. QED BY <1>2, <1>3

\* What the loops do.
LEMMA LoopsMove ==
  ASSUME TypeOK, BatchesDone, NEW l \in Loops
  PROVE  /\ Poll(l) \/ WakeRead(l) \/ WakeStore(l) \/ PoolRead(l) \/ WorkEnds(l) \/ PollAgain(l)
            \/ Close(l) \/ LoopRelease(l) => Keeps
         /\ Take(l) => Moves(Que(l), Bat(l))
         /\ TakePool(l) => Moves(Que(Stop), Bat(l))
         /\ Run(l) => Loses(Bat(l), Outcome)
         /\ ClearCancel(l) => Loses(Que(l), "cancelled")
         /\ LoopStop(l) => Keeps \/ ReceivesStop(Que(Main))
<1> USE DEF mainVars, loopVars, poolVars
<1>1. Poll(l) \/ WakeRead(l) \/ WakeStore(l) \/ PoolRead(l) \/ WorkEnds(l) \/ PollAgain(l)
      \/ Close(l) \/ LoopRelease(l) => Keeps
  BY HeldSame DEF Poll, WakeRead, WakeStore, PoolRead, WorkEnds, PollAgain, Close, LoopRelease, Keeps
<1>2. /\ held[Bat(l)] = batch[l] /\ held[Que(l)] = queuePending[l] /\ held[Que(Stop)] = queuedEvent
      /\ DOMAIN held = Places /\ Bat(l) \in Places /\ Que(l) \in Places /\ Que(Stop) \in Places
      /\ Bat(l) # Que(l) /\ Bat(l) # Que(Stop)
  BY HeldIs, HeldTyped, PlacesApart, Apart
<1>3. /\ DOMAIN batch = Loops /\ DOMAIN queuePending = Loops
      /\ batch[l] \in Seq(Events \cup {Stop}) /\ queuePending[l] \in Seq(Events \cup {Stop})
  BY DEF TypeOK
<1>4. ASSUME Take(l) PROVE Moves(Que(l), Bat(l))
  <2>1. batch[l] = <<>>
    BY <1>4 DEF Take, BatchesDone
  <2>2. /\ batch' = [batch EXCEPT ![l] = queuePending[l]] /\ queuePending' = [queuePending EXCEPT ![l] = <<>>]
        /\ UNCHANGED <<mainBatch, mainPending, queuedEvent, fate>>
    BY <1>4 DEF Take
  <2>3. HeldBy(batch', queuePending, mainBatch, mainPending, queuedEvent) = With(held, Bat(l), queuePending[l])
    <3>1. batch' = With(batch, l, queuePending[l])
      BY <2>2 DEF With
    <3>2. QED BY <1>3, <3>1, BatchChanges DEF held
  <2>4. held' = With(HeldBy(batch', queuePending, mainBatch, mainPending, queuedEvent), Que(l), <<>>)
    <3>1. held' = HeldBy(batch', queuePending', mainBatch, mainPending, queuedEvent)
      BY <2>2 DEF held
    <3>2. queuePending' = With(queuePending, l, <<>>)
      BY <2>2 DEF With
    <3>3. QED BY <1>3, <3>1, <3>2, QueueChanges
  <2>5. held' = [held EXCEPT ![Bat(l)] = held[Que(l)], ![Que(l)] = <<>>]
    BY <1>2, <2>3, <2>4 DEF With
  <2>6. QED BY <1>2, <2>1, <2>2, <2>5 DEF Moves
<1>5. ASSUME TakePool(l) PROVE Moves(Que(Stop), Bat(l))
  <2>1. batch[l] = <<>>
    BY <1>5 DEF TakePool, BatchesDone
  <2>2. /\ batch' = [batch EXCEPT ![l] = queuedEvent] /\ queuedEvent' = <<>>
        /\ UNCHANGED <<mainBatch, mainPending, queuePending, fate>>
    BY <1>5 DEF TakePool
  <2>3. HeldBy(batch', queuePending, mainBatch, mainPending, queuedEvent) = With(held, Bat(l), queuedEvent)
    <3>1. batch' = With(batch, l, queuedEvent)
      BY <2>2 DEF With
    <3>2. QED BY <1>3, <3>1, BatchChanges DEF held
  <2>4. held' = With(HeldBy(batch', queuePending, mainBatch, mainPending, queuedEvent), Que(Stop), <<>>)
    <3>1. held' = HeldBy(batch', queuePending, mainBatch, mainPending, <<>>)
      BY <2>2 DEF held
    <3>2. QED BY <3>1, MainChanges
  <2>5. held' = [held EXCEPT ![Bat(l)] = held[Que(Stop)], ![Que(Stop)] = <<>>]
    BY <1>2, <2>3, <2>4 DEF With
  <2>6. QED BY <1>2, <2>1, <2>2, <2>5 DEF Moves
<1>6. ASSUME Run(l) PROVE Loses(Bat(l), Outcome)
  <2>1. /\ batch[l] # <<>> /\ batch' = [batch EXCEPT ![l] = Tail(batch[l])]
        /\ UNCHANGED <<queuePending, mainBatch, mainPending, queuedEvent>>
        /\ Become(Head(batch[l]), Outcome) \/ (Head(batch[l]) = Stop /\ fate' = fate)
    BY <1>6 DEF Run
  <2>2. held' = [held EXCEPT ![Bat(l)] = Tail(batch[l])]
    BY <2>1, OneChanges
  <2>3. held' = [held EXCEPT ![Bat(l)] = Tail(@)]
    BY <1>2, <2>2
  <2>4. IF Head(batch[l]) \in Events THEN Become(Head(batch[l]), Outcome) ELSE fate' = fate
    BY <1>3, <2>1, HeadBecomes
  <2>5. QED BY <1>2, <2>1, <2>3, <2>4 DEF Loses
<1>7. ASSUME ClearCancel(l) PROVE Loses(Que(l), "cancelled")
  <2>1. /\ queuePending[l] # <<>> /\ queuePending' = [queuePending EXCEPT ![l] = Tail(queuePending[l])]
        /\ UNCHANGED <<batch, mainBatch, mainPending, queuedEvent>>
        /\ Become(Head(queuePending[l]), "cancelled")
    BY <1>7 DEF ClearCancel
  <2>2. held' = [held EXCEPT ![Que(l)] = Tail(queuePending[l])]
    BY <2>1, OneChanges
  <2>3. held' = [held EXCEPT ![Que(l)] = Tail(@)]
    BY <1>2, <2>2
  <2>4. IF Head(queuePending[l]) \in Events THEN Become(Head(queuePending[l]), "cancelled") ELSE fate' = fate
    BY <1>3, <2>1, HeadBecomes
  <2>5. QED BY <1>2, <2>1, <2>3, <2>4 DEF Loses
<1>8. ASSUME LoopStop(l) PROVE Keeps \/ ReceivesStop(Que(Main))
  <2>1. UNCHANGED <<batch, queuePending, mainBatch, queuedEvent, fate>>
    BY <1>8 DEF LoopStop
  <2>2. CASE mainPending' = Append(mainPending, Stop)
    <3>1. held' = [held EXCEPT ![Que(Main)] = Append(mainPending, Stop)]
      BY <2>1, <2>2, OneChanges
    <3>2. held' = [held EXCEPT ![Que(Main)] = Append(@, Stop)]
      BY <3>1, HeldIs
    <3>3. QED BY <2>1, <3>2 DEF ReceivesStop
  <2>3. CASE UNCHANGED mainPending
    BY <2>1, <2>3, HeldSame DEF Keeps
  <2>4. QED BY <1>8, <2>2, <2>3 DEF LoopStop
<1>9. QED BY <1>1, <1>4, <1>5, <1>6, <1>7, <1>8

\* What the dispatching thread does.
LEMMA MainMoves ==
  ASSUME TypeOK, BatchesDone
  PROVE  /\ StartEnds \/ Dispatch \/ MainWorkEnds \/ LoopReturns \/ DispatchReturns \/ OwnerReleases
            \/ (\E l \in Loops : StartLoop(l)) => Keeps
         /\ MainTake => Moves(Que(Main), Bat(Main))
         /\ MainRun => Loses(Bat(Main), Outcome)
         /\ MainDrain => Empties(Que(Main))
         /\ PoolDrain => Empties(Que(Stop))
<1> USE DEF mainVars, loopVars, poolVars
<1>1. StartEnds \/ Dispatch \/ MainWorkEnds \/ LoopReturns \/ DispatchReturns \/ OwnerReleases
      \/ (\E l \in Loops : StartLoop(l)) => Keeps
  BY HeldSame DEF StartEnds, Dispatch, MainWorkEnds, LoopReturns, DispatchReturns, OwnerReleases,
                  StartLoop, Keeps
<1>2. /\ held[Bat(Main)] = mainBatch /\ held[Que(Main)] = mainPending /\ held[Que(Stop)] = queuedEvent
      /\ DOMAIN held = Places /\ Bat(Main) \in Places /\ Que(Main) \in Places
      /\ Bat(Main) # Que(Main)
  BY HeldIs, HeldTyped, PlacesApart, Apart
<1>3. ASSUME MainTake PROVE Moves(Que(Main), Bat(Main))
  <2>1. /\ mainBatch = <<>> /\ mainBatch' = mainPending /\ mainPending' = <<>>
        /\ UNCHANGED <<batch, queuePending, queuedEvent, fate>>
    BY <1>3 DEF MainTake
  <2>2. HeldBy(batch, queuePending, mainPending, mainPending, queuedEvent) = With(held, Bat(Main), mainPending)
    BY MainChanges DEF held
  <2>3. held' = With(HeldBy(batch, queuePending, mainPending, mainPending, queuedEvent), Que(Main), <<>>)
    <3>1. held' = HeldBy(batch, queuePending, mainPending, <<>>, queuedEvent)
      BY <2>1 DEF held
    <3>2. QED BY <3>1, MainChanges
  <2>4. held' = [held EXCEPT ![Bat(Main)] = held[Que(Main)], ![Que(Main)] = <<>>]
    BY <1>2, <2>2, <2>3 DEF With
  <2>5. QED BY <1>2, <2>1, <2>4 DEF Moves
<1>4. ASSUME MainRun PROVE Loses(Bat(Main), Outcome)
  <2>1. /\ mainBatch # <<>> /\ mainBatch' = Tail(mainBatch)
        /\ UNCHANGED <<batch, queuePending, mainPending, queuedEvent>>
        /\ Become(Head(mainBatch), Outcome) \/ (Head(mainBatch) = Stop /\ fate' = fate)
    BY <1>4 DEF MainRun
  <2>2. held' = [held EXCEPT ![Bat(Main)] = Tail(mainBatch)]
    BY <2>1, OneChanges
  <2>3. held' = [held EXCEPT ![Bat(Main)] = Tail(@)]
    BY <1>2, <2>2
  <2>4. mainBatch \in Seq(Events \cup {Stop})
    BY DEF TypeOK
  <2>5. IF Head(mainBatch) \in Events THEN Become(Head(mainBatch), Outcome) ELSE fate' = fate
    BY <2>1, <2>4, HeadBecomes
  <2>6. QED BY <1>2, <2>1, <2>3, <2>5 DEF Loses
<1>5. \A q : {e \in Events : \E i \in 1..Len(q) : q[i] = e} = EventsIn(q)
  BY DEF EventsIn, Elements
<1>6. ASSUME NEW q, CancelAll(q)
      PROVE  fate' = [e \in Events |-> IF e \in EventsIn(q) THEN "cancelled" ELSE fate[e]]
  <2>1. \A e \in Events : (\E i \in 1..Len(q) : q[i] = e) <=> e \in EventsIn(q)
    BY <1>5
  <2>2. fate' = [e \in Events |-> IF \E i \in 1..Len(q) : q[i] = e THEN "cancelled" ELSE fate[e]]
    BY <1>6 DEF CancelAll
  <2>3. \A e \in Events : (IF \E i \in 1..Len(q) : q[i] = e THEN "cancelled" ELSE fate[e])
                          = (IF e \in EventsIn(q) THEN "cancelled" ELSE fate[e])
    BY <2>1
  <2>4. QED BY <2>2, <2>3
<1>7. ASSUME MainDrain PROVE Empties(Que(Main))
  <2>1. /\ CancelAll(mainPending) /\ mainPending' = <<>>
        /\ UNCHANGED <<batch, queuePending, mainBatch, queuedEvent>>
    BY <1>7 DEF MainDrain
  <2>2. held' = [held EXCEPT ![Que(Main)] = <<>>]
    BY <2>1, OneChanges
  <2>3. QED BY <1>2, <1>6, <2>1, <2>2 DEF Empties
<1>8. ASSUME PoolDrain PROVE Empties(Que(Stop))
  <2>1. /\ CancelAll(queuedEvent) /\ queuedEvent' = <<>>
        /\ UNCHANGED <<batch, queuePending, mainBatch, mainPending>>
    BY <1>8 DEF PoolDrain
  <2>2. held' = [held EXCEPT ![Que(Stop)] = <<>>]
    BY <2>1, OneChanges
  <2>3. QED BY <1>2, <1>6, <2>1, <2>2 DEF Empties
<1>9. QED BY <1>1, <1>3, <1>4, <1>7, <1>8

-----------------------------------------------------------------------------
(* The inductive invariant of the promise: an event is in one place at      *)
(* most, and where it is tells what has become of it.                       *)

\* No event is in two places, or twice in one.
Sole(h) ==
  /\ \A p \in Places : Once(h[p])
  /\ \A p, r \in Places : p # r => EventsIn(h[p]) \cap EventsIn(h[r]) = {}

\* What is given to t comes too late.
ClosedTo(t) == IF t = Main THEN main \in Left ELSE Closed(t)

\* What may have become of an event that is in p.
MayBe(p) ==
  IF p[2] = "batch" THEN IF p[1] = Main THEN {"queued"} ELSE {"queued", "pooled"}
  ELSE IF p[1] = Stop THEN IF main \in Left \ {"last"} THEN {"late"} ELSE {"pooled"}
  ELSE IF ClosedTo(p[1]) THEN {"queued", "late"} ELSE {"queued"}

\* Where an event is tells what has become of it.
FatesKnown == \A p \in Places : \A e \in EventsIn(held[p]) : fate[e] \in MayBe(p)

\* A posted event is in the shared queue or in the batch of the loop that took it.
PooledAt(e) == e \in EventsIn(held[Que(Stop)]) \/ \E l \in Loops : e \in EventsIn(held[Bat(l)])

PoolKnown == \A e \in Events : fate[e] = "pooled" => PooledAt(e)

PlacesInv == Sole(held) /\ FatesKnown /\ PoolKnown

\* What may be in the places of P before a step may be there after it.
Grows(P) == \A p \in P : MayBe(p) \subseteq MayBe(p)'

LEMMA MayBeIs ==
  /\ MayBe(Bat(Main)) = {"queued"} /\ \A l \in Loops : MayBe(Bat(l)) = {"queued", "pooled"}
  /\ MayBe(Que(Stop)) = IF main \in Left \ {"last"} THEN {"late"} ELSE {"pooled"}
  /\ MayBe(Que(Main)) = IF main \in Left THEN {"queued", "late"} ELSE {"queued"}
  /\ \A l \in Loops : MayBe(Que(l)) = IF Closed(l) THEN {"queued", "late"} ELSE {"queued"}
  /\ \A p \in Places : MayBe(p) \subseteq {"queued", "pooled", "late"}
<1>1. \A t : Bat(t)[1] = t /\ Bat(t)[2] = "batch" /\ Que(t)[1] = t /\ Que(t)[2] = "queue"
  BY DEF Bat, Que
<1>2. \A l \in Loops : l # Main /\ l # Stop
  BY Apart
<1>3. Main # Stop
  BY Apart
<1>4. \A p : MayBe(p) \subseteq {"queued", "pooled", "late"}
  BY DEF MayBe
<1>5. \A l \in Loops : MayBe(Bat(l)) = {"queued", "pooled"}
  BY <1>1, <1>2 DEF MayBe
<1>6. \A l \in Loops : MayBe(Que(l)) = IF Closed(l) THEN {"queued", "late"} ELSE {"queued"}
  <2>1. ASSUME NEW l \in Loops
        PROVE  MayBe(Que(l)) = IF Closed(l) THEN {"queued", "late"} ELSE {"queued"}
    <3>1. ClosedTo(l) = Closed(l)
      BY <1>2 DEF ClosedTo
    <3>2. Que(l)[1] = l /\ Que(l)[2] = "queue" /\ l # Stop
      BY <1>1, <1>2
    <3>3. QED BY <3>1, <3>2 DEF MayBe
  <2>2. QED BY <2>1
<1>7. MayBe(Que(Main)) = IF main \in Left THEN {"queued", "late"} ELSE {"queued"}
  BY <1>1, <1>3 DEF MayBe, ClosedTo
<1>8. MayBe(Bat(Main)) = {"queued"}
  BY <1>1 DEF MayBe
<1>9. MayBe(Que(Stop)) = IF main \in Left \ {"last"} THEN {"late"} ELSE {"pooled"}
  BY <1>1 DEF MayBe
<1>10. QED BY <1>4, <1>5, <1>6, <1>7, <1>8, <1>9

\* A fresh event is nowhere.
LEMMA FreshIsNowhere ==
  ASSUME FatesKnown, NEW e \in Events, fate[e] \in {"new", "given"}
  PROVE  \A p \in Places : e \notin EventsIn(held[p])
BY MayBeIs DEF FatesKnown

LEMMA SoleKept ==
  ASSUME NEW h, NEW g, Sole(h),
         \A p \in Places : Once(g[p]) /\ EventsIn(g[p]) \subseteq EventsIn(h[p])
  PROVE  Sole(g)
BY DEF Sole

LEMMA KeepsOrder ==
  ASSUME PlacesInv, Keeps, Grows(Places)
  PROVE  PlacesInv'
<1>1. \A p \in Places : held'[p] = held[p]
  BY DEF Keeps
<1>2. fate' = fate
  BY DEF Keeps
<1>3. Sole(held)'
  BY DEF PlacesInv, Keeps, Sole
<1>4. FatesKnown'
  BY <1>1, <1>2 DEF PlacesInv, FatesKnown, Grows
<1>5. PoolKnown'
  BY DEF PlacesInv, PoolKnown, PooledAt, Keeps
<1>6. QED BY <1>3, <1>4, <1>5 DEF PlacesInv

LEMMA DecidesOrder ==
  ASSUME TypeOK, PlacesInv, NEW e \in Events, NEW f, fate[e] \in {"new", "given"}, f # "pooled",
         Decides(e, f), Grows(Places)
  PROVE  PlacesInv'
<1>1. held' = held /\ \A d \in Events : fate'[d] = IF d = e THEN f ELSE fate[d]
  BY DEF Decides, Become, TypeOK
<1>2. \A p \in Places : e \notin EventsIn(held[p])
  BY FreshIsNowhere DEF PlacesInv
<1>3. Sole(held)'
  BY <1>1 DEF PlacesInv, Sole
<1>4. FatesKnown'
  <2>1. ASSUME NEW p \in Places, NEW d \in EventsIn(held'[p]) PROVE fate'[d] \in MayBe(p)'
    <3>1. d \in EventsIn(held[p]) /\ d # e /\ d \in Events
      BY <1>1, <1>2, <2>1 DEF EventsIn
    <3>2. QED BY <1>1, <3>1 DEF PlacesInv, FatesKnown, Grows
  <2>2. QED BY <2>1 DEF FatesKnown
<1>5. PoolKnown'
  BY <1>1 DEF PlacesInv, PoolKnown, PooledAt
<1>6. QED BY <1>3, <1>4, <1>5 DEF PlacesInv

\* An event, or Stop, is put into a queue.
LEMMA MoreIn ==
  ASSUME TypeOK, Sole(held), NEW p \in Places, NEW x \in Events \cup {Stop},
         \A r \in Places : x \notin EventsIn(held[r]),
         \A r \in Places : held'[r] = IF r = p THEN Append(held[p], x) ELSE held[r]
  PROVE  /\ Sole(held)'
         /\ \A r \in Places : r # p => EventsIn(held'[r]) = EventsIn(held[r])
         /\ EventsIn(held'[p]) = {d \in Events : d = x \/ d \in EventsIn(held[p])}
<1>1. held[p] \in Seq(Events \cup {Stop})
  BY HeldTyped
<1>2. /\ Elements(Append(held[p], x)) = Elements(held[p]) \cup {x}
      /\ Once(Append(held[p], x)) <=> Once(held[p]) /\ x \notin EventsIn(held[p])
  BY <1>1, LastOf
<1>3. \A r \in Places : Once(held'[r])
  BY <1>2 DEF Sole
<1>4. EventsIn(held'[p]) = {d \in Events : d = x \/ d \in EventsIn(held[p])}
  BY <1>2 DEF EventsIn
<1>5. \A r \in Places : r # p => EventsIn(held'[r]) = EventsIn(held[r])
  OBVIOUS
<1>6. ASSUME NEW r \in Places, NEW s \in Places, r # s, NEW d \in EventsIn(held'[r]), d \in EventsIn(held'[s])
      PROVE  FALSE
  <2>1. EventsIn(held[r]) \cap EventsIn(held[s]) = {}
    BY <1>6 DEF Sole
  <2>2. CASE r = p
    BY <1>4, <1>5, <1>6, <2>1, <2>2
  <2>3. CASE s = p
    BY <1>4, <1>5, <1>6, <2>1, <2>3
  <2>4. CASE r # p /\ s # p
    BY <1>5, <1>6, <2>1, <2>4
  <2>5. QED BY <2>2, <2>3, <2>4
<1>7. \A r, s \in Places : r # s => EventsIn(held'[r]) \cap EventsIn(held'[s]) = {}
  BY <1>6
<1>8. QED BY <1>3, <1>4, <1>5, <1>7 DEF Sole

LEMMA ReceivesOrder ==
  ASSUME TypeOK, PlacesInv, NEW p \in Places, NEW e \in Events, NEW f, fate[e] \in {"new", "given"},
         Receives(p, e, f), f \in MayBe(p)', f = "pooled" => p = Que(Stop), Grows(Places)
  PROVE  PlacesInv'
<1>1. \A d \in Events : fate'[d] = IF d = e THEN f ELSE fate[d]
  BY DEF Receives, Become, TypeOK
<1>2. \A r \in Places : e \notin EventsIn(held[r])
  BY FreshIsNowhere DEF PlacesInv
<1>3. /\ Sole(held)'
      /\ \A r \in Places : EventsIn(held'[r]) = IF r = p THEN EventsIn(held[r]) \cup {e} ELSE EventsIn(held[r])
  <2>1. Sole(held) /\ e \in Events \cup {Stop}
    BY DEF PlacesInv
  <2>2. \A r \in Places : held'[r] = IF r = p THEN Append(held[p], e) ELSE held[r]
    BY HeldTyped DEF Receives
  <2>3. /\ Sole(held)'
        /\ \A r \in Places : r # p => EventsIn(held'[r]) = EventsIn(held[r])
        /\ EventsIn(held'[p]) = {d \in Events : d = e \/ d \in EventsIn(held[p])}
    BY <1>2, <2>1, <2>2, MoreIn
  <2>4. EventsIn(held'[p]) = EventsIn(held[p]) \cup {e}
    BY <2>3 DEF EventsIn
  <2>5. QED BY <2>3, <2>4
<1>4. FatesKnown'
  <2>1. ASSUME NEW r \in Places, NEW d \in EventsIn(held'[r]) PROVE fate'[d] \in MayBe(r)'
    <3>1. CASE d \in EventsIn(held[r])
      <4>1. d # e /\ d \in Events
        BY <1>2, <3>1 DEF EventsIn
      <4>2. QED BY <1>1, <3>1, <4>1 DEF PlacesInv, FatesKnown, Grows
    <3>2. CASE d = e /\ r = p
      BY <1>1, <3>2
    <3>3. QED BY <1>3, <2>1, <3>1, <3>2
  <2>2. QED BY <2>1 DEF FatesKnown
<1>5. PoolKnown'
  <2>1. ASSUME NEW d \in Events, fate'[d] = "pooled" PROVE PooledAt(d)'
    <3>1. Que(Stop) \in Places /\ \A l \in Loops : Bat(l) \in Places
      BY PlacesApart, Apart
    <3>2. \A r \in Places : EventsIn(held[r]) \subseteq EventsIn(held'[r])
      BY <1>3
    <3>3. CASE d = e
      <4>1. p = Que(Stop)
        BY <1>1, <2>1, <3>3
      <4>2. QED BY <1>3, <3>3, <4>1 DEF PooledAt
    <3>4. CASE d # e
      <4>1. PooledAt(d)
        BY <1>1, <2>1, <3>4 DEF PlacesInv, PoolKnown
      <4>2. QED BY <3>1, <3>2, <4>1 DEF PooledAt
    <3>5. QED BY <3>3, <3>4
  <2>2. QED BY <2>1 DEF PoolKnown
<1>6. QED BY <1>3, <1>4, <1>5 DEF PlacesInv

LEMMA ReceivesStopOrder ==
  ASSUME TypeOK, PlacesInv, NEW p \in Places, ReceivesStop(p), Grows(Places)
  PROVE  PlacesInv'
<1>1. fate' = fate
  BY DEF ReceivesStop
<1>2. \A r \in Places : Stop \notin EventsIn(held[r])
  BY StopIsNoEvent DEF EventsIn
<1>3. Sole(held)' /\ \A r \in Places : EventsIn(held'[r]) = EventsIn(held[r])
  <2>1. Sole(held) /\ Stop \in Events \cup {Stop}
    BY DEF PlacesInv
  <2>2. \A r \in Places : held'[r] = IF r = p THEN Append(held[p], Stop) ELSE held[r]
    BY HeldTyped DEF ReceivesStop
  <2>3. /\ Sole(held)'
        /\ \A r \in Places : r # p => EventsIn(held'[r]) = EventsIn(held[r])
        /\ EventsIn(held'[p]) = {d \in Events : d = Stop \/ d \in EventsIn(held[p])}
    BY <1>2, <2>1, <2>2, MoreIn
  <2>4. EventsIn(held'[p]) = EventsIn(held[p])
    BY <2>3, StopIsNoEvent DEF EventsIn
  <2>5. QED BY <2>3, <2>4
<1>4. FatesKnown'
  BY <1>1, <1>3 DEF PlacesInv, FatesKnown, Grows
<1>5. PoolKnown'
  <2>1. Que(Stop) \in Places /\ \A l \in Loops : Bat(l) \in Places
    BY PlacesApart, Apart
  <2>2. QED BY <1>1, <1>3, <2>1 DEF PlacesInv, PoolKnown, PooledAt
<1>6. QED BY <1>3, <1>4, <1>5 DEF PlacesInv

LEMMA MovesOrder ==
  ASSUME TypeOK, PlacesInv, NEW p \in Places, NEW r \in Places, p # r, Moves(p, r),
         MayBe(p) \subseteq MayBe(r)', Grows(Places), p = Que(Stop) => \E l \in Loops : r = Bat(l),
         \A l \in Loops : p # Bat(l)
  PROVE  PlacesInv'
<1>1. held \in [Places -> Seq(Events \cup {Stop})]
  BY HeldTyped
<1>2. fate' = fate /\ \A q \in Places : held'[q] = IF q = r THEN held[p] ELSE IF q = p THEN <<>> ELSE held[q]
  BY <1>1 DEF Moves
<1>3. EventsIn(<<>>) = {} /\ Once(<<>>)
  BY NothingIn
<1>4. \A q \in Places : EventsIn(held'[q]) = IF q = r THEN EventsIn(held[p]) ELSE IF q = p THEN {} ELSE EventsIn(held[q])
  BY <1>2, <1>3
<1>5. Sole(held)'
  <2>1. \A q \in Places : Once(held'[q])
    BY <1>2, <1>3 DEF PlacesInv, Sole
  <2>2. ASSUME NEW q \in Places, NEW s \in Places, q # s
        PROVE  EventsIn(held'[q]) \cap EventsIn(held'[s]) = {}
    <3>1. \A i, j \in Places : i # j => EventsIn(held[i]) \cap EventsIn(held[j]) = {}
      BY DEF PlacesInv, Sole
    <3>2. QED BY <1>4, <2>2, <3>1
  <2>3. QED BY <2>1, <2>2 DEF Sole
<1>6. FatesKnown'
  <2>1. ASSUME NEW q \in Places, NEW d \in EventsIn(held'[q]) PROVE fate'[d] \in MayBe(q)'
    <3>1. CASE q = r
      BY <1>2, <1>4, <2>1, <3>1 DEF PlacesInv, FatesKnown
    <3>2. CASE q # r
      BY <1>2, <1>4, <2>1, <3>2 DEF PlacesInv, FatesKnown, Grows
    <3>3. QED BY <3>1, <3>2
  <2>2. QED BY <2>1 DEF FatesKnown
<1>7. PoolKnown'
  <2>1. ASSUME NEW d \in Events, fate'[d] = "pooled" PROVE PooledAt(d)'
    <3>1. Que(Stop) \in Places /\ \A l \in Loops : Bat(l) \in Places
      BY PlacesApart, Apart
    <3>2. PooledAt(d)
      BY <1>2, <2>1 DEF PlacesInv, PoolKnown
    <3>3. EventsIn(held[r]) = {}
      BY <1>3 DEF Moves
    <3>4. CASE d \in EventsIn(held[Que(Stop)])
      <4>1. CASE p = Que(Stop)
        BY <1>4, <3>4, <4>1 DEF PooledAt
      <4>2. CASE p # Que(Stop)
        BY <1>4, <3>1, <3>3, <3>4, <4>2 DEF PooledAt
      <4>3. QED BY <4>1, <4>2
    <3>5. ASSUME NEW l \in Loops, d \in EventsIn(held[Bat(l)]) PROVE PooledAt(d)'
      BY <1>4, <3>1, <3>3, <3>5 DEF PooledAt
    <3>6. QED BY <3>2, <3>4, <3>5 DEF PooledAt
  <2>2. QED BY <2>1 DEF PoolKnown
<1>8. QED BY <1>5, <1>6, <1>7 DEF PlacesInv

\* The first of a queue is taken out.
LEMMA LosesIs ==
  ASSUME TypeOK, Sole(held), NEW p \in Places, NEW f, Loses(p, f)
  PROVE  /\ Sole(held)'
         /\ Head(held[p]) \in Events \cup {Stop}
         /\ \A q \in Places : EventsIn(held'[q]) = EventsIn(held[q]) \ {Head(held[p])}
         /\ \A d \in Events : fate'[d] = IF d = Head(held[p]) THEN f ELSE fate[d]
<1>1. held \in [Places -> Seq(Events \cup {Stop})]
  BY HeldTyped
<1>2. \A q \in Places : held'[q] = IF q = p THEN Tail(held[p]) ELSE held[q]
  BY <1>1 DEF Loses
<1>3. held[p] \in Seq(Events \cup {Stop}) /\ held[p] # <<>>
  BY <1>1 DEF Loses
<1>4. /\ Head(held[p]) \in Events \cup {Stop}
      /\ Elements(held[p]) = {Head(held[p])} \cup Elements(Tail(held[p]))
      /\ Once(held[p]) => Once(Tail(held[p])) /\ Head(held[p]) \notin EventsIn(Tail(held[p]))
  BY <1>3, FirstOf
<1>5. Once(held[p])
  BY DEF Sole
<1>6. EventsIn(Tail(held[p])) = EventsIn(held[p]) \ {Head(held[p])}
  BY <1>4, <1>5 DEF EventsIn
<1>7. ASSUME NEW q \in Places PROVE EventsIn(held'[q]) = EventsIn(held[q]) \ {Head(held[p])}
  <2>1. CASE q = p
    BY <1>2, <1>6, <2>1
  <2>2. CASE q # p
    <3>1. EventsIn(held[p]) \cap EventsIn(held[q]) = {}
      BY <2>2 DEF Sole
    <3>2. Head(held[p]) \notin EventsIn(held[q])
      BY <1>4, <3>1 DEF EventsIn
    <3>3. QED BY <1>2, <2>2, <3>2
  <2>3. QED BY <2>1, <2>2
<1>8. Sole(held)'
  <2>1. \A q \in Places : Once(held'[q])
    BY <1>2, <1>4 DEF Sole
  <2>2. \A q, s \in Places : q # s => EventsIn(held'[q]) \cap EventsIn(held'[s]) = {}
    BY <1>7 DEF Sole
  <2>3. QED BY <2>1, <2>2 DEF Sole
<1>9. \A d \in Events : fate'[d] = IF d = Head(held[p]) THEN f ELSE fate[d]
  BY DEF Loses, Become, TypeOK
<1>10. QED BY <1>4, <1>7, <1>8, <1>9

LEMMA LosesOrder ==
  ASSUME TypeOK, PlacesInv, NEW p \in Places, NEW f, f # "pooled", Loses(p, f), Grows(Places)
  PROVE  PlacesInv'
<1>1. /\ Sole(held)'
      /\ \A q \in Places : EventsIn(held'[q]) = EventsIn(held[q]) \ {Head(held[p])}
      /\ \A d \in Events : fate'[d] = IF d = Head(held[p]) THEN f ELSE fate[d]
  BY LosesIs DEF PlacesInv
<1>2. FatesKnown'
  <2>1. ASSUME NEW q \in Places, NEW d \in EventsIn(held'[q]) PROVE fate'[d] \in MayBe(q)'
    <3>1. d \in EventsIn(held[q]) /\ d # Head(held[p]) /\ d \in Events
      BY <1>1, <2>1 DEF EventsIn
    <3>2. QED BY <1>1, <3>1 DEF PlacesInv, FatesKnown, Grows
  <2>2. QED BY <2>1 DEF FatesKnown
<1>3. PoolKnown'
  <2>1. ASSUME NEW d \in Events, fate'[d] = "pooled" PROVE PooledAt(d)'
    <3>1. Que(Stop) \in Places /\ \A l \in Loops : Bat(l) \in Places
      BY PlacesApart, Apart
    <3>2. d # Head(held[p]) /\ PooledAt(d)
      BY <1>1, <2>1 DEF PlacesInv, PoolKnown
    <3>3. QED BY <1>1, <3>1, <3>2 DEF PooledAt
  <2>2. QED BY <2>1 DEF PoolKnown
<1>4. QED BY <1>1, <1>2, <1>3 DEF PlacesInv

LEMMA EmptiesOrder ==
  ASSUME TypeOK, PlacesInv, NEW p \in Places, Empties(p), Grows(Places \ {p})
  PROVE  PlacesInv'
<1>1. held \in [Places -> Seq(Events \cup {Stop})]
  BY HeldTyped
<1>2. /\ \A q \in Places : held'[q] = IF q = p THEN <<>> ELSE held[q]
      /\ \A d \in Events : fate'[d] = IF d \in EventsIn(held[p]) THEN "cancelled" ELSE fate[d]
  BY <1>1 DEF Empties
<1>3. EventsIn(<<>>) = {} /\ Once(<<>>)
  BY NothingIn
<1>4. \A q \in Places : EventsIn(held'[q]) = IF q = p THEN {} ELSE EventsIn(held[q])
  BY <1>2, <1>3
<1>5. Sole(held)'
  <2>1. \A q \in Places : Once(held'[q]) /\ EventsIn(held'[q]) \subseteq EventsIn(held[q])
    BY <1>2, <1>3, <1>4 DEF PlacesInv, Sole
  <2>2. Sole(held)
    BY DEF PlacesInv
  <2>3. QED BY <2>1, <2>2, SoleKept
<1>6. FatesKnown'
  <2>1. ASSUME NEW q \in Places, NEW d \in EventsIn(held'[q]) PROVE fate'[d] \in MayBe(q)'
    <3>1. q # p /\ d \in EventsIn(held[q]) /\ d \in Events
      BY <1>4, <2>1 DEF EventsIn
    <3>2. d \notin EventsIn(held[p])
      BY <3>1 DEF PlacesInv, Sole
    <3>3. QED BY <1>2, <3>1, <3>2 DEF PlacesInv, FatesKnown, Grows
  <2>2. QED BY <2>1 DEF FatesKnown
<1>7. PoolKnown'
  <2>1. ASSUME NEW d \in Events, fate'[d] = "pooled" PROVE PooledAt(d)'
    <3>1. Que(Stop) \in Places /\ \A l \in Loops : Bat(l) \in Places
      BY PlacesApart, Apart
    <3>2. d \notin EventsIn(held[p]) /\ PooledAt(d)
      BY <1>2, <2>1 DEF PlacesInv, PoolKnown
    <3>3. QED BY <1>4, <3>1, <3>2 DEF PooledAt
  <2>2. QED BY <2>1 DEF PoolKnown
<1>8. QED BY <1>5, <1>6, <1>7 DEF PlacesInv

\* Who may be in a call.
CallingInv ==
  \A c \in Callers : call[c] # NoCall =>
    /\ c \in Threads => main \notin {"start", "gone"}
    /\ c \in Loops => loop[c] = "work"
    /\ c = Main => main \in {"idle", "work"}

\* An event that is being posted is in nobody else's hands.
PostInv ==
  /\ \A c \in Callers : call[c].at = "post" => fate[call[c].item] = "given"
  /\ \A c, d \in Callers : call[c].at = "post" /\ call[d].at = "post" /\ call[c].item = call[d].item => c = d

OrderInv == PlacesInv /\ CallingInv /\ PostInv

LEMMA InitOrder == Init => OrderInv
<1> SUFFICES ASSUME Init PROVE OrderInv
  OBVIOUS
<1>1. /\ mainBatch = <<>> /\ mainPending = <<>> /\ queuedEvent = <<>>
      /\ \A l \in Loops : batch[l] = <<>> /\ queuePending[l] = <<>>
      /\ \A e \in Events : fate[e] = "new"
      /\ \A c \in Callers : call[c] = NoCall
  BY DEF Init
<1>2. \A p \in Places : held[p] = <<>>
  BY <1>1, HeldIs, PlacesApart
<1>3. \A p \in Places : EventsIn(held[p]) = {} /\ Once(held[p])
  BY <1>2, NothingIn
<1>4. PlacesInv
  BY <1>1, <1>3 DEF PlacesInv, Sole, FatesKnown, PoolKnown
<1>5. CallingInv
  BY <1>1 DEF CallingInv
<1>6. PostInv
  BY <1>1 DEF PostInv, NoCall
<1>7. QED BY <1>4, <1>5, <1>6 DEF OrderInv

LEMMA NotGone ==
  ASSUME TypeOK, RefInv, EndInv, CallingInv, NEW c \in Callers, call[c] # NoCall \/ MayCall(c)
  PROVE  main # "gone"
<1>1. CASE c \in Threads \/ c = Main
  BY <1>1 DEF CallingInv, MayCall
<1>2. ASSUME c \in Loops, main = "gone" PROVE FALSE
  <2>1. loop[c] = "work"
    BY <1>2 DEF CallingInv, MayCall
  <2>2. c \in Running
    BY <1>2, <2>1 DEF RefInv, StartInv
  <2>3. Closed(c)
    BY <1>2, <2>2 DEF EndInv, Left
  <2>4. QED BY <2>1, <2>3 DEF Closed
<1>3. QED BY <1>1, <1>2 DEF Callers

\* A call changes neither the loops nor the dispatching thread.
LEMMA CallLeaves ==
  ASSUME NEW c \in Callers, Begin(c) \/ CallNext(c)
  PROVE  UNCHANGED <<loop, main>>
<1> USE DEF mainVars, loopVars
<1>1. CASE Begin(c)
  BY <1>1 DEF Begin, CallStop, PostCheck, QueueInMain, RunHere, QueueInLoop
<1>2. CASE CallNext(c)
  BY <1>2 DEF CallNext, PostInsert, PostWrite, NotifyLoad, NotifyStore, NotifyWrite, StopInsert
<1>3. QED BY <1>1, <1>2

LEMMA CallOfOne ==
  ASSUME TypeOK, NEW c \in Callers, Begin(c) \/ CallNext(c)
  PROVE  \A d \in Callers : d # c => call'[d] = call[d]
<1>1. call' = call \/ \E k : call' = [call EXCEPT ![c] = k]
  <2>1. CASE Begin(c)
    BY <2>1 DEF Begin, CallStop, PostCheck, QueueInMain, RunHere, QueueInLoop, Enter
  <2>2. CASE CallNext(c)
    BY <2>2 DEF CallNext, PostInsert, PostWrite, NotifyLoad, NotifyStore, NotifyWrite, StopInsert,
                Enter, Advance, CallEnds
  <2>3. QED BY <2>1, <2>2
<1>2. QED BY <1>1 DEF TypeOK

LEMMA CallCalling ==
  ASSUME TypeOK, CallingInv, NEW c \in Callers, Begin(c) \/ CallNext(c)
  PROVE  CallingInv'
<1>1. UNCHANGED <<loop, main>>
  BY CallLeaves
<1>2. \A d \in Callers : d # c => call'[d] = call[d]
  BY CallOfOne
<1>3. MayCall(c) \/ call[c] # NoCall
  <2>1. CASE Begin(c)
    BY <2>1 DEF Begin, CallStop, PostCheck, QueueInMain, RunHere, QueueInLoop
  <2>2. CASE CallNext(c)
    <3>1. call[c].at # "none"
      BY <2>2 DEF CallNext, PostInsert, PostWrite, NotifyLoad, NotifyStore, NotifyWrite, StopInsert
    <3>2. NoCall.at = "none"
      BY DEF NoCall
    <3>3. QED BY <3>1, <3>2
  <2>3. QED BY <2>1, <2>2
<1>4. /\ c \in Threads => main \notin {"start", "gone"}
      /\ c \in Loops => loop[c] = "work"
      /\ c = Main => main \in {"idle", "work"}
  BY <1>3 DEF CallingInv, MayCall
<1>5. QED BY <1>1, <1>2, <1>4 DEF CallingInv

LEMMA LoopCalling ==
  ASSUME TypeOK, CallingInv, NEW l \in Loops, LoopNext(l)
  PROVE  CallingInv' /\ UNCHANGED <<call, main>>
<1> USE DEF mainVars, loopVars, Goto, Dispatching
<1>1. UNCHANGED <<call, main>>
  BY DEF LoopNext, Poll, WakeRead, WakeStore, Take, PoolRead, TakePool, Run, WorkEnds, PollAgain,
         ClearCancel, Close, LoopStop, LoopRelease
<1>2. \A k \in Loops : k # l => loop'[k] = loop[k]
  BY DEF TypeOK, LoopNext, Poll, WakeRead, WakeStore, Take, PoolRead, TakePool, Run, WorkEnds,
         PollAgain, ClearCancel, Close, LoopStop, LoopRelease
<1>3. loop[l] = "work" => call[l] = NoCall
  BY DEF LoopNext, Poll, WakeRead, WakeStore, Take, PoolRead, TakePool, Run, WorkEnds, PollAgain,
         ClearCancel, Close, LoopStop, LoopRelease
<1>4. QED BY <1>1, <1>2, <1>3 DEF CallingInv

LEMMA MainCalling ==
  ASSUME TypeOK, WakeInv, CallingInv, MainNext
  PROVE  CallingInv' /\ UNCHANGED call
<1>1. /\ UNCHANGED call
      /\ \A l \in Loops : loop'[l] # loop[l] => loop[l] = "off"
  BY LoopsStarted
<1>2. /\ main # "start" => main' # "start"
      /\ main' = "gone" => main = "done" /\ \A t \in Threads : call[t] = NoCall
      /\ main \in {"idle", "work"} /\ main' \notin {"idle", "work"} => call[Main] = NoCall
  BY DEF MainNext, StartEnds, Dispatch, MainTake, MainRun, MainWorkEnds, MainDrain, LoopReturns,
         PoolDrain, DispatchReturns, OwnerReleases, StartLoop, MainGoto, mainVars
<1>3. QED BY <1>1, <1>2 DEF CallingInv

-----------------------------------------------------------------------------
(* What may be where only grows, but for what eventIO_dispatch drains. *)

LEMMA GrowsIf ==
  ASSUME \A l \in Loops : Closed(l) => Closed(l)', main \in Left => main' \in Left
  PROVE  /\ Grows(Places \ {Que(Stop)})
         /\ (main \in Left \ {"last"} <=> main' \in Left \ {"last"}) => Grows(Places)
<1>1. /\ MayBe(Bat(Main)) = {"queued"} /\ \A l \in Loops : MayBe(Bat(l)) = {"queued", "pooled"}
      /\ MayBe(Que(Stop)) = IF main \in Left \ {"last"} THEN {"late"} ELSE {"pooled"}
      /\ MayBe(Que(Main)) = IF main \in Left THEN {"queued", "late"} ELSE {"queued"}
      /\ \A l \in Loops : MayBe(Que(l)) = IF Closed(l) THEN {"queued", "late"} ELSE {"queued"}
  BY MayBeIs
<1>2. /\ MayBe(Bat(Main))' = {"queued"} /\ \A l \in Loops : MayBe(Bat(l))' = {"queued", "pooled"}
      /\ MayBe(Que(Stop))' = IF main' \in Left \ {"last"} THEN {"late"} ELSE {"pooled"}
      /\ MayBe(Que(Main))' = IF main' \in Left THEN {"queued", "late"} ELSE {"queued"}
      /\ \A l \in Loops : MayBe(Que(l))' = IF Closed(l)' THEN {"queued", "late"} ELSE {"queued"}
  <2>1. \A t : Bat(t)[1] = t /\ Bat(t)[2] = "batch" /\ Que(t)[1] = t /\ Que(t)[2] = "queue"
    BY DEF Bat, Que
  <2>2. \A l \in Loops : l # Main /\ l # Stop
    BY Apart
  <2>3. Main # Stop
    BY Apart
  <2>4. \A l \in Loops : MayBe(Bat(l))' = {"queued", "pooled"}
    BY <2>1, <2>2 DEF MayBe
  <2>5. \A l \in Loops : MayBe(Que(l))' = IF Closed(l)' THEN {"queued", "late"} ELSE {"queued"}
    <3>1. ASSUME NEW l \in Loops
          PROVE  MayBe(Que(l))' = IF Closed(l)' THEN {"queued", "late"} ELSE {"queued"}
      <4>1. ClosedTo(l)' = Closed(l)'
        BY <2>2 DEF ClosedTo
      <4>2. Que(l)[1] = l /\ Que(l)[2] = "queue" /\ l # Stop
        BY <2>1, <2>2
      <4>3. QED BY <4>1, <4>2 DEF MayBe
    <3>2. QED BY <3>1
  <2>6. MayBe(Que(Main))' = IF main' \in Left THEN {"queued", "late"} ELSE {"queued"}
    BY <2>1, <2>3 DEF MayBe, ClosedTo
  <2>7. MayBe(Bat(Main))' = {"queued"}
    BY <2>1 DEF MayBe
  <2>8. MayBe(Que(Stop))' = IF main' \in Left \ {"last"} THEN {"late"} ELSE {"pooled"}
    BY <2>1 DEF MayBe
  <2>9. QED BY <2>4, <2>5, <2>6, <2>7, <2>8
<1>3. /\ MayBe(Bat(Main)) \subseteq MayBe(Bat(Main))' /\ MayBe(Que(Main)) \subseteq MayBe(Que(Main))'
      /\ \A l \in Loops : MayBe(Bat(l)) \subseteq MayBe(Bat(l))' /\ MayBe(Que(l)) \subseteq MayBe(Que(l))'
  BY <1>1, <1>2
<1>4. ASSUME NEW p \in Places, p # Que(Stop) PROVE MayBe(p) \subseteq MayBe(p)'
  <2>1. (\E l \in Loops : p = Bat(l) \/ p = Que(l)) \/ p = Bat(Main) \/ p = Que(Main)
    BY <1>4, PlacesApart
  <2>2. ASSUME NEW l \in Loops, p = Bat(l) PROVE MayBe(p) \subseteq MayBe(p)'
    BY <1>3, <2>2
  <2>3. ASSUME NEW l \in Loops, p = Que(l) PROVE MayBe(p) \subseteq MayBe(p)'
    BY <1>3, <2>3
  <2>4. CASE p = Bat(Main)
    BY <1>3, <2>4
  <2>5. CASE p = Que(Main)
    BY <1>3, <2>5
  <2>6. QED BY <2>1, <2>2, <2>3, <2>4, <2>5
<1>5. (main \in Left \ {"last"} <=> main' \in Left \ {"last"}) => MayBe(Que(Stop)) \subseteq MayBe(Que(Stop))'
  BY <1>1, <1>2
<1>6. QED BY <1>4, <1>5 DEF Grows

LEMMA CallGrows ==
  ASSUME NEW c \in Callers, Begin(c) \/ CallNext(c)
  PROVE  Grows(Places)
<1>1. UNCHANGED <<loop, main>>
  BY CallLeaves
<1>2. \A l \in Loops : Closed(l) => Closed(l)'
  BY <1>1 DEF Closed
<1>3. QED BY <1>1, <1>2, GrowsIf

LEMMA LoopGrows ==
  ASSUME TypeOK, NEW l \in Loops, LoopNext(l)
  PROVE  Grows(Places)
<1> USE DEF mainVars, loopVars, Goto, Dispatching
<1>1. UNCHANGED main
  BY DEF LoopNext, Poll, WakeRead, WakeStore, Take, PoolRead, TakePool, Run, WorkEnds, PollAgain,
         ClearCancel, Close, LoopStop, LoopRelease
<1>2. \A k \in Loops : k # l => loop'[k] = loop[k]
  BY DEF TypeOK, LoopNext, Poll, WakeRead, WakeStore, Take, PoolRead, TakePool, Run, WorkEnds,
         PollAgain, ClearCancel, Close, LoopStop, LoopRelease
<1>3. Closed(l) => Closed(l)'
  BY DEF TypeOK, Closed, LoopNext, Poll, WakeRead, WakeStore, Take, PoolRead, TakePool, Run, WorkEnds,
         PollAgain, ClearCancel, Close, LoopStop, LoopRelease
<1>4. \A k \in Loops : Closed(k) => Closed(k)'
  BY <1>2, <1>3 DEF Closed
<1>5. QED BY <1>1, <1>4, GrowsIf

LEMMA MainGrows ==
  ASSUME TypeOK, WakeInv, MainNext
  PROVE  Grows(Places \ {Que(Stop)}) /\ (~PoolDrain => Grows(Places))
<1>1. \A l \in Loops : Closed(l) => Closed(l)'
  BY LoopsStarted DEF Closed
<1>2. main \in Left => main' \in Left
  BY DEF Left, MainNext, StartEnds, Dispatch, MainTake, MainRun, MainWorkEnds, MainDrain, LoopReturns,
         PoolDrain, DispatchReturns, OwnerReleases, StartLoop, MainGoto, mainVars
<1>3. ~PoolDrain => (main \in Left \ {"last"} <=> main' \in Left \ {"last"})
  BY DEF Left, MainNext, StartEnds, Dispatch, MainTake, MainRun, MainWorkEnds, MainDrain, LoopReturns,
         DispatchReturns, OwnerReleases, StartLoop, MainGoto, mainVars
<1>4. QED BY <1>1, <1>2, <1>3, GrowsIf

-----------------------------------------------------------------------------

LEMMA CallPlaces ==
  ASSUME TypeOK, RefInv, EndInv, OrderInv, NEW c \in Callers, Begin(c) \/ CallNext(c)
  PROVE  PlacesInv'
<1>1. Grows(Places)
  BY CallGrows
<1>2. PlacesInv
  BY DEF OrderInv
<1>3. UNCHANGED <<loop, main>>
  BY CallLeaves
<1>4. /\ Que(Stop) \in Places /\ Que(Main) \in Places /\ \A l \in Loops : Que(l) \in Places
  BY PlacesApart, Apart
<1>5. CASE PostWrite(c) \/ NotifyLoad(c) \/ NotifyStore(c) \/ NotifyWrite(c) \/ CallStop(c)
  BY <1>1, <1>2, <1>5, CallsMove, KeepsOrder
<1>6. CASE StopInsert(c)
  <2>1. call[c].loop \in Loops /\ ReceivesStop(Que(call[c].loop))
    BY <1>6, CallsMove
  <2>2. QED BY <1>1, <1>2, <1>4, <2>1, ReceivesStopOrder
<1>7. CASE PostInsert(c)
  <2>1. PICK f : f = IF main \in {"release", "done"} THEN "late" ELSE "pooled"
    OBVIOUS
  <2>2. call[c].item \in Events /\ Receives(Que(Stop), call[c].item, f)
    BY <1>7, <2>1, CallsMove
  <2>3. call[c].at = "post" /\ fate[call[c].item] = "given"
    BY <1>7 DEF PostInsert, OrderInv, PostInv
  <2>4. main # "gone"
    BY <2>3, NotGone DEF OrderInv, NoCall
  <2>5. f \in MayBe(Que(Stop))
    BY <2>1, <2>4, MayBeIs DEF Left
  <2>6. f \in MayBe(Que(Stop))'
    BY <1>1, <1>4, <2>5 DEF Grows
  <2>7. QED BY <1>1, <1>2, <1>4, <2>2, <2>3, <2>6, ReceivesOrder
<1>8. ASSUME NEW e \in Events, PostCheck(c, e) PROVE PlacesInv'
  <2>1. PICK f : f = IF bLoopRunning THEN "given" ELSE "cancelled"
    OBVIOUS
  <2>2. Decides(e, f) /\ f # "pooled"
    BY <1>8, <2>1, CallsMove
  <2>3. fate[e] = "new"
    BY <1>8 DEF PostCheck
  <2>4. QED BY <1>1, <1>2, <2>2, <2>3, DecidesOrder
<1>9. ASSUME NEW e \in Events, RunHere(c, e) PROVE PlacesInv'
  <2>1. Decides(e, Outcome) /\ Outcome # "pooled"
    BY <1>9, CallsMove DEF Outcome
  <2>2. fate[e] = "new"
    BY <1>9 DEF RunHere
  <2>3. QED BY <1>1, <1>2, <2>1, <2>2, DecidesOrder
<1>10. ASSUME NEW e \in Events, QueueInMain(c, e) PROVE PlacesInv'
  <2>1. PICK f : f = IF main \in {"last", "release", "done"} THEN "late" ELSE "queued"
    OBVIOUS
  <2>2. Receives(Que(Main), e, f) /\ f # "pooled"
    BY <1>10, <2>1, CallsMove
  <2>3. fate[e] = "new"
    BY <1>10 DEF QueueInMain
  <2>4. f \in MayBe(Que(Main))
    BY <2>1, MayBeIs DEF Left
  <2>5. f \in MayBe(Que(Main))'
    BY <1>1, <1>4, <2>4 DEF Grows
  <2>6. QED BY <1>1, <1>2, <1>4, <2>2, <2>3, <2>5, ReceivesOrder
<1>11. ASSUME NEW e \in Events, NEW l \in Loops, QueueInLoop(c, e, l) PROVE PlacesInv'
  <2>1. PICK f : f = IF Closed(l) THEN "late" ELSE "queued"
    OBVIOUS
  <2>2. fate[e] = "new"
    BY <1>11 DEF QueueInLoop
  <2>3. Receives(Que(l), e, f) \/ Decides(e, "late")
    BY <1>11, <2>1, CallsMove
  <2>4. f \in MayBe(Que(l)) /\ f # "pooled"
    BY <2>1, MayBeIs
  <2>5. f \in MayBe(Que(l))'
    BY <1>1, <1>4, <2>4 DEF Grows
  <2>6. CASE Receives(Que(l), e, f)
    BY <1>1, <1>2, <1>4, <2>2, <2>4, <2>5, <2>6, ReceivesOrder
  <2>7. CASE Decides(e, "late")
    BY <1>1, <1>2, <2>2, <2>7, DecidesOrder
  <2>8. QED BY <2>3, <2>6, <2>7
<1>12. QED BY <1>5, <1>6, <1>7, <1>8, <1>9, <1>10, <1>11 DEF Begin, CallNext

LEMMA LoopPlaces ==
  ASSUME TypeOK, RefInv, BatchesDone, EndInv, PlacesInv, NEW l \in Loops, LoopNext(l)
  PROVE  PlacesInv'
<1>1. Grows(Places)
  BY LoopGrows
<1>2. /\ Que(Stop) \in Places /\ Que(Main) \in Places /\ Que(l) \in Places /\ Bat(l) \in Places
      /\ Que(l) # Bat(l) /\ Que(Stop) # Bat(l) /\ Que(l) # Que(Stop)
      /\ \A k \in Loops : Que(Stop) # Bat(k) /\ Que(l) # Bat(k)
  BY PlacesApart, Apart
<1>3. CASE Poll(l) \/ WakeRead(l) \/ WakeStore(l) \/ PoolRead(l) \/ WorkEnds(l) \/ PollAgain(l)
           \/ Close(l) \/ LoopRelease(l)
  BY <1>1, <1>3, LoopsMove, KeepsOrder
<1>4. CASE Take(l)
  <2>1. Moves(Que(l), Bat(l))
    BY <1>4, LoopsMove
  <2>2. MayBe(Que(l)) \subseteq MayBe(Bat(l))
    BY <1>4, MayBeIs DEF Take, Closed
  <2>3. MayBe(Que(l)) \subseteq MayBe(Bat(l))'
    BY <1>1, <1>2, <2>2 DEF Grows
  <2>4. QED BY <1>1, <1>2, <2>1, <2>3, MovesOrder
<1>5. CASE TakePool(l)
  <2>1. Moves(Que(Stop), Bat(l))
    BY <1>5, LoopsMove
  <2>2. main \notin Left
    <3>1. l \in Running /\ ~Closed(l)
      BY <1>5 DEF TakePool, RefInv, StartInv, Closed
    <3>2. QED BY <3>1 DEF EndInv
  <2>3. MayBe(Que(Stop)) \subseteq MayBe(Bat(l))
    BY <2>2, MayBeIs
  <2>4. MayBe(Que(Stop)) \subseteq MayBe(Bat(l))'
    BY <1>1, <1>2, <2>3 DEF Grows
  <2>5. QED BY <1>1, <1>2, <2>1, <2>4, MovesOrder
<1>6. CASE Run(l)
  <2>1. Loses(Bat(l), Outcome) /\ Outcome # "pooled"
    BY <1>6, LoopsMove DEF Outcome
  <2>2. QED BY <1>1, <1>2, <2>1, LosesOrder
<1>7. CASE ClearCancel(l)
  <2>1. Loses(Que(l), "cancelled")
    BY <1>7, LoopsMove
  <2>2. QED BY <1>1, <1>2, <2>1, LosesOrder
<1>8. CASE LoopStop(l)
  BY <1>1, <1>2, <1>8, LoopsMove, KeepsOrder, ReceivesStopOrder
<1>9. QED BY <1>3, <1>4, <1>5, <1>6, <1>7, <1>8 DEF LoopNext

LEMMA MainPlaces ==
  ASSUME TypeOK, WakeInv, BatchesDone, PlacesInv, MainNext
  PROVE  PlacesInv'
<1>1. Grows(Places \ {Que(Stop)}) /\ (~PoolDrain => Grows(Places))
  BY MainGrows
<1>2. /\ Que(Stop) \in Places /\ Que(Main) \in Places /\ Bat(Main) \in Places
      /\ Que(Main) # Bat(Main) /\ Que(Main) # Que(Stop)
      /\ \A k \in Loops : Que(Main) # Bat(k)
  BY PlacesApart, Apart
<1>3. CASE PoolDrain
  <2>1. Empties(Que(Stop))
    BY <1>3, MainMoves
  <2>2. QED BY <1>1, <1>2, <2>1, EmptiesOrder
<1>4. CASE ~PoolDrain
  <2>1. Grows(Places)
    BY <1>1, <1>4
  <2>2. CASE StartEnds \/ Dispatch \/ MainWorkEnds \/ LoopReturns \/ DispatchReturns \/ OwnerReleases
             \/ (\E l \in Loops : StartLoop(l))
    BY <2>1, <2>2, MainMoves, KeepsOrder
  <2>3. CASE MainTake
    <3>1. Moves(Que(Main), Bat(Main))
      BY <2>3, MainMoves
    <3>2. MayBe(Que(Main)) \subseteq MayBe(Bat(Main))
      BY <2>3, MayBeIs DEF MainTake, Left
    <3>3. MayBe(Que(Main)) \subseteq MayBe(Bat(Main))'
      BY <1>2, <2>1, <3>2 DEF Grows
    <3>4. QED BY <1>2, <2>1, <3>1, <3>3, MovesOrder
  <2>4. CASE MainRun
    <3>1. Loses(Bat(Main), Outcome) /\ Outcome # "pooled"
      BY <2>4, MainMoves DEF Outcome
    <3>2. QED BY <1>2, <2>1, <3>1, LosesOrder
  <2>5. CASE MainDrain
    <3>1. Empties(Que(Main)) /\ Grows(Places \ {Que(Main)})
      BY <2>1, <2>5, MainMoves DEF Grows
    <3>2. QED BY <1>2, <3>1, EmptiesOrder
  <2>6. QED BY <1>4, <2>2, <2>3, <2>4, <2>5 DEF MainNext
<1>5. QED BY <1>3, <1>4

\* Who holds an event that is in a place has not just been given it.
LEMMA GivenStays ==
  ASSUME TypeOK, PlacesInv, NEW p \in Places, NEW r \in Places, NEW f,
         Keeps \/ ReceivesStop(p) \/ Moves(p, r) \/ Loses(p, f) \/ Empties(p),
         NEW e \in Events, fate[e] = "given"
  PROVE  fate'[e] = "given"
<1>1. \A q \in Places : e \notin EventsIn(held[q])
  BY FreshIsNowhere DEF PlacesInv
<1>2. CASE Keeps \/ ReceivesStop(p) \/ Moves(p, r)
  BY <1>2 DEF Keeps, ReceivesStop, Moves
<1>3. CASE Loses(p, f)
  <2>1. held[p] \in Seq(Events \cup {Stop}) /\ held[p] # <<>>
    BY <1>3, HeldTyped DEF Loses
  <2>2. Elements(held[p]) = {Head(held[p])} \cup Elements(Tail(held[p]))
    BY <2>1, FirstOf
  <2>3. e # Head(held[p])
    BY <1>1, <2>2 DEF EventsIn
  <2>4. fate'[e] = fate[e]
    BY <1>3, <2>3 DEF Loses, Become, TypeOK
  <2>5. QED BY <2>4
<1>4. CASE Empties(p)
  BY <1>1, <1>4 DEF Empties
<1>5. QED BY <1>2, <1>3, <1>4

LEMMA LoopPost ==
  ASSUME TypeOK, BatchesDone, PlacesInv, PostInv, NEW l \in Loops, LoopNext(l), UNCHANGED call
  PROVE  PostInv'
<1>1. Que(Stop) \in Places /\ Que(Main) \in Places /\ Que(l) \in Places /\ Bat(l) \in Places
  BY PlacesApart, Apart
<1>2. \A e \in Events : fate[e] = "given" => fate'[e] = "given"
  <2>1. CASE Poll(l) \/ WakeRead(l) \/ WakeStore(l) \/ PoolRead(l) \/ WorkEnds(l) \/ PollAgain(l)
             \/ Close(l) \/ LoopRelease(l) \/ LoopStop(l)
    BY <1>1, <2>1, LoopsMove, GivenStays
  <2>2. CASE Take(l)
    BY <1>1, <2>2, LoopsMove, GivenStays
  <2>3. CASE TakePool(l)
    BY <1>1, <2>3, LoopsMove, GivenStays
  <2>4. CASE Run(l)
    BY <1>1, <2>4, LoopsMove, GivenStays
  <2>5. CASE ClearCancel(l)
    BY <1>1, <2>5, LoopsMove, GivenStays
  <2>6. QED BY <2>1, <2>2, <2>3, <2>4, <2>5 DEF LoopNext
<1>3. \A c \in Callers : call[c].at = "post" => call[c].item \in Events
  BY CallKinds DEF TypeOK
<1>4. QED BY <1>2, <1>3 DEF PostInv

LEMMA MainPost ==
  ASSUME TypeOK, BatchesDone, PlacesInv, PostInv, MainNext, UNCHANGED call
  PROVE  PostInv'
<1>1. Que(Stop) \in Places /\ Que(Main) \in Places /\ Bat(Main) \in Places
  BY PlacesApart, Apart
<1>2. \A e \in Events : fate[e] = "given" => fate'[e] = "given"
  <2>1. CASE StartEnds \/ Dispatch \/ MainWorkEnds \/ LoopReturns \/ DispatchReturns \/ OwnerReleases
             \/ (\E l \in Loops : StartLoop(l))
    BY <1>1, <2>1, MainMoves, GivenStays
  <2>2. CASE MainTake
    BY <1>1, <2>2, MainMoves, GivenStays
  <2>3. CASE MainRun
    BY <1>1, <2>3, MainMoves, GivenStays
  <2>4. CASE MainDrain
    BY <1>1, <2>4, MainMoves, GivenStays
  <2>5. CASE PoolDrain
    BY <1>1, <2>5, MainMoves, GivenStays
  <2>6. QED BY <2>1, <2>2, <2>3, <2>4, <2>5 DEF MainNext
<1>3. \A c \in Callers : call[c].at = "post" => call[c].item \in Events
  BY CallKinds DEF TypeOK
<1>4. QED BY <1>2, <1>3 DEF PostInv

LEMMA CallPost ==
  ASSUME TypeOK, PostInv, NEW c \in Callers, Begin(c) \/ CallNext(c)
  PROVE  PostInv'
<1>1. \A d \in Callers : d # c => call'[d] = call[d]
  BY CallOfOne
<1>2. \A d \in Callers : call[d].at = "post" => call[d].item \in Events
  BY CallKinds DEF TypeOK
<1>3. ASSUME call'[c].at # "post",
             \A d \in Callers : d # c /\ call[d].at = "post" => fate'[call[d].item] = fate[call[d].item]
      PROVE  PostInv'
  BY <1>1, <1>3 DEF PostInv
<1>4. \A f : \A e \in Events : Become(e, f) => \A d \in Events : fate'[d] = IF d = e THEN f ELSE fate[d]
  BY DEF Become, TypeOK
<1>5. \A f : \A e \in Events, d \in Callers : fate[e] = "new" /\ Become(e, f) /\ call[d].at = "post" =>
        fate'[call[d].item] = fate[call[d].item]
  BY <1>2, <1>4 DEF PostInv
<1>6. \A k : Enter(c, k) => call'[c] = k
  BY DEF Enter, TypeOK
<1>7. NoCall.at # "post"
  BY DEF NoCall
<1>8. ASSUME NEW e \in Events, PostCheck(c, e) PROVE PostInv'
  <2>1. fate[e] = "new"
    BY <1>8 DEF PostCheck
  <2>2. \A d \in Callers : call[d].at = "post" => call[d].item # e
    BY <2>1 DEF PostInv
  <2>3. CASE bLoopRunning
    <3>1. call'[c] = [at |-> "post", item |-> e] /\ Become(e, "given")
      BY <1>6, <1>8, <2>3 DEF PostCheck
    <3>2. call'[c].item = e /\ fate'[e] = "given"
      BY <1>4, <3>1
    <3>3. \A d \in Callers : call[d].at = "post" => fate'[call[d].item] = fate[call[d].item]
      BY <1>5, <2>1, <3>1
    <3>4. QED BY <1>1, <2>2, <3>2, <3>3 DEF PostInv
  <2>4. CASE ~bLoopRunning
    <3>1. call'[c] = NoCall /\ Become(e, "cancelled")
      BY <1>6, <1>8, <2>4 DEF PostCheck
    <3>2. \A d \in Callers : call[d].at = "post" => fate'[call[d].item] = fate[call[d].item]
      BY <1>5, <2>1, <3>1
    <3>3. QED BY <1>3, <1>7, <3>1, <3>2
  <2>5. QED BY <2>3, <2>4
<1>9. CASE PostInsert(c)
  <2>1. PICK f : Become(call[c].item, f)
    BY <1>9 DEF PostInsert
  <2>2. call[c].at = "post" /\ call'[c] = [at |-> "postWrite"]
    BY <1>6, <1>9 DEF PostInsert
  <2>3. \A d \in Callers : d # c /\ call[d].at = "post" => call[d].item # call[c].item
    BY <2>2 DEF PostInv
  <2>4. \A d \in Callers : d # c /\ call[d].at = "post" => fate'[call[d].item] = fate[call[d].item]
    BY <1>2, <1>4, <2>1, <2>2, <2>3
  <2>5. call'[c].at # "post"
    BY <2>2
  <2>6. QED BY <1>3, <2>4, <2>5
<1>10. CASE PostWrite(c) \/ NotifyLoad(c) \/ NotifyStore(c) \/ NotifyWrite(c) \/ CallStop(c) \/ StopInsert(c)
  <2>1. fate' = fate
    BY <1>10 DEF PostWrite, NotifyLoad, NotifyStore, NotifyWrite, CallStop, StopInsert
  <2>2. call'[c].at # "post"
    <3>1. CASE PostWrite(c) \/ CallStop(c)
      BY <1>6, <1>7, <3>1 DEF PostWrite, CallStop
    <3>2. CASE NotifyLoad(c) \/ NotifyStore(c) \/ NotifyWrite(c) \/ StopInsert(c)
      <4>1. call[c] \in LoopCalls
        BY <3>2, CallKinds DEF NotifyLoad, NotifyStore, NotifyWrite, StopInsert, TypeOK
      <4>2. \A at \in {"store", "write", "notify"} : [call[c] EXCEPT !.at = at].at = at
        BY <4>1, LoopCallTyped
      <4>3. CASE CallEnds(c)
        BY <1>6, <1>7, <4>3 DEF CallEnds
      <4>4. ASSUME NEW at \in {"store", "write", "notify"}, Advance(c, at) PROVE call'[c].at # "post"
        BY <1>6, <4>2, <4>4 DEF Advance
      <4>5. CallEnds(c) \/ Advance(c, "store") \/ Advance(c, "write") \/ Advance(c, "notify")
        BY <3>2 DEF NotifyLoad, NotifyStore, NotifyWrite, StopInsert
      <4>6. QED BY <4>3, <4>4, <4>5
    <3>3. QED BY <1>10, <3>1, <3>2
  <2>3. QED BY <1>3, <2>1, <2>2
<1>11. ASSUME NEW e \in Events, QueueInMain(c, e) \/ RunHere(c, e) PROVE PostInv'
  <2>1. MayCall(c) /\ call' = call /\ fate[e] = "new"
    BY <1>11 DEF QueueInMain, RunHere
  <2>2. PICK f : Become(e, f)
    BY <1>11 DEF QueueInMain, RunHere
  <2>3. call'[c].at # "post"
    BY <1>7, <2>1 DEF MayCall
  <2>4. QED BY <1>3, <1>5, <2>1, <2>2, <2>3
<1>12. ASSUME NEW e \in Events, NEW l \in Loops, QueueInLoop(c, e, l) PROVE PostInv'
  <2>1. call'[c] = [at |-> "notify", loop |-> l, stops |-> FALSE] /\ fate[e] = "new"
    BY <1>6, <1>12 DEF QueueInLoop
  <2>2. PICK f : Become(e, f)
    BY <1>12 DEF QueueInLoop
  <2>3. call'[c].at # "post"
    BY <2>1
  <2>4. QED BY <1>3, <1>5, <2>1, <2>2, <2>3
<1>13. QED BY <1>8, <1>9, <1>10, <1>11, <1>12 DEF Begin, CallNext

\* All that the promise rests on.
EventInv == TypeOK /\ WakeInv /\ RefInv /\ BatchesDone /\ EndInv /\ OrderInv

LEMMA NextOrder ==
  ASSUME EventInv, [Next]_vars
  PROVE  OrderInv'
<1> USE DEF EventInv
<1>1. ASSUME NEW c \in Callers, Begin(c) \/ CallNext(c) PROVE OrderInv'
  BY <1>1, CallPlaces, CallCalling, CallPost DEF OrderInv
<1>2. ASSUME NEW l \in Loops, LoopNext(l) PROVE OrderInv'
  BY <1>2, LoopPlaces, LoopCalling, LoopPost DEF OrderInv
<1>3. CASE MainNext
  BY <1>3, MainPlaces, MainCalling, MainPost DEF OrderInv
<1>4. CASE UNCHANGED vars
  <2>1. UNCHANGED <<held, fate, call, main, loop>>
    BY <1>4, HeldSame DEF vars, mainVars, poolVars, wakeVars, loopVars, countVars
  <2>2. \A l \in Loops : Closed(l) => Closed(l)'
    BY <2>1 DEF Closed
  <2>3. Grows(Places)
    BY <2>1, <2>2, GrowsIf
  <2>4. PlacesInv'
    BY <2>1, <2>3, KeepsOrder DEF OrderInv, Keeps
  <2>5. QED BY <2>1, <2>4 DEF OrderInv, CallingInv, PostInv
<1>5. QED BY <1>1, <1>2, <1>3, <1>4 DEF Next

LEMMA InitEvent == Init => EventInv
BY InitTyped, InitWake, InitRefs, InitDone, InitEnd, InitOrder DEF EventInv

LEMMA NextEvent == EventInv /\ [Next]_vars => EventInv'
<1> SUFFICES ASSUME EventInv, [Next]_vars PROVE EventInv'
  OBVIOUS
<1>1. TypeOK' /\ WakeInv' /\ RefInv'
  BY NextTyped, NextWake, NextRefs DEF EventInv
<1>2. BatchesDone' /\ EndInv'
  BY NextEnd DEF EventInv
<1>3. OrderInv'
  BY NextOrder
<1>4. QED BY <1>1, <1>2, <1>3 DEF EventInv

-----------------------------------------------------------------------------
(* What is pending for a target, place by place. *)

QueuedBy(f) == {e \in Events : f[e] = "queued"}

\* What Executor sees of a place.
Part(h, f, p) == Chosen(h[p], QueuedBy(f))

\* The values of Executor's variables.
PendingOf == [t \in Loops \cup {Main} |-> Pending(t)]

LEMMA PartTyped ==
  ASSUME NEW h \in [Places -> Seq(Events \cup {Stop})], NEW f, NEW p \in Places
  PROVE  /\ Part(h, f, p) \in Seq(Events \cup {Stop})
         /\ h[p] = <<>> => Part(h, f, p) = <<>>
<1>1. h[p] \in Seq(Events \cup {Stop})
  OBVIOUS
<1>2. Part(h, f, p) \in Seq(Events \cup {Stop})
  BY <1>1, ChosenTyped DEF Part
<1>3. ASSUME h[p] = <<>> PROVE Part(h, f, p) = <<>>
  BY <1>3, ChosenFromNothing DEF Part
<1>4. QED BY <1>2, <1>3

LEMMA PartSame ==
  ASSUME NEW h \in [Places -> Seq(Events \cup {Stop})], NEW f, NEW p \in Places, NEW g, NEW k,
         g[p] = h[p], \A e \in EventsIn(h[p]) : k[e] = "queued" <=> f[e] = "queued"
  PROVE  Part(g, k, p) = Part(h, f, p)
<1>1. PICK q : q = h[p]
  OBVIOUS
<1>2. q \in Seq(Events \cup {Stop})
  BY <1>1
<1>3. \A x \in Elements(q) : x \in QueuedBy(k) <=> x \in QueuedBy(f)
  BY <1>1 DEF QueuedBy, EventsIn
<1>4. Chosen(q, QueuedBy(k)) = Chosen(q, QueuedBy(f))
  BY <1>2, <1>3, ChosenAlike
<1>5. QED BY <1>1, <1>4 DEF Part

LEMMA PartNone ==
  ASSUME NEW h \in [Places -> Seq(Events \cup {Stop})], NEW f, NEW p \in Places,
         \A e \in EventsIn(h[p]) : f[e] # "queued"
  PROVE  Part(h, f, p) = <<>>
<1>1. PICK q : q = h[p]
  OBVIOUS
<1>2. q \in Seq(Events \cup {Stop})
  BY <1>1
<1>3. PICK c : c = Chosen(q, QueuedBy(f))
  OBVIOUS
<1>4. c \in Seq(Events \cup {Stop}) /\ Elements(c) = Elements(q) \cap QueuedBy(f)
  BY <1>2, <1>3, ChosenTyped, ElementsOfChosen
<1>5. Elements(q) \cap QueuedBy(f) = {}
  BY <1>1 DEF QueuedBy, EventsIn
<1>6. \A i \in 1..Len(c) : c[i] \in Elements(c)
  BY DEF Elements
<1>7. Len(c) = 0
  <2>1. Len(c) \in Nat /\ ~(1 \in 1..Len(c))
    BY <1>4, <1>5, <1>6
  <2>2. QED BY <2>1
<1>8. QED BY <1>1, <1>3, <1>4, <1>7 DEF Part

\* The queue of a target after its batch.
LEMMA PendingParts ==
  ASSUME NEW h \in [Places -> Seq(Events \cup {Stop})], NEW f, NEW t \in Targets
  PROVE  Chosen(h[Bat(t)] \o h[Que(t)], QueuedBy(f)) = Part(h, f, Bat(t)) \o Part(h, f, Que(t))
<1>1. Bat(t) \in Places /\ Que(t) \in Places
  BY PlacesApart
<1>2. PICK a : a = h[Bat(t)]
  OBVIOUS
<1>3. PICK b : b = h[Que(t)]
  OBVIOUS
<1>4. a \in Seq(Events \cup {Stop}) /\ b \in Seq(Events \cup {Stop})
  BY <1>1, <1>2, <1>3
<1>5. Chosen(a \o b, QueuedBy(f)) = Chosen(a, QueuedBy(f)) \o Chosen(b, QueuedBy(f))
  BY <1>4, ChosenFromBoth
<1>6. QED BY <1>2, <1>3, <1>5 DEF Part

LEMMA PendingIs ==
  ASSUME TypeOK, NEW t \in Targets
  PROVE  PendingOf[t] = Part(held, fate, Bat(t)) \o Part(held, fate, Que(t))
<1>1. Pending(t) = Chosen(held[Bat(t)] \o held[Que(t)], QueuedBy(fate))
  <2>1. CASE t = Main
    BY <2>1, HeldIs DEF Pending, Promised, QueuedBy
  <2>2. CASE t # Main
    <3>1. t \in Loops
      BY <2>2, Apart
    <3>2. QED BY <2>2, <3>1, HeldIs DEF Pending, Promised, QueuedBy
  <2>3. QED BY <2>1, <2>2
<1>2. held \in [Places -> Seq(Events \cup {Stop})]
  BY HeldTyped
<1>3. PendingOf[t] = Pending(t)
  BY DEF PendingOf, Targets
<1>4. QED BY <1>1, <1>2, <1>3, PendingParts

LEMMA PendingBecomes ==
  ASSUME TypeOK', NEW t \in Targets
  PROVE  PendingOf'[t] = Part(held', fate', Bat(t)) \o Part(held', fate', Que(t))
<1>1. /\ \A l \in Loops : held'[Bat(l)] = batch'[l] /\ held'[Que(l)] = queuePending'[l]
      /\ held'[Bat(Main)] = mainBatch' /\ held'[Que(Main)] = mainPending' /\ held'[Que(Stop)] = queuedEvent'
  BY HeldByIs DEF held
<1>2. Pending(t)' = Chosen(held'[Bat(t)] \o held'[Que(t)], QueuedBy(fate'))
  <2>1. CASE t = Main
    BY <1>1, <2>1 DEF Pending, Promised, QueuedBy
  <2>2. CASE t # Main
    <3>1. t \in Loops
      BY <2>2, Apart
    <3>2. QED BY <1>1, <2>2, <3>1 DEF Pending, Promised, QueuedBy
  <2>3. QED BY <2>1, <2>2
<1>3. held' \in [Places -> Seq(Events \cup {Stop})]
  <2>1. queuedEvent' \in Seq(Events \cup {Stop})
    <3>1. queuedEvent' \in Seq(Events)
      BY DEF TypeOK
    <3>2. QED BY <3>1, SeqMonotonic
  <2>2. \A l \in Loops : batch'[l] \in Seq(Events \cup {Stop}) /\ queuePending'[l] \in Seq(Events \cup {Stop})
    BY DEF TypeOK
  <2>3. mainBatch' \in Seq(Events \cup {Stop}) /\ mainPending' \in Seq(Events \cup {Stop})
    BY DEF TypeOK
  <2>4. \A p \in Places : held'[p] \in Seq(Events \cup {Stop})
    BY <1>1, <2>1, <2>2, <2>3, PlacesApart
  <2>5. held' = [p \in Places |-> held'[p]]
    BY HeldByIs DEF held
  <2>6. QED BY <2>4, <2>5
<1>4. PendingOf'[t] = Pending(t)'
  BY DEF PendingOf, Targets
<1>5. QED BY <1>2, <1>3, <1>4, PendingParts

LEMMA PendingFunction ==
  /\ PendingOf = [t \in Targets |-> PendingOf[t]]
  /\ PendingOf' = [t \in Targets |-> PendingOf'[t]]
BY DEF PendingOf, Targets

\* What is pending for t alone changes, or nothing.
LEMMA PendingOfOne ==
  ASSUME TypeOK, TypeOK', NEW t \in Targets, NEW v,
         \A u \in Targets : u # t => /\ Part(held', fate', Bat(u)) = Part(held, fate, Bat(u))
                                     /\ Part(held', fate', Que(u)) = Part(held, fate, Que(u)),
         Part(held', fate', Bat(t)) \o Part(held', fate', Que(t)) = v
  PROVE  PendingOf' = With(PendingOf, t, v)
<1>1. \A u \in Targets : PendingOf'[u] = IF u = t THEN v ELSE PendingOf[u]
  BY PendingIs, PendingBecomes
<1>2. PendingOf = [u \in Targets |-> PendingOf[u]] /\ PendingOf' = [u \in Targets |-> PendingOf'[u]]
  BY PendingFunction
<1>3. With(PendingOf, t, v) = [u \in Targets |-> IF u = t THEN v ELSE PendingOf[u]]
  BY <1>2 DEF With
<1>4. QED BY <1>1, <1>2, <1>3

LEMMA PendingSame ==
  ASSUME TypeOK, TypeOK',
         \A u \in Targets : /\ Part(held', fate', Bat(u)) = Part(held, fate, Bat(u))
                            /\ Part(held', fate', Que(u)) = Part(held, fate, Que(u))
  PROVE  PendingOf' = PendingOf
<1>1. \A u \in Targets : PendingOf'[u] = PendingOf[u]
  BY PendingIs, PendingBecomes
<1>2. PendingOf = [u \in Targets |-> PendingOf[u]] /\ PendingOf' = [u \in Targets |-> PendingOf'[u]]
  BY PendingFunction
<1>3. QED BY <1>1, <1>2

-----------------------------------------------------------------------------
(* What a step does to what is pending. *)

LEMMA KeepsPending ==
  ASSUME TypeOK, TypeOK', Keeps
  PROVE  PendingOf' = PendingOf /\ InPool' = InPool
<1>1. \A p : Part(held', fate', p) = Part(held, fate, p)
  BY DEF Keeps
<1>2. InPool' = InPool
  BY DEF Keeps, InPool
<1>3. QED BY <1>1, <1>2, PendingSame

LEMMA DecidesPending ==
  ASSUME TypeOK, TypeOK', PlacesInv, NEW e \in Events, NEW f, fate[e] \in {"new", "given"},
         f \notin {"queued", "pooled"}, Decides(e, f)
  PROVE  PendingOf' = PendingOf /\ InPool' = InPool
<1>1. held' = held /\ \A d \in Events : fate'[d] = IF d = e THEN f ELSE fate[d]
  BY DEF Decides, Become, TypeOK
<1>2. \A d \in Events : (fate'[d] = "queued" <=> fate[d] = "queued") /\ (fate'[d] = "pooled" <=> fate[d] = "pooled")
  BY <1>1
<1>3. InPool' = InPool
  BY <1>2 DEF InPool
<1>4. \A p \in Places : Part(held', fate', p) = Part(held, fate, p)
  <2>1. ASSUME NEW p \in Places PROVE Part(held', fate', p) = Part(held, fate, p)
    <3>1. \A d \in EventsIn(held[p]) : fate'[d] = "queued" <=> fate[d] = "queued"
      BY <1>2 DEF EventsIn
    <3>2. QED BY <1>1, <3>1, HeldTyped, PartSame
  <2>2. QED BY <2>1
<1>5. QED BY <1>3, <1>4, PlacesApart, PendingSame

LEMMA ReceivesStopPending ==
  ASSUME TypeOK, TypeOK', NEW p \in Places, ReceivesStop(p)
  PROVE  PendingOf' = PendingOf /\ InPool' = InPool
<1>1. held \in [Places -> Seq(Events \cup {Stop})]
  BY HeldTyped
<1>2. fate' = fate /\ \A q \in Places : held'[q] = IF q = p THEN Append(held[p], Stop) ELSE held[q]
  BY <1>1 DEF ReceivesStop
<1>3. InPool' = InPool
  BY <1>2 DEF InPool
<1>4. \A q \in Places : Part(held', fate', q) = Part(held, fate, q)
  <2>1. PICK s : s = held[p]
    OBVIOUS
  <2>2. s \in Seq(Events \cup {Stop}) /\ Stop \in Events \cup {Stop} /\ Stop \notin QueuedBy(fate)
    BY <1>1, <2>1, StopIsNoEvent DEF QueuedBy
  <2>3. Chosen(Append(s, Stop), QueuedBy(fate)) = Chosen(s, QueuedBy(fate))
    BY <2>2, LastOf
  <2>4. QED BY <1>2, <2>1, <2>3 DEF Part
<1>5. QED BY <1>3, <1>4, PlacesApart, PendingSame

\* An event comes to a place: the parts of the others are as before.
LEMMA ReceivesParts ==
  ASSUME TypeOK, PlacesInv, NEW p \in Places, NEW e \in Events, NEW f, fate[e] \in {"new", "given"},
         Receives(p, e, f)
  PROVE  \A q \in Places : Part(held', fate', q) =
           IF q = p /\ f = "queued" THEN Append(Part(held, fate, q), e) ELSE Part(held, fate, q)
<1>1. held \in [Places -> Seq(Events \cup {Stop})]
  BY HeldTyped
<1>2. /\ \A q \in Places : held'[q] = IF q = p THEN Append(held[p], e) ELSE held[q]
      /\ \A d \in Events : fate'[d] = IF d = e THEN f ELSE fate[d]
  BY <1>1 DEF Receives, Become, TypeOK
<1>3. \A q \in Places : e \notin EventsIn(held[q])
  BY FreshIsNowhere DEF PlacesInv
<1>4. \A q \in Places : \A d \in EventsIn(held[q]) : fate'[d] = "queued" <=> fate[d] = "queued"
  BY <1>2, <1>3 DEF EventsIn
<1>5. ASSUME NEW q \in Places, q # p PROVE Part(held', fate', q) = Part(held, fate, q)
  <2>1. held'[q] = held[q] /\ \A d \in EventsIn(held[q]) : fate'[d] = "queued" <=> fate[d] = "queued"
    BY <1>2, <1>4, <1>5
  <2>2. QED BY <1>1, <2>1, PartSame
<1>6. Part(held', fate', p) = IF f = "queued" THEN Append(Part(held, fate, p), e) ELSE Part(held, fate, p)
  <2>1. PICK s : s = held[p]
    OBVIOUS
  <2>2. s \in Seq(Events \cup {Stop}) /\ e \in Events \cup {Stop}
    BY <1>1, <2>1
  <2>3. Chosen(Append(s, e), QueuedBy(fate')) =
          IF e \in QueuedBy(fate') THEN Append(Chosen(s, QueuedBy(fate')), e) ELSE Chosen(s, QueuedBy(fate'))
    BY <2>2, LastOf
  <2>4. e \in QueuedBy(fate') <=> f = "queued"
    BY <1>2 DEF QueuedBy
  <2>5. Part(held, fate', p) = Part(held, fate, p)
    BY <1>1, <1>4, PartSame
  <2>6. Part(held', fate', p) = Chosen(Append(s, e), QueuedBy(fate')) /\ Part(held, fate', p) = Chosen(s, QueuedBy(fate'))
    BY <1>2, <2>1 DEF Part
  <2>7. QED BY <2>3, <2>4, <2>5, <2>6
<1>7. QED BY <1>5, <1>6

LEMMA ReceivesPending ==
  ASSUME TypeOK, TypeOK', PlacesInv, NEW p \in Places, NEW e \in Events, NEW f, fate[e] \in {"new", "given"},
         Receives(p, e, f)
  PROVE  /\ f # "queued" => PendingOf' = PendingOf
         /\ \A t \in Targets : p = Que(t) /\ f = "queued" => PendingOf' = With(PendingOf, t, Append(PendingOf[t], e))
         /\ InPool' = IF f = "pooled" THEN InPool \cup {e} ELSE InPool
<1>1. \A d \in Events : fate'[d] = IF d = e THEN f ELSE fate[d]
  BY DEF Receives, Become, TypeOK
<1>2. InPool' = IF f = "pooled" THEN InPool \cup {e} ELSE InPool
  <2>1. CASE f = "pooled"
    BY <1>1, <2>1 DEF InPool
  <2>2. CASE f # "pooled"
    BY <1>1, <2>2 DEF InPool
  <2>3. QED BY <2>1, <2>2
<1>3. \A q \in Places : Part(held', fate', q) =
        IF q = p /\ f = "queued" THEN Append(Part(held, fate, q), e) ELSE Part(held, fate, q)
  BY ReceivesParts
<1>4. ASSUME f # "queued" PROVE PendingOf' = PendingOf
  BY <1>3, <1>4, PlacesApart, PendingSame
<1>5. ASSUME NEW t \in Targets, p = Que(t), f = "queued"
      PROVE  PendingOf' = With(PendingOf, t, Append(PendingOf[t], e))
  <2>1. /\ \A u, w : (Que(u) = Que(w) <=> u = w) /\ Bat(u) # Que(w)
        /\ \A u \in Targets : Bat(u) \in Places /\ Que(u) \in Places
    BY PlacesApart
  <2>2. \A u \in Targets : u # t => /\ Part(held', fate', Bat(u)) = Part(held, fate, Bat(u))
                                    /\ Part(held', fate', Que(u)) = Part(held, fate, Que(u))
    BY <1>3, <1>5, <2>1
  <2>3. PICK a : a = Part(held, fate, Bat(t))
    OBVIOUS
  <2>4. PICK b : b = Part(held, fate, Que(t))
    OBVIOUS
  <2>5. a \in Seq(Events \cup {Stop}) /\ b \in Seq(Events \cup {Stop}) /\ e \in Events \cup {Stop}
    BY <2>1, <2>3, <2>4, HeldTyped, PartTyped
  <2>6. a \o Append(b, e) = Append(a \o b, e)
    <3>1. <<e>> \in Seq(Events \cup {Stop}) /\ a \o b \in Seq(Events \cup {Stop})
      BY <2>5
    <3>2. Append(b, e) = b \o <<e>> /\ Append(a \o b, e) = (a \o b) \o <<e>>
      BY <2>5, <3>1, AppendIsConcat
    <3>3. (a \o b) \o <<e>> = a \o (b \o <<e>>)
      BY <2>5, <3>1, ConcatAssociative
    <3>4. QED BY <3>2, <3>3
  <2>7. Part(held', fate', Bat(t)) = a /\ Part(held', fate', Que(t)) = Append(b, e)
    BY <1>3, <1>5, <2>1, <2>3, <2>4
  <2>8. Part(held', fate', Bat(t)) \o Part(held', fate', Que(t)) = Append(a \o b, e)
    BY <2>6, <2>7
  <2>9. PendingOf[t] = a \o b
    BY <2>3, <2>4, PendingIs
  <2>10. PendingOf' = With(PendingOf, t, Append(a \o b, e))
    BY <2>2, <2>8, PendingOfOne
  <2>11. QED BY <2>9, <2>10
<1>6. QED BY <1>2, <1>4, <1>5

\* Taking its queue, or the shared one, leaves what is pending for a target.
LEMMA MovesPending ==
  ASSUME TypeOK, TypeOK', PlacesInv, NEW t \in Targets, NEW p \in {Que(t), Que(Stop)}, Moves(p, Bat(t)),
         p = Que(Stop) => \A e \in EventsIn(held[p]) : fate[e] # "queued"
  PROVE  PendingOf' = PendingOf /\ InPool' = InPool
<1>1. held \in [Places -> Seq(Events \cup {Stop})]
  BY HeldTyped
<1>2. /\ \A u, w : (Bat(u) = Bat(w) <=> u = w) /\ (Que(u) = Que(w) <=> u = w) /\ Bat(u) # Que(w)
      /\ \A u \in Targets : Bat(u) \in Places /\ Que(u) \in Places /\ u # Stop
      /\ Que(Stop) \in Places
  BY PlacesApart, Apart
<1>3. /\ fate' = fate /\ held[Bat(t)] = <<>>
      /\ \A q \in Places : held'[q] = IF q = Bat(t) THEN held[p] ELSE IF q = p THEN <<>> ELSE held[q]
  BY <1>1, <1>2 DEF Moves
<1>4. InPool' = InPool
  BY <1>3 DEF InPool
<1>5. \A q \in Places : q # Bat(t) /\ q # p => Part(held', fate', q) = Part(held, fate, q)
  BY <1>3 DEF Part
<1>6. /\ Part(held', fate', Bat(t)) = Part(held, fate, p)
      /\ Part(held, fate, Bat(t)) = <<>> /\ Part(held', fate', p) = <<>>
  <2>1. Part(held', fate', Bat(t)) = Part(held, fate, p)
    BY <1>2, <1>3 DEF Part
  <2>2. held'[p] = <<>>
    BY <1>2, <1>3
  <2>3. QED BY <1>3, <2>1, <2>2, ChosenFromNothing DEF Part
<1>7. \A u \in Targets : u # t => /\ Part(held', fate', Bat(u)) = Part(held, fate, Bat(u))
                                  /\ Part(held', fate', Que(u)) = Part(held, fate, Que(u))
  BY <1>2, <1>5
<1>8. CASE p = Que(t)
  <2>1. PICK a : a = Part(held, fate, Que(t))
    OBVIOUS
  <2>2. a \in Seq(Events \cup {Stop})
    BY <1>1, <1>2, <2>1, PartTyped
  <2>3. a \o <<>> = a /\ <<>> \o a = a
    BY <2>2, ConcatEmptySeq
  <2>4. Part(held', fate', Bat(t)) \o Part(held', fate', Que(t)) = a
    BY <1>6, <1>8, <2>1, <2>3
  <2>5. PendingOf[t] = a
    BY <1>6, <2>1, <2>3, PendingIs
  <2>6. PendingOf' = With(PendingOf, t, a)
    BY <1>7, <2>4, PendingOfOne
  <2>7. With(PendingOf, t, PendingOf[t]) = PendingOf
    BY PendingFunction DEF With
  <2>8. QED BY <1>4, <2>5, <2>6, <2>7
<1>9. CASE p = Que(Stop)
  <2>1. Part(held, fate, p) = <<>>
    BY <1>1, <1>2, <1>9, PartNone
  <2>2. Part(held', fate', Bat(t)) = Part(held, fate, Bat(t))
    BY <1>6, <2>1
  <2>3. Part(held', fate', Que(t)) = Part(held, fate, Que(t))
    BY <1>2, <1>5, <1>9
  <2>4. QED BY <1>4, <1>7, <2>2, <2>3, PendingSame
<1>10. QED BY <1>8, <1>9

LEMMA OneBefore ==
  ASSUME NEW T, NEW x \in T, NEW s \in Seq(T)
  PROVE  <<x>> \o s # <<>> /\ Head(<<x>> \o s) = x /\ Tail(<<x>> \o s) = s
<1>1. PICK r : r = <<x>>
  OBVIOUS
<1>2. r \in Seq(T) /\ Len(r) = 1 /\ r[1] = x
  BY <1>1
<1>3. PICK n : n = Len(s)
  OBVIOUS
<1>4. n \in Nat
  BY <1>3
<1>5. PICK q : q = r \o s
  OBVIOUS
<1>6. q \in Seq(T) /\ Len(q) = 1 + n /\ \A i \in 1..(1 + n) : q[i] = IF i <= 1 THEN r[i] ELSE s[i - 1]
  <2>1. /\ q \in Seq(T) /\ Len(q) = Len(r) + Len(s)
        /\ \A i \in 1..(Len(r) + Len(s)) : q[i] = IF i <= Len(r) THEN r[i] ELSE s[i - Len(r)]
    BY <1>2, <1>5, ConcatProperties
  <2>2. QED BY <1>2, <1>3, <2>1
<1>7. q # <<>> /\ Head(q) = x
  <2>1. q # <<>>
    BY <1>4, <1>6
  <2>2. q[1] = x
    BY <1>2, <1>4, <1>6
  <2>3. QED BY <1>6, <2>1, <2>2
<1>8. Tail(q) = s
  <2>1. PICK t : t = Tail(q)
    OBVIOUS
  <2>2. t \in Seq(T) /\ Len(t) = n /\ \A i \in 1..n : t[i] = q[i + 1]
    BY <1>4, <1>6, <1>7, <2>1
  <2>3. ASSUME NEW i \in 1..n PROVE t[i] = s[i]
    <3>1. i + 1 \in 1..(1 + n) /\ ~(i + 1 <= 1) /\ (i + 1) - 1 = i
      BY <1>4
    <3>2. QED BY <1>6, <2>2, <3>1
  <2>4. t = s
    BY <1>3, <2>2, <2>3, SeqEqual
  <2>5. QED BY <2>1, <2>4
<1>9. QED BY <1>1, <1>5, <1>7, <1>8

\* The first event of a place goes: it was the first of what was pending there, or was not pending.
LEMMA LosesParts ==
  ASSUME TypeOK, PlacesInv, NEW p \in Places, NEW f, f # "queued", Loses(p, f), NEW x, x = Head(held[p])
  PROVE  /\ \A q \in Places : q # p => Part(held', fate', q) = Part(held, fate, q)
         /\ Part(held, fate, p) = IF x \in QueuedBy(fate) THEN <<x>> \o Part(held', fate', p)
                                  ELSE Part(held', fate', p)
         /\ x \in Events \cup {Stop}
<1>1. held \in [Places -> Seq(Events \cup {Stop})]
  BY HeldTyped
<1>2. \A q \in Places : held'[q] = IF q = p THEN Tail(held[p]) ELSE held[q]
  BY <1>1 DEF Loses
<1>3. /\ x \in Events \cup {Stop}
      /\ \A q \in Places : EventsIn(held'[q]) = EventsIn(held[q]) \ {x}
      /\ \A d \in Events : fate'[d] = IF d = x THEN f ELSE fate[d]
  BY LosesIs DEF PlacesInv
<1>4. ASSUME NEW q \in Places, q # p PROVE Part(held', fate', q) = Part(held, fate, q)
  <2>1. held'[q] = held[q]
    BY <1>2, <1>4
  <2>2. \A d \in EventsIn(held[q]) : fate'[d] = "queued" <=> fate[d] = "queued"
    BY <1>3, <2>1 DEF EventsIn
  <2>3. QED BY <1>1, <2>1, <2>2, PartSame
<1>5. PICK s : s = held[p]
  OBVIOUS
<1>6. s \in Seq(Events \cup {Stop}) /\ s # <<>> /\ Head(s) = x
  BY <1>1, <1>5 DEF Loses
<1>7. PICK r : r = Tail(s)
  OBVIOUS
<1>8. r \in Seq(Events \cup {Stop})
  BY <1>6, <1>7
<1>9. Chosen(s, QueuedBy(fate)) = IF x \in QueuedBy(fate) THEN <<x>> \o Chosen(r, QueuedBy(fate))
                                  ELSE Chosen(r, QueuedBy(fate))
  BY <1>6, <1>7, FirstOf
<1>10. held'[p] = r
  BY <1>2, <1>5, <1>7
<1>11. Chosen(r, QueuedBy(fate')) = Chosen(r, QueuedBy(fate))
  <2>1. \A d \in Elements(r) : d \in QueuedBy(fate') <=> d \in QueuedBy(fate)
    <3>1. EventsIn(r) = EventsIn(s) \ {x}
      BY <1>3, <1>5, <1>10
    <3>2. \A d \in Elements(r) : d \in Events => d # x
      BY <3>1 DEF EventsIn
    <3>3. QED BY <1>3, <3>2 DEF QueuedBy
  <2>2. QED BY <1>8, <2>1, ChosenAlike
<1>12. Part(held, fate, p) = Chosen(s, QueuedBy(fate)) /\ Part(held', fate', p) = Chosen(r, QueuedBy(fate'))
  BY <1>5, <1>10 DEF Part
<1>13. QED BY <1>3, <1>4, <1>9, <1>11, <1>12

LEMMA LosesPending ==
  ASSUME TypeOK, TypeOK', PlacesInv, NEW t \in Targets, NEW p \in {Bat(t), Que(t)},
         p = Que(t) => held[Bat(t)] = <<>>,
         NEW f, f \notin {"queued", "pooled"}, Loses(p, f), NEW x, x = Head(held[p])
  PROVE  /\ x \in Events \cup {Stop}
         /\ x \in Events /\ fate[x] = "queued" =>
              PendingOf[t] # <<>> /\ Head(PendingOf[t]) = x /\ PendingOf' = With(PendingOf, t, Tail(PendingOf[t]))
         /\ ~(x \in Events /\ fate[x] = "queued") => PendingOf' = PendingOf
         /\ InPool' = InPool \ {x}
<1>1. held \in [Places -> Seq(Events \cup {Stop})] /\ held' \in [Places -> Seq(Events \cup {Stop})]
  <2>1. held \in [Places -> Seq(Events \cup {Stop})]
    BY HeldTyped
  <2>2. Que(t) \in Places /\ Bat(t) \in Places
    BY PlacesApart
  <2>3. held[p] \in Seq(Events \cup {Stop}) /\ held[p] # <<>>
    BY <2>1, <2>2 DEF Loses
  <2>4. PICK r : r = Tail(held[p])
    OBVIOUS
  <2>5. r \in Seq(Events \cup {Stop}) /\ held' = [held EXCEPT ![p] = r]
    BY <2>3, <2>4 DEF Loses
  <2>6. QED BY <2>1, <2>5
<1>2. /\ \A u, w : (Bat(u) = Bat(w) <=> u = w) /\ (Que(u) = Que(w) <=> u = w) /\ Bat(u) # Que(w)
      /\ \A u \in Targets : Bat(u) \in Places /\ Que(u) \in Places
      /\ p \in Places
  BY PlacesApart
<1>3. /\ \A q \in Places : q # p => Part(held', fate', q) = Part(held, fate, q)
      /\ Part(held, fate, p) = IF x \in QueuedBy(fate) THEN <<x>> \o Part(held', fate', p)
                               ELSE Part(held', fate', p)
      /\ x \in Events \cup {Stop}
  BY <1>2, LosesParts
<1>4. InPool' = InPool \ {x}
  <2>1. \A d \in Events : fate'[d] = IF d = x THEN f ELSE fate[d]
    BY <1>2, LosesIs DEF PlacesInv
  <2>2. QED BY <2>1 DEF InPool
<1>5. x \in QueuedBy(fate) <=> x \in Events /\ fate[x] = "queued"
  BY DEF QueuedBy
<1>6. PICK a : a = Part(held', fate', Bat(t))
  OBVIOUS
<1>7. PICK b : b = Part(held', fate', Que(t))
  OBVIOUS
<1>8. a \in Seq(Events \cup {Stop}) /\ b \in Seq(Events \cup {Stop})
  BY <1>1, <1>2, <1>6, <1>7, PartTyped
<1>9. /\ a \o b \in Seq(Events \cup {Stop}) /\ <<x>> \in Seq(Events \cup {Stop})
      /\ (<<x>> \o a) \o b = <<x>> \o (a \o b)
      /\ <<>> \o b = b /\ <<>> \o (<<x>> \o b) = <<x>> \o b
  <2>1. a \o b \in Seq(Events \cup {Stop}) /\ <<x>> \in Seq(Events \cup {Stop}) /\ <<x>> \o b \in Seq(Events \cup {Stop})
    BY <1>3, <1>8
  <2>2. (<<x>> \o a) \o b = <<x>> \o (a \o b)
    <3>1. PICK y : y = <<x>>
      OBVIOUS
    <3>2. (y \o a) \o b = y \o (a \o b)
      BY <1>8, <2>1, <3>1, ConcatAssociative
    <3>3. QED BY <3>1, <3>2
  <2>3. <<>> \o b = b /\ <<>> \o (<<x>> \o b) = <<x>> \o b
    BY <1>8, <2>1, ConcatEmptySeq
  <2>4. QED BY <2>1, <2>2, <2>3
<1>10. \A u \in Targets : u # t => /\ Part(held', fate', Bat(u)) = Part(held, fate, Bat(u))
                                   /\ Part(held', fate', Que(u)) = Part(held, fate, Que(u))
  BY <1>2, <1>3
<1>11. PendingOf' = With(PendingOf, t, a \o b)
  BY <1>6, <1>7, <1>10, PendingOfOne
<1>12. PendingOf[t] = IF x \in QueuedBy(fate) THEN <<x>> \o (a \o b) ELSE a \o b
  <2>1. PendingOf[t] = Part(held, fate, Bat(t)) \o Part(held, fate, Que(t))
    BY PendingIs
  <2>2. CASE p = Bat(t)
    <3>1. Part(held, fate, Que(t)) = b
      BY <1>2, <1>3, <1>7, <2>2
    <3>2. Part(held, fate, Bat(t)) = IF x \in QueuedBy(fate) THEN <<x>> \o a ELSE a
      BY <1>3, <1>6, <2>2
    <3>3. QED BY <1>9, <2>1, <3>1, <3>2
  <2>3. CASE p = Que(t)
    <3>1. Part(held, fate, Bat(t)) = <<>>
      <4>1. held[Bat(t)] = <<>> /\ Bat(t) \in Places
        BY <1>2, <2>3
      <4>2. QED BY <1>1, <4>1, PartTyped
    <3>2. a = <<>>
      BY <1>2, <1>3, <1>6, <2>3, <3>1
    <3>3. Part(held, fate, Que(t)) = IF x \in QueuedBy(fate) THEN <<x>> \o b ELSE b
      BY <1>3, <1>7, <2>3
    <3>4. QED BY <1>9, <2>1, <3>1, <3>2, <3>3
  <2>4. QED BY <2>2, <2>3
<1>13. ASSUME x \in QueuedBy(fate)
       PROVE  PendingOf[t] # <<>> /\ Head(PendingOf[t]) = x /\ PendingOf' = With(PendingOf, t, Tail(PendingOf[t]))
  <2>1. PICK s : s = a \o b
    OBVIOUS
  <2>2. s \in Seq(Events \cup {Stop}) /\ PendingOf[t] = <<x>> \o s
    BY <1>9, <1>12, <1>13, <2>1
  <2>3. <<x>> \o s # <<>> /\ Head(<<x>> \o s) = x /\ Tail(<<x>> \o s) = s
    BY <1>3, <2>2, OneBefore
  <2>4. QED BY <1>11, <2>1, <2>2, <2>3
<1>14. ASSUME x \notin QueuedBy(fate) PROVE PendingOf' = PendingOf
  <2>1. PendingOf' = With(PendingOf, t, PendingOf[t])
    BY <1>11, <1>12, <1>14
  <2>2. With(PendingOf, t, PendingOf[t]) = PendingOf
    BY PendingFunction DEF With
  <2>3. QED BY <2>1, <2>2
<1>15. QED BY <1>3, <1>4, <1>5, <1>13, <1>14

\* The dispatching thread's queue is emptied, or the shared one.
LEMMA EmptiesPending ==
  ASSUME TypeOK, TypeOK', PlacesInv, NEW p \in Places, Empties(p)
  PROVE  /\ (\A e \in EventsIn(held[p]) : fate[e] = "pooled") /\ p = Que(Stop) =>
              PendingOf' = PendingOf /\ InPool' = InPool \ EventsIn(held[p])
         /\ \A t \in Targets : p = Que(t) /\ held[Bat(t)] = <<>> /\ (\A e \in EventsIn(held[p]) : fate[e] = "queued") =>
              /\ PendingOf' = With(PendingOf, t, <<>>) /\ InPool' = InPool
              /\ Elements(PendingOf[t]) = EventsIn(held[p])
<1>1. held \in [Places -> Seq(Events \cup {Stop})]
  BY HeldTyped
<1>2. /\ \A q \in Places : held'[q] = IF q = p THEN <<>> ELSE held[q]
      /\ \A d \in Events : fate'[d] = IF d \in EventsIn(held[p]) THEN "cancelled" ELSE fate[d]
  BY <1>1 DEF Empties
<1>3. /\ \A u, w : (Bat(u) = Bat(w) <=> u = w) /\ (Que(u) = Que(w) <=> u = w) /\ Bat(u) # Que(w)
      /\ \A u \in Targets : Bat(u) \in Places /\ Que(u) \in Places /\ u # Stop
      /\ Que(Stop) \in Places
  BY PlacesApart, Apart
<1>4. ASSUME NEW q \in Places, q # p PROVE Part(held', fate', q) = Part(held, fate, q)
  <2>1. held'[q] = held[q]
    BY <1>2, <1>4
  <2>2. \A d \in EventsIn(held[q]) : d \in Events /\ d \notin EventsIn(held[p])
    BY <1>4 DEF PlacesInv, Sole, EventsIn
  <2>3. \A d \in EventsIn(held[q]) : fate'[d] = "queued" <=> fate[d] = "queued"
    BY <1>2, <2>2
  <2>4. QED BY <1>1, <2>1, <2>3, PartSame
<1>5. ASSUME \A e \in EventsIn(held[p]) : fate[e] = "pooled", p = Que(Stop)
      PROVE  PendingOf' = PendingOf /\ InPool' = InPool \ EventsIn(held[p])
  <2>1. \A u \in Targets : /\ Part(held', fate', Bat(u)) = Part(held, fate, Bat(u))
                           /\ Part(held', fate', Que(u)) = Part(held, fate, Que(u))
    BY <1>3, <1>4, <1>5
  <2>2. InPool' = InPool \ EventsIn(held[p])
    BY <1>2 DEF InPool
  <2>3. QED BY <2>1, <2>2, PendingSame
<1>6. ASSUME NEW t \in Targets, p = Que(t), held[Bat(t)] = <<>>,
             \A e \in EventsIn(held[p]) : fate[e] = "queued"
      PROVE  /\ PendingOf' = With(PendingOf, t, <<>>) /\ InPool' = InPool
             /\ Elements(PendingOf[t]) = EventsIn(held[p])
  <2>1. \A u \in Targets : u # t => /\ Part(held', fate', Bat(u)) = Part(held, fate, Bat(u))
                                    /\ Part(held', fate', Que(u)) = Part(held, fate, Que(u))
    BY <1>3, <1>4, <1>6
  <2>2. Part(held', fate', Bat(t)) = <<>> /\ Part(held, fate, Bat(t)) = <<>> /\ Part(held', fate', Que(t)) = <<>>
    BY <1>2, <1>3, <1>6, ChosenFromNothing DEF Part
  <2>3. <<>> \o <<>> = <<>>
    OBVIOUS
  <2>4. PendingOf' = With(PendingOf, t, <<>>)
    BY <2>1, <2>2, <2>3, PendingOfOne
  <2>5. InPool' = InPool
    <3>1. \A d \in Events : fate'[d] = "pooled" <=> fate[d] = "pooled"
      BY <1>2, <1>6
    <3>2. QED BY <3>1 DEF InPool
  <2>6. PICK q : q = held[p]
    OBVIOUS
  <2>7. q \in Seq(Events \cup {Stop})
    BY <1>1, <2>6
  <2>8. PICK c : c = Chosen(q, QueuedBy(fate))
    OBVIOUS
  <2>9. c \in Seq(Events \cup {Stop}) /\ Elements(c) = Elements(q) \cap QueuedBy(fate)
    BY <2>7, <2>8, ChosenTyped, ElementsOfChosen
  <2>10. Elements(q) \cap QueuedBy(fate) = EventsIn(q)
    BY <1>6, <2>6 DEF EventsIn, QueuedBy
  <2>11. PendingOf[t] = c
    <3>1. Part(held, fate, Que(t)) = c
      BY <1>6, <2>6, <2>8 DEF Part
    <3>2. <<>> \o c = c
      BY <2>9, ConcatEmptySeq
    <3>3. QED BY <2>2, <3>1, <3>2, PendingIs
  <2>12. QED BY <2>4, <2>5, <2>6, <2>9, <2>10, <2>11
<1>7. QED BY <1>5, <1>6

-----------------------------------------------------------------------------
(* The steps of Executor. *)

\* The phase and the closed targets of Executor.
Phase == IF main = "start" THEN "new" ELSE IF bLoopRunning THEN "running" ELSE "stopped"

ClosedSet == {l \in Loops : Closed(l)}
             \cup (IF main \in {"last", "release", "done", "gone"} THEN {Main} ELSE {})
             \cup (IF main \in {"release", "done", "gone"} THEN {Stop} ELSE {})

LEMMA Stutters ==
  ASSUME Phase' = Phase, PendingOf' = PendingOf, InPool' = InPool, ClosedSet' = ClosedSet, fate' = fate
  PROVE  UNCHANGED E!executorVars
BY DEF E!executorVars, Phase, PendingOf, ClosedSet

LEMMA StartIs ==
  ASSUME Phase = "new", Phase' = "running", PendingOf' = PendingOf, InPool' = InPool,
         ClosedSet' = ClosedSet, fate' = fate
  PROVE  E!Next
<1>1. E!Start
  BY DEF E!Start, Phase, PendingOf, ClosedSet
<1>2. QED BY <1>1 DEF E!Next

LEMMA HaltIs ==
  ASSUME Phase = "running", Phase' = "stopped", PendingOf' = PendingOf, InPool' = InPool,
         ClosedSet' = ClosedSet, fate' = fate
  PROVE  E!Next
<1>1. E!Halt
  BY DEF E!Halt, Phase, PendingOf, ClosedSet
<1>2. QED BY <1>1 DEF E!Next

LEMMA OfferIs ==
  ASSUME NEW e \in Events, fate[e] = "new", Become(e, IF Phase = "running" THEN "given" ELSE "cancelled"),
         Phase' = Phase, PendingOf' = PendingOf, InPool' = InPool, ClosedSet' = ClosedSet
  PROVE  E!Next
<1>1. E!Offer(e)
  BY DEF E!Offer, E!Become, Become, Phase, PendingOf, ClosedSet
<1>2. QED BY <1>1 DEF E!Next

LEMMA GivePoolIs ==
  ASSUME NEW e \in Events, fate[e] = "given",
         \/ Become(e, "pooled") /\ InPool' = InPool \cup {e}
         \/ Become(e, "late") /\ Stop \in ClosedSet /\ InPool' = InPool,
         Phase' = Phase, PendingOf' = PendingOf, ClosedSet' = ClosedSet
  PROVE  E!Next
<1>1. E!GivePool(e)
  BY DEF E!GivePool, E!Become, Become, Phase, PendingOf, ClosedSet
<1>2. QED BY <1>1 DEF E!Next

LEMMA GiveIs ==
  ASSUME NEW e \in Events, NEW t \in Targets, fate[e] = "new",
         IF t \in ClosedSet THEN Become(e, "late") /\ PendingOf' = PendingOf
         ELSE Become(e, "queued") /\ PendingOf' = With(PendingOf, t, Append(PendingOf[t], e)),
         Phase' = Phase, InPool' = InPool, ClosedSet' = ClosedSet
  PROVE  E!Next
<1>1. E!Give(e, t)
  BY DEF E!Give, E!Become, Become, Phase, PendingOf, ClosedSet, With
<1>2. QED BY <1>1 DEF E!Next, Targets

LEMMA HandleDirectlyIs ==
  ASSUME NEW e \in Events, fate[e] = "new", Become(e, IF Phase = "running" THEN "worked" ELSE "cancelled"),
         Phase' = Phase, PendingOf' = PendingOf, InPool' = InPool, ClosedSet' = ClosedSet
  PROVE  E!Next
<1>1. E!HandleDirectly(e)
  BY DEF E!HandleDirectly, E!Outcome, E!Become, Become, Phase, PendingOf, ClosedSet
<1>2. QED BY <1>1 DEF E!Next

LEMMA HandleIs ==
  ASSUME NEW t \in Targets, PendingOf[t] # <<>>,
         Become(Head(PendingOf[t]), IF Phase = "running" THEN "worked" ELSE "cancelled"),
         PendingOf' = With(PendingOf, t, Tail(PendingOf[t])),
         Phase' = Phase, InPool' = InPool, ClosedSet' = ClosedSet
  PROVE  E!Next
<1>1. E!Handle(t)
  BY DEF E!Handle, E!Outcome, E!Become, Become, Phase, PendingOf, ClosedSet, With
<1>2. QED BY <1>1 DEF E!Next, Targets

LEMMA HandlePoolIs ==
  ASSUME NEW e \in Events, e \in InPool, Become(e, IF Phase = "running" THEN "worked" ELSE "cancelled"),
         InPool' = InPool \ {e}, Phase' = Phase, PendingOf' = PendingOf, ClosedSet' = ClosedSet
  PROVE  E!Next
<1>1. E!HandlePool(e)
  BY DEF E!HandlePool, E!Outcome, E!Become, Become, Phase, PendingOf, ClosedSet
<1>2. QED BY <1>1 DEF E!Next

LEMMA DrainIs ==
  ASSUME NEW t \in Targets, Phase = "stopped", NEW S, S = Elements(PendingOf[t]),
         fate' = [e \in Events |-> IF e \in S THEN "cancelled" ELSE fate[e]],
         PendingOf' = With(PendingOf, t, <<>>), ClosedSet' = ClosedSet \cup {t},
         Phase' = Phase, InPool' = InPool
  PROVE  E!Next
<1>1. E!Drain(t)
  BY DEF E!Drain, E!CancelAll, Elements, Phase, PendingOf, ClosedSet, With
<1>2. QED BY <1>1 DEF E!Next, Targets

LEMMA DrainPoolIs ==
  ASSUME Phase = "stopped", fate' = [e \in Events |-> IF e \in InPool THEN "cancelled" ELSE fate[e]],
         InPool' = {}, ClosedSet' = ClosedSet \cup {Stop}, Phase' = Phase, PendingOf' = PendingOf
  PROVE  E!Next
<1>1. E!DrainPool
  BY DEF E!DrainPool, E!CancelAll, Phase, PendingOf, ClosedSet
<1>2. QED BY <1>1 DEF E!Next

LEMMA CancelLateIs ==
  ASSUME NEW e \in Events, fate[e] = "late", Become(e, "cancelled"),
         Phase' = Phase, PendingOf' = PendingOf, InPool' = InPool, ClosedSet' = ClosedSet
  PROVE  E!Next
<1>1. E!CancelLate(e)
  BY DEF E!CancelLate, E!Become, Become, Phase, PendingOf, ClosedSet
<1>2. QED BY <1>1 DEF E!Next

LEMMA CloseIs ==
  ASSUME NEW t \in Targets, Phase = "stopped", ClosedSet' = ClosedSet \cup {t},
         Phase' = Phase, PendingOf' = PendingOf, InPool' = InPool, fate' = fate
  PROVE  E!Next
<1>1. E!Close(t)
  BY DEF E!Close, Phase, PendingOf, ClosedSet
<1>2. QED BY <1>1 DEF E!Next, Targets

-----------------------------------------------------------------------------

LEMMA PhaseIs ==
  ASSUME EndInv
  PROVE  /\ Phase = "running" <=> bLoopRunning
         /\ Stopped => Phase = "stopped"
         /\ Outcome = IF Phase = "running" THEN "worked" ELSE "cancelled"
BY DEF EndInv, Phase, Stopped, Outcome

LEMMA ClosedIs ==
  /\ \A l \in Loops : l \in ClosedSet <=> Closed(l)
  /\ Main \in ClosedSet <=> main \in Left
  /\ Stop \in ClosedSet <=> main \in Left \ {"last"}
<1>1. Main \notin Loops /\ Stop # Main /\ Stop \notin Loops
  BY Apart
<1>2. QED BY <1>1 DEF ClosedSet, Left

LEMMA CallRefines ==
  ASSUME EventInv, TypeOK', NEW c \in Callers, Begin(c) \/ CallNext(c)
  PROVE  E!Next \/ UNCHANGED E!executorVars
<1>1. TypeOK /\ PlacesInv /\ EndInv /\ RefInv /\ CallingInv /\ PostInv
  BY DEF EventInv, OrderInv
<1>2. UNCHANGED <<loop, main>>
  BY CallLeaves
<1>3. ClosedSet' = ClosedSet
  BY <1>2 DEF ClosedSet, Closed
<1>4. ~CallStop(c) => bLoopRunning' = bLoopRunning
  BY DEF Begin, PostCheck, QueueInMain, RunHere, QueueInLoop, CallNext, PostInsert, PostWrite,
         NotifyLoad, NotifyStore, NotifyWrite, StopInsert
<1>5. ~CallStop(c) => Phase' = Phase
  BY <1>2, <1>4 DEF Phase
<1>6. /\ Que(Stop) \in Places /\ Que(Main) \in Places /\ \A l \in Loops : Que(l) \in Places
      /\ Main \in Targets /\ \A l \in Loops : l \in Targets
  BY PlacesApart, Apart
<1>7. CASE CallStop(c)
  <2>1. Keeps
    BY <1>1, <1>7, CallsMove
  <2>2. PendingOf' = PendingOf /\ InPool' = InPool /\ fate' = fate
    BY <1>1, <2>1, KeepsPending DEF Keeps
  <2>3. bLoopRunning /\ bLoopRunning' = FALSE
    BY <1>7 DEF CallStop
  <2>4. Phase = "running" /\ Phase' = "stopped"
    BY <1>1, <1>2, <2>3 DEF Phase, EndInv
  <2>5. QED BY <1>3, <2>2, <2>4, HaltIs
<1>8. CASE ~CallStop(c)
  <2>1. Phase' = Phase
    BY <1>5, <1>8
  <2>2. CASE PostWrite(c) \/ NotifyLoad(c) \/ NotifyStore(c) \/ NotifyWrite(c)
    <3>1. Keeps
      BY <1>1, <2>2, CallsMove
    <3>2. QED BY <1>1, <1>3, <2>1, <3>1, KeepsPending, Stutters DEF Keeps
  <2>3. CASE StopInsert(c)
    <3>1. PICK p \in Places : ReceivesStop(p)
      BY <1>1, <1>6, <2>3, CallsMove
    <3>2. PendingOf' = PendingOf /\ InPool' = InPool /\ fate' = fate
      BY <1>1, <3>1, ReceivesStopPending DEF ReceivesStop
    <3>3. QED BY <1>3, <2>1, <3>2, Stutters
  <2>4. CASE PostInsert(c)
    <3>1. PICK f : f = IF main \in {"release", "done"} THEN "late" ELSE "pooled"
      OBVIOUS
    <3>2. PICK e \in Events : e = call[c].item
      BY <1>1, <2>4, CallsMove
    <3>3. Receives(Que(Stop), e, f)
      BY <1>1, <2>4, <3>1, <3>2, CallsMove
    <3>4. fate[e] = "given"
      BY <1>1, <2>4, <3>2 DEF PostInsert, PostInv
    <3>5. PendingOf' = PendingOf /\ InPool' = IF f = "pooled" THEN InPool \cup {e} ELSE InPool
      BY <1>1, <1>6, <3>1, <3>3, <3>4, ReceivesPending
    <3>6. Become(e, f)
      BY <3>3 DEF Receives
    <3>7. f = "late" => Stop \in ClosedSet
      BY <3>1, ClosedIs DEF Left
    <3>8. QED BY <1>3, <2>1, <3>1, <3>4, <3>5, <3>6, <3>7, GivePoolIs
  <2>5. ASSUME NEW e \in Events, PostCheck(c, e) PROVE E!Next
    <3>1. PICK f : f = IF bLoopRunning THEN "given" ELSE "cancelled"
      OBVIOUS
    <3>2. Decides(e, f) /\ f \notin {"queued", "pooled"}
      BY <1>1, <2>5, <3>1, CallsMove
    <3>3. fate[e] = "new"
      BY <2>5 DEF PostCheck
    <3>4. PendingOf' = PendingOf /\ InPool' = InPool
      BY <1>1, <3>2, <3>3, DecidesPending
    <3>5. Become(e, IF Phase = "running" THEN "given" ELSE "cancelled")
      BY <1>1, <3>1, <3>2, PhaseIs DEF Decides
    <3>6. QED BY <1>3, <2>1, <3>3, <3>4, <3>5, OfferIs
  <2>6. ASSUME NEW e \in Events, RunHere(c, e) PROVE E!Next
    <3>1. Decides(e, Outcome) /\ Outcome \notin {"queued", "pooled"}
      BY <1>1, <2>6, CallsMove DEF Outcome
    <3>2. fate[e] = "new"
      BY <2>6 DEF RunHere
    <3>3. PendingOf' = PendingOf /\ InPool' = InPool
      BY <1>1, <3>1, <3>2, DecidesPending
    <3>4. Become(e, IF Phase = "running" THEN "worked" ELSE "cancelled")
      BY <1>1, <3>1, PhaseIs DEF Decides
    <3>5. QED BY <1>3, <2>1, <3>2, <3>3, <3>4, HandleDirectlyIs
  <2>7. ASSUME NEW e \in Events, QueueInMain(c, e) PROVE E!Next
    <3>1. PICK f : f = IF main \in {"last", "release", "done"} THEN "late" ELSE "queued"
      OBVIOUS
    <3>2. Receives(Que(Main), e, f)
      BY <1>1, <2>7, <3>1, CallsMove
    <3>3. fate[e] = "new" /\ MayCall(c)
      BY <2>7 DEF QueueInMain
    <3>4. main # "gone"
      BY <1>1, <3>3, NotGone
    <3>5. f = IF Main \in ClosedSet THEN "late" ELSE "queued"
      BY <3>1, <3>4, ClosedIs DEF Left
    <3>6. /\ f # "queued" => PendingOf' = PendingOf
          /\ f = "queued" => PendingOf' = With(PendingOf, Main, Append(PendingOf[Main], e))
          /\ InPool' = InPool
      BY <1>1, <1>6, <3>1, <3>2, <3>3, ReceivesPending
    <3>7. Become(e, f)
      BY <3>2 DEF Receives
    <3>8. QED BY <1>3, <1>6, <2>1, <3>3, <3>5, <3>6, <3>7, GiveIs
  <2>8. ASSUME NEW e \in Events, NEW l \in Loops, QueueInLoop(c, e, l) PROVE E!Next
    <3>1. PICK f : f = IF Closed(l) THEN "late" ELSE "queued"
      OBVIOUS
    <3>2. Receives(Que(l), e, f) \/ (Closed(l) /\ Decides(e, "late"))
      BY <1>1, <2>8, <3>1, CallsMove
    <3>3. fate[e] = "new"
      BY <2>8 DEF QueueInLoop
    <3>4. f = IF l \in ClosedSet THEN "late" ELSE "queued"
      BY <3>1, ClosedIs
    <3>5. CASE Receives(Que(l), e, f)
      <4>1. /\ f # "queued" => PendingOf' = PendingOf
            /\ f = "queued" => PendingOf' = With(PendingOf, l, Append(PendingOf[l], e))
            /\ InPool' = InPool
        BY <1>1, <1>6, <3>1, <3>3, <3>5, ReceivesPending
      <4>2. Become(e, f)
        BY <3>5 DEF Receives
      <4>3. QED BY <1>3, <1>6, <2>1, <3>3, <3>4, <4>1, <4>2, GiveIs
    <3>6. CASE Closed(l) /\ Decides(e, "late")
      <4>1. PendingOf' = PendingOf /\ InPool' = InPool
        BY <1>1, <3>3, <3>6, DecidesPending
      <4>2. l \in ClosedSet /\ Become(e, "late")
        BY <3>6, ClosedIs DEF Decides
      <4>3. QED BY <1>3, <1>6, <2>1, <3>3, <4>1, <4>2, GiveIs
    <3>7. QED BY <3>2, <3>5, <3>6
  <2>9. QED BY <1>8, <2>2, <2>3, <2>4, <2>5, <2>6, <2>7, <2>8 DEF Begin, CallNext
<1>9. QED BY <1>7, <1>8

\* Taking Stop out of its place handles nothing.
LEMMA StopIsNowhere == ASSUME NEW e, e \in InPool PROVE e # Stop
BY StopIsNoEvent DEF InPool

LEMMA LoopRefines ==
  ASSUME EventInv, TypeOK', NEW l \in Loops, LoopNext(l)
  PROVE  E!Next \/ UNCHANGED E!executorVars
<1> USE DEF mainVars, loopVars, Goto, Dispatching
<1>1. TypeOK /\ PlacesInv /\ BatchesDone /\ EndInv /\ RefInv
  BY DEF EventInv, OrderInv
<1>2. UNCHANGED <<main, bLoopRunning>>
  BY DEF LoopNext, Poll, WakeRead, WakeStore, Take, PoolRead, TakePool, Run, WorkEnds, PollAgain,
         ClearCancel, Close, LoopStop, LoopRelease
<1>3. Phase' = Phase
  BY <1>2 DEF Phase
<1>4. /\ Que(Stop) \in Places /\ Que(Main) \in Places /\ Que(l) \in Places /\ Bat(l) \in Places
      /\ Que(Stop) # Que(l) /\ l \in Targets
  BY PlacesApart, Apart
<1>5. \A k \in Loops : k # l => Closed(k)' = Closed(k)
  <2>1. \A k \in Loops : k # l => loop'[k] = loop[k]
    BY <1>1 DEF TypeOK, LoopNext, Poll, WakeRead, WakeStore, Take, PoolRead, TakePool, Run, WorkEnds,
           PollAgain, ClearCancel, Close, LoopStop, LoopRelease
  <2>2. QED BY <2>1 DEF Closed
<1>6. Closed(l)' = Closed(l) => ClosedSet' = ClosedSet
  BY <1>2, <1>5 DEF ClosedSet
<1>7. ASSUME ~(PollAgain(l) /\ ~loopRunning[l]) PROVE Closed(l)' = Closed(l)
  <2>1. \A at : loop' = [loop EXCEPT ![l] = at] => loop'[l] = at
    BY <1>1 DEF TypeOK
  <2>2. CASE Poll(l) \/ WakeRead(l) \/ WakeStore(l) \/ Take(l) \/ PoolRead(l) \/ TakePool(l)
             \/ Run(l) \/ WorkEnds(l) \/ PollAgain(l)
    <3>1. ~Closed(l)
      BY <2>2 DEF Closed, Poll, WakeRead, WakeStore, Take, PoolRead, TakePool, Run, WorkEnds, PollAgain
    <3>2. loop'[l] \in {"poll", "woken", "take", "takePool", "run", "work"}
      BY <1>7, <2>1, <2>2 DEF Poll, WakeRead, WakeStore, Take, PoolRead, TakePool, Run, WorkEnds,
                              PollAgain
    <3>3. ~Closed(l)'
      BY <3>2 DEF Closed
    <3>4. QED BY <3>1, <3>3 DEF Closed
  <2>3. CASE ClearCancel(l) \/ Close(l) \/ LoopStop(l) \/ LoopRelease(l)
    <3>1. Closed(l)
      BY <2>3 DEF Closed, ClearCancel, Close, LoopStop, LoopRelease
    <3>2. loop'[l] \in {"clear", "fnStop", "release", "gone"}
      BY <2>1, <2>3 DEF ClearCancel, Close, LoopStop, LoopRelease
    <3>3. Closed(l)'
      BY <3>2 DEF Closed
    <3>4. QED BY <3>1, <3>3 DEF Closed
  <2>4. QED BY <2>2, <2>3 DEF LoopNext
<1>8. CASE PollAgain(l) /\ ~loopRunning[l]
  <2>1. Keeps
    BY <1>1, <1>8, LoopsMove
  <2>2. PendingOf' = PendingOf /\ InPool' = InPool /\ fate' = fate
    BY <1>1, <2>1, KeepsPending DEF Keeps
  <2>3. Phase = "stopped"
    <3>1. loop[l] # "off"
      BY <1>8 DEF PollAgain
    <3>2. QED BY <1>1, <1>8, <3>1, PhaseIs DEF EndInv
  <2>4. Closed(l)'
    BY <1>1, <1>8 DEF PollAgain, Closed, TypeOK
  <2>5. ClosedSet' = ClosedSet \cup {l}
    BY <1>2, <1>5, <2>4 DEF ClosedSet
  <2>6. QED BY <1>3, <1>4, <2>2, <2>3, <2>5, CloseIs
<1>9. CASE ~(PollAgain(l) /\ ~loopRunning[l])
  <2>1. ClosedSet' = ClosedSet
    BY <1>6, <1>7, <1>9
  <2>2. CASE Poll(l) \/ WakeRead(l) \/ WakeStore(l) \/ PoolRead(l) \/ WorkEnds(l) \/ PollAgain(l)
             \/ Close(l) \/ LoopRelease(l)
    <3>1. Keeps
      BY <1>1, <2>2, LoopsMove
    <3>2. PendingOf' = PendingOf /\ InPool' = InPool /\ fate' = fate
      BY <1>1, <3>1, KeepsPending DEF Keeps
    <3>3. QED BY <1>3, <2>1, <3>2, Stutters
  <2>3. CASE LoopStop(l)
    <3>1. Keeps \/ ReceivesStop(Que(Main))
      BY <1>1, <2>3, LoopsMove
    <3>2. PendingOf' = PendingOf /\ InPool' = InPool /\ fate' = fate
      BY <1>1, <1>4, <3>1, KeepsPending, ReceivesStopPending DEF Keeps, ReceivesStop
    <3>3. QED BY <1>3, <2>1, <3>2, Stutters
  <2>4. CASE Take(l)
    <3>1. Moves(Que(l), Bat(l))
      BY <1>1, <2>4, LoopsMove
    <3>2. PendingOf' = PendingOf /\ InPool' = InPool /\ fate' = fate
      BY <1>1, <1>4, <3>1, MovesPending DEF Moves
    <3>3. QED BY <1>3, <2>1, <3>2, Stutters
  <2>5. CASE TakePool(l)
    <3>1. Moves(Que(Stop), Bat(l))
      BY <1>1, <2>5, LoopsMove
    <3>2. \A e \in EventsIn(held[Que(Stop)]) : fate[e] # "queued"
      <4>1. "queued" \notin MayBe(Que(Stop))
        BY MayBeIs
      <4>2. QED BY <1>1, <1>4, <4>1 DEF PlacesInv, FatesKnown
    <3>3. PendingOf' = PendingOf /\ InPool' = InPool /\ fate' = fate
      BY <1>1, <1>4, <3>1, <3>2, MovesPending DEF Moves
    <3>4. QED BY <1>3, <2>1, <3>3, Stutters
  <2>6. CASE Run(l)
    <3>1. Loses(Bat(l), Outcome) /\ Outcome \notin {"queued", "pooled"} /\ Bat(l) # Que(l)
      BY <1>1, <2>6, LoopsMove, PlacesApart DEF Outcome
    <3>2. PICK x : x = Head(held[Bat(l)])
      OBVIOUS
    <3>3. /\ x \in Events \cup {Stop}
          /\ x \in Events /\ fate[x] = "queued" =>
               PendingOf[l] # <<>> /\ Head(PendingOf[l]) = x /\ PendingOf' = With(PendingOf, l, Tail(PendingOf[l]))
          /\ ~(x \in Events /\ fate[x] = "queued") => PendingOf' = PendingOf
          /\ InPool' = InPool \ {x}
      BY <1>1, <1>4, <3>1, <3>2, LosesPending
    <3>4. IF x \in Events THEN Become(x, Outcome) ELSE fate' = fate
      BY <3>1, <3>2 DEF Loses
    <3>5. Outcome = IF Phase = "running" THEN "worked" ELSE "cancelled"
      BY <1>1, PhaseIs
    <3>6. CASE x \notin Events
      <4>1. InPool' = InPool
        BY <3>3, <3>6 DEF InPool
      <4>2. QED BY <1>3, <2>1, <3>3, <3>4, <3>6, <4>1, Stutters
    <3>7. CASE x \in Events /\ fate[x] = "queued"
      <4>1. InPool' = InPool
        BY <3>3, <3>7 DEF InPool
      <4>2. Become(Head(PendingOf[l]), IF Phase = "running" THEN "worked" ELSE "cancelled")
        BY <3>3, <3>4, <3>5, <3>7
      <4>3. QED BY <1>3, <1>4, <2>1, <3>3, <3>7, <4>1, <4>2, HandleIs
    <3>8. CASE x \in Events /\ fate[x] # "queued"
      <4>1. x \in EventsIn(held[Bat(l)])
        <5>1. held[Bat(l)] \in Seq(Events \cup {Stop}) /\ held[Bat(l)] # <<>>
          BY <1>1, <1>4, <3>1, HeldTyped DEF Loses
        <5>2. Elements(held[Bat(l)]) = {x} \cup Elements(Tail(held[Bat(l)]))
          BY <3>2, <5>1, FirstOf
        <5>3. QED BY <3>8, <5>2 DEF EventsIn
      <4>2. fate[x] = "pooled"
        BY <1>1, <1>4, <3>8, <4>1, MayBeIs DEF PlacesInv, FatesKnown
      <4>3. x \in InPool
        BY <3>8, <4>2 DEF InPool
      <4>4. Become(x, IF Phase = "running" THEN "worked" ELSE "cancelled")
        BY <3>4, <3>5, <3>8
      <4>5. QED BY <1>3, <2>1, <3>3, <3>8, <4>3, <4>4, HandlePoolIs
    <3>9. QED BY <3>6, <3>7, <3>8
  <2>7. CASE ClearCancel(l)
    <3>1. Loses(Que(l), "cancelled")
      BY <1>1, <2>7, LoopsMove
    <3>2. PICK x : x = Head(held[Que(l)])
      OBVIOUS
    <3>3. held[Bat(l)] = <<>>
      BY <1>1, <2>7, HeldIs DEF ClearCancel, BatchesDone
    <3>4. /\ x \in Events \cup {Stop}
          /\ x \in Events /\ fate[x] = "queued" =>
               PendingOf[l] # <<>> /\ Head(PendingOf[l]) = x /\ PendingOf' = With(PendingOf, l, Tail(PendingOf[l]))
          /\ ~(x \in Events /\ fate[x] = "queued") => PendingOf' = PendingOf
          /\ InPool' = InPool \ {x}
      BY <1>1, <1>4, <3>1, <3>2, <3>3, LosesPending
    <3>5. IF x \in Events THEN Become(x, "cancelled") ELSE fate' = fate
      BY <3>1, <3>2 DEF Loses
    <3>6. Phase = "stopped"
      <4>1. Closed(l)
        BY <2>7 DEF ClearCancel, Closed
      <4>2. QED BY <1>1, <4>1, PhaseIs DEF EndInv
    <3>7. CASE x \notin Events
      <4>1. InPool' = InPool
        BY <3>4, <3>7 DEF InPool
      <4>2. QED BY <1>3, <2>1, <3>4, <3>5, <3>7, <4>1, Stutters
    <3>8. CASE x \in Events /\ fate[x] = "queued"
      <4>1. InPool' = InPool
        BY <3>4, <3>8 DEF InPool
      <4>2. Become(Head(PendingOf[l]), IF Phase = "running" THEN "worked" ELSE "cancelled")
        BY <3>4, <3>5, <3>6, <3>8
      <4>3. QED BY <1>3, <1>4, <2>1, <3>4, <3>8, <4>1, <4>2, HandleIs
    <3>9. CASE x \in Events /\ fate[x] # "queued"
      <4>1. x \in EventsIn(held[Que(l)])
        <5>1. held[Que(l)] \in Seq(Events \cup {Stop}) /\ held[Que(l)] # <<>>
          BY <1>1, <1>4, <3>1, HeldTyped DEF Loses
        <5>2. Elements(held[Que(l)]) = {x} \cup Elements(Tail(held[Que(l)]))
          BY <3>2, <5>1, FirstOf
        <5>3. QED BY <3>9, <5>2 DEF EventsIn
      <4>2. fate[x] = "late"
        BY <1>1, <1>4, <3>9, <4>1, MayBeIs DEF PlacesInv, FatesKnown
      <4>3. InPool' = InPool
        BY <3>4, <4>2 DEF InPool
      <4>4. QED BY <1>3, <2>1, <3>4, <3>5, <3>9, <4>2, <4>3, CancelLateIs
    <3>10. QED BY <3>7, <3>8, <3>9
  <2>8. QED BY <2>2, <2>3, <2>4, <2>5, <2>6, <2>7 DEF LoopNext
<1>10. QED BY <1>8, <1>9

\* When eventIO_dispatch is past its own queue, the shared one holds all that is for everybody.
LEMMA PoolAtLast ==
  ASSUME EventInv, main = "last"
  PROVE  /\ InPool = EventsIn(held[Que(Stop)])
         /\ \A e \in EventsIn(held[Que(Stop)]) : fate[e] = "pooled"
         /\ Stopped
<1>1. TypeOK /\ PlacesInv /\ BatchesDone /\ EndInv /\ RefInv
  BY DEF EventInv, OrderInv
<1>2. \A l \in Running : l \in Loops /\ Closed(l)
  BY <1>1, RunningAreLoops DEF EndInv, Left, TypeOK
<1>3. Stopped
  <2>1. 1 \in Running
    BY <1>1 DEF Running, TypeOK
  <2>2. QED BY <1>1, <1>2, <2>1 DEF EndInv
<1>4. \A e \in EventsIn(held[Que(Stop)]) : fate[e] = "pooled"
  <2>1. MayBe(Que(Stop)) = {"pooled"}
    BY MayBeIs
  <2>2. QED BY <1>1, <2>1, PlacesApart DEF PlacesInv, FatesKnown
<1>5. \A l \in Loops : EventsIn(held[Bat(l)]) = {}
  <2>1. ASSUME NEW l \in Loops PROVE EventsIn(held[Bat(l)]) = {}
    <3>1. loop[l] = "off" \/ Closed(l)
      BY <1>1, <1>2 DEF RefInv, StartInv
    <3>2. batch[l] = <<>>
      BY <1>1, <3>1 DEF BatchesDone, Closed
    <3>3. QED BY <3>2, HeldIs, NothingIn
  <2>2. QED BY <2>1
<1>6. InPool = EventsIn(held[Que(Stop)])
  <2>1. \A e \in EventsIn(held[Que(Stop)]) : e \in InPool
    BY <1>4 DEF InPool, EventsIn
  <2>2. \A e \in InPool : e \in EventsIn(held[Que(Stop)])
    BY <1>1, <1>5 DEF InPool, PlacesInv, PoolKnown, PooledAt
  <2>3. QED BY <2>1, <2>2
<1>7. QED BY <1>3, <1>4, <1>6

LEMMA MainRefines ==
  ASSUME EventInv, TypeOK', MainNext
  PROVE  E!Next \/ UNCHANGED E!executorVars
<1> USE DEF MainGoto, mainVars, loopVars
<1>1. TypeOK /\ WakeInv /\ PlacesInv /\ BatchesDone /\ EndInv /\ RefInv
  BY DEF EventInv, OrderInv
<1>2. /\ Que(Stop) \in Places /\ Que(Main) \in Places /\ Bat(Main) \in Places
      /\ Que(Stop) # Que(Main) /\ Bat(Main) # Que(Main) /\ Main \in Targets
  BY PlacesApart, Apart
<1>3. \A l \in Loops : Closed(l)' = Closed(l)
  BY <1>1, LoopsStarted DEF Closed
<1>4. (main' \in Left <=> main \in Left) /\ (main' \in Left \ {"last"} <=> main \in Left \ {"last"}) => ClosedSet' = ClosedSet
  BY <1>3 DEF ClosedSet, Left
<1>5. ~StartEnds => Phase' = Phase
  BY DEF Phase, MainNext, Dispatch, MainTake, MainRun, MainWorkEnds, MainDrain, LoopReturns,
         PoolDrain, DispatchReturns, OwnerReleases, StartLoop
<1>6. CASE StartEnds
  <2>1. Keeps
    BY <1>1, <1>6, MainMoves
  <2>2. PendingOf' = PendingOf /\ InPool' = InPool /\ fate' = fate
    BY <1>1, <2>1, KeepsPending DEF Keeps
  <2>3. Phase = "new" /\ Phase' = "running" /\ ClosedSet' = ClosedSet
    BY <1>4, <1>6 DEF StartEnds, Phase, Left
  <2>4. QED BY <2>2, <2>3, StartIs
<1>7. CASE Dispatch \/ MainWorkEnds \/ DispatchReturns \/ OwnerReleases \/ (\E l \in Loops : StartLoop(l))
  <2>1. Keeps
    BY <1>1, <1>7, MainMoves
  <2>2. PendingOf' = PendingOf /\ InPool' = InPool /\ fate' = fate
    BY <1>1, <2>1, KeepsPending DEF Keeps
  <2>3. ClosedSet' = ClosedSet
    BY <1>4, <1>7 DEF Dispatch, MainWorkEnds, DispatchReturns, OwnerReleases, StartLoop, Left
  <2>4. Phase' = Phase
    BY <1>5, <1>7 DEF Dispatch, MainWorkEnds, DispatchReturns, OwnerReleases, StartLoop, Phase
  <2>5. QED BY <2>2, <2>3, <2>4, Stutters
<1>8. CASE LoopReturns
  <2>1. Keeps
    BY <1>1, <1>8, MainMoves
  <2>2. PendingOf' = PendingOf /\ InPool' = InPool /\ fate' = fate
    BY <1>1, <2>1, KeepsPending DEF Keeps
  <2>3. 1 \in Loops
    BY LoopsAreBounded DEF Loops
  <2>4. Phase = "stopped"
    <3>1. Closed(1)
      BY <1>8 DEF LoopReturns, Closed
    <3>2. QED BY <1>1, <2>3, <3>1, PhaseIs DEF EndInv
  <2>5. ClosedSet' = ClosedSet \cup {Main}
    BY <1>3, <1>8 DEF LoopReturns, ClosedSet
  <2>6. Phase' = Phase
    BY <1>8 DEF LoopReturns, Phase
  <2>7. QED BY <1>2, <2>2, <2>4, <2>5, <2>6, CloseIs
<1>9. CASE MainTake
  <2>1. Moves(Que(Main), Bat(Main))
    BY <1>1, <1>9, MainMoves
  <2>2. PendingOf' = PendingOf /\ InPool' = InPool /\ fate' = fate
    BY <1>1, <1>2, <2>1, MovesPending DEF Moves
  <2>3. ClosedSet' = ClosedSet
    BY <1>4, <1>9 DEF MainTake, Left
  <2>4. Phase' = Phase
    BY <1>9 DEF MainTake, Phase
  <2>5. QED BY <2>2, <2>3, <2>4, Stutters
<1>10. CASE MainRun
  <2>1. Loses(Bat(Main), Outcome) /\ Outcome \notin {"queued", "pooled"}
    BY <1>1, <1>10, MainMoves DEF Outcome
  <2>2. PICK x : x = Head(held[Bat(Main)])
    OBVIOUS
  <2>3. /\ x \in Events \cup {Stop}
        /\ x \in Events /\ fate[x] = "queued" =>
             PendingOf[Main] # <<>> /\ Head(PendingOf[Main]) = x /\ PendingOf' = With(PendingOf, Main, Tail(PendingOf[Main]))
        /\ ~(x \in Events /\ fate[x] = "queued") => PendingOf' = PendingOf
        /\ InPool' = InPool \ {x}
    BY <1>1, <1>2, <2>1, <2>2, LosesPending
  <2>4. IF x \in Events THEN Become(x, Outcome) ELSE fate' = fate
    BY <2>1, <2>2 DEF Loses
  <2>5. Outcome = IF Phase = "running" THEN "worked" ELSE "cancelled"
    BY <1>1, PhaseIs
  <2>6. ClosedSet' = ClosedSet /\ Phase' = Phase
    BY <1>4, <1>10 DEF MainRun, Left, Phase
  <2>7. CASE x \notin Events
    <3>1. InPool' = InPool
      BY <2>3, <2>7 DEF InPool
    <3>2. QED BY <2>3, <2>4, <2>6, <2>7, <3>1, Stutters
  <2>8. CASE x \in Events
    <3>1. x \in EventsIn(held[Bat(Main)])
      <4>1. held[Bat(Main)] \in Seq(Events \cup {Stop}) /\ held[Bat(Main)] # <<>>
        BY <1>1, <1>2, <2>1, HeldTyped DEF Loses
      <4>2. Elements(held[Bat(Main)]) = {x} \cup Elements(Tail(held[Bat(Main)]))
        BY <2>2, <4>1, FirstOf
      <4>3. QED BY <2>8, <4>2 DEF EventsIn
    <3>2. fate[x] = "queued"
      BY <1>1, <1>2, <3>1, MayBeIs DEF PlacesInv, FatesKnown
    <3>3. InPool' = InPool
      BY <2>3, <3>2 DEF InPool
    <3>4. Become(Head(PendingOf[Main]), IF Phase = "running" THEN "worked" ELSE "cancelled")
      BY <2>3, <2>4, <2>5, <2>8, <3>2
    <3>5. QED BY <1>2, <2>3, <2>6, <2>8, <3>2, <3>3, <3>4, HandleIs
  <2>9. QED BY <2>7, <2>8
<1>11. CASE MainDrain
  <2>1. Empties(Que(Main))
    BY <1>1, <1>11, MainMoves
  <2>2. held[Bat(Main)] = <<>>
    BY <1>11, HeldIs DEF MainDrain
  <2>3. \A e \in EventsIn(held[Que(Main)]) : fate[e] = "queued"
    <3>1. MayBe(Que(Main)) = {"queued"}
      BY <1>11, MayBeIs DEF MainDrain, Left
    <3>2. QED BY <1>1, <1>2, <3>1 DEF PlacesInv, FatesKnown
  <2>4. /\ PendingOf' = With(PendingOf, Main, <<>>) /\ InPool' = InPool
        /\ Elements(PendingOf[Main]) = EventsIn(held[Que(Main)])
    BY <1>1, <1>2, <2>1, <2>2, <2>3, EmptiesPending
  <2>5. fate' = [e \in Events |-> IF e \in EventsIn(held[Que(Main)]) THEN "cancelled" ELSE fate[e]]
    BY <2>1 DEF Empties
  <2>6. Phase = "stopped"
    <3>1. uiCocurrentThreads # 0 /\ Unstopped = {}
      BY <1>1, <1>11 DEF MainDrain, EndInv, RefInv, StopInv
    <3>2. 1 \in 1..uiCocurrentThreads /\ 1 \in Loops
      BY <1>1, <3>1, LoopsAreBounded DEF Loops, TypeOK
    <3>3. Closed(1)
      BY <3>1, <3>2 DEF Unstopped, Closed
    <3>4. QED BY <1>1, <3>2, <3>3, PhaseIs DEF EndInv
  <2>7. ClosedSet' = ClosedSet \cup {Main} /\ Phase' = Phase
    BY <1>3, <1>11 DEF MainDrain, ClosedSet, Phase
  <2>8. QED BY <1>2, <2>4, <2>5, <2>6, <2>7, DrainIs
<1>12. CASE PoolDrain
  <2>1. Empties(Que(Stop))
    BY <1>1, <1>12, MainMoves
  <2>2. /\ InPool = EventsIn(held[Que(Stop)])
        /\ \A e \in EventsIn(held[Que(Stop)]) : fate[e] = "pooled"
        /\ Stopped
    BY <1>12, PoolAtLast DEF PoolDrain
  <2>3. PendingOf' = PendingOf /\ InPool' = {}
    BY <1>1, <1>2, <2>1, <2>2, EmptiesPending
  <2>4. fate' = [e \in Events |-> IF e \in InPool THEN "cancelled" ELSE fate[e]]
    BY <2>1, <2>2 DEF Empties
  <2>5. Phase = "stopped"
    BY <1>1, <2>2, PhaseIs
  <2>6. ClosedSet' = ClosedSet \cup {Stop} /\ Phase' = Phase
    BY <1>3, <1>12 DEF PoolDrain, ClosedSet, Phase
  <2>7. QED BY <2>3, <2>4, <2>5, <2>6, DrainPoolIs
<1>13. QED BY <1>6, <1>7, <1>8, <1>9, <1>10, <1>11, <1>12 DEF MainNext

LEMMA NextRefines ==
  ASSUME EventInv, TypeOK', [Next]_vars
  PROVE  E!Next \/ UNCHANGED E!executorVars
<1>1. ASSUME NEW c \in Callers, Begin(c) \/ CallNext(c) PROVE E!Next \/ UNCHANGED E!executorVars
  BY <1>1, CallRefines
<1>2. ASSUME NEW l \in Loops, LoopNext(l) PROVE E!Next \/ UNCHANGED E!executorVars
  BY <1>2, LoopRefines
<1>3. CASE MainNext
  BY <1>3, MainRefines
<1>4. CASE UNCHANGED vars
  BY <1>4 DEF vars, mainVars, poolVars, wakeVars, loopVars, countVars, E!executorVars, Pending,
              Promised, InPool, Closed
<1>5. QED BY <1>1, <1>2, <1>3, <1>4 DEF Next

LEMMA InitRefines == Init => E!Init
<1> SUFFICES ASSUME Init PROVE E!Init
  OBVIOUS
<1>1. TypeOK /\ OrderInv
  BY InitTyped, InitOrder
<1>2. held \in [Places -> Seq(Events \cup {Stop})]
  BY <1>1, HeldTyped
<1>3. ASSUME NEW t \in Targets PROVE PendingOf[t] = <<>>
  <2>1. Bat(t) \in Places /\ Que(t) \in Places /\ (t \in Loops \/ t = Main)
    BY PlacesApart, Apart
  <2>2. held[Bat(t)] = <<>> /\ held[Que(t)] = <<>>
    BY <2>1, HeldIs DEF Init
  <2>3. Part(held, fate, Bat(t)) = <<>> /\ Part(held, fate, Que(t)) = <<>>
    BY <1>2, <2>1, <2>2, PartTyped
  <2>4. <<>> \o <<>> = <<>>
    OBVIOUS
  <2>5. QED BY <1>1, <2>3, <2>4, PendingIs
<1>4. PendingOf = [t \in Loops \cup {Main} |-> <<>>]
  BY <1>3 DEF PendingOf, Targets
<1>5. InPool = {} /\ ClosedSet = {} /\ Phase = "new"
  BY DEF Init, InPool, ClosedSet, Phase, Closed
<1>6. fate = [e \in Events |-> "new"]
  BY DEF Init
<1>7. QED BY <1>4, <1>5, <1>6 DEF E!Init, PendingOf, ClosedSet, Phase

(***************************************************************************)
(* With any number of loops, threads and events the eventIO keeps the      *)
(* promise of Executor.  Its queues, the batches that doEvents takes out   *)
(* of them, the moment at which eventIO_stop, eventIOLoop_clear and the    *)
(* end of eventIO_dispatch find an event: nothing of this shows.  What was *)
(* given to a target is handled once, in the order in which it was given,  *)
(* worked before the stop and cancelled after it; what was posted is       *)
(* handled by one loop or cancelled at the end; and only what comes after  *)
(* a target has closed may be lost.                                        *)
(***************************************************************************)
THEOREM ExecutorIsImplemented == Spec => ImplementsExecutor
<1>1. EventInv /\ [Next]_vars => [E!Next]_(E!executorVars)
  <2>1. EventInv /\ [Next]_vars => TypeOK'
    BY NextEvent DEF EventInv
  <2>2. QED BY <2>1, NextRefines
<1>2. Init => E!Init
  BY InitRefines
<1>3. QED BY <1>1, <1>2, InitEvent, NextEvent, PTL DEF Spec, E!Spec, ImplementsExecutor

-----------------------------------------------------------------------------
(* The ring, and the sequence it stands for *)

ByteSet == STRING \cup {Junk}
Queues  == [cap : Nat, rd : Nat, wr : Nat, mem : UNION {[0..(n - 1) -> ByteSet] : n \in Nat}]

\* Its read index is at the end only if it is empty or a view.
Ring(q) == /\ q \in Queues /\ q.mem \in [0..(q.cap - 1) -> ByteSet]
           /\ q.rd <= q.cap /\ q.wr <= q.cap
           /\ q.rd = q.cap => q.wr = 0 \/ q.wr = q.cap

\* The cell of its i-th byte.
Place(q, i) == IF q.rd + i <= q.cap THEN q.rd + i - 1 ELSE q.rd + i - 1 - q.cap

Stands(q, s) == /\ Ring(q) /\ s \in Seq(ByteSet) /\ Len(s) = BytesReadable(q)
                /\ \A i \in 1..Len(s) : s[i] = q.mem[Place(q, i)]

Viewed(q) == q.cap # 0 /\ q.rd = q.cap /\ q.wr = q.cap

\* A queue put together from its fields.
LEMMA QueueOf ==
  ASSUME NEW c \in Nat, NEW r \in Nat, NEW w \in Nat, NEW m \in [0..(c - 1) -> ByteSet]
  PROVE  LET q == [cap |-> c, rd |-> r, wr |-> w, mem |-> m]
         IN  q \in Queues /\ q.cap = c /\ q.rd = r /\ q.wr = w /\ q.mem = m
BY DEF Queues

\* The fields of a queue.
LEMMA Fields ==
  ASSUME NEW q, Ring(q)
  PROVE  /\ q.cap \in Nat /\ q.rd \in Nat /\ q.wr \in Nat /\ q.mem \in [0..(q.cap - 1) -> ByteSet]
         /\ q.rd <= q.cap /\ q.wr <= q.cap /\ (q.rd = q.cap => q.wr = 0 \/ q.wr = q.cap)
         /\ BytesReadable(q) \in Nat /\ BytesWritable(q) \in Nat /\ BytesReadable(q) <= q.cap
         /\ ContiguousRead(q) \in 0..(q.cap - q.rd)
         /\ ~Viewed(q) => BytesReadable(q) + BytesWritable(q) = q.cap
         /\ \A i \in 1..BytesReadable(q) : Place(q, i) \in 0..(q.cap - 1)
<1>1. q.cap \in Nat /\ q.rd \in Nat /\ q.wr \in Nat /\ q.mem \in [0..(q.cap - 1) -> ByteSet]
  BY DEF Ring, Queues
<1>2. q.rd <= q.cap /\ q.wr <= q.cap /\ (q.rd = q.cap => q.wr = 0 \/ q.wr = q.cap)
  BY DEF Ring
<1>3. BytesReadable(q) \in Nat /\ BytesWritable(q) \in Nat /\ BytesReadable(q) <= q.cap
  BY <1>1, <1>2 DEF BytesReadable, BytesWritable
<1>4. ContiguousRead(q) \in 0..(q.cap - q.rd)
  BY <1>1, <1>2 DEF ContiguousRead
<1>5. ~Viewed(q) => BytesReadable(q) + BytesWritable(q) = q.cap
  BY <1>1, <1>2 DEF BytesReadable, BytesWritable, Viewed
<1>6. \A i \in 1..BytesReadable(q) : Place(q, i) \in 0..(q.cap - 1)
  BY <1>1, <1>2 DEF BytesReadable, Place
<1>7. QED BY <1>1, <1>2, <1>3, <1>4, <1>5, <1>6

\* A queue that has nothing stands for the empty sequence.
LEMMA FreshStands ==
  ASSUME NEW c \in Nat
  PROVE  /\ Stands(Fresh(c), <<>>) /\ ~Viewed(Fresh(c))
         /\ Fresh(c).cap = c /\ BytesWritable(Fresh(c)) = c
<1>1. Cells(c) \in [0..(c - 1) -> ByteSet]
  <2>1. Junk \in ByteSet
    BY DEF ByteSet
  <2>2. QED BY <2>1 DEF Cells
<1>2. /\ Fresh(c) \in Queues /\ Fresh(c).cap = c /\ Fresh(c).rd = c /\ Fresh(c).wr = 0
      /\ Fresh(c).mem = Cells(c)
  BY <1>1, QueueOf DEF Fresh
<1>3. Ring(Fresh(c)) /\ BytesReadable(Fresh(c)) = 0 /\ BytesWritable(Fresh(c)) = c
  BY <1>1, <1>2 DEF Ring, BytesReadable, BytesWritable
<1>4. QED BY <1>2, <1>3, EmptySeq DEF Stands, Viewed

\* A queue that has something has cells.
LEMMA NothingRead ==
  ASSUME NEW q, NEW s, Stands(q, s)
  PROVE  /\ Len(s) \in Nat /\ (Len(s) = 0 <=> s = <<>>)
         /\ q.rd = q.cap => s = <<>> \/ Viewed(q)
         /\ s # <<>> => q.cap # 0
<1>1. Len(s) \in Nat /\ (Len(s) = 0 <=> s = <<>>)
  BY EmptySeq DEF Stands
<1>2. QED BY <1>1, Fields DEF Stands, Viewed, BytesReadable

\* Once round the ring.
LEMMA Around ==
  ASSUME NEW c, NEW a, c \in Nat \ {0}, a \in Nat
  PROVE  /\ a < c => a % c = a
         /\ c <= a /\ a < c + c => a % c = a - c
OBVIOUS

-----------------------------------------------------------------------------
(* Reading *)

\* The bytes are in two parts: up to the end of the buffer, and from its start.
LEMMA InParts ==
  ASSUME NEW q, Ring(q)
  PROVE  /\ \A i \in 1..BytesReadable(q) : Place(q, i) = IF i <= ContiguousRead(q) THEN q.rd + i - 1
                                                    ELSE i - ContiguousRead(q) - 1
         /\ ContiguousRead(q) <= BytesReadable(q)
<1> DEFINE k == ContiguousRead(q)
<1>1. /\ q.cap \in Nat /\ q.rd \in Nat /\ q.wr \in Nat /\ q.rd <= q.cap /\ q.wr <= q.cap
  BY Fields
<1>2. \A i \in 1..BytesReadable(q) : Place(q, i) = IF i <= k THEN q.rd + i - 1 ELSE i - k - 1
  <2>1. ASSUME NEW i \in 1..BytesReadable(q) PROVE Place(q, i) = IF i <= k THEN q.rd + i - 1 ELSE i - k - 1
    <3>1. CASE q.wr > q.rd
      <4>1. i \in Nat /\ i <= q.wr - q.rd /\ k = q.wr - q.rd
        BY <1>1, <3>1 DEF BytesReadable, ContiguousRead
      <4>2. QED BY <1>1, <4>1 DEF Place
    <3>2. CASE ~(q.wr > q.rd)
      <4>1. i \in Nat /\ k = q.cap - q.rd
        BY <1>1, <3>2 DEF ContiguousRead
      <4>2. QED BY <1>1, <4>1 DEF Place
    <3>3. QED BY <3>1, <3>2
  <2>2. QED BY <2>1
<1>3. k <= BytesReadable(q)
  BY <1>1 DEF ContiguousRead, BytesReadable
<1>4. QED BY <1>2, <1>3

\* The first bytes are the front of the sequence.
LEMMA FrontRead ==
  ASSUME NEW q, NEW s, Stands(q, s), NEW n \in 0..Len(s)
  PROVE  FirstBytes(q, n) = SubSeq(s, 1, n)
<1> DEFINE k == ContiguousRead(q)
<1>1. /\ q.cap \in Nat /\ q.rd \in Nat /\ q.wr \in Nat /\ q.rd <= q.cap /\ q.wr <= q.cap
      /\ q.mem \in [0..(q.cap - 1) -> ByteSet] /\ k \in 0..(q.cap - q.rd) /\ BytesReadable(q) \in Nat
      /\ q.rd = q.cap => q.wr = 0 \/ q.wr = q.cap
      /\ \A i \in 1..BytesReadable(q) : Place(q, i) \in 0..(q.cap - 1)
  BY Fields DEF Stands
<1>2. /\ s \in Seq(ByteSet) /\ Len(s) = BytesReadable(q) /\ n \in Nat /\ n <= BytesReadable(q)
      /\ \A i \in 1..Len(s) : s[i] = q.mem[Place(q, i)]
  BY <1>1 DEF Stands
<1>3. SubSeq(s, 1, n) \in Seq(ByteSet) /\ Len(SubSeq(s, 1, n)) = n
      /\ \A i \in 1..n : SubSeq(s, 1, n)[i] = s[i]
  BY <1>1, <1>2
<1>4. \A i \in 1..BytesReadable(q) : Place(q, i) = IF i <= k THEN q.rd + i - 1 ELSE i - k - 1
  BY InParts DEF Stands
<1> HIDE DEF k
<1>5. \A a, m \in Nat : (\A i \in 1..m : a + i - 1 \in 0..(q.cap - 1)) =>
         /\ Slice(q, a, m) \in Seq(ByteSet) /\ Len(Slice(q, a, m)) = m
         /\ \A i \in 1..m : Slice(q, a, m)[i] = q.mem[a + i - 1]
  <2>1. SUFFICES ASSUME NEW a \in Nat, NEW m \in Nat, \A i \in 1..m : a + i - 1 \in 0..(q.cap - 1)
                 PROVE  /\ Slice(q, a, m) \in Seq(ByteSet) /\ Len(Slice(q, a, m)) = m
                        /\ \A i \in 1..m : Slice(q, a, m)[i] = q.mem[a + i - 1]
    OBVIOUS
  <2>2. \A i \in 1..m : q.mem[a + i - 1] \in ByteSet
    BY <1>1, <2>1
  <2>3. Slice(q, a, m) = [i \in 1..m |-> q.mem[a + i - 1]]
    BY DEF Slice
  <2>4. QED BY <2>2, <2>3
<1>6. CASE k >= n
  <2>1. FirstBytes(q, n) = Slice(q, q.rd, n)
    BY <1>6 DEF FirstBytes, k
  <2>2. \A i \in 1..n : i \in 1..BytesReadable(q) /\ i <= k /\ q.rd + i - 1 \in 0..(q.cap - 1)
    BY <1>1, <1>2, <1>6
  <2>3. /\ Slice(q, q.rd, n) \in Seq(ByteSet) /\ Len(Slice(q, q.rd, n)) = n
        /\ \A i \in 1..n : Slice(q, q.rd, n)[i] = q.mem[q.rd + i - 1]
    BY <1>1, <1>2, <1>5, <2>2
  <2>4. \A i \in 1..n : s[i] = q.mem[q.rd + i - 1]
    BY <1>2, <1>4, <2>2
  <2>5. QED BY <1>3, <2>1, <2>3, <2>4, SeqEqual
<1>7. CASE k < n
  <2> DEFINE a == Slice(q, q.rd, k)
             b == Slice(q, 0, n - k)
  <2>1. FirstBytes(q, n) = a \o b
    BY <1>1, <1>2, <1>7 DEF FirstBytes, k
  <2>2. /\ k \in Nat /\ n - k \in Nat
        /\ \A i \in 1..k : q.rd + i - 1 \in 0..(q.cap - 1)
        /\ \A i \in 1..n : i \in 1..BytesReadable(q) /\ (i > k => i - k \in 1..(n - k))
    BY <1>1, <1>2, <1>7
  <2>3. \A i \in 1..(n - k) : 0 + i - 1 \in 0..(q.cap - 1)
    <3>1. ASSUME NEW i \in 1..(n - k) PROVE 0 + i - 1 \in 0..(q.cap - 1)
      <4>1. i + k \in 1..BytesReadable(q) /\ i + k > k
        BY <1>1, <1>2, <2>2
      <4>2. Place(q, i + k) = i + k - k - 1
        BY <1>1, <1>4, <4>1
      <4>3. QED BY <1>1, <2>2, <4>1, <4>2
    <3>2. QED BY <3>1
  <2>4. a \in Seq(ByteSet) /\ Len(a) = k /\ \A i \in 1..k : a[i] = q.mem[q.rd + i - 1]
    BY <1>1, <1>5, <2>2
  <2>5. b \in Seq(ByteSet) /\ Len(b) = n - k /\ \A i \in 1..(n - k) : b[i] = q.mem[0 + i - 1]
    BY <1>1, <1>5, <2>2, <2>3
  <2> HIDE DEF a, b
  <2>6. /\ a \o b \in Seq(ByteSet) /\ Len(a \o b) = n
        /\ \A i \in 1..n : (a \o b)[i] = IF i <= k THEN a[i] ELSE b[i - k]
    <3>1. /\ a \o b \in Seq(ByteSet) /\ Len(a \o b) = Len(a) + Len(b)
          /\ \A i \in 1..(Len(a) + Len(b)) : (a \o b)[i] = IF i <= Len(a) THEN a[i] ELSE b[i - Len(a)]
      <4>1. a \in Seq(ByteSet) /\ b \in Seq(ByteSet)
        BY <2>4, <2>5
      <4>2. QED BY <4>1, ConcatProperties
    <3>2. Len(a) + Len(b) = n /\ Len(a) = k
      <4>1. Len(a) = k /\ Len(b) = n - k
        BY <2>4, <2>5
      <4>2. QED BY <1>2, <2>2, <4>1
    <3>3. QED BY <3>1, <3>2
  <2>7. \A i \in 1..n : (a \o b)[i] = s[i]
    <3>1. ASSUME NEW i \in 1..n PROVE (a \o b)[i] = s[i]
      <4>1. s[i] = q.mem[Place(q, i)] /\ Place(q, i) = IF i <= k THEN q.rd + i - 1 ELSE i - k - 1
        BY <1>2, <1>4, <2>2
      <4>2. CASE i <= k
        <5>1. i \in 1..k
          BY <2>2, <4>2
        <5>2. QED BY <2>4, <2>6, <4>1, <4>2, <5>1
      <4>3. CASE ~(i <= k)
        <5>1. i - k \in 1..(n - k) /\ 0 + (i - k) - 1 = i - k - 1
          BY <2>2, <4>3
        <5>2. QED BY <2>5, <2>6, <4>1, <4>3, <5>1
      <4>4. QED BY <4>2, <4>3
    <3>2. QED BY <3>1
  <2>8. QED BY <1>3, <2>1, <2>6, <2>7, SeqEqual
<1>8. QED BY <1>1, <1>2, <1>6, <1>7

\* Reading the first bytes leaves the rest.
LEMMA RestStands ==
  ASSUME NEW q, NEW s, Stands(q, s), NEW n \in 0..Len(s)
  PROVE  /\ Stands(ReadOffset(q, n), SubSeq(s, n + 1, Len(s)))
         /\ ReadOffset(q, n).cap = q.cap
         /\ ~Viewed(q) \/ n # 0 => ~Viewed(ReadOffset(q, n))
<1> DEFINE c == q.cap
           p == ReadOffset(q, n)
           t == SubSeq(s, n + 1, Len(s))
           k == Len(s)
           d == q.rd
           e == q.wr
<1>1. /\ c \in Nat /\ q.rd \in Nat /\ q.wr \in Nat /\ q.rd <= c /\ q.wr <= c
      /\ q.mem \in [0..(c - 1) -> ByteSet] /\ BytesReadable(q) \in Nat
      /\ q.rd = c => q.wr = 0 \/ q.wr = c
      /\ \A i \in 1..BytesReadable(q) : Place(q, i) \in 0..(c - 1)
  BY Fields DEF Stands
<1>2. /\ s \in Seq(ByteSet) /\ k = BytesReadable(q) /\ k \in Nat /\ n \in Nat /\ n <= k
      /\ \A i \in 1..k : s[i] = q.mem[Place(q, i)]
  BY <1>1 DEF Stands
<1>3. t \in Seq(ByteSet) /\ Len(t) = k - n /\ \A i \in 1..(k - n) : t[i] = s[n + i]
  BY <1>1, <1>2
<1>a. /\ k = IF q.wr > q.rd THEN q.wr - q.rd ELSE q.wr + (c - q.rd)
      /\ \A i \in Nat : Place(q, i) = IF q.rd + i <= c THEN q.rd + i - 1 ELSE q.rd + i - 1 - c
  BY <1>2 DEF BytesReadable, Place
<1>b. c \in Nat /\ d \in Nat /\ e \in Nat /\ d <= c /\ e <= c /\ (d = c => e = 0 \/ e = c)
  BY <1>1
<1>c. k = IF e > d THEN e - d ELSE e + (c - d)
  BY <1>a
<1> HIDE DEF t, c, d, e, k
<1>d. k <= c
  BY <1>b, <1>c
<1>4. CASE n = k
  <2>1. t = <<>>
    BY <1>2, <1>3, <1>4, EmptySeq
  <2>2. p = Fresh(c)
    BY <1>2, <1>4 DEF ReadOffset, c
  <2>3. QED BY <1>1, <2>1, <2>2, FreshStands DEF t, c, k
<1>5. CASE n # k
  <2> DEFINE r == (q.rd + n) % c
             m == [i \in DOMAIN q.mem |-> IF (i + c - (q.rd % c)) % c < n THEN Junk ELSE q.mem[i]]
  <2>1. p = [q EXCEPT !.rd = r, !.mem = m]
    BY <1>2, <1>5 DEF ReadOffset, c, d
  <2>d. q \in Queues
    BY DEF Stands, Ring
  <2>e. /\ c \in Nat /\ d \in Nat /\ e \in Nat /\ d <= c /\ e <= c /\ k \in Nat /\ n \in Nat /\ n < k
        /\ d = c => e = 0 \/ e = c
        /\ k = IF e > d THEN e - d ELSE e + (c - d)
        /\ k <= c
    BY <1>2, <1>5, <1>b, <1>c, <1>d
  <2>a. \A i \in Nat : Place(q, i) = IF d + i <= c THEN d + i - 1 ELSE d + i - 1 - c
    BY <1>a DEF c, d
  <2>f. r = (d + n) % c /\ m = [i \in DOMAIN q.mem |-> IF (i + c - (d % c)) % c < n THEN Junk ELSE q.mem[i]]
    BY DEF c, d
  <2>g. /\ q.mem \in [0..(c - 1) -> ByteSet] /\ \A i \in 1..k : Place(q, i) \in 0..(c - 1)
    BY <1>1, <1>2 DEF c
  <2> HIDE DEF r, m
  <2>2. c \in Nat \ {0}
    BY <2>e
  <2>3. d % c = IF d = c THEN 0 ELSE d
    <3>1. c \in Nat /\ d \in Nat /\ d <= c
      BY <2>e
    <3>2. d # c => d < c
      BY <3>1
    <3>3. d = c => c <= d /\ d < c + c /\ d - c = 0
      BY <2>2
    <3>4. d # c => d % c = d
      BY <2>2, <3>1, <3>2, Around, Zenon
    <3>5. d = c => d % c = d - c
      BY <2>2, <3>1, <3>3, Around, Zenon
    <3>6. QED BY <3>3, <3>4, <3>5
  <2>4. r = IF d = c THEN n ELSE IF d + n < c THEN d + n ELSE d + n - c
    <3>1. d + n \in Nat /\ d + n < c + c /\ (d = c => c <= d + n /\ d + n - c = n)
      BY <2>2, <2>e
    <3>2. d + n < c => r = d + n
      BY <2>2, <2>f, <3>1, Around, Zenon
    <3>3. ~(d + n < c) => r = d + n - c
      <4>1. ~(d + n < c) => c <= d + n
        BY <2>2, <3>1
      <4>2. PICK z : z = d + n
        OBVIOUS
      <4>3. z \in Nat /\ z < c + c /\ (~(d + n < c) => c <= z)
        BY <3>1, <4>1, <4>2
      <4>4. ~(d + n < c) => z % c = z - c
        BY <2>2, <4>3, Around, Zenon
      <4>5. r = z % c
        BY <2>f, <4>2
      <4>6. QED BY <2>e, <4>2, <4>4, <4>5
    <3>4. QED BY <2>2, <2>e, <3>1, <3>2, <3>3
  <2>5. r \in Nat /\ r < c
    BY <2>2, <2>4, <2>e
  <2>6. m \in [0..(c - 1) -> ByteSet]
    <3>1. Junk \in ByteSet /\ DOMAIN q.mem = 0..(c - 1)
      BY <2>g DEF ByteSet
    <3>2. QED BY <2>f, <2>g, <3>1
  <2>7. \A i \in (n + 1)..k : m[Place(q, i)] = q.mem[Place(q, i)]
    <3>1. ASSUME NEW i \in (n + 1)..k PROVE m[Place(q, i)] = q.mem[Place(q, i)]
      <4>1. i \in 1..k /\ i > n /\ i \in Nat /\ i <= c
        BY <2>e
      <4>2. Place(q, i) \in 0..(c - 1) /\ DOMAIN q.mem = 0..(c - 1)
        BY <2>g, <4>1
      <4>3. Place(q, i) + c - (d % c) = IF d + i <= c \/ d = c THEN c + i - 1 ELSE i - 1
        <5>1. Place(q, i) = IF d + i <= c THEN d + i - 1 ELSE d + i - 1 - c
          BY <2>a, <4>1
        <5>2. QED BY <2>2, <2>3, <2>e, <4>1, <5>1
      <4>4. (c + i - 1) % c = i - 1 /\ (i - 1) % c = i - 1
        <5>1. /\ c + i - 1 \in Nat /\ c <= c + i - 1 /\ c + i - 1 < c + c
              /\ i - 1 \in Nat /\ i - 1 < c /\ c + i - 1 - c = i - 1
          BY <2>2, <4>1
        <5>2. (c + i - 1) % c = c + i - 1 - c
          <6>1. PICK z : z = c + i - 1
            OBVIOUS
          <6>2. z \in Nat /\ z < c + c /\ c <= z
            BY <5>1, <6>1
          <6>3. z % c = z - c
            BY <2>2, <6>2, Around, Zenon
          <6>4. QED BY <2>2, <4>1, <5>1, <6>1, <6>2, <6>3
        <5>3. (i - 1) % c = i - 1
          BY <2>2, <5>1, Around, Zenon
        <5>4. QED BY <5>1, <5>2, <5>3
      <4>5. (Place(q, i) + c - (d % c)) % c = i - 1
        BY <4>3, <4>4
      <4>6. ~(i - 1 < n)
        BY <2>e, <4>1
      <4>7. QED BY <2>f, <4>2, <4>5, <4>6
    <3>2. QED BY <3>1
  <2>8. p \in Queues /\ p.cap = c /\ p.rd = r /\ p.wr = e /\ p.mem = m
    <3>1. r \in Nat /\ m \in UNION {[0..(j - 1) -> ByteSet] : j \in Nat}
      BY <2>2, <2>5, <2>6
    <3>2. QED BY <2>1, <2>d, <3>1 DEF Queues, c, e
  <2> HIDE DEF p
  <2>9. Ring(p) /\ ~Viewed(p)
    BY <2>5, <2>6, <2>8, <2>e DEF Ring, Viewed
  <2>10. BytesReadable(p) = k - n
    <3>1. BytesReadable(p) = IF e > r THEN e - r ELSE e + (c - r)
      BY <2>8 DEF BytesReadable
    <3>2. QED BY <2>2, <2>4, <2>5, <2>e, <3>1
  <2>11. \A i \in 1..(k - n) : Place(p, i) = Place(q, n + i)
    <3>1. ASSUME NEW i \in 1..(k - n) PROVE Place(p, i) = Place(q, n + i)
      <4>1. i \in Nat /\ 1 <= i /\ n + i <= k /\ n + i <= c /\ n + i \in Nat
        BY <2>e
      <4>2. Place(p, i) = IF r + i <= c THEN r + i - 1 ELSE r + i - 1 - c
        BY <2>8 DEF Place
      <4>3. Place(q, n + i) = IF d + (n + i) <= c THEN d + (n + i) - 1 ELSE d + (n + i) - 1 - c
        BY <2>a, <4>1
      <4>4. QED BY <2>4, <2>e, <4>1, <4>2, <4>3
    <3>2. QED BY <3>1
  <2>12. \A i \in 1..(k - n) : t[i] = p.mem[Place(p, i)]
    <3>1. ASSUME NEW i \in 1..(k - n) PROVE t[i] = p.mem[Place(p, i)]
      <4>1. n + i \in (n + 1)..k /\ n + i \in 1..k
        BY <2>e
      <4>2. QED BY <1>2, <1>3, <2>7, <2>8, <2>11, <3>1, <4>1
    <3>2. QED BY <3>1
  <2>13. Stands(p, t)
    BY <1>3, <2>9, <2>10, <2>12 DEF Stands
  <2>14. QED BY <2>8, <2>9, <2>13 DEF c, k, p, t
<1>6. QED BY <1>4, <1>5

-----------------------------------------------------------------------------
(* Writing *)

\* Bytes for which there is room go behind the others.
LEMMA PutStands ==
  ASSUME NEW q, NEW s, Stands(q, s), ~Viewed(q),
         NEW b \in Seq(ByteSet), Len(b) # 0, Len(b) <= BytesWritable(q)
  PROVE  LET p == WriteOffset(PutBytes(q, b), Len(b))
         IN  Stands(p, s \o b) /\ ~Viewed(p) /\ p.cap = q.cap
<1> DEFINE c == q.cap
           d == q.rd
           e == q.wr
           k == Len(s)
           n == Len(b)
           x == ContiguousWrite(q)
           p == WriteOffset(PutBytes(q, b), Len(b))
           t == s \o b
           m == [i \in DOMAIN q.mem |->
                   CASE i >= e /\ i - e < x /\ i - e < n -> b[i - e + 1]
                     [] x < n /\ i < n - x               -> b[x + i + 1]
                     [] OTHER                            -> q.mem[i]]
           f == (e + n) % c
           g == IF d = c THEN 0 ELSE d
<1>1. /\ c \in Nat /\ d \in Nat /\ e \in Nat /\ d <= c /\ e <= c
      /\ q.mem \in [0..(c - 1) -> ByteSet] /\ (d = c => e = 0 \/ e = c)
      /\ BytesWritable(q) \in Nat /\ BytesReadable(q) \in Nat /\ BytesReadable(q) + BytesWritable(q) = c
  BY Fields DEF Stands
<1>2. /\ s \in Seq(ByteSet) /\ k \in Nat /\ k = BytesReadable(q) /\ q \in Queues
      /\ \A i \in 1..k : s[i] = q.mem[Place(q, i)]
  BY <1>1 DEF Stands, Ring
<1>3. n \in Nat /\ n # 0 /\ n <= BytesWritable(q) /\ \A i \in 1..n : b[i] \in ByteSet
  OBVIOUS
<1>4. t \in Seq(ByteSet) /\ Len(t) = k + n /\ \A i \in 1..(k + n) : t[i] = IF i <= k THEN s[i] ELSE b[i - k]
  BY <1>2, <1>3, ConcatProperties
<1>5. /\ k = IF e > d THEN e - d ELSE e + (c - d)
      /\ x = IF d >= e THEN d - e ELSE c - e
      /\ BytesWritable(q) = IF d >= e THEN d - e ELSE d + (c - e)
  BY <1>2 DEF BytesReadable, BytesWritable, ContiguousWrite
<1>6. \A i \in Nat : Place(q, i) = IF d + i <= c THEN d + i - 1 ELSE d + i - 1 - c
  BY DEF Place
<1>7. p = [q EXCEPT !.mem = m, !.wr = f, !.rd = g]
  <2>1. PutBytes(q, b) = [q EXCEPT !.mem = m]
    BY DEF PutBytes
  <2>2. /\ PutBytes(q, b).cap = c /\ PutBytes(q, b).wr = e /\ PutBytes(q, b).rd = d
    BY <1>2, <2>1 DEF Queues
  <2>3. WriteOffset(PutBytes(q, b), n) = [PutBytes(q, b) EXCEPT !.wr = f, !.rd = g]
    BY <1>2, <2>1, <2>2 DEF WriteOffset, Queues
  <2> HIDE DEF m, f, g, n
  <2>4. QED BY <1>2, <2>1, <2>3 DEF Queues, n
<1>9. f = (e + n) % c /\ g = IF d = c THEN 0 ELSE d
  OBVIOUS
<1>10. d = c /\ e = c => c = 0
  BY DEF Viewed
<1>8. \A i \in 0..(c - 1) : m[i] = IF i >= e /\ i - e < x /\ i - e < n THEN b[i - e + 1]
                                   ELSE IF x < n /\ i < n - x THEN b[x + i + 1] ELSE q.mem[i]
  <2>1. DOMAIN q.mem = 0..(c - 1)
    BY <1>1
  <2>2. ASSUME NEW i \in 0..(c - 1)
        PROVE  m[i] = IF i >= e /\ i - e < x /\ i - e < n THEN b[i - e + 1]
                      ELSE IF x < n /\ i < n - x THEN b[x + i + 1] ELSE q.mem[i]
    <3>1. m[i] = CASE i >= e /\ i - e < x /\ i - e < n -> b[i - e + 1]
                   [] x < n /\ i < n - x               -> b[x + i + 1]
                   [] OTHER                            -> q.mem[i]
      BY <2>1
    <3>2. ~((i >= e /\ i - e < x /\ i - e < n) /\ (x < n /\ i < n - x))
      BY <1>1, <1>2, <1>3, <1>5, <1>10
    <3> HIDE DEF m, e, x, n
    <3>3. QED BY <3>1, <3>2
  <2>3. QED BY <2>2
<1>11. DOMAIN m = 0..(c - 1) /\ m = [i \in DOMAIN m |-> m[i]]
  BY <1>1
<1> HIDE DEF c, d, e, k, n, x, p, t, m, f, g
<1>12. /\ c \in Nat \ {0} /\ c \in Nat /\ d \in Nat /\ e \in Nat /\ k \in Nat /\ n \in Nat /\ x \in Nat
       /\ 1 <= n /\ d <= c /\ e <= c /\ (d = c => e = 0)
  BY <1>1, <1>2, <1>3, <1>5, <1>10
<1>13. \/ d >= e /\ n <= d - e /\ x = d - e /\ k = e + (c - d)
       \/ d < e /\ n <= d + (c - e) /\ x = c - e /\ k = e - d /\ d < c
  BY <1>1, <1>2, <1>3, <1>5, <1>12
<1>14. e + n < c + c /\ e + n \in Nat
  BY <1>12, <1>13
<1>15. f = IF e + n < c THEN e + n ELSE e + n - c
  <2>1. PICK z : z = e + n
    OBVIOUS
  <2>2. z \in Nat /\ z < c + c /\ f = z % c /\ (~(z < c) => c <= z)
    BY <1>9, <1>12, <1>14, <2>1
  <2>3. z < c => z % c = z
    BY <1>12, <2>2, Around, Zenon
  <2>4. ~(z < c) => z % c = z - c
    BY <1>12, <2>2, Around, Zenon
  <2>5. QED BY <1>12, <2>1, <2>2, <2>3, <2>4
<1>16. f \in Nat /\ f <= c /\ g \in Nat /\ g < c
  BY <1>9, <1>12, <1>14, <1>15
<1>17. m \in [0..(c - 1) -> ByteSet]
  <2>1. ASSUME NEW i \in 0..(c - 1) PROVE m[i] \in ByteSet
    <3>1. i \in Nat /\ (i >= e /\ i - e < n => i - e + 1 \in 1..n) /\ (i < n - x => x + i + 1 \in 1..n)
      BY <1>12
    <3>2. q.mem[i] \in ByteSet
      BY <1>1 DEF c
    <3>3. \A j \in 1..n : b[j] \in ByteSet
      BY <1>3 DEF n
    <3>4. QED BY <1>8, <3>1, <3>2, <3>3
  <2>2. QED BY <1>11, <2>1
<1>18. p \in Queues /\ p.cap = c /\ p.rd = g /\ p.wr = f /\ p.mem = m
  <2>1. m \in UNION {[0..(j - 1) -> ByteSet] : j \in Nat}
    BY <1>12, <1>17
  <2>2. QED BY <1>2, <1>7, <1>16, <2>1 DEF Queues, c
<1>19. Ring(p) /\ ~Viewed(p)
  BY <1>12, <1>16, <1>17, <1>18 DEF Ring, Viewed
<1>20. BytesReadable(p) = k + n
  <2>1. BytesReadable(p) = IF f > g THEN f - g ELSE f + (c - g)
    BY <1>18 DEF BytesReadable
  <2>2. QED BY <1>9, <1>12, <1>13, <1>15, <1>16, <2>1
<1>21. \A i \in Nat : Place(p, i) = IF g + i <= c THEN g + i - 1 ELSE g + i - 1 - c
  BY <1>18 DEF Place
\* The bytes that were there.
<1>22. ASSUME NEW j \in 1..k PROVE p.mem[Place(p, j)] = s[j]
  <2>1. j \in Nat /\ 1 <= j /\ j <= k /\ d # c /\ g = d
    BY <1>9, <1>12, <1>13
  <2>2. PICK y : y = Place(q, j)
    OBVIOUS
  <2>3. Place(p, j) = y /\ y = IF d + j <= c THEN d + j - 1 ELSE d + j - 1 - c
    BY <1>6, <1>21, <2>1, <2>2 DEF c, d
  <2>4. y \in 0..(c - 1)
    BY <1>12, <1>13, <2>1, <2>3
  <2>5. ~(y >= e /\ y - e < x) /\ ~(x < n /\ y < n - x)
    BY <1>12, <1>13, <2>1, <2>3, <2>4
  <2>6. m[y] = q.mem[y]
    BY <1>8, <2>4, <2>5
  <2>7. QED BY <1>2, <1>18, <2>2, <2>3, <2>6 DEF k
\* The bytes that are new.
<1>23. ASSUME NEW j \in 1..n PROVE p.mem[Place(p, k + j)] = b[j]
  <2>1. j \in Nat /\ 1 <= j /\ j <= n /\ k + j \in Nat
    BY <1>12
  <2>2. PICK y : y = Place(p, k + j)
    OBVIOUS
  <2>3. y = IF e + j <= c THEN e + j - 1 ELSE e + j - 1 - c
    <3>1. y = IF g + (k + j) <= c THEN g + (k + j) - 1 ELSE g + (k + j) - 1 - c
      BY <1>21, <2>1, <2>2
    <3>2. QED BY <1>9, <1>12, <1>13, <2>1, <3>1
  <2>4. y \in 0..(c - 1)
    BY <1>12, <1>13, <2>1, <2>3
  <2>5. CASE e + j <= c
    <3>1. y >= e /\ y - e < x /\ y - e < n /\ y - e + 1 = j
      BY <1>12, <1>13, <2>1, <2>3, <2>5
    <3>2. QED BY <1>8, <1>18, <2>2, <2>4, <3>1
  <2>6. CASE ~(e + j <= c)
    <3>1. ~(y >= e) /\ x < n /\ y < n - x /\ x + y + 1 = j
      BY <1>12, <1>13, <2>1, <2>3, <2>6
    <3>2. QED BY <1>8, <1>18, <2>2, <2>4, <3>1
  <2>7. QED BY <2>5, <2>6
<1>24. \A i \in 1..(k + n) : t[i] = p.mem[Place(p, i)]
  <2>1. ASSUME NEW i \in 1..(k + n) PROVE t[i] = p.mem[Place(p, i)]
    <3>1. CASE i <= k
      <4>1. i \in 1..k
        BY <1>12, <3>1
      <4>2. QED BY <1>4, <1>22, <3>1, <4>1
    <3>2. CASE ~(i <= k)
      <4>1. i - k \in 1..n /\ k + (i - k) = i
        BY <1>12, <3>2
      <4>2. QED BY <1>4, <1>23, <3>2, <4>1
    <3>3. QED BY <3>1, <3>2
  <2>2. QED BY <2>1
<1>25. Stands(p, t)
  BY <1>4, <1>19, <1>20, <1>24 DEF Stands
<1>26. QED BY <1>18, <1>19, <1>25 DEF c, n, p, t

\* The bytes are moved to the start of another buffer.
LEMMA MovedStands ==
  ASSUME NEW q, NEW s, Stands(q, s), ~Viewed(q), NEW w \in Nat, Len(s) <= w
  PROVE  /\ Stands(Moved(q, w), s) /\ ~Viewed(Moved(q, w)) /\ Moved(q, w).cap = w
         /\ BytesWritable(Moved(q, w)) = w - Len(s)
<1> DEFINE p == Moved(q, w)
           n == Len(s)
           k == ContiguousRead(q)
           m == [i \in 0..(w - 1) |-> CASE i < k           -> q.mem[q.rd + i]
                                        [] i >= k /\ i < n -> q.mem[i - k]
                                        [] OTHER           -> Junk]
<1>1. CASE Empty(q)
  <2>1. s = <<>> /\ Len(s) = 0
    BY <1>1, NothingRead DEF Empty
  <2>2. p = Fresh(w)
    BY <1>1 DEF Moved
  <2>3. QED BY <2>1, <2>2, FreshStands
<1>2. CASE ~Empty(q)
  <2>1. /\ q.cap \in Nat /\ q.rd \in Nat /\ q.wr \in Nat /\ q.rd < q.cap /\ q.wr <= q.cap
        /\ q.mem \in [0..(q.cap - 1) -> ByteSet] /\ k \in Nat
        /\ \A i \in 1..BytesReadable(q) : Place(q, i) \in 0..(q.cap - 1)
    BY <1>2, Fields DEF Stands, Empty
  <2>2. s \in Seq(ByteSet) /\ n = BytesReadable(q) /\ n \in Nat /\ n # 0
        /\ \A i \in 1..n : s[i] = q.mem[Place(q, i)]
    BY <2>1 DEF Stands, BytesReadable
  <2>3. /\ \A i \in 1..n : Place(q, i) = IF i <= k THEN q.rd + i - 1 ELSE i - k - 1
        /\ k <= n
    BY <2>2, InParts DEF Stands
  <2>4. p = [cap |-> w, rd |-> 0, wr |-> n, mem |-> m]
    BY <1>2, <2>2 DEF Moved
  <2>5. \A i \in 0..(w - 1) : m[i] = IF i < k THEN q.mem[q.rd + i] ELSE IF i < n THEN q.mem[i - k] ELSE Junk
    <3>1. SUFFICES ASSUME NEW i \in 0..(w - 1)
                   PROVE  m[i] = IF i < k THEN q.mem[q.rd + i] ELSE IF i < n THEN q.mem[i - k] ELSE Junk
      OBVIOUS
    <3>2. m[i] = CASE i < k -> q.mem[q.rd + i] [] i >= k /\ i < n -> q.mem[i - k] [] OTHER -> Junk
      OBVIOUS
    <3>3. i < k \/ i >= k
      BY <2>1
    <3> HIDE DEF m, k, n
    <3>4. QED BY <2>1, <3>2, <3>3
  <2>6. DOMAIN m = 0..(w - 1) /\ m = [i \in DOMAIN m |-> m[i]]
    OBVIOUS
  <2> HIDE DEF m, k, n, p
  <2>7. ASSUME NEW i \in 1..n
        PROVE  i - 1 \in 0..(w - 1) /\ m[i - 1] = q.mem[Place(q, i)] /\ m[i - 1] \in ByteSet
    <3>1. i - 1 \in 0..(w - 1) /\ i \in Nat /\ i - 1 < n /\ i - 1 \in Nat /\ 1 <= i
      BY <2>2 DEF n
    <3>2. q.rd + (i - 1) = q.rd + i - 1 /\ (i - 1) - k = i - k - 1 /\ (i - 1 < k <=> i <= k)
      BY <2>1, <3>1
    <3>3. m[i - 1] = q.mem[Place(q, i)]
      BY <2>3, <2>5, <3>1, <3>2
    <3>4. Place(q, i) \in 0..(q.cap - 1)
      BY <2>1, <2>2
    <3>5. QED BY <2>1, <3>1, <3>3, <3>4
  <2>8. m \in [0..(w - 1) -> ByteSet]
    <3>1. ASSUME NEW i \in 0..(w - 1) PROVE m[i] \in ByteSet
      <4>1. CASE i < n
        <5>1. i + 1 \in 1..n /\ i + 1 - 1 = i
          BY <2>2, <4>1
        <5>2. m[i + 1 - 1] \in ByteSet
          BY <2>7, <5>1
        <5>3. QED BY <5>1, <5>2
      <4>2. CASE ~(i < n)
        <5>1. ~(i < k)
          BY <2>1, <2>2, <2>3, <4>2
        <5>2. QED BY <2>5, <4>2, <5>1 DEF ByteSet
      <4>3. QED BY <4>1, <4>2
    <3>2. QED BY <2>6, <3>1
  <2>9. p \in Queues /\ p.cap = w /\ p.rd = 0 /\ p.wr = n /\ p.mem = m
    BY <2>2, <2>4, <2>8, QueueOf
  <2>10. n <= w
    BY DEF n
  <2>11. Ring(p) /\ ~Viewed(p) /\ BytesReadable(p) = n /\ BytesWritable(p) = w - n
    BY <2>2, <2>8, <2>9, <2>10 DEF Ring, Viewed, BytesReadable, BytesWritable
  <2>12. \A i \in 1..n : Place(p, i) = i - 1
    BY <2>2, <2>9, <2>10 DEF Place
  <2>13. Stands(p, s)
    BY <2>2, <2>7, <2>9, <2>11, <2>12 DEF Stands, n
  <2>14. QED BY <2>9, <2>11, <2>13 DEF p, n
<1>3. QED BY <1>1, <1>2

\* A capacity is rounded up.
LEMMA AlignedUp ==
  ASSUME NEW n \in Nat
  PROVE  Aligned(n) \in Nat /\ n <= Aligned(n)
BY ByteQueueAssumption DEF Aligned

\* There is room for what is to be written.
LEMMA RoomMade ==
  ASSUME NEW q, NEW s, Stands(q, s), ~Viewed(q), NEW n \in Nat, n # 0,
         NEW p \in {Room(q, n), RoomBytes(q, n)}
  PROVE  Stands(p, s) /\ ~Viewed(p) /\ n <= BytesWritable(p)
<1>1. /\ q.cap \in Nat /\ BytesWritable(q) \in Nat /\ BytesReadable(q) + BytesWritable(q) = q.cap
      /\ Len(s) = BytesReadable(q) /\ BytesReadable(q) \in Nat
  BY Fields DEF Stands
<1>2. q.cap = 0 => s = <<>>
  BY NothingRead
<1>3. CASE q.cap = 0
  <2>1. p = Fresh(Aligned(n)) \/ p = Fresh(n)
    BY <1>3 DEF Room, RoomBytes
  <2>2. QED BY <1>2, <1>3, <2>1, FreshStands, AlignedUp
<1>4. CASE q.cap # 0 /\ n > BytesWritable(q)
  <2> DEFINE a == 2 * q.cap + n - BytesWritable(q)
             z == q.cap + n - BytesWritable(q)
  <2>1. PICK w \in {Aligned(a), z} : p = Moved(q, w)
    BY <1>4 DEF Room, RoomBytes
  <2>2. a \in Nat /\ z \in Nat /\ z <= a
    <3>1. PICK v : v = BytesWritable(q)
      OBVIOUS
    <3>2. PICK c : c = q.cap
      OBVIOUS
    <3>3. c \in Nat /\ v \in Nat /\ v < n
      BY <1>1, <1>4, <3>1, <3>2
    <3>4. 2 * c + n - v \in Nat /\ c + n - v \in Nat /\ c + n - v <= 2 * c + n - v
      BY <3>3
    <3>5. QED BY <3>1, <3>2, <3>4
  <2>3. w \in Nat /\ z <= w
    <3> HIDE DEF a, z
    <3>1. Aligned(a) \in Nat /\ a <= Aligned(a)
      BY <2>2, AlignedUp
    <3>2. z <= Aligned(a)
      BY <2>2, <3>1
    <3>3. QED BY <2>1, <2>2, <3>1, <3>2
  <2>4. Len(s) <= w /\ n <= w - Len(s)
    BY <1>1, <2>3
  <2>5. QED BY <2>1, <2>3, <2>4, MovedStands
<1>5. CASE q.cap # 0 /\ ~(n > BytesWritable(q))
  <2>1. p = q
    BY <1>5 DEF Room, RoomBytes
  <2>2. QED BY <1>1, <1>5, <2>1
<1>6. QED BY <1>3, <1>4, <1>5

\* A write.
LEMMA WriteStands ==
  ASSUME NEW q, NEW s, Stands(q, s), ~Viewed(q), NEW b \in Seq(ByteSet), b # <<>>,
         NEW p \in {Written(q, b), WrittenBytes(q, b)}
  PROVE  Stands(p, s \o b) /\ ~Viewed(p)
<1>1. Len(b) \in Nat /\ Len(b) # 0
  BY EmptySeq
<1>2. PICK r \in {Room(q, Len(b)), RoomBytes(q, Len(b))} : p = WriteOffset(PutBytes(r, b), Len(b))
  BY DEF Written, WrittenBytes
<1>3. Stands(r, s) /\ ~Viewed(r) /\ Len(b) <= BytesWritable(r)
  BY <1>1, RoomMade
<1>4. QED BY <1>1, <1>2, <1>3, PutStands

-----------------------------------------------------------------------------
(* Receiving *)

\* The content is moved where there is room for it.
LEMMA ReservedStands ==
  ASSUME NEW q, NEW s, Stands(q, s), ~Viewed(q), NEW w \in Nat
  PROVE  Stands(Reserved(q, w), s) /\ ~Viewed(Reserved(q, w))
<1>1. Len(s) = BytesReadable(q) /\ BytesReadable(q) \in Nat
  BY Fields DEF Stands
<1>2. CASE BytesReadable(q) > w
  BY <1>2 DEF Reserved
<1>3. CASE ~(BytesReadable(q) > w)
  BY <1>1, <1>3, MovedStands DEF Reserved
<1>4. QED BY <1>2, <1>3

\* What comes from the socket, in one part or in two.
LEMMA ReceivedStands ==
  ASSUME NEW q, NEW s, Stands(q, s), ~Viewed(q), NEW b \in Seq(ByteSet), b # <<>>
  PROVE  Stands(Received(q, b), s \o b) /\ ~Viewed(Received(q, b))
<1> DEFINE w == BytesWritable(q)
           n == Len(b)
<1>1. n \in Nat /\ n # 0 /\ w \in Nat /\ s \in Seq(ByteSet)
  BY Fields, EmptySeq DEF Stands
<1>2. CASE w = 0
  <2>1. Received(q, b) = WrittenBytes(q, b)
    BY <1>2 DEF Received
  <2>2. QED BY <2>1, WriteStands
<1>3. CASE w # 0 /\ n <= w
  <2>1. Received(q, b) = WriteOffset(PutBytes(q, b), n)
    <3>1. ~(n > w)
      BY <1>1, <1>3
    <3>2. QED BY <1>3, <3>1 DEF Received
  <2>2. QED BY <1>1, <1>3, <2>1, PutStands
<1>4. CASE w # 0 /\ ~(n <= w)
  <2> DEFINE x == SubSeq(b, 1, w)
             y == SubSeq(b, w + 1, n)
             p == WriteOffset(PutBytes(q, x), w)
  <2>1. Received(q, b) = WrittenBytes(p, y)
    <3>1. n > w
      BY <1>1, <1>4
    <3>2. QED BY <1>4, <3>1 DEF Received
  <2>2. x \in Seq(ByteSet) /\ Len(x) = w /\ y \in Seq(ByteSet) /\ Len(y) = n - w
    BY <1>1, <1>4
  <2>3. x \o y = b
    <3>1. SubSeq(b, 1, w) \o SubSeq(b, w + 1, n) = SubSeq(b, 1, n)
      <4>1. 1 \in 1..(n + 1) /\ w \in (1 - 1)..n /\ n \in w..n
        BY <1>1, <1>4
      <4>2. QED BY <4>1, ConcatAdjacentSubSeq
    <3>2. SubSeq(b, 1, n) = b
      BY SubSeqFull
    <3>3. QED BY <3>1, <3>2
  <2> HIDE DEF x, y
  <2>4. Stands(p, s \o x) /\ ~Viewed(p)
    BY <1>1, <1>4, <2>2, PutStands
  <2>5. y # <<>>
    BY <1>1, <1>4, <2>2
  <2> HIDE DEF p
  <2>6. Stands(WrittenBytes(p, y), (s \o x) \o y) /\ ~Viewed(WrittenBytes(p, y))
    BY <2>2, <2>4, <2>5, WriteStands
  <2>7. (s \o x) \o y = s \o b
    <3>1. s \in Seq(ByteSet) /\ x \in Seq(ByteSet) /\ y \in Seq(ByteSet)
      BY <1>1, <2>2, Zenon
    <3>a. (s \o x) \o y = s \o (x \o y)
      BY <3>1, ConcatAssociative
    <3>2. QED BY <2>3, <3>a
  <2>8. QED BY <2>1, <2>6, <2>7
<1>5. QED BY <1>2, <1>3, <1>4

\* What the receive callback takes, and a queue that shrinks.
LEMMA ConsumedStands ==
  ASSUME NEW q, NEW s, Stands(q, s), ~Viewed(q), NEW n \in 0..Len(s)
  PROVE  Stands(Consumed(q, n), SubSeq(s, n + 1, Len(s))) /\ ~Viewed(Consumed(q, n))
<1> DEFINE left == IF n = 0 THEN q ELSE ReadOffset(q, n)
           t    == SubSeq(s, n + 1, Len(s))
<1>1. Stands(left, t) /\ ~Viewed(left)
  <2>1. CASE n = 0
    <3>1. SubSeq(s, 1, Len(s)) = s
      <4>1. s \in Seq(ByteSet)
        BY DEF Stands
      <4>2. QED BY <4>1, SubSeqFull
    <3>2. n + 1 = 1
      BY <2>1
    <3>3. t = s /\ left = q
      BY <2>1, <3>1, <3>2
    <3>4. QED BY <3>3
  <2>2. CASE n # 0
    BY <2>2, RestStands
  <2>3. QED BY <2>1, <2>2
<1>2. Max2(Align, q.cap \div 2) \in Nat
  <2>1. q.cap \in Nat /\ Align \in Nat
    BY Fields, ByteQueueAssumption DEF Stands
  <2>2. q.cap \div 2 \in Nat
    BY <2>1
  <2>3. QED BY <2>1, <2>2 DEF Max2
<1>3. \/ Consumed(q, n) = left
      \/ Consumed(q, n) = Reserved(left, Max2(Align, q.cap \div 2))
  BY DEF Consumed
<1> HIDE DEF left, t
<1>4. Stands(Consumed(q, n), t) /\ ~Viewed(Consumed(q, n))
  BY <1>1, <1>2, <1>3, ReservedStands
<1>5. QED BY <1>4 DEF t

-----------------------------------------------------------------------------
(* The lines *)

\* What memchr finds.
LEMMA FirstLF ==
  ASSUME NEW q, NEW from \in Nat, NEW n \in Int
  PROVE  \/ FindLF(q, from, n) = 0 /\ \A i \in from..(from + n - 1) : q.mem[i] # LF
         \/ \E i \in from..(from + n - 1) :
               /\ FindLF(q, from, n) = 1 + i /\ q.mem[i] = LF
               /\ \A j \in from..(i - 1) : q.mem[j] # LF
<1> DEFINE hits == {i \in from..(from + n - 1) : q.mem[i] = LF}
<1>1. FindLF(q, from, n) = IF hits = {} THEN 0 ELSE 1 + CHOOSE i \in hits : \A j \in hits : i <= j
  BY DEF FindLF
<1>2. CASE hits = {}
  BY <1>1, <1>2
<1>3. CASE hits # {}
  <2>1. hits \in SUBSET Nat
    OBVIOUS
  <2>2. \E i \in hits : \A j \in hits : i <= j
    <3> HIDE DEF hits
    <3>1. QED BY <1>3, <2>1, Least
  <2>3. PICK i \in hits : /\ i = CHOOSE x \in hits : \A j \in hits : x <= j
                          /\ \A j \in hits : i <= j
    <3> HIDE DEF hits
    <3>1. QED BY <2>2
  <2>4. FindLF(q, from, n) = 1 + i
    BY <1>1, <1>3, <2>3
  <2>5. ASSUME NEW j \in from..(i - 1), q.mem[j] = LF PROVE FALSE
    <3>1. i \in from..(from + n - 1) /\ j \in from..(from + n - 1) /\ ~(i <= j)
      OBVIOUS
    <3>2. j \in hits
      BY <2>5, <3>1
    <3>3. QED BY <2>3, <3>1, <3>2
  <2>6. i \in from..(from + n - 1) /\ q.mem[i] = LF
    OBVIOUS
  <2>7. QED BY <2>4, <2>5, <2>6
<1>4. QED BY <1>2, <1>3

\* A line that ends with the n-th byte.
EndsLine(s, n, offset, crlf) ==
    /\ n > offset /\ s[n] = LF
    /\ crlf => ~Lone(s, n)
    /\ \A i \in (offset + 1)..(n - 1) : s[i] = LF => crlf /\ \E j \in (offset + 1)..i : Lone(s, j)

LEMMA LineCut ==
  ASSUME NEW s \in Seq(ByteSet), NEW n \in 1..Len(s), NEW offset \in Nat, NEW crlf \in BOOLEAN
  PROVE  IsLine(SubSeq(s, 1, n), offset, crlf) <=> EndsLine(s, n, offset, crlf)
<1> DEFINE t == SubSeq(s, 1, n)
<1>1. n \in Nat /\ Len(t) = n /\ \A i \in 1..n : t[i] = s[i]
  OBVIOUS
<1> HIDE DEF t
<1>2. ASSUME NEW i \in 1..n PROVE Lone(t, i) <=> Lone(s, i)
  <2>1. i = 1 \/ i - 1 \in 1..n
    BY <1>1
  <2>2. QED BY <1>1, <2>1 DEF Lone
<1>3. ASSUME NEW i \in (offset + 1)..(n - 1)
      PROVE  /\ i \in 1..n
             /\ \A j \in (offset + 1)..i : Lone(t, j) <=> Lone(s, j)
  BY <1>1, <1>2
<1>4. n \in 1..n
  BY <1>1
<1>5. IsLine(t, offset, crlf) <=>
        /\ n > offset /\ t[n] = LF
        /\ crlf => ~Lone(t, n)
        /\ \A i \in (offset + 1)..(n - 1) : t[i] = LF => crlf /\ \E j \in (offset + 1)..i : Lone(t, j)
  BY <1>1 DEF IsLine
<1>6. \A i \in (offset + 1)..(n - 1) :
         (t[i] = LF => crlf /\ \E j \in (offset + 1)..i : Lone(t, j))
         <=> (s[i] = LF => crlf /\ \E j \in (offset + 1)..i : Lone(s, j))
  BY <1>1, <1>3
<1>7. t[n] = s[n] /\ (Lone(t, n) <=> Lone(s, n))
  BY <1>1, <1>2, <1>4
<1>8. QED BY <1>5, <1>6, <1>7 DEF EndsLine, t

\* The bytes of a queue in their two parts.
LEMMA TwoParts ==
  ASSUME NEW q, NEW s, Stands(q, s), ~Viewed(q), s # <<>>
  PROVE  /\ BytesReadable(q) = Len(s) /\ Len(s) \in Nat /\ q.rd \in Nat
         /\ ContiguousRead(q) \in 1..Len(s) /\ ContiguousRead(q) \in Nat
         /\ \A i \in 1..ContiguousRead(q) : s[i] = q.mem[q.rd + i - 1]
         /\ \A i \in (ContiguousRead(q) + 1)..Len(s) : s[i] = q.mem[i - ContiguousRead(q) - 1]
<1> DEFINE k == ContiguousRead(q)
<1>1. /\ q.cap \in Nat /\ q.rd \in Nat /\ q.wr \in Nat /\ q.rd <= q.cap /\ q.wr <= q.cap
      /\ k \in Nat
  BY Fields DEF Stands
<1>2. /\ Len(s) = BytesReadable(q) /\ Len(s) \in Nat
      /\ \A i \in 1..Len(s) : s[i] = q.mem[Place(q, i)]
  BY NothingRead DEF Stands
<1>3. /\ \A i \in 1..Len(s) : Place(q, i) = IF i <= k THEN q.rd + i - 1 ELSE i - k - 1
      /\ k <= Len(s)
  BY <1>2, InParts DEF Stands
<1>4. q.rd # q.cap
  BY NothingRead
<1>5. k # 0
  BY <1>1, <1>4 DEF ContiguousRead
<1> HIDE DEF k
<1>6. k \in 1..Len(s)
  BY <1>1, <1>2, <1>3, <1>5
<1>7. ASSUME NEW i \in 1..k PROVE s[i] = q.mem[q.rd + i - 1]
  <2>1. i \in 1..Len(s) /\ i <= k
    BY <1>6
  <2>2. QED BY <1>2, <1>3, <2>1
<1>8. ASSUME NEW i \in (k + 1)..Len(s) PROVE s[i] = q.mem[i - k - 1]
  <2>1. i \in 1..Len(s) /\ ~(i <= k)
    BY <1>6
  <2>2. QED BY <1>2, <1>3, <2>1
<1>9. BytesReadable(q) = Len(s) /\ q.rd \in Nat
  BY <1>1, <1>2
<1>10. /\ \A i \in 1..k : s[i] = q.mem[q.rd + i - 1]
       /\ \A i \in (k + 1)..Len(s) : s[i] = q.mem[i - k - 1]
  BY <1>7, <1>8, Zenon
<1>11. QED BY <1>1, <1>2, <1>6, <1>9, <1>10, Zenon DEF k

\* The search in the part up to the end of the buffer.
LEMMA InFirst ==
  ASSUME NEW q, NEW s, Stands(q, s), ~Viewed(q), s # <<>>, NEW offset \in Nat, NEW crlf \in BOOLEAN
  PROVE  LET k == ContiguousRead(q)
             l == LineInFirst(q, offset, crlf)
         IN  /\ l # 0 => /\ l \in (offset + 1)..k /\ s[l] = LF /\ (crlf => ~Lone(s, l))
                         /\ \A i \in (offset + 1)..(l - 1) : s[i] # LF
             /\ l = 0 => \/ \A i \in (offset + 1)..k : s[i] # LF
                         \/ /\ crlf
                            /\ \E j \in (offset + 1)..k :
                                  Lone(s, j) /\ \A i \in (offset + 1)..(j - 1) : s[i] # LF
<1> DEFINE k == ContiguousRead(q)
           l == LineInFirst(q, offset, crlf)
           d == q.rd
           hit == FindLF(q, d + offset, k - offset)
<1>1. k \in Nat /\ d \in Nat /\ \A i \in 1..k : s[i] = q.mem[d + i - 1]
  BY TwoParts, Zenon
<1>2. l = IF offset < k /\ hit # 0 /\ (crlf => hit - 1 - d > 0 /\ q.mem[d + (hit - 1 - d) - 1] = CR)
          THEN hit - 1 - d + 1 ELSE 0
  BY DEF LineInFirst
<1>3. \/ hit = 0 /\ \A i \in (d + offset)..(d + offset + (k - offset) - 1) : q.mem[i] # LF
      \/ \E i \in (d + offset)..(d + offset + (k - offset) - 1) :
            hit = 1 + i /\ q.mem[i] = LF /\ \A j \in (d + offset)..(i - 1) : q.mem[j] # LF
  <2>1. d + offset \in Nat /\ k - offset \in Int
    BY <1>1
  <2> HIDE DEF k, d
  <2>2. QED BY <2>1, FirstLF
<1> HIDE DEF k, l, d, hit
<1>4. CASE hit = 0
  <2>1. l = 0
    BY <1>2, <1>4
  <2>2. \A i \in (d + offset)..(d + offset + (k - offset) - 1) : q.mem[i] # LF
    BY <1>1, <1>3, <1>4
  <2>3. ASSUME NEW i \in (offset + 1)..k PROVE s[i] # LF
    <3>1. i \in 1..k /\ d + i - 1 \in (d + offset)..(d + offset + (k - offset) - 1)
      BY <1>1
    <3>2. QED BY <1>1, <2>2, <3>1
  <2>4. QED BY <2>1, <2>3 DEF k, l
<1>5. CASE hit # 0
  <2>1. PICK x \in (d + offset)..(d + offset + (k - offset) - 1) :
            hit = 1 + x /\ q.mem[x] = LF /\ \A j \in (d + offset)..(x - 1) : q.mem[j] # LF
    BY <1>3, <1>5
  <2>2. PICK j : j = x - d + 1
    OBVIOUS
  <2>3. /\ j \in (offset + 1)..k /\ j \in 1..k /\ x = d + j - 1 /\ x \in Nat /\ hit - 1 - d + 1 = j
        /\ offset < k /\ hit - 1 - d = j - 1 /\ j \in Nat
    BY <1>1, <2>1, <2>2
  <2>4. s[j] = LF
    BY <1>1, <2>1, <2>3
  <2>5. ASSUME NEW i \in (offset + 1)..(j - 1) PROVE s[i] # LF
    <3>1. i \in 1..k /\ d + i - 1 \in (d + offset)..(x - 1)
      BY <1>1, <2>3
    <3>2. QED BY <1>1, <2>1, <3>1
  <2>6. Lone(s, j) <=> ~(j - 1 > 0 /\ q.mem[d + (j - 1) - 1] = CR)
    <3>1. j = 1 <=> ~(j - 1 > 0)
      BY <2>3
    <3>2. j - 1 > 0 => s[j - 1] = q.mem[d + (j - 1) - 1]
      BY <1>1, <2>3
    <3>3. QED BY <2>4, <3>1, <3>2 DEF Lone
  <2>7. l = IF crlf => ~Lone(s, j) THEN j ELSE 0
    BY <1>2, <1>5, <2>3, <2>6
  <2>8. CASE crlf => ~Lone(s, j)
    <3>1. l = j /\ l # 0
      BY <2>3, <2>7, <2>8
    <3>2. QED BY <2>3, <2>4, <2>5, <2>8, <3>1 DEF k, l
  <2>9. CASE ~(crlf => ~Lone(s, j))
    BY <2>3, <2>5, <2>7, <2>9 DEF k, l
  <2>10. QED BY <2>8, <2>9
<1>6. QED BY <1>4, <1>5

\* The search in the part from the start of the buffer.
LEMMA InSecond ==
  ASSUME NEW q, NEW s, Stands(q, s), ~Viewed(q), s # <<>>, NEW offset \in Nat, NEW crlf \in BOOLEAN
  PROVE  LET k == IF offset < ContiguousRead(q) THEN ContiguousRead(q) ELSE offset
             l == LineInSecond(q, offset, crlf)
         IN  /\ l # 0 => /\ l \in (k + 1)..Len(s) /\ s[l] = LF /\ (crlf => ~Lone(s, l))
                         /\ \A i \in (k + 1)..(l - 1) : s[i] # LF
             /\ l = 0 => \/ \A i \in (k + 1)..Len(s) : s[i] # LF
                         \/ crlf /\ \E j \in (k + 1)..Len(s) : Lone(s, j)
<1> DEFINE k == ContiguousRead(q)
           l == LineInSecond(q, offset, crlf)
           d == q.rd
           z == Len(s)
           start == IF offset < k THEN 0 ELSE offset - k
           hit == FindLF(q, start, z - k - start)
           o == IF offset < k THEN k ELSE offset
<1>1. /\ k \in Nat /\ 1 <= k /\ k <= z /\ z \in Nat /\ d \in Nat /\ BytesReadable(q) = z
      /\ \A i \in 1..k : s[i] = q.mem[d + i - 1]
      /\ \A i \in (k + 1)..z : s[i] = q.mem[i - k - 1]
  <2>1. k \in 1..z /\ z \in Nat
    BY TwoParts
  <2>2. QED BY <2>1, TwoParts
<1>2. l = IF hit # 0 /\ (crlf => (IF hit - 1 > 0 THEN q.mem[hit - 1 - 1] ELSE q.mem[d + k - 1]) = CR)
          THEN k + (hit - 1) + 1 ELSE 0
  <2>1. BytesReadable(q) = z
    BY <1>1
  <2>2. QED BY <2>1 DEF LineInSecond
<1>3. \/ hit = 0 /\ \A i \in start..(start + (z - k - start) - 1) : q.mem[i] # LF
      \/ \E i \in start..(start + (z - k - start) - 1) :
            hit = 1 + i /\ q.mem[i] = LF /\ \A j \in start..(i - 1) : q.mem[j] # LF
  <2>1. start \in Nat /\ z - k - start \in Int
    BY <1>1
  <2> HIDE DEF k, z, start
  <2>2. QED BY <2>1, FirstLF
<1>a. o \in Nat /\ start \in Nat /\ start = o - k /\ k <= o
  BY <1>1
<1> HIDE DEF k, l, d, hit, z, start, o
<1>4. CASE hit = 0
  <2>1. l = 0
    BY <1>2, <1>4
  <2>2. \A i \in start..(start + (z - k - start) - 1) : q.mem[i] # LF
    BY <1>1, <1>a, <1>3, <1>4
  <2>3. ASSUME NEW i \in (o + 1)..z PROVE s[i] # LF
    <3>1. i \in (k + 1)..z /\ i - k - 1 \in start..(start + (z - k - start) - 1)
      BY <1>1, <1>a
    <3>2. q.mem[i - k - 1] # LF
      BY <2>2, <3>1
    <3>3. QED BY <1>1, <3>1, <3>2
  <2>4. QED BY <2>1, <2>3 DEF k, l, z, o
<1>5. CASE hit # 0
  <2>1. PICK x \in start..(start + (z - k - start) - 1) :
            hit = 1 + x /\ q.mem[x] = LF /\ \A j \in start..(x - 1) : q.mem[j] # LF
    BY <1>3, <1>5, <1>a
  <2>2. PICK j : j = k + x + 1
    OBVIOUS
  <2>3. /\ j \in (o + 1)..z /\ j \in (k + 1)..z /\ j \in Nat /\ 1 < j /\ x = j - k - 1 /\ x \in Nat
        /\ hit - 1 = x /\ k + x + 1 = j
    <3>1. x \in Nat /\ start <= x /\ x <= z - k - 1 /\ hit = 1 + x
      BY <1>1, <1>a, <2>1
    <3>2. j \in Nat /\ k + 1 <= j /\ 1 < j /\ o + 1 <= j /\ j <= z /\ x = j - k - 1
      BY <1>1, <1>a, <2>2, <3>1
    <3>3. QED BY <1>1, <1>a, <2>2, <3>1, <3>2
  <2>4. s[j] = LF
    BY <1>1, <2>1, <2>3
  <2>5. ASSUME NEW i \in (o + 1)..(j - 1) PROVE s[i] # LF
    <3>1. i \in (k + 1)..z /\ i - k - 1 \in start..(x - 1)
      BY <1>1, <1>a, <2>3
    <3>2. QED BY <1>1, <1>a, <2>1, <3>1
  <2>6. s[j - 1] = IF x > 0 THEN q.mem[x - 1] ELSE q.mem[d + k - 1]
    <3>1. CASE x > 0
      <4>1. j - 1 \in (k + 1)..z /\ j - 1 - k - 1 = x - 1
        BY <1>1, <1>a, <2>3, <3>1
      <4>2. QED BY <1>1, <3>1, <4>1
    <3>2. CASE ~(x > 0)
      <4>1. j - 1 = k /\ k \in 1..k
        BY <1>1, <1>a, <2>3, <3>2
      <4>2. QED BY <1>1, <3>2, <4>1
    <3>3. QED BY <3>1, <3>2
  <2>7. Lone(s, j) <=> (IF x > 0 THEN q.mem[x - 1] ELSE q.mem[d + k - 1]) # CR
    <3>1. j # 1
      BY <2>3
    <3>2. QED BY <2>4, <2>6, <3>1 DEF Lone
  <2>8. l = IF crlf => ~Lone(s, j) THEN j ELSE 0
    BY <1>2, <1>5, <2>3, <2>7
  <2>9. CASE crlf => ~Lone(s, j)
    <3>1. l = j /\ l # 0
      BY <2>3, <2>8, <2>9
    <3>2. QED BY <2>3, <2>4, <2>5, <2>9, <3>1 DEF k, l, z, o
  <2>10. CASE ~(crlf => ~Lone(s, j))
    BY <2>3, <2>8, <2>10 DEF k, l, z, o
  <2>11. QED BY <2>9, <2>10
<1>6. QED BY <1>4, <1>5

\* What the search for a line finds.
LEMMA LineFound ==
  ASSUME NEW q, NEW s, Stands(q, s), ~Viewed(q), s # <<>>, NEW offset \in Nat, NEW crlf \in BOOLEAN
  PROVE  LET n == LineLength(q, offset, crlf)
         IN  /\ n # 0 => n \in 1..Len(s) /\ EndsLine(s, n, offset, crlf)
             /\ n = 0 => \/ \A i \in (offset + 1)..Len(s) : s[i] # LF
                         \/ crlf /\ \E j \in (offset + 1)..Len(s) : Lone(s, j)
<1> DEFINE k == ContiguousRead(q)
           z == Len(s)
           a == LineInFirst(q, offset, crlf)
           b == LineInSecond(q, offset, crlf)
           n == LineLength(q, offset, crlf)
           o == IF offset < k THEN k ELSE offset
<1>1. z \in Nat /\ k \in 1..z /\ BytesReadable(q) = z
  BY TwoParts
<1>2. /\ a # 0 => /\ a \in (offset + 1)..k /\ s[a] = LF /\ (crlf => ~Lone(s, a))
                  /\ \A i \in (offset + 1)..(a - 1) : s[i] # LF
      /\ a = 0 => \/ \A i \in (offset + 1)..k : s[i] # LF
                  \/ /\ crlf
                     /\ \E j \in (offset + 1)..k :
                           Lone(s, j) /\ \A i \in (offset + 1)..(j - 1) : s[i] # LF
  BY InFirst
<1>3. /\ b # 0 => /\ b \in (o + 1)..z /\ s[b] = LF /\ (crlf => ~Lone(s, b))
                  /\ \A i \in (o + 1)..(b - 1) : s[i] # LF
      /\ b = 0 => \/ \A i \in (o + 1)..z : s[i] # LF
                  \/ crlf /\ \E j \in (o + 1)..z : Lone(s, j)
  BY InSecond
<1>4. n = IF a # 0 \/ z = k THEN a ELSE b
  BY <1>1 DEF LineLength, Wraps
<1>o. o \in Nat /\ o >= offset /\ o >= k /\ (o # k => o = offset)
  BY <1>1
<1> HIDE DEF k, z, a, b, n, o
<1>5. CASE a # 0
  <2>1. n = a /\ a \in 1..z /\ a > offset
    BY <1>1, <1>2, <1>4, <1>5
  <2>2. EndsLine(s, n, offset, crlf)
    BY <1>2, <1>5, <2>1 DEF EndsLine
  <2>3. QED BY <1>5, <2>1, <2>2 DEF n, z
<1>6. CASE a = 0 /\ z = k
  BY <1>2, <1>4, <1>6 DEF n, z
<1>7. CASE a = 0 /\ z # k /\ b # 0
  <2>1. n = b /\ b \in 1..z /\ b > offset
    BY <1>1, <1>o, <1>3, <1>4, <1>7
  <2>2. ASSUME NEW i \in (offset + 1)..(b - 1), s[i] = LF
        PROVE  crlf /\ \E j \in (offset + 1)..i : Lone(s, j)
    <3>1. i \in (offset + 1)..k
      <4>1. ~(i \in (o + 1)..(b - 1))
        BY <1>3, <1>7, <2>2
      <4>2. QED BY <1>1, <1>o, <4>1, <2>1
    <3>2. PICK j \in (offset + 1)..k : Lone(s, j) /\ \A x \in (offset + 1)..(j - 1) : s[x] # LF
      BY <1>2, <1>7, <2>2, <3>1
    <3>3. crlf
      BY <1>2, <1>7, <2>2, <3>1
    <3>4. ~(i \in (offset + 1)..(j - 1))
      BY <2>2, <3>2
    <3>5. j \in (offset + 1)..i
      BY <1>1, <3>1, <3>4
    <3>6. QED BY <3>2, <3>3, <3>5
  <2>3. EndsLine(s, n, offset, crlf)
    BY <1>3, <1>7, <2>1, <2>2 DEF EndsLine
  <2>4. QED BY <1>7, <2>1, <2>3 DEF n, z
<1>8. CASE a = 0 /\ z # k /\ b = 0
  <2>1. n = 0
    BY <1>4, <1>8
  <2>2. CASE (\A i \in (offset + 1)..k : s[i] # LF) /\ \A i \in (o + 1)..z : s[i] # LF
    <3>1. ASSUME NEW i \in (offset + 1)..z PROVE s[i] # LF
      <4>1. i \in (offset + 1)..k \/ i \in (o + 1)..z
        BY <1>1, <1>o
      <4>2. QED BY <2>2, <4>1
    <3>2. QED BY <2>1, <3>1 DEF n, z
  <2>3. CASE crlf /\ \E j \in (offset + 1)..k : Lone(s, j)
    <3>1. PICK j \in (offset + 1)..k : Lone(s, j)
      BY <2>3
    <3>2. j \in (offset + 1)..z
      BY <1>1, <1>o
    <3>3. QED BY <2>1, <2>3, <3>1, <3>2 DEF n, z
  <2>4. CASE crlf /\ \E j \in (o + 1)..z : Lone(s, j)
    <3>1. PICK j \in (o + 1)..z : Lone(s, j)
      BY <2>4
    <3>2. j \in (offset + 1)..z
      BY <1>1, <1>o
    <3>3. QED BY <2>1, <2>4, <3>1, <3>2 DEF n, z
  <2>5. QED BY <1>2, <1>3, <1>8, <2>2, <2>3, <2>4
<1>9. QED BY <1>5, <1>6, <1>7, <1>8

\* The same of the queue's own content.
LEMMA LineOfContent ==
  ASSUME Stands(queue, content), ~Viewed(queue), NEW offset \in Nat, NEW crlf \in BOOLEAN,
         offset < BytesReadable(queue)
  PROVE  LET n == LineLength(queue, offset, crlf)
         IN  /\ n # 0 => n \in 1..Len(content) /\ n \in Lines(offset, crlf)
             /\ n = 0 => Lines(offset, crlf) = {} \/ (crlf /\ Blocked(offset))
<1> DEFINE n == LineLength(queue, offset, crlf)
<1>1. content \in Seq(ByteSet) /\ Len(content) = BytesReadable(queue) /\ Len(content) \in Nat
      /\ content # <<>>
  <2>1. content \in Seq(ByteSet) /\ Len(content) = BytesReadable(queue) /\ Len(content) \in Nat
    BY NothingRead DEF Stands
  <2>2. Len(content) # 0
    BY <2>1
  <2>3. QED BY <2>1, <2>2, NothingRead
<1>2. /\ n # 0 => n \in 1..Len(content) /\ EndsLine(content, n, offset, crlf)
      /\ n = 0 => \/ \A i \in (offset + 1)..Len(content) : content[i] # LF
                  \/ crlf /\ \E j \in (offset + 1)..Len(content) : Lone(content, j)
  BY <1>1, LineFound
<1> HIDE DEF n
<1>3. ASSUME n # 0 PROVE n \in 1..Len(content) /\ n \in Lines(offset, crlf)
  <2>1. n \in 1..Len(content) /\ EndsLine(content, n, offset, crlf)
    BY <1>2, <1>3
  <2>2. IsLine(SubSeq(content, 1, n), offset, crlf)
    BY <1>1, <2>1, LineCut
  <2>3. QED BY <2>1, <2>2 DEF Lines
<1>4. ASSUME n = 0 PROVE Lines(offset, crlf) = {} \/ (crlf /\ Blocked(offset))
  <2>1. CASE \A i \in (offset + 1)..Len(content) : content[i] # LF
    <3>1. ASSUME NEW m \in Lines(offset, crlf) PROVE FALSE
      <4>1. m \in 1..Len(content) /\ IsLine(SubSeq(content, 1, m), offset, crlf)
        BY DEF Lines
      <4>2. EndsLine(content, m, offset, crlf)
        BY <1>1, <4>1, LineCut
      <4>3. m > offset /\ content[m] = LF
        BY <4>2 DEF EndsLine
      <4>4. m \in (offset + 1)..Len(content)
        BY <1>1, <4>1, <4>3
      <4>5. QED BY <2>1, <4>3, <4>4
    <3>2. QED BY <3>1
  <2>2. CASE crlf /\ \E j \in (offset + 1)..Len(content) : Lone(content, j)
    BY <2>2 DEF Blocked
  <2>3. QED BY <1>2, <1>4, <2>1, <2>2
<1>5. QED BY <1>3, <1>4 DEF n

-----------------------------------------------------------------------------
(* The queue is the sequence of its bytes *)

\* Each byte of the sequence is in its cell, and no read has given anything else.
InItsCells == Stands(queue, content) /\ exact

LEMMA SomeText ==
  ASSUME NEW b \in Texts
  PROVE  b \in Seq(ByteSet) /\ b # <<>> /\ Len(b) \in Nat /\ Len(b) # 0
<1>1. b \in Seq(STRING) /\ b # <<>>
  BY ByteQueueAssumption
<1>2. Len(b) \in Nat /\ Len(b) # 0 /\ \A i \in 1..Len(b) : b[i] \in ByteSet
  BY <1>1, EmptySeq DEF ByteSet
<1>3. b \in Seq(ByteSet)
  <2>1. b = [i \in 1..Len(b) |-> b[i]]
    BY <1>1
  <2>2. QED BY <1>2, <2>1
<1>4. QED BY <1>1, <1>2, <1>3

\* A view of a text stands for it.
LEMMA ViewStands ==
  ASSUME NEW b \in Texts
  PROVE  Stands(View(b), b)
<1> DEFINE m == [i \in 0..(Len(b) - 1) |-> b[i + 1]]
           n == Len(b)
           p == View(b)
<1>1. b \in Seq(ByteSet) /\ n \in Nat /\ n # 0
  BY SomeText
<1>2. m \in [0..(n - 1) -> ByteSet]
  <2>1. \A i \in 0..(n - 1) : i + 1 \in 1..n /\ b[i + 1] \in ByteSet
    BY <1>1
  <2>2. QED BY <2>1
<1>3. p = [cap |-> n, rd |-> n, wr |-> n, mem |-> m]
  BY DEF View
<1>5. \A i \in 1..n : m[i - 1] = b[i]
  <2>1. ASSUME NEW i \in 1..n PROVE m[i - 1] = b[i]
    <3>1. i - 1 \in 0..(n - 1) /\ i - 1 + 1 = i
      BY <1>1
    <3>2. QED BY <3>1
  <2>2. QED BY <2>1
<1> HIDE DEF m, n, p
<1>4. p \in Queues /\ p.cap = n /\ p.rd = n /\ p.wr = n /\ p.mem = m
  BY <1>1, <1>2, <1>3, QueueOf
<1>6. Ring(p) /\ BytesReadable(p) = n
  BY <1>1, <1>2, <1>4 DEF Ring, BytesReadable
<1>7. \A i \in 1..n : Place(p, i) = i - 1
  BY <1>1, <1>4 DEF Place
<1>8. QED BY <1>1, <1>4, <1>5, <1>6, <1>7 DEF Stands, n, p

\* A read that gives the front of the sequence and leaves the rest.
LEMMA GivesKeeps ==
  ASSUME InItsCells, NEW n \in Nat, NEW bytes, NEW expected, bytes = expected, NEW q,
         Stands(q, SubSeq(content, n + 1, Len(content))), Gives(bytes, expected, q, n)
  PROVE  InItsCells'
BY DEF Gives, InItsCells

LEMMA NothingGivenKeeps ==
  ASSUME InItsCells, NEW bytes, NEW expected, bytes = expected, Gives(bytes, expected, queue, 0)
  PROVE  InItsCells'
<1>1. content \in Seq(ByteSet)
  BY DEF InItsCells, Stands
<1>2. SubSeq(content, 0 + 1, Len(content)) = content
  BY <1>1, SubSeqFull
<1>3. Stands(queue, SubSeq(content, 0 + 1, Len(content)))
  BY <1>2 DEF InItsCells
<1>4. QED BY <1>3, GivesKeeps

LEMMA ReadKeeps ==
  ASSUME InItsCells, NEW n \in Nat, Read(n)
  PROVE  InItsCells'
<1>1. Stands(queue, content) /\ Len(content) = BytesReadable(queue) /\ BytesReadable(queue) \in Nat
  BY Fields DEF InItsCells, Stands
<1>2. CASE n > BytesReadable(queue)
  <2>1. Gives(<<>>, <<>>, queue, 0)
    BY <1>2 DEF Read
  <2>2. QED BY <2>1, NothingGivenKeeps
<1>3. CASE ~(n > BytesReadable(queue))
  <2>1. n \in 0..Len(content)
    BY <1>1, <1>3
  <2>2. Gives(FirstBytes(queue, n), SubSeq(content, 1, n), ReadOffset(queue, n), n)
    BY <1>3 DEF Read
  <2>3. QED BY <1>1, <2>1, <2>2, FrontRead, RestStands, GivesKeeps
<1>4. QED BY <1>2, <1>3

LEMMA ReadBytesKeeps ==
  ASSUME InItsCells, NEW n \in Nat, NEW peek \in BOOLEAN, ReadBytes(n, peek)
  PROVE  InItsCells'
<1>1. Stands(queue, content) /\ Len(content) = BytesReadable(queue) /\ BytesReadable(queue) \in Nat
  BY Fields DEF InItsCells, Stands
<1>2. PICK k : k = IF BytesReadable(queue) < n THEN BytesReadable(queue) ELSE n
  OBVIOUS
<1>3. k \in 0..Len(content) /\ k \in Nat
  BY <1>1, <1>2
<1>4. (IF Len(content) < n THEN Len(content) ELSE n) = k
  BY <1>1, <1>2
<1>5. FirstBytes(queue, k) = SubSeq(content, 1, k)
  BY <1>1, <1>3, FrontRead
<1>6. IF peek THEN Gives(FirstBytes(queue, k), SubSeq(content, 1, k), queue, 0)
              ELSE Gives(FirstBytes(queue, k), SubSeq(content, 1, k), ReadOffset(queue, k), k)
  BY <1>2, <1>4 DEF ReadBytes
<1>7. CASE peek
  BY <1>5, <1>6, <1>7, NothingGivenKeeps
<1>8. CASE ~peek
  BY <1>1, <1>3, <1>5, <1>6, <1>8, RestStands, GivesKeeps
<1>9. QED BY <1>7, <1>8

LEMMA ReadAllKeeps ==
  ASSUME InItsCells, ReadAll
  PROVE  InItsCells'
<1>1. /\ Stands(queue, content) /\ Len(content) = BytesReadable(queue) /\ BytesReadable(queue) \in Nat
      /\ content \in Seq(ByteSet) /\ Len(content) \in 0..Len(content)
  BY Fields DEF InItsCells, Stands
<1>2. FirstBytes(queue, BytesReadable(queue)) = SubSeq(content, 1, Len(content))
  BY <1>1, FrontRead
<1>3. SubSeq(content, 1, Len(content)) = content
  BY <1>1, SubSeqFull
<1>4. Gives(FirstBytes(queue, BytesReadable(queue)), content, ReadOffset(queue, Len(content)), Len(content))
  BY <1>1 DEF ReadAll
<1>5. QED BY <1>1, <1>2, <1>3, <1>4, RestStands, GivesKeeps

LEMMA ReadLineKeeps ==
  ASSUME InItsCells, ~Viewed(queue), NEW offset \in Nat, NEW crlf \in BOOLEAN,
         ReadLine(offset, crlf)
  PROVE  InItsCells'
<1> DEFINE n == LineLength(queue, offset, crlf)
<1>1. Stands(queue, content) /\ offset < BytesReadable(queue)
  BY DEF InItsCells, ReadLine
<1>2. /\ n # 0 => n \in 1..Len(content) /\ n \in Lines(offset, crlf)
      /\ n = 0 => Lines(offset, crlf) = {} \/ (crlf /\ Blocked(offset))
  BY <1>1, LineOfContent
<1>3. IF n = 0
      THEN Gives(<<>>, IF Lines(offset, crlf) = {} \/ (crlf /\ Blocked(offset)) THEN <<>> ELSE content,
                 queue, 0)
      ELSE Gives(FirstBytes(queue, n),
                 IF n \in Lines(offset, crlf) THEN SubSeq(content, 1, n) ELSE <<>>,
                 ReadOffset(queue, n), n)
  BY DEF ReadLine
<1> HIDE DEF n
<1>4. CASE n = 0
  <2>1. Gives(<<>>, <<>>, queue, 0)
    BY <1>2, <1>3, <1>4
  <2>2. QED BY <2>1, NothingGivenKeeps
<1>5. CASE n # 0
  <2>1. Gives(FirstBytes(queue, n), SubSeq(content, 1, n), ReadOffset(queue, n), n)
    BY <1>2, <1>3, <1>5
  <2>2. n \in 0..Len(content) /\ n \in Nat
    <3>1. Len(content) \in Nat
      BY <1>1, NothingRead
    <3>2. QED BY <1>2, <1>5, <3>1
  <2>3. QED BY <1>1, <2>1, <2>2, FrontRead, RestStands, GivesKeeps
<1>6. QED BY <1>4, <1>5

LEMMA SetKeeps ==
  ASSUME InItsCells, NEW q, NEW s, Stands(q, s), Set(q, s)
  PROVE  InItsCells'
BY DEF Set, InItsCells

LEMMA WriteKeeps ==
  ASSUME InItsCells, ~Viewed(queue), NEW b \in Texts, WriteTo(b) \/ WriteBytesTo(b)
  PROVE  InItsCells'
<1>1. Stands(queue, content) /\ b \in Seq(ByteSet) /\ b # <<>>
  BY SomeText DEF InItsCells
<1>2. Stands(Written(queue, b), content \o b) /\ Stands(WrittenBytes(queue, b), content \o b)
  BY <1>1, WriteStands
<1>3. \/ Set(Written(queue, b), content \o b)
      \/ Set(WrittenBytes(queue, b), content \o b)
  BY DEF WriteTo, WriteBytesTo
<1>4. QED BY <1>2, <1>3, SetKeeps

LEMMA RecvKeeps ==
  ASSUME InItsCells, ~Viewed(queue), NEW b \in Texts, NEW n \in Nat, Recv(b, n)
  PROVE  InItsCells'
<1> DEFINE r == Received(queue, b)
           t == content \o b
<1>1. Stands(queue, content) /\ b \in Seq(ByteSet) /\ b # <<>>
  BY SomeText DEF InItsCells
<1>2. Stands(r, t) /\ ~Viewed(r)
  BY <1>1, ReceivedStands
<1>3. /\ n <= BytesReadable(r) /\ queue' = Consumed(r, n)
      /\ content' = SubSeq(t, n + 1, Len(t)) /\ exact' = exact
  BY DEF Recv
<1> HIDE DEF r, t
<1>4. n \in 0..Len(t)
  <2>1. Len(t) = BytesReadable(r) /\ BytesReadable(r) \in Nat
    BY <1>2, Fields DEF Stands
  <2>2. QED BY <1>3, <2>1
<1>5. Stands(Consumed(r, n), SubSeq(t, n + 1, Len(t)))
  BY <1>2, <1>4, ConsumedStands
<1>6. QED BY <1>3, <1>5 DEF InItsCells

LEMMA ResizeKeeps ==
  ASSUME InItsCells, ~Viewed(queue), Resize
  PROVE  InItsCells'
<1>1. CASE \E n \in 1..MaxContent : Reserve(n) \/ New(n)
  <2>1. PICK n \in 1..MaxContent : Reserve(n) \/ New(n)
    BY <1>1
  <2>2. n \in Nat
    BY ByteQueueAssumption
  <2>3. CASE Reserve(n)
    <3>1. Set(Reserved(queue, n), content)
      BY <2>3 DEF Reserve
    <3>2. Stands(Reserved(queue, n), content)
      BY <2>2, ReservedStands DEF InItsCells
    <3>3. QED BY <3>1, <3>2, SetKeeps
  <2>4. CASE New(n)
    <3>1. Set(Fresh(n), <<>>)
      BY <2>4 DEF New
    <3>2. QED BY <2>2, <3>1, FreshStands, SetKeeps
  <2>5. QED BY <2>1, <2>3, <2>4
<1>2. CASE \E b \in Texts : SwapBuffer(b)
  <2>1. PICK b \in Texts : SwapBuffer(b)
    BY <1>2
  <2>2. Set(View(b), b)
    BY <2>1 DEF SwapBuffer
  <2>3. QED BY <2>2, ViewStands, SetKeeps
<1>3. QED BY <1>1, <1>2 DEF Resize

LEMMA ByteQueueStepKeeps ==
  ASSUME InItsCells, ByteQueueNext
  PROVE  InItsCells'
<1>1. CASE ReadSome
  <2>1. CASE \E n \in 0..MaxContent : Read(n)
    <3>1. PICK n \in 0..MaxContent : Read(n)
      BY <2>1
    <3>2. n \in Nat
      BY ByteQueueAssumption
    <3>3. QED BY <3>1, <3>2, ReadKeeps
  <2>2. CASE \E n \in 1..MaxContent, peek \in BOOLEAN : ReadBytes(n, peek)
    <3>1. PICK n \in 1..MaxContent, peek \in BOOLEAN : ReadBytes(n, peek)
      BY <2>2
    <3>2. n \in Nat
      BY ByteQueueAssumption
    <3>3. QED BY <3>1, <3>2, ReadBytesKeeps
  <2>3. QED BY <1>1, <2>1, <2>2 DEF ReadSome
<1>2. CASE Clear
  <2>1. Set(Fresh(0), <<>>) /\ 0 \in Nat
    BY <1>2 DEF Clear
  <2>2. QED BY <2>1, FreshStands, SetKeeps
<1>3. CASE ~IsView /\ (WriteSome \/ ReadLines \/ Resize \/ ReadAll \/ Reset)
  <2>1. ~Viewed(queue)
    BY <1>3 DEF IsView, Viewed
  <2>2. CASE WriteSome
    <3>1. PICK b \in Texts : WriteTo(b) \/ WriteBytesTo(b) \/ \E n \in 0..MaxContent : Recv(b, n)
      BY <2>2 DEF WriteSome
    <3>2. CASE WriteTo(b) \/ WriteBytesTo(b)
      BY <2>1, <3>2, WriteKeeps
    <3>3. CASE \E n \in 0..MaxContent : Recv(b, n)
      <4>1. PICK n \in 0..MaxContent : Recv(b, n)
        BY <3>3
      <4>2. n \in Nat
        BY ByteQueueAssumption
      <4>3. QED BY <2>1, <4>1, <4>2, RecvKeeps
    <3>4. QED BY <3>1, <3>2, <3>3
  <2>3. CASE ReadLines
    <3>1. PICK offset \in 0..MaxContent, crlf \in BOOLEAN :
            ReadLine(offset, crlf) \/ ReadLineStrays(offset, crlf)
      BY <2>3 DEF ReadLines
    <3>2. CASE ReadLine(offset, crlf)
      <4>1. offset \in Nat
        BY ByteQueueAssumption
      <4>2. QED BY <2>1, <3>2, <4>1, ReadLineKeeps
    <3>3. CASE ReadLineStrays(offset, crlf)
      BY <3>3 DEF ReadLineStrays, InItsCells
    <3>4. QED BY <3>1, <3>2, <3>3
  <2>4. CASE Resize
    BY <2>1, <2>4, ResizeKeeps
  <2>5. CASE ReadAll
    BY <2>5, ReadAllKeeps
  <2>6. CASE Reset
    <3>1. Set(Fresh(queue.cap), <<>>) /\ queue.cap \in Nat
      BY <2>6, Fields DEF Reset, InItsCells, Stands
    <3>2. QED BY <3>1, FreshStands, SetKeeps
  <2>7. QED BY <1>3, <2>2, <2>3, <2>4, <2>5, <2>6
<1>4. QED BY <1>1, <1>2, <1>3 DEF ByteQueueNext

LEMMA InItsCellsIsSequence ==
  ASSUME InItsCells
  PROVE  QueueIsSequence
<1>1. /\ Stands(queue, content) /\ exact /\ Len(content) = BytesReadable(queue)
      /\ content \in Seq(ByteSet) /\ Len(content) \in 0..Len(content) /\ Ring(queue)
  BY NothingRead DEF InItsCells, Stands
<1>2. FirstBytes(queue, Len(content)) = SubSeq(content, 1, Len(content))
  BY <1>1, FrontRead
<1>3. SubSeq(content, 1, Len(content)) = content
  BY <1>1, SubSeqFull
<1>4. BytesReadable(queue) + BytesWritable(queue) = queue.cap
  <2>1. CASE ~Viewed(queue)
    BY <1>1, <2>1, Fields
  <2>2. CASE Viewed(queue)
    <3>1. queue.cap \in Nat /\ queue.rd = queue.cap /\ queue.wr = queue.cap
      BY <1>1, <2>2, Fields DEF Viewed
    <3>2. QED BY <3>1 DEF BytesReadable, BytesWritable
  <2>3. QED BY <2>1, <2>2
<1>5. QED BY <1>1, <1>2, <1>3, <1>4 DEF QueueIsSequence

(* A byte queue is the sequence of the bytes written and not yet read, for every *)
(* text that is written or received, every growth, shrinkage and reset, and      *)
(* every read: of byteQueue_t, its users in eventConnection_handleRecv and the   *)
(* Lua buffer.                                                                   *)
THEOREM ByteQueueIsSequence == ByteQueueSpec => []QueueIsSequence
<1>1. ByteQueueInit => InItsCells
  <2>1. 0 \in Nat
    OBVIOUS
  <2>2. QED BY <2>1, FreshStands DEF ByteQueueInit, InItsCells
<1>2. InItsCells /\ [ByteQueueNext]_byteQueueVars => InItsCells'
  <2>1. CASE ByteQueueNext
    BY <2>1, ByteQueueStepKeeps
  <2>2. CASE UNCHANGED byteQueueVars
    BY <2>2 DEF byteQueueVars, InItsCells
  <2>3. QED BY <2>1, <2>2
<1>3. InItsCells => QueueIsSequence
  BY InItsCellsIsSequence
<1>4. QED BY <1>1, <1>2, <1>3, PTL DEF ByteQueueSpec

-----------------------------------------------------------------------------
(* The lengths of writes *)

Writes == DOMAIN Shapes

LengthsOf(ws) == [i \in 1..Len(ws) |-> Length(ws[i])]

LEMMA LengthTyped ==
  ASSUME NEW w \in Writes
  PROVE  Length(w) \in Int
<1>1. Shapes[w] \in [vec : BOOLEAN, parts : Seq(Nat)]
  <2> DEFINE R == [vec : BOOLEAN, parts : Seq(Nat)]
  <2>1. Shapes \in Seq(R)
    BY SendAssumption
  <2> HIDE DEF R
  <2>2. DOMAIN Shapes = 1..Len(Shapes) /\ \A i \in 1..Len(Shapes) : Shapes[i] \in R
    BY <2>1
  <2>3. Shapes[w] \in R
    BY <2>2 DEF Writes
  <2>4. QED BY <2>3 DEF R
<1>2. PartsOf(w) \in Seq(Nat)
  BY <1>1 DEF PartsOf
<1>3. PartsOf(w) \in Seq(Int)
  <2>1. Len(PartsOf(w)) \in Nat /\ \A i \in 1..Len(PartsOf(w)) : PartsOf(w)[i] \in Int
    BY <1>2
  <2>2. PartsOf(w) = [i \in 1..Len(PartsOf(w)) |-> PartsOf(w)[i]]
    BY <1>2
  <2>3. QED BY <2>1, <2>2
<1>4. QED BY <1>3, SumTyped DEF Length

LEMMA LengthsTyped ==
  ASSUME NEW ws \in Seq(Writes)
  PROVE  LengthsOf(ws) \in Seq(Int) /\ Len(LengthsOf(ws)) = Len(ws)
<1>1. Len(ws) \in Nat /\ \A i \in 1..Len(ws) : ws[i] \in Writes
  OBVIOUS
<1>2. \A i \in 1..Len(ws) : Length(ws[i]) \in Int
  BY <1>1, LengthTyped
<1>3. QED BY <1>1, <1>2 DEF LengthsOf

\* Where no write has several parts, each takes off its own length.
LEMMA PlainLengths ==
  ASSUME NEW ws \in Seq(Writes), \A i \in 1..Len(ws) : ~IsVec(ws[i])
  PROVE  Lengths(ws) = LengthsOf(ws)
<1> DEFINE n == Len(ws)
           Body(f) == [i \in 0..n |-> IF i = 0 THEN 0
                                      ELSE Length(ws[i]) + IF IsVec(ws[i]) THEN f[i - 1] ELSE 0]
           u == CHOOSE f : f = Body(f)
           g == [i \in 0..n |-> IF i = 0 THEN 0 ELSE Length(ws[i])]
<1>1. n \in Nat /\ \A i \in 1..n : Length(ws[i]) \in Int
  <2>1. n \in Nat /\ \A i \in 1..n : ws[i] \in Writes
    OBVIOUS
  <2>2. QED BY <2>1, LengthTyped
<1>2. \A f : \A i \in 0..n : Body(f)[i] = IF i = 0 THEN 0 ELSE Length(ws[i])
  <2>1. ASSUME NEW f, NEW i \in 0..n PROVE Body(f)[i] = IF i = 0 THEN 0 ELSE Length(ws[i])
    <3>1. i # 0 => i \in 1..n
      BY <1>1
    <3>2. i # 0 => ~IsVec(ws[i]) /\ Length(ws[i]) \in Int
      BY <1>1, <3>1
    <3>3. QED BY <3>2
  <2>2. QED BY <2>1
<1>3. g = Body(g)
  BY <1>2
<1>4. u = Body(u)
  BY <1>3
<1>5. \A i \in 0..n : u[i] = IF i = 0 THEN 0 ELSE Length(ws[i])
  BY <1>2, <1>4
<1>6. Lengths(ws) = [i \in 1..n |-> u[i]]
  BY DEF Lengths
<1>7. \A i \in 1..n : u[i] = Length(ws[i])
  <2>1. \A i \in 1..n : i \in 0..n /\ i # 0
    BY <1>1
  <2>2. QED BY <1>5, <2>1
<1> HIDE DEF n, u
<1>8. QED BY <1>6, <1>7 DEF LengthsOf, n

-----------------------------------------------------------------------------
(* What was reported, and what waits *)

Firsts(reports) == [i \in 1..Len(reports) |-> reports[i][1]]

Reports == Writes \X BOOLEAN

Plain(ws) == \A i \in 1..Len(ws) : ~IsVec(ws[i])

SendInv ==
  /\ queueWritePending \in Seq(Writes) /\ reported \in Seq(Reports)
  /\ accepted = Firsts(reported) \o queueWritePending
  /\ iWritePending = Len(queueWritePending)
  /\ ~writing => queueWritePending = <<>>
  /\ Plain(accepted) => nWritePendingBytes = Sum(LengthsOf(queueWritePending))

\* Reports that are added.
LEMMA FirstsOf ==
  ASSUME NEW r \in Seq(Reports)
  PROVE  Firsts(r) \in Seq(Writes) /\ Len(Firsts(r)) = Len(r) /\ Len(r) \in Nat
<1>1. Len(r) \in Nat /\ \A i \in 1..Len(r) : r[i] \in Reports
  OBVIOUS
<1>2. \A i \in 1..Len(r) : r[i][1] \in Writes
  BY <1>1 DEF Reports
<1>3. QED BY <1>1, <1>2 DEF Firsts

LEMMA FirstsAdded ==
  ASSUME NEW r \in Seq(Reports), NEW d \in Seq(Reports)
  PROVE  Firsts(r \o d) = Firsts(r) \o Firsts(d)
<1> DEFINE a == Firsts(r)
           b == Firsts(d)
           t == r \o d
           m == Len(r)
           n == Len(d)
<1>1. /\ m \in Nat /\ n \in Nat /\ a \in Seq(Writes) /\ b \in Seq(Writes) /\ Len(a) = m /\ Len(b) = n
      /\ \A i \in 1..m : a[i] = r[i][1]
      /\ \A i \in 1..n : b[i] = d[i][1]
  BY FirstsOf DEF Firsts
<1>2. /\ t \in Seq(Reports) /\ Len(t) = m + n
      /\ \A i \in 1..(m + n) : t[i] = IF i <= m THEN r[i] ELSE d[i - m]
  BY ConcatProperties
<1>3. Firsts(t) \in Seq(Writes) /\ Len(Firsts(t)) = m + n /\ \A i \in 1..(m + n) : Firsts(t)[i] = t[i][1]
  BY <1>2, FirstsOf DEF Firsts
<1>4. /\ a \o b \in Seq(Writes) /\ Len(a \o b) = m + n
      /\ \A i \in 1..(m + n) : (a \o b)[i] = IF i <= m THEN a[i] ELSE b[i - m]
  <2> HIDE DEF a, b, m, n
  <2>1. QED BY <1>1, ConcatProperties
<1> HIDE DEF a, b, t, m, n
<1>5. \A i \in 1..(m + n) : Firsts(t)[i] = (a \o b)[i]
  <2>1. ASSUME NEW i \in 1..(m + n) PROVE Firsts(t)[i] = (a \o b)[i]
    <3>1. CASE i <= m
      <4>1. i \in 1..m
        BY <1>1, <3>1
      <4>2. Firsts(t)[i] = t[i][1] /\ t[i] = r[i]
        BY <1>2, <1>3, <3>1
      <4>3. a[i] = r[i][1] /\ (a \o b)[i] = a[i]
        BY <1>1, <1>4, <3>1, <4>1
      <4>4. QED BY <4>2, <4>3
    <3>2. CASE ~(i <= m)
      <4>1. i - m \in 1..n
        BY <1>1, <3>2
      <4>2. Firsts(t)[i] = t[i][1] /\ t[i] = d[i - m]
        BY <1>2, <1>3, <3>2
      <4>3. b[i - m] = d[i - m][1] /\ (a \o b)[i] = b[i - m]
        BY <1>1, <1>4, <3>2, <4>1
      <4>4. QED BY <4>2, <4>3
    <3>3. QED BY <3>1, <3>2
  <2>2. QED BY <2>1
<1>6. Firsts(t) = a \o b
  BY <1>3, <1>4, <1>5, SeqEqual
<1>7. QED BY <1>6 DEF a, b, t

LEMMA PlainSecond ==
  ASSUME NEW a \in Seq(Writes), NEW b \in Seq(Writes), Plain(a \o b)
  PROVE  Plain(b)
<1>1. PICK m : m = Len(a)
  OBVIOUS
<1>2. PICK n : n = Len(b)
  OBVIOUS
<1>3. PICK t : t = a \o b
  OBVIOUS
<1>4. /\ m \in Nat /\ n \in Nat /\ Len(t) = m + n
      /\ \A i \in 1..(m + n) : t[i] = IF i <= m THEN a[i] ELSE b[i - m]
  BY <1>1, <1>2, <1>3, ConcatProperties
<1>5. \A i \in 1..(m + n) : ~IsVec(t[i])
  BY <1>3, <1>4 DEF Plain
<1>6. ASSUME NEW i \in 1..n PROVE ~IsVec(b[i])
  <2>1. m + i \in 1..(m + n) /\ ~(m + i <= m) /\ (m + i) - m = i
    BY <1>4
  <2>2. t[m + i] = b[i]
    BY <1>4, <2>1
  <2>3. QED BY <1>5, <2>1, <2>2
<1>7. QED BY <1>2, <1>6 DEF Plain

\* The first writes of the queue are done, the rest waits.
LEMMA CompletedIs ==
  ASSUME queueWritePending \in Seq(Writes)
  PROVE  \E n \in 0..Len(queueWritePending) :
           /\ Completed.queue = SubSeq(queueWritePending, n + 1, Len(queueWritePending))
           /\ Completed.done = [i \in 1..n |-> <<queueWritePending[i], TRUE>>]
           /\ Completed.bytes = nWritePendingBytes - Sums(Lengths(queueWritePending))[n]
<1> DEFINE ws == queueWritePending
           gone  == Sums(Lengths(ws))
           ends  == {i \in 0..Len(ws) : i = Len(ws) \/ nWritten < gone[i + 1]}
           n     == CHOOSE i \in ends : \A j \in ends : i <= j
<1>1. ends \in SUBSET Nat /\ ends # {}
  <2>1. Len(ws) \in 0..Len(ws)
    OBVIOUS
  <2>2. QED BY <2>1
<1>2. \E i \in ends : \A j \in ends : i <= j
  <2> HIDE DEF ends
  <2>1. QED BY <1>1, Least
<1>3. n \in ends
  <2> HIDE DEF ends
  <2>1. QED BY <1>2
<1>4. Completed = [queue |-> SubSeq(ws, n + 1, Len(ws)), nWritten |-> nWritten - gone[n],
                   bytes |-> nWritePendingBytes - gone[n], done |-> [i \in 1..n |-> <<ws[i], TRUE>>]]
  BY DEF Completed
<1>5. n \in 0..Len(ws)
  BY <1>3
<1> HIDE DEF n
<1>6. QED BY <1>4, <1>5

\* Its parts fit together again.
LEMMA CompletedFits ==
  ASSUME SendInv
  PROVE  /\ Completed.queue \in Seq(Writes) /\ Completed.done \in Seq(Reports)
         /\ Firsts(Completed.done) \o Completed.queue = queueWritePending
         /\ Len(queueWritePending) = Len(Completed.done) + Len(Completed.queue)
         /\ Plain(accepted) => Completed.bytes = Sum(LengthsOf(Completed.queue))
<1> DEFINE q == queueWritePending
           z == Len(q)
<1>1. q \in Seq(Writes) /\ z \in Nat /\ \A i \in 1..z : q[i] \in Writes
  BY DEF SendInv
<1>2. PICK n \in 0..z :
           /\ Completed.queue = SubSeq(q, n + 1, z)
           /\ Completed.done = [i \in 1..n |-> <<q[i], TRUE>>]
           /\ Completed.bytes = nWritePendingBytes - Sums(Lengths(q))[n]
  BY <1>1, CompletedIs
<1>3. n \in Nat /\ n <= z
  BY <1>1, <1>2
<1> DEFINE d == Completed.done
           r == Completed.queue
<1>4. d \in Seq(Reports) /\ Len(d) = n /\ \A i \in 1..n : d[i] = <<q[i], TRUE>>
  <2>1. \A i \in 1..n : i \in 1..z
    BY <1>1, <1>3
  <2>2. \A i \in 1..n : q[i] \in Writes
    BY <1>1, <2>1
  <2>3. \A i \in 1..n : <<q[i], TRUE>> \in Reports
    BY <2>2 DEF Reports
  <2>4. d = [i \in 1..n |-> <<q[i], TRUE>>]
    BY <1>2
  <2> HIDE DEF d, q, z
  <2>5. d \in [1..n -> Reports] /\ \A i \in 1..n : d[i] = <<q[i], TRUE>>
    BY <2>3, <2>4
  <2>6. d \in Seq(Reports) /\ DOMAIN d = 1..n
    BY <1>3, <2>5
  <2>7. Len(d) = n
    BY <1>3, <2>6
  <2>8. QED BY <2>5, <2>6, <2>7
<1>5. r \in Seq(Writes) /\ Len(r) = z - n /\ \A i \in 1..(z - n) : r[i] = q[n + i]
  BY <1>1, <1>2, <1>3
<1>6. Firsts(d) = SubSeq(q, 1, n)
  <2>1. SubSeq(q, 1, n) \in Seq(Writes) /\ Len(SubSeq(q, 1, n)) = n /\ \A i \in 1..n : SubSeq(q, 1, n)[i] = q[i]
    BY <1>1, <1>3
  <2>2. Firsts(d) \in Seq(Writes) /\ Len(Firsts(d)) = n /\ \A i \in 1..n : Firsts(d)[i] = d[i][1]
    BY <1>4, FirstsOf DEF Firsts
  <2> HIDE DEF d, q
  <2>3. \A i \in 1..n : Firsts(d)[i] = SubSeq(q, 1, n)[i]
    <3>1. ASSUME NEW i \in 1..n PROVE Firsts(d)[i] = SubSeq(q, 1, n)[i]
      <4>1. Firsts(d)[i] = d[i][1] /\ d[i] = <<q[i], TRUE>> /\ SubSeq(q, 1, n)[i] = q[i]
        BY <1>4, <2>1, <2>2
      <4>2. QED BY <4>1
    <3>2. QED BY <3>1
  <2>4. QED BY <2>1, <2>2, <2>3, SeqEqual
<1>7. SubSeq(q, 1, n) \o SubSeq(q, n + 1, z) = q
  <2>1. SubSeq(q, 1, n) \o SubSeq(q, n + 1, z) = SubSeq(q, 1, z)
    <3>1. 1 \in 1..(z + 1) /\ n \in (1 - 1)..z /\ z \in n..z
      BY <1>1, <1>3
    <3>2. QED BY <1>1, <3>1, ConcatAdjacentSubSeq
  <2>2. SubSeq(q, 1, z) = q
    BY <1>1, SubSeqFull
  <2>3. QED BY <2>1, <2>2
<1>8. ASSUME Plain(accepted) PROVE Completed.bytes = Sum(LengthsOf(r))
  <2>1. \A i \in 1..z : ~IsVec(q[i])
    <3>1. Firsts(reported) \in Seq(Writes) /\ accepted = Firsts(reported) \o q
      BY FirstsOf DEF SendInv
    <3>2. Plain(q)
      BY <1>1, <1>8, <3>1, PlainSecond
    <3>3. QED BY <3>2 DEF Plain
  <2>2. Lengths(q) = LengthsOf(q) /\ nWritePendingBytes = Sum(LengthsOf(q))
    BY <1>1, <1>8, <2>1, PlainLengths DEF SendInv
  <2>3. PICK s : s = LengthsOf(q)
    OBVIOUS
  <2>4. s \in Seq(Int) /\ Len(s) = z
    BY <1>1, <2>3, LengthsTyped
  <2>5. Sum(SubSeq(s, n + 1, Len(s))) = Sum(s) - Sums(s)[n]
    BY <1>2, <2>4, SumOfRest
  <2>6. SubSeq(s, n + 1, Len(s)) = LengthsOf(r)
    <3>1. /\ SubSeq(s, n + 1, z) \in Seq(Int) /\ Len(SubSeq(s, n + 1, z)) = z - n
          /\ \A i \in 1..(z - n) : SubSeq(s, n + 1, z)[i] = s[n + i]
      BY <1>1, <1>3, <2>4
    <3>2. LengthsOf(r) \in Seq(Int) /\ Len(LengthsOf(r)) = z - n
      BY <1>5, LengthsTyped
    <3>3. \A i \in 1..(z - n) : LengthsOf(r)[i] = Length(r[i])
      BY <1>5 DEF LengthsOf
    <3>4. \A i \in 1..(z - n) : s[n + i] = Length(q[n + i])
      <4>1. \A i \in 1..(z - n) : n + i \in 1..z
        BY <1>1, <1>3
      <4>2. QED BY <2>3, <4>1 DEF LengthsOf
    <3>5. \A i \in 1..(z - n) : SubSeq(s, n + 1, z)[i] = LengthsOf(r)[i]
      BY <1>5, <3>1, <3>3, <3>4
    <3>6. QED BY <2>4, <3>1, <3>2, <3>5, SeqEqual
  <2>7. QED BY <1>2, <2>2, <2>3, <2>5, <2>6
<1>9. r = SubSeq(q, n + 1, z)
  BY <1>2
<1>10. Firsts(d) \o r = q
  BY <1>6, <1>7, <1>9
<1>11. z = Len(d) + Len(r)
  <2> HIDE DEF d, r, z
  <2>1. QED BY <1>1, <1>3, <1>4, <1>5
<1>12. r \in Seq(Writes) /\ d \in Seq(Reports)
  BY <1>4, <1>5
<1>13. QED BY <1>8, <1>10, <1>11, <1>12

-----------------------------------------------------------------------------
(* The invariant *)

LEMMA SendInitially == SendInit => SendInv
<1> SUFFICES ASSUME SendInit PROVE SendInv
  OBVIOUS
<1>1. queueWritePending = <<>> /\ reported = <<>> /\ accepted = <<>> /\ iWritePending = 0 /\ nWritePendingBytes = 0
  BY DEF SendInit
<1>2. queueWritePending \in Seq(Writes) /\ reported \in Seq(Reports) /\ Len(queueWritePending) = 0
  BY <1>1
<1>3. Firsts(reported) = <<>> /\ LengthsOf(queueWritePending) = <<>>
  <2>1. Len(reported) = 0 /\ Len(queueWritePending) = 0
    BY <1>1
  <2>2. QED BY <2>1 DEF Firsts, LengthsOf
<1>4. QED BY <1>1, <1>2, <1>3, SumOfNothing DEF SendInv

LEMMA AcceptedTyped ==
  ASSUME SendInv
  PROVE  accepted \in Seq(Writes)
<1>1. Firsts(reported) \in Seq(Writes) /\ queueWritePending \in Seq(Writes)
  BY FirstsOf DEF SendInv
<1>2. QED BY <1>1, ConcatProperties DEF SendInv

LEMMA PlainBefore ==
  ASSUME NEW a \in Seq(Writes), NEW w \in Writes, Plain(Append(a, w))
  PROVE  Plain(a) /\ ~IsVec(w)
<1>1. PICK n : n = Len(a)
  OBVIOUS
<1>2. PICK t : t = Append(a, w)
  OBVIOUS
<1>3. n \in Nat /\ Len(t) = n + 1 /\ t[n + 1] = w /\ \A i \in 1..n : t[i] = a[i]
  BY <1>1, <1>2
<1>4. \A i \in 1..(n + 1) : ~IsVec(t[i])
  BY <1>2, <1>3 DEF Plain
<1>5. n + 1 \in 1..(n + 1) /\ \A i \in 1..n : i \in 1..(n + 1)
  BY <1>3
<1>6. ~IsVec(w)
  BY <1>3, <1>4, <1>5
<1>7. \A i \in 1..n : ~IsVec(a[i])
  BY <1>3, <1>4, <1>5
<1>8. QED BY <1>1, <1>6, <1>7 DEF Plain

\* A write more that waits.
LEMMA LengthsOfMore ==
  ASSUME NEW q \in Seq(Writes), NEW w \in Writes
  PROVE  LengthsOf(Append(q, w)) = Append(LengthsOf(q), Length(w))
<1>1. PICK n : n = Len(q)
  OBVIOUS
<1>2. PICK t : t = Append(q, w)
  OBVIOUS
<1>3. n \in Nat /\ t \in Seq(Writes) /\ Len(t) = n + 1 /\ t[n + 1] = w /\ \A i \in 1..n : t[i] = q[i]
  BY <1>1, <1>2
<1>4. PICK a : a = LengthsOf(q)
  OBVIOUS
<1>5. a \in Seq(Int) /\ Len(a) = n /\ \A i \in 1..n : a[i] = Length(q[i])
  BY <1>1, <1>4, LengthsTyped DEF LengthsOf
<1>6. PICK x : x = Length(w)
  OBVIOUS
<1>7. x \in Int
  BY <1>6, LengthTyped
<1>8. /\ Append(a, x) \in Seq(Int) /\ Len(Append(a, x)) = n + 1
      /\ Append(a, x)[n + 1] = x /\ \A i \in 1..n : Append(a, x)[i] = a[i]
  BY <1>3, <1>5, <1>7
<1>9. PICK b : b = LengthsOf(t)
  OBVIOUS
<1>10. b \in Seq(Int) /\ Len(b) = n + 1 /\ \A i \in 1..(n + 1) : b[i] = Length(t[i])
  BY <1>3, <1>9, LengthsTyped DEF LengthsOf
<1>11. ASSUME NEW i \in 1..(n + 1) PROVE b[i] = Append(a, x)[i]
  <2>1. CASE i = n + 1
    BY <1>3, <1>6, <1>8, <1>10, <2>1
  <2>2. CASE i # n + 1
    <3>1. i \in 1..n
      BY <1>3, <2>2
    <3>2. QED BY <1>3, <1>5, <1>8, <1>10, <3>1
  <2>3. QED BY <2>1, <2>2
<1>12. b = Append(a, x)
  BY <1>8, <1>10, <1>11, SeqEqual
<1>13. QED BY <1>2, <1>4, <1>6, <1>9, <1>12

LEMMA EnqueueKeeps ==
  ASSUME SendInv, NEW w \in Writes, Enqueue(w), accepted' = Append(accepted, w), reported' = reported,
         writing'
  PROVE  SendInv'
<1> DEFINE f == Firsts(reported)
           q == queueWritePending
<1>1. q \in Seq(Writes) /\ f \in Seq(Writes) /\ q' = Append(q, w) /\ accepted = f \o q
      /\ iWritePending = Len(q) /\ iWritePending' = iWritePending + 1
      /\ nWritePendingBytes' = nWritePendingBytes + Length(w)
  BY FirstsOf DEF SendInv, Enqueue
<1>2. q' \in Seq(Writes) /\ Len(q') = Len(q) + 1
  BY <1>1
<1>3. accepted' = f \o q'
  <2>1. accepted' = Append(f \o q, w)
    BY <1>1
  <2> HIDE DEF f, q
  <2>2. Append(f \o q, w) = f \o Append(q, w)
    <3>1. <<w>> \in Seq(Writes) /\ f \o q \in Seq(Writes)
      BY <1>1, ConcatProperties
    <3>2. Append(f \o q, w) = (f \o q) \o <<w>> /\ Append(q, w) = q \o <<w>>
      BY <1>1, <3>1, AppendIsConcat
    <3>3. (f \o q) \o <<w>> = f \o (q \o <<w>>)
      BY <1>1, <3>1, ConcatAssociative
    <3>4. QED BY <3>2, <3>3
  <2>3. QED BY <1>1, <2>1, <2>2
<1>4. ASSUME Plain(accepted') PROVE nWritePendingBytes' = Sum(LengthsOf(q'))
  <2>1. accepted \in Seq(Writes)
    BY AcceptedTyped
  <2>2. Plain(accepted)
    BY <1>4, <2>1, PlainBefore
  <2>3. nWritePendingBytes = Sum(LengthsOf(q))
    BY <2>2 DEF SendInv
  <2>4. LengthsOf(q') = Append(LengthsOf(q), Length(w))
    BY <1>1, LengthsOfMore
  <2>5. LengthsOf(q) \in Seq(Int) /\ Length(w) \in Int
    BY <1>1, LengthsTyped, LengthTyped
  <2>6. Sum(Append(LengthsOf(q), Length(w))) = Sum(LengthsOf(q)) + Length(w)
    BY <2>5, SumOfAppended
  <2>7. QED BY <1>1, <2>3, <2>4, <2>6
<1>5. f' = f /\ reported' \in Seq(Reports)
  BY DEF SendInv, Firsts
<1>6. iWritePending' = Len(q')
  BY <1>1, <1>2
<1>7. accepted' = (f \o q)'
  BY <1>3, <1>5
<1>8. QED BY <1>2, <1>4, <1>5, <1>6, <1>7 DEF SendInv

\* A write that is reported at once.
LEMMA ReportKeeps ==
  ASSUME SendInv, NEW w \in Writes, NEW b \in BOOLEAN, ~writing, accepted' = Append(accepted, w),
         reported' = Append(reported, <<w, b>>),
         UNCHANGED <<queueWritePending, iWritePending, nWritePendingBytes, writing>>
  PROVE  SendInv'
<1> DEFINE q == queueWritePending
<1>1. q = <<>> /\ reported \in Seq(Reports) /\ accepted = Firsts(reported) \o q
  BY DEF SendInv
<1>2. <<w, b>> \in Reports
  BY DEF Reports
<1>3. reported' = reported \o <<(<<w, b>>)>>
  BY <1>1, <1>2, AppendIsConcat
<1>4. <<(<<w, b>>)>> \in Seq(Reports) /\ reported' \in Seq(Reports)
  BY <1>1, <1>2
<1>5. Firsts(reported') = Firsts(reported) \o Firsts(<<(<<w, b>>)>>)
  BY <1>1, <1>3, <1>4, FirstsAdded
<1>6. Firsts(<<(<<w, b>>)>>) = <<w>>
  BY DEF Firsts
<1>7. Firsts(reported) \in Seq(Writes)
  BY <1>1, FirstsOf
<1>8. accepted' = Firsts(reported') \o q
  <2>1. accepted = Firsts(reported)
    BY <1>1, <1>7, ConcatEmptySeq
  <2>2. accepted' = Firsts(reported) \o <<w>>
    BY <1>7, <2>1, AppendIsConcat
  <2>3. Firsts(reported') \in Seq(Writes)
    BY <1>4, FirstsOf
  <2>4. Firsts(reported') \o <<>> = Firsts(reported')
    BY <2>3, ConcatEmptySeq
  <2>5. QED BY <1>1, <1>5, <1>6, <2>2, <2>4
<1>9. Firsts(reported') = Firsts(reported)'
  BY DEF Firsts
<1>10. Plain(accepted') => Plain(accepted)
  BY AcceptedTyped, PlainBefore
<1>11. QED BY <1>1, <1>4, <1>8, <1>9, <1>10 DEF SendInv

LEMMA FailuresOf ==
  ASSUME NEW q \in Seq(Writes)
  PROVE  Failures(q) \in Seq(Reports) /\ Firsts(Failures(q)) = q
<1>1. PICK n : n = Len(q)
  OBVIOUS
<1>2. n \in Nat /\ \A i \in 1..n : q[i] \in Writes
  BY <1>1
<1>3. PICK d : d = Failures(q)
  OBVIOUS
<1>4. d = [i \in 1..n |-> <<q[i], FALSE>>] /\ \A i \in 1..n : <<q[i], FALSE>> \in Reports
  BY <1>1, <1>2, <1>3 DEF Failures, Reports
<1>5. d \in [1..n -> Reports] /\ \A i \in 1..n : d[i] = <<q[i], FALSE>>
  BY <1>4
<1>6. d \in Seq(Reports) /\ DOMAIN d = 1..n
  BY <1>2, <1>5
<1>7. Len(d) = n
  BY <1>2, <1>6
<1>8. Firsts(d) \in Seq(Writes) /\ Len(Firsts(d)) = n /\ \A i \in 1..n : Firsts(d)[i] = d[i][1]
  BY <1>6, <1>7, FirstsOf DEF Firsts
<1>9. ASSUME NEW i \in 1..n PROVE Firsts(d)[i] = q[i]
  <2>1. Firsts(d)[i] = d[i][1] /\ d[i] = <<q[i], FALSE>>
    BY <1>5, <1>8
  <2>2. QED BY <2>1
<1>10. Firsts(d) = q
  BY <1>1, <1>8, <1>9, SeqEqual
<1>11. QED BY <1>3, <1>6, <1>10

\* Reports of the first of the writes that wait leave the rest of them waiting.
LEMMA ReportedFirst ==
  ASSUME NEW p \in Seq(Reports), NEW d \in Seq(Reports), NEW r \in Seq(Writes)
  PROVE  Firsts(p \o d) \o r = Firsts(p) \o (Firsts(d) \o r)
<1>1. Firsts(p) \in Seq(Writes) /\ Firsts(d) \in Seq(Writes)
  BY FirstsOf
<1>2. Firsts(p \o d) = Firsts(p) \o Firsts(d)
  BY FirstsAdded
<1>3. QED BY <1>1, <1>2, ConcatAssociative

LEMMA WritableKeeps ==
  ASSUME SendInv, NEW room, SocketWritable(room)
  PROVE  SendInv'
<1> DEFINE d == Completed.done
           r == Completed.queue
           q == queueWritePending
<1>1. /\ q' = r /\ iWritePending' = iWritePending - Len(d) /\ nWritePendingBytes' = Completed.bytes
      /\ reported' = reported \o d /\ writing' = (Len(r) > 0) /\ accepted' = accepted
  BY DEF SocketWritable
<1>2. /\ r \in Seq(Writes) /\ d \in Seq(Reports) /\ Firsts(d) \o r = q /\ Len(q) = Len(d) + Len(r)
      /\ Plain(accepted) => Completed.bytes = Sum(LengthsOf(r))
  BY CompletedFits
<1>3. reported \in Seq(Reports) /\ accepted = Firsts(reported) \o q /\ iWritePending = Len(q)
  BY DEF SendInv
<1> HIDE DEF d, r, q
<1>4. reported' \in Seq(Reports) /\ q' \in Seq(Writes)
  BY <1>1, <1>2, <1>3, ConcatProperties
<1>5. accepted' = Firsts(reported') \o q'
  <2>1. Firsts(reported \o d) \o r = Firsts(reported) \o (Firsts(d) \o r)
    BY <1>2, <1>3, ReportedFirst
  <2>2. QED BY <1>1, <1>2, <1>3, <2>1
<1>6. Len(d) \in Nat /\ Len(r) \in Nat
  BY <1>2
<1>7. iWritePending' = Len(q')
  BY <1>1, <1>2, <1>3, <1>6
<1>8. ~writing' => q' = <<>>
  <2>1. ~writing' => ~(Len(r) > 0)
    BY <1>1
  <2>2. ~(Len(r) > 0) => r = <<>>
    BY <1>2
  <2>3. QED BY <1>1, <2>1, <2>2
<1>9. Plain(accepted') => nWritePendingBytes' = Sum(LengthsOf(q'))
  BY <1>1, <1>2
<1>10. QED BY <1>4, <1>5, <1>7, <1>8, <1>9 DEF SendInv, q, LengthsOf, Firsts

\* All that waits is given up.
LEMMA GivenUp ==
  ASSUME SendInv, queueWritePending' = <<>>, iWritePending' = 0, accepted' = accepted,
         reported' \in Seq(Reports), Firsts(reported') = accepted,
         Plain(accepted) => nWritePendingBytes' = 0
  PROVE  SendInv'
<1>1. accepted' = Firsts(reported') \o <<>>
  BY AcceptedTyped, ConcatEmptySeq
<1>2. LengthsOf(queueWritePending)' = <<>>
  <2>1. Len(<<>>) = 0
    OBVIOUS
  <2>2. QED BY <2>1 DEF LengthsOf
<1>3. queueWritePending' \in Seq(Writes) /\ iWritePending' = Len(queueWritePending')
  OBVIOUS
<1>4. Plain(accepted') => nWritePendingBytes' = Sum(LengthsOf(queueWritePending'))
  BY <1>2, SumOfNothing DEF LengthsOf
<1>5. QED BY <1>1, <1>3, <1>4 DEF SendInv, Firsts, LengthsOf

LEMMA FailsKeeps ==
  ASSUME SendInv, WritableFails
  PROVE  SendInv'
<1> DEFINE d == Completed.done
           r == Completed.queue
           discount == [i \in 1..Len(r) |-> IF IsVec(r[i]) THEN Len(PartsOf(r[i])) ELSE Length(r[i])]
<1>1. /\ queueWritePending' = <<>> /\ iWritePending' = 0 /\ accepted' = accepted
      /\ reported' = (reported \o d) \o Failures(r)
      /\ nWritePendingBytes' = Completed.bytes - Sum(discount)
  BY DEF WritableFails
<1>2. /\ r \in Seq(Writes) /\ d \in Seq(Reports) /\ Firsts(d) \o r = queueWritePending
      /\ Plain(accepted) => Completed.bytes = Sum(LengthsOf(r))
  BY CompletedFits
<1>3. reported \in Seq(Reports) /\ accepted = Firsts(reported) \o queueWritePending
      /\ queueWritePending \in Seq(Writes)
  BY DEF SendInv
<1>4. Plain(accepted) => Plain(r)
  <2>1. Firsts(reported) \in Seq(Writes) /\ Firsts(d) \in Seq(Writes)
    BY <1>2, <1>3, FirstsOf
  <2>2. Plain(accepted) => Plain(queueWritePending)
    BY <1>3, <2>1, PlainSecond
  <2>3. Plain(queueWritePending) => Plain(r)
    <3> HIDE DEF d, r
    <3>1. QED BY <1>2, <2>1, PlainSecond
  <2>4. QED BY <2>2, <2>3
<1>5. Plain(r) => discount = LengthsOf(r)
  <2> HIDE DEF r
  <2>1. QED BY DEF Plain, LengthsOf
<1> HIDE DEF d, r, discount
<1>6. Plain(accepted) => nWritePendingBytes' = 0
  <2>1. LengthsOf(r) \in Seq(Int)
    BY <1>2, LengthsTyped
  <2>2. Sum(LengthsOf(r)) \in Int
    BY <2>1, SumTyped
  <2>3. QED BY <1>1, <1>2, <1>4, <1>5, <2>2
<1>7. /\ reported \o d \in Seq(Reports) /\ Failures(r) \in Seq(Reports)
      /\ Firsts(Failures(r)) = r
  BY <1>2, <1>3, ConcatProperties, FailuresOf
<1>8. reported' \in Seq(Reports)
  BY <1>1, <1>7, ConcatProperties
<1>9. Firsts(reported') = accepted
  <2>1. Firsts(reported') = Firsts(reported \o d) \o r
    BY <1>1, <1>7, FirstsAdded
  <2>2. Firsts(reported \o d) \o r = Firsts(reported) \o (Firsts(d) \o r)
    BY <1>2, <1>3, ReportedFirst
  <2>3. QED BY <1>2, <1>3, <2>1, <2>2
<1>10. QED BY <1>1, <1>6, <1>8, <1>9, GivenUp

LEMMA DropKeeps ==
  ASSUME SendInv, DropAll
  PROVE  SendInv'
<1> DEFINE q == queueWritePending
<1>1. /\ queueWritePending' = <<>> /\ iWritePending' = 0 /\ accepted' = accepted
      /\ reported' = reported \o Failures(q)
      /\ nWritePendingBytes' = nWritePendingBytes - Sum(Lengths(q))
  BY DEF DropAll
<1>2. /\ reported \in Seq(Reports) /\ accepted = Firsts(reported) \o q /\ q \in Seq(Writes)
      /\ Plain(accepted) => nWritePendingBytes = Sum(LengthsOf(q))
  BY DEF SendInv
<1>3. Plain(accepted) => Plain(q)
  <2>1. Firsts(reported) \in Seq(Writes)
    BY <1>2, FirstsOf
  <2>2. QED BY <1>2, <2>1, PlainSecond
<1>4. ASSUME Plain(q) PROVE Lengths(q) = LengthsOf(q)
  <2>1. \A i \in 1..Len(q) : ~IsVec(q[i])
    BY <1>4 DEF Plain
  <2> HIDE DEF q
  <2>2. QED BY <1>2, <2>1, PlainLengths
<1> HIDE DEF q
<1>6. Plain(accepted) => nWritePendingBytes' = 0
  <2>1. LengthsOf(q) \in Seq(Int)
    BY <1>2, LengthsTyped
  <2>2. Sum(LengthsOf(q)) \in Int
    BY <2>1, SumTyped
  <2>3. QED BY <1>1, <1>2, <1>3, <1>4, <2>2
<1>5. Failures(q) \in Seq(Reports) /\ Firsts(Failures(q)) = q
  BY <1>2, FailuresOf
<1>7. reported' \in Seq(Reports)
  BY <1>1, <1>2, <1>5, ConcatProperties
<1>8. Firsts(reported') = accepted
  BY <1>1, <1>2, <1>5, FirstsAdded
<1>9. QED BY <1>1, <1>6, <1>7, <1>8, GivenUp

LEMMA SendStep ==
  ASSUME SendInv, [SendNext]_sendVars
  PROVE  SendInv'
<1>1. ASSUME NEW w \in Writes, SendFails(w) PROVE SendInv'
  BY <1>1, ReportKeeps DEF SendFails
<1>2. ASSUME NEW w \in Writes, NEW room \in 0..MaxRoom, SendData(w, room) PROVE SendInv'
  <2>1. CASE writing
    BY <1>2, <2>1, EnqueueKeeps DEF SendData
  <2>2. CASE ~writing
    <3> DEFINE bytes == Taken(Span(w, 1, Length(w)), room)
               waits == room > 0 /\ Len(bytes) < Length(w)
    <3>1. /\ accepted' = Append(accepted, w)
          /\ IF waits
             THEN Enqueue(w) /\ writing' = TRUE /\ UNCHANGED reported
             ELSE /\ reported' = Append(reported, <<w, TRUE>>)
                  /\ UNCHANGED <<queueWritePending, iWritePending, nWritePendingBytes, writing>>
      BY <1>2, <2>2 DEF SendData
    <3> HIDE DEF bytes, waits
    <3>2. CASE waits
      BY <3>1, <3>2, EnqueueKeeps
    <3>3. CASE ~waits
      BY <2>2, <3>1, <3>3, ReportKeeps
    <3>4. QED BY <3>2, <3>3
  <2>3. QED BY <2>1, <2>2
<1>3. CASE UNCHANGED sendVars
  BY <1>3 DEF sendVars, SendInv, Firsts, LengthsOf
<1>4. QED BY <1>1, <1>2, <1>3, WritableKeeps, FailsKeeps, DropKeeps DEF SendNext, Writes

LEMMA InOrder == SendInv => ReportsInOrder
  BY DEF SendInv, ReportsInOrder, Firsts, LengthsOf, Plain

(* Each write that sendData was given is reported once and in order, or is *)
(* counted and waits behind those reported, whatever room the socket has   *)
(* and however the writes are shaped; as long as none has several parts,   *)
(* nWritePendingBytes is the sum of what waits.                            *)
THEOREM WritesReportedInOrder == SendSpec => []ReportsInOrder
<1>1. SendInit => SendInv
  BY SendInitially
<1>2. SendInv /\ [SendNext]_sendVars => SendInv'
  BY SendStep
<1>3. SendInv => ReportsInOrder
  BY InOrder
<1>4. QED BY <1>1, <1>2, <1>3, PTL DEF SendSpec
=============================================================================
