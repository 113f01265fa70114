------------------------ MODULE ServiceMailboxProofs ------------------------
(***************************************************************************)
(* Theorems about ServiceMailbox for every number of senders, loop threads *)
(* and messages: type correctness, the uniqueness of the watcher's token   *)
(* and serial execution of the service's code; then what becomes of the    *)
(* events: no wakeup is lost, the process cannot die of the protocol       *)
(* before the stop event has been processed, and the service implements    *)
(* the FIFO mailbox of Mailbox.                                            *)
(***************************************************************************)
EXTENDS ServiceMailbox, FiniteSetTheorems, TLAPS

-----------------------------------------------------------------------------
(* The inductive invariant. *)

\* What the calls of each kind of thread return to.
RetOK ==
  /\ \A s \in Senders : InCall(s) => ret[s] = "release"
  /\ InCall(Starter) => ret[Starter] \in {"return", "fnStart"}
  /\ pc[Starter] = "stopPut" => ret[Starter] = "fnStart"
  /\ \A w \in Workers : InCall(w) => ret[w] \in {"idle", "callback"}
  /\ \A w \in Workers : pc[w] = "stopPut" => ret[w] = "callback"

\* service_start has not started the watcher.
BeforeWatch == \/ pc[Starter] \in {"new", "fnStart", "stopPut", "watch"}
               \/ InCall(Starter) /\ ret[Starter] = "fnStart"

\* w has claimed the token and not yet given the mailbox up.
Runs(w) == \/ pc[w] \in {"drain", "event", "callback", "stopPut", "detach", "stopReset",
                         "batchDone", "yield", "reset"}
           \/ InCall(w) /\ ret[w] = "callback"

HasToken == posted \/ \E t \in Threads : HoldsToken(t)

\* The watcher's status says who may have the token and who may run.
TokenInv ==
  /\ TokenUnique
  /\ \A v, w \in Workers : Runs(v) /\ Runs(w) => v = w
  /\ HasToken => iStatus \in {0, 2}
  /\ \A w \in Workers : Runs(w) => iStatus \in {0, 3} /\ ~HasToken
  /\ BeforeWatch => iStatus = 0 /\ ~HasToken /\ \A w \in Workers : ~Runs(w)

-----------------------------------------------------------------------------
(* Type correctness. *)

\* A sender in a call has counted it.
SentOK == \A s \in Senders : pc[s] # "idle" => sent[s] > 0

\* A loop thread that goes for the next event of its batch has one.
BatchOK == \A w \in Workers : pc[w] \in {"event", "afterStop"} => batch[w] # <<>>

Typed == TypeOK /\ RetOK /\ SentOK /\ BatchOK

LEMMA InitTyped == Init => Typed
<1> SUFFICES ASSUME Init PROVE Typed
  OBVIOUS
<1>1. /\ pc \in [Threads -> SenderPCs \cup StarterPCs \cup WorkerPCs]
      /\ pc[Starter] = "new"
      /\ \A s \in Senders : pc[s] = "idle"
      /\ \A w \in Workers : pc[w] = "idle"
  BY ThreadsAreDistinct DEF Init, Threads, SenderPCs, StarterPCs, WorkerPCs
<1>2. /\ ret \in [Threads -> {"idle", "release", "return", "fnStart", "callback"}]
      /\ batch \in [Workers -> Seq(Events \cup {Stop})]
      /\ sent \in [Senders -> 0..MaxSends]
  BY BoundIsNatural DEF Init
<1>3. /\ queuePending \in Seq(Events \cup {Stop})
      /\ accepted \in Seq(Events \cup {Stop})
      /\ delivered \in Seq(Events)
  BY DEF Init
<1>4. /\ bRunning \in BOOLEAN /\ pUserData \in BOOLEAN /\ registered \in BOOLEAN
      /\ pEventWatcher \in BOOLEAN /\ posted \in BOOLEAN
  BY Zenon DEF Init
<1>5. /\ iRefCount \in Int /\ uiQueueSize \in Int /\ iStatus \in 0..3 /\ watcherRefs \in Int
      /\ fault \in {"none", "assert", "null", "uaf"}
      /\ phase \in {"starting", "open", "closed", "failed"}
  BY DEF Init
<1>6. TypeOK
  BY <1>1, <1>2, <1>3, <1>4, <1>5 DEF TypeOK, SenderPCs, StarterPCs, WorkerPCs
<1>7. RetOK
  BY <1>1 DEF RetOK, InCall
<1>8. SentOK
  BY <1>1 DEF SentOK
<1>9. BatchOK
  BY <1>1 DEF BatchOK
<1> QED BY <1>6, <1>7, <1>8, <1>9 DEF Typed

\* A step that only ends the process, or stutters.
LEMMA CrashTyped ==
  ASSUME Typed, UNCHANGED <<serviceVars, queueVars, watcherVars, pc, ret, localVars, history>>,
         fault' \in {"none", "assert", "null", "uaf"}
  PROVE  Typed'
BY DEF Typed, TypeOK, RetOK, SentOK, BatchOK, InCall, serviceVars, queueVars, watcherVars, localVars, history

LEMMA NotifyTyped ==
  ASSUME Typed, NEW t \in Threads, NotifyRead(t) \/ NotifyCas(t) \/ PostQueued(t)
  PROVE  Typed'
<1>1. CASE NotifyRead(t)
  <2>1. CASE pEventWatcher
    <3>1. /\ pc[t] = "notify" /\ Goto(t, "cas")
          /\ UNCHANGED <<serviceVars, queueVars, watcherVars, ret, localVars, fault, history>>
      BY <1>1, <2>1, Zenon DEF NotifyRead, At
    <3> QED
      BY <3>1, ThreadsAreDistinct
         DEF At, Goto, Call, Typed, TypeOK, RetOK, SentOK, BatchOK, InCall, Threads,
             SenderPCs, StarterPCs, WorkerPCs, serviceVars, queueVars, watcherVars, localVars, history
  <2>2. CASE ~pEventWatcher
    BY <1>1, <2>2, CrashTyped, Zenon DEF NotifyRead, Crash
  <2> QED BY <2>1, <2>2
<1>2. CASE NotifyCas(t)
  BY <1>2, ThreadsAreDistinct
     DEF NotifyCas, At, Goto, Call, Typed, TypeOK, RetOK, SentOK, BatchOK, InCall, Threads,
         SenderPCs, StarterPCs, WorkerPCs, serviceVars, queueVars, watcherVars, localVars, history
<1>3. CASE PostQueued(t)
  BY <1>3, ThreadsAreDistinct
     DEF PostQueued, At, Goto, Call, Typed, TypeOK, RetOK, SentOK, BatchOK, InCall, Threads,
         SenderPCs, StarterPCs, WorkerPCs, serviceVars, queueVars, watcherVars, localVars, history
<1> QED BY <1>1, <1>2, <1>3

LEMMA StopTyped ==
  ASSUME Typed, NEW t \in Threads, NEW from \in {"fnStart", "callback"},
         t = Starter => from = "fnStart", t \in Workers => from = "callback", t \notin Senders,
         CallStop(t, from) \/ StopPut(t)
  PROVE  Typed'
<1>1. CASE CallStop(t, from)
  BY <1>1, ThreadsAreDistinct
     DEF CallStop, At, Goto, Call, Typed, TypeOK, RetOK, SentOK, BatchOK, InCall, Threads,
         SenderPCs, StarterPCs, WorkerPCs, serviceVars, queueVars, watcherVars, localVars, history
<1>2. CASE StopPut(t)
  BY <1>2, ThreadsAreDistinct
     DEF StopPut, Insert, At, Goto, Call, Typed, TypeOK, RetOK, SentOK, BatchOK, InCall, Threads,
         SenderPCs, StarterPCs, WorkerPCs, serviceVars, queueVars, watcherVars, localVars, history
<1> QED BY <1>1, <1>2

LEMMA SenderTyped ==
  ASSUME Typed, NEW s \in Senders, Gain(s) \/ EnqueueCheck(s) \/ EnqueueCount(s) \/ EnqueueInsert(s)
           \/ Release(s)
  PROVE  Typed'
<1>1. CASE Gain(s)
  <2>1. /\ pc[s] = "idle" /\ sent[s] < MaxSends /\ iRefCount' = iRefCount + 1
        /\ sent' = [sent EXCEPT ![s] = @ + 1] /\ Goto(s, "check")
        /\ UNCHANGED <<bRunning, pUserData, registered, pEventWatcher, queueVars, watcherVars,
                       ret, batch, fault, history>>
    BY <1>1, Zenon DEF Gain, At
  <2>2. sent' \in [Senders -> 0..MaxSends] /\ SentOK'
    BY <2>1, BoundIsNatural DEF Typed, TypeOK, SentOK, Goto, Threads
  <2> QED
    BY <2>1, <2>2, ThreadsAreDistinct
    DEF Goto, Typed, TypeOK, RetOK, BatchOK, InCall, Threads,
        SenderPCs, StarterPCs, WorkerPCs, queueVars, watcherVars, history
<1>2. CASE EnqueueCheck(s)
  BY <1>2, ThreadsAreDistinct
     DEF EnqueueCheck, At, Goto, Call, Typed, TypeOK, RetOK, SentOK, BatchOK, InCall, Threads,
         SenderPCs, StarterPCs, WorkerPCs, serviceVars, queueVars, watcherVars, localVars, history
<1>3. CASE EnqueueCount(s)
  BY <1>3, ThreadsAreDistinct
     DEF EnqueueCount, At, Goto, Call, Typed, TypeOK, RetOK, SentOK, BatchOK, InCall, Threads,
         SenderPCs, StarterPCs, WorkerPCs, serviceVars, queueVars, watcherVars, localVars, history
<1>4. CASE EnqueueInsert(s)
  <2>1. <<s, sent[s]>> \in Events
    <3>1. pc[s] # "idle"
      BY <1>4 DEF EnqueueInsert, At
    <3>2. sent[s] \in 0..MaxSends /\ sent[s] > 0
      BY <3>1 DEF Typed, TypeOK, SentOK
    <3>3. sent[s] \in 1..MaxSends
      BY <3>2, BoundIsNatural
    <3> QED BY <3>3 DEF Events
  <2> HIDE DEF Events
  <2> QED
    BY <1>4, <2>1, ThreadsAreDistinct
    DEF EnqueueInsert, Insert, At, Goto, Call, Typed, TypeOK, RetOK, SentOK, BatchOK, InCall, Threads,
        SenderPCs, StarterPCs, WorkerPCs, serviceVars, queueVars, watcherVars, localVars, history
<1>5. CASE Release(s)
  BY <1>5, ThreadsAreDistinct
     DEF Release, At, Goto, Call, Typed, TypeOK, RetOK, SentOK, BatchOK, InCall, Threads,
         SenderPCs, StarterPCs, WorkerPCs, serviceVars, queueVars, watcherVars, localVars, history
<1> QED BY <1>1, <1>2, <1>3, <1>4, <1>5

LEMMA StarterTyped ==
  ASSUME Typed, StartBegin \/ FnStartFails \/ FnStartSucceeds \/ WatcherStart \/ WatcherStartRef
           \/ StartReturn
  PROVE  Typed'
<1>1. CASE StartBegin
  BY <1>1, ThreadsAreDistinct
     DEF StartBegin, At, Goto, Call, Typed, TypeOK, RetOK, SentOK, BatchOK, InCall, Threads,
         SenderPCs, StarterPCs, WorkerPCs, serviceVars, queueVars, watcherVars, localVars, history
<1>2. CASE FnStartFails
  <2>1. /\ pc[Starter] = "fnStart" /\ iRefCount' = iRefCount - 1 /\ phase' = "failed"
        /\ Goto(Starter, "done") /\ bRunning' \in BOOLEAN
        /\ UNCHANGED <<pUserData, registered, pEventWatcher, queueVars, watcherVars, ret,
                       localVars, fault, delivered>>
    BY <1>2, Zenon DEF FnStartFails, At
  <2> QED
    BY <2>1, ThreadsAreDistinct
    DEF Goto, Typed, TypeOK, RetOK, SentOK, BatchOK, InCall, Threads,
        SenderPCs, StarterPCs, WorkerPCs, serviceVars, queueVars, watcherVars, localVars, history
<1>3. CASE FnStartSucceeds
  BY <1>3, ThreadsAreDistinct
     DEF FnStartSucceeds, At, Goto, Call, Typed, TypeOK, RetOK, SentOK, BatchOK, InCall, Threads,
         SenderPCs, StarterPCs, WorkerPCs, serviceVars, queueVars, watcherVars, localVars, history
<1>4. CASE WatcherStart
  BY <1>4, ThreadsAreDistinct
     DEF WatcherStart, At, Goto, Call, Typed, TypeOK, RetOK, SentOK, BatchOK, InCall, Threads,
         SenderPCs, StarterPCs, WorkerPCs, serviceVars, queueVars, watcherVars, localVars, history
<1>5. CASE WatcherStartRef
  BY <1>5, ThreadsAreDistinct
     DEF WatcherStartRef, At, Goto, Call, Typed, TypeOK, RetOK, SentOK, BatchOK, InCall, Threads,
         SenderPCs, StarterPCs, WorkerPCs, serviceVars, queueVars, watcherVars, localVars, history
<1>6. CASE StartReturn
  BY <1>6, ThreadsAreDistinct
     DEF StartReturn, At, Goto, Call, Typed, TypeOK, RetOK, SentOK, BatchOK, InCall, Threads,
         SenderPCs, StarterPCs, WorkerPCs, serviceVars, queueVars, watcherVars, localVars, history
<1> QED BY <1>1, <1>2, <1>3, <1>4, <1>5, <1>6

LEMMA WorkerTyped ==
  ASSUME Typed, NEW w \in Workers,
         \/ Take(w) \/ Claim(w) \/ Drain(w) \/ NextEvent(w) \/ CallbackReturns(w) \/ BatchDone(w) \/ YieldReset(w)
         \/ EmptyReset(w) \/ Recheck(w) \/ Detach(w) \/ StopReset(w) \/ StopClose(w)
         \/ StopPost(w) \/ StopRelease(w) \/ AssertFails(w)
  PROVE  Typed'
<1>1. CASE Take(w)
  BY <1>1, ThreadsAreDistinct
     DEF Take, At, Goto, Call, Typed, TypeOK, RetOK, SentOK, BatchOK, InCall, Threads,
         SenderPCs, StarterPCs, WorkerPCs, serviceVars, queueVars, watcherVars, localVars, history
<1>2. CASE Claim(w)
  BY <1>2, ThreadsAreDistinct
     DEF Claim, WatcherRelease, At, Goto, Call, Typed, TypeOK, RetOK, SentOK, BatchOK, InCall, Threads,
         SenderPCs, StarterPCs, WorkerPCs, serviceVars, queueVars, watcherVars, localVars, history
<1>3. CASE Drain(w)
  BY <1>3, ThreadsAreDistinct
     DEF Drain, At, Goto, Call, Typed, TypeOK, RetOK, SentOK, BatchOK, InCall, Threads,
         SenderPCs, StarterPCs, WorkerPCs, serviceVars, queueVars, watcherVars, localVars, history
<1>4. CASE NextEvent(w)
  <2> DEFINE E == Events \cup {Stop}
  <2>1. batch[w] \in Seq(E) /\ batch[w] # <<>>
    BY <1>4 DEF NextEvent, At, Typed, TypeOK, BatchOK
  <2>2. Head(batch[w]) \in E /\ Tail(batch[w]) \in Seq(E)
    BY <2>1
  <2>3. batch' \in [Workers -> Seq(E)]
    BY <1>4, <2>2 DEF NextEvent, Typed, TypeOK
  <2>4. /\ pc[w] = "event" /\ uiQueueSize' = uiQueueSize - 1
        /\ batch' = [batch EXCEPT ![w] = Tail(@)]
        /\ \/ Goto(w, "detach") /\ delivered' = delivered
           \/ Goto(w, "callback") /\ delivered' \in {delivered, Append(delivered, Head(batch[w]))}
              /\ Head(batch[w]) # Stop
        /\ UNCHANGED <<serviceVars, queuePending, accepted, watcherVars, ret, sent, fault, phase>>
    BY <1>4, Zenon DEF NextEvent, At
  <2>5. delivered' \in Seq(Events)
    <3>1. delivered \in Seq(Events)
      BY DEF Typed, TypeOK
    <3>2. Head(batch[w]) # Stop => Append(delivered, Head(batch[w])) \in Seq(Events)
      BY <3>1, <2>2
    <3> QED BY <3>1, <3>2, <2>4
  <2>6. PICK l \in {"detach", "callback"} : Goto(w, l)
    BY <2>4
  <2>7. TypeOK'
    BY <2>3, <2>4, <2>5, <2>6, ThreadsAreDistinct
    DEF Goto, Typed, TypeOK, Threads, SenderPCs, StarterPCs, WorkerPCs, serviceVars, watcherVars
  <2>8. RetOK' /\ SentOK' /\ BatchOK'
    BY <2>4, <2>6, ThreadsAreDistinct
    DEF Goto, Typed, TypeOK, RetOK, SentOK, BatchOK, InCall, Threads
  <2> QED BY <2>7, <2>8 DEF Typed
<1>5. CASE CallbackReturns(w)
  BY <1>5, ThreadsAreDistinct
     DEF CallbackReturns, At, Goto, Call, Typed, TypeOK, RetOK, SentOK, BatchOK, InCall, Threads,
         SenderPCs, StarterPCs, WorkerPCs, serviceVars, queueVars, watcherVars, localVars, history
<1>6. CASE BatchDone(w)
  BY <1>6, ThreadsAreDistinct
     DEF BatchDone, At, Goto, Call, Typed, TypeOK, RetOK, SentOK, BatchOK, InCall, Threads,
         SenderPCs, StarterPCs, WorkerPCs, serviceVars, queueVars, watcherVars, localVars, history
<1>7. CASE YieldReset(w)
  BY <1>7, ThreadsAreDistinct
     DEF YieldReset, Reset, At, Goto, Call, Typed, TypeOK, RetOK, SentOK, BatchOK, InCall, Threads,
         SenderPCs, StarterPCs, WorkerPCs, serviceVars, queueVars, watcherVars, localVars, history
<1>8. CASE EmptyReset(w)
  BY <1>8, ThreadsAreDistinct
     DEF EmptyReset, Reset, At, Goto, Call, Typed, TypeOK, RetOK, SentOK, BatchOK, InCall, Threads,
         SenderPCs, StarterPCs, WorkerPCs, serviceVars, queueVars, watcherVars, localVars, history
<1>9. CASE Recheck(w)
  <2>1. /\ pc[w] = "recheck"
        /\ UNCHANGED <<serviceVars, queueVars, watcherVars, localVars, fault, history>>
    BY <1>9, Zenon DEF Recheck, At
  <2>2. CASE Call(w, "notify", "idle")
    BY <2>1, <2>2, ThreadsAreDistinct
    DEF Goto, Call, Typed, TypeOK, RetOK, SentOK, BatchOK, InCall, Threads,
        SenderPCs, StarterPCs, WorkerPCs, serviceVars, queueVars, watcherVars, localVars, history
  <2>3. CASE Goto(w, "idle") /\ UNCHANGED ret
    BY <2>1, <2>3, ThreadsAreDistinct
    DEF Goto, Call, Typed, TypeOK, RetOK, SentOK, BatchOK, InCall, Threads,
        SenderPCs, StarterPCs, WorkerPCs, serviceVars, queueVars, watcherVars, localVars, history
  <2> QED BY <1>9, <2>2, <2>3, Zenon DEF Recheck
<1>10. CASE Detach(w)
  <2>1. /\ pc[w] = "detach" /\ iRefCount' = iRefCount - 2 /\ phase' = "closed"
        /\ Goto(w, "stopReset")
        /\ pUserData' \in BOOLEAN /\ registered' \in BOOLEAN /\ pEventWatcher' \in BOOLEAN
        /\ UNCHANGED <<bRunning, queueVars, watcherVars, ret, localVars, fault, delivered>>
    BY <1>10, Zenon DEF Detach, At
  <2> QED
    BY <2>1, ThreadsAreDistinct
    DEF Goto, Typed, TypeOK, RetOK, SentOK, BatchOK, InCall, Threads,
        SenderPCs, StarterPCs, WorkerPCs, serviceVars, queueVars, watcherVars, localVars, history
<1>11. CASE StopReset(w)
  BY <1>11, ThreadsAreDistinct
     DEF StopReset, At, Goto, Call, Typed, TypeOK, RetOK, SentOK, BatchOK, InCall, Threads,
         SenderPCs, StarterPCs, WorkerPCs, serviceVars, queueVars, watcherVars, localVars, history
<1>12. CASE StopClose(w)
  BY <1>12, ThreadsAreDistinct
     DEF StopClose, At, Goto, Call, Typed, TypeOK, RetOK, SentOK, BatchOK, InCall, Threads,
         SenderPCs, StarterPCs, WorkerPCs, serviceVars, queueVars, watcherVars, localVars, history
<1>13. CASE StopPost(w)
  BY <1>13, ThreadsAreDistinct
     DEF StopPost, At, Goto, Call, Typed, TypeOK, RetOK, SentOK, BatchOK, InCall, Threads,
         SenderPCs, StarterPCs, WorkerPCs, serviceVars, queueVars, watcherVars, localVars, history
<1>14. CASE StopRelease(w)
  BY <1>14, ThreadsAreDistinct
     DEF StopRelease, WatcherRelease, At, Goto, Call, Typed, TypeOK, RetOK, SentOK, BatchOK, InCall, Threads,
         SenderPCs, StarterPCs, WorkerPCs, serviceVars, queueVars, watcherVars, localVars, history
<1>15. CASE AssertFails(w)
  BY <1>15, ThreadsAreDistinct
     DEF AssertFails, Crash, At, Goto, Call, Typed, TypeOK, RetOK, SentOK, BatchOK, InCall, Threads,
         SenderPCs, StarterPCs, WorkerPCs, serviceVars, queueVars, watcherVars, localVars, history
<1> QED BY <1>1, <1>2, <1>3, <1>4, <1>5, <1>6, <1>7, <1>8, <1>9, <1>10, <1>11, <1>12, <1>13, <1>14, <1>15

LEMMA NextTyped == Typed /\ [Next]_vars => Typed'
<1> SUFFICES ASSUME Typed, [Next]_vars PROVE Typed'
  OBVIOUS
<1>1. CASE UNCHANGED vars
  <2>1. fault' \in {"none", "assert", "null", "uaf"}
    BY <1>1 DEF vars, Typed, TypeOK
  <2> QED BY <1>1, <2>1, CrashTyped DEF vars
<1>2. CASE \E t \in Threads : UseAfterFree(t)
  BY <1>2, CrashTyped DEF UseAfterFree, Crash
<1>3. ASSUME NEW s \in Senders, SenderNext(s) PROVE Typed'
  BY <1>3, NotifyTyped, SenderTyped DEF SenderNext, Threads
<1>4. CASE StarterNext
  BY <1>4, NotifyTyped, StopTyped, StarterTyped, ThreadsAreDistinct DEF StarterNext, Threads
<1>5. ASSUME NEW w \in Workers, WorkerNext(w) PROVE Typed'
  BY <1>5, NotifyTyped, StopTyped, WorkerTyped, ThreadsAreDistinct DEF WorkerNext, Threads
<1> QED BY <1>1, <1>2, <1>3, <1>4, <1>5 DEF Next

LEMMA AlwaysTyped == Spec => []Typed
BY InitTyped, NextTyped, PTL DEF Spec

(***************************************************************************)
(* Every field keeps its type, and every thread stays in the program of    *)
(* its kind: sender, starter or loop thread.                               *)
(***************************************************************************)
THEOREM TypeCorrect == Spec => []TypeOK
BY AlwaysTyped, PTL DEF Typed

-----------------------------------------------------------------------------
(* The token and serial execution. *)

LEMMA InitToken == Init => TokenInv
<1> SUFFICES ASSUME Init PROVE TokenInv
  OBVIOUS
<1>1. \A t \in Threads : pc[t] \in {"new", "idle"}
  BY DEF Init
<1>2. ~HasToken /\ \A w \in Workers : ~Runs(w)
  BY <1>1, Zenon DEF Init, HasToken, HoldsToken, Runs, InCall, Threads
<1> QED
  BY <1>1, <1>2 DEF Init, TokenInv, TokenUnique, HasToken, HoldsToken

\* A step of t that neither takes the token nor starts to run, and leaves the
\* status and the queue alone.
KeepsToken(t) ==
  /\ \A u \in Threads \ {t} : pc'[u] = pc[u] /\ ret'[u] = ret[u]
  /\ iStatus' = iStatus
  /\ posted' = posted
  /\ HoldsToken(t)' => HoldsToken(t)
  /\ t \in Workers /\ Runs(t)' => Runs(t)
  /\ BeforeWatch' => BeforeWatch

LEMMA TokenKept ==
  ASSUME TokenInv, NEW t \in Threads, KeepsToken(t)
  PROVE  TokenInv'
<1>1. \A u \in Threads : HoldsToken(u)' => HoldsToken(u)
  BY DEF HoldsToken, KeepsToken
<1>2. \A w \in Workers : Runs(w)' => Runs(w)
  BY DEF Runs, InCall, KeepsToken, Threads
<1>3. HasToken' => HasToken
  BY <1>1 DEF HasToken, KeepsToken
<1>4. TokenUnique'
  BY <1>1 DEF TokenInv, TokenUnique, KeepsToken
<1> QED
  BY <1>2, <1>3, <1>4 DEF TokenInv, KeepsToken

LEMMA SenderKeeps ==
  ASSUME Typed, NEW s \in Senders,
         Gain(s) \/ EnqueueCheck(s) \/ EnqueueCount(s) \/ EnqueueInsert(s) \/ Release(s)
  PROVE  KeepsToken(s)
<1>1. CASE Gain(s)
  BY <1>1, ThreadsAreDistinct
  DEF Gain, KeepsToken, HoldsToken, Runs, BeforeWatch, InCall, At, Goto, Call,
      Typed, TypeOK, RetOK, Threads, watcherVars
<1>2. CASE EnqueueCheck(s)
  BY <1>2, ThreadsAreDistinct
  DEF EnqueueCheck, KeepsToken, HoldsToken, Runs, BeforeWatch, InCall, At, Goto, Call,
      Typed, TypeOK, RetOK, Threads, watcherVars
<1>3. CASE EnqueueCount(s)
  BY <1>3, ThreadsAreDistinct
  DEF EnqueueCount, KeepsToken, HoldsToken, Runs, BeforeWatch, InCall, At, Goto, Call,
      Typed, TypeOK, RetOK, Threads, watcherVars
<1>4. CASE EnqueueInsert(s)
  BY <1>4, ThreadsAreDistinct
  DEF EnqueueInsert, KeepsToken, HoldsToken, Runs, BeforeWatch, InCall, At, Goto, Call,
      Typed, TypeOK, RetOK, Threads, watcherVars
<1>5. CASE Release(s)
  BY <1>5, ThreadsAreDistinct
  DEF Release, KeepsToken, HoldsToken, Runs, BeforeWatch, InCall, At, Goto, Call,
      Typed, TypeOK, RetOK, Threads, watcherVars
<1> QED BY <1>1, <1>2, <1>3, <1>4, <1>5

LEMMA StarterKeeps ==
  ASSUME Typed, StartBegin \/ FnStartFails \/ FnStartSucceeds \/ WatcherStartRef \/ StartReturn
  PROVE  KeepsToken(Starter)
<1>1. CASE StartBegin
  BY <1>1, ThreadsAreDistinct
  DEF StartBegin, KeepsToken, HoldsToken, Runs, BeforeWatch, InCall, At, Goto, Call,
      Typed, TypeOK, RetOK, Threads, watcherVars
<1>2. CASE FnStartFails
  BY <1>2, ThreadsAreDistinct
  DEF FnStartFails, KeepsToken, HoldsToken, Runs, BeforeWatch, InCall, At, Goto, Call,
      Typed, TypeOK, RetOK, Threads, watcherVars
<1>3. CASE FnStartSucceeds
  BY <1>3, ThreadsAreDistinct
  DEF FnStartSucceeds, KeepsToken, HoldsToken, Runs, BeforeWatch, InCall, At, Goto, Call,
      Typed, TypeOK, RetOK, Threads, watcherVars
<1>4. CASE WatcherStartRef
  BY <1>4, ThreadsAreDistinct
  DEF WatcherStartRef, KeepsToken, HoldsToken, Runs, BeforeWatch, InCall, At, Goto, Call,
      Typed, TypeOK, RetOK, Threads, watcherVars
<1>5. CASE StartReturn
  BY <1>5, ThreadsAreDistinct
  DEF StartReturn, KeepsToken, HoldsToken, Runs, BeforeWatch, InCall, At, Goto, Call,
      Typed, TypeOK, RetOK, Threads, watcherVars
<1> QED BY <1>1, <1>2, <1>3, <1>4, <1>5

LEMMA WorkerKeeps ==
  ASSUME Typed, NEW w \in Workers,
         \/ Drain(w) \/ NextEvent(w) \/ CallbackReturns(w) \/ BatchDone(w)
         \/ Recheck(w) \/ Detach(w) \/ StopRelease(w)
  PROVE  KeepsToken(w)
<1>1. CASE Drain(w)
  BY <1>1, ThreadsAreDistinct
  DEF Drain, KeepsToken, HoldsToken, Runs, BeforeWatch, InCall, At, Goto, Call,
      Typed, TypeOK, RetOK, Threads, watcherVars
<1>2. CASE NextEvent(w)
  BY <1>2, ThreadsAreDistinct
  DEF NextEvent, KeepsToken, HoldsToken, Runs, BeforeWatch, InCall, At, Goto, Call,
      Typed, TypeOK, RetOK, Threads, watcherVars
<1>3. CASE CallbackReturns(w)
  BY <1>3, ThreadsAreDistinct
  DEF CallbackReturns, KeepsToken, HoldsToken, Runs, BeforeWatch, InCall, At, Goto, Call,
      Typed, TypeOK, RetOK, Threads, watcherVars
<1>4. CASE BatchDone(w)
  BY <1>4, ThreadsAreDistinct
  DEF BatchDone, KeepsToken, HoldsToken, Runs, BeforeWatch, InCall, At, Goto, Call,
      Typed, TypeOK, RetOK, Threads, watcherVars
<1>5. CASE Recheck(w)
  BY <1>5, ThreadsAreDistinct
  DEF Recheck, KeepsToken, HoldsToken, Runs, BeforeWatch, InCall, At, Goto, Call,
      Typed, TypeOK, RetOK, Threads, watcherVars
<1>6. CASE Detach(w)
  BY <1>6, ThreadsAreDistinct
  DEF Detach, KeepsToken, HoldsToken, Runs, BeforeWatch, InCall, At, Goto, Call,
      Typed, TypeOK, RetOK, Threads, watcherVars
<1>7. CASE StopRelease(w)
  BY <1>7, ThreadsAreDistinct
  DEF StopRelease, WatcherRelease, KeepsToken, HoldsToken, Runs, BeforeWatch, InCall, At, Goto, Call,
      Typed, TypeOK, RetOK, Threads, watcherVars
<1> QED BY <1>1, <1>2, <1>3, <1>4, <1>5, <1>6, <1>7

LEMMA StopKeeps ==
  ASSUME Typed, NEW t \in Threads, NEW from \in {"fnStart", "callback"},
         t = Starter => from = "fnStart", t \in Workers => from = "callback", t \notin Senders,
         CallStop(t, from) \/ StopPut(t)
  PROVE  KeepsToken(t)
<1>1. CASE CallStop(t, from)
  BY <1>1, ThreadsAreDistinct
  DEF CallStop, KeepsToken, HoldsToken, Runs, BeforeWatch, InCall, At, Goto, Call,
      Typed, TypeOK, RetOK, Threads, watcherVars
<1>2. CASE StopPut(t)
  BY <1>2, ThreadsAreDistinct
  DEF StopPut, KeepsToken, HoldsToken, Runs, BeforeWatch, InCall, At, Goto, Call,
      Typed, TypeOK, RetOK, Threads, watcherVars
<1> QED BY <1>1, <1>2

\* A step that moves no thread and changes neither the status nor the queue.
LEMMA TokenStutters ==
  ASSUME TokenInv, UNCHANGED <<pc, ret, iStatus, posted>>
  PROVE  TokenInv'
BY DEF TokenInv, TokenUnique, HasToken, HoldsToken, Runs, BeforeWatch, InCall

LEMMA NotifyToken ==
  ASSUME Typed, TokenInv, NEW t \in Threads, NotifyRead(t) \/ NotifyCas(t) \/ PostQueued(t)
  PROVE  TokenInv'
<1>1. CASE NotifyRead(t) /\ pEventWatcher
  <2>1. KeepsToken(t)
    <3>1. pc[t] = "notify" /\ Goto(t, "cas") /\ UNCHANGED <<watcherVars, ret>>
      BY <1>1, Zenon DEF NotifyRead, At
    <3> QED
      BY <3>1, ThreadsAreDistinct
      DEF KeepsToken, HoldsToken, Runs, BeforeWatch, InCall, Goto, Typed, TypeOK, Threads,
          watcherVars
  <2> QED BY <2>1, TokenKept
<1>2. CASE NotifyRead(t) /\ ~pEventWatcher
  BY <1>2, TokenStutters, Zenon DEF NotifyRead, Crash, watcherVars
<1>3. CASE NotifyCas(t) /\ iStatus # 1
  <2>1. KeepsToken(t)
    BY <1>3, ThreadsAreDistinct
    DEF NotifyCas, KeepsToken, HoldsToken, Runs, BeforeWatch, InCall, At, Goto, Typed, TypeOK,
        RetOK, Threads
  <2> QED BY <2>1, TokenKept
<1>4. CASE NotifyCas(t) /\ iStatus = 1
  \* Status 1: nobody has the token, nobody runs, so t takes it alone.
  <2>1. ~HasToken /\ (\A w \in Workers : ~Runs(w)) /\ ~BeforeWatch
    BY <1>4 DEF TokenInv
  <2>2. /\ pc' = [pc EXCEPT ![t] = "post"] /\ pc[t] = "cas"
        /\ iStatus' = 2 /\ UNCHANGED <<posted, ret>>
    BY <1>4 DEF NotifyCas, At, Goto
  <2>3. \A u \in Threads : HoldsToken(u)' => u = t
    BY <2>1, <2>2 DEF HasToken, HoldsToken, Typed, TypeOK
  <2>4. \A w \in Workers : ~Runs(w)'
    BY <2>1, <2>2 DEF Runs, InCall, Typed, TypeOK, Threads
  <2>5. ~BeforeWatch'
    BY <2>1, <2>2, ThreadsAreDistinct DEF BeforeWatch, InCall, Typed, TypeOK, Threads
  <2> QED
    BY <2>1, <2>2, <2>3, <2>4, <2>5 DEF TokenInv, TokenUnique, HasToken
<1>5. CASE PostQueued(t)
  <2>1. HoldsToken(t) /\ ~posted /\ iStatus \in {0, 2}
    BY <1>5 DEF PostQueued, At, TokenInv, TokenUnique, HasToken, HoldsToken
  <2>2. ~BeforeWatch /\ \A w \in Workers : ~Runs(w)
    BY <2>1 DEF TokenInv, HasToken
  <2>3. /\ pc' = [pc EXCEPT ![t] = ret[t]] /\ pc[t] = "post"
        /\ posted' = TRUE /\ UNCHANGED <<iStatus, ret>>
    BY <1>5 DEF PostQueued, At, Goto
  <2>4. \A u \in Threads : ~HoldsToken(u)'
    BY <2>1, <2>3 DEF HoldsToken, TokenInv, TokenUnique, Typed, TypeOK
  <2>5. \A w \in Workers : ~Runs(w)'
    BY <2>2, <2>3 DEF Runs, InCall, Typed, TypeOK, RetOK, Threads
  <2>6. ~BeforeWatch'
    BY <2>2, <2>3, ThreadsAreDistinct DEF BeforeWatch, InCall, Typed, TypeOK, RetOK, Threads
  <2> QED
    BY <2>1, <2>3, <2>4, <2>5, <2>6 DEF TokenInv, TokenUnique, HasToken
<1> QED BY <1>1, <1>2, <1>3, <1>4, <1>5

LEMMA WatcherStartToken ==
  ASSUME Typed, TokenInv, WatcherStart
  PROVE  TokenInv'
<1>1. iStatus = 0 /\ ~HasToken /\ \A w \in Workers : ~Runs(w)
  BY DEF WatcherStart, At, TokenInv, BeforeWatch
<1>2. /\ pc' = [pc EXCEPT ![Starter] = "watchRef"]
      /\ iStatus' = 1 /\ UNCHANGED <<posted, ret>>
  BY <1>1 DEF WatcherStart, Goto
<1>3. ~HasToken' /\ \A t \in Threads : ~HoldsToken(t)'
  BY <1>1, <1>2 DEF HasToken, HoldsToken, Typed, TypeOK
<1>4. \A w \in Workers : ~Runs(w)'
  BY <1>1, <1>2, ThreadsAreDistinct DEF Runs, InCall, Typed, TypeOK, Threads
<1>5. ~BeforeWatch'
  BY <1>2 DEF BeforeWatch, InCall, Typed, TypeOK, Threads
<1> QED
  BY <1>2, <1>3, <1>4, <1>5 DEF TokenInv, TokenUnique, HasToken

LEMMA WorkerToken ==
  ASSUME Typed, TokenInv, NEW w \in Workers,
         \/ Take(w) \/ Claim(w) \/ EmptyReset(w) \/ YieldReset(w)
         \/ StopReset(w) \/ StopClose(w) \/ StopPost(w)
  PROVE  TokenInv'
<1> USE DEF Threads
<1>1. CASE Take(w)
  <2>1. iStatus \in {0, 2} /\ ~BeforeWatch /\ \A v \in Workers : ~Runs(v)
    BY <1>1 DEF Take, TokenInv, HasToken
  <2>2. \A t \in Threads : ~HoldsToken(t)
    BY <1>1 DEF Take, TokenInv, TokenUnique
  <2>3. /\ pc' = [pc EXCEPT ![w] = "claim"] /\ pc[w] = "idle"
        /\ posted' = FALSE /\ UNCHANGED <<iStatus, ret>>
    BY <1>1, Zenon DEF Take, At, Goto
  <2>4. \A t \in Threads : HoldsToken(t)' => t = w
    BY <2>2, <2>3 DEF HoldsToken, Typed, TypeOK
  <2>5. \A v \in Workers : ~Runs(v)'
    BY <2>1, <2>3 DEF Runs, InCall, Typed, TypeOK
  <2>6. ~BeforeWatch'
    BY <2>1, <2>3, ThreadsAreDistinct DEF BeforeWatch, InCall, Typed, TypeOK
  <2> QED
    BY <2>1, <2>3, <2>4, <2>5, <2>6 DEF TokenInv, TokenUnique
<1>2. CASE Claim(w)
  <2>1. HoldsToken(w) /\ ~posted /\ iStatus \in {0, 2}
    BY <1>2 DEF Claim, At, TokenInv, TokenUnique, HasToken, HoldsToken
  <2>2. ~BeforeWatch /\ \A v \in Workers : ~Runs(v)
    BY <2>1 DEF TokenInv, HasToken
  <2>3. /\ pc' = [pc EXCEPT ![w] = IF iStatus = 2 THEN "drain" ELSE "idle"]
        /\ pc[w] = "claim"
        /\ iStatus' = IF iStatus = 2 THEN 3 ELSE 0
        /\ UNCHANGED <<posted, ret>>
    BY <1>2, <2>1 DEF Claim, At, Goto
  <2>4. \A t \in Threads : ~HoldsToken(t)'
    BY <2>1, <2>3 DEF HoldsToken, TokenInv, TokenUnique, Typed, TypeOK
  <2>5. \A v \in Workers : Runs(v)' => v = w /\ iStatus' = 3
    BY <2>1, <2>2, <2>3 DEF Runs, InCall, Typed, TypeOK
  <2>6. ~BeforeWatch'
    BY <2>2, <2>3, ThreadsAreDistinct DEF BeforeWatch, InCall, Typed, TypeOK
  <2> QED
    BY <2>1, <2>3, <2>4, <2>5, <2>6 DEF TokenInv, TokenUnique, HasToken
<1>3. CASE EmptyReset(w) \/ YieldReset(w) \/ StopReset(w)
  \* The only thread that runs gives the mailbox up.
  <2>1. Runs(w)
    BY <1>3 DEF EmptyReset, YieldReset, StopReset, At, Runs
  <2>2. /\ iStatus \in {0, 3} /\ ~HasToken /\ ~BeforeWatch
        /\ \A v \in Workers : Runs(v) => v = w
    BY <2>1 DEF TokenInv
  <2>3. PICK l \in {"recheck", "notify", "stopClose"} :
        /\ pc' = [pc EXCEPT ![w] = l]
        /\ l = "notify" => ret'[w] = "idle"
        /\ \A u \in Threads \ {w} : ret'[u] = ret[u]
        /\ iStatus' \in {iStatus, 1}
        /\ posted' = posted
    BY <1>3 DEF EmptyReset, YieldReset, StopReset, Reset, Goto, Call, Typed, TypeOK
  <2>4. ~HasToken' /\ \A t \in Threads : ~HoldsToken(t)'
    BY <2>2, <2>3 DEF HasToken, HoldsToken, Typed, TypeOK
  <2>5. \A v \in Workers : ~Runs(v)'
    BY <2>2, <2>3 DEF Runs, InCall, Typed, TypeOK
  <2>6. ~BeforeWatch'
    BY <2>2, <2>3, ThreadsAreDistinct DEF BeforeWatch, InCall, Typed, TypeOK
  <2> QED
    BY <2>2, <2>3, <2>4, <2>5, <2>6 DEF TokenInv, TokenUnique, HasToken
<1>4. CASE StopClose(w)
  <2>1. PICK l \in {"stopPost", "stopRelease"} :
        /\ pc' = [pc EXCEPT ![w] = l] /\ pc[w] = "stopClose"
        /\ l = "stopPost" => iStatus = 1
        /\ iStatus' = 0 /\ UNCHANGED <<posted, ret>>
    BY <1>4 DEF StopClose, At, Goto
  <2>2. iStatus = 1 => ~HasToken /\ ~BeforeWatch /\ \A v \in Workers : ~Runs(v)
    BY DEF TokenInv
  <2>3. \A v \in Workers : Runs(v)' => Runs(v)
    BY <2>1 DEF Runs, InCall, Typed, TypeOK
  <2>4. \A t \in Threads : HoldsToken(t)' => HoldsToken(t) \/ (t = w /\ l = "stopPost")
    BY <2>1 DEF HoldsToken, Typed, TypeOK
  <2>5. BeforeWatch' => BeforeWatch
    BY <2>1, ThreadsAreDistinct DEF BeforeWatch, InCall, Typed, TypeOK
  <2>6. CASE l = "stopPost"
    BY <2>1, <2>2, <2>3, <2>4, <2>5, <2>6 DEF TokenInv, TokenUnique, HasToken
  <2>7. CASE l # "stopPost"
    BY <2>1, <2>3, <2>4, <2>5, <2>7 DEF TokenInv, TokenUnique, HasToken
  <2> QED BY <2>6, <2>7
<1>5. CASE StopPost(w)
  <2>1. HoldsToken(w) /\ ~posted /\ iStatus \in {0, 2}
    BY <1>5 DEF StopPost, At, TokenInv, TokenUnique, HasToken, HoldsToken
  <2>2. ~BeforeWatch /\ \A v \in Workers : ~Runs(v)
    BY <2>1 DEF TokenInv, HasToken
  <2>3. /\ pc' = [pc EXCEPT ![w] = "stopRelease"]
        /\ posted' = TRUE /\ UNCHANGED <<iStatus, ret>>
    BY <1>5 DEF StopPost, Goto
  <2>4. \A t \in Threads : ~HoldsToken(t)'
    BY <2>1, <2>3 DEF HoldsToken, TokenInv, TokenUnique, Typed, TypeOK
  <2>5. \A v \in Workers : ~Runs(v)'
    BY <2>2, <2>3 DEF Runs, InCall, Typed, TypeOK
  <2>6. ~BeforeWatch'
    BY <2>2, <2>3, ThreadsAreDistinct DEF BeforeWatch, InCall, Typed, TypeOK
  <2> QED
    BY <2>1, <2>3, <2>4, <2>5, <2>6 DEF TokenInv, TokenUnique, HasToken
<1> QED BY <1>1, <1>2, <1>3, <1>4, <1>5

LEMMA NextToken == Typed /\ TokenInv /\ [Next]_vars => TokenInv'
<1> SUFFICES ASSUME Typed, TokenInv, [Next]_vars PROVE TokenInv'
  OBVIOUS
<1>1. CASE UNCHANGED vars \/ \E t \in Threads : UseAfterFree(t)
  BY <1>1, TokenStutters DEF vars, UseAfterFree, Crash, watcherVars
<1>2. ASSUME NEW s \in Senders, SenderNext(s) PROVE TokenInv'
  BY <1>2, NotifyToken, SenderKeeps, TokenKept DEF SenderNext, Threads
<1>3. CASE StarterNext
  BY <1>3, NotifyToken, StopKeeps, StarterKeeps, WatcherStartToken, TokenKept, ThreadsAreDistinct
  DEF StarterNext, Threads
<1>4. ASSUME NEW w \in Workers, WorkerNext(w) PROVE TokenInv'
  <2>1. CASE AssertFails(w)
    BY <2>1, TokenStutters DEF AssertFails, Crash, watcherVars
  <2> QED
    BY <1>4, <2>1, NotifyToken, StopKeeps, WorkerKeeps, WorkerToken, TokenKept,
       ThreadsAreDistinct
    DEF WorkerNext, Threads
<1> QED BY <1>1, <1>2, <1>3, <1>4 DEF Next

LEMMA AlwaysToken == Spec => [](Typed /\ TokenInv)
BY InitTyped, InitToken, NextTyped, NextToken, PTL DEF Spec

(***************************************************************************)
(* The watcher's node is never in two places: eventIO_postQueued never     *)
(* links it into the loops' list while it is already there.                *)
(***************************************************************************)
THEOREM TokenIsUnique == Spec => []TokenUnique
BY AlwaysToken, PTL DEF TokenInv

(***************************************************************************)
(* Whatever the number of loop threads and senders, and whenever the       *)
(* service is stopped, its code runs on one loop thread at a time.         *)
(***************************************************************************)
THEOREM ServiceIsSerial == Spec => []SerialCallbacks
<1>1. TokenInv => SerialCallbacks
  BY DEF TokenInv, SerialCallbacks, InService, Runs
<1> QED BY <1>1, AlwaysToken, PTL

-----------------------------------------------------------------------------
(* Delivery: the inductive invariant, on top of Typed and TokenInv. *)

\* service_start has not been called: nobody else knows the service.
StartInv ==
  pc[Starter] = "new" =>
    /\ ~registered
    /\ \A t \in Threads \ {Starter} : pc[t] = "idle"

\* What the phase says about the threads and the watcher.
PhaseInv ==
  /\ phase = "starting" <=> BeforeWatch
  /\ phase = "failed" => iStatus = 0 /\ ~HasToken
  /\ phase = "open" => iStatus # 0
  /\ phase = "open" \/ pc[Starter] = "watch" => pUserData
  /\ phase = "closed" => ~pUserData
  /\ \A w \in Workers :
       pc[w] \in {"stopReset", "stopClose", "stopPost", "stopRelease", "afterStop"}
         => phase = "closed"
  /\ \A w \in Workers : Runs(w) => phase \in {"open", "closed"}

\* The senders that hold a reference.
Gained == {s \in Senders : pc[s] # "idle"}

\* Until the stop event is processed the watcher and the service are there.
RefInv ==
  phase # "closed" =>
    /\ IsFiniteSet(Gained)
    /\ iRefCount >= 1 + Cardinality(Gained)
    /\ BeforeWatch /\ pc[Starter] # "new" => iRefCount >= 2 + Cardinality(Gained)
    /\ pc[Starter] # "new" => pEventWatcher /\ watcherRefs >= 1

FaultInv == fault # "none" => phase = "closed"

\* w may have events in its local queue.
Consumes(w) ==
  \/ pc[w] \in {"event", "callback", "stopPut", "detach", "stopReset", "stopClose",
                "stopPost", "stopRelease", "afterStop"}
  \/ InCall(w) /\ ret[w] = "callback"

BatchInv == \A w \in Workers : batch[w] # <<>> => Consumes(w)

\* The senders between the count and the insertion.
Inserting == {s \in Senders : pc[s] = "insert"}

\* The count is never behind what is still to be handed out.
CountInv ==
  /\ IsFiniteSet(Inserting)
  /\ phase # "closed" =>
       \A w \in Workers :
         uiQueueSize >= Len(queuePending) + Len(batch[w]) + Cardinality(Inserting)

\* No event is sent twice: the next message of a sender, and the stop event.
FreshInv ==
  /\ \A s \in Senders, k \in 1..MaxSends :
       <<s, k>> \in M!Arrived =>
         /\ k <= sent[s]
         /\ pc[s] \in {"check", "count", "insert"} => k < sent[s]
  /\ Stop \in M!Arrived => ~bRunning /\ pc[Starter] # "new"
  /\ \A t \in Threads :
       pc[t] = "stopPut" =>
         /\ ~bRunning
         /\ Stop \notin M!Arrived
         /\ \A u \in Threads : pc[u] = "stopPut" => u = t

\* The stop event, taken off the batch and not yet acted upon.
InHand(w) == IF pc[w] = "detach" THEN 1 ELSE 0

\* The events not yet delivered are those of the running loop thread and
\* then those of the queue, in the order they were accepted.
FifoInv ==
  phase # "closed" =>
    /\ Len(queuePending) <= Len(accepted)
    /\ \A i \in 1..Len(queuePending) :
         queuePending[i] = accepted[Len(accepted) - Len(queuePending) + i]
    /\ (\A w \in Workers : ~Runs(w)) => Len(accepted) = Len(delivered) + Len(queuePending)
    /\ \A w \in Workers : Runs(w) =>
         /\ Len(accepted) = Len(delivered) + InHand(w) + Len(batch[w]) + Len(queuePending)
         /\ pc[w] = "detach" => accepted[Len(delivered) + 1] = Stop
         /\ \A i \in 1..Len(batch[w]) : batch[w][i] = accepted[Len(delivered) + InHand(w) + i]

-----------------------------------------------------------------------------
(* The phases and the references. *)

LEMMA SenderPhase ==
  ASSUME Typed, TokenInv, StartInv, PhaseInv, NEW s \in Senders,
         Gain(s) \/ EnqueueCheck(s) \/ EnqueueCount(s) \/ EnqueueInsert(s) \/ Release(s)
  PROVE  StartInv' /\ PhaseInv'
<1> USE ThreadsAreDistinct
    DEF At, Goto, Call, Typed, TypeOK, RetOK, InCall, Threads, HasToken, HoldsToken, Runs,
        BeforeWatch, StartInv, PhaseInv, TokenInv, TokenUnique, serviceVars, queueVars,
        watcherVars, localVars, history
<1>1. CASE Gain(s)
  BY <1>1 DEF Gain
<1>2. CASE EnqueueCheck(s)
  BY <1>2 DEF EnqueueCheck
<1>3. CASE EnqueueCount(s)
  BY <1>3 DEF EnqueueCount
<1>4. CASE EnqueueInsert(s)
  BY <1>4 DEF EnqueueInsert, Insert
<1>5. CASE Release(s)
  BY <1>5 DEF Release
<1> QED BY <1>1, <1>2, <1>3, <1>4, <1>5

LEMMA StarterPhase ==
  ASSUME Typed, TokenInv, StartInv, PhaseInv,
         StartBegin \/ FnStartFails \/ FnStartSucceeds \/ WatcherStart \/
         WatcherStartRef \/ StartReturn
  PROVE  StartInv' /\ PhaseInv'
<1> USE ThreadsAreDistinct
    DEF At, Goto, Call, Typed, TypeOK, RetOK, InCall, Threads, HasToken, HoldsToken, Runs,
        BeforeWatch, StartInv, PhaseInv, TokenInv, TokenUnique, serviceVars, queueVars,
        watcherVars, localVars, history
<1>1. CASE StartBegin
  BY <1>1 DEF StartBegin
<1>2. CASE FnStartFails
  BY <1>2 DEF FnStartFails
<1>3. CASE FnStartSucceeds
  BY <1>3 DEF FnStartSucceeds
<1>4. CASE WatcherStart
  BY <1>4 DEF WatcherStart
<1>5. CASE WatcherStartRef
  BY <1>5 DEF WatcherStartRef
<1>6. CASE StartReturn
  BY <1>6 DEF StartReturn
<1> QED BY <1>1, <1>2, <1>3, <1>4, <1>5, <1>6

LEMMA WorkerPhase ==
  ASSUME Typed, TokenInv, StartInv, PhaseInv, NEW w \in Workers,
         Take(w) \/ Claim(w) \/ Drain(w) \/ NextEvent(w) \/ CallbackReturns(w) \/
         BatchDone(w) \/ YieldReset(w) \/ EmptyReset(w) \/ Recheck(w) \/ Detach(w) \/
         StopReset(w) \/ StopClose(w) \/ StopPost(w) \/ StopRelease(w)
  PROVE  StartInv' /\ PhaseInv'
<1> USE ThreadsAreDistinct
    DEF At, Goto, Call, Typed, TypeOK, RetOK, InCall, Threads, HasToken, HoldsToken, Runs,
        BeforeWatch, StartInv, PhaseInv, TokenInv, TokenUnique, serviceVars, queueVars,
        watcherVars, localVars, history
<1>1. CASE Take(w)
  BY <1>1 DEF Take
<1>2. CASE Claim(w)
  BY <1>2 DEF Claim, WatcherRelease
<1>3. CASE Drain(w)
  BY <1>3 DEF Drain
<1>4. CASE NextEvent(w)
  BY <1>4 DEF NextEvent
<1>5. CASE CallbackReturns(w)
  BY <1>5 DEF CallbackReturns
<1>6. CASE BatchDone(w)
  BY <1>6 DEF BatchDone
<1>7. CASE YieldReset(w)
  BY <1>7 DEF YieldReset, Reset
<1>8. CASE EmptyReset(w)
  BY <1>8 DEF EmptyReset, Reset
<1>9. CASE Recheck(w)
  BY <1>9 DEF Recheck
<1>10. CASE Detach(w)
  BY <1>10 DEF Detach
<1>11. CASE StopReset(w)
  BY <1>11 DEF StopReset
<1>12. CASE StopClose(w)
  BY <1>12 DEF StopClose
<1>13. CASE StopPost(w)
  BY <1>13 DEF StopPost
<1>14. CASE StopRelease(w)
  BY <1>14 DEF StopRelease, WatcherRelease
<1> QED BY <1>1, <1>2, <1>3, <1>4, <1>5, <1>6, <1>7, <1>8, <1>9, <1>10, <1>11, <1>12,
        <1>13, <1>14

LEMMA NotifyPhase ==
  ASSUME Typed, TokenInv, StartInv, PhaseInv, NEW t \in Threads,
         NotifyRead(t) \/ NotifyCas(t) \/ PostQueued(t)
  PROVE  StartInv' /\ PhaseInv'
<1> USE ThreadsAreDistinct
    DEF At, Goto, Call, Typed, TypeOK, RetOK, InCall, Threads, HasToken, HoldsToken, Runs,
        BeforeWatch, StartInv, PhaseInv, TokenInv, TokenUnique, serviceVars, queueVars,
        watcherVars, localVars, history
<1>1. CASE NotifyRead(t)
  <2>1. /\ fault = "none" /\ pc[t] = "notify"
        /\ \/ Goto(t, "cas") /\ UNCHANGED fault
           \/ UNCHANGED pc /\ ~pEventWatcher /\ fault' = "null"
        /\ UNCHANGED <<serviceVars, queueVars, watcherVars, ret, localVars, history>>
    BY <1>1, Zenon DEF NotifyRead, At, Crash
  <2> QED BY <2>1
<1>2. CASE NotifyCas(t)
  BY <1>2 DEF NotifyCas
<1>3. CASE PostQueued(t)
  BY <1>3 DEF PostQueued
<1> QED BY <1>1, <1>2, <1>3

LEMMA StopPhase ==
  ASSUME Typed, TokenInv, StartInv, PhaseInv, NEW t \in Threads, NEW from \in {"fnStart", "callback"},
         t = Starter => from = "fnStart", t \in Workers => from = "callback", t \notin Senders,
         CallStop(t, from) \/ StopPut(t)
  PROVE  StartInv' /\ PhaseInv'
<1> USE ThreadsAreDistinct
    DEF At, Goto, Call, Typed, TypeOK, RetOK, InCall, Threads, HasToken, HoldsToken, Runs,
        BeforeWatch, StartInv, PhaseInv, TokenInv, TokenUnique, serviceVars, queueVars,
        watcherVars, localVars, history
<1>1. CASE CallStop(t, from)
  BY <1>1 DEF CallStop
<1>2. CASE StopPut(t)
  BY <1>2 DEF StopPut, Insert
<1> QED BY <1>1, <1>2

LEMMA GainedKept ==
  ASSUME \A s \in Senders : pc'[s] = pc[s] \/ (pc[s] # "idle" /\ pc'[s] # "idle")
  PROVE  Gained' = Gained
BY DEF Gained

LEMMA GainedByOne ==
  ASSUME NEW s \in Senders, IsFiniteSet(Gained), Typed, Goto(s, "check"), pc[s] = "idle"
  PROVE  IsFiniteSet(Gained') /\ Cardinality(Gained') = Cardinality(Gained) + 1
<1>1. Gained' = Gained \cup {s} /\ s \notin Gained
  BY DEF Gained, Goto, Typed, TypeOK, Threads
<1> QED BY <1>1, FS_AddElement

LEMMA ReleasedByOne ==
  ASSUME NEW s \in Senders, IsFiniteSet(Gained), Typed, Goto(s, "idle"), pc[s] # "idle"
  PROVE  IsFiniteSet(Gained') /\ Cardinality(Gained') = Cardinality(Gained) - 1
<1>1. Gained' = Gained \ {s} /\ s \in Gained
  BY DEF Gained, Goto, Typed, TypeOK, Threads
<1> QED BY <1>1, FS_RemoveElement

LEMMA SenderRefs ==
  ASSUME Typed, TokenInv, StartInv, PhaseInv, RefInv, FaultInv, NEW s \in Senders,
         Gain(s) \/ EnqueueCheck(s) \/ EnqueueCount(s) \/ EnqueueInsert(s) \/ Release(s)
  PROVE  RefInv' /\ FaultInv'
<1> USE ThreadsAreDistinct
    DEF At, Goto, Call, Typed, TypeOK, RetOK, InCall, Threads, BeforeWatch, StartInv,
        PhaseInv, RefInv, FaultInv, serviceVars, queueVars, watcherVars, localVars, history
<1>1. CASE Gain(s)
  <2>1. /\ pc[s] = "idle" /\ Goto(s, "check") /\ iRefCount' = iRefCount + 1
        /\ registered
        /\ UNCHANGED <<pEventWatcher, watcherVars, ret, fault, phase>>
    BY <1>1 DEF Gain
  <2>2. phase # "closed" => Cardinality(Gained) \in Nat
    BY FS_CardinalityType
  <2>3. phase # "closed" => Cardinality(Gained') = Cardinality(Gained) + 1 /\ IsFiniteSet(Gained')
    BY <2>1, GainedByOne
  <2> QED BY <2>1, <2>2, <2>3
<1>2. CASE EnqueueCheck(s)
  BY <1>2, GainedKept DEF EnqueueCheck
<1>3. CASE EnqueueCount(s)
  BY <1>3, GainedKept DEF EnqueueCount
<1>4. CASE EnqueueInsert(s)
  BY <1>4, GainedKept DEF EnqueueInsert, Insert
<1>5. CASE Release(s)
  <2>1. /\ pc[s] = "release" /\ Goto(s, "idle") /\ iRefCount' = iRefCount - 1
        /\ UNCHANGED <<pEventWatcher, watcherVars, ret, fault, phase>>
    BY <1>5 DEF Release
  <2>2. phase # "closed" => Cardinality(Gained) \in Nat
    BY FS_CardinalityType
  <2>3. phase # "closed" => Cardinality(Gained') = Cardinality(Gained) - 1 /\ IsFiniteSet(Gained')
    BY <2>1, ReleasedByOne
  <2> QED BY <2>1, <2>2, <2>3
<1> QED BY <1>1, <1>2, <1>3, <1>4, <1>5

LEMMA StarterRefs ==
  ASSUME Typed, TokenInv, StartInv, PhaseInv, RefInv, FaultInv,
         StartBegin \/ FnStartFails \/ FnStartSucceeds \/ WatcherStart \/
         WatcherStartRef \/ StartReturn
  PROVE  RefInv' /\ FaultInv'
<1> USE ThreadsAreDistinct
    DEF At, Goto, Call, Typed, TypeOK, RetOK, InCall, Threads, BeforeWatch, StartInv,
        PhaseInv, RefInv, FaultInv, serviceVars, queueVars, watcherVars, localVars, history
<1>1. CASE StartBegin
  <2>1. /\ pc[Starter] = "new" /\ Goto(Starter, "fnStart") /\ iRefCount' = iRefCount + 2
        /\ watcherRefs' = 1 /\ pEventWatcher'
        /\ UNCHANGED <<ret, fault, phase>>
    BY <1>1, Zenon DEF StartBegin, At
  <2>2. phase # "closed" => Cardinality(Gained) \in Nat
    BY FS_CardinalityType
  <2> QED BY <2>1, <2>2, GainedKept
<1>2. CASE FnStartFails
  <2>1. phase # "closed" => Cardinality(Gained) \in Nat
    BY FS_CardinalityType
  <2> QED BY <1>2, <2>1, GainedKept DEF FnStartFails
<1>3. CASE FnStartSucceeds
  BY <1>3, GainedKept DEF FnStartSucceeds
<1>4. CASE WatcherStart
  BY <1>4, GainedKept DEF WatcherStart
<1>5. CASE WatcherStartRef
  BY <1>5, GainedKept DEF WatcherStartRef
<1>6. CASE StartReturn
  BY <1>6, GainedKept DEF StartReturn
<1> QED BY <1>1, <1>2, <1>3, <1>4, <1>5, <1>6

LEMMA WorkerRefs ==
  ASSUME Typed, TokenInv, StartInv, PhaseInv, RefInv, FaultInv, NEW w \in Workers,
         Take(w) \/ Claim(w) \/ Drain(w) \/ NextEvent(w) \/ CallbackReturns(w) \/
         BatchDone(w) \/ YieldReset(w) \/ EmptyReset(w) \/ Recheck(w) \/ Detach(w) \/
         StopReset(w) \/ StopClose(w) \/ StopPost(w) \/ StopRelease(w)
  PROVE  RefInv' /\ FaultInv'
<1> USE ThreadsAreDistinct
    DEF At, Goto, Call, Typed, TypeOK, RetOK, InCall, Threads, BeforeWatch, StartInv,
        PhaseInv, RefInv, FaultInv, serviceVars, queueVars, watcherVars, localVars, history
<1>1. CASE Take(w)
  BY <1>1, GainedKept DEF Take
<1>2. CASE Claim(w)
  BY <1>2, GainedKept DEF Claim, WatcherRelease, TokenInv, HasToken, HoldsToken
<1>3. CASE Drain(w)
  BY <1>3, GainedKept DEF Drain
<1>4. CASE NextEvent(w)
  BY <1>4, GainedKept DEF NextEvent
<1>5. CASE CallbackReturns(w)
  BY <1>5, GainedKept DEF CallbackReturns
<1>6. CASE BatchDone(w)
  BY <1>6, GainedKept DEF BatchDone
<1>7. CASE YieldReset(w)
  BY <1>7, GainedKept DEF YieldReset, Reset
<1>8. CASE EmptyReset(w)
  BY <1>8, GainedKept DEF EmptyReset, Reset
<1>9. CASE Recheck(w)
  BY <1>9, GainedKept DEF Recheck
<1>10. CASE Detach(w)
  BY <1>10, GainedKept DEF Detach
<1>11. CASE StopReset(w)
  BY <1>11, GainedKept DEF StopReset
<1>12. CASE StopClose(w)
  BY <1>12, GainedKept DEF StopClose
<1>13. CASE StopPost(w)
  BY <1>13, GainedKept DEF StopPost
<1>14. CASE StopRelease(w)
  BY <1>14, GainedKept DEF StopRelease, WatcherRelease
<1> QED BY <1>1, <1>2, <1>3, <1>4, <1>5, <1>6, <1>7, <1>8, <1>9, <1>10, <1>11, <1>12,
        <1>13, <1>14

LEMMA NotifyRefs ==
  ASSUME Typed, TokenInv, StartInv, PhaseInv, RefInv, FaultInv, NEW t \in Threads,
         NotifyRead(t) \/ NotifyCas(t) \/ PostQueued(t)
  PROVE  RefInv' /\ FaultInv'
<1> USE ThreadsAreDistinct
    DEF At, Goto, Call, Typed, TypeOK, RetOK, InCall, Threads, BeforeWatch, StartInv,
        PhaseInv, RefInv, FaultInv, serviceVars, queueVars, watcherVars, localVars, history
<1>1. CASE NotifyRead(t)
  <2>1. /\ fault = "none" /\ pc[t] = "notify"
        /\ \/ Goto(t, "cas") /\ UNCHANGED fault
           \/ UNCHANGED pc /\ ~pEventWatcher /\ fault' = "null"
        /\ UNCHANGED <<serviceVars, queueVars, watcherVars, ret, localVars, history>>
    BY <1>1, Zenon DEF NotifyRead, At, Crash
  <2> QED BY <2>1, GainedKept
<1>2. CASE NotifyCas(t)
  BY <1>2, GainedKept DEF NotifyCas
<1>3. CASE PostQueued(t)
  BY <1>3, GainedKept DEF PostQueued
<1> QED BY <1>1, <1>2, <1>3

LEMMA StopRefs ==
  ASSUME Typed, TokenInv, StartInv, PhaseInv, RefInv, FaultInv, NEW t \in Threads, NEW from \in {"fnStart", "callback"},
         t = Starter => from = "fnStart", t \in Workers => from = "callback", t \notin Senders,
         CallStop(t, from) \/ StopPut(t)
  PROVE  RefInv' /\ FaultInv'
<1> USE ThreadsAreDistinct
    DEF At, Goto, Call, Typed, TypeOK, RetOK, InCall, Threads, BeforeWatch, StartInv,
        PhaseInv, RefInv, FaultInv, serviceVars, queueVars, watcherVars, localVars, history
<1>1. CASE CallStop(t, from)
  BY <1>1, GainedKept DEF CallStop
<1>2. CASE StopPut(t)
  BY <1>2, GainedKept DEF StopPut, Insert
<1> QED BY <1>1, <1>2

-----------------------------------------------------------------------------
(* The count of the queue and the wakeups. *)

LEMMA SenderBatch ==
  ASSUME Typed, BatchInv, NEW s \in Senders,
         Gain(s) \/ EnqueueCheck(s) \/ EnqueueCount(s) \/ EnqueueInsert(s) \/ Release(s)
  PROVE  BatchInv'
<1> USE ThreadsAreDistinct
    DEF At, Goto, Call, Typed, TypeOK, InCall, Threads, serviceVars, queueVars,
        watcherVars, localVars, history, RetOK, BatchInv, Consumes
<1>1. CASE Gain(s)
  BY <1>1 DEF Gain
<1>2. CASE EnqueueCheck(s)
  BY <1>2 DEF EnqueueCheck
<1>3. CASE EnqueueCount(s)
  BY <1>3 DEF EnqueueCount
<1>4. CASE EnqueueInsert(s)
  BY <1>4 DEF EnqueueInsert, Insert
<1>5. CASE Release(s)
  BY <1>5 DEF Release
<1> QED BY <1>1, <1>2, <1>3, <1>4, <1>5

LEMMA StarterBatch ==
  ASSUME Typed, BatchInv,
         StartBegin \/ FnStartFails \/ FnStartSucceeds \/ WatcherStart \/
         WatcherStartRef \/ StartReturn
  PROVE  BatchInv'
<1> USE ThreadsAreDistinct
    DEF At, Goto, Call, Typed, TypeOK, InCall, Threads, serviceVars, queueVars,
        watcherVars, localVars, history, RetOK, BatchInv, Consumes
<1>1. CASE StartBegin
  BY <1>1 DEF StartBegin
<1>2. CASE FnStartFails
  BY <1>2 DEF FnStartFails
<1>3. CASE FnStartSucceeds
  BY <1>3 DEF FnStartSucceeds
<1>4. CASE WatcherStart
  BY <1>4 DEF WatcherStart
<1>5. CASE WatcherStartRef
  BY <1>5 DEF WatcherStartRef
<1>6. CASE StartReturn
  BY <1>6 DEF StartReturn
<1> QED BY <1>1, <1>2, <1>3, <1>4, <1>5, <1>6

LEMMA WorkerBatch ==
  ASSUME Typed, BatchInv, NEW w \in Workers,
         Take(w) \/ Claim(w) \/ Drain(w) \/ NextEvent(w) \/ CallbackReturns(w) \/
         BatchDone(w) \/ YieldReset(w) \/ EmptyReset(w) \/ Recheck(w) \/ Detach(w) \/
         StopReset(w) \/ StopClose(w) \/ StopPost(w) \/ StopRelease(w)
  PROVE  BatchInv'
<1> USE ThreadsAreDistinct
    DEF At, Goto, Call, Typed, TypeOK, InCall, Threads, serviceVars, queueVars,
        watcherVars, localVars, history, RetOK, BatchInv, Consumes
<1>1. CASE Take(w)
  BY <1>1 DEF Take
<1>2. CASE Claim(w)
  BY <1>2 DEF Claim, WatcherRelease
<1>3. CASE Drain(w)
  BY <1>3 DEF Drain
<1>4. CASE NextEvent(w)
  BY <1>4 DEF NextEvent
<1>5. CASE CallbackReturns(w)
  BY <1>5 DEF CallbackReturns
<1>6. CASE BatchDone(w)
  BY <1>6 DEF BatchDone
<1>7. CASE YieldReset(w)
  BY <1>7 DEF YieldReset, Reset
<1>8. CASE EmptyReset(w)
  BY <1>8 DEF EmptyReset, Reset
<1>9. CASE Recheck(w)
  BY <1>9 DEF Recheck
<1>10. CASE Detach(w)
  BY <1>10 DEF Detach
<1>11. CASE StopReset(w)
  BY <1>11 DEF StopReset
<1>12. CASE StopClose(w)
  BY <1>12 DEF StopClose
<1>13. CASE StopPost(w)
  BY <1>13 DEF StopPost
<1>14. CASE StopRelease(w)
  BY <1>14 DEF StopRelease, WatcherRelease
<1> QED BY <1>1, <1>2, <1>3, <1>4, <1>5, <1>6, <1>7, <1>8, <1>9, <1>10, <1>11, <1>12,
        <1>13, <1>14

LEMMA NotifyBatch ==
  ASSUME Typed, BatchInv, NEW t \in Threads,
         NotifyRead(t) \/ NotifyCas(t) \/ PostQueued(t)
  PROVE  BatchInv'
<1> USE ThreadsAreDistinct
    DEF At, Goto, Call, Typed, TypeOK, InCall, Threads, serviceVars, queueVars,
        watcherVars, localVars, history, RetOK, BatchInv, Consumes
<1>1. CASE NotifyRead(t)
  <2>1. /\ fault = "none" /\ pc[t] = "notify"
        /\ \/ Goto(t, "cas") /\ UNCHANGED fault
           \/ UNCHANGED pc /\ ~pEventWatcher /\ fault' = "null"
        /\ UNCHANGED <<serviceVars, queueVars, watcherVars, ret, localVars, history>>
    BY <1>1, Zenon DEF NotifyRead, At, Crash
  <2> QED BY <2>1
<1>2. CASE NotifyCas(t)
  BY <1>2 DEF NotifyCas
<1>3. CASE PostQueued(t)
  BY <1>3 DEF PostQueued
<1> QED BY <1>1, <1>2, <1>3

LEMMA StopBatch ==
  ASSUME Typed, BatchInv, NEW t \in Threads, NEW from \in {"fnStart", "callback"},
         t = Starter => from = "fnStart", t \in Workers => from = "callback", t \notin Senders,
         CallStop(t, from) \/ StopPut(t)
  PROVE  BatchInv'
<1> USE ThreadsAreDistinct
    DEF At, Goto, Call, Typed, TypeOK, InCall, Threads, serviceVars, queueVars,
        watcherVars, localVars, history, RetOK, BatchInv, Consumes
<1>1. CASE CallStop(t, from)
  BY <1>1 DEF CallStop
<1>2. CASE StopPut(t)
  BY <1>2 DEF StopPut, Insert
<1> QED BY <1>1, <1>2

LEMMA InsertingKept ==
  ASSUME \A s \in Senders : pc'[s] = pc[s] \/ (pc[s] # "insert" /\ pc'[s] # "insert")
  PROVE  Inserting' = Inserting
BY DEF Inserting

LEMMA SenderCount ==
  ASSUME Typed, BatchInv, TokenInv, PhaseInv, CountInv, NEW s \in Senders,
         Gain(s) \/ EnqueueCheck(s) \/ EnqueueCount(s) \/ EnqueueInsert(s) \/ Release(s)
  PROVE  CountInv'
<1> USE ThreadsAreDistinct
    DEF At, Goto, Call, Typed, TypeOK, InCall, Threads, serviceVars, queueVars,
        watcherVars, localVars, history, CountInv
<1>1. CASE Gain(s)
  BY <1>1, InsertingKept DEF Gain
<1>2. CASE EnqueueCheck(s)
  BY <1>2, InsertingKept DEF EnqueueCheck
<1>3. CASE EnqueueCount(s)
  <2>1. Inserting' = Inserting \cup {s} /\ s \notin Inserting
    BY <1>3 DEF EnqueueCount, Inserting
  <2>2. /\ IsFiniteSet(Inserting') /\ Cardinality(Inserting) \in Nat
        /\ Cardinality(Inserting') = Cardinality(Inserting) + 1
    BY <2>1, FS_AddElement, FS_CardinalityType
  <2> QED BY <1>3, <2>2 DEF EnqueueCount
<1>4. CASE EnqueueInsert(s)
  <2>1. Inserting' = Inserting \ {s} /\ s \in Inserting
    BY <1>4 DEF EnqueueInsert, Inserting
  <2>2. /\ IsFiniteSet(Inserting') /\ Cardinality(Inserting) \in Nat
        /\ Cardinality(Inserting') = Cardinality(Inserting) - 1
    BY <2>1, FS_RemoveElement, FS_CardinalityType
  <2>3. Len(queuePending') = Len(queuePending) + 1
    BY <1>4 DEF EnqueueInsert, Insert
  <2> QED BY <1>4, <2>2, <2>3 DEF EnqueueInsert
<1>5. CASE Release(s)
  BY <1>5, InsertingKept DEF Release
<1> QED BY <1>1, <1>2, <1>3, <1>4, <1>5

LEMMA StarterCount ==
  ASSUME Typed, BatchInv, TokenInv, PhaseInv, CountInv,
         StartBegin \/ FnStartFails \/ FnStartSucceeds \/ WatcherStart \/
         WatcherStartRef \/ StartReturn
  PROVE  CountInv'
<1> USE ThreadsAreDistinct
    DEF At, Goto, Call, Typed, TypeOK, InCall, Threads, serviceVars, queueVars,
        watcherVars, localVars, history, CountInv
<1>1. CASE StartBegin
  BY <1>1, InsertingKept DEF StartBegin
<1>2. CASE FnStartFails
  BY <1>2, InsertingKept DEF FnStartFails, PhaseInv, BeforeWatch
<1>3. CASE FnStartSucceeds
  BY <1>3, InsertingKept DEF FnStartSucceeds
<1>4. CASE WatcherStart
  BY <1>4, InsertingKept DEF WatcherStart, PhaseInv, BeforeWatch
<1>5. CASE WatcherStartRef
  BY <1>5, InsertingKept DEF WatcherStartRef
<1>6. CASE StartReturn
  BY <1>6, InsertingKept DEF StartReturn
<1> QED BY <1>1, <1>2, <1>3, <1>4, <1>5, <1>6

LEMMA WorkerCount ==
  ASSUME Typed, BatchInv, TokenInv, PhaseInv, CountInv, NEW w \in Workers,
         Take(w) \/ Claim(w) \/ Drain(w) \/ NextEvent(w) \/ CallbackReturns(w) \/
         BatchDone(w) \/ YieldReset(w) \/ EmptyReset(w) \/ Recheck(w) \/ Detach(w) \/
         StopReset(w) \/ StopClose(w) \/ StopPost(w) \/ StopRelease(w)
  PROVE  CountInv'
<1> USE ThreadsAreDistinct
    DEF At, Goto, Call, Typed, TypeOK, InCall, Threads, serviceVars, queueVars,
        watcherVars, localVars, history, CountInv
<1>1. CASE Take(w)
  BY <1>1, InsertingKept DEF Take
<1>2. CASE Claim(w)
  BY <1>2, InsertingKept DEF Claim, WatcherRelease
<1>3. CASE Drain(w)
  <2>1. Cardinality(Inserting) \in Nat /\ Inserting' = Inserting
    BY <1>3, FS_CardinalityType, InsertingKept DEF Drain
  <2>2. batch[w] = <<>>
    BY <1>3 DEF Drain, BatchInv, Consumes
  <2>3. /\ queuePending' = <<>> /\ batch' = [batch EXCEPT ![w] = queuePending]
        /\ UNCHANGED <<uiQueueSize, phase>>
    BY <1>3 DEF Drain
  <2>4. \A v \in Workers : Len(batch[v]) \in Nat /\ Len(queuePending) \in Nat
    OBVIOUS
  <2> QED BY <2>1, <2>2, <2>3, <2>4
<1>4. CASE NextEvent(w)
  <2>1. Cardinality(Inserting) \in Nat /\ Inserting' = Inserting
    BY <1>4, FS_CardinalityType, InsertingKept DEF NextEvent
  <2>2. /\ pc[w] = "event" /\ uiQueueSize' = uiQueueSize - 1
        /\ batch' = [batch EXCEPT ![w] = Tail(@)]
        /\ UNCHANGED <<queuePending, phase>>
    BY <1>4, Zenon DEF NextEvent, At
  <2>3. Len(Tail(batch[w])) = Len(batch[w]) - 1 /\ Len(batch[w]) > 0
    BY <2>2 DEF BatchOK
  <2>4. ASSUME NEW v \in Workers \ {w}, phase # "closed" PROVE batch[v] = <<>>
    BY <2>2, <2>4 DEF BatchInv, Consumes, TokenInv, Runs, PhaseInv
  <2> QED BY <2>1, <2>2, <2>3, <2>4
<1>5. CASE CallbackReturns(w)
  BY <1>5, InsertingKept DEF CallbackReturns
<1>6. CASE BatchDone(w)
  BY <1>6, InsertingKept DEF BatchDone
<1>7. CASE YieldReset(w)
  BY <1>7, InsertingKept DEF YieldReset, Reset
<1>8. CASE EmptyReset(w)
  BY <1>8, InsertingKept DEF EmptyReset, Reset
<1>9. CASE Recheck(w)
  BY <1>9, InsertingKept DEF Recheck
<1>10. CASE Detach(w)
  BY <1>10, InsertingKept DEF Detach
<1>11. CASE StopReset(w)
  BY <1>11, InsertingKept DEF StopReset
<1>12. CASE StopClose(w)
  BY <1>12, InsertingKept DEF StopClose
<1>13. CASE StopPost(w)
  BY <1>13, InsertingKept DEF StopPost
<1>14. CASE StopRelease(w)
  BY <1>14, InsertingKept DEF StopRelease, WatcherRelease
<1> QED BY <1>1, <1>2, <1>3, <1>4, <1>5, <1>6, <1>7, <1>8, <1>9, <1>10, <1>11, <1>12,
        <1>13, <1>14

LEMMA NotifyCount ==
  ASSUME Typed, BatchInv, TokenInv, PhaseInv, CountInv, NEW t \in Threads,
         NotifyRead(t) \/ NotifyCas(t) \/ PostQueued(t)
  PROVE  CountInv'
<1> USE ThreadsAreDistinct
    DEF At, Goto, Call, Typed, TypeOK, InCall, Threads, serviceVars, queueVars,
        watcherVars, localVars, history, CountInv
<1>1. CASE NotifyRead(t)
  <2>1. /\ fault = "none" /\ pc[t] = "notify"
        /\ \/ Goto(t, "cas") /\ UNCHANGED fault
           \/ UNCHANGED pc /\ ~pEventWatcher /\ fault' = "null"
        /\ UNCHANGED <<serviceVars, queueVars, watcherVars, ret, localVars, history>>
    BY <1>1, Zenon DEF NotifyRead, At, Crash
  <2> QED BY <2>1, InsertingKept
<1>2. CASE NotifyCas(t)
  BY <1>2, InsertingKept DEF NotifyCas
<1>3. CASE PostQueued(t)
  BY <1>3, InsertingKept DEF PostQueued
<1> QED BY <1>1, <1>2, <1>3

LEMMA StopCount ==
  ASSUME Typed, BatchInv, TokenInv, PhaseInv, CountInv, NEW t \in Threads, NEW from \in {"fnStart", "callback"},
         t = Starter => from = "fnStart", t \in Workers => from = "callback", t \notin Senders,
         CallStop(t, from) \/ StopPut(t)
  PROVE  CountInv'
<1> USE ThreadsAreDistinct
    DEF At, Goto, Call, Typed, TypeOK, InCall, Threads, serviceVars, queueVars,
        watcherVars, localVars, history, CountInv
<1>1. CASE CallStop(t, from)
  BY <1>1, InsertingKept DEF CallStop
<1>2. CASE StopPut(t)
  <2>1. Cardinality(Inserting) \in Nat /\ Inserting' = Inserting
    BY <1>2, FS_CardinalityType, InsertingKept DEF StopPut
  <2>2. Len(queuePending') = Len(queuePending) + 1
    BY <1>2 DEF StopPut, Insert
  <2> QED BY <1>2, <2>1, <2>2 DEF StopPut, Insert
<1> QED BY <1>1, <1>2

LEMMA SenderWakes ==
  ASSUME Typed, TokenInv, PhaseInv, CountInv, NoLostWakeup, NEW s \in Senders,
         Gain(s) \/ EnqueueCheck(s) \/ EnqueueCount(s) \/ EnqueueInsert(s) \/ Release(s)
  PROVE  NoLostWakeup'
<1> USE ThreadsAreDistinct
    DEF At, Goto, Call, Typed, TypeOK, InCall, Threads, serviceVars, queueVars,
        watcherVars, localVars, history, NoLostWakeup, WillLook
<1>1. CASE Gain(s)
  BY <1>1 DEF Gain
<1>2. CASE EnqueueCheck(s)
  BY <1>2 DEF EnqueueCheck
<1>3. CASE EnqueueCount(s)
  BY <1>3 DEF EnqueueCount
<1>4. CASE EnqueueInsert(s)
  BY <1>4 DEF EnqueueInsert, Insert
<1>5. CASE Release(s)
  BY <1>5 DEF Release
<1> QED BY <1>1, <1>2, <1>3, <1>4, <1>5

LEMMA StarterWakes ==
  ASSUME Typed, TokenInv, PhaseInv, CountInv, NoLostWakeup,
         StartBegin \/ FnStartFails \/ FnStartSucceeds \/ WatcherStart \/
         WatcherStartRef \/ StartReturn
  PROVE  NoLostWakeup'
<1> USE ThreadsAreDistinct
    DEF At, Goto, Call, Typed, TypeOK, InCall, Threads, serviceVars, queueVars,
        watcherVars, localVars, history, NoLostWakeup, WillLook
<1>1. CASE StartBegin
  BY <1>1 DEF StartBegin
<1>2. CASE FnStartFails
  BY <1>2 DEF FnStartFails
<1>3. CASE FnStartSucceeds
  BY <1>3 DEF FnStartSucceeds
<1>4. CASE WatcherStart
  BY <1>4 DEF WatcherStart
<1>5. CASE WatcherStartRef
  BY <1>5 DEF WatcherStartRef
<1>6. CASE StartReturn
  BY <1>6 DEF StartReturn
<1> QED BY <1>1, <1>2, <1>3, <1>4, <1>5, <1>6

LEMMA WorkerWakes ==
  ASSUME Typed, TokenInv, PhaseInv, CountInv, NoLostWakeup, NEW w \in Workers,
         Take(w) \/ Claim(w) \/ Drain(w) \/ NextEvent(w) \/ CallbackReturns(w) \/
         BatchDone(w) \/ YieldReset(w) \/ EmptyReset(w) \/ Recheck(w) \/ Detach(w) \/
         StopReset(w) \/ StopClose(w) \/ StopPost(w) \/ StopRelease(w)
  PROVE  NoLostWakeup'
<1> USE ThreadsAreDistinct
    DEF At, Goto, Call, Typed, TypeOK, InCall, Threads, serviceVars, queueVars,
        watcherVars, localVars, history, NoLostWakeup, WillLook
<1>1. CASE Take(w)
  BY <1>1 DEF Take
<1>2. CASE Claim(w)
  BY <1>2 DEF Claim, WatcherRelease
<1>3. CASE Drain(w)
  BY <1>3 DEF Drain
<1>4. CASE NextEvent(w)
  BY <1>4 DEF NextEvent
<1>5. CASE CallbackReturns(w)
  BY <1>5 DEF CallbackReturns
<1>6. CASE BatchDone(w)
  BY <1>6 DEF BatchDone
<1>7. CASE YieldReset(w)
  BY <1>7 DEF YieldReset, Reset
<1>8. CASE EmptyReset(w)
  BY <1>8 DEF EmptyReset, Reset
<1>9. CASE Recheck(w)
  <2>1. Cardinality(Inserting) \in Nat
    BY FS_CardinalityType DEF CountInv
  <2>2. /\ pc[w] = "recheck" /\ fault = "none"
        /\ UNCHANGED <<serviceVars, queueVars, watcherVars, localVars, fault, history>>
    BY <1>9, Zenon DEF Recheck, At
  <2>3. CASE Call(w, "notify", "idle")
    BY <2>2, <2>3
  <2>4. CASE ~(uiQueueSize > 0)
    BY <2>1, <2>2, <2>4 DEF CountInv
  <2> QED BY <1>9, <2>3, <2>4, Zenon DEF Recheck
<1>10. CASE Detach(w)
  BY <1>10 DEF Detach
<1>11. CASE StopReset(w)
  BY <1>11 DEF StopReset, PhaseInv
<1>12. CASE StopClose(w)
  BY <1>12 DEF StopClose, PhaseInv
<1>13. CASE StopPost(w)
  BY <1>13 DEF StopPost
<1>14. CASE StopRelease(w)
  BY <1>14 DEF StopRelease, WatcherRelease
<1> QED BY <1>1, <1>2, <1>3, <1>4, <1>5, <1>6, <1>7, <1>8, <1>9, <1>10, <1>11, <1>12,
        <1>13, <1>14

LEMMA NotifyWakes ==
  ASSUME Typed, TokenInv, PhaseInv, CountInv, NoLostWakeup, NEW t \in Threads,
         NotifyRead(t) \/ NotifyCas(t) \/ PostQueued(t)
  PROVE  NoLostWakeup'
<1> USE ThreadsAreDistinct
    DEF At, Goto, Call, Typed, TypeOK, InCall, Threads, serviceVars, queueVars,
        watcherVars, localVars, history, NoLostWakeup, WillLook
<1>1. CASE NotifyRead(t)
  <2>1. /\ fault = "none" /\ pc[t] = "notify"
        /\ \/ Goto(t, "cas") /\ UNCHANGED fault
           \/ UNCHANGED pc /\ ~pEventWatcher /\ fault' = "null"
        /\ UNCHANGED <<serviceVars, queueVars, watcherVars, ret, localVars, history>>
    BY <1>1, Zenon DEF NotifyRead, At, Crash
  <2> QED BY <2>1
<1>2. CASE NotifyCas(t)
  BY <1>2 DEF NotifyCas, PhaseInv
<1>3. CASE PostQueued(t)
  BY <1>3 DEF PostQueued
<1> QED BY <1>1, <1>2, <1>3

LEMMA StopWakes ==
  ASSUME Typed, TokenInv, PhaseInv, CountInv, NoLostWakeup, NEW t \in Threads, NEW from \in {"fnStart", "callback"},
         t = Starter => from = "fnStart", t \in Workers => from = "callback", t \notin Senders,
         CallStop(t, from) \/ StopPut(t)
  PROVE  NoLostWakeup'
<1> USE ThreadsAreDistinct
    DEF At, Goto, Call, Typed, TypeOK, InCall, Threads, serviceVars, queueVars,
        watcherVars, localVars, history, NoLostWakeup, WillLook
<1>1. CASE CallStop(t, from)
  BY <1>1 DEF CallStop
<1>2. CASE StopPut(t)
  BY <1>2 DEF StopPut, Insert
<1> QED BY <1>1, <1>2

-----------------------------------------------------------------------------
(* The stop event and the messages are new when they are accepted. *)

LEMMA ArrivedGrows ==
  ASSUME Typed, NEW e \in Events \cup {Stop}, Insert(e)
  PROVE  M!Arrived' = M!Arrived \cup {e}
<1>1. /\ accepted' = Append(accepted, e) /\ accepted \in Seq(Events \cup {Stop})
      /\ Len(accepted') = Len(accepted) + 1 /\ Len(accepted) \in Nat
      /\ accepted'[Len(accepted) + 1] = e
      /\ \A i \in 1..Len(accepted) : accepted'[i] = accepted[i]
  BY DEF Insert, Typed, TypeOK
<1> QED BY <1>1 DEF M!Arrived

LEMMA ArrivedKept ==
  ASSUME accepted' = accepted PROVE M!Arrived' = M!Arrived
BY DEF M!Arrived

\* What a sender inserts is a message it has not sent before.
LEMMA MessageIsFresh ==
  ASSUME Typed, FreshInv, NEW s \in Senders, pc[s] = "insert"
  PROVE  <<s, sent[s]>> \in Events /\ <<s, sent[s]>> \notin M!Arrived
<1>1. sent[s] \in 1..MaxSends
  BY BoundIsNatural DEF Typed, TypeOK, SentOK
<1> QED BY <1>1, BoundIsNatural DEF FreshInv, Events

LEMMA SenderFresh ==
  ASSUME Typed, StartInv, FreshInv, NEW s \in Senders,
         Gain(s) \/ EnqueueCheck(s) \/ EnqueueCount(s) \/ EnqueueInsert(s) \/ Release(s)
  PROVE  FreshInv'
<1> USE ThreadsAreDistinct
    DEF At, Goto, Call, Typed, TypeOK, InCall, Threads, serviceVars, queueVars,
        watcherVars, localVars, history, RetOK, StartInv, FreshInv
<1>1. CASE Gain(s)
  BY <1>1, ArrivedKept DEF Gain
<1>2. CASE EnqueueCheck(s)
  BY <1>2, ArrivedKept DEF EnqueueCheck
<1>3. CASE EnqueueCount(s)
  BY <1>3, ArrivedKept DEF EnqueueCount
<1>4. CASE EnqueueInsert(s)
  <2> DEFINE e == <<s, sent[s]>>
  <2>1. e \in Events /\ e # Stop
    BY <1>4, MessageIsFresh, StopIsNoMessage DEF EnqueueInsert
  <2>2. M!Arrived' = M!Arrived \cup {e}
    BY <1>4, <2>1, ArrivedGrows DEF EnqueueInsert
  <2>3. \A z \in Senders, k \in 1..MaxSends : <<z, k>> = e => z = s /\ k = sent[s]
    OBVIOUS
  <2>4. /\ pc[s] = "insert" /\ pc' = [pc EXCEPT ![s] = "notify"]
        /\ UNCHANGED <<sent, bRunning>>
    BY <1>4, Zenon DEF EnqueueInsert, At, Call, serviceVars, localVars
  <2>5. sent[s] \in Nat
    OBVIOUS
  <2> HIDE DEF e
  <2>6. \A z \in Senders, k \in 1..MaxSends :
          <<z, k>> \in M!Arrived' =>
            k <= sent'[z] /\ (pc'[z] \in {"check", "count", "insert"} => k < sent'[z])
    BY <2>1, <2>2, <2>3, <2>4, <2>5
  <2>7. /\ Stop \in M!Arrived' <=> Stop \in M!Arrived
        /\ \A t \in Threads : pc'[t] = "stopPut" <=> pc[t] = "stopPut"
        /\ pc'[Starter] = pc[Starter]
    BY <2>1, <2>2, <2>4
  <2> QED BY <2>4, <2>6, <2>7
<1>5. CASE Release(s)
  BY <1>5, ArrivedKept DEF Release
<1> QED BY <1>1, <1>2, <1>3, <1>4, <1>5

LEMMA StarterFresh ==
  ASSUME Typed, StartInv, FreshInv,
         StartBegin \/ FnStartFails \/ FnStartSucceeds \/ WatcherStart \/
         WatcherStartRef \/ StartReturn
  PROVE  FreshInv'
<1> USE ThreadsAreDistinct
    DEF At, Goto, Call, Typed, TypeOK, InCall, Threads, serviceVars, queueVars,
        watcherVars, localVars, history, RetOK, StartInv, FreshInv
<1>1. CASE StartBegin
  BY <1>1, ArrivedKept DEF StartBegin
<1>2. CASE FnStartFails
  BY <1>2, ArrivedKept DEF FnStartFails
<1>3. CASE FnStartSucceeds
  BY <1>3, ArrivedKept DEF FnStartSucceeds
<1>4. CASE WatcherStart
  BY <1>4, ArrivedKept DEF WatcherStart
<1>5. CASE WatcherStartRef
  BY <1>5, ArrivedKept DEF WatcherStartRef
<1>6. CASE StartReturn
  BY <1>6, ArrivedKept DEF StartReturn
<1> QED BY <1>1, <1>2, <1>3, <1>4, <1>5, <1>6

LEMMA WorkerFresh ==
  ASSUME Typed, StartInv, FreshInv, NEW w \in Workers,
         Take(w) \/ Claim(w) \/ Drain(w) \/ NextEvent(w) \/ CallbackReturns(w) \/
         BatchDone(w) \/ YieldReset(w) \/ EmptyReset(w) \/ Recheck(w) \/ Detach(w) \/
         StopReset(w) \/ StopClose(w) \/ StopPost(w) \/ StopRelease(w)
  PROVE  FreshInv'
<1> USE ThreadsAreDistinct
    DEF At, Goto, Call, Typed, TypeOK, InCall, Threads, serviceVars, queueVars,
        watcherVars, localVars, history, RetOK, StartInv, FreshInv
<1>1. CASE Take(w)
  BY <1>1, ArrivedKept DEF Take
<1>2. CASE Claim(w)
  BY <1>2, ArrivedKept DEF Claim, WatcherRelease
<1>3. CASE Drain(w)
  BY <1>3, ArrivedKept DEF Drain
<1>4. CASE NextEvent(w)
  BY <1>4, ArrivedKept DEF NextEvent
<1>5. CASE CallbackReturns(w)
  BY <1>5, ArrivedKept DEF CallbackReturns
<1>6. CASE BatchDone(w)
  BY <1>6, ArrivedKept DEF BatchDone
<1>7. CASE YieldReset(w)
  BY <1>7, ArrivedKept DEF YieldReset, Reset
<1>8. CASE EmptyReset(w)
  BY <1>8, ArrivedKept DEF EmptyReset, Reset
<1>9. CASE Recheck(w)
  BY <1>9, ArrivedKept DEF Recheck
<1>10. CASE Detach(w)
  BY <1>10, ArrivedKept DEF Detach
<1>11. CASE StopReset(w)
  BY <1>11, ArrivedKept DEF StopReset
<1>12. CASE StopClose(w)
  BY <1>12, ArrivedKept DEF StopClose
<1>13. CASE StopPost(w)
  BY <1>13, ArrivedKept DEF StopPost
<1>14. CASE StopRelease(w)
  BY <1>14, ArrivedKept DEF StopRelease, WatcherRelease
<1> QED BY <1>1, <1>2, <1>3, <1>4, <1>5, <1>6, <1>7, <1>8, <1>9, <1>10, <1>11, <1>12,
        <1>13, <1>14

LEMMA NotifyFresh ==
  ASSUME Typed, StartInv, FreshInv, NEW t \in Threads,
         NotifyRead(t) \/ NotifyCas(t) \/ PostQueued(t)
  PROVE  FreshInv'
<1> USE ThreadsAreDistinct
    DEF At, Goto, Call, Typed, TypeOK, InCall, Threads, serviceVars, queueVars,
        watcherVars, localVars, history, RetOK, StartInv, FreshInv
<1>1. CASE NotifyRead(t)
  <2>1. /\ fault = "none" /\ pc[t] = "notify"
        /\ \/ Goto(t, "cas") /\ UNCHANGED fault
           \/ UNCHANGED pc /\ ~pEventWatcher /\ fault' = "null"
        /\ UNCHANGED <<serviceVars, queueVars, watcherVars, ret, localVars, history>>
    BY <1>1, Zenon DEF NotifyRead, At, Crash
  <2> QED BY <2>1, ArrivedKept
<1>2. CASE NotifyCas(t)
  BY <1>2, ArrivedKept DEF NotifyCas
<1>3. CASE PostQueued(t)
  BY <1>3, ArrivedKept DEF PostQueued
<1> QED BY <1>1, <1>2, <1>3

LEMMA StopFresh ==
  ASSUME Typed, StartInv, FreshInv, NEW t \in Threads, NEW from \in {"fnStart", "callback"},
         t = Starter => from = "fnStart", t \in Workers => from = "callback", t \notin Senders,
         CallStop(t, from) \/ StopPut(t)
  PROVE  FreshInv'
<1> USE ThreadsAreDistinct
    DEF At, Goto, Call, Typed, TypeOK, InCall, Threads, serviceVars, queueVars,
        watcherVars, localVars, history, RetOK, StartInv, FreshInv
<1>1. CASE CallStop(t, from)
  BY <1>1, ArrivedKept DEF CallStop
<1>2. CASE StopPut(t)
  <2>1. M!Arrived' = M!Arrived \cup {Stop}
    BY <1>2, ArrivedGrows DEF StopPut
  <2>2. \A z \in Senders, k \in 1..MaxSends : <<z, k>> # Stop
    BY StopIsNoMessage DEF Events
  <2> QED BY <1>2, <2>1, <2>2 DEF StopPut
<1> QED BY <1>1, <1>2

-----------------------------------------------------------------------------
(* The order of the events. *)

\* The head of what is left of a sequence, and what is left behind it.
LEMMA HeadAndTail ==
  ASSUME NEW S, NEW b \in Seq(S), b # <<>>, NEW a, NEW n, NEW d \in Nat, NEW q \in Nat,
         n = d + Len(b) + q,
         \A i \in 1..Len(b) : b[i] = a[d + i]
  PROVE  /\ Head(b) = a[d + 1]
         /\ n = d + 1 + Len(Tail(b)) + q
         /\ \A i \in 1..Len(Tail(b)) : Tail(b)[i] = a[d + 1 + i]
<1>1. /\ Len(b) \in Nat /\ Len(b) > 0 /\ Len(Tail(b)) = Len(b) - 1 /\ Head(b) = b[1]
      /\ \A i \in 1..Len(Tail(b)) : Tail(b)[i] = b[i + 1]
  OBVIOUS
<1>2. n = d + 1 + Len(Tail(b)) + q
  BY <1>1
<1>3. Head(b) = a[d + 1]
  BY <1>1
<1>4. ASSUME NEW i \in 1..Len(Tail(b)) PROVE Tail(b)[i] = a[d + 1 + i]
  <2>1. i + 1 \in 1..Len(b) /\ d + (i + 1) = d + 1 + i
    BY <1>1
  <2> QED BY <1>1, <2>1
<1> QED BY <1>2, <1>3, <1>4

\* A step that moves no event and changes nothing about who runs.
KeepsFifo ==
  /\ UNCHANGED <<accepted, delivered, queuePending, batch>>
  /\ phase = "closed" => phase' = "closed"
  /\ \A w \in Workers : Runs(w)' <=> Runs(w)
  /\ \A w \in Workers : pc'[w] = "detach" <=> pc[w] = "detach"

LEMMA FirstIsThere ==
  ASSUME NEW n \in Nat, NEW d \in Nat, NEW b \in Nat, NEW q \in Nat, n = d + 1 + b + q
  PROVE  d + 1 \in 1..n
OBVIOUS

LEMMA FifoKept == ASSUME FifoInv, KeepsFifo PROVE FifoInv'
<1>1. \A w \in Workers : InHand(w)' = InHand(w)
  BY DEF InHand, KeepsFifo
<1> QED BY <1>1 DEF FifoInv, KeepsFifo

\* An event joins the queue and what was accepted.
LEMMA FifoInsert ==
  ASSUME Typed, FifoInv, NEW e \in Events \cup {Stop}, Insert(e),
         UNCHANGED <<delivered, batch, phase>>,
         \A w \in Workers : Runs(w)' <=> Runs(w),
         \A w \in Workers : pc'[w] = "detach" <=> pc[w] = "detach"
  PROVE  FifoInv'
<1> DEFINE q == queuePending
           a == accepted
<1>1. /\ q \in Seq(Events \cup {Stop}) /\ a \in Seq(Events \cup {Stop})
      /\ delivered \in Seq(Events) /\ \A w \in Workers : batch[w] \in Seq(Events \cup {Stop})
      /\ q' = Append(q, e) /\ a' = Append(a, e)
  BY DEF Typed, TypeOK, Insert
<1>2. /\ Len(q') = Len(q) + 1 /\ q'[Len(q) + 1] = e
      /\ \A i \in 1..Len(q) : q'[i] = q[i]
      /\ Len(a') = Len(a) + 1 /\ a'[Len(a) + 1] = e
      /\ \A i \in 1..Len(a) : a'[i] = a[i]
      /\ Len(q) \in Nat /\ Len(a) \in Nat /\ Len(delivered) \in Nat
      /\ \A w \in Workers : Len(batch[w]) \in Nat
  BY <1>1
<1>3. \A w \in Workers : InHand(w)' = InHand(w) /\ InHand(w) \in Nat
  BY DEF InHand
<1>9. Len(q) \in Nat /\ Len(a) \in Nat /\ Len(delivered) \in Nat
  BY <1>2
<1> HIDE DEF q, a
<1>4. SUFFICES ASSUME phase # "closed" PROVE FifoInv'
  BY DEF FifoInv
<1>5. /\ Len(q) <= Len(a)
      /\ \A i \in 1..Len(q) : q[i] = a[Len(a) - Len(q) + i]
      /\ (\A w \in Workers : ~Runs(w)) => Len(a) = Len(delivered) + Len(q)
      /\ \A w \in Workers : Runs(w) =>
           /\ Len(a) = Len(delivered) + InHand(w) + Len(batch[w]) + Len(q)
           /\ pc[w] = "detach" => a[Len(delivered) + 1] = Stop
           /\ \A i \in 1..Len(batch[w]) : batch[w][i] = a[Len(delivered) + InHand(w) + i]
  BY <1>4 DEF FifoInv, q, a
<1>6. /\ Len(q') <= Len(a')
      /\ \A i \in 1..Len(q') : q'[i] = a'[Len(a') - Len(q') + i]
  <2>1. Len(a') - Len(q') = Len(a) - Len(q) /\ Len(q') <= Len(a')
    BY <1>2, <1>5
  <2>2. ASSUME NEW i \in 1..Len(q) PROVE q'[i] = a'[Len(a) - Len(q) + i]
    <3>1. Len(a) - Len(q) + i \in 1..Len(a)
      BY <1>2, <1>5
    <3> QED BY <1>2, <1>5, <3>1
  <2>3. q'[Len(q) + 1] = a'[Len(a) - Len(q) + (Len(q) + 1)]
    <3>1. Len(a) - Len(q) + (Len(q) + 1) = Len(a) + 1
      BY <1>2
    <3> QED BY <1>2, <3>1
  <2>4. \A i \in 1..Len(q') : i \in 1..Len(q) \/ i = Len(q) + 1
    BY <1>2
  <2> QED BY <2>1, <2>2, <2>3, <2>4
<1>7. (\A w \in Workers : ~Runs(w)') => Len(a') = Len(delivered') + Len(q')
  BY <1>2, <1>5
<1>8. ASSUME NEW w \in Workers, Runs(w)'
      PROVE  /\ Len(a') = Len(delivered') + InHand(w)' + Len(batch'[w]) + Len(q')
             /\ pc'[w] = "detach" => a'[Len(delivered') + 1] = Stop
             /\ \A i \in 1..Len(batch'[w]) :
                  batch'[w][i] = a'[Len(delivered') + InHand(w)' + i]
  <2>1. Runs(w)
    BY <1>8
  <2>2. pc[w] = "detach" => InHand(w) = 1
    BY DEF InHand
  <2>3. Len(a) = Len(delivered) + InHand(w) + Len(batch[w]) + Len(q)
    BY <1>5, <2>1
  <2>7. InHand(w) \in Nat /\ Len(batch[w]) \in Nat
    BY <1>2, <1>3
  <2>8. InHand(w)' = InHand(w) /\ delivered' = delivered /\ batch'[w] = batch[w]
    BY <1>3
  <2>4. Len(a') = Len(delivered') + InHand(w)' + Len(batch'[w]) + Len(q')
    BY <1>2, <2>3, <2>7, <2>8
  <2>5. ASSUME pc'[w] = "detach" PROVE a'[Len(delivered') + 1] = Stop
    <3>1. a[Len(delivered) + 1] = Stop /\ InHand(w) = 1
      BY <1>5, <2>1, <2>2, <2>5
    <3>2. Len(delivered) + 1 \in 1..Len(a)
      BY <1>9, <2>3, <2>7, <3>1, FirstIsThere
    <3>3. a'[Len(delivered) + 1] = a[Len(delivered) + 1]
      BY <1>2, <3>2
    <3> QED BY <2>8, <3>1, <3>3
  <2>6. ASSUME NEW i \in 1..Len(batch'[w])
        PROVE  batch'[w][i] = a'[Len(delivered') + InHand(w)' + i]
    <3>1. batch[w][i] = a[Len(delivered) + InHand(w) + i]
      BY <1>5, <2>1, <2>8, <2>6
    <3>2. Len(delivered) + InHand(w) + i \in 1..Len(a)
      BY <1>9, <2>3, <2>7, <2>8, <2>6
    <3> QED BY <1>2, <2>8, <3>1, <3>2
  <2> QED BY <2>4, <2>5, <2>6
<1> QED BY <1>6, <1>7, <1>8 DEF FifoInv, q, a

LEMMA SenderFifo ==
  ASSUME Typed, TokenInv, PhaseInv, BatchInv, FifoInv, FreshInv, NEW s \in Senders,
         Gain(s) \/ EnqueueCheck(s) \/ EnqueueCount(s) \/ EnqueueInsert(s) \/ Release(s)
  PROVE  FifoInv'
<1> USE ThreadsAreDistinct
    DEF At, Goto, Call, Typed, TypeOK, InCall, Threads, serviceVars, queueVars,
        watcherVars, localVars, history, FifoInv, Runs
<1>1. CASE Gain(s)
  BY <1>1, SMTT(30) DEF Gain, InHand
<1>2. CASE EnqueueCheck(s)
  BY <1>2 DEF EnqueueCheck, InHand
<1>3. CASE EnqueueCount(s)
  BY <1>3 DEF EnqueueCount, InHand
<1>4. CASE EnqueueInsert(s)
  <2>1. <<s, sent[s]>> \in Events
    BY <1>4, MessageIsFresh DEF EnqueueInsert
  <2> QED BY <1>4, <2>1, FifoInsert DEF EnqueueInsert
<1>5. CASE Release(s)
  BY <1>5 DEF Release, InHand
<1> QED BY <1>1, <1>2, <1>3, <1>4, <1>5

LEMMA StarterFifo ==
  ASSUME Typed, TokenInv, PhaseInv, BatchInv, FifoInv,
         StartBegin \/ FnStartFails \/ FnStartSucceeds \/ WatcherStart \/
         WatcherStartRef \/ StartReturn
  PROVE  FifoInv'
<1> USE ThreadsAreDistinct
    DEF At, Goto, Call, Typed, TypeOK, InCall, Threads, serviceVars, queueVars,
        watcherVars, localVars, history, FifoInv, Runs
<1>1. CASE StartBegin
  BY <1>1 DEF StartBegin, InHand
<1>2. CASE FnStartFails
  <2>1. KeepsFifo
    BY <1>2 DEF FnStartFails, KeepsFifo, PhaseInv, BeforeWatch
  <2> QED BY <2>1, FifoKept
<1>3. CASE FnStartSucceeds
  BY <1>3 DEF FnStartSucceeds, InHand
<1>4. CASE WatcherStart
  <2>1. KeepsFifo
    BY <1>4 DEF WatcherStart, KeepsFifo, PhaseInv, BeforeWatch
  <2> QED BY <2>1, FifoKept
<1>5. CASE WatcherStartRef
  BY <1>5 DEF WatcherStartRef, InHand
<1>6. CASE StartReturn
  BY <1>6 DEF StartReturn, InHand
<1> QED BY <1>1, <1>2, <1>3, <1>4, <1>5, <1>6

LEMMA WorkerFifo ==
  ASSUME Typed, TokenInv, PhaseInv, BatchInv, FifoInv, NEW w \in Workers,
         Take(w) \/ Claim(w) \/ Drain(w) \/ NextEvent(w) \/ CallbackReturns(w) \/
         BatchDone(w) \/ YieldReset(w) \/ EmptyReset(w) \/ Recheck(w) \/ Detach(w) \/
         StopReset(w) \/ StopClose(w) \/ StopPost(w) \/ StopRelease(w)
  PROVE  FifoInv'
<1> USE ThreadsAreDistinct
    DEF At, Goto, Call, Typed, TypeOK, InCall, Threads, serviceVars, queueVars,
        watcherVars, localVars, history, FifoInv, Runs
<1>1. CASE Take(w)
  BY <1>1 DEF Take, InHand
<1>2. CASE Claim(w)
  <2>1. HasToken /\ batch[w] = <<>> /\ pc[w] = "claim"
    BY <1>2 DEF Claim, BatchInv, Consumes, HasToken, HoldsToken
  <2>2. \A v \in Workers : ~Runs(v)
    BY <2>1 DEF TokenInv
  <2>3. /\ \A v \in Workers : Runs(v)' => v = w
        /\ pc'[w] \in {"drain", "idle"}
        /\ UNCHANGED <<accepted, delivered, queuePending, batch, phase>>
    BY <1>2, <2>2 DEF Claim
  <2>4. InHand(w)' = 0
    BY <2>3 DEF InHand
  <2>5. Len(accepted) \in Nat /\ Len(delivered) \in Nat /\ Len(queuePending) \in Nat
    OBVIOUS
  <2> QED BY <2>1, <2>2, <2>3, <2>4, <2>5
<1>3. CASE Drain(w)
  <2>1. Runs(w) /\ batch[w] = <<>> /\ pc[w] = "drain" /\ InHand(w) = 0
    BY <1>3 DEF Drain, BatchInv, Consumes, InHand
  <2>2. \A v \in Workers : Runs(v) => v = w
    BY <2>1 DEF TokenInv
  <2>3. /\ \A v \in Workers : Runs(v)' => v = w
        /\ Runs(w)' /\ pc'[w] \in {"reset", "event"}
        /\ batch'[w] = queuePending /\ queuePending' = <<>>
        /\ UNCHANGED <<accepted, delivered, phase>>
    BY <1>3, <2>2 DEF Drain
  <2>4. InHand(w)' = 0
    BY <2>3 DEF InHand
  <2>5. Len(accepted) \in Nat /\ Len(delivered) \in Nat /\ Len(queuePending) \in Nat
    OBVIOUS
  <2>6. SUFFICES ASSUME phase # "closed" PROVE FifoInv'
    BY <2>3
  <2>7. /\ Len(accepted) = Len(delivered) + Len(queuePending)
        /\ \A i \in 1..Len(queuePending) : queuePending[i] = accepted[Len(delivered) + i]
    <3>1. Len(accepted) = Len(delivered) + Len(queuePending)
      BY <2>1, <2>5, <2>6
    <3>2. Len(accepted) - Len(queuePending) = Len(delivered)
      BY <2>5, <3>1
    <3> QED BY <2>6, <3>1, <3>2
  <2>8. Len(queuePending') = 0
    BY <2>3
  <2> HIDE DEF Typed, TypeOK, Runs, InHand
  <2>9. /\ Len(queuePending') <= Len(accepted')
        /\ \A i \in 1..Len(queuePending') :
             queuePending'[i] = accepted'[Len(accepted') - Len(queuePending') + i]
    BY <2>3, <2>5, <2>8
  <2>10. ASSUME NEW v \in Workers, Runs(v)'
         PROVE  /\ Len(accepted') = Len(delivered') + InHand(v)' + Len(batch'[v]) + Len(queuePending')
                /\ pc'[v] # "detach"
                /\ \A i \in 1..Len(batch'[v]) : batch'[v][i] = accepted'[Len(delivered') + InHand(v)' + i]
    <3>1. v = w
      BY <2>3, <2>10
    <3>2. Len(delivered') + InHand(w)' = Len(delivered)
      BY <2>3, <2>4, <2>5
    <3>3. Len(delivered) + Len(queuePending) + Len(queuePending') = Len(delivered) + Len(queuePending)
      BY <2>5, <2>8
    <3> QED BY <2>3, <2>7, <3>1, <3>2, <3>3, ZenonT(40)
  <2> QED BY <2>3, <2>9, <2>10
<1>4. CASE NextEvent(w)
  <2> DEFINE b == batch[w]
  <2>1. Runs(w) /\ pc[w] = "event" /\ InHand(w) = 0 /\ b # <<>>
    BY <1>4 DEF NextEvent, BatchOK, InHand
  <2>2. \A v \in Workers : Runs(v) => v = w
    BY <2>1 DEF TokenInv
  <2>3. /\ batch'[w] = Tail(b)
        /\ UNCHANGED <<accepted, queuePending, phase>>
        /\ \/ Head(b) = Stop /\ Goto(w, "detach") /\ UNCHANGED delivered
           \/ Head(b) # Stop /\ Goto(w, "callback")
              /\ (pUserData => delivered' = Append(delivered, Head(b)))
    BY <1>4, Zenon DEF NextEvent
  <2>4. \A v \in Workers : Runs(v)' => v = w
    BY <1>4, <2>2 DEF NextEvent
  <2>5. b \in Seq(Events \cup {Stop}) /\ delivered \in Seq(Events)
    OBVIOUS
  <2>6. /\ Len(b) \in Nat /\ Len(b) > 0 /\ Len(Tail(b)) = Len(b) - 1 /\ Head(b) = b[1]
        /\ \A i \in 1..Len(Tail(b)) : Tail(b)[i] = b[i + 1]
        /\ Len(delivered) \in Nat /\ Len(queuePending) \in Nat
        /\ Head(b) # Stop => Head(b) \in Events
    BY <2>1, <2>5
  <2>7. SUFFICES ASSUME phase # "closed" PROVE FifoInv'
    BY <2>3
  <2>8. pUserData
    BY <2>1, <2>7 DEF PhaseInv
  <2>9. /\ Len(accepted) = Len(delivered) + Len(b) + Len(queuePending)
        /\ \A i \in 1..Len(b) : b[i] = accepted[Len(delivered) + i]
    BY <2>1, <2>5, <2>7
  <2>12. /\ Head(b) = accepted[Len(delivered) + 1]
         /\ Len(accepted) = Len(delivered) + 1 + Len(Tail(b)) + Len(queuePending)
         /\ \A i \in 1..Len(Tail(b)) : Tail(b)[i] = accepted[Len(delivered) + 1 + i]
    BY <2>1, <2>5, <2>6, <2>9, HeadAndTail
  <2> HIDE DEF b
  <2>10. CASE Head(b) = Stop
    <3>1. UNCHANGED delivered /\ pc'[w] = "detach"
      BY <2>3, <2>10
    <3>2. InHand(w)' = 1 /\ Runs(w)'
      BY <3>1 DEF InHand
    <3> HIDE DEF Typed, TypeOK, Runs
    <3>3. ASSUME NEW v \in Workers, Runs(v)'
          PROVE  /\ Len(accepted) = Len(delivered) + InHand(v)' + Len(batch'[v]) + Len(queuePending)
                 /\ accepted[Len(delivered) + 1] = Stop
                 /\ \A i \in 1..Len(batch'[v]) :
                      batch'[v][i] = accepted[Len(delivered) + InHand(v)' + i]
      BY <2>3, <2>4, <2>10, <2>12, <3>2, <3>3, ZenonT(40)
    <3>4. ~\A v \in Workers : ~Runs(v)'
      BY <3>2
    <3> QED BY <2>3, <2>7, <3>1, <3>3, <3>4
  <2>11. CASE Head(b) # Stop
    <3>1. delivered' = Append(delivered, Head(b)) /\ pc'[w] = "callback"
      BY <2>3, <2>8, <2>11
    <3>2. Len(delivered') = Len(delivered) + 1
      BY <2>5, <2>6, <2>11, <3>1
    <3>3. InHand(w)' = 0 /\ Runs(w)'
      BY <3>1 DEF InHand
    <3>4. Len(delivered') + InHand(w)' = Len(delivered) + 1
      BY <2>6, <3>2, <3>3
    <3> HIDE DEF Typed, TypeOK, Runs
    <3>5. ASSUME NEW v \in Workers, Runs(v)'
          PROVE  /\ Len(accepted) = Len(delivered') + InHand(v)' + Len(batch'[v]) + Len(queuePending)
                 /\ pc'[v] # "detach"
                 /\ \A i \in 1..Len(batch'[v]) :
                      batch'[v][i] = accepted[Len(delivered') + InHand(v)' + i]
      <4>1. v = w
        BY <2>4, <3>5
      <4> QED BY <2>3, <2>12, <3>1, <3>4, <4>1
    <3>6. ~\A v \in Workers : ~Runs(v)'
      BY <3>3
    <3> QED BY <2>3, <2>7, <3>1, <3>5, <3>6
  <2> QED BY <2>10, <2>11
<1>5. CASE CallbackReturns(w)
  BY <1>5, SMTT(30) DEF CallbackReturns, InHand
<1>6. CASE BatchDone(w)
  BY <1>6 DEF BatchDone, InHand
<1>7. CASE YieldReset(w)
  <2>1. Runs(w) /\ batch[w] = <<>> /\ InHand(w) = 0
    BY <1>7 DEF YieldReset, BatchInv, Consumes, InHand
  <2>2. \A v \in Workers : Runs(v) => v = w
    BY <2>1 DEF TokenInv
  <2>3. /\ \A v \in Workers : ~Runs(v)'
        /\ UNCHANGED <<accepted, delivered, queuePending, phase>>
    BY <1>7, <2>2 DEF YieldReset
  <2> QED BY <2>1, <2>3
<1>8. CASE EmptyReset(w)
  <2>1. Runs(w) /\ batch[w] = <<>> /\ InHand(w) = 0
    BY <1>8 DEF EmptyReset, BatchInv, Consumes, InHand
  <2>2. \A v \in Workers : Runs(v) => v = w
    BY <2>1 DEF TokenInv
  <2>3. /\ \A v \in Workers : ~Runs(v)'
        /\ UNCHANGED <<accepted, delivered, queuePending, phase>>
    BY <1>8, <2>2 DEF EmptyReset
  <2> QED BY <2>1, <2>3
<1>9. CASE Recheck(w)
  <2>1. /\ pc[w] = "recheck"
        /\ Call(w, "notify", "idle") \/ (Goto(w, "idle") /\ UNCHANGED ret)
        /\ UNCHANGED <<serviceVars, queueVars, watcherVars, localVars, fault, history>>
    BY <1>9, Zenon DEF Recheck, At
  <2>2. KeepsFifo
    BY <2>1 DEF KeepsFifo
  <2> QED BY <2>2, FifoKept
<1>10. CASE Detach(w)
  BY <1>10 DEF Detach, InHand
<1>11. CASE StopReset(w)
  BY <1>11 DEF StopReset, PhaseInv
<1>12. CASE StopClose(w)
  BY <1>12, ZenonT(40) DEF StopClose, InHand
<1>13. CASE StopPost(w)
  BY <1>13, ZenonT(40) DEF StopPost, InHand
<1>14. CASE StopRelease(w)
  BY <1>14, SMTT(30) DEF StopRelease, WatcherRelease, InHand
<1> QED BY <1>1, <1>2, <1>3, <1>4, <1>5, <1>6, <1>7, <1>8, <1>9, <1>10, <1>11, <1>12,
        <1>13, <1>14

LEMMA NotifyFifo ==
  ASSUME Typed, TokenInv, PhaseInv, BatchInv, FifoInv, NEW t \in Threads,
         NotifyRead(t) \/ NotifyCas(t) \/ PostQueued(t)
  PROVE  FifoInv'
<1> USE ThreadsAreDistinct
    DEF At, Goto, Call, Typed, TypeOK, InCall, Threads, serviceVars, queueVars,
        watcherVars, localVars, history, FifoInv, Runs
<1>1. CASE NotifyRead(t)
  <2>1. /\ fault = "none" /\ pc[t] = "notify"
        /\ \/ Goto(t, "cas") /\ UNCHANGED fault
           \/ UNCHANGED pc /\ ~pEventWatcher /\ fault' = "null"
        /\ UNCHANGED <<serviceVars, queueVars, watcherVars, ret, localVars, history>>
    BY <1>1, Zenon DEF NotifyRead, At, Crash
  <2>2. KeepsFifo
    BY <2>1 DEF KeepsFifo
  <2> QED BY <2>2, FifoKept
<1>2. CASE NotifyCas(t)
  <2>1. KeepsFifo
    BY <1>2 DEF NotifyCas, KeepsFifo, PhaseInv, BeforeWatch
  <2> QED BY <2>1, FifoKept
<1>3. CASE PostQueued(t)
  <2>1. KeepsFifo
    BY <1>3 DEF PostQueued, KeepsFifo, PhaseInv, BeforeWatch
  <2> QED BY <2>1, FifoKept
<1> QED BY <1>1, <1>2, <1>3

LEMMA StopFifo ==
  ASSUME Typed, TokenInv, PhaseInv, BatchInv, FifoInv, NEW t \in Threads, NEW from \in {"fnStart", "callback"},
         t = Starter => from = "fnStart", t \in Workers => from = "callback", t \notin Senders,
         CallStop(t, from) \/ StopPut(t)
  PROVE  FifoInv'
<1> USE ThreadsAreDistinct
    DEF At, Goto, Call, Typed, TypeOK, InCall, Threads, serviceVars, queueVars,
        watcherVars, localVars, history, FifoInv, Runs
<1>1. CASE CallStop(t, from)
  <2>1. KeepsFifo
    BY <1>1 DEF CallStop, RetOK, KeepsFifo, PhaseInv, BeforeWatch
  <2> QED BY <2>1, FifoKept
<1>2. CASE StopPut(t)
  <2> QED BY <1>2, FifoInsert DEF StopPut, RetOK
<1> QED BY <1>1, <1>2

-----------------------------------------------------------------------------
(* The invariant holds in every state. *)

Inv == /\ Typed /\ TokenInv
       /\ StartInv /\ PhaseInv /\ RefInv /\ FaultInv
       /\ BatchInv /\ CountInv /\ NoLostWakeup
       /\ FreshInv /\ FifoInv

LEMMA InitInv == Init => Inv
<1> SUFFICES ASSUME Init PROVE Inv
  OBVIOUS
<1>1. /\ pc[Starter] = "new"
      /\ \A s \in Senders : pc[s] = "idle"
      /\ \A w \in Workers : pc[w] = "idle" /\ batch[w] = <<>>
      /\ queuePending = <<>> /\ accepted = <<>> /\ delivered = <<>>
      /\ ~registered /\ iRefCount = 1 /\ uiQueueSize = 0 /\ watcherRefs = 0 /\ iStatus = 0
      /\ fault = "none" /\ phase = "starting" /\ ~bRunning
  BY ThreadsAreDistinct, Zenon DEF Init, Threads
<1>2. Typed /\ TokenInv
  BY InitTyped, InitToken
<1>3. StartInv
  BY <1>1 DEF StartInv, Threads
<1>4. PhaseInv
  BY <1>1 DEF PhaseInv, BeforeWatch, Runs, InCall
<1>5. RefInv
  <2>1. Gained = {}
    BY <1>1 DEF Gained
  <2>2. IsFiniteSet(Gained) /\ Cardinality(Gained) = 0
    BY <2>1, FS_EmptySet
  <2> QED BY <1>1, <2>2 DEF RefInv
<1>6. FaultInv /\ NoLostWakeup
  BY <1>1 DEF FaultInv, NoLostWakeup
<1>7. BatchInv
  BY <1>1 DEF BatchInv
<1>8. CountInv
  <2>1. Inserting = {}
    BY <1>1 DEF Inserting
  <2>2. IsFiniteSet(Inserting) /\ Cardinality(Inserting) = 0
    BY <2>1, FS_EmptySet
  <2> QED BY <1>1, <2>2 DEF CountInv
<1>9. FreshInv
  <2>1. M!Arrived = {}
    BY <1>1 DEF M!Arrived
  <2> QED BY <1>1, <2>1 DEF FreshInv, Threads
<1>10. FifoInv
  BY <1>1 DEF FifoInv, Runs, InCall
<1> QED BY <1>2, <1>3, <1>4, <1>5, <1>6, <1>7, <1>8, <1>9, <1>10 DEF Inv

\* An access to freed memory needs the stop event to have been processed.
LEMMA FreedIsClosed ==
  ASSUME Typed, StartInv, RefInv, NEW t \in Threads, Freed(t)
  PROVE  phase = "closed"
<1> SUFFICES ASSUME phase # "closed" PROVE FALSE
  OBVIOUS
<1>1. iRefCount > 0
  <2>1. iRefCount \in Int /\ Cardinality(Gained) \in Nat /\ iRefCount >= 1 + Cardinality(Gained)
    BY FS_CardinalityType DEF RefInv, Typed, TypeOK
  <2> QED BY <2>1
<1>2. pc[t] \in TouchesWatcher /\ watcherRefs = 0
  BY <1>1 DEF Freed
<1>3. pc[Starter] = "new"
  BY <1>2 DEF RefInv
<1> QED BY <1>2, <1>3 DEF StartInv, TouchesWatcher

\* A step that only ends the process, or stutters.
LEMMA CrashInv ==
  ASSUME Inv, fault' # fault => fault' # "none" /\ phase = "closed",
         fault' \in {"none", "assert", "null", "uaf"},
         UNCHANGED <<serviceVars, queueVars, watcherVars, pc, ret, localVars, history>>
  PROVE  Inv'
<1> USE DEF serviceVars, queueVars, watcherVars, localVars, history
<1>1. Typed' /\ TokenInv'
  BY CrashTyped, TokenStutters DEF Inv
<1>2. StartInv' /\ PhaseInv' /\ FaultInv'
  BY DEF Inv, StartInv, PhaseInv, FaultInv, BeforeWatch, HasToken, HoldsToken, Runs, InCall
<1>3. RefInv' /\ CountInv' /\ BatchInv'
  BY DEF Inv, RefInv, CountInv, BatchInv, Gained, Inserting, Consumes, BeforeWatch, InCall
<1>4. NoLostWakeup'
  BY DEF Inv, NoLostWakeup, WillLook
<1>5. FreshInv'
  BY DEF Inv, FreshInv, M!Arrived
<1>6. FifoInv'
  BY DEF Inv, FifoInv, Runs, InCall, InHand
<1> QED BY <1>1, <1>2, <1>3, <1>4, <1>5, <1>6 DEF Inv

LEMMA NextInv == Inv /\ [Next]_vars => Inv'
<1> SUFFICES ASSUME Inv, [Next]_vars PROVE Inv'
  OBVIOUS
<1>0. Typed' /\ TokenInv'
  BY NextTyped, NextToken DEF Inv
<1>1. CASE UNCHANGED vars
  <2>1. fault' \in {"none", "assert", "null", "uaf"}
    BY <1>1 DEF vars, Inv, Typed, TypeOK
  <2> QED BY <1>1, <2>1, CrashInv DEF vars
<1>2. ASSUME NEW t \in Threads, UseAfterFree(t) PROVE Inv'
  BY <1>2, FreedIsClosed, CrashInv DEF UseAfterFree, Crash, Inv
<1>3. ASSUME NEW t \in Threads, NotifyRead(t) \/ NotifyCas(t) \/ PostQueued(t) PROVE Inv'
  BY <1>0, <1>3, NotifyPhase, NotifyRefs, NotifyBatch, NotifyCount, NotifyWakes, NotifyFresh,
     NotifyFifo
  DEF Inv
<1>4. ASSUME NEW t \in Threads, NEW from \in {"fnStart", "callback"},
             t = Starter => from = "fnStart", t \in Workers => from = "callback",
             t \notin Senders, CallStop(t, from) \/ StopPut(t)
      PROVE  Inv'
  BY <1>0, <1>4, StopPhase, StopRefs, StopBatch, StopCount, StopWakes, StopFresh, StopFifo
  DEF Inv
<1>5. ASSUME NEW s \in Senders, SenderNext(s) PROVE Inv'
  <2>1. CASE NotifyRead(s) \/ NotifyCas(s) \/ PostQueued(s)
    BY <1>3, <2>1 DEF Threads
  <2>2. CASE Gain(s) \/ EnqueueCheck(s) \/ EnqueueCount(s) \/ EnqueueInsert(s) \/ Release(s)
    BY <1>0, <2>2, SenderPhase, SenderRefs, SenderBatch, SenderCount, SenderWakes, SenderFresh,
       SenderFifo
    DEF Inv
  <2> QED BY <1>5, <2>1, <2>2 DEF SenderNext
<1>6. CASE StarterNext
  <2>1. CASE NotifyRead(Starter) \/ NotifyCas(Starter) \/ PostQueued(Starter)
    BY <1>3, <2>1 DEF Threads
  <2>2. CASE CallStop(Starter, "fnStart") \/ StopPut(Starter)
    BY <1>4, <2>2, ThreadsAreDistinct DEF Threads
  <2>3. CASE StartBegin \/ FnStartFails \/ FnStartSucceeds \/ WatcherStart \/ WatcherStartRef
               \/ StartReturn
    BY <1>0, <2>3, StarterPhase, StarterRefs, StarterBatch, StarterCount, StarterWakes,
       StarterFresh, StarterFifo
    DEF Inv
  <2> QED BY <1>6, <2>1, <2>2, <2>3 DEF StarterNext
<1>7. ASSUME NEW w \in Workers, WorkerNext(w) PROVE Inv'
  <2>1. CASE NotifyRead(w) \/ NotifyCas(w) \/ PostQueued(w)
    BY <1>3, <2>1 DEF Threads
  <2>2. CASE CallStop(w, "callback") \/ StopPut(w)
    BY <1>4, <2>2, ThreadsAreDistinct DEF Threads
  <2>3. CASE AssertFails(w)
    BY <2>3, CrashInv DEF AssertFails, At, Crash, Inv, PhaseInv
  <2>4. CASE \/ Take(w) \/ Claim(w) \/ Drain(w) \/ NextEvent(w) \/ CallbackReturns(w)
             \/ BatchDone(w) \/ YieldReset(w) \/ EmptyReset(w) \/ Recheck(w) \/ Detach(w)
             \/ StopReset(w) \/ StopClose(w) \/ StopPost(w) \/ StopRelease(w)
    BY <1>0, <2>4, WorkerPhase, WorkerRefs, WorkerBatch, WorkerCount, WorkerWakes, WorkerFresh,
       WorkerFifo
    DEF Inv
  <2> QED BY <1>7, <2>1, <2>2, <2>3, <2>4 DEF WorkerNext
<1> QED BY <1>1, <1>2, <1>5, <1>6, <1>7 DEF Next

LEMMA AlwaysInv == Spec => []Inv
BY InitInv, NextInv, PTL DEF Spec

(***************************************************************************)
(* No interleaving of service_enqueue, doPendingFunctors and the watcher's *)
(* status leaves an event in an open mailbox that nobody will look at,     *)
(* whatever the number of senders and loop threads.                        *)
(***************************************************************************)
THEOREM WakeupsAreKept == Spec => []NoLostWakeup
BY AlwaysInv, PTL DEF Inv

(***************************************************************************)
(* Neither the failed assert of doPendingFunctors, nor the NULL watcher of *)
(* service_notify, nor an access to a freed service or watcher can occur   *)
(* before the stop event has been processed.                               *)
(***************************************************************************)
THEOREM FaultsNeedTheStop == Spec => []FaultOnlyAfterStop
<1>1. Inv => FaultOnlyAfterStop
  BY DEF Inv, FaultInv, FaultOnlyAfterStop
<1> QED BY <1>1, AlwaysInv, PTL

-----------------------------------------------------------------------------
(* The refinement. *)

\* Putting an event in the queue is Mailbox's Accept.
LEMMA InsertAccepts ==
  ASSUME Inv, NEW t \in Threads,
         (t \in Senders /\ EnqueueInsert(t)) \/ StopPut(t)
  PROVE  M!Accept
<1>1. CASE t \in Senders /\ EnqueueInsert(t)
  <2>1. <<t, sent[t]>> \in (Events \cup {Stop}) \ M!Arrived
    BY <1>1, MessageIsFresh DEF EnqueueInsert, At, Inv
  <2>2. accepted' = Append(accepted, <<t, sent[t]>>) /\ UNCHANGED <<delivered, phase>>
    BY <1>1, Zenon DEF EnqueueInsert, Insert, history
  <2> QED BY <2>1, <2>2 DEF M!Accept
<1>2. CASE StopPut(t)
  <2>1. Stop \in (Events \cup {Stop}) \ M!Arrived
    BY <1>2 DEF StopPut, At, Inv, FreshInv
  <2>2. accepted' = Append(accepted, Stop) /\ UNCHANGED <<delivered, phase>>
    BY <1>2, Zenon DEF StopPut, Insert, history
  <2> QED BY <2>1, <2>2 DEF M!Accept
<1> QED BY <1>1, <1>2

\* Starting the watcher, or failing to, is Mailbox's Open.
LEMMA StartOpens ==
  ASSUME Inv, WatcherStart \/ FnStartFails
  PROVE  M!Open
<1>1. phase = "starting"
  BY DEF WatcherStart, FnStartFails, At, Inv, PhaseInv, BeforeWatch
<1>2. phase' \in {"open", "failed"} /\ UNCHANGED <<accepted, delivered>>
  BY Zenon DEF WatcherStart, FnStartFails, queueVars
<1> QED BY <1>1, <1>2 DEF M!Open

\* Taking an event off the batch delivers it, unless it is the stop event or
\* the service has stopped.
LEMMA NextEventDelivers ==
  ASSUME Inv, NEW w \in Workers, NextEvent(w)
  PROVE  M!Deliver \/ UNCHANGED M!mailboxVars
<1> DEFINE b == batch[w]
<1>1. /\ UNCHANGED <<accepted, phase>>
      /\ delivered' = delivered \/ (pUserData /\ Head(b) # Stop /\ delivered' = Append(delivered, Head(b)))
  BY Zenon DEF NextEvent
<1>2. CASE delivered' = delivered
  BY <1>1, <1>2 DEF M!mailboxVars
<1>3. CASE pUserData /\ Head(b) # Stop /\ delivered' = Append(delivered, Head(b))
  <2>1. Runs(w) /\ InHand(w) = 0 /\ b # <<>>
    BY DEF NextEvent, At, Runs, InHand, Inv, Typed, BatchOK
  <2>2. phase = "open"
    BY <1>3, <2>1 DEF Inv, PhaseInv
  <2>3. /\ b \in Seq(Events \cup {Stop})
        /\ Len(delivered) \in Nat /\ Len(queuePending) \in Nat /\ Len(accepted) \in Nat
    BY DEF Inv, Typed, TypeOK
  <2>4. /\ Len(accepted) = Len(delivered) + Len(b) + Len(queuePending)
        /\ \A i \in 1..Len(b) : b[i] = accepted[Len(delivered) + i]
    BY <2>1, <2>2, <2>3 DEF Inv, FifoInv
  <2> HIDE DEF b
  <2>5. /\ Head(b) = accepted[Len(delivered) + 1]
        /\ Len(accepted) = Len(delivered) + 1 + Len(Tail(b)) + Len(queuePending)
    BY <2>1, <2>3, <2>4, HeadAndTail
  <2>6. Len(Tail(b)) \in Nat
    BY <2>1, <2>3
  <2>7. Len(delivered) < Len(accepted)
    <3>1. Len(delivered) + 1 \in 1..Len(accepted)
      BY <2>3, <2>5, <2>6, FirstIsThere
    <3> QED BY <2>3, <3>1
  <2> QED BY <1>1, <1>3, <2>2, <2>5, <2>7 DEF M!Deliver, M!Pending, M!NextEvent
<1> QED BY <1>1, <1>2, <1>3

\* Acting upon the stop event is Mailbox's Close.
LEMMA DetachCloses ==
  ASSUME Inv, NEW w \in Workers, Detach(w)
  PROVE  M!Close \/ UNCHANGED M!mailboxVars
<1>1. phase' = "closed" /\ UNCHANGED <<accepted, delivered>> /\ pc[w] = "detach"
  BY Zenon DEF Detach, At, queueVars
<1>2. Runs(w) /\ InHand(w) = 1
  BY <1>1 DEF Runs, InHand
<1>3. phase \in {"open", "closed"}
  BY <1>2 DEF Inv, PhaseInv
<1>4. CASE phase = "closed"
  BY <1>1, <1>4 DEF M!mailboxVars
<1>5. CASE phase = "open"
  <2>1. /\ accepted[Len(delivered) + 1] = Stop
        /\ Len(accepted) = Len(delivered) + 1 + Len(batch[w]) + Len(queuePending)
    BY <1>1, <1>2, <1>5 DEF Inv, FifoInv
  <2>2. /\ Len(delivered) \in Nat /\ Len(queuePending) \in Nat /\ Len(accepted) \in Nat
        /\ Len(batch[w]) \in Nat
    BY DEF Inv, Typed, TypeOK
  <2>3. Len(delivered) < Len(accepted)
    <3>1. Len(delivered) + 1 \in 1..Len(accepted)
      BY <2>1, <2>2, FirstIsThere
    <3> QED BY <2>2, <3>1
  <2> QED BY <1>1, <1>5, <2>1, <2>3 DEF M!Close, M!Pending, M!NextEvent
<1> QED BY <1>3, <1>4, <1>5

LEMMA NextRefines == Inv /\ [Next]_vars => [M!Next]_(M!mailboxVars)
<1> SUFFICES ASSUME Inv, [Next]_vars PROVE M!Next \/ UNCHANGED M!mailboxVars
  OBVIOUS
<1> USE DEF M!mailboxVars, queueVars, history
<1>1. CASE UNCHANGED vars \/ \E t \in Threads : UseAfterFree(t)
  BY <1>1 DEF vars, UseAfterFree, Crash
<1>2. ASSUME NEW t \in Threads, NotifyRead(t) \/ NotifyCas(t) \/ PostQueued(t)
      PROVE  UNCHANGED M!mailboxVars
  BY <1>2, Zenon DEF NotifyRead, NotifyCas, PostQueued, Crash
<1>3. ASSUME NEW s \in Senders, SenderNext(s) PROVE M!Next \/ UNCHANGED M!mailboxVars
  <2>1. CASE EnqueueInsert(s)
    BY <2>1, InsertAccepts DEF M!Next, Threads
  <2>2. CASE Gain(s) \/ EnqueueCheck(s) \/ EnqueueCount(s) \/ Release(s)
    BY <2>2, Zenon DEF Gain, EnqueueCheck, EnqueueCount, Release
  <2> QED BY <1>2, <1>3, <2>1, <2>2 DEF SenderNext, Threads
<1>4. CASE StarterNext
  <2>1. CASE StopPut(Starter)
    BY <2>1, InsertAccepts DEF M!Next, Threads
  <2>2. CASE WatcherStart \/ FnStartFails
    BY <2>2, StartOpens DEF M!Next
  <2>3. CASE StartBegin \/ FnStartSucceeds \/ WatcherStartRef \/ StartReturn
               \/ CallStop(Starter, "fnStart")
    BY <2>3, Zenon DEF StartBegin, FnStartSucceeds, WatcherStartRef, StartReturn, CallStop
  <2> QED BY <1>2, <1>4, <2>1, <2>2, <2>3 DEF StarterNext, Threads
<1>5. ASSUME NEW w \in Workers, WorkerNext(w) PROVE M!Next \/ UNCHANGED M!mailboxVars
  <2>1. CASE StopPut(w)
    BY <2>1, InsertAccepts DEF M!Next, Threads
  <2>2. CASE NextEvent(w)
    BY <2>2, NextEventDelivers DEF M!Next
  <2>3. CASE Detach(w)
    BY <2>3, DetachCloses DEF M!Next
  <2>4. CASE \/ Take(w) \/ Claim(w) \/ Drain(w) \/ CallbackReturns(w) \/ BatchDone(w)
             \/ CallStop(w, "callback")
    BY <2>4, Zenon DEF Take, Claim, Drain, CallbackReturns, BatchDone, CallStop
  <2>5. CASE \/ YieldReset(w) \/ EmptyReset(w) \/ Recheck(w) \/ StopReset(w) \/ StopClose(w)
             \/ StopPost(w) \/ StopRelease(w) \/ AssertFails(w)
    BY <2>5, Zenon
    DEF YieldReset, EmptyReset, Recheck, StopReset, StopClose, StopPost, StopRelease,
        AssertFails, Crash
  <2> QED BY <1>2, <1>5, <2>1, <2>2, <2>3, <2>4, <2>5 DEF WorkerNext, Threads
<1> QED BY <1>1, <1>3, <1>4, <1>5 DEF Next

(***************************************************************************)
(* The service implements the mailbox of its abstract specification: every *)
(* step of every thread is a step of the FIFO mailbox, or is invisible to  *)
(* it.                                                                     *)
(***************************************************************************)
THEOREM MailboxIsImplemented == Spec => ImplementsMailbox
<1>1. Init => M!Init
  BY DEF Init, M!Init
<1> QED BY <1>1, AlwaysInv, NextRefines, PTL DEF Spec, M!Spec, ImplementsMailbox
=============================================================================
