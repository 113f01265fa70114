--------------------------- MODULE ServiceMailbox ---------------------------
(***************************************************************************)
(* One service, from service_start to the release of its last reference:   *)
(* the mailbox of service_t.c, the eventWatcher that schedules it on the   *)
(* loop threads, and the threads that start it, send to it, run it and     *)
(* stop it.  A step is one atomic operation of the code, one critical      *)
(* section, or one access to a field that other threads read without a     *)
(* lock.                                                                   *)
(*                                                                         *)
(* The watcher's iStatus is 0 closed, 1 idle, 2 notified, 3 running.  Its  *)
(* only eventAsync node is "the token": whoever turns 1 into 2 posts it to *)
(* the queue the loop threads share, and a loop thread that takes it turns *)
(* 2 into 3 and runs the mailbox.                                          *)
(***************************************************************************)
EXTENDS Integers, Sequences, FiniteSets

CONSTANTS Senders,   \* threads that gain the service by its ID and send to it
          Workers,   \* loop threads of the eventIO
          Starter,   \* the thread that calls createService and service_start
          Stop,      \* the event service_stop inserts
          MaxSends,  \* bound: messages each sender tries to send
          Quiet      \* TRUE: service_stop is only called while no other thread
                     \* is inside a call on the service

ASSUME ThreadsAreDistinct ==
  /\ Senders \cap Workers = {}
  /\ Starter \notin Senders \cup Workers

ASSUME BoundIsNatural == MaxSends \in Nat

ASSUME QuietIsBoolean == Quiet \in BOOLEAN

Threads == Senders \cup Workers \cup {Starter}

Events == Senders \X (1..MaxSends)

ASSUME StopIsNoMessage == Stop \notin Events

VARIABLES
  bRunning,       \* service_s.bRunning: sends are accepted
  pUserData,      \* service_s.pUserData # NULL
  iRefCount,      \* service_s.iRefCount; 0 = the service is freed
  registered,     \* the service is in the center and its uiServiceID is set
  pEventWatcher,  \* service_s.pEventWatcher # NULL
  queuePending,   \* service_s.queuePending
  uiQueueSize,    \* service_s.uiQueueSize
  iStatus,        \* eventWatcher_s.iStatus
  watcherRefs,    \* eventWatcher_s.iRefCount; 0 = not created yet, or freed
  posted,         \* the watcher's node is in eventIO_s.queuedEvent
  pc,             \* where each thread is
  ret,            \* where the call a thread is in returns to
  batch,          \* doPendingFunctors' local queue, per loop thread
  sent,           \* messages each sender has tried to send
  fault,          \* "none", or how the process died: "assert", "null", "uaf"
  accepted, delivered, phase   \* history: see Mailbox

serviceVars == <<bRunning, pUserData, iRefCount, registered, pEventWatcher>>
queueVars   == <<queuePending, uiQueueSize, accepted>>
watcherVars == <<iStatus, watcherRefs, posted>>
localVars   == <<batch, sent>>
history     == <<delivered, phase>>
vars == <<serviceVars, queueVars, watcherVars, pc, ret, localVars, fault, history>>

SenderPCs  == {"idle", "check", "count", "insert", "notify", "cas", "post", "release"}
StarterPCs == {"new", "fnStart", "stopPut", "watch", "watchRef",
               "notify", "cas", "post", "return", "done"}
WorkerPCs  == {"idle", "claim", "drain", "event", "callback", "stopPut",
               "notify", "cas", "post", "detach", "stopReset", "stopClose",
               "stopPost", "stopRelease", "afterStop", "batchDone", "yield", "reset",
               "recheck"}

Init ==
  /\ bRunning = FALSE
  /\ pUserData = FALSE
  /\ iRefCount = 1
  /\ registered = FALSE
  /\ pEventWatcher = FALSE
  /\ queuePending = <<>>
  /\ uiQueueSize = 0
  /\ iStatus = 0
  /\ watcherRefs = 0
  /\ posted = FALSE
  /\ pc = [t \in Threads |-> IF t = Starter THEN "new" ELSE "idle"]
  /\ ret = [t \in Threads |-> "idle"]
  /\ batch = [w \in Workers |-> <<>>]
  /\ sent = [s \in Senders |-> 0]
  /\ fault = "none"
  /\ accepted = <<>>
  /\ delivered = <<>>
  /\ phase = "starting"

-----------------------------------------------------------------------------
TouchesService == {"check", "count", "insert", "notify", "release", "fnStart", "watch",
                   "return", "stopPut", "drain", "event", "callback", "detach",
                   "afterStop", "batchDone", "yield", "reset", "recheck"}

TouchesWatcher == {"cas", "post", "watch", "watchRef", "claim", "stopReset", "stopClose",
                   "stopPost", "stopRelease"}

\* The next step of t is an access to freed memory.
Freed(t) == \/ pc[t] \in TouchesService /\ iRefCount = 0
            \/ pc[t] \in TouchesWatcher /\ watcherRefs = 0

At(t, l) == fault = "none" /\ pc[t] = l /\ ~Freed(t)

Goto(t, l) == pc' = [pc EXCEPT ![t] = l]

Call(t, l, r) == pc' = [pc EXCEPT ![t] = l] /\ ret' = [ret EXCEPT ![t] = r]

\* The process dies: a failed assert, a NULL dereference, a use after free.
Crash(kind) ==
  /\ fault' = kind
  /\ UNCHANGED <<serviceVars, queueVars, watcherVars, pc, ret, localVars, history>>

UseAfterFree(t) == fault = "none" /\ Freed(t) /\ Crash("uaf")

\* Faulty variant: QUEUE_INSERT_HEAD.
InsertAtHead(e) ==
  /\ queuePending' = <<e>> \o queuePending
  /\ accepted' = Append(accepted, e)

\* Appending under the spin lock.
Insert(e) ==
  /\ queuePending' = Append(queuePending, e)
  /\ accepted' = Append(accepted, e)

-----------------------------------------------------------------------------
(* service_notify, called from service_start, service_enqueue, service_stop
   and doPendingFunctors: read the field, compare and swap 1 by 2, and post
   the node if that succeeded. *)

NotifyRead(t) ==
  /\ At(t, "notify")
  /\ IF pEventWatcher
     THEN /\ Goto(t, "cas")
          /\ UNCHANGED <<serviceVars, queueVars, watcherVars, ret, localVars, fault, history>>
     ELSE Crash("null")

\* Faulty variant: the status is stored, not compared and swapped.
NotifyStore(t) ==
  /\ At(t, "cas")
  /\ iStatus' = IF iStatus # 0 THEN 2 ELSE iStatus
  /\ Goto(t, IF iStatus # 0 THEN "post" ELSE ret[t])
  /\ UNCHANGED <<serviceVars, queueVars, watcherRefs, posted, ret, localVars, fault, history>>

NotifyCas(t) ==
  /\ At(t, "cas")
  /\ iStatus' = IF iStatus = 1 THEN 2 ELSE iStatus
  /\ Goto(t, IF iStatus = 1 THEN "post" ELSE ret[t])
  /\ UNCHANGED <<serviceVars, queueVars, watcherRefs, posted, ret, localVars, fault, history>>

\* eventIO_postQueued while the loops run.
PostQueued(t) ==
  /\ At(t, "post")
  /\ posted' = TRUE
  /\ Goto(t, ret[t])
  /\ UNCHANGED <<serviceVars, queueVars, iStatus, watcherRefs, ret, localVars, fault, history>>

-----------------------------------------------------------------------------
(* service_stop: called by the service's own code, in fnStart or in a
   callback (lservice_context_exit). *)

\* The threads that are between two steps of a call on the service.
Inside == {t \in Threads : pc[t] \notin {"idle", "check", "release", "claim", "new", "done"}}

CallStop(t, from) ==
  /\ At(t, from)
  /\ bRunning
  /\ Quiet => t # Starter /\ Inside = {t}
  /\ bRunning' = FALSE
  /\ Call(t, "stopPut", from)
  /\ UNCHANGED <<pUserData, iRefCount, registered, pEventWatcher, queueVars, watcherVars,
                 localVars, fault, history>>

StopPut(t) ==
  /\ At(t, "stopPut")
  /\ uiQueueSize' = uiQueueSize + 1
  /\ Insert(Stop)
  /\ Goto(t, "notify")
  /\ UNCHANGED <<serviceVars, watcherVars, ret, localVars, fault, history>>

-----------------------------------------------------------------------------
(* A sender: serviceCenter_gain, service_send -> service_enqueue,
   service_release. *)

Gain(s) ==
  /\ At(s, "idle")
  /\ sent[s] < MaxSends
  /\ registered
  /\ iRefCount' = iRefCount + 1
  /\ sent' = [sent EXCEPT ![s] = @ + 1]
  /\ Goto(s, "check")
  /\ UNCHANGED <<bRunning, pUserData, registered, pEventWatcher, queueVars, watcherVars,
                 ret, batch, fault, history>>

EnqueueCheck(s) ==
  /\ At(s, "check")
  /\ Goto(s, IF bRunning THEN "count" ELSE "release")
  /\ UNCHANGED <<serviceVars, queueVars, watcherVars, ret, localVars, fault, history>>

EnqueueCount(s) ==
  /\ At(s, "count")
  /\ uiQueueSize' = uiQueueSize + 1
  /\ Goto(s, "insert")
  /\ UNCHANGED <<serviceVars, queuePending, accepted, watcherVars, ret, localVars, fault, history>>

EnqueueInsert(s) ==
  /\ At(s, "insert")
  /\ Insert(<<s, sent[s]>>)
  /\ Call(s, "notify", "release")
  /\ UNCHANGED <<serviceVars, uiQueueSize, watcherVars, localVars, fault, history>>

Release(s) ==
  /\ At(s, "release")
  /\ iRefCount' = iRefCount - 1
  /\ Goto(s, "idle")
  /\ UNCHANGED <<bRunning, pUserData, registered, pEventWatcher, queueVars, watcherVars,
                 ret, localVars, fault, history>>

SenderNext(s) ==
  \/ Gain(s) \/ EnqueueCheck(s) \/ EnqueueCount(s) \/ EnqueueInsert(s) \/ Release(s)
  \/ NotifyRead(s) \/ NotifyCas(s) \/ PostQueued(s)

-----------------------------------------------------------------------------
(* service_start.  Until the center holds the service and uiServiceID is set
   no other thread can gain it, so the steps up to there are one. *)

StartBegin ==
  /\ At(Starter, "new")
  /\ bRunning' = TRUE
  /\ iRefCount' = iRefCount + 2      \* the watcher's reference and the center's
  /\ pEventWatcher' = TRUE
  /\ watcherRefs' = 1
  /\ registered' = TRUE
  /\ Goto(Starter, "fnStart")
  /\ UNCHANGED <<pUserData, queueVars, iStatus, posted, ret, localVars, fault, history>>

\* Faulty variant: the failed start also drops the watcher.
FnStartFailsAndDetaches ==
  /\ At(Starter, "fnStart")
  /\ bRunning' = FALSE
  /\ pEventWatcher' = FALSE
  /\ iRefCount' = iRefCount - 1
  /\ phase' = "failed"
  /\ Goto(Starter, "done")
  /\ UNCHANGED <<pUserData, registered, queueVars, watcherVars, ret, localVars, fault, delivered>>

\* The service stays registered and its watcher is never released.
FnStartFails ==
  /\ At(Starter, "fnStart")
  /\ bRunning' = FALSE
  /\ iRefCount' = iRefCount - 1      \* fnStop
  /\ phase' = "failed"
  /\ Goto(Starter, "done")
  /\ UNCHANGED <<pUserData, registered, pEventWatcher, queueVars, watcherVars, ret,
                 localVars, fault, delivered>>

FnStartSucceeds ==
  /\ At(Starter, "fnStart")
  /\ pUserData' = TRUE
  /\ Goto(Starter, "watch")
  /\ UNCHANGED <<bRunning, iRefCount, registered, pEventWatcher, queueVars, watcherVars,
                 ret, localVars, fault, history>>

WatcherStart ==
  /\ At(Starter, "watch")
  /\ iStatus' = IF iStatus = 0 THEN 1 ELSE iStatus
  /\ phase' = "open"
  /\ Goto(Starter, "watchRef")
  /\ UNCHANGED <<serviceVars, queueVars, watcherRefs, posted, ret, localVars, fault, delivered>>

WatcherStartRef ==
  /\ At(Starter, "watchRef")
  /\ watcherRefs' = watcherRefs + 1
  /\ Call(Starter, "notify", "return")
  /\ UNCHANGED <<serviceVars, queueVars, iStatus, posted, localVars, fault, history>>

\* return pService->uiServiceID
StartReturn ==
  /\ At(Starter, "return")
  /\ Goto(Starter, "done")
  /\ UNCHANGED <<serviceVars, queueVars, watcherVars, ret, localVars, fault, history>>

StarterNext ==
  \/ StartBegin \/ FnStartFails \/ FnStartSucceeds \/ WatcherStart \/ WatcherStartRef
  \/ StartReturn \/ CallStop(Starter, "fnStart") \/ StopPut(Starter)
  \/ NotifyRead(Starter) \/ NotifyCas(Starter) \/ PostQueued(Starter)

-----------------------------------------------------------------------------
(* A loop thread: eventIO_doEvents takes the token, inLoop_eventWatcher_notify
   claims it and doPendingFunctors runs the mailbox. *)

Take(w) ==
  /\ At(w, "idle")
  /\ posted
  /\ posted' = FALSE
  /\ Goto(w, "claim")
  /\ UNCHANGED <<serviceVars, queueVars, iStatus, watcherRefs, ret, localVars, fault, history>>

\* eventWatcher_release: the last one frees the watcher and drops the service
\* reference it held (eventWatcher_OnUserFree).
WatcherRelease ==
  /\ watcherRefs' = watcherRefs - 1
  /\ iRefCount' = IF watcherRefs = 1 THEN iRefCount - 1 ELSE iRefCount

\* Faulty variant: the watcher is created with bManualReset.
ClaimManualReset(w) ==
  /\ At(w, "claim")
  /\ iStatus' = IF iStatus = 2 THEN 1 ELSE iStatus
  /\ Goto(w, IF iStatus = 2 THEN "drain" ELSE "idle")
  /\ IF iStatus = 0
     THEN WatcherRelease
     ELSE UNCHANGED <<watcherRefs, iRefCount>>
  /\ UNCHANGED <<bRunning, pUserData, registered, pEventWatcher, queueVars, posted, ret,
                 localVars, fault, history>>

Claim(w) ==
  /\ At(w, "claim")
  /\ iStatus' = IF iStatus = 2 THEN 3 ELSE iStatus
  /\ Goto(w, IF iStatus = 2 THEN "drain" ELSE "idle")
  /\ IF iStatus = 0
     THEN WatcherRelease
     ELSE UNCHANGED <<watcherRefs, iRefCount>>
  /\ UNCHANGED <<bRunning, pUserData, registered, pEventWatcher, queueVars, posted, ret,
                 localVars, fault, history>>

Drain(w) ==
  /\ At(w, "drain")
  /\ batch' = [batch EXCEPT ![w] = queuePending]
  /\ queuePending' = <<>>
  /\ Goto(w, IF queuePending = <<>> THEN "reset" ELSE "event")
  /\ UNCHANGED <<serviceVars, uiQueueSize, accepted, watcherVars, ret, sent, fault, history>>

NextEvent(w) ==
  /\ At(w, "event")
  /\ batch' = [batch EXCEPT ![w] = Tail(@)]
  /\ uiQueueSize' = uiQueueSize - 1
  /\ IF Head(batch[w]) = Stop
     THEN /\ Goto(w, "detach")
          /\ UNCHANGED delivered
     ELSE /\ Goto(w, "callback")
          /\ delivered' = IF pUserData THEN Append(delivered, Head(batch[w])) ELSE delivered
  /\ UNCHANGED <<serviceVars, queuePending, accepted, watcherVars, ret, sent, fault, phase>>

CallbackReturns(w) ==
  /\ At(w, "callback")
  /\ Goto(w, IF batch[w] = <<>> THEN "batchDone" ELSE "event")
  /\ UNCHANGED <<serviceVars, queueVars, watcherVars, ret, localVars, fault, history>>

\* The count is the process's, changed by every service's wakeups: its sign
\* is arbitrary here.
BatchDone(w) ==
  /\ At(w, "batchDone")
  /\ \E waitForCountPositive \in BOOLEAN :
       Goto(w, IF uiQueueSize > 0 /\ waitForCountPositive THEN "yield" ELSE "drain")
  /\ UNCHANGED <<serviceVars, queueVars, watcherVars, ret, localVars, fault, history>>

Reset == iStatus' = IF pEventWatcher /\ iStatus = 3 THEN 1 ELSE iStatus

YieldReset(w) ==
  /\ At(w, "yield")
  /\ Reset
  /\ Call(w, "notify", "idle")
  /\ UNCHANGED <<serviceVars, queueVars, watcherRefs, posted, localVars, fault, history>>

EmptyReset(w) ==
  /\ At(w, "reset")
  /\ Reset
  /\ Goto(w, "recheck")
  /\ UNCHANGED <<serviceVars, queueVars, watcherRefs, posted, ret, localVars, fault, history>>

\* Faulty variant: the queue size is not read again after the reset.
RecheckDropped(w) ==
  /\ At(w, "recheck")
  /\ Goto(w, "idle")
  /\ UNCHANGED <<serviceVars, queueVars, watcherVars, ret, localVars, fault, history>>

Recheck(w) ==
  /\ At(w, "recheck")
  /\ IF uiQueueSize > 0
     THEN Call(w, "notify", "idle")
     ELSE Goto(w, "idle") /\ UNCHANGED ret
  /\ UNCHANGED <<serviceVars, queueVars, watcherVars, localVars, fault, history>>

-----------------------------------------------------------------------------
(* The stop event.  fnStop gives up the creator's reference and the center
   its own; no other thread can tell these from the clearing of pEventWatcher. *)

Detach(w) ==
  /\ At(w, "detach")
  /\ pUserData' = FALSE
  /\ registered' = FALSE
  /\ iRefCount' = iRefCount - 2
  /\ pEventWatcher' = FALSE
  /\ phase' = "closed"
  /\ Goto(w, "stopReset")
  /\ UNCHANGED <<bRunning, queueVars, watcherVars, ret, localVars, fault, delivered>>

StopReset(w) ==
  /\ At(w, "stopReset")
  /\ iStatus' = IF iStatus = 3 THEN 1 ELSE iStatus
  /\ Goto(w, "stopClose")
  /\ UNCHANGED <<serviceVars, queueVars, watcherRefs, posted, ret, localVars, fault, history>>

\* Faulty variant: eventWatcher_close posts nothing.
StopCloseSilent(w) ==
  /\ At(w, "stopClose")
  /\ iStatus' = 0
  /\ Goto(w, "stopRelease")
  /\ UNCHANGED <<serviceVars, queueVars, watcherRefs, posted, ret, localVars, fault, history>>

StopClose(w) ==
  /\ At(w, "stopClose")
  /\ iStatus' = 0
  /\ Goto(w, IF iStatus = 1 THEN "stopPost" ELSE "stopRelease")
  /\ UNCHANGED <<serviceVars, queueVars, watcherRefs, posted, ret, localVars, fault, history>>

StopPost(w) ==
  /\ At(w, "stopPost")
  /\ posted' = TRUE
  /\ Goto(w, "stopRelease")
  /\ UNCHANGED <<serviceVars, queueVars, iStatus, watcherRefs, ret, localVars, fault, history>>

StopRelease(w) ==
  /\ At(w, "stopRelease")
  /\ WatcherRelease
  /\ Goto(w, IF batch[w] = <<>> THEN "idle" ELSE "afterStop")
  /\ UNCHANGED <<bRunning, pUserData, registered, pEventWatcher, queueVars, iStatus, posted,
                 ret, localVars, fault, history>>

\* An event of the same batch behind the stop event: assert(bRunning) fails.
AssertFails(w) == At(w, "afterStop") /\ Crash("assert")

WorkerNext(w) ==
  \/ Take(w) \/ Claim(w) \/ Drain(w) \/ NextEvent(w) \/ CallbackReturns(w)
  \/ BatchDone(w) \/ YieldReset(w) \/ EmptyReset(w) \/ Recheck(w)
  \/ CallStop(w, "callback") \/ StopPut(w)
  \/ NotifyRead(w) \/ NotifyCas(w) \/ PostQueued(w)
  \/ Detach(w) \/ StopReset(w) \/ StopClose(w) \/ StopPost(w) \/ StopRelease(w)
  \/ AssertFails(w)

Next == \/ \E s \in Senders : SenderNext(s)
        \/ StarterNext
        \/ \E w \in Workers : WorkerNext(w)
        \/ \E t \in Threads : UseAfterFree(t)

Spec == Init /\ [][Next]_vars

(***************************************************************************)
(* The loop threads run for ever, a callback returns, and a thread inside  *)
(* a call finishes it.  Nobody has to send or to stop.                     *)
(***************************************************************************)
Fairness ==
  /\ \A w \in Workers : WF_vars(WorkerNext(w))
  /\ \A s \in Senders : WF_vars(pc[s] # "idle" /\ SenderNext(s))
  /\ WF_vars(StarterNext)

FairSpec == Spec /\ Fairness

-----------------------------------------------------------------------------
TypeOK ==
  /\ bRunning \in BOOLEAN
  /\ pUserData \in BOOLEAN
  /\ iRefCount \in Int
  /\ registered \in BOOLEAN
  /\ pEventWatcher \in BOOLEAN
  /\ queuePending \in Seq(Events \cup {Stop})
  /\ uiQueueSize \in Int
  /\ iStatus \in 0..3
  /\ watcherRefs \in Int
  /\ posted \in BOOLEAN
  /\ pc \in [Threads -> SenderPCs \cup StarterPCs \cup WorkerPCs]
  /\ \A s \in Senders : pc[s] \in SenderPCs
  /\ pc[Starter] \in StarterPCs
  /\ \A w \in Workers : pc[w] \in WorkerPCs
  /\ ret \in [Threads -> {"idle", "release", "return", "fnStart", "callback"}]
  /\ batch \in [Workers -> Seq(Events \cup {Stop})]
  /\ sent \in [Senders -> 0..MaxSends]
  /\ fault \in {"none", "assert", "null", "uaf"}
  /\ accepted \in Seq(Events \cup {Stop})
  /\ delivered \in Seq(Events)
  /\ phase \in {"starting", "open", "closed", "failed"}

InCall(t) == pc[t] \in {"notify", "cas", "post"}

\* Loop thread w runs code of the service: a message callback, or fnStop.
InService(w) == \/ pc[w] \in {"callback", "stopPut", "detach"}
                \/ InCall(w) /\ ret[w] = "callback"

(***************************************************************************)
(* However many loop threads there are, the service's own code never runs  *)
(* on two of them while its user data lives: doPendingFunctors is entered  *)
(* only with the token, fnStop included.                                   *)
(***************************************************************************)
SerialCallbacks ==
  \A v, w \in Workers : pUserData /\ InService(v) /\ InService(w) => v = w

HoldsToken(t) == pc[t] \in {"post", "stopPost", "claim"}

(***************************************************************************)
(* The watcher's single node is in one place at most: about to be posted   *)
(* by one thread, in the shared queue, or taken by one loop thread.        *)
(* Inserting it twice would corrupt the loops' list.                       *)
(***************************************************************************)
TokenUnique ==
  /\ \A t, u \in Threads : HoldsToken(t) /\ HoldsToken(u) => t = u
  /\ posted => \A t \in Threads : ~HoldsToken(t)

\* t will notify, or look at uiQueueSize, before it leaves the service.
WillLook(t) == pc[t] \in {"notify", "cas", "recheck", "watchRef"}

(***************************************************************************)
(* No lost wakeup: while the mailbox is open and holds an event that no    *)
(* loop thread has picked up, the token is on its way, the mailbox is      *)
(* being run, or a thread is still going to notify.                        *)
(***************************************************************************)
NoLostWakeup ==
  phase = "open" /\ fault = "none" /\ queuePending # <<>> /\ iStatus < 2
    => \E t \in Threads : WillLook(t)

(***************************************************************************)
(* Whatever the threads do, the process cannot die of this protocol before *)
(* the stop event has been processed: the failed assert, the NULL watcher  *)
(* and the use after free all need a stop that a sender or the starter     *)
(* overtook.                                                               *)
(***************************************************************************)
FaultOnlyAfterStop == fault # "none" => phase = "closed"

M == INSTANCE Mailbox

(***************************************************************************)
(* The service implements the mailbox: FIFO, no event skipped or handed    *)
(* over twice, none after the stop event.                                  *)
(***************************************************************************)
ImplementsMailbox == M!Spec

(***************************************************************************)
(* Every event accepted by an open mailbox is handed to the callback,      *)
(* unless the service stops first or never started.                        *)
(***************************************************************************)
EventuallyDelivered ==
  \A i \in 1..Cardinality(Events) :
    Len(accepted) >= i ~> Len(delivered) >= i \/ phase \in {"closed", "failed"}

(* The watcher and the service are freed once the stop event has been      *)
(* processed, when service_stop overlaps no other call on the service.     *)
EventuallyFreed == phase = "closed" ~> iRefCount = 0 /\ watcherRefs = 0

(* assert(bRunning) in doPendingFunctors says that no event follows the    *)
(* stop event in a batch.                                                  *)
NoAssertFailure == fault # "assert"
=============================================================================
