------------------------------ MODULE EventIO -------------------------------
(***************************************************************************)
(* One eventIO (eventIO_t.c, eventIOLoop_t.c), from eventIO_start to the   *)
(* release of its last reference: its loop threads, the dispatching        *)
(* thread, and the threads that hand it events and stop it.                *)
(*                                                                         *)
(* With uiCocurrentThreads = 0 the dispatching thread runs the only loop   *)
(* itself; otherwise each loop has a thread, all of them poll the eventfd  *)
(* of the shared queue besides their own, and the dispatching thread has a *)
(* queue of its own with a condition variable.  Timers are in Timer.       *)
(***************************************************************************)
EXTENDS Integers, Sequences, FiniteSets

CONSTANTS MaxLoops,   \* bound of uiCocurrentThreads
          Threads,    \* threads other than the eventIO's own
          Main,       \* the thread that starts and dispatches
          Events,     \* eventAsync nodes; each is handed over once
          Stop        \* the eventAsync of eventIOLoop_stop and eventIO_loopStop

Loops == 1..MaxLoops

Callers == Threads \cup Loops \cup {Main}

ASSUME LoopsAreBounded == MaxLoops \in Nat \ {0}

ASSUME CallersAreDistinct ==
  Main \notin Threads \cup Loops /\ Threads \cap Loops = {}

ASSUME StopIsNoEvent == Stop \notin Events

ASSUME StopIsNoTarget == Stop \notin Loops \cup {Main}

VARIABLES
  uiCocurrentThreads,
  bLoopRunning,        \* eventIO_s.bLoopRunning: started and not stopped
  bRunning,            \* eventIO_s.bRunning: the dispatching thread's own
  uiCocurrentRunning,  \* loops that have not called eventIO_loopStop
  iRefCount,           \* eventIO_s.iRefCount; 0 = freed
  queuedEvent,         \* the queue all loops share ...
  queuedFd,            \* ... and whether its eventfd is readable
  mainPending,         \* eventIO_s.queuePending
  mainBatch,           \* eventIO_dispatch's local queue
  main,                \* where the dispatching thread is
  loopRunning,         \* eventIOLoop_s.bRunning
  queuePending,        \* eventIOLoop_s.queuePending
  bNotified,           \* wakeupEvent_s.bNotified
  wakeFd,              \* the loop's own eventfd is readable
  loop,                \* where each loop's thread is
  ready,               \* the eventfds poller_wait returned and poller_dispatch has left
  batch,               \* doEvents' local queue
  call,                \* the call each thread is in: where, for which loop, with what
  fate                 \* history: what became of each event

mainVars == <<bRunning, mainPending, mainBatch, main>>
poolVars == <<queuedEvent, queuedFd>>
wakeVars == <<bNotified, wakeFd>>
loopVars == <<loopRunning, loop, ready, batch>>
countVars == <<uiCocurrentRunning, iRefCount>>
vars == <<uiCocurrentThreads, bLoopRunning, mainVars, poolVars, countVars, queuePending,
          wakeVars, loopVars, call, fate>>

\* The loops that are run.
Running == 1..(IF uiCocurrentThreads = 0 THEN 1 ELSE uiCocurrentThreads)

NoCall == [at |-> "none"]

Init ==
  /\ uiCocurrentThreads \in 0..MaxLoops
  /\ bLoopRunning = FALSE
  /\ bRunning = FALSE
  /\ uiCocurrentRunning = uiCocurrentThreads
  /\ iRefCount = 1
  /\ queuedEvent = <<>> /\ queuedFd = FALSE
  /\ mainPending = <<>> /\ mainBatch = <<>>
  /\ main = "start"
  /\ loopRunning = [l \in Loops |-> FALSE]
  /\ queuePending = [l \in Loops |-> <<>>]
  /\ bNotified = [l \in Loops |-> FALSE]
  /\ wakeFd = [l \in Loops |-> FALSE]
  /\ loop = [l \in Loops |-> "off"]
  /\ ready = [l \in Loops |-> {}]
  /\ batch = [l \in Loops |-> <<>>]
  /\ call = [c \in Callers |-> NoCall]
  /\ fate = [e \in Events |-> "new"]

Become(e, f) == fate' = [fate EXCEPT ![e] = f]

\* What handling an event is, at the moment its turn comes.
Outcome == IF bLoopRunning THEN "worked" ELSE "cancelled"

-----------------------------------------------------------------------------
(* Calls on the eventIO, from any thread; a loop's thread or the dispatching
   one makes them inside a callback. *)

MayCall(c) ==
  /\ call[c] = NoCall
  /\ c \in Threads => main \notin {"start", "gone"}
  /\ c \in Loops => loop[c] = "work"
  /\ c = Main => main \in {"idle", "work"}

Enter(c, now) == call' = [call EXCEPT ![c] = now]

\* eventIO_postQueued
PostCheck(c, e) ==
  /\ MayCall(c)
  /\ fate[e] = "new"
  /\ Enter(c, IF bLoopRunning THEN [at |-> "post", item |-> e] ELSE NoCall)
  /\ Become(e, IF bLoopRunning THEN "given" ELSE "cancelled")
  /\ UNCHANGED <<uiCocurrentThreads, bLoopRunning, mainVars, poolVars, countVars,
                 queuePending, wakeVars, loopVars>>

PostInsert(c) ==
  /\ call[c].at = "post"
  /\ queuedEvent' = Append(queuedEvent, call[c].item)
  /\ Become(call[c].item, IF main \in {"release", "done"} THEN "late" ELSE "pooled")
  /\ Enter(c, [at |-> "postWrite"])
  /\ UNCHANGED <<uiCocurrentThreads, bLoopRunning, mainVars, queuedFd, countVars,
                 queuePending, wakeVars, loopVars>>

PostWrite(c) ==
  /\ call[c].at = "postWrite"
  /\ queuedFd' = TRUE
  /\ Enter(c, NoCall)
  /\ UNCHANGED <<uiCocurrentThreads, bLoopRunning, mainVars, queuedEvent, countVars,
                 queuePending, wakeVars, loopVars, fate>>

\* Faulty variant: QUEUE_INSERT_HEAD.
PutAtHead(l, e) ==
  \/ queuePending' = [queuePending EXCEPT ![l] = <<e>> \o @]
  \/ loop[l] = "clear" /\ UNCHANGED queuePending

\* eventIOLoop_clear empties the queue without the lock: what is inserted
\* meanwhile may be lost.
Put(l, e) ==
  \/ queuePending' = [queuePending EXCEPT ![l] = Append(@, e)]
  \/ loop[l] = "clear" /\ UNCHANGED queuePending

Closed(l) == loop[l] \in {"clear", "fnStop", "release", "gone"}

\* eventIOLoop_queueInLoop
QueueInLoop(c, e, l) ==
  /\ MayCall(c)
  /\ fate[e] = "new"
  /\ l \in Running
  /\ Put(l, e)
  /\ Become(e, IF Closed(l) THEN "late" ELSE "queued")
  /\ Enter(c, [at |-> "notify", loop |-> l, stops |-> FALSE])
  /\ UNCHANGED <<uiCocurrentThreads, bLoopRunning, mainVars, poolVars, countVars, wakeVars,
                 loopVars>>

Advance(c, at) == Enter(c, [call[c] EXCEPT !.at = at])

\* Faulty variant: eventIO_stop stops the first loop only.
CallEndsFirst(c) == Enter(c, NoCall)

\* The call for a loop ends; eventIO_stop goes on to the next loop.
CallEnds(c) ==
  Enter(c, IF call[c].stops /\ call[c].loop + 1 \in Running
           THEN [at |-> "stop", loop |-> call[c].loop + 1, stops |-> TRUE]
           ELSE NoCall)

\* wakeupEvent_notify
NotifyLoad(c) ==
  /\ call[c].at = "notify"
  /\ IF bNotified[call[c].loop] THEN CallEnds(c) ELSE Advance(c, "store")
  /\ UNCHANGED <<uiCocurrentThreads, bLoopRunning, mainVars, poolVars, countVars,
                 queuePending, wakeVars, loopVars, fate>>

NotifyStore(c) ==
  /\ call[c].at = "store"
  /\ bNotified' = [bNotified EXCEPT ![call[c].loop] = TRUE]
  /\ Advance(c, "write")
  /\ UNCHANGED <<uiCocurrentThreads, bLoopRunning, mainVars, poolVars, countVars,
                 queuePending, wakeFd, loopVars, fate>>

\* A write to the eventfd of a loop that has closed it wakes nobody.
NotifyWrite(c) ==
  /\ call[c].at = "write"
  /\ wakeFd' = [wakeFd EXCEPT ![call[c].loop] =
                  loop[call[c].loop] \notin {"fnStop", "release", "gone"}]
  /\ CallEnds(c)
  /\ UNCHANGED <<uiCocurrentThreads, bLoopRunning, mainVars, poolVars, countVars,
                 queuePending, bNotified, loopVars, fate>>

\* eventIO_queueInLoop, where the dispatching thread has a queue of its own.
QueueInMain(c, e) ==
  /\ MayCall(c)
  /\ fate[e] = "new"
  /\ uiCocurrentThreads # 0
  /\ mainPending' = Append(mainPending, e)
  /\ Become(e, IF main \in {"last", "release", "done"} THEN "late" ELSE "queued")
  /\ UNCHANGED <<uiCocurrentThreads, bLoopRunning, bRunning, mainBatch, main, poolVars,
                 countVars, queuePending, wakeVars, loopVars, call>>

\* eventIOLoop_runInLoop and eventIO_runInLoop on the thread itself.
RunHere(c, e) ==
  /\ c \in Loops \cup {Main}
  /\ MayCall(c)
  /\ fate[e] = "new"
  /\ Become(e, Outcome)
  /\ UNCHANGED <<uiCocurrentThreads, bLoopRunning, mainVars, poolVars, countVars,
                 queuePending, wakeVars, loopVars, call>>

\* eventIO_stop: the compare and swap, then each loop in turn.
CallStop(c) ==
  /\ MayCall(c)
  /\ bLoopRunning
  /\ bLoopRunning' = FALSE
  /\ Enter(c, [at |-> "stop", loop |-> 1, stops |-> TRUE])
  /\ UNCHANGED <<uiCocurrentThreads, mainVars, poolVars, countVars, queuePending, wakeVars,
                 loopVars, fate>>

StopInsert(c) ==
  /\ call[c].at = "stop"
  /\ queuePending' = [queuePending EXCEPT ![call[c].loop] = Append(@, Stop)]
  /\ Advance(c, "notify")
  /\ UNCHANGED <<uiCocurrentThreads, bLoopRunning, mainVars, poolVars, countVars, wakeVars,
                 loopVars, fate>>

CallNext(c) ==
  \/ PostInsert(c) \/ PostWrite(c) \/ NotifyLoad(c) \/ NotifyStore(c) \/ NotifyWrite(c)
  \/ StopInsert(c)

Begin(c) ==
  \/ CallStop(c)
  \/ \E e \in Events : PostCheck(c, e) \/ QueueInMain(c, e) \/ RunHere(c, e)
  \/ \E e \in Events, l \in Loops : QueueInLoop(c, e, l)

-----------------------------------------------------------------------------
(* A loop: eventIOLoop_threadRun, or eventIOLoop_main on the dispatching
   thread. *)

Goto(l, at) == loop' = [loop EXCEPT ![l] = at]

Readable(l) == (IF wakeFd[l] THEN {"wake"} ELSE {}) \cup (IF queuedFd THEN {"pool"} ELSE {})

\* poller_wait blocks until an eventfd is readable.
Poll(l) ==
  /\ loop[l] = "poll"
  /\ Readable(l) # {}
  /\ ready' = [ready EXCEPT ![l] = Readable(l)]
  /\ Goto(l, "run")
  /\ UNCHANGED <<uiCocurrentThreads, bLoopRunning, mainVars, poolVars, countVars,
                 queuePending, wakeVars, loopRunning, batch, call, fate>>

\* poller_dispatch is between two handlers.
Dispatching(l) == loop[l] = "run" /\ batch[l] = <<>>

\* wakeupEvent_handleEvent: the read ...
WakeRead(l) ==
  /\ Dispatching(l)
  /\ "wake" \in ready[l]
  /\ ready' = [ready EXCEPT ![l] = @ \ {"wake"}]
  /\ wakeFd' = [wakeFd EXCEPT ![l] = FALSE]
  /\ Goto(l, "woken")
  /\ UNCHANGED <<uiCocurrentThreads, bLoopRunning, mainVars, poolVars, countVars,
                 queuePending, bNotified, loopRunning, batch, call, fate>>

\* Faulty variant: bNotified is not reset.
WakeStoreMissing(l) ==
  /\ loop[l] = "woken"
  /\ Goto(l, "take")
  /\ UNCHANGED <<uiCocurrentThreads, bLoopRunning, mainVars, poolVars, countVars,
                 queuePending, wakeVars, loopRunning, ready, batch, call, fate>>

\* ... the store ...
WakeStore(l) ==
  /\ loop[l] = "woken"
  /\ bNotified' = [bNotified EXCEPT ![l] = FALSE]
  /\ Goto(l, "take")
  /\ UNCHANGED <<uiCocurrentThreads, bLoopRunning, mainVars, poolVars, countVars,
                 queuePending, wakeFd, loopRunning, ready, batch, call, fate>>

\* ... and eventIOLoop_doEvents.
Take(l) ==
  /\ loop[l] = "take"
  /\ batch' = [batch EXCEPT ![l] = queuePending[l]]
  /\ queuePending' = [queuePending EXCEPT ![l] = <<>>]
  /\ Goto(l, "run")
  /\ UNCHANGED <<uiCocurrentThreads, bLoopRunning, mainVars, poolVars, countVars, wakeVars,
                 loopRunning, ready, call, fate>>

\* eventIOLoop_queuedEvent: another loop may have read the eventfd first.
PoolRead(l) ==
  /\ Dispatching(l)
  /\ "pool" \in ready[l]
  /\ ready' = [ready EXCEPT ![l] = @ \ {"pool"}]
  /\ queuedFd' = FALSE
  /\ Goto(l, IF queuedFd THEN "takePool" ELSE "run")
  /\ UNCHANGED <<uiCocurrentThreads, bLoopRunning, mainVars, queuedEvent, countVars,
                 queuePending, wakeVars, loopRunning, batch, call, fate>>

\* eventIO_doEvents
TakePool(l) ==
  /\ loop[l] = "takePool"
  /\ batch' = [batch EXCEPT ![l] = queuedEvent]
  /\ queuedEvent' = <<>>
  /\ Goto(l, "run")
  /\ UNCHANGED <<uiCocurrentThreads, bLoopRunning, mainVars, queuedFd, countVars,
                 queuePending, wakeVars, loopRunning, ready, call, fate>>

\* The next event of the batch.  Stop does the same worked or cancelled.
Run(l) ==
  /\ loop[l] = "run"
  /\ batch[l] # <<>>
  /\ batch' = [batch EXCEPT ![l] = Tail(@)]
  /\ IF Head(batch[l]) = Stop
     THEN /\ loopRunning' = [loopRunning EXCEPT ![l] = FALSE]
          /\ UNCHANGED <<loop, fate>>
     ELSE /\ Become(Head(batch[l]), Outcome)
          /\ Goto(l, IF bLoopRunning THEN "work" ELSE "run")
          /\ UNCHANGED loopRunning
  /\ UNCHANGED <<uiCocurrentThreads, bLoopRunning, mainVars, poolVars, countVars,
                 queuePending, wakeVars, ready, call>>

WorkEnds(l) ==
  /\ loop[l] = "work"
  /\ call[l] = NoCall
  /\ Goto(l, "run")
  /\ UNCHANGED <<uiCocurrentThreads, bLoopRunning, mainVars, poolVars, countVars,
                 queuePending, wakeVars, loopRunning, ready, batch, call, fate>>

\* while (pEventIOLoop->bRunning)
PollAgain(l) ==
  /\ Dispatching(l)
  /\ ready[l] = {}
  /\ Goto(l, IF loopRunning[l] THEN "poll" ELSE "clear")
  /\ UNCHANGED <<uiCocurrentThreads, bLoopRunning, mainVars, poolVars, countVars,
                 queuePending, wakeVars, loopRunning, ready, batch, call, fate>>

\* eventIOLoop_clear: cancel what is left ...
ClearCancel(l) ==
  /\ loop[l] = "clear"
  /\ queuePending[l] # <<>>
  /\ queuePending' = [queuePending EXCEPT ![l] = Tail(@)]
  /\ Become(Head(queuePending[l]), "cancelled")
  /\ UNCHANGED <<uiCocurrentThreads, bLoopRunning, mainVars, poolVars, countVars, wakeVars,
                 loopVars, call>>

\* ... wakeupEvent_clear ...
Close(l) ==
  /\ loop[l] = "clear"
  /\ queuePending[l] = <<>>
  /\ bNotified' = [bNotified EXCEPT ![l] = TRUE]
  /\ wakeFd' = [wakeFd EXCEPT ![l] = FALSE]
  /\ Goto(l, IF uiCocurrentThreads = 0 THEN "release" ELSE "fnStop")
  /\ UNCHANGED <<uiCocurrentThreads, bLoopRunning, mainVars, poolVars, countVars,
                 queuePending, loopRunning, ready, batch, call, fate>>

\* ... fnStop, which is eventIO_loopStop ...
LoopStop(l) ==
  /\ loop[l] = "fnStop"
  /\ uiCocurrentRunning' = uiCocurrentRunning - 1
  /\ IF uiCocurrentRunning = 1
     THEN /\ iRefCount' = iRefCount + 1
          /\ mainPending' = Append(mainPending, Stop)
     ELSE UNCHANGED <<iRefCount, mainPending>>
  /\ Goto(l, "release")
  /\ UNCHANGED <<uiCocurrentThreads, bLoopRunning, bRunning, mainBatch, main, poolVars,
                 queuePending, wakeVars, loopRunning, ready, batch, call, fate>>

\* ... and eventIO_release.
LoopRelease(l) ==
  /\ loop[l] = "release"
  /\ iRefCount' = iRefCount - 1
  /\ Goto(l, "gone")
  /\ UNCHANGED <<uiCocurrentThreads, bLoopRunning, mainVars, poolVars, uiCocurrentRunning,
                 queuePending, wakeVars, loopRunning, ready, batch, call, fate>>

LoopNext(l) ==
  \/ Poll(l) \/ WakeRead(l) \/ WakeStore(l) \/ Take(l) \/ PoolRead(l) \/ TakePool(l)
  \/ Run(l) \/ WorkEnds(l) \/ PollAgain(l)
  \/ ClearCancel(l) \/ Close(l) \/ LoopStop(l) \/ LoopRelease(l)

-----------------------------------------------------------------------------
(* The dispatching thread: eventIO_start, eventIO_dispatch, and the owner's
   eventIO_release. *)

MainGoto(at) == main' = at

\* Faulty variant: eventIOLoop_init takes no reference.
StartLoopNoRef(l) ==
  /\ main = "start"
  /\ l \in Running
  /\ \A k \in Running : loopRunning[k] <=> k < l
  /\ loopRunning' = [loopRunning EXCEPT ![l] = TRUE]
  /\ IF uiCocurrentThreads = 0 THEN UNCHANGED loop ELSE Goto(l, "poll")
  /\ UNCHANGED <<uiCocurrentThreads, bLoopRunning, mainVars, poolVars, countVars,
                 queuePending, wakeVars, ready, batch, call, fate>>

\* The next loop: eventIOLoop_init, eventIOLoop_start and its thread, if it has one.
StartLoop(l) ==
  /\ main = "start"
  /\ l \in Running
  /\ \A k \in Running : loopRunning[k] <=> k < l
  /\ loopRunning' = [loopRunning EXCEPT ![l] = TRUE]
  /\ iRefCount' = iRefCount + 1
  /\ IF uiCocurrentThreads = 0 THEN UNCHANGED loop ELSE Goto(l, "poll")
  /\ UNCHANGED <<uiCocurrentThreads, bLoopRunning, mainVars, poolVars, uiCocurrentRunning,
                 queuePending, wakeVars, ready, batch, call, fate>>

StartEnds ==
  /\ main = "start"
  /\ \A l \in Running : loopRunning[l]
  /\ iRefCount' = iRefCount + 1
  /\ bLoopRunning' = TRUE
  /\ MainGoto("idle")
  /\ UNCHANGED <<uiCocurrentThreads, bRunning, mainPending, mainBatch, poolVars,
                 uiCocurrentRunning, queuePending, wakeVars, loopVars, call, fate>>

Dispatch ==
  /\ main = "idle"
  /\ call[Main] = NoCall
  /\ bRunning' = TRUE
  /\ IF uiCocurrentThreads = 0
     THEN MainGoto("loop") /\ Goto(1, "poll")
     ELSE MainGoto("run") /\ UNCHANGED loop
  /\ UNCHANGED <<uiCocurrentThreads, bLoopRunning, mainPending, mainBatch, poolVars, countVars,
                 queuePending, wakeVars, loopRunning, ready, batch, call, fate>>

\* cond_wait, under the mutex that guards the queue.
MainTake ==
  /\ main = "run"
  /\ mainBatch = <<>>
  /\ bRunning
  /\ mainPending # <<>>
  /\ mainBatch' = mainPending
  /\ mainPending' = <<>>
  /\ UNCHANGED <<uiCocurrentThreads, bLoopRunning, bRunning, main, poolVars, countVars,
                 queuePending, wakeVars, loopVars, call, fate>>

MainRun ==
  /\ main = "run"
  /\ mainBatch # <<>>
  /\ mainBatch' = Tail(mainBatch)
  /\ IF Head(mainBatch) = Stop
     THEN /\ bRunning' = FALSE
          /\ iRefCount' = iRefCount - 1
          /\ UNCHANGED <<main, fate>>
     ELSE /\ Become(Head(mainBatch), Outcome)
          /\ MainGoto(IF bLoopRunning THEN "work" ELSE "run")
          /\ UNCHANGED <<bRunning, iRefCount>>
  /\ UNCHANGED <<uiCocurrentThreads, bLoopRunning, mainPending, poolVars, uiCocurrentRunning,
                 queuePending, wakeVars, loopVars, call>>

MainWorkEnds ==
  /\ main = "work"
  /\ call[Main] = NoCall
  /\ MainGoto("run")
  /\ UNCHANGED <<uiCocurrentThreads, bLoopRunning, bRunning, mainPending, mainBatch, poolVars,
                 countVars, queuePending, wakeVars, loopVars, call, fate>>

CancelAll(queue) ==
  fate' = [e \in Events |-> IF \E i \in 1..Len(queue) : queue[i] = e
                            THEN "cancelled" ELSE fate[e]]

\* After the while loop: what is left in the thread's own queue ...
MainDrain ==
  /\ main = "run"
  /\ mainBatch = <<>>
  /\ ~bRunning
  /\ CancelAll(mainPending)
  /\ mainPending' = <<>>
  /\ MainGoto("last")
  /\ UNCHANGED <<uiCocurrentThreads, bLoopRunning, bRunning, mainBatch, poolVars, countVars,
                 queuePending, wakeVars, loopVars, call>>

LoopReturns ==
  /\ main = "loop"
  /\ loop[1] = "gone"
  /\ bRunning' = FALSE
  /\ MainGoto("last")
  /\ UNCHANGED <<uiCocurrentThreads, bLoopRunning, mainPending, mainBatch, poolVars, countVars,
                 queuePending, wakeVars, loopVars, call, fate>>

\* Faulty variant: the shared queue is left as it is.
PoolDrainMissing ==
  /\ main = "last"
  /\ MainGoto("release")
  /\ UNCHANGED <<uiCocurrentThreads, bLoopRunning, bRunning, mainPending, mainBatch, poolVars,
                 countVars, queuePending, wakeVars, loopVars, call, fate>>

\* ... and in the shared one ...
PoolDrain ==
  /\ main = "last"
  /\ CancelAll(queuedEvent)
  /\ queuedEvent' = <<>>
  /\ MainGoto("release")
  /\ UNCHANGED <<uiCocurrentThreads, bLoopRunning, bRunning, mainPending, mainBatch, queuedFd,
                 countVars, queuePending, wakeVars, loopVars, call>>

\* ... and the reference eventIO_start took.
DispatchReturns ==
  /\ main = "release"
  /\ iRefCount' = iRefCount - 1
  /\ MainGoto("done")
  /\ UNCHANGED <<uiCocurrentThreads, bLoopRunning, bRunning, mainPending, mainBatch, poolVars,
                 uiCocurrentRunning, queuePending, wakeVars, loopVars, call, fate>>

\* The reference of createEventIO, when no other thread uses the eventIO any more.
OwnerReleases ==
  /\ main = "done"
  /\ \A t \in Threads : call[t] = NoCall
  /\ iRefCount' = iRefCount - 1
  /\ MainGoto("gone")
  /\ UNCHANGED <<uiCocurrentThreads, bLoopRunning, bRunning, mainPending, mainBatch, poolVars,
                 uiCocurrentRunning, queuePending, wakeVars, loopVars, call, fate>>

MainNext ==
  \/ StartEnds \/ Dispatch \/ MainTake \/ MainRun \/ MainWorkEnds
  \/ MainDrain \/ LoopReturns \/ PoolDrain \/ DispatchReturns \/ OwnerReleases
  \/ \E l \in Loops : StartLoop(l)

Next == \/ \E c \in Callers : Begin(c) \/ CallNext(c)
        \/ \E l \in Loops : LoopNext(l)
        \/ MainNext

Spec == Init /\ [][Next]_vars

(***************************************************************************)
(* A thread that can go on does: loop threads and the dispatching thread   *)
(* never wait for anything but their eventfds and the condition variable,  *)
(* a callback returns, and a call that has begun is finished.              *)
(***************************************************************************)
Fairness ==
  /\ \A c \in Callers : WF_vars(CallNext(c))
  /\ \A l \in Loops : WF_vars(LoopNext(l))
  /\ WF_vars(MainNext)

FairSpec == Spec /\ Fairness

-----------------------------------------------------------------------------
LoopCalls == [at : {"stop", "notify", "store", "write"}, loop : Loops, stops : BOOLEAN]

Calls == [at : {"none", "postWrite"}] \cup [at : {"post"}, item : Events] \cup LoopCalls

LoopStates == {"off", "poll", "woken", "take", "takePool", "run", "work",
               "clear", "fnStop", "release", "gone"}

MainStates == {"start", "idle", "run", "work", "loop", "last", "release", "done", "gone"}

Fates == {"new", "given", "queued", "pooled", "late", "worked", "cancelled"}

TypeOK ==
  /\ uiCocurrentThreads \in 0..MaxLoops
  /\ bLoopRunning \in BOOLEAN /\ bRunning \in BOOLEAN
  /\ uiCocurrentRunning \in Int /\ iRefCount \in Int
  /\ queuedEvent \in Seq(Events) /\ queuedFd \in BOOLEAN
  /\ mainPending \in Seq(Events \cup {Stop}) /\ mainBatch \in Seq(Events \cup {Stop})
  /\ main \in MainStates
  /\ loopRunning \in [Loops -> BOOLEAN]
  /\ queuePending \in [Loops -> Seq(Events \cup {Stop})]
  /\ bNotified \in [Loops -> BOOLEAN] /\ wakeFd \in [Loops -> BOOLEAN]
  /\ loop \in [Loops -> LoopStates]
  /\ ready \in [Loops -> SUBSET {"wake", "pool"}]
  /\ batch \in [Loops -> Seq(Events \cup {Stop})]
  /\ call \in [Callers -> Calls]
  /\ fate \in [Events -> Fates]

\* c has inserted something for l and not yet looked whether to wake it, or decided to.
WillWake(c, l) == call[c].at \in {"notify", "store", "write"} /\ call[c].loop = l

(***************************************************************************)
(* No lost wakeup, for the loop's own queue, whose eventfd is written only *)
(* by the thread that finds bNotified unset, and for the shared one, which *)
(* any loop may be the one to read: a loop does not sleep on an event      *)
(* unless somebody is about to wake it.                                    *)
(***************************************************************************)
NoLostWakeup ==
  /\ \A l \in Loops : loop[l] = "poll" /\ queuePending[l] # <<>> =>
       wakeFd[l] \/ \E c \in Callers : WillWake(c, l)
  /\ queuedEvent # <<>> => \/ queuedFd
                           \/ \E c \in Callers : call[c].at = "postWrite"
                           \/ \E l \in Loops : loop[l] = "takePool"

(***************************************************************************)
(* The eventIO, and with it the array of the loops, lives as long as any   *)
(* thread of its own is inside.                                            *)
(***************************************************************************)
NoUseAfterFree ==
  main # "gone" \/ (\E l \in Loops : loop[l] \notin {"off", "gone"}) => iRefCount > 0

-----------------------------------------------------------------------------
(* The refinement. *)

\* Those of the first elements that are in S, up to all of them.
Choosing(queue, S) ==
  LET upTo[i \in 0..Len(queue)] == IF i = 0 THEN <<>>
                                   ELSE IF queue[i] \in S THEN Append(upTo[i - 1], queue[i])
                                   ELSE upTo[i - 1]
  IN  upTo

Chosen(queue, S) == Choosing(queue, S)[Len(queue)]

Promised(queue) == Chosen(queue, {e \in Events : fate[e] = "queued"})

Pending(t) ==
  IF t = Main THEN Promised(mainBatch \o mainPending)
  ELSE Promised(batch[t] \o queuePending[t])

InPool == {e \in Events : fate[e] = "pooled"}

E == INSTANCE Executor WITH
       Targets <- Loops \cup {Main},
       Pool <- Stop,
       phase <- IF main = "start" THEN "new" ELSE IF bLoopRunning THEN "running" ELSE "stopped",
       pending <- [t \in Loops \cup {Main} |-> Pending(t)],
       pool <- InPool,
       closed <- {l \in Loops : Closed(l)}
                 \cup (IF main \in {"last", "release", "done", "gone"} THEN {Main} ELSE {})
                 \cup (IF main \in {"release", "done", "gone"} THEN {Stop} ELSE {})

(***************************************************************************)
(* With any number of loops, the eventIO keeps the promise of Executor:    *)
(* events are handled once, in order where an order is promised, worked    *)
(* before the stop and cancelled after it.                                 *)
(***************************************************************************)
ImplementsExecutor == E!Spec

(***************************************************************************)
(* What was handed over in time is handled, whether or not somebody stops  *)
(* the eventIO meanwhile.                                                  *)
(***************************************************************************)
EventuallyHandled ==
  \A e \in Events : fate[e] \in {"given", "queued", "pooled"} ~> fate[e] \in {"worked", "cancelled", "late"}

(***************************************************************************)
(* After eventIO_stop, whoever calls it and when, every loop leaves, the   *)
(* dispatch returns and the eventIO is freed.                              *)
(***************************************************************************)
EventuallyFreed == (main # "start" /\ ~bLoopRunning) ~> (main = "gone" /\ iRefCount = 0)
=============================================================================
