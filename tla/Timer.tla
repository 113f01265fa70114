------------------------------- MODULE Timer --------------------------------
(***************************************************************************)
(* The timers of one service, from createTimerWatcher to the release of    *)
(* the last reference: eventTimer_t.c, timerWatcher_t.c and the Lua handle *)
(* of ltimerWatcher_t.c, between the service's thread, which starts and    *)
(* stops them, and the thread that runs eventIO_dispatch, which keeps the  *)
(* heap and fires them.  With uiCocurrentThreads = 0 they are one thread.  *)
(*                                                                         *)
(* Times are left out: a timer in the heap may be due at any moment.       *)
(***************************************************************************)
EXTENDS Integers, Sequences, FiniteSets

CONSTANTS Timers,   \* timerWatchers the service creates, each with its eventTimer
          None,     \* no timer
          MaxMail   \* bound: events of one periodic timer in the service's mailbox

ASSUME NoneIsNoTimer == None \notin Timers

ASSUME MailIsBounded == MaxMail \in Nat \ {0}

VARIABLES
  single,        \* uiCocurrentThreads = 0
  bLoopRunning,  \* eventIO_s.bLoopRunning
  returned,      \* eventIO_dispatch has returned
  running,       \* service_s.bRunning: service_enqueue accepts
  kind,          \* how the service asked for the timer
  zero,          \* uiIntervalMs = 0
  handle,        \* ltimerWatcher_s.pHandle: none yet, held, dropped
  pEventTimer,   \* timerWatcher_s.pEventTimer # NULL
  watcherRefs,   \* timerWatcher_s.iRefCount; 0 = not created yet, or freed
  timerRefs,     \* eventTimer_s.iRefCount
  bRunning,      \* eventTimer_s.bRunning
  bActive,       \* eventTimer_s.bActive
  heap,          \* eventIO_s.timerHeap
  queue,         \* starts and stops on their way to the dispatching thread
  inline,        \* ... or run at once, on the same thread
  todo,          \* what the dispatching thread has left to do, for which timer
  mailbox,       \* timer events in the service's mailbox
  current,       \* the timer whose event the service is handling
  calling,       \* fnCallback was called for it
  pc, arg,       \* where the service is in ltimerWatcher_stop, for which timer
  closes,        \* history: close callbacks
  delivered      \* history: the timers that fnCallback was called for

loopVars == <<single, bLoopRunning, returned, running>>
watcherVars == <<kind, zero, handle>>
timerVars == <<bRunning, bActive, heap>>
refVars == <<watcherRefs, timerRefs, pEventTimer>>
serviceVars == <<mailbox, current, calling, pc, arg>>
history == <<closes, delivered>>
vars == <<loopVars, watcherVars, timerVars, refVars, queue, inline, todo, serviceVars,
          history>>

NoItem == [op |-> "none"]

Init ==
  /\ single \in BOOLEAN
  /\ bLoopRunning = TRUE /\ returned = FALSE /\ running = TRUE
  /\ kind = [t \in Timers |-> "none"]
  /\ zero = [t \in Timers |-> FALSE]
  /\ handle = [t \in Timers |-> "none"]
  /\ pEventTimer = [t \in Timers |-> FALSE]
  /\ watcherRefs = [t \in Timers |-> 0]
  /\ timerRefs = [t \in Timers |-> 0]
  /\ bRunning = [t \in Timers |-> FALSE]
  /\ bActive = [t \in Timers |-> FALSE]
  /\ heap = {}
  /\ queue = <<>> /\ inline = NoItem
  /\ todo = <<>>
  /\ mailbox = <<>> /\ current = None /\ calling = FALSE
  /\ pc = "idle" /\ arg = None
  /\ closes = [t \in Timers |-> 0]
  /\ delivered = {}

bOnce(t) == kind[t] # "every"

Count(s, x) == Cardinality({i \in DOMAIN s : s[i] = x})

Add(f, t, n) == [f EXCEPT ![t] = @ + n]

\* Faulty variant: any release lets go of the eventTimer, not only the last.
WatcherReleaseEager(t) ==
  /\ watcherRefs' = Add(watcherRefs, t, -1)
  /\ timerRefs' = IF pEventTimer[t] THEN Add(timerRefs, t, -1) ELSE timerRefs
  /\ pEventTimer' = [pEventTimer EXCEPT ![t] = FALSE]

\* timerWatcher_release
WatcherRelease(t) ==
  /\ watcherRefs' = Add(watcherRefs, t, -1)
  /\ IF watcherRefs[t] = 1 /\ pEventTimer[t]
     THEN /\ timerRefs' = Add(timerRefs, t, -1)
          /\ pEventTimer' = [pEventTimer EXCEPT ![t] = FALSE]
     ELSE UNCHANGED <<timerRefs, pEventTimer>>

\* eventIO_runInLoop
RunInLoop(item) ==
  IF single THEN inline' = item /\ UNCHANGED queue
  ELSE queue' = Append(queue, item) /\ UNCHANGED inline

-----------------------------------------------------------------------------
(* The service's thread. *)

ServiceMay == inline = NoItem /\ (single => todo = <<>> /\ ~returned)

\* lservice_context_timeout, _runAfter and _runEvery, to the end of
\* timerWatcher_start: nobody else knows the timer yet.
Start(t, k, z) ==
  /\ ServiceMay
  /\ pc = "idle"
  /\ kind[t] = "none"
  /\ kind' = [kind EXCEPT ![t] = k]
  /\ zero' = [zero EXCEPT ![t] = z]
  /\ handle' = [handle EXCEPT ![t] = IF k = "timeout" THEN "dropped" ELSE "held"]
  /\ watcherRefs' = [watcherRefs EXCEPT ![t] = 2]
  /\ timerRefs' = [timerRefs EXCEPT ![t] = 2]
  /\ pEventTimer' = [pEventTimer EXCEPT ![t] = TRUE]
  /\ bRunning' = [bRunning EXCEPT ![t] = TRUE]
  /\ RunInLoop([op |-> "start", timer |-> t])
  /\ IF k = "timeout" THEN pc' = "release" /\ arg' = t ELSE UNCHANGED <<pc, arg>>
  /\ UNCHANGED <<loopVars, bActive, heap, todo, mailbox, current, calling, history>>

\* ltimerWatcher_stop or ltimerWatcher_gc: eventTimer_stop's compare and swap ...
StopCas(t) ==
  /\ ServiceMay
  /\ pc = "idle"
  /\ handle[t] = "held"
  /\ arg' = t
  /\ IF bRunning[t]
     THEN /\ bRunning' = [bRunning EXCEPT ![t] = FALSE]
          /\ timerRefs' = Add(timerRefs, t, 1)
          /\ pc' = "insert"
     ELSE pc' = "drop" /\ UNCHANGED <<bRunning, timerRefs>>
  /\ UNCHANGED <<loopVars, watcherVars, bActive, heap, watcherRefs, pEventTimer, queue, inline,
                 todo, mailbox, current, calling, history>>

\* ... its eventIO_runInLoop ...
StopInsert ==
  /\ ServiceMay
  /\ pc = "insert"
  /\ RunInLoop([op |-> "stop", timer |-> arg])
  /\ pc' = "drop"
  /\ UNCHANGED <<loopVars, watcherVars, timerVars, refVars, todo, mailbox, current, calling,
                 arg, history>>

\* ... timerWatcher_stop's own reference ...
StopDrop ==
  /\ ServiceMay
  /\ pc = "drop"
  /\ timerRefs' = Add(timerRefs, arg, -1)
  /\ pEventTimer' = [pEventTimer EXCEPT ![arg] = FALSE]
  /\ pc' = "release"
  /\ UNCHANGED <<loopVars, watcherVars, timerVars, watcherRefs, queue, inline, todo, mailbox,
                 current, calling, arg, history>>

\* ... and the handle's.
StopRelease ==
  /\ ServiceMay
  /\ pc = "release"
  /\ WatcherRelease(arg)
  /\ handle' = [handle EXCEPT ![arg] = "dropped"]
  /\ pc' = "idle" /\ arg' = None
  /\ UNCHANGED <<loopVars, kind, zero, timerVars, queue, inline, todo, mailbox, current,
                 calling, history>>

\* Faulty variant: the event of a timer that was stopped is passed on.
EventBeginUnchecked ==
  /\ ServiceMay
  /\ pc = "idle" /\ current = None
  /\ mailbox # <<>>
  /\ mailbox' = Tail(mailbox)
  /\ current' = Head(mailbox)
  /\ calling' = TRUE
  /\ delivered' = delivered \cup {current'}
  /\ UNCHANGED <<loopVars, watcherVars, timerVars, refVars, queue, inline, todo, pc, arg,
                 closes>>

\* service_eventCallback for DEF_EVENT_RUN_AFTER and DEF_EVENT_RUN_EVERY.
EventBegin ==
  /\ ServiceMay
  /\ pc = "idle" /\ current = None
  /\ mailbox # <<>>
  /\ mailbox' = Tail(mailbox)
  /\ current' = Head(mailbox)
  /\ calling' = pEventTimer[current']
  /\ delivered' = IF calling' THEN delivered \cup {current'} ELSE delivered
  /\ UNCHANGED <<loopVars, watcherVars, timerVars, refVars, queue, inline, todo, pc, arg,
                 closes>>

EventEnd ==
  /\ ServiceMay
  /\ pc = "idle" /\ current # None
  /\ WatcherRelease(current)
  /\ current' = None /\ calling' = FALSE
  /\ UNCHANGED <<loopVars, watcherVars, timerVars, queue, inline, todo, mailbox, pc, arg,
                 history>>

\* service_stop; what is in the mailbox by then is handled before the stop event.
ServiceStop ==
  /\ ServiceMay
  /\ running
  /\ running' = FALSE
  /\ UNCHANGED <<single, bLoopRunning, returned, watcherVars, timerVars, refVars, queue, inline,
                 todo, serviceVars, history>>

-----------------------------------------------------------------------------
(* The dispatching thread. *)

DispatcherMay ==
  ~returned /\ todo = <<>> /\ (single => pc = "idle" /\ current = None /\ inline = NoItem)

Do(t, steps) == todo' = [i \in DOMAIN steps |-> <<steps[i], t>>]

\* inLoop_eventTimer_start
InLoopStart(t) ==
  CASE zero[t] ->
         /\ bRunning' = [bRunning EXCEPT ![t] = FALSE]
         /\ Do(t, IF bRunning[t] THEN <<"fn", "close", "release">> ELSE <<"close", "release">>)
         /\ UNCHANGED <<bActive, heap>>
    [] ~zero[t] /\ bRunning[t] ->
         /\ bActive' = [bActive EXCEPT ![t] = TRUE]
         /\ heap' = heap \cup {t}
         /\ Do(t, <<>>)
         /\ UNCHANGED bRunning
    [] ~zero[t] /\ ~bRunning[t] ->
         /\ Do(t, <<"close", "release">>)
         /\ UNCHANGED timerVars

\* inLoop_eventTimer_cancel
InLoopCancel(t) == Do(t, <<"release">>) /\ UNCHANGED timerVars

\* Faulty variant: the reference that eventTimer_stop took is never dropped.
InLoopStopKeeping(t) ==
  /\ bActive' = [bActive EXCEPT ![t] = FALSE]
  /\ heap' = IF bActive[t] THEN heap \ {t} ELSE heap
  /\ Do(t, IF bActive[t] THEN <<"close", "release">> ELSE <<>>)
  /\ UNCHANGED bRunning

\* inLoop_eventTimer_stop
InLoopStop(t) ==
  /\ bActive' = [bActive EXCEPT ![t] = FALSE]
  /\ heap' = IF bActive[t] THEN heap \ {t} ELSE heap
  /\ Do(t, IF bActive[t] THEN <<"close", "release", "release">> ELSE <<"release">>)
  /\ UNCHANGED bRunning

Handle(item) ==
  IF item.op = "start"
  THEN IF bLoopRunning THEN InLoopStart(item.timer) ELSE InLoopCancel(item.timer)
  ELSE InLoopStop(item.timer)

Work ==
  /\ DispatcherMay
  /\ queue # <<>>
  /\ Handle(Head(queue))
  /\ queue' = Tail(queue)
  /\ UNCHANGED <<loopVars, watcherVars, refVars, inline, serviceVars, history>>

WorkInline ==
  /\ todo = <<>> /\ inline # NoItem
  /\ Handle(inline)
  /\ inline' = NoItem
  /\ UNCHANGED <<loopVars, watcherVars, refVars, queue, serviceVars, history>>

\* eventIO_runTimers, for a timer that is due: eventTimer_run
Fire(t) ==
  /\ DispatcherMay
  /\ t \in heap
  /\ IF bOnce(t) \/ ~bRunning[t]
     THEN /\ heap' = heap \ {t}
          /\ bActive' = [bActive EXCEPT ![t] = FALSE]
          /\ bRunning' = [bRunning EXCEPT ![t] = FALSE]
          /\ Do(t, IF bRunning[t] THEN <<"fn", "close", "release">> ELSE <<"close", "release">>)
     ELSE /\ Count(mailbox, t) < MaxMail
          /\ Do(t, <<"fn">>)
          /\ UNCHANGED timerVars
  /\ UNCHANGED <<loopVars, watcherVars, refVars, queue, inline, serviceVars, history>>

Doing(step) == todo # <<>> /\ Head(todo)[1] = step /\ todo' = Tail(todo)

at == Head(todo)[2]

\* Faulty variant: the event takes no reference to the watcher.
TriggeredNoRef ==
  /\ Doing("fn")
  /\ IF running
     THEN mailbox' = Append(mailbox, at)
     ELSE UNCHANGED mailbox
  /\ UNCHANGED <<loopVars, watcherVars, timerVars, refVars, queue, inline, current, calling, pc,
                 arg, history>>

\* eventTimer_onTriggered
Triggered ==
  /\ Doing("fn")
  /\ IF running
     THEN /\ mailbox' = Append(mailbox, at)
          /\ watcherRefs' = Add(watcherRefs, at, 1)
     ELSE UNCHANGED <<mailbox, watcherRefs>>
  /\ UNCHANGED <<loopVars, watcherVars, timerVars, timerRefs, pEventTimer, queue, inline,
                 current, calling, pc, arg, history>>

\* timerWatcher_eventTimer_onClose
Closed ==
  /\ Doing("close")
  /\ closes' = Add(closes, at, 1)
  /\ WatcherRelease(at)
  /\ UNCHANGED <<loopVars, watcherVars, timerVars, queue, inline, serviceVars,
                 delivered>>

\* eventTimer_release
Released ==
  /\ Doing("release")
  /\ timerRefs' = Add(timerRefs, at, -1)
  /\ UNCHANGED <<loopVars, watcherVars, timerVars, watcherRefs, pEventTimer, queue, inline,
                 serviceVars, history>>

DoNext == Triggered \/ Closed \/ Released

\* eventIO_stop, from any thread
EventIOStop ==
  /\ bLoopRunning
  /\ bLoopRunning' = FALSE
  /\ UNCHANGED <<single, returned, running, watcherVars, timerVars, refVars, queue, inline, todo,
                 serviceVars, history>>

\* The last drain of eventIO_dispatch has found the queue empty.
Return ==
  /\ DispatcherMay
  /\ ~bLoopRunning
  /\ queue = <<>>
  /\ returned' = TRUE
  /\ UNCHANGED <<single, bLoopRunning, running, watcherVars, timerVars, refVars, queue, inline,
                 todo, serviceVars, history>>

ServiceGoesOn == StopInsert \/ StopDrop \/ StopRelease \/ EventEnd

Next ==
  \/ ServiceGoesOn \/ EventBegin \/ ServiceStop
  \/ \E t \in Timers : \/ \E z \in BOOLEAN, k \in {"timeout", "after", "every"} : Start(t, k, z)
                       \/ StopCas(t) \/ Fire(t)
  \/ Work \/ WorkInline \/ DoNext \/ EventIOStop \/ Return

Spec == Init /\ [][Next]_vars

\* Callbacks return, threads run, and the heap's order gives a due timer its turn.
Fairness ==
  /\ WF_vars(ServiceGoesOn) /\ SF_vars(EventBegin)
  /\ WF_vars(WorkInline \/ DoNext) /\ SF_vars(Work)
  /\ \A t \in Timers : SF_vars(Fire(t))

FairSpec == Spec /\ Fairness

-----------------------------------------------------------------------------
(* Properties. *)

One(b) == IF b THEN 1 ELSE 0

Pending(op, t) ==
  Count(queue, [op |-> op, timer |-> t]) + One(inline = [op |-> op, timer |-> t])

\* The eventTimer, the Lua handle, and every event in the mailbox.
WatcherHolders(t) ==
  One(handle[t] = "held") + One(kind[t] = "timeout" /\ arg = t)
    + One(kind[t] # "none" /\ closes[t] = 0) + Count(mailbox, t) + One(current = t)

\* The watcher, the heap or the start on its way there, every stop on its way,
\* and the releases that the dispatching thread is about to do.
TimerHolders(t) ==
  One(pEventTimer[t]) + One(t \in heap) + Pending("start", t) + Pending("stop", t)
    + One(pc = "insert" /\ arg = t) + Count(todo, <<"release", t>>)

\* Each reference count of timerWatcher_s and of eventTimer_s is the number of
\* pointers to it that will still be used, so that nobody touches a freed timer
\* and none is freed twice, whichever of start, stop, fire and close overtake
\* each other; and a handle that is held has a timer to stop (pEventTimer in
\* timerWatcher_stop and timerWatcher_isRunning).
RefsMatchHolders ==
  \A t \in Timers : /\ watcherRefs[t] = WatcherHolders(t)
                    /\ timerRefs[t] = TimerHolders(t)
                    /\ handle[t] = "held" /\ pc = "idle" => pEventTimer[t]

\* service_eventCallback calls back for no timer that the service has stopped,
\* even if its event was in the mailbox before, and for a timer that fires once
\* (bOnce, or an interval of zero) only once.
NoStrayCallback ==
  [][calling' /\ ~calling =>
       LET t == current' IN /\ handle[t] = "held" \/ kind[t] = "timeout"
                            /\ bOnce(t) \/ zero[t] => t \notin delivered]_vars

\* The watcher of a timeout is not freed before it has called its service back,
\* unless the service was stopped: only the timer, and then its event, keep the
\* watcher alive (lservice_context_timeout releases it at once), and the event
\* is dropped if it finds no timer (timerWatcher_isRunning).  With
\* EventuallyFreed, a timeout arrives.
NoTimeoutLost ==
  \A t \in Timers :
    kind[t] = "timeout" /\ watcherRefs[t] = 0 => t \in delivered \/ ~running

\* While the eventIO runs, a timer whose handle is gone (stopped, collected or
\* a timeout, which never had one) is freed, and its watcher with it.
EventuallyFreed ==
  \A t \in Timers :
    handle[t] = "dropped" ~> (watcherRefs[t] = 0 /\ timerRefs[t] = 0) \/ ~bLoopRunning
=============================================================================
