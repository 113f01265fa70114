----------------------------- MODULE Environment -----------------------------
(***************************************************************************)
(* The process around the services: lenv_t.c (init, wait, stop and exit,   *)
(* as a start-up script calls them), the thread of eventIOThread_t.c that  *)
(* runs eventIO_dispatch, and serviceMonitor_t.c, which watches the loop   *)
(* threads for callbacks that do not end.                                  *)
(*                                                                         *)
(* Of the eventIO (EventIO) only this is kept: its loop threads run        *)
(* callbacks, leave once eventIO_stop was called and they are idle, and    *)
(* eventIO_dispatch returns when all have left.                            *)
(***************************************************************************)
EXTENDS Integers, FiniteSets

CONSTANTS Workers,    \* how many loop threads (uiMonitorSlotCount)
          MaxEvents   \* bound: callbacks of a loop thread

ASSUME EnvironmentAssumption == Workers \in Nat \ {0} /\ MaxEvents \in Nat

VARIABLES
  thStatus, thRefs,   \* eventIOThread_s: iStatus, iRefCount
  thPc, mainPc,       \* where eventIOThreadRun and the start-up script are
  stopCalled,         \* eventIO_stop was called
  bootstrap,          \* the event that lenv_init queues: none, queued, worked, cancelled
  monitor,            \* s_pServiceMonitor # NULL
  watching,           \* serviceMonitor_s.bRunning
  ticking,            \* its timer: none, queued (its start), on, cancelled
  slot,               \* pMonitorSlot: destination (a callback's number), version, checked
  where,              \* where each loop thread is
  nth,                \* the callback it is in, or was in last, by number
  endless,            \* the loop threads whose callback does not end
  check,              \* where serviceMonitor_check is: <<step, slot>>
  dispatched, waited, \* history: eventIO_dispatch was called; a wait, or a stop, joined
  seen, raced,        \* history: the callback a check has seen; those it met being entered or left
  alarms              \* history: the callbacks reported, <<thread, number, whether rightly>>

threadVars == <<thStatus, thRefs, thPc, mainPc, stopCalled, bootstrap, dispatched, waited>>
monitorVars == <<monitor, watching, ticking, slot, check, seen, raced, alarms>>
workerVars == <<where, nth, endless>>
envVars == <<threadVars, monitorVars, workerVars>>

Slots == 1 .. Workers

EnvInit ==
  /\ thStatus = "Stopped" /\ thRefs = 1 /\ thPc = "none" /\ mainPc = "init"
  /\ stopCalled = FALSE /\ bootstrap = "none" /\ monitor = FALSE
  /\ watching = FALSE /\ ticking = "none"
  /\ slot = [w \in Slots |-> [destination |-> 0, version |-> 0, checked |-> 0]]
  /\ where = [w \in Slots |-> "poll"] /\ nth = [w \in Slots |-> 0] /\ endless = {}
  /\ check = <<"idle", 0>>
  /\ dispatched = FALSE /\ waited = FALSE
  /\ seen = [w \in Slots |-> 0] /\ raced = {} /\ alarms = {}

-----------------------------------------------------------------------------
(* eventIOThread_t *)

\* eventIOThread_stop up to the join: whoever finds the thread starting or running
\* stops the eventIO.
Stops == thStatus \in {"Starting", "Running"}

StopThread == /\ thStatus' = IF Stops THEN "Stopping" ELSE thStatus
              /\ stopCalled' = (stopCalled \/ Stops)

\* eventIOThreadRun: a thread that was stopped before it began does not dispatch.
ThreadBegins ==
  /\ thPc = "begin"
  /\ IF thStatus = "Starting"
     THEN thStatus' = "Running" /\ thPc' = "dispatch" /\ dispatched' = TRUE
     ELSE thPc' = "post" /\ UNCHANGED <<thStatus, dispatched>>
  /\ UNCHANGED <<thRefs, mainPc, stopCalled, bootstrap, waited, monitorVars, workerVars>>

\* The dispatching thread meets inLoop_bootstrap_start; without a bootstrap service
\* it stops itself.
RunBootstrap(ok) ==
  /\ thPc = "dispatch" /\ check[1] = "idle" /\ bootstrap = "queued" /\ ~stopCalled
  /\ bootstrap' = IF ok THEN "worked" ELSE "failed"
  /\ IF ok THEN UNCHANGED <<thStatus, stopCalled>> ELSE StopThread
  /\ UNCHANGED <<thRefs, thPc, mainPc, dispatched, waited, monitorVars, workerVars>>

\* eventIO_dispatch returns, and cancels what is queued.
DispatchReturns ==
  /\ thPc = "dispatch" /\ check[1] = "idle"
  /\ stopCalled /\ \A w \in Slots : where[w] = "left"
  /\ thPc' = "post"
  /\ bootstrap' = IF bootstrap = "queued" THEN "cancelled" ELSE bootstrap
  /\ UNCHANGED <<thStatus, thRefs, mainPc, stopCalled, dispatched, waited, monitorVars,
                 workerVars>>

ThreadStopped ==
  /\ thPc = "post"
  /\ thStatus' = "Stopped" /\ thPc' = "release"
  /\ UNCHANGED <<thRefs, mainPc, stopCalled, bootstrap, dispatched, waited, monitorVars,
                 workerVars>>

ThreadReleases ==
  /\ thPc = "release"
  /\ thRefs' = thRefs - 1 /\ thPc' = "over"
  /\ UNCHANGED <<thStatus, mainPc, stopCalled, bootstrap, dispatched, waited, monitorVars,
                 workerVars>>

\* Another thread of the program calls eventIOThread_stop without waiting.
HostStop ==
  /\ Stops
  /\ StopThread
  /\ UNCHANGED <<thRefs, thPc, mainPc, bootstrap, dispatched, waited, monitorVars, workerVars>>

-----------------------------------------------------------------------------
(* The start-up script: lenv.init, then lenv.wait and lenv.stop, then lenv.exit *)

MainGoes(from, to) == mainPc = from /\ mainPc' = to

\* lenv_init down to thread_start.
StartThread ==
  /\ MainGoes("init", "starting")
  /\ thStatus' = "Starting" /\ thRefs' = thRefs + 1 /\ thPc' = "begin"
  /\ UNCHANGED <<stopCalled, bootstrap, dispatched, waited, monitorVars, workerVars>>

\* eventIOThread_start returns: the thread runs and the loops are idle, or it is
\* stopped again.  serviceMonitor_init; the bootstrap event is queued.
StartReturns ==
  /\ MainGoes("starting", "up")
  /\ thStatus # "Starting"
  /\ thStatus = "Running" => \A w \in Slots : where[w] = "poll"
  /\ monitor' = TRUE /\ bootstrap' = "queued"
  /\ UNCHANGED <<thStatus, thRefs, thPc, stopCalled, dispatched, waited, watching, ticking, slot,
                 check, seen, raced, alarms, workerVars>>

\* lenv_wait calls eventIOThread_join.
Wait ==
  /\ MainGoes("up", "joins")
  /\ UNCHANGED <<thStatus, thRefs, thPc, stopCalled, bootstrap, dispatched, waited, monitorVars,
                 workerVars>>

\* lenv_stop: it joins only if it was the one to stop the thread.
LenvStop ==
  /\ MainGoes("up", IF Stops THEN "joins" ELSE "up")
  /\ StopThread
  /\ UNCHANGED <<thRefs, thPc, bootstrap, dispatched, waited, monitorVars, workerVars>>

\* eventIOThread_join looks at the status first.  The script is the only one to get
\* through its mutex, but for services that then wait for ever.
JoinLooks ==
  /\ MainGoes("joins", IF thStatus = "Stopped" THEN "up" ELSE "join")
  /\ waited' = (waited \/ thStatus = "Stopped")
  /\ UNCHANGED <<thStatus, thRefs, thPc, stopCalled, bootstrap, dispatched, monitorVars, workerVars>>

JoinReturns ==
  /\ MainGoes("join", "up")
  /\ thPc = "over" /\ waited' = TRUE
  /\ UNCHANGED <<thStatus, thRefs, thPc, stopCalled, bootstrap, dispatched, monitorVars, workerVars>>

\* lenv_exit: the thread's handle and serviceMonitor_clear.
Exit ==
  /\ MainGoes("up", "done")
  /\ thRefs' = thRefs - 1
  /\ monitor' = FALSE
  /\ UNCHANGED <<thStatus, thPc, stopCalled, bootstrap, dispatched, waited, watching, ticking, slot,
                 check, seen, raced, alarms, workerVars>>

-----------------------------------------------------------------------------
(* The loop threads, and serviceMonitor_enter and serviceMonitor_leave *)

WorkerGoes(w, from, to) == where[w] = from /\ where' = [where EXCEPT ![w] = to]

\* A change of the slot that the check is looking at.  After lenv_exit the slots are
\* gone, and soon the process.
Meets(w, s) == IF check[2] = w THEN raced \union {<<w, s.destination>>} ELSE raced

Written(w, s) == /\ monitor
                 /\ slot' = [slot EXCEPT ![w] = s]
                 /\ raced' = Meets(w, s)
                 /\ UNCHANGED <<monitor, watching, ticking, check, seen, alarms, threadVars>>

\* serviceMonitor_enter stores who is called ...
EnterStores(w, ends) ==
  /\ WorkerGoes(w, "poll", "entering")
  /\ bootstrap = "worked" /\ nth[w] < MaxEvents
  /\ nth' = [nth EXCEPT ![w] = @ + 1]
  /\ endless' = IF ends THEN endless ELSE endless \union {w}
  /\ Written(w, [slot[w] EXCEPT !.destination = nth[w] + 1])

\* ... and then counts.
EnterCounts(w) ==
  /\ WorkerGoes(w, "entering", "in")
  /\ UNCHANGED <<nth, endless>>
  /\ Written(w, [slot[w] EXCEPT !.version = @ + 1])

\* Faulty variant: the destination stays.
LeaveKeeping(w) ==
  /\ WorkerGoes(w, "in", "leaving") /\ w \notin endless
  /\ UNCHANGED <<nth, endless>>
  /\ Written(w, slot[w])

\* serviceMonitor_leave clears it ...
LeaveStores(w) ==
  /\ WorkerGoes(w, "in", "leaving") /\ w \notin endless
  /\ UNCHANGED <<nth, endless>>
  /\ Written(w, [slot[w] EXCEPT !.destination = 0])

\* ... and counts again.
LeaveCounts(w) ==
  /\ WorkerGoes(w, "leaving", "poll")
  /\ UNCHANGED <<nth, endless>>
  /\ Written(w, [slot[w] EXCEPT !.version = @ + 1])

\* A loop leaves after eventIO_stop.
LoopLeaves(w) ==
  /\ WorkerGoes(w, "poll", "left") /\ stopCalled
  /\ UNCHANGED <<nth, endless, threadVars, monitorVars>>

\* lenv.stop called by a service: the loop thread waits for the dispatching thread,
\* which waits for the loop thread.
LenvStopByService(w) ==
  /\ w \notin endless /\ Stops
  /\ WorkerGoes(w, "in", "joining")
  /\ StopThread
  /\ UNCHANGED <<thRefs, thPc, mainPc, bootstrap, dispatched, waited, nth, endless, monitorVars>>

\* serviceMonitor_start and serviceMonitor_stop, called by a service: the start of the
\* timer, or its end, is queued for the dispatching thread.
MonitorStartStop(w) ==
  /\ where[w] = "in" /\ w \notin endless /\ monitor
  /\ watching' = ~watching
  /\ ticking' = IF watching THEN "none" ELSE "queued"
  /\ UNCHANGED <<monitor, slot, check, seen, raced, alarms, threadVars, workerVars>>

-----------------------------------------------------------------------------
(* serviceMonitor_check, on the dispatching thread *)

NextSlot(w) == IF w = Workers THEN <<"idle", 0>> ELSE <<"load", w + 1>>

Checks(step, w) == thPc = "dispatch" /\ monitor /\ check = <<step, w>> /\ UNCHANGED <<monitor, watching, ticking>>

\* The dispatching thread meets the start of the timer; after eventIO_stop it cancels it.
MonitorTimerStarts ==
  /\ thPc = "dispatch" /\ check[1] = "idle" /\ ticking = "queued"
  /\ ticking' = IF stopCalled THEN "cancelled" ELSE "on"
  /\ UNCHANGED <<monitor, watching, slot, check, seen, raced, alarms, threadVars, workerVars>>

CheckBegins ==
  /\ Checks("idle", 0) /\ ticking = "on"
  /\ check' = <<"load", 1>>
  /\ UNCHANGED <<slot, seen, raced, alarms, threadVars, workerVars>>

\* The slot's version is what it was at the last check, or it is noted.
CheckLoads(w) ==
  /\ Checks("load", w)
  /\ IF slot[w].version = slot[w].checked
     THEN /\ check' = IF slot[w].destination # 0 THEN <<"send", w>> ELSE NextSlot(w)
          /\ UNCHANGED <<slot, seen>>
     ELSE /\ slot' = [slot EXCEPT ![w].checked = slot[w].version]
          /\ seen' = [seen EXCEPT ![w] = IF where[w] \in {"in", "joining"} THEN nth[w] ELSE 0]
          /\ check' = NextSlot(w)
  /\ raced' = IF where[w] = "entering" THEN raced \union {<<w, nth[w]>>} ELSE raced
  /\ UNCHANGED <<alarms, threadVars, workerVars>>

\* service_send to the monitoring service (which lives), with the destination read
\* again.
CheckSends(w) ==
  /\ Checks("send", w)
  /\ alarms' = alarms \union {<<w, slot[w].destination, seen[w] = slot[w].destination>>}
  /\ check' = <<"clear", w>>
  /\ UNCHANGED <<slot, seen, raced, threadVars, workerVars>>

CheckClears(w) ==
  /\ Checks("clear", w)
  /\ slot' = [slot EXCEPT ![w].destination = 0]
  /\ check' = NextSlot(w)
  /\ UNCHANGED <<seen, raced, alarms, threadVars, workerVars>>

-----------------------------------------------------------------------------
MainStep == StartReturns \/ JoinLooks \/ JoinReturns
MainCalls == StartThread \/ Wait \/ LenvStop \/ Exit
DispatchStep == \/ ThreadBegins \/ DispatchReturns \/ ThreadStopped \/ ThreadReleases
                \/ MonitorTimerStarts \/ \E ok \in BOOLEAN : RunBootstrap(ok)
CheckStep == CheckBegins \/ \E w \in Slots : CheckLoads(w) \/ CheckSends(w) \/ CheckClears(w)
WorkerStep(w) == EnterCounts(w) \/ LeaveStores(w) \/ LeaveCounts(w) \/ LoopLeaves(w)

EnvNext ==
  \/ MainStep \/ MainCalls \/ DispatchStep \/ CheckStep \/ HostStop
  \/ \E w \in Slots : \/ WorkerStep(w) \/ LenvStopByService(w) \/ MonitorStartStop(w)
                      \/ \E ends \in BOOLEAN : EnterStores(w, ends)

\* The threads run: a callback that ends does so, and the dispatching thread gets to
\* its queue between two rounds of its timers.
EnvFairness ==
  /\ WF_envVars(MainStep) /\ SF_envVars(DispatchStep) /\ WF_envVars(CheckStep)
  /\ \A w \in Slots : WF_envVars(WorkerStep(w))

-----------------------------------------------------------------------------
\* The thread's count is the number of its holders, the script and the thread; and
\* once a wait has joined a thread that dispatched, nothing runs any more that
\* lenv_exit takes the memory away from.
EnvironmentCounted ==
  /\ thRefs = (IF mainPc # "done" THEN 1 ELSE 0)
              + (IF thPc \notin {"none", "over"} THEN 1 ELSE 0)
  /\ waited /\ dispatched => check[1] = "idle" /\ \A w \in Slots : where[w] = "left"

\* A wait returns once the thread was stopped, unless a callback does not end or a
\* service called lenv.stop.
WaitReturns ==
  (mainPc \in {"joins", "join"} /\ stopCalled)
    ~> (mainPc \notin {"joins", "join"} \/ endless # {} \/ \E w \in Slots : where[w] = "joining")

\* The monitor reports only callbacks that an earlier check has seen, but for one
\* whose thread entered it while the check was looking at the slot, or was between
\* the two writes of serviceMonitor_enter (serviceMonitor_check,
\* serviceMonitor_leave).
AlarmsAreRight == \A a \in alarms : a[3] \/ <<a[1], a[2]>> \in raced

\* The monitor reports a callback that does not end, as long as it is watching and
\* under the same exception: the check may clear one that is just being entered, and
\* then it is never reported.  A monitor that was started after eventIO_stop watches
\* nothing, for the start of its timer is cancelled.
EndlessReported ==
  \A w \in Slots :
    (watching /\ w \in endless) ~> (~watching \/ ~monitor \/ ticking = "cancelled"
                                    \/ <<w, nth[w]>> \in raced
                                    \/ <<w, nth[w], TRUE>> \in alarms)
=============================================================================
