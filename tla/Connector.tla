------------------------------ MODULE Connector ------------------------------
(***************************************************************************)
(* One attempt to connect: connector_t.c, lconnector_t.c, lservice.connect *)
(* and the part of posix/eventConnection_t.c that makes the socket.  Four  *)
(* threads meet at the two handles that a connector keeps (the connection  *)
(* and its timeout): the service that asked, the loop of the connection,   *)
(* the thread of the timer, and the service again when the answer comes.   *)
(* Whoever exchanges a handle for 0 has to finish with it.                 *)
(***************************************************************************)
EXTENDS Integers, Sequences

CONSTANT AttemptMayStop  \* whether the eventIO may be stopped meanwhile

ASSUME AttemptMayStopIsFlag == AttemptMayStop \in BOOLEAN

VARIABLES
  tcp, timed,      \* the attempt: over TCP or UDP, with or without a timeout
  hConnection,     \* connector_s.hConnection # 0
  hConnecting,     \* connector_s.hConnectingTimeout # 0
  refs,            \* both iRefCounts, and what was used after it was freed
  iStatus,         \* eventConnection_s.iStatus
  sock,            \* none, waiting (polled for writable), quiet (polled for nothing), unpolled, closed
  tasks,           \* what is queued in the connection's loop
  userData,        \* eventConnection_s.pUserData: none, connector, channel
  askerPc, loopAt, \* where the service and the loop are, until all of eventIO has ended
  timerAt,         \* where the timer is, with the dispatching thread that runs it
  luaHolds,        \* lconnector_s.pHandle # NULL
  up,              \* the service still takes events
  event,           \* the CONNECT event in its queue
  answers,         \* history: the CONNECT events that were enqueued
  withdrawn,       \* history: connector_close took the connection
  races,           \* history: the orders of steps that the counts do not survive
  halted           \* the eventIO was stopped: the loop cancels its queue

sideVars == <<tcp, timed, up, halted>>
handleVars == <<hConnection, hConnecting>>
connectorVars == <<sideVars, handleVars, refs, iStatus, sock, tasks, userData, askerPc, loopAt,
                   timerAt, luaHolds, event, answers, withdrawn, races>>

\* createConnector; the attempt is lservice_context_connect's.
ConnectorInit ==
  /\ tcp \in BOOLEAN /\ timed \in BOOLEAN
  /\ hConnection = FALSE /\ hConnecting = FALSE
  /\ refs = [connector |-> 1, conn |-> 0, freed |-> {}]
  /\ iStatus = "Disconnected" /\ sock = "none" /\ tasks = <<>> /\ userData = "none"
  /\ askerPc = "create" /\ loopAt = "poll" /\ timerAt = "none"
  /\ luaHolds = FALSE /\ up = TRUE /\ event = "none"
  /\ answers = <<>> /\ withdrawn = FALSE /\ races = {} /\ halted = FALSE

-----------------------------------------------------------------------------
Use(r, object) == IF r[object] <= 0 THEN [r EXCEPT !.freed = @ \union {object}] ELSE r

\* connector_release
Drop(r) == [Use(r, "connector") EXCEPT !.connector = @ - 1]

\* eventConnection_release: the last one frees the connector's share too, as
\* fnUserFree (connector_free) has it until a channel is bound.
DropConn(r) ==
  LET s == [Use(r, "conn") EXCEPT !.conn = @ - 1]
  IN  IF r.conn = 1 /\ userData = "connector" THEN Drop(s) ELSE s

\* A connection that is freed leaves its open socket in the poller.
LeftPolled(r) == IF r.conn <= 0 /\ sock \in {"waiting", "quiet"} THEN {"left polled"} ELSE {}

Fine == refs.freed = {}

\* eventConnection_forceClose, then the release of the caller's reference.
ForceCloseAndRelease(r) ==
  LET s == Use(r, "conn") IN
  /\ iStatus' = "Disconnected"
  /\ IF iStatus = "Disconnected"
     THEN refs' = DropConn(s) /\ UNCHANGED tasks
     ELSE /\ refs' = DropConn([s EXCEPT !.conn = @ + 1])
          /\ tasks' = Append(tasks, "forceClose")

\* eventTimer_stop of the exchanged handle: the timer is closed without its callback,
\* although the dispatching thread may not even have met its start.
StopTimeout ==
  /\ hConnecting' = FALSE
  /\ timerAt' = IF ~hConnecting THEN timerAt
                ELSE IF timerAt = "queued" THEN "early"
                ELSE IF timerAt = "armed" THEN "stopped" ELSE timerAt

-----------------------------------------------------------------------------
(* The service that asks.                                                   *)

\* Faulty variant: the timer's reference is not counted.
TimeoutUncounted == 1

\* connector_connect counts fnUserFree's reference and, with a timeout, the timer's.
ConnectReferences == IF timed THEN 2 ELSE 1

\* connector_connect: the address is refused, or the connection is made and the
\* start of the timer queued for the dispatching thread ...
Create(valid) ==
  /\ askerPc = "create" /\ Fine
  /\ IF valid
     THEN /\ refs' = [refs EXCEPT !.connector = @ + ConnectReferences, !.conn = 1]
          /\ hConnection' = TRUE /\ hConnecting' = timed
          /\ timerAt' = IF timed THEN "queued" ELSE "none"
          /\ askerPc' = "connect"
     ELSE /\ refs' = Drop(refs)
          /\ askerPc' = "refused"
          /\ UNCHANGED <<handleVars, timerAt>>
  /\ UNCHANGED <<sideVars, iStatus, sock, tasks, userData, loopAt, luaHolds, event, answers,
                 withdrawn, races>>

\* ... then eventConnection_connect, on a connection that the timer may have
\* taken and freed.
Connect ==
  /\ askerPc = "connect" /\ Fine
  /\ askerPc' = "idle"
  /\ luaHolds' = TRUE
  /\ races' = races \union (IF refs.conn <= 0 THEN {"timed out first"} ELSE {})
  /\ refs' = [Use(refs, "conn") EXCEPT !.conn = @ + 1]
  /\ iStatus' = "Connecting"
  /\ userData' = "connector"
  /\ tasks' = Append(tasks, "connect")
  /\ UNCHANGED <<sideVars, handleVars, sock, loopAt, timerAt, event, answers, withdrawn>>

\* lconnector_close: connector_close exchanges the timer, then the connection ...
LuaClose ==
  /\ askerPc = "idle" /\ luaHolds /\ Fine
  /\ askerPc' = "closing"
  /\ StopTimeout
  /\ UNCHANGED <<sideVars, hConnection, refs, iStatus, sock, tasks, userData, loopAt, luaHolds,
                 event, answers, withdrawn, races>>

\* ... and the reference of the Lua object goes with it.
LuaCloses ==
  /\ askerPc = "closing" /\ Fine
  /\ askerPc' = "idle"
  /\ luaHolds' = FALSE
  /\ hConnection' = FALSE
  /\ withdrawn' = (withdrawn \/ hConnection)
  /\ IF hConnection
     THEN ForceCloseAndRelease(Drop(refs))
     ELSE refs' = Drop(refs) /\ UNCHANGED <<iStatus, tasks>>
  /\ UNCHANGED <<sideVars, hConnecting, sock, userData, loopAt, timerAt, event, answers, races>>

\* lconnector_gc
LuaGc ==
  /\ askerPc = "idle" /\ luaHolds /\ Fine
  /\ luaHolds' = FALSE
  /\ refs' = Drop(refs)
  /\ UNCHANGED <<sideVars, handleVars, iStatus, sock, tasks, userData, askerPc, loopAt, timerAt,
                 event, answers, withdrawn, races>>

\* The service is stopped: it takes no more events.
ServiceStops ==
  /\ up /\ Fine /\ askerPc \in {"idle", "refused"}
  /\ up' = FALSE
  /\ UNCHANGED <<tcp, timed, halted, handleVars, refs, iStatus, sock, tasks, userData, askerPc,
                 loopAt, timerAt, luaHolds, event, answers, withdrawn, races>>

-----------------------------------------------------------------------------
(* The loop of the connection.                                              *)

\* inLoop_eventConnection_connect.  A TCP socket is polled until it is writable,
\* with the reference of the task; everything else calls back and releases it.
RunConnect(made) ==
  /\ loopAt = "poll" /\ ~halted /\ Fine
  /\ tasks # <<>> /\ Head(tasks) = "connect"
  /\ tasks' = Tail(tasks)
  /\ IF made
     THEN /\ sock' = IF tcp THEN "waiting" ELSE "unpolled"
          /\ loopAt' = IF tcp THEN "poll" ELSE "callback"
          /\ UNCHANGED iStatus
     ELSE /\ sock' = "closed"
          /\ iStatus' = "Disconnected"
          /\ loopAt' = "callback"
  /\ UNCHANGED <<sideVars, handleVars, refs, userData, askerPc, timerAt, luaHolds, event, answers,
                 withdrawn, races>>

\* eventConnection_handleEvent reads the status ...  A hang-up or an error is
\* reported for a socket that is polled for nothing, too.
Ready ==
  /\ loopAt = "poll" /\ Fine
  /\ sock \in {"waiting", "quiet"} /\ iStatus = "Connecting"
  /\ loopAt' = "event"
  /\ refs' = Use(refs, "conn")
  /\ races' = races \union (IF sock = "quiet" THEN {"twice"} ELSE {})
  /\ UNCHANGED <<sideVars, handleVars, iStatus, sock, tasks, userData, askerPc, timerAt, luaHolds,
                 event, answers, withdrawn>>

\* ... and, if it is eConnecting, asks the socket whether it is connected.
Outcome(ok) ==
  /\ loopAt = "event" /\ Fine
  /\ loopAt' = "callback"
  /\ IF ok
     THEN sock' = "quiet" /\ UNCHANGED iStatus
     ELSE sock' = "closed" /\ iStatus' = "Disconnected"
  /\ UNCHANGED <<sideVars, handleVars, refs, tasks, userData, askerPc, timerAt, luaHolds, event,
                 answers, withdrawn, races>>

\* connector_onConnector: the timer first ...
OnConnector ==
  /\ loopAt = "callback" /\ Fine
  /\ loopAt' = "take"
  /\ refs' = Use(IF userData = "connector" THEN refs ELSE [refs EXCEPT !.freed = @ \union {"connector"}],
                 "connector")
  /\ StopTimeout
  /\ UNCHANGED <<sideVars, hConnection, iStatus, sock, tasks, userData, askerPc, luaHolds, event,
                 answers, withdrawn, races>>

\* Faulty variant: the connection is read, not exchanged.
TakeByLoad == UNCHANGED hConnection

\* atomic_exchange(&pConnector->hConnection, 0)
TakeConnection == hConnection' = FALSE

\* ... then the connection, which goes to the service, if it got anywhere.
OnConnectorAnswers ==
  /\ loopAt = "take" /\ Fine
  /\ loopAt' = "release"
  /\ TakeConnection
  /\ IF hConnection
     THEN LET what == IF iStatus = "Connecting" THEN "connection" ELSE "nothing" IN
          /\ refs' = IF what = "nothing" \/ ~up THEN DropConn(refs) ELSE refs
          /\ event' = IF up THEN what ELSE event
          /\ answers' = IF up THEN Append(answers, what) ELSE answers
          /\ UNCHANGED races
     ELSE /\ races' = races \union (IF sock \in {"quiet", "unpolled"} THEN {"overlap"} ELSE {})
          /\ UNCHANGED <<refs, event, answers>>
  /\ UNCHANGED <<sideVars, hConnecting, iStatus, sock, tasks, userData, askerPc, timerAt, luaHolds,
                 withdrawn>>

\* The reference of the task that connected.
LoopReleases ==
  /\ loopAt = "release" /\ Fine
  /\ loopAt' = "poll"
  /\ refs' = DropConn(refs)
  /\ races' = races \union LeftPolled(DropConn(refs))
  /\ UNCHANGED <<sideVars, handleVars, iStatus, sock, tasks, userData, askerPc, timerAt, luaHolds,
                 event, answers, withdrawn>>

\* inLoop_eventConnection_forceClose, with eventConnection_handleClose: an open
\* socket is closed and the reference of what polled it released.
RunForceClose ==
  /\ loopAt = "poll" /\ Fine
  /\ tasks # <<>> /\ Head(tasks) = "forceClose"
  /\ tasks' = Tail(tasks)
  /\ IF sock \in {"none", "closed"}
     THEN refs' = DropConn(refs) /\ UNCHANGED <<sock, iStatus>>
     ELSE /\ sock' = "closed"
          /\ iStatus' = "Disconnected"
          /\ refs' = DropConn(DropConn(refs))
  /\ UNCHANGED <<sideVars, handleVars, userData, askerPc, loopAt, timerAt, luaHolds, event, answers,
                 withdrawn, races>>

\* inLoop_eventConnection_cancel, of a connect that the shutdown finds queued.
CancelConnect ==
  /\ loopAt = "poll" /\ halted /\ Fine
  /\ tasks # <<>> /\ Head(tasks) = "connect"
  /\ tasks' = Tail(tasks)
  /\ refs' = DropConn(refs)
  /\ UNCHANGED <<sideVars, handleVars, iStatus, sock, userData, askerPc, loopAt, timerAt, luaHolds,
                 event, answers, withdrawn, races>>

EventIOStops ==
  /\ AttemptMayStop /\ ~halted /\ Fine
  /\ halted' = TRUE
  /\ UNCHANGED <<tcp, timed, up, handleVars, refs, iStatus, sock, tasks, userData, askerPc, loopAt,
                 timerAt, luaHolds, event, answers, withdrawn, races>>

\* eventIOLoop_clear, when the queue was emptied: nobody runs what is queued from now
\* on, and the poller is gone.
LoopClears ==
  /\ loopAt = "poll" /\ halted /\ tasks = <<>> /\ Fine
  /\ loopAt' = "left"
  /\ UNCHANGED <<sideVars, handleVars, refs, iStatus, sock, tasks, userData, askerPc, timerAt,
                 luaHolds, event, answers, withdrawn, races>>

-----------------------------------------------------------------------------
(* The dispatching thread, which runs the timer.                            *)

Dispatches == askerPc # "gone"

\* inLoop_eventTimer_start puts the timer into the heap, or closes one that was stopped
\* meanwhile.  After eventIO_stop it is inLoop_eventTimer_cancel, which drops the timer
\* without its close callback, and with it the reference to the connector.
TimeoutStarts ==
  /\ timerAt \in {"queued", "early"} /\ Dispatches /\ Fine
  /\ timerAt' = IF halted THEN "cancelled" ELSE IF timerAt = "queued" THEN "armed" ELSE "over"
  /\ refs' = IF timerAt' = "over" THEN Drop(refs) ELSE refs
  /\ UNCHANGED <<sideVars, handleVars, iStatus, sock, tasks, userData, askerPc, loopAt, luaHolds,
                 event, answers, withdrawn, races>>

\* eventIO_dispatch returns when the loops have left and what was queued is cancelled;
\* a timer in the heap never runs, while the stop of one is carried out even then
\* (eventTimer_stop has no other cancel function).  The service lived on one of the loops.
DispatcherLeaves ==
  /\ halted /\ loopAt = "left" /\ askerPc \in {"idle", "refused"}
  /\ timerAt \in {"none", "armed", "over", "cancelled"} /\ Fine
  /\ askerPc' = "gone"
  /\ UNCHANGED <<sideVars, handleVars, refs, iStatus, sock, tasks, userData, loopAt, timerAt,
                 luaHolds, event, answers, withdrawn, races>>

\* eventTimer_run of one that nobody stopped: connector_onConnectingTimeout
\* exchanges the timer ...
TimeoutFires ==
  /\ timerAt = "armed" /\ Dispatches /\ Fine
  /\ timerAt' = "fired"
  /\ refs' = Use(refs, "connector")
  /\ hConnecting' = FALSE
  /\ UNCHANGED <<sideVars, hConnection, iStatus, sock, tasks, userData, askerPc, loopAt, luaHolds,
                 event, answers, withdrawn, races>>

\* ... then the connection, which it closes, and tells the service.
OnConnectingTimeout ==
  /\ timerAt = "fired" /\ Fine
  /\ timerAt' = "closing"
  /\ hConnection' = FALSE
  /\ IF hConnection
     THEN /\ ForceCloseAndRelease(Use(refs, "connector"))
          /\ event' = IF up THEN "nothing" ELSE event
          /\ answers' = IF up THEN Append(answers, "nothing") ELSE answers
     ELSE UNCHANGED <<refs, iStatus, tasks, event, answers>>
  /\ UNCHANGED <<sideVars, hConnecting, sock, userData, askerPc, loopAt, luaHolds, withdrawn, races>>

\* connector_onConnectingTimeout_close, once, of a timer that fired or was stopped.
OnConnectingTimeoutClose ==
  /\ timerAt \in {"closing", "stopped"} /\ Fine
  /\ timerAt' = "over"
  /\ refs' = Drop(refs)
  /\ UNCHANGED <<sideVars, handleVars, iStatus, sock, tasks, userData, askerPc, loopAt, luaHolds,
                 event, answers, withdrawn, races>>

-----------------------------------------------------------------------------
(* The service that is answered: DEF_EVENT_CONNECT in service_callback.     *)

Deliver ==
  /\ up /\ event \in {"connection", "nothing"} /\ askerPc = "idle" /\ Fine
  /\ IF event = "connection" /\ iStatus = "Connecting"
     THEN event' = "channel" /\ UNCHANGED refs
     ELSE /\ refs' = IF event = "connection" THEN DropConn(refs) ELSE refs
          /\ event' = "none"
  /\ UNCHANGED <<sideVars, handleVars, iStatus, sock, tasks, userData, askerPc, loopAt, timerAt,
                 luaHolds, answers, withdrawn, races>>

\* eventConnection_bind gives the connection to the channel, and the connector
\* loses its share; from here on it is Connection's.
Bind ==
  /\ up /\ event = "channel" /\ askerPc = "idle" /\ Fine
  /\ iStatus = "Connecting"
  /\ iStatus' = "Connected"
  /\ event' = "bound"
  /\ userData' = "channel"
  /\ refs' = Drop(refs)
  /\ UNCHANGED <<sideVars, handleVars, sock, tasks, askerPc, loopAt, timerAt, luaHolds, answers,
                 withdrawn, races>>

ServiceCall == Connect \/ LuaCloses
LoopRuns == \/ \E ok \in BOOLEAN : RunConnect(ok) \/ Outcome(ok)
            \/ OnConnector \/ OnConnectorAnswers \/ LoopReleases \/ RunForceClose \/ CancelConnect
            \/ LoopClears
TimerRuns == TimeoutStarts \/ TimeoutFires \/ OnConnectingTimeout \/ OnConnectingTimeoutClose

ConnectorNext == \/ \E valid \in BOOLEAN : Create(valid)
                 \/ ServiceCall \/ LuaClose \/ LuaGc \/ ServiceStops
                 \/ LoopRuns \/ Ready \/ EventIOStops
                 \/ TimerRuns \/ DispatcherLeaves
                 \/ Deliver \/ Bind

\* The threads go on, until eventIO_dispatch has returned; the peer need not answer, Lua
\* need not close and nobody need stop the eventIO.
ConnectorFairness == WF_connectorVars(ServiceCall) /\ WF_connectorVars(LoopRuns)
                     /\ WF_connectorVars(TimerRuns)

-----------------------------------------------------------------------------
One(holds) == IF holds THEN 1 ELSE 0

\* The loop is in no callback of the connection.
AtPoll == loopAt \in {"poll", "left"}

\* Who holds a reference to the connection: the connector, the poller, the loop, the
\* queued event, the channel and what is queued in the loop, some for ever once that
\* has left.
ConnHolders ==
  One(hConnection) + One(sock = "waiting" /\ AtPoll) + One(~AtPoll)
  + One(event = "connection") + One(event \in {"channel", "bound"}) + Len(tasks)

\* And to the connector: the asker, the timer (for ever, if its start was cancelled) and
\* the connection.
ConnectorHolders ==
  One(askerPc \in {"create", "connect"} \/ luaHolds) + One(timerAt \notin {"none", "over"})
  + One((userData = "connector" /\ refs.conn > 0) \/ askerPc = "connect")

\* The two counts are the number of holders, and nothing is used after it was
\* freed, unless one of four orders of steps happened: the timer took the
\* connection before eventConnection_connect; the loop finished a connection that
\* the timer or Lua was closing; a connected socket hung up before it was bound;
\* a stopped service refused a connection, which leaves its socket in the poller.
ConnectorCounted ==
  races = {} => /\ Fine
                /\ refs.conn = ConnHolders
                /\ refs.connector = ConnectorHolders

\* An attempt is answered once, and not at all when Lua took the connection back,
\* whatever the order in which the loop, the timer and Lua get to it.
OneAnswer == Len(answers) <= 1 /\ (withdrawn => answers = <<>>)

\* With a timeout, an attempt ends whatever the network does: in an answer, in
\* Lua's close, or because somebody was stopped, the service or the eventIO: for after
\* eventIO_stop the start of the timer may be cancelled, or eventIO_dispatch return with
\* the timer in its heap.  A timer that runs before that still ends the attempt, also one
\* whose connect was cancelled.
AttemptEnds ==
  (askerPc = "idle" /\ timed) ~> (answers # <<>> \/ withdrawn \/ ~up \/ ~Fine
                                   \/ timerAt = "cancelled" \/ ~Dispatches)
=============================================================================
