----------------------------- MODULE Connection -----------------------------
(***************************************************************************)
(* One established connection and the channel on top of it, from the       *)
(* ACCEPT or CONNECT event to the last release: posix/eventConnection_t.c, *)
(* channel_t.c, lchannelExt_t.c and the calls of lservice_t.c that take a  *)
(* channel's ID.  Three threads work on them: the loop of the connection,  *)
(* the service, on a thread of its own or (here) on the loop's, and the    *)
(* thread of the disconnect timer.                                         *)
(*                                                                         *)
(* Bytes are left out: of a write only its buffer's name is kept, and what *)
(* a writable socket completes is any prefix of what is pending (SendPath  *)
(* has the bytes).  Data that the channel accepts changes nothing here.    *)
(***************************************************************************)
EXTENDS Integers, Sequences, FiniteSets, SequencesExt

CONSTANTS Bufs,        \* writes the service asks to be told about (uiToken # 0)
          NoBuf,       \* no write
          MaxCloses,   \* bound: remoteClose calls of the service
          MaxCalls,    \* bound: writes, remoteClose calls and references of Lua's
          MayStop      \* whether the eventIO may be stopped meanwhile

ASSUME NoBufIsNoBuf == NoBuf \notin Bufs

ASSUME CallsAreBounded == MaxCloses \in Nat /\ MaxCalls \in Nat

ASSUME MayStopIsFlag == MayStop \in BOOLEAN

VARIABLES
  iStatus,       \* eventConnection_s.iStatus
  hSocket,       \* eventConnection_s.hSocket # -1
  attr,          \* pollHandle_s.iAttribute: "R", "W" or "C" (closed)
  fnDisconnect,  \* hDisconnectCallback # 0
  fnClose,       \* fnCloseCallback # NULL
  pending,       \* queueWritePending
  queue,         \* eventIOLoop_s.queuePending: what is asked of this connection
  bound,         \* eventConnection_bind: no, queued, yes, or cancelled by a stop
  chStatus,      \* channel_s.iStatus
  hConnection,   \* channel_s.hConnection # 0
  hTimer,        \* channel_s.hDisconnectTimeout # 0
  mem,           \* both iRefCounts, the channel center's slot, and uses after free
  peer, wrShut,  \* the other end; shutdown(SHUT_WR) was called
  loopPc,        \* where the loop is in eventConnection_handleClose
  stopped,       \* eventIOLoop_clear runs: the queue is cancelled
  timer,         \* the disconnect timer, and where its thread is
  timerConn,     \* the connection that thread took from hConnection
  pc, arg, here, \* where the service is in a call, for which buffer, on which thread
  svcConn,       \* the connection it read, or took, from hConnection
  closes, extra, \* remoteClose calls; references that Lua's addref took
  unset,         \* the buffers whose pEventConnection was never set
  accepted, reports, told   \* history: writes taken on, their reports, disconnects seen

connVars == <<iStatus, hSocket, attr, fnDisconnect, fnClose, pending, bound>>
chanVars == <<chStatus, hConnection, hTimer>>
loopVars == <<loopPc, stopped>>
timerVars == <<timer, timerConn>>
svcVars == <<pc, arg, here, svcConn>>
luaVars == <<closes, extra>>
history == <<accepted, unset, reports, told>>
vars == <<connVars, chanVars, queue, mem, peer, wrShut, loopVars, timerVars, svcVars, luaVars,
          history>>

\* acceptEventConnection and createChannel: the connection belongs to the
\* channel, the channel to the service and to the channel center.
Init ==
  /\ iStatus = "Connecting" /\ hSocket = TRUE /\ attr = {"C"}
  /\ fnDisconnect = FALSE /\ fnClose = FALSE /\ pending = <<>> /\ bound = "no"
  /\ queue = <<>>
  /\ chStatus = "Starting" /\ hConnection = TRUE /\ hTimer = FALSE
  /\ mem = [conn |-> 1, chan |-> 2, slot |-> TRUE, userFree |-> FALSE, dangling |-> {}]
  /\ peer = "open" /\ wrShut = FALSE
  /\ loopPc = "poll" /\ stopped = FALSE
  /\ timer = "none" /\ timerConn = FALSE
  /\ pc = "callback" /\ arg = NoBuf /\ here = FALSE /\ svcConn = FALSE
  /\ closes = 0 /\ extra = 0
  /\ accepted = {} /\ unset = {} /\ reports = [b \in Bufs |-> <<>>] /\ told = FALSE

-----------------------------------------------------------------------------
(* Memory: the two counts.  What follows the release that freed an object   *)
(* is recorded as a use of it after free, by whom.                          *)

Touch(m, object, who) ==
  IF m[object] <= 0 THEN [m EXCEPT !.dangling = @ \union {<<object, who>>}] ELSE m

AddRef(m, object, who) == [Touch(m, object, who) EXCEPT ![object] = @ + 1]

\* channel_release
ChanRelease(m, who) == [Touch(m, "chan", who) EXCEPT !.chan = @ - 1]

\* eventConnection_onUserFree, with channelCenter_deregister.
OnUserFree(m) ==
  ChanRelease([(IF m.slot THEN ChanRelease(m, "userFree") ELSE m) EXCEPT !.slot = FALSE,
                                                                       !.userFree = TRUE],
              "userFree")

\* eventConnection_release: the last one lets go of the channel it was bound to.
ConnRelease(m, who) ==
  LET n == [Touch(m, "conn", who) EXCEPT !.conn = @ - 1]
  IN  IF m.conn = 1 /\ bound # "no" THEN OnUserFree(n) ELSE n

Op(what, buf) == [op |-> what, buf |-> buf]

\* fnCallback of one buffer.  It is told which connection by the buffer, where
\* eventConnection_send never set it on the loop's own thread.
Reported(b, r) == Append(reports[b], IF b \in unset THEN "astray" ELSE r)

Report(b, r) == [reports EXCEPT ![b] = Reported(b, r)]

-----------------------------------------------------------------------------
(* The loop of the connection. *)

LoopMay == ~here

\* Faulty variant: the pointer is taken and not called.
DisconnectSilently == fnDisconnect' = FALSE /\ told' = told

\* eventConnection_onDisconnectCallback, through the exchange of its pointer.
Disconnect == fnDisconnect' = FALSE /\ told' = (told \/ fnDisconnect)

\* What a send on this socket may do.
SocketWorks == peer # "reset" /\ ~wrShut
SocketFails == peer # "open" \/ wrShut

\* eventConnection_sendData: written, left for a writable socket, dropped (reported
\* as written, but -1 is returned) by one without room, or failed.
SendData(b, how) ==
  \/ /\ how = "wait"
     /\ "W" \in attr \/ SocketWorks
     /\ pending' = Append(pending, b)
     /\ attr' = attr \union {"W"}
     /\ UNCHANGED reports
  \/ /\ how = "sent"
     /\ "W" \notin attr /\ SocketWorks
     /\ reports' = Report(b, "ok")
     /\ UNCHANGED <<pending, attr>>
  \/ /\ how = "dropped"
     /\ "W" \notin attr /\ SocketWorks
     /\ reports' = Report(b, "ok")
     /\ UNCHANGED <<pending, attr>>
  \/ /\ how = "failed"
     /\ "W" \notin attr /\ SocketFails
     /\ reports' = Report(b, "failed")
     /\ attr' = {"C"}
     /\ UNCHANGED pending

\* inLoop_eventConnection_bind: whatever was asked since, the status is eConnected.
InLoopBind ==
  /\ attr' = {"R"} \union (attr \ {"C"})
  /\ iStatus' = "Connected"
  /\ bound' = "yes"

\* Faulty variant: what is pending goes with the socket, unreported.
DrainSilently == reports' = reports

\* The writes that a closing socket leaves behind are reported, in order.
Drain ==
  reports' = [b \in Bufs |-> IF Contains(pending, b) THEN Reported(b, "failed")
                             ELSE reports[b]]

\* eventConnection_handleClose, up to the close callback; then the releases.
CloseSocket(then) ==
  IF ~hSocket
  THEN loopPc' = then /\ UNCHANGED <<iStatus, attr, hSocket, pending, reports>>
  ELSE /\ iStatus' = "Disconnected"
       /\ attr' = {"C"}
       /\ hSocket' = FALSE
       /\ Drain
       /\ pending' = <<>>
       /\ loopPc' = IF then = "poll" THEN "onClose" ELSE "onCloseOp"

\* eventConnection_onClose
OnClose ==
  /\ loopPc \in {"onClose", "onCloseOp"} /\ LoopMay
  /\ loopPc' = IF loopPc = "onClose" THEN "final" ELSE "finalOp"
  /\ IF fnClose
     THEN /\ mem' = ChanRelease(IF hConnection THEN ConnRelease(mem, "loop") ELSE mem, "loop")
          /\ hConnection' = FALSE
          /\ hTimer' = FALSE
          /\ timer' = IF hTimer /\ timer = "armed" THEN "stopping" ELSE timer
          /\ fnClose' = FALSE
     ELSE UNCHANGED <<mem, hConnection, hTimer, timer, fnClose>>
  /\ UNCHANGED <<iStatus, hSocket, attr, fnDisconnect, pending, bound, chStatus, queue, peer,
                 wrShut, stopped, timerConn, svcVars, luaVars, history>>

\* ... and the end of handleClose, and of the operation that called it.
CloseEnds ==
  /\ loopPc \in {"final", "finalOp", "opEnds"} /\ LoopMay
  /\ loopPc' = "poll"
  /\ mem' = CASE loopPc = "final"   -> ConnRelease(mem, "loop")
              [] loopPc = "finalOp" -> ConnRelease(ConnRelease(mem, "loop"), "loop")
              [] loopPc = "opEnds"  -> ConnRelease(mem, "loop")
  /\ UNCHANGED <<connVars, chanVars, queue, peer, wrShut, stopped, timerVars, svcVars, luaVars,
                 history>>

\* inLoop_eventConnection_bind, _close and _forceClose, and
\* eventAsyncSend_sendInLoop, from the loop's queue.
LoopRun(how) ==
  /\ loopPc = "poll" /\ LoopMay /\ ~stopped
  /\ queue # <<>>
  /\ queue' = Tail(queue)
  /\ LET o == Head(queue) IN
     \/ /\ o.op = "bind" /\ how = "sent"
        /\ InLoopBind
        /\ UNCHANGED <<hSocket, fnDisconnect, pending, mem, reports, told, wrShut, loopPc>>
     \/ /\ o.op = "send" /\ iStatus = "Connected"
        /\ SendData(o.buf, how)
        /\ IF how \in {"dropped", "failed"} THEN Disconnect ELSE UNCHANGED <<fnDisconnect, told>>
        /\ mem' = ConnRelease(mem, "loop")
        /\ UNCHANGED <<iStatus, hSocket, bound, wrShut, loopPc>>
     \/ /\ o.op = "send" /\ iStatus # "Connected" /\ how = "failed"
        /\ reports' = Report(o.buf, "failed")
        /\ mem' = ConnRelease(mem, "loop")
        /\ UNCHANGED <<iStatus, hSocket, attr, fnDisconnect, pending, bound, told, wrShut, loopPc>>
     \/ /\ o.op = "close" /\ how = "sent" /\ hSocket /\ "R" \in attr
        /\ wrShut' = TRUE
        /\ loopPc' = "opEnds"
        /\ UNCHANGED <<iStatus, hSocket, attr, fnDisconnect, pending, bound, mem, reports, told>>
     \/ /\ \/ o.op = "close" /\ "R" \notin attr /\ how = "sent"
           \/ o.op = "close" /\ "R" \in attr /\ how = "failed" /\ peer = "reset"
           \/ o.op = "forceClose" /\ how = "sent"
        /\ CloseSocket("opEnds")
        /\ UNCHANGED <<fnDisconnect, bound, mem, told, wrShut>>
  /\ UNCHANGED <<fnClose, chanVars, peer, stopped, timerVars, svcVars, luaVars, accepted, unset>>

\* eventIOLoop_clear: what is left in the queue is cancelled.
LoopCancel ==
  /\ loopPc = "poll" /\ LoopMay /\ stopped
  /\ queue # <<>>
  /\ queue' = Tail(queue)
  /\ LET o == Head(queue) IN
     \/ /\ o.op = "bind"
        /\ bound' = "cancelled"
        /\ mem' = ConnRelease(mem, "loop")
        /\ UNCHANGED <<iStatus, hSocket, attr, pending, reports, loopPc>>
     \/ /\ o.op = "send"
        /\ reports' = Report(o.buf, "failed")
        /\ mem' = ConnRelease(mem, "loop")
        /\ UNCHANGED <<iStatus, hSocket, attr, pending, bound, loopPc>>
     \/ /\ o.op \in {"close", "forceClose"}
        /\ CloseSocket("opEnds")
        /\ UNCHANGED <<bound, mem>>
  /\ UNCHANGED <<fnDisconnect, fnClose, chanVars, peer, wrShut, stopped, timerVars, svcVars,
                 luaVars, accepted, unset, told>>

\* The eventIO is stopped: the loop polls no more.
Stop ==
  /\ MayStop /\ ~stopped /\ loopPc = "poll" /\ LoopMay
  /\ stopped' = TRUE
  /\ UNCHANGED <<connVars, chanVars, queue, mem, peer, wrShut, loopPc, timerVars, svcVars, luaVars,
                 history>>

-----------------------------------------------------------------------------
(* eventConnection_handleEvent.  epoll reports a hang-up or an error as      *)
(* readable and writable, whatever was asked for.                            *)

HungUp == peer = "reset" \/ (peer = "eof" /\ wrShut)

EventMay == loopPc = "poll" /\ LoopMay /\ ~stopped /\ attr # {"C"}

\* eventConnection_sendCompleteCallback: n writes completed; the others wait,
\* or fail.
Writable(n, how) ==
  /\ EventMay /\ iStatus = "Connected"
  /\ "W" \in attr
  /\ n <= Len(pending)
  /\ reports' = [b \in Bufs |->
        IF \E i \in 1..n : pending[i] = b THEN Reported(b, "ok")
        ELSE IF how = "failed" /\ Contains(pending, b) THEN Reported(b, "failed")
        ELSE reports[b]]
  /\ \/ /\ how = "wait" /\ n > 0 /\ n < Len(pending)
        /\ SocketWorks
        /\ pending' = SubSeq(pending, n + 1, Len(pending))
        /\ UNCHANGED <<attr, fnDisconnect, told>>
     \/ /\ how = "sent" /\ n = Len(pending)
        /\ pending' = <<>>
        /\ attr' = attr \ {"W"}
        /\ UNCHANGED <<fnDisconnect, told>>
     \/ /\ how = "failed" /\ n < Len(pending)
        /\ SocketFails
        /\ pending' = <<>>
        /\ attr' = {"C"}
        /\ Disconnect
  /\ UNCHANGED <<iStatus, hSocket, fnClose, bound, chanVars, queue, mem, peer, wrShut, loopVars,
                 timerVars, svcVars, luaVars, accepted, unset>>

\* The receive fails, at the end of the data or in the channel's callback, or
\* the poller says that the socket is closed.
ReadFails ==
  /\ EventMay
  /\ "R" \in attr \/ HungUp
  /\ \/ /\ iStatus = "Connected"
        /\ attr' = attr \ {"R"}
        /\ Disconnect
        /\ UNCHANGED <<iStatus, hSocket, pending, reports, loopPc>>
     \/ /\ iStatus = "Disconnecting"
        /\ CloseSocket("poll")
        /\ UNCHANGED <<fnDisconnect, told>>
  /\ UNCHANGED <<fnClose, bound, chanVars, queue, mem, peer, wrShut, stopped, timerVars, svcVars,
                 luaVars, accepted, unset>>

\* The other end closes, or resets.
PeerLeaves(p) ==
  /\ peer = "open" \/ (peer = "eof" /\ p = "reset")
  /\ peer' = p
  /\ UNCHANGED <<connVars, chanVars, queue, mem, wrShut, loopVars, timerVars, svcVars, luaVars,
                 history>>

-----------------------------------------------------------------------------
(* The thread of the disconnect timer. *)

\* Faulty variant: only a connected connection is closed, as eventConnection_close has it.
ForceCloseConnected(m, who) ==
  /\ iStatus' = "Disconnected"
  /\ IF iStatus # "Connected"
     THEN mem' = ConnRelease(m, who) /\ UNCHANGED queue
     ELSE /\ mem' = ConnRelease(AddRef(m, "conn", who), who)
          /\ queue' = Append(queue, Op("forceClose", NoBuf))

\* eventConnection_forceClose, then the release of the caller's reference.
ForceClose(m, who) ==
  /\ iStatus' = "Disconnected"
  /\ IF iStatus = "Disconnected"
     THEN mem' = ConnRelease(m, who) /\ UNCHANGED queue
     ELSE /\ mem' = ConnRelease(AddRef(m, "conn", who), who)
          /\ queue' = Append(queue, Op("forceClose", NoBuf))

\* eventTimer_run: the callback is called unless the timer was stopped ...
TimerRun ==
  \/ /\ timer = "armed"
     /\ timer' = "fired"
     /\ hTimer' = FALSE
     /\ UNCHANGED mem
  \/ /\ timer = "stopping"
     /\ timer' = "stopped"
     /\ mem' = ChanRelease(mem, "timer")
     /\ UNCHANGED hTimer

\* ... eventTimer_onDisconnectTimeout takes the connection ...
TimerTakes ==
  /\ timer = "fired"
  /\ timer' = "took"
  /\ timerConn' = hConnection
  /\ hConnection' = FALSE

\* ... closes it, and releases the channel; eventTimer_onClose releases it again.
TimerCloses ==
  \/ /\ timer = "took"
     /\ timer' = "closing"
     /\ timerConn' = FALSE
     /\ IF timerConn THEN ForceClose(mem, "timer") ELSE UNCHANGED <<mem, queue, iStatus>>
  \/ /\ timer = "closing"
     /\ timer' = "done"
     /\ mem' = ChanRelease(ChanRelease(mem, "timer"), "timer")
     /\ UNCHANGED <<timerConn, queue, iStatus>>

TimerStep ==
  /\ \/ TimerRun /\ UNCHANGED <<iStatus, hConnection, timerConn, queue>>
     \/ TimerTakes /\ UNCHANGED <<iStatus, hTimer, mem, queue>>
     \/ TimerCloses /\ UNCHANGED <<hTimer, hConnection>>
  /\ UNCHANGED <<hSocket, attr, fnDisconnect, fnClose, pending, bound, chStatus, peer, wrShut,
                 loopVars, svcVars, luaVars, history>>

-----------------------------------------------------------------------------
(* The service, in a callback or in a call from Lua. *)

\* A call starts with channelCenter_gain, on the loop's thread if h.
Gain(next, h) ==
  /\ pc = "idle" /\ mem.slot
  /\ h => loopPc = "poll" /\ ~stopped
  /\ here' = h
  /\ pc' = next
  /\ mem' = AddRef(mem, "chan", "service")

CallsLeft == closes + extra + Cardinality(accepted) < MaxCalls

\* The ACCEPT or CONNECT callback takes the channel, or refuses it: channel_close
\* and channel_release.
Callback(takes, h) ==
  /\ pc = "callback"
  /\ IF takes THEN pc' = "idle" /\ UNCHANGED <<here, chStatus, closes>>
     ELSE pc' = "refuse" /\ here' = h /\ chStatus' = "Stopped" /\ closes' = closes + 1
  /\ UNCHANGED <<connVars, hConnection, hTimer, queue, mem, peer, wrShut, loopVars, timerVars, arg,
                 svcConn, extra, history>>

\* lservice_context_remoteBind: channel_bind and eventConnection_bind.  A service
\* binds a channel once.
Bind(h) ==
  /\ chStatus = "Starting" /\ hConnection
  /\ Gain("bound", h)
  /\ fnDisconnect' = TRUE /\ fnClose' = TRUE
  /\ chStatus' = "Running"
  /\ UNCHANGED <<iStatus, hSocket, attr, pending, bound, hConnection, hTimer, queue, peer, wrShut,
                 loopVars, timerVars, arg, svcConn, luaVars, history>>

\* Faulty variant: the channel is handed to the connection without a reference.
BindEndsUncounted ==
  /\ pc = "bound"
  /\ pc' = "idle" /\ here' = FALSE
  /\ mem' = ChanRelease(AddRef(mem, "conn", "service"), "service")
  /\ IF here
     THEN InLoopBind /\ UNCHANGED queue
     ELSE /\ iStatus' = "Connected"
          /\ bound' = "queued"
          /\ queue' = Append(queue, Op("bind", NoBuf))
          /\ UNCHANGED attr
  /\ UNCHANGED <<hSocket, fnDisconnect, fnClose, pending, chanVars, peer, wrShut, loopVars,
                 timerVars, arg, svcConn, luaVars, history>>

BindEnds ==
  /\ pc = "bound"
  /\ pc' = "idle" /\ here' = FALSE
  /\ mem' = ChanRelease(AddRef(AddRef(mem, "conn", "service"), "chan", "service"), "service")
  /\ IF here
     THEN InLoopBind /\ UNCHANGED queue
     ELSE /\ iStatus' = "Connected"
          /\ bound' = "queued"
          /\ queue' = Append(queue, Op("bind", NoBuf))
          /\ UNCHANGED attr
  /\ UNCHANGED <<hSocket, fnDisconnect, fnClose, pending, chanVars, peer, wrShut, loopVars,
                 timerVars, arg, svcConn, luaVars, history>>

\* channel_write, up to the load of hConnection.
Write(b, h) ==
  /\ b \notin accepted /\ CallsLeft
  /\ Gain("write", h)
  /\ arg' = b
  /\ svcConn' = (chStatus = "Running" /\ hConnection)
  /\ unset' = IF h THEN unset \union {b} ELSE unset \ {b}
  /\ UNCHANGED <<connVars, chanVars, queue, peer, wrShut, loopVars, timerVars, luaVars, accepted,
                 reports, told>>

\* eventConnection_send, with the connection that was loaded.
WriteEnds(how) ==
  /\ pc = "write"
  /\ pc' = "idle" /\ here' = FALSE /\ arg' = NoBuf /\ svcConn' = FALSE
  /\ LET m == IF svcConn THEN Touch(mem, "conn", "stale") ELSE mem
         sends == svcConn /\ iStatus = "Connected" /\ mem.conn > 0
     IN  \/ /\ ~sends /\ how = "failed"
            /\ told' = (told \/ svcConn)
            /\ mem' = ChanRelease(m, "service")
            /\ UNCHANGED <<attr, pending, queue, accepted, reports>>
         \/ /\ sends /\ here
            /\ accepted' = accepted \union {arg}
            /\ SendData(arg, how)
            /\ told' = (told \/ how \in {"dropped", "failed"})
            /\ mem' = ChanRelease(m, "service")
            /\ UNCHANGED queue
         \/ /\ sends /\ ~here /\ how = "wait"
            /\ accepted' = accepted \union {arg}
            /\ queue' = Append(queue, Op("send", arg))
            /\ mem' = ChanRelease(AddRef(m, "conn", "service"), "service")
            /\ UNCHANGED <<attr, pending, reports, told>>
  /\ UNCHANGED <<iStatus, hSocket, fnDisconnect, fnClose, bound, chanVars, peer, wrShut, loopVars,
                 timerVars, luaVars, unset>>

\* lchannelExt_writePending, _writePendingBytes, _receiveBufLength, _localAddr and
\* _remoteAddr: the connection is loaded, and asked.
Query(h) ==
  /\ Gain("query", h)
  /\ svcConn' = hConnection
  /\ UNCHANGED <<connVars, chanVars, queue, peer, wrShut, loopVars, timerVars, arg, luaVars,
                 history>>

QueryEnds ==
  /\ pc = "query"
  /\ pc' = "idle" /\ here' = FALSE /\ svcConn' = FALSE
  /\ mem' = ChanRelease(IF svcConn THEN Touch(mem, "conn", "stale") ELSE mem, "service")
  /\ UNCHANGED <<connVars, chanVars, queue, peer, wrShut, loopVars, timerVars, arg, luaVars,
                 history>>

\* lchannelExt_addref keeps what it gained; lchannelExt_release gives it back.
LuaAddref ==
  /\ pc = "idle" /\ mem.slot /\ extra = 0 /\ CallsLeft
  /\ extra' = 1
  /\ mem' = AddRef(mem, "chan", "service")
  /\ UNCHANGED <<connVars, chanVars, queue, peer, wrShut, loopVars, timerVars, svcVars, closes,
                 history>>

LuaRelease ==
  /\ pc = "idle" /\ mem.slot /\ extra = 1
  /\ extra' = 0
  /\ mem' = ChanRelease(ChanRelease(AddRef(mem, "chan", "service"), "service"), "service")
  /\ UNCHANGED <<connVars, chanVars, queue, peer, wrShut, loopVars, timerVars, svcVars, closes,
                 history>>

\* lservice_remoteClose and channel_close.  Without a timeout the timer is
\* stopped, and the connection is taken and closed.
CloseNow(h) ==
  /\ closes < MaxCloses /\ CallsLeft
  /\ Gain(IF chStatus = "Stopped" THEN "released" ELSE "closeNow", h)
  /\ closes' = closes + 1
  /\ chStatus' = "Stopped"
  /\ UNCHANGED <<connVars, hConnection, hTimer, queue, peer, wrShut, loopVars, timerVars, arg,
                 svcConn, extra, history>>

CloseNowTakes ==
  /\ pc \in {"closeNow", "refuse"}
  /\ hTimer' = FALSE
  /\ timer' = IF hTimer /\ timer = "armed" THEN "stopping" ELSE timer
  /\ svcConn' = hConnection
  /\ hConnection' = FALSE
  /\ pc' = IF pc = "refuse" THEN "refuseForce" ELSE "force"
  /\ UNCHANGED <<connVars, chStatus, queue, mem, peer, wrShut, loopVars, timerConn, arg, here,
                 luaVars, history>>

CloseNowForces ==
  /\ pc \in {"force", "refuseForce"}
  /\ IF svcConn THEN ForceClose(mem, "service") ELSE UNCHANGED <<mem, queue, iStatus>>
  /\ svcConn' = FALSE
  /\ pc' = IF pc = "refuseForce" THEN "refused" ELSE "released"
  /\ UNCHANGED <<hSocket, attr, fnDisconnect, fnClose, pending, bound, chanVars, peer, wrShut,
                 loopVars, timerVars, arg, here, luaVars, history>>

\* With one, the timer is created and started, and the connection asked to close.
CloseSlowly(h) ==
  /\ closes < MaxCloses /\ CallsLeft
  /\ Gain(IF chStatus \in {"Starting", "Running"} THEN "timer" ELSE "released", h)
  /\ closes' = closes + 1
  /\ chStatus' = "Stopping"
  /\ UNCHANGED <<connVars, hConnection, hTimer, queue, peer, wrShut, loopVars, timerVars, arg,
                 svcConn, extra, history>>

\* Faulty variant: the timer gets no reference of its own.
StartTimerUncounted ==
  /\ pc = "timer"
  /\ hTimer' = TRUE
  /\ timer' = "armed"
  /\ svcConn' = hConnection
  /\ pc' = "ask"
  /\ UNCHANGED <<connVars, chStatus, hConnection, queue, mem, peer, wrShut, loopVars, timerConn,
                 arg, here, luaVars, history>>

StartTimer ==
  /\ pc = "timer"
  /\ hTimer' = TRUE
  /\ timer' = "armed"
  /\ mem' = AddRef(mem, "chan", "service")
  /\ svcConn' = hConnection
  /\ pc' = "ask"
  /\ UNCHANGED <<connVars, chStatus, hConnection, queue, peer, wrShut, loopVars, timerConn, arg,
                 here, luaVars, history>>

\* eventConnection_close
CloseAsks ==
  /\ pc = "ask"
  /\ pc' = "released" /\ svcConn' = FALSE
  /\ LET m == IF svcConn THEN Touch(mem, "conn", "stale") ELSE mem
     IN  IF svcConn /\ iStatus = "Connected" /\ mem.conn > 0
         THEN /\ iStatus' = "Disconnecting"
              /\ mem' = AddRef(m, "conn", "service")
              /\ queue' = Append(queue, Op("close", NoBuf))
         ELSE mem' = m /\ UNCHANGED <<iStatus, queue>>
  /\ UNCHANGED <<hSocket, attr, fnDisconnect, fnClose, pending, bound, chanVars, peer, wrShut,
                 loopVars, timerVars, arg, here, luaVars, history>>

\* The end of lservice_remoteClose: its own reference, and the service's.
CloseReturns ==
  /\ pc \in {"released", "refused"}
  /\ pc' = "idle" /\ here' = FALSE
  /\ mem' = IF pc = "refused" THEN ChanRelease(mem, "service")
            ELSE ChanRelease(ChanRelease(mem, "service"), "service")
  /\ UNCHANGED <<connVars, chanVars, queue, peer, wrShut, loopVars, timerVars, arg, svcConn,
                 luaVars, history>>

-----------------------------------------------------------------------------
How == {"sent", "wait", "dropped", "failed"}

LoopStep ==
  \/ OnClose \/ CloseEnds \/ LoopCancel
  \/ \E how \in How : LoopRun(how)
  \/ \E how \in How, n \in 0..Cardinality(Bufs) : Writable(n, how)
  \/ ReadFails

\* A call the service has begun runs to its end.
CallStep ==
  \/ BindEnds \/ QueryEnds
  \/ \E how \in How : WriteEnds(how)
  \/ CloseNowTakes \/ CloseNowForces
  \/ StartTimer \/ CloseAsks \/ CloseReturns

Call ==
  \/ \E h \in BOOLEAN : Bind(h) \/ Query(h) \/ CloseNow(h) \/ CloseSlowly(h)
  \/ \E b \in Bufs, h \in BOOLEAN : Write(b, h)
  \/ LuaAddref \/ LuaRelease

Next ==
  \/ \E takes, h \in BOOLEAN : Callback(takes, h)
  \/ Call \/ CallStep \/ LoopStep \/ TimerStep \/ Stop
  \/ \E p \in {"eof", "reset"} : PeerLeaves(p)

Spec == Init /\ [][Next]_vars

\* The threads run; no one has to call, and the other end need not leave.  A loop
\* whose thread runs the service's callbacks comes back to its connections.
FairSpec == Spec /\ WF_vars(CallStep) /\ SF_vars(LoopStep) /\ WF_vars(TimerStep)

-----------------------------------------------------------------------------
(* Properties *)

N(p) == IF p THEN 1 ELSE 0

TimedOut == timer \in {"fired", "took", "closing", "done"}

InHandleClose == loopPc \in {"onClose", "onCloseOp", "final", "finalOp"}

\* Calls that release a reference of the service when they return.
Closing == pc \in {"closeNow", "force", "timer", "ask", "released", "refuse", "refuseForce",
                   "refused"}

Gained == pc \notin {"callback", "idle", "refuse", "refuseForce", "refused"}

\* Who holds the channel: the service, what Lua took, the channel center, the
\* connection until its close callback, the call under way, the timer.
ChanHolders ==
  (1 - closes + N(Closing)) + extra + N(mem.slot) + N(bound # "no" /\ fnClose) + N(Gained)
  + N(timer \in {"armed", "stopping", "fired", "took", "closing"})

\* Releases that no reference stands for: the disconnect timeout's own beside its
\* close callback's, and that of eventConnection_onUserFree beside the center's.
ChanSurplus == N(timer = "done") + N(mem.userFree)

\* Who holds the connection: the channel, the bind until handleClose, the queue,
\* the operation that runs, and whoever took it from the channel to close it.
ConnHolders ==
  N(hConnection) + N(bound = "yes" /\ (hSocket \/ InHandleClose)) + Len(queue)
  + N(loopPc \in {"opEnds", "onCloseOp", "finalOp"}) + N(timerConn)
  + N(svcConn /\ pc \in {"force", "refuseForce"})

\* handleClose releases the reference of a bind that never came or was cancelled.
ConnSurplus == N(~hSocket /\ bound # "yes" /\ ~InHandleClose)

(* Both counts are the number of holders, whatever the three threads do and  *)
(* in whatever order, but for the releases that the code makes once too      *)
(* often: no other path drops a reference it does not own, or keeps one.     *)
RefsMatchHolders ==
  /\ mem.chan = ChanHolders - ChanSurplus
  /\ mem.conn = ConnHolders - ConnSurplus

(* A channel that is bound, closed once, and in time, outlives its           *)
(* connection: the connection's callbacks and the center find it alive, and  *)
(* nothing of it is used after free before the connection's last release     *)
(* released it twice.  The connection itself is used after free only by a    *)
(* service that read hConnection just before the loop let go of it.          *)
FaultsOnlyAtTheEnd ==
  (bound \in {"queued", "yes"} /\ ~TimedOut /\ closes <= 1)
    => /\ mem.dangling \subseteq {<<"conn", "stale">>} \/ mem.userFree
       /\ mem.chan <= 0 => mem.userFree

(* A write that the connection took on is reported exactly once: not twice,  *)
(* when a late writable event, a failing socket, a close and a stop of the   *)
(* loop meet, and not never.                                                 *)
ReportedOnce ==
  \A b \in accepted :
    Len(reports[b]) = N(~Contains(pending, b) /\ Op("send", b) \notin ToSet(queue))

(* Whoever closes a channel, at once or with a timeout, before its bind has  *)
(* reached the loop or after, closes the socket: it needs neither the other  *)
(* end nor the writes that are still pending.                                *)
EventuallyClosed == (closes > 0) ~> (~hSocket \/ stopped)

(* An end of the connection that the loop can see reaches the service, as a  *)
(* DISCONNECT event or as a write that is refused.                           *)
PeerCloseNoticed ==
  (peer # "open" /\ iStatus = "Connected" /\ bound = "yes")
    ~> (told \/ iStatus # "Connected" \/ stopped)

=============================================================================
