# A specification of the frog game framework

frog-game-framework is an actor runtime in C: *services* (most of them Lua
states) send each other events, and an event loop with a fixed number of threads
runs whichever service has something to do. This directory holds TLA+ modules
translated from that code, TLC configurations that check them on small
instances, and proofs that TLAPS checks for every instance.

Paths below are relative to the repository's `src/` directory (`src/core/...`
is the C core, `src/service/...` the service layer, `src/runtime/...` the Lua
bindings, `src/lua/...` the scripts).

## 1. The system

### Components

| component | code | state | operations |
|---|---|---|---|
| event loop | `core/source/eventIO/posix/eventIO_t.c`, `eventIOLoop_t.c` | loops with a queue, an eventfd and a flag `bNotified` each; a queue and an eventfd shared by all loops; a queue with a condition variable for the dispatching thread; reference count | `eventIO_start`, `eventIO_dispatch`, `eventIO_stop`, `eventIO_queueInLoop`, `eventIO_runInLoop`, `eventIO_postQueued`, `eventIOLoop_queueInLoop`, release |
| event watcher | `eventWatcher_t.c` | status closed / idle / notified / running, one queue node, reference count | start, notify, reset, close, release |
| service | `service/source/service_t.c` | mailbox under a spin lock, its size, running flag, watcher, ID, reference count | `service_start`, `service_send`, `service_sendMove`, `service_enqueue`, `service_stop`, `service_eventCallback`, release |
| service center | `serviceCenter_t.c` | array of services, stack of free indices, tree of names, under a read-write spin lock | register, deregister, gain, bindName, unbindName, findServiceID, clear |
| eventIO thread | `eventIOThread_t.c` | status starting / running / stopping / stopped, a thread, a mutex, reference count | start, join, stop, release |
| timers | `eventTimer_t.c/.h`, `timerWatcher_t.c`, `heap_t.h` | heap ordered by time and ID, `bActive`, `bRunning`, two reference counts | start, stop, run, cancel, close callback |
| connections, channels | `eventConnection_t.c`, `channel_t.c`, `channelCenter_t.c` | connection status, write queue, read buffer, table of channels with a sequence | connect, bind, send, disconnect, close, timeouts |
| ports and connectors | `eventListenPort_t.c`, `listenPort_t.c`, `connector_t.c` | listening descriptors, a connection attempt and its timer | start, accept, stop; connect, time out, stop |
| DNS resolver | `dnsResolve_t.c` | one UDP connection and one timer per query | query, answer, time out, close |
| Lua service core | `lua/library/serviceCore.lua`, `lservice_t.c` | tokens that wait for an answer, coroutines and their pool, sleepers, queues of wakeups and cancels, responses put off | call, ping, send, reply, redirect, genResponse, sleep, wait, wakeup, async, timeout, term, exit |
| environment | `lenv_t.c`, `serverBin/source/main.c` | the eventIO thread of the process | init, wait, stop, exit, monitorStart, monitorStop |
| service monitor | `serviceMonitor_t.c` | per loop thread a version, the version checked last, and the service it runs | init, enter, leave, check, start, stop, clear |
| locks | `spinLock_t.h`, `rwSpinLock_t.h`, `thread_t.c` | one word each | lock, unlock |
| pollers | `poller_epoll_t.c`, `poller_kqueue_t.c`, `poller_select_t.c` | descriptors and their interest | add, setOpt, remove, wait, dispatch |
| data | `byteQueue_t.c`, `tpack_t.c`, `webSocket_t.c`, `msgpack*.c`, HTTP, MySQL, Redis, crypt | buffers | encode, decode |

### How they interact

A thread that sends to a service gains it from the **service center** by its ID,
puts the event into the **mailbox** under the service's lock and notifies the
**watcher**. If the watcher was idle its node goes to the pool queue of the
**event loop** (`eventIO_postQueued`), whose eventfd all loops poll; the loop
that takes the node runs the mailbox until it is empty. A service stops by an
event in its own mailbox: the loop thread that meets it calls the service's stop
function, deregisters the service and closes the watcher. Timers, connections
and ports live on the event loop and talk to services by putting events into
their mailboxes. A connection's writes go through its loop; its reads are cut into
messages by a **codec** stream and reach the service through the **channel**,
which services name by an ID of the **channel center**. A **connector**, a
listening **port** and a **DNS query** each make a connection of their own and
race it against a timer. The **environment** starts the thread that dispatches,
and the **monitor** watches the loop threads from there. Lua code runs inside the callback of a service and never
concurrently with itself.

### What is hard

* **Concurrency.** Senders, the loop threads, the dispatching thread and the
  thread that starts or stops a service share the mailbox, the watcher, the table
  and the queues. Several fields are read without the lock they are written
  under (`bRunning`, `pEventWatcher`, `uiQueueSize`), and several protocols are
  two-step (check then insert, reset then recheck, load then store).
* **Wakeups.** Twice in the code a flag saves a wakeup: the watcher's status and
  `bNotified`. An event must never wait with nobody about to look.
* **Shutdown.** `eventIO_stop`, `service_stop` and the callbacks may run
  anywhere and at the same time; everything is reference counted and freed by
  whoever comes last.
* **Reuse.** Slots, IDs and names are used again; memory the table grows into is
  not cleared.
* **Handles that race.** A channel, a connector and a query each keep a
  connection and a timer in atomic words; the loop, the timer's thread and the
  service exchange them for zero, and whoever gets one must finish with it.
  Reading one without taking it is unprotected.
* **Partial failure.** A service's start function may fail after the service
  has become visible; a send may take only part of a write, or none; one loop of
  a port may fail to listen; a coroutine may fail while others wait in its call
  of `resume`.
* **Timeouts.** Every answer from the network races a timer, and a close with a
  timeout races the close that it asked for.
* **Boundaries.** Lengths change their encoding at 31, 255, 0xffff; rings wrap;
  sequence numbers wrap.

### What makes each component correct

* mailbox: the callback is never entered by two threads; events in order, none
  twice, none forgotten; nothing after the stop event; freed in the end;
* center: no slot lost or shared; an ID leads to the service it was issued for,
  or to none; a service lives as long as somebody can reach it;
* event loop: no sleep on a waiting event; each event handled exactly once, in
  order for one target; the loops leave before the dispatcher; everything freed;
* timers: fire at most once per period and never after the stop has been seen,
  close once, be freed once, leave the heap in order;
* channels and connections: counts that are the holders', each write reported
  once, a close that closes, a peer's leaving noticed, bytes in order;
* ports: one connection per UDP peer, silence after the close;
* connectors, DNS: one outcome at most, and one in the end;
* Lua core: every call is answered once at most, to the coroutine that waits for
  it, and none waits for ever unless its callee forgot it;
* process and monitor: a wait returns, nothing runs after it, no false alarm;
* codecs, queues: what is read is what was written, no frame outgrows its room;
* locks: a writer excludes everybody, no bit is left behind.

## 2. The plan

Order of work, the most important behaviour first. All modules of the plan are
written and the theorems of its last column proved; what no prover can reach is named
in section 5.

| # | modules | abstract specification | runs | proofs |
|---|---|---|---|---|
| 1 | `ServiceMailbox` | `Mailbox` | `mailbox_safety`, `mailbox_quiet`, `mailbox_assert` | typing, token, serial callbacks, wakeups, faults, `ImplementsMailbox`: done |
| 2 | `SlotTable`, `ServiceCenter` | - | `service_center` | slots, IDs, references, names: done |
| 3 | `EventIO` | `Executor` | `eventio_safety`, `eventio_liveness` | typing, no lost wakeup, references, `ImplementsExecutor`: done |
| 4 | `Timer` | - | `timer` | references, callbacks, timeouts: done |
| 5 | `Connection`, `SendPath` | sequence of writes (`ReportsInOrder`) | `channel`, `data`, `wire` | references, reports, faults of `Connection`, `ReportsInOrder`: done; `WireInOrder` does not hold |
| 6 | `ServiceCore` | - | `core` | tables, `QueuesServed`, `AnswersMatchCalls`: done |
| 7 | `Connector`, `ListenPort`, `DnsResolve`, `Environment` | - | `setup` | counts, answers, peers, alarms: done |
| 8 | `ChannelCenter` on `SlotTable`, `SpinLocks` | - | `data` | old IDs, exclusion: done |
| 9 | `ByteQueue`, `Msgpack`, `Frames` | sequences, reference definitions | `data` | `ByteQueue`: done; the others are recursive |

Runs stay at a dozen and each has a question of its own; where two modules can
share an instance they do: `data` and `setup` choose one of several independent
parts in the initial state, and the others stay as they were made.

## 3. The modules

### ServiceMailbox

One service, its watcher, the threads that send, the loop threads, and the thread
that starts it. The state is the fields of `service_s` and `eventWatcher_s`, a
program counter per thread, the local queue of `doPendingFunctors` per loop
thread, and history variables: what entered the mailbox (`accepted`), what the
callback was given (`delivered`) and the service's `phase`. A step is one atomic
operation, one critical section, or one unlocked access.

| actions | code |
|---|---|
| `Gain`, `EnqueueCheck`, `EnqueueCount`, `EnqueueInsert`, `Release` | `serviceCenter_gain`, `service_enqueue`, `service_release` |
| `NotifyRead`, `NotifyCas`, `PostQueued` | `service_notify`, `eventWatcher_notify`, `eventIO_postQueued` |
| `StartBegin`, `FnStartFails`, `FnStartSucceeds`, `WatcherStart`, `WatcherStartRef`, `StartReturn` | `service_start`, `eventWatcher_start` |
| `CallStop`, `StopPut` | `service_stop` |
| `Take`, `Claim` | `eventIO_doEvents`, `inLoop_eventWatcher_notify` |
| `Drain`, `NextEvent`, `CallbackReturns`, `BatchDone`, `YieldReset`, `EmptyReset`, `Recheck`, `Reset` | `doPendingFunctors`, `eventWatcher_reset` |
| `Detach`, `StopReset`, `StopClose`, `StopPost`, `StopRelease` | the stop event in `service_eventCallback`, `eventWatcher_close` |
| `AssertFails`, `UseAfterFree`, `Crash` | `assert(bRunning)`, a dereferenced NULL, an access to freed memory |

A process that dies is a state (`fault`), not a state left out: properties can
say when that may happen. `service_waitForCount` depends on `s_iWaitforService`,
which nothing in the code increments; `YieldReset` is in the model for either
answer.

### Mailbox

The promise: events are delivered one at a time in the order they entered, until
the stop event closes the mailbox. `ImplementsMailbox` says that `ServiceMailbox`
keeps it, through the history variables.

### SlotTable, ServiceCenter

`SlotTable` holds what the two tables of the code share: the free stack, the
growth, the partition into free and taken slots. `ServiceCenter` is the table, the
tree of names, each service's `uiServiceID` and reference count, and the threads
that gain and release. Each operation is one step, for each is one critical
section; `SetID`, `Leave` and `Release` are the steps of `service_start`, the stop
event and `service_release` that happen outside it, and `UnbindName` works on what
a separate `FindName` returned. What memory holds that the growth did not clear
(`mem_realloc` without `bzero`) is the constant `Garbage`, or NULL, chosen
freely. `doubtful` is a history variable: the IDs under which the code can leave
a name behind; `NamesFollowServices` is about all the others.

### EventIO

One eventIO from `eventIO_start` to its release: the loops, the dispatching
thread, and other threads. `uiCocurrentThreads` is chosen in `Init`, so one run
covers the mode in which the dispatching thread runs the loop itself, and the
mode with one and with two loop threads. `call` says where each thread is inside
a call; the callbacks of events are the states `work` of a loop and of the
dispatcher, from which they make calls themselves.

| actions | code |
|---|---|
| `PostCheck`, `PostInsert`, `PostWrite` | `eventIO_postQueued` |
| `QueueInLoop`, `NotifyLoad`, `NotifyStore`, `NotifyWrite` | `eventIOLoop_queueInLoop`, `wakeupEvent_notify` |
| `QueueInMain`, `RunHere` | `eventIO_queueInLoop`, `eventIO_runInLoop`, `eventIOLoop_runInLoop` |
| `CallStop`, `StopInsert`, `CallEnds` | `eventIO_stop`, `eventIOLoop_stop` |
| `Poll`, `WakeRead`, `WakeStore`, `Take`, `PoolRead`, `TakePool`, `Run`, `WorkEnds`, `PollAgain` | `eventIOLoop_threadRun`, `eventIOLoop_main`, `wakeupEvent_handleEvent`, `eventIOLoop_doEvents`, `eventIOLoop_queuedEvent`, `eventIO_doEvents` |
| `ClearCancel`, `Close`, `LoopStop`, `LoopRelease` | `eventIOLoop_clear`, `eventIO_loopStop` |
| `StartLoop`, `StartEnds` | `eventIO_start` |
| `Dispatch`, `MainTake`, `MainRun`, `MainWorkEnds`, `MainDrain`, `LoopReturns`, `PoolDrain`, `DispatchReturns`, `OwnerReleases` | `eventIO_dispatch`, `eventIO_release` |

Where `eventIOLoop_clear` empties the queue without its lock, `Put` may lose what
is inserted (the outcomes of that race). `Executor` is the abstract
specification: targets with queues, a pool, and for each event one fate.
`ImplementsExecutor` shows that `EventIO` implements it.

### Timer

The timers of one service: the Lua handle (`ltimerWatcher_t.c`), the
`timerWatcher`, the `eventTimer` and the heap of the dispatching thread. `single`
chooses between one thread (`uiCocurrentThreads` = 0, where `eventIO_runInLoop`
runs its argument at once: `inline`) and two (where it goes through `queue`).
`todo` is what the dispatching thread still has to do of the handler it is in: call
`fn`, call the close callback, release. The service's steps interleave with these.

| actions | code |
|---|---|
| `Start` | `lservice_context_timeout`, `_runAfter`, `_runEvery` down to `eventTimer_start` |
| `StopCas`, `StopInsert`, `StopDrop`, `StopRelease` | `ltimerWatcher_stop`, `ltimerWatcher_gc`, `timerWatcher_stop`, `eventTimer_stop` |
| `EventBegin`, `EventEnd` | `service_eventCallback` for the two timer events; between them the callback may start and stop timers |
| `Work`, `WorkInline` | `inLoop_eventTimer_start`, `_cancel`, `_stop` |
| `Fire` | `eventIO_runTimers`, `eventTimer_run` |
| `Triggered`, `Closed`, `Released` | `eventTimer_onTriggered`, `timerWatcher_eventTimer_onClose`, `eventTimer_release` |
| `ServiceStop`, `EventIOStop`, `Return` | `service_stop`, `eventIO_stop`, the end of `eventIO_dispatch` |

Times are left out: a timer in the heap may be due at any moment. `service_enqueue`
is one step here; that a sender may be overtaken by `service_stop` between its check
and its insertion is the subject of `ServiceMailbox`.

### Connection

One established connection and the channel on top of it, from the ACCEPT or CONNECT
event to the last release. Three threads: the loop of the connection, the service
(on a thread of its own or, `here`, on the loop's, where `eventIOLoop_runInLoop`
runs at once), and the thread of the disconnect timer. `mem` holds both reference
counts and what was used after its last release; `queue` what waits in the loop;
`reports` what the service was told of each write.

| actions | code |
|---|---|
| `Callback`, `Bind`, `BindEnds` | the ACCEPT callback, `lservice_context_remoteBind`, `channel_bind`, `eventConnection_bind` |
| `Write`, `WriteEnds`, `Query`, `QueryEnds`, `LuaAddref`, `LuaRelease` | `remoteWrite`, `channel_send`, `eventConnection_send`, the queries and references of `lchannelExt_t.c` |
| `CloseNow`, `CloseNowTakes`, `CloseNowForces`, `CloseSlowly`, `StartTimer`, `CloseAsks`, `CloseReturns` | `remoteClose`, `channel_close` without and with a timeout, `eventConnection_close`, `_forceClose` |
| `TimerRun`, `TimerTakes`, `TimerCloses` | `eventTimer_onDisconnectTimeout` and the timer's close callback |
| `LoopRun`, `LoopCancel` | `inLoop_eventConnection_bind`, `_close`, `_forceClose`, `eventAsyncSend_send`, and the cancels when the loop stops |
| `Writable`, `ReadFails` | `eventConnection_handleEvent`, `eventConnection_sendCompleteCallback` |
| `OnClose`, `CloseEnds` | `eventConnection_handleClose`, the channel's close callback, the last release |
| `PeerLeaves`, `Stop` | the other end, the end of the loop |

The code releases some references once too often: `ChanSurplus` and `ConnSurplus`
name these releases one by one (a second `remoteClose`, `eventConnection_onUserFree`,
the disconnect timeout, a bind that was cancelled), and `RefsMatchHolders` says that
there are no others. `FaultsOnlyAtTheEnd` says when they can do harm.

### SendPath

The bytes behind `Connection`: writes in one piece or in several
(`createEventBuf`, `createEventBuf_move`), the socket that takes any part of what it
is offered, the queue `queueWritePending`, the batch of `writev`, the counters. A
byte is a pair of its write and its position, so that a byte lost, repeated or out of
place shows on the wire. `nLength` is one running total for the writes of several parts and
starts anew at each write in one piece, in `Completed` and in `DropAll` alike.

### ServiceCore

Lua services, their coroutines and their calls. The state of a service is the
tables of `serviceCore.lua`: who waits for a token, whom a coroutine owes a reply,
the responses put off, the two queues, the pool of coroutines, and the nesting of
`resume` (`calls`): when a coroutine yields, `suspend_f` wakes a sleeper and cancels a
call *inside* the call that resumed it, and an error unwinds all of that. One step is
one event, one resume, or one operation of user code. User code is any sequence, up
to `MaxOps` in all, of the operations of its program; a program is a subset of the
operations. Coroutine names are finite; an ended coroutine's name is used again, as
the pool of the code does. Tokens only count up: the code's start again at 1 after
`0xffffffff` (`lservice_t.c:79`), which the bounds do not reach.

A call is addressed to a service's ID or to a name bound to it (`Addresses`), and `IdOf` is
what `lservice_t.c` finds the address to stand for. `serviceCore.lua:398` watches the
address *as it was passed*, while a close comes with the ID of its sender
(`serviceCore.lua:235`): a call by name, such as the one of `serviceCore.launch`, is not
cancelled when its callee closes it or exits. It then waits for ever, and the history
variable `dropped` notes it, as it does the other calls that a callee forgets.

| actions | code |
|---|---|
| `Dispatch` (`Answer`, `StartHandler`, `Close`, `Stop`) | `service_callback`, `event_msg_dispatch_f`, `eventDispatch_f`, `close_dispatch_f` |
| `RunAsync`, `Wake`, `Cancel` | `serviceCore.dispatch`, `dispatch_wakeup_f`, `dispatch_watching_cancel_f` |
| `Call`, `Send`, `Reply`, `ReplyClose`, `Redirect`, `GenResponse`, `Respond` | `serviceCore.call`, `ping`, `send`, `replyBuf`, `replyClose`, `redirectCallBuf`, `genResponse` |
| `Sleep`, `Wakeup`, `Async`, `Timeout`, `Term`, `Exit` | the functions of the same names, `wait`, and the awaited connects and writes |
| `Return`, `Fail` | the end of a handler, an error in it (`co_create_f`, `suspend_f`) |
| `Fires` | a timer, a connector or a write that answers |

### Connector, ListenPort, DnsResolve

One attempt to connect, one listening port, one query. Each module has the service,
the loop(s) and the timer as separate threads, splits a handler wherever it takes a
handle and uses it later, and records in a history variable which of the orders of
steps happened after which the code's counts are known to be off (a stopped service
that refuses a connection, a timeout that fires before `eventConnection_connect`, a
port that failed to listen). c-ares is external: what it does between its callbacks is
one datagram out, one in.

In `Connector` the eventIO may be stopped at any time. A connect that the loop finds queued
after that is cancelled, and then the loop leaves (`CancelConnect`, `LoopClears`). The start
of the timeout goes through the dispatching thread's queue (`TimeoutStarts`); after
`eventIO_stop` it is cancelled there, which drops the timer without its close callback and
with it the reference to the connector. `DispatcherLeaves` is `eventIO_dispatch` returning
with whatever is left in the heap. `AttemptEnds` excepts these two ends of the timer and
nothing else of the shutdown: a timer that still runs must end the attempt, also after
`eventIO_stop`.

### Environment

The process: `mainPc` is the start-up script (`lenv.init`, `wait`, `stop`, `exit`),
`thPc` the thread of `eventIOThread_t`, `where` each loop thread inside or outside the
callback of a service. Of the eventIO only that is kept which `EventIO` shows: the
loops leave once they were told to stop and are idle, and `eventIO_dispatch` returns
after them.

| actions | code |
|---|---|
| `StartThread`, `StartReturns`, `Wait`, `LenvStop`, `JoinLooks`, `JoinReturns`, `Exit` | `lenv_init`, `eventIOThread_start`, `lenv_wait`, `lenv_stop`, `eventIOThread_join`, `lenv_exit` |
| `ThreadBegins`, `RunBootstrap`, `DispatchReturns`, `ThreadStopped`, `ThreadReleases`, `HostStop` | `eventIOThreadRun`, `inLoop_bootstrap_start`, `eventIOThread_release`, `eventIOThread_stop` |
| `EnterStores`, `EnterCounts`, `LeaveStores`, `LeaveCounts` | `serviceMonitor_enter`, `serviceMonitor_leave`, one write a step |
| `CheckBegins`, `CheckLoads`, `CheckSends`, `CheckClears` | `serviceMonitor_check`, one access a step |
| `LoopLeaves`, `LenvStopByService`, `MonitorStartStop`, `MonitorTimerStarts` | the end of a loop, `lenv_stop` and the monitor's start and stop as services call them, and the start of its timer on the dispatching thread |

`lenv_stop` called by a service waits for the dispatching thread, which waits for
the service's loop: that state is in the model and `WaitReturns` excepts it. A monitor that
is started after `eventIO_stop` has the start of its timer cancelled and never checks
anything; `EndlessReported` excepts that one.

### ByteQueue, Msgpack, Frames, ChannelCenter, SpinLocks

`ByteQueue` is the ring of `byteQueue_t.c` with its indices and cells next to the
sequence it stands for; an action is an operation of `lbuffer_t.c`, of a connection's
read, or of the streams. `Msgpack` is the encoder, the decoder and the Lua binding as
operators on bytes, with 64-bit integers as eight bytes; `Pack` encodes a message and
`Cut` takes bytes off its end. The decoder works on a model of the Lua stack, as
`lmsgpack_t.c` does: `unpackValue` does not look whether `unpackTable` reached the end of a
table, and `ldecode` returns the whole stack, so that a message cut off inside a table gives
the table as far as it got and the keys and inner tables that were not yet put into theirs.
If a table was itself a value, the next assignment can miss its table; what that leads to is
undefined (`Undefined`) and decoding ends there. `Frames` has tpack, webSocket and MySQL packets and
their streams in one direction of a connection, with bytes that arrive in any pieces.
`ChannelCenter` is `channelCenter_t.c` on `SlotTable`, with the sequence in the IDs.
`SpinLocks` is `rwSpinLock_t.h` and `spinLock_t.h`, one atomic operation a step.

Where the code does not carry a message, the model does not either, and the property
names the case: `Carried` (tpack fragments with a token, webSocket lengths in the other
byte order, full MySQL packets), `FitsItsRoom` (fragments of `tpack_encode`), `Meaning`
(what msgpack gives back for values that have no form of their own).

## 4. The runs

| run | instance | asks |
|---|---|---|
| `mailbox_safety` | 2 senders with 2 sends each, 2 loop threads, stop at any time | is the callback serial, the token unique, no event forgotten, does the process die only after a stop |
| `mailbox_quiet` | 2 senders with 1 send each, 2 loop threads, stop only when nobody else is inside a call | is everything delivered and freed |
| `mailbox_assert` | as above, stop at any time | does `assert(bRunning)` hold? It does not |
| `service_center` | 4 services, 1 thread, 2 names, capacity 1, then 2, then 3 | are slots, IDs, references and names kept apart |
| `eventio_safety` | 0, 1, 2 loops, 2 threads, 2 events | no lost wakeup, no use after free, the promise of `Executor` |
| `eventio_liveness` | 0, 1, 2 loops, 2 threads, 1 event | is everything handled and freed |
| `timer` | 2 timers of any kind, interval zero or not, 1 or 2 threads, 1 event of a periodic timer in the mailbox | do references match their holders, is nothing called back after a stop, does no timeout get lost, is everything freed |
| `channel` | 2 writes, 2 closes, 3 calls in all, a peer that leaves, a loop that stops | counts and their surplus, reports of writes, does a close close, is the peer's leaving noticed (1.1 million states) |
| `wire` | 4 writes of up to several pieces, a socket that takes at most 3 bytes at a time | do bytes arrive in order? Not if a send would block |
| `data` | one structure per behaviour: the writes of `wire`; every width of msgpack integer and its neighbours, tables three deep, cut anywhere; payloads of 0 to 17 bytes with `0xffff` scaled to 8, 2 messages; a ring with up to 5 bytes; a table of 1, then 2, then 3 channels with a sequence that wraps at 4; 4 threads at a lock | reports in order, round trips, truncation, frames, ring, IDs, exclusion (2.6 million states) |
| `setup` | one part per behaviour: an attempt over TCP or UDP with or without a timeout; a port on 2 loops with 2 peers and 4 connections; a query; a process with one loop thread and 2 callbacks | counts, one answer, one connection per peer, no wrong alarm, and an end (60,000 states) |
| `core` | a client and a server that also has a name, five programs, 4 operations in all, 6 coroutine names | does each call have one answer at most, are the queues served, does no call wait for ever (850,000 states) |

**Bounds.** Two senders and two loop threads are the fewest for which two
notifications race, two loop threads race for the token, and both race a third
thread that stops the service. Two sends each let a sender meet the service again
after it has been idle. Three slots in three sizes are the fewest in which a slot
is reused after a growth and the table fills up; four services are one more than
it has room for. Two loops are the fewest for which one reads the shared eventfd
before the other and one is last to leave; two events are the fewest that have an
order. Two timers let the handlers of one interleave with the calls for the other;
a periodic timer's second event adds nothing but another reference. Two writes are
the fewest of which one can be pending when the other is sent; the second close is
the one that releases too much. Two loops and two peers are the fewest for which two
loops meet a new peer at once while another has a connection; four connections let a
peer come back. One loop thread is enough for the monitor, whose slots are independent;
two callbacks let an alarm name the one before. Four operations of user code are the
fewest for a call whose handler calls back, puts the reply off and is cancelled. The
lengths in `data` lie on both sides of every place where an encoding changes; the
bases are scaled down (`Digit`, `TpackShort`, `SocketShort`, `Fragment`), the byte
order and the flags are kept. Symmetric constants are declared so in the safety runs and nowhere in the
runs with liveness. The names of the center are numbers, not symmetric: the code
orders them.

**Deadlock** is not checked: in every instance the system comes to rest after its
stop, with bounded senders and events. Stuck states before that are what
`EventuallyDelivered`, `EventuallyHandled`, the three `EventuallyFreed`,
`EventuallyClosed`, `SetupEnds` and `CallsEnd` exclude.

**Fairness.** `FairSpec` of `ServiceMailbox` is weak fairness of each thread that
is inside a call or has a token to take: threads of the operating system that do
not wait for one another, spin locks aside. Nobody is obliged to send or to stop.
`FairSpec` of `EventIO` is weak fairness of each call that has begun, each loop
and the dispatching thread; they wait only for eventfds and a condition variable.
That callbacks return is part of it. A loop is not required to treat its
descriptors fairly: the ones that are ready are handled before it polls again.
`FairSpec` of `Timer` is weak fairness of a call or handler that has begun, and
strong fairness of taking the next event, taking the queue and firing a timer,
which compete for the same thread: queues are first in, first out, and the heap is
ordered by time, so that none is passed over for ever. A single loop runs its
timers only when no descriptor is ready (`eventIO_t.c:367`); a connection that is
ready at every poll would break that assumption.

`FairSpec` of `Connection` is weak fairness of a call that the service has begun and
of the timer's thread, and strong fairness of the loop: in the model the service may
run on the loop's own thread, which keeps the loop from going on, but its callbacks
return. `ListenPort` has the same for a loop's queue, which competes with datagrams;
`Connector` and `DnsResolve` have weak fairness of the loop, the timer and the call
that has begun, none of the network; the timer of `Connector` runs until
`eventIO_dispatch` has returned, and that it returns is not required. `Environment` has weak fairness of the script
inside a call, of the check and of a loop thread whose callback ends, and strong
fairness of the dispatching thread, which gets to its queue between two rounds of
timers. Nobody is obliged to call `lenv.init`, so that this fairness does not touch
the behaviours of the other parts of `setup`. `ServiceCore` has weak fairness of each
service with something to do, and of its timers, connectors and writes.

**The violations.** `mailbox_assert` refutes `assert(bRunning)` in
`service_t.c:288`: a sender that has seen `bRunning` before `service_stop` clears
it inserts its event behind the stop event; both are moved out as one batch, and
after the stop event the loop asserts that none follows.

`wire` refutes that a connection carries its bytes in order, which
`unittest/source/test_eventIO.cc:159` takes for granted: when the socket's buffer is
full, `writev` or `send` fails with `EAGAIN`, and `eventConnection_sendData`
(`eventConnection_t.c:809`) leaves `nRemaining` at 0, so the write is reported as
sent and dropped, and the next one follows in its place. `ReportsInOrder` in the run
`data` is what does hold of the same module: writes are reported in order, each once,
and the counters say what is pending.

## 5. The proofs

| theorem | module | statement |
|---|---|---|
| `TypeCorrect`, `TokenIsUnique`, `ServiceIsSerial` | `ServiceMailboxProofs` | `TypeOK`, `TokenUnique`, `SerialCallbacks` are invariants of `ServiceMailbox` |
| `WakeupsAreKept`, `FaultsNeedTheStop`, `MailboxIsImplemented` | `ServiceMailboxProofs` | so are `NoLostWakeup` and `FaultOnlyAfterStop`, and `ServiceMailbox` implements `Mailbox` |
| `GrowthKeepsPartition` and its neighbours | `CenterProofs` | popping, pushing and growing keep the partition of `SlotTable` |
| `SlotsArePartitioned`, `IdsLeadBack`, `NothingDangles`, `NamesAreKept` | `CenterProofs` | `SlotsPartitioned`, `IdsLeadHome`, `NoDangling`, `NamesFollowServices` are invariants of `ServiceCenter` |
| `TypeCorrect`, `NoLoopOversleeps`, `NothingIsFreedEarly`, `FreedByTheLast` | `EventIOProofs` | `TypeOK`, `NoLostWakeup`, `NoUseAfterFree` are invariants of `EventIO`, and the count is 0 exactly when all are out |
| `ExecutorIsImplemented` | `EventIOProofs` | `EventIO` implements `Executor` (`ImplementsExecutor`) |
| `ByteQueueIsSequence` | `EventIOProofs` | `QueueIsSequence` is an invariant of `ByteQueue` |
| `WritesReportedInOrder` | `EventIOProofs` | `ReportsInOrder` is an invariant of `SendPath` |
| `InvHolds`, `RefsAreExact`, `NoCallbackAstray`, `TimeoutsArrive` | `TimerProofs` | `RefsMatchHolders` and `NoTimeoutLost` are invariants of `Timer`, and no step of it breaks `NoStrayCallback` |
| `ConnectionInvHolds`, `HoldersOfConnection`, `WritesAreReportedOnce`, `ChannelsOutliveConnections` | `ConnectionProofs` | `RefsMatchHolders`, `ReportedOnce`, `FaultsOnlyAtTheEnd` are invariants of `Connection` |
| `LocksWork`, `StaleIDsAreMissed` | `CenterProofs` | `LocksExclude` is an invariant of `SpinLocks`, `StaleIDsMiss` of `ChannelCenter` |
| `TablesInOrder`, `QueuesAreServed` | `ServiceCoreProofs` | `QueuesServed` is an invariant of `ServiceCore`, if names of coroutines never run out |
| `AnswersMatch` | `ServiceCallProofs` | so is `AnswersMatchCalls`, under the same assumption |
| `SetupInvHolds`, `HoldersAreCounted`, `NobodyIsAnsweredTwice`, `PeersHaveOneConnection`, `AlarmsAreDeserved` | `SetupProofs` | `Counted`, `AnsweredOnce`, `OneConnectionPerPeer`, `AlarmsAreRight` are invariants of `MCSetup` |

They hold for all values of the constants, from the named assumptions in the
modules: thread sets are disjoint, marks such as `Stop` and `NULL` are none of the
values they are kept apart from (`StopIsNoTarget`: `Stop` also names the shared queue among
the targets of `Executor`), capacities are ordered. TLC evaluates those
assumptions in the runs. The theorems about `ServiceCore` have one hypothesis more,
`Unlimited`: above every number there is the name of a coroutine, as in
`Cos = Nat \ {0}`. A new coroutine of the model takes a name that nothing mentions, and
Lua never lacks one; in the finite instance of the run `core` the programs are short
enough for its six. What they assume of addresses is `NamesAssumption`: a name is no ID and
stands for one service, and an ID stands for itself.

**Serial callbacks.** A loop thread can be inside the callback only while it holds
the token. That the token is unique is not inductive: the invariant must also say
which program counters go with which status of the watcher, and that the status
returns to idle only by the holder. After the stop event's reset the code does let
a second thread in; `SerialCallbacks` is therefore about the calls of the callback
itself, and the invariant tells the two apart by `pEventWatcher`.

**Delivery.** What the refinement needs of the mailbox is where the events are
(`FifoInv`): what was accepted is what was delivered, then the rest of the batch of the
loop thread that runs, then the queue, in this order. That holds only because a batch
belongs to the thread with the token (`BatchInv`), because the queue's size is never
behind what is to be handed out (`CountInv`, counted with the senders between their
increment and their insertion), and because an event that waits has somebody who will
look (`NoLostWakeup`, inductive together with these). No event is accepted twice
(`FreshInv`), which makes the history sequences say what they seem to. Until the stop
event is processed the service has a reference for each sender inside (`RefInv`), so no
fault can come earlier.

**The table.** The invariant adds to the partition that a registered service sits
in exactly one slot, that `uiServiceID` is 0 or one more than the index of that
slot, and that the IDs issued lie in the table. `NothingDangles` counts: the number
of references is at least the number of slots and holders; its proof works with
the cardinality of the set of holders.

**No lost wakeup.** `NoLostWakeup` speaks of a loop that waits. What is inductive
covers every place where a loop may be: `bNotified` set means that the eventfd is
readable or a write is on its way (`NotifiedBacked`), except between the loop's own
read and reset; a queue that is not empty has somebody who will wake the loop
(`QueueBacked`), except where the loop is about to take the queue anyway; and
before `eventIO_start` is over nobody stirs. The pair is what makes skipping the
write sound when `bNotified` is already set.

**References of the eventIO.** `iRefCount` is the number of loops that are inside, the
queued stops, the owner and the dispatching thread (`RefInv`, on top of the typing and of
the wakeups' invariant, which say where each of these is). The proof works with the
cardinality of the set of loops inside, of which each step takes away one at most.

**The promise of the eventIO.** The invariant behind `ImplementsExecutor` (`EventInv`)
adds to the typing, the wakeups and the references where the events are. No loop ends, and
no `Stop` is in a queue, before `eventIO_stop`; `eventIO_dispatch` does not leave before
the loops have (`EndInv`): otherwise a target could close, or cancel what it has, while the
abstract phase is still running. A batch is empty outside `doEvents` (`BatchesDone`), so
that taking a queue appends to nothing and keeps the order. The places of an event are the
batch and the queue of each target and the shared queue: it is in one of them at most, and
where it is tells what has become of it (`PlacesInv`) - in the shared queue it is posted
until that queue has been emptied and too late afterwards, in the queue of a closed loop it
may be both. An event that `eventIO_postQueued` has let through is in no place and in no
other call until it is inserted (`PostInv`), and who makes a call is still inside
(`CallingInv`). Each action is one of seven effects on places and fates (`Receives`,
`Moves`, `Loses`, `Empties` and so on); one lemma per effect says what it does to the
pending sequences and the pool, and one per step of `Executor` that such a change is that
step. What the mapping chooses from a queue is a recursive function, and what it is of a
queue with an element more or less is shown by `StepByStep` and `SameSteps`, described
below with the writes. `eventIOLoop_clear`, which may lose an insertion, is covered: what it
may lose came too late.

**Timers.** `RefsCounted` counts a watcher's and a timer's holders among the handle, the
queues, the heap, what the dispatching thread has left to do and the mailbox. It needs
to know that a timer is in one of these places at a time and closed once (`ClosedOnce`),
that the handle and `pEventTimer` agree except inside `ltimerWatcher_stop` (`HandleKept`,
`StopInv`), and that a timer that nobody asked for is nowhere (`Untouched`). `FiredOnce`
and `TimeoutKept` follow the one event of a timer that fires once. The occurrences of a
timer in a queue are counted by lemmas on appending, taking the head and dropping.

**Connections.** The two counts of `RefInv` are written as the sum of what each side
holds: the service, the connection's bind and the timer of the channel; the channel,
the loop, the queue and whoever took the connection away of the connection. Each action
moves a share and the count by the same amount (`Moves`), so that a step is settled by
the shares it touches; the last release of a bound connection lets go of the channel,
center's and surplus release together, which is why the channel's count is compared
without them (`Owned`). `Moves` also says that what was alive before and after a step was
alive within it, and with `AliveInTime` (a channel that is closed once and in time has a
holder) that gives `FaultsOnlyAtTheEnd`. Besides, the invariant needs that nothing is asked
of the loop before the bind and that the bind comes first in its queue (`OpenInv`,
`QueueInv`), and that a closed socket is `eDisconnected` until a late bind says otherwise
(`SocketInv`). `Writes` is about the sequences alone: a write taken on is in one place
at most, pending or queued, and has as many reports as it is in none; lemmas say what
appending, taking the head and reporting do to it.

**Locks and old IDs.** `iBits` is four times the number of readers, those that back out
and those of a downgrade included, plus the two bits (`BitsInv`); the upgrader's bit may
belong to a try that fails beside a writer. For the channels, the last IDs given out carry
the numbers just before `iSequence`, round the corner at 1 (`Recent`), so that equal
numbers are a whole sequence apart (`Apart`); with the slot, the returned ID and the
channel's own in agreement (`Placed`) an old ID cannot meet its number again too early.

**A byte queue.** `InItsCells` says of the ring what `QueueIsSequence` says of its reads:
every byte of the sequence is in its cell, counted from the read index and round the end
(`Stands`), and the read index is at the end only of a queue that is empty or of a view
(`Ring`), which is what tells a full queue from an empty one. A lemma says for each
operator what it does to the sequence: reading takes off the front, writing appends in one
part or in two, growing and shrinking change nothing. A line is found in two parts too;
that the first part had no line end, or one that is not a CRLF, is what the search in the
second must not forget (`InFirst`, `InSecond`). The theorem holds for every alignment,
capacity, text and offset of a search. It says nothing of what follows a search that
strays in front of the buffer (`ReadLineStrays`), after which the model stops.

**The writes of a connection.** What `ReportsInOrder` says needs little to be inductive
(`SendInv`): that the queue is empty unless the handle waits for a writable socket, so that
a write that is reported at once passes nothing that waits. The work is in the sums. A sum
is a function of the elements so far, and what holds of such functions is shown once:
there is one with the given first value and steps (`StepByStep`), and two with the same
ones are equal (`SameSteps`), each by the least number at which it would fail. From that
come the sum of a sequence with an element more (`SumOfAppended`) and of what is left when
the first ones are gone (`SumOfRest`). `Completed` splits the queue at some point, wherever
`nWritten` puts it (`CompletedFits`); without writes of several parts `Lengths` are the
lengths of the writes (`PlainLengths`), and the counter loses what the queue loses. With
them it is off, as the code keeps `nLength` from one write to the next and subtracts
numbers of parts, and the theorem claims nothing of it.

**Setting up.** Each part has its own inductive invariant, and a step of one leaves the
other three. `Connector` (`OrderInv`): what a handle that is still there excludes, what a
queued close implies for the socket and the status, which is why the task, the poller, the
loop, the queued event and the channel are never two holders where the code has one
reference; it is stated for the behaviours without the four races that `ConnectorCounted`
names, while `TakenInv` and with it `OneAnswer` hold in all of them. `ListenPort`: a loop
with a handle has been looked at by the closing owner exactly if its close is queued
(`LoopsInv`), and the map is the set of peers with a connection, made or being made
(`PeersInv`). `DnsResolve`: how far the query's socket, its queue and its timer have come
together (`SocketInv`). `Environment`: the status and the program counters of the
eventIO's thread (`ThreadInv`), and for each slot of the monitor that a noted version
belongs to the callback the thread is in (`SlotInv`).

**The tables of a Lua service.** `QueuesServed` says that a service that has finished with
an event leaves nothing queued. Why is seen only in the middle of things (`Serving`):
while a coroutine runs, each `suspend` has left a pair of calls of `dispatch_wakeup_f` and
`dispatch_watching_cancel_f` on the stack that serve both queues to their end, and a
coroutine that fails takes only its own part of the stack with it. The calls get to the
end of a queue only if what they resume can be resumed: that a token leads to a coroutine
that waits for it or to a mark, that a sleeper's token leads back to it, that whatever is
queued is in the state in which `resume` takes it, and that no table holds anything twice
as long as nothing was queued twice (`Sound`, made of `Placed` and `Linked`; `InOrder` collects
these for a service, `CoreInv` adds the types). `Few` says that the coroutines that are
mentioned have numbers below some bound: a new one is then one that nothing mentions,
which is where `Unlimited` is used. Each operation is split in the effects it is made of,
such as a coroutine that is created, resumed, suspended or ended, and each effect has a
lemma of its own.

**Calls and answers.** `AnswersMatchCalls` counts where a call is. Inductive is a stronger
statement about each call and each timer (`CallInv`). It is in one place at most, and
there once (`OnePlace`): asked for in a mailbox, owed by a coroutine, deferred to a
response, given back in an answer, or armed as a timer. What is on its way has a token
that was given out and a coroutine that waits for it, or was cancelled; a call has a
service that is watched, a timer has none, so that an answer of another service cannot
meet the token of a sleeper (`Expected`). A call that waits is on its way, about to be
cancelled, or forgotten by its callee or closed by it in vain (`Kept`): the close of a service
cancels what watches its ID, and what watches its name is then among the forgotten. Three things are needed besides. A
coroutine in the pool or not begun owes no reply (`Owers`), otherwise the next user of it
would answer a call of the last. The stop event is the last in a mailbox and only an
exiting service has it, so that nothing is behind it to be lost (`Ordered`). A service
that has stopped is quiet and has no timers (`AtRest`). The lemmas say what a step does to a
call from outside, by the places it adds and removes: a step that moves nothing
(`StepCalls`), that takes an event (`HeadTaken`), that settles a token (`SettledCalls`);
each action is one of these, or a few in a row.

**How they were found.** Every invariant was evaluated by TLC on the states of the
configurations' instances first; those of `Connector` and `DnsResolve` were also checked
to be inductive on all states of their types that satisfy them, before a proof was begun.
Those of `ServiceCore` held in the run `core` and, before calls by name were added, in an
instance with all operations in one program (2.56 million states).

**Only model-checked.** Everything under fairness, for liveness and `ENABLED` are out of
the prover's reach: the `Eventually...` properties, `SetupEnds`, `PeerCloseNoticed`,
`CallsEnd`. What the recursive definitions of `Msgpack` and `Frames` compute for every
input (`PackedIsUnpacked`, `CutShortGivesNothingElse`, `MessagesArriveWhole`): these
modules declare `RECURSIVE` operators, and their properties would need induction over data.

## 6. What is not modelled

Listed per component in `PROJECT.json`. Left aside for good: the Windows back end
(a second implementation of the same interface), the kqueue and select pollers,
wrappers of OpenSSL and of pthread, parsers of MySQL results, Redis and HTTP, logging
and files, the unfinished lock step code, the caches of Lua code and tables
(`lloadCache_t.c`, `lsharetable_t.c`), scripts of services and examples, and
everything under `dependent/`, `cmake/` and `tools/`.

Left out of modelled components: `runEvery` and `queueLock` of `serviceCore.lua`, its
helpers `channelPool` and `channelBlock`, the filter of `recvFrom`,
`eventListenPort_postAccept` as a call of its own, the length of the timers' waits,
and branches that no caller can reach.

Hazards that are known and have no property, because the part of the code they are in
is left out or a property would say no more than the line does:

* a single loop runs its timers only when no descriptor is ready (`eventIO_t.c:367`);
* a start of a timer that the shutdown cancels drops its reference without the close
  callback, and what the timer belongs to stays (`eventTimer_t.h:97`): `Timer`, `Connector`
  and `Environment` model it, and none claims that it is freed;
* `serviceCenter_clear` reads the ID of every slot that is not NULL, also of the slots that a
  growth left uninitialised (`serviceCenter_t.c:209`): an undefined read in the last step of
  the table, left out of `Clear`;
* a token of `runEvery` may be used again while its timer runs, and `stopRunEvery`
  calls the function (`serviceCore.lua:431`, `451`);
* `service_release` does not free the events behind the stop event (`service_t.c:351`);
* two services that call `lenv.monitorStart` at once may both start a timer
  (`serviceMonitor_t.c:101`): in `Environment` a start is one step.

Within the modelled components: an event's dispatch to its handler is one step;
failures of allocation, of eventfds and of threads to start are not modelled (the
code checks none of them, or ends the process); memory is sequentially consistent,
which the default order of C11 atomics gives for atomic fields, while the plain
fields the code reads without a lock (`pEventWatcher`, `s_pServiceCenter`)
are taken as atomic words.
