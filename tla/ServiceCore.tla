----------------------------- MODULE ServiceCore -----------------------------
(***************************************************************************)
(* The coroutines of Lua services and the calls between them:              *)
(* serviceCore.lua on lservice_t.c.  A service takes one event at a time   *)
(* (its mailbox is the subject of ServiceMailbox); an event resumes a      *)
(* coroutine, and whenever a coroutine yields "SUSPEND" the service wakes  *)
(* a sleeper and cancels a call, nested inside the call that resumed it.   *)
(* The functions that coroutines run are user code: any of the operations  *)
(* of serviceCore that the programs have at their disposal, in any order,  *)
(* at most MaxOps of them altogether.                                      *)
(***************************************************************************)
EXTENDS Integers, Sequences, FiniteSets, SequencesExt

CONSTANTS
  Services,   \* the services, by their IDs
  ServiceNames, IdOf,  \* the names bound to services, and the ID that an address stands for
  Handles,    \* the services that have set handlers for eventCall and eventSend
  Cos,        \* names for the coroutines of a service, numbers
  Programs,   \* the sets of operations of which the user code of a behaviour uses one
  MaxOps      \* bound: operations of user code

ASSUME HandlesAssumption == Handles \subseteq Services
ASSUME CosAssumption     == Cos \subseteq Nat \ {0} /\ 1 \in Cos
ASSUME MaxOpsAssumption  == MaxOps \in Nat

Nobody == 0
BREAK  == -1

ASSUME ServicesAssumption == Nobody \notin Services

\* What user code may address: an ID, or a name, which the C functions look up.  A name
\* stays bound to its service.
Addresses == Services \union ServiceNames

ASSUME NamesAssumption == /\ Nobody \notin ServiceNames /\ ServiceNames \cap Services = {}
                          /\ IdOf \in [Addresses -> Services]
                          /\ \A s \in Services : IdOf[s] = s

Tokens == 1 .. (MaxOps + 1)  \* an operation takes one at most, start takes the first

VARIABLES
  core,       \* the tables of each service, its coroutines and its call stack
  inbox,      \* its events: [ev, source, token]
  status,     \* running, exiting (service_stop was called), stopped
  armed,      \* tokens of its timers, connectors and writes that are still to answer
  uses,       \* the operations of this behaviour's user code, the same for ever
  ops,        \* how many of them were done so far
  dropped,    \* history: the calls <<service, token>> that their callee forgot
  cancelled,  \* history: the calls that their caller gave up
  twice       \* history: the services where a wakeup or a cancel was queued twice

vars == <<core, inbox, status, armed, uses, ops, dropped, cancelled, twice>>

\* serviceCore.start: the first coroutine is created and waits for its eventYield.
Fresh ==
  [running   |-> Nobody,                                \* running_co
   at        |-> [c \in Cos |-> IF c = 1 THEN "new" ELSE "none"],  \* where a coroutine is
   pool      |-> <<>>,                                  \* coroutineReuse_t
   calls     |-> <<>>,      \* the calls dispatch_* that are still to be made, innermost first
   asyncQ    |-> <<>>,                                  \* asyncQueue_t
   wakeupQ   |-> <<>>,                                  \* wakeupQueue_t
   cancelQ   |-> <<>>,                                  \* cancelWatchingQueue_t
   uiToken   |-> 1,                                     \* lserviceContext_s.uiGenToken
   tokenTo   |-> [t \in Tokens |-> IF t = 1 THEN 1 ELSE Nobody],   \* tokenToCoroutine_t
   watching  |-> [t \in Tokens |-> Nobody],             \* watchingTokenToAddress_t
   sleeping  |-> [c \in Cos |-> 0],                     \* sleepCoroutineToToken_t
   owed      |-> [c \in Cos |-> <<>>],                  \* coroutineToAddress_t, coroutineToToken_t
   responses |-> {}]                                    \* responseToAddress_t

Init == /\ core = [s \in Services |-> Fresh]
        /\ inbox = [s \in Services |-> <<[ev |-> "answer", source |-> s, token |-> 1]>>]
        /\ status = [s \in Services |-> "running"]
        /\ armed = [s \in Services |-> {}]
        /\ uses \in Programs /\ ops = 0 /\ dropped = {} /\ cancelled = {} /\ twice = {}

-----------------------------------------------------------------------------
(* Coroutines *)

\* co_create_f: one from the pool, or a new one (under a name that nothing mentions).
NewCo(v) == IF v.pool # <<>> THEN Last(v.pool)
            ELSE CHOOSE c \in Cos : v.at[c] = "none" /\ ~Contains(v.wakeupQ, c)

Created(v, as) == [v EXCEPT !.at[NewCo(v)] = as, !.pool = IF @ = <<>> THEN @ ELSE Front(@)]

\* co_resume_f
Resumed(v, c) == [v EXCEPT !.running = c, !.at[c] = "running"]

\* suspend_f of "SUSPEND": dispatch_wakeup_f and dispatch_watching_cancel_f are called
\* inside the ones that are under way.  With both queues empty all of them just return.
Chained(v) == [v EXCEPT !.calls = IF v.wakeupQ = <<>> /\ v.cancelQ = <<>> THEN <<>>
                                  ELSE <<"wakeup", "cancel">> \o @]

Suspended(v, why) == Chained([v EXCEPT !.at[v.running] = why, !.running = Nobody])

\* The function of a coroutine returned: it forgets the reply that it owes, and goes
\* to the pool.
Ended(v) == Suspended([v EXCEPT !.owed[v.running] = <<>>, !.pool = Append(@, v.running)], "pooled")

\* The function raised an error: suspend_f forgets the reply too, and throws away every
\* call under way up to the pcall of dispatch.  What the calls would have done is left
\* to a coroutine with nothing to do, for it yields "SUSPEND" as well.
FailedSilently(v) == [v EXCEPT !.owed[v.running] = <<>>, !.at[v.running] = "none",
                               !.running = Nobody, !.calls = <<>>]

Failed(v) == LET w == [v EXCEPT !.owed[v.running] = <<>>, !.at[v.running] = "none",
                                !.running = Nobody, !.calls = <<>>]
             IN  [Created(w, "idle") EXCEPT !.asyncQ = Append(@, NewCo(w))]

\* The calls whose reply coroutine c of s owes.
Owes(s, c) == {<<o[1], o[2]>> : o \in {core[s].owed[c]} \ {<<>>}}

-----------------------------------------------------------------------------
(* Messages *)

Event(kind, source, token) == [ev |-> kind, source |-> source, token |-> token]

Accepts(s) == status[s] = "running"

\* lserviceContext_send: a service that was stopped takes nothing.
Sent(q, to, e) == IF Accepts(to) THEN [q EXCEPT ![to] = Append(@, e)] ELSE q

\* lservice_context_sendClose: the test of the token is the wrong way round, so that
\* every close has the token 0, which stands for all calls to this service.
SentClose(q, from, to) == Sent(q, to, Event("close", from, 0))

\* The close of a call that its caller does not watch here ends nothing; nor does that
\* of a call by name, for the caller watches the name and the close comes with the ID.
Misses(s, owing) == {o \in owing : core[o[1]].watching[o[2]] # s}

Tables(s, v) == core' = [core EXCEPT ![s] = v]

-----------------------------------------------------------------------------
(* What a service does with its events and between them *)

Busy(s) == core[s].running # Nobody
Quiet(s) == ~Busy(s) /\ core[s].calls = <<>> /\ core[s].asyncQ = <<>>

\* What the coroutine does first when it is resumed with an answer: yield_call_f and
\* ping stop watching, sleep and wait are no longer asleep.
Awake(v, c, t) == [Resumed(v, c) EXCEPT !.watching[t] = Nobody, !.sleeping[c] = 0]

\* A reply, a pong, a yield, a timer, a connection or a sent write: the coroutine of
\* the token is resumed.  Without one the event is an error that is only logged.
Answer(s, e) ==
  LET v == core[s]
      c == v.tokenTo[e.token]
      w == [v EXCEPT !.tokenTo[e.token] = Nobody]
  IN  /\ Tables(s, IF c \in Cos THEN Awake(w, c, e.token) ELSE w)
      /\ UNCHANGED <<dropped, cancelled, twice>>

\* A handler is started in a coroutine; a call for which there is none is closed.
StartHandler(s, e) ==
  LET v == core[s] IN
  /\ IF s \in Handles
     THEN /\ Tables(s, [Resumed(Created(v, "new"), NewCo(v)) EXCEPT
                          !.owed[NewCo(v)] = IF e.ev = "call" THEN <<e.source, e.token>> ELSE <<>>])
          /\ inbox' = [inbox EXCEPT ![s] = Tail(@)]
          /\ UNCHANGED dropped
     ELSE /\ inbox' = IF e.ev = "call" THEN SentClose([inbox EXCEPT ![s] = Tail(@)], s, e.source)
                      ELSE [inbox EXCEPT ![s] = Tail(@)]
          /\ dropped' = IF e.ev = "call" THEN dropped \union Misses(s, {<<e.source, e.token>>})
                        ELSE dropped
          /\ UNCHANGED core
  /\ UNCHANGED <<cancelled, twice>>

Watched(v, source) == {t \in Tokens : v.watching[t] = source}

\* close_dispatch_f with the token 0, in any order of the tables: what is owed to the
\* source is forgotten, the calls to it are queued to be cancelled.
CloseDispatchReplies(v, source, order) == [v EXCEPT !.responses = {r \in @ : r[1] # source}]

CloseDispatch(v, source, order) ==
  [v EXCEPT !.responses = {r \in @ : r[1] # source}, !.cancelQ = @ \o order]

Orders(v, source) == SetToSeqs(Watched(v, source))

\* eventClose: close_dispatch_f is run in a coroutine of its own.
Close(s, e) ==
  LET v == core[s]
      w == Resumed(Created(v, "new"), NewCo(v))
  IN  \E order \in Orders(v, e.source) :
        /\ Tables(s, Ended(CloseDispatch(w, e.source, order)))
        /\ twice' = IF \E i \in DOMAIN order : Contains(v.cancelQ, order[i])
                    THEN twice \union {s} ELSE twice
        /\ dropped' = dropped \union {<<r[1], r[2]>> : r \in {x \in v.responses : x[1] = e.source}}
        /\ UNCHANGED cancelled

\* service_stopCallback: lua_close.
Stop(s) ==
  /\ status' = [status EXCEPT ![s] = "stopped"]
  /\ Tables(s, [Fresh EXCEPT !.at = [c \in Cos |-> "none"], !.tokenTo = [t \in Tokens |-> Nobody]])
  /\ armed' = [armed EXCEPT ![s] = {}]
  /\ dropped' = dropped \union (UNION {Owes(s, c) : c \in Cos}) \union core[s].responses
  /\ UNCHANGED <<cancelled, twice>>

\* serviceCore.dispatch, eventDispatch_f and event_msg_dispatch_f
Dispatch(s) ==
  /\ Quiet(s) /\ inbox[s] # <<>>
  /\ LET e == Head(inbox[s])
         rest == [inbox EXCEPT ![s] = Tail(@)]
     IN  \/ e.ev = "answer" /\ Answer(s, e) /\ inbox' = rest /\ UNCHANGED <<status, armed>>
         \/ e.ev \in {"call", "send"} /\ StartHandler(s, e) /\ UNCHANGED <<status, armed>>
         \/ /\ e.ev = "ping"
            /\ inbox' = Sent(rest, e.source, Event("answer", s, e.token))
            /\ UNCHANGED <<core, status, armed, dropped, cancelled, twice>>
         \/ e.ev = "close" /\ Close(s, e) /\ inbox' = rest /\ UNCHANGED <<status, armed>>
         \/ e.ev = "stop" /\ Stop(s) /\ inbox' = rest
  /\ UNCHANGED <<uses, ops>>

\* The loop of dispatch over asyncQueue_t, each in a pcall of its own.
RunAsync(s) ==
  LET v == core[s]
      c == Head(v.asyncQ)
      w == [v EXCEPT !.asyncQ = Tail(@)]
  IN  /\ ~Busy(s) /\ v.calls = <<>> /\ v.asyncQ # <<>>
      /\ Tables(s, IF v.at[c] = "idle" THEN Ended(Resumed(w, c)) ELSE Resumed(w, c))
      /\ UNCHANGED <<inbox, status, armed, uses, ops, dropped, cancelled, twice>>

\* What is queued without the one event of a timer that was stopped, if it fired:
\* service_eventCallback does not pass it on.
Unfired(s, t) == RemoveFirst(inbox[s], Event("answer", s, t))

\* dispatch_wakeup_f: the sleep or the wait of the coroutine is broken.  A sleep stops
\* its timer, so the event that would clear the mark BREAK never comes; wait clears the
\* mark itself.
Wake(s) ==
  LET v == core[s]
      w == [v EXCEPT !.calls = Tail(@)]
      c == Head(v.wakeupQ)
      t == v.sleeping[c]
      x == [w EXCEPT !.wakeupQ = Tail(@)]
  IN  /\ ~Busy(s) /\ v.calls # <<>> /\ Head(v.calls) = "wakeup"
      /\ IF v.wakeupQ = <<>> THEN Tables(s, w) /\ UNCHANGED <<armed, inbox>>
         ELSE IF t = 0 THEN Tables(s, x) /\ UNCHANGED <<armed, inbox>>
         ELSE /\ Tables(s, [Awake(x, c, t) EXCEPT
                              !.tokenTo[t] = IF v.at[c] = "sleep" THEN BREAK ELSE Nobody])
              /\ armed' = [armed EXCEPT ![s] = @ \ {t}]
              /\ inbox' = [inbox EXCEPT ![s] = Unfired(s, t)]
      /\ UNCHANGED <<status, uses, ops, dropped, cancelled, twice>>

\* dispatch_watching_cancel_f: the call fails, and its error is caught or ends the
\* coroutine; ping just returns.  A token that was queued twice has no coroutine any
\* more: the attempt to resume it is an error that throws away the calls under way.
Cancel(s) ==
  LET v == core[s]
      w == [v EXCEPT !.calls = Tail(@)]
      t == Head(v.cancelQ)
      c == v.tokenTo[t]
      x == [w EXCEPT !.cancelQ = Tail(@), !.tokenTo[t] = Nobody]
  IN  /\ ~Busy(s) /\ v.calls # <<>> /\ Head(v.calls) = "cancel"
      /\ IF v.cancelQ = <<>>
         THEN Tables(s, w) /\ UNCHANGED <<dropped, cancelled>>
         ELSE IF c \notin Cos
         THEN Tables(s, [x EXCEPT !.calls = <<>>]) /\ UNCHANGED <<dropped, cancelled>>
         ELSE /\ cancelled' = cancelled \union {<<s, t>>}
              /\ \/ Tables(s, Awake(x, c, t)) /\ UNCHANGED dropped
                 \/ /\ v.at[c] = "call"
                    /\ Tables(s, Failed(Awake(x, c, t)))
                    /\ dropped' = dropped \union Owes(s, c)
      /\ UNCHANGED <<inbox, status, armed, uses, ops, twice>>

\* The timer of a token, or the connector or the write behind it, posts its event.
Fires(s, t) ==
  /\ t \in armed[s]
  /\ armed' = [armed EXCEPT ![s] = @ \ {t}]
  /\ inbox' = Sent(inbox, s, Event("answer", s, t))
  /\ UNCHANGED <<core, status, uses, ops, dropped, cancelled, twice>>

-----------------------------------------------------------------------------
(* What the running coroutine may do.  An operation that raises an error is *)
(* Fail, or nothing when the error is caught.                               *)

Operates(s, op) == Busy(s) /\ op \in uses /\ ops < MaxOps /\ ops' = ops + 1 /\ UNCHANGED uses

Me(s) == core[s].running

\* lserviceContext_genToken.  That tokens start again with 1 after 0xfffffffe lies beyond
\* what a behaviour of MaxOps operations can reach: here a token is never used again.
Taken(v) == [v EXCEPT !.uiToken = @ + 1]

\* serviceCore.call, callCommand and ping: yield_call_f, yield_watching_f.  The address
\* is kept as it was passed (launch passes a name); the event goes to the ID.
Call(s, to, kind) ==
  /\ Operates(s, kind) /\ Accepts(IdOf[to])
  /\ LET v == Taken(core[s]) IN
       /\ Tables(s, Suspended([v EXCEPT !.watching[v.uiToken] = to,
                                        !.tokenTo[v.uiToken] = v.running], kind))
       /\ inbox' = Sent(inbox, IdOf[to], Event(kind, s, v.uiToken))
  /\ UNCHANGED <<status, armed, dropped, cancelled, twice>>

\* serviceCore.send, sendBuf, sendText
Send(s, to) ==
  /\ Operates(s, "send")
  /\ inbox' = Sent(inbox, to, Event("send", s, 0))
  /\ UNCHANGED <<core, status, armed, dropped, cancelled, twice>>

\* serviceCore.replyBuf, reply and replyCommand
Reply(s) ==
  LET o == core[s].owed[Me(s)] IN
  /\ Operates(s, "reply") /\ o # <<>>
  /\ Tables(s, [core[s] EXCEPT !.owed[Me(s)] = <<>>])
  /\ inbox' = Sent(inbox, o[1], Event("answer", s, o[2]))
  /\ UNCHANGED <<status, armed, dropped, cancelled, twice>>

\* serviceCore.replyClose
ReplyClose(s) ==
  LET o == core[s].owed[Me(s)] IN
  /\ Operates(s, "replyClose") /\ o # <<>>
  /\ Tables(s, [core[s] EXCEPT !.owed[Me(s)] = <<>>])
  /\ inbox' = SentClose(inbox, s, o[1])
  /\ dropped' = dropped \union Misses(s, {o})
  /\ UNCHANGED <<status, armed, cancelled, twice>>

\* serviceCore.redirectCallBuf: the call goes on to another service in the name of its
\* caller, who still watches this one.
Redirect(s, to) ==
  LET o == core[s].owed[Me(s)] IN
  /\ Operates(s, "redirect") /\ o # <<>>
  /\ Tables(s, [core[s] EXCEPT !.owed[Me(s)] = <<>>])
  /\ inbox' = Sent(inbox, to, Event("call", o[1], o[2]))
  /\ dropped' = IF Accepts(to) THEN dropped ELSE dropped \union {o}
  /\ UNCHANGED <<status, armed, cancelled, twice>>

\* serviceCore.genResponse: the reply may be made by any coroutine.
GenResponseKeeping(s) ==
  LET o == core[s].owed[Me(s)] IN
  /\ Operates(s, "genResponse") /\ o # <<>>
  /\ Tables(s, [core[s] EXCEPT !.responses = @ \union {o}])
  /\ UNCHANGED <<inbox, status, armed, dropped, cancelled, twice>>

GenResponse(s) ==
  LET o == core[s].owed[Me(s)] IN
  /\ Operates(s, "genResponse") /\ o # <<>>
  /\ Tables(s, [core[s] EXCEPT !.owed[Me(s)] = <<>>, !.responses = @ \union {o}])
  /\ UNCHANGED <<inbox, status, armed, dropped, cancelled, twice>>

\* The response that genResponse returned; it is good for one reply.
Respond(s, r, ok) ==
  /\ Operates(s, "response") /\ r \in core[s].responses
  /\ Tables(s, [core[s] EXCEPT !.responses = @ \ {r}])
  /\ inbox' = IF ok THEN Sent(inbox, r[1], Event("answer", s, r[2])) ELSE SentClose(inbox, s, r[1])
  /\ dropped' = IF ok THEN dropped ELSE dropped \union Misses(s, {r})
  /\ UNCHANGED <<status, armed, cancelled, twice>>

\* serviceCore.sleep and wait (why), and what waits for one event of the service's
\* own: connect, dnsResolve and remoteWriteReq.
Sleep(s, why) ==
  /\ Operates(s, why)
  /\ LET v == Taken(core[s])
         w == [v EXCEPT !.tokenTo[v.uiToken] = v.running,
                        !.sleeping[v.running] = IF why = "await" THEN 0 ELSE v.uiToken]
     IN  /\ Tables(s, Suspended(w, why))
         /\ armed' = IF why = "wait" THEN armed ELSE [armed EXCEPT ![s] = @ \union {v.uiToken}]
  /\ UNCHANGED <<inbox, status, dropped, cancelled, twice>>

\* serviceCore.wakeup of a coroutine that is asleep.
Wakeup(s, c) ==
  /\ Operates(s, "wakeup") /\ core[s].sleeping[c] # 0
  /\ Tables(s, [core[s] EXCEPT !.wakeupQ = Append(@, c)])
  /\ twice' = IF Contains(core[s].wakeupQ, c) THEN twice \union {s} ELSE twice
  /\ UNCHANGED <<inbox, status, armed, dropped, cancelled>>

\* serviceCore.async
Async(s) ==
  LET v == core[s] IN
  /\ Operates(s, "async")
  /\ Tables(s, [Created(v, "new") EXCEPT !.asyncQ = Append(@, NewCo(v))])
  /\ UNCHANGED <<inbox, status, armed, dropped, cancelled, twice>>

\* serviceCore.timeout and yield: a coroutine for a later event.
Timeout(s) ==
  LET v == Taken(core[s]) IN
  /\ Operates(s, "timeout")
  /\ Tables(s, [Created(v, "new") EXCEPT !.tokenTo[v.uiToken] = NewCo(v)])
  /\ armed' = [armed EXCEPT ![s] = @ \union {v.uiToken}]
  /\ UNCHANGED <<inbox, status, dropped, cancelled, twice>>

\* serviceCore.term: close_dispatch_f in the running coroutine, whose own reply it
\* forgets.  Its parameter is compared as it is, a name with names.
Term(s, source) ==
  LET v == core[s] IN
  /\ Operates(s, "term")
  /\ \E order \in Orders(v, source) :
       /\ Tables(s, CloseDispatch([v EXCEPT !.owed[v.running] = <<>>], source, order))
       /\ twice' = IF \E i \in DOMAIN order : Contains(v.cancelQ, order[i])
                   THEN twice \union {s} ELSE twice
       /\ dropped' = dropped \union Owes(s, v.running)
                             \union {<<r[1], r[2]>> : r \in {x \in v.responses : x[1] = source}}
  /\ UNCHANGED <<inbox, status, armed, cancelled>>

\* Whom serviceCore.exit tells: those who are owed a reply, then those whom a call of
\* this service still waits for.
Owing(s) == (UNION {Owes(s, c) : c \in Cos}) \union core[s].responses

Told(s) == {o[1] : o \in Owing(s)}
           \union {IdOf[a] : a \in {core[s].watching[t] : t \in Tokens} \ {Nobody}}

\* serviceCore.exit: the service takes no more events after its eventStop; the
\* coroutine goes on.  One close tells a service as much as several.
Exit(s) ==
  /\ Operates(s, "exit") /\ Accepts(s)
  /\ Tables(s, [core[s] EXCEPT !.asyncQ = <<>>, !.responses = {},
                               !.at = [c \in Cos |-> IF Contains(core[s].asyncQ, c) THEN "none" ELSE @[c]]])
  /\ inbox' = [q \in Services |->
                 LET closed == IF q \in Told(s) /\ Accepts(q)
                               THEN Append(inbox[q], Event("close", s, 0)) ELSE inbox[q]
                 IN  IF q = s THEN Append(closed, Event("stop", s, 0)) ELSE closed]
  /\ status' = [status EXCEPT ![s] = "exiting"]
  /\ dropped' = dropped \union Misses(s, Owing(s))
  /\ UNCHANGED <<armed, cancelled, twice>>

\* The function of the coroutine returns, or raises an error.
Return(s) ==
  /\ Busy(s)
  /\ Tables(s, Ended(core[s]))
  /\ dropped' = dropped \union Owes(s, Me(s))
  /\ UNCHANGED <<inbox, status, armed, uses, ops, cancelled, twice>>

Fail(s) ==
  /\ Busy(s)
  /\ Tables(s, Failed(core[s]))
  /\ dropped' = dropped \union Owes(s, Me(s))
  /\ UNCHANGED <<inbox, status, armed, uses, ops, cancelled, twice>>

-----------------------------------------------------------------------------
UserCode(s) ==
  \/ \E to \in Addresses : \/ \E kind \in {"call", "ping"} : Call(s, to, kind)
                           \/ Term(s, to)
  \/ \E to \in Services : Send(s, to) \/ Redirect(s, to)
  \/ Reply(s) \/ ReplyClose(s) \/ GenResponse(s)
  \/ \E r \in core[s].responses, ok \in BOOLEAN : Respond(s, r, ok)
  \/ \E why \in {"sleep", "wait", "await"} : Sleep(s, why)
  \/ \E c \in Cos : Wakeup(s, c)
  \/ Async(s) \/ Timeout(s) \/ Exit(s) \/ Return(s) \/ Fail(s)

ServiceRuns(s) == Dispatch(s) \/ RunAsync(s) \/ Wake(s) \/ Cancel(s) \/ UserCode(s)

Next == \E s \in Services : ServiceRuns(s) \/ \E t \in Tokens : Fires(s, t)

\* A service with something to do is scheduled and its functions come to their end;
\* timers, connectors and writes answer.
Fairness == \A s \in Services : /\ WF_vars(ServiceRuns(s))
                                /\ WF_vars(\E t \in Tokens : Fires(s, t))

Spec == Init /\ [][Next]_vars /\ Fairness

-----------------------------------------------------------------------------
(* Properties *)

\* A coroutine of s waits in call or ping, under the token t.
Waits(s, t) == /\ status[s] = "running"
               /\ core[s].watching[t] # Nobody
               /\ core[s].tokenTo[t] \in Cos

\* Where its answer can be: still asked for, owed, or given.
Asked(s, t)    == {p \in UNION {{q} \X DOMAIN inbox[q] : q \in Services} :
                     inbox[p[1]][p[2]] \in {Event("call", s, t), Event("ping", s, t)}}
Owed(s, t)     == {p \in Services \X Cos : core[p[1]].owed[p[2]] = <<s, t>>}
Deferred(s, t) == {q \in Services : <<s, t>> \in core[q].responses}
Given(s, t)    == {i \in DOMAIN inbox[s] : inbox[s][i].ev = "answer" /\ inbox[s][i].token = t}
GivenUp(s, t)  == \/ Contains(core[s].cancelQ, t)
                  \/ Contains(inbox[s], Event("close", core[s].watching[t], 0))

\* Calls and answers correspond.  A call that waits is in one place only on its way
\* through the request, the coroutine or the response that owes the reply, and the
\* reply: so it has one answer at most.  It is in none of them only when it is about to be
\* cancelled, or when the callee forgot it (its handler returned, failed or called term
\* without a reply, it stopped first, or it closed the call and the close ends nothing:
\* because it came from a service to which the call was redirected, or because the caller
\* used the name of the callee, as serviceCore.launch does).  And an answer finds the
\* coroutine that waits for it, although sleeps are broken and timers stopped while their
\* events are queued: only a call that was cancelled leaves an answer to an unknown token.
\* (yield_call_f, replyBuf, genResponse, redirectCallBuf, close_dispatch_f, exit,
\* unknown_reply_f, unknown_dispatch_f)
AnswersMatchCalls ==
  /\ \A s \in Services, t \in Tokens : Waits(s, t) =>
       LET places == Cardinality(Asked(s, t)) + Cardinality(Owed(s, t))
                     + Cardinality(Deferred(s, t)) + Cardinality(Given(s, t))
       IN  \/ places = 1
           \/ places = 0 /\ (GivenUp(s, t) \/ <<s, t>> \in dropped)
  /\ \A s \in Services : \A i \in DOMAIN inbox[s] :
       LET e == inbox[s][i] IN
       e.ev = "answer" => core[s].tokenTo[e.token] \in Cos \/ <<s, e.token>> \in cancelled

\* When a service has finished with an event nothing is left in wakeupQueue_t or in
\* cancelWatchingQueue_t, whatever coroutines failed meanwhile; unless a coroutine or
\* a token was queued twice there (suspend_f, dispatch_wakeup_f,
\* dispatch_watching_cancel_f).
QueuesServed ==
  \A s \in Services : Quiet(s) /\ s \notin twice => core[s].wakeupQ = <<>> /\ core[s].cancelQ = <<>>

\* The callee keeps the reply back: in a coroutine or in a response.
KeptBack(s, t) == Owed(s, t) # {} \/ Deferred(s, t) # {}

\* Once the user code has nothing more to do, the only calls that still wait are those
\* that their callee forgot or closed in vain (a redirected call, a call by name), or whose
\* reply it keeps back in a coroutine that sleeps or in a response that is not used: no
\* other call waits for ever.
CallsEnd == <>[](\A s \in Services, t \in Tokens :
                   Waits(s, t) => <<s, t>> \in dropped \/ KeptBack(s, t))
=============================================================================
