----------------------------- MODULE DnsResolve -----------------------------
(***************************************************************************)
(* One query of the DNS resolver: dnsResolve_t.c, ldnsResolve_t.c and      *)
(* lservice.dnsResolve, with serviceCore.dnsResolve, which waits for the   *)
(* DNS event.  c-ares builds and parses the messages; it is given a socket *)
(* that is a UDP connection of the eventIO, and asks for nothing but one   *)
(* datagram (external: ares_gethostbyname, ares_process_fd).               *)
(***************************************************************************)
EXTENDS Integers, Sequences, FiniteSets

VARIABLES
  hQuery,        \* dnsResolve_s.hConnection # 0
  hTimeout,      \* dnsResolve_s.hTimeout # 0
  held,          \* iRefCount of the resolver and of its connection, and uses after free
  udpStatus,     \* the connection's iStatus
  udpSock,       \* none, unpolled, polled, deaf (polled for nothing), closed
  udpBound,      \* its fnUserFree is eventConnection_onUserFree
  fnOnDisconnect,  \* its hDisconnectCallback # 0
  udpTasks,      \* what its loop has queued
  resolverAt,    \* where the loop is in a callback
  timeoutAt,     \* the timer, and where its thread is
  asker,         \* the coroutine: ask, wait, over
  dnsEvents,     \* DNS events in the service's queue
  replies,       \* history: the DNS events that were enqueued
  silences,      \* history: why a query ended without one
  early          \* history: the timer took the connection before it was bound

dnsVars == <<hQuery, hTimeout, held, udpStatus, udpSock, udpBound, fnOnDisconnect, udpTasks,
             resolverAt, timeoutAt, asker, dnsEvents, replies, silences, early>>

DnsInit ==
  /\ hQuery = FALSE /\ hTimeout = FALSE
  /\ held = [dns |-> 0, conn |-> 0, freed |-> {}]
  /\ udpStatus = "Disconnected" /\ udpSock = "none" /\ udpBound = FALSE /\ fnOnDisconnect = FALSE
  /\ udpTasks = <<>> /\ resolverAt = "poll" /\ timeoutAt = "none"
  /\ asker = "ask" /\ dnsEvents = <<>> /\ replies = <<>> /\ silences = {} /\ early = FALSE

Good == held.freed = {}

\* dnsResolve_release
DropDns(h) == [h EXCEPT !.dns = @ - 1,
                        !.freed = IF h.dns <= 0 THEN @ \union {"dns"} ELSE @]

\* eventConnection_release, with eventConnection_onUserFree.
DropUdp(h) ==
  LET g == [h EXCEPT !.conn = @ - 1, !.freed = IF h.conn <= 0 THEN @ \union {"conn"} ELSE @]
  IN  IF h.conn = 1 /\ udpBound THEN DropDns(g) ELSE g

\* eventConnection_forceClose, then eventConnection_release.
CloseUdp(h) ==
  /\ udpStatus' = "Disconnected"
  /\ IF udpStatus = "Disconnected"
     THEN held' = DropUdp(h) /\ UNCHANGED udpTasks
     ELSE held' = h /\ udpTasks' = Append(udpTasks, "forceClose")

StopQueryTimer ==
  /\ hTimeout' = FALSE
  /\ timeoutAt' = IF hTimeout /\ timeoutAt = "armed" THEN "stopped" ELSE timeoutAt

-----------------------------------------------------------------------------
(* The service.                                                             *)

\* dnsResolve_query: ares_gethostbyname answers at once, from the hosts file or
\* with an error, and nothing tells the coroutine; or it opens its socket, which
\* is dns_sendv's connection.
Query(sent) ==
  /\ asker = "ask"
  /\ asker' = "wait"
  /\ IF sent
     THEN /\ held' = [held EXCEPT !.dns = 2, !.conn = 2]
          /\ hQuery' = TRUE
          /\ udpStatus' = "Connecting"
          /\ udpTasks' = <<"connect">>
          /\ UNCHANGED silences
     ELSE /\ held' = [held EXCEPT !.dns = 1]
          /\ silences' = {"answered at once"}
          /\ UNCHANGED <<hQuery, udpStatus, udpTasks>>
  /\ UNCHANGED <<hTimeout, udpSock, udpBound, fnOnDisconnect, resolverAt, timeoutAt, dnsEvents,
                 replies, early>>

\* The DNS event resumes the coroutine: dnsResolve_parser, and dns <close>.
Answered ==
  /\ asker = "wait" /\ dnsEvents # <<>> /\ Good
  /\ asker' = "over"
  /\ dnsEvents' = Tail(dnsEvents)
  /\ held' = DropDns(held)
  /\ UNCHANGED <<hQuery, hTimeout, udpStatus, udpSock, udpBound, fnOnDisconnect, udpTasks,
                 resolverAt, timeoutAt, replies, silences, early>>

\* The service exits and its coroutines are closed: ldnsResolve_gc.
Abandon ==
  /\ asker = "wait" /\ Good
  /\ asker' = "over"
  /\ held' = DropDns(held)
  /\ UNCHANGED <<hQuery, hTimeout, udpStatus, udpSock, udpBound, fnOnDisconnect, udpTasks,
                 resolverAt, timeoutAt, dnsEvents, replies, silences, early>>

-----------------------------------------------------------------------------
(* The loop of the connection.                                              *)

\* inLoop_eventConnection_connect of a UDP connection.
UdpConnect(made) ==
  /\ resolverAt = "poll" /\ Good
  /\ udpTasks # <<>> /\ Head(udpTasks) = "connect"
  /\ udpTasks' = Tail(udpTasks)
  /\ resolverAt' = "connected"
  /\ udpSock' = IF made THEN "unpolled" ELSE "closed"
  /\ udpStatus' = IF made THEN udpStatus ELSE "Disconnected"
  /\ UNCHANGED <<hQuery, hTimeout, held, udpBound, fnOnDisconnect, timeoutAt, asker, dnsEvents,
                 replies, silences, early>>

\* eventConnection_connectorCallback: a connection that failed is let go of, without
\* a word to the service and without the reference of dns_sendv; otherwise the
\* timer is started ...
OnConnected ==
  /\ resolverAt = "connected" /\ Good
  /\ IF udpStatus # "Connecting"
     THEN /\ resolverAt' = "release"
          /\ hQuery' = FALSE
          /\ held' = IF hQuery THEN DropUdp(held) ELSE held
          /\ silences' = silences \union (IF hQuery THEN {"not connected"} ELSE {})
          /\ UNCHANGED <<hTimeout, timeoutAt>>
     ELSE /\ resolverAt' = "bind"
          /\ held' = [held EXCEPT !.dns = @ + 1, !.conn = @ + 1]
          /\ hTimeout' = TRUE
          /\ timeoutAt' = "armed"
          /\ UNCHANGED <<hQuery, silences>>
  /\ UNCHANGED <<udpStatus, udpSock, udpBound, fnOnDisconnect, udpTasks, asker, dnsEvents, replies,
                 early>>

\* ... then the connection is bound to the resolver, in this loop, and the query
\* sent; unless the timer was here first.
OnConnectedBinds ==
  /\ resolverAt = "bind" /\ Good
  /\ resolverAt' = "release"
  /\ fnOnDisconnect' = TRUE
  /\ IF udpStatus = "Connecting"
     THEN /\ udpStatus' = "Connected"
          /\ udpBound' = TRUE
          /\ udpSock' = "polled"
          /\ UNCHANGED <<hQuery, hTimeout, held, timeoutAt, early>>
     ELSE /\ hQuery' = FALSE
          /\ StopQueryTimer
          /\ held' = DropUdp(IF hQuery THEN DropUdp(held) ELSE held)
          /\ early' = TRUE
          /\ UNCHANGED <<udpStatus, udpBound, udpSock>>
  /\ UNCHANGED <<udpTasks, asker, dnsEvents, replies, silences>>

\* The references of the callback, if it bound, and of the task.  What bind added
\* stays with the poller.
CallbackEnds ==
  /\ resolverAt = "release" /\ Good
  /\ resolverAt' = "poll"
  /\ held' = DropUdp(held)
  /\ UNCHANGED <<hQuery, hTimeout, udpStatus, udpSock, udpBound, fnOnDisconnect, udpTasks,
                 timeoutAt, asker, dnsEvents, replies, silences, early>>

\* A datagram: eventConnection_onReceiveCallback stops the timer ...; or an error,
\* for which eventConnection_onDisconnectCallback does.
Readable(what) ==
  /\ resolverAt = "poll" /\ Good
  /\ udpSock = "polled" /\ udpStatus = "Connected"
  /\ resolverAt' = what
  /\ StopQueryTimer
  /\ UNCHANGED <<hQuery, held, udpStatus, udpSock, udpBound, fnOnDisconnect, udpTasks, asker,
                 dnsEvents, replies, silences, early>>

\* ... posts the DNS event if the connection was still there, and keeps it for ever ...
AnswerReceived ==
  IF hQuery THEN replies' = Append(replies, "reply") /\ dnsEvents' = Append(dnsEvents, "reply")
  ELSE UNCHANGED <<replies, dnsEvents>>

\* ... and returns false: the socket is not read again, and the disconnect callback
\* finds nothing to do.
OnReceive ==
  /\ resolverAt = "received" /\ Good
  /\ resolverAt' = "poll"
  /\ AnswerReceived
  /\ hQuery' = FALSE
  /\ udpSock' = "deaf"
  /\ fnOnDisconnect' = FALSE
  /\ UNCHANGED <<hTimeout, held, udpStatus, udpBound, udpTasks, timeoutAt, asker, silences, early>>

\* eventConnection_onDisconnectCallback closes the connection and tells nobody.
OnDisconnect ==
  /\ resolverAt = "error" /\ Good
  /\ resolverAt' = "poll"
  /\ hQuery' = FALSE
  /\ udpSock' = "deaf"
  /\ fnOnDisconnect' = FALSE
  /\ IF hQuery THEN CloseUdp(held) ELSE UNCHANGED <<held, udpStatus, udpTasks>>
  /\ silences' = silences \union (IF hQuery THEN {"disconnected"} ELSE {})
  /\ UNCHANGED <<hTimeout, udpBound, timeoutAt, asker, dnsEvents, replies, early>>

\* inLoop_eventConnection_forceClose
UdpForceClose ==
  /\ resolverAt = "poll" /\ Good
  /\ udpTasks # <<>> /\ Head(udpTasks) = "forceClose"
  /\ udpTasks' = Tail(udpTasks)
  /\ udpStatus' = "Disconnected"
  /\ udpSock' = "closed"
  /\ held' = IF udpSock = "closed" THEN DropUdp(held) ELSE DropUdp(DropUdp(held))
  /\ UNCHANGED <<hQuery, hTimeout, udpBound, fnOnDisconnect, resolverAt, timeoutAt, asker, dnsEvents,
                 replies, silences, early>>

-----------------------------------------------------------------------------
(* The thread of the timer.                                                 *)

\* eventTimer_onTimeout exchanges its handle ...
QueryTimerFires ==
  /\ timeoutAt = "armed" /\ Good
  /\ timeoutAt' = "fired"
  /\ hTimeout' = FALSE
  /\ UNCHANGED <<hQuery, held, udpStatus, udpSock, udpBound, fnOnDisconnect, udpTasks, resolverAt,
                 asker, dnsEvents, replies, silences, early>>

\* ... then the connection, closes it and posts an empty DNS event.
OnTimeout ==
  /\ timeoutAt = "fired" /\ Good
  /\ timeoutAt' = "closing"
  /\ hQuery' = FALSE
  /\ IF hQuery
     THEN /\ CloseUdp(held)
          /\ replies' = Append(replies, "timeout")
          /\ dnsEvents' = Append(dnsEvents, "timeout")
     ELSE UNCHANGED <<held, udpStatus, udpTasks, replies, dnsEvents>>
  /\ UNCHANGED <<hTimeout, udpSock, udpBound, fnOnDisconnect, resolverAt, asker, silences, early>>

\* eventTimer_onClose
QueryTimerCloses ==
  /\ timeoutAt \in {"closing", "stopped"} /\ Good
  /\ timeoutAt' = "over"
  /\ held' = DropDns(held)
  /\ UNCHANGED <<hQuery, hTimeout, udpStatus, udpSock, udpBound, fnOnDisconnect, udpTasks,
                 resolverAt, asker, dnsEvents, replies, silences, early>>

DnsLoop == \/ \E made \in BOOLEAN : UdpConnect(made)
           \/ OnConnected \/ OnConnectedBinds \/ CallbackEnds \/ OnReceive \/ OnDisconnect
           \/ UdpForceClose
DnsTimer == QueryTimerFires \/ OnTimeout \/ QueryTimerCloses

DnsNext == \/ \E sent \in BOOLEAN : Query(sent)
           \/ Answered \/ Abandon
           \/ DnsLoop \/ \E what \in {"received", "error"} : Readable(what)
           \/ DnsTimer

\* The threads go on; the name server need not answer.
DnsFairness == WF_dnsVars(DnsLoop) /\ WF_dnsVars(DnsTimer)

-----------------------------------------------------------------------------
Count(flag) == IF flag THEN 1 ELSE 0

\* Whoever holds the connection; an answered query holds it for ever.
UdpHolders ==
  Count(hQuery) + Len(udpTasks) + Count(resolverAt \in {"connected", "bind", "release"})
  + Count(resolverAt = "bind") + Count(udpSock \in {"polled", "deaf"})
  + Count(replies = <<"reply">>)

\* Whoever holds the resolver: dns_sendv's reference becomes the bound connection's,
\* or stays for ever.
DnsHolders ==
  Count(asker = "wait") + Count(timeoutAt \notin {"none", "over"})
  + Count(udpBound /\ held.conn > 0)
  + Count(~udpBound /\ ("not connected" \in silences \/ early \/ udpTasks = <<"connect">>
                        \/ resolverAt \in {"connected", "bind"}))

\* The counts of the resolver and of its connection are the number of their holders,
\* with the two that are never released: an answered query's connection, and the
\* resolver of a query that could not connect.  The timer must not take the
\* connection before it is bound.
QueryCounted ==
  /\ Good => held.dns = DnsHolders
  /\ ~early => Good /\ held.conn = UdpHolders

\* A query is answered once: the reply and the timeout do not both reach the service.
QueryAnsweredOnce == Len(replies) <= 1

\* A query that waits is answered, or it is one of the three kinds that the code
\* forgets: answered by c-ares at once, not connected, or refused by the server.
QueryEnds == (asker = "wait") ~> (replies # <<>> \/ silences # {} \/ ~Good)
=============================================================================
