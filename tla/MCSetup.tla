------------------------------- MODULE MCSetup -------------------------------
(***************************************************************************)
(* How connections come about, each way by itself, and the process around  *)
(* the services: a behaviour is one attempt to connect, one listening      *)
(* port, one DNS query or one life of the process.                         *)
(***************************************************************************)
EXTENDS Connector, ListenPort, DnsResolve, Environment

VARIABLE part  \* the one of this behaviour

Init == /\ part \in {"connector", "port", "dns", "process"}
        /\ ConnectorInit /\ PortInit /\ DnsInit /\ EnvInit
        /\ part # "connector" => tcp /\ timed
        /\ part # "port" => bTcp

vars == <<part, connectorVars, portVars, dnsVars, envVars>>

Connecting == part = "connector" /\ ConnectorNext /\ UNCHANGED <<part, portVars, dnsVars, envVars>>
Listening  == part = "port" /\ PortNext /\ UNCHANGED <<part, connectorVars, dnsVars, envVars>>
Resolving  == part = "dns" /\ DnsNext /\ UNCHANGED <<part, connectorVars, portVars, envVars>>
Running    == part = "process" /\ EnvNext /\ UNCHANGED <<part, connectorVars, portVars, dnsVars>>

Next == Connecting \/ Listening \/ Resolving \/ Running

Spec == Init /\ [][Next]_vars /\ ConnectorFairness /\ PortFairness /\ DnsFairness /\ EnvFairness

\* Every reference count of the four is the number of its holders, and nothing is
\* used after its last release, except after the orders of steps that each names
\* (connector_release, eventListenPort_release, dnsResolve_release,
\* eventConnection_release and eventIOThread_release on all their paths).
Counted == ConnectorCounted /\ PortCounted /\ QueryCounted /\ EnvironmentCounted

\* An attempt to connect and a query are answered at most once, although the loop,
\* the timer and Lua race for the connection (connector_onConnector,
\* connector_onConnectingTimeout, eventTimer_onTimeout).
AnsweredOnce == OneAnswer /\ QueryAnsweredOnce

\* A timed attempt ends, a closed port falls silent, a query is answered unless it is
\* of a kind that the code forgets (dnsResolve_t.c posts no event for it), 
\* lenv_wait returns unless a callback does not end or called lenv_stop itself, and
\* the monitor reports a callback that does not end.
SetupEnds == AttemptEnds /\ ClosedPortFallsSilent /\ QueryEnds /\ WaitReturns /\ EndlessReported
=============================================================================
