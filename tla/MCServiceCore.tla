---------------------------- MODULE MCServiceCore ----------------------------
(***************************************************************************)
(* Two services, of which one has handlers and a name.  Their user code    *)
(* calls and answers, puts calls off and hands them on, puts them off and  *)
(* exits, or sleeps and wakes.                                             *)
(***************************************************************************)
EXTENDS ServiceCore

CONSTANTS client, server, serverName

TwoServices == {client, server}
TheServer   == {server}
TheName     == {serverName}
TheIds      == (client :> client) @@ (server :> server) @@ (serverName :> server)

Answering == {"call", "ping", "send", "reply", "replyClose", "exit"}
Deferring == {"call", "genResponse", "response", "redirect", "term"}
Leaving   == {"call", "genResponse", "response", "exit"}
Sleeping  == {"sleep", "wait", "wakeup", "async", "timeout", "await"}
Cancelling == {"call", "term", "wait", "wakeup"}

ThePrograms == {Answering, Deferring, Leaving, Sleeping, Cancelling}
=============================================================================
