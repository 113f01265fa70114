---------------------------- MODULE MCConnection ----------------------------
(***************************************************************************)
(* One connection with a write or two, and a service that closes it.       *)
(***************************************************************************)
EXTENDS Connection
=============================================================================
