------------------------------ MODULE MCTimer -------------------------------
(***************************************************************************)
(* Two timers, of any kinds, with one thread and with two.                 *)
(***************************************************************************)
EXTENDS Timer
=============================================================================
