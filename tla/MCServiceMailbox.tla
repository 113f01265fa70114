-------------------------- MODULE MCServiceMailbox --------------------------
(***************************************************************************)
(* ServiceMailbox with two senders and two loop threads: the smallest      *)
(* instance in which two senders race each other, two loop threads race    *)
(* for the token, and both race the thread that stops the service.         *)
(***************************************************************************)
EXTENDS ServiceMailbox, TLC

\* Senders and loop threads are interchangeable; used where no liveness is checked.
Symmetry == Permutations(Senders) \cup Permutations(Workers)
=============================================================================
