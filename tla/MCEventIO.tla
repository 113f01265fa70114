----------------------------- MODULE MCEventIO ------------------------------
(***************************************************************************)
(* EventIO with up to two loops.                                           *)
(***************************************************************************)
EXTENDS EventIO, TLC

\* Used where no liveness is checked.
Symmetry == Permutations(Threads) \cup Permutations(Events)
=============================================================================
