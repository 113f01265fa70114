-------------------------- MODULE MCServiceCenter --------------------------
(***************************************************************************)
(* ServiceCenter with a table that grows twice, from one slot to two and   *)
(* to three, and more services than IDs: the instance in which slots are   *)
(* reused across a growth and the table fills up.                          *)
(***************************************************************************)
EXTENDS ServiceCenter, TLC

Symmetry == Permutations(Handles) \cup Permutations(Threads)
=============================================================================
