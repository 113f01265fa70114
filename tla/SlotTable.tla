----------------------------- MODULE SlotTable -----------------------------
(***************************************************************************)
(* The table serviceCenter_t.c and channelCenter_t.c share: an array of    *)
(* handles and a stack of the indices that are free.  The stack is popped  *)
(* at its end, so the slot that was freed last is the next one given out.  *)
(* When it is empty the array doubles, up to the largest index an ID has   *)
(* room for, and the stack is refilled with the new slots only.            *)
(***************************************************************************)
EXTENDS Integers, Sequences

CONSTANTS Handles,          \* what is registered
          NULL,             \* the empty slot
          Garbage,          \* what memory holds before it is written
          InitialCapacity,  \* 64 in the code
          MaxCapacity       \* 0xfffff in the code, also the mask of an ID's index

ASSUME CapacitiesAreOrdered ==
  /\ InitialCapacity \in Nat \ {0}
  /\ MaxCapacity \in Nat
  /\ InitialCapacity <= MaxCapacity

ASSUME MarksAreNoHandles == NULL # Garbage /\ NULL \notin Handles /\ Garbage \notin Handles

\* The free stack after slots lo..hi-1 were added; the lowest is on top.
FreeStack(lo, hi) == [i \in 1..(hi - lo) |-> hi - i]

Grown(capacity) == IF 2 * capacity < MaxCapacity THEN 2 * capacity ELSE MaxCapacity

\* The array after growing; the new slots hold what fill says.
Enlarged(slot, capacity, fill) ==
  [i \in 0..(Grown(capacity) - 1) |-> IF i < capacity THEN slot[i] ELSE fill[i]]

Added(capacity) == capacity..(Grown(capacity) - 1)

Top(free) == free[Len(free)]

Pop(free) == SubSeq(free, 1, Len(free) - 1)

OnStack(free) == {free[i] : i \in 1..Len(free)}

(***************************************************************************)
(* Every slot is either on the free stack, once, or holds a handle.        *)
(***************************************************************************)
Partitioned(slot, free, capacity) ==
  /\ \A i, j \in 1..Len(free) : free[i] = free[j] => i = j
  /\ \A i \in 0..(capacity - 1) : slot[i] \in Handles <=> i \notin OnStack(free)
=============================================================================
