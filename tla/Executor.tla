------------------------------ MODULE Executor ------------------------------
(***************************************************************************)
(* What an eventIO promises to those who hand it events, however many loop *)
(* threads there are.  An event given to one loop, or to the dispatching   *)
(* thread, is handled after those given to it before; an event given to    *)
(* the pool is handled by whichever loop comes first.  Handled means:      *)
(* worked if eventIO_stop has not been called, cancelled if it has.        *)
(* Nothing is handled twice.  A target that has closed promises nothing to *)
(* those who come late.                                                    *)
(***************************************************************************)
EXTENDS Naturals, Sequences

CONSTANTS Events,
          Targets,  \* the loops and the dispatching thread
          Pool      \* all of the loops

VARIABLES phase,    \* "new", "running", "stopped"
          pending,  \* what each target has been given, in order
          pool,     \* what has been given to all of them
          closed,   \* the targets that take nothing any more
          fate      \* of each event

executorVars == <<phase, pending, pool, closed, fate>>

Init == /\ phase = "new"
        /\ pending = [t \in Targets |-> <<>>]
        /\ pool = {}
        /\ closed = {}
        /\ fate = [e \in Events |-> "new"]

Become(e, f) == fate' = [fate EXCEPT ![e] = f]

Outcome == IF phase = "running" THEN "worked" ELSE "cancelled"

Start == phase = "new" /\ phase' = "running" /\ UNCHANGED <<pending, pool, closed, fate>>

Halt == phase = "running" /\ phase' = "stopped" /\ UNCHANGED <<pending, pool, closed, fate>>

\* Post looks whether the eventIO runs, and gives the event to the pool later.
Offer(e) == /\ fate[e] = "new"
            /\ Become(e, IF phase = "running" THEN "given" ELSE "cancelled")
            /\ UNCHANGED <<phase, pending, pool, closed>>

GivePool(e) == /\ fate[e] = "given"
               /\ \/ Become(e, "pooled") /\ pool' = pool \cup {e}
                  \/ Become(e, "late") /\ Pool \in closed /\ UNCHANGED pool
               /\ UNCHANGED <<phase, pending, closed>>

Give(e, t) == /\ fate[e] = "new"
              /\ IF t \in closed
                 THEN Become(e, "late") /\ UNCHANGED pending
                 ELSE Become(e, "queued") /\ pending' = [pending EXCEPT ![t] = Append(@, e)]
              /\ UNCHANGED <<phase, pool, closed>>

HandleDirectly(e) == /\ fate[e] = "new"
                     /\ Become(e, Outcome)
                     /\ UNCHANGED <<phase, pending, pool, closed>>

Handle(t) == /\ pending[t] # <<>>
             /\ Become(Head(pending[t]), Outcome)
             /\ pending' = [pending EXCEPT ![t] = Tail(@)]
             /\ UNCHANGED <<phase, pool, closed>>

HandlePool(e) == /\ e \in pool
                 /\ Become(e, Outcome)
                 /\ pool' = pool \ {e}
                 /\ UNCHANGED <<phase, pending, closed>>

CancelAll(S) == fate' = [e \in Events |-> IF e \in S THEN "cancelled" ELSE fate[e]]

\* What a target has been given is cancelled with it.
Drain(t) == /\ phase = "stopped"
            /\ CancelAll({pending[t][i] : i \in 1..Len(pending[t])})
            /\ pending' = [pending EXCEPT ![t] = <<>>]
            /\ closed' = closed \cup {t}
            /\ UNCHANGED <<phase, pool>>

DrainPool == /\ phase = "stopped"
             /\ CancelAll(pool)
             /\ pool' = {}
             /\ closed' = closed \cup {Pool}
             /\ UNCHANGED <<phase, pending>>

CancelLate(e) == /\ fate[e] = "late"
                 /\ Become(e, "cancelled")
                 /\ UNCHANGED <<phase, pending, pool, closed>>

Close(t) == /\ phase = "stopped"
            /\ closed' = closed \cup {t}
            /\ UNCHANGED <<phase, pending, pool, fate>>

Next == \/ Start \/ Halt
        \/ \E e \in Events : \/ Offer(e) \/ GivePool(e) \/ HandleDirectly(e)
                             \/ HandlePool(e) \/ CancelLate(e)
                             \/ \E t \in Targets : Give(e, t)
        \/ \E t \in Targets : Handle(t) \/ Close(t) \/ Drain(t)
        \/ DrainPool

Spec == Init /\ [][Next]_executorVars
=============================================================================
