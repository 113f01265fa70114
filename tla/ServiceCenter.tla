--------------------------- MODULE ServiceCenter ---------------------------
(***************************************************************************)
(* The registry of serviceCenter_t.c: services by ID and IDs by name.      *)
(* Every operation is one critical section of its rwlock; the two fields   *)
(* written outside it, service_s.uiServiceID after the registration and    *)
(* after the deregistration, have a step of their own.                     *)
(*                                                                         *)
(* An ID is the node's bits, the same for all of a process's services, and *)
(* the slot's index plus one: here just the latter.  0 is no ID.           *)
(***************************************************************************)
EXTENDS SlotTable, FiniteSets

CONSTANTS Threads,  \* threads that look services up
          Names     \* names, as numbers: the order of strcmp

Services == Handles

ASSUME NamesAreOrdered == Names \subseteq Nat

ASSUME ThreadsAreFinite == IsFiniteSet(Threads)

VARIABLES
  s_pServiceCenter,  \* # NULL
  slot, free, capacity,
  serviceNameTree,   \* the ID each name is bound to; 0 = not bound
  uiServiceID,       \* service_s.uiServiceID
  iRefCount,         \* service_s.iRefCount; 0 = freed
  stage,             \* where each service is in its life
  returned,          \* what serviceCenter_register returned to it
  issued,            \* the IDs that have been published
  held,              \* what serviceCenter_gain gave each thread
  found,             \* what serviceCenter_findServiceID gave each thread
  refused,           \* history: a registration found the table full
  boundTo,           \* history: the service that was meant by each name
  doubtful           \* history: IDs named twice, or named while unregistered

table == <<slot, free, capacity>>
nameVars == <<serviceNameTree, boundTo, doubtful>>
vars == <<s_pServiceCenter, table, nameVars, uiServiceID, iRefCount, stage, returned,
          issued, held, found, refused>>

IDs == 1..MaxCapacity

Init ==
  /\ s_pServiceCenter = TRUE
  /\ slot = [i \in 0..(InitialCapacity - 1) |-> NULL]
  /\ free = FreeStack(0, InitialCapacity)
  /\ capacity = InitialCapacity
  /\ serviceNameTree = [n \in Names |-> 0]
  /\ uiServiceID = [s \in Services |-> 0]
  /\ iRefCount = [s \in Services |-> 1]
  /\ stage = [s \in Services |-> "created"]
  /\ returned = [s \in Services |-> 0]
  /\ issued = {}
  /\ held = [t \in Threads |-> NULL]
  /\ found = [t \in Threads |-> 0]
  /\ refused = FALSE
  /\ boundTo = [n \in Names |-> NULL]
  /\ doubtful = {}

Registered(id) == id \in 1..capacity /\ slot[id - 1] \in Services

-----------------------------------------------------------------------------
(* serviceCenter_register, called from service_start. *)

\* s takes the slot on top of a stack.
Occupy(s, slots, stack) ==
  /\ slot' = [slots EXCEPT ![Top(stack)] = s]
  /\ free' = Pop(stack)
  /\ iRefCount' = [iRefCount EXCEPT ![s] = @ + 1]
  /\ returned' = [returned EXCEPT ![s] = Top(stack) + 1]

RegisterFree(s) ==
  /\ free # <<>>
  /\ Occupy(s, slot, free)
  /\ UNCHANGED <<capacity, refused>>

\* Faulty variant: the stack is refilled with the old indices as well.
RegisterGrowingTwice(s) ==
  /\ free = <<>>
  /\ capacity < MaxCapacity
  /\ \E fill \in [Added(capacity) -> {NULL, Garbage}] :
       Occupy(s, Enlarged(slot, capacity, fill), FreeStack(0, Grown(capacity)))
  /\ capacity' = Grown(capacity)
  /\ UNCHANGED refused

\* realloc leaves the new slots as it found them.
RegisterGrowing(s) ==
  /\ free = <<>>
  /\ capacity < MaxCapacity
  /\ \E fill \in [Added(capacity) -> {NULL, Garbage}] :
       Occupy(s, Enlarged(slot, capacity, fill), FreeStack(capacity, Grown(capacity)))
  /\ capacity' = Grown(capacity)
  /\ UNCHANGED refused

RegisterFull(s) ==
  /\ free = <<>>
  /\ capacity = MaxCapacity
  /\ refused' = TRUE
  /\ UNCHANGED <<table, iRefCount, returned>>

Register(s) ==
  /\ stage[s] = "created"
  /\ stage' = [stage EXCEPT ![s] = "registered"]
  /\ RegisterFree(s) \/ RegisterGrowing(s) \/ RegisterFull(s)
  /\ UNCHANGED <<s_pServiceCenter, nameVars, uiServiceID, issued, held, found>>

\* pService->uiServiceID = serviceCenter_register(pService)
SetID(s) ==
  /\ stage[s] = "registered"
  /\ stage' = [stage EXCEPT ![s] = "running"]
  /\ uiServiceID' = [uiServiceID EXCEPT ![s] = returned[s]]
  /\ issued' = issued \cup ({returned[s]} \ {0})
  /\ UNCHANGED <<s_pServiceCenter, table, nameVars, iRefCount, returned, held, found,
                 refused>>

-----------------------------------------------------------------------------
(* Names. *)

NamesOf(id) == {n \in Names : serviceNameTree[n] = id}

\* serviceCenter_removeName: the first of the ID's names in the tree's order.
RemoveFirst(id) ==
  [n \in Names |-> IF n \in NamesOf(id) /\ \A m \in NamesOf(id) : n <= m
                   THEN 0 ELSE serviceNameTree[n]]

RemoveName(id) ==
  /\ serviceNameTree' = RemoveFirst(id)
  /\ doubtful' = {d \in doubtful : \E n \in Names : RemoveFirst(id)[n] = d}
  /\ UNCHANGED boundTo

\* Nothing asks whether the ID is registered.
BindName(id, n) ==
  /\ id \in issued
  /\ serviceNameTree[n] = 0
  /\ serviceNameTree' = [serviceNameTree EXCEPT ![n] = id]
  /\ boundTo' = [boundTo EXCEPT ![n] = slot[id - 1]]
  /\ doubtful' = IF Registered(id) /\ NamesOf(id) = {} THEN doubtful ELSE doubtful \cup {id}
  /\ UNCHANGED <<s_pServiceCenter, table, uiServiceID, iRefCount, stage, returned, issued,
                 held, found, refused>>

\* lservice_unbindName looks the name up ...
FindName(t, n) ==
  /\ found[t] = 0
  /\ serviceNameTree[n] # 0
  /\ found' = [found EXCEPT ![t] = serviceNameTree[n]]
  /\ UNCHANGED <<s_pServiceCenter, table, nameVars, uiServiceID, iRefCount, stage, returned,
                 issued, held, refused>>

\* ... and has the ID's first name removed.
UnbindName(t) ==
  /\ found[t] # 0
  /\ RemoveName(found[t])
  /\ found' = [found EXCEPT ![t] = 0]
  /\ UNCHANGED <<s_pServiceCenter, table, uiServiceID, iRefCount, stage, returned, issued,
                 held, refused>>

-----------------------------------------------------------------------------
(* serviceCenter_deregister and serviceCenter_gain. *)

\* The slot an ID leads to holds a service that has that ID.
Hit(id) == slot[id - 1] \in Services /\ uiServiceID[slot[id - 1]] = id

\* Faulty variant: the slot is emptied and not given back.
DeregisterLeaking(s) ==
  /\ stage[s] = "running"
  /\ stage' = [stage EXCEPT ![s] = "leaving"]
  /\ IF uiServiceID[s] # 0 /\ Hit(uiServiceID[s])
     THEN /\ RemoveName(uiServiceID[s])
          /\ slot' = [slot EXCEPT ![uiServiceID[s] - 1] = NULL]
          /\ iRefCount' = [iRefCount EXCEPT ![s] = @ - 1]
     ELSE UNCHANGED <<nameVars, slot, iRefCount>>
  /\ UNCHANGED <<s_pServiceCenter, free, capacity, uiServiceID, returned, issued, held, found,
                 refused>>

\* Faulty variant: the names stay.
DeregisterNamed(s) ==
  /\ stage[s] = "running"
  /\ stage' = [stage EXCEPT ![s] = "leaving"]
  /\ IF uiServiceID[s] # 0 /\ Hit(uiServiceID[s])
     THEN /\ slot' = [slot EXCEPT ![uiServiceID[s] - 1] = NULL]
          /\ free' = Append(free, uiServiceID[s] - 1)
          /\ iRefCount' = [iRefCount EXCEPT ![s] = @ - 1]
     ELSE UNCHANGED <<slot, free, iRefCount>>
  /\ UNCHANGED <<nameVars, s_pServiceCenter, capacity, uiServiceID, returned, issued, held,
                 found, refused>>

\* The stop event of s.
Deregister(s) ==
  /\ stage[s] = "running"
  /\ stage' = [stage EXCEPT ![s] = "leaving"]
  /\ IF uiServiceID[s] # 0 /\ Hit(uiServiceID[s])
     THEN /\ RemoveName(uiServiceID[s])
          /\ slot' = [slot EXCEPT ![uiServiceID[s] - 1] = NULL]
          /\ free' = Append(free, uiServiceID[s] - 1)
          /\ iRefCount' = [iRefCount EXCEPT ![slot[uiServiceID[s] - 1]] = @ - 1]
     ELSE UNCHANGED <<nameVars, slot, free, iRefCount>>
  /\ UNCHANGED <<s_pServiceCenter, capacity, uiServiceID, returned, issued, held, found,
                 refused>>

\* uiServiceID = 0; then the service's own last reference goes (the watcher's).
Leave(s) ==
  /\ stage[s] = "leaving"
  /\ stage' = [stage EXCEPT ![s] = "gone"]
  /\ uiServiceID' = [uiServiceID EXCEPT ![s] = 0]
  /\ iRefCount' = [iRefCount EXCEPT ![s] = @ - 1]
  /\ UNCHANGED <<s_pServiceCenter, table, nameVars, returned, issued, held, found, refused>>

\* Faulty variant: no reference is taken.
GainUncounted(t, id) ==
  /\ held[t] = NULL
  /\ id \in issued
  /\ Hit(id)
  /\ held' = [held EXCEPT ![t] = slot[id - 1]]
  /\ UNCHANGED <<s_pServiceCenter, table, nameVars, uiServiceID, iRefCount, stage, returned,
                 issued, found, refused>>

Gain(t, id) ==
  /\ held[t] = NULL
  /\ id \in issued
  /\ Hit(id)
  /\ held' = [held EXCEPT ![t] = slot[id - 1]]
  /\ iRefCount' = [iRefCount EXCEPT ![slot[id - 1]] = @ + 1]
  /\ UNCHANGED <<s_pServiceCenter, table, nameVars, uiServiceID, stage, returned, issued,
                 found, refused>>

\* service_release
Release(t) ==
  /\ held[t] # NULL
  /\ iRefCount' = [iRefCount EXCEPT ![held[t]] = @ - 1]
  /\ held' = [held EXCEPT ![t] = NULL]
  /\ UNCHANGED <<s_pServiceCenter, table, nameVars, uiServiceID, stage, returned, issued,
                 found, refused>>

\* serviceCenter_clear, called by lenv_exit when the loop threads are gone.  It
\* clears s_pServiceCenter before it calls serviceCenter_deregister, which then
\* does nothing: every reference stays.  The ID that it passes it reads from every slot
\* that is not NULL, Garbage too: what comes of that is undefined, and left out, for
\* nothing follows this step.
Clear ==
  /\ \A t \in Threads : held[t] = NULL /\ found[t] = 0
  /\ s_pServiceCenter' = FALSE
  /\ UNCHANGED <<table, nameVars, uiServiceID, iRefCount, stage, returned, issued, held,
                 found, refused>>

ServiceNext(s) == Register(s) \/ SetID(s) \/ Deregister(s) \/ Leave(s)

ThreadNext(t) == \/ \E id \in IDs, n \in Names : BindName(id, n)
                 \/ \E n \in Names : FindName(t, n)
                 \/ \E id \in IDs : Gain(t, id)
                 \/ UnbindName(t)
                 \/ Release(t)

\* Every operation starts by testing s_pServiceCenter.
Next == /\ s_pServiceCenter
        /\ \/ \E s \in Services : ServiceNext(s)
           \/ \E t \in Threads : ThreadNext(t)
           \/ Clear

Spec == Init /\ [][Next]_vars

-----------------------------------------------------------------------------
Stages == {"created", "registered", "running", "leaving", "gone"}

TypeOK ==
  /\ s_pServiceCenter \in BOOLEAN
  /\ capacity \in InitialCapacity..MaxCapacity
  /\ slot \in [0..(capacity - 1) -> Services \cup {NULL, Garbage}]
  /\ free \in Seq(0..(capacity - 1))
  /\ serviceNameTree \in [Names -> IDs \cup {0}]
  /\ uiServiceID \in [Services -> IDs \cup {0}]
  /\ iRefCount \in [Services -> Int]
  /\ stage \in [Services -> Stages]
  /\ returned \in [Services -> IDs \cup {0}]
  /\ issued \subseteq IDs
  /\ held \in [Threads -> Services \cup {NULL}]
  /\ found \in [Threads -> IDs \cup {0}]
  /\ refused \in BOOLEAN
  /\ boundTo \in [Names -> Services \cup {NULL, Garbage}]
  /\ doubtful \subseteq IDs

(***************************************************************************)
(* Register and deregister in any order, growing included, never lose a    *)
(* slot and never give one out twice.                                      *)
(***************************************************************************)
SlotsPartitioned == Partitioned(slot, free, capacity)

(***************************************************************************)
(* The ID a running service published leads back to it, however often the  *)
(* slots around it are given up and taken again; and an ID that was ever   *)
(* published never leads to memory that was not written.                   *)
(***************************************************************************)
IdsLeadHome ==
  /\ \A s \in Services : stage[s] = "running" /\ uiServiceID[s] # 0 =>
       slot[uiServiceID[s] - 1] = s
  /\ \A id \in issued : slot[id - 1] # Garbage

(***************************************************************************)
(* Nothing the center or a thread can reach has been freed: the reference  *)
(* is taken in the same critical section that finds the service.           *)
(***************************************************************************)
NoDangling ==
  /\ \A i \in 0..(capacity - 1) : slot[i] \in Services => iRefCount[slot[i]] > 0
  /\ \A t \in Threads : held[t] # NULL => iRefCount[held[t]] > 0

(***************************************************************************)
(* A name leads to the service it was bound to, or to none, also after the *)
(* slot and with it the ID has gone to another service; provided the       *)
(* service had one name, bound while it was registered.  (Only one name is *)
(* removed with a service, and bindName does not ask whether there is one.)*)
(***************************************************************************)
NamesFollowServices ==
  \A n \in Names : LET id == serviceNameTree[n] IN
    id # 0 /\ id \notin doubtful => slot[id - 1] = boundTo[n]
=============================================================================
