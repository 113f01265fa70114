--------------------------- MODULE ChannelCenter ---------------------------
(***************************************************************************)
(* The registry of channelCenter_t.c: channels by ID.  It is the table of  *)
(* serviceCenter_t.c but for the IDs, in which a sequence number tells the *)
(* channels apart that had the same slot one after the other.              *)
(*                                                                         *)
(* An operation is one critical section of the rwlock; createChannel       *)
(* stores the ID in the channel after it, so that for a moment the table   *)
(* holds a channel whose uiID is whatever the memory held.                 *)
(***************************************************************************)
EXTENDS SlotTable, FiniteSets, Functions

CONSTANTS MaxSequence,     \* 0x7ff: where iSequence starts again at 1
          MaxRegistrations \* bound

Channels == Handles

ASSUME SequenceAssumption == MaxSequence \in Nat \ {0, 1}

VARIABLES
  s_pChannelCenter,  \* # NULL
  slots, stack, slotCapacity, iSequence,
  uiID,              \* channel_s.uiID: <<index + 1, sequence>>, or NoID
  life,              \* where each channel is in its life
  assigned,          \* what channelCenter_register returned to it
  granted,            \* history: the IDs given out, in order
  turn               \* history: the number of each channel's registration

centerTable == <<slots, stack, slotCapacity>>
centerVars == <<s_pChannelCenter, centerTable, iSequence, uiID, life, assigned, granted, turn>>

NoID == <<0, 0>>

CenterInit ==
  /\ s_pChannelCenter = TRUE
  /\ slots = [i \in 0..(InitialCapacity - 1) |-> NULL]
  /\ stack = FreeStack(0, InitialCapacity)
  /\ slotCapacity = InitialCapacity
  /\ iSequence = 1
  /\ uiID = [c \in Channels |-> NoID]
  /\ life = [c \in Channels |-> "none"]
  /\ assigned = [c \in Channels |-> NoID]
  /\ granted = <<>>
  /\ turn = [c \in Channels |-> 0]

\* Faulty variant: the sequence number does not move.
NextSequenceStuck(sequence) == sequence

NextSequence(sequence) == IF sequence + 1 = MaxSequence THEN 1 ELSE sequence + 1

\* channelCenter_register: c takes the slot on top of the stack.
Take(c, table, free) ==
  /\ slots' = [table EXCEPT ![Top(free)] = c]
  /\ stack' = Pop(free)
  /\ assigned' = [assigned EXCEPT ![c] = <<Top(free) + 1, iSequence>>]
  /\ granted' = Append(granted, <<Top(free) + 1, iSequence>>)
  /\ turn' = [turn EXCEPT ![c] = Len(granted) + 1]
  /\ iSequence' = NextSequence(iSequence)

TakeFree(c) == stack # <<>> /\ Take(c, slots, stack) /\ UNCHANGED slotCapacity

TakeGrowing(c) ==
  /\ stack = <<>> /\ slotCapacity # MaxCapacity
  /\ Take(c, Enlarged(slots, slotCapacity, [i \in Added(slotCapacity) |-> NULL]),
          FreeStack(slotCapacity, Grown(slotCapacity)))
  /\ slotCapacity' = Grown(slotCapacity)

TakeNone(c) ==
  /\ stack = <<>> /\ slotCapacity = MaxCapacity
  /\ assigned' = [assigned EXCEPT ![c] = NoID]
  /\ UNCHANGED <<centerTable, granted, turn, iSequence>>

\* createChannel as far as the registration; the new channel's memory held anything,
\* an ID that was given out before included.
CreateChannel(c) ==
  /\ s_pChannelCenter
  /\ life[c] = "none"
  /\ Len(granted) < MaxRegistrations
  /\ TakeFree(c) \/ TakeGrowing(c) \/ TakeNone(c)
  /\ life' = [life EXCEPT ![c] = "nameless"]
  /\ \E id \in Range(granted) \cup {NoID} : uiID' = [uiID EXCEPT ![c] = id]
  /\ UNCHANGED s_pChannelCenter

\* pHandle->uiID = channelCenter_register(pHandle)
StoreID(c) ==
  /\ life[c] = "nameless"
  /\ life' = [life EXCEPT ![c] = "named"]
  /\ uiID' = [uiID EXCEPT ![c] = assigned[c]]
  /\ UNCHANGED <<s_pChannelCenter, centerTable, iSequence, assigned, granted, turn>>

\* The channel an ID leads to, in channelCenter_deregister and channelCenter_gain.
Meant(id) ==
  IF /\ s_pChannelCenter
     /\ id[1] \in 1..slotCapacity
     /\ slots[id[1] - 1] # NULL
     /\ uiID[slots[id[1] - 1]] = id
  THEN slots[id[1] - 1] ELSE NULL

\* eventConnection_onUserFree: channelCenter_deregister and the reset of uiID.
FreeChannel(c) ==
  /\ life[c] = "named"
  /\ IF Meant(uiID[c]) # NULL
     THEN /\ slots' = [slots EXCEPT ![uiID[c][1] - 1] = NULL]
          /\ stack' = Append(stack, uiID[c][1] - 1)
     ELSE UNCHANGED <<slots, stack>>
  /\ uiID' = [uiID EXCEPT ![c] = NoID]
  /\ life' = [life EXCEPT ![c] = "none"]
  /\ UNCHANGED <<s_pChannelCenter, slotCapacity, iSequence, assigned, granted, turn>>

\* channelCenter_getIds: the IDs of the slots that are taken, in an array for as many as
\* are not free.
TakenSlots == {i \in DOMAIN slots : slots[i] # NULL}
Counted == slotCapacity - Len(stack)

\* channelCenter_clear: s_pChannelCenter is NULL before the calls of
\* channelCenter_deregister, which therefore do nothing: the channels stay as they are,
\* with the reference the table held.
ClearCenter ==
  /\ s_pChannelCenter
  /\ \A c \in Channels : life[c] # "nameless"
  /\ s_pChannelCenter' = FALSE
  /\ UNCHANGED <<centerTable, iSequence, uiID, life, assigned, granted, turn>>

CenterNext ==
  \/ \E c \in Channels : CreateChannel(c) \/ StoreID(c) \/ FreeChannel(c)
  \/ ClearCenter

CenterSpec == CenterInit /\ [][CenterNext]_centerVars

(***************************************************************************)
(* An ID that was given out leads to the channel it was given to, or to    *)
(* none once that has left; to another only when the sequence has gone     *)
(* round (channelCenter_register), or while that other has no ID of its    *)
(* own yet.  A channel that is in the table and has its ID is found, until *)
(* the center is cleared, and channelCenter_getIds has room for every ID.  *)
(***************************************************************************)
StaleIDsMiss ==
  /\ \A n \in DOMAIN granted :
       LET c == Meant(granted[n])
       IN  c = NULL \/ life[c] = "nameless" \/ turn[c] = n \/ turn[c] - n >= MaxSequence - 1
                    \/ n - turn[c] >= MaxSequence - 1
  /\ s_pChannelCenter =>
       \A c \in Channels : life[c] = "named" /\ assigned[c] # NoID => Meant(uiID[c]) = c
  /\ Cardinality(TakenSlots) = Counted
=============================================================================
