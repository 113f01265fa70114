------------------------------ MODULE Mailbox ------------------------------
(***************************************************************************)
(* What a service promises to those who send to it, whatever threads do    *)
(* the work: events are handed to the callback one at a time, in the order *)
(* they entered the mailbox, none twice and none skipped, until the stop   *)
(* event is reached; nothing is handed over after it.                      *)
(***************************************************************************)
EXTENDS Naturals, Sequences

CONSTANTS Events,    \* the messages that can be sent
          Stop       \* the event service_stop puts in the mailbox

VARIABLES accepted,  \* everything that entered the mailbox, in order
          delivered, \* what the callback has been given, in order
          phase      \* "starting", "open", "closed" or "failed"

mailboxVars == <<accepted, delivered, phase>>

Arrived == {accepted[i] : i \in 1..Len(accepted)}

NextEvent == accepted[Len(delivered) + 1]

Pending == Len(delivered) < Len(accepted)

Init == /\ accepted = <<>>
        /\ delivered = <<>>
        /\ phase = "starting"

(***************************************************************************)
(* A sender that saw the service running may still get its event in after  *)
(* the mailbox has closed: it is accepted and never delivered.             *)
(***************************************************************************)
Accept == /\ \E e \in (Events \cup {Stop}) \ Arrived : accepted' = Append(accepted, e)
          /\ UNCHANGED <<delivered, phase>>

Open == /\ phase = "starting"
        /\ phase' \in {"open", "failed"}
        /\ UNCHANGED <<accepted, delivered>>

Deliver == /\ phase = "open"
           /\ Pending
           /\ NextEvent # Stop
           /\ delivered' = Append(delivered, NextEvent)
           /\ UNCHANGED <<accepted, phase>>

Close == /\ phase = "open"
         /\ Pending
         /\ NextEvent = Stop
         /\ phase' = "closed"
         /\ UNCHANGED <<accepted, delivered>>

Next == Accept \/ Open \/ Deliver \/ Close

Spec == Init /\ [][Next]_mailboxVars
=============================================================================
