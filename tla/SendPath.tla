------------------------------ MODULE SendPath ------------------------------
(***************************************************************************)
(* The bytes of a connection's writes, on the loop's thread: what          *)
(* eventConnection_sendData hands to the socket, what waits for a writable *)
(* one, and what eventConnection_sendCompleteCallback makes of it.         *)
(* Connection has the life of the connection around it.                    *)
(***************************************************************************)
EXTENDS Integers, Sequences, FiniteSets, SequencesExt

CONSTANTS Shapes,     \* the writes, in order: [vec, parts], the lengths of their parts
          MaxIov,     \* entries of _BufferIO (64)
          MaxBatch,   \* g_nSendBufferMaxLength (8192)
          MaxRoom     \* bound: bytes the socket takes at once

ASSUME SendAssumption == /\ Shapes \in Seq([vec : BOOLEAN, parts : Seq(Nat)])
                         /\ MaxIov \in Nat \ {0}

VARIABLES
  queueWritePending,   \* the writes that wait, by number
  iWritePending, nWritePendingBytes, nWritten,
  writing,             \* the poll handle asks for a writable socket
  open,                \* no send has failed and the connection is not closed
  accepted, reported,  \* history: the writes handed to sendData, and reported
  onWire               \* history: the bytes the socket took, as <<write, position>>

sendVars == <<queueWritePending, iWritePending, nWritePendingBytes, nWritten, writing, open,
              accepted, reported, onWire>>

SendInit ==
  /\ queueWritePending = <<>> /\ iWritePending = 0 /\ nWritePendingBytes = 0 /\ nWritten = 0
  /\ writing = FALSE /\ open = TRUE
  /\ accepted = <<>> /\ reported = <<>> /\ onWire = <<>>

\* The sums of the first elements, up to all of them.
Sums(s) == LET upTo[i \in 0..Len(s)] == IF i = 0 THEN 0 ELSE upTo[i - 1] + s[i] IN upTo

Sum(s) == Sums(s)[Len(s)]

IsVec(w) == Shapes[w].vec

PartsOf(w) == Shapes[w].parts

Length(w) == Sum(PartsOf(w))

\* The bytes of a write from position i to position j.
Span(w, i, j) == [k \in 1..(j - i + 1) |-> <<w, i + k - 1>>]

\* send or writev: the socket takes what it has room for.
Taken(bytes, room) == SubSeq(bytes, 1, IF room < Len(bytes) THEN room ELSE Len(bytes))

\* Faulty variant: a write that waits is not counted.
EnqueueUncounted(w) ==
  /\ queueWritePending' = Append(queueWritePending, w)
  /\ nWritePendingBytes' = nWritePendingBytes + Length(w)
  /\ UNCHANGED iWritePending

Enqueue(w) ==
  /\ queueWritePending' = Append(queueWritePending, w)
  /\ iWritePending' = iWritePending + 1
  /\ nWritePendingBytes' = nWritePendingBytes + Length(w)

\* eventConnection_sendData.  Of a socket without room the code takes the -1 for
\* nothing left to send: the write is reported as sent, and dropped.
SendData(w, room) ==
  /\ open
  /\ w = Len(accepted) + 1
  /\ accepted' = Append(accepted, w)
  /\ IF writing
     THEN /\ Enqueue(w)
          /\ UNCHANGED <<nWritten, writing, reported, onWire>>
     ELSE LET bytes == Taken(Span(w, 1, Length(w)), room)
          IN  /\ onWire' = onWire \o bytes
              /\ IF room > 0 /\ Len(bytes) < Length(w)
                 THEN /\ Enqueue(w)
                      /\ nWritten' = Len(bytes)
                      /\ writing' = TRUE
                      /\ UNCHANGED reported
                 ELSE /\ reported' = Append(reported, <<w, TRUE>>)
                      /\ UNCHANGED <<queueWritePending, iWritePending, nWritePendingBytes,
                                     nWritten, writing>>
  /\ UNCHANGED open

\* The error path of eventConnection_sendData.
SendFails(w) ==
  /\ open /\ ~writing
  /\ w = Len(accepted) + 1
  /\ accepted' = Append(accepted, w)
  /\ reported' = Append(reported, <<w, FALSE>>)
  /\ open' = FALSE
  /\ UNCHANGED <<queueWritePending, iWritePending, nWritePendingBytes, nWritten, writing, onWire>>

-----------------------------------------------------------------------------
(* eventConnection_sendCompleteCallback *)

\* What the first loop, and eventConnection_handleClose, take off for each write of a
\* queue: nLength, which only a write of one part sets anew.
Lengths(queue) ==
  LET nLength[i \in 0..Len(queue)] ==
        IF i = 0 THEN 0
        ELSE Length(queue[i]) + IF IsVec(queue[i]) THEN nLength[i - 1] ELSE 0
  IN  [i \in 1..Len(queue) |-> nLength[i]]

\* It ends before the first write that nWritten does not cover; those before it leave
\* the queue.
Completed ==
  LET queue == queueWritePending
      gone  == Sums(Lengths(queue))
      ends  == {i \in 0..Len(queue) : i = Len(queue) \/ nWritten < gone[i + 1]}
      n     == CHOOSE i \in ends : \A j \in ends : i <= j
  IN  [queue |-> SubSeq(queue, n + 1, Len(queue)), nWritten |-> nWritten - gone[n],
       bytes |-> nWritePendingBytes - gone[n], done |-> [i \in 1..n |-> <<queue[i], TRUE>>]]

\* The parts of a write that one turn of the second loop puts into _BufferIO.
Entries(w, iCount) ==
  IF ~IsVec(w) THEN 1
  ELSE IF Len(PartsOf(w)) < (MaxIov - iCount + 1) \div 2 THEN Len(PartsOf(w))
  ELSE (MaxIov - iCount + 1) \div 2

\* The second loop fills _BufferIO until it is full or has enough; it looks at the head
\* of the queue each time.
Batch(w) ==
  LET turn[i \in 0..MaxIov] ==
        IF i = 0 THEN [iCount |-> 0, bytes |-> <<>>]
        ELSE LET p == turn[i - 1]
                 n == Entries(w, p.iCount)
             IN  [iCount |-> p.iCount + n,
                  bytes  |-> p.bytes \o Span(w, 1, Sum(SubSeq(PartsOf(w), 1, n)))]
      ends == {i \in 1..MaxIov : turn[i].iCount = MaxIov \/ Len(turn[i].bytes) >= MaxBatch}
  IN  turn[CHOOSE i \in ends : \A j \in ends : i <= j].bytes

\* What is offered to the socket: the rest of the head, or a batch.
Offered(s) ==
  LET w == Head(s.queue)
  IN  IF s.nWritten # 0 THEN Span(w, s.nWritten + 1, Length(w)) ELSE Batch(w)

SocketWritable(room) ==
  /\ open /\ writing
  /\ LET s == Completed
         left == Len(s.queue)
         bytes == IF left = 0 THEN <<>> ELSE Taken(Offered(s), room)
     IN  /\ queueWritePending' = s.queue
         /\ iWritePending' = iWritePending - Len(s.done)
         /\ nWritePendingBytes' = s.bytes
         /\ nWritten' = s.nWritten + Len(bytes)
         /\ reported' = reported \o s.done
         /\ onWire' = onWire \o bytes
         /\ writing' = (left > 0)
  /\ UNCHANGED <<open, accepted>>

\* The writes that have to be given up are reported, in order.
Failures(queue) == [i \in 1..Len(queue) |-> <<queue[i], FALSE>>]

\* A failing send, or one of nothing after which errno holds an older error, gives
\* up what is pending; of a write of several parts it discounts their number.
WritableFails ==
  /\ open /\ writing
  /\ LET s == Completed
     IN  /\ s.queue # <<>>
         /\ queueWritePending' = <<>>
         /\ iWritePending' = 0
         /\ nWritePendingBytes' = s.bytes
              - Sum([i \in 1..Len(s.queue) |->
                       IF IsVec(s.queue[i]) THEN Len(PartsOf(s.queue[i])) ELSE Length(s.queue[i])])
         /\ reported' = reported \o s.done \o Failures(s.queue)
  /\ nWritten' = 0
  /\ writing' = FALSE
  /\ open' = FALSE
  /\ UNCHANGED <<accepted, onWire>>

\* eventConnection_handleClose, as far as it is about writes.
DropAll ==
  /\ open
  /\ open' = FALSE
  /\ reported' = reported \o Failures(queueWritePending)
  /\ queueWritePending' = <<>>
  /\ iWritePending' = 0
  /\ nWritePendingBytes' = nWritePendingBytes - Sum(Lengths(queueWritePending))
  /\ nWritten' = IF queueWritePending = <<>> THEN nWritten ELSE 0
  /\ writing' = FALSE
  /\ UNCHANGED <<accepted, onWire>>

SendNext ==
  \/ \E w \in DOMAIN Shapes : SendFails(w) \/ \E room \in 0..MaxRoom : SendData(w, room)
  \/ \E room \in 0..MaxRoom : SocketWritable(room)
  \/ WritableFails
  \/ DropAll

SendSpec == SendInit /\ [][SendNext]_sendVars

-----------------------------------------------------------------------------
(* Properties *)

(* Each write is reported once, in the order of the sends, and until then it *)
(* waits and is counted, whatever the socket takes of it and however often   *)
(* it is offered; the bytes that are said to be pending are those that are,  *)
(* as long as no write has several parts.                                    *)
ReportsInOrder ==
  /\ accepted = [i \in 1..Len(reported) |-> reported[i][1]] \o queueWritePending
  /\ iWritePending = Len(queueWritePending)
  /\ (\A i \in 1..Len(accepted) : ~IsVec(accepted[i]))
       => nWritePendingBytes = Sum([i \in 1..Len(queueWritePending) |-> Length(queueWritePending[i])])

(* What the socket took is what was sent: every byte once, in order, without *)
(* a hole.  The unit tests compare what they receive with what they sent.    *)
WireInOrder ==
  IsPrefix(onWire, FlattenSeq([i \in 1..Len(accepted) |-> Span(accepted[i], 1, Length(accepted[i]))]))

=============================================================================
