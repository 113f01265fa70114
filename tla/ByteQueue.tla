------------------------------ MODULE ByteQueue ------------------------------
(***************************************************************************)
(* byteQueue_t, the ring of bytes behind every connection's reads and the  *)
(* Lua buffer, against the sequence of bytes it stands for.                *)
(*                                                                         *)
(* The queue is its capacity, its two indices and its cells.  An empty     *)
(* queue has its read index at the capacity; a full one has both indices   *)
(* on the same cell.  A cell that holds no byte of the content is Junk: a  *)
(* byte read from it would show.                                           *)
(***************************************************************************)
EXTENDS Integers, Sequences

CONSTANTS Align,      \* 256: what byteQueue_write rounds capacities to
          Spare,      \* g_nRecvBufferMaxLength
          Texts,      \* the sequences of bytes that are written or received
          MaxContent  \* bound: bytes in the queue

\* A write of no bytes fails an assertion.
ASSUME ByteQueueAssumption == /\ Align \in Nat \ {0} /\ Spare \in Nat \ {0} /\ MaxContent \in Nat
                              /\ Texts \subseteq Seq(STRING) /\ <<>> \notin Texts

CR == "\r"
LF == "\n"
Junk == "?"

VARIABLES queue,    \* byteQueue_t
          content,  \* the sequence it stands for
          exact,    \* the last read gave what the sequence gives
          strayed   \* a search ran into bytes before the buffer and took one for an LF

byteQueueVars == <<queue, content, exact, strayed>>

Cells(n) == [i \in 0..(n - 1) |-> Junk]

\* byteQueue_init, byteQueue_clear and byteQueue_swapBuffer: an empty queue, one
\* without cells, and a view of bytes that lie in a buffer already.
Fresh(cap) == [cap |-> cap, rd |-> cap, wr |-> 0, mem |-> Cells(cap)]
View(bytes) == [cap |-> Len(bytes), rd |-> Len(bytes), wr |-> Len(bytes),
                mem |-> [i \in 0..(Len(bytes) - 1) |-> bytes[i + 1]]]

ByteQueueInit == /\ queue = Fresh(0)
                 /\ content = <<>>
                 /\ exact = TRUE /\ strayed = FALSE

-----------------------------------------------------------------------------
Empty(q)    == q.rd = q.cap
BytesReadable(q) == IF q.wr > q.rd THEN q.wr - q.rd ELSE q.wr + (q.cap - q.rd)
BytesWritable(q) == IF q.rd >= q.wr THEN q.rd - q.wr ELSE q.rd + (q.cap - q.wr)

\* The bytes that can be read, and the room that can be written, without wrapping.
ContiguousRead(q)  == IF q.wr > q.rd THEN q.wr - q.rd ELSE q.cap - q.rd
ContiguousWrite(q) == IF q.rd >= q.wr THEN q.rd - q.wr ELSE q.cap - q.wr

\* n bytes of the buffer from an index.
Slice(q, from, n) == [i \in 1..n |-> q.mem[from + i - 1]]

\* The first n bytes, in one part or in two.
FirstBytes(q, n) ==
    IF ContiguousRead(q) >= n
    THEN Slice(q, q.rd, n)
    ELSE Slice(q, q.rd, ContiguousRead(q)) \o Slice(q, 0, n - ContiguousRead(q))

\* byteQueue_readOffset; the cells that are left behind are Junk.
ReadOffset(q, n) ==
    IF BytesReadable(q) = n
    THEN Fresh(q.cap)
    ELSE [q EXCEPT !.rd = (@ + n) % q.cap,
                   !.mem = [i \in DOMAIN @ |->
                              IF (i + q.cap - (q.rd % q.cap)) % q.cap < n THEN Junk ELSE @[i]]]

\* Faulty variant: the read index stays at the end of an empty queue.
WriteOffsetKeeping(q, n) == [q EXCEPT !.wr = (@ + n) % q.cap]

\* byteQueue_writeOffset, and the end of every write.
WriteOffset(q, n) == [q EXCEPT !.wr = (@ + n) % q.cap, !.rd = IF @ = q.cap THEN 0 ELSE @]

\* The bytes put at the write index: up to the end, and the rest from the start.
PutBytes(q, bytes) ==
    LET k == ContiguousWrite(q)
    IN  [q EXCEPT !.mem = [i \in DOMAIN @ |->
            CASE i >= q.wr /\ i - q.wr < k /\ i - q.wr < Len(bytes) -> bytes[i - q.wr + 1]
              [] k < Len(bytes) /\ i < Len(bytes) - k               -> bytes[k + i + 1]
              [] OTHER -> @[i]]]

\* The content copied to the start of a new buffer.
Moved(q, cap) ==
    IF Empty(q) THEN Fresh(cap)
    ELSE LET n == BytesReadable(q)
             k == ContiguousRead(q)
         IN  [cap |-> cap, rd |-> 0, wr |-> n,
              mem |-> [i \in 0..(cap - 1) |->
                         CASE i < k            -> q.mem[q.rd + i]
                           [] i >= k /\ i < n  -> q.mem[i - k]
                           [] OTHER            -> Junk]]

Aligned(n) == ((n + Align - 1) \div Align) * Align

\* byteQueue_write and byteQueue_writeChar double the room and round it up;
\* byteQueue_writeBytes adds what is missing.
Room(q, n) == CASE q.cap = 0                         -> Fresh(Aligned(n))
                [] q.cap # 0 /\ n > BytesWritable(q) ->
                     Moved(q, Aligned(2 * q.cap + n - BytesWritable(q)))
                [] OTHER                             -> q

RoomBytes(q, n) == CASE q.cap = 0                         -> Fresh(n)
                     [] q.cap # 0 /\ n > BytesWritable(q) -> Moved(q, q.cap + n - BytesWritable(q))
                     [] OTHER                             -> q

Written(q, bytes)      == WriteOffset(PutBytes(Room(q, Len(bytes)), bytes), Len(bytes))
WrittenBytes(q, bytes) == WriteOffset(PutBytes(RoomBytes(q, Len(bytes)), bytes), Len(bytes))

\* byteQueue_reserve: a capacity below the content is refused.
Reserved(q, cap) == IF BytesReadable(q) > cap THEN q ELSE Moved(q, cap)

-----------------------------------------------------------------------------
(* eventConnection_handleRecv *)

\* n bytes of the socket: into the room there is, and what is more into the spare
\* buffer and from there behind it.
Received(q, bytes) ==
    LET w == BytesWritable(q)
        n == Len(bytes)
    IN  CASE w = 0             -> WrittenBytes(q, bytes)
          [] w # 0 /\ n <= w   -> WriteOffset(PutBytes(q, bytes), n)
          [] w # 0 /\ n > w    -> WrittenBytes(WriteOffset(PutBytes(q, SubSeq(bytes, 1, w)), w),
                                               SubSeq(bytes, w + 1, n))

\* How much one recv or readv may bring.
MayReceive(q) ==
    LET w == BytesWritable(q)
    IN  IF w = 0 \/ w < Spare THEN w + Spare ELSE w

Max2(a, b) == IF a > b THEN a ELSE b

\* The receive callback takes n bytes; a queue that was less than half full shrinks.
Consumed(q, n) ==
    LET left == IF n = 0 THEN q ELSE ReadOffset(q, n)
    IN  IF BytesReadable(q) * 2 < q.cap THEN Reserved(left, Max2(Align, q.cap \div 2)) ELSE left

Recv(bytes, n) ==
    /\ Len(bytes) <= MayReceive(queue)
    /\ n <= BytesReadable(Received(queue, bytes))
    /\ queue' = Consumed(Received(queue, bytes), n)
    /\ content' = SubSeq(content \o bytes, n + 1, Len(content \o bytes))
    /\ UNCHANGED <<exact, strayed>>

-----------------------------------------------------------------------------
(* The other calls: the Lua buffer's and the codecs' *)

Set(q, c) == queue' = q /\ content' = c /\ UNCHANGED <<exact, strayed>>

New(cap)      == content = <<>> /\ Set(Fresh(cap), <<>>)
Clear         == Set(Fresh(0), <<>>)
Reset         == Set(Fresh(queue.cap), <<>>)
Reserve(cap)  == queue.cap # 0 /\ Set(Reserved(queue, cap), content)
SwapBuffer(b) == Set(View(b), b)

WriteTo(bytes)      == Set(Written(queue, bytes), content \o bytes)
WriteBytesTo(bytes) == Set(WrittenBytes(queue, bytes), content \o bytes)

\* A read of n bytes that gives bytes, where the sequence gives what its reader expects.
Gives(bytes, expected, q, n) ==
    /\ exact' = (bytes = expected)
    /\ queue' = q
    /\ content' = SubSeq(content, n + 1, Len(content))
    /\ UNCHANGED strayed

\* lbuffer_read: all of n bytes or none.
Read(n) ==
    IF n > BytesReadable(queue)
    THEN n > Len(content) /\ Gives(<<>>, <<>>, queue, 0)
    ELSE Gives(FirstBytes(queue, n), SubSeq(content, 1, n), ReadOffset(queue, n), n)

\* byteQueue_readBytes: at most n bytes; peek leaves them.
ReadBytes(n, peek) ==
    LET k == IF BytesReadable(queue) < n THEN BytesReadable(queue) ELSE n
    IN  /\ k # 0
        /\ LET front == SubSeq(content, 1, IF Len(content) < n THEN Len(content) ELSE n)
           IN  IF peek THEN Gives(FirstBytes(queue, k), front, queue, 0)
                       ELSE Gives(FirstBytes(queue, k), front, ReadOffset(queue, k), k)

\* lbuffer_readAll
ReadAll ==
    /\ ~Empty(queue)
    /\ Gives(FirstBytes(queue, BytesReadable(queue)), content,
             ReadOffset(queue, BytesReadable(queue)), Len(content))

\* memchr for LF from index from of n bytes of the buffer: 0 for none, else one more
\* than the index where it is.
FindLF(q, from, n) ==
    LET hits == {i \in from..(from + n - 1) : q.mem[i] = LF}
    IN  IF hits = {} THEN 0 ELSE 1 + CHOOSE i \in hits : \A j \in hits : i <= j

Wraps(q) == BytesReadable(q) # ContiguousRead(q)

\* The length of the line that is found from offset on, the line end included, or 0.
LineInFirst(q, offset, crlf) ==
    LET hit == FindLF(q, q.rd + offset, ContiguousRead(q) - offset)
        n   == hit - 1 - q.rd
    IN  IF /\ offset < ContiguousRead(q) /\ hit # 0
           /\ crlf => n > 0 /\ q.mem[q.rd + n - 1] = CR
        THEN n + 1 ELSE 0

\* The search in the second part starts at offset - nReadBytes and goes on for
\* nWritten - offset bytes: where the first is negative, it begins in front of the buffer.
LineInSecond(q, offset, crlf) ==
    LET k     == ContiguousRead(q)
        start == IF offset < k THEN 0 ELSE offset - k
        hit   == FindLF(q, start, BytesReadable(q) - k - start)
        n     == hit - 1
    IN  IF /\ hit # 0
           /\ crlf => (IF n > 0 THEN q.mem[n - 1] ELSE q.mem[q.rd + k - 1]) = CR
        THEN k + n + 1 ELSE 0

LineLength(q, offset, crlf) ==
    LET first == LineInFirst(q, offset, crlf)
    IN  IF first # 0 \/ ~Wraps(q) THEN first ELSE LineInSecond(q, offset, crlf)

\* An LF at i without a CR in front of it: the search for a CRLF gives up there, or goes
\* on in the second part.
Lone(bytes, i) == bytes[i] = LF /\ (i = 1 \/ bytes[i - 1] # CR)

\* The bytes are one line with its end: no line ends in them before, from offset on,
\* but with CRLF behind a lone LF.
IsLine(bytes, offset, crlf) ==
    LET n == Len(bytes)
    IN  /\ n > offset /\ bytes[n] = LF
        /\ crlf => ~Lone(bytes, n)
        /\ \A i \in (offset + 1)..(n - 1) :
              bytes[i] = LF => crlf /\ \E j \in (offset + 1)..i : Lone(bytes, j)

Lines(offset, crlf) == {n \in 1..Len(content) : IsLine(SubSeq(content, 1, n), offset, crlf)}

Blocked(offset) == \E i \in (offset + 1)..Len(content) : Lone(content, i)

\* lbuffer_readLineEOL and lbuffer_readLineCRLF: the line with its end.
ReadLine(offset, crlf) ==
    LET n == LineLength(queue, offset, crlf)
    IN  /\ offset < BytesReadable(queue)
        /\ IF n = 0
           THEN Gives(<<>>, IF Lines(offset, crlf) = {} \/ (crlf /\ Blocked(offset))
                            THEN <<>> ELSE content, queue, 0)
           ELSE Gives(FirstBytes(queue, n),
                      IF n \in Lines(offset, crlf) THEN SubSeq(content, 1, n) ELSE <<>>,
                      ReadOffset(queue, n), n)

\* A search that begins in front of the buffer may find an LF there: what the call
\* then reads is outside the queue.
ReadLineStrays(offset, crlf) ==
    /\ offset < ContiguousRead(queue) /\ Wraps(queue)
    /\ LineInFirst(queue, offset, crlf) = 0
    /\ strayed' = TRUE
    /\ UNCHANGED <<queue, content, exact>>

\* A view is only read, a part at a time, by the Lua frame buffers.
IsView == queue.cap # 0 /\ queue.rd = queue.cap /\ queue.wr = queue.cap

WriteSome == \E b \in Texts : /\ Len(content) + Len(b) <= MaxContent
                              /\ \/ WriteTo(b)
                                 \/ WriteBytesTo(b)
                                 \/ \E n \in 0..MaxContent : Recv(b, n)

ReadSome == \/ \E n \in 0..MaxContent : Read(n)
            \/ \E n \in 1..MaxContent, peek \in BOOLEAN : ReadBytes(n, peek)

ReadLines == \E offset \in 0..MaxContent, crlf \in BOOLEAN :
                ReadLine(offset, crlf) \/ ReadLineStrays(offset, crlf)

Resize == \/ \E n \in 1..MaxContent : Reserve(n) \/ New(n)
          \/ \E b \in Texts : SwapBuffer(b)

ByteQueueNext ==
    /\ ~strayed
    /\ \/ ReadSome
       \/ Clear
       \/ ~IsView /\ (WriteSome \/ ReadLines \/ Resize \/ ReadAll \/ Reset)

ByteQueueSpec == ByteQueueInit /\ [][ByteQueueNext]_byteQueueVars

-----------------------------------------------------------------------------
(* The queue is the sequence of the bytes written and not yet read: whatever *)
(* the writes, reads, shrinkings and growths before it, its indices span     *)
(* that sequence, every read gives the front of it, and a line is cut where  *)
(* it ends.  It fills up without an overwrite, and every cell is either      *)
(* readable or writable.                                                     *)
QueueIsSequence ==
    /\ BytesReadable(queue) = Len(content)
    /\ FirstBytes(queue, Len(content)) = content
    /\ content # <<>> => BytesReadable(queue) + BytesWritable(queue) = queue.cap
    /\ exact
==============================================================================
