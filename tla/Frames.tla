------------------------------- MODULE Frames --------------------------------
(***************************************************************************)
(* The frame codecs (tpack, webSocket, the MySQL packet) and the streams   *)
(* that write messages as frames and cut the bytes that arrive into frames *)
(* again, with the Lua frame buffers that join fragments.                  *)
(*                                                                         *)
(* One direction of one connection: what one end writes, the other end     *)
(* receives, in pieces of any size.  A byte is a number below 256; a       *)
(* length of two bytes is written in base Digit, so that 0xffff, where     *)
(* messages are split into fragments, is Digit * Digit - 1.                *)
(***************************************************************************)
EXTENDS Naturals, Sequences, SequencesExt, Bitwise

CONSTANTS Digit,        \* 256: what one byte of a two-byte length counts
          TpackShort,   \* 0xff: below it a length takes one byte in tpack
          SocketShort,  \* 126: the same in webSocket
          Payloads,     \* what is written first, as sequences of bytes
          Parts,        \* what is written later, and the buffers of fnWriteMove
          Token,        \* the four bytes of a token
          Mask,         \* the four bytes of a webSocket mask
          FrameRoom,    \* the size a service gives its frame buffer (lnew)
          MaxWrites     \* how many messages are written

ASSUME FramesAssumption == Digit \in Nat \ {0, 1} /\ MaxWrites \in Nat

Fragment == Digit * Digit - 1

VARIABLES codec,      \* "tpack", "webSocket" or "mysql"
          sent,       \* the messages written so far
          seqid,      \* mysqlStream_t.uiSeqid
          wire,       \* bytes on their way
          received,   \* the read queue of the receiving connection
          joined,     \* the Lua frame buffer: the fragments so far
          messages,   \* the messages the receiving service got
          refused     \* fnReceive returned false

framesVars == <<codec, sent, seqid, wire, received, joined, messages, refused>>

FramesInit == /\ codec \in {"tpack", "webSocket", "mysql"}
              /\ sent = <<>> /\ seqid = 1 /\ wire = <<>> /\ received = <<>>
              /\ joined = [op |-> 0, token |-> <<>>, bytes |-> <<>>, room |-> FrameRoom]
              /\ messages = <<>>
              /\ refused = FALSE

(***************************************************************************)
(* Encoding.  A frame is its bytes and the room that was allocated for it. *)
(***************************************************************************)
\* How many frames a message of n bytes takes, and the part in frame j.
FrameCount(n)    == n \div Fragment + 1
FramePart(p, j)  == SubSeq(p, (j - 1) * Fragment + 1,
                           IF j = FrameCount(Len(p)) THEN Len(p) ELSE j * Fragment)

FlagByte(op, fin) == op + (IF fin THEN 128 ELSE 0)

\* The opcodes whose frames carry a token: close, pong, ping, call, reply.
TokenOps == 3..7

TpackLength(n) == IF n < TpackShort THEN <<n>> ELSE <<255, n \div Digit, n % Digit>>

\* Frame j of a message: the first holds the opcode, the last the final flag, and
\* every one the token.
TpackFrame(p, op, token, j) ==
    LET part == FramePart(p, j)
        last == j = FrameCount(Len(p))
        head == <<FlagByte(IF j = 1 THEN op ELSE 0, last)>> \o TpackLength(Len(part))
                \o (IF op \in TokenOps THEN token ELSE <<>>)
    IN  [bytes |-> head \o part, room |-> Len(head) + Len(part)]

tpack_encodeVec(bufs, op, token) ==
    LET p == FlattenSeq(bufs)
    IN  [j \in 1..FrameCount(Len(p)) |-> TpackFrame(p, op, token, j)]

\* In a message of several frames the room for a frame before the last leaves out
\* the payload if there is a token, and that for a short last one if there is none.
tpack_encode(p, op, token) ==
    [j \in 1..FrameCount(Len(p)) |->
        LET frame == TpackFrame(p, op, token, j)
        IN  CASE j < FrameCount(Len(p)) /\ op \in TokenOps -> [frame EXCEPT !.room = 8]
              [] j = FrameCount(Len(p)) /\ j > 1 /\ op \notin TokenOps
                 /\ Len(FramePart(p, j)) < TpackShort -> [frame EXCEPT !.room = 2]
              [] OTHER -> frame]

\* The opcode webSocket writes for a flag.
SocketOp(op) == CASE op = 1 -> 1 [] op = 2 -> 2 [] op = 3 -> 8 [] op = 5 -> 9 [] op = 4 -> 10
                  [] OTHER -> 1

SocketLength(n, long) == IF n < SocketShort THEN <<n>> ELSE <<long, n \div Digit, n % Digit>>

SocketFrame(p, op, j, long) ==
    LET part == FramePart(p, j)
        last == j = FrameCount(Len(p))
        head == <<FlagByte(IF j = 1 THEN SocketOp(op) ELSE 0, last)>>
                \o SocketLength(Len(part), IF last THEN 126 ELSE long)
    IN  [bytes |-> head \o part, room |-> Len(head) + Len(part)]

webSocket_encode(p, op) == [j \in 1..FrameCount(Len(p)) |-> SocketFrame(p, op, j, 126)]

\* From several buffers the frames before the last are marked 0xff.
webSocket_encodeVec(bufs, op) ==
    LET p == FlattenSeq(bufs)
    IN  [j \in 1..FrameCount(Len(p)) |-> SocketFrame(p, op, j, 255)]

\* A MySQL packet: three bytes of length, low byte first, the sequence number, the
\* payload.  MAX_MYSQL_PAYLOAD is Fragment here.
PacketCount(n) == (n + Fragment - 1) \div Fragment
Packet(part, seq) ==
    [bytes |-> <<Len(part) % Digit, (Len(part) \div Digit) % Digit, 0, seq>> \o part,
     room  |-> 4 + Len(part)]

\* The j-th part of p in packets.
PacketPart(p, j) == SubSeq(p, (j - 1) * Fragment + 1,
                           IF j = PacketCount(Len(p)) THEN Len(p) ELSE j * Fragment)

\* From one buffer every packet is copied from its start.
mysql_encode(p, seq) ==
    [j \in 1..PacketCount(Len(p)) |-> Packet(SubSeq(p, 1, Len(PacketPart(p, j))), seq + j - 1)]

mysql_encodeVec(bufs, seq) ==
    LET p == FlattenSeq(bufs)
    IN  [j \in 1..PacketCount(Len(p)) |-> Packet(PacketPart(p, j), seq + j - 1)]

(***************************************************************************)
(* Writing                                                                 *)
(***************************************************************************)
Encoded(p, op) == CASE codec = "tpack"     -> tpack_encode(p, op, Token)
                    [] codec = "webSocket" -> webSocket_encode(p, op)
                    [] codec = "mysql"     -> mysql_encode(p, seqid)

EncodedVec(bufs, op) == CASE codec = "tpack"     -> tpack_encodeVec(bufs, op, Token)
                          [] codec = "webSocket" -> webSocket_encodeVec(bufs, op)
                          [] codec = "mysql"     -> mysql_encodeVec(bufs, seqid)

\* How many of the frames fnWrite sends: mysql_encodeBufCount is always one.
WriteCount(frames) == IF codec = "mysql" THEN 1 ELSE Len(frames)

Bytes(frames) == FlattenSeq([j \in DOMAIN frames |-> frames[j].bytes])
Fit(frames)   == \A j \in DOMAIN frames : Len(frames[j].bytes) <= frames[j].room

\* mysql_encode asserts that there is something to write.
MayWrite(p) == Len(sent) < MaxWrites /\ (codec = "mysql" => p # <<>>)

\* fnWrite: one buffer.  op is the flag the service gave.
Write(p, op) ==
    LET frames == Encoded(p, op)
    IN  /\ MayWrite(p)
        /\ wire' = wire \o Bytes(SubSeq(frames, 1, WriteCount(frames)))
        /\ sent' = Append(sent, [op |-> op, bytes |-> p, bufs |-> 0, fits |-> Fit(frames), split |-> FALSE])
        /\ seqid' = 0
        /\ UNCHANGED <<codec, received, joined, messages, refused>>

\* fnWriteMove: several buffers; as many frames are sent as there were buffers.
\* Beyond the frames lie uninitialised entries.
WriteMove(bufs, op) ==
    LET frames == EncodedVec(bufs, op)
        p      == FlattenSeq(bufs)
        count  == Len(bufs)
    IN  /\ MayWrite(p)
        /\ \E junk \in IF count > Len(frames) THEN {<<>>, <<0>>} ELSE {<<>>} :
              wire' = wire \o Bytes(SubSeq(frames, 1, IF count < Len(frames) THEN count
                                                                             ELSE Len(frames)))
                           \o junk
        /\ sent' = Append(sent, [op |-> op, bytes |-> p, bufs |-> count, fits |-> Fit(frames), split |-> FALSE])
        /\ seqid' = 0
        /\ UNCHANGED <<codec, received, joined, messages, refused>>

unMask(p, mask) == [i \in DOMAIN p |-> p[i] ^^ mask[((i - 1) % 4) + 1]]

MaskedFrame(p, op, fin) ==
    <<FlagByte(op, fin), 128 + Len(p)>> \o Mask \o unMask(p, Mask)

\* A webSocket client masks its frames, in one or two fragments (external).
ClientWrites(p, op, split) ==
    LET half == Len(p) \div 2
    IN  /\ codec = "webSocket" /\ Len(p) < SocketShort /\ Len(sent) < MaxWrites
        /\ wire' = wire \o (IF split THEN MaskedFrame(SubSeq(p, 1, half), SocketOp(op), FALSE)
                                         \o MaskedFrame(SubSeq(p, half + 1, Len(p)), 0, TRUE)
                                     ELSE MaskedFrame(p, SocketOp(op), TRUE))
        /\ sent' = Append(sent, [op |-> op, bytes |-> p, bufs |-> 0, fits |-> TRUE, split |-> split])
        /\ UNCHANGED <<codec, seqid, received, joined, messages, refused>>

(***************************************************************************)
(* Receiving.  A head: r is 1 for a whole frame, 0 for less, -1 for none.  *)
(***************************************************************************)
NoHead(r) == [r |-> r, op |-> 0, fin |-> FALSE, len |-> 0, off |-> 0]

\* A frame taken before its last bytes are there.
HeadEager(q, op, len, off) ==
    IF len > Len(q) THEN NoHead(0)
                    ELSE [r |-> 1, op |-> op, fin |-> q[1] >= 128, len |-> Len(q) - off, off |-> off]

\* A head whose payload of len bytes starts behind off bytes.
HeadAt(q, op, len, off) ==
    IF len + off > Len(q) THEN NoHead(0)
                          ELSE [r |-> 1, op |-> op, fin |-> q[1] >= 128, len |-> len, off |-> off]

tpack_decodeHead(q) ==
    LET op == q[1] % 16
        extra == IF op \in TokenOps THEN 4 ELSE 0
    IN  CASE Len(q) < 2 -> NoHead(0)
          [] Len(q) >= 2 /\ op > 7 -> NoHead(-1)
          [] Len(q) >= 2 /\ op <= 7 /\ q[2] < 255 -> HeadAt(q, op, q[2], 2 + extra)
          [] Len(q) \in {2, 3} /\ op <= 7 /\ q[2] = 255 -> NoHead(0)
          [] OTHER -> HeadAt(q, op, q[3] * Digit + q[4], 4 + extra)

\* The flag of a webSocket opcode.
SocketFlag(op) == CASE op = 8 -> 3 [] op = 9 -> 5 [] op = 10 -> 4 [] OTHER -> op

webSocket_decodeHead(q) ==
    LET op == q[1] % 16
        n  == q[2] % 128
        extra == IF q[2] >= 128 THEN 4 ELSE 0
    IN  CASE Len(q) < 2 -> NoHead(0)
          [] Len(q) >= 2 /\ (op \notin {0, 1, 2, 8, 9, 10} \/ n = 127) -> NoHead(-1)
          [] Len(q) >= 2 /\ op \in {0, 1, 2, 8, 9, 10} /\ n < 126 ->
                 HeadAt(q, SocketFlag(op), n, 2 + extra)
          [] Len(q) \in {2, 3} /\ op \in {0, 1, 2, 8, 9, 10} /\ n = 126 -> NoHead(0)
          [] OTHER -> HeadAt(q, SocketFlag(op), q[3] + q[4] * Digit, 4 + extra)

DecodeHead(q) == IF codec = "tpack" THEN tpack_decodeHead(q) ELSE webSocket_decodeHead(q)

\* What lies between the length and the payload, and the payload itself.
Extra(q, head) == IF head.off > 4 THEN SubSeq(q, head.off - 3, head.off) ELSE <<>>
Payload(q, head) ==
    LET p == SubSeq(q, head.off + 1, head.off + head.len)
    IN  IF codec = "webSocket" /\ head.off > 4 THEN unMask(p, Extra(q, head)) ELSE p

Message(op, token, bytes) == [op |-> op, token |-> token, bytes |-> bytes]
TokenOf(q, head) == IF codec = "tpack" THEN Extra(q, head) ELSE <<>>

\* The Lua frame buffer (write): an opcode starts a message, a frame without one goes
\* on with it.  A masked fragment that makes the buffer grow is unmasked at the place
\* where the buffer was: in the message it stays masked.
Joined(state, q, head) ==
    LET old   == IF head.op # 0 THEN <<>> ELSE state.bytes
        need  == Len(old) + head.len
        grows == need > state.room
        fresh == IF grows /\ state.room > 0 THEN SubSeq(q, head.off + 1, head.off + head.len)
                                            ELSE Payload(q, head)
    IN  [op |-> IF head.op # 0 THEN head.op ELSE state.op, token |-> TokenOf(q, head),
         bytes |-> old \o fresh, room |-> IF grows THEN state.room + need ELSE state.room]

\* The message that read gives, which empties the buffer.
Readout(join) == Message(join.op, join.token, join.bytes)

\* fnReceive: every whole frame in the queue, or none when a head is wrong.
RECURSIVE Receive(_)
Receive(state) ==
    LET q    == state.queue
        head == DecodeHead(q)
        next == [state EXCEPT !.queue = SubSeq(q, head.off + head.len + 1, Len(q))]
        join == Joined(state.joined, q, head)
    IN  CASE head.r = -1 -> [state EXCEPT !.refused = TRUE]
          [] head.r = 0  -> state
          [] head.r = 1 /\ head.fin /\ head.op # 0 ->
                 Receive([next EXCEPT !.got = Append(@, Message(head.op, TokenOf(q, head),
                                                                Payload(q, head)))])
          [] head.r = 1 /\ head.fin /\ head.op = 0 ->
                 Receive([next EXCEPT !.got = Append(@, Readout(join)),
                                      !.joined = [join EXCEPT !.bytes = <<>>]])
          [] head.r = 1 /\ ~head.fin -> Receive([next EXCEPT !.joined = join])

\* The MySQL server (external): packets up to one that is not full are a command.
RECURSIVE ServerReads(_)
ServerReads(state) ==
    LET q   == state.queue
        len == q[1] + q[2] * Digit
        part == SubSeq(q, 5, 4 + len)
        next == [state EXCEPT !.queue = SubSeq(q, 5 + len, Len(q))]
        join == [state.joined EXCEPT !.bytes = @ \o part]
    IN  CASE Len(q) < 4 \/ (Len(q) >= 4 /\ Len(q) < 4 + len) -> state
          [] Len(q) >= 4 /\ Len(q) >= 4 + len /\ len = Fragment ->
                 ServerReads([next EXCEPT !.joined = join])
          [] Len(q) >= 4 /\ Len(q) >= 4 + len /\ len # Fragment ->
                 ServerReads([next EXCEPT !.got = Append(@, Readout(join)),
                                          !.joined.bytes = <<>>])

\* n bytes arrive; the receive callback runs on the whole queue.
Arrive(n) ==
    LET state == [queue |-> received \o SubSeq(wire, 1, n), joined |-> joined,
                  got |-> messages, refused |-> FALSE]
        after == IF codec = "mysql" THEN ServerReads(state) ELSE Receive(state)
    IN  /\ ~refused
        /\ n \in 1..Len(wire)
        /\ wire' = SubSeq(wire, n + 1, Len(wire))
        /\ received' = after.queue
        /\ joined' = after.joined
        /\ messages' = after.got
        /\ refused' = after.refused
        /\ UNCHANGED <<codec, sent, seqid>>

ToWrite == IF sent = <<>> THEN Payloads ELSE Parts

FramesNext ==
    \/ \E p \in ToWrite, op \in {1, 6} : Write(p, op)
    \/ \E p \in Parts, r \in Parts, op \in {2, 6} : WriteMove(<<p, r>>, op)
    \/ \E p \in ToWrite : WriteMove(<<p>>, 2)
    \/ \E p \in ToWrite, split \in BOOLEAN : ClientWrites(p, 2, split)
    \/ \E n \in 1..Len(wire) : Arrive(n)

(***************************************************************************)
(* Properties                                                              *)
(***************************************************************************)
\* The messages that the codecs carry: with tpack those with a token in one frame
\* only; with webSocket those whose long lengths read the same both ways, and from
\* several buffers only single frames; with MySQL those in a packet that is not full;
\* those a client splits only as far as the frame buffer holds them; and from moved
\* buffers those with as many frames as buffers.
SameBothWays(n) == n < SocketShort \/ n \div Digit = n % Digit

Carried(m) ==
    LET n     == Len(m.bytes)
        count == IF codec = "mysql" THEN PacketCount(n) ELSE FrameCount(n)
    IN  /\ m.bufs \in {0, count}
        /\ codec = "tpack" /\ m.op \in TokenOps => count = 1
        /\ codec = "webSocket" => /\ m.op \in {1, 2}
                                  /\ SameBothWays(n % Fragment)
                                  /\ m.bufs > 0 => count = 1
                                  /\ m.split => n <= FrameRoom
        /\ codec = "mysql" => IF m.bufs > 0 THEN n % Fragment # 0 ELSE n < Fragment

\* What a message looks like at the other end.
Arrived(m) == CASE codec = "tpack" /\ m.op \in TokenOps -> Message(m.op, Token, m.bytes)
                [] codec = "mysql" -> Message(0, <<>>, m.bytes)
                [] OTHER -> Message(m.op, <<>>, m.bytes)

\* No frame is longer than the room the encoder allocated for it, but for the
\* fragments of tpack_encode.
FitsItsRoom(m) == m.fits \/ (codec = "tpack" /\ m.bufs = 0 /\ FrameCount(Len(m.bytes)) > 1)

\* However the bytes are cut on their way, the receiving service gets the messages
\* that were written, whole, in order and each once (tpackStream_receive,
\* webSocketStream_receive and the Lua frame buffers), and none is left behind; and
\* the encoders never write past a frame.
MessagesArriveWhole ==
    /\ \A i \in DOMAIN sent : FitsItsRoom(sent[i])
    /\ (\A i \in DOMAIN sent : Carried(sent[i])) =>
         /\ ~refused
         /\ Len(messages) <= Len(sent)
         /\ \A i \in DOMAIN messages : messages[i] = Arrived(sent[i])
         /\ wire = <<>> => received = <<>> /\ Len(messages) = Len(sent)
==============================================================================
