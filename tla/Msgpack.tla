------------------------------- MODULE Msgpack -------------------------------
(***************************************************************************)
(* The msgpack encoder and decoder and the Lua binding that packs a list   *)
(* of Lua values into one message and unpacks it again.                    *)
(*                                                                         *)
(* A 64-bit integer is its eight bytes, most significant first, in two's   *)
(* complement, so that the widths the encoder chooses among are exact.  A  *)
(* real is "int" (its value is an integer, kept as one), "float" (it is    *)
(* exact in 32 bits) or "double"; a pointer is eight bytes.                *)
(* A message is the sequence of its bytes.                                 *)
(***************************************************************************)
EXTENDS Naturals, Sequences, SequencesExt

CONSTANT MaxDepth,   \* def_MaxDepth: how deep tables may nest
         Messages    \* the lists of Lua values that are packed

ASSUME MaxDepthAssumption == MaxDepth \in Nat

Integer(bytes)  == [t |-> "int", v |-> bytes]
Real(w, bs) == [t |-> "real", w |-> w, v |-> bs]
Str(bytes)  == [t |-> "string", v |-> bytes]
Ptr(bytes)  == [t |-> "pointer", v |-> bytes]
Bool(b)     == [t |-> "boolean", v |-> <<IF b THEN 1 ELSE 0>>]
Nil         == [t |-> "nil", v |-> <<>>]
\* A table: its array part, and the other pairs in the order lua_next gives.
Table(arr, hash) == [t |-> "table", arr |-> arr, hash |-> hash]
\* A table with a __pairs metamethod: the pairs the iterator gives.
Paired(hash) == [t |-> "paired", hash |-> hash]
\* A value of a type that cannot be packed: a function, a thread, a userdata.
Other        == [t |-> "other", v |-> <<>>]

Repeat(byte, n) == [i \in 1..n |-> byte]

\* The last n of eight bytes.
Low(v, n) == SubSeq(v, 9 - n, 8)

\* The first 8 - n bytes of v are all byte: v is written in its n low bytes.
Above(v, n, byte) == \A i \in 1..(8 - n) : v[i] = byte

\* A length below 2^32 as eight bytes, and back.
Bytes8(n) == Repeat(0, 4) \o <<n \div 16777216, (n \div 65536) % 256, (n \div 256) % 256, n % 256>>

RECURSIVE Number(_)
Number(bytes) == IF bytes = <<>> THEN 0 ELSE 256 * Number(Front(bytes)) + Last(bytes)

(***************************************************************************)
(* msgpackEncode_writeInteger: the shortest of the forms that holds it     *)
(***************************************************************************)
PositiveInteger(v) ==
    CASE Above(v, 1, 0) /\ v[8] <= 127 -> <<v[8]>>
      [] Above(v, 1, 0) /\ v[8] > 127  -> <<204>> \o Low(v, 1)
      [] Above(v, 2, 0) /\ ~Above(v, 1, 0) -> <<205>> \o Low(v, 2)
      [] Above(v, 4, 0) /\ ~Above(v, 2, 0) -> <<206>> \o Low(v, 4)
      [] OTHER -> <<207>> \o v

\* -2^(8n-1) <= v: every byte above the n low ones is 255 and so is the sign.
FitsSigned(v, n) == Above(v, n, 255) /\ v[9 - n] >= 128

NegativeInteger(v) ==
    CASE Above(v, 1, 255) /\ v[8] >= 224 -> <<v[8]>>
      [] FitsSigned(v, 1) /\ v[8] < 224  -> <<208>> \o Low(v, 1)
      [] FitsSigned(v, 2) /\ ~FitsSigned(v, 1) -> <<209>> \o Low(v, 2)
      [] FitsSigned(v, 4) /\ ~FitsSigned(v, 2) -> <<210>> \o Low(v, 4)
      [] OTHER -> <<211>> \o v

writeInteger(v) == IF v[1] < 128 THEN PositiveInteger(v) ELSE NegativeInteger(v)

writeBoolean(v) == <<IF v = <<1>> THEN 195 ELSE 194>>

writeReal(w, v) == CASE w = "int"    -> writeInteger(v)
                     [] w = "float"  -> <<202>> \o v
                     [] w = "double" -> <<203>> \o v

\* The head of a string, of a binary, of an array and of a map of n elements.
StringHead(n) == CASE n < 32                   -> <<160 + n>>
                   [] n \in 32..255            -> <<217, n>>
                   [] n \in 256..65535         -> <<218>> \o Low(Bytes8(n), 2)
                   [] OTHER                    -> <<219>> \o Low(Bytes8(n), 4)

BinaryHead(n) == CASE n <= 255                 -> <<196, n>>
                   [] n \in 256..65535         -> <<197>> \o Low(Bytes8(n), 2)
                   [] OTHER                    -> <<198>> \o Low(Bytes8(n), 4)

ArrayHead(n)  == CASE n <= 15                  -> <<144 + n>>
                   [] n \in 16..65535          -> <<220>> \o Low(Bytes8(n), 2)
                   [] OTHER                    -> <<221>> \o Low(Bytes8(n), 4)

MapHead(n)    == CASE n <= 15                  -> <<128 + n>>
                   [] n \in 16..65535          -> <<222>> \o Low(Bytes8(n), 2)
                   [] OTHER                    -> <<223>> \o Low(Bytes8(n), 4)

writeString(bytes) == StringHead(Len(bytes)) \o bytes
writeBinary(bytes) == BinaryHead(Len(bytes)) \o bytes

writeUserPointer(v) == CASE Above(v, 2, 0)                    -> <<199>> \o Low(v, 2)
                         [] Above(v, 4, 0) /\ ~Above(v, 2, 0) -> <<200>> \o Low(v, 4)
                         [] OTHER                             -> <<201>> \o v

writeNil == <<192>>

(***************************************************************************)
(* Packing: packValue and packTable, from depth 0.  A value that cannot be *)
(* packed, or one nested too deep, raises a Lua error: nothing is sent.    *)
(***************************************************************************)
Error == <<-1>>

Join(parts) == IF Error \in Range(parts) THEN Error ELSE FlattenSeq(parts)

RECURSIVE PackValue(_, _)

PackTable(arr, hash, depth) ==
    Join(<<MapHead(Len(arr))>>
         \o [i \in DOMAIN arr |-> PackValue(arr[i], depth)]
         \o FlattenSeq([i \in DOMAIN hash |-> <<PackValue(hash[i][1], depth),
                                                PackValue(hash[i][2], depth)>>])
         \o <<writeNil>>)

PackValue(x, depth) ==
    CASE depth > MaxDepth    -> Error
      [] depth <= MaxDepth /\ x.t = "nil"     -> writeNil
      [] depth <= MaxDepth /\ x.t = "int"     -> writeInteger(x.v)
      [] depth <= MaxDepth /\ x.t = "real"    -> writeReal(x.w, x.v)
      [] depth <= MaxDepth /\ x.t = "boolean" -> writeBoolean(x.v)
      [] depth <= MaxDepth /\ x.t = "string"  -> writeString(x.v)
      [] depth <= MaxDepth /\ x.t = "pointer" -> writeUserPointer(x.v)
      [] depth <= MaxDepth /\ x.t = "table"   -> PackTable(x.arr, x.hash, depth + 1)
      [] depth <= MaxDepth /\ x.t = "paired"  -> PackTable(<<>>, x.hash, depth + 1)
      [] depth <= MaxDepth /\ x.t = "other"   -> Error

encode(values) == Join([i \in DOMAIN values |-> PackValue(values[i], 0)])

(***************************************************************************)
(* Reading.  rest is what lies between nOffset and nLength; a read that    *)
(* fails leaves the offset where it was.                                   *)
(***************************************************************************)
Got(v, size, rest) == [ok |-> TRUE, v |-> v, rest |-> SubSeq(rest, size + 1, Len(rest))]
Failed(rest)       == [ok |-> FALSE, v |-> Nil, rest |-> rest]

\* The n bytes behind the flag, when the message holds them.
Holds(rest, n)  == Len(rest) >= n + 1
Behind(rest, n) == SubSeq(rest, 2, n + 1)

\* The number of bytes behind the flag of an integer.
IntegerWidth(flag) == CASE flag \in {204, 208} -> 1
                        [] flag \in {205, 209} -> 2
                        [] flag \in {206, 210} -> 4
                        [] flag \in {207, 211} -> 8
                        [] OTHER -> 0

IsInteger(flag) == flag \in (204..211) \cup (0..127) \cup (224..255)

\* The sign forgotten.
WidenedUnsigned(flag, bytes) == Repeat(0, 8 - Len(bytes)) \o bytes

\* Zero extension for the unsigned forms, sign extension for the others.
Widened(flag, bytes) ==
    Repeat(IF flag >= 208 /\ bytes[1] >= 128 THEN 255 ELSE 0, 8 - Len(bytes)) \o bytes

IntegerAt(rest) == LET n == IntegerWidth(rest[1])
                   IN  Widened(rest[1], IF n = 0 THEN <<rest[1]>> ELSE Behind(rest, n))

readInteger(rest) ==
    IF rest # <<>> /\ IsInteger(rest[1]) /\ Holds(rest, IntegerWidth(rest[1]))
    THEN Got(Integer(IntegerAt(rest)), 1 + IntegerWidth(rest[1]), rest)
    ELSE Failed(rest)

peekInteger(rest) ==
    IF rest # <<>> /\ IsInteger(rest[1]) /\ Holds(rest, IntegerWidth(rest[1]))
    THEN Got(Integer(IntegerAt(rest)), 0, rest)
    ELSE Failed(rest)

readBoolean(rest) ==
    IF rest # <<>> /\ rest[1] \in {194, 195} THEN Got(Bool(rest[1] = 195), 1, rest)
                                             ELSE Failed(rest)

\* An integer is read as a real too; uint 64 keeps its sign bit as a digit.
readReal(rest) ==
    CASE rest # <<>> /\ rest[1] = 202 /\ Holds(rest, 4) ->
             Got(Real("float", Behind(rest, 4)), 5, rest)
      [] rest # <<>> /\ rest[1] = 203 /\ Holds(rest, 8) ->
             Got(Real("double", Behind(rest, 8)), 9, rest)
      [] rest # <<>> /\ IsInteger(rest[1]) /\ Holds(rest, IntegerWidth(rest[1])) ->
             Got(Real(IF rest[1] = 207 THEN "unsigned" ELSE "int", IntegerAt(rest)),
                 1 + IntegerWidth(rest[1]), rest)
      [] OTHER -> Failed(rest)

\* The width of the length behind a flag: 1, 2 or 4 bytes for the flags from
\* first on.
Width(flag, first) == CASE flag = first -> 1 [] flag = first + 1 -> 2 [] flag = first + 2 -> 4

\* A length that is trusted: what lies behind the message reads as zeros.
BodyUnchecked(rest, head, n) ==
    Got(Str([i \in 1..n |-> IF head + i <= Len(rest) THEN rest[head + i] ELSE 0]), head + n, rest)

\* The n bytes of a string behind its head.
Body(rest, head, n) == IF Len(rest) >= head + n
                       THEN Got(Str(SubSeq(rest, head + 1, head + n)), head + n, rest)
                       ELSE Failed(rest)

Sized(rest, first) == LET w == Width(rest[1], first)
                      IN  IF Holds(rest, w) THEN Body(rest, 1 + w, Number(Behind(rest, w)))
                                            ELSE Failed(rest)

readString(rest) ==
    CASE rest # <<>> /\ rest[1] \in 217..219 -> Sized(rest, 217)
      [] rest # <<>> /\ rest[1] \in 160..191 -> Body(rest, 1, rest[1] - 160)
      [] OTHER -> Failed(rest)

\* The length of one byte is read whether the message holds it or not: where it lies
\* behind the end, the body does not fit whatever it is.
readBinary(rest) ==
    CASE rest # <<>> /\ rest[1] = 196 -> Body(rest, 2, IF Holds(rest, 1) THEN rest[2] ELSE 0)
      [] rest # <<>> /\ rest[1] \in 197..198 -> Sized(rest, 196)
      [] OTHER -> Failed(rest)

\* The count in the head of an array (fix 144, from 220) or map (fix 128, from 222).
Count(rest, fix, from) ==
    LET w == IF rest[1] = from THEN 2 ELSE 4
    IN  CASE rest # <<>> /\ rest[1] \in fix..(fix + 15) -> Got(rest[1] - fix, 1, rest)
          [] rest # <<>> /\ rest[1] \in {from, from + 1} /\ Holds(rest, w) ->
                 Got(Number(Behind(rest, w)), 1 + w, rest)
          [] OTHER -> Failed(rest)

readArray(rest) == Count(rest, 144, 220)
readMap(rest)   == Count(rest, 128, 222)

readUserPointer(rest) ==
    LET w == CASE rest[1] = 199 -> 2 [] rest[1] = 200 -> 4 [] rest[1] = 201 -> 8
    IN  IF rest # <<>> /\ rest[1] \in 199..201 /\ Holds(rest, w)
        THEN Got(Ptr(Repeat(0, 8 - w) \o Behind(rest, w)), 1 + w, rest)
        ELSE Failed(rest)

skipInteger(rest) == [readInteger(rest) EXCEPT !.v = Nil]
skipBoolean(rest) == [readBoolean(rest) EXCEPT !.v = Nil]
skipReal(rest)    == [readReal(rest) EXCEPT !.v = Nil]
skipString(rest)  == [readString(rest) EXCEPT !.v = Nil]
skipBinary(rest)  == [readBinary(rest) EXCEPT !.v = Nil]
skipNil(rest)     == IF rest # <<>> /\ rest[1] = 192 THEN Got(Nil, 1, rest) ELSE Failed(rest)

getType(rest) ==
    CASE rest = <<>> -> "invalid"
      [] rest # <<>> /\ IsInteger(rest[1])           -> "int"
      [] rest # <<>> /\ rest[1] \in {194, 195}       -> "boolean"
      [] rest # <<>> /\ rest[1] \in {202, 203}       -> "real"
      [] rest # <<>> /\ rest[1] \in (217..219) \cup (160..191) -> "string"
      [] rest # <<>> /\ rest[1] \in 196..198         -> "binary"
      [] rest # <<>> /\ rest[1] \in 199..201         -> "pointer"
      [] rest # <<>> /\ rest[1] \in {220, 221} \cup (144..159) -> "array"
      [] rest # <<>> /\ rest[1] \in {222, 223} \cup (128..143) -> "map"
      [] rest # <<>> /\ rest[1] = 192                -> "nil"
      [] OTHER -> "invalid"

(***************************************************************************)
(* Unpacking: unpackValue and unpackTable, with the Lua stack that they    *)
(* work on.  m is that stack, with its top last and without the argument   *)
(* of decode, the rest of the message and what the last call made of it:   *)
(* "ok", "failed" or "undefined".                                          *)
(***************************************************************************)
\* A table on the stack is the set of its pairs.
Pairs(pairs) == [t |-> "pairs", pairs |-> pairs]

\* What an assignment to something that is no table leaves.
Undefined == [t |-> "undefined", v |-> <<>>]

Pushed(m, got) == IF got.ok THEN [m EXCEPT !.stack = Append(@, got.v), !.rest = got.rest]
                            ELSE [m EXCEPT !.how = "failed"]

\* The value is assigned to the field key of the table n below the top, and the
\* n values above that are popped.
Assigned(m, n, key, value) ==
    LET at == Len(m.stack) - n
        others == {p \in m.stack[at].pairs : p[1] # key}
    IN  IF m.stack[at].t = "pairs"
        THEN [m EXCEPT !.stack = Append(SubSeq(@, 1, at - 1),
                                        Pairs(others \cup {p \in {<<key, value>>} : value # Nil}))]
        ELSE [m EXCEPT !.how = "undefined"]

rawseti(m, i) == Assigned(m, 1, Integer(Bytes8(i)), Last(m.stack))
rawset(m)     == Assigned(m, 2, m.stack[Len(m.stack) - 1], Last(m.stack))

ReadScalar(rest) ==
    LET t == getType(rest)
    IN  CASE t = "int"     -> readInteger(rest)
          [] t = "boolean" -> readBoolean(rest)
          [] t = "real"    -> readReal(rest)
          [] t = "string"  -> readString(rest)
          [] t = "binary"  -> readBinary(rest)
          [] t = "nil"     -> skipNil(rest)
          [] t = "pointer" -> readUserPointer(rest)
          [] OTHER         -> Failed(rest)

RECURSIVE UnpackValue(_), UnpackArray(_, _, _), UnpackHash(_)

\* The values i..n of the array part, then the pairs.
UnpackArray(i, n, m) ==
    LET one == UnpackValue(m)
    IN  CASE i > n -> UnpackHash(m)
          [] i <= n /\ one.how # "ok" -> one
          [] i <= n /\ one.how = "ok" -> IF rawseti(one, i).how = "ok"
                                        THEN UnpackArray(i + 1, n, rawseti(one, i))
                                        ELSE rawseti(one, i)

\* The pairs, up to the nil key.  A key whose value cannot be read stays on the stack.
UnpackHash(m) ==
    LET key == UnpackValue(m)
        val == UnpackValue(key)
    IN  CASE key.how # "ok" -> key
          [] key.how = "ok" /\ Last(key.stack) = Nil -> [key EXCEPT !.stack = Front(@)]
          [] key.how = "ok" /\ Last(key.stack) # Nil ->
                 IF val.how # "ok" THEN val
                 ELSE IF rawset(val).how = "ok" THEN UnpackHash(rawset(val)) ELSE rawset(val)

\* unpackValue does not look whether unpackTable got to the end of the table, and goes on
\* with whatever that left on the stack.
UnpackMap(m) ==
    LET head  == readMap(m.rest)
        table == UnpackArray(1, head.v, Pushed(m, [head EXCEPT !.v = Pairs({})]))
    IN  IF head.ok THEN [table EXCEPT !.how = IF @ = "failed" THEN "ok" ELSE @]
                   ELSE Pushed(m, head)

UnpackValue(m) == IF getType(m.rest) = "map" THEN UnpackMap(m)
                                             ELSE Pushed(m, ReadScalar(m.rest))

\* ldecode: the whole stack at the end of the message, or nothing.
RECURSIVE DecodeFrom(_)
DecodeFrom(m) ==
    CASE m.how = "failed"    -> <<>>
      [] m.how = "undefined" -> <<Undefined>>
      [] m.how = "ok"        -> IF m.rest = <<>> THEN m.stack ELSE DecodeFrom(UnpackValue(m))

decode(message) == DecodeFrom([stack |-> <<>>, rest |-> message, how |-> "ok"])

(***************************************************************************)
(* One packing per behaviour: a message is chosen and a part of it arrives *)
(***************************************************************************)
VARIABLES packed,  \* the values that were packed
          arrived  \* the bytes given to decode, or Error when packing raised one

msgpackVars == <<packed, arrived>>

MsgpackInit == packed = <<>> /\ arrived = <<>>

Pack(values) == /\ packed = <<>>
                /\ packed' = values
                /\ arrived' = encode(values)

Cut == /\ arrived \notin {<<>>, Error}
       /\ arrived' = Front(arrived)
       /\ UNCHANGED packed

MsgpackNext == (\E values \in Messages : Pack(values)) \/ Cut

(***************************************************************************)
(* What a Lua value means: reals with an integer value are integers, and a *)
(* table is the set of its pairs that are not nil.                         *)
(***************************************************************************)
IsTable(x) == x.t \in {"table", "paired", "pairs"}

Fields(x) == CASE x.t = "table"  -> {<<Integer(Bytes8(i)), x.arr[i]>> : i \in DOMAIN x.arr}
                                    \cup Range(x.hash)
               [] x.t = "paired" -> Range(x.hash)
               [] x.t = "pairs"  -> x.pairs

RECURSIVE Meaning(_)
Meaning(x) ==
    CASE x.t = "real" /\ x.w = "int" -> Integer(x.v)
      [] IsTable(x) -> Pairs({p \in {<<Meaning(f[1]), Meaning(f[2])>> : f \in Fields(x)} : p[2] # Nil})
      [] OTHER -> x

\* The values that are no tables, in a value at any depth.
RECURSIVE Atoms(_)
Atoms(x) == IF IsTable(x) THEN UNION {Atoms(f[1]) \cup Atoms(f[2]) : f \in Fields(x)}
                          ELSE {Meaning(x)}

\* A table among whose pairs, at any depth, is one with a table as its value that has
\* pairs itself.
RECURSIVE NestsPairs(_)
NestsPairs(x) == IsTable(x) /\ \E f \in Fields(x) : \/ NestsPairs(f[1]) \/ NestsPairs(f[2])
                                                    \/ f \in Range(x.hash) /\ IsTable(f[2])
                                                       /\ f[2].hash # <<>>

MeaningOf(values) == [i \in DOMAIN values |-> Meaning(values[i])]

\* What the core offers beside the calls the binding makes: binaries, arrays, peek and
\* skip, for a string x as a binary and for an integer x below 2^24 as a count.
CoreReads(x) ==
    /\ x.t = "string" => /\ readBinary(writeBinary(x.v)) = Got(x, 0, <<>>)
                         /\ skipBinary(writeBinary(x.v)).rest = <<>>
                         /\ skipString(writeString(x.v) \o writeNil).rest = writeNil
    /\ x.t = "int" => /\ peekInteger(writeInteger(x.v)) = Got(x, 0, writeInteger(x.v))
                      /\ skipInteger(writeInteger(x.v) \o writeNil).rest = writeNil
                      /\ skipReal(writeReal("int", x.v)).rest = <<>>
    /\ x.t = "int" /\ Above(x.v, 3, 0) =>
          /\ readArray(ArrayHead(Number(x.v))).v = Number(x.v)
          /\ readMap(MapHead(Number(x.v))).v = Number(x.v)
    /\ x.t = "boolean" => skipBoolean(writeBoolean(x.v)).rest = <<>>

\* Whatever was packed is what decode gives back, at every width of an integer,
\* a length or a pointer and at every depth of a table (lencode, ldecode), and so
\* for the core's own calls.
PackedIsUnpacked ==
    arrived # Error /\ arrived = encode(packed)
        => /\ decode(arrived) = MeaningOf(packed)
           /\ \A i \in DOMAIN packed : CoreReads(packed[i])

\* A message that is cut short gives nothing that was not packed: ldecode gives nothing,
\* or the values before the cut and, where that is in a table, what the table's unpacking
\* left on the stack: first the table, then keys and tables within it, put together
\* from what was in it.  Only where a table with pairs was the value of a pair can a
\* key be left that makes the next assignment miss its table.
CutShortGivesNothingElse ==
    arrived # Error =>
        LET values == decode(arrived)
        IN  \E n \in 0..Len(packed) :
               \/ values = SubSeq(MeaningOf(packed), 1, n)
               \/ /\ n < Len(packed) /\ IsTable(packed[n + 1])
                  /\ \/ values = <<Undefined>> /\ NestsPairs(packed[n + 1])
                     \/ /\ IsPrefix(SubSeq(MeaningOf(packed), 1, n), values)
                        /\ Len(values) > n /\ IsTable(values[n + 1])
                        /\ \A i \in (n + 1)..Len(values) : Atoms(values[i]) \subseteq Atoms(packed[n + 1])
==============================================================================
