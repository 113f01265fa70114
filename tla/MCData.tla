------------------------------- MODULE MCData -------------------------------
(***************************************************************************)
(* The data structures under the connections, each by itself: a behaviour  *)
(* exercises one of them, and the others stay as they were made.           *)
(***************************************************************************)
EXTENDS MCSendPath, Msgpack, Frames, ByteQueue, ChannelCenter, SpinLocks

VARIABLE part  \* the one of this behaviour

\* The Lua values that are packed: every width, its neighbours, and nested tables.
Edge == {0, 1, 31, 32, 127, 128, 223, 224, 255}
Ints == {[i \in 1..8 |-> IF i < p THEN f ELSE IF i = p THEN b ELSE l] :
            p \in 1..8, f \in {0, 255}, b \in Edge, l \in {0, 255}}
Nums == {Integer(v) : v \in Ints} \cup {Ptr(v) : v \in Ints} \cup {Real("int", v) : v \in Ints}
        \cup {Real("float", Repeat(b, 4)) : b \in {0, 192}}
        \cup {Real("double", Repeat(b, 8)) : b \in {0, 192}}
Text(n) == Str([i \in 1..n |-> 192 + (i % 20)])
Strings == {Text(n) : n \in {0, 1, 2, 31, 32, 33, 255, 256, 257}}
Small == {Integer(Bytes8(1)), Integer(Repeat(255, 8)), Text(2), Nil, Bool(TRUE)}
Keys  == {Text(1), Integer(Bytes8(300)), Bool(FALSE)}
Flat  == {Table(<<a, b>>, <<>>) : a \in Small, b \in Small}
         \cup {Table(<<>>, <<<<k, a>>>>) : k \in Keys, a \in Small}
         \cup {Table([i \in 1..17 |-> Integer(Bytes8(i))], <<>>), Table(<<>>, <<>>)}
         \cup {Paired(<<<<Text(1), a>>, <<Text(2), Nil>>>>) : a \in Small}
RECURSIVE Nest(_, _)
Nest(x, n) == IF n = 0 THEN x ELSE Nest(Table(<<x>>, <<<<Text(1), x>>>>), n - 1)

MCMessages == {<<x>> : x \in Nums \cup Strings \cup Flat \cup {Other, Nil, Bool(TRUE)}}
              \cup {<<Text(1), x, y>> : x \in Flat, y \in {Nil, Text(31)}}
              \cup {<<Nest(x, n)>> : x \in {Nil, Text(0)}, n \in 1..4}

\* Payloads around the lengths where a head grows and a message is split.
MCPayloads == {[i \in 1..n |-> i] : n \in {0, 1, 2, 3, 4, 5, 8, 9, 17}}
MCParts == {<<1>>, <<20, 21, 22, 23, 24>>}
MCToken == <<0, 9, 8, 7>>
MCMask == <<5, 6, 1, 3>>

MCTexts == {<<"a">>, <<CR>>, <<LF>>, <<CR, LF>>, <<"a", "a", CR>>}

Structures == {"send", "msgpack", "frames", "queue", "center", "locks"}

Init == /\ part \in Structures
        /\ SendInit /\ MsgpackInit /\ FramesInit /\ ByteQueueInit /\ CenterInit /\ LockInit
        /\ part # "frames" => codec = "tpack"

vars == <<part, sendVars, msgpackVars, framesVars, byteQueueVars, centerVars, lockVars>>

Send     == part = "send" /\ SendNext /\ UNCHANGED <<part, msgpackVars, framesVars, byteQueueVars, centerVars, lockVars>>
Packing  == part = "msgpack" /\ MsgpackNext /\ UNCHANGED <<part, sendVars, framesVars, byteQueueVars, centerVars, lockVars>>
Framing  == part = "frames" /\ FramesNext /\ UNCHANGED <<part, sendVars, msgpackVars, byteQueueVars, centerVars, lockVars>>
Queueing == part = "queue" /\ ByteQueueNext /\ UNCHANGED <<part, sendVars, msgpackVars, framesVars, centerVars, lockVars>>
Naming   == part = "center" /\ CenterNext /\ UNCHANGED <<part, sendVars, msgpackVars, framesVars, byteQueueVars, lockVars>>
Locking  == part = "locks" /\ LockNext /\ UNCHANGED <<part, sendVars, msgpackVars, framesVars, byteQueueVars, centerVars>>

Next == Send \/ Packing \/ Framing \/ Queueing \/ Naming \/ Locking

Spec == Init /\ [][Next]_vars
=============================================================================
