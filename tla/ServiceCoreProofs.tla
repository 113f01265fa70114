------------------------- MODULE ServiceCoreProofs -------------------------
(***************************************************************************)
(* Proofs about the coroutines of ServiceCore, for any number of services, *)
(* coroutines and operations.                                              *)
(*                                                                         *)
(* The names of coroutines must not run out, as tables of Lua do not:      *)
(* NewCo takes one that nothing mentions (Unlimited).                      *)
(***************************************************************************)
EXTENDS ServiceCore, FiniteSetTheorems, SequenceTheorems, TLAPS

Unlimited == \A n \in Nat : \E c \in Cos : c > n

-----------------------------------------------------------------------------
(* Sequences as the sets of what they contain *)

Distinct(q) == \A i, j \in 1..Len(q) : i # j => q[i] # q[j]

\* The empty queues of a service that has just started.
LEMMA EmptyQueue ==
  ASSUME NEW S
  PROVE  <<>> \in Seq(S) /\ Len(<<>>) = 0 /\ Distinct(<<>>) /\ \A x : ~Contains(<<>>, x)
BY DEF Distinct, Contains

\* A queue with something in it.
LEMMA NonEmpty ==
  ASSUME NEW S, NEW q \in Seq(S), q # <<>>
  PROVE  Len(q) \in Nat \ {0} /\ Head(q) \in S /\ Head(q) = q[1] /\ Contains(q, Head(q))
<1>1. Len(q) \in Nat /\ Len(q) # 0
  OBVIOUS
<1>2. Head(q) = q[1] /\ q[1] \in S
  BY <1>1
<1>3. 1 \in 1..Len(q)
  BY <1>1
<1>4. Contains(q, Head(q))
  BY <1>2, <1>3 DEF Contains
<1>5. QED BY <1>1, <1>2, <1>4

\* What a queue contains is of its kind.
LEMMA ContainedTyped ==
  ASSUME NEW S, NEW q \in Seq(S), NEW x, Contains(q, x)
  PROVE  x \in S /\ q # <<>>
BY DEF Contains

\* The first of a queue is taken: what is left was in it, and is another if the queue
\* has nothing twice.
LEMMA TailOf ==
  ASSUME NEW S, NEW q \in Seq(S), q # <<>>
  PROVE  /\ Tail(q) \in Seq(S) /\ Len(Tail(q)) = Len(q) - 1
         /\ \A i \in 1..(Len(q) - 1) : Tail(q)[i] = q[i + 1]
         /\ \A x : Contains(q, x) <=> x = Head(q) \/ Contains(Tail(q), x)
         /\ Distinct(q) => Distinct(Tail(q)) /\ ~Contains(Tail(q), Head(q))
<1> DEFINE p == Tail(q)
<1>1. Len(q) \in Nat \ {0} /\ Head(q) = q[1]
  BY NonEmpty
<1>2. p \in Seq(S) /\ Len(p) = Len(q) - 1 /\ \A i \in 1..(Len(q) - 1) : p[i] = q[i + 1]
  BY <1>1
<1> HIDE DEF p
<1>3. ASSUME NEW x PROVE Contains(q, x) <=> x = Head(q) \/ Contains(p, x)
  <2>1. ASSUME NEW i \in 1..Len(q), q[i] = x PROVE x = Head(q) \/ Contains(p, x)
    <3>1. CASE i = 1
      BY <2>1, <3>1, <1>1
    <3>2. CASE i # 1
      <4>1. i - 1 \in 1..Len(p) /\ p[i - 1] = q[i]
        BY <3>2, <1>1, <1>2
      <4>2. QED BY <4>1, <2>1 DEF Contains
    <3>3. QED BY <3>1, <3>2
  <2>2. ASSUME NEW i \in 1..Len(p), p[i] = x PROVE Contains(q, x)
    <3>1. i + 1 \in 1..Len(q) /\ q[i + 1] = x
      BY <2>2, <1>1, <1>2
    <3>2. QED BY <3>1 DEF Contains
  <2>3. Head(q) = x => Contains(q, x)
    BY NonEmpty
  <2>4. QED BY <2>1, <2>2, <2>3 DEF Contains
<1>4. ASSUME Distinct(q) PROVE Distinct(p) /\ ~Contains(p, Head(q))
  <2>1. ASSUME NEW i \in 1..Len(p), NEW j \in 1..Len(p), i # j PROVE p[i] # p[j]
    <3>1. i + 1 \in 1..Len(q) /\ j + 1 \in 1..Len(q) /\ i + 1 # j + 1
      BY <2>1, <1>1, <1>2
    <3>2. p[i] = q[i + 1] /\ p[j] = q[j + 1]
      BY <1>1, <1>2
    <3>3. QED BY <3>1, <3>2, <1>4 DEF Distinct
  <2>2. ASSUME NEW i \in 1..Len(p) PROVE p[i] # Head(q)
    <3>1. i + 1 \in 1..Len(q) /\ 1 \in 1..Len(q) /\ i + 1 # 1 /\ p[i] = q[i + 1]
      BY <1>1, <1>2
    <3>2. QED BY <3>1, <1>4, <1>1 DEF Distinct
  <2>3. QED BY <2>1, <2>2 DEF Distinct, Contains
<1>5. QED BY <1>2, <1>3, <1>4 DEF p

\* Something is queued.
LEMMA AppendedTo ==
  ASSUME NEW S, NEW q \in Seq(S), NEW e \in S
  PROVE  /\ Append(q, e) \in Seq(S) /\ Append(q, e) # <<>>
         /\ \A x : Contains(Append(q, e), x) <=> Contains(q, x) \/ x = e
         /\ Distinct(q) /\ ~Contains(q, e) => Distinct(Append(q, e))
<1> DEFINE p == Append(q, e)
<1>1. /\ p \in Seq(S) /\ Len(q) \in Nat /\ Len(p) = Len(q) + 1
      /\ p[Len(q) + 1] = e /\ \A i \in 1..Len(q) : p[i] = q[i]
  OBVIOUS
<1> HIDE DEF p
<1>2. p # <<>>
  BY <1>1
<1>3. ASSUME NEW x PROVE Contains(p, x) <=> Contains(q, x) \/ x = e
  <2>1. ASSUME NEW i \in 1..Len(p), p[i] = x PROVE Contains(q, x) \/ x = e
    BY <2>1, <1>1 DEF Contains
  <2>2. ASSUME NEW i \in 1..Len(q), q[i] = x PROVE Contains(p, x)
    <3>1. i \in 1..Len(p) /\ p[i] = x
      BY <2>2, <1>1
    <3>2. QED BY <3>1 DEF Contains
  <2>3. Len(q) + 1 \in 1..Len(p)
    BY <1>1
  <2>4. x = e => Contains(p, x)
    BY <2>3, <1>1 DEF Contains
  <2>5. QED BY <2>1, <2>2, <2>4 DEF Contains
<1>4. ASSUME Distinct(q), ~Contains(q, e), NEW i \in 1..Len(p), NEW j \in 1..Len(p), i < j
      PROVE  p[i] # p[j]
  <2>1. i \in 1..Len(q) /\ p[i] = q[i] /\ Len(p) = Len(q) + 1
    BY <1>1, <1>4
  <2>2. CASE j = Len(q) + 1
    BY <2>1, <2>2, <1>1, <1>4 DEF Contains
  <2>3. CASE j # Len(q) + 1
    <3>1. j \in 1..Len(q) /\ i # j
      BY <2>1, <2>3, <1>4, <1>1
    <3>2. p[j] = q[j]
      BY <3>1, <1>1
    <3>3. QED BY <2>1, <3>1, <3>2, <1>4 DEF Distinct
  <2>4. QED BY <2>2, <2>3
<1>5. ASSUME Distinct(q), ~Contains(q, e) PROVE Distinct(p)
  <2>1. ASSUME NEW i \in 1..Len(p), NEW j \in 1..Len(p), i # j PROVE p[i] # p[j]
    <3>1. i < j \/ j < i
      BY <2>1, <1>1
    <3>2. QED BY <3>1, <1>4, <1>5
  <2>2. QED BY <2>1 DEF Distinct
<1>6. QED BY <1>1, <1>2, <1>3, <1>5 DEF p

\* The last of a pool is taken.
LEMMA FrontOf ==
  ASSUME NEW S, NEW q \in Seq(S), q # <<>>
  PROVE  /\ Front(q) \in Seq(S) /\ Last(q) \in S /\ Contains(q, Last(q))
         /\ \A x : Contains(Front(q), x) => Contains(q, x)
         /\ Distinct(q) => Distinct(Front(q)) /\ ~Contains(Front(q), Last(q))
<1> DEFINE p == Front(q)
<1>1. Len(q) \in Nat \ {0}
  BY NonEmpty
<1>2. p \in Seq(S) /\ Len(p) = Len(q) - 1 /\ \A i \in 1..(Len(q) - 1) : p[i] = q[i]
  <2>1. p = SubSeq(q, 1, Len(q) - 1)
    BY DEF Front
  <2>2. /\ SubSeq(q, 1, Len(q) - 1) \in Seq(S)
        /\ Len(SubSeq(q, 1, Len(q) - 1)) = Len(q) - 1
        /\ \A i \in 1..(Len(q) - 1) : SubSeq(q, 1, Len(q) - 1)[i] = q[i]
    <3> DEFINE m == Len(q) - 1
    <3>1. m \in Nat /\ 1 \in Int /\ \A i \in 1..m : q[i] \in S
      BY <1>1
    <3> HIDE DEF m
    <3>2. /\ SubSeq(q, 1, m) \in Seq(S)
          /\ Len(SubSeq(q, 1, m)) = IF 1 <= m THEN m - 1 + 1 ELSE 0
          /\ \A i \in 1..(m - 1 + 1) : SubSeq(q, 1, m)[i] = q[1 + i - 1]
      BY <3>1, SubSeqProperties
    <3>3. m - 1 + 1 = m /\ (1 <= m \/ m = 0) /\ \A i \in 1..m : 1 + i - 1 = i
      BY <3>1
    <3>4. QED BY <3>2, <3>3, <3>1 DEF m
  <2>3. QED BY <2>1, <2>2
<1>3. Last(q) = q[Len(q)] /\ Last(q) \in S /\ Len(q) \in 1..Len(q)
  BY <1>1 DEF Last
<1> HIDE DEF p
<1>4. Contains(q, Last(q))
  BY <1>3 DEF Contains
<1>5. ASSUME NEW x, Contains(p, x) PROVE Contains(q, x)
  <2>1. PICK i \in 1..Len(p) : p[i] = x
    BY <1>5 DEF Contains
  <2>2. i \in 1..Len(q) /\ q[i] = x
    BY <2>1, <1>1, <1>2
  <2>3. QED BY <2>2 DEF Contains
<1>6. ASSUME Distinct(q) PROVE Distinct(p) /\ ~Contains(p, Last(q))
  <2>1. \A i \in 1..Len(p) : i \in 1..Len(q) /\ i # Len(q) /\ p[i] = q[i]
    BY <1>1, <1>2
  <2>2. QED BY <2>1, <1>3, <1>6 DEF Distinct, Contains
<1>7. QED BY <1>2, <1>3, <1>4, <1>5, <1>6 DEF p

\* One queue behind another.
LEMMA Concatenated ==
  ASSUME NEW S, NEW q \in Seq(S), NEW r \in Seq(S)
  PROVE  /\ q \o r \in Seq(S)
         /\ \A x : Contains(q \o r, x) <=> Contains(q, x) \/ Contains(r, x)
         /\ Distinct(q) /\ Distinct(r) /\ (\A x : ~(Contains(q, x) /\ Contains(r, x)))
            => Distinct(q \o r)
<1> DEFINE p == q \o r
<1>1. /\ p \in Seq(S) /\ Len(q) \in Nat /\ Len(r) \in Nat /\ Len(p) = Len(q) + Len(r)
      /\ \A i \in 1..Len(q) : p[i] = q[i]
      /\ \A i \in 1..Len(p) : i > Len(q) => p[i] = r[i - Len(q)]
  OBVIOUS
<1> HIDE DEF p
<1>2. ASSUME NEW x PROVE Contains(p, x) <=> Contains(q, x) \/ Contains(r, x)
  <2>1. ASSUME NEW i \in 1..Len(p), p[i] = x PROVE Contains(q, x) \/ Contains(r, x)
    <3>1. CASE i \in 1..Len(q)
      BY <2>1, <3>1, <1>1 DEF Contains
    <3>2. CASE i > Len(q)
      <4>1. i - Len(q) \in 1..Len(r) /\ r[i - Len(q)] = x
        BY <3>2, <2>1, <1>1
      <4>2. QED BY <4>1 DEF Contains
    <3>3. QED BY <3>1, <3>2, <1>1
  <2>2. ASSUME NEW i \in 1..Len(q), q[i] = x PROVE Contains(p, x)
    <3>1. i \in 1..Len(p) /\ p[i] = x
      BY <2>2, <1>1
    <3>2. QED BY <3>1 DEF Contains
  <2>3. ASSUME NEW i \in 1..Len(r), r[i] = x PROVE Contains(p, x)
    <3>1. Len(q) + i \in 1..Len(p) /\ Len(q) + i > Len(q) /\ (Len(q) + i) - Len(q) = i
      BY <1>1
    <3>2. p[Len(q) + i] = x
      BY <3>1, <2>3, <1>1
    <3>3. QED BY <3>1, <3>2 DEF Contains
  <2>4. QED BY <2>1, <2>2, <2>3 DEF Contains
<1>3. ASSUME Distinct(q), Distinct(r), \A x : ~(Contains(q, x) /\ Contains(r, x)),
             NEW i \in 1..Len(p), NEW j \in 1..Len(p), i < j
      PROVE  p[i] # p[j]
  <2>1. CASE j \in 1..Len(q)
    <3>1. i \in 1..Len(q) /\ p[i] = q[i] /\ p[j] = q[j] /\ i # j
      BY <2>1, <1>1, <1>3
    <3>2. QED BY <3>1, <2>1, <1>3 DEF Distinct
  <2>2. CASE i > Len(q)
    <3>1. /\ i - Len(q) \in 1..Len(r) /\ j - Len(q) \in 1..Len(r) /\ i - Len(q) # j - Len(q)
          /\ p[i] = r[i - Len(q)] /\ p[j] = r[j - Len(q)]
      BY <2>2, <1>1, <1>3
    <3>2. QED BY <3>1, <1>3 DEF Distinct
  <2>3. CASE i \in 1..Len(q) /\ j > Len(q)
    <3>1. p[i] = q[i] /\ j - Len(q) \in 1..Len(r) /\ p[j] = r[j - Len(q)]
      BY <2>3, <1>1
    <3>2. Contains(q, p[i]) /\ Contains(r, p[j])
      BY <3>1, <2>3 DEF Contains
    <3>3. QED BY <3>2, <1>3
  <2>4. QED BY <2>1, <2>2, <2>3, <1>1
<1>4. ASSUME Distinct(q), Distinct(r), \A x : ~(Contains(q, x) /\ Contains(r, x))
      PROVE  Distinct(p)
  <2>1. ASSUME NEW i \in 1..Len(p), NEW j \in 1..Len(p), i # j PROVE p[i] # p[j]
    <3>1. i < j \/ j < i
      BY <2>1, <1>1
    <3>2. QED BY <3>1, <1>3, <1>4
  <2>2. QED BY <2>1 DEF Distinct
<1>5. QED BY <1>1, <1>2, <1>4 DEF p

-----------------------------------------------------------------------------
(* The tables of a service *)

Kinds   == {"new", "none", "running", "pooled", "idle", "call", "ping", "sleep", "wait", "await"}
Waiting == {"new", "call", "ping", "sleep", "wait", "await"}  \* that may have a token
Calling == {"call", "ping"}
Asleep  == {"sleep", "wait"}

Call_ == Services \X Tokens

Marks == {Nobody, BREAK}  \* in tokenToCoroutine_t, that are no coroutine

State == [running : Cos \cup {Nobody}, at : [Cos -> Kinds], pool : Seq(Cos),
          calls : Seq({"wakeup", "cancel"}), asyncQ : Seq(Cos), wakeupQ : Seq(Cos),
          cancelQ : Seq(Tokens), uiToken : Nat, tokenTo : [Tokens -> Cos \cup {Nobody, BREAK}],
          watching : [Tokens -> Addresses \cup {Nobody}], sleeping : [Cos -> Tokens \cup {0}],
          owed : [Cos -> {<<>>} \cup Call_], responses : SUBSET Call_]

\* Where the coroutines are: one runs, the pool and asyncQueue_t hold others.
Placed(v) ==
  /\ \A c \in Cos : v.at[c] = "running" <=> v.running = c
  /\ Distinct(v.pool) /\ Distinct(v.asyncQ)
  /\ \A c \in Cos : Contains(v.pool, c) => v.at[c] = "pooled"
  /\ \A c \in Cos : Contains(v.asyncQ, c) => /\ v.at[c] \in {"new", "idle"}
                                             /\ \A t \in Tokens : v.tokenTo[t] # c

\* A token leads to a coroutine that waits for it, to one for each; the tables of the
\* calls and of the sleepers agree with it.
Linked(v) ==
  /\ \A t \in Tokens : v.tokenTo[t] \in Cos => t <= v.uiToken /\ v.at[v.tokenTo[t]] \in Waiting
  /\ \A t, u \in Tokens : v.tokenTo[t] \in Cos /\ v.tokenTo[t] = v.tokenTo[u] => t = u
  /\ \A t \in Tokens : v.watching[t] # Nobody => v.tokenTo[t] \in Cos
  /\ \A t \in Tokens : v.tokenTo[t] \in Cos => (v.watching[t] # Nobody <=> v.at[v.tokenTo[t]] \in Calling)
  /\ \A c \in Cos : v.at[c] \in Asleep => v.sleeping[c] # 0 /\ v.tokenTo[v.sleeping[c]] = c
  /\ \A c \in Cos : v.at[c] \notin Asleep => v.sleeping[c] = 0

Sound(v) == v \in State /\ Placed(v) /\ Linked(v)

\* What is queued to be woken is asleep, what is queued to be cancelled is a call.
Queued(v) ==
  /\ Distinct(v.wakeupQ) /\ \A c \in Cos : Contains(v.wakeupQ, c) => v.sleeping[c] # 0
  /\ Distinct(v.cancelQ) /\ \A t \in Tokens : Contains(v.cancelQ, t) => v.watching[t] # Nobody

\* While no coroutine runs, somebody is about to serve the queues: the calls under way,
\* or those that the next coroutine of asyncQueue_t makes when it yields.
Serving(v) ==
  v.running = Nobody =>
    \/ v.wakeupQ = <<>> /\ v.cancelQ = <<>>
    \/ v.calls = <<>> /\ v.asyncQ # <<>>
    \/ v.calls # <<>> /\ Head(v.calls) = "wakeup" /\ Tail(v.calls) # <<>> /\ Head(Tail(v.calls)) = "cancel"
    \/ v.calls # <<>> /\ Head(v.calls) = "cancel" /\ v.wakeupQ = <<>>

\* The names above n are unused.
Few(v, n) == \A c \in Cos : c > n => v.at[c] = "none" /\ ~Contains(v.wakeupQ, c)

\* The names of coroutines are none of the marks in tokenToCoroutine_t.
LEMMA Names == /\ Nobody \notin Cos /\ BREAK \notin Cos /\ 0 \notin Tokens
               /\ Nobody \notin Services /\ Nobody \notin Addresses
               /\ Services \subseteq Addresses /\ \A a \in Addresses : IdOf[a] \in Services
              /\ \A t \in Tokens : t \in Nat
BY CosAssumption, MaxOpsAssumption, ServicesAssumption, NamesAssumption DEF Nobody, BREAK, Tokens, Addresses

-----------------------------------------------------------------------------
(* Coroutines *)

\* co_create_f finds a coroutine that nothing mentions.
LEMMA NewCoIsFree ==
  ASSUME NEW v, Sound(v), NEW n \in Nat, Few(v, n), Unlimited
  PROVE  /\ NewCo(v) \in Cos /\ v.at[NewCo(v)] \in {"none", "pooled"}
         /\ ~Contains(v.asyncQ, NewCo(v)) /\ v.running # NewCo(v)
         /\ \A t \in Tokens : v.tokenTo[t] # NewCo(v)
         /\ v.sleeping[NewCo(v)] = 0
         /\ Queued(v) => ~Contains(v.wakeupQ, NewCo(v))
<1> DEFINE c == NewCo(v)
<1>1. v.pool \in Seq(Cos) /\ v.at \in [Cos -> Kinds]
  BY DEF Sound, State
<1>a. /\ v.pool # <<>> => c = Last(v.pool)
      /\ v.pool = <<>> => c = CHOOSE y \in Cos : v.at[y] = "none" /\ ~Contains(v.wakeupQ, y)
  BY DEF NewCo
<1> HIDE DEF c
<1>2. ASSUME v.pool # <<>> PROVE c \in Cos /\ v.at[c] \in {"none", "pooled"}
  <2>1. c = Last(v.pool)
    BY <1>2, <1>a
  <2>2. c \in Cos /\ Contains(v.pool, c)
    BY <2>1, <1>1, <1>2, FrontOf
  <2>3. v.at[c] = "pooled"
    BY <2>2 DEF Sound, Placed
  <2>4. QED BY <2>2, <2>3
<1>3. ASSUME v.pool = <<>> PROVE c \in Cos /\ v.at[c] \in {"none", "pooled"}
  <2>1. PICK x \in Cos : x > n
    BY DEF Unlimited
  <2>2. v.at[x] = "none" /\ ~Contains(v.wakeupQ, x)
    BY <2>1 DEF Few
  <2>3. c = CHOOSE y \in Cos : v.at[y] = "none" /\ ~Contains(v.wakeupQ, y)
    BY <1>3, <1>a
  <2>4. c \in Cos /\ v.at[c] = "none"
    BY <2>2, <2>3, Zenon
  <2>5. QED BY <2>4
<1>4. c \in Cos /\ v.at[c] \in {"none", "pooled"}
  BY <1>2, <1>3
<1>5. ~Contains(v.asyncQ, c) /\ v.running # c
  BY <1>4 DEF Sound, Placed
<1>6. \A t \in Tokens : v.tokenTo[t] # c
  BY <1>4 DEF Sound, Linked, Waiting
<1>7. v.sleeping[c] = 0
  BY <1>4 DEF Sound, Linked, Asleep
<1>8. Queued(v) => ~Contains(v.wakeupQ, c)
  BY <1>4, <1>7 DEF Queued
<1>9. QED BY <1>4, <1>5, <1>6, <1>7, <1>8 DEF c

\* One coroutine moves, and with it the token under which it waits or waited; there is
\* none when u is 0.
Moves(v, w, c, as, u) ==
  /\ w.at[c] = as /\ \A x \in Cos : x # c => w.at[x] = v.at[x] /\ w.sleeping[x] = v.sleeping[x]
  /\ \/ w.running = v.running /\ v.running # c /\ as # "running"
     \/ v.running \in {Nobody, c} /\ w.running = (IF as = "running" THEN c ELSE Nobody)
  /\ Distinct(w.pool) /\ Distinct(w.asyncQ)
  /\ \A x \in Cos : Contains(w.pool, x) => IF x = c THEN as = "pooled" ELSE Contains(v.pool, x)
  /\ \A x \in Cos : Contains(w.asyncQ, x) => IF x = c THEN as \in {"new", "idle"} /\ \A t \in Tokens : w.tokenTo[t] # c
                                                      ELSE Contains(v.asyncQ, x)
  /\ v.uiToken <= w.uiToken
  /\ \A t \in Tokens : t # u => /\ w.tokenTo[t] = v.tokenTo[t] /\ w.watching[t] = v.watching[t]
                                /\ v.tokenTo[t] # c
  /\ u \in Tokens =>
       /\ v.tokenTo[u] \in Cos => v.tokenTo[u] = c
       /\ w.tokenTo[u] \in Cos => /\ w.tokenTo[u] = c /\ as \in Waiting /\ u <= w.uiToken
                                  /\ w.watching[u] # Nobody <=> as \in Calling
       /\ w.tokenTo[u] \notin Cos => w.watching[u] = Nobody
  /\ w.sleeping[c] = IF as \in Asleep THEN u ELSE 0
  /\ as \in Asleep => u \in Tokens /\ w.tokenTo[u] = c

\* The tables stay in order.
LEMMA MovesSound ==
  ASSUME NEW v, Sound(v), NEW w \in State, NEW c \in Cos, NEW as, NEW u, Moves(v, w, c, as, u)
  PROVE  Sound(w)
<1>1. /\ v \in State /\ Placed(v) /\ Linked(v)
      /\ v.at \in [Cos -> Kinds] /\ w.at \in [Cos -> Kinds]
      /\ v.uiToken \in Nat /\ w.uiToken \in Nat /\ Tokens \subseteq Nat /\ 0 \notin Tokens
      /\ v.running \in Cos \cup {Nobody} /\ Nobody \notin Cos
  BY Names DEF Sound, State
<1>2. w.at[c] = as /\ \A x \in Cos : x # c => w.at[x] = v.at[x] /\ w.sleeping[x] = v.sleeping[x]
  BY DEF Moves
<1>3. \A t \in Tokens : t # u => /\ w.tokenTo[t] = v.tokenTo[t] /\ w.watching[t] = v.watching[t]
                                 /\ v.tokenTo[t] # c
  BY DEF Moves
<1>4. u \in Tokens =>
        /\ v.tokenTo[u] \in Cos => v.tokenTo[u] = c
        /\ w.tokenTo[u] \in Cos => /\ w.tokenTo[u] = c /\ as \in Waiting /\ u <= w.uiToken
                                   /\ w.watching[u] # Nobody <=> as \in Calling
        /\ w.tokenTo[u] \notin Cos => w.watching[u] = Nobody
  BY DEF Moves
<1>5. \A x \in Cos : w.at[x] = "running" <=> w.running = x
  <2>1. \A x \in Cos : v.at[x] = "running" <=> v.running = x
    BY <1>1 DEF Placed
  <2>2. \/ w.running = v.running /\ v.running # c /\ as # "running"
        \/ v.running \in {Nobody, c} /\ w.running = (IF as = "running" THEN c ELSE Nobody)
    BY DEF Moves
  <2>3. QED BY <2>1, <2>2, <1>2, <1>1
<1>6. \A x \in Cos : Contains(w.pool, x) => w.at[x] = "pooled"
  <2>1. \A x \in Cos : Contains(v.pool, x) => v.at[x] = "pooled"
    BY <1>1 DEF Placed
  <2>2. \A x \in Cos : Contains(w.pool, x) => IF x = c THEN as = "pooled" ELSE Contains(v.pool, x)
    BY DEF Moves
  <2>3. QED BY <2>1, <2>2, <1>2
<1>7. \A x \in Cos : Contains(w.asyncQ, x) => /\ w.at[x] \in {"new", "idle"}
                                              /\ \A t \in Tokens : w.tokenTo[t] # x
  <2>1. \A x \in Cos : Contains(v.asyncQ, x) => /\ v.at[x] \in {"new", "idle"}
                                                /\ \A t \in Tokens : v.tokenTo[t] # x
    BY <1>1 DEF Placed
  <2>2. \A x \in Cos : Contains(w.asyncQ, x) =>
           IF x = c THEN as \in {"new", "idle"} /\ \A t \in Tokens : w.tokenTo[t] # c
                    ELSE Contains(v.asyncQ, x)
    BY DEF Moves
  <2>3. ASSUME NEW x \in Cos, Contains(w.asyncQ, x), x # c, NEW t \in Tokens PROVE w.tokenTo[t] # x
    BY <2>1, <2>2, <2>3, <1>3, <1>4
  <2>4. QED BY <2>1, <2>2, <2>3, <1>2
<1>8. Distinct(w.pool) /\ Distinct(w.asyncQ)
  BY DEF Moves
<1>9. Placed(w)
  BY <1>5, <1>6, <1>7, <1>8 DEF Placed
<1>10. \A t \in Tokens : w.tokenTo[t] \in Cos =>
          IF t = u THEN w.tokenTo[t] = c ELSE w.tokenTo[t] # c /\ w.tokenTo[t] = v.tokenTo[t]
  BY <1>3, <1>4
<1>11. v.uiToken <= w.uiToken
  BY DEF Moves
<1>12. /\ \A t \in Tokens : v.tokenTo[t] \in Cos => t <= v.uiToken /\ v.at[v.tokenTo[t]] \in Waiting
       /\ \A t, x \in Tokens : v.tokenTo[t] \in Cos /\ v.tokenTo[t] = v.tokenTo[x] => t = x
       /\ \A t \in Tokens : v.watching[t] # Nobody => v.tokenTo[t] \in Cos
       /\ \A t \in Tokens : v.tokenTo[t] \in Cos => (v.watching[t] # Nobody <=> v.at[v.tokenTo[t]] \in Calling)
       /\ \A x \in Cos : v.at[x] \in Asleep => v.sleeping[x] # 0 /\ v.tokenTo[v.sleeping[x]] = x
       /\ \A x \in Cos : v.at[x] \notin Asleep => v.sleeping[x] = 0
       /\ v.sleeping \in [Cos -> Tokens \cup {0}]
  BY <1>1 DEF Linked, State
<1>13. \A t \in Tokens : w.tokenTo[t] \in Cos => t <= w.uiToken /\ w.at[w.tokenTo[t]] \in Waiting
  <2>1. ASSUME NEW t \in Tokens, w.tokenTo[t] \in Cos, t # u
        PROVE  t <= w.uiToken /\ w.at[w.tokenTo[t]] \in Waiting
    <3>1. w.tokenTo[t] = v.tokenTo[t] /\ w.tokenTo[t] # c
      BY <2>1, <1>10
    <3>2. t <= v.uiToken /\ v.at[v.tokenTo[t]] \in Waiting
      BY <2>1, <3>1, <1>12
    <3>3. w.at[w.tokenTo[t]] = v.at[v.tokenTo[t]]
      BY <2>1, <3>1, <1>2
    <3>4. t <= w.uiToken
      BY <3>2, <1>11, <1>1
    <3>5. QED BY <3>2, <3>3, <3>4
  <2>2. QED BY <2>1, <1>4, <1>2
<1>14. \A t, x \in Tokens : w.tokenTo[t] \in Cos /\ w.tokenTo[t] = w.tokenTo[x] => t = x
  BY <1>10, <1>12
<1>15. \A t \in Tokens : w.watching[t] # Nobody => w.tokenTo[t] \in Cos
  BY <1>3, <1>4, <1>12
<1>16. \A t \in Tokens : w.tokenTo[t] \in Cos => (w.watching[t] # Nobody <=> w.at[w.tokenTo[t]] \in Calling)
  <2>1. ASSUME NEW t \in Tokens, w.tokenTo[t] \in Cos, t # u
        PROVE  w.watching[t] # Nobody <=> w.at[w.tokenTo[t]] \in Calling
    <3>1. w.tokenTo[t] = v.tokenTo[t] /\ w.tokenTo[t] # c /\ w.watching[t] = v.watching[t]
      BY <2>1, <1>10, <1>3
    <3>2. w.at[w.tokenTo[t]] = v.at[v.tokenTo[t]]
      BY <2>1, <3>1, <1>2
    <3>3. QED BY <2>1, <3>1, <3>2, <1>12
  <2>2. QED BY <2>1, <1>4, <1>2
<1>17. w.sleeping[c] = (IF as \in Asleep THEN u ELSE 0) /\ (as \in Asleep => u \in Tokens /\ w.tokenTo[u] = c)
  BY DEF Moves
<1>18. \A x \in Cos : w.at[x] \in Asleep => w.sleeping[x] # 0 /\ w.tokenTo[w.sleeping[x]] = x
  <2>1. ASSUME NEW x \in Cos, w.at[x] \in Asleep, x # c
        PROVE  w.sleeping[x] # 0 /\ w.tokenTo[w.sleeping[x]] = x
    <3>1. v.at[x] \in Asleep /\ w.sleeping[x] = v.sleeping[x]
      BY <2>1, <1>2
    <3>2. v.sleeping[x] # 0 /\ v.tokenTo[v.sleeping[x]] = x /\ v.sleeping[x] \in Tokens
      BY <3>1, <1>12
    <3>3. v.sleeping[x] # u
      BY <3>2, <2>1, <1>4
    <3>4. QED BY <3>1, <3>2, <3>3, <1>3
  <2>2. QED BY <2>1, <1>17, <1>2, <1>1
<1>19. \A x \in Cos : w.at[x] \notin Asleep => w.sleeping[x] = 0
  BY <1>2, <1>12, <1>17
<1>20. Linked(w)
  BY <1>13, <1>14, <1>15, <1>16, <1>18, <1>19 DEF Linked
<1>21. QED BY <1>9, <1>20 DEF Sound

\* So do the queues, when what they hold stays asleep or a call.
LEMMA MovesQueued ==
  ASSUME NEW v, Sound(v), Queued(v), NEW w \in State, NEW c \in Cos, NEW as, NEW u, Moves(v, w, c, as, u),
         Distinct(w.wakeupQ), Distinct(w.cancelQ),
         \A x \in Cos : Contains(w.wakeupQ, x) => Contains(v.wakeupQ, x) /\ x # c,
         \A t \in Tokens : Contains(w.cancelQ, t) => Contains(v.cancelQ, t) /\ t # u
  PROVE  Queued(w)
<1>1. \A x \in Cos : Contains(w.wakeupQ, x) => w.sleeping[x] # 0
  BY DEF Queued, Moves
<1>2. \A t \in Tokens : Contains(w.cancelQ, t) => w.watching[t] # Nobody
  BY DEF Queued, Moves
<1>3. QED BY <1>1, <1>2 DEF Queued

\* A running coroutine has no token and is not asleep; a token above the last one that
\* was given out leads nowhere.
LEMMA RunningIsFree ==
  ASSUME NEW v, Sound(v), v.running \in Cos
  PROVE  /\ v.at[v.running] = "running" /\ v.sleeping[v.running] = 0
         /\ \A t \in Tokens : v.tokenTo[t] # v.running
         /\ ~Contains(v.asyncQ, v.running) /\ ~Contains(v.pool, v.running)
         /\ Queued(v) => ~Contains(v.wakeupQ, v.running)
<1>1. v.at[v.running] = "running"
  BY DEF Sound, Placed
<1>2. v.sleeping[v.running] = 0
  BY <1>1 DEF Sound, Linked, Asleep
<1>3. \A t \in Tokens : v.tokenTo[t] # v.running
  BY <1>1 DEF Sound, Linked, Waiting
<1>4. ~Contains(v.asyncQ, v.running) /\ ~Contains(v.pool, v.running)
  BY <1>1 DEF Sound, Placed
<1>5. Queued(v) => ~Contains(v.wakeupQ, v.running)
  BY <1>2 DEF Queued
<1>6. QED BY <1>1, <1>2, <1>3, <1>4, <1>5

\* A token that was not given out yet means nothing to anybody.
LEMMA FreshToken ==
  ASSUME NEW v, Sound(v), NEW u \in Tokens, u > v.uiToken
  PROVE  /\ v.tokenTo[u] \notin Cos /\ v.watching[u] = Nobody
         /\ Queued(v) => ~Contains(v.cancelQ, u)
<1>1. v.uiToken \in Nat /\ u \in Nat
  BY Names DEF Sound, State
<1>2. v.tokenTo[u] \notin Cos
  BY <1>1 DEF Sound, Linked
<1>3. v.watching[u] = Nobody
  BY <1>2 DEF Sound, Linked
<1>4. QED BY <1>2, <1>3 DEF Queued

\* Names stay unused.
LEMMA MovesFew ==
  ASSUME NEW v, NEW w, NEW c \in Cos, NEW as, NEW u, Moves(v, w, c, as, u), NEW n \in Nat, Few(v, n),
         NEW m \in Nat, n <= m, c <= m, \A x \in Cos : Contains(w.wakeupQ, x) => Contains(v.wakeupQ, x)
  PROVE  Few(w, m)
<1>1. ASSUME NEW x \in Cos, x > m PROVE w.at[x] = "none" /\ ~Contains(w.wakeupQ, x)
  <2>1. x \in Nat /\ c \in Nat
    BY CosAssumption
  <2>2. x > n /\ x # c
    BY <2>1, <1>1
  <2>3. v.at[x] = "none" /\ ~Contains(v.wakeupQ, x)
    BY <2>2 DEF Few
  <2>4. w.at[x] = v.at[x]
    BY <2>2 DEF Moves
  <2>5. QED BY <2>3, <2>4
<1>2. QED BY <1>1 DEF Few

\* co_create_f
LEMMA CreatedOK ==
  ASSUME NEW v, Sound(v), NEW n \in Nat, Few(v, n), Unlimited, NEW as \in {"new", "idle"}
  PROVE  LET w == Created(v, as)
             c == NewCo(v)
         IN  /\ Sound(w) /\ (Queued(v) => Queued(w)) /\ \E m \in Nat : Few(w, m)
             /\ c \in Cos /\ w.at[c] = as /\ ~Contains(w.asyncQ, c) /\ w.running # c
             /\ \A t \in Tokens : w.tokenTo[t] # c
             /\ w.running = v.running /\ w.calls = v.calls /\ w.asyncQ = v.asyncQ
             /\ w.wakeupQ = v.wakeupQ /\ w.cancelQ = v.cancelQ /\ w.uiToken = v.uiToken
             /\ w.tokenTo = v.tokenTo /\ w.watching = v.watching
             /\ w.owed = v.owed /\ w.responses = v.responses
<1> DEFINE c == NewCo(v)
           p == IF v.pool = <<>> THEN v.pool ELSE Front(v.pool)
           w == Created(v, as)
<1>1. /\ c \in Cos /\ v.at[c] \in {"none", "pooled"}
      /\ ~Contains(v.asyncQ, c) /\ v.running # c
      /\ \A t \in Tokens : v.tokenTo[t] # c
      /\ v.sleeping[c] = 0
      /\ Queued(v) => ~Contains(v.wakeupQ, c)
  BY NewCoIsFree
<1>2. v \in State /\ Placed(v)
  BY DEF Sound
<1>3. w = [v EXCEPT !.at = [v.at EXCEPT ![c] = as], !.pool = p]
  BY <1>2 DEF Created, State
<1>4. /\ p \in Seq(Cos) /\ Distinct(p) /\ ~Contains(p, c)
      /\ \A x \in Cos : Contains(p, x) => Contains(v.pool, x)
  <2>1. v.pool \in Seq(Cos) /\ Distinct(v.pool)
    BY <1>2 DEF State, Placed
  <2>3. QED
    <3>1. CASE v.pool = <<>>
      BY <2>1, <3>1, EmptyQueue
    <3>2. CASE v.pool # <<>>
      <4>1. c = Last(v.pool) /\ p = Front(v.pool)
        BY <3>2 DEF NewCo
      <4>2. QED BY <4>1, <3>2, <2>1, FrontOf
    <3>3. QED BY <3>1, <3>2
<1>5. [v.at EXCEPT ![c] = as] \in [Cos -> Kinds]
  BY <1>1, <1>2 DEF State, Kinds
<1> HIDE DEF c, p
<1>6. /\ w \in State /\ w.at = [v.at EXCEPT ![c] = as] /\ w.pool = p
      /\ w.running = v.running /\ w.calls = v.calls /\ w.asyncQ = v.asyncQ
      /\ w.wakeupQ = v.wakeupQ /\ w.cancelQ = v.cancelQ /\ w.uiToken = v.uiToken
      /\ w.tokenTo = v.tokenTo /\ w.watching = v.watching /\ w.sleeping = v.sleeping
      /\ w.owed = v.owed /\ w.responses = v.responses
  BY <1>2, <1>3, <1>4, <1>5 DEF State
<1> HIDE DEF w
<1>7. w.at[c] = as /\ \A x \in Cos : x # c => w.at[x] = v.at[x]
  BY <1>1, <1>2, <1>6 DEF State
<1>8. Moves(v, w, c, as, 0)
  <2>1. v.uiToken \in Nat /\ Distinct(v.asyncQ)
    BY <1>2 DEF State, Placed
  <2>2. as \notin Asleep /\ as # "running" /\ 0 \notin Tokens
    BY Names DEF Asleep
  <2>3. /\ \A x \in Cos : x # c => w.at[x] = v.at[x] /\ w.sleeping[x] = v.sleeping[x]
        /\ w.at[c] = as /\ w.sleeping[c] = 0
        /\ w.running = v.running /\ v.running # c
    BY <1>1, <1>6, <1>7
  <2>7. v.uiToken <= w.uiToken
    BY <1>6, <2>1
  <2>4. /\ Distinct(w.pool) /\ Distinct(w.asyncQ) /\ ~Contains(w.pool, c) /\ ~Contains(w.asyncQ, c)
        /\ \A x \in Cos : Contains(w.pool, x) => Contains(v.pool, x)
        /\ \A x \in Cos : Contains(w.asyncQ, x) => Contains(v.asyncQ, x)
    BY <1>1, <1>4, <1>6, <2>1
  <2>5. \A t \in Tokens : w.tokenTo[t] = v.tokenTo[t] /\ w.watching[t] = v.watching[t] /\ v.tokenTo[t] # c
    BY <1>1, <1>6
  <2>6. QED BY <2>2, <2>3, <2>4, <2>5, <2>7 DEF Moves
<1>a. c \in Cos /\ w \in State
  BY <1>1, <1>6
<1>9. Sound(w)
  BY <1>a, <1>8, MovesSound
<1>10. Queued(v) => Queued(w)
  BY <1>6 DEF Queued
<1>11. \E m \in Nat : Few(w, m)
  <2> DEFINE m == IF c > n THEN c ELSE n
  <2>1. m \in Nat /\ n <= m /\ c <= m
    BY <1>1, CosAssumption
  <2>2. Few(w, m)
    BY <2>1, <1>1, <1>6, <1>8, MovesFew
  <2>3. QED BY <2>1, <2>2
<1>12. QED BY <1>1, <1>6, <1>7, <1>9, <1>10, <1>11 DEF c, w

\* co_resume_f of a coroutine that did not run yet
LEMMA ResumedOK ==
  ASSUME NEW v, Sound(v), NEW n \in Nat, Few(v, n), v.running = Nobody, NEW c \in Cos,
         v.at[c] \in {"new", "idle"}, ~Contains(v.asyncQ, c), \A t \in Tokens : v.tokenTo[t] # c
  PROVE  LET w == Resumed(v, c)
         IN  /\ Sound(w) /\ (Queued(v) => Queued(w)) /\ \E m \in Nat : Few(w, m)
             /\ w.running = c /\ w.calls = v.calls /\ w.asyncQ = v.asyncQ
             /\ w.wakeupQ = v.wakeupQ /\ w.cancelQ = v.cancelQ /\ w.uiToken = v.uiToken
             /\ w.tokenTo = v.tokenTo /\ w.watching = v.watching
             /\ w.owed = v.owed /\ w.responses = v.responses
<1> DEFINE w == Resumed(v, c)
<1>1. v \in State /\ Placed(v) /\ Linked(v)
  BY DEF Sound
<1>2. w = [v EXCEPT !.running = c, !.at = [v.at EXCEPT ![c] = "running"]]
  BY <1>1 DEF Resumed, State
<1>3. [v.at EXCEPT ![c] = "running"] \in [Cos -> Kinds]
  BY <1>1 DEF State, Kinds
<1>4. /\ w \in State /\ w.at = [v.at EXCEPT ![c] = "running"] /\ w.pool = v.pool
      /\ w.running = c /\ w.calls = v.calls /\ w.asyncQ = v.asyncQ
      /\ w.wakeupQ = v.wakeupQ /\ w.cancelQ = v.cancelQ /\ w.uiToken = v.uiToken
      /\ w.tokenTo = v.tokenTo /\ w.watching = v.watching /\ w.sleeping = v.sleeping
      /\ w.owed = v.owed /\ w.responses = v.responses
  BY <1>1, <1>2, <1>3 DEF State
<1> HIDE DEF w
<1>5. w.at[c] = "running" /\ \A x \in Cos : x # c => w.at[x] = v.at[x]
  BY <1>1, <1>4 DEF State
<1>6. v.sleeping[c] = 0 /\ ~Contains(v.pool, c)
  BY <1>1 DEF Linked, Placed, Asleep
<1>7. Moves(v, w, c, "running", 0)
  <2>1. v.uiToken \in Nat /\ Distinct(v.asyncQ) /\ Distinct(v.pool)
    BY <1>1 DEF State, Placed
  <2>2. "running" \notin Asleep /\ 0 \notin Tokens
    BY Names DEF Asleep
  <2>3. QED BY <1>4, <1>5, <1>6, <2>1, <2>2 DEF Moves
<1>8. Sound(w)
  BY <1>4, <1>7, MovesSound
<1>9. Queued(v) => Queued(w)
  <2>1. ASSUME Queued(v) PROVE Queued(w)
    <3>1. Distinct(w.wakeupQ) /\ Distinct(w.cancelQ) /\ ~Contains(v.wakeupQ, c)
      BY <2>1, <1>4, <1>6 DEF Queued
    <3>2. /\ \A x \in Cos : Contains(w.wakeupQ, x) => Contains(v.wakeupQ, x) /\ x # c
          /\ \A t \in Tokens : Contains(w.cancelQ, t) => Contains(v.cancelQ, t) /\ t # 0
      BY <3>1, <1>4, Names
    <3>3. QED BY <2>1, <3>1, <3>2, <1>4, <1>7, MovesQueued
  <2>2. QED BY <2>1
<1>10. \E m \in Nat : Few(w, m)
  <2> DEFINE m == IF c > n THEN c ELSE n
  <2>1. m \in Nat /\ n <= m /\ c <= m
    BY CosAssumption
  <2>2. Few(w, m)
    BY <2>1, <1>4, <1>7, MovesFew
  <2>3. QED BY <2>1, <2>2
<1>11. QED BY <1>4, <1>8, <1>9, <1>10 DEF w

\* Tables that differ only in what does not concern the coroutines.
Alike(v, w) ==
  /\ w.running = v.running /\ w.at = v.at /\ w.pool = v.pool /\ w.asyncQ = v.asyncQ
  /\ w.wakeupQ = v.wakeupQ /\ w.cancelQ = v.cancelQ /\ w.uiToken = v.uiToken
  /\ w.tokenTo = v.tokenTo /\ w.watching = v.watching /\ w.sleeping = v.sleeping

\* Then the one is as sound as the other.
LEMMA AlikeOK ==
  ASSUME NEW v, Sound(v), NEW w \in State, Alike(v, w)
  PROVE  Sound(w) /\ (Queued(v) => Queued(w)) /\ \A n \in Nat : Few(v, n) => Few(w, n)
<1>1. Placed(w)
  BY DEF Sound, Placed, Alike
<1>2. Linked(w)
  BY DEF Sound, Linked, Alike
<1>3. QED BY <1>1, <1>2 DEF Sound, Queued, Few, Alike

\* async: a coroutine is queued to be run.
LEMMA AsyncOK ==
  ASSUME NEW v, Sound(v), NEW n \in Nat, Few(v, n), NEW c \in Cos, v.at[c] \in {"new", "idle"},
         ~Contains(v.asyncQ, c), \A t \in Tokens : v.tokenTo[t] # c
  PROVE  LET w == [v EXCEPT !.asyncQ = Append(@, c)]
         IN  /\ Sound(w) /\ (Queued(v) => Queued(w)) /\ Few(w, n)
             /\ w.asyncQ = Append(v.asyncQ, c) /\ w.asyncQ # <<>>
             /\ w.running = v.running /\ w.calls = v.calls
             /\ w.wakeupQ = v.wakeupQ /\ w.cancelQ = v.cancelQ /\ w.uiToken = v.uiToken
             /\ w.tokenTo = v.tokenTo /\ w.watching = v.watching
             /\ w.owed = v.owed /\ w.responses = v.responses
<1> DEFINE q == Append(v.asyncQ, c)
           w == [v EXCEPT !.asyncQ = Append(@, c)]
<1>1. v \in State /\ Placed(v) /\ Linked(v) /\ v.asyncQ \in Seq(Cos) /\ Distinct(v.asyncQ)
  BY DEF Sound, State, Placed
<1>2. /\ q \in Seq(Cos) /\ q # <<>> /\ Distinct(q)
      /\ \A x : Contains(q, x) <=> Contains(v.asyncQ, x) \/ x = c
  BY <1>1, AppendedTo
<1>3. w = [v EXCEPT !.asyncQ = q]
  BY <1>1 DEF State
<1> HIDE DEF q
<1>4. /\ w \in State /\ w.asyncQ = q /\ w.running = v.running /\ w.at = v.at /\ w.pool = v.pool
      /\ w.wakeupQ = v.wakeupQ /\ w.cancelQ = v.cancelQ /\ w.uiToken = v.uiToken
      /\ w.tokenTo = v.tokenTo /\ w.watching = v.watching /\ w.sleeping = v.sleeping
      /\ w.owed = v.owed /\ w.responses = v.responses /\ w.calls = v.calls
  BY <1>1, <1>2, <1>3 DEF State
<1> HIDE DEF w
<1>5. Placed(w)
  <2>1. \A x \in Cos : Contains(v.asyncQ, x) => /\ v.at[x] \in {"new", "idle"}
                                                /\ \A t \in Tokens : v.tokenTo[t] # x
    BY <1>1 DEF Placed
  <2>2. \A x \in Cos : Contains(w.asyncQ, x) => /\ w.at[x] \in {"new", "idle"}
                                                /\ \A t \in Tokens : w.tokenTo[t] # x
    BY <2>1, <1>2, <1>4
  <2>3. QED BY <2>2, <1>1, <1>2, <1>4 DEF Placed
<1>6. Linked(w)
  BY <1>1, <1>4 DEF Linked
<1>7. (Queued(v) => Queued(w)) /\ Few(w, n)
  BY <1>4 DEF Queued, Few
<1>8. QED BY <1>2, <1>4, <1>5, <1>6, <1>7 DEF q, w, Sound

\* asyncQueue_t gives its first coroutine.
LEMMA AsyncTaken ==
  ASSUME NEW v, Sound(v), NEW n \in Nat, Few(v, n), v.asyncQ # <<>>
  PROVE  LET w == [v EXCEPT !.asyncQ = Tail(@)]
             c == Head(v.asyncQ)
         IN  /\ Sound(w) /\ (Queued(v) => Queued(w)) /\ Few(w, n)
             /\ c \in Cos /\ w.at[c] = v.at[c] /\ w.at[c] \in {"new", "idle"} /\ ~Contains(w.asyncQ, c)
             /\ \A t \in Tokens : w.tokenTo[t] # c
             /\ w.running = v.running /\ w.calls = v.calls
             /\ w.wakeupQ = v.wakeupQ /\ w.cancelQ = v.cancelQ /\ w.uiToken = v.uiToken
             /\ w.tokenTo = v.tokenTo /\ w.watching = v.watching
             /\ w.owed = v.owed /\ w.responses = v.responses
<1> DEFINE q == Tail(v.asyncQ)
           c == Head(v.asyncQ)
           w == [v EXCEPT !.asyncQ = Tail(@)]
<1>1. v \in State /\ Placed(v) /\ Linked(v) /\ v.asyncQ \in Seq(Cos) /\ Distinct(v.asyncQ)
  BY DEF Sound, State, Placed
<1>2. /\ q \in Seq(Cos) /\ Distinct(q) /\ ~Contains(q, c)
      /\ \A x : Contains(v.asyncQ, x) <=> x = c \/ Contains(q, x)
  BY <1>1, TailOf
<1>3. c \in Cos
  BY <1>1, NonEmpty
<1>4. w = [v EXCEPT !.asyncQ = q]
  BY <1>1 DEF State
<1> HIDE DEF q, c
<1>5. /\ w \in State /\ w.asyncQ = q /\ w.running = v.running /\ w.at = v.at /\ w.pool = v.pool
      /\ w.wakeupQ = v.wakeupQ /\ w.cancelQ = v.cancelQ /\ w.uiToken = v.uiToken
      /\ w.tokenTo = v.tokenTo /\ w.watching = v.watching /\ w.sleeping = v.sleeping
      /\ w.owed = v.owed /\ w.responses = v.responses /\ w.calls = v.calls
  BY <1>1, <1>2, <1>4 DEF State
<1> HIDE DEF w
<1>6. \A x \in Cos : Contains(v.asyncQ, x) => /\ v.at[x] \in {"new", "idle"}
                                              /\ \A t \in Tokens : v.tokenTo[t] # x
  BY <1>1 DEF Placed
<1>7. Placed(w)
  <2>1. \A x \in Cos : Contains(w.asyncQ, x) => /\ w.at[x] \in {"new", "idle"}
                                                /\ \A t \in Tokens : w.tokenTo[t] # x
    BY <1>6, <1>2, <1>5
  <2>2. QED BY <2>1, <1>1, <1>2, <1>5 DEF Placed
<1>8. Linked(w)
  BY <1>1, <1>5 DEF Linked
<1>9. (Queued(v) => Queued(w)) /\ Few(w, n)
  BY <1>5 DEF Queued, Few
<1>10. /\ w.at[c] = v.at[c] /\ w.at[c] \in {"new", "idle"} /\ ~Contains(w.asyncQ, c)
       /\ \A t \in Tokens : w.tokenTo[t] # c
  BY <1>2, <1>3, <1>5, <1>6
<1>11. QED BY <1>3, <1>5, <1>7, <1>8, <1>9, <1>10 DEF q, c, w, Sound

\* The calls that suspend_f makes.
LEMMA ChainedCalls ==
  ASSUME NEW q \in Seq({"wakeup", "cancel"})
  PROVE  LET p == <<"wakeup", "cancel">> \o q
         IN  /\ p \in Seq({"wakeup", "cancel"}) /\ p # <<>> /\ Head(p) = "wakeup"
             /\ Tail(p) # <<>> /\ Head(Tail(p)) = "cancel"
<1> DEFINE p == <<"wakeup", "cancel">> \o q
<1>1. /\ p \in Seq({"wakeup", "cancel"}) /\ Len(p) = 2 + Len(q) /\ Len(q) \in Nat
      /\ p[1] = "wakeup" /\ p[2] = "cancel"
  OBVIOUS
<1> HIDE DEF p
<1>2. p # <<>> /\ Head(p) = "wakeup"
  BY <1>1
<1>3. Tail(p) \in Seq({"wakeup", "cancel"}) /\ Len(Tail(p)) = Len(p) - 1 /\ Tail(p)[1] = p[2]
  BY <1>1, <1>2, TailOf
<1>4. Tail(p) # <<>>
  <2>1. Len(Tail(p)) # 0
    BY <1>1, <1>3
  <2>2. Len(<<>>) = 0
    OBVIOUS
  <2>3. QED BY <2>1, <2>2
<1>5. Head(Tail(p)) = "cancel"
  BY <1>1, <1>3, <1>4, NonEmpty
<1>6. QED BY <1>1, <1>2, <1>4, <1>5 DEF p

\* suspend_f
LEMMA SuspendedFields ==
  ASSUME NEW v \in State, v.running \in Cos, NEW why \in Kinds
  PROVE  LET w == Suspended(v, why)
         IN  /\ w \in State /\ Serving(w) /\ w.running = Nobody
             /\ w.at = [v.at EXCEPT ![v.running] = why] /\ w.pool = v.pool /\ w.asyncQ = v.asyncQ
             /\ w.wakeupQ = v.wakeupQ /\ w.cancelQ = v.cancelQ /\ w.uiToken = v.uiToken
             /\ w.tokenTo = v.tokenTo /\ w.watching = v.watching /\ w.sleeping = v.sleeping
             /\ w.owed = v.owed /\ w.responses = v.responses
<1> DEFINE w == Suspended(v, why)
           a == [v.at EXCEPT ![v.running] = why]
           q == IF v.wakeupQ = <<>> /\ v.cancelQ = <<>> THEN <<>> ELSE <<"wakeup", "cancel">> \o v.calls
<1>1. a \in [Cos -> Kinds] /\ v.calls \in Seq({"wakeup", "cancel"})
  BY DEF State
<1>2. /\ q \in Seq({"wakeup", "cancel"})
      /\ v.wakeupQ # <<>> \/ v.cancelQ # <<>> =>
           q # <<>> /\ Head(q) = "wakeup" /\ Tail(q) # <<>> /\ Head(Tail(q)) = "cancel"
  <2>1. CASE v.wakeupQ = <<>> /\ v.cancelQ = <<>>
    BY <2>1, EmptyQueue
  <2>2. CASE ~(v.wakeupQ = <<>> /\ v.cancelQ = <<>>)
    <3>1. q = <<"wakeup", "cancel">> \o v.calls
      BY <2>2
    <3> HIDE DEF q
    <3>2. QED BY <3>1, <1>1, ChainedCalls
  <2>3. QED BY <2>1, <2>2
<1>3. w = [v EXCEPT !.at = a, !.running = Nobody, !.calls = q]
  BY DEF Suspended, Chained, State
<1> HIDE DEF a, q
<1>4. /\ w \in State /\ w.running = Nobody /\ w.calls = q
      /\ w.at = a /\ w.pool = v.pool /\ w.asyncQ = v.asyncQ
      /\ w.wakeupQ = v.wakeupQ /\ w.cancelQ = v.cancelQ /\ w.uiToken = v.uiToken
      /\ w.tokenTo = v.tokenTo /\ w.watching = v.watching /\ w.sleeping = v.sleeping
      /\ w.owed = v.owed /\ w.responses = v.responses
  BY <1>1, <1>2, <1>3 DEF State
<1> HIDE DEF w
<1>5. Serving(w)
  BY <1>2, <1>4 DEF Serving
<1>6. QED BY <1>4, <1>5 DEF w, a

\* The running coroutine gives way without a token: it goes to the pool, or is gone.
LEMMA LeftOK ==
  ASSUME NEW v, Sound(v), NEW n \in Nat, Few(v, n), v.running \in Cos,
         NEW w \in State, NEW as \in {"pooled", "none"}, w.running = Nobody,
         w.at = [v.at EXCEPT ![v.running] = as],
         w.pool = IF as = "pooled" THEN Append(v.pool, v.running) ELSE v.pool,
         w.asyncQ = v.asyncQ, w.wakeupQ = v.wakeupQ, w.cancelQ = v.cancelQ, w.uiToken = v.uiToken,
         w.tokenTo = v.tokenTo, w.watching = v.watching, w.sleeping = v.sleeping
  PROVE  Sound(w) /\ (Queued(v) => Queued(w)) /\ \E m \in Nat : Few(w, m)
<1> DEFINE c == v.running
<1>1. v \in State /\ Placed(v) /\ Linked(v) /\ c \in Cos
  BY DEF Sound
<1>2. /\ v.at[c] = "running" /\ v.sleeping[c] = 0 /\ \A t \in Tokens : v.tokenTo[t] # c
      /\ ~Contains(v.asyncQ, c) /\ ~Contains(v.pool, c)
  BY RunningIsFree
<1>3. w.at[c] = as /\ \A x \in Cos : x # c => w.at[x] = v.at[x]
  BY <1>1 DEF State
<1>4. /\ Distinct(w.pool)
      /\ \A x \in Cos : Contains(w.pool, x) => IF x = c THEN as = "pooled" ELSE Contains(v.pool, x)
  <2>1. v.pool \in Seq(Cos) /\ Distinct(v.pool)
    BY <1>1 DEF State, Placed
  <2>2. CASE as = "pooled"
    <3>1. w.pool = Append(v.pool, c)
      BY <2>2
    <3>2. QED BY <3>1, <2>1, <2>2, <1>1, <1>2, AppendedTo
  <2>3. CASE as # "pooled"
    BY <2>1, <2>3, <1>2
  <2>4. QED BY <2>2, <2>3
<1> HIDE DEF c
<1>5. v.running = c
  BY DEF c
<1>6. Moves(v, w, c, as, 0)
  <2>1. v.uiToken \in Nat /\ Distinct(v.asyncQ)
    BY <1>1 DEF State, Placed
  <2>2. as \notin Asleep /\ as # "running" /\ 0 \notin Tokens
    BY Names DEF Asleep
  <2>3. v.uiToken <= w.uiToken
    BY <2>1
  <2>4. \A x \in Cos : x # c => w.at[x] = v.at[x] /\ w.sleeping[x] = v.sleeping[x]
    BY <1>3
  <2>5. Distinct(w.asyncQ) /\ ~Contains(w.asyncQ, c) /\ \A x \in Cos : Contains(w.asyncQ, x) => Contains(v.asyncQ, x)
    BY <1>2, <2>1
  <2>6. \A t \in Tokens : w.tokenTo[t] = v.tokenTo[t] /\ w.watching[t] = v.watching[t] /\ v.tokenTo[t] # c
    BY <1>2
  <2>7. w.sleeping[c] = 0 /\ w.running = Nobody /\ v.running = c
    BY <1>2, <1>5
  <2>8. QED BY <1>3, <1>4, <2>2, <2>3, <2>4, <2>5, <2>6, <2>7 DEF Moves
<1>7. Sound(w)
  BY <1>1, <1>6, MovesSound
<1>8. Queued(v) => Queued(w)
  BY DEF Queued
<1>9. \E m \in Nat : Few(w, m)
  <2> DEFINE m == IF c > n THEN c ELSE n
  <2>1. m \in Nat /\ n <= m /\ c <= m
    BY <1>1, CosAssumption
  <2>2. Few(w, m)
    BY <2>1, <1>1, <1>6, MovesFew
  <2>3. QED BY <2>1, <2>2
<1>10. QED BY <1>7, <1>8, <1>9

\* The function of the running coroutine returned.
LEMMA EndedOK ==
  ASSUME NEW v, Sound(v), NEW n \in Nat, Few(v, n), v.running \in Cos
  PROVE  LET w == Ended(v)
         IN  /\ Sound(w) /\ (Queued(v) => Queued(w)) /\ Serving(w) /\ \E m \in Nat : Few(w, m)
             /\ w.running = Nobody /\ w.asyncQ = v.asyncQ
             /\ w.wakeupQ = v.wakeupQ /\ w.cancelQ = v.cancelQ /\ w.uiToken = v.uiToken
             /\ w.tokenTo = v.tokenTo /\ w.watching = v.watching
             /\ w.owed = [v.owed EXCEPT ![v.running] = <<>>] /\ w.responses = v.responses
<1> DEFINE c == v.running
           o == [v.owed EXCEPT ![c] = <<>>]
           p == Append(v.pool, c)
           g == [v EXCEPT !.owed = o, !.pool = p]
           w == Ended(v)
<1>1. v \in State
  BY DEF Sound
<1>2. o \in [Cos -> {<<>>} \cup Call_]
  BY <1>1 DEF State
<1>3. p \in Seq(Cos)
  BY <1>1 DEF State
<1>4. [v EXCEPT !.owed[v.running] = <<>>, !.pool = Append(@, v.running)] = g
  BY <1>1 DEF State
<1>5. w = Suspended(g, "pooled")
  BY <1>4 DEF Ended
<1> HIDE DEF o, p
<1>6. /\ g \in State /\ g.running = v.running /\ g.at = v.at /\ g.pool = p /\ g.asyncQ = v.asyncQ
      /\ g.wakeupQ = v.wakeupQ /\ g.cancelQ = v.cancelQ /\ g.uiToken = v.uiToken
      /\ g.tokenTo = v.tokenTo /\ g.watching = v.watching /\ g.sleeping = v.sleeping
      /\ g.owed = o /\ g.responses = v.responses
  BY <1>1, <1>2, <1>3 DEF State
<1> HIDE DEF g, w
<1>7. "pooled" \in Kinds
  BY DEF Kinds
<1>8. /\ w \in State /\ Serving(w) /\ w.running = Nobody
      /\ w.at = [g.at EXCEPT ![g.running] = "pooled"] /\ w.pool = g.pool /\ w.asyncQ = g.asyncQ
      /\ w.wakeupQ = g.wakeupQ /\ w.cancelQ = g.cancelQ /\ w.uiToken = g.uiToken
      /\ w.tokenTo = g.tokenTo /\ w.watching = g.watching /\ w.sleeping = g.sleeping
      /\ w.owed = g.owed /\ w.responses = g.responses
  BY <1>5, <1>6, <1>7, SuspendedFields
<1>9. /\ w.at = [v.at EXCEPT ![v.running] = "pooled"] /\ w.asyncQ = v.asyncQ
      /\ w.pool = IF "pooled" = "pooled" THEN Append(v.pool, v.running) ELSE v.pool
      /\ w.wakeupQ = v.wakeupQ /\ w.cancelQ = v.cancelQ /\ w.uiToken = v.uiToken
      /\ w.tokenTo = v.tokenTo /\ w.watching = v.watching /\ w.sleeping = v.sleeping
      /\ w.owed = o /\ w.responses = v.responses
  BY <1>6, <1>8 DEF p
<1>10. Sound(w) /\ (Queued(v) => Queued(w)) /\ \E m \in Nat : Few(w, m)
  BY <1>8, <1>9, LeftOK
<1>11. QED BY <1>8, <1>9, <1>10 DEF o, w

\* The function of the running coroutine raised an error.
LEMMA FailedOK ==
  ASSUME NEW v, Sound(v), NEW n \in Nat, Few(v, n), Unlimited, v.running \in Cos
  PROVE  LET w == Failed(v)
         IN  /\ Sound(w) /\ (Queued(v) => Queued(w)) /\ Serving(w) /\ \E m \in Nat : Few(w, m)
             /\ w.running = Nobody
             /\ w.wakeupQ = v.wakeupQ /\ w.cancelQ = v.cancelQ /\ w.uiToken = v.uiToken
             /\ w.tokenTo = v.tokenTo /\ w.watching = v.watching
             /\ w.owed = [v.owed EXCEPT ![v.running] = <<>>] /\ w.responses = v.responses
<1> DEFINE c == v.running
           o == [v.owed EXCEPT ![c] = <<>>]
           a == [v.at EXCEPT ![c] = "none"]
           g == [v EXCEPT !.owed = o, !.at = a, !.running = Nobody, !.calls = <<>>]
           h == Created(g, "idle")
           x == NewCo(g)
           w == Failed(v)
<1>1. v \in State
  BY DEF Sound
<1>2. o \in [Cos -> {<<>>} \cup Call_]
  BY <1>1 DEF State
<1>3. a \in [Cos -> Kinds] /\ <<>> \in Seq({"wakeup", "cancel"})
  BY <1>1 DEF State, Kinds
<1>4. [v EXCEPT !.owed[v.running] = <<>>, !.at[v.running] = "none", !.running = Nobody, !.calls = <<>>] = g
  BY <1>1 DEF State
<1>5. w = [h EXCEPT !.asyncQ = Append(@, x)]
  BY <1>4 DEF Failed
<1> HIDE DEF o, a
<1>6. /\ g \in State /\ g.running = Nobody /\ g.at = a /\ g.pool = v.pool /\ g.asyncQ = v.asyncQ
      /\ g.wakeupQ = v.wakeupQ /\ g.cancelQ = v.cancelQ /\ g.uiToken = v.uiToken
      /\ g.tokenTo = v.tokenTo /\ g.watching = v.watching /\ g.sleeping = v.sleeping
      /\ g.owed = o /\ g.responses = v.responses /\ g.calls = <<>>
  BY <1>1, <1>2, <1>3 DEF State
<1> HIDE DEF g
<1>7. g.pool = IF "none" = "pooled" THEN Append(v.pool, v.running) ELSE v.pool
  BY <1>6
<1>8. Sound(g) /\ (Queued(v) => Queued(g)) /\ \E m \in Nat : Few(g, m)
  BY <1>6, <1>7, LeftOK DEF a
<1>9. PICK m \in Nat : Few(g, m)
  BY <1>8
<1>10. /\ Sound(h) /\ (Queued(g) => Queued(h)) /\ \E k \in Nat : Few(h, k)
       /\ x \in Cos /\ h.at[x] = "idle" /\ ~Contains(h.asyncQ, x)
       /\ \A t \in Tokens : h.tokenTo[t] # x
       /\ h.running = g.running /\ h.calls = g.calls
       /\ h.wakeupQ = g.wakeupQ /\ h.cancelQ = g.cancelQ /\ h.uiToken = g.uiToken
       /\ h.tokenTo = g.tokenTo /\ h.watching = g.watching
       /\ h.owed = g.owed /\ h.responses = g.responses
  BY <1>8, <1>9, CreatedOK
<1> HIDE DEF h, x
<1>11. PICK k \in Nat : Few(h, k)
  BY <1>10
<1>12. /\ Sound(w) /\ (Queued(h) => Queued(w)) /\ Few(w, k) /\ w.asyncQ # <<>>
       /\ w.running = h.running /\ w.calls = h.calls
       /\ w.wakeupQ = h.wakeupQ /\ w.cancelQ = h.cancelQ /\ w.uiToken = h.uiToken
       /\ w.tokenTo = h.tokenTo /\ w.watching = h.watching
       /\ w.owed = h.owed /\ w.responses = h.responses
  BY <1>5, <1>10, <1>11, AsyncOK
<1> HIDE DEF w
<1>13. Serving(w)
  BY <1>6, <1>10, <1>12 DEF Serving
<1>14. Queued(v) => Queued(w)
  BY <1>8, <1>10, <1>12
<1>15. /\ w.running = Nobody /\ w.wakeupQ = v.wakeupQ /\ w.cancelQ = v.cancelQ /\ w.uiToken = v.uiToken
       /\ w.tokenTo = v.tokenTo /\ w.watching = v.watching /\ w.owed = o /\ w.responses = v.responses
  BY <1>6, <1>10, <1>12
<1>16. QED BY <1>11, <1>12, <1>13, <1>14, <1>15 DEF o, w

\* The coroutine of a token is resumed, by its answer or because it was broken off.
WokenAs(v, w, c, t, d) ==
  /\ w.running = c /\ w.at = [v.at EXCEPT ![c] = "running"]
  /\ w.tokenTo = [v.tokenTo EXCEPT ![t] = d] /\ w.watching = [v.watching EXCEPT ![t] = Nobody]
  /\ w.sleeping = [v.sleeping EXCEPT ![c] = 0]
  /\ w.pool = v.pool /\ w.asyncQ = v.asyncQ /\ w.uiToken = v.uiToken

\* The queues are shorter.
Within(v, q, p) ==
  /\ \A x \in Cos : Contains(q, x) => Contains(v.wakeupQ, x)
  /\ \A x \in Tokens : Contains(p, x) => Contains(v.cancelQ, x)

\* Neither the coroutine nor its token is in them any more.
Without(c, t, q, p) == Distinct(q) /\ Distinct(p) /\ ~Contains(q, c) /\ ~Contains(p, t)

\* The coroutine of a token takes its answer and runs: the tables stay sound.
LEMMA WokenOK ==
  ASSUME NEW v, Sound(v), NEW n \in Nat, Few(v, n), v.running = Nobody,
         NEW t \in Tokens, NEW c \in Cos, v.tokenTo[t] = c, NEW d \in Marks,
         NEW w \in State, WokenAs(v, w, c, t, d), Within(v, w.wakeupQ, w.cancelQ)
  PROVE  /\ Sound(w) /\ (\E m \in Nat : Few(w, m))
         /\ (Queued(v) /\ Without(c, t, w.wakeupQ, w.cancelQ) => Queued(w))
<1>0. /\ w.running = c /\ w.at = [v.at EXCEPT ![c] = "running"]
      /\ w.tokenTo = [v.tokenTo EXCEPT ![t] = d] /\ w.watching = [v.watching EXCEPT ![t] = Nobody]
      /\ w.sleeping = [v.sleeping EXCEPT ![c] = 0]
      /\ w.pool = v.pool /\ w.asyncQ = v.asyncQ /\ w.uiToken = v.uiToken
      /\ \A x \in Cos : Contains(w.wakeupQ, x) => Contains(v.wakeupQ, x)
  BY DEF WokenAs, Within
<1>1. v \in State /\ Placed(v) /\ Linked(v)
  BY DEF Sound
<1>2. w.at[c] = "running" /\ \A x \in Cos : x # c => w.at[x] = v.at[x] /\ w.sleeping[x] = v.sleeping[x]
  BY <1>0, <1>1 DEF State
<1>3. w.sleeping[c] = 0 /\ w.tokenTo[t] = d /\ d \notin Cos /\ w.watching[t] = Nobody
  BY <1>0, <1>1, Names DEF State, Marks
<1>4. \A x \in Tokens : x # t => w.tokenTo[x] = v.tokenTo[x] /\ w.watching[x] = v.watching[x] /\ v.tokenTo[x] # c
  <2>1. \A x \in Tokens : x # t => v.tokenTo[x] # c
    BY <1>1 DEF Linked
  <2>2. QED BY <2>1, <1>0, <1>1 DEF State
<1>5. v.at[c] \in Waiting /\ ~Contains(v.asyncQ, c)
  BY <1>1 DEF Linked, Placed
<1>6. ~Contains(v.pool, c)
  BY <1>1, <1>5 DEF Placed, Waiting
<1>7. Moves(v, w, c, "running", t)
  <2>1. v.uiToken \in Nat /\ Distinct(v.asyncQ) /\ Distinct(v.pool)
    BY <1>1 DEF State, Placed
  <2>2. "running" \notin Asleep /\ v.uiToken <= w.uiToken
    BY <1>0, <2>1 DEF Asleep
  <2>3. /\ Distinct(w.pool) /\ Distinct(w.asyncQ) /\ ~Contains(w.pool, c) /\ ~Contains(w.asyncQ, c)
        /\ \A x \in Cos : Contains(w.pool, x) => Contains(v.pool, x)
        /\ \A x \in Cos : Contains(w.asyncQ, x) => Contains(v.asyncQ, x)
    BY <1>0, <1>5, <1>6, <2>1
  <2>4. QED BY <1>0, <1>2, <1>3, <1>4, <2>2, <2>3 DEF Moves
<1>8. Sound(w)
  BY <1>7, MovesSound
<1>9. \E m \in Nat : Few(w, m)
  <2> DEFINE m == IF c > n THEN c ELSE n
  <2>1. m \in Nat /\ n <= m /\ c <= m
    BY CosAssumption
  <2>2. Few(w, m)
    BY <2>1, <1>0, <1>7, MovesFew
  <2>3. QED BY <2>1, <2>2
<1>10. ASSUME Queued(v), Without(c, t, w.wakeupQ, w.cancelQ) PROVE Queued(w)
  <2>1. /\ Distinct(w.wakeupQ) /\ Distinct(w.cancelQ)
        /\ \A x \in Cos : Contains(w.wakeupQ, x) => Contains(v.wakeupQ, x) /\ x # c
        /\ \A x \in Tokens : Contains(w.cancelQ, x) => Contains(v.cancelQ, x) /\ x # t
    BY <1>10 DEF Without, Within
  <2>2. QED BY <1>7, <1>10, <2>1, MovesQueued
<1>11. QED BY <1>8, <1>9, <1>10

\* lserviceContext_genToken
LEMMA TakenOK ==
  ASSUME NEW v, Sound(v), NEW n \in Nat, Few(v, n)
  PROVE  LET w == Taken(v)
         IN  /\ Sound(w) /\ (Queued(v) => Queued(w)) /\ Few(w, n)
             /\ w.uiToken = v.uiToken + 1 /\ w.running = v.running
             /\ w.at = v.at /\ w.calls = v.calls /\ w.asyncQ = v.asyncQ /\ w.pool = v.pool
             /\ w.wakeupQ = v.wakeupQ /\ w.cancelQ = v.cancelQ
             /\ w.tokenTo = v.tokenTo /\ w.watching = v.watching /\ w.sleeping = v.sleeping
             /\ w.owed = v.owed /\ w.responses = v.responses
             /\ w.uiToken \in Tokens => /\ w.tokenTo[w.uiToken] \notin Cos /\ w.watching[w.uiToken] = Nobody
                                        /\ Queued(w) => ~Contains(w.cancelQ, w.uiToken)
<1> DEFINE w == Taken(v)
<1>1. v \in State /\ Placed(v) /\ Linked(v) /\ v.uiToken \in Nat
  BY DEF Sound, State
<1>2. w = [v EXCEPT !.uiToken = v.uiToken + 1]
  BY <1>1 DEF Taken, State
<1>3. v.uiToken + 1 \in Nat
  BY <1>1
<1>4. /\ w \in State /\ w.uiToken = v.uiToken + 1 /\ w.running = v.running
      /\ w.at = v.at /\ w.calls = v.calls /\ w.asyncQ = v.asyncQ /\ w.pool = v.pool
      /\ w.wakeupQ = v.wakeupQ /\ w.cancelQ = v.cancelQ
      /\ w.tokenTo = v.tokenTo /\ w.watching = v.watching /\ w.sleeping = v.sleeping
      /\ w.owed = v.owed /\ w.responses = v.responses
  BY <1>1, <1>2, <1>3 DEF State
<1> HIDE DEF w
<1>5. Placed(w)
  BY <1>1, <1>4 DEF Placed
<1>6. \A t \in Tokens : t <= v.uiToken => t <= w.uiToken
  BY <1>1, <1>4, Names
<1>7. Linked(w)
  BY <1>1, <1>4, <1>6 DEF Linked
<1>8. (Queued(v) => Queued(w)) /\ Few(w, n)
  BY <1>4 DEF Queued, Few
<1>9. ASSUME w.uiToken \in Tokens
      PROVE  /\ w.tokenTo[w.uiToken] \notin Cos /\ w.watching[w.uiToken] = Nobody
             /\ Queued(w) => ~Contains(w.cancelQ, w.uiToken)
  <2>1. w.uiToken > v.uiToken
    BY <1>1, <1>4
  <2>2. v.tokenTo[w.uiToken] \notin Cos /\ v.watching[w.uiToken] = Nobody
    BY <2>1, <1>9, FreshToken
  <2>3. QED BY <2>2, <1>4, <1>9 DEF Queued
<1>10. QED BY <1>4, <1>5, <1>7, <1>8, <1>9 DEF w, Sound

\* The running coroutine waits for a token that was just taken: in a call to a service,
\* or asleep, or for an event.
WaitsAs(v, w, as, u, to) ==
  /\ w.running = Nobody
  /\ w.at = [v.at EXCEPT ![v.running] = as] /\ w.pool = v.pool /\ w.asyncQ = v.asyncQ
  /\ w.wakeupQ = v.wakeupQ /\ w.cancelQ = v.cancelQ /\ w.uiToken = v.uiToken
  /\ w.tokenTo = [v.tokenTo EXCEPT ![u] = v.running]
  /\ w.watching = IF as \in Calling THEN [v.watching EXCEPT ![u] = to] ELSE v.watching
  /\ w.sleeping = IF as \in Asleep THEN [v.sleeping EXCEPT ![v.running] = u] ELSE v.sleeping

\* The running coroutine leaves its token and waits: the tables stay sound.
LEMMA WaitsOK ==
  ASSUME NEW v, Sound(v), NEW n \in Nat, Few(v, n), NEW u \in Tokens, u = v.uiToken,
         v.running \in Cos, v.tokenTo[u] \notin Cos, v.watching[u] = Nobody,
         Queued(v) => ~Contains(v.cancelQ, u),
         NEW w \in State, NEW as \in {"call", "ping", "sleep", "wait", "await"}, NEW to \in Addresses,
         WaitsAs(v, w, as, u, to)
  PROVE  Sound(w) /\ (Queued(v) => Queued(w)) /\ \E m \in Nat : Few(w, m)
<1>0. /\ w.running = Nobody
      /\ w.at = [v.at EXCEPT ![v.running] = as] /\ w.pool = v.pool /\ w.asyncQ = v.asyncQ
      /\ w.wakeupQ = v.wakeupQ /\ w.cancelQ = v.cancelQ /\ w.uiToken = v.uiToken
      /\ w.tokenTo = [v.tokenTo EXCEPT ![u] = v.running]
      /\ w.watching = IF as \in Calling THEN [v.watching EXCEPT ![u] = to] ELSE v.watching
      /\ w.sleeping = IF as \in Asleep THEN [v.sleeping EXCEPT ![v.running] = u] ELSE v.sleeping
  BY DEF WaitsAs
<1> DEFINE c == v.running
<1>1. v \in State /\ Placed(v) /\ Linked(v) /\ c \in Cos
  BY DEF Sound
<1>2. /\ v.at[c] = "running" /\ v.sleeping[c] = 0 /\ \A t \in Tokens : v.tokenTo[t] # c
      /\ ~Contains(v.asyncQ, c) /\ ~Contains(v.pool, c) /\ (Queued(v) => ~Contains(v.wakeupQ, c))
  BY RunningIsFree
<1>3. w.at[c] = as /\ \A x \in Cos : x # c => w.at[x] = v.at[x]
  BY <1>0, <1>1 DEF State
<1>4. \A x \in Cos : x # c => w.sleeping[x] = v.sleeping[x]
  BY <1>0, <1>1 DEF State
<1>5. w.sleeping[c] = IF as \in Asleep THEN u ELSE 0
  <2>1. v.sleeping \in [Cos -> Tokens \cup {0}]
    BY <1>1 DEF State
  <2>2. CASE as \in Asleep
    BY <1>0, <1>1, <2>1, <2>2
  <2>3. CASE as \notin Asleep
    BY <1>0, <1>2, <2>3
  <2>4. QED BY <2>2, <2>3
<1>6. w.tokenTo[u] = c /\ \A t \in Tokens : t # u => w.tokenTo[t] = v.tokenTo[t]
  BY <1>0, <1>1 DEF State
<1>7. /\ w.watching[u] # Nobody <=> as \in Calling
      /\ \A t \in Tokens : t # u => w.watching[t] = v.watching[t]
  <2>1. to # Nobody /\ v.watching \in [Tokens -> Addresses \cup {Nobody}]
    BY Names, <1>1 DEF State
  <2>2. CASE as \in Calling
    BY <1>0, <2>1, <2>2
  <2>3. CASE as \notin Calling
    BY <1>0, <2>1, <2>3
  <2>4. QED BY <2>2, <2>3
<1> HIDE DEF c
<1>8. v.running = c
  BY DEF c
<1>9. Moves(v, w, c, as, u)
  <2>1. v.uiToken \in Nat /\ Distinct(v.asyncQ) /\ Distinct(v.pool)
    BY <1>1 DEF State, Placed
  <2>a. as \in Waiting /\ as # "running"
    BY DEF Waiting
  <2>b. u <= w.uiToken /\ v.uiToken <= w.uiToken
    BY <1>0, <2>1
  <2>2. as \in Waiting /\ as # "running" /\ u <= w.uiToken /\ v.uiToken <= w.uiToken
    BY <2>a, <2>b
  <2>3. /\ Distinct(w.pool) /\ Distinct(w.asyncQ) /\ ~Contains(w.pool, c) /\ ~Contains(w.asyncQ, c)
        /\ \A x \in Cos : Contains(w.pool, x) => Contains(v.pool, x)
        /\ \A x \in Cos : Contains(w.asyncQ, x) => Contains(v.asyncQ, x)
    BY <1>0, <1>2, <2>1
  <2>4. v.running \in {Nobody, c} /\ w.running = (IF as = "running" THEN c ELSE Nobody)
    BY <1>0, <1>8, <2>2
  <2>5. \A t \in Tokens : v.tokenTo[t] # c
    BY <1>2
  <2>6. QED BY <1>1, <1>3, <1>4, <1>5, <1>6, <1>7, <2>2, <2>3, <2>4, <2>5 DEF Moves
<1>10. Sound(w)
  BY <1>1, <1>9, MovesSound
<1>11. ASSUME Queued(v) PROVE Queued(w)
  <2>1. Distinct(w.wakeupQ) /\ Distinct(w.cancelQ)
    BY <1>0, <1>11 DEF Queued
  <2>2. \A x \in Cos : Contains(w.wakeupQ, x) => w.sleeping[x] # 0
    BY <1>0, <1>11, <1>2, <1>4 DEF Queued
  <2>3. \A t \in Tokens : Contains(w.cancelQ, t) => w.watching[t] # Nobody
    BY <1>0, <1>11, <1>7 DEF Queued
  <2>4. QED BY <2>1, <2>2, <2>3 DEF Queued
<1>12. \E m \in Nat : Few(w, m)
  <2> DEFINE m == IF c > n THEN c ELSE n
  <2>1. m \in Nat /\ n <= m /\ c <= m
    BY <1>1, CosAssumption
  <2>2. Few(w, m)
    BY <2>1, <1>0, <1>1, <1>9, MovesFew
  <2>3. QED BY <2>1, <2>2
<1>13. QED BY <1>10, <1>11, <1>12

\* timeout: a new coroutine waits for a token that was just taken.
LEMMA TimedOK ==
  ASSUME NEW v, Sound(v), NEW n \in Nat, Few(v, n), NEW u \in Tokens, u = v.uiToken,
         v.tokenTo[u] \notin Cos, v.watching[u] = Nobody, NEW c \in Cos, v.at[c] = "new",
         ~Contains(v.asyncQ, c), v.running # c, \A t \in Tokens : v.tokenTo[t] # c
  PROVE  LET w == [v EXCEPT !.tokenTo[u] = c]
         IN  /\ Sound(w) /\ (Queued(v) => Queued(w)) /\ \E m \in Nat : Few(w, m)
             /\ w.running = v.running /\ w.calls = v.calls /\ w.asyncQ = v.asyncQ
             /\ w.wakeupQ = v.wakeupQ /\ w.cancelQ = v.cancelQ /\ w.uiToken = v.uiToken
             /\ w.tokenTo = [v.tokenTo EXCEPT ![u] = c] /\ w.watching = v.watching
             /\ w.owed = v.owed /\ w.responses = v.responses
<1> DEFINE q == [v.tokenTo EXCEPT ![u] = c]
           w == [v EXCEPT !.tokenTo[u] = c]
<1>1. v \in State /\ Placed(v) /\ Linked(v)
  BY DEF Sound
<1>2. q \in [Tokens -> Cos \cup {Nobody, BREAK}]
  BY <1>1 DEF State
<1>3. w = [v EXCEPT !.tokenTo = q]
  BY <1>1 DEF State
<1>4. q[u] = c /\ \A t \in Tokens : t # u => q[t] = v.tokenTo[t]
  BY <1>1 DEF State
<1> HIDE DEF q
<1>5. /\ w \in State /\ w.tokenTo = q /\ w.running = v.running /\ w.at = v.at /\ w.pool = v.pool
      /\ w.asyncQ = v.asyncQ /\ w.wakeupQ = v.wakeupQ /\ w.cancelQ = v.cancelQ
      /\ w.uiToken = v.uiToken /\ w.watching = v.watching /\ w.sleeping = v.sleeping
      /\ w.owed = v.owed /\ w.responses = v.responses /\ w.calls = v.calls
  BY <1>1, <1>2, <1>3 DEF State
<1> HIDE DEF w
<1>6. v.sleeping[c] = 0 /\ ~Contains(v.pool, c)
  BY <1>1 DEF Linked, Placed, Asleep
<1>7. Moves(v, w, c, "new", u)
  <2>1. v.uiToken \in Nat /\ Distinct(v.asyncQ) /\ Distinct(v.pool)
    BY <1>1 DEF State, Placed
  <2>2. "new" \in Waiting /\ "new" \notin Asleep /\ "new" \notin Calling /\ "new" # "running"
    BY DEF Waiting, Asleep, Calling
  <2>3. u <= w.uiToken /\ v.uiToken <= w.uiToken
    BY <2>1, <1>5
  <2>4. /\ Distinct(w.pool) /\ Distinct(w.asyncQ) /\ ~Contains(w.pool, c) /\ ~Contains(w.asyncQ, c)
        /\ \A x \in Cos : Contains(w.pool, x) => Contains(v.pool, x)
        /\ \A x \in Cos : Contains(w.asyncQ, x) => Contains(v.asyncQ, x)
    BY <1>5, <1>6, <2>1
  <2>5. \A t \in Tokens : t # u => /\ w.tokenTo[t] = v.tokenTo[t] /\ w.watching[t] = v.watching[t]
                                   /\ v.tokenTo[t] # c
    BY <1>4, <1>5
  <2>6. w.tokenTo[u] = c /\ w.watching[u] = Nobody /\ v.tokenTo[u] \notin Cos
    BY <1>4, <1>5
  <2>7. /\ w.at[c] = "new" /\ w.sleeping[c] = 0 /\ w.running = v.running
        /\ \A x \in Cos : x # c => w.at[x] = v.at[x] /\ w.sleeping[x] = v.sleeping[x]
    BY <1>5, <1>6
  <2>8. QED BY <2>2, <2>3, <2>4, <2>5, <2>6, <2>7 DEF Moves
<1>8. Sound(w)
  BY <1>5, <1>7, MovesSound
<1>9. Queued(v) => Queued(w)
  BY <1>5 DEF Queued
<1>10. \E m \in Nat : Few(w, m)
  BY <1>5 DEF Few
<1>11. QED BY <1>5, <1>8, <1>9, <1>10 DEF w, q

\* wakeup: a sleeper is queued, unless it was before.
LEMMA WakeupOK ==
  ASSUME NEW v, Sound(v), NEW n \in Nat, Few(v, n), NEW c \in Cos, v.sleeping[c] # 0
  PROVE  LET w == [v EXCEPT !.wakeupQ = Append(@, c)]
         IN  /\ Sound(w) /\ (Queued(v) /\ ~Contains(v.wakeupQ, c) => Queued(w)) /\ Few(w, n)
             /\ w.running = v.running /\ w.calls = v.calls /\ w.asyncQ = v.asyncQ
             /\ w.cancelQ = v.cancelQ /\ w.uiToken = v.uiToken
             /\ w.tokenTo = v.tokenTo /\ w.watching = v.watching
             /\ w.owed = v.owed /\ w.responses = v.responses
<1> DEFINE q == Append(v.wakeupQ, c)
           w == [v EXCEPT !.wakeupQ = Append(@, c)]
<1>1. v \in State /\ Placed(v) /\ Linked(v) /\ v.wakeupQ \in Seq(Cos)
  BY DEF Sound, State
<1>2. /\ q \in Seq(Cos) /\ (Distinct(v.wakeupQ) /\ ~Contains(v.wakeupQ, c) => Distinct(q))
      /\ \A x : Contains(q, x) <=> Contains(v.wakeupQ, x) \/ x = c
  BY <1>1, AppendedTo
<1>3. w = [v EXCEPT !.wakeupQ = q]
  BY <1>1 DEF State
<1> HIDE DEF q
<1>4. /\ w \in State /\ w.asyncQ = v.asyncQ /\ w.running = v.running /\ w.at = v.at /\ w.pool = v.pool
      /\ w.wakeupQ = q /\ w.cancelQ = v.cancelQ /\ w.uiToken = v.uiToken
      /\ w.tokenTo = v.tokenTo /\ w.watching = v.watching /\ w.sleeping = v.sleeping
      /\ w.owed = v.owed /\ w.responses = v.responses /\ w.calls = v.calls
  BY <1>1, <1>2, <1>3 DEF State
<1> HIDE DEF w
<1>5. Placed(w) /\ Linked(w)
  <2>1. Placed(w)
    BY <1>1, <1>4 DEF Placed
  <2>2. Linked(w)
    BY <1>1, <1>4 DEF Linked
  <2>3. QED BY <2>1, <2>2
<1>6. Queued(v) /\ ~Contains(v.wakeupQ, c) => Queued(w)
  BY <1>2, <1>4 DEF Queued
<1>7. Few(w, n)
  <2>1. v.at[c] \in Asleep
    BY <1>1 DEF Linked
  <2>2. ~(c > n)
    BY <2>1 DEF Few, Asleep
  <2>3. QED BY <2>2, <1>2, <1>4 DEF Few
<1>8. QED BY <1>4, <1>5, <1>6, <1>7 DEF w, Sound

\* close_dispatch_f: calls are queued to be cancelled.
LEMMA CloseDispatchOK ==
  ASSUME NEW v, Sound(v), NEW n \in Nat, Few(v, n), NEW source \in Addresses,
         NEW order \in Orders(v, source)
  PROVE  LET w == CloseDispatch(v, source, order)
         IN  /\ Sound(w) /\ Few(w, n)
             /\ Queued(v) /\ (\A i \in DOMAIN order : ~Contains(v.cancelQ, order[i])) => Queued(w)
             /\ w.running = v.running /\ w.calls = v.calls /\ w.asyncQ = v.asyncQ
             /\ w.wakeupQ = v.wakeupQ /\ w.uiToken = v.uiToken /\ w.at = v.at
             /\ w.tokenTo = v.tokenTo /\ w.watching = v.watching
             /\ w.owed = v.owed /\ w.responses = {r \in v.responses : r[1] # source}
             /\ w.cancelQ = v.cancelQ \o order /\ order \in Seq(Tokens) /\ v.cancelQ \in Seq(Tokens)
             /\ \A t : Contains(w.cancelQ, t) <=> Contains(v.cancelQ, t) \/ Contains(order, t)
<1> DEFINE q == v.cancelQ \o order
           r == {x \in v.responses : x[1] # source}
           w == CloseDispatch(v, source, order)
<1>1. v \in State /\ Placed(v) /\ Linked(v) /\ v.cancelQ \in Seq(Tokens) /\ v.responses \in SUBSET Call_
  BY DEF Sound, State
<1>2. /\ order \in Seq(Watched(v, source)) /\ Distinct(order) /\ Watched(v, source) \subseteq Tokens
      /\ DOMAIN order = 1..Len(order)
  <2> DEFINE W == Watched(v, source)
             k == Cardinality(W)
  <2>1. IsFiniteSet(Tokens) /\ W \subseteq Tokens
    BY FS_Interval, MaxOpsAssumption DEF Tokens, Watched
  <2>2. k \in Nat
    BY <2>1, FS_Subset, FS_CardinalityType
  <2>3. order \in [1..k -> W] /\ \A i, j \in 1..k : i # j => order[i] # order[j]
    BY DEF Orders, SetToSeqs
  <2> HIDE DEF W, k
  <2>4. order \in Seq(W) /\ Len(order) = k
    BY <2>2, <2>3
  <2>5. Distinct(order)
    BY <2>3, <2>4 DEF Distinct
  <2>6. DOMAIN order = 1..Len(order)
    BY <2>3, <2>4
  <2>7. QED BY <2>1, <2>4, <2>5, <2>6 DEF W
<1>3. order \in Seq(Tokens) /\ \A t : Contains(order, t) => t \in Tokens /\ v.watching[t] = source
  <2>1. order \in Seq(Tokens)
    BY <1>2
  <2>2. ASSUME NEW t, Contains(order, t) PROVE t \in Tokens /\ v.watching[t] = source
    <3>1. t \in Watched(v, source)
      BY <1>2, <2>2, ContainedTyped
    <3>2. QED BY <3>1 DEF Watched
  <2>3. QED BY <2>1, <2>2
<1>4. /\ q \in Seq(Tokens)
      /\ \A t : Contains(q, t) <=> Contains(v.cancelQ, t) \/ Contains(order, t)
      /\ Distinct(v.cancelQ) /\ (\A t : ~(Contains(v.cancelQ, t) /\ Contains(order, t))) => Distinct(q)
  BY <1>1, <1>2, <1>3, Concatenated
<1>5. w = [v EXCEPT !.responses = r, !.cancelQ = q]
  BY <1>1 DEF CloseDispatch, State
<1>6. r \in SUBSET Call_
  BY <1>1
<1> HIDE DEF q, r
<1>7. /\ w \in State /\ w.asyncQ = v.asyncQ /\ w.running = v.running /\ w.at = v.at /\ w.pool = v.pool
      /\ w.wakeupQ = v.wakeupQ /\ w.cancelQ = q /\ w.uiToken = v.uiToken
      /\ w.tokenTo = v.tokenTo /\ w.watching = v.watching /\ w.sleeping = v.sleeping
      /\ w.owed = v.owed /\ w.responses = r /\ w.calls = v.calls
  BY <1>1, <1>4, <1>5, <1>6 DEF State
<1> HIDE DEF w
<1>8. Placed(w)
  BY <1>1, <1>7 DEF Placed
<1>9. Linked(w)
  BY <1>1, <1>7 DEF Linked
<1>10. Few(w, n)
  BY <1>7 DEF Few
<1>11. ASSUME Queued(v), \A i \in DOMAIN order : ~Contains(v.cancelQ, order[i]) PROVE Queued(w)
  <2>1. \A t : ~(Contains(v.cancelQ, t) /\ Contains(order, t))
    BY <1>11, <1>2 DEF Contains
  <2>2. Distinct(w.cancelQ)
    BY <2>1, <1>4, <1>7, <1>11 DEF Queued
  <2>3. \A t \in Tokens : Contains(w.cancelQ, t) => w.watching[t] # Nobody
    BY <1>3, <1>4, <1>7, <1>11, Names DEF Queued
  <2>4. Distinct(w.wakeupQ) /\ \A c \in Cos : Contains(w.wakeupQ, c) => w.sleeping[c] # 0
    BY <1>7, <1>11 DEF Queued
  <2>5. QED BY <2>2, <2>3, <2>4 DEF Queued
<1>12. QED BY <1>1, <1>3, <1>4, <1>7, <1>8, <1>9, <1>10, <1>11 DEF w, q, r, Sound

\* The queues get shorter, or a token that leads nowhere is forgotten.
LEMMA ShrunkOK ==
  ASSUME NEW v, Sound(v), NEW n \in Nat, Few(v, n), NEW w \in State,
         w.running = v.running, w.at = v.at, w.pool = v.pool, w.asyncQ = v.asyncQ,
         w.uiToken = v.uiToken, w.watching = v.watching, w.sleeping = v.sleeping,
         \A t \in Tokens : w.tokenTo[t] = v.tokenTo[t] \/ (w.tokenTo[t] \notin Cos /\ v.tokenTo[t] \notin Cos),
         \A x \in Cos : Contains(w.wakeupQ, x) => Contains(v.wakeupQ, x),
         \A t \in Tokens : Contains(w.cancelQ, t) => Contains(v.cancelQ, t)
  PROVE  /\ Sound(w) /\ Few(w, n)
         /\ Queued(v) /\ Distinct(w.wakeupQ) /\ Distinct(w.cancelQ) => Queued(w)
<1>1. v \in State /\ Placed(v) /\ Linked(v)
  BY DEF Sound
<1>2. Placed(w)
  <2>1. \A x \in Cos : Contains(v.asyncQ, x) => /\ v.at[x] \in {"new", "idle"}
                                                /\ \A t \in Tokens : v.tokenTo[t] # x
    BY <1>1 DEF Placed
  <2>2. \A x \in Cos : Contains(w.asyncQ, x) => /\ w.at[x] \in {"new", "idle"}
                                                /\ \A t \in Tokens : w.tokenTo[t] # x
    BY <2>1
  <2>3. QED BY <2>2, <1>1 DEF Placed
<1>3. Linked(w)
  <2>1. \A t \in Tokens : w.tokenTo[t] \in Cos => t <= w.uiToken /\ w.at[w.tokenTo[t]] \in Waiting
    BY <1>1 DEF Linked
  <2>2. \A t, u \in Tokens : w.tokenTo[t] \in Cos /\ w.tokenTo[t] = w.tokenTo[u] => t = u
    BY <1>1 DEF Linked
  <2>3. \A t \in Tokens : w.watching[t] # Nobody => w.tokenTo[t] \in Cos
    BY <1>1 DEF Linked
  <2>4. \A t \in Tokens : w.tokenTo[t] \in Cos => (w.watching[t] # Nobody <=> w.at[w.tokenTo[t]] \in Calling)
    BY <1>1 DEF Linked
  <2>5. ASSUME NEW c \in Cos, w.at[c] \in Asleep PROVE w.sleeping[c] # 0 /\ w.tokenTo[w.sleeping[c]] = c
    <3>1. v.sleeping[c] # 0 /\ v.tokenTo[v.sleeping[c]] = c /\ v.sleeping[c] \in Tokens
      BY <1>1, <2>5 DEF Linked, State
    <3>2. QED BY <3>1
  <2>6. \A c \in Cos : w.at[c] \notin Asleep => w.sleeping[c] = 0
    BY <1>1 DEF Linked
  <2>7. QED BY <2>1, <2>2, <2>3, <2>4, <2>5, <2>6 DEF Linked
<1>4. Few(w, n)
  BY DEF Few
<1>5. Queued(v) /\ Distinct(w.wakeupQ) /\ Distinct(w.cancelQ) => Queued(w)
  BY DEF Queued
<1>6. QED BY <1>2, <1>3, <1>4, <1>5 DEF Sound

\* exit: what was queued in asyncQueue_t is never run.
Exited(v) == [v EXCEPT !.asyncQ = <<>>, !.responses = {},
                       !.at = [c \in Cos |-> IF Contains(v.asyncQ, c) THEN "none" ELSE v.at[c]]]

\* Whatever was queued in asyncQueue_t has left the tables without a trace.
LEMMA ExitOK ==
  ASSUME NEW v, Sound(v), NEW n \in Nat, Few(v, n), NEW w, w = Exited(v)
  PROVE  /\ Sound(w) /\ (Queued(v) => Queued(w)) /\ Few(w, n)
         /\ w.running = v.running /\ w.calls = v.calls /\ w.asyncQ = <<>>
         /\ w.wakeupQ = v.wakeupQ /\ w.cancelQ = v.cancelQ /\ w.uiToken = v.uiToken
         /\ w.tokenTo = v.tokenTo /\ w.watching = v.watching
         /\ w.owed = v.owed /\ w.responses = {}
<1> DEFINE a == [c \in Cos |-> IF Contains(v.asyncQ, c) THEN "none" ELSE v.at[c]]
<1>1. v \in State /\ Placed(v) /\ Linked(v)
  BY DEF Sound
<1>2. a \in [Cos -> Kinds] /\ \A c \in Cos : a[c] = IF Contains(v.asyncQ, c) THEN "none" ELSE v.at[c]
  BY <1>1 DEF State, Kinds
<1>3. w = [v EXCEPT !.asyncQ = <<>>, !.responses = {}, !.at = a]
  BY DEF Exited
<1> HIDE DEF a
<1>4. <<>> \in Seq(Cos) /\ Distinct(<<>>) /\ \A x : ~Contains(<<>>, x)
  BY EmptyQueue
<1>5. /\ w \in State /\ w.asyncQ = <<>> /\ w.running = v.running /\ w.at = a /\ w.pool = v.pool
      /\ w.wakeupQ = v.wakeupQ /\ w.cancelQ = v.cancelQ /\ w.uiToken = v.uiToken
      /\ w.tokenTo = v.tokenTo /\ w.watching = v.watching /\ w.sleeping = v.sleeping
      /\ w.owed = v.owed /\ w.responses = {} /\ w.calls = v.calls
  BY <1>1, <1>2, <1>3, <1>4 DEF State
<1>6. /\ \A c \in Cos : Contains(v.asyncQ, c) => /\ v.at[c] \in {"new", "idle"} /\ w.at[c] = "none"
                                                 /\ \A t \in Tokens : w.tokenTo[t] # c
      /\ \A c \in Cos : ~Contains(v.asyncQ, c) => w.at[c] = v.at[c]
  BY <1>1, <1>2, <1>5 DEF Placed
<1>7. Placed(w)
  <2>1. \A c \in Cos : v.at[c] = "running" <=> v.running = c
    BY <1>1 DEF Placed
  <2>2. \A c \in Cos : w.at[c] = "running" <=> w.running = c
    BY <2>1, <1>6, <1>5
  <2>3. \A c \in Cos : Contains(v.pool, c) => v.at[c] = "pooled"
    BY <1>1 DEF Placed
  <2>4. \A c \in Cos : Contains(w.pool, c) => w.at[c] = "pooled"
    BY <2>3, <1>5, <1>6
  <2>5. Distinct(w.pool) /\ Distinct(w.asyncQ) /\ \A c : ~Contains(w.asyncQ, c)
    BY <1>1, <1>4, <1>5 DEF Placed
  <2>6. QED BY <2>2, <2>4, <2>5 DEF Placed
<1>8. Linked(w)
  <2>1. \A t \in Tokens : w.tokenTo[t] \in Cos => w.at[w.tokenTo[t]] = v.at[v.tokenTo[t]]
    BY <1>5, <1>6
  <2>2. /\ \A t \in Tokens : w.tokenTo[t] \in Cos => t <= w.uiToken /\ w.at[w.tokenTo[t]] \in Waiting
        /\ \A t \in Tokens : w.tokenTo[t] \in Cos => (w.watching[t] # Nobody <=> w.at[w.tokenTo[t]] \in Calling)
    BY <2>1, <1>1, <1>5 DEF Linked
  <2>3. /\ \A t, u \in Tokens : w.tokenTo[t] \in Cos /\ w.tokenTo[t] = w.tokenTo[u] => t = u
        /\ \A t \in Tokens : w.watching[t] # Nobody => w.tokenTo[t] \in Cos
    BY <1>1, <1>5 DEF Linked
  <2>4. \A c \in Cos : w.at[c] \in Asleep <=> v.at[c] \in Asleep
    BY <1>6 DEF Asleep
  <2>5. /\ \A c \in Cos : w.at[c] \in Asleep => w.sleeping[c] # 0 /\ w.tokenTo[w.sleeping[c]] = c
        /\ \A c \in Cos : w.at[c] \notin Asleep => w.sleeping[c] = 0
    BY <2>4, <1>1, <1>5 DEF Linked
  <2>6. QED BY <2>2, <2>3, <2>5 DEF Linked
<1>9. Queued(v) => Queued(w)
  BY <1>5 DEF Queued
<1>10. Few(w, n)
  BY <1>5, <1>6 DEF Few
<1>11. QED BY <1>5, <1>7, <1>8, <1>9, <1>10 DEF Sound

\* The tables of a service that has just started, and of one that was stopped.
LEMMA FreshOK ==
  LET w == [Fresh EXCEPT !.at = [c \in Cos |-> "none"], !.tokenTo = [t \in Tokens |-> Nobody]]
  IN  /\ Sound(Fresh) /\ Queued(Fresh) /\ Serving(Fresh) /\ Few(Fresh, 1)
      /\ Sound(w) /\ Queued(w) /\ Serving(w) /\ Few(w, 1)
      /\ Fresh.uiToken = 1 /\ w.uiToken = 1
      /\ w.wakeupQ = <<>> /\ w.cancelQ = <<>> /\ w.calls = <<>> /\ w.running = Nobody
      /\ w.responses = {} /\ w.owed = [c \in Cos |-> <<>>]
      /\ w.watching = [t \in Tokens |-> Nobody] /\ w.tokenTo = [t \in Tokens |-> Nobody]
<1> DEFINE a == [c \in Cos |-> IF c = 1 THEN "new" ELSE "none"]
           q == [t \in Tokens |-> IF t = 1 THEN 1 ELSE Nobody]
           b == [c \in Cos |-> "none"]
           r == [t \in Tokens |-> Nobody]
           z == [c \in Cos |-> 0]
           o == [c \in Cos |-> <<>>]
           w == [Fresh EXCEPT !.at = [c \in Cos |-> "none"], !.tokenTo = [t \in Tokens |-> Nobody]]
<1>1. 1 \in Cos /\ 1 \in Tokens /\ Nobody \notin Cos /\ 0 \notin Tokens /\ Nobody = 0
  BY Names, CosAssumption, MaxOpsAssumption DEF Tokens, Nobody
<1>2. a \in [Cos -> Kinds] /\ b \in [Cos -> Kinds]
  BY DEF Kinds
<1>3. q \in [Tokens -> Cos \cup {Nobody, BREAK}] /\ r \in [Tokens -> Cos \cup {Nobody, BREAK}]
  BY <1>1
<1>4. r \in [Tokens -> Addresses \cup {Nobody}] /\ z \in [Cos -> Tokens \cup {0}]
      /\ o \in [Cos -> {<<>>} \cup Call_]
  OBVIOUS
<1>5. /\ \A c \in Cos : a[c] = IF c = 1 THEN "new" ELSE "none"
      /\ \A t \in Tokens : q[t] = IF t = 1 THEN 1 ELSE Nobody
      /\ \A c \in Cos : b[c] = "none" /\ z[c] = 0
      /\ \A t \in Tokens : r[t] = Nobody
  OBVIOUS
<1>a. Fresh = [running |-> Nobody, at |-> a, pool |-> <<>>, calls |-> <<>>, asyncQ |-> <<>>,
               wakeupQ |-> <<>>, cancelQ |-> <<>>, uiToken |-> 1, tokenTo |-> q, watching |-> r,
               sleeping |-> z, owed |-> o, responses |-> {}]
  BY DEF Fresh
<1>b. w = [Fresh EXCEPT !.at = b, !.tokenTo = r]
  OBVIOUS
<1> HIDE DEF a, q, b, r, z, o, w
<1>6. /\ Fresh = [running |-> Nobody, at |-> a, pool |-> <<>>, calls |-> <<>>, asyncQ |-> <<>>,
                  wakeupQ |-> <<>>, cancelQ |-> <<>>, uiToken |-> 1, tokenTo |-> q, watching |-> r,
                  sleeping |-> z, owed |-> o, responses |-> {}]
      /\ w = [running |-> Nobody, at |-> b, pool |-> <<>>, calls |-> <<>>, asyncQ |-> <<>>,
              wakeupQ |-> <<>>, cancelQ |-> <<>>, uiToken |-> 1, tokenTo |-> r, watching |-> r,
              sleeping |-> z, owed |-> o, responses |-> {}]
  BY <1>a, <1>b
<1>7. /\ <<>> \in Seq(Cos) /\ <<>> \in Seq(Tokens) /\ <<>> \in Seq({"wakeup", "cancel"})
      /\ Distinct(<<>>) /\ \A x : ~Contains(<<>>, x)
  BY EmptyQueue
<1>8. Fresh \in State /\ w \in State
  BY <1>2, <1>3, <1>4, <1>6, <1>7 DEF State
<1>9. Placed(Fresh) /\ Placed(w)
  BY <1>1, <1>5, <1>6, <1>7 DEF Placed
<1>10. Linked(Fresh) /\ Linked(w)
  <2>1. Linked(Fresh)
    <3>1. \A t \in Tokens : q[t] \in Cos => t = 1 /\ q[t] = 1 /\ r[t] = Nobody
      BY <1>1, <1>5
    <3>2. a[1] = "new" /\ \A c \in Cos : a[c] \notin Asleep
      BY <1>1, <1>5 DEF Asleep
    <3>3. "new" \in Waiting /\ "new" \notin Calling
      BY DEF Waiting, Calling
    <3>4. \A t \in Tokens : r[t] = Nobody
      BY <1>5
    <3>5. QED BY <3>1, <3>2, <3>3, <3>4, <1>5, <1>6 DEF Linked
  <2>2. Linked(w)
    <3>1. \A t \in Tokens : r[t] \notin Cos
      BY <1>1, <1>5
    <3>2. \A c \in Cos : b[c] \notin Asleep
      BY <1>5 DEF Asleep
    <3>3. QED BY <3>1, <3>2, <1>5, <1>6 DEF Linked
  <2>3. QED BY <2>1, <2>2
<1>11. Queued(Fresh) /\ Queued(w) /\ Serving(Fresh) /\ Serving(w)
  BY <1>6, <1>7 DEF Queued, Serving
<1>12. Few(Fresh, 1) /\ Few(w, 1)
  BY <1>5, <1>6, <1>7, CosAssumption DEF Few
<1>13. QED BY <1>6, <1>8, <1>9, <1>10, <1>11, <1>12 DEF w, o, r, Sound

-----------------------------------------------------------------------------
(* The invariant of the services *)

Events == [ev : {"answer", "call", "ping"}, source : Services, token : Tokens]
          \cup [ev : {"send", "close", "stop"}, source : Services, token : {0}]

TypeOK ==
  /\ core \in [Services -> State]
  /\ inbox \in [Services -> Seq(Events)]
  /\ status \in [Services -> {"running", "exiting", "stopped"}]
  /\ armed \in [Services -> SUBSET Tokens]
  /\ ops \in Nat
  /\ dropped \subseteq Call_ /\ cancelled \subseteq Call_ /\ twice \subseteq Services

\* Without a coroutine or a token that was queued twice the queues are in order and served.
InOrder(s) ==
  /\ Sound(core[s]) /\ core[s].uiToken <= ops + 1
  /\ \E n \in Nat : Few(core[s], n)
  /\ s \notin twice => Queued(core[s]) /\ Serving(core[s])

CoreInv == TypeOK /\ \A s \in Services : InOrder(s)

\* What a step makes of the tables of one service.
NextTables(s, v) ==
  /\ Sound(v) /\ v.uiToken <= ops' + 1 /\ \E n \in Nat : Few(v, n)
  /\ s \notin twice' => Queued(v) /\ Serving(v)

\* A step that changes the tables of one service.
LEMMA OneServes ==
  ASSUME CoreInv, NEW s \in Services, NEW v, Tables(s, v), NextTables(s, v),
         ops' \in Nat, ops <= ops', twice \subseteq twice'
  PROVE  core' \in [Services -> State] /\ \A r \in Services : InOrder(r)'
<1>1. core \in [Services -> State] /\ v \in State
  BY DEF CoreInv, TypeOK, NextTables, Sound
<1>2. core' \in [Services -> State] /\ core'[s] = v /\ \A r \in Services : r # s => core'[r] = core[r]
  BY <1>1 DEF Tables
<1>3. InOrder(s)'
  BY <1>2 DEF InOrder, NextTables
<1>4. ASSUME NEW r \in Services, r # s PROVE InOrder(r)'
  <2>1. core'[r] = core[r]
    BY <1>2, <1>4
  <2>2. InOrder(r)
    BY DEF CoreInv
  <2>3. core[r].uiToken \in Nat /\ ops \in Nat
    BY <1>1, <1>4 DEF State, CoreInv, TypeOK
  <2>4. core'[r].uiToken <= ops' + 1
    BY <2>1, <2>2, <2>3 DEF InOrder
  <2>5. r \notin twice' => Queued(core'[r]) /\ Serving(core'[r])
    BY <2>1, <2>2 DEF InOrder
  <2>6. Sound(core'[r]) /\ \E n \in Nat : Few(core'[r], n)
    BY <2>1, <2>2 DEF InOrder
  <2>7. QED BY <2>4, <2>5, <2>6 DEF InOrder
<1>5. QED BY <1>2, <1>3, <1>4

\* A step that changes the tables of none.
LEMMA NoneServes ==
  ASSUME CoreInv, UNCHANGED core, ops' \in Nat, ops <= ops', twice \subseteq twice'
  PROVE  core' \in [Services -> State] /\ \A r \in Services : InOrder(r)'
<1>1. ASSUME NEW r \in Services PROVE InOrder(r)'
  <2>1. core'[r] = core[r]
    OBVIOUS
  <2>2. InOrder(r)
    BY DEF CoreInv
  <2>3. core[r].uiToken \in Nat /\ ops \in Nat
    BY DEF State, CoreInv, TypeOK
  <2>4. core'[r].uiToken <= ops' + 1
    BY <2>1, <2>2, <2>3 DEF InOrder
  <2>5. r \notin twice' => Queued(core'[r]) /\ Serving(core'[r])
    BY <2>1, <2>2 DEF InOrder
  <2>6. Sound(core'[r]) /\ \E n \in Nat : Few(core'[r], n)
    BY <2>1, <2>2 DEF InOrder
  <2>7. QED BY <2>4, <2>5, <2>6 DEF InOrder
<1>2. QED BY <1>1 DEF CoreInv, TypeOK

\* Events are sent and taken.
LEMMA EventTyped ==
  ASSUME NEW source \in Services
  PROVE  /\ \A t \in Tokens, kind \in {"answer", "call", "ping"} : Event(kind, source, t) \in Events
         /\ \A kind \in {"send", "close", "stop"} : Event(kind, source, 0) \in Events
BY DEF Event, Events

\* Sending keeps the queues of events what they are ...
LEMMA SentTyped ==
  ASSUME NEW q \in [Services -> Seq(Events)], NEW to \in Services, NEW e \in Events
  PROVE  Sent(q, to, e) \in [Services -> Seq(Events)]
BY DEF Sent

\* ... and so does taking the first.
LEMMA TailTyped ==
  ASSUME NEW q \in [Services -> Seq(Events)], NEW s \in Services, q[s] # <<>>
  PROVE  [q EXCEPT ![s] = Tail(@)] \in [Services -> Seq(Events)] /\ Head(q[s]) \in Events
<1>1. q[s] \in Seq(Events)
  OBVIOUS
<1>2. Tail(q[s]) \in Seq(Events) /\ Head(q[s]) \in Events
  BY <1>1, TailOf, NonEmpty
<1>3. QED BY <1>2

\* RemoveFirst takes one element out, if it is there.
LEMMA RemovedFirst ==
  ASSUME NEW S, NEW q \in Seq(S), NEW e
  PROVE  \/ RemoveFirst(q, e) = q /\ ~Contains(q, e)
         \/ \E k \in 1..Len(q) :
              /\ q[k] = e /\ \A i \in 1..Len(q) : q[i] = e => k <= i
              /\ RemoveFirst(q, e) = RemoveAt(q, k)
<1>1. CASE ~\E i \in 1..Len(q) : q[i] = e
  BY <1>1 DEF RemoveFirst, Contains
<1>2. CASE \E i \in 1..Len(q) : q[i] = e
  <2> DEFINE I == {i \in 1..Len(q) : q[i] = e}
             k == Min(I)
  <2>1. I # {} /\ I \subseteq Nat
    BY <1>2
  <2>2. k \in I /\ \A i \in I : k <= i
    <3>1. PICK m \in I : \A i \in I : ~(<<i, m>> \in OpToRel(<, Nat))
      BY <2>1, NatLessThanWellFounded, WFMin
    <3>2. \A i \in I : m <= i
      <4>1. ASSUME NEW i \in I, ~(m <= i) PROVE FALSE
        <5>1. i \in Nat /\ m \in Nat /\ i < m
          BY <2>1, <4>1
        <5>2. <<i, m>> \in Nat \X Nat /\ <<i, m>>[1] < <<i, m>>[2]
          BY <5>1
        <5>3. <<i, m>> \in OpToRel(<, Nat)
          BY <5>2 DEF OpToRel
        <5>4. QED BY <5>3, <3>1, <4>1
      <4>2. QED BY <4>1
    <3> HIDE DEF I
    <3>3. \E x \in I : \A i \in I : x <= i
      BY <3>1, <3>2
    <3>4. k = CHOOSE x \in I : \A i \in I : x <= i
      BY DEF Min
    <3> HIDE DEF k
    <3>5. QED BY <3>3, <3>4, Zenon
  <2>3. RemoveFirst(q, e) = RemoveAt(q, k)
    BY <1>2, <2>1 DEF RemoveFirst, SelectInSeq
  <2>4. QED BY <2>2, <2>3
<1>3. QED BY <1>1, <1>2

\* Two sequences behind each other.
LEMMA Joined ==
  ASSUME NEW S, NEW a \in Seq(S), NEW b \in Seq(S)
  PROVE  /\ a \o b \in Seq(S) /\ Len(a) \in Nat /\ Len(b) \in Nat /\ Len(a \o b) = Len(a) + Len(b)
         /\ \A i \in 1..Len(a) : (a \o b)[i] = a[i]
         /\ \A i \in 1..Len(a \o b) : i > Len(a) => (a \o b)[i] = b[i - Len(a)]
OBVIOUS

\* RemoveAt closes the gap.
LEMMA RemovedAt ==
  ASSUME NEW S, NEW q \in Seq(S), NEW k \in 1..Len(q)
  PROVE  /\ RemoveAt(q, k) \in Seq(S) /\ Len(RemoveAt(q, k)) = Len(q) - 1
         /\ \A i \in 1..(k - 1) : RemoveAt(q, k)[i] = q[i]
         /\ \A i \in k..(Len(q) - 1) : RemoveAt(q, k)[i] = q[i + 1]
<1> DEFINE n == Len(q)
           a == SubSeq(q, 1, k - 1)
           b == SubSeq(q, k + 1, n)
<1>1. n \in Nat /\ k \in 1..n /\ \A i \in 1..n : q[i] \in S
  OBVIOUS
<1> HIDE DEF n
<1>2. /\ a \in Seq(S) /\ Len(a) = (IF 1 <= k - 1 THEN k - 1 - 1 + 1 ELSE 0)
      /\ \A i \in 1..(k - 1 - 1 + 1) : a[i] = q[1 + i - 1]
  <2>1. 1 \in Int /\ k - 1 \in Int /\ \A i \in 1..(k - 1) : q[i] \in S
    BY <1>1
  <2>2. QED BY <2>1, SubSeqProperties
<1>3. /\ b \in Seq(S) /\ Len(b) = (IF k + 1 <= n THEN n - (k + 1) + 1 ELSE 0)
      /\ \A i \in 1..(n - (k + 1) + 1) : b[i] = q[k + 1 + i - 1]
  <2>1. k + 1 \in Int /\ n \in Int /\ \A i \in (k + 1)..n : q[i] \in S
    BY <1>1
  <2>2. QED BY <2>1, SubSeqProperties
<1> HIDE DEF a, b
<1>4. /\ Len(a) = k - 1 /\ \A i \in 1..(k - 1) : a[i] = q[i]
      /\ Len(b) = n - k /\ \A i \in 1..(n - k) : b[i] = q[k + i]
  <2>1. /\ k - 1 - 1 + 1 = k - 1 /\ (1 <= k - 1 \/ k - 1 = 0) /\ n - (k + 1) + 1 = n - k
        /\ (k + 1 <= n \/ n - k = 0) /\ \A i \in Int : 1 + i - 1 = i /\ k + 1 + i - 1 = k + i
    BY <1>1
  <2>2. QED BY <2>1, <1>1, <1>2, <1>3
<1>5. RemoveAt(q, k) = a \o b
  BY DEF RemoveAt, a, b, n
<1>6. /\ a \o b \in Seq(S) /\ Len(a \o b) = n - 1
      /\ \A i \in 1..(k - 1) : (a \o b)[i] = a[i]
      /\ \A i \in k..(n - 1) : (a \o b)[i] = b[i - (k - 1)]
  <2> DEFINE p == a \o b
  <2>1. /\ p \in Seq(S) /\ Len(a) \in Nat /\ Len(b) \in Nat /\ Len(p) = Len(a) + Len(b)
        /\ \A i \in 1..Len(a) : p[i] = a[i]
        /\ \A i \in 1..Len(p) : i > Len(a) => p[i] = b[i - Len(a)]
    BY <1>2, <1>3, Joined
  <2> HIDE DEF p
  <2>2. Len(p) = n - 1
    BY <2>1, <1>4, <1>1
  <2>3. \A i \in k..(n - 1) : i \in 1..Len(p) /\ i > Len(a)
    BY <2>2, <1>4, <1>1
  <2>4. \A i \in k..(n - 1) : p[i] = b[i - (k - 1)]
    BY <2>1, <2>3, <1>4
  <2>5. QED BY <2>1, <2>2, <2>4, <1>4 DEF p
<1>7. \A i \in k..(n - 1) : b[i - (k - 1)] = q[i + 1]
  <2>1. ASSUME NEW i \in k..(n - 1) PROVE b[i - (k - 1)] = q[i + 1]
    <3>1. i - (k - 1) \in 1..(n - k) /\ k + (i - (k - 1)) = i + 1
      BY <1>1
    <3>2. QED BY <3>1, <1>4
  <2>2. QED BY <2>1
<1>8. QED BY <1>4, <1>5, <1>6, <1>7 DEF n

\* An inbox without the event of a timer that was stopped.
LEMMA UnfiredTyped ==
  ASSUME TypeOK, NEW s \in Services, NEW t
  PROVE  Unfired(s, t) \in Seq(Events)
<1>1. inbox[s] \in Seq(Events)
  BY DEF TypeOK
<1>2. QED BY <1>1, RemovedFirst, RemovedAt DEF Unfired

\* The replies that coroutines owe are owed for calls.
LEMMA OwedTyped ==
  ASSUME TypeOK, NEW s \in Services, NEW c \in Cos
  PROVE  /\ Owes(s, c) \subseteq Call_ /\ core[s].responses \subseteq Call_
         /\ core[s].owed[c] # <<>> => /\ core[s].owed[c] \in Call_
                                      /\ core[s].owed[c][1] \in Services /\ core[s].owed[c][2] \in Tokens
<1>1. core[s] \in State
  BY DEF TypeOK
<1>2. core[s].owed[c] \in {<<>>} \cup Call_ /\ core[s].responses \subseteq Call_
  BY <1>1 DEF State
<1>3. ASSUME NEW o \in Call_ PROVE <<o[1], o[2]>> \in Call_ /\ o[1] \in Services /\ o[2] \in Tokens
  BY DEF Call_
<1>4. Owes(s, c) \subseteq Call_
  BY <1>2, <1>3 DEF Owes
<1>5. QED BY <1>2, <1>3, <1>4

\* What the invariant says of one service.
LEMMA OfOne ==
  ASSUME CoreInv, NEW s \in Services
  PROVE  /\ Sound(core[s]) /\ core[s] \in State /\ core[s].uiToken \in Nat /\ core[s].uiToken <= ops + 1
         /\ ops \in Nat /\ \E n \in Nat : Few(core[s], n)
         /\ s \notin twice => Queued(core[s]) /\ Serving(core[s])
         /\ Busy(s) => core[s].running \in Cos
<1>1. InOrder(s) /\ core[s] \in State /\ ops \in Nat
  BY DEF CoreInv, TypeOK
<1>2. Busy(s) => core[s].running \in Cos
  BY <1>1 DEF Busy, State
<1>3. core[s].uiToken \in Nat
  BY <1>1 DEF State
<1>4. QED BY <1>1, <1>2, <1>3 DEF InOrder

\* Between two events the queues are empty.
LEMMA QuietServed ==
  ASSUME CoreInv, NEW s \in Services, Quiet(s), s \notin twice
  PROVE  core[s].wakeupQ = <<>> /\ core[s].cancelQ = <<>>
BY OfOne DEF Quiet, Busy, Serving

-----------------------------------------------------------------------------
(* What the running coroutine may do *)

\* The function of the coroutine returns.
LEMMA ReturnServes ==
  ASSUME CoreInv, Unlimited, NEW s \in Services, Return(s)
  PROVE  CoreInv'
<1> DEFINE v == core[s]
           w == Ended(v)
<1>1. /\ Busy(s) /\ Tables(s, w) /\ dropped' = dropped \union Owes(s, Me(s))
      /\ UNCHANGED <<inbox, status, armed, ops, cancelled, twice>>
  BY DEF Return
<1>2. /\ Sound(v) /\ v.uiToken <= ops + 1 /\ ops \in Nat /\ (\E n \in Nat : Few(v, n)) /\ v.running \in Cos
      /\ s \notin twice => Queued(v)
  BY <1>1, OfOne
<1>3. PICK n \in Nat : Few(v, n)
  BY <1>2
<1> HIDE DEF w, v
<1>4. /\ Sound(w) /\ (Queued(v) => Queued(w)) /\ Serving(w) /\ \E m \in Nat : Few(w, m)
      /\ w.uiToken = v.uiToken
  BY <1>2, <1>3, EndedOK DEF w
<1>5. NextTables(s, w)
  BY <1>1, <1>2, <1>4 DEF NextTables
<1>6. core' \in [Services -> State] /\ \A r \in Services : InOrder(r)'
  BY <1>1, <1>2, <1>5, OneServes
<1>7. Owes(s, Me(s)) \subseteq Call_
  BY <1>2, OwedTyped DEF CoreInv, Me, v
<1>8. TypeOK'
  BY <1>1, <1>6, <1>7 DEF CoreInv, TypeOK
<1>9. QED BY <1>6, <1>8 DEF CoreInv

\* It raises an error.
LEMMA FailServes ==
  ASSUME CoreInv, Unlimited, NEW s \in Services, Fail(s)
  PROVE  CoreInv'
<1> DEFINE v == core[s]
           w == Failed(v)
<1>1. /\ Busy(s) /\ Tables(s, w) /\ dropped' = dropped \union Owes(s, Me(s))
      /\ UNCHANGED <<inbox, status, armed, ops, cancelled, twice>>
  BY DEF Fail
<1>2. /\ Sound(v) /\ v.uiToken <= ops + 1 /\ ops \in Nat /\ (\E n \in Nat : Few(v, n)) /\ v.running \in Cos
      /\ s \notin twice => Queued(v)
  BY <1>1, OfOne
<1>3. PICK n \in Nat : Few(v, n)
  BY <1>2
<1> HIDE DEF w, v
<1>4. /\ Sound(w) /\ (Queued(v) => Queued(w)) /\ Serving(w) /\ \E m \in Nat : Few(w, m)
      /\ w.uiToken = v.uiToken
  BY <1>2, <1>3, FailedOK DEF w
<1>5. NextTables(s, w)
  BY <1>1, <1>2, <1>4 DEF NextTables
<1>6. core' \in [Services -> State] /\ \A r \in Services : InOrder(r)'
  BY <1>1, <1>2, <1>5, OneServes
<1>7. Owes(s, Me(s)) \subseteq Call_
  BY <1>2, OwedTyped DEF CoreInv, Me, v
<1>8. TypeOK'
  BY <1>1, <1>6, <1>7 DEF CoreInv, TypeOK
<1>9. QED BY <1>6, <1>8 DEF CoreInv


\* Replies that are owed are kept elsewhere or forgotten.
LEMMA RepliesServe ==
  ASSUME CoreInv, NEW s \in Services, NEW w, Tables(s, w),
         NEW f \in [Cos -> {<<>>} \cup Call_], NEW r \in SUBSET Call_,
         w = [core[s] EXCEPT !.owed = f, !.responses = r],
         ops' \in Nat, ops <= ops', twice \subseteq twice'
  PROVE  core' \in [Services -> State] /\ \A q \in Services : InOrder(q)'
<1> DEFINE v == core[s]
<1>1. /\ Sound(v) /\ v \in State /\ v.uiToken <= ops + 1 /\ v.uiToken \in Nat /\ ops \in Nat
      /\ \E n \in Nat : Few(v, n)
      /\ s \notin twice => Queued(v) /\ Serving(v)
  BY OfOne
<1> HIDE DEF v
<1>2. w = [v EXCEPT !.owed = f, !.responses = r]
  BY DEF v
<1>3. /\ w \in State /\ Alike(v, w) /\ w.calls = v.calls /\ w.uiToken = v.uiToken
  BY <1>1, <1>2 DEF State, Alike
<1>4. Sound(w) /\ (Queued(v) => Queued(w)) /\ \A n \in Nat : Few(v, n) => Few(w, n)
  BY <1>1, <1>3, AlikeOK
<1>5. Serving(v) => Serving(w)
  BY <1>3 DEF Alike, Serving
<1>6. NextTables(s, w)
  BY <1>1, <1>3, <1>4, <1>5 DEF NextTables
<1>7. QED BY <1>6, OneServes

\* What is owed to a caller reaches it, or closes the call.
LEMMA RepliesTyped ==
  ASSUME TypeOK, NEW s \in Services, NEW o \in Call_
  PROVE  /\ \A kind \in {"answer", "call", "ping"} : Sent(inbox, o[1], Event(kind, s, o[2])) \in [Services -> Seq(Events)]
         /\ SentClose(inbox, s, o[1]) \in [Services -> Seq(Events)]
         /\ Misses(s, {o}) \subseteq Call_
<1>1. o[1] \in Services /\ o[2] \in Tokens
  BY DEF Call_
<1>2. inbox \in [Services -> Seq(Events)]
  BY DEF TypeOK
<1>3. /\ \A kind \in {"answer", "call", "ping"} : Event(kind, s, o[2]) \in Events
      /\ Event("close", s, 0) \in Events
  BY <1>1, EventTyped
<1>4. Misses(s, {o}) \subseteq Call_
  BY DEF Misses
<1>5. QED BY <1>1, <1>2, <1>3, <1>4, SentTyped DEF SentClose

\* The reply is sent.
LEMMA ReplyServes ==
  ASSUME CoreInv, NEW s \in Services, Reply(s)
  PROVE  CoreInv'
<1> DEFINE o == core[s].owed[Me(s)]
           f == [core[s].owed EXCEPT ![Me(s)] = <<>>]
           r == core[s].responses
           w == [core[s] EXCEPT !.owed[Me(s)] = <<>>]
<1>1. /\ Busy(s) /\ o # <<>> /\ ops' = ops + 1 /\ Tables(s, w)
      /\ inbox' = Sent(inbox, o[1], Event("answer", s, o[2]))
      /\ dropped' = dropped
      /\ UNCHANGED <<status, armed, cancelled, twice>>
  BY DEF Reply, Operates
<1>2. core[s] \in State /\ ops \in Nat /\ Me(s) \in Cos /\ TypeOK
  BY <1>1, OfOne DEF Me, CoreInv
<1>3. o \in Call_ /\ core[s].responses \in SUBSET Call_
  BY <1>1, <1>2, OwedTyped
<1>4. f \in [Cos -> {<<>>} \cup Call_] /\ r \in SUBSET Call_
  BY <1>2, <1>3 DEF State
<1>5. w = [core[s] EXCEPT !.owed = f, !.responses = r]
  BY <1>2 DEF State
<1>6. ops' \in Nat /\ ops <= ops' /\ twice \subseteq twice'
  BY <1>1, <1>2
<1> HIDE DEF w, f, r
<1>7. core' \in [Services -> State] /\ \A q \in Services : InOrder(q)'
  BY <1>1, <1>4, <1>5, <1>6, RepliesServe
<1> HIDE DEF o
<1>8. inbox' \in [Services -> Seq(Events)] /\ dropped' \subseteq Call_
  BY <1>1, <1>2, <1>3, RepliesTyped DEF TypeOK
<1>9. TypeOK'
  BY <1>1, <1>2, <1>6, <1>7, <1>8 DEF TypeOK
<1>10. QED BY <1>7, <1>9 DEF CoreInv

\* The call is closed.
LEMMA ReplyCloseServes ==
  ASSUME CoreInv, NEW s \in Services, ReplyClose(s)
  PROVE  CoreInv'
<1> DEFINE o == core[s].owed[Me(s)]
           f == [core[s].owed EXCEPT ![Me(s)] = <<>>]
           r == core[s].responses
           w == [core[s] EXCEPT !.owed[Me(s)] = <<>>]
<1>1. /\ Busy(s) /\ o # <<>> /\ ops' = ops + 1 /\ Tables(s, w)
      /\ inbox' = SentClose(inbox, s, o[1])
      /\ dropped' = dropped \union Misses(s, {o})
      /\ UNCHANGED <<status, armed, cancelled, twice>>
  BY DEF ReplyClose, Operates
<1>2. core[s] \in State /\ ops \in Nat /\ Me(s) \in Cos /\ TypeOK
  BY <1>1, OfOne DEF Me, CoreInv
<1>3. o \in Call_ /\ core[s].responses \in SUBSET Call_
  BY <1>1, <1>2, OwedTyped
<1>4. f \in [Cos -> {<<>>} \cup Call_] /\ r \in SUBSET Call_
  BY <1>2, <1>3 DEF State
<1>5. w = [core[s] EXCEPT !.owed = f, !.responses = r]
  BY <1>2 DEF State
<1>6. ops' \in Nat /\ ops <= ops' /\ twice \subseteq twice'
  BY <1>1, <1>2
<1> HIDE DEF w, f, r
<1>7. core' \in [Services -> State] /\ \A q \in Services : InOrder(q)'
  BY <1>1, <1>4, <1>5, <1>6, RepliesServe
<1> HIDE DEF o
<1>8. inbox' \in [Services -> Seq(Events)] /\ dropped' \subseteq Call_
  BY <1>1, <1>2, <1>3, RepliesTyped DEF TypeOK
<1>9. TypeOK'
  BY <1>1, <1>2, <1>6, <1>7, <1>8 DEF TypeOK
<1>10. QED BY <1>7, <1>9 DEF CoreInv

\* The reply is left to a response.
LEMMA GenResponseServes ==
  ASSUME CoreInv, NEW s \in Services, GenResponse(s)
  PROVE  CoreInv'
<1> DEFINE o == core[s].owed[Me(s)]
           f == [core[s].owed EXCEPT ![Me(s)] = <<>>]
           r == core[s].responses \union {o}
           w == [core[s] EXCEPT !.owed[Me(s)] = <<>>, !.responses = @ \union {o}]
<1>1. /\ Busy(s) /\ o # <<>> /\ ops' = ops + 1 /\ Tables(s, w)
      /\ inbox' = inbox
      /\ dropped' = dropped
      /\ UNCHANGED <<status, armed, cancelled, twice>>
  BY DEF GenResponse, Operates
<1>2. core[s] \in State /\ ops \in Nat /\ Me(s) \in Cos /\ TypeOK
  BY <1>1, OfOne DEF Me, CoreInv
<1>3. o \in Call_ /\ core[s].responses \in SUBSET Call_
  BY <1>1, <1>2, OwedTyped
<1>4. f \in [Cos -> {<<>>} \cup Call_] /\ r \in SUBSET Call_
  BY <1>2, <1>3 DEF State
<1>5. w = [core[s] EXCEPT !.owed = f, !.responses = r]
  BY <1>2 DEF State
<1>6. ops' \in Nat /\ ops <= ops' /\ twice \subseteq twice'
  BY <1>1, <1>2
<1> HIDE DEF w, f, r
<1>7. core' \in [Services -> State] /\ \A q \in Services : InOrder(q)'
  BY <1>1, <1>4, <1>5, <1>6, RepliesServe
<1> HIDE DEF o
<1>8. inbox' \in [Services -> Seq(Events)] /\ dropped' \subseteq Call_
  BY <1>1, <1>2 DEF TypeOK
<1>9. TypeOK'
  BY <1>1, <1>2, <1>6, <1>7, <1>8 DEF TypeOK
<1>10. QED BY <1>7, <1>9 DEF CoreInv

\* The call goes on to another service.
LEMMA RedirectServes ==
  ASSUME CoreInv, NEW s \in Services, NEW to \in Services, Redirect(s, to)
  PROVE  CoreInv'
<1> DEFINE o == core[s].owed[Me(s)]
           f == [core[s].owed EXCEPT ![Me(s)] = <<>>]
           r == core[s].responses
           w == [core[s] EXCEPT !.owed[Me(s)] = <<>>]
<1>1. /\ Busy(s) /\ o # <<>> /\ ops' = ops + 1 /\ Tables(s, w)
      /\ inbox' = Sent(inbox, to, Event("call", o[1], o[2]))
      /\ dropped' = IF Accepts(to) THEN dropped ELSE dropped \union {o}
      /\ UNCHANGED <<status, armed, cancelled, twice>>
  BY DEF Redirect, Operates
<1>2. core[s] \in State /\ ops \in Nat /\ Me(s) \in Cos /\ TypeOK
  BY <1>1, OfOne DEF Me, CoreInv
<1>3. o \in Call_ /\ core[s].responses \in SUBSET Call_
  BY <1>1, <1>2, OwedTyped
<1>4. f \in [Cos -> {<<>>} \cup Call_] /\ r \in SUBSET Call_
  BY <1>2, <1>3 DEF State
<1>5. w = [core[s] EXCEPT !.owed = f, !.responses = r]
  BY <1>2 DEF State
<1>6. ops' \in Nat /\ ops <= ops' /\ twice \subseteq twice'
  BY <1>1, <1>2
<1> HIDE DEF w, f, r
<1>7. core' \in [Services -> State] /\ \A q \in Services : InOrder(q)'
  BY <1>1, <1>4, <1>5, <1>6, RepliesServe
<1> HIDE DEF o
<1>8. inbox' \in [Services -> Seq(Events)] /\ dropped' \subseteq Call_
  <2>1. o[1] \in Services /\ o[2] \in Tokens
    BY <1>3 DEF Call_
  <2>2. Event("call", o[1], o[2]) \in Events
    BY <2>1, EventTyped
  <2>3. inbox \in [Services -> Seq(Events)] /\ dropped \subseteq Call_
    BY <1>2 DEF TypeOK
  <2>4. QED BY <1>1, <1>3, <2>2, <2>3, SentTyped
<1>9. TypeOK'
  BY <1>1, <1>2, <1>6, <1>7, <1>8 DEF TypeOK
<1>10. QED BY <1>7, <1>9 DEF CoreInv

\* The response is used.
LEMMA RespondServes ==
  ASSUME CoreInv, NEW s \in Services, NEW o \in core[s].responses, NEW ok \in BOOLEAN, Respond(s, o, ok)
  PROVE  CoreInv'
<1> DEFINE f == core[s].owed
           r == core[s].responses \ {o}
           w == [core[s] EXCEPT !.responses = @ \ {o}]
<1>1. /\ Busy(s) /\ ops' = ops + 1 /\ Tables(s, w)
      /\ inbox' = IF ok THEN Sent(inbox, o[1], Event("answer", s, o[2])) ELSE SentClose(inbox, s, o[1])
      /\ dropped' = IF ok THEN dropped ELSE dropped \union Misses(s, {o})
      /\ UNCHANGED <<status, armed, cancelled, twice>>
  BY DEF Respond, Operates
<1>2. core[s] \in State /\ ops \in Nat /\ TypeOK
  BY <1>1, OfOne DEF CoreInv
<1>3. o \in Call_ /\ core[s].responses \in SUBSET Call_
  BY <1>2 DEF State
<1>4. f \in [Cos -> {<<>>} \cup Call_] /\ r \in SUBSET Call_
  BY <1>2, <1>3 DEF State
<1>5. w = [core[s] EXCEPT !.owed = f, !.responses = r]
  BY <1>2 DEF State
<1>6. ops' \in Nat /\ ops <= ops' /\ twice \subseteq twice'
  BY <1>1, <1>2
<1> HIDE DEF w, f, r
<1>7. core' \in [Services -> State] /\ \A q \in Services : InOrder(q)'
  BY <1>1, <1>4, <1>5, <1>6, RepliesServe
<1>8. inbox' \in [Services -> Seq(Events)] /\ dropped' \subseteq Call_
  BY <1>1, <1>2, <1>3, RepliesTyped DEF TypeOK
<1>9. TypeOK'
  BY <1>1, <1>2, <1>6, <1>7, <1>8 DEF TypeOK
<1>10. QED BY <1>7, <1>9 DEF CoreInv

\* Something is sent that nobody answers.
LEMMA SendServes ==
  ASSUME CoreInv, NEW s \in Services, NEW to \in Services, Send(s, to)
  PROVE  CoreInv'
<1>1. /\ ops' = ops + 1 /\ inbox' = Sent(inbox, to, Event("send", s, 0))
      /\ UNCHANGED <<core, status, armed, dropped, cancelled, twice>>
  BY DEF Send, Operates
<1>2. ops \in Nat /\ TypeOK /\ inbox \in [Services -> Seq(Events)]
  BY DEF CoreInv, TypeOK
<1>3. ops' \in Nat /\ ops <= ops' /\ twice \subseteq twice'
  BY <1>1, <1>2
<1>4. core' \in [Services -> State] /\ \A q \in Services : InOrder(q)'
  BY <1>1, <1>3, NoneServes
<1>5. inbox' \in [Services -> Seq(Events)]
  BY <1>1, <1>2, EventTyped, SentTyped
<1>6. TypeOK'
  BY <1>1, <1>2, <1>3, <1>4, <1>5 DEF TypeOK
<1>7. QED BY <1>4, <1>6 DEF CoreInv

\* A timer, a connector or a write posts its event.
LEMMA FiresServes ==
  ASSUME CoreInv, NEW s \in Services, NEW t \in Tokens, Fires(s, t)
  PROVE  CoreInv'
<1>1. /\ armed' = [armed EXCEPT ![s] = @ \ {t}] /\ inbox' = Sent(inbox, s, Event("answer", s, t))
      /\ UNCHANGED <<core, status, ops, dropped, cancelled, twice>>
  BY DEF Fires
<1>2. ops \in Nat /\ TypeOK /\ inbox \in [Services -> Seq(Events)] /\ armed \in [Services -> SUBSET Tokens]
  BY DEF CoreInv, TypeOK
<1>3. ops' \in Nat /\ ops <= ops' /\ twice \subseteq twice'
  BY <1>1, <1>2
<1>4. core' \in [Services -> State] /\ \A q \in Services : InOrder(q)'
  BY <1>1, <1>3, NoneServes
<1>5. inbox' \in [Services -> Seq(Events)]
  BY <1>1, <1>2, EventTyped, SentTyped
<1>6. armed' \in [Services -> SUBSET Tokens]
  BY <1>1, <1>2
<1>7. TypeOK'
  BY <1>1, <1>2, <1>3, <1>4, <1>5, <1>6 DEF TypeOK
<1>8. QED BY <1>4, <1>7 DEF CoreInv

\* A token is taken: one that leads nowhere.
LEMMA TokenIsTaken ==
  ASSUME CoreInv, NEW s \in Services, Busy(s), ops < MaxOps
  PROVE  LET v == Taken(core[s])
         IN  /\ Sound(v) /\ v \in State /\ (\E n \in Nat : Few(v, n)) /\ v.running \in Cos
             /\ v.running = core[s].running
             /\ v.uiToken \in Tokens /\ v.uiToken <= ops + 2
             /\ v.tokenTo[v.uiToken] \notin Cos /\ v.watching[v.uiToken] = Nobody
             /\ (Queued(v) => ~Contains(v.cancelQ, v.uiToken))
             /\ (s \notin twice => Queued(v))
             /\ v.calls = core[s].calls /\ v.asyncQ = core[s].asyncQ
             /\ v.wakeupQ = core[s].wakeupQ /\ v.cancelQ = core[s].cancelQ
<1> DEFINE r == core[s]
           v == Taken(core[s])
<1>1. /\ Sound(r) /\ r.uiToken \in Nat /\ r.uiToken <= ops + 1 /\ ops \in Nat
      /\ (\E n \in Nat : Few(r, n)) /\ r.running \in Cos
      /\ s \notin twice => Queued(r)
  BY OfOne
<1>2. PICK n \in Nat : Few(r, n)
  BY <1>1
<1>3. /\ Sound(v) /\ (Queued(r) => Queued(v)) /\ Few(v, n)
      /\ v.uiToken = r.uiToken + 1 /\ v.running = r.running
      /\ v.calls = r.calls /\ v.asyncQ = r.asyncQ
      /\ v.wakeupQ = r.wakeupQ /\ v.cancelQ = r.cancelQ
      /\ v.uiToken \in Tokens => /\ v.tokenTo[v.uiToken] \notin Cos /\ v.watching[v.uiToken] = Nobody
                                 /\ Queued(v) => ~Contains(v.cancelQ, v.uiToken)
  BY <1>1, <1>2, TakenOK
<1> HIDE DEF v, r
<1>4. v.uiToken \in Tokens /\ v.uiToken <= ops + 2
  BY <1>1, <1>3, MaxOpsAssumption DEF Tokens
<1>5. v \in State
  BY <1>3 DEF Sound
<1>6. QED BY <1>1, <1>2, <1>3, <1>4, <1>5 DEF v, r

\* A call or a ping: its coroutine waits for the answer.
LEMMA CallServes ==
  ASSUME CoreInv, NEW s \in Services, NEW to \in Addresses, NEW kind \in {"call", "ping"}, Call(s, to, kind)
  PROVE  CoreInv'
<1> DEFINE v == Taken(core[s])
           u == v.uiToken
           p == [v.watching EXCEPT ![u] = to]
           q == [v.tokenTo EXCEPT ![u] = v.running]
           x == [v EXCEPT !.watching[v.uiToken] = to, !.tokenTo[v.uiToken] = v.running]
           w == Suspended(x, kind)
<1>1. /\ Busy(s) /\ ops < MaxOps /\ ops' = ops + 1 /\ Tables(s, w)
      /\ inbox' = Sent(inbox, IdOf[to], Event(kind, s, u))
      /\ UNCHANGED <<status, armed, dropped, cancelled, twice>>
  BY DEF Call, Operates
<1>2. /\ Sound(v) /\ v \in State /\ (\E n \in Nat : Few(v, n)) /\ v.running \in Cos
      /\ u \in Tokens /\ u <= ops + 2
      /\ v.tokenTo[u] \notin Cos /\ v.watching[u] = Nobody
      /\ (Queued(v) => ~Contains(v.cancelQ, u))
      /\ s \notin twice => Queued(v)
  BY <1>1, TokenIsTaken
<1>3. PICK n \in Nat : Few(v, n)
  BY <1>2
<1> HIDE DEF v
<1>4. x = [v EXCEPT !.watching = p, !.tokenTo = q]
  BY <1>2 DEF State
<1>5. p \in [Tokens -> Addresses \cup {Nobody}] /\ q \in [Tokens -> Cos \cup {Nobody, BREAK}]
  BY <1>2 DEF State
<1> HIDE DEF p, q
<1>6. /\ x \in State /\ x.watching = p /\ x.tokenTo = q /\ x.running = v.running /\ x.at = v.at
      /\ x.pool = v.pool /\ x.asyncQ = v.asyncQ /\ x.wakeupQ = v.wakeupQ /\ x.cancelQ = v.cancelQ
      /\ x.uiToken = v.uiToken /\ x.sleeping = v.sleeping
  BY <1>2, <1>4, <1>5 DEF State
<1> HIDE DEF x
<1>7. /\ w \in State /\ Serving(w) /\ w.running = Nobody
      /\ w.at = [x.at EXCEPT ![x.running] = kind] /\ w.pool = x.pool /\ w.asyncQ = x.asyncQ
      /\ w.wakeupQ = x.wakeupQ /\ w.cancelQ = x.cancelQ /\ w.uiToken = x.uiToken
      /\ w.tokenTo = x.tokenTo /\ w.watching = x.watching /\ w.sleeping = x.sleeping
  <2>1. kind \in Kinds
    BY DEF Kinds
  <2>2. x.running \in Cos
    BY <1>2, <1>6
  <2>3. QED BY <2>1, <2>2, <1>6, SuspendedFields
<1> HIDE DEF w
<1>8. WaitsAs(v, w, kind, u, to) /\ w.uiToken = v.uiToken
  BY <1>6, <1>7 DEF WaitsAs, p, q, Calling, Asleep
<1>a. kind \in {"call", "ping", "sleep", "wait", "await"}
  OBVIOUS
<1>9. Sound(w) /\ (Queued(v) => Queued(w)) /\ \E m \in Nat : Few(w, m)
  BY <1>2, <1>3, <1>7, <1>8, <1>a, WaitsOK
<1>b. ops \in Nat /\ TypeOK
  BY DEF CoreInv, TypeOK
<1>c. ops' \in Nat /\ ops <= ops' /\ twice \subseteq twice' /\ w.uiToken <= ops' + 1
  BY <1>1, <1>2, <1>8, <1>b, Names
<1>10. NextTables(s, w)
  BY <1>1, <1>2, <1>7, <1>9, <1>c DEF NextTables
<1>11. core' \in [Services -> State] /\ \A r \in Services : InOrder(r)'
  BY <1>1, <1>10, <1>c, OneServes
<1>12. inbox' \in [Services -> Seq(Events)]
  <2>1. Event(kind, s, u) \in Events /\ inbox \in [Services -> Seq(Events)] /\ IdOf[to] \in Services
    BY <1>2, <1>b, EventTyped, Names DEF TypeOK
  <2>2. QED BY <1>1, <2>1, SentTyped
<1>13. TypeOK'
  BY <1>1, <1>b, <1>c, <1>11, <1>12 DEF TypeOK
<1>14. QED BY <1>11, <1>13 DEF CoreInv

\* The coroutine sleeps, or waits for an event of its own service.
LEMMA SleepServes ==
  ASSUME CoreInv, NEW s \in Services, NEW why \in {"sleep", "wait", "await"}, Sleep(s, why)
  PROVE  CoreInv'
<1> DEFINE v == Taken(core[s])
           u == v.uiToken
           p == [v.sleeping EXCEPT ![v.running] = IF why = "await" THEN 0 ELSE u]
           q == [v.tokenTo EXCEPT ![u] = v.running]
           x == [v EXCEPT !.tokenTo[v.uiToken] = v.running,
                          !.sleeping[v.running] = IF why = "await" THEN 0 ELSE v.uiToken]
           w == Suspended(x, why)
<1>1. /\ Busy(s) /\ ops < MaxOps /\ ops' = ops + 1 /\ Tables(s, w)
      /\ armed' = IF why = "wait" THEN armed ELSE [armed EXCEPT ![s] = @ \union {u}]
      /\ UNCHANGED <<inbox, status, dropped, cancelled, twice>>
  BY DEF Sleep, Operates
<1>2. /\ Sound(v) /\ v \in State /\ (\E n \in Nat : Few(v, n)) /\ v.running \in Cos
      /\ u \in Tokens /\ u <= ops + 2
      /\ v.tokenTo[u] \notin Cos /\ v.watching[u] = Nobody
      /\ (Queued(v) => ~Contains(v.cancelQ, u))
      /\ s \notin twice => Queued(v)
  BY <1>1, TokenIsTaken
<1>3. PICK n \in Nat : Few(v, n)
  BY <1>2
<1> HIDE DEF v
<1>4. x = [v EXCEPT !.tokenTo = q, !.sleeping = p]
  BY <1>2 DEF State
<1>5. p \in [Cos -> Tokens \cup {0}] /\ q \in [Tokens -> Cos \cup {Nobody, BREAK}]
  BY <1>2 DEF State
<1>s. p = IF why \in Asleep THEN [v.sleeping EXCEPT ![v.running] = u] ELSE v.sleeping
  <2>1. CASE why = "await"
    <3>1. v.sleeping[v.running] = 0
      BY <1>2, RunningIsFree
    <3>2. p = v.sleeping
      BY <3>1, <2>1, <1>2 DEF State
    <3>3. QED BY <3>2, <2>1 DEF Asleep
  <2>2. CASE why # "await"
    BY <2>2 DEF Asleep
  <2>3. QED BY <2>1, <2>2
<1> HIDE DEF p, q
<1>6. /\ x \in State /\ x.watching = v.watching /\ x.tokenTo = q /\ x.running = v.running /\ x.at = v.at
      /\ x.pool = v.pool /\ x.asyncQ = v.asyncQ /\ x.wakeupQ = v.wakeupQ /\ x.cancelQ = v.cancelQ
      /\ x.uiToken = v.uiToken /\ x.sleeping = p
  BY <1>2, <1>4, <1>5 DEF State
<1> HIDE DEF x
<1>7. /\ w \in State /\ Serving(w) /\ w.running = Nobody
      /\ w.at = [x.at EXCEPT ![x.running] = why] /\ w.pool = x.pool /\ w.asyncQ = x.asyncQ
      /\ w.wakeupQ = x.wakeupQ /\ w.cancelQ = x.cancelQ /\ w.uiToken = x.uiToken
      /\ w.tokenTo = x.tokenTo /\ w.watching = x.watching /\ w.sleeping = x.sleeping
  <2>1. why \in Kinds
    BY DEF Kinds
  <2>2. x.running \in Cos
    BY <1>2, <1>6
  <2>3. QED BY <2>1, <2>2, <1>6, SuspendedFields
<1> HIDE DEF w
<1>8. WaitsAs(v, w, why, u, s) /\ w.uiToken = v.uiToken
  BY <1>6, <1>7, <1>s DEF WaitsAs, q, Calling
<1>a. why \in {"call", "ping", "sleep", "wait", "await"}
  OBVIOUS
<1>9. Sound(w) /\ (Queued(v) => Queued(w)) /\ \E m \in Nat : Few(w, m)
  BY <1>2, <1>3, <1>7, <1>8, <1>a, Names, WaitsOK
<1>b. ops \in Nat /\ TypeOK
  BY DEF CoreInv, TypeOK
<1>c. ops' \in Nat /\ ops <= ops' /\ twice \subseteq twice' /\ w.uiToken <= ops' + 1
  BY <1>1, <1>2, <1>8, <1>b, Names
<1>10. NextTables(s, w)
  BY <1>1, <1>2, <1>7, <1>9, <1>c DEF NextTables
<1>11. core' \in [Services -> State] /\ \A r \in Services : InOrder(r)'
  BY <1>1, <1>10, <1>c, OneServes
<1>12. armed' \in [Services -> SUBSET Tokens]
  BY <1>1, <1>2, <1>b DEF TypeOK
<1>13. TypeOK'
  BY <1>1, <1>b, <1>c, <1>11, <1>12 DEF TypeOK
<1>14. QED BY <1>11, <1>13 DEF CoreInv

\* A step that changes the tables of one service and the rest as it should.
LEMMA ServesTyped ==
  ASSUME CoreInv, NEW s \in Services, NEW v, Tables(s, v), NextTables(s, v),
         ops' \in Nat, ops <= ops', twice \subseteq twice',
         inbox' \in [Services -> Seq(Events)], status' \in [Services -> {"running", "exiting", "stopped"}],
         armed' \in [Services -> SUBSET Tokens],
         dropped' \subseteq Call_, cancelled' \subseteq Call_, twice' \subseteq Services
  PROVE  CoreInv'
<1>1. core' \in [Services -> State] /\ \A r \in Services : InOrder(r)'
  BY OneServes
<1>2. TypeOK'
  BY <1>1 DEF TypeOK
<1>3. QED BY <1>1, <1>2 DEF CoreInv

\* A sleeper is to be woken.
LEMMA WakeupServes ==
  ASSUME CoreInv, NEW s \in Services, NEW c \in Cos, Wakeup(s, c)
  PROVE  CoreInv'
<1> DEFINE v == core[s]
           w == [v EXCEPT !.wakeupQ = Append(@, c)]
<1>1. /\ Busy(s) /\ ops' = ops + 1 /\ Tables(s, w) /\ v.sleeping[c] # 0
      /\ twice' = IF Contains(v.wakeupQ, c) THEN twice \union {s} ELSE twice
      /\ UNCHANGED <<inbox, status, armed, dropped, cancelled>>
  BY DEF Wakeup, Operates
<1>2. /\ Sound(v) /\ v.uiToken <= ops + 1 /\ v.uiToken \in Nat /\ ops \in Nat
      /\ (\E n \in Nat : Few(v, n)) /\ v.running \in Cos
      /\ s \notin twice => Queued(v)
  BY <1>1, OfOne
<1>3. PICK n \in Nat : Few(v, n)
  BY <1>2
<1> HIDE DEF v, w
<1>4. /\ Sound(w) /\ (Queued(v) /\ ~Contains(v.wakeupQ, c) => Queued(w)) /\ Few(w, n)
      /\ w.running = v.running /\ w.uiToken = v.uiToken
  BY <1>1, <1>2, <1>3, WakeupOK DEF w
<1>5. Serving(w)
  BY <1>2, <1>4, Names DEF Serving
<1>6. twice \subseteq twice' /\ (s \notin twice' => s \notin twice /\ ~Contains(v.wakeupQ, c))
  BY <1>1
<1>7. ops' \in Nat /\ ops <= ops' /\ w.uiToken <= ops' + 1
  BY <1>1, <1>2, <1>4
<1>8. NextTables(s, w)
  BY <1>2, <1>4, <1>5, <1>6, <1>7 DEF NextTables
<1>9. /\ inbox' \in [Services -> Seq(Events)] /\ status' \in [Services -> {"running", "exiting", "stopped"}]
      /\ armed' \in [Services -> SUBSET Tokens]
      /\ dropped' \subseteq Call_ /\ cancelled' \subseteq Call_ /\ twice' \subseteq Services
  BY <1>1 DEF CoreInv, TypeOK
<1>10. QED BY <1>1, <1>6, <1>7, <1>8, <1>9, ServesTyped

\* A coroutine is to be run later.
LEMMA AsyncServes ==
  ASSUME CoreInv, Unlimited, NEW s \in Services, Async(s)
  PROVE  CoreInv'
<1> DEFINE v == core[s]
           c == NewCo(v)
           x == Created(v, "new")
           w == [x EXCEPT !.asyncQ = Append(@, c)]
<1>1. /\ Busy(s) /\ ops' = ops + 1 /\ Tables(s, w)
      /\ UNCHANGED <<inbox, status, armed, dropped, cancelled, twice>>
  BY DEF Async, Operates
<1>2. /\ Sound(v) /\ v.uiToken <= ops + 1 /\ v.uiToken \in Nat /\ ops \in Nat
      /\ (\E n \in Nat : Few(v, n)) /\ v.running \in Cos
      /\ s \notin twice => Queued(v)
  BY <1>1, OfOne
<1>3. PICK n \in Nat : Few(v, n)
  BY <1>2
<1> HIDE DEF v, w
<1>4. /\ Sound(x) /\ (Queued(v) => Queued(x)) /\ (\E m \in Nat : Few(x, m))
      /\ c \in Cos /\ x.at[c] = "new" /\ ~Contains(x.asyncQ, c)
      /\ \A t \in Tokens : x.tokenTo[t] # c
      /\ x.running = v.running /\ x.uiToken = v.uiToken
  BY <1>2, <1>3, CreatedOK
<1>5. PICK m \in Nat : Few(x, m)
  BY <1>4
<1> HIDE DEF x, c
<1>6. /\ Sound(w) /\ (Queued(x) => Queued(w)) /\ Few(w, m)
      /\ w.running = x.running /\ w.uiToken = x.uiToken
  BY <1>4, <1>5, AsyncOK DEF w
<1>7. Serving(w)
  BY <1>2, <1>4, <1>6, Names DEF Serving
<1>8. ops' \in Nat /\ ops <= ops' /\ w.uiToken <= ops' + 1
  BY <1>1, <1>2, <1>4, <1>6
<1>9. NextTables(s, w)
  BY <1>1, <1>2, <1>4, <1>6, <1>7, <1>8 DEF NextTables
<1>10. /\ inbox' \in [Services -> Seq(Events)] /\ status' \in [Services -> {"running", "exiting", "stopped"}]
       /\ armed' \in [Services -> SUBSET Tokens]
       /\ dropped' \subseteq Call_ /\ cancelled' \subseteq Call_ /\ twice' \subseteq Services
       /\ twice \subseteq twice'
  BY <1>1 DEF CoreInv, TypeOK
<1>11. QED BY <1>1, <1>8, <1>9, <1>10, ServesTyped

\* A coroutine for the event of a timer.
LEMMA TimeoutServes ==
  ASSUME CoreInv, Unlimited, NEW s \in Services, Timeout(s)
  PROVE  CoreInv'
<1> DEFINE v == Taken(core[s])
           u == v.uiToken
           c == NewCo(v)
           x == Created(v, "new")
           w == [x EXCEPT !.tokenTo[u] = c]
<1>1. /\ Busy(s) /\ ops < MaxOps /\ ops' = ops + 1 /\ Tables(s, w)
      /\ armed' = [armed EXCEPT ![s] = @ \union {u}]
      /\ UNCHANGED <<inbox, status, dropped, cancelled, twice>>
  BY DEF Timeout, Operates
<1>2. /\ Sound(v) /\ (\E n \in Nat : Few(v, n)) /\ v.running \in Cos
      /\ u \in Tokens /\ u <= ops + 2
      /\ v.tokenTo[u] \notin Cos /\ v.watching[u] = Nobody
      /\ s \notin twice => Queued(v)
  BY <1>1, TokenIsTaken
<1>3. PICK n \in Nat : Few(v, n)
  BY <1>2
<1> HIDE DEF v, w
<1>4. /\ Sound(x) /\ (Queued(v) => Queued(x)) /\ (\E m \in Nat : Few(x, m))
      /\ c \in Cos /\ x.at[c] = "new" /\ ~Contains(x.asyncQ, c) /\ x.running # c
      /\ \A t \in Tokens : x.tokenTo[t] # c
      /\ x.running = v.running /\ x.uiToken = v.uiToken
      /\ x.tokenTo = v.tokenTo /\ x.watching = v.watching
  BY <1>2, <1>3, CreatedOK
<1>5. PICK m \in Nat : Few(x, m)
  BY <1>4
<1>a. x.tokenTo[u] \notin Cos /\ x.watching[u] = Nobody /\ u = x.uiToken
  BY <1>2, <1>4
<1> HIDE DEF x, c, u
<1>6. /\ Sound(w) /\ (Queued(x) => Queued(w)) /\ (\E k \in Nat : Few(w, k))
      /\ w.running = x.running /\ w.uiToken = x.uiToken
  BY <1>2, <1>4, <1>5, <1>a, TimedOK DEF w
<1>7. Serving(w)
  BY <1>2, <1>4, <1>6, Names DEF Serving
<1>b. ops \in Nat /\ TypeOK
  BY DEF CoreInv, TypeOK
<1>8. ops' \in Nat /\ ops <= ops' /\ w.uiToken <= ops' + 1
  BY <1>1, <1>2, <1>a, <1>b, <1>6, Names
<1>9. NextTables(s, w)
  BY <1>1, <1>2, <1>4, <1>6, <1>7, <1>8 DEF NextTables
<1>10. /\ inbox' \in [Services -> Seq(Events)] /\ status' \in [Services -> {"running", "exiting", "stopped"}]
       /\ armed' \in [Services -> SUBSET Tokens]
       /\ dropped' \subseteq Call_ /\ cancelled' \subseteq Call_ /\ twice' \subseteq Services
       /\ twice \subseteq twice'
  BY <1>1, <1>2, <1>b DEF TypeOK
<1>11. QED BY <1>1, <1>8, <1>9, <1>10, ServesTyped

\* The replies that a close drops were owed for calls.
LEMMA DropsTyped ==
  ASSUME NEW R \in SUBSET Call_, NEW source
  PROVE  {<<r[1], r[2]>> : r \in {x \in R : x[1] = source}} \subseteq Call_
<1>1. ASSUME NEW r \in R PROVE <<r[1], r[2]>> \in Call_
  BY DEF Call_
<1>2. QED BY <1>1

\* close_dispatch_f in the running coroutine.
LEMMA TermServes ==
  ASSUME CoreInv, NEW s \in Services, NEW source \in Addresses, Term(s, source)
  PROVE  CoreInv'
<1> DEFINE v == core[s]
           f == [v.owed EXCEPT ![v.running] = <<>>]
           x == [v EXCEPT !.owed[v.running] = <<>>]
           gone == {<<r[1], r[2]>> : r \in {y \in v.responses : y[1] = source}}
<1>1. PICK order \in Orders(v, source) :
        /\ Tables(s, CloseDispatch(x, source, order))
        /\ twice' = IF \E i \in DOMAIN order : Contains(v.cancelQ, order[i])
                    THEN twice \union {s} ELSE twice
        /\ dropped' = dropped \union Owes(s, v.running) \union gone
  BY DEF Term
<1>2. Busy(s) /\ ops' = ops + 1 /\ UNCHANGED <<inbox, status, armed, cancelled>>
  BY DEF Term, Operates
<1> DEFINE w == CloseDispatch(x, source, order)
<1>3. /\ Sound(v) /\ v \in State /\ v.uiToken <= ops + 1 /\ v.uiToken \in Nat /\ ops \in Nat
      /\ (\E n \in Nat : Few(v, n)) /\ v.running \in Cos
      /\ s \notin twice => Queued(v)
  BY <1>2, OfOne
<1>4. PICK n \in Nat : Few(v, n)
  BY <1>3
<1>5. Owes(s, v.running) \subseteq Call_ /\ gone \subseteq Call_ /\ TypeOK
  BY <1>3, OwedTyped, DropsTyped DEF CoreInv
<1> HIDE DEF v, w, gone
<1>6. x = [v EXCEPT !.owed = f] /\ f \in [Cos -> {<<>>} \cup Call_]
  BY <1>3 DEF State
<1> HIDE DEF f, x
<1>7. x \in State /\ Alike(v, x)
  BY <1>3, <1>6 DEF State, Alike
<1>8. Sound(x) /\ (Queued(v) => Queued(x)) /\ Few(x, n)
  BY <1>3, <1>4, <1>7, AlikeOK
<1>9. order \in Orders(x, source) /\ x.cancelQ = v.cancelQ /\ x.running = v.running /\ x.uiToken = v.uiToken
  BY <1>7 DEF Alike, Orders, Watched
<1>10. /\ Sound(w) /\ Few(w, n) /\ w.running = x.running /\ w.uiToken = x.uiToken
       /\ Queued(x) /\ (\A i \in DOMAIN order : ~Contains(x.cancelQ, order[i])) => Queued(w)
  BY <1>8, <1>9, CloseDispatchOK DEF w
<1>11. Serving(w)
  BY <1>3, <1>9, <1>10, Names DEF Serving
<1>12. /\ twice \subseteq twice'
       /\ s \notin twice' => s \notin twice /\ \A i \in DOMAIN order : ~Contains(v.cancelQ, order[i])
  BY <1>1
<1>13. ops' \in Nat /\ ops <= ops' /\ w.uiToken <= ops' + 1
  BY <1>2, <1>3, <1>9, <1>10
<1>14. s \notin twice' => Queued(w)
  BY <1>3, <1>8, <1>9, <1>10, <1>12
<1>15. NextTables(s, w)
  BY <1>10, <1>11, <1>13, <1>14 DEF NextTables
<1>16. /\ inbox' \in [Services -> Seq(Events)] /\ status' \in [Services -> {"running", "exiting", "stopped"}]
       /\ armed' \in [Services -> SUBSET Tokens]
       /\ dropped' \subseteq Call_ /\ cancelled' \subseteq Call_ /\ twice' \subseteq Services
  BY <1>1, <1>2, <1>5 DEF TypeOK
<1>17. Tables(s, w)
  BY <1>1 DEF w
<1>18. QED BY <1>12, <1>13, <1>15, <1>16, <1>17, ServesTyped

\* The service exits: those who wait for it are told.
LEMMA ExitServes ==
  ASSUME CoreInv, NEW s \in Services, Exit(s)
  PROVE  CoreInv'
<1> DEFINE v == core[s]
           w == Exited(v)
<1>1. /\ Busy(s) /\ ops' = ops + 1
      /\ status' = [status EXCEPT ![s] = "exiting"] /\ dropped' = dropped \union Misses(s, Owing(s))
      /\ UNCHANGED <<armed, cancelled, twice>>
  BY DEF Exit, Operates
<1>a. Tables(s, w)
  BY DEF Exit, Exited
<1>b. inbox' = [q \in Services |->
                 LET closed == IF q \in Told(s) /\ Accepts(q)
                               THEN Append(inbox[q], Event("close", s, 0)) ELSE inbox[q]
                 IN  IF q = s THEN Append(closed, Event("stop", s, 0)) ELSE closed]
  BY DEF Exit
<1>2. /\ Sound(v) /\ v.uiToken <= ops + 1 /\ v.uiToken \in Nat /\ ops \in Nat
      /\ (\E n \in Nat : Few(v, n)) /\ v.running \in Cos
      /\ s \notin twice => Queued(v)
  BY <1>1, OfOne
<1>3. PICK n \in Nat : Few(v, n)
  BY <1>2
<1>4. Misses(s, Owing(s)) \subseteq Call_ /\ TypeOK
  <2>1. TypeOK
    BY DEF CoreInv
  <2>2. \A c \in Cos : Owes(s, c) \subseteq Call_ /\ core[s].responses \subseteq Call_
    BY <2>1, OwedTyped
  <2>3. ASSUME NEW o \in Owing(s) PROVE o \in Call_
    <3>1. o \in core[s].responses \/ \E c \in Cos : o \in Owes(s, c)
      BY <2>3 DEF Owing
    <3>2. QED BY <3>1, <2>2, <1>2
  <2>4. QED BY <2>1, <2>3 DEF Misses
<1> HIDE DEF v
<1>5. w = Exited(v)
  OBVIOUS
<1> HIDE DEF w
<1>6. /\ Sound(w) /\ (Queued(v) => Queued(w)) /\ Few(w, n)
      /\ w.running = v.running /\ w.uiToken = v.uiToken
  BY <1>2, <1>3, <1>5, ExitOK
<1>7. Serving(w)
  BY <1>2, <1>6, Names DEF Serving
<1>8. ops' \in Nat /\ ops <= ops' /\ w.uiToken <= ops' + 1
  BY <1>1, <1>2, <1>6
<1>9. NextTables(s, w)
  BY <1>1, <1>2, <1>6, <1>7, <1>8 DEF NextTables
<1>10. inbox' \in [Services -> Seq(Events)]
  <2>1. Event("close", s, 0) \in Events /\ Event("stop", s, 0) \in Events
    BY EventTyped
  <2> DEFINE closed(q) == IF q \in Told(s) /\ Accepts(q)
                          THEN Append(inbox[q], Event("close", s, 0)) ELSE inbox[q]
  <2>2. ASSUME NEW q \in Services
        PROVE  (IF q = s THEN Append(closed(q), Event("stop", s, 0)) ELSE closed(q)) \in Seq(Events)
    <3>1. inbox[q] \in Seq(Events)
      BY <1>4 DEF TypeOK
    <3>2. closed(q) \in Seq(Events)
      BY <2>1, <3>1
    <3> HIDE DEF closed
    <3>3. QED BY <2>1, <3>2
  <2>3. QED BY <1>b, <2>2
<1>11. /\ status' \in [Services -> {"running", "exiting", "stopped"}]
       /\ armed' \in [Services -> SUBSET Tokens]
       /\ dropped' \subseteq Call_ /\ cancelled' \subseteq Call_ /\ twice' \subseteq Services
       /\ twice \subseteq twice'
  BY <1>1, <1>4 DEF TypeOK
<1>12. QED BY <1>a, <1>8, <1>9, <1>10, <1>11, ServesTyped

-----------------------------------------------------------------------------
(* What a service does with its events and between them *)

\* The coroutine c that waits for the token t is resumed, with what the queues are now.
Roused(v, c, t, d, q, p, k) ==
  [v EXCEPT !.running = c, !.at = [v.at EXCEPT ![c] = "running"],
            !.tokenTo = [v.tokenTo EXCEPT ![t] = d], !.watching = [v.watching EXCEPT ![t] = Nobody],
            !.sleeping = [v.sleeping EXCEPT ![c] = 0],
            !.wakeupQ = q, !.cancelQ = p, !.calls = k]

\* The coroutine c waits for the token t, and the queues q and p are shorter.
Rousable(v, n, c, t, d, q, p, k) ==
  /\ Sound(v) /\ n \in Nat /\ Few(v, n) /\ v.running = Nobody
  /\ t \in Tokens /\ c \in Cos /\ v.tokenTo[t] = c /\ d \in Marks
  /\ q \in Seq(Cos) /\ p \in Seq(Tokens) /\ k \in Seq({"wakeup", "cancel"}) /\ Within(v, q, p)

\* The tables stay in order.
LEMMA RousedOK ==
  ASSUME NEW v, NEW n, NEW c, NEW t, NEW d, NEW q, NEW p, NEW k, Rousable(v, n, c, t, d, q, p, k)
  PROVE  LET w == Roused(v, c, t, d, q, p, k)
         IN  /\ Sound(w) /\ (\E m \in Nat : Few(w, m)) /\ Serving(w)
             /\ (Queued(v) /\ Without(c, t, q, p) => Queued(w))
             /\ w.running = c /\ w.calls = k /\ w.asyncQ = v.asyncQ
             /\ w.wakeupQ = q /\ w.cancelQ = p /\ w.uiToken = v.uiToken
             /\ w.tokenTo = [v.tokenTo EXCEPT ![t] = d] /\ w.watching = [v.watching EXCEPT ![t] = Nobody]
             /\ w.owed = v.owed /\ w.responses = v.responses
<1> DEFINE a == [v.at EXCEPT ![c] = "running"]
           f == [v.tokenTo EXCEPT ![t] = d]
           g == [v.watching EXCEPT ![t] = Nobody]
           h == [v.sleeping EXCEPT ![c] = 0]
           w == Roused(v, c, t, d, q, p, k)
<1>0. /\ Sound(v) /\ n \in Nat /\ Few(v, n) /\ v.running = Nobody
      /\ t \in Tokens /\ c \in Cos /\ v.tokenTo[t] = c /\ d \in Marks
      /\ q \in Seq(Cos) /\ p \in Seq(Tokens) /\ k \in Seq({"wakeup", "cancel"}) /\ Within(v, q, p)
  BY DEF Rousable
<1>1. w = [v EXCEPT !.running = c, !.at = a, !.tokenTo = f, !.watching = g, !.sleeping = h,
                    !.wakeupQ = q, !.cancelQ = p, !.calls = k]
  BY DEF Roused
<1>2. v \in State
  BY <1>0 DEF Sound
<1>3. /\ a \in [Cos -> Kinds] /\ f \in [Tokens -> Cos \cup {Nobody, BREAK}]
      /\ g \in [Tokens -> Addresses \cup {Nobody}] /\ h \in [Cos -> Tokens \cup {0}]
  BY <1>0, <1>2 DEF State, Kinds, Marks
<1> HIDE DEF a, f, g, h, w
<1>4. /\ w \in State /\ w.running = c /\ w.at = a /\ w.tokenTo = f /\ w.watching = g /\ w.sleeping = h
      /\ w.wakeupQ = q /\ w.cancelQ = p /\ w.calls = k
      /\ w.pool = v.pool /\ w.asyncQ = v.asyncQ /\ w.uiToken = v.uiToken
      /\ w.owed = v.owed /\ w.responses = v.responses
  BY <1>0, <1>1, <1>2, <1>3 DEF State
<1>5. WokenAs(v, w, c, t, d) /\ Within(v, w.wakeupQ, w.cancelQ)
  BY <1>0, <1>4 DEF a, f, g, h, WokenAs
<1>6. w \in State /\ f = [v.tokenTo EXCEPT ![t] = d] /\ g = [v.watching EXCEPT ![t] = Nobody]
  BY <1>4 DEF f, g
<1>a. /\ Sound(w) /\ (\E m \in Nat : Few(w, m))
      /\ (Queued(v) /\ Without(c, t, w.wakeupQ, w.cancelQ) => Queued(w))
  BY <1>0, <1>5, <1>6, WokenOK
<1>7. Sound(w) /\ (\E m \in Nat : Few(w, m)) /\ (Queued(v) /\ Without(c, t, q, p) => Queued(w))
  BY <1>4, <1>a
<1>8. Serving(w)
  BY <1>0, <1>4, Names DEF Serving
<1>9. QED BY <1>4, <1>6, <1>7, <1>8 DEF w

\* An event is taken from the inbox.
LEMMA TakesEvent ==
  ASSUME CoreInv, NEW s \in Services, inbox[s] # <<>>
  PROVE  LET e == Head(inbox[s])
         IN  /\ e \in Events /\ [inbox EXCEPT ![s] = Tail(@)] \in [Services -> Seq(Events)]
             /\ e.source \in Services
             /\ e.ev \in {"answer", "call", "ping"} => e.token \in Tokens
<1>1. inbox \in [Services -> Seq(Events)]
  BY DEF CoreInv, TypeOK
<1>2. Head(inbox[s]) \in Events /\ [inbox EXCEPT ![s] = Tail(@)] \in [Services -> Seq(Events)]
  BY <1>1, TailTyped
<1>3. \A e \in Events : e.source \in Services /\ (e.ev \in {"answer", "call", "ping"} => e.token \in Tokens)
  BY DEF Events
<1>4. QED BY <1>2, <1>3

\* An answer: the coroutine of its token is resumed, if there is one.
LEMMA AnswerServes ==
  ASSUME CoreInv, NEW s \in Services, Quiet(s), inbox[s] # <<>>, Head(inbox[s]).ev = "answer",
         Answer(s, Head(inbox[s])), inbox' = [inbox EXCEPT ![s] = Tail(@)],
         UNCHANGED <<status, armed, ops>>
  PROVE  CoreInv'
<1> DEFINE v == core[s]
           t == Head(inbox[s]).token
           c == v.tokenTo[t]
           x == [v EXCEPT !.tokenTo[t] = Nobody]
           w == Awake(x, c, t)
<1>1. /\ (c \in Cos => Tables(s, w)) /\ (c \notin Cos => Tables(s, x))
      /\ UNCHANGED <<dropped, cancelled, twice>>
  BY DEF Answer
<1>2. /\ Sound(v) /\ v \in State /\ v.uiToken <= ops + 1 /\ v.uiToken \in Nat /\ ops \in Nat
      /\ (\E n \in Nat : Few(v, n))
      /\ s \notin twice => Queued(v) /\ Serving(v)
  BY OfOne
<1>3. PICK n \in Nat : Few(v, n)
  BY <1>2
<1>4. v.running = Nobody /\ (s \notin twice => v.wakeupQ = <<>> /\ v.cancelQ = <<>>)
  BY QuietServed DEF Quiet, Busy
<1>5. t \in Tokens /\ inbox' \in [Services -> Seq(Events)]
  BY TakesEvent
<1> HIDE DEF v, t
<1>6. /\ status' \in [Services -> {"running", "exiting", "stopped"}]
      /\ armed' \in [Services -> SUBSET Tokens]
      /\ dropped' \subseteq Call_ /\ cancelled' \subseteq Call_ /\ twice' \subseteq Services
      /\ twice \subseteq twice' /\ ops' = ops /\ ops \in Nat
  BY <1>1 DEF CoreInv, TypeOK
<1>7. ASSUME c \in Cos PROVE CoreInv'
  <2> DEFINE z == Roused(v, c, t, Nobody, v.wakeupQ, v.cancelQ, v.calls)
  <2>1. w = z
    BY <1>2, <1>5 DEF Awake, Resumed, Roused, State
  <2>2. v.wakeupQ \in Seq(Cos) /\ v.cancelQ \in Seq(Tokens) /\ v.calls \in Seq({"wakeup", "cancel"})
    BY <1>2 DEF State
  <2>3. Within(v, v.wakeupQ, v.cancelQ) /\ (s \notin twice => Without(c, t, v.wakeupQ, v.cancelQ))
    BY <1>4, EmptyQueue DEF Without, Within
  <2> HIDE DEF w, c
  <2>4. Nobody \in Marks /\ v.tokenTo[t] = c
    BY DEF c, Marks
  <2>5. /\ Sound(z) /\ (\E m \in Nat : Few(z, m)) /\ Serving(z)
        /\ (Queued(v) /\ Without(c, t, v.wakeupQ, v.cancelQ) => Queued(z))
        /\ z.uiToken = v.uiToken
    <3>1. Rousable(v, n, c, t, Nobody, v.wakeupQ, v.cancelQ, v.calls)
      BY <1>2, <1>3, <1>4, <1>5, <1>7, <2>2, <2>3, <2>4 DEF Rousable
    <3>2. Sound(z)
      BY <3>1, RousedOK
    <3>3. \E m \in Nat : Few(z, m)
      BY <3>1, RousedOK
    <3>4. Serving(z)
      BY <3>1, RousedOK
    <3>5. Queued(v) /\ Without(c, t, v.wakeupQ, v.cancelQ) => Queued(z)
      BY <3>1, RousedOK
    <3>6. z.uiToken = v.uiToken
      BY <1>2 DEF Roused, State
    <3>7. QED BY <3>2, <3>3, <3>4, <3>5, <3>6
  <2> HIDE DEF z
  <2>6. NextTables(s, z)
    BY <1>1, <1>2, <1>6, <2>3, <2>5 DEF NextTables
  <2>7. Tables(s, z) /\ ops' \in Nat /\ ops <= ops'
    BY <1>1, <1>6, <1>7, <2>1
  <2>8. QED BY <1>5, <1>6, <2>6, <2>7, ServesTyped
<1>8. ASSUME c \notin Cos PROVE CoreInv'
  <2> DEFINE f == [v.tokenTo EXCEPT ![t] = Nobody]
  <2>1. x = [v EXCEPT !.tokenTo = f]
    BY <1>2 DEF State
  <2>a. v.tokenTo \in [Tokens -> Cos \cup {Nobody, BREAK}]
    BY <1>2 DEF State
  <2>2. /\ f \in [Tokens -> Cos \cup {Nobody, BREAK}]
        /\ \A u \in Tokens : f[u] = v.tokenTo[u] \/ (f[u] \notin Cos /\ v.tokenTo[u] \notin Cos)
    <3>1. f[t] = Nobody /\ Nobody \notin Cos /\ v.tokenTo[t] \notin Cos
      BY <2>a, <1>5, <1>8, Names
    <3>2. \A u \in Tokens : u # t => f[u] = v.tokenTo[u]
      BY <2>a
    <3>3. f \in [Tokens -> Cos \cup {Nobody, BREAK}]
      BY <2>a
    <3> HIDE DEF f, c
    <3>4. QED BY <3>1, <3>2, <3>3
  <2> HIDE DEF f
  <2>3. /\ x \in State /\ x.tokenTo = f /\ x.running = v.running /\ x.at = v.at /\ x.pool = v.pool
        /\ x.asyncQ = v.asyncQ /\ x.uiToken = v.uiToken /\ x.watching = v.watching
        /\ x.sleeping = v.sleeping /\ x.calls = v.calls
        /\ x.wakeupQ = v.wakeupQ /\ x.cancelQ = v.cancelQ
    BY <1>2, <2>1, <2>2 DEF State
  <2> HIDE DEF x, c
  <2>4. Sound(x) /\ Few(x, n) /\ (Queued(v) /\ Distinct(x.wakeupQ) /\ Distinct(x.cancelQ) => Queued(x))
    BY <1>2, <1>3, <2>2, <2>3, ShrunkOK
  <2>5. (Queued(v) => Queued(x)) /\ (Serving(v) => Serving(x))
    BY <2>3, <2>4 DEF Queued, Serving
  <2>6. NextTables(s, x)
    BY <1>1, <1>2, <1>6, <2>3, <2>4, <2>5 DEF NextTables
  <2>7. Tables(s, x) /\ ops' \in Nat /\ ops <= ops'
    BY <1>1, <1>6, <1>8
  <2>8. QED BY <1>5, <1>6, <2>6, <2>7, ServesTyped
<1>9. QED BY <1>7, <1>8

\* What is left of the queues and of the calls under way when their first is taken.
LEMMA Shorter ==
  ASSUME NEW v, v \in State
  PROVE  /\ v.calls # <<>> => Tail(v.calls) \in Seq({"wakeup", "cancel"})
         /\ v.wakeupQ # <<>> =>
              /\ Head(v.wakeupQ) \in Cos /\ Tail(v.wakeupQ) \in Seq(Cos) /\ Contains(v.wakeupQ, Head(v.wakeupQ))
              /\ \A x : Contains(Tail(v.wakeupQ), x) => Contains(v.wakeupQ, x)
              /\ Distinct(v.wakeupQ) => Distinct(Tail(v.wakeupQ)) /\ ~Contains(Tail(v.wakeupQ), Head(v.wakeupQ))
         /\ v.cancelQ # <<>> =>
              /\ Head(v.cancelQ) \in Tokens /\ Tail(v.cancelQ) \in Seq(Tokens) /\ Contains(v.cancelQ, Head(v.cancelQ))
              /\ \A x : Contains(Tail(v.cancelQ), x) => Contains(v.cancelQ, x)
              /\ Distinct(v.cancelQ) => Distinct(Tail(v.cancelQ)) /\ ~Contains(Tail(v.cancelQ), Head(v.cancelQ))
<1>1. v.calls \in Seq({"wakeup", "cancel"}) /\ v.wakeupQ \in Seq(Cos) /\ v.cancelQ \in Seq(Tokens)
  BY DEF State
<1>2. v.calls # <<>> => Tail(v.calls) \in Seq({"wakeup", "cancel"})
  BY <1>1, TailOf
<1>3. v.wakeupQ # <<>> =>
              /\ Head(v.wakeupQ) \in Cos /\ Tail(v.wakeupQ) \in Seq(Cos) /\ Contains(v.wakeupQ, Head(v.wakeupQ))
              /\ \A x : Contains(Tail(v.wakeupQ), x) => Contains(v.wakeupQ, x)
              /\ Distinct(v.wakeupQ) => Distinct(Tail(v.wakeupQ)) /\ ~Contains(Tail(v.wakeupQ), Head(v.wakeupQ))
  BY <1>1, TailOf, NonEmpty
<1>4. v.cancelQ # <<>> =>
              /\ Head(v.cancelQ) \in Tokens /\ Tail(v.cancelQ) \in Seq(Tokens) /\ Contains(v.cancelQ, Head(v.cancelQ))
              /\ \A x : Contains(Tail(v.cancelQ), x) => Contains(v.cancelQ, x)
              /\ Distinct(v.cancelQ) => Distinct(Tail(v.cancelQ)) /\ ~Contains(Tail(v.cancelQ), Head(v.cancelQ))
  BY <1>1, TailOf, NonEmpty
<1>5. QED BY <1>2, <1>3, <1>4

\* A sleeper is woken.
LEMMA WakeServes ==
  ASSUME CoreInv, NEW s \in Services, Wake(s)
  PROVE  CoreInv'
<1> DEFINE v == core[s]
           w == [v EXCEPT !.calls = Tail(@)]
           c == Head(v.wakeupQ)
           t == v.sleeping[c]
           x == [w EXCEPT !.wakeupQ = Tail(@)]
           d == IF v.at[c] = "sleep" THEN BREAK ELSE Nobody
           y == [Awake(x, c, t) EXCEPT !.tokenTo[t] = d]
<1>1. /\ v.running = Nobody /\ v.calls # <<>> /\ Head(v.calls) = "wakeup"
      /\ UNCHANGED <<status, ops, dropped, cancelled, twice>>
  BY DEF Wake, Busy
<1>2. \/ v.wakeupQ = <<>> /\ Tables(s, w) /\ UNCHANGED <<armed, inbox>>
      \/ v.wakeupQ # <<>> /\ t = 0 /\ Tables(s, x) /\ UNCHANGED <<armed, inbox>>
      \/ /\ v.wakeupQ # <<>> /\ t # 0 /\ Tables(s, y)
         /\ armed' = [armed EXCEPT ![s] = @ \ {t}]
         /\ inbox' = [inbox EXCEPT ![s] = Unfired(s, t)]
  BY DEF Wake
<1>3. /\ Sound(v) /\ v \in State /\ v.uiToken <= ops + 1 /\ v.uiToken \in Nat /\ ops \in Nat
      /\ (\E n \in Nat : Few(v, n))
      /\ s \notin twice => Queued(v) /\ Serving(v)
  BY OfOne
<1>4. PICK n \in Nat : Few(v, n)
  BY <1>3
<1>5. Unfired(s, t) \in Seq(Events) /\ TypeOK
  BY UnfiredTyped DEF CoreInv
<1> HIDE DEF v
<1>6. /\ Tail(v.calls) \in Seq({"wakeup", "cancel"})
      /\ v.wakeupQ # <<>> =>
           /\ c \in Cos /\ Tail(v.wakeupQ) \in Seq(Cos) /\ Contains(v.wakeupQ, c)
           /\ \A z : Contains(Tail(v.wakeupQ), z) => Contains(v.wakeupQ, z)
           /\ Distinct(v.wakeupQ) => Distinct(Tail(v.wakeupQ)) /\ ~Contains(Tail(v.wakeupQ), c)
  BY <1>1, <1>3, Shorter
<1>7. /\ inbox' \in [Services -> Seq(Events)] /\ status' \in [Services -> {"running", "exiting", "stopped"}]
      /\ armed' \in [Services -> SUBSET Tokens]
      /\ dropped' \subseteq Call_ /\ cancelled' \subseteq Call_ /\ twice' \subseteq Services
      /\ twice \subseteq twice' /\ ops' = ops /\ ops \in Nat /\ ops' \in Nat /\ ops <= ops'
  <2> HIDE DEF t
  <2>1. inbox \in [Services -> Seq(Events)] /\ armed \in [Services -> SUBSET Tokens]
    BY <1>5 DEF TypeOK
  <2>2. inbox' \in [Services -> Seq(Events)] /\ armed' \in [Services -> SUBSET Tokens]
    BY <1>2, <1>5, <2>1
  <2>3. QED BY <1>1, <1>3, <1>5, <2>2 DEF TypeOK
<1>8. ASSUME v.wakeupQ = <<>>, Tables(s, w) PROVE CoreInv'
  <2>1. /\ w \in State /\ w.calls = Tail(v.calls) /\ w.running = v.running /\ w.at = v.at /\ w.pool = v.pool
        /\ w.asyncQ = v.asyncQ /\ w.uiToken = v.uiToken /\ w.watching = v.watching
        /\ w.sleeping = v.sleeping /\ w.tokenTo = v.tokenTo
        /\ w.wakeupQ = v.wakeupQ /\ w.cancelQ = v.cancelQ
    BY <1>3, <1>6 DEF State
  <2> HIDE DEF w
  <2>2. /\ Sound(w) /\ Few(w, n)
        /\ Queued(v) /\ Distinct(w.wakeupQ) /\ Distinct(w.cancelQ) => Queued(w)
    BY <1>3, <1>4, <2>1, ShrunkOK
  <2>3. Queued(v) => Queued(w)
    BY <2>1, <2>2 DEF Queued
  <2>4. Serving(v) => Serving(w)
    BY <1>1, <1>8, <2>1 DEF Serving
  <2>5. NextTables(s, w)
    BY <1>3, <1>7, <2>1, <2>2, <2>3, <2>4 DEF NextTables
  <2>6. QED BY <1>7, <1>8, <2>5, ServesTyped
<1>9. ASSUME v.wakeupQ # <<>>, t = 0, Tables(s, x) PROVE CoreInv'
  <2>1. x = [v EXCEPT !.calls = Tail(v.calls), !.wakeupQ = Tail(v.wakeupQ)]
    BY <1>3 DEF State
  <2>2. Tail(v.wakeupQ) \in Seq(Cos) /\ \A z : Contains(Tail(v.wakeupQ), z) => Contains(v.wakeupQ, z)
    BY <1>6, <1>9
  <2> HIDE DEF x
  <2>3. /\ x \in State /\ x.running = v.running /\ x.at = v.at /\ x.pool = v.pool
        /\ x.asyncQ = v.asyncQ /\ x.uiToken = v.uiToken /\ x.watching = v.watching
        /\ x.sleeping = v.sleeping /\ x.tokenTo = v.tokenTo
        /\ x.wakeupQ = Tail(v.wakeupQ) /\ x.cancelQ = v.cancelQ
    BY <1>3, <1>6, <2>1, <2>2 DEF State
  <2>4. Sound(x) /\ Few(x, n)
    BY <1>3, <1>4, <2>2, <2>3, ShrunkOK
  <2>5. s \in twice
    BY <1>3, <1>6, <1>9 DEF Queued
  <2>6. NextTables(s, x)
    BY <1>3, <1>7, <2>3, <2>4, <2>5 DEF NextTables
  <2>7. QED BY <1>7, <1>9, <2>6, ServesTyped
<1>10. ASSUME v.wakeupQ # <<>>, t # 0, Tables(s, y) PROVE CoreInv'
  <2> DEFINE q == Tail(v.wakeupQ)
             k == Tail(v.calls)
             z == Roused(v, c, t, d, q, v.cancelQ, k)
  <2>1. c \in Cos /\ t \in Tokens /\ d \in Marks
    <3>1. c \in Cos /\ t \in Tokens
      BY <1>3, <1>6, <1>10 DEF State
    <3>2. QED BY <3>1 DEF Marks
  <2>2. v.at[c] \in Asleep /\ v.tokenTo[t] = c
    BY <1>3, <1>10, <2>1 DEF Sound, Linked
  <2>3. y = z
    <3> HIDE DEF c, t, d, q, k
    <3>1. x = [v EXCEPT !.calls = k, !.wakeupQ = q]
      BY <1>3 DEF State, k, q
    <3> HIDE DEF x
    <3>2. QED BY <1>3, <2>1, <3>1 DEF Awake, Resumed, Roused, State
  <2>4. Within(v, q, v.cancelQ)
    BY <1>6, <1>10 DEF Within
  <2>5. ASSUME s \notin twice PROVE Without(c, t, q, v.cancelQ)
    <3>1. Queued(v)
      BY <1>3, <2>5
    <3>2. v.watching[t] = Nobody
      BY <1>3, <2>1, <2>2 DEF Sound, Linked, Asleep, Calling
    <3>3. ~Contains(v.cancelQ, t) /\ Distinct(v.cancelQ)
      BY <3>1, <3>2, <2>1 DEF Queued
    <3>4. Distinct(q) /\ ~Contains(q, c)
      BY <3>1, <1>6, <1>10 DEF Queued
    <3>5. QED BY <3>3, <3>4 DEF Without
  <2>6. Rousable(v, n, c, t, d, q, v.cancelQ, k)
    <3>1. q \in Seq(Cos) /\ v.cancelQ \in Seq(Tokens) /\ k \in Seq({"wakeup", "cancel"})
      BY <1>3, <1>6, <1>10 DEF State
    <3> HIDE DEF c, t, d, q, k
    <3>2. QED BY <1>1, <1>3, <1>4, <2>1, <2>2, <2>4, <3>1 DEF Rousable
  <2>a. z.uiToken = v.uiToken
    BY <1>3 DEF Roused, State
  <2> HIDE DEF c, t, d, q, k, y
  <2>7. Sound(z) /\ (\E m \in Nat : Few(z, m)) /\ Serving(z)
    BY <2>6, RousedOK
  <2>8. Queued(v) /\ Without(c, t, q, v.cancelQ) => Queued(z)
    BY <2>6, RousedOK
  <2> HIDE DEF z
  <2>9. NextTables(s, z)
    BY <1>3, <1>7, <2>5, <2>7, <2>8, <2>a DEF NextTables
  <2>10. QED BY <1>7, <1>10, <2>3, <2>9, ServesTyped
<1>11. QED BY <1>2, <1>8, <1>9, <1>10

\* A call is cancelled.
LEMMA CancelServes ==
  ASSUME CoreInv, Unlimited, NEW s \in Services, Cancel(s)
  PROVE  CoreInv'
<1> DEFINE v == core[s]
           w == [v EXCEPT !.calls = Tail(@)]
           t == Head(v.cancelQ)
           c == v.tokenTo[t]
           x == [w EXCEPT !.cancelQ = Tail(@), !.tokenTo[t] = Nobody]
           y == Awake(x, c, t)
           e == [x EXCEPT !.calls = <<>>]
<1>1. /\ v.running = Nobody /\ v.calls # <<>> /\ Head(v.calls) = "cancel"
      /\ UNCHANGED <<inbox, status, armed, ops, twice>>
  BY DEF Cancel, Busy
<1>2. \/ v.cancelQ = <<>> /\ Tables(s, w) /\ UNCHANGED <<dropped, cancelled>>
      \/ v.cancelQ # <<>> /\ c \notin Cos /\ Tables(s, e) /\ UNCHANGED <<dropped, cancelled>>
      \/ /\ v.cancelQ # <<>> /\ c \in Cos /\ cancelled' = cancelled \union {<<s, t>>}
         /\ \/ Tables(s, y) /\ UNCHANGED dropped
            \/ Tables(s, Failed(y)) /\ dropped' = dropped \union Owes(s, c)
  BY DEF Cancel
<1>3. /\ Sound(v) /\ v \in State /\ v.uiToken <= ops + 1 /\ v.uiToken \in Nat /\ ops \in Nat
      /\ (\E n \in Nat : Few(v, n))
      /\ s \notin twice => Queued(v) /\ Serving(v)
  BY OfOne
<1>4. PICK n \in Nat : Few(v, n)
  BY <1>3
<1>5. TypeOK /\ \A b \in Cos : Owes(s, b) \subseteq Call_
  BY OwedTyped DEF CoreInv
<1> HIDE DEF v
<1>6. /\ Tail(v.calls) \in Seq({"wakeup", "cancel"})
      /\ v.cancelQ # <<>> =>
           /\ t \in Tokens /\ Tail(v.cancelQ) \in Seq(Tokens) /\ Contains(v.cancelQ, t)
           /\ \A z : Contains(Tail(v.cancelQ), z) => Contains(v.cancelQ, z)
           /\ Distinct(v.cancelQ) => Distinct(Tail(v.cancelQ)) /\ ~Contains(Tail(v.cancelQ), t)
  BY <1>1, <1>3, Shorter
<1>7. /\ inbox' \in [Services -> Seq(Events)] /\ status' \in [Services -> {"running", "exiting", "stopped"}]
      /\ armed' \in [Services -> SUBSET Tokens] /\ twice' \subseteq Services
      /\ twice \subseteq twice' /\ ops' = ops /\ ops \in Nat /\ ops' \in Nat /\ ops <= ops'
  BY <1>1, <1>3, <1>5 DEF TypeOK
<1>8. dropped' \subseteq Call_ /\ cancelled' \subseteq Call_
  <2>1. v.cancelQ # <<>> => <<s, t>> \in Call_
    BY <1>6 DEF Call_
  <2> HIDE DEF t, c, y, e, w
  <2>2. QED BY <1>2, <1>5, <2>1 DEF TypeOK
<1>9. ASSUME v.cancelQ = <<>>, Tables(s, w) PROVE CoreInv'
  <2>1. /\ w \in State /\ w.calls = Tail(v.calls) /\ w.running = v.running /\ w.at = v.at /\ w.pool = v.pool
        /\ w.asyncQ = v.asyncQ /\ w.uiToken = v.uiToken /\ w.watching = v.watching
        /\ w.sleeping = v.sleeping /\ w.tokenTo = v.tokenTo
        /\ w.wakeupQ = v.wakeupQ /\ w.cancelQ = v.cancelQ
    BY <1>3, <1>6 DEF State
  <2> HIDE DEF w
  <2>2. /\ Sound(w) /\ Few(w, n)
        /\ Queued(v) /\ Distinct(w.wakeupQ) /\ Distinct(w.cancelQ) => Queued(w)
    BY <1>3, <1>4, <2>1, ShrunkOK
  <2>3. Queued(v) => Queued(w)
    BY <2>1, <2>2 DEF Queued
  <2>4. Serving(v) => Serving(w)
    BY <1>1, <1>9, <2>1 DEF Serving
  <2>5. NextTables(s, w)
    BY <1>3, <1>7, <2>1, <2>2, <2>3, <2>4 DEF NextTables
  <2>6. QED BY <1>7, <1>8, <1>9, <2>5, ServesTyped
<1>10. ASSUME v.cancelQ # <<>>, c \notin Cos, Tables(s, e) PROVE CoreInv'
  <2> DEFINE f == [v.tokenTo EXCEPT ![t] = Nobody]
             p == Tail(v.cancelQ)
  <2>1. e = [v EXCEPT !.calls = <<>>, !.cancelQ = p, !.tokenTo = f]
    BY <1>3 DEF State
  <2>2. v.tokenTo \in [Tokens -> Cos \cup {Nobody, BREAK}]
    BY <1>3 DEF State
  <2>3. /\ p \in Seq(Tokens) /\ \A z : Contains(p, z) => Contains(v.cancelQ, z)
        /\ t \in Tokens /\ Contains(v.cancelQ, t)
    BY <1>6, <1>10
  <2>4. /\ f \in [Tokens -> Cos \cup {Nobody, BREAK}]
        /\ f[t] = Nobody /\ \A u \in Tokens : u # t => f[u] = v.tokenTo[u]
    BY <2>2, <2>3
  <2>5. Nobody \notin Cos /\ v.tokenTo[t] \notin Cos
    BY <1>10, Names
  <2>6. s \in twice
    <3>1. v.watching[t] = Nobody
      BY <1>3, <2>3, <2>5 DEF Sound, Linked
    <3>2. QED BY <3>1, <1>3, <2>3 DEF Queued
  <2> HIDE DEF f, p, e, t, c
  <2>7. \A u \in Tokens : f[u] = v.tokenTo[u] \/ (f[u] \notin Cos /\ v.tokenTo[u] \notin Cos)
    BY <2>4, <2>5
  <2>8. <<>> \in Seq({"wakeup", "cancel"})
    BY EmptyQueue
  <2>9. /\ e \in State /\ e.tokenTo = f /\ e.running = v.running /\ e.at = v.at /\ e.pool = v.pool
        /\ e.asyncQ = v.asyncQ /\ e.uiToken = v.uiToken /\ e.watching = v.watching
        /\ e.sleeping = v.sleeping /\ e.wakeupQ = v.wakeupQ /\ e.cancelQ = p
    BY <1>3, <2>1, <2>3, <2>4, <2>8 DEF State
  <2>10. Sound(e) /\ Few(e, n)
    BY <1>3, <1>4, <2>3, <2>7, <2>9, ShrunkOK
  <2>11. NextTables(s, e)
    BY <1>3, <1>7, <2>6, <2>9, <2>10 DEF NextTables
  <2>12. QED BY <1>7, <1>8, <1>10, <2>11, ServesTyped
<1>11. ASSUME v.cancelQ # <<>>, c \in Cos, Tables(s, y) \/ Tables(s, Failed(y)) PROVE CoreInv'
  <2> DEFINE p == Tail(v.cancelQ)
             k == Tail(v.calls)
             z == Roused(v, c, t, Nobody, v.wakeupQ, p, k)
  <2>1. t \in Tokens /\ Nobody \in Marks /\ p \in Seq(Tokens) /\ Contains(v.cancelQ, t)
    BY <1>6, <1>11 DEF Marks
  <2>2. y = z
    <3> DEFINE f == [v.tokenTo EXCEPT ![t] = Nobody]
    <3>1. x = [v EXCEPT !.calls = k, !.cancelQ = p, !.tokenTo = f]
      BY <1>3 DEF State, k, p
    <3> HIDE DEF x, c, t, k, p
    <3>2. QED BY <1>3, <1>11, <2>1, <3>1 DEF Awake, Resumed, Roused, State
  <2>3. Within(v, v.wakeupQ, p)
    BY <1>6, <1>11 DEF Within
  <2>4. ASSUME s \notin twice PROVE Without(c, t, v.wakeupQ, p)
    <3>1. Queued(v)
      BY <1>3, <2>4
    <3>2. v.watching[t] # Nobody
      BY <3>1, <2>1 DEF Queued
    <3>3. v.at[c] \in Calling
      BY <1>3, <1>11, <2>1, <3>2 DEF Sound, Linked
    <3>4. v.sleeping[c] = 0
      BY <1>3, <1>11, <3>3 DEF Sound, Linked, Calling, Asleep
    <3>5. ~Contains(v.wakeupQ, c) /\ Distinct(v.wakeupQ)
      BY <3>1, <3>4, <1>11 DEF Queued
    <3>6. Distinct(p) /\ ~Contains(p, t)
      BY <3>1, <1>6, <1>11 DEF Queued
    <3>7. QED BY <3>5, <3>6 DEF Without
  <2>5. Rousable(v, n, c, t, Nobody, v.wakeupQ, p, k)
    <3>1. v.wakeupQ \in Seq(Cos) /\ k \in Seq({"wakeup", "cancel"})
      BY <1>3, <1>6 DEF State
    <3>2. v.tokenTo[t] = c
      OBVIOUS
    <3> HIDE DEF c, t, p, k
    <3>3. QED BY <1>1, <1>3, <1>4, <1>11, <2>1, <2>3, <3>1, <3>2 DEF Rousable
  <2>6. z.uiToken = v.uiToken /\ z.running = c
    BY <1>3 DEF Roused, State
  <2> HIDE DEF c, t, p, k, y
  <2>7. Sound(z) /\ (\E m \in Nat : Few(z, m)) /\ Serving(z)
    BY <2>5, RousedOK
  <2>8. Queued(v) /\ Without(c, t, v.wakeupQ, p) => Queued(z)
    BY <2>5, RousedOK
  <2> HIDE DEF z
  <2>9. NextTables(s, z)
    BY <1>3, <1>7, <2>4, <2>6, <2>7, <2>8 DEF NextTables
  <2> DEFINE g == Failed(z)
  <2>10. NextTables(s, g)
    <3>1. PICK m \in Nat : Few(z, m)
      BY <2>7
    <3> HIDE DEF g
    <3>2. /\ Sound(g) /\ (Queued(z) => Queued(g)) /\ Serving(g) /\ \E j \in Nat : Few(g, j)
          /\ g.uiToken = z.uiToken
      BY <1>11, <2>6, <2>7, <3>1, FailedOK DEF g
    <3>3. QED BY <2>9, <3>2 DEF NextTables
  <2>11. Tables(s, z) \/ Tables(s, g)
    BY <1>11, <2>2
  <2> HIDE DEF g
  <2>12. QED BY <1>7, <1>8, <2>9, <2>10, <2>11, ServesTyped
<1>12. QED BY <1>2, <1>9, <1>10, <1>11

\* The next coroutine of asyncQueue_t runs; one with nothing to do ends at once.
LEMMA RunAsyncServes ==
  ASSUME CoreInv, NEW s \in Services, RunAsync(s)
  PROVE  CoreInv'
<1> DEFINE v == core[s]
           c == Head(v.asyncQ)
           w == [v EXCEPT !.asyncQ = Tail(@)]
           x == Resumed(w, c)
           y == Ended(x)
<1>1. /\ v.running = Nobody /\ v.asyncQ # <<>>
      /\ Tables(s, y) \/ Tables(s, x)
      /\ UNCHANGED <<inbox, status, armed, ops, dropped, cancelled, twice>>
  BY DEF RunAsync, Busy
<1>2. /\ Sound(v) /\ v.uiToken <= ops + 1 /\ v.uiToken \in Nat /\ ops \in Nat
      /\ (\E n \in Nat : Few(v, n))
      /\ s \notin twice => Queued(v)
  BY OfOne
<1>3. PICK n \in Nat : Few(v, n)
  BY <1>2
<1> HIDE DEF v, x, y
<1>4. /\ Sound(w) /\ (Queued(v) => Queued(w)) /\ Few(w, n)
      /\ c \in Cos /\ w.at[c] \in {"new", "idle"} /\ ~Contains(w.asyncQ, c)
      /\ \A t \in Tokens : w.tokenTo[t] # c
      /\ w.running = v.running /\ w.uiToken = v.uiToken
  BY <1>1, <1>2, <1>3, AsyncTaken
<1> HIDE DEF w, c
<1>5. /\ Sound(x) /\ (Queued(w) => Queued(x)) /\ (\E m \in Nat : Few(x, m))
      /\ x.running = c /\ x.uiToken = w.uiToken
  BY <1>1, <1>3, <1>4, ResumedOK DEF x
<1>6. PICK m \in Nat : Few(x, m)
  BY <1>5
<1>7. /\ Sound(y) /\ (Queued(x) => Queued(y)) /\ Serving(y) /\ (\E k \in Nat : Few(y, k))
      /\ y.uiToken = x.uiToken
  BY <1>4, <1>5, <1>6, EndedOK DEF y
<1>8. Serving(x)
  BY <1>4, <1>5, Names DEF Serving
<1>9. /\ inbox' \in [Services -> Seq(Events)] /\ status' \in [Services -> {"running", "exiting", "stopped"}]
      /\ armed' \in [Services -> SUBSET Tokens]
      /\ dropped' \subseteq Call_ /\ cancelled' \subseteq Call_ /\ twice' \subseteq Services
      /\ twice \subseteq twice' /\ ops' = ops /\ ops' \in Nat /\ ops <= ops'
  BY <1>1, <1>2 DEF CoreInv, TypeOK
<1>10. NextTables(s, x) /\ NextTables(s, y)
  BY <1>1, <1>2, <1>4, <1>5, <1>7, <1>8, <1>9 DEF NextTables
<1>11. QED BY <1>1, <1>9, <1>10, ServesTyped

\* A coroutine is created for an event and resumed.
LEMMA StartedOK ==
  ASSUME NEW v, Sound(v), NEW n \in Nat, Few(v, n), Unlimited, v.running = Nobody
  PROVE  LET w == Resumed(Created(v, "new"), NewCo(v))
         IN  /\ Sound(w) /\ (Queued(v) => Queued(w)) /\ (\E m \in Nat : Few(w, m))
             /\ w.running = NewCo(v) /\ NewCo(v) \in Cos
             /\ w.cancelQ = v.cancelQ /\ w.uiToken = v.uiToken /\ w.watching = v.watching
<1> DEFINE c == NewCo(v)
           x == Created(v, "new")
           w == Resumed(x, c)
<1>1. /\ Sound(x) /\ (Queued(v) => Queued(x)) /\ (\E m \in Nat : Few(x, m))
      /\ c \in Cos /\ x.at[c] = "new" /\ ~Contains(x.asyncQ, c)
      /\ \A t \in Tokens : x.tokenTo[t] # c
      /\ x.running = v.running /\ x.uiToken = v.uiToken
      /\ x.watching = v.watching /\ x.cancelQ = v.cancelQ
  BY CreatedOK
<1>2. PICK m \in Nat : Few(x, m)
  BY <1>1
<1> HIDE DEF x, c
<1>3. x.at[c] \in {"new", "idle"} /\ x.running = Nobody
  BY <1>1
<1>4. /\ Sound(w) /\ (Queued(x) => Queued(w)) /\ (\E k \in Nat : Few(w, k))
      /\ w.running = c /\ w.cancelQ = x.cancelQ /\ w.uiToken = x.uiToken /\ w.watching = x.watching
  BY <1>1, <1>2, <1>3, ResumedOK
<1> HIDE DEF w
<1>5. /\ Sound(w) /\ (Queued(v) => Queued(w)) /\ (\E k \in Nat : Few(w, k))
      /\ w.running = c /\ c \in Cos
      /\ w.cancelQ = v.cancelQ /\ w.uiToken = v.uiToken /\ w.watching = v.watching
  BY <1>1, <1>4
<1>6. QED BY <1>5 DEF w, x, c

\* A call or a message: its handler is started, or the call is closed.
LEMMA StartHandlerServes ==
  ASSUME CoreInv, Unlimited, NEW s \in Services, Quiet(s), inbox[s] # <<>>,
         Head(inbox[s]).ev \in {"call", "send"}, StartHandler(s, Head(inbox[s])),
         UNCHANGED <<status, armed, ops>>
  PROVE  CoreInv'
<1> DEFINE e == Head(inbox[s])
           v == core[s]
           c == NewCo(v)
           x == Resumed(Created(v, "new"), NewCo(v))
           o == IF e.ev = "call" THEN <<e.source, e.token>> ELSE <<>>
           w == [x EXCEPT !.owed[c] = o]
           rest == [inbox EXCEPT ![s] = Tail(@)]
<1>1. UNCHANGED <<cancelled, twice>>
  BY DEF StartHandler
<1>2. \/ Tables(s, w) /\ inbox' = rest /\ UNCHANGED dropped
      \/ /\ inbox' = IF e.ev = "call" THEN SentClose(rest, s, e.source) ELSE rest
         /\ dropped' = IF e.ev = "call" THEN dropped \union Misses(s, {<<e.source, e.token>>}) ELSE dropped
         /\ UNCHANGED core
  BY DEF StartHandler
<1>3. /\ Sound(v) /\ v.uiToken <= ops + 1 /\ v.uiToken \in Nat /\ ops \in Nat
      /\ (\E n \in Nat : Few(v, n))
      /\ s \notin twice => Queued(v)
  BY OfOne
<1>4. PICK n \in Nat : Few(v, n)
  BY <1>3
<1>5. v.running = Nobody /\ TypeOK
  BY DEF Quiet, Busy, CoreInv
<1>6. rest \in [Services -> Seq(Events)] /\ e.source \in Services /\ (e.ev = "call" => e.token \in Tokens)
  BY TakesEvent
<1> HIDE DEF e, rest
<1>7. e.ev = "call" => <<e.source, e.token>> \in Call_ /\ Misses(s, {<<e.source, e.token>>}) \subseteq Call_
  BY <1>6 DEF Call_, Misses
<1>8. SentClose(rest, s, e.source) \in [Services -> Seq(Events)]
  BY <1>6, EventTyped, SentTyped DEF SentClose
<1> HIDE DEF v, w
<1>9. /\ inbox' \in [Services -> Seq(Events)] /\ status' \in [Services -> {"running", "exiting", "stopped"}]
      /\ armed' \in [Services -> SUBSET Tokens]
      /\ dropped' \subseteq Call_ /\ cancelled' \subseteq Call_ /\ twice' \subseteq Services
      /\ twice \subseteq twice' /\ ops' = ops /\ ops' \in Nat /\ ops <= ops'
  <2>1. inbox' \in [Services -> Seq(Events)]
    BY <1>2, <1>6, <1>8
  <2>2. dropped \subseteq Call_
    BY <1>5 DEF TypeOK
  <2>3. dropped' \subseteq Call_
    BY <1>2, <1>7, <2>2
  <2>4. QED BY <1>1, <1>3, <1>5, <2>1, <2>3 DEF TypeOK
<1>10. ASSUME Tables(s, w) PROVE CoreInv'
  <2>1. /\ Sound(x) /\ (Queued(v) => Queued(x)) /\ (\E m \in Nat : Few(x, m))
        /\ x.running = c /\ c \in Cos /\ x.uiToken = v.uiToken
    BY <1>3, <1>4, <1>5, StartedOK
  <2>2. x \in State
    BY <2>1 DEF Sound
  <2> HIDE DEF x, c
  <2> DEFINE f == [x.owed EXCEPT ![c] = o]
  <2>3. w = [x EXCEPT !.owed = f]
    BY <2>2 DEF State, w
  <2>4. f \in [Cos -> {<<>>} \cup Call_]
    BY <1>7, <2>2 DEF State
  <2> HIDE DEF f
  <2>5. w \in State /\ Alike(x, w)
    BY <2>2, <2>3, <2>4 DEF State, Alike
  <2>6. Sound(w) /\ (Queued(x) => Queued(w)) /\ \A m \in Nat : Few(x, m) => Few(w, m)
    BY <2>1, <2>5, AlikeOK
  <2>7. Serving(w) /\ w.uiToken = x.uiToken
    BY <2>1, <2>5, Names DEF Serving, Alike
  <2>8. NextTables(s, w)
    BY <1>1, <1>3, <1>9, <2>1, <2>6, <2>7 DEF NextTables
  <2>9. QED BY <1>9, <1>10, <2>8, ServesTyped
<1>11. ASSUME UNCHANGED core PROVE CoreInv'
  <2>1. core' \in [Services -> State] /\ \A q \in Services : InOrder(q)'
    BY <1>9, <1>11, NoneServes
  <2>2. QED BY <1>9, <2>1 DEF CoreInv, TypeOK
<1>12. QED BY <1>2, <1>10, <1>11

\* A close: close_dispatch_f runs in a coroutine of its own.
LEMMA CloseServes ==
  ASSUME CoreInv, Unlimited, NEW s \in Services, Quiet(s), inbox[s] # <<>>,
         Close(s, Head(inbox[s])), inbox' = [inbox EXCEPT ![s] = Tail(@)],
         UNCHANGED <<status, armed, ops>>
  PROVE  CoreInv'
<1> DEFINE v == core[s]
           source == Head(inbox[s]).source
           x == Resumed(Created(v, "new"), NewCo(v))
           gone == {<<r[1], r[2]>> : r \in {z \in v.responses : z[1] = source}}
<1>1. PICK order \in Orders(v, source) :
        /\ Tables(s, Ended(CloseDispatch(x, source, order)))
        /\ twice' = IF \E i \in DOMAIN order : Contains(v.cancelQ, order[i])
                    THEN twice \union {s} ELSE twice
        /\ dropped' = dropped \union gone /\ UNCHANGED cancelled
  BY DEF Close
<1> DEFINE y == CloseDispatch(x, source, order)
           w == Ended(y)
<1>2. /\ Sound(v) /\ v \in State /\ v.uiToken <= ops + 1 /\ v.uiToken \in Nat /\ ops \in Nat
      /\ (\E n \in Nat : Few(v, n)) /\ v.running = Nobody
      /\ s \notin twice => Queued(v)
  BY OfOne DEF Quiet, Busy
<1>3. PICK n \in Nat : Few(v, n)
  BY <1>2
<1>4. inbox' \in [Services -> Seq(Events)] /\ source \in Services /\ TypeOK
  BY TakesEvent DEF CoreInv
<1>5. gone \subseteq Call_
  BY <1>2, DropsTyped DEF State
<1> HIDE DEF v, source, w, gone
<1>6. /\ Sound(x) /\ (Queued(v) => Queued(x)) /\ (\E m \in Nat : Few(x, m))
      /\ x.running \in Cos /\ x.cancelQ = v.cancelQ /\ x.uiToken = v.uiToken /\ x.watching = v.watching
  BY <1>2, <1>3, StartedOK
<1>7. PICK m \in Nat : Few(x, m)
  BY <1>6
<1> HIDE DEF x, y
<1>8. order \in Orders(x, source)
  BY <1>6 DEF Orders, Watched
<1>9. /\ Sound(y) /\ Few(y, m) /\ y.running = x.running /\ y.uiToken = x.uiToken
      /\ Queued(x) /\ (\A i \in DOMAIN order : ~Contains(x.cancelQ, order[i])) => Queued(y)
  BY <1>4, <1>6, <1>7, <1>8, Names, CloseDispatchOK DEF y
<1>10. /\ Sound(w) /\ (Queued(y) => Queued(w)) /\ Serving(w) /\ (\E k \in Nat : Few(w, k))
       /\ w.uiToken = y.uiToken
  BY <1>6, <1>9, EndedOK DEF w
<1>11. /\ twice \subseteq twice'
       /\ s \notin twice' => s \notin twice /\ \A i \in DOMAIN order : ~Contains(v.cancelQ, order[i])
  BY <1>1
<1>12. s \notin twice' => Queued(w)
  BY <1>2, <1>6, <1>9, <1>10, <1>11
<1>13. ops' = ops /\ ops' \in Nat /\ ops <= ops'
  BY <1>2
<1>14. NextTables(s, w)
  BY <1>2, <1>6, <1>9, <1>10, <1>12, <1>13 DEF NextTables
<1>15. /\ status' \in [Services -> {"running", "exiting", "stopped"}]
       /\ armed' \in [Services -> SUBSET Tokens]
       /\ dropped' \subseteq Call_ /\ cancelled' \subseteq Call_ /\ twice' \subseteq Services
  BY <1>1, <1>4, <1>5 DEF TypeOK
<1>16. Tables(s, w)
  BY <1>1 DEF w, y
<1>17. QED BY <1>4, <1>11, <1>13, <1>14, <1>15, <1>16, ServesTyped

\* The service stops.
LEMMA StopServes ==
  ASSUME CoreInv, NEW s \in Services, inbox[s] # <<>>, Stop(s),
         inbox' = [inbox EXCEPT ![s] = Tail(@)], UNCHANGED ops
  PROVE  CoreInv'
<1> DEFINE w == [Fresh EXCEPT !.at = [c \in Cos |-> "none"], !.tokenTo = [t \in Tokens |-> Nobody]]
           gone == (UNION {Owes(s, c) : c \in Cos}) \union core[s].responses
<1>1. /\ status' = [status EXCEPT ![s] = "stopped"] /\ Tables(s, w) /\ armed' = [armed EXCEPT ![s] = {}]
      /\ dropped' = dropped \union gone /\ UNCHANGED <<cancelled, twice>>
  BY DEF Stop
<1>2. Sound(w) /\ Queued(w) /\ Serving(w) /\ Few(w, 1) /\ w.uiToken = 1
  BY FreshOK
<1>3. TypeOK /\ inbox' \in [Services -> Seq(Events)] /\ ops \in Nat
  BY TakesEvent DEF CoreInv, TypeOK
<1>4. gone \subseteq Call_
  <2>1. ASSUME NEW o \in gone PROVE o \in Call_
    <3>1. o \in core[s].responses \/ \E c \in Cos : o \in Owes(s, c)
      BY <2>1
    <3>2. 1 \in Cos
      BY CosAssumption
    <3>3. QED BY <3>1, <3>2, <1>3, OwedTyped
  <2>2. QED BY <2>1
<1> HIDE DEF w, gone
<1>5. /\ status' \in [Services -> {"running", "exiting", "stopped"}]
      /\ armed' \in [Services -> SUBSET Tokens]
      /\ dropped' \subseteq Call_ /\ cancelled' \subseteq Call_ /\ twice' \subseteq Services
      /\ twice \subseteq twice' /\ ops' = ops /\ ops' \in Nat /\ ops <= ops'
  BY <1>1, <1>3, <1>4 DEF TypeOK
<1>6. w.uiToken <= ops' + 1
  BY <1>2, <1>5
<1>7. NextTables(s, w)
  BY <1>2, <1>6 DEF NextTables
<1>8. QED BY <1>1, <1>3, <1>5, <1>7, ServesTyped

\* serviceCore.dispatch
LEMMA DispatchServes ==
  ASSUME CoreInv, Unlimited, NEW s \in Services, Dispatch(s)
  PROVE  CoreInv'
<1> DEFINE e == Head(inbox[s])
           rest == [inbox EXCEPT ![s] = Tail(@)]
<1>1. Quiet(s) /\ inbox[s] # <<>> /\ UNCHANGED ops
  BY DEF Dispatch
<1>2. \/ e.ev = "answer" /\ Answer(s, e) /\ inbox' = rest /\ UNCHANGED <<status, armed>>
      \/ e.ev \in {"call", "send"} /\ StartHandler(s, e) /\ UNCHANGED <<status, armed>>
      \/ /\ e.ev = "ping"
         /\ inbox' = Sent(rest, e.source, Event("answer", s, e.token))
         /\ UNCHANGED <<core, status, armed, dropped, cancelled, twice>>
      \/ e.ev = "close" /\ Close(s, e) /\ inbox' = rest /\ UNCHANGED <<status, armed>>
      \/ e.ev = "stop" /\ Stop(s) /\ inbox' = rest
  BY DEF Dispatch
<1>3. CASE e.ev = "answer" /\ Answer(s, e) /\ inbox' = rest /\ UNCHANGED <<status, armed>>
  BY <1>1, <1>3, AnswerServes
<1>4. CASE e.ev \in {"call", "send"} /\ StartHandler(s, e) /\ UNCHANGED <<status, armed>>
  BY <1>1, <1>4, StartHandlerServes
<1>5. CASE /\ e.ev = "ping"
           /\ inbox' = Sent(rest, e.source, Event("answer", s, e.token))
           /\ UNCHANGED <<core, status, armed, dropped, cancelled, twice>>
  <2>1. rest \in [Services -> Seq(Events)] /\ e.source \in Services /\ e.token \in Tokens
    BY <1>1, <1>5, TakesEvent
  <2> HIDE DEF rest, e
  <2>2. inbox' \in [Services -> Seq(Events)]
    BY <1>5, <2>1, EventTyped, SentTyped
  <2>3. TypeOK /\ ops' \in Nat /\ ops <= ops' /\ twice \subseteq twice'
    BY <1>1, <1>5 DEF CoreInv, TypeOK
  <2>4. core' \in [Services -> State] /\ \A q \in Services : InOrder(q)'
    BY <1>5, <2>3, NoneServes
  <2>5. TypeOK'
    BY <1>1, <1>5, <2>2, <2>3, <2>4 DEF TypeOK
  <2>6. QED BY <2>4, <2>5 DEF CoreInv
<1>6. CASE e.ev = "close" /\ Close(s, e) /\ inbox' = rest /\ UNCHANGED <<status, armed>>
  BY <1>1, <1>6, CloseServes
<1>7. CASE e.ev = "stop" /\ Stop(s) /\ inbox' = rest
  BY <1>1, <1>7, StopServes
<1>8. QED BY <1>2, <1>3, <1>4, <1>5, <1>6, <1>7

-----------------------------------------------------------------------------
(* The theorems *)

\* Every service has just started.
LEMMA InitServes == Init => CoreInv
<1> SUFFICES ASSUME Init PROVE CoreInv
  OBVIOUS
<1>1. /\ core = [s \in Services |-> Fresh]
      /\ inbox = [s \in Services |-> <<[ev |-> "answer", source |-> s, token |-> 1]>>]
      /\ status = [s \in Services |-> "running"] /\ armed = [s \in Services |-> {}]
      /\ ops = 0 /\ dropped = {} /\ cancelled = {} /\ twice = {}
  BY DEF Init
<1>2. Sound(Fresh) /\ Queued(Fresh) /\ Serving(Fresh) /\ Few(Fresh, 1) /\ Fresh.uiToken = 1
  BY FreshOK
<1>3. Fresh \in State
  BY <1>2 DEF Sound
<1>4. inbox \in [Services -> Seq(Events)]
  <2>1. 1 \in Tokens
    BY MaxOpsAssumption DEF Tokens
  <2>2. ASSUME NEW s \in Services PROVE <<[ev |-> "answer", source |-> s, token |-> 1]>> \in Seq(Events)
    <3>1. [ev |-> "answer", source |-> s, token |-> 1] \in Events
      BY <2>1 DEF Events
    <3>2. QED BY <3>1
  <2>3. QED BY <1>1, <2>2
<1>5. TypeOK
  BY <1>1, <1>3, <1>4 DEF TypeOK
<1>6. ASSUME NEW s \in Services PROVE InOrder(s)
  <2>1. core[s] = Fresh
    BY <1>1
  <2>2. core[s].uiToken <= ops + 1
    BY <1>1, <1>2, <2>1
  <2>3. QED BY <1>2, <2>1, <2>2 DEF InOrder
<1>7. QED BY <1>5, <1>6 DEF CoreInv

\* The invariant is inductive: one lemma for each action.
LEMMA NextServes ==
  ASSUME Unlimited
  PROVE  CoreInv /\ [Next]_vars => CoreInv'
<1> SUFFICES ASSUME CoreInv, [Next]_vars PROVE CoreInv'
  OBVIOUS
<1>1. CASE UNCHANGED vars
  <2>1. UNCHANGED <<core, inbox, status, armed, ops, dropped, cancelled, twice>>
    BY <1>1 DEF vars
  <2>2. TypeOK /\ ops' \in Nat /\ ops <= ops' /\ twice \subseteq twice'
    BY <2>1 DEF CoreInv, TypeOK
  <2>3. core' \in [Services -> State] /\ \A q \in Services : InOrder(q)'
    BY <2>1, <2>2, NoneServes
  <2>4. TypeOK'
    BY <2>1, <2>2 DEF TypeOK
  <2>5. QED BY <2>3, <2>4 DEF CoreInv
<1>2. ASSUME NEW s \in Services, UserCode(s) PROVE CoreInv'
  <2>1. ASSUME NEW to \in Addresses, NEW kind \in {"call", "ping"}, Call(s, to, kind) PROVE CoreInv'
    BY <2>1, CallServes
  <2>2. ASSUME NEW to \in Services, Send(s, to) PROVE CoreInv'
    BY <2>2, SendServes
  <2>3. ASSUME NEW to \in Services, Redirect(s, to) PROVE CoreInv'
    BY <2>3, RedirectServes
  <2>4. ASSUME NEW to \in Addresses, Term(s, to) PROVE CoreInv'
    BY <2>4, TermServes
  <2>5. CASE Reply(s)
    BY <2>5, ReplyServes
  <2>6. CASE ReplyClose(s)
    BY <2>6, ReplyCloseServes
  <2>7. CASE GenResponse(s)
    BY <2>7, GenResponseServes
  <2>8. ASSUME NEW r \in core[s].responses, NEW ok \in BOOLEAN, Respond(s, r, ok) PROVE CoreInv'
    BY <2>8, RespondServes
  <2>9. ASSUME NEW why \in {"sleep", "wait", "await"}, Sleep(s, why) PROVE CoreInv'
    BY <2>9, SleepServes
  <2>10. ASSUME NEW c \in Cos, Wakeup(s, c) PROVE CoreInv'
    BY <2>10, WakeupServes
  <2>11. CASE Async(s)
    BY <2>11, AsyncServes
  <2>12. CASE Timeout(s)
    BY <2>12, TimeoutServes
  <2>13. CASE Exit(s)
    BY <2>13, ExitServes
  <2>14. CASE Return(s)
    BY <2>14, ReturnServes
  <2>15. CASE Fail(s)
    BY <2>15, FailServes
  <2>16. QED BY <1>2, <2>1, <2>2, <2>3, <2>4, <2>5, <2>6, <2>7, <2>8, <2>9, <2>10, <2>11, <2>12,
                <2>13, <2>14, <2>15 DEF UserCode
<1>3. ASSUME NEW s \in Services, ServiceRuns(s) PROVE CoreInv'
  <2>1. CASE Dispatch(s)
    BY <2>1, DispatchServes
  <2>2. CASE RunAsync(s)
    BY <2>2, RunAsyncServes
  <2>3. CASE Wake(s)
    BY <2>3, WakeServes
  <2>4. CASE Cancel(s)
    BY <2>4, CancelServes
  <2>5. QED BY <1>3, <1>2, <2>1, <2>2, <2>3, <2>4 DEF ServiceRuns
<1>4. ASSUME NEW s \in Services, NEW t \in Tokens, Fires(s, t) PROVE CoreInv'
  BY <1>4, FiresServes
<1>5. QED BY <1>1, <1>3, <1>4 DEF Next

\* In every state each event names a service and a token, a token that leads to a
\* coroutine leads to one that waits for it, calls and sleepers are where their tables
\* say, and what is queued to be woken or cancelled is asleep or a call: whatever the
\* user code of the services does (tokenToCoroutine_t, watchingTokenToAddress_t,
\* sleepCoroutineToToken_t, coroutineReuse_t, asyncQueue_t of serviceCore.lua).
THEOREM TablesInOrder ==
  ASSUME Unlimited
  PROVE  Spec => []CoreInv
<1>1. Init => CoreInv
  BY InitServes
<1>2. CoreInv /\ [Next]_vars => CoreInv'
  BY NextServes
<1>3. QED BY <1>1, <1>2, PTL DEF Spec

\* When a service has finished with an event nothing is left in wakeupQueue_t or in
\* cancelWatchingQueue_t, whatever coroutines failed meanwhile, unless a coroutine or a
\* token was queued twice (suspend_f, dispatch_wakeup_f, dispatch_watching_cancel_f).
THEOREM QueuesAreServed ==
  ASSUME Unlimited
  PROVE  Spec => []QueuesServed
<1>1. Spec => []CoreInv
  BY TablesInOrder
<1>2. CoreInv => QueuesServed
  BY QuietServed DEF QueuesServed
<1>3. QED BY <1>1, <1>2, PTL
=============================================================================
