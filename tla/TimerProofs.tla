----------------------------- MODULE TimerProofs -----------------------------
(***************************************************************************)
(* Theorems about Timer for every number of timers and for both ways the   *)
(* loop can run: the two reference counts are exact, a timer that was      *)
(* stopped calls nobody back, one that fires once does so once, and a      *)
(* timeout is not freed before it was delivered.                           *)
(***************************************************************************)
EXTENDS Timer, FiniteSetTheorems, FunctionTheorems, SequenceTheorems, TLAPS

-----------------------------------------------------------------------------
(* The inductive invariant. *)

Items == [op : {"start", "stop"}, timer : Timers]
Steps == {"fn", "close", "release"} \X Timers

TypeOK ==
  /\ single \in BOOLEAN /\ bLoopRunning \in BOOLEAN
  /\ returned \in BOOLEAN /\ running \in BOOLEAN
  /\ kind \in [Timers -> {"none", "timeout", "after", "every"}]
  /\ zero \in [Timers -> BOOLEAN]
  /\ handle \in [Timers -> {"none", "held", "dropped"}]
  /\ pEventTimer \in [Timers -> BOOLEAN]
  /\ watcherRefs \in [Timers -> Int]
  /\ timerRefs \in [Timers -> Int]
  /\ bRunning \in [Timers -> BOOLEAN]
  /\ bActive \in [Timers -> BOOLEAN]
  /\ heap \subseteq Timers
  /\ queue \in Seq(Items) /\ inline \in Items \cup {NoItem}
  /\ todo \in Seq(Steps)
  /\ mailbox \in Seq(Timers) /\ current \in Timers \cup {None} /\ calling \in BOOLEAN
  /\ pc \in {"idle", "insert", "drop", "release"} /\ arg \in Timers \cup {None}
  /\ closes \in [Timers -> Nat]
  /\ delivered \subseteq Timers

\* Where the service is in ltimerWatcher_stop says what it holds, and a callback
\* is the first thing the dispatching thread does of what it has left to do.
StopInv ==
  /\ pc = "idle" <=> arg = None
  /\ pc \in {"insert", "drop"} => handle[arg] = "held"
  /\ pc = "release" => \/ kind[arg] = "timeout"
                       \/ handle[arg] = "held" /\ ~pEventTimer[arg]
  /\ calling => current # None
  /\ \A i \in DOMAIN todo : todo[i][1] = "fn" => i = 1

\* A timer that was not asked for is nowhere.
Untouched(t) ==
  kind[t] = "none" =>
    /\ handle[t] = "none" /\ ~pEventTimer[t] /\ t \notin heap /\ closes[t] = 0
    /\ arg # t /\ current # t /\ t \notin delivered
    /\ Count(mailbox, t) = 0 /\ Pending("start", t) = 0 /\ Pending("stop", t) = 0
    /\ Count(todo, <<"fn", t>>) = 0 /\ Count(todo, <<"close", t>>) = 0
    /\ Count(todo, <<"release", t>>) = 0

\* The service's handle and its pointer to the eventTimer.
HandleKept(t) ==
  /\ kind[t] = "timeout" => handle[t] = "dropped" /\ Pending("stop", t) = 0
  /\ handle[t] = "held" /\ ~(pc = "release" /\ arg = t) => pEventTimer[t]
  /\ pEventTimer[t] => handle[t] = "held" \/ kind[t] = "timeout"
  /\ kind[t] = "timeout" /\ watcherRefs[t] # 0 => pEventTimer[t]

\* A timer is started, waits in the heap and is closed once, and calls nobody
\* back after that.
ClosedOnce(t) ==
  /\ bActive[t] <=> t \in heap
  /\ zero[t] => t \notin heap
  /\ Pending("start", t) + One(t \in heap) + Count(todo, <<"close", t>>) + closes[t] <= 1
  /\ Count(todo, <<"fn", t>>) > 0 => closes[t] = 0

RefsCounted(t) ==
  /\ watcherRefs[t] = WatcherHolders(t)
  /\ timerRefs[t] = TimerHolders(t)

\* A timer that fires once is on its way to its callback once.
FiredOnce(t) ==
  bOnce(t) \/ zero[t] =>
    Pending("start", t) + One(t \in heap) + Count(todo, <<"fn", t>>) + Count(mailbox, t)
      + One(t \in delivered) <= 1

\* A timeout that is closed has been delivered, or still will be.
TimeoutKept(t) ==
  kind[t] = "timeout" =>
    /\ Pending("start", t) + One(t \in heap) > 0 => bRunning[t]
    /\ Count(todo, <<"close", t>>) + closes[t] > 0 /\ running =>
         Count(todo, <<"fn", t>>) + Count(mailbox, t) + One(t \in delivered) > 0

TimerInv(t) ==
  /\ Untouched(t) /\ HandleKept(t) /\ ClosedOnce(t)
  /\ RefsCounted(t) /\ FiredOnce(t) /\ TimeoutKept(t)

Inv == TypeOK /\ StopInv /\ \A t \in Timers : TimerInv(t)

-----------------------------------------------------------------------------
(* Counting the occurrences of an element in a sequence. *)

Places(s, x) == {i \in DOMAIN s : s[i] = x}

LEMMA CountType ==
  ASSUME NEW S, NEW s \in Seq(S), NEW x
  PROVE  /\ IsFiniteSet(Places(s, x)) /\ Count(s, x) \in Nat
         /\ Count(s, x) = Cardinality(Places(s, x))
<1>1. Places(s, x) \in SUBSET (1..Len(s)) /\ Len(s) \in Nat
  BY DEF Places
<1>2. IsFiniteSet(1..Len(s))
  BY <1>1, FS_Interval
<1>3. IsFiniteSet(Places(s, x))
  BY <1>1, <1>2, FS_Subset
<1> QED BY <1>3, FS_CardinalityType DEF Count, Places

LEMMA CountEmpty == ASSUME NEW x PROVE Count(<<>>, x) = 0
<1>1. {i \in DOMAIN <<>> : <<>>[i] = x} = {}
  OBVIOUS
<1> QED BY <1>1, FS_EmptySet DEF Count

LEMMA CountPositive ==
  ASSUME NEW S, NEW s \in Seq(S), s # <<>>
  PROVE  Count(s, Head(s)) > 0
<1>1. 1 \in Places(s, Head(s))
  BY DEF Places
<1>2. Cardinality(Places(s, Head(s))) # 0
  BY <1>1, CountType, FS_EmptySet
<1>3. Count(s, Head(s)) = Cardinality(Places(s, Head(s)))
  BY DEF Count, Places
<1> QED BY <1>2, <1>3, CountType

LEMMA CountAppend ==
  ASSUME NEW S, NEW s \in Seq(S), NEW e \in S, NEW x
  PROVE  Count(Append(s, e), x) = Count(s, x) + One(e = x)
<1> DEFINE n == Len(s) + 1
<1>1. /\ Len(s) \in Nat /\ Append(s, e) \in Seq(S) /\ Len(Append(s, e)) = n
      /\ Append(s, e)[n] = e
      /\ \A i \in 1..Len(s) : Append(s, e)[i] = s[i]
  OBVIOUS
<1>2. /\ IsFiniteSet(Places(s, x)) /\ Count(s, x) \in Nat
      /\ Count(s, x) = Cardinality(Places(s, x))
      /\ Count(Append(s, e), x) = Cardinality(Places(Append(s, e), x))
  BY <1>1, CountType
<1>5. n \notin Places(s, x)
  BY <1>1 DEF Places
<1>3. CASE e = x
  <2>1. Places(Append(s, e), x) = Places(s, x) \cup {n}
    BY <1>1, <1>3 DEF Places
  <2>2. Cardinality(Places(Append(s, e), x)) = Cardinality(Places(s, x)) + 1
    BY <1>2, <1>5, <2>1, FS_AddElement
  <2> QED BY <1>2, <1>3, <2>2 DEF One
<1>4. CASE e # x
  <2>1. Places(Append(s, e), x) = Places(s, x)
    BY <1>1, <1>4 DEF Places
  <2> QED BY <1>2, <1>4, <2>1 DEF One
<1> QED BY <1>3, <1>4

LEMMA CountTail ==
  ASSUME NEW S, NEW s \in Seq(S), s # <<>>, NEW x
  PROVE  Count(Tail(s), x) = Count(s, x) - One(Head(s) = x)
<1> DEFINE T == Places(Tail(s), x)
           P == Places(s, x) \ {1}
           shift == [i \in T |-> i + 1]
<1>1. /\ Len(s) \in Nat /\ Len(s) > 0 /\ Tail(s) \in Seq(S) /\ Len(Tail(s)) = Len(s) - 1
      /\ Head(s) = s[1]
      /\ \A i \in 1..Len(Tail(s)) : Tail(s)[i] = s[i + 1]
  OBVIOUS
<1>2. T \subseteq Nat /\ \A i \in T : i \in 1..(Len(s) - 1) /\ s[i + 1] = x
  BY <1>1 DEF Places
<1>3. \A i \in 1..(Len(s) - 1) : s[i + 1] = x => i \in T
  BY <1>1 DEF Places
<1>4. \A j \in P : j - 1 \in T /\ (j - 1) + 1 = j
  <2> TAKE j \in P
  <2>1. j \in 1..Len(s) /\ s[j] = x /\ j # 1
    BY DEF Places
  <2>2. j - 1 \in 1..(Len(s) - 1) /\ (j - 1) + 1 = j
    BY <1>1, <2>1
  <2> QED BY <1>3, <2>1, <2>2
<1>5. \A i \in T : i + 1 \in P
  BY <1>1, <1>2 DEF Places
<1> HIDE DEF T, P
<1>6. shift \in [T -> P] /\ DOMAIN shift = T /\ \A i \in T : shift[i] = i + 1
  BY <1>5
<1>7. \A i, j \in T : shift[i] = shift[j] => i = j
  BY <1>2, <1>6
<1>8. \A j \in P : \E i \in T : shift[i] = j
  BY <1>4, <1>6
<1> HIDE DEF shift
<1>9. shift \in Bijection(T, P)
  BY <1>6, <1>7, <1>8 DEF Bijection, Injection, Surjection, IsInjective
<1>10. IsFiniteSet(T) /\ Cardinality(P) = Cardinality(T)
  <2>1. IsFiniteSet(T)
    BY <1>1, CountType DEF T
  <2> QED BY <1>9, <2>1, FS_Bijection DEF ExistsBijection
<1>11. Cardinality(P) = IF Head(s) = x THEN Cardinality(Places(s, x)) - 1 ELSE Cardinality(Places(s, x))
  <2>1. 1 \in Places(s, x) <=> Head(s) = x
    BY <1>1 DEF Places
  <2> QED BY <2>1, CountType, FS_RemoveElement DEF P
<1>12. Count(s, x) = Cardinality(Places(s, x)) /\ Count(Tail(s), x) = Cardinality(T)
  BY DEF Count, Places, T
<1> QED BY <1>10, <1>11, <1>12, CountType DEF One

UpTo(s, n, x) == {i \in 1..n : s[i] = x}

LEMMA OneMore ==
  ASSUME NEW s, NEW n \in Nat, NEW x
  PROVE  /\ IsFiniteSet(UpTo(s, n, x)) /\ Cardinality(UpTo(s, n, x)) \in Nat
         /\ Cardinality(UpTo(s, n + 1, x)) = Cardinality(UpTo(s, n, x)) + One(s[n + 1] = x)
<1>1. IsFiniteSet(UpTo(s, n, x)) /\ Cardinality(UpTo(s, n, x)) \in Nat
  <2>1. UpTo(s, n, x) \in SUBSET (1..n)
    BY DEF UpTo
  <2>2. IsFiniteSet(1..n)
    BY FS_Interval
  <2> QED BY <2>1, <2>2, FS_Subset, FS_CardinalityType
<1>2. n + 1 \notin UpTo(s, n, x)
  BY DEF UpTo
<1>3. 1..(n + 1) = (1..n) \cup {n + 1}
  OBVIOUS
<1>4. CASE s[n + 1] = x
  <2>1. UpTo(s, n + 1, x) = UpTo(s, n, x) \cup {n + 1}
    BY <1>3, <1>4 DEF UpTo
  <2>2. Cardinality(UpTo(s, n, x) \cup {n + 1}) = Cardinality(UpTo(s, n, x)) + 1
    BY <1>1, <1>2, FS_AddElement
  <2> QED BY <1>1, <1>4, <2>1, <2>2 DEF One
<1>5. CASE s[n + 1] # x
  <2>1. UpTo(s, n + 1, x) = UpTo(s, n, x)
    BY <1>3, <1>5 DEF UpTo
  <2> QED BY <1>1, <1>5, <2>1 DEF One
<1> QED BY <1>4, <1>5

\* What Do makes of up to three steps.
LEMMA CountSteps ==
  ASSUME NEW s, NEW x
  PROVE  /\ DOMAIN s = 1..0 => Count(s, x) = 0
         /\ DOMAIN s = 1..1 => Count(s, x) = One(s[1] = x)
         /\ DOMAIN s = 1..2 => Count(s, x) = One(s[1] = x) + One(s[2] = x)
         /\ DOMAIN s = 1..3 => Count(s, x) = One(s[1] = x) + One(s[2] = x) + One(s[3] = x)
<1>1. \A n \in Nat : DOMAIN s = 1..n => Count(s, x) = Cardinality(UpTo(s, n, x))
  BY DEF Count, UpTo
<1>2. Cardinality(UpTo(s, 0, x)) = 0
  <2>1. UpTo(s, 0, x) = {}
    BY DEF UpTo
  <2> QED BY <2>1, FS_EmptySet
<1>3. Cardinality(UpTo(s, 1, x)) = One(s[1] = x)
  <2>1. Cardinality(UpTo(s, 0 + 1, x)) = Cardinality(UpTo(s, 0, x)) + One(s[0 + 1] = x)
    BY OneMore
  <2> QED BY <1>2, <2>1 DEF One
<1>4. Cardinality(UpTo(s, 2, x)) = One(s[1] = x) + One(s[2] = x)
  <2>1. Cardinality(UpTo(s, 1 + 1, x)) = Cardinality(UpTo(s, 1, x)) + One(s[1 + 1] = x)
    BY OneMore
  <2> QED BY <1>3, <2>1
<1>5. Cardinality(UpTo(s, 3, x)) = One(s[1] = x) + One(s[2] = x) + One(s[3] = x)
  <2>1. Cardinality(UpTo(s, 2 + 1, x)) = Cardinality(UpTo(s, 2, x)) + One(s[2 + 1] = x)
    BY OneMore
  <2> QED BY <1>4, <2>1
<1> QED BY <1>1, <1>2, <1>3, <1>4, <1>5

LEMMA CountThree ==
  ASSUME NEW s, NEW x, DOMAIN s = 1..3
  PROVE  Count(s, x) = One(s[1] = x) + One(s[2] = x) + One(s[3] = x)
BY CountSteps DEF One

LEMMA CountOne ==
  ASSUME NEW s, NEW x, DOMAIN s = 1..1
  PROVE  Count(s, x) = One(s[1] = x)
BY CountSteps DEF One

Same(e, x) == IF e = x THEN 1 ELSE 0

LEMMA DoNothing ==
  ASSUME NEW t, NEW x, Do(t, <<>>)
  PROVE  Count(todo', x) = 0 /\ todo' = <<>>
BY CountEmpty DEF Do

LEMMA DoOne ==
  ASSUME NEW t, NEW a, NEW x, Do(t, <<a>>)
  PROVE  Count(todo', x) = Same(<<a, t>>, x)
<1>1. DOMAIN todo' = {1} /\ todo'[1] = <<a, t>>
  BY DEF Do
<1>2. DOMAIN todo' = 1..1
  BY <1>1
<1>3. Count(todo', x) = One(todo'[1] = x)
  BY <1>2, CountOne
<1> QED BY <1>1, <1>3 DEF One, Same

LEMMA DoTwo ==
  ASSUME NEW t, NEW a, NEW b, NEW x, Do(t, <<a, b>>)
  PROVE  Count(todo', x) = Same(<<a, t>>, x) + Same(<<b, t>>, x)
<1>1. DOMAIN todo' = 1..2 /\ todo'[1] = <<a, t>> /\ todo'[2] = <<b, t>>
  BY DEF Do
<1>2. Count(todo', x) = One(todo'[1] = x) + One(todo'[2] = x)
  BY <1>1, CountSteps
<1> QED BY <1>1, <1>2 DEF One, Same

LEMMA DoThree ==
  ASSUME NEW t, NEW a, NEW b, NEW c, NEW x, Do(t, <<a, b, c>>)
  PROVE  Count(todo', x) = Same(<<a, t>>, x) + Same(<<b, t>>, x) + Same(<<c, t>>, x)
<1>1. /\ DOMAIN todo' = 1..3
      /\ todo'[1] = <<a, t>> /\ todo'[2] = <<b, t>> /\ todo'[3] = <<c, t>>
  BY DEF Do
<1>2. Count(todo', x) = One(todo'[1] = x) + One(todo'[2] = x) + One(todo'[3] = x)
  BY <1>1, CountThree
<1> QED BY <1>1, <1>2 DEF One, Same

\* A sequence in which x does not occur.
LEMMA CountNone ==
  ASSUME NEW s, NEW x, \A i \in DOMAIN s : s[i] # x
  PROVE  Count(s, x) = 0
<1>1. {i \in DOMAIN s : s[i] = x} = {}
  OBVIOUS
<1> QED BY <1>1, FS_EmptySet DEF Count

LEMMA CountsAreNat ==
  ASSUME TypeOK
  PROVE  /\ \A x : Count(queue, x) \in Nat /\ Count(mailbox, x) \in Nat /\ Count(todo, x) \in Nat
         /\ \A op, t : Pending(op, t) \in Nat
<1>1. \A x : Count(queue, x) \in Nat /\ Count(mailbox, x) \in Nat /\ Count(todo, x) \in Nat
  BY CountType DEF TypeOK
<1>2. ASSUME NEW op, NEW t
      PROVE  Pending(op, t) \in Nat
  <2>1. Count(queue, [op |-> op, timer |-> t]) \in Nat
    BY <1>1
  <2> QED BY <2>1 DEF Pending, One
<1> QED BY <1>1, <1>2

\* What a start or a stop adds to what is pending, and what handling it takes.
LEMMA PendingMore ==
  ASSUME TypeOK, inline = NoItem, NEW item \in Items, RunInLoop(item)
  PROVE  /\ \A op, t : Pending(op, t)' = Pending(op, t) + One(item = [op |-> op, timer |-> t])
         /\ queue' \in Seq(Items) /\ inline' \in Items \cup {NoItem}
<1>1. ASSUME NEW op, NEW t
      PROVE  Pending(op, t)' = Pending(op, t) + One(item = [op |-> op, timer |-> t])
  <2> DEFINE x == [op |-> op, timer |-> t]
  <2>1. NoItem # x
    BY DEF NoItem
  <2>2. Count(queue, x) \in Nat /\ queue \in Seq(Items)
    BY CountsAreNat DEF TypeOK
  <2>3. CASE single
    <3>1. inline' = item /\ queue' = queue
      BY <2>3 DEF RunInLoop
    <3>2. Pending(op, t)' = Count(queue, x) + One(item = x)
      BY <3>1 DEF Pending
    <3>3. Pending(op, t) = Count(queue, x) + 0
      BY <2>1 DEF Pending, One
    <3> QED BY <2>2, <3>2, <3>3
  <2>4. CASE ~single
    <3>1. inline' = NoItem /\ queue' = Append(queue, item)
      BY <2>4 DEF RunInLoop
    <3>2. Count(queue', x) = Count(queue, x) + One(item = x)
      BY <2>2, <3>1, CountAppend
    <3>3. Pending(op, t)' = Count(queue', x) + 0
      BY <2>1, <3>1 DEF Pending, One
    <3>4. Pending(op, t) = Count(queue, x) + 0
      BY <2>1 DEF Pending, One
    <3> QED BY <2>2, <3>2, <3>3, <3>4 DEF One
  <2> QED BY <2>3, <2>4
<1>2. queue' \in Seq(Items) /\ inline' \in Items \cup {NoItem}
  <2>1. queue \in Seq(Items)
    BY DEF TypeOK
  <2>2. CASE single
    BY <2>1, <2>2 DEF RunInLoop
  <2>3. CASE ~single
    BY <2>1, <2>3 DEF RunInLoop
  <2> QED BY <2>2, <2>3
<1> QED BY <1>1, <1>2

LEMMA PendingLess ==
  ASSUME TypeOK, queue # <<>>, queue' = Tail(queue), inline' = inline
  PROVE  \A op, t : /\ Pending(op, t)' = Pending(op, t) - One(Head(queue) = [op |-> op, timer |-> t])
                    /\ Head(queue) = [op |-> op, timer |-> t] => Pending(op, t) > 0
<1> TAKE op, t
<1> DEFINE x == [op |-> op, timer |-> t]
<1>1. Count(queue', x) = Count(queue, x) - One(Head(queue) = x) /\ Count(queue, x) \in Nat
  BY CountTail, CountsAreNat, ZenonT(40) DEF TypeOK
<1>2. Pending(op, t)' = Count(queue', x) + One(inline = x)
  BY DEF Pending
<1>3. Pending(op, t) = Count(queue, x) + One(inline = x)
  BY DEF Pending
<1> HIDE DEF x
<1>4. One(inline = x) \in Nat /\ One(Head(queue) = x) \in Nat
  BY DEF One
<1>5. Head(queue) = x => Count(queue, x) > 0
  BY CountPositive DEF TypeOK
<1> QED BY <1>1, <1>2, <1>3, <1>4, <1>5 DEF x

LEMMA PendingDone ==
  ASSUME TypeOK, queue' = queue, inline' = NoItem
  PROVE  \A op, t : /\ Pending(op, t)' = Pending(op, t) - One(inline = [op |-> op, timer |-> t])
                    /\ inline = [op |-> op, timer |-> t] => Pending(op, t) > 0
<1> TAKE op, t
<1> DEFINE x == [op |-> op, timer |-> t]
<1>1. NoItem # x /\ Count(queue, x) \in Nat
  BY CountsAreNat DEF NoItem
<1>2. Pending(op, t)' = Count(queue, x) + 0
  BY <1>1 DEF Pending, One
<1>3. Pending(op, t) = Count(queue, x) + One(inline = x)
  BY DEF Pending
<1> HIDE DEF x
<1>4. One(inline = x) \in Nat /\ (inline = x => One(inline = x) = 1)
  BY DEF One
<1> QED BY <1>1, <1>2, <1>3, <1>4 DEF x

\* Two items, and two steps, are the same if their parts are.
LEMMA SameItem ==
  ASSUME NEW item \in Items, NEW op, NEW t
  PROVE  item = [op |-> op, timer |-> t] <=> item.op = op /\ item.timer = t
BY DEF Items

\* The timers that a step does not concern keep what is said of them.
LEMMA Unconcerned ==
  ASSUME NEW t \in Timers, TimerInv(t), StopInv,
         /\ kind'[t] = kind[t] /\ zero'[t] = zero[t] /\ handle'[t] = handle[t]
         /\ pEventTimer'[t] = pEventTimer[t]
         /\ watcherRefs'[t] = watcherRefs[t] /\ timerRefs'[t] = timerRefs[t]
         /\ bRunning'[t] = bRunning[t] /\ bActive'[t] = bActive[t]
         /\ (t \in heap' <=> t \in heap)
         /\ closes'[t] = closes[t] /\ (t \in delivered' <=> t \in delivered)
         /\ (arg' = t <=> arg = t) /\ (current' = t <=> current = t)
         /\ (arg = t => pc' = pc)
         /\ (running' => running)
         /\ Pending("start", t)' = Pending("start", t) /\ Pending("stop", t)' = Pending("stop", t)
         /\ Count(mailbox', t) = Count(mailbox, t)
         /\ \A s \in {"fn", "close", "release"} : Count(todo', <<s, t>>) = Count(todo, <<s, t>>)
  PROVE  TimerInv(t)'
<1>1. /\ Count(todo', <<"fn", t>>) = Count(todo, <<"fn", t>>)
      /\ Count(todo', <<"close", t>>) = Count(todo, <<"close", t>>)
      /\ Count(todo', <<"release", t>>) = Count(todo, <<"release", t>>)
  OBVIOUS
<1>2. Untouched(t)'
  BY <1>1 DEF TimerInv, Untouched
<1>3. HandleKept(t)'
  BY <1>1 DEF TimerInv, HandleKept
<1>4. ClosedOnce(t)'
  BY <1>1 DEF TimerInv, ClosedOnce, One
<1>5. RefsCounted(t)'
  BY <1>1 DEF TimerInv, RefsCounted, WatcherHolders, TimerHolders, One
<1>6. FiredOnce(t)'
  BY <1>1 DEF TimerInv, FiredOnce, bOnce, One
<1>7. TimeoutKept(t)'
  BY <1>1 DEF TimerInv, TimeoutKept, One
<1> QED BY <1>2, <1>3, <1>4, <1>5, <1>6, <1>7 DEF TimerInv

-----------------------------------------------------------------------------
(* Every step of the service's thread keeps the invariant. *)

LEMMA InitInv == ASSUME Init PROVE Inv
<1>1. TypeOK
  <2>1. /\ heap \subseteq Timers /\ delivered \subseteq Timers
        /\ queue \in Seq(Items) /\ todo \in Seq(Steps) /\ mailbox \in Seq(Timers)
    BY DEF Init
  <2>2. /\ kind \in [Timers -> {"none", "timeout", "after", "every"}]
        /\ zero \in [Timers -> BOOLEAN] /\ handle \in [Timers -> {"none", "held", "dropped"}]
        /\ pEventTimer \in [Timers -> BOOLEAN]
        /\ watcherRefs \in [Timers -> Int] /\ timerRefs \in [Timers -> Int]
    BY DEF Init
  <2>3. /\ bRunning \in [Timers -> BOOLEAN] /\ bActive \in [Timers -> BOOLEAN]
        /\ closes \in [Timers -> Nat]
    BY DEF Init
  <2>4. /\ single \in BOOLEAN /\ bLoopRunning \in BOOLEAN /\ returned \in BOOLEAN
        /\ running \in BOOLEAN /\ calling \in BOOLEAN /\ inline = NoItem
        /\ current = None /\ arg = None /\ pc = "idle"
    BY DEF Init
  <2> QED BY <2>1, <2>2, <2>3, <2>4 DEF TypeOK
<1>2. StopInv
  BY DEF Init, StopInv
<1>3. ASSUME NEW t \in Timers
      PROVE  TimerInv(t)
  <2>1. \A x : Count(queue, x) = 0 /\ Count(mailbox, x) = 0 /\ Count(todo, x) = 0
    BY CountEmpty DEF Init
  <2>2. \A op : Pending(op, t) = 0
    <3> TAKE op
    <3>1. inline # [op |-> op, timer |-> t]
      BY DEF Init, NoItem
    <3> QED BY <2>1, <3>1 DEF Pending, One
  <2>3. /\ kind[t] = "none" /\ handle[t] = "none" /\ ~pEventTimer[t] /\ zero[t] = FALSE
        /\ watcherRefs[t] = 0 /\ timerRefs[t] = 0 /\ ~bRunning[t] /\ ~bActive[t]
        /\ t \notin heap /\ t # current /\ t # arg /\ closes[t] = 0 /\ t \notin delivered
    BY NoneIsNoTimer DEF Init
  <2> QED
    BY <2>1, <2>2, <2>3 DEF TimerInv, Untouched, HandleKept, ClosedOnce, RefsCounted, FiredOnce,
      TimeoutKept, WatcherHolders, TimerHolders, One
<1> QED BY <1>1, <1>2, <1>3 DEF Inv

LEMMA StartKeepsInv ==
  ASSUME Inv, NEW t \in Timers, NEW k \in {"timeout", "after", "every"}, NEW z \in BOOLEAN,
         Start(t, k, z)
  PROVE  Inv'
<1> DEFINE item == [op |-> "start", timer |-> t]
<1>1. TypeOK /\ StopInv /\ \A u \in Timers : TimerInv(u)
  BY DEF Inv
<1>2. item \in Items /\ inline = NoItem
  BY DEF Items, Start, ServiceMay
<1>3. /\ \A op, u : Pending(op, u)' = Pending(op, u) + One(item = [op |-> op, timer |-> u])
      /\ queue' \in Seq(Items) /\ inline' \in Items \cup {NoItem}
  BY <1>1, <1>2, PendingMore DEF Start
<1>4. \A u \in Timers : /\ Pending("start", u)' = Pending("start", u) + One(u = t)
                        /\ Pending("stop", u)' = Pending("stop", u)
  <2> TAKE u \in Timers
  <2>1. Pending("start", u) \in Nat /\ Pending("stop", u) \in Nat
    BY <1>1, CountsAreNat
  <2>2. /\ (item = [op |-> "start", timer |-> u] <=> u = t)
        /\ item # [op |-> "stop", timer |-> u]
    OBVIOUS
  <2> HIDE DEF item
  <2> QED BY <1>3, <2>1, <2>2 DEF One
<1> HIDE DEF item
<1>5. TypeOK'
  BY <1>1, <1>3, SMTT(30) DEF TypeOK, Start, loopVars, history
<1>6. kind[t] = "none" /\ pc = "idle"
  BY DEF Start
<1>7. StopInv'
  BY <1>1, <1>6, NoneIsNoTimer DEF TypeOK, StopInv, Start
<1>8. TimerInv(t)'
  <2>1. /\ arg # t /\ current # t /\ t \notin delivered /\ t \notin heap /\ closes[t] = 0
        /\ Count(mailbox, t) = 0 /\ Pending("start", t) = 0 /\ Pending("stop", t) = 0
        /\ Count(todo, <<"fn", t>>) = 0 /\ Count(todo, <<"close", t>>) = 0
        /\ Count(todo, <<"release", t>>) = 0 /\ ~bActive[t]
    BY <1>1, <1>6 DEF TimerInv, Untouched, ClosedOnce
  <2>2. /\ arg' = (IF k = "timeout" THEN t ELSE arg) /\ pc' = (IF k = "timeout" THEN "release" ELSE pc)
        /\ current' = current /\ delivered' = delivered /\ heap' = heap /\ closes' = closes
        /\ mailbox' = mailbox /\ todo' = todo /\ bActive' = bActive
    BY DEF Start, history
  <2>3. /\ kind'[t] = k /\ zero'[t] = z /\ handle'[t] = (IF k = "timeout" THEN "dropped" ELSE "held")
        /\ watcherRefs'[t] = 2 /\ timerRefs'[t] = 2 /\ pEventTimer'[t] /\ bRunning'[t]
    BY <1>1 DEF Start, TypeOK
  <2>4. Pending("start", t)' = 1 /\ Pending("stop", t)' = 0
    BY <1>4, <2>1 DEF One
  <2>5. Untouched(t)' /\ HandleKept(t)' /\ ClosedOnce(t)'
    BY <1>6, <2>1, <2>2, <2>3, <2>4 DEF Untouched, HandleKept, ClosedOnce, One
  <2>6. RefsCounted(t)'
    <3>1. WatcherHolders(t)' = 2
      BY <1>6, <2>1, <2>2, <2>3 DEF WatcherHolders, One
    <3>2. TimerHolders(t)' = 2
      BY <1>6, <2>1, <2>2, <2>3, <2>4 DEF TimerHolders, One
    <3> QED BY <2>3, <3>1, <3>2 DEF RefsCounted
  <2>7. FiredOnce(t)' /\ TimeoutKept(t)'
    BY <2>1, <2>2, <2>3, <2>4 DEF FiredOnce, TimeoutKept, One
  <2> QED BY <2>5, <2>6, <2>7 DEF TimerInv
<1>9. ASSUME NEW u \in Timers, u # t
      PROVE  TimerInv(u)'
  <2>1. Pending("start", u)' = Pending("start", u) /\ Pending("stop", u)' = Pending("stop", u)
    BY <1>1, <1>4, <1>9, CountsAreNat DEF One
  <2>2. /\ kind'[u] = kind[u] /\ zero'[u] = zero[u] /\ handle'[u] = handle[u]
        /\ watcherRefs'[u] = watcherRefs[u] /\ timerRefs'[u] = timerRefs[u]
        /\ pEventTimer'[u] = pEventTimer[u] /\ bRunning'[u] = bRunning[u]
    BY <1>1, <1>9 DEF Start, TypeOK
  <2>3. /\ current' = current /\ delivered' = delivered /\ heap' = heap /\ closes' = closes
        /\ mailbox' = mailbox /\ todo' = todo /\ bActive' = bActive /\ running' = running
    BY DEF Start, history, loopVars
  <2>4. (arg' = u <=> arg = u) /\ (arg = u => pc' = pc)
    BY <1>1, <1>6, <1>9, NoneIsNoTimer DEF Start, StopInv
  <2> QED BY <1>1, <2>1, <2>2, <2>3, <2>4, Unconcerned
<1> QED BY <1>5, <1>7, <1>8, <1>9 DEF Inv

LEMMA PendingSame ==
  ASSUME queue' = queue, inline' = inline
  PROVE  \A op, t : Pending(op, t)' = Pending(op, t)
BY DEF Pending

LEMMA StopCasKeepsInv ==
  ASSUME Inv, NEW t \in Timers, StopCas(t)
  PROVE  Inv'
<1>1. TypeOK /\ StopInv /\ \A u \in Timers : TimerInv(u)
  BY DEF Inv
<1>2. /\ pc = "idle" /\ arg = None /\ handle[t] = "held" /\ arg' = t
      /\ pc' = (IF bRunning[t] THEN "insert" ELSE "drop")
      /\ bRunning' = [bRunning EXCEPT ![t] = FALSE]
      /\ timerRefs' = IF bRunning[t] THEN Add(timerRefs, t, 1) ELSE timerRefs
  <2>1. pc = "idle" /\ arg = None /\ handle[t] = "held" /\ arg' = t
    BY <1>1 DEF StopCas, StopInv
  <2>2. CASE bRunning[t]
    BY <2>1, <2>2 DEF StopCas
  <2>3. CASE ~bRunning[t]
    BY <1>1, <2>1, <2>3 DEF StopCas, TypeOK
  <2> QED BY <2>2, <2>3
<1>3. /\ UNCHANGED <<loopVars, watcherVars, bActive, heap, watcherRefs, pEventTimer, queue,
                     inline, todo, mailbox, current, calling, history>>
  BY DEF StopCas
<1>4. \A op, u : Pending(op, u)' = Pending(op, u) /\ Pending(op, u) \in Nat
  BY <1>1, <1>3, PendingSame, CountsAreNat
<1> USE DEF loopVars, watcherVars, history
<1>5. TypeOK'
  BY <1>1, <1>2, <1>3 DEF TypeOK, Add
<1>6. StopInv'
  BY <1>1, <1>2, <1>3, NoneIsNoTimer DEF TypeOK, StopInv
<1>7. TimerInv(t)'
  <2>1. /\ bRunning'[t] = FALSE
        /\ timerRefs'[t] = timerRefs[t] + One(bRunning[t])
    BY <1>1, <1>2 DEF TypeOK, Add, One
  <2>2. t # None /\ kind[t] # "timeout"
    BY <1>1, <1>2, NoneIsNoTimer DEF TimerInv, HandleKept
  <2>3. Untouched(t)' /\ HandleKept(t)' /\ ClosedOnce(t)'
    BY <1>1, <1>2, <1>3, <1>4, <2>2 DEF TimerInv, Untouched, HandleKept, ClosedOnce, One
  <2>4. watcherRefs'[t] = WatcherHolders(t)'
    BY <1>1, <1>2, <1>3, <2>2 DEF TimerInv, RefsCounted, WatcherHolders, One
  <2>5. timerRefs'[t] = TimerHolders(t)'
    <3>1. timerRefs[t] = TimerHolders(t)
      BY <1>1 DEF TimerInv, RefsCounted
    <3>2. Count(todo, <<"release", t>>) \in Nat
      BY <1>1, CountsAreNat
    <3> QED BY <1>2, <1>3, <1>4, <2>1, <2>2, <3>1, <3>2 DEF TimerHolders, One
  <2>6. FiredOnce(t)' /\ TimeoutKept(t)'
    BY <1>1, <1>2, <1>3, <1>4, <2>2 DEF TimerInv, FiredOnce, TimeoutKept, One, bOnce
  <2> QED BY <2>3, <2>4, <2>5, <2>6 DEF TimerInv, RefsCounted
<1>8. ASSUME NEW u \in Timers, u # t
      PROVE  TimerInv(u)'
  <2>1. timerRefs'[u] = timerRefs[u] /\ bRunning'[u] = bRunning[u]
    BY <1>1, <1>2, <1>8 DEF TypeOK, Add
  <2>2. arg' # u /\ arg # u
    BY <1>2, <1>8, NoneIsNoTimer
  <2> QED BY <1>1, <1>3, <1>4, <2>1, <2>2, Unconcerned
<1> QED BY <1>5, <1>6, <1>7, <1>8 DEF Inv

LEMMA StopInsertKeepsInv ==
  ASSUME Inv, StopInsert
  PROVE  Inv'
<1> DEFINE item == [op |-> "stop", timer |-> arg]
<1>1. TypeOK /\ StopInv /\ \A u \in Timers : TimerInv(u)
  BY DEF Inv
<1>2. pc = "insert" /\ pc' = "drop" /\ inline = NoItem /\ arg \in Timers /\ handle[arg] = "held"
  BY <1>1 DEF StopInsert, ServiceMay, StopInv, TypeOK
<1>3. item \in Items
  BY <1>2 DEF Items
<1>4. /\ \A op, u : Pending(op, u)' = Pending(op, u) + One(item = [op |-> op, timer |-> u])
      /\ queue' \in Seq(Items) /\ inline' \in Items \cup {NoItem}
  BY <1>1, <1>2, <1>3, PendingMore DEF StopInsert
<1>5. \A u \in Timers : /\ Pending("stop", u)' = Pending("stop", u) + One(u = arg)
                        /\ Pending("start", u)' = Pending("start", u)
                        /\ Pending("start", u) \in Nat /\ Pending("stop", u) \in Nat
  <2> TAKE u \in Timers
  <2>1. Pending("start", u) \in Nat /\ Pending("stop", u) \in Nat
    BY <1>1, CountsAreNat
  <2>2. /\ (item = [op |-> "stop", timer |-> u] <=> u = arg)
        /\ item # [op |-> "start", timer |-> u]
    OBVIOUS
  <2> HIDE DEF item
  <2> QED BY <1>4, <2>1, <2>2 DEF One
<1> HIDE DEF item
<1>6. UNCHANGED <<loopVars, watcherVars, timerVars, refVars, todo, mailbox, current, calling,
                  arg, history>>
  BY DEF StopInsert
<1> USE DEF loopVars, watcherVars, timerVars, refVars, history
<1>7. TypeOK'
  BY <1>1, <1>2, <1>4, <1>6 DEF TypeOK
<1>8. StopInv'
  BY <1>1, <1>2, <1>6, NoneIsNoTimer DEF StopInv
<1>9. TimerInv(arg)'
  <2>1. kind[arg] # "timeout" /\ pEventTimer[arg] /\ TimerInv(arg)
    BY <1>1, <1>2 DEF TimerInv, HandleKept
  <2>2. Untouched(arg)' /\ HandleKept(arg)' /\ ClosedOnce(arg)'
    BY <1>2, <1>5, <1>6, <2>1 DEF TimerInv, Untouched, HandleKept, ClosedOnce, One
  <2>3. watcherRefs'[arg] = WatcherHolders(arg)'
    BY <1>6, <2>1 DEF TimerInv, RefsCounted, WatcherHolders
  <2>4. timerRefs'[arg] = TimerHolders(arg)'
    <3>1. timerRefs[arg] = TimerHolders(arg)
      BY <2>1 DEF TimerInv, RefsCounted
    <3>2. Count(todo, <<"release", arg>>) \in Nat
      BY <1>1, CountsAreNat
    <3> QED BY <1>2, <1>5, <1>6, <3>1, <3>2 DEF TimerHolders, One
  <2>5. FiredOnce(arg)' /\ TimeoutKept(arg)'
    BY <1>2, <1>5, <1>6, <2>1 DEF TimerInv, FiredOnce, TimeoutKept, One, bOnce
  <2> QED BY <1>6, <2>2, <2>3, <2>4, <2>5 DEF TimerInv, RefsCounted
<1>10. ASSUME NEW u \in Timers, u # arg
       PROVE  TimerInv(u)'
  <2>1. Pending("start", u)' = Pending("start", u) /\ Pending("stop", u)' = Pending("stop", u)
    BY <1>5, <1>10 DEF One
  <2> QED BY <1>1, <1>6, <1>10, <2>1, Unconcerned
<1>11. \A u \in Timers : TimerInv(u)'
  BY <1>6, <1>9, <1>10
<1> QED BY <1>7, <1>8, <1>11 DEF Inv

LEMMA StopDropKeepsInv ==
  ASSUME Inv, StopDrop
  PROVE  Inv'
<1>1. TypeOK /\ StopInv /\ \A u \in Timers : TimerInv(u)
  BY DEF Inv
<1>2. pc = "drop" /\ pc' = "release" /\ arg \in Timers /\ handle[arg] = "held"
  BY <1>1 DEF StopDrop, StopInv, TypeOK
<1>3. /\ timerRefs' = Add(timerRefs, arg, -1)
      /\ pEventTimer' = [pEventTimer EXCEPT ![arg] = FALSE]
      /\ UNCHANGED <<loopVars, watcherVars, timerVars, watcherRefs, queue, inline, todo, mailbox,
                     current, calling, arg, history>>
  BY DEF StopDrop
<1>4. \A op, u : Pending(op, u)' = Pending(op, u) /\ Pending(op, u) \in Nat
  BY <1>1, <1>3, PendingSame, CountsAreNat
<1> USE DEF loopVars, watcherVars, timerVars, history
<1>5. TypeOK'
  BY <1>1, <1>2, <1>3 DEF TypeOK, Add
<1>6. StopInv'
  BY <1>1, <1>2, <1>3, NoneIsNoTimer DEF StopInv, TypeOK
<1>7. TimerInv(arg)'
  <2>1. kind[arg] # "timeout" /\ pEventTimer[arg] /\ TimerInv(arg)
    BY <1>1, <1>2 DEF TimerInv, HandleKept
  <2>2. pEventTimer'[arg] = FALSE /\ timerRefs'[arg] = timerRefs[arg] - 1
    BY <1>1, <1>2, <1>3 DEF TypeOK, Add
  <2>3. Untouched(arg)' /\ HandleKept(arg)' /\ ClosedOnce(arg)'
    BY <1>2, <1>3, <1>4, <2>1, <2>2 DEF TimerInv, Untouched, HandleKept, ClosedOnce, One
  <2>4. watcherRefs'[arg] = WatcherHolders(arg)'
    BY <1>3, <2>1 DEF TimerInv, RefsCounted, WatcherHolders
  <2>5. timerRefs'[arg] = TimerHolders(arg)'
    <3>1. timerRefs[arg] = TimerHolders(arg)
      BY <2>1 DEF TimerInv, RefsCounted
    <3>2. Count(todo, <<"release", arg>>) \in Nat
      BY <1>1, CountsAreNat
    <3> QED BY <1>2, <1>3, <1>4, <2>1, <2>2, <3>1, <3>2 DEF TimerHolders, One
  <2>6. FiredOnce(arg)' /\ TimeoutKept(arg)'
    BY <1>2, <1>3, <1>4, <2>1 DEF TimerInv, FiredOnce, TimeoutKept, One, bOnce
  <2> QED BY <1>3, <2>3, <2>4, <2>5, <2>6 DEF TimerInv, RefsCounted
<1>8. ASSUME NEW u \in Timers, u # arg
      PROVE  TimerInv(u)'
  <2>1. pEventTimer'[u] = pEventTimer[u] /\ timerRefs'[u] = timerRefs[u]
    BY <1>1, <1>2, <1>3, <1>8 DEF TypeOK, Add
  <2> QED BY <1>1, <1>3, <1>4, <1>8, <2>1, Unconcerned
<1>9. \A u \in Timers : TimerInv(u)'
  BY <1>3, <1>7, <1>8
<1> QED BY <1>5, <1>6, <1>9 DEF Inv

\* timerWatcher_release, for a watcher that loses one of its holders.
LEMMA ReleaseFacts ==
  ASSUME TypeOK, NEW t \in Timers, WatcherRelease(t)
  PROVE  /\ watcherRefs' \in [Timers -> Int] /\ timerRefs' \in [Timers -> Int]
         /\ pEventTimer' \in [Timers -> BOOLEAN]
         /\ watcherRefs'[t] = watcherRefs[t] - 1
         /\ IF watcherRefs[t] = 1 /\ pEventTimer[t]
            THEN timerRefs'[t] = timerRefs[t] - 1 /\ ~pEventTimer'[t]
            ELSE timerRefs'[t] = timerRefs[t] /\ pEventTimer'[t] = pEventTimer[t]
         /\ \A u \in Timers : u # t => /\ watcherRefs'[u] = watcherRefs[u]
                                       /\ timerRefs'[u] = timerRefs[u]
                                       /\ pEventTimer'[u] = pEventTimer[u]
<1> USE DEF TypeOK, Add
<1>1. watcherRefs' = Add(watcherRefs, t, -1)
  BY DEF WatcherRelease
<1>2. CASE watcherRefs[t] = 1 /\ pEventTimer[t]
  <2>1. timerRefs' = Add(timerRefs, t, -1) /\ pEventTimer' = [pEventTimer EXCEPT ![t] = FALSE]
    BY <1>2 DEF WatcherRelease
  <2> QED BY <1>1, <1>2, <2>1
<1>3. CASE ~(watcherRefs[t] = 1 /\ pEventTimer[t])
  <2>1. timerRefs' = timerRefs /\ pEventTimer' = pEventTimer
    BY <1>3 DEF WatcherRelease
  <2> QED BY <1>1, <1>3, <2>1
<1> QED BY <1>2, <1>3

LEMMA StopReleaseKeepsInv ==
  ASSUME Inv, StopRelease
  PROVE  Inv'
<1>1. TypeOK /\ StopInv /\ \A u \in Timers : TimerInv(u)
  BY DEF Inv
<1>0. PICK t \in Timers : t = arg
  BY <1>1 DEF StopRelease, StopInv, TypeOK
<1>2. /\ pc = "release" /\ pc' = "idle" /\ arg = t /\ arg' = None
      /\ handle' = [handle EXCEPT ![t] = "dropped"]
      /\ UNCHANGED <<loopVars, kind, zero, timerVars, queue, inline, todo, mailbox, current,
                     calling, history>>
  BY <1>0 DEF StopRelease
<1>3. WatcherRelease(t)
  BY <1>0 DEF StopRelease
<1>4. \A op, u : Pending(op, u)' = Pending(op, u) /\ Pending(op, u) \in Nat
  BY <1>1, <1>2, PendingSame, CountsAreNat
<1>5. /\ watcherRefs' \in [Timers -> Int] /\ timerRefs' \in [Timers -> Int]
      /\ pEventTimer' \in [Timers -> BOOLEAN]
      /\ \A u \in Timers : u # t => /\ watcherRefs'[u] = watcherRefs[u]
                                      /\ timerRefs'[u] = timerRefs[u]
                                      /\ pEventTimer'[u] = pEventTimer[u]
  BY <1>1, <1>2, <1>3, ReleaseFacts
<1>6. /\ watcherRefs'[t] = watcherRefs[t] - 1
      /\ IF watcherRefs[t] = 1 /\ pEventTimer[t]
         THEN timerRefs'[t] = timerRefs[t] - 1 /\ ~pEventTimer'[t]
         ELSE timerRefs'[t] = timerRefs[t] /\ pEventTimer'[t] = pEventTimer[t]
  BY <1>1, <1>2, <1>3, ReleaseFacts
<1> USE DEF loopVars, timerVars, history
<1>7. TypeOK'
  BY <1>1, <1>2, <1>5 DEF TypeOK
<1>8. StopInv'
  BY <1>1, <1>2, NoneIsNoTimer DEF StopInv, TypeOK
<1>9. TimerInv(t)'
  <2>1. /\ TimerInv(t) /\ t # None /\ arg' # t /\ handle'[t] = "dropped"
        /\ watcherRefs[t] = WatcherHolders(t) /\ timerRefs[t] = TimerHolders(t)
        /\ kind[t] = "timeout" \/ (handle[t] = "held" /\ ~pEventTimer[t])
    BY <1>1, <1>2, NoneIsNoTimer DEF TimerInv, RefsCounted, TypeOK, StopInv
  <2>2. /\ Count(todo, <<"release", t>>) \in Nat /\ Count(mailbox, t) \in Nat
        /\ timerRefs[t] \in Int /\ watcherRefs[t] \in Int
        /\ kind[t] = "timeout" => handle[t] = "dropped"
    BY <1>1, <1>2, CountsAreNat DEF TypeOK, TimerInv, HandleKept
  <2>3. kind[t] # "none"
    BY <1>1, <1>2 DEF TimerInv, Untouched
  <2>4. watcherRefs'[t] = WatcherHolders(t)'
    BY <1>2, <1>6, <2>1, <2>2, <2>3 DEF WatcherHolders, One
  <2>5. timerRefs'[t] = TimerHolders(t)'
    <3>1. CASE watcherRefs[t] = 1 /\ pEventTimer[t]
      BY <1>2, <1>4, <1>6, <2>1, <2>2, <3>1 DEF TimerHolders, One
    <3>2. CASE ~(watcherRefs[t] = 1 /\ pEventTimer[t])
      BY <1>2, <1>4, <1>6, <2>1, <2>2, <3>2 DEF TimerHolders, One
    <3> QED BY <3>1, <3>2
  <2>6. Untouched(t)' /\ ClosedOnce(t)'
    BY <1>2, <1>4, <2>1, <2>3 DEF TimerInv, Untouched, ClosedOnce, One
  <2>7. HandleKept(t)'
    <3>1. pEventTimer'[t] => pEventTimer[t]
      BY <1>6
    <3>2. kind[t] = "timeout" /\ watcherRefs'[t] # 0 => pEventTimer'[t]
      <4> SUFFICES ASSUME kind[t] = "timeout", watcherRefs'[t] # 0
                   PROVE  pEventTimer'[t]
        OBVIOUS
      <4>1. watcherRefs[t] # 1
        BY <1>6
      <4>2. watcherRefs[t] # 0
        BY <1>2, <2>1, <2>2 DEF WatcherHolders, One
      <4> QED BY <1>6, <2>1, <4>1, <4>2 DEF TimerInv, HandleKept
    <3> QED BY <1>2, <1>4, <2>1, <3>1, <3>2 DEF TimerInv, HandleKept
  <2>8. FiredOnce(t)' /\ TimeoutKept(t)'
    BY <1>2, <1>4, <2>1 DEF TimerInv, FiredOnce, TimeoutKept, One, bOnce
  <2> QED BY <2>4, <2>5, <2>6, <2>7, <2>8 DEF TimerInv, RefsCounted
<1>10. ASSUME NEW u \in Timers, u # t
       PROVE  TimerInv(u)'
  <2>1. handle'[u] = handle[u] /\ arg' # u /\ arg # u
    BY <1>1, <1>2, <1>10, NoneIsNoTimer DEF TypeOK
  <2> QED BY <1>1, <1>2, <1>4, <1>5, <1>10, <2>1, Unconcerned
<1>11. ASSUME NEW u \in Timers
       PROVE  TimerInv(u)'
  <2>1. CASE u = t
    BY <1>9, <2>1
  <2> QED BY <1>10, <2>1
<1> QED BY <1>7, <1>8, <1>11 DEF Inv

LEMMA EventBeginKeepsInv ==
  ASSUME Inv, EventBegin
  PROVE  Inv'
<1>0. PICK t : t = Head(mailbox)
  OBVIOUS
<1>1. TypeOK /\ StopInv /\ \A u \in Timers : TimerInv(u)
  BY DEF Inv
<1>2. /\ pc = "idle" /\ current = None /\ mailbox # <<>> /\ mailbox' = Tail(mailbox)
      /\ current' = t /\ calling' = pEventTimer[t]
      /\ UNCHANGED <<loopVars, watcherVars, timerVars, refVars, queue, inline, todo, pc, arg,
                     closes>>
  BY <1>0 DEF EventBegin
<1>3. delivered' = IF pEventTimer[t] THEN delivered \cup {t} ELSE delivered
  BY <1>0 DEF EventBegin
<1>4. t \in Timers /\ mailbox \in Seq(Timers) /\ mailbox' \in Seq(Timers)
  BY <1>0, <1>1, <1>2 DEF TypeOK
<1>5. \A op, u : Pending(op, u)' = Pending(op, u) /\ Pending(op, u) \in Nat
  BY <1>1, <1>2, PendingSame, CountsAreNat
<1>6. \A u : /\ Count(mailbox', u) = Count(mailbox, u) - One(t = u)
             /\ Count(mailbox, u) \in Nat /\ Count(mailbox', u) \in Nat
  BY <1>0, <1>2, <1>4, CountTail, CountType
<1> USE DEF loopVars, watcherVars, timerVars, refVars
<1>7. TypeOK'
  BY <1>1, <1>2, <1>3, <1>4 DEF TypeOK
<1>8. StopInv'
  BY <1>1, <1>2, <1>4, NoneIsNoTimer DEF StopInv
<1>9. TimerInv(t)'
  <2>1. /\ TimerInv(t) /\ t # None
        /\ watcherRefs[t] = WatcherHolders(t) /\ timerRefs[t] = TimerHolders(t)
    BY <1>1, <1>4, NoneIsNoTimer DEF TimerInv, RefsCounted
  <2>2. Count(mailbox, t) > 0 /\ Count(mailbox', t) = Count(mailbox, t) - 1
    BY <1>6 DEF One
  <2>3. kind[t] # "none" /\ watcherRefs[t] # 0
    BY <1>6, <2>1, <2>2 DEF TimerInv, Untouched, WatcherHolders, One
  <2>4. kind[t] = "timeout" => pEventTimer[t]
    BY <2>1, <2>3 DEF TimerInv, HandleKept
  <2>5. Untouched(t)' /\ HandleKept(t)' /\ ClosedOnce(t)'
    BY <1>2, <1>5, <2>1, <2>3 DEF TimerInv, Untouched, HandleKept, ClosedOnce, One
  <2>6. watcherRefs'[t] = WatcherHolders(t)'
    BY <1>2, <1>6, <2>1, <2>2 DEF WatcherHolders, One
  <2>7. timerRefs'[t] = TimerHolders(t)'
    BY <1>2, <1>5, <2>1 DEF TimerHolders
  <2>8. One(t \in delivered') <= 1 /\ (t \in delivered => t \in delivered')
    BY <1>3 DEF One
  <2>9. FiredOnce(t)'
    <3>1. Count(todo, <<"fn", t>>) \in Nat
      BY <1>1, CountsAreNat
    <3> QED BY <1>2, <1>5, <1>6, <2>1, <2>2, <2>8, <3>1 DEF TimerInv, FiredOnce, One, bOnce
  <2>10. TimeoutKept(t)'
    <3>1. kind[t] = "timeout" => t \in delivered'
      BY <1>3, <2>4
    <3>2. Count(todo, <<"fn", t>>) \in Nat
      BY <1>1, CountsAreNat
    <3> QED BY <1>2, <1>5, <1>6, <2>1, <3>1, <3>2 DEF TimerInv, TimeoutKept, One
  <2> QED BY <2>5, <2>6, <2>7, <2>9, <2>10 DEF TimerInv, RefsCounted
<1>10. ASSUME NEW u \in Timers, u # t
       PROVE  TimerInv(u)'
  <2>1. /\ (u \in delivered' <=> u \in delivered) /\ u # None
        /\ Count(mailbox', u) = Count(mailbox, u)
    BY <1>3, <1>6, <1>10, NoneIsNoTimer DEF One
  <2>2. current' # u /\ current # u
    BY <1>2, <1>10, <2>1
  <2> QED BY <1>1, <1>2, <1>5, <2>1, <2>2, Unconcerned
<1>11. ASSUME NEW u \in Timers
       PROVE  TimerInv(u)'
  <2>1. CASE u = t
    BY <1>9, <2>1
  <2> QED BY <1>10, <2>1
<1> QED BY <1>7, <1>8, <1>11 DEF Inv

LEMMA EventEndKeepsInv ==
  ASSUME Inv, EventEnd
  PROVE  Inv'
<1>1. TypeOK /\ StopInv /\ \A u \in Timers : TimerInv(u)
  BY DEF Inv
<1>0. PICK t \in Timers : t = current
  BY <1>1 DEF EventEnd, TypeOK
<1>2. /\ pc = "idle" /\ current = t /\ current' = None /\ calling' = FALSE
      /\ UNCHANGED <<loopVars, watcherVars, timerVars, queue, inline, todo, mailbox, pc, arg,
                     history>>
  BY <1>0 DEF EventEnd
<1>3. WatcherRelease(t)
  BY <1>0 DEF EventEnd
<1>4. \A op, u : Pending(op, u)' = Pending(op, u) /\ Pending(op, u) \in Nat
  BY <1>1, <1>2, PendingSame, CountsAreNat
<1>5. /\ watcherRefs' \in [Timers -> Int] /\ timerRefs' \in [Timers -> Int]
      /\ pEventTimer' \in [Timers -> BOOLEAN]
      /\ \A u \in Timers : u # t => /\ watcherRefs'[u] = watcherRefs[u]
                                    /\ timerRefs'[u] = timerRefs[u]
                                    /\ pEventTimer'[u] = pEventTimer[u]
  BY <1>1, <1>3, ReleaseFacts
<1>6. /\ watcherRefs'[t] = watcherRefs[t] - 1
      /\ IF watcherRefs[t] = 1 /\ pEventTimer[t]
         THEN timerRefs'[t] = timerRefs[t] - 1 /\ ~pEventTimer'[t]
         ELSE timerRefs'[t] = timerRefs[t] /\ pEventTimer'[t] = pEventTimer[t]
  BY <1>1, <1>3, ReleaseFacts
<1> USE DEF loopVars, timerVars, watcherVars, history
<1>7. TypeOK'
  BY <1>1, <1>2, <1>5 DEF TypeOK
<1>8. StopInv'
  BY <1>1, <1>2 DEF StopInv, TypeOK
<1>9. TimerInv(t)'
  <2>1. /\ TimerInv(t) /\ t # None /\ arg # t
        /\ watcherRefs[t] = WatcherHolders(t) /\ timerRefs[t] = TimerHolders(t)
    BY <1>1, <1>2, NoneIsNoTimer DEF TimerInv, RefsCounted, StopInv
  <2>2. /\ Count(todo, <<"release", t>>) \in Nat /\ Count(mailbox, t) \in Nat
        /\ timerRefs[t] \in Int /\ watcherRefs[t] \in Int
    BY <1>1, CountsAreNat DEF TypeOK
  <2>3. kind[t] # "none"
    BY <1>2, <2>1 DEF TimerInv, Untouched
  <2>4. watcherRefs'[t] = WatcherHolders(t)'
    BY <1>2, <1>6, <2>1, <2>2, <2>3 DEF WatcherHolders, One
  <2>5. timerRefs'[t] = TimerHolders(t)'
    <3>1. CASE watcherRefs[t] = 1 /\ pEventTimer[t]
      BY <1>2, <1>4, <1>6, <2>1, <2>2, <3>1 DEF TimerHolders, One
    <3>2. CASE ~(watcherRefs[t] = 1 /\ pEventTimer[t])
      BY <1>2, <1>4, <1>6, <2>1, <2>2, <3>2 DEF TimerHolders, One
    <3> QED BY <3>1, <3>2
  <2>6. Untouched(t)' /\ ClosedOnce(t)'
    BY <1>2, <1>4, <2>1, <2>3 DEF TimerInv, Untouched, ClosedOnce, One
  <2>7. HandleKept(t)'
    <3>1. handle[t] = "held" => watcherRefs[t] # 1 /\ pEventTimer[t]
      BY <1>2, <2>1, <2>2 DEF WatcherHolders, TimerInv, HandleKept, One
    <3>2. kind[t] = "timeout" /\ watcherRefs'[t] # 0 => pEventTimer'[t]
      <4>1. watcherRefs[t] # 0
        BY <1>2, <2>1, <2>2 DEF WatcherHolders, One
      <4> QED BY <1>6, <2>1, <4>1 DEF TimerInv, HandleKept
    <3>3. pEventTimer'[t] => pEventTimer[t]
      BY <1>6
    <3>4. handle[t] = "held" => pEventTimer'[t]
      BY <1>6, <3>1
    <3> QED BY <1>2, <1>4, <2>1, <3>2, <3>3, <3>4 DEF TimerInv, HandleKept
  <2>8. FiredOnce(t)' /\ TimeoutKept(t)'
    BY <1>2, <1>4, <2>1 DEF TimerInv, FiredOnce, TimeoutKept, One, bOnce
  <2> QED BY <2>4, <2>5, <2>6, <2>7, <2>8 DEF TimerInv, RefsCounted
<1>10. ASSUME NEW u \in Timers, u # t
       PROVE  TimerInv(u)'
  <2>1. current # u /\ current' # u
    BY <1>2, <1>10, NoneIsNoTimer
  <2> QED BY <1>1, <1>2, <1>4, <1>5, <1>10, <2>1, Unconcerned
<1>11. ASSUME NEW u \in Timers
       PROVE  TimerInv(u)'
  <2>1. CASE u = t
    BY <1>9, <2>1
  <2> QED BY <1>10, <2>1
<1> QED BY <1>7, <1>8, <1>11 DEF Inv

\* service_stop, eventIO_stop and the end of eventIO_dispatch touch no timer.
LEMMA StopsKeepInv ==
  ASSUME Inv, ServiceStop \/ EventIOStop \/ Return
  PROVE  Inv'
<1>1. TypeOK /\ StopInv /\ \A u \in Timers : TimerInv(u)
  BY DEF Inv
<1>2. /\ UNCHANGED <<single, watcherVars, timerVars, refVars, queue, inline, todo, serviceVars,
                     history>>
      /\ (running' => running) /\ running' \in BOOLEAN /\ bLoopRunning' \in BOOLEAN
      /\ returned' \in BOOLEAN
  <2>1. CASE ServiceStop
    BY <1>1, <2>1 DEF ServiceStop, TypeOK
  <2>2. CASE EventIOStop
    BY <1>1, <2>2 DEF EventIOStop, TypeOK
  <2>3. CASE Return
    BY <1>1, <2>3 DEF Return, TypeOK
  <2> QED BY <2>1, <2>2, <2>3
<1> USE DEF watcherVars, timerVars, refVars, serviceVars, history
<1>3. \A op, u : Pending(op, u)' = Pending(op, u)
  BY <1>2, PendingSame
<1>4. TypeOK' /\ StopInv'
  BY <1>1, <1>2 DEF TypeOK, StopInv
<1>5. \A u \in Timers : TimerInv(u)'
  BY <1>1, <1>2, <1>3, Unconcerned
<1> QED BY <1>4, <1>5 DEF Inv

-----------------------------------------------------------------------------
(* Every step of the dispatching thread keeps the invariant. *)

\* It is left with fn, close and release steps of t, so many of each.
Left(t, fns, closings, releases) ==
  /\ todo' \in Seq(Steps)
  /\ \A i \in DOMAIN todo' : todo'[i][1] = "fn" => i = 1
  /\ Count(todo', <<"fn", t>>) = fns
  /\ Count(todo', <<"close", t>>) = closings
  /\ Count(todo', <<"release", t>>) = releases
  /\ \A u \in Timers, s \in {"fn", "close", "release"} : u # t => Count(todo', <<s, u>>) = 0

LEMMA DoSeq ==
  ASSUME NEW t \in Timers, NEW a \in {"fn", "close", "release"},
         NEW b \in {"close", "release"}, NEW c \in {"close", "release"}
  PROVE  /\ Do(t, <<a>>) \/ Do(t, <<a, b>>) \/ Do(t, <<a, b, c>>) =>
              /\ todo' \in Seq(Steps)
              /\ \A i \in DOMAIN todo' : todo'[i][1] = "fn" => i = 1
<1>0. <<a, t>> \in Steps /\ <<b, t>> \in Steps /\ <<c, t>> \in Steps
  BY DEF Steps
<1>4. \A n \in Nat : \A f \in [1..n -> Steps] : f \in Seq(Steps)
  BY SeqDef
<1>1. ASSUME Do(t, <<a>>)
      PROVE  todo' \in Seq(Steps) /\ \A i \in DOMAIN todo' : todo'[i][1] = "fn" => i = 1
  <2>1. todo' = [i \in 1..1 |-> <<<<a>>[i], t>>]
    BY <1>1 DEF Do
  <2>2. todo' \in [1..1 -> Steps] /\ DOMAIN todo' = 1..1
    BY <1>0, <2>1
  <2>3. todo' \in Seq(Steps)
    BY <1>4, <2>2
  <2> QED BY <2>2, <2>3
<1>2. ASSUME Do(t, <<a, b>>)
      PROVE  todo' \in Seq(Steps) /\ \A i \in DOMAIN todo' : todo'[i][1] = "fn" => i = 1
  <2>1. todo' = [i \in 1..2 |-> <<<<a, b>>[i], t>>]
    BY <1>2 DEF Do
  <2>2. \A i \in 1..2 : i = 1 \/ i = 2
    OBVIOUS
  <2>3. todo' \in [1..2 -> Steps] /\ DOMAIN todo' = 1..2 /\ todo'[2][1] = b
    BY <1>0, <2>1, <2>2
  <2> QED BY <1>4, <2>2, <2>3
<1>3. ASSUME Do(t, <<a, b, c>>)
      PROVE  todo' \in Seq(Steps) /\ \A i \in DOMAIN todo' : todo'[i][1] = "fn" => i = 1
  <2>1. todo' = [i \in 1..3 |-> <<<<a, b, c>>[i], t>>]
    BY <1>3 DEF Do
  <2>2. \A i \in 1..3 : i = 1 \/ i = 2 \/ i = 3
    OBVIOUS
  <2>3. todo' \in [1..3 -> Steps] /\ DOMAIN todo' = 1..3 /\ todo'[2][1] = b /\ todo'[3][1] = c
    BY <1>0, <2>1, <2>2
  <2> QED BY <1>4, <2>2, <2>3
<1> QED BY <1>1, <1>2, <1>3

LEMMA DoLeaves ==
  ASSUME NEW t \in Timers
  PROVE  /\ Do(t, <<>>) => Left(t, 0, 0, 0)
         /\ Do(t, <<"release">>) => Left(t, 0, 0, 1)
         /\ Do(t, <<"fn">>) => Left(t, 1, 0, 0)
         /\ Do(t, <<"close", "release">>) => Left(t, 0, 1, 1)
         /\ Do(t, <<"close", "release", "release">>) => Left(t, 0, 1, 2)
         /\ Do(t, <<"fn", "close", "release">>) => Left(t, 1, 1, 1)
<1>0. \A u, r, s : Same(<<r, t>>, <<s, u>>) = IF r = s /\ t = u THEN 1 ELSE 0
  BY DEF Same
<1>1. ASSUME Do(t, <<>>) PROVE Left(t, 0, 0, 0)
  <2>1. \A x : Count(todo', x) = 0
    BY <1>1, DoNothing
  <2>2. todo' = <<>>
    BY <1>1, DoNothing
  <2> QED BY <2>1, <2>2 DEF Left
<1>2. ASSUME Do(t, <<"release">>) PROVE Left(t, 0, 0, 1)
  <2>1. \A x : Count(todo', x) = Same(<<"release", t>>, x)
    BY <1>2, DoOne
  <2>2. todo' \in Seq(Steps) /\ \A i \in DOMAIN todo' : todo'[i][1] = "fn" => i = 1
    BY <1>2, DoSeq
  <2>3. Count(todo', <<"fn", t>>) = 0
    BY <1>0, <2>1
  <2>4. Count(todo', <<"close", t>>) = 0
    BY <1>0, <2>1
  <2>5. Count(todo', <<"release", t>>) = 1
    BY <1>0, <2>1
  <2>6. \A u \in Timers, s \in {"fn", "close", "release"} : u # t => Count(todo', <<s, u>>) = 0
    BY <1>0, <2>1
  <2> QED BY <2>2, <2>3, <2>4, <2>5, <2>6 DEF Left
<1>3. ASSUME Do(t, <<"fn">>) PROVE Left(t, 1, 0, 0)
  <2>1. \A x : Count(todo', x) = Same(<<"fn", t>>, x)
    BY <1>3, DoOne
  <2>2. todo' \in Seq(Steps) /\ \A i \in DOMAIN todo' : todo'[i][1] = "fn" => i = 1
    BY <1>3, DoSeq
  <2>3. Count(todo', <<"fn", t>>) = 1
    BY <1>0, <2>1
  <2>4. Count(todo', <<"close", t>>) = 0
    BY <1>0, <2>1
  <2>5. Count(todo', <<"release", t>>) = 0
    BY <1>0, <2>1
  <2>6. \A u \in Timers, s \in {"fn", "close", "release"} : u # t => Count(todo', <<s, u>>) = 0
    BY <1>0, <2>1
  <2> QED BY <2>2, <2>3, <2>4, <2>5, <2>6 DEF Left
<1>4. ASSUME Do(t, <<"close", "release">>) PROVE Left(t, 0, 1, 1)
  <2>1. \A x : Count(todo', x) = Same(<<"close", t>>, x) + Same(<<"release", t>>, x)
    BY <1>4, DoTwo
  <2>2. todo' \in Seq(Steps) /\ \A i \in DOMAIN todo' : todo'[i][1] = "fn" => i = 1
    BY <1>4, DoSeq
  <2>3. Count(todo', <<"fn", t>>) = 0
    BY <1>0, <2>1
  <2>4. Count(todo', <<"close", t>>) = 1
    BY <1>0, <2>1
  <2>5. Count(todo', <<"release", t>>) = 1
    BY <1>0, <2>1
  <2>6. \A u \in Timers, s \in {"fn", "close", "release"} : u # t => Count(todo', <<s, u>>) = 0
    BY <1>0, <2>1
  <2> QED BY <2>2, <2>3, <2>4, <2>5, <2>6 DEF Left
<1>5. ASSUME Do(t, <<"close", "release", "release">>) PROVE Left(t, 0, 1, 2)
  <2>1. \A x : Count(todo', x) = Same(<<"close", t>>, x) + Same(<<"release", t>>, x) + Same(<<"release", t>>, x)
    BY <1>5, DoThree
  <2>2. todo' \in Seq(Steps) /\ \A i \in DOMAIN todo' : todo'[i][1] = "fn" => i = 1
    BY <1>5, DoSeq
  <2>3. Count(todo', <<"fn", t>>) = 0
    BY <1>0, <2>1
  <2>4. Count(todo', <<"close", t>>) = 1
    BY <1>0, <2>1
  <2>5. Count(todo', <<"release", t>>) = 2
    BY <1>0, <2>1
  <2>6. \A u \in Timers, s \in {"fn", "close", "release"} : u # t => Count(todo', <<s, u>>) = 0
    BY <1>0, <2>1
  <2> QED BY <2>2, <2>3, <2>4, <2>5, <2>6 DEF Left
<1>6. ASSUME Do(t, <<"fn", "close", "release">>) PROVE Left(t, 1, 1, 1)
  <2>1. \A x : Count(todo', x) = Same(<<"fn", t>>, x) + Same(<<"close", t>>, x) + Same(<<"release", t>>, x)
    BY <1>6, DoThree
  <2>2. todo' \in Seq(Steps) /\ \A i \in DOMAIN todo' : todo'[i][1] = "fn" => i = 1
    BY <1>6, DoSeq
  <2>3. Count(todo', <<"fn", t>>) = 1
    BY <1>0, <2>1
  <2>4. Count(todo', <<"close", t>>) = 1
    BY <1>0, <2>1
  <2>5. Count(todo', <<"release", t>>) = 1
    BY <1>0, <2>1
  <2>6. \A u \in Timers, s \in {"fn", "close", "release"} : u # t => Count(todo', <<s, u>>) = 0
    BY <1>0, <2>1
  <2> QED BY <2>2, <2>3, <2>4, <2>5, <2>6 DEF Left
<1> QED BY <1>1, <1>2, <1>3, <1>4, <1>5, <1>6

LEMMA Exchanged ==
  ASSUME NEW p \in Nat, NEW h \in Nat, NEW s \in Nat, NEW m \in Nat, NEW i \in Nat,
         NEW k \in Nat, NEW r \in Nat, s + h = 1, k + r = 1
  PROVE  p + h + s + m + i + 0 = p + k + 0 + m + i + r
OBVIOUS

\* Steps that the dispatching thread was not left with before are nowhere.
LEMMA OthersWait ==
  ASSUME todo = <<>>, NEW t, NEW f, NEW c, NEW r, Left(t, f, c, r)
  PROVE  \A u \in Timers, s \in {"fn", "close", "release"} :
           u # t => Count(todo', <<s, u>>) = Count(todo, <<s, u>>)
<1>1. \A x : Count(todo, x) = 0
  BY CountEmpty
<1> QED BY <1>1 DEF Left

\* A start is handled, or a timer of the heap fires: it goes to the heap, is
\* closed, or is cancelled.
LEMMA TakenUp ==
  ASSUME Inv, NEW t \in Timers, todo = <<>>,
         UNCHANGED <<loopVars, watcherVars, refVars, serviceVars, history>>,
         queue' \in Seq(Items), inline' \in Items \cup {NoItem},
         Pending("start", t) + One(t \in heap) > 0,
         Pending("start", t)' = 0, Pending("stop", t)' = Pending("stop", t),
         \A u \in Timers : u # t => /\ Pending("start", u)' = Pending("start", u)
                                    /\ Pending("stop", u)' = Pending("stop", u),
         heap' \subseteq Timers, \A u \in Timers : u # t => (u \in heap' <=> u \in heap),
         bActive' \in [Timers -> BOOLEAN], \A u \in Timers : u # t => bActive'[u] = bActive[u],
         bRunning' \in [Timers -> BOOLEAN], \A u \in Timers : u # t => bRunning'[u] = bRunning[u],
         NEW f \in {0, 1}, NEW c \in {0, 1}, NEW r \in {0, 1}, Left(t, f, c, r),
         bActive'[t] <=> t \in heap', zero[t] => t \notin heap',
         One(t \in heap') + r = 1, c <= r,
         bOnce(t) \/ zero[t] => One(t \in heap') + f <= 1,
         kind[t] = "timeout" /\ bRunning[t] => /\ t \in heap' => bRunning'[t]
                                               /\ c = 1 => f = 1
  PROVE  Inv'
<1>1. TypeOK /\ StopInv /\ TimerInv(t) /\ \A u \in Timers : TimerInv(u)
  BY DEF Inv
<1> USE DEF loopVars, watcherVars, refVars, serviceVars, history
<1>2. TypeOK'
  BY <1>1 DEF TypeOK, Left
<1>3. StopInv'
  BY <1>1 DEF StopInv, Left
<1>4. /\ Count(todo', <<"fn", t>>) = f /\ Count(todo', <<"close", t>>) = c
      /\ Count(todo', <<"release", t>>) = r
  BY DEF Left
<1>5. \A x : Count(todo, x) = 0
  BY CountEmpty
<1>6. TimerInv(t)'
  <2>1. Pending("start", t) \in Nat /\ Pending("stop", t) \in Nat /\ Count(mailbox, t) \in Nat
    BY <1>1, CountsAreNat
  <2>2. kind[t] # "none"
    BY <1>1 DEF TimerInv, Untouched, One
  <2>3. Pending("start", t) + One(t \in heap) = 1 /\ closes[t] = 0
    <3>1. Pending("start", t) + One(t \in heap) + 0 + closes[t] <= 1 /\ closes[t] \in Nat
      BY <1>1, <1>5 DEF TimerInv, ClosedOnce, TypeOK
    <3> QED BY <2>1, <3>1 DEF One
  <2>4. Untouched(t)' /\ HandleKept(t)'
    BY <1>1, <2>2 DEF TimerInv, Untouched, HandleKept
  <2>5. ClosedOnce(t)'
    BY <1>4, <2>3 DEF ClosedOnce, One
  <2>6. watcherRefs'[t] = WatcherHolders(t)'
    BY <1>1 DEF TimerInv, RefsCounted, WatcherHolders
  <2>7. timerRefs'[t] = TimerHolders(t)'
    <3> DEFINE p == One(pEventTimer[t])
               i == One(pc = "insert" /\ arg = t)
    <3>1. timerRefs[t] = p + One(t \in heap) + Pending("start", t) + Pending("stop", t) + i + 0
      BY <1>1, <1>5 DEF TimerInv, RefsCounted, TimerHolders
    <3>2. TimerHolders(t)' = p + One(t \in heap') + 0 + Pending("stop", t) + i + r
      BY <1>4 DEF TimerHolders
    <3>3. p \in Nat /\ i \in Nat /\ One(t \in heap) \in Nat /\ One(t \in heap') \in Nat
      BY DEF One
    <3>4. timerRefs'[t] = timerRefs[t] /\ One(t \in heap') + r = 1
      OBVIOUS
    <3> DEFINE h == One(t \in heap)
               k == One(t \in heap')
               s == Pending("start", t)
               m == Pending("stop", t)
    <3>5. h \in Nat /\ k \in Nat /\ s \in Nat /\ m \in Nat /\ r \in Nat /\ s + h = 1 /\ k + r = 1
      BY <2>1, <2>3, <3>3, <3>4
    <3>6. timerRefs[t] = p + h + s + m + i + 0 /\ TimerHolders(t)' = p + k + 0 + m + i + r
      BY <3>1, <3>2
    <3> HIDE DEF p, i, h, k, s, m
    <3>7. p + h + s + m + i + 0 = p + k + 0 + m + i + r
      BY <3>3, <3>5, Exchanged
    <3> QED BY <3>4, <3>6, <3>7
  <2>8. FiredOnce(t)'
    <3>1. bOnce(t) \/ zero[t] =>
            Pending("start", t) + One(t \in heap) + 0 + Count(mailbox, t) + One(t \in delivered) <= 1
      BY <1>1, <1>5 DEF TimerInv, FiredOnce
    <3>2. bOnce(t) \/ zero[t] => Count(mailbox, t) = 0 /\ One(t \in delivered) = 0
      BY <2>1, <2>3, <3>1 DEF One
    <3>3. bOnce(t)' = bOnce(t) /\ One(t \in heap') \in Nat
      BY DEF bOnce, One
    <3> QED BY <1>4, <3>2, <3>3 DEF FiredOnce
  <2>9. TimeoutKept(t)'
    <3>1. kind[t] = "timeout" => bRunning[t]
      BY <1>1 DEF TimerInv, TimeoutKept
    <3> QED BY <1>4, <2>1, <2>3, <3>1 DEF TimeoutKept, One
  <2> QED BY <2>4, <2>5, <2>6, <2>7, <2>8, <2>9 DEF TimerInv, RefsCounted
<1>7. ASSUME NEW u \in Timers, u # t
      PROVE  TimerInv(u)'
  <2>1. \A s \in {"fn", "close", "release"} : Count(todo', <<s, u>>) = Count(todo, <<s, u>>)
    BY <1>7, OthersWait
  <2> QED BY <1>1, <1>7, <2>1, Unconcerned
<1>8. ASSUME NEW u \in Timers
      PROVE  TimerInv(u)'
  <2>1. CASE u = t
    BY <1>6, <2>1
  <2> QED BY <1>7, <2>1
<1> QED BY <1>2, <1>3, <1>8 DEF Inv

\* A stop is handled.
LEMMA StopHandled ==
  ASSUME Inv, NEW t \in Timers, todo = <<>>, InLoopStop(t),
         UNCHANGED <<loopVars, watcherVars, refVars, serviceVars, history>>,
         queue' \in Seq(Items), inline' \in Items \cup {NoItem},
         Pending("stop", t) > 0, Pending("stop", t)' = Pending("stop", t) - 1,
         Pending("start", t)' = Pending("start", t),
         \A u \in Timers : u # t => /\ Pending("start", u)' = Pending("start", u)
                                    /\ Pending("stop", u)' = Pending("stop", u)
  PROVE  Inv'
<1>1. TypeOK /\ StopInv /\ TimerInv(t) /\ \A u \in Timers : TimerInv(u)
  BY DEF Inv
<1> USE DEF loopVars, watcherVars, refVars, serviceVars, history
<1>2. bRunning' = bRunning /\ bActive' = [bActive EXCEPT ![t] = FALSE]
  BY DEF InLoopStop
<1>3. heap' = heap \ {t}
  BY <1>1 DEF InLoopStop, TimerInv, ClosedOnce
<1>4. Left(t, 0, One(t \in heap), One(t \in heap) + 1)
  <2>1. CASE bActive[t]
    <3>1. Do(t, <<"close", "release", "release">>)
      BY <2>1 DEF InLoopStop
    <3>2. One(t \in heap) = 1
      BY <1>1, <2>1 DEF TimerInv, ClosedOnce, One
    <3> QED BY <3>1, <3>2, DoLeaves
  <2>2. CASE ~bActive[t]
    <3>1. Do(t, <<"release">>)
      BY <2>2 DEF InLoopStop
    <3>2. One(t \in heap) = 0
      BY <1>1, <2>2 DEF TimerInv, ClosedOnce, One
    <3> QED BY <3>1, <3>2, DoLeaves
  <2> QED BY <2>1, <2>2
<1>5. TypeOK'
  BY <1>1, <1>2, <1>3, <1>4 DEF TypeOK, Left
<1>6. StopInv'
  BY <1>1, <1>4 DEF StopInv, Left
<1>7. /\ Count(todo', <<"fn", t>>) = 0 /\ Count(todo', <<"close", t>>) = One(t \in heap)
      /\ Count(todo', <<"release", t>>) = One(t \in heap) + 1
  BY <1>4 DEF Left
<1>8. \A x : Count(todo, x) = 0
  BY CountEmpty
<1>9. TimerInv(t)'
  <2>1. /\ Pending("start", t) \in Nat /\ Pending("stop", t) \in Nat /\ Count(mailbox, t) \in Nat
        /\ One(t \in heap) \in Nat /\ One(t \in heap') = 0 /\ closes[t] \in Nat /\ ~bActive'[t]
        /\ One(t \in delivered) \in Nat
    BY <1>1, <1>2, <1>3, CountsAreNat DEF TypeOK, One
  <2>2. kind[t] # "none" /\ kind[t] # "timeout"
    BY <1>1, <2>1 DEF TimerInv, Untouched, HandleKept
  <2>4. Untouched(t)' /\ HandleKept(t)'
    BY <1>1, <2>2 DEF TimerInv, Untouched, HandleKept
  <2>5. ClosedOnce(t)'
    <3>1. Pending("start", t) + One(t \in heap) + 0 + closes[t] <= 1
      BY <1>1, <1>8 DEF TimerInv, ClosedOnce
    <3> QED BY <1>3, <1>7, <2>1, <3>1 DEF ClosedOnce
  <2>6. watcherRefs'[t] = WatcherHolders(t)'
    BY <1>1 DEF TimerInv, RefsCounted, WatcherHolders
  <2>7. timerRefs'[t] = TimerHolders(t)'
    <3> DEFINE p == One(pEventTimer[t])
               i == One(pc = "insert" /\ arg = t)
    <3>1. timerRefs[t] = p + One(t \in heap) + Pending("start", t) + Pending("stop", t) + i + 0
      BY <1>1, <1>8 DEF TimerInv, RefsCounted, TimerHolders
    <3>2. TimerHolders(t)' = p + 0 + Pending("start", t) + (Pending("stop", t) - 1) + i
                               + (One(t \in heap) + 1)
      BY <1>7, <2>1 DEF TimerHolders
    <3>3. p \in Nat /\ i \in Nat
      BY DEF One
    <3> HIDE DEF p, i
    <3> QED BY <2>1, <3>1, <3>2, <3>3
  <2>8. FiredOnce(t)'
    <3>1. bOnce(t) \/ zero[t] =>
            Pending("start", t) + One(t \in heap) + 0 + Count(mailbox, t) + One(t \in delivered) <= 1
      BY <1>1, <1>8 DEF TimerInv, FiredOnce
    <3>2. bOnce(t)' = bOnce(t)
      BY DEF bOnce
    <3> QED BY <1>7, <2>1, <3>1, <3>2 DEF FiredOnce
  <2>9. TimeoutKept(t)'
    BY <2>2 DEF TimeoutKept
  <2> QED BY <2>4, <2>5, <2>6, <2>7, <2>8, <2>9 DEF TimerInv, RefsCounted
<1>10. ASSUME NEW u \in Timers, u # t
       PROVE  TimerInv(u)'
  <2>1. \A s \in {"fn", "close", "release"} : Count(todo', <<s, u>>) = Count(todo, <<s, u>>)
    BY <1>4, <1>8, <1>10 DEF Left
  <2>2. (u \in heap' <=> u \in heap) /\ bActive'[u] = bActive[u]
    BY <1>1, <1>2, <1>3, <1>10 DEF TypeOK
  <2> QED BY <1>1, <1>2, <1>10, <2>1, <2>2, Unconcerned
<1>11. ASSUME NEW u \in Timers
       PROVE  TimerInv(u)'
  <2>1. CASE u = t
    BY <1>9, <2>1
  <2> QED BY <1>10, <2>1
<1> QED BY <1>5, <1>6, <1>11 DEF Inv

\* inLoop_eventTimer_start or, once the loop was stopped, inLoop_eventTimer_cancel.
LEMMA StartHandled ==
  ASSUME Inv, NEW t \in Timers, todo = <<>>,
         IF bLoopRunning THEN InLoopStart(t) ELSE InLoopCancel(t),
         UNCHANGED <<loopVars, watcherVars, refVars, serviceVars, history>>,
         queue' \in Seq(Items), inline' \in Items \cup {NoItem},
         Pending("start", t) > 0, Pending("start", t)' = Pending("start", t) - 1,
         Pending("stop", t)' = Pending("stop", t),
         \A u \in Timers : u # t => /\ Pending("start", u)' = Pending("start", u)
                                    /\ Pending("stop", u)' = Pending("stop", u)
  PROVE  Inv'
<1>1. TypeOK /\ TimerInv(t)
  BY DEF Inv
<1>2. Pending("start", t) = 1 /\ t \notin heap /\ ~bActive[t]
  <2>1. Pending("start", t) + One(t \in heap) + 0 + closes[t] <= 1
    BY <1>1, CountEmpty DEF TimerInv, ClosedOnce
  <2>2. closes[t] \in Nat /\ Pending("start", t) \in Nat
    BY <1>1, CountsAreNat DEF TypeOK
  <2> QED BY <1>1, <2>1, <2>2 DEF One, TimerInv, ClosedOnce
<1>3. Pending("start", t) + One(t \in heap) > 0 /\ Pending("start", t)' = 0
  BY <1>2 DEF One
<1>4. CASE ~bLoopRunning
  <2>1. Do(t, <<"release">>) /\ UNCHANGED timerVars
    BY <1>4 DEF InLoopCancel
  <2>2. Left(t, 0, 0, 1)
    BY <2>1, DoLeaves
  <2>3. /\ bActive' \in [Timers -> BOOLEAN] /\ bActive'[t] = bActive[t]
        /\ \A u \in Timers : u # t => bActive'[u] = bActive[u]
        /\ bRunning' \in [Timers -> BOOLEAN] /\ bRunning'[t] = bRunning[t]
        /\ \A u \in Timers : u # t => bRunning'[u] = bRunning[u]
        /\ heap' \subseteq Timers /\ heap' = heap
        /\ \A u \in Timers : u # t => (u \in heap' <=> u \in heap)
    BY <1>1, <2>1 DEF TypeOK, timerVars
  <2> QED BY <1>2, <1>3, <2>2, <2>3, TakenUp DEF One
<1>5. CASE bLoopRunning /\ zero[t] /\ bRunning[t]
  <2>1. /\ bRunning' = [bRunning EXCEPT ![t] = FALSE] /\ UNCHANGED <<bActive, heap>>
        /\ Do(t, <<"fn", "close", "release">>)
    BY <1>5 DEF InLoopStart
  <2>2. Left(t, 1, 1, 1)
    BY <2>1, DoLeaves
  <2>3. /\ bActive' \in [Timers -> BOOLEAN] /\ bActive'[t] = bActive[t]
        /\ \A u \in Timers : u # t => bActive'[u] = bActive[u]
        /\ bRunning' \in [Timers -> BOOLEAN] /\ \A u \in Timers : u # t => bRunning'[u] = bRunning[u]
        /\ heap' \subseteq Timers /\ heap' = heap
        /\ \A u \in Timers : u # t => (u \in heap' <=> u \in heap)
    BY <1>1, <2>1 DEF TypeOK
  <2> QED BY <1>2, <1>3, <2>2, <2>3, TakenUp DEF One
<1>6. CASE bLoopRunning /\ zero[t] /\ ~bRunning[t]
  <2>1. /\ bRunning' = [bRunning EXCEPT ![t] = FALSE] /\ UNCHANGED <<bActive, heap>>
        /\ Do(t, <<"close", "release">>)
    BY <1>6 DEF InLoopStart
  <2>2. Left(t, 0, 1, 1)
    BY <2>1, DoLeaves
  <2>3. /\ bActive' \in [Timers -> BOOLEAN] /\ bActive'[t] = bActive[t]
        /\ \A u \in Timers : u # t => bActive'[u] = bActive[u]
        /\ bRunning' \in [Timers -> BOOLEAN] /\ \A u \in Timers : u # t => bRunning'[u] = bRunning[u]
        /\ heap' \subseteq Timers /\ heap' = heap
        /\ \A u \in Timers : u # t => (u \in heap' <=> u \in heap)
    BY <1>1, <2>1 DEF TypeOK
  <2> QED BY <1>2, <1>3, <1>6, <2>2, <2>3, TakenUp DEF One
<1>7. CASE bLoopRunning /\ ~zero[t] /\ bRunning[t]
  <2>1. /\ bActive' = [bActive EXCEPT ![t] = TRUE] /\ heap' = heap \cup {t}
        /\ bRunning' = bRunning /\ Do(t, <<>>)
    BY <1>7 DEF InLoopStart
  <2>2. Left(t, 0, 0, 0)
    BY <2>1, DoLeaves
  <2>3. /\ bActive' \in [Timers -> BOOLEAN] /\ bActive'[t]
        /\ \A u \in Timers : u # t => bActive'[u] = bActive[u]
        /\ heap' \subseteq Timers /\ t \in heap'
        /\ \A u \in Timers : u # t => (u \in heap' <=> u \in heap)
        /\ bRunning' \in [Timers -> BOOLEAN] /\ bRunning'[t]
        /\ \A u \in Timers : u # t => bRunning'[u] = bRunning[u]
    BY <1>1, <1>7, <2>1 DEF TypeOK
  <2> QED BY <1>2, <1>3, <1>7, <2>2, <2>3, TakenUp DEF One
<1>8. CASE bLoopRunning /\ ~zero[t] /\ ~bRunning[t]
  <2>1. UNCHANGED timerVars /\ Do(t, <<"close", "release">>)
    BY <1>8 DEF InLoopStart
  <2>2. Left(t, 0, 1, 1)
    BY <2>1, DoLeaves
  <2>3. /\ bActive' \in [Timers -> BOOLEAN] /\ bActive'[t] = bActive[t]
        /\ \A u \in Timers : u # t => bActive'[u] = bActive[u]
        /\ bRunning' \in [Timers -> BOOLEAN] /\ bRunning'[t] = bRunning[t]
        /\ \A u \in Timers : u # t => bRunning'[u] = bRunning[u]
        /\ heap' \subseteq Timers /\ heap' = heap
        /\ \A u \in Timers : u # t => (u \in heap' <=> u \in heap)
    BY <1>1, <2>1 DEF TypeOK, timerVars
  <2> QED BY <1>2, <1>3, <1>8, <2>2, <2>3, TakenUp DEF One
<1>9. zero[t] \in BOOLEAN /\ bRunning[t] \in BOOLEAN /\ bLoopRunning \in BOOLEAN
  BY <1>1 DEF TypeOK
<1> QED BY <1>4, <1>5, <1>6, <1>7, <1>8, <1>9

\* Work and WorkInline differ in where the item comes from.
LEMMA HandleKeepsInv ==
  ASSUME Inv, todo = <<>>, NEW item \in Items, Handle(item),
         UNCHANGED <<loopVars, watcherVars, refVars, serviceVars, history>>,
         queue' \in Seq(Items), inline' \in Items \cup {NoItem},
         \A op, u : /\ Pending(op, u)' = Pending(op, u) - One(item = [op |-> op, timer |-> u])
                    /\ item = [op |-> op, timer |-> u] => Pending(op, u) > 0
  PROVE  Inv'
<1>1. item.op \in {"start", "stop"} /\ item.timer \in Timers
  BY DEF Items
<1>2. PICK t \in Timers : t = item.timer
  BY <1>1
<1>3. \A op, u : item = [op |-> op, timer |-> u] <=> item.op = op /\ t = u
  BY <1>2, SameItem
<1>4. \A op, u : Pending(op, u) \in Nat
  BY CountsAreNat DEF Inv
<1>5. CASE item.op = "start"
  <2>1. IF bLoopRunning THEN InLoopStart(t) ELSE InLoopCancel(t)
    BY <1>2, <1>5 DEF Handle
  <2>2. Pending("start", t) > 0 /\ Pending("start", t)' = Pending("start", t) - 1
    BY <1>3, <1>4, <1>5 DEF One
  <2>3. /\ Pending("stop", t)' = Pending("stop", t)
        /\ \A u \in Timers : u # t => /\ Pending("start", u)' = Pending("start", u)
                                      /\ Pending("stop", u)' = Pending("stop", u)
    BY <1>3, <1>4, <1>5 DEF One
  <2> QED BY <2>1, <2>2, <2>3, StartHandled
<1>6. CASE item.op = "stop"
  <2>1. InLoopStop(t)
    BY <1>2, <1>6 DEF Handle
  <2>2. Pending("stop", t) > 0 /\ Pending("stop", t)' = Pending("stop", t) - 1
    BY <1>3, <1>4, <1>6 DEF One
  <2>3. /\ Pending("start", t)' = Pending("start", t)
        /\ \A u \in Timers : u # t => /\ Pending("start", u)' = Pending("start", u)
                                      /\ Pending("stop", u)' = Pending("stop", u)
    BY <1>3, <1>4, <1>6 DEF One
  <2> QED BY <2>1, <2>2, <2>3, StopHandled
<1> QED BY <1>1, <1>5, <1>6

LEMMA WorkKeepsInv == ASSUME Inv, Work PROVE Inv'
<1>1. TypeOK
  BY DEF Inv
<1>2. PICK item : item = Head(queue)
  OBVIOUS
<1>3. /\ todo = <<>> /\ queue # <<>> /\ Handle(item) /\ queue' = Tail(queue)
      /\ inline' = inline
      /\ UNCHANGED <<loopVars, watcherVars, refVars, serviceVars, history>>
  BY <1>2 DEF Work, DispatcherMay
<1>4. item \in Items /\ queue' \in Seq(Items) /\ inline' \in Items \cup {NoItem}
  BY <1>1, <1>2, <1>3 DEF TypeOK
<1>5. \A op, u : /\ Pending(op, u)' = Pending(op, u) - One(item = [op |-> op, timer |-> u])
                 /\ item = [op |-> op, timer |-> u] => Pending(op, u) > 0
  BY <1>1, <1>2, <1>3, PendingLess
<1> QED BY <1>3, <1>4, <1>5, HandleKeepsInv

LEMMA WorkInlineKeepsInv == ASSUME Inv, WorkInline PROVE Inv'
<1>1. TypeOK
  BY DEF Inv
<1>2. PICK item : item = inline
  OBVIOUS
<1>3. /\ todo = <<>> /\ inline # NoItem /\ Handle(item) /\ inline' = NoItem /\ queue' = queue
      /\ UNCHANGED <<loopVars, watcherVars, refVars, serviceVars, history>>
  BY <1>2 DEF WorkInline
<1>4. item \in Items /\ queue' \in Seq(Items) /\ inline' \in Items \cup {NoItem}
  BY <1>1, <1>2, <1>3 DEF TypeOK
<1>5. \A op, u : /\ Pending(op, u)' = Pending(op, u) - One(item = [op |-> op, timer |-> u])
                 /\ item = [op |-> op, timer |-> u] => Pending(op, u) > 0
  BY <1>1, <1>2, <1>3, PendingDone
<1> QED BY <1>3, <1>4, <1>5, HandleKeepsInv

LEMMA FireKeepsInv == ASSUME Inv, NEW t \in Timers, Fire(t) PROVE Inv'
<1>1. TypeOK /\ TimerInv(t)
  BY DEF Inv
<1>2. /\ todo = <<>> /\ t \in heap
      /\ queue' = queue /\ inline' = inline
      /\ UNCHANGED <<loopVars, watcherVars, refVars, serviceVars, history>>
  BY DEF Fire, DispatcherMay
<1>3. /\ \A op, u : Pending(op, u)' = Pending(op, u)
      /\ queue' \in Seq(Items) /\ inline' \in Items \cup {NoItem}
  BY <1>1, <1>2, PendingSame DEF TypeOK
<1>4. Pending("start", t)' = 0 /\ Pending("start", t) + One(t \in heap) > 0
      /\ ~zero[t]
  <2>1. Pending("start", t) + 1 + 0 + closes[t] <= 1
    BY <1>1, <1>2, CountEmpty DEF TimerInv, ClosedOnce, One
  <2>2. closes[t] \in Nat /\ Pending("start", t) \in Nat
    BY <1>1, CountsAreNat DEF TypeOK
  <2> QED BY <1>1, <1>2, <1>3, <2>1, <2>2 DEF One, TimerInv, ClosedOnce
<1>5. CASE (bOnce(t) \/ ~bRunning[t]) /\ bRunning[t]
  <2>1. /\ heap' = heap \ {t} /\ bActive' = [bActive EXCEPT ![t] = FALSE]
        /\ bRunning' = [bRunning EXCEPT ![t] = FALSE] /\ Do(t, <<"fn", "close", "release">>)
    BY <1>5 DEF Fire
  <2>2. Left(t, 1, 1, 1)
    BY <2>1, DoLeaves
  <2>3. /\ bActive' \in [Timers -> BOOLEAN] /\ ~bActive'[t]
        /\ \A u \in Timers : u # t => bActive'[u] = bActive[u]
        /\ bRunning' \in [Timers -> BOOLEAN] /\ \A u \in Timers : u # t => bRunning'[u] = bRunning[u]
        /\ heap' \subseteq Timers /\ t \notin heap'
        /\ \A u \in Timers : u # t => (u \in heap' <=> u \in heap)
    BY <1>1, <2>1 DEF TypeOK
  <2> QED BY <1>2, <1>3, <1>4, <2>2, <2>3, TakenUp DEF One
<1>6. CASE ~bRunning[t]
  <2>1. /\ heap' = heap \ {t} /\ bActive' = [bActive EXCEPT ![t] = FALSE]
        /\ bRunning' = [bRunning EXCEPT ![t] = FALSE] /\ Do(t, <<"close", "release">>)
    BY <1>6 DEF Fire
  <2>2. Left(t, 0, 1, 1)
    BY <2>1, DoLeaves
  <2>3. /\ bActive' \in [Timers -> BOOLEAN] /\ ~bActive'[t]
        /\ \A u \in Timers : u # t => bActive'[u] = bActive[u]
        /\ bRunning' \in [Timers -> BOOLEAN] /\ \A u \in Timers : u # t => bRunning'[u] = bRunning[u]
        /\ heap' \subseteq Timers /\ t \notin heap'
        /\ \A u \in Timers : u # t => (u \in heap' <=> u \in heap)
    BY <1>1, <2>1 DEF TypeOK
  <2> QED BY <1>2, <1>3, <1>4, <1>6, <2>2, <2>3, TakenUp DEF One
<1>7. CASE ~bOnce(t) /\ bRunning[t]
  <2>1. Do(t, <<"fn">>) /\ UNCHANGED timerVars
    BY <1>7 DEF Fire
  <2>2. Left(t, 1, 0, 0)
    BY <2>1, DoLeaves
  <2>3. /\ bActive' \in [Timers -> BOOLEAN] /\ bActive'[t] = bActive[t]
        /\ \A u \in Timers : u # t => bActive'[u] = bActive[u]
        /\ bRunning' \in [Timers -> BOOLEAN] /\ bRunning'[t] = bRunning[t]
        /\ \A u \in Timers : u # t => bRunning'[u] = bRunning[u]
        /\ heap' \subseteq Timers /\ heap' = heap
        /\ \A u \in Timers : u # t => (u \in heap' <=> u \in heap)
    BY <1>1, <2>1 DEF TypeOK, timerVars
  <2>4. bActive[t] /\ kind[t] # "timeout"
    BY <1>1, <1>2, <1>7 DEF TimerInv, ClosedOnce, bOnce
  <2>5. t \in heap' /\ bActive'[t] /\ One(t \in heap') + 0 = 1
    BY <1>2, <2>3, <2>4 DEF One
  <2>6. ~(bOnce(t) \/ zero[t])
    BY <1>4, <1>7
  <2> QED BY <1>2, <1>3, <1>4, <2>2, <2>3, <2>4, <2>5, <2>6, TakenUp
<1> QED BY <1>5, <1>6, <1>7

\* The first of the steps it has left is done.
LEMMA DoneOnce ==
  ASSUME Inv, NEW step \in {"fn", "close", "release"}, Doing(step), NEW t, t = at
  PROVE  /\ t \in Timers /\ todo' \in Seq(Steps)
         /\ \A i \in DOMAIN todo' : todo'[i][1] = "fn" => i = 1
         /\ \A u : Count(todo', <<"fn", u>>) = 0
         /\ \A s, u : Count(todo', <<s, u>>) = Count(todo, <<s, u>>) - Same(<<step, t>>, <<s, u>>)
         /\ Count(todo, <<step, t>>) > 0
         /\ \A x : Count(todo, x) \in Nat /\ Count(todo', x) \in Nat
<1>1. TypeOK /\ StopInv
  BY DEF Inv
<1>2. todo # <<>> /\ todo' = Tail(todo) /\ Head(todo)[1] = step /\ Head(todo)[2] = t
  BY DEF Doing, at
<1>3. /\ todo \in Seq(Steps) /\ todo' \in Seq(Steps) /\ Head(todo) \in Steps
      /\ \A i \in 1..Len(todo') : i + 1 \in 1..Len(todo) /\ todo'[i] = todo[i + 1]
      /\ DOMAIN todo' = 1..Len(todo') /\ DOMAIN todo = 1..Len(todo) /\ Len(todo') \in Nat
  BY <1>1, <1>2 DEF TypeOK
<1>4. Head(todo) = <<step, t>> /\ t \in Timers
  BY <1>2, <1>3 DEF Steps
<1>5. \A i \in DOMAIN todo' : todo'[i][1] # "fn"
  BY <1>1, <1>3 DEF StopInv
<1>6. \A u : Count(todo', <<"fn", u>>) = 0
  <2> TAKE u
  <2>1. \A i \in DOMAIN todo' : todo'[i] # <<"fn", u>>
    BY <1>5
  <2> QED BY <2>1, CountNone
<1>7. \A x : /\ Count(todo', x) = Count(todo, x) - Same(<<step, t>>, x)
             /\ Count(todo, x) \in Nat /\ Count(todo', x) \in Nat
  <2> TAKE x
  <2>1. Count(todo', x) = Count(todo, x) - One(Head(todo) = x)
    BY <1>2, <1>3, CountTail
  <2>2. One(Head(todo) = x) = Same(<<step, t>>, x)
    BY <1>4 DEF One, Same
  <2> QED BY <1>3, <2>1, <2>2, CountType
<1>8. Count(todo, <<step, t>>) > 0
  BY <1>2, <1>3, <1>4, CountPositive
<1> QED BY <1>3, <1>4, <1>5, <1>6, <1>7, <1>8

LEMMA SameStep ==
  \A r, t, s, u : Same(<<r, t>>, <<s, u>>) = IF r = s /\ t = u THEN 1 ELSE 0
BY DEF Same

LEMMA TriggeredKeepsInv == ASSUME Inv, Triggered PROVE Inv'
<1>0. PICK t : t = at
  OBVIOUS
<1>1. TypeOK /\ StopInv /\ \A u \in Timers : TimerInv(u)
  BY DEF Inv
<1>2. /\ Doing("fn")
      /\ UNCHANGED <<loopVars, watcherVars, timerVars, timerRefs, pEventTimer, queue, inline,
                     current, calling, pc, arg, history>>
  BY DEF Triggered
<1>3. /\ t \in Timers /\ todo' \in Seq(Steps)
      /\ \A i \in DOMAIN todo' : todo'[i][1] = "fn" => i = 1
      /\ \A u : Count(todo', <<"fn", u>>) = 0
      /\ \A s, u : Count(todo', <<s, u>>) = Count(todo, <<s, u>>) - Same(<<"fn", t>>, <<s, u>>)
      /\ Count(todo, <<"fn", t>>) > 0
      /\ \A x : Count(todo, x) \in Nat /\ Count(todo', x) \in Nat
  BY <1>0, <1>2, DoneOnce
<1>4. \A u : \A s \in {"close", "release"} : Count(todo', <<s, u>>) = Count(todo, <<s, u>>)
  BY <1>3, SameStep
<1>5. \A op, u : Pending(op, u)' = Pending(op, u)
  BY <1>2, PendingSame
<1>5a. PICK n \in {0, 1} : n = IF running THEN 1 ELSE 0
  OBVIOUS
<1>6. /\ mailbox' \in Seq(Timers) /\ watcherRefs' \in [Timers -> Int]
      /\ Count(mailbox', t) = Count(mailbox, t) + n
      /\ watcherRefs'[t] = watcherRefs[t] + n
      /\ \A u \in Timers : u # t => /\ Count(mailbox', u) = Count(mailbox, u)
                                    /\ watcherRefs'[u] = watcherRefs[u]
  <2>1. CASE running
    <3>1. mailbox' = Append(mailbox, t) /\ watcherRefs' = Add(watcherRefs, t, 1)
      BY <1>0, <2>1 DEF Triggered
    <3>2. \A u : Count(mailbox', u) = Count(mailbox, u) + One(t = u) /\ Count(mailbox, u) \in Nat
      <4>1. mailbox \in Seq(Timers)
        BY <1>1 DEF TypeOK
      <4>2. \A u : Count(mailbox, u) \in Nat
        BY <1>1, CountsAreNat
      <4>3. \A u : Count(Append(mailbox, t), u) = Count(mailbox, u) + One(t = u)
        BY <1>3, <4>1, CountAppend
      <4> QED BY <3>1, <4>2, <4>3
    <3>3. /\ Count(mailbox', t) = Count(mailbox, t) + 1
          /\ \A u \in Timers : u # t => Count(mailbox', u) = Count(mailbox, u)
      BY <3>2 DEF One
    <3>4. /\ mailbox' \in Seq(Timers) /\ watcherRefs' \in [Timers -> Int]
          /\ watcherRefs'[t] = watcherRefs[t] + 1
          /\ \A u \in Timers : u # t => watcherRefs'[u] = watcherRefs[u]
      BY <1>1, <1>3, <3>1, SMTT(30) DEF TypeOK, Add
    <3> QED BY <1>5a, <2>1, <3>3, <3>4
  <2>2. CASE ~running
    <3>1. mailbox' = mailbox /\ watcherRefs' = watcherRefs
      BY <2>2 DEF Triggered
    <3>2. Count(mailbox, t) \in Nat /\ watcherRefs[t] \in Int
      BY <1>1, <1>3, CountsAreNat DEF TypeOK
    <3> QED BY <1>5a, <1>1, <2>2, <3>1, <3>2 DEF TypeOK
  <2> QED BY <2>1, <2>2
<1> USE DEF loopVars, watcherVars, timerVars, history
<1>7. TypeOK'
  BY <1>1, <1>2, <1>3, <1>6 DEF TypeOK
<1>8. StopInv'
  BY <1>1, <1>2, <1>3 DEF StopInv
<1>9. TimerInv(t)'
  <2>1. /\ TimerInv(t) /\ t # None
        /\ watcherRefs[t] = WatcherHolders(t) /\ timerRefs[t] = TimerHolders(t)
    BY <1>1, <1>3, NoneIsNoTimer DEF TimerInv, RefsCounted
  <2>2. /\ Count(mailbox, t) \in Nat /\ Count(todo, <<"fn", t>>) \in Nat /\ watcherRefs[t] \in Int
        /\ Pending("start", t) \in Nat /\ (running => n = 1)
    BY <1>5a, <1>1, <1>3, CountsAreNat DEF TypeOK
  <2>3. kind[t] # "none" /\ closes[t] = 0
    BY <1>3, <2>1 DEF TimerInv, Untouched, ClosedOnce
  <2>4. watcherRefs[t] # 0
    BY <2>1, <2>2, <2>3 DEF WatcherHolders, One
  <2>5. Untouched(t)' /\ HandleKept(t)'
    BY <1>2, <1>5, <2>1, <2>3, <2>4 DEF TimerInv, Untouched, HandleKept
  <2>6. ClosedOnce(t)'
    BY <1>2, <1>3, <1>4, <1>5, <2>1, <2>3 DEF TimerInv, ClosedOnce
  <2>7. watcherRefs'[t] = WatcherHolders(t)'
    <3> DEFINE a == One(handle[t] = "held") + One(kind[t] = "timeout" /\ arg = t)
                      + One(kind[t] # "none" /\ closes[t] = 0)
               b == One(current = t)
    <3>1. WatcherHolders(t) = a + Count(mailbox, t) + b
      BY DEF WatcherHolders
    <3>2. WatcherHolders(t)' = a + Count(mailbox', t) + b
      BY <1>2 DEF WatcherHolders
    <3>3. a \in Nat /\ b \in Nat
      BY DEF One
    <3> HIDE DEF a, b
    <3> QED BY <1>6, <2>1, <2>2, <3>1, <3>2, <3>3
  <2>8. timerRefs'[t] = TimerHolders(t)'
    BY <1>2, <1>4, <1>5, <2>1 DEF TimerHolders
  <2>9. FiredOnce(t)'
    <3> DEFINE h == One(t \in heap)
               d == One(t \in delivered)
               p == Pending("start", t)
               m == Count(mailbox, t)
    <3>1. bOnce(t)' = bOnce(t)
      BY <1>2 DEF bOnce
    <3>2. h \in Nat /\ d \in Nat /\ p \in Nat /\ m \in Nat
      BY <2>2 DEF One
    <3>3. bOnce(t) \/ zero[t] => p + h + Count(todo, <<"fn", t>>) + m + d <= 1
      BY <2>1 DEF TimerInv, FiredOnce
    <3>4. FiredOnce(t)' <=> (bOnce(t) \/ zero[t] => p + h + 0 + (m + n) + d <= 1)
      BY <1>2, <1>3, <1>5, <1>6, <3>1 DEF FiredOnce
    <3> HIDE DEF h, d, p, m
    <3>5. p + h + Count(todo, <<"fn", t>>) + m + d <= 1 => p + h + 0 + (m + n) + d <= 1
      BY <1>3, <2>2, <3>2
    <3> QED BY <3>3, <3>4, <3>5
  <2>10. TimeoutKept(t)'
    <3> DEFINE d == One(t \in delivered)
               m == Count(mailbox', t)
    <3>1. running => m > 0
      BY <1>6, <2>2
    <3>2. d \in Nat /\ m \in Nat
      BY <1>6, <2>2 DEF One
    <3>3. /\ d = One(t \in delivered') /\ Count(todo', <<"fn", t>>) = 0 /\ running' = running
          /\ kind'[t] = kind[t] /\ bRunning' = bRunning
          /\ Pending("start", t)' + One(t \in heap') = Pending("start", t) + One(t \in heap)
      BY <1>2, <1>3, <1>5
    <3>4. kind[t] = "timeout" =>
            (Pending("start", t) + One(t \in heap) > 0 => bRunning[t])
      BY <2>1 DEF TimerInv, TimeoutKept
    <3>5. TimeoutKept(t)' <=>
            (kind[t] = "timeout" =>
               /\ Pending("start", t) + One(t \in heap) > 0 => bRunning[t]
               /\ Count(todo', <<"close", t>>) + closes'[t] > 0 /\ running => 0 + m + d > 0)
      BY <3>3 DEF TimeoutKept
    <3> HIDE DEF d, m
    <3> QED BY <3>1, <3>2, <3>4, <3>5
  <2> QED BY <2>5, <2>6, <2>7, <2>8, <2>9, <2>10 DEF TimerInv, RefsCounted
<1>10. ASSUME NEW u \in Timers, u # t
       PROVE  TimerInv(u)'
  <2>1. \A s \in {"fn", "close", "release"} : Count(todo', <<s, u>>) = Count(todo, <<s, u>>)
    BY <1>3, <1>10, SameStep
  <2> QED BY <1>1, <1>2, <1>5, <1>6, <1>10, <2>1, Unconcerned
<1>11. ASSUME NEW u \in Timers
       PROVE  TimerInv(u)'
  <2>1. CASE u = t
    BY <1>9, <2>1
  <2> QED BY <1>10, <2>1
<1> QED BY <1>7, <1>8, <1>11 DEF Inv

LEMMA ClosedKeepsInv == ASSUME Inv, Closed PROVE Inv'
<1>0. PICK t : t = at
  OBVIOUS
<1>1. TypeOK /\ StopInv /\ \A u \in Timers : TimerInv(u)
  BY DEF Inv
<1>2. /\ Doing("close") /\ WatcherRelease(t) /\ closes' = Add(closes, t, 1)
      /\ UNCHANGED <<loopVars, watcherVars, timerVars, queue, inline, serviceVars, delivered>>
  BY <1>0 DEF Closed
<1>3. /\ t \in Timers /\ todo' \in Seq(Steps)
      /\ \A i \in DOMAIN todo' : todo'[i][1] = "fn" => i = 1
      /\ \A u : Count(todo', <<"fn", u>>) = 0
      /\ \A s, u : Count(todo', <<s, u>>) = Count(todo, <<s, u>>) - Same(<<"close", t>>, <<s, u>>)
      /\ Count(todo, <<"close", t>>) > 0
      /\ \A x : Count(todo, x) \in Nat /\ Count(todo', x) \in Nat
  BY <1>0, <1>2, DoneOnce
<1>4. /\ \A u : \A s \in {"fn", "release"} : Count(todo', <<s, u>>) = Count(todo, <<s, u>>)
      /\ Count(todo', <<"close", t>>) = Count(todo, <<"close", t>>) - 1
  BY <1>3, SameStep
<1>5. \A op, u : Pending(op, u)' = Pending(op, u)
  BY <1>2, PendingSame
<1>6. /\ watcherRefs' \in [Timers -> Int] /\ timerRefs' \in [Timers -> Int]
      /\ pEventTimer' \in [Timers -> BOOLEAN]
      /\ \A u \in Timers : u # t => /\ watcherRefs'[u] = watcherRefs[u]
                                    /\ timerRefs'[u] = timerRefs[u]
                                    /\ pEventTimer'[u] = pEventTimer[u]
  BY <1>1, <1>2, <1>3, ReleaseFacts
<1>7. /\ watcherRefs'[t] = watcherRefs[t] - 1
      /\ IF watcherRefs[t] = 1 /\ pEventTimer[t]
         THEN timerRefs'[t] = timerRefs[t] - 1 /\ ~pEventTimer'[t]
         ELSE timerRefs'[t] = timerRefs[t] /\ pEventTimer'[t] = pEventTimer[t]
  BY <1>1, <1>2, <1>3, ReleaseFacts
<1>8. /\ closes' \in [Timers -> Nat] /\ closes'[t] = closes[t] + 1
      /\ \A u \in Timers : u # t => closes'[u] = closes[u]
  BY <1>1, <1>2, <1>3, SMTT(30) DEF TypeOK, Add
<1> USE DEF loopVars, watcherVars, timerVars, serviceVars
<1>9. TypeOK'
  BY <1>1, <1>2, <1>3, <1>6, <1>8 DEF TypeOK
<1>10. TimerInv(t)'
  <2>1. /\ TimerInv(t) /\ t # None
        /\ watcherRefs[t] = WatcherHolders(t) /\ timerRefs[t] = TimerHolders(t)
    BY <1>1, <1>3, NoneIsNoTimer DEF TimerInv, RefsCounted
  <2>2. /\ Count(todo, <<"release", t>>) \in Nat /\ Count(mailbox, t) \in Nat
        /\ timerRefs[t] \in Int /\ watcherRefs[t] \in Int
        /\ Pending("start", t) \in Nat /\ closes[t] \in Nat /\ One(t \in heap) \in Nat
    BY <1>1, <1>3, CountsAreNat DEF TypeOK, One
  <2>3. kind[t] # "none" /\ closes[t] = 0
    <3>1. Pending("start", t) + One(t \in heap) + Count(todo, <<"close", t>>) + closes[t] <= 1
      BY <2>1 DEF TimerInv, ClosedOnce
    <3> QED BY <1>3, <2>1, <2>2, <3>1, SMTT(30) DEF TimerInv, Untouched
  <2>4. watcherRefs'[t] = WatcherHolders(t)'
    BY <1>2, <1>7, <1>8, <2>1, <2>2, <2>3 DEF WatcherHolders, One
  <2>5. timerRefs'[t] = TimerHolders(t)'
    <3> DEFINE p == One(t \in heap) + Pending("start", t) + Pending("stop", t)
                      + One(pc = "insert" /\ arg = t) + Count(todo, <<"release", t>>)
    <3>1. TimerHolders(t) = One(pEventTimer[t]) + p
      <4>1. /\ Pending("stop", t) \in Nat /\ One(pEventTimer[t]) \in Nat
            /\ One(pc = "insert" /\ arg = t) \in Nat
        BY <1>1, CountsAreNat DEF One
      <4> QED BY <2>2, <4>1 DEF TimerHolders
    <3>2. TimerHolders(t)' = One(pEventTimer'[t]) + p
      <4>1. /\ Pending("stop", t) \in Nat /\ One(pEventTimer'[t]) \in Nat
            /\ One(pc = "insert" /\ arg = t) \in Nat
        BY <1>1, CountsAreNat DEF One
      <4>2. Count(todo', <<"release", t>>) = Count(todo, <<"release", t>>)
        BY <1>4
      <4> QED BY <1>2, <1>5, <2>2, <4>1, <4>2 DEF TimerHolders
    <3>3. p \in Nat
      BY <1>1, <2>2, CountsAreNat DEF One
    <3> HIDE DEF p
    <3> QED BY <1>7, <2>1, <2>2, <3>1, <3>2, <3>3 DEF One
  <2>6. Untouched(t)'
    BY <1>2, <2>3 DEF Untouched
  <2>7. ClosedOnce(t)'
    <3>1. Pending("start", t) + One(t \in heap) + Count(todo, <<"close", t>>) + closes[t] <= 1
      BY <2>1 DEF TimerInv, ClosedOnce
    <3>2. Pending("start", t)' + One(t \in heap)' + Count(todo', <<"close", t>>) + closes'[t] <= 1
      BY <1>2, <1>3, <1>4, <1>5, <1>8, <2>2, <3>1, SMTT(30)
    <3>3. Count(todo', <<"fn", t>>) = 0
      BY <1>3
    <3> QED BY <1>2, <2>1, <3>2, <3>3 DEF TimerInv, ClosedOnce
  <2>8. HandleKept(t)'
    <3>1. handle[t] = "held" => watcherRefs[t] # 1
      BY <2>1, <2>2, <2>3 DEF WatcherHolders, One
    <3>2. kind[t] = "timeout" /\ watcherRefs'[t] # 0 => pEventTimer'[t]
      <4>1. watcherRefs[t] # 0
        BY <2>1, <2>2, <2>3 DEF WatcherHolders, One
      <4> QED BY <1>7, <2>1, <4>1 DEF TimerInv, HandleKept
    <3>3. pEventTimer'[t] => pEventTimer[t]
      BY <1>7
    <3>4. handle[t] = "held" => pEventTimer'[t] = pEventTimer[t]
      BY <1>7, <3>1
    <3> QED BY <1>2, <1>5, <2>1, <3>2, <3>3, <3>4 DEF TimerInv, HandleKept
  <2>9. FiredOnce(t)'
    BY <1>2, <1>4, <1>5, <2>1 DEF TimerInv, FiredOnce, bOnce
  <2>10. TimeoutKept(t)'
    <3>1. kind[t] = "timeout" =>
            (running => Count(todo, <<"fn", t>>) + Count(mailbox, t) + One(t \in delivered) > 0)
      BY <1>3, <2>1, <2>2, <2>3 DEF TimerInv, TimeoutKept
    <3>2. kind[t] = "timeout" => (Pending("start", t) + One(t \in heap) > 0 => bRunning[t])
      BY <2>1 DEF TimerInv, TimeoutKept
    <3>3. /\ One(t \in delivered') = One(t \in delivered) /\ One(t \in heap') = One(t \in heap)
          /\ Count(todo', <<"fn", t>>) = Count(todo, <<"fn", t>>) /\ mailbox' = mailbox
          /\ running' = running /\ kind' = kind /\ bRunning' = bRunning
      BY <1>2, <1>4
    <3> QED BY <1>5, <3>1, <3>2, <3>3 DEF TimeoutKept
  <2> QED BY <2>4, <2>5, <2>6, <2>7, <2>8, <2>9, <2>10 DEF TimerInv, RefsCounted
<1>11. StopInv'
  <2>1. ASSUME pc = "release"
        PROVE  kind[arg] = "timeout" \/ (handle[arg] = "held" /\ ~pEventTimer'[arg])
    <3>1. arg \in Timers
      BY <1>1, <2>1 DEF StopInv, TypeOK
    <3>2. pEventTimer'[arg] => pEventTimer[arg]
      BY <1>6, <1>7, <3>1
    <3> QED BY <1>1, <2>1, <3>2 DEF StopInv
  <2> QED BY <1>1, <1>2, <1>3, <2>1 DEF StopInv
<1>12. ASSUME NEW u \in Timers, u # t
       PROVE  TimerInv(u)'
  <2>1. \A s \in {"fn", "close", "release"} : Count(todo', <<s, u>>) = Count(todo, <<s, u>>)
    BY <1>3, <1>12, SameStep
  <2> QED BY <1>1, <1>2, <1>5, <1>6, <1>8, <1>12, <2>1, Unconcerned
<1>13. ASSUME NEW u \in Timers
       PROVE  TimerInv(u)'
  <2>1. CASE u = t
    BY <1>10, <2>1
  <2> QED BY <1>12, <2>1
<1> QED BY <1>9, <1>11, <1>13 DEF Inv

LEMMA ReleasedKeepsInv == ASSUME Inv, Released PROVE Inv'
<1>0. PICK t : t = at
  OBVIOUS
<1>1. TypeOK /\ StopInv /\ \A u \in Timers : TimerInv(u)
  BY DEF Inv
<1>2. /\ Doing("release") /\ timerRefs' = Add(timerRefs, t, -1)
      /\ UNCHANGED <<loopVars, watcherVars, timerVars, watcherRefs, pEventTimer, queue, inline,
                     serviceVars, history>>
  BY <1>0 DEF Released
<1>3. /\ t \in Timers /\ todo' \in Seq(Steps)
      /\ \A i \in DOMAIN todo' : todo'[i][1] = "fn" => i = 1
      /\ \A s, u : Count(todo', <<s, u>>) = Count(todo, <<s, u>>) - Same(<<"release", t>>, <<s, u>>)
      /\ \A x : Count(todo, x) \in Nat /\ Count(todo', x) \in Nat
  BY <1>0, <1>2, DoneOnce
<1>4. /\ \A u : \A s \in {"fn", "close"} : Count(todo', <<s, u>>) = Count(todo, <<s, u>>)
      /\ Count(todo', <<"release", t>>) = Count(todo, <<"release", t>>) - 1
  BY <1>3, SameStep
<1>5. \A op, u : Pending(op, u)' = Pending(op, u)
  BY <1>2, PendingSame
<1>6. /\ timerRefs' \in [Timers -> Int] /\ timerRefs'[t] = timerRefs[t] - 1
      /\ \A u \in Timers : u # t => timerRefs'[u] = timerRefs[u]
  BY <1>1, <1>2, <1>3, SMTT(30) DEF TypeOK, Add
<1> USE DEF loopVars, watcherVars, timerVars, serviceVars, history
<1>7. TypeOK'
  BY <1>1, <1>2, <1>3, <1>6 DEF TypeOK
<1>8. StopInv'
  BY <1>1, <1>2, <1>3 DEF StopInv
<1>9. TimerInv(t)'
  <2>1. TimerInv(t) /\ Count(todo, <<"release", t>>) \in Nat /\ Pending("start", t) \in Nat
        /\ Count(todo', <<"release", t>>) \in Nat
    BY <1>1, <1>3, CountsAreNat
  <2>2. kind[t] # "none"
    BY <1>4, <2>1 DEF TimerInv, Untouched
  <2>3. Untouched(t)' /\ HandleKept(t)'
    BY <1>2, <1>5, <2>1, <2>2 DEF TimerInv, Untouched, HandleKept
  <2>4. ClosedOnce(t)' /\ FiredOnce(t)' /\ TimeoutKept(t)'
    BY <1>2, <1>4, <1>5, <2>1 DEF TimerInv, ClosedOnce, FiredOnce, TimeoutKept, bOnce
  <2>5. watcherRefs'[t] = WatcherHolders(t)'
    BY <1>2, <2>1 DEF TimerInv, RefsCounted, WatcherHolders
  <2>6. timerRefs'[t] = TimerHolders(t)'
    <3> DEFINE p == One(pEventTimer[t]) + One(t \in heap) + Pending("start", t)
                      + Pending("stop", t) + One(pc = "insert" /\ arg = t)
    <3>1. timerRefs[t] = p + Count(todo, <<"release", t>>)
      BY <2>1 DEF TimerInv, RefsCounted, TimerHolders
    <3>2. TimerHolders(t)' = p + Count(todo', <<"release", t>>)
      BY <1>2, <1>5 DEF TimerHolders
    <3>3. p \in Nat
      BY <1>1, <2>1, CountsAreNat DEF One
    <3> HIDE DEF p
    <3> QED BY <1>4, <1>6, <2>1, <3>1, <3>2, <3>3
  <2> QED BY <2>3, <2>4, <2>5, <2>6 DEF TimerInv, RefsCounted
<1>10. ASSUME NEW u \in Timers, u # t
       PROVE  TimerInv(u)'
  <2>1. \A s \in {"fn", "close", "release"} : Count(todo', <<s, u>>) = Count(todo, <<s, u>>)
    BY <1>3, <1>10, SameStep
  <2> QED BY <1>1, <1>2, <1>5, <1>6, <1>10, <2>1, Unconcerned
<1>11. ASSUME NEW u \in Timers
       PROVE  TimerInv(u)'
  <2>1. CASE u = t
    BY <1>9, <2>1
  <2> QED BY <1>10, <2>1
<1> QED BY <1>7, <1>8, <1>11 DEF Inv

-----------------------------------------------------------------------------
(* The theorems. *)

LEMMA NextKeepsInv == ASSUME Inv, [Next]_vars PROVE Inv'
<1>1. CASE Next
  <2>1. CASE ServiceGoesOn
    BY <2>1, StopInsertKeepsInv, StopDropKeepsInv, StopReleaseKeepsInv, EventEndKeepsInv
      DEF ServiceGoesOn
  <2>2. CASE EventBegin
    BY <2>2, EventBeginKeepsInv
  <2>3. CASE ServiceStop \/ EventIOStop \/ Return
    BY <2>3, StopsKeepInv
  <2>4. ASSUME NEW t \in Timers, StopCas(t) \/ Fire(t)
        PROVE  Inv'
    BY <2>4, StopCasKeepsInv, FireKeepsInv
  <2>5. ASSUME NEW t \in Timers, NEW z \in BOOLEAN, NEW k \in {"timeout", "after", "every"},
               Start(t, k, z)
        PROVE  Inv'
    BY <2>5, StartKeepsInv
  <2>6. CASE Work \/ WorkInline
    BY <2>6, WorkKeepsInv, WorkInlineKeepsInv
  <2>7. CASE DoNext
    BY <2>7, TriggeredKeepsInv, ClosedKeepsInv, ReleasedKeepsInv DEF DoNext
  <2> QED BY <1>1, <2>1, <2>2, <2>3, <2>4, <2>5, <2>6, <2>7 DEF Next
<1>2. CASE UNCHANGED vars
  <2>1. UNCHANGED <<loopVars, watcherVars, timerVars, refVars, queue, inline, todo, serviceVars,
                    history>>
    BY <1>2 DEF vars
  <2> USE DEF loopVars, watcherVars, timerVars, refVars, serviceVars, history
  <2>2. \A op, u : Pending(op, u)' = Pending(op, u)
    BY <2>1, PendingSame
  <2>3. TypeOK' /\ StopInv'
    BY <2>1 DEF Inv, TypeOK, StopInv
  <2>4. \A u \in Timers : TimerInv(u)'
    BY <2>1, <2>2, Unconcerned DEF Inv
  <2> QED BY <2>3, <2>4 DEF Inv
<1> QED BY <1>1, <1>2

\* The variables keep to their types (TypeOK), and with them all the rest of
\* what the steps of createTimerWatcher, eventTimer_stop, eventTimer_run and
\* the releases rely on, for any number of timers.
THEOREM InvHolds == Spec => []Inv
<1>1. Init => Inv
  BY InitInv
<1>2. Inv /\ [Next]_vars => Inv'
  BY NextKeepsInv
<1> QED BY <1>1, <1>2, PTL DEF Spec

\* timerWatcher_s.iRefCount and eventTimer_s.iRefCount count exactly the
\* pointers that will still be used: the Lua handle, the timer until its close
\* callback, every event in the mailbox; the watcher, the heap, every start and
\* stop on its way and every release the dispatching thread is about to do.  A
\* handle that is held has a timer to stop.
THEOREM RefsAreExact == Spec => []RefsMatchHolders
<1>1. Inv => RefsMatchHolders
  BY DEF Inv, RefsMatchHolders, TimerInv, RefsCounted, HandleKept
<1> QED BY <1>1, InvHolds, PTL

\* service_eventCallback calls back for no timer that ltimerWatcher_stop was
\* done with, and for one that fires once only once.
THEOREM NoCallbackAstray == Spec => NoStrayCallback
<1>1. ASSUME Inv, [Next]_vars, calling', ~calling
      PROVE  /\ handle[current'] = "held" \/ kind[current'] = "timeout"
             /\ bOnce(current') \/ zero[current'] => current' \notin delivered
  <2>1. EventBegin
    <3>1. CASE ServiceGoesOn
      BY <1>1, <3>1 DEF ServiceGoesOn, StopInsert, StopDrop, StopRelease, EventEnd
    <3>2. CASE ServiceStop \/ EventIOStop \/ Return
      BY <1>1, <3>2 DEF ServiceStop, EventIOStop, Return, serviceVars
    <3>3. ASSUME NEW t \in Timers, StopCas(t) \/ Fire(t)
          PROVE  FALSE
      BY <1>1, <3>3 DEF StopCas, Fire, serviceVars
    <3>4. ASSUME NEW t \in Timers, NEW z \in BOOLEAN, NEW k \in {"timeout", "after", "every"},
                 Start(t, k, z)
          PROVE  FALSE
      BY <1>1, <3>4 DEF Start
    <3>5. CASE Work \/ WorkInline
      BY <1>1, <3>5 DEF Work, WorkInline, serviceVars
    <3>6. CASE DoNext
      BY <1>1, <3>6 DEF DoNext, Triggered, Closed, Released, serviceVars
    <3>7. CASE UNCHANGED vars
      BY <1>1, <3>7 DEF vars, serviceVars
    <3> QED BY <1>1, <3>1, <3>2, <3>3, <3>4, <3>5, <3>6, <3>7 DEF Next
  <2>2. PICK t : t = current'
    OBVIOUS
  <2>3. t = Head(mailbox) /\ mailbox # <<>> /\ pEventTimer[t] /\ t \in Timers /\ mailbox \in Seq(Timers)
    <3>1. mailbox # <<>> /\ current' = Head(mailbox) /\ calling' = pEventTimer[current']
      BY <2>1 DEF EventBegin
    <3>2. pEventTimer[t]
      BY <1>1, <2>2, <3>1
    <3>3. mailbox \in Seq(Timers)
      BY <1>1 DEF Inv, TypeOK
    <3> QED BY <2>2, <3>1, <3>2, <3>3
  <2>4. Count(mailbox, t) > 0
    BY <2>3, CountPositive
  <2>5. TimerInv(t) /\ TypeOK
    BY <1>1, <2>3 DEF Inv
  <2>6. handle[t] = "held" \/ kind[t] = "timeout"
    BY <2>3, <2>5 DEF TimerInv, HandleKept
  <2>7. bOnce(t) \/ zero[t] => t \notin delivered
    <3>1. /\ Pending("start", t) \in Nat /\ Count(todo, <<"fn", t>>) \in Nat
          /\ Count(mailbox, t) \in Nat
      BY <2>5, CountsAreNat
    <3> QED BY <2>4, <2>5, <3>1 DEF TimerInv, FiredOnce, One
  <2> QED BY <2>2, <2>6, <2>7
<1>2. Inv /\ [Next]_vars =>
        [calling' /\ ~calling =>
           LET t == current' IN /\ handle[t] = "held" \/ kind[t] = "timeout"
                                /\ bOnce(t) \/ zero[t] => t \notin delivered]_vars
  BY <1>1
<1> QED BY <1>2, InvHolds, PTL DEF Spec, NoStrayCallback

\* lservice_context_timeout's watcher, which the service released at once, is
\* freed only after service_eventCallback has passed its event on, unless the
\* service was stopped.
THEOREM TimeoutsArrive == Spec => []NoTimeoutLost
<1>1. ASSUME Inv, NEW t \in Timers, kind[t] = "timeout", watcherRefs[t] = 0
      PROVE  t \in delivered \/ ~running
  <2>1. TypeOK /\ TimerInv(t)
    BY <1>1 DEF Inv
  <2>2. Count(mailbox, t) \in Nat /\ Count(todo, <<"fn", t>>) \in Nat /\ Count(todo, <<"close", t>>) \in Nat
        /\ closes[t] \in Nat
    BY <2>1, CountsAreNat DEF TypeOK
  <2>3. closes[t] # 0 /\ Count(mailbox, t) = 0
    BY <1>1, <2>1, <2>2 DEF TimerInv, RefsCounted, WatcherHolders, One
  <2>4. Count(todo, <<"fn", t>>) = 0
    BY <2>1, <2>2, <2>3 DEF TimerInv, ClosedOnce
  <2>5. running => 0 + 0 + One(t \in delivered) > 0
    BY <1>1, <2>1, <2>2, <2>3, <2>4 DEF TimerInv, TimeoutKept
  <2> QED BY <2>5 DEF One
<1>2. Inv => NoTimeoutLost
  BY <1>1 DEF NoTimeoutLost
<1> QED BY <1>2, InvHolds, PTL
=============================================================================
