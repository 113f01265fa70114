-------------------------- MODULE ServiceCallProofs --------------------------
(***************************************************************************)
(* Proofs about the calls of ServiceCore and their answers, for any number *)
(* of services, coroutines and operations.                                 *)
(*                                                                         *)
(* As in ServiceCoreProofs, whose invariant of the tables is used here,    *)
(* the names of coroutines must not run out (Unlimited).                   *)
(***************************************************************************)
EXTENDS ServiceCoreProofs

-----------------------------------------------------------------------------
(* Queues of events, as what is among them *)

Among(b, A) == \E i \in 1..Len(b) : b[i] \in A
Once(b, A)  == \A i, j \in 1..Len(b) : b[i] \in A /\ b[j] \in A => i = j

\* An event is sent ...
LEMMA AppendAmong ==
  ASSUME NEW S, NEW b \in Seq(S), NEW e \in S
  PROVE  /\ \A A : Among(Append(b, e), A) <=> Among(b, A) \/ e \in A
         /\ \A A : Once(b, A) /\ (e \in A => ~Among(b, A)) => Once(Append(b, e), A)
<1> DEFINE p == Append(b, e)
<1>1. /\ Len(b) \in Nat /\ Len(p) = Len(b) + 1 /\ p[Len(b) + 1] = e
      /\ \A i \in 1..Len(b) : p[i] = b[i] /\ i \in 1..Len(p)
      /\ Len(b) + 1 \in 1..Len(p)
      /\ \A i \in 1..Len(p) : i \in 1..Len(b) \/ i = Len(b) + 1
  OBVIOUS
<1> HIDE DEF p
<1>2. ASSUME NEW A PROVE Among(p, A) <=> Among(b, A) \/ e \in A
  BY <1>1 DEF Among
<1>3. ASSUME NEW A, Once(b, A), e \in A => ~Among(b, A) PROVE Once(p, A)
  <2>1. ASSUME NEW i \in 1..Len(p), NEW j \in 1..Len(p), p[i] \in A, p[j] \in A PROVE i = j
    BY <1>1, <1>3, <2>1 DEF Among, Once
  <2>2. QED BY <2>1 DEF Once
<1>4. QED BY <1>2, <1>3 DEF p

\* ... taken ...
LEMMA TailAmong ==
  ASSUME NEW S, NEW b \in Seq(S), b # <<>>
  PROVE  /\ \A A : Among(b, A) <=> Head(b) \in A \/ Among(Tail(b), A)
         /\ \A A : Once(b, A) => Once(Tail(b), A) /\ (Head(b) \in A => ~Among(Tail(b), A))
<1> DEFINE p == Tail(b)
           n == Len(b)
<1>1. n \in Nat \ {0} /\ Head(b) = b[1]
  BY NonEmpty
<1>2. Len(p) = n - 1 /\ \A i \in 1..(n - 1) : p[i] = b[i + 1]
  BY TailOf
<1> HIDE DEF p, n
<1>3. /\ 1 \in 1..n /\ \A i \in 1..(n - 1) : i + 1 \in 1..n /\ i + 1 # 1
      /\ \A i \in 1..n : i = 1 \/ (i - 1 \in 1..(n - 1) /\ (i - 1) + 1 = i)
      /\ \A i, j \in 1..(n - 1) : i + 1 = j + 1 => i = j
  BY <1>1
<1>4. ASSUME NEW A PROVE Among(b, A) <=> Head(b) \in A \/ Among(p, A)
  <2>1. ASSUME NEW i \in 1..n, b[i] \in A PROVE Head(b) \in A \/ Among(p, A)
    <3>1. CASE i = 1
      BY <1>1, <2>1, <3>1
    <3>2. CASE i # 1
      <4>1. i - 1 \in 1..(n - 1) /\ p[i - 1] = b[i]
        BY <1>2, <1>3, <3>2
      <4>2. QED BY <1>2, <2>1, <4>1 DEF Among
    <3>3. QED BY <3>1, <3>2
  <2>2. ASSUME NEW i \in 1..(n - 1), p[i] \in A PROVE \E j \in 1..n : b[j] \in A
    BY <1>2, <1>3, <2>2
  <2>3. QED BY <1>1, <1>2, <1>3, <2>1, <2>2 DEF Among, n
<1>5. ASSUME NEW A, Once(b, A) PROVE Once(p, A) /\ (Head(b) \in A => ~Among(p, A))
  <2>0. \A i, j \in 1..n : b[i] \in A /\ b[j] \in A => i = j
    BY <1>5 DEF Once, n
  <2>1. ASSUME NEW i \in 1..(n - 1), NEW j \in 1..(n - 1), p[i] \in A, p[j] \in A PROVE i = j
    <3>1. b[i + 1] \in A /\ b[j + 1] \in A /\ i + 1 \in 1..n /\ j + 1 \in 1..n
      BY <1>2, <1>3, <2>1
    <3>2. i + 1 = j + 1
      BY <2>0, <3>1
    <3>3. QED BY <1>3, <3>2
  <2>2. ASSUME Head(b) \in A, NEW i \in 1..(n - 1), p[i] \in A PROVE FALSE
    <3>1. b[i + 1] \in A /\ i + 1 \in 1..n /\ b[1] \in A
      BY <1>1, <1>2, <1>3, <2>2
    <3>2. QED BY <2>0, <1>3, <3>1
  <2>3. QED BY <1>2, <2>1, <2>2 DEF Once, Among
<1>6. QED BY <1>4, <1>5 DEF p

\* ... or taken back.
LEMMA RemoveAmong ==
  ASSUME NEW S, NEW b \in Seq(S), NEW f
  PROVE  LET p == RemoveFirst(b, f)
         IN  /\ \A A : Among(p, A) => Among(b, A)
             /\ \A A : f \notin A /\ Among(b, A) => Among(p, A)
             /\ \A A : Once(b, A) => Once(p, A) /\ (f \in A /\ Among(b, {f}) => ~Among(p, A))
<1> DEFINE p == RemoveFirst(b, f)
           n == Len(b)
<1>0. n \in Nat
  OBVIOUS
<1>1. CASE p = b /\ ~Contains(b, f)
  <2>1. ~Among(b, {f})
    BY <1>1 DEF Among, Contains
  <2>2. QED BY <1>1, <2>1
<1>2. ASSUME NEW k \in 1..n, b[k] = f, p = RemoveAt(b, k)
      PROVE  /\ \A A : Among(p, A) => Among(b, A)
             /\ \A A : f \notin A /\ Among(b, A) => Among(p, A)
             /\ \A A : Once(b, A) => Once(p, A) /\ (f \in A /\ Among(b, {f}) => ~Among(p, A))
  <2>1. /\ Len(p) = n - 1
        /\ \A i \in 1..(k - 1) : p[i] = b[i]
        /\ \A i \in k..(n - 1) : p[i] = b[i + 1]
    BY <1>2, RemovedAt
  <2> HIDE DEF p, n
  <2> DEFINE g(i) == IF i < k THEN i ELSE i + 1
  <2>2. ASSUME NEW i \in 1..(n - 1) PROVE g(i) \in 1..n /\ g(i) # k /\ p[i] = b[g(i)]
    BY <1>0, <2>1
  <2>3. \A i, j \in 1..(n - 1) : g(i) = g(j) => i = j
    BY <1>0
  <2>4. ASSUME NEW j \in 1..n, j # k PROVE \E i \in 1..(n - 1) : g(i) = j
    <3>1. CASE j < k
      <4>1. j \in 1..(n - 1) /\ g(j) = j
        BY <1>0, <3>1
      <4>2. QED BY <4>1
    <3>2. CASE j > k
      <4>1. j - 1 \in 1..(n - 1) /\ g(j - 1) = j
        BY <1>0, <3>2
      <4>2. QED BY <4>1
    <3>3. QED BY <1>0, <2>4, <3>1, <3>2
  <2> HIDE DEF g
  <2>5. ASSUME NEW A, Among(p, A) PROVE Among(b, A)
    BY <2>1, <2>2, <2>5 DEF Among, n
  <2>6. ASSUME NEW A, f \notin A, Among(b, A) PROVE Among(p, A)
    <3>1. PICK j \in 1..n : b[j] \in A
      BY <2>6 DEF Among, n
    <3>2. j # k
      BY <1>2, <2>6, <3>1
    <3>3. QED BY <2>1, <2>2, <2>4, <3>1, <3>2 DEF Among
  <2>7. ASSUME NEW A, Once(b, A) PROVE Once(p, A) /\ (f \in A => ~Among(p, A))
    <3>1. \A i, j \in 1..n : b[i] \in A /\ b[j] \in A => i = j
      BY <2>7 DEF Once, n
    <3>2. ASSUME NEW i \in 1..(n - 1), NEW j \in 1..(n - 1), p[i] \in A, p[j] \in A PROVE i = j
      BY <2>2, <2>3, <3>1, <3>2
    <3>3. ASSUME f \in A, NEW i \in 1..(n - 1), p[i] \in A PROVE FALSE
      BY <1>2, <2>2, <3>1, <3>3
    <3>4. QED BY <2>1, <3>2, <3>3 DEF Once, Among
  <2>8. QED BY <2>5, <2>6, <2>7
<1>3. QED BY <1>1, <1>2, RemovedFirst

-----------------------------------------------------------------------------
(* Where a call is, and the invariant of calls and answers *)

Requests(x)  == {Event("call", x[1], x[2]), Event("ping", x[1], x[2])}
Answers(x)   == {e \in Events : e.ev = "answer" /\ e.token = x[2]}
Strangers(x) == {e \in Answers(x) : e.source # x[1]}  \* those of another service

Places == {"asked", "owed", "deferred", "given", "armed"}
Cos0   == Cos \cup {0}

\* The call or the timer x, a service and its token, is in the place k of the service q,
\* with the coroutine c.
At(k, q, c, x) ==
  \/ k = "asked" /\ c = 0 /\ Among(inbox[q], Requests(x))
  \/ k = "owed" /\ c \in Cos /\ core[q].owed[c] = x
  \/ k = "deferred" /\ c = 0 /\ x \in core[q].responses
  \/ k = "given" /\ c = 0 /\ q = x[1] /\ Among(inbox[q], Answers(x))
  \/ k = "armed" /\ c = 0 /\ q = x[1] /\ x[2] \in armed[q]

Held(x) == \E k \in Places, q \in Services, c \in Cos0 : At(k, q, c, x)

\* It is in one place at most, and there once.
OnePlace(x) ==
  /\ \A k, l \in Places, q, r \in Services, c, d \in Cos0 :
       At(k, q, c, x) /\ At(l, r, d, x) => k = l /\ q = r /\ c = d
  /\ \A q \in Services : Once(inbox[q], Requests(x))
  /\ Once(inbox[x[1]], Answers(x))

\* It is a call, not a timer: another service may have to do with it.
Foreign(x) ==
  \/ \E q \in Services : \/ At("asked", q, 0, x) \/ At("deferred", q, 0, x)
                         \/ \E c \in Cos : At("owed", q, c, x)
  \/ Among(inbox[x[1]], Strangers(x))

\* Whatever is on its way is waited for, unless the call was cancelled; a call is watched,
\* a timer is not.
Expected(x) ==
  status[x[1]] # "stopped" =>
    /\ Held(x) => /\ x[2] <= core[x[1]].uiToken
                  /\ core[x[1]].tokenTo[x[2]] \in Cos \/ x \in cancelled
    /\ Foreign(x) => core[x[1]].watching[x[2]] # Nobody \/ x \in cancelled
    /\ x \in cancelled => core[x[1]].tokenTo[x[2]] \notin Cos /\ x[2] <= core[x[1]].uiToken
    /\ x[2] \in armed[x[1]] => core[x[1]].watching[x[2]] = Nobody

\* A call that is waited for is on its way, given up or forgotten.
Kept(x) == Waits(x[1], x[2]) => Held(x) \/ GivenUp(x[1], x[2]) \/ x \in dropped

CallInv(x) == OnePlace(x) /\ Expected(x) /\ Kept(x)

\* Coroutines that have not begun, or have ended, owe nothing.
Owers(v) == \A c \in Cos : v.owed[c] # <<>> => v.at[c] \notin {"none", "pooled", "new", "idle"}

\* The event that stops a service is its last, and nobody sends it another.
Stops       == {e \in Events : e.ev = "stop"}
StopLast(b) == \A i \in 1..Len(b) : b[i] \in Stops => i = Len(b)

Ordered(m) ==
  \A s \in Services : /\ StopLast(m[s])
                      /\ Among(m[s], Stops) => status[s] = "exiting"
                      /\ status[s] = "stopped" => m[s] = <<>>

AtRest(s) == status[s] = "stopped" => armed[s] = {} /\ Quiet(s)

CallsInv ==
  /\ \A x \in Call_ : CallInv(x)
  /\ \A s \in Services : Owers(core[s]) /\ AtRest(s)
  /\ Ordered(inbox)

\* What an event is to a call.
LEMMA EventIs ==
  ASSUME NEW x \in Call_, NEW s \in Services, NEW t \in Tokens
  PROVE  /\ \A kind \in {"call", "ping"} : /\ Event(kind, s, t) \in Requests(x) <=> x = <<s, t>>
                                           /\ Event(kind, s, t) \notin Answers(x)
                                           /\ Event(kind, s, t) \notin Strangers(x)
         /\ Event("answer", s, t) \notin Requests(x)
         /\ Event("answer", s, t) \in Answers(x) <=> t = x[2]
         /\ Event("answer", s, t) \in Strangers(x) => t = x[2] /\ s # x[1]
         /\ \A kind \in {"send", "close", "stop"} : /\ Event(kind, s, 0) \notin Requests(x)
                                                    /\ Event(kind, s, 0) \notin Answers(x)
                                                    /\ Event(kind, s, 0) \notin Strangers(x)
<1>1. x = <<x[1], x[2]>> /\ x[1] \in Services /\ x[2] \in Tokens
  BY DEF Call_
<1>2. /\ \A kind \in {"answer", "call", "ping"} : Event(kind, s, t) \in Events
      /\ \A kind \in {"send", "close", "stop"} : Event(kind, s, 0) \in Events
  BY EventTyped
<1>3. \A kind, a, b : Event(kind, a, b).ev = kind /\ Event(kind, a, b).source = a /\ Event(kind, a, b).token = b
  BY DEF Event
<1>4. \A kind \in {"call", "ping"} : Event(kind, s, t) \in Requests(x) <=> x = <<s, t>>
  <2>1. ASSUME NEW kind \in {"call", "ping"}, Event(kind, s, t) \in Requests(x) PROVE x = <<s, t>>
    <3>1. Event(kind, s, t) = Event("call", x[1], x[2]) \/ Event(kind, s, t) = Event("ping", x[1], x[2])
      BY <2>1 DEF Requests
    <3>2. s = x[1] /\ t = x[2]
      BY <3>1, <1>3
    <3>3. QED BY <3>2, <1>1
  <2>2. ASSUME NEW kind \in {"call", "ping"}, x = <<s, t>> PROVE Event(kind, s, t) \in Requests(x)
    BY <2>2 DEF Requests
  <2>3. QED BY <2>1, <2>2
<1>5. \A e \in Requests(x) : e.ev \in {"call", "ping"}
  BY <1>3 DEF Requests
<1>6. QED BY <1>2, <1>3, <1>4, <1>5 DEF Answers, Strangers

\* An event is sent to a service that accepts it.
LEMMA SentAmong ==
  ASSUME NEW m \in [Services -> Seq(Events)], NEW to \in Services, NEW e \in Events,
         NEW q \in Services
  PROVE  LET p == Sent(m, to, e)
         IN  /\ \A A : Among(p[q], A) <=> Among(m[q], A) \/ (q = to /\ Accepts(to) /\ e \in A)
             /\ \A A : Once(m[q], A) /\ (q = to /\ e \in A => ~Among(m[q], A)) => Once(p[q], A)
             /\ \A f : Contains(m[q], f) => Contains(p[q], f)
             /\ q = to /\ Accepts(to) => Contains(p[q], e)
<1>1. CASE q = to /\ Accepts(to)
  <2>1. Sent(m, to, e)[q] = Append(m[q], e)
    BY <1>1 DEF Sent
  <2>2. m[q] \in Seq(Events)
    OBVIOUS
  <2>3. QED BY <1>1, <2>1, <2>2, AppendAmong, AppendedTo
<1>2. CASE ~(q = to /\ Accepts(to))
  <2>1. Sent(m, to, e)[q] = m[q]
    BY <1>2 DEF Sent
  <2>2. QED BY <1>2, <2>1
<1>3. QED BY <1>1, <1>2

-----------------------------------------------------------------------------
(* What a step does to a call *)

\* The tables of the caller say the same of it.
Steady(x) ==
  LET s == x[1]
      t == x[2]
  IN  /\ core'[s].tokenTo[t] = core[s].tokenTo[t] /\ core'[s].watching[t] = core[s].watching[t]
      /\ core[s].uiToken <= core'[s].uiToken
      /\ x \in cancelled' <=> x \in cancelled
      /\ dropped \subseteq dropped'
      /\ status'[s] = "running" => status[s] = "running"
      /\ status[s] = "stopped" => status'[s] = "stopped"
      /\ GivenUp(s, t) /\ Waits(s, t)' => GivenUp(s, t)'

\* A place more or less changes nothing of what is expected.
LEMMA CallGoesOn ==
  ASSUME TypeOK, TypeOK', NEW x \in Call_, CallInv(x), Steady(x), OnePlace(x)',
         Held(x)' => Held(x), Foreign(x)' => Foreign(x), x[2] \in armed'[x[1]] => x[2] \in armed[x[1]],
         Held(x) /\ Waits(x[1], x[2])' => Held(x)' \/ GivenUp(x[1], x[2])' \/ x \in dropped'
  PROVE  CallInv(x)'
<1> DEFINE s == x[1]
           t == x[2]
<1>1. s \in Services /\ t \in Tokens /\ t \in Nat
  BY Names DEF Call_
<1>2. core[s].uiToken \in Nat /\ core'[s].uiToken \in Nat
  BY <1>1 DEF TypeOK, State
<1> HIDE DEF s, t
<1>3. Expected(x)'
  <2>1. /\ core'[s].tokenTo[t] = core[s].tokenTo[t] /\ core'[s].watching[t] = core[s].watching[t]
        /\ core[s].uiToken <= core'[s].uiToken
        /\ x \in cancelled' <=> x \in cancelled
        /\ status[s] = "stopped" => status'[s] = "stopped"
    BY DEF Steady, s, t
  <2>2. t <= core[s].uiToken => t <= core'[s].uiToken
    BY <1>1, <1>2, <2>1
  <2>3. status[s] # "stopped" =>
          /\ Held(x) => t <= core[s].uiToken /\ (core[s].tokenTo[t] \in Cos \/ x \in cancelled)
          /\ Foreign(x) => core[s].watching[t] # Nobody \/ x \in cancelled
          /\ x \in cancelled => core[s].tokenTo[t] \notin Cos /\ t <= core[s].uiToken
          /\ t \in armed[s] => core[s].watching[t] = Nobody
    BY DEF CallInv, Expected, s, t
  <2>4. status'[s] # "stopped" =>
          /\ Held(x)' => t <= core'[s].uiToken /\ (core'[s].tokenTo[t] \in Cos \/ x \in cancelled')
          /\ Foreign(x)' => core'[s].watching[t] # Nobody \/ x \in cancelled'
          /\ x \in cancelled' => core'[s].tokenTo[t] \notin Cos /\ t <= core'[s].uiToken
          /\ t \in armed'[s] => core'[s].watching[t] = Nobody
    BY <2>1, <2>2, <2>3 DEF s, t
  <2>5. QED BY <2>4 DEF Expected, s, t
<1>4. Kept(x)'
  <2>1. Waits(s, t)' => Waits(s, t)
    BY DEF Waits, Steady, s, t
  <2>2. Waits(s, t) => Held(x) \/ GivenUp(s, t) \/ x \in dropped
    BY DEF CallInv, Kept, s, t
  <2>3. Waits(s, t)' => Held(x)' \/ GivenUp(s, t)' \/ x \in dropped'
    BY <2>1, <2>2 DEF Steady, s, t
  <2>4. QED BY <2>3 DEF Kept, s, t
<1>5. QED BY <1>3, <1>4 DEF CallInv

\* It is nowhere but where it was.
LEMMA CallStays ==
  ASSUME TypeOK, TypeOK', NEW x \in Call_, CallInv(x), Steady(x),
         \A k \in Places, q \in Services, c \in Cos0 : At(k, q, c, x)' => At(k, q, c, x),
         \A q \in Services : Once(inbox[q], Requests(x)) => Once(inbox'[q], Requests(x)),
         Once(inbox[x[1]], Answers(x)) => Once(inbox'[x[1]], Answers(x)),
         Among(inbox'[x[1]], Strangers(x)) => Among(inbox[x[1]], Strangers(x)),
         Held(x) /\ Waits(x[1], x[2])' => Held(x)' \/ GivenUp(x[1], x[2])' \/ x \in dropped'
  PROVE  CallInv(x)'
<1>1. OnePlace(x)'
  BY DEF CallInv, OnePlace
<1>2. Held(x)' => Held(x)
  BY DEF Held
<1>3. "asked" \in Places /\ "owed" \in Places /\ "deferred" \in Places /\ "armed" \in Places
      /\ 0 \in Cos0 /\ \A c \in Cos : c \in Cos0
  BY DEF Places, Cos0
<1>4. Foreign(x)' => Foreign(x)
  BY <1>3 DEF Foreign
<1>5. x[2] \in armed'[x[1]] => x[2] \in armed[x[1]]
  <2>1. x[1] \in Services
    BY DEF Call_
  <2>2. ASSUME x[2] \in armed'[x[1]] PROVE x[2] \in armed[x[1]]
    <3>1. At("armed", x[1], 0, x)'
      BY <2>2 DEF At
    <3>2. At("armed", x[1], 0, x)
      BY <1>3, <2>1, <3>1
    <3>3. QED BY <3>2 DEF At
  <2>3. QED BY <2>2
<1>6. QED BY <1>1, <1>2, <1>4, <1>5, CallGoesOn

\* It moves to another place.
LEMMA CallMoves ==
  ASSUME TypeOK, TypeOK', NEW x \in Call_, CallInv(x), Steady(x),
         NEW k \in Places, NEW q \in Services, NEW c \in Cos0, At(k, q, c, x),
         NEW l \in Places, NEW r \in Services, NEW d \in Cos0, l # "armed",
         \A i \in Places, p \in Services, b \in Cos0 : At(i, p, b, x)' => i = l /\ p = r /\ b = d,
         \A p \in Services : Once(inbox'[p], Requests(x)),
         Once(inbox'[x[1]], Answers(x)), Foreign(x)' => Foreign(x),
         Waits(x[1], x[2])' => At(l, r, d, x)' \/ GivenUp(x[1], x[2])' \/ x \in dropped'
  PROVE  CallInv(x)'
<1>1. OnePlace(x)'
  BY DEF OnePlace
<1>2. Held(x)
  BY DEF Held
<1>3. ~(x[2] \in armed'[x[1]])
  <2>1. SUFFICES ASSUME x[2] \in armed'[x[1]] PROVE FALSE
    OBVIOUS
  <2>2. At("armed", x[1], 0, x)'
    BY <2>1 DEF At
  <2>3. x[1] \in Services /\ "armed" \in Places /\ 0 \in Cos0
    BY DEF Call_, Places, Cos0
  <2>4. QED BY <2>2, <2>3
<1>4. Waits(x[1], x[2])' => Held(x)' \/ GivenUp(x[1], x[2])' \/ x \in dropped'
  BY DEF Held
<1>5. QED BY <1>1, <1>2, <1>3, <1>4, CallGoesOn

\* What is about the call x in the inboxes is not more than before ...
EventsFewer(x, m, p) ==
  /\ \A q \in Services : /\ Among(p[q], Requests(x)) => Among(m[q], Requests(x))
                         /\ Once(m[q], Requests(x)) => Once(p[q], Requests(x))
  /\ Among(p[x[1]], Answers(x)) => Among(m[x[1]], Answers(x))
  /\ Once(m[x[1]], Answers(x)) => Once(p[x[1]], Answers(x))
  /\ Among(p[x[1]], Strangers(x)) => Among(m[x[1]], Strangers(x))

\* ... or not less.
EventsStay(x, m, p) ==
  /\ \A q \in Services : Among(m[q], Requests(x)) => Among(p[q], Requests(x))
  /\ Among(m[x[1]], Answers(x)) => Among(p[x[1]], Answers(x))

\* Whoever was about to be told of a close still is.
ClosesStay(m, p) ==
  \A q \in Services, r \in Addresses : Contains(m[q], Event("close", r, 0)) => Contains(p[q], Event("close", r, 0))

\* An event of the service q is a place of the call x.
About(x, q, e) == e \in Requests(x) \/ (q = x[1] /\ e \in Answers(x))

\* Events about other calls do not matter, whether they are sent ...
LEMMA SentKeeps ==
  ASSUME NEW x \in Call_, NEW m \in [Services -> Seq(Events)], NEW to \in Services, NEW e \in Events
  PROVE  LET p == Sent(m, to, e)
         IN  /\ ~About(x, to, e) => EventsFewer(x, m, p)
             /\ EventsStay(x, m, p) /\ ClosesStay(m, p)
<1> DEFINE p == Sent(m, to, e)
<1>0. x[1] \in Services
  BY DEF Call_
<1>1. \A q \in Services : \A A : Among(p[q], A) <=> Among(m[q], A) \/ (q = to /\ Accepts(to) /\ e \in A)
  BY SentAmong
<1>2. \A q \in Services : \A A : Once(m[q], A) /\ (q = to => e \notin A) => Once(p[q], A)
  BY SentAmong
<1>3. \A q \in Services : \A f : Contains(m[q], f) => Contains(p[q], f)
  BY SentAmong
<1> HIDE DEF p
<1>4. ASSUME ~About(x, to, e) PROVE EventsFewer(x, m, p)
  <2>1. e \notin Requests(x) /\ (to = x[1] => e \notin Answers(x) /\ e \notin Strangers(x))
    BY <1>4 DEF About, Strangers
  <2>2. \A q \in Services : /\ Among(p[q], Requests(x)) => Among(m[q], Requests(x))
                            /\ Once(m[q], Requests(x)) => Once(p[q], Requests(x))
    BY <1>1, <1>2, <2>1
  <2>3. /\ Among(p[x[1]], Answers(x)) => Among(m[x[1]], Answers(x))
        /\ Among(p[x[1]], Strangers(x)) => Among(m[x[1]], Strangers(x))
    BY <1>0, <1>1, <2>1
  <2>4. Once(m[x[1]], Answers(x)) => Once(p[x[1]], Answers(x))
    BY <1>0, <1>2, <2>1
  <2>5. QED BY <2>2, <2>3, <2>4 DEF EventsFewer
<1>5. EventsStay(x, m, p)
  BY <1>0, <1>1 DEF EventsStay
<1>6. ClosesStay(m, p)
  BY <1>3 DEF ClosesStay
<1>7. QED BY <1>4, <1>5, <1>6 DEF p

\* ... or taken.
LEMMA TailKeeps ==
  ASSUME NEW x \in Call_, NEW m \in [Services -> Seq(Events)], NEW s \in Services, m[s] # <<>>
  PROVE  LET p == [m EXCEPT ![s] = Tail(@)]
         IN  /\ EventsFewer(x, m, p)
             /\ ~About(x, s, Head(m[s])) => EventsStay(x, m, p)
             /\ Head(m[s]).ev # "close" => ClosesStay(m, p)
<1> DEFINE p == [m EXCEPT ![s] = Tail(@)]
           e == Head(m[s])
<1>0. x[1] \in Services /\ m[s] \in Seq(Events)
  BY DEF Call_
<1>1. p[s] = Tail(m[s]) /\ \A q \in Services : q # s => p[q] = m[q]
  OBVIOUS
<1>2. /\ \A A : Among(m[s], A) <=> e \in A \/ Among(Tail(m[s]), A)
      /\ \A A : Once(m[s], A) => Once(Tail(m[s]), A)
  BY <1>0, TailAmong
<1> HIDE DEF p, e
<1>3. \A q \in Services : \A A :
        /\ Among(p[q], A) => Among(m[q], A)
        /\ Once(m[q], A) => Once(p[q], A)
        /\ Among(m[q], A) /\ (q = s => e \notin A) => Among(p[q], A)
  BY <1>1, <1>2
<1>4. EventsFewer(x, m, p)
  BY <1>0, <1>3 DEF EventsFewer
<1>5. ASSUME ~About(x, s, e) PROVE EventsStay(x, m, p)
  <2>1. e \notin Requests(x) /\ (s = x[1] => e \notin Answers(x))
    BY <1>5 DEF About
  <2>2. QED BY <1>0, <1>3, <2>1 DEF EventsStay
<1>6. ASSUME e.ev # "close" PROVE ClosesStay(m, p)
  <2>1. \A r : Event("close", r, 0).ev = "close"
    BY DEF Event
  <2>2. ASSUME NEW q \in Services, NEW r \in Addresses, Contains(m[q], Event("close", r, 0))
        PROVE  Contains(p[q], Event("close", r, 0))
    <3>1. Among(m[q], {Event("close", r, 0)}) /\ e \notin {Event("close", r, 0)}
      BY <1>6, <2>1, <2>2 DEF Contains, Among
    <3>2. Among(p[q], {Event("close", r, 0)})
      BY <1>3, <3>1
    <3>3. QED BY <3>2 DEF Among, Contains
  <2>3. QED BY <2>2 DEF ClosesStay
<1>7. QED BY <1>4, <1>5, <1>6 DEF p, e

\* Two steps of the inboxes in a row.
LEMMA EventsThen ==
  ASSUME NEW x \in Call_, NEW m, NEW n, NEW p
  PROVE  /\ EventsFewer(x, m, n) /\ EventsFewer(x, n, p) => EventsFewer(x, m, p)
         /\ EventsStay(x, m, n) /\ EventsStay(x, n, p) => EventsStay(x, m, p)
         /\ ClosesStay(m, n) /\ ClosesStay(n, p) => ClosesStay(m, p)
         /\ EventsFewer(x, m, m) /\ EventsStay(x, m, m) /\ ClosesStay(m, m)
<1>1. EventsFewer(x, m, n) /\ EventsFewer(x, n, p) => EventsFewer(x, m, p)
  BY DEF EventsFewer
<1>2. EventsStay(x, m, n) /\ EventsStay(x, n, p) => EventsStay(x, m, p)
  BY DEF EventsStay
<1>3. ClosesStay(m, n) /\ ClosesStay(n, p) => ClosesStay(m, p)
  BY DEF ClosesStay
<1>4. EventsFewer(x, m, m) /\ EventsStay(x, m, m) /\ ClosesStay(m, m)
  BY DEF EventsFewer, EventsStay, ClosesStay
<1>5. QED BY <1>1, <1>2, <1>3, <1>4

\* The call x has no place that it had not before ...
PlacesFewer(x) ==
  /\ EventsFewer(x, inbox, inbox')
  /\ \A q \in Services : /\ \A c \in Cos : core'[q].owed[c] = x => core[q].owed[c] = x
                         /\ x \in core'[q].responses => x \in core[q].responses
  /\ x[2] \in armed'[x[1]] => x[2] \in armed[x[1]]

\* ... or has lost none.
PlacesStay(x) ==
  /\ EventsStay(x, inbox, inbox')
  /\ \A q \in Services : /\ \A c \in Cos : core[q].owed[c] = x => core'[q].owed[c] = x
                         /\ x \in core[q].responses => x \in core'[q].responses
  /\ x[2] \in armed[x[1]] => x[2] \in armed'[x[1]]

\* Then it is nowhere where it was not.
LEMMA FewerPlaces ==
  ASSUME NEW x \in Call_, PlacesFewer(x), OnePlace(x)
  PROVE  /\ \A k \in Places, q \in Services, c \in Cos0 : At(k, q, c, x)' => At(k, q, c, x)
         /\ OnePlace(x)'
<1>1. ASSUME NEW k \in Places, NEW q \in Services, NEW c \in Cos0, At(k, q, c, x)' PROVE At(k, q, c, x)
  <2>1. CASE k = "asked"
    BY <1>1, <2>1 DEF At, PlacesFewer, EventsFewer
  <2>2. CASE k = "owed"
    BY <1>1, <2>2 DEF At, PlacesFewer
  <2>3. CASE k = "deferred"
    BY <1>1, <2>3 DEF At, PlacesFewer
  <2>4. CASE k = "given"
    BY <1>1, <2>4 DEF At, PlacesFewer, EventsFewer
  <2>5. CASE k = "armed"
    BY <1>1, <2>5 DEF At, PlacesFewer
  <2>6. QED BY <2>1, <2>2, <2>3, <2>4, <2>5 DEF Places
<1>2. /\ \A q \in Services : Once(inbox[q], Requests(x)) => Once(inbox'[q], Requests(x))
      /\ Once(inbox[x[1]], Answers(x)) => Once(inbox'[x[1]], Answers(x))
  BY DEF PlacesFewer, EventsFewer
<1>3. QED BY <1>1, <1>2 DEF OnePlace

\* A call that another step may have taken off its way.
LEMMA CallLeft ==
  ASSUME TypeOK, TypeOK', NEW x \in Call_, CallInv(x), Steady(x), PlacesFewer(x),
         Held(x) /\ Waits(x[1], x[2])' => Held(x)' \/ GivenUp(x[1], x[2])' \/ x \in dropped'
  PROVE  CallInv(x)'
<1>1. \A k \in Places, q \in Services, c \in Cos0 : At(k, q, c, x)' => At(k, q, c, x)
  BY FewerPlaces DEF CallInv
<1>2. /\ \A q \in Services : Once(inbox[q], Requests(x)) => Once(inbox'[q], Requests(x))
      /\ Once(inbox[x[1]], Answers(x)) => Once(inbox'[x[1]], Answers(x))
      /\ Among(inbox'[x[1]], Strangers(x)) => Among(inbox[x[1]], Strangers(x))
  BY DEF PlacesFewer, EventsFewer
<1>3. QED BY <1>1, <1>2, CallStays

\* A call that a step has nothing to do with.
LEMMA CallRests ==
  ASSUME TypeOK, TypeOK', NEW x \in Call_, CallInv(x), Steady(x), PlacesFewer(x), PlacesStay(x)
  PROVE  CallInv(x)'
<1>1. ASSUME NEW k \in Places, NEW q \in Services, NEW c \in Cos0, At(k, q, c, x) PROVE At(k, q, c, x)'
  <2>1. CASE k = "asked"
    BY <1>1, <2>1 DEF At, PlacesStay, EventsStay
  <2>2. CASE k = "owed"
    BY <1>1, <2>2 DEF At, PlacesStay
  <2>3. CASE k = "deferred"
    BY <1>1, <2>3 DEF At, PlacesStay
  <2>4. CASE k = "given"
    BY <1>1, <2>4 DEF At, PlacesStay, EventsStay
  <2>5. CASE k = "armed"
    BY <1>1, <2>5 DEF At, PlacesStay
  <2>6. QED BY <2>1, <2>2, <2>3, <2>4, <2>5 DEF Places
<1>2. Held(x) => Held(x)'
  BY <1>1 DEF Held
<1>3. QED BY <1>2, CallLeft

\* It is in the place k of q and nowhere else, or not even there.
Only(x, k, q, c) ==
  /\ \A r \in Services : Among(inbox[r], Requests(x)) => k = "asked" /\ r = q /\ c = 0
  /\ \A r \in Services, d \in Cos : core[r].owed[d] = x => k = "owed" /\ r = q /\ d = c
  /\ \A r \in Services : x \in core[r].responses => k = "deferred" /\ r = q /\ c = 0
  /\ Among(inbox[x[1]], Answers(x)) => k = "given" /\ q = x[1] /\ c = 0
  /\ x[2] \in armed[x[1]] => k = "armed" /\ q = x[1] /\ c = 0

\* The place where a call is known to be is its only one.
LEMMA OnlyHere ==
  ASSUME NEW x \in Call_, CallInv(x), NEW k \in Places, NEW q \in Services, NEW c \in Cos0, At(k, q, c, x)
  PROVE  Only(x, k, q, c)
<1>0. /\ x[1] \in Services /\ 0 \in Cos0 /\ \A d \in Cos : d \in Cos0
      /\ "asked" \in Places /\ "owed" \in Places /\ "deferred" \in Places
      /\ "given" \in Places /\ "armed" \in Places
  BY DEF Call_, Places, Cos0
<1>1. \A l \in Places, r \in Services, d \in Cos0 : At(l, r, d, x) => l = k /\ r = q /\ d = c
  BY DEF CallInv, OnePlace
<1>2. /\ \A r \in Services : Among(inbox[r], Requests(x)) => At("asked", r, 0, x)
      /\ \A r \in Services, d \in Cos : core[r].owed[d] = x => At("owed", r, d, x)
      /\ \A r \in Services : x \in core[r].responses => At("deferred", r, 0, x)
      /\ Among(inbox[x[1]], Answers(x)) => At("given", x[1], 0, x)
      /\ x[2] \in armed[x[1]] => At("armed", x[1], 0, x)
  BY DEF At
<1> HIDE DEF At
<1>3. \A r \in Services : Among(inbox[r], Requests(x)) => k = "asked" /\ r = q /\ c = 0
  BY <1>0, <1>1, <1>2
<1>4. \A r \in Services, d \in Cos : core[r].owed[d] = x => k = "owed" /\ r = q /\ d = c
  BY <1>0, <1>1, <1>2
<1>5. \A r \in Services : x \in core[r].responses => k = "deferred" /\ r = q /\ c = 0
  BY <1>0, <1>1, <1>2
<1>6. Among(inbox[x[1]], Answers(x)) => k = "given" /\ q = x[1] /\ c = 0
  BY <1>0, <1>1, <1>2
<1>7. x[2] \in armed[x[1]] => k = "armed" /\ q = x[1] /\ c = 0
  BY <1>0, <1>1, <1>2
<1>8. QED BY <1>3, <1>4, <1>5, <1>6, <1>7 DEF Only

\* It passes from the one place to the other.
LEMMA CallPasses ==
  ASSUME TypeOK, TypeOK', NEW x \in Call_, CallInv(x), Steady(x),
         NEW k \in Places, NEW q \in Services, NEW c \in Cos0, At(k, q, c, x),
         NEW l \in Places, NEW r \in Services, NEW d \in Cos0, l # "armed", Only(x, l, r, d)',
         \A p \in Services : Once(inbox'[p], Requests(x)),
         Once(inbox'[x[1]], Answers(x)), Foreign(x)' => Foreign(x),
         Waits(x[1], x[2])' => At(l, r, d, x)' \/ GivenUp(x[1], x[2])' \/ x \in dropped'
  PROVE  CallInv(x)'
<1>1. ASSUME NEW i \in Places, NEW p \in Services, NEW b \in Cos0, At(i, p, b, x)'
      PROVE  i = l /\ p = r /\ b = d
  <2>1. CASE i = "asked"
    BY <1>1, <2>1 DEF At, Only
  <2>2. CASE i = "owed"
    BY <1>1, <2>2 DEF At, Only
  <2>3. CASE i = "deferred"
    BY <1>1, <2>3 DEF At, Only
  <2>4. CASE i = "given"
    BY <1>1, <2>4 DEF At, Only
  <2>5. CASE i = "armed"
    BY <1>1, <2>5 DEF At, Only
  <2>6. QED BY <2>1, <2>2, <2>3, <2>4, <2>5 DEF Places
<1>2. QED BY <1>1, CallMoves

-----------------------------------------------------------------------------
(* What a step of one service does to a call *)

\* A step of one service leaves the tables of the others.
LEMMA TablesAre ==
  ASSUME TypeOK, NEW s \in Services, NEW v, Tables(s, v)
  PROVE  core'[s] = v /\ \A q \in Services : q # s => core'[q] = core[q]
BY DEF TypeOK, Tables

\* A call is a pair.
LEMMA CallPair ==
  ASSUME NEW x \in Call_
  PROVE  /\ x[1] \in Services /\ x[2] \in Tokens /\ x # <<>> /\ x = <<x[1], x[2]>>
         /\ \A y \in Call_ : y[1] = x[1] /\ y[2] = x[2] => y = x
<1>1. PICK s \in Services, t \in Tokens : x = <<s, t>>
  BY DEF Call_
<1>2. x # <<>>
  <2>1. Len(<<s, t>>) = 2 /\ Len(<<>>) = 0
    OBVIOUS
  <2>2. <<s, t>> # <<>>
    BY <2>1
  <2>3. QED BY <1>1, <2>2
<1>3. \A y \in Call_ : y = <<y[1], y[2]>>
  BY DEF Call_
<1>4. QED BY <1>1, <1>2, <1>3

\* To its caller the tables v of s say the same of the call x.
TablesStay(x, s, v) ==
  /\ x[1] = s => /\ v.tokenTo[x[2]] = core[s].tokenTo[x[2]]
                 /\ v.watching[x[2]] = core[s].watching[x[2]]
                 /\ Contains(core[s].cancelQ, x[2]) => Contains(v.cancelQ, x[2])
  /\ core[s].uiToken <= v.uiToken

\* The timers, the histories and the services are as before, for the call x.
RestStays(x) ==
  /\ x[2] \in armed'[x[1]] <=> x[2] \in armed[x[1]]
  /\ x \in cancelled' <=> x \in cancelled
  /\ dropped \subseteq dropped' /\ status' = status

OwesFewer(x, v, w) == /\ \A c \in Cos : w.owed[c] = x => v.owed[c] = x
                      /\ x \in w.responses => x \in v.responses

\* A step that leaves what the caller's tables say of a call leaves it steady.
LEMMA StepSteady ==
  ASSUME TypeOK, TypeOK', NEW x \in Call_, NEW s \in Services, NEW v, Tables(s, v),
         TablesStay(x, s, v), RestStays(x), ClosesStay(inbox, inbox')
  PROVE  Steady(x)
<1> DEFINE r == x[1]
           t == x[2]
<1>1. r \in Services /\ t \in Tokens
  BY CallPair
<1>2. core'[s] = v /\ \A q \in Services : q # s => core'[q] = core[q]
  BY TablesAre
<1>3. \A q \in Services : core[q].uiToken \in Nat
  BY DEF TypeOK, State
<1>4. /\ core'[r].tokenTo[t] = core[r].tokenTo[t] /\ core'[r].watching[t] = core[r].watching[t]
      /\ core[r].uiToken <= core'[r].uiToken
      /\ Contains(core[r].cancelQ, t) => Contains(core'[r].cancelQ, t)
  <2>1. CASE r = s
    BY <1>2, <2>1 DEF TablesStay
  <2>2. CASE r # s
    BY <1>1, <1>2, <1>3, <2>2
  <2>3. QED BY <2>1, <2>2
<1> HIDE DEF r, t
<1>5. GivenUp(r, t) /\ Waits(r, t)' => GivenUp(r, t)'
  <2>1. core[r].watching[t] \in Addresses \cup {Nobody}
    BY <1>1 DEF TypeOK, State
  <2>2. Waits(r, t)' => core'[r].watching[t] # Nobody
    BY DEF Waits
  <2>3. \A q \in Addresses : Contains(inbox[r], Event("close", q, 0)) => Contains(inbox'[r], Event("close", q, 0))
    BY <1>1 DEF ClosesStay
  <2>4. QED BY <1>4, <2>1, <2>2, <2>3 DEF GivenUp
<1>6. /\ core'[x[1]].tokenTo[x[2]] = core[x[1]].tokenTo[x[2]]
      /\ core'[x[1]].watching[x[2]] = core[x[1]].watching[x[2]]
      /\ core[x[1]].uiToken <= core'[x[1]].uiToken
      /\ GivenUp(x[1], x[2]) /\ Waits(x[1], x[2])' => GivenUp(x[1], x[2])'
  BY <1>4, <1>5 DEF r, t
<1>7. /\ x \in cancelled' <=> x \in cancelled
      /\ dropped \subseteq dropped' /\ status' = status
  BY DEF RestStays
<1>8. QED BY <1>6, <1>7 DEF Steady

\* The step takes the call off its way, or leaves it.
LEMMA CallForgotten ==
  ASSUME TypeOK, TypeOK', NEW x \in Call_, CallInv(x), NEW s \in Services, NEW v, Tables(s, v),
         Steady(x), RestStays(x), OwesFewer(x, core[s], v), EventsFewer(x, inbox, inbox'),
         Waits(x[1], x[2])' => GivenUp(x[1], x[2])' \/ x \in dropped'
  PROVE  CallInv(x)'
<1>1. core'[s] = v /\ \A q \in Services : q # s => core'[q] = core[q]
  BY TablesAre
<1>2. ASSUME NEW q \in Services
      PROVE  /\ \A c \in Cos : core'[q].owed[c] = x => core[q].owed[c] = x
             /\ x \in core'[q].responses => x \in core[q].responses
  BY <1>1 DEF OwesFewer
<1>3. PlacesFewer(x)
  BY <1>2 DEF PlacesFewer, RestStays
<1>4. QED BY <1>3, CallLeft

\* The step has nothing to do with the call.
LEMMA CallIdles ==
  ASSUME TypeOK, TypeOK', NEW x \in Call_, CallInv(x), NEW s \in Services, NEW v, Tables(s, v),
         Steady(x), RestStays(x), OwesFewer(x, core[s], v), OwesFewer(x, v, core[s]),
         EventsFewer(x, inbox, inbox'), EventsStay(x, inbox, inbox')
  PROVE  CallInv(x)'
<1>1. core'[s] = v /\ \A q \in Services : q # s => core'[q] = core[q]
  BY TablesAre
<1>2. ASSUME NEW q \in Services
      PROVE  /\ \A c \in Cos : core'[q].owed[c] = x <=> core[q].owed[c] = x
             /\ x \in core'[q].responses <=> x \in core[q].responses
  BY <1>1 DEF OwesFewer
<1>3. PlacesFewer(x) /\ PlacesStay(x)
  BY <1>2 DEF PlacesFewer, PlacesStay, RestStays
<1>4. QED BY <1>3, CallRests

-----------------------------------------------------------------------------
(* The stop, and who owes replies *)

\* A stop, or anything that comes before one, is the last of its queue,
LEMMA StopAppend ==
  ASSUME NEW b \in Seq(Events), StopLast(b), ~Among(b, Stops), NEW e \in Events
  PROVE  StopLast(Append(b, e))
<1>1. /\ Len(b) \in Nat /\ Len(Append(b, e)) = Len(b) + 1
      /\ \A i \in 1..Len(b) : Append(b, e)[i] = b[i]
      /\ \A i \in 1..(Len(b) + 1) : i \in 1..Len(b) \/ i = Len(b) + 1
  OBVIOUS
<1>2. QED BY <1>1 DEF StopLast, Among

\* whatever is taken before it,
LEMMA StopTail ==
  ASSUME NEW b \in Seq(Events), b # <<>>, StopLast(b)
  PROVE  StopLast(Tail(b)) /\ (Head(b) \in Stops => Tail(b) = <<>>)
<1> DEFINE n == Len(b)
<1>1. n \in Nat \ {0} /\ Head(b) = b[1] /\ Len(Tail(b)) = n - 1 /\ Tail(b) \in Seq(Events)
      /\ \A i \in 1..(n - 1) : Tail(b)[i] = b[i + 1]
  BY NonEmpty, TailOf
<1>3. \A i \in 1..n : b[i] \in Stops => i = n
  BY DEF StopLast
<1> HIDE DEF n
<1>2. 1 \in 1..n /\ \A i \in 1..(n - 1) : i + 1 \in 1..n /\ (i + 1 = n => i = n - 1)
  BY <1>1
<1>4. StopLast(Tail(b))
  BY <1>1, <1>2, <1>3 DEF StopLast
<1>5. Head(b) \in Stops => Len(Tail(b)) = 0
  BY <1>1, <1>2, <1>3
<1>6. QED BY <1>1, <1>4, <1>5, EmptySeq

\* and whatever is removed.
LEMMA StopRemove ==
  ASSUME NEW b \in Seq(Events), StopLast(b), NEW f
  PROVE  StopLast(RemoveFirst(b, f))
<1> DEFINE p == RemoveFirst(b, f)
           n == Len(b)
<1>1. n \in Nat /\ \A i \in 1..n : b[i] \in Stops => i = n
  BY DEF StopLast
<1>2. CASE p = b
  BY <1>2
<1>3. ASSUME NEW k \in 1..n, p = RemoveAt(b, k) PROVE StopLast(p)
  <2>1. /\ Len(p) = n - 1
        /\ \A i \in 1..(k - 1) : p[i] = b[i]
        /\ \A i \in k..(n - 1) : p[i] = b[i + 1]
    BY <1>3, RemovedAt
  <2> HIDE DEF p, n
  <2>2. ASSUME NEW i \in 1..(n - 1), p[i] \in Stops PROVE i = n - 1
    <3>1. CASE i < k
      <4>1. i \in 1..(k - 1) /\ i \in 1..n /\ i # n
        BY <1>1, <3>1
      <4>2. QED BY <1>1, <2>1, <2>2, <4>1
    <3>2. CASE i >= k
      <4>1. i \in k..(n - 1) /\ i + 1 \in 1..n
        BY <1>1, <3>2
      <4>2. i + 1 = n
        BY <1>1, <2>1, <2>2, <4>1
      <4>3. QED BY <1>1, <4>2
    <3>3. QED BY <1>1, <3>1, <3>2
  <2>3. QED BY <2>1, <2>2 DEF StopLast
<1>4. QED BY <1>2, <1>3, RemovedFirst

\* Events are sent, taken and taken back, none of them the stop.
LEMMA OrderedStays ==
  ASSUME NEW m \in [Services -> Seq(Events)], Ordered(m), NEW s \in Services
  PROVE  /\ \A e \in Events : e.ev # "stop" => Ordered(Sent(m, s, e))
         /\ m[s] # <<>> => /\ Ordered([m EXCEPT ![s] = Tail(@)])
                           /\ Head(m[s]).ev = "stop" => Tail(m[s]) = <<>>
         /\ \A f : Ordered([m EXCEPT ![s] = RemoveFirst(m[s], f)])
<1>0. /\ m[s] \in Seq(Events) /\ StopLast(m[s])
      /\ Among(m[s], Stops) => status[s] = "exiting"
      /\ status[s] = "stopped" => m[s] = <<>>
  BY DEF Ordered
<1>1. ASSUME NEW e \in Events, e.ev # "stop" PROVE Ordered(Sent(m, s, e))
  <2>0. e \notin Stops
    BY <1>1 DEF Stops
  <2>1. CASE Accepts(s)
    <3>1. Sent(m, s, e) = [m EXCEPT ![s] = Append(@, e)] /\ status[s] = "running"
      BY <2>1 DEF Sent, Accepts
    <3>2. StopLast(Append(m[s], e))
      BY <1>0, <3>1, StopAppend
    <3>3. ~Among(Append(m[s], e), Stops)
      BY <1>0, <2>0, <3>1, AppendAmong
    <3>4. QED BY <3>1, <3>2, <3>3 DEF Ordered
  <2>2. CASE ~Accepts(s)
    BY <2>2 DEF Sent
  <2>3. QED BY <2>1, <2>2
<1>2. ASSUME m[s] # <<>> PROVE /\ Ordered([m EXCEPT ![s] = Tail(@)])
                               /\ Head(m[s]).ev = "stop" => Tail(m[s]) = <<>>
  <2>1. StopLast(Tail(m[s])) /\ (Head(m[s]) \in Stops => Tail(m[s]) = <<>>)
    BY <1>0, <1>2, StopTail
  <2>2. Among(Tail(m[s]), Stops) => Among(m[s], Stops)
    BY <1>0, <1>2, TailAmong
  <2>3. Head(m[s]) \in Events
    BY <1>2, TailTyped
  <2>4. Ordered([m EXCEPT ![s] = Tail(@)])
    BY <1>0, <1>2, <2>1, <2>2 DEF Ordered
  <2>5. QED BY <2>1, <2>3, <2>4 DEF Stops
<1>3. ASSUME NEW f PROVE Ordered([m EXCEPT ![s] = RemoveFirst(m[s], f)])
  <2> DEFINE p == RemoveFirst(m[s], f)
  <2>1. StopLast(p)
    BY <1>0, StopRemove
  <2>2. Among(p, Stops) => Among(m[s], Stops)
    BY <1>0, RemoveAmong
  <2>3. m[s] = <<>> => p = <<>>
    <3>1. m[s] = <<>> => 1..Len(m[s]) = {}
      OBVIOUS
    <3>2. QED BY <1>0, <3>1, RemovedFirst
  <2> HIDE DEF p
  <2>4. \A q \in Services : [m EXCEPT ![s] = p][q] = IF q = s THEN p ELSE m[q]
    OBVIOUS
  <2>5. Ordered([m EXCEPT ![s] = p])
    BY <1>0, <2>1, <2>2, <2>3, <2>4 DEF Ordered
  <2>6. QED BY <2>5 DEF p
<1>4. QED BY <1>1, <1>2, <1>3

\* Whoever acts was not stopped.
LEMMA ActiveRuns ==
  ASSUME CallsInv, NEW s \in Services,
         ~Quiet(s) \/ inbox[s] # <<>> \/ armed[s] # {}
  PROVE  status[s] # "stopped"
BY DEF CallsInv, Ordered, AtRest

\* The rest of the invariant.
LEMMA StepCalls ==
  ASSUME TypeOK, TypeOK', CallsInv, NEW s \in Services, NEW v, Tables(s, v),
         ~Quiet(s) \/ inbox[s] # <<>> \/ armed[s] # {}, status' = status,
         \A q \in Services : q # s => armed'[q] = armed[q],
         Owers(v), Ordered(inbox'), \A x \in Call_ : CallInv(x)'
  PROVE  CallsInv'
<1>1. core'[s] = v /\ \A q \in Services : q # s => core'[q] = core[q]
  BY TablesAre
<1>2. status[s] # "stopped"
  BY ActiveRuns
<1>3. \A q \in Services : Owers(core[q]) /\ AtRest(q)
  BY DEF CallsInv
<1>4. \A q \in Services : Owers(core'[q])
  BY <1>1, <1>3
<1>5. ASSUME NEW q \in Services PROVE AtRest(q)'
  BY <1>1, <1>2, <1>3 DEF AtRest, Quiet, Busy
<1>6. Ordered(inbox)'
  BY DEF Ordered
<1>7. \A q \in Services : Owers(core[q])'
  BY <1>4
<1>8. QED BY <1>5, <1>6, <1>7 DEF CallsInv

\* A coroutine that runs may owe a reply, one that owes nothing need not run.
LEMMA OwersStay ==
  ASSUME NEW v, Owers(v), NEW w,
         \A c \in Cos : /\ w.owed[c] = v.owed[c] \/ w.owed[c] = <<>> \/ w.at[c] = "running"
                        /\ \/ w.at[c] = v.at[c] \/ w.owed[c] = <<>>
                           \/ w.at[c] \notin {"none", "pooled", "new", "idle"}
  PROVE  Owers(w)
BY DEF Owers

-----------------------------------------------------------------------------
(* Steps that give no call a new place *)

\* The step forgets some calls, each of them closed or noted, and leaves the rest.
LEMMA StepForgets ==
  ASSUME TypeOK, TypeOK', CallsInv, NEW s \in Services, NEW v, Tables(s, v),
         \A x \in Call_ :
           /\ Steady(x) /\ RestStays(x) /\ OwesFewer(x, core[s], v) /\ EventsFewer(x, inbox, inbox')
           /\ \/ OwesFewer(x, v, core[s]) /\ EventsStay(x, inbox, inbox')
              \/ Waits(x[1], x[2])' => GivenUp(x[1], x[2])' \/ x \in dropped'
  PROVE  \A x \in Call_ : CallInv(x)'
<1> SUFFICES ASSUME NEW x \in Call_ PROVE CallInv(x)'
  OBVIOUS
<1>1. /\ Steady(x) /\ RestStays(x) /\ OwesFewer(x, core[s], v) /\ EventsFewer(x, inbox, inbox')
      /\ CallInv(x)
  BY DEF CallsInv
<1>2. CASE OwesFewer(x, v, core[s]) /\ EventsStay(x, inbox, inbox')
  BY <1>1, <1>2, CallIdles
<1>3. CASE Waits(x[1], x[2])' => GivenUp(x[1], x[2])' \/ x \in dropped'
  BY <1>1, <1>3, CallForgotten
<1>4. QED BY <1>2, <1>3

\* Events that are sent are about no other call.
LEMMA AboutOthers ==
  ASSUME NEW x \in Call_
  PROVE  /\ \A y \in Call_, s \in Services : x # y => ~About(x, y[1], Event("answer", s, y[2]))
         /\ \A y \in Call_, q \in Services, kind \in {"call", "ping"} : x # y => ~About(x, q, Event(kind, y[1], y[2]))
         /\ \A q, s \in Services, kind \in {"send", "close", "stop"} : ~About(x, q, Event(kind, s, 0))
<1>1. ASSUME NEW y \in Call_, NEW s \in Services, x # y PROVE ~About(x, y[1], Event("answer", s, y[2]))
  <2>1. y[2] \in Tokens /\ (x[1] = y[1] => x[2] # y[2])
    BY <1>1, CallPair
  <2>2. QED BY <2>1, EventIs DEF About
<1>2. ASSUME NEW y \in Call_, NEW q \in Services, NEW kind \in {"call", "ping"}, x # y
      PROVE  ~About(x, q, Event(kind, y[1], y[2]))
  <2>1. y[1] \in Services /\ y[2] \in Tokens /\ x # <<y[1], y[2]>>
    BY <1>2, CallPair
  <2>2. QED BY <2>1, EventIs DEF About
<1>3. ASSUME NEW q \in Services, NEW s \in Services, NEW kind \in {"send", "close", "stop"}
      PROVE  ~About(x, q, Event(kind, s, 0))
  <2>1. x[2] \in Tokens
    BY CallPair
  <2>2. QED BY <2>1, EventIs DEF About
<1>4. QED BY <1>1, <1>2, <1>3

\* A close reaches the caller, unless it was stopped or watches another service.
LEMMA CloseTells ==
  ASSUME TypeOK, NEW s \in Services, NEW o \in Call_, NEW m \in [Services -> Seq(Events)],
         inbox' = SentClose(m, s, o[1]), status' = status, core'[o[1]].watching[o[2]] = core[o[1]].watching[o[2]],
         Misses(s, {o}) \subseteq dropped'
  PROVE  Waits(o[1], o[2])' => GivenUp(o[1], o[2])' \/ o \in dropped'
<1> SUFFICES ASSUME Waits(o[1], o[2])', o \notin dropped' PROVE GivenUp(o[1], o[2])'
  OBVIOUS
<1>1. o[1] \in Services /\ status[o[1]] = "running"
  BY CallPair DEF Waits
<1>2. core[o[1]].watching[o[2]] = s
  BY DEF Misses
<1>3. Event("close", s, 0) \in Events
  BY EventTyped
<1>4. Contains(inbox'[o[1]], Event("close", s, 0))
  BY <1>1, <1>3, SentAmong DEF SentClose, Accepts
<1>5. QED BY <1>2, <1>4 DEF GivenUp

\* What is unchanged for every call.
LEMMA RestSame ==
  ASSUME armed' = armed, cancelled' = cancelled, status' = status, dropped \subseteq dropped',
         NEW x \in Call_
  PROVE  RestStays(x)
BY DEF RestStays

\* Tables that differ in what is owed, and in the coroutines.
Keeping(v, w) ==
  /\ w.tokenTo = v.tokenTo /\ w.watching = v.watching /\ w.uiToken = v.uiToken
  /\ \A t \in Tokens : Contains(v.cancelQ, t) => Contains(w.cancelQ, t)
  /\ \A c \in Cos : w.owed[c] = v.owed[c] \/ w.owed[c] = <<>>
  /\ w.responses \subseteq v.responses

\* A step with which one service forgets some replies.
LEMMA KeepingForgets ==
  ASSUME TypeOK, TypeOK', CallsInv, NEW s \in Services, NEW v, Tables(s, v), Keeping(core[s], v),
         armed' = armed, cancelled' = cancelled, status' = status, dropped \subseteq dropped',
         ClosesStay(inbox, inbox'),
         \A x \in Call_ :
           /\ EventsFewer(x, inbox, inbox')
           /\ \/ OwesFewer(x, v, core[s]) /\ EventsStay(x, inbox, inbox')
              \/ Waits(x[1], x[2])' => GivenUp(x[1], x[2])' \/ x \in dropped'
  PROVE  \A x \in Call_ : CallInv(x)'
<1>1. ASSUME NEW x \in Call_ PROVE Steady(x) /\ RestStays(x) /\ OwesFewer(x, core[s], v)
  <2>1. RestStays(x)
    BY RestSame
  <2>2. core[s].uiToken \in Nat /\ x[2] \in Tokens /\ x # <<>>
    BY CallPair DEF TypeOK, State
  <2>3. TablesStay(x, s, v)
    BY <2>2 DEF TablesStay, Keeping
  <2>4. OwesFewer(x, core[s], v)
    BY <2>2 DEF OwesFewer, Keeping
  <2>5. QED BY <2>1, <2>3, <2>4, StepSteady
<1>2. QED BY <1>1, StepForgets

-----------------------------------------------------------------------------
(* Whoever ends or begins owes nothing *)

\* A new coroutine owes nothing,
LEMMA OwersCreated ==
  ASSUME NEW v, Sound(v), NEW n \in Nat, Few(v, n), Unlimited, NEW as \in {"new", "idle"}, Owers(v)
  PROVE  Owers(Created(v, as)) /\ v.owed[NewCo(v)] = <<>>
<1> DEFINE c == NewCo(v)
           w == Created(v, as)
<1>1. c \in Cos /\ v.at[c] \in {"none", "pooled"}
  BY NewCoIsFree
<1>2. v \in State
  BY DEF Sound
<1>3. v.owed[c] = <<>>
  BY <1>1 DEF Owers
<1>4. w.at = [v.at EXCEPT ![c] = as] /\ w.owed = v.owed
  <2> DEFINE p == IF v.pool = <<>> THEN v.pool ELSE Front(v.pool)
             a == [v.at EXCEPT ![c] = as]
  <2>1. w = [v EXCEPT !.at = a, !.pool = p]
    BY <1>2 DEF Created, State
  <2> HIDE DEF p, a, w, c
  <2>2. w.at = a /\ w.owed = v.owed
    BY <1>2, <2>1 DEF State
  <2>3. QED BY <2>2 DEF a
<1> HIDE DEF c, w
<1>5. v.at \in [Cos -> Kinds]
  BY <1>2 DEF State
<1>6. ASSUME NEW d \in Cos
      PROVE  w.owed[d] = v.owed[d] /\ (w.at[d] = v.at[d] \/ w.owed[d] = <<>>)
  BY <1>1, <1>3, <1>4, <1>5
<1>7. Owers(w)
  BY <1>6, OwersStay
<1>8. QED BY <1>3, <1>7 DEF c, w

\* one that goes on owes what it did,
LEMMA OwersResumed ==
  ASSUME NEW v \in State, NEW c \in Cos, Owers(v)
  PROVE  Owers(Resumed(v, c)) /\ Resumed(v, c).owed = v.owed /\ Resumed(v, c).at[c] = "running"
<1> DEFINE w == Resumed(v, c)
           a == [v.at EXCEPT ![c] = "running"]
<1>1. w = [v EXCEPT !.running = c, !.at = a]
  BY DEF Resumed, State
<1> HIDE DEF a, w
<1>2. w.at = a /\ w.owed = v.owed
  BY <1>1 DEF State
<1>3. v.at \in [Cos -> Kinds]
  BY DEF State
<1>4. \A d \in Cos : d # c => w.at[d] = v.at[d]
  BY <1>2, <1>3 DEF a
<1>5. w.at[c] = "running"
  BY <1>2, <1>3 DEF a
<1>6. Owers(w)
  BY <1>2, <1>4, <1>5, OwersStay
<1>7. QED BY <1>2, <1>5, <1>6 DEF w

\* The function of the running coroutine returned: what it leaves.
LEMMA EndedFields ==
  ASSUME NEW v \in State, v.running \in Cos
  PROVE  LET w == Ended(v)
         IN  /\ w.at = [v.at EXCEPT ![v.running] = "pooled"] /\ w.owed = [v.owed EXCEPT ![v.running] = <<>>]
             /\ w.tokenTo = v.tokenTo /\ w.watching = v.watching /\ w.uiToken = v.uiToken
             /\ w.cancelQ = v.cancelQ /\ w.responses = v.responses
<1> DEFINE c == v.running
           o == [v.owed EXCEPT ![c] = <<>>]
           p == Append(v.pool, c)
           g == [v EXCEPT !.owed = o, !.pool = p]
           w == Ended(v)
<1>1. o \in [Cos -> {<<>>} \cup Call_]
  BY DEF State
<1>2. p \in Seq(Cos)
  BY DEF State
<1>3. [v EXCEPT !.owed[v.running] = <<>>, !.pool = Append(@, v.running)] = g
  BY DEF State
<1>4. w = Suspended(g, "pooled")
  BY <1>3 DEF Ended
<1> HIDE DEF o, p
<1>5. /\ g \in State /\ g.running = v.running /\ g.at = v.at
      /\ g.cancelQ = v.cancelQ /\ g.uiToken = v.uiToken
      /\ g.tokenTo = v.tokenTo /\ g.watching = v.watching
      /\ g.owed = o /\ g.responses = v.responses
  BY <1>1, <1>2 DEF State
<1> HIDE DEF g, w
<1>6. "pooled" \in Kinds
  BY DEF Kinds
<1>7. /\ w.at = [g.at EXCEPT ![g.running] = "pooled"]
      /\ w.cancelQ = g.cancelQ /\ w.uiToken = g.uiToken
      /\ w.tokenTo = g.tokenTo /\ w.watching = g.watching
      /\ w.owed = g.owed /\ w.responses = g.responses
  BY <1>4, <1>5, <1>6, SuspendedFields
<1>8. QED BY <1>5, <1>7 DEF o, w

\* one that has ended owes nothing any more.
LEMMA OwersEnded ==
  ASSUME NEW v \in State, v.running \in Cos, Owers(v)
  PROVE  Owers(Ended(v)) /\ Keeping(v, Ended(v))
<1> DEFINE w == Ended(v)
<1>1. /\ w.at = [v.at EXCEPT ![v.running] = "pooled"] /\ w.owed = [v.owed EXCEPT ![v.running] = <<>>]
      /\ w.tokenTo = v.tokenTo /\ w.watching = v.watching /\ w.uiToken = v.uiToken
      /\ w.cancelQ = v.cancelQ /\ w.responses = v.responses
  BY EndedFields
<1> HIDE DEF w
<1>2. v.at \in [Cos -> Kinds] /\ v.owed \in [Cos -> {<<>>} \cup Call_]
  BY DEF State
<1>3. ASSUME NEW d \in Cos
      PROVE  /\ w.owed[d] = v.owed[d] \/ w.owed[d] = <<>>
             /\ w.at[d] = v.at[d] \/ w.owed[d] = <<>>
  BY <1>1, <1>2
<1>4. Owers(w)
  BY <1>3, OwersStay
<1>5. Keeping(v, w)
  BY <1>1, <1>3 DEF Keeping
<1>6. QED BY <1>4, <1>5 DEF w

\* It raised an error.
LEMMA OwersFailed ==
  ASSUME NEW v, Sound(v), NEW n \in Nat, Few(v, n), Unlimited, v.running \in Cos, Owers(v)
  PROVE  Owers(Failed(v)) /\ Keeping(v, Failed(v))
<1> DEFINE c == v.running
           o == [v.owed EXCEPT ![c] = <<>>]
           a == [v.at EXCEPT ![c] = "none"]
           g == [v EXCEPT !.owed = o, !.at = a, !.running = Nobody, !.calls = <<>>]
           h == Created(g, "idle")
           x == NewCo(g)
           w == Failed(v)
<1>1. v \in State
  BY DEF Sound
<1>2. o \in [Cos -> {<<>>} \cup Call_]
  BY <1>1 DEF State
<1>3. a \in [Cos -> Kinds] /\ <<>> \in Seq({"wakeup", "cancel"})
  BY <1>1 DEF State, Kinds
<1>4. [v EXCEPT !.owed[v.running] = <<>>, !.at[v.running] = "none", !.running = Nobody, !.calls = <<>>] = g
  BY <1>1 DEF State
<1>5. w = [h EXCEPT !.asyncQ = Append(@, x)]
  BY <1>4 DEF Failed
<1> HIDE DEF o, a
<1>6. /\ g \in State /\ g.running = Nobody /\ g.at = a /\ g.pool = v.pool /\ g.asyncQ = v.asyncQ
      /\ g.wakeupQ = v.wakeupQ /\ g.cancelQ = v.cancelQ /\ g.uiToken = v.uiToken
      /\ g.tokenTo = v.tokenTo /\ g.watching = v.watching /\ g.sleeping = v.sleeping
      /\ g.owed = o /\ g.responses = v.responses /\ g.calls = <<>>
  BY <1>1, <1>2, <1>3 DEF State
<1> HIDE DEF g
<1>7. g.pool = IF "none" = "pooled" THEN Append(v.pool, v.running) ELSE v.pool
  BY <1>6
<1>8. Sound(g) /\ \E m \in Nat : Few(g, m)
  BY <1>6, <1>7, LeftOK DEF a
<1>9. PICK m \in Nat : Few(g, m)
  BY <1>8
<1>10. v.at \in [Cos -> Kinds] /\ v.owed \in [Cos -> {<<>>} \cup Call_]
  BY <1>1 DEF State
<1>11. ASSUME NEW d \in Cos
       PROVE  /\ g.owed[d] = v.owed[d] \/ g.owed[d] = <<>>
              /\ g.at[d] = v.at[d] \/ g.owed[d] = <<>>
  BY <1>6, <1>10 DEF a, o
<1>12. Owers(g)
  BY <1>11, OwersStay
<1>13. Owers(h)
  BY <1>8, <1>9, <1>12, OwersCreated
<1>14. /\ h \in State /\ h.owed = g.owed /\ h.responses = g.responses /\ h.cancelQ = g.cancelQ
       /\ h.tokenTo = g.tokenTo /\ h.watching = g.watching /\ h.uiToken = g.uiToken
       /\ x \in Cos
  BY <1>8, <1>9, CreatedOK DEF Sound
<1> HIDE DEF h, x, w
<1>15. /\ w.owed = h.owed /\ w.at = h.at /\ w.responses = h.responses /\ w.cancelQ = h.cancelQ
       /\ w.tokenTo = h.tokenTo /\ w.watching = h.watching /\ w.uiToken = h.uiToken
  BY <1>5, <1>14 DEF State
<1>16. Owers(w)
  BY <1>13, <1>15, OwersStay
<1>17. Keeping(v, w)
  BY <1>6, <1>11, <1>14, <1>15 DEF Keeping
<1>18. QED BY <1>16, <1>17 DEF w

-----------------------------------------------------------------------------
(* What coroutines do that gives no call a new place *)

\* Of a busy service.
LEMMA BusyOne ==
  ASSUME CoreInv, CallsInv, NEW s \in Services, Busy(s)
  PROVE  /\ TypeOK /\ core[s] \in State /\ Sound(core[s]) /\ (\E n \in Nat : Few(core[s], n))
         /\ core[s].running \in Cos /\ Owers(core[s]) /\ ~Quiet(s) /\ Ordered(inbox)
         /\ inbox \in [Services -> Seq(Events)]
         /\ core[s].owed \in [Cos -> {<<>>} \cup Call_] /\ core[s].responses \subseteq Call_
<1>1. /\ core[s] \in State /\ Sound(core[s]) /\ (\E n \in Nat : Few(core[s], n)) /\ core[s].running \in Cos
  BY OfOne
<1>2. TypeOK /\ inbox \in [Services -> Seq(Events)]
  BY DEF CoreInv, TypeOK
<1>3. Owers(core[s]) /\ Ordered(inbox) /\ ~Quiet(s)
  BY DEF CallsInv, Quiet
<1>4. core[s].owed \in [Cos -> {<<>>} \cup Call_] /\ core[s].responses \subseteq Call_
  BY <1>1 DEF State
<1>5. QED BY <1>1, <1>2, <1>3, <1>4

\* The inboxes are as they were.
LEMMA InboxSame ==
  ASSUME inbox' = inbox, NEW x \in Call_
  PROVE  EventsFewer(x, inbox, inbox') /\ EventsStay(x, inbox, inbox') /\ ClosesStay(inbox, inbox')
BY DEF EventsFewer, EventsStay, ClosesStay

\* A reply that the coroutine c owes is among those that the step notes.
LEMMA OwedIsNoted ==
  ASSUME TypeOK, NEW s \in Services, NEW c \in Cos, NEW v, v.owed = [core[s].owed EXCEPT ![c] = <<>>],
         NEW x \in Call_
  PROVE  /\ \A d \in Cos : core[s].owed[d] = x => v.owed[d] = x \/ (d = c /\ x \in Owes(s, c))
         /\ \A d \in Cos : v.owed[d] = core[s].owed[d] \/ v.owed[d] = <<>>
<1>1. core[s].owed \in [Cos -> {<<>>} \cup Call_]
  BY DEF TypeOK, State
<1>2. core[s].owed[c] = x => x \in Owes(s, c)
  <2>1. x = <<x[1], x[2]>> /\ x # <<>>
    BY CallPair
  <2>2. core[s].owed[c] = x => x \in {core[s].owed[c]} \ {<<>>}
    BY <2>1
  <2>3. QED BY <2>1, <2>2 DEF Owes
<1>3. QED BY <1>1, <1>2

\* A coroutine that returns drops the reply it owes.
LEMMA ReturnCalls ==
  ASSUME CoreInv, CoreInv', CallsInv, NEW s \in Services, Return(s)
  PROVE  CallsInv'
<1> DEFINE v == core[s]
           c == core[s].running
           w == Ended(core[s])
<1>1. /\ Busy(s) /\ Tables(s, w) /\ dropped' = dropped \union Owes(s, c)
      /\ inbox' = inbox /\ status' = status /\ armed' = armed /\ cancelled' = cancelled
  BY DEF Return, Me
<1>2. /\ TypeOK /\ v \in State /\ c \in Cos /\ Owers(v) /\ ~Quiet(s) /\ Ordered(inbox)
  BY <1>1, BusyOne
<1>3. Owers(w) /\ Keeping(v, w)
  BY <1>2, OwersEnded
<1>4. w.owed = [v.owed EXCEPT ![c] = <<>>] /\ w.responses = v.responses
  BY <1>2, EndedFields
<1>5. TypeOK'
  BY DEF CoreInv
<1> HIDE DEF w
<1>6. ASSUME NEW x \in Call_
      PROVE  /\ EventsFewer(x, inbox, inbox')
             /\ \/ OwesFewer(x, w, v) /\ EventsStay(x, inbox, inbox')
                \/ Waits(x[1], x[2])' => GivenUp(x[1], x[2])' \/ x \in dropped'
  <2>1. EventsFewer(x, inbox, inbox') /\ EventsStay(x, inbox, inbox')
    BY <1>1, InboxSame
  <2>2. \A d \in Cos : v.owed[d] = x => w.owed[d] = x \/ x \in dropped'
    BY <1>1, <1>2, <1>4, OwedIsNoted
  <2>3. OwesFewer(x, w, v) \/ x \in dropped'
    BY <1>4, <2>2 DEF OwesFewer
  <2>4. QED BY <2>1, <2>3
<1>7. ClosesStay(inbox, inbox') /\ dropped \subseteq dropped'
  BY <1>1 DEF ClosesStay
<1>8. \A x \in Call_ : CallInv(x)'
  BY <1>1, <1>2, <1>3, <1>5, <1>6, <1>7, KeepingForgets
<1>9. QED BY <1>1, <1>2, <1>3, <1>5, <1>8, StepCalls

\* So does one that fails.
LEMMA FailCalls ==
  ASSUME CoreInv, CoreInv', CallsInv, Unlimited, NEW s \in Services, Fail(s)
  PROVE  CallsInv'
<1> DEFINE v == core[s]
           c == core[s].running
           w == Failed(core[s])
<1>1. /\ Busy(s) /\ Tables(s, w) /\ dropped' = dropped \union Owes(s, c)
      /\ inbox' = inbox /\ status' = status /\ armed' = armed /\ cancelled' = cancelled
  BY DEF Fail, Me
<1>2. /\ TypeOK /\ v \in State /\ c \in Cos /\ Owers(v) /\ ~Quiet(s) /\ Ordered(inbox)
      /\ Sound(v) /\ \E n \in Nat : Few(v, n)
  BY <1>1, BusyOne
<1>a. PICK n \in Nat : Few(v, n)
  BY <1>2
<1>3. Owers(w) /\ Keeping(v, w)
  BY <1>2, <1>a, OwersFailed
<1>4. w.owed = [v.owed EXCEPT ![c] = <<>>] /\ w.responses = v.responses
  BY <1>2, <1>a, FailedOK
<1>5. TypeOK'
  BY DEF CoreInv
<1> HIDE DEF w
<1>6. ASSUME NEW x \in Call_
      PROVE  /\ EventsFewer(x, inbox, inbox')
             /\ \/ OwesFewer(x, w, v) /\ EventsStay(x, inbox, inbox')
                \/ Waits(x[1], x[2])' => GivenUp(x[1], x[2])' \/ x \in dropped'
  <2>1. EventsFewer(x, inbox, inbox') /\ EventsStay(x, inbox, inbox')
    BY <1>1, InboxSame
  <2>2. \A d \in Cos : v.owed[d] = x => w.owed[d] = x \/ x \in dropped'
    BY <1>1, <1>2, <1>4, OwedIsNoted
  <2>3. OwesFewer(x, w, v) \/ x \in dropped'
    BY <1>4, <2>2 DEF OwesFewer
  <2>4. QED BY <2>1, <2>3
<1>7. ClosesStay(inbox, inbox') /\ dropped \subseteq dropped'
  BY <1>1 DEF ClosesStay
<1>8. \A x \in Call_ : CallInv(x)'
  BY <1>1, <1>2, <1>3, <1>5, <1>6, <1>7, KeepingForgets
<1>9. QED BY <1>1, <1>2, <1>3, <1>5, <1>8, StepCalls

\* term: what is owed to the source is noted, and the calls to it are queued to be cancelled.
LEMMA TermCalls ==
  ASSUME CoreInv, CoreInv', CallsInv, NEW s \in Services, NEW source \in Addresses, Term(s, source)
  PROVE  CallsInv'
<1> DEFINE v == core[s]
           c == core[s].running
           f == [v.owed EXCEPT ![c] = <<>>]
           x == [v EXCEPT !.owed[v.running] = <<>>]
           gone == {<<r[1], r[2]>> : r \in {y \in v.responses : y[1] = source}}
<1>1. PICK order \in Orders(v, source) :
        /\ Tables(s, CloseDispatch(x, source, order))
        /\ dropped' = dropped \union Owes(s, v.running) \union gone
  BY DEF Term
<1> DEFINE w == CloseDispatch(x, source, order)
<1>2. Busy(s) /\ UNCHANGED <<inbox, status, armed, cancelled>>
  BY DEF Term, Operates
<1>3. /\ TypeOK /\ v \in State /\ c \in Cos /\ Owers(v) /\ ~Quiet(s) /\ Ordered(inbox)
      /\ Sound(v) /\ (\E n \in Nat : Few(v, n))
      /\ v.responses \subseteq Call_
  BY <1>2, BusyOne
<1>4. TypeOK'
  BY DEF CoreInv
<1>5. PICK n \in Nat : Few(v, n)
  BY <1>3
<1>6. x = [v EXCEPT !.owed = f] /\ f \in [Cos -> {<<>>} \cup Call_]
  BY <1>3 DEF State
<1>7. \A y \in v.responses : y[1] = source => y \in gone
  <2>1. ASSUME NEW y \in v.responses, y[1] = source PROVE y \in gone
    <3>1. y = <<y[1], y[2]>>
      BY <1>3, CallPair
    <3>2. <<y[1], y[2]>> \in gone
      BY <2>1
    <3>3. QED BY <3>1, <3>2
  <2>2. QED BY <2>1
<1> HIDE DEF f, x, gone, w
<1>8. x \in State /\ Alike(v, x) /\ x.owed = f /\ x.responses = v.responses
  BY <1>3, <1>6 DEF State, Alike
<1>9. Sound(x) /\ Few(x, n) /\ order \in Orders(x, source)
  BY <1>3, <1>5, <1>8, AlikeOK DEF Alike, Orders, Watched
<1>10. /\ w.at = x.at /\ w.tokenTo = x.tokenTo /\ w.watching = x.watching /\ w.uiToken = x.uiToken
       /\ w.owed = x.owed /\ w.responses = {r \in x.responses : r[1] # source}
       /\ \A t : Contains(x.cancelQ, t) => Contains(w.cancelQ, t)
  <2>1. /\ w.at = x.at /\ w.tokenTo = x.tokenTo /\ w.watching = x.watching /\ w.uiToken = x.uiToken
        /\ w.owed = x.owed
    BY <1>9, CloseDispatchOK DEF w
  <2>2. w.responses = {r \in x.responses : r[1] # source}
    BY <1>9, CloseDispatchOK DEF w
  <2>3. \A t : Contains(w.cancelQ, t) <=> Contains(x.cancelQ, t) \/ Contains(order, t)
    BY <1>9, CloseDispatchOK DEF w
  <2>4. QED BY <2>1, <2>2, <2>3
<1>11. /\ w.at = v.at /\ w.tokenTo = v.tokenTo /\ w.watching = v.watching /\ w.uiToken = v.uiToken
       /\ w.owed = [v.owed EXCEPT ![c] = <<>>] /\ w.responses = {r \in v.responses : r[1] # source}
       /\ \A t : Contains(v.cancelQ, t) => Contains(w.cancelQ, t)
  BY <1>8, <1>10 DEF f, Alike
<1>12. \A d \in Cos : w.owed[d] = v.owed[d] \/ w.owed[d] = <<>>
  BY <1>3, <1>11 DEF State
<1>13. Owers(w) /\ Keeping(v, w)
  BY <1>3, <1>11, <1>12, OwersStay DEF Keeping
<1>14. Tables(s, w) /\ dropped' = dropped \union Owes(s, c) \union gone
  BY <1>1 DEF w
<1>15. ASSUME NEW y \in Call_
       PROVE  /\ EventsFewer(y, inbox, inbox')
              /\ \/ OwesFewer(y, w, v) /\ EventsStay(y, inbox, inbox')
                 \/ Waits(y[1], y[2])' => GivenUp(y[1], y[2])' \/ y \in dropped'
  <2>1. EventsFewer(y, inbox, inbox') /\ EventsStay(y, inbox, inbox')
    BY <1>2, InboxSame
  <2>2. \A d \in Cos : v.owed[d] = y => w.owed[d] = y \/ y \in dropped'
    BY <1>3, <1>11, <1>14, OwedIsNoted
  <2>3. y \in v.responses => y \in w.responses \/ y \in dropped'
    BY <1>7, <1>11, <1>14
  <2>4. OwesFewer(y, w, v) \/ y \in dropped'
    BY <2>2, <2>3 DEF OwesFewer
  <2>5. QED BY <2>1, <2>4
<1>16. ClosesStay(inbox, inbox') /\ dropped \subseteq dropped' /\ Ordered(inbox')
       /\ status' = status /\ armed' = armed /\ cancelled' = cancelled
  BY <1>2, <1>3, <1>14 DEF ClosesStay
<1>17. \A y \in Call_ : CallInv(y)'
  BY <1>3, <1>4, <1>13, <1>14, <1>15, <1>16, KeepingForgets
<1>18. QED BY <1>3, <1>4, <1>13, <1>14, <1>16, <1>17, StepCalls

\* wakeup, async: the tables of the coroutines change and nothing else.
LEMMA CoroutinesCalls ==
  ASSUME TypeOK, TypeOK', CallsInv, NEW s \in Services, NEW w, Tables(s, w), ~Quiet(s),
         w.owed = core[s].owed, w.responses = core[s].responses, w.tokenTo = core[s].tokenTo,
         w.watching = core[s].watching, w.uiToken = core[s].uiToken,
         \A t \in Tokens : Contains(core[s].cancelQ, t) => Contains(w.cancelQ, t),
         Owers(w), UNCHANGED <<inbox, status, armed, cancelled, dropped>>
  PROVE  CallsInv'
<1>1. Keeping(core[s], w) /\ ClosesStay(inbox, inbox') /\ dropped \subseteq dropped'
  BY DEF Keeping, ClosesStay
<1>2. ASSUME NEW x \in Call_
      PROVE  EventsFewer(x, inbox, inbox') /\ OwesFewer(x, w, core[s]) /\ EventsStay(x, inbox, inbox')
  BY InboxSame DEF OwesFewer
<1>3. \A x \in Call_ : CallInv(x)'
  BY <1>1, <1>2, KeepingForgets
<1>4. Ordered(inbox')
  BY DEF CallsInv
<1>5. QED BY <1>3, <1>4, StepCalls

\* A coroutine is queued to be woken: no call is touched.
LEMMA WakeupCalls ==
  ASSUME CoreInv, CoreInv', CallsInv, NEW s \in Services, NEW c \in Cos, Wakeup(s, c)
  PROVE  CallsInv'
<1> DEFINE v == core[s]
           q == Append(v.wakeupQ, c)
           w == [v EXCEPT !.wakeupQ = Append(@, c)]
<1>1. Busy(s) /\ Tables(s, w) /\ UNCHANGED <<inbox, status, armed, cancelled, dropped>>
  BY DEF Wakeup, Operates
<1>2. TypeOK /\ TypeOK' /\ v \in State /\ Owers(v) /\ ~Quiet(s)
  BY <1>1, BusyOne DEF CoreInv
<1>3. w = [v EXCEPT !.wakeupQ = q]
  BY <1>2 DEF State
<1> HIDE DEF w, q
<1>4. /\ w.at = v.at /\ w.owed = v.owed /\ w.responses = v.responses /\ w.tokenTo = v.tokenTo
      /\ w.watching = v.watching /\ w.uiToken = v.uiToken /\ w.cancelQ = v.cancelQ
  BY <1>2, <1>3 DEF State
<1>5. Owers(w)
  BY <1>2, <1>4, OwersStay
<1>6. QED BY <1>1, <1>2, <1>4, <1>5, CoroutinesCalls

\* An asynchronous coroutine is made: it owes nothing.
LEMMA AsyncCalls ==
  ASSUME CoreInv, CoreInv', CallsInv, Unlimited, NEW s \in Services, Async(s)
  PROVE  CallsInv'
<1> DEFINE v == core[s]
           c == NewCo(v)
           x == Created(v, "new")
           w == [x EXCEPT !.asyncQ = Append(@, c)]
<1>1. Busy(s) /\ Tables(s, w) /\ UNCHANGED <<inbox, status, armed, cancelled, dropped>>
  BY DEF Async, Operates
<1>2. /\ TypeOK /\ TypeOK' /\ Sound(v) /\ (\E n \in Nat : Few(v, n)) /\ Owers(v) /\ ~Quiet(s)
  BY <1>1, BusyOne DEF CoreInv
<1>3. PICK n \in Nat : Few(v, n)
  BY <1>2
<1>4. Owers(x)
  BY <1>2, <1>3, OwersCreated
<1>5. /\ x \in State /\ x.owed = v.owed /\ x.responses = v.responses /\ x.cancelQ = v.cancelQ
      /\ x.tokenTo = v.tokenTo /\ x.watching = v.watching /\ x.uiToken = v.uiToken
  BY <1>2, <1>3, CreatedOK DEF Sound
<1> HIDE DEF x, c, w
<1>6. /\ w.at = x.at /\ w.owed = x.owed /\ w.responses = x.responses /\ w.tokenTo = x.tokenTo
      /\ w.watching = x.watching /\ w.uiToken = x.uiToken /\ w.cancelQ = x.cancelQ
  BY <1>5 DEF State, w
<1>7. Owers(w)
  BY <1>4, <1>6, OwersStay
<1>8. QED BY <1>1, <1>2, <1>5, <1>6, <1>7, CoroutinesCalls

-----------------------------------------------------------------------------
(* Replies *)

\* The tables may stay as they are.
LEMMA SameTables ==
  ASSUME TypeOK, NEW s \in Services, core' = core
  PROVE  Tables(s, core[s])
BY DEF TypeOK, Tables

\* An event that is no call is sent.
LEMMA SendCalls ==
  ASSUME CoreInv, CoreInv', CallsInv, NEW s \in Services, NEW to \in Services, Send(s, to)
  PROVE  CallsInv'
<1> DEFINE e == Event("send", s, 0)
<1>1. /\ Busy(s) /\ inbox' = Sent(inbox, to, e) /\ core' = core
      /\ status' = status /\ armed' = armed /\ dropped' = dropped /\ cancelled' = cancelled
  BY DEF Send, Operates
<1>2. /\ TypeOK /\ TypeOK' /\ Owers(core[s]) /\ ~Quiet(s) /\ Ordered(inbox)
      /\ inbox \in [Services -> Seq(Events)]
  BY <1>1, BusyOne DEF CoreInv
<1>3. e \in Events /\ e.ev # "stop"
  BY EventTyped DEF Event
<1>4. \A x \in Call_ : ~About(x, to, e)
  BY AboutOthers
<1> HIDE DEF e
<1>5. \A x \in Call_ : EventsFewer(x, inbox, inbox') /\ EventsStay(x, inbox, inbox')
  BY <1>1, <1>2, <1>3, <1>4, SentKeeps
<1>6. ClosesStay(inbox, inbox')
  <2>1. 1 \in Tokens
    BY MaxOpsAssumption DEF Tokens
  <2>2. <<s, 1>> \in Call_
    BY <2>1 DEF Call_
  <2>3. QED BY <2>2, <1>1, <1>2, <1>3, SentKeeps
<1>7. Tables(s, core[s]) /\ Keeping(core[s], core[s])
  BY <1>1, <1>2, SameTables DEF Keeping
<1>8. \A x \in Call_ : OwesFewer(x, core[s], core[s])
  BY DEF OwesFewer
<1>9. \A x \in Call_ : CallInv(x)'
  BY <1>1, <1>2, <1>5, <1>6, <1>7, <1>8, KeepingForgets
<1>10. Ordered(inbox')
  BY <1>1, <1>2, <1>3, OrderedStays
<1>11. QED BY <1>1, <1>2, <1>7, <1>9, <1>10, StepCalls

\* The answer to a call that was elsewhere until now.
LEMMA Delivered ==
  ASSUME NEW o \in Call_, NEW s \in Services, NEW m \in [Services -> Seq(Events)],
         \A q \in Services : ~Among(m[q], Requests(o)), ~Among(m[o[1]], Answers(o))
  PROVE  LET p == Sent(m, o[1], Event("answer", s, o[2]))
         IN  /\ \A q \in Services : ~Among(p[q], Requests(o)) /\ Once(p[q], Requests(o))
             /\ Once(p[o[1]], Answers(o))
             /\ Accepts(o[1]) => Among(p[o[1]], Answers(o))
<1> DEFINE e == Event("answer", s, o[2])
           p == Sent(m, o[1], e)
<1>1. o[1] \in Services /\ o[2] \in Tokens
  BY CallPair
<1>2. e \in Events /\ e \notin Requests(o) /\ e \in Answers(o)
  BY <1>1, EventTyped, EventIs
<1> HIDE DEF e
<1>3. \A q \in Services : \A A : Among(p[q], A) <=> Among(m[q], A) \/ (q = o[1] /\ Accepts(o[1]) /\ e \in A)
  BY <1>1, <1>2, SentAmong
<1>4. \A q \in Services : \A A : Once(m[q], A) /\ (q = o[1] /\ e \in A => ~Among(m[q], A)) => Once(p[q], A)
  BY <1>1, <1>2, SentAmong
<1> HIDE DEF p
<1>5. ASSUME NEW q \in Services PROVE ~Among(p[q], Requests(o)) /\ Once(p[q], Requests(o))
  <2>1. ~Among(p[q], Requests(o))
    BY <1>2, <1>3
  <2>2. QED BY <2>1 DEF Among, Once
<1>6. Once(m[o[1]], Answers(o))
  BY DEF Among, Once
<1>7. Once(p[o[1]], Answers(o))
  BY <1>1, <1>4, <1>6
<1>8. Accepts(o[1]) => Among(p[o[1]], Answers(o))
  BY <1>1, <1>2, <1>3
<1>9. QED BY <1>5, <1>7, <1>8 DEF p, e

\* A reply that is owed by a coroutine: where the call is, and is not.
LEMMA OwedCall ==
  ASSUME NEW s \in Services, NEW c \in Cos, NEW o \in Call_, core[s].owed[c] = o, CallInv(o)
  PROVE  /\ At("owed", s, c, o) /\ Only(o, "owed", s, c) /\ Foreign(o)
         /\ "owed" \in Places /\ c \in Cos0
         /\ \A q \in Services : ~Among(inbox[q], Requests(o)) /\ o \notin core[q].responses
         /\ ~Among(inbox[o[1]], Answers(o)) /\ o[2] \notin armed[o[1]]
         /\ \A r \in Services, d \in Cos : core[r].owed[d] = o => r = s /\ d = c
<1>1. At("owed", s, c, o) /\ "owed" \in Places /\ c \in Cos0
  BY DEF At, Places, Cos0
<1>2. Only(o, "owed", s, c)
  BY <1>1, OnlyHere
<1>3. Foreign(o)
  BY <1>1 DEF Foreign
<1>4. QED BY <1>1, <1>2, <1>3 DEF Only

\* Tables with one reply less that a coroutine owes.
Replied(v, c, w) ==
  /\ w.owed = [v.owed EXCEPT ![c] = <<>>] /\ w.at = v.at
  /\ w.tokenTo = v.tokenTo /\ w.watching = v.watching
  /\ w.uiToken = v.uiToken /\ w.cancelQ = v.cancelQ

\* A step that does something with the reply that a coroutine owes: the calls of which it
\* is not the reply, and the rest.
LEMMA ReplyOthers ==
  ASSUME CoreInv, TypeOK', CallsInv, NEW s \in Services, Busy(s), NEW o \in Call_,
         core[s].owed[Me(s)] = o, NEW w, Tables(s, w), Replied(core[s], Me(s), w),
         status' = status, armed' = armed, cancelled' = cancelled, dropped \subseteq dropped',
         ClosesStay(inbox, inbox'), Ordered(inbox'),
         \A x \in Call_ : x # o => /\ EventsFewer(x, inbox, inbox') /\ EventsStay(x, inbox, inbox')
                                   /\ x \in w.responses <=> x \in core[s].responses
  PROVE  /\ Steady(o) /\ ((CallInv(o)') => CallsInv')
         /\ core'[s] = w /\ \A q \in Services : q # s => core'[q] = core[q]
         /\ \A r \in Services, d \in Cos : core'[r].owed[d] # o
<1> DEFINE v == core[s]
           c == Me(s)
<1>1. /\ TypeOK /\ v \in State /\ c \in Cos /\ Owers(v) /\ ~Quiet(s)
      /\ v.owed \in [Cos -> {<<>>} \cup Call_]
  BY BusyOne DEF Me
<1>2. core'[s] = w /\ \A q \in Services : q # s => core'[q] = core[q]
  BY <1>1, TablesAre
<1>3. /\ w.at = v.at /\ w.tokenTo = v.tokenTo /\ w.watching = v.watching
      /\ w.uiToken = v.uiToken /\ w.cancelQ = v.cancelQ
      /\ w.owed[c] = <<>> /\ \A d \in Cos : d # c => w.owed[d] = v.owed[d]
  BY <1>1 DEF Replied
<1>4. Owers(w)
  BY <1>1, <1>3, OwersStay
<1>5. v.uiToken \in Nat
  BY <1>1 DEF State
<1>6. v.owed[c] = o
  OBVIOUS
<1> HIDE DEF v, c
<1>7. ASSUME NEW x \in Call_ PROVE Steady(x) /\ RestStays(x) /\ x # <<>>
  <2>1. TablesStay(x, s, w)
    BY <1>3, <1>5 DEF TablesStay, v
  <2>2. RestStays(x)
    BY RestSame
  <2>3. QED BY <1>1, <2>1, <2>2, StepSteady, CallPair
<1>8. ASSUME NEW x \in Call_, x # o PROVE CallInv(x)'
  <2>1. OwesFewer(x, v, w) /\ OwesFewer(x, w, v)
    BY <1>3, <1>6, <1>7, <1>8 DEF OwesFewer, v
  <2>2. CallInv(x)
    BY DEF CallsInv
  <2>3. QED BY <1>1, <1>7, <1>8, <2>1, <2>2, CallIdles DEF v
<1>9. ASSUME CallInv(o)' PROVE CallsInv'
  <2>1. \A x \in Call_ : CallInv(x)'
    BY <1>8, <1>9
  <2>2. QED BY <1>1, <1>4, <2>1, StepCalls
<1>10. ASSUME NEW r \in Services, NEW d \in Cos PROVE core'[r].owed[d] # o
  <2>1. core[r].owed[d] = o => r = s /\ d = c
    <3>1. CallInv(o)
      BY DEF CallsInv
    <3>2. QED BY <1>1, <1>6, <3>1, OwedCall DEF v
  <2>2. QED BY <1>2, <1>3, <1>7, <2>1 DEF v
<1>11. QED BY <1>2, <1>7, <1>9, <1>10

\* replyBuf: the answer is on its way.
LEMMA ReplyCalls ==
  ASSUME CoreInv, CoreInv', CallsInv, NEW s \in Services, Reply(s)
  PROVE  CallsInv'
<1> DEFINE v == core[s]
           c == Me(s)
           o == v.owed[c]
           f == [v.owed EXCEPT ![c] = <<>>]
           w == [v EXCEPT !.owed[c] = <<>>]
           e == Event("answer", s, o[2])
<1>1. /\ Busy(s) /\ o # <<>> /\ Tables(s, w) /\ inbox' = Sent(inbox, o[1], e)
      /\ status' = status /\ armed' = armed /\ dropped' = dropped /\ cancelled' = cancelled
  BY DEF Reply, Operates
<1>2. /\ TypeOK /\ TypeOK' /\ v \in State /\ c \in Cos /\ Ordered(inbox)
      /\ inbox \in [Services -> Seq(Events)] /\ v.owed \in [Cos -> {<<>>} \cup Call_]
  BY <1>1, BusyOne DEF Me, CoreInv
<1>3. o \in Call_ /\ CallInv(o)
  BY <1>1, <1>2 DEF CallsInv
<1>4. w = [v EXCEPT !.owed = f] /\ f \in [Cos -> {<<>>} \cup Call_]
  BY <1>2 DEF State
<1> HIDE DEF w, f
<1>5. Replied(v, c, w) /\ w.responses = v.responses
  BY <1>2, <1>4 DEF State, Replied, f
<1>a. PICK O \in Call_ : O = o
  BY <1>3
<1>6. O \in Call_ /\ v.owed[c] = O /\ e = Event("answer", s, O[2]) /\ inbox' = Sent(inbox, O[1], e)
  BY <1>1, <1>a
<1> HIDE DEF o
<1>7. O[1] \in Services /\ O[2] \in Tokens
  BY <1>6, CallPair
<1>8. e \in Events /\ e.ev # "stop"
  BY <1>6, <1>7, EventTyped DEF Event
<1>9. \A x \in Call_ : x # O => /\ EventsFewer(x, inbox, inbox') /\ EventsStay(x, inbox, inbox')
                                /\ x \in w.responses <=> x \in core[s].responses
  <2>1. \A x \in Call_ : x # O => ~About(x, O[1], e)
    BY <1>6, AboutOthers
  <2> HIDE DEF e
  <2>2. QED BY <1>2, <1>5, <1>6, <1>7, <1>8, <2>1, SentKeeps
<1>10. ClosesStay(inbox, inbox') /\ Ordered(inbox')
  <2> HIDE DEF e
  <2>1. QED BY <1>2, <1>6, <1>7, <1>8, SentKeeps, OrderedStays
<1>11. /\ Steady(O) /\ ((CallInv(O)') => CallsInv')
       /\ core'[s] = w /\ \A q \in Services : q # s => core'[q] = core[q]
       /\ \A r \in Services, d \in Cos : core'[r].owed[d] # O
  <2>1. core[s].owed[Me(s)] = O /\ Replied(core[s], Me(s), w) /\ dropped \subseteq dropped'
    BY <1>1, <1>5, <1>6
  <2> HIDE DEF v, c, e
  <2>2. /\ Busy(s) /\ Tables(s, w) /\ TypeOK'
        /\ status' = status /\ armed' = armed /\ cancelled' = cancelled
    BY <1>1, <1>2
  <2>3. O \in Call_ /\ ClosesStay(inbox, inbox') /\ Ordered(inbox')
    BY <1>6, <1>10
  <2>4. QED BY <1>9, <2>1, <2>2, <2>3, ReplyOthers
<1>12. /\ At("owed", s, c, O) /\ Foreign(O) /\ "owed" \in Places /\ c \in Cos0
       /\ \A q \in Services : ~Among(inbox[q], Requests(O)) /\ O \notin core[q].responses
       /\ ~Among(inbox[O[1]], Answers(O)) /\ O[2] \notin armed[O[1]] /\ CallInv(O)
  <2>1. CallInv(O)
    BY <1>6 DEF CallsInv
  <2>2. QED BY <1>2, <1>6, <2>1, OwedCall
<1>13. /\ \A q \in Services : ~Among(inbox'[q], Requests(O)) /\ Once(inbox'[q], Requests(O))
       /\ Once(inbox'[O[1]], Answers(O))
       /\ Accepts(O[1]) => Among(inbox'[O[1]], Answers(O))
  BY <1>2, <1>6, <1>12, Delivered
<1>14. Only(O, "given", O[1], 0)'
  <2>1. \A q \in Services : O \notin core'[q].responses
    BY <1>5, <1>11, <1>12
  <2>2. QED BY <1>1, <1>11, <1>12, <1>13, <2>1 DEF Only
<1>15. Waits(O[1], O[2])' => At("given", O[1], 0, O)'
  BY <1>1, <1>13 DEF Waits, Accepts, At
<1>16. CallInv(O)'
  <2>1. "given" \in Places /\ 0 \in Cos0
    BY DEF Places, Cos0
  <2> HIDE DEF v, c, e
  <2>2. QED BY <1>2, <1>6, <1>7, <1>11, <1>12, <1>13, <1>14, <1>15, <2>1, CallPasses
<1>17. QED BY <1>11, <1>16

-----------------------------------------------------------------------------
(* The other ways of dealing with a reply *)

\* A coroutine that may reply owes the reply to a call, which is nowhere else.
LEMMA OwingOne ==
  ASSUME CoreInv, CallsInv, NEW s \in Services, Busy(s), core[s].owed[Me(s)] # <<>>
  PROVE  \E o \in Call_ :
           /\ core[s].owed[Me(s)] = o /\ CallInv(o)
           /\ At("owed", s, Me(s), o) /\ Foreign(o) /\ "owed" \in Places /\ Me(s) \in Cos0
           /\ \A q \in Services : ~Among(inbox[q], Requests(o)) /\ o \notin core[q].responses
           /\ ~Among(inbox[o[1]], Answers(o)) /\ o[2] \notin armed[o[1]]
<1> DEFINE c == Me(s)
<1>1. c \in Cos /\ core[s].owed \in [Cos -> {<<>>} \cup Call_]
  BY BusyOne DEF Me
<1>2. core[s].owed[c] \in Call_
  BY <1>1
<1> HIDE DEF c
<1>3. PICK o \in Call_ : core[s].owed[c] = o
  BY <1>2
<1>4. CallInv(o)
  BY DEF CallsInv
<1>5. /\ At("owed", s, c, o) /\ Foreign(o) /\ "owed" \in Places /\ c \in Cos0
      /\ \A q \in Services : ~Among(inbox[q], Requests(o)) /\ o \notin core[q].responses
      /\ ~Among(inbox[o[1]], Answers(o)) /\ o[2] \notin armed[o[1]]
  BY <1>1, <1>3, <1>4, OwedCall
<1>6. QED BY <1>3, <1>4, <1>5 DEF c

\* genResponse: the reply is kept for any coroutine.
LEMMA GenResponseCalls ==
  ASSUME CoreInv, CoreInv', CallsInv, NEW s \in Services, GenResponse(s)
  PROVE  CallsInv'
<1> DEFINE v == core[s]
           c == Me(s)
           f == [v.owed EXCEPT ![c] = <<>>]
           g == v.responses \union {v.owed[c]}
           w == [v EXCEPT !.owed[c] = <<>>, !.responses = @ \union {v.owed[c]}]
<1>1. /\ Busy(s) /\ v.owed[c] # <<>> /\ Tables(s, w) /\ inbox' = inbox
      /\ status' = status /\ armed' = armed /\ dropped' = dropped /\ cancelled' = cancelled
  BY DEF GenResponse, Operates
<1>2. TypeOK /\ TypeOK' /\ v \in State /\ c \in Cos /\ Ordered(inbox)
  BY <1>1, BusyOne DEF Me, CoreInv
<1>3. w = [v EXCEPT !.owed = f, !.responses = g]
  BY <1>2 DEF State
<1> HIDE DEF w, f, g
<1>4. Replied(v, c, w) /\ w.responses = g
  BY <1>2, <1>3 DEF State, Replied, f
<1> HIDE DEF c
<1>5. PICK o \in Call_ :
        /\ core[s].owed[c] = o /\ CallInv(o)
        /\ At("owed", s, c, o) /\ Foreign(o) /\ "owed" \in Places /\ c \in Cos0
        /\ \A q \in Services : ~Among(inbox[q], Requests(o)) /\ o \notin core[q].responses
        /\ ~Among(inbox[o[1]], Answers(o)) /\ o[2] \notin armed[o[1]]
  BY <1>1, OwingOne DEF c
<1>6. w.responses = v.responses \union {o}
  BY <1>4, <1>5 DEF g
<1>7. \A x \in Call_ : x # o => /\ EventsFewer(x, inbox, inbox') /\ EventsStay(x, inbox, inbox')
                                /\ x \in w.responses <=> x \in core[s].responses
  BY <1>1, <1>6, InboxSame
<1>8. ClosesStay(inbox, inbox') /\ Ordered(inbox') /\ dropped \subseteq dropped'
  BY <1>1, <1>2 DEF ClosesStay
<1>9. core[s].owed[Me(s)] = o /\ Replied(core[s], Me(s), w)
  BY <1>4, <1>5 DEF c
<1> HIDE DEF v
<1>10. /\ Steady(o) /\ ((CallInv(o)') => CallsInv')
       /\ core'[s] = w /\ \A q \in Services : q # s => core'[q] = core[q]
       /\ \A r \in Services, d \in Cos : core'[r].owed[d] # o
  BY <1>1, <1>2, <1>7, <1>8, <1>9, ReplyOthers
<1>11. Only(o, "deferred", s, 0)'
  <2>1. \A q \in Services : o \in core'[q].responses => q = s
    BY <1>5, <1>10
  <2>2. QED BY <1>1, <1>5, <1>10, <2>1 DEF Only
<1>12. At("deferred", s, 0, o)'
  BY <1>6, <1>10 DEF At
<1>13. \A p \in Services : Once(inbox'[p], Requests(o))
  BY <1>1, <1>5 DEF CallInv, OnePlace
<1>14. Once(inbox'[o[1]], Answers(o))
  BY <1>1, <1>5 DEF CallInv, OnePlace
<1>15. CallInv(o)'
  <2>1. "deferred" \in Places /\ 0 \in Cos0
    BY DEF Places, Cos0
  <2>2. QED BY <1>2, <1>5, <1>10, <1>11, <1>12, <1>13, <1>14, <2>1, CallPasses
<1>16. QED BY <1>10, <1>15

\* The request of a call that was elsewhere until now.
LEMMA Requested ==
  ASSUME NEW o \in Call_, NEW to \in Services, NEW m \in [Services -> Seq(Events)],
         NEW kind \in {"call", "ping"},
         \A q \in Services : ~Among(m[q], Requests(o)), ~Among(m[o[1]], Answers(o))
  PROVE  LET p == Sent(m, to, Event(kind, o[1], o[2]))
         IN  /\ \A q \in Services : /\ Among(p[q], Requests(o)) => q = to
                                    /\ Once(p[q], Requests(o))
             /\ ~Among(p[o[1]], Answers(o)) /\ Once(p[o[1]], Answers(o))
             /\ Accepts(to) => Among(p[to], Requests(o))
             /\ \A x \in Call_ : x # o => EventsFewer(x, m, p) /\ EventsStay(x, m, p)
             /\ ClosesStay(m, p) /\ (Ordered(m) => Ordered(p))
             /\ Among(p[o[1]], Strangers(o)) => Among(m[o[1]], Strangers(o))
<1> DEFINE e == Event(kind, o[1], o[2])
           p == Sent(m, to, e)
<1>1. o[1] \in Services /\ o[2] \in Tokens /\ o = <<o[1], o[2]>>
  BY CallPair
<1>2. e \in Events /\ e \in Requests(o) /\ e \notin Answers(o) /\ e \notin Strangers(o) /\ e.ev # "stop"
  BY <1>1, EventTyped, EventIs DEF Event
<1>3. \A x \in Call_ : x # o => ~About(x, to, e)
  BY AboutOthers
<1> HIDE DEF e
<1>4. \A q \in Services : \A A : Among(p[q], A) <=> Among(m[q], A) \/ (q = to /\ Accepts(to) /\ e \in A)
  BY <1>2, SentAmong
<1>5. \A q \in Services : \A A : Once(m[q], A) /\ (q = to /\ e \in A => ~Among(m[q], A)) => Once(p[q], A)
  BY <1>2, SentAmong
<1>6. \A x \in Call_ : x # o => EventsFewer(x, m, p) /\ EventsStay(x, m, p)
  BY <1>2, <1>3, SentKeeps
<1>7. ClosesStay(m, p)
  BY <1>2, SentKeeps
<1>8. Ordered(m) => Ordered(p)
  BY <1>2, OrderedStays
<1> HIDE DEF p
<1>9. ASSUME NEW q \in Services PROVE (Among(p[q], Requests(o)) => q = to) /\ Once(p[q], Requests(o))
  <2>1. Once(m[q], Requests(o))
    BY DEF Among, Once
  <2>2. QED BY <1>4, <1>5, <2>1
<1>10. ~Among(p[o[1]], Answers(o))
  BY <1>1, <1>2, <1>4
<1>11. Once(p[o[1]], Answers(o))
  BY <1>10 DEF Among, Once
<1>12. Accepts(to) => Among(p[to], Requests(o))
  BY <1>2, <1>4
<1>13. Among(p[o[1]], Strangers(o)) => Among(m[o[1]], Strangers(o))
  BY <1>1, <1>2, <1>4
<1>14. QED BY <1>6, <1>7, <1>8, <1>9, <1>10, <1>11, <1>12, <1>13 DEF p, e

\* redirectCallBuf: the call is on its way to another service.
LEMMA RedirectCalls ==
  ASSUME CoreInv, CoreInv', CallsInv, NEW s \in Services, NEW to \in Services, Redirect(s, to)
  PROVE  CallsInv'
<1> DEFINE v == core[s]
           c == Me(s)
           f == [v.owed EXCEPT ![c] = <<>>]
           w == [v EXCEPT !.owed[c] = <<>>]
<1>1. /\ Busy(s) /\ v.owed[c] # <<>> /\ Tables(s, w)
      /\ inbox' = Sent(inbox, to, Event("call", v.owed[c][1], v.owed[c][2]))
      /\ dropped' = IF Accepts(to) THEN dropped ELSE dropped \union {v.owed[c]}
      /\ status' = status /\ armed' = armed /\ cancelled' = cancelled
  BY DEF Redirect, Operates
<1>2. /\ TypeOK /\ TypeOK' /\ v \in State /\ c \in Cos /\ Ordered(inbox)
      /\ inbox \in [Services -> Seq(Events)]
  BY <1>1, BusyOne DEF Me, CoreInv
<1>3. w = [v EXCEPT !.owed = f]
  BY <1>2 DEF State
<1> HIDE DEF w, f
<1>4. Replied(v, c, w) /\ w.responses = v.responses
  BY <1>2, <1>3 DEF State, Replied, f
<1> HIDE DEF c
<1>5. PICK o \in Call_ :
        /\ core[s].owed[c] = o /\ CallInv(o)
        /\ At("owed", s, c, o) /\ Foreign(o) /\ "owed" \in Places /\ c \in Cos0
        /\ \A q \in Services : ~Among(inbox[q], Requests(o)) /\ o \notin core[q].responses
        /\ ~Among(inbox[o[1]], Answers(o)) /\ o[2] \notin armed[o[1]]
  BY <1>1, OwingOne DEF c
<1>6. /\ inbox' = Sent(inbox, to, Event("call", o[1], o[2]))
      /\ dropped' = IF Accepts(to) THEN dropped ELSE dropped \union {o}
  BY <1>1, <1>5
<1>7. /\ \A q \in Services : /\ Among(inbox'[q], Requests(o)) => q = to
                             /\ Once(inbox'[q], Requests(o))
      /\ ~Among(inbox'[o[1]], Answers(o)) /\ Once(inbox'[o[1]], Answers(o))
      /\ Accepts(to) => Among(inbox'[to], Requests(o))
      /\ \A x \in Call_ : x # o => EventsFewer(x, inbox, inbox') /\ EventsStay(x, inbox, inbox')
      /\ ClosesStay(inbox, inbox') /\ Ordered(inbox')
  BY <1>2, <1>5, <1>6, Requested
<1>8. \A x \in Call_ : x # o => /\ EventsFewer(x, inbox, inbox') /\ EventsStay(x, inbox, inbox')
                                /\ x \in w.responses <=> x \in core[s].responses
  BY <1>4, <1>7
<1>9. core[s].owed[Me(s)] = o /\ Replied(core[s], Me(s), w) /\ dropped \subseteq dropped'
  BY <1>4, <1>5, <1>6 DEF c
<1>10. w.responses = core[s].responses
  BY <1>4
<1> HIDE DEF v
<1>11. /\ Steady(o) /\ ((CallInv(o)') => CallsInv')
       /\ core'[s] = w /\ \A q \in Services : q # s => core'[q] = core[q]
       /\ \A r \in Services, d \in Cos : core'[r].owed[d] # o
  BY <1>1, <1>2, <1>7, <1>8, <1>9, ReplyOthers
<1>12. Only(o, "asked", to, 0)'
  <2>1. \A q \in Services : o \notin core'[q].responses
    BY <1>5, <1>10, <1>11
  <2>2. QED BY <1>1, <1>5, <1>7, <1>11, <2>1 DEF Only
<1>13. At("asked", to, 0, o)' \/ o \in dropped'
  BY <1>6, <1>7 DEF At
<1>14. CallInv(o)'
  <2>1. "asked" \in Places /\ 0 \in Cos0
    BY DEF Places, Cos0
  <2>2. QED BY <1>2, <1>5, <1>7, <1>11, <1>12, <1>13, <2>1, CallPasses
<1>15. QED BY <1>11, <1>14
\* A close is sent, which is about no call.
LEMMA ClosesSent ==
  ASSUME NEW s \in Services, NEW to \in Services, NEW m \in [Services -> Seq(Events)]
  PROVE  LET p == SentClose(m, s, to)
         IN  /\ \A x \in Call_ : EventsFewer(x, m, p) /\ EventsStay(x, m, p)
             /\ ClosesStay(m, p) /\ (Ordered(m) => Ordered(p))
<1> DEFINE e == Event("close", s, 0)
           p == Sent(m, to, e)
<1>1. e \in Events /\ e.ev # "stop"
  BY EventTyped DEF Event
<1>2. \A x \in Call_ : ~About(x, to, e)
  BY AboutOthers
<1> HIDE DEF e
<1>3. \A x \in Call_ : EventsFewer(x, m, p) /\ EventsStay(x, m, p) /\ ClosesStay(m, p)
  BY <1>1, <1>2, SentKeeps
<1>4. <<s, 1>> \in Call_
  <2>1. 1 \in Tokens
    BY MaxOpsAssumption DEF Tokens
  <2>2. QED BY <2>1 DEF Call_
<1>5. Ordered(m) => Ordered(p)
  BY <1>1, OrderedStays
<1>6. QED BY <1>3, <1>4, <1>5 DEF SentClose, e

\* A step that answers a call o with a close, or rather its caller: o is told or noted.
LEMMA ClosedCalls ==
  ASSUME CoreInv, CoreInv', CallsInv, NEW s \in Services, Busy(s), NEW o \in Call_,
         NEW w, Tables(s, w), Keeping(core[s], w), Owers(w),
         inbox' = SentClose(inbox, s, o[1]), dropped' = dropped \union Misses(s, {o}),
         status' = status, armed' = armed, cancelled' = cancelled,
         \A x \in Call_ : x # o => OwesFewer(x, w, core[s])
  PROVE  CallsInv'
<1>1. TypeOK /\ TypeOK' /\ ~Quiet(s) /\ Ordered(inbox) /\ inbox \in [Services -> Seq(Events)]
  BY BusyOne DEF CoreInv
<1>2. o[1] \in Services /\ o[2] \in Tokens
  BY CallPair
<1>3. /\ \A x \in Call_ : EventsFewer(x, inbox, inbox') /\ EventsStay(x, inbox, inbox')
      /\ ClosesStay(inbox, inbox') /\ Ordered(inbox')
  BY <1>1, <1>2, ClosesSent
<1>4. dropped \subseteq dropped' /\ Misses(s, {o}) \subseteq dropped'
  OBVIOUS
<1>5. core'[o[1]].watching[o[2]] = core[o[1]].watching[o[2]]
  <2>1. core'[s] = w /\ \A q \in Services : q # s => core'[q] = core[q]
    BY <1>1, TablesAre
  <2>2. QED BY <1>2, <2>1 DEF Keeping
<1>6. Waits(o[1], o[2])' => GivenUp(o[1], o[2])' \/ o \in dropped'
  BY <1>1, <1>4, <1>5, CloseTells
<1>7. \A x \in Call_ :
        /\ EventsFewer(x, inbox, inbox')
        /\ \/ OwesFewer(x, w, core[s]) /\ EventsStay(x, inbox, inbox')
           \/ Waits(x[1], x[2])' => GivenUp(x[1], x[2])' \/ x \in dropped'
  BY <1>3, <1>6
<1>8. \A x \in Call_ : CallInv(x)'
  BY <1>1, <1>3, <1>4, <1>7, KeepingForgets
<1>9. QED BY <1>1, <1>3, <1>8, StepCalls

\* replyClose
LEMMA ReplyCloseCalls ==
  ASSUME CoreInv, CoreInv', CallsInv, NEW s \in Services, ReplyClose(s)
  PROVE  CallsInv'
<1> DEFINE v == core[s]
           c == Me(s)
           f == [v.owed EXCEPT ![c] = <<>>]
           w == [v EXCEPT !.owed[c] = <<>>]
<1>1. /\ Busy(s) /\ v.owed[c] # <<>> /\ Tables(s, w)
      /\ inbox' = SentClose(inbox, s, v.owed[c][1])
      /\ dropped' = dropped \union Misses(s, {v.owed[c]})
      /\ status' = status /\ armed' = armed /\ cancelled' = cancelled
  BY DEF ReplyClose, Operates
<1>2. v \in State /\ c \in Cos /\ Owers(v)
  BY <1>1, BusyOne DEF Me
<1>3. w = [v EXCEPT !.owed = f] /\ f \in [Cos -> {<<>>} \cup Call_] /\ v.owed \in [Cos -> {<<>>} \cup Call_]
  BY <1>2 DEF State
<1> HIDE DEF w, f
<1>4. /\ w.at = v.at /\ w.tokenTo = v.tokenTo /\ w.watching = v.watching /\ w.uiToken = v.uiToken
      /\ w.cancelQ = v.cancelQ /\ w.responses = v.responses /\ w.owed = f
  BY <1>2, <1>3 DEF State
<1>5. \A d \in Cos : w.owed[d] = IF d = c THEN <<>> ELSE v.owed[d]
  BY <1>2, <1>3, <1>4 DEF f
<1> HIDE DEF c
<1>6. Keeping(v, w)
  BY <1>4, <1>5 DEF Keeping
<1>7. Owers(w)
  BY <1>2, <1>4, <1>5, OwersStay
<1>8. PICK o \in Call_ : core[s].owed[c] = o
  BY <1>1, OwingOne DEF c
<1>9. ASSUME NEW x \in Call_, x # o PROVE OwesFewer(x, w, v)
  BY <1>4, <1>5, <1>8, <1>9 DEF OwesFewer
<1>10. inbox' = SentClose(inbox, s, o[1]) /\ dropped' = dropped \union Misses(s, {o})
  BY <1>1, <1>8
<1>11. QED BY <1>1, <1>6, <1>7, <1>9, <1>10, ClosedCalls

\* The response of genResponse that fails.
LEMMA RespondCloses ==
  ASSUME CoreInv, CoreInv', CallsInv, NEW s \in Services, NEW r \in core[s].responses, Respond(s, r, FALSE)
  PROVE  CallsInv'
<1> DEFINE v == core[s]
           g == v.responses \ {r}
           w == [v EXCEPT !.responses = @ \ {r}]
<1>1. /\ Busy(s) /\ Tables(s, w) /\ inbox' = SentClose(inbox, s, r[1])
      /\ dropped' = dropped \union Misses(s, {r})
      /\ status' = status /\ armed' = armed /\ cancelled' = cancelled
  BY DEF Respond, Operates
<1>2. v \in State /\ Owers(v) /\ r \in Call_
  BY <1>1, BusyOne
<1>3. w = [v EXCEPT !.responses = g]
  BY <1>2 DEF State
<1> HIDE DEF w, g
<1>4. /\ w.at = v.at /\ w.tokenTo = v.tokenTo /\ w.watching = v.watching /\ w.uiToken = v.uiToken
      /\ w.cancelQ = v.cancelQ /\ w.responses = g /\ w.owed = v.owed
  BY <1>2, <1>3 DEF State
<1>5. Keeping(v, w)
  BY <1>4 DEF Keeping, g
<1>6. Owers(w)
  BY <1>2, <1>4, OwersStay
<1>7. \A x \in Call_ : x # r => OwesFewer(x, w, v)
  BY <1>4 DEF OwesFewer, g
<1>8. QED BY <1>1, <1>2, <1>5, <1>6, <1>7, ClosedCalls
\* It replies: the answer is on its way.
LEMMA RespondReplies ==
  ASSUME CoreInv, CoreInv', CallsInv, NEW s \in Services, NEW r \in core[s].responses, Respond(s, r, TRUE)
  PROVE  CallsInv'
<1> DEFINE v == core[s]
           g == v.responses \ {r}
           w == [v EXCEPT !.responses = @ \ {r}]
           e == Event("answer", s, r[2])
<1>1. /\ Busy(s) /\ Tables(s, w) /\ inbox' = Sent(inbox, r[1], e)
      /\ status' = status /\ armed' = armed /\ dropped' = dropped /\ cancelled' = cancelled
  BY DEF Respond, Operates
<1>2. /\ TypeOK /\ TypeOK' /\ v \in State /\ Owers(v) /\ r \in Call_ /\ Ordered(inbox) /\ ~Quiet(s)
      /\ inbox \in [Services -> Seq(Events)]
  BY <1>1, BusyOne DEF CoreInv
<1>3. w = [v EXCEPT !.responses = g]
  BY <1>2 DEF State
<1> HIDE DEF w, g
<1>4. /\ w.at = v.at /\ w.tokenTo = v.tokenTo /\ w.watching = v.watching /\ w.uiToken = v.uiToken
      /\ w.cancelQ = v.cancelQ /\ w.responses = g /\ w.owed = v.owed
  BY <1>2, <1>3 DEF State
<1>5. core'[s] = w /\ \A q \in Services : q # s => core'[q] = core[q]
  BY <1>1, <1>2, TablesAre
<1>6. Owers(w)
  BY <1>2, <1>4, OwersStay
<1>7. r[1] \in Services /\ r[2] \in Tokens /\ v.uiToken \in Nat
  BY <1>2, CallPair DEF State
<1>8. e \in Events /\ e.ev # "stop" /\ \A x \in Call_ : x # r => ~About(x, r[1], e)
  BY <1>2, <1>7, EventTyped, AboutOthers DEF Event
<1>9. ClosesStay(inbox, inbox') /\ Ordered(inbox')
  <2> HIDE DEF e
  <2>1. QED BY <1>1, <1>2, <1>7, <1>8, SentKeeps, OrderedStays
<1>10. \A x \in Call_ : x # r => EventsFewer(x, inbox, inbox') /\ EventsStay(x, inbox, inbox')
  <2> HIDE DEF e
  <2>1. QED BY <1>1, <1>2, <1>7, <1>8, SentKeeps
<1>11. ASSUME NEW x \in Call_ PROVE Steady(x) /\ RestStays(x) /\ CallInv(x)
  <2>1. TablesStay(x, s, w)
    BY <1>4, <1>7 DEF TablesStay
  <2>2. RestStays(x)
    BY <1>1, RestSame
  <2>3. QED BY <1>1, <1>2, <1>9, <2>1, <2>2, StepSteady DEF CallsInv
<1>12. ASSUME NEW x \in Call_, x # r PROVE CallInv(x)'
  <2>1. OwesFewer(x, v, w) /\ OwesFewer(x, w, v)
    BY <1>4, <1>12 DEF OwesFewer, g
  <2>2. QED BY <1>1, <1>2, <1>10, <1>11, <1>12, <2>1, CallIdles
<1>13. At("deferred", s, 0, r) /\ Foreign(r) /\ "deferred" \in Places /\ "given" \in Places /\ 0 \in Cos0
  BY DEF At, Foreign, Places, Cos0
<1>14. Only(r, "deferred", s, 0)
  BY <1>2, <1>11, <1>13, OnlyHere
<1>15. /\ \A q \in Services : ~Among(inbox[q], Requests(r)) /\ (r \in core[q].responses => q = s)
       /\ ~Among(inbox[r[1]], Answers(r)) /\ r[2] \notin armed[r[1]]
       /\ \A q \in Services, d \in Cos : core[q].owed[d] # r
  BY <1>14 DEF Only
<1>16. /\ \A q \in Services : ~Among(inbox'[q], Requests(r)) /\ Once(inbox'[q], Requests(r))
       /\ Once(inbox'[r[1]], Answers(r))
       /\ Accepts(r[1]) => Among(inbox'[r[1]], Answers(r))
  BY <1>1, <1>2, <1>15, Delivered
<1>17. Only(r, "given", r[1], 0)'
  <2>1. \A q \in Services : r \notin core'[q].responses /\ \A d \in Cos : core'[q].owed[d] # r
    BY <1>4, <1>5, <1>15 DEF g
  <2> HIDE DEF v, e
  <2>2. QED BY <1>1, <1>15, <1>16, <2>1 DEF Only
<1>18. Waits(r[1], r[2])' => At("given", r[1], 0, r)'
  BY <1>1, <1>16 DEF Waits, Accepts, At
<1>19. CallInv(r)'
  <2> HIDE DEF v, e
  <2>1. QED BY <1>2, <1>7, <1>11, <1>13, <1>16, <1>17, <1>18, CallPasses
<1>20. \A x \in Call_ : CallInv(x)'
  BY <1>12, <1>19
<1>21. QED BY <1>1, <1>2, <1>6, <1>9, <1>20, StepCalls

-----------------------------------------------------------------------------
(* The timers *)

\* A timer fires: its event is queued instead.
LEMMA FiresCalls ==
  ASSUME CoreInv, CoreInv', CallsInv, NEW s \in Services, NEW t \in Tokens, Fires(s, t)
  PROVE  CallsInv'
<1> DEFINE v == core[s]
           o == <<s, t>>
           e == Event("answer", s, t)
<1>1. /\ t \in armed[s] /\ armed' = [armed EXCEPT ![s] = @ \ {t}]
      /\ inbox' = Sent(inbox, s, e) /\ core' = core
      /\ status' = status /\ dropped' = dropped /\ cancelled' = cancelled
  BY DEF Fires
<1>2. /\ TypeOK /\ TypeOK' /\ Owers(v) /\ Ordered(inbox) /\ inbox \in [Services -> Seq(Events)]
      /\ armed \in [Services -> SUBSET Tokens] /\ v.uiToken \in Nat
  BY DEF CoreInv, CallsInv, TypeOK, State
<1>3. /\ o \in Call_ /\ o[1] = s /\ o[2] = t
  BY DEF Call_
<1>4. e \in Events /\ e.ev # "stop" /\ \A x \in Call_ : x # o => ~About(x, s, e)
  BY <1>3, EventTyped, AboutOthers DEF Event
<1>5. ClosesStay(inbox, inbox') /\ Ordered(inbox')
  <2> HIDE DEF e, o
  <2>1. QED BY <1>1, <1>2, <1>3, <1>4, SentKeeps, OrderedStays
<1>6. \A x \in Call_ : x # o => EventsFewer(x, inbox, inbox') /\ EventsStay(x, inbox, inbox')
  <2> HIDE DEF e, o
  <2>1. QED BY <1>1, <1>2, <1>4, SentKeeps
<1>7. Tables(s, v)
  BY <1>1, <1>2, SameTables
<1>8. ASSUME NEW x \in Call_ PROVE Steady(x) /\ CallInv(x) /\ OwesFewer(x, v, v)
  <2>1. GivenUp(x[1], x[2]) => GivenUp(x[1], x[2])'
    <3>1. x[1] \in Services /\ x[2] \in Tokens
      BY CallPair
    <3>2. core[x[1]].watching[x[2]] \in Addresses \cup {Nobody}
      <4>1. core[x[1]] \in State
        BY <1>2, <3>1 DEF TypeOK
      <4>2. core[x[1]].watching \in [Tokens -> Addresses \cup {Nobody}]
        BY <4>1 DEF State
      <4>3. QED BY <3>1, <4>2
    <3>3. core[x[1]].watching[x[2]] # Nobody \/ ~Contains(inbox[x[1]], Event("close", Nobody, 0))
      <4>1. Event("close", Nobody, 0).source = Nobody
        BY DEF Event
      <4>2. ASSUME Contains(inbox[x[1]], Event("close", Nobody, 0)) PROVE FALSE
        <5>1. Event("close", Nobody, 0) \in Events
          BY <1>2, <3>1, <4>2, ContainedTyped
        <5>2. QED BY <4>1, <5>1, Names DEF Events
      <4>3. QED BY <4>2
    <3>4. QED BY <1>1, <1>5, <3>1, <3>2, <3>3 DEF GivenUp, ClosesStay
  <2>2. core[x[1]].uiToken <= core[x[1]].uiToken
    <3>1. core[x[1]] \in State
      BY <1>2, CallPair DEF TypeOK
    <3>2. QED BY <3>1 DEF State
  <2>3. Steady(x)
    BY <1>1, <2>1, <2>2 DEF Steady
  <2>4. QED BY <2>3 DEF CallsInv, OwesFewer
<1>9. ASSUME NEW x \in Call_, x # o PROVE CallInv(x)'
  <2>1. x[2] \in armed'[x[1]] <=> x[2] \in armed[x[1]]
    BY <1>1, <1>2, <1>3, <1>9, CallPair
  <2>2. RestStays(x)
    BY <1>1, <2>1 DEF RestStays
  <2>3. QED BY <1>2, <1>6, <1>7, <1>8, <1>9, <2>2, CallIdles
<1>10. At("armed", s, 0, o) /\ "armed" \in Places /\ "given" \in Places /\ 0 \in Cos0
  BY <1>1, <1>3 DEF At, Places, Cos0
<1>11. PICK x \in Call_ : x = o
  BY <1>3
<1> HIDE DEF o
<1>12. x[1] = s /\ x[2] = t /\ At("armed", s, 0, x) /\ e = Event("answer", s, x[2])
  BY <1>3, <1>10, <1>11
<1>13. Only(x, "armed", s, 0)
  BY <1>8, <1>10, <1>12, OnlyHere
<1>14. /\ \A q \in Services : ~Among(inbox[q], Requests(x)) /\ x \notin core[q].responses
       /\ ~Among(inbox[x[1]], Answers(x))
       /\ \A q \in Services, d \in Cos : core[q].owed[d] # x
  BY <1>13 DEF Only
<1>15. /\ \A q \in Services : ~Among(inbox'[q], Requests(x)) /\ Once(inbox'[q], Requests(x))
       /\ Once(inbox'[x[1]], Answers(x))
       /\ Accepts(x[1]) => Among(inbox'[x[1]], Answers(x))
  BY <1>1, <1>2, <1>12, <1>14, Delivered
<1>16. Only(x, "given", x[1], 0)'
  <2>1. x[2] \notin armed'[x[1]]
    BY <1>1, <1>2, <1>12
  <2>2. QED BY <1>1, <1>14, <1>15, <2>1 DEF Only
<1>17. Waits(x[1], x[2])' => At("given", x[1], 0, x)'
  BY <1>1, <1>15 DEF Waits, Accepts, At
<1>18. Foreign(x)' => Foreign(x)
  <2>1. \A A : Among(inbox'[s], A) => Among(inbox[s], A) \/ e \in A
    BY <1>1, <1>2, <1>4, SentAmong
  <2>2. e \notin Strangers(x)
    BY <1>12 DEF Strangers, Event
  <2>3. Among(inbox'[x[1]], Strangers(x)) => Among(inbox[x[1]], Strangers(x))
    BY <1>12, <2>1, <2>2
  <2>4. \A q \in Services, c \in Cos : ~At("owed", q, c, x)'
    BY <1>1, <1>14 DEF At
  <2>5. \A q \in Services : ~At("asked", q, 0, x)' /\ ~At("deferred", q, 0, x)'
    BY <1>1, <1>14, <1>15 DEF At
  <2>6. QED BY <2>3, <2>4, <2>5 DEF Foreign
<1>19. CallInv(x)'
  <2> HIDE DEF v, e
  <2>1. QED BY <1>2, <1>8, <1>10, <1>12, <1>15, <1>16, <1>17, <1>18, CallPasses
<1>20. \A y \in Call_ : CallInv(y)'
  BY <1>9, <1>11, <1>19
<1>21. \A q \in Services : q # s => armed'[q] = armed[q]
  BY <1>1, <1>2
<1>22. armed[s] # {}
  BY <1>1
<1>23. QED BY <1>1, <1>2, <1>5, <1>7, <1>20, <1>21, <1>22, StepCalls
-----------------------------------------------------------------------------
(* A service takes an event *)

\* The first event of a queue is taken: only the call it is about may have one place fewer.
LEMMA HeadTaken ==
  ASSUME TypeOK, CallsInv, NEW s \in Services, inbox[s] # <<>>
  PROVE  LET m == [inbox EXCEPT ![s] = Tail(@)]
             e == Head(inbox[s])
         IN  /\ m \in [Services -> Seq(Events)] /\ Ordered(m)
             /\ e \in Events /\ e = Event(e.ev, e.source, e.token)
             /\ \A x \in Call_ : /\ EventsFewer(x, inbox, m)
                                 /\ ~About(x, s, e) => EventsStay(x, inbox, m)
             /\ e.ev # "close" => ClosesStay(inbox, m)
             /\ e.ev \in {"send", "close", "stop"} => \A x \in Call_ : ~About(x, s, e)
             /\ e.ev = "stop" => m[s] = <<>>
<1> DEFINE m == [inbox EXCEPT ![s] = Tail(@)]
           e == Head(inbox[s])
<1>1. inbox \in [Services -> Seq(Events)] /\ Ordered(inbox)
  BY DEF TypeOK, CallsInv
<1>2. e \in Events /\ m \in [Services -> Seq(Events)] /\ m[s] = Tail(inbox[s])
  <2>1. Tail(inbox[s]) \in Seq(Events) /\ e \in Events
    BY <1>1, TailOf, NonEmpty
  <2>2. QED BY <1>1, <2>1
<1>3. Ordered(m) /\ (e.ev = "stop" => m[s] = <<>>)
  BY <1>1, <1>2, OrderedStays
<1>4. \A x \in Call_ : /\ EventsFewer(x, inbox, m)
                       /\ ~About(x, s, e) => EventsStay(x, inbox, m)
                       /\ e.ev # "close" => ClosesStay(inbox, m)
  BY <1>1, TailKeeps
<1>5. <<s, 1>> \in Call_
  <2>1. 1 \in Tokens
    BY MaxOpsAssumption DEF Tokens
  <2>2. QED BY <2>1 DEF Call_
<1> HIDE DEF m, e
<1>6. e = Event(e.ev, e.source, e.token)
  BY <1>2 DEF Events, Event
<1>7. ASSUME e.ev \in {"send", "close", "stop"}, NEW x \in Call_ PROVE ~About(x, s, e)
  <2>1. e.token = 0 /\ e.source \in Services
    BY <1>2, <1>7 DEF Events
  <2>2. QED BY <1>6, <1>7, <2>1, AboutOthers
<1>8. QED BY <1>2, <1>3, <1>4, <1>5, <1>6, <1>7 DEF m, e

\* It is the request of a call, which is nowhere any more.
LEMMA RequestTaken ==
  ASSUME TypeOK, CallsInv, NEW s \in Services, inbox[s] # <<>>, Head(inbox[s]).ev \in {"call", "ping"}
  PROVE  LET m == [inbox EXCEPT ![s] = Tail(@)]
             e == Head(inbox[s])
         IN  \E o \in Call_ :
               /\ o[1] = e.source /\ o[2] = e.token /\ o = <<e.source, e.token>> /\ CallInv(o)
               /\ At("asked", s, 0, o) /\ Foreign(o) /\ "asked" \in Places /\ 0 \in Cos0
               /\ \A q \in Services : /\ ~Among(m[q], Requests(o)) /\ o \notin core[q].responses
                                      /\ \A d \in Cos : core[q].owed[d] # o
               /\ ~Among(m[o[1]], Answers(o)) /\ o[2] \notin armed[o[1]]
               /\ \A x \in Call_ : x # o => EventsStay(x, inbox, m)
<1> DEFINE m == [inbox EXCEPT ![s] = Tail(@)]
           e == Head(inbox[s])
<1>1. /\ m \in [Services -> Seq(Events)] /\ e \in Events /\ e = Event(e.ev, e.source, e.token)
      /\ \A x \in Call_ : /\ EventsFewer(x, inbox, m)
                          /\ ~About(x, s, e) => EventsStay(x, inbox, m)
  BY HeadTaken
<1>2. e.source \in Services /\ e.token \in Tokens
  BY <1>1 DEF Events
<1>3. PICK o \in Call_ : o = <<e.source, e.token>>
  BY <1>2 DEF Call_
<1>4. o[1] = e.source /\ o[2] = e.token /\ CallInv(o)
  BY <1>3 DEF CallsInv
<1>5. inbox[s] \in Seq(Events) /\ m[s] = Tail(inbox[s]) /\ \A q \in Services : q # s => m[q] = inbox[q]
  BY DEF TypeOK
<1>6. /\ \A A : Among(inbox[s], A) <=> e \in A \/ Among(Tail(inbox[s]), A)
      /\ \A A : Once(inbox[s], A) => (e \in A => ~Among(Tail(inbox[s]), A))
  BY <1>5, TailAmong
<1> HIDE DEF m, e
<1>7. e \in Requests(o)
  BY <1>1, <1>2, <1>3, EventIs DEF e
<1>8. At("asked", s, 0, o) /\ Foreign(o) /\ "asked" \in Places /\ 0 \in Cos0
  <2>1. Among(inbox[s], Requests(o))
    BY <1>6, <1>7
  <2>2. At("asked", s, 0, o)
    BY <2>1 DEF At
  <2>3. QED BY <2>2 DEF Foreign, Places, Cos0
<1>9. Only(o, "asked", s, 0)
  BY <1>4, <1>8, OnlyHere
<1>10. /\ \A q \in Services : /\ q # s => ~Among(inbox[q], Requests(o))
                              /\ o \notin core[q].responses /\ \A d \in Cos : core[q].owed[d] # o
       /\ ~Among(inbox[o[1]], Answers(o)) /\ o[2] \notin armed[o[1]]
  BY <1>9 DEF Only
<1>11. \A q \in Services : ~Among(m[q], Requests(o))
  <2>1. Once(inbox[s], Requests(o))
    BY <1>4 DEF CallInv, OnePlace
  <2>2. QED BY <1>5, <1>6, <1>7, <1>10, <2>1
<1>12. ~Among(m[o[1]], Answers(o))
  BY <1>1, <1>10 DEF EventsFewer
<1>13. ASSUME NEW x \in Call_, x # o PROVE EventsStay(x, inbox, m)
  <2>1. ~About(x, s, Event(e.ev, o[1], o[2]))
    BY <1>13, AboutOthers DEF e
  <2>2. QED BY <1>1, <1>4, <2>1
<1>14. QED BY <1>3, <1>4, <1>8, <1>10, <1>11, <1>12, <1>13 DEF m, e
\* A step of one service that has to do with one call o: the other calls, and the rest.
LEMMA OneCall ==
  ASSUME TypeOK, TypeOK', CallsInv, NEW s \in Services, inbox[s] # <<>>, NEW o \in Call_,
         NEW w, Tables(s, w), Owers(w), w.tokenTo = core[s].tokenTo, w.watching = core[s].watching,
         w.uiToken = core[s].uiToken, w.cancelQ = core[s].cancelQ,
         status' = status, armed' = armed, cancelled' = cancelled, dropped \subseteq dropped',
         ClosesStay(inbox, inbox'), Ordered(inbox'),
         \A x \in Call_ : x # o => /\ EventsFewer(x, inbox, inbox') /\ EventsStay(x, inbox, inbox')
                                   /\ OwesFewer(x, core[s], w) /\ OwesFewer(x, w, core[s])
  PROVE  /\ Steady(o) /\ ((CallInv(o)') => CallsInv')
         /\ core'[s] = w /\ \A q \in Services : q # s => core'[q] = core[q]
<1>1. core'[s] = w /\ \A q \in Services : q # s => core'[q] = core[q]
  BY TablesAre
<1>2. core[s].uiToken \in Nat
  BY DEF TypeOK, State
<1>3. ASSUME NEW x \in Call_ PROVE Steady(x) /\ RestStays(x) /\ CallInv(x)
  <2>1. TablesStay(x, s, w)
    BY <1>2 DEF TablesStay
  <2>2. RestStays(x)
    BY RestSame
  <2>3. QED BY <2>1, <2>2, StepSteady DEF CallsInv
<1>4. ASSUME NEW x \in Call_, x # o PROVE CallInv(x)'
  BY <1>3, <1>4, CallIdles
<1>5. ASSUME CallInv(o)' PROVE CallsInv'
  <2>1. \A x \in Call_ : CallInv(x)'
    BY <1>4, <1>5
  <2>2. QED BY <2>1, StepCalls
<1>6. QED BY <1>1, <1>3, <1>5

\* ping: it is answered at once.
LEMMA PingCalls ==
  ASSUME CoreInv, CoreInv', CallsInv, NEW s \in Services, inbox[s] # <<>>, Head(inbox[s]).ev = "ping",
         inbox' = Sent([inbox EXCEPT ![s] = Tail(@)], Head(inbox[s]).source,
                       Event("answer", s, Head(inbox[s]).token)),
         UNCHANGED <<core, status, armed, dropped, cancelled, twice>>
  PROVE  CallsInv'
<1> DEFINE m == [inbox EXCEPT ![s] = Tail(@)]
           h == Head(inbox[s])
<1>1. TypeOK /\ TypeOK'
  BY DEF CoreInv
<1>2. /\ m \in [Services -> Seq(Events)] /\ Ordered(m) /\ ClosesStay(inbox, m)
      /\ \A x \in Call_ : EventsFewer(x, inbox, m)
  BY <1>1, HeadTaken
<1>3. PICK o \in Call_ :
        /\ o[1] = h.source /\ o[2] = h.token /\ CallInv(o)
        /\ At("asked", s, 0, o) /\ Foreign(o) /\ "asked" \in Places /\ 0 \in Cos0
        /\ \A q \in Services : /\ ~Among(m[q], Requests(o)) /\ o \notin core[q].responses
                               /\ \A d \in Cos : core[q].owed[d] # o
        /\ ~Among(m[o[1]], Answers(o)) /\ o[2] \notin armed[o[1]]
        /\ \A x \in Call_ : x # o => EventsStay(x, inbox, m)
  BY <1>1, RequestTaken
<1> DEFINE e == Event("answer", s, o[2])
<1>4. inbox' = Sent(m, o[1], e) /\ o[1] \in Services /\ o[2] \in Tokens
  BY <1>3, CallPair
<1>5. e \in Events /\ e.ev # "stop" /\ \A x \in Call_ : x # o => ~About(x, o[1], e)
  BY <1>4, EventTyped, AboutOthers DEF Event
<1> HIDE DEF m, h
<1>6. /\ \A q \in Services : ~Among(inbox'[q], Requests(o)) /\ Once(inbox'[q], Requests(o))
      /\ Once(inbox'[o[1]], Answers(o))
      /\ Accepts(o[1]) => Among(inbox'[o[1]], Answers(o))
  BY <1>2, <1>3, <1>4, Delivered
<1> HIDE DEF e
<1>7. ClosesStay(inbox, inbox') /\ Ordered(inbox')
  <2>1. ClosesStay(m, inbox') /\ Ordered(inbox')
    BY <1>2, <1>4, <1>5, SentKeeps, OrderedStays
  <2>2. QED BY <1>2, <2>1, EventsThen
<1>8. ASSUME NEW x \in Call_, x # o
      PROVE  /\ EventsFewer(x, inbox, inbox') /\ EventsStay(x, inbox, inbox')
             /\ OwesFewer(x, core[s], core[s])
  <2>1. EventsFewer(x, m, inbox') /\ EventsStay(x, m, inbox')
    BY <1>2, <1>4, <1>5, <1>8, SentKeeps
  <2>2. EventsFewer(x, inbox, m) /\ EventsStay(x, inbox, m)
    BY <1>2, <1>3, <1>8
  <2>3. EventsFewer(x, inbox, inbox')
    BY <2>1, <2>2, EventsThen, SMTT(30)
  <2>4. EventsStay(x, inbox, inbox')
    BY <2>1, <2>2, EventsThen, SMTT(30)
  <2>5. QED BY <2>3, <2>4 DEF OwesFewer
<1>9. Tables(s, core[s]) /\ Owers(core[s])
  BY <1>1, SameTables DEF CallsInv
<1>10. Steady(o) /\ ((CallInv(o)') => CallsInv')
  BY <1>1, <1>7, <1>8, <1>9, OneCall
<1>11. Only(o, "given", o[1], 0)'
  BY <1>3, <1>6 DEF Only
<1>12. Waits(o[1], o[2])' => At("given", o[1], 0, o)'
  BY <1>6 DEF Waits, Accepts, At
<1>13. CallInv(o)'
  <2>1. "given" \in Places
    BY DEF Places
  <2>2. QED BY <1>1, <1>3, <1>4, <1>6, <1>10, <1>11, <1>12, <2>1, CallPasses
<1>14. QED BY <1>10, <1>13

\* A coroutine is created for an event and resumed.
LEMMA StartedFields ==
  ASSUME NEW v, Sound(v), NEW n \in Nat, Few(v, n), Unlimited, Owers(v)
  PROVE  LET y == Resumed(Created(v, "new"), NewCo(v))
         IN  /\ y \in State /\ Owers(y) /\ y.at[NewCo(v)] = "running"
             /\ NewCo(v) \in Cos /\ v.owed[NewCo(v)] = <<>>
             /\ y.owed = v.owed /\ y.responses = v.responses /\ y.cancelQ = v.cancelQ
             /\ y.tokenTo = v.tokenTo /\ y.watching = v.watching /\ y.uiToken = v.uiToken
<1> DEFINE c == NewCo(v)
           x == Created(v, "new")
           y == Resumed(x, c)
<1>1. Owers(x) /\ v.owed[c] = <<>>
  BY OwersCreated
<1>2. /\ x \in State /\ x.owed = v.owed /\ x.responses = v.responses /\ x.cancelQ = v.cancelQ
      /\ x.tokenTo = v.tokenTo /\ x.watching = v.watching /\ x.uiToken = v.uiToken
      /\ c \in Cos
  BY CreatedOK DEF Sound
<1> HIDE DEF x, c
<1>3. Owers(y) /\ y.owed = x.owed /\ y.at[c] = "running"
  BY <1>1, <1>2, OwersResumed
<1>4. /\ y \in State /\ y.tokenTo = x.tokenTo /\ y.watching = x.watching /\ y.uiToken = x.uiToken
      /\ y.cancelQ = x.cancelQ /\ y.responses = x.responses
  <2> DEFINE a == [x.at EXCEPT ![c] = "running"]
  <2>1. y = [x EXCEPT !.running = c, !.at = a] /\ a \in [Cos -> Kinds]
    BY <1>2 DEF Resumed, State, Kinds
  <2> HIDE DEF a, y
  <2>2. QED BY <1>2, <2>1 DEF State
<1> HIDE DEF y
<1>5. QED BY <1>1, <1>2, <1>3, <1>4 DEF y, x, c

\* A handler is started, which owes a reply or nothing.
LEMMA HandlerFields ==
  ASSUME CoreInv, CallsInv, Unlimited, NEW s \in Services, NEW d \in {<<>>} \cup Call_
  PROVE  LET v == core[s]
             c == NewCo(v)
             w == [Resumed(Created(v, "new"), c) EXCEPT !.owed[c] = d]
         IN  /\ c \in Cos /\ v.owed[c] = <<>> /\ Owers(w)
             /\ w.tokenTo = v.tokenTo /\ w.watching = v.watching
             /\ w.uiToken = v.uiToken /\ w.cancelQ = v.cancelQ /\ w.responses = v.responses
             /\ \A b \in Cos : w.owed[b] = IF b = c THEN d ELSE v.owed[b]
<1> DEFINE v == core[s]
           c == NewCo(v)
           y == Resumed(Created(v, "new"), c)
           f == [y.owed EXCEPT ![c] = d]
           w == [y EXCEPT !.owed[c] = d]
<1>1. v \in State /\ Sound(v) /\ (\E n \in Nat : Few(v, n)) /\ Owers(v)
  BY OfOne DEF CallsInv
<1>2. PICK n \in Nat : Few(v, n)
  BY <1>1
<1> HIDE DEF v
<1>3. /\ y \in State /\ Owers(y) /\ y.at[c] = "running" /\ c \in Cos /\ v.owed[c] = <<>>
      /\ y.owed = v.owed /\ y.responses = v.responses /\ y.cancelQ = v.cancelQ
      /\ y.tokenTo = v.tokenTo /\ y.watching = v.watching /\ y.uiToken = v.uiToken
  BY <1>1, <1>2, StartedFields
<1> HIDE DEF y, c
<1>4. w = [y EXCEPT !.owed = f] /\ f \in [Cos -> {<<>>} \cup Call_]
  BY <1>3 DEF State
<1>5. \A b \in Cos : f[b] = IF b = c THEN d ELSE y.owed[b]
  BY <1>3 DEF State
<1> HIDE DEF f, w
<1>6. /\ w.owed = f /\ w.at = y.at /\ w.tokenTo = y.tokenTo /\ w.watching = y.watching
      /\ w.uiToken = y.uiToken /\ w.cancelQ = y.cancelQ /\ w.responses = y.responses
  BY <1>3, <1>4 DEF State
<1>7. Owers(w)
  BY <1>3, <1>5, <1>6, OwersStay
<1>8. /\ c \in Cos /\ v.owed[c] = <<>> /\ Owers(w)
      /\ w.tokenTo = v.tokenTo /\ w.watching = v.watching
      /\ w.uiToken = v.uiToken /\ w.cancelQ = v.cancelQ /\ w.responses = v.responses
      /\ \A b \in Cos : w.owed[b] = IF b = c THEN d ELSE v.owed[b]
  BY <1>3, <1>5, <1>6, <1>7
<1>9. QED BY <1>8 DEF w, y, c, v
\* The handler of a call owes the reply.
LEMMA StartCalls ==
  ASSUME CoreInv, CoreInv', CallsInv, Unlimited, NEW s \in Services, Quiet(s), inbox[s] # <<>>,
         Head(inbox[s]).ev = "call", s \in Handles, StartHandler(s, Head(inbox[s])),
         UNCHANGED <<status, armed>>
  PROVE  CallsInv'
<1> DEFINE m == [inbox EXCEPT ![s] = Tail(@)]
           h == Head(inbox[s])
           v == core[s]
           z == <<h.source, h.token>>
           w == [Resumed(Created(v, "new"), NewCo(v)) EXCEPT !.owed[NewCo(v)] = z]
<1>1. TypeOK /\ TypeOK' /\ v.owed \in [Cos -> {<<>>} \cup Call_]
  BY DEF CoreInv, TypeOK, State
<1>2. /\ m \in [Services -> Seq(Events)] /\ Ordered(m) /\ ClosesStay(inbox, m)
      /\ \A x \in Call_ : EventsFewer(x, inbox, m)
  BY <1>1, HeadTaken
<1>3. PICK o \in Call_ :
        /\ o[1] = h.source /\ o[2] = h.token /\ o = z /\ CallInv(o)
        /\ At("asked", s, 0, o) /\ Foreign(o) /\ "asked" \in Places /\ 0 \in Cos0
        /\ \A q \in Services : /\ ~Among(m[q], Requests(o)) /\ o \notin core[q].responses
                               /\ \A d \in Cos : core[q].owed[d] # o
        /\ ~Among(m[o[1]], Answers(o)) /\ o[2] \notin armed[o[1]]
        /\ \A x \in Call_ : x # o => EventsStay(x, inbox, m)
  BY <1>1, RequestTaken
<1>4. Tables(s, w) /\ inbox' = m /\ UNCHANGED <<dropped, cancelled, status, armed>>
  BY DEF StartHandler
<1> HIDE DEF m, h, z
<1>5. /\ NewCo(v) \in Cos /\ v.owed[NewCo(v)] = <<>> /\ Owers(w)
      /\ w.tokenTo = v.tokenTo /\ w.watching = v.watching
      /\ w.uiToken = v.uiToken /\ w.cancelQ = v.cancelQ /\ w.responses = v.responses
      /\ \A b \in Cos : w.owed[b] = IF b = NewCo(v) THEN z ELSE v.owed[b]
  <2>1. z \in {<<>>} \cup Call_
    BY <1>3
  <2>2. QED BY <2>1, HandlerFields
<1> HIDE DEF w
<1>a. PICK c \in Cos : c = NewCo(v)
  BY <1>5
<1>6. v.owed[c] = <<>> /\ \A d \in Cos : w.owed[d] = IF d = c THEN o ELSE v.owed[d]
  BY <1>1, <1>3, <1>5, <1>a
<1>7. ASSUME NEW x \in Call_, x # o
      PROVE  /\ EventsFewer(x, inbox, inbox') /\ EventsStay(x, inbox, inbox')
             /\ OwesFewer(x, v, w) /\ OwesFewer(x, w, v)
  <2>1. x # <<>>
    BY CallPair
  <2>2. QED BY <1>2, <1>3, <1>4, <1>5, <1>6, <1>7, <2>1 DEF OwesFewer
<1>8. ClosesStay(inbox, inbox') /\ Ordered(inbox')
  BY <1>2, <1>4
<1>9. /\ Steady(o) /\ ((CallInv(o)') => CallsInv')
      /\ core'[s] = w /\ \A q \in Services : q # s => core'[q] = core[q]
  <2>1. /\ w.tokenTo = core[s].tokenTo /\ w.watching = core[s].watching
        /\ w.uiToken = core[s].uiToken /\ w.cancelQ = core[s].cancelQ
    BY <1>5
  <2>2. QED BY <1>1, <1>4, <1>5, <1>7, <1>8, <2>1, OneCall
<1>10. Only(o, "owed", s, c)'
  <2>1. \A q \in Services : o \notin core'[q].responses
    BY <1>3, <1>5, <1>9
  <2>2. \A q \in Services, d \in Cos : core'[q].owed[d] = o => q = s /\ d = c
    BY <1>3, <1>6, <1>9
  <2>3. QED BY <1>3, <1>4, <2>1, <2>2 DEF Only
<1>11. At("owed", s, c, o)'
  BY <1>5, <1>6, <1>9 DEF At
<1>12. (\A p \in Services : Once(inbox'[p], Requests(o))) /\ Once(inbox'[o[1]], Answers(o))
  <2>1. ~Among(inbox'[o[1]], Answers(o)) /\ \A p \in Services : ~Among(inbox'[p], Requests(o))
    BY <1>3, <1>4
  <2>2. QED BY <2>1 DEF Among, Once
<1>13. CallInv(o)'
  <2>1. "owed" \in Places /\ c \in Cos0
    BY <1>5 DEF Places, Cos0
  <2>2. QED BY <1>1, <1>3, <1>9, <1>10, <1>11, <1>12, <2>1, CallPasses
<1>14. QED BY <1>9, <1>13

\* An event about no call is taken, and the tables of the coroutines change.
LEMMA SilentCalls ==
  ASSUME TypeOK, TypeOK', CallsInv, NEW s \in Services, inbox[s] # <<>>,
         Head(inbox[s]).ev = "send", inbox' = [inbox EXCEPT ![s] = Tail(@)],
         NEW w, Tables(s, w), Owers(w), w.tokenTo = core[s].tokenTo, w.watching = core[s].watching,
         w.uiToken = core[s].uiToken, w.cancelQ = core[s].cancelQ,
         \A d \in Cos : w.owed[d] = core[s].owed[d], w.responses = core[s].responses,
         UNCHANGED <<status, armed, cancelled, dropped>>
  PROVE  CallsInv'
<1>1. /\ Ordered(inbox') /\ ClosesStay(inbox, inbox')
      /\ \A x \in Call_ : EventsFewer(x, inbox, inbox') /\ EventsStay(x, inbox, inbox')
  BY HeadTaken
<1>2. \A x \in Call_ : OwesFewer(x, w, core[s])
  BY DEF OwesFewer
<1>3. Keeping(core[s], w)
  BY DEF Keeping
<1>4. \A x \in Call_ : CallInv(x)'
  BY <1>1, <1>2, <1>3, KeepingForgets
<1>5. QED BY <1>1, <1>4, StepCalls

\* The handler of a message owes nothing.
LEMMA StartSends ==
  ASSUME CoreInv, CoreInv', CallsInv, Unlimited, NEW s \in Services, Quiet(s), inbox[s] # <<>>,
         Head(inbox[s]).ev = "send", s \in Handles, StartHandler(s, Head(inbox[s])),
         UNCHANGED <<status, armed>>
  PROVE  CallsInv'
<1> DEFINE v == core[s]
           c == NewCo(v)
           w == [Resumed(Created(v, "new"), c) EXCEPT !.owed[c] = <<>>]
<1>1. TypeOK /\ TypeOK' /\ v.owed \in [Cos -> {<<>>} \cup Call_]
  BY DEF CoreInv, TypeOK, State
<1>2. /\ Tables(s, w) /\ inbox' = [inbox EXCEPT ![s] = Tail(@)]
      /\ UNCHANGED <<status, armed, cancelled, dropped>>
  BY DEF StartHandler
<1>3. /\ c \in Cos /\ v.owed[c] = <<>> /\ Owers(w)
      /\ w.tokenTo = v.tokenTo /\ w.watching = v.watching
      /\ w.uiToken = v.uiToken /\ w.cancelQ = v.cancelQ /\ w.responses = v.responses
      /\ \A b \in Cos : w.owed[b] = IF b = c THEN <<>> ELSE v.owed[b]
  BY HandlerFields
<1> HIDE DEF w, c
<1>4. \A d \in Cos : w.owed[d] = v.owed[d]
  BY <1>1, <1>3
<1>5. QED BY <1>1, <1>2, <1>3, <1>4, SilentCalls

\* A call that has no handler is closed.
LEMMA RefuseCalls ==
  ASSUME CoreInv, CoreInv', CallsInv, NEW s \in Services, inbox[s] # <<>>,
         Head(inbox[s]).ev = "call", s \notin Handles, StartHandler(s, Head(inbox[s])),
         UNCHANGED <<status, armed>>
  PROVE  CallsInv'
<1> DEFINE m == [inbox EXCEPT ![s] = Tail(@)]
           h == Head(inbox[s])
<1>1. TypeOK /\ TypeOK'
  BY DEF CoreInv
<1>2. /\ m \in [Services -> Seq(Events)] /\ Ordered(m) /\ ClosesStay(inbox, m)
      /\ \A x \in Call_ : EventsFewer(x, inbox, m)
  BY <1>1, HeadTaken
<1>3. PICK o \in Call_ :
        /\ o[1] = h.source /\ o = <<h.source, h.token>>
        /\ \A x \in Call_ : x # o => EventsStay(x, inbox, m)
  BY <1>1, RequestTaken
<1>4. /\ inbox' = SentClose(m, s, o[1]) /\ dropped' = dropped \union Misses(s, {o})
      /\ core' = core /\ UNCHANGED <<cancelled, status, armed>>
  BY <1>3 DEF StartHandler
<1> HIDE DEF m, h
<1>5. o[1] \in Services
  BY CallPair
<1>6. /\ \A x \in Call_ : EventsFewer(x, m, inbox') /\ EventsStay(x, m, inbox')
      /\ ClosesStay(m, inbox') /\ Ordered(inbox')
  BY <1>2, <1>4, <1>5, ClosesSent
<1>7. ClosesStay(inbox, inbox')
  BY <1>2, <1>6 DEF ClosesStay
<1>8. Waits(o[1], o[2])' => GivenUp(o[1], o[2])' \/ o \in dropped'
  <2>1. Misses(s, {o}) \subseteq dropped'
    BY <1>4
  <2>2. core'[o[1]].watching[o[2]] = core[o[1]].watching[o[2]]
    BY <1>4
  <2>3. QED BY <1>1, <1>2, <1>4, <2>1, <2>2, CloseTells
<1>9. ASSUME NEW x \in Call_
      PROVE  /\ EventsFewer(x, inbox, inbox')
             /\ \/ OwesFewer(x, core[s], core[s]) /\ EventsStay(x, inbox, inbox')
                \/ Waits(x[1], x[2])' => GivenUp(x[1], x[2])' \/ x \in dropped'
  <2>1. EventsFewer(x, inbox, inbox')
    BY <1>2, <1>6, EventsThen
  <2>2. x # o => EventsStay(x, inbox, inbox')
    BY <1>3, <1>6, EventsThen
  <2>3. OwesFewer(x, core[s], core[s])
    BY DEF OwesFewer
  <2>4. QED BY <1>8, <2>1, <2>2, <2>3
<1>10. Tables(s, core[s]) /\ Owers(core[s]) /\ Keeping(core[s], core[s])
  BY <1>1, <1>4, SameTables DEF CallsInv, Keeping
<1>11. dropped \subseteq dropped' /\ armed' = armed /\ cancelled' = cancelled /\ status' = status
  BY <1>4
<1>12. \A x \in Call_ : CallInv(x)'
  BY <1>1, <1>7, <1>9, <1>10, <1>11, KeepingForgets
<1>13. QED BY <1>1, <1>6, <1>10, <1>11, <1>12, StepCalls

\* A message is thrown away.
LEMMA RefuseSends ==
  ASSUME CoreInv, CoreInv', CallsInv, NEW s \in Services, inbox[s] # <<>>,
         Head(inbox[s]).ev = "send", s \notin Handles, StartHandler(s, Head(inbox[s])),
         UNCHANGED <<status, armed>>
  PROVE  CallsInv'
<1>1. TypeOK /\ TypeOK'
  BY DEF CoreInv
<1>2. /\ inbox' = [inbox EXCEPT ![s] = Tail(@)] /\ core' = core
      /\ UNCHANGED <<status, armed, cancelled, dropped>>
  BY DEF StartHandler
<1>3. Tables(s, core[s]) /\ Owers(core[s])
  BY <1>1, <1>2, SameTables DEF CallsInv
<1>4. QED BY <1>1, <1>2, <1>3, SilentCalls
\* stop: nothing is left of the service, and what it owed is noted.
LEMMA StopCalls ==
  ASSUME CoreInv, CoreInv', CallsInv, NEW s \in Services, Quiet(s), inbox[s] # <<>>,
         Head(inbox[s]).ev = "stop", Stop(s), inbox' = [inbox EXCEPT ![s] = Tail(@)]
  PROVE  CallsInv'
<1> DEFINE v == core[s]
           a == [c \in Cos |-> "none"]
           k == [t \in Tokens |-> Nobody]
           w == [Fresh EXCEPT !.at = a, !.tokenTo = k]
<1>1. /\ status' = [status EXCEPT ![s] = "stopped"] /\ Tables(s, w) /\ armed' = [armed EXCEPT ![s] = {}]
      /\ dropped' = dropped \union (UNION {Owes(s, c) : c \in Cos}) \union v.responses
      /\ cancelled' = cancelled
  BY DEF Stop
<1>2. /\ TypeOK /\ TypeOK' /\ status \in [Services -> {"running", "exiting", "stopped"}]
      /\ armed \in [Services -> SUBSET Tokens] /\ v.owed \in [Cos -> {<<>>} \cup Call_]
  BY DEF CoreInv, TypeOK, State
<1>3. /\ inbox'[s] = <<>> /\ ClosesStay(inbox, inbox') /\ Ordered(inbox')
      /\ \A x \in Call_ : EventsFewer(x, inbox, inbox') /\ EventsStay(x, inbox, inbox')
  BY <1>2, HeadTaken
<1>4. /\ \A c \in Cos : w.owed[c] = <<>>
      /\ w.responses = {} /\ w.running = Nobody /\ w.calls = <<>> /\ w.asyncQ = <<>>
  BY DEF Fresh
<1>5. core'[s] = w /\ \A q \in Services : q # s => core'[q] = core[q]
  BY <1>1, <1>2, TablesAre
<1> HIDE DEF w, a, k
<1>6. ASSUME NEW x \in Call_ PROVE PlacesFewer(x)
  <2>1. x # <<>> /\ x[1] \in Services
    BY CallPair
  <2>2. \A q \in Services : /\ \A c \in Cos : core'[q].owed[c] = x => core[q].owed[c] = x
                            /\ x \in core'[q].responses => x \in core[q].responses
    BY <1>4, <1>5, <2>1
  <2>3. x[2] \in armed'[x[1]] => x[2] \in armed[x[1]]
    BY <1>1, <1>2, <2>1
  <2>4. QED BY <1>3, <2>2, <2>3 DEF PlacesFewer
<1>7. ASSUME NEW x \in Call_, x[1] = s PROVE CallInv(x)'
  <2>1. OnePlace(x)'
    BY <1>6, FewerPlaces DEF CallsInv, CallInv
  <2>2. status'[x[1]] = "stopped"
    BY <1>1, <1>2, <1>7
  <2>3. Expected(x)' /\ Kept(x)'
    BY <2>2 DEF Expected, Kept, Waits
  <2>4. QED BY <2>1, <2>3 DEF CallInv
<1>8. ASSUME NEW x \in Call_, x[1] # s PROVE CallInv(x)'
  <2> DEFINE r == x[1]
             t == x[2]
  <2>1. r \in Services /\ t \in Tokens /\ CallInv(x)
    BY CallPair DEF CallsInv
  <2>2. core'[r] = core[r] /\ status'[r] = status[r] /\ armed'[r] = armed[r]
    BY <1>1, <1>2, <1>5, <1>8, <2>1
  <2>3. core[r].uiToken \in Nat /\ core[r].watching[t] \in Addresses \cup {Nobody}
    <3>1. core[r] \in State
      BY <1>2, <2>1 DEF TypeOK
    <3>2. QED BY <2>1, <3>1 DEF State
  <2>4. GivenUp(r, t) /\ Waits(r, t)' => GivenUp(r, t)'
    <3>1. Waits(r, t)' => core[r].watching[t] # Nobody
      BY <2>2 DEF Waits
    <3>2. QED BY <1>3, <2>1, <2>2, <2>3, <3>1 DEF GivenUp, ClosesStay
  <2>5. Steady(x)
    <3>1. dropped \subseteq dropped' /\ core[r].uiToken <= core[r].uiToken
      BY <1>1, <2>3
    <3>2. QED BY <1>1, <2>2, <2>4, <3>1 DEF Steady
  <2>6. CASE x \in dropped'
    BY <1>2, <1>6, <2>1, <2>5, <2>6, CallLeft
  <2>7. CASE x \notin dropped'
    <3>1. ASSUME NEW c \in Cos PROVE v.owed[c] # x
      <4>1. x \notin Owes(s, c)
        BY <1>1, <2>7
      <4>2. x = <<x[1], x[2]>> /\ x # <<>>
        BY CallPair
      <4>3. v.owed[c] = x => x \in Owes(s, c)
        BY <4>2 DEF Owes
      <4>4. QED BY <4>1, <4>3
    <3>2. x \notin v.responses
      BY <1>1, <2>7
    <3>3. PlacesStay(x)
      BY <1>3, <1>5, <2>2, <3>1, <3>2 DEF PlacesStay
    <3>4. QED BY <1>2, <1>6, <2>1, <2>5, <3>3, CallRests
  <2>8. QED BY <2>6, <2>7
<1>9. \A x \in Call_ : CallInv(x)'
  BY <1>7, <1>8
<1>10. ASSUME NEW q \in Services PROVE Owers(core'[q]) /\ AtRest(q)'
  <2>1. CASE q = s
    <3>1. Owers(core'[q])
      BY <1>4, <1>5, <2>1 DEF Owers
    <3>2. armed'[s] = {}
      BY <1>1, <1>2
    <3>3. QED BY <1>4, <1>5, <2>1, <3>1, <3>2 DEF AtRest, Quiet, Busy
  <2>2. CASE q # s
    <3>1. core'[q] = core[q] /\ status'[q] = status[q] /\ armed'[q] = armed[q]
      BY <1>1, <1>2, <1>5, <2>2
    <3>2. QED BY <3>1 DEF AtRest, Quiet, Busy, CallsInv
  <2>3. QED BY <2>1, <2>2
<1>11. Ordered(inbox)'
  <2>1. ASSUME NEW q \in Services
        PROVE  /\ StopLast(inbox'[q])
               /\ Among(inbox'[q], Stops) => status'[q] = "exiting"
               /\ status'[q] = "stopped" => inbox'[q] = <<>>
    <3>1. CASE q = s
      <4>a. 1..Len(inbox'[q]) = {}
        BY <1>3, <3>1
      <4>1. ~Among(inbox'[q], Stops) /\ StopLast(inbox'[q])
        BY <4>a DEF Among, StopLast
      <4>2. QED BY <1>3, <3>1, <4>1
    <3>2. CASE q # s
      <4>1. status'[q] = status[q]
        BY <1>1, <1>2, <3>2
      <4>2. QED BY <1>3, <4>1 DEF Ordered
    <3>3. QED BY <3>1, <3>2
  <2>2. QED BY <2>1 DEF Ordered
<1>12. \A q \in Services : Owers(core[q])' /\ AtRest(q)'
  BY <1>10
<1>13. QED BY <1>9, <1>11, <1>12 DEF CallsInv
-----------------------------------------------------------------------------
(* The caller goes on *)

\* The token t of s leads to no coroutine any more; its call o is nowhere, or it was
\* cancelled.  What the step forgets besides is noted.
Settled(s, t, w) ==
  /\ Tables(s, w) /\ Owers(w) /\ w.tokenTo[t] \notin Cos
  /\ \A u \in Tokens : u # t => /\ w.tokenTo[u] = core[s].tokenTo[u] /\ w.watching[u] = core[s].watching[u]
                                /\ Contains(core[s].cancelQ, u) => Contains(w.cancelQ, u)
  /\ w.uiToken = core[s].uiToken
  /\ \A x \in Call_ : /\ OwesFewer(x, core[s], w)
                      /\ OwesFewer(x, w, core[s]) \/ x \in dropped'
  /\ status' = status /\ dropped \subseteq dropped' /\ ClosesStay(inbox, inbox') /\ Ordered(inbox')
  /\ \A q \in Services : q # s => armed'[q] = armed[q]
  /\ \A u \in Tokens : u # t => (u \in armed'[s] <=> u \in armed[s])
  /\ t \in armed'[s] => t \in armed[s] /\ w.watching[t] = Nobody

\* Once a token is settled, its call is nowhere, or it was cancelled.
LEMMA SettledCalls ==
  ASSUME TypeOK, TypeOK', CallsInv, NEW s \in Services, NEW t \in Tokens,
         NEW o \in Call_, o[1] = s, o[2] = t, NEW w, Settled(s, t, w),
         ~Quiet(s) \/ inbox[s] # <<>>,
         \A x \in Call_ : /\ x # o => EventsStay(x, inbox, inbox') /\ (x \in cancelled' <=> x \in cancelled)
                          /\ EventsFewer(x, inbox, inbox'),
         Held(o)' => o \in cancelled', o \in cancelled' => t <= core[s].uiToken
  PROVE  CallsInv'
<1>a. /\ Tables(s, w) /\ Owers(w) /\ w.tokenTo[t] \notin Cos
      /\ w.uiToken = core[s].uiToken
      /\ status' = status /\ dropped \subseteq dropped' /\ ClosesStay(inbox, inbox') /\ Ordered(inbox')
      /\ t \in armed'[s] => t \in armed[s] /\ w.watching[t] = Nobody
  BY DEF Settled
<1>b. \A u \in Tokens : u # t => /\ w.tokenTo[u] = core[s].tokenTo[u] /\ w.watching[u] = core[s].watching[u]
                                 /\ Contains(core[s].cancelQ, u) => Contains(w.cancelQ, u)
  BY DEF Settled
<1>c. \A x \in Call_ : /\ OwesFewer(x, core[s], w)
                       /\ OwesFewer(x, w, core[s]) \/ x \in dropped'
  BY DEF Settled
<1>d. /\ \A q \in Services : q # s => armed'[q] = armed[q]
      /\ \A u \in Tokens : u # t => (u \in armed'[s] <=> u \in armed[s])
  BY DEF Settled
<1>1. core'[s] = w /\ \A q \in Services : q # s => core'[q] = core[q]
  BY <1>a, TablesAre
<1>2. core[s].uiToken \in Nat /\ t \in Nat
  BY Names DEF TypeOK, State
<1>3. ASSUME NEW x \in Call_, x # o PROVE CallInv(x)'
  <2>1. /\ x[1] \in Services /\ x[2] \in Tokens /\ (x[1] = s => x[2] # t)
    BY <1>3, CallPair
  <2>2. TablesStay(x, s, w)
    <3>1. core[s].uiToken <= w.uiToken
      BY <1>2, <1>a
    <3>2. CASE x[1] = s
      <4>1. x[2] \in Tokens /\ x[2] # t
        BY <2>1, <3>2
      <4>2. /\ w.tokenTo[x[2]] = core[s].tokenTo[x[2]] /\ w.watching[x[2]] = core[s].watching[x[2]]
            /\ Contains(core[s].cancelQ, x[2]) => Contains(w.cancelQ, x[2])
        BY <4>1, <1>b
      <4>3. QED BY <3>1, <4>2 DEF TablesStay
    <3>3. CASE x[1] # s
      BY <3>1, <3>3 DEF TablesStay
    <3>4. QED BY <3>2, <3>3
  <2>3. x[2] \in armed'[x[1]] <=> x[2] \in armed[x[1]]
    <3>1. CASE x[1] = s
      BY <2>1, <3>1, <1>d
    <3>2. CASE x[1] # s
      BY <2>1, <3>2, <1>d
    <3>3. QED BY <3>1, <3>2
  <2>4. RestStays(x)
    BY <1>3, <1>a, <2>3 DEF RestStays
  <2>5. Steady(x) /\ CallInv(x)
    BY <1>a, <2>2, <2>4, StepSteady DEF CallsInv
  <2>6. CASE x \in dropped'
    BY <1>a, <1>c, <2>4, <2>5, <2>6, CallForgotten
  <2>7. CASE OwesFewer(x, w, core[s])
    BY <1>3, <1>a, <1>c, <2>4, <2>5, <2>7, CallIdles
  <2>8. QED BY <1>c, <2>6, <2>7
<1>4. CallInv(o)'
  <2>1. PlacesFewer(o)
    <3>1. \A q \in Services : /\ \A c \in Cos : core'[q].owed[c] = o => core[q].owed[c] = o
                              /\ o \in core'[q].responses => o \in core[q].responses
      BY <1>1, <1>c DEF OwesFewer
    <3>2. o[2] \in armed'[o[1]] => o[2] \in armed[o[1]]
      BY <1>a
    <3>3. QED BY <3>1, <3>2 DEF PlacesFewer
  <2>2. OnePlace(o)' /\ \A k \in Places, q \in Services, c \in Cos0 : At(k, q, c, o)' => At(k, q, c, o)
    BY <2>1, FewerPlaces DEF CallsInv, CallInv
  <2>3. Foreign(o)' => Held(o)'
    <3>1. /\ "asked" \in Places /\ "owed" \in Places /\ "deferred" \in Places /\ "given" \in Places
          /\ 0 \in Cos0 /\ \A c \in Cos : c \in Cos0
      BY DEF Places, Cos0
    <3>2. Among(inbox'[s], Strangers(o)) => At("given", s, 0, o)'
      BY DEF At, Among, Strangers
    <3>3. QED BY <3>1, <3>2 DEF Foreign, Held
  <2>4. Expected(o)'
    BY <1>1, <1>a, <2>3 DEF Expected
  <2>5. Kept(o)'
    BY <1>1, <1>a DEF Kept, Waits
  <2>6. QED BY <2>2, <2>4, <2>5 DEF CallInv
<1>5. \A x \in Call_ : CallInv(x)'
  BY <1>3, <1>4
<1>6. QED BY <1>5, <1>a, <1>d, StepCalls

\* The coroutine c is resumed.
LEMMA RousedFields ==
  ASSUME NEW v \in State, Owers(v), NEW c \in Cos, NEW t, NEW d, NEW q, NEW p, NEW k,
         NEW w, w = Roused(v, c, t, d, q, p, k)
  PROVE  /\ Owers(w) /\ w.running = c /\ w.owed = v.owed /\ w.responses = v.responses /\ w.uiToken = v.uiToken
         /\ \A u \in Tokens : /\ w.tokenTo[u] = IF u = t THEN d ELSE v.tokenTo[u]
                              /\ w.watching[u] = IF u = t THEN Nobody ELSE v.watching[u]
         /\ w.wakeupQ = q /\ w.cancelQ = p
<1> DEFINE a == [v.at EXCEPT ![c] = "running"]
           f == [v.tokenTo EXCEPT ![t] = d]
           g == [v.watching EXCEPT ![t] = Nobody]
           h == [v.sleeping EXCEPT ![c] = 0]
<1>1. w = [v EXCEPT !.running = c, !.at = a, !.tokenTo = f, !.watching = g, !.sleeping = h,
                    !.wakeupQ = q, !.cancelQ = p, !.calls = k]
  BY DEF Roused
<1>2. \A b \in Cos : a[b] = IF b = c THEN "running" ELSE v.at[b]
  BY DEF State
<1>b. \A u \in Tokens : /\ f[u] = IF u = t THEN d ELSE v.tokenTo[u]
                        /\ g[u] = IF u = t THEN Nobody ELSE v.watching[u]
  BY DEF State
<1> HIDE DEF a, f, g, h
<1>3. /\ w.running = c /\ w.at = a /\ w.tokenTo = f /\ w.watching = g
      /\ w.wakeupQ = q /\ w.cancelQ = p /\ w.uiToken = v.uiToken
      /\ w.owed = v.owed /\ w.responses = v.responses
  BY <1>1 DEF State
<1>4. Owers(w)
  BY <1>2, <1>3, OwersStay
<1>5. QED BY <1>b, <1>3, <1>4

\* The call is in none of the places.
LEMMA NowhereThen ==
  ASSUME NEW x \in Call_, NEW w, NEW s \in Services, core'[s] = w, \A q \in Services : q # s => core'[q] = core[q],
         \A q \in Services : ~Among(inbox'[q], Requests(x)),
         ~Among(inbox'[x[1]], Answers(x)), x[2] \notin armed'[x[1]],
         \A q \in Services : x \notin core[q].responses /\ \A d \in Cos : core[q].owed[d] # x,
         x \notin w.responses /\ \A d \in Cos : w.owed[d] # x
  PROVE  ~(Held(x)')
<1>1. \A q \in Services : x \notin core'[q].responses /\ \A d \in Cos : core'[q].owed[d] # x
  OBVIOUS
<1>2. ASSUME NEW k \in Places, NEW q \in Services, NEW c \in Cos0, At(k, q, c, x)' PROVE FALSE
  BY <1>1, <1>2 DEF At
<1>3. QED BY <1>2 DEF Held

\* An answer is taken: it was the only thing on its way for its token.
LEMMA AnswerTaken ==
  ASSUME TypeOK, CallsInv, NEW s \in Services, inbox[s] # <<>>, Head(inbox[s]).ev = "answer"
  PROVE  LET m == [inbox EXCEPT ![s] = Tail(@)]
             t == Head(inbox[s]).token
         IN  \E o \in Call_ :
               /\ o[1] = s /\ o[2] = t /\ t \in Tokens /\ CallInv(o) /\ Held(o)
               /\ \A q \in Services : /\ ~Among(m[q], Requests(o)) /\ o \notin core[q].responses
                                      /\ \A d \in Cos : core[q].owed[d] # o
               /\ ~Among(m[s], Answers(o)) /\ t \notin armed[s]
               /\ o \in cancelled => t <= core[s].uiToken
               /\ core[s].tokenTo[t] \in Cos \/ o \in cancelled
               /\ \A x \in Call_ : x # o => EventsStay(x, inbox, m)
<1> DEFINE m == [inbox EXCEPT ![s] = Tail(@)]
           e == Head(inbox[s])
           t == Head(inbox[s]).token
<1>1. /\ m \in [Services -> Seq(Events)] /\ e \in Events /\ e = Event(e.ev, e.source, e.token)
      /\ \A x \in Call_ : /\ EventsFewer(x, inbox, m)
                          /\ ~About(x, s, e) => EventsStay(x, inbox, m)
  BY HeadTaken
<1>2. e.source \in Services /\ t \in Tokens
  BY <1>1 DEF Events
<1>3. PICK o \in Call_ : o = <<s, t>>
  BY <1>2 DEF Call_
<1>4. o[1] = s /\ o[2] = t /\ CallInv(o)
  BY <1>3 DEF CallsInv
<1>5. inbox[s] \in Seq(Events) /\ m[s] = Tail(inbox[s])
  BY DEF TypeOK
<1>6. /\ \A A : Among(inbox[s], A) <=> e \in A \/ Among(Tail(inbox[s]), A)
      /\ \A A : Once(inbox[s], A) => (e \in A => ~Among(Tail(inbox[s]), A))
  BY <1>5, TailAmong
<1>a. status[s] # "stopped"
  BY ActiveRuns
<1> HIDE DEF m
<1>7. e \in Answers(o)
  BY <1>1, <1>4 DEF Answers
<1> HIDE DEF e
<1>8. At("given", s, 0, o) /\ "given" \in Places /\ 0 \in Cos0
  <2>1. Among(inbox[s], Answers(o))
    BY <1>6, <1>7
  <2>2. QED BY <1>4, <2>1 DEF At, Places, Cos0
<1>9. Only(o, "given", s, 0)
  BY <1>4, <1>8, OnlyHere
<1>10. \A q \in Services : /\ ~Among(inbox[q], Requests(o)) /\ o \notin core[q].responses
                           /\ \A d \in Cos : core[q].owed[d] # o
  BY <1>9 DEF Only
<1>11. t \notin armed[s]
  BY <1>4, <1>9 DEF Only
<1>12. \A q \in Services : ~Among(m[q], Requests(o))
  BY <1>1, <1>10 DEF EventsFewer
<1>13. ~Among(m[s], Answers(o))
  <2>1. Once(inbox[s], Answers(o))
    BY <1>4 DEF CallInv, OnePlace
  <2>2. QED BY <1>5, <1>6, <1>7, <2>1
<1>14. Held(o)
  BY <1>8 DEF Held
<1>15. /\ o \in cancelled => t <= core[s].uiToken
       /\ core[s].tokenTo[t] \in Cos \/ o \in cancelled
  BY <1>4, <1>14, <1>a DEF CallInv, Expected
<1>16. ASSUME NEW x \in Call_, x # o PROVE EventsStay(x, inbox, m)
  <2>1. ~About(x, o[1], Event("answer", e.source, o[2]))
    BY <1>2, <1>16, AboutOthers DEF e
  <2>2. ~About(x, s, e)
    BY <1>1, <1>4, <2>1 DEF e
  <2>3. QED BY <1>1, <2>2
<1>17. QED BY <1>2, <1>4, <1>10, <1>11, <1>12, <1>13, <1>14, <1>15, <1>16 DEF m

\* An answer arrives: the coroutine that called goes on, or the call was cancelled.
LEMMA AnswerCalls ==
  ASSUME CoreInv, CoreInv', CallsInv, NEW s \in Services, inbox[s] # <<>>, Head(inbox[s]).ev = "answer",
         Answer(s, Head(inbox[s])), inbox' = [inbox EXCEPT ![s] = Tail(@)], UNCHANGED <<status, armed>>
  PROVE  CallsInv'
<1> DEFINE v == core[s]
           t == Head(inbox[s]).token
           c == v.tokenTo[t]
           f == [v.tokenTo EXCEPT ![t] = Nobody]
           x == [v EXCEPT !.tokenTo[t] = Nobody]
           z == Roused(v, c, t, Nobody, v.wakeupQ, v.cancelQ, v.calls)
           m == [inbox EXCEPT ![s] = Tail(@)]
<1>1. TypeOK /\ TypeOK' /\ v \in State /\ Owers(v)
  BY DEF CoreInv, TypeOK, CallsInv
<1>2. PICK o \in Call_ :
        /\ o[1] = s /\ o[2] = t /\ t \in Tokens
        /\ \A q \in Services : /\ ~Among(m[q], Requests(o)) /\ o \notin core[q].responses
                               /\ \A d \in Cos : core[q].owed[d] # o
        /\ ~Among(m[s], Answers(o)) /\ t \notin armed[s]
        /\ o \in cancelled => t <= core[s].uiToken
        /\ \A y \in Call_ : y # o => EventsStay(y, inbox, m)
  BY <1>1, AnswerTaken
<1>3. /\ Ordered(inbox') /\ ClosesStay(inbox, inbox')
      /\ \A y \in Call_ : EventsFewer(y, inbox, inbox')
  BY <1>1, HeadTaken
<1>4. \E w \in {x, z} : /\ Tables(s, w) /\ UNCHANGED <<dropped, cancelled>>
                        /\ w = x \/ (w = z /\ c \in Cos)
  <2>1. CASE c \notin Cos
    BY <2>1 DEF Answer
  <2>2. CASE c \in Cos
    <3>1. Awake(x, c, t) = z
      <4>1. f = [v.tokenTo EXCEPT ![t] = Nobody] /\ v \in State
        BY <1>1
      <4> HIDE DEF v
      <4>2. x = [v EXCEPT !.tokenTo = f]
        BY <4>1 DEF State
      <4> HIDE DEF x, c, t
      <4>3. QED BY ZenonT(60), <4>1, <4>2 DEF Awake, Resumed, Roused, State
    <3>2. Tables(s, z) /\ UNCHANGED <<dropped, cancelled>>
      BY <2>2, <3>1 DEF Answer
    <3>3. QED BY <2>2, <3>2
  <2>3. QED BY <2>1, <2>2
<1>5. PICK w \in {x, z} : /\ Tables(s, w) /\ UNCHANGED <<dropped, cancelled>>
                          /\ w = x \/ (w = z /\ c \in Cos)
  BY <1>4
<1>6. /\ inbox' = m /\ v.tokenTo \in [Tokens -> Cos \cup {Nobody, BREAK}]
      /\ v.watching \in [Tokens -> Addresses \cup {Nobody}]
  BY <1>1 DEF State
<1> HIDE DEF m, t, v
<1>7. w = x => /\ w.tokenTo = f /\ w.watching = v.watching /\ w.uiToken = v.uiToken /\ w.cancelQ = v.cancelQ
               /\ w.owed = v.owed /\ w.responses = v.responses /\ w.at = v.at
  <2>1. x = [v EXCEPT !.tokenTo = f]
    BY <1>1 DEF State
  <2> HIDE DEF f, x
  <2>2. QED BY <1>1, <2>1 DEF State
<1>8. f[t] = Nobody /\ \A u \in Tokens : u # t => f[u] = v.tokenTo[u]
  BY <1>2, <1>6
<1> HIDE DEF x, f
<1>9. ASSUME w = x
      PROVE  /\ w.uiToken = v.uiToken /\ w.cancelQ = v.cancelQ /\ Owers(w)
             /\ w.owed = v.owed /\ w.responses = v.responses
             /\ w.tokenTo[t] = Nobody
             /\ \A u \in Tokens : u # t => w.tokenTo[u] = v.tokenTo[u] /\ w.watching[u] = v.watching[u]
  <2>1. Owers(w)
    BY <1>1, <1>7, <1>9, OwersStay
  <2>2. QED BY <1>7, <1>8, <1>9, <2>1
<1> HIDE DEF c
<1>10. ASSUME w = z, c \in Cos
       PROVE  /\ w.uiToken = v.uiToken /\ w.cancelQ = v.cancelQ /\ Owers(w)
              /\ w.owed = v.owed /\ w.responses = v.responses
              /\ \A u \in Tokens : w.tokenTo[u] = IF u = t THEN Nobody ELSE v.tokenTo[u]
              /\ \A u \in Tokens : w.watching[u] = IF u = t THEN Nobody ELSE v.watching[u]
  BY <1>1, <1>10, RousedFields
<1> HIDE DEF z
<1>11. /\ w.tokenTo[t] = Nobody
       /\ \A u \in Tokens : u # t => w.tokenTo[u] = v.tokenTo[u] /\ w.watching[u] = v.watching[u]
       /\ w.uiToken = v.uiToken /\ w.cancelQ = v.cancelQ /\ Owers(w)
       /\ w.owed = v.owed /\ w.responses = v.responses
  BY <1>2, <1>5, <1>9, <1>10
<1>12. core'[s] = w /\ \A q \in Services : q # s => core'[q] = core[q]
  BY <1>1, <1>5, TablesAre
<1>13. ~(Held(o)')
  <2>1. /\ \A q \in Services : ~Among(inbox'[q], Requests(o))
        /\ \A q \in Services : o \notin core[q].responses /\ \A d \in Cos : core[q].owed[d] # o
    BY <1>2, <1>6
  <2>2. ~Among(inbox'[o[1]], Answers(o)) /\ o[2] \notin armed'[o[1]]
    BY <1>2, <1>6
  <2>3. o \notin w.responses /\ \A d \in Cos : w.owed[d] # o
    BY <1>11, <2>1 DEF v
  <2>4. QED BY <1>12, <2>1, <2>2, <2>3, NowhereThen
<1>14. Settled(s, t, w)
  <2>1. \A u \in Tokens : u # t => /\ w.tokenTo[u] = core[s].tokenTo[u] /\ w.watching[u] = core[s].watching[u]
                                   /\ Contains(core[s].cancelQ, u) => Contains(w.cancelQ, u)
    BY <1>11 DEF v
  <2>2. w.uiToken = core[s].uiToken /\ Owers(w) /\ w.tokenTo[t] \notin Cos
    BY <1>11, Names DEF v
  <2>3. \A y \in Call_ : OwesFewer(y, core[s], w) /\ (OwesFewer(y, w, core[s]) \/ y \in dropped')
    BY <1>11 DEF v, OwesFewer
  <2>4. /\ dropped \subseteq dropped' /\ status' = status
        /\ \A q \in Services : q # s => armed'[q] = armed[q]
        /\ \A u \in Tokens : u # t => (u \in armed'[s] <=> u \in armed[s])
        /\ t \in armed'[s] => t \in armed[s] /\ w.watching[t] = Nobody
    BY <1>2, <1>5
  <2>5. Tables(s, w) /\ ClosesStay(inbox, inbox') /\ Ordered(inbox')
    BY <1>3, <1>5
  <2>6. QED BY <2>1, <2>2, <2>3, <2>4, <2>5 DEF Settled
<1>15. \A y \in Call_ : /\ y # o => EventsStay(y, inbox, inbox') /\ (y \in cancelled' <=> y \in cancelled)
                        /\ EventsFewer(y, inbox, inbox')
  BY <1>2, <1>3, <1>5, <1>6
<1>16. (Held(o)' => o \in cancelled') /\ (o \in cancelled' => t <= core[s].uiToken)
  BY <1>2, <1>5, <1>13
<1>17. o[1] = s /\ o[2] = t /\ t \in Tokens
  BY <1>2
<1>18. QED BY <1>1, <1>14, <1>15, <1>16, <1>17, SettledCalls

\* The next coroutine of asyncQueue_t runs; one with nothing to do owes nothing.
LEMMA RunAsyncCalls ==
  ASSUME CoreInv, CoreInv', CallsInv, NEW s \in Services, RunAsync(s)
  PROVE  CallsInv'
<1> DEFINE v == core[s]
           c == Head(v.asyncQ)
           w == [v EXCEPT !.asyncQ = Tail(@)]
           x == Resumed(w, c)
           y == Ended(x)
           a == [w.at EXCEPT ![c] = "running"]
<1>1. /\ v.running = Nobody /\ v.asyncQ # <<>>
      /\ \/ v.at[c] = "idle" /\ Tables(s, y)
         \/ Tables(s, x)
      /\ UNCHANGED <<inbox, status, armed, dropped, cancelled>>
  BY DEF RunAsync, Busy
<1>2. Sound(v) /\ (\E n \in Nat : Few(v, n)) /\ TypeOK /\ TypeOK' /\ Owers(v)
  BY OfOne DEF CoreInv, CallsInv
<1>3. PICK n \in Nat : Few(v, n)
  BY <1>2
<1>4. ~Quiet(s)
  BY <1>1 DEF Quiet
<1> HIDE DEF v
<1>5. /\ w \in State /\ c \in Cos /\ w.at[c] = v.at[c] /\ w.cancelQ = v.cancelQ /\ w.uiToken = v.uiToken
      /\ w.tokenTo = v.tokenTo /\ w.watching = v.watching /\ w.owed = v.owed /\ w.responses = v.responses
  BY <1>1, <1>2, <1>3, AsyncTaken DEF Sound
<1>6. w.at = v.at
  <2> DEFINE q == Tail(v.asyncQ)
  <2>1. w = [v EXCEPT !.asyncQ = q] /\ v \in State
    BY <1>2 DEF Sound, State
  <2> HIDE DEF w, q
  <2>2. QED BY <2>1 DEF State
<1> HIDE DEF w, c
<1>7. Owers(w)
  BY <1>2, <1>5, <1>6, OwersStay
<1>8. /\ x \in State /\ Owers(x) /\ x.running = c /\ x.cancelQ = w.cancelQ /\ x.uiToken = w.uiToken
      /\ x.tokenTo = w.tokenTo /\ x.watching = w.watching /\ x.owed = w.owed /\ x.responses = w.responses
  <2>1. x = [w EXCEPT !.running = c, !.at = a] /\ a \in [Cos -> Kinds]
    BY <1>5 DEF Resumed, State, Kinds
  <2>2. Owers(x) /\ x.owed = w.owed
    BY <1>5, <1>7, OwersResumed
  <2> HIDE DEF x, a
  <2>3. QED BY <1>5, <2>1, <2>2 DEF State
<1> HIDE DEF x, a
<1>9. CASE Tables(s, x)
  <2>1. /\ x.cancelQ = core[s].cancelQ /\ x.uiToken = core[s].uiToken
        /\ x.tokenTo = core[s].tokenTo /\ x.watching = core[s].watching
        /\ x.owed = core[s].owed /\ x.responses = core[s].responses
    BY <1>5, <1>8 DEF v
  <2>2. QED BY <1>1, <1>2, <1>4, <1>8, <1>9, <2>1, CoroutinesCalls
<1>10. CASE v.at[c] = "idle" /\ Tables(s, y)
  <2>1. /\ y.owed = [x.owed EXCEPT ![x.running] = <<>>]
        /\ y.tokenTo = x.tokenTo /\ y.watching = x.watching /\ y.uiToken = x.uiToken
        /\ y.cancelQ = x.cancelQ /\ y.responses = x.responses
    BY <1>5, <1>8, EndedFields
  <2>2. Owers(y)
    BY <1>5, <1>8, OwersEnded
  <2> HIDE DEF y
  <2>3. v.owed[c] = <<>>
    BY <1>2, <1>5, <1>10 DEF Owers
  <2>4. x.owed = v.owed /\ v.owed \in [Cos -> {<<>>} \cup Call_]
    BY <1>2, <1>5, <1>8 DEF Sound, State
  <2>5. y.owed = v.owed
    BY <1>5, <1>8, <2>1, <2>3, <2>4
  <2>6. /\ y.cancelQ = core[s].cancelQ /\ y.uiToken = core[s].uiToken
        /\ y.tokenTo = core[s].tokenTo /\ y.watching = core[s].watching
        /\ y.owed = core[s].owed /\ y.responses = core[s].responses
    BY <1>5, <1>8, <2>1, <2>5 DEF v
  <2>7. Tables(s, y)
    BY <1>10
  <2>8. QED BY <1>1, <1>2, <1>4, <2>2, <2>6, <2>7, CoroutinesCalls
<1>11. QED BY <1>1, <1>9, <1>10

\* What is queued of the calls to a service is all of them.
LEMMA OrderHolds ==
  ASSUME NEW v, NEW source, NEW order \in Orders(v, source), NEW t \in Tokens, v.watching[t] = source
  PROVE  Contains(order, t)
<1> DEFINE W == Watched(v, source)
           k == Cardinality(W)
<1>1. IsFiniteSet(Tokens) /\ W \subseteq Tokens
  BY FS_Interval, MaxOpsAssumption DEF Tokens, Watched
<1>2. k \in Nat /\ IsFiniteSet(W)
  BY <1>1, FS_Subset, FS_CardinalityType
<1>3. order \in [1..k -> W] /\ \A i, j \in 1..k : i # j => order[i] # order[j]
  BY DEF Orders, SetToSeqs
<1>4. t \in W
  BY DEF Watched
<1> HIDE DEF W
<1>5. k = Cardinality(W)
  OBVIOUS
<1> HIDE DEF k
<1>6. Cardinality(1..k) = Cardinality(W)
  BY <1>2, <1>5, FS_Interval
<1>7. order \in Injection(1..k, W)
  BY <1>3 DEF Injection, IsInjective
<1>8. order \in Surjection(1..k, W)
  BY <1>2, <1>6, <1>7, FS_Injection
<1>9. PICK i \in 1..k : order[i] = t
  BY <1>4, <1>8 DEF Surjection
<1>10. Len(order) = k
  BY <1>2, <1>3
<1>11. QED BY <1>9, <1>10 DEF Contains

\* close: the calls to the source are queued to be cancelled, what is owed to it is noted.
LEMMA CloseCalls ==
  ASSUME CoreInv, CoreInv', CallsInv, Unlimited, NEW s \in Services, Quiet(s), inbox[s] # <<>>,
         Head(inbox[s]).ev = "close", Close(s, Head(inbox[s])), inbox' = [inbox EXCEPT ![s] = Tail(@)],
         UNCHANGED <<status, armed>>
  PROVE  CallsInv'
<1> DEFINE v == core[s]
           e == Head(inbox[s])
           source == Head(inbox[s]).source
           x == Resumed(Created(v, "new"), NewCo(v))
           gone == {<<r[1], r[2]>> : r \in {z \in v.responses : z[1] = source}}
<1>1. PICK order \in Orders(v, source) :
        /\ Tables(s, Ended(CloseDispatch(x, source, order)))
        /\ dropped' = dropped \union gone /\ UNCHANGED cancelled
  BY DEF Close
<1> DEFINE y == CloseDispatch(x, source, order)
           w == Ended(y)
<1>2. /\ Sound(v) /\ v \in State /\ (\E n \in Nat : Few(v, n)) /\ TypeOK /\ TypeOK' /\ Owers(v)
      /\ v.responses \subseteq Call_ /\ v.running = Nobody
  BY OfOne DEF CoreInv, CallsInv, State, Quiet, Busy
<1>3. PICK n \in Nat : Few(v, n)
  BY <1>2
<1>4. /\ Ordered(inbox') /\ e \in Events /\ e = Event("close", source, e.token)
      /\ \A z \in Call_ : EventsFewer(z, inbox, inbox') /\ EventsStay(z, inbox, inbox')
  BY <1>2, HeadTaken
<1>5. source \in Services /\ e.token = 0
  BY <1>4 DEF Events
<1>6. \A z \in v.responses : z[1] = source => z \in gone
  <2>1. ASSUME NEW z \in v.responses, z[1] = source PROVE z \in gone
    <3>1. z = <<z[1], z[2]>>
      BY <1>2, CallPair
    <3>2. <<z[1], z[2]>> \in gone
      BY <2>1
    <3>3. QED BY <3>1, <3>2
  <2>2. QED BY <2>1
<1> HIDE DEF v, source, w, gone, e
<1>7. /\ Sound(x) /\ (\E m \in Nat : Few(x, m)) /\ x.running = NewCo(v)
  BY <1>2, <1>3, StartedOK
<1>8. /\ NewCo(v) \in Cos /\ v.owed[NewCo(v)] = <<>> /\ Owers(x)
      /\ x.owed = v.owed /\ x.responses = v.responses /\ x.cancelQ = v.cancelQ
      /\ x.tokenTo = v.tokenTo /\ x.watching = v.watching /\ x.uiToken = v.uiToken
  BY <1>2, <1>3, StartedFields
<1>9. PICK m \in Nat : Few(x, m)
  BY <1>7
<1> HIDE DEF x, y
<1>10. order \in Orders(x, source)
  BY <1>8 DEF Orders, Watched
<1>11. /\ Sound(y) /\ y.running = x.running /\ y.at = x.at
       /\ y.tokenTo = x.tokenTo /\ y.watching = x.watching /\ y.uiToken = x.uiToken
       /\ y.owed = x.owed
  BY <1>5, <1>7, <1>9, <1>10, Names, CloseDispatchOK DEF y
<1>12. y.responses = {r \in x.responses : r[1] # source}
  BY <1>5, <1>7, <1>9, <1>10, Names, CloseDispatchOK DEF y
<1>13. \A t : Contains(y.cancelQ, t) <=> Contains(x.cancelQ, t) \/ Contains(order, t)
  BY <1>5, <1>7, <1>9, <1>10, Names, CloseDispatchOK DEF y
<1>14. Owers(y) /\ y \in State
  BY <1>8, <1>11, OwersStay DEF Sound
<1>15. /\ w.owed = [y.owed EXCEPT ![y.running] = <<>>]
       /\ w.tokenTo = y.tokenTo /\ w.watching = y.watching /\ w.uiToken = y.uiToken
       /\ w.cancelQ = y.cancelQ /\ w.responses = y.responses
  BY <1>7, <1>8, <1>11, <1>14, EndedFields DEF w
<1>16. Owers(w)
  BY <1>7, <1>8, <1>11, <1>14, OwersEnded DEF w
<1>17. w.owed = v.owed
  <2>1. v.owed \in [Cos -> {<<>>} \cup Call_]
    BY <1>2 DEF State
  <2>2. w.owed = [v.owed EXCEPT ![NewCo(v)] = <<>>]
    BY <1>7, <1>8, <1>11, <1>15
  <2>3. QED BY <1>8, <2>1, <2>2
<1>18. /\ w.owed = v.owed /\ w.tokenTo = v.tokenTo /\ w.watching = v.watching /\ w.uiToken = v.uiToken
       /\ w.responses = {r \in v.responses : r[1] # source}
       /\ \A t : Contains(w.cancelQ, t) <=> Contains(v.cancelQ, t) \/ Contains(order, t)
  BY <1>8, <1>11, <1>12, <1>13, <1>15, <1>17
<1>19. \A t \in Tokens : v.watching[t] = source => Contains(order, t)
  BY <1>2, <1>5, OrderHolds
<1>20. core'[s] = w /\ \A q \in Services : q # s => core'[q] = core[q]
  BY <1>1, <1>2, TablesAre DEF w, y
<1>21. inbox'[s] = Tail(inbox[s]) /\ inbox[s] \in Seq(Events) /\ \A q \in Services : q # s => inbox'[q] = inbox[q]
  BY <1>2 DEF TypeOK
<1>22. \A f : Contains(inbox[s], f) /\ f # e => Contains(Tail(inbox[s]), f)
  <2>1. \A A : Among(inbox[s], A) => e \in A \/ Among(Tail(inbox[s]), A)
    BY <1>21, TailAmong DEF e
  <2>2. ASSUME NEW f, Contains(inbox[s], f), f # e PROVE Contains(Tail(inbox[s]), f)
    <3>1. Among(inbox[s], {f}) /\ e \notin {f}
      BY <2>2 DEF Contains, Among
    <3>2. Among(Tail(inbox[s]), {f})
      BY <2>1, <3>1
    <3>3. QED BY <3>2 DEF Contains, Among
  <2>3. QED BY <2>2
<1>23. ASSUME NEW z \in Call_ PROVE Steady(z) /\ RestStays(z)
  <2> DEFINE r == z[1]
             t == z[2]
  <2>1. r \in Services /\ t \in Tokens
    BY CallPair
  <2>2. dropped \subseteq dropped' /\ armed' = armed /\ status' = status /\ cancelled' = cancelled
    BY <1>1
  <2>3. core[r].uiToken \in Nat
    BY <1>2, <2>1 DEF TypeOK, State
  <2> HIDE DEF r, t
  <2>4. /\ core'[r].tokenTo[t] = core[r].tokenTo[t] /\ core'[r].watching[t] = core[r].watching[t]
        /\ core[r].uiToken = core'[r].uiToken
        /\ Contains(core[r].cancelQ, t) => Contains(core'[r].cancelQ, t)
    BY <1>18, <1>20, <2>1 DEF v
  <2>5. GivenUp(r, t) /\ Waits(r, t)' => GivenUp(r, t)'
    <3>1. CASE r # s
      BY <1>20, <1>21, <2>1, <3>1 DEF GivenUp
    <3>2. CASE r = s
      <4>1. CASE v.watching[t] = source
        <5>1. Contains(core'[s].cancelQ, t)
          BY <1>18, <1>19, <1>20, <2>1, <4>1
        <5>2. QED BY <3>2, <5>1 DEF GivenUp
      <4>2. CASE v.watching[t] # source
        <5>1. Event("close", v.watching[t], 0) # e
          BY <1>4, <4>2 DEF Event
        <5>2. Contains(inbox[s], Event("close", v.watching[t], 0))
                => Contains(inbox'[s], Event("close", v.watching[t], 0))
          BY <1>21, <1>22, <5>1
        <5>3. core'[s].watching[t] = v.watching[t] /\ core[s].watching[t] = v.watching[t]
          BY <2>4, <3>2 DEF v
        <5>4. QED BY <2>4, <3>2, <5>2, <5>3 DEF GivenUp
      <4>3. QED BY <4>1, <4>2
    <3>3. QED BY <3>1, <3>2
  <2>6. core[r].uiToken <= core'[r].uiToken
    BY <2>3, <2>4
  <2>7. Steady(z)
    BY <2>2, <2>4, <2>5, <2>6 DEF Steady, r, t
  <2>8. RestStays(z)
    BY <2>2 DEF RestStays
  <2>9. QED BY <2>7, <2>8
<1>24. ASSUME NEW z \in Call_
       PROVE  /\ OwesFewer(z, core[s], w)
              /\ OwesFewer(z, w, core[s]) \/ z \in dropped'
  <2>1. OwesFewer(z, core[s], w)
    BY <1>18 DEF OwesFewer, v
  <2>2. z \in v.responses => z \in w.responses \/ z \in dropped'
    BY <1>1, <1>6, <1>18
  <2>3. OwesFewer(z, w, core[s]) \/ z \in dropped'
    BY <1>18, <2>2 DEF OwesFewer, v
  <2>4. QED BY <2>1, <2>3
<1>25. Tables(s, w) /\ status' = status /\ armed' = armed
  BY <1>1 DEF w, y
<1>26. \A z \in Call_ :
         /\ Steady(z) /\ RestStays(z) /\ OwesFewer(z, core[s], w) /\ EventsFewer(z, inbox, inbox')
         /\ \/ OwesFewer(z, w, core[s]) /\ EventsStay(z, inbox, inbox')
            \/ Waits(z[1], z[2])' => GivenUp(z[1], z[2])' \/ z \in dropped'
  BY <1>4, <1>23, <1>24
<1>27. \A z \in Call_ : CallInv(z)'
  BY <1>2, <1>25, <1>26, StepForgets
<1>28. QED BY <1>2, <1>4, <1>16, <1>25, <1>27, StepCalls

\* A timer is stopped: the event that it may have posted goes, and there is no other.
LEMMA TimerStopped ==
  ASSUME TypeOK, CallsInv, NEW s \in Services, ~Quiet(s), NEW o \in Call_, o[1] = s,
         core[s].tokenTo[o[2]] \in Cos, core[s].watching[o[2]] = Nobody
  PROVE  LET m == [inbox EXCEPT ![s] = Unfired(s, o[2])]
         IN  /\ m \in [Services -> Seq(Events)] /\ Ordered(m)
             /\ o \notin cancelled
             /\ \A q \in Services : /\ ~Among(m[q], Requests(o)) /\ o \notin core[q].responses
                                    /\ \A d \in Cos : core[q].owed[d] # o
             /\ ~Among(m[s], Answers(o))
             /\ ClosesStay(inbox, m)
             /\ \A x \in Call_ : /\ EventsFewer(x, inbox, m)
                                 /\ x # o => EventsStay(x, inbox, m)
<1> DEFINE m == [inbox EXCEPT ![s] = Unfired(s, o[2])]
           f == Event("answer", s, o[2])
           b == inbox[s]
<1>1. /\ status[s] # "stopped" /\ CallInv(o) /\ o[2] \in Tokens
      /\ inbox \in [Services -> Seq(Events)] /\ b \in Seq(Events) /\ Ordered(inbox)
  BY ActiveRuns, CallPair DEF CallsInv, TypeOK
<1>2. o \notin cancelled /\ ~Foreign(o)
  BY <1>1 DEF CallInv, Expected
<1>3. f \in Events /\ f.ev = "answer" /\ f.source = s /\ f.token = o[2]
  BY <1>1, EventTyped DEF Event
<1>4. /\ \A q \in Services : /\ ~Among(inbox[q], Requests(o)) /\ o \notin core[q].responses
                             /\ \A d \in Cos : core[q].owed[d] # o
      /\ ~Among(b, Strangers(o))
  BY <1>2 DEF Foreign, At
<1>5. m = [inbox EXCEPT ![s] = RemoveFirst(inbox[s], f)]
  BY DEF Unfired
<1>6. m[s] = RemoveFirst(b, f) /\ \A q \in Services : q # s => m[q] = inbox[q]
  BY <1>1, <1>5
<1>7. /\ \A A : Among(m[s], A) => Among(b, A)
      /\ \A A : f \notin A /\ Among(b, A) => Among(m[s], A)
      /\ \A A : Once(b, A) => Once(m[s], A) /\ (f \in A /\ Among(b, {f}) => ~Among(m[s], A))
  <2> DEFINE p == RemoveFirst(b, f)
  <2> HIDE DEF m, b, f
  <2>1. \A A : Among(p, A) => Among(b, A)
    BY <1>1, RemoveAmong
  <2>2. \A A : f \notin A /\ Among(b, A) => Among(p, A)
    BY <1>1, RemoveAmong
  <2>3. \A A : Once(b, A) => Once(p, A) /\ (f \in A /\ Among(b, {f}) => ~Among(p, A))
    BY <1>1, RemoveAmong
  <2> HIDE DEF p
  <2>4. m[s] = p
    BY <1>6 DEF p
  <2>5. QED BY <2>1, <2>2, <2>3, <2>4
<1>8. m \in [Services -> Seq(Events)]
  <2>1. Unfired(s, o[2]) \in Seq(Events)
    BY UnfiredTyped
  <2>2. QED BY <1>1, <2>1
<1>9. Ordered(m)
  <2> HIDE DEF m, f
  <2>1. Ordered([inbox EXCEPT ![s] = RemoveFirst(inbox[s], f)])
    BY <1>1, OrderedStays
  <2>2. QED BY <1>5, <2>1
<1> HIDE DEF m, f, b
<1>10. \A e \in Answers(o) : e.source = s => e = f
  <2>1. ASSUME NEW e \in Answers(o), e.source = s PROVE e = f
    <3>1. e \in Events /\ e.ev = "answer" /\ e.token = o[2]
      BY <2>1 DEF Answers
    <3>2. e = Event(e.ev, e.source, e.token)
      BY <3>1 DEF Events, Event
    <3>3. QED BY <2>1, <3>1, <3>2 DEF f
  <2>2. QED BY <2>1
<1>11. f \in Answers(o)
  BY <1>3 DEF Answers
<1>12. ~Among(m[s], Answers(o))
  <2>1. Once(b, Answers(o))
    BY <1>1 DEF CallInv, OnePlace, b
  <2>2. CASE Among(b, {f})
    BY <1>7, <1>11, <2>1, <2>2
  <2>3. CASE ~Among(b, {f})
    <3>1. ~Among(b, Answers(o))
      BY <1>4, <1>10, <2>3 DEF Among, Strangers
    <3>2. QED BY <1>7, <3>1
  <2>4. QED BY <2>2, <2>3
<1>13. \A q \in Services : ~Among(m[q], Requests(o))
  BY <1>4, <1>6, <1>7 DEF b
<1>14. ClosesStay(inbox, m)
  <2>1. ASSUME NEW q \in Services, NEW r \in Addresses, Contains(inbox[q], Event("close", r, 0))
        PROVE  Contains(m[q], Event("close", r, 0))
    <3>1. CASE q = s
      <4>1. f \notin {Event("close", r, 0)}
        BY <1>3 DEF Event
      <4>2. Among(b, {Event("close", r, 0)})
        BY <2>1, <3>1 DEF Contains, Among, b
      <4>3. Among(m[s], {Event("close", r, 0)})
        BY <1>7, <4>1, <4>2
      <4>4. QED BY <3>1, <4>3 DEF Contains, Among
    <3>2. CASE q # s
      BY <1>6, <2>1, <3>2
    <3>3. QED BY <3>1, <3>2
  <2>2. QED BY <2>1 DEF ClosesStay
<1>15. ASSUME NEW x \in Call_ PROVE EventsFewer(x, inbox, m)
  <2>1. x[1] \in Services
    BY CallPair
  <2>2. \A q \in Services : \A A : /\ Among(m[q], A) => Among(inbox[q], A)
                                   /\ Once(inbox[q], A) => Once(m[q], A)
    BY <1>6, <1>7 DEF b
  <2>3. QED BY <2>1, <2>2 DEF EventsFewer
<1>16. ASSUME NEW x \in Call_, x # o PROVE EventsStay(x, inbox, m)
  <2>1. x[1] \in Services /\ x[2] \in Tokens
    BY CallPair
  <2>2. ~About(x, o[1], Event("answer", s, o[2]))
    BY <1>16, AboutOthers
  <2>3. f \notin Requests(x) /\ (x[1] = s => f \notin Answers(x))
    BY <2>2 DEF About, f
  <2>4. \A q \in Services : Among(inbox[q], Requests(x)) => Among(m[q], Requests(x))
    BY <1>6, <1>7, <2>3 DEF b
  <2>5. Among(inbox[x[1]], Answers(x)) => Among(m[x[1]], Answers(x))
    BY <1>6, <1>7, <2>1, <2>3 DEF b
  <2>6. QED BY <2>4, <2>5 DEF EventsStay
<1>17. QED BY <1>2, <1>4, <1>8, <1>9, <1>12, <1>13, <1>14, <1>15, <1>16 DEF m

\* Tables that differ in the queues only.
LEMMA QueuesCalls ==
  ASSUME TypeOK, TypeOK', CallsInv, NEW s \in Services, ~Quiet(s), NEW k, NEW q, NEW w,
         w = [core[s] EXCEPT !.calls = k, !.wakeupQ = q], Tables(s, w),
         UNCHANGED <<inbox, status, armed, cancelled, dropped>>
  PROVE  CallsInv'
<1>1. core[s] \in State /\ Owers(core[s])
  BY DEF TypeOK, CallsInv
<1>2. /\ w.at = core[s].at /\ w.owed = core[s].owed /\ w.responses = core[s].responses
      /\ w.tokenTo = core[s].tokenTo /\ w.watching = core[s].watching
      /\ w.uiToken = core[s].uiToken /\ w.cancelQ = core[s].cancelQ
  BY <1>1 DEF State
<1>3. Owers(w)
  BY <1>1, <1>2, OwersStay
<1>4. QED BY <1>2, <1>3, CoroutinesCalls

\* A sleeper is woken.
LEMMA WakeCalls ==
  ASSUME CoreInv, CoreInv', CallsInv, NEW s \in Services, Wake(s)
  PROVE  CallsInv'
<1> DEFINE v == core[s]
           w == [v EXCEPT !.calls = Tail(@)]
           c == Head(v.wakeupQ)
           t == v.sleeping[c]
           x == [w EXCEPT !.wakeupQ = Tail(@)]
           d == IF v.at[c] = "sleep" THEN BREAK ELSE Nobody
           y == [Awake(x, c, t) EXCEPT !.tokenTo[t] = d]
           q == Tail(v.wakeupQ)
           k == Tail(v.calls)
           z == Roused(v, c, t, d, q, v.cancelQ, k)
<1>1. /\ v.running = Nobody /\ v.calls # <<>> /\ ~Quiet(s)
      /\ UNCHANGED <<status, dropped, cancelled>>
  BY DEF Wake, Busy, Quiet
<1>2. \/ v.wakeupQ = <<>> /\ Tables(s, w) /\ UNCHANGED <<armed, inbox>>
      \/ v.wakeupQ # <<>> /\ t = 0 /\ Tables(s, x) /\ UNCHANGED <<armed, inbox>>
      \/ /\ v.wakeupQ # <<>> /\ t # 0 /\ Tables(s, y)
         /\ armed' = [armed EXCEPT ![s] = @ \ {t}]
         /\ inbox' = [inbox EXCEPT ![s] = Unfired(s, t)]
  BY DEF Wake
<1>3. Sound(v) /\ v \in State /\ TypeOK /\ TypeOK' /\ Owers(v)
  BY OfOne DEF CoreInv, CallsInv
<1>4. CASE Tables(s, w) /\ UNCHANGED <<armed, inbox>>
  <2>1. w = [v EXCEPT !.calls = k, !.wakeupQ = v.wakeupQ]
    BY <1>3 DEF State
  <2> HIDE DEF w, k
  <2>2. QED BY <1>1, <1>3, <1>4, <2>1, QueuesCalls
<1>5. CASE Tables(s, x) /\ UNCHANGED <<armed, inbox>>
  <2>1. x = [v EXCEPT !.calls = k, !.wakeupQ = q]
    BY <1>3 DEF State
  <2> HIDE DEF x, k, q
  <2>2. QED BY <1>1, <1>3, <1>5, <2>1, QueuesCalls
<1>6. ASSUME v.wakeupQ # <<>>, t # 0, Tables(s, y), armed' = [armed EXCEPT ![s] = @ \ {t}],
             inbox' = [inbox EXCEPT ![s] = Unfired(s, t)]
      PROVE  CallsInv'
  <2> HIDE DEF v
  <2>1. c \in Cos /\ t \in Tokens
    <3>1. c \in Cos
      BY <1>3, <1>6, Shorter
    <3>2. QED BY <1>3, <1>6, <3>1 DEF State
  <2>2. v.at[c] \in Asleep /\ v.tokenTo[t] = c
    BY <1>3, <1>6, <2>1 DEF Sound, Linked
  <2>3. y = z
    <3> HIDE DEF c, t, d, q, k
    <3>1. x = [v EXCEPT !.calls = k, !.wakeupQ = q]
      BY <1>3 DEF State, k, q
    <3> HIDE DEF x
    <3>2. QED BY ZenonT(60), <1>3, <2>1, <3>1 DEF Awake, Resumed, Roused, State
  <2>4. v.watching[t] = Nobody
    BY <1>3, <2>1, <2>2 DEF Sound, Linked, Asleep, Calling
  <2>5. d \notin Cos
    BY Names
  <2> HIDE DEF c, t, d, q, k, y
  <2>6. PICK o \in Call_ : o[1] = s /\ o[2] = t
    <3>1. <<s, t>> \in Call_ /\ <<s, t>>[1] = s /\ <<s, t>>[2] = t
      BY <2>1 DEF Call_
    <3>2. QED BY <3>1
  <2>7. /\ Owers(z) /\ z.owed = v.owed /\ z.responses = v.responses /\ z.uiToken = v.uiToken
        /\ \A u \in Tokens : /\ z.tokenTo[u] = IF u = t THEN d ELSE v.tokenTo[u]
                             /\ z.watching[u] = IF u = t THEN Nobody ELSE v.watching[u]
        /\ z.cancelQ = v.cancelQ
    <3>1. \A a : a = z => /\ Owers(a) /\ a.owed = v.owed /\ a.responses = v.responses /\ a.uiToken = v.uiToken
                          /\ \A u \in Tokens : /\ a.tokenTo[u] = IF u = t THEN d ELSE v.tokenTo[u]
                                               /\ a.watching[u] = IF u = t THEN Nobody ELSE v.watching[u]
                          /\ a.cancelQ = v.cancelQ
      BY <1>3, <2>1, RousedFields
    <3> HIDE DEF z
    <3>2. QED BY <3>1
  <2> HIDE DEF z
  <2>8. /\ o \notin cancelled /\ Ordered(inbox') /\ ClosesStay(inbox, inbox')
        /\ \A r \in Services : /\ ~Among(inbox'[r], Requests(o)) /\ o \notin core[r].responses
                               /\ \A b \in Cos : core[r].owed[b] # o
        /\ ~Among(inbox'[s], Answers(o))
        /\ \A a \in Call_ : /\ EventsFewer(a, inbox, inbox')
                            /\ a # o => EventsStay(a, inbox, inbox')
    <3>1. core[s].tokenTo[o[2]] \in Cos /\ core[s].watching[o[2]] = Nobody
      BY <2>1, <2>2, <2>4, <2>6 DEF v
    <3>2. inbox' = [inbox EXCEPT ![s] = Unfired(s, o[2])]
      BY <1>6, <2>6
    <3>3. QED BY <1>1, <1>3, <2>6, <3>1, <3>2, TimerStopped
  <2>9. Tables(s, z)
    BY <1>6, <2>3
  <2>10. core'[s] = z /\ \A r \in Services : r # s => core'[r] = core[r]
    BY <1>3, <2>9, TablesAre
  <2>11. /\ t \notin armed'[s] /\ \A u \in Tokens : u # t => (u \in armed'[s] <=> u \in armed[s])
         /\ \A r \in Services : r # s => armed'[r] = armed[r]
    BY <1>3, <1>6 DEF TypeOK
  <2>12. ~(Held(o)')
    <3>1. o \notin z.responses /\ \A b \in Cos : z.owed[b] # o
      BY <2>7, <2>8 DEF v
    <3>2. ~Among(inbox'[o[1]], Answers(o)) /\ o[2] \notin armed'[o[1]]
      BY <2>6, <2>8, <2>11
    <3>3. QED BY <2>8, <2>10, <3>1, <3>2, NowhereThen
  <2>13. Settled(s, t, z)
    <3>1. \A u \in Tokens : u # t => /\ z.tokenTo[u] = core[s].tokenTo[u] /\ z.watching[u] = core[s].watching[u]
                                     /\ Contains(core[s].cancelQ, u) => Contains(z.cancelQ, u)
      BY <2>7 DEF v
    <3>2. z.uiToken = core[s].uiToken /\ Owers(z) /\ z.tokenTo[t] \notin Cos
      BY <2>1, <2>5, <2>7 DEF v
    <3>3. \A a \in Call_ : OwesFewer(a, core[s], z) /\ (OwesFewer(a, z, core[s]) \/ a \in dropped')
      BY <2>7 DEF v, OwesFewer
    <3>4. dropped \subseteq dropped' /\ status' = status
      BY <1>1
    <3>5. QED BY <2>8, <2>9, <2>11, <3>1, <3>2, <3>3, <3>4 DEF Settled
  <2>14. \A a \in Call_ : /\ a # o => EventsStay(a, inbox, inbox') /\ (a \in cancelled' <=> a \in cancelled)
                          /\ EventsFewer(a, inbox, inbox')
    BY <1>1, <2>8
  <2>15. (Held(o)' => o \in cancelled') /\ (o \in cancelled' => t <= core[s].uiToken)
    BY <1>1, <2>8, <2>12
  <2>16. QED BY <1>1, <1>3, <2>1, <2>6, <2>13, <2>14, <2>15, SettledCalls
<1>7. QED BY <1>2, <1>4, <1>5, <1>6

\* What is behind the first of a queue stays.
LEMMA TailHolds ==
  ASSUME NEW S, NEW b \in Seq(S), b # <<>>, NEW u, Contains(b, u), u # Head(b)
  PROVE  Contains(Tail(b), u)
<1>1. Among(b, {u}) /\ Head(b) \notin {u}
  BY DEF Contains, Among
<1>2. Among(Tail(b), {u})
  BY <1>1, TailAmong
<1>3. QED BY <1>2 DEF Contains, Among

\* A token that was queued twice leads nowhere: whatever is on its way was cancelled.
LEMMA NothingToCancel ==
  ASSUME CoreInv, CoreInv', CallsInv, NEW s \in Services, ~Quiet(s), NEW t \in Tokens, NEW w, NEW p,
         core[s].cancelQ # <<>>, t = Head(core[s].cancelQ), p = Tail(core[s].cancelQ),
         core[s].tokenTo[t] \notin Cos, Tables(s, w),
         w = [core[s] EXCEPT !.calls = <<>>, !.cancelQ = p, !.tokenTo = [core[s].tokenTo EXCEPT ![t] = Nobody]],
         UNCHANGED <<inbox, status, armed, cancelled, dropped>>
  PROVE  CallsInv'
<1> DEFINE v == core[s]
           f == [v.tokenTo EXCEPT ![t] = Nobody]
<1>1. /\ Sound(v) /\ v \in State /\ TypeOK /\ TypeOK' /\ Owers(v) /\ Ordered(inbox)
      /\ v.tokenTo \in [Tokens -> Cos \cup {Nobody, BREAK}] /\ v.cancelQ \in Seq(Tokens)
  BY OfOne DEF CoreInv, CallsInv, State
<1>2. f[t] = Nobody /\ \A u \in Tokens : u # t => f[u] = v.tokenTo[u]
  BY <1>1
<1> HIDE DEF f
<1>3. w = [v EXCEPT !.calls = <<>>, !.cancelQ = p, !.tokenTo = f]
  BY DEF f
<1>4. /\ w.tokenTo = f /\ w.cancelQ = p /\ w.watching = v.watching /\ w.uiToken = v.uiToken
      /\ w.owed = v.owed /\ w.responses = v.responses /\ w.at = v.at
  BY <1>1, <1>3 DEF State
<1>5. Owers(w)
  BY <1>1, <1>4, OwersStay
<1>6. \A u \in Tokens : u # t /\ Contains(v.cancelQ, u) => Contains(p, u)
  BY <1>1, TailHolds
<1>7. PICK o \in Call_ : o[1] = s /\ o[2] = t
  <2>1. <<s, t>> \in Call_ /\ <<s, t>>[1] = s /\ <<s, t>>[2] = t
    BY DEF Call_
  <2>2. QED BY <2>1
<1>8. v.watching[t] = Nobody
  <2>1. \A u \in Tokens : v.watching[u] # Nobody => v.tokenTo[u] \in Cos
    BY <1>1 DEF Sound, Linked
  <2>2. QED BY <2>1
<1>9. Settled(s, t, w)
  <2>1. \A u \in Tokens : u # t => /\ w.tokenTo[u] = core[s].tokenTo[u] /\ w.watching[u] = core[s].watching[u]
                                   /\ Contains(core[s].cancelQ, u) => Contains(w.cancelQ, u)
    BY <1>2, <1>4, <1>6
  <2>2. w.uiToken = core[s].uiToken /\ w.tokenTo[t] \notin Cos
    BY <1>2, <1>4, Names
  <2>3. \A a \in Call_ : OwesFewer(a, core[s], w) /\ (OwesFewer(a, w, core[s]) \/ a \in dropped')
    BY <1>4 DEF OwesFewer
  <2>4. t \in armed'[s] => t \in armed[s] /\ w.watching[t] = Nobody
    BY <1>4, <1>8
  <2>5. ClosesStay(inbox, inbox') /\ Ordered(inbox')
    BY <1>1 DEF ClosesStay
  <2>6. dropped \subseteq dropped' /\ \A q \in Services : q # s => armed'[q] = armed[q]
    OBVIOUS
  <2>7. \A u \in Tokens : u # t => (u \in armed'[s] <=> u \in armed[s])
    OBVIOUS
  <2>8. QED BY <1>5, <2>1, <2>2, <2>3, <2>4, <2>5, <2>6, <2>7 DEF Settled
<1>10. \A a \in Call_ : /\ a # o => EventsStay(a, inbox, inbox') /\ (a \in cancelled' <=> a \in cancelled)
                        /\ EventsFewer(a, inbox, inbox')
  BY InboxSame
<1>11. Held(o)' => Held(o)
  <2>1. core'[s] = w /\ \A q \in Services : q # s => core'[q] = core[q]
    BY <1>1, TablesAre
  <2>2. \A q \in Services : /\ \A b \in Cos : core'[q].owed[b] = o => core[q].owed[b] = o
                            /\ o \in core'[q].responses => o \in core[q].responses
    BY <1>4, <2>1
  <2>3. PlacesFewer(o)
    BY <1>10, <2>2 DEF PlacesFewer
  <2>4. \A k \in Places, q \in Services, b \in Cos0 : At(k, q, b, o)' => At(k, q, b, o)
    BY <2>3, FewerPlaces DEF CallsInv, CallInv
  <2>5. QED BY <2>4 DEF Held
<1>12. status[s] # "stopped" /\ CallInv(o)
  BY ActiveRuns DEF CallsInv
<1>13. (Held(o)' => o \in cancelled') /\ (o \in cancelled' => t <= core[s].uiToken)
  BY <1>7, <1>11, <1>12 DEF CallInv, Expected
<1>14. QED BY <1>1, <1>7, <1>9, <1>10, <1>13, SettledCalls

\* The coroutine of a call that is cancelled goes on, or fails.
LEMMA GivenUpCalls ==
  ASSUME CoreInv, CoreInv', CallsInv, NEW s \in Services, ~Quiet(s), NEW t \in Tokens, NEW w,
         core[s].cancelQ # <<>>, t = Head(core[s].cancelQ), core[s].tokenTo[t] \in Cos,
         Tables(s, w), Owers(w), w.uiToken = core[s].uiToken, w.cancelQ = Tail(core[s].cancelQ),
         \A u \in Tokens : /\ w.tokenTo[u] = IF u = t THEN Nobody ELSE core[s].tokenTo[u]
                           /\ w.watching[u] = IF u = t THEN Nobody ELSE core[s].watching[u],
         \A x \in Call_ : OwesFewer(x, core[s], w) /\ (OwesFewer(x, w, core[s]) \/ x \in dropped'),
         UNCHANGED <<inbox, status, armed>>, dropped \subseteq dropped',
         cancelled' = cancelled \union {<<s, t>>}
  PROVE  CallsInv'
<1>1. /\ TypeOK /\ TypeOK' /\ Ordered(inbox) /\ Sound(core[s])
      /\ core[s].cancelQ \in Seq(Tokens) /\ core[s].uiToken \in Nat
  BY OfOne DEF CoreInv, CallsInv, Sound, State
<1>2. t <= core[s].uiToken
  BY <1>1 DEF Sound, Linked
<1>3. PICK o \in Call_ : o = <<s, t>>
  BY DEF Call_
<1>4. o[1] = s /\ o[2] = t /\ \A x \in Call_ : x # o => (x \in cancelled' <=> x \in cancelled)
  BY <1>3
<1>5. \A u \in Tokens : u # t /\ Contains(core[s].cancelQ, u) => Contains(w.cancelQ, u)
  BY <1>1, TailHolds
<1>6. Settled(s, t, w)
  <2>1. \A u \in Tokens : u # t => /\ w.tokenTo[u] = core[s].tokenTo[u] /\ w.watching[u] = core[s].watching[u]
                                   /\ Contains(core[s].cancelQ, u) => Contains(w.cancelQ, u)
    BY <1>5
  <2>2. w.tokenTo[t] \notin Cos /\ w.watching[t] = Nobody
    BY Names
  <2>3. ClosesStay(inbox, inbox') /\ Ordered(inbox')
    BY <1>1 DEF ClosesStay
  <2>4. \A u \in Tokens : u # t => (u \in armed'[s] <=> u \in armed[s])
    OBVIOUS
  <2>5. \A q \in Services : q # s => armed'[q] = armed[q]
    OBVIOUS
  <2>6. QED BY <2>1, <2>2, <2>3, <2>4, <2>5 DEF Settled
<1>7. \A x \in Call_ : /\ x # o => EventsStay(x, inbox, inbox') /\ (x \in cancelled' <=> x \in cancelled)
                       /\ EventsFewer(x, inbox, inbox')
  BY <1>4, InboxSame
<1>8. (Held(o)' => o \in cancelled') /\ (o \in cancelled' => t <= core[s].uiToken)
  BY <1>2, <1>3
<1>9. QED BY <1>1, <1>4, <1>6, <1>7, <1>8, SettledCalls

\* dispatch_watching_cancel_f.
LEMMA CancelCalls ==
  ASSUME CoreInv, CoreInv', CallsInv, Unlimited, NEW s \in Services, Cancel(s)
  PROVE  CallsInv'
<1> DEFINE v == core[s]
           w == [v EXCEPT !.calls = Tail(@)]
           t == Head(v.cancelQ)
           c == v.tokenTo[t]
           x == [w EXCEPT !.cancelQ = Tail(@), !.tokenTo[t] = Nobody]
           y == Awake(x, c, t)
           e == [x EXCEPT !.calls = <<>>]
           p == Tail(v.cancelQ)
           k == Tail(v.calls)
           z == Roused(v, c, t, Nobody, v.wakeupQ, p, k)
<1>1. /\ v.running = Nobody /\ v.calls # <<>> /\ ~Quiet(s)
      /\ UNCHANGED <<inbox, status, armed, ops, twice>>
  BY DEF Cancel, Busy, Quiet
<1>2. \/ v.cancelQ = <<>> /\ Tables(s, w) /\ UNCHANGED <<dropped, cancelled>>
      \/ v.cancelQ # <<>> /\ c \notin Cos /\ Tables(s, e) /\ UNCHANGED <<dropped, cancelled>>
      \/ /\ v.cancelQ # <<>> /\ c \in Cos /\ cancelled' = cancelled \union {<<s, t>>}
         /\ \/ Tables(s, y) /\ UNCHANGED dropped
            \/ Tables(s, Failed(y)) /\ dropped' = dropped \union Owes(s, c)
  BY DEF Cancel
<1>3. /\ Sound(v) /\ v \in State /\ TypeOK /\ TypeOK' /\ Owers(v) /\ (\E n \in Nat : Few(v, n))
      /\ v.calls \in Seq({"wakeup", "cancel"}) /\ v.cancelQ \in Seq(Tokens) /\ v.wakeupQ \in Seq(Cos)
  BY OfOne DEF CoreInv, CallsInv, State
<1>4. PICK n \in Nat : Few(v, n)
  BY <1>3
<1>5. ASSUME Tables(s, w), UNCHANGED <<dropped, cancelled>> PROVE CallsInv'
  <2>1. w = [v EXCEPT !.calls = k, !.wakeupQ = v.wakeupQ]
    BY <1>3 DEF State
  <2> HIDE DEF w, k
  <2>2. QED BY <1>1, <1>3, <1>5, <2>1, QueuesCalls
<1>6. ASSUME v.cancelQ # <<>>, c \notin Cos, Tables(s, e), UNCHANGED <<dropped, cancelled>> PROVE CallsInv'
  <2>1. t \in Tokens
    BY <1>3, <1>6, NonEmpty
  <2>2. PICK u \in Tokens : u = t
    BY <2>1
  <2>3. e = [v EXCEPT !.calls = <<>>, !.cancelQ = p, !.tokenTo = [v.tokenTo EXCEPT ![u] = Nobody]]
    BY <1>3, <2>2 DEF State
  <2> HIDE DEF e
  <2>4. QED BY <1>1, <1>6, <2>2, <2>3, NothingToCancel
<1>7. ASSUME v.cancelQ # <<>>, c \in Cos, cancelled' = cancelled \union {<<s, t>>},
             \/ Tables(s, y) /\ UNCHANGED dropped
             \/ Tables(s, Failed(y)) /\ dropped' = dropped \union Owes(s, c)
      PROVE  CallsInv'
  <2>1. /\ t \in Tokens /\ p \in Seq(Tokens) /\ k \in Seq({"wakeup", "cancel"})
        /\ \A a : Contains(p, a) => Contains(v.cancelQ, a)
    <3>1. t \in Tokens
      BY <1>3, <1>7, NonEmpty
    <3>2. /\ p \in Seq(Tokens) /\ \A a : Contains(p, a) => Contains(v.cancelQ, a)
      BY <1>3, <1>7, TailOf
    <3>3. k \in Seq({"wakeup", "cancel"})
      BY <1>1, <1>3, TailOf
    <3>4. QED BY <3>1, <3>2, <3>3
  <2>2. y = z
    <3> DEFINE f == [v.tokenTo EXCEPT ![t] = Nobody]
    <3> HIDE DEF v
    <3>1. x = [v EXCEPT !.calls = k, !.cancelQ = p, !.tokenTo = f]
      BY <1>3 DEF State, k, p
    <3> HIDE DEF x, c, t, k, p
    <3>2. QED BY ZenonT(60), <1>3, <1>7, <2>1, <3>1 DEF Awake, Resumed, Roused, State
  <2>3. Within(v, v.wakeupQ, p) /\ Nobody \in Marks
    BY <2>1 DEF Within, Marks
  <2>4. PICK b \in Cos : b = c
    BY <1>7
  <2> HIDE DEF p, k, t, y
  <2>5. Rousable(v, n, c, t, Nobody, v.wakeupQ, p, k)
    BY <1>1, <1>3, <1>4, <1>7, <2>1, <2>3 DEF Rousable
  <2>6. Sound(z) /\ (\E m \in Nat : Few(z, m))
    <3> HIDE DEF v, c
    <3>1. QED BY <2>5, RousedOK
  <2>7. /\ Owers(z) /\ z.running = b /\ z.owed = v.owed /\ z.responses = v.responses /\ z.uiToken = v.uiToken
        /\ \A u \in Tokens : /\ z.tokenTo[u] = IF u = t THEN Nobody ELSE v.tokenTo[u]
                             /\ z.watching[u] = IF u = t THEN Nobody ELSE v.watching[u]
        /\ z.cancelQ = p
    <3> HIDE DEF c
    <3>1. \A a : a = z => /\ Owers(a) /\ a.running = c /\ a.owed = v.owed
                          /\ a.responses = v.responses /\ a.uiToken = v.uiToken
                          /\ \A u \in Tokens : /\ a.tokenTo[u] = IF u = t THEN Nobody ELSE v.tokenTo[u]
                                               /\ a.watching[u] = IF u = t THEN Nobody ELSE v.watching[u]
                          /\ a.cancelQ = p
      BY <1>3, <1>7, RousedFields
    <3> HIDE DEF z
    <3>2. QED BY <3>1, <2>4
  <2>8. PICK u \in Tokens : u = t
    BY <2>1
  <2>9. core[s].tokenTo[u] \in Cos /\ u = Head(core[s].cancelQ) /\ p = Tail(core[s].cancelQ)
    BY <1>7, <2>8 DEF t, p
  <2> HIDE DEF z, c
  <2>10. ASSUME Tables(s, z), UNCHANGED dropped PROVE CallsInv'
    <3>1. \A a \in Call_ : OwesFewer(a, core[s], z) /\ (OwesFewer(a, z, core[s]) \/ a \in dropped')
      BY <2>7 DEF OwesFewer
    <3>2. dropped \subseteq dropped' /\ cancelled' = cancelled \union {<<s, u>>}
      BY <1>7, <2>8, <2>10
    <3>3. QED BY <1>1, <1>7, <2>7, <2>8, <2>9, <2>10, <3>1, <3>2, GivenUpCalls
  <2>11. ASSUME Tables(s, Failed(z)), dropped' = dropped \union Owes(s, c) PROVE CallsInv'
    <3> DEFINE g == Failed(z)
    <3>1. PICK m \in Nat : Few(z, m)
      BY <2>6
    <3>2. z.running \in Cos
      BY <2>7
    <3>3. Owers(g)
      BY <2>6, <2>7, <3>1, <3>2, OwersFailed
    <3>4. /\ g.cancelQ = z.cancelQ /\ g.uiToken = z.uiToken /\ g.tokenTo = z.tokenTo /\ g.watching = z.watching
          /\ g.owed = [z.owed EXCEPT ![z.running] = <<>>] /\ g.responses = z.responses
      BY <2>6, <3>1, <3>2, FailedOK
    <3> HIDE DEF g
    <3>5. g.owed = [core[s].owed EXCEPT ![b] = <<>>]
      BY <2>7, <3>4
    <3>6. \A a \in Call_ : /\ \A d \in Cos : core[s].owed[d] = a => g.owed[d] = a \/ a \in Owes(s, b)
                           /\ \A d \in Cos : g.owed[d] = core[s].owed[d] \/ g.owed[d] = <<>>
      BY <1>3, <3>5, OwedIsNoted
    <3>7. \A a \in Call_ : a # <<>>
      BY CallPair
    <3>8. \A a \in Call_ : OwesFewer(a, core[s], g) /\ (OwesFewer(a, g, core[s]) \/ a \in dropped')
      BY <2>4, <2>7, <2>11, <3>4, <3>6, <3>7 DEF OwesFewer
    <3>9. dropped \subseteq dropped' /\ cancelled' = cancelled \union {<<s, u>>}
      BY <1>7, <2>8, <2>11
    <3>10. /\ Tables(s, g) /\ g.uiToken = core[s].uiToken /\ g.cancelQ = Tail(core[s].cancelQ)
           /\ \A a \in Tokens : /\ g.tokenTo[a] = IF a = u THEN Nobody ELSE core[s].tokenTo[a]
                                /\ g.watching[a] = IF a = u THEN Nobody ELSE core[s].watching[a]
      BY <2>7, <2>8, <2>9, <2>11, <3>4 DEF g
    <3>11. QED BY <1>1, <1>7, <2>9, <3>3, <3>8, <3>9, <3>10, GivenUpCalls
  <2>12. QED BY <1>7, <2>2, <2>10, <2>11
<1>8. QED BY <1>2, <1>5, <1>6, <1>7

-----------------------------------------------------------------------------
(* A token is taken *)

\* Nothing is on its way for a token that was not given yet.
LEMMA NotYet ==
  ASSUME TypeOK, CallsInv, NEW s \in Services, ~Quiet(s), NEW o \in Call_, o[1] = s, core[s].uiToken < o[2]
  PROVE  /\ o \notin cancelled /\ o[2] \notin armed[s] /\ ~Among(inbox[s], Answers(o))
         /\ \A q \in Services : /\ ~Among(inbox[q], Requests(o)) /\ o \notin core[q].responses
                                /\ \A c \in Cos : core[q].owed[c] # o
<1>1. status[s] # "stopped" /\ CallInv(o)
  BY ActiveRuns DEF CallsInv
<1>2. core[s].uiToken \in Nat /\ o[2] \in Nat /\ o[2] \in Tokens
  BY CallPair, Names DEF TypeOK, State
<1>3. ~(o[2] <= core[s].uiToken)
  BY <1>2
<1>4. ~Held(o) /\ o \notin cancelled
  BY <1>1, <1>3 DEF CallInv, Expected
<1>5. /\ "asked" \in Places /\ "owed" \in Places /\ "deferred" \in Places /\ "given" \in Places
      /\ "armed" \in Places /\ 0 \in Cos0 /\ \A c \in Cos : c \in Cos0
  BY DEF Places, Cos0
<1>6. \A k \in Places, q \in Services, c \in Cos0 : ~At(k, q, c, o)
  BY <1>4 DEF Held
<1>7. o[2] \notin armed[s] /\ ~Among(inbox[s], Answers(o))
  <2>1. ~At("armed", s, 0, o) /\ ~At("given", s, 0, o)
    BY <1>5, <1>6
  <2>2. QED BY <2>1 DEF At
<1>8. ASSUME NEW q \in Services
      PROVE  /\ ~Among(inbox[q], Requests(o)) /\ o \notin core[q].responses
             /\ \A c \in Cos : core[q].owed[c] # o
  <2>1. ~At("asked", q, 0, o) /\ ~At("deferred", q, 0, o) /\ \A c \in Cos : ~At("owed", q, c, o)
    BY <1>5, <1>6
  <2>2. QED BY <2>1 DEF At
<1>9. QED BY <1>4, <1>7, <1>8

\* A coroutine begins to wait for the token u, which leads to it now.
Begun(s, u, w) ==
  /\ Tables(s, w) /\ Owers(w) /\ w.tokenTo[u] \in Cos
  /\ \A a \in Tokens : a # u => w.tokenTo[a] = core[s].tokenTo[a] /\ w.watching[a] = core[s].watching[a]
  /\ \A a \in Tokens : Contains(core[s].cancelQ, a) => Contains(w.cancelQ, a)
  /\ core[s].uiToken < u /\ u <= w.uiToken
  /\ w.owed = core[s].owed /\ w.responses = core[s].responses
  /\ UNCHANGED <<status, dropped, cancelled>>
  /\ \A q \in Services : q # s => armed'[q] = armed[q]
  /\ \A a \in Tokens : a # u => (a \in armed'[s] <=> a \in armed[s])

\* The other calls go on as before.
LEMMA BegunCalls ==
  ASSUME TypeOK, TypeOK', CallsInv, NEW s \in Services, ~Quiet(s), NEW u \in Tokens, NEW w, Begun(s, u, w),
         NEW o \in Call_, o[1] = s, o[2] = u, CallInv(o)', ClosesStay(inbox, inbox'), Ordered(inbox'),
         \A x \in Call_ : x # o => EventsFewer(x, inbox, inbox') /\ EventsStay(x, inbox, inbox')
  PROVE  CallsInv'
<1>a. /\ Tables(s, w) /\ Owers(w) /\ core[s].uiToken < u /\ u <= w.uiToken
      /\ w.owed = core[s].owed /\ w.responses = core[s].responses
      /\ UNCHANGED <<status, dropped, cancelled>>
  BY DEF Begun
<1>b. /\ \A a \in Tokens : a # u => w.tokenTo[a] = core[s].tokenTo[a] /\ w.watching[a] = core[s].watching[a]
      /\ \A a \in Tokens : Contains(core[s].cancelQ, a) => Contains(w.cancelQ, a)
  BY DEF Begun
<1>c. /\ \A q \in Services : q # s => armed'[q] = armed[q]
      /\ \A a \in Tokens : a # u => (a \in armed'[s] <=> a \in armed[s])
  BY DEF Begun
<1>1. core'[s] = w
  BY <1>a, TablesAre
<1>2. core[s].uiToken <= w.uiToken
  <2>1. core[s].uiToken \in Nat /\ core'[s].uiToken \in Nat /\ u \in Nat
    BY Names DEF TypeOK, State
  <2>2. QED BY <1>a, <1>1, <2>1
<1>3. ASSUME NEW x \in Call_, x # o PROVE CallInv(x)'
  <2>1. x[1] \in Services /\ x[2] \in Tokens /\ (x[1] = s => x[2] # u)
    BY <1>3, CallPair
  <2>2. TablesStay(x, s, w)
    BY <1>2, <1>b, <2>1 DEF TablesStay
  <2>3. x[2] \in armed'[x[1]] <=> x[2] \in armed[x[1]]
    BY <1>c, <2>1
  <2>4. RestStays(x)
    BY <1>a, <2>3 DEF RestStays
  <2>5. Steady(x) /\ CallInv(x)
    BY <1>a, <2>2, <2>4, StepSteady DEF CallsInv
  <2>6. OwesFewer(x, w, core[s]) /\ OwesFewer(x, core[s], w)
    BY <1>a DEF OwesFewer
  <2>7. QED BY <1>3, <1>a, <2>4, <2>5, <2>6, CallIdles
<1>4. \A x \in Call_ : CallInv(x)'
  BY <1>3
<1>5. QED BY <1>4, <1>a, <1>c, StepCalls

\* It waits for a timer or an event of its own service, if for any.
LEMMA TimerCalls ==
  ASSUME TypeOK, TypeOK', CallsInv, NEW s \in Services, ~Quiet(s), NEW u \in Tokens, NEW w, Begun(s, u, w),
         w.watching[u] = Nobody, inbox' = inbox
  PROVE  CallsInv'
<1>1. PICK o \in Call_ : o[1] = s /\ o[2] = u
  <2>1. <<s, u>> \in Call_ /\ <<s, u>>[1] = s /\ <<s, u>>[2] = u
    BY DEF Call_
  <2>2. QED BY <2>1
<1>2. /\ Tables(s, w) /\ w.tokenTo[u] \in Cos /\ core[s].uiToken < u /\ u <= w.uiToken
      /\ w.owed = core[s].owed /\ w.responses = core[s].responses
      /\ UNCHANGED <<status, dropped, cancelled>>
  BY DEF Begun
<1>3. core'[s] = w /\ \A q \in Services : q # s => core'[q] = core[q]
  BY <1>2, TablesAre
<1>4. /\ o \notin cancelled /\ ~Among(inbox[s], Answers(o))
      /\ \A q \in Services : /\ ~Among(inbox[q], Requests(o)) /\ o \notin core[q].responses
                             /\ \A c \in Cos : core[q].owed[c] # o
  BY <1>1, <1>2, NotYet
<1>5. \A q \in Services : o \notin core'[q].responses /\ \A c \in Cos : core'[q].owed[c] # o
  BY <1>2, <1>3, <1>4
<1>6. \A k \in Places, q \in Services, c \in Cos0 : At(k, q, c, o)' => k = "armed" /\ q = s /\ c = 0
  BY <1>1, <1>4, <1>5 DEF At
<1>7. OnePlace(o)'
  <2>1. \A q \in Services : Once(inbox'[q], Requests(o))
    BY <1>4 DEF Once, Among
  <2>2. Once(inbox'[o[1]], Answers(o))
    BY <1>1, <1>4 DEF Once, Among
  <2>3. \A k, l \in Places, q, r \in Services, c, d \in Cos0 :
          At(k, q, c, o)' /\ At(l, r, d, o)' => k = l /\ q = r /\ c = d
    BY <1>6
  <2>4. QED BY <2>1, <2>2, <2>3 DEF OnePlace
<1>8. ~(Foreign(o)')
  <2>1. ~Among(inbox'[s], Strangers(o))
    BY <1>4 DEF Among, Strangers
  <2>2. \A q \in Services : /\ ~(At("asked", q, 0, o)') /\ ~(At("deferred", q, 0, o)')
                            /\ \A c \in Cos : ~(At("owed", q, c, o)')
    BY <1>4, <1>5 DEF At
  <2>3. QED BY <1>1, <2>1, <2>2 DEF Foreign
<1>9. Expected(o)'
  BY <1>1, <1>2, <1>3, <1>4, <1>8 DEF Expected
<1>10. Kept(o)'
  BY <1>1, <1>3 DEF Kept, Waits
<1>11. CallInv(o)'
  BY <1>7, <1>9, <1>10 DEF CallInv
<1>12. \A x \in Call_ : EventsFewer(x, inbox, inbox') /\ EventsStay(x, inbox, inbox')
  BY InboxSame
<1>13. ClosesStay(inbox, inbox') /\ Ordered(inbox')
  BY DEF ClosesStay, CallsInv
<1>14. QED BY <1>1, <1>11, <1>12, <1>13, BegunCalls

\* It waits for the answer of another service.
LEMMA RequestCalls ==
  ASSUME TypeOK, TypeOK', CallsInv, NEW s \in Services, ~Quiet(s), NEW u \in Tokens, NEW w, Begun(s, u, w),
         NEW to \in Services, Accepts(to), NEW kind \in {"call", "ping"}, w.watching[u] # Nobody,
         inbox' = Sent(inbox, to, Event(kind, s, u)), armed' = armed
  PROVE  CallsInv'
<1>1. PICK o \in Call_ : o[1] = s /\ o[2] = u
  <2>1. <<s, u>> \in Call_ /\ <<s, u>>[1] = s /\ <<s, u>>[2] = u
    BY DEF Call_
  <2>2. QED BY <2>1
<1>2. /\ Tables(s, w) /\ w.tokenTo[u] \in Cos /\ core[s].uiToken < u /\ u <= w.uiToken
      /\ w.owed = core[s].owed /\ w.responses = core[s].responses
      /\ UNCHANGED <<status, dropped, cancelled>>
  BY DEF Begun
<1>3. core'[s] = w /\ \A q \in Services : q # s => core'[q] = core[q]
  BY <1>2, TablesAre
<1>4. /\ o \notin cancelled /\ ~Among(inbox[s], Answers(o)) /\ u \notin armed[s]
      /\ \A q \in Services : /\ ~Among(inbox[q], Requests(o)) /\ o \notin core[q].responses
                             /\ \A c \in Cos : core[q].owed[c] # o
  BY <1>1, <1>2, NotYet
<1>5. \A q \in Services : o \notin core'[q].responses /\ \A c \in Cos : core'[q].owed[c] # o
  BY <1>2, <1>3, <1>4
<1>6. /\ \A q \in Services : /\ Among(inbox'[q], Requests(o)) => q = to
                             /\ Once(inbox'[q], Requests(o))
      /\ ~Among(inbox'[s], Answers(o)) /\ Once(inbox'[s], Answers(o))
      /\ Among(inbox'[to], Requests(o))
      /\ \A x \in Call_ : x # o => EventsFewer(x, inbox, inbox') /\ EventsStay(x, inbox, inbox')
      /\ ClosesStay(inbox, inbox') /\ Ordered(inbox')
  <2>1. inbox \in [Services -> Seq(Events)] /\ Ordered(inbox)
    BY DEF TypeOK, CallsInv
  <2>2. /\ inbox' = Sent(inbox, to, Event(kind, o[1], o[2]))
        /\ ~Among(inbox[o[1]], Answers(o)) /\ \A q \in Services : ~Among(inbox[q], Requests(o))
    BY <1>1, <1>4
  <2>3. QED BY <1>1, <2>1, <2>2, Requested
<1>7. \A k \in Places, q \in Services, c \in Cos0 : At(k, q, c, o)' => k = "asked" /\ q = to /\ c = 0
  BY <1>1, <1>4, <1>5, <1>6 DEF At
<1>8. OnePlace(o)'
  <2>1. \A k, l \in Places, q, r \in Services, c, d \in Cos0 :
          At(k, q, c, o)' /\ At(l, r, d, o)' => k = l /\ q = r /\ c = d
    BY <1>7
  <2>2. QED BY <1>1, <1>6, <2>1 DEF OnePlace
<1>9. Expected(o)'
  BY <1>1, <1>2, <1>3, <1>4 DEF Expected
<1>10. Kept(o)'
  <2>1. At("asked", to, 0, o)' /\ "asked" \in Places /\ 0 \in Cos0
    BY <1>6 DEF At, Places, Cos0
  <2>2. Held(o)'
    BY <2>1 DEF Held
  <2>3. QED BY <2>2 DEF Kept
<1>11. CallInv(o)'
  BY <1>8, <1>9, <1>10 DEF CallInv
<1>12. QED BY <1>1, <1>6, <1>11, BegunCalls

\* The token after the last: what the tables are that have it.
LEMMA TokenTaken ==
  ASSUME CoreInv, CallsInv, NEW s \in Services, Busy(s), ops < MaxOps
  PROVE  LET v == Taken(core[s])
         IN  /\ v \in State /\ Sound(v) /\ (\E n \in Nat : Few(v, n)) /\ v.running \in Cos
             /\ v.uiToken \in Tokens /\ core[s].uiToken < v.uiToken
             /\ v.watching[v.uiToken] = Nobody /\ Owers(v)
             /\ v.at = core[s].at /\ v.owed = core[s].owed /\ v.responses = core[s].responses
             /\ v.tokenTo = core[s].tokenTo /\ v.watching = core[s].watching /\ v.cancelQ = core[s].cancelQ
             /\ v.at[v.running] = "running"
<1> DEFINE r == core[s]
           v == Taken(core[s])
<1>1. /\ Sound(v) /\ v \in State /\ (\E n \in Nat : Few(v, n)) /\ v.running \in Cos
      /\ v.uiToken \in Tokens /\ v.watching[v.uiToken] = Nobody
  BY TokenIsTaken
<1>2. Sound(r) /\ r \in State /\ r.uiToken \in Nat /\ Owers(r) /\ (\E n \in Nat : Few(r, n))
  BY OfOne DEF CallsInv
<1>3. PICK n \in Nat : Few(r, n)
  BY <1>2
<1>4. /\ v.uiToken = r.uiToken + 1 /\ v.at = r.at
      /\ v.tokenTo = r.tokenTo /\ v.watching = r.watching /\ v.cancelQ = r.cancelQ
      /\ v.owed = r.owed /\ v.responses = r.responses
  BY <1>2, <1>3, TakenOK
<1> HIDE DEF v, r
<1>5. Owers(v)
  BY <1>2, <1>4, OwersStay
<1>6. r.uiToken < v.uiToken
  BY <1>2, <1>4
<1>7. v.at[v.running] = "running"
  BY <1>1 DEF Sound, Placed
<1>8. QED BY <1>1, <1>4, <1>5, <1>6, <1>7 DEF v, r

\* The running coroutine waits for it.
LEMMA SuspendedOwers ==
  ASSUME NEW v \in State, v.running \in Cos, v.at[v.running] = "running", Owers(v),
         NEW why \in {"call", "ping", "sleep", "wait", "await"}
  PROVE  LET w == Suspended(v, why)
         IN  /\ Owers(w) /\ w.owed = v.owed /\ w.responses = v.responses
             /\ w.tokenTo = v.tokenTo /\ w.watching = v.watching /\ w.uiToken = v.uiToken
             /\ w.cancelQ = v.cancelQ
<1> DEFINE w == Suspended(v, why)
<1>1. why \in Kinds /\ why \notin {"none", "pooled", "new", "idle"}
  BY DEF Kinds
<1>2. /\ w.at = [v.at EXCEPT ![v.running] = why] /\ w.owed = v.owed /\ w.responses = v.responses
      /\ w.tokenTo = v.tokenTo /\ w.watching = v.watching /\ w.uiToken = v.uiToken
      /\ w.cancelQ = v.cancelQ
  BY <1>1, SuspendedFields
<1> HIDE DEF w
<1>3. v.at \in [Cos -> Kinds]
  BY DEF State
<1>4. ASSUME NEW c \in Cos
      PROVE  w.at[c] = v.at[c] \/ w.at[c] \notin {"none", "pooled", "new", "idle"}
  BY <1>1, <1>2, <1>3
<1>5. Owers(w)
  BY <1>2, <1>4, OwersStay
<1>6. QED BY <1>2, <1>5 DEF w

\* serviceCore.call, callCommand and ping.
LEMMA CallCalls ==
  ASSUME CoreInv, CoreInv', CallsInv, NEW s \in Services, NEW to \in Addresses,
         NEW kind \in {"call", "ping"}, Call(s, to, kind)
  PROVE  CallsInv'
<1> DEFINE v == Taken(core[s])
           p == [v.watching EXCEPT ![v.uiToken] = to]
           q == [v.tokenTo EXCEPT ![v.uiToken] = v.running]
           x == [v EXCEPT !.watching[v.uiToken] = to, !.tokenTo[v.uiToken] = v.running]
           w == Suspended(x, kind)
<1>1. /\ Busy(s) /\ ops < MaxOps /\ Tables(s, w) /\ Accepts(IdOf[to])
      /\ inbox' = Sent(inbox, IdOf[to], Event(kind, s, v.uiToken))
      /\ UNCHANGED <<status, armed, dropped, cancelled>>
  BY DEF Call, Operates
<1>2. /\ v \in State /\ v.running \in Cos /\ v.uiToken \in Tokens /\ core[s].uiToken < v.uiToken
      /\ Owers(v) /\ v.owed = core[s].owed /\ v.responses = core[s].responses
      /\ v.tokenTo = core[s].tokenTo /\ v.watching = core[s].watching /\ v.cancelQ = core[s].cancelQ
      /\ v.at[v.running] = "running"
  BY <1>1, TokenTaken
<1>3. TypeOK /\ TypeOK' /\ ~Quiet(s)
  BY <1>1 DEF CoreInv, Quiet
<1> HIDE DEF v
<1>4. x = [v EXCEPT !.watching = p, !.tokenTo = q]
  BY <1>2 DEF State
<1>5. p \in [Tokens -> Addresses \cup {Nobody}] /\ q \in [Tokens -> Cos \cup {Nobody, BREAK}]
  BY <1>2 DEF State
<1>6. /\ \A a \in Tokens : a # v.uiToken => p[a] = v.watching[a] /\ q[a] = v.tokenTo[a]
      /\ p[v.uiToken] = to /\ q[v.uiToken] = v.running
  BY <1>2 DEF State
<1> HIDE DEF p, q, x
<1>7. /\ x \in State /\ x.watching = p /\ x.tokenTo = q /\ x.running = v.running /\ x.at = v.at
      /\ x.cancelQ = v.cancelQ /\ x.uiToken = v.uiToken /\ x.owed = v.owed /\ x.responses = v.responses
  BY <1>2, <1>4, <1>5 DEF State
<1>8. Owers(x)
  BY <1>2, <1>7, OwersStay
<1>9. /\ Owers(w) /\ w.owed = x.owed /\ w.responses = x.responses
      /\ w.tokenTo = x.tokenTo /\ w.watching = x.watching /\ w.uiToken = x.uiToken
      /\ w.cancelQ = x.cancelQ
  BY <1>2, <1>7, <1>8, SuspendedOwers
<1> HIDE DEF w
<1>10. v.uiToken <= w.uiToken
  BY <1>2, <1>7, <1>9, Names
<1>11. Begun(s, v.uiToken, w)
  BY <1>1, <1>2, <1>6, <1>7, <1>9, <1>10 DEF Begun
<1>12. w.watching[v.uiToken] # Nobody /\ IdOf[to] \in Services
  BY <1>6, <1>7, <1>9, Names
<1>13. QED BY <1>1, <1>2, <1>3, <1>11, <1>12, RequestCalls

\* sleep, wait, and what waits for one event of the service's own.
LEMMA SleepCalls ==
  ASSUME CoreInv, CoreInv', CallsInv, NEW s \in Services, NEW why \in {"sleep", "wait", "await"}, Sleep(s, why)
  PROVE  CallsInv'
<1> DEFINE v == Taken(core[s])
           p == [v.sleeping EXCEPT ![v.running] = IF why = "await" THEN 0 ELSE v.uiToken]
           q == [v.tokenTo EXCEPT ![v.uiToken] = v.running]
           x == [v EXCEPT !.tokenTo[v.uiToken] = v.running,
                          !.sleeping[v.running] = IF why = "await" THEN 0 ELSE v.uiToken]
           w == Suspended(x, why)
<1>1. /\ Busy(s) /\ ops < MaxOps /\ Tables(s, w)
      /\ armed' = IF why = "wait" THEN armed ELSE [armed EXCEPT ![s] = @ \union {v.uiToken}]
      /\ UNCHANGED <<inbox, status, dropped, cancelled>>
  BY DEF Sleep, Operates
<1>2. /\ v \in State /\ v.running \in Cos /\ v.uiToken \in Tokens /\ core[s].uiToken < v.uiToken
      /\ Owers(v) /\ v.owed = core[s].owed /\ v.responses = core[s].responses
      /\ v.watching[v.uiToken] = Nobody
      /\ v.tokenTo = core[s].tokenTo /\ v.watching = core[s].watching /\ v.cancelQ = core[s].cancelQ
      /\ v.at[v.running] = "running"
  BY <1>1, TokenTaken
<1>3. TypeOK /\ TypeOK' /\ ~Quiet(s) /\ armed \in [Services -> SUBSET Tokens]
  BY <1>1 DEF CoreInv, Quiet, TypeOK
<1> HIDE DEF v
<1>4. x = [v EXCEPT !.tokenTo = q, !.sleeping = p]
  BY <1>2 DEF State
<1>5. p \in [Cos -> Tokens \cup {0}] /\ q \in [Tokens -> Cos \cup {Nobody, BREAK}]
  BY <1>2 DEF State
<1>6. /\ \A a \in Tokens : a # v.uiToken => q[a] = v.tokenTo[a]
      /\ q[v.uiToken] = v.running
  BY <1>2 DEF State
<1> HIDE DEF p, q, x
<1>7. /\ x \in State /\ x.watching = v.watching /\ x.tokenTo = q /\ x.running = v.running /\ x.at = v.at
      /\ x.cancelQ = v.cancelQ /\ x.uiToken = v.uiToken /\ x.owed = v.owed /\ x.responses = v.responses
  BY <1>2, <1>4, <1>5 DEF State
<1>8. Owers(x)
  BY <1>2, <1>7, OwersStay
<1>9. /\ Owers(w) /\ w.owed = x.owed /\ w.responses = x.responses
      /\ w.tokenTo = x.tokenTo /\ w.watching = x.watching /\ w.uiToken = x.uiToken
      /\ w.cancelQ = x.cancelQ
  BY <1>2, <1>7, <1>8, SuspendedOwers
<1> HIDE DEF w
<1>10. v.uiToken <= w.uiToken
  BY <1>2, <1>7, <1>9, Names
<1>11. /\ \A r \in Services : r # s => armed'[r] = armed[r]
       /\ \A a \in Tokens : a # v.uiToken => (a \in armed'[s] <=> a \in armed[s])
  BY <1>1, <1>3
<1>12. Begun(s, v.uiToken, w)
  BY <1>1, <1>2, <1>6, <1>7, <1>9, <1>10, <1>11 DEF Begun
<1>13. w.watching[v.uiToken] = Nobody
  BY <1>2, <1>7, <1>9
<1>14. QED BY <1>1, <1>2, <1>3, <1>12, <1>13, TimerCalls

\* timeout and yield.
LEMMA TimeoutCalls ==
  ASSUME CoreInv, CoreInv', CallsInv, Unlimited, NEW s \in Services, Timeout(s)
  PROVE  CallsInv'
<1> DEFINE v == Taken(core[s])
           u == v.uiToken
           c == NewCo(v)
           x == Created(v, "new")
           q == [x.tokenTo EXCEPT ![u] = c]
           w == [x EXCEPT !.tokenTo[u] = c]
<1>1. /\ Busy(s) /\ ops < MaxOps /\ Tables(s, w)
      /\ armed' = [armed EXCEPT ![s] = @ \union {u}]
      /\ UNCHANGED <<inbox, status, dropped, cancelled>>
  BY DEF Timeout, Operates
<1>2. /\ v \in State /\ Sound(v) /\ (\E n \in Nat : Few(v, n)) /\ u \in Tokens /\ core[s].uiToken < u
      /\ Owers(v) /\ v.owed = core[s].owed /\ v.responses = core[s].responses
      /\ v.watching[u] = Nobody
      /\ v.tokenTo = core[s].tokenTo /\ v.watching = core[s].watching /\ v.cancelQ = core[s].cancelQ
  BY <1>1, TokenTaken
<1>a. PICK n \in Nat : Few(v, n)
  BY <1>2
<1>3. TypeOK /\ TypeOK' /\ ~Quiet(s) /\ armed \in [Services -> SUBSET Tokens]
  BY <1>1 DEF CoreInv, Quiet, TypeOK
<1>b. PICK b \in Tokens : b = u
  BY <1>2
<1> HIDE DEF v
<1>4. /\ Sound(x) /\ c \in Cos /\ x.owed = v.owed /\ x.responses = v.responses /\ x.cancelQ = v.cancelQ
      /\ x.tokenTo = v.tokenTo /\ x.watching = v.watching /\ x.uiToken = v.uiToken
  BY <1>2, <1>a, CreatedOK
<1>5. Owers(x)
  BY <1>2, <1>a, OwersCreated
<1> HIDE DEF x, c, u
<1>6. x \in State
  BY <1>4 DEF Sound
<1>7. w = [x EXCEPT !.tokenTo = q]
  BY <1>6 DEF State
<1>8. q[u] = c /\ \A a \in Tokens : a # u => q[a] = x.tokenTo[a]
  BY <1>2, <1>6 DEF State
<1> HIDE DEF q, w
<1>9. /\ w.tokenTo = q /\ w.watching = x.watching /\ w.uiToken = x.uiToken /\ w.cancelQ = x.cancelQ
      /\ w.owed = x.owed /\ w.responses = x.responses /\ w.at = x.at
  BY <1>6, <1>7 DEF State
<1>10. Owers(w)
  BY <1>5, <1>9, OwersStay
<1>11. u <= w.uiToken
  BY <1>2, <1>4, <1>9, Names DEF u
<1>12. /\ \A r \in Services : r # s => armed'[r] = armed[r]
       /\ \A a \in Tokens : a # u => (a \in armed'[s] <=> a \in armed[s])
  BY <1>1, <1>3
<1>13. Begun(s, u, w)
  BY <1>1, <1>2, <1>4, <1>8, <1>9, <1>10, <1>11, <1>12 DEF Begun
<1>14. w.watching[u] = Nobody
  BY <1>2, <1>4, <1>9
<1>15. QED BY <1>1, <1>2, <1>3, <1>13, <1>14, TimerCalls

-----------------------------------------------------------------------------
(* A service exits *)

\* Something may be behind the events that were there.
LEMMA Behind ==
  ASSUME NEW b \in Seq(Events), NEW e \in Events, NEW p, p = b \/ p = Append(b, e)
  PROVE  /\ p \in Seq(Events)
         /\ \A A : e \notin A => (Among(p, A) <=> Among(b, A)) /\ (Once(b, A) => Once(p, A))
         /\ \A f : Contains(b, f) => Contains(p, f)
         /\ p = Append(b, e) => Contains(p, e)
<1>1. CASE p = b /\ p # Append(b, e)
  BY <1>1
<1>2. CASE p = Append(b, e)
  <2>1. /\ \A A : Among(p, A) <=> Among(b, A) \/ e \in A
        /\ \A A : Once(b, A) /\ (e \in A => ~Among(b, A)) => Once(p, A)
    BY <1>2, AppendAmong
  <2>2. p \in Seq(Events) /\ \A f : Contains(p, f) <=> Contains(b, f) \/ f = e
    BY <1>2, AppendedTo
  <2>3. QED BY <2>1, <2>2
<1>3. QED BY <1>1, <1>2

\* Those who wait for it are told, and the stop is its own last event.
LEMMA ExitSends ==
  ASSUME TypeOK, CallsInv, NEW s \in Services, Exit(s)
  PROVE  /\ \A x \in Call_ : EventsFewer(x, inbox, inbox') /\ EventsStay(x, inbox, inbox')
         /\ ClosesStay(inbox, inbox') /\ Ordered(inbox)'
         /\ \A q \in Told(s) \cap Services : Accepts(q) => Contains(inbox'[q], Event("close", s, 0))
<1> DEFINE e == Event("close", s, 0)
           f == Event("stop", s, 0)
           b(q) == IF q \in Told(s) /\ Accepts(q) THEN Append(inbox[q], e) ELSE inbox[q]
<1>1. /\ status' = [status EXCEPT ![s] = "exiting"] /\ status[s] = "running"
      /\ inbox' = [q \in Services |-> IF q = s THEN Append(b(q), f) ELSE b(q)]
  BY DEF Exit, Accepts
<1>2. /\ inbox \in [Services -> Seq(Events)] /\ status \in [Services -> {"running", "exiting", "stopped"}]
      /\ Ordered(inbox)
  BY DEF TypeOK, CallsInv
<1>3. e \in Events /\ f \in Events /\ e.ev = "close" /\ f.ev = "stop"
  BY EventTyped DEF Event
<1>4. \A x \in Call_ : /\ e \notin Requests(x) /\ e \notin Answers(x) /\ e \notin Strangers(x)
                       /\ f \notin Requests(x) /\ f \notin Answers(x) /\ f \notin Strangers(x)
  <2>1. 1 \in Tokens
    BY MaxOpsAssumption DEF Tokens
  <2>2. QED BY <2>1, EventIs
<1>5. \A q \in Services : /\ b(q) = inbox[q] \/ (b(q) = Append(inbox[q], e) /\ Accepts(q))
                          /\ q \in Told(s) /\ Accepts(q) => b(q) = Append(inbox[q], e)
                          /\ inbox'[q] = b(q) \/ inbox'[q] = Append(b(q), f)
                          /\ inbox'[q] = IF q = s THEN Append(b(q), f) ELSE b(q)
  BY <1>1
<1> HIDE DEF b, e, f
<1>6. ASSUME NEW q \in Services
      PROVE  /\ b(q) \in Seq(Events)
             /\ \A A : e \notin A => (Among(b(q), A) <=> Among(inbox[q], A)) /\ (Once(inbox[q], A) => Once(b(q), A))
             /\ \A g : Contains(inbox[q], g) => Contains(b(q), g)
             /\ q \in Told(s) /\ Accepts(q) => Contains(b(q), e)
  <2>1. inbox[q] \in Seq(Events) /\ (b(q) = inbox[q] \/ b(q) = Append(inbox[q], e))
    BY <1>2, <1>5
  <2>2. /\ b(q) \in Seq(Events)
        /\ \A A : e \notin A => (Among(b(q), A) <=> Among(inbox[q], A)) /\ (Once(inbox[q], A) => Once(b(q), A))
        /\ \A g : Contains(inbox[q], g) => Contains(b(q), g)
        /\ b(q) = Append(inbox[q], e) => Contains(b(q), e)
    BY <1>3, <2>1, Behind
  <2>3. QED BY <1>5, <2>2
<1>7. ASSUME NEW q \in Services
      PROVE  /\ \A A : f \notin A => (Among(inbox'[q], A) <=> Among(b(q), A)) /\ (Once(b(q), A) => Once(inbox'[q], A))
             /\ \A g : Contains(b(q), g) => Contains(inbox'[q], g)
  BY <1>3, <1>5, <1>6, Behind
<1>8. \A q \in Services : \A A : e \notin A /\ f \notin A =>
        (Among(inbox'[q], A) <=> Among(inbox[q], A)) /\ (Once(inbox[q], A) => Once(inbox'[q], A))
  BY <1>6, <1>7
<1>9. ASSUME NEW x \in Call_ PROVE EventsFewer(x, inbox, inbox') /\ EventsStay(x, inbox, inbox')
  <2>1. x[1] \in Services
    BY CallPair
  <2>2. EventsFewer(x, inbox, inbox')
    BY <1>4, <1>8, <2>1 DEF EventsFewer
  <2>3. EventsStay(x, inbox, inbox')
    BY <1>4, <1>8, <2>1 DEF EventsStay
  <2>4. QED BY <2>2, <2>3
<1>10. ClosesStay(inbox, inbox')
  BY <1>6, <1>7 DEF ClosesStay
<1>11. ASSUME NEW q \in Services
       PROVE  /\ StopLast(inbox'[q])
              /\ Among(inbox'[q], Stops) => status'[q] = "exiting"
              /\ status'[q] = "stopped" => inbox'[q] = <<>>
  <2>1. /\ StopLast(inbox[q]) /\ (Among(inbox[q], Stops) => status[q] = "exiting")
        /\ status[q] = "stopped" => inbox[q] = <<>>
    BY <1>2 DEF Ordered
  <2>2. e \notin Stops
    BY <1>3 DEF Stops
  <2>3. StopLast(b(q)) /\ (Among(b(q), Stops) => Among(inbox[q], Stops))
    <3>1. CASE b(q) = inbox[q]
      BY <2>1, <3>1
    <3>2. CASE b(q) = Append(inbox[q], e) /\ Accepts(q)
      <4>1. ~Among(inbox[q], Stops)
        BY <2>1, <3>2 DEF Accepts
      <4>2. StopLast(b(q))
        BY <1>2, <1>3, <2>1, <3>2, <4>1, StopAppend
      <4>3. QED BY <1>6, <2>2, <4>2
    <3>3. QED BY <1>5, <3>1, <3>2
  <2>4. CASE q = s
    <3>1. ~Among(b(q), Stops)
      BY <1>1, <2>1, <2>3, <2>4
    <3>2. inbox'[q] = Append(b(q), f)
      BY <1>5, <2>4
    <3>3. StopLast(inbox'[q])
      BY <1>3, <1>6, <2>3, <3>1, <3>2, StopAppend
    <3>4. QED BY <1>1, <1>2, <2>4, <3>3
  <2>5. CASE q # s
    <3>1. inbox'[q] = b(q) /\ status'[q] = status[q]
      BY <1>1, <1>2, <1>5, <2>5
    <3>2. status[q] = "stopped" => b(q) = inbox[q]
      BY <1>5 DEF Accepts
    <3>3. QED BY <2>1, <2>3, <3>1, <3>2
  <2>6. QED BY <2>4, <2>5
<1>12. Ordered(inbox)'
  BY <1>11 DEF Ordered
<1>13. QED BY <1>6, <1>7, <1>9, <1>10, <1>12 DEF e

\* serviceCore.exit: who is owed a reply is told or it is noted, unless a coroutine goes
\* on with it.
LEMMA ExitCalls ==
  ASSUME CoreInv, CoreInv', CallsInv, NEW s \in Services, Exit(s)
  PROVE  CallsInv'
<1> DEFINE v == core[s]
           a == [c \in Cos |-> IF Contains(v.asyncQ, c) THEN "none" ELSE v.at[c]]
           w == Exited(v)
<1>1. /\ Busy(s) /\ status[s] = "running" /\ status' = [status EXCEPT ![s] = "exiting"]
      /\ dropped' = dropped \union Misses(s, Owing(s))
      /\ UNCHANGED <<armed, cancelled>>
  BY DEF Exit, Operates, Accepts
<1>2. Tables(s, w)
  BY DEF Exit, Exited
<1>3. /\ TypeOK /\ TypeOK' /\ v \in State /\ Sound(v) /\ Owers(v)
      /\ status \in [Services -> {"running", "exiting", "stopped"}]
  BY <1>1, OfOne DEF CoreInv, CallsInv, TypeOK
<1>4. /\ \A x \in Call_ : EventsFewer(x, inbox, inbox') /\ EventsStay(x, inbox, inbox')
      /\ ClosesStay(inbox, inbox') /\ Ordered(inbox)'
      /\ \A q \in Told(s) \cap Services : Accepts(q) => Contains(inbox'[q], Event("close", s, 0))
  BY <1>3, ExitSends
<1>5. w = [v EXCEPT !.asyncQ = <<>>, !.responses = {}, !.at = a]
  BY <1>3 DEF Exited, State
<1>6. core'[s] = w /\ \A q \in Services : q # s => core'[q] = core[q]
  BY <1>2, <1>3, TablesAre
<1>a. ASSUME NEW x \in v.responses PROVE x \in Owing(s)
  BY <1>a DEF Owing
<1>b. ASSUME NEW c \in Cos, v.owed[c] # <<>> PROVE a[c] = v.at[c]
  <2>1. v.at[c] \notin {"new", "idle"}
    BY <1>3, <1>b DEF Owers
  <2>2. ~Contains(v.asyncQ, c)
    BY <1>3, <2>1 DEF Sound, Placed
  <2>3. QED BY <2>2
<1> HIDE DEF a, w
<1>7. /\ w.at = a /\ w.responses = {} /\ w.owed = v.owed /\ w.tokenTo = v.tokenTo /\ w.watching = v.watching
      /\ w.uiToken = v.uiToken /\ w.cancelQ = v.cancelQ
  BY <1>3, <1>5 DEF State
<1>8. Owers(w)
  BY <1>3, <1>7, <1>b DEF Owers
<1>9. ASSUME NEW x \in Call_ PROVE CallInv(x)'
  <2> DEFINE r == x[1]
             t == x[2]
  <2>1. r \in Services /\ t \in Tokens /\ CallInv(x)
    BY CallPair DEF CallsInv
  <2>2. /\ core'[r].tokenTo[t] = core[r].tokenTo[t] /\ core'[r].watching[t] = core[r].watching[t]
        /\ core'[r].uiToken = core[r].uiToken /\ core'[r].cancelQ = core[r].cancelQ
    BY <1>6, <1>7, <2>1
  <2>3. core[r].uiToken \in Nat /\ core[r].watching[t] \in Addresses \cup {Nobody}
    <3>1. core[r] \in State
      BY <1>3, <2>1 DEF TypeOK
    <3>2. QED BY <2>1, <3>1 DEF State
  <2>4. Waits(r, t)' => core[r].watching[t] # Nobody /\ status[r] = "running" /\ r # s
    BY <1>1, <1>3, <2>1, <2>2 DEF Waits
  <2>5. GivenUp(r, t) /\ Waits(r, t)' => GivenUp(r, t)'
    BY <1>4, <2>1, <2>2, <2>3, <2>4 DEF GivenUp, ClosesStay
  <2>6. Steady(x)
    <3>1. dropped \subseteq dropped' /\ core[r].uiToken <= core'[r].uiToken
      BY <1>1, <2>2, <2>3
    <3>2. /\ status'[r] = "running" => status[r] = "running"
          /\ status[r] = "stopped" => status'[r] = "stopped"
      BY <1>1, <1>3, <2>1
    <3>3. QED BY <1>1, <2>2, <2>5, <3>1, <3>2 DEF Steady
  <2>7. PlacesFewer(x)
    <3>1. \A q \in Services : /\ \A c \in Cos : core'[q].owed[c] = x => core[q].owed[c] = x
                              /\ x \in core'[q].responses => x \in core[q].responses
      BY <1>6, <1>7
    <3>2. QED BY <1>1, <1>4, <3>1 DEF PlacesFewer
  <2>8. CASE x \in v.responses
    <3>1. x \in Owing(s)
      BY <1>a, <2>8
    <3>2. r \in Told(s)
      BY <3>1 DEF Told
    <3>3. Waits(r, t)' => GivenUp(r, t)' \/ x \in dropped'
      <4>1. core[r].watching[t] # s => x \in dropped'
        BY <1>1, <3>1 DEF Misses
      <4>2. ASSUME Waits(r, t)', core[r].watching[t] = s PROVE GivenUp(r, t)'
        <5>1. Accepts(r)
          BY <2>4, <4>2 DEF Accepts
        <5>2. Contains(inbox'[r], Event("close", s, 0))
          BY <1>4, <2>1, <3>2, <5>1
        <5>3. QED BY <2>2, <4>2, <5>2 DEF GivenUp
      <4>3. QED BY <4>1, <4>2
    <3>4. QED BY <1>3, <2>1, <2>6, <2>7, <3>3, CallLeft
  <2>9. CASE x \notin v.responses
    <3>1. \A q \in Services : /\ \A c \in Cos : core[q].owed[c] = x => core'[q].owed[c] = x
                              /\ x \in core[q].responses => x \in core'[q].responses
      BY <1>6, <1>7, <2>9
    <3>2. PlacesStay(x)
      BY <1>1, <1>4, <3>1 DEF PlacesStay
    <3>3. QED BY <1>3, <2>1, <2>6, <2>7, <3>2, CallRests
  <2>10. QED BY <2>8, <2>9
<1>10. \A q \in Services : Owers(core[q])'
  BY <1>6, <1>8 DEF CallsInv
<1>11. ASSUME NEW q \in Services PROVE AtRest(q)'
  <2>1. CASE q = s
    <3>1. status'[q] # "stopped"
      BY <1>1, <1>3, <2>1
    <3>2. QED BY <3>1 DEF AtRest
  <2>2. CASE q # s
    <3>1. core'[q] = core[q] /\ status'[q] = status[q] /\ armed'[q] = armed[q]
      BY <1>1, <1>3, <1>6, <2>2
    <3>2. QED BY <3>1 DEF AtRest, Quiet, Busy, CallsInv
  <2>3. QED BY <2>1, <2>2
<1>12. \A x \in Call_ : CallInv(x)'
  BY <1>9
<1>13. QED BY <1>4, <1>10, <1>11, <1>12 DEF CallsInv

-----------------------------------------------------------------------------
(* The invariant of calls and answers is inductive *)

\* dispatch: an event is taken.
LEMMA DispatchCalls ==
  ASSUME CoreInv, CoreInv', CallsInv, Unlimited, NEW s \in Services, Dispatch(s)
  PROVE  CallsInv'
<1> DEFINE e == Head(inbox[s])
           rest == [inbox EXCEPT ![s] = Tail(@)]
<1>1. Quiet(s) /\ inbox[s] # <<>>
  BY DEF Dispatch
<1>2. \/ e.ev = "answer" /\ Answer(s, e) /\ inbox' = rest /\ UNCHANGED <<status, armed>>
      \/ e.ev \in {"call", "send"} /\ StartHandler(s, e) /\ UNCHANGED <<status, armed>>
      \/ /\ e.ev = "ping"
         /\ inbox' = Sent(rest, e.source, Event("answer", s, e.token))
         /\ UNCHANGED <<core, status, armed, dropped, cancelled, twice>>
      \/ e.ev = "close" /\ Close(s, e) /\ inbox' = rest /\ UNCHANGED <<status, armed>>
      \/ e.ev = "stop" /\ Stop(s) /\ inbox' = rest
  BY DEF Dispatch
<1>3. CASE e.ev = "answer" /\ Answer(s, e) /\ inbox' = rest /\ UNCHANGED <<status, armed>>
  BY <1>1, <1>3, AnswerCalls
<1>4. CASE e.ev = "call" /\ StartHandler(s, e) /\ UNCHANGED <<status, armed>>
  <2>1. CASE s \in Handles
    BY <1>1, <1>4, <2>1, StartCalls
  <2>2. CASE s \notin Handles
    BY <1>1, <1>4, <2>2, RefuseCalls
  <2>3. QED BY <2>1, <2>2
<1>5. CASE e.ev = "send" /\ StartHandler(s, e) /\ UNCHANGED <<status, armed>>
  <2>1. CASE s \in Handles
    BY <1>1, <1>5, <2>1, StartSends
  <2>2. CASE s \notin Handles
    BY <1>1, <1>5, <2>2, RefuseSends
  <2>3. QED BY <2>1, <2>2
<1>6. CASE /\ e.ev = "ping"
           /\ inbox' = Sent(rest, e.source, Event("answer", s, e.token))
           /\ UNCHANGED <<core, status, armed, dropped, cancelled, twice>>
  BY <1>1, <1>6, PingCalls
<1>7. CASE e.ev = "close" /\ Close(s, e) /\ inbox' = rest /\ UNCHANGED <<status, armed>>
  BY <1>1, <1>7, CloseCalls
<1>8. CASE e.ev = "stop" /\ Stop(s) /\ inbox' = rest
  BY <1>1, <1>8, StopCalls
<1>9. QED BY <1>2, <1>3, <1>4, <1>5, <1>6, <1>7, <1>8

\* Every service has just started: the answer to start is all that is on its way.
LEMMA InitCalls == Init => CallsInv
<1> SUFFICES ASSUME Init PROVE CallsInv
  OBVIOUS
<1> DEFINE e(s) == [ev |-> "answer", source |-> s, token |-> 1]
<1>1. /\ core = [s \in Services |-> Fresh] /\ inbox = [s \in Services |-> <<e(s)>>]
      /\ status = [s \in Services |-> "running"] /\ armed = [s \in Services |-> {}]
      /\ dropped = {} /\ cancelled = {}
  BY DEF Init
<1>2. /\ \A c \in Cos : Fresh.owed[c] = <<>>
      /\ Fresh.responses = {} /\ Fresh.uiToken = 1
      /\ \A t \in Tokens : Fresh.watching[t] = Nobody
      /\ \A t \in Tokens : t = 1 => Fresh.tokenTo[t] = 1
  BY DEF Fresh
<1>3. \A s \in Services : Len(inbox[s]) = 1 /\ inbox[s][1] = e(s) /\ 1..Len(inbox[s]) = {1}
  BY <1>1
<1>4. \A s \in Services : e(s).ev = "answer" /\ e(s).token = 1 /\ e(s).source = s
  OBVIOUS
<1> HIDE DEF e
<1>5. ASSUME NEW x \in Call_ PROVE CallInv(x)
  <2>1. x[1] \in Services /\ x[2] \in Tokens /\ x # <<>>
    BY CallPair
  <2>2. \A y \in Requests(x) : y.ev # "answer"
    BY DEF Requests, Event
  <2>3. \A q \in Services : ~Among(inbox[q], Requests(x)) /\ Once(inbox[q], Requests(x))
    BY <1>3, <1>4, <2>2 DEF Among, Once
  <2>4. Once(inbox[x[1]], Answers(x)) /\ (Among(inbox[x[1]], Answers(x)) => x[2] = 1)
    BY <1>3, <1>4, <2>1 DEF Among, Once, Answers
  <2>5. ~Among(inbox[x[1]], Strangers(x))
    BY <1>3, <1>4, <2>1 DEF Among, Strangers
  <2>6. \A k \in Places, q \in Services, c \in Cos0 : At(k, q, c, x) => k = "given" /\ q = x[1] /\ c = 0
    BY <1>1, <1>2, <2>1, <2>3 DEF At
  <2>7. OnePlace(x)
    <3>1. \A k, l \in Places, q, r \in Services, c, d \in Cos0 :
            At(k, q, c, x) /\ At(l, r, d, x) => k = l /\ q = r /\ c = d
      BY <2>6
    <3>2. QED BY <2>3, <2>4, <3>1 DEF OnePlace
  <2>8. Held(x) => x[2] = 1
    <3>1. ASSUME NEW k \in Places, NEW q \in Services, NEW c \in Cos0, At(k, q, c, x) PROVE x[2] = 1
      BY <2>4, <2>6, <3>1 DEF At
    <3>2. QED BY <3>1 DEF Held
  <2>9. ~Foreign(x)
    BY <1>1, <1>2, <2>1, <2>3, <2>5 DEF Foreign, At
  <2>10. Expected(x)
    <3>1. 1 \in Cos
      BY CosAssumption
    <3>2. QED BY <1>1, <1>2, <2>1, <2>8, <2>9, <3>1 DEF Expected
  <2>11. Kept(x)
    BY <1>1, <1>2, <2>1 DEF Kept, Waits
  <2>12. QED BY <2>7, <2>10, <2>11 DEF CallInv
<1>6. \A s \in Services : Owers(core[s]) /\ AtRest(s)
  BY <1>1, <1>2 DEF Owers, AtRest
<1>7. Ordered(inbox)
  <2>1. ASSUME NEW s \in Services
        PROVE  /\ StopLast(inbox[s]) /\ ~Among(inbox[s], Stops)
               /\ status[s] # "stopped"
    BY <1>1, <1>3, <1>4 DEF StopLast, Among, Stops
  <2>2. QED BY <2>1 DEF Ordered
<1>8. QED BY <1>5, <1>6, <1>7 DEF CallsInv

\* Nothing happens to any service.
LEMMA IdleCalls ==
  ASSUME CallsInv, UNCHANGED vars
  PROVE  CallsInv'
<1>1. /\ core' = core /\ inbox' = inbox /\ status' = status /\ armed' = armed
      /\ dropped' = dropped /\ cancelled' = cancelled
  BY DEF vars
<1>2. ASSUME NEW x \in Call_ PROVE CallInv(x)'
  <2>1. CallInv(x)
    BY DEF CallsInv
  <2>2. \A k, q, c : At(k, q, c, x)' <=> At(k, q, c, x)
    BY <1>1 DEF At
  <2>3. OnePlace(x)'
    BY <1>1, <2>1, <2>2 DEF CallInv, OnePlace
  <2>4. (Held(x)' <=> Held(x)) /\ (Foreign(x)' <=> Foreign(x))
    BY <1>1, <2>2 DEF Held, Foreign
  <2>5. Expected(x)'
    BY <1>1, <2>1, <2>4 DEF CallInv, Expected
  <2>6. Kept(x)'
    <3>1. (Waits(x[1], x[2])' <=> Waits(x[1], x[2])) /\ (GivenUp(x[1], x[2])' <=> GivenUp(x[1], x[2]))
      BY <1>1 DEF Waits, GivenUp
    <3>2. QED BY <1>1, <2>1, <2>4, <3>1 DEF CallInv, Kept
  <2>7. QED BY <2>3, <2>5, <2>6 DEF CallInv
<1>3. \A s \in Services : Owers(core[s])' /\ AtRest(s)'
  BY <1>1 DEF CallsInv, AtRest, Quiet, Busy
<1>4. Ordered(inbox)'
  BY <1>1 DEF CallsInv, Ordered
<1>5. QED BY <1>2, <1>3, <1>4 DEF CallsInv

\* One lemma for each action.
LEMMA NextCalls ==
  ASSUME Unlimited
  PROVE  CoreInv /\ CoreInv' /\ CallsInv /\ [Next]_vars => CallsInv'
<1> SUFFICES ASSUME CoreInv, CoreInv', CallsInv, [Next]_vars PROVE CallsInv'
  OBVIOUS
<1>1. CASE UNCHANGED vars
  BY <1>1, IdleCalls
<1>2. ASSUME NEW s \in Services, UserCode(s) PROVE CallsInv'
  <2>1. ASSUME NEW to \in Addresses, NEW kind \in {"call", "ping"}, Call(s, to, kind) PROVE CallsInv'
    BY <2>1, CallCalls
  <2>2. ASSUME NEW to \in Services, Send(s, to) PROVE CallsInv'
    BY <2>2, SendCalls
  <2>3. ASSUME NEW to \in Services, Redirect(s, to) PROVE CallsInv'
    BY <2>3, RedirectCalls
  <2>4. ASSUME NEW to \in Addresses, Term(s, to) PROVE CallsInv'
    BY <2>4, TermCalls
  <2>5. CASE Reply(s)
    BY <2>5, ReplyCalls
  <2>6. CASE ReplyClose(s)
    BY <2>6, ReplyCloseCalls
  <2>7. CASE GenResponse(s)
    BY <2>7, GenResponseCalls
  <2>8. ASSUME NEW r \in core[s].responses, NEW ok \in BOOLEAN, Respond(s, r, ok) PROVE CallsInv'
    <3>1. CASE ok = TRUE
      BY <2>8, <3>1, RespondReplies
    <3>2. CASE ok = FALSE
      BY <2>8, <3>2, RespondCloses
    <3>3. QED BY <3>1, <3>2
  <2>9. ASSUME NEW why \in {"sleep", "wait", "await"}, Sleep(s, why) PROVE CallsInv'
    BY <2>9, SleepCalls
  <2>10. ASSUME NEW c \in Cos, Wakeup(s, c) PROVE CallsInv'
    BY <2>10, WakeupCalls
  <2>11. CASE Async(s)
    BY <2>11, AsyncCalls
  <2>12. CASE Timeout(s)
    BY <2>12, TimeoutCalls
  <2>13. CASE Exit(s)
    BY <2>13, ExitCalls
  <2>14. CASE Return(s)
    BY <2>14, ReturnCalls
  <2>15. CASE Fail(s)
    BY <2>15, FailCalls
  <2>16. QED BY <1>2, <2>1, <2>2, <2>3, <2>4, <2>5, <2>6, <2>7, <2>8, <2>9, <2>10, <2>11, <2>12,
                <2>13, <2>14, <2>15 DEF UserCode
<1>3. ASSUME NEW s \in Services, ServiceRuns(s) PROVE CallsInv'
  <2>1. CASE Dispatch(s)
    BY <2>1, DispatchCalls
  <2>2. CASE RunAsync(s)
    BY <2>2, RunAsyncCalls
  <2>3. CASE Wake(s)
    BY <2>3, WakeCalls
  <2>4. CASE Cancel(s)
    BY <2>4, CancelCalls
  <2>5. QED BY <1>3, <1>2, <2>1, <2>2, <2>3, <2>4 DEF ServiceRuns
<1>4. ASSUME NEW s \in Services, NEW t \in Tokens, Fires(s, t) PROVE CallsInv'
  BY <1>4, FiresCalls
<1>5. QED BY <1>1, <1>3, <1>4 DEF Next

-----------------------------------------------------------------------------
(* What the invariant says of the sets of places *)

\* Nothing, or one thing.
LEMMA OneOrNone ==
  ASSUME NEW S, \A a, b \in S : a = b
  PROVE  /\ S = {} => Cardinality(S) = 0
         /\ S # {} => Cardinality(S) = 1
<1>1. S = {} => Cardinality(S) = 0
  BY FS_EmptySet
<1>2. ASSUME S # {} PROVE Cardinality(S) = 1
  <2>1. PICK a : a \in S
    BY <1>2
  <2>2. S = {a}
    BY <2>1
  <2>3. QED BY <2>2, FS_Singleton
<1>3. QED BY <1>1, <1>2

\* Whatever is in one of the sets is the call, in that place.
LEMMA PlacesSeen ==
  ASSUME TypeOK, NEW s \in Services, NEW t \in Tokens, NEW x \in Call_, x = <<s, t>>, CallInv(x)
  PROVE  /\ \A a, b \in Asked(s, t) : a = b
         /\ \A a, b \in Owed(s, t) : a = b
         /\ \A a, b \in Deferred(s, t) : a = b
         /\ \A a, b \in Given(s, t) : a = b
         /\ Asked(s, t) # {} <=> \E q \in Services : At("asked", q, 0, x)
         /\ Owed(s, t) # {} <=> \E q \in Services, c \in Cos : At("owed", q, c, x)
         /\ Deferred(s, t) # {} <=> \E q \in Services : At("deferred", q, 0, x)
         /\ Given(s, t) # {} <=> At("given", s, 0, x)
<1>0. x[1] = s /\ x[2] = t
  OBVIOUS
<1>1. /\ inbox \in [Services -> Seq(Events)] /\ \A q \in Services : DOMAIN inbox[q] = 1..Len(inbox[q])
  <2>1. inbox \in [Services -> Seq(Events)]
    BY DEF TypeOK
  <2>2. ASSUME NEW q \in Services PROVE DOMAIN inbox[q] = 1..Len(inbox[q])
    <3>1. inbox[q] \in Seq(Events)
      BY <2>1
    <3>2. QED BY <3>1
  <2>3. QED BY <2>1, <2>2
<1>2. /\ "asked" \in Places /\ "owed" \in Places /\ "deferred" \in Places /\ "given" \in Places
      /\ 0 \in Cos0 /\ \A c \in Cos : c \in Cos0
  BY DEF Places, Cos0
<1>3. /\ \A k, l \in Places, q, r \in Services, c, d \in Cos0 :
           At(k, q, c, x) /\ At(l, r, d, x) => k = l /\ q = r /\ c = d
      /\ \A q \in Services : Once(inbox[q], Requests(x))
      /\ Once(inbox[s], Answers(x))
  BY <1>0 DEF CallInv, OnePlace
<1>4. Requests(x) = {Event("call", s, t), Event("ping", s, t)}
  BY <1>0 DEF Requests
<1>a. \A p : p \in Asked(s, t) <=>
        \E q \in Services : \E i \in 1..Len(inbox[q]) : p = <<q, i>> /\ inbox[q][i] \in Requests(x)
  <2>1. ASSUME NEW p, p \in Asked(s, t)
        PROVE  \E q \in Services : \E i \in 1..Len(inbox[q]) : p = <<q, i>> /\ inbox[q][i] \in Requests(x)
    <3>1. /\ p \in UNION {{q} \X DOMAIN inbox[q] : q \in Services}
          /\ inbox[p[1]][p[2]] \in Requests(x)
      BY <1>4, <2>1 DEF Asked
    <3>2. PICK q \in Services : p \in {q} \X DOMAIN inbox[q]
      BY <3>1
    <3>3. p = <<q, p[2]>> /\ p[1] = q /\ p[2] \in 1..Len(inbox[q])
      BY <1>1, <3>2
    <3>4. QED BY <3>1, <3>3
  <2>2. ASSUME NEW q \in Services, NEW i \in 1..Len(inbox[q]), inbox[q][i] \in Requests(x)
        PROVE  <<q, i>> \in Asked(s, t)
    <3>1. <<q, i>> \in {q} \X DOMAIN inbox[q]
      BY <1>1
    <3>2. <<q, i>> \in UNION {{r} \X DOMAIN inbox[r] : r \in Services}
      BY <3>1
    <3>3. <<q, i>>[1] = q /\ <<q, i>>[2] = i
      OBVIOUS
    <3>4. QED BY <1>4, <2>2, <3>2, <3>3 DEF Asked
  <2>3. QED BY <2>1, <2>2
<1>5. \A a, b \in Asked(s, t) : a = b
  <2>1. SUFFICES ASSUME NEW a \in Asked(s, t), NEW b \in Asked(s, t) PROVE a = b
    OBVIOUS
  <2>a. PICK q \in Services : \E i \in 1..Len(inbox[q]) : a = <<q, i>> /\ inbox[q][i] \in Requests(x)
    BY <1>a
  <2>2. PICK i \in 1..Len(inbox[q]) : a = <<q, i>> /\ inbox[q][i] \in Requests(x)
    BY <2>a
  <2>b. PICK r \in Services : \E j \in 1..Len(inbox[r]) : b = <<r, j>> /\ inbox[r][j] \in Requests(x)
    BY <1>a
  <2>3. PICK j \in 1..Len(inbox[r]) : b = <<r, j>> /\ inbox[r][j] \in Requests(x)
    BY <2>b
  <2>4. At("asked", q, 0, x) /\ At("asked", r, 0, x)
    BY <2>2, <2>3 DEF At, Among
  <2>5. q = r
    BY <1>2, <1>3, <2>4
  <2>6. i = j
    BY <1>3, <2>2, <2>3, <2>5 DEF Once
  <2>7. QED BY <2>2, <2>3, <2>5, <2>6
<1>6. Asked(s, t) # {} <=> \E q \in Services : At("asked", q, 0, x)
  BY <1>a DEF At, Among
<1>b. \A p : p \in Owed(s, t) <=> \E q \in Services, c \in Cos : p = <<q, c>> /\ core[q].owed[c] = x
  BY DEF Owed
<1>7. \A a, b \in Owed(s, t) : a = b
  <2>1. SUFFICES ASSUME NEW a \in Owed(s, t), NEW b \in Owed(s, t) PROVE a = b
    OBVIOUS
  <2>2. PICK q \in Services, c \in Cos : a = <<q, c>> /\ core[q].owed[c] = x
    BY <1>b
  <2>3. PICK r \in Services, d \in Cos : b = <<r, d>> /\ core[r].owed[d] = x
    BY <1>b
  <2>4. At("owed", q, c, x) /\ At("owed", r, d, x)
    BY <2>2, <2>3 DEF At
  <2>5. q = r /\ c = d
    BY <1>2, <1>3, <2>4
  <2>6. QED BY <2>2, <2>3, <2>5
<1>8. Owed(s, t) # {} <=> \E q \in Services, c \in Cos : At("owed", q, c, x)
  BY <1>b DEF At
<1>9. \A a, b \in Deferred(s, t) : a = b
  <2>1. SUFFICES ASSUME NEW a \in Deferred(s, t), NEW b \in Deferred(s, t) PROVE a = b
    OBVIOUS
  <2>2. a \in Services /\ b \in Services /\ At("deferred", a, 0, x) /\ At("deferred", b, 0, x)
    BY DEF Deferred, At
  <2>3. QED BY <1>2, <1>3, <2>2
<1>10. Deferred(s, t) # {} <=> \E q \in Services : At("deferred", q, 0, x)
  BY DEF Deferred, At
<1>c. \A i : i \in Given(s, t) <=> i \in 1..Len(inbox[s]) /\ inbox[s][i] \in Answers(x)
  <2>1. \A i \in 1..Len(inbox[s]) : inbox[s][i] \in Events
    BY <1>1
  <2>2. QED BY <1>0, <1>1, <2>1 DEF Given, Answers
<1>11. \A a, b \in Given(s, t) : a = b
  BY <1>3, <1>c DEF Once
<1>12. Given(s, t) # {} <=> At("given", s, 0, x)
  BY <1>0, <1>c DEF At, Among
<1>13. QED BY <1>5, <1>6, <1>7, <1>8, <1>9, <1>10, <1>11, <1>12

\* The invariant is all that the property asks for.
LEMMA CallsMatch == CoreInv /\ CallsInv => AnswersMatchCalls
<1> SUFFICES ASSUME CoreInv, CallsInv PROVE AnswersMatchCalls
  OBVIOUS
<1>1. TypeOK
  BY DEF CoreInv
<1>2. ASSUME NEW s \in Services, NEW t \in Tokens, Waits(s, t)
      PROVE  LET places == Cardinality(Asked(s, t)) + Cardinality(Owed(s, t))
                            + Cardinality(Deferred(s, t)) + Cardinality(Given(s, t))
             IN  \/ places = 1
                 \/ places = 0 /\ (GivenUp(s, t) \/ <<s, t>> \in dropped)
  <2>1. PICK x \in Call_ : x = <<s, t>>
    BY DEF Call_
  <2>2. x[1] = s /\ x[2] = t /\ CallInv(x)
    BY <2>1 DEF CallsInv
  <2>3. /\ \A a, b \in Asked(s, t) : a = b
        /\ \A a, b \in Owed(s, t) : a = b
        /\ \A a, b \in Deferred(s, t) : a = b
        /\ \A a, b \in Given(s, t) : a = b
        /\ Asked(s, t) # {} <=> \E q \in Services : At("asked", q, 0, x)
        /\ Owed(s, t) # {} <=> \E q \in Services, c \in Cos : At("owed", q, c, x)
        /\ Deferred(s, t) # {} <=> \E q \in Services : At("deferred", q, 0, x)
        /\ Given(s, t) # {} <=> At("given", s, 0, x)
    BY <1>1, <2>1, <2>2, PlacesSeen
  <2>4. /\ Cardinality(Asked(s, t)) = IF Asked(s, t) = {} THEN 0 ELSE 1
        /\ Cardinality(Owed(s, t)) = IF Owed(s, t) = {} THEN 0 ELSE 1
        /\ Cardinality(Deferred(s, t)) = IF Deferred(s, t) = {} THEN 0 ELSE 1
        /\ Cardinality(Given(s, t)) = IF Given(s, t) = {} THEN 0 ELSE 1
    <3>1. \A S : (\A a, b \in S : a = b) => Cardinality(S) = IF S = {} THEN 0 ELSE 1
      BY OneOrNone
    <3>2. QED BY <2>3, <3>1
  <2>5. \A k, l \in Places, q, r \in Services, c, d \in Cos0 : At(k, q, c, x) /\ At(l, r, d, x) => k = l
    BY <2>2 DEF CallInv, OnePlace
  <2>6. /\ "asked" \in Places /\ "owed" \in Places /\ "deferred" \in Places /\ "given" \in Places
        /\ 0 \in Cos0 /\ \A c \in Cos : c \in Cos0
    BY DEF Places, Cos0
  <2>7. ~(t \in armed[s])
    BY <1>2, <2>2 DEF CallInv, Expected, Waits
  <2>8. Held(x) => Asked(s, t) # {} \/ Owed(s, t) # {} \/ Deferred(s, t) # {} \/ Given(s, t) # {}
    <3>1. ASSUME NEW k \in Places, NEW q \in Services, NEW c \in Cos0, At(k, q, c, x)
          PROVE  Asked(s, t) # {} \/ Owed(s, t) # {} \/ Deferred(s, t) # {} \/ Given(s, t) # {}
      <4>1. \/ k = "asked" /\ c = 0
            \/ k = "owed" /\ c \in Cos
            \/ k = "deferred" /\ c = 0
            \/ k = "given" /\ q = s /\ c = 0
        BY <2>2, <2>7, <3>1 DEF At
      <4>2. QED BY <2>3, <3>1, <4>1
    <3>2. QED BY <3>1 DEF Held
  <2>9. /\ Asked(s, t) # {} => Owed(s, t) = {} /\ Deferred(s, t) = {} /\ Given(s, t) = {}
        /\ Owed(s, t) # {} => Deferred(s, t) = {} /\ Given(s, t) = {}
        /\ Deferred(s, t) # {} => Given(s, t) = {}
    <3>1. Asked(s, t) # {} => \E q \in Services, c \in Cos0 : At("asked", q, c, x)
      BY <2>3, <2>6
    <3>2. Owed(s, t) # {} => \E q \in Services, c \in Cos0 : At("owed", q, c, x)
      BY <2>3, <2>6
    <3>3. Deferred(s, t) # {} => \E q \in Services, c \in Cos0 : At("deferred", q, c, x)
      BY <2>3, <2>6
    <3>4. Given(s, t) # {} => \E q \in Services, c \in Cos0 : At("given", q, c, x)
      BY <2>3, <2>6
    <3>5. \A k, l \in Places : (\E q \in Services, c \in Cos0 : At(k, q, c, x))
                               /\ (\E r \in Services, d \in Cos0 : At(l, r, d, x)) => k = l
      BY <2>5
    <3>6. /\ "asked" # "owed" /\ "asked" # "deferred" /\ "asked" # "given"
          /\ "owed" # "deferred" /\ "owed" # "given" /\ "deferred" # "given"
      OBVIOUS
    <3>7. QED BY <2>6, <3>1, <3>2, <3>3, <3>4, <3>5, <3>6
  <2>10. ~Held(x) => /\ Asked(s, t) = {} /\ Owed(s, t) = {} /\ Deferred(s, t) = {} /\ Given(s, t) = {}
                     /\ GivenUp(s, t) \/ <<s, t>> \in dropped
    <3>1. ~Held(x) => GivenUp(s, t) \/ <<s, t>> \in dropped
      BY <1>2, <2>1, <2>2 DEF CallInv, Kept
    <3>2. QED BY <2>3, <2>6, <3>1 DEF Held
  <2>11. QED BY <2>4, <2>8, <2>9, <2>10
<1>3. ASSUME NEW s \in Services, NEW i \in DOMAIN inbox[s], inbox[s][i].ev = "answer"
      PROVE  core[s].tokenTo[inbox[s][i].token] \in Cos \/ <<s, inbox[s][i].token>> \in cancelled
  <2> DEFINE t == inbox[s][i].token
  <2>1. inbox[s] \in Seq(Events)
    BY <1>1 DEF TypeOK
  <2>2. i \in 1..Len(inbox[s]) /\ inbox[s][i] \in Events
    BY <2>1
  <2>3. t \in Tokens
    BY <1>3, <2>2 DEF Events
  <2>4. PICK x \in Call_ : x = <<s, t>>
    BY <2>3 DEF Call_
  <2>5. x[1] = s /\ x[2] = t
    BY <2>4
  <2>6. Among(inbox[s], Answers(x))
    BY <1>3, <2>2, <2>5 DEF Among, Answers
  <2>7. Held(x)
    <3>1. At("given", s, 0, x) /\ "given" \in Places /\ 0 \in Cos0
      BY <2>5, <2>6 DEF At, Places, Cos0
    <3>2. QED BY <3>1 DEF Held
  <2>8. status[s] # "stopped"
    <3>1. inbox[s] # <<>>
      BY <2>2
    <3>2. QED BY <3>1 DEF CallsInv, Ordered
  <2>9. QED BY <2>4, <2>5, <2>7, <2>8 DEF CallsInv, CallInv, Expected
<1>4. QED BY <1>2, <1>3 DEF AnswersMatchCalls

\* Calls and answers correspond.  A call that waits is in one place only on its way
\* through the request, the coroutine or the response that owes the reply, and the
\* reply, so that it has one answer at most; it is in none of them only when it is about
\* to be cancelled, or when its callee forgot it or closed it in vain (a redirected call,
\* a call by the callee's name).  And an answer finds the coroutine that
\* waits for it, although sleeps are broken and timers stopped while their events are
\* queued, unless its call was cancelled.  (yield_call_f, replyBuf, genResponse,
\* redirectCallBuf, close_dispatch_f, exit, unknown_reply_f, unknown_dispatch_f)
THEOREM AnswersMatch ==
  ASSUME Unlimited
  PROVE  Spec => []AnswersMatchCalls
<1>1. Init => CoreInv /\ CallsInv
  BY InitServes, InitCalls
<1>2. CoreInv /\ CallsInv /\ [Next]_vars => (CoreInv /\ CallsInv)'
  BY NextServes, NextCalls
<1>3. CoreInv /\ CallsInv => AnswersMatchCalls
  BY CallsMatch
<1>4. QED BY <1>1, <1>2, <1>3, PTL DEF Spec
=============================================================================
