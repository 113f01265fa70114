---------------------------- MODULE CenterProofs ----------------------------
(***************************************************************************)
(* The two centers and what they stand on.                                 *)
(*                                                                         *)
(* SlotTable: popping, pushing and growing keep every slot either free     *)
(* once or taken, for every capacity.                                      *)
(*                                                                         *)
(* SpinLocks: the rwlock that makes each operation of a center one step,   *)
(* and the spin lock, exclude what they should, for every finite set of    *)
(* threads.                                                                *)
(*                                                                         *)
(* ChannelCenter: it finds the channels it holds and no stale ID, for      *)
(* every number of channels, every capacity and every length of the        *)
(* sequence.                                                               *)
(*                                                                         *)
(* ServiceCenter: for every number of services, threads and names and      *)
(* every capacity the slots stay partitioned, the ID of a running service  *)
(* leads back to it, nothing that can be reached has been freed, and a     *)
(* name leads to the service it was bound to.                              *)
(***************************************************************************)
EXTENDS ServiceCenter, ChannelCenter, SpinLocks, FiniteSetTheorems, FunctionTheorems,
        SequenceTheorems, TLAPS

-----------------------------------------------------------------------------
(* Slots and the stack of free ones.                                       *)

Contents == Handles \cup {NULL, Garbage}

LEMMA GrownIsLarger ==
  ASSUME NEW size \in InitialCapacity..MaxCapacity, size < MaxCapacity
  PROVE  /\ Grown(size) \in InitialCapacity..MaxCapacity
         /\ size < Grown(size)
BY CapacitiesAreOrdered DEF Grown

(***************************************************************************)
(* register: the cells on top of the stack is empty, and taking it keeps    *)
(* the table partitioned.                                                  *)
(***************************************************************************)
LEMMA PopKeepsPartition ==
  ASSUME NEW size \in Nat,
         NEW cells \in [0..(size - 1) -> Contents],
         NEW frees \in Seq(0..(size - 1)), frees # <<>>,
         Partitioned(cells, frees, size),
         NEW h \in Handles
  PROVE  /\ Top(frees) \in 0..(size - 1)
         /\ cells[Top(frees)] \notin Handles
         /\ Pop(frees) \in Seq(0..(size - 1))
         /\ [cells EXCEPT ![Top(frees)] = h] \in [0..(size - 1) -> Contents]
         /\ Partitioned([cells EXCEPT ![Top(frees)] = h], Pop(frees), size)
<1> DEFINE n == Len(frees)
<1>1. n \in Nat /\ n >= 1 /\ n \in 1..n
  OBVIOUS
<1>2. Top(frees) \in 0..(size - 1) /\ Top(frees) \in OnStack(frees)
  BY <1>1 DEF Top, OnStack
<1>3. cells[Top(frees)] \notin Handles
  BY <1>2 DEF Partitioned
<1>4. /\ Pop(frees) \in Seq(0..(size - 1))
      /\ Len(Pop(frees)) = n - 1
      /\ \A i \in 1..(n - 1) : Pop(frees)[i] = frees[i]
  <2>1. 1 \in Int /\ n - 1 \in Int /\ \A i \in 1..(n - 1) : frees[i] \in 0..(size - 1)
    BY <1>1
  <2> HIDE DEF n
  <2>2. /\ SubSeq(frees, 1, n - 1) \in Seq(0..(size - 1))
        /\ Len(SubSeq(frees, 1, n - 1)) = IF 1 <= n - 1 THEN (n - 1) - 1 + 1 ELSE 0
        /\ \A i \in 1..((n - 1) - 1 + 1) : SubSeq(frees, 1, n - 1)[i] = frees[1 + i - 1]
    BY <2>1, SubSeqProperties
  <2>3. Pop(frees) = SubSeq(frees, 1, n - 1)
    BY DEF Pop, n
  <2>4. (n - 1) - 1 + 1 = n - 1 /\ \A i \in 1..(n - 1) : 1 + i - 1 = i
    BY <1>1
  <2> QED BY <1>1, <2>2, <2>3, <2>4
<1>5. OnStack(Pop(frees)) = OnStack(frees) \ {Top(frees)}
  <2>1. ASSUME NEW x \in OnStack(Pop(frees)) PROVE x \in OnStack(frees) /\ x # Top(frees)
    <3>1. PICK i \in 1..(n - 1) : x = frees[i]
      BY <1>4 DEF OnStack
    <3>2. i \in 1..n /\ i # n
      BY <1>1
    <3> QED BY <3>1, <3>2, <1>1 DEF OnStack, Top, Partitioned
  <2>2. ASSUME NEW x \in OnStack(frees), x # Top(frees) PROVE x \in OnStack(Pop(frees))
    <3>1. PICK i \in 1..n : x = frees[i]
      BY DEF OnStack
    <3>2. i \in 1..(n - 1)
      BY <1>1, <3>1, <2>2 DEF Top
    <3> QED BY <3>1, <3>2, <1>4 DEF OnStack
  <2> QED BY <2>1, <2>2
<1>6. ASSUME NEW i \in 1..Len(Pop(frees)), NEW j \in 1..Len(Pop(frees)),
             Pop(frees)[i] = Pop(frees)[j]
      PROVE  i = j
  <2>1. i \in 1..(n - 1) /\ j \in 1..(n - 1)
    BY <1>4
  <2>2. frees[i] = frees[j]
    BY <2>1, <1>4, <1>6
  <2>3. i \in 1..n /\ j \in 1..n
    BY <2>1, <1>1
  <2> QED BY <2>2, <2>3 DEF Partitioned
<1>7. [cells EXCEPT ![Top(frees)] = h] \in [0..(size - 1) -> Contents]
  BY DEF Contents
<1>8. ASSUME NEW i \in 0..(size - 1)
      PROVE  [cells EXCEPT ![Top(frees)] = h][i] \in Handles <=> i \notin OnStack(Pop(frees))
  <2>1. CASE i = Top(frees)
    BY <2>1, <1>5
  <2>2. CASE i # Top(frees)
    BY <2>2, <1>5 DEF Partitioned
  <2> QED BY <2>1, <2>2
<1> QED BY <1>2, <1>3, <1>4, <1>6, <1>7, <1>8 DEF Partitioned

(***************************************************************************)
(* deregister: pushing the index of the cells that is emptied.              *)
(***************************************************************************)
LEMMA PushKeepsPartition ==
  ASSUME NEW size \in Nat,
         NEW cells \in [0..(size - 1) -> Contents],
         NEW frees \in Seq(0..(size - 1)),
         Partitioned(cells, frees, size),
         NEW k \in 0..(size - 1), cells[k] \in Handles
  PROVE  /\ Append(frees, k) \in Seq(0..(size - 1))
         /\ [cells EXCEPT ![k] = NULL] \in [0..(size - 1) -> Contents]
         /\ Partitioned([cells EXCEPT ![k] = NULL], Append(frees, k), size)
<1> DEFINE n == Len(frees)
           s == [cells EXCEPT ![k] = NULL]
           f == Append(frees, k)
<1>1. /\ n \in Nat
      /\ f \in Seq(0..(size - 1))
      /\ Len(f) = n + 1
      /\ f[n + 1] = k
      /\ \A i \in 1..n : f[i] = frees[i]
  OBVIOUS
<1>2. k \notin OnStack(frees)
  BY DEF Partitioned
<1>3. OnStack(f) = OnStack(frees) \cup {k}
  <2>1. \A x \in OnStack(f) : x \in OnStack(frees) \cup {k}
    <3> SUFFICES ASSUME NEW i \in 1..(n + 1) PROVE f[i] \in OnStack(frees) \cup {k}
      BY <1>1 DEF OnStack
    <3>1. i = n + 1 \/ i \in 1..n
      BY <1>1
    <3> QED BY <3>1, <1>1 DEF OnStack
  <2>2. ASSUME NEW i \in 1..n PROVE frees[i] \in OnStack(f)
    <3>1. i \in 1..Len(f) /\ f[i] = frees[i]
      BY <1>1
    <3> QED BY <3>1 DEF OnStack
  <2>3. k \in OnStack(f)
    <3>1. n + 1 \in 1..Len(f)
      BY <1>1
    <3> QED BY <3>1, <1>1 DEF OnStack
  <2>4. \A x \in OnStack(frees) : x \in OnStack(f)
    BY <2>2 DEF OnStack
  <2> QED BY <2>1, <2>3, <2>4
<1>4. ASSUME NEW i \in 1..Len(f), NEW j \in 1..Len(f), f[i] = f[j] PROVE i = j
  <2>1. (i = n + 1 \/ i \in 1..n) /\ (j = n + 1 \/ j \in 1..n)
    BY <1>1
  <2>2. CASE i \in 1..n /\ j \in 1..n
    BY <2>2, <1>1, <1>4 DEF Partitioned
  <2>3. CASE i = n + 1 /\ j \in 1..n
    BY <2>3, <1>1, <1>2, <1>4 DEF OnStack
  <2>4. CASE i \in 1..n /\ j = n + 1
    BY <2>4, <1>1, <1>2, <1>4 DEF OnStack
  <2> QED BY <2>1, <2>2, <2>3, <2>4
<1>5. s \in [0..(size - 1) -> Contents]
  BY DEF Contents
<1>6. ASSUME NEW i \in 0..(size - 1)
      PROVE  s[i] \in Handles <=> i \notin OnStack(f)
  <2>1. CASE i = k
    BY <2>1, <1>3, MarksAreNoHandles
  <2>2. CASE i # k
    BY <2>2, <1>3 DEF Partitioned
  <2> QED BY <2>1, <2>2
<1> QED BY <1>1, <1>4, <1>5, <1>6 DEF Partitioned

(***************************************************************************)
(* growing: with every old cells taken, the stack of the new ones.          *)
(***************************************************************************)
LEMMA GrowthKeepsPartition ==
  ASSUME NEW size \in InitialCapacity..MaxCapacity, size < MaxCapacity,
         NEW cells \in [0..(size - 1) -> Contents],
         Partitioned(cells, <<>>, size),
         NEW fill \in [Added(size) -> {NULL, Garbage}]
  PROVE  LET s == Enlarged(cells, size, fill)
             f == FreeStack(size, Grown(size))
         IN  /\ f \in Seq(0..(Grown(size) - 1))
             /\ f # <<>>
             /\ s \in [0..(Grown(size) - 1) -> Contents]
             /\ Partitioned(s, f, Grown(size))
<1> DEFINE s == Enlarged(cells, size, fill)
           g == Grown(size)
           f == FreeStack(size, g)
<1>1. size \in Nat /\ g \in Nat /\ size < g /\ g - size \in Nat \ {0}
  BY GrownIsLarger, CapacitiesAreOrdered
<1> HIDE DEF g
<1>2. /\ f \in Seq(0..(g - 1))
      /\ Len(f) = g - size
      /\ \A i \in 1..(g - size) : f[i] = g - i
  <2>1. \A i \in 1..(g - size) : g - i \in 0..(g - 1)
    BY <1>1
  <2>2. f = [i \in 1..(g - size) |-> g - i]
    BY DEF FreeStack
  <2> HIDE DEF f
  <2>3. f \in [1..(g - size) -> 0..(g - 1)]
    BY <2>1, <2>2
  <2> QED BY <1>1, <2>2, <2>3
<1>3. f # <<>>
  BY <1>1, <1>2
<1>4. OnStack(f) = size..(g - 1)
  <2>1. \A x \in OnStack(f) : x \in size..(g - 1)
    BY <1>1, <1>2, SMTT(30) DEF OnStack
  <2>2. ASSUME NEW x \in size..(g - 1) PROVE x \in OnStack(f)
    <3>1. g - x \in 1..(g - size) /\ g - (g - x) = x
      BY <1>1
    <3> QED BY <3>1, <1>2 DEF OnStack
  <2> QED BY <2>1, <2>2
<1>5. \A i, j \in 1..Len(f) : f[i] = f[j] => i = j
  BY <1>1, <1>2
<1>6. s = [i \in 0..(g - 1) |-> IF i < size THEN cells[i] ELSE fill[i]]
  BY DEF Enlarged, g
<1>7. s \in [0..(g - 1) -> Contents]
  <2> SUFFICES ASSUME NEW i \in 0..(g - 1)
               PROVE (IF i < size THEN cells[i] ELSE fill[i]) \in Contents
    BY <1>6
  <2>1. CASE i < size
    <3>1. i \in 0..(size - 1)
      BY <2>1, <1>1
    <3> QED BY <2>1, <3>1
  <2>2. CASE ~(i < size)
    <3>1. i \in Added(size)
      BY <2>2, <1>1 DEF Added, g
    <3> QED BY <2>2, <3>1 DEF Contents
  <2> QED BY <2>1, <2>2
<1>8. ASSUME NEW i \in 0..(g - 1) PROVE s[i] \in Handles <=> i \notin OnStack(f)
  <2>1. CASE i < size
    <3>1. i \in 0..(size - 1)
      BY <2>1, <1>1
    <3>2. cells[i] \in Handles
      BY <3>1 DEF Partitioned, OnStack
    <3> QED BY <2>1, <3>1, <3>2, <1>1, <1>4, <1>6
  <2>2. CASE ~(i < size)
    <3>1. i \in Added(size) /\ i \in size..(g - 1)
      BY <2>2, <1>1 DEF Added, g
    <3>2. s[i] = fill[i]
      BY <2>2, <1>6
    <3> QED BY <3>1, <3>2, <1>4, MarksAreNoHandles
  <2> QED BY <2>1, <2>2
<1> QED BY <1>2, <1>3, <1>5, <1>7, <1>8 DEF Partitioned, g

-----------------------------------------------------------------------------
(* The locks.                                                              *)

LEMMA Bits ==
  ASSUME NEW r \in Nat, NEW u \in 0..1, NEW w \in 0..1
  PROVE  LET b == 4 * r + 2 * u + w
         IN  /\ Writing(b) <=> w = 1
             /\ Upgrading(b) <=> u = 1
             /\ Neither(b) = 4 * r
             /\ WithUpgraded(b) = 4 * r + 2 + w
<1> DEFINE b == 4 * r + 2 * u + w
<1>1. b % 2 = w
  OBVIOUS
<1>2. b \div 2 = 2 * r + u
  OBVIOUS
<1>3. (2 * r + u) % 2 = u
  OBVIOUS
<1>4. b \div 4 = r
  OBVIOUS
<1>5. (b \div 4) * 4 = 4 * r
  BY <1>4
<1>6. u = 0 \/ u = 1
  OBVIOUS
<1>7. Writing(b) <=> w = 1
  BY <1>1 DEF Writing
<1>8. Upgrading(b) <=> u = 1
  BY <1>2, <1>3 DEF Upgrading
<1>9. WithUpgraded(b) = 4 * r + 2 + w
  BY <1>6, <1>8 DEF WithUpgraded, RW_UPGRADED
<1> QED BY <1>5, <1>7, <1>8, <1>9 DEF Neither

Writers == {"write", "write to read", "write to upgrade"}
Counting == {"read", "backing out", "write to read"}
Exclusive == Writers \cup {"upgrade"}
States == Counting \cup Exclusive \cup {"nothing"}

Readers == {t \in Lockers : holds[t] \in Counting}

\* What the three parts of iBits say: u is the upgrader's bit, which a failed try
\* may have set while a writer holds the lock, and w the writer's.
BitsInv(u, w) ==
  /\ iBits = 4 * Cardinality(Readers) + 2 * u + w
  /\ w = 1 <=> \E t \in Lockers : holds[t] \in Writers
  /\ \A t \in Lockers : holds[t] \in {"upgrade", "write to upgrade"} => u = 1
  /\ u = 1 => \E t \in Lockers : holds[t] \in Exclusive

AloneInv ==
  /\ \A s, t \in Lockers : holds[s] \in Exclusive /\ holds[t] \in Exclusive => s = t
  /\ \A s, t \in Lockers : holds[s] \in Writers => holds[t] # "read"

RwInv == /\ holds \in [Lockers -> States]
         /\ \E u, w \in 0..1 : BitsInv(u, w)
         /\ AloneInv

SpinInv == /\ flag \in BOOLEAN /\ owner \subseteq Lockers
           /\ \A s, t \in owner : s = t
           /\ flag <=> owner # {}

LEMMA ReadersAreFinite == IsFiniteSet(Readers) /\ Cardinality(Readers) \in Nat
<1>1. Readers \in SUBSET Lockers
  BY DEF Readers
<1> QED BY <1>1, LockersAreFinite, FS_Subset, FS_CardinalityType

\* How a thread's step changes the number of readers.
LEMMA ReadersMove ==
  ASSUME holds \in [Lockers -> States], NEW t \in Lockers, NEW to \in States,
         holds' = [holds EXCEPT ![t] = to]
  PROVE  /\ holds[t] \notin Counting /\ to \in Counting => Cardinality(Readers') = Cardinality(Readers) + 1
         /\ holds[t] \in Counting /\ to \notin Counting => Cardinality(Readers') = Cardinality(Readers) - 1
         /\ (holds[t] \in Counting <=> to \in Counting) => Cardinality(Readers') = Cardinality(Readers)
<1>1. \A s \in Lockers : holds'[s] = IF s = t THEN to ELSE holds[s]
  OBVIOUS
<1>2. ASSUME holds[t] \notin Counting, to \in Counting
      PROVE  Cardinality(Readers') = Cardinality(Readers) + 1
  <2>1. Readers' = Readers \cup {t} /\ t \notin Readers
    BY <1>1, <1>2 DEF Readers
  <2> QED BY <2>1, ReadersAreFinite, FS_AddElement
<1>3. ASSUME holds[t] \in Counting, to \notin Counting
      PROVE  Cardinality(Readers') = Cardinality(Readers) - 1
  <2>1. Readers' = Readers \ {t} /\ t \in Readers
    BY <1>1, <1>3 DEF Readers
  <2> QED BY <2>1, ReadersAreFinite, FS_RemoveElement
<1>4. ASSUME holds[t] \in Counting <=> to \in Counting
      PROVE  Cardinality(Readers') = Cardinality(Readers)
  <2>1. Readers' = Readers
    BY <1>1, <1>4 DEF Readers
  <2> QED BY <2>1
<1> QED BY <1>2, <1>3, <1>4

LEMMA InitRw == LockInit => RwInv
<1> SUFFICES ASSUME LockInit PROVE RwInv
  OBVIOUS
<1>1. holds \in [Lockers -> States] /\ AloneInv
  BY DEF LockInit, States, AloneInv, Exclusive, Writers
<1>2. Cardinality(Readers) = 0
  <2>1. Readers = {}
    BY DEF LockInit, Readers, Counting
  <2> QED BY <2>1, FS_EmptySet
<1>3. BitsInv(0, 0)
  BY <1>2 DEF LockInit, BitsInv, Writers, Exclusive
<1> QED BY <1>1, <1>3 DEF RwInv

LEMMA RwNext ==
  ASSUME RwInv, NEW t \in Lockers,
         \/ TryRdLock(t) \/ BackOut(t) \/ RdUnlock(t)
         \/ TryWrLock(t) \/ WrUnlock(t)
         \/ WrUnlockRdLock(t) \/ WrUnlockRdLockEnds(t)
         \/ TryUpLock(t) \/ UpUnlock(t) \/ UpUnlockWrLock(t) \/ UpUnlockRdLock(t)
         \/ WrUnlockUpLock(t) \/ WrUnlockUpLockEnds(t)
  PROVE  RwInv'
<1>1. PICK u \in 0..1, w \in 0..1 : BitsInv(u, w)
  BY DEF RwInv
<1>2. PICK r \in Nat : r = Cardinality(Readers)
  BY ReadersAreFinite
<1>3. iBits = 4 * r + 2 * u + w
  BY <1>1, <1>2 DEF BitsInv
<1>4. PICK zero \in 0..1, one \in 0..1 : zero = 0 /\ one = 1
  OBVIOUS
<1>5. /\ Writing(iBits) <=> w = one
      /\ Upgrading(iBits) <=> u = one
  BY <1>3, <1>4, Bits
<1>6. /\ Neither(iBits) = 4 * r
      /\ WithUpgraded(iBits) = 4 * r + 2 + w
  BY <1>3, Bits
<1>7. /\ w = one <=> \E s \in Lockers : holds[s] \in Writers
      /\ \A s \in Lockers : holds[s] \in {"upgrade", "write to upgrade"} => u = one
      /\ u = one => \E s \in Lockers : holds[s] \in Exclusive
  BY <1>1, <1>4 DEF BitsInv
<1>8. /\ \A a, b \in Lockers : holds[a] \in Exclusive /\ holds[b] \in Exclusive => a = b
      /\ \A a, b \in Lockers : holds[a] \in Writers => holds[b] # "read"
  BY DEF RwInv, AloneInv
<1>9. holds \in [Lockers -> States] /\ zero # one /\ (u = zero \/ u = one) /\ (w = zero \/ w = one)
  BY <1>4 DEF RwInv
\* The form of every step: one thread moves, and iBits keeps telling the truth.
<1>10. ASSUME NEW to \in States, holds' = [holds EXCEPT ![t] = to],
              NEW u1 \in 0..1, NEW w1 \in 0..1,
              iBits' = 4 * Cardinality(Readers') + 2 * u1 + w1,
              w1 = one <=> \E s \in Lockers : holds'[s] \in Writers,
              \A s \in Lockers : holds'[s] \in {"upgrade", "write to upgrade"} => u1 = one,
              u1 = one => \E s \in Lockers : holds'[s] \in Exclusive,
              AloneInv'
       PROVE  RwInv'
  <2>1. holds' \in [Lockers -> States]
    BY <1>9, <1>10
  <2>2. BitsInv(u1, w1)'
    BY <1>4, <1>10 DEF BitsInv
  <2> QED BY <1>10, <2>1, <2>2 DEF RwInv
<1>11. ASSUME NEW to \in States, holds' = [holds EXCEPT ![t] = to]
       PROVE  /\ \A s \in Lockers : holds'[s] = IF s = t THEN to ELSE holds[s]
              /\ holds[t] \notin Counting /\ to \in Counting => Cardinality(Readers') = r + 1
              /\ holds[t] \in Counting /\ to \notin Counting => Cardinality(Readers') = r - 1
              /\ (holds[t] \in Counting <=> to \in Counting) => Cardinality(Readers') = r
  <2>1. \A s \in Lockers : holds'[s] = IF s = t THEN to ELSE holds[s]
    BY <1>9, <1>11
  <2> QED BY <1>2, <1>9, <1>11, <2>1, ReadersMove
<1> USE DEF Atomically
<1>12. CASE TryRdLock(t)
  <2>1. CASE w = one \/ u = one
    <3>1. holds[t] = "nothing" /\ holds' = [holds EXCEPT ![t] = "backing out"] /\ "backing out" \in States
      BY <1>12, <2>1, <1>5 DEF TryRdLock, States, Counting, Exclusive, Writers
    <3>2. /\ \A s \in Lockers : holds'[s] = IF s = t THEN "backing out" ELSE holds[s]
          /\ Cardinality(Readers') = r + 1
      BY <1>11, <3>1 DEF Counting
    <3>3. iBits' = 4 * Cardinality(Readers') + 2 * u + w
      <4>1. iBits' = iBits + 4
        BY <1>12, <2>1 DEF TryRdLock, RW_WRITER, RW_READER, RW_UPGRADED
      <4>2. Cardinality(Readers') = r + 1
        BY <3>2
      <4>3. 4 * Cardinality(Readers') = 4 * r + 4
        BY <4>2
      <4> QED BY <1>3, <1>4, <4>1, <4>3
    <3>4. /\ w = one <=> \E s \in Lockers : holds'[s] \in Writers
          /\ \A s \in Lockers : holds'[s] \in {"upgrade", "write to upgrade"} => u = one
          /\ u = one => \E s \in Lockers : holds'[s] \in Exclusive
      BY <1>12, <2>1, <1>7, <1>8, <1>9, <3>1, <3>2 DEF Exclusive, Writers
    <3>5. AloneInv'
      BY <1>12, <2>1, <1>7, <1>8, <1>9, <3>1, <3>2 DEF AloneInv, Exclusive, Writers
    <3> QED BY <1>10, <3>1, <3>3, <3>4, <3>5
  <2>2. CASE ~(w = one \/ u = one)
    <3>1. holds[t] = "nothing" /\ holds' = [holds EXCEPT ![t] = "read"] /\ "read" \in States
      BY <1>12, <2>2, <1>5 DEF TryRdLock, States, Counting, Exclusive, Writers
    <3>2. /\ \A s \in Lockers : holds'[s] = IF s = t THEN "read" ELSE holds[s]
          /\ Cardinality(Readers') = r + 1
      BY <1>11, <3>1 DEF Counting
    <3>3. iBits' = 4 * Cardinality(Readers') + 2 * u + w
      <4>1. iBits' = iBits + 4
        BY <1>12, <2>2 DEF TryRdLock, RW_WRITER, RW_READER, RW_UPGRADED
      <4>2. Cardinality(Readers') = r + 1
        BY <3>2
      <4>3. 4 * Cardinality(Readers') = 4 * r + 4
        BY <4>2
      <4> QED BY <1>3, <1>4, <4>1, <4>3
    <3>4. /\ w = one <=> \E s \in Lockers : holds'[s] \in Writers
          /\ \A s \in Lockers : holds'[s] \in {"upgrade", "write to upgrade"} => u = one
          /\ u = one => \E s \in Lockers : holds'[s] \in Exclusive
      BY <1>12, <2>2, <1>7, <1>8, <1>9, <3>1, <3>2 DEF Exclusive, Writers
    <3>5. AloneInv'
      BY <1>12, <2>2, <1>7, <1>8, <1>9, <3>1, <3>2 DEF AloneInv, Exclusive, Writers
    <3> QED BY <1>10, <3>1, <3>3, <3>4, <3>5
  <2> QED BY <2>1, <2>2
<1>13. CASE BackOut(t)
  <2>1. holds[t] = "backing out" /\ holds' = [holds EXCEPT ![t] = "nothing"] /\ "nothing" \in States
    BY <1>13, <1>5 DEF BackOut, States, Counting, Exclusive, Writers
  <2>2. /\ \A s \in Lockers : holds'[s] = IF s = t THEN "nothing" ELSE holds[s]
        /\ Cardinality(Readers') = r - 1
    BY <1>11, <2>1 DEF Counting
  <2>3. iBits' = 4 * Cardinality(Readers') + 2 * u + w
    <3>1. iBits' = iBits - 4
      BY <1>13 DEF BackOut, RW_WRITER, RW_READER, RW_UPGRADED
    <3>2. Cardinality(Readers') = r - 1
      BY <2>2
    <3>3. 4 * Cardinality(Readers') = 4 * r - 4
      BY <3>2
    <3> QED BY <1>3, <1>4, <3>1, <3>3
  <2>4. /\ w = one <=> \E s \in Lockers : holds'[s] \in Writers
        /\ \A s \in Lockers : holds'[s] \in {"upgrade", "write to upgrade"} => u = one
        /\ u = one => \E s \in Lockers : holds'[s] \in Exclusive
    BY <1>13, <1>7, <1>8, <1>9, <2>1, <2>2 DEF Exclusive, Writers
  <2>5. AloneInv'
    BY <1>13, <1>7, <1>8, <1>9, <2>1, <2>2 DEF AloneInv, Exclusive, Writers
  <2> QED BY <1>10, <2>1, <2>3, <2>4, <2>5
<1>14. CASE RdUnlock(t)
  <2>1. holds[t] = "read" /\ holds' = [holds EXCEPT ![t] = "nothing"] /\ "nothing" \in States
    BY <1>14, <1>5 DEF RdUnlock, States, Counting, Exclusive, Writers
  <2>2. /\ \A s \in Lockers : holds'[s] = IF s = t THEN "nothing" ELSE holds[s]
        /\ Cardinality(Readers') = r - 1
    BY <1>11, <2>1 DEF Counting
  <2>3. iBits' = 4 * Cardinality(Readers') + 2 * u + w
    <3>1. iBits' = iBits - 4
      BY <1>14 DEF RdUnlock, RW_WRITER, RW_READER, RW_UPGRADED
    <3>2. Cardinality(Readers') = r - 1
      BY <2>2
    <3>3. 4 * Cardinality(Readers') = 4 * r - 4
      BY <3>2
    <3> QED BY <1>3, <1>4, <3>1, <3>3
  <2>4. /\ w = one <=> \E s \in Lockers : holds'[s] \in Writers
        /\ \A s \in Lockers : holds'[s] \in {"upgrade", "write to upgrade"} => u = one
        /\ u = one => \E s \in Lockers : holds'[s] \in Exclusive
    BY <1>14, <1>7, <1>8, <1>9, <2>1, <2>2 DEF Exclusive, Writers
  <2>5. AloneInv'
    BY <1>14, <1>7, <1>8, <1>9, <2>1, <2>2 DEF AloneInv, Exclusive, Writers
  <2> QED BY <1>10, <2>1, <2>3, <2>4, <2>5
<1>15. CASE TryWrLock(t)
  <2>1. holds[t] = "nothing" /\ holds' = [holds EXCEPT ![t] = "write"] /\ "write" \in States
    BY <1>15, <1>5 DEF TryWrLock, States, Counting, Exclusive, Writers
  <2>2. /\ \A s \in Lockers : holds'[s] = IF s = t THEN "write" ELSE holds[s]
        /\ Cardinality(Readers') = r
    BY <1>11, <2>1 DEF Counting
  <2>3. r = 0 /\ w = zero /\ u = zero
    BY <1>15, <1>3, <1>4, <1>9 DEF TryWrLock, RW_UPGRADED
  <2>4. \A s \in Lockers : holds[s] # "read"
    BY <1>2, <2>3, ReadersAreFinite, FS_EmptySet DEF Readers, Counting
  <2>5. iBits' = 4 * Cardinality(Readers') + 2 * zero + one
    <3>1. iBits' = 1
      BY <1>15 DEF TryWrLock, RW_WRITER, RW_READER, RW_UPGRADED
    <3>2. Cardinality(Readers') = r
      BY <2>2
    <3>3. 4 * Cardinality(Readers') = 4 * r
      BY <3>2
    <3> QED BY <2>3, <1>3, <1>4, <3>1, <3>3
  <2>6. /\ one = one <=> \E s \in Lockers : holds'[s] \in Writers
        /\ \A s \in Lockers : holds'[s] \in {"upgrade", "write to upgrade"} => zero = one
        /\ zero = one => \E s \in Lockers : holds'[s] \in Exclusive
    BY <1>15, <2>3, <2>4, <1>7, <1>8, <1>9, <2>1, <2>2 DEF Exclusive, Writers
  <2>7. AloneInv'
    BY <1>15, <2>3, <2>4, <1>7, <1>8, <1>9, <2>1, <2>2 DEF AloneInv, Exclusive, Writers
  <2> QED BY <1>10, <2>1, <2>5, <2>6, <2>7
<1>16. CASE WrUnlock(t)
  <2>1. holds[t] = "write" /\ holds' = [holds EXCEPT ![t] = "nothing"] /\ "nothing" \in States
    BY <1>16, <1>5 DEF WrUnlock, States, Counting, Exclusive, Writers
  <2>2. /\ \A s \in Lockers : holds'[s] = IF s = t THEN "nothing" ELSE holds[s]
        /\ Cardinality(Readers') = r
    BY <1>11, <2>1 DEF Counting
  <2>3. iBits' = 4 * Cardinality(Readers') + 2 * zero + zero
    <3>1. iBits' = Neither(iBits)
      BY <1>16 DEF WrUnlock, RW_WRITER, RW_READER, RW_UPGRADED
    <3>2. Cardinality(Readers') = r
      BY <2>2
    <3>3. 4 * Cardinality(Readers') = 4 * r
      BY <3>2
    <3> QED BY <1>3, <1>4, <1>6, <3>1, <3>3
  <2>4. /\ zero = one <=> \E s \in Lockers : holds'[s] \in Writers
        /\ \A s \in Lockers : holds'[s] \in {"upgrade", "write to upgrade"} => zero = one
        /\ zero = one => \E s \in Lockers : holds'[s] \in Exclusive
    BY <1>16, <1>7, <1>8, <1>9, <2>1, <2>2 DEF Exclusive, Writers
  <2>5. AloneInv'
    BY <1>16, <1>7, <1>8, <1>9, <2>1, <2>2 DEF AloneInv, Exclusive, Writers
  <2> QED BY <1>10, <2>1, <2>3, <2>4, <2>5
<1>17. CASE WrUnlockRdLock(t)
  <2>1. holds[t] = "write" /\ holds' = [holds EXCEPT ![t] = "write to read"] /\ "write to read" \in States
    BY <1>17, <1>5 DEF WrUnlockRdLock, States, Counting, Exclusive, Writers
  <2>2. /\ \A s \in Lockers : holds'[s] = IF s = t THEN "write to read" ELSE holds[s]
        /\ Cardinality(Readers') = r + 1
    BY <1>11, <2>1 DEF Counting
  <2>3. iBits' = 4 * Cardinality(Readers') + 2 * u + w
    <3>1. iBits' = iBits + 4
      BY <1>17 DEF WrUnlockRdLock, RW_WRITER, RW_READER, RW_UPGRADED
    <3>2. Cardinality(Readers') = r + 1
      BY <2>2
    <3>3. 4 * Cardinality(Readers') = 4 * r + 4
      BY <3>2
    <3> QED BY <1>3, <1>4, <3>1, <3>3
  <2>4. /\ w = one <=> \E s \in Lockers : holds'[s] \in Writers
        /\ \A s \in Lockers : holds'[s] \in {"upgrade", "write to upgrade"} => u = one
        /\ u = one => \E s \in Lockers : holds'[s] \in Exclusive
    BY <1>17, <1>7, <1>8, <1>9, <2>1, <2>2 DEF Exclusive, Writers
  <2>5. AloneInv'
    BY <1>17, <1>7, <1>8, <1>9, <2>1, <2>2 DEF AloneInv, Exclusive, Writers
  <2> QED BY <1>10, <2>1, <2>3, <2>4, <2>5
<1>18. CASE WrUnlockRdLockEnds(t)
  <2>1. holds[t] = "write to read" /\ holds' = [holds EXCEPT ![t] = "read"] /\ "read" \in States
    BY <1>18, <1>5 DEF WrUnlockRdLockEnds, States, Counting, Exclusive, Writers
  <2>2. /\ \A s \in Lockers : holds'[s] = IF s = t THEN "read" ELSE holds[s]
        /\ Cardinality(Readers') = r
    BY <1>11, <2>1 DEF Counting
  <2>3. iBits' = 4 * Cardinality(Readers') + 2 * zero + zero
    <3>1. iBits' = Neither(iBits)
      BY <1>18 DEF WrUnlockRdLockEnds, RW_WRITER, RW_READER, RW_UPGRADED
    <3>2. Cardinality(Readers') = r
      BY <2>2
    <3>3. 4 * Cardinality(Readers') = 4 * r
      BY <3>2
    <3> QED BY <1>3, <1>4, <1>6, <3>1, <3>3
  <2>4. /\ zero = one <=> \E s \in Lockers : holds'[s] \in Writers
        /\ \A s \in Lockers : holds'[s] \in {"upgrade", "write to upgrade"} => zero = one
        /\ zero = one => \E s \in Lockers : holds'[s] \in Exclusive
    BY <1>18, <1>7, <1>8, <1>9, <2>1, <2>2 DEF Exclusive, Writers
  <2>5. AloneInv'
    BY <1>18, <1>7, <1>8, <1>9, <2>1, <2>2 DEF AloneInv, Exclusive, Writers
  <2> QED BY <1>10, <2>1, <2>3, <2>4, <2>5
<1>19. CASE TryUpLock(t)
  <2>1. CASE w = one \/ u = one
    <3>1. holds[t] = "nothing" /\ holds' = [holds EXCEPT ![t] = "nothing"] /\ "nothing" \in States
      BY <1>19, <2>1, <1>5 DEF TryUpLock, States, Counting, Exclusive, Writers
    <3>2. /\ \A s \in Lockers : holds'[s] = IF s = t THEN "nothing" ELSE holds[s]
          /\ Cardinality(Readers') = r
      BY <1>11, <3>1 DEF Counting
    <3>3. iBits' = 4 * Cardinality(Readers') + 2 * one + w
      <4>1. iBits' = WithUpgraded(iBits)
        BY <1>19, <2>1 DEF TryUpLock, RW_WRITER, RW_READER, RW_UPGRADED
      <4>2. Cardinality(Readers') = r
        BY <3>2
      <4>3. 4 * Cardinality(Readers') = 4 * r
        BY <4>2
      <4> QED BY <1>3, <1>4, <1>6, <4>1, <4>3
    <3>4. /\ w = one <=> \E s \in Lockers : holds'[s] \in Writers
          /\ \A s \in Lockers : holds'[s] \in {"upgrade", "write to upgrade"} => one = one
          /\ one = one => \E s \in Lockers : holds'[s] \in Exclusive
      BY <1>19, <2>1, <1>7, <1>8, <1>9, <3>1, <3>2 DEF Exclusive, Writers
    <3>5. AloneInv'
      BY <1>19, <2>1, <1>7, <1>8, <1>9, <3>1, <3>2 DEF AloneInv, Exclusive, Writers
    <3> QED BY <1>10, <3>1, <3>3, <3>4, <3>5
  <2>2. CASE ~(w = one \/ u = one)
    <3>1. holds[t] = "nothing" /\ holds' = [holds EXCEPT ![t] = "upgrade"] /\ "upgrade" \in States
      BY <1>19, <2>2, <1>5 DEF TryUpLock, States, Counting, Exclusive, Writers
    <3>2. /\ \A s \in Lockers : holds'[s] = IF s = t THEN "upgrade" ELSE holds[s]
          /\ Cardinality(Readers') = r
      BY <1>11, <3>1 DEF Counting
    <3>3. iBits' = 4 * Cardinality(Readers') + 2 * one + w
      <4>1. iBits' = WithUpgraded(iBits)
        BY <1>19, <2>2 DEF TryUpLock, RW_WRITER, RW_READER, RW_UPGRADED
      <4>2. Cardinality(Readers') = r
        BY <3>2
      <4>3. 4 * Cardinality(Readers') = 4 * r
        BY <4>2
      <4> QED BY <1>3, <1>4, <1>6, <4>1, <4>3
    <3>4. /\ w = one <=> \E s \in Lockers : holds'[s] \in Writers
          /\ \A s \in Lockers : holds'[s] \in {"upgrade", "write to upgrade"} => one = one
          /\ one = one => \E s \in Lockers : holds'[s] \in Exclusive
      BY <1>19, <2>2, <1>7, <1>8, <1>9, <3>1, <3>2 DEF Exclusive, Writers
    <3>5. AloneInv'
      BY <1>19, <2>2, <1>7, <1>8, <1>9, <3>1, <3>2 DEF AloneInv, Exclusive, Writers
    <3> QED BY <1>10, <3>1, <3>3, <3>4, <3>5
  <2> QED BY <2>1, <2>2
<1>20. CASE UpUnlock(t)
  <2>1. holds[t] = "upgrade" /\ holds' = [holds EXCEPT ![t] = "nothing"] /\ "nothing" \in States
    BY <1>20, <1>5 DEF UpUnlock, States, Counting, Exclusive, Writers
  <2>2. /\ \A s \in Lockers : holds'[s] = IF s = t THEN "nothing" ELSE holds[s]
        /\ Cardinality(Readers') = r
    BY <1>11, <2>1 DEF Counting
  <2>3. u = one
    BY <1>7, <2>1 DEF Writers
  <2>4. iBits' = 4 * Cardinality(Readers') + 2 * zero + w
    <3>1. iBits' = iBits - 2
      BY <1>20 DEF UpUnlock, RW_WRITER, RW_READER, RW_UPGRADED
    <3>2. Cardinality(Readers') = r
      BY <2>2
    <3>3. 4 * Cardinality(Readers') = 4 * r
      BY <3>2
    <3> QED BY <2>3, <1>3, <1>4, <3>1, <3>3
  <2>5. /\ w = one <=> \E s \in Lockers : holds'[s] \in Writers
        /\ \A s \in Lockers : holds'[s] \in {"upgrade", "write to upgrade"} => zero = one
        /\ zero = one => \E s \in Lockers : holds'[s] \in Exclusive
    BY <1>20, <2>3, <1>7, <1>8, <1>9, <2>1, <2>2 DEF Exclusive, Writers
  <2>6. AloneInv'
    BY <1>20, <2>3, <1>7, <1>8, <1>9, <2>1, <2>2 DEF AloneInv, Exclusive, Writers
  <2> QED BY <1>10, <2>1, <2>4, <2>5, <2>6
<1>21. CASE UpUnlockWrLock(t)
  <2>1. holds[t] = "upgrade" /\ holds' = [holds EXCEPT ![t] = "write"] /\ "write" \in States
    BY <1>21, <1>5 DEF UpUnlockWrLock, States, Counting, Exclusive, Writers
  <2>2. /\ \A s \in Lockers : holds'[s] = IF s = t THEN "write" ELSE holds[s]
        /\ Cardinality(Readers') = r
    BY <1>11, <2>1 DEF Counting
  <2>3. r = 0 /\ w = zero /\ u = one
    BY <1>21, <1>3, <1>4, <1>9 DEF UpUnlockWrLock, RW_UPGRADED
  <2>4. \A s \in Lockers : holds[s] # "read"
    BY <1>2, <2>3, ReadersAreFinite, FS_EmptySet DEF Readers, Counting
  <2>5. iBits' = 4 * Cardinality(Readers') + 2 * zero + one
    <3>1. iBits' = 1
      BY <1>21 DEF UpUnlockWrLock, RW_WRITER, RW_READER, RW_UPGRADED
    <3>2. Cardinality(Readers') = r
      BY <2>2
    <3>3. 4 * Cardinality(Readers') = 4 * r
      BY <3>2
    <3> QED BY <2>3, <1>3, <1>4, <3>1, <3>3
  <2>6. /\ one = one <=> \E s \in Lockers : holds'[s] \in Writers
        /\ \A s \in Lockers : holds'[s] \in {"upgrade", "write to upgrade"} => zero = one
        /\ zero = one => \E s \in Lockers : holds'[s] \in Exclusive
    BY <1>21, <2>3, <2>4, <1>7, <1>8, <1>9, <2>1, <2>2 DEF Exclusive, Writers
  <2>7. AloneInv'
    BY <1>21, <2>3, <2>4, <1>7, <1>8, <1>9, <2>1, <2>2 DEF AloneInv, Exclusive, Writers
  <2> QED BY <1>10, <2>1, <2>5, <2>6, <2>7
<1>22. CASE UpUnlockRdLock(t)
  <2>1. holds[t] = "upgrade" /\ holds' = [holds EXCEPT ![t] = "read"] /\ "read" \in States
    BY <1>22, <1>5 DEF UpUnlockRdLock, States, Counting, Exclusive, Writers
  <2>2. /\ \A s \in Lockers : holds'[s] = IF s = t THEN "read" ELSE holds[s]
        /\ Cardinality(Readers') = r + 1
    BY <1>11, <2>1 DEF Counting
  <2>3. u = one
    BY <1>7, <2>1 DEF Writers
  <2>4. iBits' = 4 * Cardinality(Readers') + 2 * zero + w
    <3>1. iBits' = iBits + 4 - 2
      BY <1>22 DEF UpUnlockRdLock, RW_WRITER, RW_READER, RW_UPGRADED
    <3>2. Cardinality(Readers') = r + 1
      BY <2>2
    <3>3. 4 * Cardinality(Readers') = 4 * r + 4
      BY <3>2
    <3> QED BY <2>3, <1>3, <1>4, <3>1, <3>3
  <2>5. /\ w = one <=> \E s \in Lockers : holds'[s] \in Writers
        /\ \A s \in Lockers : holds'[s] \in {"upgrade", "write to upgrade"} => zero = one
        /\ zero = one => \E s \in Lockers : holds'[s] \in Exclusive
    BY <1>22, <2>3, <1>7, <1>8, <1>9, <2>1, <2>2 DEF Exclusive, Writers
  <2>6. AloneInv'
    BY <1>22, <2>3, <1>7, <1>8, <1>9, <2>1, <2>2 DEF AloneInv, Exclusive, Writers
  <2> QED BY <1>10, <2>1, <2>4, <2>5, <2>6
<1>23. CASE WrUnlockUpLock(t)
  <2>1. holds[t] = "write" /\ holds' = [holds EXCEPT ![t] = "write to upgrade"] /\ "write to upgrade" \in States
    BY <1>23, <1>5 DEF WrUnlockUpLock, States, Counting, Exclusive, Writers
  <2>2. /\ \A s \in Lockers : holds'[s] = IF s = t THEN "write to upgrade" ELSE holds[s]
        /\ Cardinality(Readers') = r
    BY <1>11, <2>1 DEF Counting
  <2>3. iBits' = 4 * Cardinality(Readers') + 2 * one + w
    <3>1. iBits' = WithUpgraded(iBits)
      BY <1>23 DEF WrUnlockUpLock, RW_WRITER, RW_READER, RW_UPGRADED
    <3>2. Cardinality(Readers') = r
      BY <2>2
    <3>3. 4 * Cardinality(Readers') = 4 * r
      BY <3>2
    <3> QED BY <1>3, <1>4, <1>6, <3>1, <3>3
  <2>4. /\ w = one <=> \E s \in Lockers : holds'[s] \in Writers
        /\ \A s \in Lockers : holds'[s] \in {"upgrade", "write to upgrade"} => one = one
        /\ one = one => \E s \in Lockers : holds'[s] \in Exclusive
    BY <1>23, <1>7, <1>8, <1>9, <2>1, <2>2 DEF Exclusive, Writers
  <2>5. AloneInv'
    BY <1>23, <1>7, <1>8, <1>9, <2>1, <2>2 DEF AloneInv, Exclusive, Writers
  <2> QED BY <1>10, <2>1, <2>3, <2>4, <2>5
<1>24. CASE WrUnlockUpLockEnds(t)
  <2>1. holds[t] = "write to upgrade" /\ holds' = [holds EXCEPT ![t] = "upgrade"] /\ "upgrade" \in States
    BY <1>24, <1>5 DEF WrUnlockUpLockEnds, States, Counting, Exclusive, Writers
  <2>2. /\ \A s \in Lockers : holds'[s] = IF s = t THEN "upgrade" ELSE holds[s]
        /\ Cardinality(Readers') = r
    BY <1>11, <2>1 DEF Counting
  <2>3. u = one /\ w = one
    BY <1>7, <2>1 DEF Writers
  <2>4. iBits' = 4 * Cardinality(Readers') + 2 * one + zero
    <3>1. iBits' = iBits - 1
      BY <1>24 DEF WrUnlockUpLockEnds, RW_WRITER, RW_READER, RW_UPGRADED
    <3>2. Cardinality(Readers') = r
      BY <2>2
    <3>3. 4 * Cardinality(Readers') = 4 * r
      BY <3>2
    <3> QED BY <2>3, <1>3, <1>4, <3>1, <3>3
  <2>5. /\ zero = one <=> \E s \in Lockers : holds'[s] \in Writers
        /\ \A s \in Lockers : holds'[s] \in {"upgrade", "write to upgrade"} => one = one
        /\ one = one => \E s \in Lockers : holds'[s] \in Exclusive
    BY <1>24, <2>3, <1>7, <1>8, <1>9, <2>1, <2>2 DEF Exclusive, Writers
  <2>6. AloneInv'
    BY <1>24, <2>3, <1>7, <1>8, <1>9, <2>1, <2>2 DEF AloneInv, Exclusive, Writers
  <2> QED BY <1>10, <2>1, <2>4, <2>5, <2>6
<1> QED BY <1>12, <1>13, <1>14, <1>15, <1>16, <1>17, <1>18, <1>19, <1>20, <1>21, <1>22, <1>23, <1>24

LEMMA SpinNext ==
  ASSUME SpinInv, NEW t \in Lockers, TestAndSet(t) \/ SpinUnlock(t)
  PROVE  SpinInv'
<1>1. CASE TestAndSet(t)
  <2>1. flag' = TRUE /\ owner' = IF flag THEN owner ELSE owner \cup {t}
    BY <1>1 DEF TestAndSet
  <2> QED BY <2>1 DEF SpinInv
<1>2. CASE SpinUnlock(t)
  <2>1. flag' = FALSE /\ owner' = {}
    BY <1>2 DEF SpinUnlock, SpinInv
  <2> QED BY <2>1 DEF SpinInv
<1> QED BY <1>1, <1>2

LEMMA LockInvariant == LockSpec => [](RwInv /\ SpinInv)
<1>1. LockInit => RwInv /\ SpinInv
  BY InitRw DEF LockInit, SpinInv
<1>2. RwInv /\ SpinInv /\ [LockNext]_lockVars => (RwInv /\ SpinInv)'
  <2> SUFFICES ASSUME RwInv, SpinInv, [LockNext]_lockVars PROVE (RwInv /\ SpinInv)'
    OBVIOUS
  <2>1. ASSUME UNCHANGED rwVars PROVE RwInv'
    BY <2>1 DEF RwInv, BitsInv, AloneInv, Readers, rwVars
  <2>2. ASSUME UNCHANGED spinVars PROVE SpinInv'
    BY <2>2 DEF SpinInv, spinVars
  <2>3. CASE UNCHANGED lockVars
    BY <2>1, <2>2, <2>3 DEF lockVars, rwVars, spinVars
  <2>4. ASSUME NEW t \in Lockers, TestAndSet(t) \/ SpinUnlock(t) PROVE (RwInv /\ SpinInv)'
    <3>1. UNCHANGED rwVars
      BY <2>4 DEF TestAndSet, SpinUnlock
    <3> QED BY <2>1, <2>4, <3>1, SpinNext
  <2>5. ASSUME NEW t \in Lockers,
               \/ TryRdLock(t) \/ BackOut(t) \/ RdUnlock(t)
               \/ TryWrLock(t) \/ WrUnlock(t)
               \/ WrUnlockRdLock(t) \/ WrUnlockRdLockEnds(t)
               \/ TryUpLock(t) \/ UpUnlock(t) \/ UpUnlockWrLock(t) \/ UpUnlockRdLock(t)
               \/ WrUnlockUpLock(t) \/ WrUnlockUpLockEnds(t)
        PROVE  (RwInv /\ SpinInv)'
    <3>1. UNCHANGED spinVars
      BY <2>5, Zenon DEF TryRdLock, BackOut, RdUnlock, TryWrLock, WrUnlock, WrUnlockRdLock,
        WrUnlockRdLockEnds, TryUpLock, UpUnlock, UpUnlockWrLock, UpUnlockRdLock,
        WrUnlockUpLock, WrUnlockUpLockEnds, Atomically
    <3> QED BY <2>2, <2>5, <3>1, RwNext
  <2> QED BY <2>3, <2>4, <2>5, Zenon DEF LockNext
<1> QED BY <1>1, <1>2, PTL DEF LockSpec

LEMMA AtMostOne ==
  ASSUME NEW S, \A s, t \in S : s = t
  PROVE  Cardinality(S) <= 1
<1>1. CASE S = {}
  BY <1>1, FS_EmptySet
<1>2. CASE S # {}
  <2>1. PICK s \in S : S = {s}
    BY <1>2
  <2>2. Cardinality({s}) = 1
    BY FS_Singleton
  <2> QED BY <2>1, <2>2
<1> QED BY <1>1, <1>2

(***************************************************************************)
(* The bits of rwSpinLock_t.h keep writers and upgraders apart and readers *)
(* out, whatever tries fail meanwhile, and spinLock_t.h lets one in.       *)
(***************************************************************************)
THEOREM LocksWork == LockSpec => []LocksExclude
<1>1. RwInv /\ SpinInv => LocksExclude
  <2> SUFFICES ASSUME RwInv, SpinInv PROVE LocksExclude
    OBVIOUS
  <2> DEFINE writers == Holding(Writers)
             upgraders == Holding({"upgrade"})
  <2>1. Cardinality(writers \cup upgraders) <= 1
    <3>1. \A s, t \in writers \cup upgraders : s = t
      BY DEF Holding, RwInv, AloneInv, Exclusive
    <3> QED BY <3>1, AtMostOne
  <2>2. writers # {} => Holding({"read"}) = {}
    BY DEF Holding, RwInv, AloneInv
  <2>3. ASSUME Holding({"nothing"}) = Lockers PROVE iBits = 0
    <3>1. \A t \in Lockers : holds[t] = "nothing"
      BY <2>3 DEF Holding
    <3>2. Readers = {}
      BY <3>1 DEF Readers, Counting
    <3>3. Cardinality(Readers) = 0
      BY <3>2, FS_EmptySet
    <3>4. PICK u \in 0..1, w \in 0..1 : BitsInv(u, w)
      BY DEF RwInv
    <3>5. w # 1 /\ u # 1
      BY <3>1, <3>4 DEF BitsInv, Writers, Exclusive
    <3>6. u = 0 /\ w = 0
      BY <3>5
    <3>7. iBits = 4 * Cardinality(Readers) + 2 * u + w
      BY <3>4 DEF BitsInv
    <3> QED BY <3>3, <3>6, <3>7
  <2>4. Cardinality(owner) <= 1 /\ (flag <=> owner # {})
    BY AtMostOne DEF SpinInv
  <2> QED BY <2>1, <2>2, <2>3, <2>4 DEF LocksExclude, Writers
<1> QED BY <1>1, LockInvariant, PTL

-----------------------------------------------------------------------------
(* The channel center.                                                     *)

Sequences == 1..(MaxSequence - 1)

ChannelIDs == (1..MaxCapacity) \X Sequences

CenterTypeOK ==
  /\ s_pChannelCenter \in BOOLEAN
  /\ slotCapacity \in InitialCapacity..MaxCapacity
  /\ slots \in [0..(slotCapacity - 1) -> Channels \cup {NULL}]
  /\ stack \in Seq(0..(slotCapacity - 1))
  /\ iSequence \in Sequences
  /\ uiID \in [Channels -> ChannelIDs \cup {NoID}]
  /\ life \in [Channels -> {"none", "nameless", "named"}]
  /\ assigned \in [Channels -> ChannelIDs \cup {NoID}]
  /\ granted \in Seq(ChannelIDs)
  /\ turn \in [Channels -> Nat]

\* The last IDs given out carry the numbers before iSequence, round the corner at 1.
Recent ==
  \A i \in 1..Len(granted) :
    LET d == Len(granted) + 1 - i
    IN  d < MaxSequence - 1 =>
          granted[i][2] = IF d < iSequence THEN iSequence - d ELSE iSequence - d + (MaxSequence - 1)

\* The same number is not given out again before all others were.
Apart ==
  \A i, j \in 1..Len(granted) :
    i < j /\ granted[i][2] = granted[j][2] => j - i >= MaxSequence - 1

\* Until the center is cleared, a slot, what the registration returned and the
\* channel's own ID agree.
Placed ==
  s_pChannelCenter =>
    /\ \A i \in 0..(slotCapacity - 1) : slots[i] # NULL =>
         /\ life[slots[i]] # "none"
         /\ assigned[slots[i]] # NoID /\ assigned[slots[i]][1] = i + 1
    /\ \A c \in Channels : life[c] # "none" /\ assigned[c] # NoID =>
         /\ assigned[c][1] <= slotCapacity /\ slots[assigned[c][1] - 1] = c
         /\ turn[c] \in 1..Len(granted) /\ granted[turn[c]] = assigned[c]
    /\ \A c \in Channels : life[c] = "named" => uiID[c] = assigned[c]

CenterInv ==
  /\ CenterTypeOK /\ Recent /\ Apart /\ Placed
  /\ Partitioned(slots, stack, slotCapacity)

USE DEF Channels

LEMMA IDParts ==
  /\ \A id \in ChannelIDs : id # NoID /\ id[1] \in 1..MaxCapacity /\ id[2] \in Sequences
  /\ NoID[1] = 0
  /\ \A k \in 1..MaxCapacity, s \in Sequences : <<k, s>> \in ChannelIDs
BY DEF ChannelIDs, NoID

LEMMA InitCenter == CenterInit => CenterInv
<1> SUFFICES ASSUME CenterInit PROVE CenterInv
  OBVIOUS
<1>1. /\ slotCapacity = InitialCapacity /\ slotCapacity \in Nat /\ slotCapacity >= 1
      /\ slots = [i \in 0..(slotCapacity - 1) |-> NULL]
      /\ stack = FreeStack(0, slotCapacity)
  BY CapacitiesAreOrdered DEF CenterInit
<1>2. /\ stack = [i \in 1..slotCapacity |-> slotCapacity - i]
      /\ \A i \in 1..slotCapacity : slotCapacity - i \in 0..(slotCapacity - 1)
  BY <1>1 DEF FreeStack
<1>3. stack \in Seq(0..(slotCapacity - 1)) /\ Len(stack) = slotCapacity
  BY <1>1, <1>2
<1>4. Partitioned(slots, stack, slotCapacity)
  <2>1. \A i, j \in 1..Len(stack) : stack[i] = stack[j] => i = j
    BY <1>1, <1>2, <1>3
  <2>2. ASSUME NEW i \in 0..(slotCapacity - 1) PROVE i \in OnStack(stack)
    <3>1. slotCapacity - i \in 1..slotCapacity /\ slotCapacity - (slotCapacity - i) = i
      BY <1>1
    <3> QED BY <3>1, <1>2, <1>3 DEF OnStack
  <2> QED BY <1>1, <2>1, <2>2, MarksAreNoHandles DEF Partitioned
<1>5. CenterTypeOK
  <2>1. /\ slotCapacity \in InitialCapacity..MaxCapacity
        /\ slots \in [0..(slotCapacity - 1) -> Channels \cup {NULL}]
    BY <1>1, CapacitiesAreOrdered
  <2>2. iSequence \in Sequences
    BY SequenceAssumption DEF CenterInit, Sequences
  <2>3. /\ uiID \in [Channels -> ChannelIDs \cup {NoID}]
        /\ assigned \in [Channels -> ChannelIDs \cup {NoID}]
        /\ life \in [Channels -> {"none", "nameless", "named"}]
        /\ turn \in [Channels -> Nat]
    BY DEF CenterInit
  <2>4. granted \in Seq(ChannelIDs)
    BY DEF CenterInit
  <2>5. s_pChannelCenter \in BOOLEAN
    BY Zenon DEF CenterInit
  <2> QED BY <1>3, <2>1, <2>2, <2>3, <2>4, <2>5 DEF CenterTypeOK
<1>6. Recent /\ Apart
  BY DEF CenterInit, Recent, Apart
<1>7. Placed
  BY <1>1 DEF CenterInit, Placed
<1> QED BY <1>4, <1>5, <1>6, <1>7 DEF CenterInv

\* What the numbers do when one is given out.
LEMMA NumberGiven ==
  ASSUME CenterTypeOK, Recent, Apart, NEW k \in 1..MaxCapacity,
         granted' = Append(granted, <<k, iSequence>>),
         iSequence' = NextSequence(iSequence)
  PROVE  /\ granted' \in Seq(ChannelIDs) /\ Len(granted') = Len(granted) + 1
         /\ granted'[Len(granted) + 1] = <<k, iSequence>>
         /\ \A i \in 1..Len(granted) : granted'[i] = granted[i]
         /\ iSequence' \in Sequences /\ Recent' /\ Apart'
<1> DEFINE P == MaxSequence - 1
<1>1. MaxSequence \in Nat /\ P \in Nat /\ P >= 1 /\ Len(granted) \in Nat
  BY SequenceAssumption DEF CenterTypeOK
<1>2. iSequence \in 1..P
  BY DEF CenterTypeOK, Sequences
<1>3. /\ granted' \in Seq(ChannelIDs) /\ Len(granted') = Len(granted) + 1
      /\ granted'[Len(granted) + 1] = <<k, iSequence>>
      /\ \A i \in 1..Len(granted) : granted'[i] = granted[i]
  <2>1. <<k, iSequence>> \in ChannelIDs /\ granted \in Seq(ChannelIDs)
    BY IDParts DEF CenterTypeOK
  <2> QED BY <2>1
<1>4. iSequence' = IF iSequence = P THEN 1 ELSE iSequence + 1
  BY <1>1, <1>2 DEF NextSequence
<1>5. iSequence' \in 1..P
  BY <1>1, <1>2, <1>4
<1>6. \A i \in 1..Len(granted) : granted[i][2] \in 1..P
  <2>1. \A i \in 1..Len(granted) : granted[i] \in ChannelIDs
    BY DEF CenterTypeOK
  <2> QED BY <2>1, IDParts DEF Sequences
<1>7. \A i \in 1..Len(granted) :
        Len(granted) + 1 - i < P =>
          granted[i][2] = IF Len(granted) + 1 - i < iSequence THEN iSequence - (Len(granted) + 1 - i)
                         ELSE iSequence - (Len(granted) + 1 - i) + P
  BY DEF Recent
<1> HIDE DEF P
<1>8. ASSUME NEW i \in 1..(Len(granted) + 1), Len(granted) + 2 - i < P
      PROVE  granted'[i][2] = IF Len(granted) + 2 - i < iSequence'
                             THEN iSequence' - (Len(granted) + 2 - i)
                             ELSE iSequence' - (Len(granted) + 2 - i) + P
  <2>1. CASE i = Len(granted) + 1
    <3>1. granted'[i][2] = iSequence /\ Len(granted) + 2 - i = 1
      BY <1>1, <1>3, <2>1
    <3> QED BY <1>1, <1>2, <1>4, <1>8, <3>1
  <2>2. CASE i # Len(granted) + 1
    <3>1. i \in 1..Len(granted) /\ Len(granted) + 1 - i < P /\ granted'[i] = granted[i]
      BY <1>1, <1>3, <1>8, <2>2
    <3>2. PICK d \in Nat : d = Len(granted) + 1 - i
      BY <1>1, <3>1
    <3>3. granted'[i][2] = IF d < iSequence THEN iSequence - d ELSE iSequence - d + P
      BY <1>7, <3>1, <3>2
    <3>4. Len(granted) + 2 - i = d + 1 /\ d >= 1 /\ d + 1 < P
      BY <1>1, <1>8, <3>1, <3>2
    <3>5. granted'[i][2] = IF d + 1 < iSequence' THEN iSequence' - (d + 1) ELSE iSequence' - (d + 1) + P
      <4>1. CASE iSequence = P
        <5>1. iSequence' = 1 /\ d < iSequence /\ ~(d + 1 < iSequence')
          BY <1>1, <1>4, <3>4, <4>1
        <5>2. granted'[i][2] = P - d
          BY <3>3, <4>1, <5>1
        <5>3. 1 - (d + 1) + P = P - d
          BY <1>1
        <5> QED BY <5>1, <5>2, <5>3
      <4>2. CASE iSequence # P
        <5>1. iSequence' = iSequence + 1 /\ iSequence \in Nat
          BY <1>1, <1>2, <1>4, <4>2
        <5>2. (iSequence + 1) - (d + 1) = iSequence - d /\ (d + 1 < iSequence + 1 <=> d < iSequence)
          BY <5>1
        <5> QED BY <3>3, <5>1, <5>2
      <4> QED BY <4>1, <4>2
    <3> QED BY <3>4, <3>5
  <2> QED BY <2>1, <2>2
<1>9. Recent'
  <2>1. \A i \in 1..Len(granted') : Len(granted') + 1 - i = Len(granted) + 2 - i
    BY <1>1, <1>3
  <2> QED BY <1>3, <1>8, <2>1 DEF Recent, P
<1>10. ASSUME NEW i \in 1..Len(granted), granted[i][2] = iSequence PROVE (Len(granted) + 1) - i >= P
  BY <1>1, <1>2, <1>7, <1>10
<1>11. Apart'
  <2> SUFFICES ASSUME NEW i \in 1..Len(granted'), NEW j \in 1..Len(granted'),
                      i < j, granted'[i][2] = granted'[j][2]
               PROVE  j - i >= P
    BY DEF Apart, P
  <2>1. i \in 1..Len(granted) /\ granted'[i] = granted[i]
    BY <1>1, <1>3
  <2>2. CASE j = Len(granted) + 1
    BY <1>3, <1>10, <2>1, <2>2
  <2>3. CASE j # Len(granted) + 1
    <3>1. j \in Nat /\ j >= 1 /\ j <= Len(granted) + 1 /\ Len(granted) \in Nat
      BY <1>1, <1>3
    <3>2. j \in 1..Len(granted)
      BY <2>3, <3>1
    <3>3. granted'[j] = granted[j]
      BY <1>3, <3>2
    <3> QED BY <2>1, <3>2, <3>3 DEF Apart, P
  <2> QED BY <2>2, <2>3
<1> QED BY <1>3, <1>5, <1>9, <1>11 DEF Sequences, P

LEMMA IndexStays ==
  ASSUME NEW c \in Nat, NEW d \in Nat, c <= d, NEW i \in 0..(c - 1)
  PROVE  i < c /\ i \in 0..(d - 1)
OBVIOUS

LEMMA IndexIsOldOrNew ==
  ASSUME NEW c \in Nat, NEW d \in Nat, NEW i \in 0..(d - 1)
  PROVE  i \in 0..(c - 1) \/ i \in c..(d - 1)
OBVIOUS

\* channelCenter_register, on the cells as it is or as it has grown.
LEMMA TakeKeepsCenter ==
  ASSUME CenterInv, s_pChannelCenter, NEW c \in Channels, life[c] = "none",
         NEW cells, NEW frees,
         slotCapacity' \in InitialCapacity..MaxCapacity, slotCapacity <= slotCapacity',
         cells \in [0..(slotCapacity' - 1) -> Channels \cup {NULL}],
         frees \in Seq(0..(slotCapacity' - 1)), frees # <<>>,
         Partitioned(cells, frees, slotCapacity'),
         \A i \in 0..(slotCapacity - 1) : cells[i] = slots[i],
         \A i \in slotCapacity..(slotCapacity' - 1) : cells[i] = NULL,
         Take(c, cells, frees),
         life' = [life EXCEPT ![c] = "nameless"],
         uiID' \in [Channels -> ChannelIDs \cup {NoID}],
         \A r \in Channels \ {c} : uiID'[r] = uiID[r],
         s_pChannelCenter' = s_pChannelCenter
  PROVE  CenterInv'
<1> PICK k : k = Top(frees)
  OBVIOUS
<1>1. slotCapacity \in Nat /\ slotCapacity' \in Nat /\ MaxCapacity \in Nat /\ slotCapacity' <= MaxCapacity
  BY CapacitiesAreOrdered DEF CenterInv, CenterTypeOK
<1>2. /\ k \in 0..(slotCapacity' - 1)
      /\ cells[k] \notin Channels
      /\ stack' \in Seq(0..(slotCapacity' - 1))
      /\ slots' = [cells EXCEPT ![k] = c]
      /\ Partitioned(slots', stack', slotCapacity')
  <2>1. cells \in [0..(slotCapacity' - 1) -> Contents]
    BY DEF Contents
  <2>2. /\ k \in 0..(slotCapacity' - 1)
        /\ cells[k] \notin Handles
        /\ Pop(frees) \in Seq(0..(slotCapacity' - 1))
        /\ Partitioned([cells EXCEPT ![k] = c], Pop(frees), slotCapacity')
    BY <1>1, <2>1, PopKeepsPartition
  <2> QED BY <2>2 DEF Take
<1>3. /\ assigned' = [assigned EXCEPT ![c] = <<k + 1, iSequence>>]
      /\ granted' = Append(granted, <<k + 1, iSequence>>)
      /\ turn' = [turn EXCEPT ![c] = Len(granted) + 1]
      /\ iSequence' = NextSequence(iSequence)
  BY DEF Take
<1>4. k + 1 \in 1..MaxCapacity /\ k + 1 <= slotCapacity' /\ (k + 1) - 1 = k
  <2>1. PICK d \in Nat : d = slotCapacity'
    BY <1>1
  <2>2. k \in 0..(d - 1) /\ d <= MaxCapacity
    BY <1>1, <1>2, <2>1
  <2> QED BY <1>1, <2>1, <2>2
<1>5. /\ granted' \in Seq(ChannelIDs) /\ Len(granted') = Len(granted) + 1
      /\ granted'[Len(granted) + 1] = <<k + 1, iSequence>>
      /\ \A i \in 1..Len(granted) : granted'[i] = granted[i]
      /\ iSequence' \in Sequences /\ Recent' /\ Apart'
  BY <1>3, <1>4, NumberGiven DEF CenterInv
<1>6. <<k + 1, iSequence>> \in ChannelIDs
  BY <1>4, IDParts DEF CenterInv, CenterTypeOK
<1>7. Len(granted) \in Nat
  BY DEF CenterInv, CenterTypeOK
<1>8. /\ \A r \in Channels : assigned'[r] = IF r = c THEN <<k + 1, iSequence>> ELSE assigned[r]
      /\ \A r \in Channels : turn'[r] = IF r = c THEN Len(granted) + 1 ELSE turn[r]
      /\ \A r \in Channels : life'[r] = IF r = c THEN "nameless" ELSE life[r]
      /\ \A i \in 0..(slotCapacity' - 1) : slots'[i] = IF i = k THEN c ELSE cells[i]
  BY <1>2, <1>3 DEF CenterInv, CenterTypeOK
<1>9. CenterTypeOK'
  <2>1. slots' \in [0..(slotCapacity' - 1) -> Channels \cup {NULL}]
    BY <1>2
  <2>2. /\ assigned' \in [Channels -> ChannelIDs \cup {NoID}]
        /\ turn' \in [Channels -> Nat]
    BY <1>3, <1>6, <1>7 DEF CenterInv, CenterTypeOK
  <2>3. life' \in [Channels -> {"none", "nameless", "named"}]
    BY DEF CenterInv, CenterTypeOK
  <2>4. s_pChannelCenter' \in BOOLEAN
    BY Zenon DEF CenterInv, CenterTypeOK
  <2> QED BY <1>2, <1>5, <2>1, <2>2, <2>3, <2>4 DEF CenterTypeOK
<1>10. Placed'
  <2> USE DEF CenterInv
  <2>1. ASSUME NEW i \in 0..(slotCapacity' - 1), slots'[i] # NULL
        PROVE  /\ life'[slots'[i]] # "none"
               /\ assigned'[slots'[i]] # NoID /\ assigned'[slots'[i]][1] = i + 1
    <3>1. CASE i = k
      <4>1. slots'[i] = c
        BY <1>8, <3>1
      <4>2. assigned'[c] = <<k + 1, iSequence>> /\ life'[c] = "nameless"
        BY <1>8
      <4> QED BY <1>6, <3>1, <4>1, <4>2, IDParts
    <3>2. CASE i # k
      <4>1. slots'[i] = cells[i] /\ cells[i] # NULL
        BY <1>8, <2>1, <3>2
      <4>2. i \in 0..(slotCapacity - 1)
        <5>1. PICK d \in Nat : d = slotCapacity'
          BY <1>1
        <5>2. i \in 0..(d - 1) /\ ~(i \in slotCapacity..(d - 1))
          BY <4>1, <5>1
        <5> QED BY <1>1, <5>2
      <4>3. PICK r \in Channels : r = slots[i] /\ slots'[i] = r
        BY <4>1, <4>2 DEF CenterTypeOK
      <4>4. life[r] # "none" /\ assigned[r] # NoID /\ assigned[r][1] = i + 1
        BY <4>1, <4>2, <4>3, MarksAreNoHandles DEF Placed
      <4>5. r # c
        BY <4>4
      <4> QED BY <1>8, <4>3, <4>4, <4>5
    <3> QED BY <3>1, <3>2
  <2>2. ASSUME NEW r \in Channels, life'[r] # "none", assigned'[r] # NoID
        PROVE  /\ assigned'[r][1] <= slotCapacity' /\ slots'[assigned'[r][1] - 1] = r
               /\ turn'[r] \in 1..Len(granted') /\ granted'[turn'[r]] = assigned'[r]
    <3>1. CASE r = c
      <4>1. assigned'[r] = <<k + 1, iSequence>> /\ turn'[r] = Len(granted) + 1
        BY <1>8, <3>1
      <4>2. slots'[k] = r
        BY <1>2, <1>8, <3>1
      <4>3. Len(granted) + 1 \in 1..Len(granted')
        BY <1>5, <1>7
      <4> QED BY <1>4, <1>5, <4>1, <4>2, <4>3
    <3>2. CASE r # c
      <4>1. /\ life[r] # "none" /\ assigned[r] # NoID
            /\ assigned'[r] = assigned[r] /\ turn'[r] = turn[r]
        BY <1>8, <2>2, <3>2
      <4>2. /\ assigned[r][1] <= slotCapacity /\ slots[assigned[r][1] - 1] = r
            /\ turn[r] \in 1..Len(granted) /\ granted[turn[r]] = assigned[r]
        BY <4>1 DEF Placed
      <4>3. PICK a \in 1..MaxCapacity : a = assigned[r][1]
        BY <4>1, IDParts DEF CenterTypeOK
      <4>4. a - 1 \in 0..(slotCapacity - 1)
        BY <1>1, <4>2, <4>3, SMTT(30)
      <4>5. a - 1 \in 0..(slotCapacity' - 1)
        BY <1>1, <4>4, IndexStays
      <4>6. cells[a - 1] = r
        BY <4>2, <4>3, <4>4
      <4>7. a - 1 # k
        BY <1>2, <4>6
      <4>8. slots'[a - 1] = r
        BY <1>8, <4>5, <4>6, <4>7
      <4>9. a <= slotCapacity'
        <5>1. a <= slotCapacity
          BY <4>2, <4>3
        <5> QED BY <1>1, <5>1
      <4>10. turn[r] \in 1..Len(granted')
        BY <1>5, <1>7, <4>2
      <4>11. granted'[turn[r]] = assigned[r]
        BY <1>5, <4>2
      <4> QED BY <4>1, <4>3, <4>8, <4>9, <4>10, <4>11
    <3> QED BY <3>1, <3>2
  <2>3. ASSUME NEW r \in Channels, life'[r] = "named" PROVE uiID'[r] = assigned'[r]
    <3>1. r # c /\ life[r] = "named"
      BY <1>8, <2>3
    <3> QED BY <1>8, <3>1 DEF Placed
  <2> QED BY <2>1, <2>2, <2>3 DEF Placed
<1> QED BY <1>2, <1>5, <1>9, <1>10 DEF CenterInv

LEMMA CreateKeepsCenter ==
  ASSUME CenterInv, NEW c \in Channels, CreateChannel(c)
  PROVE  CenterInv'
<1>1. /\ slotCapacity \in InitialCapacity..MaxCapacity /\ slotCapacity \in Nat
      /\ slots \in [0..(slotCapacity - 1) -> Channels \cup {NULL}]
      /\ slots \in [0..(slotCapacity - 1) -> Contents]
      /\ stack \in Seq(0..(slotCapacity - 1))
      /\ Partitioned(slots, stack, slotCapacity)
  BY CapacitiesAreOrdered DEF CenterInv, CenterTypeOK, Contents
<1>2. /\ s_pChannelCenter /\ life[c] = "none"
      /\ life' = [life EXCEPT ![c] = "nameless"]
      /\ s_pChannelCenter' = s_pChannelCenter
  BY DEF CreateChannel
<1>3. /\ uiID' \in [Channels -> ChannelIDs \cup {NoID}]
      /\ \A r \in Channels \ {c} : uiID'[r] = uiID[r]
  <2>1. PICK id \in Range(granted) \cup {NoID} : uiID' = [uiID EXCEPT ![c] = id]
    BY DEF CreateChannel
  <2>2. Range(granted) \subseteq ChannelIDs
    BY DEF Range, CenterInv, CenterTypeOK
  <2> QED BY <2>1, <2>2 DEF CenterInv, CenterTypeOK
<1>4. CASE TakeFree(c)
  <2>1. stack # <<>> /\ Take(c, slots, stack) /\ slotCapacity' = slotCapacity
    BY <1>4 DEF TakeFree
  <2>2. \A i \in slotCapacity..(slotCapacity' - 1) : slots[i] = NULL
    BY <1>1, <2>1
  <2>3. slotCapacity' \in InitialCapacity..MaxCapacity /\ slotCapacity <= slotCapacity'
    BY <1>1, <2>1
  <2>4. /\ slots \in [0..(slotCapacity' - 1) -> Channels \cup {NULL}]
        /\ stack \in Seq(0..(slotCapacity' - 1))
        /\ Partitioned(slots, stack, slotCapacity')
    BY <1>1, <2>1
  <2> QED BY <1>2, <1>3, <2>1, <2>2, <2>3, <2>4, TakeKeepsCenter
<1>5. CASE TakeGrowing(c)
  <2> DEFINE fill == [i \in Added(slotCapacity) |-> NULL]
             cells == Enlarged(slots, slotCapacity, fill)
             frees == FreeStack(slotCapacity, Grown(slotCapacity))
  <2>1. /\ stack = <<>> /\ slotCapacity # MaxCapacity /\ slotCapacity' = Grown(slotCapacity)
        /\ Take(c, cells, frees)
    BY <1>5 DEF TakeGrowing
  <2>2. slotCapacity < MaxCapacity
    BY <1>1, <2>1, CapacitiesAreOrdered
  <2>3. slotCapacity' \in InitialCapacity..MaxCapacity /\ slotCapacity < slotCapacity' /\ slotCapacity' \in Nat
    BY <1>1, <2>1, <2>2, GrownIsLarger, CapacitiesAreOrdered
  <2>10. slotCapacity <= slotCapacity'
    BY <1>1, <2>3
  <2>4. fill \in [Added(slotCapacity) -> {NULL, Garbage}]
    OBVIOUS
  <2>5. /\ frees \in Seq(0..(slotCapacity' - 1)) /\ frees # <<>>
        /\ Partitioned(cells, frees, slotCapacity')
    BY <1>1, <2>1, <2>2, <2>4, GrowthKeepsPartition
  <2>6. cells = [i \in 0..(slotCapacity' - 1) |-> IF i < slotCapacity THEN slots[i] ELSE fill[i]]
    BY <2>1 DEF Enlarged
  <2>7. ASSUME NEW i \in 0..(slotCapacity - 1) PROVE cells[i] = slots[i]
    <3>1. i < slotCapacity /\ i \in 0..(slotCapacity' - 1)
      BY <1>1, <2>3, <2>10, IndexStays
    <3> QED BY <3>1, <2>6
  <2>8. ASSUME NEW i \in slotCapacity..(slotCapacity' - 1) PROVE cells[i] = NULL
    <3>1. i \in Added(slotCapacity) /\ i \in 0..(slotCapacity' - 1) /\ ~(i < slotCapacity)
      BY <1>1, <2>1, <2>3 DEF Added
    <3> QED BY <3>1, <2>6
  <2>9. cells \in [0..(slotCapacity' - 1) -> Channels \cup {NULL}]
    <3>1. ASSUME NEW i \in 0..(slotCapacity' - 1) PROVE cells[i] \in Channels \cup {NULL}
      <4>1. i \in 0..(slotCapacity - 1) \/ i \in slotCapacity..(slotCapacity' - 1)
        BY <1>1, <2>3, IndexIsOldOrNew
      <4>2. CASE i \in 0..(slotCapacity - 1)
        BY <1>1, <2>7, <4>2
      <4>3. CASE i \in slotCapacity..(slotCapacity' - 1)
        BY <2>8, <4>3
      <4> QED BY <4>1, <4>2, <4>3
    <3> HIDE DEF fill
    <3> QED BY <2>6, <3>1
  <2> HIDE DEF cells, frees
  <2> QED BY <1>2, <1>3, <2>1, <2>3, <2>5, <2>7, <2>8, <2>9, <2>10, TakeKeepsCenter
<1>6. CASE TakeNone(c)
  <2>1. /\ assigned' = [assigned EXCEPT ![c] = NoID]
        /\ UNCHANGED <<slots, stack, slotCapacity, granted, turn, iSequence>>
    BY <1>6 DEF TakeNone, centerTable
  <2>2. CenterTypeOK'
    <3>1. life' \in [Channels -> {"none", "nameless", "named"}] /\ s_pChannelCenter' \in BOOLEAN
      BY <1>2 DEF CenterInv, CenterTypeOK
    <3>2. assigned' \in [Channels -> ChannelIDs \cup {NoID}]
      BY <2>1 DEF CenterInv, CenterTypeOK
    <3> QED BY <1>3, <2>1, <3>1, <3>2 DEF CenterInv, CenterTypeOK
  <2>3. Recent' /\ Apart' /\ Partitioned(slots, stack, slotCapacity)'
    BY <2>1 DEF CenterInv, Recent, Apart, Partitioned, OnStack
  <2>4. /\ \A r \in Channels : assigned'[r] = IF r = c THEN NoID ELSE assigned[r]
        /\ \A r \in Channels : life'[r] = IF r = c THEN "nameless" ELSE life[r]
    BY <1>2, <2>1 DEF CenterInv, CenterTypeOK
  <2>5. \A i \in 0..(slotCapacity - 1) : slots[i] # NULL => slots[i] \in Channels /\ slots[i] # c
    BY <1>1, <1>2 DEF CenterInv, Placed
  <2>6. Placed'
    <3>1. ASSUME NEW i \in 0..(slotCapacity - 1), slots[i] # NULL
          PROVE  /\ life'[slots[i]] # "none"
                 /\ assigned'[slots[i]] # NoID /\ assigned'[slots[i]][1] = i + 1
      <4>1. PICK r \in Channels : r = slots[i] /\ r # c
        BY <2>5, <3>1
      <4>2. life'[r] = life[r] /\ assigned'[r] = assigned[r]
        BY <2>4, <4>1
      <4> QED BY <1>2, <3>1, <4>1, <4>2 DEF CenterInv, Placed
    <3>2. ASSUME NEW r \in Channels, life'[r] # "none", assigned'[r] # NoID
          PROVE  /\ assigned'[r][1] <= slotCapacity /\ slots[assigned'[r][1] - 1] = r
                 /\ turn[r] \in 1..Len(granted) /\ granted[turn[r]] = assigned'[r]
      <4>1. r # c /\ assigned'[r] = assigned[r] /\ life[r] # "none"
        BY <2>4, <3>2
      <4> QED BY <1>2, <3>2, <4>1 DEF CenterInv, Placed
    <3>3. ASSUME NEW r \in Channels, life'[r] = "named" PROVE uiID'[r] = assigned'[r]
      BY <1>2, <1>3, <2>4, <3>3 DEF CenterInv, Placed
    <3> QED BY <2>1, <3>1, <3>2, <3>3 DEF Placed
  <2> QED BY <2>2, <2>3, <2>6 DEF CenterInv
<1> QED BY <1>4, <1>5, <1>6 DEF CreateChannel

LEMMA StoreIDKeepsCenter ==
  ASSUME CenterInv, NEW c \in Channels, StoreID(c)
  PROVE  CenterInv'
<1>1. /\ life[c] = "nameless"
      /\ \A r \in Channels : life'[r] = IF r = c THEN "named" ELSE life[r]
      /\ \A r \in Channels : uiID'[r] = IF r = c THEN assigned[c] ELSE uiID[r]
      /\ UNCHANGED <<s_pChannelCenter, slots, stack, slotCapacity, iSequence, assigned, granted, turn>>
  BY DEF StoreID, CenterInv, CenterTypeOK, centerTable
<1>2. CenterTypeOK'
  <2>1. /\ uiID' \in [Channels -> ChannelIDs \cup {NoID}]
        /\ life' \in [Channels -> {"none", "nameless", "named"}]
    BY DEF StoreID, CenterInv, CenterTypeOK
  <2> QED BY <1>1, <2>1 DEF CenterInv, CenterTypeOK
<1>3. Recent' /\ Apart' /\ Partitioned(slots, stack, slotCapacity)'
  <2>1. Recent'
    BY <1>1 DEF CenterInv, Recent
  <2>2. Apart'
    BY <1>1 DEF CenterInv, Apart
  <2>3. Partitioned(slots, stack, slotCapacity)'
    BY <1>1 DEF CenterInv, Partitioned, OnStack
  <2> QED BY <2>1, <2>2, <2>3
<1>4. \A i \in 0..(slotCapacity - 1) : slots[i] # NULL => slots[i] \in Channels
  BY DEF CenterInv, CenterTypeOK
<1>5. \A r \in Channels : life'[r] # "none" <=> life[r] # "none"
  BY <1>1
<1>6. Placed'
  BY <1>1, <1>4, <1>5 DEF CenterInv, Placed
<1> QED BY <1>2, <1>3, <1>6 DEF CenterInv

\* What channelCenter_deregister finds for a channel that has stored its ID.
LEMMA NamedIsFound ==
  ASSUME CenterInv, s_pChannelCenter, NEW c \in Channels, life[c] = "named"
  PROVE  /\ uiID[c] = assigned[c]
         /\ assigned[c] = NoID => /\ Meant(uiID[c]) = NULL
                                  /\ \A i \in 0..(slotCapacity - 1) : slots[i] # c
         /\ assigned[c] # NoID => /\ Meant(uiID[c]) = c
                                  /\ uiID[c][1] \in 1..slotCapacity
                                  /\ slots[uiID[c][1] - 1] = c
<1>1. uiID[c] = assigned[c] /\ assigned[c] \in ChannelIDs \cup {NoID}
  BY DEF CenterInv, CenterTypeOK, Placed
<1>2. slotCapacity \in Nat
  BY CapacitiesAreOrdered DEF CenterInv, CenterTypeOK
<1>3. ASSUME assigned[c] = NoID
      PROVE  /\ Meant(uiID[c]) = NULL
             /\ \A i \in 0..(slotCapacity - 1) : slots[i] # c
  <2>1. uiID[c][1] \notin 1..slotCapacity
    BY <1>1, <1>2, <1>3, IDParts
  <2>2. Meant(uiID[c]) = NULL
    BY <2>1 DEF Meant
  <2> QED BY <1>3, <2>2, MarksAreNoHandles DEF CenterInv, Placed
<1>4. ASSUME assigned[c] # NoID
      PROVE  /\ Meant(uiID[c]) = c
             /\ uiID[c][1] \in 1..slotCapacity
             /\ slots[uiID[c][1] - 1] = c
  <2>1. assigned[c][1] \in 1..MaxCapacity
    BY <1>1, <1>4, IDParts
  <2>2. assigned[c][1] <= slotCapacity /\ slots[assigned[c][1] - 1] = c
    BY <1>4 DEF CenterInv, Placed
  <2>3. uiID[c][1] \in 1..slotCapacity
    BY <1>1, <1>2, <2>1, <2>2
  <2>4. slots[uiID[c][1] - 1] = c
    BY <1>1, <2>2
  <2>5. Meant(uiID[c]) = c
    BY <2>3, <2>4, MarksAreNoHandles DEF Meant
  <2> QED BY <2>3, <2>4, <2>5
<1> QED BY <1>1, <1>3, <1>4

LEMMA FreeChannelKeepsCenter ==
  ASSUME CenterInv, NEW c \in Channels, FreeChannel(c)
  PROVE  CenterInv'
<1>1. /\ life[c] = "named"
      /\ \A r \in Channels : life'[r] = IF r = c THEN "none" ELSE life[r]
      /\ \A r \in Channels : uiID'[r] = IF r = c THEN NoID ELSE uiID[r]
      /\ UNCHANGED <<s_pChannelCenter, slotCapacity, iSequence, assigned, granted, turn>>
  BY DEF FreeChannel, CenterInv, CenterTypeOK
<1>2. /\ uiID' \in [Channels -> ChannelIDs \cup {NoID}]
      /\ life' \in [Channels -> {"none", "nameless", "named"}]
      /\ s_pChannelCenter' \in BOOLEAN
      /\ slotCapacity' \in InitialCapacity..MaxCapacity
      /\ iSequence' \in Sequences
      /\ assigned' \in [Channels -> ChannelIDs \cup {NoID}]
      /\ granted' \in Seq(ChannelIDs)
      /\ turn' \in [Channels -> Nat]
  BY DEF FreeChannel, CenterInv, CenterTypeOK
<1>3. Recent' /\ Apart'
  BY <1>1 DEF CenterInv, Recent, Apart
<1>4. \A i \in 0..(slotCapacity - 1) : slots[i] \in Channels \cup {NULL}
  BY DEF CenterInv, CenterTypeOK
<1>5. CASE s_pChannelCenter /\ assigned[c] # NoID
  <2>1. /\ Meant(uiID[c]) = c /\ uiID[c] = assigned[c]
        /\ uiID[c][1] \in 1..slotCapacity /\ slots[uiID[c][1] - 1] = c
    BY <1>1, <1>5, NamedIsFound
  <2>2. PICK k : k = uiID[c][1] - 1
    OBVIOUS
  <2>3. k \in 0..(slotCapacity - 1) /\ slots[k] = c /\ slotCapacity \in Nat
    BY <2>1, <2>2, CapacitiesAreOrdered DEF CenterInv, CenterTypeOK
  <2>4. slots' = [slots EXCEPT ![k] = NULL] /\ stack' = Append(stack, k)
    BY <2>1, <2>2, MarksAreNoHandles DEF FreeChannel
  <2>5. /\ slots' \in [0..(slotCapacity - 1) -> Channels \cup {NULL}]
        /\ \A i \in 0..(slotCapacity - 1) : slots'[i] = IF i = k THEN NULL ELSE slots[i]
    BY <2>4 DEF CenterInv, CenterTypeOK
  <2>6. /\ stack' \in Seq(0..(slotCapacity - 1))
        /\ Partitioned(slots', stack', slotCapacity)
    <3>1. /\ slots \in [0..(slotCapacity - 1) -> Contents]
          /\ stack \in Seq(0..(slotCapacity - 1))
          /\ Partitioned(slots, stack, slotCapacity)
      BY DEF CenterInv, CenterTypeOK, Contents
    <3> QED BY <2>3, <2>4, <3>1, PushKeepsPartition
  <2>7. CenterTypeOK'
    BY <1>1, <1>2, <2>5, <2>6 DEF CenterTypeOK
  <2>8. Placed'
    <3>1. ASSUME NEW i \in 0..(slotCapacity - 1), slots'[i] # NULL
          PROVE  /\ life'[slots'[i]] # "none"
                 /\ assigned[slots'[i]] # NoID /\ assigned[slots'[i]][1] = i + 1
      <4>1. i # k /\ slots'[i] = slots[i]
        BY <2>5, <3>1
      <4>2. PICK r \in Channels : r = slots[i]
        BY <1>4, <3>1, <4>1
      <4>3. life[r] # "none" /\ assigned[r] # NoID /\ assigned[r][1] = i + 1
        BY <1>5, <3>1, <4>1, <4>2 DEF CenterInv, Placed
      <4>4. r # c
        <5>1. assigned[c][1] - 1 = k /\ (i + 1) - 1 = i
          BY <2>1, <2>2
        <5> QED BY <4>1, <4>3, <5>1
      <4> QED BY <1>1, <4>1, <4>2, <4>3, <4>4
    <3>2. ASSUME NEW r \in Channels, life'[r] # "none", assigned[r] # NoID
          PROVE  /\ assigned[r][1] <= slotCapacity /\ slots'[assigned[r][1] - 1] = r
                 /\ turn[r] \in 1..Len(granted) /\ granted[turn[r]] = assigned[r]
      <4>1. r # c /\ life[r] # "none"
        BY <1>1, <3>2
      <4>2. /\ assigned[r][1] <= slotCapacity /\ slots[assigned[r][1] - 1] = r
            /\ turn[r] \in 1..Len(granted) /\ granted[turn[r]] = assigned[r]
        BY <1>5, <3>2, <4>1 DEF CenterInv, Placed
      <4>3. PICK a \in 1..MaxCapacity : a = assigned[r][1]
        BY <3>2, IDParts DEF CenterInv, CenterTypeOK
      <4>4. a - 1 \in 0..(slotCapacity - 1)
        BY <2>3, <4>2, <4>3
      <4>5. a - 1 # k
        BY <2>3, <4>1, <4>2, <4>3
      <4>6. slots'[a - 1] = r
        BY <2>5, <4>2, <4>3, <4>4, <4>5
      <4> QED BY <4>2, <4>3, <4>6
    <3>3. ASSUME NEW r \in Channels, life'[r] = "named" PROVE uiID'[r] = assigned[r]
      BY <1>1, <1>5, <3>3 DEF CenterInv, Placed
    <3> QED BY <1>1, <3>1, <3>2, <3>3 DEF Placed
  <2> QED BY <1>1, <1>3, <2>6, <2>7, <2>8 DEF CenterInv
<1>6. CASE ~(s_pChannelCenter /\ assigned[c] # NoID)
  <2>1. Meant(uiID[c]) = NULL
    <3>1. CASE ~s_pChannelCenter
      BY <3>1 DEF Meant
    <3>2. CASE s_pChannelCenter
      BY <1>1, <1>6, <3>2, NamedIsFound
    <3> QED BY <3>1, <3>2
  <2>2. slots' = slots /\ stack' = stack
    BY <2>1 DEF FreeChannel
  <2>3. CenterTypeOK'
    BY <1>1, <1>2, <2>2 DEF CenterInv, CenterTypeOK
  <2>4. Partitioned(slots, stack, slotCapacity)'
    BY <1>1, <2>2 DEF CenterInv
  <2>5. Placed'
    <3>1. CASE ~s_pChannelCenter
      BY <1>1, <3>1 DEF Placed
    <3>2. CASE s_pChannelCenter
      <4>1. assigned[c] = NoID /\ \A i \in 0..(slotCapacity - 1) : slots[i] # c
        BY <1>1, <1>6, <3>2, NamedIsFound
      <4>2. \A i \in 0..(slotCapacity - 1) : slots[i] # NULL => life'[slots[i]] = life[slots[i]]
        BY <1>1, <1>4, <4>1
      <4> QED BY <1>1, <2>2, <3>2, <4>1, <4>2 DEF CenterInv, Placed
    <3> QED BY <3>1, <3>2
  <2> QED BY <1>3, <2>3, <2>4, <2>5 DEF CenterInv
<1> QED BY <1>5, <1>6

LEMMA NextKeepsCenter ==
  ASSUME CenterInv, [CenterNext]_centerVars
  PROVE  CenterInv'
<1>1. ASSUME NEW c \in Channels, CreateChannel(c) PROVE CenterInv'
  BY <1>1, CreateKeepsCenter
<1>2. ASSUME NEW c \in Channels, StoreID(c) PROVE CenterInv'
  BY <1>2, StoreIDKeepsCenter
<1>3. ASSUME NEW c \in Channels, FreeChannel(c) PROVE CenterInv'
  BY <1>3, FreeChannelKeepsCenter
<1>4. CASE ClearCenter
  <2>1. /\ s_pChannelCenter' = FALSE
        /\ UNCHANGED <<slots, stack, slotCapacity, iSequence, uiID, life, assigned, granted, turn>>
    BY <1>4 DEF ClearCenter, centerTable
  <2>2. CenterTypeOK'
    BY <2>1 DEF CenterInv, CenterTypeOK
  <2>3. Placed'
    BY <2>1 DEF Placed
  <2>4. Recent' /\ Apart' /\ Partitioned(slots, stack, slotCapacity)'
    BY <2>1 DEF CenterInv, Recent, Apart, Partitioned, OnStack
  <2> QED BY <2>2, <2>3, <2>4 DEF CenterInv
<1>5. CASE UNCHANGED centerVars
  <2>1. UNCHANGED <<s_pChannelCenter, slots, stack, slotCapacity, iSequence, uiID, life, assigned,
                    granted, turn>>
    BY <1>5 DEF centerVars, centerTable
  <2>2. CenterTypeOK' /\ Placed'
    BY <2>1 DEF CenterInv, CenterTypeOK, Placed
  <2>3. Recent' /\ Apart' /\ Partitioned(slots, stack, slotCapacity)'
    BY <2>1 DEF CenterInv, Recent, Apart, Partitioned, OnStack
  <2> QED BY <2>2, <2>3 DEF CenterInv
<1> QED BY <1>1, <1>2, <1>3, <1>4, <1>5 DEF CenterNext

\* The frees stack lists as many slots as channelCenter_getIds leaves out.
LEMMA FreeSlotsAreCounted ==
  ASSUME CenterInv
  PROVE  Cardinality(TakenSlots) = Counted
<1> DEFINE All == 0..(slotCapacity - 1)
           Free == OnStack(stack)
           n == Len(stack)
<1>1. slotCapacity \in Nat /\ stack \in Seq(All) /\ n \in Nat
  BY CapacitiesAreOrdered DEF CenterInv, CenterTypeOK
<1>2. IsFiniteSet(All) /\ Cardinality(All) = slotCapacity
  <2>1. 0 \in Int /\ slotCapacity - 1 \in Int
    BY <1>1
  <2>2. IsFiniteSet(All) /\ Cardinality(All) = IF 0 > slotCapacity - 1 THEN 0 ELSE (slotCapacity - 1) - 0 + 1
    BY <2>1, FS_Interval
  <2> QED BY <1>1, <2>2
<1>3. IsFiniteSet(1..n) /\ Cardinality(1..n) = n
  <2>1. 1 \in Int /\ n \in Int
    BY <1>1
  <2>2. IsFiniteSet(1..n) /\ Cardinality(1..n) = IF 1 > n THEN 0 ELSE n - 1 + 1
    BY <2>1, FS_Interval
  <2> QED BY <1>1, <2>2
<1>4. stack \in Bijection(1..n, Free)
  <2>1. stack \in [1..n -> Free]
    BY <1>1 DEF OnStack
  <2>2. stack \in Injection(1..n, Free)
    <3>1. \A i, j \in 1..n : stack[i] = stack[j] => i = j
      BY DEF CenterInv, Partitioned
    <3> QED BY <2>1, <3>1, Fun_IsInj
  <2>3. stack \in Surjection(1..n, Free)
    <3>1. \A x \in Free : \E i \in 1..n : stack[i] = x
      BY DEF OnStack
    <3> QED BY <2>1, <3>1, Fun_IsSurj
  <2> QED BY <2>2, <2>3 DEF Bijection
<1>5. Cardinality(Free) = n
  <2>1. ExistsBijection(1..n, Free)
    BY <1>4 DEF ExistsBijection
  <2> QED BY <1>3, <2>1, FS_Bijection
<1>6. Free \subseteq All /\ TakenSlots = All \ Free
  <2>1. Free \subseteq All
    BY <1>1 DEF OnStack
  <2>2. TakenSlots = {i \in All : slots[i] # NULL}
    BY DEF TakenSlots, CenterInv, CenterTypeOK
  <2>3. \A i \in All : slots[i] # NULL <=> i \notin Free
    <3>1. \A i \in All : slots[i] # NULL <=> slots[i] \in Handles
      BY MarksAreNoHandles DEF CenterInv, CenterTypeOK
    <3> QED BY <3>1 DEF CenterInv, Partitioned
  <2> QED BY <2>1, <2>2, <2>3
<1>7. Cardinality(All \ Free) = Cardinality(All) - Cardinality(All \cap Free)
  BY <1>2, FS_Difference
<1>8. All \cap Free = Free
  BY <1>6
<1> QED BY <1>2, <1>5, <1>6, <1>7, <1>8 DEF Counted

LEMMA CenterImplies == CenterInv => StaleIDsMiss
<1> SUFFICES ASSUME CenterInv PROVE StaleIDsMiss
  OBVIOUS
<1>1. ASSUME NEW n \in DOMAIN granted
      PROVE  LET c == Meant(granted[n])
             IN  c = NULL \/ life[c] = "nameless" \/ turn[c] = n \/ turn[c] - n >= MaxSequence - 1
                          \/ n - turn[c] >= MaxSequence - 1
  <2>1. n \in 1..Len(granted) /\ granted[n] \in ChannelIDs /\ Len(granted) \in Nat
    BY DEF CenterInv, CenterTypeOK
  <2>2. PICK id : id = granted[n]
    OBVIOUS
  <2>3. PICK c : c = Meant(id)
    OBVIOUS
  <2> SUFFICES ASSUME c # NULL, life[c] # "nameless", turn[c] # n
               PROVE  turn[c] - n >= MaxSequence - 1 \/ n - turn[c] >= MaxSequence - 1
    BY <2>2, <2>3
  <2>4. s_pChannelCenter /\ id[1] \in 1..slotCapacity /\ c = slots[id[1] - 1] /\ uiID[c] = id
    BY <2>3 DEF Meant
  <2>5. id[1] - 1 \in 0..(slotCapacity - 1)
    <3>1. slotCapacity \in Nat
      BY CapacitiesAreOrdered DEF CenterInv, CenterTypeOK
    <3> QED BY <2>4, <3>1
  <2>6. c \in Channels /\ life[c] # "none" /\ assigned[c] # NoID
    BY <2>4, <2>5 DEF CenterInv, CenterTypeOK, Placed
  <2>7. life[c] = "named"
    BY <2>6 DEF CenterInv, CenterTypeOK
  <2>8. turn[c] \in 1..Len(granted) /\ granted[turn[c]] = id
    BY <2>4, <2>6, <2>7 DEF CenterInv, Placed
  <2>9. PICK t \in 1..Len(granted) : t = turn[c]
    BY <2>8
  <2>10. granted[t] = granted[n] /\ t # n
    BY <2>2, <2>8, <2>9
  <2>11. t < n \/ n < t
    BY <2>1, <2>10
  <2> QED BY <2>1, <2>9, <2>10, <2>11 DEF CenterInv, Apart
<1>2. s_pChannelCenter =>
        \A c \in Channels : life[c] = "named" /\ assigned[c] # NoID => Meant(uiID[c]) = c
  BY NamedIsFound
<1>3. Cardinality(TakenSlots) = Counted
  BY FreeSlotsAreCounted
<1> QED BY <1>1, <1>2, <1>3 DEF StaleIDsMiss

(***************************************************************************)
(* An ID that channelCenter_register gave out leads to its channel or to   *)
(* none, unless the sequence went round or the slot's new channel has not  *)
(* stored its own ID; until channelCenter_clear a channel with an ID is    *)
(* found under it; and channelCenter_getIds' array has room for every ID.  *)
(***************************************************************************)
THEOREM StaleIDsAreMissed == CenterSpec => []StaleIDsMiss
<1>1. CenterInit => CenterInv
  BY InitCenter
<1>2. CenterInv /\ [CenterNext]_centerVars => CenterInv'
  BY NextKeepsCenter
<1>3. CenterInv => StaleIDsMiss
  BY CenterImplies
<1> QED BY <1>1, <1>2, <1>3, PTL DEF CenterSpec

-----------------------------------------------------------------------------
(* The service center.                                                     *)

\* A service from its registration to its deregistration.
Listed == {"registered", "running"}

\* returned, uiServiceID and the longer agree at every stage of a service.
Home ==
  /\ \A s \in Services : stage[s] = "created" => returned[s] = 0
  /\ \A s \in Services : stage[s] \in Listed /\ returned[s] # 0 =>
       returned[s] <= capacity /\ slot[returned[s] - 1] = s
  /\ \A i \in 0..(capacity - 1) : slot[i] \in Services =>
       stage[slot[i]] \in Listed /\ returned[slot[i]] = i + 1
  /\ \A s \in Services :
       uiServiceID[s] = IF stage[s] \in {"running", "leaving"} THEN returned[s] ELSE 0

\* A published ID leads to a slot that was written.
Written == \A id \in issued : id <= capacity /\ slot[id - 1] # Garbage

Inv == TypeOK /\ SlotsPartitioned /\ Home /\ Written

USE DEF Services

LEMMA InitInv == Init => Inv
<1> SUFFICES ASSUME Init PROVE Inv
  OBVIOUS
<1>1. /\ capacity = InitialCapacity /\ capacity \in Nat /\ capacity >= 1
      /\ slot = [i \in 0..(capacity - 1) |-> NULL]
      /\ free = FreeStack(0, capacity)
  BY CapacitiesAreOrdered DEF Init
<1>2. /\ free = [i \in 1..capacity |-> capacity - i]
      /\ \A i \in 1..capacity : capacity - i \in 0..(capacity - 1)
  BY <1>1 DEF FreeStack
<1>3. free \in Seq(0..(capacity - 1)) /\ Len(free) = capacity
  BY <1>1, <1>2
<1>4. SlotsPartitioned
  <2>1. \A i, j \in 1..Len(free) : free[i] = free[j] => i = j
    BY <1>1, <1>2, <1>3
  <2>2. ASSUME NEW i \in 0..(capacity - 1) PROVE i \in OnStack(free)
    <3>1. capacity - i \in 1..capacity /\ capacity - (capacity - i) = i
      BY <1>1
    <3> QED BY <3>1, <1>2, <1>3 DEF OnStack
  <2> QED BY <1>1, <2>1, <2>2, MarksAreNoHandles DEF SlotsPartitioned, Partitioned
<1>5. TypeOK
  <2>1. /\ capacity \in InitialCapacity..MaxCapacity
        /\ slot \in [0..(capacity - 1) -> Services \cup {NULL, Garbage}]
    BY <1>1, CapacitiesAreOrdered
  <2>2. /\ serviceNameTree \in [Names -> IDs \cup {0}]
        /\ uiServiceID \in [Services -> IDs \cup {0}]
        /\ iRefCount \in [Services -> Int]
        /\ stage \in [Services -> Stages]
        /\ returned \in [Services -> IDs \cup {0}]
    BY DEF Init, Stages
  <2>3. /\ issued \subseteq IDs
        /\ held \in [Threads -> Services \cup {NULL}]
        /\ found \in [Threads -> IDs \cup {0}]
        /\ boundTo \in [Names -> Services \cup {NULL, Garbage}]
        /\ doubtful \subseteq IDs
    BY DEF Init
  <2>4. s_pServiceCenter \in BOOLEAN /\ refused \in BOOLEAN
    BY Zenon DEF Init
  <2> QED BY <1>3, <2>1, <2>2, <2>3, <2>4 DEF TypeOK
<1>6. Home /\ Written
  BY <1>1, MarksAreNoHandles DEF Init, Home, Written, Listed
<1> QED BY <1>4, <1>5, <1>6 DEF Inv

-----------------------------------------------------------------------------
\* s got an ID and the center's reference.
Took(s) == /\ \E id \in IDs : returned' = [returned EXCEPT ![s] = id]
           /\ iRefCount' = [iRefCount EXCEPT ![s] = @ + 1]

\* Taking the top slot of a partitioned table keeps the invariant; the table may
\* be the old one or the one that has just grown.
LEMMA OccupyInv ==
  ASSUME Inv, NEW s \in Services, stage[s] = "created",
         NEW longer, NEW refill,
         capacity' \in InitialCapacity..MaxCapacity, capacity <= capacity',
         longer \in [0..(capacity' - 1) -> Contents],
         refill \in Seq(0..(capacity' - 1)), refill # <<>>,
         Partitioned(longer, refill, capacity'),
         \A i \in 0..(capacity - 1) : longer[i] = slot[i],
         \A i \in capacity..(capacity' - 1) : longer[i] \notin Services,
         Occupy(s, longer, refill),
         stage' = [stage EXCEPT ![s] = "registered"],
         UNCHANGED <<s_pServiceCenter, nameVars, uiServiceID, issued, held, found>>,
         refused' \in BOOLEAN
  PROVE  Inv' /\ Took(s)
<1> DEFINE k == Top(refill)
<1>1. capacity \in Nat /\ capacity' \in Nat /\ MaxCapacity \in Nat /\ capacity' <= MaxCapacity
  BY CapacitiesAreOrdered DEF Inv, TypeOK
<1>2. /\ k \in 0..(capacity' - 1)
      /\ longer[k] \notin Services
      /\ free' \in Seq(0..(capacity' - 1))
      /\ slot' = [longer EXCEPT ![k] = s]
      /\ slot' \in [0..(capacity' - 1) -> Contents]
      /\ SlotsPartitioned'
  <2>1. /\ k \in 0..(capacity' - 1)
        /\ longer[k] \notin Handles
        /\ Pop(refill) \in Seq(0..(capacity' - 1))
        /\ [longer EXCEPT ![k] = s] \in [0..(capacity' - 1) -> Contents]
        /\ Partitioned([longer EXCEPT ![k] = s], Pop(refill), capacity')
    BY <1>1, PopKeepsPartition
  <2>2. slot' = [longer EXCEPT ![k] = s] /\ free' = Pop(refill)
    BY DEF Occupy
  <2> QED BY <2>1, <2>2 DEF SlotsPartitioned
<1>3. /\ returned' = [returned EXCEPT ![s] = k + 1] /\ k + 1 \in IDs
      /\ iRefCount' = [iRefCount EXCEPT ![s] = @ + 1]
  BY <1>1, <1>2 DEF Occupy, IDs
<1> HIDE DEF k
<1>4. TypeOK'
  <2>1. slot' \in [0..(capacity' - 1) -> Services \cup {NULL, Garbage}]
    BY <1>2 DEF Contents
  <2>2. /\ returned' \in [Services -> IDs \cup {0}]
        /\ iRefCount' \in [Services -> Int]
        /\ stage' \in [Services -> Stages]
    BY <1>3 DEF Inv, TypeOK, Stages
  <2> QED BY <1>2, <2>1, <2>2 DEF Inv, TypeOK, nameVars
<1>5. \A i \in 0..(capacity' - 1) : slot'[i] = IF i = k THEN s ELSE longer[i]
  BY <1>2
<1>6. \A i \in 0..(capacity' - 1) : longer[i] \in Services =>
        /\ i \in 0..(capacity - 1)
        /\ longer[i] = slot[i]
        /\ longer[i] # s
        /\ i # k
  <2> SUFFICES ASSUME NEW i \in 0..(capacity' - 1), longer[i] \in Services
               PROVE  i \in 0..(capacity - 1) /\ longer[i] = slot[i] /\ longer[i] # s /\ i # k
    OBVIOUS
  <2> DEFINE c == capacity'
  <2>0. c \in Nat /\ capacity \in Nat /\ i \in 0..(c - 1)
    BY <1>1
  <2> HIDE DEF c
  <2>01. i \in 0..(capacity - 1) \/ i \in capacity..(c - 1)
    BY <2>0
  <2>1. i \in 0..(capacity - 1) \/ i \in capacity..(capacity' - 1)
    BY <2>01 DEF c
  <2>2. i \in 0..(capacity - 1) /\ longer[i] = slot[i]
    BY <2>1
  <2>3. stage[slot[i]] \in Listed
    BY <2>2 DEF Inv, Home
  <2> QED BY <2>2, <2>3, <1>2 DEF Listed
<1>7. Home'
  <2>1. \A r \in Services : stage'[r] = "created" => returned'[r] = 0
    BY <1>3 DEF Inv, TypeOK, Home
  <2>2. ASSUME NEW r \in Services, stage'[r] \in Listed, returned'[r] # 0
        PROVE  returned'[r] <= capacity' /\ slot'[returned'[r] - 1] = r
    <3>1. CASE r = s
      <4>1. returned'[s] = k + 1 /\ k + 1 <= capacity' /\ (k + 1) - 1 = k
        <5>1. returned'[s] = k + 1
          BY <1>3 DEF Inv, TypeOK
        <5>2. capacity' \in Nat /\ k \in 0..(capacity' - 1)
          BY <1>1, <1>2
        <5>3. k + 1 <= capacity' /\ (k + 1) - 1 = k
          BY <5>2
        <5> QED BY <5>1, <5>3
      <4>2. slot'[k] = s
        BY <1>2, <1>5
      <4> QED BY <3>1, <4>1, <4>2
    <3>2. CASE r # s
      <4>1. stage[r] \in Listed /\ returned[r] # 0 /\ returned'[r] = returned[r]
        BY <3>2, <2>2, <1>3 DEF Inv, TypeOK
      <4>2. returned[r] <= capacity /\ slot[returned[r] - 1] = r /\ returned[r] \in 1..MaxCapacity
        BY <4>1 DEF Inv, TypeOK, Home, IDs
      <4>3. returned[r] - 1 \in 0..(capacity - 1) /\ returned[r] - 1 \in 0..(capacity' - 1)
        BY <4>2, <1>1
      <4>4. longer[returned[r] - 1] = r
        BY <4>2, <4>3
      <4>5. slot'[returned[r] - 1] = r
        BY <4>3, <4>4, <1>5, <1>6
      <4> QED BY <4>1, <4>2, <4>5, <1>1
    <3> QED BY <3>1, <3>2
  <2>3. ASSUME NEW i \in 0..(capacity' - 1), slot'[i] \in Services
        PROVE  stage'[slot'[i]] \in Listed /\ returned'[slot'[i]] = i + 1
    <3>1. CASE i = k
      BY <3>1, <1>3, <1>5 DEF Inv, TypeOK, Listed
    <3>2. CASE i # k
      <4>1. slot'[i] = longer[i] /\ longer[i] \in Services
        BY <3>2, <2>3, <1>5
      <4>2. i \in 0..(capacity - 1) /\ longer[i] = slot[i] /\ longer[i] # s
        BY <4>1, <1>6
      <4>3. slot[i] \in Services /\ slot[i] # s /\ slot'[i] = slot[i]
        BY <4>1, <4>2
      <4>4. stage[slot[i]] \in Listed /\ returned[slot[i]] = i + 1
        BY <4>2, <4>3 DEF Inv, Home
      <4>5. stage'[slot[i]] = stage[slot[i]] /\ returned'[slot[i]] = returned[slot[i]]
        BY <4>3, <1>3 DEF Inv, TypeOK
      <4> QED BY <4>3, <4>4, <4>5
    <3> QED BY <3>1, <3>2
  <2>4. \A r \in Services :
          uiServiceID'[r] = IF stage'[r] \in {"running", "leaving"} THEN returned'[r] ELSE 0
    BY <1>3 DEF Inv, TypeOK, Home
  <2> QED BY <2>1, <2>2, <2>3, <2>4 DEF Home
<1>8. Written'
  <2> SUFFICES ASSUME NEW id \in issued PROVE id <= capacity' /\ slot'[id - 1] # Garbage
    BY DEF Written
  <2>1. id <= capacity /\ slot[id - 1] # Garbage /\ id \in 1..MaxCapacity
    BY DEF Inv, Written, TypeOK, IDs
  <2>2. id - 1 \in 0..(capacity - 1) /\ id - 1 \in 0..(capacity' - 1)
    <3>1. id \in Nat /\ 1 <= id /\ id <= capacity /\ capacity <= capacity'
      BY <2>1, <1>1
    <3> DEFINE c == capacity
               d == capacity'
    <3>2. c \in Nat /\ d \in Nat /\ id \in Nat /\ 1 <= id /\ id <= c /\ c <= d
      BY <3>1, <1>1
    <3> HIDE DEF c, d
    <3>3. id - 1 \in 0..(c - 1) /\ id - 1 \in 0..(d - 1)
      BY <3>2
    <3> QED BY <3>3 DEF c, d
  <2>3. slot'[id - 1] = s \/ slot'[id - 1] = slot[id - 1]
    BY <2>2, <1>5
  <2> QED BY <2>1, <2>3, <1>1, MarksAreNoHandles
<1>9. Took(s)
  <2>1. \E id \in IDs : returned' = [returned EXCEPT ![s] = id]
    <3>1. k + 1 \in IDs /\ returned' = [returned EXCEPT ![s] = k + 1]
      BY <1>3
    <3> QED BY <3>1, Zenon
  <2>2. iRefCount' = [iRefCount EXCEPT ![s] = @ + 1]
    BY <1>3
  <2> QED BY <2>1, <2>2 DEF Took
<1> QED BY <1>2, <1>4, <1>7, <1>8, <1>9 DEF Inv

LEMMA RegisterInv ==
  ASSUME Inv, NEW s \in Services, Register(s)
  PROVE  Inv' /\ (Took(s) \/ UNCHANGED <<iRefCount, returned>>)
<1>1. /\ capacity \in InitialCapacity..MaxCapacity /\ capacity \in Nat
      /\ slot \in [0..(capacity - 1) -> Contents]
      /\ free \in Seq(0..(capacity - 1))
      /\ Partitioned(slot, free, capacity)
  BY CapacitiesAreOrdered DEF Inv, TypeOK, SlotsPartitioned, Contents
<1>2. /\ stage[s] = "created"
      /\ stage' = [stage EXCEPT ![s] = "registered"]
      /\ UNCHANGED <<s_pServiceCenter, nameVars, uiServiceID, issued, held, found>>
  BY DEF Register
<1>3. CASE RegisterFree(s)
  <2>1. capacity' = capacity /\ free # <<>> /\ Occupy(s, slot, free) /\ refused' \in BOOLEAN
    BY <1>3 DEF RegisterFree, Inv, TypeOK
  <2> QED BY <1>1, <1>2, <2>1, OccupyInv
<1>4. CASE RegisterGrowing(s)
  <2>1. PICK fill \in [Added(capacity) -> {NULL, Garbage}] :
          Occupy(s, Enlarged(slot, capacity, fill), FreeStack(capacity, Grown(capacity)))
    BY <1>4 DEF RegisterGrowing
  <2> DEFINE longer == Enlarged(slot, capacity, fill)
             refill == FreeStack(capacity, Grown(capacity))
  <2>2. /\ capacity < MaxCapacity /\ free = <<>>
        /\ capacity' = Grown(capacity) /\ refused' \in BOOLEAN
    BY <1>4 DEF RegisterGrowing, Inv, TypeOK
  <2>3. capacity' \in InitialCapacity..MaxCapacity /\ capacity < capacity' /\ capacity' \in Nat
    BY <1>1, <2>2, GrownIsLarger, CapacitiesAreOrdered
  <2>0. capacity \in Nat
    BY <1>1
  <2>4. /\ longer \in [0..(capacity' - 1) -> Contents]
        /\ refill \in Seq(0..(capacity' - 1)) /\ refill # <<>>
        /\ Partitioned(longer, refill, capacity')
    BY <1>1, <2>2, GrowthKeepsPartition
  <2>5. longer = [i \in 0..(capacity' - 1) |-> IF i < capacity THEN slot[i] ELSE fill[i]]
    BY <2>2 DEF Enlarged
  <2>6. ASSUME NEW i \in 0..(capacity - 1) PROVE longer[i] = slot[i]
    <3>1. i < capacity /\ i \in 0..(capacity' - 1)
      <4>1. capacity <= capacity'
        BY <2>0, <2>3
      <4> QED BY <2>0, <2>3, <4>1, IndexStays
    <3> QED BY <3>1, <2>5
  <2>7. ASSUME NEW i \in capacity..(capacity' - 1) PROVE longer[i] \notin Services
    <3>1. i \in Added(capacity) /\ i \in 0..(capacity' - 1) /\ ~(i < capacity)
      BY <1>1, <2>2, <2>3 DEF Added
    <3>2. longer[i] = fill[i]
      BY <3>1, <2>5
    <3> QED BY <3>1, <3>2, MarksAreNoHandles
  <2>8. capacity <= capacity'
    BY <1>1, <2>3
  <2> HIDE DEF longer, refill
  <2>9. Occupy(s, longer, refill)
    BY <2>1 DEF longer, refill
  <2> QED BY <1>2, <2>2, <2>3, <2>4, <2>6, <2>7, <2>8, <2>9, OccupyInv
<1>5. CASE RegisterFull(s)
  <2>1. UNCHANGED <<slot, free, capacity, iRefCount, returned>> /\ refused' \in BOOLEAN
    BY <1>5 DEF RegisterFull, table
  <2>2. TypeOK' /\ SlotsPartitioned'
    BY <1>2, <2>1 DEF Inv, TypeOK, SlotsPartitioned, Stages, nameVars
  <2>3. \A r \in Services : stage'[r] = IF r = s THEN "registered" ELSE stage[r]
    BY <1>2 DEF Inv, TypeOK
  <2>4. returned[s] = 0
    BY <1>2 DEF Inv, Home
  <2>5. \A i \in 0..(capacity - 1) : slot[i] # s
    BY <1>2 DEF Inv, Home, Listed
  <2>6. Home'
    BY <1>2, <2>1, <2>3, <2>4, <2>5 DEF Inv, Home, Listed
  <2>7. Written'
    BY <1>2, <2>1 DEF Inv, Written
  <2>8. Inv'
    BY <2>2, <2>6, <2>7 DEF Inv
  <2> QED BY <2>1, <2>8
<1> QED BY <1>3, <1>4, <1>5, Zenon DEF Register

-----------------------------------------------------------------------------
LEMMA RemoveFirstTyped ==
  ASSUME serviceNameTree \in [Names -> IDs \cup {0}], doubtful \subseteq IDs,
         NEW id, RemoveName(id)
  PROVE  serviceNameTree' \in [Names -> IDs \cup {0}] /\ doubtful' \subseteq IDs /\ boundTo' = boundTo
<1>1. RemoveFirst(id) \in [Names -> IDs \cup {0}]
  BY DEF RemoveFirst
<1> QED BY <1>1 DEF RemoveName

LEMMA SetIDInv ==
  ASSUME Inv, NEW s \in Services, SetID(s)
  PROVE  Inv'
<1>1. /\ stage[s] = "registered"
      /\ \A r \in Services : stage'[r] = IF r = s THEN "running" ELSE stage[r]
      /\ \A r \in Services : uiServiceID'[r] = IF r = s THEN returned[s] ELSE uiServiceID[r]
      /\ UNCHANGED <<slot, free, capacity, returned>>
  BY DEF SetID, Inv, TypeOK, table
<1>2. TypeOK'
  <2>1. /\ stage' \in [Services -> Stages]
        /\ uiServiceID' \in [Services -> IDs \cup {0}]
        /\ issued' \subseteq IDs
    BY DEF SetID, Inv, TypeOK, Stages
  <2> QED BY <2>1 DEF SetID, Inv, TypeOK, table, nameVars
<1>3. SlotsPartitioned'
  BY <1>1 DEF Inv, SlotsPartitioned
<1>4. Home'
  <2>1. \A r \in Services : stage'[r] \in Listed <=> stage[r] \in Listed
    BY <1>1 DEF Listed
  <2>2. \A r \in Services : stage'[r] = "created" <=> stage[r] = "created"
    BY <1>1
  <2>3. \A r \in Services :
          uiServiceID'[r] = IF stage'[r] \in {"running", "leaving"} THEN returned'[r] ELSE 0
    BY <1>1 DEF Inv, Home
  <2> QED BY <1>1, <2>1, <2>2, <2>3 DEF Inv, Home
<1>5. Written'
  <2>1. returned[s] # 0 => returned[s] <= capacity /\ slot[returned[s] - 1] = s
    BY <1>1 DEF Inv, Home, Listed
  <2>2. issued' = issued \cup ({returned[s]} \ {0})
    BY DEF SetID
  <2> QED BY <1>1, <2>1, <2>2, MarksAreNoHandles DEF Inv, Written
<1> QED BY <1>2, <1>3, <1>4, <1>5 DEF Inv

LEMMA DeregisterInv ==
  ASSUME Inv, NEW s \in Services, Deregister(s)
  PROVE  Inv'
<1> DEFINE k == uiServiceID[s] - 1
<1>1. /\ stage[s] = "running"
      /\ stage' = [stage EXCEPT ![s] = "leaving"]
      /\ \A r \in Services : stage'[r] = IF r = s THEN "leaving" ELSE stage[r]
      /\ UNCHANGED <<s_pServiceCenter, capacity, uiServiceID, returned, issued, held, found,
                     refused>>
  BY DEF Deregister, Inv, TypeOK
<1>2. uiServiceID[s] = returned[s] /\ capacity \in Nat /\ uiServiceID[s] \in IDs \cup {0}
  BY <1>1, CapacitiesAreOrdered DEF Inv, Home, TypeOK
<1>3. CASE uiServiceID[s] # 0
  <2>1. k \in 0..(capacity - 1) /\ slot[k] = s /\ k + 1 = returned[s]
    BY <1>1, <1>2, <1>3 DEF Inv, Home, Listed, IDs
  <2>2. Hit(uiServiceID[s])
    BY <2>1 DEF Hit
  <2>3. /\ RemoveName(uiServiceID[s])
        /\ slot' = [slot EXCEPT ![k] = NULL]
        /\ free' = Append(free, k)
        /\ iRefCount' = [iRefCount EXCEPT ![s] = @ - 1]
    BY <1>3, <2>1, <2>2 DEF Deregister
  <2>4. slot \in [0..(capacity - 1) -> Contents] /\ free \in Seq(0..(capacity - 1))
    BY DEF Inv, TypeOK, Contents
  <2> HIDE DEF k
  <2>5. /\ free' \in Seq(0..(capacity - 1))
        /\ slot' \in [0..(capacity - 1) -> Contents]
        /\ SlotsPartitioned'
    <3>1. Partitioned(slot, free, capacity)
      BY DEF Inv, SlotsPartitioned
    <3>2. /\ Append(free, k) \in Seq(0..(capacity - 1))
          /\ [slot EXCEPT ![k] = NULL] \in [0..(capacity - 1) -> Contents]
          /\ Partitioned([slot EXCEPT ![k] = NULL], Append(free, k), capacity)
      BY <1>2, <2>1, <2>4, <3>1, PushKeepsPartition
    <3> QED BY <1>1, <2>3, <3>2 DEF SlotsPartitioned
  <2>6. TypeOK'
    <3>1. serviceNameTree' \in [Names -> IDs \cup {0}] /\ doubtful' \subseteq IDs /\ boundTo' = boundTo
      BY <2>3, RemoveFirstTyped DEF Inv, TypeOK
    <3>2. stage' \in [Services -> Stages] /\ iRefCount' \in [Services -> Int]
      BY <1>1, <2>3 DEF Inv, TypeOK, Stages
    <3> QED BY <1>1, <2>5, <3>1, <3>2 DEF Inv, TypeOK, Contents
  <2>7. \A i \in 0..(capacity - 1) : slot'[i] = IF i = k THEN NULL ELSE slot[i]
    BY <2>3, <2>4
  <2>8. Home'
    <3>1. ASSUME NEW r \in Services, stage'[r] \in Listed, returned'[r] # 0
          PROVE  returned'[r] <= capacity' /\ slot'[returned'[r] - 1] = r
      <4>1. r # s /\ stage[r] \in Listed /\ returned'[r] = returned[r]
        BY <3>1, <1>1 DEF Listed
      <4>2. returned[r] <= capacity /\ slot[returned[r] - 1] = r /\ returned[r] \in 1..MaxCapacity
        BY <3>1, <4>1 DEF Inv, Home, TypeOK, IDs
      <4>3. returned[r] - 1 \in 0..(capacity - 1)
        BY <4>2, <1>2, CapacitiesAreOrdered
      <4> QED BY <1>1, <2>1, <2>7, <4>1, <4>2, <4>3
    <3>2. ASSUME NEW i \in 0..(capacity' - 1), slot'[i] \in Services
          PROVE  stage'[slot'[i]] \in Listed /\ returned'[slot'[i]] = i + 1
      <4>1. i \in 0..(capacity - 1) /\ i # k /\ slot'[i] = slot[i]
        BY <3>2, <1>1, <2>7, MarksAreNoHandles
      <4>2. stage[slot[i]] \in Listed /\ returned[slot[i]] = i + 1
        BY <3>2, <4>1 DEF Inv, Home
      <4>3. slot[i] # s
        BY <2>1, <4>1, <4>2
      <4> QED BY <1>1, <3>2, <4>1, <4>2, <4>3
    <3>3. \A r \in Services : stage'[r] = "created" => returned'[r] = 0
      BY <1>1 DEF Inv, Home
    <3>4. \A r \in Services :
            uiServiceID'[r] = IF stage'[r] \in {"running", "leaving"} THEN returned'[r] ELSE 0
      BY <1>1 DEF Inv, Home
    <3> QED BY <3>1, <3>2, <3>3, <3>4 DEF Home
  <2>9. Written'
    <3> SUFFICES ASSUME NEW id \in issued PROVE id <= capacity /\ slot'[id - 1] # Garbage
      BY <1>1 DEF Written
    <3>1. id <= capacity /\ slot[id - 1] # Garbage /\ id \in 1..MaxCapacity
      BY DEF Inv, Written, TypeOK, IDs
    <3>2. id - 1 \in 0..(capacity - 1)
      BY <3>1, <1>2, CapacitiesAreOrdered
    <3> QED BY <3>1, <3>2, <2>7, MarksAreNoHandles
  <2> QED BY <2>5, <2>6, <2>8, <2>9 DEF Inv
<1>4. CASE uiServiceID[s] = 0
  <2>1. UNCHANGED <<nameVars, slot, free, iRefCount>>
    BY <1>4 DEF Deregister
  <2>2. TypeOK'
    BY <1>1, <2>1 DEF Inv, TypeOK, Stages, nameVars
  <2>3. \A i \in 0..(capacity - 1) : slot[i] # s
    <3> SUFFICES ASSUME NEW i \in 0..(capacity - 1), slot[i] = s PROVE FALSE
      OBVIOUS
    <3>1. returned[s] = i + 1 /\ i \in Nat
      BY <1>2 DEF Inv, Home
    <3> QED BY <3>1, <1>2, <1>4
  <2>4. Home'
    <3>1. \A i \in 0..(capacity' - 1) : slot'[i] \in Services =>
            stage'[slot'[i]] \in Listed /\ returned'[slot'[i]] = i + 1
      BY <1>1, <2>1, <2>3 DEF Inv, Home
    <3>2. \A r \in Services : stage'[r] \in Listed => stage[r] \in Listed
      BY <1>1 DEF Listed
    <3>3. \A r \in Services : stage'[r] = "created" => stage[r] = "created"
      BY <1>1
    <3>4. \A r \in Services :
            uiServiceID'[r] = IF stage'[r] \in {"running", "leaving"} THEN returned'[r] ELSE 0
      BY <1>1 DEF Inv, Home
    <3> QED BY <1>1, <2>1, <3>1, <3>2, <3>3, <3>4 DEF Inv, Home
  <2> QED BY <1>1, <2>1, <2>2, <2>4 DEF Inv, SlotsPartitioned, Written
<1> QED BY <1>3, <1>4

LEMMA LeaveInv ==
  ASSUME Inv, NEW s \in Services, Leave(s)
  PROVE  Inv'
<1>1. /\ stage[s] = "leaving"
      /\ \A r \in Services : stage'[r] = IF r = s THEN "gone" ELSE stage[r]
      /\ \A r \in Services : uiServiceID'[r] = IF r = s THEN 0 ELSE uiServiceID[r]
      /\ UNCHANGED <<slot, free, capacity, returned, issued>>
  BY DEF Leave, Inv, TypeOK, table
<1>2. TypeOK'
  <2>1. /\ stage' \in [Services -> Stages]
        /\ uiServiceID' \in [Services -> IDs \cup {0}]
        /\ iRefCount' \in [Services -> Int]
    BY DEF Leave, Inv, TypeOK, Stages
  <2> QED BY <2>1 DEF Leave, Inv, TypeOK, table, nameVars
<1>3. Home'
  <2>1. \A r \in Services : stage'[r] \in Listed <=> stage[r] \in Listed
    BY <1>1 DEF Listed
  <2>2. \A r \in Services :
          uiServiceID'[r] = IF stage'[r] \in {"running", "leaving"} THEN returned'[r] ELSE 0
    BY <1>1 DEF Inv, Home
  <2> QED BY <1>1, <2>1, <2>2 DEF Inv, Home
<1> QED BY <1>1, <1>2, <1>3 DEF Inv, SlotsPartitioned, Written

\* The steps that leave the longer and the services' stages alone.
LEMMA LookupInv ==
  ASSUME Inv,
         \/ \E t \in Threads : ThreadNext(t)
         \/ Clear
         \/ UNCHANGED vars
  PROVE  Inv'
<1>1. UNCHANGED <<slot, free, capacity, stage, returned, uiServiceID, issued>>
  BY DEF ThreadNext, BindName, FindName, UnbindName, Gain, Release, Clear, vars, table
<1>2. TypeOK'
  <2>1. ASSUME NEW id \in IDs, NEW n \in Names, BindName(id, n) PROVE TypeOK'
    <3>1. id - 1 \in 0..(capacity - 1)
      BY <2>1, CapacitiesAreOrdered DEF BindName, Inv, Written, TypeOK, IDs
    <3>2. slot[id - 1] \in Services \cup {NULL, Garbage}
      BY <3>1 DEF Inv, TypeOK
    <3>3. /\ serviceNameTree' \in [Names -> IDs \cup {0}]
          /\ boundTo' \in [Names -> Services \cup {NULL, Garbage}]
          /\ doubtful' \subseteq IDs
      BY <2>1, <3>2 DEF BindName, Inv, TypeOK
    <3> QED BY <1>1, <2>1, <3>3 DEF BindName, Inv, TypeOK
  <2>2. ASSUME NEW t \in Threads, NEW n \in Names, FindName(t, n) PROVE TypeOK'
    <3>1. found' \in [Threads -> IDs \cup {0}]
      BY <2>2 DEF FindName, Inv, TypeOK
    <3> QED BY <1>1, <2>2, <3>1 DEF FindName, Inv, TypeOK, nameVars
  <2>3. ASSUME NEW t \in Threads, UnbindName(t) PROVE TypeOK'
    <3>1. serviceNameTree' \in [Names -> IDs \cup {0}] /\ doubtful' \subseteq IDs /\ boundTo' = boundTo
      BY <2>3, RemoveFirstTyped DEF UnbindName, Inv, TypeOK
    <3>2. found' \in [Threads -> IDs \cup {0}]
      BY <2>3 DEF UnbindName, Inv, TypeOK
    <3> QED BY <1>1, <2>3, <3>1, <3>2 DEF UnbindName, Inv, TypeOK
  <2>4. ASSUME NEW t \in Threads, NEW id \in IDs, Gain(t, id) PROVE TypeOK'
    <3>1. held' \in [Threads -> Services \cup {NULL}] /\ iRefCount' \in [Services -> Int]
      BY <2>4 DEF Gain, Hit, Inv, TypeOK
    <3> QED BY <1>1, <2>4, <3>1 DEF Gain, Inv, TypeOK, nameVars
  <2>5. ASSUME NEW t \in Threads, Release(t) PROVE TypeOK'
    <3>1. held' \in [Threads -> Services \cup {NULL}] /\ iRefCount' \in [Services -> Int]
      BY <2>5 DEF Release, Inv, TypeOK
    <3> QED BY <1>1, <2>5, <3>1 DEF Release, Inv, TypeOK, nameVars
  <2>6. CASE Clear
    BY <1>1, <2>6 DEF Clear, Inv, TypeOK, nameVars
  <2>7. CASE UNCHANGED vars
    BY <1>1, <2>7 DEF vars, Inv, TypeOK, nameVars
  <2> QED BY <2>1, <2>2, <2>3, <2>4, <2>5, <2>6, <2>7 DEF ThreadNext
<1> QED BY <1>1, <1>2 DEF Inv, SlotsPartitioned, Home, Written

LEMMA NextInv == Inv /\ [Next]_vars => Inv'
<1> SUFFICES ASSUME Inv, [Next]_vars PROVE Inv'
  OBVIOUS
<1>1. CASE \E s \in Services : ServiceNext(s)
  BY <1>1, RegisterInv, SetIDInv, DeregisterInv, LeaveInv DEF ServiceNext
<1>2. CASE \/ \E t \in Threads : ThreadNext(t)
           \/ Clear
           \/ UNCHANGED vars
  BY <1>2, LookupInv
<1> QED BY <1>1, <1>2 DEF Next

LEMMA AlwaysInv == Spec => []Inv
BY InitInv, NextInv, PTL DEF Spec

(***************************************************************************)
(* No slot is lost and none is given out twice.                            *)
(***************************************************************************)
THEOREM SlotsArePartitioned == Spec => []SlotsPartitioned
<1>1. Inv => SlotsPartitioned
  BY DEF Inv
<1> QED BY <1>1, AlwaysInv, PTL

(***************************************************************************)
(* The published ID of a running service leads back to it.                 *)
(***************************************************************************)
THEOREM IdsLeadBack == Spec => []IdsLeadHome
<1>1. Inv => IdsLeadHome
  BY DEF Inv, Home, Written, IdsLeadHome, Listed
<1> QED BY <1>1, AlwaysInv, PTL

-----------------------------------------------------------------------------
(* Who holds references to s: the service itself (its creator's and its
   watcher's, as one), the center, and the threads that gained it. *)

Own(s) == IF stage[s] = "gone" THEN 0 ELSE 1

Center(s) == IF stage[s] \in Listed /\ returned[s] # 0 THEN 1 ELSE 0

Holders(s) == {t \in Threads : held[t] = s}

RefsCounted == \A s \in Services : iRefCount[s] = Own(s) + Center(s) + Cardinality(Holders(s))

LEMMA HoldersAreFinite ==
  ASSUME NEW S \in SUBSET Threads
  PROVE  IsFiniteSet(S) /\ Cardinality(S) \in Nat
BY ThreadsAreFinite, FS_Subset, FS_CardinalityType

LEMMA InitCounted == Init => RefsCounted
<1> SUFFICES ASSUME Init, NEW s \in Services
             PROVE iRefCount[s] = Own(s) + Center(s) + Cardinality(Holders(s))
  BY DEF RefsCounted
<1>1. Holders(s) = {}
  BY MarksAreNoHandles DEF Init, Holders
<1>2. Cardinality(Holders(s)) = 0
  BY <1>1, FS_EmptySet
<1>3. iRefCount[s] = 1 /\ Own(s) = 1 /\ Center(s) = 0
  BY DEF Init, Own, Center, Listed
<1> QED BY <1>2, <1>3

LEMMA ServiceCounted ==
  ASSUME Inv, RefsCounted, NEW s \in Services, ServiceNext(s)
  PROVE  RefsCounted'
<1> SUFFICES ASSUME NEW r \in Services
             PROVE iRefCount'[r] = Own(r)' + Center(r)' + Cardinality(Holders(r)')
  BY DEF RefsCounted
<1>1. held' = held
  BY DEF ServiceNext, Register, SetID, Deregister, Leave
<1>2. Holders(r)' = Holders(r) /\ Cardinality(Holders(r)) \in Nat
  BY <1>1, HoldersAreFinite DEF Holders
<1>3. iRefCount[r] = Own(r) + Center(r) + Cardinality(Holders(r))
  BY DEF RefsCounted
<1>4. iRefCount \in [Services -> Int] /\ stage \in [Services -> Stages]
      /\ returned \in [Services -> IDs \cup {0}]
  BY DEF Inv, TypeOK
<1>5. iRefCount'[r] - iRefCount[r] = (Own(r)' - Own(r)) + (Center(r)' - Center(r))
  <2>1. CASE Register(s)
    <3>1. stage[s] = "created" /\ stage' = [stage EXCEPT ![s] = "registered"] /\ returned[s] = 0
      BY <2>1 DEF Register, Inv, Home
    <3>2. CASE UNCHANGED <<iRefCount, returned>>
      BY <3>1, <3>2, <1>4 DEF Own, Center, Listed
    <3>3. CASE Took(s)
      <4>1. PICK id \in IDs : returned' = [returned EXCEPT ![s] = id]
        BY <3>3 DEF Took
      <4>2. id # 0
        BY DEF IDs
      <4>3. iRefCount' = [iRefCount EXCEPT ![s] = @ + 1]
        BY <3>3 DEF Took
      <4> QED BY <3>1, <4>1, <4>2, <4>3, <1>4 DEF Own, Center, Listed
    <3> QED BY <2>1, <3>2, <3>3, RegisterInv
  <2>2. CASE SetID(s)
    BY <2>2, <1>4 DEF SetID, Own, Center, Listed
  <2>3. CASE Deregister(s)
    <3>1. /\ stage[s] = "running" /\ stage' = [stage EXCEPT ![s] = "leaving"]
          /\ returned' = returned /\ uiServiceID[s] = returned[s]
      BY <2>3 DEF Deregister, Inv, Home
    <3>2. uiServiceID[s] # 0 => slot[uiServiceID[s] - 1] = s
      BY <3>1 DEF Inv, Home, Listed
    <3>3. iRefCount' = IF returned[s] # 0 THEN [iRefCount EXCEPT ![s] = @ - 1] ELSE iRefCount
      BY <2>3, <3>1, <3>2 DEF Deregister, Hit
    <3> QED BY <3>1, <3>3, <1>4 DEF Own, Center, Listed
  <2>4. CASE Leave(s)
    BY <2>4, <1>4 DEF Leave, Own, Center, Listed
  <2> QED BY <2>1, <2>2, <2>3, <2>4 DEF ServiceNext
<1>6. Own(r) \in Int /\ Own(r)' \in Int /\ Center(r) \in Int /\ Center(r)' \in Int
      /\ iRefCount'[r] \in Int /\ iRefCount[r] \in Int
  <2>1. Inv'
    BY RegisterInv, SetIDInv, DeregisterInv, LeaveInv DEF ServiceNext
  <2>2. iRefCount' \in [Services -> Int]
    BY <2>1 DEF Inv, TypeOK
  <2>3. Own(r) \in Int /\ Center(r) \in Int
    BY DEF Own, Center
  <2>4. Own(r)' \in Int /\ Center(r)' \in Int
    BY DEF Own, Center
  <2> QED BY <2>2, <2>3, <2>4, <1>4
<1>7. Cardinality(Holders(r)) \in Int
  BY <1>2
<1> DEFINE c == Center(r)
           c1 == Center(r)'
           o == Own(r)
           o1 == Own(r)'
           h == Cardinality(Holders(r))
           n == iRefCount[r]
           n1 == iRefCount'[r]
<1> HIDE DEF c, c1, o, o1, h, n, n1
<1>8. n = o + c + h /\ n1 - n = (o1 - o) + (c1 - c)
  BY <1>3, <1>5 DEF c, c1, o, o1, h, n, n1
<1>9. c \in Int /\ c1 \in Int /\ o \in Int /\ o1 \in Int /\ h \in Int /\ n \in Int /\ n1 \in Int
  BY <1>6, <1>7 DEF c, c1, o, o1, h, n, n1
<1>10. n1 = o1 + c1 + h
  BY <1>8, <1>9
<1> QED BY <1>2, <1>10 DEF c1, o1, h, n1

LEMMA GainCounted ==
  ASSUME Inv, RefsCounted, NEW t \in Threads, NEW id \in IDs, Gain(t, id)
  PROVE  RefsCounted'
<1> DEFINE s == slot[id - 1]
<1>1. /\ held[t] = NULL /\ s \in Services
      /\ held' = [held EXCEPT ![t] = s]
      /\ iRefCount' = [iRefCount EXCEPT ![s] = @ + 1]
      /\ UNCHANGED <<stage, returned>>
  BY DEF Gain, Hit
<1> HIDE DEF s
<1> SUFFICES ASSUME NEW r \in Services
             PROVE iRefCount'[r] = Own(r)' + Center(r)' + Cardinality(Holders(r)')
  BY DEF RefsCounted
<1>2. /\ iRefCount[r] = Own(r) + Center(r) + Cardinality(Holders(r))
      /\ Own(r)' = Own(r) /\ Center(r)' = Center(r)
      /\ Own(r) \in Int /\ Center(r) \in Int
  BY <1>1 DEF RefsCounted, Own, Center
<1>3. iRefCount \in [Services -> Int] /\ held \in [Threads -> Services \cup {NULL}]
  BY DEF Inv, TypeOK
<1>4. IsFiniteSet(Holders(r)) /\ Cardinality(Holders(r)) \in Int
  BY HoldersAreFinite DEF Holders
<1>5. CASE r = s
  <2>1. Holders(r)' = Holders(r) \cup {t} /\ t \notin Holders(r)
    BY <1>1, <1>3, <1>5, MarksAreNoHandles DEF Holders
  <2>2. Cardinality(Holders(r)') = Cardinality(Holders(r)) + 1
    BY <2>1, <1>4, FS_AddElement
  <2>3. iRefCount'[r] = iRefCount[r] + 1
    BY <1>1, <1>3, <1>5
  <2> QED BY <2>2, <2>3, <1>2, <1>4
<1>6. CASE r # s
  <2>1. Holders(r)' = Holders(r)
    BY <1>1, <1>3, <1>6, MarksAreNoHandles DEF Holders
  <2>2. iRefCount'[r] = iRefCount[r]
    BY <1>1, <1>3, <1>6
  <2> QED BY <2>1, <2>2, <1>2
<1> QED BY <1>5, <1>6

LEMMA ReleaseCounted ==
  ASSUME Inv, RefsCounted, NEW t \in Threads, Release(t)
  PROVE  RefsCounted'
<1> DEFINE s == held[t]
<1>1. /\ s \in Services
      /\ held' = [held EXCEPT ![t] = NULL]
      /\ iRefCount' = [iRefCount EXCEPT ![s] = @ - 1]
      /\ UNCHANGED <<stage, returned>>
  BY DEF Release, Inv, TypeOK
<1> SUFFICES ASSUME NEW r \in Services
             PROVE iRefCount'[r] = Own(r)' + Center(r)' + Cardinality(Holders(r)')
  BY DEF RefsCounted
<1>2. /\ iRefCount[r] = Own(r) + Center(r) + Cardinality(Holders(r))
      /\ Own(r)' = Own(r) /\ Center(r)' = Center(r)
      /\ Own(r) \in Int /\ Center(r) \in Int
  BY <1>1 DEF RefsCounted, Own, Center
<1>3. iRefCount \in [Services -> Int] /\ held \in [Threads -> Services \cup {NULL}]
  BY DEF Inv, TypeOK
<1>4. IsFiniteSet(Holders(r)) /\ Cardinality(Holders(r)) \in Int
  BY HoldersAreFinite DEF Holders
<1>5. CASE r = s
  <2>1. Holders(r)' = Holders(r) \ {t} /\ t \in Holders(r)
    BY <1>1, <1>3, <1>5, MarksAreNoHandles DEF Holders
  <2>2. Cardinality(Holders(r)') = Cardinality(Holders(r)) - 1
    BY <2>1, <1>4, FS_RemoveElement
  <2>3. iRefCount'[r] = iRefCount[r] - 1
    BY <1>1, <1>3, <1>5
  <2> QED BY <2>2, <2>3, <1>2, <1>4
<1>6. CASE r # s
  <2>1. Holders(r)' = Holders(r)
    BY <1>1, <1>3, <1>6, MarksAreNoHandles DEF Holders
  <2>2. iRefCount'[r] = iRefCount[r]
    BY <1>1, <1>3, <1>6
  <2> QED BY <2>1, <2>2, <1>2
<1> QED BY <1>5, <1>6

LEMMA NextCounted == Inv /\ RefsCounted /\ [Next]_vars => RefsCounted'
<1> SUFFICES ASSUME Inv, RefsCounted, [Next]_vars PROVE RefsCounted'
  OBVIOUS
<1>1. CASE \E s \in Services : ServiceNext(s)
  BY <1>1, ServiceCounted
<1>2. ASSUME UNCHANGED <<iRefCount, stage, returned, held>> PROVE RefsCounted'
  BY <1>2 DEF RefsCounted, Own, Center, Holders
<1>3. ASSUME NEW t \in Threads, ThreadNext(t) PROVE RefsCounted'
  BY <1>2, <1>3, GainCounted, ReleaseCounted DEF ThreadNext, BindName, FindName, UnbindName
<1>4. CASE Clear \/ UNCHANGED vars
  BY <1>2, <1>4 DEF Clear, vars
<1> QED BY <1>1, <1>3, <1>4 DEF Next

(***************************************************************************)
(* What a slot or a thread refers to has not been freed: each such         *)
(* reference is one of those that iRefCount counts.                        *)
(***************************************************************************)
THEOREM NothingDangles == Spec => []NoDangling
<1>1. Inv /\ RefsCounted => NoDangling
  <2> SUFFICES ASSUME Inv, RefsCounted PROVE NoDangling
    OBVIOUS
  <2>1. ASSUME NEW s \in Services PROVE Own(s) \in Nat /\ Cardinality(Holders(s)) \in Nat
    BY HoldersAreFinite DEF Own, Holders
  <2>2. ASSUME NEW i \in 0..(capacity - 1), slot[i] \in Services PROVE iRefCount[slot[i]] > 0
    <3> DEFINE s == slot[i]
    <3>1. stage[s] \in Listed /\ returned[s] = i + 1 /\ i + 1 # 0
      BY <2>2 DEF Inv, Home
    <3>2. Center(s) = 1
      BY <3>1 DEF Center
    <3>3. iRefCount[s] = Own(s) + 1 + Cardinality(Holders(s))
      BY <2>2, <3>2 DEF RefsCounted
    <3> QED BY <2>1, <2>2, <3>3
  <2>3. ASSUME NEW t \in Threads, held[t] # NULL PROVE iRefCount[held[t]] > 0
    <3> DEFINE s == held[t]
    <3>1. s \in Services
      BY <2>3 DEF Inv, TypeOK
    <3>2. Center(s) \in Nat
      BY DEF Center
    <3>3. IsFiniteSet(Holders(s)) /\ Cardinality(Holders(s)) \in Nat /\ Holders(s) # {}
      BY HoldersAreFinite DEF Holders
    <3>4. Cardinality(Holders(s)) # 0
      BY <3>3, FS_EmptySet
    <3>5. iRefCount[s] = Own(s) + Center(s) + Cardinality(Holders(s))
      BY <3>1 DEF RefsCounted
    <3> QED BY <2>1, <3>1, <3>2, <3>3, <3>4, <3>5
  <2> QED BY <2>2, <2>3 DEF NoDangling
<1>2. Spec => [](Inv /\ RefsCounted)
  BY InitInv, NextInv, InitCounted, NextCounted, PTL DEF Spec
<1> QED BY <1>1, <1>2, PTL
-----------------------------------------------------------------------------
(* A name is bound to a published ID.  Unless that ID is doubtful, it leads to
   the service that was meant and has no other name: the one name the
   deregistration removes is then all it has. *)
NameInv(n) ==
  LET id == serviceNameTree[n] IN
  id # 0 => /\ id \in issued
            /\ id \notin doubtful =>
                 /\ slot[id - 1] \in Services
                 /\ slot[id - 1] = boundTo[n]
                 /\ NamesOf(id) = {n}

NamesInv == \A n \in Names : NameInv(n)

\* What one name needs: its slot's service stays, and what the tree says of it.
LEMMA NameKept ==
  ASSUME NEW n \in Names, NameInv(n),
         LET id == serviceNameTree[n] IN
           id # 0 /\ id \notin doubtful /\ slot[id - 1] \in Services => slot'[id - 1] = slot[id - 1],
         UNCHANGED nameVars, issued \subseteq issued'
  PROVE  NameInv(n)'
BY DEF NameInv, NamesOf, nameVars

\* One of the ID's names goes; a name that is left leads where it led.
LEMMA NameRemoved ==
  ASSUME Inv, NamesInv, NEW id \in IDs, RemoveName(id), NEW n \in Names
  PROVE  /\ serviceNameTree'[n] = 0 \/ serviceNameTree'[n] = serviceNameTree[n]
         /\ serviceNameTree'[n] = id => id \in doubtful'
         /\ serviceNameTree'[n] # 0 =>
              (serviceNameTree'[n] \in doubtful' <=> serviceNameTree[n] \in doubtful)
<1>1. \A m \in Names :
        serviceNameTree'[m] = IF m \in NamesOf(id) /\ \A o \in NamesOf(id) : m <= o
                              THEN 0 ELSE serviceNameTree[m]
  BY DEF RemoveName, RemoveFirst
<1>2. doubtful' = {d \in doubtful : \E m \in Names : serviceNameTree'[m] = d}
  BY DEF RemoveName
<1>3. serviceNameTree'[n] = 0 \/ serviceNameTree'[n] = serviceNameTree[n]
  BY <1>1
<1>4. serviceNameTree'[n] # 0 =>
        (serviceNameTree'[n] \in doubtful' <=> serviceNameTree[n] \in doubtful)
  BY <1>2, <1>3
<1>5. ASSUME serviceNameTree'[n] = id PROVE id \in doubtful'
  <2>1. id # 0 /\ serviceNameTree[n] = id
    BY <1>3, <1>5 DEF IDs
  <2>2. id \in doubtful
    <3> SUFFICES ASSUME id \notin doubtful PROVE FALSE
      OBVIOUS
    <3>1. NamesOf(id) = {n}
      BY <2>1 DEF NamesInv, NameInv
    <3>2. n <= n
      BY NamesAreOrdered
    <3> QED BY <1>1, <1>5, <2>1, <3>1, <3>2
  <2> QED BY <1>4, <1>5, <2>1, <2>2
<1> QED BY <1>3, <1>4, <1>5

LEMMA RemoveKeepsName ==
  ASSUME Inv, NamesInv, NEW id \in IDs, RemoveName(id), NEW n \in Names, issued' = issued,
         \A i \in IDs : i # id => slot'[i - 1] = slot[i - 1]
  PROVE  NameInv(n)'
<1>1. CASE serviceNameTree'[n] = 0
  BY <1>1 DEF NameInv
<1>2. CASE serviceNameTree'[n] # 0
  <2>1. PICK d : d = serviceNameTree'[n]
    OBVIOUS
  <2>2. d # 0 /\ serviceNameTree[n] = d /\ (d \in doubtful' <=> d \in doubtful) /\ d \in IDs
    BY <1>2, <2>1, NameRemoved DEF Inv, TypeOK
  <2>3. d \in issued'
    BY <2>2 DEF NamesInv, NameInv
  <2>4. ASSUME d \notin doubtful'
        PROVE  slot'[d - 1] \in Services /\ slot'[d - 1] = boundTo'[n] /\ NamesOf(d)' = {n}
    <3>1. d # id /\ slot'[d - 1] = slot[d - 1]
      BY <2>1, <2>2, <2>4, NameRemoved
    <3>2. boundTo' = boundTo /\ slot[d - 1] \in Services /\ slot[d - 1] = boundTo[n] /\ NamesOf(d) = {n}
      BY <2>2, <2>4 DEF NamesInv, NameInv, RemoveName
    <3>3. NamesOf(d)' \subseteq NamesOf(d)
      BY <2>2, NameRemoved DEF NamesOf
    <3>4. n \in NamesOf(d)'
      BY <2>1 DEF NamesOf
    <3> QED BY <3>1, <3>2, <3>3, <3>4
  <2> QED BY <2>1, <2>3, <2>4 DEF NameInv
<1> QED BY <1>1, <1>2

LEMMA BindKeepsNames ==
  ASSUME Inv, NamesInv, NEW id \in IDs, NEW n \in Names, BindName(id, n)
  PROVE  NamesInv'
<1>1. /\ id \in issued /\ serviceNameTree[n] = 0 /\ id # 0
      /\ \A m \in Names : serviceNameTree'[m] = IF m = n THEN id ELSE serviceNameTree[m]
      /\ \A m \in Names : boundTo'[m] = IF m = n THEN slot[id - 1] ELSE boundTo[m]
      /\ UNCHANGED <<slot, issued>>
  BY DEF BindName, Inv, TypeOK, table, IDs
<1>2. doubtful \subseteq doubtful'
      /\ (id \notin doubtful' => Registered(id) /\ NamesOf(id) = {})
  BY DEF BindName
<1> SUFFICES ASSUME NEW m \in Names PROVE NameInv(m)'
  BY DEF NamesInv
<1>3. CASE m = n
  <2>1. id \notin doubtful' => slot[id - 1] \in Services /\ NamesOf(id) = {}
    BY <1>2 DEF Registered
  <2>2. NamesOf(id) = {} => NamesOf(id)' = {n}
    BY <1>1 DEF NamesOf
  <2> QED BY <1>1, <1>3, <2>1, <2>2 DEF NameInv
<1>4. CASE m # n
  <2>1. PICK d : d = serviceNameTree[m]
    OBVIOUS
  <2>2. CASE d = 0
    BY <1>1, <1>4, <2>1, <2>2 DEF NameInv
  <2>3. CASE d # 0
    <3>1. d = id => id \in doubtful'
      BY <1>2, <2>1 DEF NamesOf
    <3>2. d # id => NamesOf(d)' = NamesOf(d)
      BY <1>1, <2>3 DEF NamesOf
    <3>3. NameInv(m)
      BY DEF NamesInv
    <3> QED BY <1>1, <1>2, <1>4, <2>1, <2>3, <3>1, <3>2, <3>3 DEF NameInv
  <2> QED BY <2>2, <2>3
<1> QED BY <1>3, <1>4

LEMMA RegisterKeepsNames ==
  ASSUME Inv, NamesInv, NEW s \in Services, Register(s)
  PROVE  NamesInv'
<1>1. UNCHANGED nameVars /\ issued' = issued
  BY DEF Register
<1>2. capacity \in InitialCapacity..MaxCapacity /\ capacity \in Nat
  BY CapacitiesAreOrdered DEF Inv, TypeOK
<1>3. ASSUME NEW id \in issued, slot[id - 1] \in Services PROVE slot'[id - 1] = slot[id - 1]
  <2>1. id - 1 \in 0..(capacity - 1)
    <3>1. id <= capacity /\ id \in 1..MaxCapacity
      BY DEF Inv, Written, TypeOK, IDs
    <3> QED BY <1>2, <3>1
  <2>2. CASE RegisterFree(s)
    <3>1. slot' = [slot EXCEPT ![Top(free)] = s] /\ free # <<>>
      BY <2>2 DEF RegisterFree, Occupy
    <3>2. slot[Top(free)] \notin Services
      BY <3>1, PopKeepsPartition, <1>2 DEF Inv, TypeOK, SlotsPartitioned, Contents
    <3> QED BY <1>3, <2>1, <3>1, <3>2, <1>2 DEF Inv, TypeOK
  <2>3. CASE RegisterGrowing(s)
    <3>1. PICK fill \in [Added(capacity) -> {NULL, Garbage}] :
            Occupy(s, Enlarged(slot, capacity, fill), FreeStack(capacity, Grown(capacity)))
      BY <2>3 DEF RegisterGrowing
    <3> DEFINE longer == Enlarged(slot, capacity, fill)
               refill == FreeStack(capacity, Grown(capacity))
               c == Grown(capacity)
    <3>2. capacity < MaxCapacity /\ free = <<>>
      BY <2>3 DEF RegisterGrowing
    <3>3. c \in Nat /\ capacity < c
      BY <1>2, <3>2, GrownIsLarger, CapacitiesAreOrdered
    <3>4. /\ longer \in [0..(c - 1) -> Contents]
          /\ refill \in Seq(0..(c - 1)) /\ refill # <<>>
          /\ Partitioned(longer, refill, c)
      BY <1>2, <3>2, GrowthKeepsPartition DEF Inv, TypeOK, SlotsPartitioned, Contents
    <3>5. longer = [i \in 0..(c - 1) |-> IF i < capacity THEN slot[i] ELSE fill[i]]
      BY DEF Enlarged
    <3>6. id - 1 < capacity /\ id - 1 \in 0..(c - 1)
      BY <1>2, <2>1, <3>3, IndexStays
    <3>7. longer[id - 1] = slot[id - 1]
      BY <3>5, <3>6
    <3> HIDE DEF longer, refill, c
    <3>8. Top(refill) \in 0..(c - 1) /\ longer[Top(refill)] \notin Services
      BY <3>3, <3>4, PopKeepsPartition
    <3>9. slot' = [longer EXCEPT ![Top(refill)] = s]
      BY <3>1 DEF Occupy, longer, refill
    <3> QED BY <1>3, <3>4, <3>6, <3>7, <3>8, <3>9
  <2>4. CASE RegisterFull(s)
    BY <2>4 DEF RegisterFull, table
  <2> QED BY <2>2, <2>3, <2>4, Zenon DEF Register
<1>4. ASSUME NEW n \in Names PROVE NameInv(n)'
  <2>1. NameInv(n)
    BY DEF NamesInv
  <2>2. serviceNameTree[n] # 0 => serviceNameTree[n] \in issued
    BY <2>1 DEF NameInv
  <2> QED BY <1>1, <1>3, <2>1, <2>2, NameKept
<1> QED BY <1>4 DEF NamesInv

LEMMA DeregisterKeepsNames ==
  ASSUME Inv, NamesInv, NEW s \in Services, Deregister(s)
  PROVE  NamesInv'
<1>1. PICK id : id = uiServiceID[s]
  OBVIOUS
<1>2. id \in IDs \cup {0} /\ issued' = issued
  BY <1>1 DEF Deregister, Inv, TypeOK
<1>3. CASE id # 0 /\ Hit(id)
  <2>1. RemoveName(id) /\ slot' = [slot EXCEPT ![id - 1] = NULL] /\ id \in IDs
    BY <1>1, <1>2, <1>3 DEF Deregister
  <2>2. \A i \in IDs : i # id => slot'[i - 1] = slot[i - 1]
    <3> SUFFICES ASSUME NEW i \in IDs, i # id PROVE slot'[i - 1] = slot[i - 1]
      OBVIOUS
    <3>1. i - 1 # id - 1
      BY <2>1, CapacitiesAreOrdered DEF IDs
    <3> QED BY <2>1, <3>1
  <2> QED BY <1>2, <2>1, <2>2, RemoveKeepsName DEF NamesInv
<1>4. CASE ~(id # 0 /\ Hit(id))
  <2>1. UNCHANGED nameVars /\ slot' = slot
    BY <1>1, <1>4 DEF Deregister
  <2> QED BY <1>2, <2>1, NameKept DEF NamesInv
<1> QED BY <1>3, <1>4

LEMMA NextKeepsNames == Inv /\ NamesInv /\ [Next]_vars => NamesInv'
<1> SUFFICES ASSUME Inv, NamesInv, [Next]_vars PROVE NamesInv'
  OBVIOUS
<1>1. ASSUME UNCHANGED <<nameVars, slot>>, issued \subseteq issued' PROVE NamesInv'
  BY <1>1, NameKept DEF NamesInv
<1>2. ASSUME NEW s \in Services, ServiceNext(s) PROVE NamesInv'
  <2>1. CASE SetID(s) \/ Leave(s)
    BY <1>1, <2>1 DEF SetID, Leave, table
  <2> QED BY <1>2, <2>1, RegisterKeepsNames, DeregisterKeepsNames DEF ServiceNext
<1>3. ASSUME NEW t \in Threads, ThreadNext(t) PROVE NamesInv'
  <2>1. CASE UnbindName(t)
    <3>1. PICK id : id = found[t]
      OBVIOUS
    <3>2. id \in IDs /\ RemoveName(id) /\ slot' = slot /\ issued' = issued
      BY <2>1, <3>1 DEF UnbindName, Inv, TypeOK, table
    <3> QED BY <3>2, RemoveKeepsName DEF NamesInv
  <2>2. CASE Release(t) \/ (\E n \in Names : FindName(t, n)) \/ (\E id \in IDs : Gain(t, id))
    BY <1>1, <2>2 DEF Release, FindName, Gain, table
  <2> QED BY <1>3, <2>1, <2>2, BindKeepsNames DEF ThreadNext
<1>4. CASE Clear \/ UNCHANGED vars
  BY <1>1, <1>4 DEF Clear, vars, table
<1> QED BY <1>2, <1>3, <1>4 DEF Next

(***************************************************************************)
(* A name leads to the service it was bound to or to none, also after the  *)
(* slot has changed hands, unless its ID was named twice or while it was   *)
(* unregistered.                                                           *)
(***************************************************************************)
THEOREM NamesAreKept == Spec => []NamesFollowServices
<1>1. Init => NamesInv
  BY DEF Init, NamesInv, NameInv
<1>2. NamesInv => NamesFollowServices
  BY DEF NamesInv, NameInv, NamesFollowServices
<1>3. Spec => [](Inv /\ NamesInv)
  BY <1>1, InitInv, NextInv, NextKeepsNames, PTL DEF Spec
<1> QED BY <1>2, <1>3, PTL
=============================================================================
