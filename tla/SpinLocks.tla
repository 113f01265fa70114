----------------------------- MODULE SpinLocks -----------------------------
(***************************************************************************)
(* rwSpinLock_t.h and spinLock_t.h, one atomic operation a step.  iBits is *)
(* an integer: 1 for a writer, 2 for an upgrader, 4 for every reader, and  *)
(* the reader that was counted but has to back out.  The loops around the  *)
(* tries are the threads' trying again.                                    *)
(***************************************************************************)
EXTENDS Integers, FiniteSets

CONSTANT Lockers  \* the threads

ASSUME LockersAreFinite == IsFiniteSet(Lockers)

VARIABLES iBits,  \* rwSpinLock_s.iBits
          holds,  \* what each thread holds of it, or is in the middle of
          flag,   \* spinLock_s.flag
          owner   \* the threads inside the spin lock

lockVars == <<iBits, holds, flag, owner>>
rwVars == <<iBits, holds>>
spinVars == <<flag, owner>>

LockInit == /\ iBits = 0
            /\ holds = [t \in Lockers |-> "nothing"]
            /\ flag = FALSE
            /\ owner = {}

RW_WRITER   == 1
RW_UPGRADED == 2
RW_READER   == 4

Writing(bits)   == bits % 2 = 1
Upgrading(bits) == (bits \div 2) % 2 = 1
WithUpgraded(bits) == IF Upgrading(bits) THEN bits ELSE bits + RW_UPGRADED

\* fetch_and with ~(RW_WRITER | RW_UPGRADED)
Neither(bits) == (bits \div 4) * 4

\* One atomic operation on iBits, from one state of the thread to another.
Atomically(t, from, bits, to) ==
  /\ holds[t] = from
  /\ iBits' = bits
  /\ holds' = [holds EXCEPT ![t] = to]
  /\ UNCHANGED spinVars

TryRdLock(t) ==
  Atomically(t, "nothing", iBits + RW_READER,
             IF Writing(iBits) \/ Upgrading(iBits) THEN "backing out" ELSE "read")

BackOut(t)  == Atomically(t, "backing out", iBits - RW_READER, "nothing")
RdUnlock(t) == Atomically(t, "read", iBits - RW_READER, "nothing")

TryWrLock(t) == iBits = 0 /\ Atomically(t, "nothing", RW_WRITER, "write")

\* Faulty variant: the bit of an upgrader that waits is left behind.
WrUnlockKeeping(t) == Atomically(t, "write", iBits - RW_WRITER, "nothing")

WrUnlock(t) == Atomically(t, "write", Neither(iBits), "nothing")

WrUnlockRdLock(t)     == Atomically(t, "write", iBits + RW_READER, "write to read")
WrUnlockRdLockEnds(t) == Atomically(t, "write to read", Neither(iBits), "read")

\* A try that fails leaves the bit to whoever holds the lock.
TryUpLock(t) ==
  Atomically(t, "nothing", WithUpgraded(iBits),
             IF Writing(iBits) \/ Upgrading(iBits) THEN "nothing" ELSE "upgrade")

UpUnlock(t)       == Atomically(t, "upgrade", iBits - RW_UPGRADED, "nothing")
UpUnlockWrLock(t) == iBits = RW_UPGRADED /\ Atomically(t, "upgrade", RW_WRITER, "write")
UpUnlockRdLock(t) == Atomically(t, "upgrade", iBits + RW_READER - RW_UPGRADED, "read")

WrUnlockUpLock(t)     == Atomically(t, "write", WithUpgraded(iBits), "write to upgrade")
WrUnlockUpLockEnds(t) == Atomically(t, "write to upgrade", iBits - RW_WRITER, "upgrade")

\* spinLock_t.h: the first try and those of the loop, and spinLock_trylock, set the flag.
TestAndSet(t) ==
  /\ t \notin owner
  /\ flag' = TRUE
  /\ owner' = IF flag THEN owner ELSE owner \cup {t}
  /\ UNCHANGED rwVars

SpinUnlock(t) ==
  /\ t \in owner
  /\ flag' = FALSE
  /\ owner' = owner \ {t}
  /\ UNCHANGED rwVars

LockNext == \E t \in Lockers :
  \/ TryRdLock(t) \/ BackOut(t) \/ RdUnlock(t)
  \/ TryWrLock(t) \/ WrUnlock(t)
  \/ WrUnlockRdLock(t) \/ WrUnlockRdLockEnds(t)
  \/ TryUpLock(t) \/ UpUnlock(t) \/ UpUnlockWrLock(t) \/ UpUnlockRdLock(t)
  \/ WrUnlockUpLock(t) \/ WrUnlockUpLockEnds(t)
  \/ TestAndSet(t) \/ SpinUnlock(t)

LockSpec == LockInit /\ [][LockNext]_lockVars

Holding(what) == {t \in Lockers : holds[t] \in what}

(***************************************************************************)
(* A writer is alone, an upgrader is alone but for readers (the two        *)
(* conversions of a writer's lock included), and the failed tries of       *)
(* readers and upgraders leave nothing behind: a lock that nobody holds or *)
(* is backing out of is free, so the next try of a writer succeeds.        *)
(***************************************************************************)
LocksExclude ==
  LET writers   == Holding({"write", "write to read", "write to upgrade"})
      upgraders == Holding({"upgrade"})
  IN  /\ Cardinality(writers \cup upgraders) <= 1
      /\ writers # {} => Holding({"read"}) = {}
      /\ Holding({"nothing"}) = Lockers => iBits = 0
      /\ Cardinality(owner) <= 1 /\ (flag <=> owner # {})
=============================================================================
