----------------------------- MODULE RWSpinLock -----------------------------
(***************************************************************************)
(* The reader/writer spin lock of src/src/spinlock.hpp, which guards every *)
(* version list, the class, vertex and edge tables and the delete queues.  *)
(* One action per atomic access; an iteration of a spinning loop that      *)
(* finds its condition unchanged is a stutter.  The accesses interleave:   *)
(* on x86, which the `pause' of the sibling SpinLock ties the code to, the *)
(* read-modify-writes that order a reader's increment before its second    *)
(* test and a writer's exchange before its drain loop are full fences.     *)
(***************************************************************************)
EXTENDS Integers, FiniteSets

CONSTANT Threads

ASSUME ThreadsAssumption == IsFiniteSet(Threads)

VARIABLES isWriting, numOfReaders, pc

vars == <<isWriting, numOfReaders, pc>>

Init == /\ isWriting = FALSE
        /\ numOfReaders = 0
        /\ pc = [t \in Threads |-> "idle"]

Goto(t, from, to) == pc[t] = from /\ pc' = [pc EXCEPT ![t] = to]

-----------------------------------------------------------------------------
(* lock and unlock                                                         *)

Lock(t) ==                  \* the guard's constructor, EXCLUSIVE_SPLOCK
  Goto(t, "idle", "locking") /\ UNCHANGED <<isWriting, numOfReaders>>

tryLock(t) ==               \* compare_exchange succeeds
  /\ Goto(t, "locking", "draining")
  /\ ~isWriting
  /\ isWriting' = TRUE
  /\ UNCHANGED numOfReaders

Drained(t) ==               \* the loop finds numOfReaders = 0
  /\ Goto(t, "draining", "writing")
  /\ numOfReaders = 0
  /\ UNCHANGED <<isWriting, numOfReaders>>

unlockKeepsFlag(t) ==                        \* mutant of unlock
  Goto(t, "writing", "idle") /\ UNCHANGED <<isWriting, numOfReaders>>

unlock(t) ==
  /\ Goto(t, "writing", "idle")
  /\ isWriting' = FALSE
  /\ UNCHANGED numOfReaders

-----------------------------------------------------------------------------
(* lockShared and unlockShared                                             *)

LockShared(t) ==            \* the guard's constructor, SHARED_SPLOCK
  Goto(t, "idle", "waiting") /\ UNCHANGED <<isWriting, numOfReaders>>

NoWriterSeen(t) ==          \* the first test of tryLockShared
  /\ Goto(t, "waiting", "entering")
  /\ ~isWriting
  /\ UNCHANGED <<isWriting, numOfReaders>>

EntersUncounted(t) ==                        \* mutant of CountIn
  Goto(t, "entering", "checking") /\ UNCHANGED <<isWriting, numOfReaders>>

CountIn(t) ==
  /\ Goto(t, "entering", "checking")
  /\ numOfReaders' = numOfReaders + 1
  /\ UNCHANGED isWriting

NoSecondCheck(t) ==                          \* mutant of CheckAgain
  Goto(t, "checking", "reading") /\ UNCHANGED <<isWriting, numOfReaders>>

CheckAgain(t) ==            \* the second test
  /\ Goto(t, "checking", IF isWriting THEN "retreating" ELSE "reading")
  /\ UNCHANGED <<isWriting, numOfReaders>>

RetreatsCounted(t) ==                        \* mutant of CountOut
  Goto(t, "retreating", "waiting") /\ UNCHANGED <<isWriting, numOfReaders>>

CountOut(t) ==              \* tryLockShared fails, lockShared calls it again
  /\ Goto(t, "retreating", "waiting")
  /\ numOfReaders' = numOfReaders - 1
  /\ UNCHANGED isWriting

unlockShared(t) ==
  /\ Goto(t, "reading", "idle")
  /\ numOfReaders' = numOfReaders - 1
  /\ UNCHANGED isWriting

-----------------------------------------------------------------------------

\* What a thread does without being asked: once it wants the lock or holds it.
Proceed(t) ==
  \/ tryLock(t) \/ Drained(t) \/ unlock(t)
  \/ NoWriterSeen(t) \/ CountIn(t) \/ CheckAgain(t) \/ CountOut(t) \/ unlockShared(t)

Next == \E t \in Threads : Lock(t) \/ LockShared(t) \/ Proceed(t)

Spec == Init /\ [][Next]_vars

\* The scheduler runs every thread, and the guarded sections are short loops
\* over memory that end by themselves.
LiveSpec == Spec /\ \A t \in Threads : WF_vars(Proceed(t))

-----------------------------------------------------------------------------
(* Properties.                                                             *)

PC == {"idle", "locking", "draining", "writing",
       "waiting", "entering", "checking", "retreating", "reading"}

\* The variables hold what their declarations admit.
TypeOK == /\ isWriting \in BOOLEAN
          /\ numOfReaders \in Nat
          /\ pc \in [Threads -> PC]

\* Nobody reads or writes a guarded structure while a thread writes it.
MutualExclusion ==
  \A t, u \in Threads : pc[t] = "writing" /\ pc[u] \in {"writing", "reading"} => t = u

Counted == {t \in Threads : pc[t] \in {"checking", "retreating", "reading"}}

\* The unsigned counter is the number of threads between their increment and
\* their decrement: it cannot wrap below zero and drops to zero when they leave.
ReadersCounted == numOfReaders = Cardinality(Counted)

\* A writer that has announced itself gets in: readers that come later turn back.
AnnouncedWriterEnters == \A t \in Threads : pc[t] = "draining" ~> pc[t] = "writing"

\* Readers that retreat and writers that wait for each other do not keep the
\* lock from everyone for ever.
SomebodyEnters ==
  (\E t \in Threads : pc[t] # "idle") ~> (\E t \in Threads : pc[t] \in {"writing", "reading"})
=============================================================================
