-------------------------- MODULE RWSpinLockProofs --------------------------
(***************************************************************************)
(* The reader/writer spin lock excludes for any finite number of threads.  *)
(***************************************************************************)
EXTENDS RWSpinLock, FiniteSetTheorems, TLAPS

Announced == {"draining", "writing"}

\* At most one thread has set the flag, and while one writes nobody reads.
FlagOwned ==
  /\ \A t \in Threads : pc[t] \in Announced => isWriting
  /\ \A t, u \in Threads : pc[t] \in Announced /\ pc[u] \in Announced => t = u
  /\ \A t, u \in Threads : pc[t] = "writing" => pc[u] # "reading"

LInv == TypeOK /\ ReadersCounted /\ FlagOwned

LEMMA CountedFinite == ASSUME TypeOK PROVE IsFiniteSet(Counted)
BY FS_Subset, ThreadsAssumption DEF Counted

\* tryLockShared's fetch_add and the two fetch_sub's keep the counter equal to
\* the number of threads between them.
LEMMA CounterStep ==
  ASSUME TypeOK, ReadersCounted, NEW t \in Threads, pc' \in [Threads -> PC],
         \A u \in Threads : u # t => pc'[u] = pc[u]
  PROVE  /\ (pc[t] \notin {"checking", "retreating", "reading"}
              /\ pc'[t] \in {"checking", "retreating", "reading"}
              /\ numOfReaders' = numOfReaders + 1) => ReadersCounted'
         /\ (pc[t] \in {"checking", "retreating", "reading"}
              /\ pc'[t] \notin {"checking", "retreating", "reading"}
              /\ numOfReaders' = numOfReaders - 1) => ReadersCounted' /\ numOfReaders' \in Nat
         /\ ((pc[t] \in {"checking", "retreating", "reading"}
                <=> pc'[t] \in {"checking", "retreating", "reading"})
              /\ numOfReaders' = numOfReaders) => ReadersCounted'
<1>1. IsFiniteSet(Counted) /\ Cardinality(Counted) \in Nat
  BY CountedFinite, FS_CardinalityType
<1>2. CASE t \notin Counted /\ t \in Counted' /\ numOfReaders' = numOfReaders + 1
  <2>1. Counted' = Counted \cup {t}
    BY <1>2 DEF Counted
  <2>2. Cardinality(Counted') = Cardinality(Counted) + 1
    BY <1>1, <1>2, <2>1, FS_AddElement
  <2> QED BY <1>2, <2>2 DEF Counted, ReadersCounted
<1>3. CASE t \in Counted /\ t \notin Counted' /\ numOfReaders' = numOfReaders - 1
  <2>1. Counted' = Counted \ {t}
    BY <1>3 DEF Counted
  <2>2. Cardinality(Counted') = Cardinality(Counted) - 1
    BY <1>1, <1>3, <2>1, FS_RemoveElement
  <2>3. Cardinality(Counted') \in Nat
    BY <1>1, <2>1, FS_RemoveElement, FS_CardinalityType
  <2> QED BY <1>3, <2>2, <2>3 DEF Counted, ReadersCounted
<1>4. CASE (t \in Counted <=> t \in Counted') /\ numOfReaders' = numOfReaders
  <2>1. Counted' = Counted
    BY <1>4 DEF Counted
  <2> QED BY <1>4, <2>1 DEF Counted, ReadersCounted
<1> QED BY <1>2, <1>3, <1>4 DEF Counted

LEMMA LInvInit == Init => LInv
<1> SUFFICES ASSUME Init PROVE LInv
  OBVIOUS
<1>1. Counted = {}
  BY DEF Init, Counted
<1> QED BY <1>1, FS_EmptySet DEF Init, LInv, TypeOK, PC, ReadersCounted, FlagOwned, Announced

LEMMA LInvNext == LInv /\ [Next]_vars => LInv'
<1> SUFFICES ASSUME LInv, [Next]_vars PROVE LInv'
  OBVIOUS
<1> USE DEF LInv, TypeOK, PC, FlagOwned, Announced, Goto
<1>1. ASSUME NEW t \in Threads, Lock(t) PROVE LInv'
  BY <1>1, CounterStep DEF Lock
<1>2. ASSUME NEW t \in Threads, tryLock(t) PROVE LInv'
  BY <1>2, CounterStep DEF tryLock
<1>3. ASSUME NEW t \in Threads, Drained(t) PROVE LInv'
  <2>1. Counted = {}
    BY <1>3, CountedFinite, FS_EmptySet DEF Drained, ReadersCounted
  <2> QED BY <1>3, <2>1, CounterStep DEF Drained, Counted
<1>4. ASSUME NEW t \in Threads, unlock(t) PROVE LInv'
  BY <1>4, CounterStep DEF unlock
<1>5. ASSUME NEW t \in Threads, LockShared(t) PROVE LInv'
  BY <1>5, CounterStep DEF LockShared
<1>6. ASSUME NEW t \in Threads, NoWriterSeen(t) PROVE LInv'
  BY <1>6, CounterStep DEF NoWriterSeen
<1>7. ASSUME NEW t \in Threads, CountIn(t) PROVE LInv'
  BY <1>7, CounterStep DEF CountIn
<1>8. ASSUME NEW t \in Threads, CheckAgain(t) PROVE LInv'
  BY <1>8, CounterStep DEF CheckAgain
<1>9. ASSUME NEW t \in Threads, CountOut(t) PROVE LInv'
  BY <1>9, CounterStep DEF CountOut
<1>10. ASSUME NEW t \in Threads, unlockShared(t) PROVE LInv'
  BY <1>10, CounterStep DEF unlockShared
<1>11. CASE UNCHANGED vars
  BY <1>11 DEF vars, ReadersCounted, Counted
<1> QED
  BY <1>1, <1>2, <1>3, <1>4, <1>5, <1>6, <1>7, <1>8, <1>9, <1>10, <1>11 DEF Next, Proceed

\* Whatever the number of threads, lock excludes readers and other writers, and
\* the counter is exact.
THEOREM LockExcludes == Spec => [](MutualExclusion /\ ReadersCounted)
<1>1. LInv => MutualExclusion /\ ReadersCounted
  BY DEF LInv, FlagOwned, Announced, MutualExclusion
<1> QED BY <1>1, LInvInit, LInvNext, PTL DEF Spec
=============================================================================
