------------------------ MODULE BaseTxnVersionProofs ------------------------
(***************************************************************************)
(* What read-only transactions read: the inductive invariant, and that     *)
(* readers and the open part of a read-write transaction keep it.          *)
(*                                                                         *)
(* A list is read correctly at version v because of what its last entry    *)
(* was when v was published, so IInv also says what every class will be    *)
(* once the open transaction is published (Outcome), that this is the      *)
(* version being published (History), and that nothing is left over from a *)
(* transaction that has ended (Settled).  What the data store holds plays  *)
(* no part: an operation that failed halfway may have left it different.   *)
(***************************************************************************)
EXTENDS BaseTxnProofs

\* The classes a writer has changed and not yet merged.
pendingOf(w) == IF pc[w] \in {"active", "committing", "stored"} THEN tx[w].ucSchema
                ELSE IF pc[w] = "merging" THEN tx[w].todo ELSE {}

isPending(c) == \E w \in Writers : c \in pendingOf(w)

isMerged(c) == \E w \in Writers : pc[w] \in {"merging", "saved"} /\ c \notin pendingOf(w)

\* The version lists are in order, nothing is newer than the version being
\* committed, and only merged classes reach it.
VersionOrder ==
  \A c \in ClassId :
    /\ Increasing(name[c].stable)
    /\ NoneAfter(name[c].stable, IF isMerged(c) THEN maxVersionId + 1 ELSE maxVersionId)

\* The version being published is what its transaction's operations completed.
History == \A w \in Writers : isPublishing(w) => hist[tx[w].versionId] = tx[w].done

\* Classes that no open transaction has changed hold nothing uncommitted, and a
\* committed drop is not later than the version being committed.
Settled ==
  \A c \in ClassId :
    /\ ~isPending(c) => name[c].unstable = << >> /\ state[c].status # UNCOMMITTED_DELETE
    /\ state[c].status = COMMITTED_DELETE => state[c].versionId <= maxVersionId + 1

\* What a class will be once the open transaction is published.
willBe(c, pending, n) ==
  IF pending
  THEN state[c].status \notin {UNCOMMITTED_DELETE, COMMITTED_DELETE} =>
         IF name[c].unstable = << >> THEN name[c].stable = << >>
         ELSE name[c].unstable[1].object = n
  ELSE state[c].status # COMMITTED_DELETE =>
         \A i \in 1 .. Len(name[c].stable) :
           i = Len(name[c].stable) => name[c].stable[i].object = n

Outcome ==
  \A w \in Writers : pc[w] \in Unpublished =>
    \A c \in ClassId : willBe(c, c \in pendingOf(w), tx[w].done[c])

\* A version list read at a published version gives that version's name, unless
\* the class had been dropped by then.
readsRight(c, v) ==
  \A i \in 1 .. Len(name[c].stable) :
    /\ isNewestAt(name[c].stable, i, v)
    /\ state[c].status = COMMITTED_DELETE => v < state[c].versionId
    => hist[v][c] = name[c].stable[i].object

ReadsRight == \A c \in ClassId : \A v \in 1 .. maxVersionId : readsRight(c, v)

IInv == Inv1 /\ VersionOrder /\ History /\ Settled /\ Outcome /\ ReadsRight

-----------------------------------------------------------------------------
(* Steps that change no version: what is reset is read by nobody.          *)

Kept(c)  == state'[c] = state[c] /\ name'[c] = name[c]
Reset(c) == state'[c] = NewState /\ name'[c] = NewVersionList

\* Seen from the versions, a writer has not moved.
Still(w) ==
  /\ pendingOf(w)' = pendingOf(w)
  /\ isPublishing(w)' <=> isPublishing(w)
  /\ pc'[w] \in {"merging", "saved"} <=> pc[w] \in {"merging", "saved"}
  /\ pc'[w] \in Unpublished => pc[w] \in Unpublished
  /\ pc'[w] \in Unpublished => tx'[w].done = tx[w].done /\ tx'[w].versionId = tx[w].versionId

\* What is read, and what a class will be, depends on the version lists only.
LEMMA ReadsKept ==
  ASSUME ReadsRight, maxVersionId' = maxVersionId,
         \A v \in 1 .. maxVersionId : hist'[v] = hist[v],
         \A c \in ClassId : /\ name'[c].stable = name[c].stable
                            /\ state'[c].status = COMMITTED_DELETE <=> state[c].status = COMMITTED_DELETE
                            /\ state'[c].versionId = state[c].versionId
  PROVE  ReadsRight'
<1> SUFFICES ASSUME NEW c \in ClassId, NEW v \in 1 .. maxVersionId PROVE readsRight(c, v)'
  BY Zenon DEF ReadsRight
<1>1. readsRight(c, v)
  BY Zenon DEF ReadsRight
<1> QED BY <1>1, Zenon DEF readsRight

LEMMA OutcomeKept ==
  ASSUME Outcome, UNCHANGED <<state, name>>,
         \A u \in Writers : /\ pendingOf(u)' = pendingOf(u)
                            /\ pc'[u] \in Unpublished => pc[u] \in Unpublished
                            /\ tx'[u].done = tx[u].done
  PROVE  Outcome'
<1> SUFFICES ASSUME NEW u \in Writers, pc'[u] \in Unpublished, NEW c \in ClassId
             PROVE  willBe(c, c \in pendingOf(u), tx[u].done[c])'
  BY Zenon DEF Outcome
<1>1. willBe(c, c \in pendingOf(u), tx[u].done[c])
  BY Zenon DEF Outcome
<1> QED BY <1>1, Zenon DEF willBe

LEMMA Frame ==
  ASSUME IInv, UNCHANGED <<hist, maxVersionId>>,
         \A w \in Writers : Still(w),
         \A c \in ClassId : Kept(c) \/ Reset(c)
  PROVE  VersionOrder' /\ History' /\ Settled' /\ Outcome' /\ ReadsRight'
<1>0. /\ TypeOK /\ VersionOrder /\ History /\ Settled /\ Outcome /\ ReadsRight
      /\ maxVersionId \in Nat
  BY TxnAssumption DEF IInv, Inv1, TypeOK, TxnId
<1>1. VersionOrder'
  <2> SUFFICES ASSUME NEW c \in ClassId
               PROVE  /\ Increasing(name'[c].stable)
                      /\ NoneAfter(name'[c].stable,
                                   IF isMerged(c)' THEN maxVersionId + 1 ELSE maxVersionId)
    BY DEF VersionOrder
  <2>1. isMerged(c)' <=> isMerged(c)
    BY DEF isMerged, Still
  <2>2. CASE Kept(c)
    BY <1>0, <2>1, <2>2 DEF VersionOrder, Kept
  <2>3. CASE Reset(c)
    BY <2>3 DEF Reset, NewVersionList, Increasing, NoneAfter
  <2> QED BY <2>2, <2>3
<1>2. History'
  <2>1. \A w \in Writers : isPublishing(w)' => pc'[w] \in Unpublished
    BY DEF isPublishing, Unpublished
  <2> QED BY <1>0, <2>1 DEF History, Still
<1>3. Settled'
  <2> SUFFICES ASSUME NEW c \in ClassId
               PROVE  /\ ~isPending(c)' => name'[c].unstable = << >> /\ state'[c].status # UNCOMMITTED_DELETE
                      /\ state'[c].status = COMMITTED_DELETE => state'[c].versionId <= maxVersionId + 1
    BY DEF Settled
  <2>1. isPending(c)' <=> isPending(c)
    BY DEF isPending, Still
  <2>2. CASE Kept(c)
    BY <1>0, <2>1, <2>2 DEF Settled, Kept
  <2>3. CASE Reset(c)
    BY <2>3 DEF Reset, NewVersionList, NewState, UNCOMMITTED_CREATE, UNCOMMITTED_DELETE,
                COMMITTED_DELETE
  <2> QED BY <2>2, <2>3
<1>4. Outcome'
  <2> SUFFICES ASSUME NEW w \in Writers, pc'[w] \in Unpublished, NEW c \in ClassId
               PROVE  willBe(c, c \in pendingOf(w), tx[w].done[c])'
    BY DEF Outcome
  <2>1. /\ pendingOf(w)' = pendingOf(w) /\ tx'[w].done = tx[w].done /\ pc[w] \in Unpublished
    BY DEF Still
  <2>2. willBe(c, c \in pendingOf(w), tx[w].done[c])
    BY <1>0, <2>1 DEF Outcome
  <2>3. CASE Kept(c)
    BY <2>1, <2>2, <2>3 DEF willBe, Kept
  <2>4. CASE Reset(c)
    BY <2>4 DEF willBe, Reset, NewVersionList, NewState
  <2> QED BY <2>3, <2>4
<1>5. ReadsRight'
  <2> SUFFICES ASSUME NEW c \in ClassId, NEW v \in 1 .. maxVersionId
               PROVE  readsRight(c, v)'
    BY DEF ReadsRight
  <2>1. readsRight(c, v)
    BY <1>0 DEF ReadsRight
  <2>2. CASE Kept(c)
    BY <2>1, <2>2 DEF readsRight, Kept
  <2>3. CASE Reset(c)
    BY <2>3 DEF readsRight, Reset, NewVersionList
  <2> QED BY <2>2, <2>3
<1> QED BY <1>1, <1>2, <1>3, <1>4, <1>5

Versions == VersionOrder /\ History /\ Settled /\ Outcome /\ ReadsRight

LEMMA ClearDeletedResets ==
  ASSUME NEW v, clearDeletedElements(v)
  PROVE  \A c \in ClassId : Kept(c) \/ Reset(c)
BY DEF clearDeletedElements, Kept, Reset

LEMMA ReaderReads == ASSUME IInv, NEW r \in Readers, ReaderNext(r) PROVE Versions'
<1>1. /\ \A w \in Writers : pc'[w] = pc[w]
      /\ UNCHANGED <<maxVersionId, tx, hist>>
  BY ReaderLocks DEF IInv
<1>2. \A w \in Writers : Still(w)
  BY <1>1 DEF Still, pendingOf, isPublishing
<1>3. \A c \in ClassId : Kept(c) \/ Reset(c)
  <2>1. CASE ReadOnlyClear(r)
    BY <2>1, ClearDeletedResets DEF ReadOnlyClear
  <2>2. CASE ~ReadOnlyClear(r)
    BY <2>2 DEF ReaderNext, ReadOnlyOpen, ReadOnlyNumber, ReadOnlyVersion, ReadOnlyRegister,
                ReadOnlyEnd, ReadOnlyLeave, schemaVars, Kept
  <2> QED BY <2>1, <2>2
<1> QED BY <1>1, <1>2, <1>3, Frame DEF Versions

\* The steps of a writer that take a lock, release one or look around.
Quiet(w) ==
  \/ ReadWriteOpen(w) \/ (ReadWriteEnter(w) /\ VersionMaxReached) \/ CommitLock(w)
  \/ CommitSave(w) \/ CommitCheck(w) \/ CommitClear(w) \/ CommitUnlock(w)

LEMMA QuietReads == ASSUME IInv, NEW w \in Writers, Quiet(w) PROVE Versions'
<1> USE DEF storeVars, tableVars, statVars, schemaVars
<1>0. pc = [t \in Readers \cup Writers |-> pc[t]] /\ tx \in [Writers -> ReadWriteTxn]
  BY DEF IInv, Inv1, TypeOK
<1>1. UNCHANGED <<hist, maxVersionId>>
  BY DEF Quiet, ReadWriteOpen, ReadWriteEnter, CommitLock, CommitSave, CommitCheck, CommitClear,
         CommitUnlock
<1>2. \A u \in Writers \ {w} : pc'[u] = pc[u] /\ tx'[u] = tx[u]
  BY <1>0, Zenon DEF Quiet, ReadWriteOpen, ReadWriteEnter, CommitLock, CommitSave, CommitCheck, CommitClear,
              CommitUnlock
<1>3. Still(w)
  <2>1. CASE ReadWriteOpen(w) \/ (ReadWriteEnter(w) /\ VersionMaxReached)
    BY <1>0, <2>1 DEF ReadWriteOpen, ReadWriteEnter, Still, pendingOf, isPublishing, Unpublished
  <2>2. CASE CommitLock(w)
    BY <1>0, <2>2 DEF CommitLock, Still, pendingOf, isPublishing, Unpublished
  <2>3. CASE CommitSave(w)
    BY <1>0, <2>3 DEF CommitSave, Still, pendingOf, isPublishing, Unpublished
  <2>4. CASE CommitCheck(w) \/ CommitClear(w)
    BY <1>0, <2>4 DEF CommitCheck, CommitClear, Still, pendingOf, isPublishing, Unpublished
  <2>5. CASE CommitUnlock(w)
    BY <1>0, <2>5 DEF CommitUnlock, Still, pendingOf, isPublishing, Unpublished
  <2> QED BY <2>1, <2>2, <2>3, <2>4, <2>5 DEF Quiet
<1>4. \A u \in Writers : Still(u)
  BY <1>2, <1>3 DEF Still, pendingOf, isPublishing
<1>5. \A c \in ClassId : Kept(c) \/ Reset(c)
  <2>1. CASE CommitClear(w)
    BY <2>1, ClearDeletedResets DEF CommitClear
  <2>2. CASE ~CommitClear(w)
    BY <2>2 DEF Quiet, ReadWriteOpen, ReadWriteEnter, CommitLock, CommitSave, CommitCheck,
                CommitUnlock, Kept
  <2> QED BY <2>1, <2>2
<1> QED BY <1>1, <1>4, <1>5, Frame DEF Versions

-----------------------------------------------------------------------------
(* The only writer inside.                                                 *)

LEMMA OthersOutside ==
  ASSUME Inv1, NEW w \in Writers, pc[w] \in Unpublished \cup Published
  PROVE  \A u \in Writers \ {w} :
           /\ pc[u] \notin Unpublished \cup Published
           /\ pendingOf(u) = {} /\ ~isPublishing(u)
<1> SUFFICES ASSUME NEW u \in Writers \ {w}
             PROVE  /\ pc[u] \notin Unpublished \cup Published
                    /\ pendingOf(u) = {} /\ ~isPublishing(u)
  OBVIOUS
<1>1. pc[u] \in {"idle", "opened"}
  BY OneWriterInside
<1> QED BY <1>1 DEF Unpublished, Published, pendingOf, isPublishing

LEMMA OnlyPending ==
  ASSUME Inv1, NEW w \in Writers, pc[w] \in Unpublished \cup Published
  PROVE  \A c : /\ isPending(c) <=> c \in pendingOf(w)
                /\ isMerged(c) <=> pc[w] \in {"merging", "saved"} /\ c \notin pendingOf(w)
<1>1. \A u \in Writers \ {w} : pendingOf(u) = {} /\ pc[u] \notin {"merging", "saved"}
  BY OthersOutside DEF Unpublished
<1> QED BY <1>1 DEF isPending, isMerged

\* The same after a step of the writer inside.
LEMMA MovesAlone ==
  ASSUME Inv1, NEW w \in Writers, pc[w] \in Unpublished \cup Published,
         \A u \in Writers \ {w} : pc'[u] = pc[u] /\ tx'[u] = tx[u]
  PROVE  /\ \A u \in Writers : pc'[u] \in Unpublished \/ isPublishing(u)' => u = w
         /\ \A c : /\ isPending(c)' <=> c \in pendingOf(w)'
                   /\ isMerged(c)' <=> pc'[w] \in {"merging", "saved"} /\ c \notin pendingOf(w)'
<1>1. \A u \in Writers \ {w} : /\ pc[u] \notin Unpublished
                               /\ pendingOf(u)' = {} /\ ~isPublishing(u)'
  BY OthersOutside DEF pendingOf, isPublishing
<1>2. \A u \in Writers \ {w} : pc'[u] \notin {"merging", "saved"}
  BY <1>1 DEF Unpublished
<1> QED BY <1>1, <1>2 DEF isPending, isMerged

\* What is known of the lists while a transaction is open.
LEMMA InsideFacts ==
  ASSUME IInv, NEW w \in Writers, pc[w] \in Unpublished, NEW c \in ClassId
  PROVE  /\ Increasing(name[c].stable)
         /\ NoneAfter(name[c].stable, IF pc[w] \in {"merging", "saved"} /\ c \notin pendingOf(w)
                                      THEN maxVersionId + 1 ELSE maxVersionId)
         /\ c \notin pendingOf(w) => name[c].unstable = << >> /\ state[c].status # UNCOMMITTED_DELETE
         /\ state[c].status = COMMITTED_DELETE => state[c].versionId <= maxVersionId + 1
         /\ willBe(c, c \in pendingOf(w), tx[w].done[c])
         /\ name[c] \in VersionList(Names) /\ state[c] \in State
BY OnlyPending DEF IInv, VersionOrder, Settled, Outcome, Inv1, TypeOK

\* Class::create, alter and drop.
LEMMA ClassReads == ASSUME IInv, NEW w \in Writers, ClassNext(w) PROVE Versions'
<1>0. Inv1 /\ TypeOK /\ History /\ ReadsRight /\ maxVersionId \in Nat
  BY TxnAssumption DEF IInv, Inv1, TypeOK, TxnId
<1>1. /\ pc[w] = "active"
      /\ UNCHANGED <<maxVersionId, pc, hist>>
      /\ \A u \in Writers \ {w} : tx'[u] = tx[u]
      /\ \/ OnlyStoreSees(w)
         \/ \E c \in ClassId : (\E n \in Names : Sets(w, c, n)) \/ Forgets(w, c) \/ Drops(w, c)
  BY <1>0, ClassStep DEF statVars
<1>2. pc[w] \in Unpublished /\ pc'[w] = "active" /\ pendingOf(w) = tx[w].ucSchema
      /\ pendingOf(w)' = tx'[w].ucSchema
  BY <1>1 DEF Unpublished, pendingOf
<1>3. /\ \A u \in Writers : pc'[u] \in Unpublished \/ isPublishing(u)' => u = w
      /\ \A c : /\ isPending(c)' <=> c \in tx'[w].ucSchema
                /\ ~isMerged(c)'
  BY <1>0, <1>1, <1>2, MovesAlone
<1> DEFINE Lists(c) == \/ name'[c].stable = << >>
                       \/ /\ name'[c].stable = name[c].stable
                          /\ state'[c].status = COMMITTED_DELETE <=> state[c].status = COMMITTED_DELETE
                          /\ state'[c].status = COMMITTED_DELETE => state'[c] = state[c]
           Clean(c) == /\ c \notin tx'[w].ucSchema =>
                            name'[c].unstable = << >> /\ state'[c].status # UNCOMMITTED_DELETE
                       /\ state'[c].status = COMMITTED_DELETE => state'[c].versionId <= maxVersionId + 1
           Right(c) == willBe(c, c \in pendingOf(w), tx[w].done[c])'
<1>4. ASSUME NEW c \in ClassId PROVE Lists(c) /\ Clean(c) /\ Right(c)
  <2>0. /\ c \notin tx[w].ucSchema => name[c].unstable = << >> /\ state[c].status # UNCOMMITTED_DELETE
        /\ state[c].status = COMMITTED_DELETE => state[c].versionId <= maxVersionId + 1
        /\ willBe(c, c \in tx[w].ucSchema, tx[w].done[c])
        /\ name[c] \in VersionList(Names)
    BY <1>2, InsideFacts, Zenon
  <2>1. ASSUME Kept(c), tx'[w].done[c] = tx[w].done[c], c \in tx'[w].ucSchema <=> c \in tx[w].ucSchema
        PROVE  Lists(c) /\ Clean(c) /\ Right(c)
    <3>1. Right(c)
      BY <1>2, <2>0, <2>1 DEF willBe, Kept
    <3> QED BY <2>0, <2>1, <3>1 DEF Kept
  <2>2. CASE OnlyStoreSees(w)
    BY <2>1, <2>2 DEF OnlyStoreSees, Kept
  <2>3. ASSUME NEW d \in ClassId, NEW n \in Names, Sets(w, d, n)
        PROVE  Lists(c) /\ Clean(c) /\ Right(c)
    <3>1. CASE c # d
      BY <2>1, <2>3, <3>1 DEF Sets, Writes, OthersKept, Kept
    <3>2. CASE c = d
      <4>1. /\ \/ name'[c].stable = << >> /\ state'[c] = NewState
               \/ name'[c].stable = name[c].stable /\ state'[c] = state[c]
            /\ name'[c].unstable # << >> /\ name'[c].unstable[1].object = n
        <5>1. NewVersionList \in VersionList(Names) /\ NewVersionList.stable = << >>
          BY NewListType DEF NewVersionList
        <5>2. \A vc \in VersionList(Names) :
                /\ addLatestVersion(vc, n).stable = vc.stable
                /\ addLatestVersion(vc, n).unstable # << >>
                /\ addLatestVersion(vc, n).unstable[1].object = n
          BY AddLatest
        <5> QED BY <2>0, <2>3, <3>2, <5>1, <5>2, Zenon DEF Sets
      <4>2. tx'[w].done[c] = n /\ c \in tx'[w].ucSchema
        BY <2>3, <3>2 DEF Sets, Writes
      <4>3. Right(c)
        BY <1>2, <4>1, <4>2 DEF willBe
      <4>4. NewState.status # COMMITTED_DELETE
        BY DEF NewState, COMMITTED_DELETE, UNCOMMITTED_CREATE
      <4> QED BY <2>0, <4>1, <4>2, <4>3, <4>4, Zenon
    <3> QED BY <3>1, <3>2
  <2>4. ASSUME NEW d \in ClassId, Forgets(w, d)
        PROVE  Lists(c) /\ Clean(c) /\ Right(c)
    <3>1. CASE c # d
      BY <2>1, <2>4, <3>1 DEF Forgets, Writes, OthersKept, Kept
    <3>2. CASE c = d
      <4>1. /\ name'[c].stable = << >> /\ name'[c].unstable = << >> /\ c \notin tx'[w].ucSchema
            /\ state'[c].status = UNCOMMITTED_CREATE
        BY <2>4, <3>2 DEF Forgets, NewVersionList
      <4>2. Right(c)
        BY <1>2, <4>1 DEF willBe
      <4> QED BY <4>1, <4>2 DEF UNCOMMITTED_CREATE, UNCOMMITTED_DELETE, COMMITTED_DELETE
    <3> QED BY <3>1, <3>2
  <2>5. ASSUME NEW d \in ClassId, Drops(w, d)
        PROVE  Lists(c) /\ Clean(c) /\ Right(c)
    <3>1. CASE c # d
      BY <2>1, <2>5, <3>1 DEF Drops, Writes, OthersKept, Kept
    <3>2. CASE c = d
      <4>1. /\ name'[c] = name[c] /\ c \in tx'[w].ucSchema
            /\ state[c].status # COMMITTED_DELETE /\ state'[c].status = UNCOMMITTED_DELETE
        BY <2>5, <3>2 DEF Drops
      <4>2. Right(c)
        BY <1>2, <4>1 DEF willBe
      <4> QED BY <4>1, <4>2 DEF UNCOMMITTED_DELETE, COMMITTED_DELETE
    <3> QED BY <3>1, <3>2
  <2> QED BY <1>1, <2>2, <2>3, <2>4, <2>5, Zenon
<1> HIDE DEF Right
<1>5. VersionOrder'
  <2> SUFFICES ASSUME NEW c \in ClassId
               PROVE  Increasing(name'[c].stable) /\ NoneAfter(name'[c].stable, maxVersionId)
    BY <1>1, <1>3 DEF VersionOrder
  <2>1. Increasing(name[c].stable) /\ NoneAfter(name[c].stable, maxVersionId)
    BY <1>1, <1>2, InsideFacts
  <2> QED BY <1>4, <2>1 DEF Increasing, NoneAfter
<1>6. History'
  <2>1. \A u \in Writers : ~isPublishing(u) /\ ~isPublishing(u)'
    BY <1>0, <1>1, <1>2, <1>3, OthersOutside DEF isPublishing
  <2> QED BY <1>0, <1>1, <2>1 DEF History
<1>7. Settled'
  BY <1>1, <1>3, <1>4, Zenon DEF Settled
<1>8. Outcome'
  BY <1>3, <1>4 DEF Outcome, Right
<1>9. ReadsRight'
  <2> SUFFICES ASSUME NEW c \in ClassId, NEW v \in 1 .. maxVersionId PROVE readsRight(c, v)'
    BY <1>1 DEF ReadsRight
  <2>1. readsRight(c, v)
    BY <1>0 DEF ReadsRight
  <2> QED BY <1>1, <1>4, <2>1 DEF readsRight
<1> QED BY <1>5, <1>6, <1>7, <1>8, <1>9 DEF Versions

-----------------------------------------------------------------------------
(* The beginning and the end of a read-write transaction.                  *)

\* A new writer's operations start from the newest version.
LEMMA EnterReads ==
  ASSUME IInv, NEW w \in Writers, ReadWriteEnter(w), ~VersionMaxReached PROVE Versions'
<1>0. Inv1 /\ TypeOK /\ VersionOrder /\ History /\ Settled /\ Outcome /\ ReadsRight
      /\ maxVersionId \in Nat /\ maxVersionId \in 1 .. maxVersionId
  BY TxnAssumption DEF IInv, Inv1, TypeOK, TxnId
<1>1. /\ pc[w] = "opened" /\ writerMutex = NoTxn
      /\ pc' = [pc EXCEPT ![w] = "active"]
      /\ tx' = [tx EXCEPT ![w] = [NewTx EXCEPT !.versionId = maxVersionId + 1,
                                               !.info = dbInfo, !.pend = store,
                                               !.tables = tables, !.half = half,
                                               !.done = hist[maxVersionId]]]
      /\ UNCHANGED <<hist, maxVersionId, state, name>>
  BY DEF ReadWriteEnter, PreviousWriterIsDone, statVars, schemaVars
<1>2. /\ pc'[w] = "active" /\ tx'[w].ucSchema = {} /\ tx'[w].done = hist[maxVersionId]
      /\ \A u \in Writers \ {w} : pc'[u] = pc[u] /\ tx'[u] = tx[u]
  BY <1>0, <1>1 DEF TypeOK, NewTx
<1>3. \A u \in Writers : pc[u] \notin {"stored", "merging", "saved", "active", "committing"}
  <2>1. storeWriter = w
    BY <1>0, <1>1 DEF Inv1, Locks, HoldsStore
  <2> QED BY <1>0, <1>1, <2>1, TxnAssumption DEF Inv1, Locks, HoldsStore, HoldsMutex
<1>4. \A u \in Writers : /\ pendingOf(u) = {} /\ pendingOf(u)' = {}
                         /\ ~isPublishing(u) /\ ~isPublishing(u)'
                         /\ pc[u] \notin {"merging", "saved"} /\ pc'[u] \notin {"merging", "saved"}
                         /\ u # w => pc'[u] \notin Unpublished
  BY <1>2, <1>3 DEF pendingOf, isPublishing, Unpublished
<1>5. \A c : ~isPending(c) /\ ~isPending(c)' /\ ~isMerged(c) /\ ~isMerged(c)'
  BY <1>4 DEF isPending, isMerged
<1>6. VersionOrder' /\ History' /\ Settled' /\ ReadsRight'
  BY <1>0, <1>1, <1>4, <1>5 DEF VersionOrder, History, Settled, ReadsRight, readsRight
<1>7. Outcome'
  <2> SUFFICES ASSUME NEW c \in ClassId PROVE willBe(c, c \in pendingOf(w), tx[w].done[c])'
    BY <1>4 DEF Outcome
  <2> SUFFICES ASSUME state[c].status # COMMITTED_DELETE, NEW i \in 1 .. Len(name[c].stable),
                      i = Len(name[c].stable)
               PROVE  name[c].stable[i].object = hist[maxVersionId][c]
    BY <1>1, <1>2, <1>4 DEF willBe
  <2>1. NoneAfter(name[c].stable, maxVersionId) /\ name[c] \in VersionList(Names)
    BY <1>0, <1>5 DEF VersionOrder, TypeOK
  <2>2. isNewestAt(name[c].stable, i, maxVersionId)
    BY <1>0, <2>1, NewestIsLast
  <2> QED BY <1>0, <2>2 DEF ReadsRight, readsRight
<1> QED BY <1>6, <1>7 DEF Versions

\* rollback undoes what the transaction did to the classes it changed.
LEMMA RollbackReads == ASSUME IInv, NEW w \in Writers, Rollback(w) PROVE Versions'
<1>0. Inv1 /\ TypeOK /\ VersionOrder /\ History /\ ReadsRight /\ maxVersionId \in Nat
  BY TxnAssumption DEF IInv, Inv1, TypeOK, TxnId
<1>1. /\ pc[w] = "active" /\ pc[w] \in Unpublished /\ pendingOf(w) = tx[w].ucSchema
      /\ pc'[w] = "idle"
      /\ \A u \in Writers \ {w} : pc'[u] = pc[u] /\ tx'[u] = tx[u]
      /\ UNCHANGED <<hist, maxVersionId>>
  BY <1>0, Zenon DEF Rollback, TypeOK, Unpublished, pendingOf, statVars
<1>2. \A c \in ClassId :
        /\ state'[c] = IF c \in tx[w].ucSchema THEN undropped(state[c]) ELSE state[c]
        /\ name'[c] = IF c \in tx[w].ucSchema THEN disableUnstableVersion(name[c]) ELSE name[c]
  BY DEF Rollback
<1>3. /\ \A u \in Writers : pc'[u] \notin Unpublished /\ ~isPublishing(u)'
      /\ \A c : ~isPending(c)' /\ ~isMerged(c)'
  <2>1. pendingOf(w)' = {} /\ pc'[w] \notin Unpublished /\ ~isPublishing(w)'
    BY <1>1 DEF pendingOf, Unpublished, isPublishing
  <2> QED BY <1>0, <1>1, <2>1, MovesAlone
<1>4. ASSUME NEW c \in ClassId
      PROVE  /\ name'[c].stable = name[c].stable /\ name'[c].unstable = << >>
             /\ state'[c].status # UNCOMMITTED_DELETE
             /\ state'[c].status = COMMITTED_DELETE <=> state[c].status = COMMITTED_DELETE
             /\ state'[c].versionId = state[c].versionId
  <2>1. /\ c \notin tx[w].ucSchema => name[c].unstable = << >> /\ state[c].status # UNCOMMITTED_DELETE
        /\ name[c] \in VersionList(Names) /\ state[c] \in State
    BY <1>1, InsideFacts
  <2>2. name'[c].stable = name[c].stable /\ name'[c].unstable = << >>
    BY <1>2, <2>1, DisableUnstable
  <2>3. /\ undropped(state[c]).versionId = state[c].versionId
        /\ undropped(state[c]).status # UNCOMMITTED_DELETE
        /\ undropped(state[c]).status = COMMITTED_DELETE <=> state[c].status = COMMITTED_DELETE
    BY <2>1 DEF undropped, State, COMMITTED_CREATE, UNCOMMITTED_DELETE, COMMITTED_DELETE
  <2> QED BY <1>2, <2>1, <2>2, <2>3
<1>5. VersionOrder'
  <2>1. \A c \in ClassId : Increasing(name[c].stable) /\ NoneAfter(name[c].stable, maxVersionId)
    BY <1>1, InsideFacts
  <2> QED BY <1>1, <1>3, <1>4, <2>1 DEF VersionOrder
<1>6. History'
  BY <1>3 DEF History
<1>7. Settled'
  BY <1>1, <1>4, InsideFacts DEF Settled
<1>8. Outcome'
  BY <1>3 DEF Outcome
<1>9. ReadsRight'
  BY <1>0, <1>1, <1>4, ReadsKept, Zenon
<1> QED BY <1>5, <1>6, <1>7, <1>8, <1>9 DEF Versions
=============================================================================
