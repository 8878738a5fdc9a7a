------------------------- MODULE BaseTxnReadsProofs -------------------------
(***************************************************************************)
(* Proofs about what read-only transactions read: the version lists stay   *)
(* in order, and no reader ever reads another version's name.  Here are    *)
(* the steps of commit and of opening the database; the invariant and the  *)
(* other steps are in BaseTxnVersionProofs.                                *)
(***************************************************************************)
EXTENDS BaseTxnVersionProofs

-----------------------------------------------------------------------------
(* The steps of commit that change a version.                              *)

\* The commit in the data store makes the version that is published later.
LEMMA StoreReads == ASSUME IInv, NEW w \in Writers, CommitStore(w) PROVE Versions'
<1>0. Inv1 /\ TypeOK /\ VersionOrder /\ Settled /\ Outcome /\ ReadsRight /\ maxVersionId \in Nat
  BY TxnAssumption DEF IInv, Inv1, TypeOK, TxnId
<1>1. /\ pc[w] = "committing" /\ pc'[w] = "stored" /\ pc[w] \in Unpublished
      /\ \A u \in Writers \ {w} : pc'[u] = pc[u]
      /\ hist' = [hist EXCEPT ![tx[w].versionId] = tx[w].done]
      /\ UNCHANGED <<tx, maxVersionId, state, name>>
  BY <1>0 DEF CommitStore, TypeOK, Unpublished, statVars, schemaVars
<1>2. tx[w].versionId = maxVersionId + 1 /\ tx[w].versionId \in TxnId
  BY <1>0, <1>1 DEF Inv1, WriterVersions, TypeOK, ReadWriteTxn
<1>3. /\ hist'[tx[w].versionId] = tx[w].done
      /\ \A v \in 1 .. maxVersionId : hist'[v] = hist[v]
  BY <1>0, <1>1, <1>2 DEF TypeOK
<1>4. \A u \in Writers : /\ pendingOf(u)' = pendingOf(u)
                         /\ pc'[u] \in {"merging", "saved"} <=> pc[u] \in {"merging", "saved"}
                         /\ pc'[u] \in Unpublished <=> pc[u] \in Unpublished
  BY <1>1 DEF pendingOf, Unpublished
<1>5. \A c : (isPending(c)' <=> isPending(c)) /\ (isMerged(c)' <=> isMerged(c))
  BY <1>4 DEF isPending, isMerged
<1>6. VersionOrder' /\ Settled'
  BY <1>0, <1>1, <1>5 DEF VersionOrder, Settled
<1>7. History'
  <2>1. \A u \in Writers : isPublishing(u)' => u = w
    BY <1>0, <1>1, MovesAlone
  <2>2. isPublishing(w)'
    BY <1>1 DEF isPublishing
  <2> QED BY <1>1, <1>3, <2>1, <2>2 DEF History
<1>8. Outcome'
  BY <1>0, <1>1, <1>4, OutcomeKept, Zenon
<1>9. ReadsRight'
  BY <1>0, <1>1, <1>3, ReadsKept, Zenon
<1> QED BY <1>6, <1>7, <1>8, <1>9 DEF Versions

LEMMA MinVersionReads == ASSUME IInv, NEW w \in Writers, CommitMinVersion(w) PROVE Versions'
<1>0. Inv1 /\ TypeOK /\ VersionOrder /\ History /\ Settled /\ Outcome /\ ReadsRight /\ maxVersionId \in Nat
  BY TxnAssumption DEF IInv, Inv1, TypeOK, TxnId
<1>1. /\ pc[w] = "stored" /\ pc'[w] = "merging" /\ pc[w] \in Unpublished
      /\ \A u \in Writers \ {w} : pc'[u] = pc[u]
      /\ UNCHANGED <<hist, maxVersionId, state, name>>
  BY <1>0 DEF CommitMinVersion, TypeOK, Unpublished, statVars, schemaVars
<1>2. /\ \A u \in Writers \ {w} : tx'[u] = tx[u]
      /\ tx'[w].todo = tx[w].ucSchema /\ tx'[w].done = tx[w].done /\ tx'[w].versionId = tx[w].versionId
  <2>1. PICK v : tx' = [tx EXCEPT ![w].minVersion = v, ![w].todo = tx[w].ucSchema]
    BY Zenon DEF CommitMinVersion
  <2> QED BY <1>0, <2>1 DEF TypeOK, ReadWriteTxn
<1>3. \A u \in Writers : /\ pendingOf(u)' = pendingOf(u)
                         /\ isPublishing(u)' <=> isPublishing(u)
                         /\ pc'[u] \in Unpublished <=> pc[u] \in Unpublished
                         /\ tx'[u].done = tx[u].done /\ tx'[u].versionId = tx[u].versionId
  BY <1>1, <1>2 DEF pendingOf, Unpublished, isPublishing
<1>4. VersionOrder'
  <2> SUFFICES ASSUME NEW c \in ClassId
               PROVE  /\ Increasing(name[c].stable)
                      /\ NoneAfter(name[c].stable,
                                   IF isMerged(c)' THEN maxVersionId + 1 ELSE maxVersionId)
    BY <1>1 DEF VersionOrder
  <2>1. Increasing(name[c].stable) /\ NoneAfter(name[c].stable, maxVersionId)
        /\ name[c] \in VersionList(Names)
    BY <1>1, InsideFacts
  <2>2. NoneAfter(name[c].stable, maxVersionId + 1)
    BY <1>0, <2>1, VersionsAreNat DEF NoneAfter
  <2> QED BY <2>1, <2>2
<1>5. History'
  BY <1>0, <1>1, <1>3 DEF History
<1>6. Settled'
  BY <1>0, <1>1, <1>3 DEF Settled, isPending
<1>7. Outcome'
  BY <1>0, <1>1, <1>3, OutcomeKept, Zenon
<1>8. ReadsRight'
  BY <1>0, <1>1, ReadsKept, Zenon
<1> QED BY <1>4, <1>5, <1>6, <1>7, <1>8 DEF Versions

\* The bump of maxVersionId: what is last in every list is the new version.
LEMMA PublishReads == ASSUME IInv, NEW w \in Writers, CommitPublish(w) PROVE Versions'
<1>0. Inv1 /\ TypeOK /\ History /\ ReadsRight /\ maxVersionId \in Nat
  BY TxnAssumption DEF IInv, Inv1, TypeOK, TxnId
<1>1. /\ pc[w] = "saved" /\ pc'[w] = "published" /\ pc[w] \in Unpublished
      /\ \A u \in Writers \ {w} : pc'[u] = pc[u] /\ tx'[u] = tx[u]
      /\ maxVersionId' = maxVersionId + 1
      /\ UNCHANGED <<hist, tx, state, name>>
  BY <1>0 DEF CommitPublish, TypeOK, Unpublished, schemaVars
<1>2. /\ pendingOf(w) = {} /\ pendingOf(w)' = {}
      /\ \A u \in Writers : pc'[u] \notin Unpublished /\ ~isPublishing(u)'
      /\ \A c : ~isPending(c)' /\ ~isMerged(c)'
  <2>1. /\ pendingOf(w) = {} /\ pendingOf(w)' = {} /\ pc'[w] \notin Unpublished
        /\ ~isPublishing(w)' /\ pc'[w] \notin {"merging", "saved"}
    BY <1>1 DEF pendingOf, Unpublished, isPublishing
  <2> QED BY <1>0, <1>1, <2>1, MovesAlone
<1>3. ASSUME NEW c \in ClassId
      PROVE  /\ Increasing(name[c].stable) /\ NoneAfter(name[c].stable, maxVersionId + 1)
             /\ name[c].unstable = << >> /\ state[c].status # UNCOMMITTED_DELETE
             /\ state[c].status = COMMITTED_DELETE => state[c].versionId <= maxVersionId + 1
             /\ \A i \in 1 .. Len(name[c].stable) :
                  i = Len(name[c].stable) /\ state[c].status # COMMITTED_DELETE
                  => name[c].stable[i].object = tx[w].done[c]
             /\ name[c] \in VersionList(Names) /\ state[c] \in State
  <2>1. c \notin pendingOf(w)
    BY <1>2
  <2>2. willBe(c, c \in pendingOf(w), tx[w].done[c])
    BY <1>1, InsideFacts
  <2>3. \A i \in 1 .. Len(name[c].stable) :
          i = Len(name[c].stable) /\ state[c].status # COMMITTED_DELETE
          => name[c].stable[i].object = tx[w].done[c]
    BY <2>1, <2>2 DEF willBe
  <2> QED BY <1>1, <2>1, <2>3, InsideFacts, Zenon
<1>4. hist[maxVersionId + 1] = tx[w].done
  <2>1. tx[w].versionId = maxVersionId + 1 /\ isPublishing(w)
    BY <1>0, <1>1 DEF Inv1, WriterVersions, isPublishing
  <2> QED BY <1>0, <2>1 DEF History
<1>5. VersionOrder'
  BY <1>1, <1>2, <1>3 DEF VersionOrder
<1>6. History'
  BY <1>2 DEF History
<1>7. Settled'
  <2>1. \A c \in ClassId : state[c].status = COMMITTED_DELETE =>
                             state[c].versionId <= (maxVersionId + 1) + 1
    <3>1. \A c \in ClassId : state[c].versionId \in Nat
      <4>1. \A c \in ClassId : state[c] \in State
        BY <1>3, Zenon
      <4> QED BY <4>1, TxnAssumption DEF State, TxnId
    <3>2. \A c \in ClassId : state[c].status = COMMITTED_DELETE => state[c].versionId <= maxVersionId + 1
      BY <1>3, Zenon
    <3> QED BY <1>0, <3>1, <3>2
  <2> QED BY <1>1, <1>3, <2>1 DEF Settled
<1>8. Outcome'
  BY <1>2 DEF Outcome
<1>9. ReadsRight'
  <2> SUFFICES ASSUME NEW c \in ClassId, NEW v \in 1 .. maxVersionId + 1,
                      NEW i \in 1 .. Len(name[c].stable),
                      isNewestAt(name[c].stable, i, v),
                      state[c].status = COMMITTED_DELETE => v < state[c].versionId
               PROVE  hist[v][c] = name[c].stable[i].object
    BY <1>1 DEF ReadsRight, readsRight
  <2>1. CASE v \in 1 .. maxVersionId
    BY <1>0, <2>1 DEF ReadsRight, readsRight
  <2>2. CASE v = maxVersionId + 1
    <3>0. /\ NoneAfter(name[c].stable, maxVersionId + 1) /\ name[c] \in VersionList(Names)
          /\ state[c].status = COMMITTED_DELETE => state[c].versionId <= maxVersionId + 1
          /\ state[c] \in State
      BY <1>3, Zenon
    <3>1. i = Len(name[c].stable)
      BY <1>0, <2>2, <3>0, NewestIsLast
    <3>2. state[c].status # COMMITTED_DELETE
      <4>1. state[c].versionId \in Nat
        BY <3>0, TxnAssumption DEF State, TxnId
      <4> QED BY <1>0, <2>2, <3>0, <4>1
    <3> QED BY <1>3, <1>4, <2>2, <3>1, <3>2, Zenon
  <2>3. v \in 1 .. maxVersionId \/ v = maxVersionId + 1
    BY <1>0
  <2> QED BY <2>1, <2>2, <2>3, Zenon
<1> QED BY <1>5, <1>6, <1>7, <1>8, <1>9 DEF Versions

LEMMA BelowNext == ASSUME NEW m \in Nat, NEW x \in 1 .. m PROVE x \in Nat /\ x < m + 1
OBVIOUS

\* Merging one class: old versions may go, the slot's version is appended.
LEMMA MergeReads == ASSUME IInv, NEW w \in Writers, CommitClass(w) PROVE Versions'
<1>0. Inv1 /\ TypeOK /\ VersionOrder /\ History /\ Settled /\ Outcome /\ ReadsRight
      /\ maxVersionId \in Nat /\ tx[w] \in ReadWriteTxn
  BY TxnAssumption DEF IInv, Inv1, TypeOK, TxnId
<1> DEFINE v == maxVersionId + 1
<1>1. /\ pc[w] = "merging" /\ pc' = pc /\ pc[w] \in Unpublished
      /\ pendingOf(w) = tx[w].todo /\ pendingOf(w)' = tx'[w].todo
      /\ UNCHANGED <<hist, maxVersionId>>
  BY DEF CommitClass, Unpublished, pendingOf, statVars
<1>2. tx[w].versionId = v
  BY <1>0, <1>1 DEF Inv1, WriterVersions
<1>3. PICK c \in First(tx[w].todo) :
        /\ tx' = [tx EXCEPT ![w].todo = @ \ {c}, ![w].deleted = @ \o queueEntry(c, v)]
        /\ state' = [state EXCEPT ![c] = updateState(state[c], v)]
        /\ name' = [name EXCEPT ![c] = upgradeStableVersion(
             IF state[c].status \in {UNCOMMITTED_DELETE, UNCOMMITTED_CREATE} THEN name[c]
             ELSE clearStableVersion(name[c], tx[w].minVersion), v)]
  BY <1>0, <1>2, Zenon DEF CommitClass, TypeOK
<1> DEFINE kept == IF state[c].status \in {UNCOMMITTED_DELETE, UNCOMMITTED_CREATE} THEN name[c]
                   ELSE clearStableVersion(name[c], tx[w].minVersion)
<1>4. c \in ClassId /\ c \in pendingOf(w) /\ tx[w].minVersion \in Nat
  <2>1. tx[w].todo \in SUBSET ClassId /\ tx[w].minVersion \in TxnId
    BY <1>0 DEF ReadWriteTxn
  <2>2. TxnId \subseteq Nat
    BY TxnAssumption DEF TxnId
  <2>3. c \in tx[w].todo
    BY <1>3, Zenon DEF First
  <2> QED BY <1>1, <2>1, <2>2, <2>3, Zenon
<1>5. /\ \A u \in Writers \ {w} : tx'[u] = tx[u]
      /\ tx'[w].todo = tx[w].todo \ {c} /\ tx'[w].done = tx[w].done /\ tx'[w].versionId = v
  <2>1. PICK q : tx' = [tx EXCEPT ![w].todo = @ \ {c}, ![w].deleted = q]
    BY <1>3, Zenon
  <2> QED BY <1>0, <1>2, <2>1 DEF TypeOK, ReadWriteTxn
<1>6. \A d \in ClassId \ {c} : state'[d] = state[d] /\ name'[d] = name[d]
  BY <1>0, <1>3, <1>4 DEF TypeOK
<1>7. state'[c] = updateState(state[c], v) /\ name'[c] = upgradeStableVersion(kept, v)
  BY <1>0, <1>3, <1>4 DEF TypeOK
<1>8. /\ \A u \in Writers : pc'[u] \in Unpublished \/ isPublishing(u)' => u = w
      /\ \A d : /\ isPending(d)' <=> d \in tx[w].todo \ {c}
                /\ isMerged(d)' <=> d \notin tx[w].todo \ {c}
  BY <1>0, <1>1, <1>5, MovesAlone
<1>9. /\ Increasing(name[c].stable) /\ NoneAfter(name[c].stable, maxVersionId)
      /\ name[c] \in VersionList(Names) /\ state[c] \in State
      /\ state[c].status = COMMITTED_DELETE => state[c].versionId <= v
      /\ state[c].status \notin {UNCOMMITTED_DELETE, COMMITTED_DELETE} =>
           IF name[c].unstable = << >> THEN name[c].stable = << >>
           ELSE name[c].unstable[1].object = tx[w].done[c]
  <2>1. willBe(c, c \in pendingOf(w), tx[w].done[c])
    BY <1>1, <1>4, InsideFacts
  <2> QED BY <1>1, <1>4, <2>1, InsideFacts DEF willBe
<1>10. /\ kept \in VersionList(Names) /\ kept.unstable = name[c].unstable
       /\ Increasing(kept.stable) /\ NoneAfter(kept.stable, maxVersionId)
       /\ name[c].stable = << >> => kept.stable = << >>
       /\ ReadsWithin(kept.stable, name[c].stable)
  <2> DEFINE cleared == clearStableVersion(name[c], tx[w].minVersion)
  <2>1. CASE kept = name[c]
    BY <1>9, <2>1, Zenon DEF ReadsWithin
  <2>2. CASE kept = cleared
    <3>1. cleared \in VersionList(Names) /\ cleared.unstable = name[c].unstable
      BY <1>4, <1>9, ClearIsSuffix, Zenon
    <3>2. Increasing(cleared.stable) /\ NoneAfter(cleared.stable, maxVersionId)
      BY <1>0, <1>4, <1>9, ClearKeepsOrder
    <3>3. name[c].stable = << >> => cleared = name[c]
      BY DEF clearStableVersion
    <3>4. ReadsWithin(cleared.stable, name[c].stable)
      BY <1>4, <1>9, ClearedReads, Zenon
    <3> QED BY <2>2, <3>1, <3>2, <3>3, <3>4, Zenon
  <2> QED BY <2>1, <2>2, Zenon
<1> HIDE DEF kept
<1>11. v \in Nat /\ v > maxVersionId
  BY <1>0
<1>12. /\ updateState(state[c], v).status # UNCOMMITTED_DELETE
       /\ updateState(state[c], v).status = COMMITTED_DELETE =>
            updateState(state[c], v).versionId <= v
       /\ updateState(state[c], v).status # COMMITTED_DELETE =>
            state[c].status \notin {UNCOMMITTED_DELETE, COMMITTED_DELETE}
       /\ state[c].status = COMMITTED_DELETE => updateState(state[c], v) = state[c]
  BY <1>9, <1>11 DEF updateState, State, StatusFlag, UNCOMMITTED_CREATE, UNCOMMITTED_DELETE,
                     COMMITTED_CREATE, COMMITTED_DELETE
<1>13. VersionOrder'
  <2> SUFFICES ASSUME NEW d \in ClassId
               PROVE  /\ Increasing(name'[d].stable)
                      /\ NoneAfter(name'[d].stable, IF isMerged(d)' THEN v ELSE maxVersionId)
    BY <1>1 DEF VersionOrder
  <2>1. CASE d = c
    <3>1. Increasing(name'[c].stable) /\ NoneAfter(name'[c].stable, v)
      BY <1>0, <1>7, <1>10, UpgradeKeepsOrder, Zenon
    <3> QED BY <1>8, <2>1, <3>1
  <2>2. CASE d # c
    BY <1>1, <1>6, <1>8, <2>2, InsideFacts, Zenon
  <2> QED BY <2>1, <2>2
<1>14. History'
  <2>1. isPublishing(w) /\ isPublishing(w)'
    BY <1>1 DEF isPublishing
  <2>2. hist[v] = tx[w].done
    BY <1>0, <1>2, <2>1 DEF History
  <2>3. hist'[tx'[w].versionId] = tx'[w].done
    BY <1>1, <1>5, <2>2
  <2>4. \A u \in Writers : isPublishing(u)' => u = w
    BY <1>8
  <2> QED BY <2>1, <2>3, <2>4 DEF History
<1>15. Settled'
  <2> SUFFICES ASSUME NEW d \in ClassId
               PROVE  /\ d \notin tx[w].todo \ {c} =>
                           name'[d].unstable = << >> /\ state'[d].status # UNCOMMITTED_DELETE
                      /\ state'[d].status = COMMITTED_DELETE => state'[d].versionId <= v
    BY <1>1, <1>8, Zenon DEF Settled
  <2>1. CASE d = c
    <3>0. kept \in VersionList(Names)
      BY <1>10, Zenon
    <3>1. name'[c].unstable = << >>
      BY <1>7, <1>11, <3>0, UpgradeEmpties, Zenon
    <3> QED BY <1>7, <1>12, <2>1, <3>1
  <2>2. CASE d # c
    BY <1>1, <1>6, <2>2, InsideFacts, Zenon
  <2> QED BY <2>1, <2>2
<1>16. Outcome'
  <2> SUFFICES ASSUME NEW d \in ClassId PROVE willBe(d, d \in pendingOf(w), tx[w].done[d])'
    BY <1>8 DEF Outcome
  <2>1. CASE d = c
    <3> SUFFICES ASSUME state'[c].status # COMMITTED_DELETE,
                        NEW i \in 1 .. Len(name'[c].stable), i = Len(name'[c].stable)
                 PROVE  name'[c].stable[i].object = tx[w].done[c]
      BY <1>1, <1>5, <2>1 DEF willBe
    <3>1. state[c].status \notin {UNCOMMITTED_DELETE, COMMITTED_DELETE}
      BY <1>7, <1>12
    <3>2. CASE name[c].unstable = << >>
      <4>1. kept \in VersionList(Names) /\ kept.unstable = << >> /\ kept.stable = << >>
        BY <1>9, <1>10, <3>1, <3>2, Zenon
      <4>2. upgradeStableVersion(kept, v).stable = kept.stable
        BY <1>11, <4>1, UpgradeStable
      <4>3. name'[c].stable = << >>
        BY <1>7, <4>1, <4>2, Zenon
      <4> QED BY <4>3
    <3>3. CASE name[c].unstable # << >>
      <4>1. kept \in VersionList(Names) /\ kept.unstable # << >>
        BY <1>10, <3>3, Zenon
      <4> DEFINE up == upgradeStableVersion(kept, v)
      <4>2. /\ Len(up.stable) = Len(kept.stable) + 1
            /\ up.stable[Len(kept.stable) + 1].object = kept.unstable[1].object
        BY <1>11, <4>1, UpgradeStable
      <4>3. name'[c] = up
        BY <1>7
      <4> HIDE DEF up
      <4>4. name'[c].stable[i].object = kept.unstable[1].object
        BY <4>2, <4>3
      <4>5. kept.unstable[1].object = tx[w].done[c]
        BY <1>9, <1>10, <3>1, <3>3, Zenon
      <4> QED BY <4>4, <4>5
    <3> QED BY <3>2, <3>3
  <2>2. CASE d # c
    <3>1. willBe(d, d \in tx[w].todo, tx[w].done[d])
      BY <1>1, InsideFacts
    <3>2. d \in pendingOf(w)' <=> d \in tx[w].todo
      BY <1>1, <1>5, <2>2
    <3> QED BY <1>5, <1>6, <2>2, <3>1, <3>2 DEF willBe
  <2> QED BY <2>1, <2>2
<1>17. ReadsRight'
  <2> SUFFICES ASSUME NEW d \in ClassId, NEW x \in 1 .. maxVersionId PROVE readsRight(d, x)'
    BY <1>1 DEF ReadsRight
  <2>1. readsRight(d, x)
    BY <1>0 DEF ReadsRight
  <2>2. CASE d = c
    <3> SUFFICES ASSUME NEW i \in 1 .. Len(name'[c].stable),
                        isNewestAt(name'[c].stable, i, x),
                        state'[c].status = COMMITTED_DELETE => x < state'[c].versionId
                 PROVE  hist[x][c] = name'[c].stable[i].object
      BY <1>1, <2>2 DEF readsRight
    <3>a. maxVersionId \in Nat
      BY <1>0, Zenon
    <3>0. x \in Nat /\ x < v
      BY <3>a, BelowNext, Zenon
    <3> DEFINE up == upgradeStableVersion(kept, v)
    <3>b. i \in 1 .. Len(up.stable) /\ isNewestAt(up.stable, i, x) /\ name'[c] = up
      BY <1>7
    <3>c. kept \in VersionList(Names)
      BY <1>10, Zenon
    <3>1. /\ i \in 1 .. Len(kept.stable) /\ isNewestAt(kept.stable, i, x)
          /\ kept.stable[i] = name'[c].stable[i]
      BY <1>11, <3>0, <3>b, <3>c, UpgradeReads, ZenonT(30)
    <3>2. PICK j \in 1 .. Len(name[c].stable) : /\ isNewestAt(name[c].stable, j, x)
                                                /\ name[c].stable[j] = kept.stable[i]
      BY <1>10, <3>0, <3>1, Zenon DEF ReadsWithin
    <3>3. state[c].status = COMMITTED_DELETE => x < state[c].versionId
      BY <1>7, <1>12
    <3>4. hist[x][c] = name[c].stable[j].object
      BY <2>1, <2>2, <3>2, <3>3, Zenon DEF readsRight
    <3> QED BY <3>1, <3>2, <3>4, Zenon
  <2>3. CASE d # c
    BY <1>1, <1>6, <2>1, <2>3, Zenon DEF readsRight
  <2> QED BY <2>2, <2>3
<1> QED BY <1>13, <1>14, <1>15, <1>16, <1>17 DEF Versions

-----------------------------------------------------------------------------
(* Opening the database.                                                   *)

LEMMA LoadedLists ==
  ASSUME NEW classes \in Classes, NEW c \in ClassId
  PROVE  /\ loadedName(classes)[c].unstable = << >>
         /\ Increasing(loadedName(classes)[c].stable) /\ NoneAfter(loadedName(classes)[c].stable, 1)
         /\ \A i \in 1 .. Len(loadedName(classes)[c].stable) :
              loadedName(classes)[c].stable[i].object = classes[c]
         /\ loadedState(classes)[c].status \notin {UNCOMMITTED_DELETE, COMMITTED_DELETE}
<1>1. loadedState(classes)[c].status \notin {UNCOMMITTED_DELETE, COMMITTED_DELETE}
  BY DEF loadedState, NewState, updateState, UNCOMMITTED_CREATE, UNCOMMITTED_DELETE,
         COMMITTED_CREATE, COMMITTED_DELETE
<1>2. CASE classes[c] = Absent
  <2>1. loadedName(classes)[c] = NewVersionList
    BY <1>2 DEF loadedName
  <2> QED BY <1>1, <2>1 DEF NewVersionList, Increasing, NoneAfter
<1>3. CASE classes[c] # Absent
  <2> DEFINE new == addLatestVersion(NewVersionList, classes[c])
  <2>1. loadedName(classes)[c] = upgradeStableVersion(new, 1)
    BY <1>3 DEF loadedName
  <2>2. /\ new \in VersionList(Names) /\ new.stable = << >> /\ new.unstable # << >>
        /\ new.unstable[1].object = classes[c]
    <3>1. classes[c] \in Names /\ NewVersionList \in VersionList(Names) /\ NewVersionList.stable = << >>
      BY <1>3, NewListType DEF Classes, NewVersionList
    <3> QED BY <3>1, AddLatest
  <2> HIDE DEF new
  <2>3. /\ upgradeStableVersion(new, 1).unstable = << >>
        /\ Len(upgradeStableVersion(new, 1).stable) = Len(new.stable) + 1
        /\ upgradeStableVersion(new, 1).stable[Len(new.stable) + 1].versionId = 1
        /\ upgradeStableVersion(new, 1).stable[Len(new.stable) + 1].object = classes[c]
    <3>1. 1 \in Nat
      OBVIOUS
    <3>2. upgradeStableVersion(new, 1).stable[Len(new.stable) + 1].object = new.unstable[1].object
      BY <2>2, <3>1, UpgradeStable
    <3> QED BY <2>2, <3>1, <3>2, UpgradeStable, Zenon
  <2>4. Len(new.stable) = 0
    BY <2>2
  <2> QED BY <1>1, <2>1, <2>3, <2>4 DEF Increasing, NoneAfter
<1> QED BY <1>2, <1>3

LEMMA LoadedObject ==
  ASSUME NEW classes \in Classes, NEW c \in ClassId,
         NEW i \in 1 .. Len(loadedName(classes)[c].stable)
  PROVE  loadedName(classes)[c].stable[i].object = classes[c]
BY LoadedLists

\* Right after opening, everything is at version 1 and every version is the table.
LEMMA InitReads == Init => Versions
<1> SUFFICES ASSUME Init PROVE Versions
  OBVIOUS
<1>1. /\ store \in Classes /\ maxVersionId = 1 /\ 1 \in TxnId
      /\ name = loadedName(store) /\ state = loadedState(store)
      /\ \A w \in Writers : pc[w] = "idle"
      /\ \A v \in TxnId : hist[v] = store
  BY ConstantTypes, TxnAssumption DEF Init, AllIdle, TxnId
<1>2. \A w \in Writers : pendingOf(w) = {} /\ ~isPublishing(w) /\ pc[w] \notin Unpublished
                         /\ pc[w] \notin {"merging", "saved"}
  BY <1>1 DEF pendingOf, isPublishing, Unpublished
<1>3. \A c : ~isPending(c) /\ ~isMerged(c)
  BY <1>2 DEF isPending, isMerged
<1>4. VersionOrder /\ Settled
  BY <1>1, <1>3, LoadedLists DEF VersionOrder, Settled
<1>5. History /\ Outcome
  BY <1>1, <1>2 DEF History, Outcome
<1>6. ReadsRight
  <2> SUFFICES ASSUME NEW c \in ClassId, NEW v \in 1 .. maxVersionId, NEW i \in 1 .. Len(name[c].stable)
               PROVE  hist[v][c] = name[c].stable[i].object
    BY Zenon DEF ReadsRight, readsRight
  <2>1. v = 1
    BY <1>1
  <2>2. hist[v] = store
    BY <1>1, <2>1, Zenon
  <2>3. name[c].stable[i].object = store[c]
    BY <1>1, LoadedObject, Zenon
  <2> QED BY <2>2, <2>3, Zenon
<1> QED BY <1>4, <1>5, <1>6 DEF Versions

LEMMA ReopenReads == ASSUME IInv, Reopen PROVE Versions'
<1>1. /\ store \in Classes /\ maxVersionId' = 1 /\ 1 \in TxnId
      /\ name' = loadedName(store) /\ state' = loadedState(store)
      /\ \A w \in Writers : pc'[w] = "idle"
      /\ \A v \in TxnId : hist'[v] = store
  BY TxnAssumption DEF IInv, Inv1, TypeOK, Reopen, AllIdle, TxnId
<1>2. \A w \in Writers : pendingOf(w)' = {} /\ ~isPublishing(w)' /\ pc'[w] \notin Unpublished
                         /\ pc'[w] \notin {"merging", "saved"}
  BY <1>1 DEF pendingOf, isPublishing, Unpublished
<1>3. \A c : ~isPending(c)' /\ ~isMerged(c)'
  BY <1>2 DEF isPending, isMerged
<1>4. VersionOrder' /\ Settled'
  BY <1>1, <1>3, LoadedLists DEF VersionOrder, Settled
<1>5. History' /\ Outcome'
  BY <1>1, <1>2 DEF History, Outcome
<1>6. ReadsRight'
  <2> SUFFICES ASSUME NEW c \in ClassId, NEW v \in 1 .. maxVersionId', NEW i \in 1 .. Len(name'[c].stable)
               PROVE  hist'[v][c] = name'[c].stable[i].object
    BY Zenon DEF ReadsRight, readsRight
  <2>1. v = 1
    BY <1>1
  <2>2. hist'[v] = store
    BY <1>1, <2>1, Zenon
  <2>3. name'[c].stable[i].object = store[c]
    BY <1>1, LoadedObject, Zenon
  <2> QED BY <2>2, <2>3, Zenon
<1> QED BY <1>4, <1>5, <1>6 DEF Versions

-----------------------------------------------------------------------------
(* The theorems.                                                           *)

LEMMA WriterReads == ASSUME IInv, NEW w \in Writers, WriterNext(w) PROVE Versions'
<1>1. CASE Quiet(w)
  BY <1>1, QuietReads
<1>2. CASE ReadWriteEnter(w) /\ ~VersionMaxReached
  BY <1>2, EnterReads
<1>3. CASE ClassNext(w)
  BY <1>3, ClassReads
<1>4. CASE CommitStore(w) \/ CommitMinVersion(w) \/ CommitClass(w) \/ CommitPublish(w)
  BY <1>4, StoreReads, MinVersionReads, MergeReads, PublishReads
<1>5. CASE Rollback(w)
  BY <1>5, RollbackReads
<1> QED BY <1>1, <1>2, <1>3, <1>4, <1>5 DEF WriterNext, CommitNext, Quiet

LEMMA IInvNext == ASSUME IInv, [Next]_vars PROVE IInv'
<1>0. Inv1'
  BY Inv1Next DEF IInv
<1>1. CASE Next
  <2>1. Versions'
    BY <1>1, ReaderReads, WriterReads, ReopenReads DEF Next
  <2> QED BY <1>0, <2>1 DEF IInv, Versions
<1>2. CASE UNCHANGED vars
  <2>1. UNCHANGED <<hist, maxVersionId, pc, tx, state, name>>
    BY <1>2 DEF vars, statVars, schemaVars
  <2>2. \A w \in Writers : Still(w)
    BY <2>1 DEF Still, pendingOf, isPublishing
  <2>3. \A c \in ClassId : Kept(c)
    BY <2>1 DEF Kept
  <2> QED BY <1>0, <2>1, <2>2, <2>3, Frame DEF IInv
<1> QED BY <1>1, <1>2

LEMMA IInvAlways == Spec => []IInv
<1>1. Init => IInv
  BY Inv1Init, InitReads DEF IInv, Versions
<1> QED BY <1>1, IInvNext, PTL DEF Spec

\* The stable versions of every name are in strictly increasing order and none is
\* newer than the version being committed, whatever commit, garbage collection,
\* rollback or a restart does; the backward scan of getStableVersion relies on it.
THEOREM ListsStayOrdered == Spec => []VersionsIncreasing
<1>1. IInv => VersionsIncreasing
  <2> SUFFICES ASSUME IInv, NEW c \in ClassId
               PROVE  /\ Increasing(name[c].stable)
                      /\ \A i \in 1 .. Len(name[c].stable) :
                           \/ name[c].stable[i].versionId <= maxVersionId
                           \/ \E w \in Writers : /\ pc[w] \in {"merging", "saved"}
                                                 /\ name[c].stable[i].versionId = tx[w].versionId
    BY DEF VersionsIncreasing, Increasing
  <2>0. maxVersionId \in Nat /\ name[c] \in VersionList(Names)
    BY TxnAssumption DEF IInv, Inv1, TypeOK, TxnId
  <2>1. /\ Increasing(name[c].stable)
        /\ NoneAfter(name[c].stable, IF isMerged(c) THEN maxVersionId + 1 ELSE maxVersionId)
    BY DEF IInv, VersionOrder
  <2>2. CASE ~isMerged(c)
    BY <2>1, <2>2 DEF NoneAfter
  <2>3. CASE isMerged(c)
    <3>1. PICK w \in Writers : pc[w] \in {"merging", "saved"} /\ tx[w].versionId = maxVersionId + 1
      BY <2>3 DEF isMerged, IInv, Inv1, WriterVersions, Unpublished
    <3>2. \A i \in 1 .. Len(name[c].stable) : name[c].stable[i].versionId <= maxVersionId + 1
      BY <2>1, <2>3 DEF NoneAfter
    <3>3. \A i \in 1 .. Len(name[c].stable) : name[c].stable[i].versionId \in Nat
      BY <2>0, VersionsAreNat
    <3>4. \A i \in 1 .. Len(name[c].stable) : \/ name[c].stable[i].versionId <= maxVersionId
                                              \/ name[c].stable[i].versionId = maxVersionId + 1
      BY <2>0, <3>2, <3>3
    <3> QED BY <2>1, <3>1, <3>4, Zenon
  <2> QED BY <2>2, <2>3
<1> QED BY <1>1, IInvAlways, PTL

\* Whatever a read-only transaction at any published version finds under a class
\* id is the name the class had in that version, for any number of readers and
\* writers, at every step of a commit, a rollback, a collection or a restart.
THEOREM ReadersReadTheirVersion == Spec => []ReadersNeverReadAnotherVersion
<1>1. IInv => ReadersNeverReadAnotherVersion
  <2> SUFFICES ASSUME IInv, NEW c \in ClassId, NEW v \in 1 .. maxVersionId,
                      NEW n \in readOnlyName(c, v)
               PROVE  n = hist[v][c]
    BY DEF ReadersNeverReadAnotherVersion
  <2>1. ~checkReadOnly(c, v) /\ n \in getStableVersion(name[c], v)
    BY DEF readOnlyName
  <2>2. PICK i \in 1 .. Len(name[c].stable) : /\ isNewestAt(name[c].stable, i, v)
                                              /\ n = name[c].stable[i].object
    BY <2>1 DEF getStableVersion
  <2>3. state[c].status = COMMITTED_DELETE => v < state[c].versionId
    <3>1. maxVersionId \in TxnId /\ state[c] \in State
      BY Zenon DEF IInv, Inv1, TypeOK
    <3>2. maxVersionId \in Nat /\ state[c].versionId \in Nat
      BY <3>1, TxnAssumption DEF State, TxnId
    <3> QED BY <2>1, <3>2 DEF checkReadOnly
  <2> QED BY <2>2, <2>3 DEF IInv, ReadsRight, readsRight
<1> QED BY <1>1, IInvAlways, PTL
=============================================================================
