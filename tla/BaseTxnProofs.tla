--------------------------- MODULE BaseTxnProofs ---------------------------
(***************************************************************************)
(* Proofs about BaseTxn: type correctness and the hand-over between        *)
(* writers.  The two are proved together, by Inv1: the version numbers are *)
(* in range because only one writer is inside and is stopped before the    *)
(* largest TxnId.                                                          *)
(***************************************************************************)
EXTENDS BaseTxn, VersionControlProofs, FiniteSetTheorems, TLAPS

HoldsMutex == {"committing", "stored", "merging", "saved"} \cup Published

\* Who holds which lock, and that a writer is let in only when dbWriterMutex is free.
Locks ==
  \A w \in Writers :
    /\ pc[w] \in HoldsStore <=> storeWriter = w
    /\ pc[w] \in HoldsMutex <=> writerMutex = w
    /\ pc[w] = "active" => writerMutex = NoTxn
    /\ pc[w] \notin {"numbered", "versioned"}

\* The version a writer works for; it stays below the largest TxnId.
WriterVersions ==
  /\ maxVersionId < TxnIdMax
  /\ \A w \in Writers :
       /\ pc[w] \in Unpublished => tx[w].versionId = maxVersionId + 1 /\ tx[w].versionId < TxnIdMax
       /\ pc[w] \in Published => tx[w].versionId = maxVersionId

Inv1 == TypeOK /\ Locks /\ WriterVersions

-----------------------------------------------------------------------------
(* Types and locks.                                                        *)

LEMMA ConstantTypes ==
  /\ NoClasses \in Classes
  /\ NewRd \in ReadOnlyTxn
  /\ NewTx \in ReadWriteTxn
  /\ NewState \in State
  /\ << >> \in DeleteQueue
  /\ NewVersionList \in VersionList(Names)
<1>1. NoClasses \in Classes
  BY DEF NoClasses, Classes
<1>2. 0 \in TxnId /\ 0 \in Nat
  BY TxnAssumption DEF TxnId
<1>3. << >> \in DeleteQueue
  BY DEF DeleteQueue
<1>4. NewRd \in ReadOnlyTxn
  BY <1>1, <1>2 DEF NewRd, ReadOnlyTxn
<1>5. [maxClassId |-> INIT_NUM_CLASSES, numClass |-> 0] \in DBInfo
  BY TxnAssumption DEF DBInfo, INIT_NUM_CLASSES
<1>6. NewTx \in ReadWriteTxn
  BY <1>1, <1>2, <1>3, <1>5 DEF NewTx, ReadWriteTxn
<1>7. NewState \in State
  BY <1>2 DEF NewState, State, StatusFlag
<1> QED BY <1>1, <1>3, <1>4, <1>6, <1>7, NewListType

\* Loading the table of classes, as the first opening and a restart do.
LEMMA LoadedTypes ==
  ASSUME NEW classes \in Classes
  PROVE  /\ present(classes) \in SUBSET ClassId
         /\ loadedState(classes) \in [ClassId -> State]
         /\ loadedName(classes) \in [ClassId -> VersionList(Names)]
         /\ LoadedInfo(classes) \subseteq DBInfo
<1>1. present(classes) \in SUBSET ClassId
  BY DEF present
<1>2. loadedState(classes) \in [ClassId -> State]
  <2>1. 1 \in TxnId
    BY TxnAssumption DEF TxnId
  <2>2. updateState(NewState, 1) \in State
    BY <2>1 DEF updateState, NewState, State, StatusFlag, UNCOMMITTED_CREATE
  <2> QED BY <2>2, ConstantTypes DEF loadedState
<1>3. loadedName(classes) \in [ClassId -> VersionList(Names)]
  <2>1. ASSUME NEW c \in ClassId, classes[c] # Absent
        PROVE  upgradeStableVersion(addLatestVersion(NewVersionList, classes[c]), 1)
                 \in VersionList(Names)
    <3>1. classes[c] \in Names
      BY <2>1 DEF Classes
    <3>2. addLatestVersion(NewVersionList, classes[c]) \in VersionList(Names)
      BY <3>1, NewListType, AddLatest
    <3> QED BY <3>2, UpgradeStable
  <2> QED BY <2>1, ConstantTypes DEF loadedName
<1>4. LoadedInfo(classes) \subseteq DBInfo
  <2>1. IsFiniteSet(present(classes))
    <3>1. IsFiniteSet(ClassId)
      BY FS_Interval, TxnAssumption DEF ClassId, INIT_NUM_CLASSES
    <3> QED BY <1>1, <3>1, FS_Subset
  <2>2. Cardinality(present(classes)) \in Int
    BY <2>1, FS_CardinalityType
  <2>3. present(classes) \cup {INIT_NUM_CLASSES} \subseteq INIT_NUM_CLASSES .. ClassIdLimit
    BY <1>1, TxnAssumption DEF ClassId, INIT_NUM_CLASSES
  <2> QED BY <2>2, <2>3 DEF LoadedInfo, DBInfo
<1> QED BY <1>1, <1>2, <1>3, <1>4

LEMMA Inv1Init == Init => Inv1
<1> SUFFICES ASSUME Init PROVE Inv1
  OBVIOUS
<1>0. store \in Classes
  BY ConstantTypes DEF Init
<1>1. TypeOK
  <2>1. 1 \in TxnId \ {0}
    BY TxnAssumption DEF TxnId
  <2>2. /\ schemaInfo \in SUBSET ClassId
        /\ state \in [ClassId -> State]
        /\ name \in [ClassId -> VersionList(Names)]
        /\ dbInfo \in DBInfo
    BY <1>0, LoadedTypes DEF Init
  <2>3. /\ pc \in [Readers \cup Writers -> {"idle"}]
        /\ rd \in [Readers -> ReadOnlyTxn]
        /\ tx \in [Writers -> ReadWriteTxn]
        /\ hist \in [TxnId -> Classes]
    BY <1>0, ConstantTypes DEF Init, AllIdle
  <2>4. /\ storeWriter \in Writers \cup {NoTxn} /\ writerMutex \in Writers \cup {NoTxn}
        /\ maxVersionId \in TxnId \ {0} /\ maxTxnId \in Nat \ {0}
        /\ activeTxnIds \in SUBSET ActiveTxnId /\ deletedClassId \in DeleteQueue
        /\ tables \in SUBSET ClassId /\ half \in SUBSET ClassId
    BY <2>1, ConstantTypes DEF Init
  <2> QED BY <1>0, <2>2, <2>3, <2>4 DEF TypeOK
<1>2. Locks
  BY TxnAssumption DEF Init, Locks, AllIdle, HoldsStore, HoldsMutex, Published
<1>3. WriterVersions
  BY TxnAssumption DEF Init, WriterVersions, AllIdle, Unpublished, Published
<1> QED BY <1>1, <1>2, <1>3 DEF Inv1

\* clearDeletedElements keeps the types, whichever prefix of the queue goes.
LEMMA ClearDeletedTypes ==
  ASSUME TypeOK, NEW v, clearDeletedElements(v)
  PROVE  /\ deletedClassId' \in DeleteQueue
         /\ schemaInfo' \in SUBSET ClassId
         /\ state' \in [ClassId -> State]
         /\ name' \in [ClassId -> VersionList(Names)]
<1>1. PICK i \in 1 .. Len(deletedClassId) + 1 :
        LET gone == {deletedClassId[j].id : j \in 1 .. i - 1}
        IN  /\ deletedClassId' = SubSeq(deletedClassId, i, Len(deletedClassId))
            /\ schemaInfo' = schemaInfo \ gone
            /\ state' = [c \in ClassId |-> IF c \in gone THEN NewState ELSE state[c]]
            /\ name'  = [c \in ClassId |-> IF c \in gone THEN NewVersionList ELSE name[c]]
  BY DEF clearDeletedElements
<1>2. deletedClassId' \in DeleteQueue
  <2>1. deletedClassId \in Seq([id : ClassId, versionId : TxnId])
    BY DEF TypeOK, DeleteQueue
  <2>2. Len(deletedClassId) \in Nat
    BY <2>1, LenProperties
  <2>3. \A j \in i .. Len(deletedClassId) : deletedClassId[j] \in [id : ClassId, versionId : TxnId]
    <3>1. \A j \in 1 .. Len(deletedClassId) : deletedClassId[j] \in [id : ClassId, versionId : TxnId]
      BY <2>1, ElementOfSeq, Zenon
    <3> QED BY <1>1, <2>2, <3>1
  <2>4. SubSeq(deletedClassId, i, Len(deletedClassId)) \in Seq([id : ClassId, versionId : TxnId])
    <3>1. i \in Int /\ Len(deletedClassId) \in Int
      BY <1>1, <2>2
    <3> QED BY <2>3, <3>1, SubSeqProperties
  <2> QED BY <1>1, <2>4 DEF DeleteQueue
<1> QED BY <1>1, <1>2, ConstantTypes DEF TypeOK

LEMMA ReaderTypes == ASSUME Inv1, NEW r \in Readers, ReaderNext(r) PROVE TypeOK'
<1> USE DEF storeVars, tableVars, statVars, schemaVars
<1>0. TypeOK
  BY DEF Inv1
<1>1. CASE ReadOnlyOpen(r)
  <2>1. rd' \in [Readers -> ReadOnlyTxn]
    BY <1>0, <1>1 DEF ReadOnlyOpen, TypeOK, ReadOnlyTxn
  <2> QED BY <1>0, <1>1, <2>1 DEF ReadOnlyOpen, TypeOK
<1>2. CASE ReadOnlyNumber(r)
  <2>1. rd' \in [Readers -> ReadOnlyTxn]
    BY <1>0, <1>2 DEF ReadOnlyNumber, TypeOK, ReadOnlyTxn
  <2> QED BY <1>0, <1>2, <2>1 DEF ReadOnlyNumber, TypeOK
<1>3. CASE ReadOnlyVersion(r)
  <2>1. rd' \in [Readers -> ReadOnlyTxn]
    BY <1>0, <1>3 DEF ReadOnlyVersion, TypeOK, ReadOnlyTxn
  <2> QED BY <1>0, <1>3, <2>1 DEF ReadOnlyVersion, TypeOK
<1>4. CASE ReadOnlyRegister(r)
  <2>1. [txnId |-> rd[r].txnId, versionId |-> rd[r].versionId] \in ActiveTxnId
    BY <1>0 DEF TypeOK, ReadOnlyTxn, ActiveTxnId
  <2> QED BY <1>0, <1>4, <2>1 DEF ReadOnlyRegister, TypeOK
<1>5. CASE ReadOnlyEnd(r)
  BY <1>0, <1>5 DEF ReadOnlyEnd, TypeOK
<1>6. CASE ReadOnlyClear(r)
  BY <1>0, <1>6, ClearDeletedTypes DEF ReadOnlyClear, TypeOK
<1>7. CASE ReadOnlyLeave(r)
  BY <1>0, <1>7, ConstantTypes DEF ReadOnlyLeave, TypeOK
<1> QED BY <1>1, <1>2, <1>3, <1>4, <1>5, <1>6, <1>7 DEF ReaderNext

\* The id that Class::create takes, and the classes that the lookups find.
LEMMA FoundIsClassId ==
  ASSUME TypeOK, NEW w \in Writers
  PROVE  /\ \A n \in Names : find(w, n) \subseteq ClassId
         /\ tx[w].info.maxClassId < ClassIdLimit => tx[w].info.maxClassId + 1 \in ClassId
<1>1. \A n \in Names : find(w, n) \subseteq ClassId
  BY DEF TypeOK, ReadWriteTxn, find, First
<1>2. tx[w].info \in DBInfo
  BY DEF TypeOK, ReadWriteTxn
<1> QED BY <1>1, <1>2, TxnAssumption DEF DBInfo, ClassId, INIT_NUM_CLASSES

LEMMA NextInfo ==
  ASSUME NEW i \in DBInfo, NEW id \in ClassId
  PROVE  /\ [i EXCEPT !.maxClassId = id] \in DBInfo
         /\ [[i EXCEPT !.maxClassId = id] EXCEPT !.numClass = @ + 1] \in DBInfo
<1>1. id \in INIT_NUM_CLASSES .. ClassIdLimit
  BY DEF ClassId, INIT_NUM_CLASSES
<1>2. [i EXCEPT !.maxClassId = id] \in DBInfo
  BY <1>1 DEF DBInfo
<1>3. \A j \in DBInfo : [j EXCEPT !.numClass = @ + 1] \in DBInfo
  BY DEF DBInfo
<1> QED BY <1>2, <1>3, Zenon

\* What memory is told of a transaction: its version, the ids it will merge at
\* commit and what its operations completed.
Told(t, versionId, uc, done) == t.versionId = versionId /\ t.ucSchema = uc /\ t.done = done

LEMMA Written ==
  ASSUME NEW t \in ReadWriteTxn, NEW c, NEW n, NEW info, NEW uc, NEW own
  PROVE  Told(written(t, c, n, info, uc, own), t.versionId, uc, [t.done EXCEPT ![c] = n])
<1> DEFINE p == [t.pend EXCEPT ![c] = n]
           q == [t.done EXCEPT ![c] = n]
           h == t.half \ {c}
           new == [t EXCEPT !.pend = p, !.tables = own, !.info = info, !.ucSchema = uc, !.done = q,
                            !.half = h]
<1>1. written(t, c, n, info, uc, own) = new
  BY DEF written, ReadWriteTxn
<1> HIDE DEF p, q, h
<1>2. new.versionId = t.versionId /\ new.ucSchema = uc /\ new.done = q
  BY DEF ReadWriteTxn
<1> HIDE DEF new
<1> QED BY <1>1, <1>2, Zenon DEF q, Told

LEMMA WrittenType ==
  ASSUME NEW t \in ReadWriteTxn, NEW c \in ClassId, NEW n \in Names \cup {Absent},
         NEW info \in DBInfo, NEW uc \in SUBSET ClassId, NEW own \in SUBSET ClassId
  PROVE  written(t, c, n, info, uc, own) \in ReadWriteTxn
<1> DEFINE p == [t.pend EXCEPT ![c] = n]
           q == [t.done EXCEPT ![c] = n]
           h == t.half \ {c}
           new == [t EXCEPT !.pend = p, !.tables = own, !.info = info, !.ucSchema = uc, !.done = q,
                            !.half = h]
<1>1. p \in Classes /\ q \in Classes /\ h \in SUBSET ClassId
  BY DEF ReadWriteTxn, Classes
<1>2. written(t, c, n, info, uc, own) = new
  BY DEF written, ReadWriteTxn
<1> HIDE DEF p, q, h
<1>3. new \in ReadWriteTxn
  BY <1>1, Zenon DEF ReadWriteTxn
<1> HIDE DEF new
<1> QED BY <1>2, <1>3, Zenon

\* An operation that fails halfway changes nothing that memory is told of.
LEMMA HalfWritten ==
  ASSUME NEW t \in ReadWriteTxn, NEW c, NEW n, NEW info
  PROVE  Told(halfWritten(t, c, n, info), t.versionId, t.ucSchema, t.done)
<1> DEFINE p == [t.pend EXCEPT ![c] = n]
           h == t.half \cup {c}
           new == [t EXCEPT !.pend = p, !.info = info, !.half = h]
<1>1. halfWritten(t, c, n, info) = new
  BY DEF halfWritten, ReadWriteTxn
<1> HIDE DEF p, h
<1>2. new.versionId = t.versionId /\ new.ucSchema = t.ucSchema /\ new.done = t.done
  BY DEF ReadWriteTxn
<1> HIDE DEF new
<1> QED BY <1>1, <1>2, Zenon DEF Told

LEMMA HalfWrittenType ==
  ASSUME NEW t \in ReadWriteTxn, NEW c \in ClassId, NEW n \in Names \cup {Absent},
         NEW info \in DBInfo
  PROVE  halfWritten(t, c, n, info) \in ReadWriteTxn
<1> DEFINE p == [t.pend EXCEPT ![c] = n]
           h == t.half \cup {c}
           new == [t EXCEPT !.pend = p, !.info = info, !.half = h]
<1>1. p \in Classes /\ h \in SUBSET ClassId
  BY DEF ReadWriteTxn, Classes
<1>2. halfWritten(t, c, n, info) = new
  BY DEF halfWritten, ReadWriteTxn
<1> HIDE DEF p, h
<1>3. new \in ReadWriteTxn
  BY <1>1, Zenon DEF ReadWriteTxn
<1> HIDE DEF new
<1> QED BY <1>2, <1>3, Zenon

\* The operations that fail halfway.
LEMMA HalfStep ==
  ASSUME TypeOK, NEW w \in Writers, NEW n \in Names, ClassCreateFails(w, n) \/ ClassDropFails(w, n)
  PROVE  /\ tx' \in [Writers -> ReadWriteTxn]
         /\ \A u \in Writers \ {w} : tx'[u] = tx[u]
         /\ tx'[w].versionId = tx[w].versionId
         /\ tx'[w].ucSchema = tx[w].ucSchema
         /\ tx'[w].done = tx[w].done
<1>0. tx \in [Writers -> ReadWriteTxn] /\ tx[w] \in ReadWriteTxn /\ tx[w].info \in DBInfo
  BY DEF TypeOK, ReadWriteTxn
<1>1. PICK c \in ClassId, m \in Names \cup {Absent}, info \in DBInfo :
        tx' = [tx EXCEPT ![w] = halfWritten(tx[w], c, m, info)]
  <2>1. CASE ClassCreateFails(w, n)
    <3> DEFINE id == tx[w].info.maxClassId + 1
               info == [tx[w].info EXCEPT !.maxClassId = id]
    <3>1. id \in ClassId
      BY <2>1, FoundIsClassId DEF ClassCreateFails
    <3>2. info \in DBInfo
      BY <1>0, <3>1, NextInfo, Zenon
    <3>3. tx' = [tx EXCEPT ![w] = halfWritten(tx[w], id, n, info)]
      BY <1>0, <2>1 DEF ClassCreateFails
    <3> HIDE DEF id, info
    <3> QED BY <3>1, <3>2, <3>3, Zenon
  <2>2. CASE ClassDropFails(w, n)
    <3>1. PICK c \in find(w, n) : tx' = [tx EXCEPT ![w] = halfWritten(tx[w], c, Absent, tx[w].info)]
      BY <1>0, <2>2, Zenon DEF ClassDropFails
    <3>2. c \in ClassId
      BY FoundIsClassId
    <3> QED BY <1>0, <3>1, <3>2, Zenon
  <2> QED BY <2>1, <2>2
<1>2. halfWritten(tx[w], c, m, info) \in ReadWriteTxn
  BY <1>0, HalfWrittenType
<1>3. Told(halfWritten(tx[w], c, m, info), tx[w].versionId, tx[w].ucSchema, tx[w].done)
  BY <1>0, HalfWritten, Zenon
<1>4. /\ tx' \in [Writers -> ReadWriteTxn]
      /\ \A u \in Writers \ {w} : tx'[u] = tx[u]
      /\ tx'[w] = halfWritten(tx[w], c, m, info)
  BY <1>0, <1>1, <1>2
<1> QED BY <1>3, <1>4, Zenon DEF Told

LEMMA ClassTypes == ASSUME Inv1, NEW w \in Writers, ClassNext(w) PROVE TypeOK'
<1> USE DEF storeVars, tableVars, statVars, schemaVars
<1>0. TypeOK
  BY DEF Inv1
<1>1. ASSUME NEW n \in Names, ClassCreate(w, n) PROVE TypeOK'
  <2> DEFINE id == tx[w].info.maxClassId + 1
  <2>1. id \in ClassId
    BY <1>0, <1>1, FoundIsClassId DEF ClassCreate
  <2>2. tx[w] \in ReadWriteTxn /\ tx[w].info \in DBInfo
    BY <1>0 DEF TypeOK, ReadWriteTxn
  <2> DEFINE refused == find(w, n) # {} \/ ~canAppend(tx[w].pend, id)
  <2>3. CASE refused
    <3>1. [tx[w].info EXCEPT !.maxClassId = id] \in DBInfo
      BY <2>1, <2>2, NextInfo, Zenon
    <3>2. tx' = [tx EXCEPT ![w].info = [tx[w].info EXCEPT !.maxClassId = id]]
      BY <1>0, <1>1, <2>3 DEF ClassCreate, TypeOK
    <3>3. tx' \in [Writers -> ReadWriteTxn]
      BY <1>0, <2>2, <3>1, <3>2, Zenon DEF TypeOK, ReadWriteTxn
    <3> QED BY <1>0, <1>1, <2>3, <3>3 DEF ClassCreate, TypeOK
  <2>4. CASE ~refused
    <3> DEFINE info == [[tx[w].info EXCEPT !.maxClassId = id] EXCEPT !.numClass = @ + 1]
               uc == tx[w].ucSchema \cup {id}
               own == tx[w].tables \cup {id}
    <3>0. info \in DBInfo
      BY <2>1, <2>2, NextInfo, Zenon
    <3>1. uc \in SUBSET ClassId /\ own \in SUBSET ClassId
      BY <2>1, <2>2 DEF ReadWriteTxn
    <3>2. tx' = [tx EXCEPT ![w] = written(tx[w], id, n, info, uc, own)]
      BY <1>0, <1>1, <2>4 DEF ClassCreate, TypeOK
    <3> HIDE DEF info, id, uc, own
    <3>3. written(tx[w], id, n, info, uc, own) \in ReadWriteTxn
      BY <2>1, <2>2, <3>0, <3>1, WrittenType, Zenon
    <3>4. tx' \in [Writers -> ReadWriteTxn]
      BY <1>0, <3>2, <3>3 DEF TypeOK
    <3>5. addLatestVersion(NewVersionList, n) \in VersionList(Names)
      BY ConstantTypes, AddLatest
    <3>6. name' \in [ClassId -> VersionList(Names)] /\ state' \in [ClassId -> State]
      BY <1>0, <1>1, <2>1, <2>4, <3>5, ConstantTypes DEF ClassCreate, TypeOK, id
    <3> QED BY <1>0, <1>1, <2>4, <3>4, <3>6 DEF ClassCreate, TypeOK
  <2> QED BY <2>3, <2>4
<1>2. ASSUME NEW old \in Names, NEW new \in Names, ClassAlter(w, old, new) PROVE TypeOK'
  <2>1. PICK c \in ClassId :
          /\ tx' = [tx EXCEPT ![w] = written(@, c, new, @.info, @.ucSchema \cup {c}, @.tables)]
          /\ name' = [name EXCEPT ![c] = addLatestVersion(@, new)]
    BY <1>0, <1>2, FoundIsClassId, Zenon DEF ClassAlter
  <2>2. tx' \in [Writers -> ReadWriteTxn]
    <3>1. /\ tx[w] \in ReadWriteTxn /\ tx[w].info \in DBInfo
          /\ tx[w].ucSchema \cup {c} \in SUBSET ClassId /\ tx[w].tables \in SUBSET ClassId
      BY <1>0 DEF TypeOK, ReadWriteTxn
    <3>2. written(tx[w], c, new, tx[w].info, tx[w].ucSchema \cup {c}, tx[w].tables) \in ReadWriteTxn
      BY <3>1, WrittenType, Zenon
    <3> QED BY <1>0, <2>1, <3>2 DEF TypeOK
  <2>3. name' \in [ClassId -> VersionList(Names)]
    BY <1>0, <2>1, AddLatest DEF TypeOK
  <2> QED BY <1>0, <1>2, <2>2, <2>3 DEF ClassAlter, TypeOK
<1>3. ASSUME NEW n \in Names, ClassDrop(w, n) PROVE TypeOK'
  <2> DEFINE info == [tx[w].info EXCEPT !.numClass = @ - 1]
  <2>0. /\ tx[w] \in ReadWriteTxn /\ info \in DBInfo
        /\ tx[w].ucSchema \in SUBSET ClassId /\ tx[w].tables \in SUBSET ClassId
    BY <1>0 DEF TypeOK, ReadWriteTxn, DBInfo
  <2>1. PICK c \in ClassId :
          /\ \/ tx' = [tx EXCEPT ![w] = written(tx[w], c, Absent, info, tx[w].ucSchema \cup {c},
                                                 tx[w].tables \ {c})]
             \/ tx' = [tx EXCEPT ![w] = written(tx[w], c, Absent, info, tx[w].ucSchema \ {c},
                                                 tx[w].tables \ {c})]
          /\ state' = state \/ state' = [state EXCEPT ![c].status = UNCOMMITTED_DELETE]
          /\ name' = name \/ name' = [name EXCEPT ![c] = NewVersionList]
    BY <1>0, <1>3, FoundIsClassId, Zenon DEF ClassDrop, TypeOK
  <2> HIDE DEF info
  <2>2. tx' \in [Writers -> ReadWriteTxn]
    <3>1. \A uc, own \in SUBSET ClassId : written(tx[w], c, Absent, info, uc, own) \in ReadWriteTxn
      BY <2>0, WrittenType, Zenon
    <3> QED BY <1>0, <2>0, <2>1, <3>1 DEF TypeOK
  <2>3. name' \in [ClassId -> VersionList(Names)]
    BY <1>0, <2>1, ConstantTypes DEF TypeOK
  <2>4. state' \in [ClassId -> State]
    BY <1>0, <2>1 DEF TypeOK, State, StatusFlag
  <2> QED BY <1>0, <1>3, <2>2, <2>3, <2>4 DEF ClassDrop, TypeOK
<1>4. ASSUME NEW n \in Names, ClassCreateFails(w, n) \/ ClassDropFails(w, n) PROVE TypeOK'
  <2>1. tx' \in [Writers -> ReadWriteTxn]
    BY <1>0, <1>4, HalfStep DEF TypeOK
  <2> QED BY <1>0, <1>4, <2>1 DEF ClassCreateFails, ClassDropFails, TypeOK
<1> QED BY <1>1, <1>2, <1>3, <1>4 DEF ClassNext

LEMMA CommitTypes == ASSUME Inv1, NEW w \in Writers, CommitNext(w) PROVE TypeOK'
<1> USE DEF storeVars, tableVars, statVars, schemaVars
<1>0. TypeOK /\ tx[w] \in ReadWriteTxn
  BY DEF Inv1, TypeOK
<1>1. CASE CommitStore(w)
  <2>1. /\ tx[w].pend \in Classes /\ tx[w].done \in Classes
        /\ tx[w].tables \in SUBSET ClassId /\ tx[w].half \in SUBSET ClassId
    BY <1>0 DEF ReadWriteTxn
  <2> QED BY <1>0, <1>1, <2>1, Zenon DEF CommitStore, TypeOK
<1>2. CASE CommitMinVersion(w)
  <2>1. PICK v : /\ v \in IF activeTxnIds = {} THEN {tx[w].versionId - 1}
                          ELSE {a.versionId : a \in minActiveTxnId}
                 /\ tx' = [tx EXCEPT ![w].minVersion = v, ![w].todo = tx[w].ucSchema]
    BY <1>2, Zenon DEF CommitMinVersion
  <2>2. tx[w].versionId - 1 \in TxnId
    <3>1. tx[w].versionId = maxVersionId + 1
      BY <1>2 DEF CommitMinVersion, Inv1, WriterVersions, Unpublished
    <3> QED BY <1>0, <3>1, TxnAssumption DEF TypeOK, TxnId
  <2>3. v \in TxnId
    BY <1>0, <2>1, <2>2 DEF TypeOK, ActiveTxnId, minActiveTxnId
  <2>4. tx' \in [Writers -> ReadWriteTxn]
    BY <1>0, <2>1, <2>3, Zenon DEF TypeOK, ReadWriteTxn
  <2> QED BY <1>0, <1>2, <2>4 DEF CommitMinVersion, TypeOK
<1>3. CASE CommitClass(w)
  <2>1. PICK c \in First(tx[w].todo) :
          /\ tx' = [tx EXCEPT ![w].todo = @ \ {c},
                              ![w].deleted = @ \o queueEntry(c, tx[w].versionId)]
          /\ schemaInfo' = schemaInfo \/ schemaInfo' = schemaInfo \cup {c}
          /\ state' = [state EXCEPT ![c] = updateState(@, tx[w].versionId)]
          /\ \/ name' = [name EXCEPT ![c] = upgradeStableVersion(name[c], tx[w].versionId)]
             \/ name' = [name EXCEPT ![c] =
                  upgradeStableVersion(clearStableVersion(name[c], tx[w].minVersion), tx[w].versionId)]
    BY <1>3, Zenon DEF CommitClass
  <2>2. c \in ClassId /\ tx[w].versionId \in TxnId /\ tx[w].deleted \in DeleteQueue
    BY <1>0, <2>1 DEF ReadWriteTxn, First
  <2>3. tx[w].versionId \in Nat /\ tx[w].minVersion \in Nat
    BY <1>0, TxnAssumption DEF ReadWriteTxn, TxnId
  <2>4. tx[w].deleted \o queueEntry(c, tx[w].versionId) \in DeleteQueue
    <3>1. queueEntry(c, tx[w].versionId) \in DeleteQueue
      <4> DEFINE e == [id |-> c, versionId |-> tx[w].versionId]
             E == [id : ClassId, versionId : TxnId]
      <4>1. e \in E
        BY <2>2
      <4>2. queueEntry(c, tx[w].versionId) = <<e>> \/ queueEntry(c, tx[w].versionId) = << >>
        BY DEF queueEntry
      <4> HIDE DEF e, E
      <4>3. <<e>> \in Seq(E) /\ << >> \in Seq(E)
        BY <4>1
      <4> QED BY <4>2, <4>3, Zenon DEF DeleteQueue, E
    <3> QED BY <2>2, <3>1, ConcatProperties DEF DeleteQueue
  <2>5. tx' \in [Writers -> ReadWriteTxn]
    BY <1>0, <2>1, <2>4 DEF TypeOK, ReadWriteTxn
  <2>6. state' \in [ClassId -> State]
    <3>1. updateState(state[c], tx[w].versionId) \in State
      <4>1. state[c] \in State
        BY <1>0, <2>2 DEF TypeOK
      <4> QED BY <2>2, <4>1 DEF updateState, State, StatusFlag
    <3> QED BY <1>0, <2>1, <2>2, <3>1 DEF TypeOK
  <2>7. name' \in [ClassId -> VersionList(Names)]
    <3>1. name[c] \in VersionList(Names)
      BY <1>0, <2>2 DEF TypeOK
    <3>2. clearStableVersion(name[c], tx[w].minVersion) \in VersionList(Names)
      BY <2>3, <3>1, ClearIsSuffix
    <3>3. \A vc \in VersionList(Names) : upgradeStableVersion(vc, tx[w].versionId) \in VersionList(Names)
      BY <2>3, UpgradeStable
    <3> QED BY <1>0, <2>1, <3>1, <3>2, <3>3 DEF TypeOK
  <2> QED BY <1>0, <1>3, <2>1, <2>2, <2>5, <2>6, <2>7 DEF CommitClass, TypeOK
<1>4. CASE CommitSave(w)
  <2>1. deletedClassId \o tx[w].deleted \in DeleteQueue /\ tx[w].info \in DBInfo
    BY <1>0, ConcatProperties DEF TypeOK, ReadWriteTxn, DeleteQueue
  <2> QED BY <1>0, <1>4, <2>1 DEF CommitSave, TypeOK
<1>5. CASE CommitPublish(w)
  <2>1. maxVersionId + 1 = tx[w].versionId
    BY <1>5, Zenon DEF CommitPublish, Inv1, WriterVersions, Unpublished
  <2>2. maxVersionId + 1 \in TxnId \ {0}
    BY <1>0, <2>1, TxnAssumption DEF TypeOK, ReadWriteTxn, TxnId
  <2> QED BY <1>0, <1>5, <2>2 DEF CommitPublish, TypeOK
<1>6. CASE CommitCheck(w)
  BY <1>0, <1>6 DEF CommitCheck, TypeOK
<1>7. CASE CommitClear(w)
  BY <1>0, <1>7, ClearDeletedTypes DEF CommitClear, TypeOK
<1>8. CASE CommitUnlock(w)
  BY <1>0, <1>8, ConstantTypes DEF CommitUnlock, TypeOK
<1> QED BY <1>1, <1>2, <1>3, <1>4, <1>5, <1>6, <1>7, <1>8 DEF CommitNext

LEMMA WriterTypes == ASSUME Inv1, NEW w \in Writers, WriterNext(w) PROVE TypeOK'
<1> USE DEF storeVars, tableVars, statVars, schemaVars
<1>0. TypeOK
  BY DEF Inv1
<1>1. CASE ReadWriteOpen(w)
  BY <1>0, <1>1 DEF ReadWriteOpen, TypeOK
<1>2. CASE ReadWriteEnter(w)
  <2>1. CASE VersionMaxReached
    BY <1>0, <1>2, <2>1 DEF ReadWriteEnter, TypeOK
  <2>2. CASE ~VersionMaxReached
    <3> DEFINE new == [NewTx EXCEPT !.versionId = maxVersionId + 1, !.info = dbInfo, !.pend = store,
                                !.tables = tables, !.half = half, !.done = hist[maxVersionId]]
    <3>1. maxVersionId + 1 \in TxnId
      BY <1>0, TxnAssumption DEF TypeOK, Inv1, WriterVersions, TxnId
    <3>2. new \in ReadWriteTxn
      BY <1>0, <3>1, ConstantTypes, Zenon DEF TypeOK, ReadWriteTxn
    <3>3. tx' = [tx EXCEPT ![w] = new]
      BY <1>2, <2>2 DEF ReadWriteEnter
    <3> HIDE DEF new
    <3>4. tx' \in [Writers -> ReadWriteTxn]
      BY <1>0, <3>2, <3>3 DEF TypeOK
    <3> QED BY <1>0, <1>2, <2>2, <3>4 DEF ReadWriteEnter, TypeOK
  <2> QED BY <2>1, <2>2
<1>3. CASE ClassNext(w)
  BY <1>3, ClassTypes
<1>4. CASE CommitLock(w)
  BY <1>0, <1>4 DEF CommitLock, TypeOK
<1>5. CASE CommitNext(w)
  BY <1>5, CommitTypes
<1>6. CASE Rollback(w)
  <2>1. state' \in [ClassId -> State]
    BY <1>0, <1>6 DEF Rollback, TypeOK, undropped, State, StatusFlag
  <2>2. name' \in [ClassId -> VersionList(Names)]
    BY <1>0, <1>6, DisableUnstable DEF Rollback, TypeOK
  <2> QED BY <1>0, <1>6, <2>1, <2>2, ConstantTypes DEF Rollback, TypeOK
<1> QED BY <1>1, <1>2, <1>3, <1>4, <1>5, <1>6 DEF WriterNext

LEMMA ReopenTypes == ASSUME TypeOK, Reopen PROVE TypeOK'
<1>1. 1 \in TxnId \ {0}
  BY TxnAssumption DEF TxnId
<1>2. /\ schemaInfo' \in SUBSET ClassId
      /\ state' \in [ClassId -> State]
      /\ name' \in [ClassId -> VersionList(Names)]
      /\ dbInfo' \in DBInfo
  BY LoadedTypes DEF Reopen, TypeOK
<1>3. /\ pc' \in [Readers \cup Writers -> {"idle"}]
      /\ rd' \in [Readers -> ReadOnlyTxn]
      /\ tx' \in [Writers -> ReadWriteTxn]
      /\ hist' \in [TxnId -> Classes]
  BY ConstantTypes DEF Reopen, AllIdle, TypeOK
<1>4. /\ storeWriter' \in Writers \cup {NoTxn} /\ writerMutex' \in Writers \cup {NoTxn}
      /\ maxVersionId' \in TxnId \ {0} /\ maxTxnId' \in Nat \ {0}
      /\ activeTxnIds' \in SUBSET ActiveTxnId /\ deletedClassId' \in DeleteQueue
      /\ tables' \in SUBSET ClassId /\ half' \in SUBSET ClassId
  BY <1>1, ConstantTypes DEF Reopen, TypeOK
<1> QED BY <1>2, <1>3, <1>4 DEF TypeOK, Reopen

\* What the locks and the version numbers of the writers depend on: a step that
\* leaves all of it alone keeps Locks and WriterVersions.
LEMMA WritersUntouched ==
  ASSUME Locks, WriterVersions,
         \A w \in Writers : pc'[w] = pc[w] /\ tx'[w].versionId = tx[w].versionId,
         UNCHANGED <<storeWriter, writerMutex, maxVersionId>>
  PROVE  Locks' /\ WriterVersions'
BY DEF Locks, WriterVersions

LEMMA ReaderLocks ==
  ASSUME Inv1, NEW r \in Readers, ReaderNext(r)
  PROVE  /\ \A w \in Writers : pc'[w] = pc[w]
         /\ UNCHANGED <<storeVars, writerMutex, dbInfo, maxVersionId, tx, hist>>
<1>1. r \notin Writers
  BY TxnAssumption
<1>2. \E p : pc' = [pc EXCEPT ![r] = p]
  BY DEF ReaderNext, ReadOnlyOpen, ReadOnlyNumber, ReadOnlyVersion, ReadOnlyRegister, ReadOnlyEnd,
         ReadOnlyClear, ReadOnlyLeave
<1>3. UNCHANGED <<storeVars, writerMutex, dbInfo, maxVersionId, tx, hist>>
  BY DEF ReaderNext, ReadOnlyOpen, ReadOnlyNumber, ReadOnlyVersion, ReadOnlyRegister, ReadOnlyEnd,
         ReadOnlyClear, ReadOnlyLeave, storeVars, tableVars, statVars
<1> QED BY <1>1, <1>2, <1>3 DEF Inv1, TypeOK

\* What the schema operations do: a class is created or renamed (Sets), a class
\* made by the same transaction is forgotten, a committed one is marked dropped;
\* one that fails may have changed the data store or an id, and nothing else.
Writes(w, c, n) == \A d \in ClassId : tx'[w].done[d] = IF d = c THEN n ELSE tx[w].done[d]

OthersKept(c) == \A d \in ClassId \ {c} : state'[d] = state[d] /\ name'[d] = name[d]

Sets(w, c, n) ==
  /\ Writes(w, c, n) /\ OthersKept(c)
  /\ tx'[w].ucSchema = tx[w].ucSchema \cup {c}
  /\ \/ /\ state'[c] = NewState
        /\ name'[c] = addLatestVersion(NewVersionList, n)
     \/ /\ state[c].status \notin {UNCOMMITTED_DELETE, COMMITTED_DELETE}
        /\ state'[c] = state[c]
        /\ name'[c] = addLatestVersion(name[c], n)

Forgets(w, c) ==
  /\ Writes(w, c, Absent) /\ OthersKept(c)
  /\ tx'[w].ucSchema = tx[w].ucSchema \ {c}
  /\ state[c].status = UNCOMMITTED_CREATE
  /\ state'[c] = state[c]
  /\ name'[c] = NewVersionList

Drops(w, c) ==
  /\ Writes(w, c, Absent) /\ OthersKept(c)
  /\ tx'[w].ucSchema = tx[w].ucSchema \cup {c}
  /\ state[c].status # COMMITTED_DELETE
  /\ state'[c].status = UNCOMMITTED_DELETE
  /\ name'[c] = name[c]

OnlyStoreSees(w) ==
  /\ tx'[w].done = tx[w].done
  /\ tx'[w].ucSchema = tx[w].ucSchema
  /\ state' = state
  /\ name' = name

LEMMA WrittenStep ==
  ASSUME TypeOK, NEW w \in Writers, NEW c \in ClassId, NEW n, NEW info, NEW uc, NEW own,
         tx' = [tx EXCEPT ![w] = written(tx[w], c, n, info, uc, own)]
  PROVE  /\ \A u \in Writers \ {w} : tx'[u] = tx[u]
         /\ tx'[w].versionId = tx[w].versionId
         /\ tx'[w].ucSchema = uc
         /\ Writes(w, c, n)
<1>1. tx[w] \in ReadWriteTxn
  BY DEF TypeOK
<1>2. /\ \A u \in Writers \ {w} : tx'[u] = tx[u]
      /\ tx'[w] = written(tx[w], c, n, info, uc, own)
  BY DEF TypeOK
<1>3. Told(written(tx[w], c, n, info, uc, own), tx[w].versionId, uc, [tx[w].done EXCEPT ![c] = n])
  BY <1>1, Written, Zenon
<1>4. tx[w].done \in Classes
  BY <1>1 DEF ReadWriteTxn
<1>5. \A d \in ClassId : [tx[w].done EXCEPT ![c] = n][d] = IF d = c THEN n ELSE tx[w].done[d]
  BY <1>4 DEF Classes
<1>6. Writes(w, c, n)
  BY <1>2, <1>3, <1>5, Zenon DEF Writes, Told
<1> QED BY <1>2, <1>3, <1>6, Zenon DEF Told

LEMMA ClassStep ==
  ASSUME Inv1, NEW w \in Writers, ClassNext(w)
  PROVE  /\ pc[w] = "active"
         /\ UNCHANGED <<storeVars, writerMutex, dbInfo, statVars, schemaInfo, deletedClassId, pc, rd,
                        hist>>
         /\ \A u \in Writers \ {w} : tx'[u] = tx[u]
         /\ tx'[w].versionId = tx[w].versionId
         /\ \/ OnlyStoreSees(w)
            \/ \E c \in ClassId : (\E n \in Names : Sets(w, c, n)) \/ Forgets(w, c) \/ Drops(w, c)
<1> DEFINE Goal == /\ \A u \in Writers \ {w} : tx'[u] = tx[u]
                   /\ tx'[w].versionId = tx[w].versionId
                   /\ \/ OnlyStoreSees(w)
                      \/ \E c \in ClassId : (\E n \in Names : Sets(w, c, n)) \/ Forgets(w, c) \/ Drops(w, c)
<1>0. TypeOK /\ tx \in [Writers -> ReadWriteTxn] /\ tx[w] \in ReadWriteTxn /\ tx[w].info \in DBInfo
      /\ tx[w].ucSchema \in SUBSET ClassId /\ tx[w].tables \in SUBSET ClassId
  BY DEF Inv1, TypeOK, ReadWriteTxn
<1>1. /\ pc[w] = "active"
      /\ UNCHANGED <<storeVars, writerMutex, dbInfo, statVars, schemaInfo, deletedClassId, pc, rd,
                     hist>>
  BY Zenon DEF ClassNext, ClassCreate, ClassCreateFails, ClassAlter, ClassDrop, ClassDropFails, schemaVars
<1>2. ASSUME NEW n \in Names, ClassCreate(w, n) PROVE Goal
  <2> DEFINE id == tx[w].info.maxClassId + 1
             info == [[tx[w].info EXCEPT !.maxClassId = id] EXCEPT !.numClass = @ + 1]
             refused == find(w, n) # {} \/ ~canAppend(tx[w].pend, id)
             uc == tx[w].ucSchema \cup {id}
             own == tx[w].tables \cup {id}
  <2>1. id \in ClassId
    BY <1>0, <1>2, FoundIsClassId DEF ClassCreate
  <2>2. info \in DBInfo
    BY <1>0, <2>1, NextInfo, Zenon
  <2>3. CASE refused
    <3>1. PICK i : tx' = [tx EXCEPT ![w].info = i] /\ UNCHANGED schemaVars
      BY <1>2, <2>3 DEF ClassCreate
    <3>2. /\ \A u \in Writers \ {w} : tx'[u] = tx[u]
          /\ tx'[w].versionId = tx[w].versionId
          /\ tx'[w].done = tx[w].done
          /\ tx'[w].ucSchema = tx[w].ucSchema
      BY <1>0, <3>1 DEF ReadWriteTxn
    <3> QED BY <3>1, <3>2 DEF OnlyStoreSees, schemaVars
  <2>4. CASE ~refused
    <3>1. /\ tx' = [tx EXCEPT ![w] = written(tx[w], id, n, info, uc, own)]
          /\ state' = [state EXCEPT ![id] = NewState]
          /\ name' = [name EXCEPT ![id] = addLatestVersion(NewVersionList, n)]
      BY <1>0, <1>2, <2>4 DEF ClassCreate, TypeOK
    <3> HIDE DEF id, info
    <3>2. uc \in SUBSET ClassId /\ own \in SUBSET ClassId
      BY <1>0, <2>1
    <3> HIDE DEF uc, own
    <3>3. /\ \A u \in Writers \ {w} : tx'[u] = tx[u]
          /\ tx'[w].versionId = tx[w].versionId
          /\ tx'[w].ucSchema = uc
          /\ Writes(w, id, n)
      BY <1>0, <2>1, <2>2, <3>1, <3>2, WrittenStep, Zenon
    <3>4. Sets(w, id, n)
      BY <1>0, <2>1, <3>1, <3>3, Zenon DEF Sets, OthersKept, TypeOK, uc
    <3> QED BY <2>1, <3>3, <3>4, Zenon
  <2> QED BY <2>3, <2>4, Zenon
<1>3. ASSUME NEW old \in Names, NEW new \in Names, ClassAlter(w, old, new) PROVE Goal
  <2>1. PICK c \in find(w, old) :
          /\ tx' = [tx EXCEPT ![w] = written(tx[w], c, new, tx[w].info, tx[w].ucSchema \cup {c},
                                             tx[w].tables)]
          /\ name' = [name EXCEPT ![c] = addLatestVersion(name[c], new)]
          /\ state' = state
    BY <1>0, <1>3, Zenon DEF ClassAlter, TypeOK
  <2>2. c \in ClassId
    BY <1>0, FoundIsClassId
  <2>3. state[c].status \notin {UNCOMMITTED_DELETE, COMMITTED_DELETE}
    BY DEF find, checkReadWrite
  <2>4. tx[w].ucSchema \cup {c} \in SUBSET ClassId
    BY <1>0, <2>2
  <2>5. /\ \A u \in Writers \ {w} : tx'[u] = tx[u]
        /\ tx'[w].versionId = tx[w].versionId
        /\ tx'[w].ucSchema = tx[w].ucSchema \cup {c}
        /\ Writes(w, c, new)
    BY <1>0, <2>1, <2>2, <2>4, WrittenStep, Zenon
  <2>6. Sets(w, c, new)
    BY <1>0, <2>1, <2>2, <2>3, <2>5, Zenon DEF Sets, OthersKept, TypeOK
  <2> QED BY <2>2, <2>5, <2>6
<1>4. ASSUME NEW n \in Names, ClassDrop(w, n) PROVE Goal
  <2> DEFINE info == [tx[w].info EXCEPT !.numClass = @ - 1]
             own  == tx[w].tables
  <2>0. info \in DBInfo /\ own \in SUBSET ClassId
    BY <1>0 DEF DBInfo
  <2>1. PICK c \in find(w, n) :
          IF state[c].status = UNCOMMITTED_CREATE
          THEN /\ tx' = [tx EXCEPT ![w] = written(tx[w], c, Absent, info, tx[w].ucSchema \ {c}, own \ {c})]
               /\ name' = [name EXCEPT ![c] = NewVersionList]
               /\ state' = state
          ELSE /\ tx' = [tx EXCEPT ![w] = written(tx[w], c, Absent, info, tx[w].ucSchema \cup {c},
                                                  own \ {c})]
               /\ state' = [state EXCEPT ![c].status = UNCOMMITTED_DELETE]
               /\ name' = name
    BY <1>0, <1>4, Zenon DEF ClassDrop
  <2> HIDE DEF info, own
  <2>2. c \in ClassId /\ state[c].status # COMMITTED_DELETE
    BY <1>0, FoundIsClassId, Zenon DEF find, checkReadWrite
  <2>3. CASE state[c].status = UNCOMMITTED_CREATE
    <3> DEFINE uc == tx[w].ucSchema \ {c}
               rest == own \ {c}
    <3>1. /\ uc \in SUBSET ClassId /\ rest \in SUBSET ClassId /\ Absent \in Names \cup {Absent}
          /\ tx' = [tx EXCEPT ![w] = written(tx[w], c, Absent, info, uc, rest)]
      BY <1>0, <2>0, <2>1, <2>2, <2>3
    <3> HIDE DEF uc, rest
    <3>2. /\ \A u \in Writers \ {w} : tx'[u] = tx[u]
          /\ tx'[w].versionId = tx[w].versionId
          /\ tx'[w].ucSchema = uc
          /\ Writes(w, c, Absent)
      BY <1>0, <2>0, <2>2, <3>1, WrittenStep, Zenon
    <3>3. Forgets(w, c)
      BY <1>0, <2>1, <2>2, <2>3, <3>2 DEF Forgets, OthersKept, TypeOK, uc
    <3> QED BY <2>2, <3>2, <3>3
  <2>4. CASE state[c].status # UNCOMMITTED_CREATE
    <3> DEFINE uc == tx[w].ucSchema \cup {c}
               rest == own \ {c}
    <3>1. /\ uc \in SUBSET ClassId /\ rest \in SUBSET ClassId /\ Absent \in Names \cup {Absent}
          /\ tx' = [tx EXCEPT ![w] = written(tx[w], c, Absent, info, uc, rest)]
      BY <1>0, <2>0, <2>1, <2>2, <2>4
    <3> HIDE DEF uc, rest
    <3>2. /\ \A u \in Writers \ {w} : tx'[u] = tx[u]
          /\ tx'[w].versionId = tx[w].versionId
          /\ tx'[w].ucSchema = uc
          /\ Writes(w, c, Absent)
      BY <1>0, <2>0, <2>2, <3>1, WrittenStep, Zenon
    <3>3. Drops(w, c)
      <4>1. /\ state'[c].status = UNCOMMITTED_DELETE
            /\ \A d \in ClassId \ {c} : state'[d] = state[d]
        BY <1>0, <2>1, <2>2, <2>4 DEF TypeOK, State
      <4> QED BY <2>1, <2>2, <2>4, <3>2, <4>1 DEF Drops, OthersKept, uc
    <3> QED BY <2>2, <3>2, <3>3
  <2> QED BY <2>3, <2>4, Zenon
<1>5. ASSUME NEW n \in Names, ClassCreateFails(w, n) \/ ClassDropFails(w, n) PROVE Goal
  <2>1. UNCHANGED <<state, name>>
    BY <1>5 DEF ClassCreateFails, ClassDropFails, schemaVars
  <2> QED BY <1>0, <1>5, <2>1, HalfStep DEF OnlyStoreSees
<1> HIDE DEF Goal
<1>6. Goal
  BY <1>2, <1>3, <1>4, <1>5 DEF ClassNext
<1> QED BY <1>1, <1>6, Zenon DEF Goal

LEMMA LocksNext == ASSUME Inv1, Next PROVE Locks' /\ WriterVersions'
<1> USE DEF storeVars, tableVars, statVars, schemaVars
<1>0. TypeOK /\ Locks /\ WriterVersions
  BY DEF Inv1
<1>1. ASSUME NEW r \in Readers, ReaderNext(r) PROVE Locks' /\ WriterVersions'
  BY <1>0, <1>1, ReaderLocks, WritersUntouched
<1>2. ASSUME NEW w \in Writers, ClassNext(w) PROVE Locks' /\ WriterVersions'
  BY <1>0, <1>2, ClassStep, WritersUntouched
<1>3. ASSUME NEW w \in Writers, CommitMinVersion(w) \/ CommitClass(w) \/ CommitSave(w) \/ CommitCheck(w)
                 \/ CommitClear(w)
      PROVE  Locks' /\ WriterVersions'
  <2>1. \A u \in Writers : tx'[u].versionId = tx[u].versionId
    <3>1. CASE \E a, b : tx' = [tx EXCEPT ![w].todo = a, ![w].deleted = b]
      BY <1>0, <3>1 DEF TypeOK, ReadWriteTxn
    <3>2. CASE \E a, b : tx' = [tx EXCEPT ![w].minVersion = a, ![w].todo = b]
      BY <1>0, <3>2 DEF TypeOK, ReadWriteTxn
    <3>3. CASE CommitMinVersion(w)
      BY <3>2, <3>3, Zenon DEF CommitMinVersion
    <3>4. CASE CommitClass(w)
      BY <3>1, <3>4, Zenon DEF CommitClass
    <3>5. CASE CommitSave(w) \/ CommitCheck(w) \/ CommitClear(w)
      BY <3>5, Zenon DEF CommitSave, CommitCheck, CommitClear
    <3> QED BY <1>3, <3>3, <3>4, <3>5
  <2>2. /\ UNCHANGED <<storeWriter, writerMutex, maxVersionId>>
        /\ \A u \in Writers \ {w} : pc'[u] = pc[u]
        /\ \/ pc[w] \in {"stored", "merging"} /\ pc'[w] \in {"merging", "saved"}
           \/ pc[w] \in {"published", "clearing"} /\ pc'[w] \in {"clearing", "leaving"}
    BY <1>0, <1>3, Zenon DEF CommitMinVersion, CommitClass, CommitSave, CommitCheck, CommitClear, TypeOK
  <2> DEFINE SameLocks(u) == /\ pc'[u] \in HoldsStore <=> pc[u] \in HoldsStore
                             /\ pc'[u] \in HoldsMutex <=> pc[u] \in HoldsMutex
                             /\ pc'[u] = "active" => pc[u] = "active"
                             /\ pc'[u] \in {"numbered", "versioned"}
                                  => pc[u] \in {"numbered", "versioned"}
  <2>3. \A u \in Writers : SameLocks(u)
    <3>1. SameLocks(w)
      <4>1. CASE pc[w] \in {"stored", "merging"} /\ pc'[w] \in {"merging", "saved"}
        BY <4>1 DEF HoldsStore, HoldsMutex, Published
      <4>2. CASE pc[w] \in {"published", "clearing"} /\ pc'[w] \in {"clearing", "leaving"}
        BY <4>2 DEF HoldsStore, HoldsMutex, Published
      <4> QED BY <2>2, <4>1, <4>2, Zenon
    <3>2. ASSUME NEW u \in Writers \ {w} PROVE SameLocks(u)
      BY <2>2, <3>2, Zenon
    <3> HIDE DEF SameLocks
    <3> QED BY <3>1, <3>2, Zenon
  <2>4. WriterVersions'
    BY <1>0, <2>1, <2>2 DEF WriterVersions, Unpublished, Published
  <2> QED BY <1>0, <2>2, <2>3, <2>4, Zenon DEF Locks
<1>4. ASSUME NEW w \in Writers, WriterNext(w), ~ClassNext(w),
             ~(CommitMinVersion(w) \/ CommitClass(w) \/ CommitSave(w) \/ CommitCheck(w) \/ CommitClear(w))
      PROVE  Locks' /\ WriterVersions'
  <2> USE DEF Locks, WriterVersions, HoldsStore, HoldsMutex, Unpublished, Published, TypeOK
  <2>1. CASE ReadWriteOpen(w)
    BY <1>0, <2>1, TxnAssumption DEF ReadWriteOpen
  <2>2. CASE ReadWriteEnter(w)
    <3>1. CASE VersionMaxReached
      BY <1>0, <2>2, <3>1, TxnAssumption DEF ReadWriteEnter
    <3>2. CASE ~VersionMaxReached
      <4>1. /\ tx'[w].versionId = maxVersionId + 1
            /\ \A u \in Writers \ {w} : tx'[u] = tx[u]
        <5> DEFINE new == [NewTx EXCEPT !.versionId = maxVersionId + 1, !.info = dbInfo, !.pend = store,
                                    !.tables = tables, !.half = half, !.done = hist[maxVersionId]]
        <5>1. new.versionId = maxVersionId + 1
          BY ConstantTypes DEF ReadWriteTxn
        <5>2. tx' = [tx EXCEPT ![w] = new]
          BY <2>2, <3>2 DEF ReadWriteEnter
        <5> HIDE DEF new
        <5> QED BY <1>0, <5>1, <5>2
      <4>2. maxVersionId + 1 < TxnIdMax
        BY <1>0, <3>2, TxnAssumption DEF VersionMaxReached, TxnId
      <4>3. /\ pc[w] = "opened" /\ writerMutex = NoTxn
            /\ pc' = [pc EXCEPT ![w] = "active"]
            /\ UNCHANGED <<storeWriter, writerMutex, maxVersionId>>
        BY <2>2, <3>2 DEF ReadWriteEnter, PreviousWriterIsDone
      <4>4. Locks'
        BY <1>0, <4>3, TxnAssumption
      <4>5. WriterVersions'
        BY <1>0, <4>1, <4>2, <4>3, SMTT(30)
      <4> QED BY <4>4, <4>5
    <3> QED BY <3>1, <3>2
  <2>3. CASE CommitLock(w)
    BY <1>0, <2>3, TxnAssumption DEF CommitLock
  <2>4. CASE CommitStore(w)
    BY <1>0, <2>4, TxnAssumption DEF CommitStore
  <2>5. CASE CommitPublish(w)
    BY <1>0, <2>5, TxnAssumption DEF CommitPublish, TxnId
  <2>6. CASE CommitUnlock(w)
    BY <1>0, <2>6, TxnAssumption DEF CommitUnlock
  <2>7. CASE Rollback(w)
    BY <1>0, <2>7, TxnAssumption DEF Rollback
  <2> QED BY <1>4, <2>1, <2>2, <2>3, <2>4, <2>5, <2>6, <2>7, Zenon DEF WriterNext, CommitNext
<1>5. ASSUME Reopen PROVE Locks' /\ WriterVersions'
  BY <1>5, TxnAssumption DEF Reopen, AllIdle, Locks, WriterVersions, HoldsStore, HoldsMutex,
                             Unpublished, Published
<1> QED BY <1>1, <1>2, <1>3, <1>4, <1>5 DEF Next

LEMMA Inv1Next == ASSUME Inv1, [Next]_vars PROVE Inv1'
<1>1. CASE Next
  <2>1. TypeOK'
    BY <1>1, ReaderTypes, WriterTypes, ReopenTypes DEF Next, Inv1
  <2> QED BY <1>1, <2>1, LocksNext DEF Inv1
<1>2. CASE UNCHANGED vars
  BY <1>2 DEF vars, storeVars, tableVars, statVars, schemaVars, Inv1, TypeOK, Locks, WriterVersions
<1> QED BY <1>1, <1>2

LEMMA Inv1Always == Spec => []Inv1
BY Inv1Init, Inv1Next, PTL DEF Spec

\* Only one writer is past the constructor and not yet at the end of commit.
LEMMA OneWriterInside ==
  ASSUME Inv1, NEW w \in Writers, pc[w] \in Unpublished \cup Published,
         NEW u \in Writers, u # w
  PROVE  pc[u] \in {"idle", "opened"}
BY TxnAssumption DEF Inv1, TypeOK, Locks, Unpublished, Published, HoldsStore, HoldsMutex

\* The variables of the transactions, of the schema cache and of TxnStat keep
\* their types; in particular no version number passes TxnIdMax.
THEOREM TypeCorrect == Spec => []TypeOK
<1>1. Inv1 => TypeOK
  BY DEF Inv1
<1> QED BY <1>1, Inv1Always, PTL

\* The data store lets the next writer in before the previous one has finished
\* commit; dbWriterMutex still keeps them apart, and the bare increment of
\* maxVersionId is the version the committing writer worked for.
THEOREM HandoffIsSafe == Spec => []WriterHandoff
<1>1. Inv1 => WriterHandoff
  BY OneWriterInside DEF Inv1, WriterVersions, WriterHandoff
<1> QED BY <1>1, Inv1Always, PTL
=============================================================================
