------------------------------ MODULE BaseTxn ------------------------------
(***************************************************************************)
(* Transactions of the database over the versioned schema cache.           *)
(*                                                                         *)
(* Read-only transactions (Readers) and read-write transactions (Writers)  *)
(* run concurrently.  The durable classes live in the data store, which    *)
(* gives every transaction a snapshot and admits one writer at a time; the *)
(* in-memory schema keeps several versions of every class so that a reader *)
(* can go on with the version that was current when it began.  The module  *)
(* follows src/src/base_txn.cpp, txn_object.hpp, schema.cpp, class.cpp and *)
(* the class part of Context::initDatabase, one action per step that       *)
(* another transaction can observe.                                        *)
(*                                                                         *)
(* Classes here have no properties, subclasses or records, so the loops of *)
(* Class::drop over them are empty.                                        *)
(***************************************************************************)
EXTENDS VersionControl, FiniteSets

CONSTANTS Readers,       \* threads that run read-only transactions
          Writers,       \* threads that run read-write transactions
          Names,         \* class names
          Absent,        \* "no such class" in the data store
          NoTxn,         \* nobody holds a lock
          TxnIdMax,      \* numeric_limits<TxnId>::max()
          ClassIdLimit,  \* CLASS_ID_UPPER_LIMIT
          MaxReaderTxns, \* bound: read-only transactions per opening of the database
          MaxHalf        \* bound: classes left half done by refusals of the data store

INIT_NUM_CLASSES == 4

ASSUME TxnAssumption == /\ Readers \cap Writers = {}
                        /\ NoTxn \notin Writers
                        /\ Absent \notin Names
                        /\ TxnIdMax \in Nat \ {0, 1}
                        /\ ClassIdLimit \in Nat
                        /\ ClassIdLimit >= INIT_NUM_CLASSES
                        /\ MaxReaderTxns \in Nat
                        /\ MaxHalf \in Nat

ClassId == INIT_NUM_CLASSES + 1 .. ClassIdLimit
TxnId   == 0 .. TxnIdMax
Classes == [ClassId -> Names \cup {Absent}]      \* contents of the table .classes
DBInfo  == [maxClassId : INIT_NUM_CLASSES .. ClassIdLimit, numClass : Int]

VARIABLES
  store,           \* data store: the committed table of classes
  tables,          \* data store: the classes whose own table holds a record
  storeWriter,     \* data store: holder of its writer lock
  writerMutex,     \* dbWriterMutex: the committing writer
  dbInfo,          \* dbInfo: id allocator and class count
  maxVersionId, maxTxnId, activeTxnIds,  \* TxnStat
  schemaInfo,      \* the ids in Schema::schemaInfo
  state,           \* TxnObject::state of every class descriptor
  name,            \* ClassDescriptor::name, a version list
  deletedClassId,  \* Schema::deletedClassId, the delete queue
  pc,              \* where each thread is
  rd,              \* a reader's BaseTxn: snapshot, txnId, versionId
  tx,              \* a writer's BaseTxn and the locals of its commit
  hist,            \* ghost: the classes each version consists of
  half             \* ghost: committed classes whose last operation failed halfway

tableVars  == <<store, tables, half>>
storeVars  == <<tableVars, storeWriter>>
statVars   == <<maxVersionId, maxTxnId, activeTxnIds>>
schemaVars == <<schemaInfo, state, name, deletedClassId>>
vars == <<storeVars, writerMutex, dbInfo, statVars, schemaVars, pc, rd, tx, hist>>

UNCOMMITTED_CREATE == "UNCOMMITTED_CREATE"
COMMITTED_CREATE   == "COMMITTED_CREATE"
UNCOMMITTED_DELETE == "UNCOMMITTED_DELETE"
COMMITTED_DELETE   == "COMMITTED_DELETE"
StatusFlag == {UNCOMMITTED_CREATE, COMMITTED_CREATE, UNCOMMITTED_DELETE, COMMITTED_DELETE}
State      == [versionId : TxnId, status : StatusFlag]
NewState   == [versionId |-> 0, status |-> UNCOMMITTED_CREATE]

NoClasses == [c \in ClassId |-> Absent]
NewRd == [snapshot |-> NoClasses, txnId |-> 0, versionId |-> 0]
NewTx == [versionId |-> 0, info |-> [maxClassId |-> INIT_NUM_CLASSES, numClass |-> 0],
          ucSchema |-> {}, pend |-> NoClasses, tables |-> {}, minVersion |-> 0,
          todo |-> {}, deleted |-> << >>,
          done |-> NoClasses, half |-> {}]     \* ghosts: what completed, what failed halfway

present(classes) == {c \in ClassId : classes[c] # Absent}

First(S) == {c \in S : \A d \in S : c <= d}    \* the front of an ordered map, if any

-----------------------------------------------------------------------------
(* TxnObject: visibility and state changes.                                *)

checkReadOnly(c, versionId) ==
  \/ state[c].status = UNCOMMITTED_CREATE
  \/ state[c].status = COMMITTED_DELETE /\ versionId >= state[c].versionId
  \/ state[c].status = COMMITTED_CREATE /\ versionId < state[c].versionId

checkReadWrite(c) == state[c].status \in {UNCOMMITTED_DELETE, COMMITTED_DELETE}

updateStateForgetsDelete(s, commitId) ==     \* mutant of updateState
  IF s.status = UNCOMMITTED_CREATE THEN [versionId |-> commitId, status |-> COMMITTED_CREATE]
  ELSE s

updateState(s, commitId) ==
  CASE s.status = UNCOMMITTED_CREATE -> [versionId |-> commitId, status |-> COMMITTED_CREATE]
    [] s.status = UNCOMMITTED_DELETE -> [versionId |-> commitId, status |-> COMMITTED_DELETE]
    [] OTHER -> s

(* TxnStat: the registered readers, ordered by transaction number.         *)

minActiveTxnId == {a \in activeTxnIds : \A b \in activeTxnIds : a.txnId <= b.txnId}

isLastMinVersionId(txnId) ==
  \E a \in minActiveTxnId :
    /\ a.txnId = txnId
    /\ \A b \in activeTxnIds \ {a} :
         (\A d \in activeTxnIds \ {a} : b.txnId <= d.txnId) => a.versionId < b.versionId

(* Schema: lookups by a read-write transaction.                            *)

findById(w, c) ==
  /\ c \in schemaInfo \cup tx[w].ucSchema
  /\ ~checkReadWrite(c)

find(w, n) ==
  LET uc   == First({c \in tx[w].ucSchema : n \in getUnstableVersion(name[c])})
      info == First({c \in schemaInfo : n \in getLatestVersion(name[c])})
  IN  {c \in (IF uc # {} THEN uc ELSE info) : ~checkReadWrite(c)}

\* What a read-only transaction at versionId finds under a class id.
readOnlyName(c, versionId) ==
  IF c \in schemaInfo /\ ~checkReadOnly(c, versionId)
  THEN getStableVersion(name[c], versionId) ELSE {}

\* What a read-write transaction finds under a class id.
readWriteName(w, c) == IF findById(w, c) THEN getLatestVersion(name[c]) ELSE {}

\* Schema::clearDeletedElements: pop the queue up to versionId, erase the ids.
isFront(i, versionId) ==   \* i is the front of the queue once pop_front is done
  /\ i <= Len(deletedClassId) => deletedClassId[i].versionId > versionId
  /\ \A j \in 1 .. Len(deletedClassId) : j < i => deletedClassId[j].versionId <= versionId

clearDeletedElements(versionId) ==
  \E i \in 1 .. Len(deletedClassId) + 1 :
    LET gone == {deletedClassId[j].id : j \in 1 .. i - 1}
    IN  /\ isFront(i, versionId)
        /\ deletedClassId' = SubSeq(deletedClassId, i, Len(deletedClassId))
        /\ schemaInfo' = schemaInfo \ gone
        /\ state' = [c \in ClassId |-> IF c \in gone THEN NewState ELSE state[c]]
        /\ name'  = [c \in ClassId |-> IF c \in gone THEN NewVersionList ELSE name[c]]

-----------------------------------------------------------------------------
(* Opening the database.  initDatabase loads the table into an in-memory   *)
(* transaction and commits it, which makes version 1.                      *)

LoadedInfoKeepsInitial(classes) ==           \* mutant of LoadedInfo
  {[maxClassId |-> INIT_NUM_CLASSES, numClass |-> Cardinality(present(classes))]}

LoadedInfo(classes) ==   \* one element: maxClassId is the largest id, if there is one
  {[maxClassId |-> m, numClass |-> Cardinality(present(classes))] :
     m \in {m \in present(classes) \cup {INIT_NUM_CLASSES} : \A c \in present(classes) : c <= m}}

loadedState(classes) ==
  [c \in ClassId |-> IF classes[c] = Absent THEN NewState ELSE updateState(NewState, 1)]

loadedName(classes) ==
  [c \in ClassId |-> IF classes[c] = Absent THEN NewVersionList
                     ELSE upgradeStableVersion(addLatestVersion(NewVersionList, classes[c]), 1)]

AllIdle == [t \in Readers \cup Writers |-> "idle"]

Init ==
  /\ store = NoClasses /\ storeWriter = NoTxn /\ writerMutex = NoTxn
  /\ dbInfo \in LoadedInfo(store)
  /\ maxVersionId = 1 /\ maxTxnId = 1 /\ activeTxnIds = {}
  /\ schemaInfo = present(store) /\ state = loadedState(store) /\ name = loadedName(store)
  /\ deletedClassId = << >>
  /\ pc = AllIdle /\ rd = [r \in Readers |-> NewRd] /\ tx = [w \in Writers |-> NewTx]
  /\ hist = [v \in TxnId |-> store] /\ tables = {} /\ half = {}

\* The process dies at any point and the database is opened again; only the
\* tables in the data store survive.
Reopen ==
  /\ store' = store /\ storeWriter' = NoTxn /\ writerMutex' = NoTxn
  /\ dbInfo' \in LoadedInfo(store)
  /\ maxVersionId' = 1 /\ maxTxnId' = 1 /\ activeTxnIds' = {}
  /\ schemaInfo' = present(store) /\ state' = loadedState(store) /\ name' = loadedName(store)
  /\ deletedClassId' = << >>
  /\ pc' = AllIdle /\ rd' = [r \in Readers |-> NewRd] /\ tx' = [w \in Writers |-> NewTx]
  /\ hist' = [v \in TxnId |-> store] /\ tables' = tables /\ half' = {}

-----------------------------------------------------------------------------
(* Read-only transactions: BaseTxn::BaseTxn, commit and rollback.          *)

ReadOnlyOpen(r) ==          \* the data store takes its snapshot
  /\ pc[r] = "idle" /\ maxTxnId <= MaxReaderTxns
  /\ rd' = [rd EXCEPT ![r].snapshot = store]
  /\ pc' = [pc EXCEPT ![r] = "opened"]
  /\ UNCHANGED <<storeVars, writerMutex, dbInfo, statVars, schemaVars, tx, hist>>

ReadOnlyNumber(r) ==        \* fetchAddMaxTxnId
  /\ pc[r] = "opened"
  /\ rd' = [rd EXCEPT ![r].txnId = maxTxnId]
  /\ maxTxnId' = maxTxnId + 1
  /\ pc' = [pc EXCEPT ![r] = "numbered"]
  /\ UNCHANGED <<storeVars, writerMutex, dbInfo, maxVersionId, activeTxnIds, schemaVars, tx, hist>>

ReadOnlyVersion(r) ==
  /\ pc[r] = "numbered"
  /\ rd' = [rd EXCEPT ![r].versionId = maxVersionId]
  /\ pc' = [pc EXCEPT ![r] = "versioned"]
  /\ UNCHANGED <<storeVars, writerMutex, dbInfo, statVars, schemaVars, tx, hist>>

ReadOnlyRegister(r) ==      \* addActiveTxnId; the transaction may read from here on
  /\ pc[r] = "versioned"
  /\ activeTxnIds' = activeTxnIds \cup {[txnId |-> rd[r].txnId, versionId |-> rd[r].versionId]}
  /\ pc' = [pc EXCEPT ![r] = "active"]
  /\ UNCHANGED <<storeVars, writerMutex, dbInfo, maxVersionId, maxTxnId, schemaVars, rd, tx, hist>>

ReadOnlyEnd(r) ==           \* commit and rollback of a reader do the same
  /\ pc[r] = "active"
  /\ pc' = [pc EXCEPT ![r] = IF isLastMinVersionId(rd[r].txnId) THEN "clearing" ELSE "leaving"]
  /\ UNCHANGED <<storeVars, writerMutex, dbInfo, statVars, schemaVars, rd, tx, hist>>

ReadOnlyClear(r) ==
  /\ pc[r] = "clearing"
  /\ clearDeletedElements(rd[r].versionId + 1)
  /\ pc' = [pc EXCEPT ![r] = "leaving"]
  /\ UNCHANGED <<storeVars, writerMutex, dbInfo, statVars, rd, tx, hist>>

ReadOnlyLeave(r) ==         \* removeActiveTxnId, close the snapshot
  /\ pc[r] = "leaving"
  /\ activeTxnIds' = {a \in activeTxnIds : a.txnId # rd[r].txnId}
  /\ rd' = [rd EXCEPT ![r] = NewRd]
  /\ pc' = [pc EXCEPT ![r] = "idle"]
  /\ UNCHANGED <<storeVars, writerMutex, dbInfo, maxVersionId, maxTxnId, schemaVars, tx, hist>>

-----------------------------------------------------------------------------
(* Beginning a read-write transaction.                                     *)

ReadWriteOpen(w) ==         \* blocks in the data store until it is the only writer
  /\ pc[w] = "idle" /\ storeWriter = NoTxn
  /\ storeWriter' = w
  /\ pc' = [pc EXCEPT ![w] = "opened"]
  /\ UNCHANGED <<tableVars, writerMutex, dbInfo, statVars, schemaVars, rd, tx, hist>>

NoWaitForPreviousWriter == TRUE              \* mutant of PreviousWriterIsDone

\* The previous writer may have left the data store and still be publishing its
\* changes in memory: the constructor waits for dbWriterMutex.
PreviousWriterIsDone == writerMutex = NoTxn

NoVersionLimit == FALSE                      \* mutant of VersionMaxReached

VersionMaxReached == maxVersionId + 1 = TxnIdMax

ReadWriteEnter(w) ==
  /\ pc[w] = "opened" /\ PreviousWriterIsDone
  /\ IF VersionMaxReached
     THEN /\ storeWriter' = NoTxn         \* NOGDB_TXN_VERSION_MAXREACH
          /\ pc' = [pc EXCEPT ![w] = "idle"]
          /\ UNCHANGED tx
     ELSE /\ tx' = [tx EXCEPT ![w] = [NewTx EXCEPT !.versionId = maxVersionId + 1,
                                                   !.info = dbInfo, !.pend = store,
                                                   !.tables = tables, !.half = half,
                                                   !.done = hist[maxVersionId]]]
          /\ pc' = [pc EXCEPT ![w] = "active"]
          /\ UNCHANGED storeWriter
  /\ UNCHANGED <<tableVars, writerMutex, dbInfo, statVars, schemaVars, rd, hist>>

-----------------------------------------------------------------------------
(* Schema operations of a read-write transaction.                          *)

\* What a schema operation leaves in its transaction t: the record of class c and
\* the tables in the data store, the counters of dbInfo and the changed classes.
written(t, c, n, info, uc, own) ==
  [t EXCEPT !.pend = [@ EXCEPT ![c] = n], !.tables = own, !.info = info, !.ucSchema = uc,
            !.done = [@ EXCEPT ![c] = n], !.half = @ \ {c}]

\* The same of an operation that throws after it has written the record: create
\* and drop undo nothing, and the application may go on and commit.
halfWritten(t, c, n, info) ==
  [t EXCEPT !.pend = [@ EXCEPT ![c] = n], !.info = info, !.half = @ \cup {c}]

\* The data store refuses to open the table of a class or a cursor on it, without
\* failing the transaction: MDB_DBS_FULL or ENOMEM.  What the limits have been used
\* up for is outside the model, so it may happen any time.
Refused(w) == Cardinality(tx[w].half) < MaxHalf

\* MDB_APPEND takes a key beyond all keys of the table, MDB_KEYEXIST otherwise.
canAppend(classes, id) == \A c \in present(classes) : c < id

\* Class::create.  The id is taken before the name is checked, so a duplicate
\* name costs an id, and so does a record that cannot be appended.
ClassCreate(w, n) ==
  LET id   == tx[w].info.maxClassId + 1
      info == [tx[w].info EXCEPT !.maxClassId = id]
  IN  /\ pc[w] = "active"
      /\ tx[w].info.maxClassId < ClassIdLimit
      /\ IF find(w, n) # {} \/ ~canAppend(tx[w].pend, id)
         THEN /\ tx' = [tx EXCEPT ![w].info = info]
              /\ UNCHANGED schemaVars
         ELSE /\ id \notin tx[w].tables
              /\ tx' = [tx EXCEPT ![w] =
                          written(@, id, n, [info EXCEPT !.numClass = @ + 1], @.ucSchema \cup {id},
                                  @.tables \cup {id})]
              /\ state' = [state EXCEPT ![id] = NewState]
              /\ name' = [name EXCEPT ![id] = addLatestVersion(NewVersionList, n)]
              /\ UNCHANGED <<schemaInfo, deletedClassId>>
      /\ UNCHANGED <<storeVars, writerMutex, dbInfo, statVars, pc, rd, hist>>

\* The record is in the table of classes, but the class's own table cannot be opened,
\* or is there already and its first record cannot be appended.
ClassCreateFails(w, n) ==
  LET id == tx[w].info.maxClassId + 1
  IN  /\ pc[w] = "active"
      /\ tx[w].info.maxClassId < ClassIdLimit
      /\ find(w, n) = {} /\ canAppend(tx[w].pend, id)
      /\ id \in tx[w].tables \/ Refused(w)
      /\ tx' = [tx EXCEPT ![w] = halfWritten(@, id, n, [@.info EXCEPT !.maxClassId = id])]
      /\ UNCHANGED <<storeVars, writerMutex, dbInfo, statVars, schemaVars, pc, rd, hist>>

ClassAlter(w, old, new) ==
  /\ pc[w] = "active"
  /\ find(w, new) = {}
  /\ \E c \in find(w, old) :
       /\ tx' = [tx EXCEPT ![w] = written(@, c, new, @.info, @.ucSchema \cup {c}, @.tables)]
       /\ name' = [name EXCEPT ![c] = addLatestVersion(@, new)]
  /\ UNCHANGED <<storeVars, writerMutex, dbInfo, statVars, schemaInfo, state, deletedClassId,
                 pc, rd, hist>>

\* Class::drop and Schema::erase.  A class made by this transaction is simply
\* forgotten.
ClassDrop(w, n) ==
  LET info == [tx[w].info EXCEPT !.numClass = @ - 1]
      own  == tx[w].tables
  IN  /\ pc[w] = "active"
      /\ \E c \in find(w, n) :
           IF state[c].status = UNCOMMITTED_CREATE
           THEN /\ tx' = [tx EXCEPT ![w] = written(@, c, Absent, info, @.ucSchema \ {c}, own \ {c})]
                /\ name' = [name EXCEPT ![c] = NewVersionList]
                /\ UNCHANGED state
           ELSE /\ tx' = [tx EXCEPT ![w] = written(@, c, Absent, info, @.ucSchema \cup {c}, own \ {c})]
                /\ state' = [state EXCEPT ![c].status = UNCOMMITTED_DELETE]
                /\ UNCHANGED name
      /\ UNCHANGED <<storeVars, writerMutex, dbInfo, statVars, schemaInfo, deletedClassId,
                     pc, rd, hist>>

\* The record is deleted, but the class's own table cannot be opened or dropped.
ClassDropFails(w, n) ==
  /\ pc[w] = "active" /\ Refused(w)
  /\ \E c \in find(w, n) : tx' = [tx EXCEPT ![w] = halfWritten(@, c, Absent, @.info)]
  /\ UNCHANGED <<storeVars, writerMutex, dbInfo, statVars, schemaVars, pc, rd, hist>>

-----------------------------------------------------------------------------
(* Committing a read-write transaction, step by step.                      *)

CommitLock(w) ==            \* dbWriterMutex, exclusively
  /\ pc[w] = "active" /\ writerMutex = NoTxn
  /\ writerMutex' = w
  /\ pc' = [pc EXCEPT ![w] = "committing"]
  /\ UNCHANGED <<storeVars, dbInfo, statVars, schemaVars, rd, tx, hist>>

CommitStore(w) ==           \* durable; the data store admits the next writer
  /\ pc[w] = "committing"
  /\ store' = tx[w].pend /\ tables' = tx[w].tables /\ half' = tx[w].half
  /\ storeWriter' = NoTxn
  /\ hist' = [hist EXCEPT ![tx[w].versionId] = tx[w].done]
  /\ pc' = [pc EXCEPT ![w] = "stored"]
  /\ UNCHANGED <<writerMutex, dbInfo, statVars, schemaVars, rd, tx>>

CommitMinVersion(w) ==      \* the version garbage collection must keep
  /\ pc[w] = "stored"
  /\ \E v \in IF activeTxnIds = {} THEN {tx[w].versionId - 1}
              ELSE {a.versionId : a \in minActiveTxnId} :
       tx' = [tx EXCEPT ![w].minVersion = v, ![w].todo = tx[w].ucSchema]
  /\ pc' = [pc EXCEPT ![w] = "merging"]
  /\ UNCHANGED <<storeVars, writerMutex, dbInfo, statVars, schemaVars, rd, hist>>

queueEntryForChanged(c, versionId) ==        \* mutant of queueEntry
  IF state[c].status # UNCOMMITTED_CREATE THEN <<[id |-> c, versionId |-> versionId]>> ELSE << >>

queueEntry(c, versionId) ==
  IF state[c].status = UNCOMMITTED_DELETE THEN <<[id |-> c, versionId |-> versionId]>> ELSE << >>

\* The loop body over ucSchema, in the order of the ids.
CommitClass(w) ==
  /\ pc[w] = "merging"
  /\ \E c \in First(tx[w].todo) :
       LET status == state[c].status
           v      == tx[w].versionId
           kept   == IF status \in {UNCOMMITTED_DELETE, UNCOMMITTED_CREATE} THEN name[c]
                     ELSE clearStableVersion(name[c], tx[w].minVersion)
       IN  /\ tx' = [tx EXCEPT ![w].todo = @ \ {c},
                               ![w].deleted = @ \o queueEntry(c, v)]
           /\ schemaInfo' = IF status = UNCOMMITTED_CREATE THEN schemaInfo \cup {c}
                            ELSE schemaInfo
           /\ state' = [state EXCEPT ![c] = updateState(@, v)]
           /\ name' = [name EXCEPT ![c] = upgradeStableVersion(kept, v)]
  /\ UNCHANGED <<storeVars, writerMutex, dbInfo, statVars, deletedClassId, pc, rd, hist>>

CommitSave(w) ==            \* the delete queue and dbInfo, if anything changed
  /\ pc[w] = "merging" /\ tx[w].todo = {}
  /\ deletedClassId' = deletedClassId \o tx[w].deleted
  /\ dbInfo' = IF tx[w].ucSchema # {} THEN tx[w].info ELSE dbInfo
  /\ pc' = [pc EXCEPT ![w] = "saved"]
  /\ UNCHANGED <<storeVars, writerMutex, statVars, schemaInfo, state, name, rd, tx, hist>>

CommitPublish(w) ==         \* fetchAddMaxVersionId
  /\ pc[w] = "saved"
  /\ maxVersionId' = maxVersionId + 1
  /\ pc' = [pc EXCEPT ![w] = "published"]
  /\ UNCHANGED <<storeVars, writerMutex, dbInfo, maxTxnId, activeTxnIds, schemaVars, rd, tx, hist>>

CommitWaitsForReaders(w) ==                  \* mutant of CommitCheck
  /\ pc[w] = "published" /\ activeTxnIds = {}
  /\ pc' = [pc EXCEPT ![w] = "clearing"]
  /\ UNCHANGED <<storeVars, writerMutex, dbInfo, statVars, schemaVars, rd, tx, hist>>

CommitCheck(w) ==           \* are there registered readers?
  /\ pc[w] = "published"
  /\ pc' = [pc EXCEPT ![w] = IF activeTxnIds = {} THEN "clearing" ELSE "leaving"]
  /\ UNCHANGED <<storeVars, writerMutex, dbInfo, statVars, schemaVars, rd, tx, hist>>

CommitClear(w) ==
  /\ pc[w] = "clearing"
  /\ clearDeletedElements(tx[w].versionId)
  /\ pc' = [pc EXCEPT ![w] = "leaving"]
  /\ UNCHANGED <<storeVars, writerMutex, dbInfo, statVars, rd, tx, hist>>

CommitKeepsMutex(w) ==                       \* mutant of CommitUnlock
  /\ pc[w] = "leaving"
  /\ tx' = [tx EXCEPT ![w] = NewTx]
  /\ pc' = [pc EXCEPT ![w] = "idle"]
  /\ UNCHANGED <<storeVars, writerMutex, dbInfo, statVars, schemaVars, rd, hist>>

CommitUnlock(w) ==
  /\ pc[w] = "leaving"
  /\ writerMutex' = NoTxn
  /\ tx' = [tx EXCEPT ![w] = NewTx]
  /\ pc' = [pc EXCEPT ![w] = "idle"]
  /\ UNCHANGED <<storeVars, dbInfo, statVars, schemaVars, rd, hist>>

keepsDropped(s) == s                         \* mutant of undropped

undropped(s) == IF s.status = UNCOMMITTED_DELETE THEN [s EXCEPT !.status = COMMITTED_CREATE] ELSE s

\* rollback, also what the destructor of an unfinished transaction does.
Rollback(w) ==
  /\ pc[w] = "active"
  /\ state' = [c \in ClassId |-> IF c \in tx[w].ucSchema THEN undropped(state[c]) ELSE state[c]]
  /\ name' = [c \in ClassId |-> IF c \in tx[w].ucSchema THEN disableUnstableVersion(name[c])
                                ELSE name[c]]
  /\ storeWriter' = NoTxn
  /\ tx' = [tx EXCEPT ![w] = NewTx]
  /\ pc' = [pc EXCEPT ![w] = "idle"]
  /\ UNCHANGED <<tableVars, writerMutex, dbInfo, statVars, schemaInfo, deletedClassId, rd, hist>>

-----------------------------------------------------------------------------

ReaderNext(r) ==
  \/ ReadOnlyOpen(r) \/ ReadOnlyNumber(r) \/ ReadOnlyVersion(r) \/ ReadOnlyRegister(r)
  \/ ReadOnlyEnd(r) \/ ReadOnlyClear(r) \/ ReadOnlyLeave(r)

ClassNext(w) ==
  \/ \E n \in Names : ClassCreate(w, n) \/ ClassDrop(w, n)
  \/ \E n \in Names : ClassCreateFails(w, n) \/ ClassDropFails(w, n)
  \/ \E old, new \in Names : ClassAlter(w, old, new)

CommitNext(w) ==
  \/ CommitStore(w) \/ CommitMinVersion(w) \/ CommitClass(w) \/ CommitSave(w)
  \/ CommitPublish(w) \/ CommitCheck(w) \/ CommitClear(w) \/ CommitUnlock(w)

WriterNext(w) ==
  \/ ReadWriteOpen(w) \/ ReadWriteEnter(w) \/ ClassNext(w)
  \/ CommitLock(w) \/ CommitNext(w) \/ Rollback(w)

Next == \/ \E r \in Readers : ReaderNext(r)
        \/ \E w \in Writers : WriterNext(w)
        \/ Reopen

Spec == Init /\ [][Next]_vars

\* The same without the crash: the behaviours in which things must go on.
Step == \/ \E r \in Readers : ReaderNext(r)
        \/ \E w \in Writers : WriterNext(w)

\* A thread inside the constructor or inside commit keeps running; nothing is
\* assumed about when the application ends a transaction it has begun.
Fairness == \A w \in Writers : WF_vars(ReadWriteEnter(w)) /\ WF_vars(CommitNext(w))

StepSpec == Init /\ [][Step]_vars
LiveSpec == StepSpec /\ Fairness

-----------------------------------------------------------------------------
(* Properties.                                                             *)

ActiveTxnId  == [txnId : Nat, versionId : TxnId]
DeleteQueue  == Seq([id : ClassId, versionId : TxnId])
ReadOnlyTxn  == [snapshot : Classes, txnId : Nat, versionId : TxnId]
ReadWriteTxn == [versionId : TxnId, info : DBInfo, ucSchema : SUBSET ClassId, pend : Classes,
                 tables : SUBSET ClassId, minVersion : TxnId, todo : SUBSET ClassId,
                 deleted : DeleteQueue, done : Classes, half : SUBSET ClassId]

\* The variables hold what their declarations in the code admit.
TypeOK ==
  /\ store \in Classes
  /\ storeWriter \in Writers \cup {NoTxn}
  /\ writerMutex \in Writers \cup {NoTxn}
  /\ dbInfo \in DBInfo
  /\ maxVersionId \in TxnId \ {0}
  /\ maxTxnId \in Nat \ {0}
  /\ activeTxnIds \in SUBSET ActiveTxnId
  /\ schemaInfo \in SUBSET ClassId
  /\ state \in [ClassId -> State]
  /\ name \in [ClassId -> VersionList(Names)]
  /\ deletedClassId \in DeleteQueue
  /\ pc \in [Readers \cup Writers ->
               {"idle", "opened", "numbered", "versioned", "active", "committing", "stored",
                "merging", "saved", "published", "clearing", "leaving"}]
  /\ rd \in [Readers -> ReadOnlyTxn]
  /\ tx \in [Writers -> ReadWriteTxn]
  /\ hist \in [TxnId -> Classes]
  /\ tables \in SUBSET ClassId
  /\ half \in SUBSET ClassId

Unpublished == {"active", "committing", "stored", "merging", "saved"}
Published   == {"published", "clearing", "leaving"}
HoldsStore  == {"opened", "active", "committing"}

\* Between the commit in the data store and the bump of maxVersionId.
isPublishing(w) == pc[w] \in {"stored", "merging", "saved"}

\* Only one read-write transaction is inside at a time, although the data store
\* lets the next one in before the previous one has finished commit, and the
\* version it works for is the successor of the newest one all through (the
\* bump in commit is a bare fetch_add, not an assignment of versionId).
WriterHandoff ==
  \A w \in Writers :
    /\ pc[w] \in Unpublished => tx[w].versionId = maxVersionId + 1
    /\ pc[w] \in Published => tx[w].versionId = maxVersionId
    /\ pc[w] \in Unpublished \cup Published =>
         \A u \in Writers \ {w} : pc[u] \in {"idle", "opened"}

\* The stable versions of a name are in strictly increasing order and none is
\* newer than the version being committed: the backward scan of getStableVersion
\* relies on it.
VersionsIncreasing ==
  \A c \in ClassId :
    LET s == name[c].stable IN
      /\ \A i, j \in 1 .. Len(s) : i < j => s[i].versionId < s[j].versionId
      /\ \A i \in 1 .. Len(s) :
           \/ s[i].versionId <= maxVersionId
           \/ \E w \in Writers : /\ pc[w] \in {"merging", "saved"}
                                 /\ s[i].versionId = tx[w].versionId

\* Whatever a read-only transaction at any published version finds under a class
\* id is the name the class had in that version: commits, rollbacks, drops and
\* garbage collection by others never make it read another version's name.
ReadersNeverReadAnotherVersion ==
  \A c \in ClassId : \A v \in 1 .. maxVersionId :
    \A n \in readOnlyName(c, v) : n = hist[v][c]

\* Whenever no commit is between its two halves, the newest version in memory has
\* exactly the classes that completed operations of committed transactions made,
\* and the data store disagrees with it about precisely the classes whose last
\* create or drop failed halfway (none right after a restart).
MemoryIsStore ==
  (\A w \in Writers : ~isPublishing(w)) =>
    \A c \in ClassId :
      /\ readOnlyName(c, maxVersionId) = {hist[maxVersionId][c]} \ {Absent}
      /\ c \in half <=> store[c] # hist[maxVersionId][c]

\* An open read-write transaction sees in memory exactly what its completed creates,
\* renames and drops made, and nobody else's leftovers; what it has written to the
\* data store differs from that where an operation failed halfway and nowhere else.
WriterSeesItsWrites ==
  \A w \in Writers : pc[w] = "active" =>
    \A c \in ClassId :
      /\ readWriteName(w, c) = {tx[w].done[c]} \ {Absent}
      /\ c \in tx[w].half <=> tx[w].pend[c] # tx[w].done[c]

\* When no read-write transaction is open, nothing uncommitted is left in memory.
NothingUncommittedLeft ==
  (\A w \in Writers : pc[w] \in {"idle", "opened"} \cup Published) =>
    \A c \in ClassId : /\ ~isVisible(name[c])
                       /\ c \in schemaInfo => state[c].status \in {COMMITTED_CREATE, COMMITTED_DELETE}

\* The id Class::create takes next is beyond every id in use, in the schema, in the
\* delete queue (which erases by id) and in the table (where MDB_APPEND fails
\* otherwise) but for records that a failed create left there, and the class count
\* is exactly the number of classes that completed operations made.
AllocatorAhead ==
  /\ \A w \in Writers : pc[w] = "active" =>
       /\ \A c \in (present(tx[w].pend) \ tx[w].half) \cup schemaInfo : c <= tx[w].info.maxClassId
       /\ tx[w].info.numClass = Cardinality(present(tx[w].done))
  /\ (\A w \in Writers : ~isPublishing(w)) =>
       /\ \A c \in (present(store) \ half) \cup schemaInfo : c <= dbInfo.maxClassId
       /\ dbInfo.numClass = Cardinality(present(hist[maxVersionId]))

\* Every dropped class still in memory is waiting in exactly one delete queue, so
\* it can be reclaimed, and a queue holds dropped classes only, oldest first.
DeleteQueueExact ==
  LET queued == {deletedClassId[i] : i \in 1 .. Len(deletedClassId)}
      merged == UNION {{tx[w].deleted[i] : i \in 1 .. Len(tx[w].deleted)} :
                         w \in {u \in Writers : pc[u] = "merging"}}
  IN  /\ queued \cap merged = {}
      /\ queued \cup merged = {[id |-> c, versionId |-> state[c].versionId] :
                                 c \in {d \in schemaInfo : state[d].status = COMMITTED_DELETE}}
      /\ \A i, j \in 1 .. Len(deletedClassId) :
           i < j => /\ deletedClassId[i].versionId <= deletedClassId[j].versionId
                    /\ deletedClassId[i].id # deletedClassId[j].id

\* A read at a fixed version never gains or changes a result by the steps of
\* others; garbage collection may take results away.
ReadsOnlyShrink ==
  [][\A c \in ClassId : \A v \in 1 .. maxVersionId :
       readOnlyName(c, v)' \subseteq readOnlyName(c, v)]_vars

\* A writer that got the data store's lock is not kept waiting for dbWriterMutex.
HandoffHappens == \A w \in Writers : pc[w] = "opened" ~> pc[w] # "opened"

\* A commit that has started runs to its end.
CommitTerminates == \A w \in Writers : pc[w] = "committing" ~> pc[w] = "idle"

-----------------------------------------------------------------------------
(* What the documentation says of transactions and the code does not keep. *)

\* A read-only transaction works on one state of the database: the version it
\* reads in memory is the version its data store snapshot holds.
SnapshotsAgree ==
  \A r \in Readers : pc[r] = "active" => rd[r].snapshot = hist[rd[r].versionId]

\* commit collects old versions down to the version of the oldest registered
\* reader: of the classes it has merged, that reader finds what it found before.
CollectorKeepsItsFloor ==
  \A w \in Writers, r \in Readers :
    (/\ pc[w] = "merging" /\ pc[r] = "active"
     /\ tx[w].minVersion = rd[r].versionId)
    => \A c \in (tx[w].ucSchema \ tx[w].todo) \cap schemaInfo :
         {hist[rd[r].versionId][c]} \ {Absent} \subseteq readOnlyName(c, rd[r].versionId)

\* A read-only transaction does not find a class that its version does not have.
NoClassOfAnotherVersion ==
  \A r \in Readers : pc[r] = "active" =>
    \A c \in schemaInfo :
      ~checkReadOnly(c, rd[r].versionId) => hist[rd[r].versionId][c] # Absent

\* A registered reader finds every class of its version, whatever is dropped,
\* committed and reclaimed meanwhile.
ReadersKeepTheirClasses ==
  \A r \in Readers : pc[r] = "active" =>
    \A c \in present(hist[rd[r].versionId]) :
      c \in schemaInfo /\ ~checkReadOnly(c, rd[r].versionId)

\* A class of the newest version stays in memory until the version that drops it is
\* published, also while the commit that drops it is at work.
NewestVersionComplete == present(hist[maxVersionId]) \subseteq schemaInfo

\* The active transaction that is reported, and used, as the oldest reads the oldest
\* version.
OldestReaderFirst ==
  \A a \in minActiveTxnId : \A b \in activeTxnIds : a.versionId <= b.versionId

\* dbInfo describes the database: numClass is the number of classes in it and
\* maxClassId the largest id.
InfoDescribesDatabase ==
  (\A w \in Writers : ~isPublishing(w)) =>
    /\ dbInfo.numClass = Cardinality(present(store))
    /\ \A c \in present(store) : c <= dbInfo.maxClassId

\* No two classes in the data store have the same name.
ClassNamesUnique ==
  \A c, d \in present(store) : store[c] = store[d] => c = d
=============================================================================
