# Verification of libnogdb

TLA+ models of the concurrent core of libnogdb, TLC configurations that check
them on small instances, and TLAPS proofs for every instance. Paths below are
relative to the repository (`src/...`).

## 1. The system

libnogdb is an embedded graph database. A `Context` owns an LMDB environment
(the durable data) and an in-memory copy of the schema and of the graph's
structure. Applications run transactions: any number of read-only ones and one
read-write one at a time. LMDB gives each transaction a snapshot of the records;
the in-memory structures are *multi-versioned* by the library itself, and this
is where most of its concurrency lives.

| Part | State | Operations | What makes it hard | Properties |
|---|---|---|---|---|
| `VersionControl` (`version_control.hpp`) | committed versions of one member, one uncommitted slot | add, delete, upgrade (commit), disable (rollback), clear, reads at a version | reads at any version while old versions are erased | order, collection loses nothing it must keep and invents nothing |
| `RWSpinLock` (`spinlock.hpp`) | flag, reader count | lock, lockShared and their releases | announce-and-check protocol between atomics | exclusion, exact count, progress |
| `BaseTxn`, `Txn`, `TxnStat`, `TxnObject` | active readers, version counters, status flags, uncommitted sets | begin, commit, rollback of both kinds | two-phase commit of LMDB and memory, handover between writers, readers that register late, crash between the phases | one writer inside, readers read no other version, memory and store differ only where an operation failed halfway |
| `Schema`, `Class` (`schema.cpp`, `class.cpp`) | class table, names, properties, inheritance, delete queue | create, createExtend, alter, drop, find | lookups that mix committed and uncommitted names, ids taken before validation, errors after the first write, deferred deletion | unique names, ids in use never taken again, delete queue exact |
| `Property` (`property.cpp`) | properties and index lists of a class | add, alter, remove, createIndex, dropIndex | conflicts with super- and subclasses | no duplicate in a line of inheritance |
| `Graph` (`mem_vertex.cpp`, `mem_edge.cpp`, `multiversion_hashmap.hpp`) | vertices, edges, adjacency maps of version lists | create, delete, alter an end | an edge's state is spread over itself and two vertices | adjacency and edge ends agree at every version |
| `Vertex`, `Edge`, `Index` | records, relations, index tables | create, update, destroy, updateSrc, updateDst | four structures changed one after the other | index equals records, relations equal graph |
| `Context` (`context.cpp`) | everything above | open | rebuilding memory from LMDB | memory equals store after a restart |
| traversal (`algorithm.cpp`, `algorithm.hpp`) | none | BFS, DFS, shortest path | depth limits and filters | result equals a reference definition |
| conditions, cursors, record bytes, SQL | none that is shared | evaluation and translation | - | left to unit tests |

The parts interact through the transaction: an operation changes LMDB and the
uncommitted slots of the in-memory objects, and puts these objects into the
transaction's uncommitted sets; `BaseTxn::commit` first commits LMDB, then walks
the sets and turns slots into versions, then bumps `maxVersionId`, which lets
later readers see them. Garbage is collected in two ways: `commit` trims the
version lists it touches down to the version of the oldest registered reader,
and delete queues hold dropped objects until no reader needs them.

## 2. Modules

| Module | Models | Used by |
|---|---|---|
| `VersionControl` | `version_control.hpp`: operators on one version list | `BaseTxn` |
| `BaseTxn` | `base_txn.cpp`, `txn_object.hpp`, names and lifetimes of classes in `schema.cpp` and `class.cpp`, opening in `context.cpp` | `MCBaseTxn` |
| `MCBaseTxn` | symmetry for TLC | all transaction runs |
| `RWSpinLock` | `spinlock.hpp` | its own run |
| `VersionControlProofs`, `RWSpinLockProofs` | theorems about one version list and about the lock | - |
| `BaseTxnProofs`, `BaseTxnVersionProofs`, `BaseTxnReadsProofs` | theorems about transactions: types and handover; the invariant about versions and the steps of readers and open writers; commit, restart and the theorems about reads | each extends the one before |

### BaseTxn

`store`, `storeWriter` and the `snapshot` of a reader are LMDB: a table from
class ids to names, its writer lock, and the copy a transaction reads. A
writer's uncommitted table is `tx[w].pend`. `tables` (and `tx[w].tables`) are the
classes whose own table in LMDB holds its first record. `schemaInfo`, `state`, `name` and
`deletedClassId` are the in-memory schema: the ids in the map, the `TxnObject`
flag and the version list of the name of each class, and the delete queue.
`activeTxnIds`, `maxTxnId`, `maxVersionId` are `TxnStat`. Three ghosts record
what the properties compare with, and no action is guarded by what they say of
the classes: `tx[w].done` is the classes as the *completed* operations of the
transaction and its predecessors made them, `hist` keeps it for each committed
version, and `half` (`tx[w].half`) is the classes whose last operation failed
after it had written to LMDB. (The bound `MaxHalf` counts `half`.)

Each action is a stretch of code that other threads can see as one step:

| Action | Code |
|---|---|
| `ReadOnlyOpen`, `Number`, `Version`, `Register` | `base_txn.cpp:41`, `43`, `45`, `46` |
| `ReadOnlyEnd`, `Clear`, `Leave` | `base_txn.cpp:218-226`, and the same in `rollback` |
| `ReadWriteOpen`, `ReadWriteEnter` | `base_txn.cpp:49`, `50-70` |
| `ClassCreate`, `ClassAlter`, `ClassDrop` | `class.cpp:41-85`, `285-317`, `146-283` with the lookups of `schema.cpp` |
| `ClassCreateFails`, `ClassDropFails` | the same functions left by an exception after `class.cpp:69` and after `class.cpp:170` |
| `CommitLock` ... `CommitUnlock` | `base_txn.cpp:109`, `111`, `114`, one class of the loop at `119`, `139` and `204-209`, `211`, `212`, `214`, end of scope |
| `Rollback` | `base_txn.cpp:233-312` |
| `Reopen` | the process dies anywhere and `Context::initDatabase` runs again |

Steps that are merged, and why nobody can see the difference:

- the wait for `dbWriterMutex`, the copy of `dbInfo` and the read of
  `maxVersionId`: the thread holds the LMDB writer lock, and only a committing
  writer, which would hold `dbWriterMutex`, changes the last two;
- popping the delete queue and erasing the ids from the map: an id popped by one
  thread is popped by no other, and a class between the two steps answers every
  read as it did before;
- pushing the delete queue and saving `dbInfo`: no thread reads both;
- removing a reader from `activeTxnIds` and closing its LMDB snapshot;
- the body of the commit loop for one class: in the model the four version lists
  of a class are one (its name), and the order inside the body (clear, then
  flag, then upgrade) matters only to a reader at the version being committed,
  of which there is none before the bump;
- rollback: readers never read the unstable slot, and a flag is set once per
  class. (`Rollback` is one step although it sets several flags; no property
  relates the flags of two classes while a rollback runs.)

Operations that fail:

- One that throws before it has changed anything is a stutter and has no action.
- `ClassCreate` with a duplicate name consumes an id; so does one whose record
  LMDB refuses to append (`MDB_APPEND` wants a key beyond all others).
- `ClassCreateFails`: the record is in `.classes` (`class.cpp:69`), then the
  class's own table cannot be opened (`:71`, `MDB_DBS_FULL`), or it is there from
  an earlier life of the id and its first record cannot be appended (`:72`).
- `ClassDropFails`: the record is deleted (`class.cpp:170`), then the class's own
  table or a cursor on it cannot be opened (`:180`, `:181`).

The last two rethrow and undo nothing, and LMDB does not fail the transaction, so
the application may go on and commit. The data store then has the class and
memory does not, or the reverse. Nothing repairs this but a later operation on
the class (a rename or a second drop of a half-dropped one) or a restart, which
believes the data store: a half-created class appears, a half-dropped one
vanishes. If nothing else changed, `dbInfo` is not saved (`base_txn.cpp:204`), the
next create takes the id of the half-created class again and its append is
refused. After a half-done drop and a restart, an id can be taken whose old table
still exists, and the create fails at `class.cpp:72`. `txn_restart` reaches all of
these. LMDB may refuse a table at any time, because what else uses up its table
slots is outside the model; `MaxHalf` bounds how many classes are left half done.

Class names are model values, since the code only compares them.
Classes have no properties, subclasses or records yet, so the loops of
`Class::drop` over them (`class.cpp:156-162`, `174-177`, `182-205`, `211-269`) are
empty: `ClassDrop` is partial there, and so are failures inside those loops.

`TxnIdMax` and `ClassIdLimit` are the real limits made small, so that runs reach
them: the code refuses a version equal to the maximum and ids beyond the limit.
Two bounds are artificial: `MaxReaderTxns` limits how many read-only transactions
begin between two openings, `MaxHalf` is described above.

### RWSpinLock

One action per access to an atomic; a turn of a waiting loop that changes nothing
is a stutter. Accesses interleave (sequential consistency). The orderings in the
code are acquire and release, weaker than that on paper, but the sibling
`SpinLock` is written with the x86 instruction `pause`, and on x86 the
read-modify-writes that precede the two decisive loads are full fences.

## 3. Runs

| Run | Instance | Checks |
|---|---|---|
| `txn_readers` | 2 readers, 1 writer, 2 names, 1 class id, versions below 5, 1 half-done class | `TypeOK`, `VersionsIncreasing`, `ReadersNeverReadAnotherVersion`, `ReadsOnlyShrink` |
| `txn_restart` | 1 reader, 2 writers, 2 names, 2 class ids, versions below 4, 2 half-done classes, crash at any step | `WriterHandoff`, `MemoryIsStore`, `WriterSeesItsWrites`, `NothingUncommittedLeft`, `AllocatorAhead`, `DeleteQueueExact` |
| `txn_live` | 1 reader, 2 writers, fairness | `HandoffHappens`, `CommitTerminates` |
| `rwspinlock` | 3 threads, fairness | `MutualExclusion`, `ReadersCounted`, `AnnouncedWriterEnters`, `SomebodyEnters` |
| `torn_snapshot`, `garbage_floor`, `phantom_class`, `duplicate_name`, `lost_class`, `early_reclaim`, `oldest_reader`, `half_created` | smallest instances that show it | one claim of the documentation each, violated |

`MemoryIsStore` and `WriterSeesItsWrites` say two things each: memory holds what
completed operations made, and the data store differs from it for the classes in
`half` and for no other. So a class goes out of step only by an operation that
reported an error, and comes back in step by the next operation on it that
succeeds. `AllocatorAhead` excepts the records of failed creates from the ids the
allocator is beyond. `MemoryIsStore` says nothing between the two halves of a
commit; what happens then is the subject of `early_reclaim`.

The bounds are enough for the cases that matter: with a version limit of 5 a writer
commits three times after the opening, which is what it takes to create, supersede
and collect a version, or to create, drop and reclaim a class; two readers are
needed for the order of `activeTxnIds`, two writers for the handover, two ids for
a class dropped while another takes its name. `txn_restart` commits twice per
opening, and any number of openings follow one another, so a history of commits
goes on through restarts: one half-done operation before a restart and another
one after it, on the same id, is within its bounds, and two half-done classes are
enough for one of each kind. Each passing property has a variant
of the code, kept next to the definition it replaces and marked as a mutant, under
which it fails.

Fairness. `LiveSpec` of `BaseTxn` assumes that a thread inside the constructor or
inside `commit` keeps running; nothing waits there except for `dbWriterMutex`.
It does not assume that an application ends the transaction it began, so waiting
for the LMDB lock may last for ever and no property says otherwise. `LiveSpec` of
`RWSpinLock` assumes that the scheduler runs every thread that wants or holds the
lock; guarded sections are short loops over memory. Deadlock is checked in every
run.

What the eight violated claims show:

- `torn_snapshot`: a reader's LMDB snapshot and its in-memory version are taken
  in two steps (`base_txn.cpp:41` and `:45`), and a commit in between makes them
  two different states of the database;
- `garbage_floor`: `clearStableVersion(base)` keeps versions from `base` on, but a
  reader at `base` reads the newest version *not newer* than `base`, which can be
  older and is erased when two newer ones follow;
- `phantom_class`: a drop replaces the flag `COMMITTED_CREATE` by
  `UNCOMMITTED_DELETE`, which `checkReadOnly` treats as visible for all, so
  readers older than the class find it until the drop is committed;
- `duplicate_name`: `Schema::find` by name gives up at the first match even when
  it is dropped, and `Class::create` takes that for "no such class";
- `lost_class`: a reader registers (`base_txn.cpp:46`) after the committing writer
  has looked for registered readers (`:212`) and before it clears the delete queue
  (`:214`); a class of the reader's version is erased;
- `early_reclaim`: a reader that ends clears the queue up to its version plus one
  (`:219`) while a commit has queued its drops and not yet bumped `maxVersionId`;
  the newest published version loses a class;
- `oldest_reader`: readers are ordered by transaction number, but number and
  version are read in two steps (`:43`, `:45`), so the front of `activeTxnIds`
  need not carry the oldest version, and `commit` collects by it;
- `half_created`: after a create that failed halfway and a commit, `dbInfo` has a
  wrong number of classes and a `maxClassId` below an id in the database.

`ReadersNeverReadAnotherVersion` and `ReadsOnlyShrink` say what remains true
in spite of these losses: a reader may miss a class or a name, or find a class without one, but a
name it finds is the right one.

## 4. Proofs

All theorems hold for every value of the constants that satisfies the named
assumptions (`TxnAssumption`, `ThreadsAssumption`).

- `LockExcludes` (`RWSpinLockProofs`): exclusion and the exact reader count. The
  invariant adds that the flag is set while a thread is between `tryLock` and
  `unlock`, and that there is at most one such thread; with the exact count, a
  drained writer meets no reader that has counted itself in.
- `ClearNeverInvents`, `ClearKeepsFromBase` (`VersionControlProofs`): clearing
  keeps a suffix of a list, so a read afterwards returns what it returned before
  or nothing; it returns the same when the version it reads is not older than
  the base. The condition is about the version that is read, not the reader: the
  difference is the run `garbage_floor`.
- `TypeCorrect`, `HandoffIsSafe` (`BaseTxnProofs`): `TypeOK` is not inductive by
  itself, because `maxVersionId` is bumped without a test. `Inv1` adds `Locks`
  (which thread holds the LMDB lock and `dbWriterMutex` at which place) and
  `WriterVersions` (the writer inside works for `maxVersionId + 1`, which was
  compared with the limit on entry): one writer inside, stopped before the limit,
  keeps the bump in range.
- `ListsStayOrdered`, `ReadersReadTheirVersion` (`BaseTxnReadsProofs`, resting on
  `BaseTxnVersionProofs`): the invariant `IInv` adds to `Inv1`
  - `VersionOrder`: lists are increasing and below the version being committed,
  - `History`: while a commit is between its two halves, the entry of `hist` for its
    version is what the completed operations of its transaction made,
  - `Settled`: a class that no open transaction has changed holds no slot and no
    flag of a transaction that has ended,
  - `Outcome`: what a class touched by the open transaction will be once its slot
    is upgraded is what the transaction's completed operations made of it,
  - `ReadsRight`: a read at a published version is the entry of `hist`.

  A read at version *v* is right because of what the last entry of the list was
  when *v* was published; `Outcome` carries this from the schema operation to
  the commit loop, `Settled` over the end of a transaction. An operation that
  fails halfway changes neither memory nor `done`, so the theorem holds with
  such failures at any place. Most steps change
  no version list, which one frame lemma covers; each of the others has a lemma
  of its own. TLC checked `IInv` on the instance of `txn_restart` first.

Only model-checked: the action property `ReadsOnlyShrink`, the invariants about
store, allocator and delete queue, and all liveness (TLAPS has no rules for
`ENABLED`). The claims that are violated have nothing to prove.

## 5. Not modelled

- Errors after which LMDB marks the transaction as failed (`MDB_MAP_FULL`, I/O
  errors): every later call and the commit fail too, which leads to the next item.
- Data-store commits that fail. `mdb_txn_commit` releases the writer lock and
  frees the handle when it fails; the wrapper keeps the pointer
  (`lmdb_engine.hpp:288-293`) and `Txn::commit` then rolls back memory and aborts
  the handle again. What a second abort does is not defined.
- `Class::createExtend` (`class.cpp:87-144`), which fails halfway as `create` does.
- Copies of a `Txn`, which share one `BaseTxn` (`txn.cpp:47`): a program that
  uses one transaction from two threads.
- Record bytes, condition evaluation, cursors, SQL: sequential code without
  shared state.
- The lock file of a `Context` and a second process on the same database.

## 6. Plan

1. `Graph` on `VersionControl`: vertices, edges, `TwoLevelMultiVersionHashMap`,
   and the vertex and edge parts of commit and rollback. An edge seen from its
   ends and an edge seen from its vertices must agree at every version; a
   rollback must restore the adjacency. Run: two vertices, two edges, one writer,
   one reader. Theorem: entries of adjacency maps stay ordered; rollback leaves
   no slot visible.
2. `Schema` with properties and inheritance: `createExtend`, `drop` with super-
   and subclasses, `Property::add/alter/remove`, `Context` loading them. Super
   and sub links are inverse and acyclic; no property twice in a line.
3. `Records`: `Vertex` and `Edge` operations over records, relations and one
   index, with errors in the middle, composed with `Graph`; abstract
   specification: a set of records, of which index, relations and graph are
   views.
4. `Transaction`, an abstract specification of `BaseTxn` (a sequence of
   committed states, a reader pinned to one of them), and `BaseTxn` shown to
   refine its writer side.
5. `Traversal`: BFS, DFS and shortest path as functions over small graphs,
   against reachability and minimal path length.
6. Theorems: `ReadsOnlyShrink`, `MemoryIsStore`, `WriterSeesItsWrites` and
   `NothingUncommittedLeft` from `IInv`; `AllocatorAhead`; the graph's order
   lemmas from `VersionControlProofs`.
