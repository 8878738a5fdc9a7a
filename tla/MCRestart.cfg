SPECIFICATION Spec
CONSTANTS
  Readers = {r1}
  Writers = {w1, w2}
  Names = {A, B}
  Absent = Absent
  NoTxn = NoTxn
  TxnIdMax = 4
  ClassIdLimit = 6
  MaxReaderTxns = 1
  MaxHalf = 2
SYMMETRY Symmetry
INVARIANTS WriterHandoff MemoryIsStore WriterSeesItsWrites NothingUncommittedLeft AllocatorAhead DeleteQueueExact
