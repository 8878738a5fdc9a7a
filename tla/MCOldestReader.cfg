SPECIFICATION StepSpec
CONSTANTS
  Readers = {r1, r2}
  Writers = {w1}
  Names = {A}
  Absent = Absent
  NoTxn = NoTxn
  TxnIdMax = 5
  ClassIdLimit = 5
  MaxReaderTxns = 2
  MaxHalf = 0
SYMMETRY Symmetry
INVARIANT OldestReaderFirst
