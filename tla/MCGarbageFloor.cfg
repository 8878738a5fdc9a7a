SPECIFICATION StepSpec
CONSTANTS
  Readers = {r1}
  Writers = {w1}
  Names = {A, B}
  Absent = Absent
  NoTxn = NoTxn
  TxnIdMax = 6
  ClassIdLimit = 5
  MaxReaderTxns = 1
  MaxHalf = 0
SYMMETRY Symmetry
INVARIANT CollectorKeepsItsFloor
