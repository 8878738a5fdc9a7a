SPECIFICATION StepSpec
CONSTANTS
  Readers = {r1}
  Writers = {w1}
  Names = {A, B}
  Absent = Absent
  NoTxn = NoTxn
  TxnIdMax = 5
  ClassIdLimit = 7
  MaxReaderTxns = 1
  MaxHalf = 0
SYMMETRY Symmetry
INVARIANT ClassNamesUnique
