---- MODULE MCBaseTxn ----
EXTENDS BaseTxn, TLC
Symmetry == Permutations(Readers) \cup Permutations(Writers) \cup Permutations(Names)
====
