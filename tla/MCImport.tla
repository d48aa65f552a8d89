------------------------------ MODULE MCImport ------------------------------
EXTENDS Import, TLC
CONSTANTS r1, r2, r3, r4

RequestSymmetry == Permutations(Requests)
=============================================================================
