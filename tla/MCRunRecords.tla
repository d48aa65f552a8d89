---------------------------- MODULE MCRunRecords ----------------------------
EXTENDS RunRecords, TLC
CONSTANTS x1, x2, q1, q2, v1, v2

RecordSymmetry == Permutations(Requests) \union Permutations(Specs)
=============================================================================
