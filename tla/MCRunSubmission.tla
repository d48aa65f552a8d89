-------------------------- MODULE MCRunSubmission --------------------------
EXTENDS RunSubmission, TLC

RequestSymmetry == Permutations(Requests)
=============================================================================
