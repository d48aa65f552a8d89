----------------------------- MODULE MCRelease -----------------------------
(***************************************************************************)
(* Instances of Release for TLC.                                           *)
(***************************************************************************)
EXTENDS Release, TLC

CONSTANTS o1, o2

OperatorSymmetry == Permutations(Operators)
=============================================================================
