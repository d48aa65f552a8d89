--------------------------- MODULE MCReleaseFlow ---------------------------
(***************************************************************************)
(* Instances of ReleaseFlow for TLC.                                       *)
(***************************************************************************)
EXTENDS ReleaseFlow, TLC

OperatorSymmetry == Permutations(Operators)
=============================================================================
