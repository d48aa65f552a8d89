--------------------------- MODULE MCRunLifecycle ---------------------------
(***************************************************************************)
(* Instances of RunLifecycle for TLC.                                      *)
(***************************************************************************)
EXTENDS RunLifecycle, TLC

CONSTANTS c1, c2, d1, d2, d3, i1, i2

AllAtHome == [d \in Callers |-> i1]
FirstAway == [d \in Callers |-> IF d = d1 THEN i1 ELSE i2]

\* callers that live on the same instance are interchangeable
CallerSymmetry == Permutations(Callers)
=============================================================================
