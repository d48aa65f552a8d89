--------------------------- MODULE MCControlPlane ---------------------------
EXTENDS ControlPlane, TLC
CONSTANTS a1, a2

MCOffered == <<"x", "y">>
MCBodies == {<<"v1", "low">>, <<"v2", "low">>}
MCRisks == {<<"v1", "low">>, <<"v1", "high">>}
MCBad == {<<"v1", "low">>, <<"bad", "low">>}
MCAll == MCBodies \union MCBad
MCEnv == [on |-> TRUE, url |-> "u1", only |-> {}]
AdminSymmetry == Permutations(Admins)
=============================================================================
