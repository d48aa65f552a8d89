------------------------------ MODULE MCAccess ------------------------------
(* Two users, two requests in flight.  The policies that requests bring:    *)
(* one that denies the user u1 or a role the modelled action, one that      *)
(* permits it to a role; in the departures also one for every action and    *)
(* one whose effect is neither.                                             *)
EXTENDS Access, TLC

CONSTANTS seed, u1, r1, r2, r3, p1, p2, p3, p4, p5, a1, a2

MCUsers == {seed, u1}
MCRoles == {r1, r2}
MCMoreRoles == {r1, r2, r3}
MCPolicies == {p1, p2, p3, p4, p5}
MCProcesses == {a1, a2}
MCSymmetry == Permutations(MCProcesses)

Pol(u, r, e, x) == [user |-> u, role |-> r, effect |-> e, action |-> x, resource |-> "*"]
MCBodies == {Pol(u1, AnyOne, "DENY", "manage"), Pol(AnyOne, r2, "ALLOW", "manage")}
MCOddBodies == {Pol(AnyOne, AnyOne, "DENY", "*"), Pol(u1, AnyOne, "other", "manage"),
                [Pol(AnyOne, r2, "ALLOW", "use") EXCEPT !.resource = "x"]}
=============================================================================
