SPECIFICATION Spec
CONSTANTS
  seed = seed u1 = u1 r1 = r1 r2 = r2 r3 = r3
  p1 = p1 p2 = p2 p3 = p3 p4 = p4 p5 = p5 a1 = a1 a2 = a2
  Users <- MCUsers
  Roles <- MCRoles
  Policies <- MCPolicies
  Processes <- MCProcesses
  Bodies <- MCBodies
  Seed = seed
  AnyOne = AnyOne
  None = None
  Gone = Gone
  MaxRequests = 2
SYMMETRY MCSymmetry
INVARIANTS VerdictWasTrue GoneRoleLeavesNothing PasswordIsTheirs MenuAgrees
CHECK_DEADLOCK FALSE
