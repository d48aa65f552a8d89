CONSTANTS
  Requests = {r1, r2, r3}
  Quota = 1
  None = None
SPECIFICATION Spec
INVARIANTS RetriesAgree  
SYMMETRY RequestSymmetry
