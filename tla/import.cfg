CONSTANTS
  r1 = r1
  r2 = r2
  r3 = r3
  r4 = r4
  Requests = {r1, r2, r3}
  Kinds = {"send", "complete", "fact", "extract", "merge"}
  Total = 2
  Indices = {0, 1, 2}
  Names = {"a", "b"}
  MaxFacts = 3
  None = None
SPECIFICATION Spec
INVARIANTS DocumentIsWhole FactIsReachable NewestFactIsActive
SYMMETRY RequestSymmetry
