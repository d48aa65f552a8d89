SPECIFICATION Spec
CONSTANTS
  o1 = o1
  o2 = o2
  Operators = {o1, o2}
  MaxVersion = 2
  PassRates = {0, 1}
SYMMETRY OperatorSymmetry
INVARIANTS ServiceKept 
PROPERTIES EndedFlowIsFrozen
