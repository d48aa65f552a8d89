\* Two operators at once, two versions, two orders.
SPECIFICATION Spec
CONSTANTS
  Operators = {o1, o2}
  MaxVersion = 2
  MaxOrder = 2
SYMMETRY OperatorSymmetry
INVARIANTS NumberIsMine OneOpenOrder CreatedInOpenOrder
