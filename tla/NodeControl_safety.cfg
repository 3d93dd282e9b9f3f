SPECIFICATION NodeSpec
CONSTANTS
  NoAct = none
  RevOf <- MCRevOne
  Acts = {a, b}
  MaxVersion = 2
  MaxOps = 1
  MaxWire = 2
  Reports = {"ok"}
  Ageing = {}
  MaxRestarts = 0
INVARIANT DrainHolds
CHECK_DEADLOCK FALSE
SYMMETRY MCSymmetry
