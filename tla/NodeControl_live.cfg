SPECIFICATION FairNodeSpec
CONSTANTS
  NoAct = none
  RevOf <- MCRevOne
  Acts = {a}
  MaxVersion = 3
  MaxOps = 1
  MaxWire = 1
  Reports = {"ok", "failing"}
  Ageing = {a}
  MaxRestarts = 1
PROPERTY FencedEngineLeaves
CHECK_DEADLOCK FALSE
