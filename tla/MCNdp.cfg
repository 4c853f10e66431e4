SPECIFICATION Spec
CONSTANTS
  Flows = {1, 2}
  Sizes = {2}
  Cwnd = 2
  Drain = 1
  MaxTrims = 1
  MaxBounces = 1
INVARIANTS OneCopy WindowConserved
PROPERTIES ServedInTurn EndsUnlessStranded
CHECK_DEADLOCK FALSE
