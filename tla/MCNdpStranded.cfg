SPECIFICATION Spec
CONSTANTS
  Flows = {1}
  Sizes = {1, 2, 3}
  Cwnd = 2
  Drain = 1
  MaxTrims = 2
  MaxBounces = 1
INVARIANTS TimeoutsUnneeded
CHECK_DEADLOCK FALSE
