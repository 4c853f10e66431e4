SPECIFICATION Spec
CONSTANTS
  Kinds = {"periodic"}
  Mss = 2
  FlowSize = 4
  FirstWindow = 4
  Reach = 2
  MaxDrops = 1
  MaxSpurious = 1
  MaxRestarts = 1
INVARIANT NeverInTheWrongPlace
CHECK_DEADLOCK FALSE
