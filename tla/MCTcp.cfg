SPECIFICATION Spec
CONSTANTS
  Kinds = {"tcp", "dctcp"}
  Mss = 2
  FlowSize = 8
  FirstWindow = 8
  Reach = 2
  MaxDrops = 2
  MaxSpurious = 1
  MaxRestarts = 0
INVARIANTS AcksAreBacked TimerCoversFlight RecoveryCanEnd
PROPERTY FlowCompletes
CHECK_DEADLOCK FALSE
