SPECIFICATION SpecNetwork
CONSTANTS
  Topologies = {"fat", "fat_input", "over", "multi", "bcube", "camcube", "vl2", "star"}
  Sources = {0, 9}
  Flows = {1}
  MaxBounces = 2
  Machines = {"port"}
  Kinds = {"ecn", "priority"}
  Packets = 3
  Full = 2
  BufferSize = 4
  Threshold = 3
  RatioHigh = 2
  MaxLen = 2
  MaxPauses = 2
  Ports = {1, 2}
  MaxSize = 7
  High = 4
  Low = 2
  MaxFlight = 1
  Backlog = 1
  Demands <- BothWays
CHECK_DEADLOCK FALSE
PROPERTY PausedSendsNothing
