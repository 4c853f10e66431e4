SPECIFICATION SpecNetwork
CONSTANTS
  Topologies = {"fat", "fat_input", "over", "multi", "bcube", "camcube", "vl2", "star"}
  Sources = {0, 9}
  Flows = {1}
  MaxBounces = 2
  Machines = {"switch"}
  Kinds = {"queue"}
  Packets = 1
  Full = 2
  BufferSize = 4
  Threshold = 3
  RatioHigh = 2
  MaxLen = 2
  MaxPauses = 2
  Ports = {1, 2, 3}
  MaxSize = 9
  High = 4
  Low = 2
  MaxFlight = 1
  Backlog = 1
  Demands <- Crossing
INVARIANTS OutputsNeverOverflow
CHECK_DEADLOCK FALSE
