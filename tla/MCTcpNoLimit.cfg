SPECIFICATION Spec
CONSTANTS
  ha = ha
  hb = hb
  None = None
  Hosts = {ha, hb}
  Conversations <- PostThenGet
  MaxSize = 2
  BodyLimit <- NoBodies
  IntMax = 15
  BufCap = 16
  PktCap = 16
  ScanMax = 8
  WalkMax = 3
  MaxSeg = 5
  Faults = {}
  MaxFaults = 0
INVARIANTS WholeRecords
CHECK_DEADLOCK FALSE
