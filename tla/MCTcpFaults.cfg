SPECIFICATION Spec
CONSTANTS
  ha = ha
  hb = hb
  None = None
  Hosts = {ha, hb}
  Conversations <- Short
  MaxSize = 2
  BodyLimit = 1
  IntMax = 1
  BufCap = 4
  PktCap = 3
  ScanMax = 8
  WalkMax = 3
  MaxSeg = 4
  Faults = {"loss", "dup", "pad", "forget", "reuse"}
  MaxFaults = 2
INVARIANTS TypeOK InOrder
CHECK_DEADLOCK FALSE
