SPECIFICATION Spec
CONSTANTS
  ha = ha
  hb = hb
  None = None
  Hosts = {ha, hb}
  Conversations <- Handshakes
  MaxSize = 2
  BodyLimit = 0
  IntMax = 15
  BufCap = 16
  PktCap = 16
  ScanMax = 8
  WalkMax = 3
  MaxSeg = 5
  Faults = {"reuse"}
  MaxFaults = 1
INVARIANTS Drained
CHECK_DEADLOCK FALSE
