SPECIFICATION Spec
CONSTANTS
  ha = ha
  hb = hb
  None = None
  Hosts = {ha, hb}
  Conversations <- All
  MaxSize = 2
  BodyLimit = 0
  IntMax = 2
  BufCap = 16
  PktCap = 16
  ScanMax = 8
  WalkMax = 3
  MaxSeg = 5
  Faults = {"pipeline"}
  MaxFaults = 0
INVARIANTS WholeRecords Prompt Drained NamedAfterRequest
PROPERTIES ImplementsLog
CHECK_DEADLOCK FALSE
