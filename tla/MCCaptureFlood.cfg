SPECIFICATION FairSpec
CONSTANTS
  eth0 = eth0
  lo = lo
  None = None
  Ifaces = {eth0, lo}
  Interface = eth0
  Rules = TRUE
  QueueCap = 1
  MaxEvents = None
PROPERTIES InterruptStops
CHECK_DEADLOCK FALSE
