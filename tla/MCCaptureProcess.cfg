SPECIFICATION FairSpec
CONSTANTS
  eth0 = eth0
  lo = lo
  None = None
  Ifaces = {eth0, lo}
  Interface = eth0
  Rules = TRUE
  QueueCap = 2
  MaxEvents = 3
INVARIANTS CleanExit ProbesFirst JudgedWanted
PROPERTIES Drains InterruptStops
CHECK_DEADLOCK FALSE
