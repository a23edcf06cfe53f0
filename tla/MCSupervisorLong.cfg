SPECIFICATION ServerSpec
CONSTANTS
  LongLines = TRUE
  EarlyShutdown = FALSE
  PipeCap = 2
  MaxLines = 4
INVARIANTS ScansUntilEnd
CHECK_DEADLOCK FALSE
