SPECIFICATION FairServerSpec
CONSTANTS
  LongLines = FALSE
  EarlyShutdown = TRUE
  PipeCap = 2
  MaxLines = 4
PROPERTIES NoChildLeft
CHECK_DEADLOCK FALSE
