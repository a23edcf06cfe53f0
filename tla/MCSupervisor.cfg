SPECIFICATION FairServerSpec
CONSTANTS
  LongLines = TRUE
  EarlyShutdown = TRUE
  PipeCap = 2
  MaxLines = 4
INVARIANTS PanicNeedsBoth PipeFollowsChild
PROPERTIES RunReturns NotStuck ShutdownEndsChild
CHECK_DEADLOCK FALSE
