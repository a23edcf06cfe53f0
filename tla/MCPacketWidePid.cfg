SPECIFICATION Spec
CONSTANTS
  Ends <- MCEnds
  Keys <- MCKeys
  Pids = {1, 2}
  Holders <- MCHolders
  PidMod = 4
  Asked = {5}
  NoFilter <- MCNoFilter
  Buckets = 2
  Hash <- MCHash
  MaxItems = 2
  IdleMs = 2
  GcMs = 1
  Word = 64
  BootMs = 3
  MaxNow = 7
  MaxLag = 1
INVARIANT AsAsked
CHECK_DEADLOCK FALSE
