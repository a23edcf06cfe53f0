SPECIFICATION Spec
CONSTANTS
  ByteBits = 2
  Bytes <- SmallBytes
  PrefixMod = 16
  PidMod = 4
  None = None
  Args <- AllArgs
  Packets <- AllPackets
  MaxArgs = 2
INVARIANTS AllowListHolds
CHECK_DEADLOCK FALSE
