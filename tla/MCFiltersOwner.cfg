SPECIFICATION Spec
CONSTANTS
  ByteBits = 2
  Bytes <- SmallBytes
  PrefixMod = 16
  PidMod = 4
  None = None
  Args <- OptionArgs
  Packets <- AllPackets
  MaxArgs = 2
INVARIANTS OwnerKnown
CHECK_DEADLOCK FALSE
