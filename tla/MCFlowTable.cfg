SPECIFICATION Spec
CONSTANTS
  Keys = {k1, k2, k3}
  MaxItems = 2
  IdleMs = 3
  GcMs = 1
  Word = 64
  BootMs = 4
  MaxNow = 12
  MaxLag = 1
SYMMETRY KeySymmetry
INVARIANTS CountExact Bounded SweptClean
PROPERTIES OnlyIdleOrOldestDropped HandledFlowKept
CHECK_DEADLOCK FALSE
