SPECIFICATION Spec
CONSTANTS
  Keys = {k1, k2, k3}
  MaxItems = 2
  IdleMs = 6
  GcMs = 1
  Word = 64
  BootMs = 1
  MaxNow = 12
  MaxLag = 1
SYMMETRY KeySymmetry
PROPERTIES OnlyIdleOrOldestDropped
CHECK_DEADLOCK FALSE
