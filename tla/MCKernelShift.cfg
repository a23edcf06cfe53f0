SPECIFICATION FilterSpec
CONSTANTS
  NibbleBits = 1
  MaxInsns = 7
  PipeLines = 2
  Texts <- MCShiftTexts
  Matches <- MCMatches
  Ends <- MCEnds
  WellKnown <- MCWellKnown
  Frames <- MCFrames
  CPUs = {c1, c2}
  IfIndex = 1
  MaxTracked = 4
  NoFrame = NoFrame
INVARIANT RulesAgree
CHECK_DEADLOCK FALSE
