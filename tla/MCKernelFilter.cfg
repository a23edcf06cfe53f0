SPECIFICATION FairFilterSpec
CONSTANTS
  NibbleBits = 1
  MaxInsns = 7
  PipeLines = 2
  Texts <- MCTexts
  Matches <- MCMatches
  Ends <- MCEnds
  WellKnown <- MCWellKnown
  Frames <- MCFrames
  CPUs = {c1, c2}
  IfIndex = 1
  MaxTracked = 4
  NoFrame = NoFrame
INVARIANTS TypeOK ProgramWhole RulesAgree PassesForCause WholeConversation PassedParses
PROPERTY StartDecided
CHECK_DEADLOCK FALSE
