SPECIFICATION FairSpec
CONSTANTS
  Runners = {r1, r2}
  Stoppers = {s1, s2}
  Nobody = Nobody
INVARIANTS NothingLeft ClosedOnce ExitsForCause
PROPERTY Stops
CHECK_DEADLOCK FALSE
