SPECIFICATION FairSpec
CONSTANTS
  Runners = {r1, r2}
  Stoppers = {s1, s2}
  Nobody = Nobody
INVARIANT OwnFileOnly
CHECK_DEADLOCK FALSE
