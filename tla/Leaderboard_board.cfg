SPECIFICATION FairSpec
CONSTANTS
  Users = {u1, u2}
  Loops = {l1, l2}
  BatchSize = 2
  MaxRetries = 3
  MaxCommits = 2
  MaxEntries = 3
  CanFail = TRUE
  CanStop = TRUE
INVARIANTS BoardFollows
PROPERTIES BoardNeverGoesBack AckedIsShown CatchesUp
CHECK_DEADLOCK FALSE
