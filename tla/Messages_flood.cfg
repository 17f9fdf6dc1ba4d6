SPECIFICATION Spec
CONSTANTS
  Messages = {m1, m2}
  None = None
  Kinds <- MCKinds
  Enabled = {"rate", "burst", "velocity", "mention", "link", "duplicate", "caps", "emoji", "combo"}
  Limit <- MCLimit
  Window <- MCWindow
  ActionFor <- MCActionFor
  EscalationCount = 1
  XpPerMessage = 3
  XpPerLevel = 2
  StartXp = {0, 7}
  LevelRoles = {1, 2}
  XpPause = 1
  MaxTime = 2
  MaxFaults = 1
INVARIANTS FloodCaught EscalatedAfterEnough XpCounted LevelEarned ImageKept
SYMMETRY MessageSymmetry
CHECK_DEADLOCK FALSE
