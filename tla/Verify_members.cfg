SPECIFICATION FairVerificationSpec
CONSTANTS
  Flows = {f1}
  Clicks = {k1, k2}
  Calls <- AllCalls
  Writers = {w1}
  MaxRows = 2
  MaxFaults = 2
  Username = Username
INVARIANTS RoleIsCurrent NameUsedOnce
PROPERTIES Converges
CHECK_DEADLOCK FALSE
