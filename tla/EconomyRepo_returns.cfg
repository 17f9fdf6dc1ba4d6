\* Leases that run out under their holders; every call is answered, every lock comes free.
SPECIFICATION FairSpec
CONSTANTS
  Guilds = {g1}
  Users = {u1, u2}
  Callers = {c1, c2}
  Kinds = {"transfer", "deposit"}
  Amounts = {1}
  CooldownTypes = {}
  NoCooldown = "none"
  StartingMoney = 1
  OpeningBalance = 0
  MaxInt = 1
  MaxRetries = 1
  MaxCalls = 2
  LeaseCanLapse = TRUE
  Free = Free
  Orphan = Orphan
  NoCall = NoCall
PROPERTIES NoForeignRelease CallsReturn LocksComeFree
CHECK_DEADLOCK FALSE
