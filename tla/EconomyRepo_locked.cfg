\* One user in two guilds: the calls that take the lock of every row they touch.
SPECIFICATION Spec
CONSTANTS
  Guilds = {g1, g2}
  Users = {u1}
  Callers = {c1, c2}
  Kinds = {"add", "subtract", "claim", "deposit", "withdraw"}
  Amounts = {1}
  CooldownTypes = {"work"}
  NoCooldown = "none"
  StartingMoney = 1
  OpeningBalance = 1
  MaxInt = 2
  MaxRetries = 1
  MaxCalls = 2
  LeaseCanLapse = FALSE
  Free = Free
  Orphan = Orphan
  NoCall = NoCall
INVARIANTS TypeOK NoOverdraft PocketSnapshotsFresh BankSnapshotsFresh
PROPERTIES LedgerSpec CooldownClaimedOnce
CHECK_DEADLOCK FALSE
SYMMETRY CallerSymmetry
