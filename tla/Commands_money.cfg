\* Two deliveries, of one interaction or of two, to two processes.
SPECIFICATION Spec
CONSTANTS
  u1 = u1
  u2 = u2
  b1 = b1
  b2 = b2
  d1 = d1
  d2 = d2
  i1 = i1
  i2 = i2
  Users = {u1, u2}
  Bots = {b1, b2}
  Deliveries = {d1, d2}
  Interactions = {i1, i2}
  Requests <- TheRequests
  StartPockets <- ThePockets
  StartBank = 3
  Records <- TheRecords
  WorkPay = 1
  Multiplier = 2
  RateLimits <- TheLimits
  NoRequest = NoRequest
  MaxIncidents = 2
SYMMETRY Symmetry
INVARIANTS ExecutedOnce NeverSwallowed NobodyInDebt
CHECK_DEADLOCK FALSE
