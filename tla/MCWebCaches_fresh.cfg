SPECIFICATION CachesSpec
CONSTANTS
  r1 = r1
  r2 = r2
  r3 = r3
  Requests = {r1, r2, r3}
  NoRequest = none
  NoEntry = nothing
  Minute = 1
  Minutes5 = 3
  Minutes15 = 3
  Minutes30 = 3
  Hour = 4
  SignalLives = {0, 2, 5}
  MaxFetch = 1
  Cases <- MCCases
INVARIANTS FreshEnough ClearedIsGone Woken
SYMMETRY SameRequests
CHECK_DEADLOCK FALSE
