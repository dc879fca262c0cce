\* A worker and the janitor, two events in any order, two failing calls.
SPECIFICATION FairSpec
CONSTANTS
  w1 = w1
  j1 = j1
  t1 = t1
  e1 = e1
  e2 = e2
  None = None
  Workers = {w1}
  Janitors = {j1}
  Txs = {t1}
  Events = {e1, e2}
  MaxRetries = 1
  FaultyAt <- ActivationCalls
  MaxFaults = 2
  MaxCrashes = 0
INVARIANTS
  PaidForGrant
  RefundEndsTheHold
PROPERTIES
  SucceededIsServed
\* All events may be settled and all processes idle.
CHECK_DEADLOCK FALSE
