\* One worker, killed at any step, one failing call.
SPECIFICATION FairSpec
CONSTANTS
  s1 = s1
  Workers = {w1}
  Rewards = {r1, r2}
  NoReward = none
  Subscriptions = {s1}
  SubOf <- OneSubscription
  Period = 3
  Months = 1
  DeferLead = 1
  DeferDelay = 1
  MaxTime = 6
  MaxCrashes = 1
  MaxFaults = 1
INVARIANTS
  WindowHoldsEveryMonth
  OpenWindowIsPaused
  MonthGrantedOnce
PROPERTIES
  EveryWindowEnds
  KeepsPromise
\* The bound on time ends every behaviour.
CHECK_DEADLOCK FALSE
