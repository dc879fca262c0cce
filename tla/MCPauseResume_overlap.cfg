\* Two overlapping workers.
SPECIFICATION Spec
CONSTANTS
  s1 = s1
  Workers = {w1, w2}
  Rewards = {r1, r2}
  NoReward = none
  Subscriptions = {s1}
  SubOf <- OneSubscription
  Period = 2
  Months = 1
  DeferLead = 0
  DeferDelay = 1
  MaxTime = 3
  MaxCrashes = 0
  MaxFaults = 0
INVARIANTS
  CycleOwnsReward
PROPERTIES
  ResumedIsFinal
SYMMETRY Symmetry
\* The bound on time ends every behaviour.
CHECK_DEADLOCK FALSE
