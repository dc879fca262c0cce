SPECIFICATION FairSpec
CONSTANTS
  w1 = w1
  w2 = w2
  t1 = t1
  e1 = e1
  None = None
  Workers = {w1, w2}
  Janitors = {}
  Txs = {t1}
  Events = {e1}
  MaxRetries = 2
  FaultyAt <- EveryCall
  MaxFaults = 1
  MaxCrashes = 1
PROPERTIES
  FinalStatusHolds
  EveryEventSettles
\* All events may be settled and all processes idle.
CHECK_DEADLOCK FALSE
