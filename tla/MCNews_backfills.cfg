\* Two backfills at the same time.
SPECIFICATION Spec
CONSTANTS
  w1 = w1
  w2 = w2
  Workers = {w1, w2}
  Modes <- MCModes
  Last = 2
  Site <- MCSite
  Stored <- MCStored
  Ranges <- MCRanges
  Options <- MCOptions
  Texts = {"ok", "garbage", "quota", "error"}
  Limits = {0, 1}
  MaxFailures = 2
  MaxRetries = 2
  MaxStarts = 2
  MaxFaults = 1
INVARIANTS
  DuplicateExplained
  VectorsMatch
  RangeAccounted
PROPERTIES
  RunEnds
\* All backfills may have ended.
CHECK_DEADLOCK FALSE
