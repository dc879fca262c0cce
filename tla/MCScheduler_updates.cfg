\* Two schedulers with one fault: a lost lock, a kill, an outage or a failing pair; one bar comes late or never.
SPECIFICATION FairSpec
CONSTANTS
  Updaters = {a, b}
  Nobody = Nobody
  NumPairs = 1
  Sub = 2
  Offset = 1
  MaxDelay = 1
  safety_backfill_bars = 1
  max_new_bars_per_cycle = 1
  lookback_bars = 2
  ForceAfter = 2
  Timeout = 1
  FirstTick = 3
  LastTick = 5
  Cases <- MCCases
  Strict = TRUE
  ReferralFatal = FALSE
  failure_threshold = 2
INVARIANTS
  ClosedBelowWatermark
  HistoryReachesBack
  OneAtATime
PROPERTIES
  RowsKeepBars
  EveryCandleIsServed
