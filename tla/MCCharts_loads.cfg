SPECIFICATION ChartsSpec
CONSTANTS
  gold = gold
  euro = euro
  Sessions = {1, 2}
  Symbols = {gold, euro}
  Fallback = euro
  FirstBars <- MCFirstBars
  Start = 3
  Lookback = 2
  Overlap = 1
  MaxInflight = 2
  GiveUpAfter = 2
  NoJob = none
  Cases <- MCCases
  Readers = {r1, r2, r3}
  r1 = r1
  r2 = r2
  r3 = r3
  Nobody = nobody
  Size = 3
  Attempts = 2
  Polls = 2
INVARIANTS
  HoleExplained
  Mended
  NobodyWaits
  ChartsAreTrue
  RefreshedAlone
CHECK_DEADLOCK FALSE
