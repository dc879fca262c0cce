\* Two tasks, every order and repetition of the events of a trade, one failed transaction.
SPECIFICATION TradesSpec
CONSTANTS
  h1 = h1
  h2 = h2
  t1 = t1
  None = None
  Handlers = {h1, h2}
  Strategies = {t1}
  Tickets = {t1}
  StrategyOf <- OwnStrategy
  Reasons = {"closed_tp", "closed_early", "closed_manual"}
  Resends = TRUE
  MaxDeals = 2
  MaxForgotten = 2
  MaxFaults = 1
SYMMETRY Symmetry
INVARIANTS
  TablesAgree
  DealCountedOnce
PROPERTIES
  ClosureKept
\* The bound on forgotten deals ends some behaviours.
CHECK_DEADLOCK FALSE
