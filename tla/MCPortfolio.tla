----------------------------- MODULE MCPortfolio -----------------------------
EXTENDS Portfolio

CONSTANTS eurusd, gbpusd

B(o, h, l, c) == [open |-> o, high |-> h, low |-> l, close |-> c]
MCWarmup == <<B(1000, 1020, 980, 980), B(980, 1060, 960, 1040), B(1040, 1060, 980, 1000)>>

Sh(h, l, c) == [high |-> h, low |-> l, close |-> c]
MCShapes == { Sh(60, -10, 60), Sh(10, -60, -60), Sh(100, -10, 15), Sh(10, -100, -15) }

LongOne == [symbol |-> eurusd, direction |-> "long", timeframe |-> 1, condition |-> "immediate", confirmation |-> "none",
  timestamp |-> 4, expiry |-> 7, level |-> 1000, zone |-> <<>>, stop |-> 900, target |-> 1120, maxDistance |-> -1,
  preRule |-> [type |-> "none"], rules |-> {}, allowed |-> TRUE, recommended |-> TRUE, reverting |-> FALSE]
ShortOne == [LongOne EXCEPT !.direction = "short", !.stop = 1100, !.target = 880]
With(st, cond, conf) == [st EXCEPT !.condition = cond, !.confirmation = conf]
Rule(type) == [type |-> type, minutes |-> 2, progress |-> 50, level |-> 980, ends |-> 7]

MCBooks == {
  <<[LongOne EXCEPT !.rules = {Rule("time_stall")}], [ShortOne EXCEPT !.timestamp = 5]>>,
  <<LongOne, [LongOne EXCEPT !.timestamp = 5]>>,
  <<LongOne, [ShortOne EXCEPT !.stop = 1060, !.timestamp = 5, !.symbol = gbpusd, !.expiry = 5, !.rules = {Rule("time_stall")}]>>,
  <<[With(LongOne, "breakout_close", "close_above") EXCEPT !.timeframe = 2, !.rules = {Rule("fail_to_reach_1R")}],
    [With(ShortOne, "range_breakout", "bearish_engulfing") EXCEPT !.rules = {Rule("partial_target_rejection")}]>>,
  <<[With(LongOne, "zone_retest", "none") EXCEPT !.zone = <<960, 980>>, !.rules = {Rule("structure_break")}],
    [With(ShortOne, "pullback_entry", "none") EXCEPT !.preRule = [type |-> "close_above", level |-> 1060]]>>,
  <<With(LongOne, "momentum_spike", "none"), With(ShortOne, "price_rejection", "pin_bar")>>,
  <<With(LongOne, "liquidity_grab", "hammer"), With(ShortOne, "volatility_contraction", "doji")>>,
  <<[With(LongOne, "vwap_bounce", "engulfing") EXCEPT !.reverting = TRUE],
    [With(ShortOne, "news_spike_reversal", "none") EXCEPT !.rules = {Rule("session_end"), Rule("momentum_loss")}]>>,
  <<[LongOne EXCEPT !.allowed = FALSE], [LongOne EXCEPT !.stop = 0, !.target = 0]>>,
  <<With(LongOne, "other", "none"), [ShortOne EXCEPT !.recommended = FALSE]>> }

Config == [breakEven |-> 20, breakEvenAtr |-> 1, breakEvenBuffer |-> 0, useBreakEven |-> TRUE,
  useTrailing |-> TRUE, trailStart |-> 100, trailStep |-> 50, useMaTrailing |-> FALSE, maPeriod |-> 2, maStep |-> 5,
  usePartial |-> TRUE, partial |-> 50, atrPeriod |-> 2, atrFilter |-> FALSE, atrLookback |-> 2, minAtr |-> 80,
  maxEntryAtr |-> 150, invalidation |-> 50, spreadBuffer |-> 0, zoneMultiplier |-> 50, risk |-> 2, dynamicSizing |-> TRUE,
  baseLot |-> 20, minLot |-> 10, maxLot |-> 100, strategyBalance |-> 500000, balance |-> 500000, maxConcurrent |-> 2,
  maxTotalRisk |-> 95, drawdownProtection |-> TRUE, drawdownThreshold |-> 1, drawdownFactor |-> 50, blockOpposite |-> TRUE]

MCConfigs == { Config,
  [Config EXCEPT !.usePartial = FALSE, !.useBreakEven = FALSE, !.maxTotalRisk = 3, !.atrFilter = TRUE],
  [Config EXCEPT !.useMaTrailing = TRUE, !.breakEvenAtr = 0, !.maxConcurrent = 1, !.maxEntryAtr = 50],
  [Config EXCEPT !.breakEvenAtr = 0, !.usePartial = FALSE, !.dynamicSizing = FALSE] }
=============================================================================
