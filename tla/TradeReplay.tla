----------------------------- MODULE TradeReplay -----------------------------
(***************************************************************************)
(* The replay of strategies against candles, backtest_engine/simulation    *)
(* (state, entries, management, fills, risk, pnl, indicators and           *)
(* strategy_context).  One strategy after the other is looked for an entry *)
(* tick by tick, and from the entry on its trade is managed bar by bar     *)
(* until a stop, a target, a rule or the end of the data.                  *)
(*                                                                         *)
(* The M1 candles are the unknown: a bar is chosen when a strategy first   *)
(* reads it, and every later strategy of the symbol reads the same one.    *)
(* The candles of a higher timeframe are made of them.  A price is a whole *)
(* number of points, a volume of thousandths of a lot, an amount of money  *)
(* of thousandths, a percentage of ones; a mean is rounded down.           *)
(*                                                                         *)
(* Left out: conditions and confirmations that need an oscillator or an    *)
(* exponential average (rsi_divergence, macd_cross, indicator_cross) or    *)
(* the hour (session_open_surge), volume_spike, which reads a column the   *)
(* loaded candles lack, and the statistics of a result that no later step  *)
(* reads.                                                                  *)
(***************************************************************************)
EXTENDS Integers, Sequences, FiniteSets, FiniteSetsExt, SequencesExt

CONSTANTS
  Books,          \* sequences of strategies that may be replayed together
  Configs,        \* EA configurations
  Symbols,
  Warmup,         \* the bars before the first strategy
  Shapes,         \* what a later bar may be: its high, low and close, relative to its open
  Horizon,        \* the last minute there is a bar for
  TickValue, Commission, \* of the broker: money a point and a trade of one lot are worth
  VolumeMin, VolumeMax, VolumeStep

M1Bar == [open : Int, high : Int, low : Int, close : Int]

\* What is read of a strategy and of a configuration as a number; a stop or target of 0 is none.
IsStrategy(x) ==
  /\ x.symbol \in Symbols /\ {x.timestamp, x.timeframe} \subseteq Nat \ {0}
  /\ {x.level, x.stop, x.target} \subseteq Nat
IsConfig(x) ==
  /\ {x.baseLot, x.minLot, x.maxLot, x.risk, x.strategyBalance, x.balance, x.partial, x.drawdownFactor} \subseteq Nat
  /\ x.maPeriod \in Nat \ {0} /\ {x.breakEvenBuffer, x.trailStart} \subseteq Nat

ASSUME ReplayAssumption ==
  /\ \A list \in Books : DOMAIN list = 1..Len(list) /\ Len(list) \in Nat /\ \A i \in DOMAIN list : IsStrategy(list[i])
  /\ \A config \in Configs : IsConfig(config)
  /\ Warmup \in Seq(M1Bar) /\ Warmup # <<>>
  /\ Horizon \in Nat /\ Len(Warmup) < Horizon
  /\ TickValue \in Nat \ {0} /\ Commission \in Nat
  /\ VolumeMin \in Nat \ {0} /\ VolumeStep \in Nat \ {0} /\ VolumeMax \in Nat
  /\ Shapes \subseteq [high : Int, low : Int, close : Int]
  /\ \A sh \in Shapes : sh.low <= 0 /\ sh.high >= 0 /\ sh.close \in sh.low..sh.high

VARIABLES
  book, ea,
  path,           \* the bars of each symbol that have been read
  current,        \* the strategy that is replayed, its index
  step, m, tick,  \* what is done, in which minute, at which of the four ticks of the bar
  zone,           \* trigger_zone
  touched, blocked, \* zone_touched, entry_distance_blocked
  trade,          \* of the strategy that has entered
  results

replayVars == <<book, ea, path, current, step, m, tick, zone, touched, blocked, trade, results>>

\* The strategy that is replayed.
s == book[current]
Abs(x) == IF x < 0 THEN -x ELSE x

\* The sum of a sequence of numbers.
Total(q) == LET sum[n \in 0..Len(q)] == IF n = 0 THEN 0 ELSE sum[n - 1] + q[n] IN sum[Len(q)]

-----------------------------------------------------------------------------
(* Candles *)

LastClose(sym) == path[sym][Len(path[sym])].close

\* What the bar of a minute may be: the one that is known, or any.
Bars(sym, t) ==
  IF t <= Len(path[sym]) THEN {path[sym][t]}
  ELSE LET o == LastClose(sym) IN {[open |-> o, high |-> o + sh.high, low |-> o + sh.low,
                                   close |-> o + sh.close] : sh \in Shapes}

Read(t, b) ==
  /\ t <= Horizon /\ b \in Bars(s.symbol, t)
  /\ path' = IF t <= Len(path[s.symbol]) THEN path ELSE [path EXCEPT ![s.symbol] = Append(@, b)]

\* A candle of a higher timeframe.
Candle(bars) == [open |-> bars[1].open, close |-> bars[Len(bars)].close,
                 high |-> Max({bars[i].high : i \in DOMAIN bars}),
                 low |-> Min({bars[i].low : i \in DOMAIN bars})]

\* cagg_df up to cagg_idx: the candles that are fully closed at a minute.
Closed(sym, tf, t) ==
  [j \in 1..((t - 1) \div tf) |-> Candle(SubSeq(path[sym], (j - 1) * tf + 1, j * tf))]

\* The placeholder stands where MT5 has the candle that is forming.
WithPlaceholder(df) == IF df = <<>> THEN df ELSE Append(df, Last(df))

At(df, shift) == df[Len(df) - shift]

TrueRange(df, i) ==
  IF i = 1 THEN df[1].high - df[1].low
  ELSE Max({df[i].high - df[i].low, Abs(df[i].high - df[i - 1].close), Abs(df[i].low - df[i - 1].close)})

\* The ATR of the i-th candle, 0 where the code has none.
Atr(df, i) ==
  IF i < ea.atrPeriod THEN 0
  ELSE Total([j \in 1..ea.atrPeriod |-> TrueRange(df, i - ea.atrPeriod + j)]) \div ea.atrPeriod

-----------------------------------------------------------------------------
(* Patterns of candles *)

Body(c) == Abs(c.close - c.open)
Spread(c) == c.high - c.low
Upper(c) == c.high - Max({c.open, c.close})
Lower(c) == Min({c.open, c.close}) - c.low

BearishEngulfing(df, shift) ==
  /\ Len(df) > shift + 1
  /\ LET now == At(df, shift) before == At(df, shift + 1) IN
       before.close > before.open /\ now.close < now.open /\ now.open > before.close /\ now.close < before.open

BullishEngulfing(df, shift) ==
  /\ Len(df) > shift + 1
  /\ LET now == At(df, shift) before == At(df, shift + 1) IN
       before.close < before.open /\ now.close > now.open /\ now.open < before.close /\ now.close > before.open

Doji(c) == Spread(c) > 0 /\ 10 * Body(c) < Spread(c)
Hammer(c) == Body(c) > 0 /\ Lower(c) > 2 * Body(c) /\ 2 * Upper(c) < Body(c)
ShootingStar(c) == Body(c) > 0 /\ Upper(c) > 2 * Body(c) /\ 2 * Lower(c) < Body(c)
BearishPinBar(c) == Spread(c) > 0 /\ 100 * Body(c) < 33 * Spread(c) /\ Upper(c) > 3 * Body(c)
BullishPinBar(c) == Spread(c) > 0 /\ 100 * Body(c) < 33 * Spread(c) /\ Lower(c) > 3 * Body(c)

LiquiditySweep(df, shift) ==
  /\ Len(df) > shift
  /\ LET c == At(df, shift) IN
       IF s.direction = "long" THEN c.low <= s.level /\ c.close > s.level
                               ELSE c.high >= s.level /\ c.close < s.level

Long == s.direction = "long"

Confirmed(df, shift) ==
  IF s.confirmation = "none" THEN TRUE
  ELSE /\ Len(df) > shift
       /\ LET c == At(df, shift) IN
          CASE s.confirmation = "bearish_engulfing" -> BearishEngulfing(df, shift)
            [] s.confirmation = "bullish_engulfing" -> BullishEngulfing(df, shift)
            [] s.confirmation = "engulfing" -> IF Long THEN BullishEngulfing(df, shift) ELSE BearishEngulfing(df, shift)
            [] s.confirmation = "doji" -> Doji(c)
            [] s.confirmation \in {"hammer", "shooting_star"} -> IF Long THEN Hammer(c) ELSE ShootingStar(c)
            [] s.confirmation = "pin_bar" -> IF Long THEN BullishPinBar(c) ELSE BearishPinBar(c)
            [] s.confirmation = "liquidity_sweep" -> LiquiditySweep(df, shift)
            [] s.confirmation = "close_above" -> Len(df) >= 2 /\ At(df, 1).close > s.level
            [] s.confirmation = "close_below" -> Len(df) >= 2 /\ At(df, 1).close < s.level
            [] OTHER -> FALSE

-----------------------------------------------------------------------------
(* Entry conditions *)

ZoneValid(z) == Len(z) = 2 /\ z[1] > 0 /\ z[2] > 0 /\ z[1] < z[2]
Buffer == 10 * ea.spreadBuffer
Tolerance == 10 * (IF s.maxDistance = -1 THEN 100 ELSE s.maxDistance)
InZone(price) == zone[1] - Buffer <= price /\ price <= zone[2] + Buffer
Beyond(price, by) == IF Long THEN price > s.level + by ELSE price < s.level - by

BreakoutClose(df, price) == Len(df) >= 2 /\ Beyond(price, 0) /\ Confirmed(df, 1)
RangeBreakout(df, price) == Len(df) >= 2 /\ Beyond(price, Buffer) /\ Confirmed(df, 1)
ZoneRetest(price) == ZoneValid(zone) /\ InZone(price)
Pullback(price) == IF ZoneValid(zone) THEN InZone(price) ELSE Abs(price - s.level) <= Tolerance + Buffer
MomentumSpike(df, atr) == Len(df) >= 2 /\ atr # 0 /\ 2 * Spread(At(df, 1)) > 3 * atr
LiquidityGrab(df) == Len(df) >= 2 /\ LiquiditySweep(df, 1) /\ Confirmed(df, 1)
NewsSpikeReversal(df, atr) ==
  Len(df) >= 2 /\ atr > 0 /\ 5 * Spread(At(df, 1)) >= 6 * atr /\ LiquiditySweep(df, 1) /\ Confirmed(df, 1)
Contraction(df, price, atr) ==
  Len(df) >= 2 /\ atr > 0 /\ 5 * Spread(At(df, 1)) <= 4 * atr /\ Beyond(price, 0) /\ Confirmed(df, 1)
Bounce(df, price) == ZoneRetest(price) /\ Confirmed(df, 1)

\* price_rejection: the candle that is confirmed is the one that touched the zone.
PriceRejection(df, price) ==
  /\ Len(df) >= 2 /\ ZoneValid(zone)
  /\ LET before == At(df, 1)
         touchedBefore == before.low <= zone[2] + Buffer /\ before.high >= zone[1] - Buffer
         reach == IF s.maxDistance > 0 THEN 10 * s.maxDistance ELSE (zone[2] - zone[1]) \div 2
         away == IF zone[1] <= price /\ price <= zone[2] THEN 0
                 ELSE IF Long THEN Abs(price - zone[2]) ELSE Abs(price - zone[1])
     IN /\ touchedBefore \/ InZone(price)
        /\ away <= reach + Buffer
        /\ Confirmed(df, IF touchedBefore THEN 1 ELSE 0)

\* ENTRY_CONDITIONS
Conditions == {"immediate", "breakout_close", "zone_retest", "pullback_entry", "break_and_retest", "momentum_spike",
  "range_breakout", "liquidity_grab", "news_spike_reversal", "volatility_contraction", "vwap_bounce", "price_rejection",
  "mean_reversion", "trendline_bounce", "fibonacci_rejection", "order_block_tap", "fvg_fill"}

Fires(df, price, atr) ==
  CASE s.condition = "immediate" -> TRUE
    [] s.condition = "breakout_close" -> BreakoutClose(df, price)
    [] s.condition = "zone_retest" -> ZoneRetest(price)
    [] s.condition \in {"pullback_entry", "break_and_retest", "fvg_fill"} -> Pullback(price)
    [] s.condition = "momentum_spike" -> MomentumSpike(df, atr)
    [] s.condition = "range_breakout" -> RangeBreakout(df, price)
    [] s.condition = "liquidity_grab" -> LiquidityGrab(df)
    [] s.condition = "news_spike_reversal" -> NewsSpikeReversal(df, atr)
    [] s.condition = "volatility_contraction" -> Contraction(df, price, atr)
    [] s.condition \in {"vwap_bounce", "mean_reversion", "trendline_bounce", "order_block_tap"} -> Bounce(df, price)
    [] s.condition \in {"price_rejection", "fibonacci_rejection"} -> PriceRejection(df, price)

\* check_for_invalidation: the price is inside the zone, or too far from it, or beyond the level of the rule.
Guarded == s.condition \in {"pullback_entry", "price_rejection", "zone_retest"}
Inside(price) == IF ZoneValid(zone) THEN InZone(price) ELSE Abs(price - s.level) <= Tolerance + Buffer
Distance(price) ==
  IF ZoneValid(zone) THEN IF price < zone[1] - Buffer THEN zone[1] - Buffer - price ELSE price - zone[2] - Buffer
                     ELSE Abs(price - s.level)
Invalid(price) ==
  /\ Guarded /\ ~Inside(price)
  /\ \/ ea.invalidation > 0 /\ Distance(price) > ea.invalidation
     \/ s.preRule.type = "close_above" /\ price > s.preRule.level
     \/ s.preRule.type = "close_below" /\ price < s.preRule.level

PassesAtrFilter(df) ==
  \/ ~ea.atrFilter
  \/ s.reverting
  \/ /\ Len(df) >= ea.atrLookback
     /\ Len(df) - ea.atrLookback + 1 >= ea.atrPeriod
     /\ 100 * ea.atrLookback * Atr(df, Len(df))
          >= ea.minAtr * Total([i \in 1..ea.atrLookback |-> Atr(df, Len(df) - ea.atrLookback + i)])

\* EA-01: the price has run away from the level.
TooFar(price, atr) ==
  ea.maxEntryAtr > 0 /\ atr > 0 /\ 100 * (Abs(price - s.level) - Buffer) > ea.maxEntryAtr * atr

-----------------------------------------------------------------------------
(* Volume and money *)

\* normalize_volume
NormalizedVolume(volume, min, max) ==
  LET least == Max({min, VolumeMin})
      most == Min({max, VolumeMax})
      within == Min({Max({volume, least}), most})
      stepped == (within \div VolumeStep) * VolumeStep
  IN IF volume <= 0 \/ most < least THEN 0 ELSE Min({Max({stepped, least}), most})

\* calculate_lot_size: with a stop that is worth something, only the risk counts.
LotSize(balance, entry, stop, min) ==
  LET perLot == Abs(entry - stop) * TickValue + Commission
      byRisk == (balance * ea.risk) \div (100 * perLot)
  IN IF ~ea.dynamicSizing \/ perLot = 0 THEN NormalizedVolume(ea.baseLot, min, ea.maxLot)
     ELSE NormalizedVolume(IF balance > 0 THEN Max({1, byRisk}) ELSE 0, min, ea.maxLot)

Gain(direction, from, to) == IF direction = "long" THEN to - from ELSE from - to
Pnl(direction, from, to, volume) == Gain(direction, from, to) * TickValue * volume
CommissionOf(volume) == volume * Commission

-----------------------------------------------------------------------------
(* Exits and management of a trade *)

\* evaluate_bar_exits: when a bar touches both, the stop comes first.
BarExit(b, target, stop) ==
  IF (stop > 0 /\ IF Long THEN b.low <= stop ELSE b.high >= stop) THEN "sl"
  ELSE IF (target > 0 /\ IF Long THEN b.high >= target ELSE b.low <= target) THEN "tp" ELSE "none"

Tighter(stop, than) == IF Long THEN stop > than ELSE stop < than
Improves(stop, than) == stop > 0 /\ (Tighter(stop, than) \/ (~Long /\ than = 0))

\* normalize_stop_level: 20 points from the price, and never beyond the entry because of that.
StopDistance == 20
NormalizedStop(stop, price) ==
  LET limit == IF Long THEN price - StopDistance ELSE price + StopDistance
  IN IF ~Tighter(stop, limit) THEN stop
     ELSE IF Tighter(trade.entry, limit) THEN 0 ELSE limit

Progress(price) == Gain(s.direction, trade.entry, price)
Risked == Abs(trade.entry - s.stop)
NearTarget(price) == s.target > 0 /\ 10 * Progress(price) >= 8 * Abs(s.target - trade.entry)

\* check_break_even: the stop at which the trade would pay for itself, if that improves it.
BreakEvenStop(t, price, atr) ==
  LET threshold == IF ea.breakEvenAtr > 0 /\ atr > 0 THEN atr * ea.breakEvenAtr
                   ELSE (Risked * ea.breakEven) \div 100
      offset == Commission \div TickValue + ea.breakEvenBuffer
      wanted == NormalizedStop(IF Long THEN t.entry + offset ELSE t.entry - offset, price)
  IN IF /\ ea.breakEven > 0 /\ ~t.breakEven /\ Risked > 0
        /\ Progress(price) >= threshold \/ NearTarget(price)
        /\ Improves(wanted, t.stop)
     THEN wanted ELSE 0

AfterBreakEven(t, price, atr) ==
  LET wanted == BreakEvenStop(t, price, atr)
  IN IF ea.useBreakEven /\ wanted > 0 THEN [t EXCEPT !.stop = wanted, !.breakEven = TRUE] ELSE t

\* Mutant of Moved: the stop is not compared again after it was normalised.
MovedAnyway(t, proposed, price) ==
  LET stop == NormalizedStop(proposed, price) IN IF stop > 0 THEN [t EXCEPT !.stop = stop] ELSE t

\* A stop proposed by trailing is taken when it still improves after it was normalised.
Moved(t, proposed, price) ==
  LET stop == NormalizedStop(proposed, price)
  IN IF Improves(stop, t.stop) THEN [t EXCEPT !.stop = stop] ELSE t

\* check_trailing_stop
Trailed(t, price) ==
  LET behind == (Risked * ea.trailStart) \div 100
      proposed == IF Long THEN price - behind ELSE price + behind
      far == 100 * Abs(proposed - t.stop) >= Risked * ea.trailStep \/ NearTarget(price) \/ (~Long /\ t.stop = 0)
  IN IF /\ ea.trailStart > 0 /\ Risked > 0
        /\ Progress(price) >= behind \/ NearTarget(price)
        /\ Tighter(proposed, t.stop) \/ (~Long /\ t.stop = 0)
        /\ far
     THEN Moved(t, proposed, price) ELSE t

\* moving_average_value (sma): of the candles before the last closed one.
Average(df) ==
  IF Len(df) < ea.maPeriod + 1 THEN 0
  ELSE Total([i \in 1..ea.maPeriod |-> df[Len(df) - ea.maPeriod - 1 + i].close]) \div ea.maPeriod

\* check_ma_trailing_stop: also below the entry, as long as it improves the stop.
TrailedByAverage(t, price, df) ==
  LET average == Average(df)
      moves == IF t.stop = 0 THEN Abs(average - t.entry) ELSE Gain(s.direction, t.stop, average)
  IN IF /\ 100 * Progress(price) >= Risked * ea.breakEven \/ NearTarget(price)
        /\ average > 0
        /\ t.stop = 0 \/ Tighter(average, t.stop)
        /\ 100 * moves >= Risked * ea.maStep
     THEN Moved(t, average, price) ELSE t

AfterTrailing(t, price, df) ==
  IF ea.useMaTrailing THEN TrailedByAverage(t, price, df)
  ELSE IF ea.useTrailing /\ t.breakEven THEN Trailed(t, price) ELSE t

\* check_partial_close, at the best price of the bar; too small a part is skipped for good.
AfterPartial(t, b) ==
  LET price == IF Long THEN b.high ELSE b.low
      part == (((t.lot * ea.partial) \div 100) \div VolumeStep) * VolumeStep
      volume == IF part < VolumeMin THEN 0 ELSE part
      closes == volume > 0 /\ volume < t.open
  IN IF /\ ea.usePartial /\ ~t.partial /\ Risked > 0 /\ ea.partial > 0
        /\ Progress(price) >= Risked \/ NearTarget(price)
     THEN [t EXCEPT !.partial = TRUE,
                    !.open = IF closes THEN @ - volume ELSE @,
                    !.realized = IF closes THEN @ + Pnl(s.direction, t.entry, price, volume) ELSE @]
     ELSE t

\* should_early_exit.  The average range of H1 is passed as 0: momentum_loss never holds.
EarlyExit(rule, price, df) ==
  LET minutes == m - trade.time
      oneR == Abs(trade.entry - trade.stop)
      way == Abs(s.target - trade.entry)
      pinned == Len(df) > 0 /\ IF Long THEN BearishPinBar(Last(df)) ELSE BullishPinBar(Last(df))
  IN CASE rule.type = "time_stall" ->
            /\ minutes >= rule.minutes /\ s.target > 0 /\ way > 0
            /\ Progress(price) <= 0 \/ 100 * Abs(price - trade.entry) < rule.progress * way
       [] rule.type = "fail_to_reach_1R" ->
            trade.stop # 0 /\ minutes >= rule.minutes /\ Abs(price - trade.entry) < oneR
       [] rule.type = "structure_break" -> IF Long THEN price < rule.level ELSE price > rule.level
       [] rule.type = "session_end" -> m >= rule.ends
       [] rule.type = "partial_target_rejection" ->
            trade.stop # 0 /\ 10 * Progress(price) >= 8 * oneR /\ pinned
       [] rule.type = "momentum_loss" -> FALSE

\* Mutant of AfterTheory: from the bar after the entry on.
AfterEntryBar(t, b) ==
  IF t.theory # "none" \/ m = t.time THEN t ELSE [t EXCEPT !.theory = BarExit(b, s.target, s.stop)]

\* The trade as it would be without management, until the real one ends.
AfterTheory(t, b) ==
  LET exit == BarExit(b, s.target, s.stop)
  IN IF t.theory # "none" THEN t ELSE [t EXCEPT !.theory = exit]

-----------------------------------------------------------------------------
(* The steps of simulate_strategy *)

NoTrade == [time |-> 0, entry |-> 0, lot |-> 0, open |-> 0, stop |-> 0, breakEven |-> FALSE, partial |-> FALSE,
            realized |-> 0, theory |-> "none"]

\* A BacktestResult.  `last' is the minute of its last mark, `missed' the opportunity_cost_flag.
Result(outcome, missed, t, exitTime, exit, gross, net) ==
  [strategy |-> current, symbol |-> s.symbol, direction |-> s.direction, outcome |-> outcome, missed |-> missed,
   time |-> t.time, entry |-> t.entry, stop |-> s.stop, lot |-> t.lot, exitTime |-> exitTime, exit |-> exit,
   gross |-> gross, net |-> net, breakEven |-> t.breakEven, partial |-> t.partial, trailed |-> t.stop # s.stop,
   theory |-> t.theory, last |-> Min({m, Horizon}),
   theoryNet |-> IF t.theory = "none" THEN 0
                 ELSE Pnl(s.direction, t.entry, IF t.theory = "sl" THEN s.stop ELSE s.target, t.lot) - CommissionOf(t.lot)]

WithoutTrade(outcome, missed) == Result(outcome, missed, NoTrade, 0, 0, 0, 0)

Report(result) ==
  /\ results' = Append(results, result)
  /\ current' = current + 1 /\ step' = "start" /\ m' = 0 /\ tick' = 0
  /\ zone' = <<>> /\ touched' = FALSE /\ blocked' = FALSE /\ trade' = NoTrade

\* The checks before anything is replayed, and build_signal_context.
Refusal ==
  IF s.direction \notin {"long", "short"} \/ s.level <= 0 THEN "error"
  ELSE IF ~s.allowed THEN "rejected_execution_not_allowed"
  ELSE IF ~s.recommended THEN "rejected_not_recommended"
  ELSE IF s.condition \notin Conditions THEN "unsupported_condition_type"
  ELSE IF s.timestamp > Horizon THEN "missing_candles" ELSE "none"

Refuse ==
  /\ step = "start" /\ current <= Len(book) /\ Refusal # "none"
  /\ Report(WithoutTrade(Refusal, "unknown"))
  /\ UNCHANGED <<book, ea, path>>

\* A strategy without a zone has one of the size of the range at its time, or none.
Begin ==
  LET df == Closed(s.symbol, s.timeframe, s.timestamp)
      half == (Atr(df, Len(df)) * ea.zoneMultiplier) \div 100
  IN /\ step = "start" /\ current <= Len(book) /\ Refusal = "none"
     /\ Len(path[s.symbol]) >= s.timestamp - 1
     /\ zone' = IF ZoneValid(s.zone) THEN s.zone ELSE <<s.level - half, s.level + half>>
     /\ step' = "scan" /\ m' = s.timestamp
     /\ UNCHANGED <<book, ea, path, current, tick, touched, blocked, trade, results>>

\* The candles are loaded from before the strategy: bars it will not replay itself.
Load(b) ==
  /\ step = "start" /\ current <= Len(book) /\ Refusal = "none"
  /\ Len(path[s.symbol]) < s.timestamp - 1
  /\ Read(Len(path[s.symbol]) + 1, b)
  /\ UNCHANGED <<book, ea, current, step, m, tick, zone, touched, blocked, trade, results>>

Scanning == step = "scan" /\ m <= Horizon /\ m <= s.expiry

ScanBar(b) ==
  /\ Scanning /\ Read(m, b)
  /\ IF Closed(s.symbol, s.timeframe, m) = <<>> THEN m' = m + 1 /\ UNCHANGED <<step, tick>>
     ELSE step' = "tick" /\ tick' = 1 /\ UNCHANGED m
  /\ UNCHANGED <<book, ea, current, zone, touched, blocked, trade, results>>

Bar == path[s.symbol][m]
TickPrice ==
  IF Bar.close >= Bar.open THEN <<Bar.open, Bar.low, Bar.high, Bar.close>>[tick]
                           ELSE <<Bar.open, Bar.high, Bar.low, Bar.close>>[tick]
History == Closed(s.symbol, s.timeframe, m)
AtrNow == Atr(History, Len(History))

\* What becomes of a strategy that did not enter is known when its later bars are.
ToMissed(outcome) ==
  IF s.target = 0 \/ s.stop = 0
  THEN /\ Report(WithoutTrade(outcome, "unknown")) /\ UNCHANGED <<book, ea, path>>
  ELSE /\ step' = outcome /\ m' = s.timestamp /\ touched' = FALSE
       /\ UNCHANGED <<book, ea, path, current, tick, zone, blocked, trade, results>>

Invalidate == step = "tick" /\ Invalid(TickPrice) /\ ToMissed("invalidated_without_entry")

Triggers == PassesAtrFilter(History) /\ Fires(WithPlaceholder(History), TickPrice, AtrNow)

NextTick ==
  /\ IF tick < 4 THEN tick' = tick + 1 /\ UNCHANGED <<step, m>>
     ELSE tick' = 0 /\ step' = "scan" /\ m' = m + 1
  /\ touched' = (touched \/ (Guarded /\ Inside(TickPrice)))
  /\ UNCHANGED <<book, ea, path, current, zone, trade, results>>

Wait == step = "tick" /\ ~Invalid(TickPrice) /\ ~Triggers /\ NextTick /\ UNCHANGED blocked

Block ==
  /\ step = "tick" /\ ~Invalid(TickPrice) /\ Triggers /\ TooFar(TickPrice, AtrNow)
  /\ NextTick /\ blocked' = TRUE

\* The trade is managed from the bar it was entered in.
Enter ==
  LET lot == LotSize(ea.strategyBalance, TickPrice, s.stop, VolumeMin)
  IN /\ step = "tick" /\ ~Invalid(TickPrice) /\ Triggers /\ ~TooFar(TickPrice, AtrNow)
     /\ IF lot = 0
        THEN /\ Report(WithoutTrade("rejected_lot_size", "unknown")) /\ UNCHANGED <<book, ea, path>>
        ELSE /\ trade' = [NoTrade EXCEPT !.time = m, !.entry = TickPrice, !.lot = lot, !.open = lot, !.stop = s.stop]
             /\ step' = "trade" /\ tick' = 0
             /\ UNCHANGED <<book, ea, path, current, m, zone, touched, blocked, results>>

ScanEnds ==
  /\ step = "scan" /\ ~Scanning
  /\ ToMissed(IF blocked THEN "blocked_max_distance" ELSE "expired_without_entry")

NotEntered == {"invalidated_without_entry", "blocked_max_distance", "expired_without_entry"}

\* _forward_test_missed_trade: the level is touched, and later the target or the stop.
MissedBar(b) ==
  /\ step \in NotEntered /\ Read(m, b)
  /\ LET exit == BarExit(b, s.target, s.stop) IN
     IF touched /\ exit # "none"
     THEN Report(WithoutTrade(step, IF exit = "tp" THEN "yes" ELSE "no"))
     ELSE /\ touched' = (touched \/ (b.low <= s.level /\ s.level <= b.high)) /\ m' = m + 1
          /\ UNCHANGED <<current, step, tick, zone, blocked, trade, results>>
  /\ UNCHANGED <<book, ea>>

MissedEnds ==
  /\ step \in NotEntered /\ m > Horizon
  /\ Report(WithoutTrade(step, IF touched THEN "no" ELSE "unknown"))
  /\ UNCHANGED <<book, ea, path>>

\* A trade ends: what is still open is closed at a price.
Close(t, outcome, price) ==
  LET gross == t.realized + Pnl(s.direction, t.entry, price, t.open)
  IN Report(Result(outcome, "unknown", t, m, price, gross, gross - CommissionOf(t.lot)))

ExitHit(b) ==
  LET exit == BarExit(b, s.target, trade.stop)
  IN /\ step = "trade" /\ Read(m, b)
     /\ exit # "none"
     /\ Close(AfterTheory(trade, b),
              IF exit = "tp" THEN "closed_tp"
              ELSE IF trade.breakEven \/ trade.stop # s.stop THEN "closed_trailing_sl" ELSE "closed_sl",
              IF exit = "tp" THEN s.target ELSE trade.stop)
     /\ UNCHANGED <<book, ea>>

RuleHolds(b) == \E rule \in s.rules : EarlyExit(rule, b.close, History)

ExitEarly(b) ==
  /\ step = "trade" /\ Read(m, b)
  /\ BarExit(b, s.target, trade.stop) = "none" /\ RuleHolds(b)
  /\ Close(AfterTheory(trade, b), "closed_early_exit", b.close)
  /\ UNCHANGED <<book, ea>>

Manage(b) ==
  /\ step = "trade" /\ Read(m, b)
  /\ BarExit(b, s.target, trade.stop) = "none" /\ ~RuleHolds(b)
  /\ trade' = AfterPartial(AfterTrailing(AfterBreakEven(AfterTheory(trade, b), b.close, AtrNow), b.close, History), b)
  /\ m' = m + 1
  /\ UNCHANGED <<book, ea, current, step, tick, zone, touched, blocked, results>>

\* The data end while the trade is open: what it has realized is not counted either.
DataEnds ==
  /\ step = "trade" /\ m > Horizon
  /\ Report(Result("open_at_data_end", "unknown", trade, 0, 0, 0, -CommissionOf(trade.lot)))
  /\ UNCHANGED <<book, ea, path>>

ReplayInit ==
  /\ book \in Books /\ ea \in Configs
  /\ path = [sym \in Symbols |-> Warmup]
  /\ current = 1 /\ step = "start" /\ m = 0 /\ tick = 0
  /\ zone = <<>> /\ touched = FALSE /\ blocked = FALSE
  /\ trade = NoTrade /\ results = <<>>

AnyBar == IF current > Len(book) THEN {}
          ELSE Bars(s.symbol, IF step = "start" THEN Len(path[s.symbol]) + 1 ELSE m)

ReplayNext ==
  \/ Refuse \/ Begin \/ Invalidate \/ Wait \/ Block \/ Enter \/ ScanEnds \/ MissedEnds \/ DataEnds
  \/ \E b \in AnyBar : Load(b) \/ ScanBar(b) \/ MissedBar(b) \/ ExitHit(b) \/ ExitEarly(b) \/ Manage(b)
=============================================================================
