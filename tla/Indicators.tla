------------------------------ MODULE Indicators ------------------------------
(***************************************************************************)
(* The indicator updater of api-worker:                                    *)
(* scripts/calculate_recent_indicators_v2.py.                              *)
(*                                                                         *)
(* A pair is a symbol and one of the timeframes M5 to H4, whose candles    *)
(* Timescale aggregates from the M1 bars the broker sends, the one that is *)
(* still forming included.  Time is counted in M1 bars, Sub of them to a   *)
(* candle.  A run takes the pairs one by one, each in a transaction under  *)
(* an advisory lock of the pair: the candles after the watermark and a few *)
(* before it, then the newest candle and the one that is forming.          *)
(*                                                                         *)
(* A row of technical_indicators is the set of M1 bars that the last       *)
(* candle of its history was made of, which should be its own candle, and  *)
(* the first candle of that history.                                       *)
(***************************************************************************)
EXTENDS Integers, Sequences, FiniteSets, FiniteSetsExt, SequencesExt

CONSTANTS
  Updaters,       \* processes of the script, which may overlap
  Nobody,
  NumPairs,
  Sub,            \* M1 bars of a candle
  Offset,         \* CAGG_END_OFFSETS
  MaxDelay,       \* ticks by which an M1 bar may come late
  safety_backfill_bars, max_new_bars_per_cycle, lookback_bars,
  ForceAfter,     \* force_overlap_recompute_minutes
  Timeout,        \* INDICATOR_UPDATER_TIMEOUT_SECONDS, in M1 bars
  FirstTick, LastTick,    \* bounds of the model: the clock
  Cases           \* bounds of the model: M1 bars that are missing or late, and faults

Pairs == 1..NumPairs

ASSUME IndicatorsAssumption ==
  /\ NumPairs \in Nat \ {0} /\ Nobody \notin Updaters
  /\ Sub \in Nat \ {0} /\ Offset \in 1..Sub-1
  /\ MaxDelay \in 1..Offset           \* what the offset is for
  /\ safety_backfill_bars \in 1..30 /\ {max_new_bars_per_cycle, lookback_bars} \subseteq Nat \ {0}
  /\ {ForceAfter, Timeout} \subseteq Nat /\ FirstTick \in Nat \ {0}
  /\ ForceAfter = 0 \/ Timeout < ForceAfter     \* at most 30 minutes, and an hour

VARIABLES
  clock,          \* M1 bars before it are over
  m1,             \* of a pair, the M1 bars that are stored
  due,            \* and those that are still on their way
  rows,           \* technical_indicators
  watermarks,     \* indicator_update_watermarks: time (-1 for none), updated_at, and, to state the
                  \* properties, since: the oldest candle that was computed for it
  holder,         \* who has the advisory lock of a pair
  up,             \* the updaters
  left            \* how often each bounded case may still happen

marketVars == <<clock, m1, due>>
tableVars == <<rows, watermarks>>
indicatorVars == <<clock, m1, due, rows, watermarks, holder, up, left>>

NoTime == -1
NoWatermark == [time |-> NoTime, updated |-> NoTime, since |-> NoTime]

----------------------------------------------------------------------------
\* The candles of a pair.

Ticks(p, t) == {x \in m1[p] : x \div Sub = t}
Candles(p) == {x \div Sub : x \in m1[p]}

\* Candles whose start is Offset in the past.
Finalized(p) == {t \in Candles(p) : t * Sub <= clock - Offset}

\* ORDER BY time ASC or DESC, LIMIT n.
Oldest(n, S) == {t \in S : Cardinality({x \in S : x < t}) < n}
Newest(n, S) == {t \in S : Cardinality({x \in S : x > t}) < n}

_get_latest_candle_time(p) == IF Finalized(p) = {} THEN NoTime ELSE Max(Finalized(p))

_fetch_candle_times_since(p, lower, upper, n) ==
  Oldest(n, {t \in Candles(p) : t > lower /\ t <= upper})

_fetch_candlesticks_window(p, lower, upper, n) ==
  Oldest(n, {t \in Finalized(p) : t >= lower /\ t <= upper})

fetch_recent_candlesticks(p, n, upper) == Newest(n, {t \in Finalized(p) : t <= upper})

\* The newest candle of the M1 bars after the latest finalized time.
FormingTimes(p, latest) ==
  LET later == {x \in m1[p] : x > latest * Sub}
  IN  IF later = {} THEN {} ELSE {Max({x \div Sub : x \in later})} \ 0..latest

----------------------------------------------------------------------------
\* What one transaction computes.

\* The newest row, which is not a placeholder.
_get_latest_indicator_time(p, latest) ==
  LET times == {t \in DOMAIN rows[p] : t <= latest}
  IN  IF times = {} THEN NoTime ELSE Max(times)

\* Without a watermark the newest row stands for it; that one has no updated_at.
WatermarkOf(p, latest) ==
  IF watermarks[p].time # NoTime THEN watermarks[p]
  ELSE [NoWatermark EXCEPT !.time = _get_latest_indicator_time(p, latest)]

\* Mutant: only the candles after the watermark, none before it again.
OnlyNew(p, latest) ==
  LET mark == WatermarkOf(p, latest)
      lower == IF mark.time = NoTime THEN latest - max_new_bars_per_cycle ELSE mark.time
  IN  _fetch_candle_times_since(p, lower, latest, max_new_bars_per_cycle)

CandidateTimes(p, latest) ==
  LET mark == WatermarkOf(p, latest)
      new == _fetch_candle_times_since(p, mark.time, latest, max_new_bars_per_cycle)
      overlap == mark.time - safety_backfill_bars
      forced == ForceAfter > 0 /\ mark.updated # NoTime /\ clock - mark.updated >= ForceAfter
  IN  IF mark.time = NoTime
      THEN _fetch_candle_times_since(p, latest - max_new_bars_per_cycle, latest, max_new_bars_per_cycle)
      ELSE IF new # {}
      THEN _fetch_candle_times_since(p, overlap, Max(new), max_new_bars_per_cycle + safety_backfill_bars)
      ELSE IF forced
      THEN _fetch_candle_times_since(p, overlap, mark.time, safety_backfill_bars)
      ELSE {}

\* Mutant: the window is the candidates and the overlap, without what they are computed from.
HistoryOfOverlap(p, candidates, latest) ==
  IF candidates = {} THEN {}
  ELSE _fetch_candlesticks_window(p, Min(candidates) - safety_backfill_bars + 1, latest,
                                  lookback_bars + max_new_bars_per_cycle + safety_backfill_bars + 32)

BacklogHistory(p, candidates, latest) ==
  IF candidates = {} THEN {}
  ELSE _fetch_candlesticks_window(p, Min(candidates) - (lookback_bars + safety_backfill_bars + 2), latest,
                                  lookback_bars + max_new_bars_per_cycle + safety_backfill_bars + 32)

RealtimeHistory(p, latest) ==
  fetch_recent_candlesticks(p, lookback_bars + safety_backfill_bars + max_new_bars_per_cycle + 32, latest)
    \cup FormingTimes(p, latest)

\* From the newest candles of the history that are not after the time, whether or not the candle of
\* that time is one of them.
_calculate_snapshot_at_time(p, history, t) ==
  LET window == Newest(lookback_bars, {x \in history : x <= t})
  IN  [m1 |-> Ticks(p, Max(window)), from |-> Min(window)]

\* Where the window is empty nothing is computed.
Snapshots(p, times, history) ==
  [t \in {t \in times : \E x \in history : x <= t} |-> _calculate_snapshot_at_time(p, history, t)]

\* ON CONFLICT DO UPDATE.
Upserted(old, new) == [t \in DOMAIN new \cup DOMAIN old |-> IF t \in DOMAIN new THEN new[t] ELSE old[t]]

\* The rows to store and the candles that lead to the watermark.
PlanOf(p, latest, candidates, backlog, realtime) ==
  LET computed == Snapshots(p, candidates, backlog)
  IN  [rows |-> Upserted(Snapshots(p, {latest} \cup FormingTimes(p, latest), realtime), computed),
       candidates |-> DOMAIN computed]

----------------------------------------------------------------------------
\* The market: M1 bars end, are sent in time, late, or not at all.

Spend(case) == left[case] > 0 /\ left' = [left EXCEPT ![case] = @ - 1]

\* In a transaction, from the first statement on.
Underway(u) == up[u].pc \in {"lock", "compute", "store"}

\* Time does not pass the deadline of a bar on its way, nor that of an updater, which is killed then.
TickEnds ==
  /\ clock < LastTick
  /\ \A p \in Pairs : \A x \in due[p] : clock < x + MaxDelay
  /\ \A u \in Updaters : Underway(u) => clock < up[u].began + Timeout
  /\ clock' = clock + 1
  /\ \/ /\ m1' = [p \in Pairs |-> m1[p] \cup {clock}]
        /\ UNCHANGED <<due, left>>
     \/ \E p \in Pairs :
          /\ m1' = [q \in Pairs |-> IF q = p THEN m1[q] ELSE m1[q] \cup {clock}]
          /\ \/ Spend("market") /\ UNCHANGED due
             \/ Spend("market") /\ due' = [due EXCEPT ![p] = @ \cup {clock}]
  /\ UNCHANGED <<rows, watermarks, holder, up>>

BarArrives(p) ==
  /\ \E x \in due[p] :
       /\ m1' = [m1 EXCEPT ![p] = @ \cup {x}]
       /\ due' = [due EXCEPT ![p] = @ \ {x}]
  /\ UNCHANGED <<clock, rows, watermarks, holder, up, left>>

----------------------------------------------------------------------------
\* A run of the script.

NoPlan == [rows |-> <<>>, candidates |-> {}]
Idle == [pc |-> "idle", pairs |-> <<>>, began |-> NoTime, latest |-> NoTime, plan |-> NoPlan,
         errors |-> FALSE]

PairsOfRun == [i \in Pairs |-> i]

Begin(u) ==
  /\ up[u].pc = "idle"
  /\ up' = [up EXCEPT ![u] = [Idle EXCEPT !.pc = "pairs", !.pairs = PairsOfRun]]
  /\ UNCHANGED <<marketVars, tableVars, holder, left>>

NextPairIs(u) == [up[u] EXCEPT !.pc = "pairs", !.pairs = Tail(@), !.began = NoTime,
                               !.latest = NoTime, !.plan = NoPlan]

\* The latest candle is read before the lock is asked for; the transaction begins.
ReadLatest(u) ==
  LET p == Head(up[u].pairs)
      latest == _get_latest_candle_time(p)
  IN  /\ up[u].pc = "pairs" /\ up[u].pairs # <<>>
      /\ up' = [up EXCEPT ![u] = IF latest = NoTime THEN NextPairIs(u)
                                 ELSE [@ EXCEPT !.pc = "lock", !.began = clock, !.latest = latest]]
      /\ UNCHANGED <<marketVars, tableVars, holder, left>>

\* Mutant: the lock is not waited for.
NoPairLock(u) ==
  /\ up[u].pc = "lock"
  /\ up' = [up EXCEPT ![u].pc = "compute"]
  /\ UNCHANGED <<marketVars, tableVars, holder, left>>

_acquire_watermark_pair_lock(u) ==
  LET p == Head(up[u].pairs)
  IN  /\ up[u].pc = "lock" /\ holder[p] = Nobody
      /\ holder' = [holder EXCEPT ![p] = u]
      /\ up' = [up EXCEPT ![u].pc = "compute"]
      /\ UNCHANGED <<marketVars, tableVars, left>>

Compute(u) ==
  /\ up[u].pc = "compute"
  /\ \E p \in {Head(up[u].pairs)} : \E latest \in {up[u].latest} :
     \E candidates \in {CandidateTimes(p, latest)}, realtime \in {RealtimeHistory(p, latest)} :
     \E backlog \in {BacklogHistory(p, candidates, latest)} :
       up' = [up EXCEPT ![u].pc = "store",
                        ![u].plan = PlanOf(p, latest, candidates, backlog, realtime)]
  /\ UNCHANGED <<marketVars, tableVars, holder, left>>

store_latest_indicators(p, plan) == rows' = [rows EXCEPT ![p] = Upserted(@, plan.rows)]

\* Mutant: the watermark is the latest candle, whatever was computed.
UpsertLatest(p, plan, now) ==
  watermarks' = [watermarks EXCEPT ![p] =
                   IF plan.candidates = {} THEN @
                   ELSE [time |-> Max({@.time} \cup Finalized(p)), updated |-> now,
                         since |-> IF @.time = NoTime THEN Min(plan.candidates) ELSE @.since]]

\* GREATEST of the old and the new one, and updated_at even when they are the same: NOW(), which is
\* when the transaction began.
_upsert_watermark(p, plan, now) ==
  watermarks' = [watermarks EXCEPT ![p] =
                   IF plan.candidates = {} THEN @
                   ELSE [time |-> Max({@.time} \cup plan.candidates), updated |-> now,
                         since |-> IF @.time = NoTime THEN Min(plan.candidates) ELSE @.since]]

\* The transaction commits and gives up the lock.
Store(u) ==
  LET p == Head(up[u].pairs)
  IN  /\ up[u].pc = "store"
      /\ store_latest_indicators(p, up[u].plan)
      /\ _upsert_watermark(p, up[u].plan, up[u].began)
      /\ holder' = [holder EXCEPT ![p] = Nobody]
      /\ up' = [up EXCEPT ![u] = NextPairIs(u)]
      /\ UNCHANGED <<marketVars, left>>

Unlocked(u) == [p \in Pairs |-> IF holder[p] = u THEN Nobody ELSE holder[p]]

\* A statement fails: the transaction is rolled back and the next pair is taken.
PairFails(u) ==
  /\ up[u].pc \in {"pairs", "lock", "compute", "store"} /\ up[u].pairs # <<>>
  /\ Spend("fault")
  /\ holder' = Unlocked(u)
  /\ up' = [up EXCEPT ![u] = [NextPairIs(u) EXCEPT !.errors = TRUE]]
  /\ UNCHANGED <<marketVars, tableVars>>

Finish(u) ==
  /\ up[u].pc = "pairs" /\ up[u].pairs = <<>>
  /\ up' = [up EXCEPT ![u] = [Idle EXCEPT !.pc = "done", !.errors = up[u].errors]]
  /\ UNCHANGED <<marketVars, tableVars, holder, left>>

UpdaterStep(u) ==
  ReadLatest(u) \/ _acquire_watermark_pair_lock(u) \/ Compute(u) \/ Store(u) \/ Finish(u)

Market == TickEnds \/ \E p \in Pairs : BarArrives(p)

----------------------------------------------------------------------------
\* A pair may have rows of an earlier version of the script, and no watermark.
IndicatorsInit ==
  /\ clock = FirstTick
  /\ m1 = [p \in Pairs |-> 0..FirstTick-1]
  /\ due = [p \in Pairs |-> {}]
  /\ rows \in [Pairs -> {<<>>, [t \in {0} |-> [m1 |-> {0}, from |-> 0]]}]
  /\ watermarks = [p \in Pairs |-> NoWatermark]
  /\ holder = [p \in Pairs |-> Nobody]
  /\ up = [u \in Updaters |-> Idle]
  /\ left = Cases

----------------------------------------------------------------------------
\* What the steps of an updater have, and what they leave: the pair they work on.
UpdatersOK ==
  /\ DOMAIN up = Updaters
  /\ \A u \in Updaters :
       /\ DOMAIN up[u] = DOMAIN Idle
       /\ up[u].pc \in {"idle", "pairs", "lock", "compute", "store", "done"}
       /\ up[u].pairs \in Seq(Pairs)
       /\ Underway(u) => up[u].pairs # <<>>

TablesOK ==
  /\ DOMAIN rows = Pairs /\ DOMAIN m1 = Pairs /\ DOMAIN due = Pairs /\ DOMAIN holder = Pairs
  /\ clock \in Nat

\* The lock of a pair is held from before its candles are read until its rows are stored.
PairIsLocked ==
  \A u \in Updaters : up[u].pc \in {"compute", "store"} => holder[Head(up[u].pairs)] = u

\* No row, stored or about to be, knows a bar that is not there.
RowsAreOfBars ==
  \A p \in Pairs : \A t \in DOMAIN rows[p] : rows[p][t].m1 \subseteq Ticks(p, t)
PlanKeepsBars ==
  \A u \in Updaters : up[u].pc = "store" =>
    \A p \in Pairs : p = Head(up[u].pairs) =>
      \A t \in DOMAIN up[u].plan.rows :
        /\ up[u].plan.rows[t].m1 \subseteq Ticks(p, t)
        /\ t \in DOMAIN rows[p] => rows[p][t].m1 \subseteq up[u].plan.rows[t].m1

\* Bars are of the past, and those on their way are not overdue.
MarketOK ==
  \A p \in Pairs :
    /\ m1[p] \subseteq 0..clock-1 /\ 0 \in m1[p]
    /\ \A x \in due[p] : x \in 0..clock-1 /\ clock <= x + MaxDelay

\* A transaction is not older than its time-out, and when another one moved the watermark beyond its
\* latest candle, that one began later.
TransactionsOK ==
  \A u \in Updaters : Underway(u) => \A p \in Pairs : p = Head(up[u].pairs) =>
    /\ up[u].latest \in Finalized(p)
    /\ up[u].began \in Nat /\ up[u].began <= clock /\ clock <= up[u].began + Timeout
    /\ watermarks[p].time > up[u].latest =>
         watermarks[p].updated \in Nat /\ watermarks[p].updated >= up[u].began
    /\ \A v \in Updaters : (Underway(v) /\ p = Head(up[v].pairs) /\ up[v].latest > up[u].latest)
         => up[v].began >= up[u].began

WatermarksOK ==
  /\ DOMAIN watermarks = Pairs
  /\ \A p \in Pairs : watermarks[p].time \in Finalized(p) \cup {NoTime}

\* The history of a row is long enough, is all there is, or is of complete candles and has no gap.
Reaches(p, row, t) ==
  /\ t \in Nat /\ row.from \in 0..t
  /\ \/ row.from <= t - lookback_bars + 1
     \/ row.from = 0
     \/ /\ t * Sub <= clock - Offset
        /\ \A x \in Candles(p) : (x > t - lookback_bars /\ x <= t) => row.from <= x

RowsReach == \A p \in Pairs : \A t \in DOMAIN rows[p] : Reaches(p, rows[p][t], t)

\* The candles that lead to the watermark follow it, or each other, without a hole.
Follow(p, times) ==
  \A t \in Candles(p) : \A c \in times :
    (t < c /\ IF watermarks[p].time = NoTime THEN \E d \in times : d <= t ELSE watermarks[p].time <= t)
      => t \in times

\* What is about to be stored: rows of the whole of their candles, but for the last one.
PlanIsSound ==
  \A u \in Updaters : up[u].pc = "store" => \A p \in Pairs : p = Head(up[u].pairs) =>
    LET plan == up[u].plan
    IN  /\ plan.candidates \subseteq Finalized(p) /\ plan.candidates \subseteq DOMAIN plan.rows
        /\ \A c \in plan.candidates : watermarks[p].time <= up[u].latest /\ c <= up[u].latest
        /\ Follow(p, plan.candidates)
        /\ \A t \in DOMAIN plan.rows :
             /\ (t < watermarks[p].time \/ \E c \in plan.candidates : t < c)
                  => plan.rows[t].m1 = Ticks(p, t)
             /\ Reaches(p, plan.rows[t], t)

\* From the first candle on, up to the watermark, there is no candle without a row, and no row that was
\* computed before its candle was complete: candidates follow each other without a hole, and the
\* last ones, which may have been forming, are computed again.
ClosedBelowWatermark ==
  \A p \in Pairs : \A t \in Candles(p) :
    (watermarks[p].since <= t /\ t < watermarks[p].time)
      => t \in DOMAIN rows[p] /\ rows[p][t].m1 = Ticks(p, t)

\* The inductive invariant behind what holds of the rows.
BarsInv == UpdatersOK /\ TablesOK /\ PairIsLocked /\ RowsAreOfBars /\ PlanKeepsBars
MarksInv ==
  MarketOK /\ WatermarksOK /\ TransactionsOK /\ RowsReach /\ PlanIsSound /\ ClosedBelowWatermark
RowsInv == BarsInv /\ MarksInv

\* A row is never replaced by one that knows less of its candle, although two updaters may work on a
\* pair, one of them with a latest time it read before it waited for the lock.
RowsKeepBars ==
  [][\A p \in Pairs : \A t \in DOMAIN rows[p] :
       t \in DOMAIN rows'[p] /\ rows[p][t].m1 \subseteq rows'[p][t].m1]_rows

\* Whatever a row was stored for, a new candle, an overlap or the forming one, its history reaches as
\* far back as lookback_bars steps of its timeframe.
HistoryReachesBack ==
  \A p \in Pairs : \A t \in DOMAIN rows[p] :
    \A x \in Candles(p) : (x > t - lookback_bars /\ x <= t) => rows[p][t].from <= x
===============================================================================
