-------------------------------- MODULE MCCharts -------------------------------
EXTENDS Charts

CONSTANTS gold, euro, r1, r2, r3

MCFirstBars == [y \in {gold, euro} |-> IF y = gold THEN {0, 1} ELSE {}]

Ask(y, first, last) == [sym |-> y, window |-> first..last, bounded |-> TRUE]
AskNewest(y) == [sym |-> y, window |-> {}, bounded |-> FALSE]
NoAsks == [r \in {} |-> AskNewest(gold)]

Case(who, symbols, minutes, cuts, failures, refusals, added, restarts) ==
  [sessions |-> who, known |-> symbols, minutes |-> minutes, cuts |-> cuts, failures |-> failures,
   refusals |-> refusals, symbols |-> added, manual |-> 0, wants |-> {}, ids |-> {},
   restarts |-> restarts,
   higher |-> FALSE, redis |-> 0, expiries |-> 0, watermark |-> 0, asks |-> NoAsks]

\* The same with requests of operators, who may choose the number 2 (that of a job of the first session).
Manual(k, manual, ranges) ==
  [k EXCEPT !.manual = manual, !.ids = {2},
            !.wants = {[sym |-> gold, from |-> range[1], to |-> range[2]] : range \in ranges}]

\* The same with a higher timeframe, and requests for its candles.
Chart(k, redis, expiries, watermark, asks) ==
  [k EXCEPT !.higher = TRUE, !.redis = redis, !.expiries = expiries, !.watermark = watermark,
            !.asks = asks]

MCCases == {
  Manual(Case({1}, {gold}, 1, 0, 1, 1, 0, 0), 1, {<<1, 3>>, <<3, 5>>}),
  Manual(Case({1}, {gold}, 0, 1, 0, 0, 0, 1), 2, {<<1, 3>>}),
  Manual(Case({1, 2}, {}, 0, 0, 0, 0, 0, 0), 1, {<<1, 3>>}),
  Case({1}, {gold}, 1, 0, 1, 2, 0, 0),
  Case({1}, {gold, euro}, 0, 0, 0, 2, 0, 0),
  Case({1, 2}, {gold}, 2, 1, 0, 0, 0, 0),
  Case({1, 2}, {}, 2, 1, 0, 0, 0, 0),
  Case({1}, {gold}, 1, 0, 0, 0, 1, 1),
  Chart(Case({1}, {gold}, 3, 0, 0, 0, 0, 1), 1, 0, 0, NoAsks),
  Chart(Case({1, 2}, {gold}, 1, 0, 0, 0, 0, 0), 0, 0, 0, NoAsks),
  Chart(Case({1}, {gold}, 3, 0, 0, 0, 0, 0), 0, 0, 1, r1 :> AskNewest(gold) @@ r2 :> Ask(gold, 0, 1)),
  Chart(Case({}, {gold}, 0, 0, 0, 0, 0, 0), 0, 0, 0, r1 :> AskNewest(euro) @@ r2 :> Ask(euro, 0, 0)),
  Chart(Case({}, {gold, euro}, 0, 0, 1, 0, 0, 0), 1, 2, 1,
        r1 :> Ask(gold, 0, 0) @@ r2 :> Ask(gold, 0, 0) @@ r3 :> Ask(gold, 0, 0)) }
=============================================================================
