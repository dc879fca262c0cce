------------------------------ MODULE MCStreams ------------------------------
EXTENDS Streams

CONSTANTS c1, c2, candle, other, news, strategy, regime

MCMessages == {candle, other, news, strategy, regime}
MCChannelOf ==
  [m \in MCMessages |-> CASE m \in {candle, other} -> "candles" [] m = news -> "news"
                           [] m = strategy -> "strategies" [] m = regime -> "regime"]
MCKindOf ==
  [m \in MCMessages |-> CASE m = candle -> "candle" [] m = other -> "other" [] m = news -> "news"
                           [] m = strategy -> "strategy" [] m = regime -> "regime"]

Case(who, streams, often, what, crashes) ==
  [clients |-> who, streams |-> streams, visits |-> often, messages |-> what, faults |-> crashes]

MCCases == {
  Case({c1}, {Signals}, 2, {candle, news, regime}, 0),
  Case({c1}, {Candles, AllCandles}, 2, {candle, other}, 1),
  Case({c1}, {Signals, Strategies}, 2, {strategy, news}, 0),
  Case({c1, c2}, {News}, 1, {news}, 1),
  Case({c1, c2}, {Signals, AllCandles}, 1, {candle, regime}, 0) }
=============================================================================
