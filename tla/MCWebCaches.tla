---------------------------- MODULE MCWebCaches --------------------------------
EXTENDS WebCaches, TLC

CONSTANTS r1, r2, r3

SameRequests == Permutations(Requests)

Case(which, calls, changes, ticks, failures) ==
  [routes |-> which, hooks |-> {"current", "all", "strategies", "strategy id", "strategy"},
   calls |-> calls, changes |-> changes, ticks |-> ticks, failures |-> failures, absent |-> {}]

MCCases == {
  Case({"news current"}, 1, 1, 1, 1),
  Case({"news upcoming"}, 0, 1, 4, 0),
  Case({"news item"}, 1, 1, 1, 0),
  Case({"news item"}, 0, 1, 6, 0),
  [Case({"news item"}, 0, 1, 2, 1) EXCEPT !.absent = {1}],
  Case({"strategy", "strategies all"}, 1, 1, 1, 0),
  Case({"signal"}, 0, 1, 6, 0),
  Case({"historical"}, 0, 2, 2, 1) }
=============================================================================
