---------------------------- MODULE MCTradeEvents ----------------------------
(* TradeEvents, instantiated for TLC: each position executes a strategy of its own. *)
EXTENDS TradeEvents, TLC

OwnStrategy == [t \in Tickets |-> t]

Symmetry == Permutations(Handlers)
=============================================================================
