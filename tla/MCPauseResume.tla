--------------------------- MODULE MCPauseResume ---------------------------
(***************************************************************************)
(* Small instances of PauseResume: two rewards of one subscription, so     *)
(* that the second can be stacked on the window of the first.              *)
(***************************************************************************)
EXTENDS PauseResume, TLC

CONSTANTS s1

OneSubscription == [r \in Rewards |-> s1]

Symmetry == Permutations(Rewards) \cup Permutations(Workers)
============================================================================
