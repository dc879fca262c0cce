------------------------------- MODULE MCNews -------------------------------
(* Instances of News for TLC. *)
EXTENDS News, TLC

CONSTANTS w1, w2

\* One process walks, the other one takes ranges.
MCModes == (w1 :> {"run"}) @@ (w2 :> {"range"})

MCSite == <<[text |-> "post", type |-> "breaking", impact |-> "high", dated |-> TRUE],
            [text |-> "story", type |-> "", impact |-> "low", dated |-> TRUE]>>

MCOptions == {<<FALSE, FALSE>>, <<TRUE, TRUE>>}

MCRow(id, complete) == Row(id, complete, FALSE, 0, {})

\* What the table holds before the first backfill.
MCStored == {<<MCRow(1, TRUE)>>, <<MCRow(1, FALSE)>>}

\* The range is given in the reverse order.
MCRanges == {<<2, 1>>}
=============================================================================
