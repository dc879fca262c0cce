----------------------------- MODULE MCPayments -----------------------------
(* Payments, instantiated for TLC. *)
EXTENDS Payments, TLC

\* Every call may fail, or only those whose failure the code means to survive: the first lookup
\* of an event, the calls of an activation, and those of the janitor.
EveryCall == WorkerLabels \cup JanitorLabels
ActivationCalls == {"idle", "renew", "create", "link"} \cup JanitorLabels
=============================================================================
