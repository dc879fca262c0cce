----------------------------- MODULE MCScheduler -----------------------------
(* Schedulers and their updaters, instantiated for TLC. *)
EXTENDS Scheduler

MCCases == [market |-> 1, fault |-> 1]
===============================================================================
