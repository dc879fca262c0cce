------------------------------- MODULE Scheduler -------------------------------
(***************************************************************************)
(* The scheduler of api-worker, scripts/worker/data_updater_scheduler.py,  *)
(* as the driver of the indicator updater of module Indicators.            *)
(*                                                                         *)
(* Several containers may run it.  Every five minutes, and once when it    *)
(* starts, a scheduler takes a lock in Redis, runs the updater in a        *)
(* process of its own while a thread renews the lock, and releases it.     *)
(* Scheduled cycles also run the transitions of referral rewards and, more *)
(* rarely, the pause/resume worker of module PauseResume, without renewal. *)
(*                                                                         *)
(* The lock has a time to live: it goes away when it is not renewed, and   *)
(* with the data of Redis.                                                 *)
(***************************************************************************)
EXTENDS Indicators

CONSTANTS
  Strict,             \* WORKER_LOCK_STRICT_MODE
  ReferralFatal,      \* WORKER_REFERRAL_FAILURE_FATAL
  failure_threshold

Schedulers == Updaters

ASSUME SchedulerAssumption ==
  /\ {Strict, ReferralFatal} \subseteq BOOLEAN
  /\ failure_threshold \in Nat \ {0}

VARIABLES
  lock,           \* who has the key of the lock, or Nobody
  redisUp,
  sched,          \* the schedulers
  everLost        \* whether the key ever went away from a scheduler that relied on it

schedulerVars == <<lock, redisUp, sched, everLost>>
vars == <<indicatorVars, schedulerVars>>

\* A process that is not running and one that has begun and waits for its turn are not told apart:
\* supervision starts it again, and it goes on whether or not the bridge becomes ready.
Fresh == [pc |-> "due", startup |-> TRUE, locked |-> FALSE, renewing |-> FALSE,
          leaseLost |-> FALSE, failures |-> 0, exits |-> FALSE]

\* Between taking the lock and giving it back.
InCycle(s) == sched[s].pc \in {"run", "transitions", "pause", "release"}

----------------------------------------------------------------------------
\* _record_updater_result: whether it was the last failure that is tolerated.
Recorded(s, success) ==
  LET failures == IF success THEN 0 ELSE sched[s].failures + 1
  IN  [sched[s] EXCEPT !.failures = failures, !.exits = failures >= failure_threshold,
                       !.renewing = FALSE, !.leaseLost = FALSE]

\* A cycle that is not run: the first one counts as the startup run.
Skipped(s) == [sched[s] EXCEPT !.startup = FALSE]

\* The key is there, be it the scheduler's own from a release that failed.
LockIsHeld(s) ==
  /\ sched[s].pc = "due" /\ redisUp /\ lock # Nobody
  /\ sched' = [sched EXCEPT ![s] = Skipped(s)]
  /\ UNCHANGED <<indicatorVars, lock, redisUp, everLost>>

\* run_indicator_updater begins: the process and the thread that renews the lock are started.
RunBegins(s, locked) ==
  /\ sched' = [sched EXCEPT ![s].pc = "run", ![s].locked = locked, ![s].renewing = locked]
  /\ Begin(s)

LockIsAcquired(s) ==
  /\ sched[s].pc = "due" /\ redisUp /\ lock = Nobody
  /\ lock' = s
  /\ RunBegins(s, TRUE)
  /\ UNCHANGED <<redisUp, everLost>>

\* Mutant: the lock of the own process is taken in strict mode too.
FallsBack(s) ==
  /\ sched[s].pc = "due" /\ ~redisUp
  /\ RunBegins(s, FALSE)
  /\ UNCHANGED <<lock, redisUp, everLost>>

\* Strict mode fails; otherwise a lock of the own process is taken instead.
LockIsUnavailable(s) ==
  /\ sched[s].pc = "due" /\ ~redisUp
  /\ IF Strict
     THEN /\ sched' = [sched EXCEPT ![s] =
                         LET r == Recorded(s, FALSE)
                         IN  IF r.exits THEN Fresh ELSE [r EXCEPT !.startup = FALSE]]
          /\ UNCHANGED indicatorVars
     ELSE RunBegins(s, FALSE)
  /\ UNCHANGED <<lock, redisUp, everLost>>

\* One failure to renew ends the thread; a renewal that succeeds changes nothing here.
RenewalFails(s) ==
  /\ sched[s].renewing /\ (~redisUp \/ lock # s)
  /\ sched' = [sched EXCEPT ![s].renewing = FALSE, ![s].leaseLost = TRUE]
  /\ UNCHANGED <<indicatorVars, lock, redisUp, everLost>>

\* The startup run is followed by nothing; a failure too many ends the scheduler.
AfterUpdater(s, success) ==
  LET r == Recorded(s, success)
  IN  [r EXCEPT !.pc = IF r.startup \/ r.exits THEN "release" ELSE "transitions"]

UpdaterEnds(s) ==
  /\ sched[s].pc = "run" /\ up[s].pc = "done"
  /\ sched' = [sched EXCEPT ![s] = AfterUpdater(s, ~up[s].errors)]
  /\ up' = [up EXCEPT ![s] = Idle]
  /\ UNCHANGED <<marketVars, tableVars, holder, left, lock, redisUp, everLost>>

KilledUpdater(s) == holder' = Unlocked(s) /\ up' = [up EXCEPT ![s] = Idle]

\* The updater is terminated when it takes too long, and in strict mode when the lease is lost.
UpdaterIsKilled(s) ==
  /\ sched[s].pc = "run" /\ up[s].pc # "done"
  /\ IF Strict /\ sched[s].leaseLost THEN UNCHANGED left ELSE Spend("fault")
  /\ KilledUpdater(s)
  /\ sched' = [sched EXCEPT ![s] = AfterUpdater(s, FALSE)]
  /\ UNCHANGED <<marketVars, tableVars, lock, redisUp, everLost>>

\* Its process ends with 0, 1, 2 or is killed.  Whether the pause/resume worker is due, as long as it
\* has not succeeded and when its interval has passed since, is left open.
run_referral_reward_transitions(s) ==
  /\ sched[s].pc = "transitions"
  /\ \E ok, isDue \in BOOLEAN :
       sched' = [sched EXCEPT ![s].pc = IF ok /\ isDue THEN "pause" ELSE "release",
                              ![s].exits = ~ok /\ ReferralFatal]
  /\ UNCHANGED <<indicatorVars, lock, redisUp, everLost>>

run_referral_pause_resume_worker(s) ==
  /\ sched[s].pc = "pause"
  /\ \E ok \in BOOLEAN :
       sched' = [sched EXCEPT ![s].pc = "release", ![s].exits = ~ok /\ ReferralFatal]
  /\ UNCHANGED <<indicatorVars, lock, redisUp, everLost>>

\* The key is deleted if it still has the token; otherwise the failure is logged.
_release_distributed_lock(s) ==
  /\ sched[s].pc = "release"
  /\ lock' = IF sched[s].locked /\ redisUp /\ lock = s THEN Nobody ELSE lock
  /\ sched' = [sched EXCEPT ![s] = IF @.exits THEN Fresh
                                   ELSE [@ EXCEPT !.pc = "due", !.startup = FALSE, !.locked = FALSE]]
  /\ UNCHANGED <<indicatorVars, redisUp, everLost>>

----------------------------------------------------------------------------
\* The environment.

\* The container is killed: the scheduler and its updater with it, the key stays.
Crash(s) ==
  /\ InCycle(s) /\ Spend("fault")
  /\ sched' = [sched EXCEPT ![s] = Fresh]
  /\ KilledUpdater(s)
  /\ UNCHANGED <<marketVars, tableVars, lock, redisUp, everLost>>

\* The time to live covers a run and what follows it: a key goes away when its scheduler left it,
\* or when renewals were held up for so long, or with the data of Redis.
KeyExpires ==
  /\ lock # Nobody
  /\ IF InCycle(lock) THEN Spend("fault") /\ everLost' = TRUE ELSE UNCHANGED <<left, everLost>>
  /\ lock' = Nobody
  /\ UNCHANGED <<marketVars, tableVars, holder, up, redisUp, sched>>

RedisStops ==
  /\ redisUp /\ Spend("fault")
  /\ redisUp' = FALSE
  /\ UNCHANGED <<marketVars, tableVars, holder, up, lock, sched, everLost>>

RedisComesBack ==
  /\ ~redisUp /\ redisUp' = TRUE
  /\ UNCHANGED <<indicatorVars, lock, sched, everLost>>

----------------------------------------------------------------------------
Init ==
  /\ IndicatorsInit
  /\ lock = Nobody /\ redisUp = TRUE /\ everLost = FALSE
  /\ sched = [s \in Schedulers |-> Fresh]

Acquire(s) == LockIsHeld(s) \/ LockIsAcquired(s) \/ LockIsUnavailable(s)

\* What the scheduler and its updater do, apart from failures of the environment.
SchedulerStep(s) ==
  \/ Acquire(s) \/ RenewalFails(s)
  \/ UpdaterEnds(s) \/ UpdaterIsKilled(s)
  \/ run_referral_reward_transitions(s) \/ run_referral_pause_resume_worker(s)
  \/ _release_distributed_lock(s)
  \/ UpdaterStep(s) /\ UNCHANGED schedulerVars

Next ==
  \/ Market /\ UNCHANGED schedulerVars
  \/ \E s \in Schedulers : SchedulerStep(s) \/ Crash(s) \/ (PairFails(s) /\ UNCHANGED schedulerVars)
  \/ KeyExpires \/ RedisStops \/ RedisComesBack

Spec == Init /\ [][Next]_vars

\* M1 bars come, every process goes on, a key that nobody renews expires, and Redis comes back.
FairSpec ==
  /\ Spec
  /\ WF_vars(Market /\ UNCHANGED schedulerVars)
  /\ \A s \in Schedulers : WF_vars(SchedulerStep(s))
  /\ WF_vars(KeyExpires) /\ WF_vars(RedisComesBack)

----------------------------------------------------------------------------
SchedulersOK ==
  /\ DOMAIN sched = Schedulers
  /\ \A s \in Schedulers :
       /\ DOMAIN sched[s] = DOMAIN Fresh
       /\ sched[s].pc \in {"due", "run", "transitions", "pause", "release"}
  /\ lock \in Schedulers \cup {Nobody} /\ redisUp \in BOOLEAN /\ everLost \in BOOLEAN

\* Every scheduler in a cycle has the key.
KeyIsHeld == (Strict /\ ~everLost) => \A s \in Schedulers : InCycle(s) => lock = s

LockInv == SchedulersOK /\ KeyIsHeld

\* In strict mode two schedulers are never in a cycle at once, unless a key went away from one that
\* relied on it: neither a crash, nor an outage, nor a release that failed lets a second one in.
OneAtATime ==
  (Strict /\ ~everLost) => \A r, s \in Schedulers : InCycle(r) /\ InCycle(s) => r = s

\* Every candle from the first one on gets a row that knows all of it, whatever crashes, outages,
\* lost leases and failing pairs come between.
EveryCandleIsServed ==
  \A p \in Pairs : \A t \in 0..(LastTick \div Sub) :
    (t \in Candles(p) /\ watermarks[p].time # NoTime /\ watermarks[p].since <= t)
      ~> (t \in DOMAIN rows[p] /\ rows[p][t].m1 = Ticks(p, t))
===============================================================================
