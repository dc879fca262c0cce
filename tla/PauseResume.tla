---------------------------- MODULE PauseResume ----------------------------
(***************************************************************************)
(* The referral free-month worker                                          *)
(* (api-worker/app/referrals/pause_resume.py).  A claimed reward buys one  *)
(* billing period of free access: the worker seeds a row in                *)
(* referral_reward_pause_cycles, pauses the Razorpay subscription, and     *)
(* resumes it when the window ends.  A reward that finds a window already  *)
(* open on its subscription is stacked: it extends that window and is      *)
(* consumed at once.                                                       *)
(*                                                                         *)
(* Every database or provider call is one step, so that a run can be       *)
(* killed between any two of them (the scheduler terminates it on a        *)
(* timeout) and runs of several workers can interleave.  The rows a run    *)
(* fetched stay in its memory while the table changes under it.            *)
(*                                                                         *)
(* `now' counts ticks; the periods below are lengths in ticks.             *)
(***************************************************************************)
EXTENDS Integers

CONSTANTS
  Workers,        \* processes that may execute run_referral_pause_resume_cycle
  Rewards,        \* ids of referral_rewards, and of their cycle 1 rows
  NoReward,       \* no reward: a worker that holds no row
  Subscriptions,  \* Razorpay subscriptions
  SubOf,          \* the subscription of the reward's owner
  Period,         \* one billing period
  Months,         \* REFERRAL_REWARD_FREE_MONTHS_PER_CLAIM
  DeferLead,      \* 48 hours: how close a renewal defers the pause
  DeferDelay,     \* 5 minutes: how long after the renewal the pause waits
  MaxTime,        \* bound of the model on `now'
  MaxCrashes,     \* bound of the model on killed runs
  MaxFaults       \* bound of the model on failed provider or database calls

ASSUME ConstantsAssumption ==
  /\ NoReward \notin Rewards
  /\ SubOf \in [Rewards -> Subscriptions]
  /\ Period \in Nat \ {0} /\ Months \in Nat \ {0}
  /\ DeferLead \in Nat /\ DeferDelay \in Nat
  /\ MaxTime \in Nat /\ MaxCrashes \in Nat /\ MaxFaults \in Nat

VARIABLES
  now,      \* the clock
  reward,   \* referral_rewards.status
  cycle,    \* referral_reward_pause_cycles, one row per reward
  billing,  \* last_payment_date and next_billing_date of user_subscriptions
  paused,   \* subscriptions the provider has paused
  keys,     \* idempotency keys the provider has honoured
  pc,       \* the next call of each worker
  batch,    \* rows a worker fetched and has not processed
  row,      \* the row a worker processes, as it read it
  since,    \* now_utc of the row, taken after its promotion
  window,   \* the open window a worker found
  granted,  \* history: how often each reward bought its months
  stacked,  \* history: how many rewards paid for the window of each cycle
  crashes, faults

db == <<reward, cycle, billing>>
provider == <<paused, keys>>
local == <<pc, batch, row, since, window>>
bounds == <<crashes, faults>>
history == <<granted, stacked>>
vars == <<now, db, provider, local, history, bounds>>

NoTime == -1

\* Statuses the referrals route counts as earned and not yet activated: the Scope C worker
\* moves an earned reward from available to applied.
Unclaimed == {"available", "applied"}

PauseStates == {"reward_pending", "pause_pending", "pause_failed"}
ResumeStates == {"paused", "resume_pending", "resume_failed"}
CycleStates == {"absent", "resumed"} \cup PauseStates \cup ResumeStates

PausePCs == {"refresh", "find", "extend", "consume", "defer", "pause",
             "pause_ok", "pause_error"}
ResumePCs == {"resume", "resume_ok", "apply", "resume_error"}
PCs == {"idle", "insert", "fetch", "pause_next", "resume_next"}
         \cup PausePCs \cup ResumePCs

\* A fetched row keeps the columns the run uses later.
Snapshot(r) == [reward |-> r, status |-> cycle[r].status,
                last |-> cycle[r].last, next |-> cycle[r].next]
NoRow == [reward |-> NoReward, status |-> "absent", last |-> NoTime, next |-> NoTime]
NoWindow == [reward |-> NoReward, until |-> NoTime]

\* Mutant: the day of the last charge is not counted.
DurationShort(x) ==
  IF x.last # NoTime /\ x.next # NoTime /\ x.next > x.last THEN x.next - x.last - 1 ELSE NoTime

\* _derive_cycle_duration_seconds: unknown when a date is missing or they are not in order.
Duration(x) ==
  IF x.last # NoTime /\ x.next # NoTime /\ x.next > x.last THEN x.next - x.last ELSE NoTime

Extension(x) == Duration(x) * Months

Init ==
  /\ now = 0
  /\ reward = [r \in Rewards |-> "available"]
  /\ cycle = [r \in Rewards |-> [status |-> "absent", confirmed |-> FALSE, started |-> NoTime,
                                 until |-> NoTime, deferred |-> NoTime, last |-> NoTime, next |-> NoTime]]
  /\ billing \in [Subscriptions -> {[last |-> 0, next |-> Period],
                                    [last |-> NoTime, next |-> NoTime]}]
  /\ paused = {} /\ keys = {}
  /\ pc = [w \in Workers |-> "idle"]
  /\ batch = [w \in Workers |-> {}]
  /\ row = [w \in Workers |-> NoRow]
  /\ since = [w \in Workers |-> NoTime]
  /\ window = [w \in Workers |-> NoWindow]
  /\ granted = [r \in Rewards |-> 0] /\ stacked = [r \in Rewards |-> 0]
  /\ crashes = 0 /\ faults = 0

----------------------------------------------------------------------------
\* Steps of a run.

Goto(w, label) == pc' = [pc EXCEPT ![w] = label]

\* The row is done with: the loop takes the next one.
NextRow(w, loop) ==
  /\ Goto(w, loop)
  /\ row' = [row EXCEPT ![w] = NoRow]
  /\ since' = [since EXCEPT ![w] = NoTime]
  /\ window' = [window EXCEPT ![w] = NoWindow]

\* Mutant: the update is not conditional on the status.
PatchAlways(r, expected, fields) == cycle' = [cycle EXCEPT ![r] = fields]

\* PATCH ... WHERE status = expected: writes the row only while it has the expected status.
Patch(r, expected, fields) ==
  cycle' = IF cycle[r].status = expected THEN [cycle EXCEPT ![r] = fields] ELSE cycle

\* _seed_pending_cycles, the reads: claimed rewards without a cycle, and their billing dates.
SeedRead(w) ==
  /\ pc[w] = "idle"
  /\ batch' = [batch EXCEPT ![w] =
       {[reward |-> r, status |-> "absent",
         last |-> billing[SubOf[r]].last, next |-> billing[SubOf[r]].next] :
           r \in {r \in Rewards : reward[r] = "claimed" /\ cycle[r].status = "absent"}}]
  /\ Goto(w, "insert")
  /\ UNCHANGED <<now, db, provider, row, since, window, history, bounds>>

\* _seed_pending_cycles, the insert: rows that exist by now are left alone (ignore-duplicates).
SeedInsert(w) ==
  /\ pc[w] = "insert"
  /\ cycle' = [r \in Rewards |->
       IF cycle[r].status = "absent" /\ \E x \in batch[w] : x.reward = r
       THEN LET x == CHOOSE x \in batch[w] : x.reward = r
            IN  [cycle[r] EXCEPT !.status = "reward_pending", !.last = x.last, !.next = x.next]
       ELSE cycle[r]]
  /\ batch' = [batch EXCEPT ![w] = {}]
  /\ Goto(w, "fetch")
  /\ UNCHANGED <<now, reward, billing, provider, row, since, window, history, bounds>>

\* _fetch_pause_candidates: a row deferred into the future is left out.
FetchPause(w) ==
  /\ pc[w] = "fetch"
  /\ batch' = [batch EXCEPT ![w] =
       {Snapshot(r) : r \in {r \in Rewards : /\ cycle[r].status \in PauseStates
                                             /\ cycle[r].deferred <= now}}]
  /\ Goto(w, "pause_next")
  /\ UNCHANGED <<now, db, provider, row, since, window, history, bounds>>

\* _promote_pause_pending_if_needed: a row read as pause_pending is taken without a write.
PromotePause(w) ==
  /\ pc[w] = "pause_next"
  /\ \E x \in batch[w] :
       /\ batch' = [batch EXCEPT ![w] = @ \ {x}]
       /\ IF x.status = "pause_pending" \/ cycle[x.reward].status = x.status
          THEN /\ row' = [row EXCEPT ![w] = [x EXCEPT !.status = "pause_pending"]]
               /\ since' = [since EXCEPT ![w] = now]
               /\ Goto(w, IF Duration(x) = NoTime THEN "refresh" ELSE "find")
          ELSE UNCHANGED <<pc, row, since>>
       /\ IF x.status = "pause_pending" THEN UNCHANGED cycle
          ELSE Patch(x.reward, x.status, [cycle[x.reward] EXCEPT !.status = "pause_pending"])
  /\ UNCHANGED <<now, reward, billing, provider, window, history, bounds>>

\* _refresh_cycle_timestamps_for_pause: the dates of the subscription replace those of the row.
RefreshDates(w) ==
  /\ pc[w] = "refresh"
  /\ LET r == row[w].reward
         b == billing[SubOf[r]]
         x == [row[w] EXCEPT !.last = b.last, !.next = b.next]
     IN  /\ row' = [row EXCEPT ![w] = x]
         /\ Patch(r, "pause_pending", [cycle[r] EXCEPT !.last = b.last, !.next = b.next])
         /\ Goto(w, IF Duration(x) = NoTime THEN "pause_error" ELSE "find")
  /\ UNCHANGED <<now, reward, billing, provider, batch, since, window, history, bounds>>

\* Windows a reward of the same subscription can be stacked on.
OpenWindows(s) == {r \in Rewards : /\ SubOf[r] = s
                                   /\ cycle[r].status = "paused"
                                   /\ cycle[r].confirmed
                                   /\ cycle[r].until > now}

\* _find_open_pause_window: the one that ends last.
FindOpenWindow(w) ==
  /\ pc[w] = "find"
  /\ LET open == OpenWindows(SubOf[row[w].reward])
     IN  \/ /\ open = {}
            /\ Goto(w, "defer")
            /\ UNCHANGED window
         \/ \E t \in open :
              /\ \A u \in open : cycle[u].until <= cycle[t].until
              /\ window' = [window EXCEPT ![w] = [reward |-> t, until |-> cycle[t].until]]
              /\ Goto(w, "extend")
  /\ UNCHANGED <<now, db, provider, batch, row, since, history, bounds>>

\* _extend_pause_window: writes the end computed from the one read, while the row is paused.
ExtendWindow(w) ==
  /\ pc[w] = "extend"
  /\ LET t == window[w].reward
         until == window[w].until + Extension(row[w])
         open == cycle[t].status = "paused" /\ cycle[t].confirmed
     IN  IF open
         THEN /\ cycle' = [cycle EXCEPT ![t].until = until]
              /\ window' = [window EXCEPT ![w].until = until]
              /\ granted' = [granted EXCEPT ![row[w].reward] = @ + 1]
              /\ stacked' = [stacked EXCEPT ![t] = @ + 1]
              /\ Goto(w, "consume")
         ELSE /\ Goto(w, "defer")
              /\ UNCHANGED <<cycle, window, history>>
  /\ UNCHANGED <<now, reward, billing, provider, batch, row, since, bounds>>

\* Mutant: the update expects the status the row was seeded with.
ConsumeSeeded(w) ==
  /\ pc[w] = "consume"
  /\ LET r == row[w].reward
     IN  Patch(r, "reward_pending", [cycle[r] EXCEPT !.status = "resumed"])
  /\ NextRow(w, "pause_next")
  /\ UNCHANGED <<now, reward, billing, provider, batch, history, bounds>>

\* _mark_reward_consumed_by_extension.
ConsumeReward(w) ==
  /\ pc[w] = "consume"
  /\ LET r == row[w].reward
     IN  Patch(r, "pause_pending",
               [cycle[r] EXCEPT !.status = "resumed", !.confirmed = TRUE,
                                !.started = now, !.until = window[w].until])
  /\ NextRow(w, "pause_next")
  /\ UNCHANGED <<now, reward, billing, provider, batch, history, bounds>>

\* _should_defer_pause and _mark_pause_deferred, with the dates the row was read with.
DeferPause(w) ==
  /\ pc[w] = "defer"
  /\ LET r == row[w].reward
     IN  IF row[w].next <= since[w] + DeferLead
         THEN /\ Patch(r, "pause_pending", [cycle[r] EXCEPT !.deferred = row[w].next + DeferDelay])
              /\ NextRow(w, "pause_next")
         ELSE /\ Goto(w, "pause")
              /\ UNCHANGED <<cycle, row, since, window>>
  /\ UNCHANGED <<now, reward, billing, provider, batch, history, bounds>>

\* A failed call costs one of the model's faults.
Fault == faults < MaxFaults /\ faults' = faults + 1

\* Mutant: the idempotency key leaves out the reward.
PauseKeyOfSubscription(r) == <<"pause", CHOOSE q \in Rewards : SubOf[q] = SubOf[r]>>

\* _build_idempotency_key.
PauseKey(r) == <<"pause", r>>
ResumeKey(r) == <<"resume", r>>

\* client.pause_subscription.  The provider replays a key it has honoured, rejects a new
\* request for a paused subscription, and may apply a request whose answer is lost.
CallPause(w) ==
  /\ pc[w] = "pause"
  /\ LET r == row[w].reward
         s == SubOf[r]
         key == PauseKey(r)
         Honour == /\ key \in keys \/ s \notin paused
                   /\ paused' = IF key \in keys THEN paused ELSE paused \cup {s}
                   /\ keys' = keys \cup {key}
         Reject == key \notin keys /\ s \in paused /\ UNCHANGED provider
     IN  \/ Honour /\ Goto(w, "pause_ok") /\ UNCHANGED faults
         \/ Reject /\ Goto(w, "pause_error") /\ UNCHANGED faults
         \/ Fault /\ (Honour \/ UNCHANGED provider) /\ Goto(w, "pause_error")
  /\ UNCHANGED <<now, db, batch, row, since, window, history, crashes>>

\* _mark_pause_success: the window starts at the now_utc taken before the calls.
MarkPauseSuccess(w) ==
  /\ pc[w] = "pause_ok"
  /\ LET r == row[w].reward
     IN  \/ /\ Patch(r, "pause_pending",
                     [cycle[r] EXCEPT !.status = "paused", !.confirmed = TRUE,
                                      !.started = since[w],
                                      !.until = since[w] + Extension(row[w]),
                                      !.deferred = NoTime])
            /\ IF cycle[r].status = "pause_pending"
               THEN /\ granted' = [granted EXCEPT ![r] = @ + 1]
                    /\ stacked' = [stacked EXCEPT ![r] = 1]
               ELSE UNCHANGED history
            /\ NextRow(w, "pause_next")
            /\ UNCHANGED faults
         \/ /\ Fault
            /\ Goto(w, "pause_error")
            /\ UNCHANGED <<cycle, history, row, since, window>>
  /\ UNCHANGED <<now, reward, billing, provider, batch, crashes>>

\* _mark_pause_failed: the row is retried by a later run.
MarkPauseFailed(w) ==
  /\ pc[w] = "pause_error"
  /\ LET r == row[w].reward
     IN  Patch(r, "pause_pending", [cycle[r] EXCEPT !.status = "pause_failed"])
  /\ NextRow(w, "pause_next")
  /\ UNCHANGED <<now, reward, billing, provider, batch, history, bounds>>

Ended(r) == cycle[r].confirmed /\ cycle[r].until # NoTime /\ cycle[r].until <= now

\* Mutants: the end of the window is not looked at; a failed resume is not fetched again.
ResumableEarly(r) == cycle[r].status \in ResumeStates /\ cycle[r].confirmed
ResumableOnce(r) == cycle[r].status \in {"paused", "resume_pending"} /\ Ended(r)

Resumable(r) == cycle[r].status \in ResumeStates /\ Ended(r)

\* _fetch_resume_candidates, once the pause phase is over: the windows that have ended.
FetchResume(w) ==
  /\ pc[w] = "pause_next" /\ batch[w] = {}
  /\ batch' = [batch EXCEPT ![w] =
       {Snapshot(r) : r \in {r \in Rewards : Resumable(r)}}]
  /\ Goto(w, "resume_next")
  /\ UNCHANGED <<now, db, provider, row, since, window, history, bounds>>

\* _promote_resume_pending_if_needed: compares the status only, not the end of the window.
PromoteResume(w) ==
  /\ pc[w] = "resume_next"
  /\ \E x \in batch[w] :
       /\ batch' = [batch EXCEPT ![w] = @ \ {x}]
       /\ IF x.status = "resume_pending" \/ cycle[x.reward].status = x.status
          THEN /\ row' = [row EXCEPT ![w] = [x EXCEPT !.status = "resume_pending"]]
               /\ Goto(w, "resume")
          ELSE UNCHANGED <<pc, row>>
       /\ IF x.status = "resume_pending" THEN UNCHANGED cycle
          ELSE Patch(x.reward, x.status, [cycle[x.reward] EXCEPT !.status = "resume_pending"])
  /\ UNCHANGED <<now, reward, billing, provider, since, window, history, bounds>>

\* client.resume_subscription: as for a pause, a new request for a running subscription is rejected.
CallResume(w) ==
  /\ pc[w] = "resume"
  /\ LET r == row[w].reward
         s == SubOf[r]
         key == ResumeKey(r)
         Honour == /\ key \in keys \/ s \in paused
                   /\ paused' = IF key \in keys THEN paused ELSE paused \ {s}
                   /\ keys' = keys \cup {key}
         Reject == key \notin keys /\ s \notin paused /\ UNCHANGED provider
     IN  \/ Honour /\ Goto(w, "resume_ok") /\ UNCHANGED faults
         \/ Reject /\ Goto(w, "resume_error") /\ UNCHANGED faults
         \/ Fault /\ (Honour \/ UNCHANGED provider) /\ Goto(w, "resume_error")
  /\ UNCHANGED <<now, db, batch, row, since, window, history, crashes>>

\* _mark_resume_success: a stale row ends the attempt, a written one goes on to its reward.
MarkResumeSuccess(w) ==
  /\ pc[w] = "resume_ok"
  /\ LET r == row[w].reward
     IN  \/ /\ cycle[r].status = "resume_pending"
            /\ Patch(r, "resume_pending",
                     [cycle[r] EXCEPT !.status = "resumed", !.confirmed = FALSE, !.until = NoTime])
            /\ Goto(w, "apply")
            /\ UNCHANGED <<faults, row, since, window>>
         \/ /\ cycle[r].status # "resume_pending"
            /\ NextRow(w, "resume_next")
            /\ UNCHANGED <<cycle, faults>>
         \/ /\ Fault
            /\ Goto(w, "resume_error")
            /\ UNCHANGED <<cycle, row, since, window>>
  /\ UNCHANGED <<now, reward, billing, provider, batch, history, crashes>>

\* _mark_parent_reward_applied.
MarkRewardApplied(w) ==
  /\ pc[w] = "apply"
  /\ LET r == row[w].reward
     IN  \/ /\ reward' = IF reward[r] = "claimed" THEN [reward EXCEPT ![r] = "applied"] ELSE reward
            /\ NextRow(w, "resume_next")
            /\ UNCHANGED faults
         \/ /\ Fault
            /\ Goto(w, "resume_error")
            /\ UNCHANGED <<reward, row, since, window>>
  /\ UNCHANGED <<now, cycle, billing, provider, batch, history, crashes>>

\* _mark_resume_failed: nothing to mark when the row is resumed already.
MarkResumeFailed(w) ==
  /\ pc[w] = "resume_error"
  /\ LET r == row[w].reward
     IN  Patch(r, "resume_pending", [cycle[r] EXCEPT !.status = "resume_failed"])
  /\ NextRow(w, "resume_next")
  /\ UNCHANGED <<now, reward, billing, provider, batch, history, bounds>>

EndRun(w) ==
  /\ pc[w] = "resume_next" /\ batch[w] = {}
  /\ Goto(w, "idle")
  /\ UNCHANGED <<now, db, provider, batch, row, since, window, history, bounds>>

\* The run is killed on its timeout, or a database call outside the try blocks raises.
Crash(w) ==
  /\ pc[w] # "idle" /\ crashes < MaxCrashes
  /\ crashes' = crashes + 1
  /\ batch' = [batch EXCEPT ![w] = {}]
  /\ NextRow(w, "idle")
  /\ UNCHANGED <<now, db, provider, history, faults>>

PauseStep(w) ==
  \/ FetchPause(w) \/ PromotePause(w) \/ RefreshDates(w) \/ FindOpenWindow(w)
  \/ ExtendWindow(w) \/ ConsumeReward(w) \/ DeferPause(w)
  \/ CallPause(w) \/ MarkPauseSuccess(w) \/ MarkPauseFailed(w)

ResumeStep(w) ==
  \/ FetchResume(w) \/ PromoteResume(w) \/ CallResume(w)
  \/ MarkResumeSuccess(w) \/ MarkRewardApplied(w) \/ MarkResumeFailed(w) \/ EndRun(w)

RunStep(w) == SeedRead(w) \/ SeedInsert(w) \/ PauseStep(w) \/ ResumeStep(w)

----------------------------------------------------------------------------
\* The environment.

\* The owner activates an earned reward (the manual activation RPC).
Claim(r) ==
  /\ reward[r] \in Unclaimed
  /\ reward' = [reward EXCEPT ![r] = "claimed"]
  /\ UNCHANGED <<now, cycle, billing, provider, local, history, bounds>>

\* The provider bills a running subscription whose date has come, and the dates of
\* user_subscriptions follow.
ChargeDue(s) == s \notin paused /\ billing[s].next <= now

Charge(s) ==
  /\ ChargeDue(s)
  /\ billing' = [billing EXCEPT ![s] = [last |-> now, next |-> now + Period]]
  /\ UNCHANGED <<now, reward, cycle, provider, local, history, bounds>>

\* Time passes; a date that is known is not overrun.
Tick ==
  /\ now < MaxTime
  /\ \A s \in Subscriptions : ChargeDue(s) => billing[s].next = NoTime
  /\ now' = now + 1
  /\ UNCHANGED <<db, provider, local, history, bounds>>

Environment == \/ \E r \in Rewards : Claim(r)
               \/ \E s \in Subscriptions : Charge(s)
               \/ Tick

Next == \/ \E w \in Workers : RunStep(w) \/ Crash(w)
        \/ Environment

Spec == Init /\ [][Next]_vars

\* The scheduler starts a run every few hours and a run goes on until it ends or is killed;
\* time passes, and the provider bills.
Fairness == /\ \A w \in Workers : WF_vars(RunStep(w))
            /\ WF_vars(Tick)
            /\ \A s \in Subscriptions : WF_vars(Charge(s))

FairSpec == Spec /\ Fairness

----------------------------------------------------------------------------
Times == Int
Rows == [reward : Rewards \cup {NoReward}, status : CycleStates, last : Times, next : Times]
Cycles == [status : CycleStates, confirmed : BOOLEAN, started : Times, until : Times,
           deferred : Times, last : Times, next : Times]
Windows == [reward : Rewards \cup {NoReward}, until : Times]
Keys == {"pause", "resume"} \X Rewards

TablesOK ==
  /\ now \in Nat
  /\ reward \in [Rewards -> Unclaimed \cup {"claimed"}]
  /\ cycle \in [Rewards -> Cycles]
  /\ billing \in [Subscriptions -> [last : Times, next : Times]]
  /\ paused \subseteq Subscriptions /\ keys \subseteq Keys
  /\ granted \in [Rewards -> Nat] /\ stacked \in [Rewards -> Nat]
  /\ crashes \in Nat /\ faults \in Nat

MemoryOK ==
  /\ pc \in [Workers -> PCs]
  /\ batch \in [Workers -> SUBSET Rows]
  /\ row \in [Workers -> Rows]
  /\ since \in [Workers -> Times]
  /\ window \in [Workers -> Windows]

\* A worker past a promotion holds a row of the table, a worker that extends a window has one.
HoldsRow ==
  \A w \in Workers :
    /\ \A x \in batch[w] : x.reward \in Rewards
    /\ pc[w] \in PausePCs \cup ResumePCs => row[w].reward \in Rewards
    /\ pc[w] \in {"extend", "consume"} => window[w].reward \in Rewards

\* The shape of the tables, of the provider's state and of each worker's memory.
TypeOK == TablesOK /\ MemoryOK /\ HoldsRow

\* As long as a pause cycle is under way its reward stays claimed: the referrals route never
\* counts it as available again while the free month is still owed or running.
CycleOwnsReward ==
  \A r \in Rewards : cycle[r].status \notin {"absent", "resumed"} => reward[r] = "claimed"

\* Why it holds for any number of workers: what a worker is about to insert belongs to claimed
\* rewards, a worker that applies a reward has resumed its cycle, and no fetched row was read
\* as absent or resumed.
SeedsAreClaimed ==
  \A w \in Workers : pc[w] = "insert" =>
    \A x \in batch[w] : cycle[x.reward].status = "absent" => reward[x.reward] = "claimed"
AppliesOnlyResumed ==
  \A w \in Workers : pc[w] = "apply" => cycle[row[w].reward].status = "resumed"
BatchKind ==
  \A w \in Workers : \A x \in batch[w] :
    /\ pc[w] \in PausePCs \cup {"pause_next"} => x.status \in PauseStates
    /\ pc[w] \in ResumePCs \cup {"resume_next"} => x.status \in ResumeStates
Ownership == TypeOK /\ CycleOwnsReward /\ SeedsAreClaimed /\ AppliesOnlyResumed /\ BatchKind

\* A reward buys its free months once, through a window of its own or through the extension
\* of another, however often its row is retried: only a run that is killed between the
\* extension and the update of the reward's row makes the next run grant them once more
\* (_extend_pause_window before _mark_reward_consumed_by_extension).
MonthGrantedOnce == \A r \in Rewards : granted[r] <= 1 + crashes

\* Nothing the rewards paid for is lost: the window of a paused row is as long as the months
\* of all the rewards stacked on it (_mark_pause_success, _extend_pause_window).
WindowHoldsEveryMonth ==
  \A r \in Rewards :
    cycle[r].status = "paused" =>
      cycle[r].until - cycle[r].started = stacked[r] * Months * Period

\* While the table promises free access the provider really has the subscription paused, and
\* does not bill it (pause_subscription and its idempotency key).
OpenWindowIsPaused == \A s \in Subscriptions : OpenWindows(s) # {} => s \in paused

\* A finished cycle is never reopened by a worker that still holds the row in an older state.
ResumedIsFinal ==
  [][\A r \in Rewards : cycle[r].status = "resumed" => cycle'[r].status = "resumed"]_vars

\* Free access ends: a window whose end comes is taken down, or was extended further, also when
\* resuming fails at first (_fetch_resume_candidates).
EveryWindowEnds ==
  \A r \in Rewards : cycle[r].status = "paused" /\ cycle[r].until <= MaxTime
                       ~> cycle[r].status = "resumed" \/ cycle[r].until > MaxTime

\* FreeMonths in terms of this module.  A reward is spent as soon as the window it extends is
\* written, before its own row is.
Promise == INSTANCE FreeMonths WITH
  Length <- Months * Period,
  months <- stacked,
  start  <- [r \in Rewards |-> IF stacked[r] > 0 THEN cycle[r].started ELSE NoTime],
  phase  <- [r \in Rewards |->
              IF \/ cycle[r].status = "resumed"
                 \/ \E w \in Workers : pc[w] = "consume" /\ row[w].reward = r
              THEN "spent"
              ELSE IF cycle[r].status \in ResumeStates THEN "running"
              ELSE IF cycle[r].status = "absent" THEN "none" ELSE "owed"]

\* One worker at a time keeps the promise of FreeMonths, through failed calls and retries, until
\* a run is killed: every step opens a window, extends it, closes it after its end, or changes
\* nothing that was promised (run_referral_pause_resume_cycle).
KeepsPromise == Promise!Init /\ [][crashes' = 0 => Promise!Next]_(Promise!vars)
============================================================================
