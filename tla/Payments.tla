------------------------------ MODULE Payments ------------------------------
(***************************************************************************)
(* Payment transactions of api-web/app/payments.  A checkout inserts a     *)
(* pending row in payment_transactions; the provider reports what becomes  *)
(* of it through webhook events, which are queued in webhook_events and    *)
(* claimed by webhook workers (webhook_handler.py, tasks.py).  A payment   *)
(* that succeeds activates a subscription and may earn its referrer a      *)
(* reward.  A janitor settles attempts nobody reports on, and retries      *)
(* activations that failed (tasks.py); the user may cancel an attempt      *)
(* (routes.py).                                                            *)
(*                                                                         *)
(* Every database or provider call is a step: workers and janitors         *)
(* interleave between any two of them, and may be killed there.  A worker  *)
(* acts on the row as it read it; an update is conditional on the status.  *)
(*                                                                         *)
(* Leases, back-off and ages are not counted: a lease may expire and an    *)
(* attempt be old enough at any time.                                      *)
(***************************************************************************)
EXTENDS Naturals

CONSTANTS
  Workers,     \* processes that run webhook_events_worker_loop
  Janitors,    \* processes that run deferred_cancellation_janitor_loop
  Txs,         \* payment_transactions of one user
  Events,      \* webhook deliveries, by (provider, event_id)
  None,        \* no transaction, event or claim token
  MaxRetries,  \* RetryPolicy.max_retries of provider webhooks
  FaultyAt,    \* program points whose database or provider call may fail
  MaxFaults,   \* bound of the model on failed calls
  MaxCrashes   \* bound of the model on killed processes

Processes == Workers \cup Janitors

ASSUME ConstantsAssumption ==
  /\ None \notin Txs \cup Events \cup Processes
  /\ Workers \cap Janitors = {}
  /\ MaxRetries \in Nat \ {0} /\ MaxFaults \in Nat /\ MaxCrashes \in Nat

VARIABLES
  provider,  \* the payment provider of each transaction
  invoice,   \* what the provider knows of it: open, paid, short (too little, or in a wrong
             \* currency) or dead
  tx,        \* payment_transactions, with the subscription each row names
  event,     \* webhook_events
  reward,    \* referral_rewards, by the payment that triggers them: none, on hold, on hold though
             \* the hold is over, released or revoked
  pc,        \* the next call of each process
  batch,     \* rows a process fetched and has not taken
  job,       \* the row it works on, as it read it
  granted,   \* history: transactions for which a subscription was created or renewed
  resolved,  \* history: transactions a janitor found paid at the provider
  crashes, faults

memory == <<pc, batch, job>>
history == <<granted, resolved>>
bounds == <<crashes, faults>>
vars == <<provider, invoice, tx, event, reward, memory, history, bounds>>

Active == {"pending", "processing"}
Final == {"succeeded", "failed", "expired", "cancelled", "refunded"}

\* Event types, and the status each maps to (map_event_to_state).  A completed Plisio invoice
\* may show an amount or a currency other than the expected one.
TypesOf(name) ==
  {"unmapped", "waiting", "refunded"} \cup
  (IF name = "razorpay"
   THEN {"authenticated", "activated", "charged", "cancelled", "halted"}
   ELSE {"confirming", "completed", "underpaid", "wrong_currency", "expired"})
StateOf(type) ==
  CASE type = "waiting" -> "pending"
    [] type \in {"authenticated", "confirming"} -> "processing"
    [] type \in {"activated", "charged", "completed", "underpaid", "wrong_currency"} -> "succeeded"
    [] type = "halted" -> "failed"
    [] OTHER -> type

NewTx == [status |-> "absent", linked |-> FALSE, active |-> FALSE,
          retry |-> FALSE, token |-> None, version |-> 0]
\* A Plisio renewal names the subscription it renews, which may have lapsed.
Renewal(active) == [NewTx EXCEPT !.linked = TRUE, !.active = active]
NoRow == [tx |-> None, type |-> "unmapped", state |-> "absent", retries |-> 0]
\* A row as a process read it.  `status' is what a worker read and what a janitor is to write.
NoJob == [event |-> None, retries |-> 0, tx |-> None, status |-> "absent", linked |-> FALSE,
          token |-> None, version |-> 0]

Init ==
  /\ provider \in [Txs -> {"razorpay", "plisio"}]
  /\ invoice = [t \in Txs |-> "open"]
  /\ tx \in [Txs -> {NewTx, Renewal(TRUE), Renewal(FALSE)}]
  /\ \A t \in Txs : tx[t].linked => provider[t] = "plisio"
  /\ event = [e \in Events |-> NoRow]
  /\ reward = [t \in Txs |-> "none"]
  /\ pc = [p \in Processes |-> "idle"]
  /\ batch = [p \in Processes |-> {}]
  /\ job = [p \in Processes |-> NoJob]
  /\ granted = {} /\ resolved = {}
  /\ crashes = 0 /\ faults = 0

----------------------------------------------------------------------------
\* Calls.

Goto(p, label) == pc' = [pc EXCEPT ![p] = label]

\* The call process p is about to make fails.
Fault(p) == pc[p] \in FaultyAt /\ faults < MaxFaults /\ faults' = faults + 1

\* Process p takes row x, with what it reads of it.
Take(p, x, read) == batch' = [batch EXCEPT ![p] = @ \ {x}] /\ job' = [job EXCEPT ![p] = read]

\* It is done with its row, and goes on with the loop.
DropJob(p, label) == Goto(p, label) /\ job' = [job EXCEPT ![p] = NoJob]

\* Mutant: the update is not conditional on the status.
SetStatusAlways(t, expected, status) == tx' = [tx EXCEPT ![t].status = status]

\* UPDATE payment_transactions SET status ... WHERE status IN expected.
SetStatus(t, expected, status) ==
  tx' = [tx EXCEPT ![t].status = IF @ \in expected THEN status ELSE @]

\* UPDATE payment_transactions SET metadata, updated_at: the whole metadata is replaced.
SetMetadata(t, retry, token) ==
  tx' = [tx EXCEPT ![t] = [@ EXCEPT !.retry = retry, !.token = token,
                                    !.version = tx[t].version + 1]]

----------------------------------------------------------------------------
\* webhook_events_worker_loop.

\* _claim_ready_webhooks_batch: rows that are due, or whose lease has run out, which may be so
\* whether or not the worker that claimed them is alive.
Ready(e) == event[e].state \in {"queued", "claimed"}

Claim(w) ==
  /\ pc[w] = "idle" /\ batch[w] = {}
  /\ \E claimed \in SUBSET {e \in Events : Ready(e)} :
       /\ claimed # {}
       /\ batch' = [batch EXCEPT ![w] =
            {[NoJob EXCEPT !.event = e, !.tx = event[e].tx, !.retries = event[e].retries] :
               e \in claimed}]
       /\ event' = [e \in Events |-> IF e \in claimed
                                     THEN [event[e] EXCEPT !.state = "claimed"]
                                     ELSE event[e]]
  /\ UNCHANGED <<provider, invoice, tx, reward, pc, job, history, bounds>>

\* The guards on what the callback says was paid.  A currency other than the expected one is
\* audited and ends the event, whatever it is about; a smaller amount is audited, and the event
\* goes on with that noted.
WrongCurrency(type) == type = "wrong_currency"
Underpaid(type) == type = "underpaid"

\* The start of process_claimed_webhook_event: unmapped events are done with, a transaction
\* that is not there is waited for, a currency mismatch ends the event.
Lookup(w) ==
  /\ pc[w] = "idle"
  /\ \E x \in batch[w] :
       LET row == tx[x.tx]
           type == event[x.event].type
       IN  \/ /\ type = "unmapped" \/ (WrongCurrency(type) /\ row.status # "absent")
              /\ Take(w, x, x) /\ Goto(w, "done") /\ UNCHANGED faults
           \/ /\ type # "unmapped" /\ row.status = "absent"
              /\ Take(w, x, x) /\ Goto(w, "fail") /\ UNCHANGED faults
           \/ /\ type # "unmapped" /\ ~WrongCurrency(type) /\ row.status # "absent"
              /\ Take(w, x, [x EXCEPT !.status = row.status, !.linked = row.linked,
                                      !.token = row.token])
              /\ Goto(w, "update") /\ UNCHANGED faults
           \/ Fault(w) /\ Take(w, x, x) /\ Goto(w, "fail")
  /\ UNCHANGED <<provider, invoice, tx, event, reward, history, crashes>>

\* Which events may change a transaction that was read with this status.
Admits(t, status, type) ==
  \/ type = "charged"
  \/ provider[t] = "plisio" /\ status = "expired" /\ StateOf(type) = "succeeded"
  \/ StateOf(type) = "refunded" /\ status # "refunded"
  \/ status \notin Final

\* The update, conditional on the status that was read.
Update(w) ==
  /\ pc[w] = "update"
  /\ LET x == job[w]
         type == event[x.event].type
     IN  IF ~Admits(x.tx, x.status, type)
         THEN Goto(w, "done") /\ UNCHANGED <<tx, faults>>
         ELSE \/ /\ SetStatus(x.tx, {x.status}, StateOf(type))
                 /\ Goto(w, "refetch") /\ UNCHANGED faults
              \/ /\ Fault(w) /\ Goto(w, "fail")
                 /\ SetStatus(x.tx, {x.status}, StateOf(type)) \/ UNCHANGED tx
  /\ UNCHANGED <<provider, invoice, event, reward, batch, job, history, crashes>>

\* Mutant: activation is not blocked by an amount mismatch.
EffectUnchecked(type, latest) ==
  IF StateOf(type) # latest THEN "done"
  ELSE IF latest = "succeeded" THEN "activate"
  ELSE IF latest = "refunded" THEN "revoke"
  ELSE "done"

\* What follows an event, given the latest status of its transaction: an invoice that was paid
\* in part earns its reward but activates nothing.
Effect(type, latest) ==
  IF StateOf(type) # latest THEN "done"
  ELSE IF Underpaid(type) THEN "evaluate"
  ELSE IF latest = "succeeded" THEN "activate"
  ELSE IF latest = "refunded" THEN "revoke"
  ELSE "done"

\* The row is read again, so that the effects follow the status it really has, and the change
\* of status is audited.
Refetch(w) ==
  /\ pc[w] = "refetch"
  /\ \/ /\ Goto(w, Effect(event[job[w].event].type, tx[job[w].tx].status))
        /\ UNCHANGED faults
     \/ Fault(w) /\ Goto(w, "fail")
  /\ UNCHANGED <<provider, invoice, tx, event, reward, batch, job, history, crashes>>

\* The call that activates: a Plisio payment for a known subscription renews it.
Activation(x) == IF provider[x.tx] = "plisio" /\ x.linked THEN "renew" ELSE "create"

\* A subscription that is active already is left alone.
CheckActive(w) ==
  /\ pc[w] = "activate"
  /\ \/ /\ Goto(w, IF job[w].linked /\ tx[job[w].tx].active THEN "evaluate"
                   ELSE Activation(job[w]))
        /\ UNCHANGED faults
     \/ Fault(w) /\ Goto(w, "fail")
  /\ UNCHANGED <<provider, invoice, tx, event, reward, batch, job, history, crashes>>

----------------------------------------------------------------------------
\* Activation, by a worker or by a janitor that retries.

\* Where an error in an activation leads, and where its success does.
OnError(p) == IF p \in Workers THEN "flag" ELSE "give_up"
OnSuccess(p) == IF p \in Workers THEN "evaluate" ELSE "complete"

\* A call of the database function that renews, or creates, the subscription.  An error may
\* come before or after its effect.  The user's sessions are updated last, which may fail too.
Renew(p) ==
  /\ pc[p] = "renew"
  /\ LET t == job[p].tx
         Effective == granted' = granted \cup {t} /\ tx' = [tx EXCEPT ![t].active = TRUE]
     IN  \/ Effective /\ Goto(p, OnSuccess(p)) /\ UNCHANGED faults
         \/ Fault(p) /\ Goto(p, OnError(p)) /\ (Effective \/ UNCHANGED <<granted, tx>>)
  /\ UNCHANGED <<provider, invoice, event, reward, batch, job, resolved, crashes>>

Create(p) ==
  /\ pc[p] = "create"
  /\ LET Effective == granted' = granted \cup {job[p].tx}
     IN  \/ Effective /\ Goto(p, "link") /\ UNCHANGED faults
         \/ Fault(p) /\ Goto(p, OnError(p)) /\ (Effective \/ UNCHANGED granted)
  /\ UNCHANGED <<provider, invoice, tx, event, reward, batch, job, resolved, crashes>>

\* The transaction is made to name the subscription that was created, and the user's sessions
\* are updated.
Link(p) ==
  /\ pc[p] = "link"
  /\ LET Effective == tx' = [tx EXCEPT ![job[p].tx].linked = TRUE, ![job[p].tx].active = TRUE]
     IN  \/ Effective /\ Goto(p, OnSuccess(p)) /\ UNCHANGED faults
         \/ Fault(p) /\ Goto(p, OnError(p)) /\ (Effective \/ UNCHANGED tx)
  /\ UNCHANGED <<provider, invoice, event, reward, batch, job, history, crashes>>

----------------------------------------------------------------------------
\* The rest of process_claimed_webhook_event.

\* Mutant: the error is logged and nothing is left for the janitor.
FlagLost(w) ==
  /\ pc[w] = "flag" /\ Goto(w, "evaluate")
  /\ UNCHANGED <<provider, invoice, tx, event, reward, batch, job, history, bounds>>

\* An activation that failed is left to the janitor, by the metadata as the worker read it; the
\* error of the write or of the audit row that follows it fails the event.
Flag(w) ==
  /\ pc[w] = "flag"
  /\ LET Effective == SetMetadata(job[w].tx, TRUE, job[w].token)
     IN  \/ Effective /\ Goto(w, "evaluate") /\ UNCHANGED faults
         \/ Fault(w) /\ Goto(w, "fail") /\ (Effective \/ UNCHANGED tx)
  /\ UNCHANGED <<provider, invoice, event, reward, batch, job, history, crashes>>

\* fraud_detect_referral_pattern: an identity that paid under the same referrer before blocks the
\* reward; a matching network, no referral under way and an error of a read do not.
FraudOutcomes == {"passed", "fraud_blocked_duplicate_identity"}

\* _map_rpc_result: what the evaluation function may answer for the payment.  Only the first
\* payment of a user whose referral is pending earns a reward.
RewardOutcomes(t) ==
  IF reward[t] = "none"
  THEN {"success_reward_created", "skip_no_pending_referral", "skip_not_first_success"}
  ELSE {"success_already_rewarded_reconciled"}

\* evaluate_referral_reward: the payment may earn its referrer a reward, on hold.  An error of
\* the evaluation function, before or after its effect, is swallowed.
Evaluate(w) ==
  /\ pc[w] = "evaluate"
  /\ LET t == job[w].tx
     IN  \E fraud \in FraudOutcomes, outcome \in RewardOutcomes(t) :
           /\ reward' = IF fraud = "passed" /\ outcome = "success_reward_created"
                        THEN [reward EXCEPT ![t] = "on_hold"] ELSE reward
           /\ UNCHANGED faults \/ (fraud = "passed" /\ Fault(w))
  /\ Goto(w, "done")
  /\ UNCHANGED <<provider, invoice, tx, event, batch, job, history, crashes>>

\* Mutant: the end of the hold is compared the wrong way round.
ReadRewardInverted(w) ==
  /\ pc[w] = "revoke"
  /\ Goto(w, IF reward[job[w].tx] = "hold_over" THEN "take_back" ELSE "done")
  /\ UNCHANGED <<provider, invoice, tx, event, reward, batch, job, history, bounds>>

\* revoke_referral_reward_on_refund reads the reward of the payment: only one that is on hold,
\* and whose hold has not ended, is revoked.  Errors are swallowed.
ReadReward(w) ==
  /\ pc[w] = "revoke"
  /\ \/ /\ Goto(w, IF reward[job[w].tx] = "on_hold" THEN "take_back" ELSE "done")
        /\ UNCHANGED faults
     \/ Fault(w) /\ Goto(w, "done")
  /\ UNCHANGED <<provider, invoice, tx, event, reward, batch, job, history, crashes>>

\* Its update is conditional on the status, and on a hold that ends after the moment the reward
\* was read: a hold that has ended since is no obstacle while the reward is not released.
Revoke(w) ==
  /\ pc[w] = "take_back"
  /\ LET Effective ==
           reward' = [reward EXCEPT ![job[w].tx] =
                        IF @ \in {"on_hold", "hold_over"} THEN "revoked" ELSE @]
     IN  \/ Effective /\ UNCHANGED faults
         \/ Fault(w) /\ (Effective \/ UNCHANGED reward)
  /\ Goto(w, "done")
  /\ UNCHANGED <<provider, invoice, tx, event, batch, job, history, crashes>>

\* Writes the state of an event, whatever state the row is in now.
SetEvent(e, state, retries) ==
  event' = [event EXCEPT ![e] = [@ EXCEPT !.state = state, !.retries = retries]]

\* _mark_webhook_processed.
MarkProcessed(w) ==
  /\ pc[w] = "done"
  /\ LET e == job[w].event
         Effective == SetEvent(e, "processed", event[e].retries)
     IN  \/ Effective /\ DropJob(w, "idle") /\ UNCHANGED faults
         \/ Fault(w) /\ Goto(w, "fail") /\ UNCHANGED job /\ (Effective \/ UNCHANGED event)
  /\ UNCHANGED <<provider, invoice, tx, reward, batch, history, crashes>>

\* Mutant: an event fails without its retries being counted.
RecordFailureUncounted(w) ==
  /\ pc[w] = "fail"
  /\ SetEvent(job[w].event, "queued", job[w].retries)
  /\ DropJob(w, "idle")
  /\ UNCHANGED <<provider, invoice, tx, reward, batch, history, bounds>>

\* _record_webhook_failure: from the retries as they were claimed.  If it fails too, the lease
\* of the row has to expire.
RecordFailure(w) ==
  /\ pc[w] = "fail"
  /\ LET retries == job[w].retries + 1
         Effective == SetEvent(job[w].event, IF retries >= MaxRetries THEN "dead" ELSE "queued",
                               retries)
     IN  \/ Effective /\ UNCHANGED faults
         \/ Fault(w) /\ (Effective \/ UNCHANGED event)
  /\ DropJob(w, "idle")
  /\ UNCHANGED <<provider, invoice, tx, reward, batch, history, crashes>>

----------------------------------------------------------------------------
\* deferred_cancellation_janitor_loop.

Rows(ts) == {[NoJob EXCEPT !.tx = t, !.linked = tx[t].linked, !.version = tx[t].version,
                           !.token = tx[t].token] : t \in ts}

\* _run_stale_pending_attempts_tick: attempts under way for long.  A tick that finds no row
\* changes nothing, so either tick may be the next one that does.
StaleRead(j) ==
  /\ pc[j] = "idle"
  /\ \E old \in SUBSET {t \in Txs : tx[t].status \in Active} :
       old # {} /\ batch' = [batch EXCEPT ![j] = Rows(old)]
  /\ Goto(j, "stale")
  /\ UNCHANGED <<provider, invoice, tx, event, reward, job, history, bounds>>

\* resolve_checkout_attempt_status, for an attempt whose payment the provider has ended or received; an
\* attempt that ended did so in any of the three ways.
Reported(t) ==
  CASE invoice[t] = "paid" -> {"succeeded"}
    [] invoice[t] = "dead" -> {"cancelled", "failed", "expired"}
    [] OTHER -> {}

\* cancel_checkout_attempt of Razorpay, for an attempt still open there.
CancelAtProvider(t) == invoice[t] = "open" /\ invoice' = [invoice EXCEPT ![t] = "dead"]

\* The provider is asked; an attempt still open is cancelled there, if that call succeeds.  A
\* Plisio attempt, and one whose lookup fails, counts as expired.
Resolve(j) ==
  /\ pc[j] = "stale"
  /\ \E x \in batch[j] :
       LET t == x.tx
           razorpay == provider[t] = "razorpay"
           Target(status) == Take(j, x, [x EXCEPT !.status = status])
       IN  \/ ~razorpay /\ Target("expired") /\ UNCHANGED <<invoice, faults>>
           \/ /\ razorpay /\ \E status \in Reported(t) : Target(status)
              /\ UNCHANGED <<invoice, faults>>
           \/ /\ razorpay /\ invoice[t] = "open" /\ UNCHANGED faults
              /\ \/ Target("cancelled") /\ CancelAtProvider(t)
                 \/ Target("expired") /\ UNCHANGED invoice
           \/ razorpay /\ Fault(j) /\ Target("expired") /\ UNCHANGED invoice
  /\ Goto(j, "settle")
  /\ UNCHANGED <<provider, tx, event, reward, history, crashes>>

\* The tick at `label' takes its next row, if there is one.
NextOf(j, label) == DropJob(j, IF batch[j] = {} THEN "idle" ELSE label)
EndTick(j) == DropJob(j, "idle") /\ batch' = [batch EXCEPT ![j] = {}]

\* The attempt is settled if it is still under way; an error ends the tick.
Settle(j) ==
  /\ pc[j] = "settle"
  /\ LET t == job[j].tx
         Effective ==
           /\ SetStatus(t, Active, job[j].status)
           /\ resolved' = IF tx[t].status \in Active /\ job[j].status = "succeeded"
                          THEN resolved \cup {t} ELSE resolved
     IN  \/ Effective /\ NextOf(j, "stale") /\ UNCHANGED <<batch, faults>>
         \/ Fault(j) /\ EndTick(j) /\ (Effective \/ UNCHANGED <<tx, resolved>>)
  /\ UNCHANGED <<provider, invoice, event, reward, granted, crashes>>

\* _run_subscription_activation_retry_tick.
RetryRead(j) ==
  /\ pc[j] = "idle"
  /\ LET flagged == {t \in Txs : tx[t].status = "succeeded" /\ tx[t].retry}
     IN  flagged # {} /\ batch' = [batch EXCEPT ![j] = Rows(flagged)]
  /\ Goto(j, "retry")
  /\ UNCHANGED <<provider, invoice, tx, event, reward, job, history, bounds>>

\* A row is claimed if nobody has written it since it was read; an error ends the tick.
RetryClaim(j) ==
  /\ pc[j] = "retry"
  /\ \E x \in batch[j] :
       LET row == tx[x.tx]
           claimable == row.status = "succeeded" /\ row.retry /\ row.version = x.version
       IN  \/ /\ claimable /\ SetMetadata(x.tx, TRUE, j)
              /\ Take(j, x, x) /\ Goto(j, Activation(x)) /\ UNCHANGED faults
           \/ /\ ~claimable /\ batch' = [batch EXCEPT ![j] = @ \ {x}]
              /\ Goto(j, IF batch[j] = {x} THEN "idle" ELSE "retry")
              /\ UNCHANGED <<tx, job, faults>>
           \/ /\ Fault(j) /\ EndTick(j)
              /\ (claimable /\ SetMetadata(x.tx, TRUE, j)) \/ UNCHANGED tx
  /\ UNCHANGED <<provider, invoice, event, reward, history, crashes>>

\* The outcome is written if the row still carries the token.
Owns(j) == tx[job[j].tx].status = "succeeded" /\ tx[job[j].tx].token = j

Complete(j) ==
  /\ pc[j] = "complete"
  /\ LET Effective == IF Owns(j) THEN SetMetadata(job[j].tx, FALSE, None) ELSE UNCHANGED tx
     IN  \/ Effective /\ NextOf(j, "retry") /\ UNCHANGED faults
         \/ Fault(j) /\ Goto(j, "give_up") /\ UNCHANGED job /\ (Effective \/ UNCHANGED tx)
  /\ UNCHANGED <<provider, invoice, event, reward, batch, history, crashes>>

\* An error here ends the tick.
GiveUp(j) ==
  /\ pc[j] = "give_up"
  /\ LET Effective == IF Owns(j) THEN SetMetadata(job[j].tx, TRUE, None) ELSE UNCHANGED tx
     IN  \/ Effective /\ NextOf(j, "retry") /\ UNCHANGED <<batch, faults>>
         \/ Fault(j) /\ EndTick(j) /\ (Effective \/ UNCHANGED tx)
  /\ UNCHANGED <<provider, invoice, event, reward, history, crashes>>

----------------------------------------------------------------------------
\* Everything else.

\* create_checkout: attempts under way are superseded, but for recent ones of Plisio when the
\* new one is of Plisio too, and the row is inserted.
OpenAttempt(t) ==
  /\ tx[t].status = "absent"
  /\ LET others == {u \in Txs : tx[u].status \in Active}
     IN \E kept \in SUBSET {u \in others : provider[u] = "plisio" /\ provider[t] = "plisio"} :
          tx' = [u \in Txs |-> IF u = t THEN [tx[u] EXCEPT !.status = "pending"]
                               ELSE IF u \in others \ kept
                                    THEN [tx[u] EXCEPT !.status = "cancelled"]
                               ELSE tx[u]]
  /\ UNCHANGED <<provider, invoice, event, reward, memory, history, bounds>>

\* _run_plisio_renewal_invoice_janitor_tick: an active subscription is sent the invoice of its
\* next cycle.  Nothing is superseded, and the lock it takes keeps a second tick from issuing
\* the same one.
IssueRenewal(t) ==
  /\ tx[t].status = "absent" /\ tx[t].linked /\ tx[t].active
  /\ tx' = [tx EXCEPT ![t].status = "pending"]
  /\ UNCHANGED <<provider, invoice, event, reward, memory, history, bounds>>

\* cancel_checkout_attempt; the provider cancels on its side, or not, by InvoiceMoves.
CancelAttempt(t) ==
  /\ tx[t].status \in Active
  /\ SetStatus(t, Active, "cancelled")
  /\ UNCHANGED <<provider, invoice, event, reward, memory, history, bounds>>

\* At the provider: the user pays, or pays too little, or the attempt ends.  Plisio may report
\* a payment for an invoice that had ended.
InvoiceMoves(t) ==
  /\ \E to \in {"paid", "short", "dead"} :
       /\ to = "short" => provider[t] = "plisio"
       /\ invoice[t] = "open" \/ (invoice[t] = "dead" /\ provider[t] = "plisio" /\ to # "dead")
       /\ invoice' = [invoice EXCEPT ![t] = to]
  /\ UNCHANGED <<provider, tx, event, reward, memory, history, bounds>>

\* What the provider may report of an invoice.
Reports(t) ==
  {type \in TypesOf(provider[t]) :
     /\ type \in {"activated", "charged", "completed"} => invoice[t] = "paid"
     /\ type \in {"underpaid", "wrong_currency"} => invoice[t] = "short"
     /\ type = "refunded" => invoice[t] \in {"paid", "short"}
     /\ type \in {"cancelled", "halted"} => invoice[t] \in {"paid", "dead"}
     /\ type = "expired" => invoice[t] = "dead"}

\* handle_webhook: the event is queued.  A delivery that is repeated finds the row there, and
\* changes nothing.
Receive(e) ==
  /\ event[e].state = "absent"
  /\ \E t \in Txs : \E type \in Reports(t) :
       event' = [event EXCEPT ![e] = [NoRow EXCEPT !.tx = t, !.type = type, !.state = "queued"]]
  /\ UNCHANGED <<provider, invoice, tx, reward, memory, history, bounds>>

\* hold_expires_at passes: the row is on hold as before, but its hold has ended.
HoldEnds(t) ==
  /\ reward[t] = "on_hold"
  /\ reward' = [reward EXCEPT ![t] = "hold_over"]
  /\ UNCHANGED <<provider, invoice, tx, event, memory, history, bounds>>

\* transition_rewards_on_hold_to_available: some time later the reward is released.
Release(t) ==
  /\ reward[t] = "hold_over"
  /\ reward' = [reward EXCEPT ![t] = "available"]
  /\ UNCHANGED <<provider, invoice, tx, event, memory, history, bounds>>

\* A process is killed and started again.
Crash(p) ==
  /\ crashes < MaxCrashes /\ crashes' = crashes + 1
  /\ pc[p] # "idle" \/ batch[p] # {}
  /\ DropJob(p, "idle") /\ batch' = [batch EXCEPT ![p] = {}]
  /\ UNCHANGED <<provider, invoice, tx, event, reward, history, faults>>

Activate(p) == Renew(p) \/ Create(p) \/ Link(p)

WorkerStep(w) ==
  \/ Claim(w) \/ Lookup(w) \/ Update(w) \/ Refetch(w) \/ CheckActive(w) \/ Activate(w)
  \/ Flag(w) \/ Evaluate(w) \/ ReadReward(w) \/ Revoke(w) \/ MarkProcessed(w)
  \/ RecordFailure(w)

JanitorStep(j) ==
  \/ StaleRead(j) \/ Resolve(j) \/ Settle(j)
  \/ RetryRead(j) \/ RetryClaim(j) \/ Activate(j) \/ Complete(j) \/ GiveUp(j)

Next ==
  \/ \E w \in Workers : WorkerStep(w)
  \/ \E j \in Janitors : JanitorStep(j)
  \/ \E t \in Txs :
       \/ OpenAttempt(t) \/ IssueRenewal(t) \/ CancelAttempt(t) \/ InvoiceMoves(t)
       \/ HoldEnds(t) \/ Release(t)
  \/ \E e \in Events : Receive(e)
  \/ \E p \in Processes : Crash(p)

Spec == Init /\ [][Next]_vars

\* Workers and janitors keep running.
Fairness ==
  /\ \A w \in Workers : WF_vars(WorkerStep(w))
  /\ \A j \in Janitors : WF_vars(JanitorStep(j))
FairSpec == Spec /\ Fairness

----------------------------------------------------------------------------
\* Properties.

WorkerLabels == {"idle", "update", "refetch", "activate", "renew", "create", "link", "flag",
                 "evaluate", "revoke", "take_back", "done", "fail"}
JanitorLabels == {"idle", "stale", "settle", "retry", "renew", "create", "link", "complete",
                  "give_up"}
Statuses == Active \cup Final \cup {"absent"}
Tokens == Janitors \cup {None}
Types == TypesOf("razorpay") \cup TypesOf("plisio")
TxRow == [status : Statuses, linked : BOOLEAN, active : BOOLEAN, retry : BOOLEAN,
          token : Tokens, version : Nat]
EventRow == [tx : Txs \cup {None}, type : Types, retries : Nat,
             state : {"absent", "queued", "claimed", "processed", "dead"}]
Job == [event : Events \cup {None}, retries : Nat, tx : Txs \cup {None}, status : Statuses,
        linked : BOOLEAN, token : Tokens, version : Nat]

Rewards == {"none", "on_hold", "hold_over", "available", "revoked"}

TablesOK ==
  /\ provider \in [Txs -> {"razorpay", "plisio"}]
  /\ invoice \in [Txs -> {"open", "paid", "short", "dead"}]
  /\ tx \in [Txs -> TxRow]
  /\ event \in [Events -> EventRow]
  /\ reward \in [Txs -> Rewards]
  /\ granted \subseteq Txs /\ resolved \subseteq Txs
  /\ crashes \in Nat /\ faults \in Nat

\* An event that was received has a transaction, and a type its provider sends.
Received(e) == event[e].state # "absent"
EventsOK == \A e \in Events :
  Received(e) => event[e].tx \in Txs /\ event[e].type \in TypesOf(provider[event[e].tx])

MemoryOK ==
  /\ pc \in [Processes -> WorkerLabels \cup JanitorLabels]
  /\ batch \in [Processes -> SUBSET Job]
  /\ job \in [Processes -> Job]

\* The rows a worker holds are of events that were received, those of a janitor of transactions.
Queued(x) == x.event \in Events /\ Received(x.event) /\ x.tx = event[x.event].tx
WorkersOK == \A w \in Workers :
  /\ pc[w] \in WorkerLabels
  /\ \A x \in batch[w] : Queued(x)
  /\ pc[w] # "idle" => Queued(job[w])
  /\ pc[w] = "update" => event[job[w].event].type # "unmapped"
JanitorsOK == \A j \in Janitors :
  /\ pc[j] \in JanitorLabels
  /\ \A x \in batch[j] : x.tx \in Txs
  /\ pc[j] \notin {"idle", "stale", "retry"} => job[j].tx \in Txs

\* The tables and the memory of every process keep their shape: an event that was received has
\* a transaction and a type its provider sends, and a process at work has a transaction.
TypeOK == TablesOK /\ EventsOK /\ MemoryOK /\ WorkersOK /\ JanitorsOK

\* No subscription is created or renewed for a payment that was not made in full, by whatever
\* path, however late and by however many processes (webhook_handler.py, the guards before
\* create_subscription and renew_subscription; tasks.py, the activation retries).
PaidForGrant == \A t \in granted : invoice[t] = "paid"

\* A transaction whose status is final keeps it, whoever worked from an older copy of it, but
\* for a refund, a late payment of an expired Plisio invoice and the charges of a Razorpay
\* subscription (webhook_handler.py, the conditions of the status update).
FinalStatusHolds ==
  [][\A t \in Txs : tx[t].status \in Final /\ tx'[t].status # tx[t].status =>
       \/ tx'[t].status = "refunded"
       \/ tx'[t].status = "succeeded" /\ provider[t] = "razorpay"
       \/ tx'[t].status = "succeeded" /\ tx[t].status = "expired"]_vars

\* Every event that is received is processed or given up, whatever fails and whoever is killed,
\* also when its transaction never appears (webhook_handler.py, retries and dead letters).
EveryEventSettles ==
  \A e \in Events : event[e].state \in {"queued", "claimed"} ~> event[e].state \in {"processed", "dead"}

\* A transaction that a webhook made succeeded, and whose invoice is paid in full, gets its
\* subscription, by the worker or by the retries of the janitor (webhook_handler.py, the
\* activation and activation_retry_required; tasks.py, the retry tick).
SucceededIsServed ==
  \A t \in Txs :
    (tx[t].status = "succeeded" /\ invoice[t] = "paid" /\ t \notin resolved)
      ~> (t \in granted \/ (tx[t].linked /\ tx[t].active) \/ tx[t].status # "succeeded")

\* With one worker, a payment that was refunded has no reward whose hold is still running once the
\* worker is done with it, whether the refund came before the reward, while it was on hold, or
\* between the read of the reward and its revocation (webhook_handler.py, the order of evaluation
\* and revocation; reward_revocation.py, the update conditional on the hold).  A reward whose
\* hold had ended by the refund is kept, on hold in the table or released.
RefundEndsTheHold ==
  \A t \in Txs :
    tx[t].status = "refunded" /\ (\A w \in Workers : job[w].tx # t) => reward[t] # "on_hold"
=============================================================================
