# TLA+ models of the AI trading backend

The repository is a trading backend of several Python services around one Postgres
database (reached as SQL and through the Supabase REST interface) and several Redis
databases. This directory holds TLA+ models of its stateful, concurrent parts, the TLC
configurations that check them on small instances, and proofs, checked by TLAPS, that some
of their properties hold for every number of processes, rows and events.

Paths below are relative to the repository. `PROJECT.json` maps each TLA+ definition to
the lines it stands for, lists the hazards line by line, and names for every property a
definition that breaks it: a comment `Mutant of ...` in a module marks such a deliberately
wrong variant of the definition that follows it. No behaviour of the models uses one.

    tlc -workers 2 -config MCPauseResume_one_worker.cfg MCPauseResume
    tlapm PauseResumeProofs.tla

## 1. Inventory

### Services and how they interact

    browser -- HTTP/SSE --> api-web --- Postgres / Supabase REST --- api-worker -- TCP -- MT5 (EA)
                             |  ^                                     |  ^
                     Razorpay,  webhooks                         Redis streams,
                     Plisio     (also n8n)                       pub/sub, locks
    news_analyzer -- HTTP --> scrapling-api          backtest_engine (offline, same database)

| Component | State | Operations | What is hard | What makes it correct |
|---|---|---|---|---|
| Referral pause/resume worker (`api-worker/app/referrals/pause_resume.py`) | rewards, pause cycles, subscriptions; the provider's paused subscriptions | seed, promote, defer, stack, pause, resume, apply | killed on a time-out, overlap, rows fetched earlier, lost answers of the provider | a reward buys its months once, an open window is paused, every window ends |
| Worker scheduler (`api-worker/scripts/worker/`) | cycle lock in Redis, failure counts | take, renew and release the lock; start and kill workers | leases that are lost, outages, kills | one cycle at a time, every candle served in the end |
| Indicator calculation (`api-worker/scripts/calculate_recent_indicators_v2.py`) | watermarks, rows of indicators | candidates, overlap, latest and forming candle, pair lock | forming candles, late M1 bars, overtaken runs | a row below the watermark knows its whole candle and its whole history |
| Payment webhooks (`api-web/app/payments/webhook_handler.py`) | transactions, events, audit log | queue, claim, correlate, update, activate, evaluate, revoke, retry, dead letter | at-least-once delivery in any order, leases that run out, crashes | only full payments activate, final statuses hold, every event settles |
| Payment janitors (`api-web/app/payments/tasks.py`) | the same, Redis leases | settle stale attempts, retry activations, renewal invoices, deferred cancellation | act on what was read before a provider call | every paid transaction is served |
| Checkout routes (`payments/routes.py`) | the same | checkout, cancel, resume | race with the webhook of the attempt they cancel | |
| Reward evaluation, revocation, transitions (`api-web/app/referrals/`) | rewards | put on hold, release, revoke, activate | refunds race with evaluation and release | a refund while the hold runs takes the reward back |
| Session store and authentication routes (`api-web/app/authn/`) | Redis session keys, per-user set and index, cached permissions and profile | log in, use, list, rename, revoke, log out, update, prune | read-modify-write over several commands | a deleted session stays deleted, a subscription's end is noticed in time |
| Server-sent events (`api-web/app/sse.py`) | queues, replay buffer, ids, count of connections | admit, subscribe, replay, fan out, drop | order of subscription, replay and live messages; full queues | no gap, nothing counted for ever |
| Cached read routes (`api-web/app/singleflight.py`, `cache.py`, `routes/`) | keys in Redis, events of waiting requests | coalesce, cache, clear on a webhook | reads before a clearing that are cached after it | answers are not older than their life, nobody waits for ever |
| MT5 ingest (`api-worker/app/mt5_ingest.py`) | sessions of bridges, history jobs, candles, forming candles in Redis | connect, bootstrap, subscribe, hot add, manual requests, updates of forming candles | flow control, refusals, broken connections, restarts, threads | no hole in the history, no session that hangs, no minute counted twice |
| Historical route (`api-web/app/routes/historical.py`) | refresh locks in Redis | query, probe, refresh under a lock, poll, put the forming candle in front | a lock that runs out, bars written between the reads | a window is refreshed by one request, an answer is in order |
| MT5 executor (`api-worker/app/mt5_executor.py`) | strategies, signals, live trades, deals seen | trade events, strategy pushes, position sync | a task per event, no order; repetition; restarts | tables agree, a close is kept, deals counted once |
| Strategy janitor (`api-web/app/tasks/janitor.py`) | strategies | expire | races with trade events | |
| Backtest engine (`backtest_engine/`) | trades, an account | entries, management, exits, admission | order of rules and fills within a bar, accounting | the account holds every admitted trade once |
| News analyzer and scraping API (`news_analyzer/`, `scrapling-api/`) | rows and vectors of articles | walk, range, scrape, analyse, store, retry | partial failures, overlapping backfills | rows and vectors agree, no article lost from the counts |
| Leases, rate limiters, alerts, other read routes, migrations, mailers | little or none | | | |

`PROJECT.json` lists all of them with what is modelled of each and, for those that are
not modelled, why.

### Modules

| Module | Stands for |
|---|---|
| `PauseResume` | the pause/resume worker, its database, the provider, kills |
| `FreeMonths` | what the referral programme promises: the abstract specification of `PauseResume` |
| `Payments` | webhook workers, payment janitors, checkout and cancellation routes, renewal invoices, reward evaluation, revocation and release, the providers |
| `TradeEvents` | the executor's handling of trade events, the strategy janitor, the expert advisor (EA) |
| `Sessions` | session store, the routes that use it, permission and profile caches |
| `Streams` | server-sent events: reader, replay buffer and store, queues, clients |
| `WebCaches` | `singleflight_cache`, the cached routes, the clearing webhooks |
| `HistoryBootstrap` | the ingest server, its bridges, candles as far as their presence goes |
| `Charts` | EXTENDS `HistoryBootstrap`: the candle that forms, the historical route and its refresh lock |
| `Indicators` | the indicator updater on the bars of a market |
| `Scheduler` | EXTENDS `Indicators`: the scheduler drives the updater; lock, renewal, kills, outages |
| `TradeReplay` | replay of strategies tick by tick with every management rule |
| `Portfolio` | EXTENDS `TradeReplay`: the account that walks the replayed trades |
| `News` | backfills, scraping, the AI service, rows and vectors |
| `MC*` | constants and symmetry for TLC, with one `.cfg` per run |
| `MT5Proofs` | theorems about `TradeEvents`, and about `HistoryBootstrap` with `Charts` |
| `ContentProofs` | theorems about `News` and about `WebCaches` |
| other `*Proofs` | theorems and their proofs, one module per module proved about |

`Scheduler` composes with `Indicators` and `Portfolio` with `TradeReplay` in one state
space each. The other systems meet only in tables: subscriptions (`PauseResume` reads their dates,
`Payments` creates them), rewards (`Payments` puts them on hold and releases them,
`PauseResume` consumes them) and published messages (`WebCaches` sends what `Streams`
delivers). Each module has the other's part as an action of its environment: `Claim`
and `Charge` in `PauseResume`, `HoldEnds` and `Release` in `Payments`, `Publish` in `Streams`; the
scheduler's module has the pause/resume worker as a step of its cycle.

### Runs

All twelve runs pass. "States" are distinct states.

| Run | Properties | States |
|---|---|---|
| `pause_one_worker` | `WindowHoldsEveryMonth`, `OpenWindowIsPaused`, `MonthGrantedOnce`, `EveryWindowEnds`, `KeepsPromise` | 417 000 |
| `pause_overlap` | `CycleOwnsReward`, `ResumedIsFinal` | 10.7 million, a quarter with symmetry |
| `payments_settles` | `FinalStatusHolds`, `EveryEventSettles` | 406 000 |
| `payments_served` | `PaidForGrant`, `RefundEndsTheHold`, `SucceededIsServed` | 1.0 million |
| `trades_any_order` | `TablesAgree`, `DealCountedOnce`, `ClosureKept` | 3.7 million, half with symmetry |
| `sessions_overlap` | `CapKept`, `ServedRecently`, `GoneForGood` | 5.2 million, a sixth with symmetry |
| `streams_replay` | `NoGap`, `CountMatches` | 1.8 million |
| `history_loads` | `HoleExplained`, `Mended`, `NobodyWaits`, `ChartsAreTrue`, `RefreshedAlone` | 3.2 million |
| `caches_fresh` | `FreshEnough`, `ClearedIsGone`, `Woken` | 3.7 million |
| `news_backfills` | `DuplicateExplained`, `VectorsMatch`, `RangeAccounted`, `RunEnds` | 265 000 |
| `backtest` | `UnmanagedIsTheoretical`, `BalanceAccounts`, `StopOnlyTightens` | 1,039,684 |
| `scheduler_updates` | `ClosedBelowWatermark`, `HistoryReachesBack`, `OneAtATime`, `RowsKeepBars`, `EveryCandleIsServed` | 224 000 |

Several modules have a constant `Cases`: a set of small combinations of actors, faults and bounds, one
of which is chosen in `Init`. A run explores each of them, so that it can mix many actors
pairwise without their product.

Deadlock is checked in `backtest`, whose end is an explicit step, and in `scheduler_updates`,
whose schedulers never stop; the others end in states where a bound (time, crashes, events) is used up and all
processes are idle.

## 2. PauseResume and FreeMonths

State: `reward`, `cycle`, `billing` are the columns the worker uses of the three tables;
`paused` and `keys` are the provider's (paused subscriptions, idempotency keys it has
honoured). `pc`, `batch`, `row`, `since`, `window` are a run's memory. `granted` and
`stacked` are history. Each database or provider call of `run_referral_pause_resume_cycle`
is one action, so that runs interleave and are killed between any two calls; the compare-
and-set updates are `Patch`. `Fault` lets a call fail, before or after the provider applied
it. A tick of `now` stands for a day or so: `Period`, `DeferLead` and `DeferDelay` are
small numbers in the order of the real ones (a month, 48 hours, 5 minutes).

Left out: rows whose dates cannot be parsed and the error rows written for them; the batch
limit of 100 rows; the lead of 120 seconds of `pause_at`. Rows of a batch are taken in any
order. The load of the dates and their patch are one action (`RefreshDates`). A reward
consumed by an extension stays `claimed`, as in the code.

`pause_one_worker`: two rewards on one subscription (the smallest instance with stacking), one
kill, one fault, time 0..6: a window of two periods opens, is extended and ends within the
bound. Windows hold every stacked month, an open window is paused at the provider, every
window ends, a reward is granted at most once more than workers were killed
(`MonthGrantedOnce`), and as long as nothing was killed the worker implements `FreeMonths`
(`KeepsPromise`). `pause_overlap`: two workers without faults; what holds whatever overlaps. The
window properties do not hold with two workers, see section 12.

Fairness: the scheduler's main loop starts the worker again and again, and a run makes its next
call or is killed (`WF` of `RunStep` per worker); the clock and the provider's billing go
on by themselves. Crashes and faults have no fairness and are bounded.

Refinement: a window of `FreeMonths` is a cycle in a resume state with its start and the number of
rewards stacked on it; a reward counts as spent from the moment the window it extends is written.

Proved (`PauseResumeProofs`), for any number of workers, rewards and subscriptions and any
crashes: `Typing`, `RewardIsOwned` (`CycleOwnsReward`) and
`ResumedCycleIsFinal` (`ResumedIsFinal`). The inductive invariant is `Ownership`. `CycleOwnsReward` alone is not
inductive, since a worker inserts rows for rewards it read earlier (`SeedsAreClaimed`),
releases a reward on the strength of its own earlier update (`AppliesOnlyResumed`) and
compares with the status it fetched (`BatchKind`).

Proved for one worker (`OneWorker`, the hypothesis of these theorems; with two the properties fail), any
number of rewards and subscriptions, any failures and kills: `MonthsAddUp`
(`WindowHoldsEveryMonth`), `OpenMeansPaused` (`OpenWindowIsPaused`), `GrantedOnce`
(`MonthGrantedOnce`) and `KeepsThePromise` (`KeepsPromise`): every step opens a window of `FreeMonths`,
extends one, closes one after its end, or changes nothing that was promised. The inductive invariant is
`MonthInv`. Its parts say what the rows in a run's memory still have in common with the table
(`RowsKept`, `DatesKept`), how long a window is in every state of a cycle (`WindowsKept`), that a reward which is
still owed was granted only by runs that were killed (`GrantsKept`), and which idempotency
keys the provider has honoured (`KeysKept`): an open window is paused because the key of its pause is there
and that of its end is not, also after answers were lost.

## 3. Payments

State: `tx` is `payment_transactions` with the subscription a row names (`linked`,
`active`), the retry flag, its claim token and a version for the metadata that is written
whole; `event` is `webhook_events`; `reward` the reward a payment triggers; `provider`
and `invoice` what the provider knows. `pc`, `batch` and `job` are the memory of each
process, with the row as it was read. `process_claimed_webhook_event` is `Lookup`, `Update`,
`Refetch`, `CheckActive`, `Renew` or `Create` then `Link`, `Flag`, `Evaluate`, `ReadReward`, `Revoke`,
`MarkProcessed`, or `RecordFailure`: one database call each. The hold of a reward ends by the clock
(`HoldEnds`), and the reward is released some time later (`Release`): between the two the row is
still `on_hold`, which the model calls `hold_over`. The janitor's two ticks are
`StaleRead`, `Resolve`, `Settle` and `RetryRead`, `RetryClaim`, the activation, `Complete`
or `GiveUp`; `IssueRenewal` is the tick that creates a Plisio invoice for a subscription
that is about to end.

Abstractions: claimed rows may be claimed again at any time (a lease may have run out),
attempts may be old enough at any time, back-off is not counted; ticks that find no rows
do nothing and are omitted; the audit insert is merged with the second read, and the update
of session permissions with the update before it; `Evaluate` either creates the reward
or not, whatever the eligibility rules say; a subscription may be created twice for one
transaction if the database function does not recognise it, so `granted` is a set.

Left out: missing plan ids and unreadable data, a lost answer to a claim, the reuse of an
attempt by the same checkout, cancelling and resuming a subscription with its deferred tick
(section 12).

`RefundEndsTheHold` is about rewards whose hold still runs. One whose hold has ended when the refund is
handled is kept, also while the row still says `on_hold` because the release is late
(`reward_revocation.py:131`; `tests/referrals/test_refund_revocation.py:164` expects it). A hold that ends
between the read and the update does not matter: the update compares with the moment of the read.

`payments_settles`: two workers on one event are a lease that ran out; one kill and one failing call
at any place. `payments_served`: a worker and the janitor, two events of one transaction, which are
enough for every pairwise order (refund before success, cancellation after charge, expiry before late
payment), two failing calls of an activation, which exhaust the janitor's retries so that `GiveUp`
happens.

Fairness: `webhook_events_worker_loop` and the janitor loop run for ever and catch every
exception, so each process takes its next step (`WF` of `WorkerStep` and `JanitorStep`). The
user, the provider and deliveries have none: an event may never come.

Proved (`PaymentsProofs`): `Typing`; `OnlyPaidIsGranted` (`PaidForGrant`), by the inductive
invariant `PaidInv`; `FinalStatusKept` (`FinalStatusHolds`). `PaidForGrant` is not
inductive: whether a payment was made in full is decided in `Update`, or earlier, by an event that
may be handled again, and used several calls later or by a janitor that sees only the retry
flag; `PaidInv` says that a flag, a worker on its way to the activation, and an event of
a succeeded payment each belong to a paid invoice. `FinalStatusKept` needs no more than types:
every update is conditional on the status in the database, and the proof goes through all
writers. `RefundsRevoke` (`RefundEndsTheHold`), under its hypotheses: one worker, no kill, and
no failure of the status update, the read that follows it and the two calls of the revocation; without any of them
a refund may be handled while the reward is not there yet, or not be followed up. Other calls may fail, and
janitors, events and transactions are any number. `RefundInv` says in whose
hands a refund is between its update and the revocation, and that a worker on its way to the evaluation still
finds the payment succeeded.

## 4. TradeEvents

State: the statuses of `strategies`, `signals` and `live_trade_state`; `counted`, how often each
deal is in the accumulated pnl; `processed`, the executor's set of deals; `pc` and `job`,
the asyncio tasks; `position` and `sent` at the EA, `arrived` on the connection.
`_handle_trade_event` is `Start` (deduplication, before the first await) and `Commit` (the
transaction, which holds the strategy's row lock from its first statement). `Receive` is
the session loop. `Disconnect` loses what is on the wire; `Restart` loses tasks and deals.
The EA is not in the repository: its events are those the executor's code distinguishes, in the
order of a position's life, and each may be repeated (`Resends`), which is what the
deduplication is for.

Left out: trades without a strategy, which lock no row, prices, excursions, flags and times, statuses
that are neither open nor closed on an event with a ticket, the forwarding of strategies to the
EA, and the reply to a position sync, which only reads.

`trades_any_order`: one trade, two tasks, three close reasons, repetition, two deals remembered
(`MaxDeals` stands for 10000, so that the third leg overflows the set), two losses of memory, one
failed transaction. Two tasks are enough for any pair of events to be handled in either order, and
events of different trades meet only in the set of deals. No liveness is claimed: an event whose
transaction fails, or that is lost with the connection, is not repeated by this code.

Proved (`MT5Proofs`): `TradesTyped`, `TablesAlwaysAgree`, `ClosureIsKept` and
`DealsCountedOnce`. The first three are inductive with the type invariant; the last needs
`CountInv`, which counts the tasks that have passed the deduplication and not yet
committed (the cardinality of a finite set; `Handlers` is assumed finite).

## 5. Sessions

State: `store` are the keys `session:<sid>` of one user, `members` and `index` the set and the
sorted set that name them, `perms` and `profile` the two caches; `subscription` is what the
database says of the user, `name` what Supabase does. `pc` and `task` are the asyncio tasks with what
each has read. Every call of Redis or Supabase is an action (a MULTI pipeline is one):
`Create`, `Expire`, `Count`, `Lowest`, `Evict`, `Evicted` are `create_session`; `Authenticate`, `Refresh`,
`Lookup`, `Persist` a request that uses a session; `Drop`, `Unlist`, `Erase` a deletion; `Unperms`
to `Rewrite` the invalidation webhook; `Members` to `Rewrite` what the activation of a payment does with
the sessions (`activate`); `Probe` to `TidyIndex` the janitor. The routes decide, by
`First` and what follows a step, which of them make up a request.

Any call may fail, where a mix says so. Where the code swallows the error the request goes on: `Count` and
`Lowest` skip the eviction (`session_store.py:187`, `:218`), `Members` and `Ranked` find nothing, `Persist`
keeps the old copy in Redis. Everywhere else the request ends at that call (`Abort`), as it does when the client
goes away or the process is killed.

An activation writes a plan and permissions that are constants of the code, `core` and
`active_subscriber` (`webhook_handler.py:638`, `tasks.py:723`), which no subscription gives; a payment may have
been made long before. The plan `core` stands for the pair.

Abstractions: of a subscription only whether it gives the plan is kept, of permissions the plan; a
profile is its name; a tick of the clock is as long as the throttle of refreshing and the
interval of resyncing, in which a request makes its lookup and the write that follows. Left out:
token and CSRF checks, device binding, the replay guard, the trial policy, rate limits.

`sessions_overlap`: two tasks, three session ids, a cap of one session, in fourteen mixes of requests and
times (login beside login, use beside each operation that writes or deletes sessions), six of them with
calls that fail. Two tasks are enough for every pairwise order of two requests' calls; three ids let a login
follow an eviction. There is no fairness: a request may be cut off at any step.

`CapKept` has two conditions. No login has ended without its eviction, by a swallowed error or cut short, since
the sessions were last counted (`uncapped`, history): the next login that counts evicts for such a one too,
which is what the property then says. And no request has written back a session that was deleted or taken off the
indexes since it was read (`revived`, history). Without that condition it is false, which the attempt to prove
it showed: such a session comes back between `Count` and `Lowest` of a login, is among those evicted in place of a
live one, and the user keeps one session too many.

`ServedRecently` says of a plan that it was right, or was written by an activation, at most `Sync` before it is
served: the constant plan is in use until the next sync of a session, and no longer. It is stated for requests
whose own lookup did not fail, which go on with what they have.

Proved (`SessionsProofs`), for any number of tasks, sessions and plans and any cap: `SessionsStayGone`
(`GoneForGood`). The inductive invariant is `HeldInv`: besides types, a task at a step that writes sessions
back holds a copy of each of them. It is needed because
what was read and what is written are up to four steps apart. `PlansAreRecent` (`ServedRecently`), by
`RecentInv`: every copy of a session, in Redis or in a task's hands, has a plan that was right, or was
written by an activation, no earlier than its last sync. `SessionsAreCapped` (`CapKept`), by `CapInv`: the index has every live session at the moment when it
ends (`Capped`), and as long as there are too many of them a login is about to count, has counted all of them, or
has those in hand that go (`Counting`), or a login skipped that (`uncapped`).

## 6. Streams

State: `wire` and `published` on the side of Redis; `id` and `lastId` for the ids, `buffer` and
`store` for the two places of replay, `reader`, `storing`; per client `subscribed`, `queue`, `stream`,
`pc`, `todo`, and on its side `seen` and `have`. What a coroutine does between two awaits is one
action: `Serve` walks a connection from admission (`ping`) over `connected`, `replay`, `fetch`, `sending`,
`snapshot` to `live`; `ReaderTakes` gives out ids and fans out; `Ask` and `Disconnect` are the
client's; `ReaderCrash`, `Restart` and `Health` the process's. `NoGap` excuses only what the code
gives up openly: a message dropped from a full queue or no longer in the buffer (`missed`), and
one the reader is writing at the moment. It speaks only of messages with an id above the one the client
names: the server numbers its own events from the same counter, and a message that such an event
overtook in the queue has a lower id than the client comes back with and is not replayed (section 12).

`CountMatches` says exactly how far the counter of connections is from the open connections: by the
number of clients that went away between the count and the first step of their generator
(`leaked`), which the code never counts down.

Left out: heartbeat contents, formatting, authentication, metrics. `streams_replay`: five cases with
one or two clients, up to three messages, queues of one and a buffer of two, so that both
overflow; a client comes back at most twice.

Proved (`StreamsProofs`): `ConnectionsCounted` (`CountMatches`) for every limit and number of
clients, with `CountInv`, which adds the range of the counters and of `pc`. `NoLaterIdIsSkipped`
(`NoGap`): the inductive invariant `GapInv` says that no id is given twice (`IdsDiffer`) and of
each client (`Listening`) that from its subscription on every message given a later id is in its queue,
received or dropped, and from the replay on every message after the id it named as well. The argument has
two halves that meet at `since`, the last id given out when the queue was made: what is newer goes through
the queue, what is older is on the list of the buffer (`ReplayListens`) or was pruned. The
store only adds to that list (`StoreListens`). `ByIdHasAll` shows that the sorted list loses
nothing, by the rank of each id; `ReplayedIsLive` that no endpoint replays a kind that it would
filter out of the queue.

## 7. WebCaches

State: a `version` of each area of the database, `cache` what Redis keeps under a key (version, expiry,
time of the read, and the life it was given), `leader` the in-process event of a key, and per request its
place, what it has in hand and what it was served; `hook` and `todo` the webhook under way, which clears
keys one by one (`Clear`). `Look`, `Join`, `Wake`, `Fetch`, `Store` and `Release` are the decorator;
`LookFails` is a failing Redis under its lookup. Which route reads which area, how long it is kept and
which webhooks clear it is a table of records, one per route (`Routes`). A strategy's life lies anywhere between
its two bounds; a signal's is whatever its `expiry_minutes` say, a set `SignalLives` of any numbers, of
which 0 stands for what SETEX refuses.

The handler of a news item has a cache of its own inside the route's: `LookInside` and `Keep` are its
steps, `Inside` names its key, which webhooks clear like the others. It keeps for a minute that there
is no such item (the versions in `absent`), and raises that, like a failure of Redis, so that the route
keeps nothing. No other route has a cache inside.

Abstractions: keys of one route with different arguments are one; a handler reads one version.
Failures of a handler, of reading and of writing Redis are choices of `LookFails`, `LookInside`, `Fetch`, `Keep` and
`Store`.

`FreshEnough` bounds the age of an answer by the life it was given and, as `HandlerLife`, by what its
handler may have kept it before; `MaxFetch` bounds the time between a read and its caching, and counts
once for each of the two. `ClearedIsGone` excuses (`late`) an answer that was in hand when its key was
cleared, and one that a handler finds under its own key while that is not cleared yet, or was
missed in the same way; a key inside that no webhook cleared would not be excused.

`caches_fresh`: three requests (leader, one that waits, one that comes later) on one or two routes, one
webhook, one change, up to six ticks of which an hour has four, so that a news item gets older than
its route alone would allow.

Proved (`ContentProofs`), for any routes asked for, lifetimes and numbers: `CachesTyped`; `NobodyWaitsForEver`
(`Woken`); `NothingOlderThanItsLife` (`FreshEnough`) by `AgeInv`, which bounds what requests have in
hand, what a handler and Redis keep and what was served, one by the other; `ClearedStaysGone` (`ClearedIsGone`)
by `ClearInv`: what is kept or in hand is as new as the last clearing of its key (`KeptSince`, `HeldSince`), and a key
inside is cleared as of the same call as that of its route (`CallsOrdered`).

## 8. HistoryBootstrap

State: `stored` M1 bars per symbol, `wrong` those that differ from the broker's; per session its
`stage`, jobs pending (`tries`), queued, in flight and in the hands of the `sender`; `seq` and `forced` the job
numbers and those that upsert by force; frames and requests at the bridge. `Setup` discovers ranges
and makes the jobs, `SenderTakes` and `SenderWrites` are the sending task, `ServeLive`, `ServeChunk`,
`ServeEnd`, `ServeFailed`, `ServeFull` and `ServeUnhandled` handle one frame each, `EndSession` the cleanup, `HotAdd` the symbol that a NOTIFY
adds, `RequestHistory` the control socket, `Restart` the process.

An operator may ask for any range (`from_ts < to_ts` is all that `mt5_ingest_server.py:104` checks), stored or not, and may choose the job
number. The code knows jobs by their numbers only (`Named`): a frame ends, requeues or drops the pending job of a session that
has its number, whichever request it answers, and the mark that forces an upsert is one for all requests with that number.
The field `nr` tells such requests apart for the properties; the actions do not look at it. `confused` collects
the sessions that took the answer to another request for one of their jobs. A session never has to ask for what an operator wants: it
is not among its pending jobs.

Abstractions: of four timeframes M1 and one other are kept, whose bars are not stored; each chunk of a job holds one
bar; an operator's `max_bars` that is smaller than the range is the request for the range that is answered; time is counted in closed M1 bars. `Setup` is the two reads of a connect, of the symbols
and of their newest bars, either of which may fail; it excuses the bars before the lookback of a symbol of which
nothing was seen, as no job asks for them (section 12). What a bridge does (accept, answer, refuse,
fail, send an error nobody handles, break) is `Answer`, `AnswerFailure` and `Cut`, modelled from what the server handles. Left out: metrics and the publication of candles.

`Charts` adds what a chart is shown. `LiveBar` is `ServeLive` with the task it starts; `UpdateReads` and
`UpdateWrites` are the two Redis calls of its thread on the key of the forming candle, `UpdateFails` its swallowed
error; `RestartIngest` kills the threads. `reader` holds requests of the historical route: `Query`, `Probe`, `Lock`, `Refresh`,
`Reread`, `Unlock`, `Poll`, `Latest` and `FormingRow` are its awaits in order, `LockExpires` the time to live of the lock.
A candle is the number of its `Size` minutes; `forming` keeps the minutes that were counted instead of prices,
as prices are their maximum, minimum and sum. One higher timeframe stands for all; the lifetimes of the keys of
forming candles, three times their length, are left out. `FormingCounts` excuses bars whose updates met, came
after a later one or failed: those the code does lose.

`history_loads`: thirteen cases. Five of one or two bridges and one or two symbols, with up to two refusals,
a failed write, an error nobody handles, cut connections, a hot-added symbol and a restart; three with requests of
operators, for a range that is stored and one that is newer, under a number of the server's or one that a job of the session has: one
request with failures, two around a cut and a restart, and one that two bridges answer. `MaxInflight` is two,
so that jobs wait for a slot. `NobodyWaits` is the safety form of progress: no session
is at rest without being subscribed, unless a job of it was dropped as late, met an error that nobody handles or was ended by the answer to
another request. Five more follow the forming candle:
with a restart and a failing Redis; of two bridges that send the same bar; under requests for the newest
candles and for a window below the watermark; without any bar; and with three requests for one window whose lock may
run out twice.

Proved (`MT5Proofs`), for any number of bridges, symbols, requests and threads, any bounds, and any refusals, failures,
broken connections and restarts, of the composed specification `ChartsSpec`:

- `NobodyHangs` (`NobodyWaits`), by `LoadInv` (`JobsAreKept`): besides types, jobs in use are among the numbers given and
  bars on their way have closed (`Numbered`, `Dated`); and of a session that is not confused, a pending job is in one place (`Placed`), the bridge still owes the end or
  the refusal of a job in flight (`Awaited`), and a queue that is not empty has a sender or something in flight
  whose end will kick it (`Driven`). `NobodyWaits` looks at a session at rest and says nothing of how it gets there.
- `RangesAreMended` (`Mended`), of repairs with a number of their own, by `MendInv`: before the end of a forced job is read, each wrong bar of its range has a
  chunk in front of the end and the mark is still set (`Mending`), unless a chunk was not written.
- `WindowsAreRefreshedAlone` (`RefreshedAlone`), by `RouteInv`: who refreshes has the lock, or had it until it ran out.
- `ChartsTellTheTruth` (`ChartsAreTrue`), by `RouteInv` and `FormInv`: a bar handed to a thread is counted whichever
  thread writes next, or its update is the only one of its candle and what it has read still holds (`Fate`). The
  plain property says only that an update exists, and not what it will write over.
- `NoHoleUnexplained` (`HoleExplained`), by `HoleInv`: history is complete below every stored bar (`Whole`), and would
  be, once they are read, below every frame on its way (`Framed`); a bridge sends live bars only of symbols that are
  complete up to the clock by the end of its frames (`Listening`); jobs begin where history is complete (`Starts`),
  and a symbol without a pending job is complete up to the connect (`Covers`). It is needed since bars of several
  bridges reach one table in the order in which their frames are read. The attempt to prove it
  showed two exceptions that the runs had not reached, which are now part of the property and
  of a case: a read of the newest bars that fails, and two bridges that load a symbol with nothing stored.
  Frames that answer an operator promise nothing; what they store above the newest bar is excused when it is stored (`Opened`).

## 9. Indicators and Scheduler

State (`Indicators`): the market (`clock`, `m1` bars stored, `due` those under way), `rows` as the set of
M1 bars a row was computed from and how far its history reached, `watermarks`, `holder` of each pair's
advisory lock, and per updater `up` its place and what it read. A run (`Begin`) takes a pair
at a time, reads the latest candle, waits for the lock, computes and commits. A row is computed from the newest
candles of the history that was fetched up to its time, whether or not its own candle is one of them, as
`_calculate_snapshot_at_time` does; that it always is one of them is part of what is proved. `Scheduler` adds
`lock` in Redis, `redisUp`, and per scheduler its place in the cycle, whether it holds a lock and
renews it, and its consecutive failures; a cycle is the updater, the transitions, the pause/resume
worker, the release.

Abstractions: indicators' values are not computed; pairs are independent except for the lock and are
taken in order; whether the pause/resume worker is due is open; time stops at the time-out of an updater until
it has ended, by itself or killed. Left out: the limits on pairs and
time of one run, the other sizes of a start-up run, alert thresholds, start-up checks.

`scheduler_updates`: two schedulers in strict mode, one pair, candles of two M1 bars, six bars, one of
them late or missing, one fault (a lost lock, a kill, an outage, a failing pair, a hanging updater).
One fault reaches every exceptional branch, and two would mostly make the second one's
effect on the first unobservable, since the next cycle repairs both alike.

Fairness: M1 bars come, every process goes on, a key nobody renews expires, Redis comes back. That is what
timers, supervision and time-outs of the code give. Under it every candle is served
(`EveryCandleIsServed`).

An assumption on the constants is `ForceAfter = 0 \/ Timeout < ForceAfter`: an updater is killed earlier than an
overlap is forced (`INDICATOR_UPDATER_TIMEOUT_SECONDS`, 4 minutes by default, 15 or 30 in
`docker-compose.yml:351`, and `force_overlap_recompute_minutes`, an hour). The settings are independent of each other, and the code
relies on them: the latest candle is read (line 905) before the lock is waited for (line 917). An updater that waits
until another one has moved the watermark beyond that candle finds nothing new; if it has waited as long as
`ForceAfter`, it forces an overlap up to the watermark, but reads its history only up to the older latest candle,
and replaces the row of the watermark by indicators of that older one. With the time-out lifted, and a run
that begins a tick earlier, TLC shows `RowsKeepBars` and `ClosedBelowWatermark` violated that way. In
`scheduler_updates` the two updaters do not get that far apart within the bounds; the theorems cover it.

Proved (`SchedulerProofs`), for any number of schedulers and pairs, any bars, late or missing, and any sizes
of batch, overlap (up to 30) and lookback: `OneCycleAtATime` (`OneAtATime`) by `LockInv`: who is in a cycle has the
key, as long as none went away under its holder. By one inductive invariant, `RowsInv`:

- `RowsAlwaysKeepBars` (`RowsKeepBars`), from `BarsInv`: what an updater has computed under the lock of a pair
  holds, for every row, at least the bars of the row in the table;
- `WatermarkCloses` (`ClosedBelowWatermark`), from `MarksInv`: the candidates an updater is about to commit
  follow the watermark, or each other, without a hole (`Follow`), and all but the last one are complete
  (`PlanIsSound`). It is needed since a watermark only says which candle was last;
- `HistoriesReachBack` (`HistoryReachesBack`): the history of a row reaches back far enough, is all there is, or is of
  complete candles and without a gap (`Reaches`). The plain property is not inductive, since late bars add
  candles.

`TransactionsOK` excludes the overlap described above: when the watermark is beyond an updater's latest candle,
whoever moved it began later, and hence within the time-out. That a window holds enough
candles is counted, with the lemmas `OldestOnes`, `NewestOnes` and `Between` on the oldest and newest of a set.

## 10. TradeReplay and Portfolio

State: `path`, the bars read so far, of each symbol (a bar is chosen when it is first read, so that
TLC explores every path); `current`, `m`, `tick` and `step` the place in the replay; `zone`, `touched`,
`blocked` of the entry; `trade` the position with stop, lot and what was done to it; `results`.
Entry conditions and confirmations are operators over the bars, one for each that the code
names. A bar of an open trade ends it at its stop or target (`ExitHit`), by a rule (`ExitEarly`), or is
managed (`Manage`): break even, trailing and average, partial close, in the code's order. The theoretical outcome of a strategy goes on beside the real
one. `Portfolio` adds the `undecided` candidates, the `ledger`, `balance`, `peak`, `open` positions and the `heap` of
their exits: candidates in the order of their entries (`First`), exits in that of their times (`NextExit`),
admission by conflicts, number, total risk and size.

Numbers: points, thousandths of lots and of money are integers, divisions round down; two of the
properties compare such sums, with the rounding in them. Left out: the spread model,
entry conditions that need an oscillator or the hour (`rsi_divergence`, `macd_cross`,
`indicator_cross`, `session_open_surge`), and `volume_spike`, which reads a column the loaded
candles lack; statistics of a result.

`backtest`: ten books of two strategies, four configurations, three warm-up bars and every path of five bars of
four shapes. The shapes cross every level of every book in both directions, so that stops,
targets and partial closes are hit in one bar as well as one after the other. The books cover each entry
condition and rule at least once.

Proved (`PortfolioProofs`), for any book, configuration, warm-up, shapes of bars, horizon and broker that
`ReplayAssumption` admits (levels and volumes are natural numbers, a timeframe is positive, a bar contains
its open and close):
- `StopsOnlyTighten` (`StopOnlyTightens`): each rule of the management that moves a stop improves it after
  `normalize_stop_level`, and to improve is transitive, also when the first stop is 0 (`Better`).
- `UnmanagedTradesAsInTheory` (`UnmanagedIsTheoretical`), by `ReplayInv`: the stop of an open trade is the first or
  improves on it, so that a bar that hits the first one hits it too, and the theoretical trade never ends
  before the real one does.
- `AccountAlwaysBalances` (`BalanceAccounts`), by `AccountInv`: each exit of the heap is that of one open position and of one
  decision of the ledger, each position has one, and the balance is the initial one and the sum of what is admitted and
  no longer open. Sums are recursive functions over sequences; that they change by what one element changes by
  (`TotalChanges`, `TotalGrows`) is proved from the well-ordering of the numbers.

## 11. News

State: `rows` of `email_news_analysis` in order of creation, `vectors`, and per process its backfill:
mode, article, counts, the deferred set. `Check`, `Prepare` (scrape, filter, analysis), `Rethink` (the second
pass), `Insert`, `Vector`, `Link`, `Report`, `Kill`. The scraping service and the AI service are
operators: `Escalate` over what the three tries of a scrape return, `AnalyzeWithRag` and
`Embedding` over the attempts of the retrying library; `Prepare` chooses among all their results.

Left out: prompts, parsing, language rules of the filters, the older synchronous scraping service.
`news_backfills`: a walk and a range, a site of two articles (a post and a story), one
fault or kill, two retries, two misses. Everything above the last article is alike, which lets the walk
go on for ever in the code and in a finite model (`Beyond`).

Fairness: a process that runs makes its next step. Every backfill then ends (`RunEnds`).

Proved (`ContentProofs`), for any articles, backfills, results of the services, failures and kills:
`VectorsAlwaysMatch` (`VectorsMatch`), by `VectorsInv`: a backfill between
`insert_vector_embedding` and `update_vector_store_id` has a row of its article and a vector of
that article in hand. It assumes that the rows of an earlier program name no vector (`StoredAssumption`).
`NothingStoredTwice` (`DuplicateExplained`), with the hypothesis that the property holds of the table as it was
found (`StoredExplained`), and `RangesAccounted` (`RangeAccounted`), both by `NewsInv`: the counts of a range
are apart from each other and from the numbers to come, what is deferred is counted as such, and an article on its
way to the table has, unless it was forced, no complete row that was written before it was looked for.

## 12. Where the code does less than it might be thought to

Met while modelling. The models take these steps as the code does; the properties above are stated so
that they hold with them, and none of what follows is asserted by a run.

Referrals and payments
- Extending a window checks the window's status and not whether the reward was counted
  (`pause_resume.py:739`): two overlapping workers stack one reward twice. With two workers
  `WindowHoldsEveryMonth` fails for the same reason, and a window extended after it was
  fetched as resumable is resumed early (`:609`).
- A deferred pause is judged by the stored renewal date, which no later run refreshes (`:939`): once it
  has passed, the pause is deferred for ever. 100 deferred rows fill a batch (`:541`).
- A worker killed between the update to `succeeded` and the activation leaves a payment that
  no replay serves (`webhook_handler.py:433`); a payment that the janitor finds paid is marked
  succeeded and not activated (`tasks.py:541`); a failing lookup expires an attempt (`:527`).
- A renewal paid while its subscription is active counts as done and renews nothing
  (`webhook_handler.py:548`).
- Resuming a subscription whose deferred cancellation the janitor has already carried out at the provider
  only reverts the local row (`routes.py:690`, `tasks.py:350`).
- The fencing token of a janitor's lease is compared by no write. The cycle in
  `api-web/app/referrals/pause_resume.py` is called by nothing; only its status update is.

Trading
- The guard against out-of-order updates covers the signal only: an open handled after its close
  reverts the strategy and creates an open live trade (`mt5_executor.py:425`, `:600`).
- A partial close is normalised to `open` (`:112`), so that its branches are dead. Trades without a
  strategy lock no row, and two events may insert two signals (`:451`). A deal is remembered
  before its transaction; when that fails, a repetition is skipped (`:414`).
- The subscription to strategy pushes ends for good when it fails once (`:240`); a session whose HELLO reply
  fails is never removed (`:324`).
- The strategy janitor turns `closed_tp` into `expired` (`db/strategies.py:32`).
- Bars older than the lookback are asked for by no job when nothing is seen of a symbol: when the read of the newest
  bars fails (`mt5_ingest.py:294`), what lies between the last stored bar and the lookback stays missing for good,
  since the next connect starts at the newest bar; the same when a later one of two bridges loads an empty symbol.
- A fetch by hand of bars newer than all that is stored leaves a hole for good: the next connect starts at the newest
  bar (`mt5_ingest.py:273`, `:877`).
- A job number that an operator chooses (`mt5_ingest.py:481`) may be that of another request: the first HIST_END takes the forced upsert from
  both (`:738`), and ends the bootstrap job of a session with that number, also one that was not sent yet (`:740`), whose bars nobody
  fetches until the next connect, or not even then; a job that is ended while the sender writes it stays in flight for
  ever and keeps its slot (`:1002`).
- A history job dropped as late never ends its bootstrap (`mt5_ingest.py:988`), nor does one that met an error that is not
  handled or cannot be read (`:812`, `:814`): it stays in flight, and its session does not subscribe. Forming candles in Redis are
  read, changed and written by threads, so that bars closed at the same time may be lost from
  them (`mt5_ingest.py:208`).
- The overlap's history window is counted in time: after a weekend it holds fewer candles than
  `lookback_bars`. M1 bars that come later than the overlap reaches are never counted in. When the
  time budget of a run ends, the same last pairs are left each time
  (`calculate_recent_indicators_v2.py:1373`).
- A scheduler that lost its lease kills the updater and goes on with the transitions and the
  pause/resume worker; the renewing thread ends at its first failure.

Web
- A deleted session is written back by a request that had read it (`session_store.py:345`); eviction
  takes the sessions that expire first, which are the new ones of 24 hours (`:171`), and is skipped when
  the index cannot be read (`:187`, `:218`).
- An activation gives every session the plan `core` with the permission `active_subscriber`
  (`webhook_handler.py:641`), which `_derive_plan_and_permissions_from_subscription` never gives, until
  the session's next sync.
- A webhook for strategies clears no key of a list of all strategies, and one without an id clears
  nothing (`cache.py:273`).
- A client that goes away before its generator starts is counted for ever (`sse.py:671`).
- `connected`, snapshots and heartbeats take ids from the counter of the messages (`sse.py:750`, `:794`, `:900`,
  `:1011`). A client whose last event was one of these comes back with an id above those of the messages that were
  still in its queue, and is never sent them.
- A news item may be served almost two hours after it changed: its handler keeps the row for an hour (`news.py:225`)
  inside an answer that is kept for an hour. A webhook that clears the answer before the row lets a request
  make the old answer again. A signal is kept as long as its `expiry_minutes` say (`strategies.py:34`).
- `/api/performance/{pair}` always ends with an error: its key builder wants a parameter `func` that the decorator
  does not pass (`trading.py:16`, `singleflight.py:26`).

News and backtest
- Articles are announced before the commit and found by nobody (`db_manager.py:293`). A quota hit by the final
  embedding arrives as an error of the retrying library and does not end the run
  (`main.py:583`, `:168`). The walk starts after the newest row by time: after a range of lower numbers
  it meets analysed articles, which count as misses, and may end before it reaches new ones
  (`main.py:129`). `--no-resume` ends at once. An outage of the scraping service is an
  invalid page and is not tried again.
- The theoretical outcome ends with the real trade (`state.py:501`); a trade open at the end of the data drops
  what its partial close earned (`state.py:690`); the average is taken one candle earlier
  than its name says (`iloc[-2]`); `_run_single_backtest` needs `strategy_ids`, which nothing passes
  (`cli.py:441`).

## 13. What is proved and what is only checked

TLAPS proves the theorems named in the sections above without bounds. Only model-checked are
the liveness properties `EveryWindowEnds`, `EveryEventSettles`, `SucceededIsServed`, `EveryCandleIsServed` and
`RunEnds`, and the cases outside a theorem's hypothesis, where it has one.

Some theorems have hypotheses of their own, which are part of their statements: `OneWorker` in `PauseResumeProofs`;
one worker without kills, with four calls that do not fail, in `RefundsRevoke`; `StoredExplained` in
`NothingStoredTwice`. The sections say why they are needed.

Liveness and `ENABLED` are out of reach of the installed provers. Besides these hypotheses the
proofs assume the named assumptions on constants of each module, nothing else; TLC evaluates them in every run.

## 14. Not modelled

- Cancelling and resuming a subscription (`routes.py:586-736`) and the deferred tick (`tasks.py:298-384`):
  they write columns that no modelled action reads; what can go wrong between them is in section 12.
- Leases of janitors: a `SET NX` with a token that is never checked by a write. The scheduler's lock, which
  is relied upon, is modelled.
- Rate limiters: one atomic counter with an expiry. Error mails, the staleness watchdog, the deletion
  mailer, the trading calendar: no state that others depend on.
- Trial policy and referral registration: calls of database functions that are not in the repository.
- Numerical indicators, read queries, report formatting, sweeps, migrations, deployment: computation or
  input and output without control of their own.
