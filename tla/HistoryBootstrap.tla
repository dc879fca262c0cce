--------------------------- MODULE HistoryBootstrap --------------------------
(***************************************************************************)
(* The MT5 ingest server, api-worker/app/mt5_ingest.py: a bridge (the      *)
(* expert advisor of a terminal) connects; the server asks it for the      *)
(* history of every known symbol, a few jobs at a time, and subscribes to  *)
(* live bars when all jobs are over.  Operators ask for more history over  *)
(* the control socket, and a NOTIFY of Postgres adds a symbol.             *)
(*                                                                         *)
(* Everything runs on one event loop.  Time is counted in closed M1 bars:  *)
(* bar b opens at minute b and is closed when clock > b.  Of the higher    *)
(* timeframes one stands for all three; its bars are not stored here.      *)
(* What the bridge does is modelled from what the server expects of it.    *)
(***************************************************************************)
EXTENDS Naturals, FiniteSets, Sequences, SequencesExt

CONSTANTS
  Sessions,       \* connections, in the order of their session ids
  Symbols,
  Fallback,       \* the symbol served when the database cannot be read
  FirstBars,      \* bars stored of each symbol when the model begins
  Start,          \* the clock then
  Lookback,       \* MT5_BOOTSTRAP_HISTORY_LOOKBACK_MINUTES
  Overlap,        \* MT5_BOOTSTRAP_OVERLAP_BARS
  MaxInflight,    \* MT5_BOOTSTRAP_MAX_INFLIGHT
  GiveUpAfter,    \* sends after which a late job may be dropped
  NoJob,
  Cases           \* bounds of the model: which sessions connect, how many minutes, cuts,
                  \* failures, refusals, hot-added symbols and manual requests there are, the
                  \* ranges operators want and the numbers they choose

\* A request for history: the number of the job, what is asked for, whether rows are to be replaced,
\* and whether an operator asks.  nr tells requests with the same number apart (history).
Job == [id : Nat, nr : Nat, sym : Symbols, tf : {"D1", "M1"}, from : Nat, to : Nat, upsert : BOOLEAN,
        manual : BOOLEAN]

ASSUME ConstantsAssumption ==
  /\ Sessions \subseteq Nat /\ IsFiniteSet(Sessions) /\ IsFiniteSet(Symbols)
  /\ Fallback \in Symbols
  /\ FirstBars \in [Symbols -> SUBSET (0..(Start - 1))]
  /\ Start \in Nat \ {0} /\ Lookback \in Nat \ {0} /\ Overlap \in Nat
  /\ MaxInflight \in Nat \ {0} /\ GiveUpAfter \in Nat \ {0}
  /\ NoJob \notin Job
  /\ \A k \in Cases : /\ k.sessions \subseteq Sessions /\ k.known \subseteq Symbols
                      /\ k.wants \subseteq [sym : Symbols, from : Nat, to : Nat] /\ k.ids \subseteq Nat

VARIABLES
  case,
  clock,
  known,          \* symbols the database has
  stored,         \* M1 bars in candlesticks, per symbol
  wrong,          \* those of them that differ from the broker's (only when the model begins)
  announced,      \* symbols of a NOTIFY that is not handled yet
  stage,          \* how far _handle_client is
  alive,          \* the bridge is still there
  sessions,       \* _sessions
  asked,          \* _bootstrap_symbols_by_sid
  subscribed,     \* _bootstrap_subscribed
  tries,          \* _bootstrap_job_specs: how often each pending job was sent
  queue,          \* _bootstrap_queue
  inflight,       \* _bootstrap_inflight
  sender,         \* the task that sends jobs: none, ready, looping or writing
  held,           \* the job it is writing
  seq,            \* _job_id_seq
  forced,         \* _force_upsert_jobs
  toServer,       \* frames on their way from each bridge
  requests,       \* history requests a bridge has accepted
  listens,        \* symbols a bridge sends live bars of
  connectedAt,    \* the clock when a session's jobs were made (history)
  given,          \* the numbers of the jobs since the process started, in their order (history)
  gaveUp,         \* sessions of which a job was dropped as late, or met an error that is not handled
                  \* (history)
  confused,       \* sessions that took the answer to another request for one of their jobs (history)
  excused,        \* bars that may be missing, per symbol (history)
  mended,         \* manual jobs with a number of their own that ended and whose chunks were all
                  \* written (history)
  spoilt,         \* manual jobs a chunk of which was not written (history)
  left            \* what is left of the bounds of the case

database == <<known, stored, wrong, announced>>
session == <<stage, alive, sessions, asked, subscribed>>
jobs == <<tries, queue, inflight, sender, held>>
numbers == <<seq, forced>>
bridge == <<toServer, requests, listens>>
history == <<connectedAt, given, gaveUp, confused, excused, mended, spoilt>>
vars == <<case, clock, database, session, jobs, numbers, bridge, history, left>>

\* pending is the domain of tries: the two are always changed together.
Pending(s) == DOMAIN tries[s]
NoJobs == [j \in {} |-> 0]
Without(f, j) == [k \in DOMAIN f \ {j} |-> f[k]]
Bars(j) == IF j.tf = "M1" THEN j.from..j.to ELSE {}
Greatest(S) == CHOOSE b \in S : \A c \in S : c <= b
Less(a, b) == IF a > b THEN a - b ELSE 0

\* The job of a session that a frame with this number concerns.
Named(s, id) == {j \in Pending(s) : j.id = id}

\* A number that more than one request has.
Shared(id) == \E i, k \in DOMAIN given : i # k /\ given[i] = id /\ given[k] = id

\* What is missing below the newest of some bars.
Holes(bars) == {b \in 0..(Start - 1) : b \notin bars /\ \E a \in bars : b < a}

Init ==
  /\ case \in Cases /\ left = case
  /\ clock = Start
  /\ known = case.known /\ announced = {}
  /\ stored = [y \in Symbols |-> IF y \in case.known THEN FirstBars[y] ELSE {}]
  /\ wrong \in {[y \in Symbols |-> {}], stored}
  /\ stage = [s \in Sessions |-> "new"] /\ alive = [s \in Sessions |-> FALSE]
  /\ sessions = {} /\ asked = [s \in Sessions |-> {}] /\ subscribed = {}
  /\ tries = [s \in Sessions |-> NoJobs] /\ queue = [s \in Sessions |-> <<>>]
  /\ inflight = [s \in Sessions |-> {}]
  /\ sender = [s \in Sessions |-> "none"] /\ held = [s \in Sessions |-> NoJob]
  /\ seq = 1 /\ forced = {}
  /\ toServer = [s \in Sessions |-> <<>>] /\ requests = [s \in Sessions |-> <<>>]
  /\ listens = [s \in Sessions |-> {}]
  /\ connectedAt = [s \in Sessions |-> 0] /\ given = <<>> /\ gaveUp = {} /\ confused = {}
  /\ excused = [y \in Symbols |-> Holes(stored[y])] /\ mended = {} /\ spoilt = {}

Spend(what) == left[what] > 0 /\ left' = [left EXCEPT ![what] = @ - 1]

----------------------------------------------------------------------------
\* Connecting

Connect(s) ==
  /\ s \in case.sessions /\ stage[s] = "new"
  /\ \A r \in case.sessions : r < s => stage[r] # "new"
  /\ stage' = [stage EXCEPT ![s] = "greeting"]
  /\ alive' = [alive EXCEPT ![s] = TRUE]
  /\ sessions' = sessions \cup {s}
  /\ UNCHANGED <<case, clock, database, asked, subscribed, jobs, numbers, bridge, history, left>>

\* A HELLO that cannot be written ends the handler without removing the session.
Hello(s) ==
  /\ stage[s] = "greeting"
  /\ \/ stage' = [stage EXCEPT ![s] = "setup"]
     \/ ~alive[s] /\ stage' = [stage EXCEPT ![s] = "leaked"]
  /\ UNCHANGED <<case, clock, database, alive, sessions, asked, subscribed, jobs, numbers,
                 bridge, history, left>>

\* Mutant: what is stored is complete up to now.
FromNow(y, latest) == IF latest = {} THEN Less(clock, Lookback) ELSE clock

\* Where a job begins: after what is stored, or at the bounded lookback.
From(y, latest) ==
  IF latest = {} THEN Less(clock, Lookback) ELSE Less(Greatest(latest), Overlap)

\* D1, W1 and MN1 before M1, each for every symbol; job ids from the shared sequence.  A job
\* with an empty range is skipped in the code, but there is none: a bar that is stored has closed.
Jobs(symbols, latest) ==
  LET order == SetToSeq(symbols)
      n == Len(order)
  IN [i \in 1..(2 * n) |->
        IF i <= n
        THEN [id |-> seq + i - 1, nr |-> Len(given) + i, sym |-> order[i], tf |-> "D1",
              from |-> 0, to |-> clock, upsert |-> FALSE, manual |-> FALSE]
        ELSE [id |-> seq + i - 1, nr |-> Len(given) + i, sym |-> order[i - n], tf |-> "M1",
              from |-> From(order[i - n], latest[order[i - n]]), to |-> clock, upsert |-> FALSE,
              manual |-> FALSE]]

\* The bridge is told to send live bars.
Subscribe(s) ==
  /\ subscribed' = subscribed \cup {s}
  /\ listens' = IF alive[s] THEN [listens EXCEPT ![s] = @ \cup asked[s]] ELSE listens

\* get_active_symbols after a refresh: what the database knows, or the fallback.
Watched(reads) == IF reads /\ known # {} THEN known ELSE {Fallback}

\* _bootstrap_on_connect: the symbols, and the newest bar of each, which are read one after the
\* other.  Either read may fail: then the fallback, or no bar.  Bars before the lookback are not
\* asked for.
Setup(s) ==
  /\ stage[s] = "setup"
  /\ stage' = [stage EXCEPT ![s] = "loop"]
  /\ connectedAt' = [connectedAt EXCEPT ![s] = clock]
  /\ \E sees \in BOOLEAN, dates \in BOOLEAN :
       /\ IF sees /\ dates THEN UNCHANGED left ELSE Spend("failures")
       /\ LET symbols == Watched(sees)
              latest == [y \in Symbols |-> IF dates THEN stored[y] ELSE {}]
              todo == Jobs(symbols, latest)
          IN /\ asked' = [asked EXCEPT ![s] = symbols]
             /\ seq' = seq + Len(todo)
             /\ given' = given \o [i \in DOMAIN todo |-> todo[i].id]
             /\ tries' = [tries EXCEPT ![s] = [j \in ToSet(todo) |-> 0]]
             /\ queue' = [queue EXCEPT ![s] = todo]
             /\ sender' = [sender EXCEPT ![s] = "ready"]
             /\ excused' = [y \in Symbols |-> excused[y] \cup
                  IF y \in symbols /\ latest[y] = {} THEN {b \in 0..clock : b < From(y, {})} ELSE {}]
  /\ UNCHANGED <<case, clock, database, alive, sessions, subscribed, inflight, held, forced,
                 bridge, gaveUp, confused, mended, spoilt>>

----------------------------------------------------------------------------
\* The task that sends jobs

\* Mutant: a task that is over counts as one that runs.
KickOnce(s) == sender' = [sender EXCEPT ![s] = "none"]

\* One task per session; a kick while it is there is dropped.
Kick(s) == sender' = IF sender[s] = "none" THEN [sender EXCEPT ![s] = "ready"] ELSE sender

\* The next job of the queue: none left or too many in flight, no longer pending, late, or written.
SenderTakes(s) ==
  /\ stage[s] = "loop" /\ sender[s] \in {"ready", "looping"}
  /\ LET j == Head(queue[s])
     IN \/ /\ queue[s] = <<>> \/ Cardinality(inflight[s]) >= MaxInflight
           /\ sender' = [sender EXCEPT ![s] = "none"]
           /\ UNCHANGED <<queue, held, tries, inflight, gaveUp, excused>>
        \/ /\ queue[s] # <<>> /\ Cardinality(inflight[s]) < MaxInflight
           /\ queue' = [queue EXCEPT ![s] = Tail(@)]
           /\ \/ /\ j \notin Pending(s)
                 /\ sender' = [sender EXCEPT ![s] = "looping"]
                 /\ UNCHANGED <<held, tries, inflight, gaveUp, excused>>
              \/ /\ j \in Pending(s) /\ tries[s][j] >= GiveUpAfter
                 /\ sender' = [sender EXCEPT ![s] = "looping"]
                 /\ tries' = [tries EXCEPT ![s] = Without(@, j)]
                 /\ inflight' = [inflight EXCEPT ![s] = @ \ {j}]
                 /\ gaveUp' = gaveUp \cup {s}
                 /\ excused' = [excused EXCEPT ![j.sym] = @ \cup Bars(j)]
                 /\ UNCHANGED held
              \/ /\ j \in Pending(s)
                 /\ sender' = [sender EXCEPT ![s] = "writing"]
                 /\ held' = [held EXCEPT ![s] = j]
                 /\ UNCHANGED <<tries, inflight, gaveUp, excused>>
  /\ UNCHANGED <<case, clock, database, session, numbers, bridge, connectedAt, given, confused, mended,
                 spoilt, left>>

\* The bridge queues the request, or its queue is full.
Accepts(s, j) ==
  \/ /\ requests' = [requests EXCEPT ![s] = Append(@, j)]
     /\ UNCHANGED <<toServer, left>>
  \/ /\ Spend("refusals")
     /\ toServer' = [toServer EXCEPT ![s] = Append(@, [type |-> "full", job |-> j])]
     /\ UNCHANGED requests

\* The frame is written; to a dead connection it fails, or is lost.  The job may be over by now, if
\* the answer to another request with its number was taken for its own: it is in flight all the same.
SenderWrites(s) ==
  /\ sender[s] = "writing"
  /\ LET j == held[s]
         sent == /\ inflight' = [inflight EXCEPT ![s] = @ \cup {j}]
                 /\ tries' = [tries EXCEPT ![s] = [k \in DOMAIN @ |-> IF k = j THEN @[k] + 1 ELSE @[k]]]
                 /\ sender' = [sender EXCEPT ![s] = "looping"]
                 /\ UNCHANGED queue
     IN \/ alive[s] /\ sent /\ Accepts(s, j)
        \/ ~alive[s] /\ sent /\ UNCHANGED <<toServer, requests, left>>
        \/ /\ ~alive[s]
           /\ queue' = [queue EXCEPT ![s] = <<j>> \o @]
           /\ sender' = [sender EXCEPT ![s] = "none"]
           /\ UNCHANGED <<inflight, tries, toServer, requests, left>>
  /\ held' = [held EXCEPT ![s] = NoJob]
  /\ UNCHANGED <<case, clock, database, session, numbers, listens, history>>

----------------------------------------------------------------------------
\* What a bridge does, and the market

\* It answers the oldest request with its closed bars, one to a chunk, and the end; or fails.
Answer(s) ==
  /\ alive[s] /\ requests[s] # <<>>
  /\ LET j == Head(requests[s])
         last == IF j.to < clock THEN j.to ELSE clock - 1
         chunks == [k \in 1..(IF j.tf = "M1" THEN last + 1 - j.from ELSE 0) |->
                      [type |-> "chunk", job |-> j, bar |-> j.from + k - 1]]
     IN toServer' = [toServer EXCEPT ![s] = Append(@ \o chunks, [type |-> "end", job |-> j])]
  /\ requests' = [requests EXCEPT ![s] = Tail(@)]
  /\ UNCHANGED <<case, clock, database, session, jobs, numbers, listens, history, left>>

\* It fails, refuses the request, or sends an error that the server does not know or cannot read.
AnswerFailure(s) ==
  /\ alive[s] /\ requests[s] # <<>>
  /\ LET j == Head(requests[s])
     IN \E type \in {"failed", "full", "unhandled"} :
          /\ Spend(IF type = "full" THEN "refusals" ELSE "failures")
          /\ toServer' = [toServer EXCEPT ![s] = Append(@, [type |-> type, job |-> j])]
          /\ excused' = IF type = "failed" /\ ~j.manual THEN [excused EXCEPT ![j.sym] = @ \cup Bars(j)]
                        ELSE excused
  /\ requests' = [requests EXCEPT ![s] = Tail(@)]
  /\ UNCHANGED <<case, clock, database, session, jobs, numbers, listens, connectedAt, given, gaveUp,
                 confused, mended, spoilt>>

\* A minute closes: every bridge sends its bar of the symbols it was subscribed to.
Tick ==
  /\ Spend("minutes")
  /\ clock' = clock + 1
  /\ toServer' = [s \in Sessions |->
       IF alive[s] THEN toServer[s] \o [k \in 1..Cardinality(listens[s]) |->
                          [type |-> "live", sym |-> SetToSeq(listens[s])[k], bar |-> clock]]
                   ELSE toServer[s]]
  /\ UNCHANGED <<case, database, session, jobs, numbers, requests, listens, history>>

\* The connection breaks; frames that have arrived may still be read.
Cut(s) ==
  /\ alive[s]
  /\ Spend("cuts")
  /\ alive' = [alive EXCEPT ![s] = FALSE]
  /\ requests' = [requests EXCEPT ![s] = <<>>]
  /\ listens' = [listens EXCEPT ![s] = {}]
  /\ UNCHANGED <<case, clock, database, stage, sessions, asked, subscribed, jobs, numbers,
                 toServer, history>>

----------------------------------------------------------------------------
\* The frames a session reads

Reads(s) == /\ stage[s] = "loop" /\ toServer[s] # <<>>
            /\ toServer' = [toServer EXCEPT ![s] = Tail(@)]

\* A row that is upserted replaces the one stored, the others only fill a gap.
WriteCandle(y, b, upsert) ==
  /\ stored' = [stored EXCEPT ![y] = @ \cup {b}]
  /\ wrong' = IF upsert THEN [wrong EXCEPT ![y] = @ \ {b}] ELSE wrong

\* A live bar is upserted; a write that fails is only logged.
ServeLive(s) ==
  /\ Reads(s)
  /\ LET m == Head(toServer[s])
     IN /\ m.type = "live"
        /\ \/ /\ WriteCandle(m.sym, m.bar, TRUE)
              /\ UNCHANGED <<excused, left>>
           \/ /\ Spend("failures")
              /\ excused' = [excused EXCEPT ![m.sym] = @ \cup {m.bar}]
              /\ UNCHANGED <<stored, wrong>>
  /\ UNCHANGED <<case, clock, known, announced, session, jobs, numbers, requests, listens,
                 connectedAt, given, gaveUp, confused, mended, spoilt>>

\* What a bar that an operator asked for leaves out, when it is newer than all that is stored.
Opened(y, b) == {c \in 0..b : c # b /\ \A a \in stored[y] : a < c}

\* Mutant: only the setting of the environment decides about an upsert.
ServeChunkPlain(s) ==
  /\ Reads(s)
  /\ LET m == Head(toServer[s])
     IN /\ m.type = "chunk"
        /\ stored' = [stored EXCEPT ![m.job.sym] = @ \cup {m.bar}]
        /\ excused' = IF m.job.manual
                      THEN [excused EXCEPT ![m.job.sym] = @ \cup Opened(m.job.sym, m.bar)]
                      ELSE excused
  /\ UNCHANGED <<case, clock, known, wrong, announced, session, jobs, numbers, requests, listens,
                 connectedAt, given, gaveUp, confused, mended, spoilt, left>>

\* History is inserted where there is no bar yet, and upserted for a job that forces it.
ServeChunk(s) ==
  /\ Reads(s)
  /\ LET m == Head(toServer[s])
     IN /\ m.type = "chunk"
        /\ \/ /\ WriteCandle(m.job.sym, m.bar, m.job.id \in forced)
              /\ excused' = IF m.job.manual
                            THEN [excused EXCEPT ![m.job.sym] = @ \cup Opened(m.job.sym, m.bar)]
                            ELSE excused
              /\ UNCHANGED <<spoilt, left>>
           \/ /\ Spend("failures")
              /\ excused' = IF m.job.manual THEN excused
                            ELSE [excused EXCEPT ![m.job.sym] = @ \cup {m.bar}]
              /\ spoilt' = spoilt \cup {m.job}
              /\ UNCHANGED <<stored, wrong>>
  /\ UNCHANGED <<case, clock, known, announced, session, jobs, numbers, requests, listens,
                 connectedAt, given, gaveUp, confused, mended>>

\* The job with this number is over: subscribe after the last one, or let the sender go on.  Jobs are
\* known by their numbers only, whoever asked for the history that has come.  Of what a session
\* subscribes to, the bars that closed since its jobs were made are neither history nor live.
Over(s, job) ==
  LET ended == Named(s, job.id)
      rest == Pending(s) \ ended
      subscribes == ended # {} /\ rest = {} /\ s \notin subscribed
  IN /\ tries' = [tries EXCEPT ![s] = [j \in rest |-> tries[s][j]]]
     /\ inflight' = [inflight EXCEPT ![s] = @ \ ended]
     /\ IF subscribes THEN Subscribe(s) ELSE UNCHANGED <<subscribed, listens>>
     /\ IF ended # {} /\ rest # {} THEN Kick(s) ELSE UNCHANGED sender
     /\ confused' = IF ended \subseteq {job} THEN confused ELSE confused \cup {s}
     /\ excused' = [y \in Symbols |->
          excused[y] \cup (UNION {Bars(j) : j \in {k \in ended \ {job} : k.sym = y}})
                     \cup IF subscribes /\ y \in asked[s] THEN connectedAt[s]..clock ELSE {}]

ServeEnd(s) ==
  /\ Reads(s)
  /\ LET m == Head(toServer[s])
     IN /\ m.type = "end"
        /\ forced' = forced \ {m.job.id}
        /\ mended' = IF m.job.upsert /\ m.job.tf = "M1" /\ m.job \notin spoilt /\ ~Shared(m.job.id)
                       THEN mended \cup {m.job} ELSE mended
        /\ Over(s, m.job)
  /\ UNCHANGED <<case, clock, database, stage, alive, sessions, asked, queue, held, seq, requests,
                 connectedAt, given, gaveUp, spoilt, left>>

\* The bridge could not fetch: the job is given up, its history stays missing.
ServeFailed(s) ==
  /\ Reads(s)
  /\ LET m == Head(toServer[s])
     IN /\ m.type = "failed"
        /\ Over(s, m.job)
  /\ UNCHANGED <<case, clock, database, stage, alive, sessions, asked, queue, held, numbers,
                 requests, connectedAt, given, gaveUp, mended, spoilt, left>>

\* Any other error, and one that cannot be read, is only logged: the job stays in flight for ever.
ServeUnhandled(s) ==
  /\ Reads(s)
  /\ LET m == Head(toServer[s])
     IN /\ m.type = "unhandled"
        /\ gaveUp' = IF m.job \in Pending(s) THEN gaveUp \cup {s} ELSE gaveUp
  /\ UNCHANGED <<case, clock, database, session, jobs, numbers, requests, listens, connectedAt, given,
                 confused, excused, mended, spoilt, left>>

\* Mutant: the job is sent again, but not taken off those in flight.
ServeFullLeaks(s) ==
  /\ Reads(s)
  /\ LET j == Head(toServer[s]).job
     IN /\ Head(toServer[s]).type = "full"
        /\ queue' = IF j \in Pending(s) THEN [queue EXCEPT ![s] = Append(@, j)] ELSE queue
        /\ IF j \in Pending(s) THEN Kick(s) ELSE UNCHANGED sender
  /\ UNCHANGED <<case, clock, database, session, tries, inflight, held, numbers, requests, listens,
                 history, left>>

\* The bridge had no room: the job with this number goes to the end of the queue.
ServeFull(s) ==
  /\ Reads(s)
  /\ LET job == Head(toServer[s]).job
     IN /\ Head(toServer[s]).type = "full"
        /\ \/ /\ Named(s, job.id) = {}
              /\ UNCHANGED <<inflight, queue, sender, confused>>
           \/ \E j \in Named(s, job.id) :
                /\ inflight' = [inflight EXCEPT ![s] = @ \ {j}]
                /\ queue' = [queue EXCEPT ![s] = Append(@, j)]
                /\ Kick(s)
                /\ confused' = IF j = job THEN confused ELSE confused \cup {s}
  /\ UNCHANGED <<case, clock, database, session, tries, held, numbers, requests, listens, connectedAt,
                 given, gaveUp, excused, mended, spoilt, left>>

\* The end of the stream, however much of it was read; the sender's task is cancelled.
EndSession(s) ==
  /\ stage[s] = "loop" /\ ~alive[s]
  /\ stage' = [stage EXCEPT ![s] = "over"]
  /\ sessions' = sessions \ {s} /\ subscribed' = subscribed \ {s}
  /\ tries' = [tries EXCEPT ![s] = NoJobs] /\ queue' = [queue EXCEPT ![s] = <<>>]
  /\ inflight' = [inflight EXCEPT ![s] = {}]
  /\ sender' = [sender EXCEPT ![s] = "none"] /\ held' = [held EXCEPT ![s] = NoJob]
  /\ toServer' = [toServer EXCEPT ![s] = <<>>]
  /\ UNCHANGED <<case, clock, database, alive, asked, numbers, requests, listens, history, left>>

----------------------------------------------------------------------------
\* Operators, Postgres and the process

\* request_history_fetch: any range, under a number that the operator may choose, to every session
\* there is; with no recipient the mark of that number is taken back, whoever has set it.  A write to
\* a connection that is broken may count as one.
RequestHistory(want, tf, upsert) ==
  /\ Spend("manual")
  /\ want.from < want.to
  /\ \E id \in {seq} \cup case.ids :
       /\ LET j == [id |-> id, nr |-> Len(given) + 1, sym |-> want.sym, tf |-> tf,
                    from |-> want.from, to |-> want.to, upsert |-> upsert, manual |-> TRUE]
              reached == {s \in sessions : alive[s]}
          IN /\ requests' = [s \in Sessions |-> IF s \in reached THEN Append(requests[s], j) ELSE requests[s]]
             /\ \/ ~upsert /\ UNCHANGED forced
                \/ upsert /\ sessions # {} /\ forced' = forced \cup {id}
                \/ upsert /\ reached = {} /\ forced' = forced \ {id}
       /\ \/ id = seq /\ seq' = seq + 1
          \/ id \in case.ids /\ UNCHANGED seq
       /\ given' = Append(given, id)
  /\ UNCHANGED <<case, clock, database, session, jobs, toServer, listens, connectedAt, gaveUp, confused,
                 excused, mended, spoilt>>

\* The first row of a new symbol; the trigger notifies.
AddSymbol(y) ==
  /\ y \notin known
  /\ Spend("symbols")
  /\ known' = known \cup {y} /\ announced' = announced \cup {y}
  /\ UNCHANGED <<case, clock, stored, wrong, session, jobs, numbers, bridge, history>>

\* Every session is told to subscribe to it, also one whose history is still being loaded.
HotAdd(y) ==
  /\ y \in announced
  /\ announced' = announced \ {y}
  /\ listens' = [s \in Sessions |-> IF s \in sessions /\ alive[s] THEN listens[s] \cup {y} ELSE listens[s]]
  /\ excused' = [excused EXCEPT ![y] = @ \cup 0..clock]
  /\ UNCHANGED <<case, clock, known, stored, wrong, session, jobs, numbers, toServer, requests,
                 connectedAt, given, gaveUp, confused, mended, spoilt, left>>

Restart ==
  /\ Spend("restarts")
  /\ stage' = [s \in Sessions |-> IF stage[s] = "new" THEN "new" ELSE "over"]
  /\ alive' = [s \in Sessions |-> FALSE] /\ sessions' = {}
  /\ asked' = [s \in Sessions |-> {}] /\ subscribed' = {}
  /\ tries' = [s \in Sessions |-> NoJobs] /\ queue' = [s \in Sessions |-> <<>>]
  /\ inflight' = [s \in Sessions |-> {}]
  /\ sender' = [s \in Sessions |-> "none"] /\ held' = [s \in Sessions |-> NoJob]
  /\ seq' = 1 /\ forced' = {}
  /\ toServer' = [s \in Sessions |-> <<>>] /\ requests' = [s \in Sessions |-> <<>>]
  /\ listens' = [s \in Sessions |-> {}]
  /\ announced' = {} /\ given' = <<>>
  /\ UNCHANGED <<case, clock, known, stored, wrong, connectedAt, gaveUp, confused, excused, mended, spoilt>>

\* Every step but a live bar and a restart, which also concern the candles that form.
Loading ==
  \/ \E s \in Sessions :
       \/ Connect(s) \/ Hello(s) \/ Setup(s) \/ SenderTakes(s) \/ SenderWrites(s)
       \/ Answer(s) \/ AnswerFailure(s) \/ Cut(s) \/ EndSession(s)
       \/ ServeChunk(s) \/ ServeEnd(s) \/ ServeFailed(s) \/ ServeFull(s) \/ ServeUnhandled(s)
  \/ \E y \in Symbols : AddSymbol(y) \/ HotAdd(y)
  \/ \E want \in case.wants, tf \in {"D1", "M1"}, upsert \in BOOLEAN : RequestHistory(want, tf, upsert)
  \/ Tick

Next == Loading \/ (\E s \in Sessions : ServeLive(s)) \/ Restart

Spec == Init /\ [][Next]_vars

----------------------------------------------------------------------------
\* Types; jobs in flight never exceed the limit, and only those pending are queued or in flight, but
\* in a session that took the answer to another request for one of its jobs.
TypeOK ==
  /\ clock \in Nat /\ seq \in Nat
  /\ known \subseteq Symbols /\ announced \subseteq known
  /\ \A y \in Symbols : wrong[y] \subseteq stored[y] /\ stored[y] \subseteq 0..(clock - 1)
  /\ sessions \subseteq Sessions /\ subscribed \subseteq sessions
  /\ \A s \in Sessions :
       /\ stage[s] \in {"new", "greeting", "setup", "loop", "over", "leaked"}
       /\ sender[s] \in {"none", "ready", "looping", "writing"}
       /\ (held[s] # NoJob) = (sender[s] = "writing")
       /\ Cardinality(inflight[s]) <= MaxInflight
       /\ s \in confused \/ inflight[s] \cup ToSet(queue[s]) \subseteq Pending(s)

\* The stored minutes of a symbol have no hole: every bar between the first and the last stored
\* one is there, or could not be written or fetched, or closed while a session that was still
\* loading history had not subscribed, or belongs to a symbol added while it was live, or was
\* older than the lookback of a session that saw nothing stored (which is also what it sees when
\* the read fails), or was missing already, or was stepped over by an operator's request for bars
\* newer than all that was stored, or belongs to a job that the answer to another request with its
\* number ended.  What a broken connection left out, and what an error that is not handled left
\* unfetched, is fetched by the next session, which starts at the latest bar.
HoleExplained ==
  \A y \in Symbols : stored[y] # {} =>
    \A b \in 0..Greatest(stored[y]) :
      (\E a \in stored[y] : a < b) => b \in stored[y] \cup excused[y]

\* A manual request that forces an upsert, with a number that no other request has, has corrected
\* every bar of its range once it ended with every chunk written, also when the bar was there
\* (ON CONFLICT DO NOTHING otherwise).  The mark of a number that two requests share goes with the
\* first end of either (_force_upsert_jobs.discard).
Mended == \A j \in mended : wrong[j.sym] \cap j.from..j.to = {}

\* A pending job is in exactly one place: the queue, the hands of the sender, or in flight; but for
\* what the answer to another request with its number does.
JobAccounted ==
  \A s \in Sessions \ confused : \A j \in Pending(s) :
    Cardinality({k \in DOMAIN queue[s] : queue[s][k] = j})
      + (IF held[s] = j THEN 1 ELSE 0) + (IF j \in inflight[s] THEN 1 ELSE 0) = 1

\* No session hangs: one that has nothing left to wait for (no task, no frame unread, no request
\* unanswered) is subscribed, unless one of its jobs was dropped as late, met an error that is not
\* handled, or was taken for another request with its number.  A kick that comes
\* while the sender sleeps or writes is dropped by _bootstrap_kick_sender, and must not be missed;
\* a job that is in no place (_bootstrap_queue, _bootstrap_send_loop, _bootstrap_inflight) is
\* never sent again, and one in two places is fetched twice.
NobodyWaits ==
  /\ JobAccounted
  /\ \A s \in Sessions :
       (/\ stage[s] = "loop" /\ alive[s] /\ sender[s] = "none"
        /\ toServer[s] = <<>> /\ requests[s] = <<>>) => s \in subscribed \cup gaveUp \cup confused
=============================================================================
