--------------------------------- MODULE Charts -------------------------------
(***************************************************************************)
(* What a chart shows of the bars that HistoryBootstrap stores.            *)
(*                                                                         *)
(* The ingest server adds every live M1 bar to the candle of a higher      *)
(* timeframe that is forming, in a key of Redis, from a task and thread of *)
(* its own (api-worker/app/mt5_ingest.py).  The web service answers a      *)
(* request for a window of candles from a continuous aggregate, refreshes  *)
(* it under a lock when it has none of the window though there are M1      *)
(* bars, and puts the forming candle in front                              *)
(* (api-web/app/routes/historical.py).                                     *)
(*                                                                         *)
(* One higher timeframe stands for all: its candle k holds the minutes     *)
(* k * Size to k * Size + Size - 1.                                        *)
(***************************************************************************)
EXTENDS HistoryBootstrap

CONSTANTS
  Readers,        \* requests to the historical route, of any process of the web service
  Size,           \* minutes of a candle
  Attempts,       \* how often a request refreshes (3 in the code)
  Polls,          \* how often one polls that found the lock taken (6 in the code)
  Nobody

ASSUME ChartsAssumption ==
  /\ Size \in Nat \ {0} /\ Attempts \in Nat \ {0} /\ Polls \in Nat \ {0}
  /\ Nobody \notin Readers
  /\ \A k \in Cases : /\ DOMAIN k.asks \subseteq Readers
                       /\ \A r \in DOMAIN k.asks : k.asks[r].sym \in Symbols /\ k.asks[r].window \subseteq Nat

VARIABLES
  updates,        \* tasks of _update_forming_state_from_closed_m1
  forming,        \* forming:bucket keys: per symbol, candle -> what was counted
  handed,         \* live bars an update was started for, per symbol (history)
  muddled,        \* bars whose update met another one, came late or failed (history)
  materialized,   \* candles of each symbol the aggregate has stored
  reader,         \* the requests
  lock,           \* cagg_refresh_lock of each window: its holder
  overstayed      \* requests whose lock ran out while they held it (history)

ingest == <<case, clock, database, session, jobs, numbers, bridge, history>>
buckets == <<updates, forming, handed, muddled>>
route == <<materialized, reader, lock, overstayed>>
chartVars == <<buckets, route>>

Bucket(b) == b \div Size
Absent == [open |-> 0, counted |-> <<>>, last |-> 0]
State(y, k) == IF k \in DOMAIN forming[y] THEN forming[y][k] ELSE Absent

\* A request before it does anything; its window is that of the case.
Fresh == [stage |-> "query", rows |-> {}, raw |-> FALSE, tries |-> 0, latest |-> 0,
          status |-> "none", answer |-> <<>>]
Asking == DOMAIN case.asks
Windows == {case.asks[r].window : r \in Asking}

ChartsInit ==
  /\ Init
  /\ updates = {} /\ forming = [y \in Symbols |-> [k \in {} |-> Absent]]
  /\ handed = [y \in Symbols |-> {}] /\ muddled = {}
  /\ materialized = [y \in Symbols |-> {}]
  /\ reader = [r \in Asking |-> Fresh]
  /\ lock = [w \in Windows |-> Nobody] /\ overstayed = {}

----------------------------------------------------------------------------
\* The candle that forms

\* A live bar that was written starts an update; one whose write failed starts none.
LiveBar(s) ==
  /\ ServeLive(s)
  /\ LET m == Head(toServer[s])
         y == m.sym
         b == m.bar
         running == {u \in updates : u.sym = y /\ Bucket(u.bar) = Bucket(b)}
         late == b \notin handed[y] /\ \E c \in handed[y] : c > b
     IN IF left' = left /\ case.higher
        THEN /\ updates' = updates \cup {[by |-> s, sym |-> y, bar |-> b, stage |-> "read", got |-> Absent]}
             /\ handed' = [handed EXCEPT ![y] = @ \cup {b}]
             /\ muddled' = muddled \cup {<<y, u.bar>> : u \in running}
                                   \cup IF running # {} \/ late THEN {<<y, b>>} ELSE {}
        ELSE UNCHANGED <<updates, handed, muddled>>
  /\ UNCHANGED <<forming, route>>

\* hgetall; a bar no later than the last one counted ends the update.
UpdateReads(u) ==
  /\ u \in updates /\ u.stage = "read"
  /\ LET state == State(u.sym, Bucket(u.bar))
     IN updates' = (updates \ {u}) \cup
          IF state # Absent /\ state.last >= u.bar THEN {}
          ELSE {[u EXCEPT !.stage = "write", !.got = state]}
  /\ UNCHANGED <<vars, forming, handed, muddled, route>>

\* Mutant: the candle begins anew with every bar.
UpdateBegins(u) ==
  /\ u \in updates /\ u.stage = "write"
  /\ forming' = [forming EXCEPT ![u.sym] = [i \in DOMAIN @ \cup {Bucket(u.bar)} |->
                   IF i = Bucket(u.bar) THEN [open |-> u.bar, counted |-> <<u.bar>>, last |-> u.bar] ELSE @[i]]]
  /\ updates' = updates \ {u}
  /\ UNCHANGED <<vars, handed, muddled, route>>

\* hset: every field of a new key; all but the open, from what was read, of one that was there.
UpdateWrites(u) ==
  /\ u \in updates /\ u.stage = "write"
  /\ LET k == Bucket(u.bar)
         open == IF u.got = Absent THEN u.bar ELSE State(u.sym, k).open
         state == [open |-> open, counted |-> Append(u.got.counted, u.bar), last |-> u.bar]
     IN forming' = [forming EXCEPT ![u.sym] =
                      [i \in DOMAIN @ \cup {k} |-> IF i = k THEN state ELSE @[i]]]
  /\ updates' = updates \ {u}
  /\ UNCHANGED <<vars, handed, muddled, route>>

\* Redis fails; the error is swallowed.
UpdateFails(u) ==
  /\ u \in updates
  /\ Spend("redis")
  /\ updates' = updates \ {u}
  /\ muddled' = muddled \cup {<<u.sym, u.bar>>}
  /\ UNCHANGED <<ingest, forming, handed, route>>

\* The threads die with the process, the keys stay.
RestartIngest ==
  /\ Restart
  /\ updates' = {}
  /\ muddled' = muddled \cup {<<u.sym, u.bar>> : u \in updates}
  /\ UNCHANGED <<forming, handed, route>>

----------------------------------------------------------------------------
\* The historical route

Sym(r) == case.asks[r].sym
Window(r) == case.asks[r].window
Bounded(r) == case.asks[r].bounded
At(r, place) == r \in Asking /\ reader[r].stage = place
Becomes(r, new) == reader' = [reader EXCEPT ![r] = new]
NewestFirst(rows) ==
  CHOOSE q \in [1..Cardinality(rows) -> rows] : \A i, j \in DOMAIN q : i < j => q[i] > q[j]

\* Without rows 503 for a window that has M1 bars and 404 for one that has none; else the candles.
Reply(r, candles) ==
  LET status == IF reader[r].rows # {} THEN "candles" ELSE IF reader[r].raw THEN "retry" ELSE "none"
  IN Becomes(r, [reader[r] EXCEPT !.stage = "answered", !.status = status,
                   !.answer = IF status = "candles" THEN candles ELSE <<>>])

\* The aggregate: what it has stored, and above its watermark what the M1 bars make.
Candles(y) ==
  materialized[y] \cup {k \in {Bucket(b) : b \in stored[y]} : k >= case.watermark}

Rows(r) == IF Bounded(r) THEN Candles(Sym(r)) \cap Window(r) ELSE Candles(Sym(r))

\* An unbounded request has no window to refresh.
Query(r) ==
  /\ At(r, "query")
  /\ Becomes(r, [reader[r] EXCEPT !.rows = Rows(r),
                   !.stage = IF Rows(r) = {} /\ Bounded(r) THEN "probe" ELSE "latest"])
  /\ UNCHANGED <<vars, buckets, materialized, lock, overstayed>>

\* Whether there are M1 bars of the window; an error ends the refresh and is swallowed.
Probe(r) ==
  /\ At(r, "probe")
  /\ \/ LET raw == \E b \in stored[Sym(r)] : Bucket(b) \in Window(r)
        IN /\ Becomes(r, [reader[r] EXCEPT !.raw = raw, !.stage = IF raw THEN "lock" ELSE "latest"])
           /\ UNCHANGED vars
     \/ /\ Spend("failures")
        /\ Becomes(r, [reader[r] EXCEPT !.stage = "latest"])
        /\ UNCHANGED ingest
  /\ UNCHANGED <<buckets, materialized, lock, overstayed>>

\* SET NX: the holder refreshes, the others poll, and so does a request that Redis fails.
Lock(r) ==
  /\ At(r, "lock")
  /\ \/ /\ lock[Window(r)] = Nobody
        /\ lock' = [lock EXCEPT ![Window(r)] = r]
        /\ Becomes(r, [reader[r] EXCEPT !.stage = "refresh"])
        /\ UNCHANGED vars
     \/ /\ lock[Window(r)] # Nobody
        /\ Becomes(r, [reader[r] EXCEPT !.stage = "poll"])
        /\ UNCHANGED <<vars, lock>>
     \/ /\ Spend("redis")
        /\ Becomes(r, [reader[r] EXCEPT !.stage = "poll"])
        /\ UNCHANGED <<lock, ingest>>
  /\ UNCHANGED <<buckets, materialized, overstayed>>

\* refresh_continuous_aggregate makes the candles of the window for every symbol, or fails.
Refresh(r) ==
  /\ At(r, "refresh")
  /\ \/ /\ materialized' = [y \in Symbols |->
             (materialized[y] \ Window(r)) \cup ({Bucket(b) : b \in stored[y]} \cap Window(r))]
        /\ Becomes(r, [reader[r] EXCEPT !.stage = "reread", !.tries = @ + 1])
        /\ UNCHANGED vars
     \/ /\ Spend("failures")
        /\ Becomes(r, [reader[r] EXCEPT !.stage = "unlock"])
        /\ UNCHANGED <<materialized, ingest>>
  /\ UNCHANGED <<buckets, lock, overstayed>>

Reread(r) ==
  /\ At(r, "reread")
  /\ Becomes(r, [reader[r] EXCEPT !.rows = Rows(r),
                   !.stage = IF Rows(r) # {} \/ reader[r].tries = Attempts THEN "unlock" ELSE "refresh"])
  /\ UNCHANGED <<vars, buckets, materialized, lock, overstayed>>

\* Mutant: the key is deleted whoever holds it.
UnlockAny(r) ==
  /\ At(r, "unlock")
  /\ lock' = [lock EXCEPT ![Window(r)] = Nobody]
  /\ Becomes(r, [reader[r] EXCEPT !.stage = "latest"])
  /\ UNCHANGED <<vars, buckets, materialized, overstayed>>

\* Compare and delete; when Redis fails the lock stays until it runs out.
Unlock(r) ==
  /\ At(r, "unlock")
  /\ \/ /\ lock' = [lock EXCEPT ![Window(r)] = IF @ = r THEN Nobody ELSE @]
        /\ UNCHANGED vars
     \/ /\ Spend("redis")
        /\ UNCHANGED <<lock, ingest>>
  /\ Becomes(r, [reader[r] EXCEPT !.stage = "latest"])
  /\ UNCHANGED <<buckets, materialized, overstayed>>

Poll(r) ==
  /\ At(r, "poll")
  /\ Becomes(r, [reader[r] EXCEPT !.rows = Rows(r), !.tries = @ + 1,
                   !.stage = IF Rows(r) # {} \/ reader[r].tries + 1 = Polls THEN "latest" ELSE "poll"])
  /\ UNCHANGED <<vars, buckets, materialized, lock, overstayed>>

\* The lock runs out, whether or not its holder is done.
LockExpires(w) ==
  /\ lock[w] # Nobody
  /\ Spend("expiries")
  /\ overstayed' = overstayed \cup {lock[w]}
  /\ lock' = [lock EXCEPT ![w] = Nobody]
  /\ UNCHANGED <<ingest, buckets, materialized, reader>>

\* The newest M1 bar tells which candle is forming; without a bar, or when it cannot be read,
\* the answer has none.
Latest(r) ==
  /\ At(r, "latest")
  /\ \/ /\ stored[Sym(r)] = {}
        /\ Reply(r, NewestFirst(reader[r].rows))
        /\ UNCHANGED vars
     \/ /\ stored[Sym(r)] # {}
        /\ Becomes(r, [reader[r] EXCEPT !.stage = "forming", !.latest = Bucket(Greatest(stored[Sym(r)]))])
        /\ UNCHANGED vars
     \/ /\ Spend("failures")
        /\ Reply(r, NewestFirst(reader[r].rows))
        /\ UNCHANGED ingest
  /\ UNCHANGED <<buckets, materialized, lock, overstayed>>

\* Mutant: the forming candle is put in front of the stored one.
PrependForming(rows, k) == <<k>> \o NewestFirst(rows)

\* The forming candle takes the place of a newest row of its own time, or comes before it.
WithForming(rows, k) ==
  LET answer == NewestFirst(rows)
  IN IF answer # <<>> /\ Head(answer) = k THEN answer ELSE <<k>> \o answer

FormingRow(r) ==
  /\ At(r, "forming")
  /\ LET k == reader[r].latest
         rows == reader[r].rows
     IN Reply(r, IF k \in DOMAIN forming[Sym(r)] THEN WithForming(rows, k) ELSE NewestFirst(rows))
  /\ UNCHANGED <<vars, buckets, materialized, lock, overstayed>>

----------------------------------------------------------------------------
ChartsNext ==
  \/ Loading /\ UNCHANGED chartVars
  \/ \E s \in Sessions : LiveBar(s)
  \/ RestartIngest
  \/ \E u \in updates : UpdateReads(u) \/ UpdateWrites(u) \/ UpdateFails(u)
  \/ \E r \in Asking :
       \/ Query(r) \/ Probe(r) \/ Lock(r) \/ Refresh(r) \/ Reread(r) \/ Unlock(r) \/ Poll(r)
       \/ Latest(r) \/ FormingRow(r)
  \/ \E w \in Windows : LockExpires(w)

ChartsSpec == ChartsInit /\ [][ChartsNext]_<<vars, chartVars>>

----------------------------------------------------------------------------
\* Types of what charts add.
ChartsTypeOK ==
  /\ \A u \in updates : u.bar \in handed[u.sym] /\ u.stage \in {"read", "write"}
  /\ \A y \in Symbols : \A k \in DOMAIN forming[y] : \A b \in ToSet(forming[y][k].counted) : Bucket(b) = k
  /\ \A r \in Asking : reader[r].rows \subseteq Nat /\ reader[r].tries \in 0..(Attempts + Polls)
  /\ \A w \in Windows : lock[w] \in Asking \cup {Nobody}

\* mt5_ingest.py:216: the forming candle counts no minute twice, whichever bridges send it and
\* however their threads interleave, and counts every live bar whose update is over, unless
\* that update met another one of the candle, came after a later minute, or failed.
FormingCounts ==
  \A y \in Symbols :
    /\ \A k \in DOMAIN forming[y] : IsInjective(forming[y][k].counted)
    /\ \A b \in handed[y] :
         <<y, b>> \in muddled \/ (\E u \in updates : u.sym = y /\ u.bar = b)
           \/ b \in ToSet(State(y, Bucket(b)).counted)

\* historical.py:430: the candles of an answer are in order and no time is there twice, though
\* the rows, the newest bar and the forming candle are read one after the other while bars
\* are written.
AnswerInOrder ==
  \A r \in Asking : \A i, j \in DOMAIN reader[r].answer :
    i < j => reader[r].answer[i] > reader[r].answer[j]

\* A chart is told the truth: each minute once, each candle once.
ChartsAreTrue == FormingCounts /\ AnswerInOrder

\* historical.py:260: two requests refresh one window at the same time only when a lock ran out
\* in the hands of one of them; that one must not then take the lock from its next holder.
RefreshedAlone ==
  \A r, q \in Asking :
    (/\ r # q /\ Window(r) = Window(q)
     /\ {reader[r].stage, reader[q].stage} \subseteq {"refresh", "reread"})
    => r \in overstayed \/ q \in overstayed
=============================================================================
