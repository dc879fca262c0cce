------------------------------ MODULE WebCaches -------------------------------
(***************************************************************************)
(* The cached read routes of api-web: singleflight_cache of                *)
(* app/singleflight.py around the handlers of routes/news.py,              *)
(* routes/strategies.py, routes/regime.py and routes/historical.py, and    *)
(* the webhooks of n8n that clear what they cached.                        *)
(*                                                                         *)
(* What a route reads is an area of the database with a version; answers   *)
(* are kept in Redis for the time the route gives.  The requests of one    *)
(* process run on one event loop and meet at every await.  The snapshots   *)
(* a webhook publishes are messages of module Streams.                     *)
(***************************************************************************)
EXTENDS Naturals, FiniteSets, Sequences

CONSTANTS
  Requests,       \* each is made at most once
  NoRequest, NoEntry,
  Minute, Minutes5, Minutes15, Minutes30, Hour,     \* times to live, in ticks of the clock
  SignalLives,    \* expiry_minutes of the strategies, which nothing bounds: 0 is what SETEX refuses
  MaxFetch,       \* bound of the model: ticks between a read of the database and its caching
  Cases           \* bounds of the model: routes asked for, webhooks, changes, ticks and failures,
                  \* and the versions of the news at which the item asked for is not there

\* What Redis keeps under a key, and what a request is served.
Entries == [version : Nat, until : Nat, readAt : Nat, life : Nat]
ServedAnswers == [version : Nat, at : Nat, life : Nat]

ASSUME ConstantsAssumption ==
  /\ NoRequest \notin Requests
  /\ {Minute, Minutes5, Minutes15, Minutes30, Hour} \subseteq Nat \ {0}
  /\ SignalLives \subseteq Nat
  /\ MaxFetch \in Nat \ {0}
  /\ NoEntry \notin Entries \cup ServedAnswers

----------------------------------------------------------------------------
\* The routes: what they read, for how long it is kept, and which webhooks clear it.  A webhook
\* of another type than current, playbook and events clears all keys of latest:news:*.

OfNews == {"strategies", "regime", "all"}

CurrentNews == [name |-> "news current", reads |-> "news", ttls |-> {Minutes5},
                clearedBy |-> OfNews \cup {"current"}]
NewsItem == [name |-> "news item", reads |-> "news", ttls |-> {Hour}, clearedBy |-> OfNews]
Upcoming == [name |-> "news upcoming", reads |-> "news", ttls |-> {Minutes5}, clearedBy |-> OfNews]
Playbook == [name |-> "playbook", reads |-> "playbook", ttls |-> {Minutes5},
             clearedBy |-> OfNews \cup {"playbook"}]
Events == [name |-> "events", reads |-> "events", ttls |-> {Minutes5},
           clearedBy |-> OfNews \cup {"events"}]
Markers == [name |-> "markers", reads |-> "news", ttls |-> {Minutes5}, clearedBy |-> OfNews]
NewsPreview == [name |-> "news preview", reads |-> "news", ttls |-> {Minutes30}, clearedBy |-> OfNews]

\* Lists are cleared only with the id of a strategy, under latest:strategies: but not strategies:all:.
StrategyList == [name |-> "strategies", reads |-> "strategies", ttls |-> {Hour}, clearedBy |-> {"strategy id"}]
AllStrategies == [name |-> "strategies all", reads |-> "strategies", ttls |-> {Hour}, clearedBy |-> {}]
StrategyPreview == [name |-> "preview", reads |-> "strategies", ttls |-> {Hour}, clearedBy |-> {}]
\* By the time the strategy has left, between two bounds; by its expiry_minutes.
StrategyById == [name |-> "strategy", reads |-> "strategies", ttls |-> Minute..Minutes5,
                 clearedBy |-> {"strategy id"}]
LatestSignal == [name |-> "signal", reads |-> "strategies", ttls |-> SignalLives \cup {Minutes30},
                 clearedBy |-> {}]

Regime == [name |-> "regime", reads |-> "regime", ttls |-> {Minutes15}, clearedBy |-> {"regime", "all"}]
RegimeOfPair == [name |-> "regime pair", reads |-> "regime", ttls |-> {Minutes15},
                 clearedBy |-> {"regime", "all"}]
MarketDataText == [name |-> "market text", reads |-> "candles", ttls |-> {Minutes5},
                   clearedBy |-> {"regime", "all"}]
MarketData == [name |-> "market data", reads |-> "candles", ttls |-> {Minutes5},
               clearedBy |-> {"regime", "all"}]
\* invalidate_historical_cache of the worker would clear it, but nothing calls it.
Historical == [name |-> "historical", reads |-> "candles", ttls |-> {Minute}, clearedBy |-> {}]

Routes == {CurrentNews, NewsItem, Upcoming, Playbook, Events, Markers, NewsPreview, StrategyList,
           AllStrategies, StrategyPreview, StrategyById, LatestSignal, Regime, RegimeOfPair,
           MarketDataText, MarketData, Historical}
RouteNames == {k.name : k \in Routes}

\* What the handler of NewsItem keeps itself, inside what is kept of the route: latest:news:item.
ItemInside == [name |-> "item", reads |-> "news", ttls |-> {Hour}, clearedBy |-> OfNews]
Inside(name) == IF name = "news item" THEN {"item"} ELSE {}

ASSUME CasesAssumption == \A c \in Cases : c.routes \subseteq RouteNames

Named(name) == CHOOSE k \in Routes \cup {ItemInside} : k.name = name
Reads(name) == Named(name).reads
Ttls(name) == Named(name).ttls
\* For how long a handler may itself keep what it has read.
HandlerLife(name) == IF Inside(name) = {} THEN 0 ELSE Hour + MaxFetch
Areas == {"news", "playbook", "events", "strategies", "regime", "candles"}

\* What n8n may call: news-updated with one of its types, or publish with or without an id.
Webhooks == {"current", "playbook", "events", "strategies", "regime", "all", "strategy id", "strategy"}

----------------------------------------------------------------------------
VARIABLES
  case,
  now,
  version,        \* of each area
  since,          \* when each version of it became the current one (history)
  cache,          \* what Redis keeps under a key: the version, until when, when it was read, its life
  leader,         \* _singleflight_locks: whose event there is for the key
  pc, route,      \* how far each request is, and what it asks for
  on,             \* the leader whose event it waits for
  got, readAt,    \* the version it has in hand, and when that was read from the database
  heldAt,         \* when the request got hold of it
  begun,          \* the version a webhook had cleared when the request was made (history)
  served,         \* the version it was served, when, and the life it was given in Redis, or NoEntry
  hook, todo,     \* the webhook under way, and keys it has not cleared yet
  asOf,           \* the versions when the last webhook was called (history)
  cleared,        \* the version of a key when the webhook that last cleared it was called (history)
  late,           \* keys that got an older version after their clearing (history)
  left

hand == <<got, readAt, heldAt>>
request == <<pc, route, on, hand, begun, served>>
webhook == <<hook, todo, asOf, cleared, late>>
cacheVars == <<case, now, version, since, cache, leader, request, webhook, left>>

Keys == case.routes \cup UNION {Inside(k) : k \in case.routes}

CachesInit ==
  /\ case \in Cases /\ left = case
  /\ now = 1
  /\ version = [a \in Areas |-> 1] /\ since = [a \in Areas |-> <<1>>]
  /\ cache = [k \in Keys |-> NoEntry]
  /\ leader = [k \in case.routes |-> NoRequest]
  /\ pc = [r \in Requests |-> "new"] /\ route \in [Requests -> case.routes]
  /\ on = [r \in Requests |-> NoRequest]
  /\ got = [r \in Requests |-> 0]
  /\ readAt = [r \in Requests |-> 0] /\ heldAt = [r \in Requests |-> 0]
  /\ begun = [r \in Requests |-> 0]
  /\ served = [r \in Requests |-> NoEntry]
  /\ hook = "none" /\ todo = {} /\ asOf = [a \in Areas |-> 0]
  /\ cleared = [k \in Keys |-> 0] /\ late = {}

Spend(what) == left[what] > 0 /\ left' = [left EXCEPT ![what] = @ - 1]
Kept(k) == cache[k] # NoEntry /\ cache[k].until > now
Serve(r, v, life) == served' = [served EXCEPT ![r] = [version |-> v, at |-> now, life |-> life]]
ServeKept(r) == Serve(r, cache[route[r]].version, cache[route[r]].life)
Go(r, where) == pc' = [pc EXCEPT ![r] = where]
Hold(r, v, at) ==
  /\ got' = [got EXCEPT ![r] = v]
  /\ readAt' = [readAt EXCEPT ![r] = at]
  /\ heldAt' = [heldAt EXCEPT ![r] = now]
\* What request r has in hand will be kept under key k.
Holds(r, k) == \/ k = route[r] /\ pc[r] \in {"keep", "store"}
               \/ k \in Inside(route[r]) /\ pc[r] = "keep"
Entry(r, ttl) == [version |-> got[r], until |-> now + ttl, readAt |-> readAt[r], life |-> ttl]

----------------------------------------------------------------------------
\* A request

\* Mutant: an answer that is used is kept as long again.
LookSliding(r) ==
  /\ pc[r] = "new"
  /\ begun' = [begun EXCEPT ![r] = cleared[route[r]]]
  /\ IF Kept(route[r])
     THEN /\ ServeKept(r) /\ Go(r, "done")
          /\ \E ttl \in Ttls(route[r]) : cache' = [cache EXCEPT ![route[r]].until = now + ttl]
     ELSE Go(r, "join") /\ UNCHANGED <<served, cache>>
  /\ UNCHANGED <<case, now, version, since, leader, route, on, hand, webhook, left>>

\* The fast path.
Look(r) ==
  /\ pc[r] = "new"
  /\ begun' = [begun EXCEPT ![r] = cleared[route[r]]]
  /\ IF Kept(route[r]) THEN ServeKept(r) /\ Go(r, "done")
                       ELSE Go(r, "join") /\ UNCHANGED served
  /\ UNCHANGED <<case, now, version, since, cache, leader, route, on, hand, webhook, left>>

\* Under the guard: the first is the leader, the others wait for its event.
Join(r) ==
  /\ pc[r] = "join"
  /\ LET k == route[r]
     IN IF leader[k] = NoRequest
        THEN leader' = [leader EXCEPT ![k] = r] /\ Go(r, "fetch") /\ UNCHANGED on
        ELSE on' = [on EXCEPT ![r] = leader[k]] /\ Go(r, "wait") /\ UNCHANGED leader
  /\ UNCHANGED <<case, now, version, since, cache, route, hand, begun, served, webhook, left>>

\* The event is set: look again, and fetch when there is still nothing.
Wake(r) ==
  /\ pc[r] = "wait" /\ leader[route[r]] # on[r]
  /\ IF Kept(route[r]) THEN ServeKept(r) /\ Go(r, "done")
                       ELSE Go(r, "fetch") /\ UNCHANGED served
  /\ UNCHANGED <<case, now, version, since, cache, leader, route, on, hand, begun, webhook, left>>

\* Redis fails under the lookup: the request, which leads nobody, ends with an error.
LookFails(r) ==
  /\ \/ pc[r] = "new"
     \/ pc[r] = "wait" /\ leader[route[r]] # on[r]
  /\ Spend("failures")
  /\ Go(r, "done")
  /\ UNCHANGED <<case, now, version, since, cache, leader, route, on, hand, begun, served, webhook>>

\* The handler of a news item looks under its own key: a hit is returned, unless it says that there
\* is no such item, which is raised like a failure of Redis.
LookInside(r) ==
  /\ pc[r] = "fetch"
  /\ \E k \in Inside(route[r]) :
       \/ ~ Kept(k) /\ Go(r, "read") /\ UNCHANGED <<hand, late, left>>
       \/ /\ Kept(k) /\ cache[k].version \in case.absent
          /\ Go(r, "release")
          /\ UNCHANGED <<hand, late, left>>
       \/ /\ Kept(k) /\ cache[k].version \notin case.absent
          /\ Hold(r, cache[k].version, cache[k].readAt)
          /\ late' = IF k \in todo \cup late /\ cache[k].version < cleared[route[r]]
                     THEN late \cup {route[r]} ELSE late
          /\ Go(r, "store")
          /\ UNCHANGED left
       \/ Spend("failures") /\ Go(r, "release") /\ UNCHANGED <<hand, late>>
  /\ UNCHANGED <<case, now, version, since, cache, leader, route, on, begun, served, hook, todo, asOf, cleared>>

\* The handler reads the database, or raises.
Fetch(r) ==
  /\ pc[r] = IF Inside(route[r]) = {} THEN "fetch" ELSE "read"
  /\ \/ /\ Hold(r, version[Reads(route[r])], now)
        /\ Go(r, IF Inside(route[r]) = {} THEN "store" ELSE "keep")
        /\ UNCHANGED left
     \/ Spend("failures") /\ Go(r, "release") /\ UNCHANGED hand
  /\ UNCHANGED <<case, now, version, since, cache, leader, route, on, begun, served, webhook>>

\* The handler keeps what it read, also that there is no such item, which it then raises.
Keep(r) ==
  /\ pc[r] = "keep"
  /\ \E k \in Inside(route[r]) :
       \/ /\ IF got[r] \in case.absent
             THEN cache' = [cache EXCEPT ![k] = Entry(r, Minute)] /\ Go(r, "release")
             ELSE cache' = [cache EXCEPT ![k] = Entry(r, Hour)] /\ Go(r, "store")
          /\ UNCHANGED left
       \/ Spend("failures") /\ Go(r, "release") /\ UNCHANGED cache
  /\ UNCHANGED <<case, now, version, since, leader, route, on, hand, begun, served, webhook>>

\* SETEX, unless it refuses the time or Redis fails; the answer is returned in any case.
Store(r) ==
  /\ pc[r] = "store"
  /\ \/ /\ \E ttl \in Ttls(route[r]) \ {0} : cache' = [cache EXCEPT ![route[r]] = Entry(r, ttl)]
        /\ UNCHANGED left
     \/ 0 \in Ttls(route[r]) /\ UNCHANGED <<cache, left>>
     \/ Spend("failures") /\ UNCHANGED cache
  /\ Serve(r, got[r], 0)
  /\ Go(r, "release")
  /\ UNCHANGED <<case, now, version, since, leader, route, on, hand, begun, webhook>>

\* Mutant: a leader whose handler raised keeps its event.
ReleaseServed(r) ==
  /\ pc[r] = "release"
  /\ leader' = IF leader[route[r]] = r /\ served[r] # NoEntry
               THEN [leader EXCEPT ![route[r]] = NoRequest] ELSE leader
  /\ Go(r, "done")
  /\ UNCHANGED <<case, now, version, since, cache, route, on, hand, begun, served, webhook, left>>

\* finally: the leader takes its event away and wakes the others.
Release(r) ==
  /\ pc[r] = "release"
  /\ leader' = IF leader[route[r]] = r THEN [leader EXCEPT ![route[r]] = NoRequest] ELSE leader
  /\ Go(r, "done")
  /\ UNCHANGED <<case, now, version, since, cache, route, on, hand, begun, served, webhook, left>>

----------------------------------------------------------------------------
\* The producer of the data, its webhooks, and time

Change(a) ==
  /\ Spend("changes")
  /\ version' = [version EXCEPT ![a] = @ + 1]
  /\ since' = [since EXCEPT ![a] = Append(@, now)]
  /\ UNCHANGED <<case, now, cache, leader, request, webhook>>

Call(h) ==
  /\ hook = "none" /\ h \in case.hooks
  /\ Spend("calls")
  /\ hook' = h
  /\ todo' = {k \in Keys : h \in Named(k).clearedBy}
  /\ asOf' = version
  /\ UNCHANGED <<case, now, version, since, cache, leader, request, cleared, late>>

\* Mutant: keys are matched, but not deleted.
ClearNothing(k) ==
  /\ k \in todo
  /\ todo' = todo \ {k}
  /\ cleared' = [cleared EXCEPT ![k] = asOf[Reads(k)]]
  /\ UNCHANGED <<case, now, version, since, cache, leader, request, hook, asOf, late, left>>

\* SCAN and DELETE, or the delete by id: one key after the other.
Clear(k) ==
  /\ k \in todo
  /\ todo' = todo \ {k}
  /\ cache' = [cache EXCEPT ![k] = NoEntry]
  /\ cleared' = [cleared EXCEPT ![k] = asOf[Reads(k)]]
  /\ late' = IF \E r \in Requests : Holds(r, k) /\ got[r] < asOf[Reads(k)]
             THEN late \cup {k} ELSE late
  /\ UNCHANGED <<case, now, version, since, leader, request, hook, asOf, left>>

\* The snapshots are published and the caller is told.
Answer ==
  /\ hook # "none" /\ todo = {}
  /\ hook' = "none"
  /\ UNCHANGED <<case, now, version, since, cache, leader, request, todo, asOf, cleared, late, left>>

Tick ==
  /\ Spend("ticks")
  /\ \A r \in Requests : pc[r] \in {"keep", "store"} => now - heldAt[r] < MaxFetch
  /\ now' = now + 1
  /\ UNCHANGED <<case, version, since, cache, leader, request, webhook>>

CachesNext ==
  \/ \E r \in Requests : Look(r) \/ Join(r) \/ Wake(r) \/ LookFails(r)
  \/ \E r \in Requests : LookInside(r) \/ Fetch(r) \/ Keep(r) \/ Store(r) \/ Release(r)
  \/ \E a \in {Reads(k) : k \in case.routes} : Change(a)
  \/ \E h \in Webhooks : Call(h)
  \/ \E k \in todo : Clear(k)
  \/ Answer
  \/ Tick

CachesSpec == CachesInit /\ [][CachesNext]_cacheVars

----------------------------------------------------------------------------
\* Types; what a request waits for is the event of another.
CachesTypeOK ==
  /\ case \in Cases /\ now \in Nat
  /\ version \in [Areas -> Nat \ {0}]
  /\ since \in [Areas -> Seq(Nat)] /\ \A a \in Areas : Len(since[a]) = version[a]
  /\ cache \in [Keys -> Entries \cup {NoEntry}]
  /\ leader \in [case.routes -> Requests \cup {NoRequest}]
  /\ pc \in [Requests -> {"new", "join", "wait", "fetch", "read", "keep", "store", "release", "done"}]
  /\ route \in [Requests -> case.routes]
  /\ on \in [Requests -> Requests \cup {NoRequest}]
  /\ got \in [Requests -> Nat] /\ begun \in [Requests -> Nat]
  /\ readAt \in [Requests -> Nat] /\ heldAt \in [Requests -> Nat]
  /\ served \in [Requests -> ServedAnswers \cup {NoEntry}]
  /\ todo \subseteq Keys /\ late \subseteq Keys
  /\ asOf \in [Areas -> Nat] /\ cleared \in [Keys -> Nat]

\* A version that was read at some time was the current one, which it may have ceased to be since.
Current(a, v, at) ==
  /\ v \in 1..version[a] /\ at <= now
  /\ v < version[a] => at <= since[a][v + 1]

\* What a request has in hand, what a handler keeps itself, what Redis keeps of a route and what was
\* served: how old it can be.
InHand ==
  \A r \in Requests : pc[r] \in {"keep", "store"} =>
    /\ Current(Reads(route[r]), got[r], readAt[r])
    /\ heldAt[r] <= readAt[r] + HandlerLife(route[r]) /\ now <= heldAt[r] + MaxFetch
    /\ pc[r] = "keep" => heldAt[r] = readAt[r]
InHandler ==
  \A k \in case.routes : \A i \in Inside(k) : cache[i] # NoEntry =>
    /\ Current(Reads(k), cache[i].version, cache[i].readAt)
    /\ cache[i].version \notin case.absent => cache[i].until <= cache[i].readAt + HandlerLife(k)
InRedis ==
  \A k \in case.routes : cache[k] # NoEntry =>
    /\ Current(Reads(k), cache[k].version, cache[k].readAt)
    /\ cache[k].until <= cache[k].readAt + HandlerLife(k) + MaxFetch + cache[k].life
Served ==
  \A r \in Requests : served[r] # NoEntry =>
    LET a == Reads(route[r])
        v == served[r].version
    IN  /\ v \in 1..version[a] /\ served[r].at <= now
        /\ v < version[a] =>
             served[r].at <= since[a][v + 1] + HandlerLife(route[r]) + MaxFetch + served[r].life

\* The inductive invariant behind FreshEnough.
AgeInv == CachesTypeOK /\ InHand /\ InHandler /\ InRedis /\ Served

\* However requests, webhooks and changes interleave, an answer was current at some moment not
\* longer ago than the time to live it was given, and the time its handler took to read it; the
\* handler of a news item may itself have kept it for an hour before, and taken that time for that
\* too (singleflight.py, news.py: the answers kept in Redis and those handed to waiting requests).
FreshEnough ==
  \A r \in Requests : served[r] # NoEntry =>
    LET a == Reads(route[r])
        v == served[r].version
    IN v < version[a] =>
         served[r].at - since[a][v + 1] <= HandlerLife(route[r]) + MaxFetch + served[r].life

\* A request made after a webhook cleared its key is not answered with what was there when the
\* webhook was called, unless a handler that had the old rows in hand caches them after the
\* clearing, or finds them under its own key, which the webhook clears later or missed in that way.
ClearedIsGone ==
  \A r \in Requests : served[r] # NoEntry /\ route[r] \notin late => served[r].version >= begun[r]

\* The one behind ClearedIsGone. A handler's own key that has been cleared is cleared as of the same
\* call as that of its route; what is kept, or in hand to be kept, is as new as the last clearing.
CallsOrdered ==
  /\ hook = "none" => todo = {}
  /\ \A a \in Areas : asOf[a] <= version[a]
  /\ \A k \in Keys : cleared[k] <= asOf[Reads(k)]
  /\ \A k \in case.routes : \A i \in Inside(k) : i \notin todo =>
       cleared[i] >= cleared[k] /\ (k \in todo => cleared[i] >= asOf[Reads(k)])
KeptSince == \A k \in Keys : k \notin late /\ cache[k] # NoEntry => cache[k].version >= cleared[k]
HeldSince == \A r \in Requests, k \in Keys : Holds(r, k) /\ k \notin late => got[r] >= cleared[k]
BegunSince ==
  \A r \in Requests : (pc[r] = "new" => served[r] = NoEntry) /\ begun[r] <= cleared[route[r]]
ClearInv == CachesTypeOK /\ CallsOrdered /\ KeptSince /\ HeldSince /\ BegunSince /\ ClearedIsGone

\* Nobody waits for ever: the event of a key is that of a request which is still at work on that
\* key and will set it, also when its handler raises; so no chain of waiting requests can close.
Woken ==
  \A k \in case.routes : leader[k] # NoRequest =>
    pc[leader[k]] \in {"fetch", "read", "keep", "store", "release"} /\ route[leader[k]] = k
=============================================================================
