------------------------------ MODULE Streams --------------------------------
(***************************************************************************)
(* The server-sent events of api-web/app/sse.py.  One reader per process   *)
(* takes the messages of Redis pub/sub, gives each an id, keeps it in a    *)
(* replay buffer (and, if configured, in a replay store in Redis) and puts *)
(* it into the queue of every client subscribed to its channel.  A client  *)
(* that comes back names the last id it has seen, and is sent what the     *)
(* buffer has since then before what is in its queue.                      *)
(*                                                                         *)
(* All coroutines share one event loop: what they do between two awaits is *)
(* one step.  A message stands for its payload; of that only the kind is   *)
(* kept, which decides whether a stream forwards it.                       *)
(*                                                                         *)
(* Ids are only compared.  Those of the server's own events (connected,    *)
(* snapshot, heartbeat) lie between the ids of two messages; such an event *)
(* is taken to have the id of the message before it, and 1 before any.     *)
(***************************************************************************)
EXTENDS Naturals, FiniteSets, Sequences

CONSTANTS
  Clients,
  Messages,       \* what may be published, in any order
  ChannelOf, KindOf,
  NoMessage,
  MaxConnections, \* SSE_MAX_CONNECTIONS
  QueueSize,      \* SSE_CLIENT_QUEUE_SIZE
  MaxEvents,      \* SSE_REPLAY_MAX_EVENTS
  Cases           \* cases that are explored, each with bounds of the model: who connects to which
                  \* streams, how often, which messages come, and the number of crashes and restarts

ASSUME ConstantsAssumption ==
  /\ IsFiniteSet(Clients) /\ IsFiniteSet(Messages)
  /\ NoMessage \notin Messages
  /\ MaxConnections \in Nat \ {0} /\ QueueSize \in Nat \ {0} /\ MaxEvents \in Nat \ {0}
  /\ \A k \in Cases : k.clients \subseteq Clients /\ k.messages \subseteq Messages

VARIABLES
  case,           \* the one of Cases this behaviour is about
  durable,        \* SSE_REPLAY_REDIS_ENABLED
  wire,           \* messages published and not yet read by the reader
  published,
  id,             \* the id each message was given, 0 for none
  lastId,         \* _SSE_EVENT_ID_LAST
  buffer,         \* EventReplayBuffer: messages, oldest first
  store,          \* RedisEventReplayStore, of all channels
  reader,         \* down, or starting (the lock is held), or up
  storing,        \* the message the reader is writing to Redis
  subscribed,     \* _subscriptions: the stream of each client that has a queue
  queue,
  active,         \* _active_connections
  stream, pc,     \* what each client asked for, and how far its coroutine is
  todo,           \* what is to be replayed
  replayed,
  seen,           \* at the client: the last id it received, 0 for none
  have,           \* messages it has received
  base,           \* what it named as the last id when it connected (history)
  since,          \* the last id given out when it subscribed (history)
  missed,         \* messages dropped from its queue, or no longer kept when it came (history)
  leaked,         \* connections counted that no coroutine will uncount (history)
  faults, visits

server == <<id, lastId, buffer, store, storing>>
fanout == <<reader, subscribed, queue>>
browser == <<seen, have>>
history == <<base, since, missed, leaked>>
coroutine == <<stream, pc, todo, replayed>>
bounds == <<faults, visits>>
vars == <<case, durable, wire, published, server, fanout, active, coroutine, browser, history, bounds>>

\* An endpoint: its channels, the kinds of message it forwards live and on replay, and whether it
\* starts with a snapshot.  `candle' is one of the symbol asked for, `other' one of another.
Stream(channels, live, replays, snapshot) ==
  [channels |-> channels, live |-> live, replayed |-> replays, snapshot |-> snapshot]

NoStream == Stream({}, {}, {}, FALSE)
\* stream_candles: everything of the channel counts as replayed, also what the filter drops.
Candles == Stream({"candles"}, {"candle"}, {"candle"}, TRUE)
AllCandles == Stream({"candles"}, {"candle", "other"}, {"candle", "other"}, FALSE)
News == Stream({"news"}, {"news"}, {"news"}, TRUE)
Strategies == Stream({"strategies"}, {"strategy"}, {"strategy"}, TRUE)
\* stream_signals: what its generator forwards live, but for the regime, it replays.
Signals == Stream({"candles", "news", "strategies", "regime"}, {"candle", "news", "strategy", "regime"},
                  {"candle", "news", "strategy"}, TRUE)

Endpoints == {Candles, AllCandles, News, Strategies, Signals}

ASSUME StreamsAssumption == \A k \in Cases : k.streams \subseteq Endpoints

Elements(q) == {q[i] : i \in DOMAIN q}

Init ==
  /\ case \in Cases
  /\ durable \in BOOLEAN
  /\ wire = <<>> /\ published = {}
  /\ id = [m \in Messages |-> 0] /\ lastId = 1
  /\ buffer = <<>> /\ store = <<>> /\ storing = NoMessage
  /\ reader = "down"
  /\ subscribed = [c \in Clients |-> NoStream]
  /\ queue = [c \in Clients |-> <<>>]
  /\ active = 0 /\ leaked = 0
  /\ stream = [c \in Clients |-> NoStream]
  /\ pc = [c \in Clients |-> "away"]
  /\ todo = [c \in Clients |-> <<>>]
  /\ replayed = [c \in Clients |-> FALSE]
  /\ seen = [c \in Clients |-> 0] /\ have = [c \in Clients |-> {}]
  /\ base = [c \in Clients |-> 0] /\ since = [c \in Clients |-> 0]
  /\ missed = [c \in Clients |-> {}]
  /\ faults = 0 /\ visits = [c \in Clients |-> 0]

----------------------------------------------------------------------------
\* The reader

\* Redis delivers to the subscriptions there are: what is published while there is none is lost.
Publish ==
  /\ \E m \in case.messages \ published :
       /\ published' = published \cup {m}
       /\ wire' = IF reader = "up" THEN Append(wire, m) ELSE wire
  /\ UNCHANGED <<case, durable, server, fanout, active, coroutine, browser, history, bounds>>

\* _prune: too many, or too old; how old the oldest entries are is left open.
Pruned(kept) ==
  {SubSeq(kept, k, Len(kept)) : k \in {j \in 1..(Len(kept) + 1) : Len(kept) - j + 1 <= MaxEvents}}

\* The queues of the channel, oldest item first out when one is full.
PutAll(m) ==
  LET to == {c \in Clients : ChannelOf[m] \in subscribed[c].channels}
  IN /\ queue' = [c \in Clients |-> IF c \notin to THEN queue[c]
                    ELSE IF Len(queue[c]) >= QueueSize THEN Append(Tail(queue[c]), m)
                    ELSE Append(queue[c], m)]
     /\ missed' = [c \in Clients |-> IF c \in to /\ Len(queue[c]) >= QueueSize
                    THEN missed[c] \cup {Head(queue[c])} ELSE missed[c]]

\* _reader_loop: the next message gets its id and is buffered, and is handed to the queues at
\* once, or after the replay store has answered.
ReaderTakes ==
  /\ reader = "up" /\ storing = NoMessage /\ wire # <<>>
  /\ LET m == Head(wire)
     IN /\ id' = [id EXCEPT ![m] = lastId + 1]
        /\ \E kept \in Pruned(Append(buffer, m)) : buffer' = kept
        /\ IF durable THEN storing' = m /\ UNCHANGED <<queue, missed>>
                      ELSE PutAll(m) /\ UNCHANGED storing
  /\ lastId' = lastId + 1
  /\ wire' = Tail(wire)
  /\ UNCHANGED <<case, durable, published, store, reader, subscribed, active, coroutine, browser, base,
                 since, leaked, bounds>>

\* The store keeps the newest; a write that fails or times out is only logged.
ReaderStored ==
  /\ storing # NoMessage
  /\ \/ \E kept \in Pruned(Append(store, storing)) : store' = kept
     \/ UNCHANGED store
  /\ PutAll(storing)
  /\ storing' = NoMessage
  /\ UNCHANGED <<case, durable, wire, published, id, lastId, buffer, reader, subscribed, active,
                 coroutine, browser, base, since, leaked, bounds>>

\* The connection breaks: the reader ends, with what was on its way, and nobody is told.
ReaderCrash ==
  /\ reader = "up" /\ storing = NoMessage /\ faults < case.faults
  /\ reader' = "down" /\ wire' = <<>>
  /\ faults' = faults + 1
  /\ UNCHANGED <<case, durable, published, server, subscribed, queue, active, coroutine, browser,
                 history, visits>>

\* The process starts again: connections, queues, counters and the buffer are gone, the store
\* is not, and ids go on from the clock.
Restart ==
  /\ faults < case.faults
  /\ faults' = faults + 1
  /\ wire' = <<>> /\ buffer' = <<>> /\ storing' = NoMessage
  /\ reader' = "up"
  /\ subscribed' = [c \in Clients |-> NoStream]
  /\ queue' = [c \in Clients |-> <<>>]
  /\ active' = 0 /\ leaked' = 0
  /\ stream' = [c \in Clients |-> NoStream]
  /\ pc' = [c \in Clients |-> "away"]
  /\ todo' = [c \in Clients |-> <<>>]
  /\ replayed' = [c \in Clients |-> FALSE]
  /\ UNCHANGED <<case, durable, published, id, lastId, store, browser, base, since, missed, visits>>

----------------------------------------------------------------------------
\* A stream, from the request to the end of its generator.

Become(c, l) == pc' = [pc EXCEPT ![c] = l]

\* stream_candles, stream_news, ...: the limit is checked before Redis is asked how it is.
Ask(c) ==
  /\ pc[c] = "away" /\ c \in case.clients /\ visits[c] < case.visits
  /\ active < MaxConnections
  /\ \E s \in case.streams : stream' = [stream EXCEPT ![c] = s]
  /\ Become(c, "ping")
  /\ visits' = [visits EXCEPT ![c] = @ + 1]
  /\ UNCHANGED <<case, durable, wire, published, server, fanout, active, todo, replayed, browser,
                 history, faults>>

\* Mutant: a connection is counted before Redis has answered.
AdmitEarly(c) ==
  /\ pc[c] = "ping"
  /\ active' = active + 1
  /\ Become(c, "admitted") \/ Become(c, "away")
  /\ UNCHANGED <<case, durable, wire, published, server, fanout, stream, todo, replayed, browser,
                 history, bounds>>

\* _ensure_admission: refused when Redis is slow or down, and counted otherwise.
Admit(c) ==
  /\ pc[c] = "ping"
  /\ \/ active' = active + 1 /\ Become(c, "admitted")
     \/ UNCHANGED active /\ Become(c, "away")
  /\ UNCHANGED <<case, durable, wire, published, server, fanout, stream, todo, replayed, browser,
                 history, bounds>>

\* The client goes before its generator has begun, whose finally clause never runs.
GoneBefore(c) ==
  /\ pc[c] = "admitted"
  /\ leaked' = leaked + 1
  /\ Become(c, "away")
  /\ UNCHANGED <<case, durable, wire, published, server, fanout, active, stream, todo, replayed,
                 browser, base, since, missed, bounds>>

Kept == Elements(buffer) \cup (IF durable THEN Elements(store) ELSE {})

\* Mutant: what is to be replayed is read before the queue is there.
SubscribeLater(c) ==
  /\ pc[c] = "admitted" /\ reader = "up"
  /\ queue' = [queue EXCEPT ![c] = <<>>]
  /\ base' = [base EXCEPT ![c] = seen[c]]
  /\ since' = [since EXCEPT ![c] = lastId]
  /\ missed' = [missed EXCEPT ![c] = {m \in Messages : id[m] # 0 /\ m \notin Kept}]
  /\ replayed' = [replayed EXCEPT ![c] = FALSE]
  /\ todo' = [todo EXCEPT ![c] = <<>>]
  /\ Become(c, "connected")
  /\ UNCHANGED <<case, durable, wire, published, server, reader, subscribed, active, stream, browser,
                 leaked, bounds>>

\* subscribe: the reader is started if there is none, and then, without an await, the queue.
Subscribe(c) ==
  /\ pc[c] = "admitted" /\ reader = "up"
  /\ subscribed' = [subscribed EXCEPT ![c] = stream[c]]
  /\ queue' = [queue EXCEPT ![c] = <<>>]
  /\ base' = [base EXCEPT ![c] = seen[c]]
  /\ since' = [since EXCEPT ![c] = lastId]
  /\ missed' = [missed EXCEPT ![c] = {}]
  /\ replayed' = [replayed EXCEPT ![c] = FALSE]
  /\ todo' = [todo EXCEPT ![c] = <<>>]
  /\ Become(c, "connected")
  /\ UNCHANGED <<case, durable, wire, published, server, reader, active, stream, browser, leaked, bounds>>

\* ensure_started: the first one takes the lock and starts the reader, the others wait.
StartReader(c) ==
  /\ pc[c] = "admitted" /\ reader = "down"
  /\ reader' = "starting"
  /\ Become(c, "starting")
  /\ UNCHANGED <<case, durable, wire, published, server, subscribed, queue, active, stream, todo,
                 replayed, browser, history, bounds>>

\* When Redis refuses, the generator ends in an error.
ReaderStarts(c) ==
  /\ pc[c] = "starting"
  /\ \/ reader' = "up" /\ Become(c, "admitted")
     \/ reader' = "down" /\ Become(c, "closing")
  /\ UNCHANGED <<case, durable, wire, published, server, subscribed, queue, active, stream, todo,
                 replayed, browser, history, bounds>>

\* stream_health starts the reader as well, and waits a second for it.
Health ==
  /\ reader = "down"
  /\ reader' = "up"
  /\ UNCHANGED <<case, durable, wire, published, server, subscribed, queue, active, coroutine, browser,
                 history, bounds>>

\* An event of the server's own has an id as well, later than all so far.
Tell(c) == seen' = [seen EXCEPT ![c] = lastId] /\ UNCHANGED have

Connected(c) ==
  /\ pc[c] = "connected"
  /\ Tell(c)
  /\ Become(c, IF base[c] # 0 THEN "replay" ELSE "snapshot")
  /\ UNCHANGED <<case, durable, wire, published, server, fanout, active, stream, todo, replayed,
                 history, bounds>>

\* The messages of T, oldest id first.
ById(T) ==
  CHOOSE q \in [1..Cardinality(T) -> T] : \A i, j \in 1..Cardinality(T) : i < j => id[q[i]] < id[q[j]]

\* The messages of S newer than what the client named, by id.
Since(c, S) == ById({m \in S : ChannelOf[m] \in stream[c].channels /\ id[m] > base[c]})

\* _get_replay_events_since: the buffer first, ...
Replay(c) ==
  /\ pc[c] = "replay"
  /\ \E kept \in Pruned(buffer) :
       /\ buffer' = kept
       /\ todo' = [todo EXCEPT ![c] = Since(c, Elements(kept))]
       /\ missed' = [missed EXCEPT ![c] = @ \cup
            {m \in Messages : id[m] # 0 /\ id[m] <= since[c] /\ m \notin Elements(kept)}]
  /\ Become(c, IF durable THEN "fetch" ELSE "sending")
  /\ UNCHANGED <<case, durable, wire, published, id, lastId, store, storing, fanout, active, stream,
                 replayed, browser, base, since, leaked, bounds>>

\* ... then, with an await, the store, unless it fails; both are merged by id.
ReplayStore(c) ==
  /\ pc[c] = "fetch"
  /\ \/ /\ todo' = [todo EXCEPT ![c] = Since(c, Elements(todo[c]) \cup Elements(store))]
        /\ missed' = [missed EXCEPT ![c] = @ \ Elements(todo'[c])]
     \/ UNCHANGED <<todo, missed>>
  /\ Become(c, "sending")
  /\ UNCHANGED <<case, durable, wire, published, server, fanout, active, stream, replayed, browser,
                 base, since, leaked, bounds>>

Receive(c, m) ==
  /\ seen' = [seen EXCEPT ![c] = id[m]]
  /\ have' = [have EXCEPT ![c] = @ \cup {m}]

\* One message of the replay is sent, if the stream forwards its kind there.
Send(c) ==
  /\ pc[c] = "sending" /\ todo[c] # <<>>
  /\ IF KindOf[Head(todo[c])] \in stream[c].replayed
       THEN Receive(c, Head(todo[c]))
       ELSE UNCHANGED browser
  /\ replayed' = [replayed EXCEPT ![c] = @ \/ stream[c] # Signals \/ KindOf[Head(todo[c])] \in stream[c].replayed]
  /\ todo' = [todo EXCEPT ![c] = Tail(@)]
  /\ UNCHANGED <<case, durable, wire, published, server, fanout, active, stream, pc, history, bounds>>

Sent(c) ==
  /\ pc[c] = "sending" /\ todo[c] = <<>>
  /\ Become(c, IF replayed[c] THEN "live" ELSE "snapshot")
  /\ UNCHANGED <<case, durable, wire, published, server, fanout, active, stream, todo, replayed, browser,
                 history, bounds>>

\* Nothing was replayed: the client gets the present state, if the stream has one.
Snapshot(c) ==
  /\ pc[c] = "snapshot"
  /\ IF stream[c].snapshot THEN Tell(c) ELSE UNCHANGED browser
  /\ Become(c, "live")
  /\ UNCHANGED <<case, durable, wire, published, server, fanout, active, stream, todo, replayed,
                 history, bounds>>

\* The next item of the queue, or, when there is none for long enough, a heartbeat.
Forward(c) ==
  /\ pc[c] = "live" /\ queue[c] # <<>>
  /\ IF KindOf[Head(queue[c])] \in stream[c].live THEN Receive(c, Head(queue[c]))
                                                  ELSE UNCHANGED browser
  /\ queue' = [queue EXCEPT ![c] = Tail(@)]
  /\ UNCHANGED <<case, durable, wire, published, server, reader, subscribed, active, coroutine, history,
                 bounds>>

Heartbeat(c) ==
  /\ pc[c] = "live" /\ queue[c] = <<>>
  /\ Tell(c)
  /\ UNCHANGED <<case, durable, wire, published, server, fanout, active, coroutine, history, bounds>>

\* The client is gone, or a write to it fails: the generator is cancelled where it is.
Disconnect(c) ==
  /\ pc[c] \in {"connected", "replay", "fetch", "sending", "snapshot", "live"}
  /\ Become(c, "closing")
  /\ UNCHANGED <<case, durable, wire, published, server, fanout, active, stream, todo, replayed, browser,
                 history, bounds>>

\* finally: unsubscribe and connection_closed.
Close(c) ==
  /\ pc[c] = "closing"
  /\ subscribed' = [subscribed EXCEPT ![c] = NoStream]
  /\ queue' = [queue EXCEPT ![c] = <<>>]
  /\ active' = IF active > 0 THEN active - 1 ELSE 0
  /\ todo' = [todo EXCEPT ![c] = <<>>]
  /\ Become(c, "away")
  /\ UNCHANGED <<case, durable, wire, published, server, reader, stream, replayed, browser, history, bounds>>

Serve(c) ==
  \/ Admit(c) \/ Subscribe(c) \/ StartReader(c) \/ ReaderStarts(c) \/ Connected(c) \/ Replay(c)
  \/ ReplayStore(c) \/ Send(c) \/ Sent(c) \/ Snapshot(c) \/ Forward(c) \/ Close(c)

Next ==
  \/ Publish \/ ReaderTakes \/ ReaderStored \/ ReaderCrash \/ Restart \/ Health
  \/ \E c \in Clients : Serve(c) \/ Ask(c) \/ GoneBefore(c) \/ Heartbeat(c) \/ Disconnect(c)

Spec == Init /\ [][Next]_vars

----------------------------------------------------------------------------
\* Properties

Open(c) == pc[c] \notin {"away", "ping"}
Queued(c) == pc[c] \in {"connected", "replay", "fetch", "sending", "snapshot", "live"}

\* Ids, queues and buffers are within their limits, and a queue holds messages of its channels.
TypeOK ==
  /\ lastId \in Nat /\ id \in [Messages -> 0..lastId]
  /\ Len(buffer) <= MaxEvents /\ Len(store) <= MaxEvents
  /\ \A c \in Clients : /\ Len(queue[c]) <= QueueSize
                        /\ \A m \in Elements(queue[c]) : ChannelOf[m] \in subscribed[c].channels
  /\ storing \in Messages \cup {NoMessage} /\ reader \in {"down", "starting", "up"}

\* sse.py:478: a client that comes back with the last id it has seen gets every message that
\* was given a later id and is of a kind its stream replays: it has it, or it is on its list or
\* in its queue, or the queue was full, or the buffer no longer had it when the client came.  It says
\* nothing of messages with an earlier id: connected, snapshots and heartbeats take ids of the same
\* counter (:750, :794, :900, :1011), and what such an id overtook in the queue is never replayed.
NoGap ==
  \A c \in Clients : pc[c] \in {"sending", "snapshot", "live"} =>
    \A m \in Messages :
      /\ ChannelOf[m] \in stream[c].channels /\ KindOf[m] \in stream[c].replayed
      /\ m # storing
      /\ id[m] > IF base[c] # 0 THEN base[c] ELSE since[c]
      => m \in have[c] \cup Elements(todo[c]) \cup Elements(queue[c]) \cup missed[c]

\* sse.py:361: every connection that is counted is one whose generator will uncount it, besides
\* those whose client went before the generator began; none is uncounted twice.
CountMatches == active = Cardinality({c \in Clients : Open(c)}) + leaked
=============================================================================
