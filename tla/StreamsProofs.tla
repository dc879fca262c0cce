---------------------------- MODULE StreamsProofs -----------------------------
(***************************************************************************)
(* Theorems about Streams, for any number of clients, messages, faults and *)
(* limits.                                                                 *)
(***************************************************************************)
EXTENDS Streams, FiniteSetTheorems, TLAPS

\* Where a client can be, and the counters.
Places == {"away", "ping", "admitted", "starting", "connected", "replay", "fetch", "sending",
           "snapshot", "live", "closing"}
Counters == pc \in [Clients -> Places] /\ active \in Nat /\ leaked \in Nat

\* The inductive invariant: the counter is exact because every client that is open will come,
\* once, to connection_closed, or was given up before its generator began.
CountInv == Counters /\ CountMatches

OpenClients == {c \in Clients : Open(c)}

LEMMA OpenIsFinite == IsFiniteSet(OpenClients) /\ Cardinality(OpenClients) \in Nat
<1>1. OpenClients \subseteq Clients /\ IsFiniteSet(Clients)
  BY ConstantsAssumption DEF OpenClients
<1>2. IsFiniteSet(OpenClients)
  BY <1>1, FS_Subset
<1> QED
  BY <1>2, FS_CardinalityType

\* A step after which the same clients are open leaves the counters as they are.
LEMMA SameOpen ==
  ASSUME CountInv, UNCHANGED <<active, leaked>>, pc' \in [Clients -> Places],
         \A c \in Clients : Open(c)' <=> Open(c)
  PROVE  CountInv'
<1>1. {c \in Clients : Open(c)}' = {c \in Clients : Open(c)}
  OBVIOUS
<1> QED
  BY <1>1 DEF CountInv, Counters, CountMatches

\* One client more, one client less.
LEMMA OpenOne ==
  ASSUME CountInv, NEW c \in Clients, ~Open(c), Open(c)', pc' \in [Clients -> Places],
         \A d \in Clients \ {c} : pc'[d] = pc[d], active' = active + 1, leaked' = leaked
  PROVE  CountInv'
<1>1. OpenClients' = OpenClients \cup {c} /\ c \notin OpenClients
  BY DEF OpenClients, Open
<1>2. Cardinality(OpenClients') = Cardinality(OpenClients) + 1
  BY <1>1, OpenIsFinite, FS_AddElement
<1> QED
  BY <1>2, OpenIsFinite DEF CountInv, Counters, CountMatches, OpenClients

LEMMA CloseOne ==
  ASSUME CountInv, NEW c \in Clients, Open(c), ~Open(c)', pc' \in [Clients -> Places],
         \A d \in Clients \ {c} : pc'[d] = pc[d],
         \/ leaked' = leaked /\ active' = IF active > 0 THEN active - 1 ELSE 0
         \/ leaked' = leaked + 1 /\ active' = active
  PROVE  CountInv'
<1>1. OpenClients' = OpenClients \ {c} /\ c \in OpenClients
  BY DEF OpenClients, Open
<1>2. Cardinality(OpenClients') = Cardinality(OpenClients) - 1 /\ Cardinality(OpenClients) # 0
  BY <1>1, OpenIsFinite, FS_RemoveElement, FS_EmptySet
<1> QED
  BY <1>2, OpenIsFinite DEF CountInv, Counters, CountMatches, OpenClients

\* CountMatches: sse.py counts exactly the open connections and those given up before they began,
\* for every limit, whoever crashes, restarts or goes away.
THEOREM ConnectionsCounted == Spec => []CountMatches
<1>1. Init => CountInv
  <2> SUFFICES ASSUME Init PROVE CountInv
    OBVIOUS
  <2>1. {c \in Clients : Open(c)} = {}
    BY DEF Init, Open
  <2>2. active = Cardinality({c \in Clients : Open(c)}) + leaked
    <3>1. active = 0 /\ leaked = 0
      BY DEF Init
    <3> QED
      BY <2>1, <3>1, FS_EmptySet
  <2> QED
    BY <2>2 DEF Init, CountInv, Counters, CountMatches, Places
<1>2. CountInv /\ [Next]_vars => CountInv'
  <2> SUFFICES ASSUME CountInv, [Next]_vars PROVE CountInv'
    OBVIOUS
  <2> USE DEF Become, Places
  <2>1. CASE UNCHANGED <<active, leaked, pc>>
    BY <2>1 DEF CountInv, Counters, CountMatches, Open
  <2>2. CASE Publish \/ ReaderTakes \/ ReaderStored \/ ReaderCrash \/ Health \/ UNCHANGED vars
    BY <2>1, <2>2 DEF Publish, ReaderTakes, ReaderStored, ReaderCrash, Health, vars, coroutine, history
  <2>3. CASE Restart
    <3>1. {c \in Clients : Open(c)}' = {} /\ active' = 0 /\ leaked' = 0
      BY <2>3 DEF Restart, Open
    <3>2. active' = Cardinality({c \in Clients : Open(c)}') + leaked'
      BY <3>1, FS_EmptySet
    <3> QED
      BY <2>3, <3>1, <3>2 DEF Restart, CountInv, Counters, CountMatches
  <2>4. ASSUME NEW c \in Clients, Ask(c) \/ Subscribe(c) \/ StartReader(c) \/ ReaderStarts(c) \/ Connected(c)
        PROVE  CountInv'
    <3>1. /\ UNCHANGED <<active, leaked>> /\ pc' \in [Clients -> Places]
          /\ \A d \in Clients : Open(d)' <=> Open(d)
      BY <2>4 DEF CountInv, Counters, Open, Ask, Subscribe, StartReader, ReaderStarts, Connected, history
    <3> QED
      BY <3>1, SameOpen
  <2>5. ASSUME NEW c \in Clients, Replay(c) \/ ReplayStore(c) \/ Sent(c) \/ Snapshot(c) \/ Disconnect(c)
        PROVE  CountInv'
    <3>1. /\ UNCHANGED <<active, leaked>> /\ pc' \in [Clients -> Places]
          /\ \A d \in Clients : Open(d)' <=> Open(d)
      BY <2>5 DEF CountInv, Counters, Open, Replay, ReplayStore, Sent, Snapshot, Disconnect, history
    <3> QED
      BY <3>1, SameOpen
  <2>6. ASSUME NEW c \in Clients, Send(c) \/ Forward(c) \/ Heartbeat(c)
        PROVE  CountInv'
    BY <2>1, <2>6 DEF Send, Forward, Heartbeat, coroutine, history
  <2>7. ASSUME NEW c \in Clients, Admit(c)
        PROVE  CountInv'
    <3>1. CASE active' = active + 1 /\ pc' = [pc EXCEPT ![c] = "admitted"]
      <4>1. /\ ~Open(c) /\ Open(c)' /\ pc' \in [Clients -> Places] /\ leaked' = leaked
            /\ \A d \in Clients \ {c} : pc'[d] = pc[d]
        BY <2>7, <3>1 DEF Admit, CountInv, Counters, Open, history
      <4> QED
        BY <3>1, <4>1, OpenOne
    <3>2. CASE UNCHANGED active /\ pc' = [pc EXCEPT ![c] = "away"]
      <4>1. /\ leaked' = leaked /\ pc' \in [Clients -> Places]
            /\ \A d \in Clients : Open(d)' <=> Open(d)
        BY <2>7, <3>2 DEF Admit, CountInv, Counters, Open, history
      <4> QED
        BY <3>2, <4>1, SameOpen
    <3> QED
      BY <2>7, <3>1, <3>2 DEF Admit
  <2>8. ASSUME NEW c \in Clients, GoneBefore(c) \/ Close(c)
        PROVE  CountInv'
    <3>1. /\ Open(c) /\ ~Open(c)' /\ pc' \in [Clients -> Places]
          /\ \A d \in Clients \ {c} : pc'[d] = pc[d]
          /\ \/ leaked' = leaked /\ active' = IF active > 0 THEN active - 1 ELSE 0
             \/ leaked' = leaked + 1 /\ active' = active
      BY <2>8 DEF GoneBefore, Close, CountInv, Counters, Open, history
    <3> QED
      BY <3>1, CloseOne
  <2> QED
    BY <2>2, <2>3, <2>4, <2>5, <2>6, <2>7, <2>8 DEF Next, Serve
<1>3. CountInv => CountMatches
  BY DEF CountInv
<1> QED
  BY <1>1, <1>2, <1>3, PTL DEF Spec

-----------------------------------------------------------------------------
\* Sequences and queues

LEMMA TailElements ==
  ASSUME NEW S, NEW q \in Seq(S), q # <<>>
  PROVE  /\ Head(q) \in S /\ Tail(q) \in Seq(S)
         /\ Elements(q) \subseteq {Head(q)} \cup Elements(Tail(q))
<1>1. Head(q) = q[1] /\ Head(q) \in S /\ Tail(q) \in Seq(S) /\ Len(q) \in Nat \ {0}
  OBVIOUS
<1>2. \A i \in 1..Len(q) : i # 1 => i - 1 \in 1..Len(Tail(q)) /\ q[i] = Tail(q)[i - 1]
  OBVIOUS
<1>3. DOMAIN q = 1..Len(q) /\ DOMAIN Tail(q) = 1..Len(Tail(q))
  BY <1>1
<1>4. ASSUME NEW i \in 1..Len(q), q[i] # Head(q)
      PROVE  q[i] \in Elements(Tail(q))
  BY <1>1, <1>2, <1>3, <1>4 DEF Elements
<1>5. Elements(q) \subseteq {Head(q)} \cup Elements(Tail(q))
  BY <1>3, <1>4 DEF Elements
<1> QED
  BY <1>1, <1>5

LEMMA AppendElements ==
  ASSUME NEW S, NEW q \in Seq(S), NEW m \in S
  PROVE  /\ Append(q, m) \in Seq(S) /\ m \in Elements(Append(q, m))
         /\ Elements(q) \subseteq Elements(Append(q, m))
<1>1. /\ Append(q, m) \in Seq(S) /\ Len(Append(q, m)) = Len(q) + 1
      /\ Append(q, m)[Len(q) + 1] = m /\ \A i \in 1..Len(q) : Append(q, m)[i] = q[i]
  OBVIOUS
<1>2. DOMAIN q = 1..Len(q) /\ DOMAIN Append(q, m) = 1..(Len(q) + 1) /\ Len(q) \in Nat
  BY <1>1
<1>3. Elements(q) \subseteq Elements(Append(q, m))
  BY <1>1, <1>2 DEF Elements
<1>4. m \in Elements(Append(q, m))
  BY <1>1, <1>2 DEF Elements
<1> QED
  BY <1>1, <1>3, <1>4

LEMMA PrunedType ==
  ASSUME NEW S, NEW q \in Seq(S), NEW kept \in Pruned(q)
  PROVE  kept \in Seq(S)
<1>1. PICK k \in 1..(Len(q) + 1) : kept = SubSeq(q, k, Len(q))
  BY DEF Pruned
<1>2. \A i \in k..Len(q) : q[i] \in S
  BY <1>1
<1> QED
  BY <1>1, <1>2

\* A list ordered by id holds every message it is made of: the rank of each is a place of its own.
LEMMA ByIdHasAll ==
  ASSUME NEW T \in SUBSET Messages, id \in [Messages -> Nat], \A a, b \in T : id[a] = id[b] => a = b
  PROVE  ById(T) \in Seq(Messages) /\ T \subseteq Elements(ById(T))
<1> DEFINE n == Cardinality(T)
           Below(m) == {x \in T : id[x] <= id[m]}
           rank == [m \in T |-> Cardinality(Below(m))]
           q == [i \in 1..n |-> CHOOSE m \in T : rank[m] = i]
           Sorted(f) == \A i, j \in 1..n : i < j => id[f[i]] < id[f[j]]
<1>1. IsFiniteSet(T) /\ n \in Nat
  BY ConstantsAssumption, FS_Subset, FS_CardinalityType
<1>2. \A m \in T : IsFiniteSet(Below(m)) /\ Cardinality(Below(m)) \in 1..n
  <2> TAKE m \in T
  <2>1. Below(m) \subseteq T /\ m \in Below(m)
    OBVIOUS
  <2>2. IsFiniteSet(Below(m)) /\ Cardinality(Below(m)) <= n
    BY <1>1, <2>1, FS_Subset
  <2>3. Cardinality(Below(m)) \in Nat /\ Cardinality(Below(m)) # 0
    BY <2>1, <2>2, FS_CardinalityType, FS_EmptySet
  <2> HIDE DEF n, Below
  <2> QED
    BY <1>1, <2>2, <2>3
<1>3. ASSUME NEW a \in T, NEW b \in T, id[a] < id[b]
      PROVE  rank[a] < rank[b]
  <2>1. Below(a) \subseteq Below(b) /\ b \in Below(b) /\ b \notin Below(a)
    BY <1>3
  <2>2. /\ Cardinality(Below(a)) <= Cardinality(Below(b))
        /\ Cardinality(Below(a)) # Cardinality(Below(b))
    BY <1>2, <2>1, FS_Subset
  <2>3. rank[a] = Cardinality(Below(a)) /\ rank[b] = Cardinality(Below(b))
    OBVIOUS
  <2> HIDE DEF n, Below, rank
  <2>4. Cardinality(Below(a)) \in Nat /\ Cardinality(Below(b)) \in Nat
    BY <1>1, <1>2
  <2> QED
    BY <2>2, <2>3, <2>4
<1>4. rank \in [T -> 1..n]
  BY <1>2
<1> HIDE DEF Below, rank
<1>5. rank \in Injection(T, 1..n)
  <2>1. ASSUME NEW a \in T, NEW b \in T, rank[a] = rank[b]
        PROVE  a = b
    BY <1>1, <1>3, <1>4, <2>1
  <2> QED
    BY <1>4, <2>1 DEF Injection, IsInjective
<1>6. rank \in Surjection(T, 1..n)
  <2>1. IsFiniteSet(1..n) /\ Cardinality(1..n) = n
    BY <1>1, FS_Interval
  <2> QED
    BY <1>5, <2>1, FS_Injection
<1>7. \A i \in 1..n : q[i] \in T /\ rank[q[i]] = i
  <2>1. \A i \in 1..n : \E m \in T : rank[m] = i
    BY <1>6 DEF Surjection
  <2> QED
    BY <2>1
<1>8. q \in [1..n -> T] /\ Sorted(q)
  <2>1. q \in [1..n -> T]
    BY <1>7
  <2>2. ASSUME NEW i \in 1..n, NEW j \in 1..n, i < j
        PROVE  id[q[i]] < id[q[j]]
    <3>1. q[i] \in T /\ q[j] \in T /\ rank[q[i]] = i /\ rank[q[j]] = j
      BY <1>7
    <3>2. id[q[j]] < id[q[i]] => j < i
      BY <1>3, <3>1
    <3>3. id[q[i]] # id[q[j]]
      BY <2>2, <3>1
    <3>4. id[q[i]] \in Nat /\ id[q[j]] \in Nat
      BY <3>1
    <3> QED
      BY <1>1, <2>2, <3>2, <3>3, <3>4
  <2> QED
    BY <2>1, <2>2
<1> HIDE DEF q
<1>9. ById(T) \in [1..n -> T] /\ Sorted(ById(T))
  BY <1>8 DEF ById
<1>10. ById(T) \in Injection(1..n, T)
  <2>1. ASSUME NEW i \in 1..n, NEW j \in 1..n, ById(T)[i] = ById(T)[j]
        PROVE  i = j
    <3>1. ById(T)[i] \in T /\ id[ById(T)[i]] \in Nat
      BY <1>9
    <3>2. ~ (i < j) /\ ~ (j < i)
      BY <1>9, <2>1, <3>1
    <3> QED
      BY <1>1, <3>2
  <2> QED
    BY <1>9, <2>1 DEF Injection, IsInjective
<1>11. ById(T) \in Surjection(1..n, T)
  <2>1. Cardinality(1..n) = Cardinality(T)
    BY <1>1, FS_Interval
  <2> QED
    BY <1>1, <1>10, <2>1, FS_Injection
<1>12. T \subseteq Elements(ById(T))
  BY <1>9, <1>11 DEF Surjection, Elements
<1>13. ById(T) \in Seq(Messages)
  BY <1>1, <1>9
<1> QED
  BY <1>12, <1>13

-----------------------------------------------------------------------------
\* What a client that comes back is sent

GapTypes ==
  /\ case \in Cases
  /\ lastId \in Nat /\ id \in [Messages -> Nat]
  /\ wire \in Seq(Messages) /\ buffer \in Seq(Messages) /\ store \in Seq(Messages)
  /\ storing \in Messages \cup {NoMessage}
  /\ stream \in [Clients -> Endpoints \cup {NoStream}]
  /\ subscribed \in [Clients -> Endpoints \cup {NoStream}]
  /\ queue \in [Clients -> Seq(Messages)] /\ todo \in [Clients -> Seq(Messages)]
  /\ have \in [Clients -> SUBSET Messages] /\ missed \in [Clients -> SUBSET Messages]
  /\ seen \in [Clients -> Nat] /\ base \in [Clients -> Nat] /\ since \in [Clients -> Nat]
  /\ pc \in [Clients -> Places]

Served == {"fetch", "sending", "snapshot", "live"}
Heard(c, m) ==
  ChannelOf[m] \in stream[c].channels /\ KindOf[m] \in stream[c].replayed /\ m # storing
Due(c, m) ==
  \/ id[m] > since[c]
  \/ pc[c] \in Served /\ base[c] # 0 /\ id[m] > base[c]
Accounted(c, m) == m \in have[c] \cup Elements(todo[c]) \cup Elements(queue[c]) \cup missed[c]

\* From its subscription on a client's queue collects what is given an id, and from the replay on
\* its list has what was given one before.
Listening(c) ==
  /\ seen[c] <= lastId
  /\ pc[c] # "away" => stream[c] \in Endpoints
  /\ Queued(c) => /\ subscribed[c] = stream[c]
                  /\ base[c] <= since[c] /\ since[c] <= lastId
                  /\ pc[c] \in {"connected", "replay"} => todo[c] = <<>>
                  /\ \A m \in Messages : Heard(c, m) /\ Due(c, m) => Accounted(c, m)

\* No id is given twice.
IdsDiffer ==
  /\ \A m \in Messages : id[m] <= lastId
  /\ \A a, b \in Messages : id[a] = id[b] /\ id[a] # 0 => a = b

\* The inductive invariant of NoGap.
GapInv == GapTypes /\ IdsDiffer /\ \A c \in Clients : Listening(c)

\* What a stream replays it forwards live as well.
LEMMA ReplayedIsLive ==
  ASSUME NEW s \in Endpoints
  PROVE  s.replayed \subseteq s.live
BY DEF Endpoints, Candles, AllCandles, News, Strategies, Signals, Stream

\* A full queue loses its oldest message and nothing else.
LEMMA HandedOut ==
  ASSUME GapTypes, NEW m \in Messages, PutAll(m)
  PROVE  /\ queue' \in [Clients -> Seq(Messages)] /\ missed' \in [Clients -> SUBSET Messages]
         /\ \A c \in Clients :
              /\ ChannelOf[m] \in subscribed[c].channels => m \in Elements(queue'[c])
              /\ Elements(queue[c]) \subseteq Elements(queue'[c]) \cup missed'[c]
              /\ missed[c] \subseteq missed'[c]
<1> DEFINE To(c) == ChannelOf[m] \in subscribed[c].channels
<1>1. \A c \in Clients :
        /\ queue'[c] = IF ~To(c) THEN queue[c]
             ELSE IF Len(queue[c]) >= QueueSize THEN Append(Tail(queue[c]), m) ELSE Append(queue[c], m)
        /\ missed'[c] = IF To(c) /\ Len(queue[c]) >= QueueSize
             THEN missed[c] \cup {Head(queue[c])} ELSE missed[c]
  BY DEF PutAll
<1>2. \A c \in Clients : queue[c] \in Seq(Messages) /\ missed[c] \subseteq Messages
  BY DEF GapTypes
<1>3. ASSUME NEW c \in Clients
      PROVE  /\ queue'[c] \in Seq(Messages) /\ missed'[c] \subseteq Messages
             /\ To(c) => m \in Elements(queue'[c])
             /\ Elements(queue[c]) \subseteq Elements(queue'[c]) \cup missed'[c]
             /\ missed[c] \subseteq missed'[c]
  <2>1. CASE ~To(c)
    BY <1>1, <1>2, <2>1
  <2>2. CASE To(c) /\ ~(Len(queue[c]) >= QueueSize)
    <3>1. queue'[c] = Append(queue[c], m) /\ missed'[c] = missed[c]
      BY <1>1, <2>2
    <3> QED
      BY <1>2, <3>1, AppendElements
  <2>3. CASE To(c) /\ Len(queue[c]) >= QueueSize
    <3>1. queue'[c] = Append(Tail(queue[c]), m) /\ missed'[c] = missed[c] \cup {Head(queue[c])}
      BY <1>1, <2>3
    <3>2. queue[c] # <<>>
      BY <2>3, ConstantsAssumption
    <3>3. /\ Head(queue[c]) \in Messages /\ Tail(queue[c]) \in Seq(Messages)
          /\ Elements(queue[c]) \subseteq {Head(queue[c])} \cup Elements(Tail(queue[c]))
      BY <1>2, <3>2, TailElements
    <3>4. /\ Append(Tail(queue[c]), m) \in Seq(Messages) /\ m \in Elements(Append(Tail(queue[c]), m))
          /\ Elements(Tail(queue[c])) \subseteq Elements(Append(Tail(queue[c]), m))
      BY <3>3, AppendElements
    <3> QED
      BY <1>2, <3>1, <3>3, <3>4
  <2> QED
    BY <2>1, <2>2, <2>3
<1>4. queue' = [c \in Clients |-> queue'[c]] /\ missed' = [c \in Clients |-> missed'[c]]
  BY DEF PutAll
<1> QED
  BY <1>3, <1>4

\* The replay list has all of the messages asked for that are newer than what the client named.
LEMMA ReplayList ==
  ASSUME GapTypes, IdsDiffer, NEW c \in Clients, NEW S \in SUBSET Messages
  PROVE  /\ Since(c, S) \in Seq(Messages)
         /\ \A m \in S : ChannelOf[m] \in stream[c].channels /\ id[m] > base[c]
                           => m \in Elements(Since(c, S))
<1> DEFINE T == {m \in S : ChannelOf[m] \in stream[c].channels /\ id[m] > base[c]}
<1>1. T \in SUBSET Messages
  OBVIOUS
<1>2. ASSUME NEW a \in T, NEW b \in T, id[a] = id[b]
      PROVE  a = b
  BY <1>2 DEF GapTypes, IdsDiffer
<1>3. ById(T) \in Seq(Messages) /\ T \subseteq Elements(ById(T))
  <2> HIDE DEF T
  <2> QED
    BY <1>1, <1>2, ByIdHasAll DEF GapTypes
<1> QED
  BY <1>3 DEF Since

LEMMA ElementsType ==
  ASSUME NEW S, NEW q \in Seq(S)
  PROVE  Elements(q) \subseteq S
BY DEF Elements

\* A client none of whose state a step touches.
LEMMA Undisturbed ==
  ASSUME NEW c \in Clients, Listening(c), UNCHANGED <<id, lastId, storing>>,
         UNCHANGED <<stream[c], subscribed[c], pc[c], base[c], since[c], seen[c]>>,
         UNCHANGED <<have[c], todo[c], queue[c], missed[c]>>
  PROVE  Listening(c)'
<1>1. \A m \in Messages : /\ Heard(c, m)' <=> Heard(c, m)
                          /\ Due(c, m)' <=> Due(c, m)
                          /\ Accounted(c, m)' <=> Accounted(c, m)
  BY DEF Heard, Due, Accounted
<1> QED
  BY <1>1 DEF Listening, Queued

\* A client that goes on with its stream, and loses none of what it has, is to be sent or is queued.
LEMMA GoesOn ==
  ASSUME NEW c \in Clients, Listening(c), Queued(c), UNCHANGED <<id, lastId, storing>>,
         UNCHANGED <<stream[c], subscribed[c], base[c], since[c]>>,
         seen'[c] <= lastId, pc'[c] # "away",
         pc'[c] \in {"connected", "replay"} => todo'[c] = <<>>,
         \A m \in Messages : Due(c, m)' => Due(c, m),
         \A m \in Messages : Heard(c, m) /\ Accounted(c, m) => Accounted(c, m)'
  PROVE  Listening(c)'
<1>1. \A m \in Messages : Heard(c, m)' <=> Heard(c, m)
  BY DEF Heard
<1>2. \A m \in Messages : Heard(c, m)' /\ Due(c, m)' => Accounted(c, m)'
  BY <1>1 DEF Listening
<1> QED
  BY <1>2 DEF Listening, Queued

LEMMA ReceivedTypes ==
  ASSUME GapTypes, NEW c \in Clients, NEW m \in Messages, Receive(c, m) \/ UNCHANGED browser
  PROVE  seen' \in [Clients -> Nat] /\ have' \in [Clients -> SUBSET Messages]
<1>1. CASE Receive(c, m)
  <2>1. seen' = [seen EXCEPT ![c] = id[m]] /\ have' = [have EXCEPT ![c] = have[c] \cup {m}]
    BY <1>1 DEF Receive
  <2> QED
    BY <2>1 DEF GapTypes
<1>2. CASE UNCHANGED browser
  BY <1>2 DEF GapTypes, browser
<1> QED
  BY <1>1, <1>2

LEMMA GapTypesHold == GapInv /\ [Next]_vars => GapTypes'
<1> SUFFICES ASSUME GapInv, [Next]_vars PROVE GapTypes'
  OBVIOUS
<1> USE DEF Become, Places
<1>0. GapTypes /\ IdsDiffer
  BY DEF GapInv
<1>1. CASE UNCHANGED vars
  BY <1>0, <1>1 DEF GapTypes, vars, server, fanout, coroutine, browser, history
<1>2. CASE Publish
  <2>1. PICK m \in case.messages \ published :
          wire' = IF reader = "up" THEN Append(wire, m) ELSE wire
    BY <1>2 DEF Publish
  <2>2. m \in Messages
    BY <1>0, <2>1, ConstantsAssumption DEF GapTypes
  <2>3. wire' \in Seq(Messages)
    BY <1>0, <2>1, <2>2 DEF GapTypes
  <2> QED
    BY <1>0, <1>2, <2>3 DEF GapTypes, Publish, server, fanout, coroutine, browser, history
<1>3. CASE ReaderTakes
  <2> DEFINE m == Head(wire)
  <2>1. wire \in Seq(Messages) /\ wire # <<>> /\ buffer \in Seq(Messages)
    BY <1>0, <1>3 DEF ReaderTakes, GapTypes
  <2>2. m \in Messages /\ Tail(wire) \in Seq(Messages) /\ Append(buffer, m) \in Seq(Messages)
    BY <2>1
  <2>3. buffer' \in Seq(Messages)
    BY <1>3, <2>2, PrunedType DEF ReaderTakes
  <2>4. queue' \in [Clients -> Seq(Messages)] /\ missed' \in [Clients -> SUBSET Messages]
    BY <1>0, <1>3, <2>2, HandedOut DEF ReaderTakes, GapTypes
  <2>5. storing' \in Messages \cup {NoMessage}
    BY <1>0, <1>3, <2>2 DEF ReaderTakes, GapTypes
  <2>6. wire' = Tail(wire) /\ lastId' = lastId + 1 /\ id' = [id EXCEPT ![m] = lastId + 1]
    BY <1>3 DEF ReaderTakes
  <2>7. /\ UNCHANGED <<case, store, stream, subscribed, pc, todo>>
        /\ UNCHANGED <<have, seen, base, since>>
    BY <1>3 DEF ReaderTakes, coroutine, browser
  <2> HIDE DEF m
  <2> QED
    BY <1>0, <2>2, <2>3, <2>4, <2>5, <2>6, <2>7 DEF GapTypes
<1>4. CASE ReaderStored
  <2>1. storing \in Messages
    BY <1>0, <1>4 DEF ReaderStored, GapTypes
  <2>2. Append(store, storing) \in Seq(Messages)
    BY <1>0, <2>1 DEF GapTypes
  <2>3. store' \in Seq(Messages)
    BY <1>0, <1>4, <2>2, PrunedType DEF ReaderStored, GapTypes
  <2>4. queue' \in [Clients -> Seq(Messages)] /\ missed' \in [Clients -> SUBSET Messages]
    BY <1>0, <1>4, <2>1, HandedOut DEF ReaderStored
  <2>5. storing' = NoMessage
    BY <1>4 DEF ReaderStored
  <2>6. /\ UNCHANGED <<case, wire, id, lastId, buffer, stream, subscribed, pc, todo>>
        /\ UNCHANGED <<have, seen, base, since>>
    BY <1>4 DEF ReaderStored, coroutine, browser
  <2> QED
    BY <1>0, <2>3, <2>4, <2>5, <2>6 DEF GapTypes
<1>5. CASE ReaderCrash
  BY <1>0, <1>5 DEF GapTypes, ReaderCrash, server, fanout, coroutine, browser, history
<1>6. CASE Restart
  BY <1>0, <1>6 DEF GapTypes, Restart, browser
<1>7. CASE Health
  BY <1>0, <1>7 DEF GapTypes, Health, server, coroutine, browser, history
<1>8. ASSUME NEW c \in Clients, Ask(c)
      PROVE  GapTypes'
  <2>1. PICK s \in case.streams : stream' = [stream EXCEPT ![c] = s]
    BY <1>8 DEF Ask
  <2>2. s \in Endpoints
    BY <1>0, <2>1, StreamsAssumption DEF GapTypes
  <2> QED
    BY <1>0, <1>8, <2>1, <2>2 DEF GapTypes, Ask, server, fanout, browser, history
<1>9. ASSUME NEW c \in Clients, Admit(c) \/ GoneBefore(c) \/ StartReader(c) \/ ReaderStarts(c)
      PROVE  GapTypes'
  BY <1>0, <1>9 DEF GapTypes, Admit, GoneBefore, StartReader, ReaderStarts, server, fanout, browser, history
<1>10. ASSUME NEW c \in Clients, Subscribe(c)
       PROVE  GapTypes'
  BY <1>0, <1>10 DEF GapTypes, Subscribe, server, browser
<1>11. ASSUME NEW c \in Clients, Connected(c) \/ Snapshot(c)
       PROVE  GapTypes'
  <2>1. seen' \in [Clients -> Nat] /\ have' \in [Clients -> SUBSET Messages]
    BY <1>0, <1>11 DEF GapTypes, Connected, Snapshot, Tell, browser
  <2>2. pc' \in [Clients -> Places]
    BY <1>0, <1>11 DEF GapTypes, Connected, Snapshot
  <2>3. /\ UNCHANGED <<case, wire, id, lastId, buffer, store, storing, stream, subscribed, queue, todo>>
        /\ UNCHANGED <<missed, base, since>>
    BY <1>11 DEF Connected, Snapshot, server, fanout, history
  <2> QED
    BY <1>0, <2>1, <2>2, <2>3 DEF GapTypes
<1>12. ASSUME NEW c \in Clients, Replay(c)
       PROVE  GapTypes'
  <2>1. PICK kept \in Pruned(buffer) :
          /\ buffer' = kept
          /\ todo' = [todo EXCEPT ![c] = Since(c, Elements(kept))]
          /\ missed' = [missed EXCEPT ![c] = @ \cup
               {m \in Messages : id[m] # 0 /\ id[m] <= since[c] /\ m \notin Elements(kept)}]
    BY <1>12 DEF Replay
  <2>2. kept \in Seq(Messages)
    BY <1>0, PrunedType DEF GapTypes
  <2>3. Since(c, Elements(kept)) \in Seq(Messages)
    BY <1>0, <2>2, ElementsType, ReplayList
  <2>4. todo' \in [Clients -> Seq(Messages)] /\ missed' \in [Clients -> SUBSET Messages]
    BY <1>0, <2>1, <2>3 DEF GapTypes
  <2>5. pc' \in [Clients -> Places]
    BY <1>0, <1>12 DEF GapTypes, Replay
  <2>6. /\ UNCHANGED <<case, wire, id, lastId, store, storing, stream, subscribed, queue>>
        /\ UNCHANGED <<have, seen, base, since>>
    BY <1>12 DEF Replay, fanout, browser
  <2> QED
    BY <1>0, <2>1, <2>2, <2>4, <2>5, <2>6 DEF GapTypes
<1>13. ASSUME NEW c \in Clients, ReplayStore(c)
       PROVE  GapTypes'
  <2>1. Elements(todo[c]) \cup Elements(store) \subseteq Messages
    BY <1>0, ElementsType DEF GapTypes
  <2>2. Since(c, Elements(todo[c]) \cup Elements(store)) \in Seq(Messages)
    BY <1>0, <2>1, ReplayList
  <2>3. todo' \in [Clients -> Seq(Messages)] /\ missed' \in [Clients -> SUBSET Messages]
    <3>1. CASE UNCHANGED <<todo, missed>>
      BY <1>0, <3>1 DEF GapTypes
    <3>2. CASE /\ todo' = [todo EXCEPT ![c] = Since(c, Elements(todo[c]) \cup Elements(store))]
               /\ missed' = [missed EXCEPT ![c] = missed[c] \ Elements(todo'[c])]
      BY <1>0, <2>2, <3>2 DEF GapTypes
    <3> QED
      BY <1>13, <3>1, <3>2 DEF ReplayStore
  <2>4. pc' \in [Clients -> Places]
    BY <1>0, <1>13 DEF GapTypes, ReplayStore
  <2>5. /\ UNCHANGED <<case, wire, id, lastId, buffer, store, storing, stream, subscribed, queue>>
        /\ UNCHANGED <<have, seen, base, since>>
    BY <1>13 DEF ReplayStore, server, fanout, browser
  <2> QED
    BY <1>0, <2>3, <2>4, <2>5 DEF GapTypes
<1>14. ASSUME NEW c \in Clients, Send(c)
       PROVE  GapTypes'
  <2>1. Head(todo[c]) \in Messages /\ Tail(todo[c]) \in Seq(Messages)
    BY <1>0, <1>14, TailElements DEF GapTypes, Send
  <2>2. todo' \in [Clients -> Seq(Messages)]
    BY <1>0, <1>14, <2>1 DEF GapTypes, Send
  <2>3. seen' \in [Clients -> Nat] /\ have' \in [Clients -> SUBSET Messages]
    <3>1. Receive(c, Head(todo[c])) \/ UNCHANGED browser
      BY <1>14 DEF Send
    <3> QED
      BY <1>0, <2>1, <3>1, ReceivedTypes
  <2>4. /\ UNCHANGED <<case, wire, id, lastId, buffer, store, storing, stream, subscribed, queue, pc>>
        /\ UNCHANGED <<missed, base, since>>
    BY <1>14 DEF Send, server, fanout, history
  <2> QED
    BY <1>0, <2>2, <2>3, <2>4 DEF GapTypes
<1>15. ASSUME NEW c \in Clients, Forward(c)
       PROVE  GapTypes'
  <2>1. Head(queue[c]) \in Messages /\ Tail(queue[c]) \in Seq(Messages)
    BY <1>0, <1>15, TailElements DEF GapTypes, Forward
  <2>2. queue' \in [Clients -> Seq(Messages)]
    BY <1>0, <1>15, <2>1 DEF GapTypes, Forward
  <2>3. seen' \in [Clients -> Nat] /\ have' \in [Clients -> SUBSET Messages]
    <3>1. Receive(c, Head(queue[c])) \/ UNCHANGED browser
      BY <1>15 DEF Forward
    <3> QED
      BY <1>0, <2>1, <3>1, ReceivedTypes
  <2>4. /\ UNCHANGED <<case, wire, id, lastId, buffer, store, storing, stream, subscribed, todo, pc>>
        /\ UNCHANGED <<missed, base, since>>
    BY <1>15 DEF Forward, server, coroutine, history
  <2> QED
    BY <1>0, <2>2, <2>3, <2>4 DEF GapTypes
<1>16. ASSUME NEW c \in Clients, Sent(c) \/ Disconnect(c)
       PROVE  GapTypes'
  BY <1>0, <1>16 DEF GapTypes, Sent, Disconnect, server, fanout, browser, history
<1>17. ASSUME NEW c \in Clients, Heartbeat(c)
       PROVE  GapTypes'
  BY <1>0, <1>17 DEF GapTypes, Heartbeat, Tell, server, fanout, coroutine, history
<1>18. ASSUME NEW c \in Clients, Close(c)
       PROVE  GapTypes'
  BY <1>0, <1>18 DEF GapTypes, Close, server, browser, history
<1> QED
  BY <1>1, <1>2, <1>3, <1>4, <1>5, <1>6, <1>7, <1>8, <1>9, <1>10, <1>11, <1>12, <1>13, <1>14,
     <1>15, <1>16, <1>17, <1>18 DEF Next, Serve

\* Ids grow, and only the reader gives them out.
LEMMA IdsDifferHold == GapInv /\ [Next]_vars => IdsDiffer'
<1> SUFFICES ASSUME GapInv, [Next]_vars PROVE IdsDiffer'
  OBVIOUS
<1>1. GapTypes /\ IdsDiffer
  BY DEF GapInv
<1>2. CASE UNCHANGED <<id, lastId>>
  BY <1>1, <1>2 DEF IdsDiffer
<1>3. CASE ReaderTakes
  <2> DEFINE m == Head(wire)
  <2>1. m \in Messages /\ lastId' = lastId + 1 /\ id' = [id EXCEPT ![m] = lastId + 1]
    BY <1>1, <1>3 DEF ReaderTakes, GapTypes
  <2> HIDE DEF m
  <2>2. id'[m] = lastId' /\ \A x \in Messages \ {m} : id'[x] = id[x] /\ id[x] < lastId'
    BY <1>1, <2>1 DEF GapTypes, IdsDiffer
  <2> QED
    BY <1>1, <2>1, <2>2 DEF GapTypes, IdsDiffer
<1>4. CASE Publish \/ ReaderStored \/ ReaderCrash \/ Restart \/ Health \/ UNCHANGED vars
  BY <1>2, <1>4 DEF Publish, ReaderStored, ReaderCrash, Restart, Health, server, vars
<1>5. ASSUME NEW c \in Clients,
             Admit(c) \/ Subscribe(c) \/ StartReader(c) \/ ReaderStarts(c) \/ Connected(c) \/ Replay(c)
      PROVE  IdsDiffer'
  BY <1>2, <1>5 DEF Admit, Subscribe, StartReader, ReaderStarts, Connected, Replay, server
<1>6. ASSUME NEW c \in Clients,
             ReplayStore(c) \/ Send(c) \/ Sent(c) \/ Snapshot(c) \/ Forward(c) \/ Close(c)
      PROVE  IdsDiffer'
  BY <1>2, <1>6 DEF ReplayStore, Send, Sent, Snapshot, Forward, Close, server
<1>7. ASSUME NEW c \in Clients, Ask(c) \/ GoneBefore(c) \/ Heartbeat(c) \/ Disconnect(c)
      PROVE  IdsDiffer'
  BY <1>2, <1>7 DEF Ask, GoneBefore, Heartbeat, Disconnect, server
<1> QED
  BY <1>3, <1>4, <1>5, <1>6, <1>7 DEF Next, Serve

\* A step of one client leaves the others as they are.
LEMMA OthersUndisturbed ==
  ASSUME GapTypes, NEW c \in Clients, NEW d \in Clients \ {c}, Listening(d),
         Serve(c) \/ Ask(c) \/ GoneBefore(c) \/ Heartbeat(c) \/ Disconnect(c)
  PROVE  Listening(d)'
<1> DEFINE Apart ==
      /\ UNCHANGED <<id, lastId, storing>>
      /\ UNCHANGED <<stream[d], subscribed[d], pc[d], base[d], since[d], seen[d]>>
      /\ UNCHANGED <<have[d], todo[d], queue[d], missed[d]>>
<1> USE DEF GapTypes, Become
<1>1. Admit(c) => Apart
  BY DEF Admit, server, fanout, browser, history
<1>2. Subscribe(c) => Apart
  BY DEF Subscribe, server, browser
<1>3. StartReader(c) => Apart
  BY DEF StartReader, server, browser, history
<1>4. ReaderStarts(c) => Apart
  BY DEF ReaderStarts, server, browser, history
<1>5. Connected(c) => Apart
  BY DEF Connected, Tell, server, fanout, history
<1>6. Replay(c) => Apart
  BY DEF Replay, fanout, browser
<1>7. ReplayStore(c) => Apart
  BY DEF ReplayStore, server, fanout, browser
<1>8. Send(c) => Apart
  BY DEF Send, Receive, server, fanout, browser, history
<1>9. Sent(c) => Apart
  BY DEF Sent, server, fanout, browser, history
<1>10. Snapshot(c) => Apart
  BY DEF Snapshot, Tell, server, fanout, browser, history
<1>11. Forward(c) => Apart
  BY DEF Forward, Receive, server, coroutine, browser, history
<1>12. Close(c) => Apart
  BY DEF Close, server, browser, history
<1>13. Ask(c) => Apart
  BY DEF Ask, server, fanout, browser, history
<1>14. GoneBefore(c) => Apart
  BY DEF GoneBefore, server, fanout, browser
<1>15. Heartbeat(c) => Apart
  BY DEF Heartbeat, Tell, server, fanout, coroutine, history
<1>16. Disconnect(c) => Apart
  BY DEF Disconnect, server, fanout, browser, history
<1>17. Apart
  BY <1>1, <1>2, <1>3, <1>4, <1>5, <1>6, <1>7, <1>8, <1>9, <1>10, <1>11, <1>12, <1>13, <1>14,
     <1>15, <1>16 DEF Serve
<1> QED
  BY <1>17, Undisturbed

\* A client that is not, or no longer, in a stream.
LEMMA OutOfStream ==
  ASSUME GapTypes, NEW c \in Clients, Listening(c),
         \/ Ask(c) \/ Admit(c) \/ GoneBefore(c) \/ StartReader(c) \/ ReaderStarts(c)
         \/ Disconnect(c) \/ Close(c)
  PROVE  Listening(c)'
<1> USE DEF GapTypes, Become, Places
<1>1. seen' = seen /\ lastId' = lastId
  BY DEF Ask, Admit, GoneBefore, StartReader, ReaderStarts, Disconnect, Close, server, browser
<1>2. pc'[c] \in {"away", "ping", "admitted", "starting", "closing"}
  BY DEF Ask, Admit, GoneBefore, StartReader, ReaderStarts, Disconnect, Close
<1>3. pc'[c] # "away" => stream'[c] \in Endpoints
  <2>1. CASE Ask(c)
    <3>1. PICK s \in case.streams : stream' = [stream EXCEPT ![c] = s]
      BY <2>1 DEF Ask
    <3> QED
      BY <3>1, StreamsAssumption
  <2>2. CASE ~Ask(c)
    BY <2>2 DEF Listening, Admit, GoneBefore, StartReader, ReaderStarts, Disconnect, Close
  <2> QED
    BY <2>1, <2>2
<1> QED
  BY <1>1, <1>2, <1>3 DEF Listening, Queued

LEMMA ReaderListens ==
  ASSUME GapTypes, IdsDiffer, NEW c \in Clients, Listening(c), ReaderTakes \/ ReaderStored
  PROVE  Listening(c)'
<1>1. /\ UNCHANGED <<subscribed, stream, pc, base, since, seen, have, todo>>
      /\ lastId <= lastId'
  BY DEF ReaderTakes, ReaderStored, GapTypes, coroutine, browser
<1>2. ASSUME Queued(c), NEW m \in Messages, Heard(c, m)', Due(c, m)'
      PROVE  Accounted(c, m)'
  <2>1. CASE ReaderStored
    <3>1. storing \in Messages /\ PutAll(storing) /\ id' = id
      BY <2>1 DEF ReaderStored, GapTypes
    <3>2. CASE m = storing
      BY <1>1, <1>2, <3>1, <3>2, HandedOut DEF Accounted, Heard, Listening
    <3>3. CASE m # storing
      <4>1. Heard(c, m) /\ Due(c, m)
        BY <1>1, <1>2, <3>1, <3>3 DEF Heard, Due
      <4>2. Accounted(c, m)
        BY <1>2, <4>1 DEF Listening
      <4> QED
        BY <1>1, <3>1, <4>2, HandedOut DEF Accounted
    <3> QED
      BY <3>2, <3>3
  <2>2. CASE ReaderTakes
    <3> DEFINE x == Head(wire)
    <3>1. x \in Messages /\ id' = [id EXCEPT ![x] = lastId + 1] /\ storing = NoMessage
      BY <2>2 DEF ReaderTakes, GapTypes
    <3>2. \/ storing' = x /\ UNCHANGED <<queue, missed>>
          \/ PutAll(x) /\ UNCHANGED storing
      BY <2>2 DEF ReaderTakes
    <3> HIDE DEF x
    <3>3. CASE m = x
      <4>1. PutAll(x)
        BY <1>2, <3>2, <3>3 DEF Heard
      <4> QED
        BY <1>1, <1>2, <3>1, <3>3, <4>1, HandedOut DEF Accounted, Heard, Listening
    <3>4. CASE m # x
      <4>1. m # storing
        BY <3>1, ConstantsAssumption
      <4>2. Heard(c, m) /\ Due(c, m)
        BY <1>1, <1>2, <3>1, <3>4, <4>1 DEF Heard, Due, GapTypes
      <4>3. Accounted(c, m)
        BY <1>2, <4>2 DEF Listening
      <4>4. CASE UNCHANGED <<queue, missed>>
        BY <1>1, <4>3, <4>4 DEF Accounted
      <4>5. CASE PutAll(x)
        BY <1>1, <3>1, <4>3, <4>5, HandedOut DEF Accounted
      <4> QED
        BY <3>2, <4>4, <4>5
    <3> QED
      BY <3>3, <3>4
  <2> QED
    BY <2>1, <2>2
<1>3. seen[c] <= lastId' /\ (since[c] <= lastId => since[c] <= lastId')
  BY <1>1 DEF Listening, GapTypes, ReaderTakes, ReaderStored
<1> QED
  BY <1>1, <1>2, <1>3 DEF Listening, Queued

LEMMA SubscribeListens ==
  ASSUME GapTypes, IdsDiffer, NEW c \in Clients, Listening(c), Subscribe(c)
  PROVE  Listening(c)'
<1> USE DEF GapTypes, Become
<1>1. /\ subscribed'[c] = stream[c] /\ base'[c] = seen[c] /\ since'[c] = lastId /\ pc'[c] = "connected"
      /\ todo'[c] = <<>> /\ UNCHANGED <<id, lastId, stream, seen>>
  BY DEF Subscribe, server, browser
<1>2. \A m \in Messages : ~ Due(c, m)'
  BY <1>1 DEF Due, Served, IdsDiffer
<1>3. pc[c] # "away"
  BY DEF Subscribe
<1> QED
  BY <1>1, <1>2, <1>3 DEF Listening, Queued

\* What the buffer no longer holds is missed, and all else that is older than the subscription is
\* on the list.
LEMMA ReplayListens ==
  ASSUME GapTypes, IdsDiffer, NEW c \in Clients, Listening(c), Replay(c)
  PROVE  Listening(c)'
<1>1. PICK kept \in Pruned(buffer) :
        /\ todo' = [todo EXCEPT ![c] = Since(c, Elements(kept))]
        /\ missed' = [missed EXCEPT ![c] = missed[c] \cup
             {m \in Messages : id[m] # 0 /\ id[m] <= since[c] /\ m \notin Elements(kept)}]
  BY DEF Replay
<1>2. kept \in Seq(Messages)
  BY PrunedType DEF GapTypes
<1>3. /\ todo'[c] = Since(c, Elements(kept))
      /\ missed'[c] = missed[c] \cup
           {m \in Messages : id[m] # 0 /\ id[m] <= since[c] /\ m \notin Elements(kept)}
  BY <1>1 DEF GapTypes
<1>4. /\ UNCHANGED <<id, lastId, storing, stream, subscribed, base, since, seen, have, queue>>
      /\ pc[c] = "replay" /\ pc'[c] \in {"fetch", "sending"}
  BY DEF Replay, Become, GapTypes, fanout, browser
<1>5. ASSUME NEW m \in Messages, Heard(c, m)', Due(c, m)'
      PROVE  Accounted(c, m)'
  <2>1. Heard(c, m) /\ id[m] \in Nat /\ since[c] \in Nat /\ base[c] \in Nat
    BY <1>4, <1>5 DEF Heard, GapTypes
  <2>2. CASE id[m] <= since[c]
    <3>1. id[m] > base[c] /\ id[m] # 0
      BY <1>4, <1>5, <2>1, <2>2 DEF Due
    <3>2. CASE m \in Elements(kept)
      <4>1. m \in Elements(todo'[c])
        BY <1>2, <1>3, <2>1, <3>1, <3>2, ElementsType, ReplayList DEF Heard
      <4> QED
        BY <4>1 DEF Accounted
    <3>3. CASE m \notin Elements(kept)
      BY <1>3, <2>2, <3>1, <3>3 DEF Accounted
    <3> QED
      BY <3>2, <3>3
  <2>3. CASE ~ (id[m] <= since[c])
    <3>1. Queued(c)
      BY <1>4 DEF Queued
    <3>2. Due(c, m)
      BY <2>1, <2>3 DEF Due
    <3>3. Accounted(c, m) /\ todo[c] = <<>>
      BY <1>4, <2>1, <3>1, <3>2 DEF Listening
    <3>4. Elements(todo[c]) = {}
      BY <3>3 DEF Elements
    <3> QED
      BY <1>3, <1>4, <3>3, <3>4 DEF Accounted
  <2> QED
    BY <2>2, <2>3
<1> QED
  BY <1>4, <1>5 DEF Listening, Queued

\* The store adds to the list and takes nothing from it; what it has is missed no longer.
LEMMA StoreListens ==
  ASSUME GapTypes, IdsDiffer, NEW c \in Clients, Listening(c), ReplayStore(c)
  PROVE  Listening(c)'
<1> DEFINE Both == Elements(todo[c]) \cup Elements(store)
<1>1. /\ UNCHANGED <<id, lastId, storing, stream, subscribed, base, since, seen, have, queue>>
      /\ pc[c] = "fetch" /\ pc'[c] = "sending"
  BY DEF ReplayStore, Become, GapTypes, server, fanout, browser
<1>2. \/ todo'[c] = Since(c, Both) /\ missed'[c] = missed[c] \ Elements(todo'[c])
      \/ UNCHANGED <<todo, missed>>
  BY DEF ReplayStore, GapTypes
<1>3. Both \in SUBSET Messages
  BY ElementsType DEF GapTypes
<1>4. ASSUME NEW m \in Messages, Heard(c, m), Due(c, m), Accounted(c, m)
      PROVE  Accounted(c, m)'
  <2>1. CASE UNCHANGED <<todo, missed>>
    BY <1>1, <1>4, <2>1 DEF Accounted
  <2>2. CASE todo'[c] = Since(c, Both) /\ missed'[c] = missed[c] \ Elements(todo'[c])
    <3>1. id[m] > base[c]
      BY <1>1, <1>4 DEF Due, Listening, Queued, GapTypes
    <3>2. m \in Elements(todo[c]) => m \in Elements(todo'[c])
      <4> HIDE DEF Both
      <4>1. m \in Both => m \in Elements(todo'[c])
        BY <1>3, <1>4, <2>2, <3>1, ReplayList DEF Heard
      <4> QED
        BY <4>1 DEF Both
    <3> QED
      BY <1>1, <1>4, <2>2, <3>2 DEF Accounted
  <2> QED
    BY <1>2, <2>1, <2>2
<1>5. \A m \in Messages : Heard(c, m)' /\ Due(c, m)' => Heard(c, m) /\ Due(c, m)
  BY <1>1 DEF Heard, Due, Served
<1>6. \A m \in Messages : Heard(c, m)' /\ Due(c, m)' => Accounted(c, m)'
  BY <1>1, <1>4, <1>5 DEF Listening, Queued
<1> QED
  BY <1>1, <1>6 DEF Listening, Queued

\* Whatever is taken from the list or the queue and is of a kind the stream replays is received.
LEMMA SendListens ==
  ASSUME GapTypes, IdsDiffer, NEW c \in Clients, Listening(c), Send(c)
  PROVE  Listening(c)'
<1> DEFINE h == Head(todo[c])
<1>1. /\ UNCHANGED <<id, lastId, storing, stream, subscribed, base, since, queue, missed, pc>>
      /\ pc[c] = "sending" /\ todo'[c] = Tail(todo[c])
  BY DEF Send, GapTypes, server, fanout, history
<1>2. todo[c] \in Seq(Messages) /\ todo[c] # <<>>
  BY DEF Send, GapTypes
<1>3. h \in Messages /\ Elements(todo[c]) \subseteq {h} \cup Elements(todo'[c])
  BY <1>1, <1>2, TailElements
<1> HIDE DEF h
<1>4. IF KindOf[h] \in stream[c].replayed THEN Receive(c, h) ELSE UNCHANGED browser
  BY DEF Send, h
<1>5. have[c] \subseteq have'[c] /\ (KindOf[h] \in stream[c].replayed => h \in have'[c])
  BY <1>4 DEF Receive, browser, GapTypes
<1>6. seen'[c] <= lastId
  BY <1>3, <1>4 DEF Receive, browser, GapTypes, IdsDiffer, Listening
<1>7. \A m \in Messages : Heard(c, m) /\ Accounted(c, m) => Accounted(c, m)'
  BY <1>1, <1>3, <1>5 DEF Heard, Accounted
<1>8. \A m \in Messages : Due(c, m)' => Due(c, m)
  BY <1>1 DEF Due
<1>9. Queued(c)
  BY <1>1 DEF Queued
<1> QED
  BY <1>1, <1>6, <1>7, <1>8, <1>9, GoesOn

LEMMA ForwardListens ==
  ASSUME GapTypes, IdsDiffer, NEW c \in Clients, Listening(c), Forward(c)
  PROVE  Listening(c)'
<1> DEFINE h == Head(queue[c])
<1>1. /\ UNCHANGED <<id, lastId, storing, stream, subscribed, base, since, todo, missed, pc>>
      /\ pc[c] = "live" /\ queue'[c] = Tail(queue[c])
  BY DEF Forward, GapTypes, server, coroutine, history
<1>2. queue[c] \in Seq(Messages) /\ queue[c] # <<>>
  BY DEF Forward, GapTypes
<1>3. h \in Messages /\ Elements(queue[c]) \subseteq {h} \cup Elements(queue'[c])
  BY <1>1, <1>2, TailElements
<1> HIDE DEF h
<1>4. IF KindOf[h] \in stream[c].live THEN Receive(c, h) ELSE UNCHANGED browser
  BY DEF Forward, h
<1>5. stream[c].replayed \subseteq stream[c].live
  BY <1>1, ReplayedIsLive DEF Listening
<1>6. have[c] \subseteq have'[c] /\ (KindOf[h] \in stream[c].replayed => h \in have'[c])
  BY <1>4, <1>5 DEF Receive, browser, GapTypes
<1>7. seen'[c] <= lastId
  BY <1>3, <1>4 DEF Receive, browser, GapTypes, IdsDiffer, Listening
<1>8. \A m \in Messages : Heard(c, m) /\ Accounted(c, m) => Accounted(c, m)'
  BY <1>1, <1>3, <1>6 DEF Heard, Accounted
<1>9. \A m \in Messages : Due(c, m)' => Due(c, m)
  BY <1>1 DEF Due
<1>10. Queued(c)
  BY <1>1 DEF Queued
<1> QED
  BY <1>1, <1>7, <1>8, <1>9, <1>10, GoesOn

\* The server's own events carry the last id given out.
LEMMA OwnEventsListen ==
  ASSUME GapTypes, IdsDiffer, NEW c \in Clients, Listening(c),
         Connected(c) \/ Sent(c) \/ Snapshot(c) \/ Heartbeat(c)
  PROVE  Listening(c)'
<1>1. /\ UNCHANGED <<id, lastId, storing, stream, subscribed, base, since, queue, missed, have, todo>>
      /\ Queued(c) /\ pc'[c] \in {"replay", "snapshot", "live"}
  BY DEF Connected, Sent, Snapshot, Heartbeat, Tell, Become, Queued, GapTypes, server, fanout,
         coroutine, browser, history
<1>2. seen'[c] <= lastId
  BY DEF Connected, Sent, Snapshot, Heartbeat, Tell, Listening, GapTypes, browser
<1>3. pc'[c] \in {"connected", "replay"} => todo'[c] = <<>>
  BY <1>1 DEF Connected, Sent, Snapshot, Heartbeat, Become, Listening, GapTypes, coroutine
<1>4. pc'[c] \in Served => pc[c] \in Served \/ base[c] = 0
  BY <1>1 DEF Connected, Sent, Snapshot, Heartbeat, Become, Served, GapTypes
<1>5. \A m \in Messages : Due(c, m)' => Due(c, m)
  BY <1>1, <1>4 DEF Due
<1>6. \A m \in Messages : Accounted(c, m) => Accounted(c, m)'
  BY <1>1 DEF Accounted
<1> QED
  BY <1>1, <1>2, <1>3, <1>5, <1>6, GoesOn

LEMMA GapInvHolds == GapInv /\ [Next]_vars => GapInv'
<1> SUFFICES ASSUME GapInv, [Next]_vars PROVE GapInv'
  OBVIOUS
<1>1. GapTypes' /\ IdsDiffer'
  BY GapTypesHold, IdsDifferHold
<1>2. ASSUME NEW d \in Clients
      PROVE  Listening(d)'
  <2>1. GapTypes /\ IdsDiffer /\ Listening(d)
    BY DEF GapInv
  <2>2. CASE Publish \/ ReaderCrash \/ Health \/ UNCHANGED vars
    <3>1. /\ UNCHANGED <<id, lastId, storing, stream, subscribed, pc, base, since, seen>>
          /\ UNCHANGED <<have, todo, queue, missed>>
      BY <2>2 DEF Publish, ReaderCrash, Health, vars, server, fanout, coroutine, browser, history
    <3> QED
      BY <2>1, <3>1, Undisturbed
  <2>3. CASE ReaderTakes \/ ReaderStored
    BY <2>1, <2>3, ReaderListens
  <2>4. CASE Restart
    BY <2>1, <2>4 DEF Restart, Listening, Queued, browser
  <2>5. ASSUME NEW c \in Clients, c # d,
               Serve(c) \/ Ask(c) \/ GoneBefore(c) \/ Heartbeat(c) \/ Disconnect(c)
        PROVE  Listening(d)'
    BY <2>1, <2>5, OthersUndisturbed
  <2>6. CASE Serve(d) \/ Ask(d) \/ GoneBefore(d) \/ Heartbeat(d) \/ Disconnect(d)
    BY <2>1, <2>6, OutOfStream, SubscribeListens, ReplayListens, StoreListens, SendListens,
       ForwardListens, OwnEventsListen DEF Serve
  <2> QED
    BY <2>2, <2>3, <2>4, <2>5, <2>6 DEF Next
<1> QED
  BY <1>1, <1>2 DEF GapInv

\* NoGap: of the messages with an id above the last one it names, a client that comes back misses
\* only what the buffer or its queue no longer had room for, however its stream interleaves with the
\* reader, other clients, crashes and restarts.  What an event of the server's own overtook, whose id
\* is below the one the client names, is not among them.
THEOREM NoLaterIdIsSkipped == Spec => []NoGap
<1>1. Init => GapInv
  <2> SUFFICES ASSUME Init PROVE GapInv
    OBVIOUS
  <2>1. GapTypes
    BY DEF Init, GapTypes, Places
  <2>2. IdsDiffer
    BY DEF Init, IdsDiffer
  <2>3. \A c \in Clients : Listening(c)
    BY DEF Init, Listening, Queued
  <2> QED
    BY <2>1, <2>2, <2>3 DEF GapInv
<1>2. GapInv => NoGap
  <2> SUFFICES ASSUME GapInv, NEW c \in Clients, pc[c] \in {"sending", "snapshot", "live"},
                      NEW m \in Messages,
                      ChannelOf[m] \in stream[c].channels, KindOf[m] \in stream[c].replayed,
                      m # storing, id[m] > IF base[c] # 0 THEN base[c] ELSE since[c]
               PROVE  Accounted(c, m)
    BY DEF NoGap, Accounted
  <2>1. Heard(c, m) /\ Due(c, m)
    BY DEF Heard, Due, Served
  <2>2. Queued(c) /\ Listening(c)
    BY DEF Queued, GapInv
  <2> QED
    BY <2>1, <2>2 DEF Listening
<1> QED
  BY <1>1, <1>2, GapInvHolds, PTL DEF Spec
=============================================================================
