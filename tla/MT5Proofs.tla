------------------------------ MODULE MT5Proofs ------------------------------
(***************************************************************************)
(* Theorems about the two servers that MT5 terminals talk to.              *)
(*                                                                         *)
(* Of the executor (TradeEvents), for any number of tasks,      *)
(* trades and strategies, any order and repetition of events, restarts and *)
(* failed transactions:                                                    *)
(*                                                                         *)
(*   TablesAlwaysAgree   what the tables say of a trade agrees;            *)
(*   ClosureIsKept       a close, and its reason, are kept;                *)
(*   DealsCountedOnce    a deal is in the pnl once.                        *)
(*                                                                         *)
(* Of the ingest server with its charts (Charts on HistoryBootstrap), for  *)
(* any number of bridges, symbols, requests and threads, any refusals,     *)
(* failures, broken connections and restarts:                              *)
(*                                                                         *)
(*   NobodyHangs               no session hangs (LoadInv: where jobs are); *)
(*   RangesAreMended           a repair is complete when it ends           *)
(*                             (MendInv: what its bars still wait for);    *)
(*   WindowsAreRefreshedAlone  a lock is deleted by its holder only, and   *)
(*                             ChartsTellTheTruth, what a chart shows      *)
(*                             (RouteInv: what a request has seen;         *)
(*                             FormInv: what threads have counted);        *)
(*   NoHoleUnexplained         history has no hole (HoleInv: how far it is *)
(*                             complete when each frame is read).          *)
(***************************************************************************)
EXTENDS Charts, TradeEvents, FiniteSetTheorems, WellFoundedInduction, TLAPS

----------------------------------------------------------------------------
\* The executor: lemmas.

\* What is stored for the status of a trade event is open, or a reason of a close.
LEMMA NormaliseStatus ==
  ASSUME NEW status \in RawStatuses
  PROVE  Normalise(status) \in Statuses
BY DEF RawStatuses, Statuses, Closed, Specific, Normalise

\* A trade event is of a position, a lifecycle event a rejection.
LEMMA EventKinds ==
  ASSUME NEW e \in AllEvents
  PROVE  /\ e.ticket # None => /\ e \in TradeEvents /\ e.ticket \in Tickets
                               /\ e.strategy \in Strategies /\ e.status \in RawStatuses
         /\ e.ticket = None => e.status = "rejected" /\ e.strategy \in Strategies
         /\ HasDeal(e) => Deal(e) \in Deals
BY TradesAssumption DEF AllEvents, TradeEvents, LifecycleEvents, HasDeal, Deal, Deals

\* Events the EA sends are events of its strategies.
LEMMA SentEvents ==
  ASSUME NEW t \in Tickets
  PROVE  /\ Event(StrategyOf[t], t, "open", "entry") \in AllEvents
         /\ Event(StrategyOf[t], None, "rejected", None) \in AllEvents
         /\ Event(StrategyOf[t], t, "open", None) \in AllEvents
         /\ Event(StrategyOf[t], t, "partial_close", "partial") \in AllEvents
         /\ \A r \in Reasons : Event(StrategyOf[t], t, r, "exit") \in AllEvents
         /\ Event(StrategyOf[t], t, "closed_manual", None) \in AllEvents
<1>1. StrategyOf[t] \in Strategies /\ Reasons \subseteq RawStatuses
  BY TradesAssumption DEF RawStatuses, Statuses
<1> QED
  BY <1>1 DEF Event, AllEvents, TradeEvents, LifecycleEvents, RawStatuses, Statuses, Closed, Legs

\* Sending appends an event, and loses none that has arrived.
LEMMA Sending ==
  ASSUME TradesTypeOK, NEW e \in AllEvents, Send(e)
  PROVE  sent' \in Seq(AllEvents) /\ arrived' \in 0..Len(sent')
BY DEF TradesTypeOK, Send


\* The transaction of a trade event writes statuses of trades.
LEMMA SaveTyped ==
  ASSUME TradesTypeOK, NEW e \in AllEvents, e.ticket # None, Save(e)
  PROVE  /\ strategy' \in [Strategies -> [status : Statuses \cup {"untriggered", "rejected", "expired"},
                                          active : BOOLEAN]]
         /\ signal' \in [Tickets -> {"absent"} \cup Statuses]
         /\ live' \in [Tickets -> {"absent"} \cup Statuses]
         /\ counted' \in [Deals -> Nat]
<1> DEFINE t == e.ticket
           status == Normalise(e.status)
           written == IF status \in Closed THEN SignalStatus(signal[t], status) ELSE status
<1>1. t \in Tickets /\ e.strategy \in Strategies /\ status \in Statuses /\ (HasDeal(e) => Deal(e) \in Deals)
  BY EventKinds, NormaliseStatus
<1>2. signal[t] \in {"absent"} \cup Statuses /\ live[t] \in {"absent"} \cup Statuses
  BY <1>1 DEF TradesTypeOK
<1>3. written \in Statuses /\ SignalStatus(signal[t], status) \in Statuses
  BY <1>1, <1>2 DEF SignalStatus, Statuses, Closed, Specific
<1>4. LiveState(live[t], written) \in {"absent"} \cup Statuses
  BY <1>2, <1>3 DEF LiveState, Statuses
<1>5. strategy' = [strategy EXCEPT ![e.strategy].status = written]
  BY DEF Save
<1>6. signal' = [signal EXCEPT ![t] = SignalStatus(signal[t], status)]
  BY <1>1 DEF Save, TradesTypeOK
<1>7. live' = [live EXCEPT ![t] = LiveState(live[t], written)]
  BY <1>1 DEF Save, TradesTypeOK
<1>8. counted' \in [Deals -> Nat]
  BY <1>1 DEF Save, TradesTypeOK
<1> HIDE DEF t, status, written
<1>9. strategy' \in [Strategies -> [status : Statuses \cup {"untriggered", "rejected", "expired"},
                                    active : BOOLEAN]]
  BY <1>1, <1>3, <1>5 DEF TradesTypeOK
<1> QED
  BY <1>1, <1>3, <1>4, <1>6, <1>7, <1>8, <1>9 DEF TradesTypeOK

----------------------------------------------------------------------------
\* The tables, the tasks and the events keep their shape, for every value of the constants
\* (mt5_executor.py, _handle_trade_event).
THEOREM TradesTyped == TradesSpec => []TradesTypeOK
<1>1. TradesInit => TradesTypeOK
  BY DEF TradesInit, TradesTypeOK, AllEvents, Deals
<1>2. ASSUME TradesTypeOK, [TradesNext]_tradeVars PROVE TradesTypeOK'
  <2>1. ASSUME NEW h \in Handlers, Receive(h) PROVE TradesTypeOK'
    <3>1. PICK i \in 1..Len(sent) :
            /\ job' = [job EXCEPT ![h] = sent[i]]
            /\ arrived' = IF i > arrived THEN i ELSE arrived
      BY <2>1 DEF Receive
    <3>2. sent[i] \in AllEvents /\ arrived' \in 0..Len(sent)
      BY <1>2, <3>1 DEF TradesTypeOK
    <3> QED
      BY <1>2, <2>1, <3>1, <3>2 DEF Receive, TradesTypeOK, tables, ea
  <2>2. ASSUME NEW h \in Handlers, Begin(h) PROVE TradesTypeOK'
    <3>1. job[h] \in AllEvents
      BY <1>2, <2>2 DEF Begin, TradesTypeOK
    <3>2. HasDeal(job[h]) => Deal(job[h]) \in Deals
      BY <3>1, EventKinds
    <3>3. processed' \subseteq Deals /\ forgotten' \in Nat
      BY <1>2, <2>2, <3>2 DEF Begin, TradesTypeOK
    <3>4. /\ pc' \in [Handlers -> {"idle", "start", "commit"}]
          /\ job' \in [Handlers -> AllEvents \cup {NoEvent}]
          /\ \A g \in Handlers : pc'[g] # "idle" => job'[g] \in AllEvents
      BY <1>2, <2>2, <3>1 DEF Begin, TradesTypeOK, Finish, Go
    <3> QED
      BY <1>2, <2>2, <3>3, <3>4 DEF Begin, TradesTypeOK, tables, ea
  <2>3. ASSUME NEW h \in Handlers, Commit(h) PROVE TradesTypeOK'
    <3> DEFINE e == job[h]
    <3>1. e \in AllEvents
      BY <1>2, <2>3 DEF Commit, TradesTypeOK
    <3>2. /\ pc' \in [Handlers -> {"idle", "start", "commit"}]
          /\ job' \in [Handlers -> AllEvents \cup {NoEvent}]
          /\ \A g \in Handlers : pc'[g] # "idle" => job'[g] \in AllEvents
      BY <1>2, <2>3 DEF Commit, TradesTypeOK, Finish
    <3>3. /\ UNCHANGED <<processed, ea, arrived, forgotten>> /\ faults' \in Nat
      BY <1>2, <2>3 DEF Commit, TradesTypeOK
    <3>4. CASE UNCHANGED tables
      BY <1>2, <3>2, <3>3, <3>4 DEF TradesTypeOK, tables, ea
    <3>5. CASE e.ticket # None /\ Save(e)
      BY <1>2, <3>1, <3>2, <3>3, <3>5, SaveTyped DEF TradesTypeOK, ea
    <3>6. CASE e.ticket = None /\ SaveLifecycle(e)
      BY <1>2, <3>1, <3>2, <3>3, <3>6, EventKinds DEF TradesTypeOK, ea, SaveLifecycle, Normalise
    <3> QED
      BY <2>3, <3>4, <3>5, <3>6 DEF Commit
  <2>4. CASE Disconnect
    BY <1>2, <2>4 DEF Disconnect, TradesTypeOK, tables, memory, ea
  <2>5. CASE RestartExecutor
    BY <1>2, <2>5 DEF RestartExecutor, TradesTypeOK, tables, ea
  <2>6. ASSUME NEW s \in Strategies, Expire(s) PROVE TradesTypeOK'
    BY <1>2, <2>6 DEF Expire, TradesTypeOK, memory, ea
  <2>7. ASSUME NEW t \in Tickets, EA(t) PROVE TradesTypeOK'
    <3>1. position' \in [Tickets -> {"none", "dropped", "open", "closed"}]
      BY <1>2, <2>7 DEF EA, EAOpens, EADrops, EAModifies, EACloses, EAReports, TradesTypeOK
    <3>2. \E e \in AllEvents : Send(e)
      <4>1. CASE EAOpens(t)
        BY <4>1, SentEvents DEF EAOpens
      <4>2. CASE EADrops(t)
        BY <4>2, SentEvents DEF EADrops
      <4>3. CASE EAModifies(t)
        BY <4>3, SentEvents DEF EAModifies
      <4>4. CASE EACloses(t)
        BY <4>4, SentEvents DEF EACloses
      <4>5. CASE EAReports(t)
        BY <4>5, SentEvents DEF EAReports
      <4> QED
        BY <2>7, <4>1, <4>2, <4>3, <4>4, <4>5 DEF EA
    <3>3. PICK e \in AllEvents : Send(e)
      BY <3>2
    <3>4. sent' \in Seq(AllEvents) /\ arrived' \in 0..Len(sent')
      BY <1>2, <3>3, Sending
    <3> QED
      BY <1>2, <3>1, <3>3, <3>4 DEF Send, TradesTypeOK, tables, memory
  <2>8. CASE UNCHANGED tradeVars
    BY <1>2, <2>8 DEF tradeVars, TradesTypeOK, tables, memory, ea
  <2> QED
    BY <1>2, <2>1, <2>2, <2>3, <2>4, <2>5, <2>6, <2>7, <2>8 DEF TradesNext
<1> QED
  BY <1>1, <1>2, PTL DEF TradesSpec

----------------------------------------------------------------------------
\* What a trade's tables say agrees, in whatever order and however often its events are handled
\* (mt5_executor.py, _handle_trade_event and _upsert_live_trade_state).
THEOREM TablesAlwaysAgree == TradesSpec => []TablesAgree
<1>1. TradesInit => TablesAgree
  BY DEF TradesInit, TablesAgree, Closed, Specific
<1>2. ASSUME TradesTypeOK, TablesAgree, [TradesNext]_tradeVars PROVE TablesAgree'
  <2>1. CASE UNCHANGED <<signal, live>>
    BY <1>2, <2>1 DEF TablesAgree
  <2>2. ASSUME NEW h \in Handlers, Commit(h), job[h].ticket # None, Save(job[h])
        PROVE  TablesAgree'
    <3> DEFINE e == job[h]
               t == e.ticket
               status == Normalise(e.status)
               written == IF status \in Closed THEN SignalStatus(signal[t], status) ELSE status
    <3>1. e \in AllEvents
      BY <1>2, <2>2 DEF Commit, TradesTypeOK
    <3>2. t \in Tickets /\ status \in Statuses
      BY <2>2, <3>1, EventKinds, NormaliseStatus
    <3>3. signal' = [signal EXCEPT ![t] = SignalStatus(signal[t], status)]
      BY <2>2, <3>2 DEF Save, TradesTypeOK
    <3>4. live' = [live EXCEPT ![t] = LiveState(live[t], written)]
      BY <2>2, <3>2 DEF Save, TradesTypeOK
    <3>5. /\ signal[t] \in {"absent"} \cup Statuses /\ live[t] \in {"absent"} \cup Statuses
          /\ signal[t] = "open" => live[t] = "open"
          /\ live[t] \in Closed => signal[t] = live[t]
      BY <1>2, <3>2 DEF TradesTypeOK, TablesAgree
    <3> HIDE DEF t, status
    <3>6. /\ SignalStatus(signal[t], status) = "open" => LiveState(live[t], written) = "open"
          /\ LiveState(live[t], written) \in Closed
               => SignalStatus(signal[t], status) = LiveState(live[t], written)
      BY <3>2, <3>5 DEF SignalStatus, LiveState, Statuses, Closed, Specific
    <3> QED
      BY <1>2, <3>2, <3>3, <3>4, <3>6 DEF TradesTypeOK, TablesAgree
  <2>3. ASSUME NEW h \in Handlers, Commit(h) PROVE TablesAgree'
    BY <2>1, <2>2, <2>3 DEF Commit, SaveLifecycle, tables
  <2>4. ASSUME NEW t \in Tickets, EA(t) PROVE UNCHANGED <<signal, live>>
    BY <2>4 DEF EA, EAOpens, EADrops, EAModifies, EACloses, EAReports, Send, tables
  <2> QED
    BY <1>2, <2>1, <2>3, <2>4 DEF TradesNext, Receive, Begin, Disconnect, RestartExecutor, Expire, tradeVars, tables
<1> QED
  BY <1>1, <1>2, TradesTyped, PTL DEF TradesSpec

----------------------------------------------------------------------------
\* A closed signal stays closed, and a specific reason of the close stays one, whatever event
\* comes late or twice (mt5_executor.py, the guard against out-of-order updates).
THEOREM ClosureIsKept == TradesSpec => ClosureKept
<1> DEFINE Kept == \A t \in Tickets :
             /\ signal[t] \in Closed => signal'[t] \in Closed
             /\ signal[t] \in Specific => signal'[t] \in Specific
<1>1. ASSUME TradesTypeOK, [TradesNext]_tradeVars PROVE Kept \/ UNCHANGED tradeVars
  <2>1. CASE UNCHANGED signal
    BY <2>1
  <2>2. ASSUME NEW h \in Handlers, job[h].ticket # None, Save(job[h]), Commit(h) PROVE Kept
    <3> DEFINE u == job[h].ticket
               status == Normalise(job[h].status)
    <3>1. u \in Tickets /\ status \in Statuses
      BY <1>1, <2>2, EventKinds, NormaliseStatus DEF Commit, TradesTypeOK
    <3>2. signal' = [signal EXCEPT ![u] = SignalStatus(signal[u], status)]
      BY <2>2, <3>1 DEF Save, TradesTypeOK
    <3> HIDE DEF u, status
    <3>3. /\ signal[u] \in Closed => SignalStatus(signal[u], status) \in Closed
          /\ signal[u] \in Specific => SignalStatus(signal[u], status) \in Specific
      BY <3>1 DEF SignalStatus, Statuses, Closed, Specific
    <3> QED
      BY <1>1, <3>1, <3>2, <3>3 DEF TradesTypeOK
  <2>3. ASSUME NEW h \in Handlers, Commit(h) PROVE Kept
    BY <2>1, <2>2, <2>3 DEF Commit, SaveLifecycle, tables
  <2>4. ASSUME NEW t \in Tickets, EA(t) PROVE UNCHANGED signal
    BY <2>4 DEF EA, EAOpens, EADrops, EAModifies, EACloses, EAReports, Send, tables
  <2> QED
    BY <1>1, <2>1, <2>3, <2>4 DEF TradesNext, Receive, Begin, Disconnect, RestartExecutor, Expire, tradeVars, tables
<1> QED
  BY <1>1, TradesTyped, PTL DEF TradesSpec, ClosureKept

----------------------------------------------------------------------------
\* The tasks at work on a deal are finitely many.
LEMMA PendingCount ==
  ASSUME NEW d
  PROVE  IsFiniteSet(Working(d)) /\ Cardinality(Working(d)) \in Nat
<1>1. Working(d) \subseteq Handlers
  BY DEF Working
<1> QED
  BY <1>1, TradesAssumption, FS_Subset, FS_CardinalityType

\* A task that leaves the transaction of its deal is one fewer, and no other deal gains one.
LEMMA Leaving ==
  ASSUME TradesTypeOK, NEW h \in Handlers, Finish(h), NEW d
  PROVE  /\ Cardinality(Working(d)') <= Cardinality(Working(d))
         /\ h \in Working(d) => Cardinality(Working(d)') = Cardinality(Working(d)) - 1
<1>1. Working(d)' = Working(d) \ {h}
  BY DEF Working, Finish, TradesTypeOK, HasDeal, Deal
<1>2. /\ Cardinality(Working(d) \ {h}) = IF h \in Working(d) THEN Cardinality(Working(d)) - 1
                                           ELSE Cardinality(Working(d))
  BY PendingCount, FS_RemoveElement
<1> QED
  BY <1>1, <1>2, PendingCount

\* A task that goes on to the transaction of its deal is one more for that deal only.
LEMMA Going ==
  ASSUME TradesTypeOK, NEW h \in Handlers, pc[h] = "start", Go(h), NEW d
  PROVE  Cardinality(Working(d)') =
           Cardinality(Working(d)) + (IF HasDeal(job[h]) /\ Deal(job[h]) = d THEN 1 ELSE 0)
<1>1. h \notin Working(d)
  BY DEF Working
<1>2. CASE HasDeal(job[h]) /\ Deal(job[h]) = d
  <2>1. Working(d)' = Working(d) \cup {h}
    BY <1>2 DEF Working, Go, TradesTypeOK
  <2> QED
    BY <1>1, <1>2, <2>1, PendingCount, FS_AddElement
<1>3. CASE ~(HasDeal(job[h]) /\ Deal(job[h]) = d)
  <2>1. Working(d)' = Working(d)
    BY <1>3 DEF Working, Go, TradesTypeOK
  <2> QED
    BY <1>3, <2>1, PendingCount
<1> QED
  BY <1>2, <1>3

\* What a deal earned is in the pnl once, and once more at most for each time the deals were
\* forgotten (mt5_executor.py, _processed_deals).
THEOREM DealsCountedOnce == TradesSpec => []DealCountedOnce
<1>1. ASSUME TradesInit PROVE CountInv
  <2>1. SUFFICES ASSUME NEW d \in Deals
                 PROVE  counted[d] + Cardinality(Working(d)) <=
                          forgotten + (IF d \in processed THEN 1 ELSE 0)
    BY DEF CountInv
  <2>2. Working(d) = {}
    BY <1>1 DEF TradesInit, Working
  <2>3. Cardinality(Working(d)) = 0
    BY <2>2, FS_EmptySet
  <2>4. counted[d] = 0 /\ forgotten = 0 /\ processed = {}
    BY <1>1 DEF TradesInit
  <2> QED
    BY <2>3, <2>4
<1>2. ASSUME TradesTypeOK, CountInv, [TradesNext]_tradeVars PROVE CountInv'
  <2>1. SUFFICES ASSUME NEW d \in Deals
                 PROVE  (counted[d] + Cardinality(Working(d)) <=
                          forgotten + (IF d \in processed THEN 1 ELSE 0))'
    BY DEF CountInv
  <2> DEFINE told == IF d \in processed THEN 1 ELSE 0
             P == Cardinality(Working(d))
  <2>2. counted[d] \in Nat /\ P \in Nat /\ forgotten \in Nat /\ told \in {0, 1}
    BY <1>2, PendingCount DEF TradesTypeOK
  <2>3. counted[d] + P <= forgotten + told
    BY <1>2 DEF CountInv
  <2>4. CASE UNCHANGED <<counted, processed, pc, job, forgotten>>
    <3>1. Working(d)' = Working(d)
      BY <2>4 DEF Working
    <3> QED
      BY <2>3, <2>4, <3>1
  <2>5. ASSUME NEW h \in Handlers, Receive(h)
        PROVE  counted'[d] + Cardinality(Working(d)') <= forgotten' + told'
    <3>1. Working(d)' = Working(d)
      BY <1>2, <2>5 DEF Receive, Working, TradesTypeOK
    <3> QED
      BY <2>3, <2>5, <3>1 DEF Receive, tables
  <2>6. ASSUME NEW h \in Handlers, Begin(h)
        PROVE  counted'[d] + Cardinality(Working(d)') <= forgotten' + told'
    <3>1. counted' = counted /\ pc[h] = "start"
      BY <2>6 DEF Begin, tables
    <3>2. CASE Finish(h) /\ UNCHANGED <<processed, forgotten>>
      <4>1. Cardinality(Working(d)') <= P
        BY <1>2, <3>2, Leaving
      <4>2. Cardinality(Working(d)') \in Nat
        <5>1. Working(d)' \subseteq Handlers
          BY DEF Working
        <5> QED
          BY <5>1, TradesAssumption, FS_Subset, FS_CardinalityType
      <4> QED
        BY <2>2, <2>3, <3>1, <3>2, <4>1, <4>2
    <3>3. CASE Go(h) /\ UNCHANGED <<processed, forgotten>> /\ ~HasDeal(job[h])
      <4>1. Cardinality(Working(d)') = P
        BY <1>2, <2>2, <3>1, <3>3, Going
      <4> QED
        BY <2>2, <2>3, <3>1, <3>3, <4>1
    <3>4. CASE /\ Go(h) /\ HasDeal(job[h]) /\ Deal(job[h]) \notin processed
               /\ processed' = processed \cup {Deal(job[h])} /\ forgotten' = forgotten
      <4>1. Cardinality(Working(d)') = P + (IF Deal(job[h]) = d THEN 1 ELSE 0)
        BY <1>2, <3>1, <3>4, Going
      <4> QED
        BY <2>2, <2>3, <3>1, <3>4, <4>1
    <3>5. CASE /\ Go(h) /\ HasDeal(job[h]) /\ Deal(job[h]) \notin processed
               /\ processed' = {} /\ forgotten' = forgotten + 1
      <4>1. Cardinality(Working(d)') = P + (IF Deal(job[h]) = d THEN 1 ELSE 0)
        BY <1>2, <3>1, <3>5, Going
      <4> QED
        BY <2>2, <2>3, <3>1, <3>5, <4>1
    <3> QED
      BY <2>6, <3>2, <3>3, <3>4, <3>5 DEF Begin
  <2>7. ASSUME NEW h \in Handlers, Commit(h)
        PROVE  counted'[d] + Cardinality(Working(d)') <= forgotten' + told'
    <3>1. /\ Finish(h) /\ UNCHANGED <<processed, forgotten>> /\ job[h] \in AllEvents
          /\ pc[h] = "commit"
      BY <1>2, <2>7 DEF Commit, TradesTypeOK
    <3>2. /\ Cardinality(Working(d)') <= P
          /\ h \in Working(d) => Cardinality(Working(d)') = P - 1
      BY <1>2, <3>1, Leaving
    <3>3. \/ counted' = counted
          \/ HasDeal(job[h]) /\ counted' = [counted EXCEPT ![Deal(job[h])] = counted[Deal(job[h])] + 1]
      BY <2>7 DEF Commit, Save, SaveLifecycle, tables
    <3>4. Cardinality(Working(d)') \in Nat
      <4>1. Working(d)' \subseteq Handlers
        BY DEF Working
      <4> QED
        BY <4>1, TradesAssumption, FS_Subset, FS_CardinalityType
    <3>5. CASE HasDeal(job[h]) /\ Deal(job[h]) = d
      <4>1. h \in Working(d)
        BY <3>1, <3>5 DEF Working
      <4>2. counted'[d] <= counted[d] + 1 /\ counted'[d] \in Nat
        BY <1>2, <2>2, <3>3, <3>5 DEF TradesTypeOK
      <4> QED
        BY <2>2, <2>3, <3>1, <3>2, <3>4, <4>1, <4>2
    <3>6. CASE ~(HasDeal(job[h]) /\ Deal(job[h]) = d)
      <4>1. counted'[d] = counted[d]
        BY <1>2, <3>3, <3>6 DEF TradesTypeOK
      <4> QED
        BY <2>2, <2>3, <3>1, <3>2, <3>4, <4>1
    <3> QED
      BY <3>5, <3>6
  <2>8. CASE RestartExecutor
    <3>1. Working(d)' = {}
      BY <2>8 DEF RestartExecutor, Working
    <3>2. counted' = counted /\ processed' = {} /\ forgotten' = forgotten + 1
      BY <2>8 DEF RestartExecutor, tables
    <3> QED
      BY <2>2, <2>3, <3>1, <3>2, FS_EmptySet
  <2>9. ASSUME NEW t \in Tickets, EA(t)
        PROVE  UNCHANGED <<counted, processed, pc, job, forgotten>>
    BY <2>9 DEF EA, EAOpens, EADrops, EAModifies, EACloses, EAReports, Send, tables, memory
  <2>10. CASE Disconnect \/ (\E s \in Strategies : Expire(s)) \/ UNCHANGED tradeVars
    BY <2>4, <2>10 DEF Disconnect, Expire, tradeVars, tables, memory
  <2> QED
    BY <1>2, <2>4, <2>5, <2>6, <2>7, <2>8, <2>9, <2>10 DEF TradesNext
<1>3. ASSUME TradesTypeOK, CountInv PROVE DealCountedOnce
  <2>1. SUFFICES ASSUME NEW d \in Deals PROVE counted[d] <= 1 + forgotten
    BY DEF DealCountedOnce
  <2>2. counted[d] \in Nat /\ forgotten \in Nat /\ Cardinality(Working(d)) \in Nat
    BY <1>3, PendingCount DEF TradesTypeOK
  <2>3. counted[d] + Cardinality(Working(d)) <= forgotten + (IF d \in processed THEN 1 ELSE 0)
    BY <1>3 DEF CountInv
  <2> QED
    BY <2>2, <2>3
<1> QED
  BY <1>1, <1>2, <1>3, TradesTyped, PTL DEF TradesSpec
----------------------------------------------------------------------------
\* The ingest server: what is shown of it.

\* What the bridge sends.
Frame == [type : {"chunk"}, job : Job, bar : Nat] \cup [type : {"end", "failed", "full", "unhandled"}, job : Job]
           \cup [type : {"live"}, sym : Symbols, bar : Nat]

\* The types of the variables.
Types ==
  /\ case \in Cases
  /\ clock \in Nat \ {0} /\ seq \in Nat /\ known \subseteq Symbols
  /\ stored \in [Symbols -> SUBSET Nat] /\ \A y \in Symbols : \A b \in stored[y] : b < clock
  /\ wrong \in [Symbols -> SUBSET Nat] /\ \A y \in Symbols : wrong[y] \subseteq stored[y]
  /\ DOMAIN stage = Sessions /\ alive \in [Sessions -> BOOLEAN]
  /\ sessions \subseteq Sessions /\ asked \in [Sessions -> SUBSET Symbols]
  /\ DOMAIN tries = Sessions /\ \A s \in Sessions : Pending(s) \subseteq Job
  /\ queue \in [Sessions -> Seq(Job)] /\ inflight \in [Sessions -> SUBSET Job]
  /\ DOMAIN sender = Sessions /\ held \in [Sessions -> Job \cup {NoJob}]
  /\ forced \subseteq Nat /\ given \in Seq(Nat)
  /\ toServer \in [Sessions -> Seq(Frame)] /\ requests \in [Sessions -> Seq(Job)]
  /\ listens \in [Sessions -> SUBSET Symbols] /\ connectedAt \in [Sessions -> Nat]
  /\ excused \in [Symbols -> SUBSET Nat]

\* A frame after which the bridge has done with a request.
Final(m) == m.type \in {"end", "failed", "full", "unhandled"}
Finals(q) == {q[i].job : i \in {k \in DOMAIN q : Final(q[k])}}
OneFinal(q) == \A i, k \in DOMAIN q : (Final(q[i]) /\ Final(q[k]) /\ q[i].job = q[k].job) => i = k
JobsIn(q) == {q[i].job : i \in {k \in DOMAIN q : q[k].type # "live"}}
Hand(s) == {held[s]} \ {NoJob}
Token(s) == ToSet(requests[s]) \cup Finals(toServer[s])
AllJobs(s) == Pending(s) \cup Hand(s) \cup ToSet(requests[s]) \cup JobsIn(toServer[s])

\* Jobs have a place among the numbers given, and those the server made itself a range that had begun.
Numbered ==
  \A s \in Sessions : \A j \in AllJobs(s) :
    /\ j.nr \in DOMAIN given /\ given[j.nr] = j.id /\ j.from <= j.to
    /\ ~j.manual => j.to <= clock /\ ~j.upsert

\* What was given stays given.
MoreGiven == \A i \in DOMAIN given : i \in DOMAIN given' /\ given'[i] = given[i]

\* A bar that is on its way has closed.
Dated ==
  \A s \in Sessions : \A m \in ToSet(toServer[s]) : m.type \in {"chunk", "live"} => m.bar < clock

\* A job is written while the sender writes, and there is none without a session at work; those of
\* a session are the server's own.
Tidy(s) ==
  /\ (sender[s] = "writing") = (held[s] # NoJob)
  /\ stage[s] # "loop" => Pending(s) = {} /\ sender[s] = "none"
  /\ \A j \in Pending(s) \cup Hand(s) : ~j.manual

\* Where the jobs of a session are: each in one place.
Placed(s) ==
  /\ IsInjective(queue[s])
  /\ Pending(s) = ToSet(queue[s]) \cup inflight[s] \cup Hand(s)
  /\ ToSet(queue[s]) \cap inflight[s] = {} /\ Hand(s) \cap (ToSet(queue[s]) \cup inflight[s]) = {}

\* A job is in flight as long as the bridge has its request or the server its last frame to read, but
\* for one that met an error that is not handled.
Awaited(s) ==
  /\ IsInjective(requests[s]) /\ OneFinal(toServer[s])
  /\ ToSet(requests[s]) \cap Finals(toServer[s]) = {}
  /\ Token(s) \cap Pending(s) \subseteq inflight[s]
  /\ alive[s] => inflight[s] \subseteq Token(s) \/ s \in gaveUp

\* Without a task a job is in flight; without a job the session is subscribed.
Driven(s) ==
  /\ (sender[s] = "none" /\ Pending(s) # {} /\ alive[s]) => inflight[s] # {}
  /\ (stage[s] = "loop" /\ Pending(s) = {}) => s \in subscribed \/ s \in gaveUp

----------------------------------------------------------------------------
\* Lemmas about sequences.

\* The fields of a frame.
LEMMA FrameFields ==
  ASSUME NEW m \in Frame
  PROVE  /\ m.type \in {"chunk", "end", "failed", "full", "unhandled", "live"}
         /\ m.type # "live" => m.job \in Job
         /\ m.type \in {"chunk", "live"} => m.bar \in Nat
         /\ m.type = "live" => m.sym \in Symbols
BY DEF Frame

LEMMA JobFields ==
  ASSUME NEW j \in Job
  PROVE  /\ j.id \in Nat /\ j.nr \in Nat /\ j.sym \in Symbols /\ j.tf \in {"D1", "M1"} /\ j.from \in Nat /\ j.to \in Nat
         /\ j.upsert \in BOOLEAN /\ j.manual \in BOOLEAN
         /\ Bars(j) \in SUBSET Nat
BY DEF Job, Bars

\* Appending to a sequence without repetition something that is not in it.
LEMMA AppendSet ==
  ASSUME NEW S, NEW q \in Seq(S), NEW x \in S
  PROVE  /\ Append(q, x) \in Seq(S) /\ ToSet(Append(q, x)) = ToSet(q) \cup {x}
         /\ IsInjective(q) /\ x \notin ToSet(q) => IsInjective(Append(q, x))
<1>1. /\ Append(q, x) \in Seq(S) /\ Len(Append(q, x)) = Len(q) + 1 /\ Len(q) \in Nat
      /\ DOMAIN q = 1..Len(q) /\ DOMAIN Append(q, x) = 1..(Len(q) + 1)
      /\ \A i \in 1..Len(q) : Append(q, x)[i] = q[i]
      /\ Append(q, x)[Len(q) + 1] = x
  OBVIOUS
<1>2. ToSet(Append(q, x)) = ToSet(q) \cup {x}
  BY <1>1 DEF ToSet
<1>3. ASSUME IsInjective(q), x \notin ToSet(q) PROVE IsInjective(Append(q, x))
  BY <1>1, <1>3 DEF ToSet, IsInjective
<1> QED
  BY <1>1, <1>2, <1>3

\* Putting something in front.
LEMMA PrependSet ==
  ASSUME NEW S, NEW q \in Seq(S), NEW x \in S
  PROVE  /\ <<x>> \o q \in Seq(S) /\ ToSet(<<x>> \o q) = ToSet(q) \cup {x}
         /\ IsInjective(q) /\ x \notin ToSet(q) => IsInjective(<<x>> \o q)
<1> DEFINE p == <<x>> \o q
<1>1. /\ p \in Seq(S) /\ Len(p) = Len(q) + 1 /\ Len(q) \in Nat
      /\ DOMAIN q = 1..Len(q) /\ DOMAIN p = 1..(Len(q) + 1)
      /\ p[1] = x /\ \A i \in 2..(Len(q) + 1) : p[i] = q[i - 1]
  OBVIOUS
<1> HIDE DEF p
<1>2. /\ \A i \in DOMAIN q : i + 1 \in DOMAIN p /\ p[i + 1] = q[i]
      /\ \A i \in DOMAIN p : i = 1 \/ (i - 1 \in DOMAIN q /\ p[i] = q[i - 1])
      /\ 1 \in DOMAIN p /\ DOMAIN p \subseteq Int
  BY <1>1
<1>3. ToSet(p) = ToSet(q) \cup {x}
  <2>1. \A y \in ToSet(q) : y \in ToSet(p)
    BY <1>2 DEF ToSet
  <2>2. ASSUME NEW y \in ToSet(p) PROVE y \in ToSet(q) \cup {x}
    <3>1. PICK i \in DOMAIN p : y = p[i]
      BY DEF ToSet
    <3> QED
      BY <1>1, <1>2, <3>1 DEF ToSet
  <2>3. x \in ToSet(p)
    BY <1>1, <1>2 DEF ToSet
  <2> QED
    BY <2>1, <2>2, <2>3
<1>4. ASSUME IsInjective(q), x \notin ToSet(q) PROVE IsInjective(p)
  <2>1. SUFFICES ASSUME NEW a \in DOMAIN p, NEW b \in DOMAIN p, p[a] = p[b] PROVE a = b
    BY DEF IsInjective
  <2>2. \A i \in DOMAIN p : i # 1 => p[i] # x
    BY <1>2, <1>4 DEF ToSet
  <2>3. CASE a # 1 /\ b # 1
    <3>1. q[a - 1] = q[b - 1] /\ a - 1 \in DOMAIN q /\ b - 1 \in DOMAIN q
      BY <1>2, <2>1, <2>3
    <3>2. a - 1 = b - 1
      BY <1>4, <3>1 DEF IsInjective
    <3> QED
      BY <1>2, <3>2
  <2> QED
    BY <1>1, <2>1, <2>2, <2>3
<1> QED
  BY <1>1, <1>3, <1>4 DEF p

\* Taking the first.
LEMMA TailSet ==
  ASSUME NEW S, NEW q \in Seq(S), q # <<>>
  PROVE  /\ Tail(q) \in Seq(S) /\ Head(q) \in S /\ Head(q) \in ToSet(q)
         /\ ToSet(q) = ToSet(Tail(q)) \cup {Head(q)}
         /\ IsInjective(q) => IsInjective(Tail(q)) /\ Head(q) \notin ToSet(Tail(q))
<1>1. /\ Tail(q) \in Seq(S) /\ Len(q) \in Nat /\ Len(q) >= 1 /\ DOMAIN q = 1..Len(q)
      /\ DOMAIN Tail(q) = 1..(Len(q) - 1) /\ Head(q) = q[1] /\ q[1] \in S
      /\ \A i \in 1..(Len(q) - 1) : Tail(q)[i] = q[i + 1]
  OBVIOUS
<1>2. ToSet(q) = ToSet(Tail(q)) \cup {Head(q)} /\ Head(q) \in ToSet(q)
  <2>1. /\ \A i \in DOMAIN q : i = 1 \/ (i - 1 \in DOMAIN Tail(q) /\ Tail(q)[i - 1] = q[i])
        /\ \A i \in DOMAIN Tail(q) : i + 1 \in DOMAIN q /\ Tail(q)[i] = q[i + 1]
        /\ 1 \in DOMAIN q
    BY <1>1
  <2>2. \A y \in ToSet(Tail(q)) : y \in ToSet(q)
    BY <2>1 DEF ToSet
  <2>3. ASSUME NEW y \in ToSet(q) PROVE y \in ToSet(Tail(q)) \cup {Head(q)}
    <3>1. PICK i \in DOMAIN q : y = q[i]
      BY DEF ToSet
    <3> QED
      BY <1>1, <2>1, <3>1 DEF ToSet
  <2>4. Head(q) \in ToSet(q)
    BY <1>1, <2>1 DEF ToSet
  <2> QED
    BY <2>2, <2>3, <2>4
<1>3. ASSUME IsInjective(q) PROVE IsInjective(Tail(q)) /\ Head(q) \notin ToSet(Tail(q))
  BY <1>1, <1>3 DEF ToSet, IsInjective
<1> QED
  BY <1>1, <1>2, <1>3

\* Frames are read one by one: a last frame of a job is read once.
LEMMA TailFinals ==
  ASSUME NEW q \in Seq(Frame), q # <<>>
  PROVE  /\ JobsIn(Tail(q)) \subseteq JobsIn(q) /\ (Head(q).type # "live" => Head(q).job \in JobsIn(q))
         /\ Finals(q) = Finals(Tail(q)) \cup (IF Final(Head(q)) THEN {Head(q).job} ELSE {})
         /\ OneFinal(q) => /\ OneFinal(Tail(q))
                           /\ Final(Head(q)) => Head(q).job \notin Finals(Tail(q))
<1>1. /\ Tail(q) \in Seq(Frame) /\ Len(q) \in Nat /\ Len(q) >= 1 /\ DOMAIN q = 1..Len(q)
      /\ DOMAIN Tail(q) = 1..(Len(q) - 1) /\ Head(q) = q[1]
      /\ \A i \in 1..(Len(q) - 1) : Tail(q)[i] = q[i + 1]
  OBVIOUS
<1>2. /\ \A i \in DOMAIN q : i = 1 \/ (i - 1 \in DOMAIN Tail(q) /\ Tail(q)[i - 1] = q[i])
      /\ \A i \in DOMAIN Tail(q) : i + 1 \in DOMAIN q /\ Tail(q)[i] = q[i + 1]
      /\ 1 \in DOMAIN q
  BY <1>1
<1>3. JobsIn(Tail(q)) \subseteq JobsIn(q) /\ (Head(q).type # "live" => Head(q).job \in JobsIn(q))
  BY <1>1 DEF JobsIn
<1>4. Finals(q) = Finals(Tail(q)) \cup (IF Final(Head(q)) THEN {Head(q).job} ELSE {})
  <2>1. ASSUME NEW j \in Finals(q), j \notin Finals(Tail(q)) PROVE Final(Head(q)) /\ j = Head(q).job
    <3>1. PICK i \in DOMAIN q : Final(q[i]) /\ j = q[i].job
      BY DEF Finals
    <3>2. ~(i - 1 \in DOMAIN Tail(q) /\ Tail(q)[i - 1] = q[i])
      BY <2>1, <3>1 DEF Finals
    <3> QED
      BY <1>1, <1>2, <3>1, <3>2
  <2>2. Finals(Tail(q)) \subseteq Finals(q)
    <3>1. ASSUME NEW j \in Finals(Tail(q)) PROVE j \in Finals(q)
      <4>1. PICK i \in DOMAIN Tail(q) : Final(Tail(q)[i]) /\ j = Tail(q)[i].job
        BY DEF Finals
      <4> QED
        BY <1>2, <4>1 DEF Finals
    <3> QED
      BY <3>1
  <2>3. Final(Head(q)) => Head(q).job \in Finals(q)
    BY <1>1, <1>2, Zenon DEF Finals
  <2> QED
    BY <2>1, <2>2, <2>3
<1>5. ASSUME OneFinal(q)
      PROVE  OneFinal(Tail(q)) /\ (Final(Head(q)) => Head(q).job \notin Finals(Tail(q)))
  BY <1>1, <1>5 DEF OneFinal, Finals
<1> QED
  BY <1>3, <1>4, <1>5

\* A last frame is added.
LEMMA AppendFinal ==
  ASSUME NEW q \in Seq(Frame), NEW m \in Frame, Final(m)
  PROVE  /\ Append(q, m) \in Seq(Frame) /\ JobsIn(Append(q, m)) = JobsIn(q) \cup {m.job}
         /\ Finals(Append(q, m)) = Finals(q) \cup {m.job}
         /\ OneFinal(q) /\ m.job \notin Finals(q) => OneFinal(Append(q, m))
<1> DEFINE p == Append(q, m)
<1>1. /\ p \in Seq(Frame) /\ Len(q) \in Nat /\ DOMAIN q = 1..Len(q) /\ DOMAIN p = 1..(Len(q) + 1)
      /\ p[Len(q) + 1] = m /\ \A i \in 1..Len(q) : p[i] = q[i]
  OBVIOUS
<1> HIDE DEF p
<1>2. m.type # "live"
  BY DEF Final
<1>3. JobsIn(p) = JobsIn(q) \cup {m.job}
  BY <1>1, <1>2 DEF JobsIn
<1>4. Finals(p) = Finals(q) \cup {m.job}
  BY <1>1 DEF Finals
<1>5. ASSUME OneFinal(q), m.job \notin Finals(q) PROVE OneFinal(p)
  BY <1>1, <1>5 DEF OneFinal, Finals
<1> QED
  BY <1>1, <1>3, <1>4, <1>5 DEF p

\* Frames that are not the last of a job are added.
LEMMA ConcatQuiet ==
  ASSUME NEW q \in Seq(Frame), NEW r \in Seq(Frame), \A i \in DOMAIN r : ~Final(r[i])
  PROVE  /\ q \o r \in Seq(Frame) /\ JobsIn(q \o r) = JobsIn(q) \cup JobsIn(r)
         /\ Finals(q \o r) = Finals(q)
         /\ OneFinal(q) => OneFinal(q \o r)
<1> DEFINE p == q \o r
<1>1. /\ p \in Seq(Frame) /\ Len(q) \in Nat /\ Len(r) \in Nat
      /\ DOMAIN q = 1..Len(q) /\ DOMAIN r = 1..Len(r) /\ DOMAIN p = 1..(Len(q) + Len(r))
      /\ \A i \in DOMAIN p : p[i] = IF i <= Len(q) THEN q[i] ELSE r[i - Len(q)]
  OBVIOUS
<1> HIDE DEF p
<1>2. /\ \A i \in DOMAIN q : i \in DOMAIN p /\ p[i] = q[i]
      /\ \A i \in DOMAIN r : Len(q) + i \in DOMAIN p /\ p[Len(q) + i] = r[i]
      /\ \A i \in DOMAIN p :
           (i \in DOMAIN q /\ p[i] = q[i]) \/ (i - Len(q) \in DOMAIN r /\ p[i] = r[i - Len(q)])
  <2>1. \A i \in DOMAIN r : Len(q) + i \in DOMAIN p /\ ~(Len(q) + i <= Len(q)) /\ Len(q) + i - Len(q) = i
    BY <1>1
  <2>2. \A i \in DOMAIN r : Len(q) + i \in DOMAIN p /\ p[Len(q) + i] = r[i]
    BY <1>1, <2>1
  <2>3. \A i \in DOMAIN q : i \in DOMAIN p /\ p[i] = q[i]
    BY <1>1
  <2>4. \A i \in DOMAIN p :
           (i \in DOMAIN q /\ p[i] = q[i]) \/ (i - Len(q) \in DOMAIN r /\ p[i] = r[i - Len(q)])
    BY <1>1
  <2> QED
    BY <2>2, <2>3, <2>4
<1>3. JobsIn(p) = JobsIn(q) \cup JobsIn(r)
  <2>1. ASSUME NEW j \in JobsIn(p) PROVE j \in JobsIn(q) \cup JobsIn(r)
    <3>1. PICK i \in DOMAIN p : p[i].type # "live" /\ j = p[i].job
      BY DEF JobsIn
    <3> QED
      BY <1>2, <3>1 DEF JobsIn
  <2>2. ASSUME NEW j \in JobsIn(q) PROVE j \in JobsIn(p)
    BY <1>2 DEF JobsIn
  <2>3. ASSUME NEW j \in JobsIn(r) PROVE j \in JobsIn(p)
    <3>1. PICK i \in DOMAIN r : r[i].type # "live" /\ j = r[i].job
      BY DEF JobsIn
    <3> QED
      BY <1>2, <3>1 DEF JobsIn
  <2> QED
    BY <2>1, <2>2, <2>3
<1>4. \A i \in DOMAIN p : Final(p[i]) => i \in DOMAIN q /\ p[i] = q[i]
  BY <1>2, Zenon
<1>5. Finals(p) = Finals(q)
  BY <1>2, <1>4, Zenon DEF Finals
<1>6. ASSUME OneFinal(q) PROVE OneFinal(p)
  BY <1>4, <1>6 DEF OneFinal
<1> QED
  BY <1>1, <1>3, <1>5, <1>6 DEF p

\* The elements of a concatenation.
LEMMA ConcatSet ==
  ASSUME NEW S, NEW q \in Seq(S), NEW r \in Seq(S)
  PROVE  ToSet(q \o r) = ToSet(q) \cup ToSet(r)
<1> DEFINE p == q \o r
<1>1. /\ Len(q) \in Nat /\ Len(r) \in Nat
      /\ DOMAIN q = 1..Len(q) /\ DOMAIN r = 1..Len(r) /\ DOMAIN p = 1..(Len(q) + Len(r))
      /\ \A i \in DOMAIN p : p[i] = IF i <= Len(q) THEN q[i] ELSE r[i - Len(q)]
  OBVIOUS
<1> HIDE DEF p
<1>2. \A i \in DOMAIN q : i \in DOMAIN p /\ p[i] = q[i]
  BY <1>1
<1>3. \A i \in DOMAIN r : Len(q) + i \in DOMAIN p /\ p[Len(q) + i] = r[i]
  <2>1. \A i \in DOMAIN r : Len(q) + i \in DOMAIN p /\ ~(Len(q) + i <= Len(q)) /\ Len(q) + i - Len(q) = i
    BY <1>1
  <2> QED
    BY <1>1, <2>1
<1>4. \A i \in DOMAIN p :
        (i \in DOMAIN q /\ p[i] = q[i]) \/ (i - Len(q) \in DOMAIN r /\ p[i] = r[i - Len(q)])
  BY <1>1
<1>5. ASSUME NEW x \in ToSet(p) PROVE x \in ToSet(q) \cup ToSet(r)
  <2>1. PICK i \in DOMAIN p : x = p[i]
    BY DEF ToSet
  <2> QED
    BY <1>4, <2>1 DEF ToSet
<1>6. ASSUME NEW x \in ToSet(q) PROVE x \in ToSet(p)
  BY <1>2 DEF ToSet
<1>7. ASSUME NEW x \in ToSet(r) PROVE x \in ToSet(p)
  <2>1. PICK i \in DOMAIN r : x = r[i]
    BY DEF ToSet
  <2> QED
    BY <1>3, <2>1 DEF ToSet
<1> QED
  BY <1>5, <1>6, <1>7 DEF p

----------------------------------------------------------------------------
\* Lemmas about the operators of the model.

\* A set of natural numbers with a bound has a greatest one.
LEMMA GreatestOf ==
  ASSUME NEW S \in SUBSET Nat, S # {}, NEW n \in Nat, \A x \in S : x < n
  PROVE  Greatest(S) \in S /\ \A c \in S : c <= Greatest(S)
<1> DEFINE D == {m \in Nat : \E x \in S : m = n - x}
<1>1. PICK x0 : x0 \in S
  OBVIOUS
<1>2. n - x0 \in D
  BY <1>1
<1>3. PICK m \in D : \A k \in D : <<k, m>> \notin OpToRel(<, Nat)
  BY <1>2, NatLessThanWellFounded, WFMin, Zenon
<1>4. m \in Nat /\ \E x \in S : m = n - x
  BY Zenon
<1>9. PICK x \in S : m = n - x
  BY <1>4
<1>5. ASSUME NEW c \in S PROVE c <= x
  <2>1. n - c \in D /\ m \in Nat /\ n - c \in Nat
    BY <1>4, <1>5
  <2>2. <<n - c, m>> \in Nat \X Nat /\ <<n - c, m>>[1] = n - c /\ <<n - c, m>>[2] = m
    BY <2>1
  <2>3. n - c < m => <<n - c, m>> \in OpToRel(<, Nat)
    BY <2>2, Zenon DEF OpToRel
  <2>4. ~(n - c < m)
    BY <1>3, <2>1, <2>3, Zenon
  <2> QED
    BY <1>9, <2>1, <2>4
<1>6. \E b \in S : \A c \in S : c <= b
  BY <1>5
<1> QED
  BY <1>6 DEF Greatest

\* SetToSeq lists a finite set, each element once.
LEMMA Listed ==
  ASSUME NEW S, IsFiniteSet(S)
  PROVE  /\ SetToSeq(S) \in Seq(S) /\ Len(SetToSeq(S)) = Cardinality(S) /\ Cardinality(S) \in Nat
         /\ ToSet(SetToSeq(S)) = S /\ IsInjective(SetToSeq(S))
<1> DEFINE n == Cardinality(S)
<1>1. n \in Nat /\ \E f : f \in Bijection(1..n, S)
  BY FS_CardinalityType DEF ExistsBijection
<1>2. PICK f : f \in Bijection(1..n, S)
  BY <1>1
<1>3. f \in [1..n -> S] /\ IsInjective(f)
  BY <1>2 DEF Bijection, Injection, IsInjective
<1>4. SetToSeq(S) \in [1..n -> S] /\ IsInjective(SetToSeq(S))
  BY <1>3 DEF SetToSeq
<1> DEFINE q == SetToSeq(S)
<1> HIDE DEF q, n
<1>5. q \in [1..n -> S] /\ IsInjective(q)
  BY <1>4 DEF q
<1>6. q \in Seq(S) /\ Len(q) = n /\ DOMAIN q = 1..n
  BY <1>1, <1>5
<1>7. q \in Surjection(1..n, S)
  <2>1. IsFiniteSet(1..n) /\ Cardinality(1..n) = n
    BY <1>1, FS_Interval
  <2>2. q \in Injection(1..n, S)
    BY <1>5 DEF Injection, IsInjective
  <2>3. Cardinality(S) = Cardinality(1..n)
    BY <2>1 DEF n
  <2> QED
    BY <2>1, <2>2, <2>3, FS_Injection
<1>8. ToSet(q) = S
  <2>1. \A y \in S : \E i \in 1..n : q[i] = y
    BY <1>7 DEF Surjection
  <2>2. \A i \in 1..n : q[i] \in S
    BY <1>5
  <2>3. \A y \in S : y \in ToSet(q)
    BY <1>6, <2>1 DEF ToSet
  <2>4. \A y \in ToSet(q) : y \in S
    BY <1>6, <2>2 DEF ToSet
  <2> QED
    BY <2>3, <2>4
<1> QED
  BY <1>1, <1>5, <1>6, <1>8 DEF q, n

\* A job begins no later than now, and after nothing that is not known to be there.
LEMMA FromOf ==
  ASSUME Types, NEW y, NEW latest \in SUBSET Nat, \A b \in latest : b < clock
  PROVE  /\ From(y, latest) \in Nat /\ From(y, latest) <= clock
         /\ latest # {} => \A c \in Nat : c < From(y, latest) => \E a \in latest : c < a
<1>1. clock \in Nat /\ Lookback \in Nat /\ Overlap \in Nat
  BY ConstantsAssumption DEF Types
<1>2. CASE latest = {}
  BY <1>1, <1>2 DEF From, Less
<1>3. CASE latest # {}
  <2>1. Greatest(latest) \in latest /\ Greatest(latest) \in Nat /\ Greatest(latest) < clock
    BY <1>1, <1>3, GreatestOf
  <2>2. From(y, latest) = Less(Greatest(latest), Overlap)
    BY <1>3 DEF From
  <2>3. From(y, latest) \in Nat /\ From(y, latest) <= Greatest(latest)
    BY <1>1, <2>1, <2>2 DEF Less
  <2> QED
    BY <1>1, <2>1, <2>3
<1> QED
  BY <1>2, <1>3

\* The jobs of a session that connects: numbered anew, one for each symbol and timeframe.
LEMMA JobsOf ==
  ASSUME Types, NEW symbols \in SUBSET Symbols, NEW latest \in [Symbols -> SUBSET Nat],
         \A y \in Symbols : \A b \in latest[y] : b < clock
  PROVE  LET todo == Jobs(symbols, latest)
         IN /\ todo \in Seq(Job) /\ Len(todo) \in Nat /\ IsInjective(todo)
            /\ \A j \in ToSet(todo) :
                 /\ ~j.manual /\ j.from <= j.to /\ j.to = clock /\ ~j.upsert
                 /\ j.sym \in symbols /\ (j.tf = "M1" => j.from = From(j.sym, latest[j.sym]))
            /\ \A y \in symbols : \E j \in ToSet(todo) : j.tf = "M1" /\ j.sym = y
            /\ \A i \in DOMAIN todo : todo[i].nr = Len(given) + i
<1> DEFINE order == SetToSeq(symbols)
           n == Len(order)
           J(i) == IF i <= n
                   THEN [id |-> seq + i - 1, nr |-> Len(given) + i, sym |-> order[i], tf |-> "D1",
                         from |-> 0, to |-> clock, upsert |-> FALSE, manual |-> FALSE]
                   ELSE [id |-> seq + i - 1, nr |-> Len(given) + i, sym |-> order[i - n], tf |-> "M1",
                         from |-> From(order[i - n], latest[order[i - n]]), to |-> clock, upsert |-> FALSE,
                         manual |-> FALSE]
           todo == Jobs(symbols, latest)
<1>1. IsFiniteSet(symbols) /\ clock \in Nat /\ seq \in Nat /\ Len(given) \in Nat
  BY ConstantsAssumption, FS_Subset DEF Types
<1>2. /\ order \in Seq(symbols) /\ n \in Nat /\ DOMAIN order = 1..n /\ ToSet(order) = symbols
  BY <1>1, Listed
<1>3. todo = [i \in 1..(2 * n) |-> J(i)]
  BY DEF Jobs
<1>4. \A i \in 1..n : order[i] \in symbols
  BY <1>2
<1>5. \A y \in symbols : From(y, latest[y]) \in Nat /\ From(y, latest[y]) <= clock
  <2> TAKE y \in symbols
  <2>1. latest[y] \in SUBSET Nat /\ \A b \in latest[y] : b < clock
    OBVIOUS
  <2> QED
    BY <2>1, FromOf
<1> HIDE DEF todo, order, n
<1>6. ASSUME NEW i \in 1..(2 * n)
      PROVE  /\ J(i) \in Job /\ J(i).nr = Len(given) + i /\ ~J(i).manual /\ J(i).from <= J(i).to /\ J(i).to = clock
             /\ ~J(i).upsert /\ J(i).sym \in symbols
             /\ (J(i).tf = "M1" => J(i).from = From(J(i).sym, latest[J(i).sym]))
  <2>1. CASE i <= n
    <3>1. i \in 1..n /\ order[i] \in symbols /\ seq + i - 1 \in Nat /\ Len(given) + i \in Nat
      BY <1>1, <1>2, <1>4, <2>1
    <3> QED
      BY <1>1, <2>1, <3>1 DEF Job
  <2>2. CASE ~(i <= n)
    <3>1. i - n \in 1..n /\ seq + i - 1 \in Nat /\ Len(given) + i \in Nat
      BY <1>1, <1>2, <2>2
    <3>2. order[i - n] \in symbols
      BY <1>4, <3>1
    <3>3. From(order[i - n], latest[order[i - n]]) \in Nat /\ From(order[i - n], latest[order[i - n]]) <= clock
      BY <1>5, <3>2
    <3> QED
      BY <1>1, <2>2, <3>1, <3>2, <3>3 DEF Job
  <2> QED
    BY <2>1, <2>2
<1>7. DOMAIN todo = 1..(2 * n) /\ \A i \in 1..(2 * n) : todo[i] = J(i)
  BY <1>3
<1>8. todo \in Seq(Job) /\ Len(todo) = 2 * n /\ 2 * n \in Nat
  <2>1. todo \in [1..(2 * n) -> Job] /\ 2 * n \in Nat
    BY <1>2, <1>3, <1>6
  <2> HIDE DEF J
  <2> QED
    BY <2>1
<1>9. \A y \in symbols : \E j \in ToSet(todo) : j.tf = "M1" /\ j.sym = y
  <2> TAKE y \in symbols
  <2>1. PICK i \in 1..n : order[i] = y
    BY <1>2 DEF ToSet
  <2>2. i + n \in 1..(2 * n) /\ ~(i + n <= n) /\ i + n - n = i
    BY <1>2
  <2>3. J(i + n).tf = "M1" /\ J(i + n).sym = y
    <3>1. order[(i + n) - n] = y
      BY <1>2, <2>1, <2>2
    <3> QED
      BY <2>2, <3>1
  <2>4. todo[i + n] \in ToSet(todo)
    BY <1>7, <2>2 DEF ToSet
  <2> QED
    BY <1>7, <2>2, <2>3, <2>4
<1> HIDE DEF J
<1>10. \A i \in DOMAIN todo : todo[i].nr = Len(given) + i
  BY <1>6, <1>7
<1>11. IsInjective(todo)
  <2>1. SUFFICES ASSUME NEW i \in DOMAIN todo, NEW k \in DOMAIN todo, todo[i] = todo[k] PROVE i = k
    BY DEF IsInjective
  <2>2. Len(given) + i = Len(given) + k
    BY <1>10, <2>1
  <2> QED
    BY <1>1, <1>2, <1>7, <2>2
<1>12. ASSUME NEW j \in ToSet(todo)
       PROVE  /\ ~j.manual /\ j.from <= j.to /\ j.to = clock /\ ~j.upsert
              /\ j.sym \in symbols /\ (j.tf = "M1" => j.from = From(j.sym, latest[j.sym]))
  <2>1. PICK i \in 1..(2 * n) : j = J(i)
    BY <1>7 DEF ToSet
  <2> QED
    BY <1>1, <1>2, <1>6, <1>8, <2>1
<1> QED
  BY <1>8, <1>9, <1>10, <1>11, <1>12 DEF todo

----------------------------------------------------------------------------
\* No session hangs.

\* But in a session that took the answer to another request for one of its jobs.
Seen(s) == Tidy(s) /\ (s \in confused \/ (Placed(s) /\ Awaited(s) /\ Driven(s)))
LoadInv == Types /\ Numbered /\ Dated /\ \A s \in Sessions : Seen(s)

NoNewJobs == \A r \in Sessions : AllJobs(r)' \subseteq AllJobs(r)

\* A step that leaves what concerns a session alone.
LEMMA Elsewhere ==
  ASSUME NEW r \in Sessions, Seen(r),
         UNCHANGED <<stage[r], alive[r], tries[r], queue[r], inflight[r], sender[r], held[r],
                     toServer[r], requests[r]>>,
         r \in subscribed => r \in subscribed', r \in gaveUp => r \in gaveUp',
         r \in confused => r \in confused'
  PROVE  Seen(r)'
<1>1. Tidy(r)'
  BY DEF Seen, Tidy, Hand, Pending
<1>2. Placed(r) => Placed(r)'
  BY DEF Placed, Hand, Pending
<1>3. Awaited(r) => Awaited(r)'
  BY DEF Awaited, Token, Pending
<1>4. Driven(r) => Driven(r)'
  BY DEF Driven, Pending
<1> QED
  BY <1>1, <1>2, <1>3, <1>4 DEF Seen

LEMMA SameJobs ==
  ASSUME NEW r \in Sessions, UNCHANGED <<tries[r], held[r], requests[r], toServer[r]>>
  PROVE  AllJobs(r)' = AllJobs(r)
BY DEF AllJobs, Pending, Hand

LEMMA JobsTyped ==
  ASSUME Types, NEW s \in Sessions
  PROVE  AllJobs(s) \subseteq Job /\ IsFiniteSet(listens[s])
<1>1. JobsIn(toServer[s]) \subseteq Job
  <2>1. ASSUME NEW i \in DOMAIN toServer[s], toServer[s][i].type # "live" PROVE toServer[s][i].job \in Job
    <3>1. toServer[s][i] \in Frame
      BY DEF Types
    <3> QED
      BY <2>1, <3>1, FrameFields
  <2> QED
    BY <2>1 DEF JobsIn
<1>2. ToSet(requests[s]) \subseteq Job
  BY DEF Types, ToSet
<1>3. Pending(s) \subseteq Job
  BY DEF Types
<1>5. Hand(s) \subseteq Job
  BY DEF Types, Hand
<1>4. IsFiniteSet(listens[s])
  BY ConstantsAssumption, FS_Subset DEF Types
<1> QED
  BY <1>1, <1>2, <1>3, <1>4, <1>5 DEF AllJobs

LEMMA StillNumbered ==
  ASSUME Types, Numbered, Types', MoreGiven, clock <= clock',
         \A r \in Sessions : AllJobs(r)' \subseteq AllJobs(r)
  PROVE  Numbered'
<1>1. SUFFICES ASSUME NEW r \in Sessions, NEW j \in AllJobs(r)'
               PROVE  /\ j.nr \in DOMAIN given' /\ given'[j.nr] = j.id /\ j.from <= j.to
                      /\ ~j.manual => j.to <= clock' /\ ~j.upsert
  BY DEF Numbered
<1>2. j \in AllJobs(r) /\ j \in Job
  BY JobsTyped
<1>3. /\ j.nr \in DOMAIN given /\ given[j.nr] = j.id /\ j.from <= j.to
      /\ ~j.manual => j.to <= clock /\ ~j.upsert
  BY <1>2 DEF Numbered
<1>4. clock \in Nat /\ clock' \in Nat /\ j.to \in Nat
  BY <1>2, JobFields DEF Types
<1>5. j.nr \in DOMAIN given' /\ given'[j.nr] = j.id
  BY <1>3 DEF MoreGiven
<1> QED
  BY <1>3, <1>4, <1>5

\* The bars on their way have closed.
LEMMA StillClosed ==
  ASSUME Types, Dated, clock' \in Nat, clock <= clock',
         \A r \in Sessions : ToSet(toServer'[r]) \subseteq ToSet(toServer[r])
  PROVE  Dated'
<1>1. SUFFICES ASSUME NEW r \in Sessions, NEW m \in ToSet(toServer'[r]), m.type \in {"chunk", "live"}
               PROVE  m.bar < clock'
  BY DEF Dated
<1>2. m \in ToSet(toServer[r])
  OBVIOUS
<1>4. m \in Frame
  <2>1. toServer[r] \in Seq(Frame)
    BY DEF Types
  <2> QED
    BY <1>2, <2>1 DEF ToSet
<1>3. m.bar < clock /\ m.bar \in Nat /\ clock \in Nat
  BY <1>1, <1>2, <1>4, FrameFields DEF Dated, Types
<1> QED
  BY <1>3

LEMMA StillBounded ==
  ASSUME LoadInv, Types', UNCHANGED <<clock, given>>,
         \A r \in Sessions : AllJobs(r)' \subseteq AllJobs(r),
         \A r \in Sessions : ToSet(toServer'[r]) \subseteq ToSet(toServer[r])
  PROVE  Numbered' /\ Dated'
<1>1. Types /\ Numbered /\ Dated /\ MoreGiven /\ clock <= clock' /\ clock' \in Nat
  BY DEF LoadInv, Types, MoreGiven
<1> QED
  BY <1>1, StillNumbered, StillClosed

\* A candle that is written has closed.
LEMMA CandleTypes ==
  ASSUME Types, NEW y \in Symbols, NEW b \in Nat, b < clock, NEW up, WriteCandle(y, b, up)
  PROVE  /\ stored' \in [Symbols -> SUBSET Nat] /\ \A x \in Symbols : \A c \in stored'[x] : c < clock
         /\ wrong' \in [Symbols -> SUBSET Nat] /\ \A x \in Symbols : wrong'[x] \subseteq stored'[x]
         /\ stored'[y] = stored[y] \cup {b} /\ \A x \in Symbols \ {y} : stored'[x] = stored[x]
         /\ \A x \in Symbols : wrong'[x] \subseteq wrong[x]
<1>1. /\ stored \in [Symbols -> SUBSET Nat] /\ \A x \in Symbols : \A c \in stored[x] : c < clock
      /\ wrong \in [Symbols -> SUBSET Nat] /\ \A x \in Symbols : wrong[x] \subseteq stored[x]
  BY DEF Types
<1>2. stored' = [stored EXCEPT ![y] = stored[y] \cup {b}]
  BY <1>1 DEF WriteCandle
<1>3. wrong' = wrong \/ wrong' = [wrong EXCEPT ![y] = wrong[y] \ {b}]
  BY <1>1 DEF WriteCandle
<1>4. stored'[y] = stored[y] \cup {b} /\ \A x \in Symbols \ {y} : stored'[x] = stored[x]
  BY <1>1, <1>2
<1>5. stored' \in [Symbols -> SUBSET Nat] /\ \A x \in Symbols : \A c \in stored'[x] : c < clock
  BY <1>1, <1>2, <1>4
<1>6. wrong' \in [Symbols -> SUBSET Nat] /\ \A x \in Symbols : wrong'[x] \subseteq wrong[x]
  BY <1>1, <1>3
<1>7. \A x \in Symbols : wrong'[x] \subseteq stored'[x]
  BY <1>1, <1>4, <1>6
<1> QED
  BY <1>4, <1>5, <1>6, <1>7

LEMMA ReadsOne ==
  ASSUME Types, NEW s \in Sessions, Reads(s)
  PROVE  /\ toServer[s] \in Seq(Frame) /\ toServer[s] # <<>> /\ stage[s] = "loop"
         /\ Head(toServer[s]) \in Frame
         /\ toServer'[s] = Tail(toServer[s]) /\ toServer' \in [Sessions -> Seq(Frame)]
         /\ \A r \in Sessions \ {s} : toServer'[r] = toServer[r]
         /\ \A r \in Sessions : ToSet(toServer'[r]) \subseteq ToSet(toServer[r])
         /\ Head(toServer[s]) \in ToSet(toServer[s])
<1>1. toServer[s] \in Seq(Frame) /\ toServer[s] # <<>> /\ stage[s] = "loop"
  BY DEF Types, Reads
<1>2. Tail(toServer[s]) \in Seq(Frame) /\ Head(toServer[s]) \in Frame /\ Head(toServer[s]) \in ToSet(toServer[s])
  BY <1>1, TailSet
<1>3. /\ toServer'[s] = Tail(toServer[s]) /\ toServer' \in [Sessions -> Seq(Frame)]
      /\ \A r \in Sessions \ {s} : toServer'[r] = toServer[r]
  BY <1>1, <1>2 DEF Types, Reads
<1>4. \A r \in Sessions : ToSet(toServer'[r]) \subseteq ToSet(toServer[r])
  <2>1. ToSet(Tail(toServer[s])) \subseteq ToSet(toServer[s])
    BY <1>1, TailSet
  <2> QED
    BY <1>3, <2>1
<1> QED
  BY <1>1, <1>2, <1>3, <1>4

\* Reading a frame adds no job; one that is not the last of its job changes nothing that is awaited.
LEMMA ReadsJobs ==
  ASSUME Types, NEW s \in Sessions, Reads(s), UNCHANGED <<held, requests>>, Pending(s)' \subseteq Pending(s),
         \A r \in Sessions \ {s} : UNCHANGED tries[r]
  PROVE  \A r \in Sessions : AllJobs(r)' \subseteq AllJobs(r)
<1> TAKE r \in Sessions
<1>1. CASE r = s
  <2>1. JobsIn(Tail(toServer[s])) \subseteq JobsIn(toServer[s])
    BY ReadsOne, TailFinals
  <2>2. toServer'[s] = Tail(toServer[s])
    BY ReadsOne
  <2> QED
    BY <1>1, <2>1, <2>2 DEF AllJobs, Hand
<1>2. CASE r # s
  BY <1>2, ReadsOne, SameJobs
<1> QED
  BY <1>1, <1>2

LEMMA QuietRead ==
  ASSUME LoadInv, NEW s \in Sessions, Reads(s), ~Final(Head(toServer[s])),
         UNCHANGED <<stage, alive, subscribed, gaveUp, confused, tries, queue, inflight, sender, held, requests>>
  PROVE  \A r \in Sessions : Seen(r)'
<1> TAKE r \in Sessions
<1> USE DEF LoadInv
<1>1. CASE r # s
  <2>1. toServer'[r] = toServer[r]
    BY <1>1, ReadsOne
  <2> QED
    BY <2>1, Elsewhere
<1>2. CASE r = s
  <2>5. toServer[s] \in Seq(Frame) /\ toServer[s] # <<>> /\ toServer'[s] = Tail(toServer[s])
    BY ReadsOne
  <2>6. Finals(toServer[s]) = Finals(Tail(toServer[s])) \cup (IF Final(Head(toServer[s])) THEN {Head(toServer[s]).job} ELSE {})
    BY <2>5, TailFinals
  <2>1. Finals(toServer'[s]) = Finals(toServer[s])
    BY <2>5, <2>6
  <2>2. OneFinal(toServer[s]) => OneFinal(toServer'[s])
    BY <2>5, TailFinals
  <2>3. Tidy(s)' /\ (Placed(s) => Placed(s)') /\ (Driven(s) => Driven(s)')
    BY DEF Seen, Tidy, Placed, Hand, Pending, Driven
  <2>4. Awaited(s) => Awaited(s)'
    BY <2>1, <2>2 DEF Awaited, Token, Pending
  <2> QED
    BY <1>2, <2>3, <2>4 DEF Seen
<1> QED
  BY <1>1, <1>2

\* What the end of a job does to a session.
Overs(s, j) ==
  LET ended == Named(s, j.id)
  IN /\ Pending(s)' = Pending(s) \ ended /\ inflight'[s] = inflight[s] \ ended
     /\ \A r \in Sessions \ {s} : UNCHANGED <<tries[r], inflight[r], sender[r], listens[r]>>
     /\ (ended # {} /\ Pending(s)' = {} => s \in subscribed' /\ UNCHANGED sender)
     /\ (ended # {} /\ Pending(s)' # {} => sender'[s] # "none" /\ UNCHANGED listens)
     /\ (ended = {} => UNCHANGED <<sender, listens>>)
     /\ (sender'[s] = "writing" <=> sender[s] = "writing")
     /\ subscribed \subseteq subscribed' /\ confused \subseteq confused'
     /\ (ended \subseteq {j} \/ s \in confused')
     /\ listens'[s] = listens[s] \/ listens'[s] = listens[s] \cup asked[s]
     /\ DOMAIN tries' = Sessions /\ inflight' \in [Sessions -> SUBSET Job] /\ DOMAIN sender' = Sessions
     /\ listens' \in [Sessions -> SUBSET Symbols] /\ excused' \in [Symbols -> SUBSET Nat]
     /\ \A y \in Symbols : excused[y] \subseteq excused'[y]
     /\ \A k \in ended \ {j} : Bars(k) \subseteq excused'[k.sym]
     /\ UNCHANGED listens \/ \A y \in asked[s] : connectedAt[s]..clock \subseteq excused'[y]

LEMMA OverMakes ==
  ASSUME Types, NEW s \in Sessions, NEW j \in Job, Over(s, j)
  PROVE  Overs(s, j)
<1> DEFINE ended == Named(s, j.id)
           rest == Pending(s) \ ended
           subscribes == ended # {} /\ rest = {} /\ s \notin subscribed
           B(y) == (UNION {Bars(k) : k \in {i \in ended \ {j} : i.sym = y}})
           W(y) == IF subscribes /\ y \in asked[s] THEN connectedAt[s]..clock ELSE {}
<1>1. /\ tries' = [tries EXCEPT ![s] = [k \in rest |-> tries[s][k]]]
      /\ inflight' = [inflight EXCEPT ![s] = inflight[s] \ ended]
      /\ (subscribes => Subscribe(s)) /\ (~subscribes => UNCHANGED <<subscribed, listens>>)
      /\ (ended # {} /\ rest # {} => Kick(s)) /\ (~(ended # {} /\ rest # {}) => UNCHANGED sender)
      /\ confused' = IF ended \subseteq {j} THEN confused ELSE confused \cup {s}
  BY DEF Over, Types
<1>14. excused' = [y \in Symbols |-> excused[y] \cup B(y) \cup W(y)]
  BY DEF Over
<1>2. /\ DOMAIN tries = Sessions /\ DOMAIN sender = Sessions /\ inflight \in [Sessions -> SUBSET Job]
      /\ listens \in [Sessions -> SUBSET Symbols] /\ excused \in [Symbols -> SUBSET Nat]
      /\ connectedAt[s] \in Nat /\ clock \in Nat /\ asked[s] \subseteq Symbols
  BY DEF Types
<1>3. ended \subseteq Job /\ \A k \in ended : Bars(k) \subseteq Nat /\ k.sym \in Symbols
  <2>1. ended \subseteq Job
    BY DEF Types, Named
  <2> QED
    BY <2>1, JobFields
<1> HIDE DEF ended
<1>4. Pending(s)' = rest /\ DOMAIN tries' = Sessions /\ \A r \in Sessions \ {s} : UNCHANGED tries[r]
  BY <1>1, <1>2 DEF Pending
<1>5. /\ inflight'[s] = inflight[s] \ ended /\ inflight' \in [Sessions -> SUBSET Job]
      /\ \A r \in Sessions \ {s} : UNCHANGED inflight[r]
  BY <1>1, <1>2
<1>6. /\ subscribed \subseteq subscribed' /\ (subscribes => s \in subscribed')
      /\ (UNCHANGED listens \/ (subscribes /\ listens' = [listens EXCEPT ![s] = listens[s] \cup asked[s]]))
  BY <1>1, <1>2 DEF Subscribe
<1>7. /\ listens'[s] = listens[s] \/ listens'[s] = listens[s] \cup asked[s]
      /\ \A r \in Sessions \ {s} : UNCHANGED listens[r]
      /\ listens' \in [Sessions -> SUBSET Symbols]
  BY <1>2, <1>6
<1>8. /\ (sender'[s] = "writing" <=> sender[s] = "writing") /\ DOMAIN sender' = Sessions
      /\ \A r \in Sessions \ {s} : UNCHANGED sender[r]
      /\ (ended # {} /\ rest # {} => sender'[s] # "none")
  BY <1>1, <1>2 DEF Kick
<1>9. /\ excused' \in [Symbols -> SUBSET Nat] /\ \A y \in Symbols : excused[y] \subseteq excused'[y]
      /\ \A k \in ended \ {j} : Bars(k) \subseteq excused'[k.sym]
      /\ subscribes => \A y \in asked[s] : connectedAt[s]..clock \subseteq excused'[y]
  <2>1. \A y \in Symbols : B(y) \subseteq Nat /\ \A k \in ended \ {j} : k.sym = y => Bars(k) \subseteq B(y)
    BY <1>3
  <2>2. connectedAt[s]..clock \subseteq Nat
    BY <1>2
  <2>3. \A y \in Symbols : W(y) \subseteq Nat /\ (subscribes /\ y \in asked[s] => W(y) = connectedAt[s]..clock)
    BY <2>2
  <2> HIDE DEF B, W, subscribes
  <2>4. DOMAIN excused' = Symbols /\ \A y \in Symbols : excused'[y] = excused[y] \cup B(y) \cup W(y)
    BY <1>14
  <2>5. excused' = [y \in Symbols |-> excused[y] \cup B(y) \cup W(y)]
    BY <1>14
  <2>6. excused' \in [Symbols -> SUBSET Nat]
    <3>1. \A y \in Symbols : excused[y] \cup B(y) \cup W(y) \in SUBSET Nat
      BY <1>2, <2>1, <2>3
    <3> QED
      BY <2>5, <3>1
  <2>7. \A k \in ended \ {j} : Bars(k) \subseteq excused'[k.sym]
    <3> TAKE k \in ended \ {j}
    <3>1. k.sym \in Symbols
      BY <1>3
    <3>2. Bars(k) \subseteq B(k.sym)
      BY <2>1, <3>1
    <3> QED
      BY <2>4, <3>1, <3>2
  <2>8. subscribes => \A y \in asked[s] : connectedAt[s]..clock \subseteq excused'[y]
    BY <1>2, <2>3, <2>4
  <2> QED
    BY <2>4, <2>6, <2>7, <2>8
<1>10. confused \subseteq confused' /\ (ended \subseteq {j} \/ s \in confused')
  BY <1>1
<1>11. /\ (ended # {} /\ rest = {} => s \in subscribed' /\ UNCHANGED sender)
       /\ (ended # {} /\ rest # {} => UNCHANGED listens) /\ (ended = {} => UNCHANGED <<sender, listens>>)
  BY <1>1, <1>6
<1>12. UNCHANGED listens \/ \A y \in asked[s] : connectedAt[s]..clock \subseteq excused'[y]
  BY <1>6, <1>9
<1> HIDE DEF rest, subscribes
<1>13. rest = Pending(s) \ ended
  BY DEF rest
<1> QED
  BY <1>4, <1>5, <1>6, <1>7, <1>8, <1>9, <1>10, <1>11, <1>12, <1>13 DEF Overs, ended

\* The last frame of a job that failed or ended: the job leaves the session.
LEMMA OverSeen ==
  ASSUME LoadInv, NEW s \in Sessions, Reads(s), Head(toServer[s]).type \in {"end", "failed"},
         Over(s, Head(toServer[s]).job),
         UNCHANGED <<stage, alive, sessions, asked, queue, held, requests, connectedAt, gaveUp>>
  PROVE  /\ \A r \in Sessions : Seen(r)'
         /\ \A r \in Sessions : AllJobs(r)' \subseteq AllJobs(r)
         /\ DOMAIN tries' = Sessions /\ inflight' \in [Sessions -> SUBSET Job] /\ DOMAIN sender' = Sessions
         /\ listens' \in [Sessions -> SUBSET Symbols] /\ excused' \in [Symbols -> SUBSET Nat]
         /\ \A r \in Sessions : Pending(r)' \subseteq Pending(r)
<1> DEFINE j == Head(toServer[s]).job
           ended == Named(s, j.id)
<1>1. /\ j \in Job /\ Types /\ Final(Head(toServer[s]))
      /\ toServer[s] \in Seq(Frame) /\ toServer[s] # <<>> /\ toServer'[s] = Tail(toServer[s])
  <2>1. Types
    BY DEF LoadInv
  <2>2. Final(Head(toServer[s])) /\ Head(toServer[s]) \in Frame
    BY <2>1, ReadsOne DEF Final
  <2>3. toServer[s] \in Seq(Frame) /\ toServer[s] # <<>> /\ toServer'[s] = Tail(toServer[s])
    BY <2>1, ReadsOne
  <2>4. j \in Job
    BY <2>2, FrameFields
  <2> QED
    BY <2>1, <2>2, <2>3, <2>4
<1>2. Over(s, j)
  BY DEF j
<1>3. OneFinal(toServer[s]) =>
        /\ j \in Finals(toServer[s]) /\ Finals(toServer[s]) = Finals(toServer'[s]) \cup {j}
        /\ j \notin Finals(toServer'[s]) /\ OneFinal(toServer'[s])
  BY <1>1, TailFinals
<1> HIDE DEF j
<1>4. Overs(s, j)
  BY <1>1, <1>2, OverMakes
<1>5. /\ Pending(s)' = Pending(s) \ ended /\ inflight'[s] = inflight[s] \ ended
      /\ \A r \in Sessions \ {s} : UNCHANGED <<tries[r], inflight[r], sender[r]>>
      /\ (ended # {} /\ Pending(s)' = {} => s \in subscribed' /\ UNCHANGED sender)
      /\ (ended # {} /\ Pending(s)' # {} => sender'[s] # "none")
      /\ (ended = {} => UNCHANGED sender)
      /\ (sender'[s] = "writing" <=> sender[s] = "writing")
      /\ subscribed \subseteq subscribed' /\ confused \subseteq confused'
      /\ (ended \subseteq {j} \/ s \in confused')
  BY <1>4 DEF Overs
<1>6. ended \subseteq Pending(s) /\ (j \in Pending(s) => j \in ended)
  BY DEF Named
<1> HIDE DEF ended
<1>7. Tidy(s)'
  <2>1. Tidy(s) /\ stage[s] = "loop"
    BY DEF LoadInv, Seen, Reads
  <2> QED
    BY <1>5, <2>1 DEF Tidy, Hand
<1>8. ASSUME s \notin confused' PROVE Placed(s)' /\ Awaited(s)' /\ Driven(s)'
  <2>1. Placed(s) /\ Awaited(s) /\ Driven(s) /\ Tidy(s) /\ ended \subseteq {j}
    BY <1>5, <1>8 DEF LoadInv, Seen
  <2>2. /\ j \in Finals(toServer[s]) /\ Finals(toServer[s]) = Finals(toServer'[s]) \cup {j}
        /\ j \notin Finals(toServer'[s]) /\ OneFinal(toServer'[s])
    BY <1>3, <2>1 DEF Awaited
  <2>3. j \in Token(s) /\ j \notin ToSet(requests[s]) /\ (j \in Pending(s) => j \in inflight[s])
    BY <2>1, <2>2 DEF Awaited, Token
  <2>4. Token(s)' = Token(s) \ {j}
    BY <2>2, <2>3 DEF Token
  <2>5. Hand(s)' = Hand(s)
    BY DEF Hand
  <2>6. /\ Pending(s) = ToSet(queue[s]) \cup inflight[s] \cup Hand(s)
        /\ ended \cap ToSet(queue[s]) = {} /\ ended \cap Hand(s) = {}
        /\ Pending(s)' = Pending(s) \ {j} /\ inflight'[s] = inflight[s] \ {j}
    BY <1>5, <1>6, <2>1, <2>3 DEF Placed
  <2>7. Placed(s)'
    <3>1. Pending(s)' = ToSet(queue[s]) \cup inflight'[s] \cup Hand(s)
      BY <1>5, <2>6
    <3> QED
      BY <1>5, <2>1, <2>5, <3>1 DEF Placed
  <2>8. Awaited(s)'
    <3>1. IsInjective(requests[s])' /\ (ToSet(requests[s]) \cap Finals(toServer[s]) = {})'
      BY <2>1, <2>2 DEF Awaited
    <3>2. /\ (Token(s) \cap Pending(s) \subseteq inflight[s])'
          /\ (alive[s] => inflight[s] \subseteq Token(s) \/ s \in gaveUp)'
      BY <2>1, <2>4, <2>6 DEF Awaited
    <3> QED
      BY <2>2, <3>1, <3>2 DEF Awaited
  <2>9. Driven(s)'
    <3>1. CASE ended = {}
      <4>1. Pending(s)' = Pending(s) /\ inflight'[s] = inflight[s] /\ UNCHANGED sender
        BY <1>5, <3>1
      <4> QED
        BY <1>5, <2>1, <4>1 DEF Driven
    <3>2. CASE ended # {}
      BY <1>5, <3>2 DEF Driven
    <3> QED
      BY <3>1, <3>2
  <2> QED
    BY <2>7, <2>8, <2>9
<1>9. ASSUME NEW r \in Sessions \ {s} PROVE Seen(r)'
  <2>1. Seen(r)
    BY DEF LoadInv
  <2>2. UNCHANGED <<stage[r], alive[r], tries[r], queue[r], inflight[r], sender[r], held[r], toServer[r], requests[r]>>
    BY <1>1, <1>5, ReadsOne
  <2> QED
    BY <1>5, <2>1, <2>2, Elsewhere
<1>10. \A r \in Sessions : AllJobs(r)' \subseteq AllJobs(r)
  BY <1>1, <1>5, ReadsJobs
<1>11. \A r \in Sessions : Pending(r)' \subseteq Pending(r)
  BY <1>5 DEF Pending
<1>12. Seen(s)'
  BY <1>7, <1>8 DEF Seen
<1> QED
  BY <1>4, <1>9, <1>10, <1>11, <1>12 DEF Overs

\* Nothing but the variables of the bridges, the clock and what the database has is changed.
LEMMA SameSeen ==
  ASSUME NEW r \in Sessions, Seen(r),
         UNCHANGED <<stage, alive, subscribed, gaveUp, confused, jobs, toServer, requests>>
  PROVE  Seen(r)' /\ AllJobs(r)' = AllJobs(r)
<1>1. UNCHANGED <<tries, queue, inflight, sender, held>>
  BY DEF jobs
<1>2. Seen(r)'
  BY <1>1, Elsewhere
<1> QED
  BY <1>1, <1>2, SameJobs

LEMMA ConnectSeen ==
  ASSUME LoadInv, NEW s \in Sessions, Connect(s)
  PROVE  LoadInv' /\ NoNewJobs
<1>1. /\ UNCHANGED <<case, clock, known, stored, wrong, asked, subscribed, tries, queue, inflight, sender, held>>
      /\ UNCHANGED <<seq, forced, toServer, requests, listens, connectedAt, gaveUp, confused, given, excused>>
  BY DEF Connect, database, jobs, numbers, bridge, history
<1>2. /\ stage[s] = "new" /\ stage' = [stage EXCEPT ![s] = "greeting"] /\ alive' = [alive EXCEPT ![s] = TRUE]
      /\ sessions' = sessions \cup {s}
  BY DEF Connect
<1>3. Types'
  BY <1>1, <1>2 DEF LoadInv, Types, Pending
<1>4. \A r \in Sessions : AllJobs(r)' = AllJobs(r)
  BY <1>1, SameJobs
<1>5. Numbered'
  BY <1>1, <1>3, <1>4, StillNumbered DEF LoadInv, Types, MoreGiven
<1>6. ASSUME NEW r \in Sessions \ {s} PROVE Seen(r)'
  BY <1>1, <1>2, Elsewhere DEF LoadInv, Types
<1>7. Seen(s)'
  <2>1. Tidy(s) /\ Pending(s) = {} /\ sender[s] = "none"
    BY <1>2 DEF LoadInv, Seen, Tidy
  <2>2. stage'[s] = "greeting"
    BY <1>2 DEF LoadInv, Types
  <2>3. Tidy(s)'
    BY <1>1, <2>1, <2>2 DEF Tidy, Hand, Pending
  <2>4. ASSUME s \notin confused PROVE Placed(s)' /\ Awaited(s)' /\ Driven(s)'
    <3>1. Placed(s) /\ Awaited(s) /\ inflight[s] = {}
      BY <2>1, <2>4 DEF LoadInv, Seen, Placed
    <3>2. Placed(s)'
      BY <1>1, <3>1 DEF Placed, Hand, Pending
    <3>3. Awaited(s)'
      BY <1>1, <3>1 DEF Awaited, Token, Pending
    <3>4. Driven(s)'
      BY <1>1, <2>1, <2>2 DEF Driven, Pending
    <3> QED
      BY <3>2, <3>3, <3>4
  <2> QED
    BY <1>1, <2>3, <2>4 DEF Seen
<1>10. Dated'
  BY <1>1, StillClosed DEF LoadInv, Types
<1> QED
  BY <1>3, <1>4, <1>5, <1>6, <1>7, <1>10 DEF LoadInv, NoNewJobs

LEMMA HelloSeen ==
  ASSUME LoadInv, NEW s \in Sessions, Hello(s)
  PROVE  LoadInv' /\ NoNewJobs
<1>1. /\ UNCHANGED <<case, clock, known, stored, wrong, alive, sessions, asked, subscribed, tries, queue, inflight>>
      /\ UNCHANGED <<sender, held, seq, forced, toServer, requests, listens, connectedAt, gaveUp, confused, given, excused>>
  BY DEF Hello, database, jobs, numbers, bridge, history
<1>2. stage[s] = "greeting" /\ \E w \in {"setup", "leaked"} : stage' = [stage EXCEPT ![s] = w]
  BY DEF Hello
<1>3. Types'
  BY <1>1, <1>2 DEF LoadInv, Types, Pending
<1>4. \A r \in Sessions : AllJobs(r)' = AllJobs(r)
  BY <1>1, SameJobs
<1>5. Numbered'
  BY <1>1, <1>3, <1>4, StillNumbered DEF LoadInv, Types, MoreGiven
<1>6. ASSUME NEW r \in Sessions \ {s} PROVE Seen(r)'
  BY <1>1, <1>2, Elsewhere DEF LoadInv, Types
<1>7. Seen(s)'
  <2>1. Tidy(s) /\ Pending(s) = {} /\ sender[s] = "none"
    BY <1>2 DEF LoadInv, Seen, Tidy
  <2>2. stage'[s] # "loop"
    BY <1>2 DEF LoadInv, Types
  <2>3. Tidy(s)'
    BY <1>1, <2>1, <2>2 DEF Tidy, Hand, Pending
  <2>4. ASSUME s \notin confused PROVE Placed(s)' /\ Awaited(s)' /\ Driven(s)'
    <3>1. Placed(s) /\ Awaited(s) /\ inflight[s] = {}
      BY <2>1, <2>4 DEF LoadInv, Seen, Placed
    <3>2. Placed(s)'
      BY <1>1, <3>1 DEF Placed, Hand, Pending
    <3>3. Awaited(s)'
      BY <1>1, <3>1 DEF Awaited, Token, Pending
    <3>4. Driven(s)'
      BY <1>1, <2>1, <2>2 DEF Driven, Pending
    <3> QED
      BY <3>2, <3>3, <3>4
  <2> QED
    BY <1>1, <2>3, <2>4 DEF Seen
<1>10. Dated'
  BY <1>1, StillClosed DEF LoadInv, Types
<1> QED
  BY <1>3, <1>4, <1>5, <1>6, <1>7, <1>10 DEF LoadInv, NoNewJobs

LEMMA CutSeen ==
  ASSUME LoadInv, NEW s \in Sessions, Cut(s)
  PROVE  LoadInv' /\ NoNewJobs
<1>1. /\ UNCHANGED <<case, clock, known, stored, wrong, stage, sessions, asked, subscribed, tries, queue, inflight>>
      /\ UNCHANGED <<sender, held, seq, forced, toServer, connectedAt, gaveUp, confused, given, excused>>
  BY DEF Cut, database, jobs, numbers, history
<1>2. /\ alive' = [alive EXCEPT ![s] = FALSE] /\ requests' = [requests EXCEPT ![s] = <<>>]
      /\ listens' = [listens EXCEPT ![s] = {}]
  BY DEF Cut
<1>3. Types'
  BY <1>1, <1>2 DEF LoadInv, Types, Pending
<1>8. alive'[s] = FALSE /\ requests'[s] = <<>> /\ ToSet(requests'[s]) = {}
  <2>1. requests'[s] = <<>>
    BY <1>2 DEF LoadInv, Types
  <2> QED
    BY <1>2, <2>1 DEF LoadInv, Types, ToSet
<1>9. ASSUME NEW r \in Sessions \ {s} PROVE alive'[r] = alive[r] /\ requests'[r] = requests[r]
  BY <1>2 DEF LoadInv, Types
<1>4. \A r \in Sessions : AllJobs(r)' \subseteq AllJobs(r)
  <2>1. AllJobs(s)' \subseteq AllJobs(s)
    BY <1>1, <1>8 DEF AllJobs, Pending, Hand
  <2>2. \A r \in Sessions \ {s} : AllJobs(r)' = AllJobs(r)
    BY <1>1, <1>9, SameJobs
  <2> QED
    BY <2>1, <2>2
<1>5. Numbered'
  BY <1>1, <1>3, <1>4, StillNumbered DEF LoadInv, Types, MoreGiven
<1>6. ASSUME NEW r \in Sessions \ {s} PROVE Seen(r)'
  BY <1>1, <1>9, Elsewhere DEF LoadInv
<1>7. Seen(s)'
  <2>1. Tidy(s)'
    BY <1>1 DEF LoadInv, Seen, Tidy, Hand, Pending
  <2>2. ASSUME s \notin confused PROVE Placed(s)' /\ Awaited(s)' /\ Driven(s)'
    <3>1. Placed(s) /\ Awaited(s) /\ Driven(s)
      BY <2>2 DEF LoadInv, Seen
    <3>2. Placed(s)'
      BY <1>1, <3>1 DEF Placed, Hand, Pending
    <3>3. IsInjective(requests'[s])
      BY <1>8 DEF IsInjective
    <3>4. Awaited(s)'
      BY <1>1, <1>8, <3>1, <3>3 DEF Awaited, Token, Pending
    <3>5. Driven(s)'
      BY <1>1, <1>8, <3>1 DEF Driven, Pending
    <3> QED
      BY <3>2, <3>4, <3>5
  <2> QED
    BY <1>1, <2>1, <2>2 DEF Seen
<1>10. Dated'
  BY <1>1, StillClosed DEF LoadInv, Types
<1> QED
  BY <1>3, <1>4, <1>5, <1>6, <1>7, <1>10 DEF LoadInv, NoNewJobs

\* A session that is over.
LEMMA EmptySeen ==
  ASSUME NEW r \in Sessions, Pending(r)' = {}, queue'[r] = <<>>, inflight'[r] = {}, held'[r] = NoJob,
         sender'[r] = "none", stage'[r] # "loop", toServer'[r] = <<>>,
         r \in confused' \/ IsInjective(requests'[r])
  PROVE  Seen(r)' /\ AllJobs(r)' = ToSet(requests'[r])
<1>1. ToSet(queue'[r]) = {} /\ IsInjective(queue'[r]) /\ Hand(r)' = {}
  BY DEF ToSet, IsInjective, Hand
<1>2. Finals(toServer'[r]) = {} /\ OneFinal(toServer'[r]) /\ JobsIn(toServer'[r]) = {}
  BY DEF Finals, OneFinal, JobsIn
<1>3. Tidy(r)' /\ Placed(r)' /\ Driven(r)' /\ (r \notin confused' => Awaited(r)')
  BY <1>1, <1>2 DEF Tidy, Placed, Awaited, Driven
<1> QED
  BY <1>1, <1>2, <1>3 DEF Seen, AllJobs

LEMMA EndSessionSeen ==
  ASSUME LoadInv, NEW s \in Sessions, EndSession(s)
  PROVE  LoadInv' /\ NoNewJobs
<1>1. /\ UNCHANGED <<case, clock, known, stored, wrong, alive, asked, seq, forced, requests, listens>>
      /\ UNCHANGED <<connectedAt, given, gaveUp, confused, excused>>
  BY DEF EndSession, database, numbers, history
<1>2. /\ stage' = [stage EXCEPT ![s] = "over"] /\ sessions' = sessions \ {s} /\ subscribed' = subscribed \ {s}
      /\ tries' = [tries EXCEPT ![s] = NoJobs] /\ queue' = [queue EXCEPT ![s] = <<>>]
      /\ inflight' = [inflight EXCEPT ![s] = {}] /\ sender' = [sender EXCEPT ![s] = "none"]
      /\ held' = [held EXCEPT ![s] = NoJob] /\ toServer' = [toServer EXCEPT ![s] = <<>>]
  BY DEF EndSession
<1>3. /\ stage'[s] = "over" /\ tries'[s] = NoJobs /\ queue'[s] = <<>> /\ inflight'[s] = {}
      /\ sender'[s] = "none" /\ held'[s] = NoJob /\ toServer'[s] = <<>>
  BY <1>2 DEF LoadInv, Types
<1>4. ASSUME NEW r \in Sessions \ {s}
      PROVE  UNCHANGED <<stage[r], tries[r], queue[r], inflight[r], sender[r], held[r], toServer[r]>>
             /\ (r \in subscribed => r \in subscribed')
  BY <1>2 DEF LoadInv, Types
<1>5. Pending(s)' = {}
  BY <1>3 DEF Pending, NoJobs
<1>6. Types'
  <2>1. \A r \in Sessions : Pending(r)' \subseteq Job
    BY <1>4, <1>5 DEF LoadInv, Types, Pending
  <2> QED
    BY <1>1, <1>2, <2>1 DEF LoadInv, Types
<1>7. Seen(s)' /\ AllJobs(s)' \subseteq AllJobs(s)
  <2>1. s \in confused' \/ IsInjective(requests'[s])
    BY <1>1 DEF LoadInv, Seen, Awaited
  <2>2. Seen(s)' /\ AllJobs(s)' = ToSet(requests'[s])
    BY <1>3, <1>5, <2>1, EmptySeen
  <2> QED
    BY <1>1, <2>2 DEF AllJobs
<1>8. ASSUME NEW r \in Sessions \ {s} PROVE Seen(r)' /\ AllJobs(r)' = AllJobs(r)
  BY <1>1, <1>4, Elsewhere, SameJobs DEF LoadInv
<1>9. Numbered'
  <2>1. \A r \in Sessions : AllJobs(r)' \subseteq AllJobs(r)
    BY <1>7, <1>8
  <2> QED
    BY <1>1, <1>6, <2>1, StillNumbered DEF LoadInv, Types, MoreGiven
<1>10. Dated'
  <2>1. ToSet(toServer'[s]) = {}
    BY <1>3 DEF ToSet
  <2>2. \A r \in Sessions : ToSet(toServer'[r]) \subseteq ToSet(toServer[r])
    BY <1>4, <2>1
  <2> QED
    BY <1>1, <2>2, StillClosed DEF LoadInv, Types
<1> QED
  BY <1>6, <1>7, <1>8, <1>9, <1>10 DEF LoadInv, NoNewJobs

LEMMA RestartSeen ==
  ASSUME LoadInv, Restart
  PROVE  LoadInv'
<1>1. UNCHANGED <<case, clock, known, stored, wrong, connectedAt, gaveUp, confused, excused>>
  BY DEF Restart
<1>2. /\ stage' = [s \in Sessions |-> IF stage[s] = "new" THEN "new" ELSE "over"]
      /\ alive' = [s \in Sessions |-> FALSE] /\ sessions' = {}
      /\ asked' = [s \in Sessions |-> {}]
      /\ tries' = [s \in Sessions |-> NoJobs] /\ queue' = [s \in Sessions |-> <<>>]
      /\ inflight' = [s \in Sessions |-> {}]
      /\ sender' = [s \in Sessions |-> "none"] /\ held' = [s \in Sessions |-> NoJob]
      /\ seq' = 1 /\ forced' = {}
      /\ toServer' = [s \in Sessions |-> <<>>] /\ requests' = [s \in Sessions |-> <<>>]
      /\ listens' = [s \in Sessions |-> {}] /\ given' = <<>>
  BY DEF Restart
<1>3. \A s \in Sessions : Pending(s)' = {}
  BY <1>2 DEF Pending, NoJobs
<1>4. Types'
  BY <1>1, <1>2, <1>3 DEF LoadInv, Types
<1>5. ASSUME NEW s \in Sessions PROVE Seen(s)' /\ AllJobs(s)' = {}
  <2>1. requests'[s] = <<>> /\ IsInjective(requests'[s]) /\ ToSet(requests'[s]) = {}
    BY <1>2 DEF IsInjective, ToSet
  <2> QED
    BY <1>2, <1>3, <2>1, EmptySeen
<1>6. Numbered'
  BY <1>5 DEF Numbered
<1>7. Dated'
  BY <1>2 DEF Dated, ToSet
<1> QED
  BY <1>4, <1>5, <1>6, <1>7 DEF LoadInv

LEMMA AddSymbolSeen ==
  ASSUME LoadInv, NEW y \in Symbols, AddSymbol(y)
  PROVE  LoadInv' /\ NoNewJobs
<1>1. /\ UNCHANGED <<case, clock, stored, wrong, stage, alive, sessions, asked, subscribed, jobs, seq, forced>>
      /\ UNCHANGED <<toServer, requests, listens, connectedAt, given, gaveUp, confused, excused>>
      /\ known' = known \cup {y}
  BY DEF AddSymbol, session, numbers, bridge, history
<1>2. Types'
  BY <1>1 DEF LoadInv, Types, jobs, Pending
<1>3. \A r \in Sessions : Seen(r)' /\ AllJobs(r)' = AllJobs(r)
  BY <1>1, SameSeen DEF LoadInv
<1>4. Numbered'
  BY <1>1, <1>2, <1>3, StillNumbered DEF LoadInv, Types, MoreGiven
<1>5. Dated'
  BY <1>1, StillClosed DEF LoadInv, Types
<1> QED
  BY <1>2, <1>3, <1>4, <1>5 DEF LoadInv, NoNewJobs

LEMMA HotAddSeen ==
  ASSUME LoadInv, NEW y \in Symbols, HotAdd(y)
  PROVE  LoadInv' /\ NoNewJobs
<1>1. /\ UNCHANGED <<case, clock, known, stored, wrong, stage, alive, sessions, asked, subscribed, jobs, seq, forced>>
      /\ UNCHANGED <<toServer, requests, connectedAt, given, gaveUp, confused>>
      /\ excused' = [excused EXCEPT ![y] = excused[y] \cup 0..clock]
      /\ listens' = [s \in Sessions |-> IF s \in sessions /\ alive[s] THEN listens[s] \cup {y} ELSE listens[s]]
  BY DEF HotAdd, session, numbers, LoadInv, Types
<1>2. Types'
  <2>1. 0..clock \subseteq Nat
    BY DEF LoadInv, Types
  <2> QED
    BY <1>1, <2>1 DEF LoadInv, Types, jobs, Pending
<1>3. \A r \in Sessions : Seen(r)' /\ AllJobs(r)' = AllJobs(r)
  BY <1>1, SameSeen DEF LoadInv
<1>4. Numbered'
  BY <1>1, <1>2, <1>3, StillNumbered DEF LoadInv, Types, MoreGiven
<1>5. Dated'
  BY <1>1, StillClosed DEF LoadInv, Types
<1> QED
  BY <1>2, <1>3, <1>4, <1>5 DEF LoadInv, NoNewJobs

----------------------------------------------------------------------------
\* The frames that are read.

LEMMA ServeLiveSeen ==
  ASSUME LoadInv, NEW s \in Sessions, ServeLive(s)
  PROVE  LoadInv' /\ NoNewJobs
<1> DEFINE m == Head(toServer[s])
<1>1. /\ UNCHANGED <<case, clock, known, stage, alive, sessions, asked, subscribed, tries, queue, inflight>>
      /\ UNCHANGED <<sender, held, seq, forced, requests, listens, connectedAt, given, gaveUp, confused>>
      /\ Reads(s) /\ m.type = "live"
      /\ \/ WriteCandle(m.sym, m.bar, TRUE) /\ UNCHANGED excused
         \/ excused' = [excused EXCEPT ![m.sym] = @ \cup {m.bar}] /\ UNCHANGED <<stored, wrong>>
  BY DEF ServeLive, session, jobs, numbers
<1>2. /\ Types /\ m \in Frame /\ m \in ToSet(toServer[s]) /\ toServer' \in [Sessions -> Seq(Frame)]
      /\ \A r \in Sessions : ToSet(toServer'[r]) \subseteq ToSet(toServer[r])
  BY <1>1, ReadsOne DEF LoadInv
<1>3. m.sym \in Symbols /\ m.bar \in Nat /\ m.bar < clock /\ ~Final(m)
  BY <1>1, <1>2, FrameFields DEF LoadInv, Dated, Final
<1>4. Types'
  <2> HIDE DEF m
  <2>1. /\ stored' \in [Symbols -> SUBSET Nat] /\ \A x \in Symbols : \A c \in stored'[x] : c < clock
        /\ wrong' \in [Symbols -> SUBSET Nat] /\ \A x \in Symbols : wrong'[x] \subseteq stored'[x]
    BY <1>1, <1>3, CandleTypes DEF LoadInv, Types
  <2>2. excused' \in [Symbols -> SUBSET Nat]
    <3>1. excused \in [Symbols -> SUBSET Nat] /\ {m.bar} \subseteq Nat
      BY <1>3 DEF LoadInv, Types
    <3>2. UNCHANGED excused \/ excused' = [excused EXCEPT ![m.sym] = @ \cup {m.bar}]
      BY <1>1
    <3>3. CASE UNCHANGED excused
      BY <3>1, <3>3
    <3>4. CASE excused' = [excused EXCEPT ![m.sym] = @ \cup {m.bar}]
      BY <1>3, <3>1, <3>4
    <3> QED
      BY <3>2, <3>3, <3>4
  <2> QED
    BY <1>1, <1>2, <2>1, <2>2 DEF LoadInv, Types, Pending
<1>5. \A r \in Sessions : Seen(r)'
  BY <1>1, <1>3, QuietRead
<1>6. \A r \in Sessions : AllJobs(r)' \subseteq AllJobs(r)
  BY <1>1, <1>2, ReadsJobs DEF Pending
<1>7. Numbered' /\ Dated'
  BY <1>1, <1>2, <1>4, <1>6, StillBounded
<1> QED
  BY <1>4, <1>5, <1>6, <1>7 DEF LoadInv, NoNewJobs

LEMMA ServeChunkSeen ==
  ASSUME LoadInv, NEW s \in Sessions, ServeChunk(s)
  PROVE  LoadInv' /\ NoNewJobs
<1> DEFINE m == Head(toServer[s])
           y == m.job.sym
<1>1. /\ UNCHANGED <<case, clock, known, stage, alive, sessions, asked, subscribed, tries, queue, inflight>>
      /\ UNCHANGED <<sender, held, seq, forced, requests, listens, connectedAt, given, gaveUp, confused>>
      /\ Reads(s) /\ m.type = "chunk"
      /\ \/ WriteCandle(y, m.bar, m.job.id \in forced)
         \/ UNCHANGED <<stored, wrong>>
      /\ \/ UNCHANGED excused
         \/ excused' = [excused EXCEPT ![y] = @ \cup Opened(y, m.bar)]
         \/ excused' = [excused EXCEPT ![y] = @ \cup {m.bar}]
  BY DEF ServeChunk, session, jobs, numbers
<1>2. /\ Types /\ m \in Frame /\ m \in ToSet(toServer[s]) /\ toServer' \in [Sessions -> Seq(Frame)]
      /\ \A r \in Sessions : ToSet(toServer'[r]) \subseteq ToSet(toServer[r])
  BY <1>1, ReadsOne DEF LoadInv
<1>3. y \in Symbols /\ m.bar \in Nat /\ m.bar < clock /\ ~Final(m)
  BY <1>1, <1>2, FrameFields, JobFields DEF LoadInv, Dated, Final
<1>4. Types'
  <2> HIDE DEF m, y
  <2>1. /\ stored' \in [Symbols -> SUBSET Nat] /\ \A x \in Symbols : \A c \in stored'[x] : c < clock
        /\ wrong' \in [Symbols -> SUBSET Nat] /\ \A x \in Symbols : wrong'[x] \subseteq stored'[x]
    BY <1>1, <1>3, CandleTypes DEF LoadInv, Types
  <2>2. excused' \in [Symbols -> SUBSET Nat]
    <3>1. excused \in [Symbols -> SUBSET Nat]
      BY DEF LoadInv, Types
    <3>2. Opened(y, m.bar) \subseteq Nat /\ {m.bar} \subseteq Nat
      BY <1>3 DEF Opened
    <3>3. UNCHANGED excused \/ \E more \in SUBSET Nat : excused' = [excused EXCEPT ![y] = @ \cup more]
      BY <1>1, <3>2
    <3> QED
      BY <1>3, <3>1, <3>3
  <2> QED
    BY <1>1, <1>2, <2>1, <2>2 DEF LoadInv, Types, Pending
<1>5. \A r \in Sessions : Seen(r)'
  BY <1>1, <1>3, QuietRead
<1>6. \A r \in Sessions : AllJobs(r)' \subseteq AllJobs(r)
  BY <1>1, <1>2, ReadsJobs DEF Pending
<1>7. Numbered' /\ Dated'
  BY <1>1, <1>2, <1>4, <1>6, StillBounded
<1> QED
  BY <1>4, <1>5, <1>6, <1>7 DEF LoadInv, NoNewJobs

LEMMA ServeOverSeen ==
  ASSUME LoadInv, NEW s \in Sessions, ServeEnd(s) \/ ServeFailed(s)
  PROVE  LoadInv' /\ NoNewJobs
<1>1. /\ UNCHANGED <<case, clock, known, stored, wrong, stage, alive, sessions, asked, queue, held>>
      /\ UNCHANGED <<seq, given, requests, connectedAt, gaveUp>>
      /\ Reads(s) /\ Head(toServer[s]).type \in {"end", "failed"} /\ Over(s, Head(toServer[s]).job)
      /\ forced' \subseteq forced
  BY DEF ServeEnd, ServeFailed, database, numbers
<1>2. /\ toServer' \in [Sessions -> Seq(Frame)]
      /\ \A r \in Sessions : ToSet(toServer'[r]) \subseteq ToSet(toServer[r])
  BY <1>1, ReadsOne DEF LoadInv
<1>3. /\ \A r \in Sessions : Seen(r)'
      /\ \A r \in Sessions : AllJobs(r)' \subseteq AllJobs(r)
      /\ DOMAIN tries' = Sessions /\ inflight' \in [Sessions -> SUBSET Job] /\ DOMAIN sender' = Sessions
      /\ listens' \in [Sessions -> SUBSET Symbols] /\ excused' \in [Symbols -> SUBSET Nat]
      /\ \A r \in Sessions : Pending(r)' \subseteq Pending(r)
  BY <1>1, OverSeen
<1>4. Types'
  BY <1>1, <1>2, <1>3 DEF LoadInv, Types
<1>5. Numbered' /\ Dated'
  BY <1>1, <1>2, <1>3, <1>4, StillBounded
<1> QED
  BY <1>3, <1>4, <1>5 DEF LoadInv, NoNewJobs

LEMMA ServeFullSeen ==
  ASSUME LoadInv, NEW s \in Sessions, ServeFull(s)
  PROVE  LoadInv' /\ NoNewJobs
<1> DEFINE j == Head(toServer[s]).job
<1>1. /\ UNCHANGED <<case, clock, known, stored, wrong, stage, alive, sessions, asked, subscribed, tries, held>>
      /\ UNCHANGED <<seq, forced, requests, listens, connectedAt, given, gaveUp, excused>>
      /\ Reads(s) /\ Head(toServer[s]).type = "full"
      /\ \/ Named(s, j.id) = {} /\ UNCHANGED <<inflight, queue, sender, confused>>
         \/ \E k \in Named(s, j.id) :
              /\ inflight' = [inflight EXCEPT ![s] = inflight[s] \ {k}]
              /\ queue' = [queue EXCEPT ![s] = Append(queue[s], k)]
              /\ Kick(s) /\ confused' = IF k = j THEN confused ELSE confused \cup {s}
  BY DEF ServeFull, database, session, numbers, LoadInv, Types
<1>2. /\ Types /\ toServer[s] \in Seq(Frame) /\ toServer[s] # <<>> /\ Head(toServer[s]) \in Frame
      /\ toServer'[s] = Tail(toServer[s]) /\ toServer' \in [Sessions -> Seq(Frame)] /\ stage[s] = "loop"
      /\ \A r \in Sessions \ {s} : toServer'[r] = toServer[r]
      /\ \A r \in Sessions : ToSet(toServer'[r]) \subseteq ToSet(toServer[r])
  BY <1>1, ReadsOne DEF LoadInv
<1>3. j \in Job /\ Final(Head(toServer[s]))
  BY <1>1, <1>2, FrameFields DEF Final
<1>4. OneFinal(toServer[s]) => /\ Finals(toServer[s]) = Finals(toServer'[s]) \cup {j}
                               /\ OneFinal(toServer'[s]) /\ j \notin Finals(toServer'[s])
  BY <1>2, <1>3, TailFinals
<1> HIDE DEF j
<1>5. Tidy(s)
  BY DEF LoadInv, Seen
<1>6. ASSUME s \notin confused
      PROVE  /\ Placed(s) /\ Awaited(s) /\ Driven(s)
             /\ j \in Token(s) /\ j \notin ToSet(requests[s]) /\ Token(s)' = Token(s) \ {j}
             /\ Finals(toServer[s]) = Finals(toServer'[s]) \cup {j}
             /\ OneFinal(toServer'[s]) /\ j \notin Finals(toServer'[s])
  <2>1. Placed(s) /\ Awaited(s) /\ Driven(s)
    BY <1>6 DEF LoadInv, Seen
  <2> QED
    BY <1>1, <1>4, <2>1 DEF Awaited, Token
<1>7. \A r \in Sessions : AllJobs(r)' \subseteq AllJobs(r)
  BY <1>1, <1>2, ReadsJobs DEF Pending
<1>8. ASSUME NEW k \in Named(s, j.id),
             inflight' = [inflight EXCEPT ![s] = inflight[s] \ {k}],
             queue' = [queue EXCEPT ![s] = Append(queue[s], k)],
             Kick(s), confused' = IF k = j THEN confused ELSE confused \cup {s}
      PROVE  LoadInv' /\ NoNewJobs
  <2>1. k \in Pending(s) /\ k \in Job /\ queue[s] \in Seq(Job) /\ confused \subseteq confused'
    BY <1>2, <1>8 DEF Named, Types
  <2>2. /\ Append(queue[s], k) \in Seq(Job) /\ ToSet(Append(queue[s], k)) = ToSet(queue[s]) \cup {k}
        /\ IsInjective(queue[s]) /\ k \notin ToSet(queue[s]) => IsInjective(Append(queue[s], k))
    BY <2>1, AppendSet
  <2>3. /\ queue'[s] = Append(queue[s], k) /\ inflight'[s] = inflight[s] \ {k} /\ sender'[s] # "none"
        /\ (sender'[s] = "writing" <=> sender[s] = "writing")
        /\ \A r \in Sessions \ {s} : UNCHANGED <<queue[r], inflight[r], sender[r]>>
    BY <1>2, <1>8 DEF Types, Kick
  <2>4. Types'
    <3>2. queue \in [Sessions -> Seq(Job)] /\ inflight \in [Sessions -> SUBSET Job] /\ DOMAIN sender = Sessions
      BY <1>2 DEF Types
    <3>4. queue' \in [Sessions -> Seq(Job)] /\ inflight' \in [Sessions -> SUBSET Job]
      BY <1>8, <2>2, <3>2
    <3>5. DOMAIN sender' = Sessions
      BY <1>8, <3>2 DEF Kick
    <3> QED
      BY <1>1, <1>2, <3>4, <3>5 DEF Types, Pending
  <2>5. Pending(s)' = Pending(s) /\ Hand(s)' = Hand(s)
    BY <1>1 DEF Pending, Hand
  <2>6. Tidy(s)'
    BY <1>1, <1>2, <1>5, <2>3, <2>5 DEF Tidy
  <2>7. ASSUME s \notin confused' PROVE Placed(s)' /\ Awaited(s)' /\ Driven(s)'
    <3>1. k = j /\ s \notin confused
      BY <1>8, <2>7
    <3>2. k \in inflight[s] /\ k \notin ToSet(queue[s]) /\ k \notin Hand(s)
      BY <1>6, <2>1, <3>1 DEF Placed, Awaited
    <3>3. Placed(s)'
      BY <1>1, <1>6, <2>2, <2>3, <2>5, <3>1, <3>2 DEF Placed
    <3>4. Awaited(s)'
      <4>1. (ToSet(requests[s]) \cap Finals(toServer[s]) = {})' /\ IsInjective(requests[s])'
        BY <1>1, <1>6, <3>1 DEF Awaited
      <4>2. /\ (Token(s) \cap Pending(s) \subseteq inflight[s])'
            /\ (alive[s] => inflight[s] \subseteq Token(s) \/ s \in gaveUp)'
        BY <1>1, <1>6, <2>3, <2>5, <3>1 DEF Awaited
      <4> QED
        BY <1>6, <3>1, <4>1, <4>2 DEF Awaited
    <3>5. Driven(s)'
      BY <1>1, <1>6, <2>3, <3>1 DEF Driven, Pending
    <3> QED
      BY <3>3, <3>4, <3>5
  <2>8. ASSUME NEW r \in Sessions \ {s} PROVE Seen(r)'
    <3>1. Seen(r)
      BY DEF LoadInv
    <3> QED
      BY <1>1, <1>2, <2>1, <2>3, <3>1, Elsewhere
  <2>9. Numbered' /\ Dated'
    BY <1>1, <1>2, <1>7, <2>4, StillBounded
  <2> QED
    BY <1>7, <2>4, <2>6, <2>7, <2>8, <2>9 DEF LoadInv, Seen, NoNewJobs
<1>9. ASSUME Named(s, j.id) = {}, UNCHANGED <<inflight, queue, sender, confused>> PROVE LoadInv' /\ NoNewJobs
  <2>1. j \notin Pending(s)
    BY <1>9 DEF Named
  <2>2. Types'
    BY <1>1, <1>2, <1>9 DEF Types, Pending
  <2>3. Tidy(s)'
    BY <1>1, <1>5, <1>9 DEF Tidy, Hand, Pending
  <2>4. ASSUME s \notin confused' PROVE Placed(s)' /\ Awaited(s)' /\ Driven(s)'
    <3>1. s \notin confused
      BY <1>9, <2>4
    <3>2. Placed(s)' /\ Driven(s)'
      BY <1>1, <1>6, <1>9, <3>1 DEF Placed, Hand, Pending, Driven
    <3>3. inflight[s] \subseteq Pending(s)
      BY <1>6, <3>1 DEF Placed
    <3>4. Awaited(s)'
      BY <1>1, <1>6, <1>9, <2>1, <3>1, <3>3 DEF Awaited, Pending
    <3> QED
      BY <3>2, <3>4
  <2>5. ASSUME NEW r \in Sessions \ {s} PROVE Seen(r)'
    <3>1. Seen(r)
      BY DEF LoadInv
    <3> QED
      BY <1>1, <1>2, <1>9, <3>1, Elsewhere
  <2>6. Numbered' /\ Dated'
    BY <1>1, <1>2, <1>7, <2>2, StillBounded
  <2> QED
    BY <1>7, <2>2, <2>3, <2>4, <2>5, <2>6 DEF LoadInv, Seen, NoNewJobs
<1> QED
  BY <1>1, <1>8, <1>9

\* An error that is not handled: the job stays in flight.
LEMMA ServeUnhandledSeen ==
  ASSUME LoadInv, NEW s \in Sessions, ServeUnhandled(s)
  PROVE  LoadInv' /\ NoNewJobs
<1> DEFINE j == Head(toServer[s]).job
<1>1. /\ UNCHANGED <<case, clock, known, stored, wrong, stage, alive, sessions, asked, subscribed, tries, held>>
      /\ UNCHANGED <<queue, inflight, sender, seq, forced, requests, listens, connectedAt, given, confused, excused>>
      /\ Reads(s) /\ Head(toServer[s]).type = "unhandled"
      /\ gaveUp \subseteq gaveUp' /\ (j \in Pending(s) => s \in gaveUp')
  BY DEF ServeUnhandled, database, session, jobs, numbers
<1>2. /\ Types /\ toServer[s] \in Seq(Frame) /\ toServer[s] # <<>> /\ Head(toServer[s]) \in Frame
      /\ toServer'[s] = Tail(toServer[s]) /\ toServer' \in [Sessions -> Seq(Frame)]
      /\ \A r \in Sessions \ {s} : toServer'[r] = toServer[r]
      /\ \A r \in Sessions : ToSet(toServer'[r]) \subseteq ToSet(toServer[r])
  BY <1>1, ReadsOne DEF LoadInv
<1>3. Final(Head(toServer[s]))
  BY <1>1 DEF Final
<1>4. OneFinal(toServer[s]) => /\ Finals(toServer[s]) = Finals(toServer'[s]) \cup {j}
                               /\ OneFinal(toServer'[s]) /\ j \notin Finals(toServer'[s])
  BY <1>2, <1>3, TailFinals
<1> HIDE DEF j
<1>5. Types'
  BY <1>1, <1>2 DEF Types, Pending
<1>6. \A r \in Sessions : AllJobs(r)' \subseteq AllJobs(r)
  BY <1>1, <1>2, ReadsJobs DEF Pending
<1>7. Seen(s)'
  <2>1. Tidy(s)'
    BY <1>1 DEF LoadInv, Seen, Tidy, Hand, Pending
  <2>2. ASSUME s \notin confused PROVE Placed(s)' /\ Awaited(s)' /\ Driven(s)'
    <3>1. Placed(s) /\ Awaited(s) /\ Driven(s)
      BY <2>2 DEF LoadInv, Seen
    <3>2. Placed(s)' /\ Driven(s)'
      BY <1>1, <3>1 DEF Placed, Hand, Pending, Driven
    <3>3. /\ Finals(toServer[s]) = Finals(toServer'[s]) \cup {j}
          /\ OneFinal(toServer'[s]) /\ j \notin Finals(toServer'[s])
      BY <1>4, <3>1 DEF Awaited
    <3>4. Token(s)' = Token(s) \ {j} /\ inflight[s] \subseteq Pending(s)
      BY <1>1, <3>1, <3>3 DEF Awaited, Token, Placed
    <3>5. (ToSet(requests[s]) \cap Finals(toServer[s]) = {})' /\ IsInjective(requests[s])'
      BY <1>1, <3>1, <3>3 DEF Awaited
    <3>6. /\ (Token(s) \cap Pending(s) \subseteq inflight[s])'
          /\ (alive[s] => inflight[s] \subseteq Token(s) \/ s \in gaveUp)'
      BY <1>1, <3>1, <3>4 DEF Awaited, Pending
    <3>7. Awaited(s)'
      BY <3>3, <3>5, <3>6 DEF Awaited
    <3> QED
      BY <3>2, <3>7
  <2> QED
    BY <1>1, <2>1, <2>2 DEF Seen
<1>8. ASSUME NEW r \in Sessions \ {s} PROVE Seen(r)'
  <2>1. Seen(r)
    BY DEF LoadInv
  <2> QED
    BY <1>1, <1>2, <2>1, Elsewhere
<1>9. Numbered' /\ Dated'
  BY <1>1, <1>2, <1>5, <1>6, StillBounded
<1> QED
  BY <1>5, <1>6, <1>7, <1>8, <1>9 DEF LoadInv, NoNewJobs

----------------------------------------------------------------------------
\* The steps that make jobs.

\* The symbols and the newest bars a session sees, and what it makes of them.
LEMMA SetupMakes ==
  ASSUME Types, NEW s \in Sessions, Setup(s)
  PROVE  \E symbols \in SUBSET Symbols, latest \in [Symbols -> SUBSET Nat] :
           /\ symbols # {}
           /\ \A y \in Symbols : \A b \in latest[y] : b \in stored[y] /\ b < clock
           /\ asked' = [asked EXCEPT ![s] = symbols]
           /\ seq' = seq + Len(Jobs(symbols, latest))
           /\ given' = given \o [i \in DOMAIN Jobs(symbols, latest) |-> Jobs(symbols, latest)[i].id]
           /\ tries' = [tries EXCEPT ![s] = [j \in ToSet(Jobs(symbols, latest)) |-> 0]]
           /\ queue' = [queue EXCEPT ![s] = Jobs(symbols, latest)]
           /\ sender' = [sender EXCEPT ![s] = "ready"]
           /\ excused' = [y \in Symbols |-> excused[y] \cup
                            IF y \in symbols /\ latest[y] = {} THEN {b \in 0..clock : b < From(y, {})} ELSE {}]
<1>1. PICK sees \in BOOLEAN, dates \in BOOLEAN :
        LET symbols == Watched(sees)
            latest == [y \in Symbols |-> IF dates THEN stored[y] ELSE {}]
            todo == Jobs(symbols, latest)
        IN /\ asked' = [asked EXCEPT ![s] = symbols]
           /\ seq' = seq + Len(todo)
           /\ given' = given \o [i \in DOMAIN todo |-> todo[i].id]
           /\ tries' = [tries EXCEPT ![s] = [j \in ToSet(todo) |-> 0]]
           /\ queue' = [queue EXCEPT ![s] = todo]
           /\ sender' = [sender EXCEPT ![s] = "ready"]
           /\ excused' = [y \in Symbols |-> excused[y] \cup
                IF y \in symbols /\ latest[y] = {} THEN {b \in 0..clock : b < From(y, {})} ELSE {}]
  BY DEF Setup
<1> DEFINE symbols == Watched(sees)
           latest == [y \in Symbols |-> IF dates THEN stored[y] ELSE {}]
<1>2. symbols \in SUBSET Symbols /\ symbols # {}
  BY ConstantsAssumption DEF Watched, Types
<1>3. latest \in [Symbols -> SUBSET Nat] /\ \A y \in Symbols : \A b \in latest[y] : b \in stored[y] /\ b < clock
  BY DEF Types
<1>4. /\ asked' = [asked EXCEPT ![s] = symbols]
      /\ seq' = seq + Len(Jobs(symbols, latest))
      /\ given' = given \o [i \in DOMAIN Jobs(symbols, latest) |-> Jobs(symbols, latest)[i].id]
      /\ tries' = [tries EXCEPT ![s] = [j \in ToSet(Jobs(symbols, latest)) |-> 0]]
      /\ queue' = [queue EXCEPT ![s] = Jobs(symbols, latest)]
      /\ sender' = [sender EXCEPT ![s] = "ready"]
      /\ excused' = [y \in Symbols |-> excused[y] \cup
                       IF y \in symbols /\ latest[y] = {} THEN {b \in 0..clock : b < From(y, {})} ELSE {}]
  BY <1>1, Zenon
<1> HIDE DEF symbols, latest
<1> QED
  BY <1>2, <1>3, <1>4

\* Numbers are given to more jobs.
LEMMA GivenTo ==
  ASSUME given \in Seq(Nat), NEW todo \in Seq(Job), given' = given \o [i \in DOMAIN todo |-> todo[i].id]
  PROVE  /\ given' \in Seq(Nat) /\ MoreGiven /\ Len(given) \in Nat
         /\ \A i \in DOMAIN todo : Len(given) + i \in DOMAIN given' /\ given'[Len(given) + i] = todo[i].id
         /\ \A i \in DOMAIN given' : i \in DOMAIN given \/ i - Len(given) \in DOMAIN todo
<1> DEFINE r == [i \in DOMAIN todo |-> todo[i].id]
<1>1. Len(todo) \in Nat /\ DOMAIN todo = 1..Len(todo) /\ \A i \in DOMAIN todo : todo[i].id \in Nat
  <2>1. \A i \in DOMAIN todo : todo[i] \in Job
    OBVIOUS
  <2> QED
    BY <2>1, JobFields
<1>2. r \in [1..Len(todo) -> Nat] /\ \A i \in DOMAIN todo : r[i] = todo[i].id
  BY <1>1
<1> HIDE DEF r
<1>3. r \in Seq(Nat) /\ Len(r) = Len(todo)
  <2>1. ASSUME NEW n \in Nat, r \in [1..n -> Nat] PROVE r \in Seq(Nat) /\ Len(r) = n
    BY <2>1
  <2> QED
    BY <1>1, <1>2, <2>1
<1>4. given' = given \o r
  BY DEF r
<1>5. /\ given' \in Seq(Nat) /\ Len(given) \in Nat /\ DOMAIN given = 1..Len(given)
      /\ DOMAIN given' = 1..(Len(given) + Len(todo))
      /\ \A i \in 1..(Len(given) + Len(todo)) :
           given'[i] = IF i <= Len(given) THEN given[i] ELSE r[i - Len(given)]
  <2>1. given \o r \in Seq(Nat) /\ Len(given \o r) = Len(given) + Len(r)
    BY <1>3
  <2>2. \A i \in 1..(Len(given) + Len(r)) :
          (given \o r)[i] = IF i <= Len(given) THEN given[i] ELSE r[i - Len(given)]
    BY <1>3
  <2>3. given' \in Seq(Nat) /\ Len(given') = Len(given) + Len(todo)
    BY <1>3, <1>4, <2>1
  <2>4. DOMAIN given' = 1..(Len(given) + Len(todo)) /\ DOMAIN given = 1..Len(given) /\ Len(given) \in Nat
    BY <2>3
  <2>5. \A i \in 1..(Len(given) + Len(todo)) :
          given'[i] = IF i <= Len(given) THEN given[i] ELSE r[i - Len(given)]
    BY <1>3, <1>4, <2>2
  <2> QED
    BY <2>3, <2>4, <2>5
<1>6. MoreGiven
  BY <1>1, <1>5 DEF MoreGiven
<1>7. ASSUME NEW i \in DOMAIN todo
      PROVE  Len(given) + i \in DOMAIN given' /\ given'[Len(given) + i] = todo[i].id
  <2>1. Len(given) + i \in DOMAIN given' /\ ~(Len(given) + i <= Len(given)) /\ Len(given) + i - Len(given) = i
    BY <1>1, <1>5
  <2> QED
    BY <1>2, <1>5, <2>1
<1>8. \A i \in DOMAIN given' : i \in DOMAIN given \/ i - Len(given) \in DOMAIN todo
  BY <1>1, <1>5
<1> QED
  BY <1>5, <1>6, <1>7, <1>8

LEMMA SetupSeen ==
  ASSUME LoadInv, NEW s \in Sessions, Setup(s)
  PROVE  LoadInv'
<1>1. /\ UNCHANGED <<case, clock, known, stored, wrong, alive, sessions, subscribed, inflight, held, forced>>
      /\ UNCHANGED <<toServer, requests, listens, gaveUp, confused>>
      /\ stage[s] = "setup" /\ stage' = [stage EXCEPT ![s] = "loop"]
      /\ connectedAt' = [connectedAt EXCEPT ![s] = clock]
  BY DEF Setup, database, bridge
<1>2. Types /\ Numbered /\ Dated /\ Tidy(s)
  BY DEF LoadInv, Seen
<1>3. PICK symbols \in SUBSET Symbols, latest \in [Symbols -> SUBSET Nat] :
        /\ symbols # {}
        /\ \A y \in Symbols : \A b \in latest[y] : b \in stored[y] /\ b < clock
        /\ asked' = [asked EXCEPT ![s] = symbols]
        /\ seq' = seq + Len(Jobs(symbols, latest))
        /\ given' = given \o [i \in DOMAIN Jobs(symbols, latest) |-> Jobs(symbols, latest)[i].id]
        /\ tries' = [tries EXCEPT ![s] = [j \in ToSet(Jobs(symbols, latest)) |-> 0]]
        /\ queue' = [queue EXCEPT ![s] = Jobs(symbols, latest)]
        /\ sender' = [sender EXCEPT ![s] = "ready"]
        /\ excused' = [y \in Symbols |-> excused[y] \cup
                         IF y \in symbols /\ latest[y] = {} THEN {b \in 0..clock : b < From(y, {})} ELSE {}]
  BY <1>2, SetupMakes
<1> DEFINE todo == Jobs(symbols, latest)
<1>4. /\ todo \in Seq(Job) /\ Len(todo) \in Nat /\ IsInjective(todo)
      /\ \A j \in ToSet(todo) :
           /\ ~j.manual /\ j.from <= j.to /\ j.to = clock /\ ~j.upsert
           /\ j.sym \in symbols /\ (j.tf = "M1" => j.from = From(j.sym, latest[j.sym]))
      /\ \A y \in symbols : \E j \in ToSet(todo) : j.tf = "M1" /\ j.sym = y
      /\ \A i \in DOMAIN todo : todo[i].nr = Len(given) + i
  BY <1>2, <1>3, JobsOf
<1>5. seq' = seq + Len(todo) /\ tries' = [tries EXCEPT ![s] = [j \in ToSet(todo) |-> 0]]
      /\ queue' = [queue EXCEPT ![s] = todo]
      /\ given' = given \o [i \in DOMAIN todo |-> todo[i].id]
  BY <1>3
<1> HIDE DEF todo
<1>0. /\ given \in Seq(Nat) /\ given' \in Seq(Nat) /\ MoreGiven /\ Len(given) \in Nat
      /\ \A i \in DOMAIN todo : Len(given) + i \in DOMAIN given' /\ given'[Len(given) + i] = todo[i].id
  <2>1. given \in Seq(Nat)
    BY <1>2 DEF Types
  <2> QED
    BY <1>4, <1>5, <2>1, GivenTo
<1>14. \A j \in ToSet(todo) : /\ j.nr \in DOMAIN given' /\ given'[j.nr] = j.id /\ j.nr \notin DOMAIN given
  <2> TAKE j \in ToSet(todo)
  <2>1. PICK i \in DOMAIN todo : j = todo[i]
    BY DEF ToSet
  <2>2. i \in Nat /\ i > 0
    BY <1>4
  <2>3. Len(given) + i \notin DOMAIN given
    BY <1>0, <2>2
  <2> QED
    BY <1>0, <1>4, <2>1, <2>3
<1>6. ToSet(todo) \subseteq Job
  BY <1>4 DEF ToSet
<1>7. /\ Pending(s)' = ToSet(todo) /\ queue'[s] = todo /\ sender'[s] = "ready" /\ stage'[s] = "loop"
      /\ \A r \in Sessions \ {s} : UNCHANGED <<tries[r], queue[r], sender[r], stage[r]>>
  BY <1>1, <1>2, <1>3, <1>5 DEF Types, Pending
<1>8. Types'
  <2>1. seq' \in Nat /\ queue' \in [Sessions -> Seq(Job)] /\ connectedAt' \in [Sessions -> Nat]
    BY <1>1, <1>2, <1>4, <1>5 DEF Types
  <2>2. asked' \in [Sessions -> SUBSET Symbols]
    BY <1>2, <1>3 DEF Types
  <2>3. excused' \in [Symbols -> SUBSET Nat]
    <3>1. \A y : {b \in 0..clock : b < From(y, {})} \subseteq Nat
      BY <1>2 DEF Types
    <3>2. excused \in [Symbols -> SUBSET Nat]
      BY <1>2 DEF Types
    <3> QED
      BY <1>3, <3>1, <3>2
  <2>4. DOMAIN tries' = Sessions /\ DOMAIN sender' = Sessions /\ DOMAIN stage' = Sessions
    BY <1>1, <1>2, <1>3, <1>5 DEF Types
  <2>5. \A r \in Sessions : Pending(r)' \subseteq Job
    <3>1. \A r \in Sessions : Pending(r) \subseteq Job
      BY <1>2 DEF Types
    <3> QED
      BY <1>6, <1>7, <3>1 DEF Pending
  <2> QED
    BY <1>0, <1>1, <1>2, <2>1, <2>2, <2>3, <2>4, <2>5 DEF Types
<1>9. \A r \in Sessions \ {s} : Seen(r)' /\ AllJobs(r)' = AllJobs(r)
  BY <1>1, <1>7, Elsewhere, SameJobs DEF LoadInv
<1>10. AllJobs(s)' \subseteq AllJobs(s) \cup ToSet(todo)
  BY <1>1, <1>7 DEF AllJobs, Hand
<1>11. Numbered'
  <2>1. SUFFICES ASSUME NEW r \in Sessions, NEW j \in AllJobs(r)'
                 PROVE  /\ j.nr \in DOMAIN given' /\ given'[j.nr] = j.id /\ j.from <= j.to
                        /\ ~j.manual => j.to <= clock' /\ ~j.upsert
    BY DEF Numbered
  <2>2. CASE j \in ToSet(todo)
    <3>1. j \in Job /\ clock \in Nat
      BY <1>2, <1>6, <2>2 DEF Types
    <3> QED
      BY <1>1, <1>4, <1>14, <2>2, <3>1
  <2>3. CASE j \notin ToSet(todo)
    <3>1. j \in AllJobs(r)
      BY <1>9, <1>10, <2>1, <2>3
    <3>2. /\ j.nr \in DOMAIN given /\ given[j.nr] = j.id /\ j.from <= j.to
          /\ ~j.manual => j.to <= clock /\ ~j.upsert
      BY <1>2, <3>1 DEF Numbered
    <3> QED
      BY <1>0, <1>1, <3>2 DEF MoreGiven
  <2> QED
    BY <2>2, <2>3
<1>12. Dated'
  BY <1>1, <1>2 DEF Dated
<1>13. Seen(s)'
  <2>1. Pending(s) = {} /\ held[s] = NoJob /\ sender[s] = "none"
    BY <1>1, <1>2 DEF Tidy
  <2>2. Hand(s)' = {}
    BY <1>1, <2>1 DEF Hand
  <2>3. Tidy(s)'
    BY <1>1, <1>4, <1>7, <2>1, <2>2 DEF Tidy
  <2>4. ASSUME s \notin confused PROVE Placed(s)' /\ Awaited(s)' /\ Driven(s)'
    <3>1. Awaited(s) /\ inflight[s] = {}
      BY <2>1, <2>4 DEF LoadInv, Seen, Placed
    <3>2. Placed(s)'
      BY <1>1, <1>4, <1>7, <2>2, <3>1 DEF Placed
    <3>3. Token(s)' \cap ToSet(todo) = {}
      <4>1. ASSUME NEW j \in Token(s)', j \in ToSet(todo) PROVE FALSE
        <5>1. j \in AllJobs(s)
          BY <1>1, <4>1 DEF Token, AllJobs, Finals, JobsIn, Final
        <5> QED
          BY <1>2, <1>14, <4>1, <5>1 DEF Numbered
      <4> QED
        BY <4>1
    <3>4. Awaited(s)'
      BY <1>1, <1>7, <3>1, <3>3 DEF Awaited
    <3>5. Driven(s)'
      BY <1>3, <1>4, <1>7 DEF Driven
    <3> QED
      BY <3>2, <3>4, <3>5
  <2> QED
    BY <1>1, <2>3, <2>4 DEF Seen
<1> QED
  BY <1>8, <1>9, <1>11, <1>12, <1>13 DEF LoadInv

\* A job that no number was given to is new everywhere.
LEMMA NewNumber ==
  ASSUME LoadInv, NEW s \in Sessions, NEW j \in Job, j.nr \notin DOMAIN given
  PROVE  j \notin AllJobs(s) /\ j \notin Token(s) /\ j \notin Finals(toServer[s])
<1>1. j \notin AllJobs(s)
  BY DEF LoadInv, Numbered
<1>2. Token(s) \subseteq AllJobs(s) /\ Finals(toServer[s]) \subseteq Token(s)
  BY DEF Token, AllJobs, Finals, JobsIn, Final
<1> QED
  BY <1>1, <1>2

LEMMA RequestMakes ==
  ASSUME Types, NEW want \in case.wants, NEW tf \in {"D1", "M1"}, NEW up \in BOOLEAN,
         RequestHistory(want, tf, up)
  PROVE  \E j \in Job :
           /\ j.nr = Len(given) + 1 /\ j.tf = tf /\ j.from < j.to /\ j.upsert = up /\ j.manual
           /\ \A s \in Sessions : requests'[s] = requests[s]
                                    \/ (s \in sessions /\ alive[s] /\ requests'[s] = Append(requests[s], j))
           /\ DOMAIN requests' = Sessions
           /\ forced' \subseteq forced \cup {j.id} /\ forced \ {j.id} \subseteq forced'
           /\ (\E s \in Sessions : requests'[s] # requests[s]) => (up => j.id \in forced')
           /\ seq' \in Nat
           /\ given' = Append(given, j.id) /\ given' \in Seq(Nat) /\ MoreGiven
           /\ j.nr \in DOMAIN given' /\ j.nr \notin DOMAIN given /\ given'[j.nr] = j.id
<1>1. want \in [sym : Symbols, from : Nat, to : Nat] /\ case.ids \subseteq Nat /\ want.from < want.to
      /\ given \in Seq(Nat) /\ Len(given) \in Nat /\ seq \in Nat
  BY ConstantsAssumption DEF Types, RequestHistory
<1>2. PICK id \in {seq} \cup case.ids :
       /\ LET j == [id |-> id, nr |-> Len(given) + 1, sym |-> want.sym, tf |-> tf,
                    from |-> want.from, to |-> want.to, upsert |-> up, manual |-> TRUE]
              reached == {s \in sessions : alive[s]}
          IN /\ requests' = [s \in Sessions |-> IF s \in reached THEN Append(requests[s], j) ELSE requests[s]]
             /\ \/ ~up /\ UNCHANGED forced
                \/ up /\ sessions # {} /\ forced' = forced \cup {id}
                \/ up /\ reached = {} /\ forced' = forced \ {id}
       /\ \/ id = seq /\ seq' = seq + 1
          \/ id \in case.ids /\ UNCHANGED seq
       /\ given' = Append(given, id)
  BY DEF RequestHistory
<1> DEFINE j == [id |-> id, nr |-> Len(given) + 1, sym |-> want.sym, tf |-> tf,
                 from |-> want.from, to |-> want.to, upsert |-> up, manual |-> TRUE]
           reached == {s \in sessions : alive[s]}
<1>3. /\ requests' = [s \in Sessions |-> IF s \in reached THEN Append(requests[s], j) ELSE requests[s]]
      /\ \/ ~up /\ UNCHANGED forced
         \/ up /\ sessions # {} /\ forced' = forced \cup {id}
         \/ up /\ reached = {} /\ forced' = forced \ {id}
  BY <1>2
<1>4. /\ j \in Job /\ j.id = id /\ j.nr = Len(given) + 1 /\ j.tf = tf /\ j.from < j.to /\ j.upsert = up
      /\ j.manual /\ id \in Nat
  BY <1>1 DEF Job
<1> HIDE DEF j
<1>5. \A s \in Sessions : requests'[s] = requests[s]
                             \/ (s \in sessions /\ alive[s] /\ requests'[s] = Append(requests[s], j))
  BY <1>3
<1>6. forced' \subseteq forced \cup {id} /\ forced \ {id} \subseteq forced'
  BY <1>3
<1>7. (\E s \in Sessions : requests'[s] # requests[s]) => (up => id \in forced')
  BY <1>3
<1>8. DOMAIN requests' = Sessions /\ seq' \in Nat
  BY <1>1, <1>2, <1>3
<1>9. /\ given' \in Seq(Nat) /\ DOMAIN given' = 1..(Len(given) + 1) /\ DOMAIN given = 1..Len(given)
      /\ given'[Len(given) + 1] = id /\ \A i \in 1..Len(given) : given'[i] = given[i]
  BY <1>1, <1>2, <1>4
<1>10. MoreGiven /\ Len(given) + 1 \in DOMAIN given' /\ Len(given) + 1 \notin DOMAIN given
  BY <1>1, <1>9 DEF MoreGiven
<1> QED
  BY <1>2, <1>4, <1>5, <1>6, <1>7, <1>8, <1>9, <1>10

LEMMA RequestHistorySeen ==
  ASSUME LoadInv, NEW want \in case.wants, NEW tf \in {"D1", "M1"}, NEW up \in BOOLEAN,
         RequestHistory(want, tf, up)
  PROVE  LoadInv'
<1>1. /\ UNCHANGED <<case, clock, known, stored, wrong, stage, alive, sessions, asked, subscribed, tries>>
      /\ UNCHANGED <<queue, inflight, sender, held, toServer, listens, connectedAt, gaveUp, confused, excused>>
  BY DEF RequestHistory, database, session, jobs
<1>2. Types /\ Numbered /\ Dated
  BY DEF LoadInv
<1>3. PICK j \in Job :
           /\ j.nr = Len(given) + 1 /\ j.tf = tf /\ j.from < j.to /\ j.upsert = up /\ j.manual
           /\ \A s \in Sessions : requests'[s] = requests[s]
                                    \/ (s \in sessions /\ alive[s] /\ requests'[s] = Append(requests[s], j))
           /\ DOMAIN requests' = Sessions
           /\ forced' \subseteq forced \cup {j.id}
           /\ seq' \in Nat
           /\ given' \in Seq(Nat) /\ MoreGiven
           /\ j.nr \in DOMAIN given' /\ j.nr \notin DOMAIN given /\ given'[j.nr] = j.id
  BY <1>2, RequestMakes
<1>4. ASSUME NEW s \in Sessions
      PROVE  /\ requests[s] \in Seq(Job) /\ requests'[s] \in Seq(Job)
             /\ ToSet(requests[s]) \subseteq ToSet(requests'[s])
             /\ ToSet(requests'[s]) \subseteq ToSet(requests[s]) \cup {j}
             /\ (IsInjective(requests[s]) => IsInjective(requests'[s]))
  <2>1. requests[s] \in Seq(Job) /\ j \notin ToSet(requests[s])
    BY <1>2, <1>3, NewNumber DEF Types, AllJobs
  <2>2. CASE requests'[s] = requests[s]
    BY <2>1, <2>2
  <2>3. CASE requests'[s] = Append(requests[s], j)
    BY <2>1, <2>3, AppendSet
  <2> QED
    BY <1>3, <2>2, <2>3
<1>5. Types'
  <2>1. requests' \in [Sessions -> Seq(Job)]
    <3>1. \A s \in Sessions : requests'[s] \in Seq(Job)
      BY <1>4
    <3>2. requests' = [s \in Sessions |-> requests'[s]]
      BY <1>3, <1>4 DEF RequestHistory
    <3> QED
      BY <3>1, <3>2
  <2>2. forced' \subseteq Nat
    BY <1>2, <1>3, JobFields DEF Types
  <2> QED
    BY <1>1, <1>2, <1>3, <2>1, <2>2 DEF Types, Pending
<1>6. \A s \in Sessions : AllJobs(s)' \subseteq AllJobs(s) \cup {j}
  BY <1>1, <1>4 DEF AllJobs, Pending, Hand
<1>7. Numbered'
  <2>1. SUFFICES ASSUME NEW s \in Sessions, NEW k \in AllJobs(s)'
                 PROVE  /\ k.nr \in DOMAIN given' /\ given'[k.nr] = k.id /\ k.from <= k.to
                        /\ ~k.manual => k.to <= clock' /\ ~k.upsert
    BY DEF Numbered
  <2>2. CASE k = j
    <3>1. j.from \in Nat /\ j.to \in Nat
      BY <1>3, JobFields
    <3> QED
      BY <1>3, <2>2, <3>1
  <2>3. CASE k # j
    <3>1. k \in AllJobs(s)
      BY <1>6, <2>3
    <3>2. /\ k.nr \in DOMAIN given /\ given[k.nr] = k.id /\ k.from <= k.to
          /\ ~k.manual => k.to <= clock /\ ~k.upsert
      BY <1>2, <3>1 DEF Numbered
    <3> QED
      BY <1>1, <1>3, <3>2 DEF MoreGiven
  <2> QED
    BY <2>2, <2>3
<1>8. Dated'
  BY <1>1, <1>2 DEF Dated
<1>9. ASSUME NEW s \in Sessions PROVE Seen(s)'
  <2>1. j \notin Finals(toServer[s]) /\ j \notin Pending(s) /\ Tidy(s)
    BY <1>2, <1>3, NewNumber DEF LoadInv, Seen, AllJobs
  <2>2. Tidy(s)'
    BY <1>1, <2>1 DEF Tidy, Hand, Pending
  <2>3. ASSUME s \notin confused PROVE Placed(s)' /\ Awaited(s)' /\ Driven(s)'
    <3>1. Placed(s) /\ Awaited(s) /\ Driven(s)
      BY <2>3 DEF LoadInv, Seen
    <3>2. Placed(s)' /\ Driven(s)'
      BY <1>1, <3>1 DEF Placed, Hand, Pending, Driven
    <3>3. Pending(s)' = Pending(s)
      BY <1>1 DEF Pending
    <3>4. Token(s) \subseteq Token(s)' /\ Token(s)' \subseteq Token(s) \cup {j}
      BY <1>1, <1>4 DEF Token
    <3>5. IsInjective(requests'[s]) /\ ToSet(requests'[s]) \cap Finals(toServer[s]) = {}
      BY <1>4, <2>1, <3>1 DEF Awaited
    <3>6. /\ Token(s)' \cap Pending(s) \subseteq inflight[s]
          /\ (alive[s] => inflight[s] \subseteq Token(s)' \/ s \in gaveUp)
      BY <2>1, <3>1, <3>4 DEF Awaited
    <3>7. Awaited(s)'
      BY <1>1, <3>1, <3>3, <3>5, <3>6 DEF Awaited
    <3> QED
      BY <3>2, <3>7
  <2> QED
    BY <1>1, <2>2, <2>3 DEF Seen
<1> QED
  BY <1>5, <1>7, <1>8, <1>9 DEF LoadInv

----------------------------------------------------------------------------
\* The task that sends, and the bridges.

LEMMA SenderTakesSeen ==
  ASSUME LoadInv, NEW s \in Sessions, SenderTakes(s)
  PROVE  LoadInv' /\ NoNewJobs
<1> DEFINE j == Head(queue[s])
<1>1. /\ UNCHANGED <<case, clock, known, stored, wrong, stage, alive, sessions, asked, subscribed>>
      /\ UNCHANGED <<seq, forced, toServer, requests, listens, connectedAt, given, confused>>
      /\ stage[s] = "loop" /\ sender[s] \in {"ready", "looping"}
      /\ \/ /\ queue[s] = <<>> \/ Cardinality(inflight[s]) >= MaxInflight
            /\ sender' = [sender EXCEPT ![s] = "none"]
            /\ UNCHANGED <<queue, held, tries, inflight, gaveUp, excused>>
         \/ /\ queue[s] # <<>>
            /\ queue' = [queue EXCEPT ![s] = Tail(queue[s])]
            /\ \/ /\ j \notin Pending(s)
                  /\ sender' = [sender EXCEPT ![s] = "looping"]
                  /\ UNCHANGED <<held, tries, inflight, gaveUp, excused>>
               \/ /\ j \in Pending(s)
                  /\ sender' = [sender EXCEPT ![s] = "looping"]
                  /\ tries' = [tries EXCEPT ![s] = Without(tries[s], j)]
                  /\ inflight' = [inflight EXCEPT ![s] = inflight[s] \ {j}]
                  /\ gaveUp' = gaveUp \cup {s}
                  /\ excused' = [excused EXCEPT ![j.sym] = excused[j.sym] \cup Bars(j)]
                  /\ UNCHANGED held
               \/ /\ j \in Pending(s)
                  /\ sender' = [sender EXCEPT ![s] = "writing"]
                  /\ held' = [held EXCEPT ![s] = j]
                  /\ UNCHANGED <<tries, inflight, gaveUp, excused>>
  <2>1. Types
    BY DEF LoadInv
  <2>2. /\ s \in DOMAIN queue /\ s \in DOMAIN tries /\ s \in DOMAIN inflight
        /\ Pending(s) \subseteq Job /\ \A k \in Job : k.sym \in DOMAIN excused
    BY <2>1, JobFields DEF Types
  <2> QED
    BY <2>2 DEF SenderTakes, database, session, numbers, bridge
<1>2. /\ Types /\ Numbered /\ Dated /\ Tidy(s)
      /\ s \notin confused => Placed(s) /\ Awaited(s) /\ Driven(s)
  BY DEF LoadInv, Seen
<1>3. Hand(s) = {} /\ held[s] = NoJob
  BY <1>1, <1>2 DEF Tidy, Hand
<1>4. CASE /\ queue[s] = <<>> \/ Cardinality(inflight[s]) >= MaxInflight
           /\ sender' = [sender EXCEPT ![s] = "none"]
           /\ UNCHANGED <<queue, held, tries, inflight, gaveUp, excused>>
  <2>1. sender'[s] = "none" /\ \A r \in Sessions \ {s} : sender'[r] = sender[r]
    BY <1>2, <1>4 DEF Types
  <2>2. Types'
    BY <1>1, <1>2, <1>4 DEF Types, Pending
  <2>3. \A r \in Sessions : AllJobs(r)' = AllJobs(r)
    BY <1>1, <1>4, SameJobs
  <2>4. Numbered' /\ Dated'
    BY <1>1, <2>2, <2>3, StillBounded
  <2>5. Pending(s) # {} /\ s \notin confused => inflight[s] # {}
    <3>1. CASE queue[s] = <<>>
      <4>1. ToSet(queue[s]) = {}
        BY <3>1 DEF ToSet
      <4> QED
        BY <1>2, <1>3, <4>1 DEF Placed
    <3>2. CASE Cardinality(inflight[s]) >= MaxInflight
      <4>1. MaxInflight \in Nat \ {0}
        BY ConstantsAssumption
      <4>2. Cardinality({}) = 0
        BY FS_EmptySet
      <4>3. Cardinality(inflight[s]) # 0
        BY <3>2, <4>1
      <4> QED
        BY <4>2, <4>3, Zenon
    <3> QED
      BY <1>4, <3>1, <3>2
  <2>6. Tidy(s)'
    BY <1>1, <1>2, <1>3, <1>4, <2>1 DEF Tidy, Hand, Pending
  <2>7. ASSUME s \notin confused PROVE Placed(s)' /\ Awaited(s)' /\ Driven(s)'
    <3>1. Placed(s)'
      BY <1>1, <1>2, <1>4, <2>7 DEF Placed, Hand, Pending
    <3>2. Awaited(s)'
      BY <1>1, <1>2, <1>4, <2>7 DEF Awaited, Token, Pending
    <3>3. Driven(s)'
      BY <1>1, <1>2, <1>4, <2>1, <2>5, <2>7 DEF Driven, Pending
    <3> QED
      BY <3>1, <3>2, <3>3
  <2>9. ASSUME NEW r \in Sessions \ {s} PROVE Seen(r)'
    <3>1. Seen(r)
      BY DEF LoadInv
    <3> QED
      BY <1>1, <1>4, <2>1, <3>1, Elsewhere
  <2> QED
    BY <1>1, <2>2, <2>3, <2>4, <2>6, <2>7, <2>9 DEF LoadInv, Seen, NoNewJobs
<1>5. ASSUME queue[s] # <<>>
      PROVE  /\ Tail(queue[s]) \in Seq(Job) /\ j \in Job /\ j # NoJob
             /\ ToSet(queue[s]) = ToSet(Tail(queue[s])) \cup {j}
             /\ s \notin confused => /\ j \in Pending(s) /\ j \notin inflight[s]
                                     /\ j \notin ToSet(Tail(queue[s])) /\ IsInjective(Tail(queue[s]))
  <2>1. queue[s] \in Seq(Job)
    BY <1>2 DEF Types
  <2>2. /\ Tail(queue[s]) \in Seq(Job) /\ j \in Job /\ j \in ToSet(queue[s])
        /\ ToSet(queue[s]) = ToSet(Tail(queue[s])) \cup {j}
        /\ IsInjective(queue[s]) => j \notin ToSet(Tail(queue[s])) /\ IsInjective(Tail(queue[s]))
    BY <1>5, <2>1, TailSet
  <2>3. j # NoJob
    BY <2>2, ConstantsAssumption
  <2>4. s \notin confused => j \in Pending(s) /\ j \notin inflight[s] /\ IsInjective(queue[s])
    BY <1>2, <2>2 DEF Placed
  <2> QED
    BY <2>2, <2>3, <2>4
<1> HIDE DEF j
<1>8. CASE /\ queue[s] # <<>>
           /\ queue' = [queue EXCEPT ![s] = Tail(queue[s])]
           /\ j \notin Pending(s)
           /\ sender' = [sender EXCEPT ![s] = "looping"]
           /\ UNCHANGED <<held, tries, inflight, gaveUp, excused>>
  <2>1. /\ sender'[s] = "looping" /\ s \in confused
        /\ \A r \in Sessions \ {s} : UNCHANGED <<sender[r], queue[r]>>
    BY <1>2, <1>5, <1>8 DEF Types
  <2>2. Types'
    <3>1. queue' \in [Sessions -> Seq(Job)] /\ DOMAIN sender' = Sessions
      BY <1>2, <1>5, <1>8 DEF Types
    <3> QED
      BY <1>1, <1>2, <1>8, <3>1 DEF Types, Pending
  <2>3. \A r \in Sessions : AllJobs(r)' = AllJobs(r)
    BY <1>1, <1>8, SameJobs
  <2>4. Numbered' /\ Dated'
    BY <1>1, <2>2, <2>3, StillBounded
  <2>5. Tidy(s)'
    BY <1>1, <1>2, <1>3, <1>8, <2>1 DEF Tidy, Hand, Pending
  <2>6. ASSUME NEW r \in Sessions \ {s} PROVE Seen(r)'
    <3>1. Seen(r)
      BY DEF LoadInv
    <3> QED
      BY <1>1, <1>8, <2>1, <3>1, Elsewhere
  <2> QED
    BY <1>1, <2>1, <2>2, <2>3, <2>4, <2>5, <2>6 DEF LoadInv, Seen, NoNewJobs
<1>6. CASE /\ queue[s] # <<>>
           /\ queue' = [queue EXCEPT ![s] = Tail(queue[s])]
           /\ j \in Pending(s)
           /\ sender' = [sender EXCEPT ![s] = "looping"]
           /\ tries' = [tries EXCEPT ![s] = Without(tries[s], j)]
           /\ inflight' = [inflight EXCEPT ![s] = inflight[s] \ {j}]
           /\ gaveUp' = gaveUp \cup {s}
           /\ excused' = [excused EXCEPT ![j.sym] = excused[j.sym] \cup Bars(j)]
           /\ UNCHANGED held
  <2>1. /\ sender'[s] = "looping" /\ queue'[s] = Tail(queue[s]) /\ inflight'[s] = inflight[s] \ {j}
        /\ \A r \in Sessions \ {s} : UNCHANGED <<sender[r], queue[r], tries[r], inflight[r]>>
    BY <1>2, <1>5, <1>6 DEF Types
  <2>2. Pending(s)' = Pending(s) \ {j}
    BY <1>2, <1>6 DEF Types, Pending, Without
  <2>3. Types'
    <3>1. queue' \in [Sessions -> Seq(Job)] /\ inflight' \in [Sessions -> SUBSET Job]
      BY <1>2, <1>5, <1>6 DEF Types
    <3>2. excused' \in [Symbols -> SUBSET Nat]
      <4>1. j.sym \in Symbols /\ Bars(j) \subseteq Nat
        BY <1>5, <1>6, JobFields DEF Bars
      <4>2. excused \in [Symbols -> SUBSET Nat]
        BY <1>2 DEF Types
      <4> QED
        BY <1>6, <4>1, <4>2
    <3>3. DOMAIN tries' = Sessions /\ DOMAIN sender' = Sessions
      BY <1>2, <1>6 DEF Types
    <3>4. \A r \in Sessions : Pending(r)' \subseteq Job
      <4>1. \A r \in Sessions : Pending(r) \subseteq Job
        BY <1>2 DEF Types
      <4> QED
        BY <2>1, <2>2, <4>1 DEF Pending
    <3> QED
      BY <1>1, <1>2, <1>6, <3>1, <3>2, <3>3, <3>4 DEF Types
  <2>4. \A r \in Sessions : AllJobs(r)' \subseteq AllJobs(r)
    <3>1. AllJobs(s)' \subseteq AllJobs(s)
      BY <1>1, <1>6, <2>2 DEF AllJobs, Hand
    <3> QED
      BY <1>1, <1>6, <2>1, <3>1, SameJobs
  <2>5. Numbered' /\ Dated'
    BY <1>1, <2>3, <2>4, StillBounded
  <2>6. Tidy(s)'
    BY <1>1, <1>2, <1>3, <1>6, <2>1, <2>2 DEF Tidy, Hand
  <2>7. ASSUME s \notin confused PROVE Placed(s)' /\ Awaited(s)' /\ Driven(s)'
    <3>1. Hand(s)' = {} /\ held'[s] = NoJob /\ inflight'[s] = inflight[s]
      BY <1>3, <1>5, <1>6, <2>1, <2>7 DEF Hand
    <3>2. Placed(s)'
      BY <1>1, <1>2, <1>3, <1>5, <1>6, <2>1, <2>2, <2>7, <3>1 DEF Placed
    <3>3. Awaited(s)'
      <4>1. Token(s)' = Token(s)
        BY <1>1 DEF Token
      <4> QED
        BY <1>1, <1>2, <1>6, <2>2, <2>7, <3>1, <4>1 DEF Awaited
    <3>4. Driven(s)'
      <4>1. s \in gaveUp' /\ sender'[s] # "none"
        BY <1>6, <2>1
      <4> QED
        BY <4>1 DEF Driven
    <3> QED
      BY <3>2, <3>3, <3>4
  <2>9. ASSUME NEW r \in Sessions \ {s} PROVE Seen(r)'
    <3>1. Seen(r)
      BY DEF LoadInv
    <3> QED
      BY <1>1, <1>6, <2>1, <3>1, Elsewhere
  <2> QED
    BY <1>1, <2>3, <2>4, <2>5, <2>6, <2>7, <2>9 DEF LoadInv, Seen, NoNewJobs
<1>7. CASE /\ queue[s] # <<>>
           /\ queue' = [queue EXCEPT ![s] = Tail(queue[s])]
           /\ j \in Pending(s)
           /\ sender' = [sender EXCEPT ![s] = "writing"]
           /\ held' = [held EXCEPT ![s] = j]
           /\ UNCHANGED <<tries, inflight, gaveUp, excused>>
  <2>1. /\ sender'[s] = "writing" /\ queue'[s] = Tail(queue[s]) /\ held'[s] = j
        /\ \A r \in Sessions \ {s} : UNCHANGED <<sender[r], queue[r], held[r]>>
    BY <1>2, <1>5, <1>7 DEF Types
  <2>2. Types'
    <3>1. queue' \in [Sessions -> Seq(Job)] /\ held' \in [Sessions -> Job \cup {NoJob}]
      BY <1>2, <1>5, <1>7 DEF Types
    <3> QED
      BY <1>1, <1>2, <1>7, <3>1 DEF Types, Pending
  <2>3. \A r \in Sessions : AllJobs(r)' \subseteq AllJobs(r)
    <3>1. AllJobs(s)' \subseteq AllJobs(s)
      BY <1>1, <1>7, <2>1 DEF AllJobs, Hand, Pending
    <3> QED
      BY <1>1, <1>7, <2>1, <3>1, SameJobs
  <2>4. Numbered' /\ Dated'
    BY <1>1, <2>2, <2>3, StillBounded
  <2>5. Hand(s)' = {j} /\ Pending(s)' = Pending(s)
    BY <1>5, <1>7, <2>1 DEF Hand, Pending
  <2>6. Tidy(s)'
    BY <1>1, <1>2, <1>5, <1>7, <2>1, <2>5 DEF Tidy
  <2>7. ASSUME s \notin confused PROVE Placed(s)' /\ Awaited(s)' /\ Driven(s)'
    <3>1. Placed(s)'
      BY <1>1, <1>2, <1>3, <1>5, <1>7, <2>1, <2>5, <2>7 DEF Placed
    <3>2. Awaited(s)'
      BY <1>1, <1>2, <1>7, <2>7 DEF Awaited, Token, Pending
    <3>3. Driven(s)'
      BY <1>1, <1>2, <1>7, <2>1, <2>7 DEF Driven, Pending
    <3> QED
      BY <3>1, <3>2, <3>3
  <2>9. ASSUME NEW r \in Sessions \ {s} PROVE Seen(r)'
    <3>1. Seen(r)
      BY DEF LoadInv
    <3> QED
      BY <1>1, <1>7, <2>1, <3>1, Elsewhere
  <2> QED
    BY <1>1, <2>2, <2>3, <2>4, <2>6, <2>7, <2>9 DEF LoadInv, Seen, NoNewJobs
<1> QED
  BY <1>1, <1>4, <1>6, <1>7, <1>8 DEF j

LEMMA SenderWritesSeen ==
  ASSUME LoadInv, NEW s \in Sessions, SenderWrites(s)
  PROVE  LoadInv' /\ NoNewJobs
<1> DEFINE j == held[s]
<1>1. /\ UNCHANGED <<case, clock, known, stored, wrong, stage, alive, sessions, asked, subscribed>>
      /\ UNCHANGED <<seq, forced, listens, connectedAt, given, gaveUp, confused, excused>>
      /\ sender[s] = "writing" /\ held' = [held EXCEPT ![s] = NoJob]
      /\ \/ /\ inflight' = [inflight EXCEPT ![s] = inflight[s] \cup {j}]
            /\ tries' = [tries EXCEPT ![s] = [k \in Pending(s) |-> IF k = j THEN tries[s][k] + 1 ELSE tries[s][k]]]
            /\ sender' = [sender EXCEPT ![s] = "looping"]
            /\ UNCHANGED queue
            /\ \/ /\ requests' = [requests EXCEPT ![s] = Append(requests[s], j)]
                  /\ UNCHANGED toServer
               \/ /\ toServer' = [toServer EXCEPT ![s] = Append(toServer[s], [type |-> "full", job |-> j])]
                  /\ UNCHANGED requests
               \/ ~alive[s] /\ UNCHANGED <<toServer, requests>>
         \/ /\ ~alive[s]
            /\ queue' = [queue EXCEPT ![s] = <<j>> \o queue[s]]
            /\ sender' = [sender EXCEPT ![s] = "none"]
            /\ UNCHANGED <<inflight, tries, toServer, requests>>
  <2>1. Types
    BY DEF LoadInv
  <2>2. s \in DOMAIN queue /\ s \in DOMAIN tries /\ s \in DOMAIN inflight /\ s \in DOMAIN requests /\ s \in DOMAIN toServer
    BY <2>1 DEF Types
  <2> QED
    BY <2>2 DEF SenderWrites, Accepts, Pending, database, session, numbers, history
<1>2. /\ Types /\ Numbered /\ Dated /\ Tidy(s)
      /\ s \notin confused => Placed(s) /\ Awaited(s) /\ Driven(s)
  BY DEF LoadInv, Seen
<1>3. /\ j \in Job /\ Hand(s) = {j} /\ ~j.manual
      /\ s \notin confused => /\ j \in Pending(s) /\ j \notin ToSet(queue[s]) /\ j \notin inflight[s]
                              /\ Pending(s) = ToSet(queue[s]) \cup inflight[s] \cup {j}
  BY <1>1, <1>2 DEF Types, Tidy, Placed, Hand
<1>4. s \notin confused =>
        /\ j \notin Token(s) /\ j \notin ToSet(requests[s]) /\ j \notin Finals(toServer[s])
  BY <1>2, <1>3 DEF Awaited, Token
<1> HIDE DEF j
<1>5. Hand(s)' = {} /\ held'[s] = NoJob /\ \A r \in Sessions \ {s} : held'[r] = held[r]
  BY <1>1, <1>2 DEF Hand, Types
<1>6. CASE /\ inflight' = [inflight EXCEPT ![s] = inflight[s] \cup {j}]
           /\ tries' = [tries EXCEPT ![s] = [k \in Pending(s) |-> IF k = j THEN tries[s][k] + 1 ELSE tries[s][k]]]
           /\ sender' = [sender EXCEPT ![s] = "looping"]
           /\ UNCHANGED queue
           /\ \/ /\ requests' = [requests EXCEPT ![s] = Append(requests[s], j)]
                 /\ UNCHANGED toServer
              \/ /\ toServer' = [toServer EXCEPT ![s] = Append(toServer[s], [type |-> "full", job |-> j])]
                 /\ UNCHANGED requests
              \/ ~alive[s] /\ UNCHANGED <<toServer, requests>>
  <2>1. /\ inflight'[s] = inflight[s] \cup {j} /\ sender'[s] = "looping" /\ Pending(s)' = Pending(s)
        /\ \A r \in Sessions \ {s} : UNCHANGED <<inflight[r], sender[r], tries[r]>>
    BY <1>2, <1>6 DEF Types, Pending
  <2>2. ASSUME NEW r \in Sessions \ {s} PROVE requests'[r] = requests[r] /\ toServer'[r] = toServer[r]
    BY <1>2, <1>6 DEF Types
  <2> DEFINE m == [type |-> "full", job |-> j]
  <2>3. m \in Frame /\ Final(m) /\ m.job = j /\ m.type = "full"
    BY <1>3 DEF Frame, Final
  <2>4. requests[s] \in Seq(Job) /\ toServer[s] \in Seq(Frame)
    BY <1>2 DEF Types
  <2>5. /\ Append(requests[s], j) \in Seq(Job) /\ ToSet(Append(requests[s], j)) = ToSet(requests[s]) \cup {j}
        /\ s \notin confused => IsInjective(Append(requests[s], j))
    BY <1>2, <1>3, <1>4, <2>4, AppendSet DEF Awaited
  <2>6. /\ Append(toServer[s], m) \in Seq(Frame) /\ ToSet(Append(toServer[s], m)) = ToSet(toServer[s]) \cup {m}
        /\ Finals(Append(toServer[s], m)) = Finals(toServer[s]) \cup {j}
        /\ JobsIn(Append(toServer[s], m)) = JobsIn(toServer[s]) \cup {j}
        /\ s \notin confused => OneFinal(Append(toServer[s], m))
    <3>1. ToSet(Append(toServer[s], m)) = ToSet(toServer[s]) \cup {m}
      BY <2>3, <2>4, AppendSet
    <3>2. s \notin confused => OneFinal(toServer[s])
      BY <1>2 DEF Awaited
    <3> HIDE DEF m
    <3> QED
      BY <1>4, <2>3, <2>4, <3>1, <3>2, AppendFinal
  <2> HIDE DEF m
  <2>7. /\ requests'[s] \in Seq(Job) /\ toServer'[s] \in Seq(Frame)
        /\ Token(s)' \subseteq Token(s) \cup {j} /\ Token(s) \subseteq Token(s)' /\ (alive[s] => j \in Token(s)')
        /\ AllJobs(s)' \subseteq AllJobs(s)
        /\ ToSet(toServer'[s]) \subseteq ToSet(toServer[s]) \cup {m}
        /\ s \notin confused => /\ IsInjective(requests'[s]) /\ OneFinal(toServer'[s])
                                /\ ToSet(requests'[s]) \cap Finals(toServer'[s]) = {}
    <3>0. s \notin confused => /\ IsInjective(requests[s]) /\ OneFinal(toServer[s])
                               /\ ToSet(requests[s]) \cap Finals(toServer[s]) = {}
      BY <1>2 DEF Awaited
    <3>4. Hand(s)' = {} /\ j \in AllJobs(s)
      BY <1>3, <1>5 DEF AllJobs
    <3>1. CASE requests' = [requests EXCEPT ![s] = Append(requests[s], j)] /\ UNCHANGED toServer
      <4>1. requests'[s] = Append(requests[s], j) /\ toServer'[s] = toServer[s]
        BY <1>2, <3>1 DEF Types
      <4>2. ToSet(requests'[s]) = ToSet(requests[s]) \cup {j}
        BY <2>5, <4>1
      <4> QED
        BY <1>4, <2>1, <2>4, <2>5, <3>0, <3>4, <4>1, <4>2 DEF Token, AllJobs
    <3>2. CASE toServer' = [toServer EXCEPT ![s] = Append(toServer[s], m)] /\ UNCHANGED requests
      <4>1. toServer'[s] = Append(toServer[s], m) /\ requests'[s] = requests[s]
        BY <1>2, <3>2 DEF Types
      <4> QED
        BY <1>4, <2>1, <2>4, <2>6, <3>0, <3>4, <4>1 DEF Token, AllJobs
    <3>3. CASE ~alive[s] /\ UNCHANGED <<toServer, requests>>
      BY <2>1, <2>4, <3>0, <3>3, <3>4 DEF Token, AllJobs
    <3> QED
      BY <1>6, <3>1, <3>2, <3>3 DEF m
  <2>8. Types'
    <3>1. requests' \in [Sessions -> Seq(Job)] /\ toServer' \in [Sessions -> Seq(Frame)]
      <4>1. requests \in [Sessions -> Seq(Job)] /\ toServer \in [Sessions -> Seq(Frame)]
        BY <1>2 DEF Types
      <4> QED
        BY <1>6, <2>5, <2>6, <4>1 DEF m
    <3>2. inflight' \in [Sessions -> SUBSET Job] /\ held' \in [Sessions -> Job \cup {NoJob}]
      BY <1>1, <1>2, <1>3, <1>6 DEF Types
    <3>3. DOMAIN tries' = Sessions /\ DOMAIN sender' = Sessions
      BY <1>2, <1>6 DEF Types
    <3>4. \A r \in Sessions : Pending(r)' \subseteq Job
      <4>1. \A r \in Sessions : Pending(r) \subseteq Job
        BY <1>2 DEF Types
      <4> QED
        BY <2>1, <4>1 DEF Pending
    <3>5. queue' \in [Sessions -> Seq(Job)]
      BY <1>2, <1>6 DEF Types
    <3> QED
      BY <1>1, <1>2, <3>1, <3>2, <3>3, <3>4, <3>5 DEF Types
  <2>9. \A r \in Sessions : AllJobs(r)' \subseteq AllJobs(r)
    BY <1>5, <2>1, <2>2, <2>7, SameJobs
  <2>10. Numbered'
    <3>1. clock \in Nat /\ clock' = clock /\ given' = given
      BY <1>1, <1>2 DEF Types
    <3>2. MoreGiven /\ clock <= clock'
      BY <3>1 DEF MoreGiven
    <3> QED
      BY <1>2, <2>8, <2>9, <3>2, StillNumbered
  <2>11. Dated'
    <3>1. SUFFICES ASSUME NEW r \in Sessions, NEW k \in ToSet(toServer'[r]), k.type \in {"chunk", "live"}
                   PROVE  k.bar < clock
      BY <1>1 DEF Dated
    <3>2. k \in ToSet(toServer[r])
      BY <2>2, <2>3, <2>7, <3>1
    <3> QED
      BY <1>2, <3>1, <3>2 DEF Dated
  <2>12. Tidy(s)'
    BY <1>1, <1>2, <1>5, <2>1 DEF Tidy
  <2>13. ASSUME s \notin confused PROVE Placed(s)' /\ Awaited(s)' /\ Driven(s)'
    <3>1. IsInjective(queue'[s]) /\ queue'[s] = queue[s]
      BY <1>2, <1>6, <2>13 DEF Placed
    <3>2. Placed(s)'
      BY <1>2, <1>3, <1>5, <2>1, <2>13, <3>1 DEF Placed
    <3>3. Token(s)' \cap Pending(s) \subseteq inflight'[s]
      BY <1>2, <2>1, <2>7, <2>13 DEF Awaited
    <3>4. alive[s] => inflight'[s] \subseteq Token(s)' \/ s \in gaveUp
      BY <1>2, <2>1, <2>7, <2>13 DEF Awaited
    <3>5. Awaited(s)'
      BY <1>1, <2>1, <2>7, <2>13, <3>3, <3>4 DEF Awaited
    <3>6. Driven(s)'
      BY <1>1, <1>2, <2>1, <2>13 DEF Driven
    <3> QED
      BY <3>2, <3>5, <3>6
  <2>15. ASSUME NEW r \in Sessions \ {s} PROVE Seen(r)'
    <3>1. Seen(r)
      BY DEF LoadInv
    <3> QED
      BY <1>1, <1>5, <1>6, <2>1, <2>2, <3>1, Elsewhere
  <2> QED
    BY <1>1, <2>8, <2>9, <2>10, <2>11, <2>12, <2>13, <2>15 DEF LoadInv, Seen, NoNewJobs
<1>7. CASE /\ ~alive[s]
           /\ queue' = [queue EXCEPT ![s] = <<j>> \o queue[s]]
           /\ sender' = [sender EXCEPT ![s] = "none"]
           /\ UNCHANGED <<inflight, tries, toServer, requests>>
  <2>1. /\ <<j>> \o queue[s] \in Seq(Job) /\ ToSet(<<j>> \o queue[s]) = ToSet(queue[s]) \cup {j}
        /\ s \notin confused => IsInjective(<<j>> \o queue[s])
    <3>1. queue[s] \in Seq(Job) /\ (s \notin confused => IsInjective(queue[s]))
      BY <1>2 DEF Types, Placed
    <3> QED
      BY <1>3, <3>1, PrependSet
  <2>2. /\ queue'[s] = <<j>> \o queue[s] /\ sender'[s] = "none"
        /\ \A r \in Sessions \ {s} : UNCHANGED <<queue[r], sender[r]>>
    BY <1>2, <1>7 DEF Types
  <2>3. Types'
    <3>1. queue' \in [Sessions -> Seq(Job)] /\ held' \in [Sessions -> Job \cup {NoJob}]
      <4>1. queue \in [Sessions -> Seq(Job)] /\ held \in [Sessions -> Job \cup {NoJob}]
        BY <1>2 DEF Types
      <4> QED
        BY <1>1, <1>7, <2>1, <4>1
    <3> QED
      BY <1>1, <1>2, <1>7, <3>1 DEF Types, Pending
  <2>4. \A r \in Sessions : AllJobs(r)' \subseteq AllJobs(r)
    <3>1. AllJobs(s)' \subseteq AllJobs(s)
      BY <1>5, <1>7 DEF AllJobs, Pending
    <3> QED
      BY <1>5, <1>7, <3>1, SameJobs
  <2>5. Numbered' /\ Dated'
    BY <1>1, <1>7, <2>3, <2>4, StillBounded
  <2>6. Tidy(s)'
    BY <1>1, <1>2, <1>5, <1>7, <2>2 DEF Tidy, Pending
  <2>7. ASSUME s \notin confused PROVE Placed(s)' /\ Awaited(s)' /\ Driven(s)'
    <3>1. Pending(s)' = Pending(s)
      BY <1>7 DEF Pending
    <3>2. Placed(s)'
      BY <1>2, <1>3, <1>5, <1>7, <2>1, <2>2, <2>7, <3>1 DEF Placed
    <3>3. Awaited(s)'
      BY <1>1, <1>2, <1>7, <2>7 DEF Awaited, Token, Pending
    <3>4. Driven(s)'
      BY <1>1, <1>2, <1>7, <2>2, <2>7 DEF Driven, Pending
    <3> QED
      BY <3>2, <3>3, <3>4
  <2>9. ASSUME NEW r \in Sessions \ {s} PROVE Seen(r)'
    <3>1. Seen(r)
      BY DEF LoadInv
    <3> QED
      BY <1>1, <1>5, <1>7, <2>2, <3>1, Elsewhere
  <2> QED
    BY <1>1, <2>3, <2>4, <2>5, <2>6, <2>7, <2>9 DEF LoadInv, Seen, NoNewJobs
<1> QED
  BY <1>1, <1>6, <1>7 DEF j

\* What a bridge answers: the chunks of a job, in order, of bars that have closed.
Chunks(j, last) == [k \in 1..(IF j.tf = "M1" THEN last + 1 - j.from ELSE 0) |->
                      [type |-> "chunk", job |-> j, bar |-> j.from + k - 1]]

LEMMA ChunksOf ==
  ASSUME NEW j \in Job, NEW last \in Nat, last < clock, clock \in Nat
  PROVE  LET chunks == Chunks(j, last)
         IN /\ chunks \in Seq(Frame)
            /\ \A i \in DOMAIN chunks : /\ ~Final(chunks[i]) /\ chunks[i].type = "chunk" /\ chunks[i].job = j
                                        /\ chunks[i].bar \in Nat /\ chunks[i].bar <= last
                                        /\ chunks[i].bar >= j.from
            /\ JobsIn(chunks) \subseteq {j}
            /\ \A m \in ToSet(chunks) : m.type = "chunk" /\ m.bar < clock
            /\ j.tf = "M1" => \A b \in Nat : (j.from <= b /\ b <= last) =>
                 \E i \in DOMAIN chunks : chunks[i].bar = b /\ i = b + 1 - j.from
            /\ \A i \in DOMAIN chunks : j.tf = "M1" /\ i \in Nat /\ chunks[i].bar = j.from + i - 1
            /\ DOMAIN chunks = 1..Len(chunks) /\ Len(chunks) \in Nat
<1> DEFINE n == IF j.tf = "M1" /\ j.from <= last + 1 THEN last + 1 - j.from ELSE 0
           chunks == Chunks(j, last)
<1>1. j.from \in Nat /\ n \in Nat
  BY JobFields
<1>2. \A k \in 1..n : /\ j.from + k - 1 \in Nat /\ j.from + k - 1 <= last /\ j.from + k - 1 >= j.from
                      /\ j.tf = "M1" /\ k \in Nat
  BY <1>1
<1>3. j.tf = "M1" => \A b \in Nat : (j.from <= b /\ b <= last) => b + 1 - j.from \in 1..n /\ j.from + (b + 1 - j.from) - 1 = b
  BY <1>1
<1>13. 1..n = 1..(IF j.tf = "M1" THEN last + 1 - j.from ELSE 0)
  BY <1>1
<1>12. chunks = [k \in 1..n |-> [type |-> "chunk", job |-> j, bar |-> j.from + k - 1]]
  <2> HIDE DEF n
  <2> QED
    BY <1>13 DEF Chunks
<1> HIDE DEF n, chunks
<1>4. chunks \in [1..n -> Frame]
  <2>1. \A k \in 1..n : [type |-> "chunk", job |-> j, bar |-> j.from + k - 1] \in Frame
    BY <1>2 DEF Frame
  <2> QED
    BY <1>12, <2>1
<1>5. \A i \in 1..n : chunks[i].type = "chunk" /\ chunks[i].job = j /\ chunks[i].bar = j.from + i - 1
  BY <1>12
<1>6. j.tf = "M1" => \A b \in Nat : (j.from <= b /\ b <= last) =>
                 \E i \in 1..n : chunks[i].bar = b /\ i = b + 1 - j.from
  BY <1>3, <1>5
<1>7. chunks \in Seq(Frame) /\ DOMAIN chunks = 1..n /\ Len(chunks) = n
  BY <1>1, <1>4
<1>8. JobsIn(chunks) \subseteq {j}
  BY <1>5, <1>7 DEF JobsIn
<1>9. \A i \in 1..n : ~Final(chunks[i]) /\ chunks[i].bar \in Nat /\ chunks[i].bar <= last /\ chunks[i].bar >= j.from
  BY <1>2, <1>5 DEF Final
<1>10. \A m \in ToSet(chunks) : m.type = "chunk" /\ m.bar < clock
  <2>1. ASSUME NEW m \in ToSet(chunks) PROVE m.type = "chunk" /\ m.bar < clock
    <3>1. PICK i \in 1..n : m = chunks[i]
      BY <1>7 DEF ToSet
    <3> QED
      BY <1>5, <1>9, <3>1
  <2> QED
    BY <2>1
<1>11. /\ chunks \in Seq(Frame)
       /\ \A i \in DOMAIN chunks : /\ ~Final(chunks[i]) /\ chunks[i].type = "chunk" /\ chunks[i].job = j
                                   /\ chunks[i].bar \in Nat /\ chunks[i].bar <= last
                                   /\ chunks[i].bar >= j.from
       /\ j.tf = "M1" => \A b \in Nat : (j.from <= b /\ b <= last) =>
                 \E i \in DOMAIN chunks : chunks[i].bar = b /\ i = b + 1 - j.from
       /\ \A i \in DOMAIN chunks : j.tf = "M1" /\ i \in Nat /\ chunks[i].bar = j.from + i - 1
  BY <1>2, <1>5, <1>6, <1>7, <1>9
<1> QED
  BY <1>1, <1>7, <1>8, <1>10, <1>11 DEF chunks, n

\* The oldest request is answered: with chunks and the end, or with an error.
Answered(s, r, e) ==
  LET j == Head(requests[s])
  IN /\ r \in Seq(Frame) /\ e \in Frame /\ Final(e) /\ e.job = j
     /\ \A i \in DOMAIN r : /\ ~Final(r[i]) /\ r[i].type = "chunk" /\ r[i].job = j /\ j.tf = "M1"
                            /\ r[i].bar = j.from + i - 1 /\ r[i].bar >= j.from /\ r[i].bar <= j.to
     /\ \A m \in ToSet(r) : m.type = "chunk" /\ m.bar < clock
     /\ JobsIn(r) \subseteq {j}
     /\ (e.type = "end" /\ j.tf = "M1") =>
          \A b \in Nat : (j.from <= b /\ b <= j.to /\ b < clock) => \E i \in DOMAIN r : r[i].bar = b
     /\ e.type # "end" => r = <<>>
     /\ IF e.type = "failed" /\ ~j.manual THEN excused' = [excused EXCEPT ![j.sym] = @ \cup Bars(j)]
                                            ELSE excused' = excused
     /\ toServer' = [toServer EXCEPT ![s] = Append(toServer[s] \o r, e)]
     /\ requests' = [requests EXCEPT ![s] = Tail(requests[s])]

LEMMA AnswerMakes ==
  ASSUME Types, Numbered, NEW s \in Sessions, Answer(s) \/ AnswerFailure(s)
  PROVE  \E r, e : Answered(s, r, e)
<1> DEFINE j == Head(requests[s])
           last == IF j.to < clock THEN j.to ELSE clock - 1
           chunks == Chunks(j, last)
           end == [type |-> "end", job |-> j]
<1>1. requests[s] # <<>> /\ s \in DOMAIN requests /\ s \in DOMAIN toServer /\ requests[s] \in Seq(Job)
  BY DEF Types, Answer, AnswerFailure
<1>2. j \in Job /\ j \in ToSet(requests[s])
  BY <1>1, TailSet
<1>3. j.from \in Nat /\ j.to \in Nat /\ clock \in Nat \ {0}
  BY <1>2, JobFields DEF Types
<1>4. last \in Nat /\ last < clock /\ last <= j.to
      /\ \A b \in Nat : (b <= j.to /\ b < clock) => b <= last
  BY <1>3
<1>5. CASE Answer(s)
  <2>1. /\ toServer' = [toServer EXCEPT ![s] = Append(toServer[s] \o chunks, end)]
        /\ requests' = [requests EXCEPT ![s] = Tail(requests[s])]
        /\ UNCHANGED excused
    <3> HIDE DEF last
    <3>1. toServer' = [toServer EXCEPT ![s] = Append(toServer[s] \o chunks, end)]
      BY <1>1, <1>5 DEF Answer, last, Chunks
    <3> QED
      BY <1>1, <1>5, <3>1 DEF Answer, history
  <2> HIDE DEF last, j
  <2>2. /\ chunks \in Seq(Frame)
        /\ \A i \in DOMAIN chunks : /\ ~Final(chunks[i]) /\ chunks[i].type = "chunk" /\ chunks[i].job = j
                                    /\ chunks[i].bar \in Nat /\ chunks[i].bar <= last
                                    /\ chunks[i].bar >= j.from
        /\ JobsIn(chunks) \subseteq {j}
        /\ \A m \in ToSet(chunks) : m.type = "chunk" /\ m.bar < clock
        /\ j.tf = "M1" => \A b \in Nat : (j.from <= b /\ b <= last) =>
             \E i \in DOMAIN chunks : chunks[i].bar = b /\ i = b + 1 - j.from
        /\ \A i \in DOMAIN chunks : j.tf = "M1" /\ i \in Nat /\ chunks[i].bar = j.from + i - 1
    <3>1. clock \in Nat /\ j \in Job /\ last \in Nat /\ last < clock
      BY <1>2, <1>3, <1>4
    <3> QED
      BY <3>1, ChunksOf
  <2>3. end \in Frame /\ end.type = "end" /\ end.job = j /\ Final(end)
    BY <1>2 DEF Frame, Final
  <2> HIDE DEF chunks, end
  <2>4. \A i \in DOMAIN chunks : /\ ~Final(chunks[i]) /\ chunks[i].type = "chunk" /\ chunks[i].job = j /\ j.tf = "M1"
                                 /\ chunks[i].bar = j.from + i - 1 /\ chunks[i].bar >= j.from /\ chunks[i].bar <= j.to
    BY <1>3, <1>4, <2>2
  <2>5. j.tf = "M1" => \A b \in Nat : (j.from <= b /\ b <= j.to /\ b < clock) => \E i \in DOMAIN chunks : chunks[i].bar = b
    BY <1>4, <2>2
  <2>6. Answered(s, chunks, end)
    BY <2>1, <2>2, <2>3, <2>4, <2>5 DEF Answered, j
  <2> QED
    BY <2>6
<1>6. CASE AnswerFailure(s)
  <2>0. PICK type \in {"failed", "full", "unhandled"} :
          /\ toServer' = [toServer EXCEPT ![s] = Append(@, [type |-> type, job |-> j])]
          /\ excused' = IF type = "failed" /\ ~j.manual THEN [excused EXCEPT ![j.sym] = @ \cup Bars(j)]
                        ELSE excused
    BY <1>6 DEF AnswerFailure
  <2> DEFINE failed == [type |-> type, job |-> j]
  <2>1. /\ toServer' = [toServer EXCEPT ![s] = Append(toServer[s], failed)]
        /\ requests' = [requests EXCEPT ![s] = Tail(requests[s])]
        /\ IF type = "failed" /\ ~j.manual THEN excused' = [excused EXCEPT ![j.sym] = @ \cup Bars(j)]
                                             ELSE excused' = excused
    BY <1>1, <1>6, <2>0 DEF AnswerFailure
  <2>2. failed \in Frame /\ failed.type = type /\ failed.type # "end" /\ failed.job = j /\ Final(failed)
    BY <1>2 DEF Frame, Final
  <2>3. toServer[s] \o <<>> = toServer[s] /\ <<>> \in Seq(Frame) /\ DOMAIN <<>> = {}
    BY DEF Types
  <2>4. JobsIn(<<>>) \subseteq {j} /\ ToSet(<<>>) = {}
    BY DEF JobsIn, ToSet
  <2> HIDE DEF failed
  <2>5. Answered(s, <<>>, failed)
    <3>1. toServer' = [toServer EXCEPT ![s] = Append(toServer[s] \o <<>>, failed)]
      BY <2>1, <2>3
    <3> QED
      BY <2>1, <2>2, <2>3, <2>4, <3>1 DEF Answered
  <2> QED
    BY <2>5
<1> QED
  BY <1>5, <1>6

LEMMA AnswerSeen ==
  ASSUME LoadInv, NEW s \in Sessions, Answer(s) \/ AnswerFailure(s)
  PROVE  LoadInv' /\ NoNewJobs
<1> DEFINE j == Head(requests[s])
           q == toServer[s]
<1>1. /\ UNCHANGED <<case, clock, known, stored, wrong, stage, alive, sessions, asked, subscribed, tries, queue>>
      /\ UNCHANGED <<inflight, sender, held, seq, forced, listens, connectedAt, gaveUp, confused, given>>
      /\ requests[s] # <<>> /\ alive[s]
  BY DEF Answer, AnswerFailure, database, session, jobs, numbers, history
<1>2. Types /\ Numbered /\ Dated /\ Seen(s)
  BY DEF LoadInv
<1>3. PICK r, e : Answered(s, r, e)
  BY <1>2, AnswerMakes
<1>4. /\ r \in Seq(Frame) /\ e \in Frame /\ Final(e) /\ e.job = j
      /\ \A i \in DOMAIN r : ~Final(r[i])
      /\ \A m \in ToSet(r) : m.bar < clock
      /\ JobsIn(r) \subseteq {j}
      /\ toServer' = [toServer EXCEPT ![s] = Append(q \o r, e)]
      /\ requests' = [requests EXCEPT ![s] = Tail(requests[s])]
      /\ \/ UNCHANGED excused
         \/ excused' = [excused EXCEPT ![j.sym] = @ \cup Bars(j)]
  BY <1>3 DEF Answered
<1>5. /\ j \in Job /\ Tail(requests[s]) \in Seq(Job) /\ j \in ToSet(requests[s])
      /\ ToSet(requests[s]) = ToSet(Tail(requests[s])) \cup {j}
      /\ IsInjective(requests[s]) => IsInjective(Tail(requests[s])) /\ j \notin ToSet(Tail(requests[s]))
  <2>1. requests[s] \in Seq(Job)
    BY <1>2 DEF Types
  <2> QED
    BY <1>1, <2>1, TailSet
<1>6. q \in Seq(Frame) /\ (Awaited(s) => OneFinal(q) /\ j \notin Finals(q))
  BY <1>2, <1>5 DEF Types, Awaited
<1> HIDE DEF j, q
<1> DEFINE t == q \o r
           p == Append(t, e)
<1>7. /\ p \in Seq(Frame) /\ Finals(p) = Finals(q) \cup {j} /\ (Awaited(s) => OneFinal(p))
      /\ JobsIn(p) \subseteq JobsIn(q) \cup {j} /\ ToSet(p) = ToSet(q) \cup ToSet(r) \cup {e}
  <2>1. /\ t \in Seq(Frame) /\ JobsIn(t) = JobsIn(q) \cup JobsIn(r)
        /\ Finals(t) = Finals(q) /\ (OneFinal(q) => OneFinal(t)) /\ ToSet(t) = ToSet(q) \cup ToSet(r)
    BY <1>4, <1>6, ConcatQuiet, ConcatSet
  <2> HIDE DEF t
  <2>2. /\ p \in Seq(Frame) /\ JobsIn(p) = JobsIn(t) \cup {j} /\ Finals(p) = Finals(t) \cup {j}
        /\ (OneFinal(t) /\ j \notin Finals(t) => OneFinal(p))
    BY <1>4, <1>6, <2>1, AppendFinal
  <2>3. ToSet(p) = ToSet(t) \cup {e}
    <3>1. t \in Seq(Frame) /\ e \in Frame
      BY <1>4, <2>1
    <3> QED
      BY <3>1, AppendSet
  <2> QED
    BY <1>4, <1>6, <2>1, <2>2, <2>3
<1> HIDE DEF p, t
<1>8. /\ toServer'[s] = p /\ requests'[s] = Tail(requests[s])
      /\ \A i \in Sessions \ {s} : UNCHANGED <<toServer[i], requests[i]>>
  BY <1>2, <1>4 DEF Types, p, t
<1>9. Types'
  <2>1. toServer' \in [Sessions -> Seq(Frame)] /\ requests' \in [Sessions -> Seq(Job)]
    <3>1. toServer \in [Sessions -> Seq(Frame)] /\ requests \in [Sessions -> Seq(Job)]
      BY <1>2 DEF Types
    <3> QED
      BY <1>4, <1>5, <1>7, <3>1 DEF p, t
  <2>2. excused' \in [Symbols -> SUBSET Nat]
    <3>1. excused \in [Symbols -> SUBSET Nat] /\ j.sym \in Symbols /\ Bars(j) \subseteq Nat
      BY <1>2, <1>5, JobFields DEF Types, Bars
    <3> QED
      BY <1>4, <3>1
  <2> QED
    BY <1>1, <1>2, <2>1, <2>2 DEF Types, Pending
<1>10. \A i \in Sessions : AllJobs(i)' \subseteq AllJobs(i)
  <2>1. AllJobs(s)' \subseteq AllJobs(s)
    BY <1>1, <1>5, <1>7, <1>8 DEF AllJobs, Pending, Hand, q
  <2> QED
    BY <1>1, <1>8, <2>1, SameJobs
<1>11. Numbered'
  BY <1>1, <1>2, <1>9, <1>10, StillNumbered DEF Types, MoreGiven
<1>12. Dated'
  <2>1. SUFFICES ASSUME NEW i \in Sessions, NEW m \in ToSet(toServer'[i]), m.type \in {"chunk", "live"}
                 PROVE  m.bar < clock
    BY <1>1 DEF Dated
  <2>2. CASE m \in ToSet(toServer[i])
    BY <1>2, <2>1, <2>2 DEF Dated
  <2>3. CASE m \notin ToSet(toServer[i])
    <3>1. i = s /\ m \in ToSet(r) \cup {e}
      BY <1>7, <1>8, <2>1, <2>3 DEF q
    <3> QED
      BY <1>4, <2>1, <3>1 DEF Final
  <2> QED
    BY <2>2, <2>3
<1>13. Token(s)' = Token(s)
  BY <1>5, <1>7, <1>8 DEF Token, q
<1>14. Seen(s)'
  <2>1. Tidy(s)' /\ (Placed(s) => Placed(s)') /\ (Driven(s) => Driven(s)')
    BY <1>1, <1>2 DEF Seen, Tidy, Placed, Hand, Pending, Driven
  <2>2. ASSUME Awaited(s) PROVE Awaited(s)'
    <3>1. ToSet(requests'[s]) \cap Finals(toServer'[s]) = {}
      BY <1>5, <1>7, <1>8, <2>2 DEF Awaited, q
    <3> QED
      BY <1>1, <1>5, <1>7, <1>8, <1>13, <2>2, <3>1 DEF Awaited, Pending
  <2> QED
    BY <1>1, <1>2, <2>1, <2>2 DEF Seen
<1>15. ASSUME NEW i \in Sessions \ {s} PROVE Seen(i)'
  <2>1. Seen(i)
    BY DEF LoadInv
  <2> QED
    BY <1>1, <1>8, <2>1, Elsewhere
<1> QED
  BY <1>9, <1>10, <1>11, <1>12, <1>14, <1>15 DEF LoadInv, NoNewJobs

\* The live bars of a minute.
Lives(s) == [k \in 1..Cardinality(listens[s]) |-> [type |-> "live", sym |-> SetToSeq(listens[s])[k], bar |-> clock]]

LEMMA LivesOf ==
  ASSUME Types, NEW s \in Sessions
  PROVE  /\ Lives(s) \in Seq(Frame)
         /\ \A i \in DOMAIN Lives(s) : /\ ~Final(Lives(s)[i]) /\ Lives(s)[i].type = "live" /\ Lives(s)[i].bar = clock
                                       /\ Lives(s)[i].sym \in listens[s]
         /\ \A m \in ToSet(Lives(s)) : m.type = "live" /\ m.bar = clock
         /\ JobsIn(Lives(s)) = {}
         /\ \A y \in listens[s] : \E i \in DOMAIN Lives(s) : Lives(s)[i].sym = y
<1> DEFINE order == SetToSeq(listens[s])
           n == Cardinality(listens[s])
<1>1. clock \in Nat /\ listens[s] \subseteq Symbols /\ IsFiniteSet(listens[s])
  BY JobsTyped DEF Types
<1>2. order \in Seq(listens[s]) /\ Len(order) = n /\ n \in Nat /\ ToSet(order) = listens[s]
  BY <1>1, Listed
<1>3. \A k \in 1..n : order[k] \in listens[s]
  BY <1>2
<1>4. \A y \in listens[s] : \E k \in 1..n : order[k] = y
  BY <1>2 DEF ToSet
<1> HIDE DEF order, n
<1>5. Lives(s) = [k \in 1..n |-> [type |-> "live", sym |-> order[k], bar |-> clock]]
  BY DEF Lives, order, n
<1>6. Lives(s) \in [1..n -> Frame]
  <2>1. \A k \in 1..n : [type |-> "live", sym |-> order[k], bar |-> clock] \in Frame
    BY <1>1, <1>3 DEF Frame
  <2> QED
    BY <1>5, <2>1
<1>7. /\ DOMAIN Lives(s) = 1..n
      /\ \A k \in 1..n : Lives(s)[k].type = "live" /\ Lives(s)[k].bar = clock /\ Lives(s)[k].sym = order[k]
  BY <1>5
<1>8. Lives(s) \in Seq(Frame)
  BY <1>2, <1>6
<1>9. \A k \in 1..n : ~Final(Lives(s)[k])
  BY <1>7 DEF Final
<1>10. JobsIn(Lives(s)) = {}
  BY <1>7 DEF JobsIn
<1>11. \A m \in ToSet(Lives(s)) : m.type = "live" /\ m.bar = clock
  BY <1>7 DEF ToSet
<1>12. \A y \in listens[s] : \E i \in DOMAIN Lives(s) : Lives(s)[i].sym = y
  BY <1>4, <1>7
<1> QED
  BY <1>3, <1>7, <1>8, <1>9, <1>10, <1>11, <1>12

LEMMA TickSeen ==
  ASSUME LoadInv, Tick
  PROVE  LoadInv' /\ NoNewJobs
<1>1. /\ UNCHANGED <<case, known, stored, wrong, stage, alive, sessions, asked, subscribed, tries, queue, inflight>>
      /\ UNCHANGED <<sender, held, seq, forced, requests, listens, connectedAt, gaveUp, confused, given, excused>>
      /\ clock' = clock + 1
      /\ toServer' = [s \in Sessions |-> IF alive[s] THEN toServer[s] \o Lives(s) ELSE toServer[s]]
  BY DEF Tick, database, session, jobs, numbers, history, Lives
<1>2. Types /\ Numbered /\ Dated /\ clock \in Nat
  BY DEF LoadInv, Types
<1>3. ASSUME NEW s \in Sessions
      PROVE  /\ toServer'[s] \in Seq(Frame) /\ JobsIn(toServer'[s]) = JobsIn(toServer[s])
             /\ Finals(toServer'[s]) = Finals(toServer[s])
             /\ OneFinal(toServer[s]) => OneFinal(toServer'[s])
             /\ ToSet(toServer'[s]) \subseteq ToSet(toServer[s]) \cup ToSet(Lives(s))
  <2>1. toServer[s] \in Seq(Frame)
    BY <1>2 DEF Types
  <2>2. CASE alive[s]
    <3>1. toServer'[s] = toServer[s] \o Lives(s)
      BY <1>1, <2>2
    <3>2. Lives(s) \in Seq(Frame) /\ JobsIn(Lives(s)) = {} /\ \A i \in DOMAIN Lives(s) : ~Final(Lives(s)[i])
      BY <1>2, LivesOf
    <3>3. /\ toServer[s] \o Lives(s) \in Seq(Frame) /\ JobsIn(toServer[s] \o Lives(s)) = JobsIn(toServer[s]) \cup {}
          /\ Finals(toServer[s] \o Lives(s)) = Finals(toServer[s])
          /\ OneFinal(toServer[s]) => OneFinal(toServer[s] \o Lives(s))
      BY <2>1, <3>2, ConcatQuiet
    <3>4. ToSet(toServer[s] \o Lives(s)) = ToSet(toServer[s]) \cup ToSet(Lives(s))
      BY <2>1, <3>2, ConcatSet
    <3> QED
      BY <3>1, <3>3, <3>4
  <2>3. CASE ~alive[s]
    <3>1. toServer'[s] = toServer[s]
      BY <1>1, <2>3
    <3> QED
      BY <2>1, <3>1
  <2> QED
    BY <2>2, <2>3
<1>4. Types'
  <2>1. toServer' \in [Sessions -> Seq(Frame)]
    <3>1. \A s \in Sessions : toServer'[s] \in Seq(Frame)
      BY <1>3
    <3>2. toServer' = [s \in Sessions |-> toServer'[s]]
      BY <1>1
    <3> QED
      BY <3>1, <3>2
  <2>2. \A y \in Symbols : \A b \in stored'[y] : b < clock'
    BY <1>1, <1>2 DEF Types
  <2> QED
    BY <1>1, <1>2, <2>1, <2>2 DEF Types, Pending
<1>5. \A s \in Sessions : AllJobs(s)' = AllJobs(s)
  BY <1>1, <1>3 DEF AllJobs, Pending, Hand
<1>6. Numbered'
  BY <1>1, <1>2, <1>4, <1>5, StillNumbered DEF Types, MoreGiven
<1>7. Dated'
  <2>1. SUFFICES ASSUME NEW s \in Sessions, NEW m \in ToSet(toServer'[s]), m.type \in {"chunk", "live"}
                 PROVE  m.bar < clock'
    BY DEF Dated
  <2>2. CASE m \in ToSet(toServer[s])
    <3>1. m \in Frame
      <4>1. toServer[s] \in Seq(Frame)
        BY <1>2 DEF Types
      <4> QED
        BY <2>2, <4>1 DEF ToSet
    <3>2. m.bar < clock /\ m.bar \in Nat
      BY <1>2, <2>1, <2>2, <3>1, FrameFields DEF Dated
    <3> QED
      BY <1>1, <1>2, <3>2
  <2>3. CASE m \in ToSet(Lives(s))
    BY <1>1, <1>2, <2>3, LivesOf
  <2> QED
    BY <1>3, <2>2, <2>3
<1>8. ASSUME NEW s \in Sessions PROVE Seen(s)'
  <2>1. Seen(s)
    BY DEF LoadInv
  <2>2. Tidy(s)' /\ (Placed(s) => Placed(s)') /\ (Driven(s) => Driven(s)')
    BY <1>1, <2>1 DEF Seen, Tidy, Placed, Hand, Pending, Driven
  <2>3. Token(s)' = Token(s)
    BY <1>1, <1>3 DEF Token
  <2>4. Awaited(s) => Awaited(s)'
    BY <1>1, <1>3, <2>3 DEF Awaited, Pending
  <2> QED
    BY <1>1, <2>1, <2>2, <2>4 DEF Seen
<1> QED
  BY <1>4, <1>5, <1>6, <1>7, <1>8 DEF LoadInv, NoNewJobs

----------------------------------------------------------------------------
\* The server's part of a step.

\* What charts add to a step: a step of the server, or one that leaves the server alone.
LEMMA ServerSteps ==
  ASSUME [ChartsNext]_<<vars, chartVars>>
  PROVE  Next \/ UNCHANGED ingest
<1>1. UNCHANGED vars => UNCHANGED ingest
  BY DEF vars, ingest
<1>2. CASE Loading
  BY <1>2 DEF Next
<1>3. CASE \E s \in Sessions : LiveBar(s)
  BY <1>3 DEF LiveBar, Next
<1>4. CASE RestartIngest
  BY <1>4 DEF RestartIngest, Next
<1>5. CASE \E u \in updates : UpdateReads(u) \/ UpdateWrites(u) \/ UpdateFails(u)
  BY <1>1, <1>5 DEF UpdateReads, UpdateWrites, UpdateFails
<1>6. CASE \E r \in Asking :
             \/ Query(r) \/ Probe(r) \/ Lock(r) \/ Refresh(r) \/ Reread(r) \/ Unlock(r) \/ Poll(r)
             \/ Latest(r) \/ FormingRow(r)
  BY <1>1, <1>6 DEF Query, Probe, Lock, Refresh, Reread, Unlock, Poll, Latest, FormingRow
<1>7. CASE \E w \in Windows : LockExpires(w)
  BY <1>7 DEF LockExpires
<1>8. CASE UNCHANGED <<vars, chartVars>>
  BY <1>1, <1>8
<1> QED
  BY <1>2, <1>3, <1>4, <1>5, <1>6, <1>7, <1>8 DEF ChartsNext

LEMMA LoadInit ==
  ASSUME Init
  PROVE  LoadInv
<1>1. /\ case \in Cases /\ case.known \subseteq Symbols /\ clock = Start /\ Start \in Nat \ {0}
      /\ known = case.known
      /\ stored = [y \in Symbols |-> IF y \in case.known THEN FirstBars[y] ELSE {}]
      /\ FirstBars \in [Symbols -> SUBSET (0..(Start - 1))]
  BY ConstantsAssumption DEF Init
<1>2. /\ stored \in [Symbols -> SUBSET Nat] /\ \A y \in Symbols : \A b \in stored[y] : b < clock
  <2>1. \A y \in Symbols : FirstBars[y] \subseteq 0..(Start - 1)
    BY <1>1
  <2> QED
    BY <1>1, <2>1
<1>3. wrong \in [Symbols -> SUBSET Nat] /\ \A y \in Symbols : wrong[y] \subseteq stored[y]
  <2>1. wrong = [y \in Symbols |-> {}] \/ wrong = stored
    BY DEF Init
  <2> QED
    BY <1>2, <2>1
<1>4. excused \in [Symbols -> SUBSET Nat]
  <2>1. \A y \in Symbols : Holes(stored[y]) \subseteq Nat
    BY DEF Holes
  <2> QED
    BY <2>1 DEF Init
<1>5. \A s \in Sessions : /\ Pending(s) = {} /\ queue[s] = <<>> /\ inflight[s] = {} /\ held[s] = NoJob
                          /\ sender[s] = "none" /\ stage[s] = "new" /\ toServer[s] = <<>> /\ requests[s] = <<>>
                          /\ alive[s] = FALSE
  BY DEF Init, Pending, NoJobs
<1>6. Types
  <2>1. /\ DOMAIN stage = Sessions /\ alive \in [Sessions -> BOOLEAN] /\ sessions = {} /\ asked \in [Sessions -> SUBSET Symbols]
        /\ DOMAIN tries = Sessions /\ queue \in [Sessions -> Seq(Job)] /\ inflight \in [Sessions -> SUBSET Job]
        /\ DOMAIN sender = Sessions /\ held \in [Sessions -> Job \cup {NoJob}] /\ forced = {} /\ seq = 1 /\ given = <<>>
        /\ toServer \in [Sessions -> Seq(Frame)] /\ requests \in [Sessions -> Seq(Job)]
        /\ listens \in [Sessions -> SUBSET Symbols] /\ connectedAt \in [Sessions -> Nat]
    BY DEF Init
  <2> QED
    BY <1>1, <1>2, <1>3, <1>4, <1>5, <2>1 DEF Types
<1>7. ASSUME NEW s \in Sessions PROVE Seen(s) /\ AllJobs(s) = {} /\ ToSet(toServer[s]) = {}
  <2>1. /\ ToSet(queue[s]) = {} /\ IsInjective(queue[s]) /\ Hand(s) = {}
        /\ ToSet(requests[s]) = {} /\ IsInjective(requests[s])
        /\ Finals(toServer[s]) = {} /\ OneFinal(toServer[s]) /\ JobsIn(toServer[s]) = {} /\ ToSet(toServer[s]) = {}
    BY <1>5 DEF ToSet, IsInjective, Hand, Finals, OneFinal, JobsIn
  <2>2. Tidy(s) /\ Placed(s) /\ Awaited(s) /\ Driven(s)
    BY <1>5, <2>1 DEF Tidy, Placed, Awaited, Driven
  <2> QED
    BY <1>5, <2>1, <2>2 DEF Seen, AllJobs
<1> QED
  BY <1>6, <1>7 DEF LoadInv, Numbered, Dated

LEMMA LoadStep ==
  ASSUME LoadInv, Next \/ UNCHANGED ingest
  PROVE  LoadInv'
<1>1. CASE UNCHANGED ingest
  <2>1. /\ UNCHANGED <<case, clock, known, stored, wrong, stage, alive, sessions, asked, subscribed, tries, queue>>
        /\ UNCHANGED <<inflight, sender, held, seq, forced, toServer, requests, listens, connectedAt, gaveUp, confused, given, excused>>
    BY <1>1 DEF ingest, database, session, jobs, numbers, bridge, history
  <2>2. Types'
    BY <2>1 DEF LoadInv, Types, Pending
  <2>3. \A r \in Sessions : Seen(r)' /\ AllJobs(r)' = AllJobs(r)
    BY <2>1, Elsewhere, SameJobs DEF LoadInv
  <2>4. Numbered' /\ Dated'
    BY <2>1, <2>2, <2>3, StillBounded
  <2> QED
    BY <2>2, <2>3, <2>4 DEF LoadInv
<1>2. CASE \E s \in Sessions :
             \/ Connect(s) \/ Hello(s) \/ Setup(s) \/ SenderTakes(s) \/ SenderWrites(s)
             \/ Answer(s) \/ AnswerFailure(s) \/ Cut(s) \/ EndSession(s)
             \/ ServeChunk(s) \/ ServeEnd(s) \/ ServeFailed(s) \/ ServeFull(s) \/ ServeUnhandled(s)
  BY <1>2, ConnectSeen, HelloSeen, SetupSeen, SenderTakesSeen, SenderWritesSeen, AnswerSeen, CutSeen,
     EndSessionSeen, ServeChunkSeen, ServeOverSeen, ServeFullSeen, ServeUnhandledSeen
<1>3. CASE \/ \E y \in Symbols : AddSymbol(y) \/ HotAdd(y)
           \/ \E want \in case.wants, tf \in {"D1", "M1"}, up \in BOOLEAN : RequestHistory(want, tf, up)
  BY <1>3, AddSymbolSeen, HotAddSeen, RequestHistorySeen
<1>4. CASE Tick
  BY <1>4, TickSeen
<1>5. CASE \E s \in Sessions : ServeLive(s)
  BY <1>5, ServeLiveSeen
<1>6. CASE Restart
  BY <1>6, RestartSeen
<1> QED
  BY <1>1, <1>2, <1>3, <1>4, <1>5, <1>6 DEF Next, Loading

\* mt5_ingest.py, the _bootstrap handlers: whatever a bridge answers, refuses or leaves out, a job of
\* a session is in one place and awaited by the server as long as the bridge owes its end, unless the
\* session took the answer to another request with the same number for one of its jobs, or met an
\* error that is not handled, after which it awaits a job for ever.
THEOREM JobsAreKept == ChartsSpec => []LoadInv
<1>1. ChartsInit => LoadInv
  BY LoadInit DEF ChartsInit
<1>2. LoadInv /\ [ChartsNext]_<<vars, chartVars>> => LoadInv'
  BY ServerSteps, LoadStep
<1> QED
  BY <1>1, <1>2, PTL DEF ChartsSpec

\* A job is in one place: the queue, the hands of the sender, or in flight.
LEMMA OnePlace ==
  ASSUME NEW s \in Sessions, Types, Placed(s), NEW j \in Pending(s)
  PROVE  Cardinality({k \in DOMAIN queue[s] : queue[s][k] = j})
           + (IF held[s] = j THEN 1 ELSE 0) + (IF j \in inflight[s] THEN 1 ELSE 0) = 1
<1> DEFINE at == {k \in DOMAIN queue[s] : queue[s][k] = j}
<1>1. j # NoJob
  BY ConstantsAssumption DEF Types
<1>2. CASE j \in ToSet(queue[s])
  <2>1. PICK k \in DOMAIN queue[s] : queue[s][k] = j
    BY <1>2 DEF ToSet
  <2>2. at = {k}
    BY <2>1 DEF Placed, IsInjective
  <2>3. Cardinality(at) = 1
    BY <2>2, FS_Singleton
  <2>4. held[s] # j /\ j \notin inflight[s]
    BY <1>1, <1>2 DEF Placed, Hand
  <2> QED
    BY <2>3, <2>4
<1>3. CASE j \notin ToSet(queue[s])
  <2>1. at = {}
    BY <1>3 DEF ToSet
  <2>2. Cardinality(at) = 0
    BY <2>1, FS_EmptySet
  <2>3. (held[s] = j) # (j \in inflight[s])
    BY <1>1, <1>3 DEF Placed, Hand
  <2> HIDE DEF at
  <2> QED
    BY <2>2, <2>3 DEF at
<1> QED
  BY <1>2, <1>3

\* mt5_ingest.py: no session hangs and no job is lost or sent twice: a job that is pending is in
\* one place, and a session with nothing left to wait for (no task that sends, no frame unread,
\* no request unanswered) is subscribed.  Left out are sessions of which a job was dropped as late,
\* met an error that is not handled (:812-815), or was ended by the answer to another request.
THEOREM NobodyHangs == ChartsSpec => []NobodyWaits
<1>1. LoadInv => NobodyWaits
  <2>1. SUFFICES ASSUME LoadInv PROVE NobodyWaits
    OBVIOUS
  <2>2. JobAccounted
    BY <2>1, OnePlace DEF LoadInv, Seen, JobAccounted
  <2>3. ASSUME NEW s \in Sessions, stage[s] = "loop", alive[s], sender[s] = "none",
               toServer[s] = <<>>, requests[s] = <<>>
        PROVE  s \in subscribed \/ s \in gaveUp \/ s \in confused
    <3> SUFFICES ASSUME s \notin confused, s \notin gaveUp PROVE s \in subscribed
      OBVIOUS
    <3>1. Awaited(s) /\ Driven(s)
      BY <2>1 DEF LoadInv, Seen
    <3>2. Token(s) = {}
      BY <2>3 DEF Token, ToSet, Finals
    <3>3. inflight[s] = {}
      BY <2>3, <3>1, <3>2 DEF Awaited
    <3> QED
      BY <2>3, <3>1, <3>3 DEF Driven
  <2> QED
    BY <2>2, <2>3 DEF NobodyWaits
<1> QED
  BY <1>1, JobsAreKept, PTL

\* The places of what is added to the frames on their way.
LEMMA ThreeParts ==
  ASSUME NEW q \in Seq(Frame), NEW r \in Seq(Frame), NEW e \in Frame
  PROVE  LET p == Append(q \o r, e)
         IN /\ p \in Seq(Frame) /\ Len(q) \in Nat /\ Len(r) \in Nat /\ Len(p) = Len(q) + Len(r) + 1
            /\ DOMAIN q = 1..Len(q) /\ DOMAIN r = 1..Len(r) /\ DOMAIN p = 1..(Len(q) + Len(r) + 1)
            /\ \A i \in 1..Len(q) : p[i] = q[i]
            /\ \A i \in 1..Len(r) : p[Len(q) + i] = r[i]
            /\ p[Len(q) + Len(r) + 1] = e
            /\ \A i \in DOMAIN p :
                 \/ i \in DOMAIN q /\ p[i] = q[i]
                 \/ i - Len(q) \in DOMAIN r /\ p[i] = r[i - Len(q)]
                 \/ i = Len(q) + Len(r) + 1
<1> DEFINE t == q \o r
<1>1. /\ t \in Seq(Frame) /\ Len(q) \in Nat /\ Len(r) \in Nat /\ Len(t) = Len(q) + Len(r)
      /\ DOMAIN q = 1..Len(q) /\ DOMAIN r = 1..Len(r)
      /\ \A i \in 1..(Len(q) + Len(r)) : t[i] = IF i <= Len(q) THEN q[i] ELSE r[i - Len(q)]
  OBVIOUS
<1> HIDE DEF t
<1> DEFINE p == Append(t, e)
<1>2. /\ p \in Seq(Frame) /\ DOMAIN p = 1..(Len(q) + Len(r) + 1) /\ p[Len(q) + Len(r) + 1] = e
      /\ \A i \in 1..(Len(q) + Len(r)) : p[i] = t[i]
      /\ Len(p) = Len(q) + Len(r) + 1
  BY <1>1
<1> HIDE DEF p
<1>3. \A i \in 1..Len(q) : p[i] = q[i]
  BY <1>1, <1>2
<1>4. ASSUME NEW i \in 1..Len(r) PROVE p[Len(q) + i] = r[i]
  <2>1. Len(q) + i \in 1..(Len(q) + Len(r)) /\ ~(Len(q) + i <= Len(q)) /\ Len(q) + i - Len(q) = i
    BY <1>1
  <2> QED
    BY <1>1, <1>2, <2>1
<1>5. ASSUME NEW i \in DOMAIN p
      PROVE  \/ i \in DOMAIN q /\ p[i] = q[i]
             \/ i - Len(q) \in DOMAIN r /\ p[i] = r[i - Len(q)]
             \/ i = Len(q) + Len(r) + 1
  <2>1. CASE i <= Len(q)
    BY <1>1, <1>2, <1>3, <2>1
  <2>2. CASE i > Len(q) /\ i <= Len(q) + Len(r)
    <3>1. i \in 1..(Len(q) + Len(r)) /\ i - Len(q) \in 1..Len(r) /\ ~(i <= Len(q))
      BY <1>1, <1>2, <2>2
    <3> QED
      BY <1>1, <1>2, <3>1
  <2>3. CASE i = Len(q) + Len(r) + 1
    BY <2>3
  <2> QED
    BY <1>1, <1>2, <2>1, <2>2, <2>3
<1> QED
  BY <1>1, <1>2, <1>3, <1>4, <1>5 DEF p, t

\* The same without the last.
LEMMA TwoParts ==
  ASSUME NEW q \in Seq(Frame), NEW r \in Seq(Frame)
  PROVE  /\ q \o r \in Seq(Frame) /\ Len(q) \in Nat /\ Len(r) \in Nat /\ Len(q \o r) = Len(q) + Len(r)
         /\ DOMAIN q = 1..Len(q) /\ DOMAIN r = 1..Len(r) /\ DOMAIN (q \o r) = 1..(Len(q) + Len(r))
         /\ \A i \in 1..Len(q) : (q \o r)[i] = q[i]
         /\ \A i \in 1..Len(r) : (q \o r)[Len(q) + i] = r[i]
         /\ \A i \in DOMAIN (q \o r) :
              \/ i \in DOMAIN q /\ (q \o r)[i] = q[i]
              \/ i - Len(q) \in DOMAIN r /\ (q \o r)[i] = r[i - Len(q)]
<1> DEFINE t == q \o r
<1>1. /\ t \in Seq(Frame) /\ Len(q) \in Nat /\ Len(r) \in Nat /\ Len(t) = Len(q) + Len(r)
      /\ DOMAIN q = 1..Len(q) /\ DOMAIN r = 1..Len(r) /\ DOMAIN t = 1..(Len(q) + Len(r))
      /\ \A i \in 1..(Len(q) + Len(r)) : t[i] = IF i <= Len(q) THEN q[i] ELSE r[i - Len(q)]
  OBVIOUS
<1> HIDE DEF t
<1>2. \A i \in 1..Len(q) : t[i] = q[i]
  BY <1>1
<1>3. ASSUME NEW i \in 1..Len(r) PROVE t[Len(q) + i] = r[i]
  <2>1. Len(q) + i \in 1..(Len(q) + Len(r)) /\ ~(Len(q) + i <= Len(q)) /\ Len(q) + i - Len(q) = i
    BY <1>1
  <2> QED
    BY <1>1, <2>1
<1>4. ASSUME NEW i \in DOMAIN t
      PROVE  \/ i \in DOMAIN q /\ t[i] = q[i]
             \/ i - Len(q) \in DOMAIN r /\ t[i] = r[i - Len(q)]
  <2>1. CASE i <= Len(q)
    BY <1>1, <2>1
  <2>2. CASE ~(i <= Len(q))
    <3>1. i \in 1..(Len(q) + Len(r)) /\ i - Len(q) \in 1..Len(r)
      BY <1>1, <2>2
    <3> QED
      BY <1>1, <2>2, <3>1
  <2> QED
    BY <2>1, <2>2
<1> QED
  BY <1>1, <1>2, <1>3, <1>4 DEF t

----------------------------------------------------------------------------
\* A request that forces an upsert corrects its range.

\* The same request may be on its way to several sessions.
OneNumber == \A r, s \in Sessions : \A j \in AllJobs(r), k \in AllJobs(s) : j.nr = k.nr => j = k

\* The bars of a job's range that differ from the broker's.
Wrong(j) == wrong[j.sym] \cap j.from..j.to

\* A job that is to mend its range, with a number of its own.
Due(j) == j.upsert /\ j.tf = "M1" /\ j \notin spoilt /\ ~Shared(j.id)

\* Before the end of a job that is to mend a range is read, every wrong bar of it has been, as
\* long as no chunk of it failed.
Mending(q, e) ==
  LET j == q[e].job
  IN (q[e].type = "end" /\ Due(j)) =>
       \A b \in Wrong(j) : /\ j.id \in forced
                           /\ \E k \in 1..(e - 1) : q[k].type = "chunk" /\ q[k].job = j /\ q[k].bar = b

Mends(s) ==
  /\ \A e \in DOMAIN toServer[s] : Mending(toServer[s], e)
  /\ \A j \in ToSet(requests[s]) : Due(j) => j.id \in forced \/ Wrong(j) = {}

MendInv ==
  /\ LoadInv /\ OneNumber /\ Mended /\ mended \subseteq Job
  /\ \A s \in Sessions : Mends(s)

\* The mark of a job that still has something to mend stays.
StillForced ==
  \A r \in Sessions : \A j \in AllJobs(r) :
    (Due(j)' /\ j.id \in forced /\ Wrong(j) # {}) => j.id \in forced'

LessWrong == spoilt \subseteq spoilt' /\ MoreGiven /\ \A y \in Symbols : wrong'[y] \subseteq wrong[y]

\* What is due was due before.
LEMMA StillDue ==
  ASSUME LessWrong, NEW j, Due(j)'
  PROVE  Due(j)
BY DEF Due, Shared, LessWrong, MoreGiven

\* A number that nobody else has names one request.
LEMMA OneHolder ==
  ASSUME LoadInv, OneNumber, NEW r \in Sessions, NEW s \in Sessions, NEW j \in AllJobs(r), NEW k \in AllJobs(s),
         j.id = k.id, ~Shared(j.id)
  PROVE  j = k
<1>1. j.nr \in DOMAIN given /\ given[j.nr] = j.id /\ k.nr \in DOMAIN given /\ given[k.nr] = k.id
  BY DEF LoadInv, Numbered
<1>2. j.nr = k.nr
  BY <1>1 DEF Shared
<1> QED
  BY <1>2 DEF OneNumber

\* What a session is to fetch for itself is not to be replaced.
LEMMA OwnJobs ==
  ASSUME LoadInv, NEW s \in Sessions, NEW j \in Pending(s) \cup Hand(s)
  PROVE  ~j.upsert
BY DEF LoadInv, Seen, Tidy, Numbered, AllJobs

LEMMA StillOneNumber ==
  ASSUME OneNumber, \A r \in Sessions : AllJobs(r)' \subseteq AllJobs(r)
  PROVE  OneNumber'
BY DEF OneNumber

LEMMA SmallerWrong ==
  ASSUME LessWrong, NEW j \in Job
  PROVE  Wrong(j)' \subseteq Wrong(j)
BY JobFields DEF LessWrong, Wrong

LEMMA EndsJob ==
  ASSUME Types, NEW s \in Sessions, NEW e \in DOMAIN toServer[s], toServer[s][e].type \in {"chunk", "end", "failed", "full", "unhandled"}
  PROVE  toServer[s][e].job \in Job /\ toServer[s][e].job \in AllJobs(s) /\ toServer[s][e].job \in JobsIn(toServer[s])
<1>1. toServer[s][e] \in Frame
  BY DEF Types
<1>2. toServer[s][e].job \in JobsIn(toServer[s])
  BY DEF JobsIn
<1> QED
  BY <1>1, <1>2, FrameFields DEF AllJobs

\* Frames are added at the end, requests are added or taken.
LEMMA GrownMends ==
  ASSUME Types, NEW s \in Sessions, Mends(s), StillForced, LessWrong,
         DOMAIN toServer[s] \subseteq DOMAIN toServer'[s],
         \A e \in DOMAIN toServer[s] : toServer'[s][e] = toServer[s][e],
         \A e \in DOMAIN toServer'[s] :
           e \in DOMAIN toServer[s] \/ toServer'[s][e].type # "end" \/ Mending(toServer[s], e)',
         \A j \in ToSet(requests'[s]) : j \in ToSet(requests[s]) \/ ~j.upsert \/ j.id \in forced'
  PROVE  Mends(s)'
<1>0. toServer[s] \in Seq(Frame) /\ DOMAIN toServer[s] = 1..Len(toServer[s]) /\ Len(toServer[s]) \in Nat
  BY DEF Types
<1>1. ASSUME NEW e \in DOMAIN toServer[s] PROVE Mending(toServer[s], e)'
  <2>0. PICK j : j = toServer[s][e].job
    OBVIOUS
  <2>1. SUFFICES ASSUME toServer[s][e].type = "end", Due(j)', NEW b \in Wrong(j)'
                 PROVE  /\ j.id \in forced'
                        /\ \E k \in 1..(e - 1) : /\ toServer'[s][k].type = "chunk" /\ toServer'[s][k].job = j
                                                 /\ toServer'[s][k].bar = b
    BY <2>0 DEF Mending, Wrong, Due, Shared
  <2>2. j \in Job /\ j \in AllJobs(s) /\ Due(j)
    BY <2>0, <2>1, EndsJob, StillDue
  <2>3. b \in Wrong(j)
    BY <2>2, SmallerWrong
  <2>4. Mending(toServer[s], e)
    BY DEF Mends
  <2>5. /\ j.id \in forced
        /\ \E k \in 1..(e - 1) : toServer[s][k].type = "chunk" /\ toServer[s][k].job = j /\ toServer[s][k].bar = b
    BY <2>0, <2>1, <2>2, <2>3, <2>4 DEF Mending
  <2>6. j.id \in forced'
    BY <2>1, <2>2, <2>3, <2>5 DEF StillForced
  <2>7. 1..(e - 1) \subseteq DOMAIN toServer[s]
    BY <1>0
  <2> QED
    BY <2>5, <2>6, <2>7
<1>2. \A e \in DOMAIN toServer'[s] : Mending(toServer[s], e)'
  <2>1. \A e \in DOMAIN toServer'[s] : toServer'[s][e].type # "end" => Mending(toServer[s], e)'
    BY DEF Mending
  <2> QED
    BY <1>1, <2>1
<1>3. ASSUME NEW j \in ToSet(requests'[s]), Due(j)' PROVE j.id \in forced' \/ Wrong(j)' = {}
  <2>1. CASE j.id \in forced'
    BY <2>1
  <2>2. CASE j \in ToSet(requests[s])
    <3>1. j \in Job /\ j \in AllJobs(s) /\ Due(j)
      BY <1>3, <2>2, JobsTyped, StillDue DEF AllJobs
    <3>2. j.id \in forced \/ Wrong(j) = {}
      BY <1>3, <2>2, <3>1 DEF Mends
    <3>3. Wrong(j)' \subseteq Wrong(j)
      BY <3>1, SmallerWrong
    <3>4. Wrong(j) # {} => j.id \in forced'
      BY <1>3, <3>1, <3>2 DEF StillForced
    <3> QED
      BY <3>3, <3>4
  <2> QED
    BY <1>3, <2>1, <2>2 DEF Due
<1> QED
  BY <1>2, <1>3 DEF Mends

\* The first frame is read: a chunk of a forced job has been written, or failed.
LEMMA ReadMends ==
  ASSUME Types, NEW s \in Sessions, Mends(s), StillForced, LessWrong, Reads(s), UNCHANGED requests[s],
         LET m == Head(toServer[s])
         IN m.type = "chunk" => m.job \in spoilt' \/ m.job.id \notin forced \/ m.bar \notin wrong'[m.job.sym]
  PROVE  Mends(s)'
<1> DEFINE q == toServer[s]
           p == Tail(q)
<1>1. /\ q \in Seq(Frame) /\ Len(q) \in Nat /\ Len(q) >= 1 /\ DOMAIN q = 1..Len(q) /\ Head(q) = q[1]
      /\ DOMAIN p = 1..(Len(q) - 1) /\ \A i \in 1..(Len(q) - 1) : p[i] = q[i + 1]
      /\ toServer'[s] = p
  <2>1. q \in Seq(Frame) /\ q # <<>> /\ toServer'[s] = p
    BY ReadsOne
  <2> QED
    BY <2>1
<1>2. ASSUME NEW e \in 1..(Len(q) - 1) PROVE Mending(toServer[s], e)'
  <2>10. PICK j : j = q[e + 1].job
    OBVIOUS
  <2>0. p[e] = q[e + 1] /\ e + 1 \in DOMAIN q /\ e \in Nat
    BY <1>1
  <2> HIDE DEF p
  <2>1. SUFFICES ASSUME q[e + 1].type = "end", Due(j)', NEW b \in Wrong(j)'
                 PROVE  /\ j.id \in forced'
                        /\ \E k \in 1..(e - 1) : p[k].type = "chunk" /\ p[k].job = j /\ p[k].bar = b
    BY <1>1, <2>0, <2>10 DEF Mending, Wrong, Due, Shared
  <2>2. j \in Job /\ j \in AllJobs(s) /\ Due(j)
    BY <2>0, <2>1, <2>10, EndsJob, StillDue
  <2>3. b \in Wrong(j)
    BY <2>2, SmallerWrong
  <2>4. Mending(q, e + 1)
    BY <2>0 DEF Mends
  <2>5. j.id \in forced /\ \E k \in 1..(e + 1 - 1) : q[k].type = "chunk" /\ q[k].job = j /\ q[k].bar = b
    BY <2>1, <2>2, <2>3, <2>4, <2>10 DEF Mending
  <2>6. j.id \in forced'
    BY <2>1, <2>2, <2>3, <2>5 DEF StillForced
  <2>7. PICK k \in 1..e : q[k].type = "chunk" /\ q[k].job = j /\ q[k].bar = b
    BY <2>0, <2>5
  <2>8. k # 1
    <3>1. CASE k = 1
      <4>1. j \in spoilt' \/ j.id \notin forced \/ b \notin wrong'[j.sym]
        BY <1>1, <2>7, <3>1
      <4>2. b \in wrong'[j.sym]
        BY <2>1 DEF Wrong
      <4> QED
        BY <2>1, <2>5, <4>1, <4>2 DEF Due
    <3> QED
      BY <3>1
  <2>9. k - 1 \in 1..(e - 1) /\ p[k - 1] = q[k]
    BY <1>1, <2>0, <2>7, <2>8
  <2> QED
    BY <2>6, <2>7, <2>9
<1>3. \A e \in DOMAIN toServer'[s] : Mending(toServer[s], e)'
  BY <1>1, <1>2
<1>4. ASSUME NEW j \in ToSet(requests'[s]), Due(j)' PROVE j.id \in forced' \/ Wrong(j)' = {}
  <2>1. j \in ToSet(requests[s]) /\ j \in Job /\ j \in AllJobs(s) /\ Due(j)
    BY <1>4, JobsTyped, StillDue DEF AllJobs
  <2>2. j.id \in forced \/ Wrong(j) = {}
    BY <1>4, <2>1 DEF Mends
  <2>3. Wrong(j)' \subseteq Wrong(j)
    BY <2>1, SmallerWrong
  <2>4. Wrong(j) # {} => j.id \in forced'
    BY <1>4, <2>1, <2>2 DEF StillForced
  <2> QED
    BY <2>3, <2>4
<1> QED
  BY <1>3, <1>4 DEF Mends

\* A step of which the mending sees nothing.
LEMMA MendsElsewhere ==
  ASSUME Types, NEW s \in Sessions, Mends(s), StillForced, LessWrong, UNCHANGED toServer[s],
         ToSet(requests'[s]) \subseteq ToSet(requests[s])
  PROVE  Mends(s)'
BY GrownMends

LEMMA QuietMends ==
  ASSUME MendInv, LoadInv', UNCHANGED <<wrong, forced, spoilt, mended, toServer, given>>, NoNewJobs,
         \A s \in Sessions : ToSet(requests'[s]) \subseteq ToSet(requests[s])
  PROVE  MendInv'
<1>1. StillForced /\ LessWrong
  BY DEF StillForced, LessWrong, MoreGiven
<1>2. Types
  BY DEF MendInv, LoadInv
<1>3. \A s \in Sessions : Mends(s)'
  BY <1>1, <1>2, MendsElsewhere DEF MendInv
<1>4. OneNumber'
  BY StillOneNumber DEF MendInv, NoNewJobs
<1> QED
  BY <1>3, <1>4 DEF MendInv, Mended

LEMMA EndSessionMends ==
  ASSUME MendInv, NEW s \in Sessions, EndSession(s)
  PROVE  MendInv'
<1>1. LoadInv' /\ NoNewJobs /\ Types
  BY EndSessionSeen DEF MendInv, LoadInv
<1>2. UNCHANGED <<wrong, forced, spoilt, mended, requests, given>>
  BY DEF EndSession, database, numbers, history
<1>3. toServer'[s] = <<>> /\ \A r \in Sessions \ {s} : UNCHANGED toServer[r]
  BY <1>1 DEF EndSession, Types
<1>4. StillForced /\ LessWrong
  BY <1>2 DEF StillForced, LessWrong, MoreGiven
<1>5. ASSUME NEW r \in Sessions \ {s} PROVE Mends(r)'
  BY <1>1, <1>2, <1>3, <1>4, MendsElsewhere DEF MendInv
<1>6. Mends(s)'
  BY <1>2, <1>3 DEF Mends, MendInv, Wrong, Due, Shared
<1>7. OneNumber'
  BY <1>1, StillOneNumber DEF MendInv, NoNewJobs
<1> QED
  BY <1>1, <1>2, <1>5, <1>6, <1>7 DEF MendInv, Mended

LEMMA RestartMends ==
  ASSUME MendInv, Restart
  PROVE  MendInv'
<1>1. LoadInv'
  BY RestartSeen DEF MendInv
<1>2. UNCHANGED <<wrong, spoilt, mended>>
  BY DEF Restart
<1>3. ASSUME NEW s \in Sessions
      PROVE  Pending(s)' = {} /\ Hand(s)' = {} /\ ToSet(requests'[s]) = {} /\ toServer'[s] = <<>> /\ JobsIn(toServer'[s]) = {}
  BY DEF Restart, Pending, Hand, NoJobs, ToSet, JobsIn
<1>4. ASSUME NEW s \in Sessions PROVE Mends(s)' /\ AllJobs(s)' = {}
  <2>1. AllJobs(s)' = {}
    BY <1>3 DEF AllJobs
  <2>2. DOMAIN toServer'[s] = {}
    BY <1>3
  <2>3. Mends(s)'
    BY <1>3, <2>2 DEF Mends
  <2> QED
    BY <2>1, <2>3
<1>5. OneNumber'
  BY <1>4 DEF OneNumber
<1> QED
  BY <1>1, <1>2, <1>4, <1>5 DEF MendInv, Mended

LEMMA SetupMends ==
  ASSUME MendInv, NEW s \in Sessions, Setup(s)
  PROVE  MendInv'
<1>1. LoadInv' /\ Types /\ LoadInv
  BY SetupSeen DEF MendInv, LoadInv
<1>2. UNCHANGED <<wrong, forced, spoilt, mended, toServer, requests, held>>
  BY DEF Setup, database, bridge
<1>3. PICK symbols \in SUBSET Symbols, latest \in [Symbols -> SUBSET Nat] :
           /\ symbols # {}
           /\ \A y \in Symbols : \A b \in latest[y] : b \in stored[y] /\ b < clock
           /\ asked' = [asked EXCEPT ![s] = symbols]
           /\ seq' = seq + Len(Jobs(symbols, latest))
           /\ given' = given \o [i \in DOMAIN Jobs(symbols, latest) |-> Jobs(symbols, latest)[i].id]
           /\ tries' = [tries EXCEPT ![s] = [j \in ToSet(Jobs(symbols, latest)) |-> 0]]
           /\ queue' = [queue EXCEPT ![s] = Jobs(symbols, latest)]
           /\ sender' = [sender EXCEPT ![s] = "ready"]
           /\ excused' = [y \in Symbols |-> excused[y] \cup
                            IF y \in symbols /\ latest[y] = {} THEN {b \in 0..clock : b < From(y, {})} ELSE {}]
  <2>1. Types
    BY <1>1
  <2> QED
    BY <2>1, SetupMakes
<1> DEFINE todo == Jobs(symbols, latest)
<1>4. todo \in Seq(Job) /\ \A i \in DOMAIN todo : todo[i].nr = Len(given) + i
  BY <1>1, <1>3, JobsOf
<1>5. /\ tries' = [tries EXCEPT ![s] = [j \in ToSet(todo) |-> 0]]
      /\ given' = given \o [i \in DOMAIN todo |-> todo[i].id]
  BY <1>3
<1> HIDE DEF todo
<1>6. Pending(s)' = ToSet(todo) /\ \A r \in Sessions \ {s} : UNCHANGED tries[r]
  BY <1>1, <1>5 DEF Types, Pending
<1>7. StillForced /\ LessWrong
  <2>1. MoreGiven
    <3>1. given \in Seq(Nat)
      BY <1>1 DEF Types
    <3> QED
      BY <1>4, <1>5, <3>1, GivenTo
  <2> QED
    BY <1>2, <2>1 DEF StillForced, LessWrong
<1>8. ASSUME NEW r \in Sessions PROVE Mends(r)'
  BY <1>1, <1>2, <1>7, MendsElsewhere DEF MendInv
<1>9. \A r \in Sessions : AllJobs(r)' \subseteq AllJobs(r) \cup ToSet(todo)
  BY <1>2, <1>6 DEF AllJobs, Pending, Hand
<1>10. OneNumber'
  <2>1. SUFFICES ASSUME NEW r \in Sessions, NEW i \in Sessions, NEW j \in AllJobs(r)', NEW k \in AllJobs(i)', j.nr = k.nr
                 PROVE  j = k
    BY DEF OneNumber
  <2>2. ASSUME NEW n \in DOMAIN todo, NEW h \in Sessions, NEW z \in AllJobs(h) PROVE todo[n].nr # z.nr
    <3>1. z.nr \in 1..Len(given) /\ Len(given) \in Nat /\ n \in Nat /\ n >= 1
      <4>1. given \in Seq(Nat) /\ z.nr \in DOMAIN given
        BY <1>1 DEF LoadInv, Numbered, Types
      <4> QED
        BY <1>4, <4>1
    <3> QED
      BY <1>4, <3>1
  <2>3. ASSUME NEW n \in DOMAIN todo, NEW m \in DOMAIN todo, todo[n].nr = todo[m].nr PROVE n = m
    <3>1. Len(given) \in Nat /\ n \in Nat /\ m \in Nat
      BY <1>1, <1>4 DEF Types
    <3> QED
      BY <1>4, <2>3, <3>1
  <2>4. j \in AllJobs(r) \cup ToSet(todo) /\ k \in AllJobs(i) \cup ToSet(todo)
    BY <1>9
  <2>5. CASE j \in ToSet(todo) \/ k \in ToSet(todo)
    BY <2>1, <2>2, <2>3, <2>4, <2>5 DEF ToSet
  <2>6. CASE j \in AllJobs(r) /\ k \in AllJobs(i)
    BY <2>1, <2>6 DEF MendInv, OneNumber
  <2> QED
    BY <2>4, <2>5, <2>6
<1> QED
  BY <1>1, <1>2, <1>8, <1>10 DEF MendInv, Mended

LEMMA RequestMends ==
  ASSUME MendInv, NEW want \in case.wants, NEW tf \in {"D1", "M1"}, NEW up \in BOOLEAN,
         RequestHistory(want, tf, up)
  PROVE  MendInv'
<1>1. LoadInv' /\ Types /\ LoadInv
  BY RequestHistorySeen DEF MendInv, LoadInv
<1>2. UNCHANGED <<wrong, spoilt, mended, toServer, tries, held>>
  BY DEF RequestHistory, database, jobs
<1>3. PICK j \in Job :
           /\ j.upsert = up
           /\ \A s \in Sessions : requests'[s] = requests[s]
                                    \/ (s \in sessions /\ alive[s] /\ requests'[s] = Append(requests[s], j))
           /\ forced \ {j.id} \subseteq forced'
           /\ (\E s \in Sessions : requests'[s] # requests[s]) => (up => j.id \in forced')
           /\ MoreGiven
           /\ j.nr \in DOMAIN given' /\ j.nr \notin DOMAIN given /\ given'[j.nr] = j.id
  <2>1. Types
    BY <1>1
  <2> QED
    BY <2>1, RequestMakes
<1>4. StillForced /\ LessWrong
  <2>1. SUFFICES ASSUME NEW r \in Sessions, NEW k \in AllJobs(r), Due(k)', k.id \in forced PROVE k.id \in forced'
    BY <1>2, <1>3 DEF StillForced, LessWrong
  <2>2. k.nr \in DOMAIN given /\ given[k.nr] = k.id
    BY <1>1 DEF LoadInv, Numbered
  <2>3. k.nr \in DOMAIN given' /\ given'[k.nr] = k.id /\ k.nr # j.nr
    BY <1>3, <2>2 DEF MoreGiven
  <2>4. k.id # j.id
    BY <1>3, <2>1, <2>3 DEF Due, Shared
  <2> QED
    BY <1>3, <2>1, <2>4
<1>5. ASSUME NEW s \in Sessions PROVE ToSet(requests'[s]) \subseteq ToSet(requests[s]) \cup {j}
  <2>1. requests[s] \in Seq(Job)
    BY <1>1 DEF Types
  <2>2. ToSet(Append(requests[s], j)) = ToSet(requests[s]) \cup {j}
    BY <2>1, AppendSet
  <2> QED
    BY <1>3, <2>2
<1>6. ASSUME NEW s \in Sessions PROVE Mends(s)'
  <2>1. \A k \in ToSet(requests'[s]) : k \in ToSet(requests[s]) \/ ~k.upsert \/ k.id \in forced'
    <3>1. CASE requests'[s] = requests[s]
      BY <3>1
    <3>2. CASE requests'[s] # requests[s]
      BY <1>3, <1>5, <3>2
    <3> QED
      BY <3>1, <3>2
  <2>2. Mends(s)
    BY DEF MendInv
  <2> QED
    BY <1>1, <1>2, <1>4, <2>1, <2>2, GrownMends
<1>7. OneNumber'
  <2>1. SUFFICES ASSUME NEW r \in Sessions, NEW i \in Sessions, NEW x \in AllJobs(r)', NEW z \in AllJobs(i)', x.nr = z.nr
                 PROVE  x = z
    BY DEF OneNumber
  <2>2. x \in AllJobs(r) \cup {j} /\ z \in AllJobs(i) \cup {j}
    BY <1>2, <1>5 DEF AllJobs, Pending, Hand
  <2>3. \A h \in Sessions : \A k \in AllJobs(h) : k.nr # j.nr
    BY <1>1, <1>3 DEF LoadInv, Numbered
  <2> QED
    BY <2>1, <2>2, <2>3 DEF MendInv, OneNumber
<1> QED
  BY <1>1, <1>2, <1>6, <1>7 DEF MendInv, Mended

LEMMA SenderWritesMends ==
  ASSUME MendInv, NEW s \in Sessions, SenderWrites(s)
  PROVE  MendInv'
<1>1. LoadInv' /\ NoNewJobs /\ Types /\ LoadInv
  BY SenderWritesSeen DEF MendInv, LoadInv
<1>2. UNCHANGED <<wrong, forced, spoilt, mended, given>>
  BY DEF SenderWrites, database, numbers, history
<1>3. StillForced /\ LessWrong
  BY <1>2 DEF StillForced, LessWrong, MoreGiven
<1>4. held[s] \in Job /\ ~held[s].upsert
  <2>1. held[s] # NoJob /\ held[s] \in Hand(s)
    BY <1>1 DEF LoadInv, Seen, Tidy, Hand, SenderWrites
  <2> QED
    BY <1>1, <2>1, OwnJobs DEF Types
<1> DEFINE m == [type |-> "full", job |-> held[s]]
<1>5. /\ requests' = requests \/ requests' = [requests EXCEPT ![s] = Append(requests[s], held[s])]
      /\ toServer' = toServer \/ toServer' = [toServer EXCEPT ![s] = Append(toServer[s], m)]
  BY <1>1 DEF SenderWrites, Accepts, Types
<1>6. m \in Frame /\ m.type = "full"
  BY <1>4 DEF Frame
<1> HIDE DEF m
<1>7. ASSUME NEW r \in Sessions PROVE Mends(r)'
  <2>1. requests[r] \in Seq(Job) /\ toServer[r] \in Seq(Frame)
    BY <1>1 DEF Types
  <2>2. requests'[r] = requests[r] \/ requests'[r] = Append(requests[r], held[s])
    BY <1>1, <1>5 DEF Types
  <2>3. ToSet(Append(requests[r], held[s])) = ToSet(requests[r]) \cup {held[s]}
    BY <1>4, <2>1, AppendSet
  <2>4. \A k \in ToSet(requests'[r]) : k \in ToSet(requests[r]) \/ ~k.upsert
    BY <1>4, <2>2, <2>3
  <2>5. toServer'[r] = toServer[r] \/ toServer'[r] = Append(toServer[r], m)
    BY <1>1, <1>5 DEF Types
  <2>6. /\ DOMAIN toServer[r] \subseteq DOMAIN toServer'[r]
        /\ \A e \in DOMAIN toServer[r] : toServer'[r][e] = toServer[r][e]
        /\ \A e \in DOMAIN toServer'[r] : e \in DOMAIN toServer[r] \/ toServer'[r][e].type # "end"
    <3>1. CASE toServer'[r] = toServer[r]
      BY <3>1
    <3>2. CASE toServer'[r] = Append(toServer[r], m)
      BY <1>6, <2>1, <3>2
    <3> QED
      BY <2>5, <3>1, <3>2
  <2>7. Mends(r)
    BY DEF MendInv
  <2> QED
    BY <1>1, <1>3, <2>4, <2>6, <2>7, GrownMends
<1>8. OneNumber'
  BY <1>1, StillOneNumber DEF MendInv, NoNewJobs
<1> QED
  BY <1>1, <1>2, <1>7, <1>8 DEF MendInv, Mended

LEMMA TickMends ==
  ASSUME MendInv, Tick
  PROVE  MendInv'
<1>1. LoadInv' /\ NoNewJobs /\ Types
  BY TickSeen DEF MendInv, LoadInv
<1>2. /\ UNCHANGED <<wrong, forced, spoilt, mended, requests, given>>
      /\ toServer' = [s \in Sessions |-> IF alive[s] THEN toServer[s] \o Lives(s) ELSE toServer[s]]
  BY DEF Tick, database, numbers, history, Lives
<1>3. StillForced /\ LessWrong
  BY <1>2 DEF StillForced, LessWrong, MoreGiven
<1>4. ASSUME NEW r \in Sessions PROVE Mends(r)'
  <2>1. /\ DOMAIN toServer[r] \subseteq DOMAIN toServer'[r]
        /\ \A e \in DOMAIN toServer[r] : toServer'[r][e] = toServer[r][e]
        /\ \A e \in DOMAIN toServer'[r] : e \in DOMAIN toServer[r] \/ toServer'[r][e].type # "end"
    <3>1. CASE ~alive[r]
      BY <1>2, <3>1
    <3>2. CASE alive[r]
      <4>1. toServer[r] \in Seq(Frame) /\ Lives(r) \in Seq(Frame)
            /\ \A i \in DOMAIN Lives(r) : Lives(r)[i].type = "live"
        BY <1>1, LivesOf DEF Types
      <4>2. toServer'[r] = toServer[r] \o Lives(r)
        BY <1>2, <3>2
      <4> DEFINE t == toServer[r] \o Lives(r)
      <4>3. /\ Len(toServer[r]) \in Nat /\ Len(Lives(r)) \in Nat
            /\ DOMAIN toServer[r] = 1..Len(toServer[r]) /\ DOMAIN t = 1..(Len(toServer[r]) + Len(Lives(r)))
            /\ \A i \in 1..Len(toServer[r]) : t[i] = toServer[r][i]
            /\ \A i \in DOMAIN t :
                 \/ i \in DOMAIN toServer[r] /\ t[i] = toServer[r][i]
                 \/ i - Len(toServer[r]) \in DOMAIN Lives(r) /\ t[i] = Lives(r)[i - Len(toServer[r])]
        BY <4>1, TwoParts
      <4> HIDE DEF t
      <4> QED
        BY <4>1, <4>2, <4>3 DEF t
    <3> QED
      BY <3>1, <3>2
  <2>2. Mends(r)
    BY DEF MendInv
  <2> QED
    BY <1>1, <1>2, <1>3, <2>1, <2>2, GrownMends
<1>5. OneNumber'
  BY <1>1, StillOneNumber DEF MendInv, NoNewJobs
<1> QED
  BY <1>1, <1>2, <1>4, <1>5 DEF MendInv, Mended

\* The end of a job that mends follows a chunk for every bar of its range.
LEMMA AnswerMends ==
  ASSUME MendInv, NEW s \in Sessions, Answer(s) \/ AnswerFailure(s)
  PROVE  MendInv'
<1> DEFINE q == toServer[s]
<1>1. LoadInv' /\ NoNewJobs /\ Types /\ LoadInv
  BY AnswerSeen DEF MendInv, LoadInv
<1>2. UNCHANGED <<wrong, forced, spoilt, mended, given>> /\ requests[s] # <<>>
  BY DEF Answer, AnswerFailure, database, numbers, history
<1>3. StillForced /\ LessWrong
  BY <1>2 DEF StillForced, LessWrong, MoreGiven
<1>4. PICK r, e : Answered(s, r, e)
  BY <1>1, AnswerMakes DEF LoadInv
<1>5. PICK j : j = Head(requests[s])
  OBVIOUS
<1>6. j \in Job /\ j \in ToSet(requests[s]) /\ ToSet(Tail(requests[s])) \subseteq ToSet(requests[s])
  <2>1. requests[s] \in Seq(Job)
    BY <1>1 DEF Types
  <2> QED
    BY <1>2, <1>5, <2>1, TailSet
<1>7. /\ r \in Seq(Frame) /\ e \in Frame /\ e.job = j
      /\ \A i \in DOMAIN r : r[i].type = "chunk" /\ r[i].job = j
      /\ (e.type = "end" /\ j.tf = "M1") =>
           \A b \in Nat : (j.from <= b /\ b <= j.to /\ b < clock) => \E i \in DOMAIN r : r[i].bar = b
      /\ toServer' = [toServer EXCEPT ![s] = Append(q \o r, e)]
      /\ requests' = [requests EXCEPT ![s] = Tail(requests[s])]
  BY <1>4, <1>5 DEF Answered
<1>8. q \in Seq(Frame)
  BY <1>1 DEF Types
<1> DEFINE p == Append(q \o r, e)
<1>9. toServer'[s] = p /\ ToSet(requests'[s]) \subseteq ToSet(requests[s])
      /\ \A i \in Sessions \ {s} : UNCHANGED <<toServer[i], requests[i]>>
  BY <1>1, <1>6, <1>7 DEF Types
<1>10. /\ Len(q) \in Nat /\ Len(r) \in Nat
       /\ DOMAIN q = 1..Len(q) /\ DOMAIN r = 1..Len(r) /\ DOMAIN p = 1..(Len(q) + Len(r) + 1)
       /\ \A i \in 1..Len(q) : p[i] = q[i]
       /\ \A i \in 1..Len(r) : p[Len(q) + i] = r[i]
       /\ p[Len(q) + Len(r) + 1] = e
       /\ \A i \in DOMAIN p :
            \/ i \in DOMAIN q /\ p[i] = q[i]
            \/ i - Len(q) \in DOMAIN r /\ p[i] = r[i - Len(q)]
            \/ i = Len(q) + Len(r) + 1
  BY <1>7, <1>8, ThreeParts
<1> HIDE DEF p
<1>11. Mends(s)'
  <2>1. /\ DOMAIN toServer[s] \subseteq DOMAIN toServer'[s]
        /\ \A i \in DOMAIN toServer[s] : toServer'[s][i] = toServer[s][i]
    BY <1>9, <1>10
  <2>2. ASSUME NEW i \in DOMAIN toServer'[s]
        PROVE  i \in DOMAIN toServer[s] \/ toServer'[s][i].type # "end" \/ Mending(toServer[s], i)'
    <3>1. CASE i \in DOMAIN q
      BY <3>1
    <3>2. CASE i - Len(q) \in DOMAIN r /\ p[i] = r[i - Len(q)]
      BY <1>7, <1>9, <3>2
    <3>3. CASE i = Len(q) + Len(r) + 1
      <4>1. p[i] = e /\ p[i].job = j
        BY <1>7, <1>10, <3>3
      <4>2. SUFFICES ASSUME e.type = "end", Due(j), NEW b \in Wrong(j)
                     PROVE  /\ j.id \in forced
                            /\ \E k \in 1..(i - 1) : p[k].type = "chunk" /\ p[k].job = j /\ p[k].bar = b
        BY <1>2, <1>9, <4>1 DEF Mending, Wrong, Due, Shared
      <4>3. j.id \in forced
        BY <1>6, <4>2 DEF MendInv, Mends
      <4>4. j.tf = "M1"
        BY <4>2 DEF Due
      <4>5. b \in Nat /\ j.from <= b /\ b <= j.to /\ b < clock
        BY <1>1, <1>6, <4>2, JobFields DEF Wrong, Types
      <4>6. PICK k \in DOMAIN r : r[k].bar = b
        BY <1>7, <4>2, <4>4, <4>5
      <4>7. Len(q) + k \in 1..(i - 1) /\ p[Len(q) + k] = r[k]
        BY <1>10, <3>3
      <4> QED
        BY <1>7, <4>3, <4>6, <4>7
    <3> QED
      BY <1>9, <1>10, <3>1, <3>2, <3>3
  <2>3. \A k \in ToSet(requests'[s]) : k \in ToSet(requests[s])
    BY <1>9
  <2>4. Mends(s)
    BY DEF MendInv
  <2> QED
    BY <1>1, <1>3, <2>1, <2>2, <2>3, <2>4, GrownMends
<1>12. ASSUME NEW i \in Sessions \ {s} PROVE Mends(i)'
  <2>1. Mends(i)
    BY DEF MendInv
  <2> QED
    BY <1>1, <1>3, <1>9, <2>1, MendsElsewhere
<1>13. OneNumber'
  BY <1>1, StillOneNumber DEF MendInv, NoNewJobs
<1> QED
  BY <1>1, <1>2, <1>11, <1>12, <1>13 DEF MendInv, Mended

LEMMA ServeLiveMends ==
  ASSUME MendInv, NEW s \in Sessions, ServeLive(s)
  PROVE  MendInv'
<1> DEFINE m == Head(toServer[s])
<1>1. LoadInv' /\ NoNewJobs /\ Types /\ LoadInv
  BY ServeLiveSeen DEF MendInv, LoadInv
<1>2. /\ UNCHANGED <<forced, spoilt, mended, requests, given>> /\ Reads(s) /\ m.type = "live"
      /\ WriteCandle(m.sym, m.bar, TRUE) \/ UNCHANGED wrong
  BY DEF ServeLive, numbers
<1>3. \A y \in Symbols : wrong'[y] \subseteq wrong[y]
  <2>1. CASE WriteCandle(m.sym, m.bar, TRUE)
    BY <1>1, <2>1 DEF WriteCandle, Types
  <2> QED
    BY <1>2, <2>1
<1> HIDE DEF m
<1>4. StillForced /\ LessWrong
  BY <1>2, <1>3 DEF StillForced, LessWrong, MoreGiven
<1>5. Mends(s)'
  <2>1. Mends(s) /\ Head(toServer[s]).type # "chunk"
    BY <1>2 DEF MendInv, m
  <2> QED
    BY <1>1, <1>2, <1>4, <2>1, ReadMends
<1>6. ASSUME NEW r \in Sessions \ {s} PROVE Mends(r)'
  <2>1. Mends(r) /\ toServer'[r] = toServer[r]
    BY <1>1, <1>2, ReadsOne DEF MendInv
  <2> QED
    BY <1>1, <1>2, <1>4, <2>1, MendsElsewhere
<1>7. OneNumber'
  BY <1>1, StillOneNumber DEF MendInv, NoNewJobs
<1>8. Mended' /\ mended' \subseteq Job
  BY <1>2, <1>3, JobFields DEF MendInv, Mended
<1> QED
  BY <1>1, <1>5, <1>6, <1>7, <1>8 DEF MendInv

LEMMA ServeChunkMends ==
  ASSUME MendInv, NEW s \in Sessions, ServeChunk(s)
  PROVE  MendInv'
<1> DEFINE m == Head(toServer[s])
<1>1. LoadInv' /\ NoNewJobs /\ Types /\ LoadInv
  BY ServeChunkSeen DEF MendInv, LoadInv
<1>2. /\ UNCHANGED <<forced, mended, requests, given>> /\ Reads(s) /\ m.type = "chunk"
      /\ \/ WriteCandle(m.job.sym, m.bar, m.job.id \in forced) /\ UNCHANGED spoilt
         \/ UNCHANGED wrong /\ spoilt' = spoilt \cup {m.job}
  BY DEF ServeChunk, numbers
<1>3. m.job \in Job /\ m.job.sym \in Symbols
  BY <1>1, <1>2, ReadsOne, FrameFields, JobFields
<1> HIDE DEF m
<1>4. /\ \A y \in Symbols : wrong'[y] \subseteq wrong[y]
      /\ m.job \in spoilt' \/ m.job.id \notin forced \/ m.bar \notin wrong'[m.job.sym]
  <2>1. CASE WriteCandle(m.job.sym, m.bar, m.job.id \in forced)
    BY <1>1, <1>3, <2>1 DEF WriteCandle, Types
  <2>2. CASE UNCHANGED wrong /\ spoilt' = spoilt \cup {m.job}
    BY <2>2
  <2> QED
    BY <1>2, <2>1, <2>2
<1>5. StillForced /\ LessWrong
  BY <1>2, <1>4 DEF StillForced, LessWrong, MoreGiven
<1>6. Mends(s)'
  <2>1. Mends(s)
    BY <1>2 DEF MendInv
  <2> QED
    BY <1>1, <1>2, <1>4, <1>5, <2>1, ReadMends DEF m
<1>7. ASSUME NEW r \in Sessions \ {s} PROVE Mends(r)'
  <2>1. Mends(r) /\ toServer'[r] = toServer[r]
    BY <1>1, <1>2, ReadsOne DEF MendInv
  <2> QED
    BY <1>1, <1>2, <1>5, <2>1, MendsElsewhere
<1>8. OneNumber'
  BY <1>1, StillOneNumber DEF MendInv, NoNewJobs
<1>9. Mended' /\ mended' \subseteq Job
  BY <1>2, <1>4, JobFields DEF MendInv, Mended
<1> QED
  BY <1>1, <1>6, <1>7, <1>8, <1>9 DEF MendInv

LEMMA ServeFullMends ==
  ASSUME MendInv, NEW s \in Sessions, ServeFull(s) \/ ServeUnhandled(s)
  PROVE  MendInv'
<1>1. LoadInv' /\ NoNewJobs /\ Types /\ LoadInv
  BY ServeFullSeen, ServeUnhandledSeen DEF MendInv, LoadInv
<1>2. /\ UNCHANGED <<wrong, spoilt, forced, mended, requests, given>> /\ Reads(s) /\ Head(toServer[s]).type # "chunk"
  BY DEF ServeFull, ServeUnhandled, database, numbers
<1>3. StillForced /\ LessWrong
  BY <1>2 DEF StillForced, LessWrong, MoreGiven
<1>4. Mends(s)'
  <2>1. Mends(s) /\ Head(toServer[s]).type # "chunk"
    BY <1>2 DEF MendInv
  <2> QED
    BY <1>1, <1>2, <1>3, <2>1, ReadMends
<1>5. ASSUME NEW r \in Sessions \ {s} PROVE Mends(r)'
  <2>1. Mends(r) /\ toServer'[r] = toServer[r]
    BY <1>1, <1>2, ReadsOne DEF MendInv
  <2> QED
    BY <1>1, <1>2, <1>3, <2>1, MendsElsewhere
<1>6. OneNumber'
  BY <1>1, StillOneNumber DEF MendInv, NoNewJobs
<1> QED
  BY <1>1, <1>2, <1>4, <1>5, <1>6 DEF MendInv, Mended

\* The end of a job takes its mark away: of a job whose range is mended.
LEMMA ServeOverMends ==
  ASSUME MendInv, NEW s \in Sessions, ServeEnd(s) \/ ServeFailed(s)
  PROVE  MendInv'
<1> DEFINE m == Head(toServer[s])
           j == m.job
<1>1. LoadInv' /\ NoNewJobs /\ Types /\ LoadInv
  BY ServeOverSeen DEF MendInv, LoadInv
<1>2. /\ UNCHANGED <<wrong, spoilt, requests, given>> /\ Reads(s) /\ Over(s, j) /\ m.type \in {"end", "failed"}
      /\ \/ /\ m.type = "end" /\ forced' = forced \ {j.id}
            /\ mended' = IF Due(j) THEN mended \cup {j} ELSE mended
         \/ UNCHANGED <<forced, mended>>
  BY DEF ServeEnd, ServeFailed, database, numbers, Due
<1>3. /\ toServer[s] \in Seq(Frame) /\ toServer[s] # <<>> /\ m = toServer[s][1] /\ 1 \in DOMAIN toServer[s]
  <2>1. toServer[s] \in Seq(Frame) /\ toServer[s] # <<>>
    BY <1>1, <1>2, ReadsOne
  <2> QED
    BY <2>1
<1> HIDE DEF m
<1>4. j \in Job /\ j \in AllJobs(s)
  BY <1>1, <1>2, <1>3, EndsJob
<1> HIDE DEF j
<1>5. (m.type = "end" /\ Due(j)) => Wrong(j) = {}
  <2>1. SUFFICES ASSUME m.type = "end", Due(j), NEW b \in Wrong(j) PROVE FALSE
    OBVIOUS
  <2>2. Mending(toServer[s], 1)
    BY <1>3 DEF MendInv, Mends
  <2>3. \E k \in 1..(1 - 1) : toServer[s][k].bar = b
    BY <1>3, <2>1, <2>2 DEF Mending, j
  <2> QED
    BY <2>3
<1>6. LessWrong
  BY <1>2 DEF LessWrong, MoreGiven
<1>7. StillForced
  <2>1. SUFFICES ASSUME NEW r \in Sessions, NEW k \in AllJobs(r), Due(k)', k.id \in forced, Wrong(k) # {}
                 PROVE  k.id \in forced'
    BY DEF StillForced
  <2>2. CASE m.type = "end" /\ k.id = j.id
    <3>1. Due(k)
      BY <1>6, <2>1, StillDue
    <3>2. k = j
      BY <1>1, <1>4, <2>2, <3>1, OneHolder DEF MendInv, Due
    <3> QED
      BY <1>5, <2>1, <2>2, <3>1, <3>2
  <2>3. CASE ~(m.type = "end" /\ k.id = j.id)
    BY <1>2, <2>1, <2>3
  <2> QED
    BY <2>2, <2>3
<1>9. Mends(s)'
  <2>1. Mends(s) /\ Head(toServer[s]).type # "chunk"
    BY <1>2 DEF MendInv, m
  <2> QED
    BY <1>1, <1>2, <1>6, <1>7, <2>1, ReadMends
<1>10. ASSUME NEW r \in Sessions \ {s} PROVE Mends(r)'
  <2>1. Mends(r) /\ toServer'[r] = toServer[r]
    BY <1>1, <1>2, ReadsOne DEF MendInv
  <2> QED
    BY <1>1, <1>2, <1>6, <1>7, <2>1, MendsElsewhere
<1>11. OneNumber'
  BY <1>1, StillOneNumber DEF MendInv, NoNewJobs
<1>12. Mended' /\ mended' \subseteq Job
  <2>1. \A k \in mended' : k \in mended \/ (k = j /\ Wrong(j) = {})
    BY <1>2, <1>5
  <2>2. mended' \subseteq Job
    BY <1>4, <2>1 DEF MendInv
  <2>3. \A k \in mended' : wrong[k.sym] \cap k.from..k.to = {}
    BY <2>1 DEF MendInv, Mended, Wrong
  <2> QED
    BY <1>2, <2>2, <2>3 DEF Mended
<1> QED
  BY <1>1, <1>9, <1>10, <1>11, <1>12 DEF MendInv

LEMMA QuietSteps ==
  ASSUME LoadInv,
         \/ UNCHANGED ingest
         \/ \E s \in Sessions : Connect(s) \/ Hello(s) \/ SenderTakes(s) \/ Cut(s)
         \/ \E y \in Symbols : AddSymbol(y) \/ HotAdd(y)
  PROVE  /\ UNCHANGED <<wrong, stored, forced, spoilt, mended, toServer, clock, given>> /\ LoadInv' /\ NoNewJobs
         /\ \A s \in Sessions : ToSet(requests'[s]) \subseteq ToSet(requests[s]) /\ Pending(s)' \subseteq Pending(s)
<1>0. Types
  BY DEF LoadInv
<1>1. CASE UNCHANGED ingest
  <2>1. UNCHANGED <<wrong, stored, forced, spoilt, mended, toServer, clock, given, requests, tries, held>>
    BY <1>1 DEF ingest, database, jobs, numbers, bridge, history
  <2> QED
    BY <1>1, <2>1, LoadStep, SameJobs DEF NoNewJobs, Pending
<1>2. CASE \E s \in Sessions : Connect(s) \/ Hello(s)
  <2>1. UNCHANGED <<wrong, stored, forced, spoilt, mended, toServer, clock, given, requests, tries>>
    BY <1>2 DEF Connect, Hello, database, jobs, numbers, bridge, history
  <2> QED
    BY <1>2, <2>1, ConnectSeen, HelloSeen DEF Pending
<1>3. ASSUME NEW s \in Sessions, SenderTakes(s)
      PROVE  /\ UNCHANGED <<wrong, stored, forced, spoilt, mended, toServer, clock, given, requests>>
             /\ LoadInv' /\ NoNewJobs /\ \A r \in Sessions : Pending(r)' \subseteq Pending(r)
  <2>1. UNCHANGED <<wrong, stored, forced, spoilt, mended, toServer, clock, given, requests>>
    BY <1>3 DEF SenderTakes, database, numbers, bridge
  <2>2. tries' = tries \/ tries' = [tries EXCEPT ![s] = Without(tries[s], Head(queue[s]))]
    BY <1>0, <1>3 DEF SenderTakes, Types
  <2>3. \A r \in Sessions : Pending(r)' \subseteq Pending(r)
    <3>1. DOMAIN Without(tries[s], Head(queue[s])) \subseteq DOMAIN tries[s]
      BY DEF Without
    <3>2. DOMAIN tries = Sessions
      BY <1>0 DEF Types
    <3> QED
      BY <2>2, <3>1, <3>2 DEF Pending
  <2> QED
    BY <1>3, <2>1, <2>3, SenderTakesSeen
<1>4. ASSUME NEW s \in Sessions, Cut(s)
      PROVE  /\ UNCHANGED <<wrong, stored, forced, spoilt, mended, toServer, clock, given, tries>>
             /\ LoadInv' /\ NoNewJobs /\ \A r \in Sessions : ToSet(requests'[r]) \subseteq ToSet(requests[r])
  <2>1. UNCHANGED <<wrong, stored, forced, spoilt, mended, toServer, clock, given, tries>>
    BY <1>4 DEF Cut, database, numbers, jobs, history
  <2>2. requests' = [requests EXCEPT ![s] = <<>>]
    BY <1>4 DEF Cut
  <2>3. ToSet(<<>>) = {}
    BY DEF ToSet
  <2>4. \A r \in Sessions : ToSet(requests'[r]) \subseteq ToSet(requests[r])
    BY <1>0, <2>2, <2>3 DEF Types
  <2> QED
    BY <1>4, <2>1, <2>4, CutSeen
<1>5. CASE \E y \in Symbols : AddSymbol(y) \/ HotAdd(y)
  <2>1. UNCHANGED <<wrong, stored, forced, spoilt, mended, toServer, clock, given, requests, tries>>
    BY <1>5 DEF AddSymbol, HotAdd, jobs, numbers, bridge, history
  <2> QED
    BY <1>5, <2>1, AddSymbolSeen, HotAddSeen DEF Pending
<1> QED
  BY <1>1, <1>2, <1>3, <1>4, <1>5 DEF Pending

LEMMA MendStep ==
  ASSUME MendInv, Next \/ UNCHANGED ingest
  PROVE  MendInv'
<1>1. CASE \/ UNCHANGED ingest
           \/ \E s \in Sessions : Connect(s) \/ Hello(s) \/ SenderTakes(s) \/ Cut(s)
           \/ \E y \in Symbols : AddSymbol(y) \/ HotAdd(y)
  <2>1. LoadInv
    BY DEF MendInv
  <2> QED
    BY <1>1, <2>1, QuietSteps, QuietMends
<1>2. CASE \E s \in Sessions :
             \/ Setup(s) \/ SenderWrites(s) \/ Answer(s) \/ AnswerFailure(s) \/ EndSession(s)
             \/ ServeChunk(s) \/ ServeEnd(s) \/ ServeFailed(s) \/ ServeFull(s) \/ ServeUnhandled(s) \/ ServeLive(s)
  BY <1>2, SetupMends, SenderWritesMends, AnswerMends, EndSessionMends, ServeChunkMends, ServeOverMends,
     ServeFullMends, ServeLiveMends
<1>3. CASE \E want \in case.wants, tf \in {"D1", "M1"}, up \in BOOLEAN : RequestHistory(want, tf, up)
  BY <1>3, RequestMends
<1>4. CASE Tick
  BY <1>4, TickMends
<1>5. CASE Restart
  BY <1>5, RestartMends
<1> QED
  BY <1>1, <1>2, <1>3, <1>4, <1>5 DEF Next, Loading

\* mt5_ingest.py: a manual request that forces an upsert, with a number that no other request has,
\* has, once it ended with every chunk written, corrected every bar of its range, though other
\* sessions answer the same request and the first end takes its mark from _force_upsert_jobs.
\* Of requests that share a number an operator chose, nothing of the kind is true: the first end of
\* either takes the mark of both (:738).
THEOREM RangesAreMended == ChartsSpec => []Mended
<1>1. ChartsInit => MendInv
  <2>1. SUFFICES ASSUME ChartsInit PROVE MendInv
    OBVIOUS
  <2>2. LoadInv /\ Init
    BY <2>1, LoadInit DEF ChartsInit
  <2>3. \A s \in Sessions : tries[s] = NoJobs /\ held[s] = NoJob /\ requests[s] = <<>> /\ toServer[s] = <<>>
    BY <2>2 DEF Init
  <2>4. \A s \in Sessions : Pending(s) = {} /\ Hand(s) = {} /\ ToSet(requests[s]) = {} /\ DOMAIN toServer[s] = {}
    BY <2>3 DEF Pending, NoJobs, Hand, ToSet
  <2>5. \A s \in Sessions : AllJobs(s) = {} /\ Mends(s)
    BY <2>4 DEF AllJobs, JobsIn, Mends
  <2> QED
    BY <2>2, <2>5 DEF MendInv, OneNumber, Mended, Init
<1>2. MendInv /\ [ChartsNext]_<<vars, chartVars>> => MendInv'
  BY ServerSteps, MendStep
<1>3. MendInv => Mended
  BY DEF MendInv
<1> QED
  BY <1>1, <1>2, <1>3, PTL DEF ChartsSpec

----------------------------------------------------------------------------
\* The historical route.

Request == [stage : {"query", "probe", "lock", "refresh", "reread", "unlock", "poll", "latest", "forming", "answered"},
            rows : SUBSET Nat, raw : BOOLEAN, tries : Nat, latest : Nat,
            status : {"none", "retry", "candles"}, answer : Seq(Nat)]

\* The candles that the M1 bars of a symbol make.
Made(y) == {Bucket(b) : b \in stored[y]}
Descending(q) == \A i, k \in DOMAIN q : i < k => q[i] > q[k]

\* What a request has read was made of bars that are stored, and is no newer than the newest
\* bar it read after them.
Honest(r) ==
  /\ reader[r] \in Request
  /\ reader[r].rows \subseteq Made(Sym(r))
  /\ reader[r].stage = "forming" => \A k \in reader[r].rows : k <= reader[r].latest
  /\ Descending(reader[r].answer)

\* Who refreshes has the lock of the window, or had it until it ran out.
Locked(r) ==
  reader[r].stage \in {"refresh", "reread"} => lock[Window(r)] = r \/ r \in overstayed

RouteInv ==
  /\ DOMAIN reader = Asking /\ DOMAIN lock = Windows
  /\ materialized \in [Symbols -> SUBSET Nat] /\ \A y \in Symbols : materialized[y] \subseteq Made(y)
  /\ \A r \in Asking : Honest(r) /\ Locked(r)

LEMMA BucketOf ==
  ASSUME NEW b \in Nat
  PROVE  /\ Bucket(b) \in Nat /\ Bucket(b) <= b
         /\ \A c \in Nat : b <= c => Bucket(b) <= Bucket(c)
<1>1. Bucket(b) \in Nat
  BY ChartsAssumption DEF Bucket
<1>2. \A c \in Nat : b <= c => Bucket(b) <= Bucket(c)
  BY ChartsAssumption DEF Bucket
<1>3. Bucket(b) <= b
  BY ChartsAssumption DEF Bucket
<1> QED
  BY <1>1, <1>2, <1>3

\* A request names a symbol and a window.
LEMMA AskedFor ==
  ASSUME Types, NEW r \in Asking
  PROVE  Sym(r) \in Symbols /\ Window(r) \subseteq Nat /\ Window(r) \in Windows /\ r # Nobody
BY ChartsAssumption DEF Types, Asking, Sym, Window, Windows

LEMMA MadeOf ==
  ASSUME Types, NEW y \in Symbols
  PROVE  /\ Made(y) \subseteq Nat /\ IsFiniteSet(Made(y))
         /\ stored[y] # {} => /\ Bucket(Greatest(stored[y])) \in Nat
                              /\ \A k \in Made(y) : k <= Bucket(Greatest(stored[y]))
<1>1. stored[y] \subseteq Nat /\ (\A b \in stored[y] : b < clock) /\ clock \in Nat
  BY DEF Types
<1>2. \A b \in stored[y] : Bucket(b) \in 0..clock
  BY <1>1, BucketOf
<1>3. Made(y) \subseteq 0..clock
  BY <1>2 DEF Made
<1>4. IsFiniteSet(Made(y))
  <2>1. 0 \in Int /\ clock \in Int
    BY <1>1
  <2>2. IsFiniteSet(0..clock)
    BY <2>1, FS_Interval
  <2> QED
    BY <1>3, <2>2, FS_Subset
<1>5. ASSUME stored[y] # {}
      PROVE  /\ Bucket(Greatest(stored[y])) \in Nat
             /\ \A k \in Made(y) : k <= Bucket(Greatest(stored[y]))
  <2>1. Greatest(stored[y]) \in stored[y] /\ \A c \in stored[y] : c <= Greatest(stored[y])
    BY <1>1, <1>5, GreatestOf
  <2>2. \A b \in stored[y] : Bucket(b) <= Bucket(Greatest(stored[y]))
    BY <1>1, <2>1, BucketOf
  <2> QED
    BY <1>1, <2>1, <2>2, BucketOf DEF Made
<1> QED
  BY <1>3, <1>4, <1>5

\* A finite set of numbers can be listed from the greatest down: the rank of each is its place.
LEMMA NewestFirstOf ==
  ASSUME NEW S \in SUBSET Nat, IsFiniteSet(S)
  PROVE  /\ NewestFirst(S) \in [1..Cardinality(S) -> S] /\ Cardinality(S) \in Nat
         /\ Descending(NewestFirst(S))
<1> DEFINE n == Cardinality(S)
           Above(m) == {x \in S : x >= m}
           rank == [m \in S |-> Cardinality(Above(m))]
           q == [i \in 1..n |-> CHOOSE m \in S : rank[m] = i]
<1>1. n \in Nat
  BY FS_CardinalityType
<1>2. \A m \in S : IsFiniteSet(Above(m)) /\ Cardinality(Above(m)) \in 1..n
  <2> TAKE m \in S
  <2>1. Above(m) \subseteq S /\ m \in Above(m)
    OBVIOUS
  <2>2. IsFiniteSet(Above(m)) /\ Cardinality(Above(m)) <= n
    BY <2>1, FS_Subset
  <2>3. Cardinality(Above(m)) \in Nat /\ Cardinality(Above(m)) # 0
    BY <2>1, <2>2, FS_CardinalityType, FS_EmptySet
  <2> HIDE DEF n, Above
  <2> QED
    BY <1>1, <2>2, <2>3
<1>3. ASSUME NEW a \in S, NEW b \in S, a > b
      PROVE  rank[a] < rank[b]
  <2>0. a \in Nat /\ b \in Nat /\ a > b /\ \A x \in S : x \in Nat
    BY <1>3
  <2>1. Above(a) \subseteq Above(b) /\ b \in Above(b) /\ b \notin Above(a)
    <3>1. \A x \in S : x >= a => x >= b
      BY <2>0
    <3>2. b >= b /\ ~(b >= a)
      BY <2>0
    <3> QED
      BY <3>1, <3>2
  <2>2. /\ Cardinality(Above(a)) <= Cardinality(Above(b))
        /\ Cardinality(Above(a)) # Cardinality(Above(b))
    BY <1>2, <2>1, FS_Subset
  <2>3. rank[a] = Cardinality(Above(a)) /\ rank[b] = Cardinality(Above(b))
    OBVIOUS
  <2> HIDE DEF n, Above, rank
  <2>4. Cardinality(Above(a)) \in Nat /\ Cardinality(Above(b)) \in Nat
    BY <1>1, <1>2
  <2> QED
    BY <2>2, <2>3, <2>4
<1>4. rank \in [S -> 1..n]
  BY <1>2
<1> HIDE DEF Above, rank
<1>5. rank \in Injection(S, 1..n)
  <2>1. ASSUME NEW a \in S, NEW b \in S, rank[a] = rank[b]
        PROVE  a = b
    <3>1. rank[a] \in Nat /\ ~(a > b) /\ ~(b > a)
      BY <1>1, <1>3, <1>4, <2>1
    <3> QED
      BY <3>1
  <2> QED
    BY <1>4, <2>1 DEF Injection, IsInjective
<1>6. rank \in Surjection(S, 1..n)
  <2>1. IsFiniteSet(1..n) /\ Cardinality(1..n) = n
    BY <1>1, FS_Interval
  <2> QED
    BY <1>5, <2>1, FS_Injection
<1>7. \A i \in 1..n : q[i] \in S /\ rank[q[i]] = i
  <2>1. \A i \in 1..n : \E m \in S : rank[m] = i
    BY <1>6 DEF Surjection
  <2> QED
    BY <2>1
<1>8. q \in [1..n -> S] /\ DOMAIN q = 1..n
  BY <1>7
<1> HIDE DEF q
<1>9. ASSUME NEW i \in DOMAIN q, NEW k \in DOMAIN q, i < k
      PROVE  q[i] > q[k]
  <2>1. q[i] \in S /\ q[k] \in S /\ rank[q[i]] = i /\ rank[q[k]] = k
    BY <1>7, <1>8
  <2>2. q[k] > q[i] => k < i
    BY <1>3, <2>1
  <2>3. q[i] # q[k] /\ i \in Nat /\ k \in Nat
    BY <1>1, <1>8, <1>9, <2>1
  <2>4. q[i] \in Nat /\ q[k] \in Nat
    BY <2>1
  <2> QED
    BY <1>9, <2>2, <2>3, <2>4
<1>10. Descending(q)
  BY <1>9 DEF Descending
<1>11. \E p \in [1..Cardinality(S) -> S] : Descending(p)
  BY <1>8, <1>10
<1>12. NewestFirst(S) \in [1..Cardinality(S) -> S] /\ Descending(NewestFirst(S))
  <2>1. NewestFirst(S) = CHOOSE p \in [1..Cardinality(S) -> S] : Descending(p)
    BY DEF NewestFirst, Descending
  <2> QED
    BY <1>11, <2>1
<1> QED
  BY <1>1, <1>12

\* A step of the server takes no bar away, and its clock never goes back.
LEMMA ServerGrows ==
  ASSUME LoadInv, Next \/ UNCHANGED ingest
  PROVE  case' = case /\ clock <= clock' /\ \A y \in Symbols : stored[y] \subseteq stored'[y]
<1>0. Types /\ clock \in Nat
  BY DEF LoadInv, Types
<1>1. CASE UNCHANGED <<case, stored, clock>>
  BY <1>0, <1>1
<1>2. CASE UNCHANGED <<case, stored>> /\ clock' = clock + 1
  BY <1>0, <1>2
<1>3. ASSUME NEW s \in Sessions, ServeLive(s) \/ ServeChunk(s)
      PROVE  case' = case /\ clock' = clock /\ \A y \in Symbols : stored[y] \subseteq stored'[y]
  <2>1. stored \in [Symbols -> SUBSET Nat]
    BY <1>0 DEF Types
  <2>2. case' = case /\ clock' = clock /\ (UNCHANGED stored \/ \E y \in Symbols, b \in Nat, up \in BOOLEAN : WriteCandle(y, b, up))
    <3>1. Head(toServer[s]) \in Frame
      BY <1>0, <1>3, ReadsOne DEF ServeLive, ServeChunk
    <3>2. CASE ServeLive(s)
      BY <3>1, <3>2, FrameFields DEF ServeLive
    <3>3. CASE ServeChunk(s)
      <4> DEFINE m == Head(toServer[s])
      <4>1. m.type = "chunk" /\ case' = case /\ clock' = clock /\ (UNCHANGED stored \/ WriteCandle(m.job.sym, m.bar, m.job.id \in forced))
        BY <3>3 DEF ServeChunk
      <4>2. m.job.sym \in Symbols /\ m.bar \in Nat /\ (m.job.id \in forced) \in BOOLEAN
        BY <3>1, <4>1, FrameFields, JobFields
      <4> HIDE DEF m
      <4> QED
        BY <4>1, <4>2
    <3> QED
      BY <1>3, <3>2, <3>3
  <2>3. \A y \in Symbols : stored[y] \subseteq stored'[y]
    BY <2>1, <2>2 DEF WriteCandle
  <2> QED
    BY <2>2, <2>3
<1>4. CASE Tick \/ UNCHANGED ingest
  BY <1>1, <1>2, <1>4 DEF Tick, ingest, database
<1>5. ASSUME NEW s \in Sessions,
             \/ Connect(s) \/ Hello(s) \/ Setup(s) \/ SenderTakes(s) \/ SenderWrites(s)
             \/ Answer(s) \/ AnswerFailure(s) \/ Cut(s) \/ EndSession(s)
             \/ ServeEnd(s) \/ ServeFailed(s) \/ ServeFull(s) \/ ServeUnhandled(s)
      PROVE  case' = case /\ clock <= clock' /\ \A y \in Symbols : stored[y] \subseteq stored'[y]
  <2>1. CASE Connect(s) \/ Hello(s) \/ Setup(s) \/ SenderTakes(s) \/ SenderWrites(s)
    BY <1>1, <2>1 DEF Connect, Hello, Setup, SenderTakes, SenderWrites, database
  <2>2. CASE Answer(s) \/ AnswerFailure(s) \/ Cut(s) \/ EndSession(s)
    BY <1>1, <2>2 DEF Answer, AnswerFailure, Cut, EndSession, database
  <2>3. CASE ServeEnd(s) \/ ServeFailed(s) \/ ServeFull(s) \/ ServeUnhandled(s)
    BY <1>1, <2>3 DEF ServeEnd, ServeFailed, ServeFull, ServeUnhandled, database
  <2> QED
    BY <1>5, <2>1, <2>2, <2>3
<1>6. CASE \/ \E y \in Symbols : AddSymbol(y) \/ HotAdd(y)
           \/ \E want \in case.wants, tf \in {"D1", "M1"}, up \in BOOLEAN : RequestHistory(want, tf, up)
  BY <1>1, <1>6 DEF AddSymbol, HotAdd, RequestHistory, database
<1>7. CASE Restart
  BY <1>1, <1>7 DEF Restart
<1>8. CASE \E s \in Sessions : ServeLive(s) \/ ServeChunk(s)
  BY <1>0, <1>3, <1>8
<1> QED
  BY <1>4, <1>5, <1>6, <1>7, <1>8 DEF Next, Loading

\* The rows of a query are made of bars that are stored.
LEMMA RowsMade ==
  ASSUME Types, RouteInv, NEW r \in Asking
  PROVE  Rows(r) \subseteq Made(Sym(r)) /\ Rows(r) \subseteq Nat
<1>1. Sym(r) \in Symbols
  BY AskedFor
<1>2. Candles(Sym(r)) \subseteq Made(Sym(r))
  BY <1>1 DEF Candles, Made, RouteInv
<1>3. Rows(r) \subseteq Candles(Sym(r))
  BY DEF Rows
<1> QED
  BY <1>1, <1>2, <1>3, MadeOf

\* A step that leaves a request alone.
LEMMA StillHonest ==
  ASSUME Types, NEW r \in Asking, Honest(r), case' = case, UNCHANGED reader[r],
         \A y \in Symbols : stored[y] \subseteq stored'[y]
  PROVE  Honest(r)'
<1>1. Sym(r) \in Symbols /\ Sym(r)' = Sym(r)
  BY AskedFor DEF Sym
<1>2. \A y \in Symbols : Made(y) \subseteq Made(y)'
  BY DEF Made, Bucket
<1> QED
  BY <1>1, <1>2 DEF Honest

LEMMA QuietRoute ==
  ASSUME Types, RouteInv, case' = case, UNCHANGED route, \A y \in Symbols : stored[y] \subseteq stored'[y]
  PROVE  RouteInv'
<1>1. UNCHANGED <<materialized, reader, lock, overstayed>>
  BY DEF route
<1>2. Asking' = Asking /\ Windows' = Windows /\ \A r \in Asking : Window(r)' = Window(r)
  BY DEF Asking, Windows, Window
<1>3. \A y \in Symbols : Made(y) \subseteq Made(y)'
  BY DEF Made, Bucket
<1>4. \A r \in Asking : Honest(r)' /\ Locked(r)'
  BY <1>1, <1>2, StillHonest DEF RouteInv, Locked
<1> QED
  BY <1>1, <1>2, <1>3, <1>4 DEF RouteInv

\* A step of one request.
LEMMA OneReader ==
  ASSUME Types, RouteInv, NEW r \in Asking, UNCHANGED <<case, stored, overstayed>>,
         NEW new \in Request, Becomes(r, new),
         new.rows \subseteq Made(Sym(r)), Descending(new.answer),
         new.stage = "forming" => \A k \in new.rows : k <= new.latest,
         materialized' \in [Symbols -> SUBSET Nat], \A y \in Symbols : materialized'[y] \subseteq Made(y),
         DOMAIN lock' = Windows,
         \A w \in Windows : lock'[w] = lock[w] \/ (w = Window(r) /\ lock[w] \in {Nobody, r}),
         new.stage \in {"refresh", "reread"} => lock'[Window(r)] = r \/ r \in overstayed
  PROVE  RouteInv'
<1>1. /\ Asking' = Asking /\ Windows' = Windows
      /\ \A q \in Asking : Window(q)' = Window(q) /\ Sym(q)' = Sym(q)
      /\ \A y \in Symbols : Made(y)' = Made(y)
  BY DEF Asking, Windows, Window, Sym, Made, Bucket
<1>2. DOMAIN reader' = Asking /\ reader'[r] = new /\ \A q \in Asking \ {r} : reader'[q] = reader[q]
  BY DEF RouteInv, Becomes
<1>3. Honest(r)'
  <2>1. Made(Sym(r))' = Made(Sym(r))
    BY DEF Made, Bucket, Sym
  <2> QED
    BY <1>2, <2>1 DEF Honest
<1>4. Locked(r)'
  BY <1>1, <1>2 DEF Locked
<1>5. ASSUME NEW q \in Asking \ {r} PROVE Honest(q)' /\ Locked(q)'
  <2>1. Honest(q)'
    BY <1>2, StillHonest DEF RouteInv
  <2>2. Window(q) \in Windows /\ q # Nobody
    BY AskedFor
  <2>3. Locked(q)
    BY DEF RouteInv
  <2>4. lock[Window(q)] = q => lock'[Window(q)] = q
    BY <2>2
  <2>5. reader[q].stage \in {"refresh", "reread"} => lock'[Window(q)] = q \/ q \in overstayed
    BY <2>3, <2>4 DEF Locked
  <2> QED
    BY <1>1, <1>2, <2>1, <2>5 DEF Locked
<1>6. /\ DOMAIN reader' = Asking' /\ DOMAIN lock' = Windows' /\ materialized' \in [Symbols -> SUBSET Nat]
      /\ \A y \in Symbols : materialized'[y] \subseteq Made(y)'
  BY <1>1, <1>2
<1> QED
  BY <1>1, <1>3, <1>4, <1>5, <1>6 DEF RouteInv

\* A step of one request that leaves the aggregate and the lock alone.
LEMMA OneReads ==
  ASSUME Types, RouteInv, NEW r \in Asking, UNCHANGED <<case, stored, materialized, lock, overstayed>>,
         NEW new \in Request, Becomes(r, new),
         new.rows \subseteq Made(Sym(r)), Descending(new.answer),
         new.stage = "forming" => \A k \in new.rows : k <= new.latest,
         new.stage \in {"refresh", "reread"} => reader[r].stage \in {"refresh", "reread"}
  PROVE  RouteInv'
<1>1. /\ materialized' \in [Symbols -> SUBSET Nat] /\ \A y \in Symbols : materialized'[y] \subseteq Made(y)
      /\ DOMAIN lock' = Windows /\ Locked(r)
  BY DEF RouteInv
<1>2. new.stage \in {"refresh", "reread"} => lock'[Window(r)] = r \/ r \in overstayed
  BY <1>1 DEF Locked
<1> QED
  BY <1>1, <1>2, OneReader

\* The candles of an answer are in order.
LEMMA ReplyHonest ==
  ASSUME Types, RouteInv, NEW r \in Asking, UNCHANGED <<case, stored, materialized, lock, overstayed>>,
         NEW candles \in Seq(Nat), Descending(candles), Reply(r, candles)
  PROVE  RouteInv'
<1> DEFINE status == IF reader[r].rows # {} THEN "candles" ELSE IF reader[r].raw THEN "retry" ELSE "none"
           answer == IF status = "candles" THEN candles ELSE <<>>
           new == [reader[r] EXCEPT !.stage = "answered", !.status = status, !.answer = answer]
<1>1. Honest(r) /\ reader[r] \in Request
  BY DEF RouteInv, Honest
<1>2. Becomes(r, new)
  BY DEF Reply
<1>3. answer \in Seq(Nat) /\ Descending(answer)
  BY DEF Descending
<1>4. status \in {"none", "retry", "candles"}
  OBVIOUS
<1> HIDE DEF answer, status
<1>5. new \in Request /\ new.rows = reader[r].rows /\ new.answer = answer /\ new.stage = "answered"
  BY <1>1, <1>3, <1>4 DEF Request
<1> HIDE DEF new
<1>6. new.rows \subseteq Made(Sym(r))
  BY <1>1, <1>5 DEF Honest
<1> QED
  BY <1>2, <1>3, <1>5, <1>6, OneReads

\* The rows that were read, newest first.
LEMMA RowsListed ==
  ASSUME Types, RouteInv, NEW r \in Asking
  PROVE  LET q == NewestFirst(reader[r].rows)
         IN q \in Seq(Nat) /\ Descending(q) /\ \A i \in DOMAIN q : q[i] \in reader[r].rows
<1>1. reader[r].rows \in SUBSET Nat /\ IsFiniteSet(reader[r].rows)
  <2>1. reader[r] \in Request /\ reader[r].rows \subseteq Made(Sym(r)) /\ Sym(r) \in Symbols
    BY AskedFor DEF RouteInv, Honest
  <2>2. IsFiniteSet(Made(Sym(r)))
    BY <2>1, MadeOf
  <2> QED
    BY <2>1, <2>2, FS_Subset DEF Request
<1> DEFINE q == NewestFirst(reader[r].rows)
           n == Cardinality(reader[r].rows)
<1>2. q \in [1..n -> reader[r].rows] /\ n \in Nat /\ Descending(q)
  BY <1>1, NewestFirstOf
<1> HIDE DEF q, n
<1>3. q \in Seq(Nat) /\ \A i \in DOMAIN q : q[i] \in reader[r].rows
  BY <1>1, <1>2
<1> QED
  BY <1>2, <1>3 DEF q

\* The forming candle is newer than every stored one, or takes the place of the newest.
LEMMA FormingFirst ==
  ASSUME Types, RouteInv, NEW r \in Asking, reader[r].stage = "forming"
  PROVE  LET q == WithForming(reader[r].rows, reader[r].latest) IN q \in Seq(Nat) /\ Descending(q)
<1> DEFINE q == NewestFirst(reader[r].rows)
           k == reader[r].latest
           p == <<k>> \o q
<1>1. q \in Seq(Nat) /\ Descending(q) /\ \A i \in DOMAIN q : q[i] \in reader[r].rows
  BY RowsListed
<1>2. k \in Nat /\ \A x \in reader[r].rows : x <= k
  BY DEF RouteInv, Honest, Request
<1>3. \A i \in DOMAIN q : q[i] <= k
  BY <1>1, <1>2
<1>0. WithForming(reader[r].rows, reader[r].latest) = IF q # <<>> /\ Head(q) = k THEN q ELSE p
  BY DEF WithForming
<1> HIDE DEF q, k
<1>4. /\ p \in Seq(Nat) /\ Len(q) \in Nat /\ DOMAIN p = 1..(Len(q) + 1) /\ DOMAIN q = 1..Len(q)
      /\ p[1] = k /\ \A i \in 2..(Len(q) + 1) : p[i] = q[i - 1]
  BY <1>1, <1>2
<1> HIDE DEF p
<1>5. ASSUME q = <<>> \/ Head(q) # k PROVE Descending(p)
  <2>1. \A i \in DOMAIN q : q[i] < k
    <3>1. ASSUME NEW i \in DOMAIN q PROVE q[i] < k
      <4>1. q # <<>> /\ 1 \in DOMAIN q /\ Head(q) = q[1] /\ q[1] \in Nat /\ q[i] \in Nat
        BY <1>1, <1>4
      <4>2. q[1] < k
        BY <1>2, <1>3, <1>5, <4>1
      <4>3. i = 1 \/ 1 < i
        BY <1>4
      <4>4. i = 1 \/ q[1] > q[i]
        BY <1>1, <4>1, <4>3 DEF Descending
      <4> QED
        BY <1>2, <4>1, <4>2, <4>4
    <3> QED
      BY <3>1
  <2>2. ASSUME NEW i \in DOMAIN p, NEW j \in DOMAIN p, i < j PROVE p[i] > p[j]
    <3>1. j \in 2..(Len(q) + 1) /\ j - 1 \in DOMAIN q /\ p[j] = q[j - 1] /\ q[j - 1] \in Nat
      BY <1>1, <1>4, <2>2
    <3>2. CASE i = 1
      BY <1>2, <1>4, <2>1, <3>1, <3>2
    <3>3. CASE i # 1
      <4>1. i \in 2..(Len(q) + 1) /\ i - 1 \in DOMAIN q /\ p[i] = q[i - 1] /\ i - 1 < j - 1
        BY <1>4, <2>2, <3>3
      <4> QED
        BY <1>1, <3>1, <4>1 DEF Descending
    <3> QED
      BY <3>2, <3>3
  <2> QED
    BY <2>2 DEF Descending
<1> QED
  BY <1>0, <1>1, <1>4, <1>5

LEMMA RouteSteps ==
  ASSUME Types, RouteInv, NEW r \in Asking,
         \/ Query(r) \/ Probe(r) \/ Lock(r) \/ Refresh(r) \/ Reread(r) \/ Unlock(r) \/ Poll(r)
         \/ Latest(r) \/ FormingRow(r)
  PROVE  RouteInv'
<1>0. /\ Honest(r) /\ reader[r] \in Request /\ Sym(r) \in Symbols /\ Window(r) \in Windows
      /\ Window(r) \subseteq Nat /\ DOMAIN lock = Windows /\ r # Nobody
      /\ materialized \in [Symbols -> SUBSET Nat] /\ \A y \in Symbols : materialized[y] \subseteq Made(y)
  BY AskedFor DEF RouteInv, Honest
<1>1. UNCHANGED vars => UNCHANGED <<case, stored>>
  BY DEF vars, database
<1>2. UNCHANGED ingest => UNCHANGED <<case, stored>>
  BY DEF ingest, database
<1>3. CASE Query(r)
  <2> DEFINE new == [reader[r] EXCEPT !.rows = Rows(r),
                       !.stage = IF Rows(r) = {} /\ Bounded(r) THEN "probe" ELSE "latest"]
  <2>1. Becomes(r, new) /\ UNCHANGED <<case, stored, materialized, lock, overstayed>>
    BY <1>1, <1>3 DEF Query
  <2>2. Rows(r) \subseteq Nat /\ Rows(r) \subseteq Made(Sym(r))
    BY RowsMade
  <2>3. /\ new \in Request /\ new.rows = Rows(r) /\ new.stage \in {"probe", "latest"}
        /\ new.answer = reader[r].answer
    BY <1>0, <2>2 DEF Request
  <2> HIDE DEF new
  <2> QED
    BY <1>0, <2>1, <2>2, <2>3, OneReads DEF Honest
<1>4. CASE Probe(r)
  <2>1. PICK raw \in BOOLEAN, place \in {"lock", "latest"} : Becomes(r, [reader[r] EXCEPT !.raw = raw, !.stage = place])
    <3>1. CASE Becomes(r, [reader[r] EXCEPT !.stage = "latest"])
      <4>1. [reader[r] EXCEPT !.stage = "latest"] = [reader[r] EXCEPT !.raw = reader[r].raw, !.stage = "latest"] /\ reader[r].raw \in BOOLEAN
        BY <1>0 DEF Request
      <4> QED
        BY <3>1, <4>1
    <3>2. CASE LET raw == \E b \in stored[Sym(r)] : Bucket(b) \in Window(r)
               IN Becomes(r, [reader[r] EXCEPT !.raw = raw, !.stage = IF raw THEN "lock" ELSE "latest"])
      BY <3>2
    <3> QED
      BY <1>4, <3>1, <3>2 DEF Probe
  <2> DEFINE new == [reader[r] EXCEPT !.raw = raw, !.stage = place]
  <2>2. UNCHANGED <<case, stored, materialized, lock, overstayed>>
    BY <1>1, <1>2, <1>4 DEF Probe
  <2>3. /\ new \in Request /\ new.rows = reader[r].rows /\ new.stage \in {"lock", "latest"}
        /\ new.answer = reader[r].answer
    BY <1>0 DEF Request
  <2>4. Becomes(r, new)
    BY <2>1
  <2> HIDE DEF new
  <2> QED
    BY <1>0, <2>2, <2>3, <2>4, OneReads DEF Honest
<1>5. CASE Lock(r)
  <2> DEFINE new(place) == [reader[r] EXCEPT !.stage = place]
  <2>1. \A place \in {"refresh", "poll"} :
          /\ new(place) \in Request /\ new(place).rows = reader[r].rows /\ new(place).stage = place
          /\ new(place).answer = reader[r].answer
    BY <1>0 DEF Request
  <2>2. UNCHANGED <<case, stored, materialized, overstayed>>
    BY <1>1, <1>2, <1>5 DEF Lock
  <2>3. \/ lock[Window(r)] = Nobody /\ lock' = [lock EXCEPT ![Window(r)] = r] /\ Becomes(r, new("refresh"))
        \/ UNCHANGED lock /\ Becomes(r, new("poll"))
    BY <1>5 DEF Lock
  <2> HIDE DEF new
  <2>4. CASE UNCHANGED lock /\ Becomes(r, new("poll"))
    BY <1>0, <2>1, <2>2, <2>4, OneReads DEF Honest
  <2>5. CASE lock[Window(r)] = Nobody /\ lock' = [lock EXCEPT ![Window(r)] = r] /\ Becomes(r, new("refresh"))
    <3>1. /\ DOMAIN lock' = Windows /\ lock'[Window(r)] = r
          /\ \A w \in Windows : lock'[w] = lock[w] \/ (w = Window(r) /\ lock[w] \in {Nobody, r})
      BY <1>0, <2>5
    <3>2. materialized' \in [Symbols -> SUBSET Nat] /\ \A y \in Symbols : materialized'[y] \subseteq Made(y)
      BY <1>0, <2>2
    <3>3. new("refresh") \in Request /\ new("refresh").rows \subseteq Made(Sym(r)) /\ new("refresh").stage = "refresh" /\ Descending(new("refresh").answer)
      BY <1>0, <2>1 DEF Honest
    <3> QED
      BY <2>2, <2>5, <3>1, <3>2, <3>3, OneReader
  <2> QED
    BY <2>3, <2>4, <2>5
<1>6. CASE Refresh(r)
  <2>1. UNCHANGED <<case, stored, lock, overstayed>>
    BY <1>1, <1>2, <1>6 DEF Refresh
  <2>2. materialized' \in [Symbols -> SUBSET Nat] /\ \A y \in Symbols : materialized'[y] \subseteq Made(y)
    <3>1. CASE UNCHANGED materialized
      BY <1>0, <3>1
    <3>2. CASE materialized' = [y \in Symbols |-> (materialized[y] \ Window(r)) \cup (Made(y) \cap Window(r))]
      BY <1>0, <3>2
    <3> QED
      BY <1>6, <3>1, <3>2 DEF Refresh, Made
  <2> DEFINE new(place, n) == [reader[r] EXCEPT !.stage = place, !.tries = n]
  <2>3. PICK place \in {"reread", "unlock"}, n \in Nat : Becomes(r, new(place, n))
    <3>1. reader[r].tries \in Nat /\ reader[r].tries + 1 \in Nat
      BY <1>0 DEF Request
    <3>2. CASE Becomes(r, [reader[r] EXCEPT !.stage = "reread", !.tries = @ + 1])
      <4>1. [reader[r] EXCEPT !.stage = "reread", !.tries = @ + 1] = new("reread", reader[r].tries + 1)
        BY <1>0 DEF Request
      <4> QED
        BY <3>1, <3>2, <4>1
    <3>3. CASE Becomes(r, [reader[r] EXCEPT !.stage = "unlock"])
      <4>1. [reader[r] EXCEPT !.stage = "unlock"] = new("unlock", reader[r].tries)
        BY <1>0 DEF Request
      <4> QED
        BY <3>1, <3>3, <4>1
    <3> QED
      BY <1>6, <3>2, <3>3 DEF Refresh
  <2>4. PICK nxt : nxt = new(place, n)
    OBVIOUS
  <2>5. nxt \in Request /\ nxt.rows = reader[r].rows /\ nxt.stage = place /\ nxt.answer = reader[r].answer
    BY <1>0, <2>4 DEF Request
  <2>6. Becomes(r, nxt)
    BY <2>3, <2>4
  <2> HIDE DEF new
  <2>7. lock'[Window(r)] = r \/ r \in overstayed
    BY <1>6, <2>1 DEF Refresh, At, RouteInv, Locked
  <2>8. DOMAIN lock' = Windows /\ \A w \in Windows : lock'[w] = lock[w]
    BY <1>0, <2>1
  <2>9. nxt.rows \subseteq Made(Sym(r)) /\ Descending(nxt.answer) /\ nxt.stage # "forming"
    BY <1>0, <2>5 DEF Honest
  <2> QED
    BY <2>1, <2>2, <2>5, <2>6, <2>7, <2>8, <2>9, OneReader
<1>7. CASE Reread(r)
  <2> DEFINE place == IF Rows(r) # {} \/ reader[r].tries = Attempts THEN "unlock" ELSE "refresh"
             new == [reader[r] EXCEPT !.rows = Rows(r), !.stage = place]
  <2>1. Becomes(r, new) /\ UNCHANGED <<case, stored, materialized, lock, overstayed>> /\ reader[r].stage = "reread"
    BY <1>1, <1>7 DEF Reread, At
  <2>2. Rows(r) \subseteq Nat /\ Rows(r) \subseteq Made(Sym(r)) /\ place \in {"unlock", "refresh"}
    BY RowsMade
  <2> HIDE DEF place
  <2>3. /\ new \in Request /\ new.rows = Rows(r) /\ new.stage = place /\ new.answer = reader[r].answer
    BY <1>0, <2>2 DEF Request
  <2> HIDE DEF new
  <2> QED
    BY <1>0, <2>1, <2>2, <2>3, OneReads DEF Honest
<1>8. CASE Unlock(r)
  <2> DEFINE new == [reader[r] EXCEPT !.stage = "latest"]
  <2>1. UNCHANGED <<case, stored, materialized, overstayed>> /\ Becomes(r, new)
    BY <1>1, <1>2, <1>8 DEF Unlock
  <2>2. new \in Request /\ new.rows = reader[r].rows /\ new.stage = "latest" /\ new.answer = reader[r].answer
    BY <1>0 DEF Request
  <2> HIDE DEF new
  <2>3. UNCHANGED lock \/ lock' = [lock EXCEPT ![Window(r)] = IF lock[Window(r)] = r THEN Nobody ELSE lock[Window(r)]]
    BY <1>8 DEF Unlock
  <2>4. /\ DOMAIN lock' = Windows
        /\ \A w \in Windows : lock'[w] = lock[w] \/ (w = Window(r) /\ lock[w] \in {Nobody, r})
    BY <1>0, <2>3
  <2>5. materialized' \in [Symbols -> SUBSET Nat] /\ \A y \in Symbols : materialized'[y] \subseteq Made(y)
    BY <1>0, <2>1
  <2>6. new.rows \subseteq Made(Sym(r)) /\ Descending(new.answer)
    BY <1>0, <2>2 DEF Honest
  <2> QED
    BY <2>1, <2>2, <2>4, <2>5, <2>6, OneReader
<1>9. CASE Poll(r)
  <2>0. PICK n \in Nat : n = reader[r].tries + 1
    BY <1>0 DEF Request
  <2>1. PICK place \in {"latest", "poll"} :
          Becomes(r, [reader[r] EXCEPT !.rows = Rows(r), !.tries = n, !.stage = place])
    <3>1. Becomes(r, [reader[r] EXCEPT !.rows = Rows(r), !.tries = n,
                        !.stage = IF Rows(r) # {} \/ reader[r].tries + 1 = Polls THEN "latest" ELSE "poll"])
      BY <1>0, <1>9, <2>0 DEF Poll, Request
    <3> QED
      BY <3>1
  <2> DEFINE new == [reader[r] EXCEPT !.rows = Rows(r), !.tries = n, !.stage = place]
  <2>2. Rows(r) \subseteq Nat /\ Rows(r) \subseteq Made(Sym(r))
    BY RowsMade
  <2>3. /\ new \in Request /\ new.rows = Rows(r) /\ new.stage = place /\ new.answer = reader[r].answer
    BY <1>0, <2>2 DEF Request
  <2>4. Becomes(r, new) /\ UNCHANGED <<case, stored, materialized, lock, overstayed>>
    BY <1>1, <1>9, <2>1 DEF Poll
  <2> HIDE DEF new
  <2> QED
    BY <1>0, <2>2, <2>3, <2>4, OneReads DEF Honest
<1>10. CASE Latest(r)
  <2>1. UNCHANGED <<case, stored, materialized, lock, overstayed>>
    BY <1>1, <1>2, <1>10 DEF Latest
  <2>2. CASE Reply(r, NewestFirst(reader[r].rows))
    <3>1. PICK q : q = NewestFirst(reader[r].rows)
      OBVIOUS
    <3>2. q \in Seq(Nat) /\ Descending(q) /\ Reply(r, q)
      BY <2>2, <3>1, RowsListed
    <3> QED
      BY <2>1, <3>2, ReplyHonest
  <2>3. CASE stored[Sym(r)] # {} /\ Becomes(r, [reader[r] EXCEPT !.stage = "forming", !.latest = Bucket(Greatest(stored[Sym(r)]))])
    <3>1. PICK k : k = Bucket(Greatest(stored[Sym(r)]))
      OBVIOUS
    <3>2. k \in Nat /\ \A x \in Made(Sym(r)) : x <= k
      BY <1>0, <2>3, <3>1, MadeOf
    <3> DEFINE new == [reader[r] EXCEPT !.stage = "forming", !.latest = k]
    <3>3. /\ new \in Request /\ new.rows = reader[r].rows /\ new.stage = "forming" /\ new.latest = k
          /\ new.answer = reader[r].answer
      BY <1>0, <3>2 DEF Request
    <3>4. Becomes(r, new)
      BY <2>3, <3>1
    <3> HIDE DEF new
    <3>5. new.rows \subseteq Made(Sym(r)) /\ Descending(new.answer) /\ \A x \in new.rows : x <= new.latest
      BY <1>0, <3>2, <3>3 DEF Honest
    <3> QED
      BY <2>1, <3>3, <3>4, <3>5, OneReads
  <2> QED
    BY <1>10, <2>2, <2>3 DEF Latest
<1>11. CASE FormingRow(r)
  <2>1. UNCHANGED <<case, stored, materialized, lock, overstayed>> /\ reader[r].stage = "forming"
    BY <1>1, <1>11 DEF FormingRow, At
  <2>2. PICK q : /\ q \in {WithForming(reader[r].rows, reader[r].latest), NewestFirst(reader[r].rows)}
                 /\ Reply(r, q)
    BY <1>11 DEF FormingRow
  <2>3. q \in Seq(Nat) /\ Descending(q)
    BY <2>1, <2>2, RowsListed, FormingFirst
  <2> QED
    BY <2>1, <2>2, <2>3, ReplyHonest
<1> QED
  BY <1>3, <1>4, <1>5, <1>6, <1>7, <1>8, <1>9, <1>10, <1>11

LEMMA LockExpiresRoute ==
  ASSUME Types, RouteInv, NEW w \in Windows, LockExpires(w)
  PROVE  RouteInv'
<1>1. /\ UNCHANGED <<case, stored, materialized, reader>> /\ overstayed' = overstayed \cup {lock[w]}
      /\ lock' = [lock EXCEPT ![w] = Nobody]
  BY DEF LockExpires, ingest, database
<1>2. /\ Asking' = Asking /\ Windows' = Windows /\ \A r \in Asking : Window(r)' = Window(r)
      /\ \A y \in Symbols : Made(y)' = Made(y)
  BY <1>1 DEF Asking, Windows, Window, Made, Bucket
<1>3. ASSUME NEW r \in Asking PROVE Honest(r)' /\ Locked(r)'
  <2>1. Honest(r)'
    BY <1>1, StillHonest DEF RouteInv
  <2>2. Locked(r) /\ Window(r) \in Windows
    BY AskedFor DEF RouteInv
  <2>3. lock[Window(r)] = r => lock'[Window(r)] = r \/ r \in overstayed'
    BY <1>1, <2>2 DEF RouteInv
  <2> QED
    BY <1>1, <1>2, <2>1, <2>2, <2>3 DEF Locked
<1> QED
  BY <1>1, <1>2, <1>3 DEF RouteInv

LEMMA RouteStep ==
  ASSUME LoadInv, RouteInv, [ChartsNext]_<<vars, chartVars>>
  PROVE  RouteInv'
<1>0. Types /\ case' = case /\ \A y \in Symbols : stored[y] \subseteq stored'[y]
  BY ServerSteps, ServerGrows DEF LoadInv
<1>1. CASE UNCHANGED route
  BY <1>0, <1>1, QuietRoute
<1>2. CASE \E r \in Asking :
             \/ Query(r) \/ Probe(r) \/ Lock(r) \/ Refresh(r) \/ Reread(r) \/ Unlock(r) \/ Poll(r)
             \/ Latest(r) \/ FormingRow(r)
  BY <1>0, <1>2, RouteSteps
<1>3. CASE \E w \in Windows : LockExpires(w)
  BY <1>0, <1>3, LockExpiresRoute
<1> QED
  BY <1>1, <1>2, <1>3
     DEF ChartsNext, LiveBar, RestartIngest, UpdateReads, UpdateWrites, UpdateFails, chartVars

\* historical.py: what a request has read is made of stored bars and newest first, and a lock in
\* Redis names the request that refreshes, or one whose time to live ran out.
THEOREM RouteIsKept == ChartsSpec => []RouteInv
<1>1. ChartsInit => RouteInv
  <2>1. SUFFICES ASSUME ChartsInit PROVE RouteInv
    OBVIOUS
  <2>2. /\ DOMAIN reader = Asking /\ DOMAIN lock = Windows /\ materialized = [y \in Symbols |-> {}]
        /\ \A r \in Asking : reader[r] = Fresh
    BY <2>1 DEF ChartsInit
  <2>3. Fresh \in Request /\ Fresh.rows = {} /\ Fresh.stage = "query" /\ Descending(Fresh.answer)
    BY DEF Fresh, Request, Descending
  <2> QED
    BY <2>2, <2>3 DEF RouteInv, Honest, Locked
<1>2. LoadInv /\ RouteInv /\ [ChartsNext]_<<vars, chartVars>> => RouteInv'
  BY RouteStep
<1> QED
  BY <1>1, <1>2, JobsAreKept, PTL DEF ChartsSpec

\* historical.py:260: two requests refresh one window at the same time only when a lock ran out
\* in the hands of one of them (cagg_refresh_lock, SET NX with an expiry, compare and delete).
THEOREM WindowsAreRefreshedAlone == ChartsSpec => []RefreshedAlone
<1>1. RouteInv => RefreshedAlone
  <2>1. SUFFICES ASSUME RouteInv, NEW r \in Asking, NEW q \in Asking, r # q, Window(r) = Window(q),
                        reader[r].stage \in {"refresh", "reread"}, reader[q].stage \in {"refresh", "reread"}
                 PROVE  r \in overstayed \/ q \in overstayed
    BY DEF RefreshedAlone
  <2>2. Locked(r) /\ Locked(q)
    BY <2>1 DEF RouteInv
  <2> QED
    BY <2>1, <2>2 DEF Locked
<1> QED
  BY <1>1, RouteIsKept, PTL

\* historical.py:430: the candles of an answer are in order and no time is there twice.
THEOREM AnswersAreInOrder == ChartsSpec => []AnswerInOrder
<1>1. RouteInv => AnswerInOrder
  BY DEF RouteInv, Honest, Descending, AnswerInOrder
<1> QED
  BY <1>1, RouteIsKept, PTL

----------------------------------------------------------------------------
\* The candle that forms.

Summary == [open : Nat, counted : Seq(Nat), last : Nat]
Update == [by : Sessions, sym : Symbols, bar : Nat, stage : {"read", "write"}, got : Summary]

\* The updates of a candle that have not ended.
OfBucket(y, k) == {u \in updates : u.sym = y /\ Bucket(u.bar) = k}

\* A bar is counted, and stays so whichever update writes next.
Counted(U, state, b) ==
  b \in ToSet(state.counted) /\ \A u \in U : u.stage = "write" => b \in ToSet(u.got.counted)

\* Its update is the only one, no later bar was counted, and what it read still holds.
Alone(U, state, b) ==
  \E u \in U : /\ u.bar = b /\ U = {u}
               /\ state = Absent \/ state.last < b
               /\ u.stage = "write" => u.got = state

Fate(y, b) ==
  LET U == OfBucket(y, Bucket(b))
      state == State(y, Bucket(b))
  IN <<y, b>> \in muddled \/ Counted(U, state, b) \/ Alone(U, state, b)

\* What an update has read ends before its own bar.
Begun(u) ==
  /\ u.bar \in handed[u.sym]
  /\ u.stage = "write" => IsInjective(u.got.counted) /\ \A c \in ToSet(u.got.counted) : c < u.bar

\* The last bar of a candle is one of its own that was handed over.
Formed(y, k) ==
  LET state == forming[y][k]
  IN /\ state \in Summary /\ state # Absent
     /\ state.last \in handed[y] /\ Bucket(state.last) = k
     /\ IsInjective(state.counted) /\ \A c \in ToSet(state.counted) : c <= state.last

FormInv ==
  /\ updates \subseteq Update /\ DOMAIN forming = Symbols /\ handed \in [Symbols -> SUBSET Nat]
  /\ \A u \in updates : Begun(u)
  /\ \A y \in Symbols : \A k \in DOMAIN forming[y] : Formed(y, k)
  /\ \A y \in Symbols : \A b \in handed[y] : Fate(y, b)

\* A candle that nobody has written counts nothing.
LEMMA StateOf ==
  ASSUME FormInv, NEW y \in Symbols, NEW k
  PROVE  LET state == State(y, k)
         IN /\ state \in Summary /\ IsInjective(state.counted)
            /\ state = Absent => ToSet(state.counted) = {}
            /\ state # Absent => /\ state.last \in handed[y] /\ Bucket(state.last) = k
                                 /\ \A c \in ToSet(state.counted) : c <= state.last
<1>1. Absent \in Summary /\ IsInjective(Absent.counted) /\ ToSet(Absent.counted) = {}
  BY DEF Absent, Summary, IsInjective, ToSet
<1>2. CASE k \in DOMAIN forming[y]
  <2>1. State(y, k) = forming[y][k] /\ Formed(y, k)
    BY <1>2 DEF State, FormInv
  <2> QED
    BY <2>1 DEF Formed
<1>3. CASE k \notin DOMAIN forming[y]
  <2>1. State(y, k) = Absent
    BY <1>3 DEF State
  <2> QED
    BY <1>1, <2>1
<1> QED
  BY <1>2, <1>3

\* A step that does not concern the candle of a bar.
LEMMA OtherFate ==
  ASSUME NEW y, NEW b, Fate(y, b), muddled \subseteq muddled',
         OfBucket(y, Bucket(b))' = OfBucket(y, Bucket(b)), State(y, Bucket(b))' = State(y, Bucket(b))
  PROVE  Fate(y, b)'
BY DEF Fate, Bucket

LEMMA QuietForm ==
  ASSUME FormInv, UNCHANGED buckets
  PROVE  FormInv'
<1>1. UNCHANGED <<updates, forming, handed, muddled>>
  BY DEF buckets
<1> QED
  BY <1>1 DEF FormInv, Begun, Formed, Fate, OfBucket, State, Bucket

\* A live bar starts an update; the others of its candle are no longer alone.
LEMMA LiveBarForm ==
  ASSUME Types, Dated, FormInv, NEW s \in Sessions, LiveBar(s)
  PROVE  FormInv'
<1>1. PICK m : m = Head(toServer[s])
  OBVIOUS
<1>2. m.type = "live" /\ m \in Frame /\ Reads(s)
  BY <1>1, ReadsOne DEF LiveBar, ServeLive
<1>3. PICK y \in Symbols : y = m.sym
  BY <1>2, FrameFields
<1>4. PICK b \in Nat : b = m.bar
  BY <1>2, FrameFields
<1>5. CASE UNCHANGED <<updates, handed, muddled>>
  BY <1>5, QuietForm DEF LiveBar, buckets
<1>6. CASE ~UNCHANGED <<updates, handed, muddled>>
  <2> DEFINE run == OfBucket(y, Bucket(b))
             late == b \notin handed[y] /\ \E c \in handed[y] : c > b
  <2>1. PICK u : u = [by |-> s, sym |-> y, bar |-> b, stage |-> "read", got |-> Absent]
    OBVIOUS
  <2>2. /\ updates' = updates \cup {u} /\ handed' = [handed EXCEPT ![y] = handed[y] \cup {b}]
        /\ muddled' = muddled \cup {<<y, v.bar>> : v \in run} \cup IF run # {} \/ late THEN {<<y, b>>} ELSE {}
        /\ UNCHANGED forming
    BY <1>1, <1>3, <1>4, <1>6, <2>1 DEF LiveBar, FormInv, OfBucket
  <2>3. u \in Update /\ u.sym = y /\ u.bar = b /\ u.stage = "read"
    BY <2>1 DEF Update, Summary, Absent
  <2>4. /\ handed' \in [Symbols -> SUBSET Nat] /\ handed'[y] = handed[y] \cup {b}
        /\ \A x \in Symbols \ {y} : handed'[x] = handed[x]
    BY <2>2 DEF FormInv
  <2>5. \A x \in Symbols : handed[x] \subseteq handed'[x]
    BY <2>4
  <2>6. ASSUME NEW v \in updates' PROVE Begun(v)'
    <3>1. CASE v = u
      BY <2>3, <2>4, <3>1 DEF Begun
    <3>2. CASE v \in updates
      <4>1. Begun(v) /\ v.sym \in Symbols
        BY <3>2 DEF FormInv, Update
      <4> QED
        BY <2>5, <4>1 DEF Begun
    <3> QED
      BY <2>2, <3>1, <3>2
  <2>7. ASSUME NEW x \in Symbols, NEW k \in DOMAIN forming'[x] PROVE Formed(x, k)'
    BY <2>2, <2>5 DEF FormInv, Formed, Bucket
  <2>8. \A x \in Symbols, k \in Nat : State(x, k)' = State(x, k)
    BY <2>2 DEF State
  <2>9. /\ OfBucket(y, Bucket(b))' = run \cup {u}
        /\ \A x \in Symbols, k \in Nat : x # y \/ k # Bucket(b) => OfBucket(x, k)' = OfBucket(x, k)
    BY <2>2, <2>3 DEF OfBucket, Bucket
  <2>10. muddled \subseteq muddled'
    BY <2>2
  <2>11. ASSUME NEW x \in Symbols, NEW c \in handed'[x] PROVE Fate(x, c)'
    <3>0. c \in Nat /\ Bucket(c) \in Nat /\ Bucket(c)' = Bucket(c) /\ Bucket(b) \in Nat
      BY <2>4, BucketOf DEF Bucket
    <3>1. CASE x # y \/ Bucket(c) # Bucket(b)
      <4>1. c \in handed[x]
        BY <2>4, <3>1
      <4>2. OfBucket(x, Bucket(c))' = OfBucket(x, Bucket(c)) /\ State(x, Bucket(c))' = State(x, Bucket(c))
        BY <2>8, <2>9, <3>0, <3>1 DEF OfBucket, State, Bucket
      <4> QED
        BY <2>10, <4>1, <4>2, OtherFate DEF FormInv
    <3>2. CASE x = y /\ Bucket(c) = Bucket(b)
      <4> DEFINE state == State(y, Bucket(b))
      <4>1. OfBucket(x, Bucket(c))' = run \cup {u} /\ State(x, Bucket(c))' = state
        BY <2>8, <2>9, <3>0, <3>2 DEF OfBucket, State, Bucket
      <4>2. SUFFICES <<y, c>> \in muddled' \/ Counted(run \cup {u}, state, c) \/ Alone(run \cup {u}, state, c)
        BY <3>0, <3>2, <4>1 DEF Fate
      <4> HIDE DEF run
      <4>3. CASE c \in handed[y]
        <5>1. <<y, c>> \in muddled \/ Counted(run, state, c) \/ Alone(run, state, c)
          BY <3>2, <4>3 DEF FormInv, Fate, run
        <5>2. Counted(run, state, c) => Counted(run \cup {u}, state, c)
          BY <2>3 DEF Counted
        <5>3. Alone(run, state, c) => <<y, c>> \in muddled'
          BY <2>2 DEF Alone
        <5> QED
          BY <2>10, <5>1, <5>2, <5>3
      <4>4. CASE c \notin handed[y]
        <5>1. c = b
          BY <2>4, <3>2, <4>4
        <5>2. CASE run # {} \/ late
          BY <2>2, <5>1, <5>2
        <5>3. CASE run = {} /\ ~late
          <6>1. \A a \in handed[y] : a < b
            <7>1. handed[y] \subseteq Nat
              BY DEF FormInv
            <7> QED
              BY <4>4, <5>1, <5>3, <7>1
          <6>2. state = Absent \/ state.last < b
            BY <6>1, StateOf
          <6>3. Alone(run \cup {u}, state, c)
            BY <2>3, <5>1, <5>3, <6>2 DEF Alone
          <6> QED
            BY <6>3
        <5> QED
          BY <5>2, <5>3
      <4> QED
        BY <4>3, <4>4
    <3> QED
      BY <3>1, <3>2
  <2>12. updates' \subseteq Update /\ DOMAIN forming' = Symbols
    BY <2>2, <2>3 DEF FormInv
  <2> QED
    BY <2>4, <2>6, <2>7, <2>11, <2>12 DEF FormInv
<1> QED
  BY <1>5, <1>6

\* An update reads the candle, or ends when a bar no earlier than its own was counted.
LEMMA UpdateReadsForm ==
  ASSUME FormInv, NEW u \in updates, UpdateReads(u)
  PROVE  FormInv'
<1>1. PICK y \in Symbols : y = u.sym
  BY DEF FormInv, Update
<1>2. PICK b \in Nat : b = u.bar
  BY DEF FormInv, Update
<1> DEFINE state == State(y, Bucket(b))
<1>3. PICK w : w = [u EXCEPT !.stage = "write", !.got = state]
  OBVIOUS
<1>4. PICK more : /\ more = IF state # Absent /\ state.last >= b THEN {} ELSE {w}
                  /\ updates' = (updates \ {u}) \cup more /\ UNCHANGED <<forming, handed, muddled>> /\ u.stage = "read"
  BY <1>1, <1>2, <1>3 DEF UpdateReads
<1>5. /\ state \in Summary /\ IsInjective(state.counted) /\ (state = Absent => ToSet(state.counted) = {})
      /\ state # Absent => \A c \in ToSet(state.counted) : c <= state.last
      /\ state # Absent => state.last \in Nat
  <2>1. handed[y] \subseteq Nat
    BY DEF FormInv
  <2> QED
    BY <2>1, StateOf
<1> HIDE DEF state
<1>6. w \in Update /\ w.sym = y /\ w.bar = b /\ w.stage = "write" /\ w.got = state
  <2>1. u \in Update
    BY DEF FormInv
  <2> QED
    BY <1>1, <1>2, <1>3, <1>5, <2>1 DEF Update
<1>7. ASSUME NEW v \in updates' PROVE Begun(v)'
  <2>1. CASE v \in more
    <3>1. v = w /\ ~(state # Absent /\ state.last >= b)
      BY <1>4, <2>1
    <3>2. \A c \in ToSet(state.counted) : c < b
      <4>1. ToSet(state.counted) \subseteq Nat
        BY <1>5 DEF Summary, ToSet
      <4> QED
        BY <1>5, <3>1, <4>1
    <3>3. b \in handed[y]
      BY <1>1, <1>2 DEF FormInv, Begun
    <3> QED
      BY <1>4, <1>5, <1>6, <3>1, <3>2, <3>3 DEF Begun
  <2>2. CASE v \in updates
    BY <1>4, <2>2 DEF FormInv, Begun
  <2> QED
    BY <1>4, <2>1, <2>2
<1>8. \A x, k : State(x, k)' = State(x, k)
  BY <1>4 DEF State
<1>9. /\ OfBucket(y, Bucket(b))' = (OfBucket(y, Bucket(b)) \ {u}) \cup more
      /\ \A x \in Symbols, k \in Nat : x # y \/ k # Bucket(b) => OfBucket(x, k)' = OfBucket(x, k)
      /\ u \in OfBucket(y, Bucket(b))
  BY <1>1, <1>2, <1>4, <1>6 DEF OfBucket, Bucket
<1>10. ASSUME NEW x \in Symbols, NEW c \in handed'[x] PROVE Fate(x, c)'
  <2>0. c \in handed[x] /\ c \in Nat /\ Bucket(c) \in Nat /\ Bucket(c)' = Bucket(c)
    BY <1>4, BucketOf DEF FormInv, Bucket
  <2>00. Fate(x, c)
    BY <2>0 DEF FormInv
  <2>1. CASE x # y \/ Bucket(c) # Bucket(b)
    <3>1. OfBucket(x, Bucket(c))' = OfBucket(x, Bucket(c)) /\ State(x, Bucket(c))' = State(x, Bucket(c))
      BY <1>8, <1>9, <2>0, <2>1 DEF OfBucket, State, Bucket
    <3> QED
      BY <1>4, <2>00, <3>1, OtherFate
  <2>2. CASE x = y /\ Bucket(c) = Bucket(b)
    <3> DEFINE U == OfBucket(y, Bucket(b))
               V == (U \ {u}) \cup more
    <3>1. OfBucket(x, Bucket(c))' = V /\ State(x, Bucket(c))' = state
      BY <1>8, <1>9, <2>0, <2>2 DEF OfBucket, State, Bucket, state
    <3>2. SUFFICES <<y, c>> \in muddled' \/ Counted(V, state, c) \/ Alone(V, state, c)
      BY <2>0, <2>2, <3>1 DEF Fate
    <3>3. <<y, c>> \in muddled \/ Counted(U, state, c) \/ Alone(U, state, c)
      BY <2>00, <2>2 DEF Fate, state
    <3>4. u \in U
      BY <1>9
    <3> HIDE DEF U
    <3>5. ASSUME Counted(U, state, c) PROVE Counted(V, state, c)
      <4>1. \A v \in more : v.got = state
        BY <1>4, <1>6
      <4> QED
        BY <3>5, <4>1 DEF Counted
    <3>6. ASSUME Alone(U, state, c) PROVE Alone(V, state, c)
      <4>1. U = {u} /\ c = b /\ (state = Absent \/ state.last < b)
        BY <1>2, <3>4, <3>6 DEF Alone
      <4>2. more = {w}
        BY <1>4, <1>5, <4>1
      <4> QED
        BY <1>6, <4>1, <4>2 DEF Alone
    <3> QED
      BY <1>4, <3>3, <3>5, <3>6
  <2> QED
    BY <2>1, <2>2
<1>11. updates' \subseteq Update
  BY <1>4, <1>6 DEF FormInv
<1>12. \A x \in Symbols : \A k \in DOMAIN forming'[x] : Formed(x, k)'
  BY <1>4 DEF FormInv, Formed, Bucket
<1> QED
  BY <1>4, <1>7, <1>10, <1>11, <1>12 DEF FormInv

\* An update writes what it read and its own bar.
LEMMA UpdateWritesForm ==
  ASSUME FormInv, NEW u \in updates, UpdateWrites(u)
  PROVE  FormInv'
<1>0. u \in Update /\ Begun(u)
  BY DEF FormInv
<1>1. PICK y \in Symbols : y = u.sym
  BY <1>0 DEF Update
<1>2. PICK b \in Nat : b = u.bar
  BY <1>0 DEF Update
<1>3. PICK state : state = [open |-> IF u.got = Absent THEN b ELSE State(y, Bucket(b)).open,
                            counted |-> Append(u.got.counted, b), last |-> b]
  OBVIOUS
<1>4. /\ forming' = [forming EXCEPT ![y] = [i \in DOMAIN forming[y] \cup {Bucket(b)} |->
                       IF i = Bucket(b) THEN state ELSE forming[y][i]]]
      /\ updates' = updates \ {u} /\ UNCHANGED <<handed, muddled>> /\ u.stage = "write"
  BY <1>1, <1>2, <1>3 DEF UpdateWrites, FormInv
<1>5. /\ u.got.counted \in Seq(Nat) /\ IsInjective(u.got.counted) /\ (\A c \in ToSet(u.got.counted) : c < b)
      /\ b \in handed[y]
  BY <1>0, <1>1, <1>2, <1>4 DEF Begun, Update, Summary
<1>6. /\ state.counted \in Seq(Nat) /\ state.counted = Append(u.got.counted, b) /\ state.last = b
      /\ ToSet(state.counted) = ToSet(u.got.counted) \cup {b} /\ IsInjective(state.counted)
  <2>1. b \notin ToSet(u.got.counted)
    BY <1>5
  <2> QED
    BY <1>3, <1>5, <2>1, AppendSet
<1>7. state \in Summary
  <2>1. State(y, Bucket(b)) \in Summary
    BY StateOf
  <2>2. (IF u.got = Absent THEN b ELSE State(y, Bucket(b)).open) \in Nat
    BY <2>1 DEF Summary
  <2> QED
    BY <1>3, <1>6, <2>2 DEF Summary
<1>8. state # Absent
  <2>1. ToSet(Absent.counted) = {}
    BY DEF Absent, ToSet
  <2> QED
    BY <1>6, <2>1
<1>9. /\ DOMAIN forming' = Symbols /\ \A x \in Symbols \ {y} : forming'[x] = forming[x]
      /\ DOMAIN forming'[y] = DOMAIN forming[y] \cup {Bucket(b)} /\ forming'[y][Bucket(b)] = state
      /\ \A k \in DOMAIN forming[y] : k # Bucket(b) => forming'[y][k] = forming[y][k]
  BY <1>4 DEF FormInv
<1>10. ASSUME NEW x \in Symbols, NEW k \in DOMAIN forming'[x] PROVE Formed(x, k)'
  <2>1. CASE x = y /\ k = Bucket(b)
    <3>1. \A c \in ToSet(state.counted) : c <= b
      <4>1. ToSet(u.got.counted) \subseteq Nat
        BY <1>5 DEF ToSet
      <4> QED
        BY <1>5, <1>6, <4>1
    <3>2. forming'[x][k] = state /\ b \in handed'[x] /\ Bucket(b)' = k
      BY <1>4, <1>5, <1>9, <2>1 DEF Bucket
    <3> QED
      BY <1>6, <1>7, <1>8, <3>1, <3>2 DEF Formed, Bucket
  <2>2. CASE x # y \/ k # Bucket(b)
    <3>1. k \in DOMAIN forming[x] /\ forming'[x][k] = forming[x][k]
      BY <1>9, <2>2
    <3> QED
      BY <1>4, <3>1 DEF FormInv, Formed, Bucket
  <2> QED
    BY <2>1, <2>2
<1>11. /\ State(y, Bucket(b))' = state
       /\ \A x \in Symbols, k \in Nat : x # y \/ k # Bucket(b) => State(x, k)' = State(x, k)
  BY <1>9 DEF State, Bucket
<1>12. /\ OfBucket(y, Bucket(b))' = OfBucket(y, Bucket(b)) \ {u}
       /\ \A x \in Symbols, k \in Nat : x # y \/ k # Bucket(b) => OfBucket(x, k)' = OfBucket(x, k)
       /\ u \in OfBucket(y, Bucket(b))
  BY <1>1, <1>2, <1>4 DEF OfBucket, Bucket
<1>13. ASSUME NEW x \in Symbols, NEW c \in handed'[x] PROVE Fate(x, c)'
  <2>0. c \in handed[x] /\ c \in Nat /\ Bucket(c) \in Nat /\ Bucket(c)' = Bucket(c)
    BY <1>4, BucketOf DEF FormInv, Bucket
  <2>00. Fate(x, c)
    BY <2>0 DEF FormInv
  <2>1. CASE x # y \/ Bucket(c) # Bucket(b)
    <3>1. OfBucket(x, Bucket(c))' = OfBucket(x, Bucket(c)) /\ State(x, Bucket(c))' = State(x, Bucket(c))
      BY <1>11, <1>12, <2>0, <2>1 DEF OfBucket, State, Bucket
    <3> QED
      BY <1>4, <2>00, <3>1, OtherFate
  <2>2. CASE x = y /\ Bucket(c) = Bucket(b)
    <3> DEFINE U == OfBucket(y, Bucket(b))
               old == State(y, Bucket(b))
    <3>1. OfBucket(x, Bucket(c))' = U \ {u} /\ State(x, Bucket(c))' = state
      BY <1>11, <1>12, <2>0, <2>2 DEF OfBucket, State, Bucket
    <3>2. SUFFICES <<y, c>> \in muddled' \/ Counted(U \ {u}, state, c)
      BY <2>0, <2>2, <3>1 DEF Fate
    <3>3. <<y, c>> \in muddled \/ Counted(U, old, c) \/ Alone(U, old, c)
      BY <2>00, <2>2 DEF Fate
    <3>4. u \in U
      BY <1>12
    <3> HIDE DEF U, old
    <3>5. Counted(U, old, c) => Counted(U \ {u}, state, c)
      BY <1>4, <1>6, <3>4 DEF Counted
    <3>6. ASSUME Alone(U, old, c) PROVE Counted(U \ {u}, state, c)
      <4>1. U = {u} /\ c = b
        BY <1>2, <3>4, <3>6 DEF Alone
      <4> QED
        BY <1>6, <4>1 DEF Counted
    <3> QED
      BY <1>4, <3>3, <3>5, <3>6
  <2> QED
    BY <2>1, <2>2
<1>14. updates' \subseteq Update /\ \A v \in updates' : Begun(v)'
  BY <1>4 DEF FormInv, Begun
<1>15. handed' \in [Symbols -> SUBSET Nat]
  BY <1>4 DEF FormInv
<1> QED
  BY <1>9, <1>10, <1>13, <1>14, <1>15 DEF FormInv

\* Updates end without writing, and what they were to count is lost.
LEMMA UpdatesLostForm ==
  ASSUME FormInv, NEW lost \in SUBSET updates, updates' = updates \ lost, UNCHANGED <<forming, handed>>,
         muddled' = muddled \cup {<<u.sym, u.bar>> : u \in lost}
  PROVE  FormInv'
<1>1. ASSUME NEW x \in Symbols, NEW c \in handed'[x] PROVE Fate(x, c)'
  <2> DEFINE k == Bucket(c)
             U == OfBucket(x, k)
             state == State(x, k)
  <2>1. Fate(x, c)
    BY <1>1 DEF FormInv
  <2>2. <<x, c>> \in muddled \/ Counted(U, state, c) \/ Alone(U, state, c)
    BY <2>1 DEF Fate
  <2>3. OfBucket(x, Bucket(c))' = U \ lost /\ State(x, Bucket(c))' = state
    BY DEF OfBucket, State, Bucket
  <2>4. \A u \in U : u.sym = x
    BY DEF OfBucket
  <2>5. SUFFICES <<x, c>> \in muddled' \/ Counted(U \ lost, state, c) \/ Alone(U \ lost, state, c)
    BY <2>3 DEF Fate
  <2> HIDE DEF U, state
  <2>6. Counted(U, state, c) => Counted(U \ lost, state, c)
    BY DEF Counted
  <2>7. ASSUME Alone(U, state, c) PROVE <<x, c>> \in muddled' \/ Alone(U \ lost, state, c)
    <3>1. PICK u \in U : /\ u.bar = c /\ U = {u} /\ (state = Absent \/ state.last < c)
                         /\ u.stage = "write" => u.got = state
      BY <2>7 DEF Alone
    <3>2. CASE u \in lost
      BY <2>4, <3>1, <3>2
    <3>3. CASE u \notin lost
      <4>1. U \ lost = {u}
        BY <3>1, <3>3
      <4> QED
        BY <3>1, <4>1 DEF Alone
    <3> QED
      BY <3>2, <3>3
  <2> QED
    BY <2>2, <2>6, <2>7
<1>2. updates' \subseteq Update /\ \A v \in updates' : Begun(v)'
  BY DEF FormInv, Begun
<1>3. \A x \in Symbols : \A k \in DOMAIN forming'[x] : Formed(x, k)'
  BY DEF FormInv, Formed, Bucket
<1> QED
  BY <1>1, <1>2, <1>3 DEF FormInv

LEMMA FormStep ==
  ASSUME LoadInv, FormInv, [ChartsNext]_<<vars, chartVars>>
  PROVE  FormInv'
<1>1. CASE UNCHANGED buckets
  BY <1>1, QuietForm
<1>2. CASE \E s \in Sessions : LiveBar(s)
  BY <1>2, LiveBarForm DEF LoadInv
<1>3. CASE RestartIngest
  <2>1. updates' = updates \ updates
    BY <1>3 DEF RestartIngest
  <2> QED
    BY <1>3, <2>1, UpdatesLostForm DEF RestartIngest
<1>4. ASSUME NEW u \in updates, UpdateFails(u) PROVE FormInv'
  <2>1. {<<v.sym, v.bar>> : v \in {u}} = {<<u.sym, u.bar>>}
    OBVIOUS
  <2>2. {u} \in SUBSET updates
    OBVIOUS
  <2>3. updates' = updates \ {u} /\ UNCHANGED <<forming, handed>> /\ muddled' = muddled \cup {<<v.sym, v.bar>> : v \in {u}}
    BY <1>4, <2>1 DEF UpdateFails
  <2> QED
    BY <2>2, <2>3, UpdatesLostForm
<1>5. CASE \E u \in updates : UpdateReads(u) \/ UpdateWrites(u) \/ UpdateFails(u)
  BY <1>4, <1>5, UpdateReadsForm, UpdateWritesForm
<1> QED
  BY <1>1, <1>2, <1>3, <1>5
     DEF ChartsNext, Query, Probe, Lock, Refresh, Reread, Unlock, Poll, Latest, FormingRow, LockExpires, chartVars

\* mt5_ingest.py, _update_forming_state_from_closed_m1: an update reads what was counted and writes
\* it with its own bar; while it is alone in its candle nothing is lost between the two.
THEOREM CandlesAreKept == ChartsSpec => []FormInv
<1>1. ChartsInit => FormInv
  <2>1. SUFFICES ASSUME ChartsInit PROVE FormInv
    OBVIOUS
  <2>2. /\ updates = {} /\ forming = [y \in Symbols |-> [k \in {} |-> Absent]] /\ handed = [y \in Symbols |-> {}]
    BY <2>1 DEF ChartsInit
  <2> QED
    BY <2>2 DEF FormInv
<1>2. LoadInv /\ FormInv /\ [ChartsNext]_<<vars, chartVars>> => FormInv'
  BY FormStep
<1> QED
  BY <1>1, <1>2, JobsAreKept, PTL DEF ChartsSpec

\* mt5_ingest.py:216 and historical.py:430: the forming candle counts no minute twice, and counts
\* every live bar whose update is over, unless that one met another update of the candle, came
\* after a later minute, or failed; and an answer has each candle once, in order.
THEOREM ChartsTellTheTruth == ChartsSpec => []ChartsAreTrue
<1>1. FormInv => FormingCounts
  <2>1. SUFFICES ASSUME FormInv, NEW y \in Symbols
                 PROVE  /\ \A k \in DOMAIN forming[y] : IsInjective(forming[y][k].counted)
                        /\ \A b \in handed[y] :
                             <<y, b>> \in muddled \/ (\E u \in updates : u.sym = y /\ u.bar = b)
                               \/ b \in ToSet(State(y, Bucket(b)).counted)
    BY DEF FormingCounts
  <2>2. \A k \in DOMAIN forming[y] : IsInjective(forming[y][k].counted)
    BY <2>1 DEF FormInv, Formed
  <2>3. ASSUME NEW b \in handed[y]
        PROVE  <<y, b>> \in muddled \/ (\E u \in updates : u.sym = y /\ u.bar = b)
                 \/ b \in ToSet(State(y, Bucket(b)).counted)
    <3>1. Fate(y, b)
      BY <2>1 DEF FormInv
    <3> QED
      BY <3>1 DEF Fate, Counted, Alone, OfBucket
  <2> QED
    BY <2>2, <2>3
<1> QED
  BY <1>1, CandlesAreKept, AnswersAreInOrder, PTL DEF ChartsAreTrue

----------------------------------------------------------------------------
\* The history of a symbol has no hole.

\* What is there, or may be missing.
Kept(y) == stored[y] \cup excused[y]
Complete(y, n) == \A c \in Nat : c < n => c \in Kept(y)

\* What a frame writes, and up to where it says that history is complete.  What an operator asked
\* for says nothing: it may be anything.
Writes(m, y, c) == \/ m.type = "chunk" /\ ~m.job.manual /\ m.job.sym = y /\ m.bar = c
                   \/ m.type = "live" /\ m.sym = y /\ m.bar = c
Reaches(m, y, n) == \/ Writes(m, y, n)
                    \/ /\ m.type \in {"end", "failed"} /\ ~m.job.manual
                       /\ m.job.tf = "M1" /\ m.job.sym = y /\ m.job.to = n

\* Once the first i frames are read, history is complete up to n.
Reached(q, i, y, n) ==
  \A c \in Nat : c < n => c \in Kept(y) \/ \E k \in 1..i : Writes(q[k], y, c)

Framed(q) == \A i \in DOMAIN q, y \in Symbols, n \in Nat : Reaches(q[i], y, n) => Reached(q, i - 1, y, n)

\* The frames on their way leave no hole; a bridge sends live bars only after everything older; a
\* job begins where history is complete, and a symbol without one is complete up to the connect.
Listening(s) == \A y \in listens[s] : Reached(toServer[s], Len(toServer[s]), y, clock)
Starts(s) ==
  \A j \in Pending(s) \cup Hand(s) \cup ToSet(requests[s]) : j.tf = "M1" /\ ~j.manual => Complete(j.sym, j.from)
Covers(s) ==
  /\ \A j \in Pending(s) : j.to = connectedAt[s]
  /\ stage[s] = "loop" =>
       \A y \in asked[s] : Complete(y, connectedAt[s]) \/ \E j \in Pending(s) : j.tf = "M1" /\ j.sym = y
Solid(s) == /\ Framed(toServer[s]) /\ Listening(s) /\ Starts(s) /\ Covers(s)
            /\ ~alive[s] => listens[s] = {}

Whole == \A y \in Symbols : \A a \in stored[y] : Complete(y, a)
HoleInv == LoadInv /\ Whole /\ \A s \in Sessions : Solid(s)

KeptGrows == \A y \in Symbols : Kept(y) \subseteq Kept(y)'

LEMMA StillComplete ==
  ASSUME KeptGrows, NEW y \in Symbols, NEW n, Complete(y, n)
  PROVE  Complete(y, n)'
BY DEF KeptGrows, Complete

LEMMA StillWhole ==
  ASSUME Types, Whole, KeptGrows, UNCHANGED stored
  PROVE  Whole'
BY StillComplete DEF Whole

\* Nothing that is kept is lost again.
LEMMA KeptStep ==
  ASSUME LoadInv, Next \/ UNCHANGED ingest
  PROVE  KeptGrows
<1>0. excused \in [Symbols -> SUBSET Nat] /\ Types
  BY DEF LoadInv, Types
<1>1. SUFFICES \A y \in Symbols : excused[y] \subseteq excused'[y]
  BY ServerGrows DEF KeptGrows, Kept
<1>2. CASE UNCHANGED excused
  BY <1>2
<1>5. ASSUME NEW s \in Sessions, Setup(s) PROVE \A y \in Symbols : excused[y] \subseteq excused'[y]
  BY <1>0, <1>5, SetupMakes
<1>6. ASSUME NEW s \in Sessions, SenderTakes(s) PROVE \A y \in Symbols : excused[y] \subseteq excused'[y]
  <2>1. UNCHANGED excused \/ (Head(queue[s]) \in Pending(s) /\ excused' = [excused EXCEPT ![Head(queue[s]).sym] = @ \cup Bars(Head(queue[s]))])
    BY <1>6 DEF SenderTakes
  <2> QED
    BY <1>0, <2>1
<1>7. ASSUME NEW s \in Sessions, Answer(s) \/ AnswerFailure(s) PROVE \A y \in Symbols : excused[y] \subseteq excused'[y]
  <2>1. UNCHANGED excused \/ \E j : excused' = [excused EXCEPT ![j.sym] = @ \cup Bars(j)]
    BY <1>7 DEF Answer, AnswerFailure, history
  <2> QED
    BY <1>0, <2>1
<1>8. ASSUME NEW s \in Sessions, ServeLive(s) \/ ServeChunk(s) PROVE \A y \in Symbols : excused[y] \subseteq excused'[y]
  <2>1. UNCHANGED excused \/ \E y, more : excused' = [excused EXCEPT ![y] = @ \cup more]
    BY <1>8 DEF ServeLive, ServeChunk
  <2> QED
    BY <1>0, <2>1
<1>9. ASSUME NEW s \in Sessions, ServeEnd(s) \/ ServeFailed(s) PROVE \A y \in Symbols : excused[y] \subseteq excused'[y]
  <2>1. Over(s, Head(toServer[s]).job) /\ Reads(s) /\ Final(Head(toServer[s]))
    BY <1>9 DEF ServeEnd, ServeFailed, Final
  <2>2. Head(toServer[s]).job \in Job
    BY <1>0, <2>1, ReadsOne, FrameFields DEF Final
  <2> QED
    BY <1>0, <2>1, <2>2, OverMakes DEF Overs
<1>10. ASSUME NEW y \in Symbols, HotAdd(y) PROVE \A x \in Symbols : excused[x] \subseteq excused'[x]
  BY <1>0, <1>10 DEF HotAdd
<1>11. CASE \E s \in Sessions : \/ Connect(s) \/ Hello(s) \/ SenderWrites(s) \/ Cut(s) \/ EndSession(s)
                               \/ ServeFull(s) \/ ServeUnhandled(s)
  BY <1>2, <1>11 DEF Connect, Hello, SenderWrites, Cut, EndSession, ServeFull, ServeUnhandled, history
<1>12. CASE \/ \E y \in Symbols : AddSymbol(y)
            \/ \E want \in case.wants, tf \in {"D1", "M1"}, up \in BOOLEAN : RequestHistory(want, tf, up)
  BY <1>2, <1>12 DEF AddSymbol, RequestHistory, history
<1>13. CASE Tick \/ Restart \/ UNCHANGED ingest
  BY <1>2, <1>13 DEF Tick, Restart, ingest, history
<1> QED
  BY <1>5, <1>6, <1>7, <1>8, <1>9, <1>10, <1>11, <1>12, <1>13 DEF Next, Loading

\* Frames are added at the end.
LEMMA GrownFrames ==
  ASSUME Types, Types', KeptGrows, NEW s \in Sessions, Framed(toServer[s]),
         DOMAIN toServer[s] \subseteq DOMAIN toServer'[s],
         \A i \in DOMAIN toServer[s] : toServer'[s][i] = toServer[s][i],
         \A i \in DOMAIN toServer'[s], y \in Symbols, n \in Nat :
           i \in DOMAIN toServer[s] \/ (Reaches(toServer'[s][i], y, n) => Reached(toServer[s], i - 1, y, n)')
  PROVE  /\ Framed(toServer[s])'
         /\ \A y \in Symbols, n \in Nat :
              Reached(toServer[s], Len(toServer[s]), y, n) => Reached(toServer[s], Len(toServer[s]), y, n)'
<1> DEFINE q == toServer[s]
           p == toServer'[s]
<1>1. /\ q \in Seq(Frame) /\ p \in Seq(Frame) /\ Len(q) \in Nat /\ Len(p) \in Nat
      /\ DOMAIN q = 1..Len(q) /\ DOMAIN p = 1..Len(p)
  BY DEF Types
<1>2. Len(q) <= Len(p)
  BY <1>1
<1>3. ASSUME NEW i \in 0..Len(q), NEW k \in Nat, i <= k, NEW y \in Symbols, NEW n \in Nat, Reached(q, i, y, n)
      PROVE  \A c \in Nat : c < n => c \in Kept(y)' \/ \E h \in 1..k : Writes(p[h], y, c)
  <2>1. 1..i \subseteq DOMAIN q /\ 1..i \subseteq 1..k
    BY <1>1, <1>3
  <2> QED
    BY <1>3, <2>1 DEF Reached, KeptGrows
<1>4. ASSUME NEW i \in DOMAIN p, NEW y \in Symbols, NEW n \in Nat, Reaches(p[i], y, n)
      PROVE  Reached(q, i - 1, y, n)'
  <2>1. CASE i \in DOMAIN q
    <3>1. Reached(q, i - 1, y, n) /\ i - 1 \in 0..Len(q) /\ i - 1 \in Nat /\ i - 1 <= i - 1
      BY <1>1, <1>4, <2>1 DEF Framed
    <3>2. \A c \in Nat : c < n => c \in Kept(y)' \/ \E h \in 1..(i - 1) : Writes(p[h], y, c)
      BY <1>3, <3>1
    <3> QED
      BY <3>2 DEF Reached, Writes
  <2> QED
    BY <1>4, <2>1
<1>5. ASSUME NEW y \in Symbols, NEW n \in Nat, Reached(q, Len(q), y, n) PROVE Reached(q, Len(q), y, n)'
  <2>1. \A c \in Nat : c < n => c \in Kept(y)' \/ \E h \in 1..Len(p) : Writes(p[h], y, c)
    BY <1>1, <1>2, <1>3, <1>5
  <2> QED
    BY <2>1 DEF Reached, Writes
<1> QED
  BY <1>4, <1>5 DEF Framed, Reaches, Writes

\* The first frame is read, and what it writes is kept.
LEMMA ReadFrames ==
  ASSUME Types, Types', KeptGrows, NEW s \in Sessions, Framed(toServer[s]), Reads(s),
         \A y \in Symbols, c \in Nat : Writes(Head(toServer[s]), y, c) => c \in Kept(y)'
  PROVE  /\ Framed(toServer[s])'
         /\ \A y \in Symbols, n \in Nat :
              Reached(toServer[s], Len(toServer[s]), y, n) => Reached(toServer[s], Len(toServer[s]), y, n)'
<1> DEFINE q == toServer[s]
           p == Tail(q)
<1>1. /\ q \in Seq(Frame) /\ Len(q) \in Nat /\ Len(q) >= 1 /\ DOMAIN q = 1..Len(q) /\ Head(q) = q[1]
      /\ DOMAIN p = 1..(Len(q) - 1) /\ (\A i \in 1..(Len(q) - 1) : p[i] = q[i + 1]) /\ Len(p) = Len(q) - 1
      /\ toServer'[s] = p
  <2>1. q \in Seq(Frame) /\ q # <<>> /\ toServer'[s] = p
    BY ReadsOne
  <2> QED
    BY <2>1
<1> HIDE DEF p
<1>2. ASSUME NEW i \in 0..(Len(q) - 1), NEW y \in Symbols, NEW n \in Nat, Reached(q, i + 1, y, n)
      PROVE  \A c \in Nat : c < n => c \in Kept(y)' \/ \E h \in 1..i : Writes(p[h], y, c)
  <2>1. SUFFICES ASSUME NEW c \in Nat, c < n, c \notin Kept(y)' PROVE \E h \in 1..i : Writes(p[h], y, c)
    OBVIOUS
  <2>2. c \notin Kept(y)
    BY <2>1 DEF KeptGrows
  <2>3. PICK k \in 1..(i + 1) : Writes(q[k], y, c)
    BY <1>2, <2>1, <2>2 DEF Reached
  <2>4. k # 1
    BY <1>1, <2>1, <2>3
  <2>5. k - 1 \in 1..i /\ k - 1 \in 1..(Len(q) - 1) /\ (k - 1) + 1 = k
    BY <1>1, <2>4
  <2> QED
    BY <1>1, <2>3, <2>5
<1>3. ASSUME NEW i \in DOMAIN p, NEW y \in Symbols, NEW n \in Nat, Reaches(p[i], y, n)
      PROVE  Reached(q, i - 1, y, n)'
  <2>1. i + 1 \in DOMAIN q /\ p[i] = q[i + 1] /\ (i + 1) - 1 = (i - 1) + 1 /\ i - 1 \in 0..(Len(q) - 1)
    BY <1>1
  <2>2. Reached(q, (i + 1) - 1, y, n)
    BY <1>3, <2>1 DEF Framed
  <2>3. Reached(q, (i - 1) + 1, y, n)
    BY <2>1, <2>2
  <2>4. \A c \in Nat : c < n => c \in Kept(y)' \/ \E h \in 1..(i - 1) : Writes(p[h], y, c)
    BY <1>2, <2>1, <2>3
  <2> QED
    BY <1>1, <2>4 DEF Reached, Writes
<1>4. ASSUME NEW y \in Symbols, NEW n \in Nat, Reached(q, Len(q), y, n) PROVE Reached(q, Len(q), y, n)'
  <2>1. Len(q) - 1 \in 0..(Len(q) - 1) /\ (Len(q) - 1) + 1 = Len(q)
    BY <1>1
  <2>2. \A c \in Nat : c < n => c \in Kept(y)' \/ \E h \in 1..(Len(q) - 1) : Writes(p[h], y, c)
    BY <1>2, <1>4, <2>1
  <2>3. Len(q)' = Len(q) - 1
    BY <1>1
  <2> QED
    BY <1>1, <2>2, <2>3 DEF Reached, Writes
<1> QED
  BY <1>1, <1>3, <1>4 DEF Framed, Reaches, Writes

\* Jobs that go leave their symbol complete.
LEMMA StillCovers ==
  ASSUME Types, KeptGrows, NEW s \in Sessions, Covers(s), UNCHANGED <<asked[s], connectedAt[s]>>,
         stage'[s] = "loop" => stage[s] = "loop",
         Pending(s)' \subseteq Pending(s),
         \A j \in Pending(s) : j \in Pending(s)' \/ j.tf # "M1" \/ Complete(j.sym, connectedAt[s])'
  PROVE  Covers(s)'
<1>1. \A j \in Pending(s)' : j.to = connectedAt'[s]
  BY DEF Covers
<1>2. ASSUME stage'[s] = "loop", NEW y \in asked'[s]
      PROVE  Complete(y, connectedAt[s])' \/ \E j \in Pending(s)' : j.tf = "M1" /\ j.sym = y
  <2>1. y \in asked[s] /\ y \in Symbols
    BY <1>2 DEF Types
  <2>2. CASE Complete(y, connectedAt[s])
    <3>1. PICK n : n = connectedAt[s]
      OBVIOUS
    <3>2. Complete(y, n)'
      BY <2>1, <2>2, <3>1, StillComplete
    <3> QED
      BY <3>1, <3>2 DEF Complete
  <2>3. CASE \E j \in Pending(s) : j.tf = "M1" /\ j.sym = y
    <3>1. PICK j \in Pending(s) : j.tf = "M1" /\ j.sym = y
      BY <2>3
    <3> QED
      BY <3>1
  <2> QED
    BY <1>2, <2>1, <2>2, <2>3 DEF Covers
<1> QED
  BY <1>1, <1>2 DEF Covers

\* Jobs that come begin where history is complete.
LEMMA StillStarts ==
  ASSUME Types, KeptGrows, NEW s \in Sessions, Starts(s),
         \A j \in Pending(s)' \cup Hand(s)' \cup ToSet(requests'[s]) :
           j \in Pending(s) \cup Hand(s) \cup ToSet(requests[s]) \/ j.manual \/ j.tf # "M1" \/ Complete(j.sym, j.from)'
  PROVE  Starts(s)'
<1>1. SUFFICES ASSUME NEW j \in Pending(s)' \cup Hand(s)' \cup ToSet(requests'[s]), j.tf = "M1", ~j.manual
               PROVE  Complete(j.sym, j.from)'
  BY DEF Starts
<1>2. CASE j \in Pending(s) \cup Hand(s) \cup ToSet(requests[s])
  <2>1. j \in Job
    BY <1>2, JobsTyped DEF AllJobs
  <2>2. j.sym \in Symbols /\ Complete(j.sym, j.from)
    BY <1>1, <1>2, <2>1, JobFields DEF Starts
  <2> QED
    BY <2>2, StillComplete
<1> QED
  BY <1>1, <1>2

\* A session that gets nothing new.
LEMMA QuietSolid ==
  ASSUME Types, Types', KeptGrows, NEW s \in Sessions, Solid(s), UNCHANGED <<clock, connectedAt[s]>>,
         listens'[s] \subseteq listens[s], ~alive'[s] => listens'[s] = {},
         ToSet(requests'[s]) \subseteq ToSet(requests[s]), Hand(s)' \subseteq Pending(s) \cup Hand(s),
         UNCHANGED toServer[s] \/ (toServer'[s] = <<>> /\ listens'[s] = {}),
         \/ Pending(s)' = Pending(s) /\ UNCHANGED asked[s] /\ (stage'[s] = "loop" => stage[s] = "loop")
         \/ Pending(s)' = {} /\ stage'[s] # "loop"
  PROVE  Solid(s)'
<1>1. Framed(toServer[s])' /\ Listening(s)'
  <2>1. CASE UNCHANGED toServer[s]
    <3>1. /\ Framed(toServer[s])'
          /\ \A y \in Symbols, n \in Nat :
               Reached(toServer[s], Len(toServer[s]), y, n) => Reached(toServer[s], Len(toServer[s]), y, n)'
      BY <2>1, GrownFrames DEF Solid
    <3>2. listens'[s] \subseteq Symbols /\ clock \in Nat
      BY DEF Types
    <3>3. \A y \in listens'[s] : Reached(toServer[s], Len(toServer[s]), y, clock)'
      <4> TAKE y \in listens'[s]
      <4>1. PICK n \in Nat : n = clock
        BY <3>2
      <4>2. Reached(toServer[s], Len(toServer[s]), y, n)'
        BY <3>1, <3>2, <4>1 DEF Solid, Listening
      <4> QED
        BY <4>1, <4>2
    <3> QED
      BY <3>1, <3>3 DEF Listening
  <2>2. CASE toServer'[s] = <<>> /\ listens'[s] = {}
    BY <2>2 DEF Framed, Listening
  <2> QED
    BY <2>1, <2>2
<1>2. Starts(s)'
  BY StillStarts DEF Solid
<1>3. Covers(s)'
  <2>1. CASE Pending(s)' = {} /\ stage'[s] # "loop"
    BY <2>1 DEF Covers
  <2>2. CASE Pending(s)' = Pending(s) /\ UNCHANGED asked[s] /\ (stage'[s] = "loop" => stage[s] = "loop")
    BY <2>2, StillCovers DEF Solid
  <2> QED
    BY <2>1, <2>2
<1> QED
  BY <1>1, <1>2, <1>3 DEF Solid

\* The steps after which no session has anything new.
LEMMA SolidHolds ==
  ASSUME HoleInv, LoadInv', KeptGrows, UNCHANGED stored, \A s \in Sessions : Solid(s)'
  PROVE  HoleInv'
BY StillWhole DEF HoleInv, LoadInv

LEMMA QuietHole ==
  ASSUME HoleInv, LoadInv', KeptGrows,
         \/ UNCHANGED ingest
         \/ \E s \in Sessions : Connect(s) \/ Hello(s) \/ Cut(s) \/ EndSession(s)
         \/ \E y \in Symbols : AddSymbol(y)
         \/ Restart
  PROVE  HoleInv'
<1>1. Types /\ Types' /\ \A s \in Sessions : Solid(s)
  BY DEF HoleInv, LoadInv
<1>2. UNCHANGED <<clock, connectedAt, stored>>
  BY DEF ingest, Connect, Hello, Cut, EndSession, AddSymbol, Restart, database, history
<1>3. ASSUME NEW r \in Sessions PROVE Solid(r)'
  <2>1. CASE UNCHANGED ingest \/ \E y \in Symbols : AddSymbol(y)
    <3>1. UNCHANGED <<listens, alive, requests, toServer, tries, held, asked, stage>>
      BY <2>1 DEF ingest, AddSymbol, session, jobs, bridge
    <3>2. ~alive'[r] => listens'[r] = {}
      BY <1>1, <3>1 DEF Solid
    <3> QED
      BY <1>1, <1>2, <3>1, <3>2, QuietSolid DEF Pending, Hand
  <2>2. ASSUME NEW s \in Sessions, Connect(s) \/ Hello(s) PROVE Solid(r)'
    <3>1. UNCHANGED <<listens, requests, toServer, tries, held, asked>> /\ alive' \in {alive, [alive EXCEPT ![s] = TRUE]}
          /\ \E place \in {"greeting", "setup", "leaked"} : stage' = [stage EXCEPT ![s] = place]
      BY <2>2 DEF Connect, Hello, jobs, bridge
    <3>2. ~alive'[r] => listens'[r] = {}
      BY <1>1, <3>1 DEF Solid, Types
    <3>3. stage'[r] = "loop" => stage[r] = "loop"
      BY <1>1, <3>1 DEF Types
    <3> QED
      BY <1>1, <1>2, <3>1, <3>2, <3>3, QuietSolid DEF Pending, Hand
  <2>3. ASSUME NEW s \in Sessions, Cut(s) PROVE Solid(r)'
    <3>1. UNCHANGED <<toServer, tries, held, asked, stage>> /\ alive' = [alive EXCEPT ![s] = FALSE]
          /\ listens' = [listens EXCEPT ![s] = {}] /\ requests' = [requests EXCEPT ![s] = <<>>]
      BY <2>3 DEF Cut, jobs
    <3>2. (~alive'[r] => listens'[r] = {}) /\ listens'[r] \subseteq listens[r]
      BY <1>1, <3>1 DEF Solid, Types
    <3>3. ToSet(requests'[r]) \subseteq ToSet(requests[r])
      <4>1. ToSet(<<>>) = {}
        BY DEF ToSet
      <4> QED
        BY <1>1, <3>1, <4>1 DEF Types
    <3> QED
      BY <1>1, <1>2, <3>1, <3>2, <3>3, QuietSolid DEF Pending, Hand
  <2>4. ASSUME NEW s \in Sessions, EndSession(s) PROVE Solid(r)'
    <3>1. UNCHANGED <<listens, requests, alive, asked>> /\ ~alive[s]
          /\ toServer' = [toServer EXCEPT ![s] = <<>>] /\ tries' = [tries EXCEPT ![s] = NoJobs]
          /\ stage' = [stage EXCEPT ![s] = "over"] /\ held' = [held EXCEPT ![s] = NoJob]
      BY <2>4 DEF EndSession
    <3>2. (~alive'[r] => listens'[r] = {}) /\ Hand(r)' \subseteq Hand(r)
      BY <1>1, <3>1 DEF Solid, Hand, Types
    <3>3. CASE r = s
      <4>1. toServer'[r] = <<>> /\ listens'[r] = {} /\ Pending(r)' = {} /\ stage'[r] # "loop"
        BY <1>1, <3>1, <3>2, <3>3 DEF Types, Pending, NoJobs
      <4> QED
        BY <1>1, <1>2, <3>1, <3>2, <4>1, QuietSolid
    <3>4. CASE r # s
      <4>1. UNCHANGED <<toServer[r], tries[r], stage[r]>>
        BY <1>1, <3>1, <3>4 DEF Types
      <4> QED
        BY <1>1, <1>2, <3>1, <3>2, <4>1, QuietSolid DEF Pending
    <3> QED
      BY <3>3, <3>4
  <2>5. CASE Restart
    <3>1. /\ toServer'[r] = <<>> /\ listens'[r] = {} /\ tries'[r] = NoJobs /\ stage'[r] # "loop"
          /\ requests'[r] = <<>> /\ held'[r] = NoJob
      BY <2>5 DEF Restart
    <3>2. ToSet(requests'[r]) = {} /\ Pending(r)' = {} /\ Hand(r)' = {}
      BY <3>1 DEF ToSet, Pending, NoJobs, Hand
    <3> QED
      BY <1>1, <1>2, <3>1, <3>2, QuietSolid
  <2> QED
    BY <2>1, <2>2, <2>3, <2>4, <2>5
<1> QED
  BY <1>2, <1>3, SolidHolds

\* A session connects: it asks for what is not complete, and takes the lookback as it is.
LEMMA SetupHole ==
  ASSUME HoleInv, LoadInv', KeptGrows, NEW s \in Sessions, Setup(s)
  PROVE  HoleInv'
<1>1. Types /\ Types' /\ Whole /\ \A r \in Sessions : Solid(r)
  BY DEF HoleInv, LoadInv
<1>2. /\ UNCHANGED <<clock, stored, alive, listens, toServer, requests, held>>
      /\ stage' = [stage EXCEPT ![s] = "loop"] /\ connectedAt' = [connectedAt EXCEPT ![s] = clock]
  BY DEF Setup, database, bridge
<1>3. PICK symbols \in SUBSET Symbols, latest \in [Symbols -> SUBSET Nat] :
        /\ symbols # {}
        /\ \A y \in Symbols : \A b \in latest[y] : b \in stored[y] /\ b < clock
        /\ asked' = [asked EXCEPT ![s] = symbols]
        /\ seq' = seq + Len(Jobs(symbols, latest))
        /\ given' = given \o [i \in DOMAIN Jobs(symbols, latest) |-> Jobs(symbols, latest)[i].id]
        /\ tries' = [tries EXCEPT ![s] = [j \in ToSet(Jobs(symbols, latest)) |-> 0]]
        /\ queue' = [queue EXCEPT ![s] = Jobs(symbols, latest)]
        /\ sender' = [sender EXCEPT ![s] = "ready"]
        /\ excused' = [y \in Symbols |-> excused[y] \cup
                         IF y \in symbols /\ latest[y] = {} THEN {b \in 0..clock : b < From(y, {})} ELSE {}]
  <2>1. Types
    BY <1>1
  <2> QED
    BY <2>1, SetupMakes
<1> DEFINE todo == Jobs(symbols, latest)
<1>5. /\ \A j \in ToSet(todo) : j.to = clock /\ j.sym \in symbols /\ (j.tf = "M1" => j.from = From(j.sym, latest[j.sym]))
      /\ \A y \in symbols : \E j \in ToSet(todo) : j.tf = "M1" /\ j.sym = y
  <2>1. Types /\ \A y \in Symbols : \A b \in latest[y] : b < clock
    BY <1>1, <1>3
  <2>2. /\ todo \in Seq(Job) /\ Len(todo) \in Nat /\ IsInjective(todo)
        /\ \A j \in ToSet(todo) :
             /\ ~j.manual /\ j.from <= j.to /\ j.to = clock /\ ~j.upsert
             /\ j.sym \in symbols /\ (j.tf = "M1" => j.from = From(j.sym, latest[j.sym]))
        /\ \A y \in symbols : \E j \in ToSet(todo) : j.tf = "M1" /\ j.sym = y
        /\ \A i \in DOMAIN todo : todo[i].nr = Len(given) + i
    BY <2>1, JobsOf
  <2> HIDE DEF todo
  <2> QED
    BY <2>2
<1> HIDE DEF todo
<1>6. /\ Pending(s)' = ToSet(todo) /\ asked'[s] = symbols /\ connectedAt'[s] = clock
      /\ \A r \in Sessions \ {s} : UNCHANGED <<stage[r], tries[r], asked[r], connectedAt[r]>>
  BY <1>1, <1>2, <1>3 DEF Pending, Types, todo
<1>7. ASSUME NEW y \in symbols PROVE Complete(y, From(y, latest[y]))'
  <2>0. latest[y] \in SUBSET Nat /\ (\A b \in latest[y] : b < clock /\ b \in stored[y]) /\ clock \in Nat /\ y \in Symbols
    BY <1>1, <1>3 DEF Types
  <2>1. From(y, latest[y]) \in Nat /\ From(y, latest[y]) <= clock
        /\ (latest[y] # {} => \A c \in Nat : c < From(y, latest[y]) => \E a \in latest[y] : c < a)
    BY <1>1, <2>0, FromOf
  <2>2. PICK n \in Nat : n = From(y, latest[y])
    BY <2>1
  <2>3. CASE latest[y] = {}
    <3>1. excused'[y] = excused[y] \cup {b \in 0..clock : b < n}
      BY <1>3, <2>0, <2>2, <2>3
    <3>2. \A c \in Nat : c < n => c \in excused'[y]
      BY <2>0, <2>1, <2>2, <3>1
    <3> QED
      BY <1>2, <2>2, <3>2 DEF Complete, Kept, From, Less
  <2>4. CASE latest[y] # {}
    <3>1. ASSUME NEW c \in Nat, c < n PROVE c \in Kept(y)'
      <4>1. PICK a \in latest[y] : c < a
        BY <2>1, <2>2, <2>4, <3>1
      <4>2. a \in stored[y]
        BY <2>0
      <4>3. Complete(y, a)
        BY <1>1, <2>0, <4>2 DEF Whole
      <4> QED
        BY <2>0, <4>1, <4>3 DEF Complete, KeptGrows
    <3> QED
      BY <1>2, <2>2, <3>1 DEF Complete, From, Less
  <2> QED
    BY <2>3, <2>4
<1>8. Solid(s)'
  <2>1. Framed(toServer[s])' /\ \A y \in Symbols, n \in Nat :
             Reached(toServer[s], Len(toServer[s]), y, n) => Reached(toServer[s], Len(toServer[s]), y, n)'
    BY <1>1, <1>2, GrownFrames DEF Solid
  <2>2. Listening(s)'
    <3>1. listens[s] \subseteq Symbols /\ clock \in Nat
      BY <1>1 DEF Types
    <3>2. PICK n \in Nat : n = clock
      BY <3>1
    <3>3. \A y \in listens[s] : Reached(toServer[s], Len(toServer[s]), y, n)'
      BY <1>1, <2>1, <3>1, <3>2 DEF Solid, Listening
    <3> QED
      BY <1>2, <3>2, <3>3 DEF Listening
  <2>3. Starts(s)'
    <3>1. \A j \in Pending(s)' : j.tf # "M1" \/ Complete(j.sym, j.from)'
      <4>1. ASSUME NEW j \in ToSet(todo), j.tf = "M1" PROVE Complete(j.sym, j.from)'
        <5>1. PICK y \in symbols : y = j.sym
          BY <1>5
        <5>2. Complete(y, From(y, latest[y]))'
          BY <1>7
        <5>3. PICK n : n = From(y, latest[y])
          OBVIOUS
        <5>4. n = From(y, latest[y])'
          BY <1>2, <5>3 DEF From, Less
        <5>5. Complete(y, n)'
          BY <5>2, <5>4 DEF Complete
        <5> QED
          BY <1>5, <4>1, <5>1, <5>3, <5>5
      <4> QED
        BY <1>6, <4>1
    <3>2. Starts(s)
      BY <1>1 DEF Solid
    <3>3. \A j \in Pending(s)' \cup Hand(s)' \cup ToSet(requests'[s]) :
            j \in Pending(s) \cup Hand(s) \cup ToSet(requests[s]) \/ j.manual \/ j.tf # "M1" \/ Complete(j.sym, j.from)'
      BY <1>2, <3>1 DEF Hand
    <3> QED
      BY <1>1, <3>2, <3>3, StillStarts
  <2>4. Covers(s)'
    BY <1>5, <1>6 DEF Covers
  <2>5. ~alive'[s] => listens'[s] = {}
    BY <1>1, <1>2 DEF Solid
  <2> QED
    BY <2>1, <2>2, <2>3, <2>4, <2>5 DEF Solid
<1>9. ASSUME NEW r \in Sessions \ {s} PROVE Solid(r)'
  <2>1. ~alive'[r] => listens'[r] = {}
    BY <1>1, <1>2 DEF Solid
  <2>2. UNCHANGED <<clock, connectedAt[r], listens[r], requests[r], toServer[r], asked[r], stage[r]>> /\ Pending(r)' = Pending(r)
          /\ Hand(r)' = Hand(r)
    BY <1>2, <1>6 DEF Pending, Hand
  <2> QED
    BY <1>1, <2>1, <2>2, QuietSolid
<1> QED
  BY <1>2, <1>8, <1>9, SolidHolds

\* A job is taken from the queue; one that is late is dropped, and its bars may be missing.
LEMMA SenderTakesHole ==
  ASSUME HoleInv, LoadInv', KeptGrows, NEW s \in Sessions, SenderTakes(s)
  PROVE  HoleInv'
<1>1. Types /\ Types' /\ \A r \in Sessions : Solid(r)
  BY DEF HoleInv, LoadInv
<1>2. UNCHANGED <<clock, stored, connectedAt, alive, listens, requests, toServer, asked, stage>>
  BY DEF SenderTakes, database, session, bridge
<1>3. \/ UNCHANGED tries
      \/ LET j == Head(queue[s])
         IN /\ j \in Pending(s) /\ tries' = [tries EXCEPT ![s] = Without(tries[s], j)]
            /\ excused' = [excused EXCEPT ![j.sym] = excused[j.sym] \cup Bars(j)]
  <2>1. s \in DOMAIN tries /\ \A j \in Pending(s) : j.sym \in DOMAIN excused
    BY <1>1, JobFields DEF Types
  <2> QED
    BY <2>1 DEF SenderTakes
<1>7. \A r \in Sessions : Hand(r)' \subseteq Pending(r) \cup Hand(r)
  <2>1. held' = held \/ (Head(queue[s]) \in Pending(s) /\ held' = [held EXCEPT ![s] = Head(queue[s])])
    BY DEF SenderTakes
  <2> QED
    BY <1>1, <2>1 DEF Hand, Types
<1>4. ASSUME NEW r \in Sessions, Pending(r)' = Pending(r) PROVE Solid(r)'
  <2>1. ~alive'[r] => listens'[r] = {}
    BY <1>1, <1>2 DEF Solid
  <2>2. UNCHANGED <<clock, connectedAt[r], listens[r], requests[r], toServer[r], asked[r], stage[r]>>
    BY <1>2
  <2> QED
    BY <1>1, <1>4, <1>7, <2>1, <2>2, QuietSolid
<1>5. CASE UNCHANGED tries
  BY <1>2, <1>4, <1>5, SolidHolds DEF Pending
<1>6. CASE ~UNCHANGED tries
  <2>1. PICK j : /\ j \in Pending(s) /\ tries' = [tries EXCEPT ![s] = Without(tries[s], j)]
                 /\ excused' = [excused EXCEPT ![j.sym] = excused[j.sym] \cup Bars(j)]
    BY <1>3, <1>6
  <2>2. /\ Pending(s)' = Pending(s) \ {j} /\ \A r \in Sessions \ {s} : Pending(r)' = Pending(r)
    BY <1>1, <2>1 DEF Pending, Without, Types
  <2>3. j \in Job /\ j.sym \in Symbols /\ j.from \in Nat /\ j.to \in Nat /\ excused'[j.sym] = excused[j.sym] \cup Bars(j)
    BY <1>1, <2>1, JobFields DEF Types
  <2>4. j.tf # "M1" \/ Complete(j.sym, connectedAt[s])'
    <3>0. ~j.manual
      BY <2>1 DEF HoleInv, LoadInv, Seen, Tidy
    <3>1. SUFFICES ASSUME j.tf = "M1" PROVE Complete(j.sym, connectedAt[s])'
      OBVIOUS
    <3>2. Complete(j.sym, j.from) /\ j.to = connectedAt[s]
      BY <1>1, <2>1, <3>0, <3>1 DEF Solid, Starts, Covers
    <3>3. ASSUME NEW c \in Nat, c < j.to PROVE c \in Kept(j.sym)'
      <4>1. CASE c < j.from
        BY <2>3, <3>2, <4>1 DEF Complete, KeptGrows
      <4>2. CASE ~(c < j.from)
        <5>1. c \in Bars(j)
          BY <2>3, <3>1, <3>3, <4>2 DEF Bars
        <5> QED
          BY <2>3, <5>1 DEF Kept
      <4> QED
        BY <4>1, <4>2
    <3> QED
      BY <1>2, <3>2, <3>3 DEF Complete
  <2>5. Covers(s)'
    <3>1. Covers(s) /\ UNCHANGED <<asked[s], connectedAt[s], stage[s]>>
      BY <1>1, <1>2 DEF Solid
    <3>2. \A k \in Pending(s) : k \in Pending(s)' \/ k.tf # "M1" \/ Complete(k.sym, connectedAt[s])'
      BY <2>2, <2>4
    <3> QED
      BY <1>1, <2>2, <3>1, <3>2, StillCovers
  <2>6. Starts(s)'
    <3>1. Starts(s) /\ Pending(s)' \cup Hand(s)' \cup ToSet(requests'[s])
                         \subseteq Pending(s) \cup Hand(s) \cup ToSet(requests[s])
      BY <1>1, <1>2, <1>7, <2>2 DEF Solid
    <3> QED
      BY <1>1, <3>1, StillStarts
  <2>7. Framed(toServer[s])' /\ Listening(s)' /\ (~alive'[s] => listens'[s] = {})
    <3>1. Framed(toServer[s])' /\ \A y \in Symbols, n \in Nat :
             Reached(toServer[s], Len(toServer[s]), y, n) => Reached(toServer[s], Len(toServer[s]), y, n)'
      BY <1>1, <1>2, GrownFrames DEF Solid
    <3>2. listens[s] \subseteq Symbols /\ clock \in Nat
      BY <1>1 DEF Types
    <3>3. PICK n \in Nat : n = clock
      BY <3>2
    <3>4. \A y \in listens[s] : Reached(toServer[s], Len(toServer[s]), y, n)'
      BY <1>1, <3>1, <3>2, <3>3 DEF Solid, Listening
    <3>5. Listening(s)'
      BY <1>2, <3>3, <3>4 DEF Listening
    <3> QED
      BY <1>1, <1>2, <3>1, <3>5 DEF Solid
  <2>8. Solid(s)'
    BY <2>5, <2>6, <2>7 DEF Solid
  <2> QED
    BY <1>2, <1>4, <2>2, <2>8, SolidHolds
<1> QED
  BY <1>5, <1>6

\* A bridge hears of a new symbol when nothing of it can be missing unexplained.
LEMMA StillListening ==
  ASSUME Types, Types', NEW s \in Sessions, Listening(s), UNCHANGED clock,
         \A y \in Symbols, n \in Nat :
           Reached(toServer[s], Len(toServer[s]), y, n) => Reached(toServer[s], Len(toServer[s]), y, n)',
         \A y \in listens'[s] : y \in listens[s] \/ Complete(y, clock)'
  PROVE  Listening(s)'
<1>1. listens'[s] \subseteq Symbols
  BY DEF Types
<1>2. PICK n \in Nat : n = clock
  BY DEF Types
<1>3. ASSUME NEW y \in listens'[s] PROVE Reached(toServer[s], Len(toServer[s]), y, clock)'
  <2>1. CASE y \in listens[s]
    <3>1. Reached(toServer[s], Len(toServer[s]), y, n)
      BY <1>2, <2>1 DEF Listening
    <3>2. Reached(toServer[s], Len(toServer[s]), y, n)'
      BY <1>1, <3>1
    <3> QED
      BY <1>2, <3>2
  <2>2. CASE Complete(y, clock)'
    BY <2>2 DEF Complete, Reached
  <2> QED
    BY <1>3, <2>1, <2>2
<1> QED
  BY <1>3 DEF Listening

LEMMA SameFrames ==
  ASSUME Types, Types', KeptGrows, NEW s \in Sessions, Solid(s), UNCHANGED <<clock, toServer[s]>>,
         \A y \in listens'[s] : y \in listens[s] \/ Complete(y, clock)'
  PROVE  Framed(toServer[s])' /\ Listening(s)'
<1>1. /\ Framed(toServer[s])'
      /\ \A y \in Symbols, n \in Nat :
           Reached(toServer[s], Len(toServer[s]), y, n) => Reached(toServer[s], Len(toServer[s]), y, n)'
  BY GrownFrames DEF Solid
<1> QED
  BY <1>1, StillListening DEF Solid

\* A frame that says nothing of history is added.
LEMMA OneMoreFrame ==
  ASSUME Types, Types', KeptGrows, NEW s \in Sessions, Solid(s), UNCHANGED <<clock, listens[s]>>,
         NEW m \in Frame, m.type = "full", toServer'[s] = Append(toServer[s], m)
  PROVE  Framed(toServer[s])' /\ Listening(s)'
<1> DEFINE q == toServer[s]
           p == toServer'[s]
<1>1. /\ q \in Seq(Frame) /\ DOMAIN q = 1..Len(q) /\ DOMAIN p = 1..(Len(q) + 1) /\ Len(q) \in Nat
      /\ p[Len(q) + 1] = m /\ \A i \in 1..Len(q) : p[i] = q[i]
  <2>1. q \in Seq(Frame)
    BY DEF Types
  <2> QED
    BY <2>1
<1>2. \A y, n : ~Reaches(m, y, n)
  BY DEF Reaches, Writes
<1>3. \A i \in DOMAIN p : i \in DOMAIN q \/ p[i] = m
  BY <1>1
<1> HIDE DEF p
<1>4. /\ Framed(toServer[s])'
      /\ \A y \in Symbols, n \in Nat :
           Reached(toServer[s], Len(toServer[s]), y, n) => Reached(toServer[s], Len(toServer[s]), y, n)'
  <2>1. /\ DOMAIN toServer[s] \subseteq DOMAIN toServer'[s]
        /\ \A i \in DOMAIN toServer[s] : toServer'[s][i] = toServer[s][i]
    BY <1>1 DEF p
  <2>2. \A i \in DOMAIN toServer'[s], y \in Symbols, n \in Nat :
          i \in DOMAIN toServer[s] \/ (Reaches(toServer'[s][i], y, n) => Reached(toServer[s], i - 1, y, n)')
    BY <1>2, <1>3 DEF p
  <2> QED
    BY <2>1, <2>2, GrownFrames DEF Solid
<1> QED
  BY <1>4, StillListening DEF Solid

\* The sender writes the job it holds.
LEMMA SenderWritesHole ==
  ASSUME HoleInv, LoadInv', KeptGrows, NEW s \in Sessions, SenderWrites(s)
  PROVE  HoleInv'
<1>1. Types /\ Types' /\ (\A r \in Sessions : Solid(r)) /\ Tidy(s)
  BY DEF HoleInv, LoadInv, Seen
<1>2. PICK j : j = held[s]
  OBVIOUS
<1>3. /\ UNCHANGED <<clock, stored, connectedAt, alive, listens, asked, stage>> /\ sender[s] = "writing"
      /\ UNCHANGED tries \/ \E more : tries' = [tries EXCEPT ![s] = [k \in DOMAIN @ |-> more[k]]]
      /\ held' = [held EXCEPT ![s] = NoJob]
      /\ \/ requests' = [requests EXCEPT ![s] = Append(@, j)] /\ UNCHANGED toServer
         \/ toServer' = [toServer EXCEPT ![s] = Append(@, [type |-> "full", job |-> j])] /\ UNCHANGED requests
         \/ UNCHANGED <<requests, toServer>>
  <2> DEFINE more == [k \in DOMAIN tries[s] |-> IF k = j THEN tries[s][k] + 1 ELSE tries[s][k]]
  <2>1. tries' = tries \/ tries' = [tries EXCEPT ![s] = [k \in DOMAIN @ |-> more[k]]]
    <3>1. s \in DOMAIN tries
      BY <1>1 DEF Types
    <3>2. tries' = tries \/ tries' = [tries EXCEPT ![s] = more]
      BY <1>2, <3>1 DEF SenderWrites
    <3> QED
      BY <3>1, <3>2
  <2> HIDE DEF more
  <2> QED
    BY <1>2, <2>1 DEF SenderWrites, Accepts, database, session, history
<1>4. j \in Hand(s) /\ j \in Job
  BY <1>1, <1>2, <1>3 DEF Tidy, Hand, Types
<1>8. \A r \in Sessions : Hand(r)' \subseteq Hand(r)
  BY <1>1, <1>3 DEF Hand, Types
<1>5. \A r \in Sessions : Pending(r)' = Pending(r)
  <2>1. DOMAIN tries = Sessions
    BY <1>1 DEF Types
  <2>2. CASE UNCHANGED tries
    BY <2>2 DEF Pending
  <2>3. ASSUME NEW more, tries' = [tries EXCEPT ![s] = [k \in DOMAIN @ |-> more[k]]]
        PROVE  \A r \in Sessions : Pending(r)' = Pending(r)
    <3>1. tries'[s] = [k \in DOMAIN tries[s] |-> more[k]] /\ \A r \in Sessions \ {s} : UNCHANGED tries[r]
      BY <2>1, <2>3
    <3>2. DOMAIN tries'[s] = DOMAIN tries[s]
      BY <3>1
    <3> QED
      BY <3>1, <3>2 DEF Pending
  <2> QED
    BY <1>3, <2>2, <2>3
<1>6. ASSUME NEW r \in Sessions \ {s} PROVE Solid(r)'
  <2>1. ~alive'[r] => listens'[r] = {}
    BY <1>1, <1>3 DEF Solid
  <2>2. UNCHANGED <<clock, connectedAt[r], listens[r], requests[r], toServer[r], asked[r], stage[r]>>
    BY <1>1, <1>3 DEF Types
  <2> QED
    BY <1>1, <1>5, <1>8, <2>1, <2>2, QuietSolid
<1>7. Solid(s)'
  <2>1. Framed(toServer[s])' /\ Listening(s)'
    <3>1. CASE UNCHANGED toServer
      BY <1>1, <1>3, <3>1, SameFrames
    <3>2. CASE toServer' = [toServer EXCEPT ![s] = Append(@, [type |-> "full", job |-> j])]
      <4>1. PICK m : m = [type |-> "full", job |-> j]
        OBVIOUS
      <4>2. m \in Frame /\ m.type = "full"
        BY <1>4, <4>1 DEF Frame
      <4>3. toServer'[s] = Append(toServer[s], m)
        BY <1>1, <3>2, <4>1 DEF Types
      <4> QED
        BY <1>1, <1>3, <4>2, <4>3, OneMoreFrame
    <3> QED
      BY <1>3, <3>1, <3>2
  <2>2. Starts(s)'
    <3>1. Pending(s)' \cup Hand(s)' \cup ToSet(requests'[s]) \subseteq Pending(s) \cup Hand(s) \cup ToSet(requests[s])
      <4>1. requests[s] \in Seq(Job)
        BY <1>1 DEF Types
      <4>2. ToSet(Append(requests[s], j)) = ToSet(requests[s]) \cup {j}
        BY <1>4, <4>1, AppendSet
      <4> QED
        BY <1>1, <1>3, <1>4, <1>5, <1>8, <4>2 DEF Types
    <3> QED
      BY <1>1, <3>1, StillStarts DEF Solid
  <2>3. Covers(s)'
    BY <1>1, <1>3, <1>5, StillCovers DEF Solid
  <2> QED
    BY <1>1, <1>3, <2>1, <2>2, <2>3 DEF Solid
<1> QED
  BY <1>3, <1>6, <1>7, SolidHolds

\* What a job brings goes on from where history is complete, and its end says how far.
LEMMA AnswerHole ==
  ASSUME HoleInv, LoadInv', KeptGrows, NEW s \in Sessions, Answer(s) \/ AnswerFailure(s)
  PROVE  HoleInv'
<1> DEFINE q == toServer[s]
<1>1. Types /\ Types' /\ (\A r \in Sessions : Solid(r)) /\ LoadInv
  BY DEF HoleInv, LoadInv
<1>2. UNCHANGED <<clock, stored, connectedAt, alive, listens, asked, stage, tries, held>> /\ requests[s] # <<>>
  BY DEF Answer, AnswerFailure, database, session, jobs, history
<1>3. PICK r, e : Answered(s, r, e)
  BY <1>1, AnswerMakes DEF LoadInv
<1>4. PICK j : j = Head(requests[s])
  OBVIOUS
<1>5. /\ j \in Job /\ j \in ToSet(requests[s]) /\ ToSet(Tail(requests[s])) \subseteq ToSet(requests[s])
      /\ j.sym \in Symbols /\ j.from \in Nat /\ j.to \in Nat
  <2>1. requests[s] \in Seq(Job)
    BY <1>1 DEF Types
  <2>2. j \in Job /\ j \in ToSet(requests[s]) /\ ToSet(Tail(requests[s])) \subseteq ToSet(requests[s])
    BY <1>2, <1>4, <2>1, TailSet
  <2> QED
    BY <2>2, JobFields
<1>6. j.from <= j.to /\ (~j.manual => j.to <= clock) /\ clock \in Nat
  BY <1>1, <1>5 DEF LoadInv, Numbered, AllJobs, Types
<1>7. /\ r \in Seq(Frame) /\ e \in Frame /\ e.job = j /\ Final(e)
      /\ \A i \in DOMAIN r : /\ r[i].type = "chunk" /\ r[i].job = j /\ j.tf = "M1"
                             /\ r[i].bar = j.from + i - 1
      /\ e.type = "end" => (j.tf = "M1" => \A b \in Nat : (j.from <= b /\ b <= j.to /\ b < clock) =>
                               \E i \in DOMAIN r : r[i].bar = b)
      /\ e.type = "failed" /\ ~j.manual => excused' = [excused EXCEPT ![j.sym] = @ \cup Bars(j)]
      /\ toServer' = [toServer EXCEPT ![s] = Append(q \o r, e)]
      /\ requests' = [requests EXCEPT ![s] = Tail(requests[s])]
  BY <1>3, <1>4 DEF Answered, Final
<1>8. q \in Seq(Frame)
  BY <1>1 DEF Types
<1> DEFINE p == Append(q \o r, e)
<1>9. toServer'[s] = p /\ ToSet(requests'[s]) \subseteq ToSet(requests[s])
      /\ \A i \in Sessions \ {s} : UNCHANGED <<toServer[i], requests[i]>>
  BY <1>1, <1>5, <1>7 DEF Types
<1>10. /\ Len(q) \in Nat /\ Len(r) \in Nat
       /\ DOMAIN q = 1..Len(q) /\ DOMAIN r = 1..Len(r) /\ DOMAIN p = 1..(Len(q) + Len(r) + 1)
       /\ \A i \in 1..Len(q) : p[i] = q[i]
       /\ \A i \in 1..Len(r) : p[Len(q) + i] = r[i]
       /\ p[Len(q) + Len(r) + 1] = e
       /\ \A i \in DOMAIN p :
            \/ i \in DOMAIN q /\ p[i] = q[i]
            \/ i - Len(q) \in DOMAIN r /\ p[i] = r[i - Len(q)]
            \/ i = Len(q) + Len(r) + 1
  <2>1. q \in Seq(Frame) /\ r \in Seq(Frame) /\ e \in Frame
    BY <1>7, <1>8
  <2> QED
    BY <2>1, ThreeParts
<1> HIDE DEF p
<1>11. ASSUME j.tf = "M1", ~j.manual PROVE \A c \in Nat : c < j.from => c \in Kept(j.sym)'
  BY <1>1, <1>5, <1>11 DEF Solid, Starts, Complete, KeptGrows
<1>12. ASSUME NEW i \in DOMAIN p, NEW y \in Symbols, NEW n \in Nat, i \notin DOMAIN q, Reaches(p[i], y, n)
       PROVE  Reached(q, i - 1, y, n)'
  <2>1. SUFFICES ASSUME NEW c \in Nat, c < n, c \notin Kept(y)' PROVE \E k \in 1..(i - 1) : Writes(p[k], y, c)
    BY <1>9 DEF Reached, Writes
  <2>2. CASE i - Len(q) \in DOMAIN r /\ p[i] = r[i - Len(q)]
    <3>1. /\ p[i].type = "chunk" /\ p[i].job = j /\ j.tf = "M1" /\ p[i].bar = j.from + (i - Len(q)) - 1
      BY <1>7, <2>2
    <3>2. y = j.sym /\ n = j.from + (i - Len(q)) - 1 /\ ~j.manual
      BY <1>12, <3>1 DEF Reaches, Writes
    <3>3. ~(c < j.from)
      BY <1>11, <2>1, <3>1, <3>2
    <3>4. PICK k \in Nat : k = c - j.from + 1
      BY <1>5, <3>3
    <3>5. k \in 1..Len(r) /\ j.from + k - 1 = c /\ k < i - Len(q)
      <4>1. PICK h : h = i - Len(q)
        OBVIOUS
      <4>2. h \in Nat /\ h <= Len(r) /\ Len(r) \in Nat /\ j.from \in Nat /\ c \in Nat
        BY <1>5, <1>10, <2>1, <2>2, <4>1
      <4>3. c < j.from + h - 1
        BY <2>1, <3>2, <4>1
      <4>4. k \in 1..Len(r) /\ j.from + k - 1 = c /\ k < h
        BY <3>3, <3>4, <4>2, <4>3
      <4> QED
        BY <4>1, <4>4
    <3>6. Len(q) + k \in 1..(i - 1) /\ p[Len(q) + k] = r[k]
      BY <1>10, <3>5
    <3>7. Writes(p[Len(q) + k], y, c)
      <4>1. k \in DOMAIN r /\ r[k].bar = j.from + k - 1
        BY <1>7, <1>10, <3>5
      <4>2. r[k].type = "chunk" /\ r[k].job = j /\ r[k].bar = c
        BY <1>7, <3>5, <4>1
      <4> QED
        BY <3>2, <3>6, <4>2 DEF Writes
    <3> QED
      BY <3>6, <3>7
  <2>3. CASE i = Len(q) + Len(r) + 1
    <3>1. p[i] = e
      BY <1>10, <2>3
    <3>2. y = j.sym /\ n = j.to /\ j.tf = "M1" /\ ~j.manual /\ e.type \in {"end", "failed"}
      BY <1>7, <1>12, <3>1 DEF Reaches, Writes, Final
    <3>3. ~(c < j.from)
      BY <1>11, <2>1, <3>2
    <3>4. j.from <= c /\ c <= j.to /\ c < clock
      BY <1>5, <1>6, <2>1, <3>2, <3>3
    <3>5. CASE e.type = "end"
      <4>1. PICK k \in DOMAIN r : r[k].bar = c
        BY <1>7, <3>2, <3>4, <3>5
      <4>2. Len(q) + k \in 1..(i - 1) /\ p[Len(q) + k] = r[k]
        BY <1>10, <2>3
      <4> QED
        BY <1>7, <3>2, <4>1, <4>2 DEF Writes
    <3>6. CASE e.type = "failed"
      <4>1. c \in Bars(j)
        BY <1>5, <3>2, <3>4 DEF Bars
      <4>2. c \in excused'[y]
        BY <1>1, <1>5, <1>7, <3>2, <3>6, <4>1 DEF Types
      <4> QED
        BY <2>1, <4>2 DEF Kept
    <3> QED
      BY <3>2, <3>5, <3>6
  <2> QED
    BY <1>10, <1>12, <2>2, <2>3
<1>13. Framed(toServer[s])' /\ Listening(s)'
  <2>1. /\ DOMAIN toServer[s] \subseteq DOMAIN toServer'[s]
        /\ \A i \in DOMAIN toServer[s] : toServer'[s][i] = toServer[s][i]
    BY <1>9, <1>10
  <2>2. \A i \in DOMAIN toServer'[s], y \in Symbols, n \in Nat :
          i \in DOMAIN toServer[s] \/ (Reaches(toServer'[s][i], y, n) => Reached(toServer[s], i - 1, y, n)')
    BY <1>9, <1>12
  <2>3. /\ Framed(toServer[s])'
        /\ \A y \in Symbols, n \in Nat :
             Reached(toServer[s], Len(toServer[s]), y, n) => Reached(toServer[s], Len(toServer[s]), y, n)'
    BY <1>1, <2>1, <2>2, GrownFrames DEF Solid
  <2> QED
    BY <1>1, <1>2, <2>3, StillListening DEF Solid
<1>14. Solid(s)'
  <2>1. Pending(s)' = Pending(s)
    BY <1>2 DEF Pending
  <2>2. Starts(s)'
    BY <1>1, <1>2, <1>9, <2>1, StillStarts DEF Solid, Hand
  <2>3. Covers(s)'
    BY <1>1, <1>2, <2>1, StillCovers DEF Solid
  <2> QED
    BY <1>1, <1>2, <1>13, <2>2, <2>3 DEF Solid
<1>15. ASSUME NEW i \in Sessions \ {s} PROVE Solid(i)'
  <2>1. ~alive'[i] => listens'[i] = {}
    BY <1>1, <1>2 DEF Solid
  <2> QED
    BY <1>1, <1>2, <1>9, <2>1, QuietSolid DEF Pending, Hand
<1> QED
  BY <1>2, <1>14, <1>15, SolidHolds


\* A minute closes: its bar follows everything older.
LEMMA TickHole ==
  ASSUME HoleInv, LoadInv', KeptGrows, Tick
  PROVE  HoleInv'
<1>1. Types /\ Types' /\ \A s \in Sessions : Solid(s)
  BY DEF HoleInv, LoadInv
<1>2. /\ clock' = clock + 1 /\ UNCHANGED <<stored, connectedAt, alive, listens, requests, asked, stage, tries, held>>
      /\ \A s \in Sessions : toServer'[s] = IF alive[s] THEN toServer[s] \o Lives(s) ELSE toServer[s]
  BY DEF Tick, database, session, jobs, history, Lives
<1>3. PICK now : now = clock
  OBVIOUS
<1>4. now \in Nat /\ clock' = now + 1
  BY <1>1, <1>2, <1>3 DEF Types
<1>5. ASSUME NEW s \in Sessions, alive[s] PROVE Framed(toServer[s])' /\ Listening(s)'
  <2> DEFINE q == toServer[s]
             r == Lives(s)
             p == toServer'[s]
  <2>1. q \in Seq(Frame) /\ r \in Seq(Frame) /\ p = q \o r
    BY <1>1, <1>2, <1>5, LivesOf DEF Types
  <2>2. /\ \A i \in DOMAIN r : r[i].type = "live" /\ r[i].bar = now /\ r[i].sym \in listens[s]
        /\ \A y \in listens[s] : \E i \in DOMAIN r : r[i].sym = y
    BY <1>1, <1>3, LivesOf
  <2> HIDE DEF r
  <2>3. /\ Len(q) \in Nat /\ Len(r) \in Nat /\ Len(p) = Len(q) + Len(r)
        /\ DOMAIN q = 1..Len(q) /\ DOMAIN r = 1..Len(r) /\ DOMAIN p = 1..(Len(q) + Len(r))
        /\ \A i \in 1..Len(q) : p[i] = q[i]
        /\ \A i \in 1..Len(r) : p[Len(q) + i] = r[i]
        /\ \A i \in DOMAIN p : \/ i \in DOMAIN q /\ p[i] = q[i]
                               \/ i - Len(q) \in DOMAIN r /\ p[i] = r[i - Len(q)]
    <3>1. q \in Seq(Frame) /\ r \in Seq(Frame)
      BY <2>1
    <3>2. /\ q \o r \in Seq(Frame) /\ Len(q) \in Nat /\ Len(r) \in Nat /\ Len(q \o r) = Len(q) + Len(r)
          /\ DOMAIN q = 1..Len(q) /\ DOMAIN r = 1..Len(r) /\ DOMAIN (q \o r) = 1..(Len(q) + Len(r))
          /\ \A i \in 1..Len(q) : (q \o r)[i] = q[i]
          /\ \A i \in 1..Len(r) : (q \o r)[Len(q) + i] = r[i]
          /\ \A i \in DOMAIN (q \o r) :
               \/ i \in DOMAIN q /\ (q \o r)[i] = q[i]
               \/ i - Len(q) \in DOMAIN r /\ (q \o r)[i] = r[i - Len(q)]
      BY <3>1, TwoParts
    <3> QED
      BY <2>1, <3>2
  <2>4. \A y \in listens[s] : y \in Symbols /\ Reached(q, Len(q), y, now)
    BY <1>1, <1>3 DEF Solid, Listening, Types
  <2>5. ASSUME NEW i \in DOMAIN p, NEW y \in Symbols, NEW n \in Nat, i \notin DOMAIN q, Reaches(p[i], y, n)
        PROVE  Reached(q, i - 1, y, n)'
    <3>1. i - Len(q) \in DOMAIN r /\ p[i] = r[i - Len(q)] /\ Len(q) < i /\ i \in Nat
      BY <2>3, <2>5
    <3>2. y \in listens[s] /\ n = now
      BY <2>2, <2>5, <3>1 DEF Reaches, Writes
    <3>3. ASSUME NEW c \in Nat, c < n, c \notin Kept(y)' PROVE \E k \in 1..(i - 1) : Writes(p[k], y, c)
      <4>1. c \notin Kept(y)
        BY <3>3 DEF KeptGrows
      <4>2. PICK k \in 1..Len(q) : Writes(q[k], y, c)
        BY <2>4, <3>2, <3>3, <4>1 DEF Reached
      <4>3. k \in 1..(i - 1) /\ p[k] = q[k]
        BY <2>3, <3>1
      <4> QED
        BY <4>2, <4>3
    <3> QED
      BY <3>3 DEF Reached, Writes
  <2>6. /\ Framed(toServer[s])'
        /\ \A y \in Symbols, n \in Nat :
             Reached(toServer[s], Len(toServer[s]), y, n) => Reached(toServer[s], Len(toServer[s]), y, n)'
    <3>1. /\ DOMAIN toServer[s] \subseteq DOMAIN toServer'[s]
          /\ \A i \in DOMAIN toServer[s] : toServer'[s][i] = toServer[s][i]
      BY <2>3
    <3>2. \A i \in DOMAIN toServer'[s], y \in Symbols, n \in Nat :
            i \in DOMAIN toServer[s] \/ (Reaches(toServer'[s][i], y, n) => Reached(toServer[s], i - 1, y, n)')
      BY <2>5
    <3> QED
      BY <1>1, <3>1, <3>2, GrownFrames DEF Solid
  <2>7. ASSUME NEW y \in listens[s] PROVE Reached(toServer[s], Len(toServer[s]), y, clock)'
    <3>1. Reached(toServer[s], Len(toServer[s]), y, now)'
      BY <1>4, <2>4, <2>6
    <3>2. PICK i \in DOMAIN r : r[i].sym = y
      BY <2>2
    <3>3. Len(q) + i \in 1..Len(p) /\ p[Len(q) + i] = r[i]
      BY <2>3
    <3>4. Writes(p[Len(q) + i], y, now)
      BY <2>2, <3>2, <3>3 DEF Writes
    <3>5. \A c \in Nat : c < now + 1 => c < now \/ c = now
      BY <1>4
    <3> QED
      BY <1>4, <3>1, <3>3, <3>4, <3>5 DEF Reached, Writes
  <2> QED
    BY <1>2, <2>6, <2>7 DEF Listening
<1>6. ASSUME NEW s \in Sessions, ~alive[s] PROVE Framed(toServer[s])' /\ Listening(s)'
  <2>1. UNCHANGED toServer[s] /\ listens'[s] = {}
    BY <1>1, <1>2, <1>6 DEF Solid
  <2>2. Framed(toServer[s])'
    BY <1>1, <2>1, GrownFrames DEF Solid
  <2> QED
    BY <2>1, <2>2 DEF Listening
<1>7. ASSUME NEW s \in Sessions PROVE Solid(s)'
  <2>1. Pending(s)' = Pending(s)
    BY <1>2 DEF Pending
  <2>2. Starts(s)'
    BY <1>1, <1>2, <2>1, StillStarts DEF Solid, Hand
  <2>3. Covers(s)'
    BY <1>1, <1>2, <2>1, StillCovers DEF Solid
  <2>4. Framed(toServer[s])' /\ Listening(s)'
    BY <1>5, <1>6
  <2> QED
    BY <1>1, <1>2, <2>2, <2>3, <2>4 DEF Solid
<1> QED
  BY <1>2, <1>7, SolidHolds

\* A session reads a frame that is not the last of a job.
LEMMA ReadSolid ==
  ASSUME Types, Types', KeptGrows, NEW s \in Sessions, Solid(s), Reads(s),
         UNCHANGED <<clock, connectedAt, alive, listens, requests, asked, stage, tries, held>>,
         \A y \in Symbols, c \in Nat : Writes(Head(toServer[s]), y, c) => c \in Kept(y)'
  PROVE  Solid(s)'
<1>1. /\ Framed(toServer[s])'
      /\ \A y \in Symbols, n \in Nat :
           Reached(toServer[s], Len(toServer[s]), y, n) => Reached(toServer[s], Len(toServer[s]), y, n)'
  BY ReadFrames DEF Solid
<1>2. Listening(s)'
  BY <1>1, StillListening DEF Solid
<1>3. Pending(s)' = Pending(s)
  BY DEF Pending
<1>4. Starts(s)'
  BY <1>3, StillStarts DEF Solid, Hand
<1>5. Covers(s)'
  BY <1>3, StillCovers DEF Solid
<1> QED
  BY <1>1, <1>2, <1>4, <1>5 DEF Solid

LEMMA ReadElsewhere ==
  ASSUME Types, Types', KeptGrows, NEW s \in Sessions, NEW r \in Sessions \ {s}, Solid(r), Reads(s),
         UNCHANGED <<clock, connectedAt, alive, listens[r], requests, asked, stage, tries[r], held>>
  PROVE  Solid(r)'
<1>1. toServer'[r] = toServer[r] /\ Pending(r)' = Pending(r)
  BY ReadsOne DEF Pending
<1>2. ~alive'[r] => listens'[r] = {}
  BY DEF Solid
<1> QED
  BY <1>1, <1>2, QuietSolid DEF Hand

\* What the first frame writes comes after what is complete.
LEMMA FirstFrame ==
  ASSUME Types, NEW s \in Sessions, Solid(s), Reads(s),
         NEW y \in Symbols, NEW n \in Nat, Reaches(Head(toServer[s]), y, n)
  PROVE  Complete(y, n)
<1>1. toServer[s] \in Seq(Frame) /\ toServer[s] # <<>>
  BY ReadsOne
<1>2. 1 \in DOMAIN toServer[s] /\ Head(toServer[s]) = toServer[s][1]
  BY <1>1
<1>3. Reached(toServer[s], 1 - 1, y, n)
  BY <1>2 DEF Solid, Framed
<1> QED
  BY <1>3 DEF Reached, Complete

\* A frame with a bar: what is stored for it has everything older below it.
LEMMA CandleHole ==
  ASSUME HoleInv, LoadInv', KeptGrows, NEW s \in Sessions, Reads(s),
         \A y \in Symbols, c \in Nat : Writes(Head(toServer[s]), y, c) => c \in Kept(y)',
         \A y \in Symbols, c \in Nat : c \in stored'[y] => c \in stored[y] \/ Complete(y, c)',
         UNCHANGED <<clock, connectedAt, alive, listens, requests, asked, stage, tries, held>>
  PROVE  HoleInv'
<1>1. Types /\ Types' /\ Whole /\ \A r \in Sessions : Solid(r)
  BY DEF HoleInv, LoadInv
<1>2. Whole'
  <2>1. ASSUME NEW y \in Symbols, NEW c \in stored'[y] PROVE Complete(y, c)'
    <3>1. c \in Nat
      BY <1>1, <2>1 DEF Types
    <3>2. CASE c \in stored[y]
      BY <1>1, <3>2, StillComplete DEF Whole
    <3> QED
      BY <2>1, <3>1, <3>2
  <2> QED
    BY <2>1 DEF Whole
<1>3. Solid(s)'
  BY <1>1, ReadSolid
<1>4. ASSUME NEW r \in Sessions \ {s} PROVE Solid(r)'
  BY <1>1, ReadElsewhere
<1> QED
  BY <1>2, <1>3, <1>4 DEF HoleInv

\* A live bar, and one of the server's own jobs, follows everything older.
LEMMA FollowingBarHole ==
  ASSUME HoleInv, LoadInv', KeptGrows, NEW s \in Sessions, Reads(s), NEW y \in Symbols, NEW b \in Nat, b < clock,
         \A x, c : Writes(Head(toServer[s]), x, c) <=> x = y /\ c = b,
         \/ \E up \in BOOLEAN : WriteCandle(y, b, up)
         \/ UNCHANGED stored /\ excused' = [excused EXCEPT ![y] = @ \cup {b}],
         UNCHANGED <<clock, connectedAt, alive, listens, requests, asked, stage, tries, held>>
  PROVE  HoleInv'
<1>1. Types /\ \A r \in Sessions : Solid(r)
  BY DEF HoleInv, LoadInv
<1>2. b \in Kept(y)'
  <2>1. CASE \E up \in BOOLEAN : WriteCandle(y, b, up)
    BY <1>1, <2>1, CandleTypes DEF Kept
  <2>2. CASE excused' = [excused EXCEPT ![y] = @ \cup {b}]
    BY <1>1, <2>2 DEF Kept, Types
  <2> QED
    BY <2>1, <2>2
<1>3. \A x \in Symbols, c \in Nat : c \in stored'[x] => c \in stored[x] \/ (x = y /\ c = b)
  <2>1. CASE \E up \in BOOLEAN : WriteCandle(y, b, up)
    BY <1>1, <2>1, CandleTypes
  <2>2. CASE UNCHANGED stored
    BY <2>2
  <2> QED
    BY <2>1, <2>2
<1>4. Complete(y, b)'
  BY <1>1, FirstFrame, StillComplete DEF Reaches
<1> QED
  BY <1>2, <1>3, <1>4, CandleHole

\* A bar that an operator asked for may be newer than all that is stored: then what lies between is
\* missing for a reason.
LEMMA ManualBarHole ==
  ASSUME HoleInv, LoadInv', KeptGrows, NEW s \in Sessions, Reads(s), NEW y \in Symbols, NEW b \in Nat, b < clock,
         \A x, c : ~Writes(Head(toServer[s]), x, c),
         \/ /\ \E up \in BOOLEAN : WriteCandle(y, b, up)
            /\ excused' = [excused EXCEPT ![y] = @ \cup Opened(y, b)]
         \/ UNCHANGED stored,
         UNCHANGED <<clock, connectedAt, alive, listens, requests, asked, stage, tries, held>>
  PROVE  HoleInv'
<1>1. Types /\ Whole
  BY DEF HoleInv, LoadInv
<1>2. CASE UNCHANGED stored
  BY <1>2, CandleHole
<1>3. CASE /\ \E up \in BOOLEAN : WriteCandle(y, b, up)
           /\ excused' = [excused EXCEPT ![y] = @ \cup Opened(y, b)]
  <2>1. \A x \in Symbols, c \in Nat : c \in stored'[x] => c \in stored[x] \/ (x = y /\ c = b)
    BY <1>1, <1>3, CandleTypes
  <2>2. ASSUME NEW c \in Nat, c < b PROVE c \in Kept(y)'
    <3>1. CASE \A a \in stored[y] : a < c
      <4>1. c \in Opened(y, b)
        BY <2>2, <3>1 DEF Opened
      <4> QED
        BY <1>1, <1>3, <4>1 DEF Kept, Types
    <3>2. CASE \E a \in stored[y] : ~(a < c)
      <4>1. PICK a \in stored[y] : ~(a < c)
        BY <3>2
      <4>2. a \in Nat /\ Complete(y, a)
        BY <1>1 DEF Whole, Types
      <4>3. c \in Kept(y)
        BY <2>2, <4>1, <4>2 DEF Complete, Kept
      <4> QED
        BY <4>3 DEF KeptGrows
    <3> QED
      BY <3>1, <3>2
  <2>3. Complete(y, b)'
    BY <2>2 DEF Complete
  <2> QED
    BY <2>1, <2>3, CandleHole
<1> QED
  BY <1>2, <1>3

LEMMA ServeCandleHole ==
  ASSUME HoleInv, LoadInv', KeptGrows, NEW s \in Sessions, ServeLive(s) \/ ServeChunk(s)
  PROVE  HoleInv'
<1> DEFINE m == Head(toServer[s])
<1>1. Types /\ LoadInv
  BY DEF HoleInv, LoadInv
<1>2. /\ Reads(s) /\ UNCHANGED <<clock, connectedAt, alive, listens, requests, asked, stage, tries, held>>
      /\ m.type \in {"live", "chunk"}
  BY DEF ServeLive, ServeChunk, session, jobs
<1>3. m \in Frame /\ m \in ToSet(toServer[s])
  BY <1>1, <1>2, ReadsOne
<1>4. m.bar \in Nat /\ m.bar < clock
  BY <1>1, <1>2, <1>3, FrameFields DEF LoadInv, Dated
<1>5. CASE ServeLive(s)
  <2>1. m.type = "live" /\ \/ WriteCandle(m.sym, m.bar, TRUE)
                           \/ UNCHANGED stored /\ excused' = [excused EXCEPT ![m.sym] = @ \cup {m.bar}]
    BY <1>5 DEF ServeLive
  <2>2. m.sym \in Symbols /\ \A x, c : Writes(m, x, c) <=> x = m.sym /\ c = m.bar
    BY <1>3, <2>1, FrameFields DEF Writes
  <2> QED
    BY <1>2, <1>4, <2>1, <2>2, FollowingBarHole
<1>6. CASE ServeChunk(s)
  <2>1. m.type = "chunk" /\ (m.job.id \in forced) \in BOOLEAN
    BY <1>6 DEF ServeChunk
  <2>2. m.job.sym \in Symbols
    BY <1>3, <2>1, FrameFields, JobFields
  <2>3. CASE m.job.manual
    <3>1. \/ /\ WriteCandle(m.job.sym, m.bar, m.job.id \in forced)
             /\ excused' = [excused EXCEPT ![m.job.sym] = @ \cup Opened(m.job.sym, m.bar)]
          \/ UNCHANGED stored
      BY <1>6, <2>3 DEF ServeChunk
    <3>2. \A x, c : ~Writes(m, x, c)
      BY <2>1, <2>3 DEF Writes
    <3> QED
      BY <1>2, <1>4, <2>1, <2>2, <3>1, <3>2, ManualBarHole
  <2>4. CASE ~m.job.manual
    <3>1. \/ WriteCandle(m.job.sym, m.bar, m.job.id \in forced)
          \/ UNCHANGED stored /\ excused' = [excused EXCEPT ![m.job.sym] = @ \cup {m.bar}]
      BY <1>6, <2>4 DEF ServeChunk
    <3>2. \A x, c : Writes(m, x, c) <=> x = m.job.sym /\ c = m.bar
      BY <2>1, <2>4 DEF Writes
    <3> QED
      BY <1>2, <1>4, <2>1, <2>2, <3>1, <3>2, FollowingBarHole
  <2> QED
    BY <2>3, <2>4
<1> QED
  BY <1>5, <1>6

\* A job is over: its history is complete up to the connect, or excused when the answer was to
\* another request; a session that has no other job subscribes, the bars that closed since being
\* excused.
LEMMA ServeOverHole ==
  ASSUME HoleInv, LoadInv', KeptGrows, NEW s \in Sessions, ServeEnd(s) \/ ServeFailed(s)
  PROVE  HoleInv'
<1>1. Types /\ Types' /\ Tidy(s) /\ \A r \in Sessions : Solid(r)
  BY DEF HoleInv, LoadInv, Seen
<1>2. PICK m : m = Head(toServer[s])
  OBVIOUS
<1>3. PICK j : j = m.job
  OBVIOUS
<1>4. /\ Reads(s) /\ UNCHANGED <<clock, stored, connectedAt, alive, requests, asked, stage, held>>
      /\ m.type \in {"end", "failed"} /\ Over(s, j)
  BY <1>2, <1>3 DEF ServeEnd, ServeFailed, database
<1>5. m \in Frame /\ j \in Job
  <2>1. m \in Frame
    BY <1>1, <1>2, <1>4, ReadsOne
  <2> QED
    BY <1>3, <1>4, <2>1, FrameFields
<1>6. Overs(s, j)
  BY <1>1, <1>4, <1>5, OverMakes
<1>7. PICK ended : ended = Named(s, j.id)
  OBVIOUS
<1>8. /\ Pending(s)' = Pending(s) \ ended /\ ended \subseteq Pending(s)
      /\ \A r \in Sessions \ {s} : UNCHANGED <<tries[r], listens[r]>>
      /\ ended # {} /\ Pending(s)' # {} => UNCHANGED listens
      /\ ended = {} => UNCHANGED listens
      /\ listens'[s] = listens[s] \/ listens'[s] = listens[s] \cup asked[s]
      /\ \A k \in ended \ {j} : Bars(k) \subseteq excused'[k.sym]
      /\ UNCHANGED listens \/ \A y \in asked[s] : connectedAt[s]..clock \subseteq excused'[y]
  BY <1>6, <1>7 DEF Overs, Named
<1>9. ASSUME NEW k \in ended, k.tf = "M1" PROVE Complete(k.sym, connectedAt[s])'
  <2>1. k \in Job /\ k.sym \in Symbols /\ k.from \in Nat /\ k.to \in Nat /\ k \in Pending(s) /\ ~k.manual
    <3>1. k \in Pending(s) /\ k \in Job /\ ~k.manual
      BY <1>1, <1>8, <1>9 DEF Types, Tidy
    <3> QED
      BY <3>1, JobFields
  <2>2. k.to = connectedAt[s] /\ Complete(k.sym, k.from)
    BY <1>1, <1>9, <2>1 DEF Solid, Covers, Starts
  <2>3. Complete(k.sym, k.to)'
    <3>1. CASE k = j
      <4>1. Reaches(Head(toServer[s]), k.sym, k.to)
        BY <1>2, <1>3, <1>4, <1>9, <2>1, <3>1 DEF Reaches
      <4>2. Complete(k.sym, k.to)
        BY <1>1, <1>4, <2>1, <4>1, FirstFrame
      <4> QED
        BY <2>1, <4>2, StillComplete
    <3>2. CASE k # j
      <4>1. ASSUME NEW c \in Nat, c < k.to PROVE c \in Kept(k.sym)'
        <5>1. CASE c < k.from
          BY <2>1, <2>2, <5>1 DEF Complete, KeptGrows
        <5>2. CASE ~(c < k.from)
          <6>1. c \in Bars(k)
            BY <1>9, <2>1, <4>1, <5>2 DEF Bars
          <6> QED
            BY <1>8, <3>2, <6>1 DEF Kept
        <5> QED
          BY <5>1, <5>2
      <4> QED
        BY <4>1 DEF Complete
    <3> QED
      BY <3>1, <3>2
  <2> QED
    BY <1>4, <2>2, <2>3 DEF Complete
<1>10. Covers(s)'
  <2>1. \A k \in Pending(s) : k \in Pending(s)' \/ k.tf # "M1" \/ Complete(k.sym, connectedAt[s])'
    BY <1>8, <1>9
  <2> QED
    BY <1>1, <1>4, <1>8, <2>1, StillCovers DEF Solid
<1>11. \A y \in listens'[s] : y \in listens[s] \/ Complete(y, clock)'
  <2>1. CASE UNCHANGED listens
    BY <2>1
  <2>2. CASE Pending(s)' = {} /\ \A y \in asked[s] : connectedAt[s]..clock \subseteq excused'[y]
    <3>1. connectedAt[s] \in Nat /\ clock \in Nat /\ asked[s] \subseteq Symbols
      BY <1>1 DEF Types
    <3>2. ASSUME NEW y \in asked[s] PROVE Complete(y, clock)'
      <4>1. Complete(y, connectedAt[s])'
        BY <1>4, <1>10, <2>2, <3>2 DEF Covers, Reads
      <4>2. \A c \in Nat : c < connectedAt[s] => c \in Kept(y)'
        BY <1>4, <4>1 DEF Complete
      <4>3. \A c \in connectedAt[s]..clock : c \in Kept(y)'
        BY <2>2, <3>2 DEF Kept
      <4>4. \A c \in Nat : c < clock => c \in Kept(y)'
        BY <3>1, <4>2, <4>3
      <4> QED
        BY <1>4, <4>4 DEF Complete
    <3> QED
      BY <1>8, <3>2
  <2> QED
    BY <1>8, <2>1, <2>2
<1>12. Solid(s)'
  <2>1. /\ Framed(toServer[s])'
        /\ \A y \in Symbols, n \in Nat :
             Reached(toServer[s], Len(toServer[s]), y, n) => Reached(toServer[s], Len(toServer[s]), y, n)'
    <3>1. \A y \in Symbols, c \in Nat : Writes(Head(toServer[s]), y, c) => c \in Kept(y)'
      BY <1>2, <1>4 DEF Writes
    <3> QED
      BY <1>1, <1>4, <3>1, ReadFrames DEF Solid
  <2>2. Listening(s)'
    BY <1>1, <1>4, <1>11, <2>1, StillListening DEF Solid
  <2>3. Starts(s)'
    BY <1>1, <1>4, <1>8, StillStarts DEF Solid, Hand
  <2>4. ~alive'[s] => listens'[s] = {}
    <3>1. UNCHANGED listens \/ alive[s]
      BY <1>4 DEF Over, Subscribe
    <3> QED
      BY <1>1, <1>4, <3>1 DEF Solid
  <2> QED
    BY <1>10, <2>1, <2>2, <2>3, <2>4 DEF Solid
<1>13. ASSUME NEW r \in Sessions \ {s} PROVE Solid(r)'
  BY <1>1, <1>4, <1>8, ReadElsewhere
<1> QED
  BY <1>4, <1>12, <1>13, SolidHolds

\* A frame that writes nothing and ends nothing.
LEMMA ServeFullHole ==
  ASSUME HoleInv, LoadInv', KeptGrows, NEW s \in Sessions, ServeFull(s) \/ ServeUnhandled(s)
  PROVE  HoleInv'
<1>1. Types /\ Types' /\ \A r \in Sessions : Solid(r)
  BY DEF HoleInv, LoadInv
<1>2. /\ Reads(s) /\ UNCHANGED <<clock, stored, connectedAt, alive, listens, requests, asked, stage, tries, held>>
      /\ Head(toServer[s]).type \in {"full", "unhandled"}
  BY DEF ServeFull, ServeUnhandled, database, session, jobs
<1>3. Solid(s)'
  <2>1. \A y \in Symbols, c \in Nat : Writes(Head(toServer[s]), y, c) => c \in Kept(y)'
    BY <1>2 DEF Writes
  <2> QED
    BY <1>1, <1>2, <2>1, ReadSolid
<1>4. ASSUME NEW r \in Sessions \ {s} PROVE Solid(r)'
  BY <1>1, <1>2, ReadElsewhere
<1> QED
  BY <1>2, <1>3, <1>4, SolidHolds

\* An operator may ask for anything: nothing is promised of it.
LEMMA RequestHole ==
  ASSUME HoleInv, LoadInv', KeptGrows, NEW want \in case.wants, NEW tf \in {"D1", "M1"}, NEW up \in BOOLEAN,
         RequestHistory(want, tf, up)
  PROVE  HoleInv'
<1>1. Types /\ Types' /\ \A s \in Sessions : Solid(s)
  BY DEF HoleInv, LoadInv
<1>2. PICK j \in Job :
        /\ j.manual
        /\ \A s \in Sessions : requests'[s] = requests[s]
                               \/ (s \in sessions /\ alive[s] /\ requests'[s] = Append(requests[s], j))
  BY <1>1, RequestMakes
<1>3. UNCHANGED <<clock, stored, connectedAt, alive, listens, toServer, asked, stage, tries, held>>
  BY DEF RequestHistory, database, session, jobs
<1>4. ASSUME NEW s \in Sessions PROVE Solid(s)'
  <2>1. ToSet(requests'[s]) \subseteq ToSet(requests[s]) \cup {j}
    <3>1. requests[s] \in Seq(Job)
      BY <1>1 DEF Types
    <3>2. ToSet(Append(requests[s], j)) = ToSet(requests[s]) \cup {j}
      BY <1>2, <3>1, AppendSet
    <3> QED
      BY <1>2, <3>2
  <2>2. Pending(s)' = Pending(s) /\ Hand(s)' = Hand(s)
    BY <1>3 DEF Pending, Hand
  <2>3. Starts(s)'
    <3>1. \A k \in Pending(s)' \cup Hand(s)' \cup ToSet(requests'[s]) :
            k \in Pending(s) \cup Hand(s) \cup ToSet(requests[s]) \/ k.manual
      BY <1>2, <2>1, <2>2
    <3> QED
      BY <1>1, <3>1, StillStarts DEF Solid
  <2>4. Covers(s)'
    BY <1>1, <1>3, <2>2, StillCovers DEF Solid
  <2>5. Framed(toServer[s])' /\ Listening(s)'
    BY <1>1, <1>3, SameFrames
  <2> QED
    BY <1>1, <1>3, <2>3, <2>4, <2>5 DEF Solid
<1> QED
  BY <1>3, <1>4, SolidHolds

\* A symbol that is added while a bridge is connected: what is older is excused.
LEMMA HotAddHole ==
  ASSUME HoleInv, LoadInv', KeptGrows, NEW y \in Symbols, HotAdd(y)
  PROVE  HoleInv'
<1>1. Types /\ Types' /\ \A s \in Sessions : Solid(s)
  BY DEF HoleInv, LoadInv
<1>2. /\ UNCHANGED <<clock, stored, connectedAt, alive, toServer, requests, asked, stage, tries, held>>
      /\ excused' = [excused EXCEPT ![y] = excused[y] \cup 0..clock]
      /\ \A s \in Sessions : \/ listens'[s] = listens[s]
                             \/ alive[s] /\ listens'[s] = listens[s] \cup {y}
  BY <1>1 DEF HotAdd, session, jobs, Types
<1>3. Complete(y, clock)'
  <2>1. clock \in Nat /\ excused'[y] = excused[y] \cup 0..clock
    BY <1>1, <1>2 DEF Types
  <2> QED
    BY <1>2, <2>1 DEF Complete, Kept
<1>4. ASSUME NEW s \in Sessions PROVE Solid(s)'
  <2>1. Framed(toServer[s])' /\ Listening(s)'
    <3>1. \A x \in listens'[s] : x \in listens[s] \/ Complete(x, clock)'
      BY <1>2, <1>3
    <3> QED
      BY <1>1, <1>2, <3>1, SameFrames
  <2>2. Pending(s)' = Pending(s) /\ Hand(s)' = Hand(s)
    BY <1>2 DEF Pending, Hand
  <2>3. Starts(s)'
    BY <1>1, <1>2, <2>2, StillStarts DEF Solid
  <2>4. Covers(s)'
    BY <1>1, <1>2, <2>2, StillCovers DEF Solid
  <2>5. ~alive'[s] => listens'[s] = {}
    BY <1>1, <1>2 DEF Solid
  <2> QED
    BY <2>1, <2>3, <2>4, <2>5 DEF Solid
<1> QED
  BY <1>2, <1>4, SolidHolds

LEMMA HoleStep ==
  ASSUME HoleInv, LoadInv', Next \/ UNCHANGED ingest
  PROVE  HoleInv'
<1>1. KeptGrows
  BY KeptStep DEF HoleInv
<1>2. CASE \/ UNCHANGED ingest
           \/ \E s \in Sessions : Connect(s) \/ Hello(s) \/ Cut(s) \/ EndSession(s)
           \/ \E y \in Symbols : AddSymbol(y)
           \/ Restart
  BY <1>1, <1>2, QuietHole
<1>3. CASE \E s \in Sessions : Setup(s) \/ SenderTakes(s) \/ SenderWrites(s) \/ Answer(s) \/ AnswerFailure(s)
  BY <1>1, <1>3, SetupHole, SenderTakesHole, SenderWritesHole, AnswerHole
<1>4. CASE \E s \in Sessions : \/ ServeLive(s) \/ ServeChunk(s) \/ ServeEnd(s) \/ ServeFailed(s)
                              \/ ServeFull(s) \/ ServeUnhandled(s)
  BY <1>1, <1>4, ServeCandleHole, ServeOverHole, ServeFullHole
<1>5. CASE \/ \E y \in Symbols : HotAdd(y)
           \/ \E want \in case.wants, tf \in {"D1", "M1"}, up \in BOOLEAN : RequestHistory(want, tf, up)
  BY <1>1, <1>5, HotAddHole, RequestHole
<1>6. CASE Tick
  BY <1>1, <1>6, TickHole
<1> QED
  BY <1>2, <1>3, <1>4, <1>5, <1>6 DEF Next, Loading

\* mt5_ingest.py: a stored bar has everything older stored below it, but what is explained: the
\* inductive invariant of the holes (see Whole and Solid).
THEOREM HolesAreKept == ChartsSpec => []HoleInv
<1>1. ChartsInit => HoleInv
  <2>1. SUFFICES ASSUME ChartsInit PROVE HoleInv
    OBVIOUS
  <2>2. LoadInv
    BY <2>1, LoadInit DEF ChartsInit
  <2>3. /\ stored = [y \in Symbols |-> IF y \in case.known THEN FirstBars[y] ELSE {}]
        /\ excused = [y \in Symbols |-> Holes(stored[y])]
        /\ \A s \in Sessions : /\ stage[s] = "new" /\ tries[s] = NoJobs /\ toServer[s] = <<>>
                               /\ requests[s] = <<>> /\ listens[s] = {} /\ held[s] = NoJob
    BY <2>1 DEF ChartsInit, Init
  <2>4. Whole
    <3>1. ASSUME NEW y \in Symbols, NEW a \in stored[y], NEW c \in Nat, c < a PROVE c \in Kept(y)
      <4>1. a \in 0..(Start - 1) /\ Start \in Nat
        BY <2>3, <3>1, ConstantsAssumption
      <4>2. c \in 0..(Start - 1)
        BY <3>1, <4>1
      <4> QED
        BY <2>3, <3>1, <4>2 DEF Kept, Holes
    <3> QED
      BY <3>1 DEF Whole, Complete
  <2>5. ASSUME NEW s \in Sessions PROVE Solid(s)
    <3>1. Pending(s) = {} /\ ToSet(requests[s]) = {} /\ DOMAIN toServer[s] = {} /\ Hand(s) = {}
      BY <2>3 DEF Pending, NoJobs, ToSet, Hand
    <3> QED
      BY <2>3, <3>1 DEF Solid, Framed, Listening, Starts, Covers
  <2> QED
    BY <2>2, <2>4, <2>5 DEF HoleInv
<1>2. HoleInv /\ LoadInv' /\ [ChartsNext]_<<vars, chartVars>> => HoleInv'
  BY ServerSteps, HoleStep
<1> QED
  BY <1>1, <1>2, JobsAreKept, PTL DEF ChartsSpec

\* mt5_ingest.py: the stored minutes of a symbol have no hole between the first and the last
\* stored one, but for the bars that may be missing.
THEOREM NoHoleUnexplained == ChartsSpec => []HoleExplained
<1>1. HoleInv => HoleExplained
  <2>1. SUFFICES ASSUME HoleInv, NEW y \in Symbols, stored[y] # {}, NEW b \in 0..Greatest(stored[y])
                 PROVE  b \in stored[y] \cup excused[y]
    BY DEF HoleExplained
  <2>2. stored[y] \in SUBSET Nat /\ (\A c \in stored[y] : c < clock) /\ clock \in Nat
    BY <2>1 DEF HoleInv, LoadInv, Types
  <2>3. Greatest(stored[y]) \in stored[y]
    BY <2>1, <2>2, GreatestOf
  <2>4. Complete(y, Greatest(stored[y]))
    BY <2>1, <2>3 DEF HoleInv, Whole
  <2>5. b \in Nat /\ (b < Greatest(stored[y]) \/ b = Greatest(stored[y]))
    BY <2>1, <2>2, <2>3
  <2> QED
    BY <2>3, <2>4, <2>5 DEF Complete, Kept
<1> QED
  BY <1>1, HolesAreKept, PTL
=============================================================================
