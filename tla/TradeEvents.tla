----------------------------- MODULE TradeEvents -----------------------------
(***************************************************************************)
(* What the MT5 executor (api-worker/app/mt5_executor.py) makes of the     *)
(* trade events of the expert advisor (EA).  Each event becomes an asyncio *)
(* task, so that events of one trade are handled in any order; the EA may  *)
(* send an event again.  A task writes three tables in one transaction:    *)
(* the execution status of the strategy, the signal of the trade, and      *)
(* live_trade_state, from which a restarted EA learns its open trades.     *)
(* The strategy janitor of the web service expires strategies meanwhile.   *)
(*                                                                         *)
(* Modelled are trades of a strategy: a task locks the strategy's row      *)
(* first and keeps it until the commit, so that the transaction is one     *)
(* step.  What a deal earned is added to the signal's pnl: `counted' is    *)
(* how often.                                                              *)
(*                                                                         *)
(* The connection delivers events in order.  What is on the wire when it   *)
(* breaks is lost, and with `Resends' the EA may repeat what it has sent.  *)
(***************************************************************************)
EXTENDS Naturals, FiniteSets, Sequences

CONSTANTS
  Handlers,      \* asyncio tasks that may be under way at a time
  Strategies,
  Tickets,       \* MT5 positions
  StrategyOf,    \* the strategy a position executes
  None,          \* no ticket, or no deal
  Reasons,       \* what the EA may report of a position that is closed
  Resends,       \* whether the EA may send an event again
  MaxDeals,      \* 10000: how many deals the executor remembers
  MaxForgotten,  \* bound of the model on how often it forgets them
  MaxFaults      \* bound of the model on failed transactions

\* Raw statuses of a close, and what is stored for one.
Specific == {"closed_tp", "closed_sl", "closed_expired", "closed_breakeven"}
Closed == Specific \cup {"closed_manual"}

ASSUME TradesAssumption ==
  /\ IsFiniteSet(Handlers)
  /\ None \notin Tickets
  /\ StrategyOf \in [Tickets -> Strategies]
  /\ Reasons \subseteq Closed \cup {"closed_early"}
  /\ Resends \in BOOLEAN
  /\ MaxDeals \in Nat /\ MaxForgotten \in Nat /\ MaxFaults \in Nat

VARIABLES
  strategy,   \* strategies: execution_status, and whether the row is active
  signal,     \* signals.status of each ticket
  live,       \* live_trade_state.state of each ticket
  counted,    \* signals.pnl: how often each deal is in it
  processed,  \* _processed_deals
  pc, job,    \* the tasks, and the event each one handles
  position,   \* the position at the EA: none, dropped, open or closed
  sent,       \* events the EA has sent
  arrived,    \* how many of them the executor has received, or the connection has lost
  forgotten, faults

tables == <<strategy, signal, live, counted>>
memory == <<processed, pc, job>>
ea == <<position, sent>>
tradeVars == <<tables, memory, ea, arrived, forgotten, faults>>

\* A deal is a leg of a position.
Legs == {"entry", "partial", "exit"}
Deals == Tickets \X Legs

\* A lifecycle event has no ticket; a modification, or a close that is reported again, no deal.
Event(s, t, status, leg) == [strategy |-> s, ticket |-> t, status |-> status, leg |-> leg]
NoEvent == Event(None, None, "none", None)

TradesInit ==
  /\ strategy = [s \in Strategies |-> [status |-> "untriggered", active |-> TRUE]]
  /\ signal = [t \in Tickets |-> "absent"]
  /\ live = [t \in Tickets |-> "absent"]
  /\ counted = [d \in Deals |-> 0]
  /\ processed = {}
  /\ pc = [h \in Handlers |-> "idle"]
  /\ job = [h \in Handlers |-> NoEvent]
  /\ position = [t \in Tickets |-> "none"]
  /\ sent = <<>> /\ arrived = 0
  /\ forgotten = 0 /\ faults = 0

----------------------------------------------------------------------------
\* The executor.

\* _normalise_trade_status.  An event that is only executed is open, and one that is only closed
\* gets a status of Closed from its reason; they come here as that.
Normalise(status) ==
  IF status = "partial_close" THEN "open"
  ELSE IF status = "closed_early" THEN "closed_expired"
  ELSE status

\* _session_loop: a task is created for the event.
Receive(h) ==
  /\ pc[h] = "idle"
  /\ \E i \in 1..Len(sent) :
       /\ i = arrived + 1 \/ (Resends /\ i <= arrived)
       /\ job' = [job EXCEPT ![h] = sent[i]]
       /\ arrived' = IF i > arrived THEN i ELSE arrived
  /\ pc' = [pc EXCEPT ![h] = "start"]
  /\ UNCHANGED <<tables, processed, ea, forgotten, faults>>

Deal(e) == <<e.ticket, e.leg>>
HasDeal(e) == e.ticket # None /\ e.leg # None

Finish(h) ==
  /\ pc' = [pc EXCEPT ![h] = "idle"]
  /\ job' = [job EXCEPT ![h] = NoEvent]

Go(h) == pc' = [pc EXCEPT ![h] = "commit"] /\ UNCHANGED job

\* Mutant: the deal is remembered and nobody looks.
BeginAnyway(h) ==
  /\ pc[h] = "start"
  /\ Go(h)
  /\ processed' = IF HasDeal(job[h]) THEN processed \cup {Deal(job[h])} ELSE processed
  /\ UNCHANGED <<tables, ea, arrived, forgotten, faults>>

\* The start of _handle_trade_event: a deal that is remembered is skipped, another one is
\* remembered, and all of them are forgotten when they become too many.
Begin(h) ==
  /\ pc[h] = "start"
  /\ LET d == Deal(job[h])
         new == processed \cup {d}
     IN  \/ /\ HasDeal(job[h]) /\ d \in processed
            /\ Finish(h) /\ UNCHANGED <<processed, forgotten>>
         \/ /\ HasDeal(job[h]) /\ d \notin processed /\ Cardinality(new) <= MaxDeals
            /\ Go(h) /\ processed' = new /\ UNCHANGED forgotten
         \/ /\ HasDeal(job[h]) /\ d \notin processed /\ Cardinality(new) > MaxDeals
            /\ forgotten < MaxForgotten
            /\ Go(h) /\ processed' = {} /\ forgotten' = forgotten + 1
         \/ /\ ~HasDeal(job[h])
            /\ Go(h) /\ UNCHANGED <<processed, forgotten>>
  /\ UNCHANGED <<tables, ea, arrived, faults>>

\* Mutant: the signal's own status is not looked at.
SignalUnguarded(old, status) == status

\* A closed signal is not opened again, and a specific reason outlives a manual one.
SignalStatus(old, status) ==
  IF status \in Closed
  THEN IF status = "closed_manual" /\ old \in Specific THEN old ELSE status
  ELSE IF old \in Closed THEN old ELSE status

\* _upsert_live_trade_state.
LiveState(old, status) ==
  IF old = "absent" THEN IF status = "open" THEN "open" ELSE "absent"
  ELSE IF status \in Closed THEN status ELSE old

\* Mutant: live_trade_state gets the status that was sent.
SaveSent(e) ==
  LET t == e.ticket
      status == Normalise(e.status)
  IN  /\ strategy' = [strategy EXCEPT ![e.strategy].status = status]
      /\ signal' = [signal EXCEPT ![t] = SignalStatus(@, status)]
      /\ live' = [live EXCEPT ![t] = LiveState(@, status)]
      /\ counted' = IF HasDeal(e) THEN [counted EXCEPT ![Deal(e)] = @ + 1] ELSE counted

\* The transaction of a trade event.  The strategy gets the status before the signal is looked
\* at, and the status that is written to the other tables after it.
Save(e) ==
  LET t == e.ticket
      status == Normalise(e.status)
      written == IF status \in Closed THEN SignalStatus(signal[t], status) ELSE status
  IN  /\ strategy' = [strategy EXCEPT ![e.strategy].status = written]
      /\ signal' = [signal EXCEPT ![t] = SignalStatus(@, status)]
      /\ live' = [live EXCEPT ![t] = LiveState(@, written)]
      /\ counted' = IF HasDeal(e) THEN [counted EXCEPT ![Deal(e)] = @ + 1] ELSE counted

\* A lifecycle event is of the strategy only.
SaveLifecycle(e) ==
  /\ strategy' = [strategy EXCEPT ![e.strategy].status = Normalise(e.status)]
  /\ UNCHANGED <<signal, live, counted>>

\* The rest of _handle_trade_event: the transaction is committed, or an error rolls it back
\* and is reported.
Commit(h) ==
  /\ pc[h] = "commit"
  /\ \/ job[h].ticket # None /\ Save(job[h]) /\ UNCHANGED faults
     \/ job[h].ticket = None /\ SaveLifecycle(job[h]) /\ UNCHANGED faults
     \/ faults < MaxFaults /\ faults' = faults + 1 /\ UNCHANGED tables
  /\ Finish(h)
  /\ UNCHANGED <<processed, ea, arrived, forgotten>>

\* The connection breaks.
Disconnect ==
  /\ arrived < Len(sent) /\ arrived' = Len(sent)
  /\ UNCHANGED <<tables, memory, ea, forgotten, faults>>

\* The process is started again: its tasks are gone, and so are the deals it remembered.
RestartExecutor ==
  /\ forgotten < MaxForgotten /\ forgotten' = forgotten + 1
  /\ processed' = {}
  /\ pc' = [h \in Handlers |-> "idle"]
  /\ job' = [h \in Handlers |-> NoEvent]
  /\ arrived' = Len(sent)
  /\ UNCHANGED <<tables, ea, faults>>

----------------------------------------------------------------------------
\* expire_elapsed_strategies_batch, when the time of a strategy is over.
Expire(s) ==
  /\ strategy[s].active
  /\ strategy' = [strategy EXCEPT ![s] =
       [status |-> IF @.status \in {"open", "partial_close", "closed"} THEN @.status ELSE "expired",
        active |-> FALSE]]
  /\ UNCHANGED <<signal, live, counted, memory, ea, arrived, forgotten, faults>>

----------------------------------------------------------------------------
\* The EA.

\* Each event once: `Resends' stands for repeating it.
Send(e) ==
  /\ \A i \in 1..Len(sent) : sent[i] # e
  /\ sent' = Append(sent, e)
  /\ UNCHANGED <<tables, memory, arrived, forgotten, faults>>

EAOpens(t) ==
  /\ position[t] = "none" /\ position' = [position EXCEPT ![t] = "open"]
  /\ Send(Event(StrategyOf[t], t, "open", "entry"))

EADrops(t) ==
  /\ position[t] = "none" /\ position' = [position EXCEPT ![t] = "dropped"]
  /\ Send(Event(StrategyOf[t], None, "rejected", None))

EAModifies(t) ==
  /\ position[t] = "open" /\ UNCHANGED position
  /\ \/ Send(Event(StrategyOf[t], t, "open", None))
     \/ Send(Event(StrategyOf[t], t, "partial_close", "partial"))

\* The close is reported with its deal, and perhaps once more, without a reason.
EACloses(t) ==
  /\ position[t] = "open" /\ position' = [position EXCEPT ![t] = "closed"]
  /\ \E r \in Reasons : Send(Event(StrategyOf[t], t, r, "exit"))

EAReports(t) ==
  /\ position[t] = "closed" /\ UNCHANGED position
  /\ Send(Event(StrategyOf[t], t, "closed_manual", None))

EA(t) == EAOpens(t) \/ EADrops(t) \/ EAModifies(t) \/ EACloses(t) \/ EAReports(t)

TradesNext ==
  \/ \E h \in Handlers : Receive(h) \/ Begin(h) \/ Commit(h)
  \/ Disconnect \/ RestartExecutor
  \/ \E s \in Strategies : Expire(s)
  \/ \E t \in Tickets : EA(t)

TradesSpec == TradesInit /\ [][TradesNext]_tradeVars

----------------------------------------------------------------------------
\* Properties.

Statuses == {"open"} \cup Closed
RawStatuses == Statuses \cup {"partial_close", "closed_early"}
TradeEvents == [strategy : Strategies, ticket : Tickets, status : RawStatuses,
                leg : Legs \cup {None}]
LifecycleEvents == [strategy : Strategies, ticket : {None}, status : {"rejected"}, leg : {None}]
AllEvents == TradeEvents \cup LifecycleEvents

\* The tables hold statuses the database accepts (mt5_executor.py, _normalise_trade_status),
\* every event sent is of a strategy, and a task at work has one.
TradesTypeOK ==
  /\ strategy \in [Strategies -> [status : Statuses \cup {"untriggered", "rejected", "expired"},
                                  active : BOOLEAN]]
  /\ signal \in [Tickets -> {"absent"} \cup Statuses]
  /\ live \in [Tickets -> {"absent"} \cup Statuses]
  /\ counted \in [Deals -> Nat]
  /\ processed \subseteq Deals
  /\ pc \in [Handlers -> {"idle", "start", "commit"}]
  /\ job \in [Handlers -> AllEvents \cup {NoEvent}]
  /\ \A h \in Handlers : pc[h] # "idle" => job[h] \in AllEvents
  /\ position \in [Tickets -> {"none", "dropped", "open", "closed"}]
  /\ sent \in Seq(AllEvents) /\ arrived \in 0..Len(sent)
  /\ forgotten \in Nat /\ faults \in Nat

\* In whatever order and however often the events of a trade are handled, a trade whose signal
\* is open is one that a restarted EA is told of, and a trade that live_trade_state calls closed
\* is closed for the same reason in its signal (mt5_executor.py, _upsert_live_trade_state and
\* _handle_position_sync_request).
TablesAgree ==
  \A t \in Tickets :
    /\ signal[t] = "open" => live[t] = "open"
    /\ live[t] \in Closed => signal[t] = live[t]

\* A closed signal is not opened again by an event that is late or comes twice, and the reason
\* of the close is not lost (mt5_executor.py, the guard against out-of-order updates).
ClosureKept ==
  [][\A t \in Tickets :
       /\ signal[t] \in Closed => signal'[t] \in Closed
       /\ signal[t] \in Specific => signal'[t] \in Specific]_tradeVars

\* What a deal earned enters the pnl once, and once more at most each time the executor forgets
\* its deals, however often the EA sends it (mt5_executor.py, _processed_deals).
DealCountedOnce == \A d \in Deals : counted[d] <= 1 + forgotten

\* Why: a task at work on a deal found it neither remembered nor at work since the executor
\* last forgot its deals.
Working(d) == {h \in Handlers : pc[h] = "commit" /\ HasDeal(job[h]) /\ Deal(job[h]) = d}
CountInv ==
  \A d \in Deals :
    counted[d] + Cardinality(Working(d)) <= forgotten + (IF d \in processed THEN 1 ELSE 0)
=============================================================================
