------------------------------ MODULE Portfolio ------------------------------
(***************************************************************************)
(* The account of a backtest, backtest_engine/simulation/portfolio.py: the *)
(* trades that TradeReplay found, each replayed as if it were alone, are   *)
(* walked in the order of their entries on one account, which admits a     *)
(* trade or rejects it, sizes it by its equity, and closes it at the time  *)
(* its replay did.                                                         *)
(*                                                                         *)
(* What a trade gained is scaled to the account's lot and rounded down.    *)
(***************************************************************************)
EXTENDS TradeReplay

VARIABLES
  undecided,      \* candidates that are not decided
  balance, peak,  \* peak_equity
  drop,           \* max_dd_abs
  open,           \* open_positions, by strategy
  heap,           \* exit_heap: <<exit time, sequence number, strategy>>
  ledger          \* trades: what was decided

account == <<undecided, balance, peak, drop, open, heap, ledger>>
vars == <<replayVars, account>>

Replayed == current > Len(book)

Entered == {i \in DOMAIN results : results[i].lot > 0}

\* Candidates are walked in the order of their entries, equal ones in that of their results.
Earlier(i, j) == results[i].time < results[j].time \/ (results[i].time = results[j].time /\ i < j)
First == CHOOSE i \in undecided : \A j \in undecided \ {i} : Earlier(i, j)

\* floating_pnl: at the last mark of the position's path.
Floating(p, t) == Pnl(p.direction, p.entry, path[p.symbol][Min({t, p.last})].close, p.lot)

Equity(bal, positions, t) ==
  bal + Total([i \in 1..Len(book) |-> IF i \in DOMAIN positions THEN Floating(positions[i], t) ELSE 0])

\* The account is looked at: peak_equity and _record_dd.
Sample(equity) ==
  /\ peak' = Max({peak, equity})
  /\ drop' = IF peak' > 0 THEN Max({drop, peak' - equity}) ELSE drop

StartWalk ==
  /\ step # "walk" /\ Replayed
  /\ undecided' = Entered /\ step' = "walk"
  /\ UNCHANGED <<book, ea, path, current, m, tick, zone, touched, blocked, trade, results,
                 balance, peak, drop, open, heap, ledger>>

Before(a, b) == a[1] < b[1] \/ (a[1] = b[1] /\ a[2] < b[2])
NextExit == CHOOSE e \in heap : \A f \in heap \ {e} : Before(e, f)

Due == heap # {} /\ IF undecided = {} THEN TRUE ELSE NextExit[1] <= results[First].time

\* realize_exits_until: one exit that is due before the next entry, or, when there is none, in the end.
Realize ==
  /\ step = "walk" /\ Due
  /\ LET i == NextExit[3]
         p == open[i]
     IN /\ heap' = heap \ {NextExit}
        /\ open' = [j \in DOMAIN open \ {i} |-> open[j]]
        /\ balance' = balance + p.net
        /\ Sample(Equity(balance', open', p.exit))
  /\ UNCHANGED <<replayVars, undecided, ledger>>

Conflicts(r) == \E i \in DOMAIN open : open[i].symbol = r.symbol /\ open[i].direction # r.direction

\* The lot by equity, less in a drawdown.
AccountLot(r, equity) ==
  LET lot == LotSize(equity, r.entry, r.stop, ea.minLot)
      top == Max({peak, equity})
      inDrawdown == ea.drawdownProtection /\ top > 0 /\ 100 * (top - equity) >= ea.drawdownThreshold * top
  IN IF inDrawdown /\ lot > 0 THEN NormalizedVolume((lot * ea.drawdownFactor) \div 100, ea.minLot, ea.maxLot)
     ELSE lot

RiskOf(r, lot) == Abs(Pnl(r.direction, r.entry, r.stop, lot))

\* Why a candidate is rejected, in the order the checks are made.
Rejection(r, equity) ==
  LET lot == AccountLot(r, equity)
      risk == Total([i \in 1..Len(book) |-> IF i \in DOMAIN open THEN open[i].risk ELSE 0]) + RiskOf(r, lot)
  IN IF ea.blockOpposite /\ Conflicts(r) THEN "directional_conflict"
     ELSE IF Cardinality(DOMAIN open) >= ea.maxConcurrent THEN "max_concurrent"
     ELSE IF lot = 0 THEN "lot_size_zero"
     ELSE IF equity <= 0 \/ 100 * risk > ea.maxTotalRisk * equity THEN "max_total_risk" ELSE "none"

\* Mutant of Decide: the gain is reported at the lot of the replay.
DecideUnscaled(r, reason, lot, net) ==
  /\ ledger' = Append(ledger, [strategy |-> r.strategy, reason |-> reason, lot |-> lot, net |-> r.net])
  /\ undecided' = undecided \ {r.strategy}
  /\ UNCHANGED <<replayVars, balance>>

Decide(r, reason, lot, net) ==
  /\ ledger' = Append(ledger, [strategy |-> r.strategy, reason |-> reason, lot |-> lot, net |-> net])
  /\ undecided' = undecided \ {r.strategy}
  /\ UNCHANGED <<replayVars, balance>>

Reject ==
  /\ step = "walk" /\ undecided # {} /\ ~Due
  /\ LET r == results[First]
         equity == Equity(balance, open, r.time)
     IN /\ Rejection(r, equity) # "none"
        /\ Sample(equity)
        /\ Decide(r, Rejection(r, equity), 0, 0)
  /\ UNCHANGED <<open, heap>>

\* A trade that was open when the data ended has no exit: it is closed when it is entered.
ExitOf(r) == IF r.exitTime = 0 THEN r.time ELSE r.exitTime

Admit ==
  /\ step = "walk" /\ undecided # {} /\ ~Due
  /\ LET r == results[First]
         equity == Equity(balance, open, r.time)
         lot == AccountLot(r, equity)
         net == (r.net * lot) \div r.lot
     IN /\ Rejection(r, equity) = "none"
        /\ Sample(equity)
        /\ Decide(r, "none", lot, net)
        /\ open' = [i \in DOMAIN open \union {r.strategy} |->
             IF i = r.strategy
             THEN [symbol |-> r.symbol, direction |-> r.direction, exit |-> ExitOf(r), entry |-> r.entry, lot |-> lot,
                   risk |-> RiskOf(r, lot), net |-> net, last |-> r.last]
             ELSE open[i]]
        /\ heap' = heap \union {<<ExitOf(r), Len(ledger), r.strategy>>}

Finished == step = "walk" /\ undecided = {} /\ heap = {}
Stop == Finished /\ UNCHANGED vars

Init ==
  /\ ReplayInit
  /\ undecided = {} /\ balance = ea.balance /\ peak = ea.balance /\ drop = 0
  /\ open = <<>> /\ heap = {} /\ ledger = <<>>

Next ==
  \/ ReplayNext /\ UNCHANGED account
  \/ StartWalk \/ Realize \/ Reject \/ Admit \/ Stop

Spec == Init /\ [][Next]_vars

-----------------------------------------------------------------------------
Admitted == {i \in DOMAIN ledger : ledger[i].reason = "none"}

\* A stop that management moves only gets closer: never back, also when break even, trailing and the
\* minimal distance of the broker meet in one bar.
StopOnlyTightens ==
  [][step = "trade" /\ step' = "trade" /\ trade'.stop # trade.stop => Improves(trade'.stop, trade.stop)]_vars

\* A trade nothing was done to is worth what the theoretical one is; and what the theoretical one
\* ends by is never a target when the real one lost by its first stop.
UnmanagedIsTheoretical ==
  \A i \in DOMAIN results :
    LET r == results[i] IN
      r.outcome \in {"closed_tp", "closed_sl"} /\ ~r.partial => r.theory # "none" /\ r.net = r.theoryNet

\* When the walk is over the account holds what it started with and every admitted trade once.
BalanceAccounts ==
  Finished => /\ DOMAIN open = {}
              /\ balance = ea.balance + Total([i \in DOMAIN ledger |-> IF i \in Admitted THEN ledger[i].net ELSE 0])
=============================================================================
