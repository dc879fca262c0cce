---------------------------- MODULE PortfolioProofs ----------------------------
(***************************************************************************)
(* Theorems about the backtest: for any book of strategies, configuration, *)
(* warm-up, shapes of bars, horizon and broker,                            *)
(*                                                                         *)
(*   StopsOnlyTighten           management never moves a stop back;        *)
(*   UnmanagedTradesAsInTheory  a trade nothing was done to is worth what  *)
(*                              its theoretical one is;                    *)
(*   AccountAlwaysBalances      the balance in the end is what every       *)
(*                              admitted trade brought, each once.         *)
(*                                                                         *)
(* They rest on AccountInv.  Of the replay it says where the open minute   *)
(* is (Place), that the stop of an open trade is the first or improves on  *)
(* it, so that the theoretical trade cannot have ended before (Managed),   *)
(* and of what type each number of a result is (Reported).  Of the walk it *)
(* says that the exits that are due are those of the open positions and of *)
(* the decisions that opened them (Exits), and that the balance holds the  *)
(* sum of what is closed (Walking, Realized).                              *)
(***************************************************************************)
EXTENDS Portfolio, SequenceTheorems, WellFoundedInduction, TLAPS

-----------------------------------------------------------------------------
(* Minima *)

LEMMA Least ==
  ASSUME NEW S, S \subseteq Nat, S # {}
  PROVE  \E x \in S : \A y \in S : x <= y
<1>1. PICK x \in S : \A y \in S : <<y, x>> \notin OpToRel(<, Nat)
  BY NatLessThanWellFounded, WFMin, Zenon
<1>2. ASSUME NEW y \in S PROVE x <= y
  <2>1. <<y, x>> \in Nat \X Nat /\ <<y, x>>[1] = y /\ <<y, x>>[2] = x
    OBVIOUS
  <2>2. y < x => <<y, x>> \in OpToRel(<, Nat)
    BY <2>1, Zenon DEF OpToRel
  <2>3. ~(y < x)
    BY <1>1, <2>2, Zenon
  <2> QED
    BY <2>3
<1> QED
  BY <1>2

\* Of finitely many things with a time and a rank of their own one comes before all others.
LEMMA Foremost ==
  ASSUME NEW S, S # {}, NEW time, NEW rank,
         \A x \in S : time[x] \in Nat /\ rank[x] \in Nat,
         \A x, y \in S : rank[x] = rank[y] => x = y
  PROVE  \E x \in S : \A y \in S \ {x} : time[x] < time[y] \/ (time[x] = time[y] /\ rank[x] < rank[y])
<1>1. PICK t \in {time[x] : x \in S} : \A u \in {time[x] : x \in S} : t <= u
  <2>1. {time[x] : x \in S} \subseteq Nat /\ {time[x] : x \in S} # {}
    OBVIOUS
  <2> QED
    BY <2>1, Least
<1>2. PICK k \in {rank[x] : x \in {y \in S : time[y] = t}} : \A u \in {rank[x] : x \in {y \in S : time[y] = t}} : k <= u
  <2>1. {rank[x] : x \in {y \in S : time[y] = t}} \subseteq Nat /\ {rank[x] : x \in {y \in S : time[y] = t}} # {}
    BY <1>1
  <2> QED
    BY <2>1, Least
<1>3. PICK x \in S : time[x] = t /\ rank[x] = k
  BY <1>2
<1>4. ASSUME NEW y \in S \ {x}
      PROVE  time[x] < time[y] \/ (time[x] = time[y] /\ rank[x] < rank[y])
  <2>1. time[y] \in Nat /\ rank[y] \in Nat /\ t \in Nat /\ k \in Nat /\ rank[y] # k
    BY <1>3
  <2>2. t <= time[y] /\ (time[y] = t => k <= rank[y])
    BY <1>1, <1>2
  <2> QED
    BY <1>3, <2>1, <2>2
<1> QED
  BY <1>3, <1>4

LEMMA MaxOfTwo ==
  ASSUME NEW a \in Int, NEW b \in Int
  PROVE  Max({a, b}) = IF a >= b THEN a ELSE b
<1>1. \E x \in {a, b} : \A y \in {a, b} : x >= y
  OBVIOUS
<1>2. Max({a, b}) \in {a, b} /\ \A y \in {a, b} : Max({a, b}) >= y
  BY <1>1 DEF Max
<1> QED
  BY <1>2

LEMMA MinOfTwo ==
  ASSUME NEW a \in Int, NEW b \in Int
  PROVE  Min({a, b}) = IF a <= b THEN a ELSE b
<1>1. \E x \in {a, b} : \A y \in {a, b} : x <= y
  OBVIOUS
<1>2. Min({a, b}) \in {a, b} /\ \A y \in {a, b} : Min({a, b}) <= y
  BY <1>1 DEF Min
<1> QED
  BY <1>2

LEMMA Product ==
  ASSUME NEW a \in Int, NEW b \in Int
  PROVE  a * b \in Int
OBVIOUS

LEMMA Quotient ==
  ASSUME NEW a \in Int, NEW b \in Nat \ {0}
  PROVE  a \div b \in Int
OBVIOUS

\* As many whole parts as fit into a number do fit.
LEMMA WholeParts ==
  ASSUME NEW a \in Nat, NEW b \in Nat \ {0}, NEW j \in 1..(a \div b)
  PROVE  /\ j * b \in Nat /\ (j - 1) * b \in Nat
         /\ j * b = (j - 1) * b + b
         /\ j * b <= a
<1>1. (a \div b) * b <= a /\ a \div b \in Nat
  OBVIOUS
<1>2. j * b <= (a \div b) * b
  BY <1>1
<1>3. j * b = (j - 1) * b + b /\ j * b \in Int /\ (j - 1) * b \in Nat
  OBVIOUS
<1> QED
  BY <1>1, <1>2, <1>3

-----------------------------------------------------------------------------
(* Sums *)

\* The partial sums of a sequence up to an index.
Sums(f, q, k) == f = [n \in 0..k |-> IF n = 0 THEN 0 ELSE f[n - 1] + q[n]]

LEMMA SumsExist ==
  ASSUME NEW q, NEW top \in Nat
  PROVE  \E f : Sums(f, q, top)
<1> DEFINE Lack == {k \in Nat : ~\E f : Sums(f, q, k)}
<1>1. SUFFICES ASSUME Lack # {} PROVE FALSE
  OBVIOUS
<1>2. PICK k \in Lack : \A j \in Lack : k <= j
  BY <1>1, Least
<1>3. CASE k = 0
  <2> DEFINE g == [n \in 0..0 |-> 0]
  <2>1. g = [n \in 0..0 |-> IF n = 0 THEN 0 ELSE g[n - 1] + q[n]]
    OBVIOUS
  <2> HIDE DEF g
  <2>2. Sums(g, q, 0)
    BY <2>1 DEF Sums
  <2> QED
    BY <1>3, <2>2
<1>4. CASE k # 0
  <2>1. k - 1 \in Nat /\ k - 1 \notin Lack
    BY <1>2, <1>4
  <2>2. PICK f : Sums(f, q, k - 1)
    BY <2>1
  <2> DEFINE g == [n \in 0..k |-> IF n = k THEN f[k - 1] + q[k] ELSE f[n]]
  <2>3. f = [n \in 0..(k - 1) |-> IF n = 0 THEN 0 ELSE f[n - 1] + q[n]]
    BY <2>2 DEF Sums
  <2>4. ASSUME NEW n \in 0..k
        PROVE  g[n] = IF n = 0 THEN 0 ELSE g[n - 1] + q[n]
    <3>1. CASE n = k
      <4>1. g[n] = f[k - 1] + q[k] /\ g[n - 1] = f[k - 1]
        BY <1>4, <3>1
      <4> QED
        BY <1>4, <3>1, <4>1
    <3>2. CASE n # k
      <4>1. n \in 0..(k - 1) /\ (n # 0 => n - 1 \in 0..(k - 1))
        BY <3>2
      <4>2. f[n] = IF n = 0 THEN 0 ELSE f[n - 1] + q[n]
        BY <2>3, <4>1
      <4>3. g[n] = f[n] /\ (n # 0 => g[n - 1] = f[n - 1])
        BY <3>2, <4>1
      <4> QED
        BY <4>2, <4>3
    <3> QED
      BY <3>1, <3>2
  <2>5. g = [n \in 0..k |-> g[n]]
    OBVIOUS
  <2> HIDE DEF g
  <2>6. g = [n \in 0..k |-> IF n = 0 THEN 0 ELSE g[n - 1] + q[n]]
    BY <2>4, <2>5
  <2>7. Sums(g, q, k)
    BY <2>6 DEF Sums
  <2> QED
    BY <1>2, <2>7
<1> QED
  BY <1>3, <1>4

LEMMA TotalIsLast ==
  ASSUME NEW q \in Seq(Int)
  PROVE  \E f : /\ f \in [0..Len(q) -> Int]
                /\ f[0] = 0 /\ \A n \in 1..Len(q) : f[n] = f[n - 1] + q[n]
                /\ Total(q) = f[Len(q)]
<1> DEFINE f == CHOOSE g : Sums(g, q, Len(q))
<1>1. Len(q) \in Nat /\ \A n \in 1..Len(q) : q[n] \in Int
  OBVIOUS
<1>2. Sums(f, q, Len(q))
  BY <1>1, SumsExist
<1>3. Total(q) = f[Len(q)]
  BY DEF Total, Sums
<1> HIDE DEF f
<1>4. f = [n \in 0..Len(q) |-> IF n = 0 THEN 0 ELSE f[n - 1] + q[n]]
  BY <1>2 DEF Sums
<1>5. f[0] = 0 /\ \A n \in 1..Len(q) : f[n] = f[n - 1] + q[n]
  BY <1>1, <1>4
<1> DEFINE Wrong == {n \in 0..Len(q) : f[n] \notin Int}
<1>6. Wrong = {}
  <2>1. SUFFICES ASSUME Wrong # {} PROVE FALSE
    OBVIOUS
  <2>2. PICK k \in Wrong : \A j \in Wrong : k <= j
    <3>1. Wrong \subseteq Nat
      BY <1>1
    <3> QED
      BY <2>1, <3>1, Least
  <2>3. k \in 1..Len(q)
    BY <1>1, <1>5, <2>2
  <2>4. k - 1 \in 0..Len(q) /\ k - 1 \notin Wrong
    BY <1>1, <2>2, <2>3
  <2> QED
    BY <1>1, <1>5, <2>2, <2>3, <2>4
<1>7. f \in [0..Len(q) -> Int]
  BY <1>4, <1>6
<1> QED
  BY <1>3, <1>5, <1>7

LEMMA TotalIsInt ==
  ASSUME NEW q \in Seq(Int)
  PROVE  Total(q) \in Int
<1>1. PICK f : f \in [0..Len(q) -> Int] /\ Total(q) = f[Len(q)]
  BY TotalIsLast
<1>2. Len(q) \in 0..Len(q)
  OBVIOUS
<1> QED
  BY <1>1, <1>2

LEMMA TotalOfNone ==
  ASSUME NEW q \in Seq(Int), Len(q) = 0
  PROVE  Total(q) = 0
BY TotalIsLast

\* One number of a sequence changes, and the sum by as much; what is appended is added.
LEMMA TotalChanges ==
  ASSUME NEW q \in Seq(Int), NEW r \in Seq(Int), Len(r) = Len(q), NEW k \in 1..Len(q),
         \A i \in 1..Len(q) : i # k => r[i] = q[i]
  PROVE  Total(r) = Total(q) - q[k] + r[k]
<1>1. Len(q) \in Nat /\ \A n \in 1..Len(q) : q[n] \in Int /\ r[n] \in Int
  OBVIOUS
<1>2. PICK f : /\ f \in [0..Len(q) -> Int]
               /\ f[0] = 0 /\ \A n \in 1..Len(q) : f[n] = f[n - 1] + q[n]
               /\ Total(q) = f[Len(q)]
  BY TotalIsLast
<1>3. PICK g : /\ g \in [0..Len(q) -> Int]
               /\ g[0] = 0 /\ \A n \in 1..Len(q) : g[n] = g[n - 1] + r[n]
               /\ Total(r) = g[Len(q)]
  BY TotalIsLast
<1> DEFINE Wrong == {n \in 0..Len(q) : g[n] # IF n < k THEN f[n] ELSE f[n] - q[k] + r[k]}
<1>4. Wrong = {}
  <2>1. SUFFICES ASSUME Wrong # {} PROVE FALSE
    OBVIOUS
  <2>2. PICK n \in Wrong : \A j \in Wrong : n <= j
    <3>1. Wrong \subseteq Nat
      BY <1>1
    <3> QED
      BY <2>1, <3>1, Least
  <2>3. n \in 1..Len(q)
    BY <1>1, <1>2, <1>3, <2>2
  <2>4. n - 1 \in 0..Len(q) /\ n - 1 \notin Wrong
    BY <1>1, <2>2, <2>3
  <2>5. g[n - 1] = IF n - 1 < k THEN f[n - 1] ELSE f[n - 1] - q[k] + r[k]
    BY <2>4
  <2>6. f[n] = f[n - 1] + q[n] /\ g[n] = g[n - 1] + r[n] /\ f[n - 1] \in Int /\ q[n] \in Int /\ r[n] \in Int
    BY <1>1, <1>2, <1>3, <2>3, <2>4
  <2>7. n # k => r[n] = q[n]
    BY <2>3
  <2>8. q[k] \in Int /\ r[k] \in Int
    BY <1>1
  <2>9. g[n] = IF n < k THEN f[n] ELSE f[n] - q[k] + r[k]
    BY <2>3, <2>5, <2>6, <2>7, <2>8
  <2> QED
    BY <2>2, <2>9
<1>5. Len(q) \in 0..Len(q) /\ ~(Len(q) < k)
  BY <1>1
<1> QED
  BY <1>2, <1>3, <1>4, <1>5

LEMMA TotalGrows ==
  ASSUME NEW q \in Seq(Int), NEW r \in Seq(Int), Len(r) = Len(q) + 1,
         \A i \in 1..Len(q) : r[i] = q[i]
  PROVE  Total(r) = Total(q) + r[Len(r)]
<1>1. Len(q) \in Nat /\ \A n \in 1..Len(q) : q[n] \in Int
  OBVIOUS
<1>2. PICK f : /\ f \in [0..Len(q) -> Int]
               /\ f[0] = 0 /\ \A n \in 1..Len(q) : f[n] = f[n - 1] + q[n]
               /\ Total(q) = f[Len(q)]
  BY TotalIsLast
<1>3. PICK g : /\ g \in [0..(Len(q) + 1) -> Int]
               /\ g[0] = 0 /\ \A n \in 1..(Len(q) + 1) : g[n] = g[n - 1] + r[n]
               /\ Total(r) = g[Len(q) + 1]
  BY TotalIsLast
<1> DEFINE Wrong == {n \in 0..Len(q) : g[n] # f[n]}
<1>4. Wrong = {}
  <2>1. SUFFICES ASSUME Wrong # {} PROVE FALSE
    OBVIOUS
  <2>2. PICK n \in Wrong : \A j \in Wrong : n <= j
    <3>1. Wrong \subseteq Nat
      BY <1>1
    <3> QED
      BY <2>1, <3>1, Least
  <2>3. n \in 1..Len(q)
    BY <1>1, <1>2, <1>3, <2>2
  <2>4. n - 1 \in 0..Len(q) /\ n - 1 \notin Wrong /\ n \in 1..(Len(q) + 1)
    BY <1>1, <2>2, <2>3
  <2>5. g[n] = g[n - 1] + r[n] /\ f[n] = f[n - 1] + q[n] /\ r[n] = q[n] /\ g[n - 1] = f[n - 1]
    BY <1>2, <1>3, <2>3, <2>4
  <2> QED
    BY <2>2, <2>5
<1>5. Len(q) \in 0..Len(q) /\ Len(q) + 1 \in 1..(Len(q) + 1) /\ (Len(q) + 1) - 1 = Len(q)
  BY <1>1
<1>6. g[Len(q)] = f[Len(q)] /\ g[Len(q) + 1] = g[Len(q)] + r[Len(q) + 1]
  BY <1>3, <1>4, <1>5
<1> QED
  BY <1>2, <1>3, <1>6

LEMMA SameTotal ==
  ASSUME NEW q \in Seq(Int), NEW r \in Seq(Int), Len(r) = Len(q), \A i \in 1..Len(q) : r[i] = q[i]
  PROVE  r = q
BY SeqEqual

-----------------------------------------------------------------------------
(* Sequences of records *)

Sequence(q) == \E S : q \in Seq(S)

LEMMA Appended ==
  ASSUME NEW q, Sequence(q), NEW x
  PROVE  /\ Sequence(Append(q, x)) /\ Len(q) \in Nat /\ DOMAIN q = 1..Len(q)
         /\ Len(Append(q, x)) = Len(q) + 1 /\ DOMAIN Append(q, x) = 1..(Len(q) + 1)
         /\ \A i \in 1..Len(q) : Append(q, x)[i] = q[i]
         /\ Append(q, x)[Len(q) + 1] = x
<1>1. PICK S : q \in Seq(S)
  BY DEF Sequence
<1>2. q \in Seq(S \union {x}) /\ x \in S \union {x}
  BY <1>1, SeqMonotonic
<1>3. Append(q, x) \in Seq(S \union {x})
  BY <1>2, AppendProperties
<1> QED
  BY <1>2, <1>3, AppendProperties, LenProperties DEF Sequence

-----------------------------------------------------------------------------
(* The replay *)

Trades == [time : Nat, entry : Int, lot : Nat, open : Int, stop : Int, breakEven : BOOLEAN, partial : BOOLEAN,
           realized : Int, theory : {"none", "sl", "tp"}]

Setting == book \in Books /\ ea \in Configs

PathsTyped == path \in [Symbols -> Seq(M1Bar)] /\ \A x \in Symbols : Len(path[x]) >= 1

\* Where the replay is: an open minute is at most the one after what has been read.
Place ==
  /\ current \in 1..(Len(book) + 1)
  /\ step \in {"start", "scan", "tick", "trade", "walk"} \union NotEntered
  /\ step = "walk" => Replayed
  /\ step \notin {"start", "walk"} =>
       /\ current <= Len(book) /\ m \in Nat \ {0}
       /\ m <= Len(path[s.symbol]) + 1 /\ s.timestamp <= Len(path[s.symbol]) + 1
  /\ step = "tick" => m <= Len(path[s.symbol]) /\ tick \in 1..4

\* A trade that goes on: its theoretical one does too, and its stop is the first one or a better one.
Managed ==
  /\ trade \in Trades
  /\ step = "trade" =>
       /\ trade.time > 0 /\ trade.lot > 0 /\ trade.theory = "none"
       /\ trade.stop = s.stop \/ Improves(trade.stop, s.stop)
       /\ ~trade.partial => trade.open = trade.lot /\ trade.realized = 0

\* What the account reads of a result.
Typed(r, paths) ==
  /\ r.lot \in Nat
  /\ r.lot > 0 =>
       /\ r.symbol \in Symbols /\ r.time \in Nat \ {0} /\ r.exitTime \in Nat
       /\ r.entry \in Int /\ r.stop \in Int /\ r.net \in Int
       /\ r.last \in 1..Len(paths[r.symbol])

AsInTheory(r) ==
  r.outcome \in {"closed_tp", "closed_sl"} /\ ~r.partial => r.theory # "none" /\ r.net = r.theoryNet

Reported ==
  /\ Sequence(results) /\ Len(results) = current - 1
  /\ \A i \in 1..Len(results) : results[i].strategy = i /\ Typed(results[i], path) /\ AsInTheory(results[i])

ReplayInv == Setting /\ PathsTyped /\ Place /\ Managed /\ Reported

LEMMA StrategyFacts ==
  ASSUME Setting, current \in 1..Len(book)
  PROVE  /\ s.symbol \in Symbols /\ s.timestamp \in Nat \ {0} /\ s.timeframe \in Nat \ {0}
         /\ s.level \in Nat /\ s.stop \in Nat /\ s.target \in Nat
BY ReplayAssumption DEF Setting, s, IsStrategy

LEMMA ConfigFacts ==
  ASSUME Setting
  PROVE  /\ ea.baseLot \in Nat /\ ea.minLot \in Nat /\ ea.maxLot \in Nat /\ ea.risk \in Nat
         /\ ea.strategyBalance \in Nat /\ ea.balance \in Nat /\ ea.partial \in Nat /\ ea.drawdownFactor \in Nat
         /\ ea.maPeriod \in Nat \ {0} /\ ea.breakEvenBuffer \in Nat /\ ea.trailStart \in Nat
BY ReplayAssumption DEF Setting, IsConfig

LEMMA BookFacts ==
  ASSUME Setting
  PROVE  Len(book) \in Nat /\ DOMAIN book = 1..Len(book)
BY ReplayAssumption DEF Setting

\* What a step may read is a bar, and the bars that are known grow by no more than it.
LEMMA ReadFacts ==
  ASSUME Setting, PathsTyped, current \in 1..Len(book),
         NEW t \in Nat \ {0}, t <= Len(path[s.symbol]) + 1, NEW b, Read(t, b)
  PROVE  /\ b \in M1Bar /\ PathsTyped' /\ t <= Horizon
         /\ t <= Len(path'[s.symbol])
         /\ \A x \in Symbols : Len(path'[x]) >= Len(path[x])
<1> DEFINE bars == path[s.symbol]
<1>1. s.symbol \in Symbols /\ bars \in Seq(M1Bar) /\ Len(bars) \in Nat /\ Len(bars) >= 1
  BY StrategyFacts DEF PathsTyped
<1>2. CASE t <= Len(bars)
  <2>1. b = bars[t] /\ path' = path
    BY <1>2 DEF Read, Bars
  <2>2. b \in M1Bar
    BY <1>1, <1>2, <2>1
  <2> QED
    BY <1>2, <2>1, <2>2 DEF PathsTyped, Read
<1>3. CASE ~(t <= Len(bars))
  <2>1. PICK sh \in Shapes :
          b = [open |-> LastClose(s.symbol), high |-> LastClose(s.symbol) + sh.high, low |-> LastClose(s.symbol) + sh.low,
               close |-> LastClose(s.symbol) + sh.close]
    BY <1>3 DEF Read, Bars
  <2>2. LastClose(s.symbol) \in Int
    <3>1. bars[Len(bars)] \in M1Bar
      BY <1>1
    <3> QED
      BY <3>1 DEF LastClose, M1Bar
  <2>3. sh.high \in Int /\ sh.low \in Int /\ sh.close \in Int
    BY ReplayAssumption
  <2>4. b \in M1Bar
    BY <2>1, <2>2, <2>3 DEF M1Bar
  <2>5. path' = [path EXCEPT ![s.symbol] = Append(bars, b)] /\ t <= Horizon
    BY <1>3 DEF Read
  <2>6. Append(bars, b) \in Seq(M1Bar) /\ Len(Append(bars, b)) = Len(bars) + 1
    BY <1>1, <2>4, AppendProperties
  <2>7. path'[s.symbol] = Append(bars, b) /\ \A x \in Symbols : x # s.symbol => path'[x] = path[x]
    BY <1>1, <2>5 DEF PathsTyped
  <2>8. path' \in [Symbols -> Seq(M1Bar)]
    BY <1>1, <2>5, <2>6 DEF PathsTyped
  <2>9. \A x \in Symbols : Len(path'[x]) >= Len(path[x]) /\ Len(path[x]) \in Nat
    BY <1>1, <2>6, <2>7 DEF PathsTyped
  <2>10. PathsTyped'
    BY <1>1, <2>8, <2>9 DEF PathsTyped
  <2> QED
    BY <1>1, <2>4, <2>5, <2>6, <2>7, <2>9, <2>10
<1> QED
  BY <1>2, <1>3

LEMMA AbsIsInt ==
  ASSUME NEW x \in Int
  PROVE  Abs(x) \in Nat
BY DEF Abs

\* normalize_volume answers with a volume.
LEMMA VolumeIsNat ==
  ASSUME NEW volume \in Int, NEW least \in Nat, NEW most \in Nat
  PROVE  NormalizedVolume(volume, least, most) \in Nat
<1> DEFINE lo == Max({least, VolumeMin})
           hi == Min({most, VolumeMax})
           within == Min({Max({volume, lo}), hi})
           stepped == (within \div VolumeStep) * VolumeStep
<1>1. VolumeMin \in Nat \ {0} /\ VolumeStep \in Nat \ {0} /\ VolumeMax \in Nat
  BY ReplayAssumption
<1>2. lo \in Nat /\ hi \in Nat
  BY <1>1, MaxOfTwo, MinOfTwo
<1>3. within \in Int
  <2> HIDE DEF lo, hi
  <2>1. Max({volume, lo}) \in Int
    BY <1>2, MaxOfTwo
  <2> QED
    BY <1>2, <2>1, MinOfTwo
<1>4. stepped \in Int
  BY <1>1, <1>3
<1>5. NormalizedVolume(volume, least, most) =
        IF volume <= 0 \/ hi < lo THEN 0 ELSE Min({Max({stepped, lo}), hi})
  BY DEF NormalizedVolume
<1> HIDE DEF lo, hi, within, stepped
<1>6. Max({stepped, lo}) \in Nat
  BY <1>2, <1>4, MaxOfTwo
<1>7. Min({Max({stepped, lo}), hi}) \in Nat
  BY <1>2, <1>6, MinOfTwo
<1> QED
  BY <1>5, <1>7

LEMMA LotIsNat ==
  ASSUME Setting, NEW money \in Int, NEW entry \in Int, NEW stop \in Int, NEW least \in Nat
  PROVE  LotSize(money, entry, stop, least) \in Nat
<1> DEFINE perLot == Abs(entry - stop) * TickValue + Commission
           byRisk == (money * ea.risk) \div (100 * perLot)
<1>1. ea.baseLot \in Nat /\ ea.maxLot \in Nat /\ ea.risk \in Nat
  BY ConfigFacts
<1>2. Abs(entry - stop) \in Nat /\ TickValue \in Nat /\ Commission \in Nat
  BY ReplayAssumption, AbsIsInt
<1>3. perLot \in Nat
  BY <1>2
<1>4. perLot # 0 => byRisk \in Int
  <2>1. perLot # 0 => 100 * perLot \in Nat \ {0}
    BY <1>3
  <2>2. money * ea.risk \in Int
    BY <1>1
  <2> QED
    BY <2>1, <2>2, Quotient
<1>5. perLot # 0 => (IF money > 0 THEN Max({1, byRisk}) ELSE 0) \in Int
  <2>1. perLot # 0 => Max({1, byRisk}) \in Int
    BY <1>4, MaxOfTwo
  <2> QED
    BY <2>1
<1>6. LotSize(money, entry, stop, least) =
        IF ~ea.dynamicSizing \/ perLot = 0 THEN NormalizedVolume(ea.baseLot, least, ea.maxLot)
        ELSE NormalizedVolume(IF money > 0 THEN Max({1, byRisk}) ELSE 0, least, ea.maxLot)
  BY DEF LotSize
<1>7. NormalizedVolume(ea.baseLot, least, ea.maxLot) \in Nat
  <2>1. ea.baseLot \in Int /\ ea.maxLot \in Nat
    BY <1>1
  <2> QED
    BY <2>1, VolumeIsNat
<1>8. perLot # 0 => NormalizedVolume(IF money > 0 THEN Max({1, byRisk}) ELSE 0, least, ea.maxLot) \in Nat
  BY <1>1, <1>5, VolumeIsNat
<1> HIDE DEF perLot, byRisk
<1> QED
  BY <1>6, <1>7, <1>8

LEMMA PnlIsInt ==
  ASSUME NEW direction, NEW from \in Int, NEW to \in Int, NEW volume \in Int
  PROVE  Pnl(direction, from, to, volume) \in Int
<1>1. Gain(direction, from, to) \in Int
  BY DEF Gain
<1>2. TickValue \in Int
  BY ReplayAssumption
<1>3. Gain(direction, from, to) * TickValue \in Int
  BY <1>1, <1>2, Product
<1> QED
  BY <1>3, Product DEF Pnl

LEMMA CommissionIsInt ==
  ASSUME NEW volume \in Int
  PROVE  CommissionOf(volume) \in Int
BY ReplayAssumption, Product DEF CommissionOf

-----------------------------------------------------------------------------
(* Management *)

\* A stop that improves on one that improves on a third improves on the third.
LEMMA ImprovesAgain ==
  ASSUME NEW a \in Int, NEW b \in Int, NEW c \in Int, Improves(c, b), b = a \/ Improves(b, a)
  PROVE  Improves(c, a)
BY DEF Improves, Tighter, Long

\* What a management step does to a trade: if it moves the stop it improves it.
Better(t, u) ==
  /\ u \in Trades /\ u.time = t.time /\ u.lot = t.lot /\ u.theory = t.theory
  /\ u.stop = t.stop \/ Improves(u.stop, t.stop)
  /\ ~u.partial => ~t.partial /\ u.open = t.open /\ u.realized = t.realized

LEMMA BetterAgain ==
  ASSUME NEW t \in Trades, NEW u \in Trades, NEW v \in Trades, Better(t, u), Better(u, v)
  PROVE  Better(t, v)
<1>1. t.stop \in Int /\ u.stop \in Int /\ v.stop \in Int
  BY DEF Trades
<1>2. v.stop = t.stop \/ Improves(v.stop, t.stop)
  <2>1. CASE v.stop = u.stop
    BY <2>1 DEF Better
  <2>2. CASE Improves(v.stop, u.stop)
    BY <1>1, <2>2, ImprovesAgain DEF Better
  <2> QED
    BY <2>1, <2>2 DEF Better
<1> QED
  BY <1>2 DEF Better

LEMMA SameIsBetter ==
  ASSUME NEW t \in Trades
  PROVE  Better(t, t)
BY DEF Better

LEMMA NormalizedStopIsInt ==
  ASSUME NEW stop \in Int, NEW price \in Int
  PROVE  NormalizedStop(stop, price) \in Int
BY DEF NormalizedStop, StopDistance

LEMMA MovedIsBetter ==
  ASSUME NEW t \in Trades, NEW proposed \in Int, NEW price \in Int
  PROVE  Better(t, Moved(t, proposed, price))
<1> DEFINE stop == NormalizedStop(proposed, price)
<1>1. stop \in Int
  BY NormalizedStopIsInt
<1>2. Moved(t, proposed, price) = IF Improves(stop, t.stop) THEN [t EXCEPT !.stop = stop] ELSE t
  BY DEF Moved
<1> HIDE DEF stop
<1>3. [t EXCEPT !.stop = stop] \in Trades /\ [t EXCEPT !.stop = stop].stop = stop
  BY <1>1 DEF Trades
<1>4. Improves(stop, t.stop) => Better(t, [t EXCEPT !.stop = stop])
  BY <1>1, <1>3 DEF Better, Trades
<1> QED
  BY <1>2, <1>4, SameIsBetter

LEMMA BreakEvenIsBetter ==
  ASSUME Setting, NEW t \in Trades, NEW price \in Int, NEW atr
  PROVE  Better(t, AfterBreakEven(t, price, atr))
<1> DEFINE offset == Commission \div TickValue + ea.breakEvenBuffer
           wanted == NormalizedStop(IF Long THEN t.entry + offset ELSE t.entry - offset, price)
           stop == BreakEvenStop(t, price, atr)
<1>1. offset \in Int
  <2>1. Commission \div TickValue \in Int
    BY ReplayAssumption, Quotient
  <2> QED
    BY <2>1, ConfigFacts
<1>2. wanted \in Int
  <2> HIDE DEF offset
  <2>1. (IF Long THEN t.entry + offset ELSE t.entry - offset) \in Int
    BY <1>1 DEF Trades
  <2> QED
    BY <2>1, NormalizedStopIsInt
<1>3. stop = 0 \/ (stop = wanted /\ Improves(wanted, t.stop))
  BY DEF BreakEvenStop
<1>4. AfterBreakEven(t, price, atr) =
        IF ea.useBreakEven /\ stop > 0 THEN [t EXCEPT !.stop = stop, !.breakEven = TRUE] ELSE t
  BY DEF AfterBreakEven
<1> HIDE DEF stop, wanted
<1>5. stop > 0 => stop \in Int /\ Improves(stop, t.stop)
  BY <1>2, <1>3
<1>6. ASSUME stop > 0
      PROVE  Better(t, [t EXCEPT !.stop = stop, !.breakEven = TRUE])
  <2>1. [t EXCEPT !.stop = stop, !.breakEven = TRUE] \in Trades
    BY <1>5, <1>6 DEF Trades
  <2> QED
    BY <1>5, <1>6, <2>1 DEF Better, Trades
<1> QED
  BY <1>4, <1>6, SameIsBetter

LEMMA TrailedIsBetter ==
  ASSUME Setting, current \in 1..Len(book), trade \in Trades, NEW t \in Trades, NEW price \in Int
  PROVE  Better(t, Trailed(t, price))
<1> DEFINE behind == (Risked * ea.trailStart) \div 100
           proposed == IF Long THEN price - behind ELSE price + behind
<1>1. behind \in Int
  <2>1. Risked \in Nat
    <3>1. trade.entry - s.stop \in Int
      BY StrategyFacts DEF Trades
    <3> QED
      BY <3>1, AbsIsInt DEF Risked
  <2>2. Risked * ea.trailStart \in Int
    BY <2>1, ConfigFacts, Product
  <2> QED
    BY <2>2, Quotient
<1>2. proposed \in Int
  <2> HIDE DEF behind
  <2> QED
    BY <1>1
<1>3. Better(t, Moved(t, proposed, price))
  <2> HIDE DEF proposed
  <2> QED
    BY <1>2, MovedIsBetter
<1>4. Trailed(t, price) = Moved(t, proposed, price) \/ Trailed(t, price) = t
  BY DEF Trailed
<1> HIDE DEF proposed, behind
<1> QED
  BY <1>3, <1>4, SameIsBetter

LEMMA CandleCloses ==
  ASSUME NEW bars
  PROVE  Candle(bars).close = bars[Len(bars)].close
BY DEF Candle

\* The closed candles end with bars that have been read.
LEMMA ClosesAreInts ==
  ASSUME Setting, PathsTyped, current \in 1..Len(book), NEW t \in Nat \ {0}, t <= Len(path[s.symbol]) + 1
  PROVE  LET df == Closed(s.symbol, s.timeframe, t)
         IN Len(df) \in Nat /\ \A j \in 1..Len(df) : df[j].close \in Int
<1> DEFINE df == Closed(s.symbol, s.timeframe, t)
           bars == path[s.symbol]
           tf == s.timeframe
           many == (t - 1) \div tf
           Part(j) == SubSeq(bars, (j - 1) * tf + 1, j * tf)
<1>1. tf \in Nat \ {0} /\ bars \in Seq(M1Bar) /\ Len(bars) \in Nat
  BY StrategyFacts DEF PathsTyped
<1>2. many \in Nat
  BY <1>1
<1>3. df = [j \in 1..many |-> Candle(Part(j))]
  BY DEF Closed
<1>4. Len(df) = many
  BY <1>2, <1>3
<1>5. ASSUME NEW j \in 1..many
      PROVE  df[j].close \in Int
  <2> DEFINE before == (j - 1) * tf
             to == j * tf
  <2>1. /\ to \in Nat /\ before \in Nat /\ to = before + tf /\ to <= t - 1
    <3>1. t - 1 \in Nat /\ j \in 1..((t - 1) \div tf)
      OBVIOUS
    <3> HIDE DEF tf
    <3> QED
      BY <1>1, <3>1, WholeParts
  <2>2. df[j] = Candle(SubSeq(bars, before + 1, to))
    BY <1>3, <1>5
  <2> HIDE DEF before, to, df, tf, bars
  <2>3. before + 1 \in Nat \ {0} /\ before + 1 <= to /\ to <= Len(bars)
    <3>1. t <= Len(bars) + 1
      BY DEF bars
    <3> QED
      BY <1>1, <2>1, <3>1
  <2>4. \A i \in (before + 1)..to : bars[i] \in M1Bar
    BY <1>1, <2>1, <2>3
  <2> DEFINE part == SubSeq(bars, before + 1, to)
  <2>5. part \in Seq(M1Bar) /\ Len(part) = to - before
    BY <2>1, <2>3, <2>4, SubSeqProperties
  <2>6. df[j].close = part[Len(part)].close
    BY <2>2, CandleCloses
  <2> HIDE DEF part
  <2>7. part[Len(part)] \in M1Bar
    BY <1>1, <2>1, <2>5
  <2> QED
    BY <2>6, <2>7 DEF M1Bar
<1> QED
  BY <1>2, <1>4, <1>5

LEMMA AverageIsInt ==
  ASSUME Setting, NEW df, Len(df) \in Nat, \A j \in 1..Len(df) : df[j].close \in Int
  PROVE  Average(df) \in Int
<1> DEFINE closes == [i \in 1..ea.maPeriod |-> df[Len(df) - ea.maPeriod - 1 + i].close]
<1>1. ea.maPeriod \in Nat \ {0}
  BY ConfigFacts
<1>2. CASE Len(df) < ea.maPeriod + 1
  BY <1>2 DEF Average
<1>3. CASE ~(Len(df) < ea.maPeriod + 1)
  <2>1. ASSUME NEW i \in 1..ea.maPeriod
        PROVE  df[Len(df) - ea.maPeriod - 1 + i].close \in Int
    <3>1. Len(df) - ea.maPeriod - 1 + i \in 1..Len(df)
      BY <1>1, <1>3
    <3> QED
      BY <3>1
  <2>2. closes \in Seq(Int)
    <3>1. closes \in [1..ea.maPeriod -> Int]
      BY <2>1
    <3> HIDE DEF closes
    <3> QED
      BY <1>1, <3>1
  <2>3. Average(df) = Total(closes) \div ea.maPeriod
    BY <1>3 DEF Average
  <2> HIDE DEF closes
  <2>4. Total(closes) \in Int
    BY <2>2, TotalIsInt
  <2> QED
    BY <1>1, <2>3, <2>4, Quotient
<1> QED
  BY <1>2, <1>3

LEMMA TrailingIsBetter ==
  ASSUME Setting, current \in 1..Len(book), trade \in Trades, NEW t \in Trades, NEW price \in Int,
         NEW df, Len(df) \in Nat, \A j \in 1..Len(df) : df[j].close \in Int
  PROVE  Better(t, AfterTrailing(t, price, df))
<1>1. Better(t, TrailedByAverage(t, price, df))
  <2>1. Average(df) \in Int
    BY AverageIsInt
  <2>2. Better(t, Moved(t, Average(df), price))
    BY <2>1, MovedIsBetter
  <2>3. TrailedByAverage(t, price, df) = Moved(t, Average(df), price) \/ TrailedByAverage(t, price, df) = t
    BY DEF TrailedByAverage
  <2> QED
    BY <2>2, <2>3, SameIsBetter
<1>2. Better(t, Trailed(t, price))
  BY TrailedIsBetter
<1>3. AfterTrailing(t, price, df) \in {TrailedByAverage(t, price, df), Trailed(t, price), t}
  BY DEF AfterTrailing
<1> QED
  BY <1>1, <1>2, <1>3, SameIsBetter

LEMMA PartialIsBetter ==
  ASSUME Setting, current \in 1..Len(book), NEW t \in Trades, NEW b \in M1Bar
  PROVE  Better(t, AfterPartial(t, b))
<1> DEFINE price == IF Long THEN b.high ELSE b.low
           part == (((t.lot * ea.partial) \div 100) \div VolumeStep) * VolumeStep
           volume == IF part < VolumeMin THEN 0 ELSE part
           closes == volume > 0 /\ volume < t.open
           u == [t EXCEPT !.partial = TRUE,
                          !.open = IF closes THEN @ - volume ELSE @,
                          !.realized = IF closes THEN @ + Pnl(s.direction, t.entry, price, volume) ELSE @]
<1>1. price \in Int
  BY DEF M1Bar
<1>2. volume \in Int
  <2>1. t.lot * ea.partial \in Int
    BY ConfigFacts, Product DEF Trades
  <2>2. (t.lot * ea.partial) \div 100 \in Int
    BY <2>1, Quotient
  <2>3. ((t.lot * ea.partial) \div 100) \div VolumeStep \in Int
    BY <2>2, Quotient, ReplayAssumption
  <2>4. part \in Int
    BY <2>3, Product, ReplayAssumption
  <2> HIDE DEF part
  <2> QED
    BY <2>4
<1>3. AfterPartial(t, b) = u \/ AfterPartial(t, b) = t
  BY DEF AfterPartial
<1>4. Pnl(s.direction, t.entry, price, volume) \in Int
  <2> HIDE DEF price, volume
  <2> QED
    BY <1>1, <1>2, PnlIsInt DEF Trades
<1> HIDE DEF price, volume, closes
<1>5. u \in Trades
  <2>1. (IF closes THEN t.open - volume ELSE t.open) \in Int
    BY <1>2 DEF Trades
  <2>2. (IF closes THEN t.realized + Pnl(s.direction, t.entry, price, volume) ELSE t.realized) \in Int
    BY <1>4 DEF Trades
  <2> QED
    BY <2>1, <2>2 DEF Trades
<1>6. u.time = t.time /\ u.lot = t.lot /\ u.theory = t.theory /\ u.stop = t.stop /\ u.partial
  BY DEF Trades
<1>7. Better(t, u)
  BY <1>5, <1>6 DEF Better
<1> QED
  BY <1>3, <1>7, SameIsBetter

-----------------------------------------------------------------------------
(* The steps of the replay *)

\* An outcome that is not a trade is one the account does not look at.
LEMMA NotATrade ==
  ASSUME NEW outcome, outcome \notin {"closed_tp", "closed_sl"}, NEW missed, NEW paths
  PROVE  LET r == WithoutTrade(outcome, missed)
         IN r.strategy = current /\ Typed(r, paths) /\ AsInTheory(r)
BY DEF WithoutTrade, Result, NoTrade, Typed, AsInTheory

LEMMA StillTyped ==
  ASSUME PathsTyped, PathsTyped', \A x \in Symbols : Len(path'[x]) >= Len(path[x]), NEW r, Typed(r, path)
  PROVE  Typed(r, path')
BY DEF PathsTyped, Typed

LEMMA StillReported ==
  ASSUME ReplayInv, PathsTyped', \A x \in Symbols : Len(path'[x]) >= Len(path[x]),
         UNCHANGED <<book, ea, current, results>>
  PROVE  Setting' /\ Reported' /\ s' = s
<1>1. \A i \in 1..Len(results) : Typed(results[i], path')
  BY StillTyped DEF ReplayInv, Reported
<1> QED
  BY <1>1 DEF ReplayInv, Reported, Setting, AsInTheory, s

LEMMA Reports ==
  ASSUME ReplayInv, current \in 1..Len(book), PathsTyped', \A x \in Symbols : Len(path'[x]) >= Len(path[x]),
         UNCHANGED <<book, ea>>,
         NEW r, Report(r), r.strategy = current, Typed(r, path'), AsInTheory(r)
  PROVE  ReplayInv'
<1>1. Setting'
  BY DEF ReplayInv, Setting
<1>2. Place'
  BY BookFacts DEF ReplayInv, Report, Place, Replayed, NotEntered
<1>3. Managed'
  BY DEF Report, Managed, Trades, NoTrade
<1>4. Reported'
  <2>1. Sequence(results) /\ results' = Append(results, r) /\ current' = current + 1 /\ Len(results) = current - 1
    BY DEF ReplayInv, Reported, Report
  <2>2. ASSUME NEW i \in 1..Len(results')
        PROVE  results'[i].strategy = i /\ Typed(results'[i], path') /\ AsInTheory(results'[i])
    <3>1. CASE i = Len(results) + 1
      <4>1. results'[i] = r
        BY <2>1, <3>1, Appended
      <4>2. i = current
        BY <2>1, <3>1
      <4> QED
        BY <4>1, <4>2
    <3>2. CASE i # Len(results) + 1
      <4>1. i \in 1..Len(results)
        BY <2>1, <2>2, <3>2, Appended
      <4>2. results'[i] = results[i]
        BY <2>1, <4>1, Appended
      <4>3. results[i].strategy = i /\ Typed(results[i], path) /\ AsInTheory(results[i])
        BY <4>1 DEF ReplayInv, Reported
      <4>4. Typed(results[i], path')
        BY <4>3, StillTyped DEF ReplayInv
      <4> QED
        BY <4>2, <4>3, <4>4
    <3> QED
      BY <3>1, <3>2
  <2>3. Sequence(results') /\ Len(results') = current' - 1
    BY <2>1, Appended
  <2> QED
    BY <2>2, <2>3 DEF Reported, AsInTheory, Typed
<1> QED
  BY <1>1, <1>2, <1>3, <1>4 DEF ReplayInv

\* Steps that report without having read a bar.
LEMMA ReportsUnread ==
  ASSUME ReplayInv, current \in 1..Len(book), UNCHANGED <<book, ea, path>>,
         NEW outcome, outcome \notin {"closed_tp", "closed_sl"}, NEW missed, Report(WithoutTrade(outcome, missed))
  PROVE  ReplayInv'
<1>1. PathsTyped' /\ \A x \in Symbols : Len(path'[x]) >= Len(path[x])
  BY DEF ReplayInv, PathsTyped
<1> DEFINE r == WithoutTrade(outcome, missed)
<1>2. r.strategy = current /\ Typed(r, path') /\ AsInTheory(r)
  BY NotATrade
<1> HIDE DEF r
<1>3. Report(r)
  BY DEF r
<1> QED
  BY <1>1, <1>2, <1>3, Reports

LEMMA InBook ==
  ASSUME Setting, Place, step \notin {"start", "walk"} \/ current <= Len(book)
  PROVE  current \in 1..Len(book)
BY BookFacts DEF Place

LEMMA RefuseKeeps ==
  ASSUME ReplayInv, Refuse
  PROVE  ReplayInv'
<1>1. current \in 1..Len(book)
  BY InBook DEF ReplayInv, Refuse
<1>2. Refusal \notin {"closed_tp", "closed_sl"}
  BY DEF Refusal
<1>3. Report(WithoutTrade(Refusal, "unknown")) /\ UNCHANGED <<book, ea, path>>
  BY DEF Refuse
<1> QED
  BY <1>1, <1>2, <1>3, ReportsUnread

LEMMA BeginKeeps ==
  ASSUME ReplayInv, Begin
  PROVE  ReplayInv'
<1>1. current \in 1..Len(book)
  BY InBook DEF ReplayInv, Begin
<1>2. /\ step' = "scan" /\ m' = s.timestamp /\ Len(path[s.symbol]) >= s.timestamp - 1
      /\ UNCHANGED <<book, ea, path, current, tick, trade, results>>
  BY DEF Begin
<1>3. PathsTyped' /\ \A x \in Symbols : Len(path'[x]) >= Len(path[x])
  BY <1>2 DEF ReplayInv, PathsTyped
<1>4. Setting' /\ Reported' /\ s' = s
  BY <1>2, <1>3, StillReported
<1>5. s.timestamp \in Nat \ {0} /\ s.symbol \in Symbols
  BY <1>1, StrategyFacts DEF ReplayInv
<1>6. Place'
  BY <1>1, <1>2, <1>4, <1>5 DEF ReplayInv, Place, PathsTyped
<1>7. Managed'
  BY <1>2 DEF ReplayInv, Managed
<1> QED
  BY <1>3, <1>4, <1>6, <1>7 DEF ReplayInv

LEMMA LoadKeeps ==
  ASSUME ReplayInv, NEW b, Load(b)
  PROVE  ReplayInv'
<1>1. current \in 1..Len(book)
  BY InBook DEF ReplayInv, Load
<1>2. s.symbol \in Symbols
  BY <1>1, StrategyFacts DEF ReplayInv
<1>3. Len(path[s.symbol]) + 1 \in Nat \ {0} /\ Len(path[s.symbol]) + 1 <= Len(path[s.symbol]) + 1
  BY <1>2 DEF ReplayInv, PathsTyped
<1>4. PathsTyped' /\ \A x \in Symbols : Len(path'[x]) >= Len(path[x])
  BY <1>1, <1>3, ReadFacts DEF ReplayInv, Load
<1>5. step = "start" /\ UNCHANGED <<book, ea, current, step, m, tick, trade, results>>
  BY DEF Load
<1>6. Setting' /\ Reported' /\ s' = s
  BY <1>4, <1>5, StillReported
<1>7. Place' /\ Managed'
  BY <1>5 DEF ReplayInv, Place, Managed, NotEntered, Replayed
<1> QED
  BY <1>4, <1>6, <1>7 DEF ReplayInv

LEMMA ScanBarKeeps ==
  ASSUME ReplayInv, NEW b, ScanBar(b)
  PROVE  ReplayInv'
<1>1. current \in 1..Len(book) /\ step = "scan"
  BY InBook DEF ReplayInv, ScanBar, Scanning
<1>2. s.symbol \in Symbols
  BY <1>1, StrategyFacts DEF ReplayInv
<1>3. m \in Nat \ {0} /\ m <= Len(path[s.symbol]) + 1 /\ s.timestamp <= Len(path[s.symbol]) + 1
  BY <1>1 DEF ReplayInv, Place
<1>4. PathsTyped' /\ m <= Len(path'[s.symbol]) /\ \A x \in Symbols : Len(path'[x]) >= Len(path[x])
  BY <1>1, <1>3, ReadFacts DEF ReplayInv, ScanBar
<1>5. /\ UNCHANGED <<book, ea, current, trade, results>>
      /\ \/ m' = m + 1 /\ step' = "scan"
         \/ step' = "tick" /\ tick' = 1 /\ m' = m
  BY <1>1 DEF ScanBar
<1>6. Setting' /\ Reported' /\ s' = s
  BY <1>4, <1>5, StillReported
<1>7. Len(path'[s.symbol]) \in Nat /\ Len(path[s.symbol]) \in Nat /\ s.timestamp \in Nat
  BY <1>1, <1>2, <1>4, StrategyFacts DEF ReplayInv, PathsTyped
<1>8. Place'
  BY <1>1, <1>2, <1>3, <1>4, <1>5, <1>6, <1>7 DEF ReplayInv, Place
<1>9. Managed'
  BY <1>5 DEF ReplayInv, Managed
<1> QED
  BY <1>4, <1>6, <1>8, <1>9 DEF ReplayInv

LEMMA ToMissedKeeps ==
  ASSUME ReplayInv, step \notin {"start", "walk"}, NEW outcome \in NotEntered, ToMissed(outcome)
  PROVE  ReplayInv'
<1>1. current \in 1..Len(book)
  BY InBook DEF ReplayInv
<1>2. CASE s.target = 0 \/ s.stop = 0
  <2>1. outcome \notin {"closed_tp", "closed_sl"}
    BY DEF NotEntered
  <2>2. Report(WithoutTrade(outcome, "unknown")) /\ UNCHANGED <<book, ea, path>>
    BY <1>2 DEF ToMissed
  <2> QED
    BY <1>1, <2>1, <2>2, ReportsUnread
<1>3. CASE ~(s.target = 0 \/ s.stop = 0)
  <2>1. step' = outcome /\ m' = s.timestamp /\ UNCHANGED <<book, ea, path, current, tick, trade, results>>
    BY <1>3 DEF ToMissed
  <2>2. PathsTyped' /\ \A x \in Symbols : Len(path'[x]) >= Len(path[x])
    BY <2>1 DEF ReplayInv, PathsTyped
  <2>3. Setting' /\ Reported' /\ s' = s
    BY <2>1, <2>2, StillReported
  <2>4. s.timestamp \in Nat \ {0}
    BY <1>1, StrategyFacts DEF ReplayInv
  <2>5. Place' /\ Managed'
    BY <1>1, <2>1, <2>3, <2>4 DEF ReplayInv, Place, Managed, NotEntered
  <2> QED
    BY <2>2, <2>3, <2>5 DEF ReplayInv
<1> QED
  BY <1>2, <1>3

LEMMA NextTickKeeps ==
  ASSUME ReplayInv, step = "tick", NextTick
  PROVE  ReplayInv'
<1>1. current \in 1..Len(book)
  BY InBook DEF ReplayInv
<1>2. /\ UNCHANGED <<book, ea, path, current, trade, results>>
      /\ \/ tick < 4 /\ tick' = tick + 1 /\ step' = "tick" /\ m' = m
         \/ step' = "scan" /\ m' = m + 1
  BY DEF NextTick
<1>3. PathsTyped' /\ \A x \in Symbols : Len(path'[x]) >= Len(path[x])
  BY <1>2 DEF ReplayInv, PathsTyped
<1>4. Setting' /\ Reported' /\ s' = s
  BY <1>2, <1>3, StillReported
<1>5. s.symbol \in Symbols /\ Len(path[s.symbol]) \in Nat
  BY <1>1, StrategyFacts DEF ReplayInv, PathsTyped
<1>6. Place'
  BY <1>1, <1>2, <1>4, <1>5 DEF ReplayInv, Place
<1>7. Managed'
  BY <1>2 DEF ReplayInv, Managed
<1> QED
  BY <1>3, <1>4, <1>6, <1>7 DEF ReplayInv

LEMMA EnterKeeps ==
  ASSUME ReplayInv, Enter
  PROVE  ReplayInv'
<1> DEFINE lot == LotSize(ea.strategyBalance, TickPrice, s.stop, VolumeMin)
<1>1. current \in 1..Len(book) /\ step = "tick"
  BY InBook DEF ReplayInv, Enter
<1>2. CASE lot = 0
  <2>1. Report(WithoutTrade("rejected_lot_size", "unknown")) /\ UNCHANGED <<book, ea, path>>
    BY <1>2 DEF Enter
  <2> QED
    BY <1>1, <2>1, ReportsUnread
<1>3. CASE lot # 0
  <2>1. s.symbol \in Symbols /\ s.stop \in Nat
    BY <1>1, StrategyFacts DEF ReplayInv
  <2>2. TickPrice \in Int
    <3>1. Bar \in M1Bar
      BY <1>1, <2>1 DEF ReplayInv, Place, PathsTyped, Bar
    <3>2. tick \in 1..4
      BY <1>1 DEF ReplayInv, Place
    <3> QED
      BY <3>1, <3>2 DEF TickPrice, M1Bar
  <2>3. lot \in Nat
    <3>1. Setting /\ ea.strategyBalance \in Int /\ VolumeMin \in Nat /\ s.stop \in Int
      BY <2>1, ConfigFacts, ReplayAssumption DEF ReplayInv
    <3> QED
      BY <2>2, <3>1, LotIsNat
  <2>4. /\ trade' = [NoTrade EXCEPT !.time = m, !.entry = TickPrice, !.lot = lot, !.open = lot, !.stop = s.stop]
        /\ step' = "trade" /\ UNCHANGED <<book, ea, path, current, m, results>>
    BY <1>3 DEF Enter
  <2>5. PathsTyped' /\ \A x \in Symbols : Len(path'[x]) >= Len(path[x])
    BY <2>4 DEF ReplayInv, PathsTyped
  <2>6. Setting' /\ Reported' /\ s' = s
    BY <2>4, <2>5, StillReported
  <2>7. Place'
    BY <1>1, <2>4, <2>6 DEF ReplayInv, Place
  <2> HIDE DEF lot
  <2>8. m \in Nat \ {0}
    BY <1>1 DEF ReplayInv, Place
  <2>9. Managed'
    <3> DEFINE price == TickPrice
    <3>1. trade' = [time |-> m, entry |-> price, lot |-> lot, open |-> lot, stop |-> s.stop, breakEven |-> FALSE,
                    partial |-> FALSE, realized |-> 0, theory |-> "none"]
      BY <2>4 DEF NoTrade
    <3>2. price \in Int
      BY <2>2
    <3> HIDE DEF price
    <3>3. trade' \in Trades
      BY <2>1, <2>3, <2>8, <3>1, <3>2 DEF Trades
    <3>4. trade'.stop = s'.stop
      BY <2>6, <3>1
    <3>5. trade'.time > 0 /\ trade'.lot > 0 /\ trade'.theory = "none" /\ trade'.open = trade'.lot /\ trade'.realized = 0
      BY <1>3, <2>3, <2>8, <3>1
    <3> QED
      BY <3>3, <3>4, <3>5 DEF Managed
  <2> QED
    BY <2>5, <2>6, <2>7, <2>9 DEF ReplayInv
<1> QED
  BY <1>2, <1>3

LEMMA MissedBarKeeps ==
  ASSUME ReplayInv, NEW b, MissedBar(b)
  PROVE  ReplayInv'
<1>1. current \in 1..Len(book) /\ step \in NotEntered
  BY InBook DEF ReplayInv, MissedBar, NotEntered
<1>2. s.symbol \in Symbols
  BY <1>1, StrategyFacts DEF ReplayInv
<1>3. m \in Nat \ {0} /\ m <= Len(path[s.symbol]) + 1 /\ s.timestamp <= Len(path[s.symbol]) + 1
  BY <1>1 DEF ReplayInv, Place, NotEntered
<1>4. PathsTyped' /\ m <= Len(path'[s.symbol]) /\ \A x \in Symbols : Len(path'[x]) >= Len(path[x])
  BY <1>1, <1>3, ReadFacts DEF ReplayInv, MissedBar
<1>5. UNCHANGED <<book, ea>>
  BY DEF MissedBar
<1>6. ASSUME NEW missed, Report(WithoutTrade(step, missed))
      PROVE  ReplayInv'
  <2> DEFINE r == WithoutTrade(step, missed)
  <2>1. r.strategy = current /\ Typed(r, path') /\ AsInTheory(r)
    BY <1>1, NotATrade DEF NotEntered
  <2> HIDE DEF r
  <2>2. Report(r)
    BY <1>6 DEF r
  <2> QED
    BY <1>1, <1>4, <1>5, <2>1, <2>2, Reports
<1>7. ASSUME m' = m + 1, UNCHANGED <<current, step, tick, trade, results>>
      PROVE  ReplayInv'
  <2>1. Setting' /\ Reported' /\ s' = s
    BY <1>4, <1>5, <1>7, StillReported
  <2>2. Len(path'[s.symbol]) \in Nat /\ Len(path[s.symbol]) \in Nat /\ s.timestamp \in Nat
    BY <1>1, <1>2, <1>4, StrategyFacts DEF ReplayInv, PathsTyped
  <2>3. Place' /\ Managed'
    BY <1>1, <1>2, <1>3, <1>4, <1>5, <1>7, <2>1, <2>2 DEF ReplayInv, Place, Managed, NotEntered
  <2> QED
    BY <1>4, <2>1, <2>3 DEF ReplayInv
<1> QED
  BY <1>6, <1>7 DEF MissedBar

LEMMA MissedEndsKeeps ==
  ASSUME ReplayInv, MissedEnds
  PROVE  ReplayInv'
<1>1. current \in 1..Len(book) /\ step \in NotEntered
  BY InBook DEF ReplayInv, MissedEnds, NotEntered
<1>2. step \notin {"closed_tp", "closed_sl"}
  BY <1>1 DEF NotEntered
<1>3. UNCHANGED <<book, ea, path>> /\ Report(WithoutTrade(step, IF touched THEN "no" ELSE "unknown"))
  BY DEF MissedEnds
<1> QED
  BY <1>1, <1>2, <1>3, ReportsUnread

-----------------------------------------------------------------------------
(* The steps of a trade *)

\* What ends the theoretical trade ends the real one, which has the same target and no worse a stop.
LEMMA TheoryFollows ==
  ASSUME ReplayInv, step = "trade", NEW b \in M1Bar
  PROVE  /\ BarExit(b, s.target, s.stop) \in {"none", "sl", "tp"}
         /\ BarExit(b, s.target, trade.stop) = "none" => BarExit(b, s.target, s.stop) = "none"
         /\ BarExit(b, s.target, trade.stop) = "tp" => BarExit(b, s.target, s.stop) = "tp"
<1>1. s.target \in Nat /\ s.stop \in Nat /\ trade.stop \in Int /\ (trade.stop = s.stop \/ Improves(trade.stop, s.stop))
  BY InBook, StrategyFacts DEF ReplayInv, Managed, Trades
<1>2. b.low \in Int /\ b.high \in Int
  BY DEF M1Bar
<1> QED
  BY <1>1, <1>2 DEF BarExit, Improves, Tighter, Long

LEMMA TheoryTyped ==
  ASSUME ReplayInv, step = "trade", NEW b \in M1Bar
  PROVE  LET t == AfterTheory(trade, b)
         IN /\ t \in Trades /\ t.theory = BarExit(b, s.target, s.stop)
            /\ t.time = trade.time /\ t.entry = trade.entry /\ t.lot = trade.lot /\ t.open = trade.open
            /\ t.stop = trade.stop /\ t.partial = trade.partial /\ t.realized = trade.realized
<1>1. trade \in Trades /\ trade.theory = "none"
  BY DEF ReplayInv, Managed
<1> DEFINE exit == BarExit(b, s.target, s.stop)
<1>2. exit \in {"none", "sl", "tp"}
  BY TheoryFollows
<1>3. AfterTheory(trade, b) = [trade EXCEPT !.theory = exit]
  BY <1>1 DEF AfterTheory
<1> HIDE DEF exit
<1>4. [trade EXCEPT !.theory = exit] \in Trades
  BY <1>1, <1>2 DEF Trades
<1>5. [trade EXCEPT !.theory = exit].theory = exit
  BY <1>1 DEF Trades
<1> QED
  BY <1>1, <1>3, <1>4, <1>5 DEF Trades, exit

LEMMA TradeFacts ==
  ASSUME ReplayInv, step = "trade"
  PROVE  /\ current \in 1..Len(book) /\ s.symbol \in Symbols /\ s.stop \in Nat /\ s.target \in Nat
         /\ m \in Nat \ {0} /\ m <= Len(path[s.symbol]) + 1
         /\ trade \in Trades /\ trade.time > 0 /\ trade.lot > 0
BY InBook, StrategyFacts DEF ReplayInv, Place, Managed

LEMMA ReadInTrade ==
  ASSUME ReplayInv, step = "trade", NEW b, Read(m, b)
  PROVE  /\ b \in M1Bar /\ PathsTyped' /\ m <= Horizon /\ m <= Len(path'[s.symbol])
         /\ \A x \in Symbols : Len(path'[x]) >= Len(path[x])
BY TradeFacts, ReadFacts DEF ReplayInv

\* A result is typed: it was last marked in a minute that has been read.
LEMMA ResultTyped ==
  ASSUME ReplayInv, step = "trade", PathsTyped', NEW t \in Trades, t.time = trade.time,
         NEW exitTime \in Nat, NEW exit, NEW gross, NEW net \in Int, NEW outcome, NEW missed,
         m <= Len(path'[s.symbol]) \/ (m > Horizon /\ m <= Len(path'[s.symbol]) + 1)
  PROVE  LET r == Result(outcome, missed, t, exitTime, exit, gross, net)
         IN r.strategy = current /\ Typed(r, path')
<1> DEFINE r == Result(outcome, missed, t, exitTime, exit, gross, net)
<1>1. m \in Nat \ {0} /\ s.symbol \in Symbols /\ s.stop \in Nat /\ trade.time > 0
  BY TradeFacts
<1>2. Horizon \in Nat \ {0}
  BY ReplayAssumption
<1>3. Len(path'[s.symbol]) \in Nat
  BY <1>1 DEF PathsTyped
<1>4. Min({m, Horizon}) \in 1..Len(path'[s.symbol])
  BY <1>1, <1>2, <1>3, MinOfTwo
<1>5. /\ r.strategy = current /\ r.lot = t.lot /\ r.symbol = s.symbol /\ r.time = t.time /\ r.exitTime = exitTime
      /\ r.entry = t.entry /\ r.stop = s.stop /\ r.net = net /\ r.last = Min({m, Horizon})
  BY DEF Result
<1>6. t.lot \in Nat /\ t.time \in Nat /\ t.entry \in Int
  BY DEF Trades
<1> HIDE DEF r
<1>7. r.strategy = current /\ Typed(r, path')
  BY <1>1, <1>4, <1>5, <1>6 DEF Typed
<1> QED
  BY <1>7 DEF r

LEMMA NetIsSummed ==
  ASSUME NEW t \in Trades, NEW price \in Int
  PROVE  t.realized \in Int /\ Pnl(s.direction, t.entry, price, t.open) \in Int /\ CommissionOf(t.lot) \in Int
<1>1. t.realized \in Int /\ t.entry \in Int /\ t.open \in Int /\ t.lot \in Int
  BY DEF Trades
<1> QED
  BY <1>1, PnlIsInt, CommissionIsInt

LEMMA ExitHitKeeps ==
  ASSUME ReplayInv, NEW b, ExitHit(b)
  PROVE  ReplayInv'
<1> DEFINE exit == BarExit(b, s.target, trade.stop)
           t == AfterTheory(trade, b)
           price == IF exit = "tp" THEN s.target ELSE trade.stop
           gross == t.realized + Pnl(s.direction, t.entry, price, t.open)
           net == gross - CommissionOf(t.lot)
           outcome == IF exit = "tp" THEN "closed_tp"
                      ELSE IF trade.breakEven \/ trade.stop # s.stop THEN "closed_trailing_sl" ELSE "closed_sl"
           r == Result(outcome, "unknown", t, m, price, gross, net)
<1>1. step = "trade" /\ Read(m, b) /\ exit # "none" /\ Report(r) /\ UNCHANGED <<book, ea>>
  BY DEF ExitHit, Close
<1>2. b \in M1Bar /\ PathsTyped' /\ m <= Len(path'[s.symbol]) /\ \A x \in Symbols : Len(path'[x]) >= Len(path[x])
  BY <1>1, ReadInTrade
<1>3. /\ t \in Trades /\ t.theory = BarExit(b, s.target, s.stop)
      /\ t.time = trade.time /\ t.entry = trade.entry /\ t.lot = trade.lot /\ t.open = trade.open
      /\ t.stop = trade.stop /\ t.partial = trade.partial /\ t.realized = trade.realized
  BY <1>1, <1>2, TheoryTyped
<1>4. price \in Int
  BY <1>1, TradeFacts DEF Trades
<1>5. net \in Int
  <2> HIDE DEF t, price
  <2>1. t.realized \in Int /\ Pnl(s.direction, t.entry, price, t.open) \in Int /\ CommissionOf(t.lot) \in Int
    BY <1>3, <1>4, NetIsSummed
  <2> QED
    BY <2>1
<1>6. r.strategy = current /\ Typed(r, path')
  <2>1. m \in Nat
    BY <1>1, TradeFacts
  <2> HIDE DEF t, price, gross, net, outcome
  <2> QED
    BY <1>1, <1>2, <1>3, <1>5, <2>1, ResultTyped
<1>7. AsInTheory(r)
  <2>1. SUFFICES ASSUME outcome \in {"closed_tp", "closed_sl"}, ~t.partial
                 PROVE  t.theory # "none" /\ net = r.theoryNet
    <3> HIDE DEF t, price, gross, net, outcome
    <3>1. r.outcome = outcome /\ r.partial = t.partial /\ r.theory = t.theory /\ r.net = net
      BY DEF Result
    <3> QED
      BY <2>1, <3>1 DEF AsInTheory
  <2>2. t.open = t.lot /\ t.realized = 0
    BY <1>1, <1>3, <2>1 DEF ReplayInv, Managed
  <2>3. (exit = "tp" /\ t.theory = "tp" /\ price = s.target) \/ (exit = "sl" /\ t.theory = "sl" /\ price = s.stop)
    <3>1. exit \in {"tp", "sl"}
      BY <1>1 DEF BarExit
    <3>2. CASE exit = "tp"
      BY <1>1, <1>2, <1>3, <3>2, TheoryFollows
    <3>3. CASE exit = "sl"
      <4>1. trade.stop = s.stop
        BY <2>1, <3>3
      <4> QED
        BY <1>3, <3>3, <4>1
    <3> QED
      BY <3>1, <3>2, <3>3
  <2> HIDE DEF t, exit, outcome, price
  <2>4. Pnl(s.direction, t.entry, price, t.lot) \in Int
    BY <1>3, <1>4, PnlIsInt DEF Trades
  <2>5. net = Pnl(s.direction, t.entry, price, t.lot) - CommissionOf(t.lot)
    BY <2>2, <2>4
  <2> HIDE DEF net, gross
  <2>6. r.theoryNet = Pnl(s.direction, t.entry, price, t.lot) - CommissionOf(t.lot)
    BY <2>3 DEF Result
  <2> QED
    BY <2>3, <2>5, <2>6
<1> HIDE DEF r
<1>8. current \in 1..Len(book)
  BY <1>1, TradeFacts
<1> QED
  BY <1>1, <1>2, <1>6, <1>7, <1>8, Reports

LEMMA ExitEarlyKeeps ==
  ASSUME ReplayInv, NEW b, ExitEarly(b)
  PROVE  ReplayInv'
<1> DEFINE t == AfterTheory(trade, b)
           gross == t.realized + Pnl(s.direction, t.entry, b.close, t.open)
           net == gross - CommissionOf(t.lot)
           r == Result("closed_early_exit", "unknown", t, m, b.close, gross, net)
<1>1. step = "trade" /\ Read(m, b) /\ Report(r) /\ UNCHANGED <<book, ea>>
  BY DEF ExitEarly, Close
<1>2. b \in M1Bar /\ PathsTyped' /\ m <= Len(path'[s.symbol]) /\ \A x \in Symbols : Len(path'[x]) >= Len(path[x])
  BY <1>1, ReadInTrade
<1>3. t \in Trades /\ t.time = trade.time
  BY <1>1, <1>2, TheoryTyped
<1>4. b.close \in Int
  BY <1>2 DEF M1Bar
<1>5. net \in Int
  <2> HIDE DEF t
  <2>1. t.realized \in Int /\ Pnl(s.direction, t.entry, b.close, t.open) \in Int /\ CommissionOf(t.lot) \in Int
    BY <1>3, <1>4, NetIsSummed
  <2> QED
    BY <2>1
<1>6. r.strategy = current /\ Typed(r, path')
  <2>1. m \in Nat
    BY <1>1, TradeFacts
  <2> HIDE DEF t, gross, net
  <2> QED
    BY <1>1, <1>2, <1>3, <1>5, <2>1, ResultTyped
<1>7. AsInTheory(r)
  <2> HIDE DEF t, gross, net
  <2>1. r.outcome = "closed_early_exit"
    BY DEF Result
  <2> QED
    BY <2>1 DEF AsInTheory
<1> HIDE DEF r
<1>8. current \in 1..Len(book)
  BY <1>1, TradeFacts
<1> QED
  BY <1>1, <1>2, <1>6, <1>7, <1>8, Reports

LEMMA DataEndsKeeps ==
  ASSUME ReplayInv, DataEnds
  PROVE  ReplayInv'
<1> DEFINE net == -CommissionOf(trade.lot)
           r == Result("open_at_data_end", "unknown", trade, 0, 0, 0, net)
<1>1. step = "trade" /\ m > Horizon /\ Report(r) /\ UNCHANGED <<book, ea, path>>
  BY DEF DataEnds
<1>2. PathsTyped' /\ \A x \in Symbols : Len(path'[x]) >= Len(path[x])
  BY <1>1 DEF ReplayInv, PathsTyped
<1>3. trade \in Trades /\ m <= Len(path'[s.symbol]) + 1 /\ current \in 1..Len(book)
  BY <1>1, TradeFacts
<1>4. net \in Int
  <2>1. trade.lot \in Int
    BY <1>3 DEF Trades
  <2>2. CommissionOf(trade.lot) \in Int
    BY <2>1, CommissionIsInt
  <2> QED
    BY <2>2
<1>5. r.strategy = current /\ Typed(r, path')
  <2> HIDE DEF net
  <2> QED
    BY <1>1, <1>2, <1>3, <1>4, ResultTyped
<1>6. AsInTheory(r)
  <2> HIDE DEF net
  <2>1. r.outcome = "open_at_data_end"
    BY DEF Result
  <2> QED
    BY <2>1 DEF AsInTheory
<1> HIDE DEF r
<1> QED
  BY <1>1, <1>2, <1>3, <1>5, <1>6, Reports

\* A bar of management leaves a trade that is no worse off.
LEMMA ManagedIsBetter ==
  ASSUME ReplayInv, NEW b, Manage(b)
  PROVE  step = "trade" /\ Better(trade, trade')
<1> DEFINE t == AfterTheory(trade, b)
           u == AfterBreakEven(t, b.close, AtrNow)
           v == AfterTrailing(u, b.close, History)
<1>1. /\ step = "trade" /\ Read(m, b) /\ BarExit(b, s.target, trade.stop) = "none"
      /\ trade' = AfterPartial(v, b)
  BY DEF Manage
<1>2. b \in M1Bar /\ b.close \in Int
  BY <1>1, ReadInTrade DEF M1Bar
<1>3. trade \in Trades /\ trade.theory = "none" /\ current \in 1..Len(book) /\ Setting /\ PathsTyped
  BY <1>1, TradeFacts DEF ReplayInv, Managed
<1>4. t \in Trades /\ Better(trade, t)
  <2>1. BarExit(b, s.target, s.stop) = "none"
    BY <1>1, <1>2, TheoryFollows
  <2> QED
    BY <1>1, <1>2, <1>3, <2>1, TheoryTyped DEF Better
<1> HIDE DEF t
<1>5. u \in Trades /\ Better(t, u)
  BY <1>2, <1>3, <1>4, BreakEvenIsBetter DEF Better
<1> HIDE DEF u
<1>6. v \in Trades /\ Better(u, v)
  <2>1. Len(History) \in Nat /\ \A j \in 1..Len(History) : History[j].close \in Int
    BY <1>1, <1>3, TradeFacts, ClosesAreInts DEF History
  <2>2. Better(u, v)
    BY <1>2, <1>3, <1>5, <2>1, TrailingIsBetter
  <2> QED
    BY <2>2 DEF Better
<1> HIDE DEF v
<1>7. trade' \in Trades /\ Better(v, trade')
  BY <1>1, <1>2, <1>3, <1>6, PartialIsBetter DEF Better
<1>8. Better(trade, u)
  BY <1>3, <1>4, <1>5, BetterAgain
<1>9. Better(trade, v)
  BY <1>3, <1>5, <1>6, <1>8, BetterAgain
<1> QED
  BY <1>1, <1>3, <1>6, <1>7, <1>9, BetterAgain

LEMMA ManageKeeps ==
  ASSUME ReplayInv, NEW b, Manage(b)
  PROVE  ReplayInv'
<1>1. /\ step = "trade" /\ Read(m, b) /\ m' = m + 1 /\ UNCHANGED <<book, ea, current, step, tick, results>>
  BY DEF Manage
<1>2. PathsTyped' /\ m <= Len(path'[s.symbol]) /\ \A x \in Symbols : Len(path'[x]) >= Len(path[x])
  BY <1>1, ReadInTrade
<1>3. Better(trade, trade') /\ trade \in Trades
  BY ManagedIsBetter, TradeFacts
<1>4. Setting' /\ Reported' /\ s' = s
  BY <1>1, <1>2, StillReported
<1>5. s.symbol \in Symbols /\ current \in 1..Len(book) /\ m \in Nat \ {0} /\ s.timestamp \in Nat
  BY <1>1, TradeFacts, StrategyFacts DEF ReplayInv
<1>6. Len(path[s.symbol]) \in Nat /\ Len(path'[s.symbol]) \in Nat
  BY <1>2, <1>5 DEF ReplayInv, PathsTyped
<1>7. Place'
  BY <1>1, <1>2, <1>4, <1>5, <1>6 DEF ReplayInv, Place
<1>8. Managed'
  <2>1. trade' \in Trades /\ trade'.time > 0 /\ trade'.lot > 0 /\ trade'.theory = "none"
    BY <1>1, <1>3 DEF Better, ReplayInv, Managed
  <2>2. trade'.stop = s.stop \/ Improves(trade'.stop, s.stop)
    <3>1. trade.stop = s.stop \/ Improves(trade.stop, s.stop)
      BY <1>1 DEF ReplayInv, Managed
    <3>2. trade.stop \in Int /\ trade'.stop \in Int /\ s.stop \in Int
      BY <1>1, <1>3, <2>1, TradeFacts DEF Trades
    <3>3. CASE trade'.stop = trade.stop
      BY <3>1, <3>3
    <3>4. CASE Improves(trade'.stop, trade.stop)
      BY <3>1, <3>2, <3>4, ImprovesAgain
    <3> QED
      BY <1>3, <3>3, <3>4 DEF Better
  <2>3. (trade.stop = s.stop \/ Improves(trade.stop, s.stop))'
    BY <1>4, <2>2 DEF Improves, Tighter, Long
  <2>4. ~trade'.partial => trade'.open = trade'.lot /\ trade'.realized = 0
    BY <1>1, <1>3 DEF Better, ReplayInv, Managed
  <2> QED
    BY <2>1, <2>3, <2>4 DEF Managed
<1> QED
  BY <1>2, <1>4, <1>7, <1>8 DEF ReplayInv

LEMMA ReplayKeeps ==
  ASSUME ReplayInv, ReplayNext
  PROVE  ReplayInv'
<1>1. CASE Refuse BY <1>1, RefuseKeeps
<1>2. CASE Begin BY <1>2, BeginKeeps
<1>3. CASE Invalidate
  <2>1. step = "tick" /\ ToMissed("invalidated_without_entry")
    BY <1>3 DEF Invalidate
  <2> QED
    BY <2>1, ToMissedKeeps DEF NotEntered
<1>4. CASE Wait \/ Block
  BY <1>4, NextTickKeeps DEF Wait, Block
<1>5. CASE Enter BY <1>5, EnterKeeps
<1>6. CASE ScanEnds
  <2>1. step = "scan" /\ (ToMissed("blocked_max_distance") \/ ToMissed("expired_without_entry"))
    BY <1>6 DEF ScanEnds
  <2> QED
    BY <2>1, ToMissedKeeps DEF NotEntered
<1>7. CASE MissedEnds BY <1>7, MissedEndsKeeps
<1>8. CASE DataEnds BY <1>8, DataEndsKeeps
<1>9. ASSUME NEW b \in AnyBar, Load(b) \/ ScanBar(b) \/ MissedBar(b) \/ ExitHit(b) \/ ExitEarly(b) \/ Manage(b)
      PROVE  ReplayInv'
  BY <1>9, LoadKeeps, ScanBarKeeps, MissedBarKeeps, ExitHitKeeps, ExitEarlyKeeps, ManageKeeps
<1> QED
  BY <1>1, <1>2, <1>3, <1>4, <1>5, <1>6, <1>7, <1>8, <1>9 DEF ReplayNext

LEMMA ReplayStarts ==
  ASSUME ReplayInit
  PROVE  ReplayInv
<1>1. Setting /\ Len(book) \in Nat
  BY BookFacts DEF ReplayInit, Setting
<1>2. PathsTyped
  <2>1. Warmup \in Seq(M1Bar) /\ Len(Warmup) >= 1
    BY ReplayAssumption
  <2> QED
    BY <2>1 DEF ReplayInit, PathsTyped
<1>3. Place
  BY <1>1 DEF ReplayInit, Place
<1>4. Managed
  BY DEF ReplayInit, Managed, Trades, NoTrade
<1>5. Reported
  <2>1. results = <<>> /\ results \in Seq({}) /\ Len(results) = 0
    BY DEF ReplayInit
  <2> QED
    BY <2>1 DEF Reported, Sequence, ReplayInit
<1> QED
  BY <1>1, <1>2, <1>3, <1>4, <1>5 DEF ReplayInv

-----------------------------------------------------------------------------
(* The account *)

PositionTyped(p, paths) ==
  /\ p.symbol \in Symbols /\ p.entry \in Int /\ p.lot \in Int /\ p.net \in Int
  /\ p.last \in 1..Len(paths[p.symbol])

\* An exit that is due some time is that of a position, and of the decision that opened it.
ExitMatches(e) ==
  /\ e[1] \in Nat /\ e[2] \in Nat /\ e[2] + 1 \in 1..Len(ledger) /\ e[3] \in DOMAIN open
  /\ ledger[e[2] + 1].strategy = e[3] /\ ledger[e[2] + 1].reason = "none"
  /\ ledger[e[2] + 1].net = open[e[3]].net

\* What every decision has brought to the balance by now: the gain of a trade that is closed.
Realized ==
  [k \in 1..Len(ledger) |->
     IF ledger[k].reason = "none" /\ ledger[k].strategy \notin DOMAIN open THEN ledger[k].net ELSE 0]

Exits ==
  /\ \A e \in heap : ExitMatches(e)
  /\ \A e, f \in heap : e[2] = f[2] => e = f
  /\ \A i \in DOMAIN open : \E e \in heap : e[3] = i

Decided ==
  /\ Sequence(ledger)
  /\ \A k \in 1..Len(ledger) : ledger[k].net \in Int /\ ledger[k].strategy \in Entered \ undecided
  /\ \A k, l \in 1..Len(ledger) : ledger[k].strategy = ledger[l].strategy => k = l

Walking ==
  /\ undecided \subseteq Entered /\ DOMAIN open \subseteq Entered \ undecided
  /\ \A i \in DOMAIN open : PositionTyped(open[i], path)
  /\ Exits /\ Decided
  /\ balance \in Int /\ balance = ea.balance + Total(Realized)

Untouched == undecided = {} /\ balance = ea.balance /\ DOMAIN open = {} /\ heap = {} /\ ledger = <<>>

AccountInv ==
  /\ ReplayInv
  /\ step # "walk" => Untouched
  /\ step = "walk" => Walking

LEMMA EnteredFacts ==
  ASSUME ReplayInv, NEW i \in Entered
  PROVE  /\ i \in Nat /\ results[i].strategy = i /\ results[i].lot \in Nat \ {0}
         /\ results[i].symbol \in Symbols /\ results[i].time \in Nat \ {0} /\ results[i].exitTime \in Nat
         /\ results[i].entry \in Int /\ results[i].stop \in Int /\ results[i].net \in Int
         /\ results[i].last \in 1..Len(path[results[i].symbol])
<1>1. i \in 1..Len(results) /\ Len(results) \in Nat /\ results[i].lot > 0
  BY Appended DEF ReplayInv, Reported, Entered
<1> QED
  BY <1>1 DEF ReplayInv, Reported, Typed

LEMMA FirstIsUndecided ==
  ASSUME ReplayInv, undecided \subseteq Entered, undecided # {}
  PROVE  First \in undecided
<1> DEFINE time == [i \in undecided |-> results[i].time]
           rank == [i \in undecided |-> i]
<1>1. \A i \in undecided : time[i] \in Nat /\ rank[i] \in Nat
  BY EnteredFacts
<1>2. \A i, j \in undecided : rank[i] = rank[j] => i = j
  OBVIOUS
<1>3. \E i \in undecided : \A j \in undecided \ {i} :
        time[i] < time[j] \/ (time[i] = time[j] /\ rank[i] < rank[j])
  <2> HIDE DEF time, rank
  <2> QED
    BY <1>1, <1>2, Foremost
<1>4. \E i \in undecided : \A j \in undecided \ {i} : Earlier(i, j)
  BY <1>3 DEF Earlier
<1> QED
  BY <1>4 DEF First

LEMMA NextExitIsInHeap ==
  ASSUME Exits, heap # {}
  PROVE  NextExit \in heap
<1> DEFINE time == [e \in heap |-> e[1]]
           rank == [e \in heap |-> e[2]]
<1>1. \A e \in heap : time[e] \in Nat /\ rank[e] \in Nat
  BY DEF Exits, ExitMatches
<1>2. \A e, f \in heap : rank[e] = rank[f] => e = f
  BY DEF Exits
<1>3. \E e \in heap : \A f \in heap \ {e} :
        time[e] < time[f] \/ (time[e] = time[f] /\ rank[e] < rank[f])
  <2> HIDE DEF time, rank
  <2> QED
    BY <1>1, <1>2, Foremost
<1>4. \E e \in heap : \A f \in heap \ {e} : Before(e, f)
  BY <1>3 DEF Before
<1> QED
  BY <1>4 DEF NextExit

\* The equity is a number: every position was last marked in a bar that has been read.
LEMMA EquityIsInt ==
  ASSUME ReplayInv, Walking, NEW t \in Nat \ {0}
  PROVE  Equity(balance, open, t) \in Int
<1> DEFINE marks == [i \in 1..Len(book) |-> IF i \in DOMAIN open THEN Floating(open[i], t) ELSE 0]
<1>1. ASSUME NEW i \in DOMAIN open
      PROVE  Floating(open[i], t) \in Int
  <2> DEFINE p == open[i]
             at == Min({t, p.last})
  <2>1. p.symbol \in Symbols /\ p.entry \in Int /\ p.lot \in Int /\ p.last \in 1..Len(path[p.symbol])
    BY DEF Walking, PositionTyped
  <2>2. path[p.symbol] \in Seq(M1Bar) /\ Len(path[p.symbol]) \in Nat
    BY <2>1 DEF ReplayInv, PathsTyped
  <2>3. at \in 1..Len(path[p.symbol])
    <3> HIDE DEF p
    <3> QED
      BY <2>1, <2>2, MinOfTwo
  <2>4. path[p.symbol][at] \in M1Bar
    <3> HIDE DEF at, p
    <3> QED
      BY <2>2, <2>3
  <2>5. path[p.symbol][at].close \in Int
    BY <2>4 DEF M1Bar
  <2>6. Floating(open[i], t) = Pnl(p.direction, p.entry, path[p.symbol][at].close, p.lot)
    BY DEF Floating
  <2> HIDE DEF p, at
  <2> QED
    BY <2>1, <2>5, <2>6, PnlIsInt
<1>2. marks \in Seq(Int)
  <2>1. marks \in [1..Len(book) -> Int]
    BY <1>1
  <2> HIDE DEF marks
  <2> QED
    BY <2>1, BookFacts DEF ReplayInv
<1>3. Equity(balance, open, t) = balance + Total(marks)
  BY DEF Equity
<1> HIDE DEF marks
<1>4. Total(marks) \in Int
  BY <1>2, TotalIsInt
<1> QED
  BY <1>3, <1>4 DEF Walking

LEMMA AccountLotIsNat ==
  ASSUME ReplayInv, NEW i \in Entered, NEW equity \in Int
  PROVE  AccountLot(results[i], equity) \in Nat
<1> DEFINE lot == LotSize(equity, results[i].entry, results[i].stop, ea.minLot)
           less == (lot * ea.drawdownFactor) \div 100
<1>1. Setting /\ ea.minLot \in Nat /\ ea.maxLot \in Nat /\ ea.drawdownFactor \in Nat
  BY ConfigFacts DEF ReplayInv
<1>2. lot \in Nat
  BY <1>1, EnteredFacts, LotIsNat
<1>3. AccountLot(results[i], equity) = NormalizedVolume(less, ea.minLot, ea.maxLot)
      \/ AccountLot(results[i], equity) = lot
  BY DEF AccountLot
<1> HIDE DEF lot
<1>4. less \in Int
  <2>1. lot * ea.drawdownFactor \in Int
    BY <1>1, <1>2, Product
  <2> QED
    BY <2>1, Quotient
<1> HIDE DEF less
<1> QED
  BY <1>1, <1>2, <1>3, <1>4, VolumeIsNat

LEMMA RealizedIsSeq ==
  ASSUME Decided
  PROVE  Realized \in Seq(Int) /\ Len(Realized) = Len(ledger) /\ Len(ledger) \in Nat
<1>1. Len(ledger) \in Nat
  BY Appended DEF Decided
<1>2. Realized \in [1..Len(ledger) -> Int]
  BY DEF Decided, Realized
<1> QED
  BY <1>1, <1>2

\* What a decision adds to the ledger, which has had none of the strategy.
LEMMA DecisionKeeps ==
  ASSUME ReplayInv, Walking, NEW i \in undecided, NEW reason, NEW lot, NEW net \in Int,
         Decide(results[i], reason, lot, net),
         Sequence(ledger'), (DOMAIN open)' \ {i} = DOMAIN open, reason = "none" => i \in (DOMAIN open)'
  PROVE  /\ Decided' /\ undecided' = undecided \ {i} /\ Entered' = Entered /\ ReplayInv'
         /\ balance' \in Int /\ balance' = ea'.balance + Total(Realized')
         /\ \A k \in 1..Len(ledger) : k \in 1..Len(ledger') /\ ledger'[k] = ledger[k]
         /\ Len(ledger') = Len(ledger) + 1 /\ Len(ledger) \in Nat
         /\ ledger'[Len(ledger) + 1] = [strategy |-> i, reason |-> reason, lot |-> lot, net |-> net]
<1> DEFINE new == [strategy |-> i, reason |-> reason, lot |-> lot, net |-> net]
<1>1. i \in Entered /\ results[i].strategy = i
  BY EnteredFacts DEF Walking
<1>2. ledger' = Append(ledger, new) /\ undecided' = undecided \ {i} /\ UNCHANGED <<replayVars, balance>>
  BY <1>1 DEF Decide
<1>3. Entered' = Entered /\ ReplayInv' /\ ea' = ea /\ balance' = balance
  BY <1>2 DEF replayVars, Entered, ReplayInv, Setting, PathsTyped, Place, Managed, Reported, Replayed, s,
              Improves, Tighter, Long, Typed, AsInTheory
<1>4. /\ Len(ledger) \in Nat /\ Len(ledger') = Len(ledger) + 1
      /\ \A k \in 1..Len(ledger) : ledger'[k] = ledger[k]
      /\ ledger'[Len(ledger) + 1] = new
  BY <1>2, Appended DEF Walking, Decided
<1>5. \A k \in 1..Len(ledger) : ledger[k].net \in Int /\ ledger[k].strategy \in Entered \ undecided
  BY DEF Walking, Decided
<1>6. Decided'
  <2>1. ASSUME NEW k \in 1..Len(ledger')
        PROVE  ledger'[k].net \in Int /\ ledger'[k].strategy \in Entered' \ undecided'
    BY <1>1, <1>2, <1>3, <1>4, <1>5
  <2>2. ASSUME NEW k \in 1..Len(ledger'), NEW l \in 1..Len(ledger'), ledger'[k].strategy = ledger'[l].strategy
        PROVE  k = l
    <3>1. CASE k \in 1..Len(ledger) /\ l \in 1..Len(ledger)
      BY <1>4, <2>2, <3>1 DEF Walking, Decided
    <3>2. CASE k = Len(ledger) + 1 /\ l \in 1..Len(ledger)
      BY <1>4, <1>5, <2>2, <3>2
    <3>3. CASE l = Len(ledger) + 1 /\ k \in 1..Len(ledger)
      BY <1>4, <1>5, <2>2, <3>3
    <3> QED
      BY <1>4, <3>1, <3>2, <3>3
  <2> QED
    BY <2>1, <2>2 DEF Decided
<1>7. Realized \in Seq(Int) /\ Len(Realized) = Len(ledger) /\ Realized' \in Seq(Int) /\ Len(Realized') = Len(ledger')
  <2>1. Realized' \in Seq(Int) /\ Len(Realized') = Len(ledger')
    <3>1. Len(ledger') \in Nat
      BY <1>4
    <3>2. Realized' \in [1..Len(ledger') -> Int]
      BY <1>6 DEF Decided, Realized
    <3> QED
      BY <3>1, <3>2
  <2> QED
    BY <2>1, RealizedIsSeq DEF Walking
<1>8. ASSUME NEW k \in 1..Len(ledger)
      PROVE  Realized'[k] = Realized[k]
  <2>1. ledger[k].strategy # i
    BY <1>5
  <2>2. ledger[k].strategy \in (DOMAIN open)' <=> ledger[k].strategy \in DOMAIN open
    BY <2>1
  <2>3. k \in 1..Len(ledger') /\ ledger'[k] = ledger[k]
    BY <1>4
  <2> QED
    BY <2>2, <2>3 DEF Realized
<1>9. Realized'[Len(ledger) + 1] = 0
  BY <1>4 DEF Realized
<1>10. Total(Realized') = Total(Realized) + 0
  BY <1>4, <1>7, <1>8, <1>9, TotalGrows
<1>11. Total(Realized) \in Int
  BY <1>7, TotalIsInt
<1>12. balance' \in Int /\ balance' = ea'.balance + Total(Realized')
  BY <1>3, <1>10, <1>11 DEF Walking
<1> QED
  BY <1>2, <1>3, <1>4, <1>6, <1>12

LEMMA SameReplay ==
  ASSUME ReplayInv, UNCHANGED replayVars
  PROVE  ReplayInv' /\ Entered' = Entered
BY DEF replayVars, Entered, ReplayInv, Setting, PathsTyped, Place, Managed, Reported, Replayed, s,
       Improves, Tighter, Long, Typed, AsInTheory

LEMMA ReplayIsNotWalk ==
  ASSUME ReplayInv, ReplayNext
  PROVE  step # "walk" /\ step' # "walk"
<1>1. NotEntered \subseteq {"invalidated_without_entry", "blocked_max_distance", "expired_without_entry"}
  BY DEF NotEntered
<1>2. ASSUME NEW outcome \in NotEntered, ToMissed(outcome)
      PROVE  step' # "walk"
  BY <1>1, <1>2 DEF ToMissed, Report
<1>3. CASE Refuse BY <1>3 DEF Refuse, Report
<1>4. CASE Begin BY <1>4 DEF Begin
<1>5. CASE Invalidate BY <1>2, <1>5 DEF Invalidate, NotEntered
<1>6. CASE Wait \/ Block BY <1>6 DEF Wait, Block, NextTick
<1>7. CASE Enter BY <1>7 DEF Enter, Report
<1>8. CASE ScanEnds BY <1>2, <1>8 DEF ScanEnds, NotEntered
<1>9. CASE MissedEnds BY <1>1, <1>9 DEF MissedEnds, Report
<1>10. CASE DataEnds BY <1>10 DEF DataEnds, Report
<1>11. ASSUME NEW b, Load(b) PROVE step # "walk" /\ step' # "walk"
  BY <1>11 DEF Load
<1>12. ASSUME NEW b, ScanBar(b) PROVE step # "walk" /\ step' # "walk"
  BY <1>12 DEF ScanBar, Scanning
<1>13. ASSUME NEW b, MissedBar(b) PROVE step # "walk" /\ step' # "walk"
  <2>1. step # "walk"
    BY <1>1, <1>13 DEF MissedBar
  <2> QED
    BY <1>13, <2>1 DEF MissedBar, Report
<1>14. ASSUME NEW b, ExitHit(b) PROVE step # "walk" /\ step' # "walk"
  BY <1>14 DEF ExitHit, Close, Report
<1>15. ASSUME NEW b, ExitEarly(b) PROVE step # "walk" /\ step' # "walk"
  BY <1>15 DEF ExitEarly, Close, Report
<1>16. ASSUME NEW b, Manage(b) PROVE step # "walk" /\ step' # "walk"
  BY <1>16 DEF Manage
<1> QED
  BY <1>3, <1>4, <1>5, <1>6, <1>7, <1>8, <1>9, <1>10, <1>11, <1>12, <1>13, <1>14, <1>15, <1>16 DEF ReplayNext

LEMMA StartWalkKeeps ==
  ASSUME AccountInv, StartWalk
  PROVE  AccountInv'
<1>1. Untouched /\ ReplayInv /\ step # "walk" /\ Replayed
  BY DEF AccountInv, StartWalk
<1>2. /\ undecided' = Entered /\ step' = "walk"
      /\ UNCHANGED <<book, ea, path, current, m, tick, trade, results, balance, open, heap, ledger>>
  BY DEF StartWalk
<1>3. Entered' = Entered
  BY <1>2 DEF Entered
<1>4. ReplayInv'
  <2>1. Setting' /\ PathsTyped'
    BY <1>1, <1>2 DEF ReplayInv, Setting, PathsTyped
  <2>2. Place'
    BY <1>1, <1>2 DEF ReplayInv, Place, Replayed
  <2>3. Managed' /\ Reported'
    BY <1>1, <1>2 DEF ReplayInv, Managed, Reported, Typed, AsInTheory
  <2> QED
    BY <2>1, <2>2, <2>3 DEF ReplayInv
<1>5. ledger' = <<>> /\ Len(ledger') = 0 /\ Sequence(ledger')
  <2>1. ledger' = <<>> /\ <<>> \in Seq({})
    BY <1>1, <1>2 DEF Untouched
  <2> QED
    BY <2>1 DEF Sequence
<1>6. Decided' /\ Exits'
  BY <1>1, <1>2, <1>5 DEF Decided, Exits, Untouched
<1>7. balance' \in Int /\ balance' = ea'.balance + Total(Realized')
  <2>1. Realized' \in Seq(Int) /\ Len(Realized') = 0
    BY <1>5 DEF Realized
  <2>2. Total(Realized') = 0
    BY <2>1, TotalOfNone
  <2>3. ea.balance \in Int
    BY <1>1, ConfigFacts DEF ReplayInv
  <2> QED
    BY <1>1, <1>2, <2>2, <2>3 DEF Untouched
<1>8. Walking'
  BY <1>1, <1>2, <1>3, <1>6, <1>7 DEF Walking, Untouched
<1> QED
  BY <1>2, <1>4, <1>8 DEF AccountInv

LEMMA RealizeKeeps ==
  ASSUME AccountInv, Realize
  PROVE  AccountInv'
<1> DEFINE e == NextExit
           i == e[3]
           k == e[2] + 1
<1>1. ReplayInv /\ Walking /\ step = "walk" /\ heap # {}
  BY DEF AccountInv, Realize, Due
<1>2. /\ heap' = heap \ {e} /\ open' = [j \in DOMAIN open \ {i} |-> open[j]]
      /\ balance' = balance + open[i].net
      /\ UNCHANGED <<replayVars, undecided, ledger>>
  BY DEF Realize
<1>3. ReplayInv' /\ Entered' = Entered /\ step' = "walk" /\ ea' = ea /\ path' = path
  BY <1>1, <1>2, SameReplay DEF replayVars
<1>4. e \in heap /\ ExitMatches(e)
  BY <1>1, NextExitIsInHeap DEF Walking, Exits
<1> HIDE DEF e
<1>5. k \in 1..Len(ledger) /\ i \in DOMAIN open /\ ledger[k].strategy = i /\ ledger[k].reason = "none"
      /\ ledger[k].net = open[i].net
  BY <1>4 DEF ExitMatches
<1>6. \A l \in 1..Len(ledger) : ledger[l].strategy = i => l = k
  BY <1>1, <1>5 DEF Walking, Decided
<1>7. \A f \in heap' : f[3] # i
  <2>1. SUFFICES ASSUME NEW f \in heap \ {e}, f[3] = i PROVE FALSE
    BY <1>2
  <2>2. ExitMatches(f)
    BY <1>1 DEF Walking, Exits
  <2>3. f[2] + 1 = k /\ f[2] \in Nat /\ e[2] \in Nat
    BY <1>4, <1>6, <2>1, <2>2 DEF ExitMatches
  <2>4. f[2] = e[2]
    BY <2>3
  <2> QED
    BY <1>1, <1>4, <2>1, <2>4 DEF Walking, Exits
<1>8. DOMAIN open' = DOMAIN open \ {i} /\ \A j \in DOMAIN open' : open'[j] = open[j]
  BY <1>2
<1>9. Decided'
  BY <1>1, <1>2, <1>3 DEF Walking, Decided
<1>10. Exits'
  <2>1. ASSUME NEW f \in heap'
        PROVE  ExitMatches(f)'
    <3>1. ExitMatches(f) /\ f[3] # i
      BY <1>1, <1>2, <1>7 DEF Walking, Exits
    <3>2. f[3] \in DOMAIN open' /\ open'[f[3]] = open[f[3]]
      BY <1>8, <3>1 DEF ExitMatches
    <3> QED
      BY <1>2, <3>1, <3>2 DEF ExitMatches
  <2>2. \A f, g \in heap' : f[2] = g[2] => f = g
    BY <1>1, <1>2 DEF Walking, Exits
  <2>3. ASSUME NEW j \in DOMAIN open'
        PROVE  \E f \in heap' : f[3] = j
    <3>1. j \in DOMAIN open /\ j # i
      BY <1>8
    <3>2. PICK f \in heap : f[3] = j
      BY <1>1, <3>1 DEF Walking, Exits
    <3> QED
      BY <1>2, <3>1, <3>2
  <2> QED
    BY <2>1, <2>2, <2>3 DEF Exits
<1>11. balance' \in Int /\ balance' = ea'.balance + Total(Realized')
  <2>1. Realized \in Seq(Int) /\ Len(Realized) = Len(ledger) /\ Len(ledger) \in Nat
    BY <1>1, RealizedIsSeq DEF Walking
  <2>2. Realized' \in Seq(Int) /\ Len(Realized') = Len(ledger)
    <3>1. Realized' \in [1..Len(ledger) -> Int]
      BY <1>2, <1>9 DEF Decided, Realized
    <3> QED
      BY <2>1, <3>1
  <2>3. Realized[k] = 0 /\ Realized'[k] = open[i].net
    BY <1>2, <1>5, <1>8 DEF Realized
  <2>4. ASSUME NEW l \in 1..Len(ledger), l # k
        PROVE  Realized'[l] = Realized[l]
    <3>1. ledger[l].strategy # i
      BY <1>6, <2>4
    <3>2. ledger[l].strategy \in DOMAIN open' <=> ledger[l].strategy \in DOMAIN open
      BY <1>8, <3>1
    <3> QED
      BY <1>2, <3>2 DEF Realized
  <2> HIDE DEF k, i
  <2>5. Total(Realized') = Total(Realized) - Realized[k] + Realized'[k]
    BY <1>5, <2>1, <2>2, <2>4, TotalChanges
  <2>6. Total(Realized) \in Int /\ open[i].net \in Int /\ ea.balance \in Int
    BY <1>1, <1>5, <2>1, TotalIsInt, ConfigFacts DEF Walking, PositionTyped, ReplayInv
  <2>7. balance = ea.balance + Total(Realized)
    BY <1>1 DEF Walking
  <2> QED
    BY <1>2, <1>3, <2>3, <2>5, <2>6, <2>7
<1>12. Walking'
  <2>1. \A j \in DOMAIN open' : PositionTyped(open'[j], path')
    BY <1>1, <1>3, <1>8 DEF Walking, PositionTyped
  <2>2. undecided' \subseteq Entered' /\ DOMAIN open' \subseteq Entered' \ undecided'
    BY <1>1, <1>2, <1>3, <1>8 DEF Walking
  <2> QED
    BY <1>9, <1>10, <1>11, <2>1, <2>2 DEF Walking
<1> QED
  BY <1>3, <1>12 DEF AccountInv

LEMMA RejectKeeps ==
  ASSUME AccountInv, Reject
  PROVE  AccountInv'
<1> DEFINE i == First
           reason == Rejection(results[i], Equity(balance, open, results[i].time))
<1>1. ReplayInv /\ Walking /\ step = "walk" /\ undecided # {}
  BY DEF AccountInv, Reject
<1>2. Decide(results[i], reason, 0, 0) /\ reason # "none" /\ UNCHANGED <<open, heap>>
  BY DEF Reject
<1>3. i \in undecided
  BY <1>1, FirstIsUndecided DEF Walking
<1> HIDE DEF i, reason
<1>4. Sequence(ledger') /\ UNCHANGED replayVars
  BY <1>1, <1>2, Appended DEF Decide, Walking, Decided
<1>5. (DOMAIN open)' \ {i} = DOMAIN open
  BY <1>1, <1>2, <1>3 DEF Walking
<1>6. /\ Decided' /\ undecided' = undecided \ {i} /\ Entered' = Entered /\ ReplayInv'
      /\ balance' \in Int /\ balance' = ea'.balance + Total(Realized')
      /\ \A k \in 1..Len(ledger) : k \in 1..Len(ledger') /\ ledger'[k] = ledger[k]
  <2> DEFINE zero == 0
  <2>1. zero \in Int /\ Decide(results[i], reason, zero, zero) /\ (reason = "none" => i \in (DOMAIN open)')
    BY <1>2
  <2> HIDE DEF zero
  <2> QED
    BY <1>1, <1>3, <1>4, <1>5, <2>1, DecisionKeeps
<1>7. Exits'
  BY <1>1, <1>2, <1>6 DEF Walking, Exits, ExitMatches
<1>8. Walking'
  BY <1>1, <1>2, <1>4, <1>6, <1>7 DEF Walking, PositionTyped, replayVars
<1> QED
  BY <1>1, <1>4, <1>6, <1>8 DEF AccountInv, replayVars

LEMMA AdmitKeeps ==
  ASSUME AccountInv, Admit
  PROVE  AccountInv'
<1> DEFINE i == First
           r == results[i]
           equity == Equity(balance, open, r.time)
           lot == AccountLot(r, equity)
           net == (r.net * lot) \div r.lot
           position == [symbol |-> r.symbol, direction |-> r.direction, exit |-> ExitOf(r), entry |-> r.entry,
                        lot |-> lot, risk |-> RiskOf(r, lot), net |-> net, last |-> r.last]
           new == <<ExitOf(r), Len(ledger), i>>
<1>1. ReplayInv /\ Walking /\ step = "walk" /\ undecided # {}
  BY DEF AccountInv, Admit
<1>2. i \in undecided /\ i \in Entered
  BY <1>1, FirstIsUndecided DEF Walking
<1>3. r.strategy = i
  BY <1>1, <1>2, EnteredFacts
<1>4. /\ Decide(r, "none", lot, net)
      /\ open' = [j \in DOMAIN open \union {i} |-> IF j = i THEN position ELSE open[j]]
      /\ heap' = heap \union {new}
  BY <1>3 DEF Admit
<1> HIDE DEF i
<1>5. /\ r.lot \in Nat \ {0} /\ r.symbol \in Symbols /\ r.time \in Nat \ {0} /\ r.exitTime \in Nat
      /\ r.entry \in Int /\ r.net \in Int /\ r.last \in 1..Len(path[r.symbol])
  BY <1>1, <1>2, EnteredFacts
<1>6. lot \in Nat
  <2>1. equity \in Int
    BY <1>1, <1>5, EquityIsInt
  <2> HIDE DEF equity
  <2> QED
    BY <1>1, <1>2, <2>1, AccountLotIsNat
<1>7. net \in Int
  <2> HIDE DEF lot, r
  <2>1. r.net * lot \in Int
    BY <1>5, <1>6, Product
  <2> QED
    BY <1>5, <2>1, Quotient
<1>8. new[1] \in Nat /\ new[2] = Len(ledger) /\ new[3] = i
  BY <1>5 DEF ExitOf
<1>9. /\ position.symbol = r.symbol /\ position.entry = r.entry /\ position.lot = lot /\ position.net = net
      /\ position.last = r.last
  OBVIOUS
<1> HIDE DEF lot, net, position, new
<1>10. /\ DOMAIN open' = DOMAIN open \union {i} /\ open'[i] = position
       /\ \A j \in DOMAIN open : j # i /\ open'[j] = open[j]
  BY <1>1, <1>2, <1>4 DEF Walking
<1>11. Sequence(ledger') /\ UNCHANGED replayVars
  BY <1>1, <1>4, Appended DEF Decide, Walking, Decided
<1>12. /\ Decided' /\ undecided' = undecided \ {i} /\ Entered' = Entered /\ ReplayInv'
       /\ balance' \in Int /\ balance' = ea'.balance + Total(Realized')
       /\ \A k \in 1..Len(ledger) : k \in 1..Len(ledger') /\ ledger'[k] = ledger[k]
       /\ Len(ledger') = Len(ledger) + 1 /\ Len(ledger) \in Nat
       /\ ledger'[Len(ledger) + 1] = [strategy |-> i, reason |-> "none", lot |-> lot, net |-> net]
  <2>1. (DOMAIN open)' \ {i} = DOMAIN open /\ i \in (DOMAIN open)'
    BY <1>10
  <2>2. Decide(results[i], "none", lot, net)
    BY <1>4
  <2> QED
    BY <1>1, <1>2, <1>7, <1>11, <2>1, <2>2, DecisionKeeps
<1>13. Exits'
  <2>1. ASSUME NEW f \in heap
        PROVE  ExitMatches(f)' /\ f[2] # new[2]
    <3>1. ExitMatches(f)
      BY <1>1 DEF Walking, Exits
    <3>2. f[3] \in DOMAIN open' /\ open'[f[3]] = open[f[3]]
      BY <1>10, <3>1 DEF ExitMatches
    <3>3. f[2] + 1 \in 1..Len(ledger') /\ ledger'[f[2] + 1] = ledger[f[2] + 1] /\ f[2] # Len(ledger)
      BY <1>12, <3>1 DEF ExitMatches
    <3> QED
      BY <1>8, <3>1, <3>2, <3>3 DEF ExitMatches
  <2>2. ASSUME NEW f, f = new PROVE ExitMatches(f)'
    BY <2>2, <1>8, <1>9, <1>10, <1>12 DEF ExitMatches
  <2>3. \A f \in heap' : ExitMatches(f)'
    BY <1>4, <2>1, <2>2
  <2>4. \A f, g \in heap' : f[2] = g[2] => f = g
    BY <1>1, <1>4, <2>1 DEF Walking, Exits
  <2>5. \A j \in DOMAIN open' : \E f \in heap' : f[3] = j
    BY <1>1, <1>4, <1>8, <1>10 DEF Walking, Exits
  <2> QED
    BY <2>3, <2>4, <2>5 DEF Exits
<1>14. Walking'
  <2>1. path' = path
    BY <1>11 DEF replayVars
  <2>2. \A j \in DOMAIN open' : PositionTyped(open'[j], path')
    <3>1. PositionTyped(position, path')
      BY <1>5, <1>6, <1>7, <1>9, <2>1 DEF PositionTyped
    <3>2. \A j \in DOMAIN open : PositionTyped(open[j], path')
      BY <1>1, <2>1 DEF Walking, PositionTyped
    <3> QED
      BY <1>10, <3>1, <3>2
  <2>3. undecided' \subseteq Entered' /\ DOMAIN open' \subseteq Entered' \ undecided'
    BY <1>1, <1>2, <1>10, <1>12 DEF Walking
  <2> QED
    BY <1>12, <1>13, <2>2, <2>3 DEF Walking
<1> QED
  BY <1>1, <1>11, <1>12, <1>14 DEF AccountInv, replayVars

LEMMA AccountKeeps ==
  ASSUME AccountInv, [Next]_vars
  PROVE  AccountInv'
<1>1. CASE ReplayNext /\ UNCHANGED account
  <2>1. ReplayInv' /\ step # "walk" /\ step' # "walk"
    BY <1>1, ReplayKeeps, ReplayIsNotWalk DEF AccountInv
  <2>2. ea' = ea
    BY <1>1 DEF ReplayNext, Refuse, Begin, Invalidate, ToMissed, Wait, Block, NextTick, Enter, ScanEnds, MissedEnds,
                DataEnds, Load, ScanBar, MissedBar, ExitHit, ExitEarly, Manage
  <2> QED
    BY <1>1, <2>1, <2>2 DEF AccountInv, Untouched, account
<1>2. CASE StartWalk BY <1>2, StartWalkKeeps
<1>3. CASE Realize BY <1>3, RealizeKeeps
<1>4. CASE Reject BY <1>4, RejectKeeps
<1>5. CASE Admit BY <1>5, AdmitKeeps
<1>6. CASE UNCHANGED vars
  <2>1. ReplayInv' /\ Entered' = Entered /\ UNCHANGED replayVars /\ UNCHANGED account
    BY <1>6, SameReplay DEF AccountInv, vars
  <2>2. UNCHANGED <<step, ea, path, undecided, balance, open, heap, ledger>>
    BY <2>1 DEF replayVars, account
  <2>3. Realized' = Realized
    BY <2>2 DEF Realized
  <2>4. Untouched => Untouched'
    BY <2>2 DEF Untouched
  <2>5. Walking => Walking'
    BY <2>1, <2>2, <2>3 DEF Walking, PositionTyped, Exits, ExitMatches, Decided
  <2> QED
    BY <2>1, <2>2, <2>4, <2>5 DEF AccountInv
<1> QED
  BY <1>1, <1>2, <1>3, <1>4, <1>5, <1>6 DEF Next, Stop

LEMMA AccountStarts ==
  ASSUME Init
  PROVE  AccountInv
<1>1. ReplayInv /\ step = "start"
  BY ReplayStarts DEF Init, ReplayInit
<1>2. Untouched
  BY DEF Init, Untouched
<1> QED
  BY <1>1, <1>2 DEF AccountInv

\* Whatever is replayed, the replay and the account stay in the states that AccountInv describes.
THEOREM AccountAlways == Spec => []AccountInv
<1>1. Init => AccountInv
  BY AccountStarts
<1>2. AccountInv /\ [Next]_vars => AccountInv'
  BY AccountKeeps
<1> QED
  BY <1>1, <1>2, PTL DEF Spec

-----------------------------------------------------------------------------
(* What the backtest promises *)

\* An unmanaged trade ends as the theoretical one and is worth as much, whatever the bars and the levels.
THEOREM UnmanagedTradesAsInTheory == Spec => []UnmanagedIsTheoretical
<1>1. AccountInv => UnmanagedIsTheoretical
  <2>1. SUFFICES ASSUME AccountInv, NEW i \in DOMAIN results
                 PROVE  AsInTheory(results[i])
    BY DEF UnmanagedIsTheoretical, AsInTheory
  <2>2. i \in 1..Len(results)
    BY <2>1, Appended DEF AccountInv, ReplayInv, Reported
  <2> QED
    BY <2>1, <2>2 DEF AccountInv, ReplayInv, Reported
<1> QED
  BY <1>1, AccountAlways, PTL

\* No step of the management moves a stop back, however its rules and the broker's distance meet.
THEOREM StopsOnlyTighten == Spec => StopOnlyTightens
<1>1. ASSUME AccountInv, [Next]_vars, step = "trade", step' = "trade", trade'.stop # trade.stop
      PROVE  Improves(trade'.stop, trade.stop)
  <2>1. CASE \E b : Manage(b)
    BY <1>1, <2>1, ManagedIsBetter DEF AccountInv, Better
  <2>2. CASE ReplayNext /\ ~\E b : Manage(b)
    BY <1>1, <2>2 DEF ReplayNext, Refuse, Begin, Invalidate, Wait, Block, Enter, ScanEnds, MissedEnds,
                      DataEnds, Load, ScanBar, Scanning, MissedBar, NotEntered, ExitHit, ExitEarly, Close, Report
  <2>3. CASE StartWalk \/ Realize \/ Reject \/ Admit
    BY <1>1, <2>3 DEF StartWalk, Realize, Reject, Admit
  <2>4. CASE UNCHANGED vars
    BY <1>1, <2>4 DEF vars, replayVars
  <2> QED
    BY <1>1, <2>1, <2>2, <2>3, <2>4 DEF Next, Stop
<1>2. AccountInv /\ [Next]_vars =>
        [step = "trade" /\ step' = "trade" /\ trade'.stop # trade.stop => Improves(trade'.stop, trade.stop)]_vars
  BY <1>1
<1> QED
  BY <1>2, AccountAlways, PTL DEF Spec, StopOnlyTightens

\* When the walk is over nothing is open, and the balance is what the account started with and the
\* gain of every trade it admitted, each once.
THEOREM AccountAlwaysBalances == Spec => []BalanceAccounts
<1>1. AccountInv => BalanceAccounts
  <2> DEFINE gains == [i \in DOMAIN ledger |-> IF i \in Admitted THEN ledger[i].net ELSE 0]
  <2>1. SUFFICES ASSUME AccountInv, Finished
                 PROVE  DOMAIN open = {} /\ balance = ea.balance + Total(gains)
    BY DEF BalanceAccounts
  <2>2. Walking /\ heap = {}
    BY <2>1 DEF AccountInv, Finished
  <2>3. DOMAIN open = {}
    BY <2>2 DEF Walking, Exits
  <2>4. DOMAIN ledger = 1..Len(ledger)
    BY <2>2, Appended DEF Walking, Decided
  <2>5. gains = Realized
    BY <2>3, <2>4 DEF Realized, Admitted
  <2> QED
    BY <2>2, <2>3, <2>5 DEF Walking
<1> QED
  BY <1>1, AccountAlways, PTL
=============================================================================
