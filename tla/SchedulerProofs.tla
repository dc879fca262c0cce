---------------------------- MODULE SchedulerProofs ----------------------------
(***************************************************************************)
(* Theorems about Scheduler and the updaters it runs, for any number of    *)
(* containers and pairs, any market, any crashes and outages.              *)
(***************************************************************************)
EXTENDS Scheduler, FiniteSetTheorems, WellFoundedInduction, TLAPS

----------------------------------------------------------------------------
\* The lock of the cycle.

\* A scheduler that steps within its cycle, or leaves it, keeps the others out.
LEMMA Staying ==
  ASSUME LockInv, NEW s \in Schedulers, NEW r,
         sched' = [sched EXCEPT ![s] = r], DOMAIN r = DOMAIN Fresh,
         r.pc \in {"due", "run", "transitions", "pause", "release"},
         r.pc = "due" \/ InCycle(s),
         UNCHANGED <<lock, redisUp>>, everLost' \in BOOLEAN, everLost => everLost'
  PROVE  LockInv'
<1>1. /\ sched'[s] = r
      /\ \A x \in Schedulers \ {s} : sched'[x] = sched[x]
      /\ DOMAIN sched' = Schedulers
  BY DEF LockInv, SchedulersOK
<1>2. SchedulersOK'
  BY <1>1 DEF LockInv, SchedulersOK
<1>3. KeyIsHeld'
  BY <1>1 DEF LockInv, SchedulersOK, KeyIsHeld, InCycle
<1> QED
  BY <1>2, <1>3 DEF LockInv

\* What the updater, the market and a failing pair do leaves the schedulers alone.
LEMMA KeptAlone ==
  ASSUME LockInv, UNCHANGED schedulerVars
  PROVE  LockInv'
BY DEF LockInv, SchedulersOK, KeyIsHeld, InCycle, schedulerVars

\* The outcome of an updater keeps the shape of its scheduler.
LEMMA Recording ==
  ASSUME SchedulersOK, NEW s \in Schedulers, NEW ok
  PROVE  /\ DOMAIN Recorded(s, ok) = DOMAIN Fresh /\ Recorded(s, ok).pc = sched[s].pc
         /\ DOMAIN AfterUpdater(s, ok) = DOMAIN Fresh
         /\ AfterUpdater(s, ok).pc \in {"release", "transitions"}
BY DEF SchedulersOK, Recorded, AfterUpdater, Fresh

\* A scheduler takes a lock that nobody has, or one of its own where that is allowed.
LEMMA Beginning ==
  ASSUME LockInv, NEW s \in Schedulers, NEW locked, RunBegins(s, locked), sched[s].pc = "due",
         \/ lock = Nobody /\ lock' = s
         \/ ~Strict /\ lock' = lock,
         UNCHANGED <<redisUp, everLost>>
  PROVE  LockInv'
<1>1. /\ DOMAIN sched' = Schedulers
      /\ \A x \in Schedulers \ {s} : sched'[x] = sched[x]
      /\ DOMAIN sched'[s] = DOMAIN Fresh /\ sched'[s].pc = "run"
  BY DEF RunBegins, LockInv, SchedulersOK, Fresh
<1>2. SchedulersOK'
  BY <1>1 DEF LockInv, SchedulersOK
<1>3. CASE ~Strict
  BY <1>2, <1>3 DEF LockInv, KeyIsHeld
<1>4. CASE lock = Nobody /\ lock' = s
  <2>1. (Strict /\ ~everLost) => \A x \in Schedulers : ~InCycle(x)
    BY <1>4, IndicatorsAssumption DEF LockInv, KeyIsHeld, Schedulers
  <2>2. KeyIsHeld'
    BY <1>1, <1>4, <2>1 DEF KeyIsHeld, InCycle
  <2> QED
    BY <1>2, <2>2 DEF LockInv
<1> QED
  BY <1>3, <1>4

\* The key goes away from a scheduler that does not rely on it, or the loss is remembered.
LEMMA Expiring ==
  ASSUME LockInv, KeyExpires
  PROVE  LockInv'
<1>1. SchedulersOK'
  BY DEF LockInv, SchedulersOK, KeyExpires
<1>2. KeyIsHeld'
  BY DEF LockInv, KeyIsHeld, InCycle, KeyExpires
<1> QED
  BY <1>1, <1>2 DEF LockInv

\* Whoever gives the cycle up had the key, so that nobody else is in one.
LEMMA Releasing ==
  ASSUME LockInv, NEW s \in Schedulers, _release_distributed_lock(s)
  PROVE  LockInv'
<1>1. /\ DOMAIN sched' = Schedulers
      /\ \A x \in Schedulers \ {s} : sched'[x] = sched[x]
      /\ DOMAIN sched'[s] = DOMAIN Fresh /\ sched'[s].pc = "due"
  BY DEF _release_distributed_lock, LockInv, SchedulersOK, Fresh
<1>2. lock' \in {lock, Nobody} /\ UNCHANGED <<redisUp, everLost>>
  BY DEF _release_distributed_lock
<1>3. SchedulersOK'
  BY <1>1, <1>2 DEF LockInv, SchedulersOK
<1>4. KeyIsHeld'
  BY <1>1, <1>2 DEF LockInv, KeyIsHeld, InCycle, _release_distributed_lock
<1> QED
  BY <1>3, <1>4 DEF LockInv

\* OneAtATime: in strict mode, as long as no key went away from a scheduler that relied on it, two
\* schedulers are never in a cycle at once (data_updater_scheduler.py, the lock of the cycle).
THEOREM OneCycleAtATime == Spec => []OneAtATime
<1>1. Init => LockInv
  <2> SUFFICES ASSUME Init PROVE LockInv
    OBVIOUS
  <2>1. /\ DOMAIN sched = Schedulers /\ \A s \in Schedulers : sched[s] = Fresh
        /\ lock = Nobody /\ redisUp = TRUE /\ everLost = FALSE
    BY DEF Init
  <2>2. Fresh.pc = "due"
    BY DEF Fresh
  <2>3. SchedulersOK
    BY <2>1, <2>2 DEF SchedulersOK
  <2> QED
    BY <2>1, <2>2, <2>3 DEF LockInv, KeyIsHeld, InCycle
<1>2. LockInv /\ [Next]_vars => LockInv'
  <2> SUFFICES ASSUME LockInv, [Next]_vars PROVE LockInv'
    OBVIOUS
  <2>1. CASE UNCHANGED schedulerVars
    BY <2>1, KeptAlone
  <2>2. ASSUME NEW s \in Schedulers, SchedulerStep(s) PROVE LockInv'
    <3>1. CASE LockIsHeld(s)
      <4>1. DOMAIN Skipped(s) = DOMAIN Fresh /\ Skipped(s).pc = "due"
        BY <3>1 DEF LockIsHeld, Skipped, LockInv, SchedulersOK, Fresh
      <4>2. SchedulersOK' /\ KeyIsHeld'
        BY <3>1, <4>1 DEF LockIsHeld, LockInv, SchedulersOK, KeyIsHeld, InCycle
      <4> QED
        BY <4>2 DEF LockInv
    <3>2. CASE LockIsAcquired(s)
      BY <3>2, Beginning DEF LockIsAcquired
    <3>3. CASE LockIsUnavailable(s) /\ ~Strict
      BY <3>3, Beginning DEF LockIsUnavailable
    <3>4. CASE LockIsUnavailable(s) /\ Strict
      <4>1. sched[s].pc = "due" /\ DOMAIN Recorded(s, FALSE) = DOMAIN Fresh
            /\ Recorded(s, FALSE).pc = "due"
        BY <3>4, Recording DEF LockIsUnavailable, LockInv
      <4> DEFINE v == Recorded(s, FALSE)
                 r == IF v.exits THEN Fresh ELSE [v EXCEPT !.startup = FALSE]
      <4>2. sched' = [sched EXCEPT ![s] = r]
        BY <3>4 DEF LockIsUnavailable
      <4>3. DOMAIN r = DOMAIN Fresh /\ r.pc = "due"
        BY <4>1 DEF Fresh
      <4> HIDE DEF r
      <4>4. /\ DOMAIN sched' = Schedulers
            /\ \A x \in Schedulers \ {s} : sched'[x] = sched[x]
            /\ DOMAIN sched'[s] = DOMAIN Fresh /\ sched'[s].pc = "due"
        BY <4>2, <4>3 DEF LockInv, SchedulersOK
      <4>5. SchedulersOK' /\ KeyIsHeld'
        BY <3>4, <4>4 DEF LockIsUnavailable, LockInv, SchedulersOK, KeyIsHeld, InCycle
      <4> QED
        BY <4>5 DEF LockInv
    <3>5. CASE RenewalFails(s)
      <4>1. /\ DOMAIN sched' = Schedulers
            /\ \A x \in Schedulers : sched'[x].pc = sched[x].pc /\ DOMAIN sched'[x] = DOMAIN Fresh
        BY <3>5 DEF RenewalFails, LockInv, SchedulersOK, Fresh
      <4>2. SchedulersOK' /\ KeyIsHeld'
        BY <3>5, <4>1 DEF RenewalFails, LockInv, SchedulersOK, KeyIsHeld, InCycle
      <4> QED
        BY <4>2 DEF LockInv
    <3>6. CASE UpdaterEnds(s)
      <4> DEFINE r == AfterUpdater(s, ~up[s].errors)
      <4>1. DOMAIN r = DOMAIN Fresh /\ r.pc \in {"release", "transitions"}
        BY Recording DEF LockInv
      <4>2. /\ InCycle(s) /\ sched' = [sched EXCEPT ![s] = r]
            /\ UNCHANGED <<lock, redisUp, everLost>> /\ everLost' \in BOOLEAN
        BY <3>6 DEF UpdaterEnds, InCycle, LockInv, SchedulersOK
      <4> HIDE DEF r
      <4> QED
        BY <4>1, <4>2, Staying
    <3>7. CASE UpdaterIsKilled(s)
      <4> DEFINE r == AfterUpdater(s, FALSE)
      <4>1. DOMAIN r = DOMAIN Fresh /\ r.pc \in {"release", "transitions"}
        BY Recording DEF LockInv
      <4>2. /\ InCycle(s) /\ sched' = [sched EXCEPT ![s] = r]
            /\ UNCHANGED <<lock, redisUp, everLost>> /\ everLost' \in BOOLEAN
        BY <3>7 DEF UpdaterIsKilled, InCycle, LockInv, SchedulersOK
      <4> HIDE DEF r
      <4> QED
        BY <4>1, <4>2, Staying
    <3>8. CASE run_referral_reward_transitions(s)
      <4>1. PICK ok, isDue \in BOOLEAN :
              sched' = [sched EXCEPT ![s].pc = IF ok /\ isDue THEN "pause" ELSE "release",
                                     ![s].exits = ~ok /\ ReferralFatal]
        BY <3>8 DEF run_referral_reward_transitions
      <4>2. /\ DOMAIN sched' = Schedulers
            /\ \A x \in Schedulers \ {s} : sched'[x] = sched[x]
            /\ DOMAIN sched'[s] = DOMAIN Fresh /\ sched'[s].pc \in {"pause", "release"}
        BY <4>1 DEF LockInv, SchedulersOK, Fresh
      <4>3. SchedulersOK' /\ KeyIsHeld'
        BY <3>8, <4>2 DEF run_referral_reward_transitions, LockInv, SchedulersOK, KeyIsHeld, InCycle
      <4> QED
        BY <4>3 DEF LockInv
    <3>9. CASE run_referral_pause_resume_worker(s)
      <4>1. /\ DOMAIN sched' = Schedulers
            /\ \A x \in Schedulers \ {s} : sched'[x] = sched[x]
            /\ DOMAIN sched'[s] = DOMAIN Fresh /\ sched'[s].pc = "release"
        BY <3>9 DEF run_referral_pause_resume_worker, LockInv, SchedulersOK, Fresh
      <4>2. SchedulersOK' /\ KeyIsHeld'
        BY <3>9, <4>1 DEF run_referral_pause_resume_worker, LockInv, SchedulersOK, KeyIsHeld, InCycle
      <4> QED
        BY <4>2 DEF LockInv
    <3>10. CASE _release_distributed_lock(s)
      BY <3>10, Releasing
    <3> QED
      BY <2>1, <2>2, <3>1, <3>2, <3>3, <3>4, <3>5, <3>6, <3>7, <3>8, <3>9, <3>10 DEF SchedulerStep, Acquire
  <2>3. ASSUME NEW s \in Schedulers, Crash(s) PROVE LockInv'
    <3>1. /\ InCycle(s) /\ sched' = [sched EXCEPT ![s] = Fresh]
          /\ UNCHANGED <<lock, redisUp, everLost>> /\ everLost' \in BOOLEAN
      BY <2>3 DEF Crash, LockInv, SchedulersOK
    <3>2. Fresh.pc = "due"
      BY DEF Fresh
    <3> QED
      BY <3>1, <3>2, Staying
  <2>4. CASE KeyExpires
    BY <2>4, Expiring
  <2>5. CASE RedisStops \/ RedisComesBack
    BY <2>5 DEF RedisStops, RedisComesBack, LockInv, SchedulersOK, KeyIsHeld, InCycle
  <2> QED
    BY <2>1, <2>2, <2>3, <2>4, <2>5 DEF Next, vars
<1>3. LockInv => OneAtATime
  BY DEF LockInv, KeyIsHeld, OneAtATime
<1> QED
  BY <1>1, <1>2, <1>3, PTL DEF Spec

----------------------------------------------------------------------------
\* Candles, and the oldest and the newest of them.

\* A bar is in the span of its candle.
LEMMA CandleOfBar ==
  ASSUME NEW x \in Nat, NEW t, x \div Sub = t
  PROVE  t \in Nat /\ t * Sub <= x /\ x < t * Sub + Sub
<1>1. Sub \in Nat /\ Sub > 0
  BY IndicatorsAssumption
<1> QED
  BY <1>1

\* Candles do not overlap.
LEMMA LaterCandle ==
  ASSUME NEW a \in Int, NEW b \in Int, a < b
  PROVE  a * Sub + Sub <= b * Sub
<1>1. Sub \in Nat
  BY IndicatorsAssumption
<1>2. PICK k \in Nat : b = a + 1 + k
  <2>1. b - a - 1 \in Nat /\ b = a + 1 + (b - a - 1)
    OBVIOUS
  <2> QED
    BY <2>1
<1>3. b * Sub = a * Sub + Sub + k * Sub
  BY <1>1, <1>2
<1>4. k * Sub \in Nat /\ a * Sub \in Int
  BY <1>1
<1> QED
  BY <1>1, <1>3, <1>4

\* A set of natural numbers has a least one.
LEMMA Least ==
  ASSUME NEW S, S \subseteq Nat, S # {}
  PROVE  \E x \in S : \A y \in S : x <= y
<1>1. PICK x \in S : \A y \in S : <<y, x>> \notin OpToRel(<, Nat)
  BY NatLessThanWellFounded, WFMin, Zenon
<1>2. ASSUME NEW y \in S PROVE x <= y
  <2>1. <<y, x>> \in Nat \X Nat /\ <<y, x>>[1] = y /\ <<y, x>>[2] = x
    OBVIOUS
  <2>2. y < x => <<y, x>> \in OpToRel(<, Nat)
    BY <2>1, Zenon DEF OpToRel
  <2>3. ~(y < x)
    BY <1>1, <2>2, Zenon
  <2> QED
    BY <2>3
<1> QED
  BY <1>2

\* Min of a set of integers that has a lower bound.
LEMMA MinOfSet ==
  ASSUME NEW S, S \subseteq Int, S # {}, NEW a \in Int, \A x \in S : a <= x
  PROVE  Min(S) \in S /\ \A y \in S : Min(S) <= y
<1> DEFINE D == {n \in Nat : \E x \in S : n = x - a}
<1>1. PICK s : s \in S
  OBVIOUS
<1>2. s - a \in D
  BY <1>1
<1>3. PICK n \in D : \A m \in D : n <= m
  BY <1>2, Least
<1>4. PICK x \in S : n = x - a
  BY <1>3
<1>5. ASSUME NEW y \in S PROVE x <= y
  <2>1. y - a \in D
    BY <1>5
  <2>2. n <= y - a
    BY <1>3, <2>1
  <2> QED
    BY <1>4, <2>2
<1>6. \E z \in S : \A y \in S : z <= y
  BY <1>5
<1>7. Min(S) \in S /\ \A y \in S : Min(S) <= y
  BY <1>6 DEF Min
<1> QED
  BY <1>7

\* Max of a set of integers that has an upper bound.
LEMMA MaxOfSet ==
  ASSUME NEW S, S \subseteq Int, S # {}, NEW b \in Int, \A x \in S : x <= b
  PROVE  Max(S) \in S /\ \A y \in S : y <= Max(S)
<1> DEFINE D == {n \in Nat : \E x \in S : n = b - x}
<1>1. PICK s : s \in S
  OBVIOUS
<1>2. b - s \in D
  BY <1>1
<1>3. PICK n \in D : \A m \in D : n <= m
  BY <1>2, Least
<1>4. PICK x \in S : n = b - x
  BY <1>3
<1>5. ASSUME NEW y \in S PROVE x >= y
  <2>1. b - y \in D
    BY <1>5
  <2>2. n <= b - y
    BY <1>3, <2>1
  <2> QED
    BY <1>4, <2>2
<1>6. \E z \in S : \A y \in S : z >= y
  BY <1>5
<1>7. Max(S) \in S /\ \A y \in S : Max(S) >= y
  BY <1>6 DEF Max
<1> QED
  BY <1>7

\* Sets between two bounds are finite.
LEMMA Between ==
  ASSUME NEW S, NEW a \in Int, NEW b \in Int, S \subseteq a .. b
  PROVE  IsFiniteSet(S) /\ Cardinality(S) \in Nat /\ Cardinality(S) <= IF a > b THEN 0 ELSE b - a + 1
<1>1. IsFiniteSet(a .. b) /\ Cardinality(a .. b) = IF a > b THEN 0 ELSE b - a + 1
  BY FS_Interval
<1>2. IsFiniteSet(S) /\ Cardinality(S) <= Cardinality(a .. b)
  BY <1>1, FS_Subset
<1>3. Cardinality(S) \in Nat
  BY <1>2, FS_CardinalityType
<1> QED
  BY <1>1, <1>2, <1>3

\* The oldest ones of a set of candles are those up to some candle, and not too many.
LEMMA OldestOnes ==
  ASSUME NEW S, NEW a \in Int, NEW b \in Int, S \subseteq a .. b, NEW n \in Nat
  PROVE  /\ Oldest(n, S) \subseteq S
         /\ \A c \in Oldest(n, S) : \A t \in S : t <= c => t \in Oldest(n, S)
         /\ IsFiniteSet(Oldest(n, S)) /\ Cardinality(Oldest(n, S)) <= n
<1> DEFINE O == Oldest(n, S)
<1>1. O \subseteq S /\ \A x \in S : x \in Int
  BY DEF Oldest
<1>2. ASSUME NEW c \in O, NEW t \in S, t <= c PROVE t \in O
  <2> DEFINE T == {x \in S : x < t}
             C == {x \in S : x < c}
  <2>1. T \subseteq C
    <3>1. t \in Int /\ c \in Int /\ t <= c
      BY <1>1, <1>2
    <3>2. ASSUME NEW x \in S, x < t PROVE x < c
      <4>1. x \in Int
        BY <1>1
      <4> QED
        BY <3>1, <3>2, <4>1
    <3> QED
      BY <3>2
  <2>2. C \subseteq a .. b
    OBVIOUS
  <2>3. IsFiniteSet(C) /\ Cardinality(C) \in Nat
    BY <2>2, Between
  <2>4. Cardinality(C) < n
    BY <1>2 DEF Oldest
  <2> HIDE DEF C, T
  <2>5. IsFiniteSet(T) /\ Cardinality(T) <= Cardinality(C) /\ Cardinality(T) \in Nat
    BY <2>1, <2>3, FS_Subset, FS_CardinalityType
  <2>6. Cardinality(T) < n
    BY <2>3, <2>4, <2>5
  <2> QED
    BY <2>6 DEF Oldest, T
<1>3. IsFiniteSet(O) /\ Cardinality(O) \in Nat
  BY <1>1, Between
<1>4. Cardinality(O) <= n
  <2>1. CASE O = {}
    BY <2>1, FS_EmptySet
  <2>2. CASE O # {}
    <3>1. O \subseteq Int /\ \A x \in O : x <= b
      <4>1. \A x \in S : x \in Int /\ x <= b
        OBVIOUS
      <4> HIDE DEF O
      <4> QED
        BY <1>1, <4>1
    <3>2. PICK c \in O : \A y \in O : y <= c
      BY <2>2, <3>1, MaxOfSet
    <3> DEFINE C == {x \in S : x < c}
    <3>3. C \subseteq a .. b
      OBVIOUS
    <3>4. IsFiniteSet(C) /\ Cardinality(C) \in Nat /\ c \notin C
      BY <3>3, <1>1, Between
    <3>5. Cardinality(C) < n
      BY DEF Oldest
    <3>6. O \subseteq C \cup {c}
      <4> SUFFICES ASSUME NEW x \in O, x # c PROVE x \in C
        OBVIOUS
      <4>1. x \in S /\ x \in Int /\ c \in Int /\ x <= c
        BY <1>1, <3>2
      <4> QED
        BY <4>1
    <3> HIDE DEF C, O
    <3>7. IsFiniteSet(C \cup {c}) /\ Cardinality(C \cup {c}) = Cardinality(C) + 1
      BY <3>4, FS_AddElement
    <3>8. Cardinality(O) <= Cardinality(C \cup {c})
      BY <3>6, <3>7, FS_Subset
    <3> QED
      BY <1>3, <3>4, <3>5, <3>7, <3>8
  <2> QED
    BY <2>1, <2>2
<1> QED
  BY <1>1, <1>2, <1>3, <1>4

\* The newest ones have the last one, and reach back by as many as they are or to the first one.
LEMMA NewestOnes ==
  ASSUME NEW S, NEW a \in Int, NEW t \in S, S \subseteq a .. t, NEW n \in Nat \ {0}
  PROVE  /\ Newest(n, S) \subseteq S /\ t \in Newest(n, S)
         /\ \A m \in Newest(n, S) :
              (\A x \in Newest(n, S) : m <= x) => m <= t - n + 1 \/ \A x \in S : m <= x
<1> DEFINE N == Newest(n, S)
<1>0. \A x \in S : x \in Int /\ a <= x /\ x <= t
  OBVIOUS
<1>1. N \subseteq S /\ \A x \in N : Cardinality({y \in S : y > x}) < n
  BY DEF Newest
<1>2. t \in N
  <2>1. {x \in S : x > t} = {}
    <3>1. ASSUME NEW x \in S, x > t PROVE FALSE
      BY <1>0, <3>1
    <3> QED
      BY <3>1
  <2>2. Cardinality({x \in S : x > t}) < n
    BY <2>1, FS_EmptySet
  <2> QED
    BY <2>2 DEF Newest
<1>3. ASSUME NEW x \in S, Cardinality({y \in S : y > x}) < n PROVE x \in N
  BY <1>3 DEF Newest
<1> HIDE DEF N
<1> SUFFICES ASSUME NEW m \in N, \A x \in N : m <= x
             PROVE  m <= t - n + 1 \/ \A x \in S : m <= x
  BY <1>1, <1>2 DEF N
<1>5. m \in Int /\ m <= t /\ t \in Int
  BY <1>0, <1>1
<1>6. ASSUME ~(m <= t - n + 1), NEW z \in S, ~(m <= z) PROVE FALSE
  <2> DEFINE R == {y \in S : y < m}
  <2>1. R \subseteq Int /\ R # {} /\ \A y \in R : y <= t
    <3>1. z \in R
      BY <1>0, <1>5, <1>6
    <3> QED
      BY <1>0, <3>1
  <2> HIDE DEF R
  <2>2. PICK r \in R : \A y \in R : y <= r
    BY <1>5, <2>1, MaxOfSet
  <2>3. r \in S /\ r \in Int /\ r < m /\ \A y \in S : y < m => y <= r
    BY <1>0, <2>2 DEF R
  <2>4. ASSUME NEW y \in S, y > r PROVE y \in m .. t
    <3>1. y \in Int /\ y <= t
      BY <1>0
    <3> QED
      BY <1>5, <2>3, <2>4, <3>1
  <2>5. {y \in S : y > r} \subseteq m .. t
    BY <2>4
  <2>6. /\ Cardinality({y \in S : y > r}) \in Nat
        /\ Cardinality({y \in S : y > r}) <= IF m > t THEN 0 ELSE t - m + 1
    BY <1>5, <2>5, Between
  <2>7. Cardinality({y \in S : y > r}) < n
    BY <1>5, <1>6, <2>6
  <2>8. m <= r
    BY <1>3, <2>3, <2>7
  <2> QED
    BY <1>5, <2>3, <2>8
<1>7. m <= t - n + 1 \/ \A x \in S : m <= x
  BY <1>6
<1> QED
  BY <1>7

\* Bars are of the past, and so are candles, of which there are not more than bars.
LEMMA CandlesAreFew ==
  ASSUME TablesOK, MarketOK, NEW p \in Pairs
  PROVE  /\ m1[p] \subseteq Nat /\ Candles(p) \subseteq 0 .. clock /\ Finalized(p) \subseteq 0 .. clock
         /\ clock \in Nat
<1>1. clock \in Nat /\ m1[p] \subseteq 0 .. clock - 1
  BY DEF TablesOK, MarketOK
<1>2. Sub \in Nat /\ Sub > 0
  BY IndicatorsAssumption
<1>3. ASSUME NEW x \in m1[p] PROVE x \div Sub \in 0 .. clock
  <2>1. x \in Nat /\ x < clock
    BY <1>1
  <2>2. x \div Sub \in Nat /\ x \div Sub <= x
    BY <1>2, <2>1
  <2> QED
    BY <1>1, <2>1, <2>2
<1>4. Candles(p) \subseteq 0 .. clock
  BY <1>3 DEF Candles
<1> QED
  BY <1>1, <1>4 DEF Finalized

\* A candle before a finalized one is finalized.
LEMMA FinalizedBefore ==
  ASSUME TablesOK, MarketOK, NEW p \in Pairs, NEW c \in Finalized(p), NEW t \in Candles(p), t <= c
  PROVE  t \in Finalized(p)
<1>1. t \in Int /\ c \in Int /\ c * Sub <= clock - Offset /\ clock \in Int
  BY CandlesAreFew DEF Finalized
<1>2. Sub \in Nat /\ Offset \in Nat
  BY IndicatorsAssumption
<1>3. t * Sub <= c * Sub
  <2>1. CASE t = c
    BY <1>1, <1>2, <2>1
  <2>2. CASE t < c
    <3>1. t * Sub + Sub <= c * Sub
      BY <1>1, <2>2, LaterCandle
    <3>2. t * Sub \in Int /\ c * Sub \in Int
      BY <1>1, <1>2
    <3> QED
      BY <1>2, <3>1, <3>2
  <2> QED
    BY <1>1, <2>1, <2>2
<1>4. t * Sub \in Int /\ c * Sub \in Int
  BY <1>1, <1>2
<1>5. t * Sub <= clock - Offset
  BY <1>1, <1>2, <1>3, <1>4
<1> QED
  BY <1>5 DEF Finalized

\* The market only adds bars, and none that belongs to a candle before a finalized one.
LEMMA NewBars ==
  ASSUME TablesOK, MarketOK, Market, NEW p \in Pairs
  PROVE  /\ m1[p] \subseteq m1'[p]
         /\ \A x \in m1'[p] : x \notin m1[p] => x \in Nat /\ clock - Offset <= x
         /\ clock' \in {clock, clock + 1} /\ clock \in Nat
         /\ Finalized(p) \subseteq Finalized(p)'
         /\ \A c \in Nat : c * Sub <= clock - Offset => \A t :
              t < c => Ticks(p, t)' = Ticks(p, t) /\ (t \in Candles(p)' => t \in Candles(p))
         /\ \A c \in Finalized(p) : c \in Nat /\ c * Sub <= clock - Offset
<1>1. clock \in Nat /\ MaxDelay \in Nat /\ Offset \in Nat /\ MaxDelay <= Offset /\ Sub \in Nat
  BY IndicatorsAssumption DEF TablesOK
<1>2. m1[p] \subseteq m1'[p] /\ clock' \in {clock, clock + 1}
  BY DEF Market, TickEnds, BarArrives, TablesOK
<1>3. ASSUME NEW x \in m1'[p], x \notin m1[p] PROVE x \in Nat /\ clock - Offset <= x
  <2>1. CASE TickEnds
    <3>1. x = clock
      BY <1>3, <2>1 DEF TickEnds, TablesOK
    <3> QED
      BY <1>1, <3>1
  <2>2. ASSUME NEW q \in Pairs, BarArrives(q) PROVE x \in Nat /\ clock - Offset <= x
    <3>1. x \in due[p]
      BY <1>3, <2>2 DEF BarArrives, TablesOK
    <3>2. x \in 0 .. clock - 1 /\ clock <= x + MaxDelay
      BY <3>1 DEF MarketOK
    <3> QED
      BY <1>1, <3>2
  <2> QED
    BY <2>1, <2>2 DEF Market
<1>4. Candles(p) \subseteq Candles(p)'
  BY <1>2 DEF Candles
<1>5. Finalized(p) \subseteq Finalized(p)'
  <2> SUFFICES ASSUME NEW c \in Finalized(p) PROVE c \in Finalized(p)'
    OBVIOUS
  <2>1. c \in Candles(p)' /\ c * Sub <= clock - Offset /\ c \in Int
    BY <1>4, CandlesAreFew DEF Finalized
  <2>2. PICK k \in Int : k = c * Sub
    BY <1>1, <2>1
  <2>3. k <= clock - Offset
    BY <2>1, <2>2
  <2>4. k <= clock' - Offset
    BY <1>1, <1>2, <2>2, <2>3
  <2> QED
    BY <2>1, <2>2, <2>4 DEF Finalized
<1>6. ASSUME NEW c \in Nat, c * Sub <= clock - Offset, NEW t, t < c, NEW x \in m1'[p], x \div Sub = t
      PROVE  x \in m1[p]
  <2>1. SUFFICES ASSUME x \notin m1[p] PROVE FALSE
    OBVIOUS
  <2>2. x \in Nat /\ clock - Offset <= x
    BY <1>3, <2>1
  <2>3. t \in Nat /\ x < t * Sub + Sub
    BY <1>6, <2>2, CandleOfBar
  <2>4. c \in Int /\ c * Sub <= clock - Offset
    BY <1>6
  <2>5. t * Sub + Sub <= c * Sub
    BY <1>6, <2>3, <2>4, LaterCandle
  <2>6. t * Sub \in Int /\ c * Sub \in Int
    BY <1>1, <2>3, <2>4
  <2> QED
    BY <1>1, <2>2, <2>3, <2>4, <2>5, <2>6
<1>7. ASSUME NEW c \in Nat, c * Sub <= clock - Offset, NEW t, t < c
      PROVE  Ticks(p, t)' = Ticks(p, t) /\ (t \in Candles(p)' => t \in Candles(p))
  BY <1>2, <1>6, <1>7 DEF Ticks, Candles
<1>8. \A c \in Finalized(p) : c \in Nat /\ c * Sub <= clock - Offset
  BY CandlesAreFew DEF Finalized
<1> QED
  BY <1>1, <1>2, <1>3, <1>5, <1>7, <1>8

\* The latest candle is the newest one that is finalized.
LEMMA LatestOfAll ==
  ASSUME TablesOK, MarketOK, NEW p \in Pairs, NEW latest,
         latest = _get_latest_candle_time(p), latest # NoTime
  PROVE  latest \in Finalized(p) /\ \A c \in Finalized(p) : c <= latest
<1>1. Finalized(p) # {} /\ latest = Max(Finalized(p))
  BY DEF _get_latest_candle_time
<1>2. /\ clock \in Int /\ Finalized(p) \subseteq Int /\ \A x \in Finalized(p) : x <= clock
  BY CandlesAreFew
<1> QED
  BY <1>1, <1>2, MaxOfSet

\* What a transaction computes on the way to the watermark: finalized candles, not too many, that
\* follow the watermark or each other without a hole; nothing when another one is ahead.
LEMMA CandidatesFollow ==
  ASSUME TablesOK, MarketOK, WatermarksOK, RowsReach, NEW p \in Pairs, NEW latest \in Finalized(p),
         NEW began \in Nat, began <= clock, clock <= began + Timeout,
         watermarks[p].time > latest =>
           watermarks[p].updated \in Nat /\ watermarks[p].updated >= began,
         NEW C, C = CandidateTimes(p, latest)
  PROVE  /\ C \subseteq Finalized(p) /\ \A c \in C : c <= latest
         /\ C # {} => watermarks[p].time <= latest
         /\ \A c, d \in C : \A t \in Candles(p) : d <= t /\ t < c => t \in C
         /\ watermarks[p].time # NoTime =>
              \A c \in C : \A t \in Candles(p) : watermarks[p].time <= t /\ t < c => t \in C
         /\ IsFiniteSet(C) /\ Cardinality(C) <= max_new_bars_per_cycle + safety_backfill_bars
<1> DEFINE mark == WatermarkOf(p, latest)
           wm == watermarks[p].time
           N == max_new_bars_per_cycle
           B == safety_backfill_bars
           Good == /\ C \subseteq Finalized(p) /\ \A c \in C : c <= latest
                   /\ C # {} => wm <= latest
                   /\ \A c, d \in C : \A t \in Candles(p) : d <= t /\ t < c => t \in C
                   /\ wm # NoTime => \A c \in C : \A t \in Candles(p) : wm <= t /\ t < c => t \in C
                   /\ IsFiniteSet(C) /\ Cardinality(C) <= N + B
<1> SUFFICES Good
  OBVIOUS
<1>1. /\ N \in Nat /\ B \in Nat /\ B >= 1 /\ N >= 1 /\ {ForceAfter, Timeout} \subseteq Nat
      /\ ForceAfter = 0 \/ Timeout < ForceAfter
  BY IndicatorsAssumption
<1>2. /\ Candles(p) \subseteq 0 .. clock /\ Finalized(p) \subseteq 0 .. clock /\ clock \in Nat
      /\ latest \in 0 .. clock /\ latest \in Int /\ clock \in Int /\ 0 \in Int
  BY CandlesAreFew
<1>3. wm \in Int
  BY <1>2 DEF WatermarksOK, NoTime
\* What holds of the oldest candles after some bound, if the bound is below the watermark.
<1>4. ASSUME NEW lower \in Int, NEW upper \in Int, NEW n \in Nat, upper <= latest, n <= N + B,
             C = _fetch_candle_times_since(p, lower, upper, n),
             C # {} => wm <= latest, wm = NoTime \/ lower < wm
      PROVE  Good
  <2> DEFINE S == {t \in Candles(p) : t > lower /\ t <= upper}
  <2>1. C = Oldest(n, S)
    BY <1>4 DEF _fetch_candle_times_since
  <2>2. S \subseteq 0 .. clock /\ \A c \in S : c \in Candles(p) /\ c \in Int /\ c > lower /\ c <= upper
    BY <1>2
  <2>3. ASSUME NEW t \in Candles(p), t > lower, t <= upper PROVE t \in S
    BY <2>3
  <2> HIDE DEF S
  <2>4. /\ C \subseteq S /\ \A c \in C : \A t \in S : t <= c => t \in C
        /\ IsFiniteSet(C) /\ Cardinality(C) <= n
    <3>1. S \subseteq 0 .. clock /\ 0 \in Int /\ clock \in Int /\ n \in Nat
      BY <1>2, <2>2
    <3>2. /\ Oldest(n, S) \subseteq S
          /\ \A c \in Oldest(n, S) : \A t \in S : t <= c => t \in Oldest(n, S)
          /\ IsFiniteSet(Oldest(n, S)) /\ Cardinality(Oldest(n, S)) <= n
      BY ONLY <3>1, OldestOnes
    <3> QED
      BY <2>1, <3>2
  <2>5. \A c \in C : c \in Int /\ c > lower /\ c <= upper /\ c <= latest /\ c \in Candles(p)
    <3> SUFFICES ASSUME NEW c \in C
                 PROVE  c \in Int /\ c > lower /\ c <= upper /\ c <= latest /\ c \in Candles(p)
      OBVIOUS
    <3>1. c \in Candles(p) /\ c \in Int /\ c > lower /\ c <= upper
      BY <2>2, <2>4
    <3>2. latest \in Int /\ upper <= latest
      BY <1>2, <1>4
    <3> QED
      BY <3>1, <3>2
  <2>6. C \subseteq Finalized(p)
    BY <2>5, FinalizedBefore
  <2>7. ASSUME NEW c \in C, NEW t \in Candles(p), t > lower, t < c PROVE t \in C
    <3>1. t \in Int /\ t <= upper /\ t <= c
      BY <1>2, <1>4, <2>5, <2>7
    <3>2. t \in S
      BY <2>3, <2>7, <3>1
    <3> QED
      BY <2>4, <2>7, <3>1, <3>2
  <2>8. ASSUME NEW c \in C, NEW d \in C, NEW t \in Candles(p), d <= t, t < c PROVE t \in C
    <3>1. t \in Int /\ d \in Int /\ d > lower
      BY <1>2, <2>5
    <3>2. t > lower
      BY <2>8, <3>1
    <3> QED
      BY <2>7, <2>8, <3>2
  <2>9. ASSUME wm # NoTime, NEW c \in C, NEW t \in Candles(p), wm <= t, t < c PROVE t \in C
    <3>1. t \in Int /\ lower < wm
      BY <1>2, <1>4, <2>9
    <3>2. t > lower
      BY <1>3, <2>9, <3>1
    <3> QED
      BY <2>7, <2>9, <3>2
  <2>10. Cardinality(C) <= N + B
    <3>1. Cardinality(C) \in Nat
      BY <2>4, FS_CardinalityType
    <3> QED
      BY <1>1, <1>4, <2>4, <3>1
  <2> QED
    BY <1>4, <2>4, <2>5, <2>6, <2>8, <2>9, <2>10
\* Nothing new and nothing forced.
<1>5. ASSUME C = {}
      PROVE  Good
  BY <1>1, <1>5, FS_EmptySet
<1>6. /\ mark.time = NoTime => wm = NoTime
      /\ wm # NoTime => mark = watermarks[p]
      /\ wm = NoTime => mark.updated = NoTime
  BY DEF WatermarkOf, NoWatermark
<1>7. mark.time \in Int
  <2>1. CASE wm # NoTime
    BY <1>3, <1>6, <2>1
  <2>2. CASE wm = NoTime
    <3>1. mark.time = _get_latest_indicator_time(p, latest)
      BY <2>2 DEF WatermarkOf, NoWatermark
    <3> DEFINE times == {t \in DOMAIN rows[p] : t <= latest}
    <3>2. times \subseteq Int /\ \A t \in times : t <= latest
      BY DEF RowsReach, Reaches
    <3>3. CASE times = {}
      BY <3>1, <3>3 DEF _get_latest_indicator_time, NoTime
    <3>4. CASE times # {}
      <4> HIDE DEF times
      <4>1. Max(times) \in times
        BY <1>2, <3>2, <3>4, MaxOfSet
      <4>2. mark.time = Max(times)
        BY <3>1, <3>4 DEF _get_latest_indicator_time, times
      <4> QED
        BY <3>2, <4>1, <4>2
    <3> QED
      BY <3>3, <3>4
  <2> QED
    BY <2>1, <2>2
<1> DEFINE new == _fetch_candle_times_since(p, mark.time, latest, N)
           overlap == mark.time - B
           forced == ForceAfter > 0 /\ mark.updated # NoTime /\ clock - mark.updated >= ForceAfter
<1>8. C = IF mark.time = NoTime THEN _fetch_candle_times_since(p, latest - N, latest, N)
          ELSE IF new # {} THEN _fetch_candle_times_since(p, overlap, Max(new), N + B)
          ELSE IF forced THEN _fetch_candle_times_since(p, overlap, mark.time, B)
          ELSE {}
  BY DEF CandidateTimes
<1>9. new \subseteq Int /\ \A c \in new : mark.time < c /\ c <= latest
  <2>1. new \subseteq {t \in Candles(p) : t > mark.time /\ t <= latest}
    BY DEF _fetch_candle_times_since, Oldest
  <2> QED
    BY <1>2, <1>7, <2>1
<1> HIDE DEF mark, new, Good
<1>10. CASE mark.time = NoTime
  <2>1. C = _fetch_candle_times_since(p, latest - N, latest, N) /\ wm = NoTime
    BY <1>6, <1>8, <1>10
  <2>2. latest - N \in Int /\ latest \in Int /\ NoTime <= latest /\ latest <= latest /\ N <= N + B
    BY <1>1, <1>2 DEF NoTime
  <2> HIDE DEF N, B
  <2> QED
    BY <1>1, <1>4, <2>1, <2>2
<1>11. CASE mark.time # NoTime /\ new # {}
  <2>1. C = _fetch_candle_times_since(p, overlap, Max(new), N + B)
    BY <1>8, <1>11
  <2>2. Max(new) \in new
    BY <1>2, <1>9, <1>11, MaxOfSet
  <2>3. PICK top \in new : top = Max(new)
    BY <2>2
  <2>4. top \in Int /\ top <= latest /\ mark.time < top
    BY <1>9
  <2>5. mark.time < latest
    BY <1>2, <1>7, <2>4
  <2>6. overlap \in Int /\ overlap < mark.time
    BY <1>1, <1>7
  <2>7. CASE wm = NoTime
    <3>1. wm <= latest
      BY <1>2, <2>7 DEF NoTime
    <3> HIDE DEF overlap, N, B, wm
    <3> QED
      BY <1>1, <1>4, <2>1, <2>3, <2>4, <2>6, <2>7, <3>1
  <2>8. CASE wm # NoTime
    <3>1. mark.time = wm
      BY <1>6, <2>8
    <3>2. wm <= latest /\ overlap < wm
      BY <1>3, <1>2, <2>5, <2>6, <3>1
    <3> HIDE DEF overlap, N, B, wm
    <3> QED
      BY <1>1, <1>4, <2>1, <2>3, <2>4, <2>6, <3>2
  <2> QED
    BY <2>7, <2>8
<1>12. CASE mark.time # NoTime /\ new = {} /\ forced
  <2>1. C = _fetch_candle_times_since(p, overlap, mark.time, B)
    BY <1>8, <1>12
  <2>2. mark = watermarks[p] /\ mark.time = wm /\ wm # NoTime
    BY <1>6, <1>12
  <2>3. wm <= latest
    <3> SUFFICES ASSUME wm > latest PROVE FALSE
      BY <1>2, <1>3
    <3>1. mark.updated \in Nat /\ mark.updated >= began
      BY <2>2
    <3>2. clock - mark.updated >= ForceAfter /\ ForceAfter > 0
      BY <1>12
    <3> QED
      BY <1>1, <1>2, <3>1, <3>2
  <2>4. overlap \in Int /\ overlap < wm /\ mark.time \in Int /\ mark.time <= latest
    BY <1>1, <1>7, <2>2, <2>3
  <2>5. B \in Nat /\ B <= N + B
    BY <1>1
  <2> HIDE DEF overlap, N, B
  <2> QED
    BY <1>4, <2>1, <2>3, <2>4, <2>5
<1>13. CASE mark.time # NoTime /\ new = {} /\ ~forced
  <2>1. C = {}
    BY <1>8, <1>13
  <2> QED
    BY <1>5, <2>1
<1> QED
  BY <1>10, <1>11, <1>12, <1>13

----------------------------------------------------------------------------
\* What a transaction computes.

\* From a history that has the candle of a time, and nothing but its like, the indicators are of
\* that candle, and the history reaches back far enough or to its first candle.
LEMMA SnapshotOf ==
  ASSUME NEW p, NEW H, NEW a \in Int, NEW t \in H, \A x \in H : x \in Int /\ a <= x
  PROVE  LET row == _calculate_snapshot_at_time(p, H, t)
         IN  /\ row.m1 = Ticks(p, t)
             /\ row.from \in H /\ row.from <= t
             /\ row.from <= t - lookback_bars + 1 \/ \A x \in H : x <= t => row.from <= x
<1> DEFINE S == {x \in H : x <= t}
           W == Newest(lookback_bars, S)
           row == _calculate_snapshot_at_time(p, H, t)
<1>1. lookback_bars \in Nat \ {0} /\ t \in Int
  BY IndicatorsAssumption
<1>2. S \subseteq a .. t /\ t \in S
  <2>1. ASSUME NEW x \in H, x <= t PROVE x \in a .. t
    BY <1>1, <2>1
  <2>2. t <= t
    BY <1>1
  <2> QED
    BY <2>1, <2>2
<1>3. row = [m1 |-> Ticks(p, Max(W)), from |-> Min(W)]
  BY DEF _calculate_snapshot_at_time
<1>4. \A x \in S : x \in H /\ x \in Int /\ a <= x /\ x <= t
  OBVIOUS
<1>5. \A x \in H : x <= t => x \in S
  OBVIOUS
<1> HIDE DEF S, row
<1>6. /\ W \subseteq S /\ t \in W
      /\ \A m \in W : (\A x \in W : m <= x) => m <= t - lookback_bars + 1 \/ \A x \in S : m <= x
  BY <1>1, <1>2, NewestOnes
<1> HIDE DEF W
<1>7. W \subseteq Int /\ W # {} /\ (\A x \in W : x <= t) /\ \A x \in W : a <= x
  BY <1>4, <1>6
<1>8. Max(W) \in W /\ \A x \in W : x <= Max(W)
  BY <1>1, <1>7, MaxOfSet
<1>9. Max(W) = t
  <2>1. PICK top \in W : top = Max(W)
    BY <1>8
  <2>2. top \in Int /\ top <= t /\ t <= top
    BY <1>6, <1>7, <1>8, <2>1
  <2> QED
    BY <1>1, <2>1, <2>2
<1>10. Min(W) \in W /\ \A x \in W : Min(W) <= x
  BY <1>7, MinOfSet
<1>11. PICK m \in W : m = Min(W)
  BY <1>10
<1>12. m <= t - lookback_bars + 1 \/ \A x \in S : m <= x
  BY <1>6, <1>10, <1>11
<1>13. /\ row.m1 = Ticks(p, t) /\ row.from = m
  BY <1>3, <1>9, <1>11
<1>14. m \in H /\ m <= t
  BY <1>4, <1>6
<1> QED
  BY <1>5, <1>12, <1>13, <1>14 DEF row

\* A row on the way to the watermark.
LEMMA BacklogRow ==
  ASSUME TablesOK, MarketOK, NEW p \in Pairs, NEW latest \in Finalized(p),
         NEW C, C \subseteq Finalized(p), \A c \in C : c <= latest,
         \A c, d \in C : \A t \in Candles(p) : d <= t /\ t < c => t \in C,
         IsFiniteSet(C), Cardinality(C) <= max_new_bars_per_cycle + safety_backfill_bars,
         NEW H, H = BacklogHistory(p, C, latest), NEW t \in C
  PROVE  /\ t \in H
         /\ _calculate_snapshot_at_time(p, H, t).m1 = Ticks(p, t)
         /\ Reaches(p, _calculate_snapshot_at_time(p, H, t), t)
<1> DEFINE B == safety_backfill_bars
           N == max_new_bars_per_cycle
           K == lookback_bars + N + B + 32
           low == Min(C)
           lower == low - (lookback_bars + B + 2)
           S == {x \in Finalized(p) : x >= lower /\ x <= latest}
<1>1. B \in 1 .. 30 /\ N \in Nat /\ lookback_bars \in Nat /\ K \in Nat
  BY IndicatorsAssumption
<1>2. Candles(p) \subseteq 0 .. clock /\ Finalized(p) \subseteq 0 .. clock /\ clock \in Int /\ 0 \in Int
  BY CandlesAreFew
<1>3. \A x \in Finalized(p) : x \in Candles(p) /\ x \in Nat
  BY <1>2 DEF Finalized
<1>4. low \in C /\ \A c \in C : low <= c
  <2>1. C \subseteq Int /\ C # {} /\ \A c \in C : 0 <= c
    BY <1>3
  <2> QED
    BY <1>2, <2>1, MinOfSet
<1>5. low \in Nat /\ low \in Candles(p) /\ t \in Nat /\ t <= latest /\ low <= t /\ latest \in Nat
  BY <1>3, <1>4
<1>6. H = Oldest(K, S)
  BY DEF BacklogHistory, _fetch_candlesticks_window
<1> HIDE DEF low
<1>7. lower \in Int /\ lower <= low - lookback_bars
  BY <1>1, <1>5
<1>8. S \subseteq 0 .. clock
  BY <1>2
<1>9. H \subseteq S /\ \A c \in H : \A x \in S : x <= c => x \in H
  <2> HIDE DEF S, K
  <2>1. S \subseteq 0 .. clock /\ 0 \in Int /\ clock \in Int /\ K \in Nat
    BY <1>1, <1>2, <1>8
  <2>2. Oldest(K, S) \subseteq S /\ \A c \in Oldest(K, S) : \A x \in S : x <= c => x \in Oldest(K, S)
    BY ONLY <2>1, OldestOnes
  <2> QED
    BY <1>6, <2>2
\* No more candles come before one of them than the window may have.
<1>10. t \in H
  <2> DEFINE T == {x \in S : x < t}
  <2> DEFINE D == C \ {t}
  <2>1. T \subseteq (lower .. low - 1) \cup D
    <3> SUFFICES ASSUME NEW x \in T, x \notin D PROVE x \in lower .. low - 1
      OBVIOUS
    <3>1. x \in Candles(p) /\ x \in Nat /\ x >= lower /\ x < t /\ x \notin C
      BY <1>3, <1>5
    <3>2. ~(low <= x)
      BY <1>4, <3>1
    <3> QED
      BY <1>5, <1>7, <3>1, <3>2
  <2>2. IsFiniteSet(lower .. low - 1) /\ Cardinality(lower .. low - 1) = lookback_bars + B + 2
    <3>1. low - 1 \in Int /\ ~(lower > low - 1) /\ low - 1 - lower + 1 = lookback_bars + B + 2
      BY <1>1, <1>5
    <3> HIDE DEF lower
    <3> QED
      BY <1>7, <3>1, FS_Interval
  <2> DEFINE I == lower .. low - 1
  <2>3. IsFiniteSet(D) /\ Cardinality(D) = Cardinality(C) - 1
    BY FS_RemoveElement
  <2> HIDE DEF I, D
  <2>4. IsFiniteSet(I) /\ Cardinality(I) = lookback_bars + B + 2
    BY <2>2 DEF I
  <2>5. /\ IsFiniteSet(I \cup D) /\ Cardinality(I \cup D) = Cardinality(I) + Cardinality(D) - Cardinality(I \cap D)
        /\ IsFiniteSet(I \cap D)
    BY <2>3, <2>4, FS_Union, FS_Intersection
  <2>6. /\ Cardinality(D) \in Nat /\ Cardinality(I \cap D) \in Nat /\ Cardinality(I \cup D) \in Nat
        /\ Cardinality(C) \in Nat
    BY <2>3, <2>5, FS_CardinalityType
  <2> HIDE DEF T
  <2>7. T \subseteq I \cup D
    BY <2>1 DEF I
  <2>8. IsFiniteSet(T) /\ Cardinality(T) <= Cardinality(I \cup D)
    BY <2>5, <2>7, FS_Subset
  <2>11. Cardinality(T) \in Nat
    BY <2>8, FS_CardinalityType
  <2>9. Cardinality(T) < K
    <3>1. Cardinality(C) <= N + B
      OBVIOUS
    <3>2. Cardinality(I \cup D) <= lookback_bars + B + 2 + (N + B - 1)
      BY <1>1, <2>3, <2>4, <2>5, <2>6, <3>1
    <3> HIDE DEF N, B
    <3>3. lookback_bars + B + 2 + (N + B - 1) < lookback_bars + N + B + 32
      BY <1>1
    <3> QED
      BY <1>1, <2>6, <2>8, <2>11, <3>2, <3>3
  <2>10. t \in S
    <3>1. t >= lower
      BY <1>1, <1>5, <1>7
    <3> QED
      BY <1>5, <3>1
  <2> HIDE DEF S
  <2> QED
    BY <1>6, <2>9, <2>10 DEF Oldest, T
<1>11. \A x \in H : x \in Int /\ 0 <= x
  BY <1>2, <1>8, <1>9
<1> DEFINE row == _calculate_snapshot_at_time(p, H, t)
<1>12. /\ row.m1 = Ticks(p, t) /\ row.from \in H /\ row.from <= t
       /\ row.from <= t - lookback_bars + 1 \/ \A x \in H : x <= t => row.from <= x
  BY <1>2, <1>10, <1>11, SnapshotOf
<1> HIDE DEF row
<1>13. ASSUME NEW x \in Candles(p), x > t - lookback_bars, x <= t PROVE x \in H
  <2>1. t \in Finalized(p) /\ x \in Nat
    BY <1>2
  <2>2. x \in Finalized(p)
    BY <1>13, <2>1, FinalizedBefore
  <2>3. x >= lower /\ x <= latest
    BY <1>1, <1>5, <1>7, <1>13, <2>1
  <2> QED
    BY <1>9, <1>10, <1>13, <2>2, <2>3
<1>14. row.from \in 0 .. t
  BY <1>5, <1>11, <1>12
<1>15. t * Sub <= clock - Offset
  BY DEF Finalized
<1>16. Reaches(p, row, t)
  BY <1>5, <1>12, <1>13, <1>14, <1>15 DEF Reaches
<1> QED
  BY <1>10, <1>12, <1>16 DEF row

\* A row of the newest candle or of the one that is forming.
LEMMA RealtimeRow ==
  ASSUME TablesOK, MarketOK, NEW p \in Pairs, NEW latest \in Finalized(p),
         NEW H, H = RealtimeHistory(p, latest), NEW t \in {latest} \cup FormingTimes(p, latest)
  PROVE  /\ t \in H
         /\ _calculate_snapshot_at_time(p, H, t).m1 = Ticks(p, t)
         /\ Reaches(p, _calculate_snapshot_at_time(p, H, t), t)
<1> DEFINE n == lookback_bars + safety_backfill_bars + max_new_bars_per_cycle + 32
           S == {x \in Finalized(p) : x <= latest}
           R == Newest(n, S)
<1>1. n \in Nat \ {0} /\ lookback_bars \in Nat /\ lookback_bars <= n /\ Sub \in Nat /\ Sub > 0
  BY IndicatorsAssumption
<1>2. Candles(p) \subseteq 0 .. clock /\ Finalized(p) \subseteq 0 .. clock /\ clock \in Int /\ 0 \in Int
      /\ m1[p] \subseteq Nat /\ clock \in Nat
  BY CandlesAreFew
<1>3. latest \in Nat
  BY <1>2
<1>4. \A x \in FormingTimes(p, latest) : x \in Candles(p) /\ x \in Nat /\ latest < x
  <2> DEFINE later == {x \in m1[p] : x > latest * Sub}
             G == {x \div Sub : x \in later}
  <2>1. CASE later = {}
    BY <2>1 DEF FormingTimes
  <2>2. CASE later # {}
    <3>1. FormingTimes(p, latest) = {Max(G)} \ 0 .. latest
      BY <2>2 DEF FormingTimes
    <3>2. G \subseteq Candles(p) /\ G # {}
      BY <2>2 DEF Candles
    <3> HIDE DEF G, later
    <3>3. G \subseteq Int /\ \A x \in G : x <= clock
      BY <1>2, <3>2
    <3>4. Max(G) \in G
      BY <1>2, <3>2, <3>3, MaxOfSet
    <3> QED
      BY <1>2, <1>3, <3>1, <3>2, <3>4
  <2> QED
    BY <2>1, <2>2
<1>5. H = R \cup FormingTimes(p, latest)
  BY DEF RealtimeHistory, fetch_recent_candlesticks
<1>6. S \subseteq 0 .. latest /\ latest \in S
  BY <1>2, <1>3
<1>7. 0 \in S
  <2>1. 0 \in m1[p] /\ 0 \div Sub = 0
    BY <1>1 DEF MarketOK
  <2>2. 0 \in Candles(p)
    BY <2>1 DEF Candles
  <2> QED
    BY <1>3, <2>2, FinalizedBefore
<1> HIDE DEF S, n
<1>8. /\ R \subseteq S /\ latest \in R
      /\ \A m \in R : (\A x \in R : m <= x) => m <= latest - n + 1 \/ \A x \in S : m <= x
  BY <1>1, <1>2, <1>6, NewestOnes
<1> HIDE DEF R
<1>17. PICK m \in R : \A x \in R : m <= x
  <2>1. R \subseteq Int /\ R # {} /\ \A x \in R : 0 <= x
    BY <1>6, <1>8
  <2> QED
    BY <1>2, <2>1, MinOfSet
<1>9. m <= latest - n + 1 \/ m <= 0
  BY <1>7, <1>8, <1>17
<1>10. m \in Nat /\ m <= latest /\ m \in H
  BY <1>3, <1>5, <1>6, <1>8
<1>11. \A x \in H : x \in Int /\ 0 <= x
  BY <1>4, <1>5, <1>6, <1>8
<1>12. t \in H /\ t \in Nat /\ latest <= t
  BY <1>3, <1>4, <1>5, <1>8
<1> DEFINE row == _calculate_snapshot_at_time(p, H, t)
<1>13. /\ row.m1 = Ticks(p, t) /\ row.from \in H /\ row.from <= t
       /\ row.from <= t - lookback_bars + 1 \/ \A x \in H : x <= t => row.from <= x
  <2>1. ASSUME NEW G, NEW s \in G, \A x \in G : x \in Int /\ 0 <= x
        PROVE  LET r == _calculate_snapshot_at_time(p, G, s)
               IN  /\ r.m1 = Ticks(p, s) /\ r.from \in G /\ r.from <= s
                   /\ r.from <= s - lookback_bars + 1 \/ \A x \in G : x <= s => r.from <= x
    BY <1>2, <2>1, SnapshotOf
  <2> QED
    BY <1>11, <1>12, <2>1
<1> HIDE DEF row
<1>14. row.from \in 0 .. t
  <2>1. PICK f \in H : f = row.from
    BY <1>13
  <2>2. f \in Int /\ 0 <= f /\ f <= t
    BY <1>11, <1>13, <2>1
  <2> QED
    BY <1>12, <2>1, <2>2
<1>15. row.from <= t - lookback_bars + 1 \/ row.from = 0
  <2>1. SUFFICES ASSUME row.from <= m PROVE row.from <= t - lookback_bars + 1 \/ row.from = 0
    <3>1. m <= t
      BY <1>3, <1>10, <1>12
    <3> QED
      BY <1>10, <1>13, <3>1
  <2> QED
    BY <1>1, <1>3, <1>9, <1>10, <1>12, <1>14, <2>1
<1>16. Reaches(p, row, t)
  BY <1>12, <1>14, <1>15 DEF Reaches
<1> QED
  BY <1>12, <1>13, <1>16 DEF row

\* Every row of a plan is of the whole of its candle as it is, and what leads to the watermark is
\* what was asked for.
LEMMA PlanOfCandles ==
  ASSUME TablesOK, MarketOK, NEW p \in Pairs, NEW latest \in Finalized(p),
         NEW C, C \subseteq Finalized(p), \A c \in C : c <= latest,
         \A c, d \in C : \A t \in Candles(p) : d <= t /\ t < c => t \in C,
         IsFiniteSet(C), Cardinality(C) <= max_new_bars_per_cycle + safety_backfill_bars,
         NEW H, H = BacklogHistory(p, C, latest), NEW R, R = RealtimeHistory(p, latest),
         NEW plan, plan = PlanOf(p, latest, C, H, R)
  PROVE  /\ plan.candidates = C /\ C \subseteq DOMAIN plan.rows
         /\ \A t \in DOMAIN plan.rows :
              plan.rows[t].m1 = Ticks(p, t) /\ Reaches(p, plan.rows[t], t)
<1> DEFINE T == {latest} \cup FormingTimes(p, latest)
           computed == Snapshots(p, C, H)
           realtime == Snapshots(p, T, R)
<1>1. /\ DOMAIN computed = {t \in C : \E x \in H : x <= t}
      /\ \A t \in DOMAIN computed : computed[t] = _calculate_snapshot_at_time(p, H, t)
  BY DEF Snapshots
<1>2. /\ DOMAIN realtime = {t \in T : \E x \in R : x <= t}
      /\ \A t \in DOMAIN realtime : realtime[t] = _calculate_snapshot_at_time(p, R, t)
  BY DEF Snapshots
<1>3. plan = [rows |-> Upserted(realtime, computed), candidates |-> DOMAIN computed]
  BY DEF PlanOf
<1>4. C \subseteq Int
  BY CandlesAreFew
<1>5. ASSUME NEW t \in C PROVE t \in H
  BY BacklogRow
<1>6. DOMAIN computed = C
  <2>1. ASSUME NEW t \in C PROVE \E x \in H : x <= t
    <3>1. t \in Int /\ t <= t
      BY <1>4
    <3> QED
      BY <1>5, <3>1
  <2> QED
    BY <1>1, <2>1
<1>7. ASSUME NEW t \in C
      PROVE  computed[t].m1 = Ticks(p, t) /\ Reaches(p, computed[t], t)
  <2>1. /\ _calculate_snapshot_at_time(p, H, t).m1 = Ticks(p, t)
        /\ Reaches(p, _calculate_snapshot_at_time(p, H, t), t)
    BY BacklogRow
  <2> QED
    BY <1>1, <1>6, <2>1
<1>8. ASSUME NEW t \in DOMAIN realtime
      PROVE  realtime[t].m1 = Ticks(p, t) /\ Reaches(p, realtime[t], t)
  <2>1. t \in T
    BY <1>2
  <2>2. /\ _calculate_snapshot_at_time(p, R, t).m1 = Ticks(p, t)
        /\ Reaches(p, _calculate_snapshot_at_time(p, R, t), t)
    BY <2>1, RealtimeRow
  <2> QED
    BY <1>2, <2>2
<1> HIDE DEF computed, realtime
<1>9. plan.rows = [t \in DOMAIN computed \cup DOMAIN realtime |->
                     IF t \in DOMAIN computed THEN computed[t] ELSE realtime[t]]
  BY <1>3 DEF Upserted
<1>10. /\ DOMAIN plan.rows = C \cup DOMAIN realtime
       /\ \A t \in C : plan.rows[t] = computed[t]
       /\ \A t \in DOMAIN realtime \ C : plan.rows[t] = realtime[t]
  BY <1>6, <1>9
<1>11. plan.candidates = C
  BY <1>3, <1>6
<1>12. ASSUME NEW t \in DOMAIN plan.rows
       PROVE  plan.rows[t].m1 = Ticks(p, t) /\ Reaches(p, plan.rows[t], t)
  <2>1. CASE t \in C
    BY <1>7, <1>10, <2>1
  <2>2. CASE t \in DOMAIN realtime \ C
    BY <1>8, <1>10, <2>2
  <2> QED
    BY <1>10, <2>1, <2>2
<1> QED
  BY <1>10, <1>11, <1>12

----------------------------------------------------------------------------
\* The bars that rows know.

\* An updater at work on a pair has one, and goes on to the next.
LEMMA PairAtWork ==
  ASSUME UpdatersOK, NEW u \in Updaters, up[u].pairs # <<>>
  PROVE  /\ Head(up[u].pairs) \in Pairs /\ NextPairIs(u).pc = "pairs"
         /\ NextPairIs(u).pairs \in Seq(Pairs) /\ DOMAIN NextPairIs(u) = DOMAIN Idle
BY DEF UpdatersOK, NextPairIs, Idle

\* A step of one updater that leaves it without a lock, and takes nothing from the others.
LEMMA Unburdened ==
  ASSUME BarsInv, NEW u \in Updaters, NEW r, up' = [up EXCEPT ![u] = r],
         DOMAIN r = DOMAIN Idle, r.pairs \in Seq(Pairs),
         r.pc \in {"idle", "pairs", "done"} \/ (r.pc = "lock" /\ r.pairs # <<>>),
         DOMAIN holder' = Pairs, \A p \in Pairs : holder[p] # u => holder'[p] = holder[p],
         UNCHANGED <<marketVars, rows>>
  PROVE  BarsInv'
<1>1. up'[u] = r /\ DOMAIN up' = Updaters /\ \A x \in Updaters \ {u} : up'[x] = up[x]
  BY DEF BarsInv, UpdatersOK
<1>2. UpdatersOK'
  BY <1>1 DEF BarsInv, UpdatersOK, Underway
<1>3. TablesOK'
  BY DEF BarsInv, TablesOK, marketVars
<1>4. PairIsLocked'
  BY <1>1, PairAtWork DEF BarsInv, UpdatersOK, Underway, PairIsLocked
<1>5. RowsAreOfBars' /\ PlanKeepsBars'
  BY <1>1 DEF BarsInv, RowsAreOfBars, PlanKeepsBars, Ticks, marketVars
<1> QED
  BY <1>2, <1>3, <1>4, <1>5 DEF BarsInv

\* New bars of M1 add to what rows may know.
LEMMA BarsCome ==
  ASSUME BarsInv, Market
  PROVE  BarsInv'
<1>1. /\ DOMAIN m1' = Pairs /\ DOMAIN due' = Pairs /\ clock' \in Nat
      /\ \A p \in Pairs : m1[p] \subseteq m1'[p]
      /\ UNCHANGED <<rows, holder, up>>
  BY DEF Market, TickEnds, BarArrives, BarsInv, TablesOK
<1>2. \A p \in Pairs : \A t : Ticks(p, t) \subseteq Ticks(p, t)'
  BY <1>1 DEF Ticks
<1>3. UpdatersOK' /\ TablesOK' /\ PairIsLocked'
  BY <1>1 DEF BarsInv, UpdatersOK, Underway, TablesOK, PairIsLocked
<1>4. RowsAreOfBars'
  BY <1>1, <1>2 DEF BarsInv, TablesOK, RowsAreOfBars
<1>5. PlanKeepsBars'
  BY <1>1, <1>2 DEF BarsInv, PlanKeepsBars
<1> QED
  BY <1>3, <1>4, <1>5 DEF BarsInv

\* Who gets the lock of a pair gets it from nobody.
LEMMA Locking ==
  ASSUME BarsInv, NEW u \in Updaters, _acquire_watermark_pair_lock(u)
  PROVE  BarsInv'
<1> DEFINE p == Head(up[u].pairs)
<1>1. p \in Pairs /\ up[u].pairs # <<>> /\ holder[p] = Nobody
  BY PairAtWork DEF BarsInv, UpdatersOK, Underway, _acquire_watermark_pair_lock
<1>2. /\ DOMAIN up' = Updaters /\ \A x \in Updaters \ {u} : up'[x] = up[x]
      /\ up'[u].pc = "compute" /\ up'[u].pairs = up[u].pairs /\ DOMAIN up'[u] = DOMAIN Idle
  BY DEF BarsInv, UpdatersOK, Underway, _acquire_watermark_pair_lock, Idle
<1>3. /\ DOMAIN holder' = Pairs /\ holder'[p] = u
      /\ \A q \in Pairs \ {p} : holder'[q] = holder[q]
      /\ UNCHANGED <<marketVars, tableVars>>
  BY <1>1 DEF BarsInv, TablesOK, _acquire_watermark_pair_lock
<1>4. UpdatersOK' /\ TablesOK'
  BY <1>1, <1>2, <1>3 DEF BarsInv, UpdatersOK, Underway, TablesOK, marketVars, tableVars
<1>5. PairIsLocked'
  BY <1>1, <1>2, <1>3, PairAtWork, IndicatorsAssumption DEF BarsInv, UpdatersOK, Underway, PairIsLocked
<1>6. RowsAreOfBars' /\ PlanKeepsBars'
  BY <1>2, <1>3 DEF BarsInv, RowsAreOfBars, PlanKeepsBars, Ticks, marketVars, tableVars
<1> QED
  BY <1>4, <1>5, <1>6 DEF BarsInv

\* What is computed: rows of the pair at work that know all that is there.
LEMMA Planning ==
  ASSUME RowsInv, NEW u \in Updaters, Compute(u)
  PROVE  \E p \in Pairs : \E plan :
           /\ p = Head(up[u].pairs) /\ up[u].pc = "compute"
           /\ up' = [up EXCEPT ![u].pc = "store", ![u].plan = plan]
           /\ UNCHANGED <<marketVars, tableVars, holder>>
           /\ plan.candidates \subseteq Finalized(p) /\ plan.candidates \subseteq DOMAIN plan.rows
           /\ \A c \in plan.candidates : watermarks[p].time <= up[u].latest /\ c <= up[u].latest
           /\ Follow(p, plan.candidates)
           /\ \A t \in DOMAIN plan.rows : plan.rows[t].m1 = Ticks(p, t) /\ Reaches(p, plan.rows[t], t)
<1> DEFINE p == Head(up[u].pairs)
           latest == up[u].latest
           C == CandidateTimes(p, latest)
           H == BacklogHistory(p, C, latest)
           R == RealtimeHistory(p, latest)
           plan == PlanOf(p, latest, C, H, R)
<1>1. p \in Pairs /\ Underway(u) /\ up[u].pc = "compute"
  BY PairAtWork DEF Compute, RowsInv, BarsInv, UpdatersOK, Underway
<1>2. /\ up' = [up EXCEPT ![u].pc = "store", ![u].plan = plan]
      /\ UNCHANGED <<marketVars, tableVars, holder>>
  BY DEF Compute
<1>3. TablesOK /\ MarketOK /\ WatermarksOK /\ RowsReach /\ TransactionsOK
  BY DEF RowsInv, BarsInv, MarksInv
<1> DEFINE began == up[u].began
<1>4. /\ latest \in Finalized(p) /\ began \in Nat /\ began <= clock /\ clock <= began + Timeout
      /\ watermarks[p].time > latest => watermarks[p].updated \in Nat /\ watermarks[p].updated >= began
  BY <1>1, <1>3 DEF TransactionsOK
<1> HIDE DEF p, latest, C, began
<1>5. /\ C \subseteq Finalized(p) /\ \A c \in C : c <= latest
      /\ C # {} => watermarks[p].time <= latest
      /\ \A c, d \in C : \A t \in Candles(p) : d <= t /\ t < c => t \in C
      /\ watermarks[p].time # NoTime =>
           \A c \in C : \A t \in Candles(p) : watermarks[p].time <= t /\ t < c => t \in C
      /\ IsFiniteSet(C) /\ Cardinality(C) <= max_new_bars_per_cycle + safety_backfill_bars
  BY <1>1, <1>3, <1>4, CandidatesFollow DEF C
<1>6. /\ plan.candidates = C /\ C \subseteq DOMAIN plan.rows
      /\ \A t \in DOMAIN plan.rows : plan.rows[t].m1 = Ticks(p, t) /\ Reaches(p, plan.rows[t], t)
  BY <1>1, <1>3, <1>4, <1>5, PlanOfCandles
<1> HIDE DEF plan
<1>7. Follow(p, C)
  BY <1>5 DEF Follow
<1> QED
  BY <1>1, <1>2, <1>5, <1>6, <1>7 DEF p, latest

\* What is computed is at least what is stored, of the same pair under its lock.
LEMMA Computing ==
  ASSUME RowsInv, NEW u \in Updaters, Compute(u)
  PROVE  BarsInv'
<1>0. PICK p \in Pairs : \E plan :
        /\ p = Head(up[u].pairs) /\ up[u].pc = "compute"
        /\ up' = [up EXCEPT ![u].pc = "store", ![u].plan = plan]
        /\ UNCHANGED <<marketVars, tableVars, holder>>
        /\ \A t \in DOMAIN plan.rows : plan.rows[t].m1 = Ticks(p, t)
  BY Planning
<1>1. PICK plan :
        /\ p = Head(up[u].pairs) /\ up[u].pc = "compute"
        /\ up' = [up EXCEPT ![u].pc = "store", ![u].plan = plan]
        /\ UNCHANGED <<marketVars, tableVars, holder>>
        /\ \A t \in DOMAIN plan.rows : plan.rows[t].m1 = Ticks(p, t)
  BY <1>0
<1>2. up[u].pairs # <<>> /\ BarsInv
  BY <1>1 DEF RowsInv, BarsInv, UpdatersOK, Underway
<1>4. /\ DOMAIN up' = Updaters /\ \A x \in Updaters \ {u} : up'[x] = up[x]
      /\ up'[u].pc = "store" /\ up'[u].pairs = up[u].pairs /\ DOMAIN up'[u] = DOMAIN Idle
      /\ up'[u].plan = plan
  BY <1>1, <1>2 DEF BarsInv, UpdatersOK, Idle
<1>5. UpdatersOK' /\ TablesOK' /\ PairIsLocked'
  BY <1>1, <1>2, <1>4 DEF BarsInv, UpdatersOK, TablesOK, PairIsLocked, Underway, marketVars, tableVars
<1>6. RowsAreOfBars'
  BY <1>1, <1>2 DEF BarsInv, RowsAreOfBars, Ticks, marketVars, tableVars
<1>7. PlanKeepsBars'
  <2>1. \A t \in DOMAIN plan.rows : /\ plan.rows[t].m1 \subseteq Ticks(p, t)
                                    /\ t \in DOMAIN rows[p] => rows[p][t].m1 \subseteq plan.rows[t].m1
    BY <1>1, <1>2 DEF BarsInv, RowsAreOfBars
  <2>2. \A q, t : Ticks(q, t)' = Ticks(q, t)
    BY <1>1 DEF Ticks, marketVars
  <2>3. rows' = rows
    BY <1>1 DEF tableVars
  <2>4. ASSUME NEW x \in Updaters \ {u}, up'[x].pc = "store", NEW q \in Pairs, q = Head(up'[x].pairs),
               NEW t \in DOMAIN up'[x].plan.rows
        PROVE  /\ up'[x].plan.rows[t].m1 \subseteq Ticks(q, t)'
               /\ t \in DOMAIN rows'[q] => rows'[q][t].m1 \subseteq up'[x].plan.rows[t].m1
    BY <1>2, <1>4, <2>2, <2>3, <2>4 DEF BarsInv, PlanKeepsBars
  <2>5. ASSUME NEW q \in Pairs, q = Head(up'[u].pairs), NEW t \in DOMAIN up'[u].plan.rows
        PROVE  /\ up'[u].plan.rows[t].m1 \subseteq Ticks(q, t)'
               /\ t \in DOMAIN rows'[q] => rows'[q][t].m1 \subseteq up'[u].plan.rows[t].m1
    BY <1>1, <1>4, <2>1, <2>2, <2>3, <2>5
  <2> QED
    BY <2>4, <2>5 DEF PlanKeepsBars
<1> QED
  BY <1>5, <1>6, <1>7 DEF BarsInv

\* A transaction that commits replaces rows of its pair by rows that know as much.
LEMMA Storing ==
  ASSUME BarsInv, NEW u \in Updaters, Store(u)
  PROVE  /\ BarsInv'
         /\ \A p \in Pairs : \A t \in DOMAIN rows[p] :
              t \in DOMAIN rows'[p] /\ rows[p][t].m1 \subseteq rows'[p][t].m1
<1> DEFINE p == Head(up[u].pairs)
           plan == up[u].plan.rows
<1>1. p \in Pairs /\ up[u].pairs # <<>> /\ up[u].pc = "store" /\ holder[p] = u
  BY PairAtWork DEF Store, BarsInv, UpdatersOK, Underway, PairIsLocked
<1>2. /\ DOMAIN rows' = Pairs /\ \A q \in Pairs \ {p} : rows'[q] = rows[q]
      /\ rows'[p] = [t \in DOMAIN plan \cup DOMAIN rows[p] |->
                       IF t \in DOMAIN plan THEN plan[t] ELSE rows[p][t]]
  BY <1>1 DEF Store, store_latest_indicators, Upserted, BarsInv, TablesOK
<1>3. /\ DOMAIN rows'[p] = DOMAIN plan \cup DOMAIN rows[p]
      /\ \A t \in DOMAIN plan : rows'[p][t] = plan[t]
      /\ \A t \in DOMAIN rows[p] \ DOMAIN plan : rows'[p][t] = rows[p][t]
  BY <1>2
<1>4. \A t \in DOMAIN plan : /\ plan[t].m1 \subseteq Ticks(p, t)
                             /\ t \in DOMAIN rows[p] => rows[p][t].m1 \subseteq plan[t].m1
  BY <1>1 DEF BarsInv, PlanKeepsBars
<1>5. /\ DOMAIN holder' = Pairs /\ \A q \in Pairs \ {p} : holder'[q] = holder[q]
      /\ UNCHANGED marketVars
  BY DEF Store, BarsInv, TablesOK
<1>6. /\ DOMAIN up' = Updaters /\ \A x \in Updaters \ {u} : up'[x] = up[x]
      /\ up'[u].pc = "pairs" /\ up'[u].pairs \in Seq(Pairs) /\ DOMAIN up'[u] = DOMAIN Idle
  BY <1>1, PairAtWork DEF Store, BarsInv, UpdatersOK, Underway
<1>7. UpdatersOK' /\ TablesOK'
  BY <1>2, <1>5, <1>6 DEF BarsInv, UpdatersOK, Underway, TablesOK, marketVars
\* Nobody else was about to store rows of the pair.
<1>8. \A x \in Updaters \ {u} : up[x].pc \in {"compute", "store"} =>
        Head(up[x].pairs) \in Pairs \ {p} /\ holder[Head(up[x].pairs)] = x
  BY <1>1, PairAtWork DEF BarsInv, UpdatersOK, Underway, PairIsLocked
<1>9. PairIsLocked'
  BY <1>5, <1>6, <1>8 DEF PairIsLocked
<1>10. RowsAreOfBars'
  <2>1. \A q, t : Ticks(q, t)' = Ticks(q, t)
    BY <1>5 DEF Ticks, marketVars
  <2>2. \A q \in Pairs \ {p} : \A t \in DOMAIN rows'[q] : rows'[q][t].m1 \subseteq Ticks(q, t)
    BY <1>2 DEF BarsInv, RowsAreOfBars
  <2>3. ASSUME NEW t \in DOMAIN rows'[p] PROVE rows'[p][t].m1 \subseteq Ticks(p, t)
    <3>1. CASE t \in DOMAIN plan
      BY <1>4, <1>3, <3>1
    <3>2. CASE t \in DOMAIN rows[p] \ DOMAIN plan
      BY <1>1, <1>3, <3>2 DEF BarsInv, RowsAreOfBars
    <3> QED
      BY <1>3, <2>3, <3>1, <3>2
  <2> QED
    BY <2>1, <2>2, <2>3 DEF RowsAreOfBars
<1>11. PlanKeepsBars'
  <2>1. ASSUME NEW x \in Updaters, up'[x].pc = "store", NEW q \in Pairs, q = Head(up'[x].pairs),
               NEW t \in DOMAIN up'[x].plan.rows
        PROVE  /\ up'[x].plan.rows[t].m1 \subseteq Ticks(q, t)
               /\ t \in DOMAIN rows'[q] => rows'[q][t].m1 \subseteq up'[x].plan.rows[t].m1
    <3>1. x # u /\ up'[x] = up[x]
      BY <1>6, <2>1
    <3>2. q # p /\ rows'[q] = rows[q]
      BY <1>2, <1>8, <2>1, <3>1
    <3> HIDE DEF p, plan
    <3> QED
      BY <2>1, <3>1, <3>2 DEF BarsInv, PlanKeepsBars
  <2>2. \A q, t : Ticks(q, t)' = Ticks(q, t)
    BY <1>5 DEF Ticks, marketVars
  <2> HIDE DEF p, plan
  <2> QED
    BY <2>1, <2>2 DEF PlanKeepsBars
<1>12. \A q \in Pairs : \A t \in DOMAIN rows[q] :
         t \in DOMAIN rows'[q] /\ rows[q][t].m1 \subseteq rows'[q][t].m1
  <2>1. ASSUME NEW t \in DOMAIN rows[p]
        PROVE  t \in DOMAIN rows'[p] /\ rows[p][t].m1 \subseteq rows'[p][t].m1
    <3>1. CASE t \in DOMAIN plan
      BY <1>4, <1>3, <2>1, <3>1
    <3>2. CASE t \notin DOMAIN plan
      BY <1>3, <2>1, <3>2
    <3> QED
      BY <3>1, <3>2
  <2> QED
    BY <1>2, <2>1
<1> QED
  BY <1>7, <1>9, <1>10, <1>11, <1>12 DEF BarsInv

\* Locks that a process gives up when it ends are its own.
LEMMA GivingUp ==
  ASSUME NEW u, holder' = Unlocked(u)
  PROVE  DOMAIN holder' = Pairs /\ \A p \in Pairs : holder[p] # u => holder'[p] = holder[p]
BY DEF Unlocked

----------------------------------------------------------------------------
\* What is below the watermark, and the history of rows.

\* An updater that is in no transaction, or goes on in the one it is in, leaves tables and marks.
LEMMA MarksApart ==
  ASSUME RowsInv, NEW u \in Updaters, NEW r, up' = [up EXCEPT ![u] = r],
         \/ r.pc \notin {"lock", "compute", "store"}
         \/ Underway(u) /\ r.pc \in {"lock", "compute"} /\ r.pairs = up[u].pairs
              /\ r.began = up[u].began /\ r.latest = up[u].latest,
         UNCHANGED <<marketVars, tableVars>>
  PROVE  MarksInv'
<1>1. up'[u] = r /\ \A x \in Updaters \ {u} : up'[x] = up[x]
  BY DEF RowsInv, BarsInv, UpdatersOK
<1>2. MarketOK' /\ WatermarksOK' /\ RowsReach' /\ ClosedBelowWatermark'
  BY DEF RowsInv, MarksInv, MarketOK, WatermarksOK, RowsReach, ClosedBelowWatermark, Reaches, Candles, Finalized,
         Ticks, marketVars, tableVars
<1>3. \A x \in Updaters : Underway(x)' =>
        Underway(x) /\ up'[x].pairs = up[x].pairs /\ up'[x].began = up[x].began /\ up'[x].latest = up[x].latest
  BY <1>1 DEF Underway
<1>4. \A p \in Pairs : Finalized(p)' = Finalized(p)
  BY DEF Finalized, Candles, marketVars
<1>5. TransactionsOK'
  BY <1>3, <1>4 DEF RowsInv, MarksInv, TransactionsOK, marketVars, tableVars
<1>6. \A x \in Updaters : up'[x].pc = "store" => up'[x] = up[x]
  BY <1>1
<1>7. /\ \A p \in Pairs : Candles(p)' = Candles(p) /\ \A t : Ticks(p, t)' = Ticks(p, t)
      /\ UNCHANGED <<clock, rows, watermarks>>
  BY DEF Candles, Ticks, marketVars, tableVars
<1>8. PlanIsSound'
  <2>1. PlanIsSound
    BY DEF RowsInv, MarksInv
  <2> QED
    BY <1>4, <1>6, <1>7, <2>1 DEF PlanIsSound, Follow, Reaches
<1> QED
  BY <1>2, <1>5, <1>8 DEF MarksInv

\* A transaction begins with the newest candle, so that no other one is ahead of it.
LEMMA MarksReadLatest ==
  ASSUME RowsInv, NEW u \in Updaters, ReadLatest(u)
  PROVE  MarksInv'
<1> DEFINE p == Head(up[u].pairs)
           latest == _get_latest_candle_time(p)
<1>1. CASE latest = NoTime
  <2> DEFINE r == NextPairIs(u)
  <2>1. up' = [up EXCEPT ![u] = r] /\ r.pc = "pairs" /\ UNCHANGED <<marketVars, tableVars>>
    BY <1>1, PairAtWork DEF ReadLatest, RowsInv, BarsInv
  <2> HIDE DEF r
  <2> QED
    BY <2>1, MarksApart
<1>2. CASE latest # NoTime
  <2>1. p \in Pairs /\ up[u].pc = "pairs"
    BY PairAtWork DEF ReadLatest, RowsInv, BarsInv
  <2>2. /\ up'[u].pc = "lock" /\ up'[u].pairs = up[u].pairs /\ up'[u].began = clock /\ up'[u].latest = latest
        /\ \A x \in Updaters \ {u} : up'[x] = up[x]
        /\ UNCHANGED <<marketVars, tableVars>>
    BY <1>2 DEF ReadLatest, RowsInv, BarsInv, UpdatersOK, Idle
  <2>3. latest \in Finalized(p) /\ \A c \in Finalized(p) : c <= latest
    BY <1>2, <2>1, LatestOfAll DEF RowsInv, MarksInv, BarsInv
  <2> HIDE DEF latest, p
  <2>4. MarketOK' /\ WatermarksOK' /\ RowsReach' /\ ClosedBelowWatermark'
    BY <2>2 DEF RowsInv, MarksInv, MarketOK, WatermarksOK, RowsReach, ClosedBelowWatermark, Reaches, Candles,
                Finalized, Ticks, marketVars, tableVars
  <2>5. \A q \in Pairs : Finalized(q)' = Finalized(q) /\ Candles(q)' = Candles(q) /\ \A t : Ticks(q, t)' = Ticks(q, t)
    BY <2>2 DEF Finalized, Candles, Ticks, marketVars
  <2>6. /\ clock \in Nat /\ Timeout \in Nat /\ latest \in Int /\ latest > NoTime
        /\ Finalized(p) \subseteq Nat
    BY <2>1, <2>3, CandlesAreFew, IndicatorsAssumption DEF RowsInv, MarksInv, BarsInv, NoTime
  <2>7. watermarks[p].time <= latest
    BY <2>1, <2>3, <2>6 DEF RowsInv, MarksInv, WatermarksOK, NoTime
  <2>8. TransactionsOK'
    <3> SUFFICES ASSUME NEW x \in Updaters, Underway(x)', NEW q \in Pairs, q = Head(up'[x].pairs)
                 PROVE  /\ up'[x].latest \in Finalized(q)
                        /\ up'[x].began \in Nat /\ up'[x].began <= clock /\ clock <= up'[x].began + Timeout
                        /\ watermarks[q].time > up'[x].latest =>
                             watermarks[q].updated \in Nat /\ watermarks[q].updated >= up'[x].began
                        /\ \A v \in Updaters :
                             (Underway(v)' /\ q = Head(up'[v].pairs) /\ up'[v].latest > up'[x].latest)
                               => up'[v].began >= up'[x].began
      BY <2>2, <2>5 DEF TransactionsOK, marketVars, tableVars
    <3>1. CASE x = u
      <4>1. q = p /\ up'[x].latest = latest /\ up'[x].began = clock
        BY <2>2, <3>1 DEF p
      <4>2. ASSUME NEW v \in Updaters, Underway(v)', q = Head(up'[v].pairs), up'[v].latest > latest
            PROVE  FALSE
        <5>1. v # u
          BY <2>2, <2>6, <4>2
        <5>2. up'[v] = up[v] /\ Underway(v)
          BY <2>2, <4>2, <5>1 DEF Underway
        <5>3. up[v].latest \in Finalized(p)
          BY <4>1, <4>2, <5>2 DEF RowsInv, MarksInv, TransactionsOK
        <5>4. PICK l \in Finalized(p) : l = up[v].latest
          BY <5>3
        <5>5. l \in Nat /\ l <= latest
          BY <2>3, <2>6
        <5> QED
          BY <2>6, <4>2, <5>2, <5>4, <5>5
      <4>3. watermarks[q].time \in Int /\ ~(watermarks[q].time > latest)
        BY <2>6, <2>7, <4>1 DEF RowsInv, MarksInv, WatermarksOK, NoTime
      <4>4. clock <= clock /\ clock <= clock + Timeout
        BY <2>6
      <4> QED
        BY <2>3, <2>6, <4>1, <4>2, <4>3, <4>4
    <3>2. CASE x # u
      <4>1. up'[x] = up[x] /\ Underway(x)
        BY <2>2, <3>2 DEF Underway
      <4>2. /\ up[x].latest \in Finalized(q)
            /\ up[x].began \in Nat /\ up[x].began <= clock /\ clock <= up[x].began + Timeout
            /\ watermarks[q].time > up[x].latest =>
                 watermarks[q].updated \in Nat /\ watermarks[q].updated >= up[x].began
            /\ \A v \in Updaters : (Underway(v) /\ q = Head(up[v].pairs) /\ up[v].latest > up[x].latest)
                 => up[v].began >= up[x].began
        BY <4>1 DEF RowsInv, MarksInv, TransactionsOK
      <4>3. ASSUME NEW v \in Updaters, Underway(v)', q = Head(up'[v].pairs), up'[v].latest > up'[x].latest
            PROVE  up'[v].began >= up'[x].began
        <5>1. CASE v = u
          BY <2>2, <2>6, <4>1, <4>2, <5>1
        <5>2. CASE v # u
          <6>1. up'[v] = up[v] /\ Underway(v)
            BY <2>2, <4>3, <5>2 DEF Underway
          <6> QED
            BY <4>1, <4>2, <4>3, <6>1
        <5> QED
          BY <5>1, <5>2
      <4> QED
        BY <4>1, <4>2, <4>3
    <3> QED
      BY <3>1, <3>2
  <2>9. \A x \in Updaters : up'[x].pc = "store" => up'[x] = up[x]
    BY <2>2
  <2>10. PlanIsSound'
    <3>1. PlanIsSound
      BY DEF RowsInv, MarksInv
    <3> QED
      BY <2>2, <2>5, <2>9, <3>1 DEF PlanIsSound, Follow, Reaches, marketVars, tableVars
  <2> QED
    BY <2>4, <2>8, <2>10 DEF MarksInv
<1> QED
  BY <1>1, <1>2

\* What is computed is fit to be stored.
LEMMA MarksCompute ==
  ASSUME RowsInv, NEW u \in Updaters, Compute(u)
  PROVE  MarksInv'
<1>0. PICK p \in Pairs : \E plan :
        /\ p = Head(up[u].pairs) /\ up[u].pc = "compute"
        /\ up' = [up EXCEPT ![u].pc = "store", ![u].plan = plan]
        /\ UNCHANGED <<marketVars, tableVars, holder>>
        /\ plan.candidates \subseteq Finalized(p) /\ plan.candidates \subseteq DOMAIN plan.rows
        /\ \A c \in plan.candidates : watermarks[p].time <= up[u].latest /\ c <= up[u].latest
        /\ Follow(p, plan.candidates)
        /\ \A t \in DOMAIN plan.rows : plan.rows[t].m1 = Ticks(p, t) /\ Reaches(p, plan.rows[t], t)
  BY Planning
<1>1. PICK plan :
        /\ p = Head(up[u].pairs) /\ up[u].pc = "compute"
        /\ up' = [up EXCEPT ![u].pc = "store", ![u].plan = plan]
        /\ UNCHANGED <<marketVars, tableVars, holder>>
        /\ plan.candidates \subseteq Finalized(p) /\ plan.candidates \subseteq DOMAIN plan.rows
        /\ \A c \in plan.candidates : watermarks[p].time <= up[u].latest /\ c <= up[u].latest
        /\ Follow(p, plan.candidates)
        /\ \A t \in DOMAIN plan.rows : plan.rows[t].m1 = Ticks(p, t) /\ Reaches(p, plan.rows[t], t)
  BY <1>0
<1>2. /\ \A x \in Updaters \ {u} : up'[x] = up[x]
      /\ up'[u].pc = "store" /\ up'[u].pairs = up[u].pairs /\ up'[u].plan = plan
      /\ up'[u].began = up[u].began /\ up'[u].latest = up[u].latest
  BY <1>1 DEF RowsInv, BarsInv, UpdatersOK, Idle
<1>3. MarketOK' /\ WatermarksOK' /\ RowsReach' /\ ClosedBelowWatermark'
  BY <1>1 DEF RowsInv, MarksInv, MarketOK, WatermarksOK, RowsReach, ClosedBelowWatermark, Reaches, Candles,
              Finalized, Ticks, marketVars, tableVars
<1>4. \A q \in Pairs : Finalized(q)' = Finalized(q) /\ Candles(q)' = Candles(q) /\ \A t : Ticks(q, t)' = Ticks(q, t)
  BY <1>1 DEF Finalized, Candles, Ticks, marketVars
<1>5. \A x \in Updaters : Underway(x)' =>
        Underway(x) /\ up'[x].pairs = up[x].pairs /\ up'[x].began = up[x].began /\ up'[x].latest = up[x].latest
  BY <1>1, <1>2 DEF Underway
<1>6. TransactionsOK'
  <2>1. TransactionsOK /\ UNCHANGED <<clock, watermarks>>
    BY <1>1 DEF RowsInv, MarksInv, marketVars, tableVars
  <2> QED
    BY <1>4, <1>5, <2>1 DEF TransactionsOK
<1>7. UNCHANGED <<clock, rows, watermarks>>
  BY <1>1 DEF marketVars, tableVars
<1>8. ASSUME NEW x \in Updaters, up'[x].pc = "store", NEW q \in Pairs, q = Head(up'[x].pairs)
      PROVE  LET made == up'[x].plan
             IN  /\ made.candidates \subseteq Finalized(q) /\ made.candidates \subseteq DOMAIN made.rows
                 /\ \A c \in made.candidates : watermarks[q].time <= up'[x].latest /\ c <= up'[x].latest
                 /\ Follow(q, made.candidates)
                 /\ \A t \in DOMAIN made.rows :
                      /\ (t < watermarks[q].time \/ \E c \in made.candidates : t < c)
                           => made.rows[t].m1 = Ticks(q, t)
                      /\ Reaches(q, made.rows[t], t)
  <2>1. CASE x = u
    BY <1>1, <1>2, <1>8, <2>1
  <2>2. CASE x # u
    BY <1>2, <1>8, <2>2 DEF RowsInv, MarksInv, PlanIsSound
  <2> QED
    BY <2>1, <2>2
<1>9. PlanIsSound'
  BY <1>4, <1>7, <1>8 DEF PlanIsSound, Follow, Reaches
<1> QED
  BY <1>3, <1>6, <1>9 DEF MarksInv

\* New bars come, and leave what is complete alone.
LEMMA MarksMarket ==
  ASSUME RowsInv, Market
  PROVE  MarksInv'
<1>1. TablesOK /\ MarketOK /\ UNCHANGED <<rows, watermarks, holder, up>> /\ WatermarksOK /\ TransactionsOK
      /\ RowsReach /\ PlanIsSound /\ ClosedBelowWatermark
  BY DEF RowsInv, BarsInv, MarksInv, Market, TickEnds, BarArrives
<1>2. ASSUME NEW p \in Pairs
      PROVE  /\ m1[p] \subseteq m1'[p] /\ Finalized(p) \subseteq Finalized(p)'
             /\ \A c \in Nat : c * Sub <= clock - Offset => \A t :
                  t < c => Ticks(p, t)' = Ticks(p, t) /\ (t \in Candles(p)' => t \in Candles(p))
             /\ \A c \in Finalized(p) : c \in Nat /\ c * Sub <= clock - Offset
             /\ Candles(p) \subseteq 0 .. clock /\ Finalized(p) \subseteq 0 .. clock
  BY <1>1, NewBars, CandlesAreFew
<1>3. clock' \in {clock, clock + 1} /\ clock \in Nat /\ MaxDelay \in Nat \ {0} /\ Sub \in Nat
      /\ Offset \in Nat /\ Timeout \in Nat /\ lookback_bars \in Nat
  BY IndicatorsAssumption DEF Market, TickEnds, BarArrives, RowsInv, BarsInv, TablesOK
<1>4. MarketOK'
  <2> SUFFICES ASSUME NEW p \in Pairs
               PROVE  /\ m1'[p] \subseteq 0 .. clock'-1 /\ 0 \in m1'[p]
                      /\ \A x \in due'[p] : x \in 0 .. clock'-1 /\ clock' <= x + MaxDelay
    BY DEF MarketOK
  <2>1. /\ m1[p] \subseteq 0 .. clock-1 /\ 0 \in m1[p]
        /\ \A x \in due[p] : x \in 0 .. clock-1 /\ clock <= x + MaxDelay
    BY <1>1 DEF MarketOK
  <2>2. CASE TickEnds
    <3>1. clock' = clock + 1 /\ \A x \in due[p] : clock < x + MaxDelay
      BY <2>2 DEF TickEnds
    <3>2. \A x \in m1'[p] : x \in m1[p] \/ x = clock
      BY <1>1, <2>2 DEF TickEnds, TablesOK
    <3>3. \A x \in due'[p] : x \in due[p] \/ x = clock
      BY <1>1, <2>2 DEF TickEnds, TablesOK
    <3>4. ASSUME NEW x \in m1'[p] PROVE x \in 0 .. clock'-1
      BY <1>3, <2>1, <3>1, <3>2
    <3>5. ASSUME NEW x \in due'[p] PROVE x \in 0 .. clock'-1 /\ clock' <= x + MaxDelay
      <4>1. CASE x = clock
        BY <1>3, <3>1, <4>1
      <4>2. CASE x \in due[p]
        BY <1>3, <2>1, <3>1, <4>2
      <4> QED
        BY <3>3, <4>1, <4>2
    <3> QED
      BY <1>2, <2>1, <3>4, <3>5
  <2>3. ASSUME NEW q \in Pairs, BarArrives(q)
        PROVE  /\ m1'[p] \subseteq 0 .. clock'-1 /\ 0 \in m1'[p]
               /\ \A x \in due'[p] : x \in 0 .. clock'-1 /\ clock' <= x + MaxDelay
    <3>1. /\ clock' = clock /\ \A x \in m1'[p] : x \in m1[p] \cup due[p]
          /\ due'[p] \subseteq due[p]
      BY <1>1, <2>3 DEF BarArrives, TablesOK
    <3> QED
      BY <1>2, <2>1, <3>1
  <2> QED
    BY <2>2, <2>3 DEF Market
<1>5. WatermarksOK'
  BY <1>1, <1>2 DEF WatermarksOK
<1>6. TransactionsOK'
  <2> SUFFICES ASSUME NEW u \in Updaters, Underway(u), NEW p \in Pairs, p = Head(up[u].pairs)
               PROVE  /\ up[u].latest \in Finalized(p)'
                      /\ up[u].began \in Nat /\ up[u].began <= clock' /\ clock' <= up[u].began + Timeout
                      /\ watermarks[p].time > up[u].latest =>
                           watermarks[p].updated \in Nat /\ watermarks[p].updated >= up[u].began
                      /\ \A v \in Updaters : (Underway(v) /\ p = Head(up[v].pairs) /\ up[v].latest > up[u].latest)
                           => up[v].began >= up[u].began
    BY <1>1 DEF TransactionsOK, Underway
  <2>1. /\ up[u].latest \in Finalized(p)
        /\ up[u].began \in Nat /\ up[u].began <= clock /\ clock <= up[u].began + Timeout
        /\ watermarks[p].time > up[u].latest =>
             watermarks[p].updated \in Nat /\ watermarks[p].updated >= up[u].began
        /\ \A v \in Updaters : (Underway(v) /\ p = Head(up[v].pairs) /\ up[v].latest > up[u].latest)
             => up[v].began >= up[u].began
    BY <1>1 DEF TransactionsOK
  <2>2. clock' = clock \/ (clock' = clock + 1 /\ clock < up[u].began + Timeout)
    BY DEF Market, TickEnds, BarArrives
  <2>3. up[u].began <= clock' /\ clock' <= up[u].began + Timeout
    BY <1>3, <2>1, <2>2
  <2> QED
    BY <1>2, <2>1, <2>3
\* A history of complete candles gets no new one but the last.
<1>7. ASSUME NEW p \in Pairs, NEW row, NEW t, Reaches(p, row, t) PROVE Reaches(p, row, t)'
  <2>1. t \in Nat /\ row.from \in 0 .. t
    BY <1>7 DEF Reaches
  <2>2. CASE row.from <= t - lookback_bars + 1 \/ row.from = 0
    BY <2>1, <2>2 DEF Reaches
  <2>3. CASE /\ t * Sub <= clock - Offset
             /\ \A x \in Candles(p) : (x > t - lookback_bars /\ x <= t) => row.from <= x
    <3>1. PICK k \in Int : k = t * Sub
      BY <1>3, <2>1
    <3>2. k <= clock' - Offset
      BY <1>3, <2>3, <3>1
    <3>3. ASSUME NEW x \in Candles(p)', x > t - lookback_bars, x <= t PROVE row.from <= x
      <4>1. CASE x = t
        BY <2>1, <4>1
      <4>2. CASE x # t
        <5>1. PICK y \in m1'[p] : x = y \div Sub
          BY <3>3 DEF Candles
        <5>2. y \in Nat
          BY <1>3, <1>4, <5>1 DEF MarketOK
        <5>3. x \in Nat
          BY <5>1, <5>2, CandleOfBar
        <5>4. x < t
          BY <2>1, <3>3, <4>2, <5>3
        <5>5. x \in Candles(p)
          BY <1>2, <2>1, <2>3, <3>3, <5>4
        <5> QED
          BY <2>3, <3>3, <5>5
      <4> QED
        BY <4>1, <4>2
    <3> QED
      BY <2>1, <3>1, <3>2, <3>3 DEF Reaches
  <2> QED
    BY <1>7, <2>2, <2>3 DEF Reaches
<1>8. RowsReach'
  BY <1>1, <1>7 DEF RowsReach
\* What is before a finalized candle is complete.
<1>9. ASSUME NEW p \in Pairs, NEW c \in Finalized(p), NEW t, t < c
      PROVE  Ticks(p, t)' = Ticks(p, t) /\ (t \in Candles(p)' => t \in Candles(p))
  BY <1>2, <1>9
<1>10. ASSUME NEW p \in Pairs, NEW t, t < watermarks[p].time, t \in Nat
       PROVE  Ticks(p, t)' = Ticks(p, t) /\ (t \in Candles(p)' => t \in Candles(p))
  <2>1. watermarks[p].time # NoTime
    BY <1>10 DEF NoTime
  <2>2. watermarks[p].time \in Finalized(p)
    BY <1>1, <2>1 DEF WatermarksOK
  <2> QED
    BY <1>9, <1>10, <2>2
<1>11. ASSUME NEW p \in Pairs, NEW t \in Candles(p)' PROVE t \in Nat
  <2>1. PICK y \in m1'[p] : t = y \div Sub
    BY <1>11 DEF Candles
  <2>2. y \in Nat
    BY <1>3, <1>4, <2>1 DEF MarketOK
  <2> QED
    BY <2>1, <2>2, CandleOfBar
<1>12. PlanIsSound'
  <2> SUFFICES ASSUME NEW u \in Updaters, up[u].pc = "store", NEW p \in Pairs, p = Head(up[u].pairs)
               PROVE  /\ up[u].plan.candidates \subseteq Finalized(p)'
                      /\ Follow(p, up[u].plan.candidates)'
                      /\ \A t \in DOMAIN up[u].plan.rows :
                           /\ (t < watermarks[p].time \/ \E c \in up[u].plan.candidates : t < c)
                                => up[u].plan.rows[t].m1 = Ticks(p, t)'
                           /\ Reaches(p, up[u].plan.rows[t], t)'
    BY <1>1 DEF PlanIsSound
  <2> DEFINE C == up[u].plan.candidates
             r == up[u].plan.rows
  <2>1. /\ C \subseteq Finalized(p) /\ Follow(p, C)
        /\ \A t \in DOMAIN r :
             /\ (t < watermarks[p].time \/ \E c \in C : t < c) => r[t].m1 = Ticks(p, t)
             /\ Reaches(p, r[t], t)
    BY <1>1 DEF PlanIsSound
  <2>2. ASSUME NEW t \in Candles(p)', NEW c \in C, t < c,
               IF watermarks[p].time = NoTime THEN \E d \in C : d <= t ELSE watermarks[p].time <= t
        PROVE  t \in C
    <3>1. t \in Candles(p)
      BY <1>9, <2>1, <2>2
    <3> QED
      BY <2>1, <2>2, <3>1 DEF Follow
  <2>3. Follow(p, C)'
    BY <1>1, <2>2 DEF Follow
  <2>4. ASSUME NEW t \in DOMAIN r, t < watermarks[p].time \/ \E c \in C : t < c
        PROVE  r[t].m1 = Ticks(p, t)'
    <3>1. t \in Nat
      BY <2>1 DEF Reaches
    <3>2. Ticks(p, t)' = Ticks(p, t)
      BY <1>9, <1>10, <2>1, <2>4, <3>1
    <3> QED
      BY <2>1, <2>4, <3>2
  <2>5. ASSUME NEW t \in DOMAIN r PROVE Reaches(p, r[t], t)'
    <3>1. PICK row : row = r[t]
      OBVIOUS
    <3>2. Reaches(p, row, t)
      BY <2>1, <3>1
    <3>3. Reaches(p, row, t)'
      BY <1>7, <3>2
    <3>4. row = r[t]'
      BY <1>1, <3>1
    <3> QED
      BY <3>3, <3>4
  <2>6. C \subseteq Finalized(p)'
    BY <1>2, <2>1
  <2> QED
    BY <2>3, <2>4, <2>5, <2>6
<1>13. ClosedBelowWatermark'
  <2> SUFFICES ASSUME NEW p \in Pairs, NEW t \in Candles(p)', watermarks[p].since <= t, t < watermarks[p].time
               PROVE  t \in DOMAIN rows[p] /\ rows[p][t].m1 = Ticks(p, t)'
    BY <1>1 DEF ClosedBelowWatermark
  <2>1. Ticks(p, t)' = Ticks(p, t) /\ t \in Candles(p)
    BY <1>10, <1>11
  <2> QED
    BY <1>1, <2>1 DEF ClosedBelowWatermark
<1> QED
  BY <1>4, <1>5, <1>6, <1>8, <1>12, <1>13 DEF MarksInv

\* A transaction that commits: the rows it leaves, and the watermark.
LEMMA MarksStore ==
  ASSUME RowsInv, NEW u \in Updaters, Store(u)
  PROVE  MarksInv'
<1> DEFINE p == Head(up[u].pairs)
           plan == up[u].plan.rows
           C == up[u].plan.candidates
           began == up[u].began
           wm == watermarks[p]
<1>1. /\ p \in Pairs /\ up[u].pairs # <<>> /\ up[u].pc = "store" /\ holder[p] = u /\ Underway(u)
      /\ UNCHANGED marketVars
  BY PairAtWork DEF Store, RowsInv, BarsInv, UpdatersOK, PairIsLocked, Underway
<1>2. TablesOK /\ MarketOK /\ WatermarksOK /\ TransactionsOK /\ RowsReach /\ PlanIsSound /\ ClosedBelowWatermark
  BY DEF RowsInv, BarsInv, MarksInv
<1>3. /\ \A x \in Updaters \ {u} : up'[x] = up[x]
      /\ up'[u].pc = "pairs"
  BY <1>1, PairAtWork DEF Store, RowsInv, BarsInv, UpdatersOK
\* What was about to be stored.
<1>4. /\ C \subseteq Finalized(p) /\ C \subseteq DOMAIN plan
      /\ \A c \in C : wm.time <= up[u].latest /\ c <= up[u].latest
      /\ Follow(p, C)
      /\ \A t \in DOMAIN plan :
           /\ (t < wm.time \/ \E c \in C : t < c) => plan[t].m1 = Ticks(p, t)
           /\ Reaches(p, plan[t], t)
  BY <1>1, <1>2 DEF PlanIsSound
<1>5. /\ up[u].latest \in Finalized(p) /\ began \in Nat
      /\ \A x \in Updaters : (Underway(x) /\ p = Head(up[x].pairs) /\ up[u].latest > up[x].latest)
           => began >= up[x].began
  BY <1>1, <1>2 DEF TransactionsOK
<1>6. Finalized(p) \subseteq Nat /\ Candles(p) \subseteq Nat
  BY <1>1, <1>2, CandlesAreFew
<1>7. wm.time \in Finalized(p) \cup {NoTime}
  BY <1>1, <1>2 DEF WatermarksOK
<1>8. /\ DOMAIN rows' = Pairs /\ \A q \in Pairs \ {p} : rows'[q] = rows[q]
      /\ DOMAIN rows'[p] = DOMAIN plan \cup DOMAIN rows[p]
      /\ \A t \in DOMAIN plan : rows'[p][t] = plan[t]
      /\ \A t \in DOMAIN rows[p] \ DOMAIN plan : rows'[p][t] = rows[p][t]
  BY <1>1, <1>2 DEF Store, store_latest_indicators, Upserted, TablesOK
<1>9. /\ DOMAIN watermarks' = Pairs /\ \A q \in Pairs \ {p} : watermarks'[q] = watermarks[q]
      /\ watermarks'[p] = IF C = {} THEN wm
                          ELSE [time |-> Max({wm.time} \cup C), updated |-> began,
                                since |-> IF wm.time = NoTime THEN Min(C) ELSE wm.since]
  BY <1>1, <1>2 DEF Store, _upsert_watermark, WatermarksOK
<1> HIDE DEF p, plan, C, began, wm
<1>10. ASSUME C # {}
       PROVE  /\ watermarks'[p].time \in {wm.time} \cup C
              /\ \A c \in C : c <= watermarks'[p].time
              /\ wm.time <= watermarks'[p].time /\ watermarks'[p].time <= up[u].latest
              /\ watermarks'[p].updated = began
              /\ watermarks'[p].since = IF wm.time = NoTime THEN Min(C) ELSE wm.since
  <2> DEFINE S == {wm.time} \cup C
  <2>1. S \subseteq Int /\ S # {} /\ up[u].latest \in Int
    BY <1>4, <1>5, <1>6, <1>7 DEF NoTime
  <2>2. \A x \in S : x <= up[u].latest
    BY <1>4, <1>10
  <2>3. C \subseteq S /\ wm.time \in S
    OBVIOUS
  <2>4. watermarks'[p].time = Max(S) /\ watermarks'[p].updated = began
        /\ watermarks'[p].since = IF wm.time = NoTime THEN Min(C) ELSE wm.since
    BY <1>9, <1>10
  <2> HIDE DEF S
  <2>5. Max(S) \in S /\ \A x \in S : x <= Max(S)
    BY <2>1, <2>2, MaxOfSet
  <2>6. watermarks'[p].time \in {wm.time} \cup C
    BY <2>4, <2>5 DEF S
  <2>7. (\A c \in C : c <= watermarks'[p].time) /\ wm.time <= watermarks'[p].time
    BY <2>3, <2>4, <2>5
  <2>8. watermarks'[p].time <= up[u].latest
    BY <2>2, <2>4, <2>5
  <2> QED
    BY <2>4, <2>6, <2>7, <2>8
<1>11. \A q \in Pairs : /\ Finalized(q)' = Finalized(q) /\ Candles(q)' = Candles(q)
                        /\ \A t : Ticks(q, t)' = Ticks(q, t)
                        /\ \A row, t : Reaches(q, row, t) <=> Reaches(q, row, t)'
  BY <1>1 DEF Finalized, Candles, Ticks, Reaches, marketVars
<1>12. MarketOK'
  BY <1>1, <1>2 DEF MarketOK, marketVars
<1>13. WatermarksOK'
  <2>1. watermarks'[p].time \in Finalized(p) \cup {NoTime}
    BY <1>4, <1>7, <1>9, <1>10
  <2>2. \A q \in Pairs \ {p} : watermarks'[q].time \in Finalized(q) \cup {NoTime}
    BY <1>2, <1>9 DEF WatermarksOK
  <2> QED
    BY <1>9, <1>11, <2>1, <2>2 DEF WatermarksOK
<1>14. RowsReach'
  <2>1. ASSUME NEW q \in Pairs, NEW t \in DOMAIN rows'[q] PROVE Reaches(q, rows'[q][t], t)
    <3>1. CASE q # p \/ t \notin DOMAIN plan
      BY <1>2, <1>8, <2>1, <3>1 DEF RowsReach
    <3>2. CASE q = p /\ t \in DOMAIN plan
      BY <1>4, <1>8, <3>2
    <3> QED
      BY <3>1, <3>2
  <2> QED
    BY <1>11, <2>1 DEF RowsReach
<1>15. TransactionsOK'
  <2> SUFFICES ASSUME NEW x \in Updaters, Underway(x)', NEW q \in Pairs, q = Head(up'[x].pairs)
               PROVE  /\ up'[x].latest \in Finalized(q)
                      /\ up'[x].began \in Nat /\ up'[x].began <= clock /\ clock <= up'[x].began + Timeout
                      /\ watermarks'[q].time > up'[x].latest =>
                           watermarks'[q].updated \in Nat /\ watermarks'[q].updated >= up'[x].began
                      /\ \A v \in Updaters :
                           (Underway(v)' /\ q = Head(up'[v].pairs) /\ up'[v].latest > up'[x].latest)
                             => up'[v].began >= up'[x].began
    BY <1>1, <1>11 DEF TransactionsOK, marketVars
  <2>1. \A v \in Updaters : Underway(v)' => v # u /\ up'[v] = up[v] /\ Underway(v)
    BY <1>3 DEF Underway
  <2>2. up'[x] = up[x] /\ Underway(x)
    BY <2>1
  <2>3. /\ up[x].latest \in Finalized(q)
        /\ up[x].began \in Nat /\ up[x].began <= clock /\ clock <= up[x].began + Timeout
        /\ watermarks[q].time > up[x].latest =>
             watermarks[q].updated \in Nat /\ watermarks[q].updated >= up[x].began
        /\ \A v \in Updaters : (Underway(v) /\ q = Head(up[v].pairs) /\ up[v].latest > up[x].latest)
             => up[v].began >= up[x].began
    BY <1>2, <2>2 DEF TransactionsOK
  <2>4. ASSUME watermarks'[q].time > up[x].latest
        PROVE  watermarks'[q].updated \in Nat /\ watermarks'[q].updated >= up[x].began
    <3>1. CASE q # p \/ C = {}
      BY <1>9, <2>3, <2>4, <3>1 DEF wm
    <3>2. CASE q = p /\ C # {}
      <4>1. up[x].latest \in Nat /\ up[u].latest \in Nat
        BY <1>5, <1>6, <2>3, <3>2
      <4>2. watermarks'[p].time \in Int /\ watermarks'[p].time <= up[u].latest
        BY <1>4, <1>6, <1>7, <1>10, <3>2 DEF NoTime
      <4>3. up[u].latest > up[x].latest
        BY <2>4, <3>2, <4>1, <4>2
      <4>4. began >= up[x].began
        BY <1>5, <2>2, <3>2, <4>3
      <4> QED
        BY <1>5, <1>10, <3>2, <4>4
    <3> QED
      BY <3>1, <3>2
  <2> QED
    BY <2>1, <2>2, <2>3, <2>4
<1>16. PlanIsSound'
  <2>1. ASSUME NEW x \in Updaters, up'[x].pc = "store", NEW q \in Pairs, q = Head(up'[x].pairs)
        PROVE  q # p /\ up'[x] = up[x] /\ rows'[q] = rows[q] /\ watermarks'[q] = watermarks[q]
    <3>1. x # u /\ up'[x] = up[x]
      BY <1>3, <2>1
    <3>2. holder[q] = x
      BY <2>1, <3>1 DEF RowsInv, BarsInv, PairIsLocked
    <3> QED
      BY <1>1, <1>8, <1>9, <3>1, <3>2
  <2>2. \A q \in Pairs : \A times : watermarks'[q] = watermarks[q] => (Follow(q, times) <=> Follow(q, times)')
    BY <1>11 DEF Follow
  <2>3. ASSUME NEW x \in Updaters, up'[x].pc = "store", NEW q \in Pairs, q = Head(up'[x].pairs),
               NEW made, made = up'[x].plan
        PROVE  /\ made.candidates \subseteq Finalized(q)' /\ made.candidates \subseteq DOMAIN made.rows
               /\ \A c \in made.candidates : watermarks'[q].time <= up'[x].latest /\ c <= up'[x].latest
               /\ Follow(q, made.candidates)'
               /\ \A t \in DOMAIN made.rows :
                    /\ (t < watermarks'[q].time \/ \E c \in made.candidates : t < c)
                         => made.rows[t].m1 = Ticks(q, t)'
                    /\ Reaches(q, made.rows[t], t)'
    <3>1. up'[x] = up[x] /\ watermarks'[q] = watermarks[q]
      BY <2>1, <2>3
    <3>2. /\ made.candidates \subseteq Finalized(q) /\ made.candidates \subseteq DOMAIN made.rows
          /\ \A c \in made.candidates : watermarks[q].time <= up[x].latest /\ c <= up[x].latest
          /\ Follow(q, made.candidates)
          /\ \A t \in DOMAIN made.rows :
               /\ (t < watermarks[q].time \/ \E c \in made.candidates : t < c)
                    => made.rows[t].m1 = Ticks(q, t)
               /\ Reaches(q, made.rows[t], t)
      BY <1>2, <2>3, <3>1 DEF PlanIsSound
    <3> QED
      BY <1>11, <2>2, <3>1, <3>2
  <2> SUFFICES ASSUME NEW x \in Updaters, (up[x].pc = "store")', NEW q \in Pairs, (q = Head(up[x].pairs))'
               PROVE  (/\ up[x].plan.candidates \subseteq Finalized(q)
                       /\ up[x].plan.candidates \subseteq DOMAIN up[x].plan.rows
                       /\ \A c \in up[x].plan.candidates : watermarks[q].time <= up[x].latest /\ c <= up[x].latest
                       /\ Follow(q, up[x].plan.candidates)
                       /\ \A t \in DOMAIN up[x].plan.rows :
                            /\ (t < watermarks[q].time \/ \E c \in up[x].plan.candidates : t < c)
                                 => up[x].plan.rows[t].m1 = Ticks(q, t)
                            /\ Reaches(q, up[x].plan.rows[t], t))'
    BY DEF PlanIsSound
  <2>4. PICK made : made = up'[x].plan
    OBVIOUS
  <2>5. /\ made.candidates \subseteq Finalized(q)' /\ made.candidates \subseteq DOMAIN made.rows
        /\ \A c \in made.candidates : watermarks'[q].time <= up'[x].latest /\ c <= up'[x].latest
        /\ Follow(q, made.candidates)'
        /\ \A t \in DOMAIN made.rows :
             /\ (t < watermarks'[q].time \/ \E c \in made.candidates : t < c)
                  => made.rows[t].m1 = Ticks(q, t)'
             /\ Reaches(q, made.rows[t], t)'
    BY <2>3, <2>4
  <2>6. Follow(q, up[x].plan.candidates)'
    BY <2>4, <2>5 DEF Follow
  <2>7. ASSUME NEW t \in DOMAIN up'[x].plan.rows PROVE Reaches(q, up[x].plan.rows[t], t)'
    BY <2>4, <2>5 DEF Reaches
  <2>8. ASSUME NEW t \in DOMAIN up'[x].plan.rows
        PROVE  (t < watermarks'[q].time \/ \E c \in up'[x].plan.candidates : t < c)
                  => up'[x].plan.rows[t].m1 = Ticks(q, t)'
    BY <2>4, <2>5
  <2>9. /\ up'[x].plan.candidates \subseteq Finalized(q)' /\ up'[x].plan.candidates \subseteq DOMAIN up'[x].plan.rows
        /\ \A c \in up'[x].plan.candidates : watermarks'[q].time <= up'[x].latest /\ c <= up'[x].latest
    BY <2>4, <2>5
  <2> QED
    BY <2>6, <2>7, <2>8, <2>9
<1>17. ClosedBelowWatermark'
  <2> SUFFICES ASSUME NEW q \in Pairs, NEW t \in Candles(q),
                      watermarks'[q].since <= t, t < watermarks'[q].time
               PROVE  t \in DOMAIN rows'[q] /\ rows'[q][t].m1 = Ticks(q, t)
    BY <1>11 DEF ClosedBelowWatermark
  <2>1. CASE q # p
    BY <1>2, <1>8, <1>9, <2>1 DEF ClosedBelowWatermark
  \* Below the watermark as it was, rows are there, and are replaced by rows of the whole candle.
  <2>2. CASE q = p /\ t < wm.time /\ wm.since <= t
    <3>1. t \in DOMAIN rows[p] /\ rows[p][t].m1 = Ticks(p, t)
      BY <1>2, <2>2 DEF ClosedBelowWatermark, wm
    <3>2. t \in DOMAIN plan => plan[t].m1 = Ticks(p, t)
      BY <1>4, <2>2
    <3> QED
      BY <1>8, <2>2, <3>1, <3>2
  \* Above it, the candle is one of those that lead to the new one.
  <2>3. CASE q = p /\ C # {} /\ t \in C
    <3>1. PICK c \in C : c = watermarks'[p].time \/ t < wm.time
      BY <1>10, <2>3
    <3>2. t < wm.time \/ \E d \in C : t < d
      BY <2>3, <3>1
    <3> QED
      BY <1>4, <1>8, <2>3, <3>2
  <2>4. CASE q = p /\ C # {} /\ t \notin C /\ ~(t < wm.time /\ wm.since <= t)
    <3>1. t \in Nat /\ wm.time \in Int
      BY <1>6, <1>7, <2>4 DEF NoTime
    <3>2. CASE wm.time = NoTime
      <4>1. C \subseteq Int /\ \A c \in C : 0 <= c
        BY <1>4, <1>6
      <4>2. Min(C) \in C
        <5>1. PICK S : S = C
          OBVIOUS
        <5>2. S \subseteq Int /\ S # {} /\ 0 \in Int /\ \A x \in S : 0 <= x
          BY <2>4, <4>1, <5>1
        <5>3. Min(S) \in S
          BY <5>2, MinOfSet
        <5> QED
          BY <5>1, <5>3
      <4>3. Min(C) <= t
        BY <1>10, <2>4, <3>2
      <4>4. watermarks'[p].time \in C
        BY <1>10, <2>4, <3>1, <3>2 DEF NoTime
      <4>5. t \in C
        BY <1>4, <2>4, <3>2, <4>2, <4>3, <4>4 DEF Follow, wm
      <4> QED
        BY <2>4, <4>5
    <3>3. CASE wm.time # NoTime
      <4>1. wm.since <= t
        BY <1>10, <2>4, <3>3
      <4>2. wm.time <= t
        BY <2>4, <3>1, <4>1
      <4>3. watermarks'[p].time \in C
        BY <1>10, <2>4, <3>1, <4>2
      <4>4. t \in C
        BY <1>4, <2>4, <3>3, <4>2, <4>3 DEF Follow, wm
      <4> QED
        BY <2>4, <4>4
    <3> QED
      BY <3>2, <3>3
  <2>5. CASE q = p /\ C = {} /\ ~(t < wm.time /\ wm.since <= t)
    BY <1>9, <2>5
  <2> QED
    BY <2>1, <2>2, <2>3, <2>4, <2>5
<1> QED
  BY <1>12, <1>13, <1>14, <1>15, <1>16, <1>17 DEF MarksInv

----------------------------------------------------------------------------
\* The rows of a pair.

\* A step of one updater that leaves it in no transaction leaves all else as it was.
LEMMA Apart ==
  ASSUME RowsInv, NEW u \in Updaters, NEW r, up' = [up EXCEPT ![u] = r],
         DOMAIN r = DOMAIN Idle, r.pairs \in Seq(Pairs), r.pc \in {"idle", "pairs", "done"},
         DOMAIN holder' = Pairs, \A p \in Pairs : holder[p] # u => holder'[p] = holder[p],
         UNCHANGED <<marketVars, tableVars>>
  PROVE  RowsInv'
<1>1. UNCHANGED <<marketVars, rows>> /\ BarsInv
  BY DEF RowsInv, tableVars
<1>2. BarsInv'
  BY <1>1, Unburdened
<1>3. MarksInv'
  BY MarksApart
<1> QED
  BY <1>2, <1>3 DEF RowsInv

\* A step of an updater, or a pair that fails, keeps the invariant.
LEMMA UpdaterStepping ==
  ASSUME RowsInv, NEW u \in Updaters, UpdaterStep(u) \/ PairFails(u)
  PROVE  RowsInv'
<1>1. CASE ReadLatest(u)
  <2> DEFINE latest == _get_latest_candle_time(Head(up[u].pairs))
             r == IF latest = NoTime THEN NextPairIs(u)
                  ELSE [up[u] EXCEPT !.pc = "lock", !.began = clock, !.latest = latest]
  <2>1. up' = [up EXCEPT ![u] = r] /\ up[u].pairs # <<>> /\ UNCHANGED <<marketVars, rows, holder>>
    BY <1>1 DEF ReadLatest, tableVars
  <2>2. /\ DOMAIN r = DOMAIN Idle /\ r.pairs \in Seq(Pairs)
        /\ r.pc = "pairs" \/ (r.pc = "lock" /\ r.pairs # <<>>)
    BY <2>1, PairAtWork DEF RowsInv, BarsInv, UpdatersOK, Idle
  <2> HIDE DEF r
  <2>3. BarsInv'
    BY <2>1, <2>2, Unburdened DEF RowsInv, BarsInv, TablesOK
  <2> QED
    BY <1>1, <2>3, MarksReadLatest DEF RowsInv
<1>2. CASE _acquire_watermark_pair_lock(u)
  <2> DEFINE r == [up[u] EXCEPT !.pc = "compute"]
  <2>1. up' = [up EXCEPT ![u] = r] /\ Underway(u) /\ UNCHANGED <<marketVars, tableVars>>
    BY <1>2 DEF _acquire_watermark_pair_lock, Underway
  <2>2. r.pc = "compute" /\ r.pairs = up[u].pairs /\ r.began = up[u].began /\ r.latest = up[u].latest
    BY DEF RowsInv, BarsInv, UpdatersOK, Idle
  <2> HIDE DEF r
  <2>3. MarksInv'
    BY <2>1, <2>2, MarksApart
  <2> QED
    BY <1>2, <2>3, Locking DEF RowsInv
<1>3. CASE Compute(u)
  BY <1>3, Computing, MarksCompute DEF RowsInv
<1>4. CASE Store(u)
  BY <1>4, Storing, MarksStore DEF RowsInv
<1>5. CASE Finish(u)
  <2> DEFINE r == [Idle EXCEPT !.pc = "done", !.errors = up[u].errors]
  <2>1. up' = [up EXCEPT ![u] = r] /\ UNCHANGED <<marketVars, tableVars, holder>>
    BY <1>5 DEF Finish
  <2>2. DOMAIN r = DOMAIN Idle /\ r.pairs \in Seq(Pairs) /\ r.pc = "done"
    BY DEF Idle
  <2> HIDE DEF r
  <2> QED
    BY <2>1, <2>2, Apart DEF RowsInv, BarsInv, TablesOK
<1>6. CASE PairFails(u)
  <2> DEFINE r == [NextPairIs(u) EXCEPT !.errors = TRUE]
  <2>1. /\ up' = [up EXCEPT ![u] = r] /\ up[u].pairs # <<>>
        /\ UNCHANGED <<marketVars, tableVars>> /\ holder' = Unlocked(u)
    BY <1>6 DEF PairFails
  <2>2. DOMAIN r = DOMAIN Idle /\ r.pairs \in Seq(Pairs) /\ r.pc = "pairs"
    BY <2>1, PairAtWork DEF RowsInv, BarsInv, Idle
  <2> HIDE DEF r
  <2> QED
    BY <2>1, <2>2, Apart, GivingUp
<1> QED
  BY <1>1, <1>2, <1>3, <1>4, <1>5, <1>6 DEF UpdaterStep

\* What nobody touches stays as it is.
LEMMA LeftAlone ==
  ASSUME RowsInv, UNCHANGED <<marketVars, tableVars, holder, up>>
  PROVE  RowsInv'
<1>1. UNCHANGED <<clock, m1, due, rows, watermarks, holder, up>>
  BY DEF marketVars, tableVars
<1>2. BarsInv'
  BY <1>1 DEF RowsInv, BarsInv, UpdatersOK, Underway, TablesOK, PairIsLocked, RowsAreOfBars, PlanKeepsBars, Ticks
<1>3. \A p \in Pairs : /\ Finalized(p)' = Finalized(p) /\ Candles(p)' = Candles(p)
                       /\ \A t : Ticks(p, t)' = Ticks(p, t)
  BY <1>1 DEF Finalized, Candles, Ticks
<1>4. MarketOK' /\ WatermarksOK' /\ TransactionsOK' /\ RowsReach' /\ ClosedBelowWatermark'
  BY <1>1, <1>3 DEF RowsInv, MarksInv, MarketOK, WatermarksOK, TransactionsOK, Underway, RowsReach, Reaches,
                    ClosedBelowWatermark
<1>5. PlanIsSound'
  BY <1>1, <1>3 DEF RowsInv, MarksInv, PlanIsSound, Follow, Reaches
<1> QED
  BY <1>2, <1>4, <1>5 DEF RowsInv, MarksInv

\* A scheduler begins an updater, and ends the one it has.
LEMMA Supervising ==
  ASSUME RowsInv, NEW s \in Schedulers, UNCHANGED <<marketVars, tableVars>>,
         \/ UNCHANGED <<up, holder>>
         \/ Begin(s)
         \/ up' = [up EXCEPT ![s] = Idle] /\ holder' \in {holder, Unlocked(s)}
  PROVE  RowsInv'
<1>1. s \in Updaters
  BY DEF Schedulers
<1>2. CASE UNCHANGED <<up, holder>>
  BY <1>2, LeftAlone
<1>3. CASE Begin(s)
  <2> DEFINE r == [Idle EXCEPT !.pc = "pairs", !.pairs = PairsOfRun]
  <2>1. up' = [up EXCEPT ![s] = r] /\ UNCHANGED holder
    BY <1>3 DEF Begin
  <2>2. PairsOfRun \in Seq(Pairs)
    BY IndicatorsAssumption DEF PairsOfRun, Pairs
  <2>3. DOMAIN r = DOMAIN Idle /\ r.pairs \in Seq(Pairs) /\ r.pc = "pairs"
    BY <2>2 DEF Idle
  <2> HIDE DEF r
  <2> QED
    BY <1>1, <2>1, <2>3, Apart DEF RowsInv, BarsInv, TablesOK
<1>4. CASE up' = [up EXCEPT ![s] = Idle] /\ holder' \in {holder, Unlocked(s)}
  <2>1. Idle.pc = "idle" /\ Idle.pairs \in Seq(Pairs)
    BY DEF Idle
  <2>2. DOMAIN holder' = Pairs /\ \A p \in Pairs : holder[p] # s => holder'[p] = holder[p]
    BY <1>4, GivingUp DEF RowsInv, BarsInv, TablesOK
  <2> QED
    BY <1>1, <1>4, <2>1, <2>2, Apart
<1> QED
  BY <1>2, <1>3, <1>4

\* A pair begins with all the bars of the past, no watermark, and at most the row of its first candle.
LEMMA RowsStart == Init => RowsInv
<1> SUFFICES ASSUME Init PROVE RowsInv
  OBVIOUS
<1>1. /\ m1 = [p \in Pairs |-> 0..FirstTick-1] /\ DOMAIN rows = Pairs
      /\ \A p \in Pairs : rows[p] \in {<<>>, [t \in {0} |-> [m1 |-> {0}, from |-> 0]]}
      /\ up = [u \in Updaters |-> Idle] /\ due = [p \in Pairs |-> {}] /\ DOMAIN holder = Pairs
      /\ watermarks = [p \in Pairs |-> NoWatermark] /\ clock = FirstTick
  BY DEF Init, IndicatorsInit
<1>2. Idle.pc = "idle" /\ Idle.pairs \in Seq(Pairs)
  BY DEF Idle
<1>3. FirstTick \in Nat \ {0} /\ Sub \in Nat \ {0} /\ lookback_bars \in Nat
  BY IndicatorsAssumption
<1>4. UpdatersOK /\ TablesOK /\ PairIsLocked /\ PlanKeepsBars
  BY <1>1, <1>2, <1>3 DEF UpdatersOK, Underway, TablesOK, PairIsLocked, PlanKeepsBars
<1>5. TransactionsOK /\ PlanIsSound
  BY <1>1, <1>2 DEF TransactionsOK, Underway, PlanIsSound
<1>6. MarketOK
  BY <1>1, <1>3 DEF MarketOK
<1>7. \A p \in Pairs : watermarks[p].time = -1
  BY <1>1 DEF NoWatermark, NoTime
<1>8. WatermarksOK
  BY <1>1, <1>7 DEF WatermarksOK, NoTime
<1>9. ClosedBelowWatermark
  <2>1. ASSUME NEW p \in Pairs, NEW t \in Candles(p), t < watermarks[p].time PROVE FALSE
    <3>1. PICK x \in m1[p] : t = x \div Sub
      BY <2>1 DEF Candles
    <3>2. x \in Nat
      BY <1>1, <1>3, <3>1
    <3>3. t \in Nat
      BY <3>1, <3>2, CandleOfBar
    <3> QED
      BY <1>7, <2>1, <3>3
  <2> QED
    BY <2>1 DEF ClosedBelowWatermark
<1>10. ASSUME NEW p \in Pairs, NEW t \in DOMAIN rows[p]
       PROVE  rows[p][t].m1 \subseteq Ticks(p, t) /\ Reaches(p, rows[p][t], t)
  <2>1. t = 0 /\ rows[p][t].m1 = {0} /\ rows[p][t].from = 0
    BY <1>1, <1>10
  <2>2. 0 \in m1[p] /\ 0 \div Sub = 0
    BY <1>1, <1>3
  <2>3. rows[p][t].m1 \subseteq Ticks(p, t)
    BY <2>1, <2>2 DEF Ticks
  <2>4. Reaches(p, rows[p][t], t)
    BY <2>1 DEF Reaches
  <2> QED
    BY <2>3, <2>4
<1>11. RowsAreOfBars /\ RowsReach
  BY <1>10 DEF RowsAreOfBars, RowsReach
<1> QED
  BY <1>4, <1>5, <1>6, <1>8, <1>9, <1>11 DEF RowsInv, BarsInv, MarksInv

\* The invariant of the rows is kept by every step.
LEMMA RowsKept ==
  ASSUME RowsInv, [Next]_vars
  PROVE  RowsInv'
<1>1. CASE UNCHANGED <<marketVars, tableVars, holder, up>>
  BY <1>1, LeftAlone
<1>2. ASSUME NEW s \in Schedulers, SchedulerStep(s) PROVE RowsInv'
  <2>1. CASE UpdaterStep(s)
    BY <2>1, UpdaterStepping DEF Schedulers
  <2>2. CASE LockIsAcquired(s) \/ LockIsUnavailable(s)
    <3>1. \/ UNCHANGED <<marketVars, tableVars, up, holder>>
          \/ Begin(s) /\ UNCHANGED <<marketVars, tableVars>>
      BY <2>2 DEF LockIsAcquired, LockIsUnavailable, RunBegins, Begin, indicatorVars, marketVars, tableVars
    <3> QED
      BY <3>1, Supervising
  <2>3. CASE UpdaterEnds(s) \/ UpdaterIsKilled(s)
    <3>1. /\ UNCHANGED <<marketVars, tableVars>>
          /\ up' = [up EXCEPT ![s] = Idle] /\ holder' \in {holder, Unlocked(s)}
      BY <2>3 DEF UpdaterEnds, UpdaterIsKilled, KilledUpdater
    <3> QED
      BY <3>1, Supervising
  <2>4. CASE \/ LockIsHeld(s) \/ RenewalFails(s) \/ run_referral_reward_transitions(s)
             \/ run_referral_pause_resume_worker(s) \/ _release_distributed_lock(s)
    BY <1>1, <2>4 DEF LockIsHeld, RenewalFails, run_referral_reward_transitions,
                      run_referral_pause_resume_worker, _release_distributed_lock, indicatorVars, marketVars,
                      tableVars
  <2> QED
    BY <1>2, <2>1, <2>2, <2>3, <2>4 DEF SchedulerStep, Acquire
<1>3. ASSUME NEW s \in Schedulers, Crash(s) PROVE RowsInv'
  <2>1. /\ UNCHANGED <<marketVars, tableVars>>
        /\ up' = [up EXCEPT ![s] = Idle] /\ holder' \in {holder, Unlocked(s)}
    BY <1>3 DEF Crash, KilledUpdater
  <2> QED
    BY <2>1, Supervising
<1>4. ASSUME NEW s \in Schedulers, PairFails(s) PROVE RowsInv'
  BY <1>4, UpdaterStepping DEF Schedulers
<1>5. CASE KeyExpires \/ RedisStops \/ RedisComesBack \/ UNCHANGED vars
  BY <1>1, <1>5 DEF KeyExpires, RedisStops, RedisComesBack, indicatorVars, marketVars, tableVars, vars
<1>6. CASE Market
  BY <1>6, BarsCome, MarksMarket DEF RowsInv
<1> QED
  BY <1>2, <1>3, <1>4, <1>5, <1>6 DEF Next

\* Only a transaction that commits writes rows.
LEMMA OnlyStoreWrites ==
  ASSUME [Next]_vars, rows' # rows
  PROVE  \E u \in Updaters : Store(u)
<1>1. ASSUME NEW s \in Schedulers, SchedulerStep(s), ~Store(s) PROVE rows' = rows
  BY <1>1 DEF SchedulerStep, Acquire, LockIsHeld, LockIsAcquired, LockIsUnavailable, RunBegins, Begin, RenewalFails,
              UpdaterEnds, UpdaterIsKilled, run_referral_reward_transitions, run_referral_pause_resume_worker,
              _release_distributed_lock, UpdaterStep, ReadLatest, _acquire_watermark_pair_lock, Compute, Finish,
              indicatorVars, tableVars
<1>2. ASSUME NEW s \in Schedulers, Crash(s) \/ PairFails(s) PROVE rows' = rows
  BY <1>2 DEF Crash, PairFails, tableVars
<1>3. CASE Market \/ KeyExpires \/ RedisStops \/ RedisComesBack \/ UNCHANGED vars
  BY <1>3 DEF Market, TickEnds, BarArrives, KeyExpires, RedisStops, RedisComesBack, indicatorVars, tableVars, vars
<1> QED
  BY <1>1, <1>2, <1>3 DEF Next, Schedulers

\* RowsKeepBars: a row of technical_indicators is never replaced by one that knows less of its
\* candle, although the latest candle is read before the lock of the pair is waited for
\* (calculate_recent_indicators_v2.py, the transaction of a pair).
THEOREM RowsAlwaysKeepBars == Spec => RowsKeepBars
<1> DEFINE Kept == \A p \in Pairs : \A t \in DOMAIN rows[p] :
                     t \in DOMAIN rows'[p] /\ rows[p][t].m1 \subseteq rows'[p][t].m1
<1>1. RowsInv /\ [Next]_vars => [Kept]_rows
  BY OnlyStoreWrites, Storing DEF RowsInv
<1> QED
  BY <1>1, RowsStart, RowsKept, PTL DEF Spec, RowsKeepBars

\* ClosedBelowWatermark: from the first candle that was computed for it up to the watermark, every
\* candle has a row that knows all its bars, however the updaters of a pair wait for each other, and
\* however late its bars come (calculate_recent_indicators_v2.py, the candidates of a pair).
THEOREM WatermarkCloses == Spec => []ClosedBelowWatermark
<1>1. RowsInv => ClosedBelowWatermark
  BY DEF RowsInv, MarksInv
<1> QED
  BY <1>1, RowsStart, RowsKept, PTL DEF Spec

\* HistoryReachesBack: the history a row was computed from misses no candle of the lookback, be it a
\* new row, one of the overlap or the forming one (calculate_recent_indicators_v2.py, the windows).
THEOREM HistoriesReachBack == Spec => []HistoryReachesBack
<1>1. RowsInv => HistoryReachesBack
  <2> SUFFICES ASSUME RowsInv, NEW p \in Pairs, NEW t \in DOMAIN rows[p], NEW x \in Candles(p),
                      x > t - lookback_bars, x <= t
               PROVE  rows[p][t].from <= x
    BY DEF HistoryReachesBack
  <2>1. x \in Nat /\ lookback_bars \in Nat
    BY CandlesAreFew, IndicatorsAssumption DEF RowsInv, BarsInv, MarksInv
  <2>2. Reaches(p, rows[p][t], t)
    BY DEF RowsInv, MarksInv, RowsReach
  <2> QED
    BY <2>1, <2>2 DEF Reaches
<1> QED
  BY <1>1, RowsStart, RowsKept, PTL DEF Spec
=============================================================================
