---------------------------- MODULE SessionsProofs ----------------------------
(***************************************************************************)
(* Theorems about Sessions, for any number of requests, sessions and times *)
(* to live, every cap, and every mix of requests.  Each rests on an        *)
(* inductive invariant of its own:                                         *)
(*                                                                         *)
(*   HeldInv    a task writes back only what it has read: GoneForGood;     *)
(*   RecentInv  every copy and every stored session was synced no later    *)
(*              than its plan was last right, or last written by an        *)
(*              activation: ServedRecently;                                *)
(*   CapInv     the index has every live session at its end, and a login   *)
(*              over the cap still counts or has in hand what is to go,    *)
(*              or was noted as having skipped its eviction: CapKept.      *)
(***************************************************************************)
EXTENDS Sessions, FiniteSetTheorems, TLAPS

----------------------------------------------------------------------------
\* Types.

LEMMA GoneIsSession == Gone \in Session /\ Idle \in Task
<1>1. Gone \in Session
  BY DEF Gone, Session, Plans
<1>2. Idle \in Task
  <2> DEFINE copies == [s \in Sids |-> Gone]
  <2>1. copies \in [Sids -> Session]
    BY <1>1
  <2> HIDE DEF copies
  <2>2. [op |-> "none", sid |-> None, target |-> None, flag |-> FALSE, copy |-> copies, got |-> {},
         plan |-> "free", name |-> 0, at |-> 0, over |-> 0, failed |-> FALSE] \in Task
    BY <2>1 DEF Task, Plans
  <2> QED
    BY <2>2 DEF Idle, copies
<1> QED
  BY <1>1, <1>2

LEMMA LaterIsNat ==
  ASSUME NEW a \in Nat, NEW b \in Nat, NEW c \in Nat
  PROVE  a + Larger(1, b - c) \in Nat \ {0}
BY DEF Larger

\* What a task notes keeps it a task.
LEMMA Noted ==
  ASSUME NEW r \in Task
  PROVE  /\ \A v \in 0..1 : [r EXCEPT !.name = v] \in Task
         /\ \A v \in Plans : [r EXCEPT !.plan = v] \in Task
         /\ \A v \in BOOLEAN : [r EXCEPT !.flag = v] \in Task
         /\ \A v \in SUBSET Sids : [r EXCEPT !.got = v] \in Task
         /\ \A v \in Nat : [r EXCEPT !.at = v] \in Task /\ [r EXCEPT !.over = v] \in Task
         /\ [r EXCEPT !.failed = TRUE] \in Task
<1>1. \A v \in 0..1 : [r EXCEPT !.name = v] \in Task
  BY DEF Task
<1>2. \A v \in Plans : [r EXCEPT !.plan = v] \in Task
  BY DEF Task
<1>3. \A v \in BOOLEAN : [r EXCEPT !.flag = v] \in Task
  BY DEF Task
<1>4. \A v \in SUBSET Sids : [r EXCEPT !.got = v] \in Task
  BY DEF Task
<1>5. \A v \in Nat : [r EXCEPT !.at = v] \in Task /\ [r EXCEPT !.over = v] \in Task
  BY DEF Task
<1>6. [r EXCEPT !.failed = TRUE] \in Task
  BY DEF Task
<1> QED
  BY <1>1, <1>2, <1>3, <1>4, <1>5, <1>6

LEMMA CopyNoted ==
  ASSUME NEW r \in Task, NEW s \in Sids, NEW c \in Session
  PROVE  /\ [r EXCEPT !.copy[s] = c] \in Task
         /\ [r EXCEPT !.copy[s] = c].copy[s] = c
         /\ \A x \in Sids \ {s} : [r EXCEPT !.copy[s] = c].copy[x] = r.copy[x]
<1> DEFINE copies == [r.copy EXCEPT ![s] = c]
<1>1. /\ copies \in [Sids -> Session] /\ copies[s] = c
      /\ \A x \in Sids \ {s} : copies[x] = r.copy[x]
  BY DEF Task
<1>2. [r EXCEPT !.copy[s] = c] = [r EXCEPT !.copy = copies]
  BY DEF Task
<1> HIDE DEF copies
<1>3. [r EXCEPT !.copy = copies] \in Task /\ [r EXCEPT !.copy = copies].copy = copies
  BY <1>1 DEF Task
<1> QED
  BY <1>1, <1>2, <1>3

\* A step of a task keeps the types when what it notes, and what Redis then has, has its shape.
Notes(t) ==
  /\ DOMAIN pc' = Tasks
  /\ UNCHANGED task \/ \E r \in Task : task' = [task EXCEPT ![t] = r]

Stores ==
  /\ mix' \in Mixes /\ now' \in Nat /\ name' \in 0..1
  /\ store' \in [Sids -> Session] /\ used' \subseteq Sids /\ members' \subseteq Sids
  /\ perms' \in [plan : Plans, until : Nat]

LEMMA TaskStep ==
  ASSUME TypeOK, NEW t \in Tasks, Notes(t), Stores
  PROVE  TypeOK'
BY DEF TypeOK, Notes, Stores

\* A step that leaves the stored sessions alone.
LEMMA StoreKept ==
  ASSUME TypeOK, UNCHANGED <<mix, now, name, store, perms>>, used' \subseteq Sids, members' \subseteq Sids
  PROVE  Stores
BY DEF TypeOK, Stores

LEMMA TypesKept ==
  ASSUME HeldInv, [Next]_vars
  PROVE  TypeOK'
<1> USE DEF Note, Goto, Keep, At, redis, caches, user, history
<1>1. /\ TypeOK
      /\ \A t \in Tasks : task[t] \in Task
      /\ \A s \in Sids : store[s] \in Session
      /\ Idle \in Task /\ Gone \in Session
      /\ DOMAIN pc = Tasks /\ DOMAIN store = Sids
      /\ now \in Nat
  BY GoneIsSession DEF TypeOK, HeldInv
<1>2. ASSUME NEW t \in Tasks, Begin(t) PROVE TypeOK'
  <2>1. PICK op \in mix.ops[t], flag \in BOOLEAN, sid \in used \cup {None} :
          /\ op \in NeedSession \cup {"logout"} => sid # None
          /\ task' = [task EXCEPT ![t] = [Idle EXCEPT !.op = op, !.sid = sid, !.flag = flag, !.plan = PlanOf(op)]]
          /\ pc' = [pc EXCEPT ![t] = First(op)]
    BY <1>2 DEF Begin
  <2>2. op \in Asked /\ sid \in Sids \cup {None} /\ PlanOf(op) \in Plans
    BY <1>1, <2>1, MixesAssumption DEF TypeOK, PlanOf, Plans
  <2>3. [Idle EXCEPT !.op = op, !.sid = sid, !.flag = flag, !.plan = PlanOf(op)] \in Task
    BY <1>1, <2>2 DEF Task
  <2>4. Stores
    BY <1>1, <1>2, StoreKept DEF TypeOK, Begin
  <2> QED
    BY <1>1, <2>1, <2>3, <2>4, TaskStep DEF Notes
<1>3. ASSUME NEW t \in Tasks, Authenticate(t) PROVE TypeOK'
  <2>1. Stores
    BY <1>1, <1>3, StoreKept DEF TypeOK, Authenticate
  <2> DEFINE s == task[t].sid
  <2>2. [task[t] EXCEPT !.op = "mismatch"] \in Task
    BY <1>1 DEF Task
  <2>3. s \in Sids
    BY <1>1, <1>3 DEF HeldInv, Held, Authenticate, Task
  <2>4. [task[t] EXCEPT !.copy[s] = store[s]] \in Task
    BY <1>1, <2>3, CopyNoted
  <2>5. Notes(t)
    BY <1>1, <1>3, <2>2, <2>4 DEF Authenticate, Notes, Done
  <2> QED
    BY <1>1, <2>1, <2>5, TaskStep
<1>4. ASSUME NEW t \in Tasks, End(t) PROVE TypeOK'
  <2>1. Stores
    BY <1>1, <1>4, StoreKept DEF TypeOK, End
  <2>2. Notes(t)
    BY <1>1, <1>4 DEF End, Notes, Done
  <2> QED
    BY <1>1, <2>1, <2>2, TaskStep
<1>5. ASSUME NEW t \in Tasks, Refresh(t) PROVE TypeOK'
  <2> DEFINE s == task[t].sid
             c == Copy(t)
             exp == IF c.remember THEN c.exp ELSE now + Ttl
             session == [c EXCEPT !.last = now, !.exp = exp, !.until = now + Larger(1, exp - now)]
  <2>1. s \in Sids /\ c \in Session
    BY <1>1, <1>5 DEF HeldInv, Held, Refresh, Task, Copy
  <2>2. exp \in Nat
    BY <1>1, <2>1, ConstantsAssumption DEF Session
  <2>3. session \in Session
    <3>1. \A e \in Nat, u \in Nat : [c EXCEPT !.last = now, !.exp = e, !.until = u] \in Session
      BY <1>1, <2>1 DEF Session
    <3> QED
      BY <1>1, <2>2, <3>1, LaterIsNat
  <2> HIDE DEF session, c
  <2>4. \A x \in Session : [task[t] EXCEPT !.copy[s] = x, !.at = now] \in Task
    <3> SUFFICES ASSUME NEW x \in Session PROVE [task[t] EXCEPT !.copy[s] = x, !.at = now] \in Task
      OBVIOUS
    <3>1. [task[t] EXCEPT !.copy[s] = x] \in Task
      BY <1>1, <2>1, CopyNoted
    <3>2. [[task[t] EXCEPT !.copy[s] = x] EXCEPT !.at = now] \in Task
      BY <1>1, <3>1, Noted
    <3> QED
      BY <3>2
  <2>5. UNCHANGED store \/ store' = [x \in Sids |-> IF x \in {s} THEN session ELSE store[x]]
    BY <1>5 DEF Refresh, Write, session, c
  <2>6. Stores
    <3>1. UNCHANGED <<mix, now, name, perms, used, members>>
      BY <1>5 DEF Refresh
    <3>2. store' \in [Sids -> Session]
      BY <1>1, <2>3, <2>5 DEF TypeOK
    <3> QED
      BY <1>1, <3>1, <3>2 DEF TypeOK, Stores
  <2>7. \/ Authorised(t, c) \/ Authorised(t, session) \/ Done(t)
    BY <1>5 DEF Refresh, session, c
  <2>8. Notes(t)
    BY <1>1, <2>1, <2>3, <2>4, <2>7 DEF Authorised, Notes, Done
  <2> QED
    BY <1>1, <2>6, <2>8, TaskStep
<1>6. ASSUME NEW t \in Tasks, Lookup(t) PROVE TypeOK'
  <2>1. Stores
    BY <1>1, <1>6, StoreKept DEF TypeOK, Lookup
  <2> DEFINE s == task[t].sid
             looked == [task[t] EXCEPT !.copy[s].plan = Derive(subscription), !.copy[s].synced = now]
  <2>2. s \in Sids /\ Derive(subscription) \in Plans
    BY <1>1, <1>6 DEF HeldInv, Held, Lookup, Task, Derive, Plans
  <2>3. looked \in Task
    <3> DEFINE c == [task[t].copy[s] EXCEPT !.plan = Derive(subscription), !.synced = now]
    <3>1. c \in Session
      <4>1. task[t].copy[s] \in Session
        BY <1>1, <2>2 DEF Task
      <4> QED
        BY <1>1, <2>2, <4>1 DEF Session
    <3>2. looked = [task[t] EXCEPT !.copy[s] = c]
      BY <1>1, <2>2 DEF Task
    <3> QED
      BY <1>1, <2>2, <3>1, <3>2, CopyNoted
  <2>4. Notes(t)
    BY <1>1, <1>6, <2>3, Noted DEF Lookup, Notes
  <2> QED
    BY <1>1, <2>1, <2>4, TaskStep
<1>7. ASSUME NEW t \in Tasks, Persist(t) PROVE TypeOK'
  <2> DEFINE s == task[t].sid
             session == [Copy(t) EXCEPT !.until = now + Larger(1, Copy(t).exp - now)]
  <2>1. Copy(t) \in Session
    BY <1>1, <1>7 DEF HeldInv, Held, Persist, Task, Copy
  <2>2. session \in Session
    <3>1. \A u \in Nat : [Copy(t) EXCEPT !.until = u] \in Session
      BY <2>1 DEF Session
    <3>2. Copy(t).exp \in Nat
      BY <2>1 DEF Session
    <3> QED
      BY <1>1, <3>1, <3>2, LaterIsNat
  <2> HIDE DEF session
  <2>3. UNCHANGED store \/ store' = [x \in Sids |-> IF x \in {s} THEN session ELSE store[x]]
    BY <1>7 DEF Persist, Write, session
  <2>4. store' \in [Sids -> Session]
    BY <1>1, <2>2, <2>3 DEF TypeOK
  <2>5. Stores
    BY <1>1, <1>7, <2>4 DEF TypeOK, Persist, Stores
  <2>6. Notes(t)
    BY <1>1, <1>7 DEF Persist, Notes
  <2> QED
    BY <1>1, <2>5, <2>6, TaskStep
<1>8. ASSUME NEW t \in Tasks, Served(t) PROVE TypeOK'
  <2>1. Stores
    BY <1>1, <1>8, StoreKept DEF TypeOK, Served
  <2> DEFINE copies == [s \in Sids |-> Gone]
  <2>2. copies \in [Sids -> Session]
    BY <1>1
  <2> HIDE DEF copies
  <2>3. [task[t] EXCEPT !.copy = copies, !.failed = FALSE] \in Task
    BY <1>1, <2>2 DEF Task
  <2>4. Notes(t)
    BY <1>1, <1>8, <2>3 DEF Served, Notes, copies
  <2> QED
    BY <1>1, <2>1, <2>4, TaskStep
<1>9. ASSUME NEW t \in Tasks, Perms(t) \/ TrialEnds(t) \/ Subscription(t) PROVE TypeOK'
  <2>1. Stores
    BY <1>1, <1>9 DEF TypeOK, Perms, TrialEnds, Subscription, NoPerms, Plans, Stores
  <2>2. Notes(t)
    BY <1>1, <1>9, Noted DEF TypeOK, Perms, TrialEnds, Subscription, Derive, Plans, Notes
  <2> QED
    BY <1>1, <2>1, <2>2, TaskStep
<1>10. ASSUME NEW t \in Tasks, SetPerms(t) PROVE TypeOK'
  <2>1. Stores
    BY <1>1, <1>10, ConstantsAssumption DEF TypeOK, SetPerms, Task, Stores
  <2>2. Notes(t)
    BY <1>1, <1>10 DEF SetPerms, Notes
  <2> QED
    BY <1>1, <2>1, <2>2, TaskStep
<1>11. ASSUME NEW t \in Tasks, Create(t) PROVE TypeOK'
  <2>1. Fresh(task[t].flag, task[t].plan) \in Session
    BY <1>1, ConstantsAssumption DEF Fresh, Task, Session, TtlOf
  <2>2. Stores
    BY <1>1, <1>11, <2>1 DEF TypeOK, Create, Stores
  <2>3. Notes(t)
    BY <1>1, <1>11 DEF Create, Notes
  <2> QED
    BY <1>1, <2>2, <2>3, TaskStep
<1>12. ASSUME NEW t \in Tasks, Count(t) PROVE TypeOK'
  <2>1. Stores
    BY <1>1, <1>12, StoreKept DEF TypeOK, Count
  <2>2. Cardinality(Indexed(task[t].at)) \in Nat
    BY FS_Subset, FS_CardinalityType, ConstantsAssumption DEF Indexed
  <2>4. Excess(t) > 0 => Excess(t) \in Nat
    BY <2>2, ConstantsAssumption DEF Excess
  <2>5. \/ Excess(t) > 0 /\ task' = [task EXCEPT ![t] = [task[t] EXCEPT !.over = Excess(t)]]
        \/ UNCHANGED task
    BY <1>12 DEF Count, Unevicted
  <2>6. DOMAIN pc' = Tasks
    BY <1>1, <1>12 DEF Count, Unevicted, Rotate
  <2>3. Notes(t)
    BY <1>1, <2>4, <2>5, <2>6, Noted DEF Notes
  <2> QED
    BY <1>1, <2>1, <2>3, TaskStep
<1>13. ASSUME NEW t \in Tasks, Lowest(t) PROVE TypeOK'
  <2>1. Stores
    BY <1>1, <1>13, StoreKept DEF TypeOK, Lowest
  <2>2. \A n : SUBSET Indexed(n) \subseteq SUBSET Sids
    BY DEF Indexed
  <2>4. UNCHANGED task \/ \E S \in SUBSET Sids : task' = [task EXCEPT ![t] = [task[t] EXCEPT !.got = S]]
    BY <1>13, <2>2 DEF Lowest, Unevicted
  <2>5. DOMAIN pc' = Tasks
    BY <1>1, <1>13 DEF Lowest, Unevicted, Rotate
  <2>3. Notes(t)
    BY <1>1, <2>4, <2>5, Noted DEF Notes
  <2> QED
    BY <1>1, <2>1, <2>3, TaskStep
<1>28. ASSUME NEW t \in Tasks, Abort(t) \/ Expire(t) PROVE TypeOK'
  <2>1. Stores
    BY <1>1, <1>28, StoreKept DEF TypeOK, Abort, Expire
  <2>2. Notes(t)
    BY <1>1, <1>28, Noted DEF Abort, Expire, Done, Notes
  <2> QED
    BY <1>1, <2>1, <2>2, TaskStep
<1>14. ASSUME NEW t \in Tasks, Evict(t) PROVE TypeOK'
  <2>1. Stores
    BY <1>1, <1>14 DEF TypeOK, Evict, Stores
  <2>2. \A s \in task[t].got : [task[t] EXCEPT !.got = task[t].got \ {s}, !.target = s] \in Task
    BY <1>1 DEF Task
  <2>3. Notes(t)
    BY <1>1, <1>14, <2>2 DEF Evict, Notes
  <2> QED
    BY <1>1, <2>1, <2>3, TaskStep
<1>15. ASSUME NEW t \in Tasks, Evicted(t) \/ Unlist(t) \/ Prune(t) \/ UnlistStale(t) PROVE TypeOK'
  <2>1. Stores
    BY <1>1, <1>15, StoreKept DEF TypeOK, Evicted, Unlist, Prune, UnlistStale, Forget
  <2>2. Notes(t)
    BY <1>1, <1>15 DEF Evicted, Unlist, Prune, UnlistStale, Rotate, Notes
  <2> QED
    BY <1>1, <2>1, <2>2, TaskStep
<1>16. ASSUME NEW t \in Tasks, Read(t) PROVE TypeOK'
  <2>1. Stores
    BY <1>1, <1>16, StoreKept DEF TypeOK, Read
  <2>2. Usable(task[t].sid) \in BOOLEAN
    BY DEF Usable, Present
  <2>3. Notes(t)
    BY <1>1, <1>16, <2>2, Noted DEF Read, Notes
  <2> QED
    BY <1>1, <2>1, <2>3, TaskStep
<1>17. ASSUME NEW t \in Tasks, Drop(t) \/ Erase(t) PROVE TypeOK'
  <2>1. Stores
    BY <1>1, <1>17 DEF TypeOK, Drop, Erase, Stores
  <2>2. Notes(t)
    BY <1>1, <1>17 DEF Drop, Erase, Notes
  <2> QED
    BY <1>1, <2>1, <2>2, TaskStep
<1>18. ASSUME NEW t \in Tasks, Members(t) PROVE TypeOK'
  <2>1. Stores
    BY <1>1, <1>18, StoreKept DEF TypeOK, Members
  <2>2. \A found \in {members, {}} : [task[t] EXCEPT !.got = found, !.at = now] \in Task
    BY <1>1 DEF TypeOK, Task
  <2>4. \E found \in {members, {}} : task' = [task EXCEPT ![t] = [task[t] EXCEPT !.got = found, !.at = now]]
    BY <1>18 DEF Members
  <2>3. Notes(t)
    BY <1>1, <1>18, <2>2, <2>4 DEF Members, Notes
  <2> QED
    BY <1>1, <2>1, <2>3, TaskStep
<1>19. ASSUME NEW t \in Tasks, Ranked(t) \/ Scan(t) \/ Probe(t) PROVE TypeOK'
  <2>1. Stores
    BY <1>1, <1>19, StoreKept DEF TypeOK, Ranked, Scan, Probe
  <2>2. /\ \A n : Indexed(n) \subseteq Sids
        /\ task[t].got \subseteq Sids
    BY <1>1 DEF Indexed, Task
  <2>3. \E found \in SUBSET Sids : task' = [task EXCEPT ![t] = [task[t] EXCEPT !.got = found]]
    BY <1>19, <2>2 DEF Ranked, Scan, Probe
  <2>4. Notes(t)
    BY <1>1, <1>19, <2>3, Noted DEF Ranked, Scan, Probe, Notes
  <2> QED
    BY <1>1, <2>1, <2>4, TaskStep
<1>20. ASSUME NEW t \in Tasks, Wipe(t) PROVE TypeOK'
  <2>1. Stores
    BY <1>1, <1>20 DEF TypeOK, Wipe, Stores
  <2>2. Notes(t)
    BY <1>1, <1>20 DEF Wipe, Notes
  <2> QED
    BY <1>1, <2>1, <2>2, TaskStep
<1>21. ASSUME NEW t \in Tasks, Fetch(t) PROVE TypeOK'
  <2>1. Stores
    BY <1>1, <1>21, StoreKept DEF TypeOK, Fetch
  <2> DEFINE here == {s \in task[t].got : Present(s)}
             stale == task[t].got \ {s \in here : store[s].exp >= task[t].at}
             copies == [s \in Sids |-> IF s \in here THEN store[s] ELSE Gone]
  <2>2. here \subseteq Sids /\ stale \subseteq Sids /\ copies \in [Sids -> Session] /\ task[t].got \subseteq Sids
    BY <1>1 DEF Task
  <2>3. \/ task' = [task EXCEPT ![t] = [task[t] EXCEPT !.got = here, !.copy = copies]]
        \/ \E s \in (task[t].got \ stale) \cup {None} :
             task' = [task EXCEPT ![t] = [task[t] EXCEPT !.got = stale, !.target = s]]
    BY <1>21 DEF Fetch
  <2>4. DOMAIN pc' = Tasks
    BY <1>1, <1>21 DEF Fetch
  <2> HIDE DEF here, stale, copies
  <2>5. /\ [task[t] EXCEPT !.got = here, !.copy = copies] \in Task
        /\ \A s \in Sids \cup {None} : [task[t] EXCEPT !.got = stale, !.target = s] \in Task
    BY <1>1, <2>2, ZenonT(30) DEF Task
  <2>6. Notes(t)
    BY <2>2, <2>3, <2>4, <2>5 DEF Notes
  <2> QED
    BY <1>1, <2>1, <2>6, TaskStep
<1>22. ASSUME NEW t \in Tasks, Rewrite(t) PROVE TypeOK'
  <2> DEFINE session(s) == [task[t].copy[s] EXCEPT !.plan = task[t].plan,
                               !.until = now + Larger(1, task[t].copy[s].exp - task[t].at)]
  <2>1. ASSUME NEW s \in Sids PROVE session(s) \in Session
    <3>1. task[t].copy[s] \in Session /\ task[t].at \in Nat /\ task[t].plan \in Plans
      BY <1>1 DEF Task
    <3>2. \A u \in Nat : [task[t].copy[s] EXCEPT !.plan = task[t].plan, !.until = u] \in Session
      BY <3>1 DEF Session
    <3>3. task[t].copy[s].exp \in Nat
      BY <3>1 DEF Session
    <3>4. now + Larger(1, task[t].copy[s].exp - task[t].at) \in Nat
      BY <1>1, <3>1, <3>3 DEF Larger
    <3> QED
      BY <3>2, <3>4
  <2>2. store' = [s \in Sids |-> IF s \in task[t].got THEN session(s) ELSE store[s]]
    BY <1>22 DEF Rewrite, Write
  <2> HIDE DEF session
  <2>3. store' \in [Sids -> Session]
    BY <1>1, <2>1, <2>2
  <2>4. Stores
    BY <1>1, <1>22, <2>3 DEF TypeOK, Rewrite, Stores
  <2>5. Notes(t)
    BY <1>1, <1>22 DEF Rewrite, Notes
  <2> QED
    BY <1>1, <2>4, <2>5, TaskStep
<1>23. ASSUME NEW t \in Tasks, CountSet(t) \/ CountIndex(t) \/ TidySet(t) \/ TidyIndex(t) PROVE TypeOK'
  <2>1. Stores
    BY <1>1, <1>23, StoreKept DEF TypeOK, CountSet, CountIndex, TidySet, TidyIndex
  <2>2. Notes(t)
    BY <1>1, <1>23, Noted DEF CountSet, CountIndex, TidySet, TidyIndex, Notes
  <2> QED
    BY <1>1, <2>1, <2>2, TaskStep
<1>24. ASSUME NEW t \in Tasks, Unperms(t) \/ InvalidateProfile(t) \/ Entitlement(t) PROVE TypeOK'
  <2>1. Stores
    BY <1>1, <1>24 DEF TypeOK, Unperms, InvalidateProfile, Entitlement, NoPerms, Plans, Stores
  <2>2. Notes(t)
    BY <1>1, <1>24, Noted DEF Unperms, InvalidateProfile, Entitlement, Derive, Plans, Notes
  <2> QED
    BY <1>1, <2>1, <2>2, TaskStep
<1>25. ASSUME NEW t \in Tasks, Profile(t) \/ FetchUser(t) \/ SetProfile(t) \/ Rename(t) PROVE TypeOK'
  <2>1. Stores
    BY <1>1, <1>25 DEF TypeOK, Profile, FetchUser, SetProfile, Rename, Stores
  <2>2. Notes(t)
    BY <1>1, <1>25, Noted DEF TypeOK, Profile, FetchUser, SetProfile, Rename, Done, Notes
  <2> QED
    BY <1>1, <2>1, <2>2, TaskStep
<1>26. CASE Tick
  BY <1>1, <1>26 DEF TypeOK, Tick, NoPerms, Plans
<1>27. CASE UNCHANGED vars
  BY <1>1, <1>27 DEF TypeOK, vars
<1> QED
  BY <1>2, <1>3, <1>4, <1>5, <1>6, <1>7, <1>8, <1>9, <1>10, <1>11, <1>12, <1>13, <1>14, <1>15, <1>16, <1>17,
     <1>18, <1>19, <1>20, <1>21, <1>22, <1>23, <1>24, <1>25, <1>26, <1>27, <1>28 DEF Next, Step

LEMMA TypesStart == Init => TypeOK
BY GoneIsSession DEF Init, TypeOK, NoPerms, Plans

----------------------------------------------------------------------------
\* What is written back was read.

\* A step of one task leaves the others what they hold.
LEMMA OthersHold ==
  ASSUME HeldInv, TypeOK', NEW t \in Tasks, Held(t)',
         \A u \in Tasks \ {t} : pc'[u] = pc[u] /\ task'[u] = task[u]
  PROVE  HeldInv'
BY DEF HeldInv, Held, Holds

\* Steps after which a task has nothing to write back.
LEMMA NothingHeld ==
  ASSUME HeldInv, TypeOK', NEW t \in Tasks, NEW l,
         l \notin {"authenticate", "refresh", "lookup", "persist", "served", "rewrite"},
         pc' = [pc EXCEPT ![t] = l],
         UNCHANGED task \/ \E r : task' = [task EXCEPT ![t] = r]
  PROVE  HeldInv'
<1>1. pc'[t] = l /\ \A u \in Tasks \ {t} : pc'[u] = pc[u] /\ task'[u] = task[u]
  BY DEF HeldInv, TypeOK
<1> QED
  BY <1>1, OthersHold DEF Held

LEMMA HeldKept ==
  ASSUME HeldInv, [Next]_vars
  PROVE  HeldInv'
<1> USE DEF Note, Goto, Keep, Done, At
<1>1. TypeOK /\ TypeOK' /\ now \in Nat
  BY TypesKept DEF HeldInv, TypeOK
<1>2. ASSUME NEW t \in Tasks, Begin(t) PROVE HeldInv'
  <2>1. PICK op \in mix.ops[t], flag \in BOOLEAN, sid \in used \cup {None} :
          /\ op \in NeedSession \cup {"logout"} => sid # None
          /\ task' = [task EXCEPT ![t] = [Idle EXCEPT !.op = op, !.sid = sid, !.flag = flag, !.plan = PlanOf(op)]]
          /\ pc' = [pc EXCEPT ![t] = First(op)]
    BY <1>2 DEF Begin
  <2>2. op \in Asked
    BY <1>1, <2>1, MixesAssumption DEF TypeOK
  <2>3. CASE op \in NeedSession
    <3>1. pc'[t] = "authenticate" /\ sid # None
      <4>1. First(op) = "authenticate"
        BY <2>3 DEF First, NeedSession
      <4> QED
        BY <1>1, <2>1, <2>3, <4>1 DEF TypeOK
    <3>3. task'[t] = [Idle EXCEPT !.op = op, !.sid = sid, !.flag = flag, !.plan = PlanOf(op)]
      BY <1>1, <2>1 DEF TypeOK
    <3>4. task'[t].sid = sid /\ task'[t].op = op
      BY <3>3 DEF Idle
    <3>2. \A u \in Tasks \ {t} : pc'[u] = pc[u] /\ task'[u] = task[u]
      BY <1>1, <2>1 DEF TypeOK
    <3> QED
      BY <1>1, <2>3, <3>1, <3>2, <3>4, OthersHold DEF Held
  <2>4. CASE op \notin NeedSession
    <3>1. First(op) \in {"perms", "read", "unperms", "members"}
      BY <2>2, <2>4 DEF First, Asked
    <3> QED
      BY <1>1, <2>1, <3>1, NothingHeld
  <2> QED
    BY <2>3, <2>4
<1>3. ASSUME NEW t \in Tasks, Authenticate(t) PROVE HeldInv'
  <2>1. CASE pc' = [pc EXCEPT ![t] = "refresh"]
    <3> DEFINE s == task[t].sid
    <3>1. s \in Sids /\ task[t] \in Task /\ store[s] \in Session
      BY <1>1, <1>3 DEF HeldInv, Held, Authenticate, Task, TypeOK
    <3>2. task' = [task EXCEPT ![t] = [task[t] EXCEPT !.copy[s] = store[s]]] /\ Usable(s)
      <4>1. pc'[t] = "refresh"
        BY <1>1, <2>1 DEF TypeOK
      <4> QED
        BY <1>1, <1>3, <4>1 DEF Authenticate, TypeOK
    <3>3. /\ task'[t].copy[s] = store[s] /\ task'[t].sid = s /\ pc'[t] = "refresh"
          /\ task'[t].op \in NeedSession
      <4>1. task'[t] = [task[t] EXCEPT !.copy[s] = store[s]] /\ pc'[t] = "refresh"
        BY <1>1, <2>1, <3>2 DEF TypeOK
      <4>2. task[t].op \in NeedSession
        BY <1>3 DEF HeldInv, Held, Authenticate
      <4>3. task'[t].copy[s] = store[s]
        BY <3>1, <4>1, CopyNoted
      <4>4. task'[t].sid = s /\ task'[t].op = task[t].op
        BY <3>1, <4>1 DEF Task
      <4> QED
        BY <4>1, <4>2, <4>3, <4>4
    <3>4. store[s].until # 0
      BY <1>1, <3>1, <3>2 DEF Usable, Present, Session
    <3>5. Held(t)'
      BY <3>1, <3>3, <3>4, ConstantsAssumption DEF Held, Holds
    <3>6. \A u \in Tasks \ {t} : pc'[u] = pc[u] /\ task'[u] = task[u]
      BY <1>1, <2>1, <3>2 DEF TypeOK
    <3> QED
      BY <1>1, <3>5, <3>6, OthersHold
  <2>2. CASE pc' \in {[pc EXCEPT ![t] = "idle"], [pc EXCEPT ![t] = "drop"]}
    <3>1. UNCHANGED task \/ \E r : task' = [task EXCEPT ![t] = r]
      BY <1>3 DEF Authenticate
    <3> QED
      BY <1>1, <2>2, <3>1, NothingHeld
  <2> QED
    BY <1>3, <2>1, <2>2 DEF Authenticate
<1>4. ASSUME NEW t \in Tasks, Refresh(t) PROVE HeldInv'
  <2> DEFINE s == task[t].sid
             c == Copy(t)
             exp == IF c.remember THEN c.exp ELSE now + Ttl
             session == [c EXCEPT !.last = now, !.exp = exp, !.until = now + Larger(1, exp - now)]
  <2>1. s \in Sids /\ c \in Session /\ task[t] \in Task /\ c.until # 0 /\ task[t].op \in NeedSession
    <3>1. task[t] \in Task /\ pc[t] = "refresh" /\ Held(t)
      BY <1>1, <1>4 DEF HeldInv, Refresh, TypeOK
    <3>2. s \in Sids /\ task[t].copy[s] \in Session
      BY <3>1 DEF Held, Task
    <3> QED
      BY <3>1, <3>2 DEF Held, Holds, Copy
  <2>2. session \in Session /\ session.until # 0
    <3>1. exp \in Nat
      BY <1>1, <2>1, ConstantsAssumption DEF Session
    <3>2. \A e \in Nat, u \in Nat : /\ [c EXCEPT !.last = now, !.exp = e, !.until = u] \in Session
                                   /\ [c EXCEPT !.last = now, !.exp = e, !.until = u].until = u
      BY <1>1, <2>1 DEF Session
    <3> DEFINE u == now + Larger(1, exp - now)
    <3>3. u \in Nat \ {0}
      BY <1>1, <3>1, LaterIsNat
    <3> HIDE DEF exp, c
    <3>4. \A v \in Nat \ {0} : /\ [c EXCEPT !.last = now, !.exp = exp, !.until = v] \in Session
                               /\ [c EXCEPT !.last = now, !.exp = exp, !.until = v].until # 0
      BY <3>1, <3>2
    <3> QED
      BY <3>3, <3>4
  <2>3. \/ \E x \in {c, session} : Authorised(t, x)
        \/ pc' = [pc EXCEPT ![t] = "idle"] /\ task' = [task EXCEPT ![t] = Idle]
    BY <1>4 DEF Refresh
  <2> HIDE DEF session, c
  <2>4. ASSUME NEW x \in {c, session}, Authorised(t, x) PROVE HeldInv'
    <3>1. x \in Session /\ x.until # 0
      BY <2>1, <2>2
    <3> DEFINE r == [task[t] EXCEPT !.copy[s] = x, !.at = now]
    <3>2. r = [[task[t] EXCEPT !.copy[s] = x] EXCEPT !.at = now]
      OBVIOUS
    <3>3. r.copy[s] = x /\ r.sid = s /\ r.op \in NeedSession
      <4>1. /\ [task[t] EXCEPT !.copy[s] = x] \in Task
            /\ [task[t] EXCEPT !.copy[s] = x].copy[s] = x
        BY <2>1, <3>1, CopyNoted
      <4> QED
        BY <2>1, <3>2, <4>1 DEF Task
    <3>4. task'[t] = r
      BY <1>1, <2>4 DEF Authorised, TypeOK
    <3>5. Held(t)'
      <4>1. pc'[t] \in {"lookup", "served"}
        BY <1>1, <2>4 DEF Authorised, TypeOK
      <4> HIDE DEF r
      <4>2. task'[t].sid = s /\ task'[t].copy[s].until # 0 /\ task'[t].op \in NeedSession
        BY <3>1, <3>3, <3>4
      <4> QED
        BY <2>1, <4>1, <4>2, ConstantsAssumption DEF Held, Holds
    <3>6. \A u \in Tasks \ {t} : pc'[u] = pc[u] /\ task'[u] = task[u]
      BY <1>1, <2>4 DEF Authorised, TypeOK
    <3> QED
      BY <1>1, <3>5, <3>6, OthersHold
  <2> QED
    BY <1>1, <2>3, <2>4, NothingHeld
<1>5. ASSUME NEW t \in Tasks, Lookup(t) PROVE HeldInv'
  <2> DEFINE s == task[t].sid
             looked == [task[t] EXCEPT !.copy[s].plan = Derive(subscription), !.copy[s].synced = now]
  <2>1. /\ s \in Sids /\ task[t] \in Task /\ task[t].copy[s].until # 0 /\ task[t].copy[s] \in Session
        /\ task[t].op \in NeedSession
    BY <1>1, <1>5 DEF HeldInv, Held, Holds, Lookup, Task, TypeOK
  <2>2. CASE Note(t, looked) /\ Goto(t, "persist")
    <3> DEFINE c == [task[t].copy[s] EXCEPT !.plan = Derive(subscription), !.synced = now]
    <3>1. c \in Session /\ c.until # 0
      BY <1>1, <2>1 DEF Session, Derive, Plans
    <3>2. looked = [task[t] EXCEPT !.copy[s] = c]
      BY <1>1, <2>1 DEF Task
    <3> HIDE DEF c, looked
    <3>3. looked.copy[s] = c /\ looked.sid = s /\ looked.op \in NeedSession
      <4>1. looked.copy[s] = c
        BY <2>1, <3>1, <3>2, CopyNoted
      <4>2. looked.sid = s /\ looked.op = task[t].op
        BY <2>1, <3>2 DEF Task
      <4> QED
        BY <2>1, <4>1, <4>2
    <3>4. task'[t] = looked /\ pc'[t] = "persist"
      BY <1>1, <2>2 DEF TypeOK, looked
    <3>5. Held(t)'
      BY <2>1, <3>1, <3>3, <3>4, ConstantsAssumption DEF Held, Holds
    <3>6. \A u \in Tasks \ {t} : pc'[u] = pc[u] /\ task'[u] = task[u]
      BY <1>1, <2>2 DEF TypeOK
    <3> QED
      BY <1>1, <3>5, <3>6, OthersHold
  <2>3. CASE Note(t, [task[t] EXCEPT !.failed = TRUE]) /\ Goto(t, "served")
    <3> DEFINE r == [task[t] EXCEPT !.failed = TRUE]
    <3>1. r.sid = s /\ r.op = task[t].op
      BY <2>1 DEF Task
    <3>2. task'[t] = r /\ pc'[t] = "served"
      BY <1>1, <2>3 DEF TypeOK
    <3>3. Held(t)'
      BY <2>1, <3>1, <3>2, ConstantsAssumption DEF Held
    <3>4. \A u \in Tasks \ {t} : pc'[u] = pc[u] /\ task'[u] = task[u]
      BY <1>1, <2>3 DEF TypeOK
    <3> QED
      BY <1>1, <3>3, <3>4, OthersHold
  <2> QED
    BY <1>5, <2>2, <2>3 DEF Lookup
<1>6. ASSUME NEW t \in Tasks, Fetch(t) PROVE HeldInv'
  <2> DEFINE here == {s \in task[t].got : Present(s)}
             copies == [s \in Sids |-> IF s \in here THEN store[s] ELSE Gone]
             r == [task[t] EXCEPT !.got = here, !.copy = copies]
  <2>1. CASE pc' = [pc EXCEPT ![t] = "rewrite"]
    <3>1. task' = [task EXCEPT ![t] = r]
      <4>1. pc'[t] = "rewrite"
        BY <1>1, <2>1 DEF TypeOK
      <4> QED
        BY <1>1, <1>6, <4>1 DEF Fetch, TypeOK
    <3>2. here \subseteq Sids /\ task[t] \in Task
      BY <1>1 DEF TypeOK, Task
    <3>3. \A s \in here : copies[s].until # 0
      BY <1>1, <3>2 DEF Present, TypeOK, Session
    <3>4. r.got = here /\ r.copy = copies
      BY <3>2 DEF Task
    <3>5. Held(t)'
      <4>1. pc'[t] = "rewrite" /\ task'[t] = r
        BY <1>1, <2>1, <3>1 DEF TypeOK
      <4> HIDE DEF r, here, copies
      <4> QED
        BY <3>3, <3>4, <4>1 DEF Held, Holds
    <3>6. \A u \in Tasks \ {t} : pc'[u] = pc[u] /\ task'[u] = task[u]
      BY <1>1, <2>1, <3>1 DEF TypeOK
    <3> QED
      BY <1>1, <3>5, <3>6, OthersHold
  <2>2. CASE pc' \in {[pc EXCEPT ![t] = l] : l \in {"end", "unlist_stale", "drop"}}
    <3>1. \E x : task' = [task EXCEPT ![t] = x]
      BY <1>6 DEF Fetch
    <3> QED
      BY <1>1, <2>2, <3>1, NothingHeld
  <2> QED
    BY <1>6, <2>1, <2>2 DEF Fetch
<1>15. ASSUME NEW t \in Tasks, Persist(t) PROVE HeldInv'
  <2>1. pc'[t] = "served" /\ task' = task /\ pc[t] = "persist"
    BY <1>1, <1>15 DEF Persist, TypeOK
  <2>2. Held(t)'
    BY <2>1 DEF HeldInv, Held
  <2>3. \A u \in Tasks \ {t} : pc'[u] = pc[u] /\ task'[u] = task[u]
    BY <1>1, <1>15 DEF Persist, TypeOK
  <2> QED
    BY <1>1, <2>2, <2>3, OthersHold
<1>7. ASSUME NEW t \in Tasks, End(t) \/ Served(t) \/ Perms(t) \/ TrialEnds(t) \/ Subscription(t)
      PROVE  HeldInv'
  <2>1. \E l : /\ pc' = [pc EXCEPT ![t] = l]
               /\ l \notin {"authenticate", "refresh", "lookup", "persist", "served", "rewrite"}
    <3>1. CASE Served(t)
      <4>1. task[t].op \in NeedSession
        BY <1>1, <3>1 DEF HeldInv, Held, Served
      <4> DEFINE next == CASE task[t].op = "validate" -> "end"
                           [] task[t].op = "me" -> "profile"
                           [] task[t].op = "rename" -> "user"
                           [] task[t].op \in {"list", "revoke"} -> "members"
                           [] task[t].op = "logout_all" -> "unprofile"
      <4>2. next \in {"end", "profile", "user", "members", "unprofile"}
        BY <4>1 DEF NeedSession
      <4>3. pc' = [pc EXCEPT ![t] = next]
        BY <3>1 DEF Served
      <4> HIDE DEF next
      <4> QED
        BY <4>2, <4>3
    <3> QED
      BY <1>7, <3>1 DEF End, Perms, TrialEnds, Subscription
  <2>2. UNCHANGED task \/ \E r : task' = [task EXCEPT ![t] = r]
    BY <1>7 DEF End, Served, Perms, TrialEnds, Subscription
  <2> QED
    BY <1>1, <2>1, <2>2, NothingHeld
<1>8. ASSUME NEW t \in Tasks, SetPerms(t) \/ Abort(t) \/ Create(t) \/ Expire(t) \/ Count(t) \/ Lowest(t)
                                \/ Evict(t) \/ Evicted(t)
      PROVE  HeldInv'
  <2>1. \E l : /\ pc' = [pc EXCEPT ![t] = l]
               /\ l \notin {"authenticate", "refresh", "lookup", "persist", "served", "rewrite"}
    <3>1. CASE Lowest(t)
      BY <3>1 DEF Lowest, Unevicted, Rotate
    <3>2. CASE Count(t)
      BY <3>2 DEF Count, Unevicted, Rotate
    <3>3. CASE Evict(t)
      <4>1. pc' = [pc EXCEPT ![t] = "evicted"]
        BY <3>3 DEF Evict
      <4>2. "evicted" \notin {"authenticate", "refresh", "lookup", "persist", "served", "rewrite"}
        OBVIOUS
      <4> QED
        BY <4>1, <4>2, Zenon
    <3>4. CASE Evicted(t)
      <4>1. pc' \in {[pc EXCEPT ![t] = l] : l \in {"evict", "drop", "end"}}
        BY <3>4 DEF Evicted, Rotate
      <4> QED
        BY <4>1
    <3> QED
      BY <1>8, <3>1, <3>2, <3>3, <3>4 DEF SetPerms, Abort, Create, Expire
  <2>2. UNCHANGED task \/ \E r : task' = [task EXCEPT ![t] = r]
    BY <1>8 DEF SetPerms, Abort, Create, Expire, Count, Lowest, Unevicted, Evict, Evicted
  <2> QED
    BY <1>1, <2>1, <2>2, NothingHeld
<1>9. ASSUME NEW t \in Tasks, Read(t) \/ Drop(t) \/ Unlist(t) \/ Erase(t) \/ Members(t) \/ Ranked(t) \/ Scan(t)
      PROVE  HeldInv'
  <2>1. \E l : /\ pc' = [pc EXCEPT ![t] = l]
               /\ l \notin {"authenticate", "refresh", "lookup", "persist", "served", "rewrite"}
    <3>1. After(t) \in {"probe", "fetch", "wipe"}
      BY DEF After
    <3>2. CASE Ranked(t) \/ Scan(t)
      <4>1. \E l \in {After(t), "tidy_set", "scan", "end"} : pc' = [pc EXCEPT ![t] = l]
        BY <3>2 DEF Ranked, Scan
      <4> QED
        BY <3>1, <4>1
    <3>3. CASE Read(t) \/ Drop(t) \/ Unlist(t) \/ Erase(t) \/ Members(t)
      <4>1. \E l \in {"drop", "unlist", "erase", "unprofile", "end", "ranked"} : pc' = [pc EXCEPT ![t] = l]
        BY <3>3 DEF Read, Drop, Unlist, Erase, Members
      <4> QED
        BY <4>1
    <3> QED
      BY <1>9, <3>2, <3>3
  <2>2. UNCHANGED task \/ \E r : task' = [task EXCEPT ![t] = r]
    BY <1>9 DEF Read, Drop, Unlist, Erase, Members, Ranked, Scan
  <2> QED
    BY <1>1, <2>1, <2>2, NothingHeld
<1>10. ASSUME NEW t \in Tasks, Wipe(t) \/ UnlistStale(t) \/ Rewrite(t) \/ Probe(t) \/ Prune(t) \/ CountSet(t)
       PROVE  HeldInv'
  <2>1. \E l : /\ pc' = [pc EXCEPT ![t] = l]
               /\ l \notin {"authenticate", "refresh", "lookup", "persist", "served", "rewrite"}
    BY <1>10 DEF Wipe, UnlistStale, Rewrite, Probe, Prune, CountSet
  <2>2. UNCHANGED task \/ \E r : task' = [task EXCEPT ![t] = r]
    BY <1>10 DEF Wipe, UnlistStale, Rewrite, Probe, Prune, CountSet
  <2> QED
    BY <1>1, <2>1, <2>2, NothingHeld
<1>11. ASSUME NEW t \in Tasks, CountIndex(t) \/ TidySet(t) \/ TidyIndex(t) \/ Unperms(t) \/ InvalidateProfile(t)
       PROVE  HeldInv'
  <2>1. \E l : /\ pc' = [pc EXCEPT ![t] = l]
               /\ l \notin {"authenticate", "refresh", "lookup", "persist", "served", "rewrite"}
    BY <1>11 DEF CountIndex, TidySet, TidyIndex, Unperms, InvalidateProfile
  <2>2. UNCHANGED task \/ \E r : task' = [task EXCEPT ![t] = r]
    BY <1>11 DEF CountIndex, TidySet, TidyIndex, Unperms, InvalidateProfile
  <2> QED
    BY <1>1, <2>1, <2>2, NothingHeld
<1>12. ASSUME NEW t \in Tasks, Entitlement(t) \/ Profile(t) \/ FetchUser(t) \/ SetProfile(t) \/ Rename(t)
       PROVE  HeldInv'
  <2>1. \E l : /\ pc' = [pc EXCEPT ![t] = l]
               /\ l \notin {"authenticate", "refresh", "lookup", "persist", "served", "rewrite"}
    BY <1>12 DEF Entitlement, Profile, FetchUser, SetProfile, Rename
  <2>2. UNCHANGED task \/ \E r : task' = [task EXCEPT ![t] = r]
    BY <1>12 DEF Entitlement, Profile, FetchUser, SetProfile, Rename
  <2> QED
    BY <1>1, <2>1, <2>2, NothingHeld
<1>13. CASE UNCHANGED <<pc, task>>
  BY <1>1, <1>13 DEF HeldInv, Held, Holds
<1>14. CASE Tick \/ UNCHANGED vars
  BY <1>13, <1>14 DEF Tick, vars
<1> QED
  BY <1>2, <1>3, <1>4, <1>5, <1>6, <1>7, <1>8, <1>9, <1>10, <1>11, <1>12, <1>14, <1>15
  DEF Next, Step

----------------------------------------------------------------------------
\* A step that writes no session, or only deletes some.
LEMMA NothingWritten ==
  ASSUME TypeOK, now' = now, NEW s \in Sids, ~Present(s), store'[s] = store[s] \/ store'[s] = Gone
  PROVE  ~(store'[s].until > now')
BY DEF TypeOK, Present, Gone

\* GoneForGood: under any number of requests a deleted or expired session comes back only through
\* a request that had read it (persist_session, refresh_session_activity and
\* update_all_sessions_for_user_perms write back what they have), never through a login.
THEOREM SessionsStayGone == Spec => GoneForGood
<1>1. Init => HeldInv
  BY TypesStart DEF Init, HeldInv, Held
<1>2. HeldInv /\ [Next]_vars => HeldInv'
  BY HeldKept
<1>3. ASSUME HeldInv, [Next]_vars, NEW s \in used, ~Present(s), \A t \in Tasks : ~Holds(t, s)
      PROVE  ~(store'[s].until > now')
  <2> USE DEF Note, Goto, Keep, Done, At, redis, caches, user, history
  <2>1. TypeOK /\ s \in Sids /\ now \in Nat /\ DOMAIN store = Sids /\ store[s] \in Session
    BY <1>3 DEF HeldInv, TypeOK
  <2>2. ASSUME NEW t \in Tasks, Refresh(t) \/ Persist(t)
        PROVE  ~(store'[s].until > now')
    <3>1. task[t].sid # s
      BY <1>3, <2>2 DEF HeldInv, Held, Refresh, Persist
    <3>2. store'[s] = store[s] /\ now' = now
      BY <2>1, <2>2, <3>1 DEF Refresh, Persist, Write
    <3> QED
      BY <1>3, <2>1, <3>2, NothingWritten
  <2>3. ASSUME NEW t \in Tasks, Rewrite(t)
        PROVE  ~(store'[s].until > now')
    <3>1. s \notin task[t].got
      BY <1>3, <2>3 DEF HeldInv, Held, Rewrite
    <3>2. store'[s] = store[s] /\ now' = now
      BY <2>1, <2>3, <3>1 DEF Rewrite, Write
    <3> QED
      BY <1>3, <2>1, <3>2, NothingWritten
  <2>4. ASSUME NEW t \in Tasks, Create(t) \/ Evict(t) \/ Erase(t) \/ Wipe(t)
        PROVE  ~(store'[s].until > now')
    <3>1. now' = now /\ (store'[s] = store[s] \/ store'[s] = Gone)
      BY <1>3, <2>1, <2>4 DEF Create, Evict, Erase, Wipe
    <3> QED
      BY <1>3, <2>1, <3>1, NothingWritten
  <2>5. CASE Tick
    <3>1. now' = now + 1 /\ (store'[s].until = store[s].until \/ store'[s].until = 0)
      BY <2>1, <2>5 DEF Tick, Gone
    <3> QED
      BY <1>3, <2>1, <3>1 DEF Present, Session
  <2>6. CASE UNCHANGED <<now, store>>
    BY <1>3, <2>1, <2>6, NothingWritten
  <2>7. ASSUME NEW t \in Tasks, Begin(t) \/ End(t) \/ Authenticate(t) \/ Lookup(t) \/ Served(t) \/ Perms(t)
                 \/ TrialEnds(t) \/ Subscription(t) \/ SetPerms(t) \/ Abort(t) \/ Expire(t) \/ Count(t)
                 \/ Lowest(t) \/ Evicted(t) \/ Read(t) \/ Drop(t) \/ Unlist(t)
        PROVE  ~(store'[s].until > now')
    BY <2>6, <2>7 DEF Begin, End, Authenticate, Lookup, Served, Perms, TrialEnds, Subscription, SetPerms,
         Abort, Expire, Count, Lowest, Evicted, Read, Drop, Unlist
  <2>8. ASSUME NEW t \in Tasks, Members(t) \/ Ranked(t) \/ Scan(t) \/ Fetch(t) \/ UnlistStale(t) \/ Probe(t)
                 \/ Prune(t) \/ CountSet(t) \/ CountIndex(t) \/ TidySet(t) \/ TidyIndex(t)
        PROVE  ~(store'[s].until > now')
    BY <2>6, <2>8 DEF Members, Ranked, Scan, Fetch, UnlistStale, Probe, Prune, CountSet, CountIndex,
         TidySet, TidyIndex
  <2>9. ASSUME NEW t \in Tasks, Unperms(t) \/ InvalidateProfile(t) \/ Entitlement(t) \/ Profile(t)
                 \/ FetchUser(t) \/ SetProfile(t) \/ Rename(t)
        PROVE  ~(store'[s].until > now')
    BY <2>6, <2>9 DEF Unperms, InvalidateProfile, Entitlement, Profile, FetchUser, SetProfile, Rename
  <2>10. CASE UNCHANGED vars
    BY <2>6, <2>10 DEF vars
  <2> QED
    BY <1>3, <2>2, <2>3, <2>4, <2>5, <2>7, <2>8, <2>9, <2>10 DEF Next, Step
<1>4. HeldInv /\ [Next]_vars =>
        [\A s \in used : Present(s) \/ (\E t \in Tasks : Holds(t, s)) \/ ~(store'[s].until > now')]_vars
  BY <1>3
<1> QED
  BY <1>1, <1>2, <1>4, PTL DEF Spec, GoneForGood

----------------------------------------------------------------------------
\* What users are served.

\* The history of the plans: the plan of today was right just now.
EverRight == /\ ever \in [Plans -> Nat] /\ \A p \in Plans : ever[p] <= now
             /\ ever[Derive(subscription)] = now

\* A session was last synced at a moment when its plan was right.
Right(c) == c.synced <= ever[c.plan]

\* What a request may serve or write is right too: the copies it has read, the plan it has looked
\* up, and the plan an invalidation gives to all sessions within the moment.
Invalidating == {"members", "ranked", "scan", "fetch", "rewrite"}
PlanAt(l, r) ==
  /\ \A s \in Sids : Right(r.copy[s])
  /\ l = "lookup" => r.at <= now
  /\ l \in {"persist", "served"} /\ ~r.failed => ever[r.copy[r.sid].plan] + Sync > r.at
  /\ l \in Invalidating /\ r.op = "invalidate" /\ ~r.flag => ever[r.plan] = now
  /\ l \in Invalidating /\ r.op = "activate" => r.plan = "core"
  /\ l = "rewrite" => r.op \in {"invalidate", "activate"}
  /\ l \in {"fetch", "rewrite"} /\ r.op = "invalidate" => ~r.flag
  /\ l = "user" => r.op = "rename"
  /\ l = "entitlement" => r.op = "invalidate"
PlanFits(t) == PlanAt(pc[t], task[t])
RecentInv == /\ EverRight /\ \A s \in Sids : Right(store[s])
             /\ \A t \in Tasks : PlanFits(t)
             /\ ProfileCurrent /\ profile.until \in Nat

\* What a task notes beside its copies leaves them.
LEMMA CopiesStay ==
  ASSUME NEW r \in Task, NEW v, NEW u
  PROVE  /\ [r EXCEPT !.op = v].copy = r.copy /\ [r EXCEPT !.plan = v].copy = r.copy
         /\ [r EXCEPT !.at = v].copy = r.copy /\ [r EXCEPT !.got = v].copy = r.copy
         /\ [r EXCEPT !.over = v].copy = r.copy
         /\ [r EXCEPT !.got = v, !.at = u].copy = r.copy
         /\ [r EXCEPT !.flag = v].copy = r.copy /\ [r EXCEPT !.name = v].copy = r.copy
         /\ Idle.copy = [s \in Sids |-> Gone]
BY DEF Task, Idle

\* The steps of a task after which it is neither served, nor invalidates, nor has anything to write.
Plain(t) ==
  \E l : /\ pc' = [pc EXCEPT ![t] = l]
         /\ l \notin Invalidating \cup {"lookup", "persist", "served", "user", "entitlement"}
         /\ \/ UNCHANGED task
            \/ \E r : /\ task' = [task EXCEPT ![t] = r]
                      /\ \A s \in Sids : r.copy[s] \in {task[t].copy[s], store[s], Gone}

LEMMA PlainIsRight ==
  ASSUME TypeOK, RecentInv, NEW t \in Tasks, UNCHANGED ever, Plain(t)
  PROVE  PlanFits(t)'
<1>1. pc'[t] \notin Invalidating \cup {"lookup", "persist", "served", "user", "entitlement"}
  BY DEF Plain, TypeOK
<1>2. \A s \in Sids : task'[t].copy[s] \in {task[t].copy[s], store[s], Gone}
  BY DEF Plain, TypeOK
<1>3. Right(Gone)
  BY DEF Right, Gone, RecentInv, EverRight, Plans
<1>4. \A s \in Sids : Right(task'[t].copy[s])
  BY <1>2, <1>3 DEF RecentInv, PlanFits, PlanAt
<1>5. \A s \in Sids : Right(task[t].copy[s])'
  BY <1>4 DEF Right
<1> QED
  BY <1>1, <1>5 DEF PlanFits, PlanAt, Invalidating

\* Most steps are plain.
LEMMA PlainSteps ==
  ASSUME TypeOK, NEW t \in Tasks,
         \/ End(t) \/ Perms(t) \/ TrialEnds(t) \/ Subscription(t) \/ SetPerms(t) \/ Create(t) \/ Count(t)
         \/ Abort(t) \/ Expire(t)
         \/ Lowest(t) \/ Evict(t) \/ Evicted(t) \/ Read(t) \/ Drop(t) \/ Unlist(t) \/ Erase(t) \/ Wipe(t)
         \/ UnlistStale(t) \/ Rewrite(t) \/ Probe(t) \/ Prune(t) \/ CountSet(t) \/ CountIndex(t)
         \/ TidySet(t) \/ TidyIndex(t) \/ Unperms(t) \/ Profile(t) \/ FetchUser(t) \/ SetProfile(t)
         \/ Rename(t)
  PROVE  Plain(t)
<1> USE DEF Goto, Keep, Note, Done, Invalidating
<1>1. task[t] \in Task /\ Idle \in Task /\ \A s \in Sids : Idle.copy[s] = Gone
  BY GoneIsSession, CopiesStay DEF TypeOK
<1>2. ASSUME NEW l, Goto(t, l), l \notin Invalidating \cup {"lookup", "persist", "served", "user", "entitlement"},
             Keep(t)
      PROVE  Plain(t)
  BY <1>2 DEF Plain
<1>3. ASSUME NEW l, Goto(t, l), l \notin Invalidating \cup {"lookup", "persist", "served", "user", "entitlement"},
             NEW r, Note(t, r), r.copy = task[t].copy
      PROVE  Plain(t)
  <2>1. \A s \in Sids : r.copy[s] \in {task[t].copy[s], store[s], Gone}
    BY <1>3
  <2> QED
    BY <1>3, <2>1 DEF Plain
<1>4. ASSUME Done(t) PROVE Plain(t)
  BY <1>1, <1>4 DEF Plain
<1>5. ASSUME Rotate(t) PROVE \E l \in {"drop", "end"} : Goto(t, l)
  BY <1>5 DEF Rotate
<1>6. CASE End(t) \/ Abort(t)
  BY <1>4, <1>6 DEF End, Abort
<1>19. CASE Expire(t)
  BY <1>1, <1>3, <1>19, CopiesStay DEF Expire
<1>7. CASE Perms(t) \/ TrialEnds(t) \/ SetPerms(t) \/ Create(t)
  <2>1. PICK l \in {"create", "subscription", "set_perms", "expire"} : Goto(t, l)
    BY <1>7 DEF Perms, TrialEnds, SetPerms, Create
  <2>2. Keep(t) \/ \E v : Note(t, [task[t] EXCEPT !.plan = v])
    BY <1>7 DEF Perms, TrialEnds, SetPerms, Create
  <2> QED
    BY <1>1, <1>2, <1>3, <2>1, <2>2, CopiesStay
<1>8. CASE Subscription(t)
  <2>1. Goto(t, "set_perms") /\ \E v : Note(t, [task[t] EXCEPT !.plan = v])
    BY <1>8 DEF Subscription
  <2> QED
    BY <1>1, <1>3, <2>1, CopiesStay
<1>9. CASE Count(t)
  <2>1. PICK l \in {"lowest", "drop", "end"} : Goto(t, l)
    BY <1>5, <1>9 DEF Count, Unevicted
  <2>2. Keep(t) \/ \E v : Note(t, [task[t] EXCEPT !.over = v])
    BY <1>9 DEF Count, Unevicted
  <2> QED
    BY <1>1, <1>2, <1>3, <2>1, <2>2, CopiesStay
<1>10. CASE Lowest(t)
  <2>1. PICK l \in {"evict", "drop", "end"} : Goto(t, l)
    BY <1>5, <1>10 DEF Lowest, Unevicted
  <2>2. Keep(t) \/ \E v : Note(t, [task[t] EXCEPT !.got = v])
    BY <1>10 DEF Lowest, Unevicted
  <2> QED
    BY <1>1, <1>2, <1>3, <2>1, <2>2, CopiesStay
<1>11. CASE Evict(t)
  <2>1. PICK v, u : Note(t, [task[t] EXCEPT !.got = v, !.target = u])
    BY <1>11 DEF Evict
  <2> DEFINE r == [task[t] EXCEPT !.got = v, !.target = u]
  <2>2. r.copy = task[t].copy
    BY <1>1 DEF Task
  <2>3. Goto(t, "evicted") /\ Note(t, r)
    BY <1>11, <2>1 DEF Evict
  <2> HIDE DEF r
  <2> QED
    BY <1>3, <2>2, <2>3
<1>12. CASE Evicted(t)
  <2>1. PICK l \in {"evict", "drop", "end"} : Goto(t, l)
    BY <1>5, <1>12 DEF Evicted
  <2> QED
    BY <1>2, <1>12, <2>1 DEF Evicted
<1>13. CASE Read(t) \/ CountSet(t)
  <2>1. PICK l \in {"drop", "count_index"} : Goto(t, l)
    BY <1>13 DEF Read, CountSet
  <2>2. \E v : Note(t, [task[t] EXCEPT !.flag = v])
    BY <1>13 DEF Read, CountSet
  <2> QED
    BY <1>1, <1>3, <2>1, <2>2, CopiesStay
<1>14. CASE Drop(t) \/ Unlist(t) \/ Erase(t) \/ Wipe(t) \/ UnlistStale(t) \/ Rewrite(t)
  <2>1. PICK l \in {"unlist", "erase", "unprofile", "end", "drop"} : Goto(t, l)
    BY <1>14 DEF Drop, Unlist, Erase, Wipe, UnlistStale, Rewrite
  <2> QED
    BY <1>2, <1>14, <2>1 DEF Drop, Unlist, Erase, Wipe, UnlistStale, Rewrite
<1>15. CASE Probe(t)
  <2>1. PICK l \in {"prune", "count_set"} : Goto(t, l)
    BY <1>15 DEF Probe
  <2>2. \E v : Note(t, [task[t] EXCEPT !.got = v])
    BY <1>15 DEF Probe
  <2> QED
    BY <1>1, <1>3, <2>1, <2>2, CopiesStay
<1>16. CASE Prune(t) \/ CountIndex(t) \/ TidySet(t) \/ TidyIndex(t) \/ Unperms(t) \/ Profile(t) \/ SetProfile(t)
  <2>1. PICK l \in {"count_set", "tidy_set", "end", "tidy_index", "unprofile", "fetch_user"} : Goto(t, l)
    BY <1>16 DEF Prune, CountIndex, TidySet, TidyIndex, Unperms, Profile, SetProfile
  <2> QED
    BY <1>2, <1>16, <2>1 DEF Prune, CountIndex, TidySet, TidyIndex, Unperms, Profile, SetProfile
<1>17. CASE FetchUser(t)
  <2>1. Done(t) \/ (Goto(t, "set_profile") /\ \E v : Note(t, [task[t] EXCEPT !.name = v]))
    BY <1>17 DEF FetchUser
  <2> QED
    BY <1>1, <1>3, <1>4, <2>1, CopiesStay
<1>18. CASE Rename(t)
  <2>1. Done(t) \/ (Goto(t, "unprofile") /\ Keep(t))
    BY <1>18 DEF Rename
  <2> QED
    BY <1>2, <1>4, <2>1
<1> QED
  BY <1>6, <1>7, <1>8, <1>9, <1>10, <1>11, <1>12, <1>13, <1>14, <1>15, <1>16, <1>17, <1>18, <1>19

\* Where a step leads, and with what in hand, is all that matters.
LEMMA RightAt ==
  ASSUME TypeOK, NEW t \in Tasks, NEW l, NEW r, UNCHANGED <<now, ever>>,
         Goto(t, l), task' = [task EXCEPT ![t] = r], PlanAt(l, r)
  PROVE  PlanFits(t)'
<1>1. pc'[t] = l /\ task'[t] = r
  BY DEF TypeOK, Goto
<1>2. PlanAt(pc'[t], task'[t])
  BY <1>1
<1> QED
  BY <1>2 DEF PlanFits, PlanAt, Right

\* The steps of the routes that read sessions.
LEMMA RouteSteps ==
  ASSUME HeldInv, RecentInv, NEW t \in Tasks,
         Begin(t) \/ Authenticate(t) \/ Refresh(t) \/ Lookup(t) \/ Persist(t) \/ Served(t)
  PROVE  PlanFits(t)'
<1> USE DEF Goto, Keep, Note
<1>1. /\ TypeOK /\ task[t] \in Task /\ Idle \in Task /\ \A s \in Sids : Idle.copy[s] = Gone
      /\ PlanAt(pc[t], task[t]) /\ Held(t) /\ now \in Nat
      /\ \A s \in Sids : Right(store[s]) /\ store[s] \in Session
      /\ Sync \in Nat \ {0}
  BY GoneIsSession, CopiesStay, ConstantsAssumption DEF TypeOK, HeldInv, RecentInv, PlanFits
<1>2. UNCHANGED <<now, ever, subscription>>
  BY DEF Begin, Authenticate, Refresh, Lookup, Persist, Served, At, user
<1>3. Right(Gone)
  BY DEF Right, Gone, RecentInv, EverRight, Plans
<1>4. CASE Begin(t)
  <2>1. PICK op \in mix.ops[t], flag \in BOOLEAN, sid \in used \cup {None} :
          /\ task' = [task EXCEPT ![t] = [Idle EXCEPT !.op = op, !.sid = sid, !.flag = flag, !.plan = PlanOf(op)]]
          /\ Goto(t, First(op))
    BY <1>4 DEF Begin
  <2>2. op \in Asked
    BY <1>1, <2>1, MixesAssumption DEF TypeOK
  <2> DEFINE r == [Idle EXCEPT !.op = op, !.sid = sid, !.flag = flag, !.plan = PlanOf(op)]
  <2>3. r.op = op /\ r.copy = [s \in Sids |-> Gone] /\ r.plan = PlanOf(op)
    BY DEF Idle
  <2>4. \/ First(op) \in {"authenticate", "perms", "read", "unperms"}
        \/ First(op) = "members" /\ op \in {"activate", "prune"}
    BY <2>2 DEF First, Asked
  <2> HIDE DEF r
  <2>5. PlanAt(First(op), r)
    BY <1>3, <2>3, <2>4 DEF PlanAt, PlanOf, Invalidating
  <2> QED
    BY <1>1, <1>2, <2>1, <2>5, RightAt DEF r
<1>5. CASE Authenticate(t)
  <2>1. task[t].sid \in Sids
    BY <1>1, <1>5 DEF At, Authenticate, Held, Task
  <2>2. CASE Done(t)
    BY <1>1, <1>2, <2>2, PlainIsRight DEF Plain, Done, Invalidating
  <2>3. CASE Goto(t, "drop") /\ Note(t, [task[t] EXCEPT !.op = "mismatch"])
    <3>1. [task[t] EXCEPT !.op = "mismatch"].copy = task[t].copy
      BY <1>1, CopiesStay
    <3>2. Plain(t)
      BY <1>1, <2>3, <3>1 DEF Plain, Invalidating
    <3> QED
      BY <1>1, <1>2, <3>2, PlainIsRight
  <2>4. CASE Goto(t, "refresh") /\ Note(t, [task[t] EXCEPT !.copy[task[t].sid] = store[task[t].sid]])
    <3>1. \A s \in Sids : [task[t] EXCEPT !.copy[task[t].sid] = store[task[t].sid]].copy[s]
                            \in {task[t].copy[s], store[s], Gone}
      BY <1>1, <2>1, CopyNoted
    <3>2. Plain(t)
      BY <2>4, <3>1 DEF Plain, Invalidating
    <3> QED
      BY <1>1, <1>2, <3>2, PlainIsRight
  <2> QED
    BY <1>5, <2>2, <2>3, <2>4 DEF Authenticate
<1>6. CASE Refresh(t)
  <2> DEFINE s == task[t].sid
             c == Copy(t)
             x == IF c.remember THEN c.exp ELSE now + Ttl
             slid == [c EXCEPT !.last = now, !.exp = x, !.until = now + Larger(1, x - now)]
  <2>1. s \in Sids /\ c \in Session /\ c = task[t].copy[s]
    BY <1>1, <1>6 DEF At, Refresh, Held, Task, Copy
  <2>2. slid.synced = c.synced /\ slid.plan = c.plan
    BY <2>1 DEF Session
  <2>3. Done(t) \/ Authorised(t, c) \/ Authorised(t, slid)
    BY <1>6 DEF Refresh
  <2>4. CASE Done(t)
    BY <1>1, <1>2, <2>4, PlainIsRight DEF Plain, Done, Invalidating
  <2>5. ASSUME NEW d, d \in Session, d.synced = c.synced, d.plan = c.plan, Authorised(t, d)
        PROVE  PlanFits(t)'
    <3> DEFINE q == [task[t] EXCEPT !.copy[s] = d]
               r == [q EXCEPT !.at = now]
    <3>1. q \in Task /\ q.copy[s] = d /\ \A y \in Sids \ {s} : q.copy[y] = task[t].copy[y]
      BY <1>1, <2>1, <2>5, CopyNoted
    <3>2. q.sid = s /\ q.op = task[t].op
      BY <1>1 DEF Task
    <3>3. r.copy = q.copy /\ r.at = now /\ r.sid = s
      BY <3>1, <3>2 DEF Task
    <3>4. Note(t, r)
      BY <2>5 DEF Authorised
    <3> HIDE DEF q, r
    <3>5. Right(c) /\ Right(d)
      BY <1>1, <2>1, <2>5 DEF PlanAt, Right
    <3>6. \A y \in Sids : Right(r.copy[y])
      BY <1>1, <3>1, <3>3, <3>5 DEF PlanAt
    <3>7. CASE ResyncDue(t, d)
      <4>1. Goto(t, "lookup")
        BY <2>5, <3>7 DEF Authorised
      <4>2. PlanAt("lookup", r)
        BY <1>1, <3>3, <3>6 DEF PlanAt, Invalidating
      <4> QED
        BY <1>1, <1>2, <3>4, <4>1, <4>2, RightAt
    <3>8. CASE ~ResyncDue(t, d)
      <4>1. Goto(t, "served")
        BY <2>5, <3>8 DEF Authorised
      <4>2. now - d.synced < Sync
        BY <1>1, <2>5, <3>8 DEF ResyncDue, Session
      <4>3. ever[d.plan] + Sync > now
        BY <1>1, <2>5, <3>5, <4>2 DEF Right, Session, RecentInv, EverRight
      <4>4. PlanAt("served", r)
        BY <1>1, <3>1, <3>3, <3>6, <4>3 DEF PlanAt, Invalidating
      <4> QED
        BY <1>1, <1>2, <3>4, <4>1, <4>4, RightAt
    <3> QED
      BY <3>7, <3>8
  <2>6. slid \in Session
    <3>1. x \in Nat
      BY <1>1, <2>1, ConstantsAssumption DEF Session
    <3>2. now + Larger(1, x - now) \in Nat
      BY <1>1, <3>1, LaterIsNat
    <3> HIDE DEF x, c
    <3> QED
      BY <1>1, <2>1, <3>1, <3>2 DEF Session
  <2> HIDE DEF slid, c
  <2> QED
    BY <2>1, <2>2, <2>3, <2>4, <2>5, <2>6
<1>7. CASE Lookup(t)
  <2> DEFINE s == task[t].sid
             c == task[t].copy[s]
             p == Derive(subscription)
  <2>1. s \in Sids /\ c \in Session /\ p \in Plans
    BY <1>1, <1>7 DEF At, Lookup, Held, Task, Derive, Plans
  <2>2. task[t].at <= now /\ task[t].at \in Nat
    BY <1>1, <1>7 DEF Lookup, At, PlanAt, Task
  <2>3. CASE /\ Note(t, [task[t] EXCEPT !.copy[s].plan = p, !.copy[s].synced = now])
             /\ Goto(t, "persist")
    <3> DEFINE d == [c EXCEPT !.plan = p, !.synced = now]
               r == [task[t] EXCEPT !.copy[s] = d]
    <3>1. d \in Session /\ d.plan = p /\ d.synced = now
      BY <1>1, <2>1 DEF Session
    <3>2. task[t] \in Task /\ task[t].copy \in [Sids -> Session]
      BY <1>1 DEF Task
    <3>3. [task[t] EXCEPT !.copy[s].plan = p, !.copy[s].synced = now] = r
      BY <2>1, <3>2 DEF Session, Task
    <3> HIDE DEF d
    <3>4. r \in Task /\ r.copy[s] = d /\ \A y \in Sids \ {s} : r.copy[y] = task[t].copy[y]
      BY <1>1, <2>1, <3>1, CopyNoted
    <3>5. r.sid = s /\ r.at = task[t].at
      BY <1>1 DEF Task
    <3> HIDE DEF r
    <3>6. ever[p] = now
      BY DEF RecentInv, EverRight
    <3>7. \A y \in Sids : Right(r.copy[y])
      BY <1>1, <3>1, <3>4, <3>6 DEF PlanAt, Right
    <3>8. PlanAt("persist", r)
      BY <1>1, <2>2, <3>1, <3>4, <3>5, <3>6, <3>7 DEF PlanAt, Invalidating
    <3> QED
      BY <1>1, <1>2, <2>3, <3>3, <3>8, RightAt
  <2>4. CASE Note(t, [task[t] EXCEPT !.failed = TRUE]) /\ Goto(t, "served")
    <3> DEFINE r == [task[t] EXCEPT !.failed = TRUE]
    <3>1. r.copy = task[t].copy /\ r.failed
      BY <1>1 DEF Task
    <3> HIDE DEF r
    <3>2. PlanAt("served", r)
      BY <1>1, <3>1 DEF PlanAt, Invalidating
    <3> QED
      BY <1>1, <1>2, <2>4, <3>2, RightAt DEF r
  <2> QED
    BY <1>7, <2>3, <2>4 DEF Lookup
<1>8. CASE Persist(t)
  <2>1. pc[t] = "persist" /\ Goto(t, "served") /\ task' = task
    BY <1>8 DEF Persist, At
  <2>2. PlanAt("served", task[t])
    BY <1>1, <2>1 DEF PlanAt, Invalidating
  <2>3. pc'[t] = "served"
    BY <1>1, <2>1 DEF TypeOK
  <2> QED
    BY <1>2, <2>1, <2>2, <2>3 DEF PlanFits, PlanAt, Right
<1>9. CASE Served(t)
  <2> DEFINE copies == [s \in Sids |-> Gone]
             r == [task[t] EXCEPT !.copy = copies, !.failed = FALSE]
  <2>1. r.op = task[t].op /\ \A s \in Sids : r.copy[s] = Gone
    BY <1>1 DEF Task
  <2>2. task[t].op \in NeedSession
    BY <1>1, <1>9 DEF Served, At, Held
  <2>3. PICK l : Goto(t, l) /\ \/ l \in {"end", "profile", "unprofile", "members"}
                               \/ l = "user" /\ task[t].op = "rename"
    BY <1>9, <2>2 DEF Served, NeedSession
  <2>4. Note(t, r)
    BY <1>9 DEF Served
  <2> HIDE DEF r
  <2>5. PlanAt(l, r)
    BY <1>3, <2>1, <2>2, <2>3 DEF PlanAt, Invalidating, NeedSession
  <2> QED
    BY <1>1, <1>2, <2>3, <2>4, <2>5, RightAt
<1> QED
  BY <1>4, <1>5, <1>6, <1>7, <1>8, <1>9

\* The steps on all sessions of the user.
LEMMA SweepSteps ==
  ASSUME HeldInv, RecentInv, NEW t \in Tasks,
         Members(t) \/ Ranked(t) \/ Scan(t) \/ Fetch(t) \/ InvalidateProfile(t) \/ Entitlement(t)
  PROVE  PlanFits(t)'
<1> USE DEF Goto, Keep, Note, At
<1>1. /\ TypeOK /\ task[t] \in Task /\ PlanAt(pc[t], task[t]) /\ now \in Nat
      /\ \A s \in Sids : Right(store[s]) /\ Right(task[t].copy[s])
  BY DEF TypeOK, HeldInv, RecentInv, PlanFits, PlanAt
<1>2. UNCHANGED <<now, ever, subscription>>
  BY DEF Members, Ranked, Scan, Fetch, InvalidateProfile, Entitlement, user
<1>3. Right(Gone)
  BY DEF Right, Gone, RecentInv, EverRight, Plans
<1>n. ASSUME NEW v
      PROVE  LET r == [task[t] EXCEPT !.got = v]
             IN  /\ r.copy = task[t].copy /\ r.op = task[t].op /\ r.flag = task[t].flag
                 /\ r.plan = task[t].plan
  BY <1>1 DEF Task
<1>4. CASE Members(t)
  <2>0. PICK found : Note(t, [task[t] EXCEPT !.got = found, !.at = now])
    BY <1>4 DEF Members
  <2> DEFINE r == [task[t] EXCEPT !.got = found, !.at = now]
  <2>1. r.copy = task[t].copy /\ r.op = task[t].op /\ r.flag = task[t].flag /\ r.plan = task[t].plan
    BY <1>1 DEF Task
  <2>2. pc[t] = "members" /\ Goto(t, "ranked") /\ Note(t, r)
    BY <1>4, <2>0 DEF Members
  <2> HIDE DEF r
  <2>3. PlanAt("ranked", r)
    BY <1>1, <2>1, <2>2 DEF PlanAt, Invalidating
  <2> QED
    BY <1>1, <1>2, <2>2, <2>3, RightAt
<1>5. CASE Ranked(t) \/ Scan(t)
  <2>1. PICK l, v : /\ Goto(t, l) /\ Note(t, [task[t] EXCEPT !.got = v])
                    /\ l \in {After(t), "tidy_set", "scan", "end"}
    BY <1>5 DEF Ranked, Scan
  <2> DEFINE r == [task[t] EXCEPT !.got = v]
  <2>2. r.copy = task[t].copy /\ r.op = task[t].op /\ r.flag = task[t].flag /\ r.plan = task[t].plan
    BY <1>n
  <2>3. pc[t] \in {"ranked", "scan"}
    BY <1>5 DEF Ranked, Scan
  <2>4. /\ After(t) \in {"probe", "fetch", "wipe"}
        /\ After(t) = "fetch" /\ task[t].op = "invalidate" => ~task[t].flag
    BY DEF After
  <2> HIDE DEF r
  <2>5. PlanAt(l, r)
    BY <1>1, <2>1, <2>2, <2>3, <2>4 DEF PlanAt, Invalidating
  <2> QED
    BY <1>1, <1>2, <2>1, <2>5, RightAt DEF r
<1>6. CASE Fetch(t)
  <2>1. CASE task[t].op \in {"invalidate", "activate"}
    <3> DEFINE here == {s \in task[t].got : Present(s)}
               copies == [s \in Sids |-> IF s \in here THEN store[s] ELSE Gone]
               r == [task[t] EXCEPT !.got = here, !.copy = copies]
    <3>1. /\ r.copy = copies /\ r.op = task[t].op /\ r.flag = task[t].flag /\ r.plan = task[t].plan
      BY <1>1 DEF Task
    <3>2. \A s \in Sids : Right(copies[s])
      BY <1>1, <1>3
    <3>3. PICK l \in {"rewrite", "end"} : Goto(t, l) /\ Note(t, r)
      BY <1>6, <2>1 DEF Fetch
    <3>4. pc[t] = "fetch"
      BY <1>6 DEF Fetch
    <3> HIDE DEF r, copies
    <3>5. PlanAt(l, r)
      BY <1>1, <2>1, <3>1, <3>2, <3>3, <3>4 DEF PlanAt, Invalidating
    <3> QED
      BY <1>1, <1>2, <3>3, <3>5, RightAt
  <2>2. CASE task[t].op \notin {"invalidate", "activate"}
    <3>1. PICK v, u : Note(t, [task[t] EXCEPT !.got = v, !.target = u])
      BY <1>6, <2>2 DEF Fetch
    <3>2. PICK l \in {"unlist_stale", "drop", "end"} : Goto(t, l)
      BY <1>6, <2>2 DEF Fetch
    <3> DEFINE r == [task[t] EXCEPT !.got = v, !.target = u]
    <3>3. r.copy = task[t].copy
      BY <1>1 DEF Task
    <3> HIDE DEF r
    <3>4. PlanAt(l, r)
      BY <1>1, <3>2, <3>3 DEF PlanAt, Invalidating
    <3> QED
      BY <1>1, <1>2, <3>1, <3>2, <3>4, RightAt DEF r
  <2> QED
    BY <2>1, <2>2
<1>7. CASE InvalidateProfile(t)
  <2>1. PICK l \in {"members", "entitlement", "end"} :
          /\ Goto(t, l)
          /\ l = "members" => task[t].op = "logout_all" \/ (task[t].op = "invalidate" /\ task[t].flag)
          /\ l = "entitlement" => task[t].op = "invalidate"
    <3>1. CASE task[t].op = "logout_all"
      BY <1>7, <3>1 DEF InvalidateProfile
    <3>2. CASE task[t].op = "invalidate"
      <4>1. CASE task[t].flag
        BY <1>7, <3>2, <4>1 DEF InvalidateProfile
      <4>2. CASE ~task[t].flag
        <5>1. Goto(t, "entitlement")
          BY <1>1, <1>7, <3>2, <4>2 DEF InvalidateProfile, Task
        <5> QED
          BY <3>2, <5>1
      <4> QED
        BY <4>1, <4>2
    <3>3. CASE task[t].op \notin {"logout_all", "invalidate"}
      BY <1>7, <3>3 DEF InvalidateProfile
    <3> QED
      BY <3>1, <3>2, <3>3
  <2>2. PlanAt(l, task[t])
    BY <1>1, <2>1 DEF PlanAt, Invalidating
  <2>3. pc'[t] = l /\ task'[t] = task[t]
    BY <1>1, <1>7, <2>1 DEF TypeOK, InvalidateProfile
  <2> QED
    BY <1>2, <2>2, <2>3 DEF PlanFits, PlanAt, Right
<1>8. CASE Entitlement(t)
  <2>1. CASE Goto(t, "end") /\ Keep(t)
    BY <1>1, <1>2, <2>1, PlainIsRight DEF Plain, Invalidating
  <2>2. CASE Note(t, [task[t] EXCEPT !.plan = Derive(subscription)]) /\ Goto(t, "members")
    <3>3. pc[t] = "entitlement" /\ task[t].op = "invalidate"
      BY <1>1, <1>8 DEF Entitlement, PlanAt
    <3> DEFINE r == [task[t] EXCEPT !.plan = Derive(subscription)]
    <3>1. r.copy = task[t].copy /\ r.plan = Derive(subscription) /\ r.op = task[t].op
      BY <1>1 DEF Task
    <3> HIDE DEF r
    <3>2. PlanAt("members", r)
      BY <1>1, <3>1, <3>3 DEF PlanAt, Invalidating, RecentInv, EverRight
    <3> QED
      BY <1>1, <1>2, <2>2, <3>2, RightAt DEF r
  <2> QED
    BY <1>8, <2>1, <2>2 DEF Entitlement
<1> QED
  BY <1>4, <1>5, <1>6, <1>7, <1>8

\* Whatever a step writes as a session was synced when its plan was right.
LEMMA StoreIsRight ==
  ASSUME HeldInv, RecentInv, NEW t \in Tasks, Step(t), ~Rewrite(t), UNCHANGED <<now, ever>>
  PROVE  \A s \in Sids : Right(store[s])'
<1> USE DEF At, redis
<1>1. /\ TypeOK /\ task[t] \in Task /\ PlanAt(pc[t], task[t]) /\ Held(t) /\ now \in Nat
      /\ \A s \in Sids : Right(store[s]) /\ Right(task[t].copy[s]) /\ task[t].copy[s] \in Session
      /\ DOMAIN store = Sids
  BY DEF TypeOK, HeldInv, RecentInv, PlanFits, PlanAt, Task
<1>2. Right(Gone)
  BY DEF Right, Gone, RecentInv, EverRight, Plans
<1>3. SUFFICES ASSUME NEW s \in Sids PROVE Right(store'[s])
  BY DEF Right
<1>4. ASSUME store'[s] = store[s] \/ store'[s] = Gone PROVE Right(store'[s])
  BY <1>1, <1>2, <1>4
<1>5. CASE Create(t)
  <2>1. store'[s] = store[s] \/ store'[s] = Fresh(task[t].flag, task[t].plan)
    BY <1>1, <1>5 DEF Create
  <2>2. Fresh(task[t].flag, task[t].plan).synced = 0 /\ Fresh(task[t].flag, task[t].plan).plan = task[t].plan
    BY DEF Fresh
  <2>3. task[t].plan \in Plans
    BY <1>1 DEF Task
  <2> HIDE DEF Create
  <2> QED
    BY <1>1, <2>1, <2>2, <2>3 DEF Right, RecentInv, EverRight
<1>6. CASE Refresh(t) \/ Persist(t)
  <2>1. task[t].sid \in Sids /\ Copy(t) = task[t].copy[task[t].sid]
    BY <1>1, <1>6 DEF Refresh, Persist, Held, Task, Copy
  <2> DEFINE c == Copy(t)
             x == IF c.remember THEN c.exp ELSE now + Ttl
             slid == [c EXCEPT !.last = now, !.exp = x, !.until = now + Larger(1, x - now)]
             kept == [c EXCEPT !.until = now + Larger(1, c.exp - now)]
  <2>2. store'[s] \in {store[s], slid, kept}
    <3>1. CASE Refresh(t)
      <4>1. UNCHANGED store \/ store' = [y \in Sids |-> IF y \in {task[t].sid} THEN slid ELSE store[y]]
        BY <3>1 DEF Refresh, Write
      <4> HIDE DEF slid
      <4> QED
        BY <4>1
    <3>2. CASE Persist(t)
      <4>1. UNCHANGED store \/ store' = [y \in Sids |-> IF y \in {task[t].sid} THEN kept ELSE store[y]]
        BY <3>2 DEF Persist, Write
      <4> HIDE DEF kept
      <4> QED
        BY <4>1
    <3> QED
      BY <1>6, <3>1, <3>2
  <2>3. c \in Session
    BY <1>1, <2>1
  <2>4. slid.synced = c.synced /\ slid.plan = c.plan /\ kept.synced = c.synced /\ kept.plan = c.plan
    <3> HIDE DEF c, x
    <3> QED
      BY <2>3 DEF Session
  <2> HIDE DEF slid, kept, c
  <2>5. Right(c)
    BY <1>1, <2>1 DEF c
  <2> QED
    BY <1>1, <2>2, <2>4, <2>5 DEF Right
<1>8. CASE Evict(t) \/ Erase(t) \/ Wipe(t)
  BY <1>1, <1>4, <1>8 DEF Evict, Erase, Wipe
<1>9. CASE \/ Begin(t) \/ End(t) \/ Authenticate(t) \/ Lookup(t) \/ Served(t) \/ Perms(t)
           \/ TrialEnds(t) \/ Subscription(t) \/ SetPerms(t) \/ Abort(t) \/ Expire(t) \/ Count(t)
           \/ Lowest(t) \/ Evicted(t) \/ Read(t) \/ Drop(t) \/ Unlist(t)
  BY <1>4, <1>9 DEF Begin, End, Authenticate, Lookup, Served, Perms, TrialEnds, Subscription, SetPerms,
     Abort, Expire, Count, Lowest, Evicted, Read, Drop, Unlist
<1>10. CASE \/ Members(t) \/ Ranked(t) \/ Scan(t) \/ Fetch(t) \/ UnlistStale(t) \/ Probe(t)
            \/ Prune(t) \/ CountSet(t) \/ CountIndex(t) \/ TidySet(t) \/ TidyIndex(t)
  BY <1>4, <1>10 DEF Members, Ranked, Scan, Fetch, UnlistStale, Probe, Prune, CountSet, CountIndex,
     TidySet, TidyIndex
<1>11. CASE \/ Unperms(t) \/ InvalidateProfile(t) \/ Entitlement(t) \/ Profile(t)
            \/ FetchUser(t) \/ SetProfile(t) \/ Rename(t)
  BY <1>4, <1>11 DEF Unperms, InvalidateProfile, Entitlement, Profile, FetchUser, SetProfile, Rename
<1> QED
  BY <1>5, <1>6, <1>8, <1>9, <1>10, <1>11 DEF Step

\* A step moves one task.
LEMMA OneMoves ==
  ASSUME TypeOK, NEW t \in Tasks, Step(t), NEW u \in Tasks, u # t
  PROVE  pc'[u] = pc[u] /\ task'[u] = task[u]
<1> USE DEF Goto, Keep, Note, Done, TypeOK
<1>1. CASE \/ Begin(t) \/ End(t) \/ Authenticate(t) \/ Lookup(t) \/ Served(t) \/ Perms(t)
           \/ TrialEnds(t) \/ Subscription(t) \/ SetPerms(t) \/ Abort(t) \/ Expire(t)
  BY <1>1 DEF Begin, End, Authenticate, Lookup, Served, Perms, TrialEnds, Subscription, SetPerms, Abort, Expire
<1>2. CASE \/ Refresh(t) \/ Persist(t) \/ Create(t) \/ Count(t) \/ Lowest(t) \/ Evict(t) \/ Evicted(t)
           \/ Read(t) \/ Drop(t) \/ Unlist(t) \/ Erase(t)
  BY <1>2 DEF Refresh, Authorised, Persist, Create, Count, Lowest, Unevicted, Evict, Evicted, Rotate, Read, Drop, Unlist,
     Erase
<1>3. CASE \/ Members(t) \/ Ranked(t) \/ Scan(t) \/ Wipe(t) \/ Fetch(t) \/ UnlistStale(t) \/ Rewrite(t)
           \/ Probe(t)
  BY <1>3 DEF Members, Ranked, Scan, Wipe, Fetch, UnlistStale, Rewrite, Probe
<1>4. CASE \/ Prune(t) \/ CountSet(t) \/ CountIndex(t) \/ TidySet(t) \/ TidyIndex(t)
           \/ Unperms(t) \/ InvalidateProfile(t) \/ Entitlement(t) \/ Profile(t)
           \/ FetchUser(t) \/ SetProfile(t) \/ Rename(t)
  BY <1>4 DEF Prune, CountSet, CountIndex, TidySet, TidyIndex, Unperms, InvalidateProfile, Entitlement, Profile,
     FetchUser, SetProfile, Rename
<1> QED
  BY <1>1, <1>2, <1>3, <1>4 DEF Step

\* A step leaves the moment, the subscription and, unless it writes plans into the sessions, its history;
\* what it does to the cached profile.
LEMMA StepKeeps ==
  ASSUME NEW t \in Tasks, Step(t)
  PROVE  /\ UNCHANGED <<now, subscription>> /\ (UNCHANGED ever \/ Rewrite(t))
         /\ \/ UNCHANGED <<profile, name, misread>> /\ ~InvalidateProfile(t)
            \/ SetProfile(t) \/ InvalidateProfile(t) \/ Rename(t) \/ Abort(t)
<1> USE DEF At, user, caches, history, redis
<1>0. ASSUME UNCHANGED <<now, user, profile, misread>>, pc[t] # "unprofile"
      PROVE  /\ UNCHANGED <<now, ever, subscription>>
             /\ UNCHANGED <<profile, name, misread>> /\ ~InvalidateProfile(t)
  BY <1>0 DEF InvalidateProfile
<1>1. CASE \/ Begin(t) \/ End(t) \/ Authenticate(t) \/ Lookup(t) \/ Served(t) \/ Perms(t)
           \/ TrialEnds(t) \/ Subscription(t) \/ SetPerms(t) \/ Expire(t)
  BY <1>0, <1>1 DEF Begin, End, Authenticate, Lookup, Served, Perms, TrialEnds, Subscription, SetPerms, Expire
<1>2. CASE \/ Refresh(t) \/ Persist(t) \/ Create(t) \/ Count(t) \/ Lowest(t) \/ Evict(t) \/ Evicted(t)
           \/ Read(t) \/ Drop(t) \/ Unlist(t) \/ Erase(t)
  BY <1>0, <1>2 DEF Refresh, Authorised, Persist, Create, Count, Lowest, Unevicted, Evict, Evicted, Rotate, Read,
     Drop, Unlist, Erase
<1>3. CASE \/ Members(t) \/ Ranked(t) \/ Scan(t) \/ Wipe(t) \/ Fetch(t) \/ UnlistStale(t) \/ Probe(t)
  BY <1>0, <1>3 DEF Members, Ranked, Scan, Wipe, Fetch, UnlistStale, Probe
<1>4. CASE \/ Prune(t) \/ CountSet(t) \/ CountIndex(t) \/ TidySet(t) \/ TidyIndex(t)
           \/ Unperms(t) \/ Entitlement(t) \/ Profile(t) \/ FetchUser(t)
  BY <1>0, <1>4 DEF Prune, CountSet, CountIndex, TidySet, TidyIndex, Unperms, Entitlement, Profile, FetchUser
<1>5. CASE InvalidateProfile(t) \/ SetProfile(t) \/ Rename(t) \/ Abort(t)
  BY <1>5 DEF InvalidateProfile, SetProfile, Rename, Abort
<1>6. CASE Rewrite(t)
  BY <1>6 DEF Rewrite, InvalidateProfile
<1> QED
  BY <1>1, <1>2, <1>3, <1>4, <1>5, <1>6 DEF Step

\* A step keeps the cached profile right, or leaves somebody to drop it.
LEMMA ProfileKept ==
  ASSUME HeldInv, RecentInv, NEW t \in Tasks, Step(t)
  PROVE  ProfileCurrent' /\ profile'.until \in Nat
<1>1. TypeOK /\ now \in Nat /\ UNCHANGED now /\ ProfileCurrent /\ profile.until \in Nat
  BY StepKeeps DEF HeldInv, TypeOK, RecentInv
<1>2. CASE UNCHANGED <<profile, name, misread>> /\ ~InvalidateProfile(t) /\ ~Abort(t)
  <2>1. ASSUME NEW u \in Tasks, task[u].op = "rename", pc[u] = "unprofile"
        PROVE  task'[u].op = "rename" /\ pc'[u] = "unprofile"
    <3>1. CASE u # t
      BY <1>1, <2>1, <3>1, OneMoves
    <3>2. CASE u = t
      BY <1>2, <2>1, <3>2 DEF Step, Begin, End, Authenticate, Refresh, Lookup, Persist, Served, Perms, TrialEnds,
         Subscription, SetPerms, Create, Expire, Count, Lowest, Evict, Evicted, Read, Drop, Unlist, Erase, Members,
         Ranked, Scan, Wipe, Fetch, UnlistStale, Rewrite, Probe, Prune, CountSet, CountIndex, TidySet, TidyIndex, Unperms,
         Entitlement, Profile, FetchUser, SetProfile, Rename, At
    <3> QED
      BY <3>1, <3>2
  <2> QED
    BY <1>1, <1>2, <2>1 DEF ProfileCurrent
<1>3. CASE SetProfile(t)
  <2>1. profile'.until = now + ProfileTtl /\ profile'.name = task[t].name
    BY <1>3 DEF SetProfile
  <2>2. misread' = (misread \/ task[t].name # name) /\ name' = name
    BY <1>3 DEF SetProfile, At, user
  <2>3. profile'.until \in Nat
    BY <1>1, <2>1, ConstantsAssumption
  <2>4. profile'.name # name' => misread'
    BY <2>1, <2>2
  <2> QED
    BY <2>3, <2>4 DEF ProfileCurrent
<1>4. CASE InvalidateProfile(t)
  BY <1>1, <1>4 DEF InvalidateProfile, ProfileCurrent, NoProfile
<1>5. CASE Rename(t)
  <2>1. task[t].op = "rename"
    BY <1>5 DEF Rename, RecentInv, PlanFits, PlanAt
  <2>2. CASE Goto(t, "unprofile") /\ Keep(t)
    <3>1. task'[t].op = "rename" /\ pc'[t] = "unprofile"
      BY <1>1, <2>1, <2>2 DEF Goto, Keep, TypeOK
    <3> QED
      BY <1>1, <1>5, <3>1 DEF ProfileCurrent, Rename, caches
  <2>3. CASE UNCHANGED name /\ Done(t)
    <3>1. UNCHANGED <<profile, misread>> /\ pc[t] = "user"
      BY <1>5 DEF Rename, caches, history
    <3>2. ASSUME NEW u \in Tasks, task[u].op = "rename", pc[u] = "unprofile"
          PROVE  task'[u].op = "rename" /\ pc'[u] = "unprofile"
      BY <1>1, <3>1, <3>2, OneMoves
    <3> QED
      BY <1>1, <2>3, <3>1, <3>2 DEF ProfileCurrent
  <2> QED
    BY <1>5, <2>2, <2>3 DEF Rename
<1>6. CASE Abort(t)
  <2>1. UNCHANGED <<profile, name>> /\ (misread => misread')
    BY <1>6 DEF Abort, At, user, caches
  <2>2. ASSUME ~misread', NEW u \in Tasks, task[u].op = "rename", pc[u] = "unprofile"
        PROVE  task'[u].op = "rename" /\ pc'[u] = "unprofile"
    <3>1. u # t
      BY <1>6, <2>2 DEF Abort
    <3> QED
      BY <1>1, <2>2, <3>1, OneMoves
  <2> QED
    BY <1>1, <2>1, <2>2 DEF ProfileCurrent
<1> QED
  BY <1>2, <1>3, <1>4, <1>5, <1>6, StepKeeps

\* An activation or an invalidation writes plans that are right now, and only moves the history of the plans on.
LEMMA RewriteIsRight ==
  ASSUME HeldInv, RecentInv, NEW t \in Tasks, Rewrite(t)
  PROVE  /\ EverRight'
         /\ \A s \in Sids : Right(store[s])'
         /\ \A u \in Tasks : PlanFits(u)'
<1>1. /\ TypeOK /\ now \in Nat /\ UNCHANGED <<now, subscription, task>> /\ pc' = [pc EXCEPT ![t] = "end"]
      /\ pc[t] = "rewrite" /\ DOMAIN store = Sids /\ task[t].plan \in Plans
      /\ \A u \in Tasks : task[u] \in Task /\ PlanAt(pc[u], task[u])
      /\ \A s \in Sids : store[s] \in Session /\ Right(store[s])
      /\ ever \in [Plans -> Nat] /\ Sync \in Nat
  BY ConstantsAssumption DEF Rewrite, Goto, Keep, HeldInv, TypeOK, RecentInv, EverRight, PlanFits, Task
<1>2. /\ ever' \in [Plans -> Nat] /\ \A p \in Plans : ever[p] <= ever'[p] /\ ever'[p] <= now
  <2>1. ever' = ever \/ ever' = [ever EXCEPT !["core"] = now]
    BY DEF Rewrite
  <2>2. \A p \in Plans : ever[p] <= now
    BY DEF RecentInv, EverRight
  <2> QED
    BY <1>1, <2>1, <2>2
<1>3. ever'[task[t].plan] = now
  <2>1. CASE task[t].op = "activate"
    <3>1. task[t].plan = "core" /\ ever' = [ever EXCEPT !["core"] = now]
      BY <1>1, <2>1 DEF Rewrite, PlanAt, Invalidating
    <3> QED
      BY <1>1, <3>1
  <2>2. CASE task[t].op = "invalidate"
    <3>1. ever[task[t].plan] = now
      BY <1>1, <2>2 DEF PlanAt, Invalidating
    <3> QED
      BY <1>1, <1>2, <3>1
  <2> QED
    BY <1>1, <2>1, <2>2 DEF PlanAt
<1>4. ASSUME NEW c \in Session, Right(c) PROVE c.synced <= ever'[c.plan] /\ c.synced <= now
  <2>1. c.plan \in Plans /\ c.synced \in Nat
    BY DEF Session
  <2> QED
    BY <1>1, <1>2, <1>4, <2>1 DEF Right
<1>5. EverRight'
  <2>1. Derive(subscription) \in Plans
    BY DEF Derive, Plans
  <2>2. ever'[Derive(subscription)] = now
    BY <1>1, <1>2, <2>1 DEF RecentInv, EverRight
  <2> QED
    BY <1>1, <1>2, <2>2 DEF EverRight
<1>6. ASSUME NEW s \in Sids PROVE Right(store[s])'
  <2> DEFINE c == task[t].copy[s]
  <2>0. c \in Session /\ Right(c)
    BY <1>1 DEF Task, PlanAt
  <2>1. \/ store'[s] = store[s]
        \/ \E z : store'[s] = [c EXCEPT !.plan = task[t].plan, !.until = z]
    BY <1>1 DEF Rewrite, Write
  <2> HIDE DEF c
  <2>2. \A z : /\ [c EXCEPT !.plan = task[t].plan, !.until = z].synced = c.synced
               /\ [c EXCEPT !.plan = task[t].plan, !.until = z].plan = task[t].plan
    BY <2>0 DEF Session
  <2>3. c.synced <= now
    BY <1>4, <2>0
  <2>4. store'[s].synced <= ever'[store'[s].plan]
    BY <1>1, <1>3, <1>4, <2>1, <2>2, <2>3
  <2> QED
    BY <2>4 DEF Right
<1>7. ASSUME NEW u \in Tasks PROVE PlanFits(u)'
  <2>1. \A s \in Sids : task[u].copy[s].synced <= ever'[task[u].copy[s].plan]
    BY <1>1, <1>4 DEF Task, PlanAt
  <2>2. CASE u = t
    BY <1>1, <2>1, <2>2 DEF TypeOK, PlanFits, PlanAt, Right, Invalidating
  <2>3. CASE u # t
    <3>1. pc'[u] = pc[u]
      BY <1>1, <2>3 DEF TypeOK
    <3>2. pc[u] \in {"persist", "served"} /\ ~task[u].failed => ever'[task[u].copy[task[u].sid].plan] + Sync > task[u].at
      <4> SUFFICES ASSUME pc[u] \in {"persist", "served"}, ~task[u].failed
                   PROVE  ever'[task[u].copy[task[u].sid].plan] + Sync > task[u].at
        OBVIOUS
      <4>1. task[u].sid \in Sids /\ task[u].at \in Nat
        BY <1>1 DEF HeldInv, Held, Task
      <4>2. task[u].copy[task[u].sid].plan \in Plans
        BY <1>1, <4>1 DEF Task, Session
      <4>3. ever[task[u].copy[task[u].sid].plan] + Sync > task[u].at
        BY <1>1 DEF PlanAt
      <4> QED
        BY <1>1, <1>2, <4>1, <4>2, <4>3
    <3>3. pc[u] \in Invalidating /\ task[u].op = "invalidate" /\ ~task[u].flag => ever'[task[u].plan] = now
      <4>1. task[u].plan \in Plans
        BY <1>1 DEF Task
      <4> QED
        BY <1>1, <1>2, <4>1 DEF PlanAt
    <3> QED
      BY <1>1, <2>1, <3>1, <3>2, <3>3 DEF PlanFits, PlanAt, Right
  <2> QED
    BY <2>2, <2>3
<1> QED
  BY <1>5, <1>6, <1>7

\* Every step keeps what is served right.
LEMMA RecentStep ==
  ASSUME HeldInv, RecentInv, NEW t \in Tasks, Step(t)
  PROVE  RecentInv'
<1>0. TypeOK /\ UNCHANGED <<now, subscription>> /\ (UNCHANGED ever \/ Rewrite(t))
  BY StepKeeps DEF HeldInv
<1>1. CASE Rewrite(t)
  BY <1>1, RewriteIsRight, ProfileKept DEF RecentInv
<1>2. CASE ~Rewrite(t)
  <2>1. UNCHANGED <<now, ever, subscription>>
    BY <1>0, <1>2
  <2>2. PlanFits(t)'
    <3>1. CASE Begin(t) \/ Authenticate(t) \/ Refresh(t) \/ Lookup(t) \/ Persist(t) \/ Served(t)
      BY <3>1, RouteSteps
    <3>2. CASE Members(t) \/ Ranked(t) \/ Scan(t) \/ Fetch(t) \/ InvalidateProfile(t) \/ Entitlement(t)
      BY <3>2, SweepSteps
    <3> QED
      BY <1>0, <1>2, <2>1, <3>1, <3>2, PlainSteps, PlainIsRight DEF Step
  <2>3. ASSUME NEW u \in Tasks, u # t PROVE PlanFits(u)'
    <3>1. PlanAt(pc[u], task[u]) /\ pc'[u] = pc[u] /\ task'[u] = task[u]
      BY <1>0, <2>3, OneMoves DEF RecentInv, PlanFits
    <3> QED
      BY <2>1, <3>1 DEF PlanFits, PlanAt, Right
  <2>4. EverRight'
    BY <2>1 DEF EverRight, RecentInv
  <2> QED
    BY <1>2, <2>1, <2>2, <2>3, <2>4, StoreIsRight, ProfileKept DEF RecentInv
<1> QED
  BY <1>1, <1>2

\* Time passes: what was right stays so recent, and nobody is about to write what he looked up.
LEMMA RecentTick ==
  ASSUME HeldInv, RecentInv, Tick
  PROVE  RecentInv'
<1>1. /\ now \in Nat /\ now' = now + 1 /\ UNCHANGED <<pc, task, name, misread>>
      /\ \A u \in Tasks : task[u] \in Task
      /\ \A s \in Sids : store[s] \in Session
      /\ Sync \in Nat
  BY ConstantsAssumption DEF Tick, history, HeldInv, TypeOK
<1>2. PICK sub \in Subscriptions : subscription' = sub /\ ever' = [ever EXCEPT ![Derive(sub)] = now + 1]
  BY DEF Tick
<1>3. Derive(sub) \in Plans
  BY DEF Derive, Plans
<1>4. EverRight' /\ \A p \in Plans : ever'[p] >= ever[p]
  BY <1>1, <1>2, <1>3 DEF RecentInv, EverRight
<1>5. ASSUME NEW c, c.plan \in Plans, c.synced \in Nat, Right(c) PROVE c.synced <= ever'[c.plan]
  BY <1>4, <1>5 DEF Right, RecentInv, EverRight
<1>6. ASSUME NEW s \in Sids PROVE Right(store[s])'
  <2>1. store'[s] = store[s] \/ store'[s] = Gone
    BY DEF Tick
  <2>2. Right(Gone)
    BY DEF Right, Gone, RecentInv, EverRight, Plans
  <2>3. Gone.plan \in Plans /\ Gone.synced \in Nat /\ store[s].plan \in Plans /\ store[s].synced \in Nat
    BY <1>1 DEF Gone, Plans, Session
  <2>4. store'[s].synced <= ever'[store'[s].plan]
    BY <1>5, <2>1, <2>2, <2>3 DEF RecentInv
  <2> QED
    BY <2>4 DEF Right
<1>7. ASSUME NEW u \in Tasks PROVE PlanFits(u)'
  <2>1. PlanAt(pc[u], task[u])
    BY DEF RecentInv, PlanFits
  <2>2. /\ pc[u] # "persist"
        /\ ~(pc[u] \in Invalidating /\ task[u].op = "invalidate")
    BY DEF Tick, Invalidating
  <2>3. \A s \in Sids : task[u].copy[s].synced <= ever'[task[u].copy[s].plan]
    BY <1>1, <1>5, <2>1 DEF PlanAt, Task, Session
  <2>4. pc[u] = "served" => task[u].sid \in Sids
    BY <1>1 DEF HeldInv, Held, Task
  <2>5. pc[u] = "served" /\ ~task[u].failed => ever'[task[u].copy[task[u].sid].plan] + Sync > task[u].at
    <3> SUFFICES ASSUME pc[u] = "served", ~task[u].failed
                 PROVE  ever'[task[u].copy[task[u].sid].plan] + Sync > task[u].at
      OBVIOUS
    <3>1. task[u].copy[task[u].sid].plan \in Plans /\ task[u].at \in Nat
      BY <1>1, <2>4 DEF Task, Session
    <3> QED
      BY <1>1, <1>4, <2>1, <3>1 DEF PlanAt, RecentInv, EverRight
  <2>6. pc[u] = "lookup" => task[u].at <= now + 1
    BY <1>1, <2>1 DEF PlanAt, Task
  <2> QED
    BY <1>1, <2>1, <2>2, <2>3, <2>5, <2>6 DEF PlanFits, PlanAt, Right, Invalidating
<1>8. ProfileCurrent' /\ profile'.until \in Nat
  <2>1. profile' = profile \/ profile'.until = 0
    BY DEF Tick, NoProfile
  <2>2. profile.until \in Nat /\ ProfileCurrent
    BY DEF RecentInv
  <2> QED
    BY <1>1, <2>1, <2>2 DEF ProfileCurrent
<1> QED
  BY <1>4, <1>6, <1>7, <1>8 DEF RecentInv

LEMMA RecentStart ==
  ASSUME Init
  PROVE  HeldInv /\ RecentInv
<1>1. HeldInv
  BY TypesStart DEF Init, HeldInv, Held
<1>2. EverRight
  BY DEF Init, EverRight, Derive, Plans
<1>3. Right(Gone)
  BY <1>2 DEF Right, Gone, EverRight, Plans
<1>4. \A t \in Tasks : PlanFits(t)
  BY <1>3, CopiesStay, GoneIsSession DEF Init, PlanFits, PlanAt, Invalidating, Idle
<1>5. ProfileCurrent /\ profile.until \in Nat
  BY DEF Init, ProfileCurrent, NoProfile
<1> QED
  BY <1>1, <1>2, <1>3, <1>4, <1>5 DEF Init, RecentInv

LEMMA RecentKept ==
  ASSUME HeldInv, RecentInv, [Next]_vars
  PROVE  HeldInv' /\ RecentInv'
<1>1. HeldInv'
  BY HeldKept
<1>2. CASE UNCHANGED vars
  <2>1. UNCHANGED <<now, ever, subscription, store, profile, name, misread, pc, task>>
    BY <1>2 DEF vars, user, redis, caches, history
  <2>2. EverRight' /\ ProfileCurrent' /\ profile'.until \in Nat
    BY <2>1 DEF RecentInv, EverRight, ProfileCurrent
  <2>3. \A s \in Sids : Right(store[s])'
    BY <2>1 DEF RecentInv, Right
  <2>4. \A t \in Tasks : PlanFits(t)'
    BY <2>1 DEF RecentInv, PlanFits, PlanAt, Right
  <2> QED
    BY <1>1, <2>2, <2>3, <2>4 DEF RecentInv
<1> QED
  BY <1>1, <1>2, RecentStep, RecentTick DEF Next

\* ServedRecently: under any number of requests, invalidations, activations and changes of the
\* subscription, whatever calls fail, a request that could look the plan up is served one that was right,
\* or that an activation wrote, at most Sync before (require_session); and a cached profile is the
\* current one unless it was read before a change or its change was cut short (auth_me,
\* auth_update_profile).
THEOREM PlansAreRecent == Spec => []ServedRecently
<1>1. Init => HeldInv /\ RecentInv
  BY RecentStart
<1>2. HeldInv /\ RecentInv /\ [Next]_vars => HeldInv' /\ RecentInv'
  BY RecentKept
<1>3. RecentInv => ServedRecently
  BY DEF RecentInv, PlanFits, PlanAt, ServedRecently, PlanRecent, Copy
<1> QED
  BY <1>1, <1>2, <1>3, PTL DEF Spec

----------------------------------------------------------------------------
\* How many sessions the user has.

\* Until a session is written back that was deleted, expired or unlisted meanwhile, the index has every
\* live session at the moment when it ends, and nothing of those that lost their places.
Capped(s) ==
  /\ Usable(s) /\ s \notin strays => index[s] = store[s].exp
  /\ s \in strays => index[s] = 0 /\ s \in used
  /\ s \notin used => index[s] = 0 /\ ~Present(s)

\* A login that went over the cap is about to count, or has counted all there are, or has the
\* sessions in hand that go.
Doomed == UNION {task[t].got : t \in {u \in Tasks : pc[u] \in {"evict", "evicted"}}}
CountedAll(t) == pc[t] = "lowest" /\ Cardinality(Indexed(task[t].at)) <= Cap + task[t].over
Counting ==
  \/ \E t \in Tasks : pc[t] \in {"expire", "count"} \/ CountedAll(t)
  \/ Cardinality(Live \ Doomed) <= Cap

\* What a login counts is what had not expired when it began to.
Started(t) == pc[t] \in {"count", "lowest"} => task[t].at <= now

CapInv ==
  /\ now # 0 /\ index \in [Sids -> Nat]
  /\ \A t \in Tasks : Started(t)
  /\ ~revived => (~uncapped => Counting) /\ \A s \in Sids : Capped(s)

\* A live session is in the index.
LEMMA LiveIsIndexed ==
  ASSUME TypeOK, now # 0, NEW s \in Sids, Capped(s), Usable(s), s \notin strays
  PROVE  index[s] >= now /\ index[s] # 0 /\ index[s] = store[s].exp /\ s \in used /\ Present(s)
<1>1. now \in Nat /\ store[s].exp \in Nat
  BY DEF TypeOK, Session
<1> QED
  BY <1>1 DEF Capped, Usable

\* Most steps write no session: they delete some, and take some off the index, which become strays
\* if they were alive.
Removing ==
  /\ UNCHANGED <<now, used, revived>>
  /\ strays \subseteq strays' /\ index' \in [Sids -> Nat]
  /\ \A s \in Sids :
       /\ store'[s] \in {store[s], Gone}
       /\ index'[s] \in {index[s], 0}
       /\ store'[s] = store[s] /\ Present(s) /\ index[s] # 0 /\ index[s] >= now => s \in strays' \/ index'[s] = index[s]
       /\ s \in strays' => s \in strays \/ (index'[s] = 0 /\ Present(s))

\* The others write back a session that is alive and in the index, with its place.
Writing ==
  /\ UNCHANGED <<now, used, strays>> /\ index' \in [Sids -> Nat]
  /\ \A s \in Sids :
       \/ store'[s] = store[s] /\ index'[s] = index[s]
       \/ Usable(s) /\ index[s] # 0 /\ index'[s] = store'[s].exp

LEMMA CappedKept ==
  ASSUME HeldInv, CapInv, ~revived, Removing \/ Writing
  PROVE  /\ index' \in [Sids -> Nat]
         /\ \A s \in Sids : Capped(s)'
         /\ Live' \subseteq Live
         /\ \A n \in Nat : n <= now => Indexed(n)' \subseteq Indexed(n)
<1>1. /\ TypeOK /\ now \in Nat \ {0} /\ index \in [Sids -> Nat] /\ now' = now
      /\ \A s \in Sids : Capped(s) /\ store[s] \in Session /\ index[s] \in Nat
  BY DEF HeldInv, TypeOK, CapInv, Removing, Writing
<1>2. ASSUME Removing, NEW s \in Sids
      PROVE  /\ Capped(s)'
             /\ s \in Live' => s \in Live
             /\ index'[s] \in {index[s], 0}
  <2>1. /\ store'[s] \in {store[s], Gone} /\ index'[s] \in {index[s], 0} /\ used' = used
        /\ strays \subseteq strays'
        /\ s \in strays' => s \in strays \/ (index'[s] = 0 /\ Present(s))
    BY <1>2 DEF Removing
  <2>2. Present(s)' => store'[s] = store[s] /\ Present(s)
    BY <1>1, <2>1 DEF Present, Gone
  <2>3. Usable(s)' => store'[s] = store[s] /\ Usable(s)
    BY <1>1, <2>2 DEF Usable
  <2>4. Usable(s)' /\ s \notin strays' => index'[s] = index[s]
    <3> SUFFICES ASSUME Usable(s)', s \notin strays' PROVE index'[s] = index[s]
      OBVIOUS
    <3>1. index[s] >= now /\ index[s] # 0 /\ Present(s)
      BY <1>1, <2>1, <2>3, LiveIsIndexed
    <3> QED
      BY <1>2, <2>3, <3>1 DEF Removing
  <2>5. s \in strays' => index'[s] = 0 /\ s \in used'
    BY <1>1, <2>1 DEF Capped
  <2>6. s \notin used' => index'[s] = 0 /\ ~Present(s)'
    BY <1>1, <2>1, <2>2 DEF Capped
  <2>7. Capped(s)'
    BY <1>1, <2>1, <2>3, <2>4, <2>5, <2>6 DEF Capped
  <2> QED
    BY <1>1, <2>1, <2>3, <2>7 DEF Live
<1>3. ASSUME Writing, NEW s \in Sids
      PROVE  /\ Capped(s)'
             /\ s \in Live' => s \in Live
             /\ index'[s] = index[s] \/ index[s] >= now
  <2>1. used' = used /\ strays' = strays
    BY <1>3 DEF Writing
  <2>2. CASE store'[s] = store[s] /\ index'[s] = index[s]
    BY <1>1, <2>1, <2>2 DEF Capped, Usable, Present, Live
  <2>3. CASE Usable(s) /\ index[s] # 0 /\ index'[s] = store'[s].exp
    <3>1. s \notin strays
      BY <1>1, <2>3 DEF Capped
    <3>2. index[s] >= now /\ s \in used
      BY <1>1, <2>3, <3>1, LiveIsIndexed
    <3>3. s \in Live
      BY <2>3, <3>1 DEF Live
    <3> QED
      BY <1>1, <2>1, <2>3, <3>1, <3>2, <3>3 DEF Capped
  <2> QED
    BY <1>3, <2>2, <2>3 DEF Writing
<1>5. index' \in [Sids -> Nat]
  BY DEF Removing, Writing
<1>6. Live' \subseteq Live
  <2>1. Live' \subseteq Sids
    BY DEF Live
  <2> QED
    BY <1>2, <1>3, <2>1
<1>7. ASSUME NEW n \in Nat, n <= now PROVE Indexed(n)' \subseteq Indexed(n)
  <2> SUFFICES ASSUME NEW s \in Sids, index'[s] # 0, index'[s] >= n PROVE index[s] # 0 /\ index[s] >= n
    BY DEF Indexed
  <2>1. index[s] \in Nat /\ (index'[s] = index[s] \/ index[s] >= now)
    BY <1>1, <1>2, <1>3
  <2> QED
    BY <1>1, <1>7, <2>1
<1> QED
  BY <1>2, <1>3, <1>5, <1>6, <1>7

\* Taking sessions off the indexes, and deleting them, removes.
LEMMA RemovingSteps ==
  ASSUME HeldInv, CapInv, ~revived, NEW t \in Tasks, Step(t)
  PROVE  Removing \/ Create(t) \/ Refresh(t) \/ Persist(t) \/ Rewrite(t)
<1> USE DEF At, redis, history
<1>1. /\ TypeOK /\ now \in Nat \ {0} /\ index \in [Sids -> Nat] /\ store \in [Sids -> Session]
      /\ \A s \in Sids : Capped(s) /\ index[s] \in Nat
  BY DEF HeldInv, TypeOK, CapInv
<1>2. ASSUME UNCHANGED <<now, store, index, used, strays, revived>>
      PROVE  Removing
  BY <1>1, <1>2 DEF Removing
<1>3. CASE \/ Begin(t) \/ End(t) \/ Authenticate(t) \/ Lookup(t) \/ Served(t) \/ Perms(t)
           \/ TrialEnds(t) \/ Subscription(t) \/ SetPerms(t) \/ Abort(t) \/ Count(t) \/ Lowest(t)
           \/ Read(t) \/ Drop(t)
  BY <1>2, <1>3 DEF Begin, End, Authenticate, Lookup, Served, Perms, TrialEnds, Subscription, SetPerms,
     Abort, Count, Lowest, Read, Drop
<1>4. CASE \/ Members(t) \/ Ranked(t) \/ Scan(t) \/ Fetch(t) \/ Probe(t) \/ CountSet(t) \/ CountIndex(t)
           \/ TidySet(t)
  BY <1>2, <1>4 DEF Members, Ranked, Scan, Fetch, Probe, CountSet, CountIndex, TidySet
<1>5. CASE \/ Unperms(t) \/ InvalidateProfile(t) \/ Entitlement(t) \/ Profile(t)
           \/ FetchUser(t) \/ SetProfile(t) \/ Rename(t)
  BY <1>2, <1>5 DEF Unperms, InvalidateProfile, Entitlement, Profile, FetchUser, SetProfile, Rename
<1>6. CASE Expire(t)
  <2>1. /\ index' = [s \in Sids |-> IF index[s] < now THEN 0 ELSE index[s]]
        /\ UNCHANGED <<now, store, used, strays, revived>>
    BY <1>6 DEF Expire
  <2> QED
    BY <1>1, <2>1 DEF Removing
<1>7. CASE Evict(t) \/ Erase(t)
  <2>1. UNCHANGED <<now, index, used, strays, revived>>
    BY <1>7 DEF Evict, Erase
  <2>2. \E x : store' = [store EXCEPT ![x] = Gone]
    BY <1>7 DEF Evict, Erase
  <2> QED
    BY <1>1, <2>1, <2>2 DEF Removing
<1>8. ASSUME NEW S, Forget(S), UNCHANGED <<now, store, used, revived>> PROVE Removing
  BY <1>1, <1>8 DEF Forget, Removing
<1>9. CASE Evicted(t) \/ Unlist(t) \/ UnlistStale(t) \/ Prune(t)
  BY <1>8, <1>9 DEF Evicted, Unlist, UnlistStale, Prune
<1>10. CASE Wipe(t)
  <2>1. /\ store' = [s \in Sids |-> IF s \in task[t].got THEN Gone ELSE store[s]]
        /\ index' = [s \in Sids |-> 0]
        /\ strays' = strays \cup {s \in Sids \ task[t].got : Present(s) /\ (s \in members \/ index[s] # 0)}
        /\ UNCHANGED <<now, used, revived>>
    BY <1>10 DEF Wipe
  <2>2. Gone.until = 0
    BY DEF Gone
  <2> HIDE DEF Gone
  <2> QED
    BY <1>1, <2>1, <2>2 DEF Removing, Present
<1>11. CASE TidyIndex(t)
  <2>1. /\ index' = [s \in Sids |-> 0]
        /\ strays' = strays \cup {s \in Sids : Present(s) /\ index[s] # 0}
        /\ UNCHANGED <<now, store, used, revived>>
    BY <1>11 DEF TidyIndex
  <2> QED
    BY <1>1, <2>1 DEF Removing
<1> QED
  BY <1>3, <1>4, <1>5, <1>6, <1>7, <1>9, <1>10, <1>11 DEF Step

\* What a request or an invalidation writes back.
LEMMA WritingSteps ==
  ASSUME HeldInv, CapInv, NEW t \in Tasks, ~revived', Refresh(t) \/ Persist(t) \/ Rewrite(t)
  PROVE  ~revived /\ (Removing \/ Writing)
<1> USE DEF At, redis, history
<1>1. /\ TypeOK /\ now \in Nat /\ index \in [Sids -> Nat] /\ store \in [Sids -> Session]
      /\ task[t] \in Task /\ Held(t) /\ Ttl \in Nat
  BY ConstantsAssumption DEF HeldInv, TypeOK, CapInv
<1>2. ASSUME UNCHANGED <<now, store, index, used, strays, revived>>
      PROVE  ~revived /\ Removing
  BY <1>1, <1>2 DEF Removing
<1>3. ASSUME NEW s \in Sids, NEW c, store' = [x \in Sids |-> IF x \in {s} THEN c ELSE store[x]],
             index' = [index EXCEPT ![s] = c.exp], UNCHANGED <<now, used, strays>>,
             revived' = (revived \/ \E y \in {s} : ~Usable(y) \/ index[y] = 0 \/ index'[y] # c.exp),
             c.exp \in Nat
      PROVE  ~revived /\ Writing
  <2>1. ~revived /\ Usable(s) /\ index[s] # 0
    BY <1>3
  <2> QED
    BY <1>1, <1>3, <2>1 DEF Writing
<1>4. CASE Refresh(t)
  <2> DEFINE s == task[t].sid
             c == Copy(t)
             x == IF c.remember THEN c.exp ELSE now + Ttl
             slid == [c EXCEPT !.last = now, !.exp = x, !.until = now + Larger(1, x - now)]
  <2>1. s \in Sids /\ c \in Session
    BY <1>1, <1>4 DEF Refresh, Held, Task, Copy
  <2>2. slid.exp = x /\ x \in Nat
    <3>1. x \in Nat
      BY <1>1, <2>1 DEF Session
    <3> HIDE DEF c, x
    <3> QED
      BY <2>1, <3>1 DEF Session
  <2>3. CASE UNCHANGED <<redis, history>>
    BY <1>2, <1>4, <2>3 DEF Refresh
  <2>4. CASE /\ Write({s}, LAMBDA y : slid, [index EXCEPT ![s] = slid.exp])
             /\ UNCHANGED <<used, strays>>
    <3>2. now' = now
      BY <1>4 DEF Refresh
    <3> HIDE DEF slid, x, c, s
    <3>3. /\ store' = [y \in Sids |-> IF y \in {s} THEN slid ELSE store[y]]
          /\ index' = [index EXCEPT ![s] = slid.exp]
          /\ revived' = (revived \/ \E y \in {s} : ~Usable(y) \/ index[y] = 0 \/ index'[y] # slid.exp)
      BY <2>4 DEF Write
    <3> QED
      BY <1>3, <2>1, <2>2, <2>4, <3>2, <3>3
  <2> QED
    BY <1>4, <2>3, <2>4 DEF Refresh
<1>5. CASE Persist(t)
  <2> DEFINE s == task[t].sid
             c == Copy(t)
             kept == [c EXCEPT !.until = now + Larger(1, c.exp - now)]
  <2>1. s \in Sids /\ c \in Session
    BY <1>1, <1>5 DEF Persist, Held, Task, Copy
  <2>2. kept.exp = c.exp /\ c.exp \in Nat
    <3> HIDE DEF c
    <3> QED
      BY <2>1 DEF Session
  <2>3. CASE UNCHANGED <<redis, history>>
    BY <1>2, <1>5, <2>3 DEF Persist
  <2>4. CASE /\ Write({s}, LAMBDA y : kept, [index EXCEPT ![s] = c.exp])
             /\ UNCHANGED <<used, strays>>
    <3>2. now' = now
      BY <1>5 DEF Persist
    <3> HIDE DEF kept, c, s
    <3>3. /\ store' = [y \in Sids |-> IF y \in {s} THEN kept ELSE store[y]]
          /\ index' = [index EXCEPT ![s] = kept.exp]
          /\ revived' = (revived \/ \E y \in {s} : ~Usable(y) \/ index[y] = 0 \/ index'[y] # kept.exp)
      BY <2>2, <2>4 DEF Write
    <3> QED
      BY <1>3, <2>1, <2>2, <2>4, <3>2, <3>3
  <2> QED
    BY <1>5, <2>3, <2>4 DEF Persist
<1>6. CASE Rewrite(t)
  <2> DEFINE value(s) == [task[t].copy[s] EXCEPT !.plan = task[t].plan,
                            !.until = now + Larger(1, task[t].copy[s].exp - task[t].at)]
  <2>1. /\ UNCHANGED <<now, used, strays, index>>
        /\ store' = [s \in Sids |-> IF s \in task[t].got THEN value(s) ELSE store[s]]
        /\ revived' = (revived \/ \E s \in task[t].got : ~Usable(s) \/ index[s] = 0 \/ index[s] # value(s).exp)
    BY <1>6 DEF Rewrite, Write
  <2> HIDE DEF value
  <2>2. ~revived /\ \A s \in task[t].got : Usable(s) /\ index[s] # 0 /\ index[s] = value(s).exp
    BY <2>1
  <2>3. ASSUME NEW s \in Sids
        PROVE  \/ store'[s] = store[s] /\ index'[s] = index[s]
               \/ Usable(s) /\ index[s] # 0 /\ index'[s] = store'[s].exp
    BY <1>1, <2>1, <2>2
  <2> QED
    BY <1>1, <2>1, <2>2, <2>3 DEF Writing
<1> QED
  BY <1>4, <1>5, <1>6

\* Once a session was written back it stays so.
LEMMA RevivedStays ==
  ASSUME NEW t \in Tasks, Step(t), revived
  PROVE  revived'
<1> USE DEF history, Write
<1>1. CASE \/ Begin(t) \/ End(t) \/ Authenticate(t) \/ Lookup(t) \/ Served(t) \/ Perms(t)
           \/ TrialEnds(t) \/ Subscription(t) \/ SetPerms(t) \/ Abort(t) \/ Expire(t)
  BY <1>1 DEF Begin, End, Authenticate, Lookup, Served, Perms, TrialEnds, Subscription, SetPerms, Abort, Expire
<1>2. CASE \/ Refresh(t) \/ Persist(t) \/ Rewrite(t)
  BY <1>2 DEF Refresh, Persist, Rewrite
<1>3. CASE \/ Create(t) \/ Count(t) \/ Lowest(t) \/ Evict(t) \/ Evicted(t) \/ Read(t) \/ Drop(t) \/ Unlist(t)
           \/ Erase(t)
  BY <1>3 DEF Create, Count, Lowest, Evict, Evicted, Read, Drop, Unlist, Erase
<1>4. CASE \/ Members(t) \/ Ranked(t) \/ Scan(t) \/ Wipe(t) \/ Fetch(t) \/ UnlistStale(t) \/ Probe(t)
  BY <1>4 DEF Members, Ranked, Scan, Wipe, Fetch, UnlistStale, Probe
<1>5. CASE \/ Prune(t) \/ CountSet(t) \/ CountIndex(t) \/ TidySet(t) \/ TidyIndex(t)
           \/ Unperms(t) \/ InvalidateProfile(t) \/ Entitlement(t) \/ Profile(t)
           \/ FetchUser(t) \/ SetProfile(t) \/ Rename(t)
  BY <1>5 DEF Prune, CountSet, CountIndex, TidySet, TidyIndex, Unperms, InvalidateProfile, Entitlement, Profile,
     FetchUser, SetProfile, Rename
<1> QED
  BY <1>1, <1>2, <1>3, <1>4, <1>5 DEF Step

\* A login that skipped its eviction or was cut short stays noted until sessions are counted.
LEMMA UncappedStays ==
  ASSUME NEW t \in Tasks, Step(t), uncapped, ~Count(t)
  PROVE  uncapped'
<1> USE DEF history
<1>1. CASE \/ Begin(t) \/ End(t) \/ Authenticate(t) \/ Lookup(t) \/ Served(t) \/ Perms(t)
           \/ TrialEnds(t) \/ Subscription(t) \/ SetPerms(t) \/ Abort(t) \/ Expire(t)
  BY <1>1 DEF Begin, End, Authenticate, Lookup, Served, Perms, TrialEnds, Subscription, SetPerms, Abort, Expire
<1>2. CASE \/ Refresh(t) \/ Persist(t) \/ Rewrite(t)
  BY <1>2 DEF Refresh, Persist, Rewrite
<1>3. CASE \/ Create(t) \/ Lowest(t) \/ Evict(t) \/ Evicted(t) \/ Read(t) \/ Drop(t) \/ Unlist(t) \/ Erase(t)
  BY <1>3 DEF Create, Lowest, Unevicted, Evict, Evicted, Read, Drop, Unlist, Erase
<1>4. CASE \/ Members(t) \/ Ranked(t) \/ Scan(t) \/ Wipe(t) \/ Fetch(t) \/ UnlistStale(t) \/ Probe(t)
  BY <1>4 DEF Members, Ranked, Scan, Wipe, Fetch, UnlistStale, Probe
<1>5. CASE \/ Prune(t) \/ CountSet(t) \/ CountIndex(t) \/ TidySet(t) \/ TidyIndex(t)
           \/ Unperms(t) \/ InvalidateProfile(t) \/ Entitlement(t) \/ Profile(t)
           \/ FetchUser(t) \/ SetProfile(t) \/ Rename(t)
  BY <1>5 DEF Prune, CountSet, CountIndex, TidySet, TidyIndex, Unperms, InvalidateProfile, Entitlement, Profile,
     FetchUser, SetProfile, Rename
<1> QED
  BY <1>1, <1>2, <1>3, <1>4, <1>5 DEF Step

\* A login that counts has begun to, and what it counts does not change with the time.
LEMMA StartedKept ==
  ASSUME HeldInv, NEW t \in Tasks, Step(t), Started(t)
  PROVE  Started(t)'
<1> USE DEF Goto, Keep, Note, Done
<1>1. TypeOK /\ task[t] \in Task /\ DOMAIN pc = Tasks /\ DOMAIN task = Tasks /\ now' = now /\ now \in Nat
  BY StepKeeps DEF HeldInv, TypeOK
<1>2. ASSUME NEW l, pc' = [pc EXCEPT ![t] = l], l \notin {"count", "lowest"}
      PROVE  Started(t)'
  BY <1>1, <1>2 DEF Started
<1>3. CASE Expire(t)
  <2>1. task'[t] = [task[t] EXCEPT !.at = now]
    BY <1>1, <1>3 DEF Expire
  <2>2. task'[t].at = now
    BY <1>1, <2>1 DEF Task
  <2> QED
    BY <1>1, <2>2 DEF Started
<1>4. CASE Count(t)
  <2>1. task[t].at <= now
    BY <1>4 DEF Count, At, Started
  <2>2. task'[t] = task[t] \/ \E v : task'[t] = [task[t] EXCEPT !.over = v]
    BY <1>1, <1>4 DEF Count, Unevicted
  <2>3. task'[t].at = task[t].at
    BY <1>1, <2>2 DEF Task
  <2> QED
    BY <1>1, <2>1, <2>3 DEF Started
<1>5. CASE Begin(t)
  <2>1. PICK op \in mix.ops[t] : pc' = [pc EXCEPT ![t] = First(op)]
    BY <1>5 DEF Begin
  <2>2. op \in Asked
    BY <1>1, <2>1, MixesAssumption DEF TypeOK
  <2>3. First(op) \in {"authenticate", "perms", "read", "unperms", "members"}
    BY <2>2 DEF First, Asked
  <2> QED
    BY <1>2, <2>1, <2>3
<1>6. CASE Authenticate(t) \/ Refresh(t) \/ Lookup(t) \/ Persist(t)
  <2>1. \E l \in {"idle", "drop", "refresh", "lookup", "served", "persist"} : pc' = [pc EXCEPT ![t] = l]
    BY <1>6 DEF Authenticate, Refresh, Authorised, Lookup, Persist
  <2> QED
    BY <1>2, <2>1
<1>7. CASE Served(t)
  <2> DEFINE next == CASE task[t].op = "validate" -> "end"
                       [] task[t].op = "me" -> "profile"
                       [] task[t].op = "rename" -> "user"
                       [] task[t].op \in {"list", "revoke"} -> "members"
                       [] task[t].op = "logout_all" -> "unprofile"
  <2>1. task[t].op \in NeedSession
    BY <1>1, <1>7 DEF HeldInv, Held, Served, At
  <2>2. next \in {"end", "profile", "user", "members", "unprofile"}
    BY <2>1 DEF NeedSession
  <2>3. pc' = [pc EXCEPT ![t] = next]
    BY <1>7 DEF Served
  <2> HIDE DEF next
  <2> QED
    BY <1>2, <2>2, <2>3
<1>8. CASE End(t) \/ Abort(t) \/ Perms(t) \/ TrialEnds(t) \/ Subscription(t) \/ SetPerms(t) \/ Create(t)
  <2>1. \E l \in {"idle", "create", "subscription", "set_perms", "expire"} : pc' = [pc EXCEPT ![t] = l]
    BY <1>8 DEF End, Abort, Perms, TrialEnds, Subscription, SetPerms, Create
  <2> QED
    BY <1>2, <2>1
<1>9. CASE Lowest(t) \/ Evict(t) \/ Evicted(t)
  <2>1. \E l \in {"evict", "evicted", "drop", "end"} : pc' = [pc EXCEPT ![t] = l]
    BY <1>9 DEF Lowest, Unevicted, Evict, Evicted, Rotate
  <2> QED
    BY <1>2, <2>1
<1>10. CASE Read(t) \/ Drop(t) \/ Unlist(t) \/ Erase(t)
  <2>1. \E l \in {"drop", "unlist", "erase", "unprofile", "end"} : pc' = [pc EXCEPT ![t] = l]
    BY <1>10 DEF Read, Drop, Unlist, Erase
  <2> QED
    BY <1>2, <2>1
<1>11. CASE Members(t) \/ Ranked(t) \/ Scan(t)
  <2>1. After(t) \in {"probe", "fetch", "wipe"}
    BY DEF After
  <2>2. \E l \in {"ranked", After(t), "tidy_set", "scan", "end"} : pc' = [pc EXCEPT ![t] = l]
    BY <1>11 DEF Members, Ranked, Scan
  <2> QED
    BY <1>2, <2>1, <2>2
<1>12. CASE Wipe(t) \/ Fetch(t) \/ UnlistStale(t) \/ Rewrite(t)
  <2>1. \E l \in {"end", "rewrite", "unlist_stale", "drop"} : pc' = [pc EXCEPT ![t] = l]
    BY <1>12 DEF Wipe, Fetch, UnlistStale, Rewrite
  <2> QED
    BY <1>2, <2>1
<1>13. CASE Probe(t) \/ Prune(t) \/ CountSet(t) \/ CountIndex(t) \/ TidySet(t) \/ TidyIndex(t)
  <2>1. \E l \in {"prune", "count_set", "count_index", "tidy_set", "tidy_index", "end"} : pc' = [pc EXCEPT ![t] = l]
    BY <1>13 DEF Probe, Prune, CountSet, CountIndex, TidySet, TidyIndex
  <2> QED
    BY <1>2, <2>1
<1>14. CASE \/ Unperms(t) \/ InvalidateProfile(t) \/ Entitlement(t) \/ Profile(t) \/ FetchUser(t)
            \/ SetProfile(t) \/ Rename(t)
  <2>1. \E l \in {"unprofile", "members", "entitlement", "end", "fetch_user", "set_profile", "idle"} :
          pc' = [pc EXCEPT ![t] = l]
    BY <1>14 DEF Unperms, InvalidateProfile, Entitlement, Profile, FetchUser, SetProfile, Rename
  <2> QED
    BY <1>2, <2>1
<1> QED
  BY <1>3, <1>4, <1>5, <1>6, <1>7, <1>8, <1>9, <1>10, <1>11, <1>12, <1>13, <1>14 DEF Step

\* Sessions in hand to be evicted stay so until they are gone.
LEMMA DoomedStay ==
  ASSUME HeldInv, NEW t \in Tasks, Step(t), ~uncapped', Live' \subseteq Live
  PROVE  Live' \cap Doomed \subseteq Doomed'
<1> USE DEF Goto, Keep, Note
<1>1. TypeOK /\ DOMAIN pc = Tasks /\ DOMAIN task = Tasks /\ DOMAIN store = Sids /\ now \in Nat /\ now' = now
  BY StepKeeps DEF HeldInv, TypeOK
<1>2. SUFFICES ASSUME NEW s \in Live', NEW u \in Tasks, s \in task[u].got, pc[u] \in {"evict", "evicted"}
               PROVE  \E v \in Tasks : s \in task'[v].got /\ pc'[v] \in {"evict", "evicted"}
  BY DEF Doomed
<1>3. CASE u # t
  BY <1>1, <1>2, <1>3, OneMoves
<1>4. CASE u = t
  <2>1. Evict(t) \/ Evicted(t)
    BY <1>2, <1>4 DEF Evicting, Abort, Expire, Step, Begin, End, Authenticate, Refresh, Lookup, Persist, Served, Perms, TrialEnds,
       Subscription, SetPerms, Create, Count, Lowest, Read, Drop, Unlist, Erase, Members, Ranked,
       Scan, Wipe, Fetch, UnlistStale, Rewrite, Probe, Prune, CountSet, CountIndex, TidySet, TidyIndex, Unperms,
       InvalidateProfile, Entitlement, Profile, FetchUser, SetProfile, Rename, At
  <2>2. CASE Evict(t)
    <3>1. PICK x \in task[t].got : /\ store' = [store EXCEPT ![x] = Gone]
                                   /\ task' = [task EXCEPT ![t] = [task[t] EXCEPT !.got = task[t].got \ {x}, !.target = x]]
      BY <2>2 DEF Evict
    <3>2. s # x
      BY <1>1, <1>2, <3>1 DEF Live, Usable, Present, Gone
    <3>3. task'[t].got = task[t].got \ {x}
      BY <1>1, <3>1 DEF TypeOK, Task
    <3>4. pc'[t] = "evicted"
      BY <1>1, <2>2 DEF Evict
    <3> QED
      BY <1>2, <1>4, <3>2, <3>3, <3>4
  <2>3. CASE Evicted(t)
    <3>1. task' = task /\ pc'[t] = "evict"
      BY <1>1, <1>2, <1>4, <2>3 DEF Evicted
    <3> QED
      BY <1>2, <1>4, <3>1
  <2> QED
    BY <2>1, <2>2, <2>3
<1> QED
  BY <1>3, <1>4

\* The counts of finite sets that the cap is about.
LEMMA Counts ==
  ASSUME TypeOK, CapInv
  PROVE  /\ \A n \in Nat : IsFiniteSet(Indexed(n)) /\ Cardinality(Indexed(n)) \in Nat /\ Indexed(n) \subseteq Sids
         /\ Live \subseteq Sids
         /\ \A S, T : S \subseteq T /\ T \subseteq Sids =>
              Cardinality(S) <= Cardinality(T) /\ Cardinality(S) \in Nat /\ Cardinality(T) \in Nat
         /\ ~revived => \A n \in Nat : n <= now => Live \subseteq Indexed(n)
         /\ Cap \in Nat
<1>1. IsFiniteSet(Sids) /\ Cap \in Nat
  BY ConstantsAssumption
<1>2. \A S : S \subseteq Sids => IsFiniteSet(S)
  BY <1>1, FS_Subset
<1>3. \A S : S \subseteq Sids => Cardinality(S) \in Nat
  BY <1>2, FS_CardinalityType
<1>4. \A S, T : S \subseteq T /\ T \subseteq Sids => Cardinality(S) <= Cardinality(T)
  BY <1>2, FS_Subset
<1>5. (\A n : Indexed(n) \subseteq Sids) /\ Live \subseteq Sids
  BY DEF Indexed, Live
<1>6. ASSUME ~revived, NEW n \in Nat, n <= now, NEW s \in Live PROVE s \in Indexed(n)
  <2>1. s \in Sids /\ index[s] >= now /\ index[s] # 0
    BY <1>6, LiveIsIndexed DEF CapInv, Live
  <2>2. index[s] \in Nat /\ now \in Nat
    BY <2>1 DEF CapInv, TypeOK
  <2> QED
    BY <1>6, <2>1, <2>2 DEF Indexed
<1> QED
  BY <1>1, <1>2, <1>3, <1>4, <1>5, <1>6

\* Whoever went over the cap is still about to bring it down, and a count leaves nobody else to.
LEMMA CountingKept ==
  ASSUME HeldInv, CapInv, ~revived, NEW t \in Tasks, Step(t), ~Create(t), ~uncapped',
         Live' \subseteq Live, \A n \in Nat : n <= now => Indexed(n)' \subseteq Indexed(n)
  PROVE  Counting'
<1> USE DEF Goto, Keep, Note
<1>1. /\ TypeOK /\ DOMAIN pc = Tasks /\ DOMAIN task = Tasks /\ now \in Nat /\ now' = now
      /\ \A u \in Tasks : task[u] \in Task /\ task[u].at \in Nat /\ task[u].over \in Nat /\ Started(u)
  BY StepKeeps DEF HeldInv, TypeOK, Task, CapInv
<1>2. /\ \A n \in Nat : IsFiniteSet(Indexed(n)) /\ Cardinality(Indexed(n)) \in Nat /\ Indexed(n) \subseteq Sids
      /\ Live \subseteq Sids
      /\ Cap \in Nat /\ \A n \in Nat : n <= now => Live \subseteq Indexed(n)
      /\ \A S, T : S \subseteq T /\ T \subseteq Sids =>
           Cardinality(S) <= Cardinality(T) /\ Cardinality(S) \in Nat /\ Cardinality(T) \in Nat
  BY <1>1, Counts
<1>3. Cardinality(Live \ Doomed) <= Cap => Cardinality(Live' \ Doomed') <= Cap
  <2>1. Live' \ Doomed' \subseteq Live \ Doomed
    BY DoomedStay
  <2>2. /\ Cardinality(Live' \ Doomed') <= Cardinality(Live \ Doomed)
        /\ Cardinality(Live' \ Doomed') \in Nat /\ Cardinality(Live \ Doomed) \in Nat
    BY <1>2, <2>1
  <2> QED
    BY <1>2, <2>2
<1>4. ASSUME NEW u \in Tasks, u # t, pc[u] \in {"expire", "count"} \/ CountedAll(u)
      PROVE  Counting'
  <2>1. pc'[u] = pc[u] /\ task'[u] = task[u]
    BY <1>1, <1>4, OneMoves
  <2>3. CASE pc[u] \in {"expire", "count"}
    BY <2>1, <2>3 DEF Counting
  <2>4. CASE CountedAll(u)
    <3>1. task[u].at \in Nat /\ task[u].at <= now
      BY <1>1, <2>4 DEF CountedAll, Started
    <3>2. /\ Cardinality(Indexed(task[u].at)') <= Cardinality(Indexed(task[u].at))
          /\ Cardinality(Indexed(task[u].at)') \in Nat /\ Cardinality(Indexed(task[u].at)) \in Nat
      <4> DEFINE n == task[u].at
      <4>1. Indexed(n)' \subseteq Indexed(n) /\ Indexed(n) \subseteq Sids
        <5>1. \A m \in Nat : m <= now => Indexed(m)' \subseteq Indexed(m)
          OBVIOUS
        <5>2. n' = n
          BY <2>1
        <5>3. \A m : m = n => Indexed(n)' = {s \in Sids : index'[s] # 0 /\ index'[s] >= m}
          BY <5>2 DEF Indexed
        <5>4. \A m : Indexed(m) = {s \in Sids : index[s] # 0 /\ index[s] >= m}
          BY DEF Indexed
        <5>5. \A m \in Nat : m <= now => {s \in Sids : index'[s] # 0 /\ index'[s] >= m} \subseteq Indexed(m)
          BY <5>1 DEF Indexed
        <5> QED
          BY <1>2, <3>1, <5>3, <5>5
      <4> QED
        BY <1>2, <4>1
    <3>3. CountedAll(u)'
      BY <1>1, <1>2, <2>1, <2>4, <3>2 DEF CountedAll
    <3> QED
      BY <3>3 DEF Counting
  <2> QED
    BY <1>4, <2>3, <2>4
<1>5. CASE Count(t)
  <2>0. task[t].at \in Nat /\ task[t].at <= now
    BY <1>1, <1>5 DEF Count, At, Started
  <2> DEFINE counted == Indexed(task[t].at)
  <2>1. counted \subseteq Sids /\ Live \subseteq counted /\ Cardinality(counted) \in Nat
    BY <1>2, <2>0
  <2>2. UNCHANGED index
    BY <1>5 DEF Count, redis
  <2>3. CASE Excess(t) > 0
    <3>1. pc'[t] = "lowest" /\ task'[t] = [task[t] EXCEPT !.over = Excess(t)]
      BY <1>1, <1>5, <2>3 DEF Count, Unevicted
    <3>2. task'[t].over = Excess(t) /\ task'[t].at = task[t].at
      BY <1>1, <3>1 DEF Task
    <3>3. Indexed(task[t].at)' = counted
      BY <2>2, <3>2 DEF Indexed
    <3>4. CountedAll(t)'
      BY <1>2, <2>1, <3>1, <3>2, <3>3 DEF CountedAll, Excess
    <3> QED
      BY <3>4 DEF Counting
  <2>4. CASE ~(Excess(t) > 0)
    <3>1. Cardinality(counted) <= Cap
      BY <1>2, <2>1, <2>4 DEF Excess
    <3>2. Live' \ Doomed' \subseteq counted
      BY <2>1
    <3>3. Cardinality(Live' \ Doomed') <= Cardinality(counted) /\ Cardinality(Live' \ Doomed') \in Nat
      BY <1>2, <2>1, <3>2
    <3>4. Cardinality(Live' \ Doomed') <= Cap
      BY <1>2, <2>1, <3>1, <3>3
    <3> QED
      BY <3>4 DEF Counting
  <2> QED
    BY <2>3, <2>4
<1>6. CASE pc[t] = "expire"
  <2>1. Expire(t)
    BY <1>6 DEF Evicting, Abort, Count, Step, Begin, End, Authenticate, Refresh, Lookup, Persist, Served, Perms,
       TrialEnds, Subscription, SetPerms, Create, Lowest, Evict, Evicted, Read, Drop, Unlist, Erase, Members,
       Ranked, Scan, Wipe, Fetch, UnlistStale, Rewrite, Probe, Prune, CountSet, CountIndex, TidySet, TidyIndex,
       Unperms, InvalidateProfile, Entitlement, Profile, FetchUser, SetProfile, Rename, At
  <2>2. pc'[t] = "count"
    BY <1>1, <2>1 DEF Expire
  <2> QED
    BY <2>2 DEF Counting
<1>7. CASE pc[t] = "count" /\ ~Count(t)
  BY <1>7 DEF Evicting, Abort, Expire, Step, Begin, End, Authenticate, Refresh, Lookup, Persist, Served, Perms,
     TrialEnds, Subscription, SetPerms, Create, Lowest, Evict, Evicted, Read, Drop, Unlist, Erase, Members,
     Ranked, Scan, Wipe, Fetch, UnlistStale, Rewrite, Probe, Prune, CountSet, CountIndex, TidySet, TidyIndex,
     Unperms, InvalidateProfile, Entitlement, Profile, FetchUser, SetProfile, Rename, At
<1>8. CASE CountedAll(t)
  <2>0. task[t].at \in Nat /\ task[t].at <= now /\ pc[t] = "lowest"
    BY <1>1, <1>8 DEF CountedAll, Started
  <2> DEFINE counted == Indexed(task[t].at)
  <2>1. Lowest(t)
    BY <2>0 DEF Evicting, Abort, Expire, Count, Step, Begin, End, Authenticate, Refresh, Lookup, Persist, Served,
       Perms, TrialEnds, Subscription, SetPerms, Create, Evict, Evicted, Read, Drop, Unlist, Erase, Members,
       Ranked, Scan, Wipe, Fetch, UnlistStale, Rewrite, Probe, Prune, CountSet, CountIndex, TidySet, TidyIndex,
       Unperms, InvalidateProfile, Entitlement, Profile, FetchUser, SetProfile, Rename, At
  <2>2. PICK S \in SUBSET counted :
          /\ Cardinality(S) = task[t].over \/ S = counted
          /\ task' = [task EXCEPT ![t] = [task[t] EXCEPT !.got = S]]
          /\ S # {} => pc' = [pc EXCEPT ![t] = "evict"]
    BY <2>1 DEF Lowest, Unevicted
  <2>3. task'[t].got = S
    BY <1>1, <2>2 DEF Task
  <2>4. S \subseteq Doomed'
    BY <1>1, <2>2, <2>3 DEF Doomed
  <2>9. /\ counted \subseteq Sids /\ Live \subseteq counted /\ Cardinality(counted) \in Nat /\ IsFiniteSet(counted)
        /\ Cardinality(counted) <= Cap + task[t].over
    BY <1>2, <1>8, <2>0 DEF CountedAll
  <2> HIDE DEF counted
  <2>5. Live' \ Doomed' \subseteq counted \ S
    BY <2>4, <2>9
  <2>6. Cardinality(counted \ S) <= Cap
    <3>1. CASE S = counted
      BY <1>2, <3>1, FS_EmptySet
    <3>2. CASE Cardinality(S) = task[t].over
      <4>1. Cardinality(counted \ S) = Cardinality(counted) - Cardinality(counted \cap S)
        BY <2>9, FS_Difference
      <4>2. counted \cap S = S
        BY <2>2
      <4> QED
        BY <1>1, <1>2, <2>9, <3>2, <4>1, <4>2
    <3> QED
      BY <2>2, <3>1, <3>2
  <2>7. /\ Cardinality(Live' \ Doomed') <= Cardinality(counted \ S)
        /\ Cardinality(Live' \ Doomed') \in Nat /\ Cardinality(counted \ S) \in Nat
    BY <1>2, <2>5, <2>9
  <2>8. Cardinality(Live' \ Doomed') <= Cap
    BY <1>2, <2>6, <2>7
  <2> QED
    BY <2>8 DEF Counting
<1>9. ~Count(t) => Counting
  BY UncappedStays DEF CapInv
<1> QED
  BY <1>2, <1>3, <1>4, <1>5, <1>6, <1>7, <1>8, <1>9 DEF Counting

\* A new session is in the index with its end, and its login about to count.
LEMMA CreateCounts ==
  ASSUME HeldInv, CapInv, ~revived, NEW t \in Tasks, Create(t)
  PROVE  /\ index' \in [Sids -> Nat]
         /\ Counting' /\ \A s \in Sids : Capped(s)'
<1>1. /\ TypeOK /\ now \in Nat \ {0} /\ index \in [Sids -> Nat] /\ store \in [Sids -> Session]
      /\ task[t] \in Task /\ DOMAIN pc = Tasks /\ Ttl \in Nat /\ RememberTtl \in Nat
      /\ \A s \in Sids : Capped(s)
  BY ConstantsAssumption DEF HeldInv, TypeOK, CapInv
<1>2. /\ UNCHANGED <<now, strays, revived>> /\ pc'[t] = "expire"
  BY <1>1 DEF Create, At, Goto
<1>3. PICK s \in Sids \ used :
        /\ store' = [store EXCEPT ![s] = Fresh(task[t].flag, task[t].plan)]
        /\ index' = [index EXCEPT ![s] = now + TtlOf(task[t].flag)]
        /\ used' = used \cup {s}
  BY DEF Create
<1>4. now + TtlOf(task[t].flag) \in Nat
  BY <1>1 DEF TtlOf
<1>5. Fresh(task[t].flag, task[t].plan).exp = now + TtlOf(task[t].flag)
  BY DEF Fresh
<1>6. ASSUME NEW x \in Sids PROVE Capped(x)'
  <2>1. CASE x = s
    <3>1. store'[x].exp = index'[x] /\ index'[x] \in Nat
      BY <1>1, <1>3, <1>4, <1>5, <2>1
    <3>2. x \notin strays' /\ x \in used'
      BY <1>1, <1>2, <1>3, <2>1 DEF Capped
    <3> QED
      BY <3>1, <3>2 DEF Capped
  <2>2. CASE x # s
    <3>1. store'[x] = store[x] /\ index'[x] = index[x] /\ (x \in used' <=> x \in used)
      BY <1>1, <1>3, <2>2
    <3> QED
      BY <1>1, <1>2, <3>1 DEF Capped, Usable, Present
  <2> QED
    BY <2>1, <2>2
<1> QED
  BY <1>1, <1>2, <1>3, <1>4, <1>6 DEF Counting

LEMMA IndexTyped ==
  ASSUME HeldInv, CapInv, NEW t \in Tasks, Step(t), ~Create(t)
  PROVE  index' \in [Sids -> Nat]
<1> USE DEF redis
<1>1. TypeOK /\ index \in [Sids -> Nat] /\ task[t] \in Task /\ now \in Nat /\ Ttl \in Nat
  BY ConstantsAssumption DEF HeldInv, TypeOK, CapInv
<1>2. CASE \/ Begin(t) \/ End(t) \/ Authenticate(t) \/ Lookup(t) \/ Served(t) \/ Perms(t)
           \/ TrialEnds(t) \/ Subscription(t) \/ SetPerms(t) \/ Abort(t) \/ Count(t) \/ Lowest(t)
           \/ Read(t) \/ Drop(t)
  BY <1>1, <1>2 DEF Begin, End, Authenticate, Lookup, Served, Perms, TrialEnds, Subscription, SetPerms,
     Abort, Count, Lowest, Read, Drop
<1>3. CASE \/ Members(t) \/ Ranked(t) \/ Scan(t) \/ Fetch(t) \/ Probe(t) \/ CountSet(t) \/ CountIndex(t)
           \/ TidySet(t) \/ Evict(t) \/ Erase(t)
  BY <1>1, <1>3 DEF Members, Ranked, Scan, Fetch, Probe, CountSet, CountIndex, TidySet, Evict, Erase
<1>4. CASE \/ Unperms(t) \/ InvalidateProfile(t) \/ Entitlement(t) \/ Profile(t)
           \/ FetchUser(t) \/ SetProfile(t) \/ Rename(t)
  BY <1>1, <1>4 DEF Unperms, InvalidateProfile, Entitlement, Profile, FetchUser, SetProfile, Rename
<1>5. CASE \/ Expire(t) \/ Evicted(t) \/ Unlist(t) \/ UnlistStale(t) \/ Prune(t) \/ Wipe(t) \/ TidyIndex(t)
  <2>1. CASE Expire(t)
    BY <1>1, <2>1 DEF Expire
  <2>2. ASSUME NEW S, Forget(S) PROVE index' \in [Sids -> Nat]
    BY <1>1, <2>2 DEF Forget
  <2>3. CASE Wipe(t) \/ TidyIndex(t)
    BY <1>1, <2>3 DEF Wipe, TidyIndex
  <2> QED
    BY <1>5, <2>1, <2>2, <2>3 DEF Evicted, Unlist, UnlistStale, Prune
<1>6. CASE Refresh(t)
  <2> DEFINE c == Copy(t)
             x == IF c.remember THEN c.exp ELSE now + Ttl
             slid == [c EXCEPT !.last = now, !.exp = x, !.until = now + Larger(1, x - now)]
  <2>1. c \in Session
    BY <1>1, <1>6 DEF Refresh, At, HeldInv, Held, Task, Copy
  <2>2. x \in Nat
    BY <1>1, <2>1 DEF Session
  <2>3. slid.exp = x
    <3> HIDE DEF c, x
    <3> QED
      BY <2>1 DEF Session
  <2>4. UNCHANGED index \/ index' = [index EXCEPT ![task[t].sid] = slid.exp]
    BY <1>6 DEF Refresh, Write
  <2> HIDE DEF slid, x, c
  <2> QED
    BY <1>1, <2>2, <2>3, <2>4
<1>7. CASE Persist(t) \/ Rewrite(t)
  <2>1. CASE Persist(t)
    <3>1. Copy(t) \in Session
      BY <1>1, <2>1 DEF Persist, At, HeldInv, Held, Task, Copy
    <3>2. UNCHANGED index \/ index' = [index EXCEPT ![task[t].sid] = Copy(t).exp]
      BY <2>1 DEF Persist, Write
    <3> QED
      BY <1>1, <3>1, <3>2 DEF Session
  <2>2. CASE Rewrite(t)
    BY <1>1, <2>2 DEF Rewrite, Write
  <2> QED
    BY <1>7, <2>1, <2>2
<1> QED
  BY <1>2, <1>3, <1>4, <1>5, <1>6, <1>7 DEF Step

LEMMA CapStep ==
  ASSUME HeldInv, CapInv, NEW t \in Tasks, Step(t)
  PROVE  CapInv'
<1>1. now' = now /\ now # 0 /\ TypeOK /\ \A u \in Tasks : Started(u)
  BY StepKeeps DEF CapInv, HeldInv
<1>2. ASSUME NEW u \in Tasks PROVE Started(u)'
  <2>1. CASE u = t
    BY <1>1, <2>1, StartedKept
  <2>2. CASE u # t
    <3>1. pc'[u] = pc[u] /\ task'[u] = task[u]
      BY <1>1, <2>2, OneMoves
    <3> QED
      BY <1>1, <3>1 DEF Started
  <2> QED
    BY <2>1, <2>2
<1>3. index' \in [Sids -> Nat]
  <2>1. CASE Create(t)
    <3>1. PICK s \in Sids : index' = [index EXCEPT ![s] = now + TtlOf(task[t].flag)]
      BY <2>1 DEF Create
    <3>2. now + TtlOf(task[t].flag) \in Nat
      BY <1>1, ConstantsAssumption DEF TypeOK, TtlOf
    <3> QED
      BY <3>1, <3>2 DEF CapInv
  <2>2. CASE ~Create(t)
    BY <2>2, IndexTyped
  <2> QED
    BY <2>1, <2>2
<1>4. ASSUME ~revived' PROVE (~uncapped' => Counting') /\ \A s \in Sids : Capped(s)'
  <2>1. ~revived
    BY <1>4, RevivedStays
  <2>2. CASE Create(t)
    BY <2>1, <2>2, CreateCounts
  <2>3. CASE ~Create(t)
    <3>1. Removing \/ Writing
      BY <1>4, <2>1, <2>3, RemovingSteps, WritingSteps
    <3>2. /\ \A s \in Sids : Capped(s)'
          /\ Live' \subseteq Live
          /\ \A n \in Nat : n <= now => Indexed(n)' \subseteq Indexed(n)
      BY <2>1, <3>1, CappedKept
    <3> QED
      BY <2>1, <2>3, <3>2, CountingKept
  <2> QED
    BY <2>2, <2>3
<1> QED
  BY <1>1, <1>2, <1>3, <1>4 DEF CapInv

\* Time passes: sessions end, and nothing else happens to them.
LEMMA CapTick ==
  ASSUME HeldInv, CapInv, Tick
  PROVE  CapInv'
<1>1. /\ TypeOK /\ now \in Nat \ {0} /\ now' = now + 1
      /\ UNCHANGED <<pc, task, index, used, strays, revived, uncapped>>
      /\ store \in [Sids -> Session] /\ index \in [Sids -> Nat]
  BY DEF Tick, history, HeldInv, TypeOK, CapInv
<1>2. ASSUME NEW s \in Sids
      PROVE  (Present(s)' => store'[s] = store[s] /\ Present(s)) /\ (Usable(s)' => Usable(s))
  <2>1. store'[s] = IF store[s].until > now + 1 THEN store[s] ELSE Gone
    BY DEF Tick
  <2>2. store[s].until \in Nat /\ store[s].exp \in Nat
    BY <1>1 DEF Session
  <2> QED
    BY <1>1, <2>1, <2>2 DEF Usable, Present, Gone
<1>3. ASSUME NEW u \in Tasks PROVE Started(u)'
  <2>1. Started(u) /\ task[u].at \in Nat
    BY <1>1 DEF CapInv, TypeOK, Task
  <2> QED
    BY <1>1, <2>1 DEF Started
<1>4. ASSUME ~revived, NEW s \in Sids PROVE Capped(s)'
  <2>1. Capped(s)
    BY <1>4 DEF CapInv
  <2> QED
    BY <1>1, <1>2, <2>1 DEF Capped, Usable
<1>5. ASSUME ~revived, ~uncapped PROVE Counting'
  <2>1. Live' \subseteq Live /\ Live \subseteq Sids /\ Doomed' = Doomed
    BY <1>1, <1>2 DEF Live, Doomed
  <2>2. \A S, T : S \subseteq T /\ T \subseteq Sids =>
           Cardinality(S) <= Cardinality(T) /\ Cardinality(S) \in Nat /\ Cardinality(T) \in Nat
    BY <1>1, Counts
  <2>3. Live' \ Doomed' \subseteq Live \ Doomed /\ Live \ Doomed \subseteq Sids
    BY <2>1
  <2>4. /\ Cardinality(Live' \ Doomed') <= Cardinality(Live \ Doomed)
        /\ Cardinality(Live' \ Doomed') \in Nat /\ Cardinality(Live \ Doomed) \in Nat
    BY <2>2, <2>3
  <2>5. Cap \in Nat /\ Counting
    BY <1>5, ConstantsAssumption DEF CapInv
  <2>6. ASSUME NEW u \in Tasks, pc[u] \in {"expire", "count"} \/ CountedAll(u) PROVE Counting'
    BY <1>1, <2>6 DEF Counting, CountedAll, Indexed
  <2>7. CASE Cardinality(Live \ Doomed) <= Cap
    <3>1. Cardinality(Live' \ Doomed') <= Cap
      BY <2>4, <2>5, <2>7
    <3> QED
      BY <3>1 DEF Counting
  <2> QED
    BY <2>5, <2>6, <2>7 DEF Counting
<1> QED
  BY <1>1, <1>3, <1>4, <1>5 DEF CapInv

\* CapKept: under any number of logins, requests and invalidations, once no login is under way the user
\* has at most Cap live sessions in his index (_evict_user_overflow_sessions): as long as the last count
\* was not followed by a login whose own eviction failed or was cut short, and nobody has written back a
\* session that was deleted, expired or unlisted since it was read.
THEOREM SessionsAreCapped == Spec => []CapKept
<1>1. Init => HeldInv /\ CapInv
  <2> SUFFICES ASSUME Init PROVE HeldInv /\ CapInv
    OBVIOUS
  <2>1. now = 1 /\ ~revived /\ store = [s \in Sids |-> Gone] /\ strays = {} /\ index = [s \in Sids |-> 0]
        /\ \A t \in Tasks : pc[t] = "idle"
    BY DEF Init
  <2>2. \A s \in Sids : ~Present(s) /\ ~Usable(s)
    BY <2>1 DEF Usable, Present, Gone
  <2>3. Live \ Doomed = {}
    BY <2>2 DEF Live
  <2>4. Cardinality({}) = 0 /\ Cap \in Nat
    BY FS_EmptySet, ConstantsAssumption
  <2>5. Counting /\ \A s \in Sids : Capped(s)
    BY <2>1, <2>2, <2>3, <2>4 DEF Counting, Capped
  <2>6. \A t \in Tasks : Started(t)
    BY <2>1 DEF Started
  <2> QED
    BY <2>1, <2>5, <2>6, RecentStart DEF CapInv
<1>2. HeldInv /\ CapInv /\ [Next]_vars => HeldInv' /\ CapInv'
  <2> SUFFICES ASSUME HeldInv, CapInv, [Next]_vars PROVE HeldInv' /\ CapInv'
    OBVIOUS
  <2>1. HeldInv'
    BY HeldKept
  <2>2. CASE UNCHANGED vars
    <3>1. UNCHANGED <<now, store, index, used, strays, revived, uncapped, pc, task>>
      BY <2>2 DEF vars, redis, history
    <3>2. (\A t \in Tasks : Started(t)') /\ (\A s \in Sids : Capped(s)') = (\A s \in Sids : Capped(s))
          /\ Counting' = Counting
      BY <3>1 DEF Started, Capped, Usable, Present, Counting, CountedAll, Doomed, Live, Indexed, CapInv
    <3> QED
      BY <2>1, <3>1, <3>2 DEF CapInv
  <2> QED
    BY <2>1, <2>2, CapStep, CapTick DEF Next
<1>3. HeldInv /\ CapInv => CapKept
  <2> SUFFICES ASSUME HeldInv, CapInv, ~revived, ~uncapped, \A t \in Tasks : pc[t] \notin Evicting
               PROVE  Cardinality(Live) <= Cap
    BY DEF CapKept
  <2>1. Cardinality(Live \ Doomed) <= Cap
    BY DEF CapInv, Counting, CountedAll, Evicting
  <2>2. Doomed = {}
    BY DEF Doomed, Evicting
  <2>3. Live \ {} = Live
    OBVIOUS
  <2> QED
    BY <2>1, <2>2, <2>3
<1> QED
  BY <1>1, <1>2, <1>3, PTL DEF Spec
=============================================================================
