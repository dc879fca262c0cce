------------------------------ MODULE Sessions -------------------------------
(***************************************************************************)
(* The sessions of one user (api-web/app/authn): session_store.py keeps    *)
(* them in Redis, the routes of routes.py and the dependency of deps.py    *)
(* work on them.  A session is a key with a time to live; a set and an     *)
(* index sorted by expiry name the sessions of the user.                   *)
(*                                                                         *)
(* Requests, the invalidation webhook and the janitor that prunes indexes  *)
(* are asyncio tasks: between two calls of Redis or of Supabase any other  *)
(* task may run.  Each such call is a step of its own; a MULTI pipeline is *)
(* one step.  What a task has read, it keeps in `task' and may write back  *)
(* long after somebody else has deleted it.  A call may fail: where the    *)
(* code swallows the error the task goes on, anywhere else it ends there,  *)
(* as it does when the client goes away or the process is killed.          *)
(*                                                                         *)
(* Of a subscription only its kind is kept, of plan and permissions what   *)
(* is derived from it.  The clock counts in units of which a request takes *)
(* less than one from looking a subscription up to writing what it gave.   *)
(***************************************************************************)
EXTENDS Naturals, FiniteSets

CONSTANTS
  Tasks,          \* requests that may be under way at a time
  Mixes,          \* requests that are explored together: what each task is asked to do (ops),
                  \* whether logins are remembered, and as bounds of the model whether calls of
                  \* Redis fail, the number of logins and the last moment of the clock
  Sids,           \* session ids, each given out once
  None,           \* no session id
  Cap,            \* SERVER_SESSION_MAX_PER_USER
  Ttl,            \* SERVER_SESSION_MAX_TTL
  RememberTtl,    \* SERVER_SESSION_REMEMBER_MAX_TTL
  PermsTtl,       \* PERMS_CACHE_TTL_SECONDS
  ProfileTtl,     \* PROFILE_CACHE_TTL_SECONDS
  Throttle,       \* 60 s between two refreshes
  Sync            \* SESSION_ENTITLEMENT_SYNC_SECONDS

ASSUME ConstantsAssumption ==
  /\ IsFiniteSet(Sids) /\ None \notin Sids
  /\ Cap \in Nat \ {0} /\ Ttl \in Nat \ {0} /\ RememberTtl \in Nat \ {0}
  /\ PermsTtl \in Nat \ {0} /\ ProfileTtl \in Nat \ {0}
  /\ Throttle \in Nat /\ Sync \in Nat \ {0}

VARIABLES
  mix,            \* the one of Mixes that this behaviour is about
  now,
  subscription,   \* what the database says of the user
  ever,           \* when each plan was last the right one; when an activation last wrote "core" (history)
  name,           \* the user's name at Supabase: how often it was changed, modulo 2
  store,          \* session:<sid>
  members,        \* user_sessions:<user>
  index,          \* user_sessions_idx:<user>: expiry of each sid, 0 for none
  perms,          \* user:perms:<user>
  profile,        \* user:profile:<user>
  used,           \* sids given out
  strays,         \* sids taken off the indexes while alive (history)
  revived,        \* whether a session was written back that had been deleted or had expired, or had
                  \* lost its place in the index, or was given one that ends at another time (history)
  uncapped,       \* whether a login ended without its eviction since the sessions were last counted
                  \* (history)
  misread,        \* whether a profile was stored that had changed since it was read, or the user was
                  \* changed by a request that ended before it invalidated the cache (history)
  pc, task

redis == <<store, members, index>>
caches == <<perms, profile>>
user == <<subscription, ever, name>>
history == <<used, strays, revived, uncapped, misread>>
vars == <<mix, now, user, redis, caches, history, pc, task>>

\* A subscription gives "free" or "pro"; "core", with permissions that no subscription gives, is what an
\* activation writes.
Plans == {"free", "pro", "core"}

Gone == [remember |-> FALSE, iat |-> 0, last |-> 0, exp |-> 0, synced |-> 0, plan |-> "free", until |-> 0]
NoPerms == [plan |-> "free", until |-> 0]
NoProfile == [name |-> 0, until |-> 0]
Idle == [op |-> "none", sid |-> None, target |-> None, flag |-> FALSE, copy |-> [s \in Sids |-> Gone], got |-> {},
         plan |-> "free", name |-> 0, at |-> 0, over |-> 0, failed |-> FALSE]

\* A key is there until its time to live is over; get_session also looks at the expiry it holds.
Present(s) == store[s].until > now
Usable(s) == Present(s) /\ store[s].exp >= now
Larger(a, b) == IF a > b THEN a ELSE b
TtlOf(remember) == IF remember THEN RememberTtl ELSE Ttl

\* _derive_plan_and_permissions_from_subscription: one that is active or a trial, or paused for
\* confirmed free months that still run, gives the plan.
Subscriptions == {"runs", "over"}
Derive(sub) == IF sub = "runs" THEN "pro" ELSE "free"

Init ==
  /\ mix \in Mixes
  /\ now = 1
  /\ subscription \in Subscriptions
  /\ ever = [p \in Plans |-> IF p = Derive(subscription) THEN 1 ELSE 0]
  /\ name = 0
  /\ store = [s \in Sids |-> Gone]
  /\ members = {} /\ index = [s \in Sids |-> 0]
  /\ perms = NoPerms /\ profile = NoProfile
  /\ used = {} /\ strays = {}
  /\ revived = FALSE /\ uncapped = FALSE /\ misread = FALSE
  /\ pc = [t \in Tasks |-> "idle"]
  /\ task = [t \in Tasks |-> Idle]

Goto(t, l) == pc' = [pc EXCEPT ![t] = l]
Note(t, r) == task' = [task EXCEPT ![t] = r]
Keep(t) == UNCHANGED task
Done(t) == Goto(t, "idle") /\ Note(t, Idle)

\* The step from l, which Redis or a cache answers.
At(t, l) == pc[t] = l /\ UNCHANGED <<mix, now, user>>

Forget(S) ==
  /\ members' = members \ S
  /\ index' = [s \in Sids |-> IF s \in S THEN 0 ELSE index[s]]
  /\ strays' = strays \cup {s \in S : Present(s) /\ (s \in members \/ index[s] # 0)}

\* Sessions are written back, with their places in the index, whatever has become of them meanwhile.
Write(S, value(_), places) ==
  /\ store' = [s \in Sids |-> IF s \in S THEN value(s) ELSE store[s]]
  /\ index' = places
  /\ revived' = (revived \/ \E s \in S : ~Usable(s) \/ index[s] = 0 \/ places[s] # value(s).exp)

----------------------------------------------------------------------------
\* session_store.py

Fresh(remember, plan) ==
  [remember |-> remember, iat |-> now, last |-> now, exp |-> now + TtlOf(remember), synced |-> 0,
   plan |-> plan, until |-> now + TtlOf(remember)]

\* Mutant: the id the browser already has is used again.
CreateReusing(t) ==
  /\ At(t, "create")
  /\ \E s \in Sids :
       /\ IF task[t].sid # None THEN s = task[t].sid ELSE s \notin used
       /\ store' = [store EXCEPT ![s] = Fresh(task[t].flag, task[t].plan)]
       /\ members' = members \cup {s}
       /\ index' = [index EXCEPT ![s] = now + TtlOf(task[t].flag)]
       /\ used' = used \cup {s}
  /\ Goto(t, "expire") /\ Keep(t)
  /\ UNCHANGED <<caches, strays, revived, uncapped, misread>>

\* create_session: a new key and both indexes in one transaction, then the cap.
Create(t) ==
  /\ At(t, "create")
  /\ \E s \in Sids \ used :
       /\ store' = [store EXCEPT ![s] = Fresh(task[t].flag, task[t].plan)]
       /\ members' = members \cup {s}
       /\ index' = [index EXCEPT ![s] = now + TtlOf(task[t].flag)]
       /\ used' = used \cup {s}
  /\ Goto(t, "expire") /\ Keep(t)
  /\ UNCHANGED <<caches, strays, revived, uncapped, misread>>

\* Where a login is that has added its session and not seen to the cap yet.
Evicting == {"expire", "count", "lowest", "evict", "evicted"}

Indexed(from) == {s \in Sids : index[s] # 0 /\ index[s] >= from}
Rotate(t) == Goto(t, IF task[t].sid # None THEN "drop" ELSE "end")

\* _evict_user_overflow_sessions: what has expired by now leaves the index ...
Expire(t) ==
  /\ At(t, "expire")
  /\ index' = [s \in Sids |-> IF index[s] < now THEN 0 ELSE index[s]]
  /\ Goto(t, "count") /\ Note(t, [task[t] EXCEPT !.at = now])
  /\ UNCHANGED <<store, members, caches, history>>

\* The error of a read is swallowed: the login goes on without the eviction.
Unevicted(t) == mix.fails /\ uncapped' = TRUE /\ Rotate(t) /\ Keep(t)
Excess(t) == Cardinality(Indexed(task[t].at)) - Cap

\* Mutant: the new session is not counted.
CountOthers(t) ==
  /\ At(t, "count")
  /\ \/ /\ uncapped' = FALSE
        /\ IF Excess(t) - 1 > 0
             THEN Goto(t, "lowest") /\ Note(t, [task[t] EXCEPT !.over = Excess(t) - 1])
             ELSE Rotate(t) /\ Keep(t)
     \/ Unevicted(t)
  /\ UNCHANGED <<redis, caches, used, strays, revived, misread>>

\* ... the rest is counted ...
Count(t) ==
  /\ At(t, "count")
  /\ \/ /\ uncapped' = FALSE
        /\ IF Excess(t) > 0
             THEN Goto(t, "lowest") /\ Note(t, [task[t] EXCEPT !.over = Excess(t)])
             ELSE Rotate(t) /\ Keep(t)
     \/ Unevicted(t)
  /\ UNCHANGED <<redis, caches, used, strays, revived, misread>>

\* ... the sids that expire first are read, as many as there were too many ...
Lowest(t) ==
  /\ At(t, "lowest")
  /\ \/ LET counted == Indexed(task[t].at)
        IN  \E S \in SUBSET counted :
              /\ \/ Cardinality(S) = task[t].over
                 \/ S = counted /\ Cardinality(S) < task[t].over
              /\ \A s \in S, o \in counted \ S : index[s] <= index[o]
              /\ Note(t, [task[t] EXCEPT !.got = S])
              /\ IF S # {} THEN Goto(t, "evict") ELSE Rotate(t)
              /\ UNCHANGED uncapped
     \/ Unevicted(t)
  /\ UNCHANGED <<redis, caches, used, strays, revived, misread>>

\* ... and of each the key is deleted, and then its places in the indexes.
Evict(t) ==
  /\ At(t, "evict")
  /\ \E s \in task[t].got :
       /\ store' = [store EXCEPT ![s] = Gone]
       /\ Note(t, [task[t] EXCEPT !.got = task[t].got \ {s}, !.target = s])
  /\ Goto(t, "evicted")
  /\ UNCHANGED <<members, index, caches, history>>

Evicted(t) ==
  /\ At(t, "evicted")
  /\ Forget({task[t].target})
  /\ IF task[t].got # {} THEN Goto(t, "evict") ELSE Rotate(t)
  /\ Keep(t)
  /\ UNCHANGED <<store, caches, used, revived, uncapped, misread>>

\* delete_session: the session is read for its user, taken off the indexes, and deleted.
Target(t) == IF task[t].target # None /\ task[t].op = "revoke" THEN task[t].target ELSE task[t].sid

Drop(t) ==
  /\ At(t, "drop")
  /\ Goto(t, IF Usable(Target(t)) THEN "unlist" ELSE "erase")
  /\ Keep(t)
  /\ UNCHANGED <<redis, caches, history>>

Unlist(t) ==
  /\ At(t, "unlist")
  /\ Forget({Target(t)})
  /\ Goto(t, "erase") /\ Keep(t)
  /\ UNCHANGED <<store, caches, used, revived, uncapped, misread>>

Erase(t) ==
  /\ At(t, "erase")
  /\ store' = [store EXCEPT ![Target(t)] = Gone]
  /\ Goto(t, IF task[t].op = "logout" /\ task[t].flag THEN "unprofile" ELSE "end") /\ Keep(t)
  /\ UNCHANGED <<members, index, caches, history>>

Holds(t, s) == task[t].copy[s].until # 0
Copy(t) == task[t].copy[task[t].sid]
\* Mutant: a sync is due one unit later.
ResyncLate(t, session) == now - session.synced > Sync
ResyncDue(t, session) == now - session.synced >= Sync
Authorised(t, session) ==
  /\ Note(t, [task[t] EXCEPT !.copy[task[t].sid] = session, !.at = now])
  /\ Goto(t, IF ResyncDue(t, session) THEN "lookup" ELSE "served")

\* refresh_session_activity: at most once a minute; a session that is not remembered slides.
Refresh(t) ==
  LET c == Copy(t)
      exp == IF c.remember THEN c.exp ELSE now + Ttl
      session == [c EXCEPT !.last = now, !.exp = exp, !.until = now + Larger(1, exp - now)]
  IN /\ At(t, "refresh")
     /\ \/ /\ now - c.last < Throttle
           /\ Authorised(t, c)
           /\ UNCHANGED <<redis, history>>
        \/ /\ now - c.last >= Throttle
           /\ c.remember /\ c.exp < now
           /\ Done(t)
           /\ UNCHANGED <<redis, history>>
        \/ /\ now - c.last >= Throttle
           /\ ~c.remember \/ c.exp >= now
           /\ Write({task[t].sid}, LAMBDA s : session, [index EXCEPT ![task[t].sid] = session.exp])
           /\ Authorised(t, session)
           /\ UNCHANGED <<members, used, strays, uncapped, misread>>
     /\ UNCHANGED caches

\* persist_session: the copy is written whatever has become of the session, unless it has expired.  The
\* request swallows an error of the write, and goes on with its copy.
Persist(t) ==
  LET c == Copy(t)
      session == [c EXCEPT !.until = now + Larger(1, c.exp - now)]
  IN /\ At(t, "persist")
     /\ \/ (c.exp < now \/ mix.fails) /\ UNCHANGED <<redis, history>>
        \/ /\ c.exp >= now
           /\ Write({task[t].sid}, LAMBDA s : session, [index EXCEPT ![task[t].sid] = c.exp])
           /\ UNCHANGED <<members, used, strays, uncapped, misread>>
     /\ Goto(t, "served") /\ Keep(t)
     /\ UNCHANGED caches

\* Every function on all sessions of the user reads the set, and then the index.  An error of either
\* read counts as nothing found, except for the janitor.
Swallows(t) == mix.fails /\ task[t].op # "prune"

Members(t) ==
  /\ At(t, "members")
  /\ \E found \in {members} \cup (IF Swallows(t) THEN {{}} ELSE {}) :
       Note(t, [task[t] EXCEPT !.got = found, !.at = now])
  /\ Goto(t, "ranked")
  /\ UNCHANGED <<redis, caches, history>>

After(t) ==
  CASE task[t].op = "prune" -> "probe"
    [] task[t].op \in {"list", "revoke"} -> "fetch"
    [] task[t].op = "activate" \/ (task[t].op = "invalidate" /\ ~task[t].flag) -> "fetch"
    [] OTHER -> "wipe"

Ranked(t) ==
  /\ At(t, "ranked")
  /\ \E ranked \in {Indexed(IF task[t].op = "prune" THEN 0 ELSE task[t].at)}
                    \cup (IF Swallows(t) THEN {{}} ELSE {}) :
     LET found == task[t].got \cup ranked
     IN  /\ Note(t, [task[t] EXCEPT !.got = found])
         /\ Goto(t, IF found # {} THEN After(t)
                    ELSE IF task[t].op = "prune" THEN "tidy_set" ELSE "scan")
  /\ UNCHANGED <<redis, caches, history>>

\* _scan_active_session_ids_for_user: only when both indexes are empty.
Scan(t) ==
  /\ At(t, "scan")
  /\ LET found == {s \in Sids : Usable(s)}
     IN  /\ Note(t, [task[t] EXCEPT !.got = found])
         /\ Goto(t, IF found # {} \/ After(t) = "wipe" THEN After(t)
                    ELSE "end")
  /\ UNCHANGED <<redis, caches, history>>

\* delete_all_sessions_for_user: the keys found, and both indexes whatever they hold by now.
Wipe(t) ==
  /\ At(t, "wipe")
  /\ store' = [s \in Sids |-> IF s \in task[t].got THEN Gone ELSE store[s]]
  /\ members' = {} /\ index' = [s \in Sids |-> 0]
  /\ strays' = strays \cup {s \in Sids \ task[t].got : Present(s) /\ (s \in members \/ index[s] # 0)}
  /\ Goto(t, "end") /\ Keep(t)
  /\ UNCHANGED <<caches, used, revived, uncapped, misread>>

\* mget of list_active_sessions_for_user and of update_all_sessions_for_user_perms.
Fetch(t) ==
  /\ At(t, "fetch")
  /\ LET here == {s \in task[t].got : Present(s)}
         stale == task[t].got \ {s \in here : store[s].exp >= task[t].at}
     IN IF task[t].op \in {"invalidate", "activate"}
          THEN /\ Note(t, [task[t] EXCEPT !.got = here,
                                          !.copy = [s \in Sids |-> IF s \in here THEN store[s] ELSE Gone]])
               /\ Goto(t, IF here # {} THEN "rewrite" ELSE "end")
          ELSE \E s \in (task[t].got \ stale) \cup {None} :
               /\ Note(t, [task[t] EXCEPT !.got = stale, !.target = s])
               /\ Goto(t, IF stale # {} THEN "unlist_stale"
                          ELSE IF task[t].op = "revoke" /\ s # None THEN "drop" ELSE "end")
  /\ UNCHANGED <<redis, caches, history>>

UnlistStale(t) ==
  /\ At(t, "unlist_stale")
  /\ Forget(task[t].got)
  /\ Goto(t, IF task[t].op = "revoke" /\ task[t].target # None THEN "drop" ELSE "end") /\ Keep(t)
  /\ UNCHANGED <<store, caches, used, revived, uncapped, misread>>

\* update_all_sessions_for_user_perms: the copies with the new plan, and no index.
Rewrite(t) ==
  /\ pc[t] = "rewrite"
  /\ Write(task[t].got, LAMBDA s : [task[t].copy[s] EXCEPT !.plan = task[t].plan,
                                      !.until = now + Larger(1, task[t].copy[s].exp - task[t].at)],
           index)
  /\ ever' = IF task[t].op = "activate" THEN [ever EXCEPT !["core"] = now] ELSE ever
  /\ Goto(t, "end") /\ Keep(t)
  /\ UNCHANGED <<mix, now, subscription, name, members, caches, used, strays, uncapped, misread>>

\* prune_stale_session_indexes_scan: sids without a key leave the indexes; then, if both were
\* empty when they were counted, the indexes are deleted.
Probe(t) ==
  /\ At(t, "probe")
  /\ LET stale == {s \in task[t].got : ~Present(s)}
     IN  /\ Note(t, [task[t] EXCEPT !.got = stale])
         /\ Goto(t, IF stale # {} THEN "prune" ELSE "count_set")
  /\ UNCHANGED <<redis, caches, history>>

Prune(t) ==
  /\ At(t, "prune")
  /\ Forget(task[t].got)
  /\ Goto(t, "count_set") /\ Keep(t)
  /\ UNCHANGED <<store, caches, used, revived, uncapped, misread>>

CountSet(t) ==
  /\ At(t, "count_set")
  /\ Note(t, [task[t] EXCEPT !.flag = (members = {})])
  /\ Goto(t, "count_index")
  /\ UNCHANGED <<redis, caches, history>>

CountIndex(t) ==
  /\ At(t, "count_index")
  /\ Goto(t, IF task[t].flag /\ Indexed(0) = {} THEN "tidy_set" ELSE "end") /\ Keep(t)
  /\ UNCHANGED <<redis, caches, history>>

TidySet(t) ==
  /\ At(t, "tidy_set")
  /\ members' = {}
  /\ Goto(t, "tidy_index") /\ Keep(t)
  /\ UNCHANGED <<store, index, caches, history>>

TidyIndex(t) ==
  /\ At(t, "tidy_index")
  /\ index' = [s \in Sids |-> 0]
  /\ strays' = strays \cup {s \in Sids : Present(s) /\ index[s] # 0}
  /\ Goto(t, "end") /\ Keep(t)
  /\ UNCHANGED <<store, members, caches, used, revived, uncapped, misread>>

----------------------------------------------------------------------------
\* routes.py and deps.py

\* Routes that need a session, and everything else that touches sessions: logging in and out, the
\* invalidation webhook, the activation of a subscription that was paid, and the pruning of the index.
NeedSession == {"validate", "me", "rename", "list", "revoke", "logout_all"}
Asked == NeedSession \cup {"login", "logout", "invalidate", "activate", "prune"}

ASSUME MixesAssumption == \A m \in Mixes : m.ops \in [Tasks -> SUBSET Asked]

First(op) ==
  CASE op \in NeedSession -> "authenticate"
    [] op = "login" -> "perms"
    [] op = "logout" -> "read"
    [] op = "invalidate" -> "unperms"
    [] op \in {"activate", "prune"} -> "members"

\* The activation of a payment, by the webhook or long after it by the janitor, gives every session a
\* plan that is written in the code, and looks no subscription up.
PlanOf(op) == IF op = "activate" THEN "core" ELSE "free"

Begin(t) ==
  /\ At(t, "idle")
  /\ \E op \in mix.ops[t], flag \in BOOLEAN, sid \in used \cup {None} :
       /\ op = "login" => Cardinality(used) < mix.logins /\ flag \in mix.remember
       /\ op \in NeedSession \cup {"logout"} => sid # None
       /\ op \in {"invalidate", "activate", "prune"} => sid = None
       /\ op \notin {"login", "invalidate"} => ~flag
       /\ op = "prune" => members # {}
       /\ Note(t, [Idle EXCEPT !.op = op, !.sid = sid, !.flag = flag, !.plan = PlanOf(op)])
       /\ Goto(t, First(op))
  /\ UNCHANGED <<redis, caches, history>>

\* A call fails and nothing catches the error, the client goes away, or the process is killed.
Abort(t) ==
  /\ mix.fails /\ At(t, pc[t]) /\ pc[t] # "idle"
  /\ Done(t)
  /\ uncapped' = (uncapped \/ pc[t] \in Evicting)
  /\ misread' = (misread \/ (task[t].op = "rename" /\ pc[t] = "unprofile"))
  /\ UNCHANGED <<redis, caches, used, strays, revived>>

\* The task returns its answer.
End(t) == At(t, "end") /\ Done(t) /\ UNCHANGED <<redis, caches, history>>

\* _require_session, require_session: no session, a failed CSRF check or another device refuse
\* the request; a session that is used from another device is deleted.
Authenticate(t) ==
  /\ At(t, "authenticate")
  /\ LET s == task[t].sid
     IN \/ Done(t)
        \/ Usable(s) /\ Goto(t, "drop") /\ Note(t, [task[t] EXCEPT !.op = "mismatch"])
        \/ Usable(s) /\ Goto(t, "refresh") /\ Note(t, [task[t] EXCEPT !.copy[s] = store[s]])
  /\ UNCHANGED <<redis, caches, history>>

\* The subscription is looked up again when the session has not been synced for a while.
\* A lookup that fails leaves the session as it is.
Lookup(t) ==
  /\ At(t, "lookup")
  /\ \/ /\ Note(t, [task[t] EXCEPT !.copy[task[t].sid].plan = Derive(subscription),
                                   !.copy[task[t].sid].synced = now])
        /\ Goto(t, "persist")
     \/ Note(t, [task[t] EXCEPT !.failed = TRUE]) /\ Goto(t, "served")
  /\ UNCHANGED <<redis, caches, history>>

\* The request has its session: what the route does with it.
Served(t) ==
  /\ At(t, "served")
  /\ Note(t, [task[t] EXCEPT !.copy = [s \in Sids |-> Gone], !.failed = FALSE])
  /\ Goto(t, CASE task[t].op = "validate" -> "end"
               [] task[t].op = "me" -> "profile"
               [] task[t].op = "rename" -> "user"
               [] task[t].op \in {"list", "revoke"} -> "members"
               [] task[t].op = "logout_all" -> "unprofile")
  /\ UNCHANGED <<redis, caches, history>>

\* auth_exchange: the plan of a new session comes from the cache, or from the database; it is
\* free, and cached as that, when the lookup fails.
Perms(t) ==
  /\ At(t, "perms")
  /\ IF perms.until > now
       THEN Goto(t, "create") /\ Note(t, [task[t] EXCEPT !.plan = perms.plan])
       ELSE Goto(t, "subscription") /\ Keep(t)
  /\ UNCHANGED <<redis, caches, history>>

\* A trial that the policy does not allow on this device is ended by auth_exchange itself: what is
\* cached of the plan is dropped and not asked.
TrialEnds(t) ==
  /\ At(t, "perms")
  /\ perms' = NoPerms
  /\ Goto(t, "subscription") /\ Keep(t)
  /\ UNCHANGED <<redis, profile, history>>

Subscription(t) ==
  /\ At(t, "subscription")
  /\ \E plan \in {Derive(subscription), "free"} : Note(t, [task[t] EXCEPT !.plan = plan])
  /\ Goto(t, "set_perms")
  /\ UNCHANGED <<redis, caches, history>>

SetPerms(t) ==
  /\ At(t, "set_perms")
  /\ perms' = [plan |-> task[t].plan, until |-> now + PermsTtl]
  /\ Goto(t, "create") /\ Keep(t)
  /\ UNCHANGED <<redis, profile, history>>

\* auth_logout reads the session first, for its user.
Read(t) ==
  /\ At(t, "read")
  /\ Note(t, [task[t] EXCEPT !.flag = Usable(task[t].sid)])
  /\ Goto(t, "drop")
  /\ UNCHANGED <<redis, caches, history>>

\* auth_invalidate_user: the caches, and then all sessions: deleted, or given the plan.
Unperms(t) ==
  /\ At(t, "unperms")
  /\ perms' = NoPerms
  /\ Goto(t, "unprofile") /\ Keep(t)
  /\ UNCHANGED <<redis, profile, history>>

InvalidateProfile(t) ==
  /\ At(t, "unprofile")
  /\ profile' = NoProfile
  /\ Goto(t, CASE task[t].op = "logout_all" -> "members"
               [] task[t].op = "invalidate" -> IF task[t].flag THEN "members" ELSE "entitlement"
               [] OTHER -> "end")
  /\ Keep(t)
  /\ UNCHANGED <<redis, perms, history>>

Entitlement(t) ==
  /\ At(t, "entitlement")
  /\ \/ Note(t, [task[t] EXCEPT !.plan = Derive(subscription)]) /\ Goto(t, "members")
     \/ Goto(t, "end") /\ Keep(t)
  /\ UNCHANGED <<redis, caches, history>>

\* auth_me: the cached profile, or the user from Supabase, which is cached.
Profile(t) ==
  /\ At(t, "profile")
  /\ Goto(t, IF profile.until > now THEN "end" ELSE "fetch_user") /\ Keep(t)
  /\ UNCHANGED <<redis, caches, history>>

FetchUser(t) ==
  /\ At(t, "fetch_user")
  /\ \/ Note(t, [task[t] EXCEPT !.name = name]) /\ Goto(t, "set_profile")
     \/ Done(t)
  /\ UNCHANGED <<redis, caches, history>>

SetProfile(t) ==
  /\ At(t, "set_profile")
  /\ profile' = [name |-> task[t].name, until |-> now + ProfileTtl]
  /\ misread' = (misread \/ task[t].name # name)
  /\ Goto(t, "end") /\ Keep(t)
  /\ UNCHANGED <<redis, perms, used, strays, revived, uncapped>>

\* Mutant: the cached profile is left to expire.
RenameOnly(t) ==
  /\ pc[t] = "user"
  /\ name' = 1 - name
  /\ Goto(t, "end") /\ Keep(t)
  /\ UNCHANGED <<mix, now, subscription, ever, redis, caches, history>>

\* auth_update_profile, auth_update_email: the user is changed, then the cache is invalidated.
Rename(t) ==
  /\ pc[t] = "user"
  /\ \/ name' = 1 - name /\ Goto(t, "unprofile") /\ Keep(t)
     \/ UNCHANGED name /\ Done(t)
  /\ UNCHANGED <<mix, now, subscription, ever, redis, caches, history>>

----------------------------------------------------------------------------
\* The clock, with which the subscription may change.

Tick ==
  /\ now < mix.time
  /\ \A t \in Tasks : pc[t] \notin {"persist", "set_profile"}
  /\ \A t \in Tasks : ~(task[t].op = "invalidate" /\ pc[t] \in {"members", "ranked", "scan", "fetch", "rewrite"})
  /\ now' = now + 1
  /\ \E sub \in Subscriptions :
       /\ subscription' = sub
       /\ ever' = [ever EXCEPT ![Derive(sub)] = now + 1]
  /\ store' = [s \in Sids |-> IF store[s].until > now + 1 THEN store[s] ELSE Gone]
  /\ perms' = IF perms.until > now + 1 THEN perms ELSE NoPerms
  /\ profile' = IF profile.until > now + 1 THEN profile ELSE NoProfile
  /\ UNCHANGED <<mix, name, members, index, history, pc, task>>

Step(t) ==
  \/ Begin(t) \/ End(t) \/ Authenticate(t) \/ Refresh(t) \/ Lookup(t) \/ Persist(t) \/ Served(t)
  \/ Perms(t) \/ TrialEnds(t) \/ Subscription(t) \/ SetPerms(t)
  \/ Abort(t) \/ Create(t) \/ Expire(t) \/ Count(t) \/ Lowest(t) \/ Evict(t) \/ Evicted(t)
  \/ Read(t) \/ Drop(t) \/ Unlist(t) \/ Erase(t)
  \/ Members(t) \/ Ranked(t) \/ Scan(t) \/ Wipe(t) \/ Fetch(t) \/ UnlistStale(t) \/ Rewrite(t)
  \/ Probe(t) \/ Prune(t) \/ CountSet(t) \/ CountIndex(t) \/ TidySet(t) \/ TidyIndex(t)
  \/ Unperms(t) \/ InvalidateProfile(t) \/ Entitlement(t)
  \/ Profile(t) \/ FetchUser(t) \/ SetProfile(t) \/ Rename(t)

Next == (\E t \in Tasks : Step(t)) \/ Tick

Spec == Init /\ [][Next]_vars

----------------------------------------------------------------------------
\* Properties

Session ==
  [remember : BOOLEAN, iat : Nat, last : Nat, exp : Nat, synced : Nat, plan : Plans, until : Nat]
Task ==
  [op : Asked \cup {"mismatch", "none"}, sid : Sids \cup {None}, target : Sids \cup {None}, flag : BOOLEAN,
   copy : [Sids -> Session], got : SUBSET Sids, plan : Plans, name : 0..1, at : Nat, over : Nat,
   failed : BOOLEAN]

\* Keys, caches and what a task has in hand keep their shape.
TypeOK ==
  /\ mix \in Mixes /\ now \in Nat /\ name \in 0..1
  /\ store \in [Sids -> Session] /\ used \subseteq Sids /\ members \subseteq Sids
  /\ perms \in [plan : Plans, until : Nat]
  /\ DOMAIN pc = Tasks /\ task \in [Tasks -> Task]

\* A task writes back only what it has read: the inductive invariant behind GoneForGood.
Held(t) ==
  /\ pc[t] \in {"authenticate", "refresh", "lookup", "persist", "served"} =>
       task[t].sid # None /\ task[t].op \in NeedSession
  /\ pc[t] \in {"refresh", "lookup", "persist"} => Holds(t, task[t].sid)
  /\ pc[t] = "rewrite" => \A s \in task[t].got : Holds(t, s)
HeldInv == TypeOK /\ \A t \in Tasks : Held(t)

\* session_store.py:302: a session that is deleted or has expired is never usable again, except
\* through a request that had read it before and writes its copy back.  In particular a login
\* never brings an old id to life.
GoneForGood ==
  [][\A s \in used : Present(s) \/ (\E t \in Tasks : Holds(t, s))
                       \/ ~(store'[s].until > now')]_vars

\* session_store.py:171: when no login is under way the user has at most Cap live sessions, besides
\* those that are losing their places in the indexes.  A login whose eviction is skipped or cut short
\* may leave one too many, but only until the sessions are counted again: the next login evicts what is
\* left over from it too.  And as long as no request has written back a session that was deleted, expired
\* or unlisted since it read it: such a session can be evicted in place of another.
Live == {s \in Sids : Usable(s) /\ s \notin strays}
CapKept ==
  ~revived /\ ~uncapped /\ (\A t \in Tasks : pc[t] \notin Evicting) => Cardinality(Live) <= Cap

\* deps.py:115: a request is served with a plan that was right at most Sync before, or that the
\* activation of a payment wrote into the sessions at most Sync before, unless its own lookup failed:
\* neither a stale copy nor a stale cache keeps an old plan in use for longer, nor does the plan that
\* an activation writes without looking the subscription up.
PlanRecent ==
  \A t \in Tasks : pc[t] = "served" /\ ~task[t].failed => ever[Copy(t).plan] + Sync > task[t].at

\* routes.py:1067: once the cache is invalidated the next answer has the new name, as long as no
\* request has cached a user it read before the change, or has ended between the change and the
\* invalidation.
ProfileCurrent ==
  /\ profile.until > now /\ profile.name # name
  => misread \/ \E t \in Tasks : task[t].op = "rename" /\ pc[t] = "unprofile"

\* What a user is served from copies and caches is recent: the plan, and the profile.
ServedRecently == PlanRecent /\ ProfileCurrent
=============================================================================
