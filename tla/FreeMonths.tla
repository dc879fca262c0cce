----------------------------- MODULE FreeMonths -----------------------------
(***************************************************************************)
(* What the referral programme promises: an activated reward buys its free *)
(* months exactly once, in a window of its own or added to the window of   *)
(* another reward, and a window is closed only after its end.              *)
(***************************************************************************)
EXTENDS Integers

CONSTANTS Rewards, Length   \* Length of the free access one reward buys

VARIABLES
  now,
  phase,   \* none, owed, running (has a window), spent
  start,   \* when the window of a reward opened
  months   \* how many rewards paid for the window of a reward

vars == <<now, phase, start, months>>

End(r) == start[r] + months[r] * Length

Init == /\ now = 0
        /\ phase = [r \in Rewards |-> "none"]
        /\ start = [r \in Rewards |-> -1]
        /\ months = [r \in Rewards |-> 0]

Activate(S) == /\ \A r \in S : phase[r] = "none"
               /\ phase' = [r \in Rewards |-> IF r \in S THEN "owed" ELSE phase[r]]
               /\ UNCHANGED <<now, start, months>>

\* The reward opens a window that starts no later than now.
Open(r) == /\ phase[r] = "owed"
           /\ phase' = [phase EXCEPT ![r] = "running"]
           /\ \E t \in 0..now : start' = [start EXCEPT ![r] = t]
           /\ months' = [months EXCEPT ![r] = 1]
           /\ UNCHANGED now

\* The reward makes the window of t longer, in exchange for its own.
Stack(r, t) == /\ phase[r] = "owed" /\ phase[t] = "running"
               /\ phase' = [phase EXCEPT ![r] = "spent"]
               /\ months' = [months EXCEPT ![t] = @ + 1]
               /\ UNCHANGED <<now, start>>

Close(r) == /\ phase[r] = "running" /\ End(r) <= now
            /\ phase' = [phase EXCEPT ![r] = "spent"]
            /\ UNCHANGED <<now, start, months>>

Tick == now' = now + 1 /\ UNCHANGED <<phase, start, months>>

Next == \/ \E S \in SUBSET Rewards : Activate(S)
        \/ \E r \in Rewards : Open(r) \/ Close(r)
        \/ \E r, t \in Rewards : Stack(r, t)
        \/ Tick

Spec == Init /\ [][Next]_vars
=============================================================================
