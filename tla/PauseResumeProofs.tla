------------------------- MODULE PauseResumeProofs -------------------------
(***************************************************************************)
(* Proofs about PauseResume for every number of rewards, with killed runs  *)
(* and failed calls.  For any number of workers: the shape of the state,   *)
(* the ownership of a reward by its pause cycle, and the finality of a     *)
(* finished cycle.  For one worker, as the scheduler runs it: the length   *)
(* of the windows, the pause behind each of them, the months granted, and  *)
(* the implementation of FreeMonths.                                       *)
(***************************************************************************)
EXTENDS PauseResume, TLAPS

\* A duration is a number of ticks, or NoTime.
LEMMA DurationTyped == \A x \in Rows : Duration(x) \in Times /\ Extension(x) \in Times
BY ConstantsAssumption DEF Rows, Times, Duration, Extension, NoTime

\* The effects of a conditional update, a jump and the end of a row's turn on the types.
LEMMA PatchTyped ==
  ASSUME cycle \in [Rewards -> Cycles], NEW r \in Rewards, NEW e, NEW c \in Cycles,
         Patch(r, e, c)
  PROVE  cycle' \in [Rewards -> Cycles]
BY DEF Patch

\* A jump moves one worker.
LEMMA GotoTyped ==
  ASSUME MemoryOK, NEW w \in Workers, NEW label \in PCs, Goto(w, label)
  PROVE  /\ pc' \in [Workers -> PCs]
         /\ pc'[w] = label
         /\ \A v \in Workers : v # w => pc'[v] = pc[v]
BY DEF MemoryOK, Goto

\* A worker that is done with a row drops it; the memory of the others stays.
LEMMA NextRowTyped ==
  ASSUME MemoryOK, NEW w \in Workers, NEW label \in PCs, NextRow(w, label)
  PROVE  /\ pc' \in [Workers -> PCs]
         /\ pc'[w] = label
         /\ \A v \in Workers : v # w => pc'[v] = pc[v] /\ row'[v] = row[v] /\ window'[v] = window[v]
         /\ row' \in [Workers -> Rows]
         /\ since' \in [Workers -> Times]
         /\ window' \in [Workers -> Windows]
BY GotoTyped DEF NextRow, MemoryOK, Rows, Windows, NoRow, NoWindow, NoTime, Times, CycleStates

\* The shape of the tables and of each worker's memory, and that a worker past a promotion
\* holds a row of the table, whatever the number of workers.
THEOREM Typing == Spec => []TypeOK
<1>1. Init => TypeOK
  BY ConstantsAssumption
     DEF Init, TypeOK, TablesOK, MemoryOK, HoldsRow, Cycles, CycleStates, Times, Unclaimed, NoTime,
         NoRow, NoWindow, Windows, Rows, PCs, Keys, PausePCs, ResumePCs
<1>2. TypeOK /\ [Next]_vars => TypeOK'
  <2> SUFFICES ASSUME TypeOK, [Next]_vars PROVE TypeOK'
    OBVIOUS
  <2>1. ASSUME NEW w \in Workers, SeedRead(w) PROVE TypeOK'
    <3>1. TablesOK'
      BY <2>1, ConstantsAssumption DEF SeedRead, TypeOK, TablesOK, MemoryOK, HoldsRow, PausePCs, ResumePCs,
                Times, db, history, provider, bounds, Fault, Unclaimed, Keys, PauseKey, ResumeKey
    <3>2. MemoryOK'
      BY <2>1, ConstantsAssumption
         DEF SeedRead, TypeOK, TablesOK, MemoryOK, HoldsRow, Cycles, Rows, NoRow, NoWindow, NoTime,
             Times, Windows, Goto, NextRow, Snapshot, PCs, PausePCs, ResumePCs, CycleStates
    <3>3. HoldsRow'
      BY <2>1 DEF SeedRead, TypeOK, MemoryOK, HoldsRow, NoRow, Goto, NextRow, Snapshot, PCs, PausePCs, ResumePCs
    <3> QED
      BY <3>1, <3>2, <3>3 DEF TypeOK
  <2>2. ASSUME NEW w \in Workers, SeedInsert(w) PROVE TypeOK'
    <3>1. ASSUME NEW r \in Rewards PROVE cycle'[r] \in Cycles
      <4>1. cycle[r] \in Cycles
        BY DEF TypeOK, TablesOK
      <4>2. CASE cycle[r].status = "absent" /\ \E x \in batch[w] : x.reward = r
        <5> DEFINE x == CHOOSE x \in batch[w] : x.reward = r
        <5>1. x \in Rows
          BY <4>2 DEF TypeOK, MemoryOK
        <5>2. cycle'[r] = [cycle[r] EXCEPT !.status = "reward_pending", !.last = x.last, !.next = x.next]
          BY <2>2, <4>2 DEF SeedInsert
        <5> QED
          BY <4>1, <5>1, <5>2 DEF Cycles, Rows, CycleStates, PauseStates, Times
      <4>3. CASE ~(cycle[r].status = "absent" /\ \E x \in batch[w] : x.reward = r)
        BY <2>2, <4>1, <4>3 DEF SeedInsert
      <4> QED
        BY <4>2, <4>3
    <3>2. cycle' \in [Rewards -> Cycles]
      BY <2>2, <3>1 DEF SeedInsert
    <3>3. TablesOK'
      BY <2>2, <3>2 DEF SeedInsert, TypeOK, TablesOK, provider, history, bounds
    <3>4. MemoryOK'
      BY <2>2, GotoTyped DEF SeedInsert, TypeOK, MemoryOK, PCs
    <3>5. HoldsRow'
      BY <2>2 DEF SeedInsert, TypeOK, MemoryOK, HoldsRow, Goto, PausePCs, ResumePCs
    <3> QED
      BY <3>3, <3>4, <3>5 DEF TypeOK
  <2>3. ASSUME NEW w \in Workers, FetchPause(w) PROVE TypeOK'
    <3>1. TablesOK'
      BY <2>3, ConstantsAssumption DEF FetchPause, TypeOK, TablesOK, MemoryOK, HoldsRow, PausePCs, ResumePCs,
                Times, db, history, provider, bounds, Fault, Unclaimed, Keys, PauseKey, ResumeKey
    <3>2. MemoryOK'
      BY <2>3, ConstantsAssumption
         DEF FetchPause, TypeOK, TablesOK, MemoryOK, HoldsRow, Cycles, Rows, NoRow, NoWindow, NoTime,
             Times, Windows, Goto, NextRow, Snapshot, PCs, PausePCs, ResumePCs, CycleStates
    <3>3. HoldsRow'
      BY <2>3 DEF FetchPause, TypeOK, MemoryOK, HoldsRow, NoRow, Goto, NextRow, Snapshot, PCs, PausePCs, ResumePCs
    <3> QED
      BY <3>1, <3>2, <3>3 DEF TypeOK
  <2>4. ASSUME NEW w \in Workers, PromotePause(w) PROVE TypeOK'
    <3> PICK x \in batch[w] :
          /\ batch' = [batch EXCEPT ![w] = @ \ {x}]
          /\ \/ /\ row' = [row EXCEPT ![w] = [x EXCEPT !.status = "pause_pending"]]
                /\ since' = [since EXCEPT ![w] = now]
                /\ \E label \in {"refresh", "find"} : Goto(w, label)
             \/ UNCHANGED <<pc, row, since>>
          /\ \/ UNCHANGED cycle
             \/ Patch(x.reward, x.status, [cycle[x.reward] EXCEPT !.status = "pause_pending"])
      BY <2>4 DEF PromotePause
    <3> DEFINE taken == [x EXCEPT !.status = "pause_pending"]
    <3>1. /\ x \in Rows /\ x.reward \in Rewards /\ cycle[x.reward] \in Cycles
          /\ taken \in Rows /\ taken.reward = x.reward
      BY DEF TypeOK, TablesOK, MemoryOK, HoldsRow, Rows, CycleStates, PauseStates, ResumeStates
    <3>2. [cycle[x.reward] EXCEPT !.status = "pause_pending"] \in Cycles
      BY <3>1 DEF Cycles, CycleStates, PauseStates, ResumeStates, Times
    <3>3. cycle' \in [Rewards -> Cycles]
      BY <3>1, <3>2, PatchTyped DEF TypeOK, TablesOK
    <3>4. TablesOK'
      BY <2>4, <3>3 DEF PromotePause, TypeOK, TablesOK, provider, history, bounds
    <3>5. UNCHANGED window
      BY <2>4 DEF PromotePause
    <3>6. MemoryOK'
      <4>1. batch' \in [Workers -> SUBSET Rows]
        BY DEF TypeOK, MemoryOK
      <4>2. row' \in [Workers -> Rows]
        BY <3>1 DEF TypeOK, MemoryOK
      <4>3. pc' \in [Workers -> PCs]
        BY GotoTyped DEF TypeOK, MemoryOK, PCs, PausePCs, ResumePCs
      <4>4. since' \in [Workers -> Times]
        BY DEF TypeOK, TablesOK, MemoryOK, Times
      <4> QED
        BY <3>5, <4>1, <4>2, <4>3, <4>4 DEF TypeOK, MemoryOK
    <3>7. HoldsRow'
      <4> SUFFICES ASSUME NEW v \in Workers
                   PROVE  /\ \A y \in batch'[v] : y.reward \in Rewards
                          /\ pc'[v] \in PausePCs \cup ResumePCs => row'[v].reward \in Rewards
                          /\ pc'[v] \in {"extend", "consume"} => window'[v].reward \in Rewards
        BY DEF HoldsRow
      <4>1. \A y \in batch'[v] : y.reward \in Rewards
        BY DEF TypeOK, MemoryOK, HoldsRow
      <4>2. pc'[v] \in PausePCs \cup ResumePCs => row'[v].reward \in Rewards
        BY <3>1, GotoTyped DEF TypeOK, MemoryOK, HoldsRow, PCs, PausePCs, ResumePCs
      <4>3. pc'[v] \in {"extend", "consume"} => window'[v].reward \in Rewards
        BY <3>5, GotoTyped DEF TypeOK, MemoryOK, HoldsRow, PCs, PausePCs, ResumePCs
      <4> QED
        BY <4>1, <4>2, <4>3
    <3> QED
      BY <3>4, <3>6, <3>7 DEF TypeOK
  <2>5. ASSUME NEW w \in Workers, RefreshDates(w) PROVE TypeOK'
    <3> DEFINE r == row[w].reward
               b == billing[SubOf[r]]
               x == [row[w] EXCEPT !.last = b.last, !.next = b.next]
    <3>1. r \in Rewards /\ cycle[r] \in Cycles /\ row[w] \in Rows
      BY <2>5 DEF RefreshDates, TypeOK, TablesOK, MemoryOK, HoldsRow, PausePCs
    <3>2. b.last \in Times /\ b.next \in Times
      BY <3>1, ConstantsAssumption DEF TypeOK, TablesOK
    <3>3. x \in Rows /\ x.reward = r
      BY <3>1, <3>2 DEF Rows
    <3>4. [cycle[r] EXCEPT !.last = b.last, !.next = b.next] \in Cycles
      BY <3>1, <3>2 DEF Cycles, Times
    <3>5. cycle' \in [Rewards -> Cycles]
      BY <2>5, <3>1, <3>4, PatchTyped DEF RefreshDates, TypeOK, TablesOK
    <3>6. TablesOK'
      BY <2>5, <3>5 DEF RefreshDates, TypeOK, TablesOK, provider, history, bounds
    <3>7. /\ row' = [row EXCEPT ![w] = x]
          /\ \E label \in {"pause_error", "find"} : Goto(w, label)
          /\ UNCHANGED <<batch, since, window>>
      BY <2>5 DEF RefreshDates
    <3>8. MemoryOK'
      BY <3>3, <3>7, GotoTyped DEF TypeOK, MemoryOK, PCs, PausePCs
    <3>9. HoldsRow'
      BY <3>1, <3>3, <3>7, GotoTyped DEF TypeOK, MemoryOK, HoldsRow, PCs, PausePCs, ResumePCs
    <3> QED
      BY <3>6, <3>8, <3>9 DEF TypeOK
  <2>6. ASSUME NEW w \in Workers, FindOpenWindow(w) PROVE TypeOK'
    <3>1. TablesOK'
      BY <2>6 DEF FindOpenWindow, TypeOK, TablesOK, db, provider, history, bounds
    <3>2. /\ UNCHANGED <<batch, row, since>>
          /\ \/ Goto(w, "defer") /\ UNCHANGED window
             \/ \E t \in Rewards : /\ window' = [window EXCEPT ![w] = [reward |-> t, until |-> cycle[t].until]]
                                   /\ Goto(w, "extend")
      BY <2>6 DEF FindOpenWindow, OpenWindows
    <3>3. \A t \in Rewards : [reward |-> t, until |-> cycle[t].until] \in Windows
      BY DEF TypeOK, TablesOK, Cycles, Windows
    <3>4. MemoryOK'
      BY <3>2, <3>3, GotoTyped DEF TypeOK, MemoryOK, PCs, PausePCs
    <3>5. row[w].reward \in Rewards
      BY <2>6 DEF FindOpenWindow, TypeOK, HoldsRow, PausePCs
    <3>6. HoldsRow'
      BY <3>2, <3>5, GotoTyped DEF TypeOK, MemoryOK, HoldsRow, PCs, PausePCs, ResumePCs
    <3> QED
      BY <3>1, <3>4, <3>6 DEF TypeOK
  <2>7. ASSUME NEW w \in Workers, ExtendWindow(w) PROVE TypeOK'
    <3> DEFINE t == window[w].reward
               until == window[w].until + Extension(row[w])
    <3>1. t \in Rewards /\ row[w].reward \in Rewards /\ cycle[t] \in Cycles
      BY <2>7 DEF ExtendWindow, TypeOK, TablesOK, HoldsRow, PausePCs
    <3>2. until \in Times
      BY DurationTyped DEF TypeOK, MemoryOK, Windows, Times
    <3>3. CASE /\ cycle' = [cycle EXCEPT ![t].until = until]
               /\ window' = [window EXCEPT ![w].until = until]
               /\ granted' = [granted EXCEPT ![row[w].reward] = @ + 1]
               /\ stacked' = [stacked EXCEPT ![t] = @ + 1]
               /\ Goto(w, "consume")
      <4>1. [cycle[t] EXCEPT !.until = until] \in Cycles
        BY <3>1, <3>2 DEF Cycles, Times
      <4>2. cycle' \in [Rewards -> Cycles]
        BY <3>1, <3>3, <4>1 DEF TypeOK, TablesOK
      <4>3. TablesOK'
        BY <2>7, <3>1, <3>3, <4>2 DEF ExtendWindow, TypeOK, TablesOK, provider, bounds
      <4>4. window' \in [Workers -> Windows] /\ window'[w].reward = t
        BY <3>2, <3>3 DEF TypeOK, MemoryOK, Windows
      <4>5. MemoryOK'
        BY <2>7, <3>3, <4>4, GotoTyped DEF ExtendWindow, TypeOK, MemoryOK, PCs, PausePCs
      <4>6. HoldsRow'
        BY <2>7, <3>1, <3>3, <4>4, GotoTyped DEF ExtendWindow, TypeOK, MemoryOK, HoldsRow, PCs, PausePCs, ResumePCs
      <4> QED
        BY <4>3, <4>5, <4>6 DEF TypeOK
    <3>4. CASE Goto(w, "defer") /\ UNCHANGED <<cycle, window, history>>
      <4>1. TablesOK'
        BY <2>7, <3>4 DEF ExtendWindow, TypeOK, TablesOK, provider, history, bounds
      <4>2. MemoryOK'
        BY <2>7, <3>4, GotoTyped DEF ExtendWindow, TypeOK, MemoryOK, PCs, PausePCs
      <4>3. HoldsRow'
        BY <2>7, <3>1, <3>4, GotoTyped DEF ExtendWindow, TypeOK, MemoryOK, HoldsRow, PCs, PausePCs, ResumePCs
      <4> QED
        BY <4>1, <4>2, <4>3 DEF TypeOK
    <3> QED
      BY <2>7, <3>3, <3>4 DEF ExtendWindow
  <2>8. ASSUME NEW w \in Workers, ConsumeReward(w) PROVE TypeOK'
    <3> DEFINE r == row[w].reward
               c == [cycle[r] EXCEPT !.status = "resumed", !.confirmed = TRUE,
                                     !.started = now, !.until = window[w].until]
    <3>1. r \in Rewards /\ cycle[r] \in Cycles
      BY <2>8 DEF ConsumeReward, TypeOK, TablesOK, HoldsRow, PausePCs, ResumePCs
    <3>2. c \in Cycles
      <4>1. now \in Times /\ window[w].until \in Times
        BY DEF TypeOK, TablesOK, MemoryOK, Windows, Times
      <4> QED
        BY <3>1, <4>1 DEF Cycles, CycleStates, PauseStates, ResumeStates
    <3>3. cycle' \in [Rewards -> Cycles]
      BY <2>8, <3>1, <3>2, PatchTyped DEF ConsumeReward, TypeOK, TablesOK
    <3>4. TablesOK'
      BY <2>8, <3>3 DEF ConsumeReward, TypeOK, TablesOK, provider, history, bounds
    <3>5. NextRow(w, "pause_next") /\ UNCHANGED batch
      BY <2>8 DEF ConsumeReward
    <3>6. MemoryOK'
      BY <3>5, NextRowTyped DEF TypeOK, MemoryOK, PCs
    <3>7. HoldsRow'
      BY <3>5, NextRowTyped DEF TypeOK, HoldsRow, PCs, PausePCs, ResumePCs
    <3> QED
      BY <3>4, <3>6, <3>7 DEF TypeOK
  <2>9. ASSUME NEW w \in Workers, DeferPause(w) PROVE TypeOK'
    <3> DEFINE r == row[w].reward
               c == [cycle[r] EXCEPT !.deferred = row[w].next + DeferDelay]
    <3>1. r \in Rewards /\ cycle[r] \in Cycles /\ row[w] \in Rows
      BY <2>9 DEF DeferPause, TypeOK, TablesOK, MemoryOK, HoldsRow, PausePCs, ResumePCs
    <3>2. c \in Cycles
      BY <3>1, ConstantsAssumption DEF Cycles, Rows, Times
    <3>3. CASE Patch(r, "pause_pending", c) /\ NextRow(w, "pause_next")
      <4>1. TablesOK'
        BY <2>9, <3>1, <3>2, <3>3, PatchTyped DEF DeferPause, TypeOK, TablesOK, provider, history, bounds
      <4>2. MemoryOK'
        BY <2>9, <3>3, NextRowTyped DEF DeferPause, TypeOK, MemoryOK, PCs
      <4>3. HoldsRow'
        BY <2>9, <3>3, NextRowTyped DEF DeferPause, TypeOK, HoldsRow, PCs, PausePCs, ResumePCs
      <4> QED
        BY <4>1, <4>2, <4>3 DEF TypeOK
    <3>4. CASE Goto(w, "pause") /\ UNCHANGED <<cycle, row, since, window>>
      <4>1. TablesOK'
        BY <2>9, <3>4 DEF DeferPause, TypeOK, TablesOK, provider, history, bounds
      <4>2. MemoryOK'
        BY <2>9, <3>4, GotoTyped DEF DeferPause, TypeOK, MemoryOK, PCs, PausePCs
      <4>3. HoldsRow'
        BY <2>9, <3>1, <3>4, GotoTyped DEF DeferPause, TypeOK, MemoryOK, HoldsRow, PCs, PausePCs, ResumePCs
      <4> QED
        BY <4>1, <4>2, <4>3 DEF TypeOK
    <3> QED
      BY <2>9, <3>3, <3>4 DEF DeferPause
  <2>10. ASSUME NEW w \in Workers, CallPause(w) PROVE TypeOK'
    <3>1. TablesOK'
      BY <2>10, ConstantsAssumption DEF CallPause, TypeOK, TablesOK, MemoryOK, HoldsRow, PausePCs, ResumePCs,
                Times, db, history, provider, bounds, Fault, Unclaimed, Keys, PauseKey, ResumeKey
    <3>2. MemoryOK'
      BY <2>10, ConstantsAssumption
         DEF CallPause, TypeOK, TablesOK, MemoryOK, HoldsRow, Cycles, Rows, NoRow, NoWindow, NoTime,
             Times, Windows, Goto, NextRow, Snapshot, PCs, PausePCs, ResumePCs, CycleStates
    <3>3. HoldsRow'
      BY <2>10 DEF CallPause, TypeOK, MemoryOK, HoldsRow, NoRow, Goto, NextRow, Snapshot, PCs, PausePCs, ResumePCs
    <3> QED
      BY <3>1, <3>2, <3>3 DEF TypeOK
  <2>11. ASSUME NEW w \in Workers, MarkPauseSuccess(w) PROVE TypeOK'
    <3> DEFINE r == row[w].reward
               c == [cycle[r] EXCEPT !.status = "paused", !.confirmed = TRUE, !.started = since[w],
                                     !.until = since[w] + Extension(row[w]), !.deferred = NoTime]
    <3>1. r \in Rewards /\ cycle[r] \in Cycles /\ row[w] \in Rows
      BY <2>11 DEF MarkPauseSuccess, TypeOK, TablesOK, MemoryOK, HoldsRow, PausePCs, ResumePCs
    <3>2. c \in Cycles
      <4>1. since[w] \in Times /\ since[w] + Extension(row[w]) \in Times /\ NoTime \in Times
        BY <3>1, DurationTyped DEF TypeOK, MemoryOK, Times, NoTime
      <4> QED
        BY <3>1, <4>1 DEF Cycles, CycleStates, ResumeStates
    <3>3. cycle' \in [Rewards -> Cycles]
      BY <2>11, <3>1, <3>2, PatchTyped DEF MarkPauseSuccess, TypeOK, TablesOK
    <3>4. TablesOK'
      BY <2>11, <3>1, <3>3 DEF MarkPauseSuccess, TypeOK, TablesOK, provider, history, Fault
    <3>5. /\ UNCHANGED batch
          /\ \/ NextRow(w, "pause_next")
             \/ \E label \in {"pause_error"} : Goto(w, label) /\ UNCHANGED <<row, since, window>>
      BY <2>11 DEF MarkPauseSuccess
    <3>6. MemoryOK'
      BY <3>5, NextRowTyped, GotoTyped DEF TypeOK, MemoryOK, PCs, ResumePCs, PausePCs
    <3>7. HoldsRow'
      BY <3>1, <3>5, NextRowTyped, GotoTyped DEF TypeOK, MemoryOK, HoldsRow, PCs, PausePCs, ResumePCs
    <3> QED
      BY <3>4, <3>6, <3>7 DEF TypeOK
  <2>12. ASSUME NEW w \in Workers, MarkPauseFailed(w) PROVE TypeOK'
    <3> DEFINE r == row[w].reward
               c == [cycle[r] EXCEPT !.status = "pause_failed"]
    <3>1. r \in Rewards /\ cycle[r] \in Cycles
      BY <2>12 DEF MarkPauseFailed, TypeOK, TablesOK, HoldsRow, PausePCs, ResumePCs
    <3>2. c \in Cycles
      <4>1. now \in Times /\ window[w].until \in Times
        BY DEF TypeOK, TablesOK, MemoryOK, Windows, Times
      <4> QED
        BY <3>1, <4>1 DEF Cycles, CycleStates, PauseStates, ResumeStates
    <3>3. cycle' \in [Rewards -> Cycles]
      BY <2>12, <3>1, <3>2, PatchTyped DEF MarkPauseFailed, TypeOK, TablesOK
    <3>4. TablesOK'
      BY <2>12, <3>3 DEF MarkPauseFailed, TypeOK, TablesOK, provider, history, bounds
    <3>5. NextRow(w, "pause_next") /\ UNCHANGED batch
      BY <2>12 DEF MarkPauseFailed
    <3>6. MemoryOK'
      BY <3>5, NextRowTyped DEF TypeOK, MemoryOK, PCs
    <3>7. HoldsRow'
      BY <3>5, NextRowTyped DEF TypeOK, HoldsRow, PCs, PausePCs, ResumePCs
    <3> QED
      BY <3>4, <3>6, <3>7 DEF TypeOK
  <2>13. ASSUME NEW w \in Workers, FetchResume(w) PROVE TypeOK'
    <3>1. TablesOK'
      BY <2>13, ConstantsAssumption DEF FetchResume, TypeOK, TablesOK, MemoryOK, HoldsRow, PausePCs, ResumePCs,
                Times, db, history, provider, bounds, Fault, Unclaimed, Keys, PauseKey, ResumeKey
    <3>2. MemoryOK'
      BY <2>13, ConstantsAssumption
         DEF FetchResume, TypeOK, TablesOK, MemoryOK, HoldsRow, Cycles, Rows, NoRow, NoWindow, NoTime,
             Times, Windows, Goto, NextRow, Snapshot, PCs, PausePCs, ResumePCs, CycleStates
    <3>3. HoldsRow'
      BY <2>13 DEF FetchResume, TypeOK, MemoryOK, HoldsRow, NoRow, Goto, NextRow, Snapshot, PCs, PausePCs, ResumePCs
    <3> QED
      BY <3>1, <3>2, <3>3 DEF TypeOK
  <2>14. ASSUME NEW w \in Workers, PromoteResume(w) PROVE TypeOK'
    <3> PICK x \in batch[w] :
          /\ batch' = [batch EXCEPT ![w] = @ \ {x}]
          /\ \/ /\ row' = [row EXCEPT ![w] = [x EXCEPT !.status = "resume_pending"]]
                /\ UNCHANGED since
                /\ \E label \in {"resume"} : Goto(w, label)
             \/ UNCHANGED <<pc, row, since>>
          /\ \/ UNCHANGED cycle
             \/ Patch(x.reward, x.status, [cycle[x.reward] EXCEPT !.status = "resume_pending"])
      BY <2>14 DEF PromoteResume
    <3> DEFINE taken == [x EXCEPT !.status = "resume_pending"]
    <3>1. /\ x \in Rows /\ x.reward \in Rewards /\ cycle[x.reward] \in Cycles
          /\ taken \in Rows /\ taken.reward = x.reward
      BY DEF TypeOK, TablesOK, MemoryOK, HoldsRow, Rows, CycleStates, PauseStates, ResumeStates
    <3>2. [cycle[x.reward] EXCEPT !.status = "resume_pending"] \in Cycles
      BY <3>1 DEF Cycles, CycleStates, PauseStates, ResumeStates, Times
    <3>3. cycle' \in [Rewards -> Cycles]
      BY <3>1, <3>2, PatchTyped DEF TypeOK, TablesOK
    <3>4. TablesOK'
      BY <2>14, <3>3 DEF PromoteResume, TypeOK, TablesOK, provider, history, bounds
    <3>5. UNCHANGED window
      BY <2>14 DEF PromoteResume
    <3>6. MemoryOK'
      <4>1. batch' \in [Workers -> SUBSET Rows]
        BY DEF TypeOK, MemoryOK
      <4>2. row' \in [Workers -> Rows]
        BY <3>1 DEF TypeOK, MemoryOK
      <4>3. pc' \in [Workers -> PCs]
        BY GotoTyped DEF TypeOK, MemoryOK, PCs, PausePCs, ResumePCs
      <4>4. since' \in [Workers -> Times]
        BY DEF TypeOK, TablesOK, MemoryOK, Times
      <4> QED
        BY <3>5, <4>1, <4>2, <4>3, <4>4 DEF TypeOK, MemoryOK
    <3>7. HoldsRow'
      <4> SUFFICES ASSUME NEW v \in Workers
                   PROVE  /\ \A y \in batch'[v] : y.reward \in Rewards
                          /\ pc'[v] \in PausePCs \cup ResumePCs => row'[v].reward \in Rewards
                          /\ pc'[v] \in {"extend", "consume"} => window'[v].reward \in Rewards
        BY DEF HoldsRow
      <4>1. \A y \in batch'[v] : y.reward \in Rewards
        BY DEF TypeOK, MemoryOK, HoldsRow
      <4>2. pc'[v] \in PausePCs \cup ResumePCs => row'[v].reward \in Rewards
        BY <3>1, GotoTyped DEF TypeOK, MemoryOK, HoldsRow, PCs, PausePCs, ResumePCs
      <4>3. pc'[v] \in {"extend", "consume"} => window'[v].reward \in Rewards
        BY <3>5, GotoTyped DEF TypeOK, MemoryOK, HoldsRow, PCs, PausePCs, ResumePCs
      <4> QED
        BY <4>1, <4>2, <4>3
    <3> QED
      BY <3>4, <3>6, <3>7 DEF TypeOK
  <2>15. ASSUME NEW w \in Workers, CallResume(w) PROVE TypeOK'
    <3>1. TablesOK'
      BY <2>15, ConstantsAssumption DEF CallResume, TypeOK, TablesOK, MemoryOK, HoldsRow, PausePCs, ResumePCs,
                Times, db, history, provider, bounds, Fault, Unclaimed, Keys, PauseKey, ResumeKey
    <3>2. MemoryOK'
      BY <2>15, ConstantsAssumption
         DEF CallResume, TypeOK, TablesOK, MemoryOK, HoldsRow, Cycles, Rows, NoRow, NoWindow, NoTime,
             Times, Windows, Goto, NextRow, Snapshot, PCs, PausePCs, ResumePCs, CycleStates
    <3>3. HoldsRow'
      BY <2>15 DEF CallResume, TypeOK, MemoryOK, HoldsRow, NoRow, Goto, NextRow, Snapshot, PCs, PausePCs, ResumePCs
    <3> QED
      BY <3>1, <3>2, <3>3 DEF TypeOK
  <2>16. ASSUME NEW w \in Workers, MarkResumeSuccess(w) PROVE TypeOK'
    <3> DEFINE r == row[w].reward
               c == [cycle[r] EXCEPT !.status = "resumed", !.confirmed = FALSE, !.until = NoTime]
    <3>1. r \in Rewards /\ cycle[r] \in Cycles /\ row[w] \in Rows
      BY <2>16 DEF MarkResumeSuccess, TypeOK, TablesOK, MemoryOK, HoldsRow, PausePCs, ResumePCs
    <3>2. c \in Cycles
      <4>1. since[w] \in Times /\ since[w] + Extension(row[w]) \in Times /\ NoTime \in Times
        BY <3>1, DurationTyped DEF TypeOK, MemoryOK, Times, NoTime
      <4> QED
        BY <3>1, <4>1 DEF Cycles, CycleStates, ResumeStates
    <3>3. cycle' \in [Rewards -> Cycles]
      BY <2>16, <3>1, <3>2, PatchTyped DEF MarkResumeSuccess, TypeOK, TablesOK
    <3>4. TablesOK'
      BY <2>16, <3>1, <3>3 DEF MarkResumeSuccess, TypeOK, TablesOK, provider, history, Fault
    <3>5. /\ UNCHANGED batch
          /\ \/ NextRow(w, "resume_next")
             \/ \E label \in {"apply", "resume_error"} : Goto(w, label) /\ UNCHANGED <<row, since, window>>
      BY <2>16 DEF MarkResumeSuccess
    <3>6. MemoryOK'
      BY <3>5, NextRowTyped, GotoTyped DEF TypeOK, MemoryOK, PCs, ResumePCs, PausePCs
    <3>7. HoldsRow'
      BY <3>1, <3>5, NextRowTyped, GotoTyped DEF TypeOK, MemoryOK, HoldsRow, PCs, PausePCs, ResumePCs
    <3> QED
      BY <3>4, <3>6, <3>7 DEF TypeOK
  <2>17. ASSUME NEW w \in Workers, MarkRewardApplied(w) PROVE TypeOK'
    <3> DEFINE r == row[w].reward
    <3>1. r \in Rewards /\ cycle[r] \in Cycles /\ row[w] \in Rows
      BY <2>17 DEF MarkRewardApplied, TypeOK, TablesOK, MemoryOK, HoldsRow, PausePCs, ResumePCs
    <3>4. TablesOK'
      BY <2>17, <3>1 DEF MarkRewardApplied, TypeOK, TablesOK, provider, history, Fault, Unclaimed
    <3>5. /\ UNCHANGED batch
          /\ \/ NextRow(w, "resume_next")
             \/ \E label \in {"resume_error"} : Goto(w, label) /\ UNCHANGED <<row, since, window>>
      BY <2>17 DEF MarkRewardApplied
    <3>6. MemoryOK'
      BY <3>5, NextRowTyped, GotoTyped DEF TypeOK, MemoryOK, PCs, ResumePCs, PausePCs
    <3>7. HoldsRow'
      BY <3>1, <3>5, NextRowTyped, GotoTyped DEF TypeOK, MemoryOK, HoldsRow, PCs, PausePCs, ResumePCs
    <3> QED
      BY <3>4, <3>6, <3>7 DEF TypeOK
  <2>18. ASSUME NEW w \in Workers, MarkResumeFailed(w) PROVE TypeOK'
    <3> DEFINE r == row[w].reward
               c == [cycle[r] EXCEPT !.status = "resume_failed"]
    <3>1. r \in Rewards /\ cycle[r] \in Cycles
      BY <2>18 DEF MarkResumeFailed, TypeOK, TablesOK, HoldsRow, PausePCs, ResumePCs
    <3>2. c \in Cycles
      <4>1. now \in Times /\ window[w].until \in Times
        BY DEF TypeOK, TablesOK, MemoryOK, Windows, Times
      <4> QED
        BY <3>1, <4>1 DEF Cycles, CycleStates, PauseStates, ResumeStates
    <3>3. cycle' \in [Rewards -> Cycles]
      BY <2>18, <3>1, <3>2, PatchTyped DEF MarkResumeFailed, TypeOK, TablesOK
    <3>4. TablesOK'
      BY <2>18, <3>3 DEF MarkResumeFailed, TypeOK, TablesOK, provider, history, bounds
    <3>5. NextRow(w, "resume_next") /\ UNCHANGED batch
      BY <2>18 DEF MarkResumeFailed
    <3>6. MemoryOK'
      BY <3>5, NextRowTyped DEF TypeOK, MemoryOK, PCs
    <3>7. HoldsRow'
      BY <3>5, NextRowTyped DEF TypeOK, HoldsRow, PCs, PausePCs, ResumePCs
    <3> QED
      BY <3>4, <3>6, <3>7 DEF TypeOK
  <2>19. ASSUME NEW w \in Workers, EndRun(w) PROVE TypeOK'
    <3>1. TablesOK'
      BY <2>19, ConstantsAssumption DEF EndRun, TypeOK, TablesOK, MemoryOK, HoldsRow, PausePCs, ResumePCs,
                Times, db, history, provider, bounds, Fault, Unclaimed, Keys, PauseKey, ResumeKey
    <3>2. MemoryOK'
      BY <2>19, ConstantsAssumption
         DEF EndRun, TypeOK, TablesOK, MemoryOK, HoldsRow, Cycles, Rows, NoRow, NoWindow, NoTime,
             Times, Windows, Goto, NextRow, Snapshot, PCs, PausePCs, ResumePCs, CycleStates
    <3>3. HoldsRow'
      BY <2>19 DEF EndRun, TypeOK, MemoryOK, HoldsRow, NoRow, Goto, NextRow, Snapshot, PCs, PausePCs, ResumePCs
    <3> QED
      BY <3>1, <3>2, <3>3 DEF TypeOK
  <2>20. ASSUME NEW w \in Workers, Crash(w) PROVE TypeOK'
    <3>1. TablesOK'
      BY <2>20, ConstantsAssumption DEF Crash, TypeOK, TablesOK, MemoryOK, HoldsRow, PausePCs, ResumePCs,
                Times, db, history, provider, bounds, Fault, Unclaimed, Keys, PauseKey, ResumeKey
    <3>2. MemoryOK'
      BY <2>20, ConstantsAssumption
         DEF Crash, TypeOK, TablesOK, MemoryOK, HoldsRow, Cycles, Rows, NoRow, NoWindow, NoTime,
             Times, Windows, Goto, NextRow, Snapshot, PCs, PausePCs, ResumePCs, CycleStates
    <3>3. HoldsRow'
      BY <2>20 DEF Crash, TypeOK, MemoryOK, HoldsRow, NoRow, Goto, NextRow, Snapshot, PCs, PausePCs, ResumePCs
    <3> QED
      BY <3>1, <3>2, <3>3 DEF TypeOK
  <2>21. ASSUME NEW x \in Rewards, Claim(x) PROVE TypeOK'
    BY <2>21, ConstantsAssumption
       DEF Claim, TypeOK, TablesOK, MemoryOK, HoldsRow, local, provider, history, bounds, Times
  <2>22. ASSUME NEW x \in Subscriptions, Charge(x) PROVE TypeOK'
    BY <2>22, ConstantsAssumption
       DEF Charge, TypeOK, TablesOK, MemoryOK, HoldsRow, local, provider, history, bounds, Times
  <2>23. CASE Tick
    BY <2>23 DEF Tick, TypeOK, TablesOK, MemoryOK, HoldsRow, db, local, provider, history, bounds
  <2>24. CASE UNCHANGED vars
    BY <2>24 DEF vars, TypeOK, TablesOK, MemoryOK, HoldsRow, db, local, provider, history, bounds
  <2> QED
    BY <2>1, <2>2, <2>3, <2>4, <2>5, <2>6, <2>7, <2>8, <2>9, <2>10, <2>11, <2>12,
       <2>13, <2>14, <2>15, <2>16, <2>17, <2>18, <2>19, <2>20, <2>21, <2>22, <2>23, <2>24
       DEF Next, RunStep, PauseStep, ResumeStep, Environment
<1> QED
  BY <1>1, <1>2, PTL DEF Spec

\* How one step changes the status of a cycle: a seeded row appears, and only a row that is
\* under way moves on.
Moves(r) == \/ cycle'[r].status = cycle[r].status
            \/ cycle[r].status = "absent" /\ cycle'[r].status = "reward_pending"
            \/ cycle[r].status \in PauseStates \cup ResumeStates /\ cycle'[r].status # "absent"

\* A conditional update changes a row only from the expected status.
LEMMA PatchMoves ==
  ASSUME cycle \in [Rewards -> Cycles], NEW q \in Rewards,
         NEW e \in PauseStates \cup ResumeStates, NEW c \in Cycles, c.status # "absent",
         Patch(q, e, c)
  PROVE  \A r \in Rewards : Moves(r)
BY DEF Patch, Moves

\* A step changes the cycle of a reward in one of a few ways.
LEMMA StepMoves ==
  ASSUME TypeOK, BatchKind, NEW w \in Workers, RunStep(w)
  PROVE  \A r \in Rewards : Moves(r)
<1> USE DEF PauseStates, ResumeStates
<1>0. cycle \in [Rewards -> Cycles]
  BY DEF TypeOK, TablesOK
<1>1. CASE SeedInsert(w)
  <2> SUFFICES ASSUME NEW r \in Rewards PROVE Moves(r)
    OBVIOUS
  <2>1. CASE cycle[r].status = "absent" /\ \E x \in batch[w] : x.reward = r
    <3> DEFINE x == CHOOSE x \in batch[w] : x.reward = r
    <3>1. cycle'[r] = [cycle[r] EXCEPT !.status = "reward_pending", !.last = x.last, !.next = x.next]
      BY <1>1, <2>1 DEF SeedInsert
    <3> QED
      BY <1>0, <2>1, <3>1 DEF Moves, Cycles
  <2>2. CASE ~(cycle[r].status = "absent" /\ \E x \in batch[w] : x.reward = r)
    BY <1>1, <2>2 DEF SeedInsert, Moves
  <2> QED
    BY <2>1, <2>2
<1>2. CASE SeedRead(w)
  BY <1>2 DEF SeedRead, Moves, db
<1>3. CASE FetchPause(w)
  BY <1>3 DEF FetchPause, Moves, db
<1>4. CASE PromotePause(w)
  <2> PICK x \in batch[w] :
        \/ UNCHANGED cycle
        \/ Patch(x.reward, x.status, [cycle[x.reward] EXCEPT !.status = "pause_pending"])
    BY <1>4 DEF PromotePause
  <2>1. x.reward \in Rewards /\ x.status \in PauseStates \cup ResumeStates
    BY <1>4 DEF PromotePause, TypeOK, HoldsRow, BatchKind
  <2>2. CASE UNCHANGED cycle
    BY <2>2 DEF Moves
  <2>3. CASE Patch(x.reward, x.status, [cycle[x.reward] EXCEPT !.status = "pause_pending"])
    BY <1>0, <2>1, <2>3 DEF Moves, Patch, Cycles
  <2> QED
    BY <2>2, <2>3
<1>5. CASE RefreshDates(w)
  <2>1. row[w].reward \in Rewards
    BY <1>5 DEF RefreshDates, TypeOK, HoldsRow, PausePCs, ResumePCs
  <2> QED
    BY <1>0, <1>5, <2>1 DEF RefreshDates, Moves, Patch, Cycles
<1>6. CASE FindOpenWindow(w)
  BY <1>6 DEF FindOpenWindow, Moves, db
<1>7. CASE ExtendWindow(w)
  BY <1>0, <1>7 DEF ExtendWindow, Moves, Cycles
<1>8. CASE ConsumeReward(w)
  <2>1. row[w].reward \in Rewards
    BY <1>8 DEF ConsumeReward, TypeOK, HoldsRow, PausePCs, ResumePCs
  <2> QED
    BY <1>0, <1>8, <2>1 DEF ConsumeReward, Moves, Patch, Cycles
<1>9. CASE DeferPause(w)
  <2>1. row[w].reward \in Rewards
    BY <1>9 DEF DeferPause, TypeOK, HoldsRow, PausePCs, ResumePCs
  <2> QED
    BY <1>0, <1>9, <2>1 DEF DeferPause, Moves, Patch, Cycles
<1>10. CASE CallPause(w)
  BY <1>10 DEF CallPause, Moves, db
<1>11. CASE MarkPauseSuccess(w)
  <2>1. row[w].reward \in Rewards
    BY <1>11 DEF MarkPauseSuccess, TypeOK, HoldsRow, PausePCs, ResumePCs
  <2> QED
    BY <1>0, <1>11, <2>1 DEF MarkPauseSuccess, Moves, Patch, Cycles
<1>12. CASE MarkPauseFailed(w)
  <2>1. row[w].reward \in Rewards
    BY <1>12 DEF MarkPauseFailed, TypeOK, HoldsRow, PausePCs, ResumePCs
  <2> QED
    BY <1>0, <1>12, <2>1 DEF MarkPauseFailed, Moves, Patch, Cycles
<1>13. CASE FetchResume(w)
  BY <1>13 DEF FetchResume, Moves, db
<1>14. CASE PromoteResume(w)
  <2> PICK x \in batch[w] :
        \/ UNCHANGED cycle
        \/ Patch(x.reward, x.status, [cycle[x.reward] EXCEPT !.status = "resume_pending"])
    BY <1>14 DEF PromoteResume
  <2>1. x.reward \in Rewards /\ x.status \in PauseStates \cup ResumeStates
    BY <1>14 DEF PromoteResume, TypeOK, HoldsRow, BatchKind
  <2>2. CASE UNCHANGED cycle
    BY <2>2 DEF Moves
  <2>3. CASE Patch(x.reward, x.status, [cycle[x.reward] EXCEPT !.status = "resume_pending"])
    BY <1>0, <2>1, <2>3 DEF Moves, Patch, Cycles
  <2> QED
    BY <2>2, <2>3
<1>15. CASE CallResume(w)
  BY <1>15 DEF CallResume, Moves, db
<1>16. CASE MarkResumeSuccess(w)
  <2>1. row[w].reward \in Rewards
    BY <1>16 DEF MarkResumeSuccess, TypeOK, HoldsRow, PausePCs, ResumePCs
  <2> QED
    BY <1>0, <1>16, <2>1 DEF MarkResumeSuccess, Moves, Patch, Cycles
<1>17. CASE MarkRewardApplied(w)
  BY <1>17 DEF MarkRewardApplied, Moves, db
<1>18. CASE MarkResumeFailed(w)
  <2>1. row[w].reward \in Rewards
    BY <1>18 DEF MarkResumeFailed, TypeOK, HoldsRow, PausePCs, ResumePCs
  <2> QED
    BY <1>0, <1>18, <2>1 DEF MarkResumeFailed, Moves, Patch, Cycles
<1>19. CASE EndRun(w)
  BY <1>19 DEF EndRun, Moves, db
<1> QED
  BY <1>1, <1>2, <1>3, <1>4, <1>5, <1>6, <1>7, <1>8, <1>9, <1>10,
     <1>11, <1>12, <1>13, <1>14, <1>15, <1>16, <1>17, <1>18, <1>19
     DEF RunStep, PauseStep, ResumeStep

\* What a step of worker w may do to the rewards: only applying one changes it.
LEMMA StepRewards ==
  ASSUME Ownership, NEW w \in Workers, RunStep(w)
  PROVE  \A r \in Rewards : reward'[r] = reward[r] \/ cycle[r].status = "resumed"
<1>1. CASE MarkRewardApplied(w)
  BY <1>1 DEF MarkRewardApplied, Ownership, TypeOK, TablesOK, HoldsRow, AppliesOnlyResumed, ResumePCs
<1>2. CASE ~MarkRewardApplied(w)
  <2>1. UNCHANGED reward
    BY <1>2 DEF RunStep, PauseStep, ResumeStep, db, SeedRead, SeedInsert, FetchPause, PromotePause,
                RefreshDates, FindOpenWindow, ExtendWindow, ConsumeReward, DeferPause, CallPause,
                MarkPauseSuccess, MarkPauseFailed, FetchResume, PromoteResume, CallResume,
                MarkResumeSuccess, MarkResumeFailed, EndRun
  <2> QED
    BY <2>1
<1> QED
  BY <1>1, <1>2

\* A step of worker w keeps the kind of every fetched batch.
LEMMA StepBatches ==
  ASSUME Ownership, NEW w \in Workers, RunStep(w)
  PROVE  BatchKind'
<1> SUFFICES ASSUME NEW v \in Workers, NEW x \in batch'[v]
             PROVE  /\ pc'[v] \in PausePCs \cup {"pause_next"} => x.status \in PauseStates
                    /\ pc'[v] \in ResumePCs \cup {"resume_next"} => x.status \in ResumeStates
  BY DEF BatchKind
<1> USE DEF Ownership, TypeOK, MemoryOK, BatchKind, Goto, NextRow, PausePCs, ResumePCs
<1>1. CASE SeedRead(w)
  BY <1>1 DEF SeedRead
<1>2. CASE SeedInsert(w)
  BY <1>2 DEF SeedInsert
<1>3. CASE FetchPause(w)
  BY <1>3 DEF FetchPause, Snapshot
<1>4. CASE PromotePause(w)
  BY <1>4 DEF PromotePause
<1>5. CASE RefreshDates(w)
  BY <1>5 DEF RefreshDates
<1>6. CASE FindOpenWindow(w)
  BY <1>6 DEF FindOpenWindow
<1>7. CASE ExtendWindow(w)
  BY <1>7 DEF ExtendWindow
<1>8. CASE ConsumeReward(w)
  BY <1>8 DEF ConsumeReward
<1>9. CASE DeferPause(w)
  BY <1>9 DEF DeferPause
<1>10. CASE CallPause(w)
  BY <1>10 DEF CallPause
<1>11. CASE MarkPauseSuccess(w)
  BY <1>11 DEF MarkPauseSuccess
<1>12. CASE MarkPauseFailed(w)
  BY <1>12 DEF MarkPauseFailed
<1>13. CASE FetchResume(w)
  BY <1>13 DEF FetchResume, Snapshot, Resumable
<1>14. CASE PromoteResume(w)
  BY <1>14 DEF PromoteResume
<1>15. CASE CallResume(w)
  BY <1>15 DEF CallResume
<1>16. CASE MarkResumeSuccess(w)
  BY <1>16 DEF MarkResumeSuccess
<1>17. CASE MarkRewardApplied(w)
  BY <1>17 DEF MarkRewardApplied
<1>18. CASE MarkResumeFailed(w)
  BY <1>18 DEF MarkResumeFailed
<1>19. CASE EndRun(w)
  BY <1>19 DEF EndRun
<1> QED
  BY <1>1, <1>2, <1>3, <1>4, <1>5, <1>6, <1>7, <1>8, <1>9, <1>10,
     <1>11, <1>12, <1>13, <1>14, <1>15, <1>16, <1>17, <1>18, <1>19
     DEF RunStep, PauseStep, ResumeStep

\* A worker reaches the last call of a resume only with the cycle it has resumed.
LEMMA StepApplies ==
  ASSUME Ownership, NEW w \in Workers, RunStep(w)
  PROVE  AppliesOnlyResumed'
<1> SUFFICES ASSUME NEW v \in Workers, pc'[v] = "apply"
             PROVE  cycle'[row'[v].reward].status = "resumed"
  BY DEF AppliesOnlyResumed
<1>1. CASE MarkResumeSuccess(w) /\ v = w
  <2> DEFINE r == row[w].reward
  <2>1. r \in Rewards /\ cycle[r] \in Cycles /\ pc[w] \in PCs
    BY <1>1 DEF MarkResumeSuccess, Ownership, TypeOK, TablesOK, MemoryOK, HoldsRow, ResumePCs
  <2>2. /\ cycle[r].status = "resume_pending"
        /\ Patch(r, "resume_pending",
                 [cycle[r] EXCEPT !.status = "resumed", !.confirmed = FALSE, !.until = NoTime])
        /\ UNCHANGED row
    BY <1>1 DEF MarkResumeSuccess, Ownership, TypeOK, MemoryOK, Goto, NextRow
  <2> QED
    BY <1>1, <2>1, <2>2 DEF Patch, Cycles, Ownership, TypeOK, TablesOK
<1>2. CASE ~(MarkResumeSuccess(w) /\ v = w)
  <2>1. pc[v] = "apply" /\ row'[v] = row[v]
    <3> USE <1>2 DEF Ownership, TypeOK, MemoryOK, Goto, NextRow
    <3>1. CASE SeedRead(w)
      BY <3>1 DEF SeedRead
    <3>2. CASE SeedInsert(w)
      BY <3>2 DEF SeedInsert
    <3>3. CASE FetchPause(w)
      BY <3>3 DEF FetchPause
    <3>4. CASE PromotePause(w)
      BY <3>4 DEF PromotePause
    <3>5. CASE RefreshDates(w)
      BY <3>5 DEF RefreshDates
    <3>6. CASE FindOpenWindow(w)
      BY <3>6 DEF FindOpenWindow
    <3>7. CASE ExtendWindow(w)
      BY <3>7 DEF ExtendWindow
    <3>8. CASE ConsumeReward(w)
      BY <3>8 DEF ConsumeReward
    <3>9. CASE DeferPause(w)
      BY <3>9 DEF DeferPause
    <3>10. CASE CallPause(w)
      BY <3>10 DEF CallPause
    <3>11. CASE MarkPauseSuccess(w)
      BY <3>11 DEF MarkPauseSuccess
    <3>12. CASE MarkPauseFailed(w)
      BY <3>12 DEF MarkPauseFailed
    <3>13. CASE FetchResume(w)
      BY <3>13 DEF FetchResume
    <3>14. CASE PromoteResume(w)
      BY <3>14 DEF PromoteResume
    <3>15. CASE CallResume(w)
      BY <3>15 DEF CallResume
    <3>16. CASE MarkResumeSuccess(w)
      BY <3>16 DEF MarkResumeSuccess
    <3>17. CASE MarkRewardApplied(w)
      BY <3>17 DEF MarkRewardApplied
    <3>18. CASE MarkResumeFailed(w)
      BY <3>18 DEF MarkResumeFailed
    <3>19. CASE EndRun(w)
      BY <3>19 DEF EndRun
    <3> QED
      BY <3>1, <3>2, <3>3, <3>4, <3>5, <3>6, <3>7, <3>8, <3>9, <3>10,
         <3>11, <3>12, <3>13, <3>14, <3>15, <3>16, <3>17, <3>18, <3>19
         DEF RunStep, PauseStep, ResumeStep
  <2>2. row[v].reward \in Rewards /\ cycle[row[v].reward].status = "resumed"
    BY <2>1 DEF Ownership, TypeOK, HoldsRow, AppliesOnlyResumed, ResumePCs
  <2>3. Moves(row[v].reward)
    BY <2>2, StepMoves DEF Ownership
  <2> QED
    BY <2>1, <2>2, <2>3 DEF Moves, PauseStates, ResumeStates
<1> QED
  BY <1>1, <1>2

\* What a worker read as claimed stays claimed until its row is inserted.
LEMMA StepSeeds ==
  ASSUME Ownership, NEW w \in Workers, RunStep(w)
  PROVE  SeedsAreClaimed'
<1> SUFFICES ASSUME NEW v \in Workers, pc'[v] = "insert", NEW x \in batch'[v],
                    cycle'[x.reward].status = "absent"
             PROVE  reward'[x.reward] = "claimed"
  BY DEF SeedsAreClaimed
<1>1. CASE SeedRead(w) /\ v = w
  BY <1>1 DEF SeedRead, Ownership, TypeOK, MemoryOK, Goto, db
<1>2. CASE ~(SeedRead(w) /\ v = w)
  <2>1. pc[v] = "insert" /\ batch'[v] = batch[v]
    <3> USE <1>2 DEF Ownership, TypeOK, MemoryOK, Goto, NextRow
    <3>1. CASE SeedRead(w)
      BY <3>1 DEF SeedRead
    <3>2. CASE SeedInsert(w)
      BY <3>2 DEF SeedInsert
    <3>3. CASE FetchPause(w)
      BY <3>3 DEF FetchPause
    <3>4. CASE PromotePause(w)
      BY <3>4 DEF PromotePause
    <3>5. CASE RefreshDates(w)
      BY <3>5 DEF RefreshDates
    <3>6. CASE FindOpenWindow(w)
      BY <3>6 DEF FindOpenWindow
    <3>7. CASE ExtendWindow(w)
      BY <3>7 DEF ExtendWindow
    <3>8. CASE ConsumeReward(w)
      BY <3>8 DEF ConsumeReward
    <3>9. CASE DeferPause(w)
      BY <3>9 DEF DeferPause
    <3>10. CASE CallPause(w)
      BY <3>10 DEF CallPause
    <3>11. CASE MarkPauseSuccess(w)
      BY <3>11 DEF MarkPauseSuccess
    <3>12. CASE MarkPauseFailed(w)
      BY <3>12 DEF MarkPauseFailed
    <3>13. CASE FetchResume(w)
      BY <3>13 DEF FetchResume
    <3>14. CASE PromoteResume(w)
      BY <3>14 DEF PromoteResume
    <3>15. CASE CallResume(w)
      BY <3>15 DEF CallResume
    <3>16. CASE MarkResumeSuccess(w)
      BY <3>16 DEF MarkResumeSuccess
    <3>17. CASE MarkRewardApplied(w)
      BY <3>17 DEF MarkRewardApplied
    <3>18. CASE MarkResumeFailed(w)
      BY <3>18 DEF MarkResumeFailed
    <3>19. CASE EndRun(w)
      BY <3>19 DEF EndRun
    <3> QED
      BY <3>1, <3>2, <3>3, <3>4, <3>5, <3>6, <3>7, <3>8, <3>9, <3>10,
         <3>11, <3>12, <3>13, <3>14, <3>15, <3>16, <3>17, <3>18, <3>19
         DEF RunStep, PauseStep, ResumeStep
  <2>2. x.reward \in Rewards
    BY <2>1 DEF Ownership, TypeOK, HoldsRow
  <2>3. cycle[x.reward].status = "absent"
    BY <2>2, StepMoves DEF Ownership, Moves, PauseStates, ResumeStates
  <2> QED
    BY <2>1, <2>2, <2>3, StepRewards DEF Ownership, SeedsAreClaimed
<1> QED
  BY <1>1, <1>2

\* No step of a run takes the claim from a cycle under way.
LEMMA StepOwns ==
  ASSUME Ownership, NEW w \in Workers, RunStep(w)
  PROVE  CycleOwnsReward'
<1> SUFFICES ASSUME NEW r \in Rewards, cycle'[r].status \notin {"absent", "resumed"}
             PROVE  reward'[r] = "claimed"
  BY DEF CycleOwnsReward
<1>1. Moves(r) /\ (reward'[r] = reward[r] \/ cycle[r].status = "resumed")
  BY StepMoves, StepRewards DEF Ownership
<1>2. CASE cycle[r].status \notin {"absent", "resumed"}
  BY <1>1, <1>2 DEF Ownership, CycleOwnsReward
<1>3. CASE cycle[r].status = "resumed"
  BY <1>1, <1>3 DEF Moves, PauseStates, ResumeStates
<1>4. CASE cycle[r].status = "absent"
  <2>1. cycle'[r].status = "reward_pending"
    BY <1>1, <1>4 DEF Moves, PauseStates, ResumeStates
  <2>2. CASE SeedInsert(w)
    BY <1>4, <2>1, <2>2 DEF SeedInsert, Ownership, SeedsAreClaimed
  <2>3. CASE ~SeedInsert(w)
    <3> USE <1>4, <2>1, <2>3 DEF Ownership, TypeOK, TablesOK, HoldsRow, BatchKind, Patch, Cycles, PauseStates, ResumeStates
    <3>1. CASE SeedRead(w)
      BY <3>1 DEF SeedRead, db
    <3>3. CASE FetchPause(w)
      BY <3>3 DEF FetchPause, db
    <3>4. CASE PromotePause(w)
      <4> PICK x \in batch[w] : cycle' = cycle \/ \E c : Patch(x.reward, x.status, c)
        BY <3>4 DEF PromotePause
      <4>1. x.reward \in Rewards /\ x.status # "absent"
        BY <3>4 DEF PromotePause
      <4> QED
        BY <4>1
    <3>5. CASE RefreshDates(w)
      BY <3>5 DEF RefreshDates, PausePCs, ResumePCs
    <3>6. CASE FindOpenWindow(w)
      BY <3>6 DEF FindOpenWindow, db
    <3>7. CASE ExtendWindow(w)
      BY <3>7 DEF ExtendWindow, PausePCs, ResumePCs
    <3>8. CASE ConsumeReward(w)
      BY <3>8 DEF ConsumeReward, PausePCs, ResumePCs
    <3>9. CASE DeferPause(w)
      BY <3>9 DEF DeferPause, PausePCs, ResumePCs
    <3>10. CASE CallPause(w)
      BY <3>10 DEF CallPause, db
    <3>11. CASE MarkPauseSuccess(w)
      BY <3>11 DEF MarkPauseSuccess, PausePCs, ResumePCs
    <3>12. CASE MarkPauseFailed(w)
      BY <3>12 DEF MarkPauseFailed, PausePCs, ResumePCs
    <3>13. CASE FetchResume(w)
      BY <3>13 DEF FetchResume, db
    <3>14. CASE PromoteResume(w)
      <4> PICK x \in batch[w] : cycle' = cycle \/ \E c : Patch(x.reward, x.status, c)
        BY <3>14 DEF PromoteResume
      <4>1. x.reward \in Rewards /\ x.status # "absent"
        BY <3>14 DEF PromoteResume
      <4> QED
        BY <4>1
    <3>15. CASE CallResume(w)
      BY <3>15 DEF CallResume, db
    <3>16. CASE MarkResumeSuccess(w)
      BY <3>16 DEF MarkResumeSuccess, PausePCs, ResumePCs
    <3>17. CASE MarkRewardApplied(w)
      BY <3>17 DEF MarkRewardApplied, db
    <3>18. CASE MarkResumeFailed(w)
      BY <3>18 DEF MarkResumeFailed, PausePCs, ResumePCs
    <3>19. CASE EndRun(w)
      BY <3>19 DEF EndRun, db
    <3> QED
      BY <3>1, <3>3, <3>4, <3>5, <3>6, <3>7, <3>8, <3>9, <3>10,
         <3>11, <3>12, <3>13, <3>14, <3>15, <3>16, <3>17, <3>18, <3>19
         DEF RunStep, PauseStep, ResumeStep
  <2> QED
    BY <2>2, <2>3
<1> QED
  BY <1>2, <1>3, <1>4

\* The inductive invariant behind the two results below.
THEOREM OwnershipHolds == Spec => []Ownership
<1>1. Init /\ TypeOK => Ownership
  BY DEF Init, Ownership, CycleOwnsReward, SeedsAreClaimed, AppliesOnlyResumed, BatchKind,
         PausePCs, ResumePCs
<1>2. Ownership /\ [Next]_vars /\ TypeOK' => Ownership'
  <2> SUFFICES ASSUME Ownership, [Next]_vars, TypeOK'
               PROVE  CycleOwnsReward' /\ SeedsAreClaimed' /\ AppliesOnlyResumed' /\ BatchKind'
    BY DEF Ownership
  <2> USE DEF CycleOwnsReward, SeedsAreClaimed, AppliesOnlyResumed, BatchKind
  <2>1. ASSUME NEW w \in Workers, RunStep(w)
        PROVE  CycleOwnsReward' /\ SeedsAreClaimed' /\ AppliesOnlyResumed' /\ BatchKind'
    BY <2>1, StepOwns, StepSeeds, StepApplies, StepBatches
  <2>2. ASSUME NEW w \in Workers, Crash(w)
        PROVE  CycleOwnsReward' /\ SeedsAreClaimed' /\ AppliesOnlyResumed' /\ BatchKind'
    BY <2>2 DEF Crash, Ownership, TypeOK, MemoryOK, NextRow, Goto, db, PausePCs, ResumePCs
  <2>3. ASSUME NEW r \in Rewards, Claim(r)
        PROVE  CycleOwnsReward' /\ SeedsAreClaimed' /\ AppliesOnlyResumed' /\ BatchKind'
    BY <2>3 DEF Claim, Ownership, TypeOK, TablesOK, HoldsRow, local
  <2>4. ASSUME NEW s \in Subscriptions, Charge(s)
        PROVE  CycleOwnsReward' /\ SeedsAreClaimed' /\ AppliesOnlyResumed' /\ BatchKind'
    BY <2>4 DEF Charge, Ownership, local
  <2>5. CASE Tick
    BY <2>5 DEF Tick, Ownership, local, db
  <2>6. CASE UNCHANGED vars
    BY <2>6 DEF vars, Ownership, local, db
  <2> QED
    BY <2>1, <2>2, <2>3, <2>4, <2>5, <2>6 DEF Next, Environment
<1> QED
  BY <1>1, <1>2, Typing, PTL DEF Spec

\* While the free month of a reward is owed or running the reward stays claimed, so that the
\* referrals route never offers it for activation: for any number of workers whose runs
\* interleave, are killed, and see calls fail.
THEOREM RewardIsOwned == Spec => []CycleOwnsReward
<1>1. Ownership => CycleOwnsReward
  BY DEF Ownership
<1> QED
  BY <1>1, OwnershipHolds, PTL

\* A finished cycle is never reopened, by however many workers that still hold its row in an
\* older state.
THEOREM ResumedCycleIsFinal == Spec => ResumedIsFinal
<1>1. Ownership /\ [Next]_vars
        => [\A r \in Rewards : cycle[r].status = "resumed" => cycle'[r].status = "resumed"]_vars
  <2> SUFFICES ASSUME Ownership, Next
               PROVE  \A r \in Rewards : cycle[r].status = "resumed" => cycle'[r].status = "resumed"
    OBVIOUS
  <2>1. ASSUME NEW w \in Workers, RunStep(w)
        PROVE  \A r \in Rewards : cycle[r].status = "resumed" => cycle'[r].status = "resumed"
    BY <2>1, StepMoves DEF Ownership, Moves, PauseStates, ResumeStates
  <2>2. CASE (\E w \in Workers : Crash(w)) \/ Environment
    BY <2>2 DEF Crash, Environment, Claim, Charge, Tick, db
  <2> QED
    BY <2>1, <2>2 DEF Next
<1> QED
  BY <1>1, OwnershipHolds, PTL DEF Spec, ResumedIsFinal

----------------------------------------------------------------------------
(***************************************************************************)
(* One worker.  Runs do not overlap, so that a run finds the rows as it    *)
(* fetched them; it may still be killed at any step, and calls may fail.   *)
(***************************************************************************)
OneWorker == \A v, w \in Workers : v = w

\* The dates of a subscription, and the copies of them that rows carry, are a period apart; a
\* worker past the refresh of its row knows them.
Dated(x) == \/ x.last = NoTime /\ x.next = NoTime
            \/ x.last \in Nat /\ x.next = x.last + Period
TimedPCs == {"find", "extend", "consume", "defer", "pause", "pause_ok"}
DatesKept ==
  /\ \A s \in Subscriptions : Dated(billing[s])
  /\ \A r \in Rewards : Dated(cycle[r])
  /\ \A w \in Workers : Dated(row[w]) /\ \A x \in batch[w] : Dated(x)
  /\ \A w \in Workers : pc[w] \in TimedPCs => Duration(row[w]) = Period

\* The row in hand is still in the status that its promotion wrote, and the window that was found
\* is as it was read.
RowOf(w) ==
  /\ pc[w] \in PausePCs => cycle[row[w].reward].status = "pause_pending" /\ since[w] \in 0..now
  /\ pc[w] \in {"resume", "resume_ok"} => cycle[row[w].reward].status = "resume_pending"
  /\ pc[w] = "resume_error" => cycle[row[w].reward].status \in {"resume_pending", "resumed"}
  /\ pc[w] = "extend" => /\ cycle[window[w].reward].status = "paused"
                         /\ cycle[window[w].reward].until = window[w].until

\* The rows that were fetched are as they were read, and those to be resumed have ended.
Fetched == PausePCs \cup ResumePCs \cup {"pause_next", "resume_next"}
BatchOf(w) ==
  /\ \A x, y \in batch[w] : x.reward = y.reward => x = y
  /\ pc[w] \in Fetched => \A x \in batch[w] : cycle[x.reward].status = x.status
  /\ pc[w] \in PausePCs \cup ResumePCs => \A x \in batch[w] : x.reward # row[w].reward
  /\ pc[w] \in ResumePCs \cup {"resume_next"} => \A x \in batch[w] : cycle[x.reward].until <= now
RowsKept == \A w \in Workers : RowOf(w) /\ BatchOf(w)

\* What a conditional update does to each row.
LEMMA PatchAt ==
  ASSUME cycle \in [Rewards -> Cycles], NEW q \in Rewards, NEW e, NEW c, Patch(q, e, c)
  PROVE  \A r \in Rewards : cycle'[r] = IF r = q /\ cycle[q].status = e THEN c ELSE cycle[r]
BY DEF Patch

\* The duration that can be derived is one period.
LEMMA DatedDuration ==
  ASSUME NEW x, Dated(x) PROVE Duration(x) \in {NoTime, Period} /\ (Duration(x) = NoTime <=> x.last = NoTime)
BY ConstantsAssumption DEF Dated, Duration, NoTime

\* A step of a run keeps the dates a period apart.
LEMMA DatesStep ==
  ASSUME Ownership, DatesKept, NEW w \in Workers, RunStep(w)
  PROVE  DatesKept'
<1> USE DEF Ownership, TypeOK, MemoryOK, TablesOK, DatesKept, Goto, TimedPCs, db
<1>0. /\ \A v \in Workers : row[v] \in Rows /\ batch[v] \in SUBSET Rows
      /\ \A r \in Rewards : cycle[r] \in Cycles
      /\ Dated(NoRow)
  BY DEF Dated, NoRow
<1>1. CASE SeedRead(w)
  <2>1. ASSUME NEW x \in batch'[w] PROVE Dated(x)
    <3>1. PICK r \in Rewards : x = [reward |-> r, status |-> "absent",
                                   last |-> billing[SubOf[r]].last, next |-> billing[SubOf[r]].next]
      BY <1>1 DEF SeedRead
    <3>2. SubOf[r] \in Subscriptions
      BY ConstantsAssumption
    <3> QED
      BY <3>1, <3>2 DEF Dated
  <2> QED
    BY <1>0, <1>1, <2>1 DEF SeedRead
<1>2. CASE SeedInsert(w)
  <2>1. ASSUME NEW r \in Rewards PROVE Dated(cycle'[r])
    <3>1. CASE cycle[r].status = "absent" /\ \E x \in batch[w] : x.reward = r
      <4> DEFINE x == CHOOSE x \in batch[w] : x.reward = r
      <4>1. x \in batch[w]
        BY <3>1
      <4>2. cycle'[r] = [cycle[r] EXCEPT !.status = "reward_pending", !.last = x.last, !.next = x.next]
        BY <1>2, <3>1 DEF SeedInsert
      <4>3. cycle'[r].last = x.last /\ cycle'[r].next = x.next
        BY <1>0, <4>2 DEF Cycles
      <4> QED
        BY <4>1, <4>3 DEF Dated
    <3>2. CASE ~(cycle[r].status = "absent" /\ \E x \in batch[w] : x.reward = r)
      BY <1>2, <3>2 DEF SeedInsert
    <3> QED
      BY <3>1, <3>2
  <2> QED
    BY <1>2, <2>1 DEF SeedInsert
<1>3. CASE FetchPause(w)
  BY <1>0, <1>3 DEF FetchPause, Snapshot, Dated
<1>4. CASE PromotePause(w)
  <2> PICK x \in batch[w] :
        /\ batch' = [batch EXCEPT ![w] = @ \ {x}]
        /\ \/ /\ row' = [row EXCEPT ![w] = [x EXCEPT !.status = "pause_pending"]]
              /\ Goto(w, IF Duration(x) = NoTime THEN "refresh" ELSE "find")
           \/ UNCHANGED <<pc, row>>
        /\ UNCHANGED cycle \/ Patch(x.reward, x.status, [cycle[x.reward] EXCEPT !.status = "pause_pending"])
    BY <1>4 DEF PromotePause
  <2> DEFINE taken == [x EXCEPT !.status = "pause_pending"]
  <2>1. x \in Rows /\ x.reward \in Rewards
    BY DEF HoldsRow
  <2>2. taken.last = x.last /\ taken.next = x.next
    BY <2>1 DEF Rows
  <2>3. Dated(taken) /\ Duration(taken) = Duration(x) /\ Duration(x) \in {NoTime, Period}
    BY <2>2, DatedDuration DEF Dated, Duration
  <2>4. \A r \in Rewards : cycle'[r].last = cycle[r].last /\ cycle'[r].next = cycle[r].next
    BY <1>0, <2>1 DEF Patch, Cycles
  <2>5. \A r \in Rewards : Dated(cycle'[r])
    BY <2>4 DEF Dated
  <2>6. UNCHANGED billing
    BY <1>4 DEF PromotePause
  <2>7. \A v \in Workers : \A y \in batch'[v] : Dated(y)
    OBVIOUS
  <2>8. ASSUME NEW v \in Workers
        PROVE  Dated(row'[v]) /\ (pc'[v] \in TimedPCs => Duration(row'[v]) = Period)
    <3>1. CASE v = w
      BY <1>4, <2>3, <3>1 DEF PromotePause
    <3>2. CASE v # w
      BY <3>2
    <3> QED
      BY <3>1, <3>2
  <2> HIDE DEF taken
  <2> QED
    BY <2>5, <2>6, <2>7, <2>8
<1>5. CASE RefreshDates(w)
  <2> DEFINE r == row[w].reward
             b == billing[SubOf[r]]
             x == [row[w] EXCEPT !.last = b.last, !.next = b.next]
  <2>1. r \in Rewards /\ SubOf[r] \in Subscriptions
    BY <1>5, ConstantsAssumption DEF RefreshDates, HoldsRow, PausePCs
  <2>2. /\ row' = [row EXCEPT ![w] = x]
        /\ Patch(r, "pause_pending", [cycle[r] EXCEPT !.last = b.last, !.next = b.next])
        /\ Goto(w, IF Duration(x) = NoTime THEN "pause_error" ELSE "find")
        /\ UNCHANGED <<billing, batch>>
    BY <1>5 DEF RefreshDates
  <2>3. Dated(b) /\ x.last = b.last /\ x.next = b.next
    BY <1>0, <2>1 DEF Rows
  <2>4. Dated(x) /\ Duration(x) \in {NoTime, Period}
    BY <2>3, DatedDuration DEF Dated
  <2>5. ASSUME NEW q \in Rewards PROVE Dated(cycle'[q])
    BY <1>0, <2>1, <2>2, <2>3 DEF Patch, Cycles, Dated
  <2> HIDE DEF x, b
  <2>6. ASSUME NEW v \in Workers
        PROVE  Dated(row'[v]) /\ (pc'[v] \in TimedPCs => Duration(row'[v]) = Period)
    <3>1. CASE v = w
      BY <2>2, <2>4, <3>1
    <3>2. CASE v # w
      BY <2>2, <3>2
    <3> QED
      BY <3>1, <3>2
  <2> QED
    BY <2>2, <2>5, <2>6
<1>6. CASE FindOpenWindow(w)
  BY <1>6 DEF FindOpenWindow
<1>7. CASE ExtendWindow(w)
  <2>1. \A r \in Rewards : cycle'[r].last = cycle[r].last /\ cycle'[r].next = cycle[r].next
    <3>1. UNCHANGED cycle \/ \E until : cycle' = [cycle EXCEPT ![window[w].reward].until = until]
      BY <1>7 DEF ExtendWindow
    <3> SUFFICES ASSUME NEW r \in Rewards
                 PROVE  cycle'[r].last = cycle[r].last /\ cycle'[r].next = cycle[r].next
      OBVIOUS
    <3>2. cycle[r] \in Cycles /\ cycle \in [Rewards -> Cycles]
      BY <1>0
    <3>3. ASSUME NEW until, cycle' = [cycle EXCEPT ![window[w].reward].until = until]
          PROVE  cycle'[r] \in {cycle[r], [cycle[r] EXCEPT !.until = until]}
      BY <3>2, <3>3
    <3> QED
      BY <3>1, <3>2, <3>3 DEF Cycles
  <2>2. \A r \in Rewards : Dated(cycle'[r])
    BY <2>1 DEF Dated
  <2>3. pc[w] \in TimedPCs /\ UNCHANGED <<billing, batch, row>>
    BY <1>7 DEF ExtendWindow
  <2> QED
    BY <1>0, <1>7, <2>2, <2>3 DEF ExtendWindow
<1>8. CASE ConsumeReward(w)
  <2>1. row[w].reward \in Rewards
    BY <1>8 DEF ConsumeReward, HoldsRow, PausePCs, ResumePCs
  <2>2. \A r \in Rewards : cycle'[r].last = cycle[r].last /\ cycle'[r].next = cycle[r].next
    <3> DEFINE c == [cycle[row[w].reward] EXCEPT !.status = "resumed", !.confirmed = TRUE,
                                              !.started = now, !.until = window[w].until]
    <3>1. c.last = cycle[row[w].reward].last /\ c.next = cycle[row[w].reward].next
      BY <1>0, <2>1 DEF Cycles
    <3>2. UNCHANGED cycle \/ Patch(row[w].reward, "pause_pending", c)
      BY <1>8 DEF ConsumeReward
    <3> HIDE DEF c
    <3> QED
      BY <2>1, <3>1, <3>2 DEF Patch
  <2>3. \A r \in Rewards : Dated(cycle'[r])
    BY <2>2 DEF Dated
  <2>4. UNCHANGED <<billing, batch>>
    BY <1>8 DEF ConsumeReward
  <2>5. ASSUME NEW v \in Workers
        PROVE  Dated(row'[v]) /\ (pc'[v] \in TimedPCs => Duration(row'[v]) = Period)
    BY <1>0, <1>8 DEF ConsumeReward, NextRow
  <2> QED
    BY <2>3, <2>4, <2>5
<1>9. CASE DeferPause(w)
  <2>1. row[w].reward \in Rewards
    BY <1>9 DEF DeferPause, HoldsRow, PausePCs, ResumePCs
  <2>2. \A r \in Rewards : cycle'[r].last = cycle[r].last /\ cycle'[r].next = cycle[r].next
    <3> DEFINE c == [cycle[row[w].reward] EXCEPT !.deferred = row[w].next + DeferDelay]
    <3>1. c.last = cycle[row[w].reward].last /\ c.next = cycle[row[w].reward].next
      BY <1>0, <2>1 DEF Cycles
    <3>2. UNCHANGED cycle \/ Patch(row[w].reward, "pause_pending", c)
      BY <1>9 DEF DeferPause
    <3> HIDE DEF c
    <3> QED
      BY <2>1, <3>1, <3>2 DEF Patch
  <2>3. \A r \in Rewards : Dated(cycle'[r])
    BY <2>2 DEF Dated
  <2>4. UNCHANGED <<billing, batch>>
    BY <1>9 DEF DeferPause
  <2>5. ASSUME NEW v \in Workers
        PROVE  Dated(row'[v]) /\ (pc'[v] \in TimedPCs => Duration(row'[v]) = Period)
    BY <1>0, <1>9 DEF DeferPause, NextRow
  <2> QED
    BY <2>3, <2>4, <2>5
<1>10. CASE CallPause(w)
  BY <1>10 DEF CallPause
<1>11. CASE MarkPauseSuccess(w)
  <2>1. row[w].reward \in Rewards
    BY <1>11 DEF MarkPauseSuccess, HoldsRow, PausePCs, ResumePCs
  <2>2. \A r \in Rewards : cycle'[r].last = cycle[r].last /\ cycle'[r].next = cycle[r].next
    <3> DEFINE c == [cycle[row[w].reward] EXCEPT !.status = "paused", !.confirmed = TRUE,
                                              !.started = since[w],
                                              !.until = since[w] + Extension(row[w]),
                                              !.deferred = NoTime]
    <3>1. c.last = cycle[row[w].reward].last /\ c.next = cycle[row[w].reward].next
      BY <1>0, <2>1 DEF Cycles
    <3>2. UNCHANGED cycle \/ Patch(row[w].reward, "pause_pending", c)
      BY <1>11 DEF MarkPauseSuccess
    <3> HIDE DEF c
    <3> QED
      BY <2>1, <3>1, <3>2 DEF Patch
  <2>3. \A r \in Rewards : Dated(cycle'[r])
    BY <2>2 DEF Dated
  <2>4. UNCHANGED <<billing, batch>>
    BY <1>11 DEF MarkPauseSuccess
  <2>5. ASSUME NEW v \in Workers
        PROVE  Dated(row'[v]) /\ (pc'[v] \in TimedPCs => Duration(row'[v]) = Period)
    BY <1>0, <1>11 DEF MarkPauseSuccess, NextRow
  <2> QED
    BY <2>3, <2>4, <2>5
<1>12. CASE MarkPauseFailed(w)
  <2>1. row[w].reward \in Rewards
    BY <1>12 DEF MarkPauseFailed, HoldsRow, PausePCs, ResumePCs
  <2>2. \A r \in Rewards : cycle'[r].last = cycle[r].last /\ cycle'[r].next = cycle[r].next
    <3> DEFINE c == [cycle[row[w].reward] EXCEPT !.status = "pause_failed"]
    <3>1. c.last = cycle[row[w].reward].last /\ c.next = cycle[row[w].reward].next
      BY <1>0, <2>1 DEF Cycles
    <3>2. UNCHANGED cycle \/ Patch(row[w].reward, "pause_pending", c)
      BY <1>12 DEF MarkPauseFailed
    <3> HIDE DEF c
    <3> QED
      BY <2>1, <3>1, <3>2 DEF Patch
  <2>3. \A r \in Rewards : Dated(cycle'[r])
    BY <2>2 DEF Dated
  <2>4. UNCHANGED <<billing, batch>>
    BY <1>12 DEF MarkPauseFailed
  <2>5. ASSUME NEW v \in Workers
        PROVE  Dated(row'[v]) /\ (pc'[v] \in TimedPCs => Duration(row'[v]) = Period)
    BY <1>0, <1>12 DEF MarkPauseFailed, NextRow
  <2> QED
    BY <2>3, <2>4, <2>5
<1>13. CASE FetchResume(w)
  BY <1>0, <1>13 DEF FetchResume, Snapshot, Dated
<1>14. CASE PromoteResume(w)
  <2> PICK x \in batch[w] :
        /\ batch' = [batch EXCEPT ![w] = @ \ {x}]
        /\ \/ row' = [row EXCEPT ![w] = [x EXCEPT !.status = "resume_pending"]] /\ Goto(w, "resume")
           \/ UNCHANGED <<pc, row>>
        /\ UNCHANGED cycle \/ Patch(x.reward, x.status, [cycle[x.reward] EXCEPT !.status = "resume_pending"])
    BY <1>14 DEF PromoteResume
  <2> DEFINE taken == [x EXCEPT !.status = "resume_pending"]
  <2>1. x \in Rows /\ x.reward \in Rewards
    BY DEF HoldsRow
  <2>2. Dated(taken)
    BY <2>1 DEF Rows, Dated
  <2>4. \A r \in Rewards : cycle'[r].last = cycle[r].last /\ cycle'[r].next = cycle[r].next
    BY <1>0, <2>1 DEF Patch, Cycles
  <2>5. \A r \in Rewards : Dated(cycle'[r])
    BY <2>4 DEF Dated
  <2>6. UNCHANGED billing /\ pc[w] = "resume_next"
    BY <1>14 DEF PromoteResume
  <2>7. \A v \in Workers : \A y \in batch'[v] : Dated(y)
    OBVIOUS
  <2>8. ASSUME NEW v \in Workers
        PROVE  Dated(row'[v]) /\ (pc'[v] \in TimedPCs => Duration(row'[v]) = Period)
    <3>1. CASE v = w
      BY <2>2, <2>6, <3>1
    <3>2. CASE v # w
      BY <3>2
    <3> QED
      BY <3>1, <3>2
  <2> HIDE DEF taken
  <2> QED
    BY <2>5, <2>6, <2>7, <2>8
<1>15. CASE CallResume(w)
  BY <1>15 DEF CallResume
<1>16. CASE MarkResumeSuccess(w)
  <2>1. row[w].reward \in Rewards
    BY <1>16 DEF MarkResumeSuccess, HoldsRow, PausePCs, ResumePCs
  <2>2. \A r \in Rewards : cycle'[r].last = cycle[r].last /\ cycle'[r].next = cycle[r].next
    <3> DEFINE c == [cycle[row[w].reward] EXCEPT !.status = "resumed", !.confirmed = FALSE,
                                              !.until = NoTime]
    <3>1. c.last = cycle[row[w].reward].last /\ c.next = cycle[row[w].reward].next
      BY <1>0, <2>1 DEF Cycles
    <3>2. UNCHANGED cycle \/ Patch(row[w].reward, "resume_pending", c)
      BY <1>16 DEF MarkResumeSuccess
    <3> HIDE DEF c
    <3> QED
      BY <2>1, <3>1, <3>2 DEF Patch
  <2>3. \A r \in Rewards : Dated(cycle'[r])
    BY <2>2 DEF Dated
  <2>4. UNCHANGED <<billing, batch>>
    BY <1>16 DEF MarkResumeSuccess
  <2>5. ASSUME NEW v \in Workers
        PROVE  Dated(row'[v]) /\ (pc'[v] \in TimedPCs => Duration(row'[v]) = Period)
    BY <1>0, <1>16 DEF MarkResumeSuccess, NextRow
  <2> QED
    BY <2>3, <2>4, <2>5
<1>17. CASE MarkRewardApplied(w)
  BY <1>0, <1>17 DEF MarkRewardApplied, NextRow, Dated
<1>18. CASE MarkResumeFailed(w)
  <2>1. row[w].reward \in Rewards
    BY <1>18 DEF MarkResumeFailed, HoldsRow, PausePCs, ResumePCs
  <2>2. \A r \in Rewards : cycle'[r].last = cycle[r].last /\ cycle'[r].next = cycle[r].next
    <3> DEFINE c == [cycle[row[w].reward] EXCEPT !.status = "resume_failed"]
    <3>1. c.last = cycle[row[w].reward].last /\ c.next = cycle[row[w].reward].next
      BY <1>0, <2>1 DEF Cycles
    <3>2. UNCHANGED cycle \/ Patch(row[w].reward, "resume_pending", c)
      BY <1>18 DEF MarkResumeFailed
    <3> HIDE DEF c
    <3> QED
      BY <2>1, <3>1, <3>2 DEF Patch
  <2>3. \A r \in Rewards : Dated(cycle'[r])
    BY <2>2 DEF Dated
  <2>4. UNCHANGED <<billing, batch>>
    BY <1>18 DEF MarkResumeFailed
  <2>5. ASSUME NEW v \in Workers
        PROVE  Dated(row'[v]) /\ (pc'[v] \in TimedPCs => Duration(row'[v]) = Period)
    BY <1>0, <1>18 DEF MarkResumeFailed, NextRow
  <2> QED
    BY <2>3, <2>4, <2>5
<1>19. CASE EndRun(w)
  BY <1>19 DEF EndRun
<1> QED
  BY <1>1, <1>2, <1>3, <1>4, <1>5, <1>6, <1>7, <1>8, <1>9, <1>10,
     <1>11, <1>12, <1>13, <1>14, <1>15, <1>16, <1>17, <1>18, <1>19
     DEF RunStep, PauseStep, ResumeStep

\* A step of the one worker keeps what its run holds in line with the table.
LEMMA RowsStep ==
  ASSUME OneWorker, Ownership, RowsKept, NEW w \in Workers, RunStep(w)
  PROVE  RowsKept'
<1> USE DEF Ownership, TypeOK, MemoryOK, TablesOK, HoldsRow, RowsKept, Goto, NextRow, PausePCs, ResumePCs,
        Fetched
<1>0. /\ RowOf(w) /\ BatchOf(w) /\ cycle \in [Rewards -> Cycles] /\ row[w] \in Rows
      /\ batch[w] \subseteq Rows /\ \A x \in batch[w] : x.reward \in Rewards
      /\ UNCHANGED now
  BY DEF RunStep, PauseStep, ResumeStep, SeedRead, SeedInsert, FetchPause, PromotePause, RefreshDates,
         FindOpenWindow, ExtendWindow, ConsumeReward, DeferPause, CallPause, MarkPauseSuccess, MarkPauseFailed,
         FetchResume, PromoteResume, CallResume, MarkResumeSuccess, MarkRewardApplied, MarkResumeFailed, EndRun
<1> SUFFICES RowOf(w)' /\ BatchOf(w)'
  BY DEF OneWorker
<1>1. CASE SeedRead(w)
  BY <1>0, <1>1 DEF SeedRead, RowOf, BatchOf, db
<1>2. CASE SeedInsert(w)
  BY <1>0, <1>2 DEF SeedInsert, RowOf, BatchOf
<1>3. CASE FetchPause(w)
  BY <1>0, <1>3 DEF FetchPause, RowOf, BatchOf, Snapshot, db
<1>4. CASE PromotePause(w)
  <2> PICK x \in batch[w] :
        /\ batch' = [batch EXCEPT ![w] = @ \ {x}]
        /\ IF x.status = "pause_pending" \/ cycle[x.reward].status = x.status
           THEN /\ row' = [row EXCEPT ![w] = [x EXCEPT !.status = "pause_pending"]]
                /\ since' = [since EXCEPT ![w] = now]
                /\ Goto(w, IF Duration(x) = NoTime THEN "refresh" ELSE "find")
           ELSE UNCHANGED <<pc, row, since>>
        /\ IF x.status = "pause_pending" THEN UNCHANGED cycle
           ELSE Patch(x.reward, x.status, [cycle[x.reward] EXCEPT !.status = "pause_pending"])
    BY <1>4 DEF PromotePause
  <2>1. /\ x \in Rows /\ x.reward \in Rewards /\ cycle[x.reward].status = x.status
        /\ \A y \in batch'[w] : y \in batch[w] /\ y.reward # x.reward /\ y.reward \in Rewards
    BY <1>0, <1>4 DEF PromotePause, BatchOf
  <2>2. /\ pc'[w] \in {"refresh", "find"} /\ row'[w].reward = x.reward /\ since'[w] = now
    BY <2>1 DEF Rows
  <2>3. /\ cycle'[x.reward].status = "pause_pending"
        /\ \A r \in Rewards : r # x.reward => cycle'[r] = cycle[r]
    BY <1>0, <2>1 DEF Patch, Cycles
  <2>4. BatchOf(w)'
    BY <1>0, <1>4, <2>1, <2>2, <2>3 DEF BatchOf, PromotePause
  <2>5. RowOf(w)'
    BY <1>0, <2>2, <2>3 DEF RowOf
  <2> QED
    BY <2>4, <2>5
<1>5. CASE RefreshDates(w)
  <2>1. row[w].reward \in Rewards
    BY <1>5 DEF RefreshDates
  <2>2. \A r \in Rewards : r # row[w].reward => cycle'[r] = cycle[r]
    BY <1>0, <1>5, <2>1, PatchAt DEF RefreshDates
  <2>3. BatchOf(w)'
    BY <1>0, <1>5, <2>1, <2>2 DEF RefreshDates, BatchOf
  <2>4. RowOf(w)'
    BY <1>0, <1>5, <2>1 DEF RefreshDates, RowOf, Patch, Cycles, AppliesOnlyResumed, Rows
  <2> QED
    BY <2>3, <2>4
<1>6. CASE FindOpenWindow(w)
  BY <1>0, <1>6 DEF FindOpenWindow, RowOf, BatchOf, OpenWindows, db, Windows
<1>7. CASE ExtendWindow(w)
  <2>1. /\ row[w].reward \in Rewards /\ window[w].reward \in Rewards
        /\ cycle[window[w].reward].status = "paused"
        /\ cycle[row[w].reward].status = "pause_pending"
    BY <1>0, <1>7 DEF ExtendWindow, RowOf
  <2>2. \A r \in Rewards : /\ cycle'[r].status = cycle[r].status
                           /\ r # window[w].reward => cycle'[r] = cycle[r]
    BY <1>0, <1>7, <2>1 DEF ExtendWindow, Cycles
  <2>3. BatchOf(w)'
    <3>1. UNCHANGED <<batch, now, row>> /\ pc[w] = "extend" /\ pc'[w] \in {"consume", "defer"}
      BY <1>0, <1>7 DEF ExtendWindow
    <3> QED
      BY <1>0, <2>1, <2>2, <3>1 DEF BatchOf
  <2>4. RowOf(w)'
    BY <1>0, <1>7, <2>1, <2>2 DEF ExtendWindow, RowOf
  <2> QED
    BY <2>3, <2>4
<1>8. CASE ConsumeReward(w)
  <2>1. row[w].reward \in Rewards
    BY <1>8 DEF ConsumeReward
  <2>2. \A r \in Rewards : r # row[w].reward => cycle'[r] = cycle[r]
    BY <1>0, <1>8, <2>1, PatchAt DEF ConsumeReward
  <2>3. BatchOf(w)'
    BY <1>0, <1>8, <2>1, <2>2 DEF ConsumeReward, BatchOf
  <2>4. RowOf(w)'
    BY <1>0, <1>8, <2>1 DEF ConsumeReward, RowOf, Patch, Cycles, AppliesOnlyResumed, Rows
  <2> QED
    BY <2>3, <2>4
<1>9. CASE DeferPause(w)
  <2>1. row[w].reward \in Rewards
    BY <1>9 DEF DeferPause
  <2>2. \A r \in Rewards : r # row[w].reward => cycle'[r] = cycle[r]
    BY <1>0, <1>9, <2>1, PatchAt DEF DeferPause
  <2>3. BatchOf(w)'
    BY <1>0, <1>9, <2>1, <2>2 DEF DeferPause, BatchOf
  <2>4. RowOf(w)'
    BY <1>0, <1>9, <2>1 DEF DeferPause, RowOf, Patch, Cycles, AppliesOnlyResumed, Rows
  <2> QED
    BY <2>3, <2>4
<1>10. CASE CallPause(w)
  BY <1>0, <1>10 DEF CallPause, RowOf, BatchOf, db
<1>11. CASE MarkPauseSuccess(w)
  <2>1. row[w].reward \in Rewards
    BY <1>11 DEF MarkPauseSuccess
  <2>2. \A r \in Rewards : r # row[w].reward => cycle'[r] = cycle[r]
    BY <1>0, <1>11, <2>1, PatchAt DEF MarkPauseSuccess
  <2>3. BatchOf(w)'
    BY <1>0, <1>11, <2>1, <2>2 DEF MarkPauseSuccess, BatchOf
  <2>4. RowOf(w)'
    BY <1>0, <1>11, <2>1 DEF MarkPauseSuccess, RowOf, Patch, Cycles, AppliesOnlyResumed, Rows
  <2> QED
    BY <2>3, <2>4
<1>12. CASE MarkPauseFailed(w)
  <2>1. row[w].reward \in Rewards
    BY <1>12 DEF MarkPauseFailed
  <2>2. \A r \in Rewards : r # row[w].reward => cycle'[r] = cycle[r]
    BY <1>0, <1>12, <2>1, PatchAt DEF MarkPauseFailed
  <2>3. BatchOf(w)'
    BY <1>0, <1>12, <2>1, <2>2 DEF MarkPauseFailed, BatchOf
  <2>4. RowOf(w)'
    BY <1>0, <1>12, <2>1 DEF MarkPauseFailed, RowOf, Patch, Cycles, AppliesOnlyResumed, Rows
  <2> QED
    BY <2>3, <2>4
<1>13. CASE FetchResume(w)
  <2> DEFINE ended == {r \in Rewards : Resumable(r)}
  <2>1. pc'[w] = "resume_next" /\ batch'[w] = {Snapshot(r) : r \in ended} /\ UNCHANGED cycle
    BY <1>13 DEF FetchResume, db
  <2>2. \A r \in ended : cycle[r].until <= now
    BY DEF Resumable, Ended
  <2> QED
    BY <1>0, <2>1, <2>2 DEF RowOf, BatchOf, Snapshot
<1>14. CASE PromoteResume(w)
  <2> PICK x \in batch[w] :
        /\ batch' = [batch EXCEPT ![w] = @ \ {x}]
        /\ IF x.status = "resume_pending" \/ cycle[x.reward].status = x.status
           THEN /\ row' = [row EXCEPT ![w] = [x EXCEPT !.status = "resume_pending"]]
                /\ Goto(w, "resume")
           ELSE UNCHANGED <<pc, row>>
        /\ IF x.status = "resume_pending" THEN UNCHANGED cycle
           ELSE Patch(x.reward, x.status, [cycle[x.reward] EXCEPT !.status = "resume_pending"])
    BY <1>14 DEF PromoteResume
  <2>1. /\ x \in Rows /\ x.reward \in Rewards /\ cycle[x.reward].status = x.status
        /\ \A y \in batch'[w] : y \in batch[w] /\ y.reward # x.reward /\ y.reward \in Rewards
    BY <1>0, <1>14 DEF PromoteResume, BatchOf
  <2>2. pc'[w] = "resume" /\ row'[w].reward = x.reward
    BY <2>1 DEF Rows
  <2>3. /\ cycle'[x.reward].status = "resume_pending"
        /\ \A r \in Rewards : r # x.reward => cycle'[r] = cycle[r]
    BY <1>0, <2>1 DEF Patch, Cycles
  <2>4. BatchOf(w)'
    BY <1>0, <1>14, <2>1, <2>2, <2>3 DEF BatchOf, PromoteResume
  <2>5. RowOf(w)'
    BY <1>0, <2>2, <2>3 DEF RowOf
  <2> QED
    BY <2>4, <2>5
<1>15. CASE CallResume(w)
  BY <1>0, <1>15 DEF CallResume, RowOf, BatchOf, db
<1>16. CASE MarkResumeSuccess(w)
  <2>1. row[w].reward \in Rewards
    BY <1>16 DEF MarkResumeSuccess
  <2>2. \A r \in Rewards : r # row[w].reward => cycle'[r] = cycle[r]
    BY <1>0, <1>16, <2>1, PatchAt DEF MarkResumeSuccess
  <2>3. BatchOf(w)'
    BY <1>0, <1>16, <2>1, <2>2 DEF MarkResumeSuccess, BatchOf
  <2>4. RowOf(w)'
    BY <1>0, <1>16, <2>1 DEF MarkResumeSuccess, RowOf, Patch, Cycles, AppliesOnlyResumed, Rows
  <2> QED
    BY <2>3, <2>4
<1>17. CASE MarkRewardApplied(w)
  BY <1>0, <1>17 DEF MarkRewardApplied, RowOf, BatchOf, AppliesOnlyResumed
<1>18. CASE MarkResumeFailed(w)
  <2>1. row[w].reward \in Rewards
    BY <1>18 DEF MarkResumeFailed
  <2>2. \A r \in Rewards : r # row[w].reward => cycle'[r] = cycle[r]
    BY <1>0, <1>18, <2>1, PatchAt DEF MarkResumeFailed
  <2>3. BatchOf(w)'
    BY <1>0, <1>18, <2>1, <2>2 DEF MarkResumeFailed, BatchOf
  <2>4. RowOf(w)'
    BY <1>0, <1>18, <2>1 DEF MarkResumeFailed, RowOf, Patch, Cycles, AppliesOnlyResumed, Rows
  <2> QED
    BY <2>3, <2>4
<1>19. CASE EndRun(w)
  BY <1>0, <1>19 DEF EndRun, RowOf, BatchOf, db
<1> QED
  BY <1>1, <1>2, <1>3, <1>4, <1>5, <1>6, <1>7, <1>8, <1>9, <1>10,
     <1>11, <1>12, <1>13, <1>14, <1>15, <1>16, <1>17, <1>18, <1>19
     DEF RunStep, PauseStep, ResumeStep

\* The windows: a reward has one from its first month on, which is as long as the months that paid
\* for it, and which is taken down only after its end.
WindowOf(r) ==
  /\ cycle[r].status \in PauseStates \cup {"absent"} => stacked[r] = 0
  /\ cycle[r].status \in ResumeStates =>
       stacked[r] >= 1 /\ cycle[r].until - cycle[r].started = stacked[r] * Months * Period
  /\ cycle[r].status \in {"resume_pending", "resume_failed"} => cycle[r].until <= now
WindowsKept == \A r \in Rewards : WindowOf(r)

\* What a step of the one worker does to the months that were granted: nothing, ...
Quiet(w) ==
  /\ UNCHANGED history /\ pc[w] # "consume" /\ pc'[w] # "consume"
  /\ \A r \in Rewards :
       /\ cycle'[r].started = cycle[r].started /\ cycle'[r].until = cycle[r].until
       /\ \/ cycle'[r].status = cycle[r].status
          \/ cycle[r].status \in PauseStates \cup {"absent"} /\ cycle'[r].status \in PauseStates
          \/ /\ cycle[r].status \in ResumeStates /\ cycle[r].until <= now
             /\ cycle'[r].status \in ResumeStates \ {"paused"}

\* ... or one thing to the reward in hand: it extends the window of t, is consumed by that, opens
\* a window of its own, or closes it.  The others keep their rows.
Only(w, from, to) ==
  LET r == row[w].reward
  IN  /\ r \in Rewards /\ cycle[r].status = from /\ cycle'[r].status = to
      /\ \A q \in Rewards : q # r => cycle'[q] = cycle[q]
      /\ pc'[w] # "consume"
Extends(w, t) ==
  /\ pc[w] = "extend" /\ pc'[w] = "consume" /\ UNCHANGED row
  /\ row[w].reward \in Rewards /\ cycle[row[w].reward].status = "pause_pending"
  /\ t \in Rewards /\ cycle[t].status = "paused"
  /\ cycle' = [cycle EXCEPT ![t].until = cycle[t].until + Period * Months]
  /\ granted' = [granted EXCEPT ![row[w].reward] = @ + 1]
  /\ stacked' = [stacked EXCEPT ![t] = @ + 1]
Consumes(w) == pc[w] = "consume" /\ Only(w, "pause_pending", "resumed") /\ UNCHANGED history
Opens(w) ==
  /\ pc[w] = "pause_ok" /\ Only(w, "pause_pending", "paused")
  /\ LET r == row[w].reward
     IN  /\ cycle'[r].started \in 0..now /\ cycle'[r].until = cycle'[r].started + Period * Months
         /\ granted' = [granted EXCEPT ![r] = @ + 1]
         /\ stacked' = [stacked EXCEPT ![r] = 1]
Closes(w) ==
  /\ pc[w] = "resume_ok" /\ Only(w, "resume_pending", "resumed") /\ UNCHANGED history
  /\ cycle'[row[w].reward].started = cycle[row[w].reward].started

\* Every step of the one worker is one of these.
LEMMA StepEffects ==
  ASSUME Ownership, DatesKept, RowsKept, WindowsKept, NEW w \in Workers, RunStep(w)
  PROVE  Quiet(w) \/ (\E t : Extends(w, t)) \/ Consumes(w) \/ Opens(w) \/ Closes(w)
<1> USE DEF Ownership, TypeOK, MemoryOK, TablesOK, HoldsRow, Goto, NextRow, PausePCs, ResumePCs, Fetched
<1>0. /\ RowOf(w) /\ BatchOf(w) /\ cycle \in [Rewards -> Cycles] /\ row[w] \in Rows
      /\ batch[w] \subseteq Rows /\ \A x \in batch[w] : x.reward \in Rewards
      /\ pc[w] \in TimedPCs => Extension(row[w]) = Period * Months
  BY DEF RowsKept, DatesKept, Extension
<1> DEFINE Any == Quiet(w) \/ (\E t : Extends(w, t)) \/ Consumes(w) \/ Opens(w) \/ Closes(w)
<1>q. ASSUME UNCHANGED <<cycle, history>>, pc[w] # "consume", pc'[w] # "consume" PROVE Any
  BY <1>q DEF Quiet
<1>1. CASE SeedRead(w)
  BY <1>q, <1>1 DEF SeedRead, db
<1>2. CASE SeedInsert(w)
  <2>1. ASSUME NEW r \in Rewards
        PROVE  /\ cycle'[r].started = cycle[r].started /\ cycle'[r].until = cycle[r].until
               /\ \/ cycle'[r].status = cycle[r].status
                  \/ cycle[r].status = "absent" /\ cycle'[r].status \in PauseStates
    <3>1. CASE cycle[r].status = "absent" /\ \E x \in batch[w] : x.reward = r
      <4> DEFINE x == CHOOSE x \in batch[w] : x.reward = r
      <4>1. cycle'[r] = [cycle[r] EXCEPT !.status = "reward_pending", !.last = x.last, !.next = x.next]
        BY <1>2, <3>1 DEF SeedInsert
      <4> HIDE DEF x
      <4> QED
        BY <1>0, <3>1, <4>1 DEF Cycles, PauseStates
    <3>2. CASE ~(cycle[r].status = "absent" /\ \E x \in batch[w] : x.reward = r)
      BY <1>2, <3>2 DEF SeedInsert
    <3> QED
      BY <3>1, <3>2
  <2>2. UNCHANGED history /\ pc[w] # "consume" /\ pc'[w] # "consume"
    BY <1>2 DEF SeedInsert
  <2> QED
    BY <2>1, <2>2 DEF Quiet
<1>3. CASE FetchPause(w)
  BY <1>q, <1>3 DEF FetchPause, db
<1>4. CASE PromotePause(w)
  <2> PICK x \in batch[w] :
        UNCHANGED cycle \/ Patch(x.reward, x.status, [cycle[x.reward] EXCEPT !.status = "pause_pending"])
    BY <1>4 DEF PromotePause
  <2> DEFINE c == [cycle[x.reward] EXCEPT !.status = "pause_pending"]
  <2>1. x.reward \in Rewards /\ cycle[x.reward] \in Cycles /\ cycle[x.reward].status = x.status
    BY <1>0, <1>4 DEF PromotePause, BatchOf
  <2>2. /\ c.started = cycle[x.reward].started /\ c.until = cycle[x.reward].until
        /\ c.status = "pause_pending"
    BY <2>1 DEF Cycles
  <2>3. UNCHANGED cycle \/ Patch(x.reward, x.status, c)
    OBVIOUS
  <2>4. UNCHANGED history /\ pc[w] # "consume" /\ pc'[w] # "consume"
    BY <1>4 DEF PromotePause
  <2>5. x.status \in PauseStates
    BY <1>0, <1>4 DEF PromotePause, BatchOf, BatchKind
  <2> HIDE DEF c
  <2> QED
    BY <1>0, <2>1, <2>2, <2>3, <2>4, <2>5 DEF Quiet, Patch, PauseStates, ResumeStates
<1>5. CASE RefreshDates(w)
  <2> DEFINE r == row[w].reward
             c == [cycle[r] EXCEPT !.last = billing[SubOf[r]].last, !.next = billing[SubOf[r]].next]
  <2>1. r \in Rewards /\ cycle[r] \in Cycles
    BY <1>0, <1>5 DEF RefreshDates
  <2>2. c.started = cycle[r].started /\ c.until = cycle[r].until /\ c.status = cycle[r].status
    BY <2>1 DEF Cycles
  <2>3. UNCHANGED cycle \/ Patch(r, "pause_pending", c)
    BY <1>5 DEF RefreshDates
  <2>4. UNCHANGED history /\ pc[w] # "consume" /\ pc'[w] # "consume"
    BY <1>5 DEF RefreshDates
  <2>5. cycle[r].until <= now \/ cycle[r].status # "resume_pending" \/ "pause_pending" = "pause_pending"
    BY <1>0, <1>5 DEF RefreshDates, WindowsKept, WindowOf
  <2> HIDE DEF c
  <2> QED
    BY <1>0, <2>1, <2>2, <2>3, <2>4, <2>5 DEF Quiet, Patch, PauseStates, ResumeStates
<1>6. CASE FindOpenWindow(w)
  BY <1>q, <1>6 DEF FindOpenWindow, db
<1>7. CASE ExtendWindow(w)
  <2> DEFINE t == window[w].reward
  <2>1. /\ row[w].reward \in Rewards /\ cycle[row[w].reward].status = "pause_pending"
        /\ t \in Rewards /\ cycle[t].status = "paused" /\ cycle[t].until = window[w].until
        /\ Extension(row[w]) = Period * Months
    BY <1>0, <1>7 DEF ExtendWindow, RowOf, TimedPCs
  <2>2. CASE UNCHANGED <<cycle, history>> /\ Goto(w, "defer")
    BY <1>q, <1>7, <2>2 DEF ExtendWindow
  <2>4. CASE cycle[t].status = "paused" /\ cycle[t].confirmed
    <3>1. cycle' = [cycle EXCEPT ![t].until = window[w].until + Extension(row[w])]
      BY <1>7, <2>4 DEF ExtendWindow
    <3>2. /\ granted' = [granted EXCEPT ![row[w].reward] = @ + 1]
          /\ stacked' = [stacked EXCEPT ![t] = @ + 1]
      BY <1>7, <2>4 DEF ExtendWindow
    <3>3. Goto(w, "consume") /\ UNCHANGED row
      BY <1>7, <2>4 DEF ExtendWindow
    <3>4. Extends(w, t)
      BY <1>7, <2>1, <3>1, <3>2, <3>3 DEF Extends, ExtendWindow
    <3> QED
      BY <3>4
  <2>5. CASE ~(cycle[t].status = "paused" /\ cycle[t].confirmed)
    BY <1>7, <2>2, <2>5 DEF ExtendWindow, history
  <2> QED
    BY <2>4, <2>5
<1>8. CASE ConsumeReward(w)
  <2> DEFINE r == row[w].reward
             c == [cycle[r] EXCEPT !.status = "resumed", !.confirmed = TRUE,
                                        !.started = now, !.until = window[w].until]
  <2>1. r \in Rewards /\ cycle[r] \in Cycles /\ cycle[r].status = "pause_pending"
    BY <1>0, <1>8 DEF ConsumeReward, RowOf
  <2>2. c.status = "resumed"
    BY <1>0, <1>8, <2>1 DEF ConsumeReward, Cycles, RowOf, TimedPCs
  <2>4. Patch(r, "pause_pending", c)
    BY <1>8 DEF ConsumeReward
  <2>5. pc'[w] # "consume"
    BY <1>8 DEF ConsumeReward
  <2> HIDE DEF c
  <2>6. Only(w, "pause_pending", "resumed") /\ cycle'[r] = c
    BY <1>0, <2>1, <2>2, <2>4, <2>5 DEF Only, Patch
  <2> QED
    BY <1>8, <2>1, <2>2, <2>4, <2>6 DEF Consumes, ConsumeReward, Extension
<1>9. CASE DeferPause(w)
  <2> DEFINE r == row[w].reward
             c == [cycle[r] EXCEPT !.deferred = row[w].next + DeferDelay]
  <2>1. r \in Rewards /\ cycle[r] \in Cycles
    BY <1>0, <1>9 DEF DeferPause
  <2>2. c.started = cycle[r].started /\ c.until = cycle[r].until /\ c.status = cycle[r].status
    BY <2>1 DEF Cycles
  <2>3. UNCHANGED cycle \/ Patch(r, "pause_pending", c)
    BY <1>9 DEF DeferPause
  <2>4. UNCHANGED history /\ pc[w] # "consume" /\ pc'[w] # "consume"
    BY <1>9 DEF DeferPause
  <2>5. cycle[r].until <= now \/ cycle[r].status # "resume_pending" \/ "pause_pending" = "pause_pending"
    BY <1>0, <1>9 DEF DeferPause, WindowsKept, WindowOf
  <2> HIDE DEF c
  <2> QED
    BY <1>0, <2>1, <2>2, <2>3, <2>4, <2>5 DEF Quiet, Patch, PauseStates, ResumeStates
<1>10. CASE CallPause(w)
  BY <1>q, <1>10 DEF CallPause, db
<1>11. CASE MarkPauseSuccess(w)
  <2> DEFINE r == row[w].reward
             c == [cycle[r] EXCEPT !.status = "paused", !.confirmed = TRUE,
                                        !.started = since[w],
                                        !.until = since[w] + Extension(row[w]),
                                        !.deferred = NoTime]
  <2>1. r \in Rewards /\ cycle[r] \in Cycles /\ cycle[r].status = "pause_pending"
    BY <1>0, <1>11 DEF MarkPauseSuccess, RowOf
  <2>2. /\ c.status = "paused" /\ c.started = since[w] /\ since[w] \in 0..now
        /\ c.until = since[w] + Period * Months
    BY <1>0, <1>11, <2>1 DEF MarkPauseSuccess, Cycles, RowOf, TimedPCs
  <2>3. CASE UNCHANGED <<cycle, history>>
    BY <1>q, <1>11, <2>3 DEF MarkPauseSuccess
  <2>4. CASE Patch(r, "pause_pending", c) /\ UNCHANGED faults
    <3>1. pc'[w] # "consume"
      BY <1>11 DEF MarkPauseSuccess
    <3> HIDE DEF c
    <3>2. Only(w, "pause_pending", "paused") /\ cycle'[r] = c
      BY <1>0, <2>1, <2>2, <2>4, <3>1 DEF Only, Patch
    <3> QED
      BY <1>11, <2>1, <2>2, <2>4, <3>2 DEF Opens, MarkPauseSuccess, Extension
  <2> QED
    BY <1>11, <2>3, <2>4 DEF MarkPauseSuccess, history
<1>12. CASE MarkPauseFailed(w)
  <2> DEFINE r == row[w].reward
             c == [cycle[r] EXCEPT !.status = "pause_failed"]
  <2>1. r \in Rewards /\ cycle[r] \in Cycles
    BY <1>0, <1>12 DEF MarkPauseFailed
  <2>2. c.started = cycle[r].started /\ c.until = cycle[r].until /\ c.status = "pause_failed"
    BY <2>1 DEF Cycles
  <2>3. UNCHANGED cycle \/ Patch(r, "pause_pending", c)
    BY <1>12 DEF MarkPauseFailed
  <2>4. UNCHANGED history /\ pc[w] # "consume" /\ pc'[w] # "consume"
    BY <1>12 DEF MarkPauseFailed
  <2>5. cycle[r].until <= now \/ cycle[r].status # "resume_pending" \/ "pause_pending" = "pause_pending"
    BY <1>0, <1>12 DEF MarkPauseFailed, WindowsKept, WindowOf
  <2> HIDE DEF c
  <2> QED
    BY <1>0, <2>1, <2>2, <2>3, <2>4, <2>5 DEF Quiet, Patch, PauseStates, ResumeStates
<1>13. CASE FetchResume(w)
  BY <1>q, <1>13 DEF FetchResume, db
<1>14. CASE PromoteResume(w)
  <2> PICK x \in batch[w] :
        UNCHANGED cycle \/ Patch(x.reward, x.status, [cycle[x.reward] EXCEPT !.status = "resume_pending"])
    BY <1>14 DEF PromoteResume
  <2> DEFINE c == [cycle[x.reward] EXCEPT !.status = "resume_pending"]
  <2>1. x.reward \in Rewards /\ cycle[x.reward] \in Cycles /\ cycle[x.reward].status = x.status
    BY <1>0, <1>14 DEF PromoteResume, BatchOf
  <2>2. /\ c.started = cycle[x.reward].started /\ c.until = cycle[x.reward].until
        /\ c.status = "resume_pending"
    BY <2>1 DEF Cycles
  <2>3. UNCHANGED cycle \/ Patch(x.reward, x.status, c)
    OBVIOUS
  <2>4. UNCHANGED history /\ pc[w] # "consume" /\ pc'[w] # "consume"
    BY <1>14 DEF PromoteResume
  <2>5. x.status \in ResumeStates /\ cycle[x.reward].until <= now
    BY <1>0, <1>14 DEF PromoteResume, BatchOf, BatchKind
  <2> HIDE DEF c
  <2> QED
    BY <1>0, <2>1, <2>2, <2>3, <2>4, <2>5 DEF Quiet, Patch, PauseStates, ResumeStates
<1>15. CASE CallResume(w)
  BY <1>q, <1>15 DEF CallResume, db
<1>16. CASE MarkResumeSuccess(w)
  <2> DEFINE r == row[w].reward
             c == [cycle[r] EXCEPT !.status = "resumed", !.confirmed = FALSE, !.until = NoTime]
  <2>1. r \in Rewards /\ cycle[r] \in Cycles /\ cycle[r].status = "resume_pending"
    BY <1>0, <1>16 DEF MarkResumeSuccess, RowOf
  <2>2. c.status = "resumed" /\ c.started = cycle[r].started
    BY <1>0, <1>16, <2>1 DEF MarkResumeSuccess, Cycles, RowOf, TimedPCs
  <2>3. CASE UNCHANGED <<cycle, history>>
    BY <1>q, <1>16, <2>3 DEF MarkResumeSuccess
  <2>4. CASE Patch(r, "resume_pending", c) /\ UNCHANGED faults
    <3>1. pc'[w] # "consume"
      BY <1>16 DEF MarkResumeSuccess
    <3> HIDE DEF c
    <3>2. Only(w, "resume_pending", "resumed") /\ cycle'[r] = c
      BY <1>0, <2>1, <2>2, <2>4, <3>1 DEF Only, Patch
    <3> QED
      BY <1>16, <2>1, <2>2, <2>4, <3>2 DEF Closes, MarkResumeSuccess, Extension
  <2> QED
    BY <1>16, <2>3, <2>4 DEF MarkResumeSuccess, history
<1>17. CASE MarkRewardApplied(w)
  BY <1>q, <1>17 DEF MarkRewardApplied, db
<1>18. CASE MarkResumeFailed(w)
  <2> DEFINE r == row[w].reward
             c == [cycle[r] EXCEPT !.status = "resume_failed"]
  <2>1. r \in Rewards /\ cycle[r] \in Cycles
    BY <1>0, <1>18 DEF MarkResumeFailed
  <2>2. c.started = cycle[r].started /\ c.until = cycle[r].until /\ c.status = "resume_failed"
    BY <2>1 DEF Cycles
  <2>3. UNCHANGED cycle \/ Patch(r, "resume_pending", c)
    BY <1>18 DEF MarkResumeFailed
  <2>4. UNCHANGED history /\ pc[w] # "consume" /\ pc'[w] # "consume"
    BY <1>18 DEF MarkResumeFailed
  <2>5. cycle[r].until <= now \/ cycle[r].status # "resume_pending" \/ "resume_pending" = "pause_pending"
    BY <1>0, <1>18 DEF MarkResumeFailed, WindowsKept, WindowOf
  <2> HIDE DEF c
  <2> QED
    BY <1>0, <2>1, <2>2, <2>3, <2>4, <2>5 DEF Quiet, Patch, PauseStates, ResumeStates
<1>19. CASE EndRun(w)
  BY <1>q, <1>19 DEF EndRun, db
<1> QED
  BY <1>1, <1>2, <1>3, <1>4, <1>5, <1>6, <1>7, <1>8, <1>9, <1>10,
     <1>11, <1>12, <1>13, <1>14, <1>15, <1>16, <1>17, <1>18, <1>19
     DEF RunStep, PauseStep, ResumeStep

\* The grants: a reward that is still owed was granted only in runs that were killed, or is about
\* to be consumed.
GrantOf(r) ==
  /\ granted[r] <= 1 + crashes
  /\ cycle[r].status \in PauseStates \cup {"absent"} =>
       granted[r] <= crashes \/ \E w \in Workers : pc[w] = "consume" /\ row[w].reward = r
GrantsKept == \A r \in Rewards : GrantOf(r)

\* The provider: the reward whose pause it honoured and whose resumption it did not is the one
\* for which a subscription is paused.
Holder(r) == PauseKey(r) \in keys /\ ResumeKey(r) \notin keys
KeysKept ==
  /\ \A r \in Rewards :
       /\ cycle[r].status \in ResumeStates => PauseKey(r) \in keys
       /\ ResumeKey(r) \in keys => cycle[r].status \in {"resume_pending", "resume_failed", "resumed"}
       /\ Holder(r) => SubOf[r] \in paused
  /\ \A q, r \in Rewards : Holder(q) /\ Holder(r) /\ SubOf[q] = SubOf[r] => q = r
  /\ \A w \in Workers : pc[w] = "pause_ok" => PauseKey(row[w].reward) \in keys

MonthInv == Ownership /\ DatesKept /\ RowsKept /\ WindowsKept /\ GrantsKept /\ KeysKept

\* One more month makes a window one month longer.
LEMMA OneMonthMore ==
  /\ \A n \in Nat : /\ n * Months * Period \in Nat
                    /\ (n + 1) * Months * Period = n * Months * Period + Period * Months
  /\ 1 * Months * Period = Period * Months /\ Period * Months \in Nat \ {0}
<1>1. Months \in Nat \ {0} /\ Period \in Nat \ {0}
  BY ConstantsAssumption
<1>2. \A n, m, p \in Nat : /\ n * m * p \in Nat /\ (n + 1) * m * p = n * m * p + p * m
  OBVIOUS
<1>3. 1 * Months * Period = Period * Months
  BY <1>1
<1>4. Period * Months \in Nat \ {0}
  BY <1>1
<1> QED
  BY <1>1, <1>2, <1>3, <1>4

\* Neither the clock nor the count of kills moves in a step of a run.
LEMMA RunKeeps == ASSUME NEW w \in Workers, RunStep(w) PROVE UNCHANGED <<now, crashes>>
BY DEF RunStep, PauseStep, ResumeStep, SeedRead, SeedInsert, FetchPause, PromotePause, RefreshDates,
       FindOpenWindow, ExtendWindow, ConsumeReward, DeferPause, CallPause, MarkPauseSuccess, MarkPauseFailed,
       FetchResume, PromoteResume, CallResume, MarkResumeSuccess, MarkRewardApplied, MarkResumeFailed,
       EndRun, bounds

\* A step of the one worker keeps the windows.
LEMMA WindowsStep ==
  ASSUME Ownership, DatesKept, RowsKept, WindowsKept, NEW w \in Workers, RunStep(w)
  PROVE  WindowsKept'
<1> USE DEF PauseStates, ResumeStates
<1> SUFFICES ASSUME NEW q \in Rewards PROVE WindowOf(q)'
  BY DEF WindowsKept
<1>0. /\ cycle \in [Rewards -> Cycles] /\ stacked \in [Rewards -> Nat] /\ now \in Nat
      /\ cycle[q] \in Cycles /\ cycle[q].until \in Int /\ cycle[q].started \in Int
      /\ WindowOf(q) /\ UNCHANGED now
  BY RunKeeps DEF Ownership, TypeOK, TablesOK, WindowsKept, Cycles, Times
<1>1. CASE Quiet(w)
  <2>1. stacked' = stacked
    BY <1>1 DEF Quiet, history
  <2> QED
    BY <1>0, <1>1, <2>1 DEF Quiet, WindowOf
<1>2. ASSUME NEW t, Extends(w, t) PROVE WindowOf(q)'
  <2>1. CASE q # t
    BY <1>0, <1>2, <2>1 DEF Extends, WindowOf
  <2>2. CASE q = t
    <3>1. /\ cycle'[q].status = "paused" /\ cycle'[q].started = cycle[q].started
          /\ cycle'[q].until = cycle[q].until + Period * Months
          /\ stacked'[q] = stacked[q] + 1
      BY <1>0, <1>2, <2>2 DEF Extends, Cycles
    <3>2. stacked[q] >= 1 /\ cycle[q].until - cycle[q].started = stacked[q] * Months * Period
      BY <1>0, <1>2, <2>2 DEF Extends, WindowOf
    <3>3. (stacked[q] + 1) * Months * Period = stacked[q] * Months * Period + Period * Months
      BY <1>0, OneMonthMore
    <3>4. stacked[q] * Months * Period \in Nat /\ Period * Months \in Nat
      BY <1>0, OneMonthMore
    <3> QED
      BY <1>0, <3>1, <3>2, <3>3, <3>4 DEF WindowOf
  <2> QED
    BY <2>1, <2>2
<1>3. CASE Consumes(w) \/ Closes(w)
  <2>1. stacked' = stacked
    BY <1>3 DEF Consumes, Closes, history
  <2>2. cycle'[q] = cycle[q] \/ cycle'[q].status = "resumed"
    BY <1>3 DEF Consumes, Closes, Only
  <2> QED
    BY <1>0, <2>1, <2>2 DEF WindowOf
<1>4. CASE Opens(w)
  <2>1. CASE q # row[w].reward
    BY <1>0, <1>4, <2>1 DEF Opens, Only, WindowOf
  <2>2. CASE q = row[w].reward
    <3>1. /\ cycle'[q].status = "paused" /\ cycle'[q].started \in Nat
          /\ cycle'[q].until = cycle'[q].started + Period * Months
          /\ stacked'[q] = 1
      BY <1>0, <1>4, <2>2 DEF Opens, Only
    <3> QED
      BY <3>1, OneMonthMore DEF WindowOf
  <2> QED
    BY <2>1, <2>2
<1> QED
  BY <1>1, <1>2, <1>3, <1>4, StepEffects

\* A step of the one worker grants no month twice.
LEMMA GrantsStep ==
  ASSUME OneWorker, Ownership, DatesKept, RowsKept, WindowsKept, GrantsKept, NEW w \in Workers, RunStep(w)
  PROVE  GrantsKept'
<1> USE DEF PauseStates, ResumeStates
<1> SUFFICES ASSUME NEW q \in Rewards PROVE GrantOf(q)'
  BY DEF GrantsKept
<1>0. /\ granted \in [Rewards -> Nat] /\ crashes \in Nat /\ UNCHANGED crashes
      /\ granted[q] <= 1 + crashes
      /\ cycle \in [Rewards -> Cycles] /\ cycle[q] \in Cycles
      /\ cycle[q].status \in PauseStates \cup {"absent"} =>
           granted[q] <= crashes \/ (pc[w] = "consume" /\ row[w].reward = q)
  BY RunKeeps DEF Ownership, TypeOK, TablesOK, GrantsKept, GrantOf, OneWorker
<1>1. CASE Quiet(w)
  <2>1. granted' = granted /\ pc[w] # "consume"
    BY <1>1 DEF Quiet, history
  <2> QED
    BY <1>0, <1>1, <2>1 DEF Quiet, GrantOf
<1>2. ASSUME NEW t, Extends(w, t) PROVE GrantOf(q)'
  <2>1. /\ pc[w] # "consume" /\ pc'[w] = "consume" /\ row'[w].reward = row[w].reward
        /\ cycle'[q].status = cycle[q].status
    BY <1>0, <1>2 DEF Extends, Cycles
  <2>2. CASE q = row[w].reward
    BY <1>0, <1>2, <2>1, <2>2 DEF Extends, GrantOf
  <2>3. CASE q # row[w].reward
    BY <1>0, <1>2, <2>1, <2>3 DEF Extends, GrantOf
  <2> QED
    BY <2>2, <2>3
<1>3. CASE Consumes(w) \/ Closes(w)
  <2>1. granted' = granted
    BY <1>3 DEF Consumes, Closes, history
  <2>2. cycle'[q].status = "resumed" \/ (cycle'[q] = cycle[q] /\ row[w].reward # q)
    BY <1>3 DEF Consumes, Closes, Only
  <2> QED
    BY <1>0, <2>1, <2>2 DEF GrantOf
<1>4. CASE Opens(w)
  <2>1. pc[w] # "consume"
    BY <1>4 DEF Opens
  <2>2. CASE q = row[w].reward
    BY <1>0, <1>4, <2>1, <2>2 DEF Opens, Only, GrantOf
  <2>3. CASE q # row[w].reward
    BY <1>0, <1>4, <2>1, <2>3 DEF Opens, Only, GrantOf
  <2> QED
    BY <2>2, <2>3
<1> QED
  BY <1>1, <1>2, <1>3, <1>4, StepEffects

\* A step of the one worker keeps what the provider honoured in line with the cycles.
LEMMA KeysStep ==
  ASSUME OneWorker, Ownership, DatesKept, RowsKept, WindowsKept, KeysKept, NEW w \in Workers, RunStep(w)
  PROVE  KeysKept'
<1> USE DEF PauseStates, ResumeStates
<1>0. /\ pc \in [Workers -> PCs] /\ keys \subseteq Keys /\ paused \subseteq Subscriptions
      /\ cycle \in [Rewards -> Cycles] /\ RowOf(w)
      /\ \A q, r : PauseKey(q) # ResumeKey(r) /\ (PauseKey(q) = PauseKey(r) => q = r)
                   /\ (ResumeKey(q) = ResumeKey(r) => q = r)
  BY DEF Ownership, TypeOK, TablesOK, MemoryOK, RowsKept, PauseKey, ResumeKey
<1>1. CASE CallPause(w)
  <2> DEFINE r == row[w].reward
  <2>1. /\ r \in Rewards /\ cycle[r].status = "pause_pending"
        /\ UNCHANGED <<cycle, row>> /\ pc'[w] \in {"pause_ok", "pause_error"}
    BY <1>0, <1>1 DEF CallPause, RowOf, Ownership, TypeOK, HoldsRow, PausePCs, db, Goto
  <2>2. ResumeKey(r) \notin keys
    BY <2>1 DEF KeysKept
  <2>3. CASE UNCHANGED <<paused, keys>>
    <3>1. pc'[w] = "pause_ok" => PauseKey(r) \in keys
      BY <1>0, <1>1, <2>3 DEF CallPause, Goto, provider
    <3> QED
      BY <2>1, <2>3, <3>1 DEF KeysKept, Holder, OneWorker
  <2>4. CASE /\ PauseKey(r) \notin keys /\ SubOf[r] \notin paused
             /\ paused' = paused \cup {SubOf[r]} /\ keys' = keys \cup {PauseKey(r)}
    <3>1. \A q \in Rewards : Holder(q) => SubOf[q] # SubOf[r]
      BY <2>4 DEF KeysKept
    <3>2. \A q \in Rewards : Holder(q)' <=> q = r \/ Holder(q)
      BY <1>0, <2>2, <2>4 DEF Holder, PauseKey, ResumeKey
    <3>3. \A q \in Rewards : /\ PauseKey(q) \in keys => PauseKey(q) \in keys'
                             /\ ResumeKey(q) \in keys' => ResumeKey(q) \in keys
      BY <1>0, <2>4 DEF PauseKey, ResumeKey
    <3> QED
      BY <2>1, <2>4, <3>1, <3>2, <3>3 DEF KeysKept, OneWorker, PauseKey, ResumeKey
  <2> QED
    BY <1>1, <2>3, <2>4 DEF CallPause, provider
<1>2. CASE CallResume(w)
  <2> DEFINE r == row[w].reward
  <2>1. /\ r \in Rewards /\ cycle[r].status = "resume_pending"
        /\ UNCHANGED cycle /\ pc'[w] \in {"resume_ok", "resume_error"}
    BY <1>0, <1>2 DEF CallResume, RowOf, Ownership, TypeOK, HoldsRow, ResumePCs, db, Goto
  <2>2. PauseKey(r) \in keys
    BY <2>1 DEF KeysKept
  <2>3. CASE UNCHANGED <<paused, keys>>
    BY <2>1, <2>3 DEF KeysKept, Holder, OneWorker, PauseKey, ResumeKey
  <2>4. CASE /\ ResumeKey(r) \notin keys /\ SubOf[r] \in paused
             /\ paused' = paused \ {SubOf[r]} /\ keys' = keys \cup {ResumeKey(r)}
    <3>1. Holder(r) /\ \A q \in Rewards : Holder(q) /\ q # r => SubOf[q] # SubOf[r]
      BY <2>1, <2>2, <2>4 DEF KeysKept, Holder
    <3>2. \A q \in Rewards : Holder(q)' <=> Holder(q) /\ q # r
      BY <1>0, <2>4 DEF Holder, PauseKey, ResumeKey
    <3>3. \A q \in Rewards : /\ PauseKey(q) \in keys => PauseKey(q) \in keys'
                             /\ ResumeKey(q) \in keys' => ResumeKey(q) \in keys \/ q = r
      BY <1>0, <2>4 DEF PauseKey, ResumeKey
    <3> QED
      BY <2>1, <2>4, <3>1, <3>2, <3>3 DEF KeysKept, OneWorker, PauseKey, ResumeKey
  <2> QED
    BY <1>2, <2>3, <2>4 DEF CallResume, provider
<1>3. CASE ~CallPause(w) /\ ~CallResume(w)
  <2>1. UNCHANGED <<paused, keys>>
    BY <1>3 DEF RunStep, PauseStep, ResumeStep, SeedRead, SeedInsert, FetchPause, PromotePause, RefreshDates,
       FindOpenWindow, ExtendWindow, ConsumeReward, DeferPause, MarkPauseSuccess, MarkPauseFailed,
       FetchResume, PromoteResume, MarkResumeSuccess, MarkRewardApplied, MarkResumeFailed,
       EndRun, provider
  <2>2. pc'[w] # "pause_ok"
    BY <1>0, <1>3 DEF RunStep, PauseStep, ResumeStep, SeedRead, SeedInsert, FetchPause, PromotePause,
       RefreshDates, FindOpenWindow, ExtendWindow, ConsumeReward, DeferPause, MarkPauseSuccess,
       MarkPauseFailed, FetchResume, PromoteResume, MarkResumeSuccess, MarkRewardApplied,
       MarkResumeFailed, EndRun, Goto, NextRow
  <2>3. ASSUME NEW r \in Rewards
        PROVE  /\ cycle'[r].status \in ResumeStates => PauseKey(r) \in keys
               /\ ResumeKey(r) \in keys => cycle'[r].status \in {"resume_pending", "resume_failed", "resumed"}
    <3>0. /\ cycle[r].status \in ResumeStates => PauseKey(r) \in keys
          /\ ResumeKey(r) \in keys => cycle[r].status \in {"resume_pending", "resume_failed", "resumed"}
          /\ pc[w] = "pause_ok" => PauseKey(row[w].reward) \in keys
      BY DEF KeysKept
    <3>1. CASE Quiet(w)
      BY <3>0, <3>1 DEF Quiet
    <3>2. ASSUME NEW t, Extends(w, t) PROVE cycle'[r].status = cycle[r].status
      BY <1>0, <3>2 DEF Extends, Cycles
    <3>3. CASE Consumes(w) \/ Closes(w)
      BY <3>0, <3>3 DEF Consumes, Closes, Only
    <3>4. CASE Opens(w)
      BY <3>0, <3>4 DEF Opens, Only
    <3> QED
      BY <3>0, <3>1, <3>2, <3>3, <3>4, StepEffects
  <2> QED
    BY <2>1, <2>2, <2>3 DEF KeysKept, Holder, OneWorker, PauseKey, ResumeKey
<1> QED
  BY <1>1, <1>2, <1>3

\* The claims and the charges of the environment, and the passing of time, keep the invariant.
LEMMA EnvironmentStep ==
  ASSUME OneWorker, MonthInv, Environment
  PROVE  DatesKept' /\ RowsKept' /\ WindowsKept' /\ GrantsKept' /\ KeysKept'
<1> USE DEF MonthInv
<1>0. now \in Nat /\ cycle \in [Rewards -> Cycles] /\ \A w \in Workers : \A x \in batch[w] : x.reward \in Rewards
  BY DEF Ownership, TypeOK, TablesOK, HoldsRow
<1>1. ASSUME NEW r \in Rewards, Claim(r)
      PROVE  DatesKept' /\ RowsKept' /\ WindowsKept' /\ GrantsKept' /\ KeysKept'
  <2>1. UNCHANGED <<now, cycle, billing, provider, local, history, bounds>>
    BY <1>1 DEF Claim
  <2> QED
    BY <2>1 DEF provider, local, history, bounds, DatesKept, RowsKept, RowOf, BatchOf, WindowsKept, WindowOf,
            GrantsKept, GrantOf, KeysKept, Holder
<1>2. ASSUME NEW s \in Subscriptions, Charge(s)
      PROVE  DatesKept' /\ RowsKept' /\ WindowsKept' /\ GrantsKept' /\ KeysKept'
  <2>1. /\ UNCHANGED <<now, cycle, provider, local, history, bounds>>
        /\ billing' = [billing EXCEPT ![s] = [last |-> now, next |-> now + Period]]
    BY <1>2 DEF Charge
  <2>2. \A q \in Subscriptions : Dated(billing'[q])
    BY <1>0, <2>1 DEF DatesKept, Dated
  <2>3. DatesKept'
    BY <2>1, <2>2 DEF DatesKept, local
  <2>4. RowsKept' /\ WindowsKept' /\ GrantsKept' /\ KeysKept'
    BY <2>1 DEF provider, local, history, bounds, RowsKept, RowOf, BatchOf, WindowsKept, WindowOf,
            GrantsKept, GrantOf, KeysKept, Holder
  <2> QED
    BY <2>3, <2>4
<1>3. CASE Tick
  <2>1. UNCHANGED <<db, provider, local, history, bounds>> /\ now' = now + 1
    BY <1>3 DEF Tick
  <2>2. \A r \in Rewards : cycle[r].until \in Int
    BY <1>0 DEF Cycles, Times
  <2>3. RowsKept'
    <3> SUFFICES ASSUME NEW w \in Workers PROVE RowOf(w)' /\ BatchOf(w)'
      BY DEF RowsKept
    <3>1. RowOf(w) /\ BatchOf(w) /\ \A x \in batch[w] : cycle[x.reward].until \in Int
      BY <1>0, <2>2 DEF RowsKept
    <3>2. RowOf(w)'
      BY <1>0, <2>1, <3>1 DEF RowOf, local, db
    <3>3. BatchOf(w)'
      BY <1>0, <2>1, <3>1 DEF BatchOf, local, db
    <3> QED
      BY <3>2, <3>3
  <2>4. WindowsKept'
    BY <1>0, <2>1, <2>2 DEF WindowsKept, WindowOf, db, history
  <2>5. DatesKept' /\ GrantsKept' /\ KeysKept'
    BY <2>1 DEF provider, local, history, bounds, db, DatesKept, GrantsKept, GrantOf, KeysKept, Holder
  <2> QED
    BY <2>3, <2>4, <2>5
<1> QED
  BY <1>1, <1>2, <1>3 DEF Environment

\* A run that is killed leaves its memory, and the months it granted count as granted by it.
LEMMA CrashStep ==
  ASSUME OneWorker, MonthInv, NEW w \in Workers, Crash(w)
  PROVE  DatesKept' /\ RowsKept' /\ WindowsKept' /\ GrantsKept' /\ KeysKept'
<1> USE DEF MonthInv
<1>1. /\ UNCHANGED <<now, cycle, billing, paused, keys, granted, stacked>> /\ crashes' = crashes + 1
      /\ pc'[w] = "idle" /\ batch'[w] = {} /\ row'[w] = NoRow
  BY DEF Crash, Goto, NextRow, Ownership, TypeOK, MemoryOK, db, provider, history
<1>2. \A v \in Workers : v = w
  BY DEF OneWorker
<1>3. granted \in [Rewards -> Nat] /\ crashes \in Nat
  BY DEF Ownership, TypeOK, TablesOK
<1>4. DatesKept'
  BY <1>1, <1>2 DEF DatesKept, Dated, NoRow, NoTime, TimedPCs
<1>5. RowsKept'
  BY <1>1, <1>2 DEF RowsKept, RowOf, BatchOf, PausePCs, ResumePCs, Fetched
<1>6. WindowsKept'
  BY <1>1 DEF WindowsKept, WindowOf
<1>7. GrantsKept'
  BY <1>1, <1>3 DEF GrantsKept, GrantOf
<1>8. KeysKept'
  BY <1>1, <1>2 DEF KeysKept, Holder
<1> QED
  BY <1>4, <1>5, <1>6, <1>7, <1>8

\* What one worker keeps, through calls that fail and runs that are killed.
THEOREM OneWorkerKeeps == ASSUME OneWorker PROVE Spec => []MonthInv
<1>1. Init /\ Ownership => MonthInv
  <2> SUFFICES ASSUME Init, Ownership PROVE MonthInv
    OBVIOUS
  <2>1. DatesKept
    BY ConstantsAssumption DEF Init, DatesKept, Dated, NoRow, NoTime, TimedPCs
  <2>2. RowsKept
    BY DEF Init, RowsKept, RowOf, BatchOf, PausePCs, ResumePCs, Fetched
  <2>3. WindowsKept /\ GrantsKept /\ KeysKept
    BY DEF Init, WindowsKept, WindowOf, GrantsKept, GrantOf, KeysKept, Holder, PauseStates, ResumeStates
  <2> QED
    BY <2>1, <2>2, <2>3 DEF MonthInv
<1>2. MonthInv /\ [Next]_vars /\ Ownership' => MonthInv'
  <2> SUFFICES ASSUME MonthInv, [Next]_vars, Ownership' PROVE MonthInv'
    OBVIOUS
  <2>1. ASSUME NEW w \in Workers, RunStep(w) PROVE MonthInv'
    BY <2>1, DatesStep, RowsStep, WindowsStep, GrantsStep, KeysStep DEF MonthInv
  <2>2. ASSUME NEW w \in Workers, Crash(w) PROVE MonthInv'
    BY <2>2, CrashStep DEF MonthInv
  <2>3. CASE Environment
    BY <2>3, EnvironmentStep DEF MonthInv
  <2>4. CASE UNCHANGED vars
    BY <2>4 DEF vars, db, provider, local, history, bounds, MonthInv, DatesKept, RowsKept, RowOf, BatchOf,
            WindowsKept, WindowOf, GrantsKept, GrantOf, KeysKept, Holder
  <2> QED
    BY <2>1, <2>2, <2>3, <2>4 DEF Next
<1> QED
  BY <1>1, <1>2, OwnershipHolds, PTL DEF Spec

\* Whatever the number of rewards, the failures and the kills, one worker makes the window of a
\* paused row exactly as long as the months of the rewards stacked on it.
THEOREM MonthsAddUp == ASSUME OneWorker PROVE Spec => []WindowHoldsEveryMonth
<1>1. MonthInv => WindowHoldsEveryMonth
  BY DEF MonthInv, WindowsKept, WindowOf, WindowHoldsEveryMonth, ResumeStates
<1> QED
  BY <1>1, OneWorkerKeeps, PTL

\* With one worker a subscription whose window is open is paused at the provider, also after
\* requests whose answers were lost.
THEOREM OpenMeansPaused == ASSUME OneWorker PROVE Spec => []OpenWindowIsPaused
<1>1. MonthInv => OpenWindowIsPaused
  <2> SUFFICES ASSUME MonthInv, NEW s \in Subscriptions, NEW r \in Rewards,
                      SubOf[r] = s, cycle[r].status = "paused"
               PROVE  s \in paused
    BY DEF OpenWindowIsPaused, OpenWindows
  <2>1. Holder(r)
    BY DEF MonthInv, KeysKept, Holder, ResumeStates
  <2> QED
    BY <2>1 DEF MonthInv, KeysKept
<1> QED
  BY <1>1, OneWorkerKeeps, PTL

\* One worker grants the months of a reward once, and once more for each run that was killed.
THEOREM GrantedOnce == ASSUME OneWorker PROVE Spec => []MonthGrantedOnce
<1>1. MonthInv => MonthGrantedOnce
  BY DEF MonthInv, GrantsKept, GrantOf, MonthGrantedOnce
<1> QED
  BY <1>1, OneWorkerKeeps, PTL

----------------------------------------------------------------------------
\* The state of FreeMonths, reward by reward.
StartOf(r) == IF stacked[r] > 0 THEN cycle[r].started ELSE NoTime
PhaseOf(r) ==
  IF \/ cycle[r].status = "resumed"
     \/ \E w \in Workers : pc[w] = "consume" /\ row[w].reward = r
  THEN "spent"
  ELSE IF cycle[r].status \in ResumeStates THEN "running"
  ELSE IF cycle[r].status = "absent" THEN "none" ELSE "owed"

\* Every step of the one worker's run is a step of FreeMonths or changes nothing it speaks of.
LEMMA RunImplements ==
  ASSUME OneWorker, MonthInv, MonthInv', NEW w \in Workers, RunStep(w)
  PROVE  Promise!Next \/ UNCHANGED Promise!vars
<1> USE DEF MonthInv
<1>0. /\ \A v \in Workers : v = w
      /\ cycle \in [Rewards -> Cycles] /\ stacked \in [Rewards -> Nat] /\ now \in Nat
      /\ pc[w] \in PCs /\ UNCHANGED now
      /\ cycle' \in [Rewards -> Cycles] /\ stacked' \in [Rewards -> Nat]
  BY RunKeeps DEF OneWorker, Ownership, TypeOK, TablesOK, MemoryOK
<1>a. \A r \in Rewards : PhaseOf(r) = IF cycle[r].status = "resumed" \/ (pc[w] = "consume" /\ row[w].reward = r)
                           THEN "spent"
                           ELSE IF cycle[r].status \in ResumeStates THEN "running"
                           ELSE IF cycle[r].status = "absent" THEN "none" ELSE "owed"
  BY <1>0 DEF PhaseOf
<1>b. \A r \in Rewards : PhaseOf(r)' = IF cycle'[r].status = "resumed" \/ (pc'[w] = "consume" /\ row'[w].reward = r)
                           THEN "spent"
                           ELSE IF cycle'[r].status \in ResumeStates THEN "running"
                           ELSE IF cycle'[r].status = "absent" THEN "none" ELSE "owed"
  BY <1>0 DEF PhaseOf
<1>c. \A r \in Rewards : cycle[r].status \in CycleStates
  BY <1>0 DEF Cycles
<1>1. CASE Quiet(w)
  <2>0. PICK S \in SUBSET Rewards :
          S = {r \in Rewards : cycle[r].status = "absent" /\ cycle'[r].status # "absent"}
    OBVIOUS
  <2>1. UNCHANGED stacked /\ pc[w] # "consume" /\ pc'[w] # "consume"
    BY <1>1 DEF Quiet, history
  <2>2. \A r \in Rewards : StartOf(r)' = StartOf(r)
    BY <1>1, <2>1 DEF Quiet, StartOf
  <2>3. \A r \in Rewards : /\ r \in S => PhaseOf(r) = "none" /\ PhaseOf(r)' = "owed"
                           /\ r \notin S => PhaseOf(r)' = PhaseOf(r)
    BY <1>1, <1>a, <1>b, <2>0, <2>1 DEF Quiet, PauseStates, ResumeStates
  <2>4. Promise!Activate(S)
    BY <1>0, <2>1, <2>2, <2>3 DEF Promise!Activate, PhaseOf, StartOf
  <2> QED
    BY <2>4 DEF Promise!Next
<1>2. ASSUME NEW t, Extends(w, t) PROVE Promise!Next
  <2>0. PICK r \in Rewards : r = row[w].reward
    BY <1>2 DEF Extends
  <2>1. /\ r \in Rewards /\ t \in Rewards /\ r # t
        /\ pc[w] = "extend" /\ pc'[w] = "consume" /\ row'[w].reward = r
        /\ cycle[r].status = "pause_pending" /\ cycle[t].status = "paused"
        /\ stacked' = [stacked EXCEPT ![t] = @ + 1] /\ stacked[t] >= 1
        /\ \A q \in Rewards : cycle'[q].status = cycle[q].status /\ cycle'[q].started = cycle[q].started
    BY <1>0, <1>2, <2>0 DEF Extends, Cycles, WindowsKept, WindowOf, ResumeStates
  <2>2. \A q \in Rewards : StartOf(q)' = StartOf(q)
    BY <1>0, <2>1 DEF StartOf
  <2>3. /\ PhaseOf(r) = "owed" /\ PhaseOf(r)' = "spent" /\ PhaseOf(t) = "running"
        /\ \A q \in Rewards : q # r => PhaseOf(q)' = PhaseOf(q)
    BY <1>0, <1>a, <1>b, <2>0, <2>1 DEF ResumeStates
  <2>4. Promise!Stack(r, t)
    BY <1>0, <2>1, <2>2, <2>3 DEF Promise!Stack, PhaseOf, StartOf
  <2> QED
    BY <2>1, <2>4 DEF Promise!Next
<1>3. CASE Consumes(w)
  <2>0. PICK r \in Rewards : r = row[w].reward
    BY <1>3 DEF Consumes, Only
  <2>1. /\ r \in Rewards /\ pc[w] = "consume" /\ pc'[w] # "consume" /\ UNCHANGED stacked
        /\ cycle[r].status = "pause_pending" /\ cycle'[r].status = "resumed"
        /\ \A q \in Rewards : q # r => cycle'[q] = cycle[q]
        /\ stacked[r] = 0
    BY <1>3, <2>0 DEF Consumes, Only, history, WindowsKept, WindowOf, PauseStates
  <2>2. \A q \in Rewards : StartOf(q)' = StartOf(q)
    BY <1>0, <2>1 DEF StartOf
  <2>3. \A q \in Rewards : PhaseOf(q)' = PhaseOf(q)
    BY <1>0, <1>a, <1>b, <2>0, <2>1
  <2> QED
    BY <1>0, <2>1, <2>2, <2>3 DEF Promise!vars, PhaseOf, StartOf
<1>4. CASE Opens(w)
  <2>0. PICK r \in Rewards : r = row[w].reward
    BY <1>4 DEF Opens, Only
  <2>1. /\ r \in Rewards /\ pc[w] # "consume" /\ pc'[w] # "consume"
        /\ stacked' = [stacked EXCEPT ![r] = 1]
        /\ cycle[r].status = "pause_pending" /\ cycle'[r].status = "paused"
        /\ \A q \in Rewards : q # r => cycle'[q] = cycle[q]
        /\ cycle'[r].started \in 0..now
    BY <1>4, <2>0 DEF Opens, Only
  <2>2. /\ StartOf(r)' = cycle'[r].started
        /\ \A q \in Rewards : q # r => StartOf(q)' = StartOf(q)
    BY <1>0, <2>1 DEF StartOf
  <2>3. /\ PhaseOf(r) = "owed" /\ PhaseOf(r)' = "running"
        /\ \A q \in Rewards : q # r => PhaseOf(q)' = PhaseOf(q)
    BY <1>0, <1>a, <1>b, <2>0, <2>1 DEF ResumeStates
  <2>4. Promise!Open(r)
    <3>1. PICK t \in 0..now : t = cycle'[r].started
      BY <2>1
    <3>2. [q \in Rewards |-> StartOf(q)'] = [[q \in Rewards |-> StartOf(q)] EXCEPT ![r] = t]
      BY <2>2, <3>1
    <3>3. [q \in Rewards |-> PhaseOf(q)'] = [[q \in Rewards |-> PhaseOf(q)] EXCEPT ![r] = "running"]
      BY <2>3
    <3> QED
      BY <1>0, <2>1, <2>3, <3>2, <3>3 DEF Promise!Open, PhaseOf, StartOf
  <2> QED
    BY <2>1, <2>4 DEF Promise!Next
<1>5. CASE Closes(w)
  <2>0. PICK r \in Rewards : r = row[w].reward
    BY <1>5 DEF Closes, Only
  <2>1. /\ r \in Rewards /\ pc[w] # "consume" /\ pc'[w] # "consume" /\ UNCHANGED stacked
        /\ cycle[r].status = "resume_pending" /\ cycle'[r].status = "resumed"
        /\ \A q \in Rewards : q # r => cycle'[q] = cycle[q]
        /\ cycle'[r].started = cycle[r].started
    BY <1>5, <2>0 DEF Closes, Only, history
  <2>2. \A q \in Rewards : StartOf(q)' = StartOf(q)
    BY <1>0, <2>1 DEF StartOf
  <2>3. /\ PhaseOf(r) = "running" /\ PhaseOf(r)' = "spent"
        /\ \A q \in Rewards : q # r => PhaseOf(q)' = PhaseOf(q)
    BY <1>0, <1>a, <1>b, <2>0, <2>1 DEF ResumeStates
  <2>4. StartOf(r) + stacked[r] * (Months * Period) <= now
    <3>1. /\ stacked[r] >= 1 /\ cycle[r].until - cycle[r].started = stacked[r] * Months * Period
          /\ cycle[r].until <= now
      BY <2>1 DEF WindowsKept, WindowOf, ResumeStates
    <3>2. stacked[r] * Months * Period = stacked[r] * (Months * Period)
      <4>1. \A n, m, p \in Nat : n * m * p = n * (m * p)
        OBVIOUS
      <4> QED
        BY <1>0, <2>1, <4>1, ConstantsAssumption
    <3>3. stacked[r] * (Months * Period) \in Int
      BY <1>0, <2>1, ConstantsAssumption
    <3>4. cycle[r].until \in Int /\ cycle[r].started \in Int /\ stacked[r] > 0
      BY <1>0, <2>1, <3>1 DEF Cycles, Times
    <3> QED
      BY <1>0, <3>1, <3>2, <3>3, <3>4 DEF StartOf
  <2>5. Promise!Close(r)
    BY <1>0, <2>1, <2>2, <2>3, <2>4 DEF Promise!Close, Promise!End, PhaseOf, StartOf
  <2> QED
    BY <2>1, <2>5 DEF Promise!Next
<1> QED
  BY <1>1, <1>2, <1>3, <1>4, <1>5, StepEffects

\* One worker implements FreeMonths until a run is killed: every step of the referral worker
\* opens a window, extends one, closes one after its end, or changes nothing that was promised.
THEOREM KeepsThePromise == ASSUME OneWorker PROVE Spec => KeepsPromise
<1>1. Init => Promise!Init
  <2> SUFFICES ASSUME Init PROVE Promise!Init
    OBVIOUS
  <2>1. \A r \in Rewards : PhaseOf(r) = "none" /\ StartOf(r) = -1
    BY DEF Init, PhaseOf, StartOf, ResumeStates, NoTime
  <2>2. [r \in Rewards |-> PhaseOf(r)] = [r \in Rewards |-> "none"]
    BY <2>1
  <2>3. [r \in Rewards |-> StartOf(r)] = [r \in Rewards |-> -1]
    BY <2>1
  <2>4. now = 0 /\ stacked = [r \in Rewards |-> 0]
    BY DEF Init
  <2> QED
    BY <2>2, <2>3, <2>4 DEF Promise!Init, PhaseOf, StartOf
<1>2. MonthInv /\ MonthInv' /\ [Next]_vars => [crashes' = 0 => Promise!Next]_(Promise!vars)
  <2> SUFFICES ASSUME MonthInv, MonthInv', [Next]_vars, crashes' = 0
               PROVE  Promise!Next \/ UNCHANGED Promise!vars
    OBVIOUS
  <2>1. ASSUME NEW w \in Workers, RunStep(w) PROVE Promise!Next \/ UNCHANGED Promise!vars
    BY <2>1, RunImplements
  <2>2. ASSUME NEW w \in Workers, Crash(w) PROVE FALSE
    BY <2>2 DEF Crash, MonthInv, Ownership, TypeOK, TablesOK
  <2>3. CASE (\E r \in Rewards : Claim(r)) \/ (\E s \in Subscriptions : Charge(s)) \/ UNCHANGED vars
    BY <2>3 DEF Claim, Charge, vars, local, history, db, Promise!vars
  <2>4. CASE Tick
    BY <2>4 DEF Tick, local, history, db, Promise!Tick, Promise!Next
  <2> QED
    BY <2>1, <2>2, <2>3, <2>4 DEF Next, Environment
<1> QED
  BY <1>1, <1>2, OneWorkerKeeps, PTL DEF Spec, KeepsPromise
============================================================================
