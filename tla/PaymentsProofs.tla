--------------------------- MODULE PaymentsProofs ---------------------------
(***************************************************************************)
(* Proofs about Payments for every number of workers, janitors, events and *)
(* transactions, with killed processes and failing calls: the shape of the *)
(* state, that only full payments are granted a subscription, and what may *)
(* change a final status.  For one worker: that a refund revokes a reward. *)
(***************************************************************************)
EXTENDS Payments, TLAPS

\* The inductive invariant behind PaidForGrant: an activation under way, or left to a janitor, is
\* of a payment made in full, because the event that started it says so.  An invoice that is
\* paid, in full or in part, stays so.
ActivationLabels == {"activate", "renew", "create", "link", "flag", "complete", "give_up"}
RetriesPaid == \A t \in Txs : tx[t].retry => invoice[t] = "paid"
EventsPaid == \A e \in Events : Received(e) =>
  /\ event[e].type \in {"activated", "charged", "completed"} => invoice[event[e].tx] = "paid"
  /\ event[e].type \in {"underpaid", "wrong_currency"} => invoice[event[e].tx] = "short"
ActivationsPaid == \A p \in Processes :
  pc[p] \in ActivationLabels => invoice[job[p].tx] = "paid"
CurrencyMatches == \A w \in Workers :
  pc[w] \in {"update", "refetch"} => event[job[w].event].type # "wrong_currency"
PaidInv == PaidForGrant /\ RetriesPaid /\ EventsPaid /\ ActivationsPaid /\ CurrencyMatches

\* What a step may do to the events so that the rows already claimed stay queued ones.
EventsKept ==
  \A e \in Events : Received(e) => /\ event'[e].state # "absent"
                                   /\ event'[e].tx = event[e].tx
                                   /\ event'[e].type = event[e].type

\* The steps of a webhook worker change of an event at most how far it has got.
EventsSame ==
  \A e \in Events : /\ event'[e].tx = event[e].tx /\ event'[e].type = event[e].type
                   /\ Received(e) <=> event'[e].state # "absent"

\* What process p may hold when it is about to make the call `label'.
MayHold(p, label, rows, x) ==
  /\ p \in Workers => /\ label \in WorkerLabels
                      /\ \A y \in rows : Queued(y)
                      /\ label # "idle" => Queued(x)
                      /\ label = "update" => event[x.event].type # "unmapped"
  /\ p \in Janitors => /\ label \in JanitorLabels
                       /\ \A y \in rows : y.tx \in Txs
                       /\ label \notin {"idle", "stale", "retry"} => x.tx \in Txs

\* A process moves on: everybody's memory keeps its shape if its own does.
LEMMA ProcessMoves ==
  ASSUME MemoryOK, WorkersOK, JanitorsOK, EventsKept,
         NEW p \in Processes, NEW label, NEW rows \in SUBSET Job, NEW x \in Job,
         Goto(p, label), batch' = [batch EXCEPT ![p] = rows], job' = [job EXCEPT ![p] = x],
         MayHold(p, label, rows, x)
  PROVE  MemoryOK' /\ WorkersOK' /\ JanitorsOK'
<1>1. MemoryOK'
  BY DEF MemoryOK, Goto, MayHold, Processes
<1>2. ASSUME NEW q \in Processes
      PROVE  /\ pc'[q] = IF q = p THEN label ELSE pc[q]
             /\ batch'[q] = IF q = p THEN rows ELSE batch[q]
             /\ job'[q] = IF q = p THEN x ELSE job[q]
  BY DEF MemoryOK, Goto
<1>3. WorkersOK'
  <2> DEFINE QueuedNext(y) ==
        y.event \in Events /\ event'[y.event].state # "absent" /\ y.tx = event'[y.event].tx
  <2>1. ASSUME NEW w \in Workers
        PROVE  /\ pc'[w] \in WorkerLabels
               /\ \A y \in batch'[w] : QueuedNext(y)
               /\ pc'[w] # "idle" => QueuedNext(job'[w])
               /\ pc'[w] = "update" => event'[job'[w].event].type # "unmapped"
    <3>1. w \in Processes
      BY DEF Processes
    <3>2. \A y : Queued(y) => QueuedNext(y) /\ event'[y.event].type = event[y.event].type
      BY DEF Queued, Received, EventsKept
    <3>3. /\ pc[w] \in WorkerLabels
          /\ \A y \in batch[w] : Queued(y)
          /\ pc[w] # "idle" => Queued(job[w])
          /\ pc[w] = "update" => event[job[w].event].type # "unmapped"
      BY DEF WorkersOK
    <3>4. CASE w = p
      BY <1>2, <3>1, <3>2, <3>4 DEF MayHold
    <3>5. CASE w # p
      BY <1>2, <3>1, <3>2, <3>3, <3>5
    <3> QED
      BY <3>4, <3>5
  <2> QED
    BY <2>1 DEF WorkersOK, Queued, Received
<1>4. JanitorsOK'
  <2> SUFFICES ASSUME NEW j \in Janitors
               PROVE  /\ pc'[j] \in JanitorLabels
                      /\ \A y \in batch'[j] : y.tx \in Txs
                      /\ pc'[j] \notin {"idle", "stale", "retry"} => job'[j].tx \in Txs
    BY DEF JanitorsOK
  <2>1. j \in Processes
    BY DEF Processes
  <2> QED
    BY <1>2, <2>1 DEF JanitorsOK, MayHold
<1> QED
  BY <1>1, <1>3, <1>4

\* A step of the environment leaves the memory alone.
LEMMA MemoryStays ==
  ASSUME MemoryOK, WorkersOK, JanitorsOK, EventsKept, UNCHANGED memory
  PROVE  MemoryOK' /\ WorkersOK' /\ JanitorsOK'
BY DEF MemoryOK, WorkersOK, JanitorsOK, EventsKept, memory, Queued, Received

\* A process at work goes on with the same row.
LEMMA ProcessGoesOn ==
  ASSUME TypeOK, EventsKept, NEW p \in Processes, pc[p] \notin {"idle", "stale", "retry"},
         NEW label, p \in Workers => label \in WorkerLabels \ {"update"},
         p \in Janitors => label \in JanitorLabels,
         Goto(p, label), UNCHANGED <<batch, job>>
  PROVE  MemoryOK' /\ WorkersOK' /\ JanitorsOK'
<1>1. MayHold(p, label, batch[p], job[p])
  BY DEF TypeOK, WorkersOK, JanitorsOK, MayHold
<1>2. batch[p] \in SUBSET Job /\ job[p] \in Job
  BY DEF TypeOK, MemoryOK
<1>3. batch' = [batch EXCEPT ![p] = batch[p]] /\ job' = [job EXCEPT ![p] = job[p]]
  BY DEF TypeOK, MemoryOK
<1> QED
  BY <1>1, <1>2, <1>3, ProcessMoves DEF TypeOK

\* A process drops its row, and some of those it has not taken.
LEMMA ProcessDrops ==
  ASSUME TypeOK, EventsKept, NEW p \in Processes, NEW label \in {"idle", "stale", "retry"},
         p \in Workers => label = "idle", NEW rows \in SUBSET batch[p],
         DropJob(p, label), batch' = [batch EXCEPT ![p] = rows]
  PROVE  MemoryOK' /\ WorkersOK' /\ JanitorsOK'
<1>1. MayHold(p, label, rows, NoJob)
  BY DEF TypeOK, WorkersOK, JanitorsOK, MayHold, WorkerLabels, JanitorLabels
<1>2. rows \in SUBSET Job /\ NoJob \in Job
  BY DEF TypeOK, MemoryOK, NoJob, Job, Statuses, Tokens
<1> QED
  BY <1>1, <1>2, ProcessMoves DEF TypeOK, DropJob

\* A process takes a row of its batch.
LEMMA ProcessTakes ==
  ASSUME TypeOK, EventsKept, NEW p \in Processes, NEW y \in batch[p], NEW read \in Job,
         read.event = y.event, read.tx = y.tx, NEW label,
         p \in Workers => label \in WorkerLabels, p \in Janitors => label \in JanitorLabels,
         label = "update" => event[y.event].type # "unmapped",
         Take(p, y, read), Goto(p, label)
  PROVE  MemoryOK' /\ WorkersOK' /\ JanitorsOK'
<1>1. MayHold(p, label, batch[p] \ {y}, read)
  BY DEF TypeOK, WorkersOK, JanitorsOK, MayHold, Queued
<1>2. batch[p] \ {y} \in SUBSET Job
  BY DEF TypeOK, MemoryOK
<1> QED
  BY <1>1, <1>2, ProcessMoves DEF TypeOK, Take

\* Steps that leave the events alone.
LEMMA EventsStay ==
  ASSUME TypeOK, UNCHANGED <<provider, event>> PROVE EventsOK' /\ EventsSame /\ EventsKept
BY DEF TypeOK, EventsOK, EventsSame, EventsKept, Received

\* What a process at work holds.
LEMMA AtWork ==
  ASSUME TypeOK, NEW p \in Processes, pc[p] \notin {"idle", "stale", "retry"}
  PROVE  /\ job[p] \in Job /\ job[p].tx \in Txs
         /\ batch[p] \in SUBSET Job
         /\ MayHold(p, pc[p], batch[p], job[p])
         /\ p \in Workers => /\ job[p].event \in Events /\ Received(job[p].event)
                             /\ event[job[p].event].tx = job[p].tx
                             /\ event[job[p].event].type \in TypesOf(provider[job[p].tx])
                             /\ Queued(job[p])
BY DEF TypeOK, EventsOK, MemoryOK, WorkersOK, JanitorsOK, MayHold, Queued, Processes

\* A process is a worker or a janitor, not both.
LEMMA Distinct == \A p \in Processes : p \in Workers <=> p \notin Janitors
BY ConstantsAssumption DEF Processes

\* Updates keep the shape of payment_transactions.
LEMMA StatusTyped ==
  ASSUME tx \in [Txs -> TxRow], NEW t \in Txs, NEW expected, NEW status \in Statuses,
         SetStatus(t, expected, status)
  PROVE  tx' \in [Txs -> TxRow]
BY DEF SetStatus, TxRow

\* ... and so do writes of the metadata.
LEMMA MetadataTyped ==
  ASSUME tx \in [Txs -> TxRow], NEW t \in Txs, NEW retry \in BOOLEAN, NEW token \in Tokens,
         SetMetadata(t, retry, token)
  PROVE  tx' \in [Txs -> TxRow]
<1>1. tx[t] \in TxRow /\ tx[t].version + 1 \in Nat
  BY DEF TxRow
<1>2. [tx[t] EXCEPT !.retry = retry, !.token = token, !.version = tx[t].version + 1] \in TxRow
  BY <1>1 DEF TxRow
<1> QED
  BY <1>2 DEF SetMetadata

\* A call that fails is counted.
LEMMA FaultsTyped == ASSUME TypeOK, NEW p, Fault(p) PROVE faults' \in Nat
BY DEF TypeOK, TablesOK, Fault

\* The outcome of an event is written.
LEMMA EventWritten ==
  ASSUME TypeOK, NEW e \in Events, Received(e), NEW state \in {"queued", "processed", "dead"},
         NEW retries \in Nat, SetEvent(e, state, retries), UNCHANGED provider
  PROVE  event' \in [Events -> EventRow] /\ EventsSame /\ EventsOK' /\ EventsKept
<1>1. event[e] \in EventRow
  BY DEF TypeOK, TablesOK
<1>2. [event[e] EXCEPT !.state = state, !.retries = retries] \in EventRow
  BY <1>1 DEF EventRow
<1>3. event' \in [Events -> EventRow]
  BY <1>2 DEF SetEvent, TypeOK, TablesOK
<1>4. ASSUME NEW d \in Events
      PROVE  /\ event'[d].tx = event[d].tx /\ event'[d].type = event[d].type
             /\ Received(d) <=> event'[d].state # "absent"
  <2>1. CASE d = e
    BY <1>1, <1>2, <2>1 DEF SetEvent, EventRow, Received, TypeOK, TablesOK
  <2>2. CASE d # e
    BY <2>2 DEF SetEvent, Received, TypeOK, TablesOK
  <2> QED
    BY <2>1, <2>2
<1> QED
  BY <1>3, <1>4 DEF TypeOK, EventsOK, EventsSame, EventsKept, Received

\* Claiming an event changes neither its transaction nor its type.
LEMMA ClaimKeeps ==
  ASSUME TypeOK, NEW w \in Workers, Claim(w)
  PROVE  event' \in [Events -> EventRow] /\ EventsSame /\ EventsOK' /\ EventsKept
<1> PICK claimed \in SUBSET {e \in Events : Ready(e)} :
      event' = [e \in Events |-> IF e \in claimed THEN [event[e] EXCEPT !.state = "claimed"]
                                 ELSE event[e]]
  BY DEF Claim
<1>1. ASSUME NEW e \in Events
      PROVE  /\ event'[e] \in EventRow
             /\ event'[e].tx = event[e].tx /\ event'[e].type = event[e].type
             /\ Received(e) <=> event'[e].state # "absent"
  <2>1. event[e] \in EventRow
    BY DEF TypeOK, TablesOK
  <2> QED
    BY <2>1 DEF EventRow, Received, Ready
<1> QED
  BY <1>1 DEF Claim, TypeOK, EventsOK, EventsSame, EventsKept, Received

\* The outcome of an event changes neither its transaction nor its type.
LEMMA OutcomeKeeps ==
  ASSUME TypeOK, NEW w \in Workers, MarkProcessed(w) \/ RecordFailure(w)
  PROVE  event' \in [Events -> EventRow] /\ EventsSame /\ EventsOK' /\ EventsKept
<1>1. /\ job[w].event \in Events /\ Received(job[w].event) /\ job[w].retries \in Nat
      /\ event[job[w].event] \in EventRow
  <2>1. w \in Processes
    BY DEF Processes
  <2> QED
    BY <2>1, AtWork DEF MarkProcessed, RecordFailure, Job, TypeOK, TablesOK
<1>2. UNCHANGED provider
  BY DEF MarkProcessed, RecordFailure
<1>3. CASE UNCHANGED event
  BY <1>2, <1>3, EventsStay DEF TypeOK, TablesOK
<1>4. CASE event' # event
  <2>1. PICK state \in {"queued", "processed", "dead"},
             retries \in {event[job[w].event].retries, job[w].retries + 1} :
          SetEvent(job[w].event, state, retries)
    BY <1>4 DEF MarkProcessed, RecordFailure
  <2>2. retries \in Nat
    BY <1>1 DEF EventRow
  <2> QED
    BY <1>1, <1>2, <2>1, <2>2, EventWritten
<1> QED
  BY <1>3, <1>4

\* The rows a janitor fetches.
LEMMA RowsTyped ==
  ASSUME TypeOK, NEW ts \in SUBSET Txs
  PROVE  Rows(ts) \in SUBSET Job /\ \A x \in Rows(ts) : x.tx \in Txs
<1>1. ASSUME NEW t \in ts
      PROVE  LET x == [NoJob EXCEPT !.tx = t, !.linked = tx[t].linked, !.version = tx[t].version,
                                    !.token = tx[t].token]
             IN  x \in Job /\ x.tx \in Txs
  <2>1. tx[t] \in TxRow
    BY DEF TypeOK, TablesOK
  <2> QED
    BY <2>1 DEF NoJob, Job, TxRow, Statuses
<1> QED
  BY <1>1 DEF Rows

\* A status that is written is one of the statuses.
LEMMA Written ==
  ASSUME TypeOK, NEW w \in Workers, pc[w] = "update",
         Admits(job[w].tx, job[w].status, event[job[w].event].type)
  PROVE  StateOf(event[job[w].event].type) \in Statuses
BY AtWork DEF TypeOK, WorkersOK, Processes, Types, TypesOf, StateOf, Statuses, Active, Final

\* Every step keeps the shape of the state.
LEMMA TypeStep == ASSUME TypeOK, [Next]_vars PROVE TypeOK'
<1>1. ASSUME NEW w \in Workers, Claim(w) PROVE TypeOK'
  <2> PICK claimed \in SUBSET {e \in Events : Ready(e)} :
        /\ batch' = [batch EXCEPT ![w] =
             {[NoJob EXCEPT !.event = e, !.tx = event[e].tx, !.retries = event[e].retries] :
                e \in claimed}]
        /\ event' = [e \in Events |-> IF e \in claimed
                                      THEN [event[e] EXCEPT !.state = "claimed"]
                                      ELSE event[e]]
    BY <1>1 DEF Claim
  <2> DEFINE rows == {[NoJob EXCEPT !.event = e, !.tx = event[e].tx,
                                    !.retries = event[e].retries] : e \in claimed}
  <2>1. event' \in [Events -> EventRow] /\ EventsOK' /\ EventsKept
    BY <1>1, ClaimKeeps
  <2>2. TablesOK'
    BY <1>1, <2>1 DEF Claim, TypeOK, TablesOK, history, bounds
  <2>3. ASSUME NEW e \in claimed
        PROVE  LET y == [NoJob EXCEPT !.event = e, !.tx = event[e].tx,
                                      !.retries = event[e].retries]
               IN  y \in Job /\ Queued(y)
    <3>1. event[e] \in EventRow /\ Received(e)
      BY DEF TypeOK, TablesOK, Ready, Received
    <3> QED
      BY <3>1 DEF NoJob, Job, EventRow, Queued, Statuses, Tokens
  <2>4. rows \in SUBSET Job /\ \A y \in rows : Queued(y)
    BY <2>3
  <2>5. w \in Processes /\ w \notin Janitors
    BY ConstantsAssumption DEF Processes
  <2>6. Goto(w, "idle") /\ job' = [job EXCEPT ![w] = job[w]] /\ job[w] \in Job
    BY <1>1, <2>5 DEF Claim, Goto, TypeOK, MemoryOK
  <2>7. MayHold(w, "idle", rows, job[w])
    BY <2>4, <2>5 DEF MayHold, WorkerLabels
  <2>8. batch' = [batch EXCEPT ![w] = rows]
    OBVIOUS
  <2> HIDE DEF rows
  <2>9. MemoryOK' /\ WorkersOK' /\ JanitorsOK'
    BY <2>1, <2>4, <2>5, <2>6, <2>7, <2>8, ProcessMoves DEF TypeOK
  <2> QED
    BY <2>1, <2>2, <2>9 DEF TypeOK
<1>2. ASSUME NEW w \in Workers, Lookup(w) PROVE TypeOK'
  <2>1. PICK x \in batch[w] :
          \E label \in {"done", "fail", "update"} :
            \E read \in {x, [x EXCEPT !.status = tx[x.tx].status, !.linked = tx[x.tx].linked,
                                      !.token = tx[x.tx].token]} :
              /\ label = "update" => event[x.event].type # "unmapped"
              /\ Take(w, x, read) /\ Goto(w, label)
    BY <1>2 DEF Lookup, WrongCurrency
  <2>2. w \in Processes /\ w \notin Janitors
    BY ConstantsAssumption DEF Processes
  <2>3. x \in Job /\ Queued(x)
    BY <2>2 DEF TypeOK, MemoryOK, WorkersOK
  <2>4. tx[x.tx] \in TxRow
    BY <2>3 DEF Queued, TypeOK, EventsOK, TablesOK
  <2>5. [x EXCEPT !.status = tx[x.tx].status, !.linked = tx[x.tx].linked,
                  !.token = tx[x.tx].token] \in Job
    BY <2>3, <2>4 DEF Job, TxRow
  <2>6. EventsOK' /\ EventsKept
    BY <1>2, EventsStay DEF Lookup
  <2>7. PICK label \in {"done", "fail", "update"}, read \in Job :
          /\ label = "update" => event[x.event].type # "unmapped"
          /\ read.event = x.event /\ read.tx = x.tx /\ Take(w, x, read) /\ Goto(w, label)
    BY <2>1, <2>3, <2>5 DEF Job
  <2>8. MemoryOK' /\ WorkersOK' /\ JanitorsOK'
    BY <2>2, <2>6, <2>7, ProcessTakes DEF WorkerLabels
  <2>9. TablesOK'
    BY <1>2, ConstantsAssumption DEF Lookup, TypeOK, TablesOK, history, Fault
  <2> QED
    BY <2>6, <2>8, <2>9 DEF TypeOK
<1>3. ASSUME NEW w \in Workers, Update(w) PROVE TypeOK'
  <2>1. w \in Processes /\ w \notin Janitors
    BY ConstantsAssumption DEF Processes
  <2>2. PICK label \in {"done", "refetch", "fail"} : Goto(w, label)
    BY <1>3 DEF Update
  <2>3. EventsOK' /\ EventsKept
    BY <1>3, EventsStay DEF Update
  <2>4. MemoryOK' /\ WorkersOK' /\ JanitorsOK'
    BY <1>3, <2>1, <2>2, <2>3, ProcessGoesOn DEF Update, WorkerLabels
  <2>5. TablesOK'
    <3>1. CASE UNCHANGED tx
      BY <1>3, <3>1, ConstantsAssumption DEF Update, TypeOK, TablesOK, history, Fault
    <3>2. CASE tx' # tx
      <4>1. job[w].tx \in Txs /\ pc[w] = "update"
        BY <1>3, <2>1, AtWork DEF Update
      <4> DEFINE status == StateOf(event[job[w].event].type)
      <4>2. /\ SetStatus(job[w].tx, {job[w].status}, status)
            /\ Admits(job[w].tx, job[w].status, event[job[w].event].type)
        BY <1>3, <3>2 DEF Update
      <4>3. status \in Statuses
        BY <4>1, <4>2, Written
      <4>4. tx' \in [Txs -> TxRow]
        BY <4>1, <4>2, <4>3, StatusTyped DEF TypeOK, TablesOK
      <4> QED
        BY <1>3, <4>4, ConstantsAssumption DEF Update, TypeOK, TablesOK, history, Fault
    <3> QED
      BY <3>1, <3>2
  <2> QED
    BY <2>3, <2>4, <2>5 DEF TypeOK
<1>4. ASSUME NEW w \in Workers, Refetch(w) PROVE TypeOK'
  <2>1. w \in Processes /\ w \notin Janitors
    BY ConstantsAssumption DEF Processes
  <2>2. PICK label \in {"done", "activate", "revoke", "evaluate", "fail"} : Goto(w, label)
    BY <1>4 DEF Refetch, Effect, Underpaid
  <2>3. EventsOK' /\ EventsKept
    BY <1>4, EventsStay DEF Refetch
  <2>4. MemoryOK' /\ WorkersOK' /\ JanitorsOK'
    BY <1>4, <2>1, <2>2, <2>3, ProcessGoesOn DEF Refetch, WorkerLabels
  <2>5. TablesOK'
    BY <1>4, ConstantsAssumption DEF Refetch, TypeOK, TablesOK, history, bounds, Fault
  <2> QED
    BY <2>3, <2>4, <2>5 DEF TypeOK
<1>5. ASSUME NEW w \in Workers, CheckActive(w) PROVE TypeOK'
  <2>1. w \in Processes /\ w \notin Janitors
    BY ConstantsAssumption DEF Processes
  <2>2. PICK label \in {"evaluate", "renew", "create", "fail"} : Goto(w, label)
    BY <1>5 DEF CheckActive, Activation
  <2>3. EventsOK' /\ EventsKept
    BY <1>5, EventsStay DEF CheckActive
  <2>4. MemoryOK' /\ WorkersOK' /\ JanitorsOK'
    BY <1>5, <2>1, <2>2, <2>3, ProcessGoesOn DEF CheckActive, WorkerLabels
  <2>5. TablesOK'
    BY <1>5, ConstantsAssumption DEF CheckActive, TypeOK, TablesOK, history, bounds, Fault
  <2> QED
    BY <2>3, <2>4, <2>5 DEF TypeOK
<1>6. ASSUME NEW p \in Processes, Renew(p) PROVE TypeOK'
  <2>1. p \in Workers <=> p \notin Janitors
    BY Distinct
  <2>2. PICK label \in IF p \in Workers THEN {"evaluate", "flag"} ELSE {"complete", "give_up"} : Goto(p, label)
    BY <1>6, <2>1 DEF Renew, OnError, OnSuccess
  <2>3. EventsOK' /\ EventsKept
    BY <1>6, EventsStay DEF Renew
  <2>4. MemoryOK' /\ WorkersOK' /\ JanitorsOK'
    BY <1>6, <2>1, <2>2, <2>3, ProcessGoesOn DEF Renew, WorkerLabels, JanitorLabels
  <2>5. TablesOK'
    <3>1. job[p].tx \in Txs
      BY <1>6, <2>1, AtWork DEF Renew, Processes
    <3>2. tx \in [Txs -> TxRow] /\ tx[job[p].tx] \in TxRow
      BY <3>1 DEF TypeOK, TablesOK
    <3>3. [tx[job[p].tx] EXCEPT !.active = TRUE] \in TxRow
      BY <3>2 DEF TxRow
    <3>4. tx' = [tx EXCEPT ![job[p].tx] = [tx[job[p].tx] EXCEPT !.active = TRUE]] \/ tx' = tx
      BY <1>6 DEF Renew
    <3>5. tx' \in [Txs -> TxRow]
      BY <3>1, <3>2, <3>3, <3>4
    <3> QED
      BY <1>6, <3>1, <3>5, ConstantsAssumption DEF Renew, TypeOK, TablesOK, history, Fault
  <2> QED
    BY <2>3, <2>4, <2>5 DEF TypeOK
<1>7. ASSUME NEW p \in Processes, Create(p) PROVE TypeOK'
  <2>1. p \in Workers <=> p \notin Janitors
    BY Distinct
  <2>2. PICK label \in IF p \in Workers THEN {"link", "flag"} ELSE {"link", "give_up"} : Goto(p, label)
    BY <1>7, <2>1 DEF Create, OnError
  <2>3. EventsOK' /\ EventsKept
    BY <1>7, EventsStay DEF Create
  <2>4. MemoryOK' /\ WorkersOK' /\ JanitorsOK'
    BY <1>7, <2>1, <2>2, <2>3, ProcessGoesOn DEF Create, WorkerLabels, JanitorLabels
  <2>5. TablesOK'
    <3>1. job[p].tx \in Txs
      BY <1>7, <2>1, AtWork DEF Create, Processes
    <3> QED
      BY <1>7, <3>1, ConstantsAssumption DEF Create, TypeOK, TablesOK, Fault
  <2> QED
    BY <2>3, <2>4, <2>5 DEF TypeOK
<1>8. ASSUME NEW p \in Processes, Link(p) PROVE TypeOK'
  <2>1. p \in Workers <=> p \notin Janitors
    BY Distinct
  <2>2. PICK label \in IF p \in Workers THEN {"evaluate", "flag"} ELSE {"complete", "give_up"} : Goto(p, label)
    BY <1>8, <2>1 DEF Link, OnError, OnSuccess
  <2>3. EventsOK' /\ EventsKept
    BY <1>8, EventsStay DEF Link
  <2>4. MemoryOK' /\ WorkersOK' /\ JanitorsOK'
    BY <1>8, <2>1, <2>2, <2>3, ProcessGoesOn DEF Link, WorkerLabels, JanitorLabels
  <2>5. TablesOK'
    <3>1. job[p].tx \in Txs /\ tx[job[p].tx] \in TxRow
      BY <1>8, <2>1, AtWork DEF Link, Processes, TypeOK, TablesOK
    <3>2. [tx[job[p].tx] EXCEPT !.linked = TRUE, !.active = TRUE] \in TxRow
      BY <3>1 DEF TxRow
    <3>3. \/ UNCHANGED tx
          \/ tx' = [tx EXCEPT ![job[p].tx] = [tx[job[p].tx] EXCEPT !.linked = TRUE, !.active = TRUE]]
      BY <1>8, <3>1 DEF Link, TypeOK, TablesOK
    <3>4. tx' \in [Txs -> TxRow]
      BY <3>1, <3>2, <3>3 DEF TypeOK, TablesOK
    <3> QED
      BY <1>8, <3>1, <3>4, ConstantsAssumption DEF Link, TypeOK, TablesOK, history, Fault
  <2> QED
    BY <2>3, <2>4, <2>5 DEF TypeOK
<1>9. ASSUME NEW w \in Workers, Flag(w) PROVE TypeOK'
  <2>1. w \in Processes /\ w \notin Janitors
    BY ConstantsAssumption DEF Processes
  <2>2. PICK label \in {"evaluate", "fail"} : Goto(w, label)
    BY <1>9 DEF Flag
  <2>3. EventsOK' /\ EventsKept
    BY <1>9, EventsStay DEF Flag
  <2>4. MemoryOK' /\ WorkersOK' /\ JanitorsOK'
    BY <1>9, <2>1, <2>2, <2>3, ProcessGoesOn DEF Flag, WorkerLabels
  <2>5. TablesOK'
    <3>1. job[w].tx \in Txs /\ job[w].token \in Tokens
      BY <1>9, <2>1, AtWork DEF Flag, Job
    <3>2. tx' \in [Txs -> TxRow]
      BY <1>9, <3>1, MetadataTyped DEF Flag, TypeOK, TablesOK
    <3> QED
      BY <1>9, <3>2, FaultsTyped DEF Flag, TypeOK, TablesOK, history
  <2> QED
    BY <2>3, <2>4, <2>5 DEF TypeOK
<1>10. ASSUME NEW w \in Workers, Evaluate(w) PROVE TypeOK'
  <2>1. w \in Processes /\ w \notin Janitors
    BY ConstantsAssumption DEF Processes
  <2>2. PICK label \in {"done"} : Goto(w, label)
    BY <1>10 DEF Evaluate
  <2>3. EventsOK' /\ EventsKept
    BY <1>10, EventsStay DEF Evaluate
  <2>4. MemoryOK' /\ WorkersOK' /\ JanitorsOK'
    BY <1>10, <2>1, <2>2, <2>3, ProcessGoesOn DEF Evaluate, WorkerLabels
  <2>5. TablesOK'
    <3>1. PICK t \in {job[w].tx} : reward' = [reward EXCEPT ![t] = "on_hold"] \/ reward' = reward
      BY <1>10 DEF Evaluate
    <3>2. reward' \in [Txs -> Rewards]
      BY <3>1 DEF TypeOK, TablesOK, Rewards
    <3>3. faults' \in Nat
      BY <1>10, ConstantsAssumption DEF Evaluate, TypeOK, TablesOK, Fault
    <3> QED
      BY <1>10, <3>2, <3>3 DEF Evaluate, TypeOK, TablesOK, history
  <2> QED
    BY <2>3, <2>4, <2>5 DEF TypeOK
<1>29. ASSUME NEW w \in Workers, ReadReward(w) PROVE TypeOK'
  <2>1. w \in Processes /\ w \notin Janitors
    BY ConstantsAssumption DEF Processes
  <2>2. PICK label \in {"done", "take_back"} : Goto(w, label)
    BY <1>29 DEF ReadReward
  <2>3. EventsOK' /\ EventsKept
    BY <1>29, EventsStay DEF ReadReward
  <2>4. MemoryOK' /\ WorkersOK' /\ JanitorsOK'
    BY <1>29, <2>1, <2>2, <2>3, ProcessGoesOn DEF ReadReward, WorkerLabels
  <2>5. TablesOK'
    BY <1>29, ConstantsAssumption DEF ReadReward, TypeOK, TablesOK, history, Fault
  <2> QED
    BY <2>3, <2>4, <2>5 DEF TypeOK
<1>11. ASSUME NEW w \in Workers, Revoke(w) PROVE TypeOK'
  <2>1. w \in Processes /\ w \notin Janitors
    BY ConstantsAssumption DEF Processes
  <2>2. PICK label \in {"done"} : Goto(w, label)
    BY <1>11 DEF Revoke
  <2>3. EventsOK' /\ EventsKept
    BY <1>11, EventsStay DEF Revoke
  <2>4. MemoryOK' /\ WorkersOK' /\ JanitorsOK'
    BY <1>11, <2>1, <2>2, <2>3, ProcessGoesOn DEF Revoke, WorkerLabels
  <2>5. TablesOK'
    <3>1. /\ reward' \in [Txs -> Rewards]
          /\ faults' \in Nat
      BY <1>11, ConstantsAssumption DEF Revoke, TypeOK, TablesOK, Rewards, Fault
    <3> QED
      BY <1>11, <3>1 DEF Revoke, TypeOK, TablesOK, history
  <2> QED
    BY <2>3, <2>4, <2>5 DEF TypeOK
<1>12. ASSUME NEW w \in Workers, MarkProcessed(w) PROVE TypeOK'
  <2>1. w \in Processes /\ w \notin Janitors
    BY ConstantsAssumption DEF Processes
  <2>5. event' \in [Events -> EventRow] /\ EventsOK' /\ EventsKept
    BY <1>12, OutcomeKeeps
  <2>6. batch[w] \in SUBSET batch[w] /\ batch' = [batch EXCEPT ![w] = batch[w]]
    BY <1>12 DEF MarkProcessed, TypeOK, MemoryOK
  <2>7. ASSUME DropJob(w, "idle") PROVE MemoryOK' /\ WorkersOK' /\ JanitorsOK'
    BY <2>1, <2>5, <2>6, <2>7, ProcessDrops
  <2>8. ASSUME Goto(w, "fail"), UNCHANGED job PROVE MemoryOK' /\ WorkersOK' /\ JanitorsOK'
    BY <1>12, <2>1, <2>5, <2>8, ProcessGoesOn DEF MarkProcessed, WorkerLabels
  <2>9. MemoryOK' /\ WorkersOK' /\ JanitorsOK'
    BY <1>12, <2>7, <2>8 DEF MarkProcessed
  <2>10. TablesOK'
    BY <1>12, <2>5, ConstantsAssumption DEF MarkProcessed, TypeOK, TablesOK, history, Fault
  <2> QED
    BY <2>5, <2>9, <2>10 DEF TypeOK
<1>13. ASSUME NEW w \in Workers, RecordFailure(w) PROVE TypeOK'
  <2>1. w \in Processes /\ w \notin Janitors
    BY ConstantsAssumption DEF Processes
  <2>5. event' \in [Events -> EventRow] /\ EventsOK' /\ EventsKept
    BY <1>13, OutcomeKeeps
  <2>6. batch[w] \in SUBSET batch[w] /\ batch' = [batch EXCEPT ![w] = batch[w]]
    BY <1>13 DEF RecordFailure, TypeOK, MemoryOK
  <2>7. DropJob(w, "idle")
    BY <1>13 DEF RecordFailure
  <2>8. MemoryOK' /\ WorkersOK' /\ JanitorsOK'
    BY <2>1, <2>5, <2>6, <2>7, ProcessDrops
  <2>9. TablesOK'
    BY <1>13, <2>5, ConstantsAssumption DEF RecordFailure, TypeOK, TablesOK, history, Fault
  <2> QED
    BY <2>5, <2>8, <2>9 DEF TypeOK
<1>14. ASSUME NEW j \in Janitors, StaleRead(j) PROVE TypeOK'
  <2> PICK old \in SUBSET Txs : batch' = [batch EXCEPT ![j] = Rows(old)]
    BY <1>14 DEF StaleRead
  <2>1. j \in Processes /\ j \notin Workers
    BY ConstantsAssumption DEF Processes
  <2>2. EventsOK' /\ EventsKept
    BY <1>14, EventsStay DEF StaleRead
  <2>3. Rows(old) \in SUBSET Job /\ \A x \in Rows(old) : x.tx \in Txs
    BY RowsTyped
  <2>4. job' = [job EXCEPT ![j] = job[j]] /\ job[j] \in Job
    BY <1>14, <2>1 DEF StaleRead, TypeOK, MemoryOK
  <2>5. Goto(j, "stale") /\ MayHold(j, "stale", Rows(old), job[j])
    BY <1>14, <2>1, <2>3 DEF StaleRead, MayHold, JanitorLabels
  <2>6. MemoryOK' /\ WorkersOK' /\ JanitorsOK'
    BY <2>1, <2>2, <2>3, <2>4, <2>5, ProcessMoves DEF TypeOK
  <2>7. TablesOK'
    BY <1>14 DEF StaleRead, TypeOK, TablesOK, history, bounds
  <2> QED
    BY <2>2, <2>6, <2>7 DEF TypeOK
<1>15. ASSUME NEW j \in Janitors, RetryRead(j) PROVE TypeOK'
  <2> PICK old \in SUBSET Txs : batch' = [batch EXCEPT ![j] = Rows(old)]
    BY <1>15 DEF RetryRead
  <2>1. j \in Processes /\ j \notin Workers
    BY ConstantsAssumption DEF Processes
  <2>2. EventsOK' /\ EventsKept
    BY <1>15, EventsStay DEF RetryRead
  <2>3. Rows(old) \in SUBSET Job /\ \A x \in Rows(old) : x.tx \in Txs
    BY RowsTyped
  <2>4. job' = [job EXCEPT ![j] = job[j]] /\ job[j] \in Job
    BY <1>15, <2>1 DEF RetryRead, TypeOK, MemoryOK
  <2>5. Goto(j, "retry") /\ MayHold(j, "retry", Rows(old), job[j])
    BY <1>15, <2>1, <2>3 DEF RetryRead, MayHold, JanitorLabels
  <2>6. MemoryOK' /\ WorkersOK' /\ JanitorsOK'
    BY <2>1, <2>2, <2>3, <2>4, <2>5, ProcessMoves DEF TypeOK
  <2>7. TablesOK'
    BY <1>15 DEF RetryRead, TypeOK, TablesOK, history, bounds
  <2> QED
    BY <2>2, <2>6, <2>7 DEF TypeOK
<1>16. ASSUME NEW j \in Janitors, Resolve(j) PROVE TypeOK'
  <2>1. j \in Processes /\ j \notin Workers
    BY ConstantsAssumption DEF Processes
  <2>2. PICK x \in batch[j], status \in {"succeeded", "cancelled", "failed", "expired"} :
          /\ Take(j, x, [x EXCEPT !.status = status])
          /\ invoice' \in {invoice, [invoice EXCEPT ![x.tx] = "dead"]}
          /\ faults' = faults \/ Fault(j)
    <3>1. ASSUME NEW t PROVE Reported(t) \subseteq {"succeeded", "cancelled", "failed", "expired"}
      BY DEF Reported
    <3> QED
      BY <1>16, <3>1 DEF Resolve, CancelAtProvider
  <2>3. x \in Job /\ x.tx \in Txs
    BY <2>1 DEF TypeOK, MemoryOK, JanitorsOK
  <2>4. [x EXCEPT !.status = status] \in Job
    BY <2>3 DEF Job, Statuses, Active, Final
  <2>5. EventsOK' /\ EventsKept
    BY <1>16, EventsStay DEF Resolve
  <2>6. PICK read \in Job : read.event = x.event /\ read.tx = x.tx /\ Take(j, x, read)
    BY <2>2, <2>3, <2>4 DEF Job
  <2>7. MemoryOK' /\ WorkersOK' /\ JanitorsOK'
    BY <1>16, <2>1, <2>5, <2>6, ProcessTakes DEF Resolve, JanitorLabels
  <2>8. TablesOK'
    BY <1>16, <2>2, <2>3, ConstantsAssumption DEF Resolve, TypeOK, TablesOK, history, Fault
  <2> QED
    BY <2>5, <2>7, <2>8 DEF TypeOK
<1>17. ASSUME NEW j \in Janitors, Settle(j) PROVE TypeOK'
  <2>1. j \in Processes /\ j \notin Workers
    BY ConstantsAssumption DEF Processes
  <2>2. job[j].tx \in Txs /\ job[j] \in Job
    BY <1>17, <2>1, AtWork DEF Settle
  <2>3. EventsOK' /\ EventsKept
    BY <1>17, EventsStay DEF Settle
  <2>4. tx' \in [Txs -> TxRow]
    <3>1. CASE UNCHANGED tx
      BY <3>1 DEF TypeOK, TablesOK
    <3>2. CASE SetStatus(job[j].tx, Active, job[j].status)
      <4>1. job[j].status \in Statuses
        BY <2>2 DEF Job
      <4> QED
        BY <2>2, <3>2, <4>1, StatusTyped DEF TypeOK, TablesOK
    <3> QED
      BY <1>17, <3>1, <3>2 DEF Settle
  <2>5. TablesOK'
    BY <1>17, <2>2, <2>4, FaultsTyped DEF Settle, TypeOK, TablesOK
  <2>6. batch = [batch EXCEPT ![j] = batch[j]]
    BY DEF TypeOK, MemoryOK
  <2>7. ASSUME NextOf(j, "stale"), UNCHANGED batch PROVE MemoryOK' /\ WorkersOK' /\ JanitorsOK'
    <3>1. PICK next \in {"idle", "stale"} : DropJob(j, next)
      BY <2>7 DEF NextOf
    <3> QED
      BY <2>1, <2>3, <2>6, <2>7, <3>1, ProcessDrops
  <2>8. ASSUME EndTick(j) PROVE MemoryOK' /\ WorkersOK' /\ JanitorsOK'
    BY <2>1, <2>3, <2>8, ProcessDrops DEF EndTick
  <2>9. MemoryOK' /\ WorkersOK' /\ JanitorsOK'
    BY <1>17, <2>7, <2>8 DEF Settle
  <2> QED
    BY <2>3, <2>5, <2>9 DEF TypeOK
<1>18. ASSUME NEW j \in Janitors, RetryClaim(j) PROVE TypeOK'
  <2> PICK x \in batch[j] :
        LET row == tx[x.tx]
            claimable == row.status = "succeeded" /\ row.retry /\ row.version = x.version
        IN  \/ /\ claimable /\ SetMetadata(x.tx, TRUE, j)
               /\ Take(j, x, x) /\ Goto(j, Activation(x)) /\ UNCHANGED faults
            \/ /\ ~claimable /\ batch' = [batch EXCEPT ![j] = @ \ {x}]
               /\ Goto(j, IF batch[j] = {x} THEN "idle" ELSE "retry")
               /\ UNCHANGED <<tx, job, faults>>
            \/ /\ Fault(j) /\ EndTick(j)
               /\ (claimable /\ SetMetadata(x.tx, TRUE, j)) \/ UNCHANGED tx
    BY <1>18 DEF RetryClaim
  <2>1. j \in Processes /\ j \notin Workers
    BY ConstantsAssumption DEF Processes
  <2>2. x.tx \in Txs /\ x \in Job
    BY <2>1 DEF TypeOK, MemoryOK, JanitorsOK
  <2>3. EventsOK' /\ EventsKept
    BY <1>18, EventsStay DEF RetryClaim
  <2>4. tx' \in [Txs -> TxRow]
    <3>1. CASE UNCHANGED tx
      BY <3>1 DEF TypeOK, TablesOK
    <3>2. CASE SetMetadata(x.tx, TRUE, j)
      BY <2>2, <3>2, MetadataTyped DEF TypeOK, TablesOK, Tokens
    <3> QED
      BY <3>1, <3>2
  <2>5. TablesOK'
    BY <1>18, <2>4, FaultsTyped DEF RetryClaim, TypeOK, TablesOK, history
  <2>6. ASSUME Take(j, x, x), Goto(j, Activation(x)) PROVE MemoryOK' /\ WorkersOK' /\ JanitorsOK'
    BY <2>1, <2>2, <2>3, <2>6, ProcessTakes DEF Activation, JanitorLabels
  <2>7. ASSUME batch' = [batch EXCEPT ![j] = @ \ {x}], UNCHANGED job,
               \E label \in {"idle", "retry"} : Goto(j, label)
        PROVE  MemoryOK' /\ WorkersOK' /\ JanitorsOK'
    <3>1. PICK label \in {"idle", "retry"} : Goto(j, label)
      BY <2>7
    <3>2. batch' = [batch EXCEPT ![j] = batch[j] \ {x}] /\ batch[j] \ {x} \in SUBSET Job
      BY <2>1, <2>7 DEF TypeOK, MemoryOK
    <3>3. job' = [job EXCEPT ![j] = job[j]] /\ job[j] \in Job
      BY <2>1, <2>7 DEF TypeOK, MemoryOK
    <3>4. MayHold(j, label, batch[j] \ {x}, job[j])
      BY <2>1 DEF MayHold, JanitorLabels, TypeOK, JanitorsOK
    <3> QED
      BY <2>1, <2>3, <3>1, <3>2, <3>3, <3>4, ProcessMoves DEF TypeOK
  <2>8. ASSUME EndTick(j) PROVE MemoryOK' /\ WorkersOK' /\ JanitorsOK'
    BY <2>1, <2>3, <2>8, ProcessDrops DEF EndTick
  <2>9. MemoryOK' /\ WorkersOK' /\ JanitorsOK'
    BY <2>6, <2>7, <2>8
  <2> QED
    BY <2>3, <2>5, <2>9 DEF TypeOK
<1>19. ASSUME NEW j \in Janitors, Complete(j) PROVE TypeOK'
  <2>1. j \in Processes /\ j \notin Workers
    BY ConstantsAssumption DEF Processes
  <2>2. job[j].tx \in Txs /\ job[j] \in Job
    BY <1>19, <2>1, AtWork DEF Complete
  <2>3. EventsOK' /\ EventsKept
    BY <1>19, EventsStay DEF Complete
  <2>4. tx' \in [Txs -> TxRow]
    <3>1. CASE UNCHANGED tx
      BY <3>1 DEF TypeOK, TablesOK
    <3>2. CASE SetMetadata(job[j].tx, FALSE, None)
      BY <2>2, <3>2, MetadataTyped DEF TypeOK, TablesOK, Tokens
    <3> QED
      BY <1>19, <3>1, <3>2 DEF Complete
  <2>5. TablesOK'
    BY <1>19, <2>2, <2>4, FaultsTyped DEF Complete, TypeOK, TablesOK, history
  <2>6. batch = [batch EXCEPT ![j] = batch[j]]
    BY DEF TypeOK, MemoryOK
  <2>7. ASSUME NextOf(j, "retry") PROVE MemoryOK' /\ WorkersOK' /\ JanitorsOK'
    <3>1. PICK next \in {"idle", "retry"} : DropJob(j, next)
      BY <2>7 DEF NextOf
    <3> QED
      BY <1>19, <2>1, <2>3, <2>6, <3>1, ProcessDrops DEF Complete
  <2>8. ASSUME Goto(j, "give_up"), UNCHANGED job PROVE MemoryOK' /\ WorkersOK' /\ JanitorsOK'
    BY <1>19, <2>1, <2>3, <2>8, ProcessGoesOn DEF Complete, JanitorLabels
  <2>9. MemoryOK' /\ WorkersOK' /\ JanitorsOK'
    BY <1>19, <2>7, <2>8 DEF Complete
  <2> QED
    BY <2>3, <2>5, <2>9 DEF TypeOK
<1>20. ASSUME NEW j \in Janitors, GiveUp(j) PROVE TypeOK'
  <2>1. j \in Processes /\ j \notin Workers
    BY ConstantsAssumption DEF Processes
  <2>2. job[j].tx \in Txs /\ job[j] \in Job
    BY <1>20, <2>1, AtWork DEF GiveUp
  <2>3. EventsOK' /\ EventsKept
    BY <1>20, EventsStay DEF GiveUp
  <2>4. tx' \in [Txs -> TxRow]
    <3>1. CASE UNCHANGED tx
      BY <3>1 DEF TypeOK, TablesOK
    <3>2. CASE SetMetadata(job[j].tx, TRUE, None)
      BY <2>2, <3>2, MetadataTyped DEF TypeOK, TablesOK, Tokens
    <3> QED
      BY <1>20, <3>1, <3>2 DEF GiveUp
  <2>5. TablesOK'
    BY <1>20, <2>2, <2>4, FaultsTyped DEF GiveUp, TypeOK, TablesOK, history
  <2>6. batch = [batch EXCEPT ![j] = batch[j]]
    BY DEF TypeOK, MemoryOK
  <2>7. ASSUME NextOf(j, "retry"), UNCHANGED batch PROVE MemoryOK' /\ WorkersOK' /\ JanitorsOK'
    <3>1. PICK next \in {"idle", "retry"} : DropJob(j, next)
      BY <2>7 DEF NextOf
    <3> QED
      BY <2>1, <2>3, <2>6, <2>7, <3>1, ProcessDrops
  <2>8. ASSUME EndTick(j) PROVE MemoryOK' /\ WorkersOK' /\ JanitorsOK'
    BY <2>1, <2>3, <2>8, ProcessDrops DEF EndTick
  <2>9. MemoryOK' /\ WorkersOK' /\ JanitorsOK'
    BY <1>20, <2>7, <2>8 DEF GiveUp
  <2> QED
    BY <2>3, <2>5, <2>9 DEF TypeOK
<1>21. ASSUME NEW t \in Txs, OpenAttempt(t) PROVE TypeOK'
  <2>1. EventsOK' /\ EventsKept
    BY <1>21, EventsStay DEF OpenAttempt
  <2>2. MemoryOK' /\ WorkersOK' /\ JanitorsOK'
    BY <1>21, <2>1, MemoryStays DEF OpenAttempt, TypeOK
  <2>3. TablesOK'
    <3>1. ASSUME NEW u \in Txs PROVE tx'[u] \in TxRow
      <4>1. tx[u] \in TxRow
        BY DEF TypeOK, TablesOK
      <4>2. \E status \in {"pending", "cancelled", tx[u].status} :
              tx'[u] = [tx[u] EXCEPT !.status = status]
        BY <1>21, <4>1 DEF OpenAttempt, TxRow
      <4> QED
        BY <4>1, <4>2 DEF TxRow, Statuses, Active, Final
    <3>2. tx' \in [Txs -> TxRow]
      BY <1>21, <3>1 DEF OpenAttempt
    <3> QED
      BY <1>21, <3>2 DEF OpenAttempt, TypeOK, TablesOK, history, bounds
  <2> QED
    BY <2>1, <2>2, <2>3 DEF TypeOK
<1>28. ASSUME NEW t \in Txs, IssueRenewal(t) PROVE TypeOK'
  <2>1. EventsOK' /\ EventsKept
    BY <1>28, EventsStay DEF IssueRenewal
  <2>2. MemoryOK' /\ WorkersOK' /\ JanitorsOK'
    BY <1>28, <2>1, MemoryStays DEF IssueRenewal, TypeOK
  <2>3. TablesOK'
    <3>1. tx' \in [Txs -> TxRow]
      BY <1>28 DEF IssueRenewal, TypeOK, TablesOK, TxRow, Statuses, Active
    <3> QED
      BY <1>28, <3>1 DEF IssueRenewal, TypeOK, TablesOK, history, bounds
  <2> QED
    BY <2>1, <2>2, <2>3 DEF TypeOK
<1>22. ASSUME NEW t \in Txs, CancelAttempt(t) PROVE TypeOK'
  <2>1. EventsOK' /\ EventsKept
    BY <1>22, EventsStay DEF CancelAttempt
  <2>2. MemoryOK' /\ WorkersOK' /\ JanitorsOK'
    BY <1>22, <2>1, MemoryStays DEF CancelAttempt, TypeOK
  <2>3. TablesOK'
    <3>1. tx' \in [Txs -> TxRow]
      BY <1>22, StatusTyped DEF CancelAttempt, TypeOK, TablesOK, Statuses, Final
    <3> QED
      BY <1>22, <3>1 DEF CancelAttempt, TypeOK, TablesOK, history, bounds
  <2> QED
    BY <2>1, <2>2, <2>3 DEF TypeOK
<1>23. ASSUME NEW t \in Txs, InvoiceMoves(t) PROVE TypeOK'
  <2>1. EventsOK' /\ EventsKept
    BY <1>23, EventsStay DEF InvoiceMoves
  <2>2. MemoryOK' /\ WorkersOK' /\ JanitorsOK'
    BY <1>23, <2>1, MemoryStays DEF InvoiceMoves, TypeOK
  <2>3. TablesOK'
    BY <1>23 DEF InvoiceMoves, TypeOK, TablesOK, history, bounds
  <2> QED
    BY <2>1, <2>2, <2>3 DEF TypeOK
<1>30. ASSUME NEW t \in Txs, HoldEnds(t) PROVE TypeOK'
  <2>1. EventsOK' /\ EventsKept
    BY <1>30, EventsStay DEF HoldEnds
  <2>2. MemoryOK' /\ WorkersOK' /\ JanitorsOK'
    BY <1>30, <2>1, MemoryStays DEF HoldEnds, TypeOK
  <2>3. TablesOK'
    BY <1>30 DEF HoldEnds, TypeOK, TablesOK, Rewards, history, bounds
  <2> QED
    BY <2>1, <2>2, <2>3 DEF TypeOK
<1>24. ASSUME NEW t \in Txs, Release(t) PROVE TypeOK'
  <2>1. EventsOK' /\ EventsKept
    BY <1>24, EventsStay DEF Release
  <2>2. MemoryOK' /\ WorkersOK' /\ JanitorsOK'
    BY <1>24, <2>1, MemoryStays DEF Release, TypeOK
  <2>3. TablesOK'
    BY <1>24 DEF Release, TypeOK, TablesOK, Rewards, history, bounds
  <2> QED
    BY <2>1, <2>2, <2>3 DEF TypeOK
<1>25. ASSUME NEW e \in Events, Receive(e) PROVE TypeOK'
  <2> PICK t \in Txs : \E type \in Reports(t) :
        event' = [event EXCEPT ![e] = [NoRow EXCEPT !.tx = t, !.type = type, !.state = "queued"]]
    BY <1>25 DEF Receive
  <2> PICK type \in Reports(t) :
        event' = [event EXCEPT ![e] = [NoRow EXCEPT !.tx = t, !.type = type, !.state = "queued"]]
    OBVIOUS
  <2>1. EventsOK' /\ EventsKept
    BY <1>25 DEF Receive, Reports, NoRow, TypeOK, TablesOK, EventsOK, EventsKept, Received
  <2>2. MemoryOK' /\ WorkersOK' /\ JanitorsOK'
    BY <1>25, <2>1, MemoryStays DEF Receive, TypeOK
  <2>3. TablesOK'
    <3>1. t \in Txs /\ type \in TypesOf(provider[t])
      BY DEF Reports
    <3>2. type \in Types
      BY <3>1 DEF TypeOK, TablesOK, Types, TypesOf
    <3>3. [NoRow EXCEPT !.tx = t, !.type = type, !.state = "queued"] \in EventRow
      BY <3>1, <3>2 DEF NoRow, EventRow
    <3> QED
      BY <1>25, <3>3 DEF Receive, TypeOK, TablesOK, history, bounds
  <2> QED
    BY <2>1, <2>2, <2>3 DEF TypeOK
<1>26. ASSUME NEW p \in Processes, Crash(p) PROVE TypeOK'
  <2>1. EventsOK' /\ EventsKept
    BY <1>26, EventsStay DEF Crash
  <2>2. MemoryOK' /\ WorkersOK' /\ JanitorsOK'
    BY <1>26, <2>1, ProcessDrops DEF Crash
  <2>3. TablesOK'
    BY <1>26, ConstantsAssumption DEF Crash, TypeOK, TablesOK, history
  <2> QED
    BY <2>1, <2>2, <2>3 DEF TypeOK
<1>27. CASE UNCHANGED vars
  <2>1. EventsOK' /\ EventsKept
    BY <1>27, EventsStay DEF vars
  <2>2. MemoryOK' /\ WorkersOK' /\ JanitorsOK'
    BY <1>27, <2>1, MemoryStays DEF vars, TypeOK
  <2> QED
    BY <1>27, <2>1, <2>2 DEF vars, TypeOK, TablesOK, history, bounds
<1> QED
  BY <1>1, <1>2, <1>3, <1>4, <1>5, <1>6, <1>7, <1>8, <1>9, <1>10, <1>11, <1>12, <1>13, <1>14,
     <1>15, <1>16, <1>17, <1>18, <1>19, <1>20, <1>21, <1>22, <1>23, <1>24, <1>25, <1>26, <1>27, <1>28,
     <1>29, <1>30 DEF Next, WorkerStep, JanitorStep, Activate, Processes

\* The shape of the tables and of the memory of every process, for every number of workers and
\* janitors: an event that was received has a transaction and a type its provider sends, and a
\* process at work has a transaction (webhook_handler.py, tasks.py).
THEOREM Typing == Spec => []TypeOK
<1>1. Init => TypeOK
  <2> SUFFICES ASSUME Init PROVE TypeOK
    OBVIOUS
  <2>1. NewTx \in TxRow /\ Renewal(TRUE) \in TxRow /\ Renewal(FALSE) \in TxRow
    BY DEF NewTx, Renewal, TxRow, Statuses, Tokens
  <2>2. NoRow \in EventRow /\ NoJob \in Job
    BY DEF NoRow, EventRow, NoJob, Job, Types, TypesOf, Statuses, Tokens
  <2>3. tx \in [Txs -> TxRow] /\ event \in [Events -> EventRow] /\ job \in [Processes -> Job]
    BY <2>1, <2>2 DEF Init
  <2>4. TablesOK
    BY <2>3 DEF Init, TablesOK, Rewards
  <2>5. MemoryOK
    BY <2>3 DEF Init, MemoryOK, WorkerLabels
  <2>6. EventsOK
    BY DEF Init, EventsOK, Received, NoRow
  <2>7. WorkersOK /\ JanitorsOK
    BY DEF Init, WorkersOK, JanitorsOK, WorkerLabels, JanitorLabels, Processes
  <2> QED
    BY <2>4, <2>5, <2>6, <2>7 DEF TypeOK
<1> QED
  BY <1>1, TypeStep, PTL DEF Spec

----------------------------------------------------------------------------
\* An invoice that is paid, in full or in part, stays so.
InvoicesKept == \A t \in Txs : invoice[t] \in {"paid", "short"} => invoice'[t] = invoice[t]

\* A process moves on: activations are of paid invoices if its own is.
LEMMA PaidMoves ==
  ASSUME TypeOK, ActivationsPaid, CurrencyMatches, EventsKept, InvoicesKept,
         NEW p \in Processes, NEW label, NEW x,
         Goto(p, label), job' = [job EXCEPT ![p] = x],
         label \in ActivationLabels => invoice[x.tx] = "paid" /\ x.tx \in Txs,
         p \in Workers /\ label \in {"update", "refetch"} =>
           Queued(x) /\ event[x.event].type # "wrong_currency"
  PROVE  ActivationsPaid' /\ CurrencyMatches'
<1>1. ASSUME NEW q \in Processes
      PROVE  /\ pc'[q] = IF q = p THEN label ELSE pc[q]
             /\ job'[q] = IF q = p THEN x ELSE job[q]
  BY DEF TypeOK, MemoryOK, Goto
<1>2. ASSUME NEW q \in Processes, pc'[q] \in ActivationLabels
      PROVE  invoice'[job'[q].tx] = "paid"
  <2>1. CASE q = p
    BY <1>1, <1>2, <2>1 DEF InvoicesKept
  <2>2. CASE q # p
    <3>1. pc[q] \in ActivationLabels /\ job'[q] = job[q]
      BY <1>1, <1>2, <2>2
    <3>2. job[q].tx \in Txs
      BY <3>1, AtWork DEF ActivationLabels
    <3> QED
      BY <3>1, <3>2 DEF ActivationsPaid, InvoicesKept
  <2> QED
    BY <2>1, <2>2
<1>3. ASSUME NEW w \in Workers, pc'[w] \in {"update", "refetch"}
      PROVE  event'[job'[w].event].type # "wrong_currency"
  <2>1. w \in Processes
    BY DEF Processes
  <2>2. CASE w = p
    BY <1>1, <1>3, <2>1, <2>2 DEF Queued, EventsKept
  <2>3. CASE w # p
    <3>1. pc[w] \in {"update", "refetch"} /\ job'[w] = job[w]
      BY <1>1, <1>3, <2>1, <2>3
    <3>2. job[w].event \in Events /\ Received(job[w].event)
      BY <2>1, <3>1, AtWork
    <3> QED
      BY <3>1, <3>2 DEF CurrencyMatches, EventsKept
  <2> QED
    BY <2>2, <2>3
<1> QED
  BY <1>2, <1>3 DEF ActivationsPaid, CurrencyMatches

\* A step of the environment leaves the memory alone.
LEMMA PaidStays ==
  ASSUME TypeOK, ActivationsPaid, CurrencyMatches, EventsKept, InvoicesKept, UNCHANGED <<pc, job>>
  PROVE  ActivationsPaid' /\ CurrencyMatches'
<1>1. ASSUME NEW q \in Processes, pc'[q] \in ActivationLabels
      PROVE  invoice'[job'[q].tx] = "paid"
  <2>1. job[q].tx \in Txs
    BY <1>1, AtWork DEF ActivationLabels
  <2> QED
    BY <1>1, <2>1 DEF ActivationsPaid, InvoicesKept
<1>2. ASSUME NEW w \in Workers, pc'[w] \in {"update", "refetch"}
      PROVE  event'[job'[w].event].type # "wrong_currency"
  <2>1. job[w].event \in Events /\ Received(job[w].event)
    BY <1>2, AtWork DEF Processes
  <2> QED
    BY <1>2, <2>1 DEF CurrencyMatches, EventsKept
<1> QED
  BY <1>1, <1>2 DEF ActivationsPaid, CurrencyMatches

\* The tables: nothing is granted or left to a janitor that is not paid.
LEMMA TablesPaid ==
  ASSUME TypeOK, PaidInv, InvoicesKept,
         \A t \in granted' : t \in granted \/ (t \in Txs /\ invoice[t] = "paid"),
         \A t \in Txs : tx'[t].retry => tx[t].retry \/ invoice[t] = "paid"
  PROVE  PaidForGrant' /\ RetriesPaid'
BY DEF TypeOK, TablesOK, PaidInv, PaidForGrant, RetriesPaid, InvoicesKept

\* What an event says of a payment stays true.
LEMMA EventsPaidStay ==
  ASSUME TypeOK, EventsPaid, EventsSame, InvoicesKept PROVE EventsPaid'
BY DEF TypeOK, TablesOK, EventsOK, EventsPaid, EventsSame, Received, InvoicesKept

\* A change of status leaves the retry mark alone.
LEMMA StatusOnly ==
  ASSUME TypeOK, NEW t, NEW expected, NEW status, SetStatus(t, expected, status)
  PROVE  \A u \in Txs : tx'[u].retry = tx[u].retry
<1> SUFFICES ASSUME NEW u \in Txs PROVE tx'[u].retry = tx[u].retry
  OBVIOUS
<1>1. tx[u] \in TxRow
  BY DEF TypeOK, TablesOK
<1> QED
  BY <1>1 DEF SetStatus, TypeOK, TablesOK, TxRow

\* A write of the metadata changes the retry mark of one transaction.
LEMMA MetadataOnly ==
  ASSUME TypeOK, NEW t \in Txs, NEW retry, NEW token, SetMetadata(t, retry, token)
  PROVE  \A u \in Txs : tx'[u].retry = IF u = t THEN retry ELSE tx[u].retry
<1> SUFFICES ASSUME NEW u \in Txs PROVE tx'[u].retry = IF u = t THEN retry ELSE tx[u].retry
  OBVIOUS
<1>1. tx[u] \in TxRow /\ tx[t] \in TxRow
  BY DEF TypeOK, TablesOK
<1> QED
  BY <1>1 DEF SetMetadata, TypeOK, TablesOK, TxRow

\* A janitor cancels only what is open at the provider.
LEMMA ResolveKeeps == ASSUME TypeOK, NEW j \in Janitors, Resolve(j) PROVE InvoicesKept
<1>1. \/ UNCHANGED invoice
      \/ \E t : invoice[t] = "open" /\ invoice' = [invoice EXCEPT ![t] = "dead"]
  BY DEF Resolve, CancelAtProvider
<1> QED
  BY <1>1 DEF InvoicesKept, TypeOK, TablesOK

\* Every step keeps PaidInv.
LEMMA PaidStep == ASSUME TypeOK, PaidInv, [Next]_vars PROVE PaidInv'
<1>1. ASSUME NEW w \in Workers, Claim(w) PROVE PaidInv'
  <2>1. /\ w \in Processes /\ EventsSame /\ EventsKept /\ InvoicesKept
        /\ pc[w] \notin {"idle", "stale", "retry"} =>
             /\ job[w].tx \in Txs
             /\ w \in Workers => Queued(job[w])
             /\ pc[w] \in ActivationLabels => invoice[job[w].tx] = "paid"
    BY <1>1, ClaimKeeps, AtWork DEF Claim, Processes, InvoicesKept, PaidInv, ActivationsPaid
  <2>2. EventsPaid'
    BY <2>1, EventsPaidStay DEF PaidInv
  <2>3. ActivationsPaid' /\ CurrencyMatches'
    BY <1>1, <2>1, PaidStays DEF Claim, PaidInv
  <2>4. PaidForGrant' /\ RetriesPaid'
    BY <1>1, <2>1, TablesPaid DEF Claim, history
  <2> QED
    BY <2>2, <2>3, <2>4 DEF PaidInv
<1>2. ASSUME NEW w \in Workers, Lookup(w) PROVE PaidInv'
  <2>1. /\ w \in Processes /\ EventsSame /\ EventsKept /\ InvoicesKept
        /\ pc[w] \notin {"idle", "stale", "retry"} =>
             /\ job[w].tx \in Txs
             /\ w \in Workers => Queued(job[w])
             /\ pc[w] \in ActivationLabels => invoice[job[w].tx] = "paid"
    BY <1>2, EventsStay, AtWork DEF Lookup, Processes, InvoicesKept, PaidInv, ActivationsPaid
  <2>2. EventsPaid'
    BY <2>1, EventsPaidStay DEF PaidInv
  <2>3. ActivationsPaid' /\ CurrencyMatches'
    <3>1. PICK x \in batch[w], label \in {"done", "fail", "update"} :
            \E status, linked, token :
              \E read \in {x, [x EXCEPT !.status = status, !.linked = linked, !.token = token]} :
                /\ label = "update" => event[x.event].type # "wrong_currency"
                /\ Take(w, x, read) /\ Goto(w, label)
      BY <1>2 DEF Lookup, WrongCurrency
    <3>2. x \in Job /\ Queued(x)
      BY <2>1 DEF TypeOK, MemoryOK, WorkersOK
    <3>3. PICK read : /\ read.event = x.event /\ read.tx = x.tx
                      /\ label = "update" => event[x.event].type # "wrong_currency"
                      /\ Take(w, x, read) /\ Goto(w, label)
      BY <3>1, <3>2 DEF Job
    <3>4. Queued(read)
      BY <3>2, <3>3 DEF Queued
    <3> QED
      BY <2>1, <3>3, <3>4, PaidMoves DEF Take, PaidInv, ActivationLabels
  <2>4. PaidForGrant' /\ RetriesPaid'
    BY <1>2, <2>1, TablesPaid DEF Lookup, history
  <2> QED
    BY <2>2, <2>3, <2>4 DEF PaidInv
<1>3. ASSUME NEW w \in Workers, Update(w) PROVE PaidInv'
  <2>1. /\ w \in Processes /\ EventsSame /\ EventsKept /\ InvoicesKept
        /\ pc[w] \notin {"idle", "stale", "retry"} =>
             /\ job[w].tx \in Txs
             /\ w \in Workers => Queued(job[w])
             /\ pc[w] \in ActivationLabels => invoice[job[w].tx] = "paid"
    BY <1>3, EventsStay, AtWork DEF Update, Processes, InvoicesKept, PaidInv, ActivationsPaid
  <2>2. EventsPaid'
    BY <2>1, EventsPaidStay DEF PaidInv
  <2>3. ActivationsPaid' /\ CurrencyMatches'
    <3>1. PICK label \in {"done", "refetch", "fail"} : Goto(w, label)
      BY <1>3 DEF Update
    <3>2. job' = [job EXCEPT ![w] = job[w]]
      BY <1>3 DEF Update, TypeOK, MemoryOK
    <3>3. Queued(job[w]) /\ event[job[w].event].type # "wrong_currency"
      BY <1>3, <2>1 DEF Update, PaidInv, CurrencyMatches
    <3> QED
      BY <2>1, <3>1, <3>2, <3>3, PaidMoves DEF PaidInv, ActivationLabels
  <2>4. PaidForGrant' /\ RetriesPaid'
    <3>1. UNCHANGED tx \/ \E expected, status : SetStatus(job[w].tx, expected, status)
      BY <1>3 DEF Update
    <3>2. \A t \in Txs : tx'[t].retry = tx[t].retry
      BY <3>1, StatusOnly
    <3> QED
      BY <1>3, <2>1, <3>2, TablesPaid DEF Update, history
  <2> QED
    BY <2>2, <2>3, <2>4 DEF PaidInv
<1>4. ASSUME NEW w \in Workers, Refetch(w) PROVE PaidInv'
  <2>1. /\ w \in Processes /\ EventsSame /\ EventsKept /\ InvoicesKept
        /\ pc[w] \notin {"idle", "stale", "retry"} =>
             /\ job[w].tx \in Txs
             /\ w \in Workers => Queued(job[w])
             /\ pc[w] \in ActivationLabels => invoice[job[w].tx] = "paid"
    BY <1>4, EventsStay, AtWork DEF Refetch, Processes, InvoicesKept, PaidInv, ActivationsPaid
  <2>2. EventsPaid'
    BY <2>1, EventsPaidStay DEF PaidInv
  <2>3. ActivationsPaid' /\ CurrencyMatches'
    <3> DEFINE type == event[job[w].event].type
               label == pc'[w]
    <3>1. Goto(w, label) /\ label \in {"done", "activate", "revoke", "evaluate", "fail"}
      BY <1>4, <2>1 DEF Refetch, Goto, Effect, Underpaid, TypeOK, MemoryOK
    <3>2. job' = [job EXCEPT ![w] = job[w]]
      BY <1>4 DEF Refetch, TypeOK, MemoryOK
    <3>3. ASSUME label = "activate" PROVE invoice[job[w].tx] = "paid"
      <4>1. StateOf(type) = "succeeded" /\ type # "underpaid"
        BY <1>4, <2>1, <3>3 DEF Refetch, Goto, Effect, Underpaid, TypeOK, MemoryOK
      <4>2. type # "wrong_currency"
        BY <1>4 DEF Refetch, PaidInv, CurrencyMatches
      <4>3. type \in {"activated", "charged", "completed"}
        <5>1. type \in Types
          BY <1>4, <2>1 DEF Refetch, Queued, TypeOK, TablesOK, EventRow
        <5> QED
          BY <4>1, <4>2, <5>1 DEF Types, TypesOf, StateOf
      <4>4. event[job[w].event].tx = job[w].tx /\ job[w].event \in Events /\ Received(job[w].event)
        BY <1>4, <2>1 DEF Refetch, Queued
      <4> QED
        BY <4>3, <4>4 DEF PaidInv, EventsPaid
    <3>4. job[w].tx \in Txs
      BY <1>4, <2>1 DEF Refetch
    <3> HIDE DEF label
    <3> QED
      BY <2>1, <3>1, <3>2, <3>3, <3>4, PaidMoves DEF PaidInv, ActivationLabels
  <2>4. PaidForGrant' /\ RetriesPaid'
    BY <1>4, <2>1, TablesPaid DEF Refetch, history
  <2> QED
    BY <2>2, <2>3, <2>4 DEF PaidInv
<1>5. ASSUME NEW w \in Workers, CheckActive(w) PROVE PaidInv'
  <2>1. /\ w \in Processes /\ EventsSame /\ EventsKept /\ InvoicesKept
        /\ pc[w] \notin {"idle", "stale", "retry"} =>
             /\ job[w].tx \in Txs
             /\ w \in Workers => Queued(job[w])
             /\ pc[w] \in ActivationLabels => invoice[job[w].tx] = "paid"
    BY <1>5, EventsStay, AtWork DEF CheckActive, Processes, InvoicesKept, PaidInv, ActivationsPaid
  <2>2. EventsPaid'
    BY <2>1, EventsPaidStay DEF PaidInv
  <2>3. ActivationsPaid' /\ CurrencyMatches'
    <3>1. PICK label \in {"evaluate", "renew", "create", "fail"} : Goto(w, label)
      BY <1>5 DEF CheckActive, Activation
    <3>2. job' = [job EXCEPT ![w] = job[w]]
      BY <1>5 DEF CheckActive, TypeOK, MemoryOK
    <3> QED
      BY <1>5, <2>1, <3>1, <3>2, PaidMoves DEF CheckActive, PaidInv, ActivationLabels
  <2>4. PaidForGrant' /\ RetriesPaid'
    BY <1>5, <2>1, TablesPaid DEF CheckActive, history
  <2> QED
    BY <2>2, <2>3, <2>4 DEF PaidInv
<1>6. ASSUME NEW p \in Processes, Renew(p) PROVE PaidInv'
  <2>1. /\ p \in Processes /\ EventsSame /\ EventsKept /\ InvoicesKept
        /\ pc[p] \notin {"idle", "stale", "retry"} =>
             /\ job[p].tx \in Txs
             /\ p \in Workers => Queued(job[p])
             /\ pc[p] \in ActivationLabels => invoice[job[p].tx] = "paid"
    BY <1>6, EventsStay, AtWork DEF Renew, Processes, InvoicesKept, PaidInv, ActivationsPaid
  <2>2. EventsPaid'
    BY <2>1, EventsPaidStay DEF PaidInv
  <2>3. ActivationsPaid' /\ CurrencyMatches'
    <3>1. PICK label \in {"evaluate", "flag", "complete", "give_up", "link"} : Goto(p, label)
      BY <1>6 DEF Renew, OnError, OnSuccess
    <3>2. job' = [job EXCEPT ![p] = job[p]]
      BY <1>6 DEF Renew, TypeOK, MemoryOK
    <3> QED
      BY <1>6, <2>1, <3>1, <3>2, PaidMoves DEF Renew, PaidInv, ActivationLabels
  <2>4. PaidForGrant' /\ RetriesPaid'
    <3>1. job[p].tx \in Txs /\ invoice[job[p].tx] = "paid"
      BY <1>6, <2>1 DEF Renew, ActivationLabels
    <3>2. \A t \in granted' : t \in granted \/ t = job[p].tx
      BY <1>6 DEF Renew, history
    <3>3. \A t \in Txs : tx'[t].retry => tx[t].retry \/ invoice[t] = "paid"
      BY <1>6, <3>1 DEF Renew, TypeOK, TablesOK, TxRow
    <3> QED
      BY <2>1, <3>1, <3>2, <3>3, TablesPaid
  <2> QED
    BY <2>2, <2>3, <2>4 DEF PaidInv
<1>7. ASSUME NEW p \in Processes, Create(p) PROVE PaidInv'
  <2>1. /\ p \in Processes /\ EventsSame /\ EventsKept /\ InvoicesKept
        /\ pc[p] \notin {"idle", "stale", "retry"} =>
             /\ job[p].tx \in Txs
             /\ p \in Workers => Queued(job[p])
             /\ pc[p] \in ActivationLabels => invoice[job[p].tx] = "paid"
    BY <1>7, EventsStay, AtWork DEF Create, Processes, InvoicesKept, PaidInv, ActivationsPaid
  <2>2. EventsPaid'
    BY <2>1, EventsPaidStay DEF PaidInv
  <2>3. ActivationsPaid' /\ CurrencyMatches'
    <3>1. PICK label \in {"evaluate", "flag", "complete", "give_up", "link"} : Goto(p, label)
      BY <1>7 DEF Create, OnError
    <3>2. job' = [job EXCEPT ![p] = job[p]]
      BY <1>7 DEF Create, TypeOK, MemoryOK
    <3> QED
      BY <1>7, <2>1, <3>1, <3>2, PaidMoves DEF Create, PaidInv, ActivationLabels
  <2>4. PaidForGrant' /\ RetriesPaid'
    <3>1. job[p].tx \in Txs /\ invoice[job[p].tx] = "paid"
      BY <1>7, <2>1 DEF Create, ActivationLabels
    <3>2. \A t \in granted' : t \in granted \/ t = job[p].tx
      BY <1>7 DEF Create, history
    <3>3. \A t \in Txs : tx'[t].retry => tx[t].retry \/ invoice[t] = "paid"
      BY <1>7, <3>1 DEF Create, TypeOK, TablesOK, TxRow
    <3> QED
      BY <2>1, <3>1, <3>2, <3>3, TablesPaid
  <2> QED
    BY <2>2, <2>3, <2>4 DEF PaidInv
<1>8. ASSUME NEW p \in Processes, Link(p) PROVE PaidInv'
  <2>1. /\ p \in Processes /\ EventsSame /\ EventsKept /\ InvoicesKept
        /\ pc[p] \notin {"idle", "stale", "retry"} =>
             /\ job[p].tx \in Txs
             /\ p \in Workers => Queued(job[p])
             /\ pc[p] \in ActivationLabels => invoice[job[p].tx] = "paid"
    BY <1>8, EventsStay, AtWork DEF Link, Processes, InvoicesKept, PaidInv, ActivationsPaid
  <2>2. EventsPaid'
    BY <2>1, EventsPaidStay DEF PaidInv
  <2>3. ActivationsPaid' /\ CurrencyMatches'
    <3>1. PICK label \in {"evaluate", "flag", "complete", "give_up", "link"} : Goto(p, label)
      BY <1>8 DEF Link, OnError, OnSuccess
    <3>2. job' = [job EXCEPT ![p] = job[p]]
      BY <1>8 DEF Link, TypeOK, MemoryOK
    <3> QED
      BY <1>8, <2>1, <3>1, <3>2, PaidMoves DEF Link, PaidInv, ActivationLabels
  <2>4. PaidForGrant' /\ RetriesPaid'
    <3>1. job[p].tx \in Txs /\ invoice[job[p].tx] = "paid"
      BY <1>8, <2>1 DEF Link, ActivationLabels
    <3>2. \A t \in granted' : t \in granted \/ t = job[p].tx
      BY <1>8 DEF Link, history
    <3>3. \A t \in Txs : tx'[t].retry => tx[t].retry \/ invoice[t] = "paid"
      BY <1>8, <3>1 DEF Link, TypeOK, TablesOK, TxRow
    <3> QED
      BY <2>1, <3>1, <3>2, <3>3, TablesPaid
  <2> QED
    BY <2>2, <2>3, <2>4 DEF PaidInv
<1>9. ASSUME NEW w \in Workers, Flag(w) PROVE PaidInv'
  <2>1. /\ w \in Processes /\ EventsSame /\ EventsKept /\ InvoicesKept
        /\ pc[w] \notin {"idle", "stale", "retry"} =>
             /\ job[w].tx \in Txs
             /\ w \in Workers => Queued(job[w])
             /\ pc[w] \in ActivationLabels => invoice[job[w].tx] = "paid"
    BY <1>9, EventsStay, AtWork DEF Flag, Processes, InvoicesKept, PaidInv, ActivationsPaid
  <2>2. EventsPaid'
    BY <2>1, EventsPaidStay DEF PaidInv
  <2>3. ActivationsPaid' /\ CurrencyMatches'
    <3>1. PICK label \in {"evaluate", "fail"} : Goto(w, label)
      BY <1>9 DEF Flag
    <3>2. job' = [job EXCEPT ![w] = job[w]]
      BY <1>9 DEF Flag, TypeOK, MemoryOK
    <3> QED
      BY <1>9, <2>1, <3>1, <3>2, PaidMoves DEF Flag, PaidInv, ActivationLabels
  <2>4. PaidForGrant' /\ RetriesPaid'
    <3>1. job[w].tx \in Txs /\ invoice[job[w].tx] = "paid"
      BY <1>9, <2>1 DEF Flag, ActivationLabels
    <3>2. UNCHANGED tx \/ SetMetadata(job[w].tx, TRUE, job[w].token)
      BY <1>9 DEF Flag
    <3>3. \A t \in Txs : tx'[t].retry => tx[t].retry \/ invoice[t] = "paid"
      BY <3>1, <3>2, MetadataOnly
    <3> QED
      BY <1>9, <2>1, <3>3, TablesPaid DEF Flag, history
  <2> QED
    BY <2>2, <2>3, <2>4 DEF PaidInv
<1>10. ASSUME NEW w \in Workers, Evaluate(w) PROVE PaidInv'
  <2>1. /\ w \in Processes /\ EventsSame /\ EventsKept /\ InvoicesKept
        /\ pc[w] \notin {"idle", "stale", "retry"} =>
             /\ job[w].tx \in Txs
             /\ w \in Workers => Queued(job[w])
             /\ pc[w] \in ActivationLabels => invoice[job[w].tx] = "paid"
    BY <1>10, EventsStay, AtWork DEF Evaluate, Processes, InvoicesKept, PaidInv, ActivationsPaid
  <2>2. EventsPaid'
    BY <2>1, EventsPaidStay DEF PaidInv
  <2>3. ActivationsPaid' /\ CurrencyMatches'
    <3>1. PICK label \in {"done"} : Goto(w, label)
      BY <1>10 DEF Evaluate
    <3>2. job' = [job EXCEPT ![w] = job[w]]
      BY <1>10 DEF Evaluate, TypeOK, MemoryOK
    <3> QED
      BY <1>10, <2>1, <3>1, <3>2, PaidMoves DEF Evaluate, PaidInv, ActivationLabels
  <2>4. PaidForGrant' /\ RetriesPaid'
    BY <1>10, <2>1, TablesPaid DEF Evaluate, history
  <2> QED
    BY <2>2, <2>3, <2>4 DEF PaidInv
<1>29. ASSUME NEW w \in Workers, ReadReward(w) PROVE PaidInv'
  <2>1. /\ w \in Processes /\ EventsSame /\ EventsKept /\ InvoicesKept
        /\ pc[w] \notin {"idle", "stale", "retry"} =>
             /\ job[w].tx \in Txs
             /\ w \in Workers => Queued(job[w])
             /\ pc[w] \in ActivationLabels => invoice[job[w].tx] = "paid"
    BY <1>29, EventsStay, AtWork DEF ReadReward, Processes, InvoicesKept, PaidInv, ActivationsPaid
  <2>2. EventsPaid'
    BY <2>1, EventsPaidStay DEF PaidInv
  <2>3. ActivationsPaid' /\ CurrencyMatches'
    <3>1. PICK label \in {"done", "take_back"} : Goto(w, label)
      BY <1>29 DEF ReadReward
    <3>2. job' = [job EXCEPT ![w] = job[w]]
      BY <1>29 DEF ReadReward, TypeOK, MemoryOK
    <3> QED
      BY <1>29, <2>1, <3>1, <3>2, PaidMoves DEF ReadReward, PaidInv, ActivationLabels
  <2>4. PaidForGrant' /\ RetriesPaid'
    BY <1>29, <2>1, TablesPaid DEF ReadReward, history
  <2> QED
    BY <2>2, <2>3, <2>4 DEF PaidInv
<1>11. ASSUME NEW w \in Workers, Revoke(w) PROVE PaidInv'
  <2>1. /\ w \in Processes /\ EventsSame /\ EventsKept /\ InvoicesKept
        /\ pc[w] \notin {"idle", "stale", "retry"} =>
             /\ job[w].tx \in Txs
             /\ w \in Workers => Queued(job[w])
             /\ pc[w] \in ActivationLabels => invoice[job[w].tx] = "paid"
    BY <1>11, EventsStay, AtWork DEF Revoke, Processes, InvoicesKept, PaidInv, ActivationsPaid
  <2>2. EventsPaid'
    BY <2>1, EventsPaidStay DEF PaidInv
  <2>3. ActivationsPaid' /\ CurrencyMatches'
    <3>1. PICK label \in {"done"} : Goto(w, label)
      BY <1>11 DEF Revoke
    <3>2. job' = [job EXCEPT ![w] = job[w]]
      BY <1>11 DEF Revoke, TypeOK, MemoryOK
    <3> QED
      BY <1>11, <2>1, <3>1, <3>2, PaidMoves DEF Revoke, PaidInv, ActivationLabels
  <2>4. PaidForGrant' /\ RetriesPaid'
    BY <1>11, <2>1, TablesPaid DEF Revoke, history
  <2> QED
    BY <2>2, <2>3, <2>4 DEF PaidInv
<1>12. ASSUME NEW w \in Workers, MarkProcessed(w) PROVE PaidInv'
  <2>1. /\ w \in Processes /\ EventsSame /\ EventsKept /\ InvoicesKept
        /\ pc[w] \notin {"idle", "stale", "retry"} =>
             /\ job[w].tx \in Txs
             /\ w \in Workers => Queued(job[w])
             /\ pc[w] \in ActivationLabels => invoice[job[w].tx] = "paid"
    BY <1>12, OutcomeKeeps, AtWork DEF MarkProcessed, Processes, InvoicesKept, PaidInv, ActivationsPaid
  <2>2. EventsPaid'
    BY <2>1, EventsPaidStay DEF PaidInv
  <2>3. ActivationsPaid' /\ CurrencyMatches'
    <3>1. PICK label \in {"idle", "fail"}, x \in {NoJob, job[w]} :
            Goto(w, label) /\ job' = [job EXCEPT ![w] = x]
      BY <1>12 DEF MarkProcessed, DropJob, NextOf, EndTick, TypeOK, MemoryOK
    <3> QED
      BY <1>12, <2>1, <3>1, PaidMoves DEF MarkProcessed, PaidInv, ActivationLabels
  <2>4. PaidForGrant' /\ RetriesPaid'
    BY <1>12, <2>1, TablesPaid DEF MarkProcessed, history
  <2> QED
    BY <2>2, <2>3, <2>4 DEF PaidInv
<1>13. ASSUME NEW w \in Workers, RecordFailure(w) PROVE PaidInv'
  <2>1. /\ w \in Processes /\ EventsSame /\ EventsKept /\ InvoicesKept
        /\ pc[w] \notin {"idle", "stale", "retry"} =>
             /\ job[w].tx \in Txs
             /\ w \in Workers => Queued(job[w])
             /\ pc[w] \in ActivationLabels => invoice[job[w].tx] = "paid"
    BY <1>13, OutcomeKeeps, AtWork DEF RecordFailure, Processes, InvoicesKept, PaidInv, ActivationsPaid
  <2>2. EventsPaid'
    BY <2>1, EventsPaidStay DEF PaidInv
  <2>3. ActivationsPaid' /\ CurrencyMatches'
    <3>1. PICK label \in {"idle"}, x \in {NoJob, job[w]} :
            Goto(w, label) /\ job' = [job EXCEPT ![w] = x]
      BY <1>13 DEF RecordFailure, DropJob, NextOf, EndTick, TypeOK, MemoryOK
    <3> QED
      BY <1>13, <2>1, <3>1, PaidMoves DEF RecordFailure, PaidInv, ActivationLabels
  <2>4. PaidForGrant' /\ RetriesPaid'
    BY <1>13, <2>1, TablesPaid DEF RecordFailure, history
  <2> QED
    BY <2>2, <2>3, <2>4 DEF PaidInv
<1>14. ASSUME NEW j \in Janitors, StaleRead(j) PROVE PaidInv'
  <2>1. /\ j \in Processes /\ EventsSame /\ EventsKept /\ InvoicesKept
        /\ pc[j] \notin {"idle", "stale", "retry"} =>
             /\ job[j].tx \in Txs
             /\ j \in Workers => Queued(job[j])
             /\ pc[j] \in ActivationLabels => invoice[job[j].tx] = "paid"
    BY <1>14, EventsStay, AtWork DEF StaleRead, Processes, InvoicesKept, PaidInv, ActivationsPaid
  <2>2. EventsPaid'
    BY <2>1, EventsPaidStay DEF PaidInv
  <2>3. ActivationsPaid' /\ CurrencyMatches'
    <3>1. PICK label \in {"stale"} : Goto(j, label)
      BY <1>14 DEF StaleRead
    <3>2. job' = [job EXCEPT ![j] = job[j]]
      BY <1>14 DEF StaleRead, TypeOK, MemoryOK
    <3> QED
      BY <1>14, <2>1, <3>1, <3>2, PaidMoves, ConstantsAssumption DEF StaleRead, PaidInv, ActivationLabels
  <2>4. PaidForGrant' /\ RetriesPaid'
    BY <1>14, <2>1, TablesPaid DEF StaleRead, history
  <2> QED
    BY <2>2, <2>3, <2>4 DEF PaidInv
<1>15. ASSUME NEW j \in Janitors, RetryRead(j) PROVE PaidInv'
  <2>1. /\ j \in Processes /\ EventsSame /\ EventsKept /\ InvoicesKept
        /\ pc[j] \notin {"idle", "stale", "retry"} =>
             /\ job[j].tx \in Txs
             /\ j \in Workers => Queued(job[j])
             /\ pc[j] \in ActivationLabels => invoice[job[j].tx] = "paid"
    BY <1>15, EventsStay, AtWork DEF RetryRead, Processes, InvoicesKept, PaidInv, ActivationsPaid
  <2>2. EventsPaid'
    BY <2>1, EventsPaidStay DEF PaidInv
  <2>3. ActivationsPaid' /\ CurrencyMatches'
    <3>1. PICK label \in {"retry"} : Goto(j, label)
      BY <1>15 DEF RetryRead
    <3>2. job' = [job EXCEPT ![j] = job[j]]
      BY <1>15 DEF RetryRead, TypeOK, MemoryOK
    <3> QED
      BY <1>15, <2>1, <3>1, <3>2, PaidMoves, ConstantsAssumption DEF RetryRead, PaidInv, ActivationLabels
  <2>4. PaidForGrant' /\ RetriesPaid'
    BY <1>15, <2>1, TablesPaid DEF RetryRead, history
  <2> QED
    BY <2>2, <2>3, <2>4 DEF PaidInv
<1>16. ASSUME NEW j \in Janitors, Resolve(j) PROVE PaidInv'
  <2>1. /\ j \in Processes /\ EventsSame /\ EventsKept /\ InvoicesKept
        /\ pc[j] \notin {"idle", "stale", "retry"} =>
             /\ job[j].tx \in Txs
             /\ j \in Workers => Queued(job[j])
             /\ pc[j] \in ActivationLabels => invoice[job[j].tx] = "paid"
    BY <1>16, EventsStay, AtWork, ResolveKeeps
       DEF Resolve, Processes, PaidInv, ActivationsPaid
  <2>2. EventsPaid'
    BY <2>1, EventsPaidStay DEF PaidInv
  <2>3. ActivationsPaid' /\ CurrencyMatches'
    <3>1. PICK x : Goto(j, "settle") /\ job' = [job EXCEPT ![j] = x]
      BY <1>16 DEF Resolve, Take
    <3> QED
      BY <2>1, <3>1, PaidMoves DEF PaidInv, ActivationLabels
  <2>4. PaidForGrant' /\ RetriesPaid'
    BY <1>16, <2>1, TablesPaid DEF Resolve, history
  <2> QED
    BY <2>2, <2>3, <2>4 DEF PaidInv
<1>17. ASSUME NEW j \in Janitors, Settle(j) PROVE PaidInv'
  <2>1. /\ j \in Processes /\ EventsSame /\ EventsKept /\ InvoicesKept
        /\ pc[j] \notin {"idle", "stale", "retry"} =>
             /\ job[j].tx \in Txs
             /\ j \in Workers => Queued(job[j])
             /\ pc[j] \in ActivationLabels => invoice[job[j].tx] = "paid"
    BY <1>17, EventsStay, AtWork DEF Settle, Processes, InvoicesKept, PaidInv, ActivationsPaid
  <2>2. EventsPaid'
    BY <2>1, EventsPaidStay DEF PaidInv
  <2>3. ActivationsPaid' /\ CurrencyMatches'
    <3>1. PICK label \in {"idle", "stale"}, x \in {NoJob, job[j]} :
            Goto(j, label) /\ job' = [job EXCEPT ![j] = x]
      BY <1>17 DEF Settle, DropJob, NextOf, EndTick, TypeOK, MemoryOK
    <3> QED
      BY <1>17, <2>1, <3>1, PaidMoves DEF Settle, PaidInv, ActivationLabels
  <2>4. PaidForGrant' /\ RetriesPaid'
    <3>1. UNCHANGED tx \/ SetStatus(job[j].tx, Active, job[j].status)
      BY <1>17 DEF Settle
    <3>2. \A t \in Txs : tx'[t].retry = tx[t].retry
      BY <3>1, StatusOnly
    <3> QED
      BY <1>17, <2>1, <3>2, TablesPaid DEF Settle
  <2> QED
    BY <2>2, <2>3, <2>4 DEF PaidInv
<1>18. ASSUME NEW j \in Janitors, RetryClaim(j) PROVE PaidInv'
  <2>1. /\ j \in Processes /\ EventsSame /\ EventsKept /\ InvoicesKept
        /\ pc[j] \notin {"idle", "stale", "retry"} =>
             /\ job[j].tx \in Txs
             /\ j \in Workers => Queued(job[j])
             /\ pc[j] \in ActivationLabels => invoice[job[j].tx] = "paid"
    BY <1>18, EventsStay, AtWork DEF RetryClaim, Processes, InvoicesKept, PaidInv, ActivationsPaid
  <2>2. EventsPaid'
    BY <2>1, EventsPaidStay DEF PaidInv
  <2> PICK x \in batch[j] :
        LET row == tx[x.tx]
            claimable == row.status = "succeeded" /\ row.retry /\ row.version = x.version
        IN  \/ /\ claimable /\ SetMetadata(x.tx, TRUE, j)
               /\ Take(j, x, x) /\ Goto(j, Activation(x)) /\ UNCHANGED faults
            \/ /\ ~claimable /\ batch' = [batch EXCEPT ![j] = @ \ {x}]
               /\ Goto(j, IF batch[j] = {x} THEN "idle" ELSE "retry")
               /\ UNCHANGED <<tx, job, faults>>
            \/ /\ Fault(j) /\ EndTick(j)
               /\ (claimable /\ SetMetadata(x.tx, TRUE, j)) \/ UNCHANGED tx
    BY <1>18 DEF RetryClaim
  <2>5. x.tx \in Txs
    BY DEF TypeOK, JanitorsOK
  <2>3. ActivationsPaid' /\ CurrencyMatches'
    <3>1. PICK label \in {"renew", "create", "idle", "retry"}, y \in {x, NoJob, job[j]} :
            /\ Goto(j, label) /\ job' = [job EXCEPT ![j] = y]
            /\ label \in {"renew", "create"} => y = x /\ tx[x.tx].retry
      BY DEF Take, Activation, EndTick, DropJob, TypeOK, MemoryOK
    <3> QED
      BY <2>1, <2>5, <3>1, PaidMoves, ConstantsAssumption DEF PaidInv, RetriesPaid, ActivationLabels
  <2>4. PaidForGrant' /\ RetriesPaid'
    <3>1. UNCHANGED tx \/ (tx[x.tx].retry /\ SetMetadata(x.tx, TRUE, j))
      OBVIOUS
    <3>2. \A t \in Txs : tx'[t].retry => tx[t].retry
      BY <2>5, <3>1, MetadataOnly
    <3> QED
      BY <1>18, <2>1, <3>2, TablesPaid DEF RetryClaim, history
  <2> QED
    BY <2>2, <2>3, <2>4 DEF PaidInv
<1>19. ASSUME NEW j \in Janitors, Complete(j) PROVE PaidInv'
  <2>1. /\ j \in Processes /\ EventsSame /\ EventsKept /\ InvoicesKept
        /\ pc[j] \notin {"idle", "stale", "retry"} =>
             /\ job[j].tx \in Txs
             /\ j \in Workers => Queued(job[j])
             /\ pc[j] \in ActivationLabels => invoice[job[j].tx] = "paid"
    BY <1>19, EventsStay, AtWork DEF Complete, Processes, InvoicesKept, PaidInv, ActivationsPaid
  <2>2. EventsPaid'
    BY <2>1, EventsPaidStay DEF PaidInv
  <2>3. ActivationsPaid' /\ CurrencyMatches'
    <3>1. PICK label \in {"idle", "retry", "give_up"}, x \in {NoJob, job[j]} :
            /\ Goto(j, label) /\ job' = [job EXCEPT ![j] = x]
            /\ label = "give_up" => x = job[j]
      BY <1>19 DEF Complete, DropJob, NextOf, EndTick, TypeOK, MemoryOK
    <3> QED
      BY <1>19, <2>1, <3>1, PaidMoves DEF Complete, PaidInv, ActivationLabels
  <2>4. PaidForGrant' /\ RetriesPaid'
    <3>1. job[j].tx \in Txs /\ invoice[job[j].tx] = "paid"
      BY <1>19, <2>1 DEF Complete, ActivationLabels
    <3>2. UNCHANGED tx \/ SetMetadata(job[j].tx, FALSE, None)
      BY <1>19 DEF Complete
    <3>3. \A t \in Txs : tx'[t].retry => tx[t].retry \/ invoice[t] = "paid"
      BY <3>1, <3>2, MetadataOnly
    <3> QED
      BY <1>19, <2>1, <3>3, TablesPaid DEF Complete, history
  <2> QED
    BY <2>2, <2>3, <2>4 DEF PaidInv
<1>20. ASSUME NEW j \in Janitors, GiveUp(j) PROVE PaidInv'
  <2>1. /\ j \in Processes /\ EventsSame /\ EventsKept /\ InvoicesKept
        /\ pc[j] \notin {"idle", "stale", "retry"} =>
             /\ job[j].tx \in Txs
             /\ j \in Workers => Queued(job[j])
             /\ pc[j] \in ActivationLabels => invoice[job[j].tx] = "paid"
    BY <1>20, EventsStay, AtWork DEF GiveUp, Processes, InvoicesKept, PaidInv, ActivationsPaid
  <2>2. EventsPaid'
    BY <2>1, EventsPaidStay DEF PaidInv
  <2>3. ActivationsPaid' /\ CurrencyMatches'
    <3>1. PICK label \in {"idle", "retry"}, x \in {NoJob, job[j]} :
            Goto(j, label) /\ job' = [job EXCEPT ![j] = x]
      BY <1>20 DEF GiveUp, DropJob, NextOf, EndTick, TypeOK, MemoryOK
    <3> QED
      BY <1>20, <2>1, <3>1, PaidMoves DEF GiveUp, PaidInv, ActivationLabels
  <2>4. PaidForGrant' /\ RetriesPaid'
    <3>1. job[j].tx \in Txs /\ invoice[job[j].tx] = "paid"
      BY <1>20, <2>1 DEF GiveUp, ActivationLabels
    <3>2. UNCHANGED tx \/ SetMetadata(job[j].tx, TRUE, None)
      BY <1>20 DEF GiveUp
    <3>3. \A t \in Txs : tx'[t].retry => tx[t].retry \/ invoice[t] = "paid"
      BY <3>1, <3>2, MetadataOnly
    <3> QED
      BY <1>20, <2>1, <3>3, TablesPaid DEF GiveUp, history
  <2> QED
    BY <2>2, <2>3, <2>4 DEF PaidInv
<1>21. ASSUME NEW t \in Txs, OpenAttempt(t) PROVE PaidInv'
  <2>1. EventsSame /\ EventsKept /\ InvoicesKept
    BY <1>21, EventsStay DEF OpenAttempt, InvoicesKept, TypeOK, TablesOK
  <2>2. EventsPaid'
    BY <2>1, EventsPaidStay DEF PaidInv
  <2>3. ActivationsPaid' /\ CurrencyMatches'
    BY <1>21, <2>1, PaidStays DEF OpenAttempt, memory, PaidInv
  <2>4. PaidForGrant' /\ RetriesPaid'
    <3>1. ASSUME NEW u \in Txs PROVE tx'[u].retry = tx[u].retry
      <4>1. tx[u] \in TxRow
        BY DEF TypeOK, TablesOK
      <4> QED
        BY <1>21, <4>1 DEF OpenAttempt, TxRow
    <3> QED
      BY <1>21, <2>1, <3>1, TablesPaid DEF OpenAttempt, history
  <2> QED
    BY <2>2, <2>3, <2>4 DEF PaidInv
<1>28. ASSUME NEW t \in Txs, IssueRenewal(t) PROVE PaidInv'
  <2>1. EventsSame /\ EventsKept /\ InvoicesKept
    BY <1>28, EventsStay DEF IssueRenewal, InvoicesKept, TypeOK, TablesOK
  <2>2. EventsPaid'
    BY <2>1, EventsPaidStay DEF PaidInv
  <2>3. ActivationsPaid' /\ CurrencyMatches'
    BY <1>28, <2>1, PaidStays DEF IssueRenewal, memory, PaidInv
  <2>4. PaidForGrant' /\ RetriesPaid'
    <3>1. \A u \in Txs : tx'[u].retry = tx[u].retry
      BY <1>28 DEF IssueRenewal, TypeOK, TablesOK, TxRow
    <3> QED
      BY <1>28, <2>1, <3>1, TablesPaid DEF IssueRenewal, history
  <2> QED
    BY <2>2, <2>3, <2>4 DEF PaidInv
<1>22. ASSUME NEW t \in Txs, CancelAttempt(t) PROVE PaidInv'
  <2>1. EventsSame /\ EventsKept /\ InvoicesKept
    BY <1>22, EventsStay DEF CancelAttempt, InvoicesKept, TypeOK, TablesOK
  <2>2. EventsPaid'
    BY <2>1, EventsPaidStay DEF PaidInv
  <2>3. ActivationsPaid' /\ CurrencyMatches'
    BY <1>22, <2>1, PaidStays DEF CancelAttempt, memory, PaidInv
  <2>4. PaidForGrant' /\ RetriesPaid'
    <3>1. \A u \in Txs : tx'[u].retry = tx[u].retry
      BY <1>22, StatusOnly DEF CancelAttempt
    <3> QED
      BY <1>22, <2>1, <3>1, TablesPaid DEF CancelAttempt, history
  <2> QED
    BY <2>2, <2>3, <2>4 DEF PaidInv
<1>23. ASSUME NEW t \in Txs, InvoiceMoves(t) PROVE PaidInv'
  <2>1. EventsSame /\ EventsKept /\ InvoicesKept
    BY <1>23, EventsStay DEF InvoiceMoves, InvoicesKept, TypeOK, TablesOK
  <2>2. EventsPaid'
    BY <2>1, EventsPaidStay DEF PaidInv
  <2>3. ActivationsPaid' /\ CurrencyMatches'
    BY <1>23, <2>1, PaidStays DEF InvoiceMoves, memory, PaidInv
  <2>4. PaidForGrant' /\ RetriesPaid'
    BY <1>23, <2>1, TablesPaid DEF InvoiceMoves, history
  <2> QED
    BY <2>2, <2>3, <2>4 DEF PaidInv
<1>30. ASSUME NEW t \in Txs, HoldEnds(t) PROVE PaidInv'
  <2>1. EventsSame /\ EventsKept /\ InvoicesKept
    BY <1>30, EventsStay DEF HoldEnds, InvoicesKept, TypeOK, TablesOK
  <2>2. EventsPaid'
    BY <2>1, EventsPaidStay DEF PaidInv
  <2>3. ActivationsPaid' /\ CurrencyMatches'
    BY <1>30, <2>1, PaidStays DEF HoldEnds, memory, PaidInv
  <2>4. PaidForGrant' /\ RetriesPaid'
    BY <1>30, <2>1, TablesPaid DEF HoldEnds, history
  <2> QED
    BY <2>2, <2>3, <2>4 DEF PaidInv
<1>24. ASSUME NEW t \in Txs, Release(t) PROVE PaidInv'
  <2>1. EventsSame /\ EventsKept /\ InvoicesKept
    BY <1>24, EventsStay DEF Release, InvoicesKept, TypeOK, TablesOK
  <2>2. EventsPaid'
    BY <2>1, EventsPaidStay DEF PaidInv
  <2>3. ActivationsPaid' /\ CurrencyMatches'
    BY <1>24, <2>1, PaidStays DEF Release, memory, PaidInv
  <2>4. PaidForGrant' /\ RetriesPaid'
    BY <1>24, <2>1, TablesPaid DEF Release, history
  <2> QED
    BY <2>2, <2>3, <2>4 DEF PaidInv
<1>25. ASSUME NEW e \in Events, Receive(e) PROVE PaidInv'
  <2> PICK t \in Txs : \E type \in Reports(t) :
        event' = [event EXCEPT ![e] = [NoRow EXCEPT !.tx = t, !.type = type, !.state = "queued"]]
    BY <1>25 DEF Receive
  <2> PICK type \in Reports(t) :
        event' = [event EXCEPT ![e] = [NoRow EXCEPT !.tx = t, !.type = type, !.state = "queued"]]
    OBVIOUS
  <2>1. EventsKept /\ InvoicesKept
    BY <1>25 DEF Receive, TypeOK, TablesOK, EventsKept, InvoicesKept, Received
  <2>2. EventsPaid'
    <3>1. ASSUME NEW d \in Events
          PROVE  event'[d] = IF d = e THEN [NoRow EXCEPT !.tx = t, !.type = type, !.state = "queued"]
                             ELSE event[d]
      BY DEF TypeOK, TablesOK
    <3> QED
      BY <1>25, <3>1 DEF Receive, NoRow, Reports, PaidInv, EventsPaid, Received
  <2>3. ActivationsPaid' /\ CurrencyMatches'
    BY <1>25, <2>1, PaidStays DEF Receive, memory, PaidInv
  <2>4. PaidForGrant' /\ RetriesPaid'
    BY <1>25, <2>1, TablesPaid DEF Receive, history
  <2> QED
    BY <2>2, <2>3, <2>4 DEF PaidInv
<1>26. ASSUME NEW p \in Processes, Crash(p) PROVE PaidInv'
  <2>1. /\ p \in Processes /\ EventsSame /\ EventsKept /\ InvoicesKept
        /\ pc[p] \notin {"idle", "stale", "retry"} =>
             /\ job[p].tx \in Txs
             /\ p \in Workers => Queued(job[p])
             /\ pc[p] \in ActivationLabels => invoice[job[p].tx] = "paid"
    BY <1>26, EventsStay, AtWork DEF Crash, Processes, InvoicesKept, PaidInv, ActivationsPaid
  <2>2. EventsPaid'
    BY <2>1, EventsPaidStay DEF PaidInv
  <2>3. ActivationsPaid' /\ CurrencyMatches'
    BY <1>26, <2>1, PaidMoves DEF Crash, DropJob, PaidInv, ActivationLabels
  <2>4. PaidForGrant' /\ RetriesPaid'
    BY <1>26, <2>1, TablesPaid DEF Crash, history
  <2> QED
    BY <2>2, <2>3, <2>4 DEF PaidInv
<1>27. CASE UNCHANGED vars
  BY <1>27 DEF vars, memory, history, bounds, PaidInv, PaidForGrant, RetriesPaid, EventsPaid,
            ActivationsPaid, CurrencyMatches, Received
<1> QED
  BY <1>1, <1>2, <1>3, <1>4, <1>5, <1>6, <1>7, <1>8, <1>9, <1>10, <1>11, <1>12, <1>13, <1>14,
     <1>15, <1>16, <1>17, <1>18, <1>19, <1>20, <1>21, <1>22, <1>23, <1>24, <1>25, <1>26, <1>27, <1>28,
     <1>29, <1>30 DEF Next, WorkerStep, JanitorStep, Activate, Processes

\* No subscription is created or renewed for a payment that was not made in full, for every number
\* of workers, janitors, events and transactions, whatever calls fail and whoever is killed
\* (webhook_handler.py, the guards before an activation; tasks.py, the activation retries).
THEOREM OnlyPaidIsGranted == Spec => []PaidForGrant
<1>1. Init => PaidInv
  <2> SUFFICES ASSUME Init PROVE PaidInv
    OBVIOUS
  <2>1. \A t \in Txs : ~tx[t].retry
    <3>1. ~NewTx.retry /\ ~Renewal(TRUE).retry /\ ~Renewal(FALSE).retry
      BY DEF NewTx, Renewal
    <3>2. \A t \in Txs : tx[t] \in {NewTx, Renewal(TRUE), Renewal(FALSE)}
      BY DEF Init
    <3> QED
      BY <3>1, <3>2
  <2>2. \A p \in Processes : pc[p] \notin ActivationLabels \cup {"update", "refetch"}
    BY DEF Init, ActivationLabels
  <2>3. EventsPaid /\ PaidForGrant
    BY DEF Init, EventsPaid, Received, NoRow, PaidForGrant
  <2> QED
    BY <2>1, <2>2, <2>3 DEF PaidInv, RetriesPaid, ActivationsPaid, CurrencyMatches, Processes
<1>2. TypeOK /\ PaidInv /\ [Next]_vars => PaidInv'
  BY PaidStep
<1>3. PaidInv => PaidForGrant
  BY DEF PaidInv
<1> QED
  BY <1>1, <1>2, <1>3, Typing, PTL DEF Spec

----------------------------------------------------------------------------
\* A write of the metadata, or of the subscription, leaves the status alone.
LEMMA MetadataKeepsStatus ==
  ASSUME TypeOK, NEW t \in Txs, NEW u \in Txs, NEW retry, NEW token, SetMetadata(t, retry, token)
  PROVE  tx'[u].status = tx[u].status
<1>1. tx[u] \in TxRow /\ tx[t] \in TxRow
  BY DEF TypeOK, TablesOK
<1> QED
  BY <1>1 DEF SetMetadata, TypeOK, TablesOK, TxRow

\* An update that is conditional on the status changes only a row that has it.
LEMMA StatusWritten ==
  ASSUME TypeOK, NEW t, NEW u \in Txs, NEW expected, NEW status, SetStatus(t, expected, status),
         tx'[u].status # tx[u].status
  PROVE  u = t /\ tx[u].status \in expected /\ tx'[u].status = status
<1>1. tx[u] \in TxRow
  BY DEF TypeOK, TablesOK
<1> QED
  BY <1>1 DEF SetStatus, TypeOK, TablesOK, TxRow

\* What changes the status of a transaction: the update of a webhook worker, from the status that
\* it read; the end, by whoever, of an attempt under way; and the start of one.
LEMMA StatusMoves ==
  ASSUME TypeOK, [Next]_vars, NEW t \in Txs, tx'[t].status # tx[t].status
  PROVE  \/ \E w \in Workers :
              /\ Update(w) /\ t = job[w].tx /\ tx[t].status = job[w].status
              /\ Admits(t, job[w].status, event[job[w].event].type)
              /\ tx'[t].status = StateOf(event[job[w].event].type)
         \/ /\ tx[t].status \in Active \cup {"absent"}
            /\ \/ tx'[t].status \in {"pending", "cancelled"}
               \/ \E j \in Janitors : Settle(j) /\ tx'[t].status = job[j].status
<1> DEFINE Goal ==
      \/ \E w \in Workers :
              /\ Update(w) /\ t = job[w].tx /\ tx[t].status = job[w].status
              /\ Admits(t, job[w].status, event[job[w].event].type)
              /\ tx'[t].status = StateOf(event[job[w].event].type)
      \/ /\ tx[t].status \in Active \cup {"absent"}
         /\ \/ tx'[t].status \in {"pending", "cancelled"}
            \/ \E j \in Janitors : Settle(j) /\ tx'[t].status = job[j].status
<1>0. tx[t] \in TxRow
  BY DEF TypeOK, TablesOK
<1>1. ASSUME NEW w \in Workers, Update(w) PROVE Goal
  <2> DEFINE x == job[w]
             type == event[x.event].type
  <2>1. /\ Admits(x.tx, x.status, type)
        /\ SetStatus(x.tx, {x.status}, StateOf(type))
    BY <1>1 DEF Update
  <2>2. t = x.tx /\ tx[t].status = x.status /\ tx'[t].status = StateOf(type)
    BY <2>1, StatusWritten
  <2> QED
    BY <1>1, <2>1, <2>2
<1>2. ASSUME NEW j \in Janitors, Settle(j) PROVE Goal
  <2>1. SetStatus(job[j].tx, Active, job[j].status)
    BY <1>2 DEF Settle
  <2>2. tx[t].status \in Active /\ tx'[t].status = job[j].status
    BY <2>1, StatusWritten
  <2> QED
    BY <1>2, <2>2
<1>3. ASSUME NEW u \in Txs, OpenAttempt(u) PROVE Goal
  BY <1>0, <1>3 DEF OpenAttempt, TxRow
<1>10. ASSUME NEW u \in Txs, IssueRenewal(u) PROVE Goal
  BY <1>10 DEF IssueRenewal, TypeOK, TablesOK, TxRow
<1>4. ASSUME NEW u \in Txs, CancelAttempt(u) PROVE Goal
  BY <1>4, StatusWritten DEF CancelAttempt
<1>5. ASSUME NEW p \in Processes, Renew(p) \/ Link(p) PROVE FALSE
  <2>1. \E u : \/ tx' = [tx EXCEPT ![u].active = TRUE]
              \/ tx' = [tx EXCEPT ![u].linked = TRUE, ![u].active = TRUE]
              \/ tx' = tx
    BY <1>5 DEF Renew, Link
  <2> QED
    BY <1>0, <2>1 DEF TypeOK, TablesOK, TxRow
<1>6. ASSUME NEW w \in Workers, Flag(w) PROVE FALSE
  <2>1. job[w].tx \in Txs
    BY <1>6, AtWork DEF Flag, Processes
  <2> QED
    BY <1>6, <2>1, MetadataKeepsStatus DEF Flag
<1>7. ASSUME NEW j \in Janitors, RetryClaim(j) PROVE FALSE
  <2>1. UNCHANGED tx \/ \E x \in batch[j] : SetMetadata(x.tx, TRUE, j)
    BY <1>7 DEF RetryClaim
  <2>2. \A x \in batch[j] : x.tx \in Txs
    BY DEF TypeOK, JanitorsOK
  <2> QED
    BY <2>1, <2>2, MetadataKeepsStatus
<1>8. ASSUME NEW j \in Janitors, Complete(j) \/ GiveUp(j) PROVE FALSE
  <2>1. job[j].tx \in Txs
    BY <1>8, AtWork DEF Complete, GiveUp, Processes
  <2>2. UNCHANGED tx \/ \E retry \in BOOLEAN : SetMetadata(job[j].tx, retry, None)
    BY <1>8 DEF Complete, GiveUp
  <2> QED
    BY <2>1, <2>2, MetadataKeepsStatus
<1>9. CASE \/ \E w \in Workers : \/ Claim(w) \/ Lookup(w) \/ Refetch(w) \/ CheckActive(w)
                                 \/ Evaluate(w) \/ ReadReward(w) \/ Revoke(w) \/ MarkProcessed(w)
                                 \/ RecordFailure(w)
           \/ \E j \in Janitors : StaleRead(j) \/ Resolve(j) \/ RetryRead(j)
           \/ \E p \in Processes : Create(p) \/ Crash(p)
           \/ \E u \in Txs : InvoiceMoves(u) \/ HoldEnds(u) \/ Release(u)
           \/ \E e \in Events : Receive(e)
           \/ UNCHANGED vars
  <2>1. UNCHANGED tx
    BY <1>9 DEF Claim, Lookup, Refetch, CheckActive, Evaluate, ReadReward, Revoke, MarkProcessed,
                RecordFailure, StaleRead, Resolve, RetryRead, Create, Crash, InvoiceMoves,
                HoldEnds, Release, Receive, vars
  <2> QED
    BY <2>1
<1> QED
  BY <1>1, <1>2, <1>3, <1>4, <1>5, <1>6, <1>7, <1>8, <1>9, <1>10
     DEF Next, WorkerStep, JanitorStep, Activate, Processes

\* The step that changes a final status is the update of a webhook worker.
LEMMA FinalStep ==
  ASSUME TypeOK, [Next]_vars, NEW t \in Txs, tx[t].status \in Final,
         tx'[t].status # tx[t].status
  PROVE  \/ tx'[t].status = "refunded"
         \/ tx'[t].status = "succeeded" /\ provider[t] = "razorpay"
         \/ tx'[t].status = "succeeded" /\ tx[t].status = "expired"
<1>1. tx[t].status \notin Active \cup {"absent"}
  BY DEF Final, Active
<1>2. PICK w \in Workers :
        /\ Update(w) /\ t = job[w].tx /\ tx[t].status = job[w].status
        /\ Admits(t, job[w].status, event[job[w].event].type)
        /\ tx'[t].status = StateOf(event[job[w].event].type)
  BY <1>1, StatusMoves
<1> DEFINE type == event[job[w].event].type
<1>3. type \in TypesOf(provider[t])
  BY <1>2, AtWork DEF Update, Processes
<1>4. CASE type = "charged"
  <2>1. provider[t] = "razorpay"
    BY <1>3, <1>4 DEF TypesOf
  <2>2. StateOf(type) = "succeeded"
    BY <1>4 DEF StateOf
  <2> QED
    BY <1>2, <2>1, <2>2
<1>5. CASE job[w].status = "expired" /\ StateOf(type) = "succeeded"
  BY <1>2, <1>5
<1>6. CASE StateOf(type) = "refunded"
  BY <1>2, <1>6
<1> QED
  BY <1>2, <1>4, <1>5, <1>6 DEF Admits

\* A transaction keeps its final status but for a refund, the charges of a Razorpay subscription and
\* the late payment of an expired invoice, whoever works from an older copy of it
\* (webhook_handler.py, tasks.py and routes.py: every update is conditional on the status).
THEOREM FinalStatusKept == Spec => FinalStatusHolds
<1>1. TypeOK /\ [Next]_vars =>
        [\A t \in Txs : tx[t].status \in Final /\ tx'[t].status # tx[t].status =>
           \/ tx'[t].status = "refunded"
           \/ tx'[t].status = "succeeded" /\ provider[t] = "razorpay"
           \/ tx'[t].status = "succeeded" /\ tx[t].status = "expired"]_vars
  BY FinalStep
<1> QED
  BY <1>1, Typing, PTL DEF Spec, FinalStatusHolds

----------------------------------------------------------------------------
(***************************************************************************)
(* One worker, no kills, and no failure of the calls that update, read     *)
(* back or revoke: a refund finds the reward of its payment, because it is *)
(* the worker that grants rewards that also refunds.                       *)
(***************************************************************************)

\* The refund of t is in the worker's hands: written and not yet followed by the revocation.
RefundInHand(t) == \E w \in Workers :
  /\ job[w].tx = t
  /\ \/ pc[w] \in {"revoke", "take_back"}
     \/ pc[w] = "refetch" /\ event[job[w].event].type = "refunded"
OnHoldInHand == \A t \in Txs : tx[t].status = "refunded" /\ reward[t] = "on_hold" => RefundInHand(t)

\* Where a worker is between reading back that a payment succeeded and the end of its event.
SucceededLabels == {"activate", "renew", "create", "link", "flag", "evaluate"}
StillSucceeded == \A w \in Workers : pc[w] \in SucceededLabels => tx[job[w].tx].status = "succeeded"

\* A janitor never settles an attempt as refunded.
SettledAs == \A j \in Janitors : pc[j] = "settle" => job[j].status # "refunded"
RefundInv == OnHoldInHand /\ StillSucceeded /\ SettledAs

\* An event keeps its transaction and its type.
LEMMA EventsKeptStep == ASSUME TypeOK, [Next]_vars PROVE EventsKept
<1>1. CASE UNCHANGED event
  BY <1>1 DEF EventsKept, Received
<1>2. ASSUME NEW w \in Workers, Claim(w) \/ MarkProcessed(w) \/ RecordFailure(w) PROVE EventsKept
  BY <1>2, ClaimKeeps, OutcomeKeeps
<1>3. ASSUME NEW e \in Events, Receive(e) PROVE EventsKept
  BY <1>3 DEF Receive, TypeOK, TablesOK, EventsKept, Received
<1>4. CASE \/ \E w \in Workers : \/ Lookup(w) \/ Update(w) \/ Refetch(w) \/ CheckActive(w)
                                 \/ Flag(w) \/ Evaluate(w) \/ ReadReward(w) \/ Revoke(w)
           \/ \E j \in Janitors : JanitorStep(j)
           \/ \E p \in Processes : Activate(p) \/ Crash(p)
           \/ \E t \in Txs : OpenAttempt(t) \/ IssueRenewal(t) \/ CancelAttempt(t)
                             \/ InvoiceMoves(t) \/ HoldEnds(t) \/ Release(t)
           \/ UNCHANGED vars
  <2>1. UNCHANGED event
    BY <1>4 DEF Lookup, Update, Refetch, CheckActive, Flag, Evaluate, ReadReward, Revoke, JanitorStep, StaleRead,
                Resolve, Settle, RetryRead, RetryClaim, Complete, GiveUp, Activate, Renew, Create, Link,
                Crash, OpenAttempt, IssueRenewal, CancelAttempt, InvoiceMoves, HoldEnds, Release, vars
  <2> QED
    BY <1>1, <2>1
<1> QED
  BY <1>2, <1>3, <1>4 DEF Next, WorkerStep, Processes

\* A process keeps its place and its row until it takes a step itself.
LEMMA OthersLeave ==
  ASSUME TypeOK, [Next]_vars, NEW p \in Processes,
         p \in Workers => ~WorkerStep(p), p \in Janitors => ~JanitorStep(p), ~Crash(p)
  PROVE  pc'[p] = pc[p] /\ job'[p] = job[p]
<1> DEFINE Goal == pc'[p] = pc[p] /\ job'[p] = job[p]
<1>1. /\ DOMAIN pc = Processes /\ DOMAIN job = Processes
      /\ pc = [q \in Processes |-> pc[q]] /\ job = [q \in Processes |-> job[q]]
  BY DEF TypeOK, MemoryOK
<1>2. ASSUME NEW q \in Processes, q # p, NEW label, NEW x,
             Goto(q, label), job' = [job EXCEPT ![q] = x] \/ UNCHANGED job
      PROVE  Goal
  BY <1>1, <1>2 DEF Goto
<1>3. ASSUME NEW w \in Workers, WorkerStep(w), w # p PROVE Goal
  <2>1. w \in Processes
    BY DEF Processes
  <2>2. CASE Claim(w)
    BY <2>2 DEF Claim
  <2>3. CASE Lookup(w)
    <3>1. PICK label, x : Goto(w, label) /\ job' = [job EXCEPT ![w] = x]
      BY <2>3 DEF Lookup, Take
    <3> QED
      BY <1>2, <1>3, <2>1, <3>1
  <2>4. CASE Update(w) \/ Refetch(w) \/ CheckActive(w) \/ Flag(w) \/ Evaluate(w)
          \/ ReadReward(w) \/ Revoke(w)
    <3>1. UNCHANGED job /\ \E label : Goto(w, label)
      BY <2>4 DEF Update, Refetch, CheckActive, Flag, Evaluate, ReadReward, Revoke
    <3> QED
      BY <1>2, <1>3, <2>1, <3>1
  <2>5. CASE Activate(w)
    <3>1. UNCHANGED job /\ \E label : Goto(w, label)
      BY <2>5 DEF Activate, Renew, Create, Link
    <3> QED
      BY <1>2, <1>3, <2>1, <3>1
  <2>6. CASE MarkProcessed(w) \/ RecordFailure(w)
    <3>1. \E label, x : Goto(w, label) /\ (job' = [job EXCEPT ![w] = x] \/ UNCHANGED job)
      BY <2>6 DEF MarkProcessed, RecordFailure, DropJob
    <3> QED
      BY <1>2, <1>3, <2>1, <3>1
  <2> QED
    BY <1>3, <2>2, <2>3, <2>4, <2>5, <2>6 DEF WorkerStep
<1>4. ASSUME NEW j \in Janitors, JanitorStep(j), j # p PROVE Goal
  <2>1. j \in Processes
    BY DEF Processes
  <2>2. CASE StaleRead(j) \/ RetryRead(j)
    <3>1. UNCHANGED job /\ \E label : Goto(j, label)
      BY <2>2 DEF StaleRead, RetryRead
    <3> QED
      BY <1>2, <1>4, <2>1, <3>1
  <2>3. CASE Resolve(j)
    <3>1. PICK x : Goto(j, "settle") /\ job' = [job EXCEPT ![j] = x]
      BY <2>3 DEF Resolve, Take
    <3> QED
      BY <1>2, <1>4, <2>1, <3>1
  <2>4. CASE Settle(j) \/ Complete(j) \/ GiveUp(j)
    <3>1. \E label, x : Goto(j, label) /\ (job' = [job EXCEPT ![j] = x] \/ UNCHANGED job)
      BY <2>4 DEF Settle, Complete, GiveUp, NextOf, EndTick, DropJob
    <3> QED
      BY <1>2, <1>4, <2>1, <3>1
  <2>5. CASE RetryClaim(j)
    <3>1. \E label, x : Goto(j, label) /\ (job' = [job EXCEPT ![j] = x] \/ UNCHANGED job)
      BY <2>5 DEF RetryClaim, Take, EndTick, DropJob
    <3> QED
      BY <1>2, <1>4, <2>1, <3>1
  <2>6. CASE Activate(j)
    <3>1. UNCHANGED job /\ \E label : Goto(j, label)
      BY <2>6 DEF Activate, Renew, Create, Link
    <3> QED
      BY <1>2, <1>4, <2>1, <3>1
  <2> QED
    BY <1>4, <2>2, <2>3, <2>4, <2>5, <2>6 DEF JanitorStep
<1>5. ASSUME NEW q \in Processes, Crash(q), q # p PROVE Goal
  BY <1>2, <1>5 DEF Crash, DropJob
<1>6. CASE \/ \E t \in Txs : OpenAttempt(t) \/ IssueRenewal(t) \/ CancelAttempt(t)
                             \/ InvoiceMoves(t) \/ HoldEnds(t) \/ Release(t)
           \/ \E e \in Events : Receive(e)
           \/ UNCHANGED vars
  BY <1>6 DEF OpenAttempt, IssueRenewal, CancelAttempt, InvoiceMoves, HoldEnds, Release, Receive, vars, memory
<1> QED
  BY <1>3, <1>4, <1>5, <1>6 DEF Next

\* A reward is put on hold by the evaluation of its payment only.
LEMMA RewardMoves ==
  ASSUME TypeOK, [Next]_vars, NEW t \in Txs, reward'[t] = "on_hold", reward[t] # "on_hold"
  PROVE  \E w \in Workers : Evaluate(w) /\ job[w].tx = t
<1>1. ASSUME NEW w \in Workers, Evaluate(w) PROVE job[w].tx = t
  <2>1. reward' = reward \/ reward' = [reward EXCEPT ![job[w].tx] = "on_hold"]
    BY <1>1 DEF Evaluate
  <2> QED
    BY <2>1 DEF TypeOK, TablesOK
<1>2. ASSUME NEW w \in Workers, Revoke(w) PROVE FALSE
  BY <1>2 DEF Revoke, TypeOK, TablesOK
<1>3. ASSUME NEW u \in Txs, HoldEnds(u) \/ Release(u) PROVE FALSE
  BY <1>3 DEF HoldEnds, Release, TypeOK, TablesOK
<1>4. CASE \/ \E w \in Workers : \/ Claim(w) \/ Lookup(w) \/ Update(w) \/ Refetch(w) \/ CheckActive(w)
                                 \/ Flag(w) \/ ReadReward(w) \/ MarkProcessed(w)
                                 \/ RecordFailure(w)
           \/ \E j \in Janitors : JanitorStep(j)
           \/ \E p \in Processes : Activate(p) \/ Crash(p)
           \/ \E u \in Txs : OpenAttempt(u) \/ IssueRenewal(u) \/ CancelAttempt(u) \/ InvoiceMoves(u)
           \/ \E e \in Events : Receive(e)
           \/ UNCHANGED vars
  BY <1>4 DEF Claim, Lookup, Update, Refetch, CheckActive, Flag, ReadReward, MarkProcessed, RecordFailure,
              JanitorStep, StaleRead, Resolve, Settle, RetryRead, RetryClaim, Complete, GiveUp, Activate,
              Renew, Create, Link, Crash, OpenAttempt, IssueRenewal, CancelAttempt, InvoiceMoves,
              Receive, vars
<1> QED
  BY <1>1, <1>2, <1>3, <1>4 DEF Next, WorkerStep, Processes

\* A worker gets among the calls that follow a success by reading back that it is one, and goes
\* from one to the next with the same row.
LEMMA SucceededMoves ==
  ASSUME TypeOK, NEW w \in Workers, WorkerStep(w), pc'[w] \in SucceededLabels
  PROVE  \/ pc[w] \in SucceededLabels /\ job'[w] = job[w]
         \/ Refetch(w) /\ job'[w] = job[w] /\ tx[job[w].tx].status = "succeeded" /\ UNCHANGED tx
<1>1. w \in Processes /\ pc \in [Processes -> WorkerLabels \cup JanitorLabels]
  BY DEF TypeOK, MemoryOK, Processes
<1>2. CASE \/ Claim(w) \/ MarkProcessed(w) \/ RecordFailure(w) \/ Lookup(w) \/ Update(w)
           \/ ReadReward(w) \/ Revoke(w)
  <2>1. \E label \in {"idle", "done", "fail", "update", "refetch", "take_back"} :
          Goto(w, label) \/ UNCHANGED pc
    BY <1>2 DEF Claim, MarkProcessed, RecordFailure, Lookup, Update, ReadReward, Revoke, DropJob
  <2>2. \/ pc'[w] \in {"idle", "done", "fail", "update", "refetch", "take_back"}
        \/ pc'[w] = pc[w]
    BY <1>1, <2>1 DEF Goto
  <2>3. pc[w] \in {"idle", "done", "fail", "update", "revoke", "take_back"}
    BY <1>2 DEF Claim, MarkProcessed, RecordFailure, Lookup, Update, ReadReward, Revoke
  <2> QED
    BY <2>2, <2>3 DEF SucceededLabels
<1>3. CASE Refetch(w)
  <2>1. /\ UNCHANGED <<tx, job>>
        /\ \/ pc'[w] = Effect(event[job[w].event].type, tx[job[w].tx].status)
           \/ pc'[w] = "fail"
    BY <1>1, <1>3 DEF Refetch, Goto
  <2>2. tx[job[w].tx].status = "succeeded"
    BY <2>1 DEF Effect, Underpaid, StateOf, SucceededLabels
  <2> QED
    BY <1>3, <2>1, <2>2
<1>4. CASE CheckActive(w) \/ Flag(w) \/ Evaluate(w) \/ Activate(w)
  BY <1>4 DEF CheckActive, Flag, Evaluate, Activate, Renew, Create, Link, SucceededLabels
<1> QED
  BY <1>2, <1>3, <1>4 DEF WorkerStep

\* Every step of one worker and any janitors keeps RefundInv.
LEMMA RefundStep ==
  ASSUME TypeOK, RefundInv, [Next]_vars, MaxCrashes = 0,
         \A v, w \in Workers : v = w, FaultyAt \cap {"update", "refetch", "revoke", "take_back"} = {}
  PROVE  RefundInv'
<1>1. \A p \in Processes : ~Crash(p)
  BY DEF Crash, TypeOK, TablesOK
<1>2. ASSUME NEW w \in Workers, ~WorkerStep(w) PROVE pc'[w] = pc[w] /\ job'[w] = job[w]
  BY <1>1, <1>2, OthersLeave, Distinct DEF Processes
<1>3. SettledAs'
  <2> SUFFICES ASSUME NEW j \in Janitors, pc'[j] = "settle" PROVE job'[j].status # "refunded"
    BY DEF SettledAs
  <2>1. j \in Processes /\ j \notin Workers
    BY Distinct DEF Processes
  <2>2. CASE Resolve(j)
    <3>1. PICK y \in batch[j], status \in {"expired", "cancelled", "succeeded", "failed"} :
            job' = [job EXCEPT ![j] = [y EXCEPT !.status = status]]
      BY <2>2 DEF Resolve, Take, Reported
    <3>2. y \in Job
      BY <2>1 DEF TypeOK, MemoryOK
    <3> QED
      BY <2>1, <3>1, <3>2 DEF TypeOK, MemoryOK, Job
  <2>3. CASE JanitorStep(j) /\ ~Resolve(j)
    <3>1. PICK label \in {"idle", "stale", "retry", "renew", "create", "link", "complete", "give_up"} :
            Goto(j, label)
      BY <2>1, <2>3 DEF JanitorStep, StaleRead, Settle, RetryRead, RetryClaim, Complete, GiveUp, NextOf,
                        EndTick, DropJob, Activate, Renew, Create, Link, OnSuccess, OnError, Activation
    <3> QED
      BY <2>1, <3>1 DEF Goto, TypeOK, MemoryOK
  <2>4. CASE ~JanitorStep(j)
    <3>1. pc'[j] = pc[j] /\ job'[j] = job[j]
      BY <1>1, <2>1, <2>4, OthersLeave
    <3> QED
      BY <3>1 DEF RefundInv, SettledAs
  <2> QED
    BY <2>2, <2>3, <2>4
<1>4. StillSucceeded'
  <2> SUFFICES ASSUME NEW w \in Workers, pc'[w] \in SucceededLabels
               PROVE  tx'[job'[w].tx].status = "succeeded"
    BY DEF StillSucceeded
  <2>1. CASE Refetch(w) /\ job'[w] = job[w] /\ tx[job[w].tx].status = "succeeded" /\ UNCHANGED tx
    BY <2>1
  <2>2. CASE pc[w] \in SucceededLabels /\ job'[w] = job[w]
    <3>1. tx[job[w].tx].status = "succeeded"
      BY <2>2 DEF RefundInv, StillSucceeded
    <3>2. job[w].tx \in Txs
      BY <2>2, AtWork DEF Processes, SucceededLabels
    <3>3. ASSUME NEW v \in Workers, Update(v) PROVE FALSE
      BY <2>2, <3>3 DEF Update, SucceededLabels
    <3>4. tx'[job[w].tx].status = tx[job[w].tx].status
      BY <3>1, <3>2, <3>3, StatusMoves DEF Active
    <3> QED
      BY <2>2, <3>1, <3>4
  <2> QED
    BY <1>2, <2>1, <2>2, SucceededMoves
<1>5. OnHoldInHand'
  <2> SUFFICES ASSUME NEW t \in Txs, tx'[t].status = "refunded", reward'[t] = "on_hold"
               PROVE  RefundInHand(t)'
    BY DEF OnHoldInHand
  <2>1. CASE tx[t].status # "refunded"
    <3>1. ASSUME NEW j \in Janitors, Settle(j) PROVE job[j].status # "refunded"
      BY <3>1 DEF RefundInv, SettledAs, Settle
    <3>2. PICK w \in Workers : /\ Update(w) /\ t = job[w].tx
                               /\ Admits(t, job[w].status, event[job[w].event].type)
                               /\ StateOf(event[job[w].event].type) = "refunded"
      BY <2>1, <3>1, StatusMoves
    <3>3. ~Fault(w)
      BY <3>2 DEF Fault, Update
    <3>4. Goto(w, "refetch") /\ UNCHANGED <<job, event>>
      BY <3>2, <3>3 DEF Update
    <3>5. pc'[w] = "refetch"
      BY <3>4 DEF Goto, TypeOK, MemoryOK, Processes
    <3>6. event[job[w].event].type = "refunded"
      <4>1. event[job[w].event].type \in TypesOf(provider[t])
        BY <3>2, AtWork DEF Update, Processes
      <4> QED
        BY <3>2, <4>1 DEF StateOf, TypesOf
    <3> QED
      BY <3>2, <3>4, <3>5, <3>6 DEF RefundInHand
  <2>2. CASE tx[t].status = "refunded" /\ reward[t] # "on_hold"
    <3>1. PICK w \in Workers : Evaluate(w) /\ job[w].tx = t
      BY <2>2, RewardMoves
    <3>2. tx[t].status = "succeeded"
      BY <3>1 DEF RefundInv, StillSucceeded, Evaluate, SucceededLabels
    <3> QED
      BY <2>2, <3>2
  <2>3. CASE tx[t].status = "refunded" /\ reward[t] = "on_hold"
    <3>1. PICK w \in Workers :
            /\ job[w].tx = t
            /\ \/ pc[w] \in {"revoke", "take_back"}
               \/ pc[w] = "refetch" /\ event[job[w].event].type = "refunded"
      BY <2>3 DEF RefundInv, OnHoldInHand, RefundInHand
    <3>2. CASE WorkerStep(w)
      <4>1. ~Fault(w)
        BY <3>1 DEF Fault
      <4>2. CASE Revoke(w)
        <5>1. reward' = [reward EXCEPT ![t] =
                           IF @ \in {"on_hold", "hold_over"} THEN "revoked" ELSE @]
          BY <3>1, <4>1, <4>2 DEF Revoke
        <5> QED
          BY <5>1 DEF TypeOK, TablesOK
      <4>4. CASE ReadReward(w)
        <5>1. Goto(w, "take_back") /\ UNCHANGED job
          BY <2>3, <3>1, <4>1, <4>4 DEF ReadReward
        <5>2. pc'[w] = "take_back"
          BY <5>1 DEF Goto, TypeOK, MemoryOK, Processes
        <5> QED
          BY <3>1, <5>1, <5>2 DEF RefundInHand
      <4>3. CASE Refetch(w)
        <5>1. Effect(event[job[w].event].type, tx[t].status) = "revoke"
          BY <2>3, <3>1, <4>3 DEF Refetch, Effect, Underpaid, StateOf
        <5>2. Goto(w, "revoke") /\ UNCHANGED job
          BY <3>1, <4>1, <4>3, <5>1 DEF Refetch
        <5>3. pc'[w] = "revoke"
          BY <5>2 DEF Goto, TypeOK, MemoryOK, Processes
        <5> QED
          BY <3>1, <5>2, <5>3 DEF RefundInHand
      <4> QED
        BY <3>1, <3>2, <4>2, <4>4, <4>3 DEF WorkerStep, Claim, Lookup, Update, CheckActive, Activate, Renew,
             Create, Link, Flag, Evaluate, MarkProcessed, RecordFailure
    <3>3. CASE ~WorkerStep(w)
      <4>1. pc'[w] = pc[w] /\ job'[w] = job[w]
        BY <1>2, <3>3
      <4>2. job[w].event \in Events /\ Received(job[w].event)
        BY <3>1, AtWork DEF Processes
      <4>3. event'[job[w].event].type = event[job[w].event].type
        BY <4>2, EventsKeptStep DEF EventsKept
      <4> QED
        BY <3>1, <4>1, <4>3 DEF RefundInHand
    <3> QED
      BY <3>2, <3>3
  <2> QED
    BY <2>1, <2>2, <2>3
<1> QED
  BY <1>3, <1>4, <1>5 DEF RefundInv

\* A payment that was refunded leaves no reward whose hold still runs, for every number of janitors,
\* events and transactions, when one worker runs, nobody is killed, and the status update, the
\* read that follows it and the two calls of the revocation do not fail (webhook_handler.py, the
\* effects of an event follow the status that is read back, and one event is handled after the other;
\* reward_revocation.py, a hold that ends between the two calls is no obstacle).
THEOREM RefundsRevoke ==
  ASSUME MaxCrashes = 0, \A v, w \in Workers : v = w,
         FaultyAt \cap {"update", "refetch", "revoke", "take_back"} = {}
  PROVE  Spec => []RefundEndsTheHold
<1>1. Init => RefundInv
  <2> SUFFICES ASSUME Init PROVE RefundInv
    OBVIOUS
  <2>1. \A t \in Txs : reward[t] = "none"
    BY DEF Init
  <2>2. \A p \in Processes : pc[p] = "idle"
    BY DEF Init
  <2> QED
    BY <2>1, <2>2 DEF RefundInv, OnHoldInHand, StillSucceeded, SettledAs, SucceededLabels, Processes
<1>2. TypeOK /\ RefundInv /\ [Next]_vars => RefundInv'
  BY RefundStep
<1>3. RefundInv => RefundEndsTheHold
  BY DEF RefundInv, OnHoldInHand, RefundInHand, RefundEndsTheHold
<1> QED
  BY <1>1, <1>2, <1>3, Typing, PTL DEF Spec
=============================================================================
