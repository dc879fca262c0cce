---------------------------- MODULE ContentProofs ----------------------------
(***************************************************************************)
(* Theorems about what the services publish: how news get into the tables, *)
(* and how the web service's caches serve what is in tables.               *)
(*                                                                         *)
(* Of News, for any site, any number of backfills, faults and kills, and   *)
(* whatever the scraping and AI services answer:                           *)
(*                                                                         *)
(*   VectorsAlwaysMatch  no row names the vector of another article;       *)
(*   NothingStoredTwice  a second row of an article has a reason;          *)
(*   RangesAccounted     a range counts each of its articles once.         *)
(*                                                                         *)
(* The first rests on FullInv: what is in the hands of a backfill that is  *)
(* between its row and the link to the vector.  The other two rest on      *)
(* NewsInv: what a range has counted when it is at an article (RangeOf),   *)
(* and that an article on its way to the table has no complete row that    *)
(* its backfill could have seen (ClearOf).                                 *)
(*                                                                         *)
(* Of WebCaches, for any number of requests, any times to live and any     *)
(* interleaving of requests, webhooks and changes:                         *)
(*                                                                         *)
(*   NobodyWaitsForEver      whoever waits for a leader is woken;          *)
(*   NothingOlderThanItsLife what is served is not older than its life     *)
(*                           and its handler's, the reads included         *)
(*                           (AgeInv: the age of what each one has);       *)
(*   ClearedStaysGone        what a webhook clears is served again only    *)
(*                           from the hand, or from a key of its own, of   *)
(*                           a handler (ClearInv).                         *)
(***************************************************************************)
EXTENDS News, WebCaches, WellFoundedInduction, TLAPS

----------------------------------------------------------------------------
\* News: rows and vectors.

\* Rows and vectors are sequences of whatever was put into them.
Sequential == (\E S : rows \in Seq(S)) /\ (\E S : vectors \in Seq(S))

FullInv == VectorsInv /\ Sequential

\* What becomes of a backfill between two articles.
LEMMA GoesOn ==
  ASSUME NEW r, {"pc", "cur", "vector"} \subseteq DOMAIN r
  PROVE  /\ \A why : /\ Done(r, why).pc = "report"
                     /\ {"pc", "cur", "vector"} \subseteq DOMAIN Done(r, why)
         /\ NextOfRun(r).pc \in {"check", "report"}
         /\ {"pc", "cur", "vector"} \subseteq DOMAIN NextOfRun(r)
         /\ NextOfRange(r).pc \in {"check", "report", "analyze"}
         /\ {"pc", "cur", "vector"} \subseteq DOMAIN NextOfRange(r)
BY DEF Done, NextOfRun, NextOfRange

Elsewhere(r) == r.pc \notin {"vector", "link"} /\ {"pc", "cur", "vector"} \subseteq DOMAIN r

LEMMA NoWorkElsewhere == Elsewhere(NoWork)
BY DEF Elsewhere, NoWork

LEMMA OutcomesElsewhere ==
  ASSUME NEW r, {"pc", "cur", "vector"} \subseteq DOMAIN r
  PROVE  Elsewhere(Succeed(r)) /\ Elsewhere(Skip(r)) /\ Elsewhere(Fail(r)) /\ Elsewhere(Defer(r))
<1>1. \A x : {"pc", "cur", "vector"} \subseteq DOMAIN x => Elsewhere(NextOfRun(x)) /\ Elsewhere(NextOfRange(x))
  BY GoesOn DEF Elsewhere
<1>2. Elsewhere(Succeed(r))
  BY <1>1 DEF Succeed
<1>3. Elsewhere(Skip(r))
  BY <1>1 DEF Skip
<1>4. Elsewhere(Fail(r))
  BY <1>1, NoWorkElsewhere DEF Fail
<1>5. Elsewhere(Defer(r))
  BY <1>1, <1>4 DEF Defer
<1> QED
  BY <1>2, <1>3, <1>4, <1>5

LEMMA ThoughtElsewhere ==
  ASSUME NEW r, {"pc", "cur", "vector"} \subseteq DOMAIN r, NEW thought
  PROVE  Elsewhere(Think(r, thought))
<1>1. Elsewhere([r EXCEPT !.pc = "insert", !.complete = thought = "ok"])
  BY DEF Elsewhere
<1> QED
  BY <1>1, NoWorkElsewhere, OutcomesElsewhere DEF Think

\* A step of one backfill that leaves the tables as they are.
LEMMA TablesStay ==
  ASSUME FullInv, NEW w \in Workers, NEW r, Elsewhere(r), work' = [work EXCEPT ![w] = r],
         UNCHANGED <<rows, vectors>>
  PROVE  FullInv'
<1>1. DOMAIN work' = Workers /\ \A x \in Workers : work'[x] = work[x] \/ Elsewhere(work'[x])
  BY DEF FullInv, VectorsInv
<1>2. \A x \in Workers : AtVectors(work'[x])
  BY <1>1 DEF FullInv, VectorsInv, AtVectors, Elsewhere
<1>3. \A x \in Workers : AtVectors(work[x])'
  BY <1>2 DEF AtVectors, HasRow
<1> QED
  BY <1>1, <1>3 DEF FullInv, VectorsInv, VectorsMatch, HasRow, Sequential

LEMMA FullAlways == Spec => []FullInv
<1>1. Init => FullInv
  <2> SUFFICES ASSUME Init PROVE FullInv
    OBVIOUS
  <2>1. rows \in Seq([id : Ids, complete : BOOLEAN, vector : {0}, excused : BOOLEAN, by : {0}, during : {{}}])
    BY StoredAssumption DEF Init
  <2>2. /\ DOMAIN rows = 1 .. Len(rows)
        /\ \A i \in DOMAIN rows : {"id", "vector"} \subseteq DOMAIN rows[i] /\ rows[i].vector = 0
    <3> DEFINE R == [id : Ids, complete : BOOLEAN, vector : {0}, excused : BOOLEAN, by : {0}, during : {{}}]
    <3>1. \A x \in R : {"id", "vector"} \subseteq DOMAIN x /\ x.vector = 0
      OBVIOUS
    <3>2. rows \in Seq(R)
      BY <2>1
    <3> HIDE DEF R
    <3>3. DOMAIN rows = 1 .. Len(rows) /\ \A i \in DOMAIN rows : rows[i] \in R
      BY <3>2
    <3> QED
      BY <3>1, <3>3
  <2>3. vectors = <<>> /\ vectors \in Seq({}) /\ DOMAIN vectors = {} /\ Len(vectors) = 0
    BY DEF Init
  <2>4. \A w \in Workers : AtVectors(work[w])
    BY NoWorkElsewhere DEF Init, AtVectors, Elsewhere
  <2> QED
    BY <2>1, <2>2, <2>3, <2>4 DEF Init, FullInv, VectorsInv, VectorsMatch, Sequential
<1>2. FullInv /\ [Next]_vars => FullInv'
  <2> SUFFICES ASSUME FullInv, [Next]_vars PROVE FullInv'
    OBVIOUS
  <2> USE DEF Set, At, NoFault, Fault
  <2>1. \A w \in Workers : AtVectors(work[w]) /\ {"pc", "cur", "vector"} \subseteq DOMAIN work[w]
    BY DEF FullInv, VectorsInv, AtVectors
  <2>2. ASSUME NEW w \in Workers, StartRun(w) \/ StartRange(w) \/ Kill(w) \/ Report(w) PROVE FullInv'
    <3>1. \E r : Elsewhere(r) /\ work' = [work EXCEPT ![w] = r]
      <4>1. CASE StartRun(w)
        <5>1. \A n, l : Elsewhere([NoWork EXCEPT !.pc = "check", !.no = n, !.mode = "run", !.left = l,
                                    !.limited = l # 0, !.cur = Beyond(LastAnalyzed + 1)])
          BY DEF Elsewhere, NoWork
        <5>2. CASE Set(w, NoWork)
          BY <5>2, NoWorkElsewhere
        <5>3. CASE \E limit \in Limits :
                     Set(w, [NoWork EXCEPT !.pc = "check", !.no = starts + 1, !.mode = "run", !.left = limit,
                                           !.limited = limit # 0, !.cur = Beyond(LastAnalyzed + 1)])
          <6>1. PICK limit \in Limits :
                  Set(w, [NoWork EXCEPT !.pc = "check", !.no = starts + 1, !.mode = "run", !.left = limit,
                                        !.limited = limit # 0, !.cur = Beyond(LastAnalyzed + 1)])
            BY <5>3
          <6> DEFINE x == [NoWork EXCEPT !.pc = "check", !.no = starts + 1, !.mode = "run", !.left = limit,
                                         !.limited = limit # 0, !.cur = Beyond(LastAnalyzed + 1)]
          <6>2. Elsewhere(x)
            BY DEF Elsewhere, NoWork
          <6>3. Set(w, x)
            BY <6>1
          <6> HIDE DEF x
          <6> QED
            BY <6>2, <6>3
        <5> QED
          BY <4>1, <5>2, <5>3 DEF StartRun
      <4>2. CASE StartRange(w)
        <5>1. \A n, c, f, low, high :
                Elsewhere([[NoWork EXCEPT !.no = n, !.mode = "range", !.cont = c, !.force = f,
                             !.cur = low, !.first = low, !.last = high] EXCEPT !.pc = "check"])
          <6>1. \A x : {"pc", "cur", "vector"} \subseteq DOMAIN x => Elsewhere([x EXCEPT !.pc = "check"])
            BY DEF Elsewhere
          <6>2. \A n, c, f, low, high :
                  {"pc", "cur", "vector"} \subseteq
                    DOMAIN [NoWork EXCEPT !.no = n, !.mode = "range", !.cont = c, !.force = f,
                             !.cur = low, !.first = low, !.last = high]
            BY DEF NoWork
          <6> QED
            BY <6>1, <6>2
        <5> QED
          BY <4>2, <5>1, NoWorkElsewhere DEF StartRange
      <4> QED
        BY <2>2, <4>1, <4>2, NoWorkElsewhere DEF Kill, Report
    <3> QED
      BY <2>2, <3>1, TablesStay DEF StartRun, StartRange, Kill, Report
  <2>3. ASSUME NEW w \in Workers, Check(w) \/ Prepare(w) \/ Rethink(w) PROVE FullInv'
    <3> DEFINE r == work[w]
    <3>1. \E x : Elsewhere(x) /\ work' = [work EXCEPT ![w] = x]
      <4>1. CASE Check(w)
        <5>1. /\ Elsewhere([r EXCEPT !.pc = "scrape"])
              /\ \A e : Elsewhere([r EXCEPT !.pc = "scrape", !.excused = e])
          BY <2>1 DEF Elsewhere
        <5> QED
          BY <2>1, <4>1, <5>1, OutcomesElsewhere DEF Check
      <4>2. CASE Prepare(w)
        BY <2>1, <4>2, OutcomesElsewhere, ThoughtElsewhere DEF Prepare
      <4>3. CASE Rethink(w)
        BY <2>1, <4>3, ThoughtElsewhere DEF Rethink
      <4> QED
        BY <2>3, <4>1, <4>2, <4>3
    <3> QED
      BY <2>3, <3>1, TablesStay DEF Check, Prepare, Rethink
  <2>4. ASSUME NEW w \in Workers, Insert(w) PROVE FullInv'
    <3> DEFINE r == work[w]
    <3>1. CASE UNCHANGED rows /\ work' = [work EXCEPT ![w] = Fail(r)]
      BY <2>1, <2>4, <3>1, OutcomesElsewhere, TablesStay DEF Insert
    <3>2. CASE /\ rows' = Append(rows, Row(r.cur, r.complete, r.cur \in r.excused, r.no, Running))
               /\ work' = [work EXCEPT ![w] = [r EXCEPT !.pc = "vector", !.complete = FALSE]]
      <4> DEFINE row == Row(r.cur, r.complete, r.cur \in r.excused, r.no, Running)
      <4>1. row.id = r.cur /\ row.vector = 0 /\ {"id", "vector"} \subseteq DOMAIN row
        BY DEF Row
      <4> HIDE DEF row
      <4>2. rows' = Append(rows, row) /\ UNCHANGED vectors
        BY <2>4, <3>2 DEF Insert, row
      <4>3. PICK S : rows \in Seq(S)
        BY DEF FullInv, Sequential
      <4>4. rows \in Seq(S \cup {row})
        BY <4>3
      <4>5. /\ rows' \in Seq(S \cup {row}) /\ Len(rows') = Len(rows) + 1
            /\ rows'[Len(rows) + 1] = row /\ \A i \in 1 .. Len(rows) : rows'[i] = rows[i]
        BY <4>2, <4>4
      <4>6. /\ DOMAIN rows' = 1 .. Len(rows') /\ Len(rows) \in Nat
            /\ DOMAIN rows' = DOMAIN rows \cup {Len(rows) + 1}
        BY <4>3, <4>5
      <4>7. (\E i \in DOMAIN rows' : rows'[i].id = r.cur) /\ \A id : HasRow(id) => HasRow(id)'
        <5>1. Len(rows) + 1 \in DOMAIN rows' /\ rows'[Len(rows) + 1].id = r.cur
          BY <4>1, <4>5, <4>6
        <5>2. \A i \in DOMAIN rows : i \in DOMAIN rows' /\ rows'[i] = rows[i]
          BY <4>5, <4>6 DEF FullInv, VectorsInv
        <5>3. \A id : HasRow(id) => HasRow(id)'
          BY <5>2 DEF HasRow
        <5> QED
          BY <5>1, <5>3
      <4>8. /\ DOMAIN work' = Workers /\ \A x \in Workers \ {w} : work'[x] = work[x]
            /\ work'[w].pc = "vector" /\ work'[w].cur = r.cur
            /\ {"pc", "cur", "vector"} \subseteq DOMAIN work'[w]
        BY <2>1, <3>2 DEF FullInv, VectorsInv
      <4>9. \A x \in Workers : AtVectors(work[x])'
        BY <2>1, <4>2, <4>7, <4>8 DEF AtVectors, HasRow
      <4>10. \A i \in DOMAIN rows' : /\ {"id", "vector"} \subseteq DOMAIN rows'[i]
                                     /\ rows'[i].vector # 0 => /\ rows'[i].vector \in DOMAIN vectors
                                                               /\ vectors[rows'[i].vector] = rows'[i].id
        BY <4>1, <4>5, <4>6 DEF FullInv, VectorsInv, VectorsMatch
      <4>11. \A k \in DOMAIN vectors : HasRow(vectors[k])'
        BY <4>2, <4>7 DEF FullInv, VectorsInv, VectorsMatch
      <4>12. Sequential'
        BY <4>2, <4>5 DEF FullInv, Sequential
      <4> HIDE DEF r
      <4>13. VectorsMatch'
        <5>1. vectors' = vectors
          BY <4>2
        <5>2. \A i \in DOMAIN rows' : rows'[i].vector # 0 => vectors'[rows'[i].vector] = rows'[i].id
          BY <4>10, <5>1
        <5>3. \A k \in DOMAIN vectors' : HasRow(vectors[k])'
          BY <4>11, <5>1
        <5> QED
          BY <5>2, <5>3 DEF VectorsMatch
      <4>14. DOMAIN vectors' = 1 .. Len(vectors')
        BY <4>2 DEF FullInv, VectorsInv
      <4>15. VectorsInv'
        <5>1. DOMAIN vectors' = DOMAIN vectors
          BY <4>2
        <5>2. \A i \in DOMAIN rows' : /\ {"id", "vector"} \subseteq DOMAIN rows'[i]
                                      /\ rows'[i].vector # 0 => rows'[i].vector \in DOMAIN vectors'
          BY <4>10, <5>1
        <5> QED
          BY <4>6, <4>8, <4>9, <4>13, <4>14, <5>2 DEF VectorsInv
      <4> QED
        BY <4>12, <4>15 DEF FullInv
    <3> QED
      BY <2>4, <3>1, <3>2 DEF Insert
  <2>5. ASSUME NEW w \in Workers, Vector(w) PROVE FullInv'
    <3> DEFINE r == work[w]
    <3>1. CASE UNCHANGED vectors /\ work' = [work EXCEPT ![w] = Succeed(r)]
      BY <2>1, <2>5, <3>1, OutcomesElsewhere, TablesStay DEF Vector
    <3>2. CASE /\ vectors' = Append(vectors, r.cur)
               /\ work' = [work EXCEPT ![w] = [r EXCEPT !.pc = "link", !.vector = Len(vectors) + 1]]
      <4>1. PICK S : vectors \in Seq(S)
        BY DEF FullInv, Sequential
      <4>2. vectors \in Seq(S \cup {r.cur})
        BY <4>1
      <4>3. /\ vectors' \in Seq(S \cup {r.cur}) /\ Len(vectors') = Len(vectors) + 1 /\ Len(vectors) \in Nat
            /\ vectors'[Len(vectors) + 1] = r.cur /\ \A k \in 1 .. Len(vectors) : vectors'[k] = vectors[k]
        BY <3>2, <4>2
      <4>4. /\ DOMAIN vectors' = 1 .. Len(vectors') /\ DOMAIN vectors \subseteq DOMAIN vectors'
            /\ DOMAIN vectors' = DOMAIN vectors \cup {Len(vectors) + 1}
            /\ \A k \in DOMAIN vectors : vectors'[k] = vectors[k]
        BY <4>1, <4>3
      <4>5. HasRow(r.cur) /\ UNCHANGED rows /\ \A id : HasRow(id) => HasRow(id)'
        BY <2>1, <2>5 DEF Vector, AtVectors, HasRow
      <4>6. /\ DOMAIN work' = Workers /\ \A x \in Workers \ {w} : work'[x] = work[x]
            /\ work'[w].pc = "link" /\ work'[w].cur = r.cur /\ work'[w].vector = Len(vectors) + 1
            /\ {"pc", "cur", "vector"} \subseteq DOMAIN work'[w]
        BY <2>1, <3>2 DEF FullInv, VectorsInv
      <4>7. \A x \in Workers : AtVectors(work[x])'
        BY <2>1, <4>3, <4>4, <4>5, <4>6 DEF AtVectors
      <4>8. VectorsMatch'
        BY <4>3, <4>4, <4>5 DEF FullInv, VectorsInv, VectorsMatch
      <4> QED
        BY <4>3, <4>4, <4>5, <4>6, <4>7, <4>8 DEF FullInv, VectorsInv, Sequential
    <3> QED
      BY <2>5, <3>1, <3>2 DEF Vector
  <2>6. ASSUME NEW w \in Workers, Link(w) PROVE FullInv'
    <3> DEFINE r == work[w]
               after == Succeed([r EXCEPT !.vector = 0])
    <3>1. Elsewhere(after)
      BY <2>1, OutcomesElsewhere
    <3>2. CASE UNCHANGED rows
      BY <2>6, <3>1, <3>2, TablesStay DEF Link
    <3>3. CASE rows' = [i \in DOMAIN rows |->
                          IF rows[i].id = r.cur THEN [rows[i] EXCEPT !.vector = r.vector] ELSE rows[i]]
      <4> HIDE DEF after
      <4>1. PICK S : rows \in Seq(S)
        BY DEF FullInv, Sequential
      <4>2. DOMAIN rows = 1 .. Len(rows) /\ Len(rows) \in Nat
        BY <4>1
      <4> DEFINE T == S \cup {[rows[i] EXCEPT !.vector = r.vector] : i \in DOMAIN rows}
      <4>3. \A i \in DOMAIN rows : rows'[i] \in T
        BY <3>3, <4>1, <4>2
      <4>4. DOMAIN rows' = DOMAIN rows /\ rows' \in [1 .. Len(rows) -> T]
        BY <3>3, <4>2, <4>3
      <4> HIDE DEF T
      <4>5. rows' \in Seq(T) /\ Len(rows') = Len(rows) /\ DOMAIN rows' = 1 .. Len(rows')
        BY <4>2, <4>4
      <4>6. \A i \in DOMAIN rows : /\ rows'[i].id = rows[i].id /\ {"id", "vector"} \subseteq DOMAIN rows'[i]
                                   /\ rows'[i].vector = IF rows[i].id = r.cur THEN r.vector ELSE rows[i].vector
        BY <3>3 DEF FullInv, VectorsInv
      <4>7. /\ UNCHANGED vectors /\ r.vector \in DOMAIN vectors /\ vectors[r.vector] = r.cur
        BY <2>1, <2>6 DEF Link, AtVectors
      <4>8. \A id : HasRow(id)' <=> HasRow(id)
        BY <4>4, <4>6 DEF HasRow
      <4>9. DOMAIN work' = Workers /\ \A x \in Workers : work'[x] = work[x] \/ Elsewhere(work'[x])
        BY <2>6, <3>1 DEF Link, FullInv, VectorsInv, after
      <4>10. \A x \in Workers : AtVectors(work[x])'
        BY <2>1, <4>7, <4>8, <4>9 DEF AtVectors, Elsewhere
      <4>11. /\ \A i \in DOMAIN rows' : rows'[i].vector # 0 => /\ rows'[i].vector \in DOMAIN vectors
                                                               /\ vectors[rows'[i].vector] = rows'[i].id
             /\ \A k \in DOMAIN vectors : HasRow(vectors[k])'
        BY <4>4, <4>6, <4>7, <4>8 DEF FullInv, VectorsInv, VectorsMatch
      <4> QED
        BY <4>4, <4>5, <4>6, <4>7, <4>9, <4>10, <4>11
           DEF FullInv, VectorsInv, VectorsMatch, Sequential, HasRow
    <3> QED
      BY <2>6, <3>2, <3>3 DEF Link
  <2>7. CASE UNCHANGED vars
    BY <2>7 DEF vars, FullInv, VectorsInv, AtVectors, VectorsMatch, HasRow, Sequential
  <2> QED
    BY <2>2, <2>3, <2>4, <2>5, <2>6, <2>7 DEF Next, Step
<1> QED
  BY <1>1, <1>2, PTL DEF Spec

\* VectorsMatch: whatever backfills run, fail or are killed between insert_vector_embedding and
\* update_vector_store_id, no row names the vector of another article, and no vector has no row.
THEOREM VectorsAlwaysMatch == Spec => []VectorsMatch
<1>1. FullInv => VectorsMatch
  BY DEF FullInv, VectorsInv
<1> QED
  BY <1>1, FullAlways, PTL

----------------------------------------------------------------------------
\* Numbers of articles are well ordered.

LEMMA Least ==
  ASSUME NEW S, S \subseteq Nat, S # {}
  PROVE  \E x \in S : \A y \in S : x <= y
<1>1. PICK x \in S : \A y \in S : <<y, x>> \notin OpToRel(<, Nat)
  BY NatLessThanWellFounded, WFMin, Zenon
<1>2. ASSUME NEW y \in S PROVE x <= y
  <2>1. <<y, x>> \in Nat \X Nat /\ <<y, x>>[1] = y /\ <<y, x>>[2] = x
    OBVIOUS
  <2>2. y < x => <<y, x>> \in OpToRel(<, Nat)
    BY <2>1, Zenon DEF OpToRel
  <2>3. ~(y < x)
    BY <1>1, <2>2, Zenon
  <2> QED
    BY <2>3
<1> QED
  BY <1>2

----------------------------------------------------------------------------
\* What a backfill has counted, and which rows it may still add.

Pcs == {"idle", "check", "scrape", "analyze", "insert", "vector", "link", "report"}
Work ==
  [pc : Pcs, why : {"", "range", "limit", "misses"}, no : Nat, mode : {"", "run", "range"}, cur : Nat, first : Nat,
   last : Nat, left : Nat, limited : BOOLEAN, force : BOOLEAN, cont : BOOLEAN, misses : Nat, complete : BOOLEAN,
   vector : Nat, redo : BOOLEAN, excused : SUBSET Nat, stored : SUBSET Nat, skipped : SUBSET Nat,
   broken : SUBSET Nat, postponed : SUBSET Nat, deferred : SUBSET Nat]

\* A range has counted its articles up to one, each once; what it counts as stored has a row.
Counted(r) == r.stored \cup r.skipped \cup r.broken \cup r.postponed
Apart(r) ==
  /\ r.stored \cap r.skipped = {} /\ r.stored \cap r.broken = {} /\ r.stored \cap r.postponed = {}
  /\ r.skipped \cap r.broken = {} /\ r.skipped \cap r.postponed = {} /\ r.broken \cap r.postponed = {}
Walk(r, upto) ==
  /\ r.cur \in r.first .. r.last
  /\ Apart(r) /\ Counted(r) = r.first .. upto
  /\ r.deferred \subseteq r.postponed /\ (r.broken # {} => r.cont)
  /\ \A id \in r.stored \cup (r.postponed \ r.deferred) : HasRow(id)

\* Before its second pass the article at hand is not counted; in it, it is one of the deferred ones.
RangeOf(r) ==
  /\ r.mode = "run" /\ r.pc = "report" => r.why # "range"
  /\ r.pc # "idle" => r.mode \in {"run", "range"}
  /\ r.pc # "idle" /\ r.mode = "range" =>
       /\ Walk(r, IF r.redo \/ r.pc = "report" THEN r.last ELSE r.cur - 1)
       /\ r.redo /\ r.pc # "report" => r.cur \in r.deferred
       /\ r.pc \in {"check", "scrape"} => ~r.redo
       /\ r.pc = "analyze" => r.redo
  /\ r.mode # "range" \/ r.pc = "idle" => r.deferred = {} /\ r.pc # "analyze"

\* An article that is about to be stored, now or in the second pass, has no complete row yet, unless
\* by another backfill that stored it when this one was running; or it is excused.
Unmet(r, id) ==
  \A i \in DOMAIN rows :
    rows[i].id = id /\ rows[i].complete /\ id \notin r.excused => rows[i].by # r.no /\ r.no \in rows[i].during
ClearOf(r) ==
  /\ r.pc \in {"scrape", "analyze", "insert"} => Unmet(r, r.cur)
  /\ \A id \in r.deferred : id # r.cur \/ r.pc \notin {"vector", "link"} => Unmet(r, id)

Good(r) == r \in Work /\ RangeOf(r) /\ ClearOf(r)
LeadsTo(x, r) == Good(x) /\ (x = NoWork \/ x.no = r.no)

LEMMA NoWorkIsGood == Good(NoWork) /\ NoWork.no = 0 /\ NoWork.pc = "idle"
<1>1. NoWork \in Work
  BY DEF NoWork, Work, Pcs
<1>2. NoWork.pc = "idle" /\ NoWork.mode = "" /\ NoWork.deferred = {} /\ NoWork.no = 0
  BY DEF NoWork
<1> QED
  BY <1>1, <1>2 DEF Good, RangeOf, ClearOf

\* The next number of a walk.
LEMMA RunGoesOn ==
  ASSUME NEW r \in Work, r.mode = "run", r.deferred = {}
  PROVE  LeadsTo(NextOfRun(r), r)
<1>1. ASSUME NEW why \in {"limit", "misses"} PROVE LeadsTo(Done(r, why), r)
  <2> DEFINE x == Done(r, why)
  <2>1. x \in Work /\ x.pc = "report" /\ x.mode = "run" /\ x.deferred = {} /\ x.why # "range" /\ x.no = r.no
    BY <1>1 DEF Done, Work, Pcs
  <2> HIDE DEF x
  <2> QED
    BY <2>1 DEF LeadsTo, Good, RangeOf, ClearOf, x
<1>2. LeadsTo([r EXCEPT !.pc = "check", !.cur = Beyond(@ + 1)], r)
  <2> DEFINE next == Beyond(r.cur + 1)
             x == [r EXCEPT !.pc = "check", !.cur = next]
  <2>1. next \in Nat
    <3>1. r.cur \in Nat
      BY DEF Work
    <3> QED
      BY <3>1, NewsAssumption DEF Beyond
  <2> HIDE DEF next
  <2>2. x \in Work /\ x.pc = "check" /\ x.mode = "run" /\ x.deferred = {} /\ x.no = r.no
    BY <2>1 DEF Work, Pcs
  <2> HIDE DEF x
  <2> QED
    BY <2>2 DEF LeadsTo, Good, RangeOf, ClearOf, x, next
<1> QED
  BY <1>1, <1>2 DEF NextOfRun

\* The next number of a range of which this one is counted.
LEMMA RangeGoesOn ==
  ASSUME NEW r \in Work, r.mode = "range", Walk(r, IF r.redo THEN r.last ELSE r.cur),
         \A id \in r.deferred : Unmet(r, id)
  PROVE  LeadsTo(NextOfRange(r), r)
<1>1. /\ r.cur \in Nat /\ r.first \in Nat /\ r.last \in Nat /\ r.redo \in BOOLEAN
      /\ r.deferred \subseteq Counted(r) /\ r.cur <= r.last /\ r.deferred \subseteq Nat
  <2>1. /\ r.cur \in Nat /\ r.first \in Nat /\ r.last \in Nat /\ r.redo \in BOOLEAN
        /\ r.deferred \subseteq Nat
    BY DEF Work
  <2> QED
    BY <2>1 DEF Walk, Counted
<1> DEFINE ahead == {id \in r.deferred : ~r.redo \/ id > r.cur}
<1>2. CASE ~r.redo /\ r.cur < r.last
  <2> DEFINE c == r.cur + 1
             x == [r EXCEPT !.pc = "check", !.cur = c]
  <2>0. c \in Nat /\ c = r.cur + 1
    BY <1>1
  <2> HIDE DEF c
  <2>1. /\ x \in Work /\ x.pc = "check" /\ x.cur = c /\ x.mode = "range" /\ x.no = r.no
        /\ x.first = r.first /\ x.last = r.last /\ x.cont = r.cont /\ x.redo = r.redo /\ x.excused = r.excused
        /\ x.stored = r.stored /\ x.skipped = r.skipped /\ x.broken = r.broken /\ x.postponed = r.postponed
        /\ x.deferred = r.deferred
    BY <2>0 DEF Work, Pcs
  <2> HIDE DEF x
  <2>2. Walk(x, x.cur - 1)
    BY <1>1, <1>2, <2>0, <2>1 DEF Walk, Apart, Counted
  <2>3. \A id \in x.deferred : Unmet(x, id)
    BY <2>1 DEF Unmet
  <2>4. NextOfRange(r) = x
    BY <1>2 DEF NextOfRange, x, c
  <2> QED
    BY <1>2, <2>1, <2>2, <2>3, <2>4 DEF LeadsTo, Good, RangeOf, ClearOf
<1>3. CASE ~(~r.redo /\ r.cur < r.last) /\ ahead = {}
  <2> DEFINE x == Done(r, "range")
  <2>1. /\ x \in Work /\ x.pc = "report" /\ x.cur = r.cur /\ x.mode = "range" /\ x.no = r.no
        /\ x.first = r.first /\ x.last = r.last /\ x.cont = r.cont /\ x.redo = r.redo /\ x.excused = r.excused
        /\ x.stored = r.stored /\ x.skipped = r.skipped /\ x.broken = r.broken /\ x.postponed = r.postponed
        /\ x.deferred = r.deferred
    BY DEF Done, Work, Pcs
  <2> HIDE DEF x
  <2>2. Walk(x, x.last)
    BY <1>1, <1>3, <2>1 DEF Walk, Apart, Counted
  <2>3. \A id \in x.deferred : Unmet(x, id)
    BY <2>1 DEF Unmet
  <2>4. NextOfRange(r) = x
    BY <1>3 DEF NextOfRange, x
  <2> QED
    BY <2>1, <2>2, <2>3, <2>4 DEF LeadsTo, Good, RangeOf, ClearOf
<1>4. CASE ~(~r.redo /\ r.cur < r.last) /\ ahead # {}
  <2> DEFINE next == CHOOSE id \in ahead : \A other \in ahead : id <= other
             x == [r EXCEPT !.pc = "analyze", !.redo = TRUE, !.cur = next]
  <2>1. next \in ahead
    <3>1. ahead \subseteq Nat
      BY <1>1
    <3>2. \E id \in ahead : \A other \in ahead : id <= other
      BY <1>4, <3>1, Least
    <3> QED
      BY <3>2
  <2>2. next \in r.deferred /\ next \in Nat
    BY <1>1, <2>1
  <2> HIDE DEF next
  <2>3. /\ x \in Work /\ x.pc = "analyze" /\ x.cur = next /\ x.mode = "range" /\ x.no = r.no
        /\ x.first = r.first /\ x.last = r.last /\ x.cont = r.cont /\ x.redo = TRUE /\ x.excused = r.excused
        /\ x.stored = r.stored /\ x.skipped = r.skipped /\ x.broken = r.broken /\ x.postponed = r.postponed
        /\ x.deferred = r.deferred
    BY <2>2 DEF Work, Pcs
  <2> HIDE DEF x
  <2>4. Counted(r) = r.first .. r.last
    BY <1>1, <1>4 DEF Walk
  <2>5. Walk(x, x.last)
    BY <1>1, <2>2, <2>3, <2>4 DEF Walk, Apart, Counted
  <2>6. \A id \in x.deferred : Unmet(x, id)
    BY <2>3 DEF Unmet
  <2>7. NextOfRange(r) = x
    BY <1>4 DEF NextOfRange, x, next
  <2> QED
    BY <2>2, <2>3, <2>5, <2>6, <2>7 DEF LeadsTo, Good, RangeOf, ClearOf
<1> QED
  BY <1>2, <1>3, <1>4

----------------------------------------------------------------------------
\* The outcomes of an article.

\* What a record keeps when a backfill counts its article.
Keeps(x, r) ==
  /\ x \in Work /\ x.pc = r.pc /\ x.mode = r.mode /\ x.no = r.no /\ x.cur = r.cur
  /\ x.first = r.first /\ x.last = r.last /\ x.redo = r.redo /\ x.cont = r.cont /\ x.excused = r.excused

\* A walk goes on from any article.
LEMMA RunOutcomes ==
  ASSUME NEW r, Good(r), r.mode = "run"
  PROVE  LeadsTo(Succeed(r), r) /\ LeadsTo(Skip(r), r) /\ LeadsTo(Fail(r), r) /\ LeadsTo(Defer(r), r)
<1>1. r \in Work /\ r.deferred = {} /\ r.misses \in Nat /\ r.left \in Nat
  BY DEF Good, RangeOf, Work
<1>2. ASSUME NEW m \in Nat
      PROVE  LeadsTo(NextOfRun([r EXCEPT !.misses = m]), r)
  <2> DEFINE x == [r EXCEPT !.misses = m]
  <2>1. x \in Work /\ x.mode = "run" /\ x.deferred = {} /\ x.no = r.no
    BY <1>1 DEF Work
  <2> HIDE DEF x
  <2> QED
    BY <2>1, RunGoesOn DEF LeadsTo, x
<1>3. ASSUME NEW l \in Nat
      PROVE  LeadsTo(NextOfRun([r EXCEPT !.misses = 0, !.left = l]), r)
  <2> DEFINE x == [r EXCEPT !.misses = 0, !.left = l]
  <2>1. x \in Work /\ x.mode = "run" /\ x.deferred = {} /\ x.no = r.no
    BY <1>1 DEF Work
  <2> HIDE DEF x
  <2> QED
    BY <2>1, RunGoesOn DEF LeadsTo, x
<1>4. LeadsTo(Succeed(r), r)
  <2> DEFINE l == IF r.left = 0 THEN 0 ELSE r.left - 1
  <2>1. l \in Nat
    BY <1>1
  <2>2. Succeed(r) = NextOfRun([r EXCEPT !.misses = 0, !.left = l])
    BY DEF Succeed
  <2> HIDE DEF l
  <2> QED
    BY <1>3, <2>1, <2>2
<1>5. r.misses + 1 \in Nat
  BY <1>1
<1>6. Skip(r) = NextOfRun([r EXCEPT !.misses = r.misses + 1]) /\ Fail(r) = Skip(r) /\ Defer(r) = Skip(r)
  BY DEF Skip, Fail, Defer
<1> QED
  BY <1>2, <1>4, <1>5, <1>6

\* A range counts its article as skipped, broken, postponed or stored.
LEMMA RangeSkips ==
  ASSUME NEW r, Good(r), r.mode = "range", r.pc \in {"check", "scrape"}
  PROVE  LeadsTo(Skip(r), r)
<1>1. /\ r \in Work /\ ~r.redo /\ Walk(r, r.cur - 1) /\ r.cur \in Nat /\ r.first \in Nat
      /\ \A id \in r.deferred : Unmet(r, id)
  BY DEF Good, RangeOf, ClearOf, Work
<1> DEFINE v == r.skipped \cup {r.cur}
           x == [r EXCEPT !.skipped = v]
<1>2. v \in SUBSET Nat /\ v = r.skipped \cup {r.cur}
  BY DEF Good, Work
<1> HIDE DEF v
<1>3. /\ Keeps(x, r) /\ x.stored = r.stored /\ x.skipped = v /\ x.broken = r.broken
      /\ x.postponed = r.postponed /\ x.deferred = r.deferred
  BY <1>1, <1>2 DEF Keeps, Work
<1> HIDE DEF x
<1>4. Walk(x, x.cur)
  BY <1>1, <1>2, <1>3 DEF Walk, Apart, Counted, Keeps
<1>5. \A id \in x.deferred : Unmet(x, id)
  BY <1>1, <1>3 DEF Unmet, Keeps
<1>6. LeadsTo(NextOfRange(x), x)
  BY <1>1, <1>3, <1>4, <1>5, RangeGoesOn DEF Keeps
<1>7. Skip(r) = NextOfRange(x)
  BY DEF Skip, x, v
<1> QED
  BY <1>3, <1>6, <1>7 DEF LeadsTo, Keeps

LEMMA RangeFails ==
  ASSUME NEW r, Good(r), r.mode = "range", r.pc \in {"scrape", "analyze", "insert"}
  PROVE  LeadsTo(Fail(r), r)
<1>1. /\ r \in Work /\ Walk(r, IF r.redo THEN r.last ELSE r.cur - 1) /\ r.cur \in Nat /\ r.first \in Nat
      /\ r.redo \in BOOLEAN /\ \A id \in r.deferred : Unmet(r, id)
  BY DEF Good, RangeOf, ClearOf, Work
<1>2. CASE r.redo
  BY <1>1, <1>2, RangeGoesOn DEF Fail
<1>3. CASE ~r.redo /\ r.cont
  <2> DEFINE v == r.broken \cup {r.cur}
             x == [r EXCEPT !.broken = v]
  <2>1. v \in SUBSET Nat /\ v = r.broken \cup {r.cur}
    BY <1>1 DEF Work
  <2> HIDE DEF v
  <2>2. /\ Keeps(x, r) /\ x.stored = r.stored /\ x.skipped = r.skipped /\ x.broken = v
        /\ x.postponed = r.postponed /\ x.deferred = r.deferred
    BY <1>1, <2>1 DEF Keeps, Work
  <2> HIDE DEF x
  <2>3. Walk(x, x.cur)
    BY <1>1, <1>3, <2>1, <2>2 DEF Walk, Apart, Counted, Keeps
  <2>4. \A id \in x.deferred : Unmet(x, id)
    BY <1>1, <2>1, <2>2 DEF Unmet, Keeps
  <2>5. LeadsTo(NextOfRange(x), x)
    BY <1>3, <2>2, <2>3, <2>4, RangeGoesOn DEF Keeps
  <2>6. Fail(r) = NextOfRange(x)
    BY <1>3 DEF Fail, x, v
  <2> QED
    BY <2>2, <2>5, <2>6 DEF LeadsTo, Keeps
<1>4. CASE ~r.redo /\ ~r.cont
  BY <1>4, NoWorkIsGood DEF Fail, LeadsTo
<1> QED
  BY <1>1, <1>2, <1>3, <1>4

LEMMA RangeDefers ==
  ASSUME NEW r, Good(r), r.mode = "range", r.pc \in {"scrape", "analyze"}
  PROVE  LeadsTo(Defer(r), r)
<1>1. CASE r.redo
  BY <1>1, RangeFails DEF Defer
<1>2. CASE ~r.redo
  <2>1. /\ r \in Work /\ Walk(r, r.cur - 1) /\ r.cur \in Nat /\ r.first \in Nat
        /\ Unmet(r, r.cur) /\ \A id \in r.deferred : Unmet(r, id)
    BY <1>2 DEF Good, RangeOf, ClearOf, Work
  <2> DEFINE v == r.postponed \cup {r.cur}
             u == r.deferred \cup {r.cur}
             x == [r EXCEPT !.postponed = v, !.deferred = u]
  <2>2. v \in SUBSET Nat /\ u \in SUBSET Nat /\ v = r.postponed \cup {r.cur} /\ u = r.deferred \cup {r.cur}
    BY <2>1 DEF Work
  <2> HIDE DEF v, u
  <2>3. /\ Keeps(x, r) /\ x.stored = r.stored /\ x.skipped = r.skipped /\ x.broken = r.broken
        /\ x.postponed = v /\ x.deferred = u
    BY <2>1, <2>2 DEF Keeps, Work
  <2> HIDE DEF x
  <2>4. Walk(x, x.cur)
    BY <2>1, <2>2, <2>3 DEF Walk, Apart, Counted, Keeps
  <2>5. \A id \in x.deferred : Unmet(x, id)
    BY <2>1, <2>2, <2>3 DEF Unmet, Keeps
  <2>6. LeadsTo(NextOfRange(x), x)
    BY <1>2, <2>3, <2>4, <2>5, RangeGoesOn DEF Keeps
  <2>7. Defer(r) = NextOfRange(x)
    BY <1>2 DEF Defer, x, v, u
  <2> QED
    BY <2>3, <2>6, <2>7 DEF LeadsTo, Keeps
<1> QED
  BY <1>1, <1>2 DEF Good, Work

LEMMA RangeSucceeds ==
  ASSUME NEW r, Good(r), r.mode = "range", r.pc \in {"vector", "link"}, HasRow(r.cur)
  PROVE  LeadsTo(Succeed(r), r)
<1>1. /\ r \in Work /\ Walk(r, IF r.redo THEN r.last ELSE r.cur - 1) /\ r.cur \in Nat /\ r.first \in Nat
      /\ r.redo \in BOOLEAN /\ \A id \in r.deferred : id # r.cur => Unmet(r, id)
  BY DEF Good, RangeOf, ClearOf, Work
<1>2. CASE r.redo
  <2> DEFINE v == r.deferred \ {r.cur}
             x == [r EXCEPT !.deferred = v]
  <2>1. v \in SUBSET Nat /\ v = r.deferred \ {r.cur}
    BY <1>1 DEF Work
  <2> HIDE DEF v
  <2>2. /\ Keeps(x, r) /\ x.stored = r.stored /\ x.skipped = r.skipped /\ x.broken = r.broken
        /\ x.postponed = r.postponed /\ x.deferred = v
    BY <1>1, <2>1 DEF Keeps, Work
  <2> HIDE DEF x
  <2>3. Walk(x, x.last)
    BY <1>1, <1>2, <2>1, <2>2 DEF Walk, Apart, Counted, Keeps
  <2>4. \A id \in x.deferred : Unmet(x, id)
    BY <1>1, <2>1, <2>2 DEF Unmet, Keeps
  <2>5. LeadsTo(NextOfRange(x), x)
    BY <1>2, <2>2, <2>3, <2>4, RangeGoesOn DEF Keeps
  <2>6. Succeed(r) = NextOfRange(x)
    BY <1>2 DEF Succeed, x, v
  <2> QED
    BY <2>2, <2>5, <2>6 DEF LeadsTo, Keeps
<1>3. CASE ~r.redo
  <2> DEFINE v == r.stored \cup {r.cur}
             x == [r EXCEPT !.stored = v]
  <2>1. v \in SUBSET Nat /\ v = r.stored \cup {r.cur}
    BY <1>1 DEF Work
  <2> HIDE DEF v
  <2>2. /\ Keeps(x, r) /\ x.stored = v /\ x.skipped = r.skipped /\ x.broken = r.broken
        /\ x.postponed = r.postponed /\ x.deferred = r.deferred
    BY <1>1, <2>1 DEF Keeps, Work
  <2> HIDE DEF x
  <2>3. Walk(x, x.cur)
    BY <1>1, <1>3, <2>1, <2>2 DEF Walk, Apart, Counted, Keeps
  <2>4. r.cur \notin r.deferred
    BY <1>1, <1>3 DEF Walk, Counted
  <2>5. \A id \in x.deferred : Unmet(x, id)
    BY <1>1, <2>2, <2>4 DEF Unmet, Keeps
  <2>6. LeadsTo(NextOfRange(x), x)
    BY <1>3, <2>2, <2>3, <2>5, RangeGoesOn DEF Keeps
  <2>7. Succeed(r) = NextOfRange(x)
    BY <1>3 DEF Succeed, x, v
  <2> QED
    BY <2>2, <2>6, <2>7 DEF LeadsTo, Keeps
<1> QED
  BY <1>1, <1>2, <1>3

\* A backfill that is not idle walks or takes a range.
LEMMA Outcomes ==
  ASSUME NEW r, Good(r)
  PROVE  /\ r.pc \in {"check", "scrape"} => LeadsTo(Skip(r), r)
         /\ r.pc \in {"scrape", "analyze", "insert"} => LeadsTo(Fail(r), r)
         /\ r.pc \in {"scrape", "analyze"} => LeadsTo(Defer(r), r)
         /\ r.pc \in {"vector", "link"} /\ HasRow(r.cur) => LeadsTo(Succeed(r), r)
<1>1. r.pc # "idle" => r.mode = "run" \/ r.mode = "range"
  BY DEF Good, RangeOf
<1> QED
  BY <1>1, RunOutcomes, RangeSkips, RangeFails, RangeDefers, RangeSucceeds

LEMMA ThoughtLeads ==
  ASSUME NEW r, Good(r), r.pc \in {"scrape", "analyze"}, NEW thought
  PROVE  LeadsTo(Think(r, thought), r)
<1>1. LeadsTo([r EXCEPT !.pc = "insert", !.complete = thought = "ok"], r)
  <2> DEFINE b == thought = "ok"
             x == [r EXCEPT !.pc = "insert", !.complete = b]
  <2>1. b \in BOOLEAN
    OBVIOUS
  <2> HIDE DEF b
  <2>2. /\ x \in Work /\ x.pc = "insert" /\ x.mode = r.mode /\ x.no = r.no /\ x.cur = r.cur
        /\ x.first = r.first /\ x.last = r.last /\ x.redo = r.redo /\ x.cont = r.cont /\ x.excused = r.excused
        /\ x.stored = r.stored /\ x.skipped = r.skipped /\ x.broken = r.broken
        /\ x.postponed = r.postponed /\ x.deferred = r.deferred
    BY <2>1 DEF Good, Work, Pcs
  <2> HIDE DEF x
  <2>3. RangeOf(x)
    BY <2>2 DEF Good, RangeOf, Walk, Apart, Counted
  <2>4. ClearOf(x)
    BY <2>2 DEF Good, ClearOf, Unmet
  <2> QED
    BY <2>2, <2>3, <2>4 DEF LeadsTo, Good, x, b
<1> QED
  BY <1>1, NoWorkIsGood, Outcomes DEF Think, LeadsTo

----------------------------------------------------------------------------
\* The inductive invariant.

RowType == [id : Nat, complete : BOOLEAN, vector : Nat, excused : BOOLEAN, by : Nat, during : SUBSET Nat]

\* No two backfills that run have the same number.
Numbered ==
  /\ \A w \in Workers : work[w].no <= starts /\ (work[w].pc # "idle" => work[w].no # 0)
  /\ \A w, x \in Workers : w # x /\ work[w].pc # "idle" => work[w].no # work[x].no

NewsInv ==
  /\ rows \in Seq(RowType) /\ starts \in Nat
  /\ DOMAIN work = Workers /\ \A w \in Workers : Good(work[w])
  /\ Numbered

\* What every step keeps.
Continues == NewsInv' /\ (DuplicateExplained => DuplicateExplained')

\* A record that takes the place of another one, or that has the next number.
Replaces(x, r) ==
  /\ x \in Work
  /\ \/ x = NoWork
     \/ x.no = r.no /\ r.pc # "idle" /\ starts' = starts
     \/ x.no = starts + 1 /\ starts' = starts + 1

LEMMA NumbersKeep ==
  ASSUME NewsInv, NEW w \in Workers, NEW x, Replaces(x, work[w]), work' = [work EXCEPT ![w] = x],
         starts' \in {starts, starts + 1}
  PROVE  Numbered' /\ starts' \in Nat
<1>1. /\ starts \in Nat /\ DOMAIN work = Workers /\ x.no \in Nat
      /\ \A z \in Workers : work[z].no \in Nat /\ work[z].no <= starts
      /\ \A z \in Workers : work[z].pc # "idle" => work[z].no # 0
      /\ \A y, z \in Workers : y # z /\ work[y].pc # "idle" => work[y].no # work[z].no
  BY DEF NewsInv, Good, Work, Numbered, Replaces
<1>2. /\ work'[w] = x /\ \A z \in Workers : z # w => work'[z] = work[z]
  BY <1>1
<1>3. starts' \in Nat /\ starts <= starts'
  BY <1>1
<1>4. CASE x = NoWork
  <2>1. x.no = 0 /\ x.pc = "idle"
    BY <1>4, NoWorkIsGood
  <2> QED
    BY <1>1, <1>2, <1>3, <2>1 DEF Numbered
<1>5. CASE x.no = work[w].no /\ work[w].pc # "idle" /\ starts' = starts
  BY <1>1, <1>2, <1>3, <1>5 DEF Numbered
<1>6. CASE x.no = starts + 1 /\ starts' = starts + 1
  BY <1>1, <1>2, <1>3, <1>6 DEF Numbered
<1> QED
  BY <1>3, <1>4, <1>5, <1>6 DEF Replaces

\* The rows stay, or change only in the vector that they name.
SameRows ==
  /\ rows' \in Seq(RowType) /\ DOMAIN rows' = DOMAIN rows
  /\ \A i \in DOMAIN rows :
       /\ rows'[i].id = rows[i].id /\ rows'[i].complete = rows[i].complete
       /\ rows'[i].excused = rows[i].excused
       /\ rows'[i].by = rows[i].by /\ rows'[i].during = rows[i].during

LEMMA BackfillMoves ==
  ASSUME NewsInv, NEW w \in Workers, NEW x, Good(x), Replaces(x, work[w]),
         work' = [work EXCEPT ![w] = x], starts' \in {starts, starts + 1}, SameRows
  PROVE  Continues
<1>1. Numbered' /\ starts' \in Nat
  BY NumbersKeep
<1>2. \A id : HasRow(id)' <=> HasRow(id)
  BY DEF SameRows, HasRow
<1>3. \A r, id : Unmet(r, id)' <=> Unmet(r, id)
  BY DEF SameRows, Unmet
<1>4. \A r : Good(r) => Good(r)'
  BY <1>2, <1>3 DEF Good, RangeOf, ClearOf, Walk
<1>5. DOMAIN work' = Workers /\ \A z \in Workers : Good(work'[z])
  BY DEF NewsInv
<1>6. \A z \in Workers : Good(work[z])'
  BY <1>4, <1>5
<1>7. DuplicateExplained => DuplicateExplained'
  BY DEF SameRows, DuplicateExplained
<1> QED
  BY <1>1, <1>5, <1>6, <1>7 DEF Continues, NewsInv, SameRows

----------------------------------------------------------------------------
\* The steps.

\* Backfills between their articles, with the rows as they are.
LEMMA BackfillGoesOn ==
  ASSUME NewsInv, NEW w \in Workers, NEW x, LeadsTo(x, work[w]), work[w].pc # "idle",
         work' = [work EXCEPT ![w] = x], UNCHANGED starts, SameRows
  PROVE  Continues
<1>1. Good(x) /\ Replaces(x, work[w])
  BY DEF LeadsTo, Replaces, Good
<1> QED
  BY <1>1, BackfillMoves

LEMMA RowsUnchanged ==
  ASSUME NewsInv, UNCHANGED rows
  PROVE  SameRows
BY DEF NewsInv, SameRows

\* The first article of a walk, and of a range.
LEMMA StartsKeep ==
  ASSUME NewsInv, NEW w \in Workers, StartRun(w) \/ StartRange(w)
  PROVE  Continues
<1> USE DEF Set, At
<1>1. starts \in Nat /\ starts' = starts + 1 /\ UNCHANGED rows /\ SameRows
  BY RowsUnchanged DEF NewsInv, StartRun, StartRange
<1>2. CASE work' = [work EXCEPT ![w] = NoWork]
  <2>1. Good(NoWork) /\ Replaces(NoWork, work[w])
    BY NoWorkIsGood DEF Replaces, Good
  <2> QED
    BY <1>1, <1>2, <2>1, BackfillMoves
<1>3. ASSUME NEW limit \in Limits, rows # <<>>,
             work' = [work EXCEPT ![w] =
                        [NoWork EXCEPT !.pc = "check", !.no = starts + 1, !.mode = "run", !.left = limit,
                                       !.limited = limit # 0, !.cur = Beyond(LastAnalyzed + 1)]]
      PROVE  Continues
  <2> DEFINE c == Beyond(LastAnalyzed + 1)
             n == starts + 1
             b == limit # 0
             x == [NoWork EXCEPT !.pc = "check", !.no = n, !.mode = "run", !.left = limit,
                                 !.limited = b, !.cur = c]
  <2>1. c \in Nat
    <3>1. rows[Len(rows)] \in RowType
      BY <1>3 DEF NewsInv
    <3>2. LastAnalyzed \in Nat
      BY <3>1 DEF LastAnalyzed, RowType
    <3> QED
      BY <3>2, NewsAssumption DEF Beyond
  <2>2. n \in Nat /\ limit \in Nat /\ b \in BOOLEAN
    BY <1>1, NewsAssumption
  <2>3. work' = [work EXCEPT ![w] = x]
    BY <1>3
  <2>n. n = starts + 1
    OBVIOUS
  <2> HIDE DEF c, n, b
  <2>4. x \in Work /\ x.pc = "check" /\ x.mode = "run" /\ x.deferred = {} /\ x.no = n
    BY <2>1, <2>2 DEF NoWork, Work, Pcs
  <2> HIDE DEF x
  <2>5. Good(x)
    BY <2>4 DEF Good, RangeOf, ClearOf
  <2> QED
    BY <1>1, <2>3, <2>4, <2>5, <2>n, BackfillMoves DEF Replaces
<1>4. ASSUME NEW low \in Ids, NEW high \in Ids, low <= high, NEW c \in BOOLEAN, NEW f \in BOOLEAN,
             work' = [work EXCEPT ![w] =
                        [[NoWork EXCEPT !.no = starts + 1, !.mode = "range", !.cont = c,
                                        !.force = f, !.cur = low, !.first = low, !.last = high]
                           EXCEPT !.pc = "check"]]
      PROVE  Continues
  <2> DEFINE n == starts + 1
             y == [NoWork EXCEPT !.no = n, !.mode = "range", !.cont = c,
                                        !.force = f, !.cur = low, !.first = low, !.last = high]
             x == [y EXCEPT !.pc = "check"]
  <2>1. n \in Nat /\ low \in Nat /\ high \in Nat
    BY <1>1 DEF Ids
  <2>2. work' = [work EXCEPT ![w] = x]
    BY <1>4
  <2>n. n = starts + 1
    OBVIOUS
  <2> HIDE DEF n
  <2>3. /\ y \in Work /\ y.mode = "range" /\ y.no = n /\ y.cur = low /\ y.first = low /\ y.last = high
        /\ y.redo = FALSE /\ y.excused = {} /\ y.stored = {} /\ y.skipped = {} /\ y.broken = {}
        /\ y.postponed = {} /\ y.deferred = {}
    BY <2>1 DEF NoWork, Work, Pcs
  <2> HIDE DEF y
  <2>4. /\ x \in Work /\ x.mode = "range" /\ x.no = n /\ x.cur = low /\ x.first = low /\ x.last = high
        /\ x.redo = FALSE /\ x.excused = {} /\ x.stored = {} /\ x.skipped = {} /\ x.broken = {}
        /\ x.postponed = {} /\ x.deferred = {} /\ x.pc = "check"
    BY <2>3 DEF Work, Pcs
  <2> HIDE DEF x
  <2>5. Walk(x, x.cur - 1)
    BY <1>4, <2>1, <2>4 DEF Walk, Apart, Counted
  <2>6. Good(x)
    BY <2>4, <2>5 DEF Good, RangeOf, ClearOf
  <2> QED
    BY <1>1, <2>2, <2>4, <2>6, <2>n, BackfillMoves DEF Replaces
<1>5. CASE StartRun(w)
  BY <1>2, <1>3, <1>5 DEF StartRun
<1>6. CASE StartRange(w)
  <2>1. PICK range \in Ranges, option \in Options, reached \in BOOLEAN :
          LET low  == IF range[1] <= range[2] THEN range[1] ELSE range[2]
              high == IF range[1] <= range[2] THEN range[2] ELSE range[1]
              r    == [NoWork EXCEPT !.no = starts + 1, !.mode = "range", !.cont = option[1],
                                     !.force = option[2], !.cur = low, !.first = low, !.last = high]
          IN  Set(w, IF reached THEN [r EXCEPT !.pc = "check"] ELSE NoWork)
    BY <1>6 DEF StartRange
  <2> DEFINE low  == IF range[1] <= range[2] THEN range[1] ELSE range[2]
             high == IF range[1] <= range[2] THEN range[2] ELSE range[1]
  <2>2. range[1] \in Ids /\ range[2] \in Ids /\ option[1] \in BOOLEAN /\ option[2] \in BOOLEAN
    BY NewsAssumption
  <2>3. low \in Ids /\ high \in Ids /\ low <= high
    BY <2>2 DEF Ids
  <2>4. CASE ~reached
    BY <1>2, <2>1, <2>4
  <2>5. CASE reached
    <3>1. work' = [work EXCEPT ![w] =
                    [[NoWork EXCEPT !.no = starts + 1, !.mode = "range", !.cont = option[1],
                                    !.force = option[2], !.cur = low, !.first = low, !.last = high]
                       EXCEPT !.pc = "check"]]
      BY <2>1, <2>5
    <3> HIDE DEF low, high
    <3> QED
      BY <1>4, <2>2, <2>3, <3>1
  <2> QED
    BY <2>4, <2>5
<1> QED
  BY <1>5, <1>6

\* The check lets an article pass that has no complete row, or excuses it.
LEMMA CheckKeeps ==
  ASSUME NewsInv, NEW w \in Workers, Check(w)
  PROVE  Continues
<1> DEFINE r == work[w]
<1>1. /\ Good(r) /\ r.pc = "check" /\ SameRows /\ UNCHANGED starts
  BY RowsUnchanged DEF NewsInv, Check, At
<1>2. r \in Work /\ r.cur \in Nat /\ r.excused \in SUBSET Nat /\ ClearOf(r) /\ RangeOf(r)
  BY <1>1 DEF Good, Work
<1>3. \A e \in SUBSET Nat : r.excused \subseteq e /\ (Analyzed(r.cur) => r.cur \in e)
                              => LeadsTo([r EXCEPT !.pc = "scrape", !.excused = e], r)
  <2> TAKE e \in SUBSET Nat
  <2> HAVE r.excused \subseteq e /\ (Analyzed(r.cur) => r.cur \in e)
  <2> HIDE DEF r
  <2> DEFINE x == [r EXCEPT !.pc = "scrape", !.excused = e]
  <2>1. /\ x \in Work /\ x.pc = "scrape" /\ x.mode = r.mode /\ x.no = r.no /\ x.cur = r.cur /\ x.cont = r.cont
        /\ x.first = r.first /\ x.last = r.last /\ x.redo = r.redo /\ x.excused = e
        /\ x.stored = r.stored /\ x.skipped = r.skipped /\ x.broken = r.broken
        /\ x.postponed = r.postponed /\ x.deferred = r.deferred
    BY <1>2 DEF Work, Pcs
  <2> HIDE DEF x
  <2>2. RangeOf(x)
    BY <1>1, <1>2, <2>1 DEF RangeOf, Walk, Apart, Counted
  <2>3. ClearOf(x)
    BY <1>1, <1>2, <2>1 DEF ClearOf, Unmet, Analyzed
  <2> QED
    BY <2>1, <2>2, <2>3 DEF LeadsTo, Good, x
<1>4. [r EXCEPT !.pc = "scrape"] = [r EXCEPT !.pc = "scrape", !.excused = r.excused]
  BY <1>2 DEF Work
<1>5. LeadsTo(Skip(r), r)
  BY <1>1, Outcomes
<1>6. \E x : LeadsTo(x, r) /\ work' = [work EXCEPT ![w] = x]
  <2>1. CASE ~Analyzed(r.cur) /\ work' = [work EXCEPT ![w] = [r EXCEPT !.pc = "scrape"]]
    BY <1>2, <1>3, <1>4, <2>1
  <2>2. CASE work' = [work EXCEPT ![w] = [r EXCEPT !.pc = "scrape", !.excused = @ \cup {r.cur}]]
    <3> DEFINE e == r.excused \cup {r.cur}
    <3>1. e \in SUBSET Nat /\ r.excused \subseteq e /\ r.cur \in e
      BY <1>2
    <3>2. work' = [work EXCEPT ![w] = [r EXCEPT !.pc = "scrape", !.excused = e]]
      BY <2>2
    <3> HIDE DEF e
    <3> QED
      BY <1>3, <3>1, <3>2
  <2>3. CASE work' = [work EXCEPT ![w] = Skip(r)]
    BY <1>5, <2>3
  <2> QED
    BY <2>1, <2>2, <2>3 DEF Check, Set
<1> QED
  BY <1>1, <1>6, BackfillGoesOn

LEMMA ThoughtsKeep ==
  ASSUME NewsInv, NEW w \in Workers, Prepare(w) \/ Rethink(w)
  PROVE  Continues
<1> DEFINE r == work[w]
<1>1. Good(r) /\ r.pc \in {"scrape", "analyze"} /\ SameRows /\ UNCHANGED starts
  BY RowsUnchanged DEF NewsInv, Prepare, Rethink, At
<1>2. \A thought : LeadsTo(Think(r, thought), r)
  BY <1>1, ThoughtLeads
<1>3. \E x : LeadsTo(x, r) /\ work' = [work EXCEPT ![w] = x]
  <2>1. CASE Prepare(w)
    <3>1. LeadsTo(Fail(r), r) /\ LeadsTo(Skip(r), r)
      BY <1>1, <2>1, Outcomes DEF Prepare, At
    <3> QED
      BY <1>2, <2>1, <3>1 DEF Prepare, Set
  <2>2. CASE Rethink(w)
    BY <1>2, <2>2 DEF Rethink, Set
  <2> QED
    BY <2>1, <2>2
<1> QED
  BY <1>1, <1>3, BackfillGoesOn

\* The backfill that stored an article, at its vector.
AtItsVector(x, r) ==
  /\ x \in Work /\ x.pc = "vector" /\ x.mode = r.mode /\ x.no = r.no /\ x.cur = r.cur /\ x.cont = r.cont
  /\ x.first = r.first /\ x.last = r.last /\ x.redo = r.redo /\ x.excused = r.excused
  /\ x.stored = r.stored /\ x.skipped = r.skipped /\ x.broken = r.broken
  /\ x.postponed = r.postponed /\ x.deferred = r.deferred

LEMMA GoesToVector ==
  ASSUME NEW r \in Work
  PROVE  AtItsVector([r EXCEPT !.pc = "vector", !.complete = FALSE], r)
BY DEF Work, Pcs, AtItsVector

\* A new row: no other backfill that runs has its number, and the backfill that writes it neither
\* found nor wrote a complete row of the article before.
LEMMA InsertAdds ==
  ASSUME NewsInv, NEW w \in Workers, UNCHANGED starts,
         NEW r, r = work[w], r.pc = "insert",
         NEW row \in RowType, row.id = r.cur, row.excused <=> r.cur \in r.excused, row.by = r.no,
         row.during = Running,
         NEW x, AtItsVector(x, r),
         rows' = Append(rows, row), work' = [work EXCEPT ![w] = x]
  PROVE  Continues
<1>1. Good(r) /\ r \in Work
  BY DEF NewsInv, Good
<1>2. /\ x \in Work /\ x.pc = "vector" /\ x.mode = r.mode /\ x.no = r.no /\ x.cur = r.cur /\ x.cont = r.cont
      /\ x.first = r.first /\ x.last = r.last /\ x.redo = r.redo /\ x.excused = r.excused
      /\ x.stored = r.stored /\ x.skipped = r.skipped /\ x.broken = r.broken
      /\ x.postponed = r.postponed /\ x.deferred = r.deferred
  BY DEF AtItsVector
<1>3. PICK n \in Nat : n = Len(rows) + 1
  BY DEF NewsInv
<1>4. rows \in Seq(RowType) /\ Len(rows) \in Nat /\ DOMAIN rows = 1 .. Len(rows)
  BY DEF NewsInv
<1>5. /\ rows' \in Seq(RowType) /\ Len(rows') = n
      /\ rows'[n] = row /\ \A i \in 1 .. Len(rows) : rows'[i] = rows[i]
  BY <1>3, <1>4
<1>6. /\ DOMAIN rows' = DOMAIN rows \cup {n} /\ \A i \in DOMAIN rows : i < n /\ rows'[i] = rows[i]
      /\ n \in DOMAIN rows' /\ \A j \in DOMAIN rows' : j = n \/ j \in DOMAIN rows
  BY <1>3, <1>4, <1>5
<1>7. \A id : HasRow(id) => HasRow(id)'
  BY <1>6 DEF HasRow
<1>8. \A y, id : Unmet(y, id) /\ (id # r.cur \/ (y.no # r.no /\ y.no \in Running)) => Unmet(y, id)'
  BY <1>5, <1>6 DEF Unmet
<1>9. Good(x)'
  <2>1. \A id \in x.deferred : id # x.cur => Unmet(x, id)
    BY <1>1, <1>2 DEF Good, ClearOf, Unmet
  <2>2. \A id \in x.deferred : id # x.cur => Unmet(x, id)'
    BY <1>2, <1>8, <2>1
  <2>3. ClearOf(x)'
    BY <1>2, <2>2 DEF ClearOf
  <2>4. RangeOf(x)'
    BY <1>1, <1>2, <1>7 DEF Good, RangeOf, Walk, Apart, Counted
  <2> QED
    BY <1>2, <2>3, <2>4 DEF Good
<1>10. ASSUME NEW z \in Workers, z # w, NEW y, y = work[z] PROVE Good(y)'
  <2>1. Good(y)
    BY <1>10 DEF NewsInv
  <2>2. y.pc # "idle" => y.no # r.no /\ y.no \in Running
    BY <1>10 DEF NewsInv, Numbered, Running
  <2>3. RangeOf(y)'
    BY <1>7, <2>1 DEF Good, RangeOf, Walk, Apart, Counted
  <2>4. y.pc = "idle" => ClearOf(y)'
    BY <2>1 DEF Good, RangeOf, ClearOf
  <2>5. y.pc # "idle" => ClearOf(y)'
    BY <1>8, <2>1, <2>2 DEF Good, ClearOf
  <2> QED
    BY <2>1, <2>3, <2>4, <2>5 DEF Good
<1>11. DOMAIN work' = Workers /\ work'[w] = x /\ \A z \in Workers : z # w => work'[z] = work[z]
  BY DEF NewsInv
<1>12. \A z \in Workers : Good(work[z])'
  <2> TAKE z \in Workers
  <2>1. CASE z = w
    BY <1>9, <1>11, <2>1
  <2>2. CASE z # w
    BY <1>10, <1>11, <2>2
  <2> QED
    BY <2>1, <2>2
<1>13. Numbered' /\ starts' \in Nat
  <2>1. Replaces(x, work[w])
    BY <1>2 DEF Replaces
  <2> QED
    BY <2>1, NumbersKeep
<1>14. ASSUME DuplicateExplained PROVE DuplicateExplained'
  <2>1. \A i \in DOMAIN rows : rows[i].id = row.id /\ rows[i].complete /\ ~row.excused
                                 => rows[i].by # row.by /\ row.by \in rows[i].during
    BY <1>1 DEF Good, ClearOf, Unmet
  <2> SUFFICES ASSUME NEW i \in DOMAIN rows', NEW j \in DOMAIN rows', i < j, rows'[i].id = rows'[j].id,
                      rows'[i].complete, ~rows'[j].excused
               PROVE  rows'[i].by # rows'[j].by /\ rows'[j].by \in rows'[i].during
    BY DEF DuplicateExplained
  <2>2. i \in DOMAIN rows /\ rows'[i] = rows[i]
    BY <1>3, <1>4, <1>6
  <2>3. CASE j = n
    BY <1>5, <2>1, <2>2, <2>3
  <2>4. CASE j \in DOMAIN rows
    BY <1>6, <1>14, <2>2, <2>4 DEF DuplicateExplained
  <2> QED
    BY <1>6, <2>3, <2>4
<1> QED
  BY <1>5, <1>11, <1>12, <1>13, <1>14 DEF Continues, NewsInv

LEMMA InsertKeeps ==
  ASSUME NewsInv, NEW w \in Workers, Insert(w)
  PROVE  Continues
<1>1. PICK r : r = work[w]
  OBVIOUS
<1>2. Good(r) /\ r.pc = "insert" /\ r \in Work /\ UNCHANGED starts
  BY <1>1 DEF NewsInv, Insert, At, Good
<1>3. CASE UNCHANGED rows /\ work' = [work EXCEPT ![w] = Fail(r)]
  <2>1. LeadsTo(Fail(r), work[w]) /\ work[w].pc # "idle"
    BY <1>1, <1>2, Outcomes
  <2>2. \E x : LeadsTo(x, work[w]) /\ work' = [work EXCEPT ![w] = x]
    BY <1>3, <2>1
  <2> QED
    BY <1>2, <1>3, <2>1, <2>2, RowsUnchanged, BackfillGoesOn
<1>4. CASE /\ rows' = Append(rows, Row(r.cur, r.complete, r.cur \in r.excused, r.no, Running))
           /\ work' = [work EXCEPT ![w] = [r EXCEPT !.pc = "vector", !.complete = FALSE]]
  <2>1. PICK e \in BOOLEAN : e <=> r.cur \in r.excused
    OBVIOUS
  <2>2. PICK row : row = Row(r.cur, r.complete, e, r.no, Running)
    OBVIOUS
  <2>3. /\ row.id = r.cur /\ row.excused = e /\ row.by = r.no /\ row.during = Running
    BY <2>2 DEF Row
  <2>4. row \in RowType
    <3>1. Running \in SUBSET Nat
      <4>1. \A z \in Workers : work[z].no \in Nat
        BY DEF NewsInv, Good, Work
      <4> QED
        BY <4>1 DEF Running
    <3>2. r.cur \in Nat /\ r.complete \in BOOLEAN /\ r.no \in Nat
      BY <1>2 DEF Work
    <3> QED
      BY <2>2, <3>1, <3>2 DEF Row, RowType
  <2>5. rows' = Append(rows, row)
    <3>1. e = (r.cur \in r.excused)
      BY <2>1
    <3> QED
      BY <1>4, <2>2, <3>1
  <2>6. PICK x : x = [r EXCEPT !.pc = "vector", !.complete = FALSE]
    OBVIOUS
  <2>7. AtItsVector(x, r)
    BY <1>2, <2>6, GoesToVector, Zenon
  <2>8. work' = [work EXCEPT ![w] = x]
    BY <1>4, <2>6
  <2> QED
    BY <1>1, <1>2, <2>1, <2>3, <2>4, <2>5, <2>7, <2>8, InsertAdds
<1> QED
  BY <1>1, <1>3, <1>4 DEF Insert, Set

\* At the vector and at the link the article has a row.
LEMMA VectorKeeps ==
  ASSUME NewsInv, FullInv, NEW w \in Workers, Vector(w)
  PROVE  Continues
<1> DEFINE r == work[w]
<1>1. Good(r) /\ r.pc = "vector" /\ r \in Work /\ HasRow(r.cur) /\ SameRows /\ UNCHANGED starts
  BY RowsUnchanged DEF NewsInv, Vector, At, Good, FullInv, VectorsInv, AtVectors
<1>2. LeadsTo(Succeed(r), r)
  BY <1>1, Outcomes
<1>3. Len(vectors) + 1 \in Nat
  <2>1. PICK S : vectors \in Seq(S)
    BY DEF FullInv, Sequential
  <2> QED
    BY <2>1
<1>4. \A k \in Nat : LeadsTo([r EXCEPT !.pc = "link", !.vector = k], r)
  <2> HIDE DEF r
  <2> TAKE k \in Nat
  <2> DEFINE x == [r EXCEPT !.pc = "link", !.vector = k]
  <2>1. /\ x \in Work /\ x.pc = "link" /\ x.mode = r.mode /\ x.no = r.no /\ x.cur = r.cur /\ x.cont = r.cont
        /\ x.first = r.first /\ x.last = r.last /\ x.redo = r.redo /\ x.excused = r.excused
        /\ x.stored = r.stored /\ x.skipped = r.skipped /\ x.broken = r.broken
        /\ x.postponed = r.postponed /\ x.deferred = r.deferred
    BY <1>1 DEF Work, Pcs
  <2> HIDE DEF x
  <2>2. RangeOf(x)
    BY <1>1, <2>1 DEF Good, RangeOf, Walk, Apart, Counted
  <2>3. ClearOf(x)
    BY <1>1, <2>1 DEF Good, ClearOf, Unmet
  <2> QED
    BY <2>1, <2>2, <2>3 DEF LeadsTo, Good, x
<1>5. \E x : LeadsTo(x, r) /\ work' = [work EXCEPT ![w] = x]
  BY <1>2, <1>3, <1>4 DEF Vector, Set
<1> QED
  BY <1>1, <1>5, BackfillGoesOn

\* A row after the link: it may name another vector.
SameRow(z, y) ==
  /\ z \in RowType /\ z.id = y.id /\ z.complete = y.complete /\ z.excused = y.excused
  /\ z.by = y.by /\ z.during = y.during

LEMMA LinkKeeps ==
  ASSUME NewsInv, FullInv, NEW w \in Workers, Link(w)
  PROVE  Continues
<1> DEFINE r == work[w]
<1>1. Good(r) /\ r.pc = "link" /\ r \in Work /\ HasRow(r.cur) /\ UNCHANGED starts
  BY DEF NewsInv, Link, At, Good, FullInv, VectorsInv, AtVectors
<1>2. LeadsTo(Succeed([r EXCEPT !.vector = 0]), r)
  <2> HIDE DEF r
  <2> DEFINE x == [r EXCEPT !.vector = 0]
  <2>1. /\ x \in Work /\ x.pc = "link" /\ x.mode = r.mode /\ x.no = r.no /\ x.cur = r.cur /\ x.cont = r.cont
        /\ x.first = r.first /\ x.last = r.last /\ x.redo = r.redo /\ x.excused = r.excused
        /\ x.stored = r.stored /\ x.skipped = r.skipped /\ x.broken = r.broken
        /\ x.postponed = r.postponed /\ x.deferred = r.deferred
    BY <1>1 DEF Work, Pcs
  <2> HIDE DEF x
  <2>2. Good(x)
    BY <1>1, <2>1 DEF Good, RangeOf, Walk, Apart, Counted, ClearOf, Unmet
  <2>3. LeadsTo(Succeed(x), x)
    BY <1>1, <2>1, <2>2, Outcomes
  <2> QED
    BY <2>1, <2>3 DEF LeadsTo, x
<1>3. SameRows
  <2>1. rows \in Seq(RowType) /\ DOMAIN rows = 1 .. Len(rows) /\ Len(rows) \in Nat /\ r.vector \in Nat
    <3>1. r.vector \in Nat
      BY <1>1 DEF Work
    <3>2. rows \in Seq(RowType)
      BY DEF NewsInv
    <3> QED
      BY <3>1, <3>2
  <2>2. CASE UNCHANGED rows
    BY <2>2, RowsUnchanged
  <2>3. CASE rows' = [i \in DOMAIN rows |->
                        IF rows[i].id = r.cur THEN [rows[i] EXCEPT !.vector = r.vector] ELSE rows[i]]
    <3> HIDE DEF r
    <3>1. \A y \in RowType, v \in Nat :
            SameRow([y EXCEPT !.vector = v], y)
      BY DEF RowType, SameRow
    <3>2. \A i \in DOMAIN rows : rows[i] \in RowType
      BY <2>1
    <3>3. DOMAIN rows' = DOMAIN rows
      BY <2>3
    <3>4. \A i \in DOMAIN rows :
            SameRow(rows'[i], rows[i])
      <4> TAKE i \in DOMAIN rows
      <4>1. rows'[i] = rows[i] \/ rows'[i] = [rows[i] EXCEPT !.vector = r.vector]
        BY <2>3
      <4>2. SameRow(rows[i], rows[i]) /\ SameRow([rows[i] EXCEPT !.vector = r.vector], rows[i])
        BY <2>1, <3>1, <3>2 DEF SameRow
      <4> QED
        BY <4>1, <4>2
    <3>5. rows' \in Seq(RowType)
      <4>1. rows' \in [1 .. Len(rows) -> RowType]
        BY <2>1, <2>3, <3>3, <3>4 DEF SameRow
      <4> QED
        BY <2>1, <4>1
    <3> QED
      BY <3>3, <3>4, <3>5 DEF SameRow, SameRows
  <2> QED
    BY <2>2, <2>3 DEF Link
<1>4. \E x : LeadsTo(x, r) /\ work' = [work EXCEPT ![w] = x]
  BY <1>2 DEF Link, Set
<1> QED
  BY <1>1, <1>3, <1>4, BackfillGoesOn

LEMMA NewsStep ==
  ASSUME NewsInv, FullInv, [Next]_vars
  PROVE  Continues
<1>1. ASSUME NEW w \in Workers, Kill(w) \/ Report(w)
      PROVE  Continues
  <2>1. Good(NoWork) /\ Replaces(NoWork, work[w])
    BY NoWorkIsGood DEF Replaces, Good
  <2>2. SameRows /\ starts' = starts /\ work' = [work EXCEPT ![w] = NoWork]
    BY <1>1, RowsUnchanged DEF Kill, Report, Set
  <2> QED
    BY <2>1, <2>2, BackfillMoves
<1>2. CASE UNCHANGED vars
  <2>1. UNCHANGED <<rows, work, starts>>
    BY <1>2 DEF vars
  <2>2. \A r : Good(r) => Good(r)'
    BY <2>1 DEF Good, RangeOf, ClearOf, Walk, HasRow, Unmet
  <2>3. \A w \in Workers : Good(work[w])'
    BY <2>1, <2>2 DEF NewsInv
  <2>4. Numbered' /\ (DuplicateExplained => DuplicateExplained')
    BY <2>1 DEF NewsInv, Numbered, DuplicateExplained
  <2> QED
    BY <2>1, <2>3, <2>4 DEF NewsInv, Continues
<1> QED
  BY <1>1, <1>2, StartsKeep, CheckKeeps, ThoughtsKeep, InsertKeeps, VectorKeeps, LinkKeeps DEF Next, Step

LEMMA NewsAlways == Spec => []NewsInv
<1>1. Init => NewsInv
  <2> SUFFICES ASSUME Init PROVE NewsInv
    OBVIOUS
  <2>1. rows \in Seq(RowType)
    <3> DEFINE R == [id : Ids, complete : BOOLEAN, vector : {0}, excused : BOOLEAN, by : {0}, during : {{}}]
    <3>1. R \subseteq RowType
      BY DEF RowType, Ids
    <3>2. rows \in Seq(R)
      BY StoredAssumption DEF Init
    <3> HIDE DEF R
    <3> QED
      BY <3>1, <3>2
  <2>2. \A w \in Workers : work[w] = NoWork
    BY DEF Init
  <2>3. \A w \in Workers : Good(work[w])
    BY <2>2, NoWorkIsGood
  <2>4. Numbered
    BY <2>2, NoWorkIsGood DEF Init, Numbered
  <2> QED
    BY <2>1, <2>3, <2>4 DEF Init, NewsInv
<1>2. NewsInv /\ FullInv /\ [Next]_vars => NewsInv'
  BY NewsStep DEF Continues
<1> QED
  BY <1>1, <1>2, FullAlways, PTL DEF Spec

\* The property is about the whole table, so what an earlier program left must have it.
StoredExplained ==
  \A s \in Stored : \A i, j \in DOMAIN s : i < j /\ s[i].id = s[j].id /\ s[i].complete => s[j].excused

\* DuplicateExplained: between check_if_analyzed and upsert_analysis a page is fetched, analysed and,
\* in a range, perhaps put off to the second pass; however many backfills do so and wherever they
\* fail, a complete row gets a second one only from --force, a failed check, or a backfill that ran
\* when it was written, and never from the backfill that wrote it.
THEOREM NothingStoredTwice ==
  ASSUME StoredExplained
  PROVE  Spec => []DuplicateExplained
<1>1. Init => DuplicateExplained
  BY DEF Init, StoredExplained, DuplicateExplained
<1>2. NewsInv /\ FullInv /\ DuplicateExplained /\ [Next]_vars => DuplicateExplained'
  BY NewsStep DEF Continues
<1> QED
  BY <1>1, <1>2, FullAlways, NewsAlways, PTL DEF Spec

\* RangeAccounted: the summary of run_range, whatever failed, was skipped or was put off on the way,
\* counts every number of the range in exactly one place, nothing as failed without
\* --continue-on-error, and nothing as processed or recovered that has no row.
THEOREM RangesAccounted == Spec => []RangeAccounted
<1>1. NewsInv => RangeAccounted
  <2> SUFFICES ASSUME NewsInv, NEW w \in Workers, work[w].pc = "report", work[w].why = "range"
               PROVE  LET r == work[w]
                          counted == <<r.stored, r.skipped, r.broken, r.postponed>>
                      IN  /\ UNION {counted[i] : i \in 1 .. 4} = r.first .. r.last
                          /\ \A i, j \in 1 .. 4 : i # j => counted[i] \intersect counted[j] = {}
                          /\ \A id \in r.stored \union (r.postponed \ r.deferred) : HasRow(id)
                          /\ r.broken # {} => r.cont
    BY DEF RangeAccounted
  <2> DEFINE r == work[w]
             counted == <<r.stored, r.skipped, r.broken, r.postponed>>
  <2>1. Walk(r, r.last)
    BY DEF NewsInv, Good, RangeOf
  <2> HIDE DEF r
  <2>2. UNION {counted[i] : i \in 1 .. 4} = r.first .. r.last
    <3>1. 1 .. 4 = {1, 2, 3, 4}
      OBVIOUS
    <3>2. UNION {counted[i] : i \in {1, 2, 3, 4}} = counted[1] \cup counted[2] \cup counted[3] \cup counted[4]
      OBVIOUS
    <3>3. counted[1] \cup counted[2] \cup counted[3] \cup counted[4] = Counted(r)
      BY DEF Counted
    <3> QED
      BY <2>1, <3>1, <3>2, <3>3 DEF Walk
  <2>3. \A i, j \in 1 .. 4 : i # j => counted[i] \intersect counted[j] = {}
    BY <2>1 DEF Walk, Apart
  <2> QED
    BY <2>1, <2>2, <2>3 DEF Walk, r
<1> QED
  BY <1>1, NewsAlways, PTL


----------------------------------------------------------------------------
\* The routes.

\* A route reads an area, and keeps what it read for some time; what its handler keeps itself is of
\* the same area, and cleared by the same webhooks.
LEMMA RouteFacts ==
  ASSUME NEW k \in RouteNames
  PROVE  /\ Reads(k) \in Areas /\ Ttls(k) \subseteq Nat /\ k # "item"
         /\ HandlerLife(k) \in Nat
         /\ \A i \in Inside(k) : /\ i = "item" /\ HandlerLife(k) = Hour + MaxFetch
                                 /\ Reads(i) = Reads(k) /\ Named(i).clearedBy = Named(k).clearedBy
<1> DEFINE Lifetimes == {{Minute}, {Minutes5}, {Minutes15}, {Minutes30}, {Hour},
                         Minute..Minutes5, SignalLives \cup {Minutes30}}
           Sound(x) == /\ x.reads \in Areas /\ x.ttls \in Lifetimes /\ x.name # "item"
                       /\ x.name = "news item" => x.reads = "news" /\ x.clearedBy = OfNews
<1>1. \A x \in Routes : Sound(x)
  <2>1. Sound(CurrentNews) /\ Sound(NewsItem) /\ Sound(Upcoming) /\ Sound(Playbook)
    BY DEF CurrentNews, NewsItem, Upcoming, Playbook, Areas
  <2>2. Sound(Events) /\ Sound(Markers) /\ Sound(NewsPreview)
    BY DEF Events, Markers, NewsPreview, Areas
  <2>3. Sound(StrategyList) /\ Sound(AllStrategies) /\ Sound(StrategyPreview)
    BY DEF StrategyList, AllStrategies, StrategyPreview, Areas
  <2>4. Sound(StrategyById) /\ Sound(LatestSignal) /\ Sound(Regime)
    BY DEF StrategyById, LatestSignal, Regime, Areas
  <2>5. Sound(RegimeOfPair) /\ Sound(MarketDataText) /\ Sound(MarketData) /\ Sound(Historical)
    BY DEF RegimeOfPair, MarketDataText, MarketData, Historical, Areas
  <2> HIDE DEF Sound
  <2> QED
    BY <2>1, <2>2, <2>3, <2>4, <2>5 DEF Routes
<1>2. Named(k) \in Routes /\ Named(k).name = k /\ k # "item"
  <2>1. PICK x \in Routes : x.name = k
    BY DEF RouteNames
  <2>2. Named(k) \in Routes \cup {ItemInside} /\ Named(k).name = k
    BY <2>1 DEF Named
  <2>3. k # "item"
    BY <1>1, <2>1
  <2>4. ItemInside.name = "item"
    BY DEF ItemInside
  <2> QED
    BY <2>2, <2>3, <2>4
<1>3. Named("item") = ItemInside
  <2>1. ItemInside.name = "item"
    BY DEF ItemInside
  <2>2. Named("item") \in Routes \cup {ItemInside} /\ Named("item").name = "item"
    BY <2>1 DEF Named
  <2> QED
    BY <1>1, <2>2
<1>4. Reads(k) \in Areas /\ Ttls(k) \in Lifetimes
  BY <1>1, <1>2 DEF Reads, Ttls
<1>5. Ttls(k) \subseteq Nat
  <2>1. Minute..Minutes5 \subseteq Nat /\ SignalLives \cup {Minutes30} \subseteq Nat
    <3>1. Minute \in Nat /\ Minutes5 \in Nat /\ Minutes30 \in Nat /\ SignalLives \subseteq Nat
      BY ConstantsAssumption
    <3>2. SignalLives \cup {Minutes30} \subseteq Nat
      BY <3>1
    <3>3. \A m, n \in Nat : m..n \subseteq Nat
      OBVIOUS
    <3> QED
      BY <3>1, <3>2, <3>3
  <2>2. \A t \in {Minute, Minutes5, Minutes15, Minutes30, Hour} : {t} \subseteq Nat
    BY ConstantsAssumption
  <2>3. \A T \in Lifetimes : T \subseteq Nat
    BY <2>1, <2>2
  <2> QED
    BY <1>4, <2>3
<1>6. \A i \in Inside(k) : i = "item" /\ k = "news item" /\ HandlerLife(k) = Hour + MaxFetch
  BY DEF Inside, HandlerLife
<1>7. k = "news item" => Reads("item") = Reads(k) /\ Named("item").clearedBy = Named(k).clearedBy
  <2>1. ItemInside.reads = "news" /\ ItemInside.clearedBy = OfNews
    BY DEF ItemInside
  <2>2. k = "news item" => Named(k).reads = "news" /\ Named(k).clearedBy = OfNews
    BY <1>1, <1>2
  <2> QED
    BY <1>3, <2>1, <2>2 DEF Reads
<1>8. HandlerLife(k) \in Nat
  BY ConstantsAssumption DEF HandlerLife
<1> QED
  BY <1>2, <1>4, <1>5, <1>6, <1>7, <1>8

LEMMA KeysOfCase ==
  ASSUME CachesTypeOK
  PROVE  /\ \A k \in Keys : Reads(k) \in Areas
         /\ \A k \in case.routes : k \in Keys /\ Ttls(k) \subseteq Nat /\ HandlerLife(k) \in Nat
         /\ \A k \in case.routes : \A i \in Inside(k) :
              /\ i \in Keys /\ i \notin case.routes /\ HandlerLife(k) = Hour + MaxFetch
              /\ Reads(i) = Reads(k) /\ Named(i).clearedBy = Named(k).clearedBy
         /\ \A j, k \in case.routes : \A i \in Inside(k) : i \in Inside(j) => HandlerLife(j) = HandlerLife(k)
<1>1. case.routes \subseteq RouteNames
  BY CasesAssumption DEF CachesTypeOK
<1>2. \A k \in case.routes : /\ Reads(k) \in Areas /\ Ttls(k) \subseteq Nat /\ k # "item"
                            /\ HandlerLife(k) \in Nat
                            /\ \A i \in Inside(k) :
                                 /\ i = "item" /\ HandlerLife(k) = Hour + MaxFetch
                                 /\ Reads(i) = Reads(k) /\ Named(i).clearedBy = Named(k).clearedBy
  BY <1>1, RouteFacts
<1> QED
  BY <1>2 DEF Keys

----------------------------------------------------------------------------
\* Types.

LEMMA TypesKept ==
  ASSUME CachesTypeOK, [CachesNext]_cacheVars
  PROVE  CachesTypeOK'
<1>1. /\ \A k \in Keys : Reads(k) \in Areas
      /\ \A k \in case.routes : k \in Keys /\ Ttls(k) \subseteq Nat
      /\ \A k \in case.routes : \A i \in Inside(k) : i \in Keys
  BY KeysOfCase
<1>2. UNCHANGED case => Keys' = Keys
  BY DEF Keys
<1>3. \A r \in Requests : /\ route[r] \in case.routes /\ route[r] \in Keys
                          /\ readAt[r] \in Nat /\ got[r] \in Nat
  BY <1>1 DEF CachesTypeOK
<1>4. ASSUME NEW r \in Requests, Look(r) \/ Wake(r) PROVE CachesTypeOK'
  <2>1. Kept(route[r]) =>
          [version |-> cache[route[r]].version, at |-> now, life |-> cache[route[r]].life] \in ServedAnswers
    BY <1>3 DEF CachesTypeOK, Kept, Entries, ServedAnswers
  <2> QED
    BY <1>2, <1>3, <1>4, <2>1 DEF CachesTypeOK, Look, Wake, Serve, ServeKept, Go, webhook, hand
<1>5. ASSUME NEW r \in Requests, Join(r) \/ LookFails(r) PROVE CachesTypeOK'
  BY <1>2, <1>5 DEF CachesTypeOK, Join, LookFails, Go, webhook, hand
<1>6. ASSUME NEW r \in Requests, LookInside(r) PROVE CachesTypeOK'
  <2>1. PICK k \in Inside(route[r]) :
          \/ UNCHANGED <<hand, late>> /\ (Go(r, "read") \/ Go(r, "release"))
          \/ /\ Kept(k) /\ Hold(r, cache[k].version, cache[k].readAt)
             /\ late' \in {late, late \cup {route[r]}} /\ Go(r, "store")
    BY <1>6 DEF LookInside
  <2>2. Kept(k) => cache[k].version \in Nat /\ cache[k].readAt \in Nat
    BY <1>1, <1>3, <2>1 DEF CachesTypeOK, Kept, Entries
  <2>3. UNCHANGED <<case, now, version, since, cache, leader, route, on, begun, served, hook, todo, asOf, cleared>>
    BY <1>6 DEF LookInside
  <2>4. got' \in [Requests -> Nat] /\ readAt' \in [Requests -> Nat] /\ heldAt' \in [Requests -> Nat]
    <3>1. CASE UNCHANGED hand
      BY <3>1 DEF CachesTypeOK, hand
    <3>2. CASE Kept(k) /\ Hold(r, cache[k].version, cache[k].readAt)
      BY <2>2, <3>2 DEF CachesTypeOK, Hold
    <3> QED
      BY <2>1, <3>1, <3>2
  <2>5. late' \subseteq Keys
    BY <1>3, <2>1 DEF CachesTypeOK
  <2>6. pc' \in [Requests -> {"new", "join", "wait", "fetch", "read", "keep", "store", "release", "done"}]
    BY <2>1 DEF CachesTypeOK, Go
  <2> QED
    BY <1>2, <2>3, <2>4, <2>5, <2>6 DEF CachesTypeOK
<1>7. ASSUME NEW r \in Requests, Fetch(r) PROVE CachesTypeOK'
  <2>1. version[Reads(route[r])] \in Nat
    BY <1>1, <1>3 DEF CachesTypeOK
  <2>2. /\ UNCHANGED <<case, now, version, since, cache, leader, route, on, begun, served, webhook>>
        /\ \/ Hold(r, version[Reads(route[r])], now) /\ (Go(r, "store") \/ Go(r, "keep"))
           \/ UNCHANGED hand /\ Go(r, "release")
    BY <1>7 DEF Fetch
  <2>3. got' \in [Requests -> Nat] /\ readAt' \in [Requests -> Nat] /\ heldAt' \in [Requests -> Nat]
    BY <2>1, <2>2 DEF CachesTypeOK, Hold, hand
  <2>4. pc' \in [Requests -> {"new", "join", "wait", "fetch", "read", "keep", "store", "release", "done"}]
    BY <2>2 DEF CachesTypeOK, Go
  <2> QED
    BY <1>2, <2>2, <2>3, <2>4 DEF CachesTypeOK, webhook
<1>8. ASSUME NEW r \in Requests, NEW ttl \in Nat PROVE Entry(r, ttl) \in Entries
  BY <1>3 DEF CachesTypeOK, Entry, Entries
<1>9. ASSUME NEW r \in Requests, Keep(r) PROVE CachesTypeOK'
  <2>1. /\ UNCHANGED <<case, now, version, since, leader, route, on, hand, begun, served, webhook>>
        /\ Go(r, "store") \/ Go(r, "release")
        /\ \/ UNCHANGED cache
           \/ \E k \in Inside(route[r]), ttl \in {Minute, Hour} : cache' = [cache EXCEPT ![k] = Entry(r, ttl)]
    BY <1>9 DEF Keep
  <2>2. cache' \in [Keys -> Entries \cup {NoEntry}]
    <3>1. cache \in [Keys -> Entries \cup {NoEntry}]
      BY DEF CachesTypeOK
    <3>2. \A ttl \in {Minute, Hour} : Entry(r, ttl) \in Entries
      BY <1>8, ConstantsAssumption
    <3> QED
      BY <1>1, <1>3, <2>1, <3>1, <3>2
  <2> QED
    BY <1>2, <2>1, <2>2 DEF CachesTypeOK, Go, hand, webhook
<1>10. ASSUME NEW r \in Requests, Store(r) PROVE CachesTypeOK'
  <2>1. /\ UNCHANGED <<case, now, version, since, leader, route, on, hand, begun, webhook>>
        /\ Serve(r, got[r], 0) /\ Go(r, "release")
        /\ \/ UNCHANGED cache
           \/ \E ttl \in Ttls(route[r]) : cache' = [cache EXCEPT ![route[r]] = Entry(r, ttl)]
    BY <1>10 DEF Store
  <2>2. cache' \in [Keys -> Entries \cup {NoEntry}]
    <3>1. cache \in [Keys -> Entries \cup {NoEntry}]
      BY DEF CachesTypeOK
    <3>2. \A ttl \in Ttls(route[r]) : Entry(r, ttl) \in Entries
      BY <1>1, <1>3, <1>8
    <3> QED
      BY <1>3, <2>1, <3>1, <3>2
  <2>3. [version |-> got[r], at |-> now, life |-> 0] \in ServedAnswers
    BY <1>3 DEF CachesTypeOK, ServedAnswers
  <2> QED
    BY <1>2, <2>1, <2>2, <2>3 DEF CachesTypeOK, Serve, Go, hand, webhook
<1>11. ASSUME NEW r \in Requests, Release(r) PROVE CachesTypeOK'
  BY <1>2, <1>11 DEF CachesTypeOK, Release, Go, webhook, hand
<1>12. ASSUME NEW a \in {Reads(k) : k \in case.routes}, Change(a) PROVE CachesTypeOK'
  <2>1. a \in Areas
    BY <1>1
  <2> QED
    BY <1>2, <1>12, <2>1 DEF CachesTypeOK, Change, request, webhook, hand
<1>13. ASSUME NEW k \in todo, Clear(k) PROVE CachesTypeOK'
  <2>1. k \in Keys /\ asOf[Reads(k)] \in Nat
    BY <1>1 DEF CachesTypeOK
  <2> QED
    BY <1>2, <1>13, <2>1 DEF CachesTypeOK, Clear, request, hand
<1>14. ASSUME NEW h, Call(h) PROVE CachesTypeOK'
  BY <1>2, <1>14 DEF CachesTypeOK, Call, request, hand
<1>15. CASE Answer \/ Tick \/ UNCHANGED cacheVars
  BY <1>2, <1>15 DEF CachesTypeOK, Answer, Tick, request, webhook, cacheVars, hand
<1> QED
  BY <1>4, <1>5, <1>6, <1>7, <1>9, <1>10, <1>11, <1>12, <1>13, <1>14, <1>15 DEF CachesNext

LEMMA TypesStart == CachesInit => CachesTypeOK
<1> SUFFICES ASSUME CachesInit PROVE CachesTypeOK
  OBVIOUS
<1>1. \A a \in Areas : since[a] = <<1>>
  BY DEF CachesInit
<1> QED
  BY <1>1 DEF CachesInit, CachesTypeOK

\* CachesTypeOK: the keys of Redis and the memory of every request keep their shape.
THEOREM CachesTyped == CachesSpec => []CachesTypeOK
BY TypesStart, TypesKept, PTL DEF CachesSpec
----------------------------------------------------------------------------
\* Nobody waits for ever.

\* Woken: the event of a key is that of a request which is at work on that key and will set it,
\* also when its handler raises (singleflight.py, the finally of the leader).
THEOREM NobodyWaitsForEver == CachesSpec => []Woken
<1> DEFINE Working == {"fetch", "read", "keep", "store", "release"}
<1>1. CachesInit => Woken
  BY DEF CachesInit, Woken
<1>2. CachesTypeOK /\ Woken /\ [CachesNext]_cacheVars => Woken'
  <2> SUFFICES ASSUME CachesTypeOK, Woken, [CachesNext]_cacheVars PROVE Woken'
    OBVIOUS
  <2>1. ASSUME NEW r \in Requests,
               Look(r) \/ Wake(r) \/ LookFails(r) \/ LookInside(r) \/ Fetch(r) \/ Keep(r) \/ Store(r)
        PROVE  Woken'
    <3>1. /\ UNCHANGED <<case, leader, route>>
          /\ \A x \in Requests \ {r} : pc'[x] = pc[x]
          /\ pc[r] \in Working => pc'[r] \in Working
      BY <2>1 DEF CachesTypeOK, Look, Wake, LookFails, LookInside, Fetch, Keep, Store, Go
    <3> SUFFICES ASSUME NEW k \in case.routes, NEW l, l = leader[k], l # NoRequest
                 PROVE  pc'[l] \in Working /\ route[l] = k
      BY <3>1 DEF Woken
    <3>2. l \in Requests /\ pc[l] \in Working /\ route[l] = k
      BY DEF CachesTypeOK, Woken
    <3> QED
      BY <3>1, <3>2
  <2>2. ASSUME NEW r \in Requests, Join(r) PROVE Woken'
    <3>1. /\ UNCHANGED <<case, route>> /\ pc[r] = "join" /\ route[r] \in case.routes
          /\ \A x \in Requests \ {r} : pc'[x] = pc[x]
          /\ \A k \in case.routes \ {route[r]} : leader'[k] = leader[k]
          /\ \/ leader'[route[r]] = r /\ pc'[r] = "fetch"
             \/ leader'[route[r]] = leader[route[r]]
      BY <2>2 DEF CachesTypeOK, Join, Go
    <3>2. \A k \in case.routes : leader[k] # r
      BY <3>1, ConstantsAssumption DEF Woken
    <3> SUFFICES ASSUME NEW k \in case.routes, NEW l, l = leader'[k], l # NoRequest
                 PROVE  pc'[l] \in Working /\ route[l] = k
      BY <3>1 DEF Woken
    <3>3. CASE l = leader[k]
      <4>1. l \in Requests \ {r} /\ pc[l] \in Working /\ route[l] = k
        BY <3>2, <3>3 DEF CachesTypeOK, Woken
      <4> QED
        BY <3>1, <4>1
    <3>4. CASE l # leader[k]
      <4>1. k = route[r] /\ l = r /\ pc'[r] = "fetch"
        BY <3>1, <3>4
      <4> QED
        BY <4>1
    <3> QED
      BY <3>3, <3>4
  <2>3. ASSUME NEW r \in Requests, Release(r) PROVE Woken'
    <3>1. \A k \in case.routes : k # route[r] => leader[k] # r
      BY ConstantsAssumption DEF Woken
    <3> QED
      BY <2>3, <3>1 DEF CachesTypeOK, Woken, Release, Go
  <2>4. CASE UNCHANGED <<case, leader, pc, route>>
    BY <2>4 DEF Woken
  <2>5. ASSUME NEW a, Change(a) PROVE Woken'
    BY <2>4, <2>5 DEF Change, request
  <2>6. ASSUME NEW k, Clear(k) \/ Call(k) PROVE Woken'
    BY <2>4, <2>6 DEF Clear, Call, request
  <2>7. CASE Answer \/ Tick \/ UNCHANGED cacheVars
    BY <2>4, <2>7 DEF Answer, Tick, request, cacheVars
  <2> QED
    BY <2>1, <2>2, <2>3, <2>5, <2>6, <2>7 DEF CachesNext
<1> QED
  BY <1>1, <1>2, CachesTyped, PTL DEF CachesSpec

----------------------------------------------------------------------------
\* How old an answer may be.

\* A change of the data leaves what was read current at the time it was read.
LEMMA Ageing ==
  ASSUME CachesTypeOK, NEW a \in Areas, NEW v, NEW at \in Nat, Current(a, v, at), NEW b, Change(b)
  PROVE  Current(a, v, at)'
<1>1. CASE a # b
  BY <1>1 DEF CachesTypeOK, Change, Current
<1>2. CASE a = b
  <2>1. version'[a] = version[a] + 1 /\ since'[a] = Append(since[a], now) /\ UNCHANGED now
    BY <1>2 DEF CachesTypeOK, Change
  <2>2. /\ since[a] \in Seq(Nat) /\ Len(since[a]) = version[a] /\ version[a] \in Nat /\ now \in Nat
    BY DEF CachesTypeOK
  <2>3. /\ \A i \in 1..version[a] : since'[a][i] = since[a][i]
        /\ since'[a][version[a] + 1] = now
    BY <2>1, <2>2
  <2> QED
    BY <2>1, <2>2, <2>3, SMTT(20) DEF Current
<1> QED
  BY <1>1, <1>2

\* What was read a while ago has not been out of date for longer than that.
LEMMA HowOld ==
  ASSUME CachesTypeOK, NEW a \in Areas, NEW v, NEW at \in Nat, Current(a, v, at),
         NEW n \in Nat, now <= at + n
  PROVE  v \in 1..version[a] /\ (v < version[a] => now <= since[a][v + 1] + n)
<1>1. since[a] \in Seq(Nat) /\ Len(since[a]) = version[a] /\ version[a] \in Nat /\ now \in Nat
  BY DEF CachesTypeOK
<1>2. v \in 1..version[a] /\ (v < version[a] => at <= since[a][v + 1])
  BY DEF Current
<1>3. ASSUME v < version[a] PROVE now <= since[a][v + 1] + n
  <2>1. v + 1 \in 1..version[a]
    BY <1>1, <1>2, <1>3
  <2>2. since[a][v + 1] \in Nat
    BY <1>1, <2>1
  <2> QED
    BY <1>1, <1>2, <1>3, <2>2
<1> QED
  BY <1>2, <1>3

LEMMA AgeKept ==
  ASSUME AgeInv, [CachesNext]_cacheVars
  PROVE  AgeInv'
<1>1. CachesTypeOK /\ CachesTypeOK'
  BY TypesKept DEF AgeInv
<1>2. /\ \A k \in Keys : Reads(k) \in Areas
      /\ \A k \in case.routes : k \in Keys /\ Ttls(k) \subseteq Nat /\ HandlerLife(k) \in Nat
      /\ \A k \in case.routes : \A i \in Inside(k) :
           /\ i \in Keys /\ i \notin case.routes /\ HandlerLife(k) = Hour + MaxFetch
           /\ Reads(i) = Reads(k)
      /\ \A j, k \in case.routes : \A i \in Inside(k) : i \in Inside(j) => HandlerLife(j) = HandlerLife(k)
  BY <1>1, KeysOfCase
<1>3. now \in Nat /\ MaxFetch \in Nat /\ Hour \in Nat /\ Minute \in Nat
  BY <1>1, ConstantsAssumption DEF CachesTypeOK
<1>4. \A r \in Requests : /\ route[r] \in case.routes /\ got[r] \in Nat
                          /\ readAt[r] \in Nat /\ heldAt[r] \in Nat
  BY <1>1 DEF CachesTypeOK
<1>5. \A k \in Keys : cache[k] # NoEntry => /\ cache[k].version \in Nat /\ cache[k].until \in Nat
                                            /\ cache[k].readAt \in Nat /\ cache[k].life \in Nat
  BY <1>1 DEF CachesTypeOK, Entries
<1>6. ASSUME UNCHANGED <<case, now, version, since, route, hand>>,
             \A x \in Requests : pc'[x] \in {"keep", "store"} => pc'[x] = pc[x]
      PROVE  InHand'
  BY <1>6 DEF AgeInv, InHand, Current, hand
<1>7. ASSUME UNCHANGED <<case, now, version, since, cache>> PROVE InHandler' /\ InRedis'
  BY <1>7 DEF AgeInv, InHandler, InRedis, Current
<1>8. ASSUME UNCHANGED <<now, version, since, route>>, NEW r \in Requests,
             \A x \in Requests \ {r} : served'[x] = served[x],
             NEW v, NEW at \in Nat, NEW life \in Nat, Current(Reads(route[r]), v, at),
             now <= at + HandlerLife(route[r]) + MaxFetch + life,
             served'[r] = [version |-> v, at |-> now, life |-> life]
      PROVE  Served'
  <2> DEFINE a == Reads(route[r])
             n == HandlerLife(route[r]) + MaxFetch + life
  <2>1. a \in Areas /\ n \in Nat /\ HandlerLife(route[r]) \in Nat
    BY <1>2, <1>3, <1>4
  <2>2. now <= at + n
    BY <1>3, <1>8, <2>1
  <2>3. v \in 1..version[a] /\ (v < version[a] => now <= since[a][v + 1] + n)
    BY <1>1, <1>8, <2>1, <2>2, HowOld
  <2>4. v < version[a] => since[a][v + 1] \in Nat
    <3>1. since[a] \in Seq(Nat) /\ Len(since[a]) = version[a] /\ version[a] \in Nat
      BY <1>1, <2>1 DEF CachesTypeOK
    <3>2. v < version[a] => v + 1 \in 1..Len(since[a])
      BY <2>3, <3>1
    <3> QED
      BY <3>1, <3>2
  <2>5. v < version[a] => now <= since[a][v + 1] + HandlerLife(route[r]) + MaxFetch + life
    BY <1>3, <2>1, <2>3, <2>4
  <2>6. now <= now
    BY <1>3
  <2> QED
    BY <1>8, <2>3, <2>5, <2>6 DEF AgeInv, Served
<1>9. ASSUME UNCHANGED <<now, version, since, route, served>> PROVE Served'
  BY <1>9 DEF AgeInv, Served
<1>10. ASSUME NEW r \in Requests, Look(r) \/ Wake(r) PROVE AgeInv'
  <2> DEFINE k == route[r]
  <2>1. /\ UNCHANGED <<case, now, version, since, cache, route, hand>>
        /\ \A x \in Requests : pc'[x] \in {"keep", "store"} => pc'[x] = pc[x]
        /\ served' = served \/ (Kept(k) /\ ServeKept(r))
    <3>1. /\ UNCHANGED <<case, now, version, since, cache, route, hand>>
          /\ Go(r, "done") \/ Go(r, "join") \/ Go(r, "fetch")
          /\ served' = served \/ (Kept(k) /\ ServeKept(r))
      BY <1>10, Zenon DEF Look, Wake
    <3> QED
      BY <1>1, <3>1 DEF CachesTypeOK, Go
  <2>2. CASE served' = served
    BY <1>1, <1>6, <1>7, <1>9, <2>1, <2>2 DEF AgeInv
  <2>3. CASE Kept(k) /\ ServeKept(r)
    <3>1. /\ k \in case.routes /\ HandlerLife(k) \in Nat /\ cache[k] # NoEntry /\ now < cache[k].until
          /\ cache[k].until \in Nat /\ cache[k].readAt \in Nat /\ cache[k].life \in Nat
      BY <1>2, <1>3, <1>4, <1>5, <2>3 DEF Kept
    <3>2. /\ Current(Reads(k), cache[k].version, cache[k].readAt)
          /\ cache[k].until <= cache[k].readAt + HandlerLife(k) + MaxFetch + cache[k].life
      BY <3>1 DEF AgeInv, InRedis
    <3>3. now <= cache[k].readAt + HandlerLife(k) + MaxFetch + cache[k].life
      BY <1>3, <3>1, <3>2
    <3>4. /\ \A x \in Requests \ {r} : served'[x] = served[x]
          /\ served'[r] = [version |-> cache[k].version, at |-> now, life |-> cache[k].life]
      BY <1>1, <2>3 DEF CachesTypeOK, ServeKept, Serve
    <3>5. Served'
      BY <1>8, <2>1, <3>1, <3>2, <3>3, <3>4
    <3> QED
      BY <1>1, <1>6, <1>7, <2>1, <3>5 DEF AgeInv
  <2> QED
    BY <2>1, <2>2, <2>3
<1>11. ASSUME NEW r \in Requests, Join(r) \/ LookFails(r) \/ Release(r) PROVE AgeInv'
  <2>1. /\ UNCHANGED <<case, now, version, since, cache, route, hand, served>>
        /\ \A x \in Requests : pc'[x] \in {"keep", "store"} => pc'[x] = pc[x]
    BY <1>1, <1>11 DEF CachesTypeOK, Join, LookFails, Release, Go
  <2> QED
    BY <1>1, <1>6, <1>7, <1>9, <2>1 DEF AgeInv
\* A request that got hold of something, however it did.
<1>12. ASSUME UNCHANGED <<case, now, version, since, cache, route, served>>, NEW r \in Requests,
              NEW v, NEW at \in Nat, Hold(r, v, at), Current(Reads(route[r]), v, at),
              now <= at + HandlerLife(route[r]),
              \A x \in Requests \ {r} : pc'[x] = pc[x], pc'[r] = "keep" => at = now
       PROVE  AgeInv'
  <2>1. /\ \A x \in Requests \ {r} : got'[x] = got[x] /\ readAt'[x] = readAt[x] /\ heldAt'[x] = heldAt[x]
        /\ got'[r] = v /\ readAt'[r] = at /\ heldAt'[r] = now
    BY <1>1, <1>12 DEF CachesTypeOK, Hold
  <2>2. Current(Reads(route[r]), v, at)' /\ now <= now + MaxFetch
    BY <1>3, <1>12 DEF Current
  <2>3. InHand'
    <3> SUFFICES ASSUME NEW x \in Requests, pc'[x] \in {"keep", "store"}
                 PROVE  /\ Current(Reads(route[x]), got[x], readAt[x])'
                        /\ heldAt'[x] <= readAt'[x] + HandlerLife(route[x]) /\ now <= heldAt'[x] + MaxFetch
                        /\ pc'[x] = "keep" => heldAt'[x] = readAt'[x]
      BY <1>12 DEF InHand
    <3>1. CASE x = r
      BY <1>12, <2>1, <2>2, <3>1 DEF Current
    <3>2. CASE x # r
      <4>1. /\ got'[x] = got[x] /\ readAt'[x] = readAt[x] /\ heldAt'[x] = heldAt[x]
            /\ pc'[x] = pc[x] /\ route'[x] = route[x] /\ UNCHANGED <<now, version, since>>
        BY <1>12, <2>1, <3>2
      <4>2. /\ Current(Reads(route[x]), got[x], readAt[x])
            /\ heldAt[x] <= readAt[x] + HandlerLife(route[x]) /\ now <= heldAt[x] + MaxFetch
            /\ pc[x] = "keep" => heldAt[x] = readAt[x]
        BY <4>1 DEF AgeInv, InHand
      <4> QED
        BY <4>1, <4>2 DEF Current
    <3> QED
      BY <3>1, <3>2
  <2> QED
    BY <1>1, <1>7, <1>9, <1>12, <2>3 DEF AgeInv
<1>13. ASSUME NEW r \in Requests, LookInside(r) PROVE AgeInv'
  <2>1. /\ UNCHANGED <<case, now, version, since, cache, route, served>>
        /\ \A x \in Requests \ {r} : pc'[x] = pc[x]
    BY <1>1, <1>13 DEF CachesTypeOK, LookInside, Go
  <2>2. PICK i \in Inside(route[r]) :
          \/ UNCHANGED hand /\ pc'[r] \in {"read", "release"}
          \/ /\ Kept(i) /\ cache[i].version \notin case.absent
             /\ Hold(r, cache[i].version, cache[i].readAt) /\ pc'[r] = "store"
    BY <1>1, <1>13 DEF CachesTypeOK, LookInside, Go
  <2>3. CASE UNCHANGED hand /\ pc'[r] \in {"read", "release"}
    BY <1>1, <1>6, <1>7, <1>9, <2>1, <2>3 DEF AgeInv
  <2>4. CASE /\ Kept(i) /\ cache[i].version \notin case.absent
             /\ Hold(r, cache[i].version, cache[i].readAt) /\ pc'[r] = "store"
    <3>1. /\ i \in Keys /\ cache[i] # NoEntry /\ now < cache[i].until /\ HandlerLife(route[r]) \in Nat
          /\ cache[i].until \in Nat /\ cache[i].readAt \in Nat
      BY <1>2, <1>3, <1>4, <1>5, <2>2, <2>4 DEF Kept
    <3>2. /\ Current(Reads(route[r]), cache[i].version, cache[i].readAt)
          /\ cache[i].until <= cache[i].readAt + HandlerLife(route[r])
      BY <1>4, <2>2, <2>4, <3>1 DEF AgeInv, InHandler
    <3>3. now <= cache[i].readAt + HandlerLife(route[r])
      BY <1>3, <3>1, <3>2
    <3> QED
      BY <1>12, <2>1, <2>4, <3>1, <3>2, <3>3
  <2> QED
    BY <2>2, <2>3, <2>4
<1>14. ASSUME NEW r \in Requests, Fetch(r) PROVE AgeInv'
  <2>1. /\ UNCHANGED <<case, now, version, since, cache, route, served>>
        /\ \A x \in Requests \ {r} : pc'[x] = pc[x]
        /\ \/ Hold(r, version[Reads(route[r])], now)
           \/ UNCHANGED hand /\ pc'[r] = "release"
    BY <1>1, <1>14 DEF CachesTypeOK, Fetch, Go
  <2>2. CASE UNCHANGED hand /\ pc'[r] = "release"
    BY <1>1, <1>6, <1>7, <1>9, <2>1, <2>2 DEF AgeInv
  <2>3. CASE Hold(r, version[Reads(route[r])], now)
    <3>1. /\ Reads(route[r]) \in Areas /\ version[Reads(route[r])] \in Nat \ {0} /\ HandlerLife(route[r]) \in Nat
      BY <1>1, <1>2, <1>4 DEF CachesTypeOK
    <3>2. Current(Reads(route[r]), version[Reads(route[r])], now) /\ now <= now + HandlerLife(route[r])
      BY <1>3, <3>1 DEF Current
    <3> QED
      BY <1>3, <1>12, <2>1, <2>3, <3>2
  <2> QED
    BY <2>1, <2>2, <2>3
<1>15. ASSUME NEW r \in Requests, Keep(r) PROVE AgeInv'
  <2>1. /\ UNCHANGED <<case, now, version, since, route, hand, served>> /\ pc[r] = "keep"
        /\ \A x \in Requests \ {r} : pc'[x] = pc[x]
        /\ pc'[r] \in {"store", "release"}
    BY <1>1, <1>15 DEF CachesTypeOK, Keep, Go
  <2>2. InHand'
    <3>1. \A x \in Requests : pc'[x] \in {"keep", "store"} =>
            pc[x] \in {"keep", "store"} /\ (pc'[x] = "keep" => pc[x] = "keep")
      BY <2>1
    <3> QED
      BY <2>1, <3>1 DEF AgeInv, InHand, Current, hand
  <2>3. \/ cache' = cache
        \/ \E i \in Inside(route[r]) : \/ /\ got[r] \in case.absent
                                          /\ cache' = [cache EXCEPT ![i] = Entry(r, Minute)]
                                       \/ cache' = [cache EXCEPT ![i] = Entry(r, Hour)]
    BY <1>15 DEF Keep
  <2>4. ASSUME NEW i \in Inside(route[r]), NEW ttl \in Nat, cache' = [cache EXCEPT ![i] = Entry(r, ttl)],
               got[r] \notin case.absent => ttl = Hour
        PROVE  InHandler' /\ InRedis'
    <3>1. /\ i \in Keys /\ i \notin case.routes /\ Reads(i) = Reads(route[r])
          /\ HandlerLife(route[r]) = Hour + MaxFetch /\ route[r] \in case.routes
          /\ readAt[r] \in Nat
      BY <1>2, <1>4
    <3>2. /\ \A k \in Keys \ {i} : cache'[k] = cache[k]
          /\ cache'[i].version = got[r] /\ cache'[i].until = now + ttl /\ cache'[i].readAt = readAt[r]
      BY <1>1, <2>4, <3>1 DEF CachesTypeOK, Entry
    <3>3. /\ Current(Reads(route[r]), got[r], readAt[r])
          /\ heldAt[r] = readAt[r] /\ now <= readAt[r] + MaxFetch
      BY <2>1 DEF AgeInv, InHand
    <3>4. got[r] \notin case.absent => now + ttl <= readAt[r] + (Hour + MaxFetch)
      BY <1>3, <2>4, <3>1, <3>3
    <3>5. InHandler'
      <4> SUFFICES ASSUME NEW k \in case.routes, NEW j \in Inside(k), cache'[j] # NoEntry
                   PROVE  /\ Current(Reads(k), cache[j].version, cache[j].readAt)'
                          /\ cache'[j].version \notin case.absent =>
                               cache'[j].until <= cache'[j].readAt + HandlerLife(k)
        BY <2>1 DEF InHandler
      <4>1. CASE j = i
        <5>1. Reads(k) = Reads(route[r]) /\ HandlerLife(k) = Hour + MaxFetch
          BY <1>2, <3>1, <4>1
        <5>2. Current(Reads(k), cache[j].version, cache[j].readAt)'
          BY <2>1, <3>2, <3>3, <4>1, <5>1 DEF Current
        <5> QED
          BY <3>2, <3>4, <4>1, <5>1, <5>2
      <4>2. CASE j # i
        <5>1. cache'[j] = cache[j]
          BY <1>2, <3>2, <4>2
        <5>2. /\ Current(Reads(k), cache[j].version, cache[j].readAt)
              /\ cache[j].version \notin case.absent => cache[j].until <= cache[j].readAt + HandlerLife(k)
          BY <5>1 DEF AgeInv, InHandler
        <5> QED
          BY <2>1, <5>1, <5>2 DEF Current
      <4> QED
        BY <4>1, <4>2
    <3>6. InRedis'
      <4>1. \A k \in case.routes : cache'[k] = cache[k]
        BY <1>2, <3>1, <3>2
      <4> QED
        BY <2>1, <4>1 DEF AgeInv, InRedis, Current
    <3> QED
      BY <3>5, <3>6
  <2>5. InHandler' /\ InRedis'
    BY <1>3, <1>7, <2>1, <2>3, <2>4
  <2> QED
    BY <1>1, <1>9, <2>1, <2>2, <2>5 DEF AgeInv
<1>16. ASSUME NEW r \in Requests, Store(r) PROVE AgeInv'
  <2> DEFINE k == route[r]
  <2>1. /\ UNCHANGED <<case, now, version, since, route, hand>> /\ pc[r] = "store"
        /\ \A x \in Requests : pc'[x] \in {"keep", "store"} => pc'[x] = pc[x]
        /\ \A x \in Requests \ {r} : served'[x] = served[x]
        /\ served'[r] = [version |-> got[r], at |-> now, life |-> 0]
    BY <1>1, <1>16 DEF CachesTypeOK, Store, Serve, Go
  <2>2. /\ k \in case.routes /\ HandlerLife(k) \in Nat /\ readAt[r] \in Nat /\ heldAt[r] \in Nat
    BY <1>2, <1>4
  <2>3. /\ Current(Reads(k), got[r], readAt[r])
        /\ heldAt[r] <= readAt[r] + HandlerLife(k) /\ now <= heldAt[r] + MaxFetch
    BY <2>1 DEF AgeInv, InHand
  <2>4. now <= readAt[r] + HandlerLife(k) + MaxFetch + 0
    BY <1>3, <2>2, <2>3
  <2>5. Served'
    BY <1>8, <2>1, <2>2, <2>3, <2>4
  <2>6. \/ cache' = cache
        \/ \E ttl \in Ttls(k) : cache' = [cache EXCEPT ![k] = Entry(r, ttl)]
    BY <1>16 DEF Store
  <2>7. ASSUME NEW ttl \in Ttls(k), cache' = [cache EXCEPT ![k] = Entry(r, ttl)]
        PROVE  InHandler' /\ InRedis'
    <3>1. ttl \in Nat /\ k \in Keys
      BY <1>2, <2>2
    <3>2. /\ \A j \in Keys \ {k} : cache'[j] = cache[j]
          /\ cache'[k].version = got[r] /\ cache'[k].until = now + ttl
          /\ cache'[k].readAt = readAt[r] /\ cache'[k].life = ttl
      BY <1>1, <2>7, <3>1 DEF CachesTypeOK, Entry
    <3>3. now + ttl <= readAt[r] + HandlerLife(k) + MaxFetch + ttl
      BY <1>3, <2>2, <2>4, <3>1
    <3>4. InRedis'
      <4> SUFFICES ASSUME NEW j \in case.routes, cache'[j] # NoEntry
                   PROVE  /\ Current(Reads(j), cache[j].version, cache[j].readAt)'
                          /\ cache'[j].until <= cache'[j].readAt + HandlerLife(j) + MaxFetch + cache'[j].life
        BY <2>1 DEF InRedis
      <4>1. CASE j = k
        BY <2>1, <2>3, <3>2, <3>3, <4>1 DEF Current
      <4>2. CASE j # k
        <5>1. cache'[j] = cache[j]
          BY <1>2, <3>2, <4>2
        <5> QED
          BY <2>1, <5>1 DEF AgeInv, InRedis, Current
      <4> QED
        BY <4>1, <4>2
    <3>5. InHandler'
      <4>1. \A j \in case.routes : \A i \in Inside(j) : cache'[i] = cache[i]
        BY <1>2, <2>2, <3>2
      <4> QED
        BY <2>1, <4>1 DEF AgeInv, InHandler, Current
    <3> QED
      BY <3>4, <3>5
  <2>8. InHandler' /\ InRedis'
    BY <1>7, <2>1, <2>6, <2>7
  <2> QED
    BY <1>1, <1>6, <2>1, <2>5, <2>8 DEF AgeInv
<1>17. ASSUME NEW b \in {Reads(k) : k \in case.routes}, Change(b) PROVE AgeInv'
  <2>1. UNCHANGED <<case, now, cache, pc, route, got, readAt, heldAt, served>>
    BY <1>17 DEF Change, request, hand
  <2>2. InHand'
    <3> SUFFICES ASSUME NEW r \in Requests, pc[r] \in {"keep", "store"}
                 PROVE  Current(Reads(route[r]), got[r], readAt[r])'
      BY <2>1 DEF AgeInv, InHand
    <3>1. Current(Reads(route[r]), got[r], readAt[r]) /\ Reads(route[r]) \in Areas /\ readAt[r] \in Nat
      BY <1>2, <1>4 DEF AgeInv, InHand
    <3> QED
      BY <1>1, <1>17, <2>1, <3>1, Ageing
  <2>3. InRedis'
    <3> SUFFICES ASSUME NEW k \in case.routes, cache[k] # NoEntry
                 PROVE  Current(Reads(k), cache[k].version, cache[k].readAt)'
      BY <2>1 DEF AgeInv, InRedis
    <3>1. /\ Current(Reads(k), cache[k].version, cache[k].readAt)
          /\ cache[k].readAt \in Nat /\ Reads(k) \in Areas
      BY <1>2, <1>5 DEF AgeInv, InRedis
    <3> QED
      BY <1>1, <1>17, <2>1, <3>1, Ageing
  <2>4. InHandler'
    <3> SUFFICES ASSUME NEW k \in case.routes, NEW i \in Inside(k), cache[i] # NoEntry
                 PROVE  Current(Reads(k), cache[i].version, cache[i].readAt)'
      BY <2>1 DEF AgeInv, InHandler
    <3>1. /\ Current(Reads(k), cache[i].version, cache[i].readAt)
          /\ cache[i].readAt \in Nat /\ Reads(k) \in Areas
      BY <1>2, <1>5 DEF AgeInv, InHandler
    <3> QED
      BY <1>1, <1>17, <2>1, <3>1, Ageing
  <2>5. Served'
    <3> SUFFICES ASSUME NEW r \in Requests, served[r] # NoEntry,
                        NEW a, a = Reads(route[r]), NEW v, v = served[r].version,
                        NEW n, n = HandlerLife(route[r]), NEW life, life = served[r].life
                 PROVE  /\ v \in 1..version'[a] /\ served[r].at <= now
                        /\ v < version'[a] => served[r].at <= since'[a][v + 1] + n + MaxFetch + life
      BY <2>1 DEF Served
    <3>1. /\ a \in Areas /\ n \in Nat /\ life \in Nat
          /\ version[a] \in Nat /\ served[r].at \in Nat
          /\ since[a] \in Seq(Nat) /\ Len(since[a]) = version[a]
      BY <1>1, <1>2, <1>4 DEF CachesTypeOK, ServedAnswers
    <3>2. /\ v \in 1..version[a] /\ served[r].at <= now
          /\ v < version[a] => served[r].at <= since[a][v + 1] + n + MaxFetch + life
      BY DEF AgeInv, Served
    <3>3. CASE a # b
      BY <1>1, <1>17, <3>1, <3>2, <3>3 DEF Change, CachesTypeOK
    <3>4. CASE a = b
      <4>1. version'[a] = version[a] + 1 /\ since'[a] = Append(since[a], now)
        BY <1>1, <1>17, <3>1, <3>4 DEF Change, CachesTypeOK
      <4>2. /\ \A i \in 1..version[a] : since'[a][i] = since[a][i]
            /\ since'[a][version[a] + 1] = now
        BY <1>3, <3>1, <4>1
      <4>3. CASE v = version[a]
        BY <1>3, <3>1, <3>2, <4>1, <4>2, <4>3, SMTT(20)
      <4>4. CASE v < version[a]
        <5>1. v \in 1..version[a] /\ v + 1 \in 1..version[a] /\ v \in 1..version'[a]
          <6>1. \A m \in Nat : \A i \in 1..m : i < m => i + 1 \in 1..m /\ i \in 1..(m + 1)
            OBVIOUS
          <6> QED
            BY <3>1, <3>2, <4>1, <4>4, <6>1
        <5>2. since'[a][v + 1] = since[a][v + 1]
          BY <4>2, <5>1
        <5> QED
          BY <3>2, <4>4, <5>1, <5>2
      <4> QED
        BY <3>1, <3>2, <4>3, <4>4
    <3> QED
      BY <3>3, <3>4
  <2> QED
    BY <1>1, <2>2, <2>3, <2>4, <2>5 DEF AgeInv
<1>18. ASSUME NEW k \in todo, Clear(k) PROVE AgeInv'
  <2>1. /\ UNCHANGED <<case, now, version, since, pc, route, got, readAt, heldAt, served>>
        /\ \A j \in Keys : cache'[j] \in {cache[j], NoEntry}
    BY <1>1, <1>18 DEF CachesTypeOK, Clear, request, hand
  <2>2. InHand' /\ Served'
    BY <1>6, <1>9, <2>1 DEF hand
  <2>3. InRedis'
    <3>1. \A j \in case.routes : cache'[j] # NoEntry => cache'[j] = cache[j]
      BY <1>2, <2>1
    <3> QED
      BY <2>1, <3>1 DEF AgeInv, InRedis, Current
  <2>4. InHandler'
    <3>1. \A j \in case.routes : \A i \in Inside(j) : cache'[i] # NoEntry => cache'[i] = cache[i]
      BY <1>2, <2>1
    <3> QED
      BY <2>1, <3>1 DEF AgeInv, InHandler, Current
  <2> QED
    BY <1>1, <2>2, <2>3, <2>4 DEF AgeInv
<1>19. CASE Tick
  <2>1. /\ UNCHANGED <<case, version, since, cache, pc, route, got, readAt, heldAt, served>> /\ now' = now + 1
        /\ \A r \in Requests : pc[r] \in {"keep", "store"} => now - heldAt[r] < MaxFetch
    BY <1>19 DEF Tick, request, hand
  <2>2. \A a, v, at : at \in Nat /\ Current(a, v, at) => Current(a, v, at)'
    BY <1>3, <2>1 DEF Current
  <2>3. InHand'
    <3> SUFFICES ASSUME NEW r \in Requests, pc[r] \in {"keep", "store"}
                 PROVE  Current(Reads(route[r]), got[r], readAt[r])' /\ now' <= heldAt[r] + MaxFetch
      BY <2>1 DEF AgeInv, InHand
    <3>1. Current(Reads(route[r]), got[r], readAt[r])
      BY DEF AgeInv, InHand
    <3>2. Current(Reads(route[r]), got[r], readAt[r])'
      BY <1>4, <2>1, <2>2, <3>1 DEF Current
    <3> QED
      BY <1>3, <1>4, <2>1, <3>2
  <2>4. InRedis'
    BY <1>2, <1>5, <2>1, <2>2 DEF AgeInv, InRedis
  <2>5. InHandler'
    BY <1>2, <1>5, <2>1, <2>2 DEF AgeInv, InHandler
  <2>6. Served'
    <3>1. \A r \in Requests : served[r] # NoEntry => served[r].at \in Nat
      BY <1>1 DEF CachesTypeOK, ServedAnswers
    <3> QED
      BY <1>3, <2>1, <3>1 DEF AgeInv, Served
  <2> QED
    BY <1>1, <2>3, <2>4, <2>5, <2>6 DEF AgeInv
<1>20. CASE UNCHANGED <<case, now, version, since, cache, pc, route, hand, served>>
  BY <1>1, <1>6, <1>7, <1>9, <1>20 DEF AgeInv
<1>21. ASSUME NEW h, Call(h) PROVE AgeInv'
  BY <1>20, <1>21 DEF Call, request
<1>22. CASE Answer \/ UNCHANGED cacheVars
  BY <1>20, <1>22 DEF Answer, request, cacheVars
<1> QED
  BY <1>10, <1>11, <1>13, <1>14, <1>15, <1>16, <1>17, <1>18, <1>19, <1>21, <1>22 DEF CachesNext

\* FreshEnough: no interleaving of requests, webhooks and changes makes singleflight_cache serve an
\* answer that had ceased to be the current one for longer than the time to live it was given and
\* one read, and, of a news item, another hour and another read.
THEOREM NothingOlderThanItsLife == CachesSpec => []FreshEnough
<1>1. CachesInit => AgeInv
  <2> SUFFICES ASSUME CachesInit PROVE AgeInv
    OBVIOUS
  <2>1. \A r \in Requests : pc[r] = "new" /\ served[r] = NoEntry
    BY DEF CachesInit
  <2>2. \A k \in Keys : cache[k] = NoEntry
    BY DEF CachesInit
  <2>3. \A k \in case.routes : cache[k] = NoEntry /\ \A i \in Inside(k) : cache[i] = NoEntry
    BY <2>2 DEF Keys
  <2> QED
    BY <2>1, <2>3, TypesStart DEF AgeInv, InHand, InHandler, InRedis, Served
<1>2. AgeInv => FreshEnough
  <2> SUFFICES ASSUME AgeInv, NEW r \in Requests, served[r] # NoEntry,
                      NEW a, a = Reads(route[r]), NEW v, v = served[r].version, v < version[a],
                      NEW n, n = HandlerLife(route[r]), NEW life, life = served[r].life
               PROVE  served[r].at - since[a][v + 1] <= n + MaxFetch + life
    BY DEF FreshEnough
  <2>1. v \in 1..version[a] /\ served[r].at <= since[a][v + 1] + n + MaxFetch + life
    BY DEF AgeInv, Served
  <2>2. route[r] \in case.routes /\ route[r] \in Keys
    BY KeysOfCase DEF AgeInv, CachesTypeOK
  <2>3. /\ a \in Areas /\ n \in Nat /\ life \in Nat /\ MaxFetch \in Nat /\ served[r].at \in Nat
        /\ since[a] \in Seq(Nat) /\ Len(since[a]) = version[a] /\ version[a] \in Nat
    BY <2>2, KeysOfCase, ConstantsAssumption DEF AgeInv, CachesTypeOK, ServedAnswers
  <2>4. since[a][v + 1] \in Nat
    <3>1. v + 1 \in 1..Len(since[a])
      BY <2>1, <2>3, SMTT(20)
    <3> QED
      BY <2>3, <3>1
  <2>5. \A at, t, n1, n2, n3 \in Nat : at <= t + n1 + n2 + n3 => at - t <= n1 + n2 + n3
    OBVIOUS
  <2> QED
    BY <2>1, <2>3, <2>4, <2>5
<1> QED
  BY <1>1, <1>2, AgeKept, PTL DEF CachesSpec

----------------------------------------------------------------------------
\* What a webhook has cleared.

LEMMA ClearKept ==
  ASSUME ClearInv, [CachesNext]_cacheVars
  PROVE  ClearInv'
<1>1. CachesTypeOK /\ CachesTypeOK'
  BY TypesKept DEF ClearInv
<1>2. /\ \A k \in Keys : /\ Reads(k) \in Areas /\ asOf[Reads(k)] \in Nat /\ cleared[k] \in Nat
                         /\ version[Reads(k)] \in Nat
                         /\ cache[k] # NoEntry => cache[k].version \in Nat
      /\ \A k \in case.routes : /\ k \in Keys
                                /\ \A i \in Inside(k) : /\ i \in Keys /\ i # k /\ Reads(i) = Reads(k)
                                                        /\ Named(i).clearedBy = Named(k).clearedBy
  BY <1>1, KeysOfCase DEF CachesTypeOK, Entries
<1>3. \A r \in Requests : /\ route[r] \in case.routes /\ route[r] \in Keys
                          /\ got[r] \in Nat /\ begun[r] \in Nat
  BY <1>1, <1>2 DEF CachesTypeOK
\* What each part is about.
<1>4. ASSUME UNCHANGED <<case, version, hook, todo, asOf, cleared>> PROVE CallsOrdered'
  BY <1>4 DEF ClearInv, CallsOrdered, Keys
<1>5. ASSUME UNCHANGED <<case, cache, cleared>>, late \subseteq late' PROVE KeptSince'
  BY <1>5 DEF ClearInv, KeptSince, Keys
<1>6. ASSUME UNCHANGED <<case, route, got, cleared>>, late \subseteq late',
             \A x \in Requests : /\ pc'[x] \in {"keep", "store"} => pc[x] \in {"keep", "store"}
                                 /\ pc'[x] = "keep" => pc[x] = "keep"
      PROVE  HeldSince'
  <2>1. \A x \in Requests, k \in Keys : Holds(x, k)' => Holds(x, k)
    BY <1>6 DEF Holds
  <2> QED
    BY <1>6, <2>1 DEF ClearInv, HeldSince, Keys
<1>7. ASSUME UNCHANGED <<route, begun, served, cleared>>, \A x \in Requests : pc'[x] = "new" => pc[x] = "new"
      PROVE  BegunSince'
  BY <1>7 DEF ClearInv, BegunSince
<1>8. ASSUME UNCHANGED <<route, begun, served>>, late \subseteq late' PROVE ClearedIsGone'
  BY <1>8 DEF ClearInv, ClearedIsGone
<1>9. ASSUME UNCHANGED <<case, version, cache, request, webhook>> PROVE ClearInv'
  BY <1>1, <1>4, <1>5, <1>6, <1>7, <1>8, <1>9 DEF ClearInv, request, webhook, hand
<1>10. ASSUME NEW r \in Requests, Look(r) \/ Wake(r) PROVE ClearInv'
  <2> DEFINE k == route[r]
  <2>1. /\ UNCHANGED <<case, version, cache, route, got, hook, todo, asOf, cleared, late>>
        /\ \A x \in Requests : pc'[x] \in {"new", "keep", "store"} => pc'[x] = pc[x] /\ x # r
        /\ \A x \in Requests \ {r} : begun'[x] = begun[x]
        /\ begun'[r] \in {begun[r], cleared[k]}
        /\ begun'[r] = begun[r] \/ pc[r] = "new"
        /\ served' = served \/ (Kept(k) /\ ServeKept(r))
    <3>1. /\ UNCHANGED <<case, version, cache, route, hand, webhook>>
          /\ Go(r, "done") \/ Go(r, "join") \/ Go(r, "fetch")
          /\ served' = served \/ (Kept(k) /\ ServeKept(r))
      BY <1>10, Zenon DEF Look, Wake
    <3>2. begun' = begun \/ (pc[r] = "new" /\ begun' = [begun EXCEPT ![r] = cleared[k]])
      BY <1>10 DEF Look, Wake
    <3> QED
      BY <1>1, <3>1, <3>2 DEF CachesTypeOK, Go, hand, webhook
  <2>2. begun'[r] <= cleared[k] /\ begun'[r] \in Nat /\ k \in Keys
    BY <1>2, <1>3, <2>1 DEF ClearInv, BegunSince
  <2>3. CallsOrdered' /\ KeptSince' /\ HeldSince'
    BY <1>4, <1>5, <1>6, <2>1
  <2>4. CASE served' = served
    <3>1. BegunSince'
      BY <2>1, <2>2, <2>4 DEF ClearInv, BegunSince
    <3>2. served[r] # NoEntry => begun'[r] = begun[r]
      BY <2>1 DEF ClearInv, BegunSince
    <3>3. ClearedIsGone'
      BY <2>1, <2>4, <3>2 DEF ClearInv, ClearedIsGone
    <3> QED
      BY <1>1, <2>3, <3>1, <3>3 DEF ClearInv
  <2>5. CASE Kept(k) /\ ServeKept(r)
    <3>1. /\ \A x \in Requests \ {r} : served'[x] = served[x]
          /\ served'[r].version = cache[k].version /\ cache[k] # NoEntry
      BY <1>1, <2>5 DEF CachesTypeOK, ServeKept, Serve, Kept
    <3>2. k \notin late => cache[k].version >= cleared[k]
      BY <2>2, <3>1 DEF ClearInv, KeptSince
    <3>3. k \notin late => served'[r].version >= begun'[r]
      BY <1>2, <2>2, <3>1, <3>2
    <3>4. ClearedIsGone'
      BY <2>1, <3>1, <3>3 DEF ClearInv, ClearedIsGone
    <3>5. BegunSince'
      BY <2>1, <2>2, <3>1 DEF ClearInv, BegunSince
    <3> QED
      BY <1>1, <2>3, <3>4, <3>5 DEF ClearInv
  <2> QED
    BY <2>1, <2>4, <2>5
<1>11. ASSUME NEW r \in Requests, Join(r) \/ LookFails(r) \/ Release(r) PROVE ClearInv'
  <2>1. /\ UNCHANGED <<case, version, cache, route, got, served, begun, hook, todo, asOf, cleared, late>>
        /\ \A x \in Requests : pc'[x] \in {"new", "keep", "store"} => pc'[x] = pc[x]
    BY <1>1, <1>11 DEF CachesTypeOK, Join, LookFails, Release, Go, webhook, hand
  <2> QED
    BY <1>1, <1>4, <1>5, <1>6, <1>7, <1>8, <2>1 DEF ClearInv
<1>12. ASSUME NEW r \in Requests, LookInside(r) PROVE ClearInv'
  <2> DEFINE k == route[r]
  <2>1. /\ UNCHANGED <<case, version, cache, route, served, begun, hook, todo, asOf, cleared>>
        /\ \A x \in Requests \ {r} : pc'[x] = pc[x]
        /\ pc[r] = "fetch" /\ pc'[r] \in {"read", "release", "store"}
    BY <1>1, <1>12 DEF CachesTypeOK, LookInside, Go
  <2>2. PICK i \in Inside(k) :
          \/ UNCHANGED <<hand, late>> /\ pc'[r] \in {"read", "release"}
          \/ /\ Kept(i) /\ Hold(r, cache[i].version, cache[i].readAt) /\ pc'[r] = "store"
             /\ late' = IF i \in todo \cup late /\ cache[i].version < cleared[k] THEN late \cup {k} ELSE late
    BY <1>1, <1>12 DEF CachesTypeOK, LookInside, Go
  <2>3. late \subseteq late'
    BY <2>2
  <2>4. CallsOrdered' /\ KeptSince' /\ BegunSince' /\ ClearedIsGone'
    BY <1>4, <1>5, <1>7, <1>8, <2>1, <2>3
  <2>5. CASE UNCHANGED <<hand, late>> /\ pc'[r] \in {"read", "release"}
    <3>1. HeldSince'
      BY <1>6, <2>1, <2>5 DEF hand
    <3> QED
      BY <1>1, <2>4, <3>1 DEF ClearInv
  <2>6. CASE /\ Kept(i) /\ Hold(r, cache[i].version, cache[i].readAt) /\ pc'[r] = "store"
             /\ late' = IF i \in todo \cup late /\ cache[i].version < cleared[k] THEN late \cup {k} ELSE late
    <3>1. got'[r] = cache[i].version /\ \A x \in Requests \ {r} : got'[x] = got[x]
      BY <1>1, <2>6 DEF CachesTypeOK, Hold
    <3>2. /\ k \in case.routes /\ i \in Keys /\ k \in Keys /\ cache[i] # NoEntry
          /\ cache[i].version \in Nat /\ cleared[i] \in Nat /\ cleared[k] \in Nat
      BY <1>2, <1>3, <2>2, <2>6 DEF Kept
    <3>3. i \notin todo /\ i \notin late => cache[i].version >= cleared[i] /\ cleared[i] >= cleared[k]
      BY <2>2, <3>2 DEF ClearInv, KeptSince, CallsOrdered
    <3>4. k \notin late' => cache[i].version >= cleared[k]
      BY <2>6, <3>2, <3>3
    <3>5. HeldSince'
      <4> SUFFICES ASSUME NEW x \in Requests, NEW j \in Keys, Holds(x, j)', j \notin late'
                   PROVE  got'[x] >= cleared[j]
        BY <2>1 DEF HeldSince, Keys
      <4>1. CASE x = r
        <5>1. j = k
          BY <2>1, <2>6, <4>1 DEF Holds
        <5> QED
          BY <3>1, <3>4, <4>1, <5>1
      <4>2. CASE x # r
        <5>1. Holds(x, j)
          BY <2>1, <4>2 DEF Holds
        <5> QED
          BY <2>3, <3>1, <4>2, <5>1 DEF ClearInv, HeldSince
      <4> QED
        BY <4>1, <4>2
    <3> QED
      BY <1>1, <2>4, <3>5 DEF ClearInv
  <2> QED
    BY <2>2, <2>5, <2>6
<1>13. ASSUME NEW r \in Requests, Fetch(r) PROVE ClearInv'
  <2> DEFINE k == route[r]
  <2>1. /\ UNCHANGED <<case, version, cache, route, served, begun, hook, todo, asOf, cleared, late>>
        /\ \A x \in Requests \ {r} : pc'[x] = pc[x]
        /\ pc[r] # "new" /\ pc'[r] # "new"
        /\ \/ Hold(r, version[Reads(k)], now)
           \/ UNCHANGED hand /\ pc'[r] = "release"
    BY <1>1, <1>13 DEF CachesTypeOK, Fetch, Go, webhook
  <2>2. CallsOrdered' /\ KeptSince' /\ BegunSince' /\ ClearedIsGone'
    BY <1>4, <1>5, <1>7, <1>8, <2>1
  <2>3. CASE UNCHANGED hand /\ pc'[r] = "release"
    <3>1. HeldSince'
      BY <1>6, <2>1, <2>3 DEF hand
    <3> QED
      BY <1>1, <2>2, <3>1 DEF ClearInv
  <2>4. CASE Hold(r, version[Reads(k)], now)
    <3>1. got'[r] = version[Reads(k)] /\ \A x \in Requests \ {r} : got'[x] = got[x]
      BY <1>1, <2>4 DEF CachesTypeOK, Hold
    <3>2. HeldSince'
      <4> SUFFICES ASSUME NEW x \in Requests, NEW j \in Keys, Holds(x, j)', j \notin late
                   PROVE  got'[x] >= cleared[j]
        BY <2>1 DEF HeldSince, Keys
      <4>1. CASE x = r
        <5>1. Reads(j) = Reads(k)
          BY <1>2, <1>3, <2>1, <4>1 DEF Holds
        <5>2. cleared[j] <= asOf[Reads(j)] /\ asOf[Reads(j)] <= version[Reads(j)]
          BY <1>2 DEF ClearInv, CallsOrdered
        <5>3. cleared[j] \in Nat /\ asOf[Reads(j)] \in Nat /\ version[Reads(j)] \in Nat
          BY <1>2
        <5> QED
          BY <3>1, <4>1, <5>1, <5>2, <5>3
      <4>2. CASE x # r
        <5>1. Holds(x, j)
          BY <2>1, <4>2 DEF Holds
        <5> QED
          BY <3>1, <4>2, <5>1 DEF ClearInv, HeldSince
      <4> QED
        BY <4>1, <4>2
    <3> QED
      BY <1>1, <2>2, <3>2 DEF ClearInv
  <2> QED
    BY <2>1, <2>3, <2>4
\* An answer that is kept under a key for which it was in hand.
<1>14. ASSUME UNCHANGED <<case, cleared, late>>, NEW r \in Requests, NEW k \in Keys, Holds(r, k),
              cache' = cache \/ \E ttl : cache' = [cache EXCEPT ![k] = Entry(r, ttl)]
       PROVE  KeptSince'
  <2>1. k \notin late => got[r] >= cleared[k]
    BY <1>14 DEF ClearInv, HeldSince
  <2>2. /\ \A j \in Keys \ {k} : cache'[j] = cache[j]
        /\ cache'[k] = cache[k] \/ cache'[k].version = got[r]
    BY <1>1, <1>14 DEF CachesTypeOK, Entry
  <2> QED
    BY <1>14, <2>1, <2>2 DEF ClearInv, KeptSince, Keys
<1>15. ASSUME NEW r \in Requests, Keep(r) PROVE ClearInv'
  <2>1. /\ UNCHANGED <<case, version, route, got, served, begun, hook, todo, asOf, cleared, late>>
        /\ pc[r] = "keep" /\ pc'[r] \in {"store", "release"}
        /\ \A x \in Requests \ {r} : pc'[x] = pc[x]
    BY <1>1, <1>15 DEF CachesTypeOK, Keep, Go, hand, webhook
  <2>2. PICK i \in Inside(route[r]) : cache' = cache \/ \E ttl : cache' = [cache EXCEPT ![i] = Entry(r, ttl)]
    BY <1>15 DEF Keep
  <2>3. i \in Keys /\ Holds(r, i)
    BY <1>2, <1>3, <2>1, <2>2 DEF Holds
  <2>4. KeptSince'
    BY <1>14, <2>1, <2>2, <2>3
  <2>5. CallsOrdered' /\ HeldSince' /\ BegunSince' /\ ClearedIsGone'
    BY <1>4, <1>6, <1>7, <1>8, <2>1
  <2> QED
    BY <1>1, <2>4, <2>5 DEF ClearInv
<1>16. ASSUME NEW r \in Requests, Store(r) PROVE ClearInv'
  <2> DEFINE k == route[r]
  <2>1. /\ UNCHANGED <<case, version, route, got, begun, hook, todo, asOf, cleared, late>> /\ pc[r] = "store"
        /\ \A x \in Requests : pc'[x] \in {"new", "keep", "store"} => pc'[x] = pc[x] /\ x # r
        /\ \A x \in Requests \ {r} : served'[x] = served[x]
        /\ served'[r].version = got[r]
    BY <1>1, <1>16 DEF CachesTypeOK, Store, Serve, Go, hand, webhook
  <2>2. cache' = cache \/ \E ttl : cache' = [cache EXCEPT ![k] = Entry(r, ttl)]
    BY <1>16 DEF Store
  <2>3. k \in Keys /\ Holds(r, k)
    BY <1>3, <2>1 DEF Holds
  <2>4. KeptSince'
    BY <1>14, <2>1, <2>2, <2>3
  <2>5. CallsOrdered' /\ HeldSince'
    BY <1>4, <1>6, <2>1
  <2>6. begun[r] <= cleared[k] /\ (k \notin late => got[r] >= cleared[k])
    BY <2>3 DEF ClearInv, BegunSince, HeldSince
  <2>7. k \notin late => got[r] >= begun[r]
    BY <1>2, <1>3, <2>6
  <2>8. ClearedIsGone'
    BY <2>1, <2>7 DEF ClearInv, ClearedIsGone
  <2>9. BegunSince'
    BY <2>1 DEF ClearInv, BegunSince
  <2> QED
    BY <1>1, <2>4, <2>5, <2>8, <2>9 DEF ClearInv
<1>17. ASSUME NEW a \in {Reads(k) : k \in case.routes}, Change(a) PROVE ClearInv'
  <2>1. /\ UNCHANGED <<case, cache, pc, route, got, served, begun, hook, todo, asOf, cleared, late>>
        /\ \A b \in Areas : version'[b] \in Nat /\ version[b] \in Nat /\ version[b] <= version'[b]
    BY <1>1, <1>17 DEF CachesTypeOK, Change, request, webhook, hand
  <2>2. \A b \in Areas : asOf[b] <= version'[b]
    BY <1>1, <2>1 DEF ClearInv, CallsOrdered, CachesTypeOK
  <2>3. CallsOrdered'
    BY <2>1, <2>2 DEF ClearInv, CallsOrdered, Keys
  <2>4. KeptSince' /\ HeldSince' /\ BegunSince' /\ ClearedIsGone'
    BY <1>5, <1>6, <1>7, <1>8, <2>1
  <2> QED
    BY <1>1, <2>3, <2>4 DEF ClearInv
<1>18. ASSUME NEW k \in todo, Clear(k) PROVE ClearInv'
  <2>1. k \in Keys
    BY <1>1 DEF CachesTypeOK
  <2>2. /\ UNCHANGED <<case, version, pc, route, got, served, begun, hook, asOf>>
        /\ todo' = todo \ {k}
        /\ cache'[k] = NoEntry /\ cleared'[k] = asOf[Reads(k)]
        /\ \A j \in Keys \ {k} : cache'[j] = cache[j] /\ cleared'[j] = cleared[j]
        /\ late \subseteq late'
        /\ \/ k \in late'
           \/ \A r \in Requests : ~ (Holds(r, k) /\ got[r] < asOf[Reads(k)])
    BY <1>1, <1>18, <2>1 DEF CachesTypeOK, Clear, request, hand
  <2>3. \A j \in Keys : cleared[j] <= cleared'[j] /\ cleared'[j] <= asOf[Reads(j)]
    BY <1>2, <2>1, <2>2 DEF ClearInv, CallsOrdered
  <2>4. ASSUME NEW j \in case.routes, NEW i \in Inside(j), i \notin todo'
        PROVE  cleared'[i] >= cleared'[j] /\ (j \in todo' => cleared'[i] >= asOf[Reads(j)])
    <3>1. /\ i \in Keys /\ j \in Keys /\ i # j /\ Reads(i) = Reads(j)
          /\ cleared[i] \in Nat /\ cleared[j] \in Nat /\ asOf[Reads(j)] \in Nat
      BY <1>2
    <3>2. CASE i = k
      BY <2>2, <2>3, <3>1, <3>2
    <3>3. CASE i # k
      <4>1. i \notin todo /\ cleared'[i] = cleared[i]
        BY <2>2, <2>4, <3>1, <3>3
      <4>2. cleared[i] >= cleared[j] /\ (j \in todo => cleared[i] >= asOf[Reads(j)])
        BY <4>1 DEF ClearInv, CallsOrdered
      <4> QED
        BY <2>2, <3>1, <4>1, <4>2
    <3> QED
      BY <3>2, <3>3
  <2>5. CallsOrdered'
    BY <2>2, <2>3, <2>4 DEF ClearInv, CallsOrdered, Keys
  <2>6. KeptSince'
    BY <2>1, <2>2 DEF ClearInv, KeptSince, Keys
  <2>7. HeldSince'
    <3> SUFFICES ASSUME NEW x \in Requests, NEW j \in Keys, Holds(x, j), j \notin late'
                 PROVE  got[x] >= cleared'[j]
      BY <2>2 DEF HeldSince, Holds, Keys
    <3>1. CASE j = k
      BY <1>2, <1>3, <2>2, <3>1
    <3>2. CASE j # k
      BY <2>2, <3>2 DEF ClearInv, HeldSince
    <3> QED
      BY <3>1, <3>2
  <2>8. BegunSince'
    <3>1. \A r \in Requests : /\ begun[r] <= cleared[route[r]] /\ cleared[route[r]] <= cleared'[route[r]]
                              /\ cleared'[route[r]] \in Nat
      BY <1>1, <1>2, <1>3, <2>1, <2>2, <2>3 DEF ClearInv, BegunSince
    <3> QED
      BY <1>2, <1>3, <2>2, <3>1 DEF ClearInv, BegunSince
  <2>9. ClearedIsGone'
    BY <1>8, <2>2
  <2> QED
    BY <1>1, <2>5, <2>6, <2>7, <2>8, <2>9 DEF ClearInv
<1>19. ASSUME NEW h \in Webhooks, Call(h) PROVE ClearInv'
  <2>1. /\ UNCHANGED <<case, version, cache, pc, route, got, served, begun, cleared, late>>
        /\ hook = "none" /\ hook' # "none" /\ asOf' = version
        /\ todo' = {k \in Keys : h \in Named(k).clearedBy}
    BY <1>19 DEF Call, Webhooks, request, hand
  <2>2. \A k \in Keys : cleared[k] <= asOf[Reads(k)] /\ asOf[Reads(k)] <= version[Reads(k)]
    BY <1>2 DEF ClearInv, CallsOrdered
  <2>3. \A k \in Keys : cleared[k] <= version[Reads(k)]
    BY <1>2, <2>2
  <2>4. \A k \in case.routes : \A i \in Inside(k) : i \notin todo' => cleared[i] >= cleared[k] /\ k \notin todo'
    BY <1>2, <2>1 DEF ClearInv, CallsOrdered
  <2>5. \A a \in Areas : version[a] <= version[a]
    BY <1>1 DEF CachesTypeOK
  <2>6. CallsOrdered'
    BY <2>1, <2>3, <2>4, <2>5 DEF CallsOrdered, Keys
  <2>7. KeptSince' /\ HeldSince' /\ BegunSince' /\ ClearedIsGone'
    BY <1>5, <1>6, <1>7, <1>8, <2>1
  <2> QED
    BY <1>1, <2>6, <2>7 DEF ClearInv
<1>20. CASE Answer
  <2>1. /\ UNCHANGED <<case, version, cache, pc, route, got, served, begun, todo, asOf, cleared, late>>
        /\ todo = {}
    BY <1>20 DEF Answer, request, hand
  <2>2. CallsOrdered'
    BY <2>1 DEF ClearInv, CallsOrdered, Keys
  <2>3. KeptSince' /\ HeldSince' /\ BegunSince' /\ ClearedIsGone'
    BY <1>5, <1>6, <1>7, <1>8, <2>1
  <2> QED
    BY <1>1, <2>2, <2>3 DEF ClearInv
<1>21. CASE Tick \/ UNCHANGED cacheVars
  BY <1>9, <1>21 DEF Tick, cacheVars
<1> QED
  BY <1>10, <1>11, <1>12, <1>13, <1>15, <1>16, <1>17, <1>18, <1>19, <1>20, <1>21 DEF CachesNext

\* ClearedIsGone: a request made after an n8n webhook cleared its key is served what was there when
\* the webhook was called only when a handler that had the old rows in hand kept them after the
\* clearing, or found them under a key of its own that was not cleared yet, or missed in that way.
THEOREM ClearedStaysGone == CachesSpec => []ClearedIsGone
<1>1. CachesInit => ClearInv
  <2> SUFFICES ASSUME CachesInit PROVE ClearInv
    OBVIOUS
  <2>1. /\ \A r \in Requests : pc[r] = "new" /\ served[r] = NoEntry /\ begun[r] = 0 /\ route[r] \in Keys
        /\ \A k \in Keys : cache[k] = NoEntry /\ cleared[k] = 0
        /\ \A a \in Areas : asOf[a] = 0 /\ version[a] = 1
        /\ hook = "none" /\ todo = {}
    BY DEF CachesInit, Keys
  <2>2. CachesTypeOK /\ \A k \in Keys : Reads(k) \in Areas
    BY TypesStart, KeysOfCase
  <2>3. \A k \in case.routes : k \in Keys /\ \A i \in Inside(k) : i \in Keys
    BY <2>2, KeysOfCase
  <2>4. CallsOrdered
    BY <2>1, <2>2, <2>3 DEF CallsOrdered
  <2>5. KeptSince /\ HeldSince /\ BegunSince /\ ClearedIsGone
    BY <2>1 DEF KeptSince, HeldSince, BegunSince, ClearedIsGone, Holds
  <2> QED
    BY <2>2, <2>4, <2>5 DEF ClearInv
<1>2. ClearInv => ClearedIsGone
  BY DEF ClearInv
<1> QED
  BY <1>1, <1>2, ClearKept, PTL DEF CachesSpec
=============================================================================
