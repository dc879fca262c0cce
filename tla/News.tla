-------------------------------- MODULE News --------------------------------
(***************************************************************************)
(* The news backfill: news_analyzer walks the article numbers of a site,   *)
(* has each page fetched by the scraping service (scrapling-api), analysed *)
(* and embedded by an AI service, and stored as a row and a vector.        *)
(*                                                                         *)
(* Several backfills may work at the same time.  The services answer in    *)
(* any way they can, single database calls fail, and a backfill is killed  *)
(* between any two steps.  Article numbers above Last hold nothing and are *)
(* all alike: a walk beyond Last stays at Last + 1.                        *)
(***************************************************************************)
EXTENDS Naturals, Sequences, FiniteSets

CONSTANTS
  Workers,       \* processes that run main.py
  Modes,         \* what a process is started for: the walk, a range
  Last,          \* highest article number with a page
  Site,          \* what the page of an article number holds
  Stored,        \* what the table may hold at first: sequences of rows
  Ranges,        \* arguments of --range
  Texts,         \* answers of the AI service: "ok", "vague" (no takeaway), "garbage", "quota", "error"
  Options,       \* --continue-on-error and --force
  Limits,        \* arguments of --limit, 0 for none
  MaxFailures,   \* max_consecutive_failures, 50 in the code
  MaxRetries,    \* Config.MAX_RETRIES, 5 in the code
  MaxStarts,     \* backfills that are started
  MaxFaults      \* failing database calls and kills

Ids == 1 .. Last

\* A page holds a story, a story that is one short social post, or nothing that can be used;
\* it names a type and an impact, or does not, and a date that can be read, or does not.
Pages == [text : {"story", "post", "nothing"},
          type : {"breaking", "fundamental", "technical", "other", ""},
          impact : {"high", "medium", "low", "none", ""},
          dated : BOOLEAN]

ASSUME NewsAssumption ==
  /\ Last \in Nat \ {0} /\ MaxFailures \in Nat \ {0} /\ MaxRetries \in Nat \ {0}
  /\ MaxStarts \in Nat /\ MaxFaults \in Nat
  /\ Site \in [Ids -> Pages]
  /\ Ranges \subseteq Ids \X Ids
  /\ Texts \subseteq {"ok", "vague", "garbage", "quota", "error"}
  /\ Modes \in [Workers -> SUBSET {"run", "range"}]
  /\ Options \subseteq BOOLEAN \X BOOLEAN
  /\ Limits \subseteq Nat

\* What a number without an article shows.
Absent == [text |-> "nothing", type |-> "", impact |-> "", dated |-> FALSE]

VARIABLES
  rows,      \* email_news_analysis, in the order of created_at
  vectors,   \* email_news_vectors: the article of each vector
  work,      \* the backfill of each worker
  starts,    \* backfills started so far
  faults     \* faults so far

vars == <<rows, vectors, work, starts, faults>>

-----------------------------------------------------------------------------
(* The scraping service.  It ignores the mode that is asked for and tries a plain   *)
(* request, a browser, and a browser that solves challenges, in this order.         *)

\* What one try returns: the whole page, a page with little text, a challenge, an error
\* status that the client tries again (403, 429, 503), another one, or nothing in time.
Tries == {"page", "short", "gate", "denied", "broken", "silent"}

\* A status below 400 with 100 characters of text ends the escalation.
Acceptable(t) == t = "page"

\* The last try counts whatever it returned; when it returned nothing, the last one that
\* did; when none did, an empty page with status 500.
Escalate(t) ==
  LET good == {i \in 1 .. 2 : Acceptable(t[i])}
      seen == {i \in 1 .. 3 : t[i] # "silent"}
  IN  IF good # {} THEN t[CHOOSE i \in good : \A j \in good : i <= j]
      ELSE IF seen = {} THEN "broken"
      ELSE t[CHOOSE i \in seen : \A j \in seen : j <= i]

\* The answer to a request; "failed" stands for a status other than 200 and for an answer
\* that does not come while the client waits.
Answers == {Escalate(t) : t \in [1 .. 3 -> Tries]} \union {"failed"}

IsError(a) == a \in {"denied", "broken"}

\* ScraperClient.scrape_article: a first request that only counts when the source answers
\* with an error; then one that is repeated when the source denies access.
ScrapeArticle(first, second, third) ==
  IF IsError(first) THEN first
  ELSE IF second = "denied" THEN third ELSE second

ScrapeResults == {ScrapeArticle(a, b, c) : a, b, c \in Answers}

\* The category is built of type and impact; a page without either has none.
Category(page) ==
  IF page.type = "" /\ page.impact = "" THEN {} ELSE {page.type, page.impact} \ {""}

\* _is_allowed_category: no category, an analysis, breaking news of a known impact; and, as a
\* part of the name of an allowed category is enough, breaking news or a known impact alone.
Allowed(category) ==
  \/ category = {}
  \/ category \intersect {"fundamental", "technical"} # {}
  \/ category \subseteq {"breaking", "high", "medium", "low"}

\* What becomes of a scraped page: used, skipped as invalid, or failed.  A challenge and an
\* error of the source are invalid pages; a short page is valid for a social post only.
Use(page, result) ==
  CASE result = "failed" -> "fail"
    [] result \in {"gate", "denied", "broken"} -> "skip"
    [] result = "short" /\ page.text # "post" -> "skip"
    [] page.text = "nothing" \/ ~page.dated \/ ~Allowed(Category(page)) -> "skip"
    [] OTHER -> "use"

-----------------------------------------------------------------------------
(* The AI service.  An attempt succeeds, hits the quota, or fails in another way.   *)

\* generate_embedding: any failure is tried again; what is raised in the end is an error of
\* the retrying library, whose text names the last failure.  The vector may be empty.
Embedding(attempts) ==
  IF \E i \in 1 .. MaxRetries : attempts[i] \in {"ok", "empty"}
  THEN attempts[CHOOSE i \in 1 .. MaxRetries :
                  attempts[i] \in {"ok", "empty"} /\ \A j \in 1 .. i - 1 : attempts[j] \notin {"ok", "empty"}]
  ELSE IF attempts[MaxRetries] = "quota" THEN "RetryError of a quota" ELSE "RetryError"

Embeddings == {Embedding(a) : a \in [1 .. MaxRetries -> {"ok", "empty", "quota", "error"}]}

\* analyze_news: a quota is tried again, everything else counts at once.
AnalyzeNews(attempts) ==
  LET ends == {i \in 1 .. MaxRetries : attempts[i] # "quota"}
  IN  IF ends = {} THEN "RetryError of a quota"
      ELSE attempts[CHOOSE i \in ends : \A j \in ends : i <= j]

\* analyze_with_rag: every error whose text names a rate becomes a RateLimitError, text that
\* is not JSON becomes None.
AnalyzeWithRag(embedding, text, attempts) ==
  LET raised(e) == IF e \in {"quota", "RetryError of a quota"} THEN "RateLimitError" ELSE "error"
      said(t)   == IF t \in {"ok", "vague"} THEN t
                   ELSE IF t = "garbage" THEN "None" ELSE raised(t)
  IN  CASE embedding = "ok"    -> said(text)
        [] embedding = "empty" -> said(AnalyzeNews(attempts))
        [] OTHER               -> raised(embedding)

Analyses == {AnalyzeWithRag(e, t, a) :
               e \in Embeddings, t \in Texts, a \in [1 .. MaxRetries -> Texts]}

\* _analyze_and_store makes two attempts at the analysis, then two at the embedding.
Thought(analyses, embeddings) ==
  LET counts   == {i \in 1 .. 2 : analyses[i] \in {"ok", "vague", "RateLimitError"}}
      analysis == IF counts = {} THEN "failed"
                  ELSE analyses[CHOOSE i \in counts : \A j \in counts : i <= j]
  IN  IF analysis \in {"ok", "vague"} /\ \A i \in 1 .. 2 : embeddings[i] # "ok" THEN "failed"
      ELSE analysis

Thoughts == {Thought(a, e) : a \in [1 .. 2 -> Analyses], e \in [1 .. 2 -> Embeddings]}

-----------------------------------------------------------------------------
(* A backfill.                                                                      *)

\* excused: the check of the article failed or was overruled by --force; during: the backfills
\* that were running when the row was written.
Row(id, complete, excused, by, during) ==
  [id |-> id, complete |-> complete, vector |-> 0, excused |-> excused, by |-> by, during |-> during]

NoWork == [pc |-> "idle", why |-> "", no |-> 0, mode |-> "", cur |-> 0, first |-> 0, last |-> 0,
           left |-> 0, limited |-> FALSE, force |-> FALSE, cont |-> FALSE, misses |-> 0,
           complete |-> FALSE, vector |-> 0, redo |-> FALSE, excused |-> {},
           stored |-> {}, skipped |-> {}, broken |-> {}, postponed |-> {}, deferred |-> {}]

\* What an earlier program stored names no vector.
ASSUME StoredAssumption ==
  \A s \in Stored : s \in Seq([id : Ids, complete : BOOLEAN, vector : {0}, excused : BOOLEAN,
                             by : {0}, during : {{}}])

Init ==
  /\ rows \in Stored
  /\ vectors = <<>>
  /\ work = [w \in Workers |-> NoWork]
  /\ starts = 0 /\ faults = 0

Running == {work[w].no : w \in {x \in Workers : work[x].pc # "idle"}}

Set(w, r) == work' = [work EXCEPT ![w] = r]

\* A backfill that has nothing left to do reports what it counted; an error ends it at once.
Done(r, why) == [r EXCEPT !.pc = "report", !.why = why]

\* The number in the newest row, by created_at.
LastAnalyzed == rows[Len(rows)].id

\* check_if_analyzed: a row that has every field.
Analyzed(id) == \E i \in DOMAIN rows : rows[i].id = id /\ rows[i].complete

HasRow(id) == \E i \in DOMAIN rows : rows[i].id = id

Beyond(id) == IF id > Last THEN Last + 1 ELSE id

\* run: it starts after the newest row.  Without one, or with --no-resume, or when the AI
\* service cannot be reached, it ends at once.
StartRun(w) ==
  /\ "run" \in Modes[w]
  /\ work[w].pc = "idle" /\ starts < MaxStarts
  /\ starts' = starts + 1
  /\ \E resume, reached \in BOOLEAN :
       IF reached /\ resume /\ rows # <<>>
       THEN \E limit \in Limits :
              Set(w, [NoWork EXCEPT !.pc = "check", !.no = starts + 1, !.mode = "run", !.left = limit,
                                    !.limited = limit # 0, !.cur = Beyond(LastAnalyzed + 1)])
       ELSE Set(w, NoWork)
  /\ UNCHANGED <<rows, vectors, faults>>

\* run_range: the two numbers in either order.
StartRange(w) ==
  /\ "range" \in Modes[w]
  /\ work[w].pc = "idle" /\ starts < MaxStarts
  /\ starts' = starts + 1
  /\ \E range \in Ranges, option \in Options, reached \in BOOLEAN :
       LET low  == IF range[1] <= range[2] THEN range[1] ELSE range[2]
           high == IF range[1] <= range[2] THEN range[2] ELSE range[1]
           r    == [NoWork EXCEPT !.no = starts + 1, !.mode = "range", !.cont = option[1],
                                  !.force = option[2], !.cur = low, !.first = low, !.last = high]
       IN  Set(w, IF reached THEN [r EXCEPT !.pc = "check"] ELSE NoWork)
  /\ UNCHANGED <<rows, vectors, faults>>

\* run: the next number, unless the limit or too many misses in a row end it.
NextOfRun(r) ==
  IF r.limited /\ r.left = 0 THEN Done(r, "limit")
  ELSE IF r.misses >= MaxFailures THEN Done(r, "misses")
  ELSE [r EXCEPT !.pc = "check", !.cur = Beyond(@ + 1)]

\* run_range: the next number, then once more the AI failures, without scraping again.
NextOfRange(r) ==
  LET ahead == {id \in r.deferred : ~r.redo \/ id > r.cur}
  IN  IF ~r.redo /\ r.cur < r.last THEN [r EXCEPT !.pc = "check", !.cur = @ + 1]
      ELSE IF ahead = {} THEN Done(r, "range")
      ELSE [r EXCEPT !.pc = "analyze", !.redo = TRUE,
                     !.cur = CHOOSE id \in ahead : \A other \in ahead : id <= other]

\* The article is stored.
Succeed(r) ==
  IF r.mode = "run"
  THEN NextOfRun([r EXCEPT !.misses = 0, !.left = IF @ = 0 THEN 0 ELSE @ - 1])
  ELSE NextOfRange(IF r.redo THEN [r EXCEPT !.deferred = @ \ {r.cur}]
                   ELSE [r EXCEPT !.stored = @ \union {r.cur}])

\* Mutant of Skip: only an exception counts as a miss.
SkipFree(r) ==
  IF r.mode = "run" THEN NextOfRun(r)
  ELSE NextOfRange([r EXCEPT !.skipped = @ \union {r.cur}])

\* The article is already analysed, or its page is not valid.
Skip(r) ==
  IF r.mode = "run" THEN NextOfRun([r EXCEPT !.misses = @ + 1])
  ELSE NextOfRange([r EXCEPT !.skipped = @ \union {r.cur}])

\* An exception other than those below: a range goes on only with --continue-on-error, its
\* second pass always.
Fail(r) ==
  IF r.mode = "run" THEN NextOfRun([r EXCEPT !.misses = @ + 1])
  ELSE IF r.redo THEN NextOfRange(r)
  ELSE IF r.cont THEN NextOfRange([r EXCEPT !.broken = @ \union {r.cur}])
  ELSE NoWork

\* Mutant of Defer: nothing is kept for the second pass.
DeferNothing(r) ==
  IF r.mode = "run" \/ r.redo THEN Fail(r)
  ELSE NextOfRange([r EXCEPT !.postponed = @ \union {r.cur}])

\* TransientAIError: a range keeps what it scraped for the second pass.
Defer(r) ==
  IF r.mode = "run" \/ r.redo THEN Fail(r)
  ELSE NextOfRange([r EXCEPT !.postponed = @ \union {r.cur}, !.deferred = @ \union {r.cur}])

\* _analyze_and_store up to the table.  A RateLimitError ends the backfill.
Think(r, thought) ==
  CASE thought = "RateLimitError" -> NoWork
    [] thought = "failed" -> Defer(r)
    [] OTHER -> [r EXCEPT !.pc = "insert", !.complete = thought = "ok"]

-----------------------------------------------------------------------------
(* The steps of one article.                                                        *)

At(w, pc) == work[w].pc = pc

\* A failing database call.
Fault == faults < MaxFaults /\ faults' = faults + 1

NoFault == UNCHANGED faults

\* _process_news_item_with_components, step 1.  A check that fails says "not analysed".
Check(w) ==
  LET r == work[w]
  IN  /\ At(w, "check")
      /\ \/ /\ NoFault
            /\ Set(w, IF ~Analyzed(r.cur) THEN [r EXCEPT !.pc = "scrape"]
                      ELSE IF r.force THEN [r EXCEPT !.pc = "scrape", !.excused = @ \union {r.cur}]
                      ELSE Skip(r))
         \/ Fault /\ Set(w, [r EXCEPT !.pc = "scrape", !.excused = @ \union {r.cur}])
      /\ UNCHANGED <<rows, vectors, starts>>

\* Step 2, the filters after it, and _analyze_and_store up to the table.
Prepare(w) ==
  LET r == work[w]
      page == IF r.cur \in Ids THEN Site[r.cur] ELSE Absent
  IN  /\ At(w, "scrape")
      /\ \/ \E result \in ScrapeResults :
              CASE Use(page, result) = "fail" -> Set(w, Fail(r))
                [] Use(page, result) = "skip" -> Set(w, Skip(r))
                [] OTHER -> \E thought \in Thoughts : Set(w, Think(r, thought))
      /\ UNCHANGED <<rows, vectors, starts, faults>>

\* _retry_ai_only.
Rethink(w) ==
  /\ At(w, "analyze")
  /\ \E thought \in Thoughts : Set(w, Think(work[w], thought))
  /\ UNCHANGED <<rows, vectors, starts, faults>>

\* upsert_analysis: always a new row.  (The live update that it sends is read by another
\* connection, before the commit, and finds nothing to send.)
Insert(w) ==
  LET r == work[w]
  IN  /\ At(w, "insert")
      /\ \/ /\ NoFault
            /\ rows' = Append(rows, Row(r.cur, r.complete, r.cur \in r.excused, r.no, Running))
            /\ Set(w, [r EXCEPT !.pc = "vector", !.complete = FALSE])
         \/ Fault /\ Set(w, Fail(r)) /\ UNCHANGED rows
      /\ UNCHANGED <<vectors, starts>>

\* Mutant of Vector: a vector that cannot be stored postpones the article.
VectorPostpones(w) ==
  LET r == work[w]
  IN  /\ At(w, "vector")
      /\ \/ /\ NoFault
            /\ vectors' = Append(vectors, r.cur)
            /\ Set(w, [r EXCEPT !.pc = "link", !.vector = Len(vectors) + 1])
         \/ Fault /\ Set(w, Defer(r)) /\ UNCHANGED vectors
      /\ UNCHANGED <<rows, starts>>

\* insert_vector_embedding: the analysis counts as stored when this fails.
Vector(w) ==
  LET r == work[w]
  IN  /\ At(w, "vector")
      /\ \/ /\ NoFault
            /\ vectors' = Append(vectors, r.cur)
            /\ Set(w, [r EXCEPT !.pc = "link", !.vector = Len(vectors) + 1])
         \/ Fault /\ Set(w, Succeed(r)) /\ UNCHANGED vectors
      /\ UNCHANGED <<rows, starts>>

\* Mutant of Link: it takes the newest vector of the table.
LinkNewest(w) ==
  LET r == work[w]
  IN  /\ At(w, "link")
      /\ Set(w, Succeed([r EXCEPT !.vector = 0]))
      /\ \/ /\ NoFault
            /\ rows' = [i \in DOMAIN rows |->
                          IF rows[i].id = r.cur THEN [rows[i] EXCEPT !.vector = Len(vectors)] ELSE rows[i]]
         \/ Fault /\ UNCHANGED rows
      /\ UNCHANGED <<vectors, starts>>

\* update_vector_store_id: in every row of the article.
Link(w) ==
  LET r == work[w]
  IN  /\ At(w, "link")
      /\ Set(w, Succeed([r EXCEPT !.vector = 0]))
      /\ \/ /\ NoFault
            /\ rows' = [i \in DOMAIN rows |->
                          IF rows[i].id = r.cur THEN [rows[i] EXCEPT !.vector = r.vector] ELSE rows[i]]
         \/ Fault /\ UNCHANGED rows
      /\ UNCHANGED <<vectors, starts>>

\* SIGINT, SIGTERM, SIGHUP, or the end of the process.
Kill(w) ==
  /\ ~At(w, "idle")
  /\ Fault
  /\ Set(w, NoWork)
  /\ UNCHANGED <<rows, vectors, starts>>

\* The summary of a backfill that is done.
Report(w) ==
  /\ At(w, "report")
  /\ Set(w, NoWork)
  /\ UNCHANGED <<rows, vectors, starts, faults>>

Step(w) == 
  \/ Check(w) \/ Prepare(w) \/ Rethink(w) \/ Insert(w) \/ Vector(w) \/ Link(w) \/ Report(w)

Next == \E w \in Workers : StartRun(w) \/ StartRange(w) \/ Step(w) \/ Kill(w)

\* A process that runs goes on.
Fairness == \A w \in Workers : WF_vars(Step(w))

Spec == Init /\ [][Next]_vars /\ Fairness

-----------------------------------------------------------------------------
(* Properties.                                                                      *)

\* Every variable has its type; what a backfill counts are numbers of articles.
TypeOK ==
  /\ \A i \in DOMAIN rows : rows[i].id \in Ids /\ rows[i].vector \in 0 .. Len(vectors)
  /\ vectors \in Seq(Ids)
  /\ \A w \in Workers :
       LET r == work[w]
       IN  /\ r.pc \in {"idle", "check", "scrape", "analyze", "insert", "vector", "link", "report"}
           /\ r.cur \in 0 .. Last + 1 /\ r.misses \in 0 .. MaxFailures
           /\ r.stored \union r.skipped \union r.broken \union r.postponed \subseteq Ids
           /\ r.deferred \subseteq r.postponed

\* An article with a complete row gets a second one only by --force, after a check that failed,
\* or by two backfills that ran at the same time; a backfill never stores an article twice, in
\* its second pass neither.
DuplicateExplained ==
  \A i, j \in DOMAIN rows :
    i < j /\ rows[i].id = rows[j].id /\ rows[i].complete /\ ~rows[j].excused
      => rows[i].by # rows[j].by /\ rows[j].by \in rows[i].during

\* Every vector that the search can find belongs to an article with a row, and a row names a
\* vector of its own article.
VectorsMatch ==
  /\ \A k \in DOMAIN vectors : HasRow(vectors[k])
  /\ \A i \in DOMAIN rows : rows[i].vector # 0 => vectors[rows[i].vector] = rows[i].id

\* The inductive invariant behind VectorsMatch: a backfill that is at the vector of an article
\* has stored a row of it, and one that is at the link has a vector of that article in hand.
AtVectors(r) ==
  /\ {"pc", "cur", "vector"} \subseteq DOMAIN r
  /\ r.pc = "vector" => HasRow(r.cur)
  /\ r.pc = "link" => HasRow(r.cur) /\ r.vector \in DOMAIN vectors /\ vectors[r.vector] = r.cur
VectorsInv ==
  /\ DOMAIN work = Workers
  /\ DOMAIN rows = 1 .. Len(rows) /\ DOMAIN vectors = 1 .. Len(vectors)
  /\ \A i \in DOMAIN rows : /\ {"id", "vector"} \subseteq DOMAIN rows[i]
                            /\ rows[i].vector # 0 => rows[i].vector \in DOMAIN vectors
  /\ \A w \in Workers : AtVectors(work[w])
  /\ VectorsMatch

\* A range that ends counted every article of it once, and every article that it counts as
\* processed, or as recovered by the second pass, has a row.
RangeAccounted ==
  \A w \in Workers :
    LET r == work[w]
        counted == <<r.stored, r.skipped, r.broken, r.postponed>>
    IN  r.pc = "report" /\ r.why = "range" =>
          /\ UNION {counted[i] : i \in 1 .. 4} = r.first .. r.last
          /\ \A i, j \in 1 .. 4 : i # j => counted[i] \intersect counted[j] = {}
          /\ \A id \in r.stored \union (r.postponed \ r.deferred) : HasRow(id)
          /\ r.broken # {} => r.cont

\* Every backfill ends, a walk without a limit too: beyond the last page there are only misses.
RunEnds == \A w \in Workers : ~At(w, "idle") ~> At(w, "idle")
=============================================================================
