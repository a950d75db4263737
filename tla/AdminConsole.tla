---------------------------- MODULE AdminConsole -----------------------------
(***************************************************************************)
(* The administrator's page (site/app/admin/admin-client.tsx) over the     *)
(* worker's handlers: a file is brought in, batch after batch, a period is *)
(* analysed, day after day, and the public pages of a day are read, round  *)
(* after round.  Every request may fail on the way, or after the worker    *)
(* has done its part; a file may be chosen while an import is under way.   *)
(***************************************************************************)
EXTENDS Naturals, FiniteSets, Sequences

CONSTANTS
  FileRows,      \* rows of files, with what the two sides check of them
  AdminFiles,    \* bound: the tables of the files chosen
  RowsPerBatch,  \* IMPORT_BATCH_SIZE
  PeriodDays,    \* the days of the period, at most seven
  DayPages,      \* public articles of the day analysed on demand
  PagesPerRound, \* the limit the administrator chose
  RoundCap,      \* 125 rounds of one press
  ConsoleActs    \* bound: presses and files

ASSUME AdminConsoleAssumption ==
  /\ RowsPerBatch \in Nat \ {0} /\ PagesPerRound \in Nat \ {0} /\ RoundCap \in Nat \ {0}
  /\ IsFiniteSet(PeriodDays) /\ Cardinality(PeriodDays) <= 7 /\ PeriodDays \subseteq Nat
  /\ \A table \in AdminFiles : table \in Seq(DOMAIN FileRows)
  /\ ConsoleActs \in Nat

VARIABLES
  console,  \* the state of the page
  work,     \* what the press under way has still to do
  store,    \* what the worker keeps
  presses,  \* presses and files
  blurred   \* history: a file was chosen while rows were being imported

consoleVars == <<console, work, store, presses, blurred>>

NoWork == [kind |-> "none"]
FileRowOf(r) == FileRows[r]
ConsoleInit ==
  /\ console = [rows |-> << >>, errors |-> FALSE, status |-> "", days |-> [d \in {} |-> ""],
                acknowledged |-> FALSE, file |-> {}]
  /\ work = NoWork /\ presses = 0 /\ blurred = FALSE
  /\ \E days \in SUBSET PeriodDays :
       store = [rows |-> {}, analyses |-> {}, dated |-> days, published |-> {}, last |-> [d \in days |-> "pending"],
                pages |-> [p \in DayPages |-> "unread"], drawn |-> {}]

Press == presses < ConsoleActs /\ presses' = presses + 1
Busy  == work # NoWork
Announce(status) == console' = [console EXCEPT !.status = status]

----------------------------------------------------------------------------
(* The checks of a row: validateRows on the page, validateImportRows and     *)
(* validateStructuredImportRows in the worker                                *)

Https      == {"official", "foreign"}
LongEnough == {"long", "padded", "over"}  \* forty characters; padded with blanks; beyond the worker's limit
Formed(r)  == FileRowOf(r).described /\ FileRowOf(r).url \in Https /\ FileRowOf(r).excerpt # "short"
              /\ FileRowOf(r).placement # "unknown" /\ FileRowOf(r).rank # "bad"
Taken(r)   == FileRowOf(r).described /\ FileRowOf(r).url = "official" /\ FileRowOf(r).placement # "unknown"
              /\ FileRowOf(r).rank \in {"none", "low"}
Readable(r) == Taken(r) /\ FileRowOf(r).excerpt = "long"
Structured(r) == FileRowOf(r).excerpt \in LongEnough

\* The numbers of a set in order, and the rows of a table that are among the given ones.
Ascending(ns) == CHOOSE s \in [1 .. Cardinality(ns) -> ns] : \A i, j \in DOMAIN s : i < j => s[i] < s[j]
Among(table, rows) == LET at == Ascending({i \in DOMAIN table : table[i] \in rows})
                      IN  [n \in DOMAIN at |-> table[at[n]]]
InRows(s) == {s[i] : i \in DOMAIN s}

\* rowsFromTable: rows left out of the analysis, and rows without a url, are dropped
RowsKept(table) == Among(table, {r \in DOMAIN FileRows : ~FileRowOf(r).excluded /\ FileRowOf(r).url # "missing"})

ChooseFile ==
  /\ Press /\ UNCHANGED <<work, store>>
  /\ \/ console' = [console EXCEPT !.status = "", !.errors = TRUE]                  \* larger than 25 MB
     \/ console' = [console EXCEPT !.status = "", !.errors = TRUE, !.rows = << >>]  \* no table, or a column missing
     \/ \E table \in AdminFiles :
          console' = [console EXCEPT !.status = "", !.rows = RowsKept(table), !.file = InRows(RowsKept(table)),
                                     !.errors = \E r \in InRows(RowsKept(table)) : ~Formed(r)]
  /\ blurred' = (work.kind = "import")

----------------------------------------------------------------------------
(* importRows *)

Batches(s) == [n \in 1 .. ((Len(s) + RowsPerBatch - 1) \div RowsPerBatch) |->
                 SubSeq(s, (n - 1) * RowsPerBatch + 1,
                        IF n * RowsPerBatch < Len(s) THEN n * RowsPerBatch ELSE Len(s))]
ImportJob(structured, s) == [structured |-> structured, rows |-> s]
ImportJobs(s) ==
  LET texts == Batches(Among(s, {r \in DOMAIN FileRows : Structured(r)}))
      plain == Batches(Among(s, {r \in DOMAIN FileRows : ~Structured(r)}))
  IN  [n \in DOMAIN texts |-> ImportJob(TRUE, texts[n])] \o [n \in DOMAIN plain |-> ImportJob(FALSE, plain[n])]

SubmitImport ==
  /\ Press /\ ~Busy /\ console.rows # << >> /\ ~console.errors
  /\ work' = [kind |-> "import", jobs |-> ImportJobs(console.rows), rows |-> InRows(console.rows), sent |-> 0]
  /\ Announce("importing") /\ blurred' = FALSE
  /\ UNCHANGED store

\* The worker refuses a batch for one row of it; else it stores the articles, then their analyses.
Refused(job) == \E r \in InRows(job.rows) : IF job.structured THEN ~Readable(r) ELSE ~Taken(r)
BatchWritten(job, stored, analysed) ==
  [store EXCEPT !.rows = @ \cup (IF stored THEN InRows(job.rows) ELSE {}),
                !.analyses = @ \cup (IF analysed THEN InRows(job.rows) ELSE {})]

\* Fault: the import goes on with the next batch.
FailureSkipped == IF Len(work.jobs) > 1 THEN [work EXCEPT !.jobs = Tail(@), !.sent = @ + 1] ELSE NoWork
\* A batch that fails ends the import; the page keeps its rows.
ImportEnds == NoWork

BatchDone ==
  /\ work.kind = "import" /\ ~Refused(work.jobs[1])
  /\ store' = BatchWritten(work.jobs[1], TRUE, work.jobs[1].structured)
  /\ IF Len(work.jobs) > 1
     THEN work' = [work EXCEPT !.jobs = Tail(@), !.sent = @ + 1] /\ UNCHANGED console
     ELSE work' = NoWork /\ console' = [console EXCEPT !.status = "imported", !.rows = << >>]
  /\ UNCHANGED <<presses, blurred>>
BatchFails ==
  /\ work.kind = "import"
  /\ \/ Refused(work.jobs[1]) /\ UNCHANGED store
     \/ ~Refused(work.jobs[1]) /\ \E stored, analysed \in BOOLEAN :
          /\ analysed => stored /\ work.jobs[1].structured
          /\ store' = BatchWritten(work.jobs[1], stored, analysed)
  /\ work' = ImportEnds /\ console' = [console EXCEPT !.status = IF ImportEnds = NoWork THEN "failed" ELSE @]
  /\ UNCHANGED <<presses, blurred>>

----------------------------------------------------------------------------
(* runAnalysis, and the period: loadBatchStatus and runBatchAnalysis *)

\* One analysis in the worker: it is published, or it fails, whatever of it the page learns.
Analysed(s, d, good) ==
  [s EXCEPT !.last[d] = IF good THEN "success" ELSE "failed", !.published = IF good THEN @ \cup {d} ELSE @]
Analyses(d, s, learnt) ==
  IF d \notin store.dated THEN s = store /\ learnt = "failed"
  ELSE \/ s = Analysed(store, d, TRUE) /\ learnt \in {"success", "failed"}
       \/ s \in {Analysed(store, d, FALSE), store} /\ learnt = "failed"

RunAnalysis ==
  /\ Press /\ ~Busy
  /\ \E d \in PeriodDays : work' = [kind |-> "day", date |-> d]
  /\ Announce("analysing") /\ UNCHANGED <<store, blurred>>
AnalysisAnswered ==
  /\ work.kind = "day"
  /\ \E learnt \in {"success", "failed"} : Analyses(work.date, store', learnt) /\ Announce(learnt)
  /\ work' = NoWork /\ UNCHANGED <<presses, blurred>>

OpenPeriod ==
  /\ Press /\ ~Busy
  /\ \E look \in BOOLEAN : work' = [kind |-> "list", look |-> look]
  /\ Announce("listing") /\ UNCHANGED <<store, blurred>>

DayStatus(d) == IF d \in store.dated THEN store.last[d] ELSE "empty"
PeriodDates == Ascending(PeriodDays)
PeriodListed ==
  /\ work.kind = "list"
  /\ console' = [console EXCEPT !.days = [d \in PeriodDays |-> DayStatus(d)],
                                !.status = IF work.look THEN "listed" ELSE "period"]
  /\ work' = IF work.look THEN NoWork
             ELSE [kind |-> "period", todo |-> PeriodDates, known |-> [d \in PeriodDays |-> DayStatus(d)],
                   completed |-> {}, skipped |-> {}, failed |-> {}]
  /\ UNCHANGED <<store, presses, blurred>>

Today == work.todo[1]
\* Fault: a day whose last run failed is left out as well.
SkippedLoosely(d) == work.known[d] \in {"success", "empty", "failed"}
Skipped(d) == work.known[d] \in {"success", "empty"}
SkipDay ==
  /\ work.kind = "period" /\ work.todo # << >> /\ Skipped(Today)
  /\ work' = [work EXCEPT !.todo = Tail(@), !.skipped = @ \cup {Today}]
  /\ UNCHANGED <<console, store, presses, blurred>>
AnalyseDay ==
  /\ work.kind = "period" /\ work.todo # << >> /\ ~Skipped(Today)
  /\ \E learnt \in {"success", "failed"} :
       /\ Analyses(Today, store', learnt)
       /\ console' = [console EXCEPT !.days[Today] = learnt]
       /\ work' = [work EXCEPT !.todo = Tail(@),
                               !.completed = IF learnt = "success" THEN @ \cup {Today} ELSE @,
                               !.failed = IF learnt = "failed" THEN @ \cup {Today} ELSE @]
  /\ UNCHANGED <<presses, blurred>>
PeriodDone ==
  /\ work.kind = "period" /\ work.todo = << >>
  /\ Announce(IF work.failed = {} THEN "period_done" ELSE "period_failed") /\ work' = NoWork
  /\ UNCHANGED <<store, presses, blurred>>

----------------------------------------------------------------------------
(* runTransientAnalysis over handleTransientAnalyze *)

Unread  == {p \in DayPages : store.pages[p] = "unread"}
Read(s) == {p \in DOMAIN s.pages : s.pages[p] = "analyzed"}

Acknowledge ==
  /\ Press /\ ~console.acknowledged /\ console' = [console EXCEPT !.acknowledged = TRUE]
  /\ UNCHANGED <<work, store, blurred>>
RunTransient ==
  /\ Press /\ ~Busy /\ console.acknowledged
  /\ work' = [kind |-> "pages", round |-> 1] /\ Announce("reading")
  /\ UNCHANGED <<store, blurred>>

\* The agenda is drawn again once no page is left, since the page asks for it on every round.
\* Fault: it is drawn only by a round that read a page.
DrawnIfRead(left, fresh) == left = {} /\ fresh # {}
Draws(left, fresh) == left = {}
RoundOf(chosen, good) == [p \in DayPages |-> IF p \notin chosen THEN store.pages[p]
                                              ELSE IF p \in good THEN "analyzed" ELSE "failed"]
\* transientAnalysisProgress: what has no profile yet
Left(pages) == {p \in DayPages : pages[p] = "unread"}

RoundAnswered ==
  /\ work.kind = "pages"
  /\ \E chosen \in SUBSET Unread : \E good \in SUBSET chosen :
       LET after == RoundOf(chosen, good)
           left  == Left(after)
           read  == [store EXCEPT !.pages = after]
           drawn == [read EXCEPT !.drawn = Read(read)]
       IN /\ Cardinality(chosen) = IF Cardinality(Unread) < PagesPerRound THEN Cardinality(Unread) ELSE PagesPerRound
          /\ \/ /\ store' = IF Draws(left, good) THEN drawn ELSE read
                /\ IF left = {}
                   THEN /\ work' = NoWork
                        /\ console' = [console EXCEPT !.status = "pages_done", !.acknowledged = FALSE]
                   ELSE IF work.round = RoundCap THEN work' = NoWork /\ Announce("capped")
                   ELSE work' = [work EXCEPT !.round = @ + 1] /\ UNCHANGED console
             \* the analysis fails, or the answer is lost
             \/ /\ store' \in {read} \cup (IF Draws(left, good) THEN {drawn} ELSE {})
                /\ work' = NoWork /\ Announce("failed")
  /\ UNCHANGED <<presses, blurred>>

RequestLost ==
  /\ work.kind \in {"list", "pages"} /\ work' = NoWork /\ Announce("failed")
  /\ UNCHANGED <<store, presses, blurred>>

\* The schedule, or another administrator, runs a day meanwhile.
RunElsewhere ==
  /\ \E d \in store.dated, good \in BOOLEAN : store' = Analysed(store, d, good) /\ store' # store
  /\ Busy /\ Press /\ UNCHANGED <<console, work, blurred>>

ConsoleNext ==
  \/ ChooseFile \/ SubmitImport \/ BatchDone \/ BatchFails
  \/ RunAnalysis \/ AnalysisAnswered \/ OpenPeriod \/ PeriodListed \/ SkipDay \/ AnalyseDay \/ PeriodDone
  \/ Acknowledge \/ RunTransient \/ RoundAnswered \/ RequestLost \/ RunElsewhere

----------------------------------------------------------------------------
(* Properties *)

ConsoleTypeOK ==
  /\ console.errors \in BOOLEAN /\ console.acknowledged \in BOOLEAN /\ blurred \in BOOLEAN
  /\ presses \in 0 .. ConsoleActs
  /\ work.kind \in {"none", "import", "day", "list", "period", "pages"}
  /\ store.published \subseteq PeriodDays /\ store.drawn \subseteq DayPages

\* Every row of a file that is said to be imported is stored, with its analysis when it
\* brought a text, however often the import was broken off and pressed again; and the page
\* lets go of a file's rows only then, unless the file was chosen during an import.
FileBroughtIn ==
  /\ console.status = "imported" /\ ~blurred =>
       /\ console.file \subseteq store.rows
       /\ {r \in console.file : Structured(r)} \subseteq store.analyses
  /\ console.rows = << >> /\ ~console.errors /\ ~blurred => console.file \subseteq store.rows

\* A period said to be analysed leaves no day with articles without a published analysis,
\* and every day of it was counted once.
PeriodCovered ==
  /\ console.status = "period_done" => store.dated \subseteq store.published
  /\ work.kind = "period" =>
       /\ work.completed \cap work.failed = {} /\ work.skipped \cap (work.completed \cup work.failed) = {}
       /\ work.completed \subseteq store.published
       /\ InRows(work.todo) \cup work.completed \cup work.skipped \cup work.failed = PeriodDays

\* The pages of a day said to be read are all decided, and the agenda shown was drawn after
\* the last of them, also when an earlier round broke off in between.
PagesDrawn == console.status = "pages_done" => Unread = {} /\ store.drawn = Read(store)

ConsoleHonest == FileBroughtIn /\ PeriodCovered /\ PagesDrawn
=============================================================================
