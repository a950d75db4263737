---------------------------- MODULE ReadingProofs ----------------------------
(***************************************************************************)
(* Lemmas about what readers are given, for all values of the constants:   *)
(* PublicReading (runs, articles, samples, dates), ArticleFeed (articles,  *)
(* times, the size of a page), Dashboard (dates, issues, lists, searches)  *)
(* and EvidenceChat (comparisons, questions).  Each part ends in the       *)
(* inductive invariant of its component and in what it implies; SiteProofs *)
(* puts them together.                                                     *)
(***************************************************************************)
EXTENDS PublicReading, ArticleFeed, Dashboard, EvidenceChat, InitialFive, EventSynthesis,
        ComparisonSummary, IssueAnswers, IssueView, AnalysisProofs

\* Every finite set of numbers that is not empty has a greatest one.
LEMMA GreatestOf ==
  ASSUME NEW T \in SUBSET Nat, IsFiniteSet(T), T # {}
  PROVE  \E x \in T : \A y \in T : y <= x
<1> DEFINE over(x) == {y \in T : y > x}
           overs == {over(x) : x \in T}
<1>1. overs # {} /\ overs \subseteq FiniteSubsetsOf(T)
  <2>1. \A x \in T : over(x) \in SUBSET T /\ IsFiniteSet(over(x))
    BY FS_Subset
  <2>. QED
    BY <2>1 DEF FiniteSubsetsOf
<1>2. IsWellFoundedOn(StrictSubsetOrdering(T), FiniteSubsetsOf(T))
  BY FS_StrictSubsetOrderingWellFounded
<1>3. PICK b \in overs : \A d \in overs : ~(<<d, b>> \in StrictSubsetOrdering(T))
  <2> HIDE DEF overs
  <2>. QED
    BY <1>1, <1>2, WFMin
<1>4. PICK x \in T : b = over(x)
  BY <1>3
<1>5. ASSUME NEW y \in T, y > x PROVE FALSE
  <2>0. x \in Nat /\ y \in Nat /\ y \in over(x) /\ y \notin over(y)
    BY <1>5
  <2>3. over(y) \subseteq over(x)
    <3>1. SUFFICES ASSUME NEW z \in T, z > y PROVE z > x
      OBVIOUS
    <3>2. x \in Nat /\ y \in Nat /\ z \in Nat
      OBVIOUS
    <3>. HIDE DEF over, overs
    <3>. QED
      BY <3>1, <3>2, <1>5
  <2>1. over(y) \subseteq over(x) /\ over(y) # over(x) /\ over(y) \in SUBSET T /\ over(x) \in SUBSET T
    BY <2>0, <2>3
  <2>2. <<over(y), over(x)>> \in StrictSubsetOrdering(T)
    BY <2>1 DEF StrictSubsetOrdering
  <2>. QED
    BY <1>3, <1>4, <2>2
<1>. QED
  BY <1>5

----------------------------------------------------------------------------
(* PublicReading *)

\* A run has a place among the finished ones only once it has finished.
PlacedWhenDone == \A r \in ReadRuns : readRun[r].status \in {"none", "running"} => readRun[r].finished = 0

\* Nothing is shown before it was rendered.
NothingShownYet == view.step \notin {"render", "shown"} => view.quotes = {} /\ view.sources = {}

\* A row to be rendered is of the sample chosen, and was held when the reader asked.
HeldWhenAsked(a) == withdrawn[a] = 0 \/ withdrawn[a] >= view.asked
RowsInSample ==
  view.step = "render" =>
    /\ view.quotes = {} /\ view.sources \subseteq ScopeSources(view.scope)
    /\ \A a \in view.rows : ReportOutlet[a] \in ScopeSources(view.scope) /\ HeldWhenAsked(a)

\* What is shown was held then, could be quoted when it was rendered, and is not older than the cache allows.
ShownInSample ==
  view.step = "shown" =>
    /\ view.sources \subseteq ScopeSources(view.scope) /\ now <= view.at + DetailAge
    /\ \A a \in view.quotes : /\ ReportOutlet[a] \in ScopeSources(view.scope) /\ HeldWhenAsked(a)
                              /\ RightsEnd[a] > view.at

ReadingInv ==
  /\ ReadingTypeOK /\ PlacedWhenDone /\ NothingShownYet /\ RowsInSample /\ ShownInSample
  /\ view.asked <= now

LEMMA ReadingKept == ReadingInv => QuotesHeld /\ SampleKept
<1>. SUFFICES ASSUME ReadingInv PROVE QuotesHeld /\ SampleKept
  OBVIOUS
<1>1. CASE view.step = "shown"
  BY <1>1 DEF ReadingInv, ShownInSample, HeldWhenAsked, QuotesHeld, SampleKept
<1>2. CASE view.step = "render"
  BY <1>2 DEF ReadingInv, RowsInSample, QuotesHeld, SampleKept
<1>3. CASE view.step \notin {"render", "shown"}
  BY <1>3 DEF ReadingInv, NothingShownYet, QuotesHeld, SampleKept
<1>. QED
  BY <1>1, <1>2, <1>3

LEMMA SurfacesTogether == SurfacesAgree
<1>. SUFFICES ASSUME NEW s \in ReadScopes, NEW d \in Dates(s)
              PROVE  /\ IssueList(s, d) # {} /\ \A e \in IssueList(s, d) : Opens(s, e[1], e[2])
                     /\ DayRun(s, d) # {}
  BY DEF SurfacesAgree
<1>1. PICK r \in DateRun(s, d) : PublicIssues(s, r) # {}
  BY DEF Dates
<1>2. DateRun(s, d) = LatestRun(s, d)
  <2>1. {q \in ReadRuns : readRun[q].status = "success" /\ readRun[q].date = d /\ RunInScope(s, q)}
          = {q \in ReadRuns : ReadableIn(s, q) /\ readRun[q].date = d}
    BY DEF ReadableIn
  <2>. QED
    BY <2>1 DEF DateRun, LatestRun
<1>3. \A q \in LatestRun(s, d) : q \in ReadRuns /\ readRun[q].status = "success" /\ readRun[q].date = d
                                 /\ RunInScope(s, q)
  BY DEF LatestRun, LastFinished, ReadableIn
<1>4. IssueList(s, d) # {}
  <2>1. PICK i \in PublicIssues(s, r) : TRUE
    BY <1>1
  <2>2. <<r, i>> \in IssueList(s, d)
    BY <1>1, <1>2, <2>1 DEF IssueList
  <2>. QED
    BY <2>2
<1>5. ASSUME NEW e \in IssueList(s, d) PROVE Opens(s, e[1], e[2])
  <2>1. PICK q \in LatestRun(s, d) : e \in {<<q, i>> : i \in PublicIssues(s, q)}
    BY <1>5 DEF IssueList
  <2>2. PICK i \in PublicIssues(s, q) : e = <<q, i>>
    BY <2>1
  <2>3. readRun[q].status = "success"
    BY <1>3, <2>1
  <2>4. i.category /\ (s # "all" => ScopedArticles(s, i) # {})
    BY <2>2 DEF PublicIssues
  <2>5. e[1] = q /\ e[2] = i
    BY <2>2
  <2>. QED
    BY <2>3, <2>4, <2>5 DEF Opens
<1>6. DayRun(s, d) # {}
  <2> DEFINE started == {q \in ReadRuns : readRun[q].status # "none" /\ readRun[q].date = d /\ RunInScope(s, q)}
  <2>1. r \in started
    BY <1>1, <1>2, <1>3
  <2>2. started \subseteq Nat /\ IsFiniteSet(started)
    BY PublicReadingAssumption, FS_Subset
  <2>3. PICK x \in started : \A y \in started : y <= x
    <3> HIDE DEF started
    <3>. QED
      BY <2>1, <2>2, GreatestOf
  <2>4. x \in DayRun(s, d)
    BY <2>3 DEF DayRun
  <2>. QED
    BY <2>4
<1>. QED
  BY <1>4, <1>5, <1>6

LEMMA ReadingInvInit == ReadingInit => ReadingInv
<1>. SUFFICES ASSUME ReadingInit PROVE ReadingInv
  OBVIOUS
<1>1. now = 1 /\ now \in 1 .. ReadHorizon
  BY PublicReadingAssumption DEF ReadingInit
<1>2. readRun \in [ReadRuns -> ReadRun]
  <2>1. (CHOOSE d \in ReadDates : TRUE) \in ReadDates
    BY PublicReadingAssumption
  <2>2. 0 \in 0 .. Cardinality(ReadRuns)
    BY PublicReadingAssumption, FS_CardinalityType
  <2>. QED
    BY <2>1, <2>2 DEF ReadingInit, ReadRun, RunStates
<1>3. view = NoView /\ NoView \in View
  BY PublicReadingAssumption DEF ReadingInit, NoView, View, ViewSteps, ReadScopes
<1>4. crawled \subseteq Reports /\ withdrawn \in [Reports -> 0 .. ReadHorizon]
  BY PublicReadingAssumption DEF ReadingInit
<1>5. PlacedWhenDone
  BY DEF ReadingInit, PlacedWhenDone
<1>6. NothingShownYet /\ RowsInSample /\ ShownInSample /\ view.asked <= now
  BY <1>1, <1>3 DEF NoView, NothingShownYet, RowsInSample, ShownInSample
<1>. QED
  BY <1>1, <1>2, <1>3, <1>4, <1>5, <1>6 DEF ReadingInv, ReadingTypeOK

\* A step that leaves the view, the time and the withdrawals alone is right if the runs stay in type.
LEMMA RunsStep ==
  ASSUME ReadingInv, UNCHANGED <<now, withdrawn, view>>, crawled' \subseteq Reports,
         readRun' \in [ReadRuns -> ReadRun], PlacedWhenDone'
  PROVE  ReadingInv'
<1>1. ReadingTypeOK'
  BY DEF ReadingInv, ReadingTypeOK
<1>2. (NothingShownYet /\ RowsInSample /\ ShownInSample /\ view.asked <= now)'
  BY DEF ReadingInv, NothingShownYet, RowsInSample, ShownInSample, HeldWhenAsked
<1>. QED
  BY <1>1, <1>2 DEF ReadingInv

LEMMA RunStartsRight ==
  ASSUME ReadingInv, NEW r \in ReadRuns, RunStarts(r)
  PROVE  ReadingInv'
<1>1. PICK d \in ReadDates : readRun' = [readRun EXCEPT ![r].status = "running", ![r].date = d]
  BY DEF RunStarts
<1>2. readRun \in [ReadRuns -> ReadRun] /\ readRun[r].status = "none"
  BY DEF ReadingInv, ReadingTypeOK, RunStarts
<1>3. readRun' \in [ReadRuns -> ReadRun]
  BY <1>1, <1>2 DEF ReadRun, RunStates
<1>4. PlacedWhenDone'
  BY <1>1, <1>2 DEF PlacedWhenDone, ReadRun, ReadingInv
<1>. QED
  BY <1>3, <1>4, RunsStep DEF RunStarts, ReadingInv, ReadingTypeOK

LEMMA RunFinishesRight ==
  ASSUME ReadingInv, NEW r \in ReadRuns, RunFinishes(r)
  PROVE  ReadingInv'
<1> DEFINE before == {q \in ReadRuns : readRun[q].finished # 0}
           quotable == {a \in Reports : HeldText(a) /\ RightsEnd[a] > now}
<1>1. PICK o \in Outcomes :
        readRun' = [readRun EXCEPT ![r].status = "success", ![r].issues = o,
                                   ![r].finished = 1 + Cardinality(before), ![r].quotable = quotable]
  BY DEF RunFinishes
<1>2. readRun \in [ReadRuns -> ReadRun] /\ readRun[r].status = "running" /\ readRun[r].finished = 0
  BY DEF ReadingInv, ReadingTypeOK, RunFinishes, PlacedWhenDone
<1>3. 1 + Cardinality(before) \in 0 .. Cardinality(ReadRuns)
  <2>1. before \subseteq ReadRuns \ {r} /\ IsFiniteSet(ReadRuns)
    BY <1>2, PublicReadingAssumption
  <2>2. IsFiniteSet(ReadRuns \ {r}) /\ Cardinality(ReadRuns \ {r}) = Cardinality(ReadRuns) - 1
    BY <2>1, FS_RemoveElement
  <2>3. IsFiniteSet(before) /\ Cardinality(before) <= Cardinality(ReadRuns \ {r})
    BY <2>1, <2>2, FS_Subset
  <2>4. Cardinality(before) \in Nat /\ Cardinality(ReadRuns) \in Nat
    BY <2>1, <2>3, FS_CardinalityType
  <2>. QED
    BY <2>2, <2>3, <2>4
<1>4. quotable \in SUBSET Reports
  OBVIOUS
<1>. HIDE DEF before, quotable
<1>5. readRun' \in [ReadRuns -> ReadRun]
  <2>1. PICK w : /\ w = [readRun[r] EXCEPT !.status = "success", !.issues = o,
                                           !.finished = 1 + Cardinality(before), !.quotable = quotable]
                 /\ readRun' = [readRun EXCEPT ![r] = w]
    BY <1>1, <1>2
  <2>2. readRun[r] \in ReadRun
    BY <1>2
  <2>3. w \in ReadRun
    <3>. DEFINE ranks == 0 .. Cardinality(ReadRuns)
               n == 1 + Cardinality(before)
    <3>1. n \in ranks
      BY <1>3
    <3>. HIDE DEF ranks, n
    <3>2. w = [readRun[r] EXCEPT !.status = "success", !.issues = o, !.finished = n, !.quotable = quotable]
      BY <2>1 DEF n
    <3>3. ReadRun = [status : RunStates, date : ReadDates, finished : ranks, issues : Outcomes \cup {{}},
                     quotable : SUBSET Reports]
      BY DEF ReadRun, ranks
    <3>. QED
      BY <2>2, <3>1, <3>2, <3>3, <1>4 DEF RunStates
  <2>. QED
    BY <1>2, <2>1, <2>3
<1>6. PlacedWhenDone'
  BY <1>1, <1>2 DEF PlacedWhenDone, ReadRun, ReadingInv
<1>. QED
  BY <1>5, <1>6, RunsStep DEF RunFinishes, ReadingInv, ReadingTypeOK

LEMMA RunEndsRight ==
  ASSUME ReadingInv, NEW r \in ReadRuns, RunEnds(r)
  PROVE  ReadingInv'
<1>1. PICK st \in {"failed", "rolled_back"} : readRun' = [readRun EXCEPT ![r].status = st]
  BY DEF RunEnds
<1>2. readRun \in [ReadRuns -> ReadRun]
  BY DEF ReadingInv, ReadingTypeOK
<1>3. readRun' \in [ReadRuns -> ReadRun]
  BY <1>1, <1>2 DEF ReadRun, RunStates
<1>4. PlacedWhenDone'
  BY <1>1, <1>2 DEF PlacedWhenDone, ReadRun, ReadingInv
<1>. QED
  BY <1>3, <1>4, RunsStep DEF RunEnds, ReadingInv, ReadingTypeOK

\* A step that leaves the runs, the texts and the time alone is right if the view is.
LEMMA ViewStep ==
  ASSUME ReadingInv, UNCHANGED <<now, readRun, crawled, withdrawn>>,
         view' \in View, (NothingShownYet /\ RowsInSample /\ ShownInSample)', view'.asked <= now
  PROVE  ReadingInv'
<1>1. ReadingTypeOK' /\ PlacedWhenDone'
  BY DEF ReadingInv, ReadingTypeOK, PlacedWhenDone
<1>. QED
  BY <1>1 DEF ReadingInv

LEMMA NoViewRight ==
  ASSUME ReadingInv, UNCHANGED <<now, readRun, crawled, withdrawn>>, view' = NoView
  PROVE  ReadingInv'
<1>1. NoView \in View /\ NoView.asked = 0 /\ NoView.step = "rest" /\ NoView.quotes = {} /\ NoView.sources = {}
  BY PublicReadingAssumption DEF NoView, View, ViewSteps, ReadScopes
<1>2. (NothingShownYet /\ RowsInSample /\ ShownInSample)'
  BY <1>1 DEF NothingShownYet, RowsInSample, ShownInSample
<1>3. now \in Nat
  BY DEF ReadingInv, ReadingTypeOK
<1>. QED
  BY <1>1, <1>2, <1>3, ViewStep

LEMMA AskRight ==
  ASSUME ReadingInv, NEW r \in ReadRuns, NEW s \in ReadScopes, NEW i \in readRun[r].issues, AskIssue(s, r, i)
  PROVE  ReadingInv'
<1> DEFINE rows == readRun[r].quotable \cap i.articles
           step == IF s = "all" THEN "queries" ELSE "issue"
<1>1. view' = [NoView EXCEPT !.scope = s, !.asked = now, !.articles = i.articles, !.rows = rows, !.step = step]
  BY DEF AskIssue
<1>2. now \in 0 .. ReadHorizon
  BY PublicReadingAssumption DEF ReadingInv, ReadingTypeOK
<1>3. i.articles \subseteq Reports /\ rows \subseteq Reports
  <2>1. readRun[r] \in ReadRun
    BY DEF ReadingInv, ReadingTypeOK
  <2>2. readRun[r].issues \in Outcomes \cup {{}} /\ readRun[r].quotable \subseteq Reports
    BY <2>1 DEF ReadRun
  <2>3. readRun[r].issues \in Outcomes
    BY <2>2
  <2>4. i.articles \subseteq Reports
    BY <2>3, PublicReadingAssumption
  <2>. QED
    BY <2>2, <2>4
<1>4. step \in ViewSteps /\ step \in {"queries", "issue"}
  BY DEF ViewSteps
<1>. HIDE DEF rows, step
<1>5. view' = [step |-> step, scope |-> s, articles |-> i.articles, asked |-> now, at |-> 0,
               rows |-> rows, quotes |-> {}, sources |-> {}]
  BY <1>1 DEF NoView
<1>6. view' \in View
  <2>1. 0 \in 0 .. ReadHorizon
    BY PublicReadingAssumption
  <2>. QED
    BY <1>2, <1>3, <1>4, <1>5, <2>1 DEF View
<1>7. (NothingShownYet /\ RowsInSample /\ ShownInSample)'
  BY <1>4, <1>5 DEF NothingShownYet, RowsInSample, ShownInSample
<1>8. now \in Nat
  BY DEF ReadingInv, ReadingTypeOK
<1>. QED
  BY <1>5, <1>6, <1>7, <1>8, ViewStep DEF AskIssue

LEMMA ScopeRight ==
  ASSUME ReadingInv, ScopeIssue
  PROVE  ReadingInv'
<1>1. CASE ScopedArticles(view.scope, view) = {}
  BY <1>1, NoViewRight DEF ScopeIssue
<1>2. CASE ScopedArticles(view.scope, view) # {}
  <2>1. view' = [view EXCEPT !.step = "queries"] /\ view.step = "issue"
    BY <1>2 DEF ScopeIssue
  <2>2. view \in View
    BY DEF ReadingInv, ReadingTypeOK
  <2>3. view' \in View
    BY <2>1, <2>2 DEF View, ViewSteps
  <2>4. view'.step = "queries" /\ view'.quotes = view.quotes /\ view'.sources = view.sources
        /\ view'.asked = view.asked
    BY <2>1, <2>2 DEF View
  <2>5. (NothingShownYet /\ RowsInSample /\ ShownInSample)'
    BY <2>1, <2>4 DEF NothingShownYet, RowsInSample, ShownInSample, ReadingInv
  <2>. QED
    BY <2>3, <2>4, <2>5, ViewStep DEF ScopeIssue, ReadingInv
<1>. QED
  BY <1>1, <1>2

LEMMA QueryRight ==
  ASSUME ReadingInv, QueryIssue
  PROVE  ReadingInv'
<1> DEFINE rows == {a \in view.rows : InScope(view.scope, a) /\ HeldText(a)}
<1>1. view' = [view EXCEPT !.step = "render", !.sources = Compared(view), !.rows = rows] /\ view.step = "queries"
  BY DEF QueryIssue
<1>2. view \in View
  BY DEF ReadingInv, ReadingTypeOK
<1>3. rows \subseteq Reports /\ view.articles \subseteq Reports /\ view.scope \in ReadScopes
  BY <1>2 DEF View
<1>4. Compared(view) \subseteq {ReportOutlet[a] : a \in Reports} /\ Compared(view) \subseteq ScopeSources(view.scope)
  BY <1>3 DEF Compared
<1>5. \A a \in rows : ReportOutlet[a] \in ScopeSources(view.scope) /\ HeldWhenAsked(a)
  BY <1>3 DEF InScope, HeldText, ScopeSources, HeldWhenAsked, ReadScopes
<1>. HIDE DEF rows
<1>6. view' \in View
  BY <1>1, <1>2, <1>3, <1>4 DEF View, ViewSteps
<1>7. /\ view'.step = "render" /\ view'.quotes = view.quotes /\ view'.sources = Compared(view)
      /\ view'.asked = view.asked /\ view'.scope = view.scope /\ view'.rows = rows
  BY <1>1, <1>2 DEF View
<1>8. view.quotes = {} /\ withdrawn' = withdrawn
  BY <1>1 DEF ReadingInv, NothingShownYet, QueryIssue
<1>9. RowsInSample'
  BY <1>4, <1>5, <1>7, <1>8 DEF RowsInSample, HeldWhenAsked, ScopeSources
<1>10. (NothingShownYet /\ ShownInSample)'
  BY <1>7 DEF NothingShownYet, ShownInSample
<1>. QED
  BY <1>6, <1>7, <1>9, <1>10, ViewStep DEF QueryIssue, ReadingInv

LEMMA RenderRight ==
  ASSUME ReadingInv, RenderIssue
  PROVE  ReadingInv'
<1> DEFINE quotes == {a \in view.rows : Unexpired(a)}
<1>1. view' = [view EXCEPT !.step = "shown", !.at = now, !.rows = {}, !.quotes = quotes] /\ view.step = "render"
  BY DEF RenderIssue
<1>2. view \in View
  BY DEF ReadingInv, ReadingTypeOK
<1>3. quotes \subseteq Reports /\ quotes \subseteq view.rows /\ \A a \in quotes : RightsEnd[a] > now
  BY <1>2 DEF View, Unexpired
<1>. HIDE DEF quotes
<1>4. now \in 0 .. ReadHorizon /\ now \in Nat /\ now <= now + DetailAge
  BY PublicReadingAssumption DEF ReadingInv, ReadingTypeOK
<1>5. view' \in View
  BY <1>1, <1>2, <1>3, <1>4 DEF View, ViewSteps
<1>6. /\ view'.step = "shown" /\ view'.quotes = quotes /\ view'.sources = view.sources /\ view'.at = now
      /\ view'.asked = view.asked /\ view'.scope = view.scope
  BY <1>1, <1>2 DEF View
<1>7. /\ view.sources \subseteq ScopeSources(view.scope)
      /\ \A a \in view.rows : ReportOutlet[a] \in ScopeSources(view.scope) /\ HeldWhenAsked(a)
  BY <1>1 DEF ReadingInv, RowsInSample
<1>8. withdrawn' = withdrawn /\ now' = now
  BY DEF RenderIssue
<1>9. ShownInSample'
  BY <1>3, <1>4, <1>6, <1>7, <1>8 DEF ShownInSample, HeldWhenAsked, ScopeSources
<1>10. (NothingShownYet /\ RowsInSample)'
  BY <1>6 DEF NothingShownYet, RowsInSample
<1>. QED
  BY <1>5, <1>6, <1>9, <1>10, ViewStep DEF RenderIssue, ReadingInv

LEMMA WithdrawRight ==
  ASSUME ReadingInv, NEW x \in Reports, Withdraw(x)
  PROVE  ReadingInv'
<1>1. withdrawn' = [withdrawn EXCEPT ![x] = now] /\ UNCHANGED <<now, readRun, crawled, view>>
  BY DEF Withdraw
<1>2. now \in 0 .. ReadHorizon /\ withdrawn \in [Reports -> 0 .. ReadHorizon] /\ view \in View
  BY PublicReadingAssumption DEF ReadingInv, ReadingTypeOK
<1>3. ReadingTypeOK' /\ PlacedWhenDone'
  BY <1>1, <1>2 DEF ReadingInv, ReadingTypeOK, PlacedWhenDone
<1>4. \A a \in Reports : HeldWhenAsked(a) => HeldWhenAsked(a)'
  BY <1>1, <1>2 DEF HeldWhenAsked, ReadingInv
<1>5. (RowsInSample /\ ShownInSample)'
  BY <1>1, <1>2, <1>4 DEF ReadingInv, RowsInSample, ShownInSample, View, ScopeSources
<1>. QED
  BY <1>1, <1>3, <1>5 DEF ReadingInv, NothingShownYet

LEMMA ReadTickRight ==
  ASSUME ReadingInv, ReadTick
  PROVE  ReadingInv'
<1>1. now' = now + 1 /\ now \in 1 .. ReadHorizon /\ now' \in 1 .. ReadHorizon /\ now' > now
  BY PublicReadingAssumption DEF ReadTick, ReadingInv, ReadingTypeOK
<1>2. NoView \in View /\ NoView.asked = 0 /\ NoView.step = "rest" /\ NoView.quotes = {} /\ NoView.sources = {}
  BY PublicReadingAssumption DEF NoView, View, ViewSteps, ReadScopes
<1>3. view \in View
  BY DEF ReadingInv, ReadingTypeOK
<1>4. UNCHANGED <<readRun, crawled, withdrawn>>
  BY DEF ReadTick
<1>5. CASE view' = NoView
  BY <1>1, <1>2, <1>4, <1>5 DEF ReadingInv, ReadingTypeOK, PlacedWhenDone, NothingShownYet, RowsInSample, ShownInSample
<1>6. CASE view' = view /\ ~(view.step = "shown" /\ now + 1 > view.at + DetailAge)
  <2>1. ReadingTypeOK' /\ PlacedWhenDone'
    BY <1>1, <1>4, <1>6 DEF ReadingInv, ReadingTypeOK, PlacedWhenDone
  <2>2. (NothingShownYet /\ RowsInSample)'
    BY <1>4, <1>6 DEF ReadingInv, NothingShownYet, RowsInSample, HeldWhenAsked, ScopeSources
  <2>3. view.at \in Nat /\ view.asked \in Nat
    BY <1>3, PublicReadingAssumption DEF View
  <2>4. ShownInSample'
    <3>1. SUFFICES ASSUME view.step = "shown" PROVE ShownInSample'
      BY <1>6 DEF ShownInSample
    <3>2. now' <= view.at + DetailAge
      BY <1>1, <1>6, <2>3, <3>1, PublicReadingAssumption
    <3>. QED
      BY <1>4, <1>6, <3>1, <3>2 DEF ReadingInv, ShownInSample, HeldWhenAsked, ScopeSources
  <2>5. view'.asked <= now'
    BY <1>1, <1>6, <2>3 DEF ReadingInv
  <2>. QED
    BY <2>1, <2>2, <2>4, <2>5 DEF ReadingInv
<1>. QED
  BY <1>5, <1>6 DEF ReadTick

LEMMA ReadingInvStep == ReadingInv /\ [ReadingNext]_readingVars => ReadingInv'
<1>. SUFFICES ASSUME ReadingInv, [ReadingNext]_readingVars PROVE ReadingInv'
  OBVIOUS
<1>1. CASE UNCHANGED readingVars
  <2>1. crawled' \subseteq Reports /\ readRun' \in [ReadRuns -> ReadRun] /\ PlacedWhenDone'
    BY <1>1 DEF readingVars, ReadingInv, ReadingTypeOK, PlacedWhenDone
  <2>. QED
    BY <1>1, <2>1, RunsStep DEF readingVars
<1>2. ASSUME NEW r \in ReadRuns, RunStarts(r) \/ RunFinishes(r) \/ RunEnds(r) PROVE ReadingInv'
  BY <1>2, RunStartsRight, RunFinishesRight, RunEndsRight
<1>3. ASSUME NEW r \in ReadRuns, NEW s \in ReadScopes, NEW i \in readRun[r].issues, AskIssue(s, r, i) PROVE ReadingInv'
  BY <1>3, AskRight
<1>4. ASSUME NEW a \in Reports, Refile(a) PROVE ReadingInv'
  <2>1. crawled' \subseteq Reports /\ UNCHANGED <<now, readRun, withdrawn, view>>
    BY <1>4 DEF Refile, ReadingInv, ReadingTypeOK
  <2>2. readRun' \in [ReadRuns -> ReadRun] /\ PlacedWhenDone'
    BY <2>1 DEF ReadingInv, ReadingTypeOK, PlacedWhenDone
  <2>. QED
    BY <2>1, <2>2, RunsStep
<1>5. ASSUME NEW a \in Reports, Withdraw(a) PROVE ReadingInv'
  BY <1>5, WithdrawRight
<1>. QED
  BY <1>1, <1>2, <1>3, <1>4, <1>5, ScopeRight, QueryRight, RenderRight, ReadTickRight DEF ReadingNext

----------------------------------------------------------------------------
(* ArticleFeed: places in the list *)

AheadOf(p, a) == {b \in Listed(p) : ListedAhead(p, b, a)}

LEMMA PlaceCounts ==
  ASSUME NEW p \in [FeedArticles -> Nat], NEW a \in FeedArticles
  PROVE  /\ IsFiniteSet(AheadOf(p, a)) /\ Place(p, a) = Cardinality(AheadOf(p, a)) /\ Place(p, a) \in Nat
         /\ IsFiniteSet(Listed(p)) /\ Cardinality(Listed(p)) \in Nat
         /\ Cardinality(Listed(p)) <= Cardinality(FeedArticles)
<1>1. Listed(p) \subseteq FeedArticles /\ AheadOf(p, a) \subseteq FeedArticles
  BY DEF Listed, AheadOf
<1>2. IsFiniteSet(Listed(p)) /\ IsFiniteSet(AheadOf(p, a)) /\ Cardinality(Listed(p)) <= Cardinality(FeedArticles)
  BY <1>1, ArticleFeedAssumption, FS_Subset
<1>. QED
  BY <1>2, FS_CardinalityType DEF Place, AheadOf

\* The order of the list is total and transitive.
LEMMA ListedInOrder ==
  ASSUME NEW p \in [FeedArticles -> Nat], NEW a \in FeedArticles, NEW b \in FeedArticles, NEW c \in FeedArticles
  PROVE  /\ ~ListedAhead(p, a, a)
         /\ a # b => ListedAhead(p, a, b) \/ ListedAhead(p, b, a)
         /\ ListedAhead(p, a, b) /\ ListedAhead(p, b, c) => ListedAhead(p, a, c)
<1>1. a \in Nat /\ b \in Nat /\ c \in Nat /\ p[a] \in Nat /\ p[b] \in Nat /\ p[c] \in Nat
  BY ArticleFeedAssumption
<1>. QED
  BY <1>1 DEF ListedAhead

\* An article listed ahead of another has an earlier place.
LEMMA AheadIsEarlier ==
  ASSUME NEW p \in [FeedArticles -> Nat], NEW a \in Listed(p), NEW b \in FeedArticles, ListedAhead(p, a, b)
  PROVE  Place(p, a) < Place(p, b)
<1>1. a \in FeedArticles
  BY DEF Listed
<1>2. AheadOf(p, a) \subseteq AheadOf(p, b) \ {a}
  BY <1>1, ListedInOrder DEF AheadOf, Listed
<1>3. a \in AheadOf(p, b)
  BY DEF AheadOf
<1>4. IsFiniteSet(AheadOf(p, b) \ {a}) /\ Cardinality(AheadOf(p, b) \ {a}) = Cardinality(AheadOf(p, b)) - 1
  BY <1>3, PlaceCounts, FS_RemoveElement
<1>5. Cardinality(AheadOf(p, a)) <= Cardinality(AheadOf(p, b) \ {a})
  BY <1>2, <1>4, FS_Subset
<1>6. /\ Place(p, a) = Cardinality(AheadOf(p, a)) /\ Place(p, a) \in Nat
      /\ Place(p, b) = Cardinality(AheadOf(p, b)) /\ Place(p, b) \in Nat
  BY <1>1, PlaceCounts
<1>. QED
  BY <1>4, <1>5, <1>6

LEMMA PlaceInList ==
  ASSUME NEW p \in [FeedArticles -> Nat], NEW a \in Listed(p)
  PROVE  Place(p, a) < Cardinality(Listed(p))
<1>1. a \in FeedArticles
  BY DEF Listed
<1>2. AheadOf(p, a) \subseteq Listed(p) \ {a}
  BY <1>1, ListedInOrder DEF AheadOf
<1>3. IsFiniteSet(Listed(p) \ {a}) /\ Cardinality(Listed(p) \ {a}) = Cardinality(Listed(p)) - 1
  BY <1>1, PlaceCounts, FS_RemoveElement
<1>4. Cardinality(AheadOf(p, a)) <= Cardinality(Listed(p) \ {a})
  BY <1>2, <1>3, FS_Subset
<1>5. Place(p, a) = Cardinality(AheadOf(p, a)) /\ Place(p, a) \in Nat /\ Cardinality(Listed(p)) \in Nat
  BY <1>1, PlaceCounts
<1>. QED
  BY <1>3, <1>4, <1>5

\* No two articles share a place: as many fit into a stretch of the list as it has places.
LEMMA PlacesDiffer ==
  ASSUME NEW p \in [FeedArticles -> Nat], NEW R \in SUBSET Listed(p), NEW m \in Nat, NEW n \in Nat, m <= n,
         \A a \in R : Place(p, a) \in m .. n - 1
  PROVE  Cardinality(R) \in Nat /\ Cardinality(R) <= n - m
<1> DEFINE f == [a \in R |-> Place(p, a)]
<1>1. \A a \in R, b \in R : f[a] = f[b] => a = b
  <2>1. SUFFICES ASSUME NEW a \in R, NEW b \in R, a # b PROVE f[a] # f[b]
    OBVIOUS
  <2>2. a \in Listed(p) /\ b \in Listed(p) /\ a \in FeedArticles /\ b \in FeedArticles
    BY DEF Listed
  <2>3. ListedAhead(p, a, b) \/ ListedAhead(p, b, a)
    BY <2>1, <2>2, ListedInOrder
  <2>4. Place(p, a) < Place(p, b) \/ Place(p, b) < Place(p, a)
    BY <2>2, <2>3, AheadIsEarlier
  <2>5. Place(p, a) \in Nat /\ Place(p, b) \in Nat
    BY <2>2, PlaceCounts
  <2>. QED
    BY <2>4, <2>5
<1>2. f \in [R -> m .. n - 1]
  OBVIOUS
<1>3. f \in Injection(R, m .. n - 1)
  <2>. HIDE DEF f
  <2>. QED
    BY <1>1, <1>2 DEF Injection, IsInjective
<1>4. IsFiniteSet(m .. n - 1) /\ Cardinality(m .. n - 1) = n - m
  BY FS_Interval
<1>5. Cardinality(R) <= Cardinality(m .. n - 1) /\ IsFiniteSet(R)
  BY <1>3, <1>4, FS_Injection
<1>. QED
  BY <1>4, <1>5, FS_CardinalityType

\* A page holds all the rows of its places, and is not larger than its limit or the rest of the list.
LEMMA PageFits ==
  ASSUME posted \in [FeedArticles -> Nat], NEW m \in Nat
  PROVE  /\ PageRows(m) \subseteq Listed(posted) /\ Cardinality(PageRows(m)) \in Nat
         /\ Cardinality(PageRows(m)) <= PageLimit
         /\ PageRows(m) # {} => m + Cardinality(PageRows(m)) <= Cardinality(Listed(posted))
<1>0. PageLimit \in Nat /\ m + PageLimit \in Nat
  BY ArticleFeedAssumption
<1>1. PageRows(m) \subseteq Listed(posted) /\ \A a \in PageRows(m) : Place(posted, a) \in m .. m + PageLimit - 1
  BY DEF PageRows
<1>2. Cardinality(PageRows(m)) \in Nat /\ Cardinality(PageRows(m)) <= PageLimit
  <2> DEFINE n == m + PageLimit
  <2>1. n \in Nat /\ m <= n /\ n - m = PageLimit
    BY <1>0
  <2>2. \A a \in PageRows(m) : Place(posted, a) \in m .. n - 1
    <3>1. SUFFICES ASSUME NEW a \in PageRows(m) PROVE Place(posted, a) \in m .. n - 1
      OBVIOUS
    <3>2. Place(posted, a) \in m .. m + PageLimit - 1
      BY <1>1
    <3>. QED
      BY <3>2, <1>0
  <2>. HIDE DEF n
  <2>3. Cardinality(PageRows(m)) \in Nat /\ Cardinality(PageRows(m)) <= n - m
    BY <1>1, <2>1, <2>2, PlacesDiffer
  <2>. QED
    BY <2>1, <2>3
<1>3. ASSUME PageRows(m) # {} PROVE m + Cardinality(PageRows(m)) <= Cardinality(Listed(posted))
  <2>1. PICK x \in PageRows(m) : TRUE
    BY <1>3
  <2> DEFINE n == Cardinality(Listed(posted))
  <2>2. x \in FeedArticles
    BY <1>1 DEF Listed
  <2>3. n \in Nat
    BY <2>2, PlaceCounts
  <2>4. \A a \in PageRows(m) : Place(posted, a) \in m .. n - 1
    <3>1. SUFFICES ASSUME NEW a \in PageRows(m) PROVE Place(posted, a) \in m .. n - 1
      OBVIOUS
    <3>2. Place(posted, a) < n
      BY <1>1, PlaceInList
    <3>3. Place(posted, a) \in m .. m + PageLimit - 1
      BY <1>1
    <3>. HIDE DEF n
    <3>. QED
      BY <2>3, <3>2, <3>3, <1>0
  <2>. HIDE DEF n
  <2>5. m <= n
    BY <2>1, <2>3, <2>4
  <2>6. Cardinality(PageRows(m)) <= n - m
    BY <1>1, <2>3, <2>4, <2>5, PlacesDiffer
  <2>7. m + Cardinality(PageRows(m)) <= n
    BY <1>2, <2>3, <2>6
  <2>. QED
    BY <2>7 DEF n
<1>. QED
  BY <1>1, <1>2, <1>3

----------------------------------------------------------------------------
(* ArticleFeed: the walk *)

FeedTyped == ArticleFeedTypeOK /\ walk.offset <= Cardinality(FeedArticles)

\* What is steady is in the list.
SteadyListed == steady \subseteq Listed(posted)

\* Before the cursor there is no steady article that was not shown.
BehindShown ==
  walk.step \in {"count", "page"} /\ ~slid =>
    \A b \in steady : Place(posted, b) < walk.offset => b \in walk.shown

\* At rest nothing was read; the rows counted for a page have not become more.
AtRest == walk.step = "rest" => walk.offset = 0 /\ steady = {}
CountStands == walk.step = "page" /\ ~slid => walk.total >= Cardinality(Listed(posted))

FeedWalkInv == FeedTyped /\ SteadyListed /\ BehindShown /\ AtRest /\ CountStands /\ FeedComplete

LEMMA PostedTyped == ArticleFeedTypeOK => posted \in [FeedArticles -> Nat]
<1>1. PostTimes \cup {0} \subseteq Nat
  BY ArticleFeedAssumption
<1>. QED
  BY <1>1 DEF ArticleFeedTypeOK

LEMMA FeedWalkInvInit == ArticleFeedInit => FeedWalkInv
<1>. SUFFICES ASSUME ArticleFeedInit PROVE FeedWalkInv
  OBVIOUS
<1>1. Cardinality(FeedArticles) \in Nat
  BY ArticleFeedAssumption, FS_CardinalityType
<1>2. posted \in [FeedArticles -> PostTimes \cup {0}]
  BY ArticleFeedAssumption DEF ArticleFeedInit
<1>3. walk \in Walk
  BY <1>1 DEF ArticleFeedInit, Walk, WalkSteps
<1>4. FeedTyped
  <2>1. walk.offset = 0 /\ changes = 0 /\ steady = {} /\ slid = FALSE
    BY DEF ArticleFeedInit
  <2>2. 0 \in 0 .. FeedChanges
    BY ArticleFeedAssumption
  <2>3. ArticleFeedTypeOK
    <3>1. steady \subseteq FeedArticles /\ slid \in BOOLEAN /\ changes \in 0 .. FeedChanges
      BY <2>1, <2>2
    <3>. QED
      BY <1>2, <1>3, <3>1 DEF ArticleFeedTypeOK
  <2>4. walk.offset <= Cardinality(FeedArticles)
    BY <1>1, <2>1
  <2>. QED
    BY <2>3, <2>4 DEF FeedTyped
<1>5. SteadyListed /\ BehindShown /\ AtRest /\ CountStands /\ FeedComplete
  BY DEF ArticleFeedInit, SteadyListed, BehindShown, AtRest, CountStands, FeedComplete
<1>. QED
  BY <1>4, <1>5 DEF FeedWalkInv

LEMMA OpenFeedRight ==
  ASSUME FeedWalkInv, OpenFeed
  PROVE  FeedWalkInv'
<1>1. /\ walk' = [walk EXCEPT !.step = "count"] /\ walk.step = "rest" /\ steady' = Listed(posted)
      /\ UNCHANGED <<posted, changes, slid>>
  BY DEF OpenFeed
<1>2. walk \in Walk /\ walk.offset = 0
  BY <1>1 DEF FeedWalkInv, FeedTyped, ArticleFeedTypeOK, AtRest
<1>3. walk' \in Walk /\ walk'.step = "count" /\ walk'.offset = walk.offset /\ walk'.shown = walk.shown
  BY <1>1, <1>2 DEF Walk, WalkSteps
<1>4. FeedTyped'
  BY <1>1, <1>3 DEF FeedWalkInv, FeedTyped, ArticleFeedTypeOK, Listed
<1>5. SteadyListed'
  BY <1>1 DEF SteadyListed, Listed
<1>6. BehindShown'
  <2>1. \A b \in steady' : Place(posted, b) \in Nat
    BY <1>1, PlaceCounts, PostedTyped DEF FeedWalkInv, FeedTyped, Listed
  <2>2. \A b \in steady' : ~(Place(posted, b) < 0)
    BY <2>1
  <2>3. \A b \in steady' : Place(posted, b)' = Place(posted, b)
    BY <1>1 DEF Place, Listed, ListedAhead
  <2>. QED
    BY <1>2, <1>3, <2>2, <2>3 DEF BehindShown
<1>7. (AtRest /\ CountStands /\ FeedComplete)'
  BY <1>3 DEF AtRest, CountStands, FeedComplete
<1>. QED
  BY <1>4, <1>5, <1>6, <1>7 DEF FeedWalkInv

LEMMA CountRowsRight ==
  ASSUME FeedWalkInv, CountRows
  PROVE  FeedWalkInv'
<1> DEFINE n == Cardinality(Listed(posted))
<1>1. /\ walk' = [walk EXCEPT !.step = "page", !.total = n] /\ walk.step = "count"
      /\ UNCHANGED <<posted, changes, steady, slid>>
  BY DEF CountRows
<1>2. walk \in Walk
  BY DEF FeedWalkInv, FeedTyped, ArticleFeedTypeOK
<1>3. n \in 0 .. Cardinality(FeedArticles) /\ n \in Nat
  <2>1. IsFiniteSet(Listed(posted)) /\ Listed(posted) \subseteq FeedArticles /\ n <= Cardinality(FeedArticles)
    BY ArticleFeedAssumption, FS_Subset DEF Listed
  <2>2. n \in Nat /\ Cardinality(FeedArticles) \in Nat
    BY <2>1, ArticleFeedAssumption, FS_CardinalityType
  <2>. QED
    BY <2>1, <2>2
<1>4. Listed(posted)' = Listed(posted) /\ \A b : Place(posted, b)' = Place(posted, b)
  BY <1>1 DEF Place, Listed, ListedAhead
<1>5. n = n' 
  BY <1>4
<1>. HIDE DEF n
<1>6. /\ walk' \in Walk /\ walk'.step = "page" /\ walk'.offset = walk.offset /\ walk'.shown = walk.shown
      /\ walk'.total = n
  BY <1>1, <1>2, <1>3 DEF Walk, WalkSteps
<1>7. FeedTyped'
  BY <1>1, <1>6 DEF FeedWalkInv, FeedTyped, ArticleFeedTypeOK
<1>8. SteadyListed' /\ BehindShown'
  BY <1>1, <1>4, <1>6 DEF FeedWalkInv, SteadyListed, BehindShown
<1>9. CountStands'
  BY <1>3, <1>4, <1>6 DEF CountStands, n
<1>10. (AtRest /\ FeedComplete)'
  BY <1>6 DEF AtRest, FeedComplete
<1>. QED
  BY <1>7, <1>8, <1>9, <1>10 DEF FeedWalkInv

LEMMA ReadPageRight ==
  ASSUME FeedWalkInv, ReadPage
  PROVE  FeedWalkInv'
<1> DEFINE rows == PageRows(walk.offset)
           next == walk.offset + Cardinality(rows)
           n == Cardinality(Listed(posted))
           step == IF ~HasMore(next, walk.total) THEN "done" ELSE IF CursorFits(next) THEN "count" ELSE "refused"
<1>1. /\ walk' = [walk EXCEPT !.shown = walk.shown \cup rows, !.offset = next, !.step = step] /\ walk.step = "page"
      /\ UNCHANGED <<posted, changes, steady, slid>>
  BY DEF ReadPage
<1>2. /\ walk \in Walk /\ posted \in [FeedArticles -> Nat] /\ walk.offset \in Nat /\ walk.total \in Nat
      /\ walk.offset <= Cardinality(FeedArticles) /\ walk.shown \subseteq FeedArticles
      /\ Cardinality(FeedArticles) \in Nat
  BY PostedTyped, ArticleFeedAssumption, FS_CardinalityType
  DEF FeedWalkInv, FeedTyped, ArticleFeedTypeOK, Walk
<1>3. n \in Nat /\ n <= Cardinality(FeedArticles)
  <2>1. Listed(posted) \subseteq FeedArticles
    BY DEF Listed
  <2>. QED
    BY <2>1, ArticleFeedAssumption, FS_Subset, FS_CardinalityType
<1>4. /\ rows \subseteq Listed(posted) /\ Cardinality(rows) \in Nat /\ Cardinality(rows) <= PageLimit
      /\ rows # {} => next <= n
  BY <1>2, PageFits
<1>5. rows = {} => next = walk.offset
  BY <1>2, FS_EmptySet
<1>6. next \in Nat /\ next <= Cardinality(FeedArticles) /\ next <= walk.offset + PageLimit
  BY <1>2, <1>3, <1>4, <1>5, ArticleFeedAssumption
<1>7. step \in WalkSteps /\ step \in {"done", "count", "refused"}
  BY DEF WalkSteps
<1>8. \A b \in Listed(posted) : Place(posted, b) < next => Place(posted, b) < walk.offset \/ b \in rows
  <2>1. SUFFICES ASSUME NEW b \in Listed(posted), Place(posted, b) < next, ~(Place(posted, b) < walk.offset)
                 PROVE  b \in rows
    OBVIOUS
  <2>2. Place(posted, b) \in Nat
    BY <1>2, PlaceCounts DEF Listed
  <2>3. Place(posted, b) \in walk.offset .. walk.offset + PageLimit - 1
    <3>. HIDE DEF next
    <3>. QED
      BY <1>2, <1>6, <2>1, <2>2, ArticleFeedAssumption
  <2>. QED
    BY <2>3 DEF PageRows
<1>9. step = "done" => next >= walk.total
  BY <1>2, <1>6 DEF HasMore
<1>10. rows \subseteq FeedArticles
  BY <1>4 DEF Listed
<1>11. \A b : Place(posted, b)' = Place(posted, b)
  BY <1>1 DEF Place, Listed, ListedAhead
<1>. HIDE DEF rows, next, n, step
<1>12. /\ walk'.step = step /\ walk'.offset = next /\ walk'.shown = walk.shown \cup rows /\ walk' \in Walk
  <2>1. next \in 0 .. 2 * Cardinality(FeedArticles)
    BY <1>2, <1>6
  <2>. DEFINE upTo == 0 .. 2 * Cardinality(FeedArticles)
              counts == 0 .. Cardinality(FeedArticles)
  <2>2. next \in upTo
    BY <2>1
  <2>3. Walk = [step : WalkSteps, offset : upTo, total : counts, shown : SUBSET FeedArticles]
    BY DEF Walk
  <2>. HIDE DEF upTo, counts
  <2>. QED
    BY <1>1, <1>2, <1>7, <1>10, <2>2, <2>3
<1>13. FeedTyped'
  BY <1>1, <1>6, <1>12 DEF FeedWalkInv, FeedTyped, ArticleFeedTypeOK
<1>14. SteadyListed'
  BY <1>1 DEF FeedWalkInv, SteadyListed, Listed
<1>15. ASSUME ~slid PROVE \A b \in steady : Place(posted, b) < next => b \in walk.shown \cup rows
  <2>1. SUFFICES ASSUME NEW b \in steady, Place(posted, b) < next PROVE b \in walk.shown \cup rows
    OBVIOUS
  <2>2. b \in Listed(posted)
    BY DEF FeedWalkInv, SteadyListed
  <2>3. Place(posted, b) < walk.offset => b \in walk.shown
    BY <1>1, <1>15 DEF FeedWalkInv, BehindShown
  <2>. QED
    BY <1>8, <2>1, <2>2, <2>3
<1>16. BehindShown'
  BY <1>1, <1>11, <1>12, <1>15 DEF BehindShown
<1>17. (AtRest /\ CountStands)'
  BY <1>7, <1>12 DEF AtRest, CountStands
<1>18. FeedComplete'
  <2>1. SUFFICES ASSUME step = "done", ~slid, NEW b \in steady PROVE b \in walk.shown \cup rows
    BY <1>1, <1>12 DEF FeedComplete
  <2>2. b \in Listed(posted)
    BY DEF FeedWalkInv, SteadyListed
  <2>3. Place(posted, b) < n /\ Place(posted, b) \in Nat
    BY <1>2, <2>2, PlaceInList, PlaceCounts DEF n, Listed
  <2>4. walk.total >= n
    BY <1>1, <2>1 DEF FeedWalkInv, CountStands, n
  <2>5. Place(posted, b) < next
    BY <1>2, <1>3, <1>6, <1>9, <2>1, <2>3, <2>4
  <2>. QED
    BY <1>15, <2>1, <2>5
<1>. QED
  BY <1>13, <1>14, <1>16, <1>17, <1>18 DEF FeedWalkInv

\* One row written: what is ahead of another article changes by that row alone.  If the other came
\* before the cursor by it, the row was before the cursor and no longer is.
LEMMA RowSlides ==
  ASSUME NEW p \in [FeedArticles -> Nat], NEW q \in [FeedArticles -> Nat], NEW a \in FeedArticles,
         NEW b \in FeedArticles, b # a, NEW m \in Nat, b \in Listed(p),
         \A c \in FeedArticles : c # a => q[c] = p[c],
         Place(q, b) < m, ~(Place(p, b) < m)
  PROVE  (p[a] # 0 /\ Place(p, a) < m) /\ ~(q[a] # 0 /\ Place(q, a) < m)
<1>1. Place(p, b) \in Nat /\ Place(q, b) \in Nat /\ Place(p, a) \in Nat /\ Place(q, a) \in Nat
  BY PlaceCounts
<1>2. \A c \in FeedArticles : c # a => (c \in AheadOf(p, b) <=> c \in AheadOf(q, b))
  BY DEF AheadOf, Listed, ListedAhead
<1>3. a \in AheadOf(p, b) /\ a \notin AheadOf(q, b)
  <2>1. ASSUME AheadOf(p, b) \subseteq AheadOf(q, b) PROVE FALSE
    <3>1. Cardinality(AheadOf(p, b)) <= Cardinality(AheadOf(q, b))
      BY <2>1, PlaceCounts, FS_Subset
    <3>2. Place(p, b) <= Place(q, b)
      BY <3>1, PlaceCounts
    <3>. QED
      BY <1>1, <3>2
  <2>2. AheadOf(p, b) \subseteq FeedArticles
    BY DEF AheadOf, Listed
  <2>. QED
    BY <1>2, <2>1, <2>2
<1>4. p[a] # 0 /\ a \in Listed(p) /\ ListedAhead(p, a, b)
  BY <1>3 DEF AheadOf, Listed
<1>5. AheadOf(q, b) = AheadOf(p, b) \ {a}
  <2>1. AheadOf(p, b) \subseteq FeedArticles /\ AheadOf(q, b) \subseteq FeedArticles
    BY DEF AheadOf, Listed
  <2>. QED
    BY <1>2, <1>3, <2>1
<1>6. Cardinality(AheadOf(q, b)) = Cardinality(AheadOf(p, b)) - 1
  <2>1. IsFiniteSet(AheadOf(p, b))
    BY PlaceCounts
  <2>. QED
    BY <1>3, <1>5, <2>1, FS_RemoveElement
<1>7. Place(q, b) = Place(p, b) - 1
  BY <1>6, PlaceCounts
<1>8. Place(p, b) = m
  BY <1>1, <1>7
<1>9. Place(p, a) < m
  BY <1>4, <1>8, AheadIsEarlier
<1>10. ASSUME q[a] # 0 PROVE ~(Place(q, a) < m)
  <2>1. a \in Listed(q) /\ b \in Listed(q)
    BY <1>10 DEF Listed
  <2>2. ~ListedAhead(q, a, b)
    BY <1>3, <2>1 DEF AheadOf
  <2>3. ListedAhead(q, b, a)
    BY <2>2, ListedInOrder
  <2>4. Place(q, b) < Place(q, a)
    BY <2>1, <2>3, AheadIsEarlier
  <2>. QED
    BY <1>1, <1>7, <1>8, <2>4
<1>. QED
  BY <1>4, <1>9, <1>10

LEMMA ImportRowRight ==
  ASSUME FeedWalkInv, NEW a \in FeedArticles, ImportRow(a)
  PROVE  FeedWalkInv'
<1>1. PICK t \in PostTimes \cup {0} :
        /\ t # posted[a] /\ posted' = [posted EXCEPT ![a] = t]
        /\ slid' = (slid \/ (/\ posted[a] # 0 /\ Place(posted, a) < walk.offset
                             /\ ~(t # 0 /\ Place([posted EXCEPT ![a] = t], a) < walk.offset))
                         \/ (walk.step = "page" /\ posted[a] = 0))
  BY DEF ImportRow
<1>2. /\ changes < FeedChanges /\ changes' = changes + 1 /\ steady' = steady \ {a} /\ walk' = walk
      /\ walk.step \notin {"rest", "done", "refused"}
  BY DEF ImportRow
<1>3. /\ ArticleFeedTypeOK /\ posted \in [FeedArticles -> Nat] /\ walk \in Walk /\ walk.offset \in Nat
      /\ steady \subseteq FeedArticles /\ walk.total \in Nat
  BY PostedTyped DEF FeedWalkInv, FeedTyped, ArticleFeedTypeOK, Walk
<1>4. posted' \in [FeedArticles -> PostTimes \cup {0}] /\ slid' \in BOOLEAN /\ changes' \in 0 .. FeedChanges
  BY <1>1, <1>2, <1>3, ArticleFeedAssumption DEF ArticleFeedTypeOK
<1>5. ArticleFeedTypeOK' /\ posted' \in [FeedArticles -> Nat]
  <2>1. PostTimes \cup {0} \subseteq Nat
    BY ArticleFeedAssumption
  <2>. QED
    BY <1>2, <1>3, <1>4, <2>1 DEF ArticleFeedTypeOK
<1>6. FeedTyped'
  BY <1>2, <1>5 DEF FeedWalkInv, FeedTyped
<1>7. \A c \in FeedArticles : c # a => posted'[c] = posted[c]
  BY <1>1, <1>3
<1>8. posted'[a] = t
  BY <1>1, <1>3
<1>9. \A b : Place(posted, b)' = Place(posted', b)
  BY DEF Place, Listed, ListedAhead
<1>10. Listed(posted)' = Listed(posted')
  BY DEF Listed
<1>11. SteadyListed'
  BY <1>2, <1>7, <1>10 DEF FeedWalkInv, SteadyListed, Listed
<1>12. BehindShown'
  <2>1. SUFFICES ASSUME ~slid', NEW b \in steady', Place(posted', b) < walk.offset PROVE b \in walk.shown
    BY <1>2, <1>9 DEF BehindShown
  <2>2. b \in steady /\ b # a /\ b \in FeedArticles /\ b \in Listed(posted) /\ ~slid
    BY <1>1, <1>2, <1>3, <2>1 DEF FeedWalkInv, SteadyListed
  <2>3. CASE Place(posted, b) < walk.offset
    BY <1>2, <1>3, <2>2, <2>3 DEF FeedWalkInv, BehindShown, Walk, WalkSteps
  <2>4. ASSUME ~(Place(posted, b) < walk.offset) PROVE FALSE
    <3>1. (posted[a] # 0 /\ Place(posted, a) < walk.offset) /\ ~(posted'[a] # 0 /\ Place(posted', a) < walk.offset)
      BY <1>3, <1>5, <1>7, <2>1, <2>2, <2>4, RowSlides
    <3>. QED
      BY <1>1, <1>8, <2>1, <3>1
  <2>. QED
    BY <2>3, <2>4
<1>13. CountStands'
  <2>1. SUFFICES ASSUME walk.step = "page", ~slid' PROVE walk.total >= Cardinality(Listed(posted'))
    BY <1>2, <1>10 DEF CountStands
  <2>2. ~slid /\ posted[a] # 0
    BY <1>1, <2>1
  <2>3. Listed(posted') \subseteq Listed(posted)
    BY <1>7, <2>2 DEF Listed
  <2>4. Cardinality(Listed(posted')) <= Cardinality(Listed(posted))
    BY <1>3, <2>3, PlaceCounts, FS_Subset
  <2>5. walk.total >= Cardinality(Listed(posted))
    BY <2>1, <2>2 DEF FeedWalkInv, CountStands
  <2>6. Cardinality(Listed(posted')) \in Nat /\ Cardinality(Listed(posted)) \in Nat
    BY <1>3, <1>5, PlaceCounts
  <2>. QED
    BY <1>3, <2>4, <2>5, <2>6
<1>14. (AtRest /\ FeedComplete)'
  BY <1>2 DEF AtRest, FeedComplete
<1>. QED
  BY <1>6, <1>11, <1>12, <1>13, <1>14 DEF FeedWalkInv

LEMMA FeedWalkInvStep == FeedWalkInv /\ [ArticleFeedNext]_articleFeedVars => FeedWalkInv'
<1>. SUFFICES ASSUME FeedWalkInv, [ArticleFeedNext]_articleFeedVars PROVE FeedWalkInv'
  OBVIOUS
<1>1. CASE UNCHANGED articleFeedVars
  <2>1. FeedTyped'
    BY <1>1 DEF articleFeedVars, FeedWalkInv, FeedTyped, ArticleFeedTypeOK
  <2>2. Listed(posted)' = Listed(posted) /\ \A b : Place(posted, b)' = Place(posted, b)
    BY <1>1 DEF articleFeedVars, Place, Listed, ListedAhead
  <2>. QED
    BY <1>1, <2>1, <2>2 DEF articleFeedVars, FeedWalkInv, SteadyListed, BehindShown, AtRest, CountStands, FeedComplete
<1>2. CASE ArticleFeedNext
  BY <1>2, ImportRowRight, OpenFeedRight, CountRowsRight, ReadPageRight DEF ArticleFeedNext
<1>. QED
  BY <1>1, <1>2

----------------------------------------------------------------------------
(* Dashboard: its state and its requests *)

BoardNames == {""} \cup STRING
BoardScopes == {PanelScope, FallbackScope}
DetailsShown == Seq([issue : BoardNames, scope : BoardScopes])
ListsShown == Seq(ListKeys)
ArchiveRows == Seq([filter : DOMAIN FilteredTotal, at : Nat])
BoardSet == [category : BoardCategories, date : BoardDays, scope : BoardScopes, selected : BoardNames,
             detail : DetailsShown, detailError : BOOLEAN, cleared : BOOLEAN, issues : ListsShown,
             issueError : BOOLEAN, applied : DOMAIN FilteredTotal, archive : BOOLEAN, found : ArchiveRows,
             offset : Nat, loading : BOOLEAN, refreshing : BOOLEAN, options : SUBSET BoardDays]
DateAsks == [prefer : BoardDays, category : BoardCategories, scope : BoardScopes, by : {"mount", "refresh"},
             applied : DOMAIN FilteredTotal, free : BOOLEAN]
DetailAsks == [issue : BoardNames, scope : BoardScopes, live : BOOLEAN]
ArchiveAsks == [append : BOOLEAN, filter : DOMAIN FilteredTotal, offset : Nat]
AskedSet == [dates : SUBSET DateAsks, issues : SUBSET ListKeys, detail : SUBSET DetailAsks,
             archive : SUBSET ArchiveAsks]

\* A request that was not cancelled is for what is selected; with none, the detail is right.
DetailRight(b, ds) ==
  /\ \A d \in ds : d.live => d.issue = b.selected /\ d.scope = b.scope
  /\ b.selected # "" /\ ~(\E d \in ds : d.live) =>
       \/ b.detail = <<[issue |-> b.selected, scope |-> b.scope]>>
       \/ b.detail = << >> /\ (b.detailError \/ b.cleared)

\* Requests that did not overlap are at most one, for the list the page names.
ListRight(b, qs, is, cr) ==
  ~cr =>
    \/ qs = {} /\ is = {} /\ (~b.issueError => b.issues = <<ListKey(b.category, b.date, b.scope)>>)
    \/ is = {} /\ \E q \in qs : qs = {q} /\ q.category = b.category /\ q.scope = b.scope
    \/ qs = {} /\ is = {ListKey(b.category, b.date, b.scope)}

\* Rows of one filter from the first on.
RowsFrom(found, f) == \A n \in DOMAIN found : found[n] = [filter |-> f, at |-> n - 1]

\* Until it strays the archive has one request at most, and that goes on where the rows end.
ArchiveRight(b, qs, as, st) ==
  /\ \A x \in as : ~x.append => x.offset = 0
  /\ \A q \in qs : q.free => b.archive
  /\ ~b.archive => as = {} /\ b.found = << >> /\ ~b.loading /\ b.offset = 0 /\ ~st
  /\ ~st => /\ \A x \in as, y \in as : x = y
            /\ b.loading = (as # {})
            /\ \A x \in as : x.filter = b.applied /\ (x.append => x.offset = Len(b.found))
            /\ RowsFrom(b.found, b.applied) /\ b.offset = Len(b.found)

BoardRight(b, a, cr, st) ==
  /\ b \in BoardSet /\ a \in AskedSet /\ st \in BOOLEAN
  /\ DetailRight(b, a.detail)
  /\ ListRight(b, a.dates, a.issues, cr)
  /\ ArchiveRight(b, a.dates, a.archive, st)
BoardInv == BoardRight(board, asked, crossed, strayed)

LEMMA BoardKept == BoardInv => BoardFits
<1>. SUFFICES ASSUME BoardInv PROVE BoardFits
  OBVIOUS
<1>1. board \in BoardSet /\ asked \in AskedSet
  BY DEF BoardInv, BoardRight
<1>2. DetailFits
  BY DEF BoardInv, BoardRight, DetailRight, DetailFits
<1>3. ListFits
  BY DEF BoardInv, BoardRight, ListRight, ListFits, Quiet
<1>4. ArchiveFits
  <2>1. SUFFICES ASSUME ~strayed, board.found # << >>
                 PROVE  board.found = [n \in 1 .. Len(board.found) |-> [filter |-> board.applied, at |-> n - 1]]
    BY DEF ArchiveFits
  <2>2. RowsFrom(board.found, board.applied)
    BY <2>1 DEF BoardInv, BoardRight, ArchiveRight
  <2>3. board.found \in ArchiveRows
    BY <1>1 DEF BoardSet
  <2> DEFINE R == [filter : DOMAIN FilteredTotal, at : Nat]
  <2>4. board.found \in Seq(R)
    BY <2>3 DEF ArchiveRows
  <2>. HIDE DEF R
  <2>5. DOMAIN board.found = 1 .. Len(board.found) /\ board.found = [n \in DOMAIN board.found |-> board.found[n]]
    BY <2>4
  <2>. QED
    BY <2>2, <2>5 DEF RowsFrom
<1>. QED
  BY <1>2, <1>3, <1>4 DEF BoardFits

LEMMA BoardInvInit == BoardInit => BoardInv
<1>. SUFFICES ASSUME BoardInit PROVE BoardInv
  OBVIOUS
<1>1. PICK c \in BoardCategories, d \in BoardDays :
        /\ board = Board(c)
        /\ asked = [dates |-> {[prefer |-> d, category |-> c, scope |-> PanelScope, by |-> "mount",
                               applied |-> "none", free |-> FALSE]},
                    issues |-> {}, detail |-> {}, archive |-> {}]
  BY DEF BoardInit
<1> DEFINE q == [prefer |-> d, category |-> c, scope |-> PanelScope, by |-> "mount", applied |-> "none", free |-> FALSE]
<1>2. /\ PanelScope \in BoardScopes /\ "none" \in DOMAIN FilteredTotal /\ "" \in BoardDays /\ << >> \in DetailsShown
      /\ << >> \in ListsShown /\ << >> \in ArchiveRows /\ "" \in BoardNames
  <2>1. PanelScope \in BoardScopes /\ "none" \in DOMAIN FilteredTotal /\ "" \in BoardNames
    <3>1. PanelScope \in BoardScopes
      BY DEF BoardScopes
    <3>2. "none" \in DOMAIN FilteredTotal
      BY DashboardAssumption
    <3>3. "" \in BoardNames
      BY DEF BoardNames
    <3>. QED
      BY <3>1, <3>2, <3>3
  <2>2. "" \in BoardDays
    BY DEF BoardDays
  <2>3. << >> \in DetailsShown /\ << >> \in ListsShown
    BY DEF DetailsShown, ListsShown
  <2>4. << >> \in ArchiveRows
    BY DEF ArchiveRows
  <2>. QED
    BY <2>1, <2>2, <2>3, <2>4
<1>3. Board(c) \in BoardSet
  BY <1>2 DEF Board, BoardSet
<1>4. q \in DateAsks /\ ~q.free /\ q.category = c /\ q.scope = PanelScope
  BY <1>2 DEF DateAsks
<1>. HIDE DEF q
<1>5. asked = [dates |-> {q}, issues |-> {}, detail |-> {}, archive |-> {}]
  BY <1>1 DEF q
<1>6. asked \in AskedSet
  BY <1>4, <1>5 DEF AskedSet
<1>7. crossed = FALSE /\ strayed = FALSE
  BY DEF BoardInit
<1>8. /\ board.selected = "" /\ board.category = c /\ board.scope = PanelScope /\ board.found = << >>
      /\ board.loading = FALSE /\ board.offset = 0
  BY <1>1 DEF Board
<1>9. asked.dates = {q} /\ asked.issues = {} /\ asked.detail = {} /\ asked.archive = {}
  BY <1>5
<1>10. DetailRight(board, asked.detail)
  BY <1>8, <1>9 DEF DetailRight
<1>11. ListRight(board, asked.dates, asked.issues, crossed)
  BY <1>4, <1>8, <1>9 DEF ListRight
<1>12. ArchiveRight(board, asked.dates, asked.archive, strayed)
  <2>1. Len(<< >>) = 0 /\ RowsFrom(<< >>, board.applied)
    BY DEF RowsFrom
  <2>. QED
    BY <1>4, <1>7, <1>8, <1>9, <2>1 DEF ArchiveRight
<1>. QED
  BY <1>1, <1>3, <1>6, <1>7, <1>10, <1>11, <1>12 DEF BoardInv, BoardRight

\* The effect on the selected issue puts the request for it right, whatever is selected by then.
Undisturbed(b) ==
  b.selected = board.selected /\ b.scope = board.scope =>
    \/ b.selected = ""
    \/ b.detail = << >> /\ b.cleared
    \/ b.detail = board.detail /\ b.detailError = board.detailError /\ b.cleared = board.cleared

LEMMA DetailedRight ==
  ASSUME NEW ds \in SUBSET DetailAsks, NEW b \in BoardSet
  PROVE  /\ Detailed(b, ds) \in SUBSET DetailAsks
         /\ \A d \in Detailed(b, ds) : d.live => d.issue = b.selected /\ d.scope = b.scope
         /\ b.selected # "" => \E d \in Detailed(b, ds) : d.live
<1>1. b.selected \in BoardNames /\ b.scope \in BoardScopes
  BY DEF BoardSet
<1>2. \A d \in ds : [d EXCEPT !.live = FALSE] \in DetailAsks /\ ~[d EXCEPT !.live = FALSE].live
  BY DEF DetailAsks
<1>3. Cancelled(ds) \in SUBSET DetailAsks /\ \A d \in Cancelled(ds) : ~d.live
  BY <1>2 DEF Cancelled
<1> DEFINE own == [issue |-> b.selected, scope |-> b.scope, live |-> TRUE]
<1>4. own \in DetailAsks /\ own.live /\ own.issue = b.selected /\ own.scope = b.scope
  BY <1>1 DEF DetailAsks
<1>5. Detailed(b, ds) = Cancelled(ds) \cup {[issue |-> i, scope |-> b.scope, live |-> TRUE] : i \in {b.selected} \ {""}}
  BY DEF Detailed
<1>6. Detailed(b, ds) \subseteq Cancelled(ds) \cup {own} /\ (b.selected # "" => own \in Detailed(b, ds))
  BY <1>5
<1>. HIDE DEF own
<1>. QED
  BY <1>3, <1>4, <1>6

LEMMA EffectRight ==
  ASSUME NEW ds \in SUBSET DetailAsks, board \in BoardSet, DetailRight(board, ds), NEW b \in BoardSet, Undisturbed(b)
  PROVE  /\ DetailEffect(b, ds) \in SUBSET DetailAsks
         /\ Reselected(b) \in BoardSet
         /\ DetailRight(Reselected(b), DetailEffect(b, ds))
         /\ \A x \in {"category", "date", "scope", "issues", "issueError", "applied", "archive", "found",
                      "offset", "loading"} : Reselected(b)[x] = b[x]
<1>1. CASE b.selected # board.selected \/ b.scope # board.scope
  <2>1. DetailEffect(b, ds) = Detailed(b, ds) /\ Reselected(b) = [b EXCEPT !.cleared = FALSE]
    BY <1>1 DEF DetailEffect, Reselected
  <2>2. Reselected(b) \in BoardSet /\ Reselected(b).selected = b.selected /\ Reselected(b).scope = b.scope
    BY <2>1 DEF BoardSet
  <2>3. \A x \in {"category", "date", "scope", "issues", "issueError", "applied", "archive", "found",
                  "offset", "loading"} : Reselected(b)[x] = b[x]
    BY <2>1 DEF BoardSet
  <2>. QED
    BY <2>1, <2>2, <2>3, DetailedRight DEF DetailRight
<1>2. CASE ~(b.selected # board.selected \/ b.scope # board.scope)
  <2>1. DetailEffect(b, ds) = ds /\ Reselected(b) = b
    BY <1>2 DEF DetailEffect, Reselected
  <2>. QED
    BY <1>2, <2>1 DEF DetailRight, Undisturbed
<1>. QED
  BY <1>1, <1>2

----------------------------------------------------------------------------
(* Dashboard: the reader *)

BoardFields == {"category", "date", "scope", "issues", "issueError", "applied", "archive", "found", "offset", "loading"}

\* The parts of a request table, and what a step that only takes an act may leave alone.
LEMMA AskedParts ==
  ASSUME NEW a \in AskedSet
  PROVE  /\ a.dates \in SUBSET DateAsks /\ a.issues \in SUBSET ListKeys /\ a.detail \in SUBSET DetailAsks
         /\ a.archive \in SUBSET ArchiveAsks
  BY DEF AskedSet

\* loadIssues: the list is asked for what the page names.
LEMMA AskIssuesRight ==
  ASSUME BoardInv, NEW b \in BoardSet, Undisturbed(b), Burst,
         \A x \in {"applied", "archive", "found", "offset", "loading"} : b[x] = board[x],
         AskIssues(b, ListKey(b.category, b.date, b.scope)), strayed' = strayed
  PROVE  BoardInv'
<1> DEFINE key == ListKey(b.category, b.date, b.scope)
           nb == [b EXCEPT !.issueError = FALSE]
<1>1. /\ board' = Reselected(nb)
      /\ asked' = [asked EXCEPT !.issues = asked.issues \cup {key}, !.detail = DetailEffect(b, asked.detail)]
  BY DEF AskIssues
<1>2. /\ board \in BoardSet /\ asked \in AskedSet /\ strayed \in BOOLEAN /\ DetailRight(board, asked.detail)
      /\ ListRight(board, asked.dates, asked.issues, crossed) /\ ArchiveRight(board, asked.dates, asked.archive, strayed)
  BY DEF BoardInv, BoardRight
<1>3. key \in ListKeys
  BY DEF ListKey, ListKeys, BoardSet, BoardScopes
<1>4. /\ nb \in BoardSet /\ nb.issueError = FALSE /\ nb.selected = b.selected /\ nb.scope = b.scope
      /\ nb.detail = b.detail /\ nb.detailError = b.detailError /\ nb.cleared = b.cleared
      /\ nb.category = b.category /\ nb.date = b.date
      /\ \A x \in {"applied", "archive", "found", "offset", "loading"} : nb[x] = b[x]
  BY DEF BoardSet
<1>. HIDE DEF nb
<1>5. DetailEffect(b, asked.detail) = DetailEffect(nb, asked.detail) /\ Undisturbed(nb)
  BY <1>4 DEF DetailEffect, Detailed, Undisturbed
<1>6. /\ DetailEffect(nb, asked.detail) \in SUBSET DetailAsks
      /\ board' \in BoardSet
      /\ DetailRight(board', DetailEffect(nb, asked.detail))
      /\ \A x \in BoardFields : board'[x] = nb[x]
  BY <1>1, <1>2, <1>4, <1>5, AskedParts, EffectRight DEF BoardFields
<1>. HIDE DEF key
<1>7. /\ asked' \in AskedSet /\ asked'.dates = asked.dates /\ asked'.issues = asked.issues \cup {key}
      /\ asked'.detail = DetailEffect(nb, asked.detail) /\ asked'.archive = asked.archive
  BY <1>1, <1>2, <1>3, <1>5, <1>6 DEF AskedSet
<1>8. /\ board'.category = b.category /\ board'.date = b.date /\ board'.scope = b.scope
      /\ board'.applied = board.applied /\ board'.archive = board.archive /\ board'.found = board.found
      /\ board'.offset = board.offset /\ board'.loading = board.loading
  BY <1>4, <1>6 DEF BoardFields
<1>9. ListRight(board', asked'.dates, asked'.issues, crossed')
  BY <1>7, <1>8 DEF ListRight, Burst, Quiet, key
<1>10. ArchiveRight(board', asked'.dates, asked'.archive, strayed')
  BY <1>2, <1>7, <1>8 DEF ArchiveRight
<1>. QED
  BY <1>2, <1>6, <1>7, <1>9, <1>10 DEF BoardInv, BoardRight

LEMMA BoardTyped ==
  ASSUME BoardInv
  PROVE  /\ board \in BoardSet /\ asked \in AskedSet /\ strayed \in BOOLEAN
         /\ DetailRight(board, asked.detail)
         /\ ListRight(board, asked.dates, asked.issues, crossed)
         /\ ArchiveRight(board, asked.dates, asked.archive, strayed)
  BY DEF BoardInv, BoardRight

LEMMA HandleCategoryRight ==
  ASSUME BoardInv, HandleCategory
  PROVE  BoardInv'
<1>1. PICK c \in BoardCategories :
        AskIssues([board EXCEPT !.category = c, !.detail = << >>, !.detailError = FALSE, !.cleared = TRUE],
                  ListKey(c, board.date, board.scope))
  BY DEF HandleCategory
<1>2. PICK b : b = [board EXCEPT !.category = c, !.detail = << >>, !.detailError = FALSE, !.cleared = TRUE]
  OBVIOUS
<1>3. board \in BoardSet
  BY BoardTyped
<1>4. << >> \in DetailsShown
  BY DEF DetailsShown
<1>5. /\ b \in BoardSet /\ b.category = c /\ b.date = board.date /\ b.scope = board.scope
      /\ b.detail = << >> /\ b.cleared = TRUE
      /\ \A x \in {"applied", "archive", "found", "offset", "loading"} : b[x] = board[x]
  BY <1>2, <1>3, <1>4 DEF BoardSet
<1>6. Undisturbed(b)
  BY <1>5 DEF Undisturbed
<1>7. AskIssues(b, ListKey(b.category, b.date, b.scope))
  BY <1>1, <1>2, <1>5
<1>. QED
  BY <1>5, <1>6, <1>7, AskIssuesRight DEF HandleCategory

LEMMA HandleIssueDateRight ==
  ASSUME BoardInv, HandleIssueDate
  PROVE  BoardInv'
<1>1. PICK d \in board.options :
        AskIssues([board EXCEPT !.date = d, !.category = "all", !.detail = << >>, !.detailError = FALSE,
                                !.selected = ""], ListKey("all", d, board.scope))
  BY DEF HandleIssueDate
<1>2. PICK b : b = [board EXCEPT !.date = d, !.category = "all", !.detail = << >>, !.detailError = FALSE, !.selected = ""]
  OBVIOUS
<1>3. board \in BoardSet /\ d \in BoardDays /\ "all" \in BoardCategories
  BY BoardTyped, DashboardAssumption DEF BoardSet
<1>4. << >> \in DetailsShown /\ "" \in BoardNames
  BY DEF DetailsShown, BoardNames
<1>5. /\ b \in BoardSet /\ b.category = "all" /\ b.date = d /\ b.scope = board.scope /\ b.selected = ""
      /\ \A x \in {"applied", "archive", "found", "offset", "loading"} : b[x] = board[x]
  BY <1>2, <1>3, <1>4 DEF BoardSet
<1>6. Undisturbed(b)
  BY <1>5 DEF Undisturbed
<1>7. AskIssues(b, ListKey(b.category, b.date, b.scope))
  BY <1>1, <1>2, <1>5
<1>. QED
  BY <1>5, <1>6, <1>7, AskIssuesRight DEF HandleIssueDate

LEMMA RetryIssuesRight ==
  ASSUME BoardInv, RetryIssues
  PROVE  BoardInv'
<1>1. Undisturbed(board) /\ board \in BoardSet
  BY BoardTyped DEF Undisturbed
<1>. QED
  BY <1>1, AskIssuesRight DEF RetryIssues

\* A step about the selected issue alone.
LEMMA SelectionStep ==
  ASSUME BoardInv, NEW b \in BoardSet, Undisturbed(b), \A x \in BoardFields : b[x] = board[x],
         board' = Reselected(b), asked' = [asked EXCEPT !.detail = DetailEffect(b, asked.detail)],
         crossed' = crossed, strayed' = strayed
  PROVE  BoardInv'
<1>1. /\ DetailEffect(b, asked.detail) \in SUBSET DetailAsks
      /\ board' \in BoardSet
      /\ DetailRight(board', DetailEffect(b, asked.detail))
      /\ \A x \in BoardFields : board'[x] = b[x]
  BY BoardTyped, AskedParts, EffectRight DEF BoardFields
<1>2. asked \in AskedSet
  BY BoardTyped
<1>3. /\ asked' \in AskedSet /\ asked'.dates = asked.dates /\ asked'.issues = asked.issues
      /\ asked'.detail = DetailEffect(b, asked.detail) /\ asked'.archive = asked.archive
  BY <1>1, <1>2 DEF AskedSet
<1>4. /\ board'.category = board.category /\ board'.date = board.date /\ board'.scope = board.scope
      /\ board'.issues = board.issues /\ board'.issueError = board.issueError
      /\ board'.applied = board.applied /\ board'.archive = board.archive /\ board'.found = board.found
      /\ board'.offset = board.offset /\ board'.loading = board.loading
  BY <1>1 DEF BoardFields
<1>5. ListRight(board', asked'.dates, asked'.issues, crossed')
  BY <1>3, <1>4, BoardTyped DEF ListRight
<1>6. ArchiveRight(board', asked'.dates, asked'.archive, strayed')
  BY <1>3, <1>4, BoardTyped DEF ArchiveRight
<1>. QED
  BY <1>1, <1>3, <1>5, <1>6, BoardTyped DEF BoardInv, BoardRight

LEMMA ShownTyped ==
  ASSUME board \in BoardSet
  PROVE  ShownIssues \in Seq(STRING)
<1>1. CASE board.issues = << >> \/ board.issueError
  <2>1. ShownIssues = << >>
    BY <1>1 DEF ShownIssues
  <2>2. \A S : << >> \in Seq(S)
    OBVIOUS
  <2>. QED
    BY <2>1, <2>2
<1>2. CASE ~(board.issues = << >> \/ board.issueError)
  <2>1. board.issues \in Seq(ListKeys) /\ board.issues # << >>
    BY <1>2 DEF BoardSet, ListsShown
  <2>2. board.issues[1] \in ListKeys
    BY <2>1
  <2>3. IssueLists[board.issues[1]] \in Seq(STRING)
    BY <2>2, DashboardAssumption
  <2>. QED
    BY <1>2, <2>3 DEF ShownIssues
<1>. QED
  BY <1>1, <1>2

LEMMA SelectIssueRight ==
  ASSUME BoardInv, SelectIssue
  PROVE  BoardInv'
<1>1. PICK n \in DOMAIN ShownIssues :
        LET b == [board EXCEPT !.detail = << >>, !.detailError = FALSE, !.selected = ShownIssues[n],
                               !.cleared = board.cleared \/ ShownIssues[n] = board.selected]
        IN board' = Reselected(b) /\ asked' = [asked EXCEPT !.detail = DetailEffect(b, asked.detail)]
  BY DEF SelectIssue
<1>2. PICK i \in BoardNames : i = ShownIssues[n]
  <2>1. ShownIssues \in Seq(STRING)
    BY BoardTyped, ShownTyped
  <2>2. \A S, s : s \in Seq(S) => \A k \in DOMAIN s : s[k] \in S
    OBVIOUS
  <2>3. ShownIssues[n] \in STRING
    BY <2>1, <2>2
  <2>. QED
    BY <2>3 DEF BoardNames
<1>3. PICK cl \in BOOLEAN : cl = (board.cleared \/ i = board.selected)
  OBVIOUS
<1>4. PICK b : b = [board EXCEPT !.detail = << >>, !.detailError = FALSE, !.selected = i, !.cleared = cl]
  OBVIOUS
<1>5. board' = Reselected(b) /\ asked' = [asked EXCEPT !.detail = DetailEffect(b, asked.detail)]
  BY <1>1, <1>2, <1>3, <1>4
<1>6. board \in BoardSet /\ << >> \in DetailsShown
  BY BoardTyped DEF DetailsShown
<1>7. /\ b \in BoardSet /\ b.selected = i /\ b.detail = << >> /\ b.cleared = cl
      /\ \A x \in BoardFields : b[x] = board[x]
  BY <1>4, <1>6 DEF BoardSet, BoardFields
<1>8. Undisturbed(b)
  BY <1>3, <1>7 DEF Undisturbed
<1>. QED
  BY <1>5, <1>7, <1>8, SelectionStep DEF SelectIssue

LEMMA RetryDetailRight ==
  ASSUME BoardInv, RetryDetail
  PROVE  BoardInv'
<1>1. /\ board' = [board EXCEPT !.detail = << >>, !.detailError = FALSE, !.cleared = FALSE]
      /\ asked' = [asked EXCEPT !.detail = Detailed(board, asked.detail)] /\ UNCHANGED <<crossed, strayed>>
  BY DEF RetryDetail
<1>2. board \in BoardSet /\ << >> \in DetailsShown /\ asked \in AskedSet
  BY BoardTyped DEF DetailsShown
<1>3. /\ Detailed(board, asked.detail) \in SUBSET DetailAsks
      /\ \A d \in Detailed(board, asked.detail) : d.live => d.issue = board.selected /\ d.scope = board.scope
      /\ board.selected # "" => \E d \in Detailed(board, asked.detail) : d.live
  BY <1>2, AskedParts, DetailedRight
<1>4. /\ asked' \in AskedSet /\ asked'.dates = asked.dates /\ asked'.issues = asked.issues
      /\ asked'.detail = Detailed(board, asked.detail) /\ asked'.archive = asked.archive
  BY <1>1, <1>2, <1>3 DEF AskedSet
<1>5. /\ board' \in BoardSet /\ board'.selected = board.selected
      /\ board'.category = board.category /\ board'.date = board.date /\ board'.scope = board.scope
      /\ board'.issues = board.issues /\ board'.issueError = board.issueError
      /\ board'.applied = board.applied /\ board'.archive = board.archive /\ board'.found = board.found
      /\ board'.offset = board.offset /\ board'.loading = board.loading
  BY <1>1, <1>2 DEF BoardSet
<1>6. DetailRight(board', asked'.detail)
  BY <1>3, <1>4, <1>5 DEF DetailRight
<1>7. ListRight(board', asked'.dates, asked'.issues, crossed')
  BY <1>1, <1>4, <1>5, BoardTyped DEF ListRight
<1>8. ArchiveRight(board', asked'.dates, asked'.archive, strayed')
  BY <1>1, <1>4, <1>5, BoardTyped DEF ArchiveRight
<1>. QED
  BY <1>1, <1>4, <1>5, <1>6, <1>7, <1>8, BoardTyped DEF BoardInv, BoardRight

\* A step that changes nothing the detail or the list is judged by.
LEMMA ElsewhereStep ==
  ASSUME BoardInv, board' \in BoardSet, asked' \in AskedSet, strayed' \in BOOLEAN,
         \A x \in {"category", "date", "scope", "selected", "detail", "detailError", "cleared", "issues", "issueError"} :
           board'[x] = board[x],
         asked'.dates = asked.dates, asked'.issues = asked.issues, asked'.detail = asked.detail, crossed' = crossed,
         ArchiveRight(board', asked'.dates, asked'.archive, strayed')
  PROVE  BoardInv'
<1>1. /\ board'.category = board.category /\ board'.date = board.date /\ board'.scope = board.scope
      /\ board'.selected = board.selected /\ board'.detail = board.detail /\ board'.detailError = board.detailError
      /\ board'.cleared = board.cleared /\ board'.issues = board.issues /\ board'.issueError = board.issueError
  OBVIOUS
<1>2. DetailRight(board', asked'.detail)
  BY <1>1, BoardTyped DEF DetailRight
<1>3. ListRight(board', asked'.dates, asked'.issues, crossed')
  BY <1>1, BoardTyped DEF ListRight
<1>. QED
  BY <1>2, <1>3 DEF BoardInv, BoardRight

LEMMA OpenArchiveRight ==
  ASSUME BoardInv, OpenArchive
  PROVE  BoardInv'
<1>1. PICK ask : ask = ArchiveAsk(FALSE, board.applied, 0)
  OBVIOUS
<1>2. /\ ~board.archive /\ board' = [board EXCEPT !.archive = TRUE, !.loading = TRUE]
      /\ asked' = [asked EXCEPT !.archive = asked.archive \cup {ask}] /\ UNCHANGED <<crossed, strayed>>
  BY <1>1 DEF OpenArchive
<1>3. board \in BoardSet /\ asked \in AskedSet /\ strayed \in BOOLEAN
  BY BoardTyped
<1>4. ask \in ArchiveAsks /\ ~ask.append /\ ask.offset = 0 /\ ask.filter = board.applied
  BY <1>1, <1>3 DEF ArchiveAsk, ArchiveAsks, BoardSet
<1>5. /\ asked' \in AskedSet /\ asked'.dates = asked.dates /\ asked'.issues = asked.issues
      /\ asked'.detail = asked.detail /\ asked'.archive = asked.archive \cup {ask}
  BY <1>2, <1>3, <1>4 DEF AskedSet
<1>6. /\ board' \in BoardSet /\ board'.archive = TRUE /\ board'.loading = TRUE /\ board'.found = board.found
      /\ board'.offset = board.offset /\ board'.applied = board.applied
      /\ \A x \in {"category", "date", "scope", "selected", "detail", "detailError", "cleared", "issues", "issueError"} :
           board'[x] = board[x]
  BY <1>2, <1>3 DEF BoardSet
<1>7. ArchiveRight(board', asked'.dates, asked'.archive, strayed')
  BY <1>2, <1>4, <1>5, <1>6, BoardTyped DEF ArchiveRight
<1>. QED
  BY <1>2, <1>3, <1>5, <1>6, <1>7, ElsewhereStep

LEMMA MoreArticlesRight ==
  ASSUME BoardInv, MoreArticles
  PROVE  BoardInv'
<1>1. PICK ask : ask = ArchiveAsk(TRUE, board.applied, board.offset)
  OBVIOUS
<1>2. /\ board.archive /\ ~board.loading /\ board' = [board EXCEPT !.loading = TRUE]
      /\ asked' = [asked EXCEPT !.archive = asked.archive \cup {ask}] /\ UNCHANGED <<crossed, strayed>>
  BY <1>1 DEF MoreArticles
<1>3. board \in BoardSet /\ asked \in AskedSet /\ strayed \in BOOLEAN
  BY BoardTyped
<1>4. ask \in ArchiveAsks /\ ask.append /\ ask.offset = board.offset /\ ask.filter = board.applied
  BY <1>1, <1>3 DEF ArchiveAsk, ArchiveAsks, BoardSet
<1>5. /\ asked' \in AskedSet /\ asked'.dates = asked.dates /\ asked'.issues = asked.issues
      /\ asked'.detail = asked.detail /\ asked'.archive = asked.archive \cup {ask}
  BY <1>2, <1>3, <1>4 DEF AskedSet
<1>6. /\ board' \in BoardSet /\ board'.archive = board.archive /\ board'.loading = TRUE /\ board'.found = board.found
      /\ board'.offset = board.offset /\ board'.applied = board.applied
      /\ \A x \in {"category", "date", "scope", "selected", "detail", "detailError", "cleared", "issues", "issueError"} :
           board'[x] = board[x]
  BY <1>2, <1>3 DEF BoardSet
<1>7. ArchiveRight(board', asked'.dates, asked'.archive, strayed')
  BY <1>2, <1>4, <1>5, <1>6, BoardTyped DEF ArchiveRight
<1>. QED
  BY <1>2, <1>3, <1>5, <1>6, <1>7, ElsewhereStep

LEMMA FilterRight ==
  ASSUME BoardInv, NEW f \in DOMAIN FilteredTotal, Filter(f)
  PROVE  BoardInv'
<1>1. PICK ask : ask = ArchiveAsk(FALSE, f, 0)
  OBVIOUS
<1>2. PICK new \in {{}, {ask}} : /\ new = (IF board.loading THEN {} ELSE {ask})
                                 /\ asked' = [asked EXCEPT !.archive = asked.archive \cup new]
  <2>1. CASE board.loading
    <3>1. asked \in AskedSet
      BY BoardTyped
    <3>2. asked' = [asked EXCEPT !.archive = asked.archive \cup {}]
      BY <2>1, <3>1 DEF Filter, AskedSet
    <3>. QED
      BY <2>1, <3>2
  <2>2. CASE ~board.loading
    BY <2>2, <1>1 DEF Filter
  <2>. QED
    BY <2>1, <2>2
<1>3. /\ board.archive /\ board' = [board EXCEPT !.applied = f, !.loading = TRUE]
      /\ strayed' = (strayed \/ f # board.applied) /\ crossed' = crossed
  BY DEF Filter
<1>4. board \in BoardSet /\ asked \in AskedSet /\ strayed \in BOOLEAN
  BY BoardTyped
<1>5. ask \in ArchiveAsks /\ ~ask.append /\ ask.offset = 0 /\ ask.filter = f
  BY <1>1 DEF ArchiveAsk, ArchiveAsks
<1>6. /\ asked' \in AskedSet /\ asked'.dates = asked.dates /\ asked'.issues = asked.issues
      /\ asked'.detail = asked.detail /\ asked'.archive = asked.archive \cup new
  BY <1>2, <1>4, <1>5 DEF AskedSet
<1>7. /\ board' \in BoardSet /\ board'.archive = board.archive /\ board'.loading = TRUE /\ board'.found = board.found
      /\ board'.offset = board.offset /\ board'.applied = f
      /\ \A x \in {"category", "date", "scope", "selected", "detail", "detailError", "cleared", "issues", "issueError"} :
           board'[x] = board[x]
  BY <1>3, <1>4 DEF BoardSet
<1>8. ArchiveRight(board', asked'.dates, asked'.archive, strayed')
  BY <1>2, <1>3, <1>5, <1>6, <1>7, BoardTyped DEF ArchiveRight
<1>. QED
  BY <1>3, <1>4, <1>6, <1>7, <1>8, ElsewhereStep

LEMMA RefreshAllRight ==
  ASSUME BoardInv, RefreshAll
  PROVE  BoardInv'
<1>1. PICK fr \in BOOLEAN : fr = (board.archive /\ ~board.loading)
  OBVIOUS
<1>2. PICK q : q = [prefer |-> board.date, category |-> board.category, scope |-> board.scope, by |-> "refresh",
                    applied |-> board.applied, free |-> fr]
  OBVIOUS
<1>3. /\ board' = [board EXCEPT !.refreshing = TRUE] /\ asked' = [asked EXCEPT !.dates = asked.dates \cup {q}]
      /\ strayed' = strayed /\ crossed' = ~Quiet
  BY <1>1, <1>2 DEF RefreshAll, Burst
<1>4. board \in BoardSet /\ asked \in AskedSet /\ strayed \in BOOLEAN
  BY BoardTyped
<1>5. q \in DateAsks /\ q.category = board.category /\ q.scope = board.scope /\ (q.free => board.archive)
  BY <1>1, <1>2, <1>4 DEF DateAsks, BoardSet
<1>6. /\ asked' \in AskedSet /\ asked'.dates = asked.dates \cup {q} /\ asked'.issues = asked.issues
      /\ asked'.detail = asked.detail /\ asked'.archive = asked.archive
  BY <1>3, <1>4, <1>5 DEF AskedSet
<1>7. /\ board' \in BoardSet
      /\ board'.category = board.category /\ board'.date = board.date /\ board'.scope = board.scope
      /\ board'.selected = board.selected /\ board'.detail = board.detail /\ board'.detailError = board.detailError
      /\ board'.cleared = board.cleared /\ board'.issues = board.issues /\ board'.issueError = board.issueError
      /\ board'.applied = board.applied /\ board'.archive = board.archive /\ board'.found = board.found
      /\ board'.offset = board.offset /\ board'.loading = board.loading
  BY <1>3, <1>4 DEF BoardSet
<1>8. DetailRight(board', asked'.detail)
  BY <1>6, <1>7, BoardTyped DEF DetailRight
<1>9. ListRight(board', asked'.dates, asked'.issues, crossed')
  BY <1>3, <1>5, <1>6, <1>7 DEF ListRight, Quiet
<1>10. ArchiveRight(board', asked'.dates, asked'.archive, strayed')
  BY <1>3, <1>5, <1>6, <1>7, BoardTyped DEF ArchiveRight
<1>. QED
  BY <1>3, <1>4, <1>6, <1>7, <1>8, <1>9, <1>10 DEF BoardInv, BoardRight

----------------------------------------------------------------------------
(* Dashboard: the answers *)

\* A list of issues came, or its request failed.
LEMMA IssuesAnsweredRight ==
  ASSUME BoardInv, IssuesAnswered
  PROVE  BoardInv'
<1>1. PICK key \in asked.issues :
        LET b == [board EXCEPT !.issues = <<key>>, !.selected = Selection(IssueLists[key])]
        IN /\ board' = Reselected(b)
           /\ asked' = [asked EXCEPT !.issues = asked.issues \ {key}, !.detail = DetailEffect(b, asked.detail)]
  BY DEF IssuesAnswered
<1>2. /\ board \in BoardSet /\ asked \in AskedSet /\ strayed \in BOOLEAN
      /\ asked.detail \in SUBSET DetailAsks /\ asked.issues \in SUBSET ListKeys
  BY BoardTyped, AskedParts
<1>3. PICK i \in BoardNames : i = Selection(IssueLists[key])
  <2>1. IssueLists[key] \in Seq(STRING)
    BY <1>2, DashboardAssumption
  <2>2. \A S, s : s \in Seq(S) /\ s # << >> => s[1] \in S
    OBVIOUS
  <2>3. IssueLists[key] # << >> => IssueLists[key][1] \in STRING
    BY <2>1, <2>2
  <2>4. board.selected \in BoardNames
    BY <1>2 DEF BoardSet
  <2>. QED
    BY <2>3, <2>4 DEF Selection, BoardNames
<1>4. PICK ks \in ListsShown : ks = <<key>>
  <2>1. <<key>> \in ListsShown
    BY <1>2 DEF ListsShown
  <2>. QED
    BY <2>1
<1>5. PICK b : b = [board EXCEPT !.issues = ks, !.selected = i]
  OBVIOUS
<1>6. /\ board' = Reselected(b)
      /\ asked' = [asked EXCEPT !.issues = asked.issues \ {key}, !.detail = DetailEffect(b, asked.detail)]
  BY <1>1, <1>3, <1>4, <1>5
<1>7. /\ b \in BoardSet /\ b.issues = ks /\ b.selected = i /\ b.detail = board.detail
      /\ b.detailError = board.detailError /\ b.cleared = board.cleared
      /\ \A x \in BoardFields \ {"issues"} : b[x] = board[x]
  BY <1>2, <1>5 DEF BoardSet, BoardFields
<1>8. Undisturbed(b)
  BY <1>7 DEF Undisturbed
<1>9. /\ DetailEffect(b, asked.detail) \in SUBSET DetailAsks
      /\ board' \in BoardSet
      /\ DetailRight(board', DetailEffect(b, asked.detail))
      /\ \A x \in BoardFields : board'[x] = b[x]
  BY <1>2, <1>6, <1>7, <1>8, BoardTyped, EffectRight DEF BoardFields
<1>10. /\ asked' \in AskedSet /\ asked'.dates = asked.dates /\ asked'.issues = asked.issues \ {key}
       /\ asked'.detail = DetailEffect(b, asked.detail) /\ asked'.archive = asked.archive
  BY <1>2, <1>6, <1>9 DEF AskedSet
<1>11. /\ board'.category = board.category /\ board'.date = board.date /\ board'.scope = board.scope
       /\ board'.issues = <<key>> /\ board'.issueError = board.issueError
       /\ board'.applied = board.applied /\ board'.archive = board.archive /\ board'.found = board.found
       /\ board'.offset = board.offset /\ board'.loading = board.loading
  BY <1>4, <1>7, <1>9 DEF BoardFields
<1>12. crossed' = crossed /\ strayed' = strayed
  BY DEF IssuesAnswered
<1>13. ListRight(board', asked'.dates, asked'.issues, crossed')
  BY <1>1, <1>10, <1>11, <1>12, BoardTyped DEF ListRight
<1>14. ArchiveRight(board', asked'.dates, asked'.archive, strayed')
  BY <1>10, <1>11, <1>12, BoardTyped DEF ArchiveRight
<1>. QED
  BY <1>2, <1>9, <1>10, <1>12, <1>13, <1>14 DEF BoardInv, BoardRight

LEMMA IssuesFailedRight ==
  ASSUME BoardInv, IssuesFailed
  PROVE  BoardInv'
<1>1. PICK key \in asked.issues : asked' = [asked EXCEPT !.issues = asked.issues \ {key}]
  BY DEF IssuesFailed
<1>2. board' = [board EXCEPT !.issueError = TRUE] /\ crossed' = crossed /\ strayed' = strayed
  BY DEF IssuesFailed
<1>3. board \in BoardSet /\ asked \in AskedSet /\ strayed \in BOOLEAN
  BY BoardTyped
<1>4. /\ asked' \in AskedSet /\ asked'.dates = asked.dates /\ asked'.issues = asked.issues \ {key}
      /\ asked'.detail = asked.detail /\ asked'.archive = asked.archive
  BY <1>1, <1>3 DEF AskedSet
<1>5. /\ board' \in BoardSet /\ board'.issueError = TRUE
      /\ board'.category = board.category /\ board'.date = board.date /\ board'.scope = board.scope
      /\ board'.selected = board.selected /\ board'.detail = board.detail /\ board'.detailError = board.detailError
      /\ board'.cleared = board.cleared
      /\ board'.applied = board.applied /\ board'.archive = board.archive /\ board'.found = board.found
      /\ board'.offset = board.offset /\ board'.loading = board.loading
  BY <1>2, <1>3 DEF BoardSet
<1>6. DetailRight(board', asked'.detail)
  BY <1>4, <1>5, BoardTyped DEF DetailRight
<1>7. ListRight(board', asked'.dates, asked'.issues, crossed')
  BY <1>1, <1>2, <1>4, <1>5, BoardTyped DEF ListRight
<1>8. ArchiveRight(board', asked'.dates, asked'.archive, strayed')
  BY <1>2, <1>4, <1>5, BoardTyped DEF ArchiveRight
<1>. QED
  BY <1>2, <1>3, <1>4, <1>5, <1>6, <1>7, <1>8 DEF BoardInv, BoardRight

LEMMA DetailAnsweredRight ==
  ASSUME BoardInv, DetailAnswered
  PROVE  BoardInv'
<1>1. PICK d \in asked.detail :
        /\ asked' = [asked EXCEPT !.detail = asked.detail \ {d}]
        /\ board' \in IF ~d.live THEN {board}
                      ELSE {[board EXCEPT !.detail = <<[issue |-> d.issue, scope |-> d.scope]>>],
                            [board EXCEPT !.detail = << >>, !.detailError = TRUE]}
  BY DEF DetailAnswered
<1>2. /\ board \in BoardSet /\ asked \in AskedSet /\ strayed \in BOOLEAN /\ DetailRight(board, asked.detail)
      /\ asked.detail \in SUBSET DetailAsks
  BY BoardTyped, AskedParts
<1>3. /\ asked' \in AskedSet /\ asked'.dates = asked.dates /\ asked'.issues = asked.issues
      /\ asked'.detail = asked.detail \ {d} /\ asked'.archive = asked.archive
  BY <1>1, <1>2 DEF AskedSet
<1>4. crossed' = crossed /\ strayed' = strayed
  BY DEF DetailAnswered
<1>5. PICK r \in DetailsShown : r = <<[issue |-> d.issue, scope |-> d.scope]>>
  <2>1. [issue |-> d.issue, scope |-> d.scope] \in [issue : BoardNames, scope : BoardScopes]
    BY <1>2 DEF DetailAsks
  <2>2. \A S : \A x \in S : <<x>> \in Seq(S)
    OBVIOUS
  <2>. QED
    BY <2>1, <2>2 DEF DetailsShown
<1>6. << >> \in DetailsShown
  BY DEF DetailsShown
<1>7. CASE ~d.live
  <2>1. board' = board
    BY <1>1, <1>7
  <2>2. DetailRight(board', asked'.detail)
    BY <1>2, <1>3, <1>7, <2>1 DEF DetailRight
  <2>3. ListRight(board', asked'.dates, asked'.issues, crossed')
    BY <1>3, <1>4, <2>1, BoardTyped
  <2>4. ArchiveRight(board', asked'.dates, asked'.archive, strayed')
    BY <1>3, <1>4, <2>1, BoardTyped
  <2>. QED
    BY <1>2, <1>3, <1>4, <2>1, <2>2, <2>3, <2>4 DEF BoardInv, BoardRight
<1>8. CASE d.live
  <2>1. board' = [board EXCEPT !.detail = r] \/ board' = [board EXCEPT !.detail = << >>, !.detailError = TRUE]
    BY <1>1, <1>5, <1>8
  <2>2. /\ board' \in BoardSet
        /\ board'.detail = r \/ (board'.detail = << >> /\ board'.detailError)
        /\ board'.category = board.category /\ board'.date = board.date /\ board'.scope = board.scope
        /\ board'.selected = board.selected /\ board'.issues = board.issues /\ board'.issueError = board.issueError
        /\ board'.applied = board.applied /\ board'.archive = board.archive /\ board'.found = board.found
        /\ board'.offset = board.offset /\ board'.loading = board.loading
    BY <1>2, <1>6, <2>1 DEF BoardSet
  <2>3. DetailRight(board', asked'.detail)
    <3>1. d.issue = board.selected /\ d.scope = board.scope
      BY <1>2, <1>8 DEF DetailRight
    <3>2. r = <<[issue |-> board'.selected, scope |-> board'.scope]>>
      BY <1>5, <2>2, <3>1
    <3>3. \A e \in asked'.detail : e.live => e.issue = board'.selected /\ e.scope = board'.scope
      BY <1>2, <1>3, <2>2 DEF DetailRight
    <3>. QED
      BY <2>2, <3>2, <3>3 DEF DetailRight
  <2>4. ListRight(board', asked'.dates, asked'.issues, crossed')
    BY <1>3, <1>4, <2>2, BoardTyped DEF ListRight
  <2>5. ArchiveRight(board', asked'.dates, asked'.archive, strayed')
    BY <1>3, <1>4, <2>2, BoardTyped DEF ArchiveRight
  <2>. QED
    BY <1>2, <1>3, <1>4, <2>2, <2>3, <2>4, <2>5 DEF BoardInv, BoardRight
<1>. QED
  BY <1>7, <1>8

\* The page answered is appended to rows it goes on from, or is the first of its filter.
LEMMA RowsGoOn ==
  ASSUME NEW found \in ArchiveRows, NEW f \in DOMAIN FilteredTotal, RowsFrom(found, f), NEW next \in ArchiveRows,
         next \in {<< >>, <<[filter |-> f, at |-> Len(found)]>>}
  PROVE  /\ found \o next \in ArchiveRows /\ RowsFrom(found \o next, f)
         /\ Len(found \o next) = Len(found) + Len(next)
<1> DEFINE R == [filter : DOMAIN FilteredTotal, at : Nat]
<1>1. found \in Seq(R) /\ next \in Seq(R)
  BY DEF ArchiveRows
<1>. HIDE DEF R
<1>2. /\ found \o next \in Seq(R) /\ Len(found \o next) = Len(found) + Len(next) /\ Len(found) \in Nat /\ Len(next) \in Nat
      /\ DOMAIN (found \o next) = 1 .. Len(found) + Len(next)
      /\ \A n \in 1 .. Len(found) : (found \o next)[n] = found[n]
      /\ \A n \in Len(found) + 1 .. Len(found) + Len(next) : (found \o next)[n] = next[n - Len(found)]
      /\ DOMAIN found = 1 .. Len(found)
  BY <1>1
<1>3. \A n \in 1 .. Len(found) : (found \o next)[n] = [filter |-> f, at |-> n - 1]
  BY <1>2 DEF RowsFrom
<1>4. CASE next = << >>
  <2>1. Len(next) = 0
    BY <1>4
  <2>. QED
    BY <1>2, <1>3, <2>1 DEF RowsFrom, ArchiveRows, R
<1>5. CASE next = <<[filter |-> f, at |-> Len(found)]>>
  <2>1. Len(next) = 1 /\ next[1] = [filter |-> f, at |-> Len(found)]
    BY <1>5
  <2>2. \A n \in 1 .. Len(found) + 1 : (found \o next)[n] = [filter |-> f, at |-> n - 1]
    <3>1. SUFFICES ASSUME NEW n \in 1 .. Len(found) + 1 PROVE (found \o next)[n] = [filter |-> f, at |-> n - 1]
      OBVIOUS
    <3>2. CASE n \in 1 .. Len(found)
      BY <1>3, <3>2
    <3>3. CASE n = Len(found) + 1
      <4>1. (found \o next)[n] = next[n - Len(found)] /\ n - Len(found) = 1 /\ n - 1 = Len(found)
        BY <1>2, <2>1, <3>3
      <4>. QED
        BY <2>1, <4>1
    <3>4. \A k \in Nat : \A m \in 1 .. k + 1 : m \in 1 .. k \/ m = k + 1
      OBVIOUS
    <3>5. n \in 1 .. Len(found) \/ n = Len(found) + 1
      BY <1>2, <3>4
    <3>. QED
      BY <3>2, <3>3, <3>5
  <2>. QED
    BY <1>2, <2>1, <2>2 DEF RowsFrom, ArchiveRows, R
<1>. QED
  BY <1>4, <1>5

LEMMA ArchiveFailedRight ==
  ASSUME BoardInv, ArchiveFailed
  PROVE  BoardInv'
<1>1. PICK a \in asked.archive : asked' = [asked EXCEPT !.archive = asked.archive \ {a}]
  BY DEF ArchiveFailed
<1>2. board' = [board EXCEPT !.loading = FALSE] /\ crossed' = crossed /\ strayed' = strayed
  BY DEF ArchiveFailed
<1>3. board \in BoardSet /\ asked \in AskedSet /\ strayed \in BOOLEAN
  BY BoardTyped
<1>4. /\ asked' \in AskedSet /\ asked'.dates = asked.dates /\ asked'.issues = asked.issues
      /\ asked'.detail = asked.detail /\ asked'.archive = asked.archive \ {a}
  BY <1>1, <1>3 DEF AskedSet
<1>5. /\ board' \in BoardSet /\ board'.archive = board.archive /\ board'.loading = FALSE /\ board'.found = board.found
      /\ board'.offset = board.offset /\ board'.applied = board.applied
      /\ \A x \in {"category", "date", "scope", "selected", "detail", "detailError", "cleared", "issues", "issueError"} :
           board'[x] = board[x]
  BY <1>2, <1>3 DEF BoardSet
<1>6. ArchiveRight(board', asked'.dates, asked'.archive, strayed')
  BY <1>1, <1>2, <1>4, <1>5, BoardTyped DEF ArchiveRight
<1>. QED
  BY <1>2, <1>3, <1>4, <1>5, <1>6, ElsewhereStep

LEMMA ArchiveAnsweredRight ==
  ASSUME BoardInv, ArchiveAnswered
  PROVE  BoardInv'
<1>1. PICK a \in asked.archive :
        LET next == IF a.offset < FilteredTotal[a.filter] THEN <<[filter |-> a.filter, at |-> a.offset]>> ELSE << >>
        IN /\ asked' = [asked EXCEPT !.archive = asked.archive \ {a}]
           /\ board' = [board EXCEPT !.found = IF a.append THEN board.found \o next ELSE next,
                                     !.offset = a.offset + Len(next), !.loading = FALSE]
           /\ strayed' = (IF a.append \/ asked.archive # {a} THEN strayed ELSE a.filter # board.applied)
  BY DEF ArchiveAnswered
<1>2. /\ board \in BoardSet /\ asked \in AskedSet /\ strayed \in BOOLEAN /\ asked.archive \in SUBSET ArchiveAsks
      /\ ArchiveRight(board, asked.dates, asked.archive, strayed)
  BY BoardTyped, AskedParts
<1>3. /\ a \in ArchiveAsks /\ a.offset \in Nat /\ a.filter \in DOMAIN FilteredTotal /\ a.append \in BOOLEAN
      /\ board.found \in ArchiveRows /\ board.applied \in DOMAIN FilteredTotal
  BY <1>2 DEF ArchiveAsks, BoardSet
<1> DEFINE row == [filter |-> a.filter, at |-> a.offset]
<1>4. PICK next \in ArchiveRows :
        /\ next \in {<< >>, <<row>>}
        /\ next = (IF a.offset < FilteredTotal[a.filter] THEN <<row>> ELSE << >>)
  <2> DEFINE R == [filter : DOMAIN FilteredTotal, at : Nat]
  <2>1. row \in R
    BY <1>3
  <2>2. \A S : << >> \in Seq(S) /\ \A x \in S : <<x>> \in Seq(S)
    OBVIOUS
  <2>3. << >> \in ArchiveRows /\ <<row>> \in ArchiveRows
    BY <2>1, <2>2 DEF ArchiveRows
  <2>. QED
    BY <2>3
<1>5. Len(next) \in Nat
  <2>1. \A S, s : s \in Seq(S) => Len(s) \in Nat
    OBVIOUS
  <2>. QED
    BY <2>1 DEF ArchiveRows
<1>6. PICK found : found = IF a.append THEN board.found \o next ELSE next
  OBVIOUS
<1>7. found \in ArchiveRows
  <2>1. \A S, s, t : s \in Seq(S) /\ t \in Seq(S) => s \o t \in Seq(S)
    OBVIOUS
  <2>. QED
    BY <1>3, <1>6, <2>1 DEF ArchiveRows
<1>8. PICK offset \in Nat : offset = a.offset + Len(next)
  BY <1>3, <1>5
<1>9. board' = [board EXCEPT !.found = found, !.offset = offset, !.loading = FALSE]
  BY <1>1, <1>4, <1>6, <1>8
<1>10. /\ asked' \in AskedSet /\ asked'.dates = asked.dates /\ asked'.issues = asked.issues
       /\ asked'.detail = asked.detail /\ asked'.archive = asked.archive \ {a}
  BY <1>1, <1>2 DEF AskedSet
<1>11. /\ board' \in BoardSet /\ board'.archive = board.archive /\ board'.loading = FALSE /\ board'.found = found
       /\ board'.offset = offset /\ board'.applied = board.applied
       /\ \A x \in {"category", "date", "scope", "selected", "detail", "detailError", "cleared", "issues", "issueError"} :
            board'[x] = board[x]
  BY <1>2, <1>7, <1>8, <1>9 DEF BoardSet
<1>12. strayed' = (IF a.append \/ asked.archive # {a} THEN strayed ELSE a.filter # board.applied)
  BY <1>1
<1>13. strayed' \in BOOLEAN /\ crossed' = crossed
  BY <1>2, <1>12 DEF ArchiveAnswered
<1>14. board.archive
  BY <1>2 DEF ArchiveRight
<1>15. ASSUME ~strayed'
       PROVE  /\ asked'.archive = {} /\ RowsFrom(found, board.applied) /\ offset = Len(found)
  <2>1. CASE a.append
    <3>1. /\ ~strayed /\ asked.archive = {a} /\ a.filter = board.applied /\ a.offset = Len(board.found)
          /\ RowsFrom(board.found, board.applied)
      BY <1>2, <1>12, <1>15, <2>1 DEF ArchiveRight
    <3>2. next \in {<< >>, <<[filter |-> board.applied, at |-> Len(board.found)]>>}
      BY <1>4, <3>1
    <3>3. RowsFrom(board.found \o next, board.applied) /\ Len(board.found \o next) = Len(board.found) + Len(next)
      BY <1>3, <3>1, <3>2, RowsGoOn
    <3>. QED
      BY <1>6, <1>8, <1>10, <2>1, <3>1, <3>3
  <2>2. CASE ~a.append
    <3>1. a.offset = 0
      BY <1>2, <2>2 DEF ArchiveRight
    <3>2. asked.archive = {a}
      BY <1>2, <1>12, <1>15, <2>2 DEF ArchiveRight
    <3>3. a.filter = board.applied
      BY <1>12, <1>15, <2>2, <3>2
    <3>4. RowsFrom(next, board.applied)
      <4>1. CASE next = << >>
        BY <4>1 DEF RowsFrom
      <4>2. CASE next = <<row>>
        <5>1. DOMAIN next = {1} /\ next[1] = [filter |-> board.applied, at |-> 0]
          BY <3>1, <3>3, <4>2
        <5>. QED
          BY <5>1 DEF RowsFrom
      <4>. QED
        BY <1>4, <4>1, <4>2
    <3>. QED
      BY <1>5, <1>6, <1>8, <1>10, <2>2, <3>1, <3>2, <3>4
  <2>. QED
    BY <1>3, <2>1, <2>2
<1>16. ArchiveRight(board', asked'.dates, asked'.archive, strayed')
  <2>1. \A x \in asked'.archive : ~x.append => x.offset = 0
    BY <1>2, <1>10 DEF ArchiveRight
  <2>2. \A q \in asked'.dates : q.free => board'.archive
    BY <1>2, <1>10, <1>11 DEF ArchiveRight
  <2>. QED
    BY <1>11, <1>14, <1>15, <2>1, <2>2 DEF ArchiveRight
<1>. QED
  BY <1>10, <1>11, <1>13, <1>16, ElsewhereStep

\* The dates came, or their request failed: the list is asked for under what the page names now.
LEMMA ResolvedRight ==
  ASSUME BoardInv, NEW q \in asked.dates, NEW d \in BoardDays, NEW s \in {<< >>, <<PanelScope>>, <<FallbackScope>>},
         NEW listed \in SUBSET BoardDays, Resolved(q, d, s, listed), crossed' = crossed
  PROVE  BoardInv'
<1>1. PICK scope \in BoardScopes : /\ s = << >> => scope = q.scope
                                   /\ s # << >> => scope = s[1]
  BY BoardTyped, AskedParts DEF DateAsks, BoardScopes
<1>2. PICK own \in BoardScopes : own = IF s = << >> THEN board.scope ELSE s[1]
  BY BoardTyped DEF BoardSet, BoardScopes
<1>3. /\ board \in BoardSet /\ asked \in AskedSet /\ strayed \in BOOLEAN /\ asked.detail \in SUBSET DetailAsks
      /\ asked.dates \in SUBSET DateAsks /\ asked.issues \in SUBSET ListKeys /\ asked.archive \in SUBSET ArchiveAsks
      /\ ArchiveRight(board, asked.dates, asked.archive, strayed) /\ DetailRight(board, asked.detail)
      /\ ListRight(board, asked.dates, asked.issues, crossed)
  BY BoardTyped, AskedParts
<1>4. PICK load \in BOOLEAN : load = (board.loading \/ q.free)
  OBVIOUS
<1>5. PICK fresh \in BOOLEAN : fresh = (board.refreshing /\ q.by # "refresh")
  OBVIOUS
<1>6. PICK b : b = [board EXCEPT !.date = d, !.options = listed, !.scope = own, !.issueError = FALSE,
                                 !.loading = load, !.refreshing = fresh]
  OBVIOUS
<1>7. /\ b \in BoardSet /\ b.date = d /\ b.scope = own /\ b.loading = load /\ b.category = board.category
      /\ b.selected = board.selected /\ b.detail = board.detail /\ b.detailError = board.detailError
      /\ b.cleared = board.cleared /\ b.applied = board.applied /\ b.archive = board.archive
      /\ b.found = board.found /\ b.offset = board.offset
  BY <1>3, <1>6 DEF BoardSet
<1>8. PICK key \in ListKeys : key = ListKey(q.category, d, scope)
  <2>1. q.category \in BoardCategories
    BY <1>3 DEF DateAsks
  <2>. QED
    BY <2>1 DEF ListKey, ListKeys, BoardScopes
<1>9. PICK ask \in ArchiveAsks : ask = ArchiveAsk(FALSE, q.applied, 0)
  BY <1>3 DEF ArchiveAsk, ArchiveAsks, DateAsks
<1>10. PICK new \in SUBSET ArchiveAsks : new = IF q.free THEN {ask} ELSE {}
  BY <1>9
<1>11. /\ board' = Reselected(b)
       /\ asked' = [dates |-> asked.dates \ {q}, issues |-> asked.issues \cup {key},
                    detail |-> DetailEffect(b, asked.detail), archive |-> asked.archive \cup new]
       /\ strayed' = (strayed \/ (q.free /\ (asked.archive # {} \/ q.applied # board.applied)))
  <2>1. CASE s = << >>
    <3>1. scope = q.scope /\ own = board.scope
      BY <1>1, <1>2, <2>1
    <3>. QED
      BY <1>4, <1>5, <1>6, <1>8, <1>9, <1>10, <2>1, <3>1 DEF Resolved, ListDate
  <2>2. CASE s # << >>
    <3>1. scope = s[1] /\ own = s[1]
      BY <1>1, <1>2, <2>2
    <3>. QED
      BY <1>4, <1>5, <1>6, <1>8, <1>9, <1>10, <2>2, <3>1 DEF Resolved, ListDate
  <2>. QED
    BY <2>1, <2>2
<1>12. Undisturbed(b)
  BY <1>7 DEF Undisturbed
<1>13. /\ DetailEffect(b, asked.detail) \in SUBSET DetailAsks
       /\ board' \in BoardSet
       /\ DetailRight(board', DetailEffect(b, asked.detail))
       /\ \A x \in BoardFields : board'[x] = b[x]
  BY <1>3, <1>7, <1>11, <1>12, EffectRight DEF BoardFields
<1>14. /\ asked' \in AskedSet /\ asked'.dates = asked.dates \ {q} /\ asked'.issues = asked.issues \cup {key}
       /\ asked'.detail = DetailEffect(b, asked.detail) /\ asked'.archive = asked.archive \cup new
  BY <1>3, <1>8, <1>10, <1>11, <1>13 DEF AskedSet
<1>15. /\ board'.category = board.category /\ board'.date = d /\ board'.scope = own
       /\ board'.applied = board.applied /\ board'.archive = board.archive /\ board'.found = board.found
       /\ board'.offset = board.offset /\ board'.loading = load
  BY <1>7, <1>13 DEF BoardFields
<1>16. ListRight(board', asked'.dates, asked'.issues, crossed')
  <2>1. SUFFICES ASSUME ~crossed
                 PROVE  asked'.dates = {} /\ asked'.issues = {ListKey(board'.category, board'.date, board'.scope)}
    BY DEF ListRight
  <2>2. asked.issues = {} /\ asked.dates = {q} /\ q.category = board.category /\ q.scope = board.scope
    BY <1>3, <2>1 DEF ListRight
  <2>3. scope = own
    BY <1>1, <1>2, <2>2
  <2>. QED
    BY <1>8, <1>14, <1>15, <2>2, <2>3
<1>17. q.free => board.archive
  BY <1>3 DEF ArchiveRight
<1>18. ask.append = FALSE /\ ask.offset = 0 /\ ask.filter = q.applied
  BY <1>9 DEF ArchiveAsk
<1>19. strayed' \in BOOLEAN
  BY <1>3, <1>11
<1>20. ArchiveRight(board', asked'.dates, asked'.archive, strayed')
  <2>1. CASE q.free
    <3>1. new = {ask} /\ load = TRUE /\ board.archive
      BY <1>4, <1>10, <1>17, <2>1
    <3>. QED
      BY <1>3, <1>11, <1>14, <1>15, <1>18, <2>1, <3>1 DEF ArchiveRight
  <2>2. CASE ~q.free
    <3>1. new = {} /\ load = board.loading
      BY <1>3, <1>4, <1>10, <2>2 DEF BoardSet
    <3>. QED
      BY <1>3, <1>11, <1>14, <1>15, <2>2, <3>1 DEF ArchiveRight
  <2>. QED
    BY <2>1, <2>2
<1>. QED
  BY <1>13, <1>14, <1>16, <1>19, <1>20 DEF BoardInv, BoardRight

LEMMA DatesAnsweredRight ==
  ASSUME BoardInv, DatesAnswered
  PROVE  BoardInv'
<1>1. PICK q \in asked.dates : \E ds \in BoardDates, s \in {PanelScope, FallbackScope} :
        /\ s = PanelScope => ds # << >>
        /\ LET listed == {ds[i] : i \in DOMAIN ds}
           IN Resolved(q, IF q.prefer \in listed \/ ds = << >> THEN q.prefer ELSE ds[1], <<s>>, listed)
  BY DEF DatesAnswered
<1>2. PICK ds \in BoardDates, s \in {PanelScope, FallbackScope} :
        LET listed == {ds[i] : i \in DOMAIN ds}
        IN Resolved(q, IF q.prefer \in listed \/ ds = << >> THEN q.prefer ELSE ds[1], <<s>>, listed)
  BY <1>1
<1>3. PICK listed : listed = {ds[i] : i \in DOMAIN ds}
  OBVIOUS
<1>4. listed \in SUBSET BoardDays
  BY <1>3 DEF BoardDays
<1>5. q.prefer \in BoardDays
  BY BoardTyped, AskedParts DEF DateAsks
<1>6. ds # << >> => ds[1] \in BoardDays
  <2>1. \A S, t : t \in Seq(S) /\ t # << >> => 1 \in DOMAIN t
    OBVIOUS
  <2>2. ds # << >> => 1 \in DOMAIN ds
    BY <2>1, DashboardAssumption
  <2>. QED
    BY <1>3, <1>4, <2>2
<1>7. PICK d \in BoardDays : d = IF q.prefer \in listed \/ ds = << >> THEN q.prefer ELSE ds[1]
  BY <1>5, <1>6
<1>8. Resolved(q, d, <<s>>, listed)
  BY <1>2, <1>3, <1>7
<1>9. <<s>> \in {<< >>, <<PanelScope>>, <<FallbackScope>>}
  OBVIOUS
<1>10. crossed' = crossed
  BY DEF DatesAnswered
<1>. QED
  BY <1>4, <1>8, <1>9, <1>10, ResolvedRight

LEMMA DatesFailedRight ==
  ASSUME BoardInv, DatesFailed
  PROVE  BoardInv'
<1>1. PICK q \in asked.dates : Resolved(q, q.prefer, << >>, {})
  BY DEF DatesFailed
<1>2. q.prefer \in BoardDays
  BY BoardTyped, AskedParts DEF DateAsks
<1>3. crossed' = crossed
  BY DEF DatesFailed
<1>. QED
  BY <1>1, <1>2, <1>3, ResolvedRight

LEMMA BoardInvStep == BoardInv /\ [BoardNext]_boardVars => BoardInv'
<1>. SUFFICES ASSUME BoardInv, [BoardNext]_boardVars PROVE BoardInv'
  OBVIOUS
<1>1. CASE UNCHANGED boardVars
  BY <1>1 DEF boardVars, BoardInv
<1>2. CASE BoardNext
  BY <1>2, HandleCategoryRight, HandleIssueDateRight, SelectIssueRight, RetryDetailRight, RetryIssuesRight,
     OpenArchiveRight, FilterRight, MoreArticlesRight, RefreshAllRight, DatesAnsweredRight, DatesFailedRight,
     IssuesAnsweredRight, IssuesFailedRight, DetailAnsweredRight, ArchiveAnsweredRight, ArchiveFailedRight
  DEF BoardNext
<1>. QED
  BY <1>1, <1>2

----------------------------------------------------------------------------
(* EvidenceChat *)

\* A set of numbers up to a bound that is not empty has a least one.
LEMMA LeastUpTo ==
  ASSUME NEW k \in Nat, NEW T \in SUBSET (0 .. k), T # {}
  PROVE  \E x \in T : \A y \in T : x <= y
<1> DEFINE G == {k - t : t \in T}
<1>1. \A t \in T : k - t \in 0 .. k
  OBVIOUS
<1>2. G \in SUBSET Nat /\ IsFiniteSet(G) /\ G # {}
  <2>1. G \in SUBSET (0 .. k) /\ G # {}
    BY <1>1
  <2>2. IsFiniteSet(0 .. k)
    BY FS_Interval
  <2>3. IsFiniteSet(G)
    <3>. HIDE DEF G
    <3>. QED
      BY <2>1, <2>2, FS_Subset
  <2>4. G \in SUBSET Nat
    <3>. HIDE DEF G
    <3>. QED
      BY <2>1
  <2>. QED
    BY <2>1, <2>3, <2>4
<1>3. PICK g \in G : \A h \in G : h <= g
  <2>. HIDE DEF G
  <2>. QED
    BY <1>2, GreatestOf
<1>4. PICK x \in T : g = k - x
  BY <1>3
<1>5. \A y \in T : k - y <= g
  BY <1>3
<1>6. \A y \in T : x \in 0 .. k /\ y \in 0 .. k
  OBVIOUS
<1>. QED
  BY <1>4, <1>5, <1>6

\* The words a question and a line share are counted, and there are none if the count is zero.
LEMMA CommonCounted ==
  ASSUME NEW words, IsFiniteSet(words), NEW line
  PROVE  /\ CommonWords(words, line) \in 0 .. Cardinality(words)
         /\ CommonWords(words, line) > 0 <=> words \cap line.words # {}
<1>1. words \cap line.words \in SUBSET words
  OBVIOUS
<1>2. /\ IsFiniteSet(words \cap line.words) /\ Cardinality(words \cap line.words) <= Cardinality(words)
  BY <1>1, FS_Subset
<1>3. Cardinality(words) \in Nat /\ Cardinality(words \cap line.words) \in Nat
  BY <1>2, FS_CardinalityType
<1>4. Cardinality(words \cap line.words) = 0 <=> words \cap line.words = {}
  BY <1>2, FS_EmptySet
<1>. QED
  BY <1>2, <1>3, <1>4 DEF CommonWords

\* The answer is a line that can answer.
LEMMA BestIsAble ==
  ASSUME NEW words, IsFiniteSet(words), NEW lines, NEW k \in Nat, DOMAIN lines = 1 .. k,
         Answering(words, lines) # {}
  PROVE  BestLine(words, lines) \in Answering(words, lines)
<1> DEFINE able == Answering(words, lines)
           shared(n) == CommonWords(words, lines[n])
           counts == {shared(n) : n \in able}
           best == {n \in able : \A j \in able : shared(j) <= shared(n)}
<1>1. able \in SUBSET (0 .. k)
  BY DEF Answering
<1>2. counts \in SUBSET Nat /\ IsFiniteSet(counts) /\ counts # {}
  <2>1. counts \in SUBSET (0 .. Cardinality(words))
    BY CommonCounted
  <2>2. IsFiniteSet(0 .. Cardinality(words)) /\ Cardinality(words) \in Nat
    BY FS_CardinalityType, FS_Interval
  <2>3. counts # {}
    OBVIOUS
  <2>. QED
    BY <2>1, <2>2, <2>3, FS_Subset
<1>3. PICK x \in counts : \A y \in counts : y <= x
  <2>. HIDE DEF counts
  <2>. QED
    BY <1>2, GreatestOf
<1>4. best # {} /\ best \in SUBSET (0 .. k)
  BY <1>1, <1>3
<1>5. \E x1 \in best : \A y \in best : x1 <= y
  <2>. HIDE DEF best
  <2>. QED
    BY <1>4, LeastUpTo
<1>6. Min(best) \in best
  <2>. HIDE DEF best
  <2>. QED
    BY <1>5 DEF Min
<1>7. BestLine(words, lines) = Min(best)
  BY DEF BestLine
<1>. QED
  BY <1>6, <1>7

\* The references cited are references of the parts, and there is one if a part has one.
LEMMA FirstRefsKept ==
  ASSUME NEW parts, NEW k \in Nat, DOMAIN parts = 1 .. k,
         \A n \in 1 .. k : parts[n].refs \in Seq(ToSet(parts[n].refs))
  PROVE  /\ \A r \in FirstRefs(parts) : \E n \in 1 .. k : r \in ToSet(parts[n].refs)
         /\ Met(parts) # {} => FirstRefs(parts) # {}
         /\ (\E n \in 1 .. k : parts[n].refs # << >>) => Met(parts) # {}
<1>1. \A p : p \in Met(parts) <=> /\ p = <<p[1], p[2]>> /\ p[1] \in 1 .. k
                                  /\ p[2] \in DOMAIN parts[p[1]].refs
  BY DEF Met
<1>2. \A n \in 1 .. k : \E len \in Nat : DOMAIN parts[n].refs = 1 .. len
  <2>1. \A S, s : s \in Seq(S) => \E len \in Nat : DOMAIN s = 1 .. len
    OBVIOUS
  <2>. QED
    BY <2>1
<1>3. ASSUME NEW r \in FirstRefs(parts) PROVE \E n \in 1 .. k : r \in ToSet(parts[n].refs)
  <2>1. PICK p \in Met(parts) : r = MetAt(parts, p)
    BY <1>3 DEF FirstRefs
  <2>2. p[1] \in 1 .. k /\ p[2] \in DOMAIN parts[p[1]].refs
    BY <1>1, <2>1
  <2>. QED
    BY <2>1, <2>2 DEF MetAt, ToSet
<1>4. ASSUME Met(parts) # {} PROVE FirstRefs(parts) # {}
  <2> DEFINE bearing == {n \in 1 .. k : DOMAIN parts[n].refs # {}}
  <2>1. bearing # {} /\ bearing \in SUBSET (0 .. k)
    BY <1>1, <1>4
  <2>2. PICK n \in bearing : \A j \in bearing : n <= j
    <3>. HIDE DEF bearing
    <3>. QED
      BY <2>1, LeastUpTo
  <2>3. 1 \in DOMAIN parts[n].refs
    BY <1>2, <2>2
  <2>4. <<n, 1>> \in Met(parts)
    BY <2>3 DEF Met
  <2>5. ASSUME NEW q \in Met(parts), Sooner(q, <<n, 1>>) PROVE FALSE
    <3>1. q[1] \in 1 .. k /\ q[2] \in DOMAIN parts[q[1]].refs
      BY <1>1
    <3>2. q[1] \in bearing
      BY <3>1
    <3>3. q[2] \in Nat \ {0}
      BY <1>2, <3>1
    <3>4. q[1] < n \/ (q[1] = n /\ q[2] < 1)
      BY <2>5 DEF Sooner
    <3>5. n \in 1 .. k /\ n <= q[1]
      BY <2>2, <3>2
    <3>. QED
      BY <3>1, <3>3, <3>4, <3>5
  <2>6. MetBefore(parts, <<n, 1>>) = {}
    BY <2>5 DEF MetBefore
  <2>7. Cardinality(MetBefore(parts, <<n, 1>>)) < EvidenceShown
    <3>1. Cardinality({}) = 0 /\ EvidenceShown \in Nat \ {0}
      BY FS_EmptySet, EvidenceChatAssumption
    <3>2. \A s : s = {} => Cardinality(s) < EvidenceShown
      BY <3>1
    <3>. QED
      BY <2>6, <3>2
  <2>. QED
    BY <2>4, <2>7 DEF FirstRefs
<1>5. ASSUME NEW n \in 1 .. k, parts[n].refs # << >> PROVE Met(parts) # {}
  <2>1. \A S, s : s \in Seq(S) /\ s # << >> => 1 \in DOMAIN s
    OBVIOUS
  <2>2. 1 \in DOMAIN parts[n].refs
    BY <1>5, <2>1
  <2>3. <<n, 1>> \in {n} \X DOMAIN parts[n].refs
    BY <2>2
  <2>4. n \in DOMAIN parts
    OBVIOUS
  <2>. QED
    BY <2>3, <2>4 DEF Met
<1>. QED
  BY <1>3, <1>4, <1>5

\* What is stored of an issue lists its parts, and each part its references.
Shaped(c) ==
  /\ c.variants \in Seq(ToSet(c.variants)) /\ c.stories \in Seq(ToSet(c.stories))
  /\ \A part \in ToSet(c.variants) \cup ToSet(c.stories) : part.refs \in Seq(ToSet(part.refs))

\* A list is as long as it says, and every place of it holds something of it.
LEMMA ListOf ==
  ASSUME NEW s, s \in Seq(ToSet(s))
  PROVE  /\ Len(s) \in Nat /\ DOMAIN s = 1 .. Len(s)
         /\ \A n \in 1 .. Len(s) : s[n] \in ToSet(s)
<1>1. \A S, t : t \in Seq(S) => Len(t) \in Nat /\ DOMAIN t = 1 .. Len(t)
  OBVIOUS
<1>. QED
  BY <1>1 DEF ToSet

\* One list after another, both of elements of a set.
Chained(s, t, u, U) ==
  /\ u \in Seq(U) /\ Len(u) = Len(s) + Len(t)
  /\ \A i \in 1 .. Len(s) : u[i] = s[i]
  /\ \A i \in 1 .. Len(t) : u[Len(s) + i] = t[i]

LEMMA Joining ==
  ASSUME NEW U, NEW s \in Seq(U), NEW t \in Seq(U)
  PROVE  Chained(s, t, s \o t, U)
BY DEF Chained

\* The parts of a comparison are those of its axes and then those of its narratives.
LEMMA PartsRight ==
  ASSUME NEW c, Shaped(c)
  PROVE  /\ PartsOf(c) \in Seq(ToSet(c.variants) \cup ToSet(c.stories))
         /\ ToSet(PartsOf(c)) = ToSet(c.variants) \cup ToSet(c.stories)
<1> DEFINE S == ToSet(c.variants) \cup ToSet(c.stories)
<1>1. \A U, V, s : s \in Seq(U) /\ U \subseteq V => s \in Seq(V)
  OBVIOUS
<1>2. c.variants \in Seq(S) /\ c.stories \in Seq(S)
  BY <1>1 DEF Shaped
<1>3. Chained(c.variants, c.stories, PartsOf(c), S)
  <2>. HIDE DEF S
  <2>. QED
    BY <1>2, Joining DEF PartsOf
<1>4. /\ PartsOf(c) \in Seq(S) /\ Len(PartsOf(c)) = Len(c.variants) + Len(c.stories)
      /\ \A i \in 1 .. Len(c.variants) : PartsOf(c)[i] = c.variants[i]
      /\ \A i \in 1 .. Len(c.stories) : PartsOf(c)[Len(c.variants) + i] = c.stories[i]
  BY <1>3 DEF Chained
<1>5. /\ Len(c.variants) \in Nat /\ DOMAIN c.variants = 1 .. Len(c.variants)
      /\ Len(c.stories) \in Nat /\ DOMAIN c.stories = 1 .. Len(c.stories)
  BY ListOf DEF Shaped
<1>6. DOMAIN PartsOf(c) = 1 .. Len(PartsOf(c)) /\ \A n \in DOMAIN PartsOf(c) : PartsOf(c)[n] \in S
  <2>1. \A U, s : s \in Seq(U) => DOMAIN s = 1 .. Len(s) /\ \A n \in DOMAIN s : s[n] \in U
    OBVIOUS
  <2>. HIDE DEF S
  <2>. QED
    BY <1>4, <2>1
<1>7. ToSet(PartsOf(c)) \subseteq S
  <2>. HIDE DEF S
  <2>. QED
    BY <1>6 DEF ToSet
<1>8. ASSUME NEW p \in ToSet(c.variants) PROVE p \in ToSet(PartsOf(c))
  <2>1. PICK i \in 1 .. Len(c.variants) : p = c.variants[i]
    BY <1>5 DEF ToSet
  <2>2. i \in DOMAIN PartsOf(c) /\ PartsOf(c)[i] = p
    <3>1. i \in 1 .. Len(PartsOf(c))
      <4>1. Len(PartsOf(c)) = Len(c.variants) + Len(c.stories)
        BY <1>4
      <4>2. Len(c.variants) \in Nat /\ Len(c.stories) \in Nat
        BY <1>5
      <4>3. \A a, b, l, j : a \in Nat /\ b \in Nat /\ l = a + b /\ j \in 1 .. a => j \in 1 .. l
        OBVIOUS
      <4>. QED
        BY <4>1, <4>2, <4>3, Zenon
    <3>. HIDE DEF S
    <3>. QED
      BY <1>4, <1>6, <2>1, <3>1
  <2>. QED
    BY <2>2 DEF ToSet
<1>9. ASSUME NEW p \in ToSet(c.stories) PROVE p \in ToSet(PartsOf(c))
  <2>1. PICK i \in 1 .. Len(c.stories) : p = c.stories[i]
    BY <1>5 DEF ToSet
  <2>2. Len(c.variants) + i \in DOMAIN PartsOf(c) /\ PartsOf(c)[Len(c.variants) + i] = p
    <3>1. Len(c.variants) + i \in 1 .. Len(PartsOf(c))
      <4>1. Len(PartsOf(c)) = Len(c.variants) + Len(c.stories)
        BY <1>4
      <4>2. Len(c.variants) \in Nat /\ Len(c.stories) \in Nat
        BY <1>5
      <4>3. \A a, b, l, j : a \in Nat /\ b \in Nat /\ l = a + b /\ j \in 1 .. b => a + j \in 1 .. l
        OBVIOUS
      <4>. QED
        BY <4>1, <4>2, <4>3, Zenon
    <3>. HIDE DEF S
    <3>. QED
      BY <1>4, <1>6, <2>1, <3>1
  <2>. QED
    BY <2>2 DEF ToSet
<1>. QED
  BY <1>4, <1>7, <1>8, <1>9

\* The lines of a comparison: four of its own, and one for each part.
LEMMA LinesRight ==
  ASSUME NEW c, Shaped(c)
  PROVE  /\ Len(PartsOf(c)) \in Nat /\ DOMAIN PartsOf(c) = 1 .. Len(PartsOf(c))
         /\ DOMAIN ChatLines(c) = 1 .. (4 + Len(PartsOf(c)))
         /\ ChatLines(c)[1] = ChatLine(c.common, PartsOf(c))
         /\ ChatLines(c)[2] = ChatLine(c.difference, c.variants)
         /\ ChatLines(c)[3] = ChatLine(c.matters, c.stories)
         /\ ChatLines(c)[4] = ChatLine(c.lens, << >>)
         /\ \A n \in 1 .. Len(PartsOf(c)) :
              ChatLines(c)[4 + n] = ChatLine(PartsOf(c)[n].words, <<PartsOf(c)[n]>>)
<1> DEFINE own == <<ChatLine(c.common, PartsOf(c)), ChatLine(c.difference, c.variants),
                    ChatLine(c.matters, c.stories), ChatLine(c.lens, << >>)>>
           replies == [n \in DOMAIN PartsOf(c) |-> ChatLine(PartsOf(c)[n].words, <<PartsOf(c)[n]>>)]
           S == ToSet(own) \cup ToSet(replies)
<1>1. Len(PartsOf(c)) \in Nat /\ DOMAIN PartsOf(c) = 1 .. Len(PartsOf(c))
  <2>1. \A U, s : s \in Seq(U) => Len(s) \in Nat /\ DOMAIN s = 1 .. Len(s)
    OBVIOUS
  <2>. QED
    BY <2>1, PartsRight
<1>2. replies \in Seq(S) /\ Len(replies) = Len(PartsOf(c))
  <2>1. \A U, k : \A s : k \in Nat /\ DOMAIN s = 1 .. k /\ s = [n \in 1 .. k |-> s[n]] /\ (\A n \in 1 .. k : s[n] \in U)
          => s \in Seq(U) /\ Len(s) = k
    OBVIOUS
  <2>2. DOMAIN replies = 1 .. Len(PartsOf(c)) /\ replies = [n \in 1 .. Len(PartsOf(c)) |-> replies[n]]
    BY <1>1
  <2>3. \A n \in 1 .. Len(PartsOf(c)) : replies[n] \in S
    <3>. HIDE DEF replies, own
    <3>. QED
      BY <2>2 DEF ToSet
  <2>. HIDE DEF replies, S
  <2>. QED
    BY <1>1, <2>1, <2>2, <2>3
<1>3. own \in Seq(S) /\ Len(own) = 4
  <2>1. DOMAIN own = 1 .. 4
    OBVIOUS
  <2>2. own[1] \in ToSet(own) /\ own[2] \in ToSet(own) /\ own[3] \in ToSet(own) /\ own[4] \in ToSet(own)
    <3>. HIDE DEF own
    <3>. QED
      BY <2>1 DEF ToSet
  <2>3. own[1] \in S /\ own[2] \in S /\ own[3] \in S /\ own[4] \in S
    <3>. HIDE DEF own, replies
    <3>. QED
      BY <2>2
  <2>4. \A U, a, b, d, e : a \in U /\ b \in U /\ d \in U /\ e \in U
          => <<a, b, d, e>> \in Seq(U) /\ Len(<<a, b, d, e>>) = 4
    OBVIOUS
  <2>. HIDE DEF S
  <2>. QED
    BY <2>3, <2>4
<1>5. ChatLines(c) = own \o replies
  BY DEF ChatLines
<1>6. /\ ChatLines(c) \in Seq(S) /\ Len(ChatLines(c)) = 4 + Len(PartsOf(c))
      /\ \A i \in 1 .. 4 : ChatLines(c)[i] = own[i]
      /\ \A i \in 1 .. Len(PartsOf(c)) : ChatLines(c)[4 + i] = replies[i]
  <2>1. Chained(own, replies, own \o replies, S)
    <3>. HIDE DEF own, replies, S
    <3>. QED
      BY <1>2, <1>3, Joining
  <2>2. Chained(own, replies, ChatLines(c), S)
    <3>. HIDE DEF own, replies, S
    <3>. QED
      BY <1>5, <2>1
  <2>. HIDE DEF own, replies, S
  <2>. QED
    BY <1>2, <1>3, <2>2 DEF Chained
<1>7. DOMAIN ChatLines(c) = 1 .. (4 + Len(PartsOf(c)))
  <2>1. \A U, s : s \in Seq(U) => DOMAIN s = 1 .. Len(s)
    OBVIOUS
  <2>. HIDE DEF own, replies, S
  <2>. QED
    BY <1>6, <2>1
<1>8. /\ own[1] = ChatLine(c.common, PartsOf(c)) /\ own[2] = ChatLine(c.difference, c.variants)
      /\ own[3] = ChatLine(c.matters, c.stories) /\ own[4] = ChatLine(c.lens, << >>)
  OBVIOUS
<1>9. \A n \in 1 .. Len(PartsOf(c)) : replies[n] = ChatLine(PartsOf(c)[n].words, <<PartsOf(c)[n]>>)
  BY <1>1
<1>. QED
  <2>. HIDE DEF own, replies, S
  <2>. QED
    BY <1>1, <1>6, <1>7, <1>8, <1>9

\* The issue asked about is stored, and what it is answered is of its comparison.
ChatInv == chatIssue \in DOMAIN ChatIssues /\ ChatGrounded

\* What a line that can answer says, and what it cites.
LEMMA LineRight ==
  ASSUME NEW c, Shaped(c), NEW words, IsFiniteSet(words),
         NEW n \in Answering(words, ChatLines(c))
  PROVE  LET said == ChatLines(c)[n].words
             cited == FirstRefs(ChatLines(c)[n].parts)
         IN  /\ cited # {} /\ said \cap words # {}
             /\ \/ \E part \in ToSet(PartsOf(c)) : said = part.words /\ cited \subseteq ToSet(part.refs)
                \/ /\ said \in {c.common, c.difference, c.matters}
                   /\ \A r \in cited : \E part \in ToSet(PartsOf(c)) : r \in ToSet(part.refs)
<1> DEFINE lines == ChatLines(c)
           cited == FirstRefs(lines[n].parts)
           k == Len(PartsOf(c))
           all == ToSet(PartsOf(c))
<1>1. n \in DOMAIN lines /\ Met(lines[n].parts) # {} /\ lines[n].words \cap words # {}
  BY CommonCounted DEF Answering
<1>2. /\ k \in Nat /\ DOMAIN lines = 1 .. (4 + k) /\ DOMAIN PartsOf(c) = 1 .. k
      /\ \A i \in 1 .. k : PartsOf(c)[i] \in all
  BY LinesRight DEF ToSet
<1>3. \A part \in all : part.refs \in Seq(ToSet(part.refs))
  BY PartsRight DEF Shaped
<1>4. ASSUME NEW parts, NEW j \in Nat, DOMAIN parts = 1 .. j, \A i \in 1 .. j : parts[i] \in all,
             lines[n].parts = parts
      PROVE  /\ cited # {}
             /\ \A r \in cited : \E i \in 1 .. j : r \in ToSet(parts[i].refs)
  <2>1. \A i \in 1 .. j : parts[i].refs \in Seq(ToSet(parts[i].refs))
    BY <1>3, <1>4
  <2>. QED
    BY <1>1, <1>4, <2>1, FirstRefsKept
<1>5. ASSUME NEW parts, NEW j \in Nat, DOMAIN parts = 1 .. j, \A i \in 1 .. j : parts[i] \in all,
             lines[n].parts = parts
      PROVE  cited # {} /\ \A r \in cited : \E part \in all : r \in ToSet(part.refs)
  BY <1>4, <1>5
<1>6. CASE n = 1
  <2>1. lines[n] = ChatLine(c.common, PartsOf(c))
    BY <1>6, LinesRight
  <2>2. lines[n].words = c.common /\ lines[n].parts = PartsOf(c)
    BY <2>1 DEF ChatLine
  <2>. HIDE DEF all, lines, cited, k
  <2>3. cited # {} /\ \A r \in cited : \E part \in all : r \in ToSet(part.refs)
    BY <1>2, <1>5, <2>2
  <2>. QED
    BY <1>1, <2>2, <2>3 DEF all, lines, cited
<1>7. CASE n = 2
  <2>1. lines[n] = ChatLine(c.difference, c.variants)
    BY <1>7, LinesRight
  <2>2. lines[n].words = c.difference /\ lines[n].parts = c.variants
    BY <2>1 DEF ChatLine
  <2>3. Len(c.variants) \in Nat /\ DOMAIN c.variants = 1 .. Len(c.variants)
        /\ \A i \in 1 .. Len(c.variants) : c.variants[i] \in all
    BY ListOf, PartsRight DEF Shaped
  <2>. HIDE DEF all, lines, cited, k
  <2>4. cited # {} /\ \A r \in cited : \E part \in all : r \in ToSet(part.refs)
    BY <1>5, <2>2, <2>3
  <2>. QED
    BY <1>1, <2>2, <2>4 DEF all, lines, cited
<1>8. CASE n = 3
  <2>1. lines[n] = ChatLine(c.matters, c.stories)
    BY <1>8, LinesRight
  <2>2. lines[n].words = c.matters /\ lines[n].parts = c.stories
    BY <2>1 DEF ChatLine
  <2>3. Len(c.stories) \in Nat /\ DOMAIN c.stories = 1 .. Len(c.stories)
        /\ \A i \in 1 .. Len(c.stories) : c.stories[i] \in all
    BY ListOf, PartsRight DEF Shaped
  <2>. HIDE DEF all, lines, cited, k
  <2>4. cited # {} /\ \A r \in cited : \E part \in all : r \in ToSet(part.refs)
    BY <1>5, <2>2, <2>3
  <2>. QED
    BY <1>1, <2>2, <2>4 DEF all, lines, cited
<1>9. CASE n = 4
  <2>1. lines[n] = ChatLine(c.lens, << >>)
    BY <1>9, LinesRight
  <2>2. Met(<< >>) = {}
    BY DEF Met
  <2>. QED
    BY <1>1, <2>1, <2>2 DEF ChatLine
<1>10. CASE n \in 5 .. (4 + k)
  <2> DEFINE i == n - 4
             part == PartsOf(c)[i]
  <2>1. i \in 1 .. k /\ n = 4 + i
    <3>. HIDE DEF k
    <3>. QED
      BY <1>2, <1>10
  <2>2. lines[n] = ChatLine(part.words, <<part>>)
    <3>. HIDE DEF i
    <3>. QED
      BY <2>1, LinesRight
  <2>3. lines[n].words = part.words /\ lines[n].parts = <<part>> /\ part \in all
    <3>1. part \in all
      BY <1>2, <2>1
    <3>. QED
      BY <2>2, <3>1 DEF ChatLine
  <2>4. \A x : DOMAIN <<x>> = 1 .. 1 /\ <<x>>[1] = x
    OBVIOUS
  <2>. HIDE DEF all, lines, cited, k, i, part
  <2>5. cited # {} /\ \A r \in cited : \E m \in 1 .. 1 : r \in ToSet(<<part>>[m].refs)
    <3>1. DOMAIN <<part>> = 1 .. 1 /\ \A m \in 1 .. 1 : <<part>>[m] \in all
      BY <2>3, <2>4
    <3>. QED
      BY <1>4, <2>3, <3>1
  <2>6. cited \subseteq ToSet(part.refs)
    <3>1. \A m \in 1 .. 1 : <<part>>[m] = part
      BY <2>4
    <3>. QED
      BY <2>5, <3>1
  <2>. QED
    BY <1>1, <2>3, <2>5, <2>6 DEF all, lines, cited
<1>. QED
  <2>1. n \in 1 .. (4 + k)
    BY <1>1, <1>2
  <2>2. n = 1 \/ n = 2 \/ n = 3 \/ n = 4 \/ n \in 5 .. (4 + k)
    <3>. HIDE DEF k
    <3>. QED
      BY <1>2, <2>1
  <2>. QED
    BY <1>6, <1>7, <1>8, <1>9, <1>10, <2>2

\* A part that bears references and shares a word with the question is a line that can answer.
LEMMA PartAnswers ==
  ASSUME NEW c, Shaped(c), NEW words, IsFiniteSet(words),
         NEW part \in ToSet(PartsOf(c)), part.refs # << >>, part.words \cap words # {}
  PROVE  Answering(words, ChatLines(c)) # {}
<1>1. PICK i \in DOMAIN PartsOf(c) : part = PartsOf(c)[i]
  BY DEF ToSet
<1>2. /\ Len(PartsOf(c)) \in Nat /\ i \in 1 .. Len(PartsOf(c))
      /\ DOMAIN ChatLines(c) = 1 .. (4 + Len(PartsOf(c)))
      /\ ChatLines(c)[4 + i] = ChatLine(part.words, <<part>>)
  BY <1>1, LinesRight
<1>3. 4 + i \in DOMAIN ChatLines(c)
  BY <1>2
<1>4. ChatLines(c)[4 + i].words = part.words /\ ChatLines(c)[4 + i].parts = <<part>>
  BY <1>2 DEF ChatLine
<1>5. Met(<<part>>) # {}
  <2>1. \A x : DOMAIN <<x>> = 1 .. 1 /\ <<x>>[1] = x
    OBVIOUS
  <2>2. part.refs \in Seq(ToSet(part.refs))
    BY PartsRight DEF Shaped
  <2>3. \A m \in 1 .. 1 : <<part>>[m] = part
    BY <2>1
  <2>4. /\ DOMAIN <<part>> = 1 .. 1 /\ 1 \in Nat /\ 1 \in 1 .. 1
        /\ \A m \in 1 .. 1 : <<part>>[m].refs \in Seq(ToSet(<<part>>[m].refs))
        /\ <<part>>[1].refs # << >>
    BY <2>1, <2>2, <2>3
  <2>. QED
    BY <2>4, FirstRefsKept
<1>6. CommonWords(words, ChatLines(c)[4 + i]) > 0
  BY <1>4, CommonCounted
<1>. QED
  BY <1>3, <1>4, <1>5, <1>6 DEF Answering

LEMMA ChatInvInit == ChatInit => ChatInv
BY DEF ChatInit, ChatInv, ChatGrounded, Unasked

LEMMA ChatInvStep == ChatInv /\ [AskChat]_chatVars => ChatInv'
<1>1. SUFFICES ASSUME ChatInv, AskChat PROVE ChatInv'
  BY DEF ChatInv, ChatGrounded, chatVars
<1> DEFINE c == ChatIssues[chatIssue]
<1>2. chatIssue' = chatIssue /\ chatIssue \in DOMAIN ChatIssues
  BY <1>1 DEF ChatInv, AskChat
<1>3. PICK words \in ChatQuestions :
        /\ chatQuestion' = words
        /\ chatReply' = IF c \in {NoComparison, Unreadable}
                        THEN [Unasked EXCEPT !.status = "withheld"] ELSE AnswerOf(words, c)
  BY <1>1 DEF AskChat
<1>4. IsFiniteSet(words)
  BY EvidenceChatAssumption
<1>5. CASE c \in {NoComparison, Unreadable}
  <2>1. chatReply'.status = "withheld"
    BY <1>3, <1>5 DEF Unasked
  <2>. QED
    BY <1>2, <1>5, <2>1 DEF ChatInv, ChatGrounded
<1>6. CASE c \notin {NoComparison, Unreadable}
  <2>1. Shaped(c)
    BY <1>2, <1>6, EvidenceChatAssumption DEF Stored, Shaped
  <2>2. CASE Answering(words, ChatLines(c)) = {}
    <3>1. chatReply' = [Unasked EXCEPT !.status = "withheld"]
      BY <1>3, <1>6, <2>2 DEF AnswerOf
    <3>2. chatReply'.status = "withheld"
      BY <3>1 DEF Unasked
    <3>3. \A part \in ToSet(PartsOf(c)) : part.refs # << >> => part.words \cap words = {}
      <4>. HIDE DEF c
      <4>. QED
        BY <1>4, <2>1, <2>2, PartAnswers
    <3>. QED
      BY <1>2, <1>3, <3>2, <3>3 DEF ChatInv, ChatGrounded
  <2>3. CASE Answering(words, ChatLines(c)) # {}
    <3> DEFINE n == BestLine(words, ChatLines(c))
    <3>1. chatReply' = [status |-> "answered", line |-> n, refs |-> FirstRefs(ChatLines(c)[n].parts)]
      BY <1>3, <1>6, <2>3 DEF AnswerOf
    <3>2. n \in Answering(words, ChatLines(c))
      <4>1. DOMAIN ChatLines(c) = 1 .. (4 + Len(PartsOf(c))) /\ 4 + Len(PartsOf(c)) \in Nat
        <5>1. DOMAIN ChatLines(c) = 1 .. (4 + Len(PartsOf(c))) /\ Len(PartsOf(c)) \in Nat
          <6>. HIDE DEF c
          <6>. QED
            BY <2>1, LinesRight
        <5>. QED
          BY <5>1
      <4>. HIDE DEF c
      <4>. QED
        BY <1>4, <2>3, <4>1, BestIsAble
    <3>3. LET said == ChatLines(c)[n].words
              cited == FirstRefs(ChatLines(c)[n].parts)
          IN  /\ cited # {} /\ said \cap words # {}
              /\ \/ \E part \in ToSet(PartsOf(c)) : said = part.words /\ cited \subseteq ToSet(part.refs)
                 \/ /\ said \in {c.common, c.difference, c.matters}
                    /\ \A r \in cited : \E part \in ToSet(PartsOf(c)) : r \in ToSet(part.refs)
      <4>. HIDE DEF c, n
      <4>. QED
        BY <1>4, <2>1, <3>2, LineRight
    <3>4. /\ chatReply'.status = "answered" /\ chatReply'.line = n
          /\ chatReply'.refs = FirstRefs(ChatLines(c)[n].parts)
      BY <3>1
    <3>. HIDE DEF n
    <3>. QED
      BY <1>2, <1>3, <3>3, <3>4 DEF ChatInv, ChatGrounded
  <2>. QED
    BY <2>2, <2>3
<1>. QED
  BY <1>5, <1>6

----------------------------------------------------------------------------
(* InitialFive: the manifest and the bundles *)

\* Files as the coders leave them: each of an article of the issue of its rank, one for each article
FilesOf(fs) ==
  /\ fs \subseteq ProfileFile
  /\ \A f \in fs : \E i \in DOMAIN topFile : f.rank = topFile[i].rank /\ f.article \in topFile[i].articles
  /\ \A f, g \in fs : f.rank = g.rank /\ f.article = g.article => f = g

\* What the reader had read when it built the manifest
EarlyFile == [r \in Preloaded(topFile) |-> cached[r]]

FiveInv ==
  /\ topFile \in TopFiles /\ clusterOf \in ClusterKinds /\ writes \in 0 .. FileWrites
  /\ FilesOf(files)
  /\ DOMAIN cached \subseteq FiveRanks
  /\ \A r \in DOMAIN cached : FilesOf(cached[r]) /\ \A f \in cached[r] : f.rank = r
  /\ manifest # {} => Preloaded(topFile) \subseteq DOMAIN cached
  /\ \A m \in manifest : \E i \in Lowest(topFile, TopCount) : m = ManifestRow(EarlyFile, topFile[i])
  /\ manifest = {} => opened = {}
  /\ \A b \in opened : \E i \in DOMAIN topFile :
       topFile[i].rank \in DOMAIN cached /\ b = Bundled(topFile[i], cached[topFile[i].rank])

\* The issues of a file
LEMMA TopShape ==
  ASSUME NEW t \in TopFiles
  PROVE  /\ DOMAIN t = 1 .. Len(t) /\ Len(t) \in Nat /\ TopCount \in Nat /\ TopCount >= 1 /\ Len(t) >= TopCount
         /\ \A i \in DOMAIN t : t[i].rank \in FiveRanks /\ IsFiniteSet(t[i].articles) /\ t[i].articles \subseteq Nat
                                 /\ ArticleCount(t[i]) \in Nat
         /\ \A i, j \in DOMAIN t : t[i].rank = t[j].rank => i = j
         /\ Preloaded(t) \subseteq FiveRanks
<1>1. t \in Seq([rank : FiveRanks, articles : SUBSET Nat, declared : SUBSET Nat])
  BY InitialFiveAssumption
<1>2. DOMAIN t = 1 .. Len(t) /\ Len(t) \in Nat /\ TopCount \in Nat /\ TopCount >= 1 /\ Len(t) >= TopCount
  BY <1>1, InitialFiveAssumption
<1>3. \A i \in DOMAIN t : t[i] \in [rank : FiveRanks, articles : SUBSET Nat, declared : SUBSET Nat]
  <2> DEFINE R == [rank : FiveRanks, articles : SUBSET Nat, declared : SUBSET Nat]
  <2>1. t \in Seq(R)
    BY <1>1
  <2> HIDE DEF R
  <2>2. \A i \in DOMAIN t : t[i] \in R
    BY <2>1
  <2>. QED
    BY <2>2 DEF R
<1>4. \A i \in DOMAIN t : t[i].rank \in FiveRanks /\ t[i].articles \subseteq Nat /\ t[i].declared \subseteq Nat
  BY <1>3
<1>6. \A i \in DOMAIN t : ArticleCount(t[i]) \in Nat
  <2>1. SUFFICES ASSUME NEW i \in DOMAIN t PROVE ArticleCount(t[i]) \in Nat
    OBVIOUS
  <2>2. Cardinality(t[i].articles) \in Nat
    BY InitialFiveAssumption, FS_CardinalityType
  <2>3. t[i].declared # {} => (CHOOSE n \in t[i].declared : TRUE) \in Nat
    BY <1>4
  <2>. QED
    BY <2>2, <2>3 DEF ArticleCount
<1>5. Preloaded(t) \subseteq FiveRanks
  BY <1>2, <1>4 DEF Preloaded
<1>. QED
  BY <1>2, <1>4, <1>5, <1>6, InitialFiveAssumption

\* Where the file is in the order of its ranks, the first issues are those of the lowest ranks.
LEMMA LowestFirst ==
  ASSUME NEW t \in TopFiles, Ordered(t), NEW i \in Lowest(t, TopCount)
  PROVE  i \in 1 .. TopCount /\ t[i].rank = i
<1>1. /\ DOMAIN t = 1 .. Len(t) /\ Len(t) \in Nat /\ TopCount \in Nat /\ i \in DOMAIN t /\ t[i].rank = i
      /\ Cardinality({j \in DOMAIN t : t[j].rank < t[i].rank}) < TopCount
  BY TopShape DEF Lowest, Ordered
<1>2. {j \in DOMAIN t : t[j].rank < t[i].rank} = 1 .. (i - 1)
  BY <1>1 DEF Ordered
<1>3. i \in Nat /\ i >= 1
  BY <1>1
<1>4. Cardinality(1 .. (i - 1)) = i - 1
  BY <1>3, FS_Interval
<1>5. i - 1 < TopCount
  BY <1>1, <1>2, <1>4
<1>. QED
  BY <1>1, <1>3, <1>5

\* The files of a directory are counted by the articles of its issue.
LEMMA SuccessesCounted ==
  ASSUME topFile \in TopFiles, NEW i \in DOMAIN topFile, NEW ps, FilesOf(ps),
         \A f \in ps : f.rank = topFile[i].rank
  PROVE  LET done == {a \in topFile[i].articles : EntryStatus(ps, a) = "succeeded"}
         IN  /\ Successes(ps) = Cardinality(done) /\ Cardinality(done) \in Nat
             /\ Cardinality(done) = Cardinality(topFile[i].articles) => done = topFile[i].articles
<1> DEFINE done == {a \in topFile[i].articles : EntryStatus(ps, a) = "succeeded"}
           good == {p \in ps : ProfileSuccess(p)}
           of == [p \in good |-> p.article]
<1>1. IsFiniteSet(topFile[i].articles)
  BY TopShape
<1>2. IsFiniteSet(done) /\ (Cardinality(done) = Cardinality(topFile[i].articles) => done = topFile[i].articles)
  <2>1. done \in SUBSET topFile[i].articles
    OBVIOUS
  <2> HIDE DEF done
  <2>. QED
    BY <1>1, <2>1, FS_Subset
<1>3. \A p \in good : p.article \in done
  <2>1. SUFFICES ASSUME NEW p \in good PROVE p.article \in done
    OBVIOUS
  <2>2. PICK j \in DOMAIN topFile : p.rank = topFile[j].rank /\ p.article \in topFile[j].articles
    BY DEF FilesOf
  <2>3. j = i
    BY <2>2, TopShape
  <2>. QED
    BY <2>2, <2>3 DEF EntryStatus
<1>4. of \in Bijection(good, done)
  <2>1. of \in [good -> done]
    BY <1>3
  <2>2. \A p, q \in good : of[p] = of[q] => p = q
    BY DEF FilesOf
  <2>3. \A a \in done : \E p \in good : of[p] = a
    BY DEF EntryStatus
  <2>. QED
    BY <2>1, <2>2, <2>3 DEF Bijection, Injection, Surjection, IsInjective
<1>5. IsFiniteSet(good) /\ Cardinality(good) = Cardinality(done)
  <2> HIDE DEF of, good, done
  <2>1. of \in Injection(good, done) /\ of \in Surjection(good, done)
    BY <1>4 DEF Bijection
  <2>. QED
    BY <2>1, <1>2, FS_Injection
<1>6. Cardinality(done) \in Nat
  BY <1>2, FS_CardinalityType
<1>. QED
  BY <1>2, <1>5, <1>6 DEF Successes

\* The bundles agree with the manifest and with their entries.
LEMMA ManifestHolds == FiveInv => ManifestKept
<1>1. SUFFICES ASSUME FiveInv PROVE ManifestKept
  OBVIOUS
<1>2. topFile \in TopFiles
  BY <1>1 DEF FiveInv
<1>3. ASSUME Ordered(topFile), NEW m \in manifest
      PROVE  /\ m.rank \in 1 .. TopCount /\ m.rank \in DOMAIN topFile
             /\ m.count = ArticleCount(topFile[m.rank])
             /\ m.summary = Summary(cached[m.rank], clusterOf[m.rank], ArticleCount(topFile[m.rank]))
  <2>1. PICK i \in Lowest(topFile, TopCount) : m = ManifestRow(EarlyFile, topFile[i])
    BY <1>1, <1>3 DEF FiveInv
  <2>2. i \in 1 .. TopCount /\ topFile[i].rank = i /\ i \in DOMAIN topFile
    BY <1>2, <1>3, LowestFirst DEF Lowest
  <2>3. i \in Preloaded(topFile)
    BY <2>2 DEF Preloaded
  <2>4. Held(EarlyFile, i) = cached[i]
    BY <2>3 DEF Held, EarlyFile
  <2>. QED
    BY <2>1, <2>2, <2>4 DEF ManifestRow
<1>4. ASSUME Ordered(topFile), NEW b \in opened, NEW m \in manifest, m.rank = b.rank
      PROVE  /\ m.count = b.count /\ m.summary.succeeded = b.summary.succeeded
             /\ b.count = Cardinality(b.articles) => m.summary = b.summary
  <2>1. PICK i \in DOMAIN topFile : topFile[i].rank \in DOMAIN cached /\ b = Bundled(topFile[i], cached[topFile[i].rank])
    BY <1>1, <1>4 DEF FiveInv
  <2>2. topFile[i].rank = i
    BY <1>4 DEF Ordered
  <2>3. b.rank = i /\ b.articles = topFile[i].articles /\ b.count = ArticleCount(topFile[i])
        /\ b.summary = Summary(cached[i], clusterOf[i], Cardinality(topFile[i].articles))
    BY <2>1, <2>2 DEF Bundled
  <2>4. m.count = ArticleCount(topFile[i]) /\ m.summary = Summary(cached[i], clusterOf[i], ArticleCount(topFile[i]))
    BY <2>3, <1>3, <1>4
  <2>5. m.summary.succeeded = Successes(cached[i]) /\ b.summary.succeeded = Successes(cached[i])
    BY <2>3, <2>4 DEF Summary
  <2>. QED
    BY <2>3, <2>4, <2>5
<1>5. ASSUME NEW b \in opened
      PROVE  /\ b.summary.status = "succeeded" => \A a \in b.articles : b.entries[a] = "succeeded"
             /\ b.summary.succeeded = Cardinality({a \in b.articles : b.entries[a] = "succeeded"})
  <2>1. PICK i \in DOMAIN topFile : topFile[i].rank \in DOMAIN cached /\ b = Bundled(topFile[i], cached[topFile[i].rank])
    BY <1>1, <1>5 DEF FiveInv
  <2> DEFINE ps == cached[topFile[i].rank]
             done == {a \in topFile[i].articles : EntryStatus(ps, a) = "succeeded"}
  <2>2. /\ Successes(ps) = Cardinality(done)
        /\ Cardinality(done) = Cardinality(topFile[i].articles) => done = topFile[i].articles
    <3>1. FilesOf(ps) /\ \A f \in ps : f.rank = topFile[i].rank
      BY <1>1, <2>1 DEF FiveInv
    <3> HIDE DEF ps
    <3>. QED
      BY <3>1, <1>2, SuccessesCounted
  <2>3. /\ b.articles = topFile[i].articles
        /\ \A a \in b.articles : b.entries[a] = EntryStatus(ps, a)
        /\ b.summary = Summary(ps, clusterOf[topFile[i].rank], Cardinality(topFile[i].articles))
    BY <2>1 DEF Bundled
  <2>4. {a \in b.articles : b.entries[a] = "succeeded"} = done
    BY <2>3
  <2>5. b.summary.succeeded = Successes(ps)
    BY <2>3 DEF Summary
  <2>6. b.summary.status = "succeeded" => Successes(ps) = Cardinality(topFile[i].articles)
    BY <2>3 DEF Summary
  <2>. QED
    BY <2>2, <2>3, <2>4, <2>5, <2>6
<1>6. Ordered(topFile) => \A m \in manifest : m.rank <= TopCount
  <2>1. TopCount \in Nat
    BY InitialFiveAssumption
  <2>. QED
    BY <2>1, <1>3
<1>7. \A b \in opened : \A m \in manifest :
        m.rank = b.rank /\ Ordered(topFile) =>
          /\ m.count = b.count /\ m.summary.succeeded = b.summary.succeeded
          /\ b.count = Cardinality(b.articles) => m.summary = b.summary
  BY <1>4
<1>8. \A b \in opened :
        /\ b.summary.status = "succeeded" => \A a \in b.articles : b.entries[a] = "succeeded"
        /\ b.summary.succeeded = Cardinality({a \in b.articles : b.entries[a] = "succeeded"})
  BY <1>5
<1>. QED
  BY <1>6, <1>7, <1>8, Zenon DEF ManifestKept

LEMMA FiveInvInit == FiveInit => FiveInv
<1>1. SUFFICES ASSUME FiveInit PROVE FiveInv
  OBVIOUS
<1>2. topFile \in TopFiles /\ clusterOf \in ClusterKinds /\ writes \in 0 .. FileWrites
  BY <1>1, InitialFiveAssumption DEF FiveInit
<1>3. FilesOf(files) /\ DOMAIN cached = {} /\ manifest = {} /\ opened = {}
  BY <1>1 DEF FiveInit, FilesOf
<1>. QED
  BY <1>2, <1>3 DEF FiveInv

\* A directory keeps what holds of its files.
LEMMA DirectoryOwned ==
  ASSUME FilesOf(files), NEW r
  PROVE  FilesOf(Directory(r)) /\ \A f \in Directory(r) : f.rank = r
BY DEF FilesOf, Directory

LEMMA OpenReaderRight ==
  ASSUME FiveInv, OpenReader
  PROVE  FiveInv'
<1>1. /\ topFile' = topFile /\ clusterOf' = clusterOf /\ writes' = writes /\ files' = files /\ opened' = {}
      /\ cached' = [r \in Preloaded(topFile) |-> Directory(r)]
  BY DEF OpenReader, FiveInv
<1>2. topFile \in TopFiles /\ FilesOf(files)
  BY DEF FiveInv
<1>3. EarlyFile' = [r \in Preloaded(topFile) |-> Directory(r)]
  BY <1>1 DEF EarlyFile, Preloaded
<1>4. \A m \in manifest' : \E i \in Lowest(topFile, TopCount) : m = ManifestRow(EarlyFile, topFile[i])'
  BY <1>1, <1>3 DEF OpenReader, ManifestRow, Held, Summary, Successes, ProfileSuccess
<1>5. FilesOf(files)' /\ \A r \in DOMAIN cached' : FilesOf(cached[r])' /\ \A f \in cached'[r] : f.rank = r
  <2>1. FilesOf(files)'
    BY <1>1, <1>2 DEF FilesOf
  <2>2. ASSUME NEW r \in DOMAIN cached' PROVE FilesOf(cached[r])' /\ \A f \in cached'[r] : f.rank = r
    <3>1. cached'[r] = Directory(r)
      BY <1>1
    <3>. QED
      BY <3>1, <1>1, <1>2, DirectoryOwned DEF FilesOf
  <2>. QED
    BY <2>1, <2>2
<1>6. DOMAIN cached' = Preloaded(topFile) /\ Preloaded(topFile) \subseteq FiveRanks /\ Preloaded(topFile)' = Preloaded(topFile)
  BY <1>1, <1>2, TopShape DEF Preloaded
<1>7. Lowest(topFile, TopCount)' = Lowest(topFile, TopCount)
  BY <1>1 DEF Lowest
<1>. QED
  BY <1>1, <1>4, <1>5, <1>6, <1>7 DEF FiveInv

\* The manifest and a bundle depend on the issue file, the clusters and the directories they were made from.
LEMMA FiveFrame ==
  ASSUME topFile' = topFile, clusterOf' = clusterOf
  PROVE  /\ Lowest(topFile, TopCount)' = Lowest(topFile, TopCount) /\ Preloaded(topFile)' = Preloaded(topFile)
         /\ EarlyFile' = EarlyFile => \A j : ManifestRow(EarlyFile, topFile[j])' = ManifestRow(EarlyFile, topFile[j])
         /\ \A j : Bundled(topFile[j], cached[topFile[j].rank])' = Bundled(topFile[j], cached'[topFile[j].rank])
<1>1. Lowest(topFile, TopCount)' = Lowest(topFile, TopCount) /\ Preloaded(topFile)' = Preloaded(topFile)
  BY DEF Lowest, Preloaded
<1>2. ASSUME EarlyFile' = EarlyFile, NEW j PROVE ManifestRow(EarlyFile, topFile[j])' = ManifestRow(EarlyFile, topFile[j])
  <2>1. Held(EarlyFile, topFile[j].rank)' = Held(EarlyFile, topFile[j].rank)
    BY <1>2 DEF Held
  <2> DEFINE n == ArticleCount(topFile[j])
             ps == Held(EarlyFile, topFile[j].rank)
  <2>3. ArticleCount(topFile[j])' = ArticleCount(topFile[j])
    BY DEF ArticleCount
  <2>2. Summary(ps, clusterOf[topFile[j].rank], n)' = Summary(ps, clusterOf[topFile[j].rank], n)
    BY <2>1, <2>3 DEF Summary, Successes, ProfileSuccess
  <2> HIDE DEF n
  <2>. QED
    BY <2>2, <2>3 DEF ManifestRow, n
<1>3. ASSUME NEW j PROVE Bundled(topFile[j], cached[topFile[j].rank])' = Bundled(topFile[j], cached'[topFile[j].rank])
  BY DEF Bundled, EntryStatus, Summary, Successes, ProfileSuccess, ArticleCount
<1>. QED
  BY <1>1, <1>2, <1>3

LEMMA GetIssueRight ==
  ASSUME FiveInv, NEW i \in DOMAIN topFile, GetIssue(i)
  PROVE  FiveInv'
<1> DEFINE r0 == topFile[i].rank
<1>1. /\ topFile' = topFile /\ clusterOf' = clusterOf /\ writes' = writes /\ files' = files /\ manifest' = manifest
      /\ manifest # {} /\ cached' = [r \in DOMAIN cached \cup {r0} |-> Profiles(r)]
      /\ opened' = opened \cup {Bundled(topFile[i], Profiles(r0))}
  BY DEF GetIssue
<1>2. /\ topFile \in TopFiles /\ FilesOf(files) /\ DOMAIN cached \subseteq FiveRanks
      /\ \A r \in DOMAIN cached : FilesOf(cached[r]) /\ \A f \in cached[r] : f.rank = r
      /\ Preloaded(topFile) \subseteq DOMAIN cached
  BY <1>1 DEF FiveInv
<1>3. /\ DOMAIN cached' = DOMAIN cached \cup {r0}
      /\ \A r \in DOMAIN cached : cached'[r] = cached[r]
      /\ cached'[r0] = Profiles(r0)
  BY <1>1 DEF Profiles
<1>4. EarlyFile' = EarlyFile
  BY <1>1, <1>2, <1>3 DEF EarlyFile, Preloaded
<1>5. \A m \in manifest' : \E j \in Lowest(topFile, TopCount)' : m = ManifestRow(EarlyFile, topFile[j])'
  BY <1>1, <1>4, FiveFrame DEF FiveInv
<1>6. FilesOf(files)'
  BY <1>1, <1>2 DEF FilesOf
<1>7. \A r \in DOMAIN cached' : FilesOf(cached[r])' /\ \A f \in cached'[r] : f.rank = r
  <2>1. SUFFICES ASSUME NEW r \in DOMAIN cached' PROVE FilesOf(cached[r])' /\ \A f \in cached'[r] : f.rank = r
    OBVIOUS
  <2>2. cached'[r] = Profiles(r)
    BY <1>1, <1>3
  <2>3. FilesOf(Profiles(r)) /\ \A f \in Profiles(r) : f.rank = r
    BY <1>2, DirectoryOwned DEF Profiles
  <2>. QED
    BY <1>1, <2>2, <2>3 DEF FilesOf
<1>8. \A b \in opened' : \E j \in DOMAIN topFile : topFile[j].rank \in DOMAIN cached' /\ b = Bundled(topFile[j], cached[topFile[j].rank])'
  <2>1. SUFFICES ASSUME NEW b \in opened'
                 PROVE  \E j \in DOMAIN topFile : topFile[j].rank \in DOMAIN cached' /\ b = Bundled(topFile[j], cached'[topFile[j].rank])
    BY <1>1, FiveFrame
  <2>2. CASE b \in opened
    <3>1. PICK j \in DOMAIN topFile : topFile[j].rank \in DOMAIN cached /\ b = Bundled(topFile[j], cached[topFile[j].rank])
      BY <2>2 DEF FiveInv
    <3>. QED
      BY <3>1, <1>3
  <2>3. CASE b = Bundled(topFile[i], Profiles(r0))
    BY <2>3, <1>3
  <2>. QED
    BY <1>1, <2>1, <2>2, <2>3
<1>9. DOMAIN cached' \subseteq FiveRanks /\ Preloaded(topFile)' \subseteq DOMAIN cached'
  BY <1>1, <1>2, <1>3, TopShape DEF Preloaded
<1>. QED
  BY <1>1, <1>5, <1>6, <1>7, <1>8, <1>9 DEF FiveInv

LEMMA WriteProfileRight ==
  ASSUME FiveInv, NEW i \in DOMAIN topFile, NEW a \in topFile[i].articles, WriteProfile(topFile[i].rank, a)
  PROVE  FiveInv'
<1> DEFINE r == topFile[i].rank
<1>1. /\ topFile' = topFile /\ clusterOf' = clusterOf /\ cached' = cached /\ manifest' = manifest /\ opened' = opened
      /\ writes' = writes + 1 /\ writes < FileWrites
  BY DEF WriteProfile
<1>2. PICK k \in ProfileKinds :
        files' = {f \in files : f.rank # r \/ f.article # a} \cup {[rank |-> r, article |-> a, kind |-> k]}
  BY DEF WriteProfile
<1>3. topFile \in TopFiles /\ FilesOf(files) /\ writes \in 0 .. FileWrites
  BY DEF FiveInv
<1>4. writes' \in 0 .. FileWrites
  BY <1>1, <1>3, InitialFiveAssumption
<1>5. FilesOf(files)'
  <2> DEFINE new == [rank |-> r, article |-> a, kind |-> k]
  <2>1. new \in ProfileFile /\ new.rank = r /\ new.article = a
    BY <1>3, TopShape DEF ProfileFile
  <2>2. \A f \in files' : f = new \/ (f \in files /\ (f.rank # r \/ f.article # a))
    BY <1>2
  <2> HIDE DEF new
  <2>3. files' \subseteq ProfileFile
    BY <1>3, <2>1, <2>2 DEF FilesOf
  <2>4. \A f \in files' : \E j \in DOMAIN topFile : f.rank = topFile[j].rank /\ f.article \in topFile[j].articles
    BY <1>3, <2>1, <2>2 DEF FilesOf
  <2>5. \A f, g \in files' : f.rank = g.rank /\ f.article = g.article => f = g
    BY <1>3, <2>1, <2>2 DEF FilesOf
  <2>. QED
    BY <1>1, <2>3, <2>4, <2>5 DEF FilesOf
<1>6. /\ \A m \in manifest' : \E j \in Lowest(topFile, TopCount)' : m = ManifestRow(EarlyFile, topFile[j])'
      /\ manifest' # {} => Preloaded(topFile)' \subseteq DOMAIN cached'
  <2>1. EarlyFile' = EarlyFile
    BY <1>1 DEF EarlyFile, Preloaded
  <2>. QED
    BY <1>1, <2>1, FiveFrame DEF FiveInv
<1>7. \A b \in opened' : \E j \in DOMAIN topFile : topFile[j].rank \in DOMAIN cached' /\ b = Bundled(topFile[j], cached[topFile[j].rank])'
  BY <1>1, FiveFrame DEF FiveInv
<1>8. \A x \in DOMAIN cached' : FilesOf(cached[x])' /\ \A f \in cached'[x] : f.rank = x
  BY <1>1 DEF FiveInv, FilesOf
<1>. QED
  BY <1>1, <1>3, <1>4, <1>5, <1>6, <1>7, <1>8 DEF FiveInv

LEMMA FiveInvStep == FiveInv /\ [FiveNext]_fiveVars => FiveInv'
<1>1. SUFFICES ASSUME FiveInv, [FiveNext]_fiveVars PROVE FiveInv'
  OBVIOUS
<1>2. CASE UNCHANGED fiveVars
  <2>1. /\ topFile' = topFile /\ clusterOf' = clusterOf /\ cached' = cached /\ manifest' = manifest /\ opened' = opened
        /\ writes' = writes /\ files' = files
    BY <1>2 DEF fiveVars
  <2>2. /\ \A m \in manifest' : \E j \in Lowest(topFile, TopCount)' : m = ManifestRow(EarlyFile, topFile[j])'
        /\ manifest' # {} => Preloaded(topFile)' \subseteq DOMAIN cached'
    <3>1. EarlyFile' = EarlyFile
      BY <2>1 DEF EarlyFile, Preloaded
    <3>. QED
      BY <1>1, <2>1, <3>1, FiveFrame DEF FiveInv
  <2>3. \A b \in opened' : \E j \in DOMAIN topFile : topFile[j].rank \in DOMAIN cached' /\ b = Bundled(topFile[j], cached[topFile[j].rank])'
    BY <1>1, <2>1, FiveFrame DEF FiveInv
  <2>4. FilesOf(files)' /\ \A x \in DOMAIN cached' : FilesOf(cached[x])' /\ \A f \in cached'[x] : f.rank = x
    BY <1>1, <2>1 DEF FiveInv, FilesOf
  <2>. QED
    BY <1>1, <2>1, <2>2, <2>3, <2>4 DEF FiveInv
<1>3. CASE FiveNext
  BY <1>1, <1>3, OpenReaderRight, GetIssueRight, WriteProfileRight DEF FiveNext
<1>. QED
  BY <1>1, <1>2, <1>3

----------------------------------------------------------------------------
(* EventSynthesis: what is told of an event without a comparison *)

\* What the pages get of a bundle
TellingOf(b) ==
  IF LiveUnverified(b) THEN HeldBack(b)
  ELSE IF b.own.usable \/ ~Composable(b) THEN AsStored(b)
  ELSE FromProfiles(b)

SynthesisInv ==
  \/ told = NothingYet /\ (story = NothingYet \/ story \in StoryBundles)
  \/ story \in StoryBundles /\ told = TellingOf(story)

LEMMA SynthesisTyped == SynthesisInv => SynthesisTypeOK
<1>1. \A b \in StoryBundles : b.step = "stored"
  BY EventSynthesisAssumption DEF StoryRead
<1>2. \A b : TellingOf(b).step \in {"stored", "withheld", "composed"}
  BY DEF TellingOf, HeldBack, AsStored, FromProfiles, Page
<1>. QED
  BY <1>1, <1>2 DEF SynthesisInv, SynthesisTypeOK, NothingYet

LEMMA SynthesisInvInit == SynthesisInit => SynthesisInv
BY DEF SynthesisInit, SynthesisInv

LEMMA SynthesisInvStep == SynthesisInv /\ [SynthesisNext]_synthesisVars => SynthesisInv'
<1>1. SUFFICES ASSUME SynthesisInv, [SynthesisNext]_synthesisVars PROVE SynthesisInv'
  OBVIOUS
<1>2. \A b \in StoryBundles : b.step = "stored"
  BY EventSynthesisAssumption DEF StoryRead
<1>3. \A b : TellingOf(b).step # "rest"
  BY DEF TellingOf, HeldBack, AsStored, FromProfiles, Page
<1>4. ASSUME story' = story PROVE TellingOf(story)' = TellingOf(story)
  <2>1. PICK b : b = story
    OBVIOUS
  <2>2. TellingOf(story)' = TellingOf(b)
    <3>1. b = story'
      BY <2>1, <1>4
    <3>. QED
      BY <3>1
  <2>. QED
    BY <2>1, <2>2
<1>5. CASE UNCHANGED synthesisVars
  BY <1>1, <1>4, <1>5 DEF synthesisVars, SynthesisInv
<1>6. CASE ReadStory
  BY <1>1, <1>2, <1>3, <1>6 DEF ReadStory, SynthesisInv
<1>7. CASE TellStory
  <2>1. story' = story /\ told.step = "rest" /\ told' = TellingOf(story) /\ story.step = "stored"
    BY <1>7 DEF TellStory, TellingOf
  <2>2. story \in StoryBundles
    BY <1>1, <1>3, <2>1 DEF SynthesisInv, NothingYet
  <2>. QED
    BY <1>4, <2>1, <2>2 DEF SynthesisInv
<1>. QED
  BY <1>1, <1>5, <1>6, <1>7 DEF SynthesisNext

\* The rows of an aspect, and those that say one thing, are articles of the bundle.
LEMMA RowsKnown ==
  ASSUME NEW b, StoryRead(b), NEW d, NEW x
  PROVE  /\ RowsOf(b, d) \in SUBSET Nat /\ IsFiniteSet(RowsOf(b, d))
         /\ SayingIt(b, d, x) \in SUBSET Nat /\ IsFiniteSet(SayingIt(b, d, x))
<1>1. RowsOf(b, d) \in SUBSET DOMAIN b.profile /\ SayingIt(b, d, x) \in SUBSET DOMAIN b.profile
  BY DEF RowsOf, SayingIt
<1>2. DOMAIN b.profile \subseteq Nat /\ IsFiniteSet(DOMAIN b.profile)
  BY DEF StoryRead
<1>. QED
  BY <1>1, <1>2, FS_Subset

LEMMA LowestOf ==
  ASSUME NEW S \in SUBSET Nat, IsFiniteSet(S), S # {}
  PROVE  LowestArticle(S) \in S /\ \A y \in S : LowestArticle(S) <= y
<1>1. \E x \in S : \A y \in S : x <= y
  BY EndsOf
<1>. QED
  BY <1>1 DEF LowestArticle

\* Of what is repeated one saying is chosen.
LEMMA RepeatedChosen ==
  ASSUME NEW b, StoryRead(b), NEW d, ExactRepeated(b, d) # {}
  PROVE  /\ FirstRepeated(b, d) \in ExactRepeated(b, d)
         /\ \E a, c \in SayingIt(b, d, FirstRepeated(b, d)) : a # c
<1> DEFINE E == ExactRepeated(b, d)
           low(x) == LowestArticle(SayingIt(b, d, x))
           lows == {low(x) : x \in E}
<1>1. \A x \in E : \E a, c \in SayingIt(b, d, x) : a # c
  BY RowsKnown, TwoOf DEF ExactRepeated
<1>2. \A x \in E : low(x) \in DOMAIN b.profile
  <2>1. SUFFICES ASSUME NEW x \in E PROVE low(x) \in DOMAIN b.profile
    OBVIOUS
  <2>2. SayingIt(b, d, x) \in SUBSET Nat /\ IsFiniteSet(SayingIt(b, d, x)) /\ SayingIt(b, d, x) # {}
    BY <1>1, RowsKnown
  <2>3. low(x) \in SayingIt(b, d, x)
    BY <2>2, LowestOf
  <2>. QED
    BY <2>3 DEF SayingIt, RowsOf
<1>3. lows \in SUBSET DOMAIN b.profile /\ lows # {} /\ DOMAIN b.profile \subseteq Nat /\ IsFiniteSet(DOMAIN b.profile)
  BY <1>2 DEF StoryRead
<1>4. \E m \in lows : \A n \in lows : m <= n
  <2> HIDE DEF lows
  <2>1. IsFiniteSet(lows) /\ lows \in SUBSET Nat
    BY <1>3, FS_Subset
  <2>. QED
    BY <1>3, <2>1, EndsOf
<1>5. \E x \in E : \A y \in E : low(x) <= low(y)
  BY <1>4
<1>6. FirstRepeated(b, d) \in E
  BY <1>5 DEF FirstRepeated
<1>. QED
  BY <1>1, <1>6

\* What is claimed to be repeated has the articles that say it.
LEMMA ClaimShared ==
  ASSUME NEW b, StoryRead(b), NEW d, NEW s \in SharedClaim(b, d)
  PROVE  \E a, c \in s.evidence : /\ a # c /\ HasRow(b, a, d) /\ HasRow(b, c, d)
                                  /\ AspectRow(b, a, d).text = AspectRow(b, c, d).text
<1>1. ExactRepeated(b, d) # {} /\ s.evidence = SayingIt(b, d, FirstRepeated(b, d))
  BY DEF SharedClaim
<1>. QED
  BY <1>1, RepeatedChosen DEF SayingIt, RowsOf

LEMMA HappenedBorne ==
  ASSUME NEW b, StoryRead(b), WhatHappened(b).text # Unsaid
  PROVE  \E a \in WhatHappened(b).evidence : AspectRow(b, a, 1).text = WhatHappened(b).text
<1> DEFINE R == RowsOf(b, 1)
           a == LowestArticle(R)
<1>1. R # {} /\ WhatHappened(b) = [text |-> AspectRow(b, a, 1).text, evidence |-> First4(R)]
  BY DEF WhatHappened
<1>2. R \in SUBSET Nat /\ IsFiniteSet(R)
  BY RowsKnown
<1>3. a \in R /\ \A y \in R : a <= y
  <2> HIDE DEF R
  <2>. QED
    BY <1>1, <1>2, LowestOf
<1>4. {c \in R : c < a} = {}
  BY <1>2, <1>3
<1>5. Cardinality({c \in R : c < a}) = 0
  BY <1>4, FS_EmptySet
<1>6. a \in First4(R)
  BY <1>3, <1>5 DEF First4
<1>. QED
  BY <1>1, <1>6

LEMMA SynthesisHolds == SynthesisInv => SynthesisFounded
<1>1. SUFFICES ASSUME SynthesisInv PROVE SynthesisFounded
  OBVIOUS
<1>2. CASE told = NothingYet
  BY <1>2 DEF NothingYet, SynthesisFounded, DifferenceCompared, AgreedTwice, WordsBorne
<1>3. CASE story \in StoryBundles /\ told = TellingOf(story)
  <2>1. StoryRead(story)
    BY <1>3, EventSynthesisAssumption
  <2>2. CASE LiveUnverified(story)
    <3>1. told = HeldBack(story)
      BY <1>3, <2>2 DEF TellingOf
    <3>. QED
      BY <3>1 DEF HeldBack, Page, SynthesisFounded, DifferenceCompared, AgreedTwice, WordsBorne
  <2>3. CASE ~LiveUnverified(story) /\ (story.own.usable \/ ~Composable(story))
    <3>1. told = AsStored(story)
      BY <1>3, <2>3 DEF TellingOf
    <3>2. told.step = "stored" /\ (told.difference => story.own.usable)
      BY <3>1 DEF AsStored, Page
    <3>. QED
      BY <2>3, <3>2 DEF LiveUnverified, SynthesisFounded, DifferenceCompared, AgreedTwice, WordsBorne
  <2>4. CASE ~LiveUnverified(story) /\ ~(story.own.usable \/ ~Composable(story))
    <3>1. told = FromProfiles(story)
      BY <1>3, <2>4 DEF TellingOf
    <3> DEFINE what == WhatHappened(story)
               agreed == SharedClaim(story, 2) \cup SharedClaim(story, 3)
    <3>2. /\ told.step = "composed" /\ told.difference = FALSE /\ told.what = what.text
          /\ told.agreed = (IF agreed = {} THEN story.brief.common ELSE "repeated")
          /\ told.evidence = what.evidence \cup UNION {s.evidence : s \in agreed}
      BY <3>1 DEF FromProfiles, Page, Composed
    <3>6. told.line = "no_opposition"
      BY <3>1 DEF FromProfiles, Page
    <3> HIDE DEF what
    <3>3. AgreedTwice
      <4>1. SUFFICES ASSUME told.agreed = "repeated"
                     PROVE  \E a, c \in told.evidence, d \in {2, 3} : a # c /\ HasRow(story, a, d) /\ HasRow(story, c, d)
                                            /\ AspectRow(story, a, d).text = AspectRow(story, c, d).text
        BY DEF AgreedTwice
      <4>2. agreed # {}
        BY <4>1, <3>2, <2>1 DEF StoryRead
      <4>3. PICK d \in {2, 3} : SharedClaim(story, d) # {}
        BY <4>2
      <4>4. PICK s \in SharedClaim(story, d) : TRUE
        BY <4>3
      <4>5. s.evidence \subseteq told.evidence
        BY <4>4, <3>2
      <4>. QED
        BY <4>5, <2>1, ClaimShared
    <3>4. WordsBorne
      BY <3>2, <2>1, HappenedBorne DEF WordsBorne, what
    <3>5. DifferenceCompared
      BY <3>2, <3>6 DEF DifferenceCompared
    <3>. QED
      BY <3>3, <3>4, <3>5 DEF SynthesisFounded
  <2>. QED
    BY <2>2, <2>3, <2>4
<1>. QED
  BY <1>1, <1>2, <1>3 DEF SynthesisInv

----------------------------------------------------------------------------
(* ActiveSnapshot: what is served from the pointer keeps the contract       *)

\* A set of articles has two outlets exactly when two of its articles have.
LEMMA OutletsApart ==
  ASSUME NEW as, as \subseteq Pieces
  PROVE  /\ IsFiniteSet(as) /\ IsFiniteSet(PieceOutlets(as))
         /\ Cardinality(PieceOutlets(as)) >= 2 <=> \E x, y \in as : PieceOutlet[x] # PieceOutlet[y]
         /\ (\E x, y \in as : PieceOutlet[x] # PieceOutlet[y]) => Cardinality(as) >= 2
         /\ Cardinality(as) \in Nat /\ Cardinality(PieceOutlets(as)) \in Nat
         /\ Cardinality(PieceOutlets(as)) <= Cardinality(as)
<1>1. IsFiniteSet(as)
  BY ActiveSnapshotAssumption, FS_Subset DEF Pieces
<1>2. IsFiniteSet(PieceOutlets(as)) /\ Cardinality(PieceOutlets(as)) <= Cardinality(as)
  BY <1>1, ImageOf DEF PieceOutlets
<1>3. Cardinality(PieceOutlets(as)) >= 2 <=> \E u, v \in PieceOutlets(as) : u # v
  <2> DEFINE os == PieceOutlets(as)
  <2>1. IsFiniteSet(os)
    BY <1>2
  <2> HIDE DEF os
  <2>2. Cardinality(os) >= 2 <=> \E u, v \in os : u # v
    BY <2>1, TwoOf
  <2>. QED
    BY <2>2 DEF os
<1>4. (\E u, v \in PieceOutlets(as) : u # v) <=> \E x, y \in as : PieceOutlet[x] # PieceOutlet[y]
  BY DEF PieceOutlets
<1>5. (\E x, y \in as : PieceOutlet[x] # PieceOutlet[y]) => Cardinality(as) >= 2
  BY <1>1, TwoOf
<1>6. Cardinality(as) \in Nat /\ Cardinality(PieceOutlets(as)) \in Nat
  BY <1>1, <1>2, TwoOf
<1>. QED
  BY <1>1, <1>2, <1>3, <1>4, <1>5, <1>6

\* An article a bound point declares in the newspaper's own voice tells it so.
LEMMA BoundNarrates ==
  ASSUME NEW b, NEW p, PointBound(b, p), p.voice = "journalist_narration", NEW x \in p.declared
  PROVE  TrulyNarrated(b, x)
<1>1. PICK e \in p.evidence : e.article = x
  BY Zenon DEF PointBound
<1>2. EvidenceValid(b, e, "journalist_narration")
  BY DEF PointBound
<1>3. \A v : Voiced("journalist_narration", v) => v = "journalist_narration"
  BY DEF Voiced
<1>4. Intact(b, x) /\ e.anchor \in b.profile[x].evidence
  BY <1>1, <1>2 DEF EvidenceValid
<1>5. PICK i \in b.profile[x].items : /\ i.anchor = e.anchor /\ i.state = "supported"
                                       /\ Voiced("journalist_narration", i.voice)
  BY <1>1, <1>2, Zenon DEF EvidenceValid
<1>. QED
  BY <1>3, <1>4, <1>5 DEF TrulyNarrated

\* The articles of the points of some relations that a dimension tells in the newspaper's own voice.
NarratedIn(d, relations) ==
  UNION {p.declared : p \in {q \in d.points : q.relation \in relations /\ q.voice = "journalist_narration"}}

LEMMA NarratedApart ==
  ASSUME NEW b, BundleRead(b), NEW d, \A p \in d.points : PointBound(b, p), NEW relations
  PROVE  /\ NarratedIn(d, relations) \subseteq Pieces
         /\ NarratedIn(d, relations) \subseteq {x \in b.articles : TrulyNarrated(b, x)}
         /\ CrossOutlet({d}, relations) <=> \E x, y \in NarratedIn(d, relations) : PieceOutlet[x] # PieceOutlet[y]
<1>1. \A p \in d.points : p.declared \subseteq b.articles
  BY DEF PointBound
<1>2. NarratedIn(d, relations) \subseteq {x \in b.articles : TrulyNarrated(b, x)}
  BY <1>1, BoundNarrates DEF NarratedIn
<1>3. NarratedIn(d, relations) \subseteq Pieces
  BY <1>2 DEF BundleRead, Pieces
<1>4. CrossOutlet({d}, relations) <=> /\ Cardinality(NarratedIn(d, relations)) >= 2
                                      /\ Cardinality(PieceOutlets(NarratedIn(d, relations))) >= 2
  BY Zenon DEF CrossOutlet, NarratedDimensions, NarratedIn
<1>. QED
  BY <1>2, <1>3, <1>4, OutletsApart

LEMMA DifferenceHolds ==
  ASSUME NEW b, BundleRead(b), Publishable(b)
  PROVE  DifferenceFounded(b)
<1> DEFINE s == b.synthesis
           rs == DifferenceRelations
           ds == {d \in b.synthesis.dimensions : \E p, q \in d.points : \E x \in p.declared, y \in q.declared :
                    /\ {p.relation, q.relation} \subseteq DifferenceRelations
                    /\ p.voice = "journalist_narration" /\ q.voice = "journalist_narration"
                    /\ PieceOutlet[x] # PieceOutlet[y] /\ TrulyNarrated(b, x) /\ TrulyNarrated(b, y)}
<1>1. \A d \in s.dimensions : \A p \in d.points : PointBound(b, p)
  BY DEF Publishable
<1>2. ASSUME NEW d \in s.dimensions
      PROVE  d \in ds <=> CrossOutlet({d}, rs)
  <2>1. d \in ds <=> \E x, y \in NarratedIn(d, rs) : PieceOutlet[x] # PieceOutlet[y]
    <3>1. ASSUME d \in ds PROVE \E x, y \in NarratedIn(d, rs) : PieceOutlet[x] # PieceOutlet[y]
      <4>1. PICK p, q \in d.points : \E x \in p.declared, y \in q.declared :
               /\ {p.relation, q.relation} \subseteq DifferenceRelations
               /\ p.voice = "journalist_narration" /\ q.voice = "journalist_narration"
               /\ PieceOutlet[x] # PieceOutlet[y] /\ TrulyNarrated(b, x) /\ TrulyNarrated(b, y)
        BY <3>1, Zenon
      <4>. QED
        BY <4>1 DEF NarratedIn
    <3>2. ASSUME NEW x \in NarratedIn(d, rs), NEW y \in NarratedIn(d, rs), PieceOutlet[x] # PieceOutlet[y]
          PROVE  d \in ds
      <4>1. PICK p \in d.points : p.relation \in rs /\ p.voice = "journalist_narration" /\ x \in p.declared
        BY DEF NarratedIn
      <4>2. PICK q \in d.points : q.relation \in rs /\ q.voice = "journalist_narration" /\ y \in q.declared
        BY DEF NarratedIn
      <4>3. TrulyNarrated(b, x) /\ TrulyNarrated(b, y)
        BY <1>1, <4>1, <4>2, BoundNarrates
      <4>4. {p.relation, q.relation} \subseteq DifferenceRelations
        BY <4>1, <4>2
      <4>. QED
        BY <3>2, <4>1, <4>2, <4>3, <4>4, Zenon
    <3>. QED
      BY <3>1, <3>2
  <2>2. \A p \in d.points : PointBound(b, p)
    BY <1>1
  <2>. QED
    BY <2>1, <2>2, NarratedApart
<1>3. CASE s.status = "difference_confirmed"
  <2>1. \E d \in s.dimensions : CrossOutlet({d}, rs)
    BY <1>3 DEF Publishable
  <2>2. ds # {}
    BY <2>1, <1>2
  <2>. QED
    BY <1>3, <2>2 DEF DifferenceFounded
<1>4. CASE s.status = "no_clear_difference"
  <2>1. ~CrossOutlet(s.dimensions, rs)
    BY <1>4 DEF Publishable
  <2>2. \A d \in s.dimensions : ~CrossOutlet({d}, rs)
    BY <2>1, Zenon DEF CrossOutlet, NarratedDimensions
  <2>3. ds = {}
    BY <2>2, <1>2
  <2>. QED
    BY <1>4, <2>3 DEF DifferenceFounded
<1>5. CASE s.status \notin {"difference_confirmed", "no_clear_difference"}
  BY <1>5 DEF DifferenceFounded
<1>. QED
  BY <1>3, <1>4, <1>5

----------------------------------------------------------------------------
SnapshotInv ==
  /\ pointer \in Envelopes \cup {NoEnvelope}
  /\ page.step = "served" =>
       \/ /\ page.source \in {"pointer", "file"} /\ page.envelope \in Envelopes
          /\ WholeEnvelope(page.envelope)
          /\ dataMode = "live" => page.source = "pointer" /\ LivePublishable(page.envelope)
       \/ page.source = "demo" /\ dataMode # "live"
  /\ summary = NoSummary
       \/ \E b : BundleRead(b) /\ summary = SummaryOf(b)

LEMMA BundlesServed ==
  ASSUME SnapshotInv, page.step = "served", NEW b \in Served
  PROVE  BundleRead(b)
<1>1. CASE page.source = "demo"
  BY <1>1, ActiveSnapshotAssumption DEF Served
<1>2. CASE page.source # "demo"
  <2>1. page.envelope \in Envelopes
    BY <1>2 DEF SnapshotInv
  <2>2. PICK i \in DOMAIN page.envelope.bundles : b = page.envelope.bundles[i]
    BY <1>2 DEF Served
  <2>. QED
    BY <2>1, <2>2, ActiveSnapshotAssumption DEF EnvelopeRead
<1>. QED
  BY <1>1, <1>2

LEMMA SnapshotInvInit == SummaryInit => SnapshotInv
BY DEF SummaryInit, SnapshotInit, SnapshotInv, IdlePage

LEMMA SnapshotInvStep == SnapshotInv /\ [SummaryNext]_summaryVars => SnapshotInv'
<1>1. SUFFICES ASSUME SnapshotInv, [SummaryNext]_summaryVars PROVE SnapshotInv'
  OBVIOUS
<1>2. CASE UNCHANGED snapshotVars /\ (summary' = NoSummary \/ summary' = summary)
  BY <1>1, <1>2 DEF snapshotVars, SnapshotInv
<1>3. CASE ShowSummary
  <2>1. PICK b \in Served : summary' = SummaryOf(b)
    BY <1>3 DEF ShowSummary
  <2>2. BundleRead(b)
    BY <1>1, <1>3, <2>1, BundlesServed DEF ShowSummary
  <2>3. UNCHANGED snapshotVars
    BY <1>3 DEF ShowSummary
  <2>. QED
    BY <1>1, <2>1, <2>2, <2>3 DEF snapshotVars, SnapshotInv
<1>4. ASSUME summary' = summary, SnapshotNext PROVE SnapshotInv'
  <2>1. CASE LoadPage
    <3>. USE <1>1, <1>4, <2>1
    <3>1. CASE dataMode = "live"
      BY <3>1 DEF LoadPage, ReadPointer, IdlePage, SnapshotInv
    <3>2. CASE dataMode = "offline_fixture"
      BY <3>2 DEF LoadPage, IdlePage, SnapshotInv
    <3>3. CASE dataMode \notin {"live", "offline_fixture"}
      BY <3>3 DEF LoadPage, DemoPage, SnapshotInv
    <3>. QED
      BY <3>1, <3>2, <3>3
  <2>2. CASE LoadApi
    BY <1>1, <1>4, <2>2 DEF LoadApi, ReadPointer, IdlePage, DemoPage, SnapshotInv
  <2>3. CASE ClosePage
    BY <1>1, <1>4, <2>3 DEF ClosePage, IdlePage, SnapshotInv
  <2>4. CASE MovePointer
    BY <1>1, <1>4, <2>4 DEF MovePointer, SnapshotInv
  <2>. QED
    BY <1>4, <2>1, <2>2, <2>3, <2>4 DEF SnapshotNext
<1>. QED
  BY <1>1, <1>2, <1>3, <1>4 DEF SummaryNext, summaryVars, LeaveSummary

LEMMA SnapshotKept == SnapshotInv => SnapshotFaithful
<1>1. SUFFICES ASSUME SnapshotInv, page.step = "served", dataMode = "live" PROVE SnapshotFaithful
  BY DEF SnapshotFaithful
<1> DEFINE v == page.envelope
           shown == {v.issues[i].issue : i \in DOMAIN v.issues}
<1>2. page.source = "pointer" /\ v \in Envelopes /\ WholeEnvelope(v) /\ LivePublishable(v)
  BY <1>1 DEF SnapshotInv
<1>3. EnvelopeRead(v)
  BY <1>2, ActiveSnapshotAssumption
<1>4. \A i \in DOMAIN v.issues : v.issues[i].issue \in DOMAIN v.bundles
  BY <1>2 DEF WholeEnvelope
<1>5. \A i \in DOMAIN v.issues : v.bundles[v.issues[i].issue].issue = v.issues[i].issue
  BY <1>2, <1>4 DEF WholeEnvelope
<1>6. Cardinality(shown) = IssuesPublished
  <2> DEFINE n == Len(v.issues)
             f == [i \in 1 .. n |-> v.issues[i].issue]
  <2>1. n = IssuesPublished /\ n \in Nat /\ DOMAIN v.issues = 1 .. n
    BY <1>2, <1>3 DEF WholeEnvelope, EnvelopeRead
  <2>2. \A i, j \in 1 .. n : i # j => f[i] # f[j]
    BY <1>2, <2>1 DEF WholeEnvelope
  <2>3. f \in Bijection(1 .. n, shown)
    <3>1. f \in [1 .. n -> shown]
      BY <2>1
    <3>2. \A u \in shown : \E i \in 1 .. n : f[i] = u
      BY <2>1
    <3>3. \A i, j \in 1 .. n : f[i] = f[j] => i = j
      BY <2>2
    <3> HIDE DEF f, shown
    <3>. QED
      BY <3>1, <3>2, <3>3 DEF Bijection, Injection, Surjection, IsInjective
  <2>4. IsFiniteSet(1 .. n) /\ Cardinality(1 .. n) = n
    BY <2>1, FS_Interval
  <2> HIDE DEF f, shown
  <2>5. Cardinality(1 .. n) = Cardinality(shown)
    BY <2>3, <2>4, FS_Bijection DEF ExistsBijection
  <2>. QED
    BY <2>1, <2>4, <2>5
<1>7. v.replay \/ \A i \in DOMAIN v.bundles : DifferenceFounded(v.bundles[i])
  <2>1. SUFFICES ASSUME ~v.replay, NEW i \in DOMAIN v.bundles PROVE DifferenceFounded(v.bundles[i])
    OBVIOUS
  <2>2. PICK j \in DOMAIN v.issues : i = v.issues[j].issue
    BY <1>2 DEF WholeEnvelope
  <2>3. Publishable(v.bundles[i])
    BY <1>2, <2>1, <2>2 DEF LivePublishable
  <2>4. BundleRead(v.bundles[i])
    BY <1>3 DEF EnvelopeRead
  <2>. QED
    BY <2>3, <2>4, DifferenceHolds
<1>. QED
  BY <1>2, <1>5, <1>6, <1>7 DEF SnapshotFaithful

----------------------------------------------------------------------------
(* ComparisonSummary: the comparison of a page                              *)

\* A step repeated from a start gives a value to every number of repetitions.
Iterates(f, base, step, N) == f[0] = base /\ \A n \in 1 .. N : f[n] = step[f[n - 1]]

LEMMA IteratedExists ==
  ASSUME NEW N \in Nat, NEW V, NEW base \in V, NEW step \in [V -> V]
  PROVE  \E f \in [0 .. N -> V] : Iterates(f, base, step, N)
<1>. USE DEF Iterates
<1> DEFINE good(m, f) == f \in [0 .. m -> V] /\ f[0] = base /\ \A n \in 1 .. m : f[n] = step[f[n - 1]]
           Bad == {m \in 0 .. N : ~(\E f : good(m, f))}
<1>1. SUFFICES ASSUME Bad # {} PROVE FALSE
  <2>1. N \notin Bad
    BY <1>1
  <2>. QED
    BY <2>1
<1>2. Bad \in SUBSET (0 .. N)
  OBVIOUS
<1>3. PICK m \in Bad : \A k \in Bad : m <= k
  <2> HIDE DEF Bad
  <2>. QED
    BY <1>1, <1>2, LeastUpTo
<1>4. m \in 0 .. N /\ ~(\E f : good(m, f))
  OBVIOUS
<1>5. CASE m = 0
  <2>1. good(0, [n \in 0 .. 0 |-> base])
    OBVIOUS
  <2>. QED
    BY <1>4, <1>5, <2>1
<1>6. CASE m # 0
  <2>1. m - 1 \in 0 .. N /\ m - 1 < m /\ m \in Nat
    BY <1>4, <1>6
  <2>2. PICK f : good(m - 1, f)
    <3>1. m - 1 \notin Bad
      <4> HIDE DEF Bad
      <4>. QED
        BY <1>2, <1>3, <2>1
    <3> HIDE DEF good
    <3>. QED
      BY <2>1, <3>1
  <2> DEFINE g == [n \in 0 .. m |-> IF n = m THEN step[f[m - 1]] ELSE f[n]]
  <2>3. \A n \in 0 .. m : n # m => n \in 0 .. m - 1
    BY <2>1
  <2>4. g \in [0 .. m -> V]
    BY <2>1, <2>2, <2>3
  <2>5. g[0] = base /\ \A n \in 1 .. m : g[n] = step[g[n - 1]]
    <3>1. g[0] = f[0] /\ f[0] = base
      BY <1>6, <2>1, <2>2
    <3>2. ASSUME NEW n \in 1 .. m PROVE g[n] = step[g[n - 1]]
      <4>1. n - 1 \in 0 .. m /\ n - 1 # m /\ n \in 0 .. m
        BY <2>1
      <4>2. g[n - 1] = f[n - 1]
        BY <4>1
      <4>3. CASE n = m
        BY <4>1, <4>2, <4>3
      <4>4. CASE n # m
        <5>1. n \in 1 .. m - 1
          BY <2>1, <4>4
        <5>2. g[n] = f[n]
          BY <4>1, <4>4
        <5>3. f[n] = step[f[n - 1]]
          BY <2>2, <5>1
        <5>. QED
          BY <4>2, <5>2, <5>3
      <4>. QED
        BY <4>3, <4>4
    <3>. QED
      BY <3>1, <3>2
  <2>6. good(m, g)
    BY <2>4, <2>5
  <2>. QED
    BY <1>4, <2>6
<1>. QED
  BY <1>5, <1>6

\* Groups as a bundle's points give them: of known layers and texts, with outlets of their articles.
GroupsRead(groups) ==
  /\ IsFiniteSet(groups)
  /\ \A g \in groups : /\ g.layer \in Nat /\ g.says \in Nat
                       /\ IsFiniteSet(g.articles) /\ IsFiniteSet(g.outlets)
                       /\ Cardinality(g.articles) \in Nat /\ Cardinality(g.outlets) \in Nat
                       /\ Cardinality(g.outlets) <= Cardinality(g.articles)

LEMMA TooLight ==
  ASSUME NEW o \in Nat, NEW a \in Nat, NEW w \in Nat, NEW v \in Nat,
         o <= a, a <= 30, w <= 10 + 2 * o + a, w >= v, v > 100
  PROVE  FALSE
OBVIOUS

\* A group outweighs the others when it brings an outlet, as long as it has few articles.
LEMMA WeightIs ==
  ASSUME NEW groups, GroupsRead(groups), NEW g \in groups, NEW covered
  PROVE  /\ Weight(g, covered) \in Nat /\ Cardinality(g.outlets \ covered) \in Nat
         /\ g.outlets \subseteq covered =>
              Weight(g, covered) <= 10 + 2 * Cardinality(g.outlets) + Cardinality(g.articles)
         /\ ~(g.outlets \subseteq covered) => Weight(g, covered) > 100
<1>1. IsFiniteSet(g.outlets \ covered) /\ Cardinality(g.outlets) \in Nat /\ Cardinality(g.articles) \in Nat
  BY FS_Difference DEF GroupsRead
<1> DEFINE more == g.outlets \ covered
           o == Cardinality(g.outlets)
           a == Cardinality(g.articles)
           r == IF g.relation \in DifferenceRelations THEN 10 ELSE 0
<1>2. Cardinality(more) \in Nat /\ (Cardinality(more) = 0 <=> more = {})
  BY <1>1, FS_CardinalityType, FS_EmptySet
<1>3. more = {} <=> g.outlets \subseteq covered
  OBVIOUS
<1>4. ~(g.outlets \subseteq covered) => o >= 1
  <2>1. IsFiniteSet(g.outlets)
    BY DEF GroupsRead
  <2>. QED
    BY <2>1, TwoOf
<1>5. Weight(g, covered) = 100 * Cardinality(more) + r + 2 * o + a
  BY DEF Weight
<1>6. r \in Nat /\ r <= 10
  OBVIOUS
<1> HIDE DEF more, o, a, r
<1>. QED
  BY <1>1, <1>2, <1>3, <1>4, <1>5, <1>6 DEF more, o, a

LEMMA BestOf ==
  ASSUME NEW groups, GroupsRead(groups), NEW left \in SUBSET groups, left # {}, NEW covered
  PROVE  Best(left, covered) \in left /\ \A h \in left : Weight(Best(left, covered), covered) >= Weight(h, covered)
<1> DEFINE ahead(g, h) == \/ Weight(g, covered) > Weight(h, covered)
                          \/ Weight(g, covered) = Weight(h, covered) /\ ~KeyLess(h, g)
           R == {p \in left \X left : ahead(p[1], p[2])}
<1>1. \A g \in left : g.layer \in Nat /\ g.says \in Nat /\ Weight(g, covered) \in Nat
  BY WeightIs DEF GroupsRead
<1>2. \A g, h \in left : <<g, h>> \in R <=> ahead(g, h)
  OBVIOUS
<1>3. \A g, h \in left : ahead(g, h) \/ ahead(h, g)
  BY <1>1 DEF KeyLess
<1>4. \A g, h, k \in left : ahead(g, h) /\ ahead(h, k) => ahead(g, k)
  BY <1>1 DEF KeyLess
<1>5. IsFiniteSet(left)
  BY FS_Subset DEF GroupsRead
<1>6. \E g \in left : \A h \in left : <<g, h>> \in R
  <2> HIDE DEF R, ahead
  <2>. QED
    BY <1>2, <1>3, <1>4, <1>5, TopOf
<1>7. \E g \in left : \A h \in left : ahead(g, h)
  BY <1>2, <1>6
<1>8. Best(left, covered) \in left /\ \A h \in left : ahead(Best(left, covered), h)
  BY <1>7 DEF Best
<1>. QED
  BY <1>1, <1>8

\* The groups shown first are picked one after the other.
LEMMA PickedOneByOne ==
  ASSUME NEW groups, GroupsRead(groups)
  PROVE  \E f \in [0 .. ShownGroups -> SUBSET groups] :
           /\ Representatives(groups) = f[ShownGroups] /\ f[0] = {}
           /\ \A n \in 1 .. ShownGroups : f[n] = Picked(groups, f[n - 1])
<1> DEFINE V == SUBSET groups
           step == [x \in V |-> Picked(groups, x)]
           grows(f) == f = [n \in 0 .. ShownGroups |-> IF n = 0 THEN {} ELSE Picked(groups, f[n - 1])]
<1>0. ShownGroups \in Nat /\ ShownGroups # 0
  BY ComparisonSummaryAssumption
<1>1. step \in [V -> V]
  <2>1. ASSUME NEW x \in V PROVE Picked(groups, x) \in V
    <3>1. CASE groups = x
      BY <3>1 DEF Picked
    <3>2. CASE groups # x
      <4>1. groups \ x \in SUBSET groups /\ groups \ x # {}
        BY <3>2
      <4>2. Best(groups \ x, OutletsShown(x)) \in groups \ x
        BY <4>1, BestOf
      <4>. QED
        BY <3>2, <4>2 DEF Picked
    <3>. QED
      BY <3>1, <3>2
  <2>. QED
    BY <2>1
<1>2. {} \in V
  OBVIOUS
<1>3. \A x \in V : step[x] = Picked(groups, x)
  OBVIOUS
<1> HIDE DEF V, step
<1>4. PICK f \in [0 .. ShownGroups -> V] : f[0] = {} /\ \A n \in 1 .. ShownGroups : f[n] = step[f[n - 1]]
  <2>1. \E f \in [0 .. ShownGroups -> V] : Iterates(f, {}, step, ShownGroups)
    BY <1>0, <1>1, <1>2, IteratedExists
  <2>. QED
    BY <2>1 DEF Iterates
<1>5. \A n \in 1 .. ShownGroups : n - 1 \in 0 .. ShownGroups /\ n \in 0 .. ShownGroups
  BY <1>0
<1>6. \A n \in 1 .. ShownGroups : f[n] = Picked(groups, f[n - 1])
  BY <1>3, <1>4, <1>5
<1>7. grows(f)
  <2>1. \A n \in 0 .. ShownGroups : n # 0 => n \in 1 .. ShownGroups
    BY <1>0
  <2>2. \A n \in 0 .. ShownGroups : f[n] = IF n = 0 THEN {} ELSE Picked(groups, f[n - 1])
    BY <1>4, <1>6, <2>1
  <2>. QED
    BY <1>4, <2>2
<1> DEFINE first == CHOOSE g : grows(g)
<1>8. Representatives(groups) = first[ShownGroups]
  BY DEF Representatives
<1>9. grows(first)
  <2> HIDE DEF grows
  <2>. QED
    BY <1>7
<1> HIDE DEF first
<1>10. \A n \in 0 .. ShownGroups : first[n] = IF n = 0 THEN {} ELSE Picked(groups, first[n - 1])
  BY <1>9
<1>11. first \in [0 .. ShownGroups -> V]
  <2> DEFINE Bad == {n \in 0 .. ShownGroups : first[n] \notin V}
  <2>1. SUFFICES ASSUME Bad # {} PROVE FALSE
    BY <1>9
  <2>2. Bad \in SUBSET (0 .. ShownGroups)
    OBVIOUS
  <2>3. PICK m \in Bad : \A k \in Bad : m <= k
    <3> HIDE DEF Bad
    <3>. QED
      BY <1>0, <2>1, <2>2, LeastUpTo
  <2>4. m # 0
    BY <1>2, <1>10
  <2>5. m - 1 \in 0 .. ShownGroups /\ ~(m <= m - 1)
    BY <1>0, <2>4
  <2>6. first[m - 1] \in V
    BY <2>3, <2>5
  <2>7. first[m] = step[first[m - 1]]
    BY <1>3, <1>10, <2>4, <2>6
  <2>. QED
    BY <1>1, <2>6, <2>7
<1>12. first[0] = {} /\ \A n \in 1 .. ShownGroups : first[n] = Picked(groups, first[n - 1])
  <2>1. 0 \in 0 .. ShownGroups /\ \A n \in 1 .. ShownGroups : n \in 0 .. ShownGroups /\ n # 0
    BY <1>0
  <2>. QED
    BY <1>10, <2>1
<1>. QED
  BY <1>8, <1>11, <1>12 DEF V

\* While there is room, every pick brings an outlet not yet shown.
LEMMA OutletsCovered ==
  ASSUME NEW groups, GroupsRead(groups),
         \A g \in groups : Cardinality(g.articles) <= MostArticles,
         Cardinality(OutletsShown(groups)) <= ShownGroups
  PROVE  OutletsShown(groups) = OutletsShown(Representatives(groups))
<1> DEFINE all == OutletsShown(groups)
           shown(f, n) == OutletsShown(f[n])
           done(f, n) == shown(f, n) = all \/ Cardinality(shown(f, n)) >= n
<1>0. ShownGroups \in Nat /\ ShownGroups # 0
  BY ComparisonSummaryAssumption
<1>1. PICK f \in [0 .. ShownGroups -> SUBSET groups] :
           /\ Representatives(groups) = f[ShownGroups] /\ f[0] = {}
           /\ \A n \in 1 .. ShownGroups : f[n] = Picked(groups, f[n - 1])
  BY PickedOneByOne
<1>2. IsFiniteSet(all)
  <2>1. IsFiniteSet({g.outlets : g \in groups})
    <3> DEFINE out == [g \in groups |-> g.outlets]
    <3>1. IsFiniteSet({out[g] : g \in groups})
      <4> HIDE DEF out
      <4>. QED
        BY ImageOf DEF GroupsRead
    <3>2. {out[g] : g \in groups} = {g.outlets : g \in groups}
      OBVIOUS
    <3>. QED
      BY <3>1, <3>2
  <2>2. \A T \in {g.outlets : g \in groups} : IsFiniteSet(T)
    BY DEF GroupsRead
  <2>. QED
    BY <2>1, <2>2, FS_UNION DEF OutletsShown
<1>3. \A n \in 0 .. ShownGroups : shown(f, n) \subseteq all /\ IsFiniteSet(shown(f, n)) /\ Cardinality(shown(f, n)) \in Nat
  <2>1. SUFFICES ASSUME NEW n \in 0 .. ShownGroups PROVE shown(f, n) \subseteq all
    BY <1>2, FS_Subset, FS_CardinalityType
  <2>2. f[n] \subseteq groups
    BY <1>1
  <2>. QED
    BY <2>2 DEF OutletsShown
<1>4. ASSUME NEW n \in 1 .. ShownGroups, done(f, n - 1)
      PROVE  done(f, n)
  <2> DEFINE sofar == f[n - 1]
             left == groups \ sofar
             covered == OutletsShown(sofar)
             g == Best(left, covered)
  <2>1. n \in 0 .. ShownGroups /\ n - 1 \in 0 .. ShownGroups /\ sofar \subseteq groups /\ n \in Nat
    BY <1>0, <1>1
  <2>2. f[n] = Picked(groups, sofar)
    BY <1>1
  <2>3. CASE groups = sofar
    <3>1. f[n] = groups
      BY <2>2, <2>3 DEF Picked
    <3>. QED
      BY <3>1
  <2>4. CASE groups # sofar
    <3>1. left # {} /\ left \in SUBSET groups
      BY <2>1, <2>4
    <3>2. g \in left /\ \A h \in left : Weight(g, covered) >= Weight(h, covered)
      BY <3>1, BestOf
    <3>3. f[n] = sofar \cup {g}
      BY <2>2, <2>4 DEF Picked
    <3>4. shown(f, n) = covered \cup g.outlets
      BY <3>3 DEF OutletsShown
    <3>5. CASE covered = all
      BY <1>3, <2>1, <3>4, <3>5
    <3>6. CASE covered # all
      <4>1. PICK h \in groups : ~(h.outlets \subseteq covered)
        <5>1. covered \subseteq all
          BY <1>3, <2>1
        <5>2. PICK o \in all : o \notin covered
          BY <3>6, <5>1
        <5>3. PICK h \in groups : o \in h.outlets
          BY DEF OutletsShown
        <5>. QED
          BY <5>2, <5>3
      <4>2. h \in left
        BY <4>1 DEF OutletsShown
      <4>3. Weight(h, covered) > 100 /\ Weight(h, covered) \in Nat
        BY <4>1, WeightIs
      <4>4. ~(g.outlets \subseteq covered)
        <5>1. SUFFICES ASSUME g.outlets \subseteq covered PROVE FALSE
          OBVIOUS
        <5>2. g \in groups
          BY <3>2
        <5>3. /\ Weight(g, covered) <= 10 + 2 * Cardinality(g.outlets) + Cardinality(g.articles)
              /\ Weight(g, covered) \in Nat
          BY <5>1, <5>2, WeightIs
        <5>4. /\ Cardinality(g.outlets) <= Cardinality(g.articles) /\ Cardinality(g.articles) <= 30
              /\ Cardinality(g.outlets) \in Nat /\ Cardinality(g.articles) \in Nat
          BY <5>2 DEF GroupsRead, MostArticles
        <5>5. Weight(g, covered) >= Weight(h, covered)
          BY <3>2, <4>2
        <5>. QED
          BY <4>3, <5>3, <5>4, <5>5, TooLight
      <4>5. PICK x \in g.outlets : x \notin covered
        BY <4>4
      <4>6. IsFiniteSet(covered) /\ Cardinality(covered) \in Nat /\ Cardinality(covered) >= n - 1
        BY <1>3, <1>4, <2>1, <3>6
      <4>7. Cardinality(covered \cup {x}) = Cardinality(covered) + 1
        BY <4>5, <4>6, FS_AddElement
      <4>8. covered \cup {x} \subseteq shown(f, n) /\ IsFiniteSet(shown(f, n)) /\ Cardinality(shown(f, n)) \in Nat
        BY <1>3, <2>1, <3>4, <4>5
      <4>9. Cardinality(covered \cup {x}) <= Cardinality(shown(f, n))
        BY <4>8, FS_Subset
      <4> DEFINE c1 == Cardinality(covered)
                 c2 == Cardinality(covered \cup {x})
                 c3 == Cardinality(shown(f, n))
      <4>10. c1 \in Nat /\ c1 >= n - 1 /\ c2 = c1 + 1 /\ c2 <= c3 /\ c3 \in Nat
        BY <4>6, <4>7, <4>8, <4>9
      <4>11. c3 >= n
        <5> HIDE DEF c1, c2, c3
        <5>. QED
          BY <2>1, <4>10
      <4>. QED
        BY <4>11
    <3>. QED
      BY <3>5, <3>6
  <2>. QED
    BY <2>3, <2>4
<1>5. done(f, 0)
  BY <1>0, <1>3
<1>6. done(f, ShownGroups)
  <2> DEFINE Bad == {n \in 0 .. ShownGroups : ~done(f, n)}
  <2>1. SUFFICES ASSUME Bad # {} PROVE FALSE
    BY <1>0
  <2>2. Bad \in SUBSET (0 .. ShownGroups)
    OBVIOUS
  <2>3. PICK m \in Bad : \A k \in Bad : m <= k
    <3> HIDE DEF Bad
    <3>. QED
      BY <1>0, <2>1, <2>2, LeastUpTo
  <2>4. m \in 0 .. ShownGroups /\ ~done(f, m)
    OBVIOUS
  <2> HIDE DEF done
  <2>5. m # 0
    BY <1>5, <2>4
  <2>6. m \in 1 .. ShownGroups /\ m - 1 \in 0 .. ShownGroups /\ ~(m <= m - 1)
    BY <1>0, <2>4, <2>5
  <2>7. done(f, m - 1)
    BY <2>3, <2>6
  <2>. QED
    BY <1>4, <2>4, <2>6, <2>7
<1>7. CASE shown(f, ShownGroups) = all
  BY <1>1, <1>7
<1>8. CASE Cardinality(shown(f, ShownGroups)) >= ShownGroups
  <2>1. ShownGroups \in 0 .. ShownGroups
    BY <1>0
  <2>2. shown(f, ShownGroups) \subseteq all /\ Cardinality(shown(f, ShownGroups)) \in Nat
    BY <1>3, <2>1
  <2>3. Cardinality(shown(f, ShownGroups)) <= Cardinality(all)
    BY <1>2, <2>2, FS_Subset
  <2>4. Cardinality(all) \in Nat
    BY <1>2, FS_CardinalityType
  <2>5. Cardinality(shown(f, ShownGroups)) = Cardinality(all)
    BY <1>0, <1>8, <2>2, <2>3, <2>4
  <2>6. shown(f, ShownGroups) = all
    BY <1>2, <2>2, <2>5, FS_Subset
  <2>. QED
    BY <1>1, <2>6
<1>. QED
  BY <1>6, <1>7, <1>8

\* The group a point of a layer is shown as
GroupOfPoint(d, p) ==
  [layer |-> d, relation |-> p.relation, voice |-> p.voice, says |-> p.says, articles |-> p.declared,
   outlets |-> PieceOutlets(p.declared)]

LEMMA GroupsOfPoints ==
  ASSUME NEW b, BundleRead(b), NEW d \in CompareLayers, NEW x \in b.synthesis.dimensions
  PROVE  /\ GroupsRead(PointGroups(b, d, x.points))
         /\ \A g \in PointGroups(b, d, x.points) :
              /\ \E p \in x.points : PointBound(b, p) /\ g = GroupOfPoint(d, p)
              /\ g.articles \subseteq b.articles /\ g.articles \subseteq Pieces
<1> DEFINE gs == PointGroups(b, d, x.points)
           kept == {q \in x.points : /\ PointBound(b, q) /\ q.relation # "insufficient_evidence"
                                     /\ q.declared \subseteq {e.article : e \in Bounded(b, q.evidence)}}
           group == [p \in kept |-> GroupOfPoint(d, p)]
<1>1. gs = {group[p] : p \in kept}
  BY DEF PointGroups, GroupOfPoint
<1>2. IsFiniteSet(kept)
  <2>1. IsFiniteSet(x.points) /\ kept \in SUBSET x.points
    BY DEF BundleRead
  <2>. QED
    BY <2>1, FS_Subset
<1>3. IsFiniteSet(gs)
  <2> HIDE DEF gs, kept, group
  <2>. QED
    BY <1>1, <1>2, ImageOf
<1>4. ASSUME NEW g \in gs
      PROVE  /\ \E p \in x.points : PointBound(b, p) /\ g = GroupOfPoint(d, p)
             /\ g.articles \subseteq b.articles /\ g.articles \subseteq Pieces
             /\ g.layer \in Nat /\ g.says \in Nat /\ g.outlets = PieceOutlets(g.articles)
  <2>1. PICK p \in kept : g = GroupOfPoint(d, p)
    BY <1>1
  <2>2. p.declared \subseteq b.articles /\ p.says \in Nat /\ d \in Nat
    BY ComparisonSummaryAssumption DEF PointBound, BundleRead
  <2>. QED
    BY <2>1, <2>2 DEF GroupOfPoint, BundleRead, Pieces
<1>5. \A g \in gs : /\ IsFiniteSet(g.articles) /\ IsFiniteSet(g.outlets)
                    /\ Cardinality(g.articles) \in Nat /\ Cardinality(g.outlets) \in Nat
                    /\ Cardinality(g.outlets) <= Cardinality(g.articles)
  BY <1>4, OutletsApart
<1>. QED
  BY <1>3, <1>4, <1>5 DEF GroupsRead

\* The groups of a layer come from one result of it, in the newspapers' own words.
LEMMA LayerGroups ==
  ASSUME NEW b, BundleRead(b), NEW d \in CompareLayers
  PROVE  LET groups == LayerComparison(b, d).groups IN
         /\ groups = {} \/ \E x \in ResultLayers(b) :
              groups \subseteq {g \in PointGroups(b, d, x.points) : g.voice = "journalist_narration"}
         /\ GroupsRead(groups)
         /\ \A g \in groups : g.articles \subseteq b.articles
         /\ LayerComparison(b, d).status = "difference_confirmed" => DifferenceSupported(groups)
<1> DEFINE raw    == ResultOf(b, d)
           states == {b.semantic, RootStatus(b)} \cup {x.status : x \in raw}
           failed == states \cap FailedStates # {}
           tale   == IF failed THEN {} ELSE UNION {PointGroups(b, d, x.points) : x \in raw}
           own    == {g \in tale : g.voice = "journalist_narration"}
           groups == IF DifferenceSupported(own) THEN own ELSE own \ Differing(own)
<1>1. LayerComparison(b, d).groups = groups
  BY DEF LayerComparison
<1>2. LayerComparison(b, d).status = "difference_confirmed" => DifferenceSupported(groups)
  BY DEF LayerComparison
<1>3. raw = {} \/ \E x \in ResultLayers(b) : raw = {x}
  <2> DEFINE of == {x \in ResultLayers(b) : x.layer = d}
  <2>1. raw = IF of = {} THEN {} ELSE {CHOOSE x \in of : TRUE}
    BY DEF ResultOf
  <2>2. of # {} => (CHOOSE x \in of : TRUE) \in of
    OBVIOUS
  <2>. QED
    BY <2>1, <2>2
<1>4. groups \subseteq own
  OBVIOUS
<1>5. groups = {} \/ \E x \in ResultLayers(b) :
          groups \subseteq {g \in PointGroups(b, d, x.points) : g.voice = "journalist_narration"}
  <2>1. CASE raw = {}
    BY <1>4, <2>1
  <2>2. CASE \E x \in ResultLayers(b) : raw = {x}
    <3>1. PICK x \in ResultLayers(b) : raw = {x}
      BY <2>2
    <3>2. tale \subseteq PointGroups(b, d, x.points)
      BY <3>1
    <3>. QED
      BY <1>4, <3>2
  <2>. QED
    BY <1>3, <2>1, <2>2
<1> HIDE DEF raw, states, failed, tale, own, groups
<1>6. GroupsRead(groups) /\ \A g \in groups : g.articles \subseteq b.articles
  <2>1. CASE groups = {}
    BY <2>1, FS_EmptySet DEF GroupsRead
  <2>2. CASE groups # {}
    <3>1. PICK x \in ResultLayers(b) : groups \subseteq PointGroups(b, d, x.points)
      BY <1>5, <2>2
    <3>2. x \in b.synthesis.dimensions
      BY DEF ResultLayers
    <3>3. GroupsRead(PointGroups(b, d, x.points)) /\ \A g \in PointGroups(b, d, x.points) : g.articles \subseteq b.articles
      BY <3>2, GroupsOfPoints
    <3>4. IsFiniteSet(groups)
      BY <3>1, <3>3, FS_Subset DEF GroupsRead
    <3>. QED
      BY <3>1, <3>3, <3>4 DEF GroupsRead
  <2>. QED
    BY <2>1, <2>2
<1>. QED
  BY <1>1, <1>2, <1>5, <1>6

\* A layer whose difference is supported has articles of two outlets that tell it themselves.
LEMMA LayerTold ==
  ASSUME NEW b, BundleRead(b), NEW d \in CompareLayers, LayerComparison(b, d).status = "difference_confirmed"
  PROVE  LET as == UNION {g.articles : g \in Differing(LayerComparison(b, d).groups)}
         IN /\ \E y, z \in as : PieceOutlet[y] # PieceOutlet[z] /\ TrulyNarrated(b, y) /\ TrulyNarrated(b, z)
            /\ \E x \in b.synthesis.dimensions : as \subseteq NarratedIn(x, DifferenceRelations)
<1> DEFINE groups == LayerComparison(b, d).groups
           as == UNION {g.articles : g \in Differing(groups)}
           os == UNION {g.outlets : g \in Differing(groups)}
<1>1. Cardinality(os) >= 2
  BY LayerGroups, Zenon DEF DifferenceSupported
<1>2. groups # {}
  <2>1. SUFFICES ASSUME groups = {} PROVE FALSE
    OBVIOUS
  <2>2. os = {}
    BY <2>1 DEF Differing
  <2>. QED
    BY <1>1, <2>2, FS_EmptySet
<1>3. PICK x \in ResultLayers(b) :
        groups \subseteq {g \in PointGroups(b, d, x.points) : g.voice = "journalist_narration"}
  BY <1>2, LayerGroups
<1>4. x \in b.synthesis.dimensions
  BY DEF ResultLayers
<1> HIDE DEF groups
<1>5. ASSUME NEW g \in Differing(groups)
      PROVE  /\ g.articles \subseteq Pieces /\ g.outlets = PieceOutlets(g.articles)
             /\ \A y \in g.articles : TrulyNarrated(b, y)
             /\ g.articles \subseteq NarratedIn(x, DifferenceRelations)
  <2>1. g \in PointGroups(b, d, x.points) /\ g.voice = "journalist_narration" /\ g.relation \in DifferenceRelations
    BY <1>3 DEF Differing
  <2>2. PICK p \in x.points : PointBound(b, p) /\ g = GroupOfPoint(d, p)
    BY <1>4, <2>1, GroupsOfPoints
  <2>3. g.articles \subseteq Pieces
    BY <1>4, <2>1, GroupsOfPoints
  <2>4. p.voice = "journalist_narration" /\ p.relation \in DifferenceRelations /\ g.articles = p.declared
        /\ g.outlets = PieceOutlets(g.articles)
    BY <2>1, <2>2 DEF GroupOfPoint
  <2>. QED
    BY <2>2, <2>3, <2>4, BoundNarrates DEF NarratedIn
<1>6. as \subseteq Pieces /\ as \subseteq NarratedIn(x, DifferenceRelations) /\ \A y \in as : TrulyNarrated(b, y)
  BY <1>5
<1>7. os = PieceOutlets(as)
  BY <1>5 DEF PieceOutlets
<1> HIDE DEF as, os
<1>8. \E y, z \in as : PieceOutlet[y] # PieceOutlet[z]
  BY <1>1, <1>6, <1>7, OutletsApart
<1>. QED
  BY <1>4, <1>6, <1>8 DEF as, groups

LEMMA CommonHeld ==
  ASSUME NEW b, BundleRead(b), CommonGround(b) = "all"
  PROVE  LET borne == {a \in b.articles : \E e \in b.synthesis.common.evidence :
                         e.article = a /\ Intact(b, a) /\ e.anchor \in b.profile[a].evidence}
         IN Cardinality(borne) >= b.count /\ (b.count >= Cardinality(b.articles) => borne = b.articles)
<1> DEFINE told0 == {e.article : e \in Bounded(b, b.synthesis.common.evidence)}
           borne == {a \in b.articles : \E e \in b.synthesis.common.evidence :
                       e.article = a /\ Intact(b, a) /\ e.anchor \in b.profile[a].evidence}
<1>1. Cardinality(told0) >= b.count
  BY DEF CommonGround
<1>2. told0 \subseteq borne /\ borne \subseteq b.articles
  BY DEF Bounded, EvidenceValid, Intact
<1>3. IsFiniteSet(b.articles) /\ b.count \in Nat
  BY ActiveSnapshotAssumption, FS_Subset DEF BundleRead
<1>4. Cardinality(told0) <= Cardinality(borne) /\ Cardinality(borne) <= Cardinality(b.articles)
      /\ Cardinality(told0) \in Nat /\ Cardinality(borne) \in Nat /\ Cardinality(b.articles) \in Nat
  <2> HIDE DEF borne, told0
  <2>1. IsFiniteSet(borne)
    BY <1>2, <1>3, FS_Subset
  <2>. QED
    BY <1>2, <1>3, <2>1, FS_Subset, FS_CardinalityType
<1>5. b.count >= Cardinality(b.articles) => borne = b.articles
  <2> HIDE DEF borne, told0
  <2>1. SUFFICES ASSUME b.count >= Cardinality(b.articles) PROVE borne = b.articles
    OBVIOUS
  <2>2. Cardinality(borne) = Cardinality(b.articles)
    BY <1>1, <1>3, <1>4, <2>1
  <2>. QED
    BY <1>2, <1>3, <2>2, FS_Subset
<1>6. Cardinality(borne) >= b.count
  <2> HIDE DEF borne, told0
  <2>. QED
    BY <1>1, <1>3, <1>4
<1>. QED
  BY <1>5, <1>6

\* Where nothing is told twice, a page's first of each are all.
LEMMA NoDoubles ==
  ASSUME NEW b, BundleRead(b), NEW a \in b.articles, NEW d, PlainlyTold(b, a, d)
  PROVE  ByClaim(ItemsIn(b, a, d)) = ItemsIn(b, a, d) /\ ByFamily(ItemsIn(b, a, d)) = ItemsIn(b, a, d)
<1> DEFINE is == ItemsIn(b, a, d)
<1>1. \A i, j \in is : SameItem(i, j) => i = j
  BY DEF PlainlyTold
<1>2. \A i \in is : i.n \in Nat
  BY DEF BundleRead, ItemsIn
<1> HIDE DEF is
<1>3. \A i, j \in is : ~(j.n < i.n /\ SameItem(i, j))
  BY <1>1, <1>2
<1>4. ByClaim(is) = is /\ ByFamily(is) = is
  BY <1>3 DEF ByClaim, ByFamily
<1>. QED
  BY <1>4 DEF is

\* An article whose items of a layer are plainly told is counted by both pages or by none.
LEMMA LedgerAgrees ==
  ASSUME NEW b, BundleRead(b), NEW d, NEW a \in b.articles, PlainlyTold(b, a, d), NEW voices
  PROVE  a \in LedgerArticles(b, d, voices) <=> a \in {r.article : r \in ObservationsFor(b, d, voices)}
<1> DEFINE is == ItemsIn(b, a, d)
           both(i) == Eligible(b, a) /\ i.voice \in voices /\ i.anchor \in b.profile[a].evidence
<1>1. ByClaim(is) = is /\ ByFamily(is) = is
  BY NoDoubles
<1>2. \A i \in is : /\ i.state \in {"supported", "pending", "unset"} /\ i.says # Wordless
                    /\ PlacedWhole(i.anchor) /\ PlacedHalf(i.anchor)
  BY DEF PlainlyTold, PlacedWhole, PlacedHalf
<1>3. a \in LedgerArticles(b, d, voices) <=> \E i \in is : both(i)
  <2>1. ASSUME a \in LedgerArticles(b, d, voices) PROVE \E i \in is : both(i)
    <3>1. PICK r \in LedgerRows(b, d) : r.article = a /\ r.item.voice \in voices
      BY <2>1 DEF LedgerArticles
    <3>2. PICK c \in b.articles : r \in {[article |-> c, item |-> i] :
             i \in {j \in ByFamily(ItemsIn(b, c, d)) : /\ ~StateOnly(b, c, j) /\ PlacedHalf(j.anchor)
                                                         /\ j.anchor \in b.profile[c].evidence}}
      BY DEF LedgerRows
    <3>3. PICK i \in ByFamily(ItemsIn(b, c, d)) : /\ r = [article |-> c, item |-> i] /\ ~StateOnly(b, c, i)
                                                  /\ i.anchor \in b.profile[c].evidence
      BY <3>2
    <3>4. c = a /\ r.item = i
      BY <3>1, <3>3
    <3>. QED
      BY <1>1, <3>1, <3>3, <3>4 DEF StateOnly
  <2>2. ASSUME NEW i \in is, both(i) PROVE a \in LedgerArticles(b, d, voices)
    <3>1. i \in ByFamily(is) /\ ~StateOnly(b, a, i) /\ PlacedHalf(i.anchor) /\ i.anchor \in b.profile[a].evidence
      BY <1>1, <1>2, <2>2 DEF StateOnly
    <3>2. [article |-> a, item |-> i] \in LedgerRows(b, d)
      BY <3>1 DEF LedgerRows
    <3>. QED
      BY <2>2, <3>2 DEF LedgerArticles
  <2>. QED
    BY <2>1, <2>2
<1>4. a \in {r.article : r \in ObservationsFor(b, d, voices)} <=> \E i \in is : both(i)
  <2>1. ASSUME a \in {r.article : r \in ObservationsFor(b, d, voices)} PROVE \E i \in is : both(i)
    <3>1. PICK r \in ObservationsFor(b, d, voices) : r.article = a
      BY <2>1
    <3>2. PICK c \in {x \in b.articles : Eligible(b, x)} : r \in {[article |-> c, says |-> i.says] :
             i \in {j \in ByClaim(ItemsIn(b, c, d)) :
                      /\ j.state # "blocked" /\ j.voice \in voices /\ j.says # Wordless
                      /\ PlacedWhole(j.anchor) /\ j.anchor \in b.profile[c].evidence}}
      BY DEF ObservationsFor
    <3>3. PICK i \in ByClaim(ItemsIn(b, c, d)) : /\ r = [article |-> c, says |-> i.says] /\ i.voice \in voices
                                                 /\ i.anchor \in b.profile[c].evidence
      BY <3>2
    <3>. QED
      BY <1>1, <3>1, <3>2, <3>3
  <2>2. ASSUME NEW i \in is, both(i) PROVE a \in {r.article : r \in ObservationsFor(b, d, voices)}
    <3>1. [article |-> a, says |-> i.says] \in ObservationsFor(b, d, voices)
      BY <1>1, <1>2, <2>2 DEF ObservationsFor
    <3>. QED
      BY <3>1
  <2>. QED
    BY <2>1, <2>2
<1>. QED
  BY <1>3, <1>4

LEMMA PrimaryOf ==
  ASSUME NEW b, NEW target, PrimaryLayer(b, target) # 0
  PROVE  PrimaryLayer(b, target) \in CompareLayers /\ LayerComparison(b, PrimaryLayer(b, target)).status = target
<1> DEFINE fit == {d \in CompareLayers : LayerComparison(b, d).status = target}
<1>1. fit # {}
  BY DEF PrimaryLayer
<1>2. fit \in SUBSET Nat /\ IsFiniteSet(fit)
  BY ComparisonSummaryAssumption, FS_Subset
<1>3. \E d \in fit : \A e \in fit : d <= e
  <2> HIDE DEF fit
  <2>. QED
    BY <1>1, <1>2, EndsOf
<1>4. PrimaryLayer(b, target) \in fit
  <2>1. PrimaryLayer(b, target) = IF b.synthesis.primary \in fit THEN b.synthesis.primary
                                  ELSE CHOOSE d \in fit : \A e \in fit : d <= e
    BY <1>1 DEF PrimaryLayer
  <2> HIDE DEF fit
  <2>. QED
    BY <1>3, <2>1
<1>. QED
  BY <1>4

\* The comparison drawn from a bundle as it is read is founded on it.
LEMMA SummaryRight ==
  ASSUME NEW b, BundleRead(b), summary = SummaryOf(b)
  PROVE  SummaryFounded
<1> DEFINE layers == [d \in CompareLayers |-> LayerComparison(b, d)]
           chosen == PrimaryLayer(b, ResultStatus(b))
           groups == IF chosen # 0 THEN layers[chosen].groups ELSE UNION {layers[d].groups : d \in CompareLayers}
<1>1. /\ summary.status = (IF ResultStatus(b) = "difference_confirmed" /\ chosen = 0 THEN "held_for_analysis" ELSE ResultStatus(b))
      /\ summary.bundle = b /\ summary.layer = chosen /\ summary.layers = layers /\ summary.groups = groups
      /\ summary.first = Representatives(groups) /\ summary.remaining = RemainingGroups(groups)
      /\ summary.common = CommonGround(b)
  BY DEF SummaryOf
<1>2. chosen # 0 => chosen \in CompareLayers /\ LayerComparison(b, chosen).status = ResultStatus(b)
  BY PrimaryOf
<1>3. GroupsRead(groups) /\ \A g \in groups : g.articles \subseteq b.articles
  <2>1. \A d \in CompareLayers : GroupsRead(layers[d].groups) /\ \A g \in layers[d].groups : g.articles \subseteq b.articles
    BY LayerGroups
  <2>2. CASE chosen # 0
    BY <1>2, <2>1, <2>2
  <2>3. CASE chosen = 0
    <3> DEFINE each == [d \in CompareLayers |-> layers[d].groups]
               eachs == {each[d] : d \in CompareLayers}
    <3>1. groups = UNION eachs
      BY <2>3
    <3>2. IsFiniteSet(eachs)
      <4> HIDE DEF each
      <4>. QED
        BY ComparisonSummaryAssumption, ImageOf
    <3>3. \A T \in eachs : GroupsRead(T) /\ \A g \in T : g.articles \subseteq b.articles
      BY <2>1
    <3>4. IsFiniteSet(groups)
      <4> HIDE DEF eachs, groups
      <4>. QED
        BY <3>1, <3>2, <3>3, FS_UNION DEF GroupsRead
    <3> HIDE DEF eachs, groups
    <3>. QED
      BY <3>1, <3>3, <3>4 DEF GroupsRead
  <2>. QED
    BY <2>2, <2>3
<1>4. summary.status = "difference_confirmed" =>
        LET as == UNION {g.articles : g \in Differing(summary.layers[summary.layer].groups)}
        IN \E x, y \in as : PieceOutlet[x] # PieceOutlet[y] /\ TrulyNarrated(b, x) /\ TrulyNarrated(b, y)
  <2>1. SUFFICES ASSUME ResultStatus(b) = "difference_confirmed", chosen # 0
                 PROVE  LET as == UNION {g.articles : g \in Differing(layers[chosen].groups)}
                        IN \E x, y \in as : PieceOutlet[x] # PieceOutlet[y] /\ TrulyNarrated(b, x) /\ TrulyNarrated(b, y)
    <3> HIDE DEF layers, chosen, groups
    <3>. QED
      BY <1>1
  <2>2. layers[chosen].groups = LayerComparison(b, chosen).groups
    BY <1>2, <2>1
  <2>3. chosen \in CompareLayers /\ LayerComparison(b, chosen).status = "difference_confirmed"
    BY <1>2, <2>1
  <2> HIDE DEF chosen, layers
  <2>. QED
    BY <2>2, <2>3, LayerTold
<1>5. summary.status = "no_clear_difference" =>
        \A d \in CompareLayers : summary.layers[d].status # "difference_confirmed"
  <2>1. SUFFICES ASSUME ResultStatus(b) = "no_clear_difference", NEW d \in CompareLayers,
                        LayerComparison(b, d).status = "difference_confirmed"
                 PROVE  FALSE
    BY <1>1
  <2>2. Publishable(b) /\ b.synthesis.status = "no_clear_difference"
    BY <2>1 DEF ResultStatus
  <2> DEFINE as == UNION {g.articles : g \in Differing(LayerComparison(b, d).groups)}
  <2>3. /\ \E y, z \in as : PieceOutlet[y] # PieceOutlet[z]
        /\ \E x \in b.synthesis.dimensions : as \subseteq NarratedIn(x, DifferenceRelations)
    BY <2>1, LayerTold
  <2> HIDE DEF as
  <2>4. PICK x \in b.synthesis.dimensions : \E y, z \in NarratedIn(x, DifferenceRelations) : PieceOutlet[y] # PieceOutlet[z]
    BY <2>3
  <2>5. \A p \in x.points : PointBound(b, p)
    BY <2>2 DEF Publishable
  <2>6. CrossOutlet({x}, DifferenceRelations)
    BY <2>4, <2>5, NarratedApart
  <2>7. CrossOutlet(b.synthesis.dimensions, DifferenceRelations)
    BY <2>6, Zenon DEF CrossOutlet, NarratedDimensions
  <2>. QED
    BY <2>2, <2>7 DEF Publishable
<1>6. Cardinality(OutletsShown(groups)) <= ShownGroups /\ Cardinality(b.articles) <= MostArticles
        => OutletsShown(groups) = OutletsShown(Representatives(groups))
  <2>1. SUFFICES ASSUME Cardinality(OutletsShown(groups)) <= ShownGroups, Cardinality(b.articles) <= MostArticles
                 PROVE  OutletsShown(groups) = OutletsShown(Representatives(groups))
    OBVIOUS
  <2>2. IsFiniteSet(b.articles)
    BY ActiveSnapshotAssumption, FS_Subset DEF BundleRead
  <2> HIDE DEF groups
  <2>3. \A g \in groups : Cardinality(g.articles) <= MostArticles
    <3>1. SUFFICES ASSUME NEW g \in groups PROVE Cardinality(g.articles) <= MostArticles
      OBVIOUS
    <3>2. Cardinality(g.articles) <= Cardinality(b.articles) /\ Cardinality(b.articles) \in Nat /\ Cardinality(g.articles) \in Nat
      BY <1>3, <2>2, FS_Subset, FS_CardinalityType
    <3>. QED
      BY <2>1, <3>2 DEF MostArticles
  <2>. QED
    BY <1>3, <2>1, <2>3, OutletsCovered
<1>7. (\A g, h \in groups : g.says = h.says => g = h) => RemainingGroups(groups) = groups \ Representatives(groups)
  <2> HIDE DEF groups
  <2>1. Representatives(groups) \subseteq groups
    <3>1. PICK f \in [0 .. ShownGroups -> SUBSET groups] : Representatives(groups) = f[ShownGroups]
      BY <1>3, PickedOneByOne
    <3>2. ShownGroups \in 0 .. ShownGroups
      BY ComparisonSummaryAssumption
    <3>. QED
      BY <3>1, <3>2
  <2>. QED
    BY <2>1 DEF RemainingGroups
<1>8. CommonGround(b) = "all" =>
        LET borne == {a \in b.articles : \E e \in b.synthesis.common.evidence :
                        e.article = a /\ Intact(b, a) /\ e.anchor \in b.profile[a].evidence}
        IN Cardinality(borne) >= b.count /\ (b.count >= Cardinality(b.articles) => borne = b.articles)
  BY CommonHeld
<1>9. \A d \in CompareLayers, a \in b.articles : PlainlyTold(b, a, d) =>
        (a \in LedgerArticles(b, d, {"journalist_narration"})
           <=> a \in {r.article : r \in ObservationsFor(b, d, {"journalist_narration"})})
  BY LedgerAgrees
<1> HIDE DEF layers, chosen, groups
<1>. QED
  BY <1>1, <1>4, <1>5, <1>6, <1>7, <1>8, <1>9 DEF SummaryFounded

LEMMA SummaryKept == SnapshotInv => SummaryFounded
<1>1. SUFFICES ASSUME SnapshotInv, summary # NoSummary PROVE SummaryFounded
  BY DEF SummaryFounded
<1>2. PICK b : BundleRead(b) /\ summary = SummaryOf(b)
  BY <1>1, Zenon DEF SnapshotInv
<1>. QED
  BY <1>2, SummaryRight

----------------------------------------------------------------------------
(* IssueView: the pages of a day                                            *)

ViewInv ==
  /\ coded \in [Writings -> Codings]
  /\ dayView = NoDayView \/ dayView = deriveDay

\* What is derived from the files stays while they stay.
LEMMA ViewFrame ==
  ASSUME coded' = coded
  PROVE  deriveDay' = deriveDay
<1>1. \A a : Usable(a)' <=> Usable(a)
  BY DEF Usable
<1>2. \A a, d : CodedRows(a, d)' = CodedRows(a, d)
  BY <1>1 DEF CodedRows
<1>3. \A a, d : Items(a, d)' = Items(a, d)
  BY <1>2 DEF Items
<1>4. \A a, d : OwnItems(a, d)' = OwnItems(a, d)
  BY <1>2, <1>3 DEF OwnItems
<1>5. \A a, d, ks : FamilyOf(a, d, ks)' = FamilyOf(a, d, ks)
  BY <1>2 DEF FamilyOf
<1>6. \A basis, a, d : Family(basis, a, d)' = Family(basis, a, d)
  BY <1>3, <1>4, <1>5 DEF Family
<1>7. \A basis, i, o, d : Lead(basis, i, o, d)' = Lead(basis, i, o, d)
  <2>1. SUFFICES ASSUME NEW basis, NEW i, NEW o, NEW d PROVE Lead(basis, i, o, d)' = Lead(basis, i, o, d)
    OBVIOUS
  <2>2. [a \in ByWriter(i, o) |-> Family(basis, a, d)]' = [a \in ByWriter(i, o) |-> Family(basis, a, d)]
    BY <1>6
  <2>. QED
    BY <2>2 DEF Lead
<1>8. \A basis, i, d : LeadKinds(basis, i, d)' = LeadKinds(basis, i, d)
  BY <1>7 DEF LeadKinds
<1>9. \A i, d : FamilyIn(i, d)' = FamilyIn(i, d)
  BY <1>6 DEF FamilyIn
<1>10. \A i, d, f : PoleText(i, d, f)' = PoleText(i, d, f)
  BY DEF PoleText
<1>11. \A i, d : Spectrum(i, d)' = Spectrum(i, d)
  <2>1. \A i, d : OwnWriters(i, d)' = OwnWriters(i, d)
    BY <1>4 DEF OwnWriters
  <2>2. \A i, d, family, left, right : Axis(i, d, family, left, right)' = Axis(i, d, family, left, right)
    <3>1. SUFFICES ASSUME NEW i, NEW d, NEW family, NEW left, NEW right
                   PROVE  Axis(i, d, family, left, right)' = Axis(i, d, family, left, right)
      OBVIOUS
    <3> DEFINE Own(o, f) == Cardinality(Carrying(family, f) \cap ByWriter(i, o))
               marked == {o \in Writers(i) : Own(o, left) + Own(o, right) > 0}
               marks(voiced) == {[outlet |-> o, left |-> Own(o, left), right |-> Own(o, right), narrated |-> o \in voiced] :
                                   o \in marked}
               axis(text1, text2, told1) ==
                 [layer |-> d, left |-> Carrying(family, left), right |-> Carrying(family, right),
                  texts |-> <<text1, text2>>, marks |-> told1, unobserved |-> Writers(i) \ marked]
    <3>2. Axis(i, d, family, left, right) = axis(PoleText(i, d, left), PoleText(i, d, right), marks(OwnWriters(i, d)))
      BY DEF Axis
    <3>3. Axis(i, d, family, left, right)' = axis(PoleText(i, d, left)', PoleText(i, d, right)', marks(OwnWriters(i, d)'))
      BY DEF Axis
    <3> HIDE DEF axis, marks
    <3>. QED
      BY <1>10, <2>1, <3>2, <3>3
  <2>. QED
    BY <1>9, <2>2 DEF Spectrum
<1>12. \A i, d, state : LayerItems(i, d, state)' = LayerItems(i, d, state)
  BY <1>1, <1>2 DEF LayerItems
<1>13. \A i, items, d : LayerKinds(i, items, d)' = LayerKinds(i, items, d)
  <2>1. \A items, o, d : LayerLead(items, o, d)' = LayerLead(items, o, d)
    <3>1. SUFFICES ASSUME NEW items, NEW o, NEW d PROVE LayerLead(items, o, d)' = LayerLead(items, o, d)
      OBVIOUS
    <3>2. [x \in {y \in items : WriterOf[y[1]] = o} |-> CodedRows(x[1], d)[x[2]].family]'
            = [x \in {y \in items : WriterOf[y[1]] = o} |-> CodedRows(x[1], d)[x[2]].family]
      BY <1>2
    <3>. QED
      BY <3>2 DEF LayerLead
  <2>. QED
    BY <2>1 DEF LayerKinds
<1>14. \A i, d : Layer(i, d)' = Layer(i, d)
  BY <1>1, <1>2, <1>12, <1>13 DEF Layer
<1>15. \A basis, a : Signature(basis, a)' = Signature(basis, a)
  BY <1>6 DEF Signature
<1>16. \A basis, i : Combinations(basis, i)' = Combinations(basis, i)
  <2>1. SUFFICES ASSUME NEW basis, NEW i PROVE Combinations(basis, i)' = Combinations(basis, i)
    OBVIOUS
  <2>2. [a \in IssueWritings[i] |-> Signature(basis, a)]' = [a \in IssueWritings[i] |-> Signature(basis, a)]
    BY <1>15
  <2>. QED
    BY <2>2 DEF Combinations
<1>17. \A i, d : Basis(i, d)' = Basis(i, d)
  <2>1. SUFFICES ASSUME NEW i, NEW d PROVE Basis(i, d)' = Basis(i, d)
    OBVIOUS
  <2>2. [a \in IssueWritings[i] |-> Cardinality(OwnItems(a, d))]' = [a \in IssueWritings[i] |-> Cardinality(OwnItems(a, d))]
    BY <1>4
  <2>3. [a \in IssueWritings[i] |-> Cardinality(Items(a, d) \ OwnItems(a, d))]'
          = [a \in IssueWritings[i] |-> Cardinality(Items(a, d) \ OwnItems(a, d))]
    BY <1>3, <1>4
  <2>. QED
    BY <1>8, <2>2, <2>3 DEF Basis
<1>18. \A i : MostSplit(i)' = MostSplit(i)
  BY <1>8 DEF MostSplit
<1>19. \A i : deriveIssue(i)' = deriveIssue(i)
  BY <1>11, <1>14, <1>16, <1>17, <1>18 DEF deriveIssue
<1>. QED
  BY <1>8, <1>19 DEF deriveDay

LEMMA ViewInvInit == ViewInit => ViewInv
<1>1. (CHOOSE c \in Codings : c.status = "absent") \in Codings
  BY IssueViewAssumption
<1>. QED
  BY <1>1 DEF ViewInit, ViewInv

LEMMA ViewInvStep == ViewInv /\ [ViewNext]_viewVars => ViewInv'
<1>1. SUFFICES ASSUME ViewInv, [ViewNext]_viewVars PROVE ViewInv'
  OBVIOUS
<1>2. CASE UNCHANGED viewVars
  BY <1>1, <1>2, ViewFrame DEF ViewInv, viewVars
<1>3. ASSUME NEW a \in Writings, Recode(a) PROVE ViewInv'
  <2>1. PICK c \in Codings : coded' = [coded EXCEPT ![a] = c]
    BY <1>3 DEF Recode
  <2>. QED
    BY <1>1, <1>3, <2>1 DEF Recode, ViewInv
<1>4. CASE RenderDay
  BY <1>1, <1>4, ViewFrame DEF RenderDay, ViewInv
<1>5. CASE LeaveDay
  BY <1>1, <1>5 DEF LeaveDay, ViewInv
<1>. QED
  BY <1>1, <1>2, <1>3, <1>4, <1>5 DEF ViewNext

\* The leading family of an article is that of a sentence of its file.
LEMMA FamilyFound ==
  ASSUME coded \in [Writings -> Codings], NEW a \in Writings, NEW d \in FrameLayers
  PROVE  /\ \A basis : Family(basis, a, d) \in 0 .. 9
         /\ \A basis : Family(basis, a, d) # 0 => SaidIn(a, d, Family(basis, a, d), FALSE)
         /\ Family("narrated", a, d) # 0 => SaidIn(a, d, Family("narrated", a, d), TRUE)
         /\ Family("all", a, d) # 0 <=> Items(a, d) # {}
         /\ Family("narrated", a, d) # 0 <=> OwnItems(a, d) # {}
<1> DEFINE rows == coded[a].rows[d]
<1>1. CodingRead(coded[a])
  BY IssueViewAssumption
<1>2. /\ Len(rows) \in Nat /\ DOMAIN rows = 1 .. Len(rows)
      /\ \A k \in DOMAIN rows : rows[k].family \in 1 .. 9
  BY <1>1 DEF CodingRead
<1>3. /\ Items(a, d) \subseteq 1 .. Len(rows)
      /\ Items(a, d) # {} => Usable(a)
      /\ \A k \in Items(a, d) : rows[k].bound
  <2>1. CASE Usable(a)
    <3>1. CodedRows(a, d) = rows
      BY <2>1 DEF CodedRows
    <3> HIDE DEF rows
    <3>. QED
      BY <1>2, <2>1, <3>1 DEF Items, FoldClaims
  <2>2. CASE ~Usable(a)
    <3>1. Items(a, d) = {}
      BY <2>2 DEF Items, FoldClaims, CodedRows
    <3>. QED
      BY <3>1
  <2>. QED
    BY <2>1, <2>2
<1>4. OwnItems(a, d) \subseteq Items(a, d)
  BY DEF OwnItems
<1>5. ASSUME NEW ks \in SUBSET Items(a, d), ks # {}
      PROVE  /\ Earliest(ks) \in ks /\ FamilyOf(a, d, ks) = rows[Earliest(ks)].family
             /\ FamilyOf(a, d, ks) \in 1 .. 9 /\ FamilyOf(a, d, ks) \in 0 .. 9 /\ FamilyOf(a, d, ks) # 0
             /\ SaidIn(a, d, FamilyOf(a, d, ks), FALSE)
             /\ ks \subseteq OwnItems(a, d) => SaidIn(a, d, FamilyOf(a, d, ks), TRUE)
  <2>1. \E k \in ks : \A j \in ks : k <= j
    <3>1. ks \in SUBSET (0 .. Len(rows)) /\ Len(rows) \in Nat
      BY <1>2, <1>3, <1>5
    <3> HIDE DEF rows
    <3>. QED
      BY <1>5, <3>1, LeastUpTo
  <2>2. Earliest(ks) \in ks
    BY <2>1 DEF Earliest
  <2>3. Usable(a) /\ CodedRows(a, d) = rows
    BY <1>3, <1>5 DEF CodedRows
  <2>4. FamilyOf(a, d, ks) = rows[Earliest(ks)].family
    BY <1>5, <2>3 DEF FamilyOf
  <2>5. Earliest(ks) \in DOMAIN rows /\ rows[Earliest(ks)].bound
    BY <1>2, <1>3, <1>5, <2>2
  <2>6. ks \subseteq OwnItems(a, d) => rows[Earliest(ks)].voice = "journalist_narration"
    BY <2>2, <2>3 DEF OwnItems
  <2>7. FamilyOf(a, d, ks) \in 1 .. 9 /\ FamilyOf(a, d, ks) \in 0 .. 9 /\ FamilyOf(a, d, ks) # 0
    BY <1>2, <2>4, <2>5
  <2>8. coded[a].status = "succeeded" /\ ~coded[a].blocked
    BY <2>3 DEF Usable
  <2>9. SaidIn(a, d, FamilyOf(a, d, ks), FALSE)
    BY <2>4, <2>5, <2>8 DEF SaidIn
  <2>10. ks \subseteq OwnItems(a, d) => SaidIn(a, d, FamilyOf(a, d, ks), TRUE)
    BY <2>4, <2>5, <2>6, <2>8 DEF SaidIn
  <2>. QED
    BY <2>2, <2>4, <2>7, <2>9, <2>10
<1>6. FamilyOf(a, d, {}) = 0 /\ 0 \in 0 .. 9
  BY DEF FamilyOf
<1>7. \A basis : Family(basis, a, d) = FamilyOf(a, d, IF basis = "narrated" THEN OwnItems(a, d) ELSE Items(a, d))
  BY DEF Family
<1>8. Family("narrated", a, d) = FamilyOf(a, d, OwnItems(a, d)) /\ Family("all", a, d) = FamilyOf(a, d, Items(a, d))
  BY DEF Family
<1> HIDE DEF rows
<1>9. \A basis : /\ Family(basis, a, d) \in 0 .. 9
                 /\ Family(basis, a, d) # 0 => SaidIn(a, d, Family(basis, a, d), FALSE)
  <2>1. SUFFICES ASSUME NEW basis
                 PROVE  /\ Family(basis, a, d) \in 0 .. 9
                        /\ Family(basis, a, d) # 0 => SaidIn(a, d, Family(basis, a, d), FALSE)
    OBVIOUS
  <2>2. PICK ks \in SUBSET Items(a, d) : Family(basis, a, d) = FamilyOf(a, d, ks)
    BY <1>4, <1>7
  <2>3. CASE ks = {}
    BY <1>6, <2>2, <2>3, Zenon
  <2>4. CASE ks # {}
    BY <1>5, <2>2, <2>4, Zenon
  <2>. QED
    BY <2>3, <2>4
<1>10. (Family("narrated", a, d) # 0 => SaidIn(a, d, Family("narrated", a, d), TRUE))
         /\ (Family("narrated", a, d) # 0 <=> OwnItems(a, d) # {})
  <2>1. CASE OwnItems(a, d) = {}
    BY <1>6, <1>8, <2>1
  <2>2. CASE OwnItems(a, d) # {}
    BY <1>4, <1>5, <1>8, <2>2, Zenon
  <2>. QED
    BY <2>1, <2>2
<1>11. Family("all", a, d) # 0 <=> Items(a, d) # {}
  <2>1. CASE Items(a, d) = {}
    BY <1>6, <1>8, <2>1
  <2>2. CASE Items(a, d) # {}
    <3>1. Items(a, d) \in SUBSET Items(a, d)
      OBVIOUS
    <3>. QED
      BY <1>5, <1>8, <2>2, <3>1, Zenon
  <2>. QED
    BY <2>1, <2>2
<1>. QED
  BY <1>9, <1>10, <1>11

\* The most frequent of some families is one of them.
LEMMA MostFrequentOf ==
  ASSUME NEW family, IsFiniteSet(DOMAIN family), NEW fs \in SUBSET Nat, IsFiniteSet(fs), fs # {}
  PROVE  MostFrequent(family, fs) \in fs
<1> DEFINE n(f) == Cardinality(Carrying(family, f))
           ahead(f, g) == n(f) > n(g) \/ (n(f) = n(g) /\ f <= g)
           R == {p \in fs \X fs : ahead(p[1], p[2])}
<1>1. \A f \in fs : n(f) \in Nat /\ f \in Nat
  <2>1. \A f : IsFiniteSet(Carrying(family, f))
    BY FS_Subset DEF Carrying
  <2>. QED
    BY <2>1, FS_CardinalityType
<1>2. \A f, g \in fs : <<f, g>> \in R <=> ahead(f, g)
  OBVIOUS
<1> HIDE DEF n
<1>3. \A f, g \in fs : ahead(f, g) \/ ahead(g, f)
  BY <1>1
<1>4. \A f, g, h \in fs : ahead(f, g) /\ ahead(g, h) => ahead(f, h)
  BY <1>1
<1>5. \E f \in fs : \A g \in fs : <<f, g>> \in R
  <2> HIDE DEF R, ahead
  <2>. QED
    BY <1>2, <1>3, <1>4, TopOf
<1>6. \E f \in fs : \A g \in fs : ahead(f, g)
  BY <1>2, <1>5
<1>. QED
  BY <1>6 DEF MostFrequent, n

LEMMA ModeOf ==
  ASSUME NEW family, IsFiniteSet(DOMAIN family), \A k \in DOMAIN family : family[k] \in Nat
  PROVE  /\ Occurring(family) \in SUBSET Nat /\ IsFiniteSet(Occurring(family))
         /\ ModeFamily(family) # 0 <=> Occurring(family) # {}
         /\ ModeFamily(family) # 0 => \E k \in DOMAIN family : family[k] = ModeFamily(family)
<1>1. Occurring(family) \in SUBSET Nat /\ 0 \notin Occurring(family)
  BY DEF Occurring
<1>2. IsFiniteSet(Occurring(family))
  <2> DEFINE S == DOMAIN family
  <2>1. IsFiniteSet({family[k] : k \in S})
    <3> HIDE DEF S
    <3>1. IsFiniteSet(S)
      BY DEF S
    <3>. QED
      BY <3>1, ImageOf
  <2>2. Occurring(family) \in SUBSET {family[k] : k \in S}
    BY DEF Occurring
  <2> HIDE DEF S
  <2>. QED
    BY <2>1, <2>2, FS_Subset
<1>3. CASE Occurring(family) = {}
  BY <1>1, <1>2, <1>3 DEF ModeFamily
<1>4. CASE Occurring(family) # {}
  <2>1. ModeFamily(family) \in Occurring(family)
    BY <1>1, <1>2, <1>4, MostFrequentOf DEF ModeFamily
  <2>. QED
    BY <1>1, <1>2, <1>4, <2>1 DEF Occurring
<1>. QED
  BY <1>3, <1>4

LEMMA WritingsOf ==
  ASSUME NEW i \in DOMAIN IssueWritings
  PROVE  /\ IsFiniteSet(IssueWritings[i]) /\ IssueWritings[i] \subseteq Writings
         /\ \A o : IsFiniteSet(ByWriter(i, o)) /\ ByWriter(i, o) \subseteq IssueWritings[i]
         /\ IsFiniteSet(Writers(i))
<1>1. IsFiniteSet(IssueWritings[i]) /\ IssueWritings[i] \subseteq Writings
  BY IssueViewAssumption, FS_Subset
<1>2. \A o : IsFiniteSet(ByWriter(i, o)) /\ ByWriter(i, o) \subseteq IssueWritings[i]
  BY <1>1, FS_Subset DEF ByWriter
<1>3. IsFiniteSet(Writers(i))
  BY <1>1, ImageOf DEF Writers
<1>. QED
  BY <1>1, <1>2, <1>3

\* What an outlet leads with is the family of one of its articles; the kinds of a layer are few.
LEMMA LeadFound ==
  ASSUME coded \in [Writings -> Codings], NEW i \in DOMAIN IssueWritings, NEW d \in FrameLayers, NEW basis
  PROVE  /\ \A o : Lead(basis, i, o, d) # 0 => \E a \in ByWriter(i, o) : Family(basis, a, d) = Lead(basis, i, o, d)
         /\ IsFiniteSet(LeadKinds(basis, i, d)) /\ Cardinality(LeadKinds(basis, i, d)) \in Nat
<1>1. \A o : Lead(basis, i, o, d) # 0 => \E a \in ByWriter(i, o) : Family(basis, a, d) = Lead(basis, i, o, d)
  <2>1. SUFFICES ASSUME NEW o, Lead(basis, i, o, d) # 0
                 PROVE  \E a \in ByWriter(i, o) : Family(basis, a, d) = Lead(basis, i, o, d)
    OBVIOUS
  <2> DEFINE family == [a \in ByWriter(i, o) |-> Family(basis, a, d)]
  <2>2. ByWriter(i, o) \subseteq Writings /\ IsFiniteSet(ByWriter(i, o))
    BY WritingsOf
  <2>3. \A a \in ByWriter(i, o) : family[a] \in Nat
    <3>1. \A a \in ByWriter(i, o) : family[a] \in 0 .. 9
      <4>1. \A a \in ByWriter(i, o) : a \in Writings /\ family[a] = Family(basis, a, d)
        BY <2>2
      <4> HIDE DEF family
      <4>. QED
        BY <4>1, FamilyFound, Zenon
    <3>. QED
      BY <3>1
  <2>4. Lead(basis, i, o, d) = ModeFamily(family) /\ DOMAIN family = ByWriter(i, o)
    BY DEF Lead
  <2> HIDE DEF family
  <2>5. \E a \in ByWriter(i, o) : family[a] = ModeFamily(family)
    BY <2>1, <2>2, <2>3, <2>4, ModeOf
  <2>. QED
    BY <2>4, <2>5 DEF family
<1>2. IsFiniteSet(LeadKinds(basis, i, d))
  <2> DEFINE lead == [o \in Writers(i) |-> Lead(basis, i, o, d)]
  <2>1. LeadKinds(basis, i, d) \subseteq {lead[o] : o \in Writers(i)}
    BY DEF LeadKinds
  <2> HIDE DEF lead
  <2>2. IsFiniteSet({lead[o] : o \in Writers(i)})
    BY WritingsOf, ImageOf
  <2>. QED
    BY <2>1, <2>2, FS_Subset
<1>. QED
  BY <1>1, <1>2, FS_CardinalityType

\* A layer of two kinds is told in two families by two outlets themselves.
LEMMA SplitTold ==
  ASSUME coded \in [Writings -> Codings], NEW i \in DOMAIN IssueWritings, NEW d \in FrameLayers,
         Cardinality(LeadKinds("narrated", i, d)) >= 2
  PROVE  \E a, b \in IssueWritings[i] : \E f, g \in 1 .. 9 :
           WriterOf[a] # WriterOf[b] /\ f # g /\ SaidIn(a, d, f, TRUE) /\ SaidIn(b, d, g, TRUE)
<1> DEFINE kinds == LeadKinds("narrated", i, d)
<1>1. \E f, g \in kinds : f # g
  <2>1. IsFiniteSet(kinds) /\ Cardinality(kinds) >= 2
    BY LeadFound
  <2> HIDE DEF kinds
  <2>. QED
    BY <2>1, TwoOf
<1>2. PICK f, g \in kinds : f # g
  BY <1>1
<1>3. ASSUME NEW h \in kinds
      PROVE  h \in 1 .. 9 /\ \E o \in Writers(i) : Lead("narrated", i, o, d) = h
                          /\ \E a \in ByWriter(i, o) : SaidIn(a, d, h, TRUE)
  <2>1. PICK o \in Writers(i) : Lead("narrated", i, o, d) = h /\ h # 0
    BY DEF LeadKinds
  <2>2. PICK a \in ByWriter(i, o) : Family("narrated", a, d) = h
    BY <2>1, LeadFound
  <2>3. a \in Writings
    BY WritingsOf
  <2>4. h \in 0 .. 9 /\ SaidIn(a, d, h, TRUE)
    BY <2>1, <2>2, <2>3, FamilyFound, Zenon
  <2>5. h \in 1 .. 9
    <3>1. h \in 0 .. 9 /\ h # 0
      BY <2>1, <2>4
    <3>. QED
      BY <3>1
  <2>. QED
    BY <2>1, <2>2, <2>4, <2>5, Zenon
<1> HIDE DEF kinds
<1>4. PICK o \in Writers(i) : Lead("narrated", i, o, d) = f /\ \E a \in ByWriter(i, o) : SaidIn(a, d, f, TRUE)
  BY <1>3
<1>5. PICK p \in Writers(i) : Lead("narrated", i, p, d) = g /\ \E a \in ByWriter(i, p) : SaidIn(a, d, g, TRUE)
  BY <1>3
<1>6. o # p
  BY <1>2, <1>4, <1>5
<1>7. PICK a \in ByWriter(i, o) : SaidIn(a, d, f, TRUE)
  BY <1>4
<1>8. PICK b \in ByWriter(i, p) : SaidIn(b, d, g, TRUE)
  BY <1>5
<1>9. a \in IssueWritings[i] /\ b \in IssueWritings[i] /\ WriterOf[a] = o /\ WriterOf[b] = p
  BY DEF ByWriter
<1>10. f \in 1 .. 9 /\ g \in 1 .. 9
  BY <1>3
<1>. QED
  BY <1>2, <1>6, <1>7, <1>8, <1>9, <1>10

\* An axis has two sides without a common article, and every outlet of either is placed on it.
LEMMA AxisRight ==
  ASSUME coded \in [Writings -> Codings], NEW i \in DOMAIN IssueWritings, NEW d \in FrameLayers,
         NEW s \in Spectrum(i, d)
  PROVE  /\ s.left \cap s.right = {} /\ s.right # {}
         /\ \A o \in {WriterOf[a] : a \in s.left \cup s.right} :
              o \notin s.unobserved /\ \E m \in s.marks : m.outlet = o
         /\ \A m \in s.marks : m.narrated => \E a \in ByWriter(i, m.outlet) : \E f \in 1 .. 9 : SaidIn(a, s.layer, f, TRUE)
<1> DEFINE family == FamilyIn(i, d)
           fs    == Occurring(family)
           left  == MostFrequent(family, fs)
           right == MostFrequent(family, fs \ {left})
           Own(o, f) == Cardinality(Carrying(family, f) \cap ByWriter(i, o))
           marked == {o \in Writers(i) : Own(o, left) + Own(o, right) > 0}
           mark(o) == [outlet |-> o, left |-> Own(o, left), right |-> Own(o, right), narrated |-> o \in OwnWriters(i, d)]
<1>1. ~(Cardinality(fs) < 2) /\ s = Axis(i, d, family, left, right)
  BY DEF Spectrum
<1>2. /\ s.layer = d /\ s.left = Carrying(family, left) /\ s.right = Carrying(family, right)
      /\ s.marks = {mark(o) : o \in marked} /\ s.unobserved = Writers(i) \ marked
  BY <1>1 DEF Axis
<1>3. /\ DOMAIN family = IssueWritings[i] /\ IsFiniteSet(DOMAIN family) /\ \A a \in DOMAIN family : family[a] \in Nat
  <2>1. DOMAIN family = IssueWritings[i] /\ \A a \in IssueWritings[i] : family[a] = Family("all", a, d)
    BY DEF FamilyIn
  <2>2. IsFiniteSet(IssueWritings[i]) /\ IssueWritings[i] \subseteq Writings
    BY WritingsOf
  <2> HIDE DEF family
  <2>3. \A a \in IssueWritings[i] : family[a] \in 0 .. 9
    BY <2>1, <2>2, FamilyFound, Zenon
  <2>. QED
    BY <2>1, <2>2, <2>3
<1> HIDE DEF family
<1>4. fs \in SUBSET Nat /\ IsFiniteSet(fs)
  BY <1>3, ModeOf
<1>5. fs # {} /\ \A f \in fs : fs \ {f} # {}
  <2>1. Cardinality(fs) >= 2 /\ IsFiniteSet(fs)
    BY <1>1, <1>4, FS_CardinalityType
  <2>2. \E f, g \in fs : f # g
    <3> HIDE DEF fs
    <3>. QED
      BY <2>1, TwoOf
  <2>. QED
    BY <2>2
<1>6. left \in fs
  BY <1>3, <1>4, <1>5, MostFrequentOf
<1>7. right \in fs \ {left}
  <2>1. fs \ {left} # {} /\ fs \ {left} \in SUBSET Nat /\ IsFiniteSet(fs \ {left})
    BY <1>4, <1>5, <1>6, FS_Subset
  <2>. QED
    BY <1>3, <2>1, MostFrequentOf
<1>8. s.left \cap s.right = {}
  BY <1>2, <1>7 DEF Carrying
<1>9. s.right # {}
  <2>1. PICK a \in DOMAIN family : family[a] = right
    BY <1>7 DEF Occurring
  <2>. QED
    BY <1>2, <2>1 DEF Carrying
<1>10. ASSUME NEW a \in s.left \cup s.right
       PROVE  WriterOf[a] \in marked
  <2> DEFINE o == WriterOf[a]
             setOf(f) == Carrying(family, f) \cap ByWriter(i, o)
  <2>1. a \in IssueWritings[i] /\ (a \in setOf(left) \/ a \in setOf(right))
    BY <1>2, <1>3, <1>10 DEF Carrying, ByWriter
  <2>2. \A f : IsFiniteSet(setOf(f))
    BY WritingsOf, FS_Subset
  <2>3. o \in Writers(i)
    BY <2>1 DEF Writers
  <2>4. ASSUME NEW f PROVE Cardinality(setOf(f)) \in Nat /\ (setOf(f) # {} => Cardinality(setOf(f)) > 0)
    <3>1. IsFiniteSet(setOf(f))
      BY <2>2
    <3> HIDE DEF setOf
    <3>. QED
      BY <3>1, FS_CardinalityType, FS_EmptySet
  <2>5. Cardinality(setOf(left)) \in Nat /\ Cardinality(setOf(right)) \in Nat
    BY <2>4
  <2>6. Cardinality(setOf(left)) + Cardinality(setOf(right)) > 0
    <3> DEFINE n1 == Cardinality(setOf(left))
               n2 == Cardinality(setOf(right))
    <3>1. n1 \in Nat /\ n2 \in Nat /\ (n1 > 0 \/ n2 > 0)
      BY <2>1, <2>4
    <3> HIDE DEF n1, n2
    <3>2. n1 + n2 > 0
      BY <3>1
    <3>. QED
      BY <3>2 DEF n1, n2
  <2>. QED
    BY <2>3, <2>6
<1>11. \A o \in {WriterOf[a] : a \in s.left \cup s.right} :
              o \notin s.unobserved /\ \E m \in s.marks : m.outlet = o
  <2>1. \A o \in marked : o \notin s.unobserved /\ mark(o) \in s.marks /\ mark(o).outlet = o
    BY <1>2
  <2> HIDE DEF marked, mark
  <2>. QED
    BY <1>10, <2>1
<1>12. ASSUME NEW m \in s.marks, m.narrated
       PROVE  \E a \in ByWriter(i, m.outlet) : \E f \in 1 .. 9 : SaidIn(a, s.layer, f, TRUE)
  <2>1. PICK o \in marked : m = mark(o)
    BY <1>2
  <2>2. m.outlet = o /\ o \in OwnWriters(i, d)
    BY <1>12, <2>1
  <2>3. PICK a \in IssueWritings[i] : OwnItems(a, d) # {} /\ WriterOf[a] = o
    BY <2>2 DEF OwnWriters
  <2>4. a \in Writings /\ a \in ByWriter(i, o)
    BY <2>3, WritingsOf DEF ByWriter
  <2>5. Family("narrated", a, d) \in 0 .. 9 /\ Family("narrated", a, d) # 0 /\ SaidIn(a, d, Family("narrated", a, d), TRUE)
    BY <2>3, <2>4, FamilyFound, Zenon
  <2>6. Family("narrated", a, d) \in 1 .. 9
    BY <2>5
  <2>. QED
    BY <1>2, <2>2, <2>4, <2>5, <2>6, Zenon
<1>. QED
  BY <1>8, <1>9, <1>11, <1>12

\* A combination is of articles that share their families, and differs only where both have one.
LEMMA CombinationRight ==
  ASSUME coded \in [Writings -> Codings], NEW i \in DOMAIN IssueWritings, NEW basis, NEW c \in Combinations(basis, i)
  PROVE  /\ c.differsAt \cap c.partialAt = {}
         /\ \A d \in c.differsAt : \A a \in c.articles :
              SaidIn(a, d, c.signature[d], FALSE) /\ (basis = "narrated" => SaidIn(a, d, c.signature[d], TRUE))
<1> DEFINE sig == [a \in IssueWritings[i] |-> Signature(basis, a)]
           sigs == {s \in {sig[a] : a \in DOMAIN sig} : SigObserved(s)}
           base == BaseOf(sigs, sig)
<1>1. PICK s \in sigs :
        c = [articles |-> Carrying(sig, s), signature |-> s, base |-> s = base,
             differsAt |-> {d \in FrameLayers : s[d] # 0 /\ base[d] # 0 /\ s[d] # base[d]},
             partialAt |-> {d \in FrameLayers : (s[d] = 0) # (base[d] = 0)}]
  BY DEF Combinations, Combine
<1>2. c.differsAt \cap c.partialAt = {} /\ \A d \in c.differsAt : d \in FrameLayers /\ s[d] # 0
  BY <1>1
<1>3. c.signature = s /\ c.articles = Carrying(sig, s)
  BY <1>1
<1>4. ASSUME NEW d \in c.differsAt, NEW a \in c.articles
      PROVE  SaidIn(a, d, c.signature[d], FALSE) /\ (basis = "narrated" => SaidIn(a, d, c.signature[d], TRUE))
  <2>1. a \in IssueWritings[i] /\ Signature(basis, a) = s
    BY <1>3 DEF Carrying
  <2>2. d \in FrameLayers /\ s[d] # 0
    BY <1>2
  <2>3. s[d] = Family(basis, a, d)
    BY <2>1, <2>2 DEF Signature
  <2>4. a \in Writings
    BY <2>1, WritingsOf
  <2>. QED
    BY <1>3, <2>2, <2>3, <2>4, FamilyFound, Zenon
<1>. QED
  BY <1>2, <1>4

\* Every article with evidence is in one combination, and no other is in any.
LEMMA CombinationsDivide ==
  ASSUME coded \in [Writings -> Codings], NEW i \in DOMAIN IssueWritings, NEW a \in IssueWritings[i]
  PROVE  Cardinality({c \in Combinations("all", i) : a \in c.articles}) =
           IF \E d \in FrameLayers : Items(a, d) # {} THEN 1 ELSE 0
<1> DEFINE sig == [x \in IssueWritings[i] |-> Signature("all", x)]
           sigs == {s \in {sig[x] : x \in DOMAIN sig} : SigObserved(s)}
           base == BaseOf(sigs, sig)
           part(s) == [articles |-> Carrying(sig, s), signature |-> s, base |-> s = base,
                       differsAt |-> {d \in FrameLayers : s[d] # 0 /\ base[d] # 0 /\ s[d] # base[d]},
                       partialAt |-> {d \in FrameLayers : (s[d] = 0) # (base[d] = 0)}]
           with == {c \in Combinations("all", i) : a \in c.articles}
<1>1. Combinations("all", i) = {part(s) : s \in sigs}
  BY DEF Combinations, Combine
<1>2. \A s : part(s).articles = Carrying(sig, s)
  OBVIOUS
<1>3. a \in DOMAIN sig /\ sig[a] = Signature("all", a) /\ a \in Writings
  BY WritingsOf
<1>4. SigObserved(sig[a]) <=> \E d \in FrameLayers : Items(a, d) # {}
  <2>1. \A d \in FrameLayers : sig[a][d] # 0 <=> Items(a, d) # {}
    BY <1>3, FamilyFound DEF Signature
  <2>. QED
    BY <2>1 DEF SigObserved
<1>5. \A s : a \in Carrying(sig, s) <=> s = sig[a]
  BY <1>3 DEF Carrying
<1>6. sig[a] \in sigs <=> SigObserved(sig[a])
  BY <1>3
<1> HIDE DEF sig, sigs, part
<1>7. CASE SigObserved(sig[a])
  <2>1. with = {part(sig[a])}
    BY <1>1, <1>2, <1>5, <1>6, <1>7
  <2>. QED
    BY <1>4, <1>7, <2>1, FS_Singleton
<1>8. CASE ~SigObserved(sig[a])
  <2>1. with = {}
    BY <1>1, <1>2, <1>5, <1>6, <1>8
  <2>. QED
    BY <1>4, <1>8, <2>1, FS_EmptySet
<1>. QED
  BY <1>7, <1>8

\* A layer that no outlet explains itself has no kind.
LEMMA VoicelessNoKind ==
  ASSUME coded \in [Writings -> Codings], NEW i \in DOMAIN IssueWritings, NEW d \in FrameLayers,
         Basis(i, d).narratedItems = 0
  PROVE  ~(Cardinality(LeadKinds("narrated", i, d)) >= 2)
<1> DEFINE counts == [a \in IssueWritings[i] |-> Cardinality(OwnItems(a, d))]
           upto(a) == {<<a, k>> : k \in 1 .. counts[a]}
           all == UNION {upto(a) : a \in DOMAIN counts}
<1>1. Cardinality(all) = 0
  BY DEF Basis, Total
<1>2. IsFiniteSet(IssueWritings[i]) /\ IssueWritings[i] \subseteq Writings
  BY WritingsOf
<1>3. \A a \in IssueWritings[i] : IsFiniteSet(OwnItems(a, d))
  <2>1. SUFFICES ASSUME NEW a \in IssueWritings[i] PROVE IsFiniteSet(OwnItems(a, d))
    OBVIOUS
  <2> DEFINE rows == coded[a].rows[d]
             n == Len(rows)
             R == 1 .. n
  <2>2. CodingRead(coded[a])
    BY <1>2, IssueViewAssumption
  <2>3. n \in Nat /\ DOMAIN rows = R
    BY <2>2 DEF CodingRead
  <2>4. OwnItems(a, d) \subseteq R
    <3>1. CASE Usable(a)
      <4>1. CodedRows(a, d) = rows
        BY <3>1 DEF CodedRows
      <4> HIDE DEF rows, R
      <4>. QED
        BY <2>3, <4>1 DEF OwnItems, Items, FoldClaims
    <3>2. CASE ~Usable(a)
      <4>1. OwnItems(a, d) = {}
        BY <3>2 DEF OwnItems, Items, FoldClaims, CodedRows
      <4>. QED
        BY <4>1
    <3>. QED
      BY <3>1, <3>2
  <2>5. IsFiniteSet(R)
    <3> HIDE DEF n
    <3>. QED
      BY <2>3, FS_Interval
  <2> HIDE DEF R
  <2>. QED
    BY <2>4, <2>5, FS_Subset
<1>4. \A a \in IssueWritings[i] : counts[a] \in Nat /\ (OwnItems(a, d) # {} => counts[a] >= 1)
  <2>1. SUFFICES ASSUME NEW a \in IssueWritings[i] PROVE counts[a] \in Nat /\ (OwnItems(a, d) # {} => counts[a] >= 1)
    OBVIOUS
  <2>2. counts[a] = Cardinality(OwnItems(a, d)) /\ IsFiniteSet(OwnItems(a, d))
    BY <1>3
  <2> HIDE DEF counts
  <2>. QED
    BY <2>2, TwoOf
<1>5. IsFiniteSet(all)
  <2> DEFINE pairs == [a \in IssueWritings[i] |-> upto(a)]
             parts == {pairs[a] : a \in IssueWritings[i]}
  <2>1. all = UNION parts
    OBVIOUS
  <2>2. IsFiniteSet(parts)
    <3> HIDE DEF pairs
    <3>. QED
      BY <1>2, ImageOf
  <2>3. \A T \in parts : IsFiniteSet(T)
    <3>1. SUFFICES ASSUME NEW a \in IssueWritings[i] PROVE IsFiniteSet(upto(a))
      OBVIOUS
    <3> DEFINE R == 1 .. counts[a]
               pair == [k \in R |-> <<a, k>>]
    <3>2. upto(a) = {pair[k] : k \in R}
      OBVIOUS
    <3>3. IsFiniteSet(R)
      BY <1>4, FS_Interval
    <3> HIDE DEF R, pair, upto
    <3>. QED
      BY <3>2, <3>3, ImageOf
  <2> HIDE DEF all, parts
  <2>. QED
    BY <2>1, <2>2, <2>3, FS_UNION
<1>6. all = {}
  <2> HIDE DEF all
  <2>. QED
    BY <1>1, <1>5, FS_EmptySet
<1>7. ASSUME NEW a \in IssueWritings[i] PROVE OwnItems(a, d) = {}
  <2>1. SUFFICES ASSUME OwnItems(a, d) # {} PROVE FALSE
    OBVIOUS
  <2>2. counts[a] \in Nat /\ counts[a] >= 1 /\ a \in DOMAIN counts
    BY <1>4, <2>1
  <2>3. 1 \in 1 .. counts[a]
    <3> HIDE DEF counts
    <3>. QED
      BY <2>2
  <2>4. <<a, 1>> \in all
    BY <2>2, <2>3
  <2>. QED
    BY <1>6, <2>4
<1>8. SUFFICES ASSUME Cardinality(LeadKinds("narrated", i, d)) >= 2 PROVE FALSE
  OBVIOUS
<1> DEFINE kinds == LeadKinds("narrated", i, d)
<1>9. kinds # {}
  <2>1. IsFiniteSet(kinds) /\ Cardinality(kinds) >= 2
    BY <1>8, LeadFound
  <2> HIDE DEF kinds
  <2>. QED
    BY <2>1, TwoOf
<1>10. PICK o \in Writers(i) : Lead("narrated", i, o, d) # 0
  BY <1>9 DEF LeadKinds
<1>11. PICK b \in ByWriter(i, o) : Family("narrated", b, d) = Lead("narrated", i, o, d)
  BY <1>10, LeadFound
<1>12. b \in IssueWritings[i] /\ b \in Writings /\ OwnItems(b, d) # {}
  BY <1>10, <1>11, WritingsOf, FamilyFound
<1>. QED
  BY <1>7, <1>12

LEMMA IssueRight ==
  ASSUME coded \in [Writings -> Codings], NEW i \in DOMAIN IssueWritings
  PROVE  LET v == deriveIssue(i)
             r == Report(v)
         IN /\ \A d \in r.split \cup ({v.mostSplit} \ {0}) :
                 \E a, b \in IssueWritings[i] : \E f, g \in 1 .. 9 :
                   WriterOf[a] # WriterOf[b] /\ f # g /\ SaidIn(a, d, f, TRUE) /\ SaidIn(b, d, g, TRUE)
            /\ r.split = {d \in FrameLayers : Cardinality(LeadKinds("narrated", i, d)) >= 2}
            /\ v.splitDimensions = Cardinality(r.split)
            /\ r.split \cap (r.shared \cup r.voiceless) = {}
<1> DEFINE v == deriveIssue(i)
           r == Report(v)
           kinds(d) == Cardinality(LeadKinds("narrated", i, d))
           top == {d \in FrameLayers : kinds(d) >= 2 /\ \A e \in FrameLayers : kinds(e) <= kinds(d)}
<1>1. /\ \A d \in FrameLayers : v.basis[d] = Basis(i, d)
      /\ v.mostSplit = MostSplit(i)
      /\ v.splitDimensions = Cardinality({d \in FrameLayers : Basis(i, d).narratedKinds >= 2})
  BY DEF deriveIssue
<1>2. \A d \in FrameLayers : Basis(i, d).narratedKinds = kinds(d) /\ kinds(d) \in Nat
  BY LeadFound DEF Basis
<1>3. /\ r.split = {d \in FrameLayers : v.basis[d].narratedKinds >= 2}
      /\ r.shared = {d \in FrameLayers : v.basis[d].narratedKinds = 1}
      /\ r.voiceless = {d \in FrameLayers : v.basis[d].narratedItems = 0 /\ v.basis[d].attributedItems > 0}
  BY DEF Report
<1> HIDE DEF v, kinds
<1>4. r.split = {d \in FrameLayers : kinds(d) >= 2}
  BY <1>1, <1>2, <1>3
<1>5. v.splitDimensions = Cardinality(r.split)
  <2>1. {d \in FrameLayers : Basis(i, d).narratedKinds >= 2} = r.split
    BY <1>2, <1>4
  <2>. QED
    BY <1>1, <2>1
<1>6. MostSplit(i) # 0 => MostSplit(i) \in r.split
  <2>1. MostSplit(i) = IF top = {} THEN 0 ELSE Earliest(top)
    BY DEF MostSplit, kinds
  <2>2. CASE top # {}
    <3>1. top \in SUBSET (0 .. LayerCount) /\ LayerCount \in Nat
      BY IssueViewAssumption DEF FrameLayers
    <3>2. \E d \in top : \A e \in top : d <= e
      <4> HIDE DEF top
      <4>. QED
        BY <2>2, <3>1, LeastUpTo
    <3>3. Earliest(top) \in top
      <4> HIDE DEF top
      <4>. QED
        BY <3>2 DEF Earliest
    <3>. QED
      BY <1>4, <2>1, <2>2, <3>3
  <2>. QED
    BY <2>1, <2>2
<1>7. \A d \in r.split \cup ({v.mostSplit} \ {0}) : d \in FrameLayers /\ Cardinality(LeadKinds("narrated", i, d)) >= 2
  BY <1>1, <1>4, <1>6 DEF kinds
<1>8. r.split \cap (r.shared \cup r.voiceless) = {}
  <2>1. r.split \cap r.shared = {}
    BY <1>1, <1>2, <1>3
  <2>2. \A d \in r.voiceless : d \in FrameLayers /\ Basis(i, d).narratedItems = 0
    BY <1>1, <1>3
  <2>3. r.split \cap r.voiceless = {}
    BY <1>4, <2>2, VoicelessNoKind DEF kinds
  <2>. QED
    BY <2>1, <2>3
<1> HIDE DEF r
<1>9. \A d \in r.split \cup ({v.mostSplit} \ {0}) :
        \E a, b \in IssueWritings[i] : \E f, g \in 1 .. 9 :
          WriterOf[a] # WriterOf[b] /\ f # g /\ SaidIn(a, d, f, TRUE) /\ SaidIn(b, d, g, TRUE)
  BY <1>7, SplitTold, Zenon
<1>. QED
  BY <1>4, <1>5, <1>8, <1>9, Zenon DEF r, v, kinds

LEMMA ViewsKept == ViewInv => ViewsAgree
<1>1. SUFFICES ASSUME ViewInv, dayView # NoDayView PROVE ViewsAgree
  BY DEF ViewsAgree
<1>2. coded \in [Writings -> Codings] /\ dayView = deriveDay
  BY <1>1 DEF ViewInv
<1> DEFINE vs == [i \in DOMAIN IssueWritings |-> deriveIssue(i)]
<1>3. /\ dayView.issues = vs
      /\ dayView.reports = [i \in DOMAIN vs |-> Report(vs[i])]
      /\ dayView.split = [d \in FrameLayers |-> Cardinality({i \in DOMAIN vs : Cardinality(LeadKinds("narrated", i, d)) >= 2})]
  BY <1>2 DEF deriveDay
<1>4. DOMAIN dayView.issues = DOMAIN IssueWritings
  BY <1>3
<1>5. \A i \in DOMAIN IssueWritings : dayView.issues[i] = deriveIssue(i) /\ dayView.reports[i] = Report(deriveIssue(i))
  BY <1>3
<1>6. \A d \in FrameLayers :
        dayView.split[d] = Cardinality({i \in DOMAIN IssueWritings : Cardinality(LeadKinds("narrated", i, d)) >= 2})
  BY <1>3
<1> HIDE DEF vs
<1>7. \A d \in FrameLayers :
         dayView.split[d] = Cardinality({i \in DOMAIN dayView.issues : d \in dayView.reports[i].split})
  <2>1. SUFFICES ASSUME NEW d \in FrameLayers
                 PROVE  {i \in DOMAIN dayView.issues : d \in dayView.reports[i].split}
                          = {i \in DOMAIN IssueWritings : Cardinality(LeadKinds("narrated", i, d)) >= 2}
    BY <1>6
  <2>2. \A i \in DOMAIN IssueWritings : d \in dayView.reports[i].split <=> Cardinality(LeadKinds("narrated", i, d)) >= 2
    <3>1. SUFFICES ASSUME NEW i \in DOMAIN IssueWritings
                   PROVE  d \in dayView.reports[i].split <=> Cardinality(LeadKinds("narrated", i, d)) >= 2
      OBVIOUS
    <3>2. dayView.reports[i].split = {e \in FrameLayers : Cardinality(LeadKinds("narrated", i, e)) >= 2}
      BY <1>2, <1>5, IssueRight
    <3>. QED
      BY <3>2
  <2>. QED
    BY <1>4, <2>2
<1>8. ASSUME NEW i \in DOMAIN dayView.issues
      PROVE  LET v == dayView.issues[i] IN
         /\ \A d \in dayView.reports[i].split \cup ({v.mostSplit} \ {0}) :
              \E a, b \in IssueWritings[i] : \E f, g \in 1 .. 9 :
                WriterOf[a] # WriterOf[b] /\ f # g /\ SaidIn(a, d, f, TRUE) /\ SaidIn(b, d, g, TRUE)
         /\ \A s \in v.spectra :
              /\ s.left \cap s.right = {} /\ s.right # {}
              /\ \A o \in {WriterOf[a] : a \in s.left \cup s.right} :
                   o \notin s.unobserved /\ \E m \in s.marks : m.outlet = o
              /\ \A m \in s.marks : m.narrated => \E a \in ByWriter(i, m.outlet) : \E f \in 1 .. 9 : SaidIn(a, s.layer, f, TRUE)
         /\ \A a \in IssueWritings[i] :
              Cardinality({c \in v.clusters : a \in c.articles}) =
                IF \E d \in FrameLayers : Items(a, d) # {} THEN 1 ELSE 0
         /\ \A c \in v.clusters \cup v.narrated : /\ c.differsAt \cap c.partialAt = {}
              /\ \A d \in c.differsAt : \A a \in c.articles : SaidIn(a, d, c.signature[d], c \in v.narrated \ v.clusters)
         /\ v.splitDimensions = Cardinality(dayView.reports[i].split)
         /\ dayView.reports[i].split \cap (dayView.reports[i].shared \cup dayView.reports[i].voiceless) = {}
  <2> DEFINE v == dayView.issues[i]
             r == dayView.reports[i]
  <2>1. i \in DOMAIN IssueWritings /\ v = deriveIssue(i) /\ r = Report(deriveIssue(i))
    BY <1>4, <1>5
  <2>2. /\ v.spectra = UNION {Spectrum(i, d) : d \in FrameLayers}
        /\ v.clusters = Combinations("all", i) /\ v.narrated = Combinations("narrated", i)
    BY <2>1 DEF deriveIssue
  <2> HIDE DEF v, r
  <2>3. /\ \A d \in r.split \cup ({v.mostSplit} \ {0}) :
             \E a, b \in IssueWritings[i] : \E f, g \in 1 .. 9 :
               WriterOf[a] # WriterOf[b] /\ f # g /\ SaidIn(a, d, f, TRUE) /\ SaidIn(b, d, g, TRUE)
        /\ v.splitDimensions = Cardinality(r.split)
        /\ r.split \cap (r.shared \cup r.voiceless) = {}
    BY <1>2, <2>1, IssueRight, Zenon
  <2>4. ASSUME NEW s \in v.spectra
        PROVE  /\ s.left \cap s.right = {} /\ s.right # {}
               /\ \A o \in {WriterOf[a] : a \in s.left \cup s.right} :
                    o \notin s.unobserved /\ \E m \in s.marks : m.outlet = o
               /\ \A m \in s.marks : m.narrated => \E a \in ByWriter(i, m.outlet) : \E f \in 1 .. 9 : SaidIn(a, s.layer, f, TRUE)
    <3>1. PICK d \in FrameLayers : s \in Spectrum(i, d)
      BY <2>2
    <3>. QED
      BY <1>2, <2>1, <3>1, AxisRight, Zenon
  <2>5. \A a \in IssueWritings[i] :
              Cardinality({c \in v.clusters : a \in c.articles}) =
                IF \E d \in FrameLayers : Items(a, d) # {} THEN 1 ELSE 0
    BY <1>2, <2>1, <2>2, CombinationsDivide, Zenon
  <2>6. ASSUME NEW c \in v.clusters \cup v.narrated
        PROVE  /\ c.differsAt \cap c.partialAt = {}
               /\ \A d \in c.differsAt : \A a \in c.articles : SaidIn(a, d, c.signature[d], c \in v.narrated \ v.clusters)
    <3>1. CASE c \in v.clusters
      <4>1. (c \in v.narrated \ v.clusters) = FALSE
        BY <3>1
      <4>2. c \in Combinations("all", i)
        BY <2>2, <3>1
      <4>3. /\ c.differsAt \cap c.partialAt = {}
            /\ \A d \in c.differsAt : \A a \in c.articles : SaidIn(a, d, c.signature[d], FALSE)
        BY <1>2, <2>1, <4>2, CombinationRight, Zenon
      <4>. QED
        BY <4>1, <4>3, Zenon
    <3>2. CASE c \notin v.clusters
      <4>1. (c \in v.narrated \ v.clusters) = TRUE
        BY <3>2
      <4>2. c \in Combinations("narrated", i)
        BY <2>2, <3>2
      <4>3. /\ c.differsAt \cap c.partialAt = {}
            /\ \A d \in c.differsAt : \A a \in c.articles : SaidIn(a, d, c.signature[d], TRUE)
        BY <1>2, <2>1, <4>2, CombinationRight, Zenon
      <4>. QED
        BY <4>1, <4>3, Zenon
    <3>. QED
      BY <3>1, <3>2
  <2>. QED
    BY <2>3, <2>4, <2>5, <2>6, Zenon DEF v, r
<1>. QED
  BY <1>7, <1>8, Zenon DEF ViewsAgree

-----------------------------------------------------------------------------
(* Answers to a question about an issue *)

\* A list is known by its places.
LEMMA ListKnown ==
  ASSUME NEW n \in Nat, NEW s, s = [i \in 1 .. n |-> s[i]]
  PROVE  IsList(s) /\ Len(s) = n /\ DOMAIN s = 1 .. n
<1> DEFINE T == {s[i] : i \in 1 .. n}
<1>1. [i \in 1 .. n |-> s[i]] \in [1 .. n -> T]
  OBVIOUS
<1>2. s \in [1 .. n -> T]
  BY <1>1
<1> HIDE DEF T
<1>3. s \in Seq(T)
  BY <1>2
<1>4. DOMAIN s = 1 .. n
  BY <1>2
<1>5. Len(s) \in Nat /\ DOMAIN s = 1 .. Len(s)
  BY <1>3
<1>6. Len(s) = n
  BY <1>4, <1>5
<1>. QED
  BY <1>4, <1>5, <1>6 DEF IsList

\* The place of an element is how many come before it: an order of a finite set lists it.
LEMMA OrderLists ==
  ASSUME NEW S, IsFiniteSet(S), NEW R,
         \A x \in S : ~(<<x, x>> \in R),
         \A x, y \in S : x = y \/ <<x, y>> \in R \/ <<y, x>> \in R,
         \A x, y, z \in S : <<x, y>> \in R /\ <<y, z>> \in R => <<x, z>> \in R
  PROVE  LET o == InOrder(S, R)
         IN  /\ Cardinality(S) \in Nat /\ DOMAIN o = 1 .. Cardinality(S)
             /\ o \in [1 .. Cardinality(S) -> S]
             /\ \A m, n \in DOMAIN o : o[m] = o[n] => m = n
             /\ \A x \in S : \E n \in DOMAIN o : o[n] = x
<1> DEFINE N == Cardinality(S)
           before(x) == {y \in S : <<y, x>> \in R}
           rank == [x \in S |-> Cardinality(before(x)) + 1]
           o == InOrder(S, R)
<1>1. N \in Nat
  BY FS_CardinalityType
<1>2. \A x \in S : IsFiniteSet(before(x)) /\ Cardinality(before(x)) \in Nat
  BY FS_Subset, FS_CardinalityType
<1>3. ASSUME NEW x \in S PROVE Cardinality(before(x)) < N
  <2>1. before(x) \in SUBSET S /\ before(x) # S
    OBVIOUS
  <2>2. Cardinality(before(x)) \in Nat
    BY <1>2
  <2> HIDE DEF before
  <2>3. Cardinality(before(x)) <= Cardinality(S) /\ Cardinality(before(x)) # Cardinality(S)
    BY <2>1, FS_Subset
  <2>. QED
    BY <2>2, <2>3, <1>1
<1>4. ASSUME NEW x \in S, NEW y \in S, <<x, y>> \in R PROVE Cardinality(before(x)) < Cardinality(before(y))
  <2>1. before(x) \subseteq before(y)
    BY <1>4
  <2>2. x \in before(y) /\ x \notin before(x)
    BY <1>4
  <2>3. before(x) # before(y)
    BY <2>2
  <2>4. IsFiniteSet(before(y)) /\ Cardinality(before(x)) \in Nat /\ Cardinality(before(y)) \in Nat
    BY <1>2
  <2> HIDE DEF before
  <2>5. Cardinality(before(x)) <= Cardinality(before(y)) /\ Cardinality(before(x)) # Cardinality(before(y))
    BY <2>1, <2>3, <2>4, FS_Subset
  <2>. QED
    BY <2>4, <2>5
<1>5. ASSUME NEW x \in S, NEW y \in S, Cardinality(before(x)) = Cardinality(before(y)) PROVE x = y
  <2>1. \A v, w \in S : <<v, w>> \in R => Cardinality(before(v)) < Cardinality(before(w))
    BY <1>4
  <2>2. Cardinality(before(x)) \in Nat /\ Cardinality(before(y)) \in Nat
    BY <1>2
  <2> HIDE DEF before
  <2>3. ~(<<x, y>> \in R) /\ ~(<<y, x>> \in R)
    BY <2>1, <2>2, <1>5
  <2>. QED
    BY <2>3
<1> HIDE DEF before, N
<1>6. rank \in [S -> 1 .. N]
  BY <1>1, <1>2, <1>3
<1>7. \A x, y \in S : rank[x] = rank[y] => x = y
  BY <1>2, <1>5
<1> DEFINE I == {rank[x] : x \in S}
<1>8. rank \in Bijection(S, I)
  BY <1>7 DEF Bijection, Injection, Surjection, IsInjective
<1>9. I \subseteq 1 .. N
  BY <1>6
<1> HIDE DEF rank, I
<1>10. IsFiniteSet(I) /\ Cardinality(I) = N
  BY <1>8, FS_Bijection DEF ExistsBijection, N
<1>11. IsFiniteSet(1 .. N) /\ Cardinality(1 .. N) = N
  BY <1>1, FS_Interval
<1>12. I = 1 .. N
  BY <1>9, <1>10, <1>11, FS_Subset
<1>13. ASSUME NEW n \in 1 .. N PROVE \E x \in S : Cardinality(before(x)) = n - 1
  <2>1. PICK x \in S : rank[x] = n
    BY <1>12 DEF I
  <2>. QED
    BY <2>1, <1>2 DEF rank
<1>14. o = [n \in 1 .. N |-> CHOOSE x \in S : Cardinality(before(x)) = n - 1]
  BY DEF InOrder, N, before
<1> HIDE DEF o
<1>15. \A n \in 1 .. N : o[n] \in S /\ Cardinality(before(o[n])) = n - 1
  BY <1>13, <1>14
<1>16. DOMAIN o = 1 .. N /\ o \in [1 .. N -> S]
  BY <1>14, <1>15
<1>17. \A m, n \in 1 .. N : o[m] = o[n] => m = n
  BY <1>15
<1>18. ASSUME NEW x \in S PROVE \E n \in 1 .. N : o[n] = x
  <2>1. rank[x] \in 1 .. N /\ rank[x] = Cardinality(before(x)) + 1
    BY <1>6 DEF rank
  <2>2. o[rank[x]] \in S /\ Cardinality(before(o[rank[x]])) = Cardinality(before(x))
    BY <2>1, <1>15, <1>2
  <2>. QED
    BY <2>1, <2>2, <1>5
<1>. QED
  BY <1>1, <1>16, <1>17, <1>18 DEF o, N

\* A list made of the members at some places of another, each place once
Gathers(t, s, I) ==
  /\ IsList(t) /\ Len(t) = Cardinality(I)
  /\ \E order \in [DOMAIN t -> I] :
       /\ \A n \in DOMAIN t : t[n] = s[order[n]]
       /\ \A m, n \in DOMAIN t : order[m] = order[n] => m = n
       /\ \A i \in I : \E n \in DOMAIN t : order[n] = i

LEMMA GatheredBy ==
  ASSUME NEW S, IsFiniteSet(S), NEW R, NEW s, NEW t,
         \A x \in S : ~(<<x, x>> \in R),
         \A x, y \in S : x = y \/ <<x, y>> \in R \/ <<y, x>> \in R,
         \A x, y, z \in S : <<x, y>> \in R /\ <<y, z>> \in R => <<x, z>> \in R,
         t = [n \in DOMAIN InOrder(S, R) |-> s[InOrder(S, R)[n]]]
  PROVE  Gathers(t, s, S)
<1> DEFINE o == InOrder(S, R)
<1>1. /\ Cardinality(S) \in Nat /\ DOMAIN o = 1 .. Cardinality(S)
      /\ o \in [1 .. Cardinality(S) -> S]
      /\ \A m, n \in DOMAIN o : o[m] = o[n] => m = n
      /\ \A x \in S : \E n \in DOMAIN o : o[n] = x
  BY OrderLists
<1>2. t = [n \in DOMAIN o |-> s[o[n]]]
  OBVIOUS
<1> HIDE DEF o
<1>3. t = [n \in 1 .. Cardinality(S) |-> t[n]]
  BY <1>1, <1>2
<1>4. IsList(t) /\ Len(t) = Cardinality(S) /\ DOMAIN t = 1 .. Cardinality(S)
  BY <1>1, <1>3, ListKnown
<1>5. o \in [DOMAIN t -> S] /\ DOMAIN t = DOMAIN o /\ \A n \in DOMAIN t : t[n] = s[o[n]]
  BY <1>1, <1>2, <1>4
<1>6. \E order \in [DOMAIN t -> S] :
        /\ \A n \in DOMAIN t : t[n] = s[order[n]]
        /\ \A m, n \in DOMAIN t : order[m] = order[n] => m = n
        /\ \A i \in S : \E n \in DOMAIN t : order[n] = i
  <2>1. /\ \A n \in DOMAIN t : t[n] = s[o[n]]
        /\ \A m, n \in DOMAIN t : o[m] = o[n] => m = n
        /\ \A i \in S : \E n \in DOMAIN t : o[n] = i
    BY <1>1, <1>5
  <2>. QED
    BY <2>1, <1>5, Zenon
<1>. QED
  BY <1>4, <1>6 DEF Gathers

\* A part of a list, in its order
LEMMA ChosenGathers ==
  ASSUME NEW s, IsList(s), NEW I \in SUBSET DOMAIN s
  PROVE  Gathers(Chosen(s, I), s, I) /\ IsFiniteSet(I)
<1> DEFINE R == {p \in I \X I : p[1] < p[2]}
<1>1. DOMAIN s \subseteq Nat /\ IsFiniteSet(DOMAIN s)
  BY FS_Interval DEF IsList
<1>2. IsFiniteSet(I) /\ I \subseteq Nat
  BY <1>1, FS_Subset
<1>3. \A x, y \in I : <<x, y>> \in R <=> x < y
  OBVIOUS
<1>4. Chosen(s, I) = [n \in DOMAIN InOrder(I, R) |-> s[InOrder(I, R)[n]]]
  BY DEF Chosen
<1> HIDE DEF R
<1>5. /\ \A x \in I : ~(<<x, x>> \in R)
      /\ \A x, y \in I : x = y \/ <<x, y>> \in R \/ <<y, x>> \in R
      /\ \A x, y, z \in I : <<x, y>> \in R /\ <<y, z>> \in R => <<x, z>> \in R
  BY <1>2, <1>3
<1>. QED
  BY <1>2, <1>4, <1>5, GatheredBy

\* A stable sort
LEMMA SortedGathers ==
  ASSUME NEW s, IsList(s), NEW key, \A i \in DOMAIN s : key[i] \in Nat
  PROVE  Gathers(Sorted(s, key), s, DOMAIN s)
<1> DEFINE I == DOMAIN s
           R == {p \in I \X I : key[p[1]] > key[p[2]] \/ (key[p[1]] = key[p[2]] /\ p[1] < p[2])}
<1>1. I \subseteq Nat /\ IsFiniteSet(I)
  BY FS_Interval DEF IsList
<1>2. \A x, y \in I : <<x, y>> \in R <=> key[x] > key[y] \/ (key[x] = key[y] /\ x < y)
  OBVIOUS
<1>3. Sorted(s, key) = [n \in DOMAIN InOrder(I, R) |-> s[InOrder(I, R)[n]]]
  BY DEF Sorted
<1>4. \A x \in I : key[x] \in Nat /\ x \in Nat
  BY <1>1
<1> HIDE DEF R, I
<1>5. /\ \A x \in I : ~(<<x, x>> \in R)
      /\ \A x, y \in I : x = y \/ <<x, y>> \in R \/ <<y, x>> \in R
      /\ \A x, y, z \in I : <<x, y>> \in R /\ <<y, z>> \in R => <<x, z>> \in R
  BY <1>2, <1>4
<1>6. Gathers(Sorted(s, key), s, I)
  BY <1>1, <1>3, <1>5, GatheredBy
<1>. QED
  BY <1>6 DEF I

\* What each list has is had by the one along them all.
LEMMA AlongTold ==
  ASSUME NEW ss, IsList(ss), \A i \in DOMAIN ss : IsList(ss[i])
  PROVE  /\ IsList(Along(ss))
         /\ \A n \in DOMAIN Along(ss) : \E i \in DOMAIN ss : \E j \in DOMAIN ss[i] : Along(ss)[n] = ss[i][j]
<1> DEFINE row(i) == {i} \X DOMAIN ss[i]
           I == UNION {row(i) : i \in DOMAIN ss}
           R == {p \in I \X I : p[1][1] < p[2][1] \/ (p[1][1] = p[2][1] /\ p[1][2] < p[2][2])}
           s == [p \in I |-> ss[p[1]][p[2]]]
<1>1. DOMAIN ss \subseteq Nat /\ IsFiniteSet(DOMAIN ss)
  BY FS_Interval DEF IsList
<1>2. ASSUME NEW i \in DOMAIN ss PROVE IsFiniteSet(row(i)) /\ DOMAIN ss[i] \subseteq Nat
  <2>0. IsList(ss[i])
    OBVIOUS
  <2>1. IsFiniteSet(DOMAIN ss[i]) /\ DOMAIN ss[i] \subseteq Nat
    BY <2>0, FS_Interval DEF IsList
  <2>. QED
    BY <2>1, FS_Product, FS_Singleton
<1>3. IsFiniteSet({row(i) : i \in DOMAIN ss})
  <2> DEFINE f == [i \in DOMAIN ss |-> row(i)]
  <2>1. {row(i) : i \in DOMAIN ss} = {f[i] : i \in DOMAIN ss}
    OBVIOUS
  <2> HIDE DEF f
  <2>2. IsFiniteSet({f[i] : i \in DOMAIN ss})
    BY <1>1, ImageOf
  <2>. QED
    BY <2>1, <2>2
<1>4. IsFiniteSet(I)
  BY <1>2, <1>3, FS_UNION
<1>5. \A p \in I : \E i \in DOMAIN ss : \E j \in DOMAIN ss[i] : p = <<i, j>>
  OBVIOUS
<1>6. \A p \in I : p[1] \in DOMAIN ss /\ p[2] \in DOMAIN ss[p[1]] /\ p[1] \in Nat /\ p[2] \in Nat /\ p = <<p[1], p[2]>>
  <2>1. SUFFICES ASSUME NEW p \in I
                 PROVE  p[1] \in DOMAIN ss /\ p[2] \in DOMAIN ss[p[1]] /\ p[1] \in Nat /\ p[2] \in Nat /\ p = <<p[1], p[2]>>
    OBVIOUS
  <2>2. PICK i \in DOMAIN ss : \E j \in DOMAIN ss[i] : p = <<i, j>>
    BY <1>5
  <2>3. PICK j \in DOMAIN ss[i] : p = <<i, j>>
    BY <2>2
  <2>4. DOMAIN ss[i] \subseteq Nat
    BY <1>2
  <2> HIDE DEF I, row
  <2>5. p[1] = i /\ p[2] = j /\ i \in Nat /\ j \in Nat
    BY <2>3, <2>4, <1>1
  <2>. QED
    BY <2>3, <2>5
<1>7. \A x, y \in I : <<x, y>> \in R <=> x[1] < y[1] \/ (x[1] = y[1] /\ x[2] < y[2])
  OBVIOUS
<1>8. Along(ss) = [n \in DOMAIN InOrder(I, R) |-> ss[InOrder(I, R)[n][1]][InOrder(I, R)[n][2]]]
  BY DEF Along
<1> HIDE DEF I, R
<1>9. /\ \A x \in I : ~(<<x, x>> \in R)
      /\ \A x, y \in I : x = y \/ <<x, y>> \in R \/ <<y, x>> \in R
      /\ \A x, y, z \in I : <<x, y>> \in R /\ <<y, z>> \in R => <<x, z>> \in R
  <2>1. \A x \in I : ~(<<x, x>> \in R)
    BY <1>6, <1>7
  <2>2. \A x, y \in I : x = y \/ <<x, y>> \in R \/ <<y, x>> \in R
    <3>1. ASSUME NEW x \in I, NEW y \in I, x[1] = y[1], x[2] = y[2] PROVE x = y
      BY <3>1, <1>6
    <3>2. SUFFICES ASSUME NEW x \in I, NEW y \in I, x # y PROVE <<x, y>> \in R \/ <<y, x>> \in R
      OBVIOUS
    <3>3. x[1] # y[1] \/ x[2] # y[2]
      BY <3>1, <3>2
    <3>4. x[1] \in Nat /\ x[2] \in Nat /\ y[1] \in Nat /\ y[2] \in Nat
      BY <1>6
    <3>5. x[1] < y[1] \/ (x[1] = y[1] /\ x[2] < y[2]) \/ y[1] < x[1] \/ (y[1] = x[1] /\ y[2] < x[2])
      BY <3>3, <3>4
    <3>. QED
      BY <3>5, <1>7
  <2>3. \A x, y, z \in I : <<x, y>> \in R /\ <<y, z>> \in R => <<x, z>> \in R
    BY <1>6, <1>7
  <2>. QED
    BY <2>1, <2>2, <2>3
<1> DEFINE o == InOrder(I, R)
<1>10. Cardinality(I) \in Nat /\ DOMAIN o = 1 .. Cardinality(I) /\ o \in [1 .. Cardinality(I) -> I]
  BY <1>4, <1>9, OrderLists
<1>11. Along(ss) = [n \in DOMAIN o |-> ss[o[n][1]][o[n][2]]]
  BY <1>8
<1> HIDE DEF o
<1>12. Along(ss) = [n \in 1 .. Cardinality(I) |-> Along(ss)[n]]
  BY <1>10, <1>11
<1>13. IsList(Along(ss)) /\ DOMAIN Along(ss) = 1 .. Cardinality(I)
  BY <1>10, <1>12, ListKnown
<1>14. ASSUME NEW n \in DOMAIN Along(ss)
       PROVE  \E i \in DOMAIN ss : \E j \in DOMAIN ss[i] : Along(ss)[n] = ss[i][j]
  <2>1. o[n] \in I /\ Along(ss)[n] = ss[o[n][1]][o[n][2]]
    BY <1>10, <1>11, <1>13
  <2>. QED
    BY <2>1, <1>6
<1>. QED
  BY <1>13, <1>14

LEMMA UptoTold ==
  ASSUME NEW s, IsList(s), NEW n \in Nat
  PROVE  /\ IsList(Upto(s, n)) /\ Len(Upto(s, n)) = (IF Len(s) < n THEN Len(s) ELSE n)
         /\ DOMAIN Upto(s, n) \subseteq DOMAIN s /\ \A i \in DOMAIN Upto(s, n) : Upto(s, n)[i] = s[i]
<1> DEFINE k == IF Len(s) < n THEN Len(s) ELSE n
<1>1. k \in Nat /\ 1 .. k \subseteq DOMAIN s
  BY DEF IsList
<1>2. Upto(s, n) = [i \in 1 .. k |-> s[i]]
  BY DEF Upto
<1> HIDE DEF k
<1>3. Upto(s, n) = [i \in 1 .. k |-> Upto(s, n)[i]]
  BY <1>2
<1>4. IsList(Upto(s, n)) /\ Len(Upto(s, n)) = k /\ DOMAIN Upto(s, n) = 1 .. k
  BY <1>1, <1>3, ListKnown
<1>. QED
  BY <1>1, <1>2, <1>4 DEF k

-----------------------------------------------------------------------------
\* A list of claims, each made by a profile that succeeded
ClaimOf(b, c) ==
  \E e \in Succeeded(b) : \E it \in Elements(e.items) :
    /\ c.article = e.article /\ c.of \in {0, c.article}
    /\ c.dim = it.dim /\ c.family = it.family /\ c.text = it.text
ClaimList(b, cs) == IsList(cs) /\ \A i \in DOMAIN cs : ClaimOf(b, cs[i])

LEMMA ClaimsChosen ==
  ASSUME NEW b, NEW cs, ClaimList(b, cs), NEW I \in SUBSET DOMAIN cs
  PROVE  ClaimList(b, Chosen(cs, I))
<1>1. IsList(cs)
  BY DEF ClaimList
<1>2. Gathers(Chosen(cs, I), cs, I)
  BY <1>1, ChosenGathers
<1> DEFINE t == Chosen(cs, I)
<1> HIDE DEF t
<1>3. IsList(t) /\ \A n \in DOMAIN t : \E i \in I : t[n] = cs[i]
  BY <1>2 DEF Gathers, t
<1>4. \A i \in I : ClaimOf(b, cs[i])
  BY DEF ClaimList
<1>5. ASSUME NEW n \in DOMAIN t PROVE ClaimOf(b, t[n])
  <2>1. PICK i \in I : t[n] = cs[i]
    BY <1>3
  <2>2. ClaimOf(b, cs[i])
    BY <1>4
  <2>. QED
    BY <2>1, <2>2
<1>6. ClaimList(b, t)
  BY <1>3, <1>5 DEF ClaimList
<1>. QED
  BY <1>6 DEF t

LEMMA ClaimsSorted ==
  ASSUME NEW b, NEW cs, ClaimList(b, cs), NEW key, \A i \in DOMAIN cs : key[i] \in Nat
  PROVE  ClaimList(b, Sorted(cs, key))
<1>1. IsList(cs)
  BY DEF ClaimList
<1>2. Gathers(Sorted(cs, key), cs, DOMAIN cs)
  BY <1>1, SortedGathers
<1> DEFINE t == Sorted(cs, key)
<1> HIDE DEF t
<1>3. IsList(t) /\ \A n \in DOMAIN t : \E i \in DOMAIN cs : t[n] = cs[i]
  BY <1>2 DEF Gathers, t
<1>4. ASSUME NEW n \in DOMAIN t PROVE ClaimOf(b, t[n])
  <2>1. PICK i \in DOMAIN cs : t[n] = cs[i]
    BY <1>3
  <2>2. ClaimOf(b, cs[i])
    BY DEF ClaimList
  <2>. QED
    BY <2>1, <2>2
<1>5. ClaimList(b, t)
  BY <1>3, <1>4 DEF ClaimList
<1>. QED
  BY <1>5 DEF t

LEMMA ClaimsUpto ==
  ASSUME NEW b, NEW cs, ClaimList(b, cs), NEW n \in Nat
  PROVE  ClaimList(b, Upto(cs, n))
<1> DEFINE t == Upto(cs, n)
<1>1. IsList(cs) /\ \A i \in DOMAIN cs : ClaimOf(b, cs[i])
  BY DEF ClaimList
<1>2. IsList(t) /\ DOMAIN t \subseteq DOMAIN cs /\ \A i \in DOMAIN t : t[i] = cs[i]
  BY <1>1, UptoTold
<1> HIDE DEF t
<1>3. \A i \in DOMAIN t : ClaimOf(b, t[i])
  BY <1>1, <1>2
<1>4. ClaimList(b, t)
  BY <1>2, <1>3 DEF ClaimList
<1>. QED
  BY <1>4 DEF t

LEMMA ProfilesSucceeded ==
  ASSUME NEW b, AskRead(b)
  PROVE  /\ IsList(successfulProfiles(b))
         /\ \A i \in DOMAIN successfulProfiles(b) : successfulProfiles(b)[i] \in Succeeded(b)
<1> DEFINE I == {i \in DOMAIN b.entries : b.entries[i].succeeded}
           es == successfulProfiles(b)
<1>1. IsList(b.entries)
  BY DEF AskRead
<1>2. es = Chosen(b.entries, I)
  BY DEF successfulProfiles
<1>3. Gathers(es, b.entries, I)
  BY <1>1, <1>2, ChosenGathers
<1> HIDE DEF es
<1>4. IsList(es) /\ \A n \in DOMAIN es : \E i \in I : es[n] = b.entries[i]
  BY <1>3 DEF Gathers
<1>5. \A i \in I : b.entries[i] \in Succeeded(b)
  BY DEF Succeeded, Elements
<1>. QED
  BY <1>4, <1>5 DEF es

LEMMA SucceededRead ==
  ASSUME NEW b, AskRead(b), NEW e \in Succeeded(b)
  PROVE  /\ IsList(e.items) /\ IsList(e.actors)
         /\ \A j \in DOMAIN e.items : e.items[j].of \in {0, e.article}
         /\ \A j \in DOMAIN e.actors : e.actors[j].of \in {0, e.article} /\ e.actors[j].count \in Nat
<1>1. PICK i \in DOMAIN b.entries : e = b.entries[i]
  BY DEF Succeeded, Elements
<1>. QED
  BY <1>1 DEF AskRead

\* Every claim is one of a profile that succeeded.
LEMMA ClaimsGiven ==
  ASSUME NEW b, AskRead(b)
  PROVE  ClaimList(b, semanticClaims(b))
<1> DEFINE es == successfulProfiles(b)
           row(i) == [j \in DOMAIN es[i].items |-> ClaimAt(es[i], j)]
           ss == [i \in DOMAIN es |-> row(i)]
           all == Along(ss)
           I == {i \in DOMAIN all : all[i].text # ""}
<1>1. IsList(es) /\ \A i \in DOMAIN es : es[i] \in Succeeded(b)
  BY ProfilesSucceeded
<1>2. semanticClaims(b) = Chosen(all, I)
  BY DEF semanticClaims
<1> HIDE DEF es
<1>3. ASSUME NEW i \in DOMAIN es
      PROVE  IsList(row(i)) /\ DOMAIN row(i) = DOMAIN es[i].items /\ \A j \in DOMAIN row(i) : ClaimOf(b, row(i)[j])
  <2>1. es[i] \in Succeeded(b)
    BY <1>1
  <2>2. IsList(es[i].items) /\ \A j \in DOMAIN es[i].items : es[i].items[j].of \in {0, es[i].article}
    BY <2>1, SucceededRead
  <2>3. Len(es[i].items) \in Nat /\ DOMAIN es[i].items = 1 .. Len(es[i].items)
    BY <2>2 DEF IsList
  <2> DEFINE t == row(i)
  <2>4. t = [j \in 1 .. Len(es[i].items) |-> t[j]] /\ DOMAIN t = DOMAIN es[i].items
    BY <2>3
  <2>5. IsList(t)
    BY <2>3, <2>4, ListKnown
  <2>6. ASSUME NEW j \in DOMAIN t PROVE ClaimOf(b, t[j])
    <3>1. j \in DOMAIN es[i].items /\ t[j] = ClaimAt(es[i], j)
      BY <2>4
    <3>2. es[i].items[j] \in Elements(es[i].items)
      BY <3>1 DEF Elements
    <3>3. es[i].items[j].of \in {0, es[i].article}
      BY <3>1, <2>2
    <3> DEFINE c == ClaimAt(es[i], j)
               it == es[i].items[j]
    <3>4. /\ c.article = es[i].article /\ c.of = it.of /\ c.dim = it.dim /\ c.family = it.family /\ c.text = it.text
      BY DEF ClaimAt
    <3> HIDE DEF c, it
    <3>5. c.article = es[i].article /\ c.of \in {0, c.article} /\ c.dim = it.dim /\ c.family = it.family /\ c.text = it.text
      BY <3>3, <3>4 DEF it
    <3>6. it \in Elements(es[i].items)
      BY <3>2 DEF it
    <3>7. ClaimOf(b, c)
      BY <3>5, <3>6, <2>1, Zenon DEF ClaimOf
    <3>. QED
      BY <3>1, <3>7 DEF c
  <2>. QED
    BY <2>4, <2>5, <2>6
<1>4. DOMAIN ss = DOMAIN es /\ \A i \in DOMAIN ss : ss[i] = row(i)
  OBVIOUS
<1> HIDE DEF row
<1>5. Len(es) \in Nat /\ DOMAIN es = 1 .. Len(es)
  BY <1>1 DEF IsList
<1>6. ss = [i \in 1 .. Len(es) |-> ss[i]]
  BY <1>5
<1> HIDE DEF ss
<1>7. IsList(ss)
  BY <1>5, <1>6, ListKnown
<1>8. \A i \in DOMAIN ss : IsList(ss[i]) /\ \A j \in DOMAIN ss[i] : ClaimOf(b, ss[i][j])
  BY <1>3, <1>4
<1>9. IsList(all) /\ \A n \in DOMAIN all : \E i \in DOMAIN ss : \E j \in DOMAIN ss[i] : all[n] = ss[i][j]
  BY <1>7, <1>8, AlongTold
<1> HIDE DEF all
<1>10. ASSUME NEW n \in DOMAIN all PROVE ClaimOf(b, all[n])
  <2>1. PICK i \in DOMAIN ss : \E j \in DOMAIN ss[i] : all[n] = ss[i][j]
    BY <1>9
  <2>2. PICK j \in DOMAIN ss[i] : all[n] = ss[i][j]
    BY <2>1
  <2>3. ClaimOf(b, ss[i][j])
    BY <1>8
  <2>. QED
    BY <2>2, <2>3
<1>11. ClaimList(b, all)
  BY <1>9, <1>10 DEF ClaimList
<1>12. I \in SUBSET DOMAIN all
  OBVIOUS
<1> HIDE DEF I
<1>. QED
  BY <1>2, <1>11, <1>12, ClaimsChosen

LEMMA WordsCounted ==
  ASSUME NEW q, IsFiniteSet(q), NEW words
  PROVE  WordsShared(q, words) \in Nat
<1>1. IsFiniteSet(q \cap words)
  BY FS_Intersection
<1>. QED
  BY <1>1, FS_CardinalityType DEF WordsShared

LEMMA ClaimsRanked ==
  ASSUME NEW b, NEW q, IsFiniteSet(q), NEW cs, ClaimList(b, cs)
  PROVE  ClaimList(b, RankedClaims(q, cs))
<1> DEFINE key == [i \in DOMAIN cs |-> WordsShared(q, WordsOf[cs[i].text])]
<1>1. \A i \in DOMAIN cs : key[i] \in Nat
  BY WordsCounted
<1> HIDE DEF key
<1>2. ClaimList(b, Sorted(cs, key))
  BY <1>1, ClaimsSorted
<1>. QED
  BY <1>2 DEF RankedClaims, key

-----------------------------------------------------------------------------
SaidBy(es) == UNION {Elements(e.items) : e \in es}
CitedRight(b, cited) ==
  \A c \in Elements(cited) : InBundle(b, c.article) /\ c.article \in b.linked /\ (WellNamed(b) => c.of \in {0, c.article})
TextsRight(b, by, texts) ==
  /\ by \in {"claims", "families", "pair"} => texts \subseteq {c.text : c \in SaidBy(Succeeded(b))}
  /\ by = "families" => \E c, d \in SaidBy(Succeeded(b)) : texts = {c.text, d.text} /\ c.dim = d.dim /\ c.family # d.family
  /\ by = "pair" => \E e, f \in Succeeded(b) : \E c \in Elements(e.items), d \in Elements(f.items) :
                      e # f /\ c.text # d.text /\ texts = {c.text, d.text}
AnswerRight(b, answer) == CitedRight(b, answer.cited) /\ TextsRight(b, answer.by, Elements(answer.texts))

LEMMA NothingTold ==
  ASSUME NEW b
  PROVE  AnswerRight(b, NoGrounds)
<1>1. NoGrounds.by = "none" /\ NoGrounds.cited = << >> /\ NoGrounds.texts = << >>
  BY DEF NoGrounds
<1>2. Elements(<< >>) = {}
  BY DEF Elements
<1>3. CitedRight(b, << >>)
  BY <1>2 DEF CitedRight
<1>4. TextsRight(b, "none", {})
  BY DEF TextsRight
<1>. QED
  BY <1>1, <1>2, <1>3, <1>4 DEF AnswerRight

\* What is cited is there, and under its own article if the rows are right.
LEMMA CitesTold ==
  ASSUME NEW b, NEW rows, IsList(rows),
         WellNamed(b) => \A i \in DOMAIN rows : Citable(b, rows[i].article) => rows[i].of \in {0, rows[i].article}
  PROVE  IsList(Cites(b, rows)) /\ CitedRight(b, Cites(b, rows))
<1> DEFINE bare == [i \in DOMAIN rows |-> [article |-> rows[i].article, of |-> rows[i].of]]
           I == {i \in DOMAIN rows : Citable(b, rows[i].article)}
           t == Cites(b, rows)
<1>1. Len(rows) \in Nat /\ DOMAIN rows = 1 .. Len(rows)
  BY DEF IsList
<1>2. t = Chosen(bare, I)
  BY DEF Cites
<1>3. DOMAIN bare = DOMAIN rows /\ \A i \in DOMAIN rows : bare[i].article = rows[i].article /\ bare[i].of = rows[i].of
  OBVIOUS
<1>4. bare = [i \in 1 .. Len(rows) |-> bare[i]]
  BY <1>1
<1> HIDE DEF bare, t
<1>5. IsList(bare)
  BY <1>1, <1>4, ListKnown
<1>6. I \in SUBSET DOMAIN bare
  BY <1>3
<1>7. Gathers(t, bare, I)
  BY <1>2, <1>5, <1>6, ChosenGathers
<1>8. IsList(t) /\ \A n \in DOMAIN t : \E i \in I : t[n] = bare[i]
  BY <1>7 DEF Gathers
<1>9. ASSUME NEW c \in Elements(t)
      PROVE  InBundle(b, c.article) /\ c.article \in b.linked /\ (WellNamed(b) => c.of \in {0, c.article})
  <2>1. PICK n \in DOMAIN t : c = t[n]
    BY DEF Elements
  <2>2. PICK i \in I : t[n] = bare[i]
    BY <1>8
  <2>3. c.article = rows[i].article /\ c.of = rows[i].of
    BY <1>3, <2>1, <2>2
  <2>4. i \in DOMAIN rows /\ Citable(b, rows[i].article)
    OBVIOUS
  <2>5. InBundle(b, rows[i].article) /\ rows[i].article \in b.linked
    BY <2>4 DEF Citable
  <2>6. WellNamed(b) => rows[i].of \in {0, rows[i].article}
    BY <2>4
  <2>. QED
    BY <2>3, <2>5, <2>6
<1>. QED
  BY <1>8, <1>9 DEF CitedRight, t

LEMMA NamedNotNone ==
  ASSUME NEW b, AskRead(b), NEW a, InBundle(b, a)
  PROVE  a # 0
BY DEF AskRead, InBundle

LEMMA RulesCite ==
  ASSUME NEW b, AskRead(b), NEW rows, IsList(rows),
         WellNamed(b) => \A i \in DOMAIN rows : InBundle(b, rows[i].article) /\ RowRead(rows[i])
  PROVE  IsList(CitesRule(b, rows)) /\ CitedRight(b, CitesRule(b, rows))
<1> DEFINE stood == [i \in DOMAIN rows |-> [article |-> StandIn(b, rows[i].article), of |-> rows[i].of]]
<1>1. Len(rows) \in Nat /\ DOMAIN rows = 1 .. Len(rows)
  BY DEF IsList
<1>2. stood = [i \in 1 .. Len(rows) |-> stood[i]] /\ DOMAIN stood = DOMAIN rows
  BY <1>1
<1>3. \A i \in DOMAIN rows : stood[i].article = StandIn(b, rows[i].article) /\ stood[i].of = rows[i].of
  OBVIOUS
<1>4. CitesRule(b, rows) = Cites(b, stood)
  BY DEF CitesRule
<1> HIDE DEF stood
<1>5. IsList(stood)
  BY <1>1, <1>2, ListKnown
<1>6. ASSUME WellNamed(b), NEW i \in DOMAIN stood PROVE stood[i].of \in {0, stood[i].article}
  <2>1. InBundle(b, rows[i].article) /\ RowRead(rows[i]) /\ i \in DOMAIN rows
    BY <1>2, <1>6
  <2>2. stood[i].article = rows[i].article
    BY <1>3, <2>1 DEF StandIn
  <2>3. rows[i].article # 0
    BY <2>1, NamedNotNone
  <2>. QED
    BY <1>3, <2>1, <2>2, <2>3 DEF RowRead
<1>7. IsList(Cites(b, stood)) /\ CitedRight(b, Cites(b, stood))
  BY <1>5, <1>6, CitesTold
<1>. QED
  BY <1>4, <1>7

LEMMA FewerCited ==
  ASSUME NEW b, NEW cited, IsList(cited), CitedRight(b, cited), NEW n \in Nat
  PROVE  CitedRight(b, Upto(cited, n))
<1> DEFINE t == Upto(cited, n)
<1>1. DOMAIN t \subseteq DOMAIN cited /\ \A i \in DOMAIN t : t[i] = cited[i]
  BY UptoTold
<1> HIDE DEF t
<1>2. Elements(t) \subseteq Elements(cited)
  BY <1>1 DEF Elements
<1>3. CitedRight(b, t)
  BY <1>2 DEF CitedRight
<1>. QED
  BY <1>3 DEF t

\* The answer that tells some rows
LEMMA ToldAnswer ==
  ASSUME NEW b, NEW by, NEW cs, IsList(cs),
         WellNamed(b) => \A i \in DOMAIN cs : cs[i].of \in {0, cs[i].article},
         DOMAIN cs # {} => TextsRight(b, by, {cs[i].text : i \in DOMAIN cs})
  PROVE  AnswerRight(b, AnswerTold(by, b, cs))
<1> DEFINE texts == [i \in DOMAIN cs |-> cs[i].text]
<1>1. CASE DOMAIN cs = {}
  <2>1. AnswerTold(by, b, cs) = NoGrounds
    BY <1>1 DEF AnswerTold
  <2>. QED
    BY <2>1, NothingTold
<1>2. CASE DOMAIN cs # {}
  <2> DEFINE answer == AskAnswered(by, texts, Cites(b, cs))
  <2>1. AnswerTold(by, b, cs) = answer
    BY <1>2 DEF AnswerTold
  <2>2. answer.by = by /\ answer.cited = Cites(b, cs) /\ answer.texts = texts
    BY DEF AskAnswered
  <2>3. Elements(texts) = {cs[i].text : i \in DOMAIN cs}
    BY DEF Elements
  <2>4. CitedRight(b, Cites(b, cs))
    BY CitesTold
  <2> HIDE DEF texts, answer
  <2>5. AnswerRight(b, answer)
    BY <1>2, <2>2, <2>3, <2>4 DEF AnswerRight
  <2>. QED
    BY <2>1, <2>5
<1>. QED
  BY <1>1, <1>2

LEMMA ClaimsOfTheirOwn ==
  ASSUME NEW b, NEW cs, ClaimList(b, cs)
  PROVE  /\ IsList(cs) /\ \A i \in DOMAIN cs : cs[i].of \in {0, cs[i].article}
         /\ {cs[i].text : i \in DOMAIN cs} \subseteq {c.text : c \in SaidBy(Succeeded(b))}
<1>1. ASSUME NEW i \in DOMAIN cs
      PROVE  cs[i].of \in {0, cs[i].article} /\ cs[i].text \in {c.text : c \in SaidBy(Succeeded(b))}
  <2>1. PICK e \in Succeeded(b) : \E it \in Elements(e.items) : cs[i].of \in {0, cs[i].article} /\ cs[i].text = it.text
    BY Zenon DEF ClaimList, ClaimOf
  <2>2. PICK it \in Elements(e.items) : cs[i].of \in {0, cs[i].article} /\ cs[i].text = it.text
    BY <2>1
  <2>3. it \in SaidBy(Succeeded(b))
    BY DEF SaidBy
  <2>. QED
    BY <2>2, <2>3
<1>2. IsList(cs)
  BY DEF ClaimList
<1>. QED
  BY <1>1, <1>2

LEMMA ClaimsAnswer ==
  ASSUME NEW b, NEW cs, ClaimList(b, cs)
  PROVE  AnswerRight(b, AnswerTold("claims", b, cs))
<1> DEFINE texts == {cs[i].text : i \in DOMAIN cs}
<1>1. /\ IsList(cs) /\ \A i \in DOMAIN cs : cs[i].of \in {0, cs[i].article}
      /\ texts \subseteq {c.text : c \in SaidBy(Succeeded(b))}
  BY ClaimsOfTheirOwn
<1> HIDE DEF texts
<1>2. TextsRight(b, "claims", texts)
  BY <1>1 DEF TextsRight
<1>. QED
  BY <1>1, <1>2, ToldAnswer DEF texts

-----------------------------------------------------------------------------
\* The families told are those of some claims each, no two of them the same.
LEMMA FamiliesApart ==
  ASSUME NEW b, NEW cs, ClaimList(b, cs)
  PROVE  /\ ClaimList(b, Families(cs))
         /\ \A n \in DOMAIN Families(cs) : \E i \in DOMAIN cs : Families(cs)[n] = cs[i]
         /\ \A m, n \in DOMAIN Families(cs) : m # n => Families(cs)[m].family # Families(cs)[n].family
<1> DEFINE I == {i \in DOMAIN cs : \A j \in 1 .. i - 1 : cs[j].family # cs[i].family}
           firsts == Chosen(cs, I)
           key == [i \in DOMAIN firsts |-> Cardinality({j \in DOMAIN cs : cs[j].family = firsts[i].family})]
           t == Families(cs)
<1>1. t = Sorted(firsts, key)
  BY DEF Families
<1>2. IsList(cs) /\ DOMAIN cs \subseteq Nat /\ IsFiniteSet(DOMAIN cs)
  BY FS_Interval DEF ClaimList, IsList
<1>3. \A i, j \in I : i # j => cs[i].family # cs[j].family
  <2>1. \A i, j \in I : i < j => cs[i].family # cs[j].family
    <3>1. SUFFICES ASSUME NEW i \in I, NEW j \in I, i < j PROVE cs[i].family # cs[j].family
      OBVIOUS
    <3>2. i \in 1 .. j - 1
      BY <1>2, <3>1 DEF IsList
    <3>. QED
      BY <3>2
  <2>2. \A i, j \in I : i \in Nat /\ j \in Nat /\ (i # j => i < j \/ j < i)
    BY <1>2
  <2> HIDE DEF I
  <2>. QED
    BY <2>1, <2>2
<1>4. I \in SUBSET DOMAIN cs
  OBVIOUS
<1> HIDE DEF I, t
<1>5. ClaimList(b, firsts) /\ Gathers(firsts, cs, I)
  BY <1>2, <1>4, ClaimsChosen, ChosenGathers
<1> HIDE DEF firsts
<1>6. \A i \in DOMAIN firsts : key[i] \in Nat
  <2>1. SUFFICES ASSUME NEW i \in DOMAIN firsts PROVE key[i] \in Nat
    OBVIOUS
  <2>2. IsFiniteSet({j \in DOMAIN cs : cs[j].family = firsts[i].family})
    BY <1>2, FS_Subset
  <2>. QED
    BY <2>2, FS_CardinalityType
<1> HIDE DEF key
<1>7. ClaimList(b, t)
  BY <1>1, <1>5, <1>6, ClaimsSorted
<1>8. Gathers(t, firsts, DOMAIN firsts)
  BY <1>1, <1>5, <1>6, SortedGathers DEF ClaimList
<1>9. PICK p \in [DOMAIN firsts -> I] :
        /\ \A n \in DOMAIN firsts : firsts[n] = cs[p[n]]
        /\ \A m, n \in DOMAIN firsts : p[m] = p[n] => m = n
  BY <1>5, Zenon DEF Gathers
<1>10. PICK r \in [DOMAIN t -> DOMAIN firsts] :
        /\ \A n \in DOMAIN t : t[n] = firsts[r[n]]
        /\ \A m, n \in DOMAIN t : r[m] = r[n] => m = n
  BY <1>8, Zenon DEF Gathers
<1>11. \A n \in DOMAIN t : r[n] \in DOMAIN firsts /\ p[r[n]] \in I /\ t[n] = cs[p[r[n]]]
  BY <1>9, <1>10
<1>12. \A n \in DOMAIN t : \E i \in DOMAIN cs : t[n] = cs[i]
  BY <1>4, <1>11
<1>13. ASSUME NEW m \in DOMAIN t, NEW n \in DOMAIN t, m # n PROVE t[m].family # t[n].family
  <2>1. r[m] # r[n]
    BY <1>10, <1>13
  <2>2. p[r[m]] # p[r[n]]
    BY <2>1, <1>9, <1>11
  <2>3. cs[p[r[m]]].family # cs[p[r[n]]].family
    BY <2>2, <1>3, <1>11
  <2>. QED
    BY <2>3, <1>11
<1>. QED
  BY <1>7, <1>12, <1>13 DEF t

LEMMA FirstTwo ==
  ASSUME NEW s, IsList(s), Len(s) >= 2
  PROVE  /\ DOMAIN Upto(s, 2) = 1 .. 2 /\ 1 \in DOMAIN s /\ 2 \in DOMAIN s
         /\ Upto(s, 2)[1] = s[1] /\ Upto(s, 2)[2] = s[2]
<1>1. /\ IsList(Upto(s, 2)) /\ Len(Upto(s, 2)) = (IF Len(s) < 2 THEN Len(s) ELSE 2)
      /\ DOMAIN Upto(s, 2) \subseteq DOMAIN s /\ \A i \in DOMAIN Upto(s, 2) : Upto(s, 2)[i] = s[i]
  BY UptoTold
<1>2. Len(s) \in Nat
  BY DEF IsList
<1>3. Len(Upto(s, 2)) = 2
  BY <1>1, <1>2
<1>4. DOMAIN Upto(s, 2) = 1 .. 2
  BY <1>1, <1>3 DEF IsList
<1>5. 1 \in DOMAIN Upto(s, 2) /\ 2 \in DOMAIN Upto(s, 2)
  BY <1>4
<1>. QED
  BY <1>1, <1>4, <1>5

LEMMA OfADimension ==
  ASSUME NEW b, NEW cs, ClaimList(b, cs), NEW d
  PROVE  ClaimList(b, InDimension(cs, d)) /\ \A i \in DOMAIN InDimension(cs, d) : InDimension(cs, d)[i].dim = d
<1> DEFINE I == {i \in DOMAIN cs : cs[i].dim = d}
           t == InDimension(cs, d)
<1>1. t = Chosen(cs, I) /\ I \in SUBSET DOMAIN cs /\ IsList(cs)
  BY DEF InDimension, ClaimList
<1>2. \A i \in I : cs[i].dim = d
  OBVIOUS
<1> HIDE DEF t, I
<1>3. ClaimList(b, t) /\ Gathers(t, cs, I)
  BY <1>1, ClaimsChosen, ChosenGathers
<1>4. \A n \in DOMAIN t : \E i \in I : t[n] = cs[i]
  BY <1>3 DEF Gathers
<1>. QED
  BY <1>2, <1>3, <1>4 DEF t

\* Two families of one dimension
LEMMA FamiliesAnswer ==
  ASSUME NEW b, NEW cs, ClaimList(b, cs), NEW d, Len(Families(InDimension(cs, d))) >= 2
  PROVE  AnswerRight(b, AnswerTold("families", b, Upto(Families(InDimension(cs, d)), 2)))
<1> DEFINE dims == InDimension(cs, d)
           fams == Families(dims)
           t == Upto(fams, 2)
<1>1. ClaimList(b, dims) /\ \A i \in DOMAIN dims : dims[i].dim = d
  BY OfADimension
<1> HIDE DEF dims
<1>2. /\ ClaimList(b, fams)
      /\ \A n \in DOMAIN fams : \E i \in DOMAIN dims : fams[n] = dims[i]
      /\ \A m, n \in DOMAIN fams : m # n => fams[m].family # fams[n].family
  BY <1>1, FamiliesApart
<1>3. Len(fams) >= 2
  BY DEF dims
<1> HIDE DEF fams
<1>4. ClaimList(b, t)
  BY <1>2, ClaimsUpto
<1>5. DOMAIN t = 1 .. 2 /\ 1 \in DOMAIN fams /\ 2 \in DOMAIN fams /\ t[1] = fams[1] /\ t[2] = fams[2]
  BY <1>2, <1>3, FirstTwo DEF ClaimList
<1> HIDE DEF t
<1>6. t[1].dim = d /\ t[2].dim = d /\ t[1].family # t[2].family
  <2>1. fams[1].dim = d /\ fams[2].dim = d
    BY <1>1, <1>2, <1>5
  <2>2. fams[1].family # fams[2].family
    BY <1>2, <1>5
  <2>. QED
    BY <2>1, <2>2, <1>5
<1>7. DOMAIN t = {1, 2}
  BY <1>5
<1> DEFINE texts == {t[i].text : i \in DOMAIN t}
<1>8. texts = {t[1].text, t[2].text}
  BY <1>7
<1>9. ASSUME NEW i \in DOMAIN t
      PROVE  \E it \in SaidBy(Succeeded(b)) : t[i].text = it.text /\ t[i].dim = it.dim /\ t[i].family = it.family
  <2>1. ClaimOf(b, t[i])
    BY <1>4 DEF ClaimList
  <2>2. PICK e \in Succeeded(b) : \E it \in Elements(e.items) : t[i].dim = it.dim /\ t[i].family = it.family /\ t[i].text = it.text
    BY <2>1, Zenon DEF ClaimOf
  <2>3. PICK it \in Elements(e.items) : t[i].dim = it.dim /\ t[i].family = it.family /\ t[i].text = it.text
    BY <2>2
  <2>4. it \in SaidBy(Succeeded(b))
    BY DEF SaidBy
  <2>. QED
    BY <2>3, <2>4
<1>10. PICK c \in SaidBy(Succeeded(b)) : t[1].text = c.text /\ t[1].dim = c.dim /\ t[1].family = c.family
  BY <1>7, <1>9
<1>11. PICK e \in SaidBy(Succeeded(b)) : t[2].text = e.text /\ t[2].dim = e.dim /\ t[2].family = e.family
  BY <1>7, <1>9
<1>12. texts = {c.text, e.text} /\ c.dim = e.dim /\ c.family # e.family
  BY <1>6, <1>8, <1>10, <1>11
<1>13. \E x, y \in SaidBy(Succeeded(b)) : texts = {x.text, y.text} /\ x.dim = y.dim /\ x.family # y.family
  BY <1>12
<1>14. texts \subseteq {x.text : x \in SaidBy(Succeeded(b))} /\ IsList(t) /\ \A i \in DOMAIN t : t[i].of \in {0, t[i].article}
  BY <1>4, ClaimsOfTheirOwn
<1> HIDE DEF texts
<1>15. TextsRight(b, "families", texts)
  BY <1>13, <1>14 DEF TextsRight
<1>16. AnswerRight(b, AnswerTold("families", b, t))
  BY <1>14, <1>15, ToldAnswer DEF texts
<1>. QED
  BY <1>16 DEF t, fams, dims

\* One more place apart from those picked
ApartPlaces(cs, I) ==
  /\ I \subseteq DOMAIN cs /\ IsFiniteSet(I)
  /\ \A i, j \in I : i # j => cs[i].article # cs[j].article /\ cs[i].text # cs[j].text

LEMMA PickedApart ==
  ASSUME NEW cs, IsList(cs), NEW I, ApartPlaces(cs, I)
  PROVE  ApartPlaces(cs, OneMoreApart(cs, I)) /\ Cardinality(OneMoreApart(cs, I)) <= Cardinality(I) + 1
<1> DEFINE free == {i \in DOMAIN cs : \A j \in I : cs[i].article # cs[j].article /\ cs[i].text # cs[j].text}
<1>1. IsFiniteSet(I) /\ Cardinality(I) \in Nat
  BY FS_CardinalityType DEF ApartPlaces
<1>2. CASE free = {}
  BY <1>1, <1>2 DEF OneMoreApart
<1>3. CASE free # {}
  <2>1. free \in SUBSET Nat /\ IsFiniteSet(free)
    <3>1. DOMAIN cs \in SUBSET Nat /\ IsFiniteSet(DOMAIN cs)
      BY FS_Interval DEF IsList
    <3>. QED
      BY <3>1, FS_Subset
  <2>2. \E x \in free : \A y \in free : x <= y
    <3> HIDE DEF free
    <3>. QED
      BY <1>3, <2>1, EndsOf
  <2>3. Min(free) \in free
    BY <2>2 DEF Min
  <2> DEFINE m == Min(free)
             J == I \cup {m}
  <2>4. OneMoreApart(cs, I) = J
    BY <1>3 DEF OneMoreApart
  <2>5. m \in DOMAIN cs /\ \A j \in I : cs[m].article # cs[j].article /\ cs[m].text # cs[j].text
    BY <2>3
  <2> HIDE DEF m
  <2>6. IsFiniteSet(J) /\ Cardinality(J) <= Cardinality(I) + 1
    BY <1>1, FS_AddElement
  <2>7. ApartPlaces(cs, J)
    BY <2>5, <2>6 DEF ApartPlaces
  <2>. QED
    BY <2>4, <2>6, <2>7
<1>. QED
  BY <1>2, <1>3

\* Two claims of two articles
LEMMA PairAnswer ==
  ASSUME NEW b, NEW cs, ClaimList(b, cs), Len(TwoApart(cs)) >= 2
  PROVE  AnswerRight(b, AnswerTold("pair", b, TwoApart(cs)))
<1> DEFINE I == OneMoreApart(cs, OneMoreApart(cs, {}))
           t == TwoApart(cs)
<1>1. IsList(cs)
  BY DEF ClaimList
<1>2. ApartPlaces(cs, {}) /\ Cardinality({}) = 0
  BY FS_EmptySet DEF ApartPlaces
<1>3. ApartPlaces(cs, OneMoreApart(cs, {})) /\ Cardinality(OneMoreApart(cs, {})) <= 1
  BY <1>1, <1>2, PickedApart
<1>4. ApartPlaces(cs, I) /\ Cardinality(I) <= Cardinality(OneMoreApart(cs, {})) + 1
  BY <1>1, <1>3, PickedApart
<1>5. Cardinality(I) \in Nat /\ Cardinality(OneMoreApart(cs, {})) \in Nat
  BY <1>3, <1>4, FS_CardinalityType DEF ApartPlaces
<1>6. Cardinality(I) <= 2
  BY <1>3, <1>4, <1>5
<1>7. t = Chosen(cs, I) /\ I \in SUBSET DOMAIN cs
  BY <1>4 DEF TwoApart, ApartPlaces
<1>8. \A i, j \in I : i # j => cs[i].article # cs[j].article /\ cs[i].text # cs[j].text
  BY <1>4 DEF ApartPlaces
<1>9. Len(t) >= 2
  OBVIOUS
<1> HIDE DEF I, t
<1>10. ClaimList(b, t) /\ Gathers(t, cs, I)
  BY <1>1, <1>7, ClaimsChosen, ChosenGathers
<1>11. IsList(t) /\ Len(t) = Cardinality(I)
  BY <1>10 DEF Gathers
<1>12. DOMAIN t = {1, 2}
  <2>1. Len(t) = 2
    BY <1>5, <1>6, <1>9, <1>11
  <2>. QED
    BY <2>1, <1>11 DEF IsList
<1>13. PICK p \in [DOMAIN t -> I] :
        /\ \A n \in DOMAIN t : t[n] = cs[p[n]]
        /\ \A m, n \in DOMAIN t : p[m] = p[n] => m = n
  BY <1>10, Zenon DEF Gathers
<1>14. t[1].article # t[2].article /\ t[1].text # t[2].text
  <2>1. p[1] \in I /\ p[2] \in I /\ p[1] # p[2] /\ t[1] = cs[p[1]] /\ t[2] = cs[p[2]]
    BY <1>12, <1>13
  <2>. QED
    BY <2>1, <1>8
<1> DEFINE texts == {t[i].text : i \in DOMAIN t}
<1>15. texts = {t[1].text, t[2].text}
  BY <1>12
<1>16. \A i \in DOMAIN t : \E e \in Succeeded(b) : \E it \in Elements(e.items) : t[i].article = e.article /\ t[i].text = it.text
  BY <1>10, Zenon DEF ClaimList, ClaimOf
<1>17. PICK e \in Succeeded(b) : \E it \in Elements(e.items) : t[1].article = e.article /\ t[1].text = it.text
  BY <1>12, <1>16
<1>18. PICK c \in Elements(e.items) : t[1].article = e.article /\ t[1].text = c.text
  BY <1>17
<1>19. PICK f \in Succeeded(b) : \E it \in Elements(f.items) : t[2].article = f.article /\ t[2].text = it.text
  BY <1>12, <1>16
<1>20. PICK d \in Elements(f.items) : t[2].article = f.article /\ t[2].text = d.text
  BY <1>19
<1>21. e # f /\ c.text # d.text /\ texts = {c.text, d.text}
  BY <1>14, <1>15, <1>18, <1>20
<1>22. texts \subseteq {x.text : x \in SaidBy(Succeeded(b))} /\ IsList(t) /\ \A i \in DOMAIN t : t[i].of \in {0, t[i].article}
  BY <1>10, ClaimsOfTheirOwn
<1> HIDE DEF texts
<1>23. \E x, y \in Succeeded(b) : \E v \in Elements(x.items), w \in Elements(y.items) :
         x # y /\ v.text # w.text /\ texts = {v.text, w.text}
  BY <1>21
<1>24. TextsRight(b, "pair", texts)
  BY <1>22, <1>23 DEF TextsRight
<1>25. AnswerRight(b, AnswerTold("pair", b, t))
  BY <1>22, <1>24, ToldAnswer DEF texts
<1>. QED
  BY <1>25 DEF t

-----------------------------------------------------------------------------
LEMMA RelevantAnswer ==
  ASSUME NEW b, NEW q, NEW cs, ClaimList(b, cs)
  PROVE  AnswerRight(b, AnswerTold("claims", b, Relevant(q, cs)))
<1> DEFINE I == {i \in DOMAIN cs : WordsShared(q, WordsOf[cs[i].text]) > 0}
<1>1. Relevant(q, cs) = Upto(Chosen(cs, I), 3) /\ I \in SUBSET DOMAIN cs
  BY DEF Relevant
<1> HIDE DEF I
<1>2. ClaimList(b, Upto(Chosen(cs, I), 3))
  BY <1>1, ClaimsChosen, ClaimsUpto
<1>. QED
  BY <1>1, <1>2, ClaimsAnswer

LEMMA ThreeAnswer ==
  ASSUME NEW b, NEW cs, ClaimList(b, cs)
  PROVE  AnswerRight(b, AnswerTold("claims", b, ThreeApart(cs)))
<1> DEFINE one == OneMoreApart(cs, {})
           two == OneMoreApart(cs, one)
           three == OneMoreApart(cs, two)
<1>1. IsList(cs) /\ ApartPlaces(cs, {})
  BY FS_EmptySet DEF ClaimList, ApartPlaces
<1>2. ApartPlaces(cs, one)
  BY <1>1, PickedApart
<1> HIDE DEF one
<1>3. ApartPlaces(cs, two)
  BY <1>1, <1>2, PickedApart
<1> HIDE DEF two
<1>4. ApartPlaces(cs, three)
  BY <1>1, <1>3, PickedApart
<1> HIDE DEF three
<1>5. three \in SUBSET DOMAIN cs
  BY <1>4 DEF ApartPlaces
<1>6. ThreeApart(cs) = Chosen(cs, three)
  BY DEF ThreeApart, three, two, one
<1>7. ClaimList(b, ThreeApart(cs))
  BY <1>5, <1>6, ClaimsChosen
<1>. QED
  BY <1>7, ClaimsAnswer

LEMMA DifferenceAnswer ==
  ASSUME NEW b, NEW q, NEW cs, ClaimList(b, cs)
  PROVE  AnswerRight(b, DifferencePage(b, q, cs))
<1> DEFINE divided == {i \in DOMAIN DimensionOrder : /\ NamedIn(q) = {} \/ DimensionOrder[i] \in NamedIn(q)
                                                     /\ Len(Families(InDimension(cs, DimensionOrder[i]))) >= 2}
           alike == {i \in DOMAIN cs : cs[i].article # cs[1].article /\ cs[i].dim = cs[1].dim}
           sample == {1} \cup (IF alike = {} THEN {} ELSE {Min(alike)})
<1>1. IsList(cs) /\ DOMAIN cs \in SUBSET Nat /\ IsFiniteSet(DOMAIN cs)
  BY FS_Interval DEF ClaimList, IsList
<1>2. DifferencePage(b, q, cs) =
        IF divided # {} THEN AnswerTold("families", b, Upto(Families(InDimension(cs, DimensionOrder[Min(divided)])), 2))
        ELSE IF DOMAIN cs = {} THEN NoGrounds
        ELSE AnswerTold("claims", b, Chosen(cs, sample))
  BY DEF DifferencePage
<1>3. CASE divided # {}
  <2>1. DOMAIN DimensionOrder = 1 .. 5
    BY DEF DimensionOrder
  <2>2. divided \in SUBSET (1 .. 5)
    BY <2>1
  <2>3. Min(divided) \in divided
    <3> HIDE DEF divided
    <3>1. \E x \in divided : \A y \in divided : x <= y
      BY <1>3, <2>2, LeastUpTo, SMT
    <3>. QED
      BY <3>1 DEF Min
  <2> DEFINE d == DimensionOrder[Min(divided)]
  <2>4. Len(Families(InDimension(cs, d))) >= 2
    BY <2>3
  <2>5. DifferencePage(b, q, cs) = AnswerTold("families", b, Upto(Families(InDimension(cs, d)), 2))
    BY <1>2, <1>3
  <2> HIDE DEF d
  <2>. QED
    BY <2>4, <2>5, FamiliesAnswer
<1>4. CASE divided = {} /\ DOMAIN cs = {}
  BY <1>2, <1>4, NothingTold
<1>5. CASE divided = {} /\ DOMAIN cs # {}
  <2>1. 1 \in DOMAIN cs
    BY <1>1, <1>5 DEF IsList
  <2>2. alike # {} => Min(alike) \in DOMAIN cs
    <3>1. SUFFICES ASSUME alike # {} PROVE Min(alike) \in DOMAIN cs
      OBVIOUS
    <3>2. alike \in SUBSET Nat /\ IsFiniteSet(alike) /\ alike \subseteq DOMAIN cs
      BY <1>1, FS_Subset
    <3> HIDE DEF alike
    <3>3. \E x \in alike : \A y \in alike : x <= y
      BY <3>1, <3>2, EndsOf
    <3>4. Min(alike) \in alike
      BY <3>3 DEF Min
    <3>. QED
      BY <3>2, <3>4
  <2>3. sample \in SUBSET DOMAIN cs
    BY <2>1, <2>2
  <2>4. DifferencePage(b, q, cs) = AnswerTold("claims", b, Chosen(cs, sample))
    BY <1>2, <1>5
  <2> HIDE DEF sample
  <2>5. ClaimList(b, Chosen(cs, sample))
    BY <2>3, ClaimsChosen
  <2>. QED
    BY <2>4, <2>5, ClaimsAnswer
<1>. QED
  BY <1>3, <1>4, <1>5

LEMMA PageClaims ==
  ASSUME NEW b, AskRead(b), NEW q, IsFiniteSet(q)
  PROVE  AnswerRight(b, ClaimsPage(b, q))
<1> DEFINE given == semanticClaims(b)
           all == Once(given)
           I == {i \in DOMAIN all : NamedIn(q) = {} \/ all[i].dim \in NamedIn(q)}
           scoped == Chosen(all, I)
           ranked == RankedClaims(q, IF DOMAIN scoped = {} THEN all ELSE scoped)
<1>1. ClaimsPage(b, q) =
        IF AsksDifferencePage(q) THEN DifferencePage(b, q, ranked)
        ELSE AnswerTold("claims", b, IF NamedIn(q) # {} /\ DOMAIN scoped # {} THEN ThreeApart(ranked) ELSE Relevant(q, ranked))
  BY DEF ClaimsPage
<1>2. ClaimList(b, given)
  BY ClaimsGiven
<1> HIDE DEF given
<1>3. ClaimList(b, all)
  <2> DEFINE J == {i \in DOMAIN given : \A j \in 1 .. i - 1 : ~SameClaim(given[j], given[i])}
  <2>1. J \in SUBSET DOMAIN given /\ all = Chosen(given, J)
    BY DEF Once
  <2> HIDE DEF J, all
  <2>. QED
    BY <1>2, <2>1, ClaimsChosen
<1>4. I \in SUBSET DOMAIN all
  OBVIOUS
<1> HIDE DEF all, I
<1>5. ClaimList(b, scoped)
  BY <1>3, <1>4, ClaimsChosen
<1> HIDE DEF scoped
<1>6. ClaimList(b, ranked)
  <2>1. ClaimList(b, IF DOMAIN scoped = {} THEN all ELSE scoped)
    BY <1>3, <1>5
  <2>. QED
    BY <2>1, ClaimsRanked
<1> HIDE DEF ranked
<1>7. /\ AnswerRight(b, DifferencePage(b, q, ranked))
      /\ AnswerRight(b, AnswerTold("claims", b, ThreeApart(ranked)))
      /\ AnswerRight(b, AnswerTold("claims", b, Relevant(q, ranked)))
  BY <1>6, DifferenceAnswer, ThreeAnswer, RelevantAnswer
<1>. QED
  BY <1>1, <1>7

\* Who is named to speak is told with evidence of the article it first came from.
SpokenRow(b, r) == r.count \in Nat /\ r.of \in {0, r.article} /\ (WellNamed(b) => r.of # 0)

LEMMA ActorsRead ==
  ASSUME NEW b, AskRead(b)
  PROVE  IsList(ActorRows(b)) /\ \A n \in DOMAIN ActorRows(b) : SpokenRow(b, ActorRows(b)[n])
<1> DEFINE es == successfulProfiles(b)
           row(i) == [j \in DOMAIN es[i].actors |-> [role |-> es[i].actors[j].role, count |-> es[i].actors[j].count,
                                                     article |-> es[i].article, of |-> es[i].actors[j].of]]
           ss == [i \in DOMAIN es |-> row(i)]
           all == ActorRows(b)
<1>1. IsList(es) /\ \A i \in DOMAIN es : es[i] \in Succeeded(b)
  BY ProfilesSucceeded
<1>2. all = Along(ss)
  BY DEF ActorRows
<1> HIDE DEF es, all
<1>3. ASSUME NEW i \in DOMAIN es
      PROVE  IsList(row(i)) /\ \A j \in DOMAIN row(i) : SpokenRow(b, row(i)[j])
  <2>1. es[i] \in Succeeded(b)
    BY <1>1
  <2>2. IsList(es[i].actors) /\ \A j \in DOMAIN es[i].actors : es[i].actors[j].of \in {0, es[i].article} /\ es[i].actors[j].count \in Nat
    BY <2>1, SucceededRead
  <2>3. Len(es[i].actors) \in Nat /\ DOMAIN es[i].actors = 1 .. Len(es[i].actors)
    BY <2>2 DEF IsList
  <2> DEFINE t == row(i)
  <2>4. t = [j \in 1 .. Len(es[i].actors) |-> t[j]] /\ DOMAIN t = DOMAIN es[i].actors
    BY <2>3
  <2>5. \A j \in DOMAIN t : t[j].count = es[i].actors[j].count /\ t[j].article = es[i].article /\ t[j].of = es[i].actors[j].of
    OBVIOUS
  <2> HIDE DEF t
  <2>6. IsList(t)
    BY <2>3, <2>4, ListKnown
  <2>7. ASSUME WellNamed(b), NEW j \in DOMAIN es[i].actors PROVE es[i].actors[j].of # 0
    <3>1. es[i].actors[j] \in Elements(es[i].actors)
      BY DEF Elements
    <3>. QED
      BY <2>1, <2>7, <3>1 DEF WellNamed
  <2>8. ASSUME NEW j \in DOMAIN t PROVE SpokenRow(b, t[j])
    <3>1. j \in DOMAIN es[i].actors
      BY <2>4
    <3>. QED
      BY <2>2, <2>5, <2>7, <3>1 DEF SpokenRow
  <2>. QED
    BY <2>6, <2>8 DEF t
<1>4. DOMAIN ss = DOMAIN es /\ \A i \in DOMAIN ss : ss[i] = row(i)
  OBVIOUS
<1> HIDE DEF row
<1>5. Len(es) \in Nat /\ DOMAIN es = 1 .. Len(es)
  BY <1>1 DEF IsList
<1>6. ss = [i \in 1 .. Len(es) |-> ss[i]]
  BY <1>5
<1> HIDE DEF ss
<1>7. IsList(ss)
  BY <1>5, <1>6, ListKnown
<1>8. \A i \in DOMAIN ss : IsList(ss[i]) /\ \A j \in DOMAIN ss[i] : SpokenRow(b, ss[i][j])
  BY <1>3, <1>4
<1>9. IsList(all) /\ \A n \in DOMAIN all : \E i \in DOMAIN ss : \E j \in DOMAIN ss[i] : all[n] = ss[i][j]
  BY <1>2, <1>7, <1>8, AlongTold
<1>10. ASSUME NEW n \in DOMAIN all PROVE SpokenRow(b, all[n])
  <2>1. PICK i \in DOMAIN ss : \E j \in DOMAIN ss[i] : all[n] = ss[i][j]
    BY <1>9
  <2>2. PICK j \in DOMAIN ss[i] : all[n] = ss[i][j]
    BY <2>1
  <2>3. SpokenRow(b, ss[i][j])
    BY <1>8
  <2>. QED
    BY <2>2, <2>3
<1>. QED
  BY <1>9, <1>10 DEF all

LEMMA SpeakerRead ==
  ASSUME NEW b, NEW rows, IsList(rows), \A n \in DOMAIN rows : SpokenRow(b, rows[n]),
         NEW i \in DOMAIN rows, \A j \in 1 .. i - 1 : rows[j].role # rows[i].role
  PROVE  /\ SpeakerIn(rows, i).count \in Nat
         /\ WellNamed(b) => SpeakerIn(rows, i).of \in {0, SpeakerIn(rows, i).article}
<1> DEFINE same == {j \in DOMAIN rows : rows[j].role = rows[i].role}
           found == {j \in same : rows[j].of # 0}
           own(j) == {j} \X (1 .. rows[j].count)
           r == SpeakerIn(rows, i)
<1>1. DOMAIN rows \in SUBSET Nat /\ IsFiniteSet(DOMAIN rows)
  BY FS_Interval DEF IsList
<1>2. r.article = rows[i].article /\ r.of = (IF found = {} THEN 0 ELSE rows[Min(found)].of)
      /\ r.count = Cardinality(UNION {own(j) : j \in same})
  BY DEF SpeakerIn
<1> HIDE DEF r
<1>3. IsFiniteSet(same) /\ same \in SUBSET DOMAIN rows
  BY <1>1, FS_Subset
<1>4. \A j \in same : IsFiniteSet(own(j))
  <2>1. SUFFICES ASSUME NEW j \in same PROVE IsFiniteSet(own(j))
    OBVIOUS
  <2>2. rows[j].count \in Nat
    BY DEF SpokenRow
  <2>3. IsFiniteSet(1 .. rows[j].count)
    BY <2>2, FS_Interval
  <2>. QED
    BY <2>3, FS_Product, FS_Singleton
<1>5. IsFiniteSet({own(j) : j \in same})
  <2> DEFINE f == [j \in same |-> own(j)]
  <2>1. {own(j) : j \in same} = {f[j] : j \in same}
    OBVIOUS
  <2> HIDE DEF f
  <2>2. IsFiniteSet({f[j] : j \in same})
    BY <1>3, ImageOf
  <2>. QED
    BY <2>1, <2>2
<1>6. IsFiniteSet(UNION {own(j) : j \in same})
  BY <1>4, <1>5, FS_UNION
<1>7. r.count \in Nat
  BY <1>2, <1>6, FS_CardinalityType
<1>8. ASSUME WellNamed(b) PROVE r.of \in {0, r.article}
  <2>1. i \in found
    BY <1>8 DEF SpokenRow
  <2>2. \A j \in found : i <= j
    <3>1. SUFFICES ASSUME NEW j \in found, j < i PROVE FALSE
      BY <1>1
    <3>2. j \in 1 .. i - 1
      BY <1>1, <3>1 DEF IsList
    <3>. QED
      BY <3>2
  <2>3. found \in SUBSET Nat
    BY <1>1
  <2> HIDE DEF found
  <2>4. \E x \in found : \A y \in found : x <= y
    BY <2>1, <2>2
  <2>5. Min(found) \in found /\ \A y \in found : Min(found) <= y
    BY <2>4 DEF Min
  <2>6. Min(found) = i
    BY <2>1, <2>2, <2>3, <2>5
  <2>7. r.of = rows[i].of
    BY <1>2, <2>1, <2>6
  <2>. QED
    BY <1>2, <2>7 DEF SpokenRow
<1>. QED
  BY <1>7, <1>8 DEF r

LEMMA SpeakersTold ==
  ASSUME NEW b, AskRead(b)
  PROVE  AnswerRight(b, SpeakersAnswer(b))
<1> DEFINE rows == ActorRows(b)
           by == [i \in DOMAIN rows |-> SpeakerIn(rows, i)]
           I == {i \in DOMAIN rows : \A j \in 1 .. i - 1 : rows[j].role # rows[i].role}
           ones == Speakers(b)
           key == [i \in DOMAIN ones |-> ones[i].count]
           best == Sorted(ones, key)
           t == Upto(best, 5)
           Fit(r) == r.count \in Nat /\ (WellNamed(b) => r.of \in {0, r.article})
<1>1. IsList(rows) /\ \A n \in DOMAIN rows : SpokenRow(b, rows[n])
  BY ActorsRead
<1>2. ones = Chosen(by, I)
  BY DEF Speakers
<1>3. SpeakersAnswer(b) = AnswerTold("speakers", b, t)
  BY DEF SpeakersAnswer
<1> HIDE DEF rows, ones
<1>4. \A i \in I : Fit(by[i])
  <2>1. SUFFICES ASSUME NEW i \in I PROVE Fit(by[i])
    OBVIOUS
  <2>2. Fit(SpeakerIn(rows, i))
    BY <1>1, SpeakerRead
  <2>3. by[i] = SpeakerIn(rows, i)
    OBVIOUS
  <2> HIDE DEF Fit
  <2>. QED
    BY <2>2, <2>3
<1>5. IsList(by) /\ I \in SUBSET DOMAIN by
  <2>1. Len(rows) \in Nat /\ DOMAIN rows = 1 .. Len(rows)
    BY <1>1 DEF IsList
  <2>2. by = [i \in 1 .. Len(rows) |-> by[i]] /\ DOMAIN by = DOMAIN rows
    BY <2>1
  <2>3. I \in SUBSET DOMAIN by
    BY <2>2
  <2> HIDE DEF by
  <2>. QED
    BY <2>1, <2>2, <2>3, ListKnown
<1> HIDE DEF by, I
<1>6. Gathers(ones, by, I)
  BY <1>2, <1>5, ChosenGathers
<1>7. IsList(ones) /\ \A n \in DOMAIN ones : \E i \in I : ones[n] = by[i]
  BY <1>6 DEF Gathers
<1>8. \A n \in DOMAIN ones : Fit(ones[n])
  <2> HIDE DEF Fit
  <2>. QED
    BY <1>4, <1>7
<1>9. \A n \in DOMAIN ones : key[n] \in Nat
  BY <1>8
<1> HIDE DEF key
<1>10. Gathers(best, ones, DOMAIN ones)
  BY <1>7, <1>9, SortedGathers
<1> HIDE DEF best
<1>11. IsList(best) /\ \A n \in DOMAIN best : \E i \in DOMAIN ones : best[n] = ones[i]
  BY <1>10 DEF Gathers
<1>12. \A n \in DOMAIN best : Fit(best[n])
  <2> HIDE DEF Fit
  <2>. QED
    BY <1>8, <1>11
<1>13. IsList(t) /\ DOMAIN t \subseteq DOMAIN best /\ \A i \in DOMAIN t : t[i] = best[i]
  BY <1>11, UptoTold
<1> HIDE DEF t
<1>14. \A i \in DOMAIN t : Fit(t[i])
  <2> HIDE DEF Fit
  <2>. QED
    BY <1>12, <1>13
<1>15. TextsRight(b, "speakers", {t[i].text : i \in DOMAIN t})
  BY DEF TextsRight
<1>. QED
  BY <1>3, <1>13, <1>14, <1>15, ToldAnswer

-----------------------------------------------------------------------------
LEMMA CommonTold ==
  ASSUME NEW b, AskRead(b)
  PROVE  /\ IsList(Upto(b.common, 3))
         /\ \A i \in DOMAIN Upto(b.common, 3) : RowRead(Upto(b.common, 3)[i]) /\ Upto(b.common, 3)[i] \in Elements(b.common)
<1> DEFINE t == Upto(b.common, 3)
<1>1. IsList(b.common) /\ \A i \in DOMAIN b.common : RowRead(b.common[i])
  BY DEF AskRead
<1>2. IsList(t) /\ DOMAIN t \subseteq DOMAIN b.common /\ \A i \in DOMAIN t : t[i] = b.common[i]
  BY <1>1, UptoTold
<1> HIDE DEF t
<1>3. \A i \in DOMAIN t : RowRead(t[i]) /\ t[i] \in Elements(b.common)
  <2>1. SUFFICES ASSUME NEW i \in DOMAIN t PROVE RowRead(t[i]) /\ t[i] \in Elements(b.common)
    OBVIOUS
  <2>2. i \in DOMAIN b.common /\ t[i] = b.common[i]
    BY <1>2
  <2>. QED
    BY <2>2, <1>1 DEF Elements
<1>. QED
  BY <1>2, <1>3 DEF t

LEMMA AnsweredRight ==
  ASSUME NEW b, NEW by, by \notin {"claims", "families", "pair"}, NEW texts, NEW cited, CitedRight(b, cited)
  PROVE  AnswerRight(b, AskAnswered(by, texts, cited))
<1>1. TextsRight(b, by, Elements(texts))
  BY DEF TextsRight
<1>2. /\ AskAnswered(by, texts, cited).by = by /\ AskAnswered(by, texts, cited).texts = texts
      /\ AskAnswered(by, texts, cited).cited = cited
  BY DEF AskAnswered
<1>. QED
  BY <1>1, <1>2 DEF AnswerRight

LEMMA PageAnswers ==
  ASSUME NEW b, AskRead(b), NEW q, IsFiniteSet(q)
  PROVE  AnswerRight(b, GroundedPage(b, q))
<1> DEFINE said == AskAnswered("summary", <<"ground">>, Cites(b, Upto(b.common, 3)))
<1>1. AnswerRight(b, said)
  <2> DEFINE rows == Upto(b.common, 3)
  <2>1. IsList(rows) /\ \A i \in DOMAIN rows : RowRead(rows[i])
    BY CommonTold
  <2> HIDE DEF rows
  <2>2. ASSUME NEW i \in DOMAIN rows, Citable(b, rows[i].article) PROVE rows[i].of \in {0, rows[i].article}
    <3>1. rows[i].article # 0
      BY <2>2, NamedNotNone DEF Citable
    <3>. QED
      BY <2>1, <3>1 DEF RowRead
  <2>3. CitedRight(b, Cites(b, rows))
    BY <2>1, <2>2, CitesTold
  <2>. QED
    BY <2>3, AnsweredRight DEF rows
<1>2. /\ AnswerRight(b, NoGrounds) /\ AnswerRight(b, SpeakersAnswer(b)) /\ AnswerRight(b, ClaimsPage(b, q))
  BY NothingTold, SpeakersTold, PageClaims
<1>3. GroundedPage(b, q) \in {NoGrounds, SpeakersAnswer(b), said, ClaimsPage(b, q)}
  BY DEF GroundedPage
<1> HIDE DEF said
<1>. QED
  BY <1>1, <1>2, <1>3

LEMMA ApiAnswers ==
  ASSUME NEW b, AskRead(b), NEW q, IsFiniteSet(q)
  PROVE  AnswerRight(b, GroundedApi(b, q))
<1> DEFINE ranked == RankedClaims(q, semanticClaims(b))
<1>1. ClaimList(b, ranked)
  BY ClaimsGiven, ClaimsRanked
<1>2. GroundedApi(b, q) =
        IF DOMAIN successfulProfiles(b) = {} THEN NoGrounds
        ELSE IF Spoken(q) THEN SpeakersAnswer(b)
        ELSE IF AsksDifference(q) THEN IF Len(TwoApart(ranked)) < 2 THEN NoGrounds ELSE AnswerTold("pair", b, TwoApart(ranked))
        ELSE AnswerTold("claims", b, Relevant(q, ranked))
  BY DEF GroundedApi
<1> HIDE DEF ranked
<1>3. AnswerRight(b, NoGrounds) /\ AnswerRight(b, SpeakersAnswer(b)) /\ AnswerRight(b, AnswerTold("claims", b, Relevant(q, ranked)))
  BY <1>1, NothingTold, SpeakersTold, RelevantAnswer
<1>4. ~(Len(TwoApart(ranked)) < 2) => AnswerRight(b, AnswerTold("pair", b, TwoApart(ranked)))
  <2>1. Len(TwoApart(ranked)) \in Nat
    <3> DEFINE one == OneMoreApart(ranked, {})
               two == OneMoreApart(ranked, one)
    <3>1. IsList(ranked) /\ ApartPlaces(ranked, {})
      BY <1>1, FS_EmptySet DEF ClaimList, ApartPlaces
    <3>2. ApartPlaces(ranked, one)
      BY <3>1, PickedApart
    <3> HIDE DEF one
    <3>3. ApartPlaces(ranked, two)
      BY <3>1, <3>2, PickedApart
    <3> HIDE DEF two
    <3>4. two \in SUBSET DOMAIN ranked
      BY <3>3 DEF ApartPlaces
    <3>5. TwoApart(ranked) = Chosen(ranked, two)
      BY DEF TwoApart, two, one
    <3>. QED
      BY <3>1, <3>4, <3>5, ChosenGathers DEF Gathers, IsList
  <2>. QED
    BY <2>1, <1>1, PairAnswer
<1>. QED
  BY <1>2, <1>3, <1>4

LEMMA SummaryTold ==
  ASSUME NEW b, AskRead(b), NEW words
  PROVE  AnswerRight(b, FromSummary(b, words))
<1> DEFINE rows == Upto(b.common, 3)
<1>1. IsList(rows) /\ \A i \in DOMAIN rows : RowRead(rows[i]) /\ rows[i] \in Elements(b.common)
  BY CommonTold
<1>2. FromSummary(b, words) = AskAnswered("rules", <<words>>, CitesRule(b, rows))
  BY DEF FromSummary
<1> HIDE DEF rows
<1>3. WellNamed(b) => \A i \in DOMAIN rows : InBundle(b, rows[i].article) /\ RowRead(rows[i])
  BY <1>1 DEF WellNamed
<1>4. CitedRight(b, CitesRule(b, rows))
  BY <1>1, <1>3, RulesCite
<1>. QED
  BY <1>2, <1>4, AnsweredRight

LEMMA PatternRowsList ==
  ASSUME NEW p, IsList(p.evidence), IsList(p.articles)
  PROVE  IsList(PatternRows(p))
<1> DEFINE quoted == [i \in DOMAIN p.evidence |-> [article |-> RowArticle(p, p.evidence[i]), of |-> p.evidence[i].of]]
           named == [i \in DOMAIN p.articles |-> [article |-> p.articles[i], of |-> 0]]
<1>1. /\ Len(p.evidence) \in Nat /\ DOMAIN p.evidence = 1 .. Len(p.evidence)
      /\ Len(p.articles) \in Nat /\ DOMAIN p.articles = 1 .. Len(p.articles)
  BY DEF IsList
<1>2. quoted = [i \in 1 .. Len(p.evidence) |-> quoted[i]] /\ named = [i \in 1 .. Len(p.articles) |-> named[i]]
  BY <1>1
<1>3. PatternRows(p) = Upto(IF DOMAIN p.evidence # {} THEN quoted ELSE named, 2)
  BY DEF PatternRows
<1> HIDE DEF quoted, named
<1>4. IsList(quoted) /\ IsList(named)
  BY <1>1, <1>2, ListKnown
<1>5. IsList(IF DOMAIN p.evidence # {} THEN quoted ELSE named)
  BY <1>4
<1>. QED
  BY <1>3, <1>5, UptoTold

LEMMA SamplesTold ==
  ASSUME NEW b, AskRead(b), NEW ps, IsList(ps), \A i \in DOMAIN ps : ps[i] \in Elements(b.patterns)
  PROVE  AnswerRight(b, Samples(b, ps))
<1> DEFINE ss == [i \in DOMAIN ps |-> PatternRows(ps[i])]
           rows == Along(ss)
           texts == [i \in DOMAIN ps |-> ps[i].text]
<1>1. Samples(b, ps) = AskAnswered("rules", texts, Upto(CitesRule(b, rows), 4))
  BY DEF Samples
<1> HIDE DEF texts
<1>2. Len(ps) \in Nat /\ DOMAIN ps = 1 .. Len(ps)
  BY DEF IsList
<1>3. ss = [i \in 1 .. Len(ps) |-> ss[i]] /\ DOMAIN ss = DOMAIN ps
  BY <1>2
<1>4. \A i \in DOMAIN ps : ss[i] = PatternRows(ps[i])
  OBVIOUS
<1> HIDE DEF ss
<1>5. IsList(ss)
  BY <1>2, <1>3, ListKnown
<1>6. \A i \in DOMAIN ss : IsList(ss[i])
  <2>1. SUFFICES ASSUME NEW i \in DOMAIN ss PROVE IsList(ss[i])
    OBVIOUS
  <2>2. ps[i] \in Elements(b.patterns)
    BY <1>3
  <2>3. PICK k \in DOMAIN b.patterns : ps[i] = b.patterns[k]
    BY <2>2 DEF Elements
  <2>4. IsList(b.patterns[k].evidence) /\ IsList(b.patterns[k].articles)
    BY DEF AskRead
  <2>5. IsList(PatternRows(ps[i]))
    BY <2>3, <2>4, PatternRowsList
  <2>. QED
    BY <1>3, <1>4, <2>5
<1>7. IsList(rows) /\ \A n \in DOMAIN rows : \E i \in DOMAIN ss : \E j \in DOMAIN ss[i] : rows[n] = ss[i][j]
  BY <1>5, <1>6, AlongTold
<1> HIDE DEF rows
<1>8. ASSUME WellNamed(b), NEW n \in DOMAIN rows PROVE InBundle(b, rows[n].article) /\ RowRead(rows[n])
  <2>1. PICK i \in DOMAIN ss : \E j \in DOMAIN ss[i] : rows[n] = ss[i][j]
    BY <1>7
  <2>2. PICK j \in DOMAIN ss[i] : rows[n] = ss[i][j]
    BY <2>1
  <2>3. ps[i] \in Elements(b.patterns) /\ ss[i] = PatternRows(ps[i])
    BY <1>3, <1>4
  <2>4. rows[n] \in Elements(PatternRows(ps[i]))
    BY <2>2, <2>3 DEF Elements
  <2>. QED
    BY <1>8, <2>3, <2>4 DEF WellNamed
<1>9. IsList(CitesRule(b, rows)) /\ CitedRight(b, CitesRule(b, rows))
  BY <1>7, <1>8, RulesCite
<1>10. CitedRight(b, Upto(CitesRule(b, rows), 4))
  BY <1>9, FewerCited
<1>. QED
  BY <1>1, <1>10, AnsweredRight

LEMMA RulesAnswer ==
  ASSUME NEW b, AskRead(b), NEW q, IsFiniteSet(q)
  PROVE  AnswerRight(b, RuleAnswer(b, q))
<1> DEFINE I == {i \in DOMAIN b.patterns : /\ b.patterns[i].text # ""
                                           /\ NamedIn(q) = {} \/ b.patterns[i].dim \in NamedIn(q)}
           fit == Chosen(b.patterns, I)
           points(p) == 10 * WordsShared(q, WordsOf[p.text] \cup {p.dim}) + p.count
           key == [i \in DOMAIN fit |-> 100 * points(fit[i]) + fit[i].count]
           ranked == RankedPatterns(b, q)
           few == IF NamedIn(q) = {} /\ AsksDifference(q) THEN 2 ELSE 3
           none == AskAnswered("rules", << >>, << >>)
           apart == AskAnswered("rules", <<"difference">>, << >>)
<1>1. ranked = Sorted(fit, key)
  BY DEF RankedPatterns
<1>2. IsList(b.patterns) /\ I \in SUBSET DOMAIN b.patterns /\ \A i \in DOMAIN b.patterns : b.patterns[i].count \in Nat
  BY DEF AskRead
<1> HIDE DEF ranked, I
<1>3. Gathers(fit, b.patterns, I)
  BY <1>2, ChosenGathers
<1> HIDE DEF fit
<1>4. IsList(fit) /\ \A n \in DOMAIN fit : \E i \in I : fit[n] = b.patterns[i]
  BY <1>3 DEF Gathers
<1>5. \A n \in DOMAIN fit : fit[n] \in Elements(b.patterns) /\ fit[n].count \in Nat
  BY <1>2, <1>4 DEF Elements
<1>6. \A n \in DOMAIN fit : key[n] \in Nat
  <2>1. SUFFICES ASSUME NEW n \in DOMAIN fit PROVE key[n] \in Nat
    OBVIOUS
  <2>2. WordsShared(q, WordsOf[fit[n].text] \cup {fit[n].dim}) \in Nat
    BY WordsCounted
  <2>3. fit[n].count \in Nat
    BY <1>5
  <2>. QED
    BY <2>2, <2>3
<1> HIDE DEF key
<1>7. Gathers(ranked, fit, DOMAIN fit)
  BY <1>1, <1>4, <1>6, SortedGathers
<1>8. IsList(ranked) /\ \A n \in DOMAIN ranked : \E i \in DOMAIN fit : ranked[n] = fit[i]
  BY <1>7 DEF Gathers
<1> DEFINE t == Upto(ranked, few)
<1>9. few \in Nat
  OBVIOUS
<1> HIDE DEF few
<1>10. IsList(t) /\ DOMAIN t \subseteq DOMAIN ranked /\ \A i \in DOMAIN t : t[i] = ranked[i]
  BY <1>8, <1>9, UptoTold
<1> HIDE DEF t
<1>11. \A i \in DOMAIN t : t[i] \in Elements(b.patterns)
  BY <1>5, <1>8, <1>10
<1>12. AnswerRight(b, Samples(b, t))
  BY <1>10, <1>11, SamplesTold
<1>13. CitedRight(b, << >>)
  BY DEF CitedRight, Elements
<1>14. AnswerRight(b, none) /\ AnswerRight(b, apart)
  BY <1>13, AnsweredRight
<1>15. AnswerRight(b, FromSummary(b, "ground")) /\ AnswerRight(b, FromSummary(b, "summary"))
  BY SummaryTold
<1>16. RuleAnswer(b, q) \in {FromSummary(b, "ground"), Samples(b, t), apart, FromSummary(b, "summary"), none}
  BY DEF RuleAnswer, t, few, ranked
<1> HIDE DEF none, apart
<1>. QED
  BY <1>12, <1>14, <1>15, <1>16

-----------------------------------------------------------------------------
\* Every request of the window that is over has its own place among the times the handler kept.
Fresh(times, t) == {i \in DOMAIN times : t - times[i] < AskWindow}
Remembered(kept, times, t) ==
  \E place : /\ \A i \in Fresh(times, t) : place[i] \in DOMAIN kept /\ kept[place[i]] = times[i]
             /\ \A i, j \in Fresh(times, t) : place[i] = place[j] => i = j
AnswersInv ==
  /\ askClock \in Nat /\ recent \in Seq(Nat) /\ through \in Seq(Nat)
  /\ Remembered(recent, through, askClock)
  /\ Cardinality(Fresh(through, askClock)) <= AskLimit
  /\ reply.status = "given" => AnswerRight(reply.bundle, reply.answer)

LEMMA FreshFinite ==
  ASSUME NEW times \in Seq(Nat), NEW t \in Nat
  PROVE  IsFiniteSet(Fresh(times, t)) /\ Cardinality(Fresh(times, t)) \in Nat /\ Fresh(times, t) \subseteq DOMAIN times
<1>1. IsFiniteSet(DOMAIN times)
  BY FS_Interval
<1>2. Fresh(times, t) \subseteq DOMAIN times
  BY DEF Fresh
<1>. QED
  BY <1>1, <1>2, FS_Subset, FS_CardinalityType

\* No more are fresh than the handler finds in the window.
LEMMA NoneForgotten ==
  ASSUME NEW kept \in Seq(Nat), NEW times \in Seq(Nat), NEW t \in Nat, Remembered(kept, times, t)
  PROVE  /\ Cardinality(Fresh(times, t)) <= Cardinality(Fresh(kept, t))
         /\ \E place \in [Fresh(times, t) -> Fresh(kept, t)] :
              /\ \A i \in Fresh(times, t) : kept[place[i]] = times[i]
              /\ \A i, j \in Fresh(times, t) : place[i] = place[j] => i = j
<1> DEFINE T == Fresh(times, t)
           K == Fresh(kept, t)
<1>1. PICK p : /\ \A i \in T : p[i] \in DOMAIN kept /\ kept[p[i]] = times[i]
               /\ \A i, j \in T : p[i] = p[j] => i = j
  BY DEF Remembered
<1>2. \A i \in T : p[i] \in K
  BY <1>1 DEF Fresh
<1>3. IsFiniteSet(T) /\ IsFiniteSet(K)
  BY FreshFinite
<1> DEFINE q == [i \in T |-> p[i]]
<1> HIDE DEF T, K
<1>4. q \in [T -> K] /\ \A i \in T : q[i] = p[i]
  BY <1>2
<1> HIDE DEF q
<1>5. /\ \A i \in T : kept[q[i]] = times[i]
      /\ \A i, j \in T : q[i] = q[j] => i = j
  BY <1>1, <1>4
<1>6. q \in Injection(T, K)
  BY <1>4, <1>5 DEF Injection, IsInjective
<1>7. Cardinality(T) <= Cardinality(K)
  BY <1>3, <1>6, FS_Injection
<1>8. \E place \in [T -> K] : /\ \A i \in T : kept[place[i]] = times[i]
                              /\ \A i, j \in T : place[i] = place[j] => i = j
  BY <1>4, <1>5
<1>. QED
  BY <1>7, <1>8 DEF T, K

LEMMA YoungKept ==
  ASSUME NEW kept \in Seq(Nat), NEW t \in Nat
  PROVE  /\ Chosen(kept, Fresh(kept, t)) \in Seq(Nat)
         /\ Gathers(Chosen(kept, Fresh(kept, t)), kept, Fresh(kept, t))
<1> DEFINE I == Fresh(kept, t)
           y == Chosen(kept, I)
<1>1. IsList(kept) /\ I \in SUBSET DOMAIN kept
  BY FreshFinite DEF IsList
<1>2. y = [n \in DOMAIN y |-> y[n]]
  BY DEF Chosen
<1> HIDE DEF I, y
<1>3. Gathers(y, kept, I)
  BY <1>1, ChosenGathers DEF y
<1>4. IsList(y) /\ \A n \in DOMAIN y : \E i \in I : y[n] = kept[i]
  BY <1>3 DEF Gathers
<1>5. \A n \in DOMAIN y : y[n] \in Nat
  BY <1>1, <1>4
<1>6. Len(y) \in Nat /\ DOMAIN y = 1 .. Len(y)
  BY <1>4 DEF IsList
<1>7. y \in [1 .. Len(y) -> Nat]
  BY <1>2, <1>5, <1>6
<1>8. y \in Seq(Nat)
  BY <1>6, <1>7
<1>. QED
  BY <1>3, <1>8 DEF y, I

\* A request let through
LEMMA LetThrough ==
  ASSUME NEW kept \in Seq(Nat), NEW times \in Seq(Nat), NEW t \in Nat, Remembered(kept, times, t),
         NEW young, young = Chosen(kept, Fresh(kept, t)), Len(young) < AskLimit
  PROVE  /\ Append(young, t) \in Seq(Nat) /\ Append(times, t) \in Seq(Nat)
         /\ Remembered(Append(young, t), Append(times, t), t)
         /\ Cardinality(Fresh(Append(times, t), t)) <= AskLimit
<1> DEFINE T == Fresh(times, t)
           K == Fresh(kept, t)
           n == Len(times) + 1
           times2 == Append(times, t)
           young2 == Append(young, t)
<1>0. AskLimit \in Nat \ {0} /\ AskWindow \in Nat \ {0}
  BY IssueAnswersAssumption
<1>1. young \in Seq(Nat) /\ Gathers(young, kept, K)
  BY YoungKept
<1>2. /\ young2 \in Seq(Nat) /\ times2 \in Seq(Nat) /\ DOMAIN times2 = 1 .. n /\ DOMAIN times = 1 .. Len(times)
      /\ DOMAIN young2 = 1 .. Len(young) + 1 /\ DOMAIN young = 1 .. Len(young)
      /\ Len(times) \in Nat /\ Len(young) \in Nat
  BY <1>1
<1>3. /\ \A i \in DOMAIN times : times2[i] = times[i] /\ i # n
      /\ \A i \in DOMAIN young : young2[i] = young[i] /\ i # Len(young) + 1
      /\ times2[n] = t /\ young2[Len(young) + 1] = t
  BY <1>1
<1> HIDE DEF times2, young2, n
<1>4. Fresh(times2, t) = T \cup {n}
  <2>1. DOMAIN times2 = DOMAIN times \cup {n}
    BY <1>2 DEF n
  <2>2. t - times2[n] < AskWindow
    BY <1>3, <1>0
  <2>. QED
    BY <2>1, <2>2, <1>3 DEF Fresh
<1>5. Cardinality(T) <= Cardinality(K)
  BY NoneForgotten
<1>6. PICK p \in [T -> K] : /\ \A i \in T : kept[p[i]] = times[i]
                            /\ \A i, j \in T : p[i] = p[j] => i = j
  BY NoneForgotten
<1>7. Len(young) = Cardinality(K) /\ IsFiniteSet(T) /\ IsFiniteSet(K) /\ Cardinality(T) \in Nat
  BY <1>1, FreshFinite DEF Gathers
<1>8. PICK order \in [DOMAIN young -> K] :
        /\ \A m \in DOMAIN young : young[m] = kept[order[m]]
        /\ \A k \in K : \E m \in DOMAIN young : order[m] = k
  BY <1>1, Zenon DEF Gathers
<1>9. T \subseteq DOMAIN times
  BY FreshFinite
<1> HIDE DEF T, K
<1>10. Cardinality(Fresh(times2, t)) <= AskLimit
  <2>1. Cardinality(T \cup {n}) <= Cardinality(T) + 1 /\ Cardinality(T \cup {n}) \in Nat
    <3>1. IsFiniteSet(T \cup {n})
      BY <1>7, FS_AddElement
    <3>2. Cardinality(T \cup {n}) \in Nat
      BY <3>1, FS_CardinalityType
    <3>3. Cardinality(T \cup {n}) = (IF n \in T THEN Cardinality(T) ELSE Cardinality(T) + 1)
      BY <1>7, FS_AddElement
    <3>. QED
      BY <3>2, <3>3, <1>7
  <2>. QED
    BY <2>1, <1>0, <1>2, <1>4, <1>5, <1>7
<1> DEFINE back == [k \in K |-> CHOOSE m \in DOMAIN young : order[m] = k]
           place == [i \in T \cup {n} |-> IF i = n THEN Len(young) + 1 ELSE back[p[i]]]
<1>11. \A k \in K : back[k] \in DOMAIN young /\ order[back[k]] = k
  BY <1>8
<1> HIDE DEF back
<1>12. n \notin T
  BY <1>3, <1>9
<1>13. place[n] = Len(young) + 1 /\ \A i \in T : place[i] = back[p[i]]
  BY <1>12
<1> HIDE DEF place
<1>14. \A i \in T : /\ p[i] \in K /\ place[i] \in DOMAIN young /\ order[place[i]] = p[i]
  BY <1>6, <1>11, <1>13
<1>15. ASSUME NEW i \in T \cup {n} PROVE place[i] \in DOMAIN young2 /\ young2[place[i]] = times2[i]
  <2>1. CASE i = n
    BY <2>1, <1>2, <1>3, <1>13
  <2>2. CASE i \in T
    <3>1. place[i] \in DOMAIN young2
      BY <2>2, <1>2, <1>14
    <3>2. young2[place[i]] = young[place[i]] /\ young[place[i]] = kept[p[i]] /\ kept[p[i]] = times[i]
      BY <2>2, <1>3, <1>6, <1>8, <1>14
    <3>. QED
      BY <2>2, <3>1, <3>2, <1>3, <1>9
  <2>. QED
    BY <2>1, <2>2
<1>16. ASSUME NEW i \in T \cup {n}, NEW j \in T \cup {n}, place[i] = place[j] PROVE i = j
  <2>1. CASE i \in T /\ j \in T
    BY <2>1, <1>6, <1>14, <1>16
  <2>2. CASE i = n /\ j \in T
    BY <2>2, <1>3, <1>13, <1>14, <1>16
  <2>3. CASE i \in T /\ j = n
    BY <2>3, <1>3, <1>13, <1>14, <1>16
  <2>. QED
    BY <2>1, <2>2, <2>3
<1>17. Remembered(young2, times2, t)
  BY <1>4, <1>15, <1>16, Zenon DEF Remembered
<1>. QED
  BY <1>2, <1>10, <1>17 DEF times2, young2

\* A later clock sees fewer of them.
LEMMA LaterFresh ==
  ASSUME NEW kept \in Seq(Nat), NEW times \in Seq(Nat), NEW t \in Nat, Remembered(kept, times, t),
         Cardinality(Fresh(times, t)) <= AskLimit
  PROVE  Remembered(kept, times, t + 1) /\ Cardinality(Fresh(times, t + 1)) <= AskLimit
<1>0. AskLimit \in Nat /\ AskWindow \in Nat
  BY IssueAnswersAssumption
<1>1. Fresh(times, t + 1) \subseteq Fresh(times, t)
  BY <1>0 DEF Fresh
<1>2. /\ IsFiniteSet(Fresh(times, t)) /\ Cardinality(Fresh(times, t)) \in Nat /\ Cardinality(Fresh(times, t + 1)) \in Nat
  <2>1. t + 1 \in Nat
    OBVIOUS
  <2>. QED
    BY <2>1, FreshFinite
<1>3. Cardinality(Fresh(times, t + 1)) <= Cardinality(Fresh(times, t))
  BY <1>1, <1>2, FS_Subset
<1>4. Cardinality(Fresh(times, t + 1)) <= AskLimit
  BY <1>0, <1>2, <1>3
<1>5. PICK p : /\ \A i \in Fresh(times, t) : p[i] \in DOMAIN kept /\ kept[p[i]] = times[i]
               /\ \A i, j \in Fresh(times, t) : p[i] = p[j] => i = j
  BY DEF Remembered
<1>6. /\ \A i \in Fresh(times, t + 1) : p[i] \in DOMAIN kept /\ kept[p[i]] = times[i]
      /\ \A i, j \in Fresh(times, t + 1) : p[i] = p[j] => i = j
  BY <1>1, <1>5
<1>7. Remembered(kept, times, t + 1)
  BY <1>6, Zenon DEF Remembered
<1>. QED
  BY <1>4, <1>7

LEMMA NoneRemembered ==
  ASSUME NEW t \in Nat
  PROVE  Remembered(<< >>, << >>, t) /\ Cardinality(Fresh(<< >>, t)) <= AskLimit
<1>1. Fresh(<< >>, t) = {}
  BY DEF Fresh
<1>2. Remembered(<< >>, << >>, t)
  BY <1>1 DEF Remembered
<1>3. Cardinality({}) = 0 /\ AskLimit \in Nat
  BY FS_EmptySet, IssueAnswersAssumption
<1>4. Cardinality(Fresh(<< >>, t)) = 0
  BY <1>1, <1>3
<1>5. 0 <= AskLimit
  BY <1>3
<1>. QED
  BY <1>2, <1>4, <1>5

LEMMA AnswersInvInit ==
  ASSUME AnswersInit
  PROVE  AnswersInv
<1>1. askClock = 0 /\ recent = << >> /\ through = << >> /\ reply = NoReply
  BY DEF AnswersInit
<1>2. Remembered(<< >>, << >>, 0) /\ Cardinality(Fresh(<< >>, 0)) <= AskLimit
  BY NoneRemembered
<1>3. reply.status = "none"
  BY <1>1 DEF NoReply
<1>. QED
  BY <1>1, <1>2, <1>3 DEF AnswersInv

LEMMA AnswersInvStep ==
  ASSUME AnswersInv, [AnswersNext]_answersVars
  PROVE  AnswersInv'
<1>0. /\ askClock \in Nat /\ recent \in Seq(Nat) /\ through \in Seq(Nat)
      /\ Remembered(recent, through, askClock)
      /\ Cardinality(Fresh(through, askClock)) <= AskLimit
      /\ reply.status = "given" => AnswerRight(reply.bundle, reply.answer)
  BY DEF AnswersInv
<1>1. ASSUME NEW b \in AskBundles, NEW q \in AskQuestions, Ask(b, q) PROVE AnswersInv'
  <2> DEFINE young == Chosen(recent, {i \in DOMAIN recent : askClock - recent[i] < AskWindow})
             grounded == IF surface = "page" THEN GroundedPage(b, q) ELSE GroundedApi(b, q)
             answer == IF grounded.status = "withheld" THEN RuleAnswer(b, q) ELSE grounded
  <2>1. AskRead(b) /\ IsFiniteSet(q)
    BY IssueAnswersAssumption
  <2>2. AnswerRight(b, GroundedPage(b, q)) /\ AnswerRight(b, GroundedApi(b, q)) /\ AnswerRight(b, RuleAnswer(b, q))
    BY <2>1, PageAnswers, ApiAnswers, RulesAnswer
  <2>3. AnswerRight(b, answer)
    BY <2>2
  <2>4. young = Chosen(recent, Fresh(recent, askClock))
    BY DEF Fresh
  <2>5. \/ Len(young) >= AskLimit /\ reply' = [status |-> "limited"] /\ UNCHANGED <<surface, askClock, recent, through>>
        \/ /\ ~(Len(young) >= AskLimit)
           /\ reply' = [status |-> "given", bundle |-> b, question |-> q, answer |-> answer]
           /\ recent' = Append(young, askClock) /\ through' = Append(through, askClock)
           /\ UNCHANGED <<surface, askClock>>
    BY <1>1 DEF Ask
  <2> HIDE DEF answer, young
  <2>6. CASE Len(young) >= AskLimit /\ reply' = [status |-> "limited"] /\ UNCHANGED <<surface, askClock, recent, through>>
    <3>1. reply'.status = "limited"
      BY <2>6
    <3>. QED
      BY <1>0, <2>6, <3>1 DEF AnswersInv
  <2>7. CASE /\ ~(Len(young) >= AskLimit)
             /\ reply' = [status |-> "given", bundle |-> b, question |-> q, answer |-> answer]
             /\ recent' = Append(young, askClock) /\ through' = Append(through, askClock)
             /\ UNCHANGED <<surface, askClock>>
    <3>1. Len(young) < AskLimit
      <4>1. Len(young) \in Nat
        BY <1>0, <2>4, YoungKept
      <4>. QED
        BY <4>1, <2>7, IssueAnswersAssumption
    <3>2. /\ Append(young, askClock) \in Seq(Nat) /\ Append(through, askClock) \in Seq(Nat)
          /\ Remembered(Append(young, askClock), Append(through, askClock), askClock)
          /\ Cardinality(Fresh(Append(through, askClock), askClock)) <= AskLimit
      BY <1>0, <2>4, <3>1, LetThrough
    <3>3. reply'.bundle = b /\ reply'.answer = answer
      BY <2>7
    <3>4. AnswerRight(reply.bundle, reply.answer)'
      BY <2>3, <3>3
    <3>5. Remembered(recent, through, askClock)' /\ Cardinality(Fresh(through, askClock))' <= AskLimit
      BY <2>7, <3>2
    <3>. QED
      BY <1>0, <2>7, <3>2, <3>4, <3>5 DEF AnswersInv
  <2>. QED
    BY <2>5, <2>6, <2>7
<1>2. CASE ReadAnswer
  <2>1. reply'.status = "none"
    BY <1>2 DEF ReadAnswer, NoReply
  <2>. QED
    BY <1>0, <1>2, <2>1 DEF ReadAnswer, AnswersInv
<1>3. CASE AskTick
  <2>1. askClock' = askClock + 1 /\ recent' = recent /\ through' = through /\ reply' = reply /\ reply.status = "none"
    BY <1>3 DEF AskTick, NoReply
  <2>2. Remembered(recent, through, askClock + 1) /\ Cardinality(Fresh(through, askClock + 1)) <= AskLimit
    BY <1>0, LaterFresh
  <2>. QED
    BY <1>0, <2>1, <2>2 DEF AnswersInv
<1>4. CASE NewProcess
  <2>1. recent' = << >> /\ through' = << >> /\ askClock' = askClock /\ reply' = reply /\ reply.status = "none"
    BY <1>4 DEF NewProcess, NoReply
  <2>2. Remembered(<< >>, << >>, askClock) /\ Cardinality(Fresh(<< >>, askClock)) <= AskLimit
    BY <1>0, NoneRemembered
  <2>. QED
    BY <1>0, <2>1, <2>2 DEF AnswersInv
<1>5. CASE UNCHANGED answersVars
  BY <1>0, <1>5 DEF answersVars, AnswersInv
<1>. QED
  BY <1>1, <1>2, <1>3, <1>4, <1>5 DEF AnswersNext

LEMMA AnswersKept == AnswersInv => AnswersGrounded
<1>1. SUFFICES ASSUME AnswersInv PROVE AnswersGrounded
  OBVIOUS
<1>2. Cardinality({i \in DOMAIN through : askClock - through[i] < AskWindow}) <= AskLimit
  BY <1>1 DEF AnswersInv, Fresh
<1>3. reply.status = "given" =>
        /\ CitedRight(reply.bundle, reply.answer.cited)
        /\ TextsRight(reply.bundle, reply.answer.by, Elements(reply.answer.texts))
  BY <1>1 DEF AnswersInv, AnswerRight
<1>. QED
  BY <1>2, <1>3, Zenon DEF AnswersGrounded, CitedRight, TextsRight, SaidBy

----------------------------------------------------------------------------
(* Types *)

LEMMA FeedWalkTyped == FeedWalkInv => ArticleFeedTypeOK
BY DEF FeedWalkInv, FeedTyped

LEMMA FiveTyped == FiveInv => FiveTypeOK
BY DEF FiveInv, FiveTypeOK, FilesOf

LEMMA ViewTyped == ViewInv => ViewTypeOK
<1>1. DOMAIN deriveDay.issues = DOMAIN IssueWritings
  BY DEF deriveDay
<1>. QED
  BY <1>1 DEF ViewInv, ViewTypeOK

\* Whatever is resolved, the comparison shown of a bundle has one of four states.
LEMMA StatusKnown ==
  ASSUME NEW b
  PROVE  SummaryOf(b).status \in {"analysis_failed", "held_for_analysis", "difference_confirmed", "no_clear_difference"}
<1> DEFINE known == {"analysis_failed", "held_for_analysis", "difference_confirmed", "no_clear_difference"}
<1>1. CASE b.semantic \in FailedStates \/ RootStatus(b) \in FailedStates
  BY <1>1 DEF ResultStatus, SummaryOf
<1>2. CASE ~(b.semantic \in FailedStates \/ RootStatus(b) \in FailedStates)
  <2>1. {b.semantic, RootStatus(b)} \cap FailedStates = {}
    BY <1>2
  <2>2. CASE {b.semantic, b.synthesis.status} \cap OpenStates # {}
    <3>1. ResultStatus(b) = "held_for_analysis"
      BY <1>2, <2>1, <2>2 DEF ResultStatus
    <3>. QED
      BY <3>1 DEF SummaryOf
  <2>3. CASE ~({b.semantic, b.synthesis.status} \cap OpenStates # {})
    <3>1. ResultStatus(b) = IF Publishable(b) THEN b.synthesis.status ELSE "held_for_analysis"
      BY <1>2, <2>1, <2>3 DEF ResultStatus
    <3>2. ResultStatus(b) \in known
      BY <3>1 DEF Publishable, HeldStates
    <3>. QED
      BY <3>2 DEF SummaryOf
  <2>. QED
    BY <2>2, <2>3
<1>. QED
  BY <1>1, <1>2

LEMMA SummaryTypeInit == SummaryInit => SummaryTypeOK
BY ActiveSnapshotAssumption DEF SummaryInit, SnapshotInit, SummaryTypeOK, SnapshotTypeOK, IdlePage, NoSummary

LEMMA SummaryTypeStep == SummaryTypeOK /\ [SummaryNext]_summaryVars => SummaryTypeOK'
<1> SUFFICES ASSUME SummaryTypeOK, [SummaryNext]_summaryVars PROVE SummaryTypeOK'
  OBVIOUS
<1>1. CASE UNCHANGED summaryVars
  BY <1>1 DEF summaryVars, snapshotVars, SummaryTypeOK, SnapshotTypeOK
<1>2. CASE ShowSummary
  <2>1. PICK b \in Served : summary' = SummaryOf(b)
    BY <1>2 DEF ShowSummary
  <2>2. SnapshotTypeOK'
    BY <1>2 DEF ShowSummary, snapshotVars, SummaryTypeOK, SnapshotTypeOK
  <2>. QED
    BY <2>1, <2>2, StatusKnown DEF SummaryTypeOK
<1>3. CASE LeaveSummary
  BY <1>3 DEF LeaveSummary, snapshotVars, SummaryTypeOK, SnapshotTypeOK, NoSummary
<1>4. CASE summary = NoSummary /\ SnapshotNext /\ UNCHANGED summary
  <2>1. SnapshotTypeOK
    BY DEF SummaryTypeOK
  <2>2. /\ ReadPointer.step \in {"served", "failed"} /\ ReadPointer.source \in {"none", "pointer"}
        /\ ReadPointer.status \in {"none", "published"}
    BY DEF ReadPointer, IdlePage
  <2>3. ASSUME LoadPage PROVE SnapshotTypeOK'
    <3>1. dataMode' = dataMode /\ moves' = moves
      BY <2>3 DEF LoadPage
    <3>2. CASE dataMode = "live"
      <4>1. page' = ReadPointer
        BY <2>3, <3>2 DEF LoadPage
      <4>. QED
        BY <2>1, <2>2, <3>1, <4>1 DEF SnapshotTypeOK
    <3>3. CASE dataMode = "offline_fixture"
      <4>1. page' = IF pointer # NoEnvelope /\ WholeEnvelope(pointer)
                    THEN [step |-> "served", source |-> "file", status |-> "published", envelope |-> pointer]
                    ELSE [IdlePage EXCEPT !.step = "failed"]
        BY <2>3, <3>3 DEF LoadPage
      <4>. QED
        BY <2>1, <3>1, <4>1 DEF SnapshotTypeOK, IdlePage
    <3>4. CASE dataMode \notin {"live", "offline_fixture"}
      <4>1. page' = DemoPage(DemoStatus)
        BY <2>3, <3>4 DEF LoadPage
      <4>. QED
        BY <2>1, <3>1, <4>1 DEF SnapshotTypeOK, DemoPage, DemoStatus
    <3>. QED
      BY <3>2, <3>3, <3>4
  <2>4. ASSUME LoadApi PROVE SnapshotTypeOK'
    BY <2>1, <2>2, <2>4 DEF LoadApi, DemoPage, SnapshotTypeOK
  <2>5. ASSUME ClosePage PROVE SnapshotTypeOK'
    BY <2>1, <2>5 DEF ClosePage, IdlePage, SnapshotTypeOK
  <2>6. ASSUME MovePointer PROVE SnapshotTypeOK'
    BY <2>1, <2>6, ActiveSnapshotAssumption DEF MovePointer, SnapshotTypeOK
  <2>7. SnapshotTypeOK'
    BY <1>4, <2>3, <2>4, <2>5, <2>6 DEF SnapshotNext
  <2>. QED
    BY <1>4, <2>7 DEF SummaryTypeOK
<1>. QED
  BY <1>1, <1>2, <1>3, <1>4 DEF SummaryNext

\* A reader's acts are counted, and what is asked and applied is among what there is.
BoardWatched == BoardInv /\ acts \in 0 .. BoardActs /\ crossed \in BOOLEAN

LEMMA BoardTypesHold == BoardWatched => BoardTypeOK
<1> SUFFICES ASSUME BoardWatched PROVE BoardTypeOK
  OBVIOUS
<1>1. board \in BoardSet /\ asked \in AskedSet /\ strayed \in BOOLEAN
  BY DEF BoardWatched, BoardInv, BoardRight
<1>2. board.applied \in DOMAIN FilteredTotal
  BY <1>1 DEF BoardSet
<1>3. asked.issues \subseteq ListKeys /\ DOMAIN IssueLists = ListKeys
  BY <1>1, DashboardAssumption DEF AskedSet
<1>. QED
  BY <1>1, <1>2, <1>3 DEF BoardWatched, BoardTypeOK

LEMMA BoardWatchedInit == BoardInit => BoardWatched
<1> SUFFICES ASSUME BoardInit PROVE BoardWatched
  OBVIOUS
<1>1. BoardInv
  BY BoardInvInit
<1>2. acts = 0 /\ crossed = FALSE
  BY DEF BoardInit
<1>3. 0 \in 0 .. BoardActs
  BY DashboardAssumption
<1>. QED
  BY <1>1, <1>2, <1>3 DEF BoardWatched

LEMMA BoardWatchedStep == BoardWatched /\ [BoardNext]_boardVars => BoardWatched'
<1> SUFFICES ASSUME BoardWatched, [BoardNext]_boardVars PROVE BoardWatched'
  OBVIOUS
<1>1. BoardInv'
  BY BoardInvStep DEF BoardWatched
<1>2. acts' = acts \/ Act
  BY DEF BoardNext, boardVars, HandleCategory, HandleIssueDate, SelectIssue, RetryDetail, RetryIssues, OpenArchive,
     Filter, MoreArticles, RefreshAll, DatesAnswered, DatesFailed, IssuesAnswered, IssuesFailed, DetailAnswered,
     ArchiveAnswered, ArchiveFailed
<1>3. acts' \in 0 .. BoardActs
  BY <1>2, DashboardAssumption DEF Act, BoardWatched
<1>4. crossed' = crossed \/ Burst
  BY DEF BoardNext, boardVars, HandleCategory, HandleIssueDate, SelectIssue, RetryDetail, RetryIssues, OpenArchive,
     Filter, MoreArticles, RefreshAll, DatesAnswered, DatesFailed, IssuesAnswered, IssuesFailed, DetailAnswered,
     ArchiveAnswered, ArchiveFailed
<1>5. crossed' \in BOOLEAN
  BY <1>4 DEF Burst, BoardWatched
<1>. QED
  BY <1>1, <1>3, <1>5 DEF BoardWatched

\* The places of a list are finitely many.
LEMMA FirstFinite ==
  ASSUME NEW n \in Nat
  PROVE  IsFiniteSet(1 .. n)
BY FS_Interval

\* What stands at finitely many places is finitely much.
LEMMA ImageFinite ==
  ASSUME NEW S, IsFiniteSet(S), NEW f
  PROVE  IsFiniteSet({f[x] : x \in S})
<1> DEFINE T == {f[x] : x \in S}
           g == [x \in S |-> f[x]]
<1>1. g \in Surjection(S, T)
  BY DEF Surjection
<1>. HIDE DEF T
<1>2. IsFiniteSet(T)
  BY <1>1, FS_Surjection
<1>. QED
  BY <1>2 DEF T

\* The places of a list that is not empty, parts in order and references in order, have a last one.
LEMMA LastPlace ==
  ASSUME NEW k \in Nat, NEW len \in [1 .. k -> Nat],
         NEW Q, Q # {}, \A p \in Q : p = <<p[1], p[2]>> /\ p[1] \in 1 .. k /\ p[2] \in 1 .. len[p[1]]
  PROVE  \E p \in Q : \A q \in Q : q = p \/ Sooner(q, p)
<1> DEFINE heads == {p[1] : p \in Q}
<1>1. heads \in SUBSET Nat /\ IsFiniteSet(heads) /\ heads # {}
  <2>1. heads \subseteq 1 .. k /\ heads # {}
    OBVIOUS
  <2>. HIDE DEF heads
  <2>. QED
    BY <2>1, FirstFinite, FS_Subset
<1>2. PICK n \in heads : \A m \in heads : m <= n
  <2>. HIDE DEF heads
  <2>. QED
    BY <1>1, GreatestOf
<1> DEFINE tails == {p[2] : p \in {x \in Q : x[1] = n}}
<1>3. tails \in SUBSET Nat /\ IsFiniteSet(tails) /\ tails # {}
  <2>1. tails \subseteq 1 .. len[n]
    OBVIOUS
  <2>2. len[n] \in Nat /\ tails # {}
    BY <1>2
  <2>3. IsFiniteSet(1 .. len[n])
    BY <2>2, FirstFinite
  <2>4. IsFiniteSet(tails)
    <3>. HIDE DEF tails
    <3>. QED
      BY <2>1, <2>3, FS_Subset
  <2>5. 1 .. len[n] \subseteq Nat
    BY <2>2
  <2>. QED
    BY <2>1, <2>2, <2>4, <2>5
<1>4. PICK m \in tails : \A i \in tails : i <= m
  <2>. HIDE DEF tails
  <2>. QED
    BY <1>3, GreatestOf
<1>5. PICK p \in Q : p[1] = n /\ p[2] = m
  BY <1>4
<1>6. ASSUME NEW q \in Q, q # p PROVE Sooner(q, p)
  <2>1. q[1] <= n /\ q[1] \in Nat /\ n \in Nat
    <3>1. q[1] \in heads
      OBVIOUS
    <3>. QED
      BY <1>1, <1>2, <3>1
  <2>2. CASE q[1] = n
    <3>1. q[2] \in tails
      BY <2>2
    <3>2. q[2] <= m /\ q[2] \in Nat /\ m \in Nat
      BY <1>3, <1>4, <3>1
    <3>3. q[2] # m
      BY <1>5, <1>6, <2>2
    <3>. QED
      BY <1>5, <2>2, <3>2, <3>3 DEF Sooner
  <2>3. CASE q[1] # n
    BY <1>5, <2>1, <2>3 DEF Sooner
  <2>. QED
    BY <2>2, <2>3
<1>. QED
  BY <1>6

\* A line that answers cites no more references than are shown: the last of those cited has all
\* the others before it.
LEMMA FewRefs ==
  ASSUME NEW parts, NEW k \in Nat, DOMAIN parts = 1 .. k,
         \A n \in 1 .. k : parts[n].refs \in Seq(ToSet(parts[n].refs))
  PROVE  Cardinality(FirstRefs(parts)) <= EvidenceShown
<1> DEFINE Q == {q \in Met(parts) : Cardinality(MetBefore(parts, q)) < EvidenceShown}
           len == [n \in 1 .. k |-> Len(parts[n].refs)]
<1>0. EvidenceShown \in Nat \ {0}
  BY EvidenceChatAssumption
<1>1. FirstRefs(parts) = {MetAt(parts, p) : p \in Q}
  BY DEF FirstRefs
<1>2. len \in [1 .. k -> Nat] /\ \A n \in 1 .. k : DOMAIN parts[n].refs = 1 .. len[n]
  BY ListOf
<1>3. \A p \in Met(parts) : p = <<p[1], p[2]>> /\ p[1] \in 1 .. k /\ p[2] \in 1 .. len[p[1]]
  BY <1>2 DEF Met
<1>4. IsFiniteSet(Met(parts))
  <2>1. \A n \in 1 .. k : IsFiniteSet({n} \X DOMAIN parts[n].refs)
    <3>1. TAKE n \in 1 .. k
    <3>2. len[n] \in Nat /\ DOMAIN parts[n].refs = 1 .. len[n]
      BY <1>2
    <3>3. IsFiniteSet(1 .. len[n]) /\ IsFiniteSet({n})
      BY <3>2, FirstFinite, FS_Singleton
    <3>. QED
      BY <3>2, <3>3, FS_Product
  <2> DEFINE all == {{n} \X DOMAIN parts[n].refs : n \in 1 .. k}
  <2>2. IsFiniteSet(all)
    <3> DEFINE f == [n \in 1 .. k |-> {n} \X DOMAIN parts[n].refs]
    <3>1. all = {f[n] : n \in 1 .. k}
      OBVIOUS
    <3>. HIDE DEF f, all
    <3>. QED
      BY <3>1, FirstFinite, ImageFinite
  <2>3. \A s \in all : IsFiniteSet(s)
    BY <2>1
  <2>4. Met(parts) = UNION all
    BY DEF Met
  <2>. HIDE DEF all
  <2>. QED
    BY <2>2, <2>3, <2>4, FS_UNION
<1>5. CASE Q = {}
  <2>1. FirstRefs(parts) = {}
    BY <1>1, <1>5
  <2>. QED
    BY <1>0, <2>1, FS_EmptySet
<1>6. CASE Q # {}
  <2>1. PICK p \in Q : \A q \in Q : q = p \/ Sooner(q, p)
    <3>1. \A x \in Q : x = <<x[1], x[2]>> /\ x[1] \in 1 .. k /\ x[2] \in 1 .. len[x[1]]
      BY <1>3
    <3>. HIDE DEF Q, len
    <3>. QED
      BY <1>2, <1>6, <3>1, LastPlace
  <2> DEFINE B == MetBefore(parts, p)
  <2>2. FirstRefs(parts) \subseteq B \cup {MetAt(parts, p)}
    BY <1>1, <2>1 DEF MetBefore
  <2>3. IsFiniteSet(B)
    <3>1. IsFiniteSet({r \in Met(parts) : Sooner(r, p)})
      BY <1>4, FS_Subset
    <3> DEFINE R == {r \in Met(parts) : Sooner(r, p)}
    <3>2. B = {MetAt(parts, q) : q \in R}
      BY DEF MetBefore
    <3>. HIDE DEF R, B
    <3>3. IsFiniteSet(R)
      BY <3>1 DEF R
    <3>. QED
      <4> DEFINE f == [q \in R |-> MetAt(parts, q)]
      <4>1. B = {f[q] : q \in R}
        BY <3>2
      <4>. HIDE DEF f
      <4>. QED
        BY <3>3, <4>1, ImageFinite
  <2>4. Cardinality(B) < EvidenceShown
    BY <2>1
  <2> HIDE DEF B, Q
  <2> DEFINE C == B \cup {MetAt(parts, p)}
  <2>5. IsFiniteSet(C) /\ Cardinality(C) \in {Cardinality(B), Cardinality(B) + 1}
    BY <2>3, FS_AddElement
  <2> HIDE DEF C
  <2>6. Cardinality(FirstRefs(parts)) <= Cardinality(C) /\ IsFiniteSet(FirstRefs(parts))
    BY <2>2, <2>5, FS_Subset DEF C
  <2>7. Cardinality(B) \in Nat /\ Cardinality(C) \in Nat /\ Cardinality(FirstRefs(parts)) \in Nat
    BY <2>3, <2>5, <2>6, FS_CardinalityType
  <2>. QED
    BY <1>0, <2>4, <2>5, <2>6, <2>7
<1>. QED
  BY <1>5, <1>6

\* The parts of a line are a list of parts of the comparison.
LEMMA LinesListParts ==
  ASSUME NEW c, Shaped(c), NEW n \in DOMAIN ChatLines(c)
  PROVE  \E j \in Nat : /\ DOMAIN ChatLines(c)[n].parts = 1 .. j
                        /\ \A i \in 1 .. j : ChatLines(c)[n].parts[i] \in ToSet(PartsOf(c))
<1> DEFINE k == Len(PartsOf(c))
           line == ChatLines(c)[n]
<1>1. k \in Nat /\ DOMAIN PartsOf(c) = 1 .. k /\ n \in 1 .. (4 + k)
  BY LinesRight
<1>2. \A i \in 1 .. k : PartsOf(c)[i] \in ToSet(PartsOf(c))
  BY <1>1 DEF ToSet
<1>3. CASE n = 1
  <2>1. line = ChatLine(c.common, PartsOf(c))
    BY <1>3, LinesRight
  <2>2. line.parts = PartsOf(c)
    BY <2>1 DEF ChatLine
  <2>. HIDE DEF k, line
  <2>3. DOMAIN line.parts = 1 .. k /\ \A i \in 1 .. k : line.parts[i] \in ToSet(PartsOf(c))
    BY <1>1, <1>2, <2>2
  <2>. QED
    BY <1>1, <2>3 DEF line
<1>4. CASE n = 2
  <2>0. line = ChatLine(c.difference, c.variants)
    BY <1>4, LinesRight
  <2>1. line.parts = c.variants
    BY <2>0 DEF ChatLine
  <2>2. Len(c.variants) \in Nat /\ DOMAIN c.variants = 1 .. Len(c.variants)
        /\ \A i \in 1 .. Len(c.variants) : c.variants[i] \in ToSet(PartsOf(c))
    BY ListOf, PartsRight DEF Shaped
  <2>. HIDE DEF line
  <2>3. \E j \in Nat : DOMAIN line.parts = 1 .. j /\ \A i \in 1 .. j : line.parts[i] \in ToSet(PartsOf(c))
    BY <2>1, <2>2
  <2>. QED
    BY <2>3 DEF line
<1>5. CASE n = 3
  <2>0. line = ChatLine(c.matters, c.stories)
    BY <1>5, LinesRight
  <2>1. line.parts = c.stories
    BY <2>0 DEF ChatLine
  <2>2. Len(c.stories) \in Nat /\ DOMAIN c.stories = 1 .. Len(c.stories)
        /\ \A i \in 1 .. Len(c.stories) : c.stories[i] \in ToSet(PartsOf(c))
    BY ListOf, PartsRight DEF Shaped
  <2>. HIDE DEF line
  <2>3. \E j \in Nat : DOMAIN line.parts = 1 .. j /\ \A i \in 1 .. j : line.parts[i] \in ToSet(PartsOf(c))
    BY <2>1, <2>2
  <2>. QED
    BY <2>3 DEF line
<1>6. CASE n = 4
  <2>0. line = ChatLine(c.lens, << >>)
    BY <1>6, LinesRight
  <2>1. line.parts = << >>
    BY <2>0 DEF ChatLine
  <2>2. DOMAIN << >> = 1 .. 0
    OBVIOUS
  <2>. HIDE DEF line
  <2>3. DOMAIN line.parts = 1 .. 0 /\ \A i \in 1 .. 0 : line.parts[i] \in ToSet(PartsOf(c))
    BY <2>1, <2>2
  <2>. QED
    BY <2>3 DEF line
<1>7. CASE n \in 5 .. (4 + k)
  <2> DEFINE i == n - 4
             part == PartsOf(c)[i]
  <2>1. i \in 1 .. k /\ n = 4 + i
    <3>. HIDE DEF k
    <3>. QED
      BY <1>1, <1>7
  <2>2. line.parts = <<part>>
    <3>1. ChatLines(c)[4 + i] = ChatLine(part.words, <<part>>)
      <4>. HIDE DEF i
      <4>. QED
        BY <2>1, LinesRight
    <3>. QED
      BY <2>1, <3>1 DEF ChatLine
  <2>3. part \in ToSet(PartsOf(c))
    BY <1>2, <2>1
  <2>4. \A x : DOMAIN <<x>> = 1 .. 1 /\ <<x>>[1] = x
    OBVIOUS
  <2>. HIDE DEF part, line
  <2>5. DOMAIN line.parts = 1 .. 1 /\ \A m \in 1 .. 1 : line.parts[m] \in ToSet(PartsOf(c))
    BY <2>2, <2>3, <2>4
  <2>. QED
    BY <2>5 DEF line
<1>. QED
  <2>1. n = 1 \/ n = 2 \/ n = 3 \/ n = 4 \/ n \in 5 .. (4 + k)
    <3>. HIDE DEF k
    <3>. QED
      BY <1>1
  <2>. QED
    BY <1>3, <1>4, <1>5, <1>6, <1>7, <2>1

\* So a line cites no more references than are shown.
LEMMA LineCitesFew ==
  ASSUME NEW c, Shaped(c), NEW n \in DOMAIN ChatLines(c)
  PROVE  Cardinality(FirstRefs(ChatLines(c)[n].parts)) <= EvidenceShown
<1> DEFINE parts == ChatLines(c)[n].parts
<1>1. PICK j \in Nat : DOMAIN parts = 1 .. j /\ \A i \in 1 .. j : parts[i] \in ToSet(PartsOf(c))
  BY LinesListParts
<1>2. \A part \in ToSet(PartsOf(c)) : part.refs \in Seq(ToSet(part.refs))
  BY PartsRight DEF Shaped
<1>3. \A i \in 1 .. j : parts[i].refs \in Seq(ToSet(parts[i].refs))
  BY <1>1, <1>2
<1>. HIDE DEF parts
<1>4. Cardinality(FirstRefs(parts)) <= EvidenceShown
  BY <1>1, <1>3, FewRefs
<1>. QED
  BY <1>4 DEF parts

\* An answer is a line of the comparison and cites no more references than are shown.
ChatTyped == ChatInv /\ ChatTypeOK

LEMMA ChatTypedInit == ChatInit => ChatTyped
<1> SUFFICES ASSUME ChatInit PROVE ChatTyped
  OBVIOUS
<1>1. Cardinality({}) <= EvidenceShown
  BY FS_EmptySet, EvidenceChatAssumption
<1>2. chatQuestion = {} /\ chatReply.status = "none" /\ chatReply.refs = {}
  BY DEF ChatInit, Unasked
<1>. QED
  BY <1>1, <1>2, ChatInvInit DEF ChatTyped, ChatTypeOK

LEMMA ChatTypedStep == ChatTyped /\ [AskChat]_chatVars => ChatTyped'
<1> SUFFICES ASSUME ChatTyped, [AskChat]_chatVars PROVE ChatTyped'
  OBVIOUS
<1>1. ChatInv'
  BY ChatInvStep DEF ChatTyped
<1>2. CASE UNCHANGED chatVars
  BY <1>1, <1>2 DEF ChatTyped, ChatTypeOK, chatVars
<1>3. CASE AskChat
  <2> DEFINE c == ChatIssues[chatIssue]
  <2>1. PICK words \in ChatQuestions :
          /\ chatQuestion' = words
          /\ chatReply' = IF c \in {NoComparison, Unreadable}
                          THEN [Unasked EXCEPT !.status = "withheld"] ELSE AnswerOf(words, c)
    BY <1>3 DEF AskChat
  <2>2. IsFiniteSet(words)
    BY EvidenceChatAssumption
  <2>3. CASE chatReply' = [Unasked EXCEPT !.status = "withheld"]
    <3>1. chatReply'.status = "withheld" /\ chatReply'.refs = {}
      BY <2>3 DEF Unasked
    <3>2. Cardinality({}) <= EvidenceShown
      BY FS_EmptySet, EvidenceChatAssumption
    <3>. QED
      BY <1>1, <2>1, <3>1, <3>2 DEF ChatTyped, ChatTypeOK
  <2>4. CASE chatReply' # [Unasked EXCEPT !.status = "withheld"]
    <3>1. chatReply' = AnswerOf(words, c) /\ Answering(words, ChatLines(c)) # {} /\ c \notin {NoComparison, Unreadable}
      BY <2>1, <2>4 DEF AnswerOf
    <3> DEFINE n == BestLine(words, ChatLines(c))
    <3>2. chatReply' = [status |-> "answered", line |-> n, refs |-> FirstRefs(ChatLines(c)[n].parts)]
      BY <3>1 DEF AnswerOf
    <3>3. Shaped(c)
      BY <3>1, EvidenceChatAssumption DEF ChatTyped, ChatInv, Stored, Shaped
    <3>. HIDE DEF c
    <3>4. n \in Answering(words, ChatLines(c))
      <4>1. DOMAIN ChatLines(c) = 1 .. (4 + Len(PartsOf(c))) /\ Len(PartsOf(c)) \in Nat
        BY <3>3, LinesRight
      <4>2. 4 + Len(PartsOf(c)) \in Nat
        BY <4>1
      <4>. QED
        BY <2>2, <3>1, <4>1, <4>2, BestIsAble
    <3>. HIDE DEF n
    <3>5. n \in DOMAIN ChatLines(c)
      BY <3>4 DEF Answering
    <3>6. Cardinality(FirstRefs(ChatLines(c)[n].parts)) <= EvidenceShown
      BY <3>3, <3>5, LineCitesFew
    <3>7. chatReply'.status = "answered" /\ chatReply'.refs = FirstRefs(ChatLines(c)[n].parts)
      BY <3>2
    <3>. QED
      BY <1>1, <2>1, <3>6, <3>7 DEF ChatTyped, ChatTypeOK
  <2>. QED
    BY <2>3, <2>4
<1>. QED
  BY <1>2, <1>3

\* The times kept are not later than the present, which the horizon bounds.
AnswersTyped == AnswersInv /\ AnswersTypeOK

LEMMA AnswersTypedInit == AnswersInit => AnswersTyped
<1> SUFFICES ASSUME AnswersInit PROVE AnswersTyped
  OBVIOUS
<1>1. recent = << >> /\ askClock = 0 /\ surface \in {"page", "api"} /\ reply.status = "none"
  BY DEF AnswersInit, NoReply
<1>2. DOMAIN recent = {}
  BY <1>1
<1>. QED
  BY <1>1, <1>2, AnswersInvInit, IssueAnswersAssumption DEF AnswersTyped, AnswersTypeOK

LEMMA AnswersTypedStep == AnswersTyped /\ [AnswersNext]_answersVars => AnswersTyped'
<1> SUFFICES ASSUME AnswersTyped, [AnswersNext]_answersVars PROVE AnswersTyped'
  OBVIOUS
<1>1. AnswersInv' /\ AnswersInv /\ AnswersTypeOK
  BY AnswersInvStep DEF AnswersTyped
<1>2. CASE UNCHANGED answersVars
  BY <1>1, <1>2 DEF AnswersTyped, AnswersTypeOK, answersVars
<1>3. CASE \E b \in AskBundles, q \in AskQuestions : Ask(b, q)
  <2> DEFINE young == Chosen(recent, {i \in DOMAIN recent : askClock - recent[i] < AskWindow})
  <2>1. PICK b \in AskBundles, q \in AskQuestions : Ask(b, q)
    BY <1>3
  <2>2. surface' = surface /\ askClock' = askClock /\ (recent' = recent \/ recent' = Append(young, askClock))
        /\ reply'.status \in {"limited", "given"}
    BY <2>1 DEF Ask
  <2>3. recent \in Seq(Nat) /\ askClock \in Nat /\ \A i \in DOMAIN recent : recent[i] \in 0 .. askClock
    BY <1>1 DEF AnswersInv, AnswersTypeOK
  <2>4. young \in Seq(Nat) /\ \A n \in DOMAIN young : young[n] \in 0 .. askClock
    <3>1. young = Chosen(recent, Fresh(recent, askClock))
      BY DEF Fresh
    <3>. HIDE DEF young
    <3>2. young \in Seq(Nat) /\ Gathers(young, recent, Fresh(recent, askClock))
      BY <2>3, <3>1, YoungKept
    <3>3. \A n \in DOMAIN young : \E i \in Fresh(recent, askClock) : young[n] = recent[i]
      BY <3>2 DEF Gathers
    <3>. QED
      BY <2>3, <3>2, <3>3 DEF Fresh
  <2>. HIDE DEF young
  <2>5. \A i \in DOMAIN recent' : recent'[i] \in 0 .. askClock
    <3>1. CASE recent' = recent
      BY <2>3, <3>1
    <3>2. CASE recent' = Append(young, askClock)
      <4>1. /\ DOMAIN recent' = 1 .. Len(young) + 1 /\ DOMAIN young = 1 .. Len(young) /\ Len(young) \in Nat
            /\ \A i \in 1 .. Len(young) : recent'[i] = young[i]
            /\ recent'[Len(young) + 1] = askClock
        BY <2>4, <3>2
      <4>2. askClock \in 0 .. askClock
        BY <2>3
      <4>. QED
        BY <2>4, <4>1, <4>2
    <3>. QED
      BY <2>2, <3>1, <3>2
  <2>. QED
    BY <1>1, <2>2, <2>5 DEF AnswersTyped, AnswersTypeOK
<1>4. CASE ReadAnswer
  BY <1>1, <1>4 DEF ReadAnswer, NoReply, AnswersTyped, AnswersTypeOK
<1>5. CASE AskTick
  <2>1. /\ askClock \in Nat /\ \A i \in DOMAIN recent : recent[i] \in 0 .. askClock
    BY <1>1 DEF AnswersInv, AnswersTypeOK
  <2>2. askClock' = askClock + 1 /\ askClock < AskHorizon /\ recent' = recent /\ surface' = surface /\ reply' = reply
    BY <1>5 DEF AskTick
  <2>3. askClock' \in 0 .. AskHorizon /\ 0 .. askClock \subseteq 0 .. askClock'
    BY <2>1, <2>2, IssueAnswersAssumption
  <2>. QED
    BY <1>1, <2>1, <2>2, <2>3 DEF AnswersTyped, AnswersTypeOK
<1>6. CASE NewProcess
  <2>1. DOMAIN << >> = {}
    OBVIOUS
  <2>. QED
    BY <1>1, <1>6, <2>1 DEF NewProcess, AnswersTyped, AnswersTypeOK
<1>. QED
  BY <1>2, <1>3, <1>4, <1>5, <1>6 DEF AnswersNext

=============================================================================
