--------------------------- MODULE PublicReading ----------------------------
(***************************************************************************)
(* What the public may read of an analysis (site/worker/runtime.mjs): the  *)
(* dates, the list of issues of a date and one issue, each for all outlets *)
(* or for one of two samples.  The three are separate handlers with their  *)
(* own queries; an issue is read in several queries and then kept by the   *)
(* reader's cache, while runs finish and are rolled back, rights to quote  *)
(* expire and are withdrawn, and imports change an article's provider.     *)
(***************************************************************************)
EXTENDS Naturals, FiniteSets

CONSTANTS
  ReadRuns,      \* runs, in the order they start
  ReadDates,     \* target dates
  Outcomes,      \* bound: the sets of issues a run may find
  Reports,       \* articles
  ReportOutlet,      \* the outlet of each article
  DailyOutlets,  \* active outlets of the type general_daily
  PanelOutlets12, \* outlets of the academic panel
  RightsEnd,     \* when the right to quote an article ends; 0: it may not be quoted
  DetailAge,     \* how long a cache keeps an issue
  ReadHorizon    \* bound: the time

ASSUME PublicReadingAssumption ==
  /\ ReadRuns \subseteq Nat \ {0} /\ IsFiniteSet(ReadRuns) /\ ReadDates # {} /\ DetailAge \in Nat /\ ReadHorizon \in Nat \ {0}
  /\ ReportOutlet \in [Reports -> STRING] /\ RightsEnd \in [Reports -> Nat]
  /\ \A o \in Outcomes : \A i \in o : i.articles \subseteq Reports /\ i.category \in BOOLEAN

VARIABLES
  now,       \* the time
  readRun,    \* analysis_runs with their issues and the articles each may quote
  crawled,   \* articles whose provider is the authorized crawl
  withdrawn, \* when the text of an article was withdrawn or deleted; 0: it was not
  view       \* a reader of one issue: the request and then the cached answer

readingVars == <<now, readRun, crawled, withdrawn, view>>

ReadScopes == {"all", "general_daily_10", "academic_panel_12"}
RunStates == {"none", "running", "success", "failed", "rolled_back"}
ReadRun == [status : RunStates, date : ReadDates, finished : 0 .. Cardinality(ReadRuns),
            issues : Outcomes \cup {{}}, quotable : SUBSET Reports]
ViewSteps == {"rest", "issue", "queries", "render", "shown"}
NoView == [step |-> "rest", scope |-> "all", articles |-> {}, asked |-> 0, at |-> 0,
           rows |-> {}, quotes |-> {}, sources |-> {}]
View == [step : ViewSteps, scope : ReadScopes, articles : SUBSET Reports,
         asked : 0 .. ReadHorizon, at : 0 .. ReadHorizon, rows : SUBSET Reports,
         quotes : SUBSET Reports, sources : SUBSET {ReportOutlet[a] : a \in Reports}]

ReadingInit ==
  /\ now = 1 /\ crawled = {a \in Reports : ReportOutlet[a] \in PanelOutlets12}
  /\ readRun = [r \in ReadRuns |-> [status |-> "none", date |-> CHOOSE d \in ReadDates : TRUE,
                               finished |-> 0, issues |-> {}, quotable |-> {}]]
  /\ withdrawn = [a \in Reports |-> 0] /\ view = NoView

----------------------------------------------------------------------------
(* Scopes *)

\* scopedArticlePredicate, with the sources of resolveIssueScope
InScope(s, a) ==
  \/ s = "all"
  \/ s = "general_daily_10" /\ ReportOutlet[a] \in DailyOutlets
  \/ s = "academic_panel_12" /\ a \in crawled /\ ReportOutlet[a] \in PanelOutlets12
ScopeSources(s) == CASE s = "all" -> {ReportOutlet[a] : a \in Reports}
                     [] s = "general_daily_10" -> DailyOutlets
                     [] OTHER -> PanelOutlets12
ScopedArticles(s, i) == {a \in i.articles : InScope(s, a)}

\* scopedRunExistsClause: some issue of the run has an article in the scope
RunInScope(s, r) == s = "all" \/ \E i \in readRun[r].issues : ScopedArticles(s, i) # {}

\* Fault: the newest run of the date, whatever it looked at.
InAnyScope(s, r) == readRun[r].status = "success"
ReadableIn(s, r) == readRun[r].status = "success" /\ RunInScope(s, r)

\* of some runs the one that finished last
LastFinished(rs) == {r \in rs : \A o \in rs : readRun[o].finished <= readRun[r].finished}

----------------------------------------------------------------------------
(* The lists *)

\* latestAnalysisRun of a date
LatestRun(s, d) == LastFinished({r \in ReadRuns : ReadableIn(s, r) /\ readRun[r].date = d})

\* handleIssueDates: the last run of each date by its own query, then its public issues
DateRun(s, d) == LastFinished({r \in ReadRuns : readRun[r].status = "success" /\ readRun[r].date = d
                                                /\ RunInScope(s, r)})
PublicIssues(s, r) == {i \in readRun[r].issues : i.category /\ (s = "all" \/ ScopedArticles(s, i) # {})}
Dates(s) == {d \in ReadDates : \E r \in DateRun(s, d) : PublicIssues(s, r) # {}}

\* handleScopedIssues and handleIssues
IssueList(s, d) == UNION {{<<r, i>> : i \in PublicIssues(s, r)} : r \in LatestRun(s, d)}

\* handleIssueDetail: no run, no public category and no article in the scope are each a 404
Opens(s, r, i) == readRun[r].status = "success" /\ i.category /\ (s # "all" => ScopedArticles(s, i) # {})

\* handleAnalysisRuns: the run of each date that started last, whatever became of it
DayRun(s, d) ==
  LET rs == {r \in ReadRuns : readRun[r].status # "none" /\ readRun[r].date = d /\ RunInScope(s, r)}
  IN {r \in rs : \A o \in rs : o <= r}

----------------------------------------------------------------------------
(* One issue *)

AskIssue(s, r, i) ==
  /\ view.step = "rest"
  /\ i \in readRun[r].issues /\ Opens("all", r, i)
  /\ view' = [NoView EXCEPT !.scope = s, !.asked = now, !.articles = i.articles,
                            !.rows = readRun[r].quotable \cap i.articles,
                            !.step = IF s = "all" THEN "queries" ELSE "issue"]
  /\ UNCHANGED <<now, readRun, crawled, withdrawn>>

\* the query for the metrics of the scope
ScopeIssue ==
  /\ view.step = "issue"
  /\ view' = IF ScopedArticles(view.scope, view) = {} THEN NoView ELSE [view EXCEPT !.step = "queries"]
  /\ UNCHANGED <<now, readRun, crawled, withdrawn>>

HeldText(a) == withdrawn[a] = 0

\* comparisonOnlyUsesSources: a comparison with a foreign outlet is not shown at all
Compared(v) == LET os == {ReportOutlet[a] : a \in v.articles}
               IN IF os \subseteq ScopeSources(v.scope) THEN os ELSE {}

\* the rows of frames with the state of the text each was taken from, and the comparison
QueryIssue ==
  /\ view.step = "queries"
  /\ view' = [view EXCEPT !.step = "render", !.sources = Compared(view),
                !.rows = {a \in @ : InScope(view.scope, a) /\ HeldText(a)}]
  /\ UNCHANGED <<now, readRun, crawled, withdrawn>>

\* Fault: the end of the right is not looked at.
EverLasting(a) == RightsEnd[a] # 0
Unexpired(a) == RightsEnd[a] > now

\* publicFrames: whatever may not be quoted any more is masked
RenderIssue ==
  /\ view.step = "render"
  /\ view' = [view EXCEPT !.step = "shown", !.at = now, !.rows = {},
                          !.quotes = {a \in view.rows : Unexpired(a)}]
  /\ UNCHANGED <<now, readRun, crawled, withdrawn>>

----------------------------------------------------------------------------
(* The rest of the system *)

RunStarts(r) ==
  /\ readRun[r].status = "none" /\ \A o \in ReadRuns : o < r => readRun[o].status # "none"
  /\ \E d \in ReadDates : readRun' = [readRun EXCEPT ![r].status = "running", ![r].date = d]
  /\ UNCHANGED <<now, crawled, withdrawn, view>>

\* an article is quoted from a text held, allowed and unexpired when the run loads it
RunFinishes(r) ==
  /\ readRun[r].status = "running"
  /\ \E o \in Outcomes :
       readRun' = [readRun EXCEPT ![r].status = "success", ![r].issues = o,
                 ![r].finished = 1 + Cardinality({q \in ReadRuns : readRun[q].finished # 0}),
                 ![r].quotable = {a \in Reports : HeldText(a) /\ RightsEnd[a] > now}]
  /\ UNCHANGED <<now, crawled, withdrawn, view>>

RunEnds(r) ==
  /\ \/ readRun[r].status = "running" /\ readRun' = [readRun EXCEPT ![r].status = "failed"]
     \/ readRun[r].status = "success" /\ readRun' = [readRun EXCEPT ![r].status = "rolled_back"]
  /\ UNCHANGED <<now, crawled, withdrawn, view>>

\* an import under another provider takes the article over; it matters for the panel alone
Refile(a) ==
  /\ ReportOutlet[a] \in PanelOutlets12
  /\ crawled' = IF a \in crawled THEN crawled \ {a} ELSE crawled \cup {a}
  /\ UNCHANGED <<now, readRun, withdrawn, view>>

Withdraw(a) ==
  /\ HeldText(a) /\ RightsEnd[a] # 0
  /\ withdrawn' = [withdrawn EXCEPT ![a] = now]
  /\ UNCHANGED <<now, readRun, crawled, view>>

ReadTick ==
  /\ now < ReadHorizon /\ now' = now + 1
  /\ view' = IF view.step = "shown" /\ now + 1 > view.at + DetailAge THEN NoView ELSE view
  /\ UNCHANGED <<readRun, crawled, withdrawn>>

ReadingNext ==
  \/ \E r \in ReadRuns : RunStarts(r) \/ RunFinishes(r) \/ RunEnds(r)
                         \/ \E s \in ReadScopes : \E i \in readRun[r].issues : AskIssue(s, r, i)
  \/ ScopeIssue \/ QueryIssue \/ RenderIssue
  \/ \E a \in Reports : Refile(a) \/ Withdraw(a)
  \/ ReadTick

----------------------------------------------------------------------------

ReadingTypeOK ==
  /\ now \in 1 .. ReadHorizon /\ readRun \in [ReadRuns -> ReadRun] /\ crawled \subseteq Reports
  /\ withdrawn \in [Reports -> 0 .. ReadHorizon] /\ view \in View

\* A quote on a reader's screen was held when the reader asked and its right had not ended
\* when the answer was written; a cache keeps the answer no longer than its age.
QuotesHeld ==
  /\ \A a \in view.quotes : (withdrawn[a] = 0 \/ withdrawn[a] >= view.asked) /\ RightsEnd[a] > view.at
  /\ view.step = "shown" => now <= view.at + DetailAge

\* The quotes and the comparison a reader sees are of outlets of the sample chosen.
SampleKept == view.sources \cup {ReportOutlet[a] : a \in view.quotes} \subseteq ScopeSources(view.scope)

\* Every date offered has a list, every issue listed opens under the same scope, and the
\* administrator's calendar shows a run on that date.
SurfacesAgree ==
  \A s \in ReadScopes : \A d \in Dates(s) :
    /\ IssueList(s, d) # {} /\ \A e \in IssueList(s, d) : Opens(s, e[1], e[2])
    /\ DayRun(s, d) # {}
=============================================================================
