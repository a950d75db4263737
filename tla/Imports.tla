------------------------------ MODULE Imports -------------------------------
(***************************************************************************)
(* What reaches the article tables from outside: imports of metadata, with *)
(* excerpts to analyse or with finished analyses, observations of home     *)
(* pages, the analysis of public pages on demand (the handlers of          *)
(* site/worker/runtime.mjs) and the scheduled discovery of articles        *)
(* (discovery-store.mjs).  Each handler is a chain of batches; requests    *)
(* overlap, a batch may fail, and the worker may be cut off between two.   *)
(* The analysis a finished round of public pages asks for is the one of    *)
(* AnalysisPublication.                                                    *)
(***************************************************************************)
EXTENDS Naturals, FiniteSets, Sequences, SequencesExt, FiniteSetsExt

CONSTANTS
  Urls,        \* canonical urls of articles
  Callers,     \* requests in flight
  Brought,     \* bound: the sets of articles a request brings
  Times,       \* bound: times of observation
  BatchSize,   \* statements of one batch
  ImportCalls  \* bound: requests in all; the number of a request stands for what it brings

ASSUME ImportsAssumption ==
  /\ \A us \in Brought : us \subseteq Urls /\ IsFiniteSet(us)
  /\ Times \subseteq Nat /\ \E last \in Times : \A t \in Times : t <= last
  /\ ImportCalls \in Nat /\ BatchSize \in Nat \ {0} /\ BatchSize % 2 = 0

VARIABLES
  article,    \* articles: known or not, and the request that gave the placement shown
  observed,   \* placement_observations with the time of their snapshot
  runRow,     \* collection_runs of imports, by request
  analyses,     \* article_body_signals and article_frame_profiles, by extractor and article
  call,       \* the requests in flight
  calls,      \* requests begun
  loose,      \* history: articles whose placement an import, or a request cut short, left behind
  stranded,   \* history: observations a discovery left without the article it brought
  overtaken   \* history: requests and articles whose profile another wrote after they chose it

importVars == <<article, observed, runRow, analyses, call, calls, loose, stranded, overtaken>>

Numbers     == 0 .. ImportCalls
Extractors  == {"export", "public", "gcp"}
Tables      == {"signals", "profile"}
StoredRow   == [by : Numbers, status : {"none", "analyzed", "failed"}]
NoRow       == [by |-> 0, status |-> "none"]
Observation == [at : Times, url : Urls, place : 1 .. ImportCalls, linked : BOOLEAN]
Placeless   == [known |-> FALSE, place |-> 0]

ImportKinds == {"import", "structured", "analyzed"}
ImportSteps == {"idle", "run", "articles", "link", "result", "record", "save", "observe", "place",
                "discover"}
Resting     == [step |-> "idle", kind |-> "import", no |-> 0, at |-> 0, urls |-> {}, placed |-> FALSE,
                bad |-> {}, todo |-> << >>]
ImportCall  == [step : ImportSteps, kind : ImportKinds \cup {"observe", "transient", "discover"},
                no : Numbers, at : Times \cup {0}, urls : SUBSET Urls, placed : BOOLEAN, bad : SUBSET Urls,
                todo : Seq(Tables \X Urls)]

ImportsInit ==
  /\ article = [u \in Urls |-> Placeless]
  /\ observed = {} /\ runRow = [n \in 1 .. ImportCalls |-> [urls |-> {}, status |-> "none"]]
  /\ analyses = [e \in Extractors |-> [t \in Tables |-> [u \in Urls |-> NoRow]]]
  /\ call = [c \in Callers |-> Resting] /\ calls = 0
  /\ loose = {} /\ stranded = {} /\ overtaken = {}

----------------------------------------------------------------------------
(* The statements of a request and its batches *)

Known(u) == article[u].known
Extractor(c) == CASE call[c].kind = "structured" -> "export"
                  [] call[c].kind = "analyzed"   -> "gcp"
                  [] call[c].kind = "transient"  -> "public"

\* one statement for each article; the two tables of one article next to each other
PerUrl(us) == LET s == SetToSeq(us) IN [i \in DOMAIN s |-> <<"profile", s[i]>>]
\* Fault: the statements are grouped by table.
ByTable(us) == LET s == SetToSeq(us)
               IN [i \in DOMAIN s |-> <<"signals", s[i]>>] \o [i \in DOMAIN s |-> <<"profile", s[i]>>]
Paired(us) == LET s == SetToSeq(us)
              IN [i \in 1 .. 2 * Len(s) |-> <<IF i % 2 = 1 THEN "signals" ELSE "profile", s[(i + 1) \div 2]>>]
AnalysisStatements(kind, us) == IF kind = "analyzed" THEN PerUrl(us) ELSE Paired(us)

Batch(c)     == SubSeq(call[c].todo, 1, Min({BatchSize, Len(call[c].todo)}))
BatchUrls(c) == {Batch(c)[i][2] : i \in DOMAIN Batch(c)}
Remaining(c)      == SubSeq(call[c].todo, BatchSize + 1, Len(call[c].todo))
AllSent(c)   == Remaining(c) = << >>

\* The request has written its batch: it goes on with the next one, or to step.
Sent(c, step, todo) ==
  call' = [call EXCEPT ![c] = IF ~AllSent(c) THEN [@ EXCEPT !.todo = Remaining(c)]
                              ELSE IF step = "idle" THEN Resting
                              ELSE [@ EXCEPT !.step = step, !.todo = todo]]
Turns(c, step) == call' = [call EXCEPT ![c].step = step]
Ends(c)        == call' = [call EXCEPT ![c] = Resting]
Takes(c, r) ==
  /\ call[c].step = "idle" /\ calls < ImportCalls
  /\ calls' = calls + 1
  /\ call' = [call EXCEPT ![c] = r]
  /\ overtaken' = {o \in overtaken : o[1] # c}

----------------------------------------------------------------------------
(* handleImport, and the two imports that run it first *)

BeginImport(c) ==
  /\ \E k \in ImportKinds, us \in Brought, p \in BOOLEAN :
       /\ p => k = "import"
       /\ Takes(c, [Resting EXCEPT !.step = "run", !.kind = k, !.no = calls + 1, !.urls = us, !.placed = p])
  /\ UNCHANGED <<article, observed, runRow, analyses, loose, stranded>>

InsertRun(c) ==
  /\ call[c].step = "run" /\ Turns(c, "articles")
  /\ runRow' = [runRow EXCEPT ![call[c].no] = [urls |-> call[c].urls, status |-> "running"]]
  /\ UNCHANGED <<article, observed, analyses, calls, loose, stranded, overtaken>>

\* ON CONFLICT(canonical_url): the placement is kept when the row brings none
Upserted(c, u) == [known |-> TRUE, place |-> IF call[c].placed THEN call[c].no ELSE article[u].place]

UpsertArticles(c) ==
  /\ call[c].step = "articles"
  /\ article' = [u \in Urls |-> IF u \in call[c].urls THEN Upserted(c, u) ELSE article[u]]
  /\ loose' = IF call[c].placed THEN loose \cup call[c].urls ELSE loose
  /\ call' = [call EXCEPT ![c].step = "link", ![c].todo = PerUrl(call[c].urls)]
  /\ UNCHANGED <<observed, runRow, analyses, calls, stranded, overtaken>>

\* Fault: only the observations of this request's own time are linked.
LinkedFirst(us) == {o \in observed : o.url \in us /\ ~o.linked /\ o.at = 1}
Unlinked(us) == {o \in observed : o.url \in us /\ ~o.linked}

LinkObservations(c) ==
  /\ call[c].step = "link"
  /\ LET found == Unlinked(BatchUrls(c))
     IN /\ observed' = (observed \ found) \cup {[o EXCEPT !.linked = TRUE] : o \in found}
        /\ loose' = loose \cup {o.url : o \in found}
  /\ Sent(c, "result", << >>)
  /\ UNCHANGED <<article, runRow, analyses, calls, stranded, overtaken>>

RecordResults(c) ==
  /\ call[c].step = "result"
  /\ runRow' = [runRow EXCEPT ![call[c].no].status = "success"]
  /\ IF call[c].kind = "import" THEN Ends(c)
     ELSE call' = [call EXCEPT ![c].step = "save", ![c].todo = AnalysisStatements(call[c].kind, call[c].urls)]
  /\ UNCHANGED <<article, observed, analyses, calls, loose, stranded, overtaken>>

ImportFails(c) ==
  /\ call[c].step \in {"run", "articles", "link", "result"} /\ Turns(c, "record")
  /\ UNCHANGED <<article, observed, runRow, analyses, calls, loose, stranded, overtaken>>

\* The record of the failure may fail as well.
RecordImportFailure(c) ==
  /\ call[c].step = "record" /\ Ends(c)
  /\ runRow' \in {runRow, IF runRow[call[c].no].status = "none" THEN runRow
                          ELSE [runRow EXCEPT ![call[c].no].status = "failed"]}
  /\ UNCHANGED <<article, observed, analyses, calls, loose, stranded, overtaken>>

----------------------------------------------------------------------------
(* handleHomepageObservation *)

BeginObservation(c) ==
  /\ \E us \in Brought, t \in Times :
       Takes(c, [Resting EXCEPT !.step = "observe", !.kind = "observe", !.no = calls + 1, !.urls = us,
                                !.at = t, !.todo = PerUrl(us)])
  /\ UNCHANGED <<article, observed, runRow, analyses, loose, stranded>>

\* ON CONFLICT(snapshot_id, canonical_url, x, y): one position of an article on a page
WriteObservations(c) ==
  /\ call[c].step = "observe"
  /\ observed' = {o \in observed : ~(o.at = call[c].at /\ o.url \in BatchUrls(c))}
                 \cup {[at |-> call[c].at, url |-> u, place |-> call[c].no, linked |-> Known(u)] :
                          u \in BatchUrls(c)}
  /\ Sent(c, "place", PerUrl(call[c].urls))
  /\ UNCHANGED <<article, runRow, analyses, calls, loose, stranded, overtaken>>

LinkedTo(u) == {o \in observed : o.url = u /\ o.linked}
LatestPlace(u) ==
  IF LinkedTo(u) = {} THEN 0
  ELSE (CHOOSE o \in LinkedTo(u) : \A p \in LinkedTo(u) : p.at <= o.at).place

\* Fault: the article shows what this request observed.
OwnPlace(c, u) == call[c].no
ShownPlace(c, u) == LatestPlace(u)

PlaceArticles(c) ==
  /\ call[c].step = "place"
  /\ article' = [u \in Urls |-> IF u \in BatchUrls(c) /\ Known(u)
                                THEN [article[u] EXCEPT !.place = ShownPlace(c, u)] ELSE article[u]]
  /\ loose' = loose \ BatchUrls(c)
  /\ Sent(c, "idle", << >>)
  /\ UNCHANGED <<observed, runRow, analyses, calls, stranded, overtaken>>

----------------------------------------------------------------------------
(* persistDiscoveryCycle: the articles of a discovery *)

BeginDiscovery(c) ==
  /\ \E us \in Brought :
       Takes(c, [Resting EXCEPT !.step = "discover", !.kind = "discover", !.no = calls + 1, !.urls = us,
                                !.todo = PerUrl(us)])
  /\ UNCHANGED <<article, observed, runRow, analyses, loose, stranded>>

\* ON CONFLICT(canonical_url): an article that is known keeps its placement; a new one has
\* none, and its earlier observations are not looked for.
DiscoverArticles(c) ==
  /\ call[c].step = "discover"
  /\ article' = [u \in Urls |-> IF u \in BatchUrls(c) THEN [article[u] EXCEPT !.known = TRUE] ELSE article[u]]
  /\ stranded' = stranded \cup {o \in Unlinked(BatchUrls(c)) : ~Known(o.url)}
  /\ Sent(c, "idle", << >>)
  /\ UNCHANGED <<observed, runRow, analyses, calls, loose, overtaken>>

----------------------------------------------------------------------------
(* handleTransientAnalyze, and the writes of the analyses *)

Profile(e, u) == analyses[e]["profile"][u]

\* Fault: with retry_failed an article that was analysed is chosen again.
ChosenAgain(u, retry) == Known(u) /\ (retry \/ Profile("public", u).status = "none")
Choosable(u, retry) ==
  /\ Known(u)
  /\ \/ Profile("public", u).status = "none"
     \/ retry /\ Profile("public", u).status = "failed"

BeginTransient(c) ==
  /\ \E retry \in BOOLEAN, us \in Brought : \E bad \in SUBSET us :
       /\ \A u \in us : Choosable(u, retry)
       /\ Takes(c, [Resting EXCEPT !.step = "save", !.kind = "transient", !.no = calls + 1, !.urls = us,
                                !.bad = bad, !.todo = AnalysisStatements("transient", us)])
  /\ UNCHANGED <<article, observed, runRow, analyses, loose, stranded>>

RowOf(c, u) == [by |-> call[c].no, status |-> IF u \in call[c].bad THEN "failed" ELSE "analyzed"]

SaveAnalyses(c) ==
  /\ call[c].step = "save"
  /\ LET e == Extractor(c)
         statements == {Batch(c)[i] : i \in DOMAIN Batch(c)}
     IN /\ analyses' = [analyses EXCEPT ![e] = [t \in Tables |-> [u \in Urls |->
                         IF <<t, u>> \in statements THEN RowOf(c, u) ELSE analyses[e][t][u]]]]
        /\ overtaken' = overtaken \cup
             {o \in (Callers \ {c}) \X BatchUrls(c) :
                e = "public" /\ call[o[1]].kind = "transient" /\ o[2] \in call[o[1]].urls}
  /\ Sent(c, "idle", << >>)
  /\ UNCHANGED <<article, observed, runRow, calls, loose, stranded>>

\* A batch of an observation, a discovery or of analyses fails, or the worker is cut off.
CutShort(c) ==
  /\ call[c].step # "idle" /\ Ends(c)
  /\ loose' = IF call[c].kind = "observe" THEN loose \cup call[c].urls ELSE loose
  /\ UNCHANGED <<article, observed, runRow, analyses, calls, stranded, overtaken>>

ImportsNext == \E c \in Callers :
  \/ BeginImport(c) \/ InsertRun(c) \/ UpsertArticles(c) \/ LinkObservations(c) \/ RecordResults(c)
  \/ ImportFails(c) \/ RecordImportFailure(c)
  \/ BeginObservation(c) \/ WriteObservations(c) \/ PlaceArticles(c)
  \/ BeginTransient(c) \/ SaveAnalyses(c) \/ CutShort(c)
  \/ BeginDiscovery(c) \/ DiscoverArticles(c)
ImportsSpec == ImportsInit /\ [][ImportsNext]_importVars

----------------------------------------------------------------------------
ImportsTypeOK ==
  /\ article \in [Urls -> [known : BOOLEAN, place : Numbers]] /\ observed \subseteq Observation
  /\ runRow \in [1 .. ImportCalls ->
                  [urls : SUBSET Urls, status : {"none", "running", "success", "failed"}]]
  /\ analyses \in [Extractors -> [Tables -> [Urls -> StoredRow]]]
  /\ call \in [Callers -> ImportCall] /\ calls \in Numbers
  /\ loose \subseteq Urls /\ stranded \subseteq Observation /\ overtaken \subseteq Callers \X Urls

\* An observation of an article that is known stays without it only through an
\* import of that article that did not record success - it is under way, it failed
\* or it was cut short between its articles and its links - or because the article
\* came by a discovery after it, and no import has linked it since.
LinkedWhenKnown == \A o \in observed : (~o.linked /\ Known(o.url)) =>
  \/ \E n \in 1 .. ImportCalls : o.url \in runRow[n].urls /\ runRow[n].status \in {"running", "failed"}
  \/ o \in stranded

\* An article shows its latest observation, whatever the order in which the
\* observations arrive, unless an import or a request cut short came between or one
\* is on its way.
LatestShown == \A u \in Urls :
  \/ ~Known(u) \/ u \in loose \/ article[u].place = LatestPlace(u)
  \/ \E c \in Callers : call[c].kind = "observe" /\ u \in call[c].urls

\* The frames and the profile an extractor keeps of an article are of one text.
SameText == \A u \in Urls, e \in {"export", "public"} : analyses[e]["signals"][u] = analyses[e]["profile"][u]

\* Links, placements and analyses agree with the articles through overlapping and
\* broken requests.
ImportsAgree == LinkedWhenKnown /\ LatestShown /\ SameText

\* An article that was analysed is marked failed only by a request that chose it
\* before the analysis was written.
AnalysisKept == [][\A u \in Urls :
  Profile("public", u).status = "analyzed" /\ Profile("public", u)'.status = "failed"
    => \E c \in Callers : <<c, u>> \in overtaken]_importVars
=============================================================================
