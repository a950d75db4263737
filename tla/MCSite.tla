------------------------------- MODULE MCSite -------------------------------
(* The models of the site that share no variable, each checked alone in one   *)
(* run: the initial state chooses the scene and no step leaves it.            *)
EXTENDS MCAnalysisPublication, MCFrameComparison, MCAgendaEvents, MCActiveSnapshot,
        MCIssueAnswers, MCIssueView, Community, CommunityFeed, QualityReview,
        ScheduledOperations, Imports, ArticleFeed, PublicReading, InitialFive,
        Dashboard, MCEventStories, AdminConsole,
        AuthorizedContent, EvidenceChat

CONSTANTS a1, a2, c1, i1, i2, u1, u2

VARIABLE scene

OneOfAKind == [k \in Kinds |-> 1]
OnePosted  == c1 :> i1
Placed     == i1 :> {a1} @@ i2 :> {a2}
OneMinute  == [r \in OpsRuns |-> "minute"]

\* A run finds an issue of both reports and one outside every public category, or an issue
\* of report 2 alone, of an outlet outside the panel, which may not be quoted.
IssueFound(articles, category) == [articles |-> articles, category |-> category]
Findings   == {{IssueFound({1, 2}, TRUE), IssueFound({1}, FALSE)}, {IssueFound({2}, TRUE)}}
TwoOutlets == 1 :> "panel" @@ 2 :> "daily"
OneRight   == 1 :> 2 @@ 2 :> 0

\* The issue file with the issues in either order, with and without a right number of
\* articles declared, and clusters of the first issue alone.
Top(rank, articles, declared) == [rank |-> rank, articles |-> articles, declared |-> declared]
IssueFiles == {<<Top(1, {1, 2}, first), Top(2, {3}, {}), Top(3, {4}, {1})>> : first \in {{2}, {1}}}
               \cup {<<Top(1, {1, 2}, {}), Top(3, {4}, {1}), Top(2, {3}, {})>>}
OneCluster == {[r \in FiveRanks |-> IF r = 1 THEN "succeeded" ELSE "review_needed"]}

\* Two categories; the server lists two dates or none, and one or two issues of each.
BoardChoices == {"all", "econ"}
ListedDates  == {<< >>, <<"d2", "d1">>}
IssueKeys    == [category : BoardChoices, date : {"", "d1", "d2"}, scope : {PanelScope, FallbackScope}]
ListedIssues == [k \in IssueKeys |->
  IF k.date = "" THEN << >> ELSE IF k.category = "econ" THEN <<"i1">>
  ELSE IF k.date = "d2" THEN <<"i2">> ELSE <<"i3", "i1">>]
ArchiveTotals == [none |-> 2, q |-> 1]

\* Two texts of one article.
OneArticle == [t \in FullTexts |-> 1]

\* A comparison with an axis of three explanations and a narrative, one that is withheld, and
\* issues without a comparison that can be read.
ComparedPart(words, refs) == [words |-> words, refs |-> refs]
ComparedIssue ==
  [common |-> {"law"}, difference |-> {"cost", "safety"}, matters |-> {"law", "vote"}, lens |-> {"official"},
   variants |-> <<ComparedPart({"cost"}, <<"r1", "r2">>), ComparedPart({"safety", "law"}, <<"r3">>),
                  ComparedPart({"vote"}, << >>)>>,
   stories |-> <<ComparedPart({"cost", "vote"}, <<"r2", "r4", "r2">>)>>]
StoredComparisons ==
  1 :> ComparedIssue @@ 2 :> [ComparedIssue EXCEPT !.common = {}, !.variants = << >>, !.stories = << >>]
  @@ 3 :> NoComparison @@ 4 :> Unreadable
AskedWords == {{"law"}, {"cost"}, {"cost", "vote"}, {"safety", "law"}, {"vote"}, {"official"}, {"weather"}}

\* Files with rows that both sides take, that the worker refuses, that the page refuses and
\* that it leaves out.
FileRow(excluded, described, url, rank, placement, excerpt) ==
  [excluded |-> excluded, described |-> described, url |-> url, rank |-> rank, placement |-> placement,
   excerpt |-> excerpt]
MCFileRows ==
  1 :> FileRow(FALSE, TRUE, "official", "none", "none", "long")
  @@ 2 :> FileRow(FALSE, TRUE, "official", "low", "known", "none")
  @@ 3 :> FileRow(FALSE, TRUE, "foreign", "none", "none", "none")
  @@ 4 :> FileRow(FALSE, TRUE, "official", "none", "none", "padded")
  @@ 5 :> FileRow(FALSE, FALSE, "official", "none", "none", "short")
  @@ 6 :> FileRow(TRUE, TRUE, "official", "none", "none", "none")
  @@ 7 :> FileRow(FALSE, TRUE, "official", "high", "none", "long")
MCFiles == {<<1, 2, 6>>, <<1, 3, 2>>, <<4, 1>>, <<5, 2>>, <<2, 7, 1>>}

publishVars == analysisVars
siteVars ==
  <<publishVars, communityVars, feedVars, qualityVars, operationsVars, importVars,
  comparisonVars, eventVars, readingVars, articleFeedVars, summaryVars, fiveVars,
  answersVars, viewVars, boardVars, profileVars, synthesisVars, consoleVars, contentVars,
  chatVars>>

Scenes ==
  {"publish", "community", "feed", "review", "operations", "imports", "framing", "events",
  "reading", "articles", "snapshot", "five", "answers", "views", "board", "profiles",
  "stories", "console", "texts", "chat"}
\* Where nothing happens a component has one initial state.
SiteInit ==
  /\ scene \in Scenes
  /\ AnalysisInit /\ CommunityInit /\ FeedInit /\ QualityInit /\ OperationsInit
  /\ ImportsInit /\ ComparisonInit /\ EventsInit /\ ReadingInit
  /\ ArticleFeedInit /\ (scene # "articles" => posted = [a \in FeedArticles |-> 1])
  /\ SummaryInit /\ (scene # "snapshot" => dataMode = "live")
  /\ FiveInit /\ (scene # "five" => topFile = CHOOSE f \in TopFiles : TRUE)
  /\ AnswersInit /\ (scene # "answers" => surface = "page")
  /\ ViewInit
  /\ BoardInit /\ (scene # "board" => board = Board("all") /\ (\A q \in asked.dates : q.prefer = ""))
  /\ ProfileInit /\ SynthesisInit
  /\ ConsoleInit /\ (scene # "console" => store.dated = {})
  /\ ContentInit
  /\ ChatInit /\ (scene # "chat" => chatIssue = CHOOSE i \in DOMAIN ChatIssues : TRUE)

PublishScene == scene = "publish" /\ AnalysisNext
  /\ UNCHANGED <<scene, communityVars, feedVars, qualityVars, operationsVars, importVars,
  comparisonVars, eventVars, readingVars, articleFeedVars, summaryVars, fiveVars,
  answersVars, viewVars, boardVars, profileVars, synthesisVars, consoleVars, contentVars,
  chatVars>>
CommunityScene == scene = "community" /\ CommunityNext
  /\ UNCHANGED <<scene, publishVars, feedVars, qualityVars, operationsVars, importVars,
  comparisonVars, eventVars, readingVars, articleFeedVars, summaryVars, fiveVars,
  answersVars, viewVars, boardVars, profileVars, synthesisVars, consoleVars, contentVars,
  chatVars>>
FeedScene == scene = "feed" /\ FeedNext
  /\ UNCHANGED <<scene, publishVars, communityVars, qualityVars, operationsVars, importVars,
  comparisonVars, eventVars, readingVars, articleFeedVars, summaryVars, fiveVars,
  answersVars, viewVars, boardVars, profileVars, synthesisVars, consoleVars, contentVars,
  chatVars>>
ReviewScene == scene = "review" /\ QualityNext
  /\ UNCHANGED <<scene, publishVars, communityVars, feedVars, operationsVars, importVars,
  comparisonVars, eventVars, readingVars, articleFeedVars, summaryVars, fiveVars,
  answersVars, viewVars, boardVars, profileVars, synthesisVars, consoleVars, contentVars,
  chatVars>>
OperationsScene == scene = "operations" /\ OperationsNext
  /\ UNCHANGED <<scene, publishVars, communityVars, feedVars, qualityVars, importVars,
  comparisonVars, eventVars, readingVars, articleFeedVars, summaryVars, fiveVars,
  answersVars, viewVars, boardVars, profileVars, synthesisVars, consoleVars, contentVars,
  chatVars>>
ImportsScene == scene = "imports" /\ ImportsNext
  /\ UNCHANGED <<scene, publishVars, communityVars, feedVars, qualityVars, operationsVars,
  comparisonVars, eventVars, readingVars, articleFeedVars, summaryVars, fiveVars,
  answersVars, viewVars, boardVars, profileVars, synthesisVars, consoleVars, contentVars,
  chatVars>>
FramingScene == scene = "framing" /\ ComparisonNext
  /\ UNCHANGED <<scene, publishVars, communityVars, feedVars, qualityVars, operationsVars,
  importVars, eventVars, readingVars, articleFeedVars, summaryVars, fiveVars, answersVars,
  viewVars, boardVars, profileVars, synthesisVars, consoleVars, contentVars, chatVars>>
EventsScene == scene = "events" /\ EventsNext
  /\ UNCHANGED <<scene, publishVars, communityVars, feedVars, qualityVars, operationsVars,
  importVars, comparisonVars, readingVars, articleFeedVars, summaryVars, fiveVars,
  answersVars, viewVars, boardVars, profileVars, synthesisVars, consoleVars, contentVars,
  chatVars>>
ReadingScene == scene = "reading" /\ ReadingNext
  /\ UNCHANGED <<scene, publishVars, communityVars, feedVars, qualityVars, operationsVars,
  importVars, comparisonVars, eventVars, articleFeedVars, summaryVars, fiveVars,
  answersVars, viewVars, boardVars, profileVars, synthesisVars, consoleVars, contentVars,
  chatVars>>
ArticlesScene == scene = "articles" /\ ArticleFeedNext
  /\ UNCHANGED <<scene, publishVars, communityVars, feedVars, qualityVars, operationsVars,
  importVars, comparisonVars, eventVars, readingVars, summaryVars, fiveVars, answersVars,
  viewVars, boardVars, profileVars, synthesisVars, consoleVars, contentVars, chatVars>>
SnapshotScene == scene = "snapshot" /\ SummaryNext
  /\ UNCHANGED <<scene, publishVars, communityVars, feedVars, qualityVars, operationsVars,
  importVars, comparisonVars, eventVars, readingVars, articleFeedVars, fiveVars,
  answersVars, viewVars, boardVars, profileVars, synthesisVars, consoleVars, contentVars,
  chatVars>>
FiveScene == scene = "five" /\ FiveNext
  /\ UNCHANGED <<scene, publishVars, communityVars, feedVars, qualityVars, operationsVars,
  importVars, comparisonVars, eventVars, readingVars, articleFeedVars, summaryVars,
  answersVars, viewVars, boardVars, profileVars, synthesisVars, consoleVars, contentVars,
  chatVars>>
AnswersScene == scene = "answers" /\ AnswersNext
  /\ UNCHANGED <<scene, publishVars, communityVars, feedVars, qualityVars, operationsVars,
  importVars, comparisonVars, eventVars, readingVars, articleFeedVars, summaryVars,
  fiveVars, viewVars, boardVars, profileVars, synthesisVars, consoleVars, contentVars,
  chatVars>>
ViewsScene == scene = "views" /\ ViewNext
  /\ UNCHANGED <<scene, publishVars, communityVars, feedVars, qualityVars, operationsVars,
  importVars, comparisonVars, eventVars, readingVars, articleFeedVars, summaryVars,
  fiveVars, answersVars, boardVars, profileVars, synthesisVars, consoleVars, contentVars,
  chatVars>>
BoardScene == scene = "board" /\ BoardNext
  /\ UNCHANGED <<scene, publishVars, communityVars, feedVars, qualityVars, operationsVars,
  importVars, comparisonVars, eventVars, readingVars, articleFeedVars, summaryVars,
  fiveVars, answersVars, viewVars, profileVars, synthesisVars, consoleVars, contentVars,
  chatVars>>
ProfilesScene == scene = "profiles" /\ ProfileNext
  /\ UNCHANGED <<scene, publishVars, communityVars, feedVars, qualityVars, operationsVars,
  importVars, comparisonVars, eventVars, readingVars, articleFeedVars, summaryVars,
  fiveVars, answersVars, viewVars, boardVars, synthesisVars, consoleVars, contentVars,
  chatVars>>
StoriesScene == scene = "stories" /\ SynthesisNext
  /\ UNCHANGED <<scene, publishVars, communityVars, feedVars, qualityVars, operationsVars,
  importVars, comparisonVars, eventVars, readingVars, articleFeedVars, summaryVars,
  fiveVars, answersVars, viewVars, boardVars, profileVars, consoleVars, contentVars,
  chatVars>>
ConsoleScene == scene = "console" /\ ConsoleNext
  /\ UNCHANGED <<scene, publishVars, communityVars, feedVars, qualityVars, operationsVars,
  importVars, comparisonVars, eventVars, readingVars, articleFeedVars, summaryVars,
  fiveVars, answersVars, viewVars, boardVars, profileVars, synthesisVars, contentVars,
  chatVars>>
TextsScene == scene = "texts" /\ ContentNext
  /\ UNCHANGED <<scene, publishVars, communityVars, feedVars, qualityVars, operationsVars,
  importVars, comparisonVars, eventVars, readingVars, articleFeedVars, summaryVars,
  fiveVars, answersVars, viewVars, boardVars, profileVars, synthesisVars, consoleVars,
  chatVars>>
ChatScene == scene = "chat" /\ AskChat
  /\ UNCHANGED <<scene, publishVars, communityVars, feedVars, qualityVars, operationsVars,
  importVars, comparisonVars, eventVars, readingVars, articleFeedVars, summaryVars,
  fiveVars, answersVars, viewVars, boardVars, profileVars, synthesisVars, consoleVars,
  contentVars>>

SiteNext ==
  \/ PublishScene \/ CommunityScene \/ FeedScene \/ ReviewScene \/ OperationsScene
  \/ ImportsScene \/ FramingScene \/ EventsScene \/ ReadingScene \/ ArticlesScene
  \/ SnapshotScene \/ FiveScene \/ AnswersScene \/ ViewsScene \/ BoardScene \/ ProfilesScene
  \/ StoriesScene \/ ConsoleScene \/ TextsScene \/ ChatScene
SiteSpec == SiteInit /\ [][SiteNext]_<<scene, siteVars>>

\* The state of the component at work keeps its types; the others rest in a state it began in.
SiteTypeOK ==
  /\ scene = "publish" => AnalysisTypeOK
  /\ scene = "community" => CommunityTypeOK
  /\ scene = "feed" => FeedTypeOK
  /\ scene = "review" => QualityTypeOK
  /\ scene = "operations" => OperationsTypeOK
  /\ scene = "imports" => ImportsTypeOK
  /\ scene = "framing" => ComparisonTypeOK
  /\ scene = "events" => EventsTypeOK
  /\ scene = "reading" => ReadingTypeOK
  /\ scene = "articles" => ArticleFeedTypeOK
  /\ scene = "snapshot" => SummaryTypeOK
  /\ scene = "five" => FiveTypeOK
  /\ scene = "answers" => AnswersTypeOK
  /\ scene = "views" => ViewTypeOK
  /\ scene = "board" => BoardTypeOK
  /\ scene = "profiles" => ProfileTypeOK
  /\ scene = "stories" => SynthesisTypeOK
  /\ scene = "console" => ConsoleTypeOK
  /\ scene = "texts" => ContentTypeOK
  /\ scene = "chat" => ChatTypeOK

(* What the public reads of the analyses: a quotation is held, its right    *)
(* has not ended and it is of the sample chosen, the dates, the lists and   *)
(* the issues agree, the pages of the article list leave nothing out, the   *)
(* dashboard shows what the reader chose however the answers come, and a    *)
(* question is answered from the comparison alone (PublicReading's          *)
(* QuotesHeld, SampleKept and SurfacesAgree, ArticleFeed's FeedComplete,    *)
(* Dashboard's BoardFits, EvidenceChat's ChatGrounded; the GET handlers of  *)
(* site/worker/runtime.mjs, evidence-chat.mjs and                           *)
(* site/app/agenda-dashboard.tsx).                                          *)
PublicReadsFaithful ==
  /\ scene = "reading" => QuotesHeld /\ SampleKept /\ SurfacesAgree
  /\ scene = "articles" => FeedComplete
  /\ scene = "board" => BoardFits
  /\ scene = "chat" => ChatGrounded

(* What the pages of a published snapshot say: they show a whole snapshot, *)
(* the manifest counts the profiles the bundles hold and the articles the  *)
(* files declare, a difference has two outlets' own words, two pages count *)
(* a plainly told article alike, what is told without a comparison is      *)
(* borne by the profiles, an answer cites what was analysed, and the pages *)
(* agree                                                                   *)
(* (ActiveSnapshot's SnapshotFaithful, ComparisonSummary's SummaryFounded, *)
(* InitialFive's ManifestKept, EventSynthesis' SynthesisFounded,           *)
(* IssueAnswers' AnswersGrounded, IssueView's ViewsAgree;                  *)
(* site/lib/initial-five).                                                 *)
PagesFaithful ==
  /\ scene = "snapshot" => SnapshotFaithful /\ SummaryFounded
  /\ scene = "five" => ManifestKept
  /\ scene = "stories" => SynthesisFounded
  /\ scene = "answers" => AnswersGrounded
  /\ scene = "views" => ViewsAgree

(* What the analyses of the worker find: the events of a day keep their     *)
(* articles apart and in order, and the profile of an article makes a       *)
(* dimension the outlet's own only by words no quotation holds that lies    *)
(* in one sentence (AgendaEvents' EventsSound, ArticleProfile's             *)
(* ProfileSound; site/worker/analysis.mjs and framing-engine.mjs).          *)
AnalysesSound ==
  /\ scene = "events" => EventsSound
  /\ scene = "profiles" => ProfileSound

(* What is brought in from outside is whole: links, placements and analyses *)
(* agree with the articles through overlapping and broken requests and      *)
(* discoveries, a full text and its row go together through uploads,        *)
(* collections and the purge but where two of them cross, and the           *)
(* administrator's page says a file, a period or a day is done only when it *)
(* is (Imports' ImportsAgree, AuthorizedContent's ContentInStep,            *)
(* AdminConsole's ConsoleHonest; the import handlers of                     *)
(* site/worker/runtime.mjs and site/app/admin/admin-client.tsx).            *)
BroughtInWhole ==
  /\ scene = "imports" => ImportsAgree
  /\ scene = "texts" => ContentInStep
  /\ scene = "console" => ConsoleHonest

SiteSymmetry == Permutations(Actors)
=============================================================================
