----------------------------- MODULE SiteProofs -----------------------------
(***************************************************************************)
(* Theorems about the components that MCSite puts side by side: a step of  *)
(* the site is a step of one component, so the inductive invariants of the *)
(* components hold together, and what is proved of a component with a      *)
(* specification of its own holds of the site.                             *)
(***************************************************************************)
EXTENDS MCSite, IntakeProofs, ReadingProofs, AnalysisProofs, PublicationOutboxProofs, WorkerProofs

SiteInv ==
  /\ ImportsInv /\ ContentInv /\ ConsoleInv
  /\ ReadingInv /\ FeedWalkInv /\ BoardWatched /\ ChatTyped
  /\ EventsInv /\ ProfileInv /\ ComparisonInv
  /\ FiveInv /\ SynthesisInv /\ SnapshotInv /\ SummaryTypeOK /\ ViewInv /\ AnswersTyped

\* A step of the site is a step of one component, and leaves the others as they are.
LEMMA SiteSteps ==
  ASSUME [SiteNext]_<<scene, siteVars>>
  PROVE  /\ scene' = scene
         /\ [AnalysisNext]_analysisVars /\ [CommunityNext]_communityVars /\ [FeedNext]_feedVars
         /\ [QualityNext]_qualityVars /\ [OperationsNext]_operationsVars
         /\ [ImportsNext]_importVars /\ [ContentNext]_contentVars /\ [ConsoleNext]_consoleVars
         /\ [ReadingNext]_readingVars /\ [ArticleFeedNext]_articleFeedVars
         /\ [BoardNext]_boardVars /\ [AskChat]_chatVars
         /\ [EventsNext]_eventVars /\ [ProfileNext]_profileVars /\ [ComparisonNext]_comparisonVars
         /\ [FiveNext]_fiveVars /\ [SynthesisNext]_synthesisVars /\ [SummaryNext]_summaryVars
         /\ [ViewNext]_viewVars /\ [AnswersNext]_answersVars
<1>1. CASE UNCHANGED <<scene, siteVars>>
  BY <1>1 DEF siteVars, publishVars
<1>2. CASE SiteNext
  BY <1>2 DEF SiteNext, PublishScene, CommunityScene, FeedScene, ReviewScene, OperationsScene, ImportsScene,
     FramingScene, EventsScene, ReadingScene, ArticlesScene, SnapshotScene, FiveScene, AnswersScene, ViewsScene,
     BoardScene, ProfilesScene, StoriesScene, ConsoleScene, TextsScene, ChatScene, publishVars
<1>. QED
  BY <1>1, <1>2

LEMMA SiteHolds == SiteSpec => []SiteInv
<1>1. SiteInit => SiteInv
  BY ImportsInvInit, ContentInvInit, ConsoleInvInit, ReadingInvInit, FeedWalkInvInit, BoardWatchedInit, ChatTypedInit,
     EventsInvInit, ProfileInvInit, ComparisonInvInit, FiveInvInit, SynthesisInvInit, SnapshotInvInit, ViewInvInit,
     SummaryTypeInit, AnswersTypedInit DEF SiteInit, SiteInv
<1>2. SiteInv /\ [SiteNext]_<<scene, siteVars>> => SiteInv'
  BY SiteSteps, ImportsInvStep, ContentInvStep, ConsoleInvStep, ReadingInvStep, FeedWalkInvStep,
     BoardWatchedStep, ChatTypedStep, EventsInvStep, ProfileInvStep, ComparisonInvStep, FiveInvStep, SynthesisInvStep, SnapshotInvStep,
     ViewInvStep, SummaryTypeStep, AnswersTypedStep DEF SiteInv
<1>. QED
  BY <1>1, <1>2, PTL DEF SiteSpec

\* What is brought in from outside is whole, for any requests, texts, files and limits.
THEOREM BroughtInCorrect == SiteSpec => []BroughtInWhole
<1>1. SiteInv => BroughtInWhole
  BY ImportsKept, ContentKept DEF SiteInv, BroughtInWhole, ConsoleInv
<1>. QED
  BY <1>1, SiteHolds, PTL

\* What readers are given is what the rows and the comparisons say: quotes of the sample asked for,
\* lists of articles without gaps, a dashboard whose parts belong to what is selected, and answers
\* out of the comparison, for any runs, articles, dates, lists, searches and questions.
THEOREM ReadsFaithful == SiteSpec => []PublicReadsFaithful
<1>1. SiteInv => PublicReadsFaithful
  BY ReadingKept, SurfacesTogether, BoardKept
     DEF SiteInv, PublicReadsFaithful, FeedWalkInv, BoardWatched, ChatTyped, ChatInv
<1>. QED
  BY <1>1, SiteHolds, PTL

\* What the worker finds in a day's articles holds together: events that are one event, not
\* reported twice where the index can tell, the more widely reported ahead; and a profile that
\* gives every word to who said it, for any articles, rules, signs and panel of the registry's size.
THEOREM AnalysesAreSound == SiteSpec => []AnalysesSound
<1>1. SiteInv => AnalysesSound
  BY DEF SiteInv, AnalysesSound, EventsInv, EventsSound, ProfileInv
<1>. QED
  BY <1>1, SiteHolds, PTL

\* What the pages of the site say is what the data they were built from says: the snapshot that
\* is served and its summary, the manifest of the five articles, the stories told together, the
\* answers to a question and the views of a day, for any data, clients and limits.
THEOREM PagesAreFaithful == SiteSpec => []PagesFaithful
<1>1. SiteInv => PagesFaithful
  BY SnapshotKept, SummaryKept, ManifestHolds, SynthesisHolds, ViewsKept, AnswersKept DEF SiteInv, AnswersTyped, PagesFaithful
<1>. QED
  BY <1>1, SiteHolds, PTL

\* The site's runs are runs of the components that have a specification and proofs of their own.
LEMMA SiteRunsComponents ==
  SiteSpec => AnalysisSpec /\ CommunitySpec /\ FeedSpec /\ QualitySpec /\ OperationsSpec
<1>1. SiteInit => AnalysisInit /\ CommunityInit /\ FeedInit /\ QualityInit /\ OperationsInit
  BY DEF SiteInit
<1>2. [SiteNext]_<<scene, siteVars>>
        => /\ [AnalysisNext]_analysisVars /\ [CommunityNext]_communityVars /\ [FeedNext]_feedVars
           /\ [QualityNext]_qualityVars /\ [OperationsNext]_operationsVars
  BY SiteSteps
<1>. QED
  BY <1>1, <1>2, PTL DEF SiteSpec, AnalysisSpec, CommunitySpec, FeedSpec, QualitySpec, OperationsSpec

LEMMA FeedTypesHold == FeedSpec => []FeedTypeOK
<1>1. FeedInv => FeedTypeOK
  BY DEF FeedInv
<1>. QED
  BY <1>1, FeedInvInit, FeedInvStep, PTL DEF FeedSpec

\* Every component of the site keeps the types of its state: the states of its rows, requests and
\* processes are those its code knows, its counters stay within their caps, and what refers to a
\* row, a page or an issue refers to one there is.
THEOREM SiteTypesHold == SiteSpec => []SiteTypeOK
<1>1. SiteInv /\ AnalysisTypeOK /\ CommunityTypeOK /\ FeedTypeOK /\ QualityTypeOK /\ OperationsTypeOK => SiteTypeOK
  BY ConsoleTypesHold, FeedWalkTyped, BoardTypesHold, FiveTyped, ViewTyped, SynthesisTyped, EventsTyped,
     ComparisonInvFounded
     DEF SiteInv, SiteTypeOK, ImportsInv, ContentInv, ReadingInv, ProfileInv, ChatTyped, AnswersTyped
<1>. QED
  BY <1>1, SiteHolds, SiteRunsComponents, FeedTypesHold, AnalysisTypeCorrect, CommunityTypeCorrect,
     QualityTypeCorrect, OperationsTypeCorrect, PTL

\* No analysis is marked failed by a request that had not chosen its article before.
THEOREM AnalysesKept == SiteSpec => AnalysisKept
<1>. DEFINE Keeps == \A u \in Urls :
       Profile("public", u).status = "analyzed" /\ Profile("public", u)'.status = "failed"
         => \E c \in Callers : <<c, u>> \in overtaken
<1>1. SiteInv /\ [SiteNext]_<<scene, siteVars>> => [Keeps]_importVars
  <2>1. SUFFICES ASSUME SiteInv, [SiteNext]_<<scene, siteVars>>, NEW u \in Urls,
                        Profile("public", u).status = "analyzed", Profile("public", u)'.status = "failed"
                 PROVE  \E c \in Callers : <<c, u>> \in overtaken
    OBVIOUS
  <2>. QED
    BY <2>1, SiteSteps, AnalysisStands DEF SiteInv
<1>. HIDE DEF Keeps
<1>2. SiteSpec => [][Keeps]_importVars
  BY <1>1, SiteHolds, PTL DEF SiteSpec
<1>. QED
  BY <1>2, PTL DEF AnalysisKept, Keeps
=============================================================================
