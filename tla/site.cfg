SPECIFICATION SiteSpec
CONSTANTS
  \* AnalysisPublication: a run of two issues, its fallback, one delivery loop and one
  \* administrator
  r1 = r1
  r2 = r2
  d1 = d1
  Runs = {r1, r2}
  DateOf <- OneDate
  Publications = {p1, p2}
  RunOf <- FirstRun
  KeyOf <- OwnKeys
  VersionOf <- OwnKeys
  Admins = {a1}
  AnswersLost = TRUE
  Workers = {w1}
  WorkerIdOf <- SharedId
  Sweeps = {s1}
  Ids = {i1}
  Tokens = {c1, c2, c3}
  Null = Null
  LeaseMs = 1
  BaseBackoffMs = 1
  MaxBackoffMs = 1
  MaxAttempts = 2
  Limit = 2
  HandReceipts = {}
  HandMatches = {}
  HandDelivered = {}
  Lag = 0
  \* Community and CommunityFeed
  c1 = c1
  a1 = a1
  a2 = a2
  i1 = i1
  i2 = i2
  Comments = {c1, c2}
  Posted <- OnePosted
  Issues = {i1}
  Actors = {p1, p2}
  Requests = {q1, q2}
  Nobody = Nobody
  LimitOf <- OneOfAKind
  HideAt = 2
  MaxReports = 2
  MaxReceived = 2
  Texts = {x1, x2}
  Others = {o1}
  Demos = {d1}
  NoParent = NoParent
  MaxLoads = 2
  \* QualityReview
  Desks = {p1, p2}
  RunIssues = {i1, i2}
  ArticlesOf <- Placed
  NoIssue = NoIssue
  Saves = 3
  \* ScheduledOperations
  OpsRuns = {p1, p2}
  MinuteOf <- OneMinute
  Events = {q1}
  NoRun = NoRun
  JobAttempts = 2
  MaxRedrives = 1
  \* Imports
  u1 = u1
  u2 = u2
  Urls = {u1, u2}
  Callers = {p1, p2}
  Brought = {{u1, u2}}
  Times = {1, 2}
  BatchSize = 2
  ImportCalls = 3
  \* FrameComparison
  OutletOf <- Outlets4
  GroupOf <- Groups3
  Days <- AnyDays
  EvidenceCap = 3
  VariantCap = 3
  \* AgendaEvents
  Corpora <- ManyDays
  Generic <- GenericTokens
  Offices <- OfficeTokens
  Distinctive <- DistinctiveTokens
  Stems <- StemPairs
  Opposed <- OpposedPatterns
  Secondary <- LateDesks
  PanelOutlets = 22
  PanelGroups = 21
  PanelGroup <- PanelGroup22
  Log1p <- LogTable
  FrequencyFloor = 2
  AnchorFloor = 2
  BucketCap = 1
  MaxIssues = 2
  \* ArticleFeed
  FeedArticles = {1, 2, 3, 4}
  PostTimes = {1, 2}
  PageLimit = 2
  OffsetCap = 3
  FeedChanges = 2
  \* PublicReading
  ReadRuns = {1, 2}
  ReadDates = {1}
  Outcomes <- Findings
  Reports = {1, 2}
  ReportOutlet <- TwoOutlets
  DailyOutlets = {"daily"}
  PanelOutlets12 = {"panel"}
  RightsEnd <- OneRight
  DetailAge = 1
  ReadHorizon = 3
  \* ActiveSnapshot and ComparisonSummary
  PieceOutlet <- MCPieceOutlet
  IssuesPublished = 2
  MinPieces = 3
  Envelopes <- MCEnvelopes
  DemoBundles <- MCDemo
  PointerMoves = 1
  CompareLayers = {1, 2}
  ShownGroups = 2
  \* InitialFive
  TopFiles <- IssueFiles
  TopCount = 2
  ProfileKinds = {"sound", "rules", "no_evidence"}
  ClusterKinds <- OneCluster
  FileWrites = 3
  \* IssueAnswers
  AskBundles <- MCAskBundles
  AskQuestions <- MCQuestions
  WordsOf <- MCWordsOf
  AskWindow = 2
  AskLimit = 1
  AskHorizon = 3
  \* IssueView
  Writings = {1, 2, 3, 4}
  WriterOf <- MCWriterOf
  IssueWritings <- MCIssueWritings
  LayerCount = 2
  Codings <- MCCodings
  \* Dashboard
  BoardCategories <- BoardChoices
  BoardDates <- ListedDates
  IssueLists <- ListedIssues
  FilteredTotal <- ArchiveTotals
  BoardActs = 2
  \* ArticleProfile
  DimensionRules <- TwoRules
  RoleFor <- TwoRoles
  GenericFrames = {"conflict"}
  Policy <- TwoPolicies
  Contexts = {"statistics", "thematic"}
  Devices = {"statistics"}
  Concepts = {1, 2, 3}
  AssociationCap = 2
  ArticleTexts <- MCArticleTexts
  \* EventSynthesis
  StoryOutlet <- MCStoryOutlet
  Paraphrases = {"x", "y"}
  StoryBundles <- MCStories
  \* AdminConsole
  FileRows <- MCFileRows
  AdminFiles <- MCFiles
  RowsPerBatch = 1
  PeriodDays = {1, 2}
  DayPages = {1, 2}
  PagesPerRound = 1
  RoundCap = 2
  ConsoleActs = 3
  \* AuthorizedContent
  FullTexts = {u1, u2}
  TextArticle <- OneArticle
  Uploaders = {p1, p2}
  LastHour = 2
  ShutHour = 1
  Endless = 9
  UploadCalls = 2
  \* EvidenceChat
  ChatIssues <- StoredComparisons
  ChatQuestions <- AskedWords
  NoComparison = NoComparison
  Unreadable = Unreadable
  EvidenceShown = 2
SYMMETRY SiteSymmetry
INVARIANTS SiteTypeOK SnapshotWhole DeliveredWasPublic LimitKept ReportsCounted PostKept ReviewWhole BroughtInWhole ComparisonFounded AnalysesSound PublicReadsFaithful PagesFaithful
PROPERTIES EndedStays ReadersHide CheckpointKept AnalysisKept
CHECK_DEADLOCK FALSE
