SPECIFICATION Spec
CONSTANTS
  a1 = a1
  a2 = a2
  s1 = s1
  s2 = s2
  Runs = {cron, admin}
  Sources = {s1, s2}
  Articles = {a1, a2}
  SourceOf <- OneSource
  FoundTopic <- Deferred
  PageTopics <- AnyPage
  Unanalyzable = {}
  Null = Null
  LeaseMs = 4
  RunLimit = 2
  BaseWait = 1
  MaxWait = 1
  MaxAttempts = 2
  PurgeLimit = 2
  MaxBatches = 1
  BodyLimit = 2
  ProfileLimit = 1
  Windows = {3, 9}
  Forever = 9
  MaxFaults = 1
SYMMETRY Symmetry
INVARIANTS TypeOK OneCollector DrainedIsGone ReadableBody
PROPERTIES GivenUpStays
CHECK_DEADLOCK FALSE
