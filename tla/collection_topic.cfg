SPECIFICATION Spec
CONSTANTS
  a1 = a1
  a2 = a2
  s1 = s1
  s2 = s2
  Runs = {cron}
  Sources = {s1}
  Articles = {a1, a2}
  SourceOf <- OneSource
  FoundTopic <- Deferred
  PageTopics <- AnyPage
  Unanalyzable = {}
  Null = Null
  LeaseMs = 4
  RunLimit = 2
  BaseWait = 1
  MaxWait = 1
  MaxAttempts = 2
  PurgeLimit = 1
  MaxBatches = 2
  BodyLimit = 2
  ProfileLimit = 1
  Windows = {3, 9}
  Forever = 9
  MaxFaults = 1
PROPERTIES DecidedTopicStays
CHECK_DEADLOCK FALSE
