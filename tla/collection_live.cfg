SPECIFICATION FairSpec
CONSTANTS
  a1 = a1
  a2 = a2
  s1 = s1
  s2 = s2
  Runs = {cron}
  Sources = {s1}
  Articles = {a1, a2}
  SourceOf <- OneSource
  FoundTopic <- Deferred
  PageTopics <- InScope
  Unanalyzable = {a2}
  Null = Null
  LeaseMs = 5
  RunLimit = 3
  BaseWait = 1
  MaxWait = 1
  MaxAttempts = 2
  PurgeLimit = 2
  MaxBatches = 2
  BodyLimit = 2
  ProfileLimit = 1
  Windows = {2, 9}
  Forever = 9
  MaxFaults = 1
PROPERTIES EveryArticleSettles EveryBodyProfiled RetentionEnds
CHECK_DEADLOCK FALSE
