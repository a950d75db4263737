\* Two administrators roll back the two successful runs of one date; no answer is lost
SPECIFICATION AnalysisSpec
CONSTANTS
  r1 = r1
  r2 = r2
  d1 = d1
  Runs = {r1, r2}
  DateOf <- OneDate
  Publications = {p1}
  RunOf <- FirstRun
  KeyOf <- OwnKeys
  VersionOf <- OwnKeys
  Admins = {a1, a2}
  AnswersLost = FALSE
  Workers = {w1}
  WorkerIdOf <- SharedId
  Sweeps = {}
  Ids = {i1}
  Tokens = {t1, t2, t3}
  Null = Null
  LeaseMs = 1
  BaseBackoffMs = 1
  MaxBackoffMs = 1
  MaxAttempts = 2
  Limit = 1
  HandReceipts = {}
  HandMatches = {}
  HandDelivered = {}
  Lag = 0
PROPERTIES RollbackKeepsSnapshot
