\* Three publications, two of which clash, claimed in batches of two
SPECIFICATION Spec
CONSTANTS
  p1 = p1
  p2 = p2
  p3 = p3
  Publications = {p1, p2, p3}
  KeyOf <- OwnKeys
  VersionOf <- SameVersion
  Workers = {w1, w2}
  WorkerIdOf <- SharedId
  Sweeps = {s1}
  Ids = {i1}
  Tokens = {t1, t2, t3, t4, t5}
  Null = Null
  LeaseMs = 2
  BaseBackoffMs = 1
  MaxBackoffMs = 1
  MaxAttempts = 2
  Limit = 2
  HandReceipts = {p1}
  HandMatches = {TRUE, FALSE}
  HandDelivered = {p1}
  Lag = 1
SYMMETRY Symmetry
INVARIANTS TypeOK DeliveredOnEvidence WaitingHasBudget OneHolder
PROPERTIES SuccessIsOwn ClaimHonoured KeepsPromise
