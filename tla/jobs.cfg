\* One job among two workers, two recoveries and two administrators; or two jobs in one recovery
SPECIFICATION Spec
CONSTANTS
  Jobs = {j1, j2}
  Workers = {w1, w2}
  Recoverers = {r1, r2}
  Admins = {a1, a2}
  Owners = {o1}
  OwnerOf <- SharedOwner
  Tokens = {t1, t2, t3, t4, t5}
  Letters = {l1, l2, l3}
  Null = Null
  Priority <- OneUrgent
  MaxAttempts <- TwoThenOne
  LeaseMs = 3
  RetryBaseMs = 1
  RetryMaxMs = 2
  Lag = 1
  MaxDelay = 0
  MaxVersion = 1
  MaxRedrives = 1
CONSTRAINT Crowd
SYMMETRY Symmetry
INVARIANTS TypeOK DeadLetterLink NoStrandedJob HolderKnowsCheckpoint
PROPERTIES LeaseHonoured DeadLetterAudit ImplementsLifecycle
