\* Liveness: two jobs, workers and recoveries that may die; two events in one batch
SPECIFICATION SettlingSpec
CONSTANTS
  Jobs = {j1, j2}
  Workers = {w1}
  Recoverers = {r1}
  Admins = {}
  Owners = {o1}
  OwnerOf <- SharedOwner
  Tokens = {t1, t2, t3}
  Letters = {l1, l2}
  Null = Null
  Priority <- OneUrgent
  MaxAttempts <- TwoAttempts
  LeaseMs = 2
  RetryBaseMs = 1
  RetryMaxMs = 1
  Lag = 1
  MaxDelay = 0
  MaxVersion = 0
  MaxRedrives = 0
  Publications = {p1, p2}
  Couriers = {w1}
  Sweeps = {s1}
  Batch = 2
PROPERTIES EveryJobSettles EveryEventSettles
