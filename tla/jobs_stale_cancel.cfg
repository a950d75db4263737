\* A worker cancels with a lease that is no longer its own
SPECIFICATION Spec
CONSTANTS
  Jobs = {j1}
  Workers = {w1, w2}
  Recoverers = {r1, r2}
  Admins = {}
  Owners = {o1}
  OwnerOf <- SharedOwner
  Tokens = {t1, t2, t3, t4, t5}
  Letters = {l1, l2}
  Null = Null
  Priority <- SamePriority
  MaxAttempts <- TwoAttempts
  LeaseMs = 3
  RetryBaseMs = 1
  RetryMaxMs = 2
  Lag = 1
  MaxDelay = 0
  MaxVersion = 1
  MaxRedrives = 0
SYMMETRY Symmetry
PROPERTIES StaleOwnersRejected
