SPECIFICATION Spec
CONSTANTS
  c1 = c1
  c2 = c2
  c3 = c3
  k1 = k1
  k2 = k2
  k3 = k3
  l1 = l1
  l2 = l2
  l3 = l3
  None = None
  Calls = {c1, c2}
  Keys = {k1, k2, k3}
  Locks = {l1, l2, l3}
  Caller <- Flat
  LockOf <- OwnLock
  TTL <- MixedTTL
  Limit = 1
  HasEviction = TRUE
  ResetTTLOnHit = TRUE
  Matchers <- SomeMatchers
  MaxTime = 3
  MaxGen = 4
CHECK_DEADLOCK FALSE
INVARIANT OvershootBounded
