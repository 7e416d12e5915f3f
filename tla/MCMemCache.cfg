SPECIFICATION FairSpec
CONSTANTS
  c1 = c1
  c2 = c2
  c3 = c3
  k1 = k1
  k2 = k2
  k3 = k3
  l1 = l1
  l2 = l2
  l3 = l3
  None = None
  Calls = {c1, c2}
  Keys = {k1, k2}
  Locks = {l1, l2}
  Caller <- Flat
  LockOf <- SharedLock
  TTL <- MixedTTL
  Limit = 0
  HasEviction = TRUE
  ResetTTLOnHit = TRUE
  Matchers <- SomeMatchers
  MaxTime = 3
  MaxGen = 3
INVARIANTS TypeOK NoStaleValue NoRedundantGenerate NoWaitCycle
PROPERTIES EvictionComplete ImplementsContract EveryCallReturns
