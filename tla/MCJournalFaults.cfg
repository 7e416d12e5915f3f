SPECIFICATION Spec
CONSTANTS
  t1 = t1
  t2 = t2
  t3 = t3
  f1 = f1
  j1 = j1
  j2 = j2
  j3 = j3
  j4 = j4
  j5 = j5
  DeadLetter = "dead-letter-office"
  Journals = {j1, j2}
  Earlier <- None
  Methods = {}
  Threads = {t1, t2}
  Followers = {f1}
  Limit = 1
  MaxRecorders = 2
  CanFail = TRUE
  CanExpire = FALSE
  CanClose = FALSE
INVARIANTS MessageWritten FollowerExact NoPanic
CHECK_DEADLOCK FALSE
