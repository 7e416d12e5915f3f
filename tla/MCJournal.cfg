SPECIFICATION Spec
CONSTANTS
  t1 = t1
  t2 = t2
  t3 = t3
  f1 = f1
  j1 = j1
  j2 = j2
  j3 = j3
  j4 = j4
  j5 = j5
  DeadLetter = "dead-letter-office"
  Journals = {j1, j2, j3, j4, j5}
  Earlier <- Three
  Methods = {"List"}
  Threads = {t1, t2}
  Followers = {f1}
  Limit = 1
  MaxRecorders = 1
  CanFail = TRUE
  CanExpire = TRUE
  CanClose = TRUE
SYMMETRY Symmetry
CHECK_DEADLOCK FALSE
INVARIANTS RegisteredOnce SubmittedOnce FollowerInOrder
