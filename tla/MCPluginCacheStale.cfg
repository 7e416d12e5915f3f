SPECIFICATION Spec
CONSTANTS
  q1 = q1
  q2 = q2
  q3 = q3
  Absent = Absent
  Failed = Failed
  Trees <- Leaky
  Requests = {q1, q2}
  MaxVersion = 1
  CanFail = FALSE

INVARIANT FreshAfterAction
