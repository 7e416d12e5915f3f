SPECIFICATION Spec
CONSTANTS
  q1 = q1
  q2 = q2
  q3 = q3
  Absent = Absent
  Failed = Failed
  Trees <- SimpleAndVolume
  Requests = {q1, q2, q3}
  MaxVersion = 2
  CanFail = TRUE
SYMMETRY RequestSymmetry
INVARIANT FreshAfterAction
