SPECIFICATION Spec
CONSTANTS
  c1 = c1
  c2 = c2
  Clients = {c1, c2}
  Initial <- Nested
  MaxDepth = 2
  Shells = {"posix", "power"}
  Outputs <- MCOutputs
  CanFail = TRUE
  MaxLists = 2
  MaxChanges = 1
  Denied <- MCDenied
  Volatile <- MCVolatile
INVARIANT NoPanic
PROPERTY DeletedHidden
