SPECIFICATION Spec
CONSTANTS
  h1 = h1
  h2 = h2
  Initial <- TwoBytes
  Handles = {h1, h2}
  Kinds = {TRUE}
  Readable = TRUE
  Writable = TRUE
  Bytes = {3}
  Offsets = {0, 1, 2}
  Sizes = {}
  CanFail = TRUE
  FlushFlag = FALSE
INVARIANT NoPanic
PROPERTY FlushComplete
