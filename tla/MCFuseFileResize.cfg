SPECIFICATION Spec
CONSTANTS
  h1 = h1
  h2 = h2
  Initial <- TwoBytes
  Handles = {h1}
  Kinds = {TRUE}
  Readable = TRUE
  Writable = TRUE
  Bytes = {3}
  Offsets = {0, 1, 2}
  Sizes = {0, 1, 3}
  CanFail = TRUE
  FlushFlag = TRUE
INVARIANTS NoPanic ClosedNotWriting
PROPERTY FlushComplete
