SPECIFICATION Spec
CONSTANTS
  h1 = h1
  h2 = h2
  Initial <- OneByte
  Handles = {h1, h2}
  Kinds = {TRUE, FALSE}
  Readable = TRUE
  Writable = TRUE
  Bytes = {3}
  Offsets = {0, 1}
  Sizes = {0}
  CanFail = TRUE
  FlushFlag = TRUE
INVARIANTS BufferReleased CachesFresh
SYMMETRY HandleSymmetry
