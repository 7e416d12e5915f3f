SPECIFICATION OrderlySpec
CONSTANTS
  h1 = h1
  h2 = h2
  Initial <- TwoBytes
  Handles = {h1, h2}
  Kinds = {TRUE, FALSE}
  Readable = TRUE
  Writable = TRUE
  Bytes = {3}
  Offsets = {0, 1, 2, 3}
  Sizes = {0, 1, 3, 4}
  CanFail = TRUE
  FlushFlag = TRUE
INVARIANT NoPanic
PROPERTIES FlushComplete FillsFromEntry
