SPECIFICATION Spec
CONSTANTS
  Actions <- MCActions
  Upper <- MCUpper
  Globs <- MCGlobs
  Regexes <- MCRegexes
  Numbers <- MCNumbers
  Times <- MCTimes
  Rank <- MCRank
  Trees <- OddTrees
  RawQueries <- TreeQueries
  Options <- FindOptions
  CanFail = FALSE
INVARIANTS FindExact PruneExact
