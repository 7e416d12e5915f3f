SPECIFICATION Spec
CONSTANTS
  Actions <- MCActions
  Upper <- MCUpper
  Globs <- MCGlobs
  Regexes <- MCRegexes
  Numbers <- MCNumbers
  Times <- MCTimes
  Rank <- MCRank
  Trees <- SchemaTrees
  RawQueries <- OddQueries
  Options <- FindOptions
  CanFail = FALSE
INVARIANTS FindExact ListsOnlyUseful NoPanic AcceptsDocumented
