SPECIFICATION Spec
CONSTANTS
  Actions <- MCActions
  Upper <- MCUpper
  Globs <- MCGlobs
  Regexes <- MCRegexes
  Numbers <- MCNumbers
  Times <- MCTimes
  Rank <- MCRank
  Trees <- FindTrees
  RawQueries <- FindQueries
  Options <- FindOptions
  CanFail = TRUE
INVARIANTS FindExact PruneExact AcceptsGrammar RoundTrip
