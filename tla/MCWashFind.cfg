SPECIFICATION Spec
CONSTANTS
    Actions <- MCActions
    Upper <- MCUpper
    Globs <- MCGlobs
    Times <- MCTimes
    BadGlobs <- MCBadGlobs
    Now <- MCNow
    Cases <- MCCases
    CanFail = TRUE
INVARIANTS AcceptsGrammar FindExact PruneExact GraphExact
