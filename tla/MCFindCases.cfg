SPECIFICATION Spec
CONSTANTS
    Actions <- MCActions
    Upper <- MCUpper
    Globs <- MCGlobs
    Times <- MCTimes
    BadGlobs <- MCBadGlobs
    Now <- MCNow
    Cases <- OddCases
    CanFail = FALSE
INVARIANTS AcceptsGrammar FindExact NoPanic
