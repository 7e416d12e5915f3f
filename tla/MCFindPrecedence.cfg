SPECIFICATION Spec
CONSTANTS
    Actions <- MCActions
    Upper <- MCUpper
    Globs <- MCGlobs
    Times <- MCTimes
    BadGlobs <- MCBadGlobs
    Now <- MCNow
    Cases <- Precedence4
    CanFail = FALSE
INVARIANT FindExact
