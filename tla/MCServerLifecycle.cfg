SPECIFICATION FairSpec
CONSTANTS
  Modes = {"wait", "shell", "verify"}
  Plugins = {"aws", "unfit"}
  Internal = {"aws", "docker"}
  Unfit = {"unfit"}
  Callers = {"main", "r1"}
  maxHits = 1
  MaxSubmits = 2
  CanFailStart = TRUE
  CanFailServe = TRUE
  CanFailUnmount = TRUE
INVARIANTS LoadedBeforeServing HitsOnce FlushedAtExit StoppedBeforeClose
PROPERTIES EndStops UnmountStops
