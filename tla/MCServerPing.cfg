SPECIFICATION FairSpec
CONSTANTS
  Modes = {"wait"}
  Plugins = {"aws"}
  Internal = {"aws", "docker"}
  Unfit = {}
  Callers = {"main", "r1"}
  maxHits = 1
  MaxSubmits = 2
  CanFailStart = TRUE
  CanFailServe = TRUE
  CanFailUnmount = FALSE
INVARIANTS PingNotPosted FatalStops
PROPERTY APIFailureStops
