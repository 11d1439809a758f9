\* Two plugins, three operations, two changes of containers, one failure.
SPECIFICATION PluginsFairSpec
CONSTANTS
  Prudent = TRUE
  Plugin = {p, q}
  Follower = {"worker"}
  MaxVersion = 2
  MaxParks = 3
  MaxChanges = 2
  MaxMishaps = 1
CHECK_DEADLOCK FALSE
INVARIANTS
  ServicesFollow
  RecoveryHolds
PROPERTY
  BackendComesBack
