\* One production and one local instance; one further operation, one fault.
SPECIFICATION Spec
CONSTANTS
  prod = prod
  loc = loc
  Id = {prod, loc}
  Shell = shell
  Mode <- Modes
  MaxOps = 1
  MaxFaults = 1
  Careful = TRUE
CHECK_DEADLOCK FALSE
INVARIANTS
  ProxyServes
  NothingOrphaned
  CleanSlate

  
