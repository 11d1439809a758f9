\* Two instances, two operations that may run at once, one failure.
SPECIFICATION Spec
CONSTANTS
  Id = {a, b}
  Domain = {d1, d2}
  NoDomain = noDomain
  Kinds <- AllKinds
  Releases = 2
  MaxOps = 3
  MaxFaults = 1
  MaxEdits = 1
  Careful = TRUE
SYMMETRY Alike
CHECK_DEADLOCK FALSE
INVARIANTS
  CredentialsMatch
  FilesAgree
  CodeFitsData
  InventoryTruthful
  RestoreCanBeUndone
