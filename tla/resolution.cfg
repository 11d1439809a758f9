CONSTANTS
  Core = {1, 2}
  Frontend = {1, 2, 3}
  Preview = {1, 2}
  stable = stable
  beta = beta
  Channel <- MCChannel
  Plain <- MCPlain
  Catalogs <- MCCatalogs
  Latest = Latest
  NoRange = NoRange
  Absent = Absent
  Idle = Idle
  NoPreview = 0
SPECIFICATION Spec
INVARIANT FrontendFits
PROPERTY OnlyForward
