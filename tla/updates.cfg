\* Two updates in a row, two failed steps and a crash anywhere.
SPECIFICATION FairSpec
CONSTANTS
    Latest = 2
    Unread = Unread
    MaxUpdates = 2
    MaxMishaps = 2
    MaxCrashes = 1
INVARIANTS MigrationGuarded  RollbackRestores
    DataLossFlagged AbortMutatesNothing FrontendKeepsPlugins
PROPERTIES GateLifts
CHECK_DEADLOCK FALSE
