SPECIFICATION ConsoleSpec
CONSTANTS
    Queries = {"record"}
    LoadedEarly = TRUE
    SlowAnswers = FALSE
    MaxDrops = 2
    MaxStops = 1
PROPERTIES
    ProgressShown
    
CHECK_DEADLOCK FALSE
