\* The two supported setups: the web console's poller beside an operator in
\* the GUI, or process-operations --watch alone.
SPECIFICATION FairSpec
CONSTANTS
    Request <- TwoRequests
    Nature = {"core", "light", "unapproved", "foreign"}
    poller = poller
    watch = watch
    Drainer = {poller, watch}
    Console = {poller}
    Setups <- EitherSetup
    MaxPerDrain = 1
    Free = Free
    Gui = Gui
    Dead = Dead
    MaxLost = 2
    MaxDeaths = 1
INVARIANTS OneUpdateAtATime AtMostOnce NoFalseSuccess NothingAbandoned
PROPERTIES KeepsPromise Answered
\* A lock that a death left behind stops the poller.
CHECK_DEADLOCK FALSE
