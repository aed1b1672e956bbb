SPECIFICATION FairSpec
CONSTANTS
    MaxJobs = 2
    MaxProcs = 4
    MaxFaults = 1
INVARIANTS TypeOK RunsOnce DriverIsNamed EndedIsOver
PROPERTIES TerminalStands QueueMoves
CHECK_DEADLOCK FALSE
