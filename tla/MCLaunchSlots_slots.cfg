SPECIFICATION FairSpec
CONSTANTS
    Jobs = {1, 2, 3, 4}
    LaunchesPerWorker = 2
    MaxJobs = 2
    MaxLaunches = 2
    Renotify = TRUE
    EnvReadFails = TRUE
ACTION_CONSTRAINT ClaimInOrder
CHECK_DEADLOCK FALSE
INVARIANTS
    SlotBound
    RunningBound
    FreeSlotWakesSomeone
PROPERTIES
    NoneStuckSleeping
