SPECIFICATION Spec
CONSTANTS
    Jobs = {j1, j2}
    LaunchesPerWorker = 1
    MaxJobs = 2
    MaxLaunches = 2
    Renotify = TRUE
    EnvReadFails = TRUE
SYMMETRY JobSymmetry
CHECK_DEADLOCK FALSE
INVARIANTS
    SlotsReturned
