SPECIFICATION Spec
CONSTANTS
    NumTasks = 1
    Jobs = {1}
    Deps <- NoDeps
    EmptyTasks = {}
    Priority <- LaterFirst
    User <- OneUser
    LaunchLimit = 1
    Procs = {p1}
    NoProc = NoProc
    NoJob = NoJob
    PoolSize = 1
    MaxEmergency = 1
    MaxRestarts = 0
    EnvReadFails = FALSE
    MayCancel = {1}
    MayStray = {1}
    RecoveryFails = FALSE
CHECK_DEADLOCK FALSE
INVARIANTS
    EndedJobsAreOwned
