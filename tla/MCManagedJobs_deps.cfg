SPECIFICATION Spec
CONSTANTS
    NumTasks = 1
    Jobs = {1, 2}
    Deps <- ChainDeps
    EmptyTasks = {}
    Priority <- LaterFirst
    User <- OneUser
    LaunchLimit = 1
    Procs = {p1, p2}
    NoProc = NoProc
    NoJob = NoJob
    PoolSize = 2
    MaxEmergency = 1
    MaxRestarts = 0
    EnvReadFails = FALSE
    MayCancel = {1}
    MayStray = {}
    RecoveryFails = FALSE
SYMMETRY ProcSymmetry
CHECK_DEADLOCK FALSE
INVARIANTS
    DependenciesHeld
    OneController
