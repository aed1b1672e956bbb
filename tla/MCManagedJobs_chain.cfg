SPECIFICATION Spec
CONSTANTS
    NumTasks = 2
    Jobs = {1}
    Deps <- NoDeps
    EmptyTasks = {}
    Priority <- LaterFirst
    User <- OneUser
    LaunchLimit = 1
    Procs = {p1, p2, p3}
    NoProc = NoProc
    NoJob = NoJob
    PoolSize = 1
    MaxEmergency = 1
    MaxRestarts = 1
    EnvReadFails = TRUE
    MayCancel = {1}
    MayStray = {2}
    RecoveryFails = FALSE
SYMMETRY ProcSymmetry
CHECK_DEADLOCK FALSE
INVARIANTS
    TypeOK
    OneController
    TransitionsNeverRefused
    ChainOrder
    DoneIsClean
    SweepHitsOrphansOnly
PROPERTIES
    DoneIsFinal
    EndedStaysEnded
    NoLaunchAfterCancel
