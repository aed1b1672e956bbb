---------------------------- MODULE ManagedJobs ----------------------------
(***************************************************************************)
(* The life of managed jobs on one API server in consolidation mode: the   *)
(* database (JobState), the pool of controller processes with one          *)
(* coroutine per claimed job (sky/jobs/controller.py), users who submit    *)
(* and cancel (sky/jobs/utils.py, scheduler.py), and the refresh daemon    *)
(* that recovers jobs after a restart and fails the jobs of dead           *)
(* controllers (sky/jobs/managed_job_refresh_thread.py).                   *)
(*                                                                         *)
(* A step is what runs between two suspension points of the code: one      *)
(* database transaction, one cloud call, or the synchronous code between   *)
(* two awaits.  A process may crash between any two steps.                 *)
(***************************************************************************)
EXTENDS JobState

CONSTANTS
    Jobs,           \* job ids, in submission order
    Deps,           \* Deps[j]: the jobs j depends on
    EmptyTasks,     \* tasks without run commands
    Priority,       \* Priority[j]: the scheduler's priority of j
    User,           \* User[j]: whose job j is
    LaunchLimit,    \* get_max_launching_jobs_per_user()
    Procs,          \* controller process incarnations (pid, started_at)
    NoProc,         \* NULL in job_info.controller_pid
    NoJob,
    PoolSize,       \* get_number_of_jobs_controllers()
    MaxEmergency,   \* EMERGENCY_RECOVERY_MAX_ATTEMPTS
    MaxRestarts,    \* bound on restarts of the API server and of its recovery
    EnvReadFails,   \* the first read of run_job_loop may raise
    MayCancel,      \* bound: the jobs users ask to cancel
    MayStray,       \* bound: the tasks whose launch requests may be left behind
    RecoveryFails   \* ha_recovery_for_consolidation_mode may raise

ASSUME ConstantsAssumption ==
    /\ Jobs \subseteq Nat
    /\ Deps \in [Jobs -> SUBSET Jobs]
    /\ EmptyTasks \subseteq Tasks
    /\ Priority \in [Jobs -> Nat]
    /\ User \in [Jobs -> Nat]
    /\ LaunchLimit \in Nat \ {0}
    /\ NoProc \notin Procs
    /\ NoJob \notin Jobs
    /\ PoolSize \in Nat \ {0}
    /\ MaxEmergency \in Nat \ {0}
    /\ MaxRestarts \in Nat
    /\ EnvReadFails \in BOOLEAN
    /\ RecoveryFails \in BOOLEAN
    /\ MayCancel \subseteq Jobs
    /\ MayStray \subseteq Tasks

VARIABLES
    sched,      \* job_info.schedule_state
    owner,      \* job_info.controller_pid and controller_pid_started_at
    rows,       \* spot.status of every task
    submitted,  \* spot.submitted_at IS NOT NULL
    emerg,      \* job_info's emergency-recovery attempt count
    cluster,    \* the task's cluster exists, whole or in part
    stray,      \* a launch request of the task that no coroutine waits for
    signal,     \* the cancel files in CONSOLIDATED_SIGNAL_PATH
    proc,       \* controller processes
    mon,        \* where each process's monitor_loop is
    co,         \* each process's run_job_loop coroutine for each job
    daemon,     \* where the managed-job refresh thread is
    snap,       \* the job rows its recovery sweep read
    restarts,   \* restarts so far
    sweep,      \* the running calls of update_managed_jobs_statuses
    user        \* the cancel request being served

db == <<sched, owner, rows, submitted, emerg>>
ctrl == <<proc, mon, co>>
server == <<daemon, snap, restarts, sweep, user>>
vars == <<db, cluster, stray, signal, ctrl, server>>

-----------------------------------------------------------------------------
(* Coroutine program counters.                                             *)

(* JobController.run's loop body, where an unexpected error is retried.    *)
Body == {"top", "task", "empty", "forced", "want", "restarting", "launch",
         "launched", "monitor", "teardown"}

(* _attempt_emergency_recovery. *)
Bookkeeping == {"emergency", "doomed", "normalize"}

(* The asyncio task of JobController.run is not done: a cancel reaches it. *)
Inside == Body \cup Bookkeeping \cup {"exit", "exited"}

CoPcs == Inside \cup {"off", "env", "load", "cancelled", "cleanup", "finalize"}

CoStates == [pc: CoPcs, task: Tasks, rec: BOOLEAN, keep: BOOLEAN,
             retry: BOOLEAN, canc: BOOLEAN]

Off == [pc |-> "off", task |-> 1, rec |-> FALSE, keep |-> FALSE,
        retry |-> FALSE, canc |-> FALSE]

At(pc) == [Off EXCEPT !.pc = pc]

AtTask(pc, t) == [Off EXCEPT !.pc = pc, !.task = t]

(* controller_process_alive: the process with this pid and start time runs *)
(* on this host.                                                           *)
Alive(p) == p \in Procs /\ proc[p] = "alive"

SweepActors == {"tick", "request"}

IdleSweep == [pc |-> "idle", job |-> NoJob, pid |-> NoProc]

IdleUser == [pc |-> "idle", job |-> NoJob]

(* A launch request in the API server that its coroutine has left behind: it *)
(* still works ("live"), or it brought up the task's cluster by itself.      *)
StrayStates == {"none", "live", "up"}

SnapRows == [job: Jobs, pid: Procs \cup {NoProc}, sched: NeedsRecovery]

TypeOK ==
    /\ sched \in [Jobs -> ScheduleStates]
    /\ owner \in [Jobs -> Procs \cup {NoProc}]
    /\ rows \in [Jobs -> [Tasks -> Statuses]]
    /\ submitted \in [Jobs -> [Tasks -> BOOLEAN]]
    /\ emerg \in [Jobs -> 0..MaxEmergency]
    /\ cluster \in [Jobs -> [Tasks -> BOOLEAN]]
    /\ stray \in [Jobs -> [Tasks -> StrayStates]]
    /\ signal \subseteq Jobs
    /\ proc \in [Procs -> {"unborn", "alive", "dead"}]
    /\ mon \in [Procs -> [pc: {"idle", "claimed", "cancelling"},
                          job: Jobs \cup {NoJob}]]
    /\ co \in [Procs -> [Jobs -> CoStates]]
    /\ daemon \in {"start", "scan", "reset", "failed", "run"}
    /\ snap \subseteq SnapRows
    /\ restarts \in 0..MaxRestarts
    /\ sweep \in [SweepActors ->
                    [pc: {"idle", "read", "orphan", "failing", "done"},
                     job: Jobs \cup {NoJob}, pid: Procs \cup {NoProc}]]
    /\ user \in [pc: {"idle", "pending", "sweep", "sweeping", "signal"},
                 job: Jobs \cup {NoJob}]

Init ==
    /\ sched = [j \in Jobs |-> "NONE"]
    /\ owner = [j \in Jobs |-> NoProc]
    /\ rows = [j \in Jobs |-> [t \in Tasks |-> "NONE"]]
    /\ submitted = [j \in Jobs |-> [t \in Tasks |-> FALSE]]
    /\ emerg = [j \in Jobs |-> 0]
    /\ cluster = [j \in Jobs |-> [t \in Tasks |-> FALSE]]
    /\ stray = [j \in Jobs |-> [t \in Tasks |-> "none"]]
    /\ signal = {}
    /\ proc = [p \in Procs |-> "unborn"]
    /\ mon = [p \in Procs |-> [pc |-> "idle", job |-> NoJob]]
    /\ co = [p \in Procs |-> [j \in Jobs |-> Off]]
    /\ daemon = "start"
    /\ snap = {}
    /\ restarts = 0
    /\ sweep = [a \in SweepActors |-> IdleSweep]
    /\ user = IdleUser

-----------------------------------------------------------------------------
(* Submission: the job row, its task rows one transaction at a time, then  *)
(* submit_jobs.  scheduler_set_waiting has no state guard.                 *)

SetJobInfo(j) ==
    /\ sched[j] = "NONE"
    /\ \A d \in Deps[j] : sched[d] # "NONE"
    /\ sched' = [sched EXCEPT ![j] = "INACTIVE"]
    /\ UNCHANGED <<owner, rows, submitted, emerg, cluster, stray, signal, ctrl, server>>

SetPending(j, t) ==
    /\ sched[j] = "INACTIVE"
    /\ rows[j][t] = "NONE"
    /\ \A u \in Tasks : u < t => rows[j][u] # "NONE"
    /\ rows' = [rows EXCEPT ![j][t] = "PENDING"]
    /\ UNCHANGED <<sched, owner, submitted, emerg, cluster, stray, signal, ctrl, server>>

SubmitJob(j) ==
    /\ sched[j] = "INACTIVE"
    /\ Present(rows[j]) = Tasks
    /\ sched' = [sched EXCEPT ![j] = "WAITING"]
    /\ UNCHANGED <<owner, rows, submitted, emerg, cluster, stray, signal, ctrl, server>>

-----------------------------------------------------------------------------
(* cancel_jobs_by_id: read the status, try to cancel a job that never      *)
(* started, refresh the job's status, leave a cancel file.                 *)

CancelRequest(j) ==
    /\ j \in MayCancel
    /\ user.pc = "idle"
    /\ \E t \in Tasks : /\ IsLatest(rows[j], t)
                        /\ rows[j][t] \in Unended
    /\ user' = [pc |-> IF JobStatusIs(rows[j], "PENDING") THEN "pending" ELSE "sweep",
                job |-> j]
    /\ UNCHANGED <<db, cluster, stray, signal, ctrl, daemon, snap, restarts, sweep>>

SetPendingCancelled(j) ==
    /\ user = [pc |-> "pending", job |-> j]
    /\ \/ /\ PendingCancellable(sched[j], rows[j], submitted[j])
          /\ rows' = [rows EXCEPT ![j] = CancelPending(@)]
          /\ sched' = [sched EXCEPT ![j] = IF @ = "WAITING" THEN "DONE" ELSE @]
          /\ user' = IdleUser
       \/ /\ ~PendingCancellable(sched[j], rows[j], submitted[j])
          /\ user' = [user EXCEPT !.pc = "sweep"]
          /\ UNCHANGED <<sched, rows>>
    /\ UNCHANGED <<owner, submitted, emerg, cluster, stray, signal, ctrl,
                   daemon, snap, restarts, sweep>>

TouchSignal(j) ==
    /\ user = [pc |-> "signal", job |-> j]
    /\ signal' = signal \cup {j}
    /\ user' = IdleUser
    /\ UNCHANGED <<db, cluster, stray, ctrl, daemon, snap, restarts, sweep>>

-----------------------------------------------------------------------------
(* update_managed_jobs_statuses, called by the refresh daemon's tick and   *)
(* by a cancel request: one call per actor at a time.  While the restart   *)
(* signal file exists the call returns at once.                            *)

(* Faulty variant: calls do not look at the signal file. *)
GateIgnored == FALSE

GateClosed == daemon \in {"start", "scan", "reset"}

(* Faulty variant: jobs that have ended are not looked at. *)
WorthCheckingUnended(j) ==
    \/ sched[j] \notin {"NONE", "DONE"} /\ owner[j] # NoProc /\ ~AllTerminal(rows[j])
    \/ sched[j] = "DONE" /\ ~AllTerminal(rows[j])

(* get_jobs_to_check_status and the row read of the loop: the job is not   *)
(* DONE and has a recorded controller, or is DONE with an unended task.    *)
WorthChecking(j) ==
    \/ sched[j] \notin {"NONE", "DONE"} /\ owner[j] # NoProc
    \/ sched[j] = "DONE" /\ ~AllTerminal(rows[j])

SweepRead(a, j) ==
    /\ ~GateClosed
    /\ sweep[a] = IdleSweep
    /\ WorthChecking(j)
    /\ sweep' = [sweep EXCEPT ![a] =
                    [pc |-> IF sched[j] = "DONE" THEN "orphan" ELSE "read",
                     job |-> j, pid |-> owner[j]]]

(* The daemon's tick, which its thread reaches once recovery is over. *)
SweepTick(j) ==
    /\ daemon = "run"
    /\ SweepRead("tick", j)
    /\ UNCHANGED <<db, cluster, stray, signal, ctrl, daemon, snap, restarts, user>>

SweepRequest(j) ==
    /\ user = [pc |-> "sweep", job |-> j]
    /\ SweepRead("request", j)
    /\ user' = [user EXCEPT !.pc = "sweeping"]
    /\ UNCHANGED <<db, cluster, stray, signal, ctrl, daemon, snap, restarts>>

SweepSkip(j) ==
    /\ user = [pc |-> "sweep", job |-> j]
    /\ GateClosed \/ ~WorthChecking(j)
    /\ user' = [user EXCEPT !.pc = "signal"]
    /\ UNCHANGED <<db, cluster, stray, signal, ctrl, daemon, snap, restarts, sweep>>

EndSweep(a) ==
    /\ sweep' = [sweep EXCEPT ![a] = IdleSweep]
    /\ user' = IF a = "request" THEN [user EXCEPT !.pc = "signal"] ELSE user

(* The recorded process is alive, or the job turned out to be DONE when its *)
(* schedule state is read a second time.                                    *)
SweepSpare(a) ==
    /\ sweep[a].pc = "read"
    /\ Alive(sweep[a].pid) \/ sched[sweep[a].job] = "DONE"
    /\ EndSweep(a)
    /\ UNCHANGED <<db, cluster, stray, signal, ctrl, daemon, snap, restarts>>

(* Faulty variant: the schedule state is not read again. *)
SweepOrphanUnchecked(a) ==
    /\ sweep[a].pc = "read"
    /\ ~Alive(sweep[a].pid)
    /\ sweep' = [sweep EXCEPT ![a].pc = "orphan"]
    /\ UNCHANGED <<db, cluster, stray, signal, ctrl, daemon, snap, restarts, user>>

SweepOrphan(a) ==
    /\ sweep[a].pc = "read"
    /\ ~Alive(sweep[a].pid)
    /\ sched[sweep[a].job] # "DONE"
    /\ sweep' = [sweep EXCEPT ![a].pc = "orphan"]
    /\ UNCHANGED <<db, cluster, stray, signal, ctrl, daemon, snap, restarts, user>>

(* _cleanup_job_clusters: a termination that fails is only noted. *)
SweepCleanup(a) ==
    /\ sweep[a].pc = "orphan"
    /\ \E left \in SUBSET {t \in Tasks : cluster[sweep[a].job][t]} :
          cluster' = [cluster EXCEPT ![sweep[a].job] = [t \in Tasks |-> t \in left]]
    /\ sweep' = [sweep EXCEPT ![a].pc = "failing"]
    /\ UNCHANGED <<db, stray, signal, ctrl, daemon, snap, restarts, user>>

SweepFail(a) ==
    /\ sweep[a].pc = "failing"
    /\ rows' = [rows EXCEPT ![sweep[a].job] = FailAll(@)]
    /\ sweep' = [sweep EXCEPT ![a].pc = "done"]
    /\ UNCHANGED <<sched, owner, submitted, emerg, cluster, stray, signal, ctrl,
                   daemon, snap, restarts, user>>

SweepDone(a) ==
    /\ sweep[a].pc = "done"
    /\ sched' = [sched EXCEPT ![sweep[a].job] = "DONE"]
    /\ EndSweep(a)
    /\ UNCHANGED <<owner, rows, submitted, emerg, cluster, stray, signal, ctrl,
                   daemon, snap, restarts>>

-----------------------------------------------------------------------------
(* Processes.                                                              *)

(* maybe_start_controllers, from recovery and from the daemon's tick. *)
StartController(p) ==
    /\ daemon \in {"start", "run"}
    /\ proc[p] = "unborn"
    /\ Cardinality({q \in Procs : Alive(q)}) < PoolSize
    /\ proc' = [proc EXCEPT ![p] = "alive"]
    /\ UNCHANGED <<db, cluster, stray, signal, mon, co, server>>

(* A launch request belongs to the API server: a coroutine that stops        *)
(* waiting for it (it crashed, it was cancelled inside sdk.launch, it lost   *)
(* the answer or the stream, its request is parked) may leave it at work.    *)
(* StrayEnds is the request that had ended, was never submitted, or is       *)
(* cancelled in time.                                                        *)
LeftBehind(p, j) ==
    IF co[p][j].pc = "launch" /\ co[p][j].task \in MayStray
    THEN [stray[j] EXCEPT ![co[p][j].task] = "live"] ELSE stray[j]

StrayProvisions(j, t) ==
    /\ stray[j][t] = "live"
    /\ ~cluster[j][t]
    /\ cluster' = [cluster EXCEPT ![j][t] = TRUE]
    /\ stray' = [stray EXCEPT ![j][t] = "up"]
    /\ UNCHANGED <<db, signal, ctrl, server>>

StrayEnds(j, t) ==
    /\ stray[j][t] = "live"
    /\ stray' = [stray EXCEPT ![j][t] = "none"]
    /\ UNCHANGED <<db, cluster, signal, ctrl, server>>

(* A controller process dies, and its coroutines with it.  Bound: another   *)
(* incarnation is left.                                                     *)
CrashController(p) ==
    /\ Alive(p)
    /\ \E q \in Procs \ {p} : proc[q] # "dead"
    /\ proc' = [proc EXCEPT ![p] = "dead"]
    /\ mon' = [mon EXCEPT ![p] = [pc |-> "idle", job |-> NoJob]]
    /\ co' = [co EXCEPT ![p] = [j \in Jobs |-> Off]]
    /\ stray' = [j \in Jobs |-> LeftBehind(p, j)]
    /\ UNCHANGED <<db, cluster, signal, server>>

(* The API server restarts: its requests and its daemon's calls are gone,   *)
(* and the new daemon creates the signal file before anything else.  Its    *)
(* controllers are processes of their own; they may die (CrashController)   *)
(* or live on.                                                              *)
RestartServer ==
    /\ restarts < MaxRestarts
    /\ restarts' = restarts + 1
    /\ daemon' = "start"
    /\ snap' = {}
    /\ sweep' = [a \in SweepActors |-> IdleSweep]
    /\ user' = IdleUser
    /\ UNCHANGED <<db, cluster, stray, signal, ctrl>>

(* ha_recovery_for_consolidation_mode, after the pool was started. *)
PoolStarted ==
    /\ daemon = "start"
    /\ \/ Cardinality({q \in Procs : Alive(q)}) >= PoolSize
       \/ \A p \in Procs : proc[p] # "unborn"
    /\ daemon' = "scan"
    /\ UNCHANGED <<db, cluster, stray, signal, ctrl, snap, restarts, sweep, user>>

(* Faulty variant: no check that the controller is dead. *)
ScanAll ==
    /\ daemon = "scan"
    /\ snap' = {[job |-> j, pid |-> owner[j], sched |-> sched[j]] :
                   j \in {k \in Jobs : sched[k] \in NeedsRecovery}}
    /\ daemon' = "reset"
    /\ UNCHANGED <<db, cluster, stray, signal, ctrl, restarts, sweep, user>>

ScanOrphans ==
    /\ daemon = "scan"
    /\ snap' = {[job |-> j, pid |-> owner[j], sched |-> sched[j]] :
                   j \in {k \in Jobs : sched[k] \in NeedsRecovery /\ ~Alive(owner[k])}}
    /\ daemon' = "reset"
    /\ UNCHANGED <<db, cluster, stray, signal, ctrl, restarts, sweep, user>>

(* reset_jobs_for_recovery_batch, for one row of the batch: only if the    *)
(* row is still the one that was read.                                     *)
RowUnchanged(r) == owner[r.job] = r.pid /\ sched[r.job] = r.sched

ResetJob(r) ==
    /\ daemon = "reset"
    /\ r \in snap
    /\ sched' = [sched EXCEPT ![r.job] = IF RowUnchanged(r) THEN "WAITING" ELSE @]
    /\ owner' = [owner EXCEPT ![r.job] = IF RowUnchanged(r) THEN NoProc ELSE @]
    /\ snap' = snap \ {r}
    /\ UNCHANGED <<rows, submitted, emerg, cluster, stray, signal, ctrl,
                   daemon, restarts, sweep, user>>

OpenGate ==
    /\ daemon = "reset"
    /\ snap = {}
    /\ daemon' = "run"
    /\ UNCHANGED <<db, cluster, stray, signal, ctrl, snap, restarts, sweep, user>>

(* Recovery raises, say because the database is away: the signal file is    *)
(* removed all the same, and put back when the thread tries again.          *)
RecoveryRaises ==
    /\ RecoveryFails
    /\ daemon \in {"start", "scan", "reset"}
    /\ restarts < MaxRestarts
    /\ restarts' = restarts + 1
    /\ daemon' = "failed"
    /\ snap' = {}
    /\ UNCHANGED <<db, cluster, stray, signal, ctrl, sweep, user>>

RetryRecovery ==
    /\ daemon = "failed"
    /\ daemon' = "start"
    /\ UNCHANGED <<db, cluster, stray, signal, ctrl, snap, restarts, sweep, user>>

-----------------------------------------------------------------------------
(* monitor_loop.  Its admission limits are in LaunchSlots.                 *)

(* _not_held_by_launch_limit: the jobs of j's user that are claimed and not  *)
(* running yet are fewer than the limit.                                     *)
NotHeldByLaunchLimit(j) ==
    Cardinality({k \in Jobs :
        /\ User[k] = User[j]
        /\ sched[k] \in NeedsRecovery
        /\ \E t \in Tasks : rows[k][t] \in {"PENDING", "STARTING", "RECOVERING"}
        /\ \A t \in Tasks : rows[k][t] # "RUNNING"}) < LaunchLimit

(* get_waiting_job_async: WAITING, with every dependency DONE. *)
Claimable(j) ==
    /\ sched[j] = "WAITING"
    /\ \A d \in Deps[j] : sched[d] = "DONE"
    /\ NotHeldByLaunchLimit(j)

Before(j, k) == Priority[j] > Priority[k] \/ (Priority[j] = Priority[k] /\ j < k)

Claim(p, j) ==
    /\ Alive(p)
    /\ mon[p].pc = "idle"
    /\ Claimable(j)
    /\ \A k \in Jobs \ {j} : Claimable(k) => Before(j, k)
    /\ sched' = [sched EXCEPT ![j] = "LAUNCHING"]
    /\ owner' = [owner EXCEPT ![j] = p]
    /\ mon' = [mon EXCEPT ![p] = [pc |-> "claimed", job |-> j]]
    /\ UNCHANGED <<rows, submitted, emerg, cluster, stray, signal, proc, co, server>>

(* The loop resumes after the claim committed.  A cancel file for a job    *)
(* that is PENDING is honoured here; otherwise start_job.                  *)
CancelledOnClaim(j) == j \in signal /\ JobStatusIs(rows[j], "PENDING")

StartJob(p, j) ==
    /\ mon[p] = [pc |-> "claimed", job |-> j]
    /\ ~CancelledOnClaim(j)
    /\ mon' = [mon EXCEPT ![p] = [pc |-> "idle", job |-> NoJob]]
    /\ co' = [co EXCEPT ![p][j] = At("env")]
    /\ UNCHANGED <<db, cluster, stray, signal, proc, server>>

MonitorCancelling(p, j) ==
    /\ mon[p] = [pc |-> "claimed", job |-> j]
    /\ CancelledOnClaim(j)
    /\ signal' = signal \ {j}
    /\ rows' = [rows EXCEPT ![j] = SetCancelling(@)]
    /\ mon' = [mon EXCEPT ![p].pc = "cancelling"]
    /\ UNCHANGED <<sched, owner, submitted, emerg, cluster, stray, proc, co, server>>

MonitorCancelled(p, j) ==
    /\ mon[p] = [pc |-> "cancelling", job |-> j]
    /\ rows' = [rows EXCEPT ![j] = SetCancelled(@)]
    /\ mon' = [mon EXCEPT ![p] = [pc |-> "idle", job |-> NoJob]]
    /\ UNCHANGED <<sched, owner, submitted, emerg, cluster, stray, signal, proc, co, server>>

(* Faulty variant: the file of a job that is still loading is removed too. *)
CancelJobEarly(p, j) ==
    /\ j \in signal
    /\ co[p][j].pc # "off"
    /\ signal' = signal \ {j}
    /\ co' = [co EXCEPT ![p][j] = IF @.pc \in Inside THEN At("cancelled") ELSE @]
    /\ stray' = [stray EXCEPT ![j] = LeftBehind(p, j)]
    /\ UNCHANGED <<db, cluster, proc, mon, server>>

(* cancel_job: the cancel file of a job whose task is in job_tasks is      *)
(* removed and the task cancelled, wherever it is suspended; a task that   *)
(* is done ignores it.                                                     *)
CancelJob(p, j) ==
    /\ j \in signal
    /\ co[p][j].pc \in CoPcs \ {"off", "env", "load"}
    /\ signal' = signal \ {j}
    /\ co' = [co EXCEPT ![p][j] = IF @.pc \in Inside THEN At("cancelled") ELSE @]
    /\ stray' = [stray EXCEPT ![j] = LeftBehind(p, j)]
    /\ UNCHANGED <<db, cluster, proc, mon, server>>

-----------------------------------------------------------------------------
(* run_job_loop and JobController.run.                                     *)

(* Coroutine steps of this section that change the task rows, the schedule *)
(* state or the clusters of job j leave everything else alone.             *)
Others == <<stray, owner, signal, proc, mon, server>>

(* The steps that also leave a launch request behind, or bring up what one   *)
(* of those would have.                                                      *)
OthersButStray == <<owner, signal, proc, mon, server>>

Resume(p, j, state) == co' = [co EXCEPT ![p][j] = state]

LoadEnv(p, j) ==
    /\ co[p][j].pc = "env"
    /\ Resume(p, j, At("load"))
    /\ UNCHANGED <<sched, rows, submitted, emerg, cluster, Others>>

(* The environment is read outside the try block: an error ends the        *)
(* coroutine on the spot, and the job stays claimed.                       *)
LoadEnvFails(p, j) ==
    /\ EnvReadFails
    /\ co[p][j].pc = "env"
    /\ Resume(p, j, Off)
    /\ UNCHANGED <<sched, rows, submitted, emerg, cluster, Others>>

(* load_dag, then the task is created and put in job_tasks. *)
LoadDag(p, j) ==
    /\ co[p][j].pc = "load"
    /\ Resume(p, j, At("top"))
    /\ UNCHANGED <<sched, rows, submitted, emerg, cluster, Others>>

(* load_dag raises: run_job_loop goes straight to its finally clause. *)
LoadDagFails(p, j) ==
    /\ co[p][j].pc = "load"
    /\ Resume(p, j, At("cleanup"))
    /\ UNCHANGED <<sched, rows, submitted, emerg, cluster, Others>>

(* Faulty variant: it is enough that the dependencies have ended. *)
CheckDependenciesEnded(p, j) ==
    /\ co[p][j].pc = "top"
    /\ Resume(p, j, IF \A d \in Deps[j] : AllTerminal(rows[d])
                    THEN At("task") ELSE At("exit"))
    /\ UNCHANGED <<sched, rows, submitted, emerg, cluster, Others>>

(* The top of run's loop: a dependency that did not succeed ends the job.  *)
(* After an error, run's task_id is still the task it was working on.      *)
CheckDependencies(p, j) ==
    /\ co[p][j].pc = "top"
    /\ Resume(p, j, IF \A d \in Deps[j] : AllSucceeded(rows[d])
                    THEN At("task") ELSE At("exit"))
    /\ UNCHANGED <<sched, rows, submitted, emerg, cluster, Others>>

(* The loop over the tasks of a chain: on to the next one, or out. *)
NextTask(t) == IF t < NumTasks THEN AtTask("task", t + 1) ELSE At("exit")

(* Faulty variant: any ended task lets the chain go on. *)
SkipTaskOnward(p, j) ==
    /\ co[p][j].pc = "task"
    /\ rows[j][co[p][j].task] \in Terminal
    /\ Resume(p, j, NextTask(co[p][j].task))
    /\ UNCHANGED <<sched, rows, submitted, emerg, cluster, Others>>

(* _run_one_task cannot prepare the task's spec, which it does before it    *)
(* looks at the task's status.                                              *)
PrepareFails(p, j) ==
    /\ co[p][j].pc = "task"
    /\ rows' = [rows EXCEPT ![j] = FailTask(@, co[p][j].task, "FAILED")]
    /\ Resume(p, j, At("exit"))
    /\ UNCHANGED <<sched, submitted, emerg, cluster, Others>>

(* _run_one_task, SKIP: the task's own row is terminal. *)
SkipTask(p, j) ==
    /\ co[p][j].pc = "task"
    /\ rows[j][co[p][j].task] \in Terminal
    /\ Resume(p, j, IF rows[j][co[p][j].task] = "SUCCEEDED"
                    THEN NextTask(co[p][j].task) ELSE At("exit"))
    /\ UNCHANGED <<sched, rows, submitted, emerg, cluster, Others>>

(* A task without run commands is started and succeeds at once, whether it  *)
(* is FRESH or RESUMEd.                                                     *)
StartEmptyTask(p, j) ==
    LET t == co[p][j].task IN
    /\ co[p][j].pc = "task"
    /\ t \in EmptyTasks
    /\ rows[j][t] \in MayBeStarted
    /\ rows' = [rows EXCEPT ![j][t] = "RUNNING"]
    /\ Resume(p, j, AtTask("empty", t))
    /\ UNCHANGED <<sched, submitted, emerg, cluster, Others>>

FinishEmptyTask(p, j) ==
    LET t == co[p][j].task IN
    /\ co[p][j].pc = "empty"
    /\ rows[j][t] \in MaySucceed
    /\ rows' = [rows EXCEPT ![j][t] = "SUCCEEDED"]
    /\ Resume(p, j, NextTask(t))
    /\ UNCHANGED <<sched, submitted, emerg, cluster, Others>>

(* FRESH: set_starting_async, then executor.launch(). *)
StartTask(p, j) ==
    LET t == co[p][j].task IN
    /\ co[p][j].pc = "task"
    /\ t \notin EmptyTasks
    /\ rows[j][t] \in MayStart
    /\ rows' = [rows EXCEPT ![j][t] = "STARTING"]
    /\ submitted' = [submitted EXCEPT ![j][t] = TRUE]
    /\ Resume(p, j, AtTask("want", t))
    /\ UNCHANGED <<sched, emerg, cluster, Others>>

(* RESUME: a CANCELLING task re-raises the cancellation, a RUNNING one is   *)
(* monitored again, anything else is forced to recover.                     *)
ResumeTask(p, j) ==
    LET t == co[p][j].task IN
    /\ co[p][j].pc = "task"
    /\ t \notin EmptyTasks
    /\ rows[j][t] \in Unended \ MayStart
    /\ Resume(p, j, CASE rows[j][t] = "CANCELLING" -> At("cancelled")
                      [] rows[j][t] = "RUNNING" -> AtTask("monitor", t)
                      [] OTHER -> AtTask("forced", t))
    /\ UNCHANGED <<sched, rows, submitted, emerg, cluster, Others>>

(* Faulty variant: keep_starting is forgotten. *)
ForceRecoveryPlain(p, j) ==
    LET t == co[p][j].task IN
    /\ co[p][j].pc = "forced"
    /\ cluster' = [cluster EXCEPT ![j][t] = FALSE]
    /\ Resume(p, j, [AtTask("want", t) EXCEPT !.rec = TRUE])
    /\ UNCHANGED <<sched, rows, submitted, emerg, Others>>

(* A forced recovery tears the cluster down first.  The task keeps its      *)
(* status: RECOVERING is announced already, STARTING stays STARTING.        *)
ForceRecovery(p, j) ==
    LET t == co[p][j].task IN
    /\ co[p][j].pc = "forced"
    /\ cluster' = [cluster EXCEPT ![j][t] = FALSE]
    /\ Resume(p, j, [AtTask("want", t) EXCEPT !.rec = TRUE,
                                              !.keep = rows[j][t] = "STARTING"])
    /\ UNCHANGED <<sched, rows, submitted, emerg, Others>>

-----------------------------------------------------------------------------
(* StrategyExecutor._launch inside scheduled_launch.  rec is recover()'s    *)
(* relaunch, keep is keep_starting, retry a second or later attempt.        *)

EnterLaunch(p, j) ==
    /\ co[p][j].pc = "want"
    /\ sched' = [sched EXCEPT ![j] = "LAUNCHING"]
    /\ Resume(p, j, [co[p][j] EXCEPT !.pc = IF co[p][j].retry THEN "restarting" ELSE "launch"])
    /\ UNCHANGED <<rows, submitted, emerg, cluster, Others>>

(* set_restarting_async accepts any row that has not ended. *)
SetRestarting(p, j) ==
    LET t == co[p][j].task IN
    /\ co[p][j].pc = "restarting"
    /\ rows[j][t] \in Unended
    /\ rows' = [rows EXCEPT ![j][t] = IF co[p][j].rec THEN "RECOVERING" ELSE "STARTING"]
    /\ Resume(p, j, [co[p][j] EXCEPT !.pc = "launch", !.retry = FALSE])
    /\ UNCHANGED <<sched, submitted, emerg, cluster, Others>>

Provision(p, j) ==
    LET t == co[p][j].task IN
    /\ co[p][j].pc = "launch"
    /\ ~cluster[j][t]
    /\ cluster' = [cluster EXCEPT ![j][t] = TRUE]
    /\ stray' = [stray EXCEPT ![j][t] = IF @ = "up" THEN "none" ELSE @]
    /\ UNCHANGED <<sched, rows, submitted, emerg, co, OthersButStray>>

(* The job runs on the cluster; scheduled_launch's exit needs LAUNCHING. *)
LaunchSucceeds(p, j) ==
    /\ co[p][j].pc = "launch"
    /\ cluster[j][co[p][j].task]
    /\ sched[j] = "LAUNCHING"
    /\ sched' = [sched EXCEPT ![j] = "ALIVE"]
    /\ Resume(p, j, [co[p][j] EXCEPT !.pc = "launched"])
    /\ UNCHANGED <<rows, submitted, emerg, cluster, Others>>

(* The attempt failed, or its answer was lost: tear down, back to PENDING,   *)
(* back off.  A launch request that is parked keeps what it provisioned.     *)
LaunchBacksOff(p, j) ==
    LET t == co[p][j].task IN
    /\ co[p][j].pc = "launch"
    /\ rows[j][t] \in MayBackOff
    /\ \E parked \in {cluster[j][t], FALSE} :
          cluster' = [cluster EXCEPT ![j][t] = parked]
    /\ rows' = [rows EXCEPT ![j][t] = "PENDING"]
    /\ stray' = [stray EXCEPT ![j] = LeftBehind(p, j)]
    /\ Resume(p, j, [co[p][j] EXCEPT !.pc = "want", !.retry = TRUE])
    /\ UNCHANGED <<sched, submitted, emerg, OthersButStray>>

(* Prechecks or the cluster's setup fail on a first launch. *)
LaunchRaises(p, j) ==
    LET t == co[p][j].task IN
    /\ co[p][j].pc = "launch"
    /\ ~co[p][j].rec
    /\ rows' = [rows EXCEPT ![j] = FailTask(@, t, "FAILED")]
    /\ Resume(p, j, At("exit"))
    /\ UNCHANGED <<sched, submitted, emerg, cluster, Others>>

(* recover()'s _launch returns None, after a failed precheck or its last    *)
(* retry; recover() will call it again.                                     *)
RelaunchGivesUp(p, j) ==
    LET t == co[p][j].task IN
    /\ co[p][j].pc = "launch"
    /\ co[p][j].rec
    /\ sched[j] = "LAUNCHING"
    /\ sched' = [sched EXCEPT ![j] = "ALIVE"]
    /\ \E left \in {cluster[j][t], FALSE} :
          cluster' = [cluster EXCEPT ![j][t] = left]
    /\ stray' = [stray EXCEPT ![j] = LeftBehind(p, j)]
    /\ Resume(p, j, [co[p][j] EXCEPT !.pc = "want"])
    /\ UNCHANGED <<rows, submitted, emerg, OthersButStray>>

(* What the UPDATE that ends this launch accepts: set_started_async after a *)
(* first launch, set_recovered_async after recover(), and whichever of the  *)
(* two the row calls for when the task was kept STARTING.                   *)
LaunchedFrom(c) ==
    IF ~c.rec THEN MayBeStarted
    ELSE IF c.keep THEN MayBeStarted \cup MayBeRecovered ELSE MayBeRecovered

SetRunning(p, j) ==
    LET t == co[p][j].task IN
    /\ co[p][j].pc = "launched"
    /\ rows[j][t] \in LaunchedFrom(co[p][j])
    /\ rows' = [rows EXCEPT ![j][t] = "RUNNING"]
    /\ Resume(p, j, AtTask("monitor", t))
    /\ UNCHANGED <<sched, submitted, emerg, cluster, Others>>

-----------------------------------------------------------------------------
(* _monitor_one_task: what a poll can find.                                *)

(* The job on the cluster succeeded.  SUCCEEDED is written first, then the  *)
(* logs are downloaded, then the cluster is torn down.                      *)
TaskSucceeds(p, j) ==
    LET t == co[p][j].task IN
    /\ co[p][j].pc = "monitor"
    /\ cluster[j][t]
    /\ rows[j][t] \in MaySucceed
    /\ rows' = [rows EXCEPT ![j][t] = "SUCCEEDED"]
    /\ Resume(p, j, AtTask("teardown", t))
    /\ UNCHANGED <<sched, submitted, emerg, cluster, Others>>

TearDown(p, j) ==
    LET t == co[p][j].task IN
    /\ co[p][j].pc = "teardown"
    /\ cluster' = [cluster EXCEPT ![j][t] = FALSE]
    /\ Resume(p, j, NextTask(t))
    /\ UNCHANGED <<sched, rows, submitted, emerg, Others>>

(* The user's program failed on a healthy cluster and is not restarted, or  *)
(* its status is one the controller does not know.                          *)
TaskFails(p, j) ==
    LET t == co[p][j].task IN
    /\ co[p][j].pc = "monitor"
    /\ cluster[j][t]
    /\ \E st \in {"FAILED", "FAILED_CONTROLLER"} :
          rows' = [rows EXCEPT ![j] = FailTask(@, t, st)]
    /\ Resume(p, j, At("exit"))
    /\ UNCHANGED <<sched, submitted, emerg, cluster, Others>>

(* The cluster is preempted, or its job is unreachable or to be restarted:  *)
(* announce, then recover().  The cluster is gone, torn down by the         *)
(* strategy, or kept to restart the job on it.                              *)
TaskRecovers(p, j) ==
    LET t == co[p][j].task IN
    /\ co[p][j].pc = "monitor"
    /\ rows[j][t] \in MayRecover
    /\ rows' = [rows EXCEPT ![j][t] = "RECOVERING"]
    /\ \E kept \in {cluster[j][t], FALSE} :
          cluster' = [cluster EXCEPT ![j][t] = kept]
    /\ Resume(p, j, [AtTask("want", t) EXCEPT !.rec = TRUE])
    /\ UNCHANGED <<sched, submitted, emerg, Others>>

-----------------------------------------------------------------------------
(* An unexpected error escapes run's loop body: _handle_unexpected_error.   *)

(* Faulty variant: the budget is not enforced. *)
EmergencySpendAlways(p, j) ==
    /\ co[p][j].pc \in Body
    /\ \E count \in {emerg[j], 0} : emerg' = [emerg EXCEPT ![j] = count + 1]
    /\ stray' = [stray EXCEPT ![j] = LeftBehind(p, j)]
    /\ Resume(p, j, AtTask("emergency", co[p][j].task))
    /\ UNCHANGED <<sched, rows, submitted, cluster, OthersButStray>>

(* One attempt of the budget is spent, of a new episode if the last error   *)
(* is longer ago than the reset window.                                     *)
EmergencySpend(p, j) ==
    /\ co[p][j].pc \in Body
    /\ \E count \in {emerg[j], 0} :
          /\ count < MaxEmergency
          /\ emerg' = [emerg EXCEPT ![j] = count + 1]
    /\ stray' = [stray EXCEPT ![j] = LeftBehind(p, j)]
    /\ Resume(p, j, AtTask("emergency", co[p][j].task))
    /\ UNCHANGED <<sched, rows, submitted, cluster, OthersButStray>>

(* The latest task is left as it is: PENDING, or RUNNING on its cluster     *)
(* with another attempt left after this one.                                *)
KeptThroughEmergency(j, t) ==
    \/ rows[j][t] = "PENDING"
    \/ rows[j][t] = "RUNNING" /\ emerg[j] < MaxEmergency

EmergencyKeep(p, j) ==
    /\ co[p][j].pc = "emergency"
    /\ \E t \in Tasks : IsLatest(rows[j], t) /\ KeptThroughEmergency(j, t)
    /\ Resume(p, j, [co[p][j] EXCEPT !.pc = "normalize"])
    /\ UNCHANGED <<sched, rows, submitted, emerg, cluster, Others>>

(* Otherwise the latest task goes RECOVERING, and its cluster is doomed.    *)
EmergencyRelaunch(p, j) ==
    /\ co[p][j].pc = "emergency"
    /\ \E t \in Tasks :
          /\ IsLatest(rows[j], t)
          /\ rows[j][t] \in MayEmergencyRecover
          /\ ~KeptThroughEmergency(j, t)
          /\ rows' = [rows EXCEPT ![j][t] = "RECOVERING"]
          /\ Resume(p, j, [co[p][j] EXCEPT !.pc = "doomed"])
    /\ UNCHANGED <<sched, submitted, emerg, cluster, Others>>

(* The latest task is terminal or CANCELLING: retry at once. *)
EmergencyFastRetry(p, j) ==
    /\ co[p][j].pc = "emergency"
    /\ \E t \in Tasks : /\ IsLatest(rows[j], t)
                        /\ rows[j][t] \in Terminal \cup {"CANCELLING"}
    /\ Resume(p, j, AtTask("top", co[p][j].task))
    /\ UNCHANGED <<sched, rows, submitted, emerg, cluster, Others>>

(* The cluster of that task is torn down; a failure is left to the retry. *)
EmergencyTearDown(p, j) ==
    /\ co[p][j].pc = "doomed"
    /\ \E t \in Tasks :
          /\ IsLatest(rows[j], t)
          /\ \E left \in {cluster[j][t], FALSE} :
                cluster' = [cluster EXCEPT ![j][t] = left]
    /\ Resume(p, j, [co[p][j] EXCEPT !.pc = "normalize"])
    /\ UNCHANGED <<sched, rows, submitted, emerg, Others>>

(* normalize_schedule_state_for_emergency_retry_async, then the backoff. *)
Normalize(p, j) ==
    /\ co[p][j].pc = "normalize"
    /\ sched' = [sched EXCEPT ![j] = IF @ = "LAUNCHING" THEN "ALIVE" ELSE @]
    /\ Resume(p, j, AtTask("top", co[p][j].task))
    /\ UNCHANGED <<rows, submitted, emerg, cluster, Others>>

(* The budget is spent, or the bookkeeping fails again and again:           *)
(* _update_failed_task_state on run's task_id, which may fail as well.      *)
EmergencyExhausted(p, j) ==
    LET t == co[p][j].task IN
    /\ \/ co[p][j].pc \in Body /\ emerg[j] = MaxEmergency
       \/ co[p][j].pc \in Bookkeeping
    /\ \E r \in {FailTask(rows[j], t, "FAILED_CONTROLLER"), rows[j]} :
          rows' = [rows EXCEPT ![j] = r]
    /\ stray' = [stray EXCEPT ![j] = LeftBehind(p, j)]
    /\ Resume(p, j, At("exit"))
    /\ UNCHANGED <<sched, submitted, emerg, cluster, OthersButStray>>

-----------------------------------------------------------------------------
(* The end: run's finally clause, then run_job_loop's.                     *)

ExitCancelling(p, j) ==
    /\ co[p][j].pc = "exit"
    /\ rows' = [rows EXCEPT ![j] = SetCancelling(@)]
    /\ Resume(p, j, At("exited"))
    /\ UNCHANGED <<sched, submitted, emerg, cluster, Others>>

ExitCancelled(p, j) ==
    /\ co[p][j].pc = "exited"
    /\ rows' = [rows EXCEPT ![j] = SetCancelled(@)]
    /\ Resume(p, j, At("cleanup"))
    /\ UNCHANGED <<sched, submitted, emerg, cluster, Others>>

(* A cancelled run: its finally clause and run_job_loop's handler both      *)
(* write CANCELLING; CANCELLED waits for the cleanup.                       *)
CancelledRun(p, j) ==
    /\ co[p][j].pc = "cancelled"
    /\ rows' = [rows EXCEPT ![j] = SetCancelling(@)]
    /\ Resume(p, j, [At("cleanup") EXCEPT !.canc = TRUE])
    /\ UNCHANGED <<sched, submitted, emerg, cluster, Others>>

(* One of those writes, or a read before it, raises: run_job_loop does not  *)
(* know of a cancellation until its handler is through.                     *)
UnwindFails(p, j) ==
    /\ co[p][j].pc \in {"exit", "exited", "cancelled"}
    /\ \E r \in {rows[j], SetCancelling(rows[j])} :
          rows' = [rows EXCEPT ![j] = r]
    /\ Resume(p, j, At("cleanup"))
    /\ UNCHANGED <<sched, submitted, emerg, cluster, Others>>

Cleanup(p, j) ==
    /\ co[p][j].pc = "cleanup"
    /\ cluster' = [cluster EXCEPT ![j] = [t \in Tasks |-> FALSE]]
    /\ Resume(p, j, [co[p][j] EXCEPT !.pc = "finalize"])
    /\ UNCHANGED <<sched, rows, submitted, emerg, Others>>

(* A cluster or a storage could not be removed: every task, ended or not,   *)
(* becomes FAILED_CONTROLLER.                                               *)
CleanupFails(p, j) ==
    /\ co[p][j].pc = "cleanup"
    /\ \E left \in SUBSET {t \in Tasks : cluster[j][t]} :
          cluster' = [cluster EXCEPT ![j] = [t \in Tasks |-> t \in left]]
    /\ rows' = [rows EXCEPT ![j] = FailAll(@)]
    /\ Resume(p, j, [co[p][j] EXCEPT !.pc = "finalize"])
    /\ UNCHANGED <<sched, submitted, emerg, Others>>

(* finalize_job_done_async, and the job leaves job_tasks. *)
FinalizeJob(p, j) ==
    /\ co[p][j].pc = "finalize"
    /\ rows' = [rows EXCEPT ![j] = FinalRows(@, co[p][j].canc)]
    /\ sched' = [sched EXCEPT ![j] = "DONE"]
    /\ Resume(p, j, Off)
    /\ UNCHANGED <<submitted, emerg, cluster, Others>>

-----------------------------------------------------------------------------
Submission(j) ==
    \/ SetJobInfo(j)
    \/ \E t \in Tasks : SetPending(j, t)
    \/ SubmitJob(j)

UserCancel(j) ==
    \/ CancelRequest(j)
    \/ SetPendingCancelled(j)
    \/ SweepRequest(j)
    \/ SweepSkip(j)
    \/ TouchSignal(j)

SweepStep(a) ==
    \/ SweepSpare(a)
    \/ SweepOrphan(a)
    \/ SweepCleanup(a)
    \/ SweepFail(a)
    \/ SweepDone(a)

DaemonStep ==
    \/ PoolStarted
    \/ ScanOrphans
    \/ \E r \in snap : ResetJob(r)
    \/ OpenGate
    \/ RetryRecovery

MonitorLoop(p, j) ==
    \/ Claim(p, j)
    \/ StartJob(p, j)
    \/ MonitorCancelling(p, j)
    \/ MonitorCancelled(p, j)

(* The steps a coroutine owes whatever its cluster does. *)
RunStep(p, j) ==
    \/ LoadEnv(p, j)
    \/ LoadDag(p, j)
    \/ CheckDependencies(p, j)
    \/ SkipTask(p, j)
    \/ StartEmptyTask(p, j)
    \/ FinishEmptyTask(p, j)
    \/ StartTask(p, j)
    \/ ResumeTask(p, j)
    \/ ForceRecovery(p, j)
    \/ EnterLaunch(p, j)
    \/ SetRestarting(p, j)
    \/ SetRunning(p, j)
    \/ TearDown(p, j)
    \/ EmergencyKeep(p, j)
    \/ EmergencyRelaunch(p, j)
    \/ EmergencyFastRetry(p, j)
    \/ EmergencyTearDown(p, j)
    \/ Normalize(p, j)
    \/ ExitCancelling(p, j)
    \/ ExitCancelled(p, j)
    \/ CancelledRun(p, j)
    \/ Cleanup(p, j)
    \/ FinalizeJob(p, j)

(* What the cloud, the user's program and controller errors decide. *)
Outcome(p, j) ==
    \/ LoadEnvFails(p, j)
    \/ LoadDagFails(p, j)
    \/ PrepareFails(p, j)
    \/ Provision(p, j)
    \/ LaunchSucceeds(p, j)
    \/ LaunchBacksOff(p, j)
    \/ LaunchRaises(p, j)
    \/ RelaunchGivesUp(p, j)
    \/ TaskSucceeds(p, j)
    \/ TaskFails(p, j)
    \/ TaskRecovers(p, j)
    \/ EmergencySpend(p, j)
    \/ EmergencyExhausted(p, j)
    \/ UnwindFails(p, j)
    \/ CleanupFails(p, j)

Next ==
    \/ \E j \in Jobs : Submission(j) \/ UserCancel(j) \/ SweepTick(j)
    \/ \E j \in Jobs, t \in Tasks : StrayProvisions(j, t) \/ StrayEnds(j, t)
    \/ \E a \in SweepActors : SweepStep(a)
    \/ DaemonStep
    \/ RecoveryRaises
    \/ RestartServer
    \/ \E p \in Procs : StartController(p) \/ CrashController(p)
    \/ \E p \in Procs, j \in Jobs :
          MonitorLoop(p, j) \/ CancelJob(p, j) \/ RunStep(p, j) \/ Outcome(p, j)

Spec == Init /\ [][Next]_vars

(***************************************************************************)
(* Fairness: the loops of the code that always come round again.  The      *)
(* daemon ticks and recovers, requests and sweeps are served to their end, *)
(* controllers are started, poll for WAITING jobs every 10s and for cancel *)
(* files every 15s, and coroutines are resumed.  Nothing is assumed of     *)
(* users, of the cloud, of the user's program, or of crashes.              *)
(***************************************************************************)
Fairness ==
    /\ \A j \in Jobs :
          /\ WF_vars(SetPendingCancelled(j) \/ SweepRequest(j) \/ SweepSkip(j)
                       \/ TouchSignal(j))
          /\ SF_vars(SweepTick(j))
    /\ \A a \in SweepActors : WF_vars(SweepStep(a))
    /\ WF_vars(DaemonStep)
    /\ \A p \in Procs :
          /\ WF_vars(StartController(p))
          /\ \A j \in Jobs :
                /\ WF_vars(MonitorLoop(p, j))
                /\ WF_vars(CancelJob(p, j))
                /\ WF_vars(RunStep(p, j))

FairSpec == Spec /\ Fairness

-----------------------------------------------------------------------------
(* Properties.                                                             *)

(* Which of the processes work on job j: its monitor loop holds the claim,  *)
(* or its coroutine for j is running.                                       *)
Holders(j) == {p \in Procs : co[p][j].pc # "off" \/ mon[p].job = j}

(* At most one live process works on a job, it is the one job_info names,   *)
(* and the job is in a claimed schedule state.  This is what the claim, the *)
(* compare-and-swap of recovery and the liveness check of recovery are for: *)
(* two controllers on one job would launch and bill it twice.               *)
OneController ==
    \A j \in Jobs : \A p \in Holders(j) :
        /\ Alive(p)
        /\ owner[j] = p
        /\ sched[j] \in NeedsRecovery

(* No guarded UPDATE of the controller is ever refused: wherever a          *)
(* coroutine is, its task's row is in a status that its next set_* call     *)
(* accepts, over crashes, resumes, backoffs and emergency retries, so       *)
(* ManagedJobStatusError and set_alive's assertion are never raised.        *)
TransitionsNeverRefused ==
    \A p \in Procs, j \in Jobs :
        LET c == co[p][j]
            st == rows[j][c.task] IN
        /\ c.pc = "empty" => st \in MaySucceed
        /\ c.pc = "restarting" => st \in Unended
        /\ c.pc = "launch" => st \in MayBackOff /\ sched[j] = "LAUNCHING"
        /\ c.pc = "launched" => st \in LaunchedFrom(c)
        /\ c.pc = "monitor" => st \in MayRecover \cap MaySucceed

(* A chain runs in order: a task has been started, has run or has failed by *)
(* itself only if every earlier task SUCCEEDED, whatever was interrupted    *)
(* and resumed in between.                                                  *)
ChainOrder ==
    \A j \in Jobs : \A t \in Tasks, u \in Tasks :
        /\ u < t
        /\ rows[j][t] \in {"STARTING", "RUNNING", "RECOVERING", "SUCCEEDED", "FAILED"}
        => rows[j][u] = "SUCCEEDED"

(* A DONE job has ended, and has no cluster left unless it is reported as   *)
(* FAILED_CONTROLLER (whose failure reason says resources may have leaked), *)
(* or a launch request that its coroutine left behind in the API server     *)
(* brought the cluster up again behind the cleanup.                         *)
DoneIsClean ==
    \A j \in Jobs : sched[j] = "DONE" =>
        /\ AllTerminal(rows[j])
        /\ \A t \in Tasks : cluster[j][t] =>
              rows[j][t] = "FAILED_CONTROLLER" \/ stray[j][t] = "up"

(* A job's tasks start only when every job it depends on is DONE and every  *)
(* one of their tasks SUCCEEDED, and that never stops being so.             *)
DependenciesHeld ==
    \A j \in Jobs : \A d \in Deps[j] :
        (\E t \in Tasks : cluster[j][t] \/ submitted[j][t])
        => sched[d] = "DONE" /\ AllSucceeded(rows[d])

(* A call of update_managed_jobs_statuses that has decided to fail a job    *)
(* never has a live controller working on that job under its hands.  The    *)
(* restart signal file is what guarantees it, as long as recovery does not  *)
(* raise: then the file goes too early.                                     *)
SweepHitsOrphansOnly ==
    \A a \in SweepActors :
        sweep[a].pc \in {"orphan", "failing", "done"} => Holders(sweep[a].job) = {}

(* scheduler.job_done: once DONE, a job never leaves DONE, none of its      *)
(* statuses changes, no launch request of it is issued, and a cluster of it *)
(* appears only through a request that was left behind before.              *)
DoneIsFinal ==
    [][\A j \in Jobs : sched[j] = "DONE" =>
          /\ sched'[j] = "DONE"
          /\ rows'[j] = rows[j]
          /\ \A t \in Tasks :
                /\ stray'[j][t] = "live" => stray[j][t] = "live"
                /\ cluster'[j][t] => cluster[j][t] \/ stray[j][t] = "live"]_vars

(* A task that has ended keeps its status; only the two places that know    *)
(* the controller or its cleanup failed overwrite it, with                  *)
(* FAILED_CONTROLLER.                                                       *)
EndedStaysEnded ==
    [][\A j \in Jobs, t \in Tasks : rows[j][t] \in Terminal =>
          rows'[j][t] \in {rows[j][t], "FAILED_CONTROLLER"}]_vars

(* No coroutine launches for a job one of whose tasks is cancelled, being   *)
(* cancelled or failed: a cancellation that was begun survives the          *)
(* controller that began it.  A cluster that appears then comes from a      *)
(* request left behind, and those were all issued before: nothing adds to   *)
(* them either.                                                             *)
Launchable(j) ==
    \A u \in Tasks : rows[j][u] \in {"SUCCEEDED", "STARTING", "RECOVERING", "PENDING"}

NoLaunchAfterCancel ==
    [][\A j \in Jobs, t \in Tasks :
          \/ ~cluster[j][t] /\ cluster'[j][t]
          \/ stray'[j][t] = "live"
          => stray[j][t] = "live" \/ Launchable(j)]_vars

(* A job whose controller died. *)
Orphaned(j) == sched[j] \in NeedsRecovery /\ ~Alive(owner[j])

(* A cancel request that was acknowledged with a cancel file ends the job,  *)
(* even if the user's program never would, unless the job's controller dies *)
(* first: with it goes a cancel file that was read and not yet acted on.    *)
CancelTakesEffect ==
    \A j \in Jobs :
        j \in signal /\ sched[j] # "INACTIVE"
            ~> (AllTerminal(rows[j]) \/ Orphaned(j))

(* A job whose controller died is not forgotten: it is adopted by a live    *)
(* controller or becomes DONE.                                              *)
OrphansSettled ==
    \A j \in Jobs : Orphaned(j) ~> (Holders(j) # {} \/ sched[j] = "DONE")

-----------------------------------------------------------------------------
(* What comments of the code say, which the code does not do.              *)

(* state.py, finalize_job_done_async: a job with a terminal status but a    *)
(* non-DONE schedule_state is "a state nothing owns"; writing both in one   *)
(* transaction is to rule it out.  Here: whenever every task of a claimed   *)
(* job has ended, its process still works on it, or is dead so that the     *)
(* daemon will find the job.                                                *)
EndedJobsAreOwned ==
    \A j \in Jobs :
        AllTerminal(rows[j]) /\ sched[j] \in NeedsRecovery /\ Alive(owner[j])
        => Holders(j) # {}
=============================================================================
