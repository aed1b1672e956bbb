# SkyPilot: a TLA+ verification project

SkyPilot runs user programs on clusters of many clouds. Four parts of it have
a life of their own, in which processes crash, restart, race and wait for each
other:

- *managed jobs* (`sky/jobs/`): a job is submitted, claimed by a controller
  process, launched, monitored, relaunched when its cluster is preempted,
  cancelled or finished and cleaned up;
- the *launch request* by which a controller has the API server bring up the
  job's cluster (`sky/jobs/recovery_strategy.py`);
- the *request executor* of the API server (`sky/server/requests/`);
- the *job queue* on every cluster (`sky/skylet/job_lib.py`).

This project models them: what the code promises is checked by TLC on small
instances and, for the results that matter most, proved with TLAPS for every
instance.

## 1. Inventory

### What is modelled

| Component | State | Operations | What makes it correct |
|---|---|---|---|
| Managed-job database, `jobs/state.py` | per job: `schedule_state`, controller pid and start time, emergency count; per task: `status`, `submitted_at` | guarded UPDATEs, each one transaction: `set_*_async`, claim, `set_pending_cancelled`, `finalize_job_done_async`, recovery reset | ended tasks stay ended; DONE is final; the guards never refuse a transition the controller needs |
| Database retries, `utils/db/retries.py` | attempts, `prior_update_matched` | `with_db_retries_async`, `_retry_task_status_update`, `_retry_schedule_state_update` | an update takes effect once per call, whatever commit or answer is lost |
| Controller processes, `jobs/controller.py` | `job_tasks`, `starting`, one coroutine per job | `monitor_loop`, `cancel_job`, `run_job_loop`, `JobController.run`, emergency recovery, `_cleanup` | one controller per job; tasks of a chain in order; resumes from the rows alone; a cancel takes effect; nothing is left behind |
| Recovery strategies, `jobs/recovery_strategy.py` | request id, parked request, stream, poll counters | `_launch`, `_await_launch_request`, `_wait_for_parked_request`, `_cancel_launch_request` | one launch at a time; no launch outlives its job; a healthy launch is not torn down |
| Scheduler, `jobs/scheduler.py` | controller pid files, the condition of the launch slots | `submit_jobs`, `maybe_start_controllers`, `scheduled_launch`, `job_done` | slots are bounded; no sleeper is forgotten |
| Sweep and cancel requests, `jobs/utils.py` | cancel files | `update_managed_jobs_statuses`, `cancel_jobs_by_id`, `ha_recovery_for_consolidation_mode` | only jobs of dead controllers are failed; none of those is forgotten |
| Refresh daemon, `jobs/managed_job_refresh_thread.py` | restart signal file | recovery at start, ticks | recovery and sweep never work against each other |
| Request executor, `server/requests/` | requests table (`status`, `pid`, `status_msg`), queue, pool and burst processes, monitor threads | schedule, precondition, dispatch, execute, pause, resume, cancel, broken pool, shutdown | a signal hits the request it is meant for; the acknowledgement is true; nothing queued is forgotten; what a client was told stays true |
| Cluster teardown, `backends/cloud_vm_ray_backend.py`, `provision/provisioner.py`, `utils/locks.py` | cluster lock, the requests to kill | `teardown`, `kill_cluster_requests`, `wait_for_request_cancellation`, rollback | teardown and provisioning never touch the cloud together |
| Cluster job queue, `skylet/job_lib.py`, `backends/task_codegen.py` | tables `jobs` and `pending_jobs`, driver processes | `add_job`, `queue`, `schedule_step`, `claim_job`, the driver program, `cancel_jobs`, `update_job_status` | a job's program starts at most once; its row names its driver; terminal statuses stand; the queue moves |

How they interact. Managed jobs exchange no messages: everything goes through
database rows, the cancel files in `CONSOLIDATED_SIGNAL_PATH`, the restart
signal file, the process table and the clouds; within a controller, coroutines
share `starting`, `job_tasks` and an `asyncio.Condition`. A controller is a
client of the API server: it submits a launch request, follows its log stream,
polls its status and cancels it. In the API server, coroutines, the dispatcher,
monitor threads and executor processes share the rows of the requests table
(each under a file lock), a queue and POSIX signals; a teardown adds the
cluster's status lock. On a cluster, skylet, requests over gRPC or SSH and the
drivers share an SQLite database and a file lock per job.

What is hard: a process may die between any two transactions and another one
resumes from what the rows say; recovery, sweep, shutdown and teardown decide
on rows they read earlier; a cancel may land at any await; executor processes
are reused, so a signal may arrive late; commits and answers get lost and calls
are repeated; counts are read before an await and used after it.
`PROJECT.json` lists the hazards at their lines with the properties that would
catch them, or the reason why none does.

### What is not modelled

Control logic that would bear a module and has none yet: job groups, pools,
batch jobs and dynamic job trees; the advisory lock between two API servers and
leader election; autostop (`skylet/autostop_lib.py`, which looks whether the
cluster is idle and then stops it); serve's replica managers and autoscalers;
the cluster table with its INIT/UP/STOPPED machine. Of the modelled components
these operations are left out: requests run as coroutines and internal daemons,
the early return of `schedule_step` on Slurm, retries bounded by a deadline,
the retried claim, the skip of status updates while the restart signal is set.

Dashboard, CLI and client SDK, cloud adaptors and catalog, storage transfers,
users, workspaces, usage and metrics are user interface, tables, vendor calls or
reporting, and they are most of the repository's lines; where they matter they
appear as outcomes (a launch fails, a cleanup leaves something). The optimizer
is a stateless numeric optimisation.

## 2. Plan

Written, in this order: `JobState`, `ManagedJobs`, `LaunchSlots` and their
first proofs; `GuardedUpdate` and `RetriedUpdate` with the refinement and its
proof; `Requests`; `LaunchRequest`; `SkyletJobs`; the proofs of all safety
properties that the passing runs check.

Next, most important first:

1. `LeaderRecovery`: two API servers in a rolling update, the session lock and
   its loss, `kill_local_job_controllers`; `OneController` across hosts;
2. autostop on top of `SkyletJobs`; job groups; the batch coordinator; serve's
   replica manager;
3. an abstract `ManagedJob` (submitted, running, ended, cleaned) that
   `ManagedJobs` implements.

## 3. Modules

| Module | Contents |
|---|---|
| `JobState` | statuses and schedule states of `state.py`; every UPDATE as an operator on a job's rows, with the set of statuses its WHERE clause accepts |
| `ManagedJobs` | submission, cancel, sweep, daemon, controller processes and job coroutines, composed over one database |
| `LaunchSlots` | the `starting` set, the admission test of `monitor_loop`, `scheduled_launch`, `asyncio.Condition` (external, from how the code uses it) |
| `GuardedUpdate` | abstract: what a guarded status update promises its caller |
| `RetriedUpdate` | the update as the code makes it, retried over an unreliable connection; implements `GuardedUpdate` |
| `Requests` | requests of one cluster: scheduling, dispatcher, executor processes, monitor threads, cancellation, shutdown, teardown |
| `LaunchRequest` | `_launch` as a client of the API server; the server's side is what a client sees of `Requests` |
| `SkyletJobs` | the cluster's job queue, claimants and drivers |
| `MC...` | values of the constants for TLC, symmetry sets |
| `ManagedJobsProofs`, `OneControllerProofs`, `JobOutcomesProofs` | theorems about `ManagedJobs`: types, who works on a job, what becomes of it |
| `LaunchSlotsProofs`, `RetriedUpdateProofs`, `RequestsProofs`, `LaunchRequestProofs`, `SkyletJobsProofs` | theorems about the module of that name |

A step is what the code runs between two suspension points: one transaction,
one section under a file lock, one cloud call, one signal, one file operation.
`PROJECT.json` maps each action to its lines. The operators marked *faulty*
are mutations that each property is tested against; no specification uses them.

**ManagedJobs.** The variables are the database (`sched`, `owner`, `rows`,
`submitted`, `emerg`), the cloud (`cluster`: does the task's cluster exist,
whole or in part), the cancel files (`signal`), the processes (`proc`, the
monitor loop's place `mon`, the coroutines `co`) and the API server (`daemon`,
`snap`, `sweep`, `user`). `co[p][j].pc` follows `run_job_loop`: `env`, `load`,
then `JobController.run` (`top`, `task`, the launch
`want`-`restarting`-`launch`-`launched`, `monitor`, `teardown`, the emergency
bookkeeping), its unwinding (`exit`, `exited`, `cancelled`), `cleanup` and
`finalize`. A crash erases a process's `mon` and `co` at any point and leaves
database and clusters as they are; a restart of the server erases its calls.
Jobs are ordinary chains. `FAILED`, `FAILED_SETUP`, `FAILED_PRECHECKS` and
`FAILED_NO_RESOURCE` are one status; `WINDING_DOWN` counts as `RUNNING`;
`end_at` is set exactly in ended rows. A launch is one step with the coroutine
that waits for it, except that the request lives in the API server: wherever a
coroutine stops waiting inside a launch (a crash, a cancel, an error, a backoff
while it is parked) the request may be left behind (`stray`) and provision at any
later time, after the cleanup and after DONE as well, or end without. `MayStray`
bounds the tasks this happens to; `LaunchRequest` says by which ways. The claim
holds a user's jobs back at `LaunchLimit` as `_not_held_by_launch_limit` does.
Looking at a process never
fails (the code takes an error of psutil for a dead controller), and a pid with
its start time is never reused. The final writes do not give up (the code does
after an hour of database errors). Any backoff may end, any window may have
passed.

**RetriedUpdate.** `pc` goes through the `_op` of `_retry_task_status_update`:
the UPDATE, the commit (`Land` makes it durable, `Acked` is its answer, `Fail`
loses either), the second look at a row that did not match. `MCRetriedUpdate`
holds the guards, targets and accumulated columns of eleven calls of
`state.py`, and what other processes may write. The assumptions say what the
tables must satisfy: no UPDATE accumulates on the status it writes, and nobody
else moves a row back under a call's guard; TLC evaluates them on the tables.

**Requests.** A row is `status`, `pid` and `owned` (the status message by which
a teardown claims the cleanup). `sub` is the submitting coroutine, `mon` the
monitor thread of `handle_task_result`, `worker` the executor processes, each
incarnation with a pid of its own, `lock` the cluster's status lock, `down` the
teardown with its two rounds of killing. When a process of the pool dies, every
future of the pool is broken and the others get SIGTERM; those that go on, to
unwind or because they swallowed the signal, are `lost`: nobody waits for their
result, and the pool that replaces theirs does not count them. `AfterSignal` is what SIGTERM does at
each place. All requests work on one cluster. Those in `Gated` are execs: they
wait for `ClusterStartCompletePrecondition`, which is met when the cluster reads
UP (at any time, for this module) or no launch is active, and then work on the
cluster without its lock (place `cluster`). A launch provisions under the lock
(`cloud`), parks if it is taken, and goes through its later stages (sync, setup,
autostop, exec) without it, at `cluster` too. A parked launch is resumed when the
poll sees the lock free, with no deadline; one that pauses for another reason, or
whose probe raised, after a sleep. The acknowledgement at the end of an execution
may fail, and then the row keeps naming a process that goes on to other work
(`env.unacked`). `down.seen` are the requests in the table at the teardown's
latest query. `Faults` names the failures; a behaviour has at most one, so that
the instance stays small; the shutdown of the server counts as one. Storing an
outcome does not fail.

**LaunchRequest.** `ctl` is the coroutine (`slot`, `submitting`, `attached`,
`parked`, `checking`, `cleanup`, `cancelling`, `raised`, `started`, `ended`),
`req` the statuses a client can see, with `SENT` for a POST on its way, `stream`
the log stream that is kept across a park, `cluster` the request that entered the
cluster in the cluster table. `given` records for each request why nobody follows
it any more, if so. The code lets go of a request that may go on in seven ways:

| `given` | What happened |
|---|---|
| `answer` | the POST timed out or its answer was lost (`client/sdk.py:1116`; nothing tells a retry from a new launch) |
| `stream` | the stream of the followed request broke: its error is taken for the request's (the comment at `recovery_strategy.py:1169` warns of exactly this for a carried stream) |
| `reattach` | the carried stream broke, and the question what became of the request failed as well (`recovery_strategy.py:1181-1209`) |
| `missing` | the server did not know the parked request for too long, and the cancellation sent for that case did not arrive |
| `crash` | the controller died |
| `call` | the job was cancelled inside `sdk.launch`: there is no id to cancel |
| `cancel` | the job was cancelled and the cancellation of the request did not arrive |

The first five are `LostSight`, the last two `LeftByCancel`; the properties say
that there are no others, and what each of them may lead to. `terminate_cluster`
is taken to succeed within its six tries, and finds nothing to do before the
request has entered the cluster.

**SkyletJobs.** `submit` is the column of that name with its codes 0, -1, -2
and a time. `step` is each caller's walk through `schedule_step`; the lock of a
job is held between `Launch` and `Launched`, where a process exists that the row
does not name. `old` marks rows from before a boot. `cancel_jobs` interrupts the
driver with SIGTERM and goes on without waiting: the driver is `stopping`, perhaps
in the middle of its own `schedule_step` with a job's lock, until it is gone
(`Stops`; on Slurm its handler first cancels the job's steps). Placement and the run are
one waiting and one running place; resources are granted in any order.

Bounds: `Procs` (controller incarnations; a crash needs another one left),
`MaxRestarts`, `MayCancel`, `MayStray`, `MaxEmergency`
(`EMERGENCY_RECOVERY_MAX_ATTEMPTS`), `LaunchLimit` (the user's setting), `MaxLaunches`
in `LaunchSlots`; `PoolProcs`, `BurstProcs` in `Requests`; `Ids` in
`LaunchRequest`, whose run has two polls where the code allows three missing
answers (`MaxMissing`) and eight errors (`MaxErrors`); `MaxProcs`, `MaxFaults` in
`SkyletJobs`.

## 4. Runs

| Run | Instance | Checks |
|---|---|---|
| `chain` | one job of two tasks, three incarnations, one restart, pool of one, launches of the last task left behind | `TypeOK`, `OneController`, `TransitionsNeverRefused`, `ChainOrder`, `DoneIsClean`, `SweepHitsOrphansOnly`, `DoneIsFinal`, `EndedStaysEnded`, `NoLaunchAfterCancel` |
| `deps` | two one-task jobs, the later one depending on the first and preferred, two controllers at once, cancels of the first, one user at a launch limit of one | `DependenciesHeld`, `OneController` |
| `settle` | two tasks (one without run commands), two incarnations, one restart, recovery may raise, fairness | `CancelTakesEffect`, `OrphansSettled` |
| `slots` | four jobs, two slots, two jobs allowed, two launches each, fairness | `SlotBound`, `RunningBound`, `FreeSlotWakesSomeone`, `NoneStuckSleeping` |
| `requests` | a launch and a gated, retryable exec, a pool of one with two incarnations, one burst process, a teardown, one failure | `TypeOK`, `TeardownExclusive`, `PidNamesWorker`, `RunningIsHeld`, `InterruptedWasCancelled`, `OutcomeStands` |
| `requests_live` | two launches and a teardown, one process, an acknowledgement may fail, fairness | `QueuedGetsRun`, `CancelAcknowledged` |
| `launch` | three request ids, all faults, fairness | `TypeOK`, `NoDoubleLaunch`, `NothingOutlivesJob`, `HealthyLaunchKept`, `CancelEnds` |
| `updates` | eleven calls, the code's five attempts, fairness | `TypeOK`, `KeepsPromise`, `CallReturns` |
| `skylet` | two jobs, four processes, one fault, fairness | `TypeOK`, `RunsOnce`, `DriverIsNamed`, `EndedIsOver`, `TerminalStands`, `QueueMoves` |

Why the bounds are enough. Two tasks show a chain's order and a task that is
skipped on resume; a launch of the last task that is left behind can outlive the
cleanup and DONE, and several coroutines can leave one; three incarnations let a recovered job lose its controller
again; one restart lets recovery, sweep and cancel request meet; a job and one
dependency show every guard of the claim. Two slots and four jobs give two
holders, one of them still loading while the job limit is counted (`RunningBound`
is reached at one job above the limit), a sleeper that is cancelled and one that
is forgotten. Two
requests are what one process can be reused for, and what can contend for the
lock besides the teardown; the second incarnation shows a pool that breaks and
comes back, the burst process the other kind of executor. Three request ids let
a launch of a dead controller, one that was given up and a fresh one exist
together. Two jobs show a queue
with a head, and four processes let either job be launched again after a death.

Symmetry of incarnations is sound since pids are only compared for equality; it
is not used where a liveness property is checked. There, an
`ACTION_CONSTRAINT` does its work: `InOrder`, `ClaimInOrder` and `IdsInOrder` take
interchangeable processes, jobs or request ids in a fixed order. Every behaviour is one of
these with the names exchanged, and the properties do not mention names.
Deadlock is not checked because these systems really stop when everything is
done; `updates` goes on for ever and is checked for deadlock.

`TransitionsNeverRefused` is checked for tasks with run commands (see below).
`TeardownExclusive`, `InterruptedWasCancelled` and `OutcomeStands` except the
processes that outlive their broken pool: their requests are marked FAILED while
they still work, and a teardown does not wait for a FAILED request. The run has a
pool of one process, where there are none; the proofs are for pools of any size.
`TeardownExclusive` also excepts an exec that was submitted after the teardown's
second query: it takes no lock, and nothing keeps it from working on the cluster
while that is torn down. `InterruptedWasCancelled` relies on the one failure per
behaviour: a failed acknowledgement leaves a row that names a reused process, and
a later shutdown of the server would signal that process.

`DoneIsClean`, `DoneIsFinal` and `NoLaunchAfterCancel` make no promise about a
launch request that was left behind before; they say that nothing else brings up
a cluster, and that none is left behind any more. `QueuedGetsRun` promises a parked
request its turn only if the lock stays free in the end. `CancelAcknowledged`
excepts the processes that died and the acknowledgement that failed: a teardown
then times out. `EndedIsOver` allows the driver of a CANCELLED job at its signal
handler, since nobody waits for it and the next job may start meanwhile.

### Disagreements between code and comments

Each of these runs ends with a counterexample to what a comment says.

| Run | Property | What happens |
|---|---|---|
| `stranded` | `EndedJobsAreOwned` | a PENDING job with a cancel file is CANCELLED on its claim and never becomes DONE |
| `leaked_slot` | `SlotsReturned` | an error of `run_job_loop`'s first read leaks the slot |
| `revived` | `CancelIsTerminal` | the monitor thread that parks a request overwrites a cancellation that came after the process had let go of the request; the request is resumed and runs |

Found while modelling, without a run of their own:

- A recovery that raises removes the signal file
  (`managed_job_refresh_thread.py:146`), although the comment at line 122 says
  that it stays until recovery completes: with `RecoveryFails = TRUE` a sweep can
  fail a job under the controller that the retried recovery gave it to.
- A task without run commands cannot be resumed: `set_started_async` refuses
  RUNNING (`controller.py:1059`).
- After a crash during a parked launch, a cancel met on the next claim writes
  CANCELLED while a part of the cluster exists (`controller.py:4700`;
  `state.py:919` says it has been cleaned up).
- Before Python 3.13 a cancelled waiter of `asyncio.Condition` swallows a
  notification: with `Renotify = FALSE` a job sleeps for ever beside a free slot.
- `cloud_vm_ray_backend.py:3783` says that a restarted controller re-attaches to
  an in-flight launch request; it submits a new one, and the two overlap until
  the cluster lock sorts them out.
- A request whose burst process dies reads RUNNING for ever; one whose pool
  breaks is FAILED before it is queued again, and the retry is skipped because
  FAILED is not executable; a request that had finished is overwritten when the
  pool breaks or the server shuts down.
- A job cancelled inside `sdk.launch` has no request id to cancel: the request
  may arrive after the cleanup and bring up a cluster that only autodown removes.
  A POST whose answer is lost is submitted again, since nothing identifies it.
- A stream that breaks while its request is followed, or a re-attachment at a
  moment when the server cannot answer, tears down a launch that goes on.
- `set_pending_cancelled` says that the rows inserted after the cancel of an
  INACTIVE job "stay PENDING for the claiming controller to run"
  (`state.py:1598-1601`). The controller does not run them: a task that has ended
  without success ends the chain (`controller.py:1038-1045`), and the later rows
  are CANCELLED. `NoLaunchAfterCancel` is checked with exactly these interleavings.
- An exec submitted during a teardown works beside it (see `TeardownExclusive`
  above).
- `_cleanup` says "At most one cluster should be left when reaching here"; after
  a crash between SUCCEEDED and the teardown there can be two. The cleanup goes
  over all tasks, and `DoneIsClean` holds.
- `LAUNCHES_PER_WORKER` can be exceeded by one, since `monitor_loop` counts before
  it awaits the claim; `SlotBound` is proved for exactly that.

### Fairness

`ManagedJobs`: weak fairness to what the code repeats or has already begun (the
daemon's recovery, sweeps and requests being served, the start of controllers,
the monitor and cancel loops, every step a coroutine can take by itself), strong
fairness to the tick, which comes round every few seconds but may find the job
between two states. Nothing is assumed of users, launches, programs, clouds or
crashes: `CancelTakesEffect` holds for a job that would run for ever. The death
of the job's controller releases it, since one that dies between removing the
cancel file and writing CANCELLING forgets the cancel.
`LaunchSlots` adds that a launch ends, because its request does.

`Requests`: the dispatcher polls for ever, monitor threads and executor
processes go on, a cloud call returns one way or another; strong fairness to the
start of a pooled request, since the pool's queue is FIFO and its process
becomes idle again and again. A parked request's poll is sure to see the lock free
only if it stays free. Nothing is assumed of clients or the teardown, which may
hang with the lock.

`LaunchRequest`: only that a cancellation is delivered and its handler goes on.
`RetriedUpdate`: a statement ends or times out. `SkyletJobs`: skylet's events
come round, a `schedule_step` and a driver go on, a signalled one ends, resources are granted and
programs end (in a FIFO queue a job waits for the one before it).

## 5. Proofs

All proofs are for arbitrary constants that satisfy the named assumptions.

- `TypeCorrect`: `Spec => []TypeOK` of `ManagedJobs`. It needs only one addition
  to be inductive, that a sweep at work has a job (`SweepHasJob`); the proof has
  a step per action, over lemmas on what the UPDATEs and `Resume` return.
- `OneControllerHolds`, `SweepHitsOrphansOnlyHolds`: from
  `Spec /\ ~RecoveryFails`. Neither is inductive alone. `OwnInv` adds that a
  process is never at once between claim and start of a job and in its coroutine
  (`ClaimOrCoroutine`), that a recorded controller was started
  (`OwnersWereBorn`), that a WAITING job is recorded with no controller
  (`UnclaimedUnowned`), that recovery's snapshot names dead processes only
  (`SnapNamesTheDead`: processes do not come back), that a sweep at work implies
  that recovery is over and its job claimed or DONE, still recorded with the
  process it read until it decides (`SweepHoldsClaim`), and that the gate has not
  been opened by a failed recovery (`GateHolds`). The argument: a job changes
  hands only through WAITING; it gets there only by the reset, which happens with
  the gate closed and after every earlier sweep ended with the server it ran in.
  Hence a sweep that decided never sees its job claimed anew. The hypothesis
  cannot be dropped for the sweep. Most actions are steps of one coroutine that
  change neither owner nor claim; `CoroutineFramed` says so once for all.
- `TransitionsHold`, `ChainOrderHolds`, `DoneIsCleanHolds`,
  `DependenciesHeldHolds`, `DoneIsFinalHolds`, `NoLaunchAfterCancelHolds`: from
  `Spec /\ ~RecoveryFails`, for chains of any length, any dependency relation and
  any set of tasks without run commands. `JobInv` adds to `OwnInv` three facts.
  `JobsFit`: rows are inserted in order, the tasks after an ongoing one are
  untouched, what began comes after successes, a DONE job is clean, submitted_at
  comes before the cluster and before a launch request that is left behind
  (`JobFits`), and wherever a coroutine is, the rows of
  its job are what the code takes for granted there (`CoFits`: for instance that
  a retried launch finds its task PENDING, one that is kept STARTING finds it
  STARTING or RECOVERING, and every earlier task has succeeded). `SweepFits`: a
  job that a sweep has failed, or that became DONE under a second sweep, reads
  FAILED_CONTROLLER throughout, so the second sweep changes nothing. `DepsFit`:
  the dependencies of a claimed job are DONE, and have succeeded once its
  coroutine is past the top of `run`'s loop. The ownership theorems carry the
  proof: only one coroutine works on a job, and none where a sweep, recovery or a
  cancelled claim writes. `OneJobKept` and `AllStayKept` say what is left to show
  of a step that is no coroutine's.
- `EndedStaysEndedHolds`: `Spec => EndedStaysEnded`, from the types alone; every
  UPDATE that is not the overriding one asks for rows that have not ended.
- `SlotBoundHolds`: `Spec => []SlotBound` of `LaunchSlots`. The bound is not
  inductive, since `start_job` adds a job without looking. `SlotInv` adds that the
  slots are within the limit while the monitor loop waits for a claim: it found a
  free slot before, and everyone else only takes free ones.
- `RunningBoundHolds` and `NoWakeupIsLost` rest on `AdmissionInv`: the
  condition's queue holds exactly the sleepers, each once, none with a slot
  (`PlaceInv`); a loading job holds a slot and a claim under way was admitted with
  one job and one slot to spare (`CountInv`); and, with `Renotify`, while anybody
  sleeps the slots taken and the jobs notified together are at least the limit
  (`WakeInv`). The last is the argument against the lost wakeup: whoever gives a
  slot back notifies one sleeper, whoever is woken takes the slot or finds it
  taken, and a cancelled waiter passes its notification on. `Renotify` is a
  hypothesis of `NoWakeupIsLost`; before Python 3.13 it is false and so is the
  theorem. `QueueMove`, `QueueAppend` and `QueueWithout` say what the operations
  on the queue do to its set of elements.
- `BudgetHolds`: `Spec => []TypeOK` of `RetriedUpdate`, which contains the bound
  on attempts.
- `RetriesKeepPromise`: `Spec` of `RetriedUpdate` implies `GuardedUpdate`'s, with
  the caller's view of a call as refinement mapping (`Fate`: open, applied, or
  ended). The invariant behind it says that a row this call has moved is not again
  under its guard except as its own target (`MovedOnce`), that a retry after a
  durable commit knows that an earlier attempt matched (`LandedIsKnown`), that what
  the UPDATE found still holds when it is acted on (`GuardStands`: by the row
  lock, or because others do not move rows under a guard), and that nothing is
  accumulated before a commit (`NothingBeforeLanding`). `Land` is the abstract
  `Apply` the first time and a stutter afterwards; the second look at the row is
  `Done` or `Refuse`; everything else stutters or raises.

- `LaunchTypeOK`, `OneLaunchAtATime`, `NoOrphanedLaunch`, `HealthyLaunchSurvives`
  of `LaunchRequest` follow from `LaunchInv`: besides the types, the id the
  coroutine remembers fits the place it is at (`IdsFitPlace`), every launch that
  goes on and was not given up is the one it remembers (`GoingIsNamed`), a request
  that was not sent has no history (`UnsentIsNew`), only the one being submitted
  is under way (`FollowedArrived`), what a cancelled job left finds the coroutine
  on its way out (`LeftoversAreLast`), and the cluster of an ended job came from a
  launch that was given up (`ClusterAccounted`). With at most one name there is
  at most one launch, and the places where a job ends or cleans up remember none.
- `SkyletTypeOK`, `ProgramRunsOnce`, `DriverIsTheNamedOne`, `EndedJobsAreOver`,
  `TerminalStatusStands` of `SkyletJobs` follow from `SkyletInv`. Its core is that
  a process at work is the one its row names, with the status it wrote and a
  submit code under which nobody is launched (`WorkIsRecorded`), and that a
  program which ran belongs to a row past the claim (`RanIsPastClaim`); around it,
  the lock of a job has one holder (`LockedOnce`) and its row is still queued
  (`LockedIsQueued`), a job not yet queued has left no trace (`FreshIsClean`), only
  rows of this boot have live processes (`AliveIsRecent`) and a reboot leaves none
  (`RestartIsQuiet`). `EndedJobsAreOver` needs more, since a signalled driver lives
  on while its job might be queued again: a row, and a scheduler that holds a job's
  lock, name processes of that job (`NamesAreOwn`), a signalled driver's row is
  terminal and keeps a pid (`StoppingIsOver`), and only a row without one waits for
  its first launch (`QueuedIsUnnamed`), so that job is not revived.
- `RequestsTypeOK`, `PidIsAcknowledgement`, `NoRequestIsLost`,
  `SignalsHitTheirTarget`, `TeardownIsAlone`, `OutcomesStand` of `Requests` follow
  from `RequestsInv`, which has two halves. `ExecutorInv`: a request is in one
  place, with its submitter, in the queue, or with one monitor thread that waits
  for one process (`OnePlace`, `BusyHasRequest`, `SubmittedStatus`,
  `RetryIsLetGo`); a pid names a process that holds the request or died over it
  (`PidIsHolder`); a request somebody works for is not executable, so that nobody
  else begins it (`WorkedIsTaken`); one that reads RUNNING is worked for
  (`RunningIsAtWork`); a process that outlived its pool holds a request that
  failed or is about to (`LostIsOver`); a request whose acknowledgement failed has
  ended for good (`UnackedIsOver`); and execs are never parked (`ExecNeverPauses`).
  `DownInv`: in its second round the teardown has the lock, no launch can enter the
  provisioner any more, whoever is still inside, or in a stage without the lock, is
  on one of its lists (`SecondRound`, `InsideIsListed`), and an exec that its query
  found starts only while it has yet to be killed (`ExecIsListed`). So when its lists are empty it is alone. The exceptions of
  `OutcomesStand` are the writes this invariant cannot rule out.

Only model-checked: all liveness (fairness is outside the prover's reach:
`NoneStuckSleeping`, `CancelTakesEffect`, `OrphansSettled`, `QueuedGetsRun`,
`CancelAcknowledged`, `CancelEnds`, `CallReturns`, `QueueMoves`). Every safety
property that a passing run checks has a theorem.
