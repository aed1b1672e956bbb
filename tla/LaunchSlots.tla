---------------------------- MODULE LaunchSlots ----------------------------
(***************************************************************************)
(* Admission and launch slots of one controller process: the `starting`    *)
(* set that ControllerManager shares with its jobs, monitor_loop's limits, *)
(* scheduled_launch and the asyncio.Condition its waiters sleep on.        *)
(*                                                                         *)
(* The lock of the condition is never held over a suspension point and so  *)
(* never contended: a block under it is one step.  The jobs are neither    *)
(* pool jobs nor job groups, which scheduled_launch lets through.          *)
(***************************************************************************)
EXTENDS Integers, Sequences, FiniteSets

CONSTANTS
    Jobs,
    LaunchesPerWorker,  \* LAUNCHES_PER_WORKER
    MaxJobs,            \* monitor_loop's max_jobs
    MaxLaunches,        \* bound on the launches of one job
    Renotify,           \* a cancelled waiter passes its wakeup on, which
                        \* asyncio.Condition does from Python 3.13
    EnvReadFails        \* the first read of run_job_loop may raise

ASSUME SlotsAssumption ==
    /\ IsFiniteSet(Jobs)
    /\ LaunchesPerWorker \in Nat \ {0}
    /\ MaxJobs \in Nat \ {0}
    /\ MaxLaunches \in Nat \ {0}
    /\ Renotify \in BOOLEAN
    /\ EnvReadFails \in BOOLEAN

VARIABLES
    starting,   \* ControllerManager.starting
    waiters,    \* the condition's waiters that have not been notified
    claiming,   \* monitor_loop is inside get_waiting_job_async
    pc,         \* where each job's coroutine is: "waiting" to be claimed, at
                \* "env", at "load", in InRun, at "finalize", or "ended"
    launches    \* how often each job has tried to launch

vars == <<starting, waiters, claiming, pc, launches>>

(* In job_tasks and not done: what monitor_loop counts as running. *)
InRun == {"body", "asleep", "woken", "entering", "launching", "error"}

Running == {j \in Jobs : pc[j] \in InRun}

Loading == {j \in Jobs : pc[j] \in {"env", "load"}}

Init ==
    /\ starting = {}
    /\ waiters = <<>>
    /\ claiming = FALSE
    /\ pc = [j \in Jobs |-> "waiting"]
    /\ launches = [j \in Jobs |-> 0]

-----------------------------------------------------------------------------
(* asyncio.Condition.notify(1): the first waiter, if any, will run again.  *)

Notify(queue, where) ==
    \/ queue = <<>> /\ pc' = where /\ waiters' = queue
    \/ queue # <<>> /\ pc' = [where EXCEPT ![Head(queue)] = "woken"]
                    /\ waiters' = Tail(queue)

Goto(j, place) == [pc EXCEPT ![j] = place]

(* Faulty variant: a slot is given back without waking anybody. *)
GiveBackSilently(j, place) ==
    /\ starting' = starting \ {j}
    /\ pc' = Goto(j, place)
    /\ UNCHANGED waiters

(* A slot is given back and one sleeper is told. *)
GiveBack(j, place) ==
    /\ starting' = starting \ {j}
    /\ Notify(waiters, Goto(j, place))

-----------------------------------------------------------------------------
(* monitor_loop.                                                           *)

(* Faulty variant: the number of reserved slots is not looked at. *)
MonitorCheckRunning ==
    /\ ~claiming
    /\ Cardinality(Running) < MaxJobs
    /\ claiming' = TRUE
    /\ UNCHANGED <<starting, waiters, pc, launches>>

(* Faulty variant: the number of running jobs is not looked at. *)
MonitorCheckStarting ==
    /\ ~claiming
    /\ Cardinality(starting) < LaunchesPerWorker
    /\ claiming' = TRUE
    /\ UNCHANGED <<starting, waiters, pc, launches>>

MonitorCheck ==
    /\ ~claiming
    /\ Cardinality(starting) < LaunchesPerWorker
    /\ Cardinality(Running) < MaxJobs
    /\ claiming' = TRUE
    /\ UNCHANGED <<starting, waiters, pc, launches>>

(* get_waiting_job_async finds nothing, or raises. *)
NothingClaimed ==
    /\ claiming
    /\ claiming' = FALSE
    /\ UNCHANGED <<starting, waiters, pc, launches>>

(* The claimed job has a cancel file and is PENDING: it is not started. *)
CancelledOnClaim(j) ==
    /\ claiming
    /\ pc[j] = "waiting"
    /\ claiming' = FALSE
    /\ pc' = Goto(j, "ended")
    /\ UNCHANGED <<starting, waiters, launches>>

StartJob(j) ==
    /\ claiming
    /\ pc[j] = "waiting"
    /\ claiming' = FALSE
    /\ starting' = starting \cup {j}
    /\ pc' = Goto(j, "env")
    /\ UNCHANGED <<waiters, launches>>

-----------------------------------------------------------------------------
(* run_job_loop.                                                           *)

LoadEnv(j) ==
    /\ pc[j] = "env"
    /\ pc' = Goto(j, "load")
    /\ UNCHANGED <<starting, waiters, claiming, launches>>

(* The environment is read outside the try block: an error ends the        *)
(* coroutine on the spot.                                                  *)
LoadEnvFails(j) ==
    /\ EnvReadFails
    /\ pc[j] = "env"
    /\ pc' = Goto(j, "ended")
    /\ UNCHANGED <<starting, waiters, claiming, launches>>

(* load_dag, and the task is in job_tasks; or load_dag raises. *)
LoadDag(j) ==
    /\ pc[j] = "load"
    /\ \E next \in {"body", "finalize"} : pc' = Goto(j, next)
    /\ UNCHANGED <<starting, waiters, claiming, launches>>

(* The end of run_job_loop's finally clause. *)
Finalize(j) ==
    /\ pc[j] = "finalize"
    /\ \/ j \in starting /\ GiveBack(j, "ended")
       \/ j \notin starting /\ pc' = Goto(j, "ended") /\ UNCHANGED <<starting, waiters>>
    /\ UNCHANGED <<claiming, launches>>

-----------------------------------------------------------------------------
(* JobController.run and scheduled_launch.                                 *)

(* The loop of scheduled_launch: take a slot, or sleep. *)
Acquire(j) ==
    \/ /\ j \in starting \/ Cardinality(starting) < LaunchesPerWorker
       /\ starting' = starting \cup {j}
       /\ launches' = [launches EXCEPT ![j] = @ + 1]
       /\ pc' = Goto(j, "entering")
       /\ UNCHANGED waiters
    \/ /\ j \notin starting /\ Cardinality(starting) >= LaunchesPerWorker
       /\ waiters' = Append(waiters, j)
       /\ pc' = Goto(j, "asleep")
       /\ UNCHANGED <<starting, launches>>

EnterLaunch(j) ==
    /\ pc[j] = "body"
    /\ launches[j] < MaxLaunches
    /\ Acquire(j)
    /\ UNCHANGED claiming

WakeUp(j) ==
    /\ pc[j] = "woken"
    /\ Acquire(j)
    /\ UNCHANGED claiming

(* scheduler_set_launching_async, which is awaited outside the try block of *)
(* scheduled_launch: an error leaves the slot taken.                        *)
SetLaunching(j) ==
    /\ pc[j] = "entering"
    /\ \E next \in {"launching", "error"} : pc' = Goto(j, next)
    /\ UNCHANGED <<starting, waiters, claiming, launches>>

(* The launch succeeds, fails or parks; or an error escapes. *)
LaunchEnds(j) ==
    /\ pc[j] = "launching"
    /\ \E next \in {"body", "error"} : GiveBack(j, next)
    /\ UNCHANGED <<claiming, launches>>

(* _run_one_task resumes a task that need not be launched: the reserved     *)
(* slot goes back.                                                          *)
PassFirstLaunch(j) ==
    /\ pc[j] = "body"
    /\ j \in starting
    /\ GiveBack(j, "body")
    /\ UNCHANGED <<claiming, launches>>

(* An unexpected error in run's loop body. *)
BodyFails(j) ==
    /\ pc[j] = "body"
    /\ pc' = Goto(j, "error")
    /\ UNCHANGED <<starting, waiters, claiming, launches>>

(* _release_launch_slot, before the emergency backoff. *)
ReleaseLaunchSlot(j) ==
    /\ pc[j] = "error"
    /\ GiveBack(j, "body")
    /\ UNCHANGED <<claiming, launches>>

RunEnds(j) ==
    /\ pc[j] = "body"
    /\ pc' = Goto(j, "finalize")
    /\ UNCHANGED <<starting, waiters, claiming, launches>>

(* The queue without job j, which is in it until it is notified. *)
Without(queue, j) ==
    IF \E i \in 1..Len(queue) : queue[i] = j
      THEN LET at == CHOOSE i \in 1..Len(queue) : queue[i] = j
           IN  [k \in 1..(Len(queue) - 1) |-> queue[IF k < at THEN k ELSE k + 1]]
      ELSE queue

(* Condition.wait is interrupted, before or after a notification. *)
CancelWaiter(j) ==
    LET others == Without(waiters, j) IN
    /\ \/ Renotify /\ Notify(others, Goto(j, "finalize"))
       \/ ~Renotify /\ waiters' = others /\ pc' = Goto(j, "finalize")
    /\ UNCHANGED starting

(* cancel_job: the run is cancelled where it is suspended.  Inside          *)
(* scheduled_launch its finally clause gives the slot back; in wait() the   *)
(* waiter is gone.                                                          *)
CancelJob(j) ==
    /\ pc[j] \in InRun
    /\ CASE pc[j] = "launching" -> GiveBack(j, "finalize")
         [] pc[j] \in {"asleep", "woken"} -> CancelWaiter(j)
         [] OTHER -> pc' = Goto(j, "finalize") /\ UNCHANGED <<starting, waiters>>
    /\ UNCHANGED <<claiming, launches>>

-----------------------------------------------------------------------------
(* The steps a coroutine owes, once the cloud has answered it. *)
JobStep(j) ==
    \/ LoadEnv(j)
    \/ LoadDag(j)
    \/ WakeUp(j)
    \/ SetLaunching(j)
    \/ LaunchEnds(j)
    \/ ReleaseLaunchSlot(j)
    \/ Finalize(j)

(* What a job that holds the slot start_job reserved for it does next. *)
FirstStep(j) == j \in starting /\ (EnterLaunch(j) \/ PassFirstLaunch(j) \/ RunEnds(j))

Next ==
    \/ MonitorCheck
    \/ NothingClaimed
    \/ \E j \in Jobs :
          \/ CancelledOnClaim(j)
          \/ StartJob(j)
          \/ LoadEnvFails(j)
          \/ JobStep(j)
          \/ EnterLaunch(j)
          \/ PassFirstLaunch(j)
          \/ BodyFails(j)
          \/ RunEnds(j)
          \/ CancelJob(j)

Spec == Init /\ [][Next]_vars

(***************************************************************************)
(* Fairness: the event loop resumes what can run, and a launch ends, as    *)
(* its request on the API server does.  Nothing obliges a monitored job to *)
(* end, to fail or to be cancelled, nor new jobs to arrive.                *)
(***************************************************************************)
FairSpec ==
    /\ Spec
    /\ \A j \in Jobs : WF_vars(JobStep(j)) /\ WF_vars(FirstStep(j))

-----------------------------------------------------------------------------
(* Properties.                                                             *)

(* controller_utils.py calls LAUNCHES_PER_WORKER the number of launches     *)
(* allowed per worker.  The reserved slots can exceed it, but never by more *)
(* than the one job that monitor_loop admits on a count it read before it   *)
(* waited for the claim.                                                    *)
SlotBound == Cardinality(starting) <= LaunchesPerWorker + 1

(* monitor_loop counts the jobs in job_tasks and not those still loading,   *)
(* so that max_jobs can be exceeded, but only by the slots less one.        *)
RunningBound ==
    Cardinality(Running \cup Loading) <= MaxJobs + LaunchesPerWorker - 1

(* A job that is over holds no slot: run_job_loop's finally clause takes it *)
(* out "just in case we were cancelled or some other error occurred during  *)
(* launch".                                                                 *)
SlotsReturned == \A j \in starting : pc[j] \notin {"waiting", "ended"}

(* No wakeup is lost: while a job sleeps beside a free slot, some job has   *)
(* been notified and will look at the slots, whatever was cancelled, failed *)
(* or took the slot first in between.                                       *)
FreeSlotWakesSomeone ==
    /\ \E j \in Jobs : pc[j] = "asleep"
    /\ Cardinality(starting) < LaunchesPerWorker
    => \E j \in Jobs : pc[j] = "woken"

(* Whoever sleeps until a slot is free gets one, or stops waiting: "better  *)
(* to wake someone up and have them go to sleep again, then have some stuck *)
(* sleeping".  Only a slot that a job which is over still holds, the fault  *)
(* of run leaked_slot, can keep it waiting.                                 *)
NoneStuckSleeping ==
    \A j \in Jobs :
        pc[j] \in {"asleep", "woken"}
            ~> (pc[j] \notin {"asleep", "woken"} \/ ~SlotsReturned)
=============================================================================
