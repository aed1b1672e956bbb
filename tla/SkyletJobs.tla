----------------------------- MODULE SkyletJobs -----------------------------
(***************************************************************************)
(* The job queue of a cluster (sky/skylet/job_lib.py): the tables jobs and *)
(* pending_jobs, the FIFO schedule_step that the skylet, a request and     *)
(* every job driver run concurrently, the claimant processes it launches,  *)
(* the driver program that sets the job's statuses                         *)
(* (sky/backends/task_codegen.py), cancellation, and update_job_status,    *)
(* which settles jobs whose driver is gone.                                *)
(*                                                                         *)
(* A section under a job's file lock is one step, except the launch of     *)
(* _run_job: there the process exists before the row names it, and         *)
(* whoever launches may die in between. A process is named by its pid; the *)
(* marker in its command line keeps a reused pid apart, so pids are fresh. *)
(***************************************************************************)
EXTENDS Integers, FiniteSets

CONSTANTS
    MaxJobs,    \* jobs are 1 .. MaxJobs, in the order of AddJob
    MaxProcs,   \* bound: processes that schedule_step may launch
    MaxFaults   \* bound: deaths of a driver or a scheduler, and reboots

ASSUME SkyletAssumption ==
    /\ MaxJobs \in Nat \ {0}
    /\ MaxProcs \in Nat \ {0}
    /\ MaxFaults \in Nat

Jobs == 1 .. MaxJobs
Procs == 1 .. MaxProcs

(* No process, and the two that run schedule_step besides the drivers. *)
NoProc == 0
Skylet == -1
Request == -2
Actors == Procs \cup {Skylet, Request}
NoJob == 0

VARIABLES
    status,  \* jobs.status, or "none"
    pid,     \* jobs.pid
    submit,  \* pending_jobs.submit: "none" without a row, "queued" (0),
             \* "launched" (-1), "claimed" (-2), "started" (a time)
    old,     \* the row was written before the last boot
    proc,    \* each process: its job and where its program is
    step,    \* each actor's schedule_step: the jobs left to look at, and
             \* the job it has launched a child for and still holds locked
    boot,    \* "up", or "restarting" until fail_all_jobs_in_progress ran
    faults,  \* faults left
    ran      \* history: how often the job's driver program was started

rows == <<status, pid, submit, old>>
vars == <<status, pid, submit, old, proc, step, boot, faults, ran>>

(* JobStatus, in the order that max() of update_job_status goes by. *)
Order ==
    <<"INIT", "PENDING", "SETTING_UP", "RUNNING", "FAILED_DRIVER",
      "SUCCEEDED", "FAILED", "FAILED_SETUP", "CANCELLED">>
Nonterminal == {"INIT", "PENDING", "SETTING_UP", "RUNNING"}
Terminal == {"FAILED_DRIVER", "SUCCEEDED", "FAILED", "FAILED_SETUP", "CANCELLED"}

Later(a, b) ==
    LET Rank(s) == CHOOSE i \in DOMAIN Order : Order[i] = s
    IN  IF Rank(a) < Rank(b) THEN b ELSE a

Idle == [todo |-> {}, job |-> NoJob, child |-> NoProc]

Init ==
    /\ status = [j \in Jobs |-> "none"]
    /\ pid = [j \in Jobs |-> NoProc]
    /\ submit = [j \in Jobs |-> "none"]
    /\ old = [j \in Jobs |-> FALSE]
    /\ proc = [p \in Procs |-> [job |-> NoJob, pc |-> "unborn"]]
    /\ step = [a \in Actors |-> Idle]
    /\ boot = "up"
    /\ faults = MaxFaults
    /\ ran = [j \in Jobs |-> 0]

Alive(p) == p \in Procs /\ proc[p].pc \notin {"unborn", "dead"}

(* The file lock of job j is free. *)
Free(j) == \A a \in Actors : step[a].job # j

(* _set_status_no_lock: only FAILED_SETUP looks at end_at. *)
SetStatus(j, st) ==
    IF st = "FAILED_SETUP" /\ status[j] \in Terminal
      THEN status
      ELSE [status EXCEPT ![j] = st]

Queued == {j \in Jobs : submit[j] # "none"}

-----------------------------------------------------------------------------
(* schedule_step.                                                          *)

(* _get_pending_job_ids; an actor runs one schedule_step at a time. *)
Begin(a, table) ==
    step' = [step EXCEPT ![a].todo = {j \in Jobs : table[j] # "none"}]

(* JobSchedulerEvent. *)
Tick ==
    /\ step[Skylet] = Idle
    /\ Queued # {}
    /\ Begin(Skylet, submit)
    /\ UNCHANGED <<rows, proc, boot, faults, ran>>

Looks(a, j) ==
    /\ step[a].job = NoJob
    /\ j \in step[a].todo
    /\ \A k \in step[a].todo : j <= k
    /\ Free(j)

(* The row is gone, or the job is over, started or from before the boot:   *)
(* drop it and look at the next.                                           *)
PassOver(a, j) ==
    /\ Looks(a, j)
    /\ submit[j] = "none" \/ status[j] # "PENDING" \/ old[j]
    /\ submit' = [submit EXCEPT ![j] = "none"]
    /\ step' = [step EXCEPT ![a].todo = @ \ {j}]
    /\ UNCHANGED <<status, pid, old, proc, boot, faults, ran>>

Waits(j) == submit[j] # "none" /\ status[j] = "PENDING" /\ ~old[j]

(* The first job that waits is launched and waits for resources: return. *)
HoldQueue(a, j) ==
    /\ Looks(a, j)
    /\ Waits(j)
    /\ submit[j] = "started" \/ (submit[j] # "queued" /\ Alive(pid[j]))
    /\ step' = [step EXCEPT ![a] = Idle]
    /\ UNCHANGED <<rows, proc, boot, faults, ran>>

(* Faulty: a job that has been launched is launched again when its process *)
(* is gone, started or not.                                                *)
LaunchableAgain(j) == submit[j] = "queued" \/ ~Alive(pid[j])

(* Faulty: a launch is never repeated. *)
LaunchableOnce(j) == submit[j] = "queued"

(* It has not been launched, or its process died before it started. *)
Launchable(j) ==
    \/ submit[j] = "queued"
    \/ submit[j] \in {"launched", "claimed"} /\ ~Alive(pid[j])

NextPid(p) == proc[p].pc = "unborn" /\ \A q \in Procs : q < p => proc[q].pc # "unborn"

(* _run_job, first half: the claimant process exists, under the job's lock. *)
Launch(a, j, p) ==
    /\ Looks(a, j)
    /\ Waits(j)
    /\ Launchable(j)
    /\ NextPid(p)
    /\ IF submit[j] = "queued"
         THEN UNCHANGED <<submit, pid>>
         ELSE /\ submit' = [submit EXCEPT ![j] = "queued"]
              /\ pid' = [pid EXCEPT ![j] = NoProc]
    /\ proc' = [proc EXCEPT ![p] = [job |-> j, pc |-> "claiming"]]
    /\ step' = [step EXCEPT ![a] = [todo |-> {}, job |-> j, child |-> p]]
    /\ UNCHANGED <<status, old, boot, faults, ran>>

(* Faulty: the row names the process that launches. *)
LaunchedByName(a) ==
    LET j == step[a].job IN
    /\ j # NoJob
    /\ submit' = [submit EXCEPT ![j] = "launched"]
    /\ pid' = [pid EXCEPT ![j] = a]
    /\ step' = [step EXCEPT ![a] = Idle]
    /\ UNCHANGED <<status, old, proc, boot, faults, ran>>

(* _run_job, second half: the row names the claimant; the lock is released. *)
Launched(a) ==
    LET j == step[a].job IN
    /\ j # NoJob
    /\ submit' = [submit EXCEPT ![j] = "launched"]
    /\ pid' = [pid EXCEPT ![j] = step[a].child]
    /\ step' = [step EXCEPT ![a] = Idle]
    /\ UNCHANGED <<status, old, proc, boot, faults, ran>>

ScheduleStep(a) ==
    /\ step[a] # Idle
    /\ a \in Procs => proc[a].pc # "stopping"
    /\ \/ \E j \in Jobs : PassOver(a, j) \/ HoldQueue(a, j)
       \/ \E j \in Jobs, p \in Procs : Launch(a, j, p)
       \/ Launched(a)

-----------------------------------------------------------------------------
(* Requests to the skylet.                                                 *)

(* AddJob reserves the next id. *)
AddJob(j) ==
    /\ boot = "up"
    /\ status[j] = "none"
    /\ \A k \in Jobs : k < j => status[k] # "none"
    /\ status' = [status EXCEPT ![j] = "INIT"]
    /\ UNCHANGED <<pid, submit, old, proc, step, boot, faults, ran>>

(* Faulty: a job whose driver failed is queued again, launched or not. *)
RevivableAlways(j) == status[j] = "FAILED_DRIVER"

(* A reservation that expired before QueueJob came. *)
Revivable(j) ==
    status[j] = "FAILED_DRIVER" /\ pid[j] = NoProc /\ submit[j] = "none"

(* JobScheduler.queue, which a client whose answer was lost sends again.   *)
(* Any other status returns without a schedule_step.                       *)
QueueJob(j) ==
    /\ boot = "up"
    /\ step[Request] = Idle
    /\ Free(j)
    /\ \/ /\ status[j] = "INIT" \/ Revivable(j)
          /\ submit' = [submit EXCEPT ![j] = IF @ = "none" THEN "queued" ELSE @]
          /\ old' = [old EXCEPT ![j] = FALSE]
          /\ status' = SetStatus(j, "PENDING")
       \/ /\ status[j] = "PENDING"
          /\ UNCHANGED <<submit, old, status>>
    /\ Begin(Request, submit')
    /\ UNCHANGED <<pid, proc, boot, faults, ran>>

(* SIGTERM to the driver's process group: the program is interrupted where  *)
(* it is, in its schedule_step with the lock it holds there as well, and its*)
(* handler goes on. A child it has launched is in a session of its own.     *)
Signalled(p) == [proc EXCEPT ![p].pc = "stopping"]

(* Faulty: the driver is left to notice the cancellation by itself. *)
CancelJobOnly(j) ==
    /\ boot = "up"
    /\ step[Request] = Idle
    /\ Free(j)
    /\ status[j] \in Nonterminal
    /\ status' = SetStatus(j, "CANCELLED")
    /\ Begin(Request, submit)
    /\ UNCHANGED <<pid, submit, old, proc, boot, faults, ran>>

(* cancel_jobs for one job, then its schedule_step. Nobody waits for the   *)
(* driver. That of a job that has just ended is signalled as well.         *)
CancelJob(j) ==
    /\ boot = "up"
    /\ step[Request] = Idle
    /\ Free(j)
    /\ status[j] # "none"
    /\ proc' = IF Alive(pid[j]) THEN Signalled(pid[j]) ELSE proc
    /\ status' = IF status[j] \in Nonterminal THEN SetStatus(j, "CANCELLED") ELSE status
    /\ Begin(Request, submit)
    /\ UNCHANGED <<pid, submit, old, boot, faults, ran>>

-----------------------------------------------------------------------------
(* update_job_status, called by the skylet's event, by the UpdateStatus    *)
(* request and by log tailing.                                             *)

(* What the process table and the queue say of a job that is past INIT. *)
Settled(j) ==
    IF submit[j] # "none" /\ old[j] THEN "FAILED_DRIVER"
    ELSE IF submit[j] \in {"queued", "launched", "claimed"} THEN "PENDING"
    ELSE IF pid[j] # NoProc /\ Alive(pid[j]) THEN "PENDING"
    ELSE "FAILED_DRIVER"

UpdateJobStatus(j) ==
    /\ Free(j)
    /\ status[j] \in Nonterminal \ {"INIT"}
    /\ status' = [status EXCEPT ![j] = Later(@, Settled(j))]
    /\ UNCHANGED <<pid, submit, old, proc, step, boot, faults, ran>>

(* An INIT job older than the grace period or the boot: the submission is  *)
(* taken for dead.                                                         *)
ExpireInit(j) ==
    /\ Free(j)
    /\ status[j] = "INIT"
    /\ status' = SetStatus(j, "FAILED_DRIVER")
    /\ UNCHANGED <<pid, submit, old, proc, step, boot, faults, ran>>

-----------------------------------------------------------------------------
(* The claimant and the driver program it becomes.                         *)

Goto(p, place) == proc' = [proc EXCEPT ![p].pc = place]

At(p, place) == proc[p].pc = place /\ step[p] = Idle

(* Faulty: whoever was launched becomes the driver. *)
ClaimJobAlways(p) ==
    LET j == proc[p].job IN
    /\ At(p, "claiming")
    /\ Free(j)
    /\ submit' = [submit EXCEPT ![j] = IF @ = "none" THEN @ ELSE "claimed"]
    /\ pid' = [pid EXCEPT ![j] = p]
    /\ Goto(p, "claimed")
    /\ UNCHANGED <<status, old, step, boot, faults, ran>>

(* claim_job: the first claimant that finds the job launched has it. *)
ClaimJob(p) ==
    LET j == proc[p].job IN
    /\ At(p, "claiming")
    /\ Free(j)
    /\ IF submit[j] = "launched" /\ status[j] = "PENDING"
         THEN /\ submit' = [submit EXCEPT ![j] = "claimed"]
              /\ pid' = [pid EXCEPT ![j] = p]
              /\ Goto(p, "claimed")
         ELSE Goto(p, "dead") /\ UNCHANGED <<submit, pid>>
    /\ UNCHANGED <<status, old, step, boot, faults, ran>>

(* mark_job_driver_started, the first thing the program does. *)
MarkJobDriverStarted(p) ==
    LET j == proc[p].job IN
    /\ At(p, "claimed")
    /\ Free(j)
    /\ submit' = [submit EXCEPT ![j] = IF @ = "claimed" THEN "started" ELSE @]
    /\ ran' = [ran EXCEPT ![j] = @ + 1]
    /\ Goto(p, "started")
    /\ UNCHANGED <<status, pid, old, step, boot, faults>>

(* The prologue sets PENDING and waits for resources. *)
Prologue(p) ==
    LET j == proc[p].job IN
    /\ At(p, "started")
    /\ Free(j)
    /\ status' = SetStatus(j, "PENDING")
    /\ Goto(p, "waiting")
    /\ UNCHANGED <<pid, submit, old, step, boot, faults, ran>>

(* Resources are granted: setup, if there is one, or the run. *)
GetResources(p) ==
    LET j == proc[p].job IN
    /\ At(p, "waiting")
    /\ Free(j)
    /\ \E next \in {"setup", "running"} :
          /\ status' = SetStatus(j, IF next = "setup" THEN "SETTING_UP" ELSE "RUNNING")
          /\ Goto(p, next)
    /\ Begin(p, submit)
    /\ UNCHANGED <<pid, submit, old, boot, faults, ran>>

(* set_job_started after the setup. *)
SetJobStarted(p) ==
    LET j == proc[p].job IN
    /\ At(p, "setup")
    /\ Free(j)
    /\ status' = SetStatus(j, "RUNNING")
    /\ Goto(p, "running")
    /\ UNCHANGED <<pid, submit, old, step, boot, faults, ran>>

(* The setup fails: the driver exits without a schedule_step. *)
SetupFails(p) ==
    LET j == proc[p].job IN
    /\ At(p, "waiting") \/ At(p, "setup")
    /\ Free(j)
    /\ status' = SetStatus(j, "FAILED_SETUP")
    /\ Goto(p, "dead")
    /\ UNCHANGED <<pid, submit, old, step, boot, faults, ran>>

(* The epilogue: the final status, then schedule_step. *)
Epilogue(p) ==
    LET j == proc[p].job IN
    /\ At(p, "running")
    /\ Free(j)
    /\ \E st \in {"SUCCEEDED", "FAILED"} : status' = SetStatus(j, st)
    /\ Goto(p, "ending")
    /\ Begin(p, submit)
    /\ UNCHANGED <<pid, submit, old, boot, faults, ran>>

Exit(p) ==
    /\ At(p, "ending")
    /\ Goto(p, "dead")
    /\ UNCHANGED <<rows, step, boot, faults, ran>>

(* The handler of a signalled driver is through, or it had none. *)
Stops(p) ==
    /\ proc[p].pc = "stopping"
    /\ Goto(p, "dead")
    /\ step' = [step EXCEPT ![p] = Idle]
    /\ UNCHANGED <<rows, boot, faults, ran>>

Driver(p) ==
    /\ Alive(p)
    /\ \/ ClaimJob(p)
       \/ MarkJobDriverStarted(p)
       \/ Prologue(p)
       \/ GetResources(p)
       \/ SetJobStarted(p)
       \/ SetupFails(p)
       \/ Epilogue(p)
       \/ Exit(p)
       \/ Stops(p)

-----------------------------------------------------------------------------
(* Faults.                                                                 *)

Spend == faults > 0 /\ faults' = faults - 1

(* A claimant or driver dies, in its own schedule_step or not. *)
DriverDies(p) ==
    /\ Alive(p)
    /\ Spend
    /\ Goto(p, "dead")
    /\ step' = [step EXCEPT ![p] = Idle]
    /\ UNCHANGED <<rows, boot, ran>>

(* The skylet or the process of a request dies in schedule_step. *)
SchedulerDies(a) ==
    /\ step[a] # Idle
    /\ Spend
    /\ step' = [step EXCEPT ![a] = Idle]
    /\ UNCHANGED <<rows, proc, boot, ran>>

(* The machine reboots, or is stopped and started by the client. *)
Reboot ==
    /\ Spend
    /\ proc' = [p \in Procs |->
                  IF Alive(p) THEN [proc[p] EXCEPT !.pc = "dead"] ELSE proc[p]]
    /\ step' = [a \in Actors |-> Idle]
    /\ old' = [j \in Jobs |-> status[j] # "none"]
    /\ boot' \in {"up", "restarting"}
    /\ UNCHANGED <<status, pid, submit, ran>>

(* fail_all_jobs_in_progress, when the client starts a stopped cluster. *)
FailAllJobsInProgress ==
    /\ boot = "restarting"
    /\ boot' = "up"
    /\ status' = [j \in Jobs |->
                    IF status[j] \in Nonterminal THEN "FAILED_DRIVER" ELSE status[j]]
    /\ UNCHANGED <<pid, submit, old, proc, step, faults, ran>>

-----------------------------------------------------------------------------

Next ==
    \/ Tick
    \/ \E a \in Actors : ScheduleStep(a)
    \/ \E j \in Jobs :
          \/ AddJob(j)
          \/ QueueJob(j)
          \/ CancelJob(j)
          \/ UpdateJobStatus(j)
          \/ ExpireInit(j)
    \/ \E p \in Procs : Driver(p) \/ DriverDies(p)
    \/ \E a \in {Skylet, Request} : SchedulerDies(a)
    \/ Reboot
    \/ FailAllJobsInProgress

Spec == Init /\ [][Next]_vars

(***************************************************************************)
(* Fairness: the skylet's event comes round every 300s and updates every   *)
(* job; a schedule_step and a driver go on, and so does the handler of a   *)
(* signalled one; resources are granted and programs end. Nothing is       *)
(* assumed of clients.                                                     *)
(***************************************************************************)
FairSpec ==
    /\ Spec
    /\ WF_vars(Tick)
    /\ WF_vars(FailAllJobsInProgress)
    /\ \A a \in {Skylet, Request} : WF_vars(ScheduleStep(a))
    /\ \A j \in Jobs : WF_vars(UpdateJobStatus(j))
    /\ \A p \in Procs : WF_vars(Driver(p) \/ ScheduleStep(p))

-----------------------------------------------------------------------------
(* Properties.                                                             *)

Places ==
    {"unborn", "claiming", "claimed", "started", "waiting", "setup", "running",
     "ending", "stopping", "dead"}

TypeOK ==
    /\ status \in [Jobs -> Nonterminal \cup Terminal \cup {"none"}]
    /\ pid \in [Jobs -> Procs \cup {NoProc}]
    /\ submit \in [Jobs -> {"none", "queued", "launched", "claimed", "started"}]
    /\ old \in [Jobs -> BOOLEAN]
    /\ proc \in [Procs -> [job : Jobs \cup {NoJob}, pc : Places]]
    /\ step \in [Actors -> [todo : SUBSET Jobs, job : Jobs \cup {NoJob},
                            child : Procs \cup {NoProc}]]
    /\ boot \in {"up", "restarting"}
    /\ faults \in 0 .. MaxFaults
    /\ ran \in [Jobs -> Nat]

(* Processes that have become the driver of job j and are still at work. *)
Drivers(j) ==
    {p \in Procs : proc[p].job = j
        /\ proc[p].pc \in {"claimed", "started", "waiting", "setup", "running"}}

(* The user's program of a job is started at most once, over lost answers   *)
(* of QueueJob, schedulers that die between the launch and the commit of    *)
(* _run_job, claimants that come late and drivers that die (claim_job).     *)
RunsOnce == \A j \in Jobs : ran[j] <= 1

(* The driver at work is the one the row names, so that cancel_jobs kills   *)
(* it and update_job_status sees that it lives.                             *)
DriverIsNamed == \A j \in Jobs : Drivers(j) \subseteq {pid[j]}

(* A job that is over has no driver at its program. cancel_jobs writes      *)
(* CANCELLED and schedules the next job without waiting for the driver, so  *)
(* that one may still be at its signal handler, and the job's processes with*)
(* it; but only the driver of a job that is over ever is, and no driver of a*)
(* job that still counts as queued or running has been told to stop.        *)
EndedIsOver ==
    /\ \A j \in Jobs : status[j] \in Terminal => Drivers(j) = {}
    /\ \A p \in Procs : proc[p].pc = "stopping" => status[proc[p].job] \in Terminal

(* JobStatus: terminal states, "once reached, they do not transition". Only *)
(* FAILED_DRIVER of a job that was never launched goes back to PENDING      *)
(* (JobScheduler.queue), although _set_status_no_lock overwrites any        *)
(* status.                                                                  *)
TerminalStands ==
    [][\A j \in Jobs : status[j] \in Terminal =>
          \/ status'[j] = status[j]
          \/ status[j] = "FAILED_DRIVER" /\ status'[j] = "PENDING" /\ ran[j] = 0]_vars

(* The queue moves: no job waits in it for ever, behind a driver that died, *)
(* a launch nobody committed or a row from before a reboot.                 *)
QueueMoves == \A j \in Jobs : status[j] = "PENDING" ~> status[j] # "PENDING"
=============================================================================
