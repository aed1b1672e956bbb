------------------------------ MODULE JobState ------------------------------
(***************************************************************************)
(* The managed-jobs database as sky/jobs/state.py exposes it: the task     *)
(* statuses of the `spot` table, the schedule states of `job_info`, and    *)
(* one operator per guarded UPDATE.  A job's task rows are a function from *)
(* its task ids 1..NumTasks to statuses; "NONE" is a row not inserted yet. *)
(*                                                                         *)
(* end_at is not kept apart from the status: every UPDATE that writes a    *)
(* terminal status writes end_at and no other UPDATE does, so              *)
(* `end_at IS NULL` is "the row exists and its status is not terminal".    *)
(***************************************************************************)
EXTENDS Naturals, FiniteSets

CONSTANT NumTasks

ASSUME NumTasksAssumption == NumTasks \in Nat \ {0}

Tasks == 1..NumTasks

-----------------------------------------------------------------------------
(* ManagedJobStatus.  The statuses a user's own program, setup, precheck   *)
(* or quota brings about (FAILED, FAILED_SETUP, FAILED_PRECHECKS,          *)
(* FAILED_NO_RESOURCE) are one value, FAILED.                              *)

Terminal == {"SUCCEEDED", "FAILED", "FAILED_CONTROLLER", "CANCELLED"}

Unended == {"PENDING", "STARTING", "RUNNING", "RECOVERING", "CANCELLING"}

Statuses == Terminal \cup Unended \cup {"NONE"}

(* ManagedJobScheduleState.  ALIVE_WAITING and ALIVE_BACKOFF are written by *)
(* no code of this version; "NONE" is a job whose row is not inserted yet.  *)
ScheduleStates == {"NONE", "INACTIVE", "WAITING", "LAUNCHING", "ALIVE", "DONE"}

(* get_jobs_needing_recovery_check: a controller should be running.        *)
NeedsRecovery == {"LAUNCHING", "ALIVE"}

-----------------------------------------------------------------------------
(* Reads.                                                                  *)

Present(rows) == {t \in Tasks : rows[t] # "NONE"}

AllTerminal(rows) == \A t \in Tasks : rows[t] \in Terminal

AllSucceeded(rows) == \A t \in Tasks : rows[t] = "SUCCEEDED"

(* get_latest_task_id_from_statuses: the first task that has not ended, or *)
(* the last task when all have.  Stated for rows that are all inserted up  *)
(* to some task.                                                           *)
IsLatest(rows, t) ==
    /\ t \in Present(rows)
    /\ \/ /\ rows[t] \in Unended
          /\ \A u \in Present(rows) : u < t => rows[u] \in Terminal
       \/ /\ \A u \in Present(rows) : rows[u] \in Terminal /\ u <= t

(* get_status(job_id) = st                                                 *)
JobStatusIs(rows, st) == \E t \in Tasks : IsLatest(rows, t) /\ rows[t] = st

-----------------------------------------------------------------------------
(* Updates of one task row: the statuses the WHERE clause accepts.         *)

(* Faulty variant: a task that is being cancelled may start. *)
MayStartCancelling == {"PENDING", "CANCELLING"}

(* set_starting_async *)
MayStart == {"PENDING"}

(* set_started_async *)
MayBeStarted == {"STARTING", "PENDING"}

(* set_recovering_async without force_transit_to_recovering *)
MayRecover == {"RUNNING"}

(* set_recovered_async *)
MayBeRecovered == {"RECOVERING"}

(* set_backoff_pending_async *)
MayBackOff == {"STARTING", "RECOVERING"}

(* set_succeeded_async *)
MaySucceed == {"RUNNING"}

(* set_emergency_recovering_async *)
MayEmergencyRecover == {"STARTING", "RUNNING", "RECOVERING"}

(* set_failed(task_id): a row that has not ended. *)
FailTask(rows, t, st) == [rows EXCEPT ![t] = IF @ \in Unended THEN st ELSE @]

-----------------------------------------------------------------------------
(* Updates of every task row of a job.                                     *)

(* Faulty variant: ended rows too. *)
SetCancellingAll(rows) ==
    [t \in Tasks |-> IF rows[t] = "NONE" THEN "NONE" ELSE "CANCELLING"]

(* set_cancelling_async: every row that has not ended. *)
SetCancelling(rows) ==
    [t \in Tasks |-> IF rows[t] \in Unended THEN "CANCELLING" ELSE rows[t]]

(* set_cancelled_async: the CANCELLING rows only. *)
SetCancelled(rows) ==
    [t \in Tasks |-> IF rows[t] = "CANCELLING" THEN "CANCELLED" ELSE rows[t]]

(* set_failed(task_id=None): the rows that have not ended. *)
FailUnended(rows) ==
    [t \in Tasks |-> IF rows[t] \in Unended THEN "FAILED_CONTROLLER" ELSE rows[t]]

(* set_failed(task_id=None, override_terminal=True): every row. *)
FailAll(rows) ==
    [t \in Tasks |-> IF rows[t] = "NONE" THEN "NONE" ELSE "FAILED_CONTROLLER"]

(* The task rows finalize_job_done_async leaves, in its one transaction. *)
FinalRows(rows, cancelling) ==
    FailUnended(IF cancelling THEN SetCancelled(rows) ELSE rows)

(* Faulty variant: a task that backed off counts as never submitted. *)
PendingCancellableAny(sched, rows, submitted) ==
    /\ sched \in {"WAITING", "INACTIVE"}
    /\ Present(rows) # {}
    /\ \A t \in Present(rows) : rows[t] = "PENDING"

(* set_pending_cancelled: the job is WAITING or INACTIVE, and every row it *)
(* has is PENDING and was never submitted (submitted_at IS NULL).          *)
PendingCancellable(sched, rows, submitted) ==
    /\ sched \in {"WAITING", "INACTIVE"}
    /\ Present(rows) # {}
    /\ \A t \in Present(rows) : rows[t] = "PENDING" /\ ~submitted[t]

CancelPending(rows) ==
    [t \in Tasks |-> IF rows[t] = "NONE" THEN "NONE" ELSE "CANCELLED"]
=============================================================================
