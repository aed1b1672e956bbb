-------------------------- MODULE MCRetriedUpdate --------------------------
(***************************************************************************)
(* The calls of sky/jobs/state.py as an instance of RetriedUpdate.         *)
(***************************************************************************)
EXTENDS RetriedUpdate

Processing == {"PENDING", "STARTING", "RUNNING", "WINDING_DOWN", "RECOVERING"}
Unended == Processing \cup {"CANCELLING"}
TaskStatuses == Unended \cup {"SUCCEEDED", "CANCELLED", "FAILED"}
Unscheduled == {"LAUNCHING", "ALIVE"}
AllStatuses == TaskStatuses \cup Unscheduled \cup {"DONE"}

StatusColumn ==
    [s \in AllStatuses |-> IF s \in TaskStatuses THEN "status" ELSE "schedule"]

Updates ==
    {"set_backoff_pending", "set_restarting", "set_starting", "set_started",
     "set_recovering", "force_recovering", "set_recovered", "set_succeeded",
     "set_alive", "set_done", "set_done_idempotent"}

(* The status each WHERE clause accepts. *)
Guards ==
    [c \in Updates |->
        CASE c = "set_backoff_pending" -> {"STARTING", "RECOVERING"}
          [] c = "set_restarting"      -> Unended
          [] c = "set_starting"        -> {"PENDING"}
          [] c = "set_started"         -> {"STARTING", "PENDING"}
          [] c = "set_recovering"      -> {"RUNNING"}
          [] c = "force_recovering"    -> Processing
          [] c = "set_recovered"       -> {"RECOVERING"}
          [] c = "set_succeeded"       -> {"RUNNING", "WINDING_DOWN"}
          [] c = "set_alive"           -> {"LAUNCHING"}
          [] OTHER                     -> Unscheduled]

Targets ==
    [c \in Updates |->
        CASE c = "set_backoff_pending" -> "PENDING"
          [] c \in {"set_restarting", "set_starting"} -> "STARTING"
          [] c \in {"set_started", "set_recovered"}   -> "RUNNING"
          [] c \in {"set_recovering", "force_recovering"} -> "RECOVERING"
          [] c = "set_succeeded"       -> "SUCCEEDED"
          [] c = "set_alive"           -> "ALIVE"
          [] OTHER                     -> "DONE"]

(* Where job_duration or recovery_count grows. *)
Accumulates ==
    [c \in Updates |->
        CASE c \in {"set_recovering", "force_recovering"}
               -> {"RUNNING", "WINDING_DOWN"}
          [] c = "set_recovered" -> {"RECOVERING"}
          [] c = "set_started"   -> {"STARTING", "PENDING"}
          [] OTHER               -> {}]

(* _retry_session does not look at the row again. *)
Verified == Updates \ {"set_restarting"}

DoneIdempotent == {"set_done_idempotent"}

(* The sweep's failures, a cancel of a PENDING job, the coordinator's      *)
(* thread, and the sweep's scheduler_set_done.                             *)
Foreign ==
    {<<s, "FAILED">> : s \in TaskStatuses}
      \cup {<<"PENDING", "CANCELLED">>, <<"RUNNING", "WINDING_DOWN">>}
      \cup {<<s, "DONE">> : s \in Unscheduled}
=============================================================================
