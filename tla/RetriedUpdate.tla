--------------------------- MODULE RetriedUpdate ---------------------------
(***************************************************************************)
(* The guarded status updates of sky/jobs/state.py over an unreliable      *)
(* database connection: _retry_task_status_update and                      *)
(* _retry_schedule_state_update (and _retry_session for                    *)
(* set_restarting_async) inside with_db_retries_async of                   *)
(* sky/utils/db/retries.py.                                                *)
(*                                                                         *)
(* A call is one UPDATE in a transaction of its own. Any statement may     *)
(* fail with a transient error; a commit may fail before or after the      *)
(* server has made it durable. The retry runs the UPDATE again, now        *)
(* against a row that the first attempt, or somebody else, has moved. One  *)
(* controller works on a row; the sweep, a cancel request and the batch    *)
(* coordinator's thread are the others.                                    *)
(*                                                                         *)
(* A commit the server finishes after the client has already failed is    *)
(* AckLost: the row lock keeps every later UPDATE out until then.          *)
(***************************************************************************)
EXTENDS Naturals

CONSTANTS
    Statuses, Column, Calls, From, To, Counted, Idempotent,
    Verifying,    \* calls whose retry reads the row when nothing matched
    OtherMoves,
    MaxRetries    \* _DEFAULT_MAX_RETRIES: attempts before giving up

(* The guards and targets of the calls. *)
ASSUME CallsAssumption ==
    /\ From \in [Calls -> SUBSET Statuses]
    /\ To \in [Calls -> Statuses]
    /\ Counted \in [Calls -> SUBSET Statuses]
    /\ \A m \in OtherMoves : m[2] \in Statuses
    /\ MaxRetries \in Nat \ {0}

(* No UPDATE accumulates on the status it writes, and a call that does not *)
(* verify accepts its own result. Without this a replay would show.        *)
ASSUME ReplayAssumption ==
    \A c \in Calls :
        /\ To[c] \notin Counted[c]
        /\ c \in Verifying \cup Idempotent \/ To[c] \in From[c]

(* Nobody else moves a row back under the guard of a call. *)
ASSUME OthersAssumption ==
    \A c \in Calls, m \in OtherMoves :
        /\ m[1] \notin From[c] => m[2] \notin From[c]
        /\ m[1] \notin From[c] \ {To[c]} => m[2] \notin From[c] \ {To[c]}

VARIABLES
    row,      \* the committed value of the column
    call,     \* the call under way, or the last one
    pc,       \* where the call is
    attempt,  \* with_db_retries_async: failed attempts so far
    matched,  \* prior_update_matched
    outcome,  \* how the last call ended
    landed,   \* history: a commit of this call became durable
    tally     \* history: how often this call accumulated

vars == <<row, call, pc, attempt, matched, outcome, landed, tally>>

Places == {"idle", "update", "matched", "unmatched", "landed", "read"}

Init ==
    /\ row \in Statuses
    /\ call \in Calls
    /\ pc = "idle"
    /\ attempt = 0
    /\ matched = FALSE
    /\ outcome = "idle"
    /\ landed = FALSE
    /\ tally = 0

(* A set_..._async call: prior_update_matched starts FALSE. *)
Request(c) ==
    /\ pc = "idle"
    /\ Column[row] = Column[To[c]]
    /\ call' = c
    /\ pc' = "update"
    /\ attempt' = 0
    /\ matched' = FALSE
    /\ landed' = FALSE
    /\ tally' = 0
    /\ UNCHANGED <<row, outcome>>

Return(verdict) ==
    /\ pc' = "idle"
    /\ outcome' = verdict
    /\ UNCHANGED attempt

(* Faulty: one attempt more than the budget. *)
RetryOnceMore ==
    /\ attempt' = attempt + 1
    /\ IF attempt >= MaxRetries
         THEN pc' = "idle" /\ outcome' = "raised"
         ELSE pc' = "update" /\ UNCHANGED outcome

(* Faulty: the budget is not counted down. *)
RetryForever ==
    /\ pc' = "update"
    /\ UNCHANGED <<outcome, attempt>>

(* The except clause for a transient error: the budget counts attempts. *)
Retry ==
    /\ attempt' = attempt + 1
    /\ IF attempt + 1 >= MaxRetries
         THEN pc' = "idle" /\ outcome' = "raised"
         ELSE pc' = "update" /\ UNCHANGED outcome

(* The UPDATE is executed. prior_update_matched is set before the commit. *)
Update ==
    /\ pc = "update"
    /\ IF row \in From[call]
         THEN pc' = "matched" /\ matched' = TRUE
         ELSE pc' = "unmatched" /\ UNCHANGED matched
    /\ UNCHANGED <<row, call, attempt, outcome, landed, tally>>

(* The commit of a row that matched becomes durable. *)
Land ==
    /\ pc = "matched"
    /\ row' = To[call]
    /\ pc' = "landed"
    /\ landed' = TRUE
    /\ tally' = tally + IF row \in Counted[call] THEN 1 ELSE 0
    /\ UNCHANGED <<call, attempt, matched, outcome>>

(* The commit returns: count == 1. *)
Acked ==
    /\ pc = "landed"
    /\ Return("done")
    /\ UNCHANGED <<row, call, matched, landed, tally>>

(* A transient error, with nothing durable or after the commit. *)
Fail ==
    /\ pc # "idle"
    /\ Retry
    /\ UNCHANGED <<row, call, matched, landed, tally>>

(* Faulty: a retry that matches nothing is taken for a refused update. *)
UnmatchedUnverified ==
    /\ pc = "unmatched"
    /\ Return(IF call \in Idempotent THEN "done" ELSE "refused")
    /\ UNCHANGED <<row, call, matched, landed, tally>>

(* The transaction that matched nothing has committed: what count == 0     *)
(* means depends on the call and on what an earlier attempt saw.           *)
Unmatched ==
    /\ pc = "unmatched"
    /\ IF call \in Idempotent THEN Return("done")
       ELSE IF call \in Verifying /\ attempt > 0 /\ matched
         THEN pc' = "read" /\ UNCHANGED <<outcome, attempt>>
         ELSE Return("refused")
    /\ UNCHANGED <<row, call, matched, landed, tally>>

(* The row is read again: is it what this call wrote? *)
Read ==
    /\ pc = "read"
    /\ Return(IF row = To[call] THEN "done" ELSE "refused")
    /\ UNCHANGED <<row, call, matched, landed, tally>>

(* An error that is not transient, or a CancelledError at any await. *)
Abort ==
    /\ pc # "idle"
    /\ Return("raised")
    /\ UNCHANGED <<row, call, matched, landed, tally>>

(* Another process writes the row; the row lock of a matched UPDATE keeps  *)
(* it out until that transaction ends.                                     *)
Other ==
    /\ pc # "matched"
    /\ \E m \in OtherMoves : m[1] = row /\ row' = m[2]
    /\ UNCHANGED <<call, pc, attempt, matched, outcome, landed, tally>>

Step == Update \/ Land \/ Acked \/ Fail \/ Unmatched \/ Read \/ Abort

Next == (\E c \in Calls : Request(c)) \/ Step \/ Other

Spec == Init /\ [][Next]_vars

(* A coroutine whose statement has ended or timed out is resumed. *)
FairSpec == Spec /\ WF_vars(Step)

-----------------------------------------------------------------------------

(* Types, and the budget: an attempt that is under way is one of           *)
(* MaxRetries, and a call that gave up has spent them all                  *)
(* (_budget_spent).                                                        *)
TypeOK ==
    /\ row \in Statuses
    /\ call \in Calls
    /\ pc \in Places
    /\ attempt \in Nat
    /\ attempt < MaxRetries \/ (pc = "idle" /\ attempt = MaxRetries)
    /\ matched \in BOOLEAN
    /\ outcome \in {"idle", "done", "refused", "raised"}
    /\ landed \in BOOLEAN
    /\ tally \in Nat

(* What the caller of the detailed update can know of it. *)
Fate ==
    IF pc = "idle" THEN outcome ELSE IF landed THEN "applied" ELSE "open"

Abstract == INSTANCE GuardedUpdate WITH fate <- Fate

(* The retried update keeps the promise of GuardedUpdate: over lost        *)
(* commits, lost acknowledgements and the writes of others it takes effect *)
(* and accumulates at most once per call, never on a row its guard does    *)
(* not accept, and a call is never told that its own update was refused    *)
(* while the row holds it (_retry_task_status_update).                     *)
KeepsPromise == Abstract!Spec

(* Every call ends: transient errors are retried a bounded number of times *)
(* (with_db_retries_async).                                                *)
CallReturns == (pc # "idle") ~> (pc = "idle")
=============================================================================
