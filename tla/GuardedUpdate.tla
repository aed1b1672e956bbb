--------------------------- MODULE GuardedUpdate ---------------------------
(***************************************************************************)
(* What a guarded status update of the managed-job database promises to    *)
(* the controller that calls it: the UPDATE is applied at most once per    *)
(* call, only to a row that its guard accepts, and what it accumulates     *)
(* (job_duration, recovery_count) is accumulated at most once; it returns  *)
(* only when the row was moved or needs no move; and it is refused only    *)
(* while the row is not one the guard accepts and not one this call wrote. *)
(* RetriedUpdate is the code that has to keep this promise over a          *)
(* connection that loses commits and their acknowledgements.               *)
(***************************************************************************)

CONSTANTS
    Statuses,    \* the values of the column
    Column,      \* [Statuses -> a name]: task status or schedule state
    Calls,       \* the updates the controller asks for
    From,        \* [Calls -> SUBSET Statuses]: the WHERE clause
    To,          \* [Calls -> Statuses]: the value written
    Counted,     \* [Calls -> SUBSET Statuses]: where the UPDATE accumulates
    Idempotent,  \* calls that accept a row already moved
    OtherMoves   \* <<a, b>>: what other processes may do to the row

VARIABLES
    row,    \* the committed value
    call,   \* the call under way, or the last one
    fate,   \* what became of it
    tally   \* how often this call accumulated

vars == <<row, call, fate, tally>>

Ended == {"idle", "done", "refused", "raised"}

Init ==
    /\ row \in Statuses
    /\ call \in Calls
    /\ fate = "idle"
    /\ tally = 0

(* The controller calls c, after its last call has ended. *)
Request(c) ==
    /\ fate \in Ended
    /\ Column[row] = Column[To[c]]
    /\ call' = c
    /\ fate' = "open"
    /\ tally' = 0
    /\ UNCHANGED row

(* The one moment the update takes effect. *)
Apply ==
    /\ fate = "open"
    /\ row \in From[call]
    /\ row' = To[call]
    /\ fate' = "applied"
    /\ tally' = IF row \in Counted[call] THEN 1 ELSE 0
    /\ UNCHANGED call

Done ==
    /\ fate \in {"open", "applied"}
    /\ fate = "applied" \/ row = To[call] \/ call \in Idempotent
    /\ fate' = "done"
    /\ UNCHANGED <<row, call, tally>>

(* ManagedJobStatusError, or the assertion of a schedule state. *)
Refuse ==
    /\ fate \in {"open", "applied"}
    /\ row \notin From[call]
    /\ fate = "applied" => row # To[call]
    /\ fate' = "refused"
    /\ UNCHANGED <<row, call, tally>>

(* A database error or a cancellation: the caller learns nothing. *)
Raise ==
    /\ fate \in {"open", "applied"}
    /\ fate' = "raised"
    /\ UNCHANGED <<row, call, tally>>

Other ==
    /\ \E m \in OtherMoves : m[1] = row /\ row' = m[2]
    /\ UNCHANGED <<call, fate, tally>>

Next ==
    \/ \E c \in Calls : Request(c)
    \/ Apply \/ Done \/ Refuse \/ Raise \/ Other

Spec == Init /\ [][Next]_vars
=============================================================================
