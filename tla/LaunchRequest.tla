--------------------------- MODULE LaunchRequest ---------------------------
(***************************************************************************)
(* StrategyExecutor._launch (sky/jobs/recovery_strategy.py): the managed   *)
(* job controller as a client of the API server.  It submits sky.launch    *)
(* for the job's cluster, follows the request by its log stream and by     *)
(* polling, lets go of its launch slot while the request is parked,        *)
(* re-attaches when it resumes, and cancels it when the job is cancelled.  *)
(*                                                                         *)
(* The server's side is what a client sees of module Requests: the status  *)
(* of each request.  A controller that ended may be replaced by another,   *)
(* which recovers the job.                                                 *)
(***************************************************************************)
EXTENDS Naturals, FiniteSets

CONSTANTS
    Ids,         \* request ids
    NoId,
    MaxMissing,  \* _PARKED_POLL_MAX_CONSECUTIVE_MISSING
    MaxErrors,   \* _PARKED_POLL_MAX_CONSECUTIVE_ERRORS
    Faults       \* what goes wrong: "answer", "vanish", "unseen", "unreachable",
                 \* "carried", "stream", "database", "crash"

ASSUME LaunchAssumption ==
    /\ NoId \notin Ids
    /\ MaxMissing \in Nat \ {0}
    /\ MaxErrors \in Nat \ {0}
    /\ Faults \subseteq {"answer", "vanish", "unseen", "unreachable", "carried",
                         "stream", "database", "crash"}

VARIABLES
    req,      \* status of each launch request on the API server
    cluster,  \* the request that entered the cluster in the cluster table
    ctl,      \* the coroutine of _launch
    stream,   \* the stream of the request the coroutine follows
    given,    \* why nobody follows the request any more, "no" while somebody does
    wanted    \* the user still wants the job

vars == <<req, cluster, ctl, stream, given, wanted>>

Live == {"PENDING", "WAITING", "RUNNING"}

(* The ways the code has of letting go of a request that may go on: the     *)
(* answer to the POST is lost, the stream breaks, the re-attachment fails,  *)
(* the request is taken for lost and cannot be cancelled either, the        *)
(* controller dies; the job is cancelled inside sdk.launch, or when the     *)
(* request cannot be cancelled.                                             *)
LostSight == {"answer", "stream", "reattach", "missing", "crash"}
LeftByCancel == {"call", "cancel"}

Idle == [pc |-> "slot", id |-> NoId, parked |-> NoId, missing |-> 0, errors |-> 0]

TypeOK ==
    /\ req \in [Ids -> Live \cup {"NONE", "SENT", "SUCCEEDED", "FAILED", "CANCELLED",
                                  "GONE"}]
    /\ cluster \in Ids \cup {NoId}
    /\ ctl \in [pc: {"slot", "submitting", "attached", "parked", "checking", "cleanup",
                     "cancelling", "raised", "started", "ended", "dead"},
                id: Ids \cup {NoId}, parked: Ids \cup {NoId},
                missing: 0..MaxMissing, errors: 0..MaxErrors]
    /\ stream \in {"none", "open", "failed"}
    /\ given \in [Ids -> {"no"} \cup LostSight \cup LeftByCancel]
    /\ wanted \in BOOLEAN

Init ==
    /\ req = [q \in Ids |-> "NONE"]
    /\ cluster = NoId
    /\ ctl = Idle
    /\ stream = "none"
    /\ given = [q \in Ids |-> "no"]
    /\ wanted = TRUE

(* The launches that go on, or that a call under way will yet start. *)
Going == {q \in Ids : req[q] \in Live \cup {"SENT"}}

GiveUp(q, why) == given' = [given EXCEPT ![q] = why]

-----------------------------------------------------------------------------
(* The API server.                                                         *)

(* The POST reaches the server, whether or not its sender still waits. *)
Arrive(q) ==
    /\ req[q] = "SENT"
    /\ req' = [req EXCEPT ![q] = "PENDING"]
    /\ UNCHANGED <<cluster, ctl, stream, given, wanted>>

Execute(q) ==
    /\ req[q] \in {"PENDING", "WAITING"}
    /\ req' = [req EXCEPT ![q] = "RUNNING"]
    /\ UNCHANGED <<cluster, ctl, stream, given, wanted>>

(* The provisioner enters the cluster in the cluster table. *)
AddCluster(q) ==
    /\ req[q] = "RUNNING"
    /\ cluster = NoId
    /\ cluster' = q
    /\ UNCHANGED <<req, ctl, stream, given, wanted>>

Yield(q) ==
    /\ req[q] = "RUNNING"
    /\ req' = [req EXCEPT ![q] = "WAITING"]
    /\ UNCHANGED <<cluster, ctl, stream, given, wanted>>

Finish(q) ==
    /\ req[q] = "RUNNING"
    /\ \/ cluster # NoId /\ req' = [req EXCEPT ![q] = "SUCCEEDED"]
       \/ req' = [req EXCEPT ![q] = "FAILED"]
    /\ UNCHANGED <<cluster, ctl, stream, given, wanted>>

(* The server restarts and its requests are lost. *)
Vanish(q) ==
    /\ "vanish" \in Faults
    /\ req[q] = "WAITING"
    /\ req' = [req EXCEPT ![q] = "GONE"]
    /\ UNCHANGED <<cluster, ctl, stream, given, wanted>>

-----------------------------------------------------------------------------
(* The coroutine.                                                          *)

(* A slot is there and nothing is parked: submit, in a thread.  ctl.id      *)
(* names the call; the coroutine has no id before the answer.               *)
Submit(q) ==
    /\ ctl.pc = "slot"
    /\ ctl.parked = NoId
    /\ req[q] = "NONE"
    /\ req' = [req EXCEPT ![q] = "SENT"]
    /\ ctl' = [ctl EXCEPT !.pc = "submitting", !.id = q]
    /\ UNCHANGED <<cluster, stream, given, wanted>>

Submitted ==
    /\ ctl.pc = "submitting"
    /\ req[ctl.id] # "SENT"
    /\ ctl' = [ctl EXCEPT !.pc = "attached"]
    /\ stream' = "open"
    /\ UNCHANGED <<req, cluster, given, wanted>>

(* sdk.launch raises: before the POST was sent, or with its answer lost, in *)
(* which case the request is there or will yet arrive.                      *)
SubmitFails ==
    /\ ctl.pc = "submitting"
    /\ \/ /\ req[ctl.id] = "SENT"
          /\ req' = [req EXCEPT ![ctl.id] = "GONE"]
          /\ \E pc \in {"cleanup", "raised"} : ctl' = [Idle EXCEPT !.pc = pc]
          /\ UNCHANGED given
       \/ /\ "answer" \in Faults
          /\ ctl' = [Idle EXCEPT !.pc = "cleanup"]
          /\ GiveUp(ctl.id, "answer")
          /\ UNCHANGED req
    /\ UNCHANGED <<cluster, stream, wanted>>

(* _await_launch_request sees the request WAITING: remember it, leave the   *)
(* slot, keep the stream.                                                   *)
Park ==
    /\ ctl.pc = "attached"
    /\ req[ctl.id] = "WAITING"
    /\ ctl' = [ctl EXCEPT !.pc = "parked", !.parked = ctl.id, !.id = NoId]
    /\ UNCHANGED <<req, cluster, stream, given, wanted>>

(* The stream ends with the request: its result, a failure that is not      *)
(* retried (prechecks, out of memory), or one that is.                      *)
StreamEnds ==
    /\ ctl.pc = "attached"
    /\ stream = "open"
    /\ req[ctl.id] \notin Live
    /\ \/ /\ req[ctl.id] = "SUCCEEDED"
          /\ ctl' = [Idle EXCEPT !.pc = "checking"]
       \/ /\ req[ctl.id] # "SUCCEEDED"
          /\ \E pc \in {"cleanup", "raised"} : ctl' = [Idle EXCEPT !.pc = pc]
    /\ stream' = "none"
    /\ UNCHANGED <<req, cluster, given, wanted>>

(* _wait_until_job_starts_on_cluster: the job starts, or the cluster was    *)
(* preempted or does not answer.                                            *)
JobStarts ==
    /\ ctl.pc = "checking"
    /\ \E pc \in {"started", "cleanup"} : ctl' = [ctl EXCEPT !.pc = pc]
    /\ UNCHANGED <<req, cluster, stream, given, wanted>>

(* The stream breaks for good: taken for a failed launch, though the        *)
(* request goes on.                                                         *)
StreamBreaks ==
    /\ "stream" \in Faults
    /\ ctl.pc = "attached"
    /\ ctl' = [Idle EXCEPT !.pc = "cleanup"]
    /\ GiveUp(ctl.id, "stream")
    /\ stream' = "none"
    /\ UNCHANGED <<req, cluster, wanted>>

(* The stream carried across a park breaks, the request lives on. *)
CarriedStreamFails ==
    /\ "carried" \in Faults
    /\ ctl.parked # NoId
    /\ stream = "open"
    /\ stream' = "failed"
    /\ UNCHANGED <<req, cluster, ctl, given, wanted>>

(* _wait_for_parked_request *)
PollWaiting ==
    /\ ctl.pc = "parked"
    /\ req[ctl.parked] = "WAITING"
    /\ ctl' = [ctl EXCEPT !.missing = 0, !.errors = 0]
    /\ UNCHANGED <<req, cluster, stream, given, wanted>>

PollResumed ==
    /\ ctl.pc = "parked"
    /\ req[ctl.parked] \notin {"WAITING", "GONE"}
    /\ ctl' = [ctl EXCEPT !.pc = "slot", !.missing = 0, !.errors = 0]
    /\ UNCHANGED <<req, cluster, stream, given, wanted>>

(* sdk.api_cancel of request q, which does nothing to one that has ended    *)
(* and is given up when the server cannot be reached.                       *)
ApiCancel(q, why) ==
    \/ /\ req' = [req EXCEPT ![q] = IF @ \in Live THEN "CANCELLED" ELSE @]
       /\ UNCHANGED given
    \/ /\ "unreachable" \in Faults
       /\ GiveUp(q, why)
       /\ UNCHANGED req

(* Faulty variant: the coroutine never gives a lost request up. *)
PollMissingForever ==
    /\ ctl.pc = "parked"
    /\ req[ctl.parked] = "GONE" \/ "unseen" \in Faults
    /\ ctl' = [ctl EXCEPT !.missing = @ + 1, !.errors = 0]
    /\ UNCHANGED <<req, cluster, stream, given, wanted>>

(* The server does not know the request: it is gone, or the server is in    *)
(* the middle of a restart.  After MaxMissing answers in a row the request  *)
(* is cancelled, for the case that it comes back, and given up.             *)
PollMissing ==
    /\ ctl.pc = "parked"
    /\ req[ctl.parked] = "GONE" \/ "unseen" \in Faults
    /\ \/ /\ ctl.missing + 1 < MaxMissing
          /\ ctl' = [ctl EXCEPT !.missing = @ + 1, !.errors = 0]
          /\ UNCHANGED <<req, stream, given>>
       \/ /\ ctl.missing + 1 = MaxMissing
          /\ ctl' = Idle
          /\ ApiCancel(ctl.parked, "missing")
          /\ stream' = "none"
    /\ UNCHANGED <<cluster, wanted>>

(* Faulty variant: an unreachable server counts as a lost request. *)
PollErrorRelaunches ==
    /\ ctl.pc = "parked"
    /\ "unreachable" \in Faults
    /\ \/ /\ ctl.errors + 1 < MaxErrors
          /\ ctl' = [ctl EXCEPT !.errors = @ + 1]
          /\ UNCHANGED stream
       \/ /\ ctl.errors + 1 = MaxErrors
          /\ ctl' = Idle
          /\ stream' = "none"
    /\ UNCHANGED <<req, cluster, given, wanted>>

(* The poll fails; MaxErrors times in a row is an error of the launch.      *)
PollError ==
    /\ ctl.pc = "parked"
    /\ "unreachable" \in Faults
    /\ \/ /\ ctl.errors + 1 < MaxErrors
          /\ ctl' = [ctl EXCEPT !.errors = @ + 1]
       \/ /\ ctl.errors + 1 = MaxErrors
          /\ ctl' = [ctl EXCEPT !.pc = "cancelling", !.id = ctl.parked, !.errors = 0]
    /\ UNCHANGED <<req, cluster, stream, given, wanted>>

(* set_backoff_pending, the slot or set_restarting raises: a parked request *)
(* is cancelled first.                                                      *)
DatabaseError ==
    /\ "database" \in Faults
    /\ ctl.pc \in {"slot", "parked"}
    /\ \/ /\ ctl.parked # NoId
          /\ ctl' = [ctl EXCEPT !.pc = "cancelling", !.id = ctl.parked]
          /\ UNCHANGED stream
       \/ /\ ctl.parked = NoId
          /\ ctl' = [Idle EXCEPT !.pc = "raised"]
          /\ stream' = "none"
    /\ UNCHANGED <<req, cluster, given, wanted>>

(* Faulty variant: the error of the carried stream is taken for the         *)
(* request's.                                                               *)
ReattachTrusting ==
    /\ ctl.pc = "slot"
    /\ ctl.parked # NoId
    /\ \/ /\ stream = "failed"
          /\ ctl' = [Idle EXCEPT !.pc = "cleanup"]
          /\ stream' = "none"
       \/ /\ stream = "open"
          /\ ctl' = [ctl EXCEPT !.pc = "attached", !.id = ctl.parked, !.parked = NoId]
          /\ UNCHANGED stream
    /\ UNCHANGED <<req, cluster, given, wanted>>

(* A slot is there and the parked request resumed: follow it again, on a    *)
(* new stream if the carried one broke and the server says it is live (if   *)
(* it has ended, sdk.get gives what a new stream would).                    *)
Reattach ==
    /\ ctl.pc = "slot"
    /\ ctl.parked # NoId
    /\ ctl' = [ctl EXCEPT !.pc = "attached", !.id = ctl.parked, !.parked = NoId]
    /\ stream' = "open"
    /\ UNCHANGED <<req, cluster, given, wanted>>

(* The carried stream broke, and so does the question what became of the    *)
(* request, or the server does not know it at this moment: the request is   *)
(* no longer parked_request_id, and this is taken for a failed launch.      *)
ReattachFails ==
    /\ Faults \cap {"unreachable", "unseen"} # {}
    /\ ctl.pc = "slot"
    /\ ctl.parked # NoId
    /\ stream = "failed"
    /\ ctl' = [Idle EXCEPT !.pc = "cleanup"]
    /\ GiveUp(ctl.parked, "reattach")
    /\ stream' = "none"
    /\ UNCHANGED <<req, cluster, wanted>>

(* terminate_cluster: sky down kills the cluster's requests, but only if    *)
(* there is a cluster.  It is taken to succeed within its six tries.        *)
Terminate ==
    IF cluster # NoId
      THEN /\ req' = [q \in Ids |-> IF req[q] \in Live THEN "CANCELLED" ELSE req[q]]
           /\ cluster' = NoId
      ELSE UNCHANGED <<req, cluster>>

(* The launch failed: tear down, back off, and try again or give up. *)
CleanUp ==
    /\ ctl.pc = "cleanup"
    /\ Terminate
    /\ \E pc \in {"slot", "raised"} : ctl' = [Idle EXCEPT !.pc = pc]
    /\ stream' = "none"
    /\ UNCHANGED <<given, wanted>>

-----------------------------------------------------------------------------
(* The job is cancelled: asyncio.CancelledError at the coroutine's await.   *)

UserCancels ==
    /\ wanted
    /\ ctl.pc \notin {"ended", "dead"}
    /\ wanted' = FALSE
    /\ UNCHANGED <<req, cluster, ctl, stream, given>>

(* Faulty variant: only the handler of an attached request cancels it. *)
CancelledForgetsParked ==
    /\ ~wanted
    /\ ctl.pc \notin {"cancelling", "raised", "ended", "dead"}
    /\ \/ /\ ctl.pc = "attached"
          /\ ctl' = [ctl EXCEPT !.pc = "cancelling"]
          /\ UNCHANGED <<stream, given>>
       \/ /\ ctl.pc # "attached"
          /\ ctl' = [Idle EXCEPT !.pc = "raised"]
          /\ IF ctl.pc = "submitting" THEN GiveUp(ctl.id, "call") ELSE UNCHANGED given
          /\ stream' = "none"
    /\ UNCHANGED <<req, cluster, wanted>>

(* The handler cancels the request that is followed or parked.  Inside      *)
(* sdk.launch there is no id to cancel and the thread's call goes on;       *)
(* elsewhere there is nothing to cancel.                                    *)
Cancelled ==
    /\ ~wanted
    /\ ctl.pc \notin {"cancelling", "raised", "ended", "dead"}
    /\ \/ /\ ctl.pc = "attached" \/ ctl.parked # NoId
          /\ ctl' = [ctl EXCEPT !.pc = "cancelling",
                                !.id = IF ctl.pc = "attached" THEN ctl.id ELSE ctl.parked]
          /\ UNCHANGED <<stream, given>>
       \/ /\ ctl.pc # "attached" /\ ctl.parked = NoId
          /\ ctl' = [Idle EXCEPT !.pc = "raised"]
          /\ IF ctl.pc = "submitting" THEN GiveUp(ctl.id, "call") ELSE UNCHANGED given
          /\ stream' = "none"
    /\ UNCHANGED <<req, cluster, wanted>>

(* Faulty variant: a request that has ended cannot be cancelled. *)
CancelLiveRequest ==
    /\ ctl.pc = "cancelling"
    /\ req[ctl.id] \in Live
    /\ req' = [req EXCEPT ![ctl.id] = "CANCELLED"]
    /\ ctl' = [Idle EXCEPT !.pc = "raised"]
    /\ stream' = "none"
    /\ UNCHANGED <<cluster, given, wanted>>

(* _cancel_launch_request, which waits for the answer and never raises.     *)
CancelRequest ==
    /\ ctl.pc = "cancelling"
    /\ ApiCancel(ctl.id, "cancel")
    /\ ctl' = [Idle EXCEPT !.pc = "raised"]
    /\ stream' = "none"
    /\ UNCHANGED <<cluster, wanted>>

(* The job's cleanup. *)
EndJob ==
    /\ ctl.pc = "raised"
    /\ Terminate
    /\ ctl' = [Idle EXCEPT !.pc = "ended"]
    /\ stream' = "none"
    /\ UNCHANGED <<given, wanted>>

(* The controller process dies, its threads with it: a POST under way may   *)
(* or may not have been sent.  The next controller cleans the cluster up    *)
(* and launches again: it knows nothing of the request.                     *)
Crash ==
    /\ "crash" \in Faults
    /\ ctl.pc \notin {"started", "ended", "dead"}
    /\ ctl' = [Idle EXCEPT !.pc = "dead"]
    /\ stream' = "none"
    /\ given' = [q \in Ids |-> IF q \in Going THEN "crash" ELSE given[q]]
    /\ UNCHANGED <<req, cluster, wanted>>

Restart ==
    /\ ctl.pc = "dead"
    /\ Terminate
    /\ ctl' = Idle
    /\ UNCHANGED <<stream, given, wanted>>

-----------------------------------------------------------------------------
Server(q) ==
    \/ Arrive(q)
    \/ Execute(q)
    \/ AddCluster(q)
    \/ Yield(q)
    \/ Finish(q)
    \/ Vanish(q)

Controller ==
    \/ \E q \in Ids : Submit(q)
    \/ Submitted
    \/ SubmitFails
    \/ Park
    \/ StreamEnds
    \/ JobStarts
    \/ PollWaiting
    \/ PollResumed
    \/ PollMissing
    \/ PollError
    \/ Reattach
    \/ CleanUp
    \/ Cancelled
    \/ CancelRequest
    \/ EndJob
    \/ Restart

Next ==
    \/ \E q \in Ids : Server(q)
    \/ Controller
    \/ StreamBreaks
    \/ CarriedStreamFails
    \/ ReattachFails
    \/ DatabaseError
    \/ UserCancels
    \/ Crash

Spec == Init /\ [][Next]_vars

(* Fairness: the controller's event loop goes on, and a cancellation is     *)
(* delivered.  Nothing is assumed of the server or the user.                *)
FairSpec ==
    /\ Spec
    /\ WF_vars(Cancelled)
    /\ WF_vars(CancelRequest)
    /\ WF_vars(EndJob)

-----------------------------------------------------------------------------
(* Properties.                                                             *)

(* Over parks, resumptions, lost requests, an unreachable server, errors of *)
(* the database and failed launches a controller never has two launches     *)
(* going on for its one cluster, a call under way counted, except where the *)
(* code lost sight of one: POST /launch has no key that would tell a retry  *)
(* from a new launch, and the error of a stream is taken for the request's. *)
(* What the cancellation of the job leaves behind is never joined by a new  *)
(* launch.                                                                  *)
NoDoubleLaunch ==
    /\ Cardinality({q \in Going : given[q] = "no"}) <= 1
    /\ \A q, r \in Going : given[q] \in LeftByCancel => given[r] # "no"

(* When the job has ended no launch goes on that the controller could still *)
(* have cancelled, whatever the request was doing when the job was          *)
(* cancelled or failed: it would bring up a cluster that only autodown      *)
(* removes.  A cluster that stands is one that a launch given up earlier    *)
(* brought up after the cleanup: nothing else outlives the job.             *)
NothingOutlivesJob ==
    ctl.pc = "ended" =>
        /\ \A q \in Going : given[q] # "no"
        /\ cluster # NoId => given[cluster] # "no"

(* The cleanup after a failed attempt tears down a launch that goes on only *)
(* where the code lost sight of it.  A stream that broke while the request  *)
(* was parked is not enough: the server must be unable to say what became   *)
(* of the request at the moment of the re-attachment as well.               *)
HealthyLaunchKept ==
    ctl.pc = "cleanup" => \A q \in Going : given[q] \in LostSight

(* A cancelled job does end. *)
CancelEnds == ~wanted ~> ctl.pc \in {"ended", "dead"}
=============================================================================
