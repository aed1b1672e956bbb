------------------------------ MODULE Requests ------------------------------
(***************************************************************************)
(* The request executor of the API server (sky/server/requests): the       *)
(* requests table, the queue, the dispatcher thread, the pool of executor  *)
(* processes and its burst processes, the monitor thread of each           *)
(* submission, cancellation by signal, and the teardown of a cluster       *)
(* (sky down, sky stop), which cancels the cluster's requests and waits    *)
(* until their executors acknowledge.                                      *)
(*                                                                         *)
(* Every request here works on one cluster: the gated ones are execs, the   *)
(* others launches.  An executor's pid names one process: incarnations are *)
(* distinct and the operating system does not reuse pids.  A step is one   *)
(* read-modify-write of a row (under the request's file lock), one queue   *)
(* operation or one signal.                                                *)
(***************************************************************************)
EXTENDS Naturals, FiniteSets

CONSTANTS
    Reqs,        \* request ids
    Gated,       \* execs: they wait for the start of the cluster to complete
    Retryable,   \* those to be retried when their pool breaks
    PoolProcs,   \* incarnations of the guaranteed pool's processes
    BurstProcs,  \* incarnations of burst processes
    PoolSize,    \* garanteed_parallelism
    BurstSize,   \* burstable_parallelism
    NoReq,
    NoWorker,    \* NULL in the pid column
    Faults       \* the failures that happen, one of them in a behaviour

ASSUME RequestsAssumption ==
    /\ Reqs \cap {"none", "down"} = {}
    /\ Gated \subseteq Reqs
    /\ Retryable \subseteq Reqs
    /\ NoReq \notin Reqs
    /\ PoolProcs \cap BurstProcs = {}
    /\ NoWorker \notin PoolProcs \cup BurstProcs
    /\ PoolSize \in Nat \ {0}
    /\ BurstSize \in Nat
    /\ Faults \subseteq {"none", "enqueue", "dispatch", "die", "drain", "ack"}

Workers == PoolProcs \cup BurstProcs

VARIABLES
    status,  \* requests.status
    pid,     \* requests.pid
    owned,   \* requests.status_msg is CLUSTER_TEARDOWN_CANCELLATION_STATUS
    sub,     \* the coroutine that prepares and enqueues each request
    queued,  \* requests whose element is in the queue
    mon,     \* the handle_task_result thread of each request
    worker,  \* executor processes
    lock,    \* holder of the cluster's status lock
    down,    \* CloudVmRayBackend.teardown
    env      \* the failure still to come, the requests whose acknowledgement
             \* failed, and the shutdown coordinator

row == <<status, pid, owned>>
vars == <<row, sub, queued, mon, worker, lock, down, env>>

-----------------------------------------------------------------------------
Finished == {"SUCCEEDED", "FAILED", "CANCELLED"}

Active == {"PENDING", "WAITING", "RUNNING"}

(* RequestStatus.executable_statuses *)
Executable == {"PENDING", "WAITING"}

(* A process is lost when its pool broke and it goes on: nobody gets its    *)
(* result and it takes no other work.                                       *)
Unborn == [pc |-> "unborn", req |-> NoReq, lost |-> FALSE]
Idle == [pc |-> "idle", req |-> NoReq, lost |-> FALSE]
Gone == [pc |-> "dead", req |-> NoReq, lost |-> FALSE]
Starting(r) == [pc |-> "start", req |-> r, lost |-> FALSE]

Alive(w) == worker[w].pc \notin {"unborn", "dead"}

(* The processes of the present pool. *)
Pool == {w \in PoolProcs : Alive(w) /\ ~worker[w].lost}

(* The process provisions or rolls back, under the lock of the cluster. *)
Provisions(w) == worker[w].pc \in {"cloud", "signalled", "rollback"}

(* It may be changing the cluster: the stages of a launch after PROVISION,  *)
(* and all those of an exec, do so without the lock.                        *)
CloudWork(w) == Provisions(w) \/ worker[w].pc = "cluster"

(* seen: the requests in the table at the latest query of the teardown. *)
NoDown == [pc |-> "idle", round |-> 1, tries |-> 2, seen |-> {},
           todo |-> {}, kill |-> {}, pend |-> {}]

TypeOK ==
    /\ status \in [Reqs -> Active \cup Finished \cup {"NONE"}]
    /\ pid \in [Reqs -> Workers \cup {NoWorker}]
    /\ owned \in [Reqs -> BOOLEAN]
    /\ sub \in [Reqs -> {"none", "gated", "enqueue", "failing", "done"}]
    /\ queued \subseteq Reqs
    /\ mon \in [Reqs -> {"none", "pooled", "running", "retry", "wait", "broken", "requeue"}]
    /\ worker \in [Workers ->
                     [pc: {"unborn", "idle", "dead", "start", "work", "cloud", "cluster",
                           "signalled", "rollback", "interrupted", "ok", "error", "pause", "ack"},
                      req: Reqs \cup {NoReq}, lost: BOOLEAN]]
    /\ lock \in Reqs \cup {"none", "down"}
    /\ down \in [pc: {"idle", "mark", "kill", "wait", "unlock", "lock", "cloud", "done", "failed"},
                 round: 1..2, tries: 0..2, seen: SUBSET Reqs,
                 todo: SUBSET Reqs, kill: SUBSET Reqs, pend: SUBSET Reqs]
    /\ env \in [fault: Faults \cup {"none"}, unacked: SUBSET Reqs,
                draining: BOOLEAN, todo: SUBSET Reqs]

Init ==
    /\ status = [r \in Reqs |-> "NONE"]
    /\ pid = [r \in Reqs |-> NoWorker]
    /\ owned = [r \in Reqs |-> FALSE]
    /\ sub = [r \in Reqs |-> "none"]
    /\ queued = {}
    /\ mon = [r \in Reqs |-> "none"]
    /\ worker = [w \in Workers |-> Unborn]
    /\ lock = "none"
    /\ down = NoDown
    /\ env \in [fault: Faults, unacked: {{}}, draining: {FALSE}, todo: {{}}]

-----------------------------------------------------------------------------
(* Updates of a row.                                                       *)

(* Faulty variant: a failure overwrites a cancellation. *)
FailedAlways(st) == "FAILED"

(* set_request_failed, set_request_succeeded: CANCELLED stands. *)
FailedUnlessCancelled(st) == IF st = "CANCELLED" THEN st ELSE "FAILED"

(* Faulty variant: a status that is not in RequestStatus. *)
SucceededAsDone(st) == IF st = "CANCELLED" THEN st ELSE "DONE"

SucceededUnlessCancelled(st) == IF st = "CANCELLED" THEN st ELSE "SUCCEEDED"

-----------------------------------------------------------------------------
(* schedule_request_async: insert the row, wait for the precondition,      *)
(* enqueue.                                                                *)

Submit(r) ==
    /\ sub[r] = "none"
    /\ ~env.draining
    /\ status' = [status EXCEPT ![r] = "PENDING"]
    /\ sub' = [sub EXCEPT ![r] = IF r \in Gated THEN "gated" ELSE "enqueue"]
    /\ UNCHANGED <<pid, owned, queued, mon, worker, lock, down, env>>

(* ClusterStartCompletePrecondition: the cluster's record reads UP, as the  *)
(* cloud and earlier requests left it, or no launch of it is active.        *)
ClusterIsUp(r) ==
    /\ sub[r] = "gated"
    /\ sub' = [sub EXCEPT ![r] = "enqueue"]
    /\ UNCHANGED <<row, queued, mon, worker, lock, down, env>>

PreconditionMet(r) ==
    /\ sub[r] = "gated"
    /\ \A l \in Reqs \ Gated : status[l] \notin Active
    /\ sub' = [sub EXCEPT ![r] = "enqueue"]
    /\ UNCHANGED <<row, queued, mon, worker, lock, down, env>>

PreconditionCancelled(r) ==
    /\ sub[r] = "gated"
    /\ status[r] = "CANCELLED"
    /\ sub' = [sub EXCEPT ![r] = "done"]
    /\ UNCHANGED <<row, queued, mon, worker, lock, down, env>>

(* The wait times out, or the check raises. *)
PreconditionFails(r) ==
    /\ sub[r] = "gated"
    /\ status' = [status EXCEPT ![r] = FailedUnlessCancelled(@)]
    /\ sub' = [sub EXCEPT ![r] = "done"]
    /\ UNCHANGED <<pid, owned, queued, mon, worker, lock, down, env>>

Enqueue(r) ==
    /\ sub[r] = "enqueue"
    /\ queued' = queued \cup {r}
    /\ sub' = [sub EXCEPT ![r] = "done"]
    /\ UNCHANGED <<row, mon, worker, lock, down, env>>

(* The put raises, whether or not the element arrived. *)
EnqueueFails(r) ==
    /\ env.fault = "enqueue"
    /\ env' = [env EXCEPT !.fault = "none"]
    /\ sub[r] = "enqueue"
    /\ queued' \in {queued, queued \cup {r}}
    /\ sub' = [sub EXCEPT ![r] = "failing"]
    /\ UNCHANGED <<row, mon, worker, lock, down>>

(* set_request_failed_if_pending_async *)
MarkUnqueued(r) ==
    /\ sub[r] = "failing"
    /\ status' = [status EXCEPT ![r] = IF @ = "PENDING" THEN "FAILED" ELSE @]
    /\ sub' = [sub EXCEPT ![r] = "done"]
    /\ UNCHANGED <<pid, owned, queued, mon, worker, lock, down, env>>

-----------------------------------------------------------------------------
(* RequestWorker.process_request: take an element, drop it if the request  *)
(* was cancelled, hand it to the pool.  submit_until_success prefers the   *)
(* pool while it has an idle process, then a burst process, then queues    *)
(* in the pool.                                                            *)

DropCancelled(r) ==
    /\ r \in queued
    /\ status[r] = "CANCELLED"
    /\ queued' = queued \ {r}
    /\ UNCHANGED <<row, sub, mon, worker, lock, down, env>>

PoolLoad ==
    Cardinality({r \in Reqs : mon[r] = "pooled"}
                \cup {r \in Reqs : \E w \in Pool : worker[w].req = r})

BurstFree == {w \in BurstProcs : worker[w] = Unborn
                 /\ Cardinality({v \in BurstProcs : Alive(v)}) < BurstSize}

Dispatch(r) ==
    /\ r \in queued
    /\ status[r] # "CANCELLED"
    /\ queued' = queued \ {r}
    /\ \/ /\ PoolLoad < PoolSize \/ BurstFree = {}
          /\ mon' = [mon EXCEPT ![r] = "pooled"]
          /\ UNCHANGED worker
       \/ /\ PoolLoad >= PoolSize
          /\ \E w \in BurstFree :
                worker' = [worker EXCEPT ![w] = Starting(r)]
          /\ mon' = [mon EXCEPT ![r] = "running"]
    /\ UNCHANGED <<row, sub, lock, down, env>>

(* The read of the row or the submission raises: the element is gone. *)
DispatchFails(r) ==
    /\ env.fault = "dispatch"
    /\ env' = [env EXCEPT !.fault = "none"]
    /\ r \in queued
    /\ queued' = queued \ {r}
    /\ UNCHANGED <<row, sub, mon, worker, lock, down>>

(* A process of the pool, started when the pool needs one, takes the work. *)
PoolStart(w, r) ==
    /\ mon[r] = "pooled"
    /\ w \in PoolProcs
    /\ \/ worker[w].pc = "idle"
       \/ /\ worker[w] = Unborn
          /\ Cardinality(Pool) < PoolSize
    /\ worker' = [worker EXCEPT ![w] = Starting(r)]
    /\ mon' = [mon EXCEPT ![r] = "running"]
    /\ UNCHANGED <<row, sub, queued, lock, down, env>>

-----------------------------------------------------------------------------
(* _request_execution_wrapper in process w.                                *)

Goto(w, pc) == worker' = [worker EXCEPT ![w].pc = pc]

Released(w) == IF w \in PoolProcs /\ ~worker[w].lost THEN Idle ELSE Gone

(* The future of process w is done: its monitor thread is at place m, if it *)
(* still waits for this process.                                            *)
Report(w, m) ==
    mon' = IF worker[w].lost THEN mon ELSE [mon EXCEPT ![worker[w].req] = m]

Unlocked(r) == IF lock = r THEN "none" ELSE lock

Begin(w) ==
    LET r == worker[w].req IN
    /\ worker[w].pc = "start"
    /\ \/ /\ status[r] \in Executable
          /\ pid' = [pid EXCEPT ![r] = w]
          /\ status' = [status EXCEPT ![r] = "RUNNING"]
          /\ Goto(w, "work")
       \/ /\ status[r] \notin Executable
          /\ Goto(w, "ack")
          /\ UNCHANGED <<pid, status>>
    /\ UNCHANGED <<owned, sub, queued, mon, lock, down, env>>

(* Stage.PROVISION of a launch (_locked_provision), and its LockTimeout:    *)
(* the request pauses until the lock looks free.                            *)
TakeLock(w) ==
    /\ worker[w].pc = "work"
    /\ worker[w].req \notin Gated
    /\ lock = "none"
    /\ lock' = worker[w].req
    /\ Goto(w, "cloud")
    /\ UNCHANGED <<row, sub, queued, mon, down, env>>

LockBusy(w) ==
    /\ worker[w].pc = "work"
    /\ worker[w].req \notin Gated
    /\ lock # "none"
    /\ Goto(w, "pause")
    /\ UNCHANGED <<row, sub, queued, mon, lock, down, env>>

(* The stages of an exec, which start without the lock. *)
ExecStarts(w) ==
    /\ worker[w].pc = "work"
    /\ worker[w].req \in Gated
    /\ Goto(w, "cluster")
    /\ UNCHANGED <<row, sub, queued, mon, lock, down, env>>

WorkFails(w) ==
    /\ worker[w].pc = "work"
    /\ Goto(w, "error")
    /\ UNCHANGED <<row, sub, queued, mon, lock, down, env>>

(* Provisioning fails, is retried later, or leaves the lock and goes on to  *)
(* the stages that follow it (sync, setup, autostop, exec).                 *)
CloudEnds(w) ==
    /\ worker[w].pc = "cloud"
    /\ lock' = Unlocked(worker[w].req)
    /\ \E out \in {"cluster", "error", "pause"} : Goto(w, out)
    /\ UNCHANGED <<row, sub, queued, mon, down, env>>

StagesEnd(w) ==
    /\ worker[w].pc = "cluster"
    /\ \E out \in {"ok", "error"} : Goto(w, out)
    /\ UNCHANGED <<row, sub, queued, mon, lock, down, env>>

(* A result that cannot be stored makes the request FAILED. *)
StoreResult(w) ==
    LET r == worker[w].req IN
    /\ worker[w].pc = "ok"
    /\ \E st \in {SucceededUnlessCancelled(status[r]), FailedUnlessCancelled(status[r])} :
          status' = [status EXCEPT ![r] = st]
    /\ Goto(w, "ack")
    /\ UNCHANGED <<pid, owned, sub, queued, mon, lock, down, env>>

StoreError(w) ==
    LET r == worker[w].req IN
    /\ worker[w].pc = "error"
    /\ status' = [status EXCEPT ![r] = FailedUnlessCancelled(@)]
    /\ Goto(w, "ack")
    /\ UNCHANGED <<pid, owned, sub, queued, mon, lock, down, env>>

(* Faulty variant: a parked request's row keeps naming the process. *)
PauseKeepsPid(w) ==
    /\ worker[w].pc = "pause"
    /\ worker' = [worker EXCEPT ![w] = Released(w)]
    /\ Report(w, "retry")
    /\ UNCHANGED <<row, sub, queued, lock, down, env>>

(* ExecutionRetryableError: clear the pid, free the process, and leave the  *)
(* rest to the monitor thread.                                              *)
Pause(w) ==
    LET r == worker[w].req IN
    /\ worker[w].pc = "pause"
    /\ pid' = [pid EXCEPT ![r] = NoWorker]
    /\ worker' = [worker EXCEPT ![w] = Released(w)]
    /\ Report(w, "retry")
    /\ UNCHANGED <<status, owned, sub, queued, lock, down, env>>

(* Faulty variant: the acknowledgement precedes the rollback. *)
UnwindEarlyAck(w) ==
    LET r == worker[w].req IN
    /\ worker[w].pc = "signalled"
    /\ pid' = [pid EXCEPT ![r] = NoWorker]
    /\ \/ owned[r] /\ Goto(w, "interrupted") /\ lock' = Unlocked(r)
       \/ ~owned[r] /\ Goto(w, "rollback") /\ UNCHANGED lock
    /\ UNCHANGED <<status, owned, sub, queued, mon, down, env>>

(* KeyboardInterrupt inside the provisioner: roll the cluster back, unless  *)
(* sky down or stop owns the cleanup.                                       *)
Unwind(w) ==
    LET r == worker[w].req IN
    /\ worker[w].pc = "signalled"
    /\ \/ owned[r] /\ Goto(w, "interrupted") /\ lock' = Unlocked(r)
       \/ ~owned[r] /\ Goto(w, "rollback") /\ UNCHANGED lock
    /\ UNCHANGED <<row, sub, queued, mon, down, env>>

RolledBack(w) ==
    /\ worker[w].pc = "rollback"
    /\ lock' = Unlocked(worker[w].req)
    /\ Goto(w, "interrupted")
    /\ UNCHANGED <<row, sub, queued, mon, down, env>>

(* Faulty variant: a cancelled request does not acknowledge. *)
AcknowledgeEnded(w) ==
    LET r == worker[w].req IN
    /\ worker[w].pc \in {"ack", "interrupted"}
    /\ pid' = [pid EXCEPT ![r] = IF status[r] = "CANCELLED" THEN @ ELSE NoWorker]
    /\ worker' = [worker EXCEPT ![w] = Released(w)]
    /\ Report(w, "none")
    /\ UNCHANGED <<status, owned, sub, queued, lock, down, env>>

(* The finally clause: the pid is cleared if it is this process's. *)
Acknowledge(w) ==
    LET r == worker[w].req IN
    /\ worker[w].pc \in {"ack", "interrupted"}
    /\ pid' = [pid EXCEPT ![r] = IF @ = w THEN NoWorker ELSE @]
    /\ worker' = [worker EXCEPT ![w] = Released(w)]
    /\ Report(w, "none")
    /\ UNCHANGED <<status, owned, sub, queued, lock, down, env>>

(* The update raises: the pid stays, and the process goes on to other work. *)
AcknowledgeFails(w) ==
    LET r == worker[w].req IN
    /\ env.fault = "ack"
    /\ worker[w].pc \in {"ack", "interrupted"}
    /\ env' = [env EXCEPT !.fault = "none",
                          !.unacked = IF pid[r] = w THEN {r} ELSE {}]
    /\ worker' = [worker EXCEPT ![w] = Released(w)]
    /\ Report(w, "none")
    /\ UNCHANGED <<row, sub, queued, lock, down>>

-----------------------------------------------------------------------------
(* RequestWorker.handle_task_result.                                       *)

(* The request is parked, whatever its status became after its process let  *)
(* go of it.                                                                *)
SetWaiting(r) ==
    /\ mon[r] = "retry"
    /\ status' = [status EXCEPT ![r] = "WAITING"]
    /\ owned' = [owned EXCEPT ![r] = FALSE]
    /\ mon' = [mon EXCEPT ![r] = "wait"]
    /\ UNCHANGED <<pid, sub, queued, worker, lock, down, env>>

(* Faulty variant: a wait that ends drops the request. *)
ResumeNever(r) ==
    /\ mon[r] = "wait"
    /\ lock = "none"
    /\ mon' = [mon EXCEPT ![r] = "none"]
    /\ UNCHANGED <<row, sub, queued, worker, lock, down, env>>

(* LockAcquirableCondition.wait polls until it sees the lock free; a pause  *)
(* without a condition sleeps.                                              *)
Resume(r) ==
    /\ mon[r] = "wait"
    /\ lock = "none"
    /\ queued' = queued \cup {r}
    /\ mon' = [mon EXCEPT ![r] = "none"]
    /\ UNCHANGED <<row, sub, worker, lock, down, env>>

(* The sleep of a pause without a condition, or of a wait whose probe       *)
(* raised, is over while the lock is taken.                                 *)
ResumeLocked(r) ==
    /\ mon[r] = "wait"
    /\ lock # "none"
    /\ queued' = queued \cup {r}
    /\ mon' = [mon EXCEPT ![r] = "none"]
    /\ UNCHANGED <<row, sub, worker, lock, down, env>>

(* The condition's wait saw the cancellation. *)
StopWaiting(r) ==
    /\ mon[r] = "wait"
    /\ status[r] = "CANCELLED"
    /\ mon' = [mon EXCEPT ![r] = "none"]
    /\ UNCHANGED <<row, sub, queued, worker, lock, down, env>>

(* The waiter rewrites the status message, a teardown's mark with it: the   *)
(* parked request's condition (_refresh_waiting_status_msg), which looks at  *)
(* the status, or the precondition, which does not.                         *)
RefreshMessage(r) ==
    /\ \/ mon[r] = "wait" /\ status[r] = "WAITING"
       \/ sub[r] = "gated"
    /\ owned[r]
    /\ owned' = [owned EXCEPT ![r] = FALSE]
    /\ UNCHANGED <<status, pid, sub, queued, mon, worker, lock, down, env>>

(* Faulty variant: a retryable request is put back as it is. *)
FailBrokenUnlessRetryable(r) ==
    /\ mon[r] = "broken"
    /\ status' = [status EXCEPT ![r] = IF r \in Retryable THEN @ ELSE FailedUnlessCancelled(@)]
    /\ mon' = [mon EXCEPT ![r] = IF r \in Retryable THEN "requeue" ELSE "none"]
    /\ UNCHANGED <<pid, owned, sub, queued, worker, lock, down, env>>

(* BrokenProcessPool: the request fails and, if retryable, is put back. *)
FailBroken(r) ==
    /\ mon[r] = "broken"
    /\ status' = [status EXCEPT ![r] = FailedUnlessCancelled(@)]
    /\ mon' = [mon EXCEPT ![r] = IF r \in Retryable THEN "requeue" ELSE "none"]
    /\ UNCHANGED <<pid, owned, sub, queued, worker, lock, down, env>>

RequeueBroken(r) ==
    /\ mon[r] = "requeue"
    /\ queued' = queued \cup {r}
    /\ mon' = [mon EXCEPT ![r] = "none"]
    /\ UNCHANGED <<row, sub, worker, lock, down, env>>

(* What SIGTERM does to process w: _gated_sigterm_handler ignores it unless *)
(* a request is being executed.                                             *)
AfterSignal(w) ==
    [worker[w] EXCEPT !.pc =
        CASE @ \in {"work", "cluster", "ok", "error", "pause"} -> "interrupted"
          [] @ = "cloud" -> "signalled"
          [] OTHER -> @]

(* A process of the pool dies.  The executor breaks every future of the     *)
(* pool and terminates its other processes with SIGTERM, which one between  *)
(* two requests may swallow; the next submission builds a new pool.  The    *)
(* operating system releases the lock of the dead process.                  *)
PoolDies(w) ==
    LET hit == {r \in Reqs :
                  \/ mon[r] = "pooled"
                  \/ mon[r] = "running" /\ \E v \in Pool : worker[v].req = r} IN
    /\ env.fault = "die"
    /\ env' = [env EXCEPT !.fault = "none"]
    /\ w \in Pool
    /\ \E spared \in SUBSET {v \in Pool \ {w} : worker[v].pc = "start"} :
          worker' = [v \in Workers |->
             IF v \notin Pool THEN worker[v]
             ELSE IF v \in spared THEN [worker[v] EXCEPT !.lost = TRUE]
             ELSE IF v = w \/ worker[v].pc \in {"idle", "start"} THEN Gone
             ELSE [AfterSignal(v) EXCEPT !.lost = TRUE]]
    /\ mon' = [r \in Reqs |-> IF r \in hit THEN "broken" ELSE mon[r]]
    /\ lock' = IF worker[w].req # NoReq THEN Unlocked(worker[w].req) ELSE lock
    /\ UNCHANGED <<row, sub, queued, down>>

(* A burst process dies: DisposableExecutor reports an empty result. *)
BurstDies(w) ==
    LET r == worker[w].req IN
    /\ env.fault = "die"
    /\ env' = [env EXCEPT !.fault = "none"]
    /\ w \in BurstProcs
    /\ Alive(w)
    /\ worker' = [worker EXCEPT ![w] = Gone]
    /\ mon' = [mon EXCEPT ![r] = "none"]
    /\ lock' = Unlocked(r)
    /\ UNCHANGED <<row, sub, queued, down>>

-----------------------------------------------------------------------------
(* Cancellation: signal the recorded process and write CANCELLED, under     *)
(* the lock of the row.                                                     *)

(* os.kill on a process that is gone raises. *)
Killable(r) == pid[r] \in Workers => Alive(pid[r])

Signal(r) ==
    worker' = IF pid[r] \in Workers
                THEN [worker EXCEPT ![pid[r]] = AfterSignal(pid[r])] ELSE worker

CancelRequest(r) ==
    /\ status[r] \in Active
    /\ Killable(r)
    /\ Signal(r)
    /\ status' = [status EXCEPT ![r] = "CANCELLED"]
    /\ UNCHANGED <<pid, owned, sub, queued, mon, lock, down, env>>

(* The server shuts down: the coordinator reads which requests are active   *)
(* and interrupts them, one row at a time.                                  *)
StartDrain ==
    /\ env.fault = "drain"
    /\ ~env.draining
    /\ env' = [env EXCEPT !.draining = TRUE,
                          !.todo = {r \in Reqs : status[r] \in {"PENDING", "RUNNING"}}]
    /\ UNCHANGED <<row, sub, queued, mon, worker, lock, down>>

Interrupt(r) ==
    /\ r \in env.todo
    /\ env' = [env EXCEPT !.todo = @ \ {r}]
    /\ Signal(r)
    /\ status' = [status EXCEPT ![r] = "CANCELLED"]
    /\ UNCHANGED <<pid, owned, sub, queued, mon, lock, down>>

-----------------------------------------------------------------------------
(* CloudVmRayBackend.teardown: kill the cluster's requests, wait for their  *)
(* acknowledgements, force the lock open, take it, and do the same once     *)
(* more inside (teardown_no_lock) before the cloud is touched.              *)

Queried == {r \in Reqs : status[r] \in Active \cup {"CANCELLED"}}
InTable == {r \in Reqs : status[r] # "NONE"}

(* Where teardown stands when a loop over requests has none left. *)
Settled(d) ==
    LET killing == IF d.pc = "mark" /\ d.todo = {}
                     THEN [d EXCEPT !.pc = "kill", !.pend = @ \cup d.kill] ELSE d
        waiting == IF killing.pc = "kill" /\ killing.kill = {}
                     THEN [killing EXCEPT !.pc = "wait"] ELSE killing
    IN IF waiting.pc = "wait" /\ waiting.pend = {}
         THEN [waiting EXCEPT !.pc = IF d.round = 1 THEN "unlock" ELSE "cloud"] ELSE waiting

DownStart ==
    /\ down.pc = "idle"
    /\ down' = Settled([down EXCEPT !.pc = "mark", !.todo = Queried, !.seen = InTable])
    /\ UNCHANGED <<row, sub, queued, mon, worker, lock, env>>

(* Faulty variant: requests cancelled earlier are taken as stopped. *)
MarkForgetsCancelled(r) ==
    /\ down.pc = "mark"
    /\ r \in down.todo
    /\ down' = Settled([down EXCEPT
                  !.todo = @ \ {r},
                  !.kill = IF status[r] \in Active THEN @ \cup {r} ELSE @])
    /\ owned' = [owned EXCEPT ![r] = @ \/ status[r] \in Active]
    /\ UNCHANGED <<status, pid, sub, queued, mon, worker, lock, env>>

(* kill_cluster_requests, one row at a time: mark the owner of the cleanup. *)
Mark(r) ==
    /\ down.pc = "mark"
    /\ r \in down.todo
    /\ down' = Settled([down EXCEPT
                  !.todo = @ \ {r},
                  !.kill = IF status[r] \in Active THEN @ \cup {r} ELSE @,
                  !.pend = IF status[r] = "CANCELLED" /\ pid[r] # NoWorker
                             THEN @ \cup {r} ELSE @])
    /\ owned' = [owned EXCEPT ![r] = @ \/ status[r] \in Active]
    /\ UNCHANGED <<status, pid, sub, queued, mon, worker, lock, env>>

KillOne(r) ==
    /\ down.pc = "kill"
    /\ r \in down.kill
    /\ down' = Settled([down EXCEPT !.kill = @ \ {r}])
    /\ \/ /\ status[r] \in Active
          /\ Killable(r)
          /\ Signal(r)
          /\ status' = [status EXCEPT ![r] = "CANCELLED"]
       \/ /\ status[r] \notin Active
          /\ UNCHANGED <<status, worker>>
    /\ UNCHANGED <<pid, owned, sub, queued, mon, lock, env>>

(* wait_for_request_cancellation *)
SeeAcknowledged(r) ==
    /\ down.pc = "wait"
    /\ r \in down.pend
    /\ pid[r] = NoWorker
    /\ down' = Settled([down EXCEPT !.pend = @ \ {r}])
    /\ UNCHANGED <<row, sub, queued, mon, worker, lock, env>>

(* The wait times out, a signal finds no process, or the lock stays taken   *)
(* twice: the teardown raises, and leaves the lock if it holds it.          *)
DownFails ==
    /\ \/ down.pc = "wait" /\ down.pend # {}
       \/ down.pc = "kill" /\ \E r \in down.kill : status[r] \in Active /\ ~Killable(r)
       \/ down.pc = "lock" /\ lock # "none" /\ down.tries = 1
    /\ down' = [NoDown EXCEPT !.pc = "failed"]
    /\ lock' = IF lock = "down" THEN "none" ELSE lock
    /\ UNCHANGED <<row, sub, queued, mon, worker, env>>

ForceUnlock ==
    /\ down.pc = "unlock"
    /\ lock' = "none"
    /\ down' = [down EXCEPT !.pc = "lock"]
    /\ UNCHANGED <<row, sub, queued, mon, worker, env>>

DownLocks ==
    /\ down.pc = "lock"
    /\ lock = "none"
    /\ lock' = "down"
    /\ down' = Settled([down EXCEPT !.pc = "mark", !.round = 2, !.todo = Queried,
                                  !.seen = InTable])
    /\ UNCHANGED <<row, sub, queued, mon, worker, env>>

DownRetries ==
    /\ down.pc = "lock"
    /\ lock # "none"
    /\ down.tries = 2
    /\ down' = Settled([down EXCEPT !.pc = "mark", !.tries = 1, !.todo = Queried,
                                  !.seen = InTable])
    /\ UNCHANGED <<row, sub, queued, mon, worker, lock, env>>

DownEnds ==
    /\ down.pc = "cloud"
    /\ lock' = "none"
    /\ down' = [NoDown EXCEPT !.pc = "done"]
    /\ UNCHANGED <<row, sub, queued, mon, worker, env>>

-----------------------------------------------------------------------------
Scheduling(r) ==
    \/ PreconditionMet(r)
    \/ PreconditionCancelled(r)
    \/ Enqueue(r)
    \/ MarkUnqueued(r)

Dispatcher(r) ==
    \/ DropCancelled(r)
    \/ Dispatch(r)
    \/ \E w \in PoolProcs : PoolStart(w, r)

(* The steps of a process that end: cloud calls do, one way or another. *)
Execution(w) ==
    \/ Begin(w)
    \/ TakeLock(w)
    \/ LockBusy(w)
    \/ ExecStarts(w)
    \/ CloudEnds(w)
    \/ StagesEnd(w)
    \/ StoreResult(w)
    \/ StoreError(w)
    \/ Pause(w)
    \/ Unwind(w)
    \/ RolledBack(w)
    \/ Acknowledge(w)

Monitor(r) ==
    \/ SetWaiting(r)
    \/ Resume(r)
    \/ FailBroken(r)
    \/ RequeueBroken(r)

Teardown ==
    \/ \E r \in Reqs : Mark(r) \/ KillOne(r) \/ SeeAcknowledged(r)
    \/ ForceUnlock
    \/ DownLocks
    \/ DownRetries
    \/ DownEnds

Next ==
    \/ \E r \in Reqs :
          \/ Submit(r)
          \/ Scheduling(r)
          \/ PreconditionFails(r)
          \/ EnqueueFails(r)
          \/ Dispatcher(r)
          \/ DispatchFails(r)
          \/ Monitor(r)
          \/ ClusterIsUp(r)
          \/ ResumeLocked(r)
          \/ StopWaiting(r)
          \/ RefreshMessage(r)
          \/ CancelRequest(r)
          \/ Interrupt(r)
    \/ \E w \in Workers : Execution(w) \/ WorkFails(w) \/ AcknowledgeFails(w)
                          \/ PoolDies(w) \/ BurstDies(w)
    \/ StartDrain
    \/ DownStart
    \/ DownFails
    \/ Teardown

Spec == Init /\ [][Next]_vars

(***************************************************************************)
(* Fairness: the dispatcher polls for ever, monitor threads and processes   *)
(* go on, and a cloud call returns.  A parked request's poll sees the lock  *)
(* free if the lock stays free, and perhaps not otherwise.  Nothing is      *)
(* assumed of clients, of failures or of the teardown.                      *)
(***************************************************************************)
Fairness ==
    /\ \A r \in Reqs :
          /\ WF_vars(Scheduling(r))
          /\ WF_vars(DropCancelled(r) \/ Dispatch(r))
          /\ SF_vars(\E w \in PoolProcs : PoolStart(w, r))
          /\ WF_vars(Monitor(r))
    /\ \A w \in Workers : WF_vars(Execution(w))

FairSpec == Spec /\ Fairness

-----------------------------------------------------------------------------
(* Properties.                                                             *)

(* sky down and sky stop touch the cloud only when no executor works on the *)
(* cluster for a request that the teardown could know of, not even to roll  *)
(* back, and none provisions, wherever the requests were when the teardown  *)
(* began and whatever was submitted, resumed or cancelled meanwhile: two    *)
(* actors on one cluster leak instances.  Two exceptions: an exec submitted *)
(* after the teardown's second query works without the lock, beside it; and *)
(* a process that outlives its broken pool still unwinds, while a teardown  *)
(* does not wait for the request, which failed.                             *)
TeardownExclusive ==
    down.pc = "cloud" =>
        \A w \in Workers : CloudWork(w) =>
            \/ worker[w].lost
            \/ worker[w].req \in Gated \ down.seen

(* The acknowledgement tells the truth: as long as a process works for a    *)
(* request, the request's row names that process, over reuse of processes   *)
(* for other requests, retries and cancellation.                            *)
PidNamesWorker ==
    \A w \in Workers :
        CloudWork(w) \/ worker[w].pc \in {"work", "ok", "error", "pause", "interrupted"}
        => pid[worker[w].req] = w

(* A request that reads RUNNING is held by a process, or a monitor thread   *)
(* is about to write what became of it: no retry, signal, broken pool or    *)
(* shutdown loses it.  The exception is a burst process that dies: its      *)
(* monitor reports an empty result and the request reads RUNNING for ever.  *)
RunningIsHeld ==
    \A r \in Reqs : status[r] = "RUNNING" =>
        \/ pid[r] \in Workers /\ worker[pid[r]].req = r
        \/ mon[r] \in {"retry", "broken"}
        \/ pid[r] \in BurstProcs /\ ~Alive(pid[r])

(* A signal meant for one request never stops another: a process unwinds    *)
(* only from a request that was cancelled, or because its pool broke.  (Two *)
(* failures could break this, of which a behaviour here has one: an ended   *)
(* row whose acknowledgement failed names a process that is used again, and *)
(* a shutdown signals the pid of every row that it read as active before.)  *)
InterruptedWasCancelled ==
    \A w \in Workers :
        worker[w].pc \in {"signalled", "rollback", "interrupted"} /\ ~worker[w].lost
        => status[worker[w].req] = "CANCELLED"

(* What a client was told stays true: an ended request keeps its status.    *)
(* Four places break this: the monitor thread that parks a request which    *)
(* was cancelled after its process had let go of it (see CancelIsTerminal), *)
(* the one that fails every request of a broken pool, finished or not, a    *)
(* process that outlives its pool and stores its result all the same, and   *)
(* the shutdown coordinator, which cancels what it once read as active.     *)
OutcomeStands ==
    [][\A r \in Reqs : status[r] \in Finished =>
          \/ status'[r] = status[r]
          \/ status[r] = "CANCELLED" /\ mon[r] = "retry"
          \/ status[r] = "SUCCEEDED" /\ mon[r] = "broken"
          \/ status[r] = "FAILED" /\ \E w \in Workers : worker[w].req = r /\ worker[w].lost
          \/ status'[r] = "CANCELLED" /\ r \in env.todo]_vars

(* A request in the queue or parked is not forgotten, over any number of    *)
(* pauses and however the other requests compete for the processes and the  *)
(* lock: a queued one is executed or ends whoever holds the lock, a parked  *)
(* one if in the end the lock stays free.  (A teardown that hangs with the  *)
(* lock keeps it parked for ever: the condition waits without a deadline.   *)
(* DispatchFails breaks this too: the dispatcher logs the error and the     *)
(* request stays PENDING.)                                                  *)
QueuedGetsRun ==
    \A r \in Reqs :
        /\ status[r] = "PENDING" /\ sub[r] # "gated" ~> status[r] # "PENDING"
        /\ <>[](lock = "none") => (status[r] = "WAITING" ~> status[r] # "WAITING")

(* A cancelled request's process acknowledges, so that a teardown need not  *)
(* time out, unless the process died or its update of the row failed.       *)
CancelAcknowledged ==
    \A r \in Reqs :
        status[r] = "CANCELLED" /\ pid[r] # NoWorker
        ~> \/ pid[r] = NoWorker
           \/ r \in env.unacked
           \/ \E w \in Workers : worker[w].pc = "dead"

-----------------------------------------------------------------------------
(* What comments of the code say, which the code does not do.              *)

(* requests.py, set_request_failed: "Cancellation is terminal." *)
CancelIsTerminal ==
    [][\A r \in Reqs : status[r] = "CANCELLED" => status'[r] = "CANCELLED"]_vars
=============================================================================
