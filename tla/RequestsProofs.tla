--------------------------- MODULE RequestsProofs ---------------------------
(***************************************************************************)
(* Proofs about Requests for every set of requests and processes, every    *)
(* size of the pools and every choice of faults.                           *)
(***************************************************************************)
EXTENDS Requests, TLAPS

(* Process w is inside the request's function, or unwinds from it. *)
Works(w) ==
    worker[w].pc \in {"work", "cloud", "cluster", "signalled", "rollback", "interrupted",
                      "ok", "error", "pause"}

Holds(w, r) == worker[w].req = r

(* A process has a request from its start to its release, and no other time. *)
BusyHasRequest ==
    \A w \in Workers :
        /\ worker[w].req = NoReq <=> worker[w].pc \in {"unborn", "idle", "dead"}
        /\ worker[w].lost => w \in PoolProcs /\ worker[w].req # NoReq
        /\ worker[w].pc = "idle" => w \in PoolProcs

(* A request is in one place: with the coroutine that submits it, in the    *)
(* queue, or with one monitor thread, which waits for one process.          *)
OnePlace ==
    /\ \A r \in Reqs : sub[r] \in {"none", "gated", "enqueue"} =>
          r \notin queued /\ mon[r] = "none" /\ \A w \in Workers : ~Holds(w, r)
    /\ \A r \in queued : mon[r] = "none"
    /\ \A w \in Workers : worker[w].req # NoReq /\ ~worker[w].lost =>
          mon[worker[w].req] = "running"
    /\ \A v, w \in Workers :
          /\ worker[w].req # NoReq /\ worker[w].req = worker[v].req
          /\ ~worker[v].lost /\ ~worker[w].lost
          => v = w

(* A request that is being submitted has the status it was inserted with,   *)
(* or was cancelled.                                                        *)
SubmittedStatus ==
    \A r \in Reqs :
        /\ sub[r] = "none" => status[r] = "NONE"
        /\ sub[r] = "gated" => status[r] \in {"PENDING", "CANCELLED"}
        /\ sub[r] # "none" => status[r] # "NONE"
        /\ r \in env.todo => sub[r] # "none"

(* The pid column names a process that works for the request, acknowledges  *)
(* it, died over it or failed to acknowledge it.                            *)
PidIsHolder ==
    \A r \in Reqs : pid[r] \in Workers =>
        /\ status[r] \in {"RUNNING"} \cup Finished
        /\ \/ worker[pid[r]].pc = "dead"
           \/ Holds(pid[r], r) /\ worker[pid[r]].pc # "start"
           \/ r \in env.unacked

(* A request whose acknowledgement failed has ended for good, and no other  *)
(* failure came before or comes after.                                      *)
UnackedIsOver ==
    /\ \A r \in env.unacked :
          /\ status[r] \in Finished /\ mon[r] # "retry"
          /\ \A w \in Workers : Works(w) => ~Holds(w, r)
    /\ env.unacked # {} => env.fault = "none"
    /\ env.unacked # {} \/ env.fault = "ack" =>
          env.todo = {} /\ \A w \in Workers : ~worker[w].lost

(* A request that some process works for is not executable, so that no      *)
(* other process begins it, and did not succeed.  It failed only if its     *)
(* pool broke.                                                              *)
WorkedIsTaken ==
    \A w \in Workers : Works(w) =>
        /\ pid[worker[w].req] = w
        /\ status[worker[w].req] \in {"RUNNING", "CANCELLED", "FAILED"}
        /\ ~worker[w].lost => status[worker[w].req] # "FAILED"

(* Nobody works for a request that is about to be parked. *)
RetryIsLetGo ==
    \A r \in Reqs : mon[r] = "retry" =>
        /\ status[r] \in {"RUNNING", "CANCELLED"}
        /\ pid[r] = NoWorker
        /\ \A w \in Workers : Works(w) => ~Holds(w, r)

(* An exec takes no lock and never pauses. *)
ExecNeverPauses ==
    /\ \A w \in Workers : worker[w].req \in Gated => worker[w].pc \notin {"cloud", "pause"}
    /\ \A r \in Gated : mon[r] # "retry"

(* A process that the row names and that was interrupted or is done holds a *)
(* request that no longer reads RUNNING, unless its pool broke.             *)
RunningIsAtWork ==
    \A r \in Reqs : status[r] = "RUNNING" =>
        \/ /\ pid[r] \in Workers
           /\ Holds(pid[r], r)
           /\ \/ worker[pid[r]].pc \in {"work", "cloud", "cluster", "ok", "error", "pause"}
              \/ mon[r] = "broken"
           /\ worker[pid[r]].lost => mon[r] = "broken"
        \/ mon[r] \in {"retry", "broken"}
        \/ pid[r] \in BurstProcs /\ ~Alive(pid[r])

(* A process that outlived its pool holds a request that is about to fail   *)
(* or has ended: no process of the new pool can be at work for it.          *)
LostIsOver ==
    \A w \in Workers : worker[w].lost =>
        /\ mon[worker[w].req] = "broken" \/ status[worker[w].req] \in Finished
        /\ mon[worker[w].req] # "retry"
        /\ \A v \in Workers : Works(v) /\ Holds(v, worker[w].req) => worker[v].lost

ExecutorInv ==
    /\ TypeOK
    /\ BusyHasRequest
    /\ OnePlace
    /\ SubmittedStatus
    /\ PidIsHolder
    /\ UnackedIsOver
    /\ WorkedIsTaken
    /\ RetryIsLetGo
    /\ ExecNeverPauses
    /\ RunningIsAtWork
    /\ LostIsOver
    /\ InterruptedWasCancelled

(* The second round of a teardown holds the lock, so that no process enters *)
(* the provisioner, and whoever is inside is on one of its lists.           *)
SecondRound ==
    /\ down.pc \in {"idle", "unlock", "lock", "done", "failed"} => down.round = 1
    /\ down.pc = "cloud" => down.round = 2
    /\ down.round = 2 => lock = "down"

Listed(d) == IF d.pc = "mark" THEN d.todo \cup d.kill \cup d.pend ELSE d.pend

(* Process w may be changing the cluster, or is about to without a lock. *)
Touches(w) == CloudWork(w) \/ (Works(w) /\ worker[w].req \in Gated)

InsideIsListed ==
    down.round = 2 =>
        \A w \in Workers :
            Touches(w) /\ ~worker[w].lost /\ worker[w].req \notin Gated \ down.seen =>
            down.pc # "cloud" /\ worker[w].req \in Listed(down)

(* Requests that the teardown has yet to look at or to kill. *)
Left(d) == IF d.pc = "mark" THEN d.todo \cup d.kill ELSE IF d.pc = "kill" THEN d.kill ELSE {}

(* An exec that the second query found can start only while the teardown    *)
(* has yet to kill it.                                                      *)
ExecIsListed ==
    /\ \A r \in down.seen : status[r] # "NONE"
    /\ down.round = 2 => \A r \in Gated \cap down.seen :
          status[r] \in Active => r \in Left(down) \cap Listed(down)

DownInv == SecondRound /\ InsideIsListed /\ ExecIsListed

RequestsInv == ExecutorInv /\ DownInv

(* A step of anybody but a process whose acknowledgement fails. *)
EnvMoves ==
    /\ env' \in [fault: Faults \cup {"none"}, unacked: SUBSET Reqs,
                draining: BOOLEAN, todo: SUBSET Reqs]
    /\ env'.unacked = env.unacked
    /\ env'.fault \in {env.fault, "none"}
    /\ env.fault # "drain" => env'.todo \subseteq env.todo

Statuses == Active \cup Finished \cup {"NONE"}
Monitors == {"none", "pooled", "running", "retry", "wait", "broken", "requeue"}
WorkerType ==
    [pc: {"unborn", "idle", "dead", "start", "work", "cloud", "cluster", "signalled",
          "rollback", "interrupted", "ok", "error", "pause", "ack"},
     req: Reqs \cup {NoReq}, lost: BOOLEAN]
DownType ==
    [pc: {"idle", "mark", "kill", "wait", "unlock", "lock", "cloud", "done", "failed"},
     round: 1..2, tries: 0..2, seen: SUBSET Reqs,
     todo: SUBSET Reqs, kill: SUBSET Reqs, pend: SUBSET Reqs]
EnvType == [fault: Faults \cup {"none"}, unacked: SUBSET Reqs,
            draining: BOOLEAN, todo: SUBSET Reqs]

(* TypeOK, variable by variable. *)
LEMMA TypeParts ==
    TypeOK <=> /\ status \in [Reqs -> Statuses]
               /\ pid \in [Reqs -> Workers \cup {NoWorker}]
               /\ owned \in [Reqs -> BOOLEAN]
               /\ sub \in [Reqs -> {"none", "gated", "enqueue", "failing", "done"}]
               /\ queued \subseteq Reqs
               /\ mon \in [Reqs -> Monitors]
               /\ worker \in [Workers -> WorkerType]
               /\ lock \in Reqs \cup {"none", "down"}
               /\ down \in DownType
               /\ env \in EnvType
BY DEF TypeOK, Statuses, Monitors, WorkerType, DownType, EnvType

(* An empty server. *)
LEMMA RequestsInvInit == Init => RequestsInv
<1> SUFFICES ASSUME Init PROVE RequestsInv
  OBVIOUS
<1>1. worker \in [Workers -> WorkerType] /\ \A w \in Workers : worker[w] = Unborn
  BY DEF Init, Unborn, WorkerType
<1>2. down \in DownType /\ down.round = 1 /\ down.pc = "idle" /\ down.seen = {}
  BY DEF Init, NoDown, DownType
<1>3. env \in EnvType /\ env.todo = {} /\ env.unacked = {}
  BY DEF Init, EnvType
<1>4. TypeOK
  BY <1>1, <1>2, <1>3, TypeParts DEF Init, Statuses, Monitors
<1>5. BusyHasRequest
  BY <1>1 DEF BusyHasRequest, Unborn
<1>6. OnePlace
  BY <1>1, RequestsAssumption DEF Init, OnePlace, Holds, Unborn
<1>7. SubmittedStatus /\ PidIsHolder /\ RetryIsLetGo /\ RunningIsAtWork
  BY <1>3, RequestsAssumption
     DEF Init, SubmittedStatus, PidIsHolder, RetryIsLetGo, RunningIsAtWork, Workers
<1>8. WorkedIsTaken /\ InterruptedWasCancelled /\ LostIsOver
  BY <1>1 DEF WorkedIsTaken, InterruptedWasCancelled, LostIsOver, Works, Unborn
<1>9. DownInv
  BY <1>2 DEF DownInv, SecondRound, InsideIsListed, ExecIsListed
<1>10. UnackedIsOver /\ ExecNeverPauses
  BY <1>1, <1>3, RequestsAssumption DEF Init, UnackedIsOver, ExecNeverPauses, Unborn
<1> QED
  BY <1>4, <1>5, <1>6, <1>7, <1>8, <1>9, <1>10 DEF RequestsInv, ExecutorInv

-----------------------------------------------------------------------------
(* Frames.                                                                 *)

(* A step that leaves the rows, the queue, the monitors and the processes   *)
(* as they are.                                                             *)
LEMMA ExecutorUntouched ==
    ASSUME ExecutorInv, TypeOK', UNCHANGED <<status, pid, sub, queued, mon, worker>>,
           EnvMoves, \A r \in Reqs : r \in env'.todo => r \in env.todo \/ status[r] # "NONE"
    PROVE  ExecutorInv'
<1> USE DEF ExecutorInv
<1>1. BusyHasRequest' /\ OnePlace' /\ PidIsHolder' /\ WorkedIsTaken' /\ RetryIsLetGo'
  BY DEF BusyHasRequest, OnePlace, PidIsHolder, EnvMoves, WorkedIsTaken, RetryIsLetGo,
     Works, Holds
<1>2. SubmittedStatus'
  BY DEF SubmittedStatus
<1>3. RunningIsAtWork' /\ InterruptedWasCancelled' /\ LostIsOver'
  BY DEF RunningIsAtWork, InterruptedWasCancelled, LostIsOver, Works, Holds, Alive
<1>4. UnackedIsOver' /\ ExecNeverPauses'
  BY DEF UnackedIsOver, ExecNeverPauses, EnvMoves, Works, Holds, TypeOK
<1> QED
  BY <1>1, <1>2, <1>3, <1>4

(* A step of the submission, the dispatcher or the monitor of request r     *)
(* that touches no process keeps the invariant if what it makes of r fits   *)
(* the processes that hold r.                                               *)
LEMMA RequestMoves ==
    ASSUME ExecutorInv, TypeOK', NEW r \in Reqs,
           UNCHANGED <<pid, worker>>,
           EnvMoves, \A q \in Reqs : q \in env'.todo => q \in env.todo,
           \A q \in Reqs : q # r =>
              /\ status'[q] = status[q] /\ sub'[q] = sub[q] /\ mon'[q] = mon[q]
              /\ q \in queued' <=> q \in queued,
           sub'[r] \in {"none", "gated", "enqueue"} =>
              r \notin queued' /\ mon'[r] = "none" /\ \A w \in Workers : ~Holds(w, r),
           r \in queued' => mon'[r] = "none",
           mon[r] = "running" => mon'[r] = "running",
           sub'[r] # "none", status'[r] # "NONE",
           sub'[r] = "gated" => status'[r] \in {"PENDING", "CANCELLED"},
           mon'[r] = "retry" => mon[r] = "retry",
           status'[r] # status[r] =>
              /\ status'[r] \notin {"RUNNING"}
              /\ \/ \A w \in Workers : Works(w) => ~Holds(w, r)
                 \/ status'[r] = "CANCELLED"
                 \/ status'[r] = "FAILED" /\ status[r] # "CANCELLED" /\ mon[r] = "broken",
           status'[r] # status[r] => mon'[r] # "retry",
           status'[r] # status[r] => status'[r] \in Finished \/ pid[r] \notin Workers,
           mon[r] = "broken" => mon'[r] = "broken" \/ status'[r] \in Finished,
           status[r] \in Finished /\ mon[r] # "retry" => status'[r] \in Finished,
           status'[r] = "RUNNING" => mon'[r] = mon[r] \/ mon[r] \notin {"retry", "broken"}
    PROVE  ExecutorInv'
<1> USE DEF ExecutorInv
<1>1. BusyHasRequest' /\ PidIsHolder'
  BY DEF BusyHasRequest, PidIsHolder, EnvMoves, Holds
<1>0. UnackedIsOver' /\ ExecNeverPauses'
  BY RequestsAssumption DEF UnackedIsOver, ExecNeverPauses, EnvMoves, Works, Holds, TypeOK
<1>2. \A w \in Workers : worker[w].req # NoReq => worker[w].req \in Reqs
  BY TypeParts DEF WorkerType
<1>3. OnePlace'
  <2>1. \A q \in Reqs : sub'[q] \in {"none", "gated", "enqueue"} =>
          q \notin queued' /\ mon'[q] = "none" /\ \A w \in Workers : ~Holds(w, q)'
    BY DEF OnePlace, Holds
  <2>2. \A q \in queued' : mon'[q] = "none"
    BY DEF OnePlace, TypeOK
  <2>3. \A w \in Workers : worker'[w].req # NoReq /\ ~worker'[w].lost =>
          mon'[worker'[w].req] = "running"
    BY <1>2 DEF OnePlace
  <2>4. \A v, w \in Workers :
          /\ worker'[w].req # NoReq /\ worker'[w].req = worker'[v].req
          /\ ~worker'[v].lost /\ ~worker'[w].lost
          => v = w
    BY DEF OnePlace
  <2> QED
    BY <2>1, <2>2, <2>3, <2>4 DEF OnePlace
<1>4. SubmittedStatus'
  BY DEF SubmittedStatus
<1>5. \A w \in Workers : Works(w) => worker[w].req \in Reqs
  BY <1>2 DEF Works, BusyHasRequest
<1>6. WorkedIsTaken'
  <2> SUFFICES ASSUME NEW w \in Workers, Works(w)
               PROVE  /\ pid[worker[w].req] = w
                      /\ status'[worker[w].req] \in {"RUNNING", "CANCELLED", "FAILED"}
                      /\ ~worker[w].lost => status'[worker[w].req] # "FAILED"
    BY DEF WorkedIsTaken, Works
  <2>1. CASE worker[w].req # r
    BY <1>5, <2>1 DEF WorkedIsTaken
  <2>2. CASE worker[w].req = r /\ status'[r] = status[r]
    BY <2>2 DEF WorkedIsTaken
  <2>3. CASE worker[w].req = r /\ status'[r] # status[r]
    <3>1. worker[w].lost \/ mon[r] = "running"
      BY <1>5, <2>3 DEF OnePlace, Works, BusyHasRequest
    <3>2. status'[r] \in {"CANCELLED", "FAILED"}
      BY <2>3 DEF Holds
    <3> QED
      BY <2>3, <3>1, <3>2 DEF WorkedIsTaken, Holds
  <2> QED
    BY <2>1, <2>2, <2>3
<1>7. RetryIsLetGo'
  BY DEF RetryIsLetGo, Works, Holds
<1>8. RunningIsAtWork'
  <2> SUFFICES ASSUME NEW q \in Reqs, status'[q] = "RUNNING"
               PROVE  \/ /\ pid[q] \in Workers
                         /\ Holds(pid[q], q)
                         /\ \/ worker[pid[q]].pc \in {"work", "cloud", "cluster", "ok", "error", "pause"}
                            \/ mon'[q] = "broken"
                         /\ worker[pid[q]].lost => mon'[q] = "broken"
                      \/ mon'[q] \in {"retry", "broken"}
                      \/ pid[q] \in BurstProcs /\ ~Alive(pid[q])
    BY DEF RunningIsAtWork, Holds, Alive
  <2>1. status[q] = "RUNNING"
    OBVIOUS
  <2>2. mon'[q] = mon[q] \/ mon[q] \notin {"retry", "broken"}
    OBVIOUS
  <2> QED
    BY <2>1, <2>2 DEF RunningIsAtWork
<1>9. InterruptedWasCancelled'
  <2> SUFFICES ASSUME NEW w \in Workers, ~worker[w].lost,
                      worker[w].pc \in {"signalled", "rollback", "interrupted"}
               PROVE  status'[worker[w].req] = "CANCELLED"
    BY DEF InterruptedWasCancelled
  <2>1. Works(w) /\ worker[w].req \in Reqs /\ status[worker[w].req] = "CANCELLED"
    BY <1>5 DEF Works, InterruptedWasCancelled
  <2>2. mon[worker[w].req] = "running"
    BY <2>1 DEF OnePlace, Works, BusyHasRequest
  <2> QED
    BY <2>1, <2>2 DEF Holds
<1>10. LostIsOver'
  <2>1. \A w \in Workers : worker[w].lost => worker[w].req \in Reqs
    BY <1>2 DEF BusyHasRequest
  <2>2. \A w \in Workers : worker[w].lost =>
           /\ mon'[worker[w].req] = "broken" \/ status'[worker[w].req] \in Finished
           /\ mon'[worker[w].req] # "retry"
    BY <2>1 DEF LostIsOver
  <2> QED
    BY <2>2 DEF LostIsOver, Works, Holds
<1> QED
  BY <1>0, <1>1, <1>3, <1>4, <1>6, <1>7, <1>8, <1>9, <1>10

(* A process at work goes on: it was not interrupted and is not, or it was  *)
(* and unwinds.                                                             *)
LEMMA WorkerMoves ==
    ASSUME ExecutorInv, NEW w \in Workers, NEW x, Goto(w, x),
           \/ /\ worker[w].pc \in {"work", "cloud", "cluster", "ok", "error", "pause"}
              /\ x \in {"work", "cloud", "cluster", "ok", "error", "pause"}
           \/ /\ worker[w].pc \in {"signalled", "rollback", "interrupted"}
              /\ x \in {"rollback", "interrupted"},
           worker[w].req \in Gated => x \notin {"cloud", "pause"},
           UNCHANGED <<status, pid, sub, queued, mon, env>>,
           lock' \in Reqs \cup {"none", "down"}, UNCHANGED <<owned, down>>
    PROVE  ExecutorInv'
<1> USE DEF ExecutorInv
<1>1. /\ worker' \in [Workers -> WorkerType]
      /\ \A v \in Workers : v # w => worker'[v] = worker[v]
      /\ worker'[w].pc = x /\ worker'[w].req = worker[w].req /\ worker'[w].lost = worker[w].lost
  BY TypeParts DEF Goto, WorkerType
<1>2. TypeOK'
  BY <1>1 DEF TypeOK, WorkerType
<1>3. \A v \in Workers : /\ Works(v)' <=> Works(v)
                         /\ worker'[v].req = worker[v].req
                         /\ worker'[v].lost = worker[v].lost
  BY <1>1 DEF Works
<1>4. BusyHasRequest'
  BY <1>1 DEF BusyHasRequest
<1>5. OnePlace' /\ SubmittedStatus' /\ RetryIsLetGo'
  BY <1>3 DEF OnePlace, SubmittedStatus, RetryIsLetGo, Holds
<1>6. PidIsHolder'
  BY <1>1 DEF PidIsHolder, Holds
<1>7. WorkedIsTaken'
  BY <1>3 DEF WorkedIsTaken
<1>8. RunningIsAtWork'
  BY <1>1, RequestsAssumption DEF RunningIsAtWork, Holds, Alive, Workers
<1>9. InterruptedWasCancelled' /\ LostIsOver'
  BY <1>1, <1>3 DEF InterruptedWasCancelled, LostIsOver, Holds
<1>10. UnackedIsOver' /\ ExecNeverPauses'
  BY <1>1, <1>3 DEF UnackedIsOver, ExecNeverPauses, Holds
<1> QED
  BY <1>10, <1>2, <1>4, <1>5, <1>6, <1>7, <1>8, <1>9

(* What the teardown relies on survives a step of anybody else that lets no *)
(* process into the provisioner while the lock is the teardown's.           *)
LEMMA DownUntouched ==
    ASSUME DownInv, UNCHANGED down,
           lock = "down" => lock' = "down",
           \A r \in Reqs : status[r] # "NONE" =>
              /\ status'[r] # "NONE"
              /\ r \in Gated /\ status'[r] \in Active => status[r] \in Active,
           \A w \in Workers : Touches(w)' /\ ~worker'[w].lost =>
              \/ Touches(w) /\ ~worker[w].lost /\ worker'[w].req = worker[w].req
              \/ lock = "none"
              \/ worker'[w].req \in Gated /\ status[worker'[w].req] \in Active,
           down \in DownType
    PROVE  DownInv'
<1>1. down.seen \subseteq Reqs /\ Gated \subseteq Reqs
  BY RequestsAssumption DEF DownType
<1>2. SecondRound' /\ SecondRound
  BY DEF DownInv, SecondRound
<1>3. ExecIsListed'
  BY <1>1 DEF DownInv, ExecIsListed, Left, Listed
<1>4. ASSUME down.round = 2, NEW w \in Workers, Touches(w)', ~worker'[w].lost,
             worker'[w].req \notin Gated \ down.seen
      PROVE  down.pc # "cloud" /\ worker'[w].req \in Listed(down)
  <2>1. CASE Touches(w) /\ ~worker[w].lost /\ worker'[w].req = worker[w].req
    BY <1>4, <2>1 DEF DownInv, InsideIsListed
  <2>2. CASE worker'[w].req \in Gated /\ status[worker'[w].req] \in Active
    BY <1>4, <2>2 DEF DownInv, ExecIsListed, Left, Listed
  <2> QED
    BY <1>2, <1>4, <2>1, <2>2 DEF SecondRound
<1>5. InsideIsListed'
  BY <1>4 DEF InsideIsListed, Listed
<1> QED
  BY <1>2, <1>3, <1>5 DEF DownInv

(* The processes are as they were, for the teardown. *)
LEMMA TouchesSame ==
    ASSUME UNCHANGED worker
    PROVE  \A w \in Workers : Touches(w)' <=> Touches(w)
BY DEF Touches, CloudWork, Provisions, Works

(* Releasing one's own lock does not release the teardown's. *)
LEMMA UnlockedKeepsDown ==
    ASSUME TypeOK, NEW r \in Reqs
    PROVE  /\ Unlocked(r) \in Reqs \cup {"none", "down"}
           /\ lock = "down" => Unlocked(r) = "down"
BY RequestsAssumption DEF TypeOK, Unlocked

-----------------------------------------------------------------------------
(* Submission, dispatcher and monitor threads.                             *)

(* Inserting a request, its precondition and its way into the queue.        *)
LEMMA SubmissionKeeps ==
    ASSUME RequestsInv, NEW r \in Reqs,
           \/ Submit(r) \/ ClusterIsUp(r) \/ PreconditionMet(r) \/ PreconditionCancelled(r)
           \/ PreconditionFails(r) \/ Enqueue(r) \/ EnqueueFails(r) \/ MarkUnqueued(r)
    PROVE  RequestsInv'
<1>0. ExecutorInv /\ DownInv /\ TypeOK
  BY DEF RequestsInv, ExecutorInv
<1>d. /\ UNCHANGED <<pid, worker, lock, down>> /\ down \in DownType
      /\ \A q \in Reqs \ {r} : status'[q] = status[q]
      /\ status[r] = "NONE" \/ status'[r] = status[r] \/ status'[r] = "FAILED"
  <2>1. sub[r] = "none" => status[r] = "NONE"
    BY <1>0 DEF ExecutorInv, SubmittedStatus
  <2> QED
    BY <1>0, <2>1, TypeParts
       DEF Submit, ClusterIsUp, PreconditionMet, PreconditionCancelled,
       PreconditionFails, Enqueue, EnqueueFails, MarkUnqueued, FailedUnlessCancelled, row
<1>a. DownInv'
  BY <1>0, <1>d, DownUntouched, TouchesSame DEF Active
<1>e. EnvMoves
  BY <1>0, TypeParts DEF Submit, ClusterIsUp, PreconditionMet, PreconditionCancelled,
     PreconditionFails, Enqueue, EnqueueFails, MarkUnqueued, EnvMoves, EnvType
<1>b. sub[r] \in {"none", "gated", "enqueue"} =>
        r \notin queued /\ mon[r] = "none" /\ \A w \in Workers : ~Holds(w, r)
  BY <1>0 DEF ExecutorInv, OnePlace
<1>c. /\ sub[r] = "gated" => status[r] \in {"PENDING", "CANCELLED"}
      /\ sub[r] # "none" => status[r] # "NONE"
  BY <1>0 DEF ExecutorInv, SubmittedStatus
<1>1. CASE Submit(r)
  <2>1. TypeOK'
    BY <1>0, <1>1 DEF Submit, TypeOK, Active
  <2>2. status[r] = "NONE"
    BY <1>0, <1>1 DEF Submit, ExecutorInv, SubmittedStatus
  <2>3. pid[r] \notin Workers
    BY <1>0, <2>2 DEF ExecutorInv, PidIsHolder, Finished
  <2> QED
    BY <1>0, <1>1, <1>a, <1>b, <1>e, <2>1, <2>2, <2>3, RequestMoves
    DEF Submit, RequestsInv, TypeOK, Finished
<1>8. CASE ClusterIsUp(r)
  <2>1. TypeOK'
    BY <1>0, <1>8 DEF ClusterIsUp, TypeOK, row
  <2> QED
    BY <1>0, <1>8, <1>a, <1>b, <1>c, <1>e, <2>1, RequestMoves
       DEF ClusterIsUp, RequestsInv, TypeOK, row
<1>2. CASE PreconditionMet(r)
  <2>1. TypeOK'
    BY <1>0, <1>2 DEF PreconditionMet, TypeOK, row
  <2> QED
    BY <1>0, <1>2, <1>a, <1>b, <1>c, <1>e, <2>1, RequestMoves
       DEF PreconditionMet, RequestsInv, TypeOK, row
<1>3. CASE PreconditionCancelled(r)
  <2>1. TypeOK'
    BY <1>0, <1>3 DEF PreconditionCancelled, TypeOK, row
  <2> QED
    BY <1>0, <1>3, <1>a, <1>b, <1>c, <1>e, <2>1, RequestMoves
       DEF PreconditionCancelled, RequestsInv, TypeOK, row
<1>4. CASE PreconditionFails(r)
  <2>1. TypeOK'
    BY <1>0, <1>4 DEF PreconditionFails, FailedUnlessCancelled, TypeOK, Finished
  <2> QED
    BY <1>0, <1>4, <1>a, <1>b, <1>c, <1>e, <2>1, RequestMoves
    DEF PreconditionFails, FailedUnlessCancelled, RequestsInv, TypeOK, Finished
<1>5. CASE Enqueue(r)
  <2>1. TypeOK'
    BY <1>0, <1>5 DEF Enqueue, TypeOK, row
  <2> QED
    BY <1>0, <1>5, <1>a, <1>b, <1>c, <1>e, <2>1, RequestMoves
       DEF Enqueue, RequestsInv, TypeOK, row
<1>6. CASE EnqueueFails(r)
  <2>0. env' \in EnvType /\ env'.todo = env.todo
    BY <1>0, <1>6, TypeParts DEF EnqueueFails, EnvType
  <2>1. TypeOK'
    BY <1>0, <1>6, <2>0 DEF EnqueueFails, TypeOK, EnvType, row
  <2> QED
    BY <1>0, <1>6, <1>a, <1>b, <1>c, <1>e, <2>0, <2>1, RequestMoves
       DEF EnqueueFails, RequestsInv, TypeOK, row
<1>7. CASE MarkUnqueued(r)
  <2>1. TypeOK'
    BY <1>0, <1>7 DEF MarkUnqueued, TypeOK, Finished
  <2>2. status[r] = "PENDING" => \A w \in Workers : Works(w) => ~Holds(w, r)
    BY <1>0 DEF ExecutorInv, WorkedIsTaken, Holds, Executable
  <2>3. status[r] = "PENDING" => mon[r] # "retry"
    BY <1>0 DEF ExecutorInv, RetryIsLetGo
  <2>4. r \in queued => mon[r] = "none"
    BY <1>0 DEF ExecutorInv, OnePlace
  <2> QED
    BY <1>0, <1>7, <1>a, <1>c, <1>e, <2>1, <2>2, <2>3, <2>4, RequestMoves
    DEF MarkUnqueued, RequestsInv, TypeOK, Finished
<1> QED
  BY <1>1, <1>2, <1>3, <1>4, <1>5, <1>6, <1>7, <1>8

(* The dispatcher drops an element; a monitor thread parks, resumes, fails  *)
(* or puts back its request.                                                *)
LEMMA MonitorKeeps ==
    ASSUME RequestsInv, NEW r \in Reqs,
           \/ DropCancelled(r) \/ DispatchFails(r) \/ SetWaiting(r) \/ Resume(r)
           \/ ResumeLocked(r)
           \/ StopWaiting(r) \/ FailBroken(r) \/ RequeueBroken(r) \/ RefreshMessage(r)
    PROVE  RequestsInv'
<1>0. ExecutorInv /\ DownInv /\ TypeOK
  BY DEF RequestsInv, ExecutorInv
<1>d. /\ UNCHANGED <<pid, worker, lock, down>> /\ down \in DownType
      /\ \A q \in Reqs \ {r} : status'[q] = status[q]
      /\ \/ status'[r] \in {status[r], "FAILED"}
         \/ status'[r] = "WAITING" /\ r \notin Gated
  <2>1. mon[r] = "retry" => r \notin Gated
    BY <1>0 DEF ExecutorInv, ExecNeverPauses
  <2> QED
    BY <1>0, <2>1, TypeParts
       DEF DropCancelled, DispatchFails, SetWaiting, Resume, ResumeLocked,
       StopWaiting, FailBroken, RequeueBroken, RefreshMessage, FailedUnlessCancelled, row
<1>a. DownInv'
  BY <1>0, <1>d, DownUntouched, TouchesSame DEF Active
<1>e. EnvMoves
  BY <1>0, TypeParts DEF DropCancelled, DispatchFails, SetWaiting, Resume, ResumeLocked,
     StopWaiting, FailBroken, RequeueBroken, RefreshMessage, EnvMoves, EnvType
<1>b. /\ sub[r] \in {"none", "gated", "enqueue"} =>
           r \notin queued /\ mon[r] = "none" /\ \A w \in Workers : ~Holds(w, r)
      /\ r \in queued => mon[r] = "none"
  BY <1>0 DEF ExecutorInv, OnePlace
<1>c. /\ sub[r] = "gated" => status[r] \in {"PENDING", "CANCELLED"}
      /\ sub[r] # "none" => status[r] # "NONE"
  BY <1>0 DEF ExecutorInv, SubmittedStatus
<1>1. CASE DropCancelled(r)
  <2>1. TypeOK'
    BY <1>0, <1>1 DEF DropCancelled, TypeOK, row
  <2> QED
    BY <1>0, <1>1, <1>a, <1>b, <1>c, <1>e, <2>1, RequestMoves
       DEF DropCancelled, RequestsInv, row
<1>2. CASE DispatchFails(r)
  <2>0. env' \in EnvType /\ env'.todo = env.todo
    BY <1>0, <1>2, TypeParts DEF DispatchFails, EnvType
  <2>1. TypeOK'
    BY <1>0, <1>2, <2>0 DEF DispatchFails, TypeOK, EnvType, row
  <2> QED
    BY <1>0, <1>2, <1>a, <1>b, <1>c, <1>e, <2>0, <2>1, RequestMoves
       DEF DispatchFails, RequestsInv, row
<1>3. CASE SetWaiting(r)
  <2>1. TypeOK'
    BY <1>0, <1>3 DEF SetWaiting, TypeOK, Active
  <2>2. pid[r] \notin Workers /\ \A w \in Workers : Works(w) => ~Holds(w, r)
    BY <1>0, <1>3, RequestsAssumption DEF Workers, ExecutorInv, RetryIsLetGo, SetWaiting
  <2> QED
    BY <1>0, <1>3, <1>a, <1>b, <1>c, <1>e, <2>1, <2>2, RequestMoves
       DEF SetWaiting, RequestsInv, TypeOK
<1>4. CASE Resume(r)
  <2>1. TypeOK'
    BY <1>0, <1>4 DEF Resume, TypeOK, row
  <2> QED
    BY <1>0, <1>4, <1>a, <1>b, <1>c, <1>e, <2>1, RequestMoves
       DEF Resume, RequestsInv, TypeOK, row
<1>9. CASE ResumeLocked(r)
  <2>1. TypeOK'
    BY <1>0, <1>9 DEF ResumeLocked, TypeOK, row
  <2> QED
    BY <1>0, <1>9, <1>a, <1>b, <1>c, <1>e, <2>1, RequestMoves
       DEF ResumeLocked, RequestsInv, TypeOK, row
<1>5. CASE StopWaiting(r)
  <2>1. TypeOK'
    BY <1>0, <1>5 DEF StopWaiting, TypeOK, row
  <2> QED
    BY <1>0, <1>5, <1>a, <1>b, <1>c, <1>e, <2>1, RequestMoves
       DEF StopWaiting, RequestsInv, TypeOK, row
<1>6. CASE FailBroken(r)
  <2>1. TypeOK'
    BY <1>0, <1>6 DEF FailBroken, FailedUnlessCancelled, TypeOK, Finished
  <2> QED
    BY <1>0, <1>6, <1>a, <1>b, <1>c, <1>e, <2>1, RequestMoves
    DEF FailBroken, FailedUnlessCancelled, RequestsInv, TypeOK, Executable, Finished
<1>7. CASE RequeueBroken(r)
  <2>1. TypeOK'
    BY <1>0, <1>7 DEF RequeueBroken, TypeOK, row
  <2> QED
    BY <1>0, <1>7, <1>a, <1>b, <1>c, <1>e, <2>1, RequestMoves
       DEF RequeueBroken, RequestsInv, TypeOK, row
<1>8. CASE RefreshMessage(r)
  <2>1. TypeOK'
    BY <1>0, <1>8 DEF RefreshMessage, TypeOK
  <2> QED
    BY <1>0, <1>8, <1>a, <1>e, <2>1, ExecutorUntouched DEF RefreshMessage, RequestsInv
<1> QED
  BY <1>1, <1>2, <1>3, <1>4, <1>5, <1>6, <1>7, <1>8, <1>9

(* A request that no process of the present pools holds is given to a new   *)
(* or an idle one.                                                          *)
LEMMA WorkerStarts ==
    ASSUME RequestsInv, NEW w \in Workers, NEW r \in Reqs,
           worker[w].pc \in {"unborn", "idle"},
           mon[r] \in {"none", "pooled"},
           sub[r] \notin {"none", "gated", "enqueue"},
           queued' = queued \ {r},
           worker' = [worker EXCEPT ![w] = Starting(r)],
           mon' = [mon EXCEPT ![r] = "running"],
           UNCHANGED <<row, sub, lock, down, env>>
    PROVE  RequestsInv'
<1> USE DEF RequestsInv, ExecutorInv
<1>0. /\ status' = status /\ pid' = pid /\ owned' = owned /\ sub' = sub /\ lock' = lock
      /\ down' = down /\ env' = env
  BY DEF row
<1>1. /\ worker' \in [Workers -> WorkerType]
      /\ \A v \in Workers : v # w => worker'[v] = worker[v]
      /\ worker'[w].pc = "start" /\ worker'[w].req = r /\ worker'[w].lost = FALSE
  BY TypeParts DEF WorkerType, Starting
<1>2. worker[w].req = NoReq /\ NoReq \notin Reqs
  BY RequestsAssumption DEF BusyHasRequest
<1>3. /\ mon' \in [Reqs -> Monitors]
      /\ \A q \in Reqs : mon'[q] = IF q = r THEN "running" ELSE mon[q]
  BY TypeParts DEF Monitors
<1>4. TypeOK'
  BY <1>0, <1>1, <1>3 DEF TypeOK, WorkerType, Monitors
<1>5. BusyHasRequest'
  BY <1>1, <1>2 DEF BusyHasRequest
<1>6. \A v \in Workers : ~worker[v].lost => worker[v].req # r
  BY <1>2 DEF OnePlace
<1>7. \A v \in Workers : worker[v].req # NoReq => worker[v].req \in Reqs
  BY TypeParts DEF WorkerType
<1>8. OnePlace'
  <2>1. \A q \in Reqs : sub'[q] \in {"none", "gated", "enqueue"} =>
          q \notin queued' /\ mon'[q] = "none" /\ \A v \in Workers : ~Holds(v, q)'
    BY <1>0, <1>1, <1>3 DEF OnePlace, Holds
  <2>2. \A q \in queued' : mon'[q] = "none"
    BY <1>3 DEF OnePlace, TypeOK
  <2>3. \A v \in Workers : worker'[v].req # NoReq /\ ~worker'[v].lost =>
          mon'[worker'[v].req] = "running"
    BY <1>1, <1>3, <1>7 DEF OnePlace
  <2>4. \A v, u \in Workers :
          /\ worker'[u].req # NoReq /\ worker'[u].req = worker'[v].req
          /\ ~worker'[v].lost /\ ~worker'[u].lost
          => v = u
    BY <1>1, <1>6 DEF OnePlace
  <2> QED
    BY <2>1, <2>2, <2>3, <2>4 DEF OnePlace
<1>9. SubmittedStatus'
  BY <1>0 DEF SubmittedStatus
<1>10. \A q \in Reqs : pid[q] = w => q \in env.unacked /\ status[q] # "RUNNING"
  BY <1>2 DEF PidIsHolder, UnackedIsOver, Finished, Holds
<1>11. PidIsHolder'
  BY <1>0, <1>1, <1>10 DEF PidIsHolder, Holds
<1>12. \A v \in Workers : Works(v)' <=> Works(v) /\ v # w
  BY <1>1 DEF Works
<1>17. UnackedIsOver' /\ ExecNeverPauses'
  BY <1>0, <1>1, <1>3, <1>12, RequestsAssumption
     DEF UnackedIsOver, ExecNeverPauses, Holds, TypeOK
<1>13. WorkedIsTaken' /\ RetryIsLetGo' /\ InterruptedWasCancelled'
  BY <1>0, <1>1, <1>3, <1>12 DEF WorkedIsTaken, RetryIsLetGo, InterruptedWasCancelled, Holds
<1>14. RunningIsAtWork'
  BY <1>0, <1>1, <1>3, <1>10 DEF RunningIsAtWork, Holds, Alive, TypeOK, Workers
<1>16. LostIsOver'
  BY <1>0, <1>1, <1>2, <1>3, <1>7, <1>12 DEF LostIsOver, BusyHasRequest, Holds
<1>15. DownInv'
  BY <1>0, <1>1, <1>12, DownUntouched, TypeParts DEF Touches, CloudWork, Provisions
<1> QED
  BY <1>17, <1>4, <1>5, <1>8, <1>9, <1>11, <1>13, <1>14, <1>15, <1>16

(* A queued request goes to the pool or to a new burst process.             *)
LEMMA DispatchKeeps ==
    ASSUME RequestsInv, NEW r \in Reqs,
           \/ Dispatch(r)
           \/ \E w \in PoolProcs : PoolStart(w, r)
    PROVE  RequestsInv'
<1>0. ExecutorInv /\ DownInv /\ TypeOK /\ OnePlace
  BY DEF RequestsInv, ExecutorInv
<1>1. CASE Dispatch(r)
  <2>0. r \in queued /\ mon[r] = "none" /\ sub[r] \notin {"none", "gated", "enqueue"}
        /\ queued' = queued \ {r} /\ UNCHANGED <<row, sub, lock, down, env>>
    BY <1>0, <1>1 DEF Dispatch, OnePlace
  <2>1. CASE mon' = [mon EXCEPT ![r] = "pooled"] /\ UNCHANGED worker
    <3>1. TypeOK'
      BY <1>0, <2>0, <2>1 DEF TypeOK, row
    <3>2. DownInv'
      BY <1>0, <2>0, <2>1, DownUntouched, TouchesSame, TypeParts DEF row
    <3>4. EnvMoves
      BY <1>0, <2>0, TypeParts DEF EnvMoves, EnvType
    <3>3. sub[r] # "none" => status[r] # "NONE"
      BY <1>0 DEF ExecutorInv, SubmittedStatus
    <3> QED
      BY <1>0, <2>0, <2>1, <3>1, <3>2, <3>3, <3>4, RequestMoves DEF RequestsInv, TypeOK, row
  <2>2. ASSUME NEW w \in BurstFree, worker' = [worker EXCEPT ![w] = Starting(r)],
               mon' = [mon EXCEPT ![r] = "running"]
        PROVE  RequestsInv'
    <3>1. w \in Workers /\ worker[w].pc = "unborn"
      BY DEF BurstFree, Workers, Unborn
    <3> QED
      BY <2>0, <2>2, <3>1, WorkerStarts
  <2> QED
    BY <1>1, <2>1, <2>2 DEF Dispatch
<1>2. ASSUME NEW w \in PoolProcs, PoolStart(w, r) PROVE RequestsInv'
  <2>1. w \in Workers /\ worker[w].pc \in {"unborn", "idle"} /\ mon[r] = "pooled"
    BY <1>2 DEF PoolStart, Workers, Unborn
  <2>2. sub[r] \notin {"none", "gated", "enqueue"} /\ r \notin queued
    BY <1>0, <2>1 DEF OnePlace
  <2>3. queued' = queued \ {r}
    BY <1>2, <2>2 DEF PoolStart
  <2> QED
    BY <1>2, <2>1, <2>2, <2>3, WorkerStarts DEF PoolStart
<1> QED
  BY <1>1, <1>2

-----------------------------------------------------------------------------
(* The executor processes.                                                 *)

(* A busy process has a request of the table; at work, it is the process    *)
(* the row names, and nobody else works for that request.                   *)
LEMMA BusyFacts ==
    ASSUME ExecutorInv, NEW w \in Workers, worker[w].pc \notin {"unborn", "idle", "dead"}
    PROVE  /\ worker[w].req \in Reqs
           /\ sub[worker[w].req] \notin {"none", "gated", "enqueue"}
           /\ ~worker[w].lost => mon[worker[w].req] = "running"
           /\ Works(w) => /\ pid[worker[w].req] = w
                          /\ mon[worker[w].req] # "retry"
                          /\ \A v \in Workers : Works(v) /\ v # w => worker[v].req # worker[w].req
<1> USE DEF ExecutorInv
<1>1. worker[w].req \in Reqs /\ worker[w].req # NoReq
  BY TypeParts DEF WorkerType, BusyHasRequest
<1> QED
  BY <1>1 DEF OnePlace, WorkedIsTaken, RetryIsLetGo, Holds

(* The process writes RUNNING and its pid, or finds the request taken or     *)
(* ended and leaves it alone.                                               *)
LEMMA BeginKeeps ==
    ASSUME RequestsInv, NEW w \in Workers, Begin(w)
    PROVE  RequestsInv'
<1> USE DEF RequestsInv, ExecutorInv
<1>0. /\ owned' = owned /\ sub' = sub /\ queued' = queued /\ mon' = mon /\ lock' = lock
      /\ down' = down /\ env' = env /\ worker[w].pc = "start"
  BY DEF Begin
<1>a. PICK r \in Reqs : worker[w].req = r
  BY <1>0, BusyFacts
<1>1. sub[r] \notin {"none", "gated", "enqueue"} /\ (~worker[w].lost => mon[r] = "running")
  BY <1>0, <1>a, BusyFacts
<1>2. \A q \in Reqs : pid[q] = w => q \in env.unacked /\ status[q] # "RUNNING"
  BY <1>0 DEF PidIsHolder, UnackedIsOver, Finished
<1>b. PICK x \in {"work", "ack"} :
        /\ Goto(w, x)
        /\ x = "work" => /\ status[r] \in Executable
                         /\ pid' = [pid EXCEPT ![r] = w]
                         /\ status' = [status EXCEPT ![r] = "RUNNING"]
        /\ x = "ack" => UNCHANGED <<pid, status>>
  BY <1>a DEF Begin
<1>3. /\ worker' \in [Workers -> WorkerType]
      /\ \A v \in Workers : v # w => worker'[v] = worker[v]
      /\ worker'[w].pc = x /\ worker'[w].req = r /\ worker'[w].lost = worker[w].lost
  BY <1>a, <1>b, TypeParts DEF Goto, WorkerType
<1>4. \A v \in Workers : /\ worker'[v].req = worker[v].req /\ worker'[v].lost = worker[v].lost
                         /\ worker'[v].pc \in {"unborn", "idle", "dead"}
                              <=> worker[v].pc \in {"unborn", "idle", "dead"}
                         /\ worker'[v].pc = "idle" => worker[v].pc = "idle"
  BY <1>0, <1>a, <1>3
<1>5. BusyHasRequest' /\ OnePlace'
  BY <1>0, <1>4 DEF BusyHasRequest, OnePlace, Holds
<1>c. status' \in [Reqs -> Active \cup Finished \cup {"NONE"}]
      /\ pid' \in [Reqs -> Workers \cup {NoWorker}]
  <2>1. CASE x = "work"
    BY <1>b, <2>1 DEF TypeOK, Active
  <2>2. CASE x = "ack"
    BY <1>b, <2>2 DEF TypeOK
  <2> QED
    BY <2>1, <2>2
<1>6. TypeOK'
  BY <1>0, <1>c, <1>3 DEF TypeOK, WorkerType
<1>7. DownInv'
  <2>1. \A v \in Workers : Touches(v)' =>
           Touches(v) \/ (v = w /\ r \in Gated /\ status[r] \in Active)
    BY <1>0, <1>a, <1>b, <1>3 DEF Touches, CloudWork, Provisions, Works, Executable, Active
  <2>2. \A q \in Reqs : status[q] # "NONE" =>
           status'[q] # "NONE" /\ (status'[q] \in Active => status[q] \in Active)
    BY <1>b DEF TypeOK, Executable, Active
  <2> QED
    BY <1>0, <1>a, <1>3, <1>4, <2>1, <2>2, DownUntouched, TypeParts
<1>10. UnackedIsOver' /\ ExecNeverPauses'
  <2>1. CASE x = "ack"
    BY <1>0, <1>b, <1>3, <1>4, <2>1 DEF UnackedIsOver, ExecNeverPauses, Works, Holds
  <2>2. CASE x = "work"
    <3>1. r \notin env.unacked
      BY <1>b, <2>2 DEF UnackedIsOver, Executable, Finished
    <3> QED
      BY <1>0, <1>b, <1>3, <1>4, <2>2, <3>1
         DEF UnackedIsOver, ExecNeverPauses, Works, Holds, TypeOK
  <2> QED
    BY <2>1, <2>2
<1>8. CASE x = "ack"
  <2>1. \A v \in Workers : Works(v)' <=> Works(v)
    BY <1>0, <1>3, <1>8 DEF Works
  <2>2. SubmittedStatus' /\ WorkedIsTaken' /\ RetryIsLetGo' /\ LostIsOver'
    BY <1>0, <1>b, <1>4, <1>8, <2>1
    DEF SubmittedStatus, WorkedIsTaken, RetryIsLetGo, LostIsOver, Holds
  <2>3. PidIsHolder' /\ InterruptedWasCancelled'
    BY <1>0, <1>b, <1>2, <1>3, <1>8 DEF PidIsHolder, InterruptedWasCancelled, Holds
  <2>4. RunningIsAtWork'
    BY <1>0, <1>b, <1>2, <1>3, <1>8 DEF RunningIsAtWork, Holds, Alive, Workers
  <2> QED
    BY <1>10, <1>5, <1>6, <1>7, <2>2, <2>3, <2>4
<1>9. CASE x = "work"
  <2>0. /\ status[r] \in {"PENDING", "WAITING"} /\ pid'[r] = w /\ status'[r] = "RUNNING"
        /\ \A q \in Reqs : q # r => pid'[q] = pid[q] /\ status'[q] = status[q]
    BY <1>b, <1>9 DEF Executable, TypeOK
  <2>1. \A v \in Workers : Works(v)' <=> v = w \/ Works(v)
    BY <1>3, <1>9 DEF Works
  <2>2. \A v \in Workers : Works(v) => worker[v].req # r /\ worker[v].req \in Reqs
    BY <2>0, BusyFacts DEF WorkedIsTaken, Works, Executable
  <2>3. \A v \in Workers : worker[v].lost => worker[v].req \in Reqs
    BY TypeParts DEF BusyHasRequest, WorkerType
  <2>4. \A v \in Workers : worker[v].lost /\ worker[v].req = r => mon[r] = "broken" /\ worker[w].lost
    BY <1>1, <2>0 DEF LostIsOver, Finished
  <2>5. SubmittedStatus' /\ PidIsHolder'
    BY <1>0, <1>1, <1>2, <1>3, <1>9, <2>0 DEF SubmittedStatus, PidIsHolder, Holds
  <2>6. WorkedIsTaken'
    BY <1>3, <2>0, <2>1, <2>2 DEF WorkedIsTaken, Executable
  <2>7. RetryIsLetGo'
    BY <1>0, <1>3, <2>0, <2>1 DEF RetryIsLetGo, Holds
  <2>8. RunningIsAtWork'
    <3>1. ASSUME NEW q \in Reqs, q # r, status'[q] = "RUNNING"
          PROVE  \/ /\ pid'[q] \in Workers
                    /\ worker'[pid'[q]].req = q
                    /\ \/ worker'[pid'[q]].pc \in {"work", "cloud", "cluster", "ok", "error", "pause"}
                       \/ mon'[q] = "broken"
                    /\ worker'[pid'[q]].lost => mon'[q] = "broken"
                 \/ mon'[q] \in {"retry", "broken"}
                 \/ pid'[q] \in BurstProcs /\ worker'[pid'[q]].pc \in {"unborn", "dead"}
      BY <1>0, <1>2, <1>3, <2>0, <3>1 DEF RunningIsAtWork, Holds, Alive, Workers
    <3>2. worker[w].lost => mon[r] = "broken"
      BY <1>a, <2>4
    <3> QED
      BY <1>0, <1>3, <1>9, <2>0, <3>1, <3>2 DEF RunningIsAtWork, Holds, Alive
  <2>9. InterruptedWasCancelled'
    BY <1>3, <1>9, <2>0, <2>2 DEF InterruptedWasCancelled, Works
  <2>10. LostIsOver'
    <3>1. \A v \in Workers : worker[v].lost =>
             /\ mon'[worker[v].req] = "broken" \/ status'[worker[v].req] \in Finished
             /\ mon'[worker[v].req] # "retry"
      BY <1>0, <2>0, <2>3, <2>4 DEF LostIsOver
    <3>2. \A u, v \in Workers : worker[v].lost /\ Works(u)' /\ worker[u].req = worker[v].req
                                  => worker[u].lost
      BY <1>a, <2>1, <2>4 DEF LostIsOver, Holds
    <3> QED
      BY <1>4, <3>1, <3>2 DEF LostIsOver, Holds
  <2> QED
    BY <1>10, <1>5, <1>6, <1>7, <2>5, <2>6, <2>7, <2>8, <2>9, <2>10
<1> QED
  BY <1>8, <1>9

(* The steps of a process inside the function of its request. *)
LEMMA WorkKeeps ==
    ASSUME RequestsInv, NEW w \in Workers,
           \/ TakeLock(w) \/ LockBusy(w) \/ ExecStarts(w) \/ WorkFails(w) \/ CloudEnds(w)
           \/ StagesEnd(w)
           \/ Unwind(w) \/ RolledBack(w)
    PROVE  RequestsInv'
<1>0. ExecutorInv /\ DownInv /\ TypeOK
  BY DEF RequestsInv, ExecutorInv
<1>1. UNCHANGED <<row, sub, queued, mon, down, env>>
  BY DEF TakeLock, LockBusy, ExecStarts, WorkFails, CloudEnds, StagesEnd, Unwind, RolledBack
<1>2. PICK x :
        /\ Goto(w, x)
        /\ \/ /\ worker[w].pc \in {"work", "cloud", "cluster", "ok", "error", "pause"}
              /\ x \in {"work", "cloud", "cluster", "ok", "error", "pause"}
           \/ /\ worker[w].pc \in {"signalled", "rollback", "interrupted"}
              /\ x \in {"rollback", "interrupted"}
        /\ x = "cloud" => lock = "none"
        /\ x = "rollback" => worker[w].pc = "signalled"
        /\ x = "cluster" => worker[w].pc = "cloud" \/ (Works(w) /\ worker[w].req \in Gated)
        /\ worker[w].req \in Gated => x \notin {"cloud", "pause"}
        /\ Works(w)
  BY <1>0 DEF TakeLock, LockBusy, ExecStarts, WorkFails, CloudEnds, StagesEnd, Unwind,
     RolledBack,
     Works, ExecutorInv, ExecNeverPauses
<1>3. worker[w].req \in Reqs
  BY <1>0, <1>2, BusyFacts DEF Works
<1>4. lock' \in Reqs \cup {"none", "down"} /\ (lock = "down" => lock' = "down")
  BY <1>0, <1>3, UnlockedKeepsDown
  DEF TakeLock, LockBusy, ExecStarts, WorkFails, CloudEnds, StagesEnd, Unwind,
     RolledBack, TypeOK
<1>5. ExecutorInv'
  BY <1>0, <1>1, <1>2, <1>4, WorkerMoves DEF row
<1>6. /\ worker'[w].pc = x /\ worker'[w].req = worker[w].req /\ worker'[w].lost = worker[w].lost
      /\ \A v \in Workers : v # w => worker'[v] = worker[v]
  BY <1>0, <1>2, TypeParts DEF Goto, WorkerType
<1>7. DownInv'
  <2>1. \A v \in Workers : Touches(v)' => Touches(v) \/ lock = "none"
    BY <1>2, <1>6 DEF Touches, CloudWork, Provisions, Works
  <2> QED
    BY <1>0, <1>1, <1>4, <1>6, <2>1, DownUntouched, TypeParts DEF row
<1> QED
  BY <1>5, <1>7 DEF RequestsInv

(* The outcome is written: by the one process that works for the request. *)
LEMMA StoreKeeps ==
    ASSUME RequestsInv, NEW w \in Workers, StoreResult(w) \/ StoreError(w)
    PROVE  RequestsInv'
<1> USE DEF RequestsInv, ExecutorInv
<1>0. /\ pid' = pid /\ owned' = owned /\ sub' = sub /\ queued' = queued /\ mon' = mon
      /\ lock' = lock /\ down' = down /\ env' = env
      /\ worker[w].pc \in {"ok", "error"} /\ Goto(w, "ack")
  BY DEF StoreResult, StoreError
<1>1. PICK r \in Reqs : worker[w].req = r
  BY <1>0, BusyFacts
<1>2. /\ sub[r] \notin {"none", "gated", "enqueue"}
      /\ ~worker[w].lost => mon[r] = "running"
      /\ pid[r] = w /\ mon[r] # "retry"
      /\ \A v \in Workers : Works(v) /\ v # w => worker[v].req # r
  BY <1>0, <1>1, BusyFacts DEF Works
<1>3. PICK st \in Finished : status' = [status EXCEPT ![r] = st]
                             /\ (status[r] = "CANCELLED" => st = "CANCELLED")
  BY <1>1 DEF StoreResult, StoreError, SucceededUnlessCancelled, FailedUnlessCancelled,
     Finished
<1>4. /\ worker' \in [Workers -> WorkerType]
      /\ \A v \in Workers : v # w => worker'[v] = worker[v]
      /\ worker'[w].pc = "ack" /\ worker'[w].req = r /\ worker'[w].lost = worker[w].lost
  BY <1>0, <1>1, TypeParts DEF Goto, WorkerType
<1>5. /\ status'[r] = st /\ st # "NONE" /\ st # "RUNNING"
      /\ \A q \in Reqs : q # r => status'[q] = status[q]
  BY <1>3 DEF TypeOK, Finished
<1>6. \A v \in Workers : /\ worker'[v].req = worker[v].req /\ worker'[v].lost = worker[v].lost
                         /\ worker'[v].pc \in {"unborn", "idle", "dead"}
                              <=> worker[v].pc \in {"unborn", "idle", "dead"}
                         /\ worker'[v].pc = "idle" => worker[v].pc = "idle"
  BY <1>0, <1>1, <1>4
<1>7. TypeOK'
  BY <1>0, <1>3, <1>4 DEF TypeOK, WorkerType
<1>8. BusyHasRequest' /\ OnePlace'
  BY <1>0, <1>6 DEF BusyHasRequest, OnePlace, Holds
<1>9. SubmittedStatus' /\ PidIsHolder'
  <2>1. SubmittedStatus'
    BY <1>0, <1>2, <1>5 DEF SubmittedStatus
  <2>2. \A q \in Reqs : pid[q] \in Workers => status'[q] \in {"RUNNING"} \cup Finished
    BY <1>5 DEF PidIsHolder
  <2>3. ASSUME NEW q \in Reqs, pid[q] \in Workers
        PROVE  \/ worker'[pid[q]].pc = "dead"
               \/ worker'[pid[q]].req = q /\ worker'[pid[q]].pc # "start"
               \/ q \in env.unacked
    BY <1>0, <1>1, <1>4, <2>3 DEF PidIsHolder, Holds
  <2> QED
    BY <1>0, <2>1, <2>2, <2>3 DEF PidIsHolder, Holds
<1>10. \A v \in Workers : Works(v)' => v # w /\ Works(v) /\ worker[v].req \in Reqs \ {r}
  BY <1>2, <1>4, BusyFacts DEF Works
<1>11. WorkedIsTaken' /\ RetryIsLetGo'
  BY <1>0, <1>2, <1>4, <1>5, <1>10 DEF WorkedIsTaken, RetryIsLetGo, Holds
<1>12. RunningIsAtWork'
  <2>1. \A q \in Reqs \ {r} : pid[q] = w => status[q] # "RUNNING"
    BY <1>0, <1>1 DEF PidIsHolder, UnackedIsOver, Finished, Holds
  <2> QED
    BY <1>0, <1>4, <1>5, <2>1 DEF RunningIsAtWork, Holds, Alive, Workers
<1>13. InterruptedWasCancelled'
  BY <1>4, <1>5, <1>10 DEF InterruptedWasCancelled, Works
<1>14. LostIsOver'
  <2>1. \A v \in Workers : worker[v].lost => worker[v].req \in Reqs
    BY TypeParts DEF BusyHasRequest, WorkerType
  <2>2. \A v \in Workers : worker[v].lost =>
           /\ mon'[worker[v].req] = "broken" \/ status'[worker[v].req] \in Finished
           /\ mon'[worker[v].req] # "retry"
    BY <1>0, <1>5, <2>1 DEF LostIsOver
  <2> QED
    BY <1>6, <1>10, <2>2 DEF LostIsOver, Holds
<1>15. DownInv'
  <2>1. \A v \in Workers : Touches(v)' => Touches(v)
    BY <1>4, <1>10 DEF Touches, CloudWork, Provisions
  <2>2. \A q \in Reqs : status[q] # "NONE" =>
           status'[q] # "NONE" /\ (status'[q] \in Active => status[q] \in Active)
    BY <1>3, <1>5 DEF Finished, Active
  <2> QED
    BY <1>0, <1>6, <2>1, <2>2, DownUntouched, TypeParts
<1>16. UnackedIsOver' /\ ExecNeverPauses'
  BY <1>0, <1>3, <1>4, <1>5, <1>6, <1>10 DEF UnackedIsOver, ExecNeverPauses, Holds
<1> QED
  BY <1>16, <1>7, <1>8, <1>9, <1>11, <1>12, <1>13, <1>14, <1>15

(* A process lets go of its request, or a burst process dies: its monitor   *)
(* thread learns of it unless the pool broke before.                        *)
LEMMA ProcessLeaves ==
    ASSUME RequestsInv, NEW w \in Workers, NEW r \in Reqs, worker[w].req = r,
           NEW x, (x = Idle /\ w \in PoolProcs) \/ x = Gone,
           NEW m \in {"none", "retry"}, Report(w, m),
           worker' = [worker EXCEPT ![w] = x],
           pid' = pid \/ (pid[r] = w /\ pid' = [pid EXCEPT ![r] = NoWorker]),
           pid'[r] = w => \/ w \in BurstProcs /\ x = Gone
                          \/ r \in env'.unacked /\ worker[w].pc \in {"ack", "interrupted"},
           m = "retry" => worker[w].pc = "pause" /\ pid'[r] = NoWorker,
           m = "none" => worker[w].pc \in {"ack", "interrupted"} \/ (w \in BurstProcs /\ pid' = pid),
           UNCHANGED <<status, owned, sub, queued, down>>,
           lock' \in Reqs \cup {"none", "down"}, lock = "down" => lock' = "down",
           env' \in EnvType, env'.todo = env.todo,
           \/ EnvMoves
           \/ /\ env.fault = "ack" /\ env'.fault = "none"
              /\ worker[w].pc \in {"ack", "interrupted"} /\ pid' = pid
              /\ env'.unacked = IF pid[r] = w THEN {r} ELSE {}
    PROVE  RequestsInv'
<1> USE DEF RequestsInv, ExecutorInv
<1>1. NoReq \notin Reqs /\ worker[w].pc \notin {"unborn", "idle", "dead"}
  BY RequestsAssumption DEF BusyHasRequest
<1>2. /\ sub[r] \notin {"none", "gated", "enqueue"}
      /\ ~worker[w].lost => mon[r] = "running"
      /\ Works(w) => /\ pid[r] = w /\ mon[r] # "retry"
                     /\ \A v \in Workers : Works(v) /\ v # w => worker[v].req # r
  BY <1>1, BusyFacts
<1>3. /\ worker' \in [Workers -> WorkerType]
      /\ \A v \in Workers : v # w => worker'[v] = worker[v]
      /\ worker'[w] = x
  <2>0. Idle \in WorkerType /\ Gone \in WorkerType
    BY DEF WorkerType, Idle, Gone
  <2>1. x \in WorkerType
    BY <2>0
  <2> QED
    BY <2>1, TypeParts
<1>4. /\ x.req = NoReq /\ x.lost = FALSE /\ x.pc \in {"idle", "dead"}
      /\ x.pc = "idle" => w \in PoolProcs
      /\ x = Gone => x.pc = "dead"
  BY DEF Idle, Gone
<1>5. /\ mon' \in [Reqs -> Monitors]
      /\ \A q \in Reqs : q # r => mon'[q] = mon[q]
      /\ worker[w].lost => mon'[r] = mon[r]
      /\ ~worker[w].lost => mon'[r] = m
  BY TypeParts DEF Report, Monitors
<1>6. /\ pid' \in [Reqs -> Workers \cup {NoWorker}]
      /\ \A q \in Reqs : q # r => pid'[q] = pid[q]
      /\ pid'[r] = pid[r] \/ (pid[r] = w /\ pid'[r] = NoWorker)
  <2>1. CASE pid' = pid
    BY <2>1 DEF TypeOK
  <2>2. CASE pid' # pid
    BY <2>2 DEF TypeOK
  <2> QED
    BY <2>1, <2>2
<1>7. TypeOK'
  BY <1>3, <1>5, <1>6 DEF TypeOK, WorkerType, Monitors, EnvType
<1>8. BusyHasRequest'
  BY <1>3, <1>4 DEF BusyHasRequest
<1>9. \A v \in Workers : worker[v].req # NoReq => worker[v].req \in Reqs
  BY TypeParts DEF WorkerType
<1>10. OnePlace'
  <2>1. \A q \in Reqs : sub'[q] \in {"none", "gated", "enqueue"} =>
          q \notin queued' /\ mon'[q] = "none" /\ \A v \in Workers : worker'[v].req # q
    BY <1>1, <1>2, <1>3, <1>4, <1>5 DEF OnePlace, Holds
  <2>2. \A q \in queued' : mon'[q] = "none"
    BY <1>2, <1>5 DEF OnePlace, TypeOK
  <2>3. \A v \in Workers : worker'[v].req # NoReq /\ ~worker'[v].lost =>
          mon'[worker'[v].req] = "running"
    BY <1>1, <1>3, <1>4, <1>5, <1>9 DEF OnePlace
  <2>4. \A v, u \in Workers :
          /\ worker'[u].req # NoReq /\ worker'[u].req = worker'[v].req
          /\ ~worker'[v].lost /\ ~worker'[u].lost
          => v = u
    BY <1>3, <1>4 DEF OnePlace
  <2> QED
    BY <2>1, <2>2, <2>3, <2>4 DEF OnePlace, Holds
<1>11. SubmittedStatus'
  BY DEF SubmittedStatus
<1>21. env.unacked \subseteq env'.unacked
  BY DEF UnackedIsOver, EnvMoves
<1>12. \A q \in Reqs \ {r} : pid[q] = w => q \in env.unacked /\ status[q] # "RUNNING"
  BY <1>1 DEF PidIsHolder, UnackedIsOver, Finished, Holds
<1>13. PidIsHolder'
  BY <1>3, <1>4, <1>6, <1>12, <1>21, RequestsAssumption DEF PidIsHolder, Holds, Workers
<1>14. \A v \in Workers : Works(v)' => v # w /\ Works(v) /\ worker[v].req \in Reqs
  BY <1>3, <1>4, BusyFacts DEF Works
<1>22. env.fault = "ack" => mon[r] = "running" /\ \A v \in Workers : ~worker[v].lost
  BY <1>1, <1>2 DEF UnackedIsOver
<1>23. /\ env.fault = "ack" /\ pid[r] = w /\ worker[w].pc \in {"ack", "interrupted"} =>
            status[r] \in Finished
       /\ env.fault = "ack" => \A v \in Workers \ {w} : worker[v].req # r
  <2>1. env.fault = "ack" => \A v \in Workers \ {w} : worker[v].req # r
    BY <1>1, <1>22 DEF OnePlace
  <2>2. env.fault = "ack" /\ pid[r] = w /\ worker[w].pc \in {"ack", "interrupted"} =>
           status[r] # "RUNNING"
    BY <1>1, <1>22 DEF RunningIsAtWork, Alive
  <2> QED
    BY <2>1, <2>2 DEF PidIsHolder
<1>24. UnackedIsOver'
  <2>1. \A q \in env'.unacked :
          /\ status[q] \in Finished /\ mon'[q] # "retry"
          /\ \A v \in Workers : Works(v)' => worker'[v].req # q
    <3>1. ASSUME NEW q \in env.unacked
          PROVE  /\ status[q] \in Finished /\ mon'[q] # "retry"
                 /\ \A v \in Workers : Works(v)' => worker'[v].req # q
      <4>1. q \in Reqs /\ status[q] \in Finished /\ mon[q] # "retry"
            /\ \A v \in Workers : Works(v) => worker[v].req # q
        BY <3>1, TypeParts DEF UnackedIsOver, EnvType, Holds
      <4>2. m = "retry" => q # r
        BY <4>1 DEF Works
      <4> QED
        BY <1>3, <1>5, <1>14, <4>1, <4>2
    <3>2. CASE EnvMoves
      BY <3>1, <3>2 DEF EnvMoves
    <3>3. CASE ~EnvMoves
      BY <1>3, <1>5, <1>14, <1>22, <1>23, <3>3
    <3> QED
      BY <3>2, <3>3
  <2>2. /\ env'.unacked # {} => env'.fault = "none"
        /\ env'.unacked # {} \/ env'.fault = "ack" =>
              env'.todo = {} /\ \A v \in Workers : ~worker[v].lost
    BY DEF UnackedIsOver, EnvMoves
  <2> QED
    BY <1>3, <1>4, <2>1, <2>2 DEF UnackedIsOver, Holds
<1>25. ExecNeverPauses'
  BY <1>3, <1>4, <1>5, RequestsAssumption DEF ExecNeverPauses
<1>15. WorkedIsTaken'
  BY <1>3, <1>6, <1>14 DEF WorkedIsTaken
<1>16. RetryIsLetGo'
  <2>1. m = "retry" => Works(w) /\ (status[r] \in {"RUNNING", "CANCELLED"} \/ worker[w].lost)
    BY DEF Works, WorkedIsTaken
  <2> QED
    BY <1>2, <1>3, <1>5, <1>6, <1>14, <2>1, RequestsAssumption DEF RetryIsLetGo, Holds
<1>17. RunningIsAtWork'
  <2> SUFFICES ASSUME NEW q \in Reqs, status[q] = "RUNNING"
               PROVE  \/ /\ pid'[q] \in Workers
                         /\ worker'[pid'[q]].req = q
                         /\ \/ worker'[pid'[q]].pc \in {"work", "cloud", "cluster", "ok", "error", "pause"}
                            \/ mon'[q] = "broken"
                         /\ worker'[pid'[q]].lost => mon'[q] = "broken"
                      \/ mon'[q] \in {"retry", "broken"}
                      \/ pid'[q] \in BurstProcs /\ worker'[pid'[q]].pc \in {"unborn", "dead"}
    BY DEF RunningIsAtWork, Holds, Alive
  <2>1. \/ /\ pid[q] \in Workers
           /\ worker[pid[q]].req = q
           /\ \/ worker[pid[q]].pc \in {"work", "cloud", "cluster", "ok", "error", "pause"}
              \/ mon[q] = "broken"
           /\ worker[pid[q]].lost => mon[q] = "broken"
        \/ mon[q] \in {"retry", "broken"}
        \/ pid[q] \in BurstProcs /\ worker[pid[q]].pc \in {"unborn", "dead"}
    BY DEF RunningIsAtWork, Holds, Alive
  <2>2. CASE q # r
    BY <1>3, <1>5, <1>6, <1>12, <2>1, <2>2 DEF Workers
  <2>3. CASE q = r /\ pid[r] # w
    <3>1. pid'[r] = pid[r] /\ (pid[r] \in Workers => worker'[pid[r]] = worker[pid[r]])
      BY <1>3, <1>6, <2>3
    <3>2. CASE worker[w].lost
      BY <1>5, <2>1, <2>3, <3>1, <3>2 DEF Workers
    <3>3. CASE ~worker[w].lost
      <4>1. mon[r] = "running" /\ (pid[r] \in Workers /\ worker[pid[r]].req = r => worker[pid[r]].lost)
        BY <1>1, <1>2, <2>3, <3>3 DEF OnePlace
      <4> QED
        BY <2>1, <2>3, <3>1, <4>1 DEF Workers
    <3> QED
      BY <3>2, <3>3
  <2>4. CASE q = r /\ pid[r] = w
    <3>1. CASE m = "retry"
      BY <1>1, <1>2, <1>5, <2>1, <2>4, <3>1, RequestsAssumption DEF Works, Workers
    <3>2. CASE m = "none" /\ pid'[r] = w
      <4>1. CASE w \in BurstProcs /\ x = Gone
        BY <1>3, <1>4, <2>4, <3>2, <4>1
      <4>2. CASE r \in env'.unacked
        BY <1>24, <2>4, <4>2 DEF UnackedIsOver, Finished
      <4> QED
        BY <3>2, <4>1, <4>2
    <3>3. CASE m = "none" /\ pid'[r] # w
      <4>1. worker[w].pc \in {"ack", "interrupted"}
        BY <2>4, <3>3
      <4>2. mon[r] \in {"retry", "broken"}
        BY <1>1, <2>1, <2>4, <4>1
      <4> QED
        BY <1>2, <1>5, <2>4, <4>2
    <3> QED
      BY <3>1, <3>2, <3>3
  <2> QED
    BY <2>2, <2>3, <2>4
<1>18. LostIsOver'
  <2>1. \A v \in Workers : worker'[v].lost =>
           v # w /\ worker[v].lost /\ worker'[v].req = worker[v].req /\ worker[v].req \in Reqs
    BY <1>3, <1>4, <1>9 DEF BusyHasRequest
  <2>2. \A v \in Workers : worker'[v].lost => 
           /\ mon'[worker[v].req] = "broken" \/ status[worker[v].req] \in Finished
           /\ mon'[worker[v].req] # "retry"
    BY <1>2, <1>5, <2>1 DEF LostIsOver, Works, Holds
  <2> QED
    BY <1>3, <1>14, <2>1, <2>2 DEF LostIsOver, Holds
<1>19. InterruptedWasCancelled'
  BY <1>3, <1>4 DEF InterruptedWasCancelled
<1>20. DownInv'
  <2>1. \A v \in Workers : Touches(v)' => v # w /\ Touches(v)
    BY <1>3, <1>4, <1>14 DEF Touches, CloudWork, Provisions
  <2> QED
    BY <1>3, <2>1, DownUntouched, TypeParts
<1> QED
  BY <1>24, <1>25, <1>7, <1>8, <1>10, <1>11, <1>13, <1>15, <1>16, <1>17, <1>18, <1>19, <1>20

(* A process parks its request, acknowledges it, or dies as a burst process.*)
LEMMA ReleaseKeeps ==
    ASSUME RequestsInv, NEW w \in Workers, Pause(w) \/ Acknowledge(w) \/ AcknowledgeFails(w) \/ BurstDies(w)
    PROVE  RequestsInv'
<1>0. ExecutorInv /\ TypeOK /\ BusyHasRequest
  BY DEF RequestsInv, ExecutorInv
<1>1. worker[w].pc \notin {"unborn", "idle", "dead"}
  BY <1>0, RequestsAssumption
     DEF Pause, Acknowledge, AcknowledgeFails, BurstDies, Alive, BusyHasRequest
<1>2. PICK r \in Reqs : worker[w].req = r
  BY <1>0, <1>1, BusyFacts
<1>3. (Released(w) = Idle /\ w \in PoolProcs) \/ Released(w) = Gone
  BY DEF Released
<1>8. UNCHANGED env => EnvMoves
  BY <1>0, TypeParts DEF EnvMoves, EnvType
<1>4. env \in EnvType /\ pid \in [Reqs -> Workers \cup {NoWorker}] /\ NoWorker \notin Workers
  BY <1>0, TypeParts, RequestsAssumption DEF Workers
<1>5. CASE Pause(w)
  <2>1. pid[r] = w /\ pid' = [pid EXCEPT ![r] = NoWorker] /\ pid'[r] # w /\ pid'[r] = NoWorker
    BY <1>0, <1>1, <1>2, <1>4, <1>5, BusyFacts DEF Pause, Works
  <2> QED
    BY <1>0, <1>2, <1>3, <1>4, <1>5, <1>8, <2>1, ProcessLeaves DEF Pause, TypeOK
<1>6. CASE Acknowledge(w)
  <2>1. /\ pid' = pid \/ (pid[r] = w /\ pid' = [pid EXCEPT ![r] = NoWorker])
        /\ pid'[r] # w
    <3>1. CASE pid[r] = w
      BY <1>2, <1>4, <1>6, <3>1 DEF Acknowledge
    <3>2. CASE pid[r] # w
      BY <1>2, <1>4, <1>6, <3>2 DEF Acknowledge
    <3> QED
      BY <3>1, <3>2
  <2>2. /\ worker[w].pc \in {"ack", "interrupted"} /\ Report(w, "none")
        /\ worker' = [worker EXCEPT ![w] = Released(w)]
        /\ UNCHANGED <<status, owned, sub, queued, lock, down, env>>
        /\ lock \in Reqs \cup {"none", "down"}
    BY <1>0, <1>6 DEF Acknowledge, TypeOK
  <2> QED
    BY <1>2, <1>3, <1>4, <1>8, <2>1, <2>2, ProcessLeaves
<1>9. CASE AcknowledgeFails(w)
  <2>1. /\ env' \in EnvType /\ env'.todo = env.todo /\ env'.fault = "none"
        /\ env'.unacked = IF pid[r] = w THEN {r} ELSE {}
    BY <1>2, <1>4, <1>9 DEF AcknowledgeFails, EnvType
  <2>2. /\ worker[w].pc \in {"ack", "interrupted"} /\ Report(w, "none") /\ env.fault = "ack"
        /\ worker' = [worker EXCEPT ![w] = Released(w)]
        /\ UNCHANGED <<status, pid, owned, sub, queued, lock, down>>
        /\ lock \in Reqs \cup {"none", "down"}
    BY <1>0, <1>9 DEF AcknowledgeFails, TypeOK, row
  <2> QED
    BY <1>2, <1>3, <2>1, <2>2, ProcessLeaves
<1>7. CASE BurstDies(w)
  <2>1. /\ env' \in EnvType /\ env'.todo = env.todo /\ UNCHANGED <<row, sub, queued, down>>
        /\ EnvMoves
    BY <1>4, <1>7 DEF BurstDies, EnvType, EnvMoves
  <2>2. w \in BurstProcs /\ ~worker[w].lost
    BY <1>0, <1>7, RequestsAssumption DEF BurstDies, BusyHasRequest
  <2>3. Report(w, "none") /\ worker' = [worker EXCEPT ![w] = Gone] /\ Gone # Idle
    BY <1>7, <2>2 DEF BurstDies, Report, Gone, Idle
  <2>4. lock' \in Reqs \cup {"none", "down"} /\ (lock = "down" => lock' = "down")
    BY <1>0, <1>2, <1>7, UnlockedKeepsDown DEF BurstDies
  <2> QED
    BY <1>2, <2>1, <2>2, <2>3, <2>4, ProcessLeaves DEF row
<1> QED
  BY <1>5, <1>6, <1>7, <1>9

-----------------------------------------------------------------------------
(* Signals and broken pools.                                               *)

(* A signal interrupts a process at work, and no other. *)
LEMMA SignalFacts ==
    ASSUME TypeOK, NEW w \in Workers
    PROVE  /\ AfterSignal(w) \in WorkerType
           /\ AfterSignal(w).req = worker[w].req
           /\ AfterSignal(w).lost = worker[w].lost
           /\ worker[w].pc \notin {"work", "cluster", "ok", "error", "pause", "cloud"} =>
                AfterSignal(w) = worker[w]
           /\ worker[w].pc \in {"work", "cluster", "ok", "error", "pause"} => AfterSignal(w).pc = "interrupted"
           /\ worker[w].pc = "cloud" => AfterSignal(w).pc = "signalled"
<1>1. worker[w] \in WorkerType
  BY TypeParts
<1>2. CASE worker[w].pc \in {"work", "cluster", "ok", "error", "pause"}
  BY <1>1, <1>2 DEF AfterSignal, WorkerType
<1>3. CASE worker[w].pc = "cloud"
  BY <1>1, <1>3 DEF AfterSignal, WorkerType
<1>4. CASE worker[w].pc \notin {"work", "cluster", "ok", "error", "pause", "cloud"}
  BY <1>1, <1>4 DEF AfterSignal, WorkerType
<1> QED
  BY <1>2, <1>3, <1>4

(* Cancelling a request: its row reads CANCELLED and the process that the   *)
(* row names is signalled.  That process holds this request or is dead, so  *)
(* that no other request is interrupted.                                    *)
LEMMA CancelKeeps ==
    ASSUME ExecutorInv, NEW r \in Reqs, Signal(r), sub[r] # "none", r \notin env.unacked,
           status' = [status EXCEPT ![r] = "CANCELLED"],
           UNCHANGED <<pid, owned, sub, queued, mon, lock>>,
           down' \in DownType, env' \in EnvType, EnvMoves,
           \A q \in Reqs : q \in env'.todo => q \in env.todo
    PROVE  /\ ExecutorInv'
           /\ \A w \in Workers : /\ Touches(w)' => Touches(w)
                                 /\ worker'[w].req = worker[w].req
                                 /\ worker'[w].lost = worker[w].lost
           /\ \A q \in Reqs : status[q] # "NONE" =>
                status'[q] # "NONE" /\ (status'[q] \in Active => status[q] \in Active)
           /\ status'[r] \notin Active
<1> USE DEF ExecutorInv
<1>1. /\ worker' \in [Workers -> WorkerType]
      /\ \A w \in Workers : worker'[w] = IF w = pid[r] THEN AfterSignal(w) ELSE worker[w]
  <2>1. CASE pid[r] \in Workers
    BY <2>1, SignalFacts, TypeParts DEF Signal
  <2>2. CASE pid[r] \notin Workers
    BY <2>2, TypeParts DEF Signal
  <2> QED
    BY <2>1, <2>2
<1>2. \A w \in Workers :
        /\ worker'[w].req = worker[w].req /\ worker'[w].lost = worker[w].lost
        /\ worker[w].pc \notin {"work", "cluster", "ok", "error", "pause", "cloud"} \/ w # pid[r] =>
             worker'[w] = worker[w]
        /\ worker[w].pc \in {"work", "cluster", "ok", "error", "pause"} /\ w = pid[r] =>
             worker'[w].pc = "interrupted"
        /\ worker[w].pc = "cloud" /\ w = pid[r] => worker'[w].pc = "signalled"
  BY <1>1, SignalFacts
<1>3. \A w \in Workers : /\ Works(w)' <=> Works(w)
                         /\ Touches(w)' => Touches(w)
                         /\ ~Works(w) => worker'[w] = worker[w]
  BY <1>2 DEF Works, Touches, CloudWork, Provisions
<1>4. status'[r] = "CANCELLED" /\ \A q \in Reqs : q # r => status'[q] = status[q]
  BY DEF TypeOK
<1>5. \A w \in Workers : worker[w].req # NoReq => worker[w].req \in Reqs
  BY TypeParts DEF WorkerType
<1>6. \A w \in Workers : Works(w) => worker[w].req \in Reqs
  BY <1>5 DEF Works, BusyHasRequest
<1>7. \A w \in Workers : worker'[w] # worker[w] => Works(w) /\ worker[w].req = r /\ w = pid[r]
  BY <1>2, <1>3 DEF PidIsHolder, Works, Holds
<1>8. TypeOK'
  BY <1>1 DEF TypeOK, WorkerType, DownType, EnvType, Finished
<1>9. BusyHasRequest'
  BY <1>2, <1>3 DEF BusyHasRequest, Works
<1>10. OnePlace'
  BY <1>2 DEF OnePlace, Holds
<1>11. SubmittedStatus'
  BY <1>4 DEF SubmittedStatus
<1>12. PidIsHolder'
  BY <1>2, <1>3, <1>4 DEF PidIsHolder, EnvMoves, Finished, Holds, Works
<1>17. UnackedIsOver' /\ ExecNeverPauses'
  BY <1>2, <1>3, <1>4, <1>8, RequestsAssumption
  DEF UnackedIsOver, ExecNeverPauses, EnvMoves, Finished, Holds, Works, TypeOK
<1>18. \A q \in Reqs : status[q] # "NONE" =>
         status'[q] # "NONE" /\ (status'[q] \in Active => status[q] \in Active)
  BY <1>4 DEF Active
<1>13. WorkedIsTaken' /\ RetryIsLetGo'
  BY <1>2, <1>3, <1>4, <1>6 DEF WorkedIsTaken, RetryIsLetGo, Holds
<1>14. RunningIsAtWork'
  <2>1. \A q \in Reqs \ {r} : pid[q] \in Workers /\ status[q] = "RUNNING" =>
           worker'[pid[q]] = worker[pid[q]]
    BY <1>7 DEF WorkedIsTaken, PidIsHolder, UnackedIsOver, Finished, Holds, Works
  <2> QED
    BY <1>4, <2>1 DEF RunningIsAtWork, Holds, Alive, Workers
<1>15. LostIsOver'
  <2>1. \A w \in Workers : worker[w].lost =>
           /\ mon'[worker[w].req] = "broken" \/ status'[worker[w].req] \in Finished
           /\ mon'[worker[w].req] # "retry"
    BY <1>4, <1>5 DEF LostIsOver, BusyHasRequest, Finished
  <2> QED
    BY <1>2, <1>3, <2>1 DEF LostIsOver, Holds
<1>16. InterruptedWasCancelled'
  <2> SUFFICES ASSUME NEW w \in Workers, ~worker'[w].lost,
                      worker'[w].pc \in {"signalled", "rollback", "interrupted"}
               PROVE  status'[worker'[w].req] = "CANCELLED"
    BY DEF InterruptedWasCancelled
  <2>1. Works(w) /\ worker[w].req \in Reqs /\ worker'[w].req = worker[w].req
    BY <1>2, <1>3, <1>6 DEF Works
  <2>2. CASE worker[w].req = r
    BY <1>4, <2>1, <2>2
  <2>3. CASE worker[w].req # r
    BY <1>4, <1>7, <2>1, <2>3 DEF InterruptedWasCancelled
  <2> QED
    BY <2>2, <2>3
<1> QED
  BY <1>2, <1>3, <1>4, <1>17, <1>18, <1>8, <1>9, <1>10, <1>11, <1>12, <1>13, <1>14,
     <1>15, <1>16 DEF Active

(* A process of the pool dies: the pool's other busy processes are lost. *)
LEMMA PoolDiesKeeps ==
    ASSUME RequestsInv, NEW w \in Workers, PoolDies(w)
    PROVE  RequestsInv'
<1> USE DEF RequestsInv, ExecutorInv
<1>0. UNCHANGED <<status, pid, owned, sub, queued, down>> /\ w \in Pool
  BY DEF PoolDies, row
<1>1. /\ env' \in EnvType /\ env'.todo = env.todo /\ env'.fault = "none"
      /\ env'.unacked = env.unacked /\ env.unacked = {}
  BY TypeParts DEF PoolDies, EnvType, UnackedIsOver
<1>19. UnackedIsOver'
  BY <1>1 DEF UnackedIsOver
<1>2. /\ mon' \in [Reqs -> Monitors]
      /\ \A q \in Reqs :
           mon'[q] = IF \/ mon[q] = "pooled"
                        \/ mon[q] = "running" /\ \E v \in Pool : worker[v].req = q
                       THEN "broken" ELSE mon[q]
  BY TypeParts DEF PoolDies, Monitors
<1>3. lock' \in Reqs \cup {"none", "down"} /\ (lock = "down" => lock' = "down")
  <2>1. worker[w].req # NoReq => worker[w].req \in Reqs
    BY TypeParts DEF WorkerType
  <2> QED
    BY <2>1, UnlockedKeepsDown DEF PoolDies, TypeOK
<1>4. \A v \in Pool : /\ v \in PoolProcs /\ v \in Workers /\ ~worker[v].lost
                      /\ worker[v].pc \notin {"unborn", "dead"}
  BY DEF Pool, Alive, Workers
<1>5. /\ worker' \in [Workers -> WorkerType]
      /\ \A v \in Workers \ Pool : worker'[v] = worker[v]
      /\ \A v \in Pool :
           \/ worker'[v].pc = "dead" /\ worker'[v].req = NoReq /\ ~worker'[v].lost
           \/ /\ worker[v].pc \notin {"unborn", "idle", "dead"}
              /\ worker'[v].req = worker[v].req /\ worker'[v].lost
              /\ worker'[v].pc = AfterSignal(v).pc
  <2>1. PICK spared \in SUBSET {v \in Pool \ {w} : worker[v].pc = "start"} :
          worker' = [v \in Workers |->
             IF v \notin Pool THEN worker[v]
             ELSE IF v \in spared THEN [worker[v] EXCEPT !.lost = TRUE]
             ELSE IF v = w \/ worker[v].pc \in {"idle", "start"} THEN Gone
             ELSE [AfterSignal(v) EXCEPT !.lost = TRUE]]
    BY DEF PoolDies
  <2>2. \A v \in Workers : worker[v] \in WorkerType
    BY TypeParts
  <2>3. \A v \in Pool : v \in spared =>
           /\ worker'[v] \in WorkerType
           /\ worker[v].pc = "start"
           /\ worker'[v].req = worker[v].req /\ worker'[v].lost = TRUE
           /\ worker'[v].pc = AfterSignal(v).pc
    <3> SUFFICES ASSUME NEW v \in Pool, v \in spared
                 PROVE  /\ worker'[v] \in WorkerType
                        /\ worker[v].pc = "start"
                        /\ worker'[v].req = worker[v].req /\ worker'[v].lost = TRUE
                        /\ worker'[v].pc = AfterSignal(v).pc
      OBVIOUS
    <3>1. v \in Workers /\ worker[v].pc = "start" /\ worker[v] \in WorkerType
      BY <1>4, <2>2
    <3>2. worker'[v] = [worker[v] EXCEPT !.lost = TRUE]
      BY <2>1, <3>1
    <3>3. AfterSignal(v).pc = worker[v].pc
      BY <3>1, SignalFacts
    <3> QED
      BY <3>1, <3>2, <3>3 DEF WorkerType
  <2>4. \A v \in Pool : v \notin spared /\ (v = w \/ worker[v].pc \in {"idle", "start"}) =>
           /\ worker'[v] \in WorkerType
           /\ worker'[v].pc = "dead" /\ worker'[v].req = NoReq /\ worker'[v].lost = FALSE
    BY <1>4, <2>1 DEF WorkerType, Gone
  <2>5. \A v \in Pool : v \notin spared /\ ~(v = w \/ worker[v].pc \in {"idle", "start"}) =>
           /\ worker'[v] \in WorkerType
           /\ worker'[v].req = worker[v].req /\ worker'[v].lost = TRUE
           /\ worker'[v].pc = AfterSignal(v).pc
    <3> SUFFICES ASSUME NEW v \in Pool, v \notin spared,
                        ~(v = w \/ worker[v].pc \in {"idle", "start"})
                 PROVE  /\ worker'[v] \in WorkerType
                        /\ worker'[v].req = worker[v].req /\ worker'[v].lost = TRUE
                        /\ worker'[v].pc = AfterSignal(v).pc
      OBVIOUS
    <3>1. v \in Workers
      BY <1>4
    <3>2. worker'[v] = [AfterSignal(v) EXCEPT !.lost = TRUE]
      BY <2>1, <3>1
    <3>3. AfterSignal(v) \in WorkerType /\ AfterSignal(v).req = worker[v].req
      BY <3>1, SignalFacts
    <3> QED
      BY <3>2, <3>3 DEF WorkerType
  <2>6. \A v \in Workers \ Pool : worker'[v] = worker[v]
    BY <2>1
  <2>7. \A v \in Workers : worker'[v] \in WorkerType
    BY <2>2, <2>3, <2>4, <2>5, <2>6
  <2>8. worker' \in [Workers -> WorkerType]
    BY <2>1, <2>7
  <2> QED
    BY <1>4, <2>3, <2>4, <2>5, <2>6, <2>8
<1>6. \A v \in Pool : worker[v].req # NoReq => worker[v].req \in Reqs /\ mon'[worker[v].req] = "broken"
  BY <1>2, <1>4, TypeParts DEF WorkerType, OnePlace
<1>7. \A v \in Workers : Works(v)' => Works(v) /\ worker'[v].req = worker[v].req
                                     /\ (worker[v].lost => worker'[v].lost)
  BY <1>4, <1>5, SignalFacts DEF Works
<1>8. \A v \in Workers : worker'[v].req # NoReq /\ ~worker'[v].lost =>
         v \notin Pool /\ worker'[v] = worker[v]
  BY <1>5
<1>9. TypeOK'
  BY <1>0, <1>1, <1>2, <1>3, <1>5 DEF TypeOK, WorkerType, Monitors, EnvType
<1>10. BusyHasRequest'
  BY <1>4, <1>5, SignalFacts DEF BusyHasRequest
<1>11. OnePlace'
  <2>0. NoReq \notin Reqs
    BY RequestsAssumption
  <2>1. \A q \in Reqs : sub'[q] \in {"none", "gated", "enqueue"} =>
          q \notin queued' /\ mon'[q] = "none" /\ \A v \in Workers : worker'[v].req # q
    BY <1>0, <1>2, <1>5, <2>0 DEF OnePlace, Holds
  <2>2. \A q \in queued' : mon'[q] = "none"
    BY <1>0, <1>2 DEF OnePlace, TypeOK
  <2>3. ASSUME NEW v \in Workers, worker'[v].req # NoReq, ~worker'[v].lost
        PROVE  mon'[worker'[v].req] = "running"
    <3>1. v \notin Pool /\ worker'[v] = worker[v] /\ worker[v].req \in Reqs
      BY <1>8, <2>3, TypeParts DEF WorkerType
    <3>2. mon[worker[v].req] = "running" /\ \A u \in Pool : worker[u].req # worker[v].req
      BY <1>4, <2>0, <2>3, <3>1 DEF OnePlace
    <3> QED
      BY <1>2, <3>1, <3>2
  <2>4. \A v, u \in Workers :
          /\ worker'[u].req # NoReq /\ worker'[u].req = worker'[v].req
          /\ ~worker'[v].lost /\ ~worker'[u].lost
          => v = u
    BY <1>8 DEF OnePlace
  <2> QED
    BY <2>1, <2>2, <2>3, <2>4 DEF OnePlace, Holds
<1>20. ExecNeverPauses'
  <2>1. \A q \in Gated : mon'[q] # "retry"
    BY <1>2, RequestsAssumption DEF ExecNeverPauses
  <2>2. \A v \in Workers : worker'[v].req \in Gated => worker'[v].pc \notin {"cloud", "pause"}
    BY <1>4, <1>5, SignalFacts, RequestsAssumption DEF ExecNeverPauses
  <2> QED
    BY <2>1, <2>2 DEF ExecNeverPauses
<1>12. SubmittedStatus'
  BY <1>0, <1>1 DEF SubmittedStatus
<1>13. PidIsHolder'
  BY <1>0, <1>1, <1>4, <1>5, SignalFacts DEF PidIsHolder, Holds
<1>14. WorkedIsTaken' /\ RetryIsLetGo'
  <2>1. WorkedIsTaken'
    BY <1>0, <1>7, <1>8 DEF WorkedIsTaken, Works, BusyHasRequest
  <2>2. RetryIsLetGo'
    BY <1>0, <1>2, <1>7 DEF RetryIsLetGo, Holds
  <2> QED
    BY <2>1, <2>2
<1>15. RunningIsAtWork'
  <2> SUFFICES ASSUME NEW q \in Reqs, status[q] = "RUNNING"
               PROVE  \/ /\ pid[q] \in Workers
                         /\ worker'[pid[q]].req = q
                         /\ \/ worker'[pid[q]].pc \in {"work", "cloud", "cluster", "ok", "error", "pause"}
                            \/ mon'[q] = "broken"
                         /\ worker'[pid[q]].lost => mon'[q] = "broken"
                      \/ mon'[q] \in {"retry", "broken"}
                      \/ pid[q] \in BurstProcs /\ worker'[pid[q]].pc \in {"unborn", "dead"}
    BY <1>0 DEF RunningIsAtWork, Holds, Alive
  <2>1. mon'[q] = "broken" \/ mon'[q] = mon[q]
    BY <1>2
  <2>2. pid[q] \in BurstProcs => pid[q] \in Workers \ Pool
    BY <1>4, RequestsAssumption DEF Workers
  <2>3. CASE pid[q] \in Workers \ Pool
    BY <1>5, <2>1, <2>3 DEF RunningIsAtWork, Holds, Alive
  <2>4. CASE pid[q] \in Pool
    BY <1>4, <1>6, <2>1, <2>2, <2>4, RequestsAssumption DEF RunningIsAtWork, Holds
  <2>5. CASE pid[q] \notin Workers
    BY <2>1, <2>2, <2>5 DEF RunningIsAtWork
  <2> QED
    BY <1>4, <2>3, <2>4, <2>5
<1>16. LostIsOver'
  <2>1. \A v \in Workers : worker'[v].lost => worker'[v].req = worker[v].req /\ worker[v].req \in Reqs
    BY <1>5, <1>10, TypeParts DEF BusyHasRequest, WorkerType
  <2>2. \A v \in Workers : worker'[v].lost =>
           /\ mon'[worker[v].req] = "broken" \/ status'[worker[v].req] \in Finished
           /\ mon'[worker[v].req] # "retry"
    BY <1>0, <1>2, <1>5, <1>6, <2>1, RequestsAssumption DEF LostIsOver
  <2>3. ASSUME NEW v \in Workers, worker'[v].lost, NEW u \in Workers, Works(u)',
               worker'[u].req = worker'[v].req
        PROVE  worker'[u].lost
    <3>1. Works(u) /\ worker[u].req = worker[v].req /\ worker[u].req # NoReq
      BY <1>7, <2>1, <2>3 DEF Works, BusyHasRequest
    <3>2. CASE v \notin Pool
      BY <1>5, <1>7, <2>3, <3>1, <3>2 DEF LostIsOver, Holds
    <3>3. CASE v \in Pool
      BY <1>4, <1>7, <1>8, <2>3, <3>1, <3>3 DEF OnePlace
    <3> QED
      BY <3>2, <3>3
  <2> QED
    BY <2>1, <2>2, <2>3 DEF LostIsOver, Holds
<1>17. InterruptedWasCancelled'
  BY <1>0, <1>5 DEF InterruptedWasCancelled
<1>18. DownInv'
  <2>1. \A v \in Workers : Touches(v)' /\ ~worker'[v].lost => worker'[v] = worker[v] /\ Touches(v)
    BY <1>5 DEF Touches, CloudWork, Provisions, Works
  <2> QED
    BY <1>0, <1>3, <2>1, DownUntouched, TypeParts
<1> QED
  BY <1>19, <1>20, <1>9, <1>10, <1>11, <1>12, <1>13, <1>14, <1>15, <1>16, <1>17, <1>18

(* A client cancels a request, or the shutdown interrupts one.              *)
LEMMA CancellationKeeps ==
    ASSUME RequestsInv, NEW r \in Reqs, CancelRequest(r) \/ Interrupt(r)
    PROVE  RequestsInv'
<1>0. ExecutorInv /\ DownInv /\ SubmittedStatus /\ down \in DownType /\ env \in EnvType
  BY TypeParts DEF RequestsInv, ExecutorInv
<1>1. /\ Signal(r) /\ status' = [status EXCEPT ![r] = "CANCELLED"]
      /\ UNCHANGED <<pid, owned, sub, queued, mon, lock, down>>
  BY DEF CancelRequest, Interrupt
<1>2. sub[r] # "none"
  BY <1>0 DEF CancelRequest, Interrupt, SubmittedStatus, Active
<1>3. env' \in EnvType /\ EnvMoves /\ \A q \in Reqs : q \in env'.todo => q \in env.todo
  BY <1>0 DEF CancelRequest, Interrupt, EnvType, EnvMoves
<1>6. r \notin env.unacked
  BY <1>0 DEF CancelRequest, Interrupt, ExecutorInv, UnackedIsOver, Active, Finished
<1>4. /\ ExecutorInv'
      /\ \A w \in Workers : /\ Touches(w)' => Touches(w)
                            /\ worker'[w].req = worker[w].req
                            /\ worker'[w].lost = worker[w].lost
      /\ \A q \in Reqs : status[q] # "NONE" =>
           status'[q] # "NONE" /\ (status'[q] \in Active => status[q] \in Active)
  BY <1>0, <1>1, <1>2, <1>3, <1>6, CancelKeeps
<1>5. DownInv'
  BY <1>0, <1>1, <1>4, DownUntouched
<1> QED
  BY <1>4, <1>5 DEF RequestsInv

-----------------------------------------------------------------------------
(* The teardown.                                                           *)

(* A loop that has no request left gives way to the next one: the requests  *)
(* to wait for stay the same, and the waiting is over only when there are   *)
(* none.                                                                    *)
LEMMA SettledFacts ==
    ASSUME NEW d \in DownType, d.pc \in {"mark", "kill", "wait"}
    PROVE  /\ Settled(d) \in DownType
           /\ Settled(d).round = d.round /\ Settled(d).seen = d.seen
           /\ Left(d) \cap Listed(d) \subseteq Left(Settled(d)) \cap Listed(Settled(d))
           /\ \/ Settled(d).pc \in {"mark", "kill", "wait"} /\ Listed(Settled(d)) = Listed(d)
              \/ Settled(d).pc = (IF d.round = 1 THEN "unlock" ELSE "cloud") /\ Listed(d) = {}
<1> DEFINE k == IF d.pc = "mark" /\ d.todo = {}
                  THEN [d EXCEPT !.pc = "kill", !.pend = @ \cup d.kill] ELSE d
           l == IF k.pc = "kill" /\ k.kill = {} THEN [k EXCEPT !.pc = "wait"] ELSE k
<1>1. /\ k \in DownType /\ k.round = d.round /\ k.pc \in {"mark", "kill", "wait"}
      /\ Listed(k) = Listed(d) /\ k.seen = d.seen /\ Left(d) \subseteq Left(k)
  <2>1. CASE d.pc = "mark" /\ d.todo = {}
    BY <2>1 DEF DownType, Listed, Left
  <2>2. CASE ~(d.pc = "mark" /\ d.todo = {})
    BY <2>2
  <2> QED
    BY <2>1, <2>2
<1>2. Settled(d) = IF l.pc = "wait" /\ l.pend = {}
                     THEN [l EXCEPT !.pc = IF d.round = 1 THEN "unlock" ELSE "cloud"] ELSE l
  BY DEF Settled
<1> HIDE DEF k
<1>3. /\ l \in DownType /\ l.round = d.round /\ l.pc \in {"mark", "kill", "wait"}
      /\ Listed(l) = Listed(d) /\ l.seen = d.seen /\ Left(d) \subseteq Left(l)
  <2>1. CASE k.pc = "kill" /\ k.kill = {}
    BY <1>1, <2>1 DEF DownType, Listed, Left
  <2>2. CASE ~(k.pc = "kill" /\ k.kill = {})
    BY <1>1, <2>2
  <2> QED
    BY <2>1, <2>2
<1> HIDE DEF l
<1>4. CASE l.pc = "wait" /\ l.pend = {}
  BY <1>2, <1>3, <1>4 DEF DownType, Listed, Left
<1>5. CASE ~(l.pc = "wait" /\ l.pend = {})
  BY <1>2, <1>3, <1>5
<1> QED
  BY <1>4, <1>5

(* A step of one of the loops keeps what the teardown relies on if the      *)
(* requests of the processes inside the provisioner stay on a list.         *)
LEMMA LoopKeeps ==
    ASSUME NEW d \in DownType, d.pc \in {"mark", "kill", "wait"}, down' = Settled(d),
           \A r \in d.seen : status'[r] # "NONE",
           d.round = 2 =>
             /\ lock' = "down"
             /\ \A w \in Workers :
                  Touches(w)' /\ ~worker'[w].lost /\ worker'[w].req \notin Gated \ d.seen =>
                  worker'[w].req \in Listed(d)
             /\ \A r \in Gated \cap d.seen : status'[r] \in Active => r \in Left(d) \cap Listed(d)
    PROVE  DownInv' /\ down' \in DownType
<1>1. d.round \in 1..2
  BY DEF DownType
<1>2. /\ down' \in DownType /\ down'.round = d.round /\ down'.seen = d.seen
      /\ Left(d) \cap Listed(d) \subseteq Left(down') \cap Listed(down')
      /\ \/ down'.pc \in {"mark", "kill", "wait"} /\ Listed(down') = Listed(d)
         \/ down'.pc = (IF d.round = 1 THEN "unlock" ELSE "cloud") /\ Listed(d) = {}
  BY SettledFacts
<1>3. SecondRound'
  BY <1>1, <1>2 DEF SecondRound
<1>5. Listed(down)' = Listed(down') /\ Left(down)' = Left(down')
  BY DEF Listed, Left
<1>4. InsideIsListed' /\ ExecIsListed'
  BY <1>2, <1>5 DEF InsideIsListed, ExecIsListed
<1> QED
  BY <1>2, <1>3, <1>4 DEF DownInv

(* A process whose pool stands and that works on the cluster works for a    *)
(* request that is RUNNING or CANCELLED, and its row names the process: the *)
(* query of the teardown finds it.                                          *)
LEMMA InsideIsVisible ==
    ASSUME ExecutorInv, NEW w \in Workers, Touches(w), ~worker[w].lost
    PROVE  /\ worker[w].req \in Reqs
           /\ status[worker[w].req] \in {"RUNNING", "CANCELLED"}
           /\ pid[worker[w].req] = w
           /\ pid[worker[w].req] # NoWorker
           /\ worker[w].req \in Queried
<1>1. Works(w)
  BY DEF Touches, CloudWork, Provisions, Works
<1>2. worker[w].req \in Reqs /\ pid[worker[w].req] = w
  BY <1>1, BusyFacts DEF Works
<1>3. status[worker[w].req] \in {"RUNNING", "CANCELLED"}
  BY <1>1 DEF ExecutorInv, WorkedIsTaken
<1> QED
  BY <1>2, <1>3, RequestsAssumption DEF Queried, Active, Workers

(* The lists of a teardown, and its kills. *)
LEMMA ListsKeep ==
    ASSUME RequestsInv, NEW r \in Reqs, Mark(r) \/ KillOne(r) \/ SeeAcknowledged(r)
    PROVE  RequestsInv'
<1>0. ExecutorInv /\ DownInv /\ TypeOK /\ down \in DownType /\ env \in EnvType
  BY TypeParts DEF RequestsInv, ExecutorInv
<1>1. down.round = 2 => lock = "down"
  BY <1>0 DEF DownInv, SecondRound
<1>2. down.round = 2 => \A w \in Workers :
         Touches(w) /\ ~worker[w].lost /\ worker[w].req \notin Gated \ down.seen =>
         worker[w].req \in Listed(down)
  BY <1>0 DEF DownInv, InsideIsListed
<1>6. /\ \A q \in down.seen : q \in Reqs /\ status[q] # "NONE"
      /\ down.round = 2 => \A q \in Gated \cap down.seen :
            status[q] \in Active => q \in Left(down) \cap Listed(down)
  BY <1>0 DEF DownInv, ExecIsListed, DownType
<1>7. UNCHANGED env => EnvMoves
  BY <1>0 DEF EnvMoves, EnvType
<1>3. CASE Mark(r)
  <2> DEFINE d == [down EXCEPT !.todo = @ \ {r},
                  !.kill = IF status[r] \in Active THEN @ \cup {r} ELSE @,
                  !.pend = IF status[r] = "CANCELLED" /\ pid[r] # NoWorker
                             THEN @ \cup {r} ELSE @]
  <2>1. /\ down' = Settled(d) /\ down.pc = "mark"
        /\ UNCHANGED <<status, pid, sub, queued, mon, worker, lock, env>>
        /\ owned' = [owned EXCEPT ![r] = @ \/ status[r] \in Active]
    BY <1>3 DEF Mark
  <2>2. d \in DownType /\ d.pc = "mark" /\ d.round = down.round /\ d.seen = down.seen
    BY <1>0, <2>1 DEF DownType
  <2>3. /\ d.todo = down.todo \ {r}
        /\ down.kill \subseteq d.kill /\ down.pend \subseteq d.pend
        /\ status[r] \in Active => r \in d.kill
        /\ status[r] = "CANCELLED" /\ pid[r] # NoWorker => r \in d.pend
    BY <1>0 DEF DownType
  <2> HIDE DEF d
  <2>4. d.round = 2 => \A w \in Workers :
           Touches(w) /\ ~worker[w].lost /\ worker[w].req \notin Gated \ d.seen =>
           worker[w].req \in Listed(d)
    <3>1. Listed(down) \subseteq Listed(d) \cup {r}
      BY <2>1, <2>2, <2>3 DEF Listed
    <3>2. ASSUME NEW w \in Workers, Touches(w), ~worker[w].lost, worker[w].req = r
          PROVE  r \in Listed(d)
      BY <1>0, <2>2, <2>3, <3>2, InsideIsVisible DEF Listed, Active
    <3> QED
      BY <1>2, <2>2, <3>1, <3>2
  <2>7. d.round = 2 => \A q \in Gated \cap d.seen :
           status[q] \in Active => q \in Left(d) \cap Listed(d)
    BY <1>6, <2>1, <2>2, <2>3 DEF Left, Listed
  <2>5. DownInv' /\ down' \in DownType
    BY <1>1, <1>6, <2>1, <2>2, <2>4, <2>7, LoopKeeps, TouchesSame
  <2>6. TypeOK'
    BY <1>0, <2>1, <2>5 DEF TypeOK, DownType
  <2> QED
    BY <1>0, <1>7, <2>1, <2>5, <2>6, ExecutorUntouched DEF RequestsInv
<1>4. CASE KillOne(r)
  <2> DEFINE d == [down EXCEPT !.kill = @ \ {r}]
  <2>1. down' = Settled(d) /\ down.pc = "kill" /\ UNCHANGED <<pid, owned, sub, queued, mon, lock, env>>
    BY <1>4 DEF KillOne
  <2>2. /\ d \in DownType /\ d.pc = "kill" /\ d.round = down.round /\ Listed(d) = Listed(down)
        /\ d.seen = down.seen /\ Left(d) = Left(down) \ {r}
    BY <1>0, <2>1 DEF DownType, Listed, Left
  <2> HIDE DEF d
  <2>3. down' \in DownType
    BY <2>1, <2>2, SettledFacts
  <2>4. /\ ExecutorInv'
        /\ \A w \in Workers : /\ Touches(w)' => Touches(w)
                              /\ worker'[w].req = worker[w].req
                              /\ worker'[w].lost = worker[w].lost
        /\ \A q \in Reqs : status[q] # "NONE" =>
             status'[q] # "NONE" /\ (status'[q] \in Active => status[q] \in Active)
        /\ status'[r] \notin Active
    <3>1. CASE status[r] \in Active
      <4>1. Signal(r) /\ status' = [status EXCEPT ![r] = "CANCELLED"]
        BY <1>4, <3>1 DEF KillOne
      <4>2. sub[r] # "none"
        BY <1>0, <3>1 DEF ExecutorInv, SubmittedStatus, Active
      <4>3. r \notin env.unacked
        BY <1>0, <3>1 DEF ExecutorInv, UnackedIsOver, Active, Finished
      <4> QED
        BY <1>0, <1>7, <2>1, <2>3, <4>1, <4>2, <4>3, CancelKeeps
    <3>2. CASE status[r] \notin Active
      <4>1. UNCHANGED <<status, worker>>
        BY <1>4, <3>2 DEF KillOne
      <4>2. TypeOK'
        BY <1>0, <2>1, <2>3, <4>1 DEF TypeOK, DownType
      <4> QED
        BY <1>0, <1>7, <2>1, <3>2, <4>1, <4>2, ExecutorUntouched, TouchesSame
    <3> QED
      BY <3>1, <3>2
  <2>5. DownInv'
    BY <1>1, <1>2, <1>6, <2>1, <2>2, <2>4, LoopKeeps, RequestsAssumption
  <2> QED
    BY <2>4, <2>5 DEF RequestsInv
<1>5. CASE SeeAcknowledged(r)
  <2> DEFINE d == [down EXCEPT !.pend = @ \ {r}]
  <2>1. /\ down' = Settled(d) /\ down.pc = "wait" /\ pid[r] = NoWorker
        /\ UNCHANGED <<status, pid, owned, sub, queued, mon, worker, lock, env>>
    BY <1>5 DEF SeeAcknowledged, row
  <2>2. /\ d \in DownType /\ d.pc = "wait" /\ d.round = down.round /\ d.seen = down.seen
        /\ Listed(down) \subseteq Listed(d) \cup {r} /\ Left(down) = {}
    BY <1>0, <2>1 DEF DownType, Listed, Left
  <2> HIDE DEF d
  <2>3. \A w \in Workers : Touches(w) /\ ~worker[w].lost => worker[w].req # r
    BY <1>0, <2>1, InsideIsVisible
  <2>4. DownInv' /\ down' \in DownType
    BY <1>1, <1>2, <1>6, <2>1, <2>2, <2>3, LoopKeeps, TouchesSame
  <2>5. TypeOK'
    BY <1>0, <2>1, <2>4 DEF TypeOK, DownType
  <2> QED
    BY <1>0, <1>7, <2>1, <2>4, <2>5, ExecutorUntouched DEF RequestsInv
<1> QED
  BY <1>3, <1>4, <1>5

(* The other steps of a teardown, and the start of a shutdown. *)
LEMMA TeardownKeeps ==
    ASSUME RequestsInv,
           \/ DownStart \/ DownLocks \/ DownRetries \/ DownFails \/ ForceUnlock \/ DownEnds
           \/ StartDrain
    PROVE  RequestsInv'
<1>0. ExecutorInv /\ DownInv /\ TypeOK /\ down \in DownType /\ env \in EnvType 
      /\ Queried \subseteq Reqs /\ InTable \subseteq Reqs
      /\ \A r \in InTable : status[r] # "NONE"
  BY TypeParts DEF RequestsInv, ExecutorInv, Queried, InTable
<1>1. UNCHANGED <<status, pid, owned, sub, queued, mon, worker>>
  BY DEF DownStart, DownLocks, DownRetries, DownFails, ForceUnlock, DownEnds, StartDrain,
     row
<1>2. SecondRound
  BY <1>0 DEF DownInv
<1>3. ASSUME UNCHANGED env, down' \in DownType, DownInv', lock' \in Reqs \cup {"none", "down"}
      PROVE  RequestsInv'
  <2>1. TypeOK'
    BY <1>0, <1>1, <1>3 DEF TypeOK, DownType
  <2>2. EnvMoves
    BY <1>0, <1>3 DEF EnvMoves, EnvType
  <2> QED
    BY <1>0, <1>1, <1>3, <2>1, <2>2, ExecutorUntouched DEF RequestsInv
<1>4. lock \in Reqs \cup {"none", "down"}
  BY <1>0 DEF TypeOK
<1>5. CASE DownStart
  <2> DEFINE d == [down EXCEPT !.pc = "mark", !.todo = Queried, !.seen = InTable]
  <2>1. d \in DownType /\ d.pc = "mark" /\ d.round = 1 /\ d.seen = InTable
    BY <1>0, <1>2, <1>5 DEF DownStart, DownType, SecondRound
  <2>2. down' = Settled(d) /\ UNCHANGED <<lock, env>>
    BY <1>5 DEF DownStart
  <2> HIDE DEF d
  <2>3. DownInv' /\ down' \in DownType
    BY <1>0, <1>1, <2>1, <2>2, LoopKeeps
  <2> QED
    BY <1>3, <1>4, <2>2, <2>3
<1>6. CASE DownRetries
  <2> DEFINE d == [down EXCEPT !.pc = "mark", !.tries = 1, !.todo = Queried, !.seen = InTable]
  <2>0. down.round = 1 /\ 1 \in 0..2
    BY <1>2, <1>6 DEF DownRetries, SecondRound
  <2>1. d \in DownType /\ d.pc = "mark" /\ d.round = 1 /\ d.seen = InTable
    BY <1>0, <2>0 DEF DownType
  <2>2. down' = Settled(d) /\ UNCHANGED <<lock, env>>
    BY <1>6 DEF DownRetries
  <2> HIDE DEF d
  <2>3. DownInv' /\ down' \in DownType
    BY <1>0, <1>1, <2>1, <2>2, LoopKeeps
  <2> QED
    BY <1>3, <1>4, <2>2, <2>3
<1>7. CASE DownLocks
  <2> DEFINE d == [down EXCEPT !.pc = "mark", !.round = 2, !.todo = Queried, !.seen = InTable]
  <2>0. 2 \in 1..2
    OBVIOUS
  <2>1. d \in DownType /\ d.pc = "mark" /\ Queried \subseteq Left(d) \cap Listed(d) /\ d.seen = InTable
    BY <1>0, <2>0 DEF DownType, Listed, Left
  <2>2. down' = Settled(d) /\ UNCHANGED env /\ lock' = "down"
    BY <1>7 DEF DownLocks
  <2> HIDE DEF d
  <2>3. \A w \in Workers : Touches(w)' /\ ~worker'[w].lost => worker'[w].req \in Listed(d)
    BY <1>0, <1>1, <2>1, InsideIsVisible, TouchesSame
  <2>5. \A r \in Gated : status'[r] \in Active => r \in Left(d) \cap Listed(d)
    BY <1>1, <2>1, RequestsAssumption DEF Queried
  <2>4. DownInv' /\ down' \in DownType
    BY <1>0, <1>1, <2>1, <2>2, <2>3, <2>5, LoopKeeps
  <2> QED
    BY <1>3, <2>2, <2>4
<1>8. CASE DownFails \/ ForceUnlock \/ DownEnds
  <2>1. /\ down' \in DownType /\ down'.round = 1
        /\ down'.pc \in {"failed", "lock", "done"}
        /\ UNCHANGED env /\ lock' \in Reqs \cup {"none", "down"}
        /\ down'.seen \subseteq down.seen
    <3>1. CASE DownFails
      BY <1>4, <3>1 DEF DownFails, NoDown, DownType
    <3>2. CASE ForceUnlock
      BY <1>0, <1>2, <3>2 DEF ForceUnlock, DownType, SecondRound
    <3>3. CASE DownEnds
      BY <3>3 DEF DownEnds, NoDown, DownType
    <3> QED
      BY <1>8, <3>1, <3>2, <3>3
  <2>2. DownInv'
    BY <1>0, <1>1, <2>1 DEF DownInv, SecondRound, InsideIsListed, ExecIsListed
  <2> QED
    BY <1>3, <2>1, <2>2
<1>9. CASE StartDrain
  <2>1. /\ env' \in EnvType
        /\ \A r \in Reqs : r \in env'.todo => r \in env.todo \/ status[r] # "NONE"
        /\ UNCHANGED <<lock, down>> /\ EnvMoves
    BY <1>0, <1>9 DEF StartDrain, EnvType, EnvMoves
  <2>2. TypeOK'
    BY <1>0, <1>1, <2>1 DEF TypeOK, EnvType
  <2>3. DownInv'
    BY <1>0, <1>1, <2>1, DownUntouched, TouchesSame
  <2> QED
    BY <1>0, <1>1, <2>1, <2>2, <2>3, ExecutorUntouched DEF RequestsInv
<1> QED
  BY <1>5, <1>6, <1>7, <1>8, <1>9

(* The invariant is inductive.                                              *)
LEMMA RequestsInvNext == RequestsInv /\ [Next]_vars => RequestsInv'
<1> SUFFICES ASSUME RequestsInv, [Next]_vars PROVE RequestsInv'
  OBVIOUS
<1>1. CASE UNCHANGED vars
  <2>1. /\ UNCHANGED <<status, pid, owned, sub, queued, mon, worker, lock, down, env>>
        /\ ExecutorInv /\ DownInv /\ TypeOK
    BY <1>1 DEF vars, row, RequestsInv, ExecutorInv
  <2>2. TypeOK'
    BY <2>1 DEF TypeOK
  <2>3. DownInv'
    BY <2>1, DownUntouched, TouchesSame, TypeParts
  <2>4. EnvMoves
    BY <2>1, TypeParts DEF EnvMoves, EnvType
  <2> QED
    BY <2>1, <2>2, <2>3, <2>4, ExecutorUntouched DEF RequestsInv
<1>2. ASSUME NEW r \in Reqs,
             \/ Submit(r) \/ Scheduling(r) \/ PreconditionFails(r) \/ EnqueueFails(r)
             \/ Dispatcher(r) \/ DispatchFails(r) \/ Monitor(r) \/ StopWaiting(r)
             \/ ClusterIsUp(r) \/ ResumeLocked(r)
             \/ RefreshMessage(r) \/ CancelRequest(r) \/ Interrupt(r)
      PROVE  RequestsInv'
  BY <1>2, SubmissionKeeps, MonitorKeeps, DispatchKeeps, CancellationKeeps
  DEF Scheduling, Dispatcher, Monitor
<1>3. ASSUME NEW w \in Workers, Execution(w) \/ WorkFails(w) \/ AcknowledgeFails(w)
                                 \/ PoolDies(w) \/ BurstDies(w)
      PROVE  RequestsInv'
  BY <1>3, BeginKeeps, WorkKeeps, StoreKeeps, ReleaseKeeps, PoolDiesKeeps DEF Execution
<1>4. CASE StartDrain \/ DownStart \/ DownFails \/ Teardown
  BY <1>4, TeardownKeeps, ListsKeep DEF Teardown
<1> QED
  BY <1>1, <1>2, <1>3, <1>4 DEF Next

-----------------------------------------------------------------------------
(* What follows.                                                           *)

(* It holds in every reachable state.                                       *)
LEMMA RequestsInvAlways == Spec => []RequestsInv
BY RequestsInvInit, RequestsInvNext, PTL DEF Spec

(* Every variable has its type in every reachable state, whatever the       *)
(* numbers of requests and processes and the sizes of the pools.            *)
THEOREM RequestsTypeOK == Spec => []TypeOK
<1>1. RequestsInv => TypeOK
  BY DEF RequestsInv, ExecutorInv
<1> QED
  BY <1>1, RequestsInvAlways, PTL

(* The acknowledgement tells the truth: while a process works for a request *)
(* the request's row names that process.                                    *)
THEOREM PidIsAcknowledgement == Spec => []PidNamesWorker
<1>1. RequestsInv => PidNamesWorker
  BY DEF RequestsInv, ExecutorInv, WorkedIsTaken, PidNamesWorker, CloudWork, Provisions,
     Works
<1> QED
  BY <1>1, RequestsInvAlways, PTL

(* No request reads RUNNING with nobody left to end it, save after the      *)
(* death of a burst process.                                                *)
THEOREM NoRequestIsLost == Spec => []RunningIsHeld
<1>1. RequestsInv => RunningIsHeld
  BY DEF RequestsInv, ExecutorInv, RunningIsAtWork, RunningIsHeld, Holds
<1> QED
  BY <1>1, RequestsInvAlways, PTL

(* A signal never stops a request that nobody cancelled. *)
THEOREM SignalsHitTheirTarget == Spec => []InterruptedWasCancelled
<1>1. RequestsInv => InterruptedWasCancelled
  BY DEF RequestsInv, ExecutorInv
<1> QED
  BY <1>1, RequestsInvAlways, PTL

(* A teardown touches the cloud only when no process of a standing pool     *)
(* works on the cluster, for whatever number of launches and execs, save    *)
(* for an exec that was submitted after the teardown's second query.        *)
THEOREM TeardownIsAlone == Spec => []TeardownExclusive
<1>1. RequestsInv => TeardownExclusive
  BY DEF RequestsInv, DownInv, SecondRound, InsideIsListed, TeardownExclusive, Touches
<1> QED
  BY <1>1, RequestsInvAlways, PTL

(* An ended request keeps its status, save in the four places that          *)
(* OutcomeStands names.                                                     *)
THEOREM OutcomesStand == Spec => OutcomeStands
<1>1. ASSUME RequestsInv, [Next]_vars
      PROVE  [\A r \in Reqs : status[r] \in Finished =>
                \/ status'[r] = status[r]
                \/ status[r] = "CANCELLED" /\ mon[r] = "retry"
                \/ status[r] = "SUCCEEDED" /\ mon[r] = "broken"
                \/ status[r] = "FAILED" /\ \E w \in Workers : worker[w].req = r /\ worker[w].lost
                \/ status'[r] = "CANCELLED" /\ r \in env.todo]_vars
  <2> SUFFICES ASSUME Next, NEW r \in Reqs, status[r] \in Finished, status'[r] # status[r]
               PROVE  \/ status[r] = "CANCELLED" /\ mon[r] = "retry"
                      \/ status[r] = "SUCCEEDED" /\ mon[r] = "broken"
                      \/ /\ status[r] = "FAILED"
                         /\ \E w \in Workers : worker[w].req = r /\ worker[w].lost
                      \/ status'[r] = "CANCELLED" /\ r \in env.todo
    BY <1>1
  <2>0. ExecutorInv /\ TypeOK /\ status[r] \notin Active \cup {"NONE"}
    BY <1>1 DEF RequestsInv, ExecutorInv, Finished, Active
  <2>1. ASSUME NEW q \in Reqs,
               \/ Submit(q) \/ ClusterIsUp(q) \/ Scheduling(q) \/ PreconditionFails(q)
               \/ EnqueueFails(q)
        PROVE  FALSE
    <3>1. \/ Submit(q) \/ PreconditionFails(q) \/ MarkUnqueued(q)
      BY <2>1 DEF Scheduling, ClusterIsUp, PreconditionMet, PreconditionCancelled,
         Enqueue, EnqueueFails, row
    <3>2. q = r
      BY <2>0, <3>1 DEF Submit, PreconditionFails, MarkUnqueued, TypeOK
    <3>3. SubmittedStatus
      BY <2>0 DEF ExecutorInv
    <3> QED
      BY <2>0, <3>1, <3>2, <3>3
      DEF Submit, PreconditionFails, MarkUnqueued, SubmittedStatus, FailedUnlessCancelled,
          Active, TypeOK
  <2>2. ASSUME NEW q \in Reqs,
               \/ Dispatcher(q) \/ DispatchFails(q) \/ StopWaiting(q) \/ RefreshMessage(q)
               \/ ResumeLocked(q)
        PROVE  FALSE
    BY <2>2 DEF Dispatcher, DropCancelled, Dispatch, PoolStart, DispatchFails,
       StopWaiting, ResumeLocked,
       RefreshMessage, row
  <2>3. ASSUME NEW q \in Reqs, Monitor(q)
        PROVE  \/ status[r] = "CANCELLED" /\ mon[r] = "retry"
               \/ status[r] = "SUCCEEDED" /\ mon[r] = "broken"
    <3>1. SetWaiting(q) \/ FailBroken(q)
      BY <2>3 DEF Monitor, Resume, RequeueBroken, row
    <3>2. q = r
      BY <2>0, <3>1 DEF SetWaiting, FailBroken, TypeOK
    <3>3. CASE SetWaiting(r)
      BY <2>0, <3>3 DEF SetWaiting, ExecutorInv, RetryIsLetGo, Active
    <3>4. CASE FailBroken(r)
      BY <2>0, <3>4 DEF FailBroken, FailedUnlessCancelled, Finished, TypeOK
    <3> QED
      BY <3>1, <3>2, <3>3, <3>4
  <2>4. ASSUME NEW q \in Reqs, CancelRequest(q) \/ Interrupt(q)
        PROVE  status'[r] = "CANCELLED" /\ r \in env.todo
    BY <2>0, <2>4 DEF CancelRequest, Interrupt, TypeOK
  <2>5. ASSUME NEW w \in Workers, Execution(w) \/ WorkFails(w) \/ AcknowledgeFails(w)
                                   \/ PoolDies(w) \/ BurstDies(w)
        PROVE  status[r] = "FAILED" /\ worker[w].req = r /\ worker[w].lost
    <3>1. Begin(w) \/ StoreResult(w) \/ StoreError(w)
      BY <2>5 DEF Execution, TakeLock, LockBusy, ExecStarts, CloudEnds, StagesEnd, Pause,
         Unwind, RolledBack,
         Acknowledge, AcknowledgeFails, WorkFails, PoolDies, BurstDies, row
    <3>2. worker[w].req = r
      <4>1. worker[w].pc \notin {"unborn", "idle", "dead"}
        BY <3>1 DEF Begin, StoreResult, StoreError
      <4>2. worker[w].req \in Reqs
        BY <2>0, <4>1, BusyFacts
      <4> QED
        BY <2>0, <3>1, <4>2 DEF Begin, StoreResult, StoreError, TypeOK
    <3>3. ~Begin(w)
      BY <2>0, <3>2 DEF Begin, Executable, Active, TypeOK
    <3>4. Works(w) /\ status[r] # "CANCELLED"
      BY <2>0, <3>1, <3>2, <3>3
      DEF StoreResult, StoreError, Works, SucceededUnlessCancelled,
         FailedUnlessCancelled, TypeOK
    <3> QED
      BY <2>0, <3>2, <3>4 DEF ExecutorInv, WorkedIsTaken, Active
  <2>6. ASSUME NEW q \in Reqs, Mark(q) \/ KillOne(q) \/ SeeAcknowledged(q)
        PROVE  FALSE
    BY <2>0, <2>6 DEF Mark, KillOne, SeeAcknowledged, TypeOK, row
  <2>7. CASE \/ StartDrain \/ DownStart \/ DownFails \/ ForceUnlock \/ DownLocks
             \/ DownRetries \/ DownEnds
    BY <2>7 DEF StartDrain, DownStart, DownFails, ForceUnlock, DownLocks, DownRetries,
       DownEnds, row
  <2> QED
    BY <2>1, <2>2, <2>3, <2>4, <2>5, <2>6, <2>7 DEF Next, Teardown
<1> QED
  BY <1>1, RequestsInvAlways, PTL DEF Spec, OutcomeStands
=============================================================================
