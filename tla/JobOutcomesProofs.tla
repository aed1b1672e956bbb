------------------------- MODULE JobOutcomesProofs -------------------------
(***************************************************************************)
(* What becomes of the jobs of ManagedJobs, for every set of jobs, chain   *)
(* of tasks, pool and number of crashes and restarts, as long as recovery  *)
(* itself does not raise (RecoveryFails).                                  *)
(***************************************************************************)
EXTENDS OneControllerProofs

(* A task that is not over and not being cancelled. *)
Ongoing == {"PENDING", "STARTING", "RUNNING", "RECOVERING"}

(* A task that was started, has run or has failed by itself. *)
Began == {"STARTING", "RUNNING", "RECOVERING", "SUCCEEDED", "FAILED"}

(* The task rows r of a job with schedule state s are inserted in order,    *)
(* all of them before the job is submitted.                                 *)
Inserted(s, r) ==
    /\ \A t, u \in Tasks : u < t /\ r[u] = "NONE" => r[t] = "NONE"
    /\ s \notin {"NONE", "INACTIVE"} => \A t \in Tasks : r[t] # "NONE"

(* What began comes after nothing but successes, and nothing has become of  *)
(* the tasks after one that is going on.                                    *)
ChainFits(r) ==
    \A t, u \in Tasks : u < t =>
        /\ r[t] \in Began => r[u] = "SUCCEEDED"
        /\ r[u] \in Ongoing => r[t] \in {"PENDING", "NONE"}

(* A cluster is gone, or its task says that it may be left, or it came up   *)
(* through a request that was left behind.                                  *)
Clean(r, cl, st) ==
    \A t \in Tasks : cl[t] => r[t] = "FAILED_CONTROLLER" \/ st[t] = "up"

DoneFits(s, r, cl, st) ==
    s = "DONE" => Clean(r, cl, st) /\ \A t \in Tasks : r[t] \in Terminal

(* submitted_at is set before a task has a cluster or a launch request. *)
SubmittedFits(r, sub, cl, st) ==
    \A t \in Tasks :
        /\ cl[t] \/ st[t] # "none" => sub[t]
        /\ r[t] \in {"STARTING", "RUNNING", "RECOVERING"} /\ t \notin EmptyTasks => sub[t]

JobFits(s, r, sub, cl, st) ==
    Inserted(s, r) /\ ChainFits(r) /\ DoneFits(s, r, cl, st) /\ SubmittedFits(r, sub, cl, st)

(* The status a task has in a launch that is not a retry. *)
LaunchStatus(c) ==
    IF ~c.rec THEN {"STARTING"}
    ELSE IF c.keep THEN {"STARTING", "RECOVERING"} ELSE {"RECOVERING"}

(* The coroutine c of a job fits the job's rows. *)
CoFits(c, s, r, sub, cl, st) ==
    /\ c.pc \in Body \cup Bookkeeping => \A u \in Tasks : u < c.task => r[u] = "SUCCEEDED"
    /\ c.pc \in {"forced", "want", "restarting", "launch", "launched", "monitor"} =>
          c.task \notin EmptyTasks /\ sub[c.task]
    /\ c.pc \in {"empty", "monitor"} => r[c.task] = "RUNNING"
    /\ c.pc = "forced" => r[c.task] \in {"STARTING", "RECOVERING"}
    /\ c.pc \in {"launch", "launched"} => ~c.retry
    /\ c.pc \in {"restarting", "launch"} => s = "LAUNCHING"
    /\ c.pc = "restarting" => c.retry
    /\ c.pc \in {"want", "restarting", "launch", "launched"} =>
          r[c.task] \in IF c.retry THEN {"PENDING"} ELSE LaunchStatus(c)
    /\ c.pc = "teardown" => r[c.task] = "SUCCEEDED"
    /\ c.pc = "finalize" => Clean(r, cl, st)

JobsFit ==
    \A j \in Jobs :
        /\ JobFits(sched[j], rows[j], submitted[j], cluster[j], stray[j])
        /\ \A p \in Procs : CoFits(co[p][j], sched[j], rows[j], submitted[j], cluster[j], stray[j])

(* A job that a sweep has failed, or that became DONE under its hands, has  *)
(* no other status left.                                                    *)
SweepFits ==
    \A a \in SweepActors :
        /\ sweep[a].pc \in {"orphan", "failing", "done"}
        /\ sweep[a].pc = "done" \/ sched[sweep[a].job] = "DONE"
        => \A t \in Tasks : rows[sweep[a].job][t] = "FAILED_CONTROLLER"

(* A claimed job's dependencies are DONE, and have succeeded where the      *)
(* coroutine has looked.                                                    *)
DepsFit ==
    \A j \in Jobs : \A d \in Deps[j] :
        /\ sched[j] \in NeedsRecovery => sched[d] = "DONE"
        /\ (\E p \in Procs : co[p][j].pc \in Body \ {"top"}) => AllSucceeded(rows[d])
        /\ (\E t \in Tasks : cluster[j][t] \/ submitted[j][t])
             => sched[d] = "DONE" /\ AllSucceeded(rows[d])

JobInv == OwnInv /\ JobsFit /\ SweepFits /\ DepsFit

RowTypes == [Tasks -> Statuses]
Flags == [Tasks -> BOOLEAN]

-----------------------------------------------------------------------------
(* The rows under the UPDATEs of JobState.                                 *)

(* One row of a claimed job moves, while all before it have succeeded. *)
LEMMA SetRowFits ==
    ASSUME NEW s, NEW r \in RowTypes, NEW sub, NEW cl, NEW st, JobFits(s, r, sub, cl, st), s # "DONE",
           NEW t \in Tasks, NEW x \in Ongoing \cup Terminal,
           r[t] \in Unended, x \in Ongoing => r[t] \in Ongoing,
           \A u \in Tasks : u < t => r[u] = "SUCCEEDED",
           x \in {"STARTING", "RUNNING", "RECOVERING"} => sub[t] \/ t \in EmptyTasks,
           NEW n, n = [r EXCEPT ![t] = x]
    PROVE  JobFits(s, n, sub, cl, st)
<1>1. n[t] = x /\ x # "NONE" /\ r[t] # "NONE" /\ \A u \in Tasks : u # t => n[u] = r[u]
  BY DEF RowTypes, Ongoing, Terminal, Unended
<1>2. Inserted(s, n)
  BY <1>1 DEF JobFits, Inserted
<1>3. ChainFits(n)
  <2> SUFFICES ASSUME NEW v \in Tasks, NEW u \in Tasks, u < v
               PROVE  /\ n[v] \in Began => n[u] = "SUCCEEDED"
                      /\ n[u] \in Ongoing => n[v] \in {"PENDING", "NONE"}
    BY DEF ChainFits
  <2>1. /\ r[v] \in Began => r[u] = "SUCCEEDED"
        /\ r[u] \in Ongoing => r[v] \in {"PENDING", "NONE"}
    BY DEF JobFits, ChainFits
  <2>2. CASE v = t
    BY <1>1, <2>2 DEF Tasks, Ongoing
  <2>3. CASE u = t
    BY <1>1, <2>1, <2>3 DEF Ongoing, Unended, Began, Tasks
  <2> QED
    BY <1>1, <2>1, <2>2, <2>3
<1>4. DoneFits(s, n, cl, st)
  BY DEF DoneFits
<1>5. SubmittedFits(n, sub, cl, st)
  BY <1>1 DEF JobFits, SubmittedFits
<1> QED
  BY <1>2, <1>3, <1>4, <1>5 DEF JobFits

(* UPDATEs of all rows of a job. *)
LEMMA AllRowsFit ==
    ASSUME NEW s, NEW r \in RowTypes, NEW sub, NEW cl, NEW st, JobFits(s, r, sub, cl, st), s # "DONE"
    PROVE  /\ JobFits(s, SetCancelling(r), sub, cl, st)
           /\ JobFits(s, SetCancelled(r), sub, cl, st)
           /\ JobFits(s, FailAll(r), sub, cl, st)
           /\ JobFits(s, CancelPending(r), sub, cl, st)
<1>1. JobFits(s, SetCancelling(r), sub, cl, st)
  <2>1. \A t \in Tasks : SetCancelling(r)[t] = IF r[t] \in Unended THEN "CANCELLING" ELSE r[t]
    BY DEF SetCancelling
  <2>2. Inserted(s, SetCancelling(r))
    BY <2>1 DEF JobFits, Inserted, Unended
  <2>3. ChainFits(SetCancelling(r))
    BY <2>1 DEF JobFits, ChainFits, Unended, Ongoing, Began
  <2>4. SubmittedFits(SetCancelling(r), sub, cl, st)
    BY <2>1 DEF JobFits, SubmittedFits, Unended
  <2> QED
    BY <2>2, <2>3, <2>4 DEF JobFits, DoneFits
<1>2. JobFits(s, SetCancelled(r), sub, cl, st)
  <2>1. \A t \in Tasks : SetCancelled(r)[t] = IF r[t] = "CANCELLING" THEN "CANCELLED" ELSE r[t]
    BY DEF SetCancelled
  <2>2. Inserted(s, SetCancelled(r))
    BY <2>1 DEF JobFits, Inserted
  <2>3. ChainFits(SetCancelled(r))
    BY <2>1 DEF JobFits, ChainFits, Ongoing, Began
  <2>4. SubmittedFits(SetCancelled(r), sub, cl, st)
    BY <2>1 DEF JobFits, SubmittedFits
  <2> QED
    BY <2>2, <2>3, <2>4 DEF JobFits, DoneFits
<1>3. JobFits(s, FailAll(r), sub, cl, st)
  <2>1. \A t \in Tasks : FailAll(r)[t] = IF r[t] = "NONE" THEN "NONE" ELSE "FAILED_CONTROLLER"
    BY DEF FailAll
  <2>2. Inserted(s, FailAll(r))
    BY <2>1 DEF JobFits, Inserted
  <2>3. ChainFits(FailAll(r))
    BY <2>1 DEF ChainFits, Ongoing, Began
  <2>4. SubmittedFits(FailAll(r), sub, cl, st)
    BY <2>1 DEF JobFits, SubmittedFits
  <2> QED
    BY <2>2, <2>3, <2>4 DEF JobFits, DoneFits
<1>4. JobFits(s, CancelPending(r), sub, cl, st)
  <2>1. \A t \in Tasks : CancelPending(r)[t] = IF r[t] = "NONE" THEN "NONE" ELSE "CANCELLED"
    BY DEF CancelPending
  <2>2. Inserted(s, CancelPending(r))
    BY <2>1 DEF JobFits, Inserted
  <2>3. ChainFits(CancelPending(r))
    BY <2>1 DEF ChainFits, Ongoing, Began
  <2>4. SubmittedFits(CancelPending(r), sub, cl, st)
    BY <2>1 DEF JobFits, SubmittedFits
  <2> QED
    BY <2>2, <2>3, <2>4 DEF JobFits, DoneFits
<1> QED
  BY <1>1, <1>2, <1>3, <1>4

(* finalize_job_done_async ends every row, and leaves those that ended. *)
LEMMA FinalRowsFit ==
    ASSUME NEW s, NEW r \in RowTypes, NEW sub, NEW cl, NEW st, JobFits(s, r, sub, cl, st),
           s \notin {"NONE", "INACTIVE"}, Clean(r, cl, st), NEW canc \in BOOLEAN
    PROVE  JobFits("DONE", FinalRows(r, canc), sub, cl, st)
<1> DEFINE n == FinalRows(r, canc)
<1>1. \A t \in Tasks :
         /\ r[t] \in Terminal => n[t] = r[t]
         /\ r[t] \in Unended => n[t] \in {"CANCELLED", "FAILED_CONTROLLER"}
         /\ r[t] \in Terminal \cup Unended
  <2>1. \A t \in Tasks : r[t] \in Statuses /\ r[t] # "NONE"
    BY DEF JobFits, Inserted, RowTypes
  <2>2. \A t \in Tasks : n[t] = LET x == IF canc /\ r[t] = "CANCELLING" THEN "CANCELLED" ELSE r[t]
                                IN  IF x \in Unended THEN "FAILED_CONTROLLER" ELSE x
    BY DEF FinalRows, FailUnended, SetCancelled
  <2> QED
    BY <2>1, <2>2 DEF Statuses, Terminal, Unended
<1> HIDE DEF n
<1>2. \A t \in Tasks : n[t] \in Terminal /\ n[t] # "NONE"
  BY <1>1 DEF Terminal
<1>3. Inserted("DONE", n)
  BY <1>2 DEF Inserted
<1>4. ChainFits(n)
  BY <1>1 DEF JobFits, ChainFits, Terminal, Unended, Ongoing, Began
<1>5. DoneFits("DONE", n, cl, st)
  BY <1>1, <1>2 DEF DoneFits, Clean, Terminal
<1>6. SubmittedFits(n, sub, cl, st)
  BY <1>2 DEF JobFits, SubmittedFits, Terminal
<1> QED
  BY <1>3, <1>4, <1>5, <1>6 DEF JobFits, n

(* The schedule state moves between the claimed ones, or clusters go. *)
LEMMA LessFits ==
    ASSUME NEW s, NEW r, NEW sub, NEW cl, NEW st, JobFits(s, r, sub, cl, st),
           NEW n, n = s \/ (s \notin {"NONE", "INACTIVE"} /\ n # "DONE"),
           NEW left, \A t \in Tasks : left[t] => cl[t]
    PROVE  JobFits(n, r, sub, left, st)
BY DEF JobFits, Inserted, DoneFits, Clean, SubmittedFits

(* set_starting_async writes submitted_at with the status. *)
LEMMA SubmitFits ==
    ASSUME NEW s, NEW r, NEW sub \in Flags, NEW cl, NEW st, JobFits(s, r, sub, cl, st), NEW t \in Tasks
    PROVE  JobFits(s, r, [sub EXCEPT ![t] = TRUE], cl, st)
BY DEF JobFits, SubmittedFits, Flags

(* Launch requests of a job that is not DONE are left behind or end. *)
LEMMA StrayFits ==
    ASSUME NEW s, NEW r, NEW sub, NEW cl, NEW st, JobFits(s, r, sub, cl, st), s # "DONE",
           NEW n, \A t \in Tasks : n[t] # "none" => st[t] # "none" \/ sub[t]
    PROVE  JobFits(s, r, sub, cl, n)
BY DEF JobFits, DoneFits, SubmittedFits

-----------------------------------------------------------------------------
(* Places of a coroutine.                                                  *)

(* What At and AtTask make of Off. *)
LEMMA AtFacts ==
    /\ 1 \in Tasks
    /\ \A x : At(x).pc = x /\ At(x).task = 1
    /\ \A x : /\ [At(x) EXCEPT !.canc = TRUE].pc = x
    /\ \A x, t : LET c == AtTask(x, t) IN
          c.pc = x /\ c.task = t /\ c.rec = FALSE /\ c.keep = FALSE /\ c.retry = FALSE
    /\ \A x, t, k : LET c == [AtTask(x, t) EXCEPT !.rec = TRUE, !.keep = k] IN
          c.pc = x /\ c.task = t /\ c.rec = TRUE /\ c.keep = k /\ c.retry = FALSE
    /\ \A x, t : LET c == [AtTask(x, t) EXCEPT !.rec = TRUE] IN
          c.pc = x /\ c.task = t /\ c.rec = TRUE /\ c.keep = FALSE /\ c.retry = FALSE
BY NumTasksAssumption DEF Tasks, At, AtTask, Off

(* Places that ask nothing of the rows. *)
LEMMA QuietFits ==
    ASSUME NEW c, NEW s, NEW r, NEW sub, NEW cl, NEW st,
           c.pc \in {"off", "env", "load", "exit", "exited", "cancelled", "cleanup"}
    PROVE  CoFits(c, s, r, sub, cl, st)
BY DEF CoFits, Body, Bookkeeping

(* Between two tasks, and in the emergency bookkeeping. *)
LEMMA BetweenFits ==
    ASSUME NEW c, NEW s, NEW r, NEW sub, NEW cl, NEW st,
           c.pc \in {"top", "task"} \cup Bookkeeping,
           \A u \in Tasks : u < c.task => r[u] = "SUCCEEDED"
    PROVE  CoFits(c, s, r, sub, cl, st)
BY DEF CoFits, Bookkeeping

(* The first task has none before it. *)
LEMMA FirstTaskFits ==
    ASSUME NEW x \in {"top", "task"}, NEW s, NEW r, NEW sub, NEW cl, NEW st
    PROVE  CoFits(At(x), s, r, sub, cl, st)
<1>1. At(x).pc = x /\ At(x).task = 1
  BY AtFacts
<1>2. \A u \in Tasks : ~(u < At(x).task)
  BY <1>1 DEF Tasks
<1> QED
  BY <1>1, <1>2, BetweenFits

(* On to the next task of the chain, which may be the last. *)
LEMMA NextTaskFits ==
    ASSUME NEW s, NEW r, NEW sub, NEW cl, NEW st, NEW t \in Tasks,
           \A u \in Tasks : u <= t => r[u] = "SUCCEEDED"
    PROVE  CoFits(NextTask(t), s, r, sub, cl, st)
<1>1. CASE t < NumTasks
  <2>1. NextTask(t).pc = "task" /\ NextTask(t).task = t + 1
    BY <1>1, AtFacts DEF NextTask
  <2>2. \A u \in Tasks : u < t + 1 => r[u] = "SUCCEEDED"
    BY DEF Tasks
  <2> QED
    BY <2>1, <2>2, BetweenFits
<1>2. CASE ~(t < NumTasks)
  <2>1. NextTask(t).pc = "exit"
    BY <1>2, AtFacts DEF NextTask
  <2> QED
    BY <2>1, QuietFits
<1> QED
  BY <1>1, <1>2

-----------------------------------------------------------------------------
(* Frames.                                                                 *)

(* Job k is as it was. *)
JobStays(k) ==
    /\ sched'[k] = sched[k]
    /\ rows'[k] = rows[k]
    /\ submitted'[k] = submitted[k]
    /\ cluster'[k] = cluster[k]
    /\ stray'[k] = stray[k]

(* A coroutine leaves its launch request behind when it leaves sdk.launch,  *)
(* or brings up the cluster that a request would have.                      *)
LEMMA StrayFramed ==
    ASSUME NEW p \in Procs, NEW j \in Jobs,
           CancelJob(p, j) \/ RunStep(p, j) \/ Outcome(p, j)
    PROVE  \/ stray' = stray
           \/ stray' = [stray EXCEPT ![j] = LeftBehind(p, j)]
           \/ Provision(p, j)
<1>1. CASE RunStep(p, j)
  BY <1>1 DEF RunStep, LoadEnv, LoadDag, CheckDependencies, SkipTask, StartEmptyTask,
     FinishEmptyTask, StartTask, ResumeTask, ForceRecovery, EnterLaunch, SetRestarting,
     SetRunning, TearDown, EmergencyKeep, EmergencyRelaunch, EmergencyFastRetry,
     EmergencyTearDown, Normalize, ExitCancelling, ExitCancelled, CancelledRun,
     Cleanup, FinalizeJob, Others
<1>2. CASE \/ LoadEnvFails(p, j) \/ LoadDagFails(p, j) \/ PrepareFails(p, j)
           \/ LaunchSucceeds(p, j) \/ LaunchRaises(p, j) \/ TaskSucceeds(p, j)
           \/ TaskFails(p, j) \/ TaskRecovers(p, j) \/ UnwindFails(p, j)
           \/ CleanupFails(p, j)
  BY <1>2 DEF LoadEnvFails, LoadDagFails, PrepareFails, LaunchSucceeds, LaunchRaises,
     TaskSucceeds, TaskFails, TaskRecovers, UnwindFails, CleanupFails, Others
<1>3. CASE \/ CancelJob(p, j) \/ LaunchBacksOff(p, j) \/ RelaunchGivesUp(p, j)
           \/ EmergencySpend(p, j) \/ EmergencyExhausted(p, j)
  BY <1>3 DEF CancelJob, LaunchBacksOff, RelaunchGivesUp, EmergencySpend, EmergencyExhausted
<1> QED
  BY <1>1, <1>2, <1>3 DEF Outcome

(* What changes of the requests of job j when its coroutine moves. *)
LEMMA StrayMoved ==
    ASSUME TypeOK, NEW p \in Procs, NEW j \in Jobs,
           CancelJob(p, j) \/ RunStep(p, j) \/ Outcome(p, j)
    PROVE  /\ \A k \in Jobs : k # j => stray'[k] = stray[k]
           /\ co[p][j].pc # "launch" => stray'[j] = stray[j]
           /\ \A t \in Tasks : stray'[j][t] # "none" =>
                 stray[j][t] # "none" \/ (co[p][j].pc = "launch" /\ t = co[p][j].task)
<1>1. stray \in [Jobs -> [Tasks -> StrayStates]] /\ stray[j] \in [Tasks -> StrayStates]
  BY DEF TypeOK
<1>2. CASE stray' = stray
  BY <1>2
<1>3. CASE stray' = [stray EXCEPT ![j] = LeftBehind(p, j)]
  <2>1. stray'[j] = LeftBehind(p, j) /\ \A k \in Jobs : k # j => stray'[k] = stray[k]
    BY <1>1, <1>3
  <2> QED
    BY <1>1, <2>1 DEF LeftBehind
<1>4. CASE Provision(p, j)
  <2> DEFINE t == co[p][j].task
             x == IF stray[j][t] = "up" THEN "none" ELSE stray[j][t]
  <2>1. stray' = [stray EXCEPT ![j][t] = x] /\ co[p][j].pc = "launch"
    BY <1>4 DEF Provision
  <2>2. stray'[j] = [stray[j] EXCEPT ![t] = x] /\ \A k \in Jobs : k # j => stray'[k] = stray[k]
    BY <1>1, <2>1
  <2> QED
    BY <1>1, <2>1, <2>2
<1> QED
  BY <1>2, <1>3, <1>4, StrayFramed

(* A coroutine works on its own job. *)
LEMMA OthersStay ==
    ASSUME TypeOK, NEW p \in Procs, NEW j \in Jobs,
           CancelJob(p, j) \/ RunStep(p, j) \/ Outcome(p, j),
           NEW k \in Jobs, k # j
    PROVE  JobStays(k)
<1>1. sched'[k] = sched[k]
  BY CoroutineFramed DEF CoroutineFrame
<1>2. rows' = rows \/ \E r : rows' = [rows EXCEPT ![j] = r]
  <2>1. \A t, x : [rows EXCEPT ![j][t] = x] = [rows EXCEPT ![j] = [rows[j] EXCEPT ![t] = x]]
    BY DEF TypeOK
  <2>2. CASE \/ LoadEnv(p, j) \/ LoadDag(p, j) \/ CheckDependencies(p, j)
             \/ SkipTask(p, j) \/ ResumeTask(p, j) \/ ForceRecovery(p, j)
             \/ EnterLaunch(p, j) \/ TearDown(p, j) \/ EmergencyKeep(p, j)
             \/ EmergencyFastRetry(p, j) \/ EmergencyTearDown(p, j) \/ Normalize(p, j)
             \/ Cleanup(p, j) \/ LoadEnvFails(p, j) \/ LoadDagFails(p, j)
             \/ Provision(p, j) \/ LaunchSucceeds(p, j) \/ RelaunchGivesUp(p, j)
             \/ EmergencySpend(p, j) \/ CancelJob(p, j)
    BY <2>2 DEF LoadEnv, LoadDag, CheckDependencies, SkipTask, ResumeTask,
       ForceRecovery, EnterLaunch, TearDown, EmergencyKeep, EmergencyFastRetry,
       EmergencyTearDown, Normalize, Cleanup, LoadEnvFails, LoadDagFails, Provision,
       LaunchSucceeds, RelaunchGivesUp, EmergencySpend, CancelJob, db
  <2>3. CASE \/ StartEmptyTask(p, j) \/ FinishEmptyTask(p, j) \/ StartTask(p, j)
             \/ SetRestarting(p, j) \/ SetRunning(p, j) \/ EmergencyRelaunch(p, j)
             \/ LaunchBacksOff(p, j) \/ TaskSucceeds(p, j) \/ TaskRecovers(p, j)
    <3>1. \E t, x : rows' = [rows EXCEPT ![j][t] = x]
      BY <2>3 DEF StartEmptyTask, FinishEmptyTask, StartTask, SetRestarting,
         SetRunning, EmergencyRelaunch, LaunchBacksOff, TaskSucceeds, TaskRecovers
    <3> QED
      BY <2>1, <3>1
  <2>4. CASE \/ ExitCancelling(p, j) \/ ExitCancelled(p, j) \/ CancelledRun(p, j)
             \/ FinalizeJob(p, j) \/ PrepareFails(p, j) \/ LaunchRaises(p, j)
             \/ TaskFails(p, j) \/ EmergencyExhausted(p, j) \/ UnwindFails(p, j)
             \/ CleanupFails(p, j)
    BY <2>4 DEF ExitCancelling, ExitCancelled, CancelledRun, FinalizeJob, PrepareFails,
       LaunchRaises, TaskFails, EmergencyExhausted, UnwindFails, CleanupFails, TypeOK
  <2> QED
    BY <2>2, <2>3, <2>4 DEF RunStep, Outcome
<1>3. submitted' = submitted \/ \E t : submitted' = [submitted EXCEPT ![j][t] = TRUE]
  <2>1. CASE StartTask(p, j)
    BY <2>1 DEF StartTask
  <2>2. CASE RunStep(p, j) /\ ~StartTask(p, j)
    BY <2>2 DEF RunStep, LoadEnv, LoadDag, CheckDependencies, SkipTask, StartEmptyTask,
       FinishEmptyTask, ResumeTask, ForceRecovery, EnterLaunch, SetRestarting,
       SetRunning, TearDown, EmergencyKeep, EmergencyRelaunch, EmergencyFastRetry,
       EmergencyTearDown, Normalize, ExitCancelling, ExitCancelled, CancelledRun,
       Cleanup, FinalizeJob
  <2>3. CASE CancelJob(p, j) \/ Outcome(p, j)
    BY <2>3 DEF Outcome, LoadEnvFails, LoadDagFails, PrepareFails, Provision,
       LaunchSucceeds, LaunchBacksOff, LaunchRaises, RelaunchGivesUp, TaskSucceeds,
       TaskFails, TaskRecovers, EmergencySpend, EmergencyExhausted, UnwindFails,
       CleanupFails, CancelJob, db
  <2> QED
    BY <2>1, <2>2, <2>3
<1>4. cluster' = cluster \/ \E c : cluster' = [cluster EXCEPT ![j] = c]
  <2>1. \A t, x : [cluster EXCEPT ![j][t] = x] = [cluster EXCEPT ![j] = [cluster[j] EXCEPT ![t] = x]]
    BY DEF TypeOK
  <2>2. CASE \/ ForceRecovery(p, j) \/ TearDown(p, j) \/ EmergencyTearDown(p, j)
             \/ Provision(p, j) \/ LaunchBacksOff(p, j) \/ RelaunchGivesUp(p, j)
             \/ TaskRecovers(p, j)
    <3>1. \E t, x : cluster' = [cluster EXCEPT ![j][t] = x]
      BY <2>2 DEF ForceRecovery, TearDown, EmergencyTearDown, Provision,
         LaunchBacksOff, RelaunchGivesUp, TaskRecovers
    <3> QED
      BY <2>1, <3>1
  <2>3. CASE Cleanup(p, j) \/ CleanupFails(p, j)
    BY <2>3 DEF Cleanup, CleanupFails
  <2>4. CASE RunStep(p, j) /\ ~(ForceRecovery(p, j) \/ TearDown(p, j)
                \/ EmergencyTearDown(p, j) \/ Cleanup(p, j))
    BY <2>4 DEF RunStep, LoadEnv, LoadDag, CheckDependencies, SkipTask, StartEmptyTask,
       FinishEmptyTask, StartTask, ResumeTask, EnterLaunch, SetRestarting,
       SetRunning, EmergencyKeep, EmergencyRelaunch, EmergencyFastRetry,
       Normalize, ExitCancelling, ExitCancelled, CancelledRun, FinalizeJob
  <2>5. CASE \/ LoadEnvFails(p, j) \/ LoadDagFails(p, j) \/ PrepareFails(p, j)
             \/ LaunchSucceeds(p, j) \/ LaunchRaises(p, j) \/ TaskSucceeds(p, j)
             \/ TaskFails(p, j) \/ EmergencySpend(p, j) \/ EmergencyExhausted(p, j)
             \/ UnwindFails(p, j) \/ CancelJob(p, j)
    BY <2>5 DEF LoadEnvFails, LoadDagFails, PrepareFails, LaunchSucceeds, LaunchRaises,
       TaskSucceeds, TaskFails, EmergencySpend, EmergencyExhausted, UnwindFails, CancelJob
  <2> QED
    BY <2>2, <2>3, <2>4, <2>5 DEF Outcome
<1>5. stray'[k] = stray[k]
  BY StrayMoved
<1> QED
  BY <1>1, <1>2, <1>3, <1>4, <1>5 DEF JobStays, TypeOK

-----------------------------------------------------------------------------
(* The steps of a coroutine.                                               *)

(* What a coroutine of process p finds of its job j. *)
LEMMA CoroutineFinds ==
    ASSUME JobInv, NEW p \in Procs, NEW j \in Jobs, co[p][j].pc # "off"
    PROVE  /\ sched[j] \in NeedsRecovery
           /\ \A q \in Procs : q # p => co[q][j].pc = "off"
           /\ JobFits(sched[j], rows[j], submitted[j], cluster[j], stray[j])
           /\ CoFits(co[p][j], sched[j], rows[j], submitted[j], cluster[j], stray[j])
           /\ rows[j] \in RowTypes /\ submitted[j] \in Flags /\ cluster[j] \in Flags
           /\ co[p][j] \in CoStates /\ co[p][j].task \in Tasks
<1>1. TypeOK
  BY DEF JobInv, OwnInv
<1>2. /\ rows[j] \in RowTypes /\ submitted[j] \in Flags /\ cluster[j] \in Flags
      /\ co[p][j] \in CoStates
  BY <1>1 DEF TypeOK, RowTypes, Flags
<1>3. co[p][j].task \in Tasks
  BY <1>2 DEF CoStates
<1>4. /\ sched[j] \in NeedsRecovery
      /\ \A q \in Procs : q # p => co[q][j].pc = "off"
  BY OwnInvFacts DEF JobInv
<1> QED
  BY <1>2, <1>3, <1>4 DEF JobInv, JobsFit

(* Before a coroutine moves, it and its job fit the requests it leaves. *)
LEMMA CoroutineLeaves ==
    ASSUME JobInv, NEW p \in Procs, NEW j \in Jobs,
           CancelJob(p, j) \/ RunStep(p, j) \/ Outcome(p, j)
    PROVE  /\ JobFits(sched[j], rows[j], submitted[j], cluster[j], stray'[j])
           /\ CoFits(co[p][j], sched[j], rows[j], submitted[j], cluster[j], stray'[j])
<1> DEFINE s == sched[j]
           r == rows[j]
           sub == submitted[j]
           cl == cluster[j]
           st == stray[j]
           n == stray'[j]
           c == co[p][j]
<1>1. TypeOK
  BY DEF JobInv, OwnInv
<1>2. c.pc # "off"
  BY <1>1, CoroutineFramed DEF CoroutineFrame
<1>3. /\ JobFits(s, r, sub, cl, st) /\ CoFits(c, s, r, sub, cl, st) /\ s # "DONE"
  BY <1>2, CoroutineFinds DEF NeedsRecovery
<1>4. /\ c.pc # "launch" => n = st
      /\ \A t \in Tasks : n[t] # "none" =>
            st[t] # "none" \/ (c.pc = "launch" /\ t = c.task)
  BY <1>1, StrayMoved
<1> HIDE DEF s, r, sub, cl, st, n, c
<1>5. c.pc = "launch" => sub[c.task]
  BY <1>3 DEF CoFits
<1>6. JobFits(s, r, sub, cl, n)
  BY <1>3, <1>4, <1>5, StrayFits
<1>7. CoFits(c, s, r, sub, cl, n)
  <2>1. CASE c.pc = "launch"
    BY <1>3, <2>1 DEF CoFits
  <2>2. CASE c.pc # "launch"
    BY <1>3, <1>4, <2>2
  <2> QED
    BY <2>1, <2>2
<1> QED
  BY <1>6, <1>7 DEF s, r, sub, cl, n, c

(* Job j and its coroutine in process p fit. *)
Fits(p, j) ==
    /\ JobFits(sched[j], rows[j], submitted[j], cluster[j], stray[j])
    /\ CoFits(co[p][j], sched[j], rows[j], submitted[j], cluster[j], stray[j])

(* Steps that only move the coroutine. *)
LEMMA MovesFit ==
    ASSUME JobInv, NEW p \in Procs, NEW j \in Jobs,
           \/ CancelJob(p, j) \/ LoadEnv(p, j) \/ LoadEnvFails(p, j) \/ LoadDag(p, j)
           \/ LoadDagFails(p, j) \/ CheckDependencies(p, j) \/ SkipTask(p, j)
           \/ ResumeTask(p, j) \/ EmergencySpend(p, j) \/ EmergencyKeep(p, j)
           \/ EmergencyFastRetry(p, j)
    PROVE  Fits(p, j)'
<1> DEFINE s == sched[j]
           r == rows[j]
           sub == submitted[j]
           cl == cluster[j]
           st == stray'[j]
           c == co[p][j]
<1>1. TypeOK /\ co[p][j].pc # "off"
  BY DEF JobInv, OwnInv, CancelJob, LoadEnv, LoadEnvFails, LoadDag, LoadDagFails,
     CheckDependencies, SkipTask, ResumeTask, EmergencySpend, EmergencyKeep,
     EmergencyFastRetry, Body
<1>2. /\ JobFits(s, r, sub, cl, st) /\ CoFits(c, s, r, sub, cl, st)
      /\ c \in CoStates /\ c.task \in Tasks /\ r \in RowTypes
  BY <1>1, CoroutineFinds, CoroutineLeaves DEF RunStep, Outcome
<1>3. sched' = sched /\ rows' = rows /\ submitted' = submitted /\ cluster' = cluster
  BY DEF CancelJob, LoadEnv, LoadEnvFails, LoadDag, LoadDagFails,
     CheckDependencies, SkipTask, ResumeTask, EmergencySpend, EmergencyKeep,
     EmergencyFastRetry, db
<1> SUFFICES CoFits(co'[p][j], s, r, sub, cl, st)
  BY <1>2, <1>3 DEF Fits
<1> HIDE DEF s, r, sub, cl
<1>4. CASE CancelJob(p, j)
  <2>1. co'[p][j] = At("cancelled") \/ co'[p][j] = c
    BY <1>1, <1>4 DEF CancelJob, TypeOK
  <2> QED
    BY <1>2, <2>1, AtFacts, QuietFits
<1>5. CASE LoadEnv(p, j) \/ LoadEnvFails(p, j) \/ LoadDagFails(p, j)
  <2>1. co'[p][j] \in {At("load"), Off, At("cleanup")}
    BY <1>1, <1>5, ResumeOne DEF LoadEnv, LoadEnvFails, LoadDagFails
  <2>2. Off.pc = "off"
    BY DEF Off
  <2> QED
    BY <2>1, <2>2, AtFacts, QuietFits
<1>6. CASE LoadDag(p, j) \/ CheckDependencies(p, j)
  <2>1. co'[p][j] \in {At("top"), At("task"), At("exit")}
    BY <1>1, <1>6, ResumeOne DEF LoadDag, CheckDependencies
  <2> QED
    BY <2>1, AtFacts, QuietFits, FirstTaskFits
<1>7. CASE SkipTask(p, j)
  <2>1. \/ co'[p][j] = At("exit")
        \/ co'[p][j] = NextTask(c.task) /\ r[c.task] = "SUCCEEDED"
    BY <1>1, <1>7, ResumeOne DEF SkipTask, r
  <2>2. \A u \in Tasks : u < c.task => r[u] = "SUCCEEDED"
    BY <1>2, <1>7 DEF SkipTask, CoFits, Body
  <2>3. r[c.task] = "SUCCEEDED" => \A u \in Tasks : u <= c.task => r[u] = "SUCCEEDED"
    BY <1>2, <2>2 DEF Tasks
  <2> QED
    BY <1>2, <2>1, <2>3, AtFacts, QuietFits, NextTaskFits
<1>8. CASE ResumeTask(p, j)
  <2> DEFINE t == c.task
  <2>1. /\ t \notin EmptyTasks
        /\ r[t] \in Unended \ MayStart
        /\ co'[p][j] = CASE r[t] = "CANCELLING" -> At("cancelled")
                         [] r[t] = "RUNNING" -> AtTask("monitor", t)
                         [] OTHER -> AtTask("forced", t)
    <3>1. /\ t \notin EmptyTasks
          /\ r[t] \in Unended \ MayStart
          /\ Resume(p, j, CASE r[t] = "CANCELLING" -> At("cancelled")
                            [] r[t] = "RUNNING" -> AtTask("monitor", t)
                            [] OTHER -> AtTask("forced", t))
      BY <1>8 DEF ResumeTask, r
    <3> QED
      BY <1>1, <3>1, ResumeOne
  <2>2. \A u \in Tasks : u < t => r[u] = "SUCCEEDED"
    BY <1>2, <1>8 DEF ResumeTask, CoFits, Body
  <2>3. r[t] \in {"STARTING", "RUNNING", "RECOVERING"} => sub[t]
    BY <1>2, <2>1 DEF JobFits, SubmittedFits
  <2>4. CASE r[t] = "CANCELLING"
    BY <2>1, <2>4, AtFacts, QuietFits
  <2>5. CASE r[t] = "RUNNING"
    <3>1. co'[p][j] = AtTask("monitor", t)
      BY <2>1, <2>5
    <3>2. co'[p][j].pc = "monitor" /\ co'[p][j].task = t
      BY <3>1, AtFacts
    <3> QED
      BY <2>1, <2>2, <2>3, <2>5, <3>2 DEF CoFits
  <2>6. CASE r[t] \in {"STARTING", "RECOVERING"}
    <3>1. co'[p][j] = AtTask("forced", t)
      BY <2>1, <2>6
    <3>2. co'[p][j].pc = "forced" /\ co'[p][j].task = t
      BY <3>1, AtFacts
    <3> QED
      BY <2>1, <2>2, <2>3, <2>6, <3>2 DEF CoFits
  <2> QED
    BY <2>1, <2>4, <2>5, <2>6 DEF Unended, MayStart
<1>9. CASE EmergencySpend(p, j) \/ EmergencyKeep(p, j) \/ EmergencyFastRetry(p, j)
  <2>1. \A u \in Tasks : u < c.task => r[u] = "SUCCEEDED"
    BY <1>2, <1>9 DEF EmergencySpend, EmergencyKeep, EmergencyFastRetry, CoFits, Bookkeeping
  <2>2. \/ co'[p][j] = AtTask("emergency", c.task)
        \/ co'[p][j] = [c EXCEPT !.pc = "normalize"]
        \/ co'[p][j] = AtTask("top", c.task)
    BY <1>1, <1>9, ResumeOne DEF EmergencySpend, EmergencyKeep, EmergencyFastRetry
  <2>3. co'[p][j].pc \in {"emergency", "normalize", "top"} /\ co'[p][j].task = c.task
    BY <1>2, <2>2, AtFacts DEF CoStates
  <2> QED
    BY <2>1, <2>3, BetweenFits DEF Bookkeeping
<1> QED
  BY <1>4, <1>5, <1>6, <1>7, <1>8, <1>9

(* set_failed of one task, ended or not. *)
LEMMA FailTaskFits ==
    ASSUME NEW s, NEW r \in RowTypes, NEW sub, NEW cl, NEW st, JobFits(s, r, sub, cl, st), s # "DONE",
           NEW t \in Tasks, NEW x \in {"FAILED", "FAILED_CONTROLLER"},
           \A u \in Tasks : u < t => r[u] = "SUCCEEDED"
    PROVE  JobFits(s, FailTask(r, t, x), sub, cl, st)
<1>1. CASE r[t] \in Unended
  <2>1. FailTask(r, t, x) = [r EXCEPT ![t] = x]
    BY <1>1 DEF FailTask
  <2> QED
    <3>1. x \in Ongoing \cup Terminal /\ x \notin Ongoing
      BY DEF Ongoing, Terminal
    <3>2. x \notin {"STARTING", "RUNNING", "RECOVERING"}
      OBVIOUS
    <3> QED
      BY <1>1, <2>1, <3>1, <3>2, SetRowFits
<1>2. CASE r[t] \notin Unended
  <2>1. FailTask(r, t, x) = r
    BY <1>2 DEF FailTask, RowTypes
  <2> QED
    BY <2>1
<1> QED
  BY <1>1, <1>2

(* Steps that start, finish or fail the coroutine's task. *)
LEMMA TaskStepsFit ==
    ASSUME JobInv, NEW p \in Procs, NEW j \in Jobs,
           \/ StartEmptyTask(p, j) \/ FinishEmptyTask(p, j) \/ StartTask(p, j)
           \/ SetRestarting(p, j) \/ SetRunning(p, j) \/ LaunchBacksOff(p, j)
           \/ TaskSucceeds(p, j) \/ TaskRecovers(p, j)
           \/ PrepareFails(p, j) \/ LaunchRaises(p, j) \/ TaskFails(p, j)
           \/ EmergencyExhausted(p, j)
    PROVE  Fits(p, j)'
<1> DEFINE s == sched[j]
           r == rows[j]
           sub == submitted[j]
           cl == cluster[j]
           st == stray'[j]
           c == co[p][j]
           t == co[p][j].task
<1>1. TypeOK /\ c.pc \in Body \cup Bookkeeping
  BY DEF JobInv, OwnInv, StartEmptyTask, FinishEmptyTask, StartTask, SetRestarting,
     SetRunning, LaunchBacksOff, TaskSucceeds, TaskRecovers, PrepareFails,
     LaunchRaises, TaskFails, EmergencyExhausted, Body
<1>2. /\ JobFits(s, r, sub, cl, st) /\ CoFits(c, s, r, sub, cl, st) /\ s # "DONE"
      /\ c \in CoStates /\ t \in Tasks /\ r \in RowTypes /\ sub \in Flags /\ cl \in Flags
  <2>1. c.pc # "off"
    BY <1>1 DEF Body, Bookkeeping
  <2> QED
    BY <2>1, CoroutineFinds, CoroutineLeaves DEF NeedsRecovery, RunStep, Outcome
<1>3. \A u \in Tasks : u < t => r[u] = "SUCCEEDED"
  BY <1>1, <1>2 DEF CoFits
<1>4. sched' = sched
  BY DEF StartEmptyTask, FinishEmptyTask, StartTask, SetRestarting,
     SetRunning, LaunchBacksOff, TaskSucceeds, TaskRecovers, PrepareFails,
     LaunchRaises, TaskFails, EmergencyExhausted
<1> HIDE DEF s, r, sub, cl, c, t
<1>5. ASSUME NEW x \in Statuses
      PROVE  /\ [r EXCEPT ![t] = x] \in RowTypes
             /\ [r EXCEPT ![t] = x][t] = x
             /\ \A u \in Tasks : u < t => [r EXCEPT ![t] = x][u] = "SUCCEEDED"
  BY <1>2, <1>3 DEF RowTypes, Tasks
<1>6. CASE StartEmptyTask(p, j)
  <2>1. /\ rows'[j] = [r EXCEPT ![t] = "RUNNING"] /\ co'[p][j] = AtTask("empty", t)
        /\ submitted' = submitted /\ cluster' = cluster
        /\ r[t] \in MayBeStarted /\ t \in EmptyTasks
    BY <1>1, <1>6, ResumeOne DEF StartEmptyTask, TypeOK, r, t, c
  <2>2. JobFits(s, rows'[j], sub, cl, st)
    <3>1. r[t] \in Unended /\ r[t] \in Ongoing /\ "RUNNING" \in Ongoing \cup Terminal
      BY <2>1 DEF Ongoing, Unended, MayBeStarted
    <3> QED
      BY <1>2, <1>3, <2>1, <3>1, SetRowFits
  <2>3. co'[p][j].pc = "empty" /\ co'[p][j].task = t
    BY <2>1, AtFacts
  <2>4. CoFits(co'[p][j], s, rows'[j], sub, cl, st)
    BY <1>5, <2>1, <2>3 DEF CoFits, Statuses, Unended
  <2> QED
    BY <1>4, <2>1, <2>2, <2>4 DEF Fits, s, r, sub, cl
<1>7. CASE FinishEmptyTask(p, j) \/ TaskSucceeds(p, j)
  <2>0. Resume(p, j, NextTask(t)) \/ Resume(p, j, AtTask("teardown", t))
    BY <1>7 DEF FinishEmptyTask, TaskSucceeds, t
  <2>1. /\ rows'[j] = [r EXCEPT ![t] = "SUCCEEDED"]
        /\ co'[p][j] = NextTask(t) \/ co'[p][j] = AtTask("teardown", t)
        /\ submitted' = submitted /\ cluster' = cluster
        /\ r[t] \in MaySucceed
    <3>1. co'[p][j] = NextTask(t) \/ co'[p][j] = AtTask("teardown", t)
      BY <1>1, <2>0, ResumeOne
    <3>2. /\ rows' = [rows EXCEPT ![j][t] = "SUCCEEDED"]
          /\ submitted' = submitted /\ cluster' = cluster
          /\ r[t] \in MaySucceed
      BY <1>7 DEF FinishEmptyTask, TaskSucceeds, r, t, c
    <3>3. rows'[j] = [r EXCEPT ![t] = "SUCCEEDED"]
      BY <1>1, <3>2 DEF TypeOK, r
    <3> QED
      BY <3>1, <3>2, <3>3
  <2>2. JobFits(s, rows'[j], sub, cl, st)
    <3>1. r[t] \in Unended /\ r[t] \in Ongoing /\ "SUCCEEDED" \in Ongoing \cup Terminal
      BY <2>1 DEF Ongoing, Unended, Terminal, MaySucceed
    <3> QED
      BY <1>2, <1>3, <2>1, <3>1, SetRowFits
  <2>3. \A u \in Tasks : u <= t => rows'[j][u] = "SUCCEEDED"
    BY <1>2, <1>5, <2>1 DEF Statuses, Terminal, Tasks
  <2>4. CASE co'[p][j] = AtTask("teardown", t)
    <3>1. co'[p][j].pc = "teardown" /\ co'[p][j].task = t
      BY <2>4, AtFacts
    <3>2. CoFits(co'[p][j], s, rows'[j], sub, cl, st)
      BY <1>2, <2>3, <3>1 DEF CoFits, Tasks
    <3> QED
      BY <1>4, <2>1, <2>2, <3>2 DEF Fits, s, r, sub, cl
  <2>5. CASE co'[p][j] = NextTask(t)
    <3>1. CoFits(co'[p][j], s, rows'[j], sub, cl, st)
      BY <1>2, <2>3, <2>5, NextTaskFits
    <3> QED
      BY <1>4, <2>1, <2>2, <3>1 DEF Fits, s, r, sub, cl
  <2> QED
    BY <2>1, <2>4, <2>5
<1>8. CASE StartTask(p, j)
  <2> DEFINE ns == [sub EXCEPT ![t] = TRUE]
  <2>1. /\ rows'[j] = [r EXCEPT ![t] = "STARTING"] /\ co'[p][j] = AtTask("want", t)
        /\ submitted'[j] = ns /\ cluster' = cluster
        /\ r[t] \in MayStart /\ t \notin EmptyTasks
    BY <1>1, <1>8, ResumeOne DEF StartTask, TypeOK, r, t, c, sub
  <2>2. JobFits(s, r, ns, cl, st) /\ ns[t]
    BY <1>2, SubmitFits DEF Flags
  <2> HIDE DEF ns
  <2>3. JobFits(s, rows'[j], ns, cl, st)
    <3>1. r[t] \in Unended /\ r[t] \in Ongoing /\ "STARTING" \in Ongoing \cup Terminal
      BY <2>1 DEF Ongoing, Unended, MayStart
    <3> QED
      BY <1>2, <1>3, <2>1, <2>2, <3>1, SetRowFits
  <2>4. /\ co'[p][j].pc = "want" /\ co'[p][j].task = t
        /\ co'[p][j].rec = FALSE /\ co'[p][j].retry = FALSE
    BY <2>1, AtFacts
  <2>5. CoFits(co'[p][j], s, rows'[j], ns, cl, st)
    BY <1>5, <2>1, <2>2, <2>4 DEF CoFits, LaunchStatus, Statuses, Unended
  <2> QED
    BY <1>4, <2>1, <2>3, <2>5 DEF Fits, s, r, sub, cl
<1>9. CASE SetRestarting(p, j)
  <2> DEFINE x == IF c.rec THEN "RECOVERING" ELSE "STARTING"
  <2>1. /\ rows'[j] = [r EXCEPT ![t] = x]
        /\ co'[p][j] = [c EXCEPT !.pc = "launch", !.retry = FALSE]
        /\ submitted' = submitted /\ cluster' = cluster
        /\ c.pc = "restarting"
    BY <1>1, <1>9, ResumeOne DEF SetRestarting, TypeOK, r, t, c
  <2>2. r[t] = "PENDING" /\ sub[t] /\ t \notin EmptyTasks
    BY <1>2, <2>1 DEF CoFits, c, t
  <2>3. x \in {"STARTING", "RECOVERING"} /\ x \in Ongoing \cup Terminal /\ x \in Statuses
    BY DEF Ongoing, Statuses, Unended
  <2>4. JobFits(s, rows'[j], sub, cl, st)
    <3>1. r[t] \in Unended /\ r[t] \in Ongoing
      BY <2>2 DEF Ongoing, Unended
    <3> QED
      BY <1>2, <1>3, <2>1, <2>2, <2>3, <3>1, SetRowFits
  <2>5. s = "LAUNCHING"
    BY <1>2, <2>1 DEF CoFits
  <2>6. /\ co'[p][j].pc = "launch" /\ co'[p][j].task = t /\ co'[p][j].retry = FALSE
        /\ co'[p][j].rec = c.rec /\ co'[p][j].keep = c.keep
    BY <1>2, <2>1 DEF CoStates, c, t
  <2>7. rows'[j][t] \in LaunchStatus(co'[p][j])
    BY <1>5, <2>1, <2>3, <2>6 DEF LaunchStatus
  <2>8. CoFits(co'[p][j], s, rows'[j], sub, cl, st)
    BY <1>5, <2>1, <2>2, <2>3, <2>5, <2>6, <2>7 DEF CoFits
  <2> QED
    BY <1>4, <2>1, <2>4, <2>8 DEF Fits, s, r, sub, cl
<1>10. CASE SetRunning(p, j)
  <2>1. /\ rows'[j] = [r EXCEPT ![t] = "RUNNING"] /\ co'[p][j] = AtTask("monitor", t)
        /\ submitted' = submitted /\ cluster' = cluster
        /\ c.pc = "launched"
    BY <1>1, <1>10, ResumeOne DEF SetRunning, TypeOK, r, t, c
  <2>2. r[t] \in {"STARTING", "RECOVERING"} /\ sub[t] /\ t \notin EmptyTasks
    BY <1>2, <2>1 DEF CoFits, LaunchStatus, c, t
  <2>3. JobFits(s, rows'[j], sub, cl, st)
    <3>1. r[t] \in Unended /\ r[t] \in Ongoing /\ "RUNNING" \in Ongoing \cup Terminal
      BY <2>2 DEF Ongoing, Unended
    <3> QED
      BY <1>2, <1>3, <2>1, <2>2, <3>1, SetRowFits
  <2>4. co'[p][j].pc = "monitor" /\ co'[p][j].task = t
    BY <2>1, AtFacts
  <2>5. CoFits(co'[p][j], s, rows'[j], sub, cl, st)
    BY <1>5, <2>1, <2>2, <2>4 DEF CoFits, Statuses, Unended
  <2> QED
    BY <1>4, <2>1, <2>3, <2>5 DEF Fits, s, r, sub, cl
<1>11. CASE LaunchBacksOff(p, j) \/ TaskRecovers(p, j)
  <2> DEFINE x == IF c.pc = "launch" THEN "PENDING" ELSE "RECOVERING"
  <2>1. PICK left \in {cl[t], FALSE} : cluster'[j] = [cl EXCEPT ![t] = left]
    BY <1>1, <1>11 DEF LaunchBacksOff, TaskRecovers, TypeOK, cl, t
  <2>2. \A u \in Tasks : cluster'[j][u] => cl[u]
    BY <1>2, <2>1 DEF Flags
  <2>3. /\ rows'[j] = [r EXCEPT ![t] = x] /\ submitted' = submitted
        /\ c.pc \in {"launch", "monitor"}
    BY <1>1, <1>11 DEF LaunchBacksOff, TaskRecovers, TypeOK, r, t, c
  <2>4. r[t] \in Ongoing /\ r[t] \in Unended /\ sub[t] /\ t \notin EmptyTasks
    BY <1>2, <2>3 DEF CoFits, LaunchStatus, Ongoing, Unended, c, t
  <2>5. x \in Ongoing \cup Terminal /\ x \in Statuses
    BY DEF Ongoing, Statuses, Unended
  <2>6. JobFits(s, rows'[j], sub, cl, st)
    BY <1>2, <1>3, <2>3, <2>4, <2>5, SetRowFits
  <2>7. JobFits(s, rows'[j], sub, cluster'[j], st)
    BY <2>2, <2>6, LessFits
  <2>8. /\ co'[p][j].pc = "want" /\ co'[p][j].task = t
        /\ x \in IF co'[p][j].retry THEN {"PENDING"} ELSE LaunchStatus(co'[p][j])
    <3>1. CASE LaunchBacksOff(p, j)
      <4>1. co'[p][j] = [c EXCEPT !.pc = "want", !.retry = TRUE] /\ c.pc = "launch"
        BY <1>1, <3>1, ResumeOne DEF LaunchBacksOff, c
      <4> QED
        BY <1>2, <4>1 DEF CoStates, c, t
    <3>2. CASE TaskRecovers(p, j)
      <4>1. co'[p][j] = [AtTask("want", t) EXCEPT !.rec = TRUE] /\ c.pc = "monitor"
        BY <1>1, <3>2, ResumeOne DEF TaskRecovers, c, t
      <4> QED
        BY <4>1, AtFacts DEF LaunchStatus
    <3> QED
      BY <1>11, <3>1, <3>2
  <2>9. CoFits(co'[p][j], s, rows'[j], sub, cluster'[j], st)
    BY <1>5, <2>3, <2>4, <2>5, <2>8 DEF CoFits
  <2> QED
    BY <1>4, <2>3, <2>7, <2>9 DEF Fits, s, r, sub, cl
<1>12. CASE PrepareFails(p, j) \/ LaunchRaises(p, j) \/ TaskFails(p, j) \/ EmergencyExhausted(p, j)
  <2>1. /\ \/ rows'[j] = r
           \/ \E x \in {"FAILED", "FAILED_CONTROLLER"} : rows'[j] = FailTask(r, t, x)
        /\ co'[p][j] = At("exit")
        /\ submitted' = submitted /\ cluster' = cluster
    BY <1>1, <1>12, ResumeOne
       DEF PrepareFails, LaunchRaises, TaskFails, EmergencyExhausted, TypeOK, r, t
  <2>2. JobFits(s, rows'[j], sub, cl, st)
    BY <1>2, <1>3, <2>1, FailTaskFits
  <2>3. CoFits(co'[p][j], s, rows'[j], sub, cl, st)
    BY <2>1, AtFacts, QuietFits
  <2> QED
    BY <1>4, <2>1, <2>2, <2>3 DEF Fits, s, r, sub, cl
<1> QED
  BY <1>6, <1>7, <1>8, <1>9, <1>10, <1>11, <1>12

(* Steps that launch, tear down or change the schedule state. *)
LEMMA LaunchStepsFit ==
    ASSUME JobInv, NEW p \in Procs, NEW j \in Jobs,
           \/ ForceRecovery(p, j) \/ EnterLaunch(p, j) \/ TearDown(p, j)
           \/ EmergencyRelaunch(p, j) \/ EmergencyTearDown(p, j) \/ Normalize(p, j)
           \/ Provision(p, j) \/ LaunchSucceeds(p, j) \/ RelaunchGivesUp(p, j)
    PROVE  Fits(p, j)'
<1> DEFINE s == sched[j]
           r == rows[j]
           sub == submitted[j]
           cl == cluster[j]
           st == stray'[j]
           c == co[p][j]
           t == co[p][j].task
<1>1. TypeOK /\ c.pc \in Body \cup Bookkeeping
  BY DEF JobInv, OwnInv, ForceRecovery, EnterLaunch, TearDown, EmergencyRelaunch,
     EmergencyTearDown, Normalize, Provision, LaunchSucceeds, RelaunchGivesUp,
     Body, Bookkeeping
<1>2. /\ JobFits(s, r, sub, cl, st) /\ CoFits(c, s, r, sub, cl, st)
      /\ s \notin {"NONE", "INACTIVE", "DONE"} /\ s \in NeedsRecovery
      /\ c \in CoStates /\ t \in Tasks /\ r \in RowTypes /\ sub \in Flags /\ cl \in Flags
  <2>1. c.pc # "off"
    BY <1>1 DEF Body, Bookkeeping
  <2> QED
    BY <2>1, CoroutineFinds, CoroutineLeaves DEF NeedsRecovery, RunStep, Outcome
<1>3. \A u \in Tasks : u < t => r[u] = "SUCCEEDED"
  BY <1>1, <1>2 DEF CoFits
<1>4. submitted' = submitted /\ (rows' = rows \/ EmergencyRelaunch(p, j))
  BY DEF ForceRecovery, EnterLaunch, TearDown, EmergencyRelaunch,
     EmergencyTearDown, Normalize, Provision, LaunchSucceeds, RelaunchGivesUp
<1> HIDE DEF s, r, sub, cl, c, t
<1>5. CASE ForceRecovery(p, j)
  <2>1. /\ cluster'[j] = [cl EXCEPT ![t] = FALSE] /\ sched' = sched /\ rows' = rows
        /\ co'[p][j] = [AtTask("want", t) EXCEPT !.rec = TRUE, !.keep = r[t] = "STARTING"]
        /\ c.pc = "forced"
    BY <1>1, <1>5, ResumeOne DEF ForceRecovery, TypeOK, cl, r, t, c
  <2>2. \A u \in Tasks : cluster'[j][u] => cl[u]
    BY <1>2, <2>1 DEF Flags
  <2>3. JobFits(s, r, sub, cluster'[j], st)
    BY <1>2, <2>2, LessFits
  <2>4. /\ co'[p][j].pc = "want" /\ co'[p][j].task = t /\ co'[p][j].rec = TRUE
        /\ co'[p][j].keep = (r[t] = "STARTING") /\ co'[p][j].retry = FALSE
    BY <2>1, AtFacts
  <2>5. r[t] \in {"STARTING", "RECOVERING"} /\ sub[t] /\ t \notin EmptyTasks
    BY <1>2, <2>1 DEF CoFits, c, t
  <2>6. CoFits(co'[p][j], s, r, sub, cluster'[j], st)
    BY <1>3, <2>4, <2>5 DEF CoFits, LaunchStatus
  <2> QED
    BY <1>4, <2>1, <2>3, <2>6 DEF Fits, s, r, sub
<1>6. CASE EnterLaunch(p, j)
  <2>1. /\ sched'[j] = "LAUNCHING" /\ rows' = rows /\ cluster' = cluster
        /\ co'[p][j] = [c EXCEPT !.pc = IF c.retry THEN "restarting" ELSE "launch"]
        /\ c.pc = "want"
    BY <1>1, <1>6, ResumeOne DEF EnterLaunch, TypeOK, c
  <2>2. JobFits("LAUNCHING", r, sub, cl, st)
    BY <1>2, LessFits
  <2>3. /\ co'[p][j].pc = IF c.retry THEN "restarting" ELSE "launch"
        /\ co'[p][j].task = t /\ co'[p][j].rec = c.rec
        /\ co'[p][j].keep = c.keep /\ co'[p][j].retry = c.retry
    BY <1>2, <2>1 DEF CoStates, c, t
  <2>4. /\ sub[t] /\ t \notin EmptyTasks
        /\ r[t] \in IF c.retry THEN {"PENDING"} ELSE LaunchStatus(c)
    BY <1>2, <2>1 DEF CoFits, c, t
  <2>5. LaunchStatus(co'[p][j]) = LaunchStatus(c)
    BY <2>3 DEF LaunchStatus
  <2>6. CoFits(co'[p][j], "LAUNCHING", r, sub, cl, st)
    BY <1>3, <2>3, <2>4, <2>5 DEF CoFits
  <2> QED
    BY <1>4, <2>1, <2>2, <2>6 DEF Fits, r, sub, cl
<1>7. CASE TearDown(p, j)
  <2>1. /\ cluster'[j] = [cl EXCEPT ![t] = FALSE] /\ sched' = sched /\ rows' = rows
        /\ co'[p][j] = NextTask(t) /\ c.pc = "teardown"
    BY <1>1, <1>7, ResumeOne DEF TearDown, TypeOK, cl, t, c
  <2>2. \A u \in Tasks : cluster'[j][u] => cl[u]
    BY <1>2, <2>1 DEF Flags
  <2>3. JobFits(s, r, sub, cluster'[j], st)
    BY <1>2, <2>2, LessFits
  <2>4. r[t] = "SUCCEEDED"
    BY <1>2, <2>1 DEF CoFits, c, t
  <2>5. \A u \in Tasks : u <= t => r[u] = "SUCCEEDED"
    BY <1>2, <1>3, <2>4 DEF Tasks
  <2>6. CoFits(co'[p][j], s, r, sub, cluster'[j], st)
    BY <1>2, <2>1, <2>5, NextTaskFits
  <2> QED
    BY <1>4, <2>1, <2>3, <2>6 DEF Fits, s, r, sub
<1>8. CASE EmergencyRelaunch(p, j)
  <2>1. PICK u \in Tasks : /\ r[u] \in MayEmergencyRecover
                           /\ rows' = [rows EXCEPT ![j][u] = "RECOVERING"]
                           /\ Resume(p, j, [c EXCEPT !.pc = "doomed"])
    BY <1>8 DEF EmergencyRelaunch, r, c
  <2>2. /\ rows'[j] = [r EXCEPT ![u] = "RECOVERING"]
        /\ co'[p][j] = [c EXCEPT !.pc = "doomed"]
        /\ sched' = sched /\ cluster' = cluster
    <3>1. rows'[j] = [r EXCEPT ![u] = "RECOVERING"]
      BY <1>1, <2>1 DEF TypeOK, r
    <3>2. co'[p][j] = [c EXCEPT !.pc = "doomed"]
      BY <1>1, <2>1, ResumeOne
    <3> QED
      BY <1>8, <3>1, <3>2 DEF EmergencyRelaunch
  <2>3. /\ r[u] \in Unended /\ r[u] \in Ongoing /\ r[u] \in Began
        /\ r[u] \in {"STARTING", "RUNNING", "RECOVERING"}
        /\ "RECOVERING" \in Ongoing \cup Terminal
    BY <2>1 DEF MayEmergencyRecover, Unended, Ongoing, Began
  <2>4. \A v \in Tasks : v < u => r[v] = "SUCCEEDED"
    BY <1>2, <2>3 DEF JobFits, ChainFits
  <2>5. sub[u] \/ u \in EmptyTasks
    BY <1>2, <2>3 DEF JobFits, SubmittedFits
  <2>6. JobFits(s, rows'[j], sub, cl, st)
    BY <1>2, <2>2, <2>3, <2>4, <2>5, SetRowFits
  <2>7. co'[p][j].pc = "doomed" /\ co'[p][j].task = t
    BY <1>2, <2>2 DEF CoStates, c, t
  <2>8. \A v \in Tasks : v < t => rows'[j][v] = "SUCCEEDED"
    BY <1>2, <1>3, <2>2, <2>3 DEF RowTypes
  <2>9. CoFits(co'[p][j], s, rows'[j], sub, cl, st)
    BY <2>7, <2>8, BetweenFits DEF Bookkeeping
  <2> QED
    BY <1>4, <2>2, <2>6, <2>9 DEF Fits, s, sub, cl
<1>9. CASE EmergencyTearDown(p, j)
  <2>0. PICK u \in Tasks : \E left \in {cl[u], FALSE} : cluster' = [cluster EXCEPT ![j][u] = left]
    BY <1>9 DEF EmergencyTearDown, cl
  <2>1. PICK left \in {cl[u], FALSE} : cluster'[j] = [cl EXCEPT ![u] = left]
    BY <1>1, <2>0 DEF TypeOK, cl
  <2>2. \A v \in Tasks : cluster'[j][v] => cl[v]
    BY <1>2, <2>1 DEF Flags
  <2>3. JobFits(s, r, sub, cluster'[j], st)
    BY <1>2, <2>2, LessFits
  <2>4. /\ co'[p][j] = [c EXCEPT !.pc = "normalize"]
        /\ sched' = sched /\ rows' = rows
    BY <1>1, <1>9, ResumeOne DEF EmergencyTearDown, c
  <2>5. co'[p][j].pc = "normalize" /\ co'[p][j].task = t
    BY <1>2, <2>4 DEF CoStates, c, t
  <2>6. CoFits(co'[p][j], s, r, sub, cluster'[j], st)
    BY <1>3, <2>5, BetweenFits DEF Bookkeeping
  <2> QED
    BY <1>4, <2>3, <2>4, <2>6 DEF Fits, s, r, sub
<1>10. CASE Normalize(p, j)
  <2>1. /\ co'[p][j] = AtTask("top", t) /\ sched'[j] \in NeedsRecovery
        /\ rows' = rows /\ cluster' = cluster
    BY <1>1, <1>2, <1>10, ResumeOne DEF Normalize, TypeOK, NeedsRecovery, s, t
  <2>2. JobFits(sched'[j], r, sub, cl, st)
    BY <1>2, <2>1, LessFits DEF NeedsRecovery
  <2>3. CoFits(co'[p][j], sched'[j], r, sub, cl, st)
    BY <1>3, <2>1, AtFacts, BetweenFits
  <2> QED
    BY <1>4, <2>1, <2>2, <2>3 DEF Fits, r, sub, cl
<1>11. CASE Provision(p, j)
  <2>1. /\ cluster'[j] = [cl EXCEPT ![t] = TRUE] /\ c.pc = "launch"
        /\ sched' = sched /\ rows' = rows /\ co' = co
    BY <1>1, <1>11 DEF Provision, TypeOK, cl, t, c
  <2>2. sub[t]
    BY <1>2, <2>1 DEF CoFits, c, t
  <2>3. \A u \in Tasks : cluster'[j][u] => cl[u] \/ u = t
    BY <1>2, <2>1 DEF Flags
  <2>4. JobFits(s, r, sub, cluster'[j], st)
    BY <1>2, <2>2, <2>3 DEF JobFits, DoneFits, SubmittedFits
  <2>5. CoFits(c, s, r, sub, cluster'[j], st)
    BY <1>2, <2>1 DEF CoFits
  <2> QED
    BY <1>4, <2>1, <2>4, <2>5 DEF Fits, s, r, sub, c
<1>12. CASE LaunchSucceeds(p, j)
  <2>1. /\ co'[p][j] = [c EXCEPT !.pc = "launched"] /\ c.pc = "launch"
        /\ sched'[j] = "ALIVE" /\ rows' = rows /\ cluster' = cluster
    BY <1>1, <1>12, ResumeOne DEF LaunchSucceeds, TypeOK, c
  <2>2. JobFits("ALIVE", r, sub, cl, st)
    BY <1>2, LessFits
  <2>3. /\ co'[p][j].pc = "launched" /\ co'[p][j].task = t /\ co'[p][j].rec = c.rec
        /\ co'[p][j].keep = c.keep /\ co'[p][j].retry = c.retry
    BY <1>2, <2>1 DEF CoStates, c, t
  <2>4. LaunchStatus(co'[p][j]) = LaunchStatus(c)
    BY <2>3 DEF LaunchStatus
  <2>5. sub[t] /\ t \notin EmptyTasks /\ ~c.retry /\ r[t] \in LaunchStatus(c)
    BY <1>2, <2>1 DEF CoFits, c, t
  <2>6. CoFits(co'[p][j], "ALIVE", r, sub, cl, st)
    BY <1>3, <2>3, <2>4, <2>5 DEF CoFits
  <2> QED
    BY <1>4, <2>1, <2>2, <2>6 DEF Fits, r, sub, cl
<1>13. CASE RelaunchGivesUp(p, j)
  <2>1. PICK left \in {cl[t], FALSE} : cluster'[j] = [cl EXCEPT ![t] = left]
    BY <1>1, <1>13 DEF RelaunchGivesUp, TypeOK, cl, t
  <2>2. \A u \in Tasks : cluster'[j][u] => cl[u]
    BY <1>2, <2>1 DEF Flags
  <2>3. /\ co'[p][j] = [c EXCEPT !.pc = "want"] /\ c.pc = "launch"
        /\ sched'[j] = "ALIVE" /\ rows' = rows
    BY <1>1, <1>13, ResumeOne DEF RelaunchGivesUp, TypeOK, c
  <2>4. JobFits("ALIVE", r, sub, cluster'[j], st)
    BY <1>2, <2>2, LessFits
  <2>5. /\ co'[p][j].pc = "want" /\ co'[p][j].task = t /\ co'[p][j].rec = c.rec
        /\ co'[p][j].keep = c.keep /\ co'[p][j].retry = c.retry
    BY <1>2, <2>3 DEF CoStates, c, t
  <2>6. LaunchStatus(co'[p][j]) = LaunchStatus(c)
    BY <2>5 DEF LaunchStatus
  <2>7. sub[t] /\ t \notin EmptyTasks /\ ~c.retry /\ r[t] \in LaunchStatus(c)
    BY <1>2, <2>3 DEF CoFits, c, t
  <2>8. CoFits(co'[p][j], "ALIVE", r, sub, cluster'[j], st)
    BY <1>3, <2>5, <2>6, <2>7 DEF CoFits
  <2> QED
    BY <1>4, <2>3, <2>4, <2>8 DEF Fits, r, sub
<1> QED
  BY <1>5, <1>6, <1>7, <1>8, <1>9, <1>10, <1>11, <1>12, <1>13

(* The end of the coroutine: rows are settled, clusters go. *)
LEMMA EndStepsFit ==
    ASSUME JobInv, NEW p \in Procs, NEW j \in Jobs,
           \/ ExitCancelling(p, j) \/ ExitCancelled(p, j) \/ CancelledRun(p, j)
           \/ UnwindFails(p, j) \/ Cleanup(p, j) \/ CleanupFails(p, j) \/ FinalizeJob(p, j)
    PROVE  Fits(p, j)'
<1> DEFINE s == sched[j]
           r == rows[j]
           sub == submitted[j]
           cl == cluster[j]
           st == stray'[j]
           c == co[p][j]
<1>1. TypeOK /\ c.pc # "off"
  BY DEF JobInv, OwnInv, ExitCancelling, ExitCancelled, CancelledRun, UnwindFails,
     Cleanup, CleanupFails, FinalizeJob
<1>2. /\ JobFits(s, r, sub, cl, st) /\ CoFits(c, s, r, sub, cl, st)
      /\ s \notin {"NONE", "INACTIVE", "DONE"}
      /\ c \in CoStates /\ r \in RowTypes /\ cl \in Flags
  BY <1>1, CoroutineFinds, CoroutineLeaves DEF NeedsRecovery, RunStep, Outcome
<1>3. submitted' = submitted
  BY DEF ExitCancelling, ExitCancelled, CancelledRun, UnwindFails,
     Cleanup, CleanupFails, FinalizeJob
<1> HIDE DEF s, r, sub, cl, c
<1>4. CASE ExitCancelling(p, j) \/ ExitCancelled(p, j) \/ CancelledRun(p, j) \/ UnwindFails(p, j)
  <2>1. /\ rows'[j] \in {r, SetCancelling(r), SetCancelled(r)}
        /\ sched' = sched /\ cluster' = cluster
    BY <1>1, <1>4 DEF ExitCancelling, ExitCancelled, CancelledRun, UnwindFails, TypeOK, r
  <2>2. co'[p][j] \in {At("exited"), At("cleanup"), [At("cleanup") EXCEPT !.canc = TRUE]}
    BY <1>1, <1>4, ResumeOne DEF ExitCancelling, ExitCancelled, CancelledRun, UnwindFails
  <2>3. JobFits(s, rows'[j], sub, cl, st)
    BY <1>2, <2>1, AllRowsFit
  <2>4. CoFits(co'[p][j], s, rows'[j], sub, cl, st)
    <3>1. co'[p][j].pc \in {"exited", "cleanup"}
      BY <2>2, AtFacts
    <3> QED
      BY <3>1, QuietFits
  <2> QED
    BY <1>3, <2>1, <2>3, <2>4 DEF Fits, s, sub, cl
<1>5. CASE Cleanup(p, j)
  <2>1. /\ cluster'[j] = [t \in Tasks |-> FALSE]
        /\ co'[p][j] = [c EXCEPT !.pc = "finalize"]
        /\ rows' = rows /\ sched' = sched
    BY <1>1, <1>5, ResumeOne DEF Cleanup, TypeOK, c
  <2>2. \A t \in Tasks : ~cluster'[j][t]
    BY <2>1
  <2>3. JobFits(s, r, sub, cluster'[j], st)
    BY <1>2, <2>2, LessFits
  <2>4. co'[p][j].pc = "finalize"
    BY <1>2, <2>1 DEF CoStates
  <2>5. CoFits(co'[p][j], s, r, sub, cluster'[j], st)
    BY <2>2, <2>4 DEF CoFits, Body, Bookkeeping, Clean
  <2> QED
    BY <1>3, <2>1, <2>3, <2>5 DEF Fits, s, r, sub
<1>6. CASE CleanupFails(p, j)
  <2>1. PICK left \in SUBSET {t \in Tasks : cl[t]} : cluster'[j] = [t \in Tasks |-> t \in left]
    BY <1>1, <1>6 DEF CleanupFails, TypeOK, cl
  <2>2. /\ co'[p][j] = [c EXCEPT !.pc = "finalize"]
        /\ rows'[j] = FailAll(r) /\ sched' = sched
    BY <1>1, <1>6, ResumeOne DEF CleanupFails, TypeOK, c, r
  <2>3. \A t \in Tasks : cluster'[j][t] => cl[t]
    BY <2>1
  <2>4. JobFits(s, rows'[j], sub, cl, st)
    BY <1>2, <2>2, AllRowsFit
  <2>5. JobFits(s, rows'[j], sub, cluster'[j], st)
    BY <2>3, <2>4, LessFits
  <2>6. \A t \in Tasks : rows'[j][t] = "FAILED_CONTROLLER"
    BY <1>2, <2>2 DEF FailAll, JobFits, Inserted
  <2>7. co'[p][j].pc = "finalize"
    BY <1>2, <2>2 DEF CoStates
  <2>8. CoFits(co'[p][j], s, rows'[j], sub, cluster'[j], st)
    BY <2>6, <2>7 DEF CoFits, Body, Bookkeeping, Clean
  <2> QED
    BY <1>3, <2>2, <2>5, <2>8 DEF Fits, s, sub
<1>7. CASE FinalizeJob(p, j)
  <2>1. /\ rows'[j] = FinalRows(r, c.canc) /\ sched'[j] = "DONE"
        /\ co'[p][j] = Off /\ cluster' = cluster /\ c.pc = "finalize"
    BY <1>1, <1>7, ResumeOne DEF FinalizeJob, TypeOK, r, c
  <2>2. Clean(r, cl, st) /\ c.canc \in BOOLEAN
    BY <1>2, <2>1 DEF CoFits, CoStates
  <2>3. JobFits("DONE", rows'[j], sub, cl, st)
    BY <1>2, <2>1, <2>2, FinalRowsFit
  <2>4. CoFits(co'[p][j], "DONE", rows'[j], sub, cl, st)
    BY <2>1, QuietFits DEF Off
  <2> QED
    BY <1>3, <2>1, <2>3, <2>4 DEF Fits, sub, cl
<1> QED
  BY <1>4, <1>5, <1>6, <1>7

(* Every step of a coroutine leaves it and its job fitting. *)
LEMMA CoroutineFits ==
    ASSUME JobInv, NEW p \in Procs, NEW j \in Jobs,
           CancelJob(p, j) \/ RunStep(p, j) \/ Outcome(p, j)
    PROVE  Fits(p, j)'
BY MovesFit, TaskStepsFit, LaunchStepsFit, EndStepsFit DEF RunStep, Outcome

(* Only Provision brings up a cluster, and only set_starting_async sets     *)
(* submitted_at.                                                            *)
LEMMA CoroutineBrings ==
    ASSUME TypeOK, NEW p \in Procs, NEW j \in Jobs,
           CancelJob(p, j) \/ RunStep(p, j) \/ Outcome(p, j), NEW t \in Tasks
    PROVE  /\ cluster'[j][t] => cluster[j][t] \/ Provision(p, j)
           /\ submitted'[j][t] => submitted[j][t] \/ StartTask(p, j)
<1>1. cluster[j] \in Flags /\ cluster \in [Jobs -> Flags]
  BY DEF TypeOK, Flags
<1>2. CASE \/ LoadEnv(p, j) \/ LoadDag(p, j) \/ CheckDependencies(p, j)
           \/ SkipTask(p, j) \/ StartEmptyTask(p, j) \/ FinishEmptyTask(p, j)
           \/ StartTask(p, j) \/ ResumeTask(p, j) \/ EnterLaunch(p, j)
           \/ SetRestarting(p, j) \/ SetRunning(p, j) \/ EmergencyKeep(p, j)
           \/ EmergencyRelaunch(p, j) \/ EmergencyFastRetry(p, j) \/ Normalize(p, j)
           \/ ExitCancelling(p, j) \/ ExitCancelled(p, j) \/ CancelledRun(p, j)
           \/ FinalizeJob(p, j)
  <2>1. cluster' = cluster /\ (submitted' = submitted \/ StartTask(p, j))
    BY <1>2 DEF LoadEnv, LoadDag, CheckDependencies, SkipTask, StartEmptyTask,
       FinishEmptyTask, StartTask, ResumeTask, EnterLaunch, SetRestarting,
       SetRunning, EmergencyKeep, EmergencyRelaunch, EmergencyFastRetry,
       Normalize, ExitCancelling, ExitCancelled, CancelledRun, FinalizeJob
  <2> QED
    BY <2>1
<1>3. CASE \/ CancelJob(p, j) \/ LoadEnvFails(p, j) \/ LoadDagFails(p, j)
           \/ PrepareFails(p, j) \/ Provision(p, j) \/ LaunchSucceeds(p, j)
           \/ LaunchRaises(p, j) \/ TaskSucceeds(p, j) \/ TaskFails(p, j)
           \/ EmergencySpend(p, j) \/ EmergencyExhausted(p, j) \/ UnwindFails(p, j)
  <2>1. submitted' = submitted /\ (cluster' = cluster \/ Provision(p, j))
    BY <1>3 DEF CancelJob, LoadEnvFails, LoadDagFails, PrepareFails, Provision,
       LaunchSucceeds, LaunchRaises, TaskSucceeds, TaskFails, EmergencySpend,
       EmergencyExhausted, UnwindFails, db
  <2> QED
    BY <2>1
<1>4. CASE \/ ForceRecovery(p, j) \/ TearDown(p, j) \/ EmergencyTearDown(p, j)
           \/ LaunchBacksOff(p, j) \/ RelaunchGivesUp(p, j) \/ TaskRecovers(p, j)
  <2>1. submitted' = submitted
    BY <1>4 DEF ForceRecovery, TearDown, EmergencyTearDown, LaunchBacksOff,
       RelaunchGivesUp, TaskRecovers
  <2>2. \E u \in Tasks : \E left \in {cluster[j][u], FALSE} :
           cluster' = [cluster EXCEPT ![j][u] = left]
    <3>1. co[p][j].task \in Tasks
      BY DEF TypeOK, CoStates
    <3> QED
      BY <1>4, <3>1 DEF ForceRecovery, TearDown, EmergencyTearDown, LaunchBacksOff,
         RelaunchGivesUp, TaskRecovers
  <2>3. PICK u \in Tasks : \E left \in {cluster[j][u], FALSE} :
           cluster' = [cluster EXCEPT ![j][u] = left]
    BY <2>2
  <2> PICK left \in {cluster[j][u], FALSE} : cluster' = [cluster EXCEPT ![j][u] = left]
    BY <2>3
  <2>4. cluster'[j] = [cluster[j] EXCEPT ![u] = left]
    BY <1>1
  <2>5. cluster'[j][t] => cluster[j][t]
    BY <1>1, <2>4 DEF Flags
  <2> QED
    BY <2>1, <2>5
<1>5. CASE Cleanup(p, j) \/ CleanupFails(p, j)
  <2>1. submitted' = submitted
    BY <1>5 DEF Cleanup, CleanupFails
  <2>2. CASE Cleanup(p, j)
    <3>1. ~cluster'[j][t]
      BY <1>1, <2>2 DEF Cleanup
    <3> QED
      BY <2>1, <3>1
  <2>3. CASE CleanupFails(p, j)
    <3>1. PICK left \in SUBSET {u \in Tasks : cluster[j][u]} :
             cluster' = [cluster EXCEPT ![j] = [u \in Tasks |-> u \in left]]
      BY <2>3 DEF CleanupFails
    <3>2. cluster'[j][t] => cluster[j][t]
      BY <1>1, <3>1
    <3> QED
      BY <2>1, <3>2
  <2> QED
    BY <1>5, <2>2, <2>3
<1> QED
  BY <1>2, <1>3, <1>4, <1>5 DEF RunStep, Outcome

(* Past the top of run's loop. *)
Looked == Body \ {"top"}

(* A coroutine gets there only by looking at the jobs its job depends on. *)
LEMMA CoroutineLooks ==
    ASSUME TypeOK, NEW p \in Procs, NEW j \in Jobs,
           CancelJob(p, j) \/ RunStep(p, j) \/ Outcome(p, j),
           co'[p][j].pc \in Looked
    PROVE  co[p][j].pc \in Looked \/ \A d \in Deps[j] : AllSucceeded(rows[d])
<1>1. co[p][j] \in CoStates
  BY DEF TypeOK
<1>2. CASE CheckDependencies(p, j)
  <2>1. co'[p][j] = IF \A d \in Deps[j] : AllSucceeded(rows[d]) THEN At("task") ELSE At("exit")
    BY <1>2, ResumeOne DEF CheckDependencies
  <2> QED
    BY <2>1, AtFacts DEF Looked, Body
<1>3. CASE co[p][j].pc \in {"env", "load", "emergency", "doomed", "normalize", "exit",
                            "exited", "cancelled", "cleanup", "finalize"}
  <2>1. CASE CancelJob(p, j)
    <3>1. co'[p][j] = At("cancelled") \/ co'[p][j] = co[p][j]
      BY <2>1 DEF CancelJob, TypeOK
    <3> QED
      BY <1>3, <3>1, AtFacts DEF Looked, Body
  <2>2. CASE RunStep(p, j)
    <3>1. ~(\/ CheckDependencies(p, j) \/ SkipTask(p, j) \/ StartEmptyTask(p, j)
            \/ FinishEmptyTask(p, j) \/ StartTask(p, j) \/ ResumeTask(p, j)
            \/ ForceRecovery(p, j) \/ EnterLaunch(p, j) \/ SetRestarting(p, j)
            \/ SetRunning(p, j) \/ TearDown(p, j))
      BY <1>3 DEF CheckDependencies, SkipTask, StartEmptyTask, FinishEmptyTask, StartTask,
         ResumeTask, ForceRecovery, EnterLaunch, SetRestarting, SetRunning, TearDown
    <3>2. co'[p][j].pc \in {"load", "top", "exited", "cleanup", "off", "normalize", "doomed",
                            "finalize"}
      <4>1. CASE LoadEnv(p, j)
        BY <4>1, ResumeOne, AtFacts DEF LoadEnv
      <4>2. CASE LoadDag(p, j)
        BY <4>2, ResumeOne, AtFacts DEF LoadDag
      <4>3. CASE EmergencyFastRetry(p, j) \/ Normalize(p, j)
        <5>1. co'[p][j] = AtTask("top", co[p][j].task)
          BY <4>3, ResumeOne DEF EmergencyFastRetry, Normalize
        <5> QED
          BY <5>1, AtFacts
      <4>4. CASE ExitCancelling(p, j)
        BY <4>4, ResumeOne, AtFacts DEF ExitCancelling
      <4>5. CASE ExitCancelled(p, j)
        <5>1. co'[p][j] = At("cleanup")
          BY <4>5, ResumeOne DEF ExitCancelled
        <5> QED
          BY <5>1, AtFacts
      <4>6. CASE CancelledRun(p, j)
        <5>1. co'[p][j] = [At("cleanup") EXCEPT !.canc = TRUE]
          BY <4>6, ResumeOne DEF CancelledRun
        <5> QED
          BY <5>1, AtFacts
      <4>7. CASE FinalizeJob(p, j)
        BY <4>7, ResumeOne DEF FinalizeJob, Off
      <4>8. CASE EmergencyKeep(p, j) \/ EmergencyTearDown(p, j)
        <5>1. co'[p][j] = [co[p][j] EXCEPT !.pc = "normalize"]
          BY <4>8, ResumeOne DEF EmergencyKeep, EmergencyTearDown
        <5> QED
          BY <1>1, <5>1 DEF CoStates
      <4>9. CASE EmergencyRelaunch(p, j)
        <5>1. co'[p][j] = [co[p][j] EXCEPT !.pc = "doomed"]
          BY <4>9, ResumeOne DEF EmergencyRelaunch
        <5> QED
          BY <1>1, <5>1 DEF CoStates
      <4>10. CASE Cleanup(p, j)
        <5>1. co'[p][j] = [co[p][j] EXCEPT !.pc = "finalize"]
          BY <4>10, ResumeOne DEF Cleanup
        <5> QED
          BY <1>1, <5>1 DEF CoStates
      <4> QED
        BY <2>2, <3>1, <4>1, <4>2, <4>3, <4>4, <4>5, <4>6, <4>7, <4>8, <4>9, <4>10 DEF RunStep
    <3> QED
      BY <3>2 DEF Looked, Body
  <2>3. CASE Outcome(p, j)
    <3>1. \E x \in {Off, At("cleanup"), At("exit"), [co[p][j] EXCEPT !.pc = "finalize"]} :
             Resume(p, j, x)
      <4>1. ~(\/ PrepareFails(p, j) \/ Provision(p, j) \/ LaunchSucceeds(p, j)
              \/ LaunchBacksOff(p, j) \/ LaunchRaises(p, j) \/ RelaunchGivesUp(p, j)
              \/ TaskSucceeds(p, j) \/ TaskFails(p, j) \/ TaskRecovers(p, j)
              \/ EmergencySpend(p, j))
        BY <1>3 DEF PrepareFails, Provision, LaunchSucceeds, LaunchBacksOff, LaunchRaises,
           RelaunchGivesUp, TaskSucceeds, TaskFails, TaskRecovers, EmergencySpend, Body
      <4>2. CASE LoadEnvFails(p, j)
        BY <4>2 DEF LoadEnvFails
      <4>3. CASE LoadDagFails(p, j) \/ UnwindFails(p, j)
        BY <4>3 DEF LoadDagFails, UnwindFails
      <4>4. CASE EmergencyExhausted(p, j)
        BY <4>4 DEF EmergencyExhausted
      <4>5. CASE CleanupFails(p, j)
        BY <4>5 DEF CleanupFails
      <4> QED
        BY <2>3, <4>1, <4>2, <4>3, <4>4, <4>5 DEF Outcome
    <3>2. co'[p][j].pc \in {"off", "cleanup", "exit", "finalize"}
      BY <1>1, <3>1, ResumeOne, AtFacts DEF CoStates, Off
    <3> QED
      BY <3>2 DEF Looked, Body
  <2> QED
    BY <2>1, <2>2, <2>3
<1>4. CASE co[p][j].pc = "top" /\ ~CheckDependencies(p, j)
  <2>1. CASE CancelJob(p, j)
    <3>1. co'[p][j] = At("cancelled") \/ co'[p][j] = co[p][j]
      BY <2>1 DEF CancelJob, TypeOK
    <3> QED
      BY <1>4, <3>1, AtFacts DEF Looked, Body
  <2>2. CASE EmergencySpend(p, j) \/ EmergencyExhausted(p, j)
    <3>1. co'[p][j] \in {AtTask("emergency", co[p][j].task), At("exit")}
      BY <2>2, ResumeOne DEF EmergencySpend, EmergencyExhausted
    <3> QED
      BY <3>1, AtFacts DEF Looked, Body
  <2>3. ~RunStep(p, j)
    BY <1>4 DEF RunStep, LoadEnv, LoadDag, SkipTask, StartEmptyTask,
       FinishEmptyTask, StartTask, ResumeTask, ForceRecovery, EnterLaunch, SetRestarting,
       SetRunning, TearDown, EmergencyKeep, EmergencyRelaunch, EmergencyFastRetry,
       EmergencyTearDown, Normalize, ExitCancelling, ExitCancelled, CancelledRun,
       Cleanup, FinalizeJob
  <2>4. Outcome(p, j) => EmergencySpend(p, j) \/ EmergencyExhausted(p, j)
    BY <1>4 DEF Outcome, LoadEnvFails, LoadDagFails, PrepareFails, Provision,
       LaunchSucceeds, LaunchBacksOff, LaunchRaises, RelaunchGivesUp, TaskSucceeds,
       TaskFails, TaskRecovers, UnwindFails, CleanupFails
  <2> QED
    BY <2>1, <2>2, <2>3, <2>4
<1>5. co[p][j].pc # "off"
  BY CoroutineFramed DEF CoroutineFrame
<1>6. co[p][j].pc \in CoPcs
  BY <1>1 DEF CoStates
<1> QED
  BY <1>2, <1>3, <1>4, <1>5, <1>6 DEF CoPcs, Inside, Bookkeeping, Looked, Body

-----------------------------------------------------------------------------
(* The invariant from what happens to one job.                             *)

(* Nothing but job j and its coroutines changes. *)
LEMMA OneJobFits ==
    ASSUME JobsFit, NEW j \in Jobs,
           \A k \in Jobs : k # j => JobStays(k),
           \A q \in Procs, k \in Jobs : k # j => co'[q][k] = co[q][k],
           JobFits(sched'[j], rows'[j], submitted'[j], cluster'[j], stray'[j]),
           \A q \in Procs : CoFits(co'[q][j], sched'[j], rows'[j], submitted'[j], cluster'[j], stray'[j])
    PROVE  JobsFit'
<1> SUFFICES ASSUME NEW k \in Jobs
             PROVE  /\ JobFits(sched'[k], rows'[k], submitted'[k], cluster'[k], stray'[k])
                    /\ \A q \in Procs :
                          CoFits(co'[q][k], sched'[k], rows'[k], submitted'[k], cluster'[k], stray'[k])
  BY DEF JobsFit
<1>1. CASE k = j
  BY <1>1
<1>2. CASE k # j
  <2>1. /\ JobFits(sched[k], rows[k], submitted[k], cluster[k], stray[k])
        /\ \A q \in Procs : CoFits(co[q][k], sched[k], rows[k], submitted[k], cluster[k], stray[k])
    BY DEF JobsFit
  <2> QED
    BY <1>2, <2>1 DEF JobStays
<1> QED
  BY <1>1, <1>2

(* A job that is DONE stays DONE, with its statuses; it issues no launch    *)
(* request, and has no new cluster but of one left behind.                  *)
DoneStays(k) ==
    sched[k] = "DONE" =>
        /\ sched'[k] = "DONE"
        /\ rows'[k] = rows[k]
        /\ \A t \in Tasks :
              /\ stray'[k][t] = "live" => stray[k][t] = "live"
              /\ cluster'[k][t] => cluster[k][t] \/ stray[k][t] = "live"

(* Dependencies that have succeeded stay so; jobs are claimed only after   *)
(* their dependencies are DONE, and launched only after looking at them.   *)
LEMMA DepsKept ==
    ASSUME DepsFit, \A k \in Jobs : DoneStays(k),
           \A k \in Jobs : sched'[k] \in NeedsRecovery =>
              sched[k] \in NeedsRecovery \/ \A d \in Deps[k] : sched[d] = "DONE",
           \A k \in Jobs, p \in Procs : co'[p][k].pc \in Looked =>
              /\ sched[k] \in NeedsRecovery
              /\ co[p][k].pc \in Looked \/ \A d \in Deps[k] : AllSucceeded(rows[d]),
           \A k \in Jobs, t \in Tasks : cluster'[k][t] \/ submitted'[k][t] =>
              \/ cluster[k][t] \/ submitted[k][t]
              \/ sched[k] \in NeedsRecovery /\ \E p \in Procs : co[p][k].pc \in Looked
    PROVE  DepsFit'
<1> SUFFICES ASSUME NEW j \in Jobs, NEW d \in Deps[j]
             PROVE  /\ sched'[j] \in NeedsRecovery => sched'[d] = "DONE"
                    /\ (\E p \in Procs : co'[p][j].pc \in Looked) => AllSucceeded(rows'[d])
                    /\ (\E t \in Tasks : cluster'[j][t] \/ submitted'[j][t])
                         => sched'[d] = "DONE" /\ AllSucceeded(rows'[d])
  BY DEF DepsFit, Looked
<1>1. d \in Jobs
  BY ConstantsAssumption
<1>2. sched[d] = "DONE" => sched'[d] = "DONE" /\ rows'[d] = rows[d]
  BY <1>1 DEF DoneStays
<1>3. /\ sched[j] \in NeedsRecovery => sched[d] = "DONE"
      /\ (\E p \in Procs : co[p][j].pc \in Looked) => AllSucceeded(rows[d])
      /\ (\E t \in Tasks : cluster[j][t] \/ submitted[j][t])
           => sched[d] = "DONE" /\ AllSucceeded(rows[d])
  BY DEF DepsFit, Looked
<1>4. sched'[j] \in NeedsRecovery => sched'[d] = "DONE"
  BY <1>2, <1>3
<1>5. (\E p \in Procs : co'[p][j].pc \in Looked) => AllSucceeded(rows'[d])
  BY <1>2, <1>3
<1>6. ASSUME NEW t \in Tasks, cluster'[j][t] \/ submitted'[j][t]
      PROVE  sched'[d] = "DONE" /\ AllSucceeded(rows'[d])
  BY <1>2, <1>3, <1>6
<1> QED
  BY <1>4, <1>5, <1>6

(* A step that leaves the sweeps alone, and the job of each one that is     *)
(* about to fail it.                                                        *)
LEMMA SweepFitsKept ==
    ASSUME SweepFits, SweepHasJob,
           \A a \in SweepActors : sweep'[a].pc \in {"orphan", "failing", "done"} =>
              sweep'[a] = sweep[a] /\ JobStays(sweep[a].job)
    PROVE  SweepFits'
BY DEF SweepFits, JobStays

(* What a step has to keep, besides OwnInv. *)
Kept == JobsFit' /\ SweepFits' /\ DepsFit' /\ \A k \in Jobs : DoneStays(k)

(* The steps of a coroutine. *)
LEMMA CoroutineKept ==
    ASSUME JobInv, NEW p \in Procs, NEW j \in Jobs,
           CancelJob(p, j) \/ RunStep(p, j) \/ Outcome(p, j)
    PROVE  Kept
<1>1. TypeOK /\ SweepHasJob /\ OwnInv /\ JobsFit /\ SweepFits /\ DepsFit
  BY DEF JobInv, OwnInv
<1>2. CoroutineFrame(p, j)
  BY <1>1, CoroutineFramed
<1>3. co[p][j].pc # "off"
  BY <1>2 DEF CoroutineFrame
<1>4. sched[j] \in NeedsRecovery /\ \A q \in Procs : q # p => co[q][j].pc = "off"
  BY <1>3, CoroutineFinds
<1>5. \A k \in Jobs : k # j => JobStays(k)
  BY <1>1, OthersStay
<1>6. \A q \in Procs, k \in Jobs : q # p \/ k # j => co'[q][k] = co[q][k]
  BY <1>2 DEF CoroutineFrame
<1>7. JobsFit'
  <2>1. /\ JobFits(sched'[j], rows'[j], submitted'[j], cluster'[j], stray'[j])
        /\ CoFits(co'[p][j], sched'[j], rows'[j], submitted'[j], cluster'[j], stray'[j])
    BY CoroutineFits DEF Fits
  <2>2. \A q \in Procs : CoFits(co'[q][j], sched'[j], rows'[j], submitted'[j], cluster'[j], stray'[j])
    <3> SUFFICES ASSUME NEW q \in Procs, q # p
                 PROVE  CoFits(co'[q][j], sched'[j], rows'[j], submitted'[j], cluster'[j], stray'[j])
      BY <2>1
    <3>1. co'[q][j].pc = "off"
      BY <1>4, <1>6
    <3> QED
      BY <3>1, QuietFits
  <2> QED
    BY <1>1, <1>5, <1>6, <2>1, <2>2, OneJobFits
<1>8. SweepFits'
  <2>1. \A a \in SweepActors : sweep[a].pc \in {"orphan", "failing", "done"} =>
           sweep[a].job \in Jobs /\ sweep[a].job # j
    BY <1>1, <1>3, OwnInvFacts DEF SweepHasJob
  <2>2. sweep' = sweep
    BY <1>2 DEF CoroutineFrame
  <2> QED
    BY <1>1, <1>5, <2>1, <2>2, SweepFitsKept
<1>9. \A k \in Jobs : DoneStays(k)
  BY <1>4, <1>5 DEF DoneStays, JobStays, NeedsRecovery
<1>10. DepsFit'
  <2>1. \A k \in Jobs : sched'[k] \in NeedsRecovery => sched[k] \in NeedsRecovery
    BY <1>4, <1>5 DEF JobStays
  <2>2. ASSUME NEW k \in Jobs, NEW q \in Procs, co'[q][k].pc \in Looked
        PROVE  /\ sched[k] \in NeedsRecovery
               /\ co[q][k].pc \in Looked \/ \A d \in Deps[k] : AllSucceeded(rows[d])
    <3>1. CASE q = p /\ k = j
      BY <1>1, <1>4, <2>2, <3>1, CoroutineLooks
    <3>2. CASE q # p \/ k # j
      <4>1. co[q][k].pc \in Looked
        BY <1>6, <2>2, <3>2
      <4>2. co[q][k].pc # "off"
        BY <4>1 DEF Looked, Body
      <4> QED
        BY <1>1, <4>1, <4>2, OwnInvFacts
    <3> QED
      BY <3>1, <3>2
  <2>3. ASSUME NEW k \in Jobs, NEW t \in Tasks, cluster'[k][t] \/ submitted'[k][t]
        PROVE  \/ cluster[k][t] \/ submitted[k][t]
               \/ sched[k] \in NeedsRecovery /\ \E q \in Procs : co[q][k].pc \in Looked
    <3>1. CASE k # j
      BY <1>5, <2>3, <3>1 DEF JobStays
    <3>2. CASE k = j
      <4>1. /\ cluster'[j][t] => cluster[j][t] \/ Provision(p, j)
            /\ submitted'[j][t] => submitted[j][t] \/ StartTask(p, j)
        BY <1>1, CoroutineBrings
      <4>2. Provision(p, j) \/ StartTask(p, j) => co[p][j].pc \in Looked
        BY DEF Provision, StartTask, Looked, Body
      <4> QED
        BY <1>4, <2>3, <3>2, <4>1, <4>2
    <3> QED
      BY <3>1, <3>2
  <2> QED
    BY <1>1, <1>9, <2>1, <2>2, <2>3, DepsKept
<1> QED
  BY <1>7, <1>8, <1>9, <1>10 DEF Kept

(* The jobs stay as they are, and a coroutine that moves starts or dies. *)
LEMMA AllStayKept ==
    ASSUME JobInv, \A k \in Jobs : JobStays(k),
           \A q \in Procs, k \in Jobs :
              co'[q][k] = co[q][k] \/ co'[q][k].pc \in {"off", "env"},
           \A a \in SweepActors : sweep'[a].pc \in {"orphan", "failing", "done"} =>
              \/ sweep'[a] = sweep[a]
              \/ sweep'[a].job \in Jobs /\ sweep'[a].pc # "done" /\ sched[sweep'[a].job] # "DONE"
    PROVE  Kept
<1>1. SweepHasJob /\ OwnInv /\ JobsFit /\ SweepFits /\ DepsFit
  BY DEF JobInv, OwnInv
<1>2. JobsFit'
  <2> SUFFICES ASSUME NEW k \in Jobs
               PROVE  /\ JobFits(sched'[k], rows'[k], submitted'[k], cluster'[k], stray'[k])
                      /\ \A q \in Procs :
                            CoFits(co'[q][k], sched'[k], rows'[k], submitted'[k], cluster'[k], stray'[k])
    BY DEF JobsFit
  <2>1. /\ JobFits(sched[k], rows[k], submitted[k], cluster[k], stray[k])
        /\ \A q \in Procs : CoFits(co[q][k], sched[k], rows[k], submitted[k], cluster[k], stray[k])
    BY <1>1 DEF JobsFit
  <2>2. \A q \in Procs : co'[q][k].pc \in {"off", "env"} =>
           CoFits(co'[q][k], sched[k], rows[k], submitted[k], cluster[k], stray[k])
    BY QuietFits
  <2> QED
    BY <2>1, <2>2 DEF JobStays
<1>3. SweepFits'
  <2> SUFFICES ASSUME NEW a \in SweepActors,
                      sweep'[a].pc \in {"orphan", "failing", "done"},
                      sweep'[a].pc = "done" \/ sched'[sweep'[a].job] = "DONE"
               PROVE  \A t \in Tasks : rows'[sweep'[a].job][t] = "FAILED_CONTROLLER"
    BY DEF SweepFits
  <2>1. sweep'[a] = sweep[a] => sweep[a].job \in Jobs
    BY <1>1 DEF SweepHasJob
  <2>2. sweep'[a] = sweep[a]
    BY DEF JobStays
  <2> QED
    BY <1>1, <2>1, <2>2 DEF SweepFits, JobStays
<1>4. \A k \in Jobs : DoneStays(k)
  BY DEF DoneStays, JobStays
<1>5. DepsFit'
  <2>1. ASSUME NEW k \in Jobs, NEW q \in Procs, co'[q][k].pc \in Looked
        PROVE  sched[k] \in NeedsRecovery /\ co[q][k].pc \in Looked
    <3>1. co'[q][k] = co[q][k] /\ co[q][k].pc # "off"
      BY <2>1 DEF Looked, Body
    <3> QED
      BY <1>1, <2>1, <3>1, OwnInvFacts
  <2> QED
    BY <1>1, <1>4, <2>1, DepsKept DEF JobStays
<1> QED
  BY <1>2, <1>3, <1>4, <1>5 DEF Kept

(* What a crash, and the requests themselves, do to the requests left       *)
(* behind: one is left by a coroutine inside sdk.launch, provisions or ends.*)
StrayStep(k, t) ==
    \/ stray'[k][t] = stray[k][t] /\ cluster'[k][t] = cluster[k][t]
    \/ /\ cluster'[k][t] = cluster[k][t]
       /\ \E p \in Procs : co[p][k].pc = "launch" /\ co[p][k].task = t
    \/ /\ stray[k][t] = "live"
       /\ stray'[k][t] = "up" \/ (stray'[k][t] = "none" /\ cluster'[k][t] = cluster[k][t])

LEMMA StraysKept ==
    ASSUME JobInv, UNCHANGED <<sched, rows, submitted, sweep>>,
           \A q \in Procs, k \in Jobs : co'[q][k] = co[q][k] \/ co'[q][k].pc = "off",
           \A k \in Jobs, t \in Tasks : StrayStep(k, t)
    PROVE  Kept
<1>1. SweepHasJob /\ OwnInv /\ JobsFit /\ SweepFits /\ DepsFit
  BY DEF JobInv, OwnInv
<1>2. ASSUME NEW k \in Jobs, NEW p \in Procs, co[p][k].pc = "launch"
      PROVE  /\ sched[k] # "DONE" /\ submitted[k][co[p][k].task]
             /\ \A q \in Procs : co[q][k].pc # "finalize"
  <2>1. /\ sched[k] \in NeedsRecovery /\ \A q \in Procs : q # p => co[q][k].pc = "off"
        /\ CoFits(co[p][k], sched[k], rows[k], submitted[k], cluster[k], stray[k])
    BY <1>2, CoroutineFinds
  <2> QED
    BY <1>2, <2>1 DEF CoFits, NeedsRecovery
<1>3. ASSUME NEW k \in Jobs, NEW t \in Tasks
      PROVE  cluster'[k][t] \/ stray'[k][t] # "none" => submitted[k][t]
  <2>1. cluster[k][t] \/ stray[k][t] # "none" => submitted[k][t]
    BY <1>1 DEF JobsFit, JobFits, SubmittedFits
  <2>2. StrayStep(k, t)
    OBVIOUS
  <2> QED
    BY <1>2, <2>1, <2>2 DEF StrayStep
<1>4. ASSUME NEW k \in Jobs, ~\E p \in Procs : co[p][k].pc = "launch",
             Clean(rows[k], cluster[k], stray[k])
      PROVE  Clean(rows[k], cluster'[k], stray'[k])
  <2> SUFFICES ASSUME NEW t \in Tasks, cluster'[k][t]
               PROVE  rows[k][t] = "FAILED_CONTROLLER" \/ stray'[k][t] = "up"
    BY DEF Clean
  <2>1. cluster[k][t] => rows[k][t] = "FAILED_CONTROLLER" \/ stray[k][t] = "up"
    BY <1>4 DEF Clean
  <2>2. StrayStep(k, t)
    OBVIOUS
  <2> QED
    BY <1>4, <2>1, <2>2 DEF StrayStep
<1>5. JobsFit'
  <2> SUFFICES ASSUME NEW k \in Jobs
               PROVE  /\ JobFits(sched[k], rows[k], submitted[k], cluster'[k], stray'[k])
                      /\ \A q \in Procs :
                            CoFits(co'[q][k], sched[k], rows[k], submitted[k], cluster'[k], stray'[k])
    BY DEF JobsFit
  <2>1. /\ JobFits(sched[k], rows[k], submitted[k], cluster[k], stray[k])
        /\ \A q \in Procs : CoFits(co[q][k], sched[k], rows[k], submitted[k], cluster[k], stray[k])
    BY <1>1 DEF JobsFit
  <2>2. SubmittedFits(rows[k], submitted[k], cluster'[k], stray'[k])
    BY <1>3, <2>1 DEF JobFits, SubmittedFits
  <2>3. DoneFits(sched[k], rows[k], cluster'[k], stray'[k])
    BY <1>2, <1>4, <2>1 DEF JobFits, DoneFits
  <2>4. JobFits(sched[k], rows[k], submitted[k], cluster'[k], stray'[k])
    BY <2>1, <2>2, <2>3 DEF JobFits
  <2>5. ASSUME NEW q \in Procs
        PROVE  CoFits(co'[q][k], sched[k], rows[k], submitted[k], cluster'[k], stray'[k])
    <3>1. CASE co'[q][k].pc = "off"
      BY <3>1, QuietFits
    <3>2. CASE co'[q][k] = co[q][k]
      <4>1. co[q][k].pc = "finalize" => Clean(rows[k], cluster'[k], stray'[k])
        BY <1>2, <1>4, <2>1 DEF CoFits
      <4>2. CoFits(co[q][k], sched[k], rows[k], submitted[k], cluster'[k], stray'[k])
        BY <2>1, <4>1 DEF CoFits
      <4> QED
        BY <3>2, <4>2
    <3> QED
      BY <3>1, <3>2
  <2> QED
    BY <2>4, <2>5
<1>6. SweepFits'
  BY <1>1 DEF SweepFits
<1>7. ASSUME NEW k \in Jobs PROVE DoneStays(k)
  <2> SUFFICES ASSUME sched[k] = "DONE", NEW t \in Tasks
               PROVE  /\ stray'[k][t] = "live" => stray[k][t] = "live"
                      /\ cluster'[k][t] => cluster[k][t] \/ stray[k][t] = "live"
    BY DEF DoneStays
  <2>1. StrayStep(k, t)
    OBVIOUS
  <2> QED
    BY <1>2, <2>1 DEF StrayStep
<1>8. DepsFit'
  <2>1. ASSUME NEW k \in Jobs, NEW q \in Procs, co'[q][k].pc \in Looked
        PROVE  sched[k] \in NeedsRecovery /\ co[q][k].pc \in Looked
    <3>1. co'[q][k] = co[q][k] /\ co[q][k].pc # "off"
      BY <2>1 DEF Looked, Body
    <3> QED
      BY <1>1, <2>1, <3>1, OwnInvFacts
  <2> QED
    BY <1>1, <1>3, <1>7, <2>1, DepsKept
<1> QED
  BY <1>5, <1>6, <1>7, <1>8 DEF Kept

(* One job moves, on which no coroutine works. *)
LEMMA OneJobKept ==
    ASSUME JobInv, NEW j \in Jobs, co' = co, \A q \in Procs : co[q][j].pc = "off",
           \A k \in Jobs : k # j => JobStays(k),
           JobFits(sched'[j], rows'[j], submitted'[j], cluster'[j], stray'[j]),
           DoneStays(j), submitted'[j] = submitted[j],
           \A t \in Tasks : cluster'[j][t] => cluster[j][t],
           sched'[j] \in NeedsRecovery =>
              sched[j] \in NeedsRecovery \/ \A d \in Deps[j] : sched[d] = "DONE",
           SweepFits'
    PROVE  Kept
<1>1. OwnInv /\ JobsFit /\ DepsFit
  BY DEF JobInv
<1>2. JobsFit'
  <2>1. \A q \in Procs : CoFits(co'[q][j], sched'[j], rows'[j], submitted'[j], cluster'[j], stray'[j])
    BY QuietFits
  <2> QED
    BY <1>1, <2>1, OneJobFits
<1>3. \A k \in Jobs : DoneStays(k)
  BY DEF DoneStays, JobStays
<1>4. DepsFit'
  <2>1. ASSUME NEW k \in Jobs, NEW q \in Procs, co'[q][k].pc \in Looked
        PROVE  sched[k] \in NeedsRecovery /\ co[q][k].pc \in Looked
    <3>1. co[q][k].pc # "off"
      BY <2>1 DEF Looked, Body
    <3> QED
      BY <1>1, <2>1, <3>1, OwnInvFacts
  <2>2. \A k \in Jobs : sched'[k] \in NeedsRecovery =>
           sched[k] \in NeedsRecovery \/ \A d \in Deps[k] : sched[d] = "DONE"
    BY DEF JobStays
  <2>3. \A k \in Jobs, t \in Tasks : cluster'[k][t] \/ submitted'[k][t] =>
           cluster[k][t] \/ submitted[k][t]
    BY DEF JobStays
  <2> QED
    BY <1>1, <1>3, <2>1, <2>2, <2>3, DepsKept
<1> QED
  BY <1>2, <1>3, <1>4 DEF Kept

(* What the database says of a job. *)
LEMMA JobFinds ==
    ASSUME JobInv, NEW j \in Jobs
    PROVE  /\ JobFits(sched[j], rows[j], submitted[j], cluster[j], stray[j])
           /\ rows[j] \in RowTypes /\ submitted[j] \in Flags /\ cluster[j] \in Flags
           /\ sched[j] \in ScheduleStates
           /\ sched[j] \notin NeedsRecovery => \A q \in Procs : co[q][j].pc = "off"
           /\ \A a \in SweepActors : sweep[a].pc # "idle" =>
                 /\ sweep[a].job \in Jobs
                 /\ sched[sweep[a].job] \in NeedsRecovery \cup {"DONE"}
<1>1. OwnInv /\ TypeOK
  BY DEF JobInv, OwnInv
<1>2. sched[j] \notin NeedsRecovery => \A q \in Procs : co[q][j].pc = "off"
  BY <1>1, OwnInvFacts
<1>3. \A a \in SweepActors : sweep[a].pc # "idle" =>
                 /\ sweep[a].job \in Jobs
                 /\ sched[sweep[a].job] \in NeedsRecovery \cup {"DONE"}
  BY DEF JobInv, OwnInv, SweepHasJob, SweepHoldsClaim
<1> QED
  BY <1>1, <1>2, <1>3 DEF JobInv, JobsFit, TypeOK, RowTypes, Flags

-----------------------------------------------------------------------------
(* The steps of everybody else.                                            *)

(* Submission, and a cancel request for a job that never started. *)
LEMMA UserKept ==
    ASSUME JobInv, NEW j \in Jobs, Submission(j) \/ UserCancel(j) \/ SweepTick(j)
    PROVE  Kept
<1> DEFINE s == sched[j]
           r == rows[j]
           sub == submitted[j]
           cl == cluster[j]
           st == stray[j]
<1>1. TypeOK /\ SweepHasJob /\ SweepFits
  BY DEF JobInv, OwnInv
<1>2. /\ JobFits(s, r, sub, cl, st)
      /\ r \in RowTypes /\ sub \in Flags /\ cl \in Flags
      /\ s \notin NeedsRecovery => \A q \in Procs : co[q][j].pc = "off"
      /\ \A a \in SweepActors : sweep[a].pc # "idle" =>
            /\ sweep[a].job \in Jobs
            /\ sched[sweep[a].job] \in NeedsRecovery \cup {"DONE"}
  BY JobFinds
<1>3. ASSUME s \in {"NONE", "INACTIVE", "WAITING"},
             UNCHANGED <<co, sweep, submitted, cluster, stray>>,
             \A k \in Jobs : k # j => sched'[k] = sched[k] /\ rows'[k] = rows[k],
             sched'[j] \notin NeedsRecovery,
             JobFits(sched'[j], rows'[j], sub, cl, st)
      PROVE  Kept
  <2>1. \A k \in Jobs : k # j => JobStays(k)
    BY <1>3 DEF JobStays
  <2>2. SweepFits'
    <3>1. \A a \in SweepActors : sweep[a].pc \in {"orphan", "failing", "done"} =>
             sweep[a].job \in Jobs /\ sweep[a].job # j
      BY <1>2, <1>3 DEF NeedsRecovery
    <3> QED
      BY <1>1, <1>3, <2>1, <3>1, SweepFitsKept
  <2>3. DoneStays(j) /\ \A q \in Procs : co[q][j].pc = "off"
    BY <1>2, <1>3 DEF DoneStays, NeedsRecovery
  <2> QED
    BY <1>3, <2>1, <2>2, <2>3, OneJobKept
<1>4. CASE SetJobInfo(j)
  <2>1. JobFits("INACTIVE", r, sub, cl, st)
    BY <1>2 DEF JobFits, Inserted, DoneFits
  <2>2. /\ sched'[j] = "INACTIVE" /\ rows'[j] = r
        /\ \A k \in Jobs : k # j => sched'[k] = sched[k] /\ rows'[k] = rows[k]
        /\ UNCHANGED <<co, sweep, submitted, cluster, stray>> /\ s = "NONE"
    BY <1>1, <1>4 DEF SetJobInfo, ctrl, server, TypeOK
  <2> QED
    BY <1>3, <2>1, <2>2 DEF NeedsRecovery
<1>5. ASSUME NEW t \in Tasks, SetPending(j, t) PROVE Kept
  <2> DEFINE n == rows'[j]
  <2>1. /\ n = [r EXCEPT ![t] = "PENDING"] /\ sched'[j] = s /\ s = "INACTIVE"
        /\ \A k \in Jobs : k # j => sched'[k] = sched[k] /\ rows'[k] = rows[k]
        /\ UNCHANGED <<co, sweep, submitted, cluster, stray>>
        /\ r[t] = "NONE" /\ \A u \in Tasks : u < t => r[u] # "NONE"
    BY <1>1, <1>5 DEF SetPending, ctrl, server, TypeOK
  <2> HIDE DEF n, r, s, sub, cl, st
  <2>2. n[t] = "PENDING" /\ \A u \in Tasks : u # t => n[u] = r[u]
    BY <1>2, <2>1 DEF RowTypes
  <2>3. \A u \in Tasks : t < u => r[u] = "NONE"
    BY <1>2, <2>1 DEF JobFits, Inserted
  <2>4. Inserted(s, n)
    BY <1>2, <2>1, <2>2, <2>3 DEF JobFits, Inserted, Tasks
  <2>5. ChainFits(n)
    <3> SUFFICES ASSUME NEW v \in Tasks, NEW u \in Tasks, u < v
                 PROVE  /\ n[v] \in Began => n[u] = "SUCCEEDED"
                        /\ n[u] \in Ongoing => n[v] \in {"PENDING", "NONE"}
      BY DEF ChainFits
    <3>1. /\ r[v] \in Began => r[u] = "SUCCEEDED"
          /\ r[u] \in Ongoing => r[v] \in {"PENDING", "NONE"}
      BY <1>2 DEF JobFits, ChainFits
    <3>2. CASE v = t
      BY <2>2, <3>2 DEF Began
    <3>3. CASE u = t
      <4>1. n[v] = "NONE"
        BY <2>2, <2>3, <3>3 DEF Tasks
      <4> QED
        BY <4>1 DEF Began
    <3> QED
      BY <2>2, <3>1, <3>2, <3>3
  <2>6. SubmittedFits(n, sub, cl, st)
    BY <1>2, <2>2 DEF JobFits, SubmittedFits
  <2>7. JobFits(sched'[j], rows'[j], sub, cl, st)
    BY <2>1, <2>4, <2>5, <2>6 DEF JobFits, DoneFits, n
  <2> QED
    BY <1>3, <2>1, <2>7 DEF NeedsRecovery, s
<1>6. CASE SubmitJob(j)
  <2>1. /\ sched'[j] = "WAITING" /\ rows'[j] = r /\ s = "INACTIVE"
        /\ \A k \in Jobs : k # j => sched'[k] = sched[k] /\ rows'[k] = rows[k]
        /\ UNCHANGED <<co, sweep, submitted, cluster, stray>>
        /\ Present(r) = Tasks
    BY <1>1, <1>6 DEF SubmitJob, ctrl, server, TypeOK
  <2>2. \A t \in Tasks : r[t] # "NONE"
    BY <2>1 DEF Present
  <2>3. JobFits("WAITING", r, sub, cl, st)
    BY <1>2, <2>2 DEF JobFits, Inserted, DoneFits
  <2> QED
    BY <1>3, <2>1, <2>3 DEF NeedsRecovery
<1>7. CASE SetPendingCancelled(j) /\ PendingCancellable(s, r, sub)
  <2>1. /\ sched'[j] = IF s = "WAITING" THEN "DONE" ELSE s
        /\ rows'[j] = CancelPending(r)
        /\ \A k \in Jobs : k # j => sched'[k] = sched[k] /\ rows'[k] = rows[k]
        /\ UNCHANGED <<co, sweep, submitted, cluster, stray>>
    BY <1>1, <1>7 DEF SetPendingCancelled, ctrl, TypeOK
  <2>2. /\ s \in {"WAITING", "INACTIVE"}
        /\ \A t \in Tasks : r[t] # "NONE" => ~sub[t]
    BY <1>7 DEF PendingCancellable, Present
  <2> DEFINE n == CancelPending(r)
  <2>3. JobFits(s, n, sub, cl, st)
    BY <1>2, <2>2, AllRowsFit
  <2>4. ASSUME s = "WAITING" PROVE JobFits("DONE", n, sub, cl, st)
    <3>1. \A t \in Tasks : r[t] # "NONE" /\ ~cl[t]
      BY <1>2, <2>2, <2>4 DEF JobFits, Inserted, SubmittedFits
    <3>2. \A t \in Tasks : n[t] = "CANCELLED"
      BY <3>1 DEF CancelPending
    <3>3. DoneFits("DONE", n, cl, st) /\ Inserted("DONE", n)
      BY <3>1, <3>2 DEF DoneFits, Clean, Terminal, Inserted
    <3> QED
      BY <2>3, <3>3 DEF JobFits
  <2>5. sched'[j] \notin NeedsRecovery
    BY <2>1, <2>2 DEF NeedsRecovery
  <2> HIDE DEF n
  <2>6. JobFits(sched'[j], n, sub, cl, st)
    BY <2>1, <2>3, <2>4
  <2> QED
    BY <1>3, <2>1, <2>2, <2>5, <2>6 DEF n
<1>8. CASE \/ CancelRequest(j) \/ SweepSkip(j) \/ TouchSignal(j)
           \/ SetPendingCancelled(j) /\ ~PendingCancellable(s, r, sub)
  <2>1. UNCHANGED <<sched, rows, submitted, cluster, stray, co, sweep>>
    BY <1>8 DEF CancelRequest, SweepSkip, TouchSignal, SetPendingCancelled, db, ctrl
  <2> QED
    BY <2>1, AllStayKept DEF JobStays
<1>9. CASE SweepRequest(j) \/ SweepTick(j)
  <2>1. /\ UNCHANGED <<sched, rows, submitted, cluster, stray, co>>
        /\ SweepRead("tick", j) \/ SweepRead("request", j)
    BY <1>9 DEF SweepRequest, SweepTick, db, ctrl
  <2>2. s # "DONE"
    <3>1. WorthChecking(j)
      BY <2>1 DEF SweepRead
    <3> QED
      BY <1>2, <3>1 DEF WorthChecking, JobFits, DoneFits, AllTerminal
  <2>3. \A a \in SweepActors : sweep'[a] = sweep[a] \/ sweep'[a].pc = "read"
    BY <1>1, <2>1, <2>2 DEF SweepRead, TypeOK
  <2> QED
    BY <2>1, <2>3, AllStayKept DEF JobStays
<1> QED
  BY <1>4, <1>5, <1>6, <1>7, <1>8, <1>9 DEF Submission, UserCancel

(* update_managed_jobs_statuses: it fails all rows before it sets DONE, so  *)
(* that a second call on the same job finds nothing to change.              *)
LEMMA SweepKept ==
    ASSUME JobInv, NEW a \in SweepActors, SweepStep(a)
    PROVE  Kept
<1> DEFINE j == sweep[a].job
           s == sched[j]
           r == rows[j]
           sub == submitted[j]
           cl == cluster[j]
           st == stray[j]
<1>1. TypeOK /\ OwnInv /\ SweepFits
  BY DEF JobInv, OwnInv
<1>2. UNCHANGED <<co, submitted>>
  BY DEF SweepStep, SweepSpare, SweepOrphan, SweepCleanup, SweepFail, SweepDone, db, ctrl
<1>3. \A b \in SweepActors : b # a => sweep'[b] = sweep[b]
  BY <1>1 DEF SweepStep, SweepSpare, SweepOrphan, SweepCleanup, SweepFail, SweepDone,
     EndSweep, TypeOK
<1>4. sweep[a].pc # "idle"
  BY DEF SweepStep, SweepSpare, SweepOrphan, SweepCleanup, SweepFail, SweepDone
<1>5. j \in Jobs
  BY <1>1, <1>4 DEF OwnInv, SweepHasJob
<1>6. /\ JobFits(s, r, sub, cl, st) /\ r \in RowTypes
      /\ \A b \in SweepActors : sweep[b].pc # "idle" => sweep[b].job \in Jobs
      /\ s \in NeedsRecovery \cup {"DONE"}
  BY <1>4, <1>5, JobFinds
<1>7. CASE SweepSpare(a)
  <2>1. /\ UNCHANGED <<sched, rows, cluster, stray>>
        /\ sweep'[a].pc = "idle"
    BY <1>1, <1>7 DEF SweepSpare, EndSweep, IdleSweep, db, TypeOK
  <2> QED
    BY <1>2, <1>3, <2>1, AllStayKept DEF JobStays
<1>8. CASE SweepOrphan(a)
  <2>1. /\ UNCHANGED <<sched, rows, cluster, stray>>
        /\ sweep'[a].pc = "orphan" /\ sweep'[a].job = j /\ s # "DONE"
    BY <1>1, <1>8 DEF SweepOrphan, db, TypeOK
  <2> QED
    BY <1>2, <1>3, <1>5, <2>1, AllStayKept DEF JobStays
<1>9. CASE SweepCleanup(a) \/ SweepFail(a) \/ SweepDone(a)
  <2>1. sweep[a].pc \in {"orphan", "failing", "done"}
    BY <1>9 DEF SweepCleanup, SweepFail, SweepDone
  <2>2. \A q \in Procs : co[q][j].pc = "off"
    BY <1>1, <2>1, OwnInvFacts
  <2>3. CASE SweepCleanup(a)
    <3>1. PICK left \in SUBSET {t \in Tasks : cl[t]} :
             cluster' = [cluster EXCEPT ![j] = [t \in Tasks |-> t \in left]]
      BY <2>3 DEF SweepCleanup
    <3>2. /\ UNCHANGED <<sched, rows, stray>>
          /\ sweep'[a].pc = "failing" /\ sweep'[a].job = j
          /\ \A t \in Tasks : cluster'[j][t] => cl[t]
          /\ \A k \in Jobs : k # j => cluster'[k] = cluster[k]
      BY <1>1, <1>5, <2>3, <3>1 DEF SweepCleanup, db, TypeOK
    <3>3. JobFits(s, r, sub, cluster'[j], st)
      BY <1>6, <3>2, LessFits
    <3>4. SweepFits'
      BY <1>1, <1>3, <2>1, <3>2 DEF SweepFits
    <3>5. DoneStays(j)
      BY <3>2 DEF DoneStays
    <3> QED
      BY <1>2, <1>5, <2>2, <3>2, <3>3, <3>4, <3>5, <1>6, OneJobKept DEF JobStays
  <2>4. CASE SweepFail(a)
    <3>1. /\ UNCHANGED <<sched, cluster, stray>>
          /\ sweep'[a].pc = "done" /\ sweep'[a].job = j
          /\ rows'[j] = FailAll(r)
          /\ \A k \in Jobs : k # j => rows'[k] = rows[k]
      BY <1>1, <1>5, <2>4 DEF SweepFail, TypeOK
    <3>2. \A t \in Tasks : rows'[j][t] = "FAILED_CONTROLLER"
      <4>1. \A t \in Tasks : r[t] # "NONE"
        BY <1>6 DEF JobFits, Inserted, NeedsRecovery
      <4> QED
        BY <3>1, <4>1 DEF FailAll
    <3>3. s = "DONE" => rows'[j] = r
      <4>1. s = "DONE" => \A t \in Tasks : r[t] = "FAILED_CONTROLLER"
        BY <1>1, <2>1 DEF SweepFits
      <4>2. rows'[j] \in RowTypes
        BY <3>1, <1>6 DEF FailAll, RowTypes, Statuses, Terminal
      <4> QED
        BY <1>6, <3>2, <4>1, <4>2 DEF RowTypes
    <3>4. JobFits(s, rows'[j], sub, cl, st)
      BY <1>6, <3>1, <3>3, AllRowsFit
    <3>5. SweepFits'
      <4> SUFFICES ASSUME NEW b \in SweepActors,
                          sweep'[b].pc \in {"orphan", "failing", "done"},
                          sweep'[b].pc = "done" \/ sched'[sweep'[b].job] = "DONE"
                   PROVE  \A t \in Tasks : rows'[sweep'[b].job][t] = "FAILED_CONTROLLER"
        BY DEF SweepFits
      <4>1. CASE sweep'[b].job = j
        BY <3>2, <4>1
      <4>2. CASE sweep'[b].job # j
        <5>1. sweep'[b] = sweep[b] /\ sweep[b].job \in Jobs
          BY <1>3, <1>6, <3>1, <4>2
        <5> QED
          BY <1>1, <3>1, <4>2, <5>1 DEF SweepFits
      <4> QED
        BY <4>1, <4>2
    <3>6. DoneStays(j)
      BY <3>1, <3>3 DEF DoneStays
    <3> QED
      BY <1>2, <1>5, <1>6, <2>2, <3>1, <3>4, <3>5, <3>6, OneJobKept DEF JobStays
  <2>5. CASE SweepDone(a)
    <3>1. /\ UNCHANGED <<rows, cluster, stray>>
          /\ sweep'[a].pc = "idle" /\ sched'[j] = "DONE"
          /\ \A k \in Jobs : k # j => sched'[k] = sched[k]
      BY <1>1, <1>5, <2>5 DEF SweepDone, EndSweep, IdleSweep, TypeOK
    <3>2. \A t \in Tasks : r[t] = "FAILED_CONTROLLER"
      BY <1>1, <2>5 DEF SweepFits, SweepDone
    <3>3. JobFits("DONE", r, sub, cl, st)
      <4>1. Inserted("DONE", r) /\ DoneFits("DONE", r, cl, st)
        BY <3>2 DEF Inserted, DoneFits, Clean, Terminal
      <4> QED
        BY <1>6, <4>1 DEF JobFits
    <3>4. SweepFits'
      <4> SUFFICES ASSUME NEW b \in SweepActors,
                          sweep'[b].pc \in {"orphan", "failing", "done"},
                          sweep'[b].pc = "done" \/ sched'[sweep'[b].job] = "DONE"
                   PROVE  \A t \in Tasks : rows'[sweep'[b].job][t] = "FAILED_CONTROLLER"
        BY DEF SweepFits
      <4>1. CASE sweep'[b].job = j
        BY <3>1, <3>2, <4>1
      <4>2. CASE sweep'[b].job # j
        <5>1. sweep'[b] = sweep[b] /\ sweep[b].job \in Jobs
          BY <1>3, <1>6, <3>1, <4>2
        <5> QED
          BY <1>1, <3>1, <4>2, <5>1 DEF SweepFits
      <4> QED
        BY <4>1, <4>2
    <3>5. DoneStays(j)
      BY <3>1 DEF DoneStays
    <3> QED
      BY <1>2, <1>5, <2>2, <3>1, <3>3, <3>4, <3>5, OneJobKept DEF JobStays, NeedsRecovery
  <2> QED
    BY <1>9, <2>3, <2>4, <2>5
<1> QED
  BY <1>7, <1>8, <1>9 DEF SweepStep

(* monitor_loop: a claim waits for the dependencies, and a job cancelled on *)
(* its claim has no coroutine yet.                                          *)
LEMMA MonitorKept ==
    ASSUME JobInv, NEW p \in Procs, NEW j \in Jobs, MonitorLoop(p, j)
    PROVE  Kept
<1> DEFINE s == sched[j]
           r == rows[j]
           sub == submitted[j]
           cl == cluster[j]
           st == stray[j]
<1>1. TypeOK /\ SweepHasJob /\ OwnInv /\ SweepFits
  BY DEF JobInv, OwnInv
<1>2. JobFits(s, r, sub, cl, st) /\ r \in RowTypes
  BY JobFinds
<1>3. CASE StartJob(p, j)
  <2>1. /\ UNCHANGED <<sched, rows, submitted, cluster, stray, sweep>>
        /\ \A q \in Procs, k \in Jobs : q # p \/ k # j => co'[q][k] = co[q][k]
        /\ co'[p][j] = At("env")
    BY <1>1, <1>3 DEF StartJob, db, server, TypeOK
  <2>2. co'[p][j].pc = "env"
    BY <2>1, AtFacts
  <2> QED
    BY <2>1, <2>2, AllStayKept DEF JobStays
<1>4. CASE Claim(p, j)
  <2>1. /\ UNCHANGED <<rows, submitted, cluster, stray, sweep, co>>
        /\ sched'[j] = "LAUNCHING" /\ s = "WAITING"
        /\ \A k \in Jobs : k # j => sched'[k] = sched[k]
        /\ \A d \in Deps[j] : sched[d] = "DONE"
    BY <1>1, <1>4 DEF Claim, Claimable, server, TypeOK
  <2>2. /\ \A q \in Procs : co[q][j].pc = "off"
        /\ \A b \in SweepActors : sweep[b].pc # "idle" => sweep[b].job \in Jobs /\ sweep[b].job # j
    BY <2>1, JobFinds DEF NeedsRecovery
  <2>3. JobFits("LAUNCHING", r, sub, cl, st)
    BY <1>2, <2>1, LessFits
  <2>4. \A k \in Jobs : k # j => JobStays(k)
    BY <2>1 DEF JobStays
  <2>5. SweepFits'
    BY <1>1, <2>1, <2>2, <2>4, SweepFitsKept
  <2>6. DoneStays(j)
    BY <2>1 DEF DoneStays
  <2> QED
    BY <2>1, <2>2, <2>3, <2>4, <2>5, <2>6, OneJobKept
<1>5. CASE MonitorCancelling(p, j) \/ MonitorCancelled(p, j)
  <2>1. /\ UNCHANGED <<sched, submitted, cluster, stray, sweep, co>>
        /\ rows'[j] \in {SetCancelling(r), SetCancelled(r)}
        /\ \A k \in Jobs : k # j => rows'[k] = rows[k]
        /\ mon[p].job = j
    BY <1>1, <1>5 DEF MonitorCancelling, MonitorCancelled, server, TypeOK
  <2>2. s \in NeedsRecovery /\ owner[j] = p
    BY <1>1, <2>1, OwnInvFacts
  <2>3. /\ \A q \in Procs : co[q][j].pc = "off"
        /\ \A b \in SweepActors : sweep[b].pc \in {"orphan", "failing", "done"} =>
              sweep[b].job \in Jobs /\ sweep[b].job # j
    BY <1>1, <2>1, <2>2, OwnInvFacts DEF OwnInv, ClaimOrCoroutine, SweepHasJob
  <2>4. s # "DONE"
    BY <2>2 DEF NeedsRecovery
  <2>5. JobFits(s, rows'[j], sub, cl, st)
    BY <1>2, <2>1, <2>4, AllRowsFit
  <2>6. \A k \in Jobs : k # j => JobStays(k)
    BY <2>1 DEF JobStays
  <2>7. SweepFits'
    BY <1>1, <2>1, <2>3, <2>6, SweepFitsKept
  <2>8. DoneStays(j)
    BY <2>4 DEF DoneStays
  <2> QED
    BY <2>1, <2>2, <2>3, <2>5, <2>6, <2>7, <2>8, OneJobKept
<1> QED
  BY <1>3, <1>4, <1>5 DEF MonitorLoop

(* The refresh daemon, restarts of the server, processes that start or die, *)
(* and launch requests.  Recovery puts back only jobs that have no          *)
(* coroutine.                                                               *)
LEMMA ServerKept ==
    ASSUME JobInv,
           \/ DaemonStep \/ RecoveryRaises \/ RestartServer
           \/ \E j \in Jobs, t \in Tasks : StrayProvisions(j, t) \/ StrayEnds(j, t)
           \/ \E p \in Procs : StartController(p) \/ CrashController(p)
           \/ UNCHANGED vars
    PROVE  Kept
<1>1. TypeOK /\ SweepHasJob /\ OwnInv /\ SweepFits
  BY DEF JobInv, OwnInv
<1>2. ASSUME NEW r \in snap, ResetJob(r) PROVE Kept
  <2> DEFINE j == r.job
  <2>1. j \in Jobs /\ r.sched \in NeedsRecovery
    BY <1>1 DEF TypeOK, SnapRows
  <2>2. /\ UNCHANGED <<rows, submitted, cluster, stray, co, sweep>>
        /\ sched'[j] = IF RowUnchanged(r) THEN "WAITING" ELSE sched[j]
        /\ \A k \in Jobs : k # j => sched'[k] = sched[k]
        /\ daemon = "reset"
    BY <1>1, <1>2, <2>1 DEF ResetJob, ctrl, TypeOK
  <2>3. \A a \in SweepActors : sweep[a].pc = "idle"
    BY <1>1, <2>2 DEF OwnInv, SweepHoldsClaim
  <2>4. CASE ~RowUnchanged(r)
    BY <2>2, <2>4, AllStayKept DEF JobStays
  <2>5. CASE RowUnchanged(r)
    <3>1. owner[j] = r.pid /\ sched[j] \in NeedsRecovery
      BY <2>1, <2>5 DEF RowUnchanged
    <3>2. \A q \in Procs : co[q][j].pc = "off"
      BY <1>1, <2>1, <3>1, OwnInvFacts DEF OwnInv, SnapNamesTheDead
    <3>3. JobFits("WAITING", rows[j], submitted[j], cluster[j], stray[j])
      <4>1. JobFits(sched[j], rows[j], submitted[j], cluster[j], stray[j])
        BY <2>1, JobFinds
      <4> QED
        BY <3>1, <4>1, LessFits DEF NeedsRecovery
    <3>4. SweepFits'
      BY <2>2, <2>3 DEF SweepFits
    <3>5. DoneStays(j) /\ \A k \in Jobs : k # j => JobStays(k)
      BY <2>2, <3>1 DEF DoneStays, JobStays, NeedsRecovery
    <3> QED
      BY <2>1, <2>2, <2>5, <3>2, <3>3, <3>4, <3>5, OneJobKept DEF NeedsRecovery
  <2> QED
    BY <2>4, <2>5
<1>3. CASE PoolStarted \/ ScanOrphans \/ OpenGate \/ RetryRecovery \/ RecoveryRaises
  <2>1. UNCHANGED <<sched, rows, submitted, cluster, stray, co, sweep>>
    BY <1>3 DEF PoolStarted, ScanOrphans, OpenGate, RetryRecovery, RecoveryRaises, db, ctrl
  <2> QED
    BY <2>1, AllStayKept DEF JobStays
<1>4. CASE RestartServer
  <2>1. /\ UNCHANGED <<sched, rows, submitted, cluster, stray, co>>
        /\ \A a \in SweepActors : sweep'[a].pc = "idle"
    BY <1>4 DEF RestartServer, db, ctrl, IdleSweep
  <2> QED
    BY <2>1, AllStayKept DEF JobStays
<1>5. ASSUME NEW p \in Procs, StartController(p) PROVE Kept
  <2>1. UNCHANGED <<sched, rows, submitted, cluster, stray, co, sweep>>
    BY <1>5 DEF StartController, db, server
  <2> QED
    BY <2>1, AllStayKept DEF JobStays
<1>7. ASSUME NEW p \in Procs, CrashController(p) PROVE Kept
  <2>1. /\ UNCHANGED <<sched, rows, submitted, cluster, sweep>>
        /\ co' = [co EXCEPT ![p] = [i \in Jobs |-> Off]]
        /\ stray' = [k \in Jobs |-> LeftBehind(p, k)]
    BY <1>7 DEF CrashController, db, server
  <2>2. \A q \in Procs, k \in Jobs : co'[q][k] = co[q][k] \/ co'[q][k].pc = "off"
    <3>1. co \in [Procs -> [Jobs -> CoStates]] /\ Off.pc = "off"
      BY <1>1 DEF TypeOK, Off
    <3> QED
      BY <2>1, <3>1
  <2>3. ASSUME NEW k \in Jobs, NEW t \in Tasks PROVE StrayStep(k, t)
    <3>1. stray[k] \in [Tasks -> StrayStates]
      BY <1>1 DEF TypeOK
    <3>2. \/ stray'[k][t] = stray[k][t]
          \/ co[p][k].pc = "launch" /\ co[p][k].task = t
      BY <2>1, <3>1 DEF LeftBehind
    <3> QED
      BY <2>1, <3>2 DEF StrayStep
  <2> QED
    BY <2>1, <2>2, <2>3, StraysKept
<1>8. ASSUME NEW j \in Jobs, NEW u \in Tasks, StrayProvisions(j, u) \/ StrayEnds(j, u)
      PROVE  Kept
  <2>1. UNCHANGED <<sched, rows, submitted, sweep, co>>
    BY <1>8 DEF StrayProvisions, StrayEnds, db, ctrl, server
  <2>2. ASSUME NEW k \in Jobs, NEW t \in Tasks PROVE StrayStep(k, t)
    <3>1. /\ stray \in [Jobs -> [Tasks -> StrayStates]]
          /\ cluster \in [Jobs -> [Tasks -> BOOLEAN]]
      BY <1>1 DEF TypeOK
    <3>2. /\ stray[j][u] = "live"
          /\ \/ stray'[j][u] = "up"
             \/ stray'[j][u] = "none" /\ cluster'[j][u] = cluster[j][u]
      BY <1>8, <3>1 DEF StrayProvisions, StrayEnds
    <3>3. k # j \/ t # u => stray'[k][t] = stray[k][t] /\ cluster'[k][t] = cluster[k][t]
      <4>1. \E x, y : /\ stray' = [stray EXCEPT ![j][u] = x]
                      /\ cluster' = cluster \/ cluster' = [cluster EXCEPT ![j][u] = y]
        BY <1>8 DEF StrayProvisions, StrayEnds
      <4> QED
        BY <3>1, <4>1
    <3> QED
      BY <3>2, <3>3 DEF StrayStep
  <2> QED
    BY <2>1, <2>2, StraysKept
<1>6. CASE UNCHANGED vars
  <2>1. UNCHANGED <<sched, rows, submitted, cluster, stray, co, sweep>>
    BY <1>6 DEF vars, db, ctrl, server
  <2> QED
    BY <2>1, AllStayKept DEF JobStays
<1> QED
  BY <1>2, <1>3, <1>4, <1>5, <1>6, <1>7, <1>8 DEF DaemonStep

-----------------------------------------------------------------------------
(* Before anything is submitted there is nothing out of order. *)
LEMMA JobInvInit == Init /\ ~RecoveryFails => JobInv
<1> SUFFICES ASSUME Init, ~RecoveryFails PROVE JobInv
  OBVIOUS
<1>1. JobsFit
  <2> SUFFICES ASSUME NEW j \in Jobs
               PROVE  /\ JobFits(sched[j], rows[j], submitted[j], cluster[j], stray[j])
                      /\ \A p \in Procs :
                            CoFits(co[p][j], sched[j], rows[j], submitted[j], cluster[j], stray[j])
    BY DEF JobsFit
  <2>1. /\ sched[j] = "NONE"
        /\ \A t \in Tasks : /\ rows[j][t] = "NONE" /\ ~submitted[j][t]
                            /\ ~cluster[j][t] /\ stray[j][t] = "none"
        /\ \A p \in Procs : co[p][j].pc = "off"
    BY DEF Init, Off
  <2>2. JobFits(sched[j], rows[j], submitted[j], cluster[j], stray[j])
    BY <2>1 DEF JobFits, Inserted, ChainFits, DoneFits, SubmittedFits, Ongoing, Began
  <2> QED
    BY <2>1, <2>2, QuietFits
<1>2. SweepFits
  BY DEF Init, IdleSweep, SweepFits
<1>3. DepsFit
  BY DEF Init, Off, DepsFit, NeedsRecovery, Body
<1> QED
  BY <1>1, <1>2, <1>3, OwnInvInit DEF JobInv

(* Every step keeps the jobs in order. *)
LEMMA StepKept == JobInv /\ [Next]_vars => Kept
<1> SUFFICES ASSUME JobInv, [Next]_vars PROVE Kept
  OBVIOUS
<1>1. ASSUME NEW j \in Jobs, Submission(j) \/ UserCancel(j) \/ SweepTick(j) PROVE Kept
  BY <1>1, UserKept
<1>2. ASSUME NEW a \in SweepActors, SweepStep(a) PROVE Kept
  BY <1>2, SweepKept
<1>3. ASSUME NEW p \in Procs, NEW j \in Jobs, MonitorLoop(p, j) PROVE Kept
  BY <1>3, MonitorKept
<1>4. ASSUME NEW p \in Procs, NEW j \in Jobs,
             CancelJob(p, j) \/ RunStep(p, j) \/ Outcome(p, j)
      PROVE  Kept
  BY <1>4, CoroutineKept
<1> QED
  BY <1>1, <1>2, <1>3, <1>4, ServerKept DEF Next

(* Every step preserves JobInv. *)
LEMMA JobInvNext == JobInv /\ [Next]_vars => JobInv'
BY StepKept, OwnInvNext DEF JobInv, Kept

-----------------------------------------------------------------------------
(* From a launch on, no guarded UPDATE of a controller is refused, over any *)
(* number of crashes, resumes, backoffs and emergency retries:              *)
(* set_started_async after a launch, set_succeeded_async,                   *)
(* set_recovering_async, set_recovered_async, set_backoff_pending_async,    *)
(* set_restarting_async and set_alive find the row or the schedule state    *)
(* they ask for.  (The set_started_async of a resumed task without run      *)
(* commands is no part of the property; there the code is refused.)         *)
THEOREM TransitionsHold == Spec /\ ~RecoveryFails => []TransitionsNeverRefused
<1>1. ASSUME JobInv PROVE TransitionsNeverRefused
  <2> SUFFICES ASSUME NEW p \in Procs, NEW j \in Jobs
               PROVE  LET c == co[p][j]
                          st == rows[j][c.task] IN
                      /\ c.pc = "empty" => st \in MaySucceed
                      /\ c.pc = "restarting" => st \in Unended
                      /\ c.pc = "launch" => st \in MayBackOff /\ sched[j] = "LAUNCHING"
                      /\ c.pc = "launched" => st \in LaunchedFrom(c)
                      /\ c.pc = "monitor" => st \in MayRecover \cap MaySucceed
    BY DEF TransitionsNeverRefused
  <2>1. CoFits(co[p][j], sched[j], rows[j], submitted[j], cluster[j], stray[j])
    BY <1>1 DEF JobInv, JobsFit
  <2> QED
    BY <2>1 DEF CoFits, LaunchStatus, LaunchedFrom, MaySucceed, MayRecover, MayBackOff,
       MayBeStarted, MayBeRecovered, Unended
<1> QED
  BY <1>1, JobInvInit, JobInvNext, PTL DEF Spec

(* A chain runs in order: whatever was interrupted and resumed, a task      *)
(* that began, ran or failed by itself comes after successes only.          *)
THEOREM ChainOrderHolds == Spec /\ ~RecoveryFails => []ChainOrder
<1>1. ASSUME JobInv PROVE ChainOrder
  <2>1. \A j \in Jobs : ChainFits(rows[j])
    BY <1>1 DEF JobInv, JobsFit, JobFits
  <2> QED
    BY <2>1 DEF ChainFits, ChainOrder, Began
<1> QED
  BY <1>1, JobInvInit, JobInvNext, PTL DEF Spec

(* A DONE job has ended and left no cluster, unless it says                 *)
(* FAILED_CONTROLLER or a launch request that its coroutine had left in the *)
(* API server brought one up behind the cleanup: finalize_job_done_async    *)
(* comes after the cleanup, and the sweep of dead controllers fails every   *)
(* row before it sets DONE.                                                 *)
THEOREM DoneIsCleanHolds == Spec /\ ~RecoveryFails => []DoneIsClean
<1>1. ASSUME JobInv PROVE DoneIsClean
  <2>1. \A j \in Jobs : DoneFits(sched[j], rows[j], cluster[j], stray[j])
    BY <1>1 DEF JobInv, JobsFit, JobFits
  <2> QED
    BY <2>1 DEF DoneFits, Clean, DoneIsClean, AllTerminal
<1> QED
  BY <1>1, JobInvInit, JobInvNext, PTL DEF Spec

(* A task is submitted or has a cluster only if every job its job depends   *)
(* on is DONE and succeeded, and that stays so.                             *)
THEOREM DependenciesHeldHolds == Spec /\ ~RecoveryFails => []DependenciesHeld
<1>1. ASSUME JobInv PROVE DependenciesHeld
  BY <1>1 DEF JobInv, DepsFit, DependenciesHeld
<1> QED
  BY <1>1, JobInvInit, JobInvNext, PTL DEF Spec

(* Once DONE, a job stays DONE with the statuses it has and issues no       *)
(* launch request: neither a late coroutine, nor recovery, nor a second     *)
(* sweep that read the job before it was DONE touches it.  A cluster of it  *)
(* appears only through a request that was left behind before.              *)
THEOREM DoneIsFinalHolds == Spec /\ ~RecoveryFails => DoneIsFinal
<1>1. ASSUME JobInv, [Next]_vars
      PROVE  [\A j \in Jobs : sched[j] = "DONE" =>
                /\ sched'[j] = "DONE"
                /\ rows'[j] = rows[j]
                /\ \A t \in Tasks :
                      /\ stray'[j][t] = "live" => stray[j][t] = "live"
                      /\ cluster'[j][t] => cluster[j][t] \/ stray[j][t] = "live"]_vars
  BY <1>1, StepKept DEF Kept, DoneStays
<1> QED
  BY <1>1, JobInvInit, JobInvNext, PTL DEF Spec, DoneIsFinal

(* A cluster comes up, and a launch request is left behind, only by a       *)
(* coroutine that launches, or the cluster by a request left behind.        *)
LEMMA OnlyLaunchesGrow ==
    ASSUME TypeOK, SweepHasJob, Next, NEW j \in Jobs, NEW t \in Tasks,
           stray[j][t] # "live",
           (~cluster[j][t] /\ cluster'[j][t]) \/ stray'[j][t] = "live"
    PROVE  \E p \in Procs : co[p][j].pc = "launch"
<1>1. ASSUME NEW k \in Jobs, Submission(k) \/ UserCancel(k) \/ SweepTick(k) PROVE FALSE
  BY <1>1 DEF Submission, SetJobInfo, SetPending, SubmitJob, UserCancel, CancelRequest,
     SetPendingCancelled, SweepRequest, SweepSkip, TouchSignal, SweepTick
<1>2. ASSUME NEW a \in SweepActors, SweepStep(a) PROVE FALSE
  <2>1. CASE SweepCleanup(a)
    <3> DEFINE k == sweep[a].job
    <3>1. k \in Jobs
      BY <2>1 DEF SweepHasJob, SweepCleanup
    <3>2. PICK left \in SUBSET {u \in Tasks : cluster[k][u]} :
             cluster' = [cluster EXCEPT ![k] = [u \in Tasks |-> u \in left]]
      BY <2>1 DEF SweepCleanup
    <3>3. stray' = stray
      BY <2>1 DEF SweepCleanup
    <3> QED
      BY <3>1, <3>2, <3>3 DEF TypeOK
  <2>2. CASE ~SweepCleanup(a)
    BY <1>2, <2>2 DEF SweepStep, SweepSpare, SweepOrphan, SweepFail, SweepDone
  <2> QED
    BY <2>1, <2>2
<1>3. ~(DaemonStep \/ RecoveryRaises \/ RestartServer)
  BY DEF DaemonStep, PoolStarted, ScanOrphans, ResetJob, OpenGate, RetryRecovery,
     RecoveryRaises, RestartServer
<1>4. ASSUME NEW p \in Procs, StartController(p) \/ CrashController(p)
      PROVE  co[p][j].pc = "launch"
  <2>1. /\ stray[j] \in [Tasks -> StrayStates]
        /\ cluster' = cluster
        /\ stray' = stray \/ stray'[j] = LeftBehind(p, j)
    BY <1>4 DEF StartController, CrashController, TypeOK
  <2> QED
    BY <2>1 DEF LeftBehind
<1>7. ASSUME NEW k \in Jobs, NEW u \in Tasks, StrayProvisions(k, u) \/ StrayEnds(k, u)
      PROVE  FALSE
  <2>1. /\ stray \in [Jobs -> [Tasks -> StrayStates]]
        /\ cluster \in [Jobs -> [Tasks -> BOOLEAN]]
    BY DEF TypeOK
  <2>2. CASE StrayProvisions(k, u)
    BY <2>1, <2>2 DEF StrayProvisions
  <2>3. CASE StrayEnds(k, u)
    BY <2>1, <2>3 DEF StrayEnds
  <2> QED
    BY <1>7, <2>2, <2>3
<1>5. ASSUME NEW p \in Procs, NEW k \in Jobs, MonitorLoop(p, k) PROVE FALSE
  BY <1>5 DEF MonitorLoop, Claim, StartJob, MonitorCancelling, MonitorCancelled
<1>6. ASSUME NEW p \in Procs, NEW k \in Jobs,
             CancelJob(p, k) \/ RunStep(p, k) \/ Outcome(p, k)
      PROVE  co[p][j].pc = "launch"
  <2>1. k = j
    BY <1>6, OthersStay DEF JobStays
  <2>2. cluster'[j][t] => cluster[j][t] \/ Provision(p, j)
    BY <1>6, <2>1, CoroutineBrings
  <2>3. co[p][j].pc # "launch" => stray'[j] = stray[j]
    BY <1>6, <2>1, StrayMoved
  <2> QED
    BY <2>2, <2>3 DEF Provision
<1> QED
  BY <1>1, <1>2, <1>3, <1>4, <1>5, <1>6, <1>7 DEF Next

(* No coroutine launches for a job one of whose tasks is cancelled, being   *)
(* cancelled or failed, even when the controller that began the             *)
(* cancellation has died and another one resumes the job: every cluster     *)
(* that appears, and every launch request that is left behind, goes back to *)
(* a launch that was begun before.                                          *)
THEOREM NoLaunchAfterCancelHolds == Spec /\ ~RecoveryFails => NoLaunchAfterCancel
<1>1. ASSUME JobInv, [Next]_vars
      PROVE  [\A j \in Jobs, t \in Tasks :
                \/ ~cluster[j][t] /\ cluster'[j][t]
                \/ stray'[j][t] = "live"
                => stray[j][t] = "live" \/ Launchable(j)]_vars
  <2> SUFFICES ASSUME Next, NEW j \in Jobs, NEW t \in Tasks, stray[j][t] # "live",
                      (~cluster[j][t] /\ cluster'[j][t]) \/ stray'[j][t] = "live",
                      NEW u \in Tasks
               PROVE  rows[j][u] \in {"SUCCEEDED", "STARTING", "RECOVERING", "PENDING"}
    BY <1>1 DEF Launchable
  <2>1. PICK p \in Procs : co[p][j].pc = "launch"
    <3>1. TypeOK /\ SweepHasJob
      BY <1>1 DEF JobInv, OwnInv
    <3> QED
      BY <3>1, OnlyLaunchesGrow
  <2> DEFINE c == co[p][j]
             r == rows[j]
  <2>2. c.pc = "launch"
    BY <2>1
  <2>3. /\ sched[j] \in NeedsRecovery /\ c.task \in Tasks
        /\ JobFits(sched[j], r, submitted[j], cluster[j], stray[j])
        /\ CoFits(c, sched[j], r, submitted[j], cluster[j], stray[j])
    BY <1>1, <2>2, CoroutineFinds
  <2> HIDE DEF c, r
  <2>4. r[c.task] \in {"STARTING", "RECOVERING"}
    BY <2>2, <2>3 DEF CoFits, LaunchStatus
  <2>5. u < c.task => r[u] = "SUCCEEDED"
    BY <2>2, <2>3 DEF CoFits, Body
  <2>6. c.task < u => r[u] = "PENDING"
    BY <2>3, <2>4 DEF JobFits, ChainFits, Inserted, Ongoing, NeedsRecovery
  <2>7. u < c.task \/ u = c.task \/ c.task < u
    BY <2>3 DEF Tasks
  <2> QED
    BY <2>4, <2>5, <2>6, <2>7 DEF r
<1> QED
  BY <1>1, JobInvInit, JobInvNext, PTL DEF Spec, NoLaunchAfterCancel

-----------------------------------------------------------------------------
(* What has ended in the rows r has ended in n, with the same status or as *)
(* FAILED_CONTROLLER.                                                      *)
EndsKept(r, n) == \A t \in Tasks : r[t] \in Terminal => n[t] \in {r[t], "FAILED_CONTROLLER"}

(* The UPDATEs of JobState leave ended rows alone, or overwrite them with  *)
(* FAILED_CONTROLLER.                                                      *)
LEMMA UpdatesKeepEnds ==
    ASSUME NEW r \in RowTypes
    PROVE  /\ EndsKept(r, r)
           /\ EndsKept(r, SetCancelling(r))
           /\ EndsKept(r, SetCancelled(r))
           /\ EndsKept(r, FailAll(r))
           /\ \A canc \in BOOLEAN : EndsKept(r, FinalRows(r, canc))
           /\ \A t, st : EndsKept(r, FailTask(r, t, st))
           /\ \A t, st : r[t] \in Unended \cup {"NONE"} => EndsKept(r, [r EXCEPT ![t] = st])
<1>1. EndsKept(r, r) /\ EndsKept(r, SetCancelling(r)) /\ EndsKept(r, SetCancelled(r))
  BY DEF EndsKept, SetCancelling, SetCancelled, Terminal, Unended
<1>2. EndsKept(r, FailAll(r))
  BY DEF EndsKept, FailAll, Terminal
<1>3. ASSUME NEW canc \in BOOLEAN PROVE EndsKept(r, FinalRows(r, canc))
  <2>1. \A t \in Tasks : FinalRows(r, canc)[t] =
           LET x == IF canc /\ r[t] = "CANCELLING" THEN "CANCELLED" ELSE r[t]
           IN  IF x \in Unended THEN "FAILED_CONTROLLER" ELSE x
    BY DEF FinalRows, FailUnended, SetCancelled
  <2> QED
    BY <2>1 DEF EndsKept, Terminal, Unended
<1>4. ASSUME NEW t, NEW st PROVE EndsKept(r, FailTask(r, t, st))
  BY DEF EndsKept, FailTask, Terminal, Unended, RowTypes
<1>5. ASSUME NEW t, NEW st, r[t] \in Unended \cup {"NONE"}
      PROVE  EndsKept(r, [r EXCEPT ![t] = st])
  BY <1>5 DEF EndsKept, Terminal, Unended, RowTypes
<1> QED
  BY <1>1, <1>2, <1>3, <1>4, <1>5

(* The steps of a coroutine. *)
LEMMA CoroutineKeepsEnds ==
    ASSUME TypeOK, NEW p \in Procs, NEW j \in Jobs,
           CancelJob(p, j) \/ RunStep(p, j) \/ Outcome(p, j)
    PROVE  EndsKept(rows[j], rows'[j])
<1> DEFINE r == rows[j]
           c == co[p][j]
<1>1. /\ r \in RowTypes /\ rows \in [Jobs -> RowTypes]
      /\ c.task \in Tasks /\ c.canc \in BOOLEAN
  BY DEF TypeOK, RowTypes, CoStates
<1>2. \A t, x : [rows EXCEPT ![j][t] = x][j] = [r EXCEPT ![t] = x]
  BY <1>1
<1>3. \A n : [rows EXCEPT ![j] = n][j] = n
  BY <1>1
<1>4. CASE \/ LoadEnv(p, j) \/ LoadDag(p, j) \/ CheckDependencies(p, j)
           \/ SkipTask(p, j) \/ ResumeTask(p, j) \/ ForceRecovery(p, j)
           \/ EnterLaunch(p, j) \/ TearDown(p, j) \/ EmergencyKeep(p, j)
           \/ EmergencyFastRetry(p, j) \/ EmergencyTearDown(p, j) \/ Normalize(p, j)
           \/ Cleanup(p, j) \/ LoadEnvFails(p, j) \/ LoadDagFails(p, j)
           \/ Provision(p, j) \/ LaunchSucceeds(p, j) \/ RelaunchGivesUp(p, j)
           \/ EmergencySpend(p, j) \/ CancelJob(p, j)
  <2>1. rows' = rows
    BY <1>4 DEF LoadEnv, LoadDag, CheckDependencies, SkipTask, ResumeTask,
       ForceRecovery, EnterLaunch, TearDown, EmergencyKeep, EmergencyFastRetry,
       EmergencyTearDown, Normalize, Cleanup, LoadEnvFails, LoadDagFails, Provision,
       LaunchSucceeds, RelaunchGivesUp, EmergencySpend, CancelJob, db
  <2> QED
    BY <1>1, <2>1, UpdatesKeepEnds
<1>5. CASE \/ StartEmptyTask(p, j) \/ FinishEmptyTask(p, j) \/ StartTask(p, j)
           \/ SetRestarting(p, j) \/ SetRunning(p, j) \/ EmergencyRelaunch(p, j)
           \/ LaunchBacksOff(p, j) \/ TaskSucceeds(p, j) \/ TaskRecovers(p, j)
  <2>1. LaunchedFrom(c) \subseteq Unended
    BY DEF LaunchedFrom, MayBeStarted, MayBeRecovered, Unended
  <2>2. MayBeStarted \cup MaySucceed \cup MayStart \cup MayEmergencyRecover
           \cup MayBackOff \cup MayRecover \subseteq Unended
    BY DEF MayBeStarted, MaySucceed, MayStart, MayEmergencyRecover, MayBackOff, MayRecover,
       Unended
  <2>3. \E t, x : r[t] \in Unended /\ rows' = [rows EXCEPT ![j][t] = x]
    <3>1. CASE StartEmptyTask(p, j) \/ FinishEmptyTask(p, j) \/ StartTask(p, j)
      BY <2>2, <3>1 DEF StartEmptyTask, FinishEmptyTask, StartTask
    <3>2. CASE SetRestarting(p, j)
      BY <3>2 DEF SetRestarting
    <3>3. CASE SetRunning(p, j)
      BY <2>1, <3>3 DEF SetRunning
    <3>4. CASE EmergencyRelaunch(p, j)
      BY <2>2, <3>4 DEF EmergencyRelaunch
    <3>5. CASE LaunchBacksOff(p, j) \/ TaskSucceeds(p, j) \/ TaskRecovers(p, j)
      BY <2>2, <3>5 DEF LaunchBacksOff, TaskSucceeds, TaskRecovers
    <3> QED
      BY <1>5, <3>1, <3>2, <3>3, <3>4, <3>5
  <2>4. PICK t, x : r[t] \in Unended /\ rows' = [rows EXCEPT ![j][t] = x]
    BY <2>3
  <2>5. rows'[j] = [r EXCEPT ![t] = x]
    BY <1>2, <2>4
  <2>6. EndsKept(r, [r EXCEPT ![t] = x])
    BY <1>1, <2>4, UpdatesKeepEnds
  <2> QED
    BY <2>5, <2>6
<1>6. CASE \/ ExitCancelling(p, j) \/ ExitCancelled(p, j) \/ CancelledRun(p, j)
           \/ UnwindFails(p, j) \/ CleanupFails(p, j)
  <2>1. rows'[j] \in {r, SetCancelling(r), SetCancelled(r), FailAll(r)}
    BY <1>3, <1>6 DEF ExitCancelling, ExitCancelled, CancelledRun, UnwindFails, CleanupFails
  <2> QED
    BY <1>1, <2>1, UpdatesKeepEnds
<1>7. CASE \/ PrepareFails(p, j) \/ LaunchRaises(p, j) \/ TaskFails(p, j)
           \/ EmergencyExhausted(p, j)
  <2>1. rows'[j] = r \/ \E t, st : rows'[j] = FailTask(r, t, st)
    BY <1>3, <1>7 DEF PrepareFails, LaunchRaises, TaskFails, EmergencyExhausted
  <2> QED
    BY <1>1, <2>1, UpdatesKeepEnds
<1>8. CASE FinalizeJob(p, j)
  <2>1. rows'[j] = FinalRows(r, c.canc)
    BY <1>3, <1>8 DEF FinalizeJob
  <2> QED
    BY <1>1, <2>1, UpdatesKeepEnds
<1> QED
  BY <1>4, <1>5, <1>6, <1>7, <1>8 DEF RunStep, Outcome

(* A task that has ended keeps its status, or becomes FAILED_CONTROLLER:    *)
(* every other UPDATE's WHERE clause asks for a row that has not ended,     *)
(* even when recovery raises.                                               *)
THEOREM EndedStaysEndedHolds == Spec => EndedStaysEnded
<1>1. ASSUME TypeOK, SweepHasJob, [Next]_vars
      PROVE  [\A j \in Jobs, t \in Tasks : rows[j][t] \in Terminal =>
                rows'[j][t] \in {rows[j][t], "FAILED_CONTROLLER"}]_vars
  <2> SUFFICES ASSUME Next, NEW j \in Jobs PROVE EndsKept(rows[j], rows'[j])
    BY <1>1 DEF EndsKept
  <2>1. rows[j] \in RowTypes /\ rows \in [Jobs -> RowTypes]
    BY <1>1 DEF TypeOK, RowTypes
  <2>2. ASSUME NEW n \in {SetCancelling(rows[j]), SetCancelled(rows[j]), FailAll(rows[j])},
               rows'[j] = n
        PROVE  EndsKept(rows[j], rows'[j])
    BY <2>1, <2>2, UpdatesKeepEnds
  <2>3. rows'[j] = rows[j] => EndsKept(rows[j], rows'[j])
    BY <2>1, UpdatesKeepEnds
  <2>4. ASSUME NEW k \in Jobs, Submission(k) \/ UserCancel(k) \/ SweepTick(k)
        PROVE  EndsKept(rows[j], rows'[j])
    <3>1. ASSUME NEW t \in Tasks, SetPending(k, t) PROVE EndsKept(rows[j], rows'[j])
      <4>1. CASE k = j
        <5>1. rows'[j] = [rows[j] EXCEPT ![t] = "PENDING"] /\ rows[j][t] = "NONE"
          BY <2>1, <3>1, <4>1 DEF SetPending
        <5> QED
          BY <2>1, <5>1, UpdatesKeepEnds
      <4>2. CASE k # j
        BY <2>1, <2>3, <3>1, <4>2 DEF SetPending
      <4> QED
        BY <4>1, <4>2
    <3>2. CASE SetPendingCancelled(k)
      <4>1. rows' = rows \/ (/\ PendingCancellable(sched[k], rows[k], submitted[k])
                             /\ rows' = [rows EXCEPT ![k] = CancelPending(@)])
        BY <3>2 DEF SetPendingCancelled
      <4>2. PendingCancellable(sched[k], rows[k], submitted[k]) =>
               \A t \in Tasks : rows[k][t] \notin Terminal
        BY DEF PendingCancellable, Present, Terminal
      <4>3. CASE k = j
        BY <2>1, <2>3, <4>1, <4>2, <4>3 DEF EndsKept
      <4>4. CASE k # j
        BY <2>1, <2>3, <4>1, <4>4
      <4> QED
        BY <4>3, <4>4
    <3>3. CASE ~SetPendingCancelled(k) /\ ~\E t \in Tasks : SetPending(k, t)
      <4>1. rows' = rows
        BY <2>4, <3>3 DEF Submission, SetJobInfo, SubmitJob, UserCancel, CancelRequest,
           SweepRequest, SweepSkip, TouchSignal, SweepTick, db
      <4> QED
        BY <2>3, <4>1
    <3> QED
      BY <3>1, <3>2, <3>3
  <2>5. ASSUME NEW a \in SweepActors, SweepStep(a) PROVE EndsKept(rows[j], rows'[j])
    <3>1. rows' = rows \/ SweepFail(a)
      BY <2>5 DEF SweepStep, SweepSpare, SweepOrphan, SweepCleanup, SweepDone, db
    <3>2. SweepFail(a) => rows'[j] = rows[j] \/ rows'[j] = FailAll(rows[j])
      BY <2>1 DEF SweepFail
    <3> QED
      BY <2>2, <2>3, <3>1, <3>2
  <2>6. CASE DaemonStep \/ RecoveryRaises \/ RestartServer
    <3>1. rows' = rows
      BY <2>6 DEF DaemonStep, PoolStarted, ScanOrphans, ResetJob, OpenGate, RetryRecovery,
         RecoveryRaises, RestartServer, db
    <3> QED
      BY <2>3, <3>1
  <2>7. ASSUME NEW p \in Procs, StartController(p) \/ CrashController(p)
        PROVE  EndsKept(rows[j], rows'[j])
    BY <2>3, <2>7 DEF StartController, CrashController, db
  <2>8. ASSUME NEW p \in Procs, NEW k \in Jobs, MonitorLoop(p, k)
        PROVE  EndsKept(rows[j], rows'[j])
    <3>1. \/ rows' = rows
          \/ rows' = [rows EXCEPT ![k] = SetCancelling(rows[k])]
          \/ rows' = [rows EXCEPT ![k] = SetCancelled(rows[k])]
      BY <2>8 DEF MonitorLoop, Claim, StartJob, MonitorCancelling, MonitorCancelled, db
    <3> QED
      BY <2>1, <2>2, <2>3, <3>1
  <2>9. ASSUME NEW p \in Procs, NEW k \in Jobs,
               CancelJob(p, k) \/ RunStep(p, k) \/ Outcome(p, k)
        PROVE  EndsKept(rows[j], rows'[j])
    <3>1. CASE k = j
      BY <1>1, <2>9, <3>1, CoroutineKeepsEnds
    <3>2. CASE k # j
      BY <1>1, <2>3, <2>9, <3>2, OthersStay DEF JobStays
    <3> QED
      BY <3>1, <3>2
  <2>10. ASSUME NEW k \in Jobs, NEW u \in Tasks, StrayProvisions(k, u) \/ StrayEnds(k, u)
         PROVE  EndsKept(rows[j], rows'[j])
    BY <2>3, <2>10 DEF StrayProvisions, StrayEnds, db
  <2> QED
    BY <2>4, <2>5, <2>6, <2>7, <2>8, <2>9, <2>10 DEF Next
<1> QED
  BY <1>1, TypeInit, TypeNext, PTL DEF Spec, EndedStaysEnded
=============================================================================
