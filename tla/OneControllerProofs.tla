------------------------ MODULE OneControllerProofs ------------------------
(***************************************************************************)
(* No job of ManagedJobs ever has two controllers, and the sweep that      *)
(* fails the jobs of dead controllers never works on a job that has a live *)
(* one: for every set of jobs, pool and number of crashes and restarts, as *)
(* long as recovery itself does not raise (RecoveryFails).                 *)
(***************************************************************************)
EXTENDS ManagedJobsProofs

(* A process has either the claim of a job or a coroutine for it. *)
ClaimOrCoroutine ==
    \A p \in Procs, j \in Jobs : mon[p].job = j => co[p][j].pc = "off"

(* job_info names only processes that were started. *)
OwnersWereBorn == \A j \in Jobs : owner[j] \in Procs => proc[owner[j]] # "unborn"

(* A job nobody claimed names no process. *)
UnclaimedUnowned ==
    \A j \in Jobs : sched[j] \in {"NONE", "INACTIVE", "WAITING"} => owner[j] = NoProc

(* What recovery read of a job's process stays true: it is dead. *)
SnapNamesTheDead == \A r \in snap : r.pid \in Procs => proc[r.pid] = "dead"

(* A call of update_managed_jobs_statuses runs only while the signal file   *)
(* is absent, so that recovery cannot put its job back to WAITING.          *)
SweepHoldsClaim ==
    \A a \in SweepActors : sweep[a].pc # "idle" =>
        /\ daemon = "run"
        /\ sched[sweep[a].job] \in NeedsRecovery \cup {"DONE"}
        /\ sweep[a].pc = "read" => owner[sweep[a].job] = sweep[a].pid

(* The signal file is absent only when recovery is over. *)
GateHolds == ~RecoveryFails /\ daemon # "failed"

OwnInv ==
    /\ TypeOK
    /\ GateHolds
    /\ SweepHasJob
    /\ OneController
    /\ SweepHitsOrphansOnly
    /\ ClaimOrCoroutine
    /\ OwnersWereBorn
    /\ UnclaimedUnowned
    /\ SnapNamesTheDead
    /\ SweepHoldsClaim

-----------------------------------------------------------------------------
(* What a step of the coroutine of process p for job j may do to it. *)
CoroutineFrame(p, j) ==
    /\ co[p][j].pc # "off"
    /\ UNCHANGED <<owner, proc, mon, daemon, snap, sweep>>
    /\ \A q \in Procs, k \in Jobs : q # p \/ k # j => co'[q][k] = co[q][k]
    /\ \A k \in Jobs : k # j => sched'[k] = sched[k]
    /\ \/ sched'[j] = sched[j]
       \/ sched'[j] \in NeedsRecovery
       \/ sched'[j] = "DONE" /\ co'[p][j].pc = "off"

(* Resuming one coroutine leaves the others where they are. *)
LEMMA ResumeOne ==
    ASSUME TypeOK, NEW p \in Procs, NEW j \in Jobs, NEW state, Resume(p, j, state)
    PROVE  /\ \A q \in Procs, k \in Jobs : q # p \/ k # j => co'[q][k] = co[q][k]
           /\ co'[p][j] = state
BY DEF TypeOK, Resume

(* Every step of run_job_loop stays within its frame: only finalize leaves  *)
(* the claimed schedule states, and it ends the coroutine.                  *)
LEMMA CoroutineFramed ==
    ASSUME TypeOK, NEW p \in Procs, NEW j \in Jobs,
           CancelJob(p, j) \/ RunStep(p, j) \/ Outcome(p, j)
    PROVE  CoroutineFrame(p, j)
<1>1. CASE EnterLaunch(p, j)
  <2>1. sched' = [sched EXCEPT ![j] = "LAUNCHING"]
    BY <1>1 DEF EnterLaunch
  <2> QED
    BY <1>1, <2>1, ResumeOne DEF EnterLaunch, CoroutineFrame, Others, server,
       NeedsRecovery, TypeOK
<1>2. CASE LaunchSucceeds(p, j)
  BY <1>2, ResumeOne DEF LaunchSucceeds, CoroutineFrame, Others, server,
     NeedsRecovery, TypeOK
<1>3. CASE Normalize(p, j)
  BY <1>3, ResumeOne DEF Normalize, CoroutineFrame, Others, server,
     NeedsRecovery, TypeOK
<1>4. CASE FinalizeJob(p, j)
  BY <1>4, ResumeOne DEF FinalizeJob, CoroutineFrame, Others, server, Off, TypeOK
<1>5. CASE CancelJob(p, j)
  BY <1>5 DEF CancelJob, CoroutineFrame, db, server, TypeOK
<1>6. CASE Provision(p, j)
  BY <1>6 DEF Provision, CoroutineFrame, OthersButStray, server
<1>7. CASE \/ LoadEnv(p, j) \/ LoadDag(p, j) \/ CheckDependencies(p, j)
           \/ SkipTask(p, j) \/ StartEmptyTask(p, j) \/ FinishEmptyTask(p, j)
           \/ StartTask(p, j) \/ ResumeTask(p, j) \/ ForceRecovery(p, j)
  <2>1. \E state : Resume(p, j, state)
    BY <1>7 DEF LoadEnv, LoadDag, CheckDependencies, SkipTask, StartEmptyTask,
       FinishEmptyTask, StartTask, ResumeTask, ForceRecovery
  <2>2. co[p][j].pc # "off" /\ UNCHANGED <<sched, Others>>
    BY <1>7 DEF LoadEnv, LoadDag, CheckDependencies, SkipTask, StartEmptyTask,
       FinishEmptyTask, StartTask, ResumeTask, ForceRecovery
  <2> QED
    BY <2>1, <2>2, ResumeOne DEF CoroutineFrame, Others, server
<1>8. CASE \/ SetRestarting(p, j) \/ SetRunning(p, j) \/ TearDown(p, j)
           \/ EmergencyKeep(p, j) \/ EmergencyRelaunch(p, j)
           \/ EmergencyFastRetry(p, j) \/ EmergencyTearDown(p, j)
           \/ ExitCancelling(p, j) \/ ExitCancelled(p, j)
           \/ CancelledRun(p, j) \/ Cleanup(p, j)
  <2>1. \E state : Resume(p, j, state)
    BY <1>8 DEF SetRestarting, SetRunning, TearDown, EmergencyKeep,
       EmergencyRelaunch, EmergencyFastRetry, EmergencyTearDown,
       ExitCancelling, ExitCancelled, CancelledRun, Cleanup
  <2>2. co[p][j].pc # "off" /\ UNCHANGED <<sched, Others>>
    BY <1>8 DEF SetRestarting, SetRunning, TearDown, EmergencyKeep,
       EmergencyRelaunch, EmergencyFastRetry, EmergencyTearDown,
       ExitCancelling, ExitCancelled, CancelledRun, Cleanup
  <2> QED
    BY <2>1, <2>2, ResumeOne DEF CoroutineFrame, Others, server
<1>9. CASE \/ LoadEnvFails(p, j) \/ LoadDagFails(p, j) \/ LaunchBacksOff(p, j)
           \/ LaunchRaises(p, j) \/ TaskSucceeds(p, j) \/ TaskFails(p, j)
           \/ TaskRecovers(p, j) \/ EmergencySpend(p, j)
           \/ EmergencyExhausted(p, j) \/ CleanupFails(p, j) \/ PrepareFails(p, j)
           \/ UnwindFails(p, j)
  <2>1. \E state : Resume(p, j, state)
    BY <1>9 DEF LoadEnvFails, LoadDagFails, LaunchBacksOff, LaunchRaises,
       TaskSucceeds, TaskFails, TaskRecovers, EmergencySpend,
       EmergencyExhausted, CleanupFails, PrepareFails, UnwindFails
  <2>2. co[p][j].pc # "off" /\ UNCHANGED <<sched, OthersButStray>>
    BY <1>9 DEF Others, OthersButStray, LoadEnvFails, LoadDagFails, LaunchBacksOff, LaunchRaises,
       TaskSucceeds, TaskFails, TaskRecovers, EmergencySpend,
       EmergencyExhausted, CleanupFails, PrepareFails, UnwindFails, Body, Bookkeeping
  <2> QED
    BY <2>1, <2>2, ResumeOne DEF CoroutineFrame, OthersButStray, server
<1>10. CASE RelaunchGivesUp(p, j)
  BY <1>10, ResumeOne DEF RelaunchGivesUp, CoroutineFrame, OthersButStray, server,
     NeedsRecovery, TypeOK
<1> QED
  BY <1>1, <1>2, <1>3, <1>4, <1>5, <1>6, <1>7, <1>8, <1>9, <1>10
     DEF RunStep, Outcome

-----------------------------------------------------------------------------
(* OwnInv written without the sets of holders, as its proofs use it. *)
LEMMA OwnInvFacts ==
    ASSUME OwnInv
    PROVE  /\ \A p \in Procs, j \in Jobs :
                 co[p][j].pc # "off" \/ mon[p].job = j =>
                    proc[p] = "alive" /\ owner[j] = p /\ sched[j] \in NeedsRecovery
           /\ \A a \in SweepActors : sweep[a].pc \in {"orphan", "failing", "done"} =>
                 \A p \in Procs :
                    co[p][sweep[a].job].pc = "off" /\ mon[p].job # sweep[a].job
BY DEF OwnInv, OneController, SweepHitsOrphansOnly, Holders, Alive

(* ... and what has to be shown of the next state. *)
LEMMA OwnInvGoal ==
    ASSUME TypeOK', GateHolds', SweepHasJob', ClaimOrCoroutine', OwnersWereBorn',
           UnclaimedUnowned', SnapNamesTheDead', SweepHoldsClaim',
           \A p \in Procs, j \in Jobs :
              co'[p][j].pc # "off" \/ mon'[p].job = j =>
                 proc'[p] = "alive" /\ owner'[j] = p /\ sched'[j] \in NeedsRecovery,
           \A a \in SweepActors : sweep'[a].pc \in {"orphan", "failing", "done"} =>
              \A p \in Procs :
                 co'[p][sweep'[a].job].pc = "off" /\ mon'[p].job # sweep'[a].job
    PROVE  OwnInv'
BY DEF OwnInv, OneController, SweepHitsOrphansOnly, Holders, Alive

(* The types hold in the next state too, and recovery does not raise. *)
LEMMA OwnTypes ==
    ASSUME OwnInv, [Next]_vars
    PROVE  TypeOK' /\ SweepHasJob' /\ GateHolds'
<1>1. TypeOK' /\ SweepHasJob'
  BY TypeNext DEF OwnInv
<1>2. daemon' = daemon \/ daemon' # "failed"
  <2>1. ASSUME NEW j \in Jobs, Submission(j) \/ UserCancel(j) \/ SweepTick(j)
        PROVE  daemon' = daemon
    BY <2>1 DEF Submission, SetJobInfo, SetPending, SubmitJob, UserCancel,
       CancelRequest, SetPendingCancelled, SweepRequest, SweepSkip, TouchSignal,
       SweepTick, server
  <2>2. ASSUME NEW a \in SweepActors, SweepStep(a) PROVE daemon' = daemon
    BY <2>2 DEF SweepStep, SweepSpare, SweepOrphan, SweepCleanup, SweepFail, SweepDone
  <2>3. CASE DaemonStep \/ RecoveryRaises \/ RestartServer
    BY <2>3 DEF DaemonStep, PoolStarted, ScanOrphans, ResetJob, OpenGate,
       RetryRecovery, RecoveryRaises, RestartServer, OwnInv, GateHolds
  <2>4. ASSUME NEW p \in Procs, StartController(p) \/ CrashController(p)
        PROVE  daemon' = daemon
    BY <2>4 DEF StartController, CrashController, server
  <2>5. ASSUME NEW p \in Procs, NEW j \in Jobs,
               MonitorLoop(p, j) \/ CancelJob(p, j) \/ RunStep(p, j) \/ Outcome(p, j)
        PROVE  daemon' = daemon
    BY <2>5, CoroutineSparesServer DEF server
  <2>6. CASE \/ UNCHANGED vars
             \/ \E j \in Jobs, t \in Tasks : StrayProvisions(j, t) \/ StrayEnds(j, t)
    BY <2>6 DEF vars, server, StrayProvisions, StrayEnds
  <2> QED
    BY <2>1, <2>2, <2>3, <2>4, <2>5, <2>6 DEF Next
<1> QED
  BY <1>1, <1>2 DEF OwnInv, GateHolds

(* A coroutine's steps: its process is the job's only holder, so even the   *)
(* last one, which gives the job up, leaves nobody behind.                  *)
LEMMA CoroutineKeeps ==
    ASSUME OwnInv, TypeOK', SweepHasJob', GateHolds', NEW p \in Procs, NEW j \in Jobs,
           CoroutineFrame(p, j)
    PROVE  OwnInv'
<1>1. /\ proc[p] = "alive" /\ owner[j] = p /\ sched[j] \in NeedsRecovery
      /\ mon[p].job # j
  BY OwnInvFacts DEF OwnInv, ClaimOrCoroutine, CoroutineFrame
<1>2. \A q \in Procs : q # p => co[q][j].pc = "off" /\ mon[q].job # j
  BY <1>1, OwnInvFacts
<1>3. \A q \in Procs, k \in Jobs :
         co'[q][k].pc # "off" \/ mon'[q].job = k =>
            proc'[q] = "alive" /\ owner'[k] = q /\ sched'[k] \in NeedsRecovery
  BY <1>1, <1>2, OwnInvFacts DEF CoroutineFrame
<1>4. \A a \in SweepActors : sweep[a].pc \in {"orphan", "failing", "done"} => sweep[a].job # j
  BY <1>1, OwnInvFacts DEF CoroutineFrame
<1>5. \A a \in SweepActors : sweep'[a].pc \in {"orphan", "failing", "done"} =>
         \A q \in Procs : co'[q][sweep'[a].job].pc = "off" /\ mon'[q].job # sweep'[a].job
  BY <1>4, OwnInvFacts DEF CoroutineFrame, OwnInv, SweepHasJob
<1>6. ClaimOrCoroutine'
  BY <1>1 DEF CoroutineFrame, OwnInv, ClaimOrCoroutine
<1>7. OwnersWereBorn' /\ SnapNamesTheDead'
  BY DEF CoroutineFrame, OwnInv, OwnersWereBorn, SnapNamesTheDead
<1>8. UnclaimedUnowned'
  BY <1>1 DEF CoroutineFrame, OwnInv, UnclaimedUnowned, NeedsRecovery
<1>9. SweepHoldsClaim'
  BY <1>1 DEF CoroutineFrame, OwnInv, SweepHasJob, SweepHoldsClaim
<1> QED
  BY <1>3, <1>5, <1>6, <1>7, <1>8, <1>9, OwnInvGoal

(* monitor_loop: a claim takes a WAITING job, which nobody holds. *)
LEMMA MonitorKeeps ==
    ASSUME OwnInv, TypeOK', SweepHasJob', GateHolds', NEW p \in Procs, NEW j \in Jobs,
           MonitorLoop(p, j)
    PROVE  OwnInv'
<1>1. CASE Claim(p, j)
  <2>1. sched[j] = "WAITING" /\ proc[p] = "alive"
    BY <1>1 DEF Claim, Claimable, Alive
  <2>2. \A q \in Procs : co[q][j].pc = "off" /\ mon[q].job # j
    BY <2>1, OwnInvFacts DEF NeedsRecovery
  <2>3. \A a \in SweepActors : sweep[a].pc # "idle" => sweep[a].job # j
    BY <2>1 DEF OwnInv, SweepHoldsClaim, NeedsRecovery
  <2>4. /\ \A k \in Jobs : k # j => sched'[k] = sched[k] /\ owner'[k] = owner[k]
        /\ sched'[j] = "LAUNCHING" /\ owner'[j] = p
        /\ \A q \in Procs : q # p => mon'[q] = mon[q]
        /\ mon'[p].job = j
        /\ UNCHANGED <<proc, co, daemon, snap, sweep>>
    BY <1>1 DEF Claim, OwnInv, TypeOK, server
  <2>5. \A q \in Procs, k \in Jobs :
           co'[q][k].pc # "off" \/ mon'[q].job = k =>
              proc'[q] = "alive" /\ owner'[k] = q /\ sched'[k] \in NeedsRecovery
    BY <2>1, <2>2, <2>4, OwnInvFacts DEF NeedsRecovery
  <2>6. \A a \in SweepActors : sweep'[a].pc \in {"orphan", "failing", "done"} =>
           \A q \in Procs : co'[q][sweep'[a].job].pc = "off" /\ mon'[q].job # sweep'[a].job
    BY <2>3, <2>4, OwnInvFacts
  <2>7. ClaimOrCoroutine'
    BY <2>2, <2>4 DEF OwnInv, ClaimOrCoroutine
  <2>8. OwnersWereBorn' /\ SnapNamesTheDead'
    BY <2>1, <2>4 DEF OwnInv, OwnersWereBorn, SnapNamesTheDead
  <2>9. UnclaimedUnowned'
    BY <2>4 DEF OwnInv, UnclaimedUnowned
  <2>10. SweepHoldsClaim'
    BY <2>3, <2>4 DEF OwnInv, SweepHasJob, SweepHoldsClaim
  <2> QED
    BY <2>5, <2>6, <2>7, <2>8, <2>9, <2>10, OwnInvGoal
<1>2. CASE StartJob(p, j)
  <2>1. /\ mon[p].job = j
        /\ \A q \in Procs, k \in Jobs : q # p \/ k # j => co'[q][k] = co[q][k]
        /\ \A q \in Procs : q # p => mon'[q] = mon[q]
        /\ mon'[p].job = NoJob
        /\ UNCHANGED <<sched, owner, proc, daemon, snap, sweep>>
    BY <1>2 DEF StartJob, OwnInv, TypeOK, db, server
  <2>2. NoJob \notin Jobs
    BY ConstantsAssumption
  <2>3. /\ proc[p] = "alive" /\ owner[j] = p /\ sched[j] \in NeedsRecovery
    BY <2>1, OwnInvFacts
  <2>4. \A q \in Procs, k \in Jobs :
           co'[q][k].pc # "off" \/ mon'[q].job = k =>
              proc'[q] = "alive" /\ owner'[k] = q /\ sched'[k] \in NeedsRecovery
    BY <2>1, <2>2, <2>3, OwnInvFacts
  <2>5. \A a \in SweepActors : sweep'[a].pc \in {"orphan", "failing", "done"} =>
           /\ sweep[a].job \in Jobs
           /\ sweep[a].job # j
    BY <2>1, OwnInvFacts DEF OwnInv, SweepHasJob
  <2>6. \A a \in SweepActors : sweep'[a].pc \in {"orphan", "failing", "done"} =>
           \A q \in Procs : co'[q][sweep'[a].job].pc = "off" /\ mon'[q].job # sweep'[a].job
    BY <2>1, <2>2, <2>5, OwnInvFacts
  <2>7. ClaimOrCoroutine'
    <3> SUFFICES ASSUME NEW q \in Procs, NEW k \in Jobs, mon'[q].job = k
                 PROVE  co'[q][k].pc = "off"
      BY DEF ClaimOrCoroutine
    <3>1. q # p
      BY <2>1, <2>2
    <3> QED
      BY <2>1, <3>1 DEF OwnInv, ClaimOrCoroutine
  <2>8. OwnersWereBorn' /\ SnapNamesTheDead' /\ UnclaimedUnowned' /\ SweepHoldsClaim'
    BY <2>1 DEF OwnInv, OwnersWereBorn, SnapNamesTheDead, UnclaimedUnowned, SweepHoldsClaim
  <2> QED
    BY <2>4, <2>6, <2>7, <2>8, OwnInvGoal
<1>3. CASE MonitorCancelling(p, j) \/ MonitorCancelled(p, j)
  <2>1. /\ \A q \in Procs, k \in Jobs : mon'[q].job = k => mon[q].job = k
        /\ UNCHANGED <<sched, owner, proc, co, daemon, snap, sweep>>
    <3>1. DOMAIN mon = Procs /\ NoJob \notin Jobs
      BY ConstantsAssumption DEF OwnInv, TypeOK
    <3>2. CASE MonitorCancelling(p, j)
      <4>1. \A q \in Procs : mon'[q].job = mon[q].job
        BY <3>2 DEF MonitorCancelling, OwnInv, TypeOK
      <4> QED
        BY <3>2, <4>1 DEF MonitorCancelling, server
    <3>3. CASE MonitorCancelled(p, j)
      <4>1. \A q \in Procs : mon'[q].job = NoJob \/ mon'[q] = mon[q]
        BY <3>1, <3>3 DEF MonitorCancelled
      <4> QED
        BY <3>1, <3>3, <4>1 DEF MonitorCancelled, server
    <3> QED
      BY <1>3, <3>2, <3>3
  <2>2. \A q \in Procs, k \in Jobs :
           co'[q][k].pc # "off" \/ mon'[q].job = k =>
              proc'[q] = "alive" /\ owner'[k] = q /\ sched'[k] \in NeedsRecovery
    BY <2>1, OwnInvFacts
  <2>3. \A a \in SweepActors : sweep'[a].pc \in {"orphan", "failing", "done"} =>
           \A q \in Procs : co'[q][sweep'[a].job].pc = "off" /\ mon'[q].job # sweep'[a].job
    BY <2>1, OwnInvFacts DEF OwnInv, SweepHasJob
  <2>4. ClaimOrCoroutine'
    BY <2>1 DEF OwnInv, ClaimOrCoroutine
  <2>5. OwnersWereBorn' /\ SnapNamesTheDead' /\ UnclaimedUnowned' /\ SweepHoldsClaim'
    BY <2>1 DEF OwnInv, OwnersWereBorn, SnapNamesTheDead, UnclaimedUnowned, SweepHoldsClaim
  <2> QED
    BY <2>2, <2>3, <2>4, <2>5, OwnInvGoal
<1> QED
  BY <1>1, <1>2, <1>3 DEF MonitorLoop

(* The refresh daemon: recovery puts back only jobs whose recorded process  *)
(* is dead, which the compare-and-swap and UnclaimedUnowned keep true.      *)
LEMMA DaemonKeeps ==
    ASSUME OwnInv, TypeOK', SweepHasJob', GateHolds',
           DaemonStep \/ RecoveryRaises \/ RestartServer
    PROVE  OwnInv'
<1>1. CASE RestartServer
  <2>1. /\ \A a \in SweepActors : sweep'[a].pc = "idle"
        /\ snap' = {}
        /\ UNCHANGED <<sched, owner, proc, mon, co>>
    BY <1>1 DEF RestartServer, IdleSweep, db, ctrl
  <2>2. SweepHoldsClaim' /\ SnapNamesTheDead'
    BY <2>1 DEF SweepHoldsClaim, SnapNamesTheDead
  <2>3. ClaimOrCoroutine' /\ OwnersWereBorn' /\ UnclaimedUnowned'
    BY <2>1 DEF OwnInv, ClaimOrCoroutine, OwnersWereBorn, UnclaimedUnowned
  <2> QED
    BY <2>1, <2>2, <2>3, OwnInvFacts, OwnInvGoal
<1>2. CASE PoolStarted \/ OpenGate \/ ScanOrphans
  <2>1. /\ daemon # "run"
        /\ UNCHANGED <<sched, owner, proc, mon, co, sweep>>
    BY <1>2 DEF PoolStarted, OpenGate, ScanOrphans, db, ctrl
  <2>2. \A a \in SweepActors : sweep[a].pc = "idle"
    BY <2>1 DEF OwnInv, SweepHoldsClaim
  <2>3. SnapNamesTheDead'
    <3>1. CASE PoolStarted \/ OpenGate
      BY <3>1 DEF PoolStarted, OpenGate, ctrl, OwnInv, SnapNamesTheDead
    <3>2. CASE ScanOrphans
      <4> SUFFICES ASSUME NEW r \in snap', r.pid \in Procs PROVE proc[r.pid] = "dead"
        BY <2>1 DEF SnapNamesTheDead
      <4>1. PICK j \in Jobs : r.pid = owner[j] /\ ~Alive(owner[j])
        BY <3>2 DEF ScanOrphans
      <4>2. proc[r.pid] # "unborn" /\ proc[r.pid] # "alive"
        BY <4>1 DEF OwnInv, OwnersWereBorn, Alive
      <4> QED
        BY <4>2 DEF OwnInv, TypeOK
    <3> QED
      BY <1>2, <3>1, <3>2
  <2>4. SweepHoldsClaim' /\ ClaimOrCoroutine' /\ OwnersWereBorn' /\ UnclaimedUnowned'
    BY <2>1, <2>2 DEF OwnInv, SweepHoldsClaim, ClaimOrCoroutine, OwnersWereBorn,
                      UnclaimedUnowned
  <2> QED
    BY <2>1, <2>2, <2>3, <2>4, OwnInvFacts, OwnInvGoal
<1>3. ASSUME NEW r \in snap, ResetJob(r) PROVE OwnInv'
  <2>1. r.job \in Jobs /\ r.sched \in NeedsRecovery /\ r.pid \in Procs \cup {NoProc}
    BY DEF OwnInv, TypeOK, SnapRows
  <2>2. /\ daemon = "reset" /\ snap' \subseteq snap
        /\ UNCHANGED <<proc, mon, co, daemon, sweep>>
        /\ \A k \in Jobs : k # r.job => sched'[k] = sched[k] /\ owner'[k] = owner[k]
    BY <1>3 DEF ResetJob, ctrl, OwnInv, TypeOK
  <2>3. \A a \in SweepActors : sweep[a].pc = "idle"
    BY <2>2 DEF OwnInv, SweepHoldsClaim
  <2>4. SnapNamesTheDead' /\ SweepHoldsClaim' /\ ClaimOrCoroutine'
    BY <2>2, <2>3 DEF OwnInv, SnapNamesTheDead, SweepHoldsClaim, ClaimOrCoroutine
  <2>5. CASE RowUnchanged(r)
    <3>1. sched'[r.job] = "WAITING" /\ owner'[r.job] = NoProc /\ owner[r.job] = r.pid
      BY <1>3, <2>1, <2>5 DEF ResetJob, RowUnchanged, OwnInv, TypeOK
    <3>2. \A p \in Procs : co[p][r.job].pc = "off" /\ mon[p].job # r.job
      <4>1. \A p \in Procs : owner[r.job] = p => proc[p] = "dead"
        BY <3>1 DEF OwnInv, SnapNamesTheDead
      <4> QED
        BY <2>1, <4>1, OwnInvFacts
    <3>3. OwnersWereBorn' /\ UnclaimedUnowned'
      BY <2>2, <3>1, ConstantsAssumption DEF OwnInv, OwnersWereBorn, UnclaimedUnowned
    <3>4. \A p \in Procs, j \in Jobs :
             co'[p][j].pc # "off" \/ mon'[p].job = j =>
                proc'[p] = "alive" /\ owner'[j] = p /\ sched'[j] \in NeedsRecovery
      BY <2>2, <3>2, OwnInvFacts
    <3> QED
      BY <2>2, <2>3, <2>4, <3>3, <3>4, OwnInvGoal
  <2>6. CASE ~RowUnchanged(r)
    <3>1. UNCHANGED <<sched, owner>>
      BY <1>3, <2>6 DEF ResetJob, OwnInv, TypeOK
    <3>2. OwnersWereBorn' /\ UnclaimedUnowned'
      BY <2>2, <3>1 DEF OwnInv, OwnersWereBorn, UnclaimedUnowned
    <3> QED
      BY <2>2, <2>3, <2>4, <3>1, <3>2, OwnInvFacts, OwnInvGoal
  <2> QED
    BY <2>5, <2>6
<1>4. ~RetryRecovery /\ ~RecoveryRaises
  BY DEF OwnInv, GateHolds, RetryRecovery, RecoveryRaises
<1> QED
  BY <1>1, <1>2, <1>3, <1>4 DEF DaemonStep

(* Starting a process revives no recorded one, and a crash takes the claim  *)
(* and the coroutines of the process with it.                               *)
LEMMA ProcessKeeps ==
    ASSUME OwnInv, TypeOK', SweepHasJob', GateHolds', NEW p \in Procs,
           StartController(p) \/ CrashController(p)
    PROVE  OwnInv'
<1>1. UNCHANGED <<sched, owner, daemon, snap, sweep>>
  BY DEF StartController, CrashController, db, server
<1>2. CASE StartController(p)
  <2>1. /\ proc[p] = "unborn" /\ proc'[p] = "alive"
        /\ \A q \in Procs : q # p => proc'[q] = proc[q]
        /\ UNCHANGED <<mon, co>>
    BY <1>2 DEF StartController, OwnInv, TypeOK
  <2>2. OwnersWereBorn' /\ SnapNamesTheDead'
    BY <1>1, <2>1 DEF OwnInv, OwnersWereBorn, SnapNamesTheDead
  <2>3. ClaimOrCoroutine' /\ UnclaimedUnowned' /\ SweepHoldsClaim'
    BY <1>1, <2>1 DEF OwnInv, ClaimOrCoroutine, UnclaimedUnowned, SweepHoldsClaim
  <2>4. \A q \in Procs, j \in Jobs :
           co'[q][j].pc # "off" \/ mon'[q].job = j =>
              proc'[q] = "alive" /\ owner'[j] = q /\ sched'[j] \in NeedsRecovery
    BY <1>1, <2>1, OwnInvFacts
  <2> QED
    BY <1>1, <2>1, <2>2, <2>3, <2>4, OwnInvFacts, OwnInvGoal
<1>3. CASE CrashController(p)
  <2>1. /\ proc'[p] = "dead" /\ mon'[p].job = NoJob
        /\ \A j \in Jobs : co'[p][j].pc = "off"
        /\ \A q \in Procs : q # p =>
              proc'[q] = proc[q] /\ mon'[q] = mon[q] /\ co'[q] = co[q]
    BY <1>3 DEF CrashController, Off, OwnInv, TypeOK
  <2>2. NoJob \notin Jobs
    BY ConstantsAssumption
  <2>3. OwnersWereBorn' /\ SnapNamesTheDead'
    BY <1>1, <2>1 DEF OwnInv, OwnersWereBorn, SnapNamesTheDead
  <2>4. ClaimOrCoroutine' /\ UnclaimedUnowned' /\ SweepHoldsClaim'
    BY <1>1, <2>1 DEF OwnInv, ClaimOrCoroutine, UnclaimedUnowned, SweepHoldsClaim
  <2>5. \A q \in Procs, j \in Jobs :
           co'[q][j].pc # "off" \/ mon'[q].job = j =>
              proc'[q] = "alive" /\ owner'[j] = q /\ sched'[j] \in NeedsRecovery
    BY <1>1, <2>1, <2>2, OwnInvFacts
  <2>6. \A a \in SweepActors : sweep'[a].pc \in {"orphan", "failing", "done"} =>
           \A q \in Procs : co'[q][sweep'[a].job].pc = "off" /\ mon'[q].job # sweep'[a].job
    BY <1>1, <2>1, <2>2, OwnInvFacts DEF OwnInv, SweepHasJob
  <2> QED
    BY <2>3, <2>4, <2>5, <2>6, OwnInvGoal
<1> QED
  BY <1>2, <1>3

(* Requests and sweeps: a call decides to fail a job only while the process *)
(* it read is still the recorded one, and that process is dead.             *)
LEMMA SweepKeeps ==
    ASSUME OwnInv, TypeOK', SweepHasJob', GateHolds', NEW a \in SweepActors,
           SweepStep(a) \/ \E j \in Jobs : SweepRead(a, j) /\ UNCHANGED <<db, ctrl, daemon, snap>>
    PROVE  OwnInv'
<1>1. /\ UNCHANGED <<owner, proc, mon, co, daemon, snap>>
      /\ \A b \in SweepActors : b # a => sweep'[b] = sweep[b]
  BY DEF SweepStep, SweepRead, SweepSpare, SweepOrphan, SweepCleanup, SweepFail,
         SweepDone, EndSweep, db, ctrl, OwnInv, TypeOK
<1>2. ClaimOrCoroutine' /\ OwnersWereBorn' /\ SnapNamesTheDead'
  BY <1>1 DEF OwnInv, ClaimOrCoroutine, OwnersWereBorn, SnapNamesTheDead
<1>3. ASSUME NEW j \in Jobs, SweepRead(a, j), UNCHANGED <<db, ctrl, daemon, snap>>
      PROVE  OwnInv'
  <2>1. /\ sweep'[a] = [pc |-> IF sched[j] = "DONE" THEN "orphan" ELSE "read",
                        job |-> j, pid |-> owner[j]]
        /\ daemon = "run" /\ WorthChecking(j)
        /\ UNCHANGED sched
    BY <1>3 DEF SweepRead, GateClosed, GateHolds, db, OwnInv, TypeOK
  <2>2. sched[j] \in NeedsRecovery \cup {"DONE"}
    BY <2>1 DEF WorthChecking, OwnInv, UnclaimedUnowned, TypeOK, ScheduleStates, NeedsRecovery
  <2>3. sched[j] = "DONE" => \A p \in Procs : co[p][j].pc = "off" /\ mon[p].job # j
    BY OwnInvFacts DEF NeedsRecovery
  <2>4. SweepHoldsClaim' /\ UnclaimedUnowned'
    BY <1>1, <2>1, <2>2 DEF OwnInv, SweepHoldsClaim, UnclaimedUnowned
  <2>5. \A b \in SweepActors : sweep'[b].pc \in {"orphan", "failing", "done"} =>
           \A p \in Procs : co'[p][sweep'[b].job].pc = "off" /\ mon'[p].job # sweep'[b].job
    BY <1>1, <2>1, <2>3, OwnInvFacts
  <2> QED
    BY <1>1, <1>2, <2>1, <2>4, <2>5, OwnInvFacts, OwnInvGoal
<1>4. CASE SweepOrphan(a) \/ SweepCleanup(a) \/ SweepFail(a)
  <2>1. /\ sweep[a].pc # "idle" /\ sweep'[a].job = sweep[a].job
        /\ sweep'[a].pc \in {"orphan", "failing", "done"}
        /\ UNCHANGED sched
    BY <1>4 DEF SweepOrphan, SweepCleanup, SweepFail, db, OwnInv, TypeOK
  <2>2. \A p \in Procs : co[p][sweep[a].job].pc = "off" /\ mon[p].job # sweep[a].job
    <3>1. CASE SweepOrphan(a)
      <4>1. sweep[a].job \in Jobs /\ owner[sweep[a].job] = sweep[a].pid
        BY <3>1 DEF SweepOrphan, OwnInv, SweepHasJob, SweepHoldsClaim
      <4>2. \A p \in Procs : owner[sweep[a].job] = p => proc[p] # "alive"
        BY <3>1, <4>1 DEF SweepOrphan, Alive
      <4> QED
        BY <4>1, <4>2, OwnInvFacts
    <3>2. CASE SweepCleanup(a) \/ SweepFail(a)
      BY <3>2, OwnInvFacts DEF SweepCleanup, SweepFail
    <3> QED
      BY <1>4, <3>1, <3>2
  <2>3. SweepHoldsClaim' /\ UnclaimedUnowned'
    BY <1>1, <2>1 DEF OwnInv, SweepHoldsClaim, UnclaimedUnowned
  <2>4. \A b \in SweepActors : sweep'[b].pc \in {"orphan", "failing", "done"} =>
           \A p \in Procs : co'[p][sweep'[b].job].pc = "off" /\ mon'[p].job # sweep'[b].job
    BY <1>1, <2>1, <2>2, OwnInvFacts
  <2> QED
    BY <1>1, <1>2, <2>1, <2>3, <2>4, OwnInvFacts, OwnInvGoal
<1>5. CASE SweepSpare(a)
  <2>1. sweep'[a].pc = "idle" /\ UNCHANGED sched
    BY <1>5 DEF SweepSpare, EndSweep, IdleSweep, db, OwnInv, TypeOK
  <2>2. SweepHoldsClaim' /\ UnclaimedUnowned'
    BY <1>1, <2>1 DEF OwnInv, SweepHoldsClaim, UnclaimedUnowned
  <2>3. \A b \in SweepActors : sweep'[b].pc \in {"orphan", "failing", "done"} =>
           \A p \in Procs : co'[p][sweep'[b].job].pc = "off" /\ mon'[p].job # sweep'[b].job
    BY <1>1, <2>1, OwnInvFacts
  <2> QED
    BY <1>1, <1>2, <2>1, <2>2, <2>3, OwnInvFacts, OwnInvGoal
<1>6. CASE SweepDone(a)
  <2>1. /\ sweep'[a].pc = "idle" /\ sweep[a].pc = "done" /\ sweep[a].job \in Jobs
        /\ sched'[sweep[a].job] = "DONE"
        /\ \A k \in Jobs : k # sweep[a].job => sched'[k] = sched[k]
    BY <1>6 DEF SweepDone, EndSweep, IdleSweep, OwnInv, SweepHasJob, TypeOK
  <2>2. \A p \in Procs : co[p][sweep[a].job].pc = "off" /\ mon[p].job # sweep[a].job
    BY <2>1, OwnInvFacts
  <2>3. UnclaimedUnowned'
    BY <1>1, <2>1 DEF OwnInv, UnclaimedUnowned
  <2>4. SweepHoldsClaim'
    BY <1>1, <2>1 DEF OwnInv, SweepHasJob, SweepHoldsClaim
  <2>5. \A b \in SweepActors : sweep'[b].pc \in {"orphan", "failing", "done"} =>
           \A p \in Procs : co'[p][sweep'[b].job].pc = "off" /\ mon'[p].job # sweep'[b].job
    BY <1>1, <2>1, OwnInvFacts
  <2>6. \A p \in Procs, j \in Jobs :
           co'[p][j].pc # "off" \/ mon'[p].job = j =>
              proc'[p] = "alive" /\ owner'[j] = p /\ sched'[j] \in NeedsRecovery
    BY <1>1, <2>1, <2>2, OwnInvFacts
  <2> QED
    BY <1>2, <2>3, <2>4, <2>5, <2>6, OwnInvGoal
<1> QED
  BY <1>3, <1>4, <1>5, <1>6 DEF SweepStep

(* Submission and set_pending_cancelled move only jobs nobody claimed. *)
LEMMA UserKeeps ==
    ASSUME OwnInv, TypeOK', SweepHasJob', GateHolds', NEW j \in Jobs,
           Submission(j) \/ UserCancel(j) \/ SweepTick(j)
    PROVE  OwnInv'
<1>1. CASE SweepRequest(j) \/ SweepTick(j)
  <2>1. PICK a \in SweepActors : SweepRead(a, j) /\ UNCHANGED <<db, ctrl, daemon, snap>>
    BY <1>1 DEF SweepRequest, SweepTick, SweepActors
  <2> QED
    BY <2>1, SweepKeeps
<1>2. CASE \/ Submission(j)
           \/ CancelRequest(j) \/ SetPendingCancelled(j) \/ SweepSkip(j) \/ TouchSignal(j)
  <2>1. UNCHANGED <<owner, proc, mon, co, daemon, snap, sweep>>
    BY <1>2 DEF Submission, SetJobInfo, SetPending, SubmitJob, CancelRequest,
       SetPendingCancelled, SweepSkip, TouchSignal, db, ctrl, server
  <2>2. /\ \A k \in Jobs : k # j => sched'[k] = sched[k]
        /\ \/ sched'[j] = sched[j]
           \/ /\ sched[j] \in {"NONE", "INACTIVE", "WAITING"}
              /\ sched'[j] \in {"INACTIVE", "WAITING", "DONE"}
    BY <1>2 DEF Submission, SetJobInfo, SetPending, SubmitJob, CancelRequest,
       SetPendingCancelled, PendingCancellable, SweepSkip, TouchSignal, db, OwnInv, TypeOK
  <2>3. sched'[j] = sched[j] \/ \A p \in Procs : co[p][j].pc = "off" /\ mon[p].job # j
    BY <2>2, OwnInvFacts DEF NeedsRecovery
  <2>4. ClaimOrCoroutine' /\ OwnersWereBorn' /\ SnapNamesTheDead'
    BY <2>1 DEF OwnInv, ClaimOrCoroutine, OwnersWereBorn, SnapNamesTheDead
  <2>5. UnclaimedUnowned'
    BY <2>1, <2>2 DEF OwnInv, UnclaimedUnowned
  <2>6. SweepHoldsClaim'
    BY <2>1, <2>2 DEF OwnInv, SweepHasJob, SweepHoldsClaim, NeedsRecovery
  <2>7. \A p \in Procs, k \in Jobs :
           co'[p][k].pc # "off" \/ mon'[p].job = k =>
              proc'[p] = "alive" /\ owner'[k] = p /\ sched'[k] \in NeedsRecovery
    BY <2>1, <2>2, <2>3, OwnInvFacts
  <2>8. \A a \in SweepActors : sweep'[a].pc \in {"orphan", "failing", "done"} =>
           \A p \in Procs : co'[p][sweep'[a].job].pc = "off" /\ mon'[p].job # sweep'[a].job
    BY <2>1, OwnInvFacts
  <2> QED
    BY <2>4, <2>5, <2>6, <2>7, <2>8, OwnInvGoal
<1> QED
  BY <1>1, <1>2 DEF UserCancel

-----------------------------------------------------------------------------
(* OwnInv holds initially: there are no claims and no processes. *)
LEMMA OwnInvInit == Init /\ ~RecoveryFails => OwnInv
<1> SUFFICES ASSUME Init, ~RecoveryFails PROVE OwnInv
  OBVIOUS
<1>1. TypeOK /\ SweepHasJob
  BY TypeInit
<1>2. \A p \in Procs, j \in Jobs : co[p][j].pc = "off" /\ mon[p].job # j
  BY ConstantsAssumption DEF Init, Off
<1>3. OneController
  BY <1>2 DEF OneController, Holders
<1>4. SweepHitsOrphansOnly /\ SweepHoldsClaim
  BY DEF Init, IdleSweep, SweepHitsOrphansOnly, SweepHoldsClaim
<1>5. ClaimOrCoroutine /\ OwnersWereBorn /\ UnclaimedUnowned /\ SnapNamesTheDead
  BY <1>2, ConstantsAssumption
     DEF Init, ClaimOrCoroutine, OwnersWereBorn, UnclaimedUnowned, SnapNamesTheDead
<1>6. GateHolds
  BY DEF Init, GateHolds
<1> QED
  BY <1>1, <1>3, <1>4, <1>5, <1>6 DEF OwnInv

(* Every step preserves OwnInv. *)
LEMMA OwnInvNext == OwnInv /\ [Next]_vars => OwnInv'
<1> SUFFICES ASSUME OwnInv, [Next]_vars PROVE OwnInv'
  OBVIOUS
<1>1. TypeOK' /\ SweepHasJob' /\ GateHolds'
  BY OwnTypes
<1>2. ASSUME NEW j \in Jobs, Submission(j) \/ UserCancel(j) \/ SweepTick(j) PROVE OwnInv'
  BY <1>1, <1>2, UserKeeps
<1>3. ASSUME NEW a \in SweepActors, SweepStep(a) PROVE OwnInv'
  BY <1>1, <1>3, SweepKeeps
<1>4. CASE DaemonStep \/ RecoveryRaises \/ RestartServer
  BY <1>1, <1>4, DaemonKeeps
<1>5. ASSUME NEW p \in Procs, StartController(p) \/ CrashController(p) PROVE OwnInv'
  BY <1>1, <1>5, ProcessKeeps
<1>6. ASSUME NEW p \in Procs, NEW j \in Jobs, MonitorLoop(p, j) PROVE OwnInv'
  BY <1>1, <1>6, MonitorKeeps
<1>7. ASSUME NEW p \in Procs, NEW j \in Jobs,
             CancelJob(p, j) \/ RunStep(p, j) \/ Outcome(p, j)
      PROVE  OwnInv'
  <2>1. CoroutineFrame(p, j)
    BY <1>7, CoroutineFramed DEF OwnInv
  <2> QED
    BY <1>1, <2>1, CoroutineKeeps
<1>8. CASE \/ UNCHANGED vars
           \/ \E j \in Jobs, t \in Tasks : StrayProvisions(j, t) \/ StrayEnds(j, t)
  <2>1. UNCHANGED <<sched, owner, proc, mon, co, daemon, snap, sweep>>
    BY <1>8 DEF vars, db, ctrl, server, StrayProvisions, StrayEnds
  <2>2. ClaimOrCoroutine' /\ OwnersWereBorn' /\ UnclaimedUnowned' /\ SnapNamesTheDead'
        /\ SweepHoldsClaim'
    BY <2>1 DEF OwnInv, ClaimOrCoroutine, OwnersWereBorn, UnclaimedUnowned,
                SnapNamesTheDead, SweepHoldsClaim
  <2> QED
    BY <1>1, <2>1, <2>2, OwnInvFacts, OwnInvGoal
<1> QED
  BY <1>2, <1>3, <1>4, <1>5, <1>6, <1>7, <1>8 DEF Next

(* At most one live process works on a job, the one job_info names, for     *)
(* any number of jobs, controllers, crashes and server restarts: the claim  *)
(* of get_waiting_job_async, the liveness check of recovery and its         *)
(* compare-and-swap are enough, as long as recovery does not raise.         *)
THEOREM OneControllerHolds == Spec /\ ~RecoveryFails => []OneController
<1>1. OwnInv => OneController
  BY DEF OwnInv
<1> QED
  BY <1>1, OwnInvInit, OwnInvNext, PTL DEF Spec

(* update_managed_jobs_statuses tears down and fails only jobs that no live *)
(* controller works on, although it works on rows it read earlier, as long  *)
(* as recovery does not raise and take the signal file away too soon.       *)
THEOREM SweepHitsOrphansOnlyHolds == Spec /\ ~RecoveryFails => []SweepHitsOrphansOnly
<1>1. OwnInv => SweepHitsOrphansOnly
  BY DEF OwnInv
<1> QED
  BY <1>1, OwnInvInit, OwnInvNext, PTL DEF Spec
=============================================================================
