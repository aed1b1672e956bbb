------------------------- MODULE SkyletJobsProofs --------------------------
(***************************************************************************)
(* Proofs about SkyletJobs for every number of jobs, processes and faults. *)
(***************************************************************************)
EXTENDS SkyletJobs, TLAPS

(***************************************************************************)
(* The job a process works for, and the status its program has written     *)
(* last.  A claimant does not work yet, and a program in its epilogue has  *)
(* given the job's resources back.                                         *)
(***************************************************************************)
Working(p) == proc[p].pc \in {"claimed", "started", "waiting", "setup", "running"}

Wrote(p) ==
    CASE proc[p].pc = "setup" -> "SETTING_UP"
      [] proc[p].pc = "running" -> "RUNNING"
      [] OTHER -> "PENDING"

(* A job locked by a schedule_step is between the two halves of _run_job:   *)
(* one scheduler has it, and its row is still queued.                       *)
LockedOnce ==
    \A a, b \in Actors : step[a].job # NoJob /\ step[a].job = step[b].job => a = b
LockedIsQueued ==
    \A a \in Actors : step[a].job # NoJob => submit[step[a].job] = "queued"

(* A reservation that was never queued has left no trace. *)
FreshIsClean ==
    \A j \in Jobs : status[j] \in {"none", "INIT"} =>
        pid[j] = NoProc /\ submit[j] = "none" /\ ran[j] = 0

(* A living process belongs to a job of this boot. *)
AliveIsRecent ==
    \A p \in Procs : Alive(p) =>
        /\ proc[p].job \in Jobs
        /\ ~old[proc[p].job]
        /\ status[proc[p].job] \notin {"none", "INIT"}

(* A process at work is the one the row names, nobody else may be launched  *)
(* for its job, and the row has the status it wrote.                        *)
WorkIsRecorded ==
    \A p \in Procs : Working(p) =>
        /\ pid[proc[p].job] = p
        /\ status[proc[p].job] = Wrote(p)
        /\ submit[proc[p].job] \notin {"queued", "launched"}
        /\ proc[p].pc = "claimed" => submit[proc[p].job] = "claimed"

(* A program that was started once is not started again: the row keeps its  *)
(* pid and is past the claim.                                               *)
RanIsPastClaim ==
    \A j \in Jobs : ran[j] # 0 =>
        ran[j] = 1 /\ pid[j] # NoProc /\ submit[j] \in {"none", "started"}

(* Between a stop of the machine and fail_all_jobs_in_progress nothing      *)
(* lives and every row is from before.                                      *)
RestartIsQuiet ==
    boot = "restarting" =>
        /\ \A p \in Procs : ~Alive(p)
        /\ \A a \in Actors : step[a].job = NoJob
        /\ \A j \in Jobs : status[j] # "none" => old[j]

SkyletInv ==
    /\ TypeOK
    /\ LockedOnce
    /\ LockedIsQueued
    /\ FreshIsClean
    /\ AliveIsRecent
    /\ WorkIsRecorded
    /\ RanIsPastClaim
    /\ RestartIsQuiet

StepType == [todo : SUBSET Jobs, job : Jobs \cup {NoJob}, child : Procs \cup {NoProc}]
ProcType == [job : Jobs \cup {NoJob}, pc : Places]

(* Where the processes and the schedulers of the cluster are. *)
LEMMA ActorFacts ==
    /\ Procs \subseteq Actors
    /\ Skylet \in Actors /\ Request \in Actors
    /\ NoJob \notin Jobs /\ NoProc \notin Actors
    /\ Idle \in StepType
    /\ Idle.job = NoJob /\ Idle.todo = {}
BY SkyletAssumption DEF Procs, Actors, Jobs, Skylet, Request, NoJob, NoProc, Idle, StepType

(* The empty tables have their types. *)
LEMMA TypeInit == Init => TypeOK
<1> SUFFICES ASSUME Init PROVE TypeOK
  OBVIOUS
<1>1. /\ proc \in [Procs -> ProcType]
      /\ step \in [Actors -> StepType]
  BY ActorFacts DEF Init, ProcType, Places
<1>2. faults \in 0 .. MaxFaults
  BY SkyletAssumption DEF Init
<1> QED
  BY <1>1, <1>2 DEF Init, TypeOK, StepType, ProcType, Nonterminal, Terminal, NoProc

(* A schedule_step begins with a list of jobs and no lock. *)
LEMMA BeginType ==
    ASSUME TypeOK, NEW a \in Actors, NEW table, Begin(a, table)
    PROVE  /\ step' \in [Actors -> StepType]
           /\ \A b \in Actors : step'[b].job = step[b].job
BY DEF TypeOK, Begin, StepType

(* A process moves to a place. *)
LEMMA GotoType ==
    ASSUME TypeOK, NEW p \in Procs, NEW place \in Places, Goto(p, place)
    PROVE  /\ proc' \in [Procs -> ProcType]
           /\ \A q \in Procs : proc'[q].job = proc[q].job
           /\ \A q \in Procs : proc'[q].pc = IF q = p THEN place ELSE proc[q].pc
BY DEF TypeOK, Goto, ProcType

(* _set_status_no_lock writes the status of one job. *)
LEMMA SetStatusType ==
    ASSUME TypeOK, NEW j \in Jobs, NEW st \in Nonterminal \cup Terminal
    PROVE  /\ SetStatus(j, st) \in [Jobs -> Nonterminal \cup Terminal \cup {"none"}]
           /\ \A k \in Jobs : k # j => SetStatus(j, st)[k] = status[k]
           /\ SetStatus(j, st)[j] \in {st, status[j]}
           /\ status[j] \notin Terminal => SetStatus(j, st)[j] = st
           /\ st # "FAILED_SETUP" => SetStatus(j, st)[j] = st
BY DEF TypeOK, SetStatus

(* max() over JobStatus, on the statuses update_job_status compares. *)
LEMMA LaterFacts ==
    ASSUME NEW a \in {"PENDING", "SETTING_UP", "RUNNING"}
    PROVE  Later(a, "PENDING") = a /\ Later(a, "FAILED_DRIVER") = "FAILED_DRIVER"
<1> DEFINE R(s) == CHOOSE i \in DOMAIN Order : Order[i] = s
<1>1. DOMAIN Order = 1 .. 9
  BY DEF Order
<1>2. /\ Order[1] = "INIT" /\ Order[2] = "PENDING" /\ Order[3] = "SETTING_UP"
      /\ Order[4] = "RUNNING" /\ Order[5] = "FAILED_DRIVER" /\ Order[6] = "SUCCEEDED"
      /\ Order[7] = "FAILED" /\ Order[8] = "FAILED_SETUP" /\ Order[9] = "CANCELLED"
  BY DEF Order
<1>3. \A i \in 1 .. 9 : i \in {1, 2, 3, 4, 5, 6, 7, 8, 9}
  OBVIOUS
<1>4. ASSUME NEW s, NEW n \in 1 .. 9, Order[n] = s, \A i \in 1 .. 9 : Order[i] = s => i = n
      PROVE  R(s) = n
  <2>1. \E i \in DOMAIN Order : Order[i] = s
    BY <1>1, <1>4
  <2>2. R(s) \in DOMAIN Order /\ Order[R(s)] = s
    BY <2>1
  <2> QED
    BY <1>1, <1>4, <2>2
<1>5. R("PENDING") = 2
  BY <1>2, <1>3, <1>4
<1>6. R("SETTING_UP") = 3
  BY <1>2, <1>3, <1>4
<1>7. R("RUNNING") = 4
  BY <1>2, <1>3, <1>4
<1>8. R("FAILED_DRIVER") = 5
  BY <1>2, <1>3, <1>4
<1>9. \A x, y : Later(x, y) = IF R(x) < R(y) THEN y ELSE x
  BY DEF Later
<1> HIDE DEF R
<1> QED
  BY <1>5, <1>6, <1>7, <1>8, <1>9

(* Locks are only released, and a row under a lock stays queued. *)
LEMMA LocksKept ==
    ASSUME SkyletInv, TypeOK',
           \A a \in Actors : step'[a].job \in {NoJob, step[a].job},
           \A j \in Jobs : submit'[j] # submit[j] => Free(j)
    PROVE  LockedOnce' /\ LockedIsQueued'
<1>1. LockedOnce'
  BY DEF SkyletInv, LockedOnce
<1>2. ASSUME NEW a \in Actors, step'[a].job # NoJob PROVE submit'[step'[a].job] = "queued"
  <2>1. step'[a].job = step[a].job /\ step[a].job \in Jobs
    BY <1>2 DEF SkyletInv, TypeOK
  <2>2. ~Free(step[a].job)
    BY DEF Free
  <2> QED
    BY <1>2, <2>1, <2>2 DEF SkyletInv, LockedIsQueued
<1> QED
  BY <1>1, <1>2 DEF LockedIsQueued

(* Nothing that the invariants say of the rows and processes is touched by  *)
(* a step that only moves schedulers, or by one in which processes die.     *)
LEMMA QuietStep ==
    ASSUME SkyletInv, TypeOK',
           \A a \in Actors : step'[a].job \in {NoJob, step[a].job},
           \A p \in Procs : \/ proc'[p] = proc[p]
                            \/ proc'[p].pc = "dead",
           UNCHANGED <<rows, boot, ran>>
    PROVE  SkyletInv'
<1> USE DEF SkyletInv
<1>0. /\ status' = status /\ pid' = pid /\ submit' = submit /\ old' = old
      /\ boot' = boot /\ ran' = ran
  BY DEF rows
<1>1. LockedOnce' /\ LockedIsQueued'
  BY <1>0, LocksKept
<1>2. FreshIsClean'
  BY <1>0 DEF FreshIsClean
<1>3. AliveIsRecent'
  BY <1>0 DEF AliveIsRecent, Alive
<1>4. WorkIsRecorded'
  BY <1>0 DEF WorkIsRecorded, Working, Wrote
<1>5. RanIsPastClaim'
  BY <1>0 DEF RanIsPastClaim
<1>6. RestartIsQuiet'
  BY <1>0 DEF RestartIsQuiet, Alive
<1> QED
  BY <1>1, <1>2, <1>3, <1>4, <1>5, <1>6

(* The skylet starts a schedule_step, a scheduler finds the queue held, and *)
(* schedulers and programs end or die.                                      *)
LEMMA SchedulerMoves ==
    ASSUME SkyletInv,
           \/ Tick
           \/ \E a \in Actors, j \in Jobs : HoldQueue(a, j)
           \/ \E a \in {Skylet, Request} : SchedulerDies(a)
           \/ \E p \in Procs : Exit(p) \/ Stops(p) \/ DriverDies(p)
    PROVE  SkyletInv'
<1> USE ActorFacts
<1>1. CASE Tick
  <2>1. /\ step' \in [Actors -> StepType]
        /\ \A b \in Actors : step'[b].job = step[b].job
    BY <1>1, BeginType DEF Tick, SkyletInv
  <2>2. TypeOK'
    BY <1>1, <2>1 DEF Tick, SkyletInv, TypeOK, StepType, rows
  <2> QED
    BY <1>1, <2>1, <2>2, QuietStep DEF Tick
<1>2. ASSUME NEW a \in Actors, NEW j \in Jobs, HoldQueue(a, j) PROVE SkyletInv'
  <2>1. /\ step' \in [Actors -> StepType]
        /\ \A b \in Actors : step'[b].job \in {NoJob, step[b].job}
    BY <1>2 DEF HoldQueue, SkyletInv, TypeOK, StepType
  <2>2. TypeOK'
    BY <1>2, <2>1 DEF HoldQueue, SkyletInv, TypeOK, StepType, rows
  <2> QED
    BY <1>2, <2>1, <2>2, QuietStep DEF HoldQueue
<1>3. ASSUME NEW a \in {Skylet, Request}, SchedulerDies(a) PROVE SkyletInv'
  <2>1. /\ step' \in [Actors -> StepType]
        /\ \A b \in Actors : step'[b].job \in {NoJob, step[b].job}
    BY <1>3 DEF SchedulerDies, SkyletInv, TypeOK, StepType
  <2>2. faults' \in 0 .. MaxFaults
    BY <1>3, SkyletAssumption DEF SchedulerDies, Spend, SkyletInv, TypeOK
  <2>3. TypeOK'
    BY <1>3, <2>1, <2>2 DEF SchedulerDies, SkyletInv, TypeOK, StepType, rows
  <2> QED
    BY <1>3, <2>1, <2>3, QuietStep DEF SchedulerDies
<1>4. ASSUME NEW p \in Procs, Exit(p) PROVE SkyletInv'
  <2>1. /\ proc' \in [Procs -> ProcType]
        /\ \A q \in Procs : proc'[q] = proc[q] \/ proc'[q].pc = "dead"
    <3>1. Goto(p, "dead") /\ "dead" \in Places
      BY <1>4 DEF Exit, Places
    <3> QED
      BY <3>1 DEF Goto, SkyletInv, TypeOK, ProcType
  <2>2. TypeOK'
    BY <1>4, <2>1 DEF Exit, SkyletInv, TypeOK, ProcType, rows
  <2> QED
    BY <1>4, <2>1, <2>2, QuietStep DEF Exit
<1>5. ASSUME NEW p \in Procs, DriverDies(p) PROVE SkyletInv'
  <2>1. /\ proc' \in [Procs -> ProcType]
        /\ \A q \in Procs : proc'[q] = proc[q] \/ proc'[q].pc = "dead"
    BY <1>5 DEF DriverDies, Goto, SkyletInv, TypeOK, ProcType, Places
  <2>2. /\ step' \in [Actors -> StepType]
        /\ \A b \in Actors : step'[b].job \in {NoJob, step[b].job}
    BY <1>5 DEF DriverDies, SkyletInv, TypeOK, StepType
  <2>3. faults' \in 0 .. MaxFaults
    BY <1>5, SkyletAssumption DEF DriverDies, Spend, SkyletInv, TypeOK
  <2>4. TypeOK'
    BY <1>5, <2>1, <2>2, <2>3 DEF DriverDies, SkyletInv, TypeOK, ProcType, StepType, rows
  <2> QED
    BY <1>5, <2>1, <2>2, <2>4, QuietStep DEF DriverDies
<1>6. ASSUME NEW p \in Procs, Stops(p) PROVE SkyletInv'
  <2>1. /\ proc' \in [Procs -> ProcType]
        /\ \A q \in Procs : proc'[q] = proc[q] \/ proc'[q].pc = "dead"
    BY <1>6 DEF Stops, Goto, SkyletInv, TypeOK, ProcType, Places
  <2>2. /\ step' \in [Actors -> StepType]
        /\ \A b \in Actors : step'[b].job \in {NoJob, step[b].job}
    BY <1>6 DEF Stops, SkyletInv, TypeOK, StepType
  <2>3. TypeOK'
    BY <1>6, <2>1, <2>2 DEF Stops, SkyletInv, TypeOK, ProcType, StepType, rows
  <2> QED
    BY <1>6, <2>1, <2>2, <2>3, QuietStep DEF Stops
<1> QED
  BY <1>1, <1>2, <1>3, <1>4, <1>5, <1>6

-----------------------------------------------------------------------------
(* Steps of schedule_step that change rows.                                *)

(* A row that is dropped is not the row of a program at work. *)
LEMMA PassOverKeeps ==
    ASSUME SkyletInv, NEW a \in Actors, NEW j \in Jobs, PassOver(a, j)
    PROVE  SkyletInv'
<1> USE DEF SkyletInv
<1>0. /\ status' = status /\ pid' = pid /\ old' = old /\ proc' = proc /\ boot' = boot
      /\ faults' = faults /\ ran' = ran
      /\ submit' = [submit EXCEPT ![j] = "none"]
      /\ Free(j)
      /\ submit[j] = "none" \/ status[j] # "PENDING" \/ old[j]
  BY DEF PassOver, Looks
<1>1. /\ step' \in [Actors -> StepType]
      /\ \A b \in Actors : step'[b].job = step[b].job
  BY DEF PassOver, TypeOK, StepType
<1>2. TypeOK'
  BY <1>0, <1>1 DEF TypeOK, StepType
<1>3. LockedOnce' /\ LockedIsQueued'
  BY <1>0, <1>1, <1>2, LocksKept DEF TypeOK
<1>4. FreshIsClean' /\ RanIsPastClaim'
  BY <1>0 DEF FreshIsClean, RanIsPastClaim, TypeOK
<1>5. AliveIsRecent' /\ RestartIsQuiet'
  BY <1>0, <1>1 DEF AliveIsRecent, RestartIsQuiet, Alive
<1>6. ASSUME NEW p \in Procs, Working(p)
      PROVE  /\ pid[proc[p].job] = p
             /\ status[proc[p].job] = Wrote(p)
             /\ submit'[proc[p].job] \notin {"queued", "launched"}
             /\ proc[p].pc = "claimed" => submit'[proc[p].job] = "claimed"
  <2>1. Alive(p) /\ ~old[proc[p].job] /\ proc[p].job \in Jobs
    BY <1>6 DEF AliveIsRecent, Alive, Working
  <2>2. proc[p].pc = "claimed" => status[proc[p].job] = "PENDING"
    BY <1>6 DEF WorkIsRecorded, Wrote
  <2> QED
    BY <1>0, <1>6, <2>1, <2>2 DEF WorkIsRecorded, TypeOK
<1>7. WorkIsRecorded'
  BY <1>0, <1>6 DEF WorkIsRecorded, Working, Wrote
<1> QED
  BY <1>2, <1>3, <1>4, <1>5, <1>7

(* The first half of _run_job takes the lock of a job nobody works for. *)
LEMMA LaunchKeeps ==
    ASSUME SkyletInv, NEW a \in Actors, NEW j \in Jobs, NEW p \in Procs, Launch(a, j, p)
    PROVE  SkyletInv'
<1> USE DEF SkyletInv
<1>0. /\ status' = status /\ old' = old /\ boot' = boot /\ faults' = faults /\ ran' = ran
      /\ proc' = [proc EXCEPT ![p] = [job |-> j, pc |-> "claiming"]]
      /\ step' = [step EXCEPT ![a] = [todo |-> {}, job |-> j, child |-> p]]
      /\ Free(j) /\ status[j] = "PENDING" /\ ~old[j]
      /\ submit[j] \in {"queued", "launched", "claimed"}
      /\ proc[p].pc = "unborn"
  BY DEF Launch, Looks, Waits, Launchable, NextPid
<1>1. /\ submit' = [submit EXCEPT ![j] = "queued"]
      /\ pid' \in [Jobs -> Procs \cup {NoProc}]
      /\ \A k \in Jobs : k # j => pid'[k] = pid[k]
  BY <1>0 DEF Launch, TypeOK
<1>2. submit[j] = "queued" \/ ~Alive(pid[j])
  BY DEF Launch, Launchable
<1>3. /\ step' \in [Actors -> StepType]
      /\ \A b \in Actors : step'[b].job = IF b = a THEN j ELSE step[b].job
  BY <1>0 DEF TypeOK, StepType
<1>4. /\ proc' \in [Procs -> ProcType]
      /\ \A q \in Procs : q # p => proc'[q] = proc[q]
      /\ proc'[p].job = j /\ proc'[p].pc = "claiming"
  BY <1>0 DEF TypeOK, ProcType, Places
<1>5. TypeOK'
  BY <1>0, <1>1, <1>3, <1>4 DEF TypeOK, StepType, ProcType
<1>6. LockedOnce'
  BY <1>0, <1>3 DEF LockedOnce, Free
<1>7. LockedIsQueued'
  BY <1>0, <1>1, <1>3 DEF LockedIsQueued, Free, TypeOK
<1>8. ran[j] = 0
  BY <1>0, <1>2 DEF RanIsPastClaim, TypeOK
<1>9. FreshIsClean' /\ RanIsPastClaim'
  BY <1>0, <1>1, <1>8 DEF FreshIsClean, RanIsPastClaim, TypeOK
<1>10. AliveIsRecent'
  BY <1>0, <1>4 DEF AliveIsRecent, Alive
<1>11. ASSUME NEW q \in Procs, Working(q) PROVE proc[q].job # j
  BY <1>2, <1>11 DEF WorkIsRecorded, Working, Alive
<1>12. WorkIsRecorded'
  <2> SUFFICES ASSUME NEW q \in Procs, Working(q)'
               PROVE  /\ pid'[proc'[q].job] = q
                      /\ status'[proc'[q].job] = Wrote(q)'
                      /\ submit'[proc'[q].job] \notin {"queued", "launched"}
                      /\ proc'[q].pc = "claimed" => submit'[proc'[q].job] = "claimed"
    BY DEF WorkIsRecorded
  <2>1. q # p /\ proc'[q] = proc[q] /\ Working(q)
    BY <1>4 DEF Working
  <2>2. proc[q].job \in Jobs /\ proc[q].job # j
    BY <1>11, <2>1 DEF AliveIsRecent, Alive, Working
  <2>3. Wrote(q)' = Wrote(q)
    BY <2>1 DEF Wrote
  <2> QED
    BY <1>0, <1>1, <2>1, <2>2, <2>3 DEF WorkIsRecorded, TypeOK
<1>13. RestartIsQuiet'
  BY <1>0 DEF RestartIsQuiet
<1> QED
  BY <1>5, <1>6, <1>7, <1>9, <1>10, <1>12, <1>13

(* The second half writes a row that nobody else wrote meanwhile. *)
LEMMA LaunchedKeeps ==
    ASSUME SkyletInv, NEW a \in Actors, Launched(a)
    PROVE  SkyletInv'
<1> USE DEF SkyletInv
<1> DEFINE j == step[a].job
<1>0. /\ status' = status /\ old' = old /\ boot' = boot /\ faults' = faults /\ ran' = ran
      /\ proc' = proc
      /\ submit' = [submit EXCEPT ![j] = "launched"]
      /\ pid' = [pid EXCEPT ![j] = step[a].child]
      /\ step' = [step EXCEPT ![a] = Idle]
      /\ j # NoJob
  BY DEF Launched
<1>1. j \in Jobs /\ submit[j] = "queued" /\ step[a].child \in Procs \cup {NoProc}
  BY <1>0 DEF LockedIsQueued, TypeOK, StepType
<1>2. /\ step' \in [Actors -> StepType]
      /\ \A b \in Actors : step'[b].job = IF b = a THEN NoJob ELSE step[b].job
  BY <1>0, ActorFacts DEF TypeOK, StepType
<1>3. \A b \in Actors : b # a => step[b].job # j
  BY <1>0 DEF LockedOnce
<1> HIDE DEF j
<1>4. TypeOK'
  BY <1>0, <1>1, <1>2 DEF TypeOK, StepType
<1>5. LockedOnce'
  BY <1>2 DEF LockedOnce
<1>6. LockedIsQueued'
  BY <1>0, <1>1, <1>2, <1>3 DEF LockedIsQueued, TypeOK
<1>7. ran[j] = 0 /\ status[j] \notin {"none", "INIT"}
  BY <1>1 DEF RanIsPastClaim, FreshIsClean
<1>8. FreshIsClean' /\ RanIsPastClaim'
  BY <1>0, <1>1, <1>7 DEF FreshIsClean, RanIsPastClaim, TypeOK
<1>9. AliveIsRecent'
  BY <1>0 DEF AliveIsRecent, Alive
<1>10. RestartIsQuiet'
  BY <1>0, <1>2 DEF RestartIsQuiet, Alive
<1>11. \A q \in Procs : Working(q) => proc[q].job # j /\ proc[q].job \in Jobs
  BY <1>1 DEF WorkIsRecorded, AliveIsRecent, Alive, Working
<1>12. WorkIsRecorded'
  BY <1>0, <1>1, <1>11 DEF WorkIsRecorded, Working, Wrote, TypeOK
<1> QED
  BY <1>4, <1>5, <1>6, <1>8, <1>9, <1>10, <1>12

-----------------------------------------------------------------------------
(* Requests, and update_job_status.                                        *)

(* The process at work for a job, if there is one, lives and is named. *)
LEMMA WorkerFacts ==
    ASSUME SkyletInv, NEW p \in Procs, Working(p)
    PROVE  /\ proc[p].job \in Jobs
           /\ Alive(p)
           /\ pid[proc[p].job] = p
           /\ ~old[proc[p].job]
           /\ status[proc[p].job] = Wrote(p)
           /\ Wrote(p) \in {"PENDING", "SETTING_UP", "RUNNING"}
           /\ boot = "up"
<1>1. Alive(p)
  BY DEF Working, Alive
<1>2. Wrote(p) \in {"PENDING", "SETTING_UP", "RUNNING"}
  BY DEF Wrote
<1> QED
  BY <1>1, <1>2 DEF SkyletInv, AliveIsRecent, WorkIsRecorded, RestartIsQuiet, TypeOK

(* A new reservation is clean. *)
LEMMA AddJobKeeps ==
    ASSUME SkyletInv, NEW j \in Jobs, AddJob(j)
    PROVE  SkyletInv'
<1> USE DEF SkyletInv
<1>0. /\ pid' = pid /\ submit' = submit /\ old' = old /\ proc' = proc /\ step' = step
      /\ boot' = boot /\ faults' = faults /\ ran' = ran
      /\ boot = "up" /\ status[j] = "none"
      /\ status' = [status EXCEPT ![j] = "INIT"]
  BY DEF AddJob
<1>1. TypeOK'
  BY <1>0 DEF TypeOK, Nonterminal
<1>2. LockedOnce' /\ LockedIsQueued'
  BY <1>0 DEF LockedOnce, LockedIsQueued
<1>3. FreshIsClean' /\ RanIsPastClaim'
  BY <1>0 DEF FreshIsClean, RanIsPastClaim, TypeOK
<1>4. AliveIsRecent'
  BY <1>0 DEF AliveIsRecent, Alive, TypeOK
<1>5. WorkIsRecorded'
  <2>1. \A p \in Procs : Working(p) => proc[p].job # j /\ proc[p].job \in Jobs
    BY <1>0, WorkerFacts
  <2> QED
    BY <1>0, <2>1 DEF WorkIsRecorded, Working, Wrote, TypeOK
<1>6. RestartIsQuiet'
  BY <1>0 DEF RestartIsQuiet
<1> QED
  BY <1>1, <1>2, <1>3, <1>4, <1>5, <1>6

(* A step that writes one job's status keeps the invariant when the job has *)
(* no process at work. *)
LEMMA StatusStep ==
    ASSUME SkyletInv, NEW j \in Jobs, NEW st \in Nonterminal \cup Terminal,
           st # "INIT", status[j] # "none",
           \/ st = status[j]
           \/ \A p \in Procs : Working(p) => proc[p].job # j,
           status' = [status EXCEPT ![j] = st],
           UNCHANGED <<pid, submit, old, proc, step, boot, faults, ran>>
    PROVE  SkyletInv'
<1> USE DEF SkyletInv
<1>0. /\ pid' = pid /\ submit' = submit /\ old' = old /\ proc' = proc /\ step' = step
      /\ boot' = boot /\ faults' = faults /\ ran' = ran
      /\ st \notin {"none", "INIT"}
      /\ status' \in [Jobs -> Nonterminal \cup Terminal \cup {"none"}]
      /\ \A k \in Jobs : status'[k] = IF k = j THEN st ELSE status[k]
  BY DEF TypeOK, Nonterminal, Terminal
<1>1. TypeOK'
  BY <1>0 DEF TypeOK
<1>2. LockedOnce' /\ LockedIsQueued'
  BY <1>0 DEF LockedOnce, LockedIsQueued
<1>3. FreshIsClean' /\ RanIsPastClaim'
  BY <1>0 DEF FreshIsClean, RanIsPastClaim
<1>4. AliveIsRecent'
  BY <1>0 DEF AliveIsRecent, Alive
<1>5. WorkIsRecorded'
  <2>1. \A p \in Procs : Working(p) => proc[p].job \in Jobs
    BY WorkerFacts
  <2> QED
    BY <1>0, <2>1 DEF WorkIsRecorded, Working, Wrote
<1>6. RestartIsQuiet'
  BY <1>0 DEF RestartIsQuiet, Alive
<1> QED
  BY <1>1, <1>2, <1>3, <1>4, <1>5, <1>6

(* update_job_status leaves the status of a job whose driver works. *)
LEMMA UpdateJobStatusKeeps ==
    ASSUME SkyletInv, NEW j \in Jobs, UpdateJobStatus(j)
    PROVE  SkyletInv'
<1>0. /\ status[j] \in {"PENDING", "SETTING_UP", "RUNNING"}
      /\ status' = [status EXCEPT ![j] = Later(status[j], Settled(j))]
      /\ UNCHANGED <<pid, submit, old, proc, step, boot, faults, ran>>
  BY DEF UpdateJobStatus, Nonterminal
<1>1. CASE \E p \in Procs : Working(p) /\ proc[p].job = j
  <2>1. Alive(pid[j]) /\ ~old[j] /\ pid[j] # NoProc
    BY <1>1, WorkerFacts, ActorFacts
  <2>2. Settled(j) = "PENDING"
    BY <2>1 DEF Settled
  <2>3. Later(status[j], Settled(j)) = status[j]
    BY <1>0, <2>2, LaterFacts
  <2> QED
    BY <1>0, <2>3, StatusStep DEF Nonterminal
<1>2. CASE \A p \in Procs : Working(p) => proc[p].job # j
  <2>1. Settled(j) \in {"PENDING", "FAILED_DRIVER"}
    BY DEF Settled
  <2>2. Later(status[j], Settled(j)) \in {status[j], "FAILED_DRIVER"}
    BY <1>0, <2>1, LaterFacts
  <2> QED
    BY <1>0, <1>2, <2>2, StatusStep DEF Nonterminal, Terminal
<1> QED
  BY <1>1, <1>2

(* An expired reservation has no driver. *)
LEMMA ExpireInitKeeps ==
    ASSUME SkyletInv, NEW j \in Jobs, ExpireInit(j)
    PROVE  SkyletInv'
<1>1. /\ status[j] = "INIT"
      /\ status' = [status EXCEPT ![j] = "FAILED_DRIVER"]
      /\ UNCHANGED <<pid, submit, old, proc, step, boot, faults, ran>>
  BY DEF ExpireInit, SetStatus
<1>2. \A p \in Procs : Working(p) => proc[p].job # j
  BY <1>1, WorkerFacts
<1> QED
  BY <1>1, <1>2, StatusStep DEF Terminal

(* QueueJob queues a job that was never launched, and repeated does nothing. *)
LEMMA QueueJobKeeps ==
    ASSUME SkyletInv, NEW j \in Jobs, QueueJob(j)
    PROVE  SkyletInv'
<1> USE DEF SkyletInv
<1>0. /\ pid' = pid /\ proc' = proc /\ boot' = boot /\ faults' = faults /\ ran' = ran
      /\ boot = "up" /\ Free(j)
  BY DEF QueueJob
<1>1. /\ step' \in [Actors -> StepType]
      /\ \A b \in Actors : step'[b].job = step[b].job
  BY BeginType, ActorFacts DEF QueueJob
<1>2. CASE status[j] = "PENDING"
  <2>1. UNCHANGED <<submit, old, status>>
    BY <1>2 DEF QueueJob, Revivable
  <2>2. TypeOK'
    BY <1>0, <1>1, <2>1 DEF TypeOK, StepType
  <2> QED
    BY <1>0, <1>1, <2>1, <2>2, QuietStep DEF rows
<1>3. CASE status[j] # "PENDING"
  <2>1. /\ status[j] = "INIT" \/ Revivable(j)
        /\ submit' = [submit EXCEPT ![j] = IF @ = "none" THEN "queued" ELSE @]
        /\ old' = [old EXCEPT ![j] = FALSE]
        /\ status' = [status EXCEPT ![j] = "PENDING"]
    BY <1>3 DEF QueueJob, SetStatus
  <2>2. pid[j] = NoProc /\ submit[j] = "none" /\ status[j] \in {"INIT", "FAILED_DRIVER"}
    BY <2>1 DEF Revivable, FreshIsClean
  <2>3. ran[j] = 0
    BY <2>2 DEF RanIsPastClaim
  <2>4. /\ submit' = [submit EXCEPT ![j] = "queued"]
        /\ TypeOK'
    BY <1>0, <1>1, <2>1, <2>2 DEF TypeOK, StepType, Nonterminal
  <2>5. LockedOnce' /\ LockedIsQueued'
    BY <1>0, <1>1, <2>4, LocksKept DEF TypeOK
  <2>6. FreshIsClean' /\ RanIsPastClaim'
    BY <1>0, <2>1, <2>3, <2>4 DEF FreshIsClean, RanIsPastClaim, TypeOK
  <2>7. AliveIsRecent'
    BY <1>0, <2>1 DEF AliveIsRecent, Alive, TypeOK
  <2>8. \A p \in Procs : Working(p) => proc[p].job # j /\ proc[p].job \in Jobs
    BY <2>2, WorkerFacts, ActorFacts
  <2>9. WorkIsRecorded'
    BY <1>0, <2>1, <2>4, <2>8 DEF WorkIsRecorded, Working, Wrote, TypeOK
  <2>10. RestartIsQuiet'
    BY <1>0 DEF RestartIsQuiet
  <2> QED
    BY <2>4, <2>5, <2>6, <2>7, <2>9, <2>10
<1> QED
  BY <1>2, <1>3

(* cancel_jobs signals the process the row names, which is the one at work. *)
LEMMA CancelJobKeeps ==
    ASSUME SkyletInv, NEW j \in Jobs, CancelJob(j)
    PROVE  SkyletInv'
<1> USE DEF SkyletInv
<1>0. /\ pid' = pid /\ submit' = submit /\ old' = old /\ boot' = boot /\ faults' = faults
      /\ ran' = ran /\ boot = "up" /\ status[j] # "none"
  BY DEF CancelJob
<1>1. /\ status' \in [Jobs -> Nonterminal \cup Terminal \cup {"none"}]
      /\ \A k \in Jobs : k # j => status'[k] = status[k]
      /\ status'[j] \notin {"none", "INIT"}
  BY <1>0 DEF CancelJob, SetStatus, TypeOK, Nonterminal, Terminal
<1>2. /\ proc' \in [Procs -> ProcType]
      /\ \A q \in Procs : proc'[q].job = proc[q].job
      /\ \A q \in Procs : proc'[q] = proc[q] \/ (Alive(q) /\ proc'[q].pc = "stopping")
      /\ \A q \in Procs : q = pid[j] /\ Alive(q) => proc'[q].pc = "stopping"
  <2>1. CASE Alive(pid[j])
    <3>1. proc' = [proc EXCEPT ![pid[j]].pc = "stopping"] /\ pid[j] \in Procs
      BY <2>1 DEF CancelJob, Signalled, Alive
    <3> QED
      BY <2>1, <3>1 DEF TypeOK, ProcType, Places
  <2>2. CASE ~Alive(pid[j])
    BY <2>2 DEF CancelJob, TypeOK, ProcType
  <2> QED
    BY <2>1, <2>2
<1>3. /\ step' \in [Actors -> StepType]
      /\ \A b \in Actors : step'[b].job \in {NoJob, step[b].job}
  BY BeginType, ActorFacts DEF CancelJob
<1>4. TypeOK'
  BY <1>0, <1>1, <1>2, <1>3 DEF TypeOK, ProcType, StepType
<1>5. LockedOnce' /\ LockedIsQueued'
  BY <1>0, <1>3, <1>4, LocksKept
<1>6. FreshIsClean' /\ RanIsPastClaim'
  BY <1>0, <1>1 DEF FreshIsClean, RanIsPastClaim
<1>7. AliveIsRecent'
  BY <1>0, <1>1, <1>2 DEF AliveIsRecent, Alive
<1>8. WorkIsRecorded'
  <2> SUFFICES ASSUME NEW q \in Procs, Working(q)'
               PROVE  /\ pid'[proc'[q].job] = q
                      /\ status'[proc'[q].job] = Wrote(q)'
                      /\ submit'[proc'[q].job] \notin {"queued", "launched"}
                      /\ proc'[q].pc = "claimed" => submit'[proc'[q].job] = "claimed"
    BY DEF WorkIsRecorded
  <2>1. proc'[q] = proc[q] /\ Working(q) /\ Wrote(q)' = Wrote(q)
    BY <1>2 DEF Working, Wrote
  <2>2. Alive(q) /\ proc[q].job \in Jobs /\ pid[proc[q].job] = q
    BY <2>1, WorkerFacts
  <2>3. proc[q].job # j
    BY <1>2, <2>1, <2>2 DEF Working
  <2> QED
    BY <1>0, <1>1, <2>1, <2>2, <2>3 DEF WorkIsRecorded
<1>9. RestartIsQuiet'
  BY <1>0 DEF RestartIsQuiet
<1> QED
  BY <1>4, <1>5, <1>6, <1>7, <1>8, <1>9

-----------------------------------------------------------------------------
(* The claimant and the driver program.                                    *)

(* The first claimant that finds the row launched has the job to itself. *)
LEMMA ClaimJobKeeps ==
    ASSUME SkyletInv, NEW p \in Procs, ClaimJob(p)
    PROVE  SkyletInv'
<1> USE DEF SkyletInv
<1> DEFINE j == proc[p].job
<1>0. /\ status' = status /\ old' = old /\ step' = step /\ boot' = boot
      /\ faults' = faults /\ ran' = ran
      /\ Free(j) /\ proc[p].pc = "claiming"
  BY DEF ClaimJob, At
<1>1. Alive(p) /\ j \in Jobs /\ ~old[j] /\ boot = "up"
  BY <1>0 DEF AliveIsRecent, Alive, RestartIsQuiet, TypeOK
<1>2. CASE submit[j] = "launched" /\ status[j] = "PENDING"
  <2>1. /\ submit' = [submit EXCEPT ![j] = "claimed"]
        /\ pid' = [pid EXCEPT ![j] = p]
        /\ Goto(p, "claimed") /\ "claimed" \in Places
    BY <1>2 DEF ClaimJob, Places
  <2>2. /\ proc' \in [Procs -> ProcType]
        /\ \A q \in Procs : proc'[q].job = proc[q].job
        /\ \A q \in Procs : proc'[q].pc = IF q = p THEN "claimed" ELSE proc[q].pc
    BY <2>1, GotoType
  <2>3. \A q \in Procs : Working(q) => proc[q].job \in Jobs /\ proc[q].job # j
    BY <1>2, WorkerFacts DEF WorkIsRecorded
  <2>4. ran[j] = 0
    BY <1>1, <1>2 DEF RanIsPastClaim
  <2> HIDE DEF j
  <2>5. TypeOK'
    BY <1>0, <1>1, <2>1, <2>2 DEF TypeOK, ProcType
  <2>6. LockedOnce' /\ LockedIsQueued'
    BY <1>0, <2>1, <2>5, LocksKept DEF TypeOK
  <2>7. FreshIsClean' /\ RanIsPastClaim'
    BY <1>0, <1>1, <1>2, <2>1, <2>4 DEF FreshIsClean, RanIsPastClaim, TypeOK
  <2>8. AliveIsRecent'
    BY <1>0, <1>1, <2>2 DEF AliveIsRecent, Alive
  <2>9. ASSUME NEW q \in Procs, Working(q)'
        PROVE  /\ pid'[proc'[q].job] = q
               /\ status'[proc'[q].job] = Wrote(q)'
               /\ submit'[proc'[q].job] \notin {"queued", "launched"}
               /\ proc'[q].pc = "claimed" => submit'[proc'[q].job] = "claimed"
    <3>1. CASE q = p
      <4>1. proc'[q].job = j /\ Wrote(q)' = "PENDING"
        BY <2>2, <3>1 DEF Wrote, j
      <4> QED
        BY <1>0, <1>1, <1>2, <2>1, <3>1, <4>1 DEF TypeOK
    <3>2. CASE q # p
      <4>1. Working(q) /\ Wrote(q)' = Wrote(q) /\ proc'[q].job = proc[q].job
            /\ proc'[q].pc = proc[q].pc
        BY <2>2, <2>9, <3>2 DEF Working, Wrote
      <4> QED
        BY <1>0, <2>1, <2>3, <4>1 DEF WorkIsRecorded, TypeOK
    <3> QED
      BY <3>1, <3>2
  <2>10. WorkIsRecorded'
    BY <2>9 DEF WorkIsRecorded
  <2>11. RestartIsQuiet'
    BY <1>0, <1>1 DEF RestartIsQuiet
  <2> QED
    BY <2>5, <2>6, <2>7, <2>8, <2>10, <2>11
<1>3. CASE ~(submit[j] = "launched" /\ status[j] = "PENDING")
  <2>1. Goto(p, "dead") /\ UNCHANGED <<submit, pid>> /\ "dead" \in Places
    BY <1>3 DEF ClaimJob, Places
  <2>2. /\ proc' \in [Procs -> ProcType]
        /\ \A q \in Procs : proc'[q] = proc[q] \/ proc'[q].pc = "dead"
    BY <2>1 DEF Goto, TypeOK, ProcType
  <2>3. TypeOK'
    BY <1>0, <2>1, <2>2 DEF TypeOK, ProcType
  <2> QED
    BY <1>0, <2>1, <2>2, <2>3, QuietStep DEF rows
<1> QED
  BY <1>2, <1>3

(* The program starts for the first time. *)
LEMMA MarkJobDriverStartedKeeps ==
    ASSUME SkyletInv, NEW p \in Procs, MarkJobDriverStarted(p)
    PROVE  SkyletInv'
<1> USE DEF SkyletInv
<1> DEFINE j == proc[p].job
<1>0. /\ status' = status /\ pid' = pid /\ old' = old /\ step' = step /\ boot' = boot
      /\ faults' = faults
      /\ Free(j) /\ proc[p].pc = "claimed" /\ Goto(p, "started") /\ "started" \in Places
      /\ submit' = [submit EXCEPT ![j] = IF @ = "claimed" THEN "started" ELSE @]
      /\ ran' = [ran EXCEPT ![j] = @ + 1]
  BY DEF MarkJobDriverStarted, At, Places
<1>1. Working(p)
  BY <1>0 DEF Working
<1>2. /\ j \in Jobs /\ ~old[j] /\ boot = "up" /\ pid[j] = p /\ submit[j] = "claimed"
      /\ status[j] = "PENDING"
  BY <1>0, <1>1, WorkerFacts DEF WorkIsRecorded, Wrote
<1>3. /\ proc' \in [Procs -> ProcType]
      /\ \A q \in Procs : proc'[q].job = proc[q].job
      /\ \A q \in Procs : proc'[q].pc = IF q = p THEN "started" ELSE proc[q].pc
  BY <1>0, GotoType
<1>4. ran[j] = 0
  BY <1>2 DEF RanIsPastClaim
<1>5. submit' = [submit EXCEPT ![j] = "started"] /\ ran' = [ran EXCEPT ![j] = 1]
  BY <1>0, <1>2, <1>4 DEF TypeOK
<1>6. \A q \in Procs : Working(q) /\ q # p => proc[q].job \in Jobs /\ proc[q].job # j
  BY <1>2, WorkerFacts
<1> HIDE DEF j
<1>7. TypeOK'
  BY <1>0, <1>2, <1>3, <1>5 DEF TypeOK, ProcType
<1>8. LockedOnce' /\ LockedIsQueued'
  BY <1>0, <1>5, <1>7, LocksKept DEF TypeOK
<1>9. FreshIsClean' /\ RanIsPastClaim'
  BY <1>0, <1>2, <1>5, ActorFacts DEF FreshIsClean, RanIsPastClaim, TypeOK
<1>10. AliveIsRecent'
  BY <1>0, <1>2, <1>3 DEF AliveIsRecent, Alive
<1>11. ASSUME NEW q \in Procs, Working(q)'
       PROVE  /\ pid'[proc'[q].job] = q
              /\ status'[proc'[q].job] = Wrote(q)'
              /\ submit'[proc'[q].job] \notin {"queued", "launched"}
              /\ proc'[q].pc = "claimed" => submit'[proc'[q].job] = "claimed"
  <2>1. CASE q = p
    <3>1. proc'[q].job = j /\ Wrote(q)' = "PENDING" /\ proc'[q].pc = "started"
      BY <1>3, <2>1 DEF Wrote, j
    <3> QED
      BY <1>0, <1>2, <1>5, <2>1, <3>1 DEF TypeOK
  <2>2. CASE q # p
    <3>1. Working(q) /\ Wrote(q)' = Wrote(q) /\ proc'[q].job = proc[q].job
          /\ proc'[q].pc = proc[q].pc
      BY <1>3, <1>11, <2>2 DEF Working, Wrote
    <3> QED
      BY <1>0, <1>5, <1>6, <2>2, <3>1 DEF WorkIsRecorded, TypeOK
  <2> QED
    BY <2>1, <2>2
<1>12. WorkIsRecorded'
  BY <1>11 DEF WorkIsRecorded
<1>13. RestartIsQuiet'
  BY <1>0, <1>2 DEF RestartIsQuiet
<1> QED
  BY <1>7, <1>8, <1>9, <1>10, <1>12, <1>13

(* A program at work that goes on to its next place, writing the status     *)
(* that belongs there, or that ends.                                        *)
LEMMA DriverMoves ==
    ASSUME SkyletInv, NEW p \in Procs, Working(p),
           NEW place \in {"waiting", "setup", "running", "ending", "dead"},
           Goto(p, place),
           NEW st \in (Nonterminal \cup Terminal) \ {"INIT"},
           status' = [status EXCEPT ![proc[p].job] = st],
           place = "waiting" => st = "PENDING",
           place = "setup" => st = "SETTING_UP",
           place = "running" => st = "RUNNING",
           step' \in [Actors -> StepType],
           \A b \in Actors : step'[b].job = step[b].job,
           UNCHANGED <<pid, submit, old, boot, faults, ran>>
    PROVE  SkyletInv'
<1> USE DEF SkyletInv
<1> DEFINE j == proc[p].job
<1>0. /\ pid' = pid /\ submit' = submit /\ old' = old /\ boot' = boot
      /\ faults' = faults /\ ran' = ran
      /\ place \in Places
  BY DEF Places
<1>1. j \in Jobs /\ ~old[j] /\ boot = "up" /\ pid[j] = p /\ status[j] \notin {"none", "INIT"}
  BY WorkerFacts
<1>2. /\ proc' \in [Procs -> ProcType]
      /\ \A q \in Procs : proc'[q].job = proc[q].job
      /\ \A q \in Procs : proc'[q].pc = IF q = p THEN place ELSE proc[q].pc
  BY <1>0, GotoType
<1>3. /\ status' \in [Jobs -> Nonterminal \cup Terminal \cup {"none"}]
      /\ \A k \in Jobs : status'[k] = IF k = j THEN st ELSE status[k]
  BY <1>1 DEF TypeOK
<1>4. st \notin {"none", "INIT"}
  BY DEF Nonterminal, Terminal
<1>5. \A q \in Procs : Working(q) /\ q # p => proc[q].job \in Jobs /\ proc[q].job # j
  BY <1>1, WorkerFacts
<1>6. submit[j] \notin {"queued", "launched"}
  BY DEF WorkIsRecorded
<1> HIDE DEF j
<1>7. TypeOK'
  BY <1>0, <1>2, <1>3 DEF TypeOK, ProcType, StepType
<1>8. LockedOnce' /\ LockedIsQueued'
  BY <1>0, <1>7, LocksKept
<1>9. FreshIsClean' /\ RanIsPastClaim'
  BY <1>0, <1>3, <1>4 DEF FreshIsClean, RanIsPastClaim
<1>10. AliveIsRecent'
  BY <1>0, <1>2, <1>3, <1>4, WorkerFacts DEF AliveIsRecent, Alive
<1>11. ASSUME NEW q \in Procs, Working(q)'
       PROVE  /\ pid'[proc'[q].job] = q
              /\ status'[proc'[q].job] = Wrote(q)'
              /\ submit'[proc'[q].job] \notin {"queued", "launched"}
              /\ proc'[q].pc = "claimed" => submit'[proc'[q].job] = "claimed"
  <2>1. CASE q = p
    <3>1. proc'[q].job = j /\ proc'[q].pc = place /\ place \in {"waiting", "setup", "running"}
      BY <1>2, <1>11, <2>1 DEF Working, j
    <3>2. Wrote(q)' = st
      BY <3>1 DEF Wrote
    <3> QED
      BY <1>0, <1>1, <1>3, <1>6, <2>1, <3>1, <3>2
  <2>2. CASE q # p
    <3>1. Working(q) /\ Wrote(q)' = Wrote(q) /\ proc'[q].job = proc[q].job
          /\ proc'[q].pc = proc[q].pc
      BY <1>2, <1>11, <2>2 DEF Working, Wrote
    <3> QED
      BY <1>0, <1>3, <1>5, <2>2, <3>1 DEF WorkIsRecorded
  <2> QED
    BY <2>1, <2>2
<1>12. WorkIsRecorded'
  BY <1>11 DEF WorkIsRecorded
<1>13. RestartIsQuiet'
  BY <1>0, <1>1 DEF RestartIsQuiet
<1> QED
  BY <1>7, <1>8, <1>9, <1>10, <1>12, <1>13

(* What a program at work writes goes into the row: it is not over yet. *)
LEMMA WorkerWrites ==
    ASSUME SkyletInv, NEW p \in Procs, Working(p), NEW st \in Nonterminal \cup Terminal
    PROVE  SetStatus(proc[p].job, st) = [status EXCEPT ![proc[p].job] = st]
<1>1. status[proc[p].job] \notin Terminal
  BY WorkerFacts DEF Terminal
<1> QED
  BY <1>1 DEF SetStatus

(* Every step of the claimant and of the driver program. *)
LEMMA DriverKeeps ==
    ASSUME SkyletInv, NEW p \in Procs, Driver(p)
    PROVE  SkyletInv'
<1> DEFINE Same == step' \in [Actors -> StepType] /\ \A b \in Actors : step'[b].job = step[b].job
<1>a. ASSUME UNCHANGED step PROVE Same
  BY <1>a DEF SkyletInv, TypeOK, StepType
<1>b. ASSUME Begin(p, submit) PROVE Same
  BY <1>b, BeginType, ActorFacts DEF SkyletInv
<1> HIDE DEF Same
<1>1. CASE ClaimJob(p)
  BY <1>1, ClaimJobKeeps
<1>2. CASE MarkJobDriverStarted(p)
  BY <1>2, MarkJobDriverStartedKeeps
<1>3. CASE Prologue(p)
  <2>1. Working(p) /\ Same /\ "PENDING" \in (Nonterminal \cup Terminal) \ {"INIT"}
    BY <1>a, <1>3 DEF Prologue, At, Working, Nonterminal
  <2>2. /\ Goto(p, "waiting") /\ status' = SetStatus(proc[p].job, "PENDING")
        /\ UNCHANGED <<pid, submit, old, boot, faults, ran>>
    BY <1>3 DEF Prologue
  <2> QED
    BY <2>1, <2>2, WorkerWrites, DriverMoves DEF Same
<1>4. CASE GetResources(p)
  <2>1. Working(p) /\ Same
    BY <1>b, <1>4 DEF GetResources, At, Working
  <2>2. PICK next \in {"setup", "running"} :
           /\ status' = SetStatus(proc[p].job, IF next = "setup" THEN "SETTING_UP" ELSE "RUNNING")
           /\ Goto(p, next)
    BY <1>4 DEF GetResources
  <2>3. UNCHANGED <<pid, submit, old, boot, faults, ran>>
    BY <1>4 DEF GetResources
  <2>4. {"SETTING_UP", "RUNNING"} \subseteq (Nonterminal \cup Terminal) \ {"INIT"}
    BY DEF Nonterminal
  <2>5. CASE next = "setup"
    BY <2>1, <2>2, <2>3, <2>4, <2>5, WorkerWrites, DriverMoves DEF Same
  <2>6. CASE next = "running"
    BY <2>1, <2>2, <2>3, <2>4, <2>6, WorkerWrites, DriverMoves DEF Same
  <2> QED
    BY <2>5, <2>6
<1>5. CASE SetJobStarted(p)
  <2>1. Working(p) /\ Same /\ "RUNNING" \in (Nonterminal \cup Terminal) \ {"INIT"}
    BY <1>a, <1>5 DEF SetJobStarted, At, Working, Nonterminal
  <2>2. /\ Goto(p, "running") /\ status' = SetStatus(proc[p].job, "RUNNING")
        /\ UNCHANGED <<pid, submit, old, boot, faults, ran>>
    BY <1>5 DEF SetJobStarted
  <2> QED
    BY <2>1, <2>2, WorkerWrites, DriverMoves DEF Same
<1>6. CASE SetupFails(p)
  <2>1. Working(p) /\ Same /\ "FAILED_SETUP" \in (Nonterminal \cup Terminal) \ {"INIT"}
    BY <1>a, <1>6 DEF SetupFails, At, Working, Terminal
  <2>2. /\ Goto(p, "dead") /\ status' = SetStatus(proc[p].job, "FAILED_SETUP")
        /\ UNCHANGED <<pid, submit, old, boot, faults, ran>>
    BY <1>6 DEF SetupFails
  <2> QED
    BY <2>1, <2>2, WorkerWrites, DriverMoves DEF Same
<1>7. CASE Epilogue(p)
  <2>1. Working(p) /\ Same
    BY <1>b, <1>7 DEF Epilogue, At, Working
  <2>2. PICK st \in {"SUCCEEDED", "FAILED"} : status' = SetStatus(proc[p].job, st)
    BY <1>7 DEF Epilogue
  <2>3. Goto(p, "ending") /\ UNCHANGED <<pid, submit, old, boot, faults, ran>>
    BY <1>7 DEF Epilogue
  <2>4. st \in (Nonterminal \cup Terminal) \ {"INIT"}
    BY DEF Terminal
  <2>5. status' = [status EXCEPT ![proc[p].job] = st]
    BY <2>1, <2>2, <2>4, WorkerWrites
  <2>6. step' \in [Actors -> StepType] /\ \A b \in Actors : step'[b].job = step[b].job
    BY <2>1 DEF Same
  <2> QED
    BY <2>1, <2>3, <2>4, <2>5, <2>6, DriverMoves
<1>8. CASE Exit(p) \/ Stops(p)
  BY <1>8, SchedulerMoves
<1> QED
  BY <1>1, <1>2, <1>3, <1>4, <1>5, <1>6, <1>7, <1>8 DEF Driver

-----------------------------------------------------------------------------
(* The machine.                                                            *)

(* A reboot ends every process and makes every row old. *)
LEMMA RebootKeeps ==
    ASSUME SkyletInv, Reboot
    PROVE  SkyletInv'
<1> USE DEF SkyletInv
<1>0. /\ status' = status /\ pid' = pid /\ submit' = submit /\ ran' = ran
      /\ old' = [j \in Jobs |-> status[j] # "none"]
      /\ boot' \in {"up", "restarting"}
      /\ step' = [a \in Actors |-> Idle]
  BY DEF Reboot
<1>1. /\ proc' \in [Procs -> ProcType]
      /\ \A p \in Procs : proc'[p].pc \in {"unborn", "dead"}
  BY DEF Reboot, Alive, TypeOK, ProcType, Places
<1>2. /\ step' \in [Actors -> StepType]
      /\ \A a \in Actors : step'[a].job = NoJob
  BY <1>0, ActorFacts
<1>3. faults' \in 0 .. MaxFaults
  BY SkyletAssumption DEF Reboot, Spend, TypeOK
<1>4. TypeOK'
  BY <1>0, <1>1, <1>2, <1>3 DEF TypeOK, ProcType, StepType
<1>5. LockedOnce' /\ LockedIsQueued'
  BY <1>2 DEF LockedOnce, LockedIsQueued
<1>6. FreshIsClean' /\ RanIsPastClaim'
  BY <1>0 DEF FreshIsClean, RanIsPastClaim
<1>7. AliveIsRecent' /\ WorkIsRecorded'
  BY <1>1 DEF AliveIsRecent, WorkIsRecorded, Alive, Working
<1>8. RestartIsQuiet'
  BY <1>0, <1>1, <1>2 DEF RestartIsQuiet, Alive
<1> QED
  BY <1>4, <1>5, <1>6, <1>7, <1>8

(* fail_all_jobs_in_progress runs while nothing lives. *)
LEMMA FailAllKeeps ==
    ASSUME SkyletInv, FailAllJobsInProgress
    PROVE  SkyletInv'
<1> USE DEF SkyletInv
<1>0. /\ pid' = pid /\ submit' = submit /\ old' = old /\ proc' = proc /\ step' = step
      /\ faults' = faults /\ ran' = ran /\ boot' = "up" /\ boot = "restarting"
      /\ status' = [j \in Jobs |->
                      IF status[j] \in Nonterminal THEN "FAILED_DRIVER" ELSE status[j]]
  BY DEF FailAllJobsInProgress
<1>1. TypeOK'
  BY <1>0 DEF TypeOK, Terminal
<1>2. LockedOnce' /\ LockedIsQueued'
  BY <1>0 DEF LockedOnce, LockedIsQueued
<1>3. \A j \in Jobs : status'[j] \in {"none", "INIT"} => status[j] = "none"
  BY <1>0 DEF Nonterminal
<1>4. FreshIsClean' /\ RanIsPastClaim'
  BY <1>0, <1>3 DEF FreshIsClean, RanIsPastClaim
<1>5. \A p \in Procs : ~Alive(p) /\ ~Working(p)
  BY <1>0 DEF RestartIsQuiet, Alive, Working
<1>6. AliveIsRecent' /\ WorkIsRecorded'
  BY <1>0, <1>5 DEF AliveIsRecent, WorkIsRecorded, Alive, Working
<1>7. RestartIsQuiet'
  BY <1>0 DEF RestartIsQuiet
<1> QED
  BY <1>1, <1>2, <1>4, <1>6, <1>7

-----------------------------------------------------------------------------
(* The invariant.                                                          *)

(* Nothing is queued and nothing lives on a new cluster. *)
LEMMA SkyletInvInit == Init => SkyletInv
<1> SUFFICES ASSUME Init PROVE SkyletInv
  OBVIOUS
<1>1. TypeOK
  BY TypeInit
<1>2. \A a \in Actors : step[a].job = NoJob
  BY ActorFacts DEF Init
<1>3. \A p \in Procs : ~Alive(p) /\ ~Working(p)
  BY DEF Init, Alive, Working
<1>4. LockedOnce /\ LockedIsQueued
  BY <1>2 DEF LockedOnce, LockedIsQueued
<1>5. FreshIsClean /\ RanIsPastClaim
  BY DEF Init, FreshIsClean, RanIsPastClaim
<1>6. AliveIsRecent /\ WorkIsRecorded
  BY <1>3 DEF AliveIsRecent, WorkIsRecorded
<1>7. RestartIsQuiet
  BY DEF Init, RestartIsQuiet
<1> QED
  BY <1>1, <1>4, <1>5, <1>6, <1>7 DEF SkyletInv

(* One step per action of the cluster. *)
LEMMA SkyletInvNext == SkyletInv /\ [Next]_vars => SkyletInv'
<1> SUFFICES ASSUME SkyletInv, [Next]_vars PROVE SkyletInv'
  OBVIOUS
<1>1. CASE Tick
  BY <1>1, SchedulerMoves
<1>2. ASSUME NEW a \in Actors, ScheduleStep(a) PROVE SkyletInv'
  <2>1. ASSUME NEW j \in Jobs, PassOver(a, j) PROVE SkyletInv'
    BY <2>1, PassOverKeeps
  <2>2. ASSUME NEW j \in Jobs, HoldQueue(a, j) PROVE SkyletInv'
    BY <2>2, SchedulerMoves
  <2>3. ASSUME NEW j \in Jobs, NEW p \in Procs, Launch(a, j, p) PROVE SkyletInv'
    BY <2>3, LaunchKeeps
  <2>4. CASE Launched(a)
    BY <2>4, LaunchedKeeps
  <2> QED
    BY <1>2, <2>1, <2>2, <2>3, <2>4 DEF ScheduleStep
<1>3. ASSUME NEW j \in Jobs, AddJob(j) PROVE SkyletInv'
  BY <1>3, AddJobKeeps
<1>4. ASSUME NEW j \in Jobs, QueueJob(j) PROVE SkyletInv'
  BY <1>4, QueueJobKeeps
<1>5. ASSUME NEW j \in Jobs, CancelJob(j) PROVE SkyletInv'
  BY <1>5, CancelJobKeeps
<1>6. ASSUME NEW j \in Jobs, UpdateJobStatus(j) PROVE SkyletInv'
  BY <1>6, UpdateJobStatusKeeps
<1>7. ASSUME NEW j \in Jobs, ExpireInit(j) PROVE SkyletInv'
  BY <1>7, ExpireInitKeeps
<1>8. ASSUME NEW p \in Procs, Driver(p) PROVE SkyletInv'
  BY <1>8, DriverKeeps
<1>9. ASSUME NEW p \in Procs, DriverDies(p) PROVE SkyletInv'
  BY <1>9, SchedulerMoves
<1>10. ASSUME NEW a \in {Skylet, Request}, SchedulerDies(a) PROVE SkyletInv'
  BY <1>10, SchedulerMoves
<1>11. CASE Reboot
  BY <1>11, RebootKeeps
<1>12. CASE FailAllJobsInProgress
  BY <1>12, FailAllKeeps
<1>13. CASE UNCHANGED vars
  <2>1. UNCHANGED <<rows, boot, ran>> /\ proc' = proc /\ step' = step /\ faults' = faults
    BY <1>13 DEF vars, rows
  <2>2. TypeOK'
    BY <2>1 DEF rows, SkyletInv, TypeOK
  <2> QED
    BY <2>1, <2>2, QuietStep
<1> QED
  BY <1>1, <1>2, <1>3, <1>4, <1>5, <1>6, <1>7, <1>8, <1>9, <1>10, <1>11, <1>12, <1>13
  DEF Next

(* The tables and the processes keep their types. *)
THEOREM SkyletTypeOK == Spec => []TypeOK
<1>1. SkyletInv => TypeOK
  BY DEF SkyletInv
<1> QED
  BY <1>1, SkyletInvInit, SkyletInvNext, PTL DEF Spec

(* The user's program is started at most once, whoever launches, dies,      *)
(* repeats QueueJob or claims late: claim_job lets one claimant through and *)
(* a started row is never launched again.                                   *)
THEOREM ProgramRunsOnce == Spec => []RunsOnce
<1>1. SkyletInv => RunsOnce
  BY DEF SkyletInv, RanIsPastClaim, RunsOnce
<1> QED
  BY <1>1, SkyletInvInit, SkyletInvNext, PTL DEF Spec

(* There is one driver at work for a job and the row names it: what         *)
(* cancel_jobs kills is what runs.                                          *)
THEOREM DriverIsTheNamedOne == Spec => []DriverIsNamed
<1>1. SkyletInv => DriverIsNamed
  BY DEF SkyletInv, WorkIsRecorded, Working, DriverIsNamed, Drivers
<1> QED
  BY <1>1, SkyletInvInit, SkyletInvNext, PTL DEF Spec

(* A step of the driver program writes no row that is over. *)
LEMMA DriverLeavesEnded ==
    ASSUME SkyletInv, NEW p \in Procs, Driver(p), NEW j \in Jobs, status[j] \in Terminal
    PROVE  status'[j] = status[j]
<1>1. CASE ClaimJob(p) \/ MarkJobDriverStarted(p) \/ Exit(p) \/ Stops(p)
  BY <1>1 DEF ClaimJob, MarkJobDriverStarted, Exit, Stops, rows
<1>2. CASE Prologue(p) \/ GetResources(p) \/ SetJobStarted(p) \/ SetupFails(p) \/ Epilogue(p)
  <2>1. Working(p)
    BY <1>2 DEF Prologue, GetResources, SetJobStarted, SetupFails, Epilogue, At, Working
  <2>2. proc[p].job \in Jobs /\ proc[p].job # j
    BY <2>1, WorkerFacts DEF Terminal
  <2>3. \E st \in Nonterminal \cup Terminal : status' = SetStatus(proc[p].job, st)
    BY <1>2 DEF Prologue, GetResources, SetJobStarted, SetupFails, Epilogue,
                Nonterminal, Terminal
  <2> QED
    BY <2>2, <2>3, SetStatusType DEF SkyletInv
<1> QED
  BY <1>1, <1>2 DEF Driver

(* The process that a row names, and the one a scheduler has just launched, *)
(* are processes of that job, which is what cancel_jobs makes sure of by    *)
(* the marker in the command line (_is_job_driver_process_running).         *)
NamesAreOwn ==
    /\ \A p \in Procs : proc[p].pc = "unborn" => proc[p].job = NoJob
    /\ \A j \in Jobs : pid[j] # NoProc => proc[pid[j]].job = j
    /\ \A a \in Actors : step[a].job # NoJob =>
          step[a].child \in Procs /\ proc[step[a].child].job = step[a].job

(* Processes keep their job, rows their name and schedulers their child. *)
LEMMA NamesKept ==
    ASSUME SkyletInv, NamesAreOwn,
           \A p \in Procs : proc'[p].job = proc[p].job,
           \A p \in Procs : proc'[p].pc = "unborn" => proc[p].pc = "unborn",
           pid' = pid,
           \A a \in Actors : \/ step'[a].job = NoJob
                             \/ step'[a].job = step[a].job /\ step'[a].child = step[a].child
    PROVE  NamesAreOwn'
<1>1. \A j \in Jobs : pid[j] # NoProc => pid[j] \in Procs
  BY DEF SkyletInv, TypeOK
<1> QED
  BY <1>1 DEF NamesAreOwn

(* A schedule_step that begins has no child, and a place is no job. *)
LEMMA BeginNames ==
    ASSUME SkyletInv, NEW a \in Actors, NEW table, Begin(a, table)
    PROVE  \A b \in Actors : step'[b].job = step[b].job /\ step'[b].child = step[b].child
BY DEF SkyletInv, TypeOK, Begin

LEMMA GotoNames ==
    ASSUME SkyletInv, NEW p \in Procs, NEW place \in Places \ {"unborn"}, Goto(p, place)
    PROVE  /\ \A q \in Procs : proc'[q].job = proc[q].job
           /\ \A q \in Procs : proc'[q].pc = "unborn" => proc[q].pc = "unborn"
BY GotoType DEF SkyletInv

(* Names are given by the two halves of _run_job and by claim_job. *)
LEMMA NamesNext ==
    ASSUME SkyletInv, NamesAreOwn, [Next]_vars
    PROVE  NamesAreOwn'
<1> USE DEF SkyletInv
<1>1. CASE Tick
  BY <1>1, ActorFacts, BeginNames, NamesKept DEF Tick, rows
<1>2. ASSUME NEW a \in Actors, ScheduleStep(a) PROVE NamesAreOwn'
  <2>1. ASSUME NEW j \in Jobs, PassOver(a, j) \/ HoldQueue(a, j) PROVE NamesAreOwn'
    <3>1. \A b \in Actors : \/ step'[b].job = NoJob
                            \/ step'[b].job = step[b].job /\ step'[b].child = step[b].child
      BY <2>1, ActorFacts DEF PassOver, HoldQueue, TypeOK
    <3> QED
      BY <2>1, <3>1, NamesKept DEF PassOver, HoldQueue, rows
  <2>2. ASSUME NEW j \in Jobs, NEW p \in Procs, Launch(a, j, p) PROVE NamesAreOwn'
    <3>1. /\ proc' = [proc EXCEPT ![p] = [job |-> j, pc |-> "claiming"]]
          /\ step' = [step EXCEPT ![a] = [todo |-> {}, job |-> j, child |-> p]]
          /\ proc[p].pc = "unborn"
      BY <2>2 DEF Launch, NextPid
    <3>2. \A k \in Jobs : pid'[k] \in {pid[k], NoProc}
      BY <2>2 DEF Launch, TypeOK
    <3>3. proc[p].job = NoJob
      BY <3>1 DEF NamesAreOwn
    <3>4. \A k \in Jobs : pid[k] # p
      BY <3>3, ActorFacts DEF NamesAreOwn
    <3>5. \A b \in Actors : step[b].job # NoJob => step[b].child # p
      BY <3>3 DEF NamesAreOwn
    <3>6. \A q \in Procs : proc'[q] = IF q = p THEN [job |-> j, pc |-> "claiming"] ELSE proc[q]
      BY <3>1 DEF TypeOK
    <3>7. \A k \in Jobs : pid[k] # NoProc => pid[k] \in Procs
      BY DEF TypeOK
    <3>8. \A b \in Actors : step'[b] = IF b = a THEN [todo |-> {}, job |-> j, child |-> p]
                                           ELSE step[b]
      BY <3>1 DEF TypeOK
    <3> QED
      BY <3>2, <3>4, <3>5, <3>6, <3>7, <3>8 DEF NamesAreOwn
  <2>3. CASE Launched(a)
    <3> DEFINE j == step[a].job
    <3>1. /\ proc' = proc /\ j \in Jobs
          /\ pid' = [pid EXCEPT ![j] = step[a].child]
          /\ step' = [step EXCEPT ![a] = Idle]
      BY <2>3 DEF Launched, TypeOK
    <3>2. proc[step[a].child].job = j
      BY <3>1, ActorFacts DEF NamesAreOwn
    <3>3. \A b \in Actors : step'[b] = IF b = a THEN Idle ELSE step[b]
      BY <3>1 DEF TypeOK
    <3> HIDE DEF j
    <3> QED
      BY <3>1, <3>2, <3>3, ActorFacts DEF NamesAreOwn, TypeOK
  <2> QED
    BY <1>2, <2>1, <2>2, <2>3 DEF ScheduleStep
<1>3. ASSUME NEW j \in Jobs, AddJob(j) \/ UpdateJobStatus(j) \/ ExpireInit(j)
      PROVE  NamesAreOwn'
  BY <1>3, NamesKept DEF AddJob, UpdateJobStatus, ExpireInit
<1>4. ASSUME NEW j \in Jobs, QueueJob(j) PROVE NamesAreOwn'
  BY <1>4, ActorFacts, BeginNames, NamesKept DEF QueueJob
<1>5. ASSUME NEW j \in Jobs, CancelJob(j) PROVE NamesAreOwn'
  <2>1. /\ \A q \in Procs : proc'[q].job = proc[q].job
        /\ \A q \in Procs : proc'[q].pc = "unborn" => proc[q].pc = "unborn"
    <3>1. CASE Alive(pid[j])
      <4>1. proc' = [proc EXCEPT ![pid[j]].pc = "stopping"] /\ pid[j] \in Procs
        BY <1>5, <3>1 DEF CancelJob, Signalled, Alive
      <4> QED
        BY <4>1 DEF TypeOK
    <3>2. CASE ~Alive(pid[j])
      BY <1>5, <3>2 DEF CancelJob
    <3> QED
      BY <3>1, <3>2
  <2> QED
    BY <1>5, <2>1, ActorFacts, BeginNames, NamesKept DEF CancelJob
<1>6. ASSUME NEW p \in Procs, Driver(p) PROVE NamesAreOwn'
  <2>1. CASE ClaimJob(p)
    <3>1. CASE Goto(p, "dead") /\ UNCHANGED <<submit, pid>>
      BY <2>1, <3>1, GotoNames, NamesKept DEF ClaimJob, Places
    <3>2. CASE Goto(p, "claimed") /\ pid' = [pid EXCEPT ![proc[p].job] = p]
      <4>1. /\ \A q \in Procs : proc'[q].job = proc[q].job
            /\ \A q \in Procs : proc'[q].pc = "unborn" => proc[q].pc = "unborn"
        BY <3>2, GotoNames DEF Places
      <4> DEFINE j == proc[p].job
      <4>2. step' = step /\ j \in Jobs
        BY <2>1 DEF ClaimJob, At, AliveIsRecent, Alive
      <4>3. \A k \in Jobs : pid'[k] = IF k = j THEN p ELSE pid[k]
        BY <3>2, <4>2 DEF TypeOK
      <4>4. \A k \in Jobs : pid[k] # NoProc => pid[k] \in Procs
        BY DEF TypeOK
      <4> QED
        BY <4>1, <4>2, <4>3, <4>4 DEF NamesAreOwn
    <3> QED
      BY <2>1, <3>1, <3>2 DEF ClaimJob
  <2>2. CASE Prologue(p) \/ SetJobStarted(p) \/ SetupFails(p) \/ MarkJobDriverStarted(p)
             \/ Exit(p)
    <3>1. \E place \in Places \ {"unborn"} : Goto(p, place)
      BY <2>2 DEF Prologue, SetJobStarted, SetupFails, MarkJobDriverStarted, Exit, Places
    <3>2. pid' = pid /\ step' = step
      BY <2>2 DEF Prologue, SetJobStarted, SetupFails, MarkJobDriverStarted, Exit, rows
    <3> QED
      BY <3>1, <3>2, GotoNames, NamesKept
  <2>3. CASE GetResources(p) \/ Epilogue(p)
    <3>1. \E place \in Places \ {"unborn"} : Goto(p, place)
      BY <2>3 DEF GetResources, Epilogue, Places
    <3>2. pid' = pid /\ Begin(p, submit)
      BY <2>3 DEF GetResources, Epilogue
    <3> QED
      BY <3>1, <3>2, ActorFacts, BeginNames, GotoNames, NamesKept
  <2>4. CASE Stops(p)
    <3>1. Goto(p, "dead") /\ pid' = pid /\ step' = [step EXCEPT ![p] = Idle]
      BY <2>4 DEF Stops, rows
    <3> QED
      BY <3>1, ActorFacts, GotoNames, NamesKept DEF Places, TypeOK
  <2> QED
    BY <1>6, <2>1, <2>2, <2>3, <2>4 DEF Driver
<1>7. ASSUME NEW p \in Procs, DriverDies(p) PROVE NamesAreOwn'
  <2>1. Goto(p, "dead") /\ pid' = pid /\ step' = [step EXCEPT ![p] = Idle]
    BY <1>7 DEF DriverDies, rows
  <2> QED
    BY <2>1, ActorFacts, GotoNames, NamesKept DEF Places, TypeOK
<1>8. ASSUME NEW a \in {Skylet, Request}, SchedulerDies(a) PROVE NamesAreOwn'
  <2>1. pid' = pid /\ proc' = proc /\ step' = [step EXCEPT ![a] = Idle]
    BY <1>8 DEF SchedulerDies, rows
  <2> QED
    BY <2>1, ActorFacts, NamesKept DEF TypeOK
<1>9. CASE Reboot
  <2>1. pid' = pid /\ \A a \in Actors : step'[a] = Idle
    BY <1>9 DEF Reboot
  <2>2. \A p \in Procs : proc'[p].job = proc[p].job
                         /\ (proc'[p].pc = "unborn" => proc[p].pc = "unborn")
    BY <1>9 DEF Reboot, TypeOK
  <2> QED
    BY <2>1, <2>2, ActorFacts, NamesKept
<1>10. CASE FailAllJobsInProgress
  BY <1>10, NamesKept DEF FailAllJobsInProgress
<1>11. CASE UNCHANGED vars
  BY <1>11, NamesKept DEF vars
<1> QED
  BY <1>1, <1>2, <1>3, <1>4, <1>5, <1>6, <1>7, <1>8, <1>9, <1>10, <1>11 DEF Next

(***************************************************************************)
(* A driver that was told to stop belongs to a job that is over.  For this *)
(* to last, the job must not be queued again, which takes a row without a  *)
(* pid: the row of such a job keeps the pid that was signalled, because a  *)
(* row without one is the only kind that waits for its first launch.       *)
(***************************************************************************)
StoppingIsOver ==
    \A p \in Procs : proc[p].pc = "stopping" =>
        pid[proc[p].job] # NoProc /\ status[proc[p].job] \in Terminal

QueuedIsUnnamed == \A j \in Jobs : submit[j] = "queued" => pid[j] = NoProc

StopInv == StoppingIsOver /\ QueuedIsUnnamed

(* Nobody is told to stop and no row is queued, launched or revived: what   *)
(* was signalled stays so or dies, and the job stays over.                  *)
LEMMA StopKept ==
    ASSUME SkyletInv, StopInv,
           \A p \in Procs : proc'[p].pc = "stopping" =>
               proc[p].pc = "stopping" /\ proc'[p].job = proc[p].job,
           \A j \in Jobs : status[j] \in Terminal /\ pid[j] # NoProc
               => status'[j] \in Terminal /\ pid'[j] # NoProc,
           \A j \in Jobs : submit'[j] = "queued" => pid'[j] = NoProc
    PROVE  StopInv'
<1>1. ASSUME NEW p \in Procs, proc[p].pc = "stopping" PROVE proc[p].job \in Jobs
  BY <1>1 DEF SkyletInv, AliveIsRecent, Alive
<1> QED
  BY <1>1 DEF StopInv, StoppingIsOver, QueuedIsUnnamed

(* Schedulers do not touch the row of a job that is over but to drop it. *)
LEMMA SchedulersKeepStop ==
    ASSUME SkyletInv, StopInv, NEW a \in Actors, ScheduleStep(a)
    PROVE  StopInv'
<1> USE DEF SkyletInv, TypeOK
<1>0. \A j \in Jobs : submit[j] = "queued" => pid[j] = NoProc
  BY DEF StopInv, QueuedIsUnnamed
<1>1. ASSUME NEW j \in Jobs, PassOver(a, j) PROVE StopInv'
  <2>1. UNCHANGED <<status, pid, proc>> /\ submit' = [submit EXCEPT ![j] = "none"]
    BY <1>1 DEF PassOver
  <2> QED
    BY <1>0, <2>1, StopKept
<1>2. ASSUME NEW j \in Jobs, HoldQueue(a, j) PROVE StopInv'
  BY <1>0, <1>2, StopKept DEF HoldQueue, rows
<1>3. ASSUME NEW j \in Jobs, NEW p \in Procs, Launch(a, j, p) PROVE StopInv'
  <2>1. /\ status' = status /\ status[j] \notin Terminal
        /\ proc' = [proc EXCEPT ![p] = [job |-> j, pc |-> "claiming"]]
    BY <1>3 DEF Launch, Waits, Terminal
  <2>2. /\ \A k \in Jobs : k # j => pid'[k] = pid[k] /\ submit'[k] = submit[k]
        /\ pid'[j] = NoProc
    BY <1>0, <1>3 DEF Launch
  <2> QED
    BY <1>0, <2>1, <2>2, StopKept
<1>4. CASE Launched(a)
  <2> DEFINE j == step[a].job
  <2>1. /\ UNCHANGED <<status, proc>> /\ j \in Jobs /\ submit[j] = "queued"
        /\ submit' = [submit EXCEPT ![j] = "launched"]
        /\ pid' = [pid EXCEPT ![j] = step[a].child]
    BY <1>4 DEF Launched, LockedIsQueued
  <2>2. pid[j] = NoProc
    BY <1>0, <2>1
  <2> HIDE DEF j
  <2> QED
    BY <1>0, <2>1, <2>2, StopKept
<1> QED
  BY <1>1, <1>2, <1>3, <1>4 DEF ScheduleStep

(* A job is queued again only while its row has no pid; cancel_jobs signals *)
(* the named process of a job and leaves the job over.                      *)
LEMMA RequestsKeepStop ==
    ASSUME SkyletInv, NamesAreOwn, StopInv, NEW j \in Jobs,
           AddJob(j) \/ QueueJob(j) \/ CancelJob(j) \/ UpdateJobStatus(j) \/ ExpireInit(j)
    PROVE  StopInv'
<1> USE DEF SkyletInv, TypeOK
<1>0. \A k \in Jobs : submit[k] = "queued" => pid[k] = NoProc
  BY DEF StopInv, QueuedIsUnnamed
<1>1. CASE AddJob(j)
  BY <1>0, <1>1, StopKept DEF AddJob, Terminal
<1>2. CASE QueueJob(j)
  <2>0. pid' = pid /\ proc' = proc
    BY <1>2 DEF QueueJob
  <2>1. CASE UNCHANGED <<submit, old, status>>
    BY <1>0, <2>0, <2>1, StopKept
  <2>2. CASE /\ status[j] = "INIT" \/ Revivable(j)
             /\ submit' = [submit EXCEPT ![j] = IF @ = "none" THEN "queued" ELSE @]
             /\ status' = SetStatus(j, "PENDING")
    <3>1. pid[j] = NoProc
      BY <2>2 DEF Revivable, FreshIsClean
    <3>2. \A k \in Jobs : k # j => status'[k] = status[k] /\ submit'[k] = submit[k]
      BY <2>2 DEF SetStatus
    <3> QED
      BY <1>0, <2>0, <3>1, <3>2, StopKept
  <2> QED
    BY <1>2, <2>1, <2>2 DEF QueueJob
<1>3. CASE CancelJob(j)
  <2>1. /\ pid' = pid /\ submit' = submit
        /\ \A k \in Jobs : k # j => status'[k] = status[k]
        /\ status[j] # "none" /\ status'[j] \in Terminal
    BY <1>3 DEF CancelJob, SetStatus, Terminal, Nonterminal
  <2>2. CASE Alive(pid[j])
    <3>1. /\ pid[j] \in Procs /\ pid[j] # NoProc
          /\ proc' = [proc EXCEPT ![pid[j]].pc = "stopping"]
      BY <1>3, <2>2, ActorFacts DEF CancelJob, Signalled, Alive
    <3>2. \A k \in Jobs : status[k] \in Terminal => status'[k] \in Terminal
      BY <2>1
    <3>3. \A q \in Procs : proc[q].pc = "stopping" =>
              proc[q].job \in Jobs /\ pid[proc[q].job] # NoProc
              /\ status'[proc[q].job] \in Terminal
      BY <3>2 DEF AliveIsRecent, Alive, StopInv, StoppingIsOver
    <3>4. proc[pid[j]].job = j
      BY <3>1 DEF NamesAreOwn
    <3> QED
      BY <1>0, <2>1, <3>1, <3>3, <3>4 DEF StopInv, StoppingIsOver, QueuedIsUnnamed
  <2>3. CASE ~Alive(pid[j])
    BY <1>0, <1>3, <2>1, <2>3, StopKept DEF CancelJob
  <2> QED
    BY <2>2, <2>3
<1>4. CASE UpdateJobStatus(j)
  BY <1>0, <1>4, StopKept DEF UpdateJobStatus, Nonterminal, Terminal
<1>5. CASE ExpireInit(j)
  BY <1>0, <1>5, StopKept DEF ExpireInit, SetStatus, Terminal
<1> QED
  BY <1>1, <1>2, <1>3, <1>4, <1>5

(* The claimants and the driver programs write rows of jobs that are not    *)
(* over, and stop.                                                          *)
LEMMA DriversKeepStop ==
    ASSUME SkyletInv, StopInv, NEW p \in Procs, Driver(p) \/ DriverDies(p)
    PROVE  StopInv'
<1> USE DEF SkyletInv, TypeOK
<1>0. \A k \in Jobs : submit[k] = "queued" => pid[k] = NoProc
  BY DEF StopInv, QueuedIsUnnamed
<1>1. ASSUME NEW place \in Places \ {"stopping"}, Goto(p, place)
      PROVE  \A q \in Procs : proc'[q].pc = "stopping" =>
                 proc[q].pc = "stopping" /\ proc'[q].job = proc[q].job
  BY <1>1, GotoType
<1>2. CASE ClaimJob(p)
  <2>1. CASE Goto(p, "dead") /\ UNCHANGED <<submit, pid>>
    BY <1>0, <1>1, <1>2, <2>1, StopKept DEF ClaimJob, Places
  <2>2. CASE /\ submit' = [submit EXCEPT ![proc[p].job] = "claimed"]
             /\ pid' = [pid EXCEPT ![proc[p].job] = p]
             /\ Goto(p, "claimed")
    <3>1. /\ proc[p].job \in Jobs /\ p # NoProc /\ status' = status
      BY <1>2, ActorFacts DEF ClaimJob, At, AliveIsRecent, Alive
    <3> QED
      BY <1>0, <1>1, <2>2, <3>1, StopKept DEF Places
  <2> QED
    BY <1>2, <2>1, <2>2 DEF ClaimJob
<1>3. CASE MarkJobDriverStarted(p)
  <2>1. Goto(p, "started") /\ UNCHANGED <<status, pid>>
        /\ \A k \in Jobs : submit'[k] = "queued" => submit[k] = "queued"
    BY <1>3 DEF MarkJobDriverStarted
  <2> QED
    BY <1>0, <1>1, <2>1, StopKept DEF Places
<1>4. CASE Prologue(p) \/ GetResources(p) \/ SetJobStarted(p) \/ SetupFails(p) \/ Epilogue(p)
  <2>1. \E place \in Places \ {"stopping"} : Goto(p, place)
    BY <1>4 DEF Prologue, GetResources, SetJobStarted, SetupFails, Epilogue, Places
  <2>2. UNCHANGED <<pid, submit>>
    BY <1>4 DEF Prologue, GetResources, SetJobStarted, SetupFails, Epilogue
  <2>3. \A k \in Jobs : status[k] \in Terminal => status'[k] = status[k]
    BY <1>4, DriverLeavesEnded DEF Driver, Alive, Prologue, GetResources, SetJobStarted,
                                  SetupFails, Epilogue, At
  <2> QED
    BY <1>0, <1>1, <2>1, <2>2, <2>3, StopKept
<1>5. CASE Exit(p) \/ Stops(p) \/ DriverDies(p)
  <2>1. Goto(p, "dead") /\ UNCHANGED <<status, pid, submit>>
    BY <1>5 DEF Exit, Stops, DriverDies, rows
  <2> QED
    BY <1>0, <1>1, <2>1, StopKept DEF Places
<1> QED
  BY <1>2, <1>3, <1>4, <1>5 DEF Driver

(* Every step leaves signalled drivers to jobs that are over. *)
LEMMA StopNext ==
    ASSUME SkyletInv, NamesAreOwn, StopInv, [Next]_vars
    PROVE  StopInv'
<1>0. \A k \in Jobs : submit[k] = "queued" => pid[k] = NoProc
  BY DEF StopInv, QueuedIsUnnamed
<1>1. CASE Tick \/ \E a \in {Skylet, Request} : SchedulerDies(a)
  BY <1>0, <1>1, StopKept DEF Tick, SchedulerDies, rows
<1>2. CASE Reboot
  <2>1. UNCHANGED <<status, pid, submit>> /\ \A p \in Procs : proc'[p].pc # "stopping"
    BY <1>2 DEF Reboot, Alive, SkyletInv, TypeOK
  <2> QED
    BY <1>0, <2>1, StopKept
<1>3. CASE FailAllJobsInProgress
  <2>1. UNCHANGED <<proc, pid, submit>>
        /\ \A j \in Jobs : status[j] \in Terminal => status'[j] \in Terminal
    BY <1>3 DEF FailAllJobsInProgress, Terminal
  <2> QED
    BY <1>0, <2>1, StopKept
<1>4. CASE UNCHANGED vars
  BY <1>0, <1>4, StopKept DEF vars
<1>5. ASSUME NEW a \in Actors, ScheduleStep(a) PROVE StopInv'
  BY <1>5, SchedulersKeepStop
<1>6. ASSUME NEW j \in Jobs, AddJob(j) \/ QueueJob(j) \/ CancelJob(j)
                             \/ UpdateJobStatus(j) \/ ExpireInit(j)
      PROVE  StopInv'
  BY <1>6, RequestsKeepStop
<1>7. ASSUME NEW p \in Procs, Driver(p) \/ DriverDies(p) PROVE StopInv'
  BY <1>7, DriversKeepStop
<1> QED
  BY <1>1, <1>2, <1>3, <1>4, <1>5, <1>6, <1>7 DEF Next

(* When the row says that a job is over, no driver is at its program, and   *)
(* only then is one at the handler of the SIGTERM that cancel_jobs does not *)
(* wait for.                                                                *)
THEOREM EndedJobsAreOver == Spec => []EndedIsOver
<1> DEFINE Inv == SkyletInv /\ NamesAreOwn /\ StopInv
<1>1. Init => Inv
  <2> SUFFICES ASSUME Init PROVE Inv
    OBVIOUS
  <2>1. NamesAreOwn /\ StopInv
    BY ActorFacts DEF Init, NamesAreOwn, StopInv, StoppingIsOver, QueuedIsUnnamed
  <2> QED
    BY <2>1, SkyletInvInit
<1>2. Inv /\ [Next]_vars => Inv'
  BY SkyletInvNext, NamesNext, StopNext
<1>3. ASSUME Inv PROVE EndedIsOver
  <2>1. \A p \in Procs : Working(p) => status[proc[p].job] \notin Terminal
    BY <1>3, WorkerFacts DEF Terminal
  <2>2. \A p \in Procs : proc[p].pc = "stopping" => status[proc[p].job] \in Terminal
    BY <1>3 DEF StopInv, StoppingIsOver
  <2> QED
    BY <2>1, <2>2 DEF Working, EndedIsOver, Drivers
<1> QED
  BY <1>1, <1>2, <1>3, PTL DEF Spec

(* Terminal statuses stand: over every interleaving of the driver program,  *)
(* cancel_jobs, update_job_status and QueueJob, the one status that is      *)
(* overwritten is FAILED_DRIVER of a job whose program never ran, although  *)
(* _set_status_no_lock checks nothing.                                      *)
THEOREM TerminalStatusStands == Spec => TerminalStands
<1>1. ASSUME SkyletInv, [Next]_vars
      PROVE  [\A j \in Jobs : status[j] \in Terminal =>
                \/ status'[j] = status[j]
                \/ status[j] = "FAILED_DRIVER" /\ status'[j] = "PENDING" /\ ran[j] = 0]_vars
  <2> SUFFICES ASSUME Next, NEW j \in Jobs, status[j] \in Terminal
               PROVE  \/ status'[j] = status[j]
                      \/ status[j] = "FAILED_DRIVER" /\ status'[j] = "PENDING" /\ ran[j] = 0
    BY <1>1
  <2>0. status[j] \notin Nonterminal /\ status[j] # "none"
    BY DEF Terminal, Nonterminal
  <2>1. CASE Tick \/ Reboot \/ \E a \in {Skylet, Request} : SchedulerDies(a)
    BY <2>1 DEF Tick, Reboot, SchedulerDies, rows
  <2>2. ASSUME NEW a \in Actors, ScheduleStep(a) PROVE status' = status
    BY <2>2 DEF ScheduleStep, PassOver, HoldQueue, Launch, Launched, rows
  <2>3. ASSUME NEW k \in Jobs, AddJob(k) PROVE status'[j] = status[j]
    BY <1>1, <2>0, <2>3 DEF AddJob, SkyletInv, TypeOK
  <2>4. ASSUME NEW k \in Jobs, QueueJob(k)
        PROVE  \/ status'[j] = status[j]
               \/ status[j] = "FAILED_DRIVER" /\ status'[j] = "PENDING" /\ ran[j] = 0
    <3>1. CASE k # j
      BY <1>1, <2>4, <3>1 DEF QueueJob, SetStatus, SkyletInv, TypeOK
    <3>2. CASE k = j /\ Revivable(j)
      <4>1. status[j] = "FAILED_DRIVER" /\ ran[j] = 0
        BY <1>1, <3>2 DEF Revivable, SkyletInv, RanIsPastClaim
      <4>2. status'[j] = "PENDING"
        BY <1>1, <2>4, <3>2, <4>1 DEF QueueJob, SetStatus, SkyletInv, TypeOK
      <4> QED
        BY <4>1, <4>2
    <3>3. CASE k = j /\ ~Revivable(j)
      BY <2>0, <2>4, <3>3 DEF QueueJob, Nonterminal
    <3> QED
      BY <3>1, <3>2, <3>3
  <2>5. ASSUME NEW k \in Jobs, CancelJob(k) PROVE status'[j] = status[j]
    BY <1>1, <2>0, <2>5 DEF CancelJob, SetStatus, SkyletInv, TypeOK
  <2>6. ASSUME NEW k \in Jobs, UpdateJobStatus(k) PROVE status'[j] = status[j]
    BY <1>1, <2>0, <2>6 DEF UpdateJobStatus, SkyletInv, TypeOK
  <2>7. ASSUME NEW k \in Jobs, ExpireInit(k) PROVE status'[j] = status[j]
    BY <1>1, <2>0, <2>7 DEF ExpireInit, SetStatus, Nonterminal, SkyletInv, TypeOK
  <2>8. ASSUME NEW p \in Procs, Driver(p) PROVE status'[j] = status[j]
    BY <1>1, <2>8, DriverLeavesEnded
  <2>9. ASSUME NEW p \in Procs, DriverDies(p) PROVE status' = status
    BY <2>9 DEF DriverDies, rows
  <2>10. CASE FailAllJobsInProgress
    BY <2>0, <2>10 DEF FailAllJobsInProgress
  <2> QED
    BY <2>1, <2>2, <2>3, <2>4, <2>5, <2>6, <2>7, <2>8, <2>9, <2>10 DEF Next
<1> QED
  BY <1>1, SkyletInvInit, SkyletInvNext, PTL DEF Spec, TerminalStands
=============================================================================
