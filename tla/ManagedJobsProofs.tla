------------------------- MODULE ManagedJobsProofs -------------------------
(***************************************************************************)
(* Proofs about ManagedJobs for every set of jobs, every number of tasks,  *)
(* every pool and any number of crashes and restarts.                      *)
(***************************************************************************)
EXTENDS ManagedJobs, TLAPS

-----------------------------------------------------------------------------
(* Types.                                                                  *)

(* The UPDATEs of state.py map task rows to task rows. *)
LEMMA RowsTyped ==
    ASSUME NEW r \in [Tasks -> Statuses]
    PROVE  /\ SetCancelling(r) \in [Tasks -> Statuses]
           /\ SetCancelled(r) \in [Tasks -> Statuses]
           /\ FailUnended(r) \in [Tasks -> Statuses]
           /\ FailAll(r) \in [Tasks -> Statuses]
           /\ CancelPending(r) \in [Tasks -> Statuses]
           /\ \A c \in BOOLEAN : FinalRows(r, c) \in [Tasks -> Statuses]
           /\ \A t \in Tasks, st \in Statuses :
                 /\ FailTask(r, t, st) \in [Tasks -> Statuses]
                 /\ [r EXCEPT ![t] = st] \in [Tasks -> Statuses]
BY DEF SetCancelling, SetCancelled, FailUnended, FailAll, CancelPending,
       FinalRows, FailTask, Statuses, Terminal, Unended

(* What run_job_loop and run resume a coroutine with is a coroutine state. *)
LEMMA CoTyped ==
    /\ Off \in CoStates
    /\ \A pc \in CoPcs : At(pc) \in CoStates
    /\ \A pc \in CoPcs, t \in Tasks : AtTask(pc, t) \in CoStates
    /\ \A t \in Tasks : NextTask(t) \in CoStates
    /\ \A c \in CoStates, pc \in CoPcs, b \in BOOLEAN, d \in BOOLEAN :
          /\ [c EXCEPT !.pc = pc] \in CoStates
          /\ [c EXCEPT !.pc = pc, !.retry = b] \in CoStates
          /\ [c EXCEPT !.canc = b] \in CoStates
          /\ [c EXCEPT !.rec = b] \in CoStates
          /\ [c EXCEPT !.rec = b, !.keep = d] \in CoStates
<1>1. 1 \in Tasks
  BY NumTasksAssumption DEF Tasks
<1>2. Off \in CoStates
  BY <1>1 DEF Off, CoStates, CoPcs
<1>3. \A pc \in CoPcs, t \in Tasks : AtTask(pc, t) \in CoStates
  BY <1>2 DEF AtTask, CoStates, Off
<1>4. \A pc \in CoPcs : At(pc) \in CoStates
  BY <1>2 DEF At, CoStates, Off
<1>5. \A t \in Tasks : t < NumTasks => t + 1 \in Tasks
  BY NumTasksAssumption DEF Tasks
<1>6. {"task", "exit"} \subseteq CoPcs
  BY DEF CoPcs, Inside, Body
<1>7. \A t \in Tasks : NextTask(t) \in CoStates
  BY <1>3, <1>4, <1>5, <1>6 DEF NextTask
<1>8. \A c \in CoStates, pc \in CoPcs, b \in BOOLEAN, d \in BOOLEAN :
          /\ [c EXCEPT !.pc = pc] \in CoStates
          /\ [c EXCEPT !.pc = pc, !.retry = b] \in CoStates
          /\ [c EXCEPT !.canc = b] \in CoStates
          /\ [c EXCEPT !.rec = b] \in CoStates
          /\ [c EXCEPT !.rec = b, !.keep = d] \in CoStates
  <2> SUFFICES ASSUME NEW c \in CoStates, NEW pc \in CoPcs, NEW b \in BOOLEAN, NEW d \in BOOLEAN
               PROVE  /\ [c EXCEPT !.pc = pc] \in CoStates
                      /\ [c EXCEPT !.pc = pc, !.retry = b] \in CoStates
                      /\ [c EXCEPT !.canc = b] \in CoStates
                      /\ [c EXCEPT !.rec = b] \in CoStates
                      /\ [c EXCEPT !.rec = b, !.keep = d] \in CoStates
    OBVIOUS
  <2>1. [c EXCEPT !.pc = pc] \in CoStates /\ [c EXCEPT !.pc = pc, !.retry = b] \in CoStates
    BY DEF CoStates
  <2>2. [c EXCEPT !.canc = b] \in CoStates /\ [c EXCEPT !.rec = b] \in CoStates
    BY DEF CoStates
  <2>3. [c EXCEPT !.rec = b, !.keep = d] \in CoStates
    BY DEF CoStates
  <2> QED
    BY <2>1, <2>2, <2>3
<1> QED
  BY <1>2, <1>3, <1>4, <1>7, <1>8

(* The program counters, so that no proof below has to expand CoPcs. *)
LEMMA PcsTyped ==
    {"top", "task", "empty", "forced", "want", "restarting", "launch", "launched",
     "monitor", "teardown", "emergency", "doomed", "normalize", "exit", "exited",
     "off", "env", "load", "cancelled", "cleanup", "finalize"} \subseteq CoPcs
BY DEF CoPcs, Inside, Body, Bookkeeping

(* The one variable that every step of a coroutine changes. *)
LEMMA ResumeTyped ==
    ASSUME TypeOK, NEW p \in Procs, NEW j \in Jobs, NEW state \in CoStates,
           Resume(p, j, state)
    PROVE  co' \in [Procs -> [Jobs -> CoStates]]
BY DEF TypeOK, Resume

(* The launch requests left behind keep their type, whatever is added. *)
LEMMA StraysTyped ==
    ASSUME TypeOK
    PROVE  /\ \A p \in Procs, j \in Jobs : LeftBehind(p, j) \in [Tasks -> StrayStates]
           /\ \A j \in Jobs : \A f \in [Tasks -> StrayStates] :
                 [stray EXCEPT ![j] = f] \in [Jobs -> [Tasks -> StrayStates]]
           /\ \A j \in Jobs, t \in Tasks : \A x \in StrayStates :
                 [stray EXCEPT ![j][t] = x] \in [Jobs -> [Tasks -> StrayStates]]
<1>1. stray \in [Jobs -> [Tasks -> StrayStates]]
  BY DEF TypeOK
<1>2. ASSUME NEW p \in Procs, NEW j \in Jobs PROVE LeftBehind(p, j) \in [Tasks -> StrayStates]
  <2>1. stray[j] \in [Tasks -> StrayStates] /\ "live" \in StrayStates
    BY <1>1 DEF StrayStates
  <2>2. [stray[j] EXCEPT ![co[p][j].task] = "live"] \in [Tasks -> StrayStates]
    BY <2>1
  <2> QED
    BY <2>1, <2>2 DEF LeftBehind
<1> QED
  BY <1>1, <1>2

(* Every step of a controller's coroutine for a job keeps the types. *)
LEMMA CoroutineTyped ==
    ASSUME TypeOK, NEW p \in Procs, NEW j \in Jobs, RunStep(p, j) \/ Outcome(p, j)
    PROVE  TypeOK'
<1> DEFINE c == co[p][j]
           t == co[p][j].task
<1>1. c \in CoStates /\ t \in Tasks /\ c.canc \in BOOLEAN
  BY DEF TypeOK, CoStates
<1>2. /\ rows[j] \in [Tasks -> Statuses]
      /\ \A r \in [Tasks -> Statuses] :
            [rows EXCEPT ![j] = r] \in [Jobs -> [Tasks -> Statuses]]
      /\ \A u \in Tasks, st \in Statuses :
            [rows EXCEPT ![j][u] = st] \in [Jobs -> [Tasks -> Statuses]]
  BY DEF TypeOK
<1>3. /\ \A u \in Tasks, b \in BOOLEAN :
            [cluster EXCEPT ![j][u] = b] \in [Jobs -> [Tasks -> BOOLEAN]]
      /\ \A f \in [Tasks -> BOOLEAN] :
            [cluster EXCEPT ![j] = f] \in [Jobs -> [Tasks -> BOOLEAN]]
      /\ \A u \in Tasks : cluster[j][u] \in BOOLEAN
  BY DEF TypeOK
<1>4. {"PENDING", "STARTING", "RUNNING", "RECOVERING", "SUCCEEDED", "FAILED",
       "FAILED_CONTROLLER"} \subseteq Statuses
  BY DEF Statuses, Terminal, Unended
<1>5. \A st \in {"LAUNCHING", "ALIVE", "DONE"} :
          [sched EXCEPT ![j] = st] \in [Jobs -> ScheduleStates]
  BY DEF TypeOK, ScheduleStates
<1>6. CASE LoadEnv(p, j)
  <2>1. co' \in [Procs -> [Jobs -> CoStates]]
    BY <1>6, <1>1, CoTyped, PcsTyped, ResumeTyped DEF LoadEnv
  <2> QED
    BY <1>6, <2>1 DEF TypeOK, LoadEnv, Others, server
<1>7. CASE LoadDag(p, j)
  <2>1. co' \in [Procs -> [Jobs -> CoStates]]
    BY <1>7, <1>1, CoTyped, PcsTyped, ResumeTyped DEF LoadDag
  <2> QED
    BY <1>7, <2>1 DEF TypeOK, LoadDag, Others, server
<1>8. CASE CheckDependencies(p, j)
  <2>1. co' \in [Procs -> [Jobs -> CoStates]]
    BY <1>8, <1>1, CoTyped, PcsTyped, ResumeTyped DEF CheckDependencies
  <2> QED
    BY <1>8, <2>1 DEF TypeOK, CheckDependencies, Others, server
<1>9. CASE SkipTask(p, j)
  <2>1. co' \in [Procs -> [Jobs -> CoStates]]
    BY <1>9, <1>1, CoTyped, PcsTyped, ResumeTyped DEF SkipTask
  <2> QED
    BY <1>9, <2>1 DEF TypeOK, SkipTask, Others, server
<1>10. CASE StartEmptyTask(p, j)
  <2>1. co' \in [Procs -> [Jobs -> CoStates]]
    BY <1>10, <1>1, CoTyped, PcsTyped, ResumeTyped DEF StartEmptyTask
  <2>2. rows' \in [Jobs -> [Tasks -> Statuses]]
    BY <1>10, <1>1, <1>2, <1>4, RowsTyped DEF StartEmptyTask
  <2> QED
    BY <1>10, <2>1, <2>2 DEF TypeOK, StartEmptyTask, Others, server
<1>11. CASE FinishEmptyTask(p, j)
  <2>1. co' \in [Procs -> [Jobs -> CoStates]]
    BY <1>11, <1>1, CoTyped, PcsTyped, ResumeTyped DEF FinishEmptyTask
  <2>2. rows' \in [Jobs -> [Tasks -> Statuses]]
    BY <1>11, <1>1, <1>2, <1>4, RowsTyped DEF FinishEmptyTask
  <2> QED
    BY <1>11, <2>1, <2>2 DEF TypeOK, FinishEmptyTask, Others, server
<1>12. CASE StartTask(p, j)
  <2>1. co' \in [Procs -> [Jobs -> CoStates]]
    BY <1>12, <1>1, CoTyped, PcsTyped, ResumeTyped DEF StartTask
  <2>2. rows' \in [Jobs -> [Tasks -> Statuses]]
    BY <1>12, <1>1, <1>2, <1>4, RowsTyped DEF StartTask
  <2>3. submitted' \in [Jobs -> [Tasks -> BOOLEAN]]
    BY <1>12, <1>1 DEF TypeOK, StartTask
  <2> QED
    BY <1>12, <2>1, <2>2, <2>3 DEF TypeOK, StartTask, Others, server
<1>13. CASE ResumeTask(p, j)
  <2>1. co' \in [Procs -> [Jobs -> CoStates]]
    BY <1>13, <1>1, CoTyped, PcsTyped, ResumeTyped DEF ResumeTask
  <2> QED
    BY <1>13, <2>1 DEF TypeOK, ResumeTask, Others, server
<1>14. CASE ForceRecovery(p, j)
  <2>1. co' \in [Procs -> [Jobs -> CoStates]]
    BY <1>14, <1>1, CoTyped, PcsTyped, ResumeTyped DEF ForceRecovery
  <2>2. cluster' \in [Jobs -> [Tasks -> BOOLEAN]]
    BY <1>14, <1>1, <1>3 DEF ForceRecovery
  <2> QED
    BY <1>14, <2>1, <2>2 DEF TypeOK, ForceRecovery, Others, server
<1>15. CASE EnterLaunch(p, j)
  <2>1. co' \in [Procs -> [Jobs -> CoStates]]
    BY <1>15, <1>1, CoTyped, PcsTyped, ResumeTyped DEF EnterLaunch
  <2>2. sched' \in [Jobs -> ScheduleStates]
    BY <1>15, <1>5 DEF EnterLaunch
  <2> QED
    BY <1>15, <2>1, <2>2 DEF TypeOK, EnterLaunch, Others, server
<1>16. CASE SetRestarting(p, j)
  <2>1. co' \in [Procs -> [Jobs -> CoStates]]
    BY <1>16, <1>1, CoTyped, PcsTyped, ResumeTyped DEF SetRestarting
  <2>2. rows' \in [Jobs -> [Tasks -> Statuses]]
    BY <1>16, <1>1, <1>2, <1>4, RowsTyped DEF SetRestarting
  <2> QED
    BY <1>16, <2>1, <2>2 DEF TypeOK, SetRestarting, Others, server
<1>17. CASE SetRunning(p, j)
  <2>1. co' \in [Procs -> [Jobs -> CoStates]]
    BY <1>17, <1>1, CoTyped, PcsTyped, ResumeTyped DEF SetRunning
  <2>2. rows' \in [Jobs -> [Tasks -> Statuses]]
    BY <1>17, <1>1, <1>2, <1>4, RowsTyped DEF SetRunning
  <2> QED
    BY <1>17, <2>1, <2>2 DEF TypeOK, SetRunning, Others, server
<1>18. CASE TearDown(p, j)
  <2>1. co' \in [Procs -> [Jobs -> CoStates]]
    BY <1>18, <1>1, CoTyped, PcsTyped, ResumeTyped DEF TearDown
  <2>2. cluster' \in [Jobs -> [Tasks -> BOOLEAN]]
    BY <1>18, <1>1, <1>3 DEF TearDown
  <2> QED
    BY <1>18, <2>1, <2>2 DEF TypeOK, TearDown, Others, server
<1>19. CASE EmergencyKeep(p, j)
  <2>1. co' \in [Procs -> [Jobs -> CoStates]]
    BY <1>19, <1>1, CoTyped, PcsTyped, ResumeTyped DEF EmergencyKeep
  <2> QED
    BY <1>19, <2>1 DEF TypeOK, EmergencyKeep, Others, server
<1>20. CASE EmergencyRelaunch(p, j)
  <2>1. co' \in [Procs -> [Jobs -> CoStates]]
    BY <1>20, <1>1, CoTyped, PcsTyped, ResumeTyped DEF EmergencyRelaunch
  <2>2. rows' \in [Jobs -> [Tasks -> Statuses]]
    BY <1>20, <1>1, <1>2, <1>4, RowsTyped DEF EmergencyRelaunch
  <2> QED
    BY <1>20, <2>1, <2>2 DEF TypeOK, EmergencyRelaunch, Others, server
<1>21. CASE EmergencyFastRetry(p, j)
  <2>1. co' \in [Procs -> [Jobs -> CoStates]]
    BY <1>21, <1>1, CoTyped, PcsTyped, ResumeTyped DEF EmergencyFastRetry
  <2> QED
    BY <1>21, <2>1 DEF TypeOK, EmergencyFastRetry, Others, server
<1>22. CASE EmergencyTearDown(p, j)
  <2>1. co' \in [Procs -> [Jobs -> CoStates]]
    BY <1>22, <1>1, CoTyped, PcsTyped, ResumeTyped DEF EmergencyTearDown
  <2>2. \E u \in Tasks, b \in BOOLEAN : cluster' = [cluster EXCEPT ![j][u] = b]
    BY <1>22, <1>3, Zenon DEF EmergencyTearDown
  <2>3. cluster' \in [Jobs -> [Tasks -> BOOLEAN]]
    BY <1>3, <2>2
  <2> QED
    BY <1>22, <2>1, <2>2, <2>3 DEF TypeOK, EmergencyTearDown, Others, server
<1>23. CASE Normalize(p, j)
  <2>1. co' \in [Procs -> [Jobs -> CoStates]]
    BY <1>23, <1>1, CoTyped, PcsTyped, ResumeTyped DEF Normalize
  <2>2. sched' \in [Jobs -> ScheduleStates]
    BY <1>23 DEF TypeOK, Normalize, ScheduleStates
  <2> QED
    BY <1>23, <2>1, <2>2 DEF TypeOK, Normalize, Others, server
<1>24. CASE ExitCancelling(p, j)
  <2>1. co' \in [Procs -> [Jobs -> CoStates]]
    BY <1>24, <1>1, CoTyped, PcsTyped, ResumeTyped DEF ExitCancelling
  <2>2. rows' \in [Jobs -> [Tasks -> Statuses]]
    BY <1>24, <1>1, <1>2, <1>4, RowsTyped DEF ExitCancelling
  <2> QED
    BY <1>24, <2>1, <2>2 DEF TypeOK, ExitCancelling, Others, server
<1>25. CASE ExitCancelled(p, j)
  <2>1. co' \in [Procs -> [Jobs -> CoStates]]
    BY <1>25, <1>1, CoTyped, PcsTyped, ResumeTyped DEF ExitCancelled
  <2>2. rows' \in [Jobs -> [Tasks -> Statuses]]
    BY <1>25, <1>1, <1>2, <1>4, RowsTyped DEF ExitCancelled
  <2> QED
    BY <1>25, <2>1, <2>2 DEF TypeOK, ExitCancelled, Others, server
<1>26. CASE CancelledRun(p, j)
  <2>1. co' \in [Procs -> [Jobs -> CoStates]]
    BY <1>26, <1>1, CoTyped, PcsTyped, ResumeTyped DEF CancelledRun
  <2>2. rows' \in [Jobs -> [Tasks -> Statuses]]
    BY <1>26, <1>1, <1>2, <1>4, RowsTyped DEF CancelledRun
  <2> QED
    BY <1>26, <2>1, <2>2 DEF TypeOK, CancelledRun, Others, server
<1>27. CASE Cleanup(p, j)
  <2>1. co' \in [Procs -> [Jobs -> CoStates]]
    BY <1>27, <1>1, CoTyped, PcsTyped, ResumeTyped DEF Cleanup
  <2>2. cluster' \in [Jobs -> [Tasks -> BOOLEAN]]
    BY <1>27, <1>1, <1>3 DEF Cleanup
  <2> QED
    BY <1>27, <2>1, <2>2 DEF TypeOK, Cleanup, Others, server
<1>28. CASE FinalizeJob(p, j)
  <2>1. co' \in [Procs -> [Jobs -> CoStates]]
    BY <1>28, <1>1, CoTyped, PcsTyped, ResumeTyped DEF FinalizeJob
  <2>2. rows' \in [Jobs -> [Tasks -> Statuses]]
    BY <1>28, <1>1, <1>2, <1>4, RowsTyped DEF FinalizeJob
  <2>3. sched' \in [Jobs -> ScheduleStates]
    BY <1>28, <1>5 DEF FinalizeJob
  <2> QED
    BY <1>28, <2>1, <2>2, <2>3 DEF TypeOK, FinalizeJob, Others, server
<1>29. CASE LoadEnvFails(p, j)
  <2>1. co' \in [Procs -> [Jobs -> CoStates]]
    BY <1>29, <1>1, CoTyped, PcsTyped, ResumeTyped DEF LoadEnvFails
  <2> QED
    BY <1>29, <2>1 DEF TypeOK, LoadEnvFails, Others, server
<1>30. CASE LoadDagFails(p, j)
  <2>1. co' \in [Procs -> [Jobs -> CoStates]]
    BY <1>30, <1>1, CoTyped, PcsTyped, ResumeTyped DEF LoadDagFails
  <2> QED
    BY <1>30, <2>1 DEF TypeOK, LoadDagFails, Others, server
<1>31. CASE Provision(p, j)
  <2>1. cluster' \in [Jobs -> [Tasks -> BOOLEAN]]
    BY <1>31, <1>1, <1>3 DEF Provision
  <2>2. stray' \in [Jobs -> [Tasks -> StrayStates]]
    BY <1>31, <1>1 DEF Provision, TypeOK, StrayStates
  <2> QED
    BY <1>31, <2>1, <2>2 DEF TypeOK, Provision, OthersButStray, server
<1>32. CASE LaunchSucceeds(p, j)
  <2>1. co' \in [Procs -> [Jobs -> CoStates]]
    BY <1>32, <1>1, CoTyped, PcsTyped, ResumeTyped DEF LaunchSucceeds
  <2>2. sched' \in [Jobs -> ScheduleStates]
    BY <1>32, <1>5 DEF LaunchSucceeds
  <2> QED
    BY <1>32, <2>1, <2>2 DEF TypeOK, LaunchSucceeds, Others, server
<1>33. CASE LaunchBacksOff(p, j)
  <2>1. co' \in [Procs -> [Jobs -> CoStates]]
    BY <1>33, <1>1, CoTyped, PcsTyped, ResumeTyped DEF LaunchBacksOff
  <2>2. rows' \in [Jobs -> [Tasks -> Statuses]]
    BY <1>33, <1>1, <1>2, <1>4, RowsTyped DEF LaunchBacksOff
  <2>3. \E b \in BOOLEAN : cluster' = [cluster EXCEPT ![j][t] = b]
    BY <1>33, <1>1, <1>3, Zenon DEF LaunchBacksOff
  <2>4. cluster' \in [Jobs -> [Tasks -> BOOLEAN]]
    BY <1>1, <1>3, <2>3
  <2>5. stray' \in [Jobs -> [Tasks -> StrayStates]]
    BY <1>33, StraysTyped DEF LaunchBacksOff
  <2> QED
    BY <1>33, <2>1, <2>2, <2>3, <2>4, <2>5 DEF TypeOK, LaunchBacksOff, OthersButStray, server
<1>34. CASE LaunchRaises(p, j)
  <2>1. co' \in [Procs -> [Jobs -> CoStates]]
    BY <1>34, <1>1, CoTyped, PcsTyped, ResumeTyped DEF LaunchRaises
  <2>2. rows' \in [Jobs -> [Tasks -> Statuses]]
    BY <1>34, <1>1, <1>2, <1>4, RowsTyped DEF LaunchRaises
  <2> QED
    BY <1>34, <2>1, <2>2 DEF TypeOK, LaunchRaises, Others, server
<1>35. CASE TaskSucceeds(p, j)
  <2>1. co' \in [Procs -> [Jobs -> CoStates]]
    BY <1>35, <1>1, CoTyped, PcsTyped, ResumeTyped DEF TaskSucceeds
  <2>2. rows' \in [Jobs -> [Tasks -> Statuses]]
    BY <1>35, <1>1, <1>2, <1>4, RowsTyped DEF TaskSucceeds
  <2> QED
    BY <1>35, <2>1, <2>2 DEF TypeOK, TaskSucceeds, Others, server
<1>36. CASE TaskFails(p, j)
  <2>1. co' \in [Procs -> [Jobs -> CoStates]]
    BY <1>36, <1>1, CoTyped, PcsTyped, ResumeTyped DEF TaskFails
  <2>2. PICK st \in {"FAILED", "FAILED_CONTROLLER"} :
           rows' = [rows EXCEPT ![j] = FailTask(@, t, st)]
    BY <1>36 DEF TaskFails
  <2>3. rows' \in [Jobs -> [Tasks -> Statuses]]
    BY <2>2, <1>1, <1>2, <1>4, RowsTyped
  <2> QED
    BY <1>36, <2>1, <2>3 DEF TypeOK, TaskFails, Others, server
<1>37. CASE TaskRecovers(p, j)
  <2>1. co' \in [Procs -> [Jobs -> CoStates]]
    BY <1>37, <1>1, CoTyped, PcsTyped, ResumeTyped DEF TaskRecovers
  <2>2. rows' \in [Jobs -> [Tasks -> Statuses]]
    BY <1>37, <1>1, <1>2, <1>4, RowsTyped DEF TaskRecovers
  <2>3. \E b \in BOOLEAN : cluster' = [cluster EXCEPT ![j][t] = b]
    BY <1>37, <1>1, <1>3, Zenon DEF TaskRecovers
  <2>4. cluster' \in [Jobs -> [Tasks -> BOOLEAN]]
    BY <1>1, <1>3, <2>3
  <2> QED
    BY <1>37, <2>1, <2>2, <2>3, <2>4 DEF TypeOK, TaskRecovers, Others, server
<1>38. CASE EmergencySpend(p, j)
  <2>1. co' \in [Procs -> [Jobs -> CoStates]]
    BY <1>38, <1>1, CoTyped, PcsTyped, ResumeTyped DEF EmergencySpend
  <2>2. emerg' \in [Jobs -> 0..MaxEmergency]
    BY <1>38, ConstantsAssumption DEF TypeOK, EmergencySpend
  <2>5. stray' \in [Jobs -> [Tasks -> StrayStates]]
    BY <1>38, StraysTyped DEF EmergencySpend
  <2> QED
    BY <1>38, <2>1, <2>2, <2>5 DEF TypeOK, EmergencySpend, OthersButStray, server
<1>39. CASE EmergencyExhausted(p, j)
  <2>1. co' \in [Procs -> [Jobs -> CoStates]]
    BY <1>39, <1>1, CoTyped, PcsTyped, ResumeTyped DEF EmergencyExhausted
  <2>a. FailTask(rows[j], t, "FAILED_CONTROLLER") \in [Tasks -> Statuses]
    BY <1>1, <1>2, <1>4, RowsTyped
  <2>2. rows' \in [Jobs -> [Tasks -> Statuses]]
    BY <1>39, <1>2, <2>a DEF EmergencyExhausted
  <2>5. stray' \in [Jobs -> [Tasks -> StrayStates]]
    BY <1>39, StraysTyped DEF EmergencyExhausted
  <2> QED
    BY <1>39, <2>1, <2>2, <2>5 DEF TypeOK, EmergencyExhausted, OthersButStray, server
<1>40. CASE CleanupFails(p, j)
  <2>1. co' \in [Procs -> [Jobs -> CoStates]]
    BY <1>40, <1>1, CoTyped, PcsTyped, ResumeTyped DEF CleanupFails
  <2>2. rows' \in [Jobs -> [Tasks -> Statuses]]
    BY <1>40, <1>1, <1>2, <1>4, RowsTyped DEF CleanupFails
  <2>3. cluster' \in [Jobs -> [Tasks -> BOOLEAN]]
    BY <1>40, <1>1, <1>3 DEF CleanupFails
  <2> QED
    BY <1>40, <2>1, <2>2, <2>3 DEF TypeOK, CleanupFails, Others, server
<1>41. CASE PrepareFails(p, j)
  <2>1. co' \in [Procs -> [Jobs -> CoStates]]
    BY <1>41, <1>1, CoTyped, PcsTyped, ResumeTyped DEF PrepareFails
  <2>2. rows' \in [Jobs -> [Tasks -> Statuses]]
    BY <1>41, <1>1, <1>2, <1>4, RowsTyped DEF PrepareFails
  <2> QED
    BY <1>41, <2>1, <2>2 DEF TypeOK, PrepareFails, Others, server
<1>42. CASE RelaunchGivesUp(p, j)
  <2>1. co' \in [Procs -> [Jobs -> CoStates]]
    BY <1>42, <1>1, CoTyped, PcsTyped, ResumeTyped DEF RelaunchGivesUp
  <2>2. sched' \in [Jobs -> ScheduleStates]
    BY <1>42, <1>5 DEF RelaunchGivesUp
  <2>3. \E b \in BOOLEAN : cluster' = [cluster EXCEPT ![j][t] = b]
    BY <1>42, <1>1, <1>3, Zenon DEF RelaunchGivesUp
  <2>4. cluster' \in [Jobs -> [Tasks -> BOOLEAN]]
    BY <1>1, <1>3, <2>3
  <2>5. stray' \in [Jobs -> [Tasks -> StrayStates]]
    BY <1>42, StraysTyped DEF RelaunchGivesUp
  <2> QED
    BY <1>42, <2>1, <2>2, <2>4, <2>5 DEF TypeOK, RelaunchGivesUp, OthersButStray, server
<1>43. CASE UnwindFails(p, j)
  <2>1. co' \in [Procs -> [Jobs -> CoStates]]
    BY <1>43, <1>1, CoTyped, PcsTyped, ResumeTyped DEF UnwindFails
  <2>2. rows' \in [Jobs -> [Tasks -> Statuses]]
    BY <1>43, <1>1, <1>2, <1>4, RowsTyped DEF UnwindFails
  <2> QED
    BY <1>43, <2>1, <2>2 DEF TypeOK, UnwindFails, Others, server
<1> QED
  BY <1>6, <1>7, <1>8, <1>9, <1>10, <1>11, <1>12, <1>13, <1>14, <1>15,
     <1>16, <1>17, <1>18, <1>19, <1>20, <1>21, <1>22, <1>23, <1>24, <1>25,
     <1>26, <1>27, <1>28, <1>29, <1>30, <1>31, <1>32, <1>33, <1>34, <1>35,
     <1>36, <1>37, <1>38, <1>39, <1>40, <1>41, <1>42, <1>43
     DEF RunStep, Outcome

(* Submitting and cancelling keep the types. *)
LEMMA UsersTyped ==
    ASSUME TypeOK, NEW j \in Jobs, Submission(j) \/ UserCancel(j) \/ SweepTick(j)
    PROVE  TypeOK'
<1>1. \A st \in ScheduleStates : [sched EXCEPT ![j] = st] \in [Jobs -> ScheduleStates]
  BY DEF TypeOK
<1>2. CASE SetJobInfo(j)
  BY <1>1, <1>2 DEF TypeOK, SetJobInfo, ScheduleStates, ctrl, server
<1>3. ASSUME NEW t \in Tasks, SetPending(j, t) PROVE TypeOK'
  <2>1. rows' \in [Jobs -> [Tasks -> Statuses]]
    BY <1>3 DEF TypeOK, SetPending, Statuses, Unended
  <2> QED
    BY <1>3, <2>1 DEF TypeOK, SetPending, ctrl, server
<1>4. CASE SubmitJob(j)
  BY <1>1, <1>4 DEF TypeOK, SubmitJob, ScheduleStates, ctrl, server
<1>5. CASE CancelRequest(j)
  <2>1. user' \in [pc: {"idle", "pending", "sweep", "sweeping", "signal"},
                   job: Jobs \cup {NoJob}]
    BY <1>5 DEF CancelRequest
  <2> QED
    BY <1>5, <2>1 DEF TypeOK, CancelRequest, db, ctrl
<1>6. CASE SetPendingCancelled(j)
  <2>1. /\ user = [pc |-> "pending", job |-> j]
        /\ UNCHANGED <<owner, submitted, emerg, cluster, stray, signal, ctrl,
                       daemon, snap, restarts, sweep>>
    BY <1>6 DEF SetPendingCancelled
  <2>2. CASE PendingCancellable(sched[j], rows[j], submitted[j])
    <3>1. /\ rows' = [rows EXCEPT ![j] = CancelPending(rows[j])]
          /\ sched' = [sched EXCEPT ![j] = IF @ = "WAITING" THEN "DONE" ELSE @]
          /\ user' = [pc |-> "idle", job |-> NoJob]
      BY <1>6, <2>2 DEF SetPendingCancelled, IdleUser
    <3>2. CancelPending(rows[j]) \in [Tasks -> Statuses]
      BY RowsTyped DEF TypeOK
    <3>3. rows' \in [Jobs -> [Tasks -> Statuses]]
      BY <3>1, <3>2 DEF TypeOK
    <3>4. sched' \in [Jobs -> ScheduleStates]
      BY <3>1 DEF TypeOK, ScheduleStates
    <3> QED
      BY <2>1, <3>1, <3>3, <3>4 DEF TypeOK, ctrl
  <2>3. CASE ~PendingCancellable(sched[j], rows[j], submitted[j])
    <3>1. user' = [pc |-> "sweep", job |-> j] /\ UNCHANGED <<sched, rows>>
      BY <1>6, <2>1, <2>3 DEF SetPendingCancelled
    <3> QED
      BY <2>1, <3>1 DEF TypeOK, ctrl
  <2> QED
    BY <2>2, <2>3
<1>7. ASSUME NEW a \in SweepActors, SweepRead(a, j) PROVE
        sweep' \in [SweepActors ->
                      [pc: {"idle", "read", "orphan", "failing", "done"},
                       job: Jobs \cup {NoJob}, pid: Procs \cup {NoProc}]]
  BY <1>7 DEF TypeOK, SweepRead
<1>8. CASE SweepRequest(j)
  <2>1. user' \in [pc: {"idle", "pending", "sweep", "sweeping", "signal"},
                   job: Jobs \cup {NoJob}]
    BY <1>8 DEF TypeOK, SweepRequest
  <2> QED
    BY <1>7, <1>8, <2>1 DEF TypeOK, SweepRequest, SweepActors, db, ctrl
<1>9. CASE SweepSkip(j)
  <2>1. user' \in [pc: {"idle", "pending", "sweep", "sweeping", "signal"},
                   job: Jobs \cup {NoJob}]
    BY <1>9 DEF TypeOK, SweepSkip
  <2> QED
    BY <1>9, <2>1 DEF TypeOK, SweepSkip, db, ctrl
<1>10. CASE TouchSignal(j)
  BY <1>10 DEF TypeOK, TouchSignal, IdleUser, db, ctrl
<1>11. CASE SweepTick(j)
  BY <1>7, <1>11 DEF TypeOK, SweepTick, SweepActors, db, ctrl
<1> QED
  BY <1>2, <1>3, <1>4, <1>5, <1>6, <1>8, <1>9, <1>10, <1>11 DEF Submission, UserCancel

(* A call of update_managed_jobs_statuses works on a job.  TypeOK alone     *)
(* does not say so, and the steps of the call need it.                      *)
SweepHasJob == \A a \in SweepActors : sweep[a].pc # "idle" => sweep[a].job \in Jobs

(* The steps of update_managed_jobs_statuses keep the types. *)
LEMMA SweepTyped ==
    ASSUME TypeOK, SweepHasJob, NEW a \in SweepActors, SweepStep(a)
    PROVE  TypeOK'
<1> DEFINE k == sweep[a].job
<1>1. ASSUME EndSweep(a) PROVE
        /\ sweep' \in [SweepActors ->
                      [pc: {"idle", "read", "orphan", "failing", "done"},
                       job: Jobs \cup {NoJob}, pid: Procs \cup {NoProc}]]
        /\ user' \in [pc: {"idle", "pending", "sweep", "sweeping", "signal"},
                      job: Jobs \cup {NoJob}]
  <2>1. IdleSweep \in [pc: {"idle", "read", "orphan", "failing", "done"},
                       job: Jobs \cup {NoJob}, pid: Procs \cup {NoProc}]
    BY DEF IdleSweep
  <2> QED
    BY <1>1, <2>1 DEF TypeOK, EndSweep
<1>2. \A pc \in {"orphan", "failing", "done"} :
        [sweep EXCEPT ![a].pc = pc] \in
            [SweepActors -> [pc: {"idle", "read", "orphan", "failing", "done"},
                             job: Jobs \cup {NoJob}, pid: Procs \cup {NoProc}]]
  <2> DEFINE Calls == [pc: {"idle", "read", "orphan", "failing", "done"},
                       job: Jobs \cup {NoJob}, pid: Procs \cup {NoProc}]
  <2> SUFFICES ASSUME NEW pc \in {"orphan", "failing", "done"}
               PROVE  [sweep EXCEPT ![a].pc = pc] \in [SweepActors -> Calls]
    OBVIOUS
  <2>1. sweep \in [SweepActors -> Calls]
    BY DEF TypeOK
  <2>2. [sweep[a] EXCEPT !.pc = pc] \in Calls
    BY <2>1
  <2> HIDE DEF Calls
  <2> QED
    BY <2>1, <2>2
<1>3. CASE SweepSpare(a)
  BY <1>1, <1>3 DEF TypeOK, SweepSpare, db, ctrl
<1>4. CASE SweepOrphan(a)
  BY <1>2, <1>4 DEF TypeOK, SweepOrphan, db, ctrl
<1>5. CASE SweepCleanup(a)
  <2>1. k \in Jobs
    BY <1>5 DEF SweepHasJob, SweepCleanup
  <2>2. cluster' \in [Jobs -> [Tasks -> BOOLEAN]]
    BY <1>5, <2>1 DEF TypeOK, SweepCleanup
  <2> QED
    BY <1>2, <1>5, <2>2 DEF TypeOK, SweepCleanup, db, ctrl
<1>6. CASE SweepFail(a)
  <2>1. k \in Jobs
    BY <1>6 DEF SweepHasJob, SweepFail
  <2>2. rows' \in [Jobs -> [Tasks -> Statuses]]
    BY <1>6, <2>1, RowsTyped DEF TypeOK, SweepFail
  <2> QED
    BY <1>2, <1>6, <2>2 DEF TypeOK, SweepFail, ctrl
<1>7. CASE SweepDone(a)
  <2>1. sched' \in [Jobs -> ScheduleStates]
    BY <1>7 DEF TypeOK, SweepDone, ScheduleStates
  <2> QED
    BY <1>1, <1>7, <2>1 DEF TypeOK, SweepDone, ctrl
<1> QED
  BY <1>3, <1>4, <1>5, <1>6, <1>7 DEF SweepStep

(* Starting, crashing and recovering processes keeps the types. *)
LEMMA ProcessesTyped ==
    ASSUME TypeOK,
           \/ DaemonStep \/ RecoveryRaises \/ RestartServer
           \/ \E p \in Procs : StartController(p) \/ CrashController(p)
    PROVE  TypeOK'
<1>1. ASSUME NEW p \in Procs, StartController(p) PROVE TypeOK'
  BY <1>1 DEF TypeOK, StartController, db, server
<1>2. ASSUME NEW p \in Procs, CrashController(p) PROVE TypeOK'
  <2>1. co' \in [Procs -> [Jobs -> CoStates]]
    BY <1>2, CoTyped DEF TypeOK, CrashController
  <2>2. mon' \in [Procs -> [pc: {"idle", "claimed", "cancelling"},
                            job: Jobs \cup {NoJob}]]
    BY <1>2 DEF TypeOK, CrashController
  <2>3. stray' \in [Jobs -> [Tasks -> StrayStates]]
    BY <1>2, StraysTyped DEF CrashController
  <2> QED
    BY <1>2, <2>1, <2>2, <2>3 DEF TypeOK, CrashController, db, server
<1>3. CASE RestartServer
  <2>1. restarts' \in 0..MaxRestarts
    BY <1>3, ConstantsAssumption DEF TypeOK, RestartServer
  <2>2. sweep' \in [SweepActors ->
                      [pc: {"idle", "read", "orphan", "failing", "done"},
                       job: Jobs \cup {NoJob}, pid: Procs \cup {NoProc}]]
    BY <1>3 DEF RestartServer, IdleSweep
  <2> QED
    BY <1>3, <2>1, <2>2 DEF TypeOK, RestartServer, IdleUser, db, ctrl
<1>4. CASE PoolStarted
  BY <1>4 DEF TypeOK, PoolStarted, db, ctrl
<1>5. CASE ScanOrphans
  <2>1. snap' \subseteq SnapRows
    BY <1>5 DEF TypeOK, ScanOrphans, SnapRows
  <2> QED
    BY <1>5, <2>1 DEF TypeOK, ScanOrphans, db, ctrl
<1>6. ASSUME NEW r \in snap, ResetJob(r) PROVE TypeOK'
  <2>1. sched' \in [Jobs -> ScheduleStates] /\ owner' \in [Jobs -> Procs \cup {NoProc}]
    BY <1>6 DEF TypeOK, ResetJob, ScheduleStates
  <2> QED
    BY <1>6, <2>1 DEF TypeOK, ResetJob, ctrl
<1>7. CASE OpenGate \/ RetryRecovery
  BY <1>7 DEF TypeOK, OpenGate, RetryRecovery, db, ctrl
<1>8. CASE RecoveryRaises
  <2>1. restarts' \in 0..MaxRestarts
    BY <1>8, ConstantsAssumption DEF TypeOK, RecoveryRaises
  <2> QED
    BY <1>8, <2>1 DEF TypeOK, RecoveryRaises, db, ctrl
<1> QED
  BY <1>1, <1>2, <1>3, <1>4, <1>5, <1>6, <1>7, <1>8 DEF DaemonStep

(* The steps of monitor_loop and cancel_job keep the types. *)
LEMMA MonitorTyped ==
    ASSUME TypeOK, NEW p \in Procs, NEW j \in Jobs, MonitorLoop(p, j) \/ CancelJob(p, j)
    PROVE  TypeOK'
<1>1. /\ \A pc \in {"idle", "claimed", "cancelling"}, k \in Jobs \cup {NoJob} :
            [mon EXCEPT ![p] = [pc |-> pc, job |-> k]] \in
                [Procs -> [pc: {"idle", "claimed", "cancelling"}, job: Jobs \cup {NoJob}]]
      /\ [mon EXCEPT ![p].pc = "cancelling"] \in
                [Procs -> [pc: {"idle", "claimed", "cancelling"}, job: Jobs \cup {NoJob}]]
  BY DEF TypeOK
<1>2. CASE Claim(p, j)
  <2>1. sched' \in [Jobs -> ScheduleStates] /\ owner' \in [Jobs -> Procs \cup {NoProc}]
    BY <1>2 DEF TypeOK, Claim, ScheduleStates
  <2> QED
    BY <1>1, <1>2, <2>1 DEF TypeOK, Claim, server
<1>3. CASE StartJob(p, j)
  <2>1. co' \in [Procs -> [Jobs -> CoStates]]
    BY <1>3, CoTyped, PcsTyped DEF TypeOK, StartJob
  <2> QED
    BY <1>1, <1>3, <2>1 DEF TypeOK, StartJob, db, server
<1>4. CASE MonitorCancelling(p, j)
  <2>1. rows' \in [Jobs -> [Tasks -> Statuses]]
    BY <1>4, RowsTyped DEF TypeOK, MonitorCancelling
  <2> QED
    BY <1>1, <1>4, <2>1 DEF TypeOK, MonitorCancelling, server
<1>5. CASE MonitorCancelled(p, j)
  <2>1. rows' \in [Jobs -> [Tasks -> Statuses]]
    BY <1>5, RowsTyped DEF TypeOK, MonitorCancelled
  <2> QED
    BY <1>1, <1>5, <2>1 DEF TypeOK, MonitorCancelled, server
<1>6. CASE CancelJob(p, j)
  <2>1. co' \in [Procs -> [Jobs -> CoStates]]
    <3> DEFINE n == IF co[p][j].pc \in Inside THEN At("cancelled") ELSE co[p][j]
    <3>1. co' = [co EXCEPT ![p][j] = n] /\ co \in [Procs -> [Jobs -> CoStates]]
      BY <1>6 DEF CancelJob, TypeOK
    <3>2. n \in CoStates
      BY <3>1, CoTyped, PcsTyped
    <3> HIDE DEF n
    <3> QED
      BY <3>1, <3>2
  <2>2. stray' \in [Jobs -> [Tasks -> StrayStates]]
    BY <1>6, StraysTyped DEF CancelJob
  <2> QED
    BY <1>6, <2>1, <2>2 DEF TypeOK, CancelJob, db, server
<1> QED
  BY <1>2, <1>3, <1>4, <1>5, <1>6 DEF MonitorLoop

-----------------------------------------------------------------------------
(* The types hold initially. *)
LEMMA TypeInit == Init => TypeOK /\ SweepHasJob
<1> SUFFICES ASSUME Init PROVE TypeOK /\ SweepHasJob
  OBVIOUS
<1>1. co \in [Procs -> [Jobs -> CoStates]]
  BY CoTyped DEF Init
<1>2. rows \in [Jobs -> [Tasks -> Statuses]] /\ sched \in [Jobs -> ScheduleStates]
  BY DEF Init, Statuses, ScheduleStates
<1>3. emerg \in [Jobs -> 0..MaxEmergency] /\ restarts \in 0..MaxRestarts
  BY ConstantsAssumption DEF Init
<1>4. SweepHasJob
  BY DEF Init, SweepHasJob, IdleSweep
<1>5. sweep \in [SweepActors ->
                   [pc: {"idle", "read", "orphan", "failing", "done"},
                    job: Jobs \cup {NoJob}, pid: Procs \cup {NoProc}]]
  BY DEF Init, IdleSweep
<1>6. user \in [pc: {"idle", "pending", "sweep", "sweeping", "signal"},
                job: Jobs \cup {NoJob}]
  BY DEF Init, IdleUser
<1>7. stray \in [Jobs -> [Tasks -> StrayStates]]
  BY DEF Init, StrayStates
<1> QED
  BY <1>1, <1>2, <1>3, <1>4, <1>5, <1>6, <1>7 DEF Init, TypeOK

(* Only a step of the sweep itself or a restart of the server changes what  *)
(* a call of update_managed_jobs_statuses works on.                         *)
LEMMA CoroutineSparesServer ==
    ASSUME NEW p \in Procs, NEW j \in Jobs,
           MonitorLoop(p, j) \/ CancelJob(p, j) \/ RunStep(p, j) \/ Outcome(p, j)
    PROVE  UNCHANGED server
<1>1. CASE MonitorLoop(p, j) \/ CancelJob(p, j)
  BY <1>1 DEF MonitorLoop, CancelJob, Claim, StartJob, MonitorCancelling, MonitorCancelled
<1>2. CASE RunStep(p, j)
  BY <1>2 DEF RunStep, Others, LoadEnv, LoadDag, CheckDependencies, SkipTask,
     StartEmptyTask, FinishEmptyTask, StartTask, ResumeTask, ForceRecovery,
     EnterLaunch, SetRestarting, SetRunning, TearDown, EmergencyKeep,
     EmergencyRelaunch, EmergencyFastRetry, EmergencyTearDown, Normalize,
     ExitCancelling, ExitCancelled, CancelledRun, Cleanup, FinalizeJob
<1>3. CASE Outcome(p, j)
  BY <1>3 DEF Outcome, Others, OthersButStray, LoadEnvFails, LoadDagFails, PrepareFails, Provision,
     LaunchSucceeds, LaunchBacksOff, LaunchRaises, RelaunchGivesUp, TaskSucceeds, TaskFails,
     TaskRecovers, EmergencySpend, EmergencyExhausted, UnwindFails, CleanupFails
<1> QED
  BY <1>1, <1>2, <1>3

(* Every step keeps the types, and a call works on a job until it ends. *)
LEMMA TypeNext == TypeOK /\ SweepHasJob /\ [Next]_vars => (TypeOK /\ SweepHasJob)'
<1> SUFFICES ASSUME TypeOK, SweepHasJob, [Next]_vars PROVE TypeOK' /\ SweepHasJob'
  OBVIOUS
<1>1. ASSUME NEW j \in Jobs, Submission(j) \/ UserCancel(j) \/ SweepTick(j)
      PROVE TypeOK' /\ SweepHasJob'
  <2>1. TypeOK'
    BY <1>1, UsersTyped
  <2>2. ASSUME NEW a \in SweepActors, SweepRead(a, j) PROVE SweepHasJob'
    BY <2>2 DEF SweepRead, SweepHasJob, TypeOK
  <2>3. CASE SweepRequest(j) \/ SweepTick(j)
    BY <2>1, <2>2, <2>3 DEF SweepRequest, SweepTick, SweepActors
  <2>4. CASE Submission(j)
    BY <2>1, <2>4 DEF Submission, SetJobInfo, SetPending, SubmitJob, SweepHasJob, server
  <2>5. CASE CancelRequest(j) \/ SetPendingCancelled(j) \/ SweepSkip(j) \/ TouchSignal(j)
    BY <2>1, <2>5 DEF CancelRequest, SetPendingCancelled, SweepSkip, TouchSignal, SweepHasJob
  <2> QED
    BY <1>1, <2>1, <2>3, <2>4, <2>5 DEF UserCancel
<1>2. ASSUME NEW a \in SweepActors, SweepStep(a) PROVE TypeOK' /\ SweepHasJob'
  <2>1. TypeOK'
    BY <1>2, SweepTyped
  <2>2. sweep[a].pc # "idle" /\ DOMAIN sweep = SweepActors
    BY <1>2 DEF SweepStep, SweepSpare, SweepOrphan, SweepCleanup, SweepFail, SweepDone, TypeOK
  <2>3. CASE SweepSpare(a) \/ SweepDone(a)
    <3>1. sweep' = [sweep EXCEPT ![a] = IdleSweep]
      BY <2>3 DEF SweepSpare, SweepDone, EndSweep
    <3>2. SweepHasJob'
      BY <2>2, <3>1 DEF IdleSweep, SweepHasJob
    <3> QED
      BY <2>1, <3>2
  <2>4. CASE SweepOrphan(a) \/ SweepCleanup(a) \/ SweepFail(a)
    <3>1. PICK pc \in {"orphan", "failing", "done"} : sweep' = [sweep EXCEPT ![a].pc = pc]
      BY <2>4 DEF SweepOrphan, SweepCleanup, SweepFail
    <3>2. \A b \in SweepActors : sweep'[b].job = sweep[b].job
      BY <2>2, <3>1 DEF TypeOK
    <3>3. \A b \in SweepActors : b # a => sweep'[b] = sweep[b]
      BY <2>2, <3>1
    <3>4. SweepHasJob'
      BY <2>2, <3>2, <3>3 DEF SweepHasJob
    <3> QED
      BY <2>1, <3>4
  <2> QED
    BY <1>2, <2>3, <2>4 DEF SweepStep
<1>3. CASE \/ DaemonStep \/ RecoveryRaises \/ RestartServer
           \/ \E p \in Procs : StartController(p) \/ CrashController(p)
  <2>1. TypeOK'
    BY <1>3, ProcessesTyped
  <2>2. CASE RestartServer
    BY <2>1, <2>2 DEF RestartServer, IdleSweep, SweepHasJob
  <2>3. CASE \/ DaemonStep \/ RecoveryRaises
             \/ \E p \in Procs : StartController(p) \/ CrashController(p)
    <3>1. UNCHANGED sweep
      BY <2>3 DEF DaemonStep, PoolStarted, ScanOrphans, ResetJob, OpenGate,
                  RetryRecovery, RecoveryRaises, StartController, CrashController, server
    <3> QED
      BY <2>1, <3>1 DEF SweepHasJob
  <2> QED
    BY <1>3, <2>1, <2>2, <2>3
<1>4. ASSUME NEW p \in Procs, NEW j \in Jobs,
             MonitorLoop(p, j) \/ CancelJob(p, j) \/ RunStep(p, j) \/ Outcome(p, j)
      PROVE TypeOK' /\ SweepHasJob'
  <2>1. TypeOK'
    BY <1>4, MonitorTyped, CoroutineTyped
  <2>2. UNCHANGED sweep
    BY <1>4, CoroutineSparesServer DEF server
  <2> QED
    BY <2>1, <2>2 DEF SweepHasJob
<1>5. ASSUME NEW j \in Jobs, NEW t \in Tasks, StrayProvisions(j, t) \/ StrayEnds(j, t)
      PROVE TypeOK' /\ SweepHasJob'
  <2>1. stray' \in [Jobs -> [Tasks -> StrayStates]]
    BY <1>5, StraysTyped DEF StrayProvisions, StrayEnds, StrayStates
  <2>2. cluster' \in [Jobs -> [Tasks -> BOOLEAN]]
    <3>1. [cluster EXCEPT ![j][t] = TRUE] \in [Jobs -> [Tasks -> BOOLEAN]]
      BY DEF TypeOK
    <3>2. cluster' = [cluster EXCEPT ![j][t] = TRUE] \/ cluster' = cluster
      BY <1>5 DEF StrayProvisions, StrayEnds
    <3> QED
      BY <3>1, <3>2 DEF TypeOK
  <2>3. UNCHANGED <<db, signal, ctrl, server>>
    BY <1>5 DEF StrayProvisions, StrayEnds
  <2> QED
    BY <2>1, <2>2, <2>3 DEF TypeOK, SweepHasJob, db, ctrl, server
<1>6. CASE UNCHANGED vars
  BY <1>6 DEF vars, db, ctrl, server, TypeOK, SweepHasJob
<1> QED
  BY <1>1, <1>2, <1>3, <1>4, <1>5, <1>6 DEF Next

(* The state of the database, of the controllers and of the server keeps    *)
(* its types for every set of jobs, chain length and pool size, and the     *)
(* emergency budget of controller.py is never overspent.                    *)
THEOREM TypeCorrect == Spec => []TypeOK
<1>1. Spec => [](TypeOK /\ SweepHasJob)
  BY TypeInit, TypeNext, PTL DEF Spec
<1> QED
  BY <1>1, PTL
=============================================================================
