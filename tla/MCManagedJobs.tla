--------------------------- MODULE MCManagedJobs ---------------------------
(***************************************************************************)
(* Instances of ManagedJobs for TLC.                                       *)
(***************************************************************************)
EXTENDS ManagedJobs, TLC

(* Jobs that depend on nothing, and a job 2 that depends on job 1. *)
NoDeps == [j \in Jobs |-> {}]

ChainDeps == [j \in Jobs |-> IF j = 2 THEN {1} ELSE {}]

(* Job 2 has the higher priority, so that order and id disagree. *)
LaterFirst == [j \in Jobs |-> j]

(* All jobs are one user's. *)
OneUser == [j \in Jobs |-> 0]

(* Incarnations are interchangeable: pids are only compared for equality. *)
ProcSymmetry == Permutations(Procs)

(* The same for runs with fairness, where TLC allows no symmetry: one       *)
(* incarnation, whichever it is, starts before any other. A behaviour that  *)
(* starts another first is one of these with the names exchanged, and the   *)
(* fairness of StartController is met as the start disables the others.     *)
FirstProc == CHOOSE p \in Procs : TRUE

InOrder ==
    proc[FirstProc] = "unborn" => \A p \in Procs \ {FirstProc} : proc'[p] = "unborn"
=============================================================================
