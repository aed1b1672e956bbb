--------------------------- MODULE MCLaunchSlots ---------------------------
(***************************************************************************)
(* Instances of LaunchSlots for TLC.                                       *)
(***************************************************************************)
EXTENDS LaunchSlots, TLC

(* Nothing in this module orders jobs. *)
JobSymmetry == Permutations(Jobs)

(* The same for a run with fairness, where TLC allows no symmetry: jobs    *)
(* that wait are alike, so the lowest number is claimed.  Any other claim  *)
(* is one of these with the numbers exchanged, and no fairness is assumed  *)
(* of claims.                                                              *)
ClaimInOrder ==
    \A k \in Jobs :
        pc[k] = "waiting" /\ pc'[k] # "waiting"
        => \A j \in Jobs : j < k => pc[j] # "waiting"
=============================================================================
