-------------------------- MODULE MCLaunchRequest --------------------------
(* Instances of LaunchRequest for TLC. *)
EXTENDS LaunchRequest

(* The server names requests as it likes; a schedule is the same under      *)
(* other names, so TLC looks at the one that takes them in order.           *)
IdsInOrder ==
    \A q, r \in Ids : r < q /\ req[q] = "NONE" /\ req'[q] # "NONE" => req[r] # "NONE"
=============================================================================
