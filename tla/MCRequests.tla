----------------------------- MODULE MCRequests -----------------------------
(* Instances of Requests for TLC. *)
EXTENDS Requests, TLC

CONSTANTS r1, r2, p1, p2, b1

TwoReqs == {r1, r2}
SecondReq == {r2}
PoolSymmetry == Permutations(PoolProcs)
=============================================================================
