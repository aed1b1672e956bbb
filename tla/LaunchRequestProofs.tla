------------------------ MODULE LaunchRequestProofs ------------------------
(***************************************************************************)
(* Proofs about LaunchRequest for every set of request ids, every pair of  *)
(* polling limits and every choice of faults.                              *)
(***************************************************************************)
EXTENDS LaunchRequest, FiniteSetTheorems, TLAPS

(***************************************************************************)
(* None of the three safety properties is inductive: they speak of what    *)
(* goes on and not of what the coroutine remembers.  The invariant connects*)
(* the two.  launch_request_id and parked_request_id never name two        *)
(* different requests, each place of the code has the ids it relies on, a  *)
(* launch that goes on is one of these or was given up, what a cancelled   *)
(* job left finds the coroutine on its way out, and the cluster of an ended*)
(* job came from a launch that was given up.                               *)
(***************************************************************************)
Names == {ctl.id, ctl.parked} \ {NoId}

IdsFitPlace ==
    /\ ctl.pc \in {"slot", "parked"} => ctl.id = NoId
    /\ ctl.pc \in {"submitting", "attached", "cancelling"} => ctl.id # NoId
    /\ ctl.pc = "parked" => ctl.parked # NoId
    /\ ctl.pc \in {"submitting", "attached"} => ctl.parked = NoId
    /\ ctl.pc = "cancelling" => ctl.parked \in {NoId, ctl.id}
    /\ ctl.pc \in {"checking", "cleanup", "raised", "started", "ended", "dead"}
         => ctl.id = NoId /\ ctl.parked = NoId

GoingIsNamed ==
    \A q \in Ids : req[q] \in Live \cup {"SENT"} /\ given[q] = "no" => q \in Names

UnsentIsNew == \A q \in Ids : req[q] = "NONE" => given[q] = "no" /\ q \notin Names

FollowedArrived == ctl.pc # "submitting" => \A q \in Names : req[q] # "SENT"

LeftoversAreLast ==
    \A q \in Ids : req[q] \in Live \cup {"SENT"} /\ given[q] \in LeftByCancel
                     => ctl.pc \in {"raised", "ended"}

ClusterAccounted == ctl.pc = "ended" /\ cluster # NoId => given[cluster] # "no"

LaunchInv ==
    /\ TypeOK
    /\ IdsFitPlace
    /\ GoingIsNamed
    /\ UnsentIsNew
    /\ FollowedArrived
    /\ LeftoversAreLast
    /\ ClusterAccounted

CtlType ==
    [pc: {"slot", "submitting", "attached", "parked", "checking", "cleanup",
          "cancelling", "raised", "started", "ended", "dead"},
     id: Ids \cup {NoId}, parked: Ids \cup {NoId},
     missing: 0..MaxMissing, errors: 0..MaxErrors]

ReqType == [Ids -> Live \cup {"NONE", "SENT", "SUCCEEDED", "FAILED", "CANCELLED", "GONE"}]

GivenType == [Ids -> {"no"} \cup LostSight \cup LeftByCancel]

(* The counters start at zero, which their limits allow. *)
LEMMA IdleOK == Idle \in CtlType
<1>1. 0 \in 0..MaxMissing /\ 0 \in 0..MaxErrors
  BY LaunchAssumption
<1> QED
  BY <1>1 DEF Idle, CtlType

(* The first attempt starts with nothing submitted. *)
LEMMA LaunchInvInit == Init => LaunchInv
<1> SUFFICES ASSUME Init PROVE LaunchInv
  OBVIOUS
<1>1. TypeOK
  BY IdleOK DEF Init, TypeOK, CtlType, Live, LostSight, LeftByCancel
<1>2. /\ IdsFitPlace /\ GoingIsNamed /\ UnsentIsNew
      /\ FollowedArrived /\ LeftoversAreLast /\ ClusterAccounted
  BY DEF Init, Idle, IdsFitPlace, GoingIsNamed, UnsentIsNew, FollowedArrived,
     LeftoversAreLast,
         ClusterAccounted, Live, LeftByCancel, Names
<1> QED
  BY <1>1, <1>2 DEF LaunchInv

(* A step of the server changes the status of a request that goes on.  The  *)
(* one that enters the cluster after the job's end is one that was given up.*)
LEMMA ServerKeepsInv ==
    ASSUME LaunchInv, NEW q \in Ids, Server(q)
    PROVE  LaunchInv'
<1> USE DEF LaunchInv, TypeOK, IdsFitPlace, GoingIsNamed, UnsentIsNew, FollowedArrived,
            LeftoversAreLast, ClusterAccounted, Names, Live
<1>1. CASE Arrive(q)
  BY <1>1 DEF Arrive
<1>2. CASE Execute(q)
  BY <1>2 DEF Execute
<1>3. CASE AddCluster(q)
  <2>1. req[q] \in Live /\ cluster' = q /\ UNCHANGED <<req, ctl, stream, given, wanted>>
    BY <1>3 DEF AddCluster
  <2>2. ctl.pc = "ended" => given[q] # "no"
    BY <2>1 DEF Idle
  <2> QED
    BY <2>1, <2>2
<1>4. CASE Yield(q)
  BY <1>4 DEF Yield
<1>5. CASE Finish(q)
  BY <1>5 DEF Finish
<1>6. CASE Vanish(q)
  BY <1>6 DEF Vanish
<1> QED
  BY <1>1, <1>2, <1>3, <1>4, <1>5, <1>6 DEF Server

(* Giving a request up changes its reason alone. *)
LEMMA GivingUp ==
    ASSUME LaunchInv, NEW q \in Ids, NEW why \in LostSight \cup LeftByCancel, GiveUp(q, why)
    PROVE  /\ given' \in GivenType
           /\ given'[q] = why
           /\ why # "no"
           /\ \A r \in Ids \ {q} : given'[r] = given[r]
BY DEF GiveUp, LaunchInv, TypeOK, GivenType, LostSight, LeftByCancel

(* Cancelling a request leaves it dead or gives it up. *)
LEMMA CancelDisposes ==
    ASSUME LaunchInv, NEW q \in Ids, req[q] # "SENT",
           NEW why \in LostSight \cup LeftByCancel, ApiCancel(q, why)
    PROVE  /\ req' \in ReqType
           /\ given' \in GivenType
           /\ req'[q] \in Live \cup {"SENT"} => given'[q] = why
           /\ why # "no"
           /\ given'[q] \in {given[q], why}
           /\ \A r \in Ids \ {q} : req'[r] = req[r] /\ given'[r] = given[r]
           /\ req[q] = "NONE" <=> req'[q] = "NONE"
<1> USE DEF LaunchInv, TypeOK, ReqType, GivenType, Live
<1>1. why # "no"
  BY DEF LostSight, LeftByCancel
<1>2. CASE GiveUp(q, why) /\ UNCHANGED req
  BY <1>1, <1>2, GivingUp
<1>3. CASE req' = [req EXCEPT ![q] = IF req[q] \in Live THEN "CANCELLED" ELSE req[q]]
           /\ UNCHANGED given
  BY <1>1, <1>3
<1> QED
  BY <1>2, <1>3 DEF ApiCancel

(* Tearing the cluster down starts no launch. *)
LEMMA TerminateDisposes ==
    ASSUME LaunchInv, Terminate
    PROVE  /\ req' \in ReqType
           /\ cluster' \in Ids \cup {NoId}
           /\ \A r \in Ids : req'[r] \in Live \cup {"SENT"} => req[r] \in Live \cup {"SENT"}
           /\ \A r \in Ids : req'[r] = "NONE" <=> req[r] = "NONE"
           /\ cluster' = NoId
BY DEF Terminate, LaunchInv, TypeOK, Live, ReqType

(* A step that only lets go: the coroutine is left without ids at a place   *)
(* on the way to the next attempt or out, and what it named is over or was  *)
(* given up.                                                                *)
LEMMA LettingGo ==
    ASSUME LaunchInv,
           NEW pc \in {"slot", "checking", "cleanup", "raised", "started", "dead"},
           ctl' = [Idle EXCEPT !.pc = pc],
           stream' \in {"none", "open", "failed"}, wanted' \in BOOLEAN,
           cluster' \in Ids \cup {NoId},
           req' \in ReqType,
           given' \in GivenType,
           \A r \in Ids : req'[r] \in Live \cup {"SENT"} => req[r] \in Live \cup {"SENT"},
           \A r \in Ids : req'[r] = "NONE" => req[r] = "NONE",
           \A r \in Ids : r \notin Names => given'[r] = given[r] \/ given'[r] \in LostSight,
           \A r \in Names : req'[r] \in Live \cup {"SENT"} => given'[r] # "no",
           \A r \in Ids : req'[r] \in Live \cup {"SENT"} /\ given'[r] \in LeftByCancel
                            => pc = "raised",
           \A r \in Ids : req[r] = "NONE" => given'[r] = given[r]
    PROVE  LaunchInv'
<1>1. ctl' \in CtlType /\ ctl'.pc = pc /\ ctl'.id = NoId /\ ctl'.parked = NoId
  BY IdleOK DEF CtlType, Idle
<1>2. TypeOK'
  BY <1>1 DEF TypeOK, CtlType, ReqType, GivenType
<1>3. IdsFitPlace' /\ ClusterAccounted'
  BY <1>1 DEF IdsFitPlace, ClusterAccounted
<1>4. GoingIsNamed'
  BY DEF GoingIsNamed, LaunchInv, Live, LostSight
<1>5. UnsentIsNew'
  BY <1>1 DEF UnsentIsNew, LaunchInv, Names, TypeOK
<1>6. LeftoversAreLast' /\ FollowedArrived'
  BY <1>1 DEF LeftoversAreLast, FollowedArrived, Names
<1> QED
  BY <1>2, <1>3, <1>4, <1>5, <1>6 DEF LaunchInv

(* The coroutine's own steps. *)
LEMMA ControllerKeepsInv ==
    ASSUME LaunchInv, Controller
    PROVE  LaunchInv'
<1> USE LaunchAssumption
<1>0. /\ \A r \in Names : r \in Ids /\ req[r] # "NONE"
      /\ ctl.pc # "submitting" => \A r \in Names : req[r] # "SENT"
      /\ \A r \in Ids : req[r] \in Live \cup {"SENT"} /\ given[r] \in LeftByCancel
                          => ctl.pc \in {"raised", "ended"}
      /\ \A r \in Ids : req[r] \in Live \cup {"SENT"} /\ given[r] = "no" => r \in Names
      /\ req \in ReqType /\ given \in GivenType /\ cluster \in Ids \cup {NoId}
      /\ stream \in {"none", "open", "failed"} /\ wanted \in BOOLEAN
      /\ ctl \in CtlType
  BY DEF LaunchInv, TypeOK, UnsentIsNew, FollowedArrived, LeftoversAreLast, GoingIsNamed,
     Names,
         ReqType, GivenType, CtlType
<1>z. 0 \in 0..MaxMissing /\ 0 \in 0..MaxErrors
  OBVIOUS
<1> DEFINE Out(pc) == ctl' = [Idle EXCEPT !.pc = pc]
<1>1. ASSUME NEW q \in Ids, Submit(q) PROVE LaunchInv'
  <2> USE DEF LaunchInv, TypeOK, IdsFitPlace, GoingIsNamed, UnsentIsNew, FollowedArrived,
              LeftoversAreLast, ClusterAccounted, Names, Live
  <2>1. ctl.id = NoId /\ ctl.parked = NoId /\ given[q] = "no"
    BY <1>1 DEF Submit
  <2> QED
    BY <1>1, <2>1 DEF Submit, LeftByCancel
<1>2. CASE Submitted
  BY <1>2 DEF Submitted, LaunchInv, TypeOK, IdsFitPlace, GoingIsNamed, UnsentIsNew,
     FollowedArrived,
              LeftoversAreLast, ClusterAccounted, Names
<1>3. CASE SubmitFails
  <2>1. ctl.id \in Ids /\ ctl.parked = NoId /\ Names = {ctl.id} /\ ctl.pc = "submitting"
    BY <1>3 DEF SubmitFails, LaunchInv, TypeOK, IdsFitPlace, Names
  <2>2. CASE req' = [req EXCEPT ![ctl.id] = "GONE"] /\ UNCHANGED given
             /\ \E pc \in {"cleanup", "raised"} : Out(pc)
    <3>1. PICK pc \in {"cleanup", "raised"} : Out(pc)
      BY <2>2
    <3> QED
      BY <1>0, <1>3, <2>1, <2>2, <3>1, LettingGo DEF SubmitFails, ReqType, Live
  <2>3. CASE GiveUp(ctl.id, "answer") /\ UNCHANGED req /\ Out("cleanup")
    <3>1. given' \in GivenType /\ given'[ctl.id] = "answer"
          /\ \A r \in Ids \ {ctl.id} : given'[r] = given[r]
      BY <2>1, <2>3, GivingUp DEF LostSight
    <3> QED
      BY <1>0, <1>3, <2>1, <2>3, <3>1, LettingGo DEF SubmitFails, LeftByCancel
  <2> QED
    BY <1>3, <2>2, <2>3 DEF SubmitFails
<1>4. CASE Park
  BY <1>4 DEF Park, LaunchInv, TypeOK, IdsFitPlace, GoingIsNamed, UnsentIsNew,
     FollowedArrived,
              LeftoversAreLast, ClusterAccounted, Names
<1>5. CASE StreamEnds
  <2>1. ctl.id \in Ids /\ ctl.parked = NoId /\ Names = {ctl.id} /\ ctl.pc = "attached"
        /\ req[ctl.id] \notin Live
    BY <1>5 DEF StreamEnds, LaunchInv, TypeOK, IdsFitPlace, Names
  <2>2. PICK pc \in {"checking", "cleanup", "raised"} : Out(pc)
    BY <1>5 DEF StreamEnds
  <2>3. req[ctl.id] # "SENT"
    BY <1>0, <2>1
  <2> QED
    BY <1>0, <1>5, <2>1, <2>2, <2>3, LettingGo DEF StreamEnds
<1>6. CASE JobStarts
  BY <1>6 DEF JobStarts, LaunchInv, TypeOK, IdsFitPlace, GoingIsNamed, UnsentIsNew,
     FollowedArrived,
              LeftoversAreLast, ClusterAccounted, Names
<1>7. CASE PollWaiting
  BY <1>7, <1>z DEF PollWaiting, LaunchInv, TypeOK, IdsFitPlace, GoingIsNamed,
              UnsentIsNew, FollowedArrived, LeftoversAreLast, ClusterAccounted, Names
<1>8. CASE PollResumed
  BY <1>8, <1>z DEF PollResumed, LaunchInv, TypeOK, IdsFitPlace, GoingIsNamed,
              UnsentIsNew, FollowedArrived, LeftoversAreLast, ClusterAccounted, Names
<1>9. CASE PollMissing
  <2>1. CASE ctl.missing + 1 < MaxMissing
    <3>1. ctl.missing + 1 \in 0..MaxMissing
      BY <1>0, <2>1 DEF CtlType
    <3>2. /\ ctl' = [ctl EXCEPT !.missing = ctl.missing + 1, !.errors = 0]
          /\ UNCHANGED <<req, cluster, stream, given, wanted>>
      BY <1>9, <2>1 DEF PollMissing
    <3> QED
      BY <1>z, <3>1, <3>2
         DEF LaunchInv, TypeOK, IdsFitPlace, GoingIsNamed, UnsentIsNew, FollowedArrived,
              LeftoversAreLast, ClusterAccounted, Names
  <2>2. CASE ctl.missing + 1 = MaxMissing
    <3>1. ctl' = Idle /\ ApiCancel(ctl.parked, "missing") /\ stream' = "none"
          /\ ctl.parked \in Ids /\ Names = {ctl.parked} /\ ctl.pc = "parked"
          /\ UNCHANGED <<cluster, wanted>>
      BY <1>9, <2>2 DEF PollMissing, LaunchInv, TypeOK, IdsFitPlace, Names
    <3>2. Out("slot")
      BY <3>1 DEF Idle
    <3>3. req[ctl.parked] \notin {"SENT", "NONE"}
      BY <1>0, <3>1
    <3>4. /\ req' \in ReqType /\ given' \in GivenType
          /\ req'[ctl.parked] \in Live \cup {"SENT"} => given'[ctl.parked] = "missing"
          /\ req'[ctl.parked] # "NONE"
          /\ \A r \in Ids \ {ctl.parked} : req'[r] = req[r] /\ given'[r] = given[r]
      BY <3>1, <3>3, CancelDisposes DEF LostSight
    <3>5. \A r \in Ids : req'[r] \in Live \cup {"SENT"} => req[r] \in Live \cup {"SENT"}
      BY <1>0, <3>1, <3>3, <3>4 DEF ApiCancel, Live, ReqType
    <3> QED
      BY <1>0, <3>1, <3>2, <3>3, <3>4, <3>5, LettingGo DEF LeftByCancel
  <2> QED
    BY <1>9, <2>1, <2>2 DEF PollMissing
<1>10. CASE PollError
  <2>1. CASE ctl.errors + 1 < MaxErrors
    <3>1. ctl.errors + 1 \in 0..MaxErrors
      BY <1>0, <2>1 DEF CtlType
    <3>2. ctl' = [ctl EXCEPT !.errors = ctl.errors + 1]
      BY <1>10, <2>1 DEF PollError
    <3> QED
      BY <1>10, <3>1, <3>2 DEF PollError, LaunchInv, TypeOK, IdsFitPlace, GoingIsNamed,
              UnsentIsNew, FollowedArrived, LeftoversAreLast, ClusterAccounted, Names
  <2>2. CASE ctl.errors + 1 = MaxErrors
    <3>1. ctl' = [ctl EXCEPT !.pc = "cancelling", !.id = ctl.parked, !.errors = 0]
      BY <1>10, <2>2 DEF PollError
    <3> QED
      BY <1>10, <1>z, <3>1 DEF PollError, LaunchInv, TypeOK, IdsFitPlace, GoingIsNamed,
              UnsentIsNew, FollowedArrived, LeftoversAreLast, ClusterAccounted, Names
  <2> QED
    BY <1>10, <2>1, <2>2 DEF PollError
<1>11. CASE Reattach
  BY <1>11 DEF Reattach, LaunchInv, TypeOK, IdsFitPlace, GoingIsNamed, UnsentIsNew,
     FollowedArrived,
              LeftoversAreLast, ClusterAccounted, Names
<1>12. CASE CleanUp
  <2>1. PICK pc \in {"slot", "raised"} : Out(pc)
    BY <1>12 DEF CleanUp
  <2>2. Names = {} /\ ctl.pc = "cleanup"
    BY <1>12 DEF CleanUp, LaunchInv, IdsFitPlace, Names
  <2> QED
    BY <1>0, <1>12, <2>1, <2>2, TerminateDisposes, LettingGo DEF CleanUp
<1>13. CASE Cancelled
  <2>1. CASE ctl.pc = "attached" \/ ctl.parked # NoId
    <3>1. UNCHANGED <<req, cluster, stream, given, wanted>>
      BY <1>13, <2>1 DEF Cancelled
    <3>2. CASE ctl.pc = "attached"
      <4>1. ctl' = [ctl EXCEPT !.pc = "cancelling", !.id = ctl.id]
        BY <1>13, <3>2 DEF Cancelled
      <4> QED
        BY <3>1, <3>2, <4>1 DEF LaunchInv, TypeOK, IdsFitPlace, GoingIsNamed,
              UnsentIsNew, FollowedArrived, LeftoversAreLast, ClusterAccounted, Names
    <3>3. CASE ctl.pc # "attached"
      <4>1. ctl' = [ctl EXCEPT !.pc = "cancelling", !.id = ctl.parked] /\ ctl.parked # NoId
            /\ ctl.pc \in {"slot", "parked"}
        BY <1>13, <2>1, <3>3 DEF Cancelled, LaunchInv, TypeOK, IdsFitPlace
      <4> QED
        BY <3>1, <4>1 DEF LaunchInv, TypeOK, IdsFitPlace, GoingIsNamed,
              UnsentIsNew, FollowedArrived, LeftoversAreLast, ClusterAccounted, Names
    <3> QED
      BY <3>2, <3>3
  <2>2. CASE ctl.pc # "attached" /\ ctl.parked = NoId
    <3>1. /\ Out("raised") /\ stream' = "none" /\ UNCHANGED <<req, cluster, wanted>>
          /\ ctl.pc \notin {"raised", "ended"}
      BY <1>13, <2>2 DEF Cancelled
    <3>2. CASE ctl.pc = "submitting"
      <4>1. Names = {ctl.id} /\ ctl.id \in Ids
        BY <2>2, <3>2 DEF LaunchInv, TypeOK, IdsFitPlace, Names
      <4>2. given' \in GivenType /\ given'[ctl.id] = "call"
            /\ \A r \in Ids \ {ctl.id} : given'[r] = given[r]
        BY <1>13, <2>2, <3>2, <4>1, GivingUp DEF Cancelled, LeftByCancel
      <4> QED
        BY <1>0, <3>1, <3>2, <4>1, <4>2, LettingGo
    <3>3. CASE ctl.pc # "submitting"
      <4>1. Names = {} /\ given' = given
        BY <1>13, <2>2, <3>3 DEF Cancelled, LaunchInv, TypeOK, IdsFitPlace, Names
      <4> QED
        BY <1>0, <3>1, <4>1, LettingGo
    <3> QED
      BY <3>2, <3>3
  <2> QED
    BY <2>1, <2>2
<1>14. CASE CancelRequest
  <2>1. ctl.id \in Ids /\ Names = {ctl.id} /\ ctl.pc = "cancelling"
    BY <1>14 DEF CancelRequest, LaunchInv, TypeOK, IdsFitPlace, Names
  <2>2. Out("raised") /\ stream' = "none" /\ ApiCancel(ctl.id, "cancel")
        /\ UNCHANGED <<cluster, wanted>>
    BY <1>14 DEF CancelRequest
  <2>3. req[ctl.id] \notin {"SENT", "NONE"}
    BY <1>0, <2>1
  <2>4. /\ req' \in ReqType /\ given' \in GivenType
        /\ req'[ctl.id] \in Live \cup {"SENT"} => given'[ctl.id] = "cancel"
        /\ req'[ctl.id] # "NONE"
        /\ \A r \in Ids \ {ctl.id} : req'[r] = req[r] /\ given'[r] = given[r]
    BY <2>1, <2>2, <2>3, CancelDisposes DEF LeftByCancel
  <2>5. \A r \in Ids : req'[r] \in Live \cup {"SENT"} => req[r] \in Live \cup {"SENT"}
    BY <1>0, <2>1, <2>2, <2>3, <2>4 DEF ApiCancel, Live, ReqType
  <2> QED
    BY <1>0, <2>1, <2>2, <2>3, <2>4, <2>5, LettingGo
<1>15. CASE EndJob
  <2>1. Names = {} /\ ctl' \in CtlType /\ ctl'.pc = "ended" /\ ctl'.id = NoId
        /\ ctl'.parked = NoId /\ UNCHANGED <<given, wanted>> /\ stream' = "none"
    BY <1>15, IdleOK DEF EndJob, LaunchInv, IdsFitPlace, Names, Idle, CtlType
  <2> QED
    BY <1>0, <1>15, <2>1, TerminateDisposes
    DEF EndJob, LaunchInv, TypeOK, IdsFitPlace, GoingIsNamed, UnsentIsNew, FollowedArrived,
        LeftoversAreLast, ClusterAccounted, Names, CtlType, ReqType, GivenType
<1>16. CASE Restart
  <2>1. Names = {} /\ ctl.pc = "dead" /\ Out("slot")
    BY <1>16 DEF Restart, LaunchInv, IdsFitPlace, Names, Idle
  <2> QED
    BY <1>0, <1>16, <2>1, TerminateDisposes, LettingGo DEF Restart
<1> QED
  BY <1>1, <1>2, <1>3, <1>4, <1>5, <1>6, <1>7, <1>8, <1>9, <1>10, <1>11, <1>12,
     <1>13, <1>14, <1>15, <1>16 DEF Controller

(* Every step keeps the invariant, the faults included. *)
LEMMA LaunchInvNext == LaunchInv /\ [Next]_vars => LaunchInv'
<1> SUFFICES ASSUME LaunchInv, [Next]_vars PROVE LaunchInv'
  OBVIOUS
<1> USE LaunchAssumption
<1>1. ASSUME NEW q \in Ids, Server(q) PROVE LaunchInv'
  BY <1>1, ServerKeepsInv
<1>2. CASE Controller
  BY <1>2, ControllerKeepsInv
<1>0. /\ \A r \in Names : r \in Ids
      /\ \A r \in Ids : req[r] \in Live \cup {"SENT"} /\ given[r] \in LeftByCancel
                          => ctl.pc \in {"raised", "ended"}
      /\ \A r \in Ids : req[r] = "NONE" => given[r] = "no" /\ r \notin Names
      /\ req \in ReqType /\ given \in GivenType /\ cluster \in Ids \cup {NoId}
      /\ stream \in {"none", "open", "failed"} /\ wanted \in BOOLEAN
  BY DEF LaunchInv, TypeOK, UnsentIsNew, LeftoversAreLast, Names, ReqType, GivenType
<1>3. CASE StreamBreaks
  <2>1. /\ ctl.pc = "attached" /\ Names = {ctl.id} /\ ctl.id \in Ids
        /\ ctl' = [Idle EXCEPT !.pc = "cleanup"] /\ stream' = "none"
        /\ UNCHANGED <<req, cluster, wanted>>
    BY <1>3 DEF StreamBreaks, LaunchInv, TypeOK, IdsFitPlace, Names
  <2>2. given' \in GivenType /\ given'[ctl.id] = "stream"
        /\ \A r \in Ids \ {ctl.id} : given'[r] = given[r]
    BY <1>3, <2>1, GivingUp DEF StreamBreaks, LostSight
  <2> QED
    BY <1>0, <2>1, <2>2, LettingGo DEF LeftByCancel
<1>4. CASE CarriedStreamFails
  BY <1>4 DEF CarriedStreamFails, LaunchInv, TypeOK, IdsFitPlace, GoingIsNamed, UnsentIsNew,
              FollowedArrived, LeftoversAreLast, ClusterAccounted, Names
<1>5. CASE ReattachFails
  <2>1. /\ ctl.pc = "slot" /\ Names = {ctl.parked} /\ ctl.parked \in Ids
        /\ ctl' = [Idle EXCEPT !.pc = "cleanup"] /\ stream' = "none"
        /\ UNCHANGED <<req, cluster, wanted>>
    BY <1>5 DEF ReattachFails, LaunchInv, TypeOK, IdsFitPlace, Names
  <2>2. given' \in GivenType /\ given'[ctl.parked] = "reattach"
        /\ \A r \in Ids \ {ctl.parked} : given'[r] = given[r]
    BY <1>5, <2>1, GivingUp DEF ReattachFails, LostSight
  <2> QED
    BY <1>0, <2>1, <2>2, LettingGo DEF LeftByCancel
<1>6. CASE DatabaseError
  <2>1. CASE ctl.parked # NoId
    <3>1. /\ ctl' = [ctl EXCEPT !.pc = "cancelling", !.id = ctl.parked]
          /\ UNCHANGED <<req, cluster, stream, given, wanted>>
          /\ ctl.pc \in {"slot", "parked"}
      BY <1>6, <2>1 DEF DatabaseError
    <3> QED
      BY <2>1, <3>1 DEF LaunchInv, TypeOK, IdsFitPlace, GoingIsNamed, UnsentIsNew,
              FollowedArrived, LeftoversAreLast, ClusterAccounted, Names
  <2>2. CASE ctl.parked = NoId
    <3>1. /\ ctl' = [Idle EXCEPT !.pc = "raised"] /\ stream' = "none"
          /\ UNCHANGED <<req, cluster, given, wanted>>
      BY <1>6, <2>2 DEF DatabaseError
    <3>2. Names = {}
      BY <1>6, <2>2 DEF DatabaseError, LaunchInv, IdsFitPlace, Names
    <3> QED
      BY <1>0, <3>1, <3>2, LettingGo
  <2> QED
    BY <2>1, <2>2
<1>7. CASE UserCancels
  BY <1>7 DEF UserCancels, LaunchInv, TypeOK, IdsFitPlace, GoingIsNamed, UnsentIsNew,
              FollowedArrived, LeftoversAreLast, ClusterAccounted, Names
<1>8. CASE Crash
  <2>1. /\ ctl' = [Idle EXCEPT !.pc = "dead"] /\ stream' = "none"
        /\ given' = [q \in Ids |-> IF q \in Going THEN "crash" ELSE given[q]]
        /\ UNCHANGED <<req, cluster, wanted>>
    BY <1>8 DEF Crash
  <2>2. /\ given' \in GivenType
        /\ \A q \in Ids : req[q] \in Live \cup {"SENT"} => given'[q] = "crash"
        /\ \A q \in Ids : given'[q] \in {given[q], "crash"}
        /\ \A q \in Ids : req[q] = "NONE" => given'[q] = given[q]
    BY <1>0, <2>1 DEF Going, GivenType, LostSight, Live
  <2> QED
    BY <1>0, <2>1, <2>2, LettingGo DEF LeftByCancel, LostSight
<1>9. CASE UNCHANGED vars
  BY <1>9 DEF vars, LaunchInv, TypeOK, IdsFitPlace, GoingIsNamed, UnsentIsNew,
              FollowedArrived, LeftoversAreLast, ClusterAccounted, Names
<1> QED
  BY <1>1, <1>2, <1>3, <1>4, <1>5, <1>6, <1>7, <1>8, <1>9 DEF Next

(* The state of _launch is what the code declares: parked_request_id and    *)
(* launch_request_id are ids or None, and the two counters of               *)
(* _wait_for_parked_request never pass their limits.                        *)
THEOREM LaunchTypeOK == Spec => []TypeOK
<1>1. LaunchInv => TypeOK
  BY DEF LaunchInv
<1> QED
  BY <1>1, LaunchInvInit, LaunchInvNext, PTL DEF Spec

(* What the invariant says of the launches that go on: one at most was not  *)
(* given up, none while the coroutine has no id.                            *)
LEMMA KeptBounded ==
    ASSUME LaunchInv
    PROVE  /\ {q \in Going : given[q] = "no"} \subseteq Names
           /\ \E q : Names \subseteq {q}
           /\ ctl.pc \in {"cleanup", "raised", "ended"} => Names = {}
<1>1. {q \in Going : given[q] = "no"} \subseteq Names
  BY DEF LaunchInv, GoingIsNamed, Going
<1>2. \E q : Names \subseteq {q}
  <2>1. ctl.id = NoId \/ ctl.parked = NoId \/ ctl.id = ctl.parked
    BY DEF LaunchInv, TypeOK, IdsFitPlace
  <2> QED
    BY <2>1 DEF Names
<1>3. ctl.pc \in {"cleanup", "raised", "ended"} => Names = {}
  BY DEF LaunchInv, IdsFitPlace, Names
<1> QED
  BY <1>1, <1>2, <1>3

(* One launch at a time: between _launch's submission, its parking, its     *)
(* re-attachment and its retries a controller never has two launches going  *)
(* on for its cluster that it did not lose sight of, and what a cancelled   *)
(* job left is not joined by another.                                       *)
THEOREM OneLaunchAtATime == Spec => []NoDoubleLaunch
<1>1. ASSUME LaunchInv PROVE NoDoubleLaunch
  <2> DEFINE Kept == {q \in Going : given[q] = "no"}
  <2>1. PICK q : Kept \subseteq {q}
    BY <1>1, KeptBounded
  <2>2. Kept = {} \/ Kept = {q}
    BY <2>1
  <2>3. Cardinality(Kept) <= 1
    <3>1. Cardinality({}) = 0 /\ Cardinality({q}) = 1
      BY FS_EmptySet, FS_Singleton
    <3>2. Cardinality(Kept) \in {0, 1}
      BY <2>2, <3>1
    <3> QED
      BY <3>2
  <2>4. ASSUME NEW p \in Going, NEW r \in Going, given[p] \in LeftByCancel
        PROVE  given[r] # "no"
    <3>1. ctl.pc \in {"raised", "ended"}
      BY <1>1, <2>4 DEF LaunchInv, LeftoversAreLast, Going
    <3> QED
      BY <1>1, <3>1, KeptBounded
  <2> QED
    BY <2>3, <2>4 DEF NoDoubleLaunch
<1> QED
  BY <1>1, LaunchInvInit, LaunchInvNext, PTL DEF Spec

(* No orphan: whatever the request was doing when _launch raised or was     *)
(* cancelled, no launch that the controller could still have cancelled goes *)
(* on once the job's cleanup is through, and no cluster stands but one that *)
(* a launch given up earlier brought up.                                    *)
THEOREM NoOrphanedLaunch == Spec => []NothingOutlivesJob
<1>1. LaunchInv => NothingOutlivesJob
  BY KeptBounded DEF LaunchInv, ClusterAccounted, NothingOutlivesJob
<1> QED
  BY <1>1, LaunchInvInit, LaunchInvNext, PTL DEF Spec

(* The cleanup of a failed attempt reaches a launch that goes on only where *)
(* _launch lost sight of it: for every set of faults.                       *)
THEOREM HealthyLaunchSurvives == Spec => []HealthyLaunchKept
<1>1. ASSUME LaunchInv, ctl.pc = "cleanup", NEW q \in Going
      PROVE  given[q] \in LostSight
  <2>1. given[q] # "no"
    BY <1>1, KeptBounded
  <2>2. given[q] \notin LeftByCancel
    BY <1>1 DEF LaunchInv, LeftoversAreLast, Going
  <2> QED
    BY <1>1, <2>1, <2>2 DEF LaunchInv, TypeOK, Going
<1>2. LaunchInv => HealthyLaunchKept
  BY <1>1 DEF HealthyLaunchKept
<1> QED
  BY <1>2, LaunchInvInit, LaunchInvNext, PTL DEF Spec
=============================================================================
