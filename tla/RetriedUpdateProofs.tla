------------------------ MODULE RetriedUpdateProofs ------------------------
(***************************************************************************)
(* RetriedUpdate implements GuardedUpdate, for every table of calls, every *)
(* retry budget and every set of foreign moves that meets the assumptions. *)
(***************************************************************************)
EXTENDS RetriedUpdate, TLAPS

(* A row that this call has moved is never again under its guard, except   *)
(* as its own target.                                                      *)
MovedOnce == (landed /\ pc # "idle") => row \notin From[call] \ {To[call]}

(* A retry after a durable commit knows that an earlier attempt matched. *)
LandedIsKnown ==
    /\ pc \in {"matched", "landed"} => matched
    /\ (landed /\ pc # "idle") => matched
    /\ (landed /\ pc \notin {"idle", "landed"}) => attempt > 0

(* What UPDATE found still holds: the row lock, or that nobody else moves  *)
(* a row under the guard.                                                  *)
GuardStands ==
    /\ pc = "matched" => row \in From[call]
    /\ pc \in {"unmatched", "read"} => row \notin From[call]

NothingBeforeLanding ==
    /\ pc = "landed" => landed
    /\ ~landed => tally = 0

Inv == TypeOK /\ MovedOnce /\ LandedIsKnown /\ GuardStands /\ NothingBeforeLanding

LEMMA BudgetIsPositive == MaxRetries \in Nat /\ 0 < MaxRetries
BY CallsAssumption

LEMMA InvInit == Init => Inv
<1> SUFFICES ASSUME Init PROVE Inv
  OBVIOUS
<1>1. ~landed
  BY DEF Init
<1>2. TypeOK
  BY BudgetIsPositive DEF Init, TypeOK, Places
<1> QED
  BY <1>1, <1>2
  DEF Init, Inv, MovedOnce, LandedIsKnown, GuardStands, NothingBeforeLanding

LEMMA InvStep == Inv /\ [Next]_vars => Inv'
<1> SUFFICES ASSUME Inv, [Next]_vars
             PROVE  Inv'
  OBVIOUS
<1> USE CallsAssumption, BudgetIsPositive, ReplayAssumption, OthersAssumption
    DEF Inv, TypeOK, MovedOnce, LandedIsKnown, GuardStands,
        NothingBeforeLanding, Places
<1>1. ASSUME NEW c \in Calls, Request(c) PROVE Inv'
  <2>1. ~landed'
    BY <1>1 DEF Request
  <2>2. TypeOK'
    BY <1>1 DEF Request
  <2> QED
    BY <1>1, <2>1, <2>2 DEF Request
<1>2. CASE Update
  BY <1>2 DEF Update
<1>3. CASE Land
  <2>1. landed'
    BY <1>3 DEF Land
  <2>2. TypeOK'
    BY <1>3 DEF Land
  <2> QED
    BY <1>3, <2>1, <2>2 DEF Land
<1>4. CASE Acked
  BY <1>4 DEF Acked, Return
<1>5. CASE Fail
  <2>1. attempt' \in Nat /\ attempt' > 0
    BY <1>5 DEF Fail, Retry
  <2>2. attempt' < MaxRetries \/ (pc' = "idle" /\ attempt' = MaxRetries)
    BY <1>5 DEF Fail, Retry
  <2>3. TypeOK'
    BY <1>5, <2>1, <2>2 DEF Fail, Retry
  <2>4. (landed /\ pc' # "idle") => matched
    BY <1>5 DEF Fail, Retry
  <2> QED
    BY <1>5, <2>1, <2>3, <2>4 DEF Fail, Retry
<1>6. CASE Unmatched
  BY <1>6 DEF Unmatched, Return
<1>7. CASE Read
  BY <1>7 DEF Read, Return
<1>8. CASE Abort
  BY <1>8 DEF Abort, Return
<1>9. CASE Other
  BY <1>9 DEF Other
<1>10. CASE UNCHANGED vars
  BY <1>10 DEF vars
<1> QED
  BY <1>1, <1>2, <1>3, <1>4, <1>5, <1>6, <1>7, <1>8, <1>9, <1>10
  DEF Next, Step

(* Types and the retry budget hold in every behaviour: no call makes more  *)
(* than MaxRetries attempts (with_db_retries_async, _budget_spent).        *)
THEOREM BudgetHolds == Spec => []TypeOK
<1>1. Inv => TypeOK
  BY DEF Inv
<1> QED
  BY InvInit, InvStep, <1>1, PTL DEF Spec

(* Every step of the detailed update is a step of the promise or stutters. *)
LEMMA StepKeepsPromise ==
    Inv /\ Inv' /\ [Next]_vars => [Abstract!Next]_(Abstract!vars)
<1> SUFFICES ASSUME Inv, Inv', [Next]_vars
             PROVE  [Abstract!Next]_(Abstract!vars)
  OBVIOUS
<1> USE DEF Abstract!vars, Fate
<1> USE DEF Inv, TypeOK, Places
<1>1. ASSUME NEW c \in Calls, Request(c) PROVE Abstract!Next
  BY <1>1 DEF Request, Abstract!Next, Abstract!Request, Abstract!Ended
<1>2. CASE Update
  BY <1>2 DEF Update
<1>3. CASE Land
  <2>1. CASE landed
    BY <1>3, <2>1, CallsAssumption, ReplayAssumption
    DEF Land, MovedOnce, GuardStands
  <2>2. CASE ~landed
    BY <1>3, <2>2
    DEF Land, GuardStands, NothingBeforeLanding, Abstract!Next, Abstract!Apply
  <2> QED
    BY <2>1, <2>2
<1>4. CASE Acked
  BY <1>4 DEF Acked, Return, NothingBeforeLanding, Abstract!Next, Abstract!Done
<1>5. CASE Fail
  BY <1>5 DEF Fail, Retry, Abstract!Next, Abstract!Raise
<1>6. CASE Unmatched
  BY <1>6, ReplayAssumption
  DEF Unmatched, Return, GuardStands, LandedIsKnown,
      Abstract!Next, Abstract!Done, Abstract!Refuse
<1>7. CASE Read
  BY <1>7
  DEF Read, Return, GuardStands, Abstract!Next, Abstract!Done, Abstract!Refuse
<1>8. CASE Abort
  BY <1>8 DEF Abort, Return, Abstract!Next, Abstract!Raise
<1>9. CASE Other
  BY <1>9 DEF Other, Abstract!Next, Abstract!Other
<1>10. CASE UNCHANGED vars
  BY <1>10 DEF vars
<1> QED
  BY <1>1, <1>2, <1>3, <1>4, <1>5, <1>6, <1>7, <1>8, <1>9, <1>10
  DEF Next, Step

(* The retried update implements the promise of GuardedUpdate: lost        *)
(* commits and lost acknowledgements change neither how often an update    *)
(* takes effect nor what its caller is told of it.                         *)
THEOREM RetriesKeepPromise == Spec => KeepsPromise
<1>1. Init => Abstract!Init
  BY DEF Init, Abstract!Init, Fate
<1> QED
  BY InvInit, InvStep, StepKeepsPromise, <1>1, PTL
  DEF Spec, KeepsPromise, Abstract!Spec
=============================================================================
