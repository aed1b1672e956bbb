------------------------- MODULE LaunchSlotsProofs -------------------------
(***************************************************************************)
(* Proofs about LaunchSlots for every number of jobs and every limit.      *)
(***************************************************************************)
EXTENDS LaunchSlots, FiniteSetTheorems, TLAPS

(***************************************************************************)
(* SlotBound is not inductive: start_job adds a job without looking.  What *)
(* makes it safe is that the monitor loop is inside the claim then, having *)
(* found a free slot, and that everyone else only takes free slots.        *)
(***************************************************************************)
SlotInv ==
    /\ starting \subseteq Jobs
    /\ claiming \in BOOLEAN
    /\ Cardinality(starting) <= LaunchesPerWorker + 1
    /\ claiming => Cardinality(starting) <= LaunchesPerWorker

(* A set of jobs is finite and has a size. *)
LEMMA JobSetsFinite ==
    ASSUME NEW S, S \subseteq Jobs
    PROVE  IsFiniteSet(S) /\ Cardinality(S) \in Nat
BY SlotsAssumption, FS_Subset, FS_CardinalityType

(* Giving a slot back never makes the set of slots larger. *)
LEMMA GivingBackShrinks ==
    ASSUME NEW S, S \subseteq Jobs, NEW j
    PROVE  Cardinality(S \ {j}) <= Cardinality(S)
<1>1. IsFiniteSet(S)
  BY JobSetsFinite
<1> QED
  BY <1>1, FS_Subset, S \ {j} \subseteq S

(* Taking a slot makes the set larger by one at most. *)
LEMMA TakingAddsOne ==
    ASSUME NEW S, S \subseteq Jobs, NEW j \in Jobs
    PROVE  /\ S \cup {j} \subseteq Jobs
           /\ Cardinality(S \cup {j}) <= Cardinality(S) + 1
           /\ j \in S => S \cup {j} = S
<1>1. IsFiniteSet(S) /\ Cardinality(S) \in Nat
  BY JobSetsFinite
<1>2. Cardinality(S \cup {j}) = IF j \in S THEN Cardinality(S) ELSE Cardinality(S) + 1
  BY <1>1, FS_AddElement
<1> QED
  BY <1>1, <1>2

(* No slot is taken before the monitor loop claims anything. *)
LEMMA SlotInvInit == Init => SlotInv
<1> SUFFICES ASSUME Init PROVE SlotInv
  OBVIOUS
<1>1. Cardinality(starting) = 0 /\ starting \subseteq Jobs /\ claiming = FALSE
  BY FS_EmptySet DEF Init
<1>2. LaunchesPerWorker \in Nat
  BY SlotsAssumption
<1>3. /\ Cardinality(starting) <= LaunchesPerWorker + 1
      /\ Cardinality(starting) <= LaunchesPerWorker
  BY <1>1, <1>2
<1> QED
  BY <1>1, <1>3 DEF SlotInv

(* Each step of the process keeps the invariant. *)
LEMMA SlotInvNext == SlotInv /\ [Next]_vars => SlotInv'
<1> SUFFICES ASSUME SlotInv, [Next]_vars PROVE SlotInv'
  OBVIOUS
<1> DEFINE L == LaunchesPerWorker
<1>0. L \in Nat /\ Cardinality(starting) \in Nat
  BY SlotsAssumption, JobSetsFinite DEF SlotInv
<1>a. ASSUME UNCHANGED starting, claiming' = claiming \/ claiming' = FALSE PROVE SlotInv'
  <2>1. CASE claiming' = claiming
    BY <1>a, <2>1 DEF SlotInv
  <2>2. CASE claiming' = FALSE
    BY <1>a, <2>2 DEF SlotInv
  <2> QED
    BY <1>a, <2>1, <2>2
<1>b. ASSUME NEW j, starting' = starting \ {j}, UNCHANGED claiming PROVE SlotInv'
  <2>1. Cardinality(starting') <= Cardinality(starting) /\ Cardinality(starting') \in Nat
    BY <1>b, GivingBackShrinks, JobSetsFinite DEF SlotInv
  <2> QED
    BY <1>0, <1>b, <2>1 DEF SlotInv
<1>c. ASSUME NEW j \in Jobs, Acquire(j), UNCHANGED claiming PROVE SlotInv'
  <2>1. CASE j \in starting
    BY <1>a, <1>c, <2>1, TakingAddsOne DEF SlotInv, Acquire
  <2>2. CASE j \notin starting /\ Cardinality(starting) >= L
    <3>1. UNCHANGED starting
      BY <1>0, <1>c, <2>2 DEF Acquire
    <3> QED
      BY <1>a, <1>c, <3>1 DEF SlotInv
  <2>3. CASE j \notin starting /\ Cardinality(starting) < L
    <3>1. starting' = starting \cup {j}
      BY <1>0, <1>c, <2>3 DEF Acquire
    <3>2. /\ starting' \subseteq Jobs
          /\ Cardinality(starting') <= Cardinality(starting) + 1
          /\ Cardinality(starting') \in Nat
      BY <3>1, TakingAddsOne, JobSetsFinite DEF SlotInv
    <3> QED
      BY <1>0, <1>c, <2>3, <3>2 DEF SlotInv
  <2> QED
    BY <1>0, <2>1, <2>2, <2>3
<1>1. CASE MonitorCheck
  <2>1. UNCHANGED starting /\ claiming' = TRUE /\ Cardinality(starting) < L
    BY <1>1 DEF MonitorCheck
  <2> QED
    BY <1>0, <2>1 DEF SlotInv
<1>2. CASE NothingClaimed
  BY <1>a, <1>2 DEF NothingClaimed
<1>3. ASSUME NEW j \in Jobs, CancelledOnClaim(j) PROVE SlotInv'
  BY <1>a, <1>3 DEF CancelledOnClaim
<1>4. ASSUME NEW j \in Jobs, StartJob(j) PROVE SlotInv'
  <2>1. Cardinality(starting) <= L /\ starting' = starting \cup {j} /\ claiming' = FALSE
    BY <1>4 DEF StartJob, SlotInv
  <2>2. /\ starting' \subseteq Jobs
        /\ Cardinality(starting') <= Cardinality(starting) + 1
        /\ Cardinality(starting') \in Nat
    BY <2>1, TakingAddsOne, JobSetsFinite DEF SlotInv
  <2>3. Cardinality(starting') <= L + 1
    BY <1>0, <2>1, <2>2
  <2> QED
    BY <2>1, <2>2, <2>3 DEF SlotInv
<1>5. ASSUME NEW j \in Jobs, LoadEnvFails(j) PROVE SlotInv'
  BY <1>a, <1>5 DEF LoadEnvFails
<1>6. ASSUME NEW j \in Jobs, JobStep(j) PROVE SlotInv'
  <2>1. CASE LoadEnv(j)
    BY <1>a, <2>1 DEF LoadEnv
  <2>2. CASE LoadDag(j)
    BY <1>a, <2>2 DEF LoadDag
  <2>3. CASE WakeUp(j)
    BY <1>c, <2>3 DEF WakeUp
  <2>4. CASE SetLaunching(j)
    BY <1>a, <2>4 DEF SetLaunching
  <2>5. CASE LaunchEnds(j)
    BY <1>b, <2>5 DEF LaunchEnds, GiveBack
  <2>6. CASE ReleaseLaunchSlot(j)
    BY <1>b, <2>6 DEF ReleaseLaunchSlot, GiveBack
  <2>7. CASE Finalize(j)
    BY <1>a, <1>b, <2>7 DEF Finalize, GiveBack
  <2> QED
    BY <1>6, <2>1, <2>2, <2>3, <2>4, <2>5, <2>6, <2>7 DEF JobStep
<1>7. ASSUME NEW j \in Jobs, EnterLaunch(j) PROVE SlotInv'
  BY <1>c, <1>7 DEF EnterLaunch
<1>8. ASSUME NEW j \in Jobs, PassFirstLaunch(j) PROVE SlotInv'
  BY <1>b, <1>8 DEF PassFirstLaunch, GiveBack
<1>9. ASSUME NEW j \in Jobs, BodyFails(j) PROVE SlotInv'
  BY <1>a, <1>9 DEF BodyFails
<1>10. ASSUME NEW j \in Jobs, RunEnds(j) PROVE SlotInv'
  BY <1>a, <1>10 DEF RunEnds
<1>11. ASSUME NEW j \in Jobs, CancelJob(j) PROVE SlotInv'
  <2>1. CASE pc[j] = "launching"
    <3>1. GiveBack(j, "finalize") /\ UNCHANGED claiming
      BY <1>11, <2>1 DEF CancelJob
    <3> QED
      BY <1>b, <3>1 DEF GiveBack
  <2>2. CASE pc[j] \in {"asleep", "woken"}
    <3>1. CancelWaiter(j) /\ UNCHANGED claiming
      BY <1>11, <2>2 DEF CancelJob
    <3> QED
      BY <1>a, <3>1 DEF CancelWaiter
  <2>3. CASE pc[j] \notin {"launching", "asleep", "woken"}
    <3>1. UNCHANGED <<starting, claiming>>
      BY <1>11, <2>3 DEF CancelJob
    <3> QED
      BY <1>a, <3>1
  <2> QED
    BY <2>1, <2>2, <2>3
<1>12. CASE UNCHANGED vars
  BY <1>a, <1>12 DEF vars
<1> QED
  BY <1>1, <1>2, <1>3, <1>4, <1>5, <1>6, <1>7, <1>8, <1>9, <1>10, <1>11, <1>12 DEF Next

(* However many jobs there are and whatever the limit, LAUNCHES_PER_WORKER  *)
(* is exceeded by one slot at most.                                         *)
THEOREM SlotBoundHolds == Spec => []SlotBound
<1>1. SlotInv => SlotBound
  BY DEF SlotInv, SlotBound
<1> QED
  BY <1>1, SlotInvInit, SlotInvNext, PTL DEF Spec

-----------------------------------------------------------------------------
(***************************************************************************)
(* The other bound and the wakeups rest on who sleeps where: the sleepers  *)
(* are the queue of the condition, they hold no slot, and a job that still *)
(* loads holds one.                                                        *)
(***************************************************************************)
Places == InRun \cup {"waiting", "env", "load", "finalize", "ended"}

(* The jobs that sleep according to p are those in queue q, each once. *)
QueueFits(q, p) ==
    /\ q \in Seq(Jobs)
    /\ \A i, k \in 1..Len(q) : q[i] = q[k] => i = k
    /\ \A j \in Jobs : p[j] = "asleep" <=> \E i \in 1..Len(q) : q[i] = j

Busy == {j \in Jobs : pc[j] \in InRun \cup {"env", "load"}}

Woken == {j \in Jobs : pc[j] = "woken"}

PlaceInv ==
    /\ starting \subseteq Jobs
    /\ claiming \in BOOLEAN
    /\ pc \in [Jobs -> Places]
    /\ QueueFits(waiters, pc)
    /\ \A j \in Jobs : /\ pc[j] \in {"env", "load"} => j \in starting
                       /\ pc[j] \in {"asleep", "woken"} => j \notin starting

(* monitor_loop looked at both limits before it went into the claim. *)
CountInv ==
    /\ Cardinality(Busy) <= MaxJobs + LaunchesPerWorker - 1
    /\ claiming => Cardinality(Busy) <= MaxJobs + LaunchesPerWorker - 2

(* For every free slot there is a job that was told of it, or nobody sleeps. *)
WakeInv ==
    Renotify /\ (\E j \in Jobs : pc[j] = "asleep") =>
        Cardinality(starting) + Cardinality(Woken) >= LaunchesPerWorker

(* The queue under the operations on it: a job that neither slept nor goes  *)
(* to sleep moves.                                                          *)
LEMMA QueueMove ==
    ASSUME NEW q, NEW p \in [Jobs -> Places], QueueFits(q, p), NEW j \in Jobs, NEW x \in Places,
           p[j] # "asleep", x # "asleep"
    PROVE  QueueFits(q, [p EXCEPT ![j] = x])
BY DEF QueueFits

(* A job goes to sleep. *)
LEMMA QueueAppend ==
    ASSUME NEW q, NEW p \in [Jobs -> Places], QueueFits(q, p), NEW j \in Jobs, p[j] # "asleep"
    PROVE  QueueFits(Append(q, j), [p EXCEPT ![j] = "asleep"])
<1> DEFINE s == Append(q, j)
<1>1. q \in Seq(Jobs) /\ Len(q) \in Nat /\ \A i \in 1..Len(q) : q[i] \in Jobs /\ q[i] # j
  BY DEF QueueFits
<1>2. /\ s \in Seq(Jobs) /\ Len(s) = Len(q) + 1
      /\ \A i \in 1..Len(q) : s[i] = q[i]
      /\ s[Len(q) + 1] = j
  BY <1>1
<1>3. \A i \in 1..Len(s) : i \in 1..Len(q) \/ i = Len(q) + 1
  BY <1>1, <1>2
<1>4. \A i \in 1..Len(q) : i \in 1..Len(s)
  BY <1>1, <1>2
<1>5. Len(q) + 1 \in 1..Len(s)
  BY <1>1, <1>2
<1> HIDE DEF s
<1>6. \A i, k \in 1..Len(s) : s[i] = s[k] => i = k
  <2> SUFFICES ASSUME NEW i \in 1..Len(s), NEW k \in 1..Len(s), s[i] = s[k] PROVE i = k
    OBVIOUS
  <2>1. CASE i \in 1..Len(q) /\ k \in 1..Len(q)
    BY <1>2, <2>1 DEF QueueFits
  <2>2. CASE i = Len(q) + 1 \/ k = Len(q) + 1
    BY <1>1, <1>2, <1>3, <2>2
  <2> QED
    BY <1>3, <2>1, <2>2
<1>7. \A m \in Jobs : [p EXCEPT ![j] = "asleep"][m] = "asleep" <=> \E i \in 1..Len(s) : s[i] = m
  BY <1>1, <1>2, <1>3, <1>4, <1>5 DEF QueueFits
<1> QED
  BY <1>2, <1>6, <1>7 DEF QueueFits, s

(* A job leaves the queue, or was not in it any more. *)
LEMMA QueueWithout ==
    ASSUME NEW q, NEW p \in [Jobs -> Places], QueueFits(q, p), NEW j \in Jobs,
           NEW x \in Places, x # "asleep"
    PROVE  QueueFits(Without(q, j), [p EXCEPT ![j] = x])
<1>1. q \in Seq(Jobs) /\ Len(q) \in Nat /\ \A i \in 1..Len(q) : q[i] \in Jobs
  BY DEF QueueFits
<1>2. CASE p[j] # "asleep"
  <2>1. Without(q, j) = q
    BY <1>2 DEF Without, QueueFits
  <2> QED
    BY <1>2, <2>1, QueueMove
<1>3. CASE p[j] = "asleep"
  <2> DEFINE at == CHOOSE i \in 1..Len(q) : q[i] = j
             s == [k \in 1..(Len(q) - 1) |-> q[IF k < at THEN k ELSE k + 1]]
  <2>0. \E i \in 1..Len(q) : q[i] = j
    BY <1>3 DEF QueueFits
  <2>1. at \in 1..Len(q) /\ q[at] = j
    BY <2>0
  <2>2. Without(q, j) = s
    BY <2>0 DEF Without
  <2> HIDE DEF at
  <2>3. \A k \in 1..(Len(q) - 1) :
           /\ (IF k < at THEN k ELSE k + 1) \in 1..Len(q)
           /\ (IF k < at THEN k ELSE k + 1) # at
    BY <1>1, <2>1
  <2>4. s \in Seq(Jobs) /\ Len(s) = Len(q) - 1
    <3>1. Len(q) - 1 \in Nat
      BY <1>1, <2>1
    <3>2. \A k \in 1..(Len(q) - 1) : q[IF k < at THEN k ELSE k + 1] \in Jobs
      BY <1>1, <2>3
    <3> QED
      BY <3>1, <3>2
  <2>5. \A k \in 1..Len(s) : s[k] = q[IF k < at THEN k ELSE k + 1]
    BY <2>4
  <2> HIDE DEF s
  <2>6. \A i, k \in 1..Len(s) : s[i] = s[k] => i = k
    <3> SUFFICES ASSUME NEW i \in 1..Len(s), NEW k \in 1..Len(s), s[i] = s[k] PROVE i = k
      OBVIOUS
    <3>1. (IF i < at THEN i ELSE i + 1) = (IF k < at THEN k ELSE k + 1)
      BY <2>3, <2>4, <2>5 DEF QueueFits
    <3> QED
      BY <1>1, <2>1, <2>4, <3>1
  <2>7. ASSUME NEW m \in Jobs
        PROVE  [p EXCEPT ![j] = x][m] = "asleep" <=> \E i \in 1..Len(s) : s[i] = m
    <3>1. CASE m = j
      <4>1. ASSUME NEW i \in 1..Len(s) PROVE s[i] # j
        <5> DEFINE k == IF i < at THEN i ELSE i + 1
        <5>1. s[i] = q[k] /\ k \in 1..Len(q) /\ k # at
          BY <2>3, <2>4, <2>5
        <5> HIDE DEF k
        <5> QED
          BY <2>1, <5>1 DEF QueueFits
      <4> QED
        BY <3>1, <4>1
    <3>2. CASE m # j /\ p[m] = "asleep"
      <4>1. PICK i \in 1..Len(q) : q[i] = m
        BY <3>2 DEF QueueFits
      <4>2. i # at
        BY <2>1, <3>2, <4>1
      <4>3. CASE i < at
        <5>1. i \in 1..Len(s) /\ s[i] = m
          BY <1>1, <2>1, <2>4, <2>5, <4>1, <4>3
        <5> QED
          BY <3>2, <5>1
      <4>4. CASE i > at
        <5>1. i - 1 \in 1..Len(s) /\ ~(i - 1 < at) /\ (i - 1) + 1 = i
          BY <1>1, <2>1, <2>4, <4>4
        <5>2. s[i - 1] = m
          BY <2>5, <4>1, <5>1
        <5> QED
          BY <3>2, <5>1, <5>2
      <4> QED
        BY <1>1, <2>1, <4>2, <4>3, <4>4
    <3>3. CASE m # j /\ p[m] # "asleep"
      <4>1. \A i \in 1..Len(q) : q[i] # m
        BY <3>3 DEF QueueFits
      <4>2. \A i \in 1..Len(s) : s[i] # m
        BY <2>3, <2>4, <2>5, <4>1
      <4> QED
        BY <3>3, <4>2
    <3> QED
      BY <3>1, <3>2, <3>3
  <2> QED
    BY <2>2, <2>4, <2>6, <2>7 DEF QueueFits
<1> QED
  BY <1>2, <1>3

(* notify() wakes the first sleeper, if there is one. *)
LEMMA NotifyFacts ==
    ASSUME NEW q, NEW p \in [Jobs -> Places], QueueFits(q, p), Notify(q, p)
    PROVE  /\ pc' \in [Jobs -> Places]
           /\ QueueFits(waiters', pc')
           /\ \/ pc' = p /\ \A j \in Jobs : p[j] # "asleep"
              \/ \E h \in Jobs : p[h] = "asleep" /\ pc' = [p EXCEPT ![h] = "woken"]
<1>1. q \in Seq(Jobs) /\ Len(q) \in Nat /\ \A i \in 1..Len(q) : q[i] \in Jobs
  BY DEF QueueFits
<1>2. CASE q = <<>>
  BY <1>2 DEF Notify, QueueFits
<1>3. CASE q # <<>>
  <2>1. pc' = [p EXCEPT ![Head(q)] = "woken"] /\ waiters' = Tail(q)
    BY <1>3 DEF Notify
  <2>2. Len(q) > 0 /\ Head(q) = q[1] /\ 1 \in 1..Len(q)
    BY <1>1, <1>3
  <2>3. p[q[1]] = "asleep" /\ q[1] \in Jobs
    BY <1>1, <2>2 DEF QueueFits
  <2>4. /\ Tail(q) \in Seq(Jobs) /\ Len(Tail(q)) = Len(q) - 1
        /\ \A k \in 1..(Len(q) - 1) : Tail(q)[k] = q[k + 1]
    BY <1>1, <1>3, <2>2
  <2> DEFINE s == Tail(q)
  <2>5. \A k \in 1..Len(s) : s[k] = q[k + 1] /\ k + 1 \in 1..Len(q) /\ k + 1 # 1
    BY <1>1, <2>2, <2>4
  <2>6. \A i \in 1..Len(q) : i # 1 => i - 1 \in 1..Len(s) /\ s[i - 1] = q[i]
    BY <1>1, <2>2, <2>4
  <2>7. s \in Seq(Jobs) /\ waiters' = s /\ Len(s) \in Nat
    BY <2>1, <2>4
  <2> HIDE DEF s
  <2>8. \A i, k \in 1..Len(s) : s[i] = s[k] => i = k
    <3> SUFFICES ASSUME NEW i \in 1..Len(s), NEW k \in 1..Len(s), s[i] = s[k] PROVE i = k
      OBVIOUS
    <3>1. i + 1 = k + 1
      BY <2>5 DEF QueueFits
    <3> QED
      BY <2>7, <3>1
  <2>9. pc' \in [Jobs -> Places] /\ pc'[q[1]] = "woken" /\ \A m \in Jobs : m # q[1] => pc'[m] = p[m]
    BY <2>1, <2>2, <2>3 DEF Places, InRun
  <2>10. \A m \in Jobs : pc'[m] = "asleep" <=> \E i \in 1..Len(s) : s[i] = m
    <3>1. ASSUME NEW i \in 1..Len(s) PROVE s[i] # q[1] /\ s[i] \in Jobs
      <4>1. s[i] = q[i + 1] /\ i + 1 \in 1..Len(q) /\ i + 1 # 1
        BY <2>5
      <4> QED
        BY <1>1, <2>2, <4>1 DEF QueueFits
    <3>2. ASSUME NEW m \in Jobs, m # q[1], p[m] = "asleep" PROVE \E i \in 1..Len(s) : s[i] = m
      <4>1. PICK i \in 1..Len(q) : q[i] = m
        BY <3>2 DEF QueueFits
      <4>2. i - 1 \in 1..Len(s) /\ s[i - 1] = m
        BY <2>6, <3>2, <4>1
      <4> QED
        BY <4>2
    <3>3. ASSUME NEW m \in Jobs, NEW i \in 1..Len(s), s[i] = m PROVE p[m] = "asleep"
      BY <2>5, <3>3 DEF QueueFits
    <3> QED
      BY <2>9, <3>1, <3>2, <3>3
  <2> QED
    <3>1. QueueFits(waiters', pc')
      BY <2>7, <2>8, <2>10 DEF QueueFits
    <3>2. \E h \in Jobs : p[h] = "asleep" /\ pc' = [p EXCEPT ![h] = "woken"]
      BY <2>1, <2>2, <2>3
    <3> QED
      BY <2>9, <3>1, <3>2
<1> QED
  BY <1>2, <1>3

-----------------------------------------------------------------------------
(* What a step does to the bounds: no new job runs, and the wakeups still   *)
(* suffice.                                                                 *)
Keeps == PlaceInv' /\ Busy' \subseteq Busy /\ (WakeInv => WakeInv')

(* One element more or less. *)
LEMMA OneElement ==
    ASSUME NEW S, S \subseteq Jobs, NEW j \in Jobs
    PROVE  /\ IsFiniteSet(S \ {j}) /\ Cardinality(S \ {j}) \in Nat
           /\ Cardinality(S \ {j}) >= Cardinality(S) - 1
           /\ Cardinality(S \cup {j}) \in Nat /\ Cardinality(S \cup {j}) >= Cardinality(S)
<1>1. IsFiniteSet(S) /\ Cardinality(S) \in Nat
  BY JobSetsFinite
<1>2. IsFiniteSet(S \ {j}) /\ Cardinality(S \ {j}) \in Nat
  BY JobSetsFinite
<1>3. Cardinality(S \ {j}) = IF j \in S THEN Cardinality(S) - 1 ELSE Cardinality(S)
  BY <1>1, FS_RemoveElement
<1>4. Cardinality(S \cup {j}) = IF j \in S THEN Cardinality(S) ELSE Cardinality(S) + 1
  BY <1>1, FS_AddElement
<1> QED
  BY <1>1, <1>2, <1>3, <1>4

(* The sets that are counted. *)
LEMMA CountedSets ==
    ASSUME PlaceInv
    PROVE  /\ IsFiniteSet(starting) /\ Cardinality(starting) \in Nat
           /\ IsFiniteSet(Woken) /\ Cardinality(Woken) \in Nat
           /\ IsFiniteSet(Busy) /\ Cardinality(Busy) \in Nat
           /\ LaunchesPerWorker \in Nat \ {0} /\ MaxJobs \in Nat \ {0}
BY JobSetsFinite, SlotsAssumption DEF PlaceInv, Woken, Busy

(* A job moves that neither slept nor goes to sleep, and keeps its slot. *)
LEMMA MoveKeeps ==
    ASSUME PlaceInv, NEW j \in Jobs, NEW x \in Places \ {"asleep", "woken", "waiting"},
           pc[j] \notin {"asleep", "woken"}, pc' = Goto(j, x),
           x \in {"env", "load"} => pc[j] = "env",
           x \in InRun => pc[j] \in InRun \cup {"load"},
           UNCHANGED <<starting, waiters>>, claiming' \in BOOLEAN
    PROVE  Keeps
<1>1. /\ pc' \in [Jobs -> Places] /\ pc'[j] = x
      /\ \A k \in Jobs : k # j => pc'[k] = pc[k]
  BY DEF PlaceInv, Goto
<1>2. QueueFits(waiters', pc')
  BY QueueMove DEF PlaceInv, Goto
<1>3. PlaceInv'
  BY <1>1, <1>2 DEF PlaceInv, QueueFits
<1>4. Busy' \subseteq Busy
  BY <1>1 DEF Busy
<1>5. Woken' = Woken /\ \A k \in Jobs : pc'[k] = "asleep" => pc[k] = "asleep"
  BY <1>1 DEF Woken
<1>6. WakeInv => WakeInv'
  BY <1>5 DEF WakeInv
<1> QED
  BY <1>3, <1>4, <1>6 DEF Keeps

(* A slot goes back: it is one less, and one sleeper more is awake. *)
LEMMA GiveBackKeeps ==
    ASSUME PlaceInv, NEW j \in Jobs, NEW x \in {"body", "error", "finalize", "ended"},
           pc[j] \in {"launching", "body", "error", "finalize"}, GiveBack(j, x),
           x \in InRun => pc[j] \in InRun, UNCHANGED claiming
    PROVE  Keeps
<1> DEFINE p == Goto(j, x)
<1>1. /\ p \in [Jobs -> Places] /\ p[j] = x
      /\ \A k \in Jobs : k # j => p[k] = pc[k]
  BY DEF PlaceInv, Goto, Places, InRun
<1>2. QueueFits(waiters, p)
  BY QueueMove DEF PlaceInv, Goto, Places, InRun
<1>3. starting' = starting \ {j} /\ Notify(waiters, p)
  BY DEF GiveBack
<1> HIDE DEF p
<1>4. /\ pc' \in [Jobs -> Places] /\ QueueFits(waiters', pc')
      /\ \/ pc' = p /\ \A k \in Jobs : p[k] # "asleep"
         \/ \E h \in Jobs : p[h] = "asleep" /\ pc' = [p EXCEPT ![h] = "woken"]
  BY <1>1, <1>2, <1>3, NotifyFacts
<1>a. IsFiniteSet(starting) /\ Cardinality(starting) \in Nat /\ IsFiniteSet(Woken)
      /\ Cardinality(Woken) \in Nat /\ LaunchesPerWorker \in Nat
  BY CountedSets
<1>5. CASE pc' = p /\ \A k \in Jobs : p[k] # "asleep"
  <2>1. PlaceInv'
    BY <1>1, <1>3, <1>4, <1>5 DEF PlaceInv, QueueFits, InRun
  <2>2. Busy' \subseteq Busy
    BY <1>1, <1>5 DEF Busy, InRun
  <2>3. WakeInv'
    BY <1>5 DEF WakeInv
  <2> QED
    BY <2>1, <2>2, <2>3 DEF Keeps
<1>6. ASSUME NEW h \in Jobs, p[h] = "asleep", pc' = [p EXCEPT ![h] = "woken"]
      PROVE  Keeps
  <2>0. h # j /\ pc[h] = "asleep"
    BY <1>1, <1>6
  <2>1. pc'[h] = "woken" /\ pc'[j] = x /\ \A k \in Jobs \ {h, j} : pc'[k] = pc[k]
    BY <1>1, <1>6, <2>0
  <2>2. PlaceInv'
    <3>1. \A k \in Jobs : /\ pc'[k] \in {"env", "load"} => k \in starting'
                          /\ pc'[k] \in {"asleep", "woken"} => k \notin starting'
      BY <1>3, <2>0, <2>1 DEF PlaceInv
    <3> QED
      BY <1>3, <1>4, <3>1 DEF PlaceInv, QueueFits
  <2>3. Busy' \subseteq Busy
    BY <2>0, <2>1 DEF Busy, InRun
  <2>4. h \notin Woken /\ Woken' = Woken \cup {h}
    BY <2>0, <2>1 DEF Woken
  <2>5. Cardinality(Woken') = Cardinality(Woken) + 1
    BY <1>a, <2>4, FS_AddElement
  <2>6. Cardinality(starting') >= Cardinality(starting) - 1 /\ Cardinality(starting') \in Nat
    BY <1>3, <1>a, OneElement DEF PlaceInv
  <2>7. WakeInv => WakeInv'
    BY <1>a, <2>0, <2>5, <2>6 DEF WakeInv
  <2> QED
    BY <2>2, <2>3, <2>7 DEF Keeps
<1> QED
  BY <1>4, <1>5, <1>6

(* A job takes a slot, which a woken one was told of, or goes to sleep      *)
(* because there is none.                                                   *)
LEMMA AcquireKeeps ==
    ASSUME PlaceInv, NEW j \in Jobs, pc[j] \in {"body", "woken"}, Acquire(j), UNCHANGED claiming
    PROVE  Keeps
<1>a. IsFiniteSet(starting) /\ Cardinality(starting) \in Nat /\ IsFiniteSet(Woken)
      /\ Cardinality(Woken) \in Nat /\ LaunchesPerWorker \in Nat
  BY CountedSets
<1>1. CASE starting' = starting \cup {j} /\ pc' = Goto(j, "entering") /\ UNCHANGED waiters
  <2>1. /\ pc' \in [Jobs -> Places] /\ pc'[j] = "entering"
        /\ \A k \in Jobs : k # j => pc'[k] = pc[k]
    BY <1>1 DEF PlaceInv, Goto, Places, InRun
  <2>2. QueueFits(waiters', pc')
    BY <1>1, QueueMove DEF PlaceInv, Goto, Places, InRun
  <2>3. PlaceInv'
    BY <1>1, <2>1, <2>2 DEF PlaceInv, QueueFits
  <2>4. Busy' \subseteq Busy
    BY <2>1 DEF Busy, InRun
  <2>5. Woken' = Woken \ {j} /\ \A k \in Jobs : pc'[k] = "asleep" => pc[k] = "asleep"
    BY <2>1 DEF Woken
  <2>6. Cardinality(starting') + Cardinality(Woken') >= Cardinality(starting) + Cardinality(Woken)
    <3>1. CASE j \in Woken
      <4>1. j \notin starting
        BY <3>1 DEF PlaceInv, Woken
      <4>2. Cardinality(starting') = Cardinality(starting) + 1
        BY <1>1, <1>a, <4>1, FS_AddElement
      <4>3. Cardinality(Woken') = Cardinality(Woken) - 1
        BY <1>a, <2>5, <3>1, FS_RemoveElement
      <4> QED
        BY <1>a, <4>2, <4>3
    <3>2. CASE j \notin Woken
      <4>1. Woken' = Woken
        BY <2>5, <3>2
      <4>2. Cardinality(starting') >= Cardinality(starting) /\ Cardinality(starting') \in Nat
        BY <1>1, OneElement DEF PlaceInv
      <4> QED
        BY <1>a, <4>1, <4>2
    <3> QED
      BY <3>1, <3>2
  <2>7. Cardinality(starting') \in Nat /\ Cardinality(Woken') \in Nat
    BY <1>1, <2>5, OneElement DEF PlaceInv, Woken
  <2>8. WakeInv => WakeInv'
    BY <1>a, <2>5, <2>6, <2>7 DEF WakeInv
  <2> QED
    BY <2>3, <2>4, <2>8 DEF Keeps
<1>2. CASE /\ j \notin starting /\ Cardinality(starting) >= LaunchesPerWorker
           /\ waiters' = Append(waiters, j) /\ pc' = Goto(j, "asleep") /\ UNCHANGED starting
  <2>1. /\ pc' \in [Jobs -> Places] /\ pc'[j] = "asleep"
        /\ \A k \in Jobs : k # j => pc'[k] = pc[k]
    BY <1>2 DEF PlaceInv, Goto, Places, InRun
  <2>2. QueueFits(waiters', pc')
    BY <1>2, QueueAppend DEF PlaceInv, Goto
  <2>3. PlaceInv'
    BY <1>2, <2>1, <2>2 DEF PlaceInv, QueueFits
  <2>4. Busy' \subseteq Busy
    BY <2>1 DEF Busy, InRun
  <2>5. Cardinality(Woken') \in Nat
    BY JobSetsFinite, Woken' \subseteq Jobs DEF Woken
  <2>6. WakeInv'
    BY <1>2, <1>a, <2>5 DEF WakeInv
  <2> QED
    BY <2>3, <2>4, <2>6 DEF Keeps
<1> QED
  BY <1>1, <1>2 DEF Acquire

(* A sleeper, or one that was just woken, is cancelled and passes its       *)
(* wakeup on.                                                               *)
LEMMA CancelWaiterKeeps ==
    ASSUME PlaceInv, NEW j \in Jobs, pc[j] \in {"asleep", "woken"}, CancelWaiter(j),
           UNCHANGED claiming
    PROVE  Keeps
<1> DEFINE p == Goto(j, "finalize")
           q == Without(waiters, j)
<1>1. /\ p \in [Jobs -> Places] /\ p[j] = "finalize"
      /\ \A k \in Jobs : k # j => p[k] = pc[k]
  BY DEF PlaceInv, Goto, Places
<1>2. QueueFits(q, p)
  BY QueueWithout DEF PlaceInv, Goto, Places
<1>3. starting' = starting /\ (Notify(q, p) \/ (~Renotify /\ waiters' = q /\ pc' = p))
      /\ (Renotify => Notify(q, p))
  BY DEF CancelWaiter
<1> HIDE DEF p, q
<1>a. IsFiniteSet(starting) /\ Cardinality(starting) \in Nat /\ IsFiniteSet(Woken)
      /\ Cardinality(Woken) \in Nat /\ LaunchesPerWorker \in Nat
  BY CountedSets
<1>4. CASE pc' = p
  <2>0. QueueFits(waiters', pc')
    BY <1>1, <1>2, <1>3, <1>4, NotifyFacts
  <2>1. PlaceInv'
    BY <1>1, <1>3, <1>4, <2>0 DEF PlaceInv, QueueFits
  <2>2. Busy' \subseteq Busy
    BY <1>1, <1>4 DEF Busy, InRun
  <2>3. Renotify => \A k \in Jobs : pc'[k] # "asleep"
    <3> SUFFICES ASSUME Renotify, NEW h \in Jobs, p[h] = "asleep", p = [p EXCEPT ![h] = "woken"]
                 PROVE  FALSE
      BY <1>1, <1>2, <1>3, <1>4, NotifyFacts
    <3>1. [p EXCEPT ![h] = "woken"][h] = "woken"
      BY <1>1
    <3> QED
      BY <3>1
  <2>4. WakeInv'
    BY <2>3 DEF WakeInv
  <2> QED
    BY <2>1, <2>2, <2>4 DEF Keeps
<1>5. CASE pc' # p
  <2>1. PICK h \in Jobs : p[h] = "asleep" /\ pc' = [p EXCEPT ![h] = "woken"]
    BY <1>1, <1>2, <1>3, <1>5, NotifyFacts
  <2>2. pc' \in [Jobs -> Places] /\ QueueFits(waiters', pc')
    BY <1>1, <1>2, <1>3, <1>5, NotifyFacts
  <2>3. h # j /\ pc[h] = "asleep"
    BY <1>1, <2>1
  <2>4. pc'[h] = "woken" /\ pc'[j] = "finalize" /\ \A k \in Jobs \ {h, j} : pc'[k] = pc[k]
    BY <1>1, <2>1, <2>3
  <2>5. PlaceInv'
    <3>1. \A k \in Jobs : /\ pc'[k] \in {"env", "load"} => k \in starting'
                          /\ pc'[k] \in {"asleep", "woken"} => k \notin starting'
      BY <1>3, <2>3, <2>4 DEF PlaceInv
    <3> QED
      BY <1>3, <2>2, <3>1 DEF PlaceInv, QueueFits
  <2>6. Busy' \subseteq Busy
    BY <2>3, <2>4 DEF Busy, InRun
  <2>7. h \notin Woken \ {j} /\ Woken' = (Woken \ {j}) \cup {h}
    BY <2>3, <2>4 DEF Woken
  <2>8. Cardinality(Woken') >= Cardinality(Woken) /\ Cardinality(Woken') \in Nat
    <3>1. /\ IsFiniteSet(Woken \ {j}) /\ Cardinality(Woken \ {j}) \in Nat
          /\ Cardinality(Woken \ {j}) >= Cardinality(Woken) - 1
      BY OneElement DEF Woken
    <3>2. Cardinality(Woken') = Cardinality(Woken \ {j}) + 1
      BY <2>7, <3>1, FS_AddElement
    <3> QED
      BY <1>a, <3>1, <3>2
  <2>9. WakeInv => WakeInv'
    BY <1>3, <1>a, <2>3, <2>8 DEF WakeInv
  <2> QED
    BY <2>5, <2>6, <2>9 DEF Keeps
<1> QED
  BY <1>4, <1>5

(* A step that lets nobody new in keeps the count. *)
LEMMA KeepsCount ==
    ASSUME PlaceInv, CountInv, Keeps, claiming' = claiming \/ claiming' = FALSE
    PROVE  CountInv'
<1>1. /\ IsFiniteSet(Busy) /\ Cardinality(Busy) \in Nat
      /\ LaunchesPerWorker \in Nat \ {0} /\ MaxJobs \in Nat \ {0}
  BY CountedSets
<1>2. Busy' \subseteq Busy /\ claiming \in BOOLEAN
  BY DEF Keeps, PlaceInv
<1>3. Cardinality(Busy') <= Cardinality(Busy) /\ Cardinality(Busy') \in Nat
  BY <1>1, <1>2, FS_Subset, FS_CardinalityType
<1> QED
  BY <1>1, <1>2, <1>3 DEF CountInv

AdmissionInv == PlaceInv /\ CountInv /\ WakeInv

(* Nothing has been claimed yet. *)
LEMMA AdmissionInvInit == Init => AdmissionInv
<1> SUFFICES ASSUME Init PROVE AdmissionInv
  OBVIOUS
<1>1. /\ starting = {} /\ waiters = <<>> /\ claiming = FALSE
      /\ pc \in [Jobs -> Places] /\ \A j \in Jobs : pc[j] = "waiting"
  BY DEF Init, Places
<1>2. QueueFits(waiters, pc)
  BY <1>1 DEF QueueFits
<1>3. PlaceInv
  BY <1>1, <1>2 DEF PlaceInv
<1>4. Cardinality(Busy) = 0
  <2>1. Busy = {}
    BY <1>1 DEF Busy, InRun
  <2> QED
    BY <2>1, FS_EmptySet
<1>5. CountInv
  BY <1>1, <1>4, SlotsAssumption DEF CountInv
<1>6. WakeInv
  BY <1>1 DEF WakeInv
<1> QED
  BY <1>3, <1>5, <1>6 DEF AdmissionInv

(* monitor_loop finds both numbers under their limits: a job that loads     *)
(* holds a slot, so that the two limits bound what runs and loads together. *)
LEMMA CheckKeepsCount ==
    ASSUME AdmissionInv, MonitorCheck
    PROVE  AdmissionInv'
<1>1. /\ IsFiniteSet(starting) /\ Cardinality(starting) \in Nat
      /\ IsFiniteSet(Busy) /\ Cardinality(Busy) \in Nat
      /\ LaunchesPerWorker \in Nat \ {0} /\ MaxJobs \in Nat \ {0}
  BY CountedSets DEF AdmissionInv
<1>2. /\ UNCHANGED <<starting, waiters, pc, launches>> /\ claiming' = TRUE
      /\ Cardinality(starting) < LaunchesPerWorker
      /\ Cardinality(Running) < MaxJobs
  BY DEF MonitorCheck
<1>3. PlaceInv' /\ WakeInv'
  BY <1>2 DEF AdmissionInv, PlaceInv, WakeInv, Woken, QueueFits
<1>4. Busy \subseteq Running \cup starting
  BY DEF AdmissionInv, PlaceInv, Busy, Running
<1>5. IsFiniteSet(Running) /\ Cardinality(Running) \in Nat
  BY JobSetsFinite DEF Running
<1>6. /\ IsFiniteSet(Running \cup starting) /\ Cardinality(Running \cup starting) \in Nat
      /\ Cardinality(Running \cup starting) <= Cardinality(Running) + Cardinality(starting)
  <2>1. Cardinality(Running \cap starting) \in Nat
    BY JobSetsFinite DEF Running
  <2>2. /\ IsFiniteSet(Running \cup starting)
        /\ Cardinality(Running \cup starting)
             = Cardinality(Running) + Cardinality(starting) - Cardinality(Running \cap starting)
    BY <1>1, <1>5, FS_Union
  <2> QED
    BY <1>1, <1>5, <2>1, <2>2, FS_CardinalityType
<1>7. Cardinality(Busy) <= Cardinality(Running \cup starting)
  BY <1>4, <1>6, FS_Subset
<1>8. Cardinality(Busy) <= MaxJobs + LaunchesPerWorker - 2
  BY <1>1, <1>2, <1>5, <1>6, <1>7
<1>9. Busy' = Busy
  BY <1>2 DEF Busy
<1>10. CountInv'
  BY <1>1, <1>8, <1>9 DEF CountInv
<1> QED
  BY <1>3, <1>10 DEF AdmissionInv

(* start_job adds the one job that monitor_loop made room for. *)
LEMMA StartKeeps ==
    ASSUME AdmissionInv, NEW j \in Jobs, StartJob(j)
    PROVE  AdmissionInv'
<1>0. PlaceInv /\ CountInv /\ WakeInv
  BY DEF AdmissionInv
<1>1. /\ claiming /\ pc[j] = "waiting" /\ claiming' = FALSE /\ starting' = starting \cup {j}
      /\ pc' = [pc EXCEPT ![j] = "env"] /\ UNCHANGED waiters
  BY DEF StartJob, Goto
<1>2. /\ pc' \in [Jobs -> Places] /\ pc'[j] = "env"
      /\ \A k \in Jobs : k # j => pc'[k] = pc[k]
  BY <1>0, <1>1 DEF PlaceInv, Places
<1>3. QueueFits(waiters', pc')
  BY <1>0, <1>1, QueueMove DEF PlaceInv, Places
<1>4. PlaceInv'
  <2>1. starting' \subseteq Jobs /\ claiming' \in BOOLEAN
    BY <1>0, <1>1 DEF PlaceInv
  <2>2. ASSUME NEW k \in Jobs
        PROVE  /\ pc'[k] \in {"env", "load"} => k \in starting'
               /\ pc'[k] \in {"asleep", "woken"} => k \notin starting'
    BY <1>0, <1>1, <1>2 DEF PlaceInv
  <2> QED
    BY <1>2, <1>3, <2>1, <2>2 DEF PlaceInv
<1>5. /\ IsFiniteSet(Busy) /\ Cardinality(Busy) \in Nat
      /\ Cardinality(starting) \in Nat /\ Cardinality(Woken) \in Nat
      /\ LaunchesPerWorker \in Nat \ {0} /\ MaxJobs \in Nat \ {0}
  BY <1>0, CountedSets
<1>6. Busy' = Busy \cup {j} /\ j \notin Busy
  BY <1>1, <1>2 DEF Busy, InRun
<1>7. Cardinality(Busy') = Cardinality(Busy) + 1
  BY <1>5, <1>6, FS_AddElement
<1>8. CountInv'
  BY <1>0, <1>1, <1>5, <1>7 DEF CountInv
<1>9. Woken' = Woken /\ \A k \in Jobs : pc'[k] = "asleep" => pc[k] = "asleep"
  BY <1>1, <1>2 DEF Woken
<1>10. Cardinality(starting') >= Cardinality(starting) /\ Cardinality(starting') \in Nat
  BY <1>0, <1>1, OneElement DEF PlaceInv
<1>11. WakeInv'
  BY <1>0, <1>5, <1>9, <1>10 DEF WakeInv
<1> QED
  BY <1>4, <1>8, <1>11 DEF AdmissionInv

(* Every step keeps the places, the count and the wakeups. *)
LEMMA AdmissionInvNext == AdmissionInv /\ [Next]_vars => AdmissionInv'
<1> SUFFICES ASSUME AdmissionInv, [Next]_vars PROVE AdmissionInv'
  OBVIOUS
<1>0. PlaceInv /\ CountInv /\ WakeInv /\ claiming \in BOOLEAN
  BY DEF AdmissionInv, PlaceInv
<1>a. ASSUME Keeps, claiming' = claiming \/ claiming' = FALSE PROVE AdmissionInv'
  BY <1>0, <1>a, KeepsCount DEF AdmissionInv, Keeps
<1>b. ASSUME UNCHANGED <<starting, waiters, pc>>, claiming' = claiming \/ claiming' = FALSE
      PROVE  AdmissionInv'
  <2>1. Keeps
    BY <1>0, <1>b DEF Keeps, PlaceInv, QueueFits, Busy, WakeInv, Woken
  <2> QED
    BY <1>a, <1>b, <2>1
<1> USE DEF Places, InRun
<1>1. CASE MonitorCheck
  BY <1>1, CheckKeepsCount
<1>2. CASE NothingClaimed
  BY <1>b, <1>2 DEF NothingClaimed
<1>3. ASSUME NEW j \in Jobs, CancelledOnClaim(j) PROVE AdmissionInv'
  BY <1>0, <1>a, <1>3, MoveKeeps DEF CancelledOnClaim
<1>4. ASSUME NEW j \in Jobs, StartJob(j) PROVE AdmissionInv'
  BY <1>4, StartKeeps
<1>5. ASSUME NEW j \in Jobs, LoadEnvFails(j) PROVE AdmissionInv'
  BY <1>0, <1>a, <1>5, MoveKeeps DEF LoadEnvFails
<1>6. ASSUME NEW j \in Jobs, JobStep(j) PROVE AdmissionInv'
  <2>1. CASE LoadEnv(j)
    BY <1>0, <1>a, <2>1, MoveKeeps DEF LoadEnv
  <2>2. CASE LoadDag(j)
    BY <1>0, <1>a, <2>2, MoveKeeps DEF LoadDag
  <2>3. CASE WakeUp(j)
    BY <1>0, <1>a, <2>3, AcquireKeeps DEF WakeUp
  <2>4. CASE SetLaunching(j)
    BY <1>0, <1>a, <2>4, MoveKeeps DEF SetLaunching
  <2>5. CASE LaunchEnds(j)
    BY <1>0, <1>a, <2>5, GiveBackKeeps DEF LaunchEnds
  <2>6. CASE ReleaseLaunchSlot(j)
    BY <1>0, <1>a, <2>6, GiveBackKeeps DEF ReleaseLaunchSlot
  <2>7. CASE Finalize(j)
    <3>1. CASE GiveBack(j, "ended")
      BY <1>0, <1>a, <2>7, <3>1, GiveBackKeeps DEF Finalize
    <3>2. CASE pc' = Goto(j, "ended") /\ UNCHANGED <<starting, waiters>>
      BY <1>0, <1>a, <2>7, <3>2, MoveKeeps DEF Finalize
    <3> QED
      BY <2>7, <3>1, <3>2 DEF Finalize
  <2> QED
    BY <1>6, <2>1, <2>2, <2>3, <2>4, <2>5, <2>6, <2>7 DEF JobStep
<1>7. ASSUME NEW j \in Jobs, EnterLaunch(j) PROVE AdmissionInv'
  BY <1>0, <1>a, <1>7, AcquireKeeps DEF EnterLaunch
<1>8. ASSUME NEW j \in Jobs, PassFirstLaunch(j) PROVE AdmissionInv'
  BY <1>0, <1>a, <1>8, GiveBackKeeps DEF PassFirstLaunch
<1>9. ASSUME NEW j \in Jobs, BodyFails(j) PROVE AdmissionInv'
  BY <1>0, <1>a, <1>9, MoveKeeps DEF BodyFails
<1>10. ASSUME NEW j \in Jobs, RunEnds(j) PROVE AdmissionInv'
  BY <1>0, <1>a, <1>10, MoveKeeps DEF RunEnds
<1>11. ASSUME NEW j \in Jobs, CancelJob(j) PROVE AdmissionInv'
  <2>0. pc[j] \in InRun /\ UNCHANGED claiming
    BY <1>11 DEF CancelJob
  <2>1. CASE pc[j] = "launching"
    <3>1. GiveBack(j, "finalize")
      BY <1>11, <2>1 DEF CancelJob
    <3> QED
      BY <1>0, <1>a, <2>0, <2>1, <3>1, GiveBackKeeps
  <2>2. CASE pc[j] \in {"asleep", "woken"}
    <3>1. CancelWaiter(j)
      BY <1>11, <2>2 DEF CancelJob
    <3> QED
      BY <1>0, <1>a, <2>0, <2>2, <3>1, CancelWaiterKeeps
  <2>3. CASE pc[j] \notin {"launching", "asleep", "woken"}
    <3>1. pc' = Goto(j, "finalize") /\ UNCHANGED <<starting, waiters>>
      BY <1>11, <2>3 DEF CancelJob
    <3> QED
      BY <1>0, <1>a, <2>0, <2>3, <3>1, MoveKeeps
  <2> QED
    BY <2>1, <2>2, <2>3
<1>12. CASE UNCHANGED vars
  BY <1>b, <1>12 DEF vars
<1> QED
  BY <1>1, <1>2, <1>3, <1>4, <1>5, <1>6, <1>7, <1>8, <1>9, <1>10, <1>11, <1>12 DEF Next

(* However many jobs wait to be claimed, those that run or load exceed      *)
(* max_jobs by the slots less one at most.                                  *)
THEOREM RunningBoundHolds == Spec => []RunningBound
<1>1. AdmissionInv => RunningBound
  <2>1. Running \cup Loading = Busy
    BY DEF Running, Loading, Busy
  <2> QED
    BY <2>1 DEF AdmissionInv, CountInv, RunningBound
<1> QED
  BY <1>1, AdmissionInvInit, AdmissionInvNext, PTL DEF Spec

(* No wakeup is lost, for any number of slots and jobs, where a cancelled   *)
(* waiter passes its wakeup on.                                             *)
THEOREM NoWakeupIsLost ==
    ASSUME Renotify PROVE Spec => []FreeSlotWakesSomeone
<1>1. AdmissionInv => FreeSlotWakesSomeone
  <2> SUFFICES ASSUME AdmissionInv, \E j \in Jobs : pc[j] = "asleep",
                      Cardinality(starting) < LaunchesPerWorker
               PROVE  \E j \in Jobs : pc[j] = "woken"
    BY DEF FreeSlotWakesSomeone
  <2>1. Cardinality(starting) \in Nat /\ Cardinality(Woken) \in Nat /\ LaunchesPerWorker \in Nat
    BY CountedSets DEF AdmissionInv
  <2>2. Cardinality(starting) + Cardinality(Woken) >= LaunchesPerWorker
    BY DEF AdmissionInv, WakeInv
  <2>3. Cardinality(Woken) # 0
    BY <2>1, <2>2
  <2>4. Woken # {}
    BY <2>3, FS_EmptySet
  <2> QED
    BY <2>4 DEF Woken
<1> QED
  BY <1>1, AdmissionInvInit, AdmissionInvNext, PTL DEF Spec
=============================================================================
