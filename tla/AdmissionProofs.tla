--------------------------- MODULE AdmissionProofs ---------------------------
(***************************************************************************)
(* What the two places that admit work keep.  The scheduler never runs two *)
(* engines on one repository, keeps live jobs within its two limits and    *)
(* never loses the status of one, for any number of submissions,           *)
(* repositories, slots and retained statuses.  The lanes of blocking loads *)
(* never lose or make a permit, and let nobody wait for one that is there, *)
(* for any number of requests, sizes of loads and limits.                  *)
(***************************************************************************)
EXTENDS IndexScheduler, LoadLanes, FiniteSetTheorems, TLAPS

USE IdAssumption, LimitAssumption

\* A job between its admission and the release of its repository is the one
\* its repository is claimed by; a job that ended has an outcome to settle.
ClaimsHeld ==
  /\ \A j \in Jobs : pc[j] \in Claiming =>
       repo[j] \in Repos /\ active[repo[j]] = j
  /\ \A j \in Jobs : pc[j] = "ended" => outcome[j] \in Terminal

Live == {"queued", "running"}

\* The status of a job follows its task; a live one, also that of a submission
\* dropped after its registration, stands for a claimed repository.
StatusFollows ==
  /\ \A j \in Jobs : jobs[j] \in Live =>
       repo[j] \in Repos /\ active[repo[j]] = j
  /\ \A j \in Jobs : pc[j] \in {"registered", "queued", "permitted", "running", "ended"} =>
       jobs[j] \in Live
  /\ \A j \in Jobs : pc[j] \in {"settled", "released", "finished"} => jobs[j] \notin Live

\* Admission and the semaphore keep their limits, an engine runs with a permit.
LimitsKept ==
  /\ IsFiniteSet(Claimed) /\ Cardinality(Claimed) <= MaxConcurrent + QueueCapacity
  /\ IsFiniteSet(slots) /\ Cardinality(slots) <= MaxConcurrent
  /\ \A j \in Jobs : pc[j] \in {"permitted", "running"} => j \in slots

Claims == TypeOK /\ ClaimsHeld
Ind    == Claims /\ StatusFollows /\ LimitsKept

LEMMA InitClaims == Init => Claims
  BY DEF Init, Claims, TypeOK, ClaimsHeld, Status, Phases, Claiming

\* Evicting statuses keeps the status map a status map.
LEMMA EvictionType ==
  ASSUME NEW js \in [Jobs -> Status], NEW gone
  PROVE  [i \in Jobs |-> IF i \in gone THEN "absent" ELSE js[i]]
           \in [Jobs -> Status]
  BY DEF Status

LEMMA NextClaims == Claims /\ [Next]_vars => Claims'
<1> SUFFICES ASSUME Claims, [Next]_vars PROVE Claims'
  OBVIOUS
<1> USE DEF Claims, TypeOK, ClaimsHeld, Phases, Move
<1>1. ASSUME NEW j \in Jobs, NEW r \in Repos, NEW c \in Commands,
             Coalesce(j, r, c)
      PROVE  Claims'
  BY <1>1 DEF Coalesce, Claiming
<1>2. ASSUME NEW j \in Jobs, NEW r \in Repos, NEW c \in Commands,
             Refuse(j, r, c)
      PROVE  Claims'
  BY <1>2 DEF Refuse, Claiming
<1>3. ASSUME NEW j \in Jobs, NEW r \in Repos, NEW c \in Commands,
             Claim(j, r, c)
      PROVE  Claims'
  <2>1. TypeOK'
    BY <1>3 DEF Claim
  <2>2. \A i \in Jobs : pc[i] \in Claiming => repo[i] # r
    BY <1>3 DEF Claim
  <2>3. ClaimsHeld'
    BY <1>3, <2>2 DEF Claim
  <2> QED BY <2>1, <2>3
<1>4. ASSUME NEW j \in Jobs, RegisterJob(j) PROVE Claims'
  <2> DEFINE inserted == [jobs EXCEPT ![j] = "queued"]
  <2>1. inserted \in [Jobs -> Status]
    BY DEF Status
  <2>2. PICK gone \in Evictions(inserted) :
          jobs' = [i \in Jobs |-> IF i \in gone THEN "absent" ELSE inserted[i]]
    BY <1>4 DEF RegisterJob
  <2> HIDE DEF inserted
  <2>3. jobs' \in [Jobs -> Status]
    BY <2>1, <2>2, EvictionType
  <2> QED BY <1>4, <2>3 DEF RegisterJob, Claiming
<1>5. ASSUME NEW j \in Jobs, Spawn(j) PROVE Claims'
  BY <1>5 DEF Spawn, Claiming
<1>6. ASSUME NEW j \in Jobs, DropSubmission(j) PROVE Claims'
  BY <1>6 DEF DropSubmission, Claiming
<1>7. ASSUME NEW j \in Jobs, AcquireSlot(j) PROVE Claims'
  BY <1>7 DEF AcquireSlot, Claiming
<1>8. ASSUME NEW j \in Jobs, CancelQueued(j) PROVE Claims'
  BY <1>8 DEF CancelQueued, Claiming, Terminal
<1>9. ASSUME NEW j \in Jobs, MarkRunning(j) PROVE Claims'
  BY <1>9 DEF MarkRunning, Claiming, Status
<1>10. ASSUME NEW j \in Jobs, EngineEnds(j) PROVE Claims'
  BY <1>10 DEF EngineEnds, Claiming
<1>11. ASSUME NEW j \in Jobs, SettleStatus(j) PROVE Claims'
  BY <1>11 DEF SettleStatus, Claiming, Status
<1>12. ASSUME NEW j \in Jobs, Release(j) PROVE Claims'
  <2>1. repo[j] \in Repos /\ active[repo[j]] = j
    BY <1>12 DEF Release, Claiming
  <2>2. active' = [active EXCEPT ![repo[j]] = None]
    BY <1>12, <2>1 DEF Release
  <2>3. TypeOK'
    BY <1>12, <2>1, <2>2 DEF Release
  <2>4. ASSUME NEW i \in Jobs, pc'[i] \in Claiming
        PROVE  repo'[i] \in Repos /\ active'[repo'[i]] = i
    <3>1. i # j /\ pc[i] \in Claiming
      BY <1>12, <2>4 DEF Release, Claiming
    <3> QED BY <1>12, <2>1, <2>2, <3>1 DEF Release
  <2>5. \A i \in Jobs : pc'[i] = "ended" => outcome'[i] \in Terminal
    BY <1>12 DEF Release
  <2> QED BY <2>3, <2>4, <2>5
<1>13. ASSUME NEW j \in Jobs, DropSlot(j) PROVE Claims'
  BY <1>13 DEF DropSlot, Claiming
<1>14. ASSUME NEW j \in Jobs, SignalCancel(j) PROVE Claims'
  BY <1>14 DEF SignalCancel
<1>15. CASE UNCHANGED vars
  BY <1>15 DEF vars
<1> QED
  BY <1>1, <1>2, <1>3, <1>4, <1>5, <1>6, <1>7, <1>8, <1>9, <1>10, <1>11,
     <1>12, <1>13, <1>14, <1>15 DEF Next, Task

-----------------------------------------------------------------------------
(* The statuses.                                                           *)

\* An eviction drops terminal statuses only.
LEMMA EvictionSpares ==
  ASSUME NEW js \in [Jobs -> Status], NEW gone \in Evictions(js)
  PROVE  \A i \in gone : js[i] \in Terminal
  BY DEF Evictions

LEMMA NextStatus == Claims /\ StatusFollows /\ [Next]_vars => StatusFollows'
<1> SUFFICES ASSUME Claims, StatusFollows, [Next]_vars PROVE StatusFollows'
  OBVIOUS
<1> USE DEF Claims, TypeOK, StatusFollows, Live, Move
<1>1. ASSUME NEW j \in Jobs, NEW r \in Repos, NEW c \in Commands,
             Coalesce(j, r, c) \/ Refuse(j, r, c)
      PROVE  StatusFollows'
  BY <1>1 DEF Coalesce, Refuse
<1>2. ASSUME NEW j \in Jobs, NEW r \in Repos, NEW c \in Commands, Claim(j, r, c)
      PROVE  StatusFollows'
  BY <1>2 DEF Claim
<1>3. ASSUME NEW j \in Jobs, RegisterJob(j) PROVE StatusFollows'
  <2> DEFINE inserted == [jobs EXCEPT ![j] = "queued"]
  <2>1. inserted \in [Jobs -> Status]
    BY DEF Status
  <2>2. PICK gone \in Evictions(inserted) :
          jobs' = [i \in Jobs |-> IF i \in gone THEN "absent" ELSE inserted[i]]
    BY <1>3 DEF RegisterJob
  <2>3. \A i \in gone : inserted[i] \in Terminal
    BY <2>1, <2>2, EvictionSpares
  <2>4. \A i \in Jobs : /\ inserted[i] = IF i = j THEN "queued" ELSE jobs[i]
                        /\ inserted[i] \in {"queued", "running"} => i \notin gone
    BY <2>3 DEF Terminal
  <2> HIDE DEF inserted
  <2>5. \A i \in Jobs :
          /\ jobs'[i] = "absent" \/ jobs'[i] = IF i = j THEN "queued" ELSE jobs[i]
          /\ i = j \/ jobs[i] \in {"queued", "running"} => jobs'[i] # "absent"
    BY <2>2, <2>4
  <2>6. /\ pc[j] = "admitted" /\ pc' = [pc EXCEPT ![j] = "registered"]
        /\ UNCHANGED <<active, repo>>
    BY <1>3 DEF RegisterJob
  <2>7. repo[j] \in Repos /\ active[repo[j]] = j
    BY <2>6 DEF ClaimsHeld, Claiming
  <2>8. /\ jobs'[j] = "queued"
        /\ \A i \in Jobs \ {j} :
             /\ jobs[i] \in {"queued", "running"} => jobs'[i] = jobs[i]
             /\ jobs'[i] \in {"queued", "running"} => jobs[i] \in {"queued", "running"}
    BY <2>5
  <2>9. pc'[j] = "registered" /\ \A i \in Jobs \ {j} : pc'[i] = pc[i]
    BY <2>6
  <2> QED BY <2>6, <2>7, <2>8, <2>9
<1>4. ASSUME NEW j \in Jobs,
             Spawn(j) \/ DropSubmission(j) \/ AcquireSlot(j) \/ CancelQueued(j)
             \/ EngineEnds(j) \/ DropSlot(j)
      PROVE  StatusFollows'
  BY <1>4 DEF Spawn, DropSubmission, AcquireSlot, CancelQueued, EngineEnds, DropSlot
<1>5. ASSUME NEW j \in Jobs, MarkRunning(j) PROVE StatusFollows'
  BY <1>5 DEF MarkRunning, ClaimsHeld, Claiming
<1>6. ASSUME NEW j \in Jobs, SettleStatus(j) PROVE StatusFollows'
  BY <1>6 DEF SettleStatus, ClaimsHeld, Terminal
<1>7. ASSUME NEW j \in Jobs, Release(j) PROVE StatusFollows'
  <2>1. /\ active' = [active EXCEPT ![repo[j]] = IF @ = j THEN None ELSE @]
        /\ repo' = [repo EXCEPT ![j] = None] /\ jobs' = jobs
        /\ pc' = [pc EXCEPT ![j] = "released"] /\ pc[j] = "settled"
    BY <1>7 DEF Release
  <2>2. repo[j] \in Repos /\ active[repo[j]] = j /\ jobs[j] \notin {"queued", "running"}
    BY <2>1 DEF ClaimsHeld, Claiming
  <2> QED BY <2>1, <2>2
<1>8. ASSUME NEW j \in Jobs, SignalCancel(j) PROVE StatusFollows'
  BY <1>8 DEF SignalCancel
<1>9. CASE UNCHANGED vars
  BY <1>9 DEF vars
<1> QED
  BY <1>1, <1>2, <1>3, <1>4, <1>5, <1>6, <1>7, <1>8, <1>9 DEF Next, Task

-----------------------------------------------------------------------------
(* The limits.                                                             *)

LEMMA NextLimits == Claims /\ LimitsKept /\ [Next]_vars => LimitsKept'
<1> SUFFICES ASSUME Claims, LimitsKept, [Next]_vars PROVE LimitsKept'
  OBVIOUS
<1> USE DEF Claims, TypeOK, LimitsKept, Move
<1>1. CASE UNCHANGED <<active, slots>>
           /\ \A j \in Jobs : pc'[j] \in {"permitted", "running"} =>
                pc[j] \in {"permitted", "running"}
  BY <1>1 DEF Claimed
<1>2. ASSUME NEW j \in Jobs, NEW r \in Repos, NEW c \in Commands, Claim(j, r, c)
      PROVE  LimitsKept'
  <2>1. Claimed' = Claimed \union {r} /\ r \notin Claimed
    BY <1>2 DEF Claim, Claimed
  <2>2. Cardinality(Claimed) < MaxConcurrent + QueueCapacity
    <3>1. Cardinality(Claimed) \in Nat
      BY FS_CardinalityType
    <3> QED BY <1>2, <3>1 DEF Claim, QueueFull
  <2>3. IsFiniteSet(Claimed') /\ Cardinality(Claimed') = Cardinality(Claimed) + 1
    BY <2>1, FS_AddElement
  <2>4. Cardinality(Claimed) \in Nat
    BY FS_CardinalityType
  <2>5. Cardinality(Claimed') <= MaxConcurrent + QueueCapacity
    BY <2>2, <2>3, <2>4
  <2> QED BY <1>2, <2>3, <2>5 DEF Claim
<1>3. ASSUME NEW j \in Jobs, AcquireSlot(j) PROVE LimitsKept'
  <2>1. slots' = slots \union {j} /\ Cardinality(slots) < MaxConcurrent
    BY <1>3 DEF AcquireSlot
  <2>2. IsFiniteSet(slots') /\ Cardinality(slots') <= MaxConcurrent
    <3>1. /\ IsFiniteSet(slots \union {j})
          /\ \/ Cardinality(slots \union {j}) = Cardinality(slots)
             \/ Cardinality(slots \union {j}) = Cardinality(slots) + 1
      BY FS_AddElement
    <3>2. Cardinality(slots) \in Nat
      BY FS_CardinalityType
    <3> QED BY <2>1, <3>1, <3>2
  <2> QED BY <1>3, <2>1, <2>2 DEF AcquireSlot, Claimed
<1>4. ASSUME NEW j \in Jobs, DropSlot(j) PROVE LimitsKept'
  <2>1. slots' = slots \ {j}
    BY <1>4 DEF DropSlot
  <2>2. IsFiniteSet(slots') /\ Cardinality(slots') <= MaxConcurrent
    <3>1. slots \ {j} \in SUBSET slots
      OBVIOUS
    <3>2. IsFiniteSet(slots \ {j}) /\ Cardinality(slots \ {j}) <= Cardinality(slots)
      BY <3>1, FS_Subset
    <3>3. Cardinality(slots) \in Nat /\ Cardinality(slots \ {j}) \in Nat
      BY <3>2, FS_CardinalityType
    <3> QED BY <2>1, <3>2, <3>3
  <2> QED BY <1>4, <2>1, <2>2 DEF DropSlot, Claimed
<1>5. ASSUME NEW j \in Jobs, Release(j) PROVE LimitsKept'
  <2>1. Claimed' \in SUBSET Claimed
    BY <1>5 DEF Release, Claimed
  <2>2. IsFiniteSet(Claimed') /\ Cardinality(Claimed') <= Cardinality(Claimed)
    BY <2>1, FS_Subset
  <2>3. Cardinality(Claimed) \in Nat /\ Cardinality(Claimed') \in Nat
    BY <2>2, FS_CardinalityType
  <2>4. Cardinality(Claimed') <= MaxConcurrent + QueueCapacity
    BY <2>2, <2>3
  <2> QED BY <1>5, <2>2, <2>4 DEF Release
<1>6. ASSUME NEW j \in Jobs, NEW r \in Repos, NEW c \in Commands,
             Coalesce(j, r, c) \/ Refuse(j, r, c)
      PROVE  LimitsKept'
  BY <1>1, <1>6 DEF Coalesce, Refuse
<1>7. ASSUME NEW j \in Jobs,
             \/ RegisterJob(j) \/ Spawn(j) \/ DropSubmission(j) \/ CancelQueued(j)
             \/ MarkRunning(j) \/ EngineEnds(j) \/ SettleStatus(j) \/ SignalCancel(j)
      PROVE  LimitsKept'
  BY <1>1, <1>7 DEF RegisterJob, Spawn, DropSubmission, CancelQueued, MarkRunning,
                    EngineEnds, SettleStatus, SignalCancel
<1>8. CASE UNCHANGED vars
  BY <1>1, <1>8 DEF vars
<1> QED BY <1>2, <1>3, <1>4, <1>5, <1>6, <1>7, <1>8 DEF Next, Task

LEMMA InitInd == Init => Ind
<1> SUFFICES ASSUME Init PROVE Ind
  OBVIOUS
<1>1. StatusFollows
  BY DEF Init, StatusFollows, Live
<1>2. Claimed = {} /\ slots = {}
  BY DEF Init, Claimed
<1>3. LimitsKept
  BY <1>2, FS_EmptySet DEF Init, LimitsKept
<1> QED BY <1>1, <1>3, InitClaims DEF Ind

LEMMA NextInd == Ind /\ [Next]_vars => Ind'
  BY NextClaims, NextStatus, NextLimits DEF Ind

LEMMA IndInvariant == Spec => []Ind
  BY InitInd, NextInd, PTL DEF Spec

\* Live jobs inject into the claimed repositories, running ones into the slots.
LEMMA LimitsBoundJobs == Ind => LiveJobsBounded
<1> SUFFICES ASSUME Ind PROVE LiveJobsBounded
  OBVIOUS
<1> DEFINE L == {j \in Jobs : jobs[j] \in {"queued", "running"}}
           E == {j \in Jobs : pc[j] = "running"}
           f == [j \in L |-> repo[j]]
<1>1. IsFiniteSet(Claimed) /\ IsFiniteSet(slots)
  BY DEF Ind, LimitsKept
<1>2. Cardinality(L) <= MaxConcurrent + QueueCapacity
  <2>1. \A j \in L : repo[j] \in Repos /\ active[repo[j]] = j /\ j \in Jobs
    BY DEF Ind, StatusFollows, Live
  <2>2. \A j \in L : repo[j] \in Claimed
    BY <2>1 DEF Claimed
  <2>3. f \in Injection(L, Claimed)
    BY <2>1, <2>2 DEF Injection, IsInjective
  <2>4. IsFiniteSet(L) /\ Cardinality(L) <= Cardinality(Claimed)
    BY <1>1, <2>3, FS_Injection
  <2>5. Cardinality(L) \in Nat /\ Cardinality(Claimed) \in Nat
    BY <1>1, <2>4, FS_CardinalityType
  <2> QED BY <2>4, <2>5 DEF Ind, LimitsKept
<1>3. Cardinality(E) <= MaxConcurrent
  <2>1. E \in SUBSET slots
    BY DEF Ind, LimitsKept
  <2>2. IsFiniteSet(E) /\ Cardinality(E) <= Cardinality(slots)
    BY <1>1, <2>1, FS_Subset
  <2>3. Cardinality(E) \in Nat /\ Cardinality(slots) \in Nat
    BY <1>1, <2>2, FS_CardinalityType
  <2> QED BY <2>2, <2>3 DEF Ind, LimitsKept
<1> QED BY <1>2, <1>3 DEF LiveJobsBounded

\* Two jobs never stand for one repository between admission and release; no more
\* jobs are live than the two limits allow, no more engines run than the first;
\* and a job under way can be polled, whatever was evicted.
THEOREM SchedulerCorrect == Spec => []SchedulerInv
<1>1. Ind => TypeOK
  BY DEF Ind, Claims
<1>2. Ind => OneJobPerRepo
  BY DEF Ind, Claims, ClaimsHeld, OneJobPerRepo
<1>3. Ind => LiveJobsPollable
  BY DEF Ind, StatusFollows, LiveJobsPollable, Live
<1>4. Ind => SchedulerInv
  BY <1>1, <1>2, <1>3, LimitsBoundJobs DEF SchedulerInv
<1> QED BY <1>4, IndInvariant, PTL

-----------------------------------------------------------------------------
(* What a submission is answered with.                                     *)

\* A repository is claimed by a job that was admitted for it and has not let it
\* go, or whose submission was dropped.
ClaimsLive ==
  \A r \in Repos : active[r] # None =>
    repo[active[r]] = r /\ pc[active[r]] \in Claiming \union {"dropped"}

LEMMA NextClaimsLive == Claims /\ ClaimsLive /\ [Next]_vars => ClaimsLive'
<1> SUFFICES ASSUME Claims, ClaimsLive, [Next]_vars PROVE ClaimsLive'
  OBVIOUS
<1> USE DEF Claims, TypeOK, ClaimsLive, Claiming, Move
<1>1. ASSUME NEW j \in Jobs, NEW r \in Repos, NEW c \in Commands,
             Coalesce(j, r, c) \/ Refuse(j, r, c)
      PROVE  ClaimsLive'
  BY <1>1 DEF Coalesce, Refuse
<1>2. ASSUME NEW j \in Jobs, NEW r \in Repos, NEW c \in Commands, Claim(j, r, c)
      PROVE  ClaimsLive'
  BY <1>2 DEF Claim
<1>3. ASSUME NEW j \in Jobs,
             \/ RegisterJob(j) \/ Spawn(j) \/ DropSubmission(j)
             \/ AcquireSlot(j) \/ CancelQueued(j) \/ MarkRunning(j)
             \/ EngineEnds(j) \/ SettleStatus(j) \/ DropSlot(j) \/ SignalCancel(j)
      PROVE  ClaimsLive'
  <2>1. UNCHANGED <<active, repo>>
    BY <1>3 DEF RegisterJob, Spawn, DropSubmission, AcquireSlot, CancelQueued, MarkRunning,
       EngineEnds, SettleStatus, DropSlot, SignalCancel
  <2>2. \A i \in Jobs : pc[i] \in Claiming \union {"dropped"} =>
                          pc'[i] \in Claiming \union {"dropped"}
    BY <1>3 DEF RegisterJob, Spawn, DropSubmission, AcquireSlot, CancelQueued, MarkRunning,
       EngineEnds, SettleStatus, DropSlot, SignalCancel
  <2> QED BY <2>1, <2>2, IdAssumption
<1>4. ASSUME NEW j \in Jobs, Release(j) PROVE ClaimsLive'
  <2>1. pc[j] = "settled" /\ repo[j] \in Repos /\ active[repo[j]] = j
    BY <1>4 DEF Release, ClaimsHeld
  <2>2. /\ active' = [active EXCEPT ![repo[j]] = None]
        /\ repo' = [repo EXCEPT ![j] = None]
        /\ pc' = [pc EXCEPT ![j] = "released"]
    BY <1>4, <2>1 DEF Release
  <2>3. ASSUME NEW r \in Repos, active'[r] # None PROVE active'[r] = active[r] /\ active[r] # j
    BY <2>1, <2>2, <2>3
  <2> QED BY <2>2, <2>3
<1>5. CASE UNCHANGED vars
  BY <1>5 DEF vars
<1> QED BY <1>1, <1>2, <1>3, <1>4, <1>5 DEF Next, Task

\* A submission is answered with its own job, or with a job that is live
\* or that meets one of the three windows of the code.
THEOREM CoalescedRight == Spec => CoalescedOntoLiveJob
<1> DEFINE Answers ==
      \A j \in Jobs :
        reply[j] = None /\ reply'[j] \notin {None, j} =>
          \/ jobs[reply'[j]] \in {"queued", "running"}
          \/ pc[reply'[j]] \in {"admitted", "dropped", "settled"}
<1>1. Init => ClaimsLive
  BY DEF Init, ClaimsLive
<1>2. Ind /\ ClaimsLive /\ [Next]_vars => ClaimsLive'
  BY NextClaimsLive DEF Ind
<1>3. Ind /\ ClaimsLive /\ [Next]_vars => [Answers]_vars
  <2> SUFFICES ASSUME Ind, ClaimsLive, Next, NEW j \in Jobs,
                      reply[j] = None, reply'[j] \notin {None, j}
               PROVE  \/ jobs[reply'[j]] \in {"queued", "running"}
                      \/ pc[reply'[j]] \in {"admitted", "dropped", "settled"}
    OBVIOUS
  <2>1. TypeOK /\ StatusFollows
    BY DEF Ind, Claims
  <2>2. PICK r \in Repos : active[r] # None /\ reply'[j] = active[r]
    BY <2>1 DEF TypeOK, Next, Task, Coalesce, Refuse, Claim, RegisterJob, Spawn, DropSubmission,
       AcquireSlot, CancelQueued, MarkRunning, EngineEnds, SettleStatus, Release, DropSlot,
       SignalCancel
  <2>3. active[r] \in Jobs /\ pc[active[r]] \in Claiming \union {"dropped"}
    BY <2>1, <2>2 DEF TypeOK, ClaimsLive
  <2> QED BY <2>1, <2>2, <2>3 DEF StatusFollows, Live, Claiming
<1> QED BY <1>1, <1>2, <1>3, InitInd, NextInd, PTL DEF Spec, CoalescedOntoLiveJob

-----------------------------------------------------------------------------
(* The lanes of blocking loads. *)

USE LaneAssumption

\* The units a sum counts.
Counted(f, S) == {unit \in S \X (1..UnitLimit) : unit[2] <= f[unit[1]]}

\* A sum over a finite set is a number.
LEMMA TotalNat ==
  ASSUME NEW S, IsFiniteSet(S), NEW f \in [S -> 0..UnitLimit]
  PROVE  /\ Total(f) = Cardinality(Counted(f, S))
         /\ IsFiniteSet(Counted(f, S)) /\ Total(f) \in Nat
<1>1. IsFiniteSet(1..UnitLimit)
  BY FS_Interval
<1>2. IsFiniteSet(S \X (1..UnitLimit))
  BY <1>1, FS_Product
<1>3. Counted(f, S) \subseteq S \X (1..UnitLimit)
  BY DEF Counted
<1>4. IsFiniteSet(Counted(f, S))
  BY <1>2, <1>3, FS_Subset
<1>5. Total(f) = Cardinality(Counted(f, S))
  BY DEF Total, Counted
<1> QED BY <1>4, <1>5, FS_CardinalityType

\* What some members add to a sum is the sum over them.
LEMMA TotalAdds ==
  ASSUME NEW S, IsFiniteSet(S), NEW A \in SUBSET S,
         NEW f \in [S -> 0..UnitLimit], NEW g \in [S -> 0..UnitLimit],
         \A x \in S \ A : g[x] = f[x],
         \A x \in A : f[x] = 0
  PROVE  Total(g) = Total(f) + Total([x \in A |-> g[x]])
<1> DEFINE h == [x \in A |-> g[x]]
<1>1. IsFiniteSet(A) /\ h \in [A -> 0..UnitLimit]
  <2>1. IsFiniteSet(A)
    BY FS_Subset
  <2>2. h \in [A -> 0..UnitLimit]
    OBVIOUS
  <2> QED BY <2>1, <2>2
<1>2. /\ Total(f) = Cardinality(Counted(f, S)) /\ IsFiniteSet(Counted(f, S))
      /\ Total(g) = Cardinality(Counted(g, S))
      /\ Total(h) = Cardinality(Counted(h, A)) /\ IsFiniteSet(Counted(h, A))
  <2>1. /\ Total(f) = Cardinality(Counted(f, S)) /\ IsFiniteSet(Counted(f, S))
        /\ Total(g) = Cardinality(Counted(g, S))
    BY TotalNat
  <2> HIDE DEF h
  <2>2. Total(h) = Cardinality(Counted(h, A)) /\ IsFiniteSet(Counted(h, A))
    BY <1>1, TotalNat
  <2> QED BY <2>1, <2>2
<1>3. \A p \in Counted(f, S) : p[1] \notin A
  BY DEF Counted
<1>4. \A p \in Counted(h, A) : p[1] \in A
  BY DEF Counted
<1>5. Counted(g, S) \subseteq Counted(f, S) \cup Counted(h, A)
  <2> SUFFICES ASSUME NEW p \in Counted(g, S)
               PROVE  p \in Counted(f, S) \cup Counted(h, A)
    OBVIOUS
  <2>1. p \in S \X (1..UnitLimit) /\ p[2] <= g[p[1]] /\ p[1] \in S
    BY DEF Counted
  <2>2. CASE p[1] \in A
    <3>1. p \in A \X (1..UnitLimit) /\ h[p[1]] = g[p[1]]
      BY <2>1, <2>2
    <3> QED BY <2>1, <3>1 DEF Counted
  <2>3. CASE p[1] \notin A
    <3>1. f[p[1]] = g[p[1]]
      BY <2>1, <2>3
    <3> QED BY <2>1, <3>1 DEF Counted
  <2> QED BY <2>2, <2>3
<1>6. Counted(f, S) \cup Counted(h, A) \subseteq Counted(g, S)
  <2>1. ASSUME NEW p \in Counted(f, S) PROVE p \in Counted(g, S)
    <3>1. p \in S \X (1..UnitLimit) /\ p[2] <= f[p[1]] /\ p[1] \in S \ A
      BY <1>3 DEF Counted
    <3>2. g[p[1]] = f[p[1]]
      BY <3>1
    <3> QED BY <3>1, <3>2 DEF Counted
  <2>2. ASSUME NEW p \in Counted(h, A) PROVE p \in Counted(g, S)
    <3>1. p \in A \X (1..UnitLimit) /\ p[2] <= h[p[1]] /\ p[1] \in A
      BY DEF Counted
    <3>2. h[p[1]] = g[p[1]] /\ p \in S \X (1..UnitLimit)
      BY <3>1
    <3> QED BY <3>1, <3>2 DEF Counted
  <2> QED BY <2>1, <2>2
<1>7. Counted(g, S) = Counted(f, S) \cup Counted(h, A)
  BY <1>5, <1>6
<1>8. Counted(f, S) \cap Counted(h, A) = {}
  BY <1>3, <1>4
<1> HIDE DEF h
<1>9. Cardinality(Counted(f, S) \cup Counted(h, A))
        = Cardinality(Counted(f, S)) + Cardinality(Counted(h, A))
  <2>1. Cardinality(Counted(f, S) \cup Counted(h, A))
          = Cardinality(Counted(f, S)) + Cardinality(Counted(h, A))
            - Cardinality(Counted(f, S) \cap Counted(h, A))
    BY <1>2, FS_Union
  <2>2. Cardinality(Counted(f, S) \cap Counted(h, A)) = 0
    BY <1>8, FS_EmptySet
  <2>3. /\ Cardinality(Counted(f, S)) \in Nat
        /\ Cardinality(Counted(h, A)) \in Nat
    BY <1>2, FS_CardinalityType
  <2> QED BY <2>1, <2>2, <2>3
<1>10. Total(g) = Total(f) + Total(h)
  BY <1>2, <1>7, <1>9
<1> QED BY <1>10 DEF h

\* The sum of one amount is that amount.
LEMMA TotalOne ==
  ASSUME NEW a, NEW n \in 0..UnitLimit
  PROVE  Total([x \in {a} |-> n]) = n
<1> DEFINE f == [x \in {a} |-> n]
<1>1. IsFiniteSet({a}) /\ Cardinality({a}) = 1
  BY FS_Singleton
<1>2. IsFiniteSet(1..n) /\ Cardinality(1..n) = n
  <2>1. 1 \in Int /\ n \in Int /\ n >= 0
    OBVIOUS
  <2> QED BY <2>1, FS_Interval
<1>3. Cardinality({a} \X (1..n)) = 1 * n
  BY <1>1, <1>2, FS_Product
<1>4. Counted(f, {a}) = {a} \X (1..n)
  <2>1. \A p \in {a} \X (1..UnitLimit) : f[p[1]] = n
    OBVIOUS
  <2>2. Counted(f, {a}) = {p \in {a} \X (1..UnitLimit) : p[2] <= n}
    BY <2>1 DEF Counted
  <2>3. \A p : p \in {a} \X (1..UnitLimit) /\ p[2] <= n <=> p \in {a} \X (1..n)
    OBVIOUS
  <2> QED BY <2>2, <2>3
<1>5. Total(f) = Cardinality(Counted(f, {a}))
  BY <1>1, TotalNat
<1>6. 1 * n = n
  OBVIOUS
<1> QED BY <1>3, <1>4, <1>5, <1>6

\* An amount of one member that goes up from nothing goes onto the sum.
LEMMA TotalRises ==
  ASSUME NEW S, IsFiniteSet(S), NEW a \in S,
         NEW f \in [S -> 0..UnitLimit], NEW g \in [S -> 0..UnitLimit],
         \A x \in S \ {a} : g[x] = f[x], f[a] = 0
  PROVE  Total(g) = Total(f) + g[a]
<1>1. Total(g) = Total(f) + Total([x \in {a} |-> g[x]])
  <2>1. {a} \in SUBSET S /\ \A x \in {a} : f[x] = 0
    OBVIOUS
  <2> QED BY <2>1, TotalAdds
<1>2. [x \in {a} |-> g[x]] = [x \in {a} |-> g[a]]
  OBVIOUS
<1>3. g[a] \in 0..UnitLimit
  OBVIOUS
<1> QED BY <1>1, <1>2, <1>3, TotalOne

\* A sum of nothing.
LEMMA TotalNone ==
  ASSUME NEW S
  PROVE  Total([x \in S |-> 0]) = 0
<1>1. {unit \in S \X (1..UnitLimit) : unit[2] <= [x \in S |-> 0][unit[1]]} = {}
  OBVIOUS
<1> QED BY <1>1, FS_EmptySet DEF Total

\* One more member adds its amount.
LEMMA TotalGrows ==
  ASSUME NEW S, IsFiniteSet(S), NEW a, a \notin S,
         NEW g \in [S \cup {a} -> 0..UnitLimit]
  PROVE  Total(g) = Total([x \in S |-> g[x]]) + g[a]
<1> DEFINE T == S \cup {a}
           f == [x \in T |-> IF x = a THEN 0 ELSE g[x]]
           z == [x \in T |-> 0]
<1>1. IsFiniteSet(T)
  BY FS_AddElement
<1>2. f \in [T -> 0..UnitLimit] /\ z \in [T -> 0..UnitLimit] /\ g \in [T -> 0..UnitLimit]
      /\ S \in SUBSET T /\ a \in T
  OBVIOUS
<1>3. /\ \A x \in T \ {a} : g[x] = f[x]
      /\ f[a] = 0
      /\ \A x \in T \ S : f[x] = z[x]
      /\ \A x \in S : z[x] = 0
  OBVIOUS
<1>4. [x \in S |-> f[x]] = [x \in S |-> g[x]]
  OBVIOUS
<1>5. Total(z) = 0
  BY TotalNone
<1> HIDE DEF T, f, z
<1>6. Total(g) = Total(f) + g[a]
  BY <1>1, <1>2, <1>3, TotalRises
<1>7. Total(f) = Total(z) + Total([x \in S |-> f[x]])
  BY <1>1, <1>2, <1>3, TotalAdds
<1>8. IsFiniteSet(S) /\ [x \in S |-> g[x]] \in [S -> 0..UnitLimit]
  OBVIOUS
<1>9. Total([x \in S |-> g[x]]) \in Nat
  BY <1>8, TotalNat
<1> QED BY <1>4, <1>5, <1>6, <1>7, <1>9

-----------------------------------------------------------------------------
\* What a caller's locals hold of a lane.
Holding(x, l) == l \in x.held \/ (x.pc \in {"taken", "granted"} /\ x.lane = l)
Amounts(x, l) == IF Holding(x, l) THEN Amount(l, x.units) ELSE 0
Queued == {"acquire", "waiting", "granted", "taken"}
InHeavy == {c \in Callers : caller[c].lane = "heavy" /\ caller[c].pc \in Queued}

\* A caller has permits of the lanes before the one it is at, and none when it
\* is idle or its closure has them; only a running closure has permits.
Sound(x) ==
  /\ x.pc \in {"idle", "awaiting"} => x.held = {} /\ x.lane = "heavy"
  /\ x.lane = "count" => x.held = {}
  /\ x.lane = "bytes" => x.held \subseteq {"count"}
  /\ x.job # NoJob => x.pc = "awaiting"
HoldsRight ==
  /\ \A c \in Callers : Sound(caller[c])
  /\ \A j \in JobIds : closures[j].state = "none" => closures[j].held = {}

LaneInd == LanesTypeOK /\ NoIdleQueue /\ PermitsConserved /\ GaugesCount /\ HoldsRight

\* The amounts that are counted.
LEMMA AmountType ==
  ASSUME NEW l \in Lanes, NEW u \in Sizes
  PROVE  Amount(l, u) \in 0..UnitLimit
BY DEF Amount, Sizes

\* What a caller holds of a lane is such an amount.
LEMMA AmountsType ==
  ASSUME NEW l \in Lanes, NEW x \in Locals
  PROVE  Amounts(x, l) \in 0..UnitLimit
<1>1. x.units \in Sizes
  BY DEF Locals
<1> QED BY <1>1, AmountType DEF Amounts

\* What callers and closures hold, as functions into amounts.
LEMMA HoldsType ==
  ASSUME LanesTypeOK, NEW l \in Lanes
  PROVE  /\ CallersHold(l) = [c \in Callers |-> Amounts(caller[c], l)]
         /\ CallersHold(l) \in [Callers -> 0..UnitLimit]
         /\ ClosuresHold(l) \in [JobIds -> 0..UnitLimit]
         /\ IsFiniteSet(JobIds)
         /\ Total(CallersHold(l)) \in Nat /\ Total(ClosuresHold(l)) \in Nat
<1>1. CallersHold(l) = [c \in Callers |-> Amounts(caller[c], l)]
  BY DEF CallersHold, Amounts, HeldBy, Holding, HasPermit
<1>2. \A c \in Callers : Amounts(caller[c], l) \in 0..UnitLimit
  BY AmountsType DEF LanesTypeOK
<1>3. CallersHold(l) \in [Callers -> 0..UnitLimit]
  BY <1>1, <1>2
<1>4. \A j \in JobIds : Amount(l, closures[j].units) \in 0..UnitLimit
  <2> SUFFICES ASSUME NEW j \in JobIds PROVE Amount(l, closures[j].units) \in 0..UnitLimit
    OBVIOUS
  <2>1. closures[j].units \in Sizes
    BY DEF LanesTypeOK, Closures
  <2> QED BY <2>1, AmountType
<1>5. ClosuresHold(l) \in [JobIds -> 0..UnitLimit]
  BY <1>4 DEF ClosuresHold
<1>6. IsFiniteSet(JobIds)
  BY FS_Interval DEF JobIds
<1>7. Total(CallersHold(l)) \in Nat /\ Total(ClosuresHold(l)) \in Nat
  BY <1>3, <1>5, <1>6, TotalNat
<1> QED BY <1>1, <1>3, <1>5, <1>6, <1>7

\* When one caller moves, the other callers' locals stay.
LEMMA CallerMoves ==
  ASSUME LanesTypeOK, NEW c \in Callers, NEW x \in Locals, Becomes(c, x)
  PROVE  /\ caller' \in [Callers -> Locals] /\ caller'[c] = x
         /\ \A d \in Callers : d # c => caller'[d] = caller[d]
BY DEF LanesTypeOK, Becomes

\* A caller that neither waits nor begins to leaves the queues as they are.
LEMMA QueuesStay ==
  ASSUME LanesTypeOK, NoIdleQueue, NEW c \in Callers, NEW x \in Locals, Becomes(c, x),
         ahead' = ahead, ~At(c, "waiting"), x.pc # "waiting"
  PROVE  /\ Waiting' = Waiting /\ QueuesOrdered'
         /\ free' = free => NoIdleQueue'
<1>1. /\ caller' \in [Callers -> Locals] /\ caller'[c] = x
      /\ \A d \in Callers : d # c => caller'[d] = caller[d]
  BY CallerMoves
<1>2. Waiting' = Waiting /\ \A d \in Waiting : d # c /\ d \in Callers /\ caller'[d] = caller[d]
  BY <1>1 DEF Waiting, At
<1>3. QueuesOrdered
  BY DEF LanesTypeOK
<1>4. QueuesOrdered'
  <2>1. \A p \in ahead' : /\ p \in Waiting \X Waiting /\ p[1] # p[2]
                          /\ caller'[p[1]].lane = caller'[p[2]].lane
    BY <1>2, <1>3 DEF QueuesOrdered
  <2>2. \A d, e \in Waiting : caller'[d].lane = caller'[e].lane /\ d # e
                              => (<<d, e>> \in ahead' <=> <<e, d>> \notin ahead')
    BY <1>2, <1>3 DEF QueuesOrdered
  <2>3. \A d, e, f \in Waiting : <<d, e>> \in ahead' /\ <<e, f>> \in ahead' => <<d, f>> \in ahead'
    BY <1>3 DEF QueuesOrdered
  <2> QED BY <1>2, <2>1, <2>2, <2>3 DEF QueuesOrdered
<1>5. free' = free => NoIdleQueue'
  BY <1>2 DEF NoIdleQueue, Needs
<1> QED BY <1>2, <1>4, <1>5

\* A caller that moves with the permits it has keeps them all accounted for.
LEMMA PermitsStay ==
  ASSUME LanesTypeOK, PermitsConserved, NEW c \in Callers, NEW x \in Locals, Becomes(c, x),
         UNCHANGED <<free, closures>>, \A l \in Lanes : Amounts(x, l) = Amounts(caller[c], l)
  PROVE  PermitsConserved'
<1>1. /\ caller' \in [Callers -> Locals] /\ caller'[c] = x
      /\ \A d \in Callers : d # c => caller'[d] = caller[d]
  BY CallerMoves
<1>2. ASSUME NEW l \in Lanes
      PROVE  CallersHold(l)' = CallersHold(l) /\ ClosuresHold(l)' = ClosuresHold(l)
  <2>1. CallersHold(l)' = [d \in Callers |-> Amounts(caller'[d], l)]
    BY DEF CallersHold, Amounts, HeldBy, Holding, HasPermit
  <2>2. \A d \in Callers : Amounts(caller'[d], l) = Amounts(caller[d], l)
    BY <1>1
  <2>3. CallersHold(l) = [d \in Callers |-> Amounts(caller[d], l)]
    BY HoldsType
  <2>4. ClosuresHold(l)' = ClosuresHold(l)
    BY DEF ClosuresHold
  <2> QED BY <2>1, <2>2, <2>3, <2>4
<1>3. \A l \in Lanes : Total(CallersHold(l))' = Total(CallersHold(l)) /\ Total(ClosuresHold(l))' = Total(ClosuresHold(l))
  BY <1>2
<1>4. Running' = Running
  BY DEF Running
<1> QED BY <1>3, <1>4 DEF PermitsConserved

\* The same of a sum over the callers.
LEMMA CallersAdd ==
  \A some \in SUBSET Callers : \A f, g \in [Callers -> 0..UnitLimit] :
    (\A c \in Callers \ some : g[c] = f[c]) /\ (\A c \in some : f[c] = 0)
      => Total(g) = Total(f) + Total([c \in some |-> g[c]])
BY TotalAdds

\* Whoever leaves and whoever is served: the others keep waiting in order, nobody
\* waits for permits that are there, and what was given back is free or granted.
LEMMA ServeKeeps ==
  ASSUME LanesTypeOK, HoldsRight, NEW permits \in [Lanes -> Nat], NEW gone \in SUBSET Callers,
         Serve(permits, gone)
  PROVE  /\ free' \in [Lanes -> Nat] /\ caller' \in [Callers -> Locals]
         /\ QueuesOrdered' /\ NoIdleQueue'
         /\ \A c \in Callers : Sound(caller'[c])
         /\ InHeavy' = InHeavy \ gone /\ InCold' = InCold \ gone
         /\ \A l \in Lanes :
              free'[l] + Total(CallersHold(l)')
                = permits[l] + Total([c \in Callers |-> IF c \in gone THEN 0
                                                        ELSE Amounts(caller[c], l)])
<1> PICK granted \in SUBSET (Waiting \ gone) :
          /\ \A l \in Lanes : Served(permits[l], InLane(l, Waiting \ gone), InLane(l, granted))
          /\ free' = [l \in Lanes |-> permits[l] - Wanted(InLane(l, granted))]
          /\ ahead' = {p \in ahead : {p[1], p[2]} \cap (gone \cup granted) = {}}
          /\ caller' = [c \in Callers |-> IF c \in gone THEN Idle
                                         ELSE IF c \in granted THEN [caller[c] EXCEPT !.pc = "granted"]
                                         ELSE caller[c]]
  BY DEF Serve
<1> DEFINE left == Waiting \ gone
<1>1. Idle \in Locals /\ Idle.pc = "idle" /\ Idle.lane = "heavy" /\ Idle.held = {} /\ Idle.job = NoJob
  BY DEF Idle, Locals, Sizes, Lanes, NoJob
<1>2. /\ caller \in [Callers -> Locals] /\ Waiting \subseteq Callers
      /\ \A c \in Waiting : caller[c].pc = "waiting"
  BY DEF LanesTypeOK, Waiting, At
<1>3. ASSUME NEW c \in Callers
      PROVE  /\ caller'[c] \in Locals /\ Sound(caller'[c])
             /\ c \in gone => caller'[c] = Idle
             /\ c \in granted => /\ caller'[c].pc = "granted" /\ caller'[c].lane = caller[c].lane
                                 /\ caller'[c].units = caller[c].units
                                 /\ caller'[c].held = caller[c].held
             /\ c \notin gone \cup granted => caller'[c] = caller[c]
  <2> PICK old \in Locals : old = caller[c]
    BY <1>2
  <2>1. Sound(old)
    BY DEF HoldsRight
  <2>2. CASE c \in gone
    BY <2>2, <1>1 DEF Sound
  <2>3. CASE c \in granted
    <3> DEFINE x == [old EXCEPT !.pc = "granted"]
    <3>1. x \in Locals /\ x.pc = "granted" /\ x.lane = old.lane /\ x.units = old.units
          /\ x.held = old.held /\ x.job = old.job
      BY DEF Locals
    <3>2. caller'[c] = x /\ old.pc = "waiting" /\ c \notin gone
      BY <2>3, <1>2
    <3> HIDE DEF x
    <3>3. Sound(x)
      BY <2>1, <3>1, <3>2 DEF Sound
    <3> QED BY <3>1, <3>2, <3>3
  <2>4. CASE c \notin gone \cup granted
    BY <2>1, <2>4
  <2> QED BY <2>2, <2>3, <2>4
<1>4. caller' \in [Callers -> Locals]
  BY <1>3
<1>5. Waiting' = left \ granted /\ \A c \in Waiting' : c \in Callers /\ caller'[c] = caller[c]
  <2>1. ASSUME NEW c \in Callers PROVE c \in Waiting' <=> c \in left \ granted
    BY <1>1, <1>3 DEF Waiting, At
  <2>2. Waiting' \subseteq Callers
    BY DEF Waiting
  <2>3. Waiting' = left \ granted
    BY <2>1, <2>2, <1>2
  <2> QED BY <1>2, <1>3, <2>3
<1>6. QueuesOrdered'
  <2>1. QueuesOrdered
    BY DEF LanesTypeOK
  <2>2. \A c, d \in Waiting' : c \in Waiting /\ d \in Waiting /\ (<<c, d>> \in ahead' <=> <<c, d>> \in ahead)
    BY <1>5
  <2>3. \A p \in ahead' : /\ p \in Waiting' \X Waiting' /\ p[1] # p[2]
                          /\ caller'[p[1]].lane = caller'[p[2]].lane
    <3> SUFFICES ASSUME NEW p \in ahead'
                 PROVE  /\ p \in Waiting' \X Waiting' /\ p[1] # p[2]
                        /\ caller'[p[1]].lane = caller'[p[2]].lane
      OBVIOUS
    <3>1. p \in ahead /\ p[1] \notin gone \cup granted /\ p[2] \notin gone \cup granted
      OBVIOUS
    <3>2. /\ p \in Waiting \X Waiting /\ p[1] # p[2]
          /\ caller[p[1]].lane = caller[p[2]].lane
      BY <2>1, <3>1 DEF QueuesOrdered
    <3>3. p[1] \in Waiting' /\ p[2] \in Waiting'
      BY <3>1, <3>2, <1>5
    <3> QED BY <3>2, <3>3, <1>5
  <2>4. \A c, d \in Waiting' : caller'[c].lane = caller'[d].lane /\ c # d
                                => (<<c, d>> \in ahead' <=> <<d, c>> \notin ahead')
    BY <1>5, <2>1, <2>2 DEF QueuesOrdered
  <2>5. \A c, d, e \in Waiting' : <<c, d>> \in ahead' /\ <<d, e>> \in ahead' => <<c, e>> \in ahead'
    BY <2>1, <2>2 DEF QueuesOrdered
  <2> QED BY <2>3, <2>4, <2>5 DEF QueuesOrdered
<1>7. \A c \in Callers : Needs(c) \in 0..UnitLimit
  <2> SUFFICES ASSUME NEW c \in Callers PROVE Needs(c) \in 0..UnitLimit
    OBVIOUS
  <2>1. caller[c].lane \in Lanes /\ caller[c].units \in Sizes
    BY <1>2 DEF Locals
  <2> QED BY <2>1, AmountType DEF Needs
<1>8. ASSUME NEW some \in SUBSET Callers
      PROVE  IsFiniteSet(some) /\ [c \in some |-> Needs(c)] \in [some -> 0..UnitLimit]
             /\ Wanted(some) \in Nat
  <2>1. IsFiniteSet(some)
    BY FS_Subset
  <2> DEFINE g == [c \in some |-> Needs(c)]
  <2>2. g \in [some -> 0..UnitLimit]
    BY <1>7
  <2> HIDE DEF g
  <2>3. Total(g) \in Nat
    BY <2>1, <2>2, TotalNat
  <2> QED BY <2>1, <2>2, <2>3 DEF g, Wanted
<1>9. ASSUME NEW l \in Lanes
      PROVE  /\ InLane(l, granted) \in SUBSET Callers
             /\ InLane(l, granted) \in SUBSET InLane(l, left)
             /\ Longest(InLane(l, granted), InLane(l, left))
             /\ Wanted(InLane(l, granted)) \in Nat /\ Wanted(InLane(l, granted)) <= permits[l]
             /\ \A some \in Fitting(permits[l], InLane(l, left)) : some \subseteq InLane(l, granted)
  <2>1. Served(permits[l], InLane(l, left), InLane(l, granted))
    OBVIOUS
  <2>2. InLane(l, granted) \in SUBSET Callers
    BY <1>2 DEF InLane
  <2> QED BY <2>1, <2>2, <1>8 DEF Served, Fitting
<1>10. free' \in [Lanes -> Nat] /\ \A l \in Lanes : free'[l] = permits[l] - Wanted(InLane(l, granted))
  BY <1>9
<1>11. NoIdleQueue'
  <2> SUFFICES ASSUME NEW c \in Waiting',
                      \A d \in Waiting' : <<d, c>> \notin ahead',
                      ~(free'[caller'[c].lane] < Needs(c)')
               PROVE  FALSE
    BY DEF NoIdleQueue
  <2> DEFINE l == caller[c].lane
             had == InLane(l, granted)
             more == had \cup {c}
  <2>1. c \in left \ granted /\ c \in Callers /\ caller'[c] = caller[c] /\ l \in Lanes /\ c \in Waiting
    <3>1. c \in left \ granted /\ c \in Callers /\ caller'[c] = caller[c] /\ c \in Waiting
      BY <1>5
    <3> QED BY <3>1, <1>2 DEF Locals
  <2>2. Needs(c)' = Needs(c)
    BY <2>1 DEF Needs
  <2>3. free'[l] >= Needs(c)
    BY <2>1, <2>2, <1>7, <1>10
  <2>4. more \in SUBSET InLane(l, left) /\ c \notin had /\ had \in SUBSET Callers /\ more \in SUBSET Callers
    BY <2>1, <1>9 DEF InLane
  <2>5. Wanted(more) = Wanted(had) + Needs(c)
    <3> DEFINE g == [d \in more |-> Needs(d)]
    <3>1. IsFiniteSet(had) /\ g \in [had \cup {c} -> 0..UnitLimit]
      BY <2>4, <1>8
    <3>2. [d \in had |-> g[d]] = [d \in had |-> Needs(d)] /\ g[c] = Needs(c)
      OBVIOUS
    <3>3. Total(g) = Wanted(more)
      BY DEF Wanted
    <3> HIDE DEF g
    <3>4. Total(g) = Total([d \in had |-> g[d]]) + g[c]
      BY <2>4, <3>1, TotalGrows
    <3> QED BY <3>2, <3>3, <3>4 DEF Wanted
  <2>6. Wanted(more) <= permits[l]
    <3>1. free'[l] = permits[l] - Wanted(had) /\ Wanted(had) \in Nat /\ permits[l] \in Nat
      BY <2>1, <1>9, <1>10
    <3>2. Needs(c) \in Nat
      BY <2>1, <1>7
    <3> HIDE DEF l, had, more
    <3> QED BY <3>1, <3>2, <2>3, <2>5
  <2>7. Longest(more, InLane(l, left))
    <3> SUFFICES ASSUME NEW a \in more, NEW d \in InLane(l, left), <<d, a>> \in ahead
                 PROVE  d \in more
      BY DEF Longest
    <3>1. CASE a \in had
      BY <3>1, <2>1, <1>9 DEF Longest
    <3>2. CASE a = c
      <4>1. d \in left /\ caller[d].lane = l
        BY DEF InLane
      <4>2. CASE d \in granted
        BY <4>1, <4>2 DEF InLane
      <4>3. CASE d \notin granted
        <5>1. d \in Waiting' /\ {d, c} \cap (gone \cup granted) = {}
          BY <4>1, <4>3, <1>5, <2>1
        <5>2. <<d, c>> \in ahead'
          BY <3>2, <5>1
        <5> QED BY <5>1, <5>2
      <4> QED BY <4>2, <4>3
    <3> QED BY <3>1, <3>2
  <2>8. more \in Fitting(permits[l], InLane(l, left))
    BY <2>4, <2>6, <2>7 DEF Fitting
  <2> QED BY <2>1, <2>4, <2>8, <1>9
<1>12. InHeavy' = InHeavy \ gone /\ InCold' = InCold \ gone
  <2>1. ASSUME NEW c \in Callers
        PROVE  /\ c \in InHeavy' <=> c \in InHeavy \ gone
               /\ c \in InCold' <=> c \in InCold \ gone
    <3>1. CASE c \in gone
      BY <3>1, <1>1, <1>3 DEF InHeavy, InCold, Queued, Cold
    <3>2. CASE c \in granted
      <4>1. caller[c].pc = "waiting" /\ c \notin gone
        BY <3>2, <1>2
      <4> QED BY <3>2, <4>1, <1>3 DEF InHeavy, InCold, Queued
    <3>3. CASE c \notin gone \cup granted
      BY <3>3, <1>3 DEF InHeavy, InCold
    <3> QED BY <3>1, <3>2, <3>3
  <2>2. InHeavy' \subseteq Callers /\ InCold' \subseteq Callers
        /\ InHeavy \subseteq Callers /\ InCold \subseteq Callers
    BY DEF InHeavy, InCold
  <2> QED BY <2>1, <2>2
<1>13. ASSUME NEW l \in Lanes
       PROVE  free'[l] + Total(CallersHold(l)')
                = permits[l] + Total([c \in Callers |-> IF c \in gone THEN 0
                                                        ELSE Amounts(caller[c], l)])
  <2> DEFINE f == [c \in Callers |-> IF c \in gone THEN 0 ELSE Amounts(caller[c], l)]
             g == [c \in Callers |-> Amounts(caller'[c], l)]
             had == InLane(l, granted)
  <2>1. CallersHold(l)' = g
    BY DEF CallersHold, Amounts, HeldBy, Holding, HasPermit
  <2>2. f \in [Callers -> 0..UnitLimit]
    <3>1. \A c \in Callers : Amounts(caller[c], l) \in 0..UnitLimit
      BY <1>2, AmountsType
    <3> QED BY <3>1
  <2>3. g \in [Callers -> 0..UnitLimit]
    <3>1. \A c \in Callers : Amounts(caller'[c], l) \in 0..UnitLimit
      BY <1>3, AmountsType
    <3> QED BY <3>1
  <2>4. ASSUME NEW c \in had
        PROVE  c \in Callers /\ f[c] = 0 /\ g[c] = Needs(c)
    <3>1. c \in granted /\ c \in Callers /\ caller[c].lane = l /\ caller[c].pc = "waiting" /\ c \notin gone
      BY <1>2 DEF InLane
    <3>2. l \notin caller[c].held
      <4>1. Sound(caller[c])
        BY <3>1 DEF HoldsRight
      <4>2. caller[c].held \subseteq Cold
        BY <3>1, <1>2 DEF Locals
      <4> QED BY <3>1, <4>1, <4>2 DEF Sound, Lanes, Cold
    <3>3. f[c] = 0
      BY <3>1, <3>2 DEF Amounts, Holding
    <3>4. g[c] = Needs(c)
      BY <3>1, <1>3 DEF Amounts, Holding, Needs
    <3> QED BY <3>1, <3>3, <3>4
  <2>5. ASSUME NEW c \in Callers \ had
        PROVE  g[c] = f[c]
    <3>1. CASE c \in gone
      BY <3>1, <1>1, <1>3 DEF Amounts, Holding
    <3>2. CASE c \in granted
      <4>1. caller[c].lane # l /\ caller[c].pc = "waiting" /\ c \notin gone
        BY <3>2, <1>2 DEF InLane
      <4> QED BY <3>2, <4>1, <1>3 DEF Amounts, Holding
    <3>3. CASE c \notin gone \cup granted
      BY <3>3, <1>3
    <3> QED BY <3>1, <3>2, <3>3
  <2>6. had \in SUBSET Callers
    BY <1>9
  <2>7. [c \in had |-> g[c]] = [c \in had |-> Needs(c)]
    BY <2>4
  <2>8. (\A c \in Callers \ had : g[c] = f[c]) /\ (\A c \in had : f[c] = 0)
    BY <2>4, <2>5
  <2>9. free'[l] = permits[l] - Wanted(had) /\ Wanted(had) \in Nat /\ permits[l] \in Nat
    BY <1>9, <1>10
  <2> HIDE DEF f, g, had
  <2>10. Total(g) = Total(f) + Total([c \in had |-> g[c]])
    BY <2>2, <2>3, <2>6, <2>8, CallersAdd
  <2>11. Total(f) \in Nat
    BY <2>2, TotalNat
  <2>12. free'[l] + Total(g) = permits[l] + Total(f)
    BY <2>7, <2>9, <2>10, <2>11 DEF Wanted
  <2> QED BY <2>1, <2>12 DEF f
<1> QED BY <1>3, <1>4, <1>6, <1>10, <1>11, <1>12, <1>13

\* The gauges count the callers in the heavy lane and cover those in the cold one.
Gauged == gauges.heavy = Cardinality(InHeavy) /\ gauges.cold >= Cardinality(InCold)

LEMMA GaugedIsCounted == GaugesCount <=> Gauged
BY DEF GaugesCount, Gauged, InHeavy, Queued

\* Where a caller that moves is counted.
LEMMA CountsMove ==
  ASSUME LanesTypeOK, NEW c \in Callers, NEW x \in Locals, Becomes(c, x)
  PROVE  /\ InHeavy' = IF x.lane = "heavy" /\ x.pc \in Queued THEN InHeavy \cup {c} ELSE InHeavy \ {c}
         /\ InCold' = IF x.lane \in Cold /\ x.pc # "idle" THEN InCold \cup {c} ELSE InCold \ {c}
         /\ IsFiniteSet(InHeavy) /\ IsFiniteSet(InCold)
         /\ Cardinality(InHeavy) \in Nat /\ Cardinality(InCold) \in Nat
<1>1. /\ caller' \in [Callers -> Locals] /\ caller'[c] = x
      /\ \A d \in Callers : d # c => caller'[d] = caller[d]
  BY CallerMoves
<1>2. InHeavy \subseteq Callers /\ InCold \subseteq Callers
  BY DEF InHeavy, InCold
<1>3. IsFiniteSet(InHeavy) /\ IsFiniteSet(InCold)
  BY <1>2, FS_Subset
<1>4. Cardinality(InHeavy) \in Nat /\ Cardinality(InCold) \in Nat
  BY <1>3, FS_CardinalityType
<1>5. InHeavy' = IF x.lane = "heavy" /\ x.pc \in Queued THEN InHeavy \cup {c} ELSE InHeavy \ {c}
  BY <1>1 DEF InHeavy
<1>6. InCold' = IF x.lane \in Cold /\ x.pc # "idle" THEN InCold \cup {c} ELSE InCold \ {c}
  BY <1>1 DEF InCold
<1> QED BY <1>3, <1>4, <1>5, <1>6

\* One member more, one member less.
LEMMA OneMore ==
  ASSUME NEW S, IsFiniteSet(S), NEW a
  PROVE  /\ a \notin S => Cardinality(S \cup {a}) = Cardinality(S) + 1
         /\ a \in S => Cardinality(S \ {a}) = Cardinality(S) - 1 /\ Cardinality(S) >= 1
<1>1. a \notin S => Cardinality(S \cup {a}) = Cardinality(S) + 1
  BY FS_AddElement
<1>2. ASSUME a \in S
      PROVE  Cardinality(S \ {a}) = Cardinality(S) - 1 /\ Cardinality(S) >= 1
  <2>1. Cardinality(S \ {a}) = Cardinality(S) - 1 /\ IsFiniteSet(S \ {a})
    BY <1>2, FS_RemoveElement
  <2>2. Cardinality(S \ {a}) \in Nat /\ Cardinality(S) \in Nat
    BY <2>1, FS_CardinalityType
  <2> QED BY <2>1, <2>2
<1> QED BY <1>1, <1>2

\* The locals of a caller that is idle.
LEMMA IdleType ==
  /\ Idle \in Locals /\ Idle.pc = "idle" /\ Idle.lane = "heavy" /\ Idle.held = {}
  /\ Idle.job = NoJob /\ Idle.units = 0 /\ Sound(Idle)
BY DEF Idle, Locals, Sizes, Lanes, NoJob, Sound

\* A caller that moves with the permits it has, in no queue, keeps everything
\* but the gauges, which its step has to keep.
LEMMA Passes ==
  ASSUME LaneInd, NEW c \in Callers, NEW x \in Locals, Becomes(c, x),
         UNCHANGED <<free, ahead, closures>>, ~At(c, "waiting"), x.pc # "waiting",
         Sound(x), \A l \in Lanes : Amounts(x, l) = Amounts(caller[c], l),
         gauges' \in [{"heavy", "cold"} -> Nat], Gauged'
  PROVE  LaneInd'
<1> USE DEF LaneInd
<1>1. /\ caller' \in [Callers -> Locals] /\ caller'[c] = x
      /\ \A d \in Callers : d # c => caller'[d] = caller[d]
  BY CallerMoves
<1>2. QueuesOrdered' /\ NoIdleQueue'
  BY QueuesStay
<1>3. PermitsConserved'
  BY PermitsStay
<1>4. HoldsRight'
  BY <1>1 DEF HoldsRight
<1>5. LanesTypeOK'
  BY <1>1, <1>2 DEF LanesTypeOK
<1>6. GaugesCount'
  BY GaugedIsCounted, PTL
<1> QED BY <1>2, <1>3, <1>4, <1>5, <1>6

\* A request for the heavy lane begins.
LEMMA StartHeavyKeeps ==
  ASSUME LaneInd, NEW c \in Callers, StartHeavy(c)
  PROVE  LaneInd'
<1> DEFINE x == [Idle EXCEPT !.pc = "acquire"]
<1>1. /\ LanesTypeOK /\ GaugesCount /\ HoldsRight /\ caller[c].pc = "idle" /\ Becomes(c, x)
      /\ UNCHANGED <<free, ahead, closures>> /\ gauges' = [gauges EXCEPT !.heavy = @ + 1]
      /\ gauges \in [{"heavy", "cold"} -> Nat]
  BY DEF LaneInd, LanesTypeOK, StartHeavy, At
<1>2. x \in Locals /\ x.pc = "acquire" /\ x.lane = "heavy" /\ x.held = {} /\ x.job = NoJob
  BY DEF Idle, Locals, Sizes, Lanes, NoJob
<1> HIDE DEF x
<1>3. Sound(x)
  BY <1>2 DEF Sound
<1>4. Sound(caller[c]) /\ caller[c].held = {}
  BY <1>1 DEF HoldsRight, Sound
<1>5. \A l \in Lanes : Amounts(x, l) = Amounts(caller[c], l)
  BY <1>1, <1>2, <1>4 DEF Amounts, Holding
<1>6. gauges' \in [{"heavy", "cold"} -> Nat] /\ gauges'.heavy = gauges.heavy + 1
      /\ gauges'.cold = gauges.cold
  BY <1>1
<1>7. /\ InHeavy' = InHeavy \cup {c} /\ InCold' = InCold \ {c} /\ c \notin InHeavy /\ c \notin InCold
      /\ IsFiniteSet(InHeavy)
  <2>1. "acquire" \in Queued /\ "heavy" \notin Cold
    BY DEF Queued, Cold
  <2>2. c \notin InHeavy /\ c \notin InCold
    BY <1>1 DEF InHeavy, InCold, Queued
  <2> QED BY <1>1, <1>2, <2>1, <2>2, CountsMove
<1>8. Cardinality(InHeavy') = Cardinality(InHeavy) + 1 /\ InCold' = InCold
  BY <1>7, OneMore
<1>9. Gauged'
  BY <1>1, <1>6, <1>8, GaugedIsCounted DEF Gauged
<1>10. ~At(c, "waiting") /\ x.pc # "waiting"
  BY <1>1, <1>2 DEF At
<1> QED BY <1>1, <1>2, <1>3, <1>5, <1>6, <1>9, <1>10, Passes

\* A cold load that can fit begins.
LEMMA StartColdKeeps ==
  ASSUME LaneInd, NEW c \in Callers, NEW u \in Units, StartCold(c, u)
  PROVE  LaneInd'
<1> DEFINE x == [Idle EXCEPT !.pc = "acquire", !.lane = "count", !.units = u]
<1>1. /\ LanesTypeOK /\ GaugesCount /\ HoldsRight /\ caller[c].pc = "idle" /\ Becomes(c, x)
      /\ UNCHANGED <<free, ahead, closures>> /\ gauges' = [gauges EXCEPT !.cold = @ + 1]
      /\ gauges \in [{"heavy", "cold"} -> Nat] /\ u <= UnitLimit
  BY DEF LaneInd, LanesTypeOK, StartCold, At
<1>2. x \in Locals /\ x.pc = "acquire" /\ x.lane = "count" /\ x.held = {} /\ x.job = NoJob
  <2>1. u \in Sizes
    BY <1>1 DEF Sizes
  <2> QED BY <2>1 DEF Idle, Locals, Lanes, NoJob
<1> HIDE DEF x
<1>3. Sound(x)
  BY <1>2 DEF Sound
<1>4. Sound(caller[c]) /\ caller[c].held = {}
  BY <1>1 DEF HoldsRight, Sound
<1>5. \A l \in Lanes : Amounts(x, l) = Amounts(caller[c], l)
  BY <1>1, <1>2, <1>4 DEF Amounts, Holding
<1>6. gauges' \in [{"heavy", "cold"} -> Nat] /\ gauges'.heavy = gauges.heavy
      /\ gauges'.cold = gauges.cold + 1 /\ gauges.cold \in Nat
  BY <1>1
<1>7. /\ InHeavy' = InHeavy \ {c} /\ InCold' = InCold \cup {c} /\ c \notin InHeavy /\ c \notin InCold
      /\ IsFiniteSet(InCold) /\ Cardinality(InCold) \in Nat
  <2>1. "count" \in Cold /\ "count" # "heavy"
    BY DEF Cold
  <2>2. c \notin InHeavy /\ c \notin InCold
    BY <1>1 DEF InHeavy, InCold, Queued
  <2> QED BY <1>1, <1>2, <2>1, <2>2, CountsMove
<1>8. Cardinality(InCold') = Cardinality(InCold) + 1 /\ InHeavy' = InHeavy
  BY <1>7, OneMore
<1>9. Gauged'
  <2>1. gauges.heavy = Cardinality(InHeavy) /\ gauges.cold >= Cardinality(InCold)
    BY <1>1, GaugedIsCounted DEF Gauged
  <2>2. gauges'.cold >= Cardinality(InCold')
    BY <1>6, <1>7, <1>8, <2>1
  <2>3. gauges'.heavy = Cardinality(InHeavy')
    BY <1>6, <1>8, <2>1
  <2> QED BY <2>2, <2>3 DEF Gauged
<1>10. ~At(c, "waiting") /\ x.pc # "waiting"
  BY <1>1, <1>2 DEF At
<1> QED BY <1>1, <1>2, <1>3, <1>5, <1>6, <1>9, <1>10, Passes

\* A caller stops waiting for its closure, which runs on with the permits.
LEMMA LeavesClosure ==
  ASSUME LaneInd, NEW c \in Callers, At(c, "awaiting"), Becomes(c, Idle),
         UNCHANGED <<free, ahead, closures, gauges>>
  PROVE  LaneInd'
<1>1. /\ LanesTypeOK /\ GaugesCount /\ HoldsRight /\ caller[c].pc = "awaiting"
      /\ gauges \in [{"heavy", "cold"} -> Nat]
  BY DEF LaneInd, LanesTypeOK, At
<1>2. Sound(caller[c]) /\ caller[c].held = {} /\ caller[c].lane = "heavy"
  BY <1>1 DEF HoldsRight, Sound
<1>3. \A l \in Lanes : Amounts(Idle, l) = Amounts(caller[c], l)
  BY <1>1, <1>2, IdleType DEF Amounts, Holding
<1>4. InHeavy' = InHeavy /\ InCold' = InCold
  <2>1. c \notin InHeavy /\ c \notin InCold
    BY <1>1, <1>2 DEF InHeavy, InCold, Queued, Cold
  <2>2. "idle" \notin Queued /\ "heavy" \notin Cold
    BY DEF Queued, Cold
  <2>3. InHeavy' = InHeavy \ {c} /\ InCold' = InCold \ {c}
    BY <1>1, <2>2, IdleType, CountsMove
  <2> QED BY <2>1, <2>3
<1>5. Gauged'
  BY <1>1, <1>4, GaugedIsCounted DEF Gauged
<1>6. ~At(c, "waiting") /\ Idle.pc # "waiting"
  BY <1>1, IdleType DEF At
<1> QED BY <1>1, <1>3, <1>5, <1>6, IdleType, Passes

\* A caller that moves within its lane is counted where it was.
LEMMA SameCounts ==
  ASSUME LanesTypeOK, NEW c \in Callers, NEW x \in Locals, Becomes(c, x),
         x.lane = caller[c].lane, x.pc \in Queued, caller[c].pc \in Queued
  PROVE  InHeavy' = InHeavy /\ InCold' = InCold
<1>1. "idle" \notin Queued
  BY DEF Queued
<1>2. /\ c \in InHeavy <=> x.lane = "heavy" /\ x.pc \in Queued
      /\ c \in InCold <=> x.lane \in Cold /\ x.pc # "idle"
  BY <1>1 DEF InHeavy, InCold
<1>3. /\ InHeavy' = IF x.lane = "heavy" /\ x.pc \in Queued THEN InHeavy \cup {c} ELSE InHeavy \ {c}
      /\ InCold' = IF x.lane \in Cold /\ x.pc # "idle" THEN InCold \cup {c} ELSE InCold \ {c}
  BY CountsMove
<1> QED BY <1>2, <1>3

\* With one permit in hand a caller goes on to its next lane.
LEMMA AdvanceKeeps ==
  ASSUME LaneInd, NEW c \in Callers, Advance(c)
  PROVE  LaneInd'
<1>1. /\ LanesTypeOK /\ GaugesCount /\ HoldsRight /\ gauges \in [{"heavy", "cold"} -> Nat]
      /\ caller \in [Callers -> Locals]
  BY DEF LaneInd, LanesTypeOK
<1> PICK old \in Locals : old = caller[c]
  BY <1>1
<1> DEFINE x == [old EXCEPT !.pc = "acquire", !.lane = NextLane[old.lane],
                            !.held = @ \cup {old.lane}]
<1>2. /\ old.pc \in {"taken", "granted"} /\ old.lane \in Cold /\ Becomes(c, x)
      /\ UNCHANGED <<free, ahead, closures>>
      /\ gauges' = IF old.lane = "count" THEN gauges
                   ELSE [gauges EXCEPT !.cold = @ - 1, !.heavy = @ + 1]
  BY DEF Advance, HasPermit
<1>3. /\ old.lane = "count" => NextLane[old.lane] = "bytes"
      /\ old.lane = "bytes" => NextLane[old.lane] = "heavy"
      /\ old.lane \in {"count", "bytes"}
  BY <1>2 DEF Cold, NextLane
<1>4. /\ x \in Locals /\ x.pc = "acquire" /\ x.held = old.held \cup {old.lane}
      /\ x.units = old.units /\ x.job = old.job /\ x.lane = NextLane[old.lane]
  BY <1>2, <1>3 DEF Locals, Lanes, Cold
<1> HIDE DEF x
<1>5. Sound(old)
  BY <1>1 DEF HoldsRight
<1>6. Sound(x)
  BY <1>2, <1>3, <1>4, <1>5 DEF Sound
<1>7. \A l \in Lanes : Amounts(x, l) = Amounts(caller[c], l)
  BY <1>2, <1>4 DEF Amounts, Holding
<1>8. ~At(c, "waiting") /\ x.pc # "waiting"
  BY <1>2, <1>4 DEF At
<1>9. gauges.heavy = Cardinality(InHeavy) /\ gauges.cold >= Cardinality(InCold)
      /\ gauges.heavy \in Nat /\ gauges.cold \in Nat
  BY <1>1, GaugedIsCounted DEF Gauged
<1>10. /\ c \in InCold /\ c \notin InHeavy /\ IsFiniteSet(InHeavy) /\ IsFiniteSet(InCold)
       /\ Cardinality(InHeavy) \in Nat /\ Cardinality(InCold) \in Nat
  <2>1. c \in InCold /\ c \notin InHeavy
    BY <1>2, <1>3 DEF InCold, InHeavy
  <2> QED BY <1>1, <1>2, <1>4, <2>1, CountsMove
<1>11. CASE old.lane = "count"
  <2>1. InHeavy' = InHeavy /\ InCold' = InCold
    <3>1. x.lane = "bytes" /\ x.lane \in Cold /\ x.lane # "heavy"
      BY <1>3, <1>4, <1>11 DEF Cold
    <3>2. InHeavy' = InHeavy \ {c} /\ InCold' = InCold \cup {c}
      BY <1>1, <1>2, <1>4, <3>1, CountsMove
    <3> QED BY <3>2, <1>10
  <2>2. gauges' = gauges
    BY <1>2, <1>11
  <2>3. Gauged'
    BY <1>9, <2>1, <2>2 DEF Gauged
  <2>4. gauges' \in [{"heavy", "cold"} -> Nat]
    BY <1>1, <2>2
  <2> QED BY <1>2, <1>4, <1>6, <1>7, <1>8, <2>3, <2>4, Passes
<1>12. CASE old.lane = "bytes"
  <2>1. InHeavy' = InHeavy \cup {c} /\ InCold' = InCold \ {c}
    <3>1. x.lane = "heavy" /\ x.lane \notin Cold /\ x.pc \in Queued
      BY <1>3, <1>4, <1>12 DEF Cold, Queued
    <3> QED BY <1>1, <1>2, <1>4, <3>1, CountsMove
  <2>2. Cardinality(InHeavy') = Cardinality(InHeavy) + 1
    BY <1>10, <2>1, OneMore
  <2>3. Cardinality(InCold') = Cardinality(InCold) - 1 /\ Cardinality(InCold) >= 1
    BY <1>10, <2>1, OneMore
  <2>4. gauges.cold >= 1
    BY <1>9, <1>10, <2>3
  <2>5. gauges' = [gauges EXCEPT !.cold = @ - 1, !.heavy = @ + 1]
    BY <1>2, <1>12
  <2>6. gauges'.heavy = gauges.heavy + 1 /\ gauges'.cold = gauges.cold - 1
    BY <1>1, <2>5
  <2>7. gauges' \in [{"heavy", "cold"} -> Nat]
    <3>1. gauges.cold - 1 \in Nat /\ gauges.heavy + 1 \in Nat
      BY <1>9, <2>4
    <3>2. gauges' = [g \in {"heavy", "cold"} |-> IF g = "heavy" THEN gauges.heavy + 1
                                                ELSE gauges.cold - 1]
      BY <1>1, <2>5
    <3> QED BY <3>1, <3>2
  <2>8. gauges'.heavy = Cardinality(InHeavy')
    BY <1>9, <2>2, <2>6
  <2>9. gauges'.cold >= Cardinality(InCold')
    BY <1>9, <1>10, <2>3, <2>6
  <2>10. Gauged'
    BY <2>8, <2>9 DEF Gauged
  <2> QED BY <1>2, <1>4, <1>6, <1>7, <1>8, <2>7, <2>10, Passes
<1> QED BY <1>3, <1>11, <1>12

\* A caller takes permits that are there and that nobody waits for.
LEMMA TakeKeeps ==
  ASSUME LaneInd, NEW c \in Callers, Take(c)
  PROVE  LaneInd'
<1>1. /\ LanesTypeOK /\ NoIdleQueue /\ PermitsConserved /\ GaugesCount /\ HoldsRight
      /\ gauges \in [{"heavy", "cold"} -> Nat] /\ free \in [Lanes -> Nat]
      /\ caller \in [Callers -> Locals] /\ closures \in [JobIds -> Closures]
  BY DEF LaneInd, LanesTypeOK
<1> PICK old \in Locals : old = caller[c]
  BY <1>1
<1> DEFINE x == [old EXCEPT !.pc = "taken"]
           lane == old.lane
<1>2. /\ old.pc = "acquire" /\ Before(c) = {} /\ free[lane] >= Needs(c)
      /\ free' = [free EXCEPT ![lane] = @ - Needs(c)] /\ Becomes(c, x)
      /\ UNCHANGED <<ahead, closures, gauges>>
  BY DEF Take, At, CanTake
<1>3. /\ x \in Locals /\ x.pc = "taken" /\ x.lane = lane /\ x.held = old.held
      /\ x.units = old.units /\ x.job = old.job /\ lane \in Lanes
  BY DEF Locals
<1> HIDE DEF x
<1>4. Sound(old)
  BY <1>1 DEF HoldsRight
<1>5. Sound(x) /\ lane \notin old.held
  <2>1. Sound(x)
    BY <1>2, <1>3, <1>4 DEF Sound
  <2>2. old.held \subseteq Cold
    BY DEF Locals
  <2> QED BY <1>3, <1>4, <2>1, <2>2 DEF Sound, Lanes, Cold
<1>6. /\ caller' \in [Callers -> Locals] /\ caller'[c] = x
      /\ \A d \in Callers : d # c => caller'[d] = caller[d]
  BY <1>1, <1>2, <1>3, CallerMoves
<1>7. Needs(c) \in 0..UnitLimit /\ Needs(c) = Amount(lane, old.units)
  <2>1. old.units \in Sizes
    BY DEF Locals
  <2>2. Amount(lane, old.units) \in 0..UnitLimit
    BY <1>3, <2>1, AmountType
  <2> QED BY <2>2 DEF Needs
<1>8. /\ free' \in [Lanes -> Nat] /\ free'[lane] = free[lane] - Needs(c)
      /\ \A l \in Lanes : l # lane => free'[l] = free[l]
  BY <1>1, <1>2, <1>3, <1>7
<1>9. Waiting' = Waiting /\ QueuesOrdered'
  <2>1. ~At(c, "waiting") /\ x.pc # "waiting"
    BY <1>2, <1>3 DEF At
  <2> QED BY <1>1, <1>2, <1>3, <2>1, QueuesStay
<1>10. NoIdleQueue'
  <2> SUFFICES ASSUME NEW d \in Waiting', \A e \in Waiting' : <<e, d>> \notin ahead'
               PROVE  free'[caller'[d].lane] < Needs(d)'
    BY DEF NoIdleQueue
  <2>1. d \in Waiting /\ d \in Callers /\ d # c /\ caller'[d] = caller[d]
    BY <1>2, <1>6, <1>9 DEF Waiting, At
  <2>2. caller[d].lane # lane /\ caller[d].lane \in Lanes
    BY <1>1, <1>2, <2>1 DEF Before, InLane, Locals
  <2>3. free[caller[d].lane] < Needs(d)
    BY <1>1, <1>2, <1>9, <2>1 DEF NoIdleQueue
  <2>4. Needs(d)' = Needs(d)
    BY <2>1 DEF Needs
  <2> QED BY <1>8, <2>1, <2>2, <2>3, <2>4
<1>11. PermitsConserved'
  <2>1. Running' = Running /\ \A j \in Running' : "heavy" \in closures'[j].held
    BY <1>1, <1>2 DEF Running, PermitsConserved
  <2>2. ASSUME NEW l \in Lanes
        PROVE  free'[l] + Total(CallersHold(l)') + Total(ClosuresHold(l)') = Limit[l]
    <3>1. free[l] + Total(CallersHold(l)) + Total(ClosuresHold(l)) = Limit[l]
      BY <1>1 DEF PermitsConserved
    <3>2. ClosuresHold(l)' = ClosuresHold(l)
      BY <1>2 DEF ClosuresHold
    <3>3. CallersHold(l)' = [d \in Callers |-> Amounts(caller'[d], l)]
      BY DEF CallersHold, Amounts, HeldBy, Holding, HasPermit
    <3>4. /\ CallersHold(l) = [d \in Callers |-> Amounts(caller[d], l)]
          /\ CallersHold(l) \in [Callers -> 0..UnitLimit]
          /\ Total(CallersHold(l)) \in Nat /\ Total(ClosuresHold(l)) \in Nat
      BY <1>1, HoldsType
    <3> DEFINE f == CallersHold(l)
               g == [d \in Callers |-> Amounts(caller'[d], l)]
    <3>5. g \in [Callers -> 0..UnitLimit]
      <4>1. \A d \in Callers : Amounts(caller'[d], l) \in 0..UnitLimit
        BY <1>6, AmountsType
      <4> QED BY <4>1
    <3>6. \A d \in Callers \ {c} : g[d] = f[d]
      BY <1>6, <3>4
    <3>7. f[c] = Amounts(old, l) /\ g[c] = Amounts(x, l)
      BY <1>6, <3>4
    <3> HIDE DEF f, g
    <3>8. CASE l = lane
      <4>1. f[c] = 0 /\ g[c] = Needs(c)
        BY <1>2, <1>3, <1>5, <1>7, <3>7, <3>8 DEF Amounts, Holding
      <4>2. f \in [Callers -> 0..UnitLimit]
        BY <3>4 DEF f
      <4>3. Total(g) = Total(f) + Needs(c)
        BY <3>5, <3>6, <4>1, <4>2, TotalRises
      <4>4. free'[l] = free[l] - Needs(c) /\ free[l] \in Nat /\ Needs(c) \in Nat
        BY <1>1, <1>3, <1>7, <1>8, <3>8
      <4>5. Total(CallersHold(l)') = Total(CallersHold(l)) + Needs(c)
        BY <3>3, <4>3 DEF f, g
      <4> QED BY <3>1, <3>2, <3>4, <4>4, <4>5
    <3>9. CASE l # lane
      <4>1. f[c] = g[c]
        BY <1>2, <1>3, <3>7, <3>9 DEF Amounts, Holding
      <4>2. f = g
        BY <3>4, <3>5, <3>6, <4>1 DEF f
      <4> QED BY <1>8, <3>1, <3>2, <3>3, <3>9, <4>2 DEF f, g
    <3> QED BY <3>8, <3>9
  <2> QED BY <2>1, <2>2 DEF PermitsConserved, Limit
<1>12. HoldsRight'
  BY <1>1, <1>2, <1>5, <1>6 DEF HoldsRight
<1>13. GaugesCount'
  <2>1. InHeavy' = InHeavy /\ InCold' = InCold
    BY <1>1, <1>2, <1>3, SameCounts DEF Queued
  <2>2. Gauged'
    BY <1>1, <1>2, <2>1, GaugedIsCounted DEF Gauged
  <2> QED BY <2>2, GaugedIsCounted, PTL
<1>14. LanesTypeOK'
  BY <1>1, <1>2, <1>6, <1>8, <1>9 DEF LanesTypeOK
<1> QED BY <1>10, <1>11, <1>12, <1>13, <1>14 DEF LaneInd

\* A caller that cannot take its permits queues behind whoever waits for the lane.
LEMMA EnqueueKeeps ==
  ASSUME LaneInd, NEW c \in Callers, Enqueue(c)
  PROVE  LaneInd'
<1>1. /\ LanesTypeOK /\ NoIdleQueue /\ PermitsConserved /\ GaugesCount /\ HoldsRight /\ QueuesOrdered
      /\ gauges \in [{"heavy", "cold"} -> Nat] /\ free \in [Lanes -> Nat]
      /\ caller \in [Callers -> Locals] /\ closures \in [JobIds -> Closures]
  BY DEF LaneInd, LanesTypeOK
<1> PICK old \in Locals : old = caller[c]
  BY <1>1
<1> DEFINE x == [old EXCEPT !.pc = "waiting"]
           lane == old.lane
<1>2. /\ old.pc = "acquire" /\ ~CanTake(c) /\ ahead' = ahead \cup (Before(c) \X {c})
      /\ Becomes(c, x) /\ UNCHANGED <<free, closures, gauges>>
  BY DEF Enqueue, At
<1>3. /\ x \in Locals /\ x.pc = "waiting" /\ x.lane = lane /\ x.held = old.held
      /\ x.units = old.units /\ x.job = old.job /\ lane \in Lanes
  BY DEF Locals
<1> HIDE DEF x
<1>4. Sound(old)
  BY <1>1 DEF HoldsRight
<1>5. Sound(x)
  BY <1>2, <1>3, <1>4 DEF Sound
<1>6. /\ caller' \in [Callers -> Locals] /\ caller'[c] = x
      /\ \A d \in Callers : d # c => caller'[d] = caller[d]
  BY <1>1, <1>2, <1>3, CallerMoves
<1>7. /\ Waiting' = Waiting \cup {c} /\ c \notin Waiting /\ Waiting \subseteq Callers
      /\ \A d \in Waiting : d # c /\ caller'[d] = caller[d]
  BY <1>2, <1>3, <1>6 DEF Waiting, At
<1>8. Before(c) = {d \in Waiting : caller[d].lane = lane}
  BY DEF Before, InLane
<1>9. /\ \A p \in ahead : p \in Waiting \X Waiting /\ p[1] # p[2]
                           /\ caller[p[1]].lane = caller[p[2]].lane
      /\ \A d, e \in Waiting : caller[d].lane = caller[e].lane /\ d # e
                                => (<<d, e>> \in ahead <=> <<e, d>> \notin ahead)
      /\ \A d, e, f \in Waiting : <<d, e>> \in ahead /\ <<e, f>> \in ahead => <<d, f>> \in ahead
  BY <1>1 DEF QueuesOrdered
<1>10. /\ \A d, e \in Waiting : <<d, e>> \in ahead' <=> <<d, e>> \in ahead
       /\ \A d \in Waiting' : <<d, c>> \in ahead' <=> d \in Before(c)
       /\ \A d \in Waiting' : <<c, d>> \notin ahead'
  <2>1. \A d : <<d, c>> \notin ahead /\ <<c, d>> \notin ahead
    BY <1>7, <1>9
  <2>2. \A d, e : <<d, e>> \in ahead' <=> <<d, e>> \in ahead \/ (d \in Before(c) /\ e = c)
    BY <1>2
  <2>3. c \notin Before(c)
    BY <1>7, <1>8
  <2> QED BY <1>7, <2>1, <2>2, <2>3
<1>11. QueuesOrdered'
  <2>1. ASSUME NEW p \in ahead'
        PROVE  /\ p \in Waiting' \X Waiting' /\ p[1] # p[2]
               /\ caller'[p[1]].lane = caller'[p[2]].lane
    <3>1. CASE p \in ahead
      BY <3>1, <1>7, <1>9
    <3>2. CASE p \in Before(c) \X {c}
      BY <3>2, <1>3, <1>6, <1>7, <1>8
    <3> QED BY <1>2, <3>1, <3>2
  <2>2. ASSUME NEW d \in Waiting', NEW e \in Waiting', caller'[d].lane = caller'[e].lane, d # e
        PROVE  <<d, e>> \in ahead' <=> <<e, d>> \notin ahead'
    <3>1. CASE d \in Waiting /\ e \in Waiting
      BY <3>1, <2>2, <1>7, <1>9, <1>10
    <3>2. CASE d = c
      <4>1. e \in Before(c)
        BY <3>2, <2>2, <1>3, <1>6, <1>7, <1>8
      <4> QED BY <3>2, <4>1, <1>10
    <3>3. CASE e = c
      <4>1. d \in Before(c)
        BY <3>3, <2>2, <1>3, <1>6, <1>7, <1>8
      <4> QED BY <3>3, <4>1, <1>10
    <3> QED BY <3>1, <3>2, <3>3, <1>7
  <2>3. ASSUME NEW d \in Waiting', NEW e \in Waiting', NEW f \in Waiting',
               <<d, e>> \in ahead', <<e, f>> \in ahead'
        PROVE  <<d, f>> \in ahead'
    <3>1. d # c /\ e # c /\ d \in Waiting /\ e \in Waiting
      BY <2>3, <1>7, <1>10
    <3>2. CASE f = c
      <4>1. e \in Before(c) /\ <<d, e>> \in ahead
        BY <2>3, <3>1, <3>2, <1>10
      <4>2. caller[d].lane = caller[e].lane
        BY <4>1, <1>9
      <4> QED BY <3>1, <3>2, <4>1, <4>2, <1>8, <1>10
    <3>3. CASE f \in Waiting
      BY <2>3, <3>1, <3>3, <1>9, <1>10
    <3> QED BY <3>2, <3>3, <1>7
  <2> QED BY <2>1, <2>2, <2>3 DEF QueuesOrdered
<1>12. NoIdleQueue'
  <2> SUFFICES ASSUME NEW d \in Waiting', \A e \in Waiting' : <<e, d>> \notin ahead'
               PROVE  free'[caller'[d].lane] < Needs(d)'
    BY DEF NoIdleQueue
  <2>1. CASE d = c
    <3>1. Before(c) = {}
      BY <2>1, <1>7, <1>8, <1>10
    <3>2. ~(free[lane] >= Needs(c))
      BY <3>1, <1>2 DEF CanTake
    <3>3. Needs(c)' = Needs(c) /\ Needs(c) \in 0..UnitLimit /\ free[lane] \in Nat
      <4>1. old.units \in Sizes
        BY DEF Locals
      <4>2. Amount(lane, old.units) \in 0..UnitLimit
        BY <1>3, <4>1, AmountType
      <4> QED BY <4>2, <1>1, <1>3, <1>6 DEF Needs
    <3>4. free[lane] < Needs(c)
      BY <3>2, <3>3
    <3> QED BY <2>1, <3>3, <3>4, <1>2, <1>3, <1>6
  <2>2. CASE d \in Waiting
    <3>1. \A e \in Waiting : <<e, d>> \notin ahead
      BY <2>2, <1>7, <1>10
    <3>2. free[caller[d].lane] < Needs(d)
      BY <2>2, <3>1, <1>1 DEF NoIdleQueue
    <3>3. Needs(d)' = Needs(d)
      BY <2>2, <1>7 DEF Needs
    <3> QED BY <2>2, <3>2, <3>3, <1>2, <1>7
  <2> QED BY <2>1, <2>2, <1>7
<1>13. PermitsConserved'
  <2>1. \A l \in Lanes : Amounts(x, l) = Amounts(caller[c], l)
    BY <1>2, <1>3 DEF Amounts, Holding
  <2> QED BY <1>1, <1>2, <1>3, <2>1, PermitsStay
<1>14. HoldsRight'
  BY <1>1, <1>2, <1>5, <1>6 DEF HoldsRight
<1>15. GaugesCount'
  <2>1. InHeavy' = InHeavy /\ InCold' = InCold
    BY <1>1, <1>2, <1>3, SameCounts DEF Queued
  <2>2. Gauged'
    BY <1>1, <1>2, <2>1, GaugedIsCounted DEF Gauged
  <2> QED BY <2>2, GaugedIsCounted, PTL
<1>16. LanesTypeOK'
  BY <1>1, <1>2, <1>6, <1>11 DEF LanesTypeOK
<1> QED BY <1>12, <1>13, <1>14, <1>15, <1>16 DEF LaneInd

\* A caller hands all its permits to the closure it starts.
LEMMA LaunchKeeps ==
  ASSUME LaneInd, NEW c \in Callers, Launch(c)
  PROVE  LaneInd'
<1>1. /\ LanesTypeOK /\ NoIdleQueue /\ PermitsConserved /\ GaugesCount /\ HoldsRight
      /\ gauges \in [{"heavy", "cold"} -> Nat] /\ free \in [Lanes -> Nat]
      /\ caller \in [Callers -> Locals] /\ closures \in [JobIds -> Closures]
  BY DEF LaneInd, LanesTypeOK
<1> PICK old \in Locals : old = caller[c]
  BY <1>1
<1> DEFINE launched == [state |-> "running", held |-> LaunchedHeld(c), units |-> old.units]
<1> PICK j \in JobIds :
         /\ closures[j].state = "none"
         /\ closures' = [closures EXCEPT ![j] = launched]
         /\ Becomes(c, [old EXCEPT !.pc = "awaiting", !.job = j, !.held = {}])
  BY DEF Launch
<1> DEFINE x == [old EXCEPT !.pc = "awaiting", !.job = j, !.held = {}]
<1>2. /\ old.pc \in {"taken", "granted"} /\ old.lane = "heavy" /\ Becomes(c, x)
      /\ gauges' = [gauges EXCEPT !.heavy = @ - 1] /\ UNCHANGED <<free, ahead>>
  BY DEF Launch, HasPermit
<1>3. x \in Locals /\ x.pc = "awaiting" /\ x.lane = "heavy" /\ x.held = {}
  BY <1>2 DEF Locals
<1>4. /\ launched \in Closures /\ launched.held = old.held \cup {"heavy"}
      /\ launched.units = old.units /\ launched.state = "running"
  <2>1. old.held \cup {"heavy"} \in SUBSET Lanes
    BY DEF Locals, Lanes, Cold
  <2> QED BY <2>1 DEF LaunchedHeld, Closures, Locals
<1> HIDE DEF x, launched
<1>5. Sound(x)
  BY <1>3 DEF Sound
<1>6. /\ caller' \in [Callers -> Locals] /\ caller'[c] = x
      /\ \A d \in Callers : d # c => caller'[d] = caller[d]
  BY <1>1, <1>2, <1>3, CallerMoves
<1>7. /\ closures' \in [JobIds -> Closures] /\ closures'[j] = launched
      /\ \A k \in JobIds : k # j => closures'[k] = closures[k]
  BY <1>1, <1>4
<1>8. QueuesOrdered' /\ NoIdleQueue'
  <2>1. ~At(c, "waiting") /\ x.pc # "waiting"
    BY <1>2, <1>3 DEF At
  <2> QED BY <1>1, <1>2, <1>3, <2>1, QueuesStay
<1>9. PermitsConserved'
  <2>1. \A k \in Running' : "heavy" \in closures'[k].held
    <3> SUFFICES ASSUME NEW k \in Running' PROVE "heavy" \in closures'[k].held
      OBVIOUS
    <3>1. k \in JobIds /\ closures'[k].state = "running"
      BY DEF Running
    <3>2. k # j => k \in Running
      BY <3>1, <1>7 DEF Running
    <3> QED BY <3>1, <3>2, <1>1, <1>4, <1>7 DEF PermitsConserved
  <2>2. ASSUME NEW l \in Lanes
        PROVE  free'[l] + Total(CallersHold(l)') + Total(ClosuresHold(l)') = Limit[l]
    <3>1. free[l] + Total(CallersHold(l)) + Total(ClosuresHold(l)) = Limit[l] /\ free'[l] = free[l]
          /\ free[l] \in Nat
      BY <1>1, <1>2 DEF PermitsConserved
    <3>2. CallersHold(l)' = [d \in Callers |-> Amounts(caller'[d], l)]
      BY DEF CallersHold, Amounts, HeldBy, Holding, HasPermit
    <3>3. /\ CallersHold(l) = [d \in Callers |-> Amounts(caller[d], l)]
          /\ CallersHold(l) \in [Callers -> 0..UnitLimit]
          /\ ClosuresHold(l) \in [JobIds -> 0..UnitLimit] /\ IsFiniteSet(JobIds)
          /\ Total(CallersHold(l)) \in Nat /\ Total(ClosuresHold(l)) \in Nat
      BY <1>1, HoldsType
    <3> DEFINE f == CallersHold(l)
               g == [d \in Callers |-> Amounts(caller'[d], l)]
               p == ClosuresHold(l)
               q == [k \in JobIds |-> IF l \in closures'[k].held THEN Amount(l, closures'[k].units) ELSE 0]
    <3>4. ClosuresHold(l)' = q
      BY DEF ClosuresHold
    <3>5. g \in [Callers -> 0..UnitLimit]
      <4>1. \A d \in Callers : Amounts(caller'[d], l) \in 0..UnitLimit
        BY <1>6, AmountsType
      <4> QED BY <4>1
    <3>6. q \in [JobIds -> 0..UnitLimit]
      <4>1. \A k \in JobIds : closures'[k].units \in Sizes
        BY <1>7 DEF Closures
      <4>2. \A k \in JobIds : Amount(l, closures'[k].units) \in 0..UnitLimit
        BY <4>1, AmountType
      <4> QED BY <4>2
    <3>7. (\A d \in Callers \ {c} : f[d] = g[d]) /\ g[c] = 0 /\ f[c] = Amounts(old, l)
      <4>1. Amounts(x, l) = 0
        BY <1>3 DEF Amounts, Holding
      <4> QED BY <4>1, <1>6, <3>3
    <3>8. (\A k \in JobIds \ {j} : q[k] = p[k]) /\ p[j] = 0 /\ q[j] = Amounts(old, l)
      <4>1. p[j] = 0
        BY <1>1 DEF HoldsRight, ClosuresHold
      <4>2. q[j] = Amounts(old, l)
        BY <1>2, <1>4, <1>7 DEF Amounts, Holding
      <4>3. \A k \in JobIds \ {j} : q[k] = p[k]
        BY <1>7 DEF ClosuresHold
      <4> QED BY <4>1, <4>2, <4>3
    <3>9. f \in [Callers -> 0..UnitLimit] /\ p \in [JobIds -> 0..UnitLimit]
      BY <3>3
    <3>10. Total(f) \in Nat /\ Total(p) \in Nat
      BY <3>3
    <3> HIDE DEF f, g, p, q
    <3>11. Total(f) = Total(g) + Amounts(old, l)
      BY <3>5, <3>7, <3>9, TotalRises
    <3>12. Total(q) = Total(p) + Amounts(old, l)
      BY <3>3, <3>6, <3>8, <3>9, TotalRises
    <3>13. Total(g) \in Nat /\ Amounts(old, l) \in 0..UnitLimit
      BY <3>5, TotalNat, AmountsType
    <3>14. free[l] + Total(g) + Total(q) = Limit[l]
      <4>1. free[l] + Total(f) + Total(p) = Limit[l]
        BY <3>1 DEF f, p
      <4> QED BY <3>1, <3>10, <3>11, <3>12, <3>13, <4>1
    <3> QED BY <3>1, <3>2, <3>4, <3>14 DEF g, q
  <2> QED BY <2>1, <2>2 DEF PermitsConserved, Limit
<1>10. HoldsRight'
  <2>1. \A d \in Callers : Sound(caller'[d])
    BY <1>1, <1>5, <1>6 DEF HoldsRight
  <2>2. \A k \in JobIds : closures'[k].state = "none" => closures'[k].held = {}
    BY <1>1, <1>4, <1>7 DEF HoldsRight
  <2> QED BY <2>1, <2>2 DEF HoldsRight
<1>11. gauges.heavy = Cardinality(InHeavy) /\ gauges.cold >= Cardinality(InCold)
       /\ gauges.heavy \in Nat /\ gauges.cold \in Nat
  BY <1>1, GaugedIsCounted DEF Gauged
<1>12. /\ InHeavy' = InHeavy \ {c} /\ InCold' = InCold /\ c \in InHeavy
       /\ IsFiniteSet(InHeavy) /\ Cardinality(InHeavy) \in Nat
  <2>1. c \in InHeavy /\ c \notin InCold
    BY <1>2 DEF InHeavy, InCold, Queued, Cold
  <2>2. x.pc \notin Queued /\ x.lane \notin Cold
    BY <1>3 DEF Queued, Cold
  <2>3. InHeavy' = InHeavy \ {c} /\ InCold' = InCold \ {c}
        /\ IsFiniteSet(InHeavy) /\ Cardinality(InHeavy) \in Nat
    BY <1>1, <1>2, <1>3, <2>2, CountsMove
  <2> QED BY <2>1, <2>3
<1>13. Cardinality(InHeavy') = Cardinality(InHeavy) - 1 /\ Cardinality(InHeavy) >= 1
  BY <1>12, OneMore
<1>14. gauges' \in [{"heavy", "cold"} -> Nat] /\ gauges'.heavy = gauges.heavy - 1
       /\ gauges'.cold = gauges.cold
  <2>1. gauges.heavy - 1 \in Nat
    BY <1>11, <1>12, <1>13
  <2>2. gauges' = [g \in {"heavy", "cold"} |-> IF g = "heavy" THEN gauges.heavy - 1
                                              ELSE gauges.cold]
    BY <1>1, <1>2
  <2> QED BY <1>11, <2>1, <2>2
<1>15. GaugesCount'
  <2>1. Gauged'
    BY <1>11, <1>12, <1>13, <1>14 DEF Gauged
  <2> QED BY <2>1, GaugedIsCounted, PTL
<1>16. LanesTypeOK'
  BY <1>1, <1>2, <1>6, <1>7, <1>8, <1>14 DEF LanesTypeOK
<1> QED BY <1>8, <1>9, <1>10, <1>15, <1>16 DEF LaneInd

\* A caller in a queue leaves it: what it holds goes back, and its gauge falls
\* (the cold one may stay).
LEMMA LeavesQueue ==
  ASSUME LaneInd, NEW c \in Callers, caller[c].pc \in {"waiting", "granted"},
         NEW held \in SUBSET Lanes, \A l \in Lanes : l \in held <=> Holding(caller[c], l),
         Serve(GiveBack(held, caller[c].units), {c}), closures' = closures,
         NEW n, n = gauges.cold \/ (caller[c].lane \in Cold /\ n = gauges.cold - 1),
         gauges' = [gauges EXCEPT !.heavy = IF caller[c].lane = "heavy" THEN @ - 1 ELSE @,
                                  !.cold = n]
  PROVE  LaneInd'
<1> DEFINE permits == GiveBack(held, caller[c].units)
<1>1. /\ LanesTypeOK /\ NoIdleQueue /\ PermitsConserved /\ GaugesCount /\ HoldsRight
      /\ gauges \in [{"heavy", "cold"} -> Nat] /\ free \in [Lanes -> Nat]
      /\ caller \in [Callers -> Locals] /\ closures \in [JobIds -> Closures]
  BY DEF LaneInd, LanesTypeOK
<1>2. caller[c] \in Locals /\ caller[c].units \in Sizes /\ caller[c].lane \in Lanes
  <2>1. caller[c] \in Locals
    BY <1>1
  <2> QED BY <2>1 DEF Locals
<1>3. /\ permits \in [Lanes -> Nat]
      /\ \A l \in Lanes : permits[l] = free[l] + Amounts(caller[c], l)
  <2>1. \A l \in Lanes : Amounts(caller[c], l) \in 0..UnitLimit
    BY <1>2, AmountsType
  <2>2. permits = [l \in Lanes |-> free[l] + Amounts(caller[c], l)]
    BY DEF GiveBack, Amounts
  <2> HIDE DEF permits
  <2> QED BY <1>1, <2>1, <2>2
<1> HIDE DEF permits
<1>4. /\ free' \in [Lanes -> Nat] /\ caller' \in [Callers -> Locals]
      /\ QueuesOrdered' /\ NoIdleQueue'
      /\ \A d \in Callers : Sound(caller'[d])
      /\ InHeavy' = InHeavy \ {c} /\ InCold' = InCold \ {c}
      /\ \A l \in Lanes :
           free'[l] + Total(CallersHold(l)')
             = permits[l] + Total([d \in Callers |-> IF d \in {c} THEN 0
                                                     ELSE Amounts(caller[d], l)])
  <2>1. Serve(permits, {c}) /\ {c} \in SUBSET Callers
    BY DEF permits
  <2> QED BY <1>1, <1>3, <2>1, ServeKeeps
<1>5. PermitsConserved'
  <2>1. Running' = Running /\ \A j \in Running' : "heavy" \in closures'[j].held
    BY <1>1 DEF Running, PermitsConserved
  <2>2. ASSUME NEW l \in Lanes
        PROVE  free'[l] + Total(CallersHold(l)') + Total(ClosuresHold(l)') = Limit[l]
    <3>1. free[l] + Total(CallersHold(l)) + Total(ClosuresHold(l)) = Limit[l] /\ free[l] \in Nat
      BY <1>1 DEF PermitsConserved
    <3>2. ClosuresHold(l)' = ClosuresHold(l)
      BY DEF ClosuresHold
    <3>3. /\ CallersHold(l) = [d \in Callers |-> Amounts(caller[d], l)]
          /\ CallersHold(l) \in [Callers -> 0..UnitLimit]
          /\ Total(CallersHold(l)) \in Nat /\ Total(ClosuresHold(l)) \in Nat
      BY <1>1, HoldsType
    <3> DEFINE g == CallersHold(l)
               f == [d \in Callers |-> IF d \in {c} THEN 0 ELSE Amounts(caller[d], l)]
    <3>4. g \in [Callers -> 0..UnitLimit] /\ f \in [Callers -> 0..UnitLimit]
      <4>1. \A d \in Callers : Amounts(caller[d], l) \in 0..UnitLimit
        BY <1>1, AmountsType
      <4> QED BY <3>3, <4>1
    <3>5. (\A d \in Callers \ {c} : g[d] = f[d]) /\ f[c] = 0 /\ g[c] = Amounts(caller[c], l)
      BY <3>3
    <3>6. free'[l] + Total(CallersHold(l)') = permits[l] + Total(f)
      BY <1>4
    <3> HIDE DEF f, g
    <3>7. Total(g) = Total(f) + Amounts(caller[c], l)
      BY <3>4, <3>5, TotalRises
    <3>8. Total(f) \in Nat /\ Amounts(caller[c], l) \in Nat
      BY <3>4, <1>2, AmountsType, TotalNat
    <3>9. free'[l] + Total(CallersHold(l)') = free[l] + Total(CallersHold(l))
      BY <1>3, <3>1, <3>6, <3>7, <3>8 DEF g
    <3> QED BY <3>1, <3>2, <3>9
  <2> QED BY <2>1, <2>2 DEF PermitsConserved, Limit
<1>6. HoldsRight'
  BY <1>1, <1>4 DEF HoldsRight
<1>7. gauges.heavy = Cardinality(InHeavy) /\ gauges.cold >= Cardinality(InCold)
      /\ gauges.heavy \in Nat /\ gauges.cold \in Nat
  BY <1>1, GaugedIsCounted DEF Gauged
<1>8. /\ c \in InHeavy <=> caller[c].lane = "heavy"
      /\ c \in InCold <=> caller[c].lane \in Cold
      /\ IsFiniteSet(InHeavy) /\ IsFiniteSet(InCold)
      /\ Cardinality(InHeavy) \in Nat /\ Cardinality(InCold) \in Nat
  <2>1. /\ c \in InHeavy <=> caller[c].lane = "heavy"
        /\ c \in InCold <=> caller[c].lane \in Cold
    BY DEF InHeavy, InCold, Queued
  <2>2. InHeavy \subseteq Callers /\ InCold \subseteq Callers
    BY DEF InHeavy, InCold
  <2>3. IsFiniteSet(InHeavy) /\ IsFiniteSet(InCold)
    BY <2>2, FS_Subset
  <2> QED BY <2>1, <2>3, FS_CardinalityType
<1>9. gauges'.heavy \in Nat /\ gauges'.heavy = Cardinality(InHeavy')
  <2>1. gauges'.heavy = IF caller[c].lane = "heavy" THEN gauges.heavy - 1 ELSE gauges.heavy
    BY <1>1
  <2>2. CASE caller[c].lane = "heavy"
    <3>1. Cardinality(InHeavy') = Cardinality(InHeavy) - 1 /\ Cardinality(InHeavy) >= 1
      BY <1>4, <1>8, <2>2, OneMore
    <3> QED BY <1>7, <1>8, <2>1, <2>2, <3>1
  <2>3. CASE caller[c].lane # "heavy"
    <3>1. InHeavy' = InHeavy
      BY <1>4, <1>8, <2>3
    <3> QED BY <1>7, <2>1, <2>3, <3>1
  <2> QED BY <2>2, <2>3
<1>10. gauges'.cold \in Nat /\ gauges'.cold >= Cardinality(InCold')
  <2>1. gauges'.cold = n
    BY <1>1
  <2>2. CASE caller[c].lane \in Cold
    <3>1. Cardinality(InCold') = Cardinality(InCold) - 1 /\ Cardinality(InCold) >= 1
      BY <1>4, <1>8, <2>2, OneMore
    <3> QED BY <1>7, <1>8, <2>1, <3>1
  <2>3. CASE caller[c].lane \notin Cold
    <3>1. InCold' = InCold
      BY <1>4, <1>8, <2>3
    <3> QED BY <1>7, <2>1, <2>3, <3>1
  <2> QED BY <2>2, <2>3
<1>11. gauges' \in [{"heavy", "cold"} -> Nat]
  <2>1. gauges' = [g \in {"heavy", "cold"} |-> gauges'[g]]
    BY <1>1
  <2> QED BY <1>9, <1>10, <2>1
<1>12. GaugesCount'
  <2>1. Gauged'
    BY <1>9, <1>10 DEF Gauged
  <2> QED BY <2>1, GaugedIsCounted, PTL
<1>13. LanesTypeOK'
  BY <1>1, <1>4, <1>11 DEF LanesTypeOK
<1> QED BY <1>4, <1>5, <1>6, <1>12, <1>13 DEF LaneInd

\* The queue timeout.
LEMMA QueueTimeoutKeeps ==
  ASSUME LaneInd, NEW c \in Callers, QueueTimeout(c)
  PROVE  LaneInd'
<1>1. /\ gauges \in [{"heavy", "cold"} -> Nat] /\ caller \in [Callers -> Locals]
  BY DEF LaneInd, LanesTypeOK
<1>2. caller[c].lane \in Lanes /\ caller[c].held \in SUBSET Lanes
  <2>1. caller[c] \in Locals
    BY <1>1
  <2> QED BY <2>1 DEF Locals, Lanes, Cold
<1>3. /\ caller[c].pc = "waiting" /\ Serve(GiveBack(caller[c].held, caller[c].units), {c})
      /\ closures' = closures /\ gauges' = [gauges EXCEPT ![GaugeOf(c)] = @ - 1]
  BY DEF QueueTimeout, At
<1>4. \A l \in Lanes : l \in caller[c].held <=> Holding(caller[c], l)
  BY <1>3 DEF Holding
<1> DEFINE n == IF caller[c].lane \in Cold THEN gauges.cold - 1 ELSE gauges.cold
<1>5. gauges' = [gauges EXCEPT !.heavy = IF caller[c].lane = "heavy" THEN @ - 1 ELSE @, !.cold = n]
  <2>1. CASE caller[c].lane = "heavy"
    BY <1>1, <1>3, <2>1 DEF GaugeOf, Cold
  <2>2. CASE caller[c].lane \in Cold
    BY <1>1, <1>3, <2>2 DEF GaugeOf, Cold
  <2> QED BY <1>2, <2>1, <2>2 DEF Lanes, Cold
<1>6. n = gauges.cold \/ (caller[c].lane \in Cold /\ n = gauges.cold - 1)
  OBVIOUS
<1> HIDE DEF n
<1> QED BY <1>2, <1>3, <1>4, <1>5, <1>6, LeavesQueue

\* A request dropped in a queue.
LEMMA DropQueuedKeeps ==
  ASSUME LaneInd, NEW c \in Callers, DropQueued(c)
  PROVE  LaneInd'
<1>1. /\ gauges \in [{"heavy", "cold"} -> Nat] /\ caller \in [Callers -> Locals]
  BY DEF LaneInd, LanesTypeOK
<1>2. caller[c].lane \in Lanes /\ DropHeld(c) \in SUBSET Lanes
  <2>1. caller[c] \in Locals
    BY <1>1
  <2>2. caller[c].lane \in Lanes /\ caller[c].held \in SUBSET Lanes
    BY <2>1 DEF Locals, Lanes, Cold
  <2> QED BY <2>2 DEF DropHeld
<1>3. /\ caller[c].pc \in {"waiting", "granted"} /\ Serve(GiveBack(DropHeld(c), caller[c].units), {c})
      /\ closures' = closures /\ gauges' = GaugesAfterDrop(c)
  BY DEF DropQueued
<1>4. \A l \in Lanes : l \in DropHeld(c) <=> Holding(caller[c], l)
  BY <1>3 DEF Holding, DropHeld, At
<1>5. gauges' = [gauges EXCEPT !.heavy = IF caller[c].lane = "heavy" THEN @ - 1 ELSE @,
                               !.cold = gauges.cold]
  <2>1. CASE caller[c].lane = "heavy"
    BY <1>1, <1>3, <2>1 DEF GaugeOf, GaugesAfterDrop, Cold
  <2>2. CASE caller[c].lane \in Cold
    BY <1>1, <1>3, <2>2 DEF GaugeOf, GaugesAfterDrop, Cold
  <2> QED BY <1>2, <2>1, <2>2 DEF Lanes, Cold
<1> QED BY <1>2, <1>3, <1>4, <1>5, LeavesQueue

\* A closure ends: its permits go back, and its caller, which holds none, has
\* its answer.
LEMMA JobEndsKeeps ==
  ASSUME LaneInd, NEW j \in JobIds, JobEnds(j)
  PROVE  LaneInd'
<1> DEFINE permits == GiveBack(closures[j].held, closures[j].units)
           gone == {c \in Callers : caller[c].job = j}
<1>1. /\ LanesTypeOK /\ NoIdleQueue /\ PermitsConserved /\ GaugesCount /\ HoldsRight
      /\ gauges \in [{"heavy", "cold"} -> Nat] /\ free \in [Lanes -> Nat]
      /\ caller \in [Callers -> Locals] /\ closures \in [JobIds -> Closures]
  BY DEF LaneInd, LanesTypeOK
<1>2. /\ closures[j].state = "running" /\ closures' = [closures EXCEPT ![j] = NoClosure]
      /\ Serve(permits, gone) /\ gauges' = gauges
  BY DEF JobEnds
<1>3. /\ NoClosure \in Closures /\ NoClosure.state = "none" /\ NoClosure.held = {}
  BY DEF NoClosure, Closures, Sizes
<1>4. /\ closures' \in [JobIds -> Closures] /\ closures'[j] = NoClosure
      /\ \A k \in JobIds : k # j => closures'[k] = closures[k]
  BY <1>1, <1>2, <1>3
<1>5. \A l \in Lanes : /\ ClosuresHold(l) \in [JobIds -> 0..UnitLimit]
                       /\ ClosuresHold(l)[j] \in 0..UnitLimit
  BY <1>1, HoldsType
<1>6. /\ permits \in [Lanes -> Nat]
      /\ \A l \in Lanes : permits[l] = free[l] + ClosuresHold(l)[j]
  <2>1. permits = [l \in Lanes |-> free[l] + ClosuresHold(l)[j]]
    BY DEF GiveBack, ClosuresHold
  <2> HIDE DEF permits
  <2> QED BY <1>1, <1>5, <2>1
<1>7. \A c \in gone : c \in Callers /\ caller[c].pc = "awaiting" /\ caller[c].lane = "heavy"
                      /\ caller[c].held = {}
  <2> SUFFICES ASSUME NEW c \in gone
               PROVE  c \in Callers /\ caller[c].pc = "awaiting" /\ caller[c].lane = "heavy"
                      /\ caller[c].held = {}
    OBVIOUS
  <2>1. Sound(caller[c]) /\ caller[c].job # NoJob
    BY <1>1 DEF HoldsRight, JobIds, NoJob
  <2> QED BY <2>1 DEF Sound
<1> HIDE DEF permits, gone
<1>8. /\ free' \in [Lanes -> Nat] /\ caller' \in [Callers -> Locals]
      /\ QueuesOrdered' /\ NoIdleQueue'
      /\ \A c \in Callers : Sound(caller'[c])
      /\ InHeavy' = InHeavy \ gone /\ InCold' = InCold \ gone
      /\ \A l \in Lanes :
           free'[l] + Total(CallersHold(l)')
             = permits[l] + Total([c \in Callers |-> IF c \in gone THEN 0
                                                     ELSE Amounts(caller[c], l)])
  <2>1. gone \in SUBSET Callers
    BY DEF gone
  <2> QED BY <1>1, <1>2, <1>6, <2>1, ServeKeeps
<1>9. PermitsConserved'
  <2>1. \A k \in Running' : "heavy" \in closures'[k].held
    <3> SUFFICES ASSUME NEW k \in Running' PROVE "heavy" \in closures'[k].held
      OBVIOUS
    <3>1. k \in JobIds /\ closures'[k].state = "running"
      BY DEF Running
    <3>2. k # j
      BY <3>1, <1>3, <1>4
    <3>3. closures'[k] = closures[k] /\ k \in Running
      BY <3>1, <3>2, <1>4 DEF Running
    <3> QED BY <3>3, <1>1 DEF PermitsConserved
  <2>2. ASSUME NEW l \in Lanes
        PROVE  free'[l] + Total(CallersHold(l)') + Total(ClosuresHold(l)') = Limit[l]
    <3>1. free[l] + Total(CallersHold(l)) + Total(ClosuresHold(l)) = Limit[l] /\ free[l] \in Nat
      BY <1>1 DEF PermitsConserved
    <3>2. /\ CallersHold(l) = [c \in Callers |-> Amounts(caller[c], l)]
          /\ ClosuresHold(l) \in [JobIds -> 0..UnitLimit] /\ IsFiniteSet(JobIds)
          /\ Total(CallersHold(l)) \in Nat /\ Total(ClosuresHold(l)) \in Nat
      BY <1>1, HoldsType
    <3>3. [c \in Callers |-> IF c \in gone THEN 0 ELSE Amounts(caller[c], l)] = CallersHold(l)
      <4>1. \A c \in gone : Amounts(caller[c], l) = 0
        BY <1>7 DEF Amounts, Holding
      <4> QED BY <3>2, <4>1
    <3>4. free'[l] + Total(CallersHold(l)') = free[l] + ClosuresHold(l)[j] + Total(CallersHold(l))
      BY <1>6, <1>8, <3>3
    <3> DEFINE p == ClosuresHold(l)
               q == [k \in JobIds |-> IF l \in closures'[k].held THEN Amount(l, closures'[k].units) ELSE 0]
    <3>5. ClosuresHold(l)' = q
      BY DEF ClosuresHold
    <3>6. q \in [JobIds -> 0..UnitLimit]
      <4>1. \A k \in JobIds : closures'[k].units \in Sizes
        BY <1>4 DEF Closures
      <4>2. \A k \in JobIds : Amount(l, closures'[k].units) \in 0..UnitLimit
        BY <4>1, AmountType
      <4> QED BY <4>2
    <3>7. (\A k \in JobIds \ {j} : p[k] = q[k]) /\ q[j] = 0
      BY <1>3, <1>4 DEF ClosuresHold
    <3>8. p \in [JobIds -> 0..UnitLimit] /\ p[j] \in 0..UnitLimit
      BY <3>2
    <3> HIDE DEF p, q
    <3>9. Total(p) = Total(q) + p[j]
      BY <3>2, <3>6, <3>7, <3>8, TotalRises
    <3>10. Total(q) \in Nat
      BY <3>2, <3>6, TotalNat
    <3>11. free[l] + p[j] + Total(CallersHold(l)) + Total(q) = Limit[l]
      <4>1. free[l] + Total(CallersHold(l)) + Total(p) = Limit[l]
        BY <3>1 DEF p
      <4> QED BY <3>1, <3>2, <3>8, <3>9, <3>10, <4>1
    <3> QED BY <3>4, <3>5, <3>11 DEF p
  <2> QED BY <2>1, <2>2 DEF PermitsConserved, Limit
<1>10. HoldsRight'
  <2>1. \A k \in JobIds : closures'[k].state = "none" => closures'[k].held = {}
    BY <1>1, <1>3, <1>4 DEF HoldsRight
  <2> QED BY <1>8, <2>1 DEF HoldsRight
<1>11. GaugesCount'
  <2>1. InHeavy' = InHeavy /\ InCold' = InCold
    <3>1. InHeavy \cap gone = {} /\ InCold \cap gone = {}
      BY <1>7 DEF InHeavy, InCold, Queued, Cold
    <3> QED BY <1>8, <3>1
  <2>2. Gauged'
    BY <1>1, <1>2, <2>1, GaugedIsCounted DEF Gauged
  <2> QED BY <2>2, GaugedIsCounted, PTL
<1>12. LanesTypeOK'
  BY <1>1, <1>2, <1>4, <1>8 DEF LanesTypeOK
<1> QED BY <1>8, <1>9, <1>10, <1>11, <1>12 DEF LaneInd

\* Nobody has asked for anything, and all permits are free.
LEMMA LaneInit == LanesInit => LaneInd
<1> SUFFICES ASSUME LanesInit PROVE LaneInd
  OBVIOUS
<1>1. /\ free = Limit /\ caller = [c \in Callers |-> Idle] /\ ahead = {}
      /\ closures = [j \in JobIds |-> NoClosure] /\ gauges = [heavy |-> 0, cold |-> 0]
  BY DEF LanesInit
<1>2. Limit \in [Lanes -> Nat]
  BY DEF Limit, Lanes
<1>3. NoClosure \in Closures /\ NoClosure.state = "none" /\ NoClosure.held = {}
  BY DEF NoClosure, Closures, Sizes
<1>4. Waiting = {} /\ InHeavy = {} /\ InCold = {} /\ Running = {}
  <2>1. Waiting = {} /\ InHeavy = {} /\ InCold = {}
    BY <1>1, IdleType DEF Waiting, At, InHeavy, InCold, Queued
  <2> QED BY <1>1, <1>3, <2>1 DEF Running
<1>5. QueuesOrdered /\ NoIdleQueue
  BY <1>1, <1>4 DEF QueuesOrdered, NoIdleQueue
<1>6. LanesTypeOK
  <2>1. gauges \in [{"heavy", "cold"} -> Nat]
    BY <1>1
  <2> QED BY <1>1, <1>2, <1>3, <1>5, <2>1, IdleType DEF LanesTypeOK
<1>7. HoldsRight
  BY <1>1, <1>3, IdleType DEF HoldsRight
<1>8. PermitsConserved
  <2>1. ASSUME NEW l \in Lanes
        PROVE  free[l] + Total(CallersHold(l)) + Total(ClosuresHold(l)) = Limit[l]
    <3>1. CallersHold(l) = [c \in Callers |-> 0]
      BY <1>1, IdleType DEF CallersHold, HeldBy, HasPermit
    <3>2. ClosuresHold(l) = [j \in JobIds |-> 0]
      BY <1>1, <1>3 DEF ClosuresHold
    <3>3. Total(CallersHold(l)) = 0 /\ Total(ClosuresHold(l)) = 0
      BY <3>1, <3>2, TotalNone
    <3> QED BY <1>1, <1>2, <3>3
  <2> QED BY <1>4, <2>1 DEF PermitsConserved, Limit
<1>9. GaugesCount
  BY <1>1, <1>4, FS_EmptySet, GaugedIsCounted DEF Gauged
<1> QED BY <1>5, <1>6, <1>7, <1>8, <1>9 DEF LaneInd

\* Every step keeps the invariant.
LEMMA LaneStep == LaneInd /\ [LanesNext]_laneVars => LaneInd'
<1> SUFFICES ASSUME LaneInd, [LanesNext]_laneVars PROVE LaneInd'
  OBVIOUS
<1>1. ASSUME NEW c \in Callers, Poll(c) PROVE LaneInd'
  <2>1. CASE Take(c)
    BY <2>1, TakeKeeps
  <2>2. CASE Enqueue(c)
    BY <2>2, EnqueueKeeps
  <2>3. CASE Advance(c)
    BY <2>3, AdvanceKeeps
  <2>4. CASE Launch(c)
    BY <2>4, LaunchKeeps
  <2>5. CASE QueueTimeout(c)
    BY <2>5, QueueTimeoutKeeps
  <2>6. CASE Deadline(c)
    BY <2>6, LeavesClosure DEF Deadline
  <2> QED BY <1>1, <2>1, <2>2, <2>3, <2>4, <2>5, <2>6 DEF Poll
<1>2. ASSUME NEW c \in Callers, StartHeavy(c) PROVE LaneInd'
  BY <1>2, StartHeavyKeeps
<1>3. ASSUME UNCHANGED laneVars PROVE LaneInd'
  <2>1. UNCHANGED <<free, caller, ahead, closures, gauges>>
    BY <1>3 DEF laneVars
  <2>2. LanesTypeOK' /\ NoIdleQueue'
    BY <2>1 DEF LaneInd, LanesTypeOK, QueuesOrdered, NoIdleQueue, Waiting, At, Needs
  <2>3. \A l \in Lanes : CallersHold(l)' = CallersHold(l) /\ ClosuresHold(l)' = ClosuresHold(l)
    BY <2>1 DEF CallersHold, ClosuresHold, HeldBy, HasPermit
  <2>4. PermitsConserved'
    BY <2>1, <2>3 DEF LaneInd, PermitsConserved, Running
  <2>5. GaugesCount' /\ HoldsRight'
    BY <2>1 DEF LaneInd, GaugesCount, InCold, HoldsRight
  <2> QED BY <2>2, <2>4, <2>5 DEF LaneInd
<1>4. ASSUME NEW c \in Callers, NEW u \in Units, StartCold(c, u) \/ RejectOversize(c, u)
      PROVE  LaneInd'
  BY <1>3, <1>4, StartColdKeeps DEF RejectOversize
<1>5. ASSUME NEW c \in Callers, DropQueued(c) \/ DropAwaiting(c) PROVE LaneInd'
  BY <1>5, DropQueuedKeeps, LeavesClosure DEF DropAwaiting
<1>6. ASSUME NEW j \in JobIds, JobEnds(j) PROVE LaneInd'
  BY <1>6, JobEndsKeeps
<1> QED BY <1>1, <1>2, <1>3, <1>4, <1>5, <1>6 DEF LanesNext

\* Whatever mix of timeouts, drops, grants and panics: no permit of a lane is
\* lost or made, a closure keeps its slots until it ends, nobody waits at the
\* head of a queue for permits that are there, and the gauges count the queues.
THEOREM LanesCorrect == LanesSpec => []LaneInv
<1>1. LaneInd => LaneInv
  BY DEF LaneInd, LaneInv
<1> QED BY <1>1, LaneInit, LaneStep, PTL DEF LanesSpec
=============================================================================
