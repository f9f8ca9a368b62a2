--------------------------- MODULE IndexScheduler ----------------------------
(***************************************************************************)
(* IndexScheduler (cih-server): index_repo submissions, the task that runs *)
(* one engine process per admitted job, and cancellation.                  *)
(*                                                                         *)
(* `jobs`, `active` and `cancels` are three maps behind three locks; every *)
(* action below is what one task does between two lock acquisitions.  A    *)
(* submission and the job it may become share one id, drawn fresh by       *)
(* new_job_id.  Counters of the metrics endpoint are left out.             *)
(***************************************************************************)
EXTENDS Naturals, FiniteSets

CONSTANTS
  Jobs,           \* submissions; the id of a submission is the id of its job
  Repos,          \* canonical repository paths
  Commands,       \* graph key and sorted languages
  None,           \* no job, no repository, no command
  MaxConcurrent,  \* CIH_INDEX_MAX_CONCURRENT: running engines
  QueueCapacity,  \* CIH_INDEX_QUEUE_CAPACITY: jobs waiting for a slot
  MaxRetained,    \* MAX_RETAINED_JOBS
  Deadlines       \* TRUE when a tool call may outlive its operation timeout

ASSUME IdAssumption == None \notin Jobs /\ None \notin Repos
ASSUME LimitAssumption ==
  MaxConcurrent \in Nat \ {0} /\ QueueCapacity \in Nat /\ MaxRetained \in Nat
ASSUME DeadlineAssumption == Deadlines \in BOOLEAN

VARIABLES
  jobs,      \* status map, as index_status reports it
  active,    \* repository -> the job that claimed it, or None
  cancels,   \* jobs with a cancellation channel
  signalled, \* jobs whose channel carries TRUE
  slots,     \* jobs holding a permit of the running semaphore
  pc,        \* where each submission, later its job task, stands
  repo, command,  \* what a submission claimed (ActiveJob), until it is released
  reply,     \* job id in the receipt, None before it and after a refusal
  outcome    \* how the engine run of a job ended, until it is settled

vars == <<jobs, active, cancels, signalled, slots, pc, repo, command, reply,
          outcome>>

Terminal == {"done", "failed", "timed_out", "cancelled"}
Status   == {"absent", "queued", "running"} \union Terminal

\* A submission: new, admitted, registered; then its task: queued, permitted,
\* running, ended, settled, released, finished.
Phases == {"new", "answered", "dropped", "admitted", "registered", "queued",
           "permitted", "running", "ended", "settled", "released", "finished"}
Claiming == {"admitted", "registered", "queued", "permitted", "running",
             "ended", "settled"}

TypeOK ==
  /\ jobs \in [Jobs -> Status]
  /\ active \in [Repos -> Jobs \union {None}]
  /\ cancels \subseteq Jobs /\ signalled \subseteq Jobs /\ slots \subseteq Jobs
  /\ pc \in [Jobs -> Phases]
  /\ repo \in [Jobs -> Repos \union {None}]
  /\ command \in [Jobs -> Commands \union {None}]
  /\ reply \in [Jobs -> Jobs \union {None}]
  /\ outcome \in [Jobs -> Terminal \union {None}]

Init ==
  /\ jobs = [j \in Jobs |-> "absent"]
  /\ active = [r \in Repos |-> None]
  /\ cancels = {} /\ signalled = {} /\ slots = {}
  /\ pc = [j \in Jobs |-> "new"]
  /\ repo = [j \in Jobs |-> None]
  /\ command = [j \in Jobs |-> None]
  /\ reply = [j \in Jobs |-> None]
  /\ outcome = [j \in Jobs |-> None]

Move(j, from, to) ==
  /\ pc[j] = from
  /\ pc' = [pc EXCEPT ![j] = to]

-----------------------------------------------------------------------------
(* submit: the admission decision, under the lock of `active`.             *)

Claimed == {r \in Repos : active[r] # None}

\* The same command for a claimed repository is answered with its job.
Coalesce(j, r, c) ==
  /\ active[r] # None
  /\ command[active[r]] = c
  /\ Move(j, "new", "answered")
  /\ reply' = [reply EXCEPT ![j] = active[r]]
  /\ UNCHANGED <<jobs, active, cancels, signalled, slots, repo, command, outcome>>

\* A different command conflicts; a new repository may find the queue full.
QueueFull == Cardinality(Claimed) >= MaxConcurrent + QueueCapacity

Refuse(j, r, c) ==
  /\ IF active[r] # None THEN command[active[r]] # c ELSE QueueFull
  /\ Move(j, "new", "answered")
  /\ UNCHANGED <<jobs, active, cancels, signalled, slots, repo, command, reply,
                 outcome>>

Claim(j, r, c) ==
  /\ active[r] = None
  /\ ~QueueFull
  /\ Move(j, "new", "admitted")
  /\ active' = [active EXCEPT ![r] = j]
  /\ repo' = [repo EXCEPT ![j] = r]
  /\ command' = [command EXCEPT ![j] = c]
  /\ UNCHANGED <<jobs, cancels, signalled, slots, reply, outcome>>

-----------------------------------------------------------------------------
(* spawn_job                                                               *)

Retained(js) == {i \in Jobs : js[i] # "absent"}

\* Mutant: any status may be evicted.
EvictionsOfAny(js) ==
  {gone \in SUBSET Retained(js) :
     Cardinality(gone) = IF Cardinality(Retained(js)) <= MaxRetained THEN 0
                         ELSE Cardinality(Retained(js)) - MaxRetained}

\* evict_terminal: beyond the cap, terminal jobs go, as many as are in excess
\* and there are.  (Oldest first, to the second: which of them is left open.)
Evictions(js) ==
  LET terminal == {i \in Jobs : js[i] \in Terminal}
      excess   == Cardinality(Retained(js)) - MaxRetained
  IN {gone \in SUBSET terminal :
        Cardinality(gone) = IF Cardinality(Retained(js)) <= MaxRetained THEN 0
                            ELSE IF excess <= Cardinality(terminal) THEN excess
                            ELSE Cardinality(terminal)}

RegisterJob(j) ==
  /\ Move(j, "admitted", "registered")
  /\ LET inserted == [jobs EXCEPT ![j] = "queued"]
     IN \E gone \in Evictions(inserted) :
          jobs' = [i \in Jobs |-> IF i \in gone THEN "absent" ELSE inserted[i]]
  /\ UNCHANGED <<active, cancels, signalled, slots, repo, command, reply, outcome>>

\* The channel is stored, the task is spawned and the receipt returned: no
\* await between the three.
Spawn(j) ==
  /\ Move(j, "registered", "queued")
  /\ cancels' = cancels \union {j}
  /\ reply' = [reply EXCEPT ![j] = j]
  /\ UNCHANGED <<jobs, active, signalled, slots, repo, command, outcome>>

\* The operation timeout of the tool call drops the submission at an await.
DropSubmission(j) ==
  /\ Deadlines
  /\ pc[j] \in {"admitted", "registered"}
  /\ pc' = [pc EXCEPT ![j] = "dropped"]
  /\ UNCHANGED <<jobs, active, cancels, signalled, slots, repo, command, reply,
                 outcome>>

-----------------------------------------------------------------------------
(* The job's task.                                                         *)

AcquireSlot(j) ==
  /\ Cardinality(slots) < MaxConcurrent
  /\ Move(j, "queued", "permitted")
  /\ slots' = slots \union {j}
  /\ UNCHANGED <<jobs, active, cancels, signalled, repo, command, reply, outcome>>

\* A cancellation does not wait for a slot.
CancelQueued(j) ==
  /\ j \in signalled
  /\ Move(j, "queued", "ended")
  /\ outcome' = [outcome EXCEPT ![j] = "cancelled"]
  /\ UNCHANGED <<jobs, active, cancels, signalled, slots, repo, command, reply>>

MarkRunning(j) ==
  /\ Move(j, "permitted", "running")
  /\ jobs' = [jobs EXCEPT ![j] = "running"]
  /\ UNCHANGED <<active, cancels, signalled, slots, repo, command, reply, outcome>>

\* The engine exits, overruns its deadline, cannot be launched or, when
\* signalled, is killed.
EngineEnds(j) ==
  /\ Move(j, "running", "ended")
  /\ \E o \in Terminal :
       /\ o = "cancelled" => j \in signalled
       /\ outcome' = [outcome EXCEPT ![j] = o]
  /\ UNCHANGED <<jobs, active, cancels, signalled, slots, repo, command, reply>>

\* settle: the status first, then the claim and the channel.  The lock of
\* `active` is held until the channel is gone, so no admission runs between.
SettleStatus(j) ==
  /\ Move(j, "ended", "settled")
  /\ jobs' = [jobs EXCEPT ![j] = outcome[j]]
  /\ outcome' = [outcome EXCEPT ![j] = None]
  /\ UNCHANGED <<active, cancels, signalled, slots, repo, command, reply>>

Release(j) ==
  /\ Move(j, "settled", "released")
  /\ active' = [active EXCEPT ![repo[j]] = IF @ = j THEN None ELSE @]
  /\ repo' = [repo EXCEPT ![j] = None]
  /\ command' = [command EXCEPT ![j] = None]
  /\ cancels' = cancels \ {j}
  /\ signalled' = signalled \ {j}
  /\ UNCHANGED <<jobs, slots, reply, outcome>>

\* Mutant: the permit is forgotten instead of dropped.
ForgetSlot(j) ==
  /\ Move(j, "released", "finished")
  /\ UNCHANGED <<jobs, active, cancels, signalled, slots, repo, command, reply,
                 outcome>>

DropSlot(j) ==
  /\ Move(j, "released", "finished")
  /\ slots' = slots \ {j}
  /\ UNCHANGED <<jobs, active, cancels, signalled, repo, command, reply, outcome>>

-----------------------------------------------------------------------------
\* Mutant: cancelling settles the status at once.
SignalCancelSettles(j) ==
  /\ j \in cancels \ signalled
  /\ signalled' = signalled \union {j}
  /\ jobs' = [jobs EXCEPT ![j] = "cancelled"]
  /\ UNCHANGED <<active, cancels, slots, pc, repo, command, reply, outcome>>

\* cancel_index: the channel decides, not the status.
SignalCancel(j) ==
  /\ j \in cancels \ signalled
  /\ signalled' = signalled \union {j}
  /\ UNCHANGED <<jobs, active, cancels, slots, pc, repo, command, reply, outcome>>

Task(j) ==
  \/ AcquireSlot(j) \/ CancelQueued(j) \/ MarkRunning(j) \/ EngineEnds(j)
  \/ SettleStatus(j) \/ Release(j) \/ DropSlot(j)

Next ==
  \E j \in Jobs :
    \/ \E r \in Repos, c \in Commands :
         Coalesce(j, r, c) \/ Refuse(j, r, c) \/ Claim(j, r, c)
    \/ RegisterJob(j) \/ Spawn(j) \/ DropSubmission(j)
    \/ Task(j)
    \/ SignalCancel(j)

Spec == Init /\ [][Next]_vars

\* A submission and a task go on when they can, a queued job when a slot is
\* free for good; the engine ends because it has a deadline.
FairSpec ==
  /\ Spec
  /\ \A j \in Jobs : WF_vars(RegisterJob(j) \/ Spawn(j)) /\ WF_vars(Task(j))

-----------------------------------------------------------------------------
(* Properties                                                              *)

\* Two jobs never stand for one repository, from the admission of a job to the
\* release of its repository, so never do two engine processes index it at the
\* same time, whatever submissions, cancellations, timeouts and settlements
\* overlap.
OneJobPerRepo ==
  \A i, j \in Jobs :
    pc[i] \in Claiming /\ pc[j] \in Claiming /\ repo[i] = repo[j] => i = j

\* "Queued/Running jobs are never evicted (their count is bounded by the
\* scheduler's admission capacity)": index_jobs.rs.
LiveJobsBounded ==
  /\ Cardinality({j \in Jobs : jobs[j] \in {"queued", "running"}})
       <= MaxConcurrent + QueueCapacity
  /\ Cardinality({j \in Jobs : pc[j] = "running"}) <= MaxConcurrent

\* A client that holds the id of a job still under way can always poll it.
LiveJobsPollable ==
  \A j \in Jobs :
    pc[j] \in {"queued", "permitted", "running", "ended"} =>
      jobs[j] \in {"queued", "running"}

\* One job for a repository, live jobs within both limits, and each of them open
\* to its client, after any mix of submissions, cancellations and evictions.
SchedulerInv == TypeOK /\ OneJobPerRepo /\ LiveJobsBounded /\ LiveJobsPollable

\* An admitted job whose submission is not dropped comes to its end: its
\* repository is free for the next submission and its slot for the next job,
\* whatever the jobs before it did.  (A submission dropped after its admission
\* keeps its repository claimed, and a place in the queue, for ever.)  A job goes
\* through its phases once, so that this is every admitted job's end.
Settled == {"new", "answered", "dropped", "finished"}
AdmittedJobsFinish == []<>(\A j \in Jobs : pc[j] \in Settled)

\* "This repo already has a queued/running job - reuse its id": a submission
\* is answered with a job its client can poll and that is not over, save in
\* three windows: before RegisterJob, for good when the submission was
\* dropped, and between the two halves of settle.
CoalescedOntoLiveJob ==
  [][\A j \in Jobs :
       reply[j] = None /\ reply'[j] \notin {None, j} =>
         \/ jobs[reply'[j]] \in {"queued", "running"}
         \/ pc[reply'[j]] \in {"admitted", "dropped", "settled"}]_vars

=============================================================================
