----------------------------- MODULE MCAdmission -----------------------------
(* The two places that admit work, each explored on its own: the scheduler of *)
(* index jobs and the lanes of blocking loads.  Only the one named by where   *)
(* moves.  No symmetry: the run checks liveness too.                          *)
EXTENDS IndexScheduler, LoadLanes

VARIABLE where

allVars == <<where, vars, laneVars>>

AdmissionInit == where \in {"scheduler", "lanes"} /\ Init /\ LanesInit

AdmissionNext ==
  /\ where' = where
  /\ \/ where = "scheduler" /\ Next /\ UNCHANGED laneVars
     \/ where = "lanes" /\ LanesNext /\ UNCHANGED vars

\* The fairness of both.  In the place that does not move nothing is under way,
\* so one condition stands for a job's task and for a caller of that name.
Worked(j) ==
  \/ (RegisterJob(j) \/ Spawn(j) \/ Task(j)) /\ UNCHANGED laneVars
  \/ Poll(j) /\ UNCHANGED vars

AdmissionSpec ==
  /\ AdmissionInit /\ [][AdmissionNext]_allVars
  /\ \A j \in Jobs : WF_allVars(Worked(j) /\ UNCHANGED where)
=============================================================================
