\* Index jobs: three submissions for three repositories, one engine, a queue of
\* one, one retained status; submissions may be dropped.
\* Loads: three callers on three cold slots, two units and two heavy slots.
SPECIFICATION AdmissionSpec
CONSTANTS
  j1 = j1
  j2 = j2
  j3 = j3
  r1 = r1
  r2 = r2
  r3 = r3
  c1 = c1
  c2 = c2
  None = None
  Jobs = {j1, j2, j3}
  Repos = {r1, r2, r3}
  Commands = {c1, c2}
  MaxConcurrent = 1
  QueueCapacity = 1
  MaxRetained = 1
  Deadlines = TRUE
  Callers = {j1, j2, j3}
  CountLimit = 3
  UnitLimit = 2
  HeavyLimit = 2
  Units = {1, 2, 3}
  MayDrop = TRUE
  MaxLeak = 1
INVARIANTS
  SchedulerInv
  LaneInv
PROPERTIES
  CoalescedOntoLiveJob
  AdmittedJobsFinish
  CallsEnd
CHECK_DEADLOCK FALSE
