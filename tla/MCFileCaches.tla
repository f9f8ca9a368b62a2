---------------------------- MODULE MCFileCaches ----------------------------
(* The two caches over files that another process rewrites, each explored on *)
(* its own: only the one named by over moves.                                *)
EXTENDS MCArtifactCache, MCWikiBundle

VARIABLE over

\* What does not move starts in one way.
OneWorkload == workload = CHOOSE w \in Workloads : TRUE

CachesInit ==
  /\ over \in {"artifacts", "wiki"} /\ Init /\ WikiInit
  /\ IF over = "wiki" THEN SmallStart /\ OneWorkload ELSE Present(1) = Classes

CachesNext ==
  /\ over' = over
  /\ \/ over = "artifacts" /\ Next /\ UNCHANGED wikiVars
     \/ over = "wiki" /\ WikiNext /\ SmallInstance' /\ UNCHANGED vars

CachesSpec == CachesInit /\ [][CachesNext]_<<over, vars, wikiVars>>
=============================================================================
