----------------------------- MODULE GraphKeyPort -----------------------------
(***************************************************************************)
(* What a graph store promises about one graph key: publish_to "replaces  *)
(* the destination atomically" and dropping the staging graph afterwards  *)
(* does not affect it (trait GraphStore in cih-graph-store/src/lib.rs),   *)
(* and what a replacement load promises on top: the destination changes   *)
(* only after every load succeeded, and a load that reports failure has   *)
(* changed nothing (load_replacement_inner in cih-engine/src/db.rs).      *)
(*                                                                         *)
(* A store that goes on without a read that failed may lose the key: from  *)
(* then on loads still end as they did, but what is live is not promised.  *)
(***************************************************************************)
CONSTANTS Attempts,  \* replacement loads of the key, each made once
          NoGraph    \* no graph was ever published under the key

VARIABLES live,     \* the attempt whose graph queries of the key see
          outcome,  \* attempt -> how far it is
          broken    \* the key is lost

vars == <<live, outcome, broken>>

Graphs == Attempts \cup {NoGraph}

Init ==
    /\ live = NoGraph
    /\ outcome = [a \in Attempts |-> "idle"]
    /\ broken = FALSE

Begin(a) ==
    /\ outcome[a] = "idle"
    /\ outcome' = [outcome EXCEPT ![a] = "running"]
    /\ UNCHANGED <<live, broken>>

\* One step replaces what the key stands for, once per attempt.
Replace(a) ==
    /\ outcome[a] = "running"
    /\ broken' \in {broken, TRUE}
    /\ live' \in IF broken' THEN Graphs ELSE {a}
    /\ outcome' = [outcome EXCEPT ![a] = "replaced"]

\* The caller is told the truth, unless its process dies.
Succeed(a) ==
    /\ outcome[a] = "replaced"
    /\ outcome' = [outcome EXCEPT ![a] = "ok"]
    /\ UNCHANGED <<live, broken>>

Fail(a) ==
    /\ outcome[a] = "running"
    /\ outcome' = [outcome EXCEPT ![a] = "failed"]
    /\ UNCHANGED <<live, broken>>

Die(a) ==
    /\ outcome[a] \in {"running", "replaced"}
    /\ outcome' = [outcome EXCEPT ![a] = "died"]
    /\ UNCHANGED <<live, broken>>

Break ==
    /\ ~broken
    /\ broken' = TRUE
    /\ UNCHANGED <<live, outcome>>

Lose ==
    /\ broken
    /\ live' \in Graphs
    /\ UNCHANGED <<outcome, broken>>

Next ==
    \/ \E a \in Attempts : Begin(a) \/ Replace(a) \/ Succeed(a) \/ Fail(a) \/ Die(a)
    \/ Break
    \/ Lose

Spec == Init /\ [][Next]_vars
=============================================================================
