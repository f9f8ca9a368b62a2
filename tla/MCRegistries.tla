----------------------------- MODULE MCRegistries -----------------------------
(* The two registries of the CIH home, each explored on its own: only the one *)
(* named by registry moves, the other rests in an initial state.              *)
EXTENDS RegistryStore, GroupRegistry, TLC

CONSTANT MaxTroubles  \* bound: failures of all kinds together

VARIABLE registry

\* Processes are interchangeable; either registry is used by the same two.
Symmetry == Permutations(Actors)

RegistriesInit ==
  /\ registry \in {"repositories", "groups"}
  /\ Init /\ GroupsInit
  /\ groups.of \in IF registry = "groups" THEN {NoGroup, Members} ELSE {NoGroup}
  /\ registry = "repositories" => indexed = [m \in Members |-> 0]

RegistriesNext ==
  /\ registry' = registry
  /\ \/ registry = "repositories" /\ Next /\ UNCHANGED groupVars
        /\ spent'.crashes + spent'.corruptions + spent'.powerLosses + spent'.loadFailures <= MaxTroubles
     \/ registry = "groups" /\ GroupsNext /\ UNCHANGED vars

RegistriesSpec == RegistriesInit /\ [][RegistriesNext]_<<registry, vars, groupVars>>
=============================================================================
