------------------------------ MODULE MCFlights ------------------------------
(* The two protocols by which concurrent callers share one computation, each *)
(* explored on its own: only the one named by protocol moves.  No symmetry:  *)
(* the run checks liveness too.                                              *)
EXTENDS SingleFlight, SearchFlights

CONSTANTS PatientCallers, PatientSearchers  \* bound: who is never dropped

VARIABLE protocol

allVars == <<protocol, vars, searchVars>>

FlightsInit ==
  /\ protocol \in {"values", "searches"}
  /\ Init /\ SearchInit

FlightsNext ==
  /\ protocol' = protocol
  /\ \/ protocol = "values" /\ Next /\ UNCHANGED searchVars
        /\ \A c \in PatientCallers : ~Cancel(c)
     \/ protocol = "searches" /\ SearchNext /\ UNCHANGED vars
        /\ \A c \in PatientSearchers : ~DropLeader(c) /\ ~DropFollower(c)

\* Tasks are polled; initialisers and loads end (they have deadlines of their
\* own); the lock of the map of flights serves its waiters in order.  In the
\* protocol that does not move nobody is under way, so one condition a caller
\* stands for both.
Polled(c) == (Proceeds(c) /\ UNCHANGED searchVars) \/ (Step(c) /\ UNCHANGED vars)

FlightsSpec ==
  /\ FlightsInit /\ [][FlightsNext]_allVars
  /\ \A c \in Callers : WF_allVars(Polled(c) /\ UNCHANGED protocol) /\ SF_vars(TakesLock(c))
=============================================================================
