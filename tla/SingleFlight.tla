---------------------------- MODULE SingleFlight -----------------------------
(***************************************************************************)
(* SingleFlight::get_or_try_init (cih-server), for one key: keys share only *)
(* the two locks.  It guards the connection of a graph store and the other *)
(* initialisers that await.                                                *)
(*                                                                         *)
(* A flight is named by the caller that leads it (a caller leads at most   *)
(* once: a leader returns).  Tasks run on several threads, so two of them  *)
(* interleave between any two steps; a future may be dropped where it      *)
(* awaits, and an initialiser that panics drops its guard in the same way. *)
(***************************************************************************)
EXTENDS Naturals, FiniteSets

CONSTANTS
  Callers,        \* concurrent calls for the key
  None,
  Cancellations   \* TRUE when calls may be dropped (deadlines, disconnects)

ASSUME CallerAssumption == None \notin Callers
ASSUME CancelAssumption == Cancellations \in BOOLEAN

VARIABLES
  value,   \* the cached value, named by the caller that computed it, or None
  flight,  \* the flight in the map, or None
  lock,    \* holder of the lock of the map of flights, or None
  state,   \* state of the flight each caller leads
  result,  \* what the initialiser of each caller returned
  pc,
  follows, \* the flight a caller waits for
  woken,   \* waiting callers whose notification has arrived
  reply    \* what each call returned: a value, "failed" or None

vars == <<value, flight, lock, state, result, pc, follows, woken, reply>>

Phases == {"idle", "start", "missed", "locked", "rechecked",
           "init", "inited", "stored", "removed", "notifying",
           "following", "registered", "asleep", "done"}

TypeOK ==
  /\ value \in Callers \union {None}
  /\ flight \in Callers \union {None}
  /\ lock \in Callers \union {None}
  /\ state \in [Callers -> {"none", "running", "complete", "abandoned"}]
  /\ result \in [Callers -> {"none", "ok", "failed"}]
  /\ pc \in [Callers -> Phases]
  /\ follows \in [Callers -> Callers \union {None}]
  /\ woken \subseteq Callers
  /\ reply \in [Callers -> Callers \union {None, "failed"}]

Init ==
  /\ value = None
  /\ flight = None
  /\ lock = None
  /\ state = [c \in Callers |-> "none"]
  /\ result = [c \in Callers |-> "none"]
  /\ pc = [c \in Callers |-> "idle"]
  /\ follows = [c \in Callers |-> None]
  /\ woken = {}
  /\ reply = [c \in Callers |-> None]

Move(c, from, to) ==
  /\ pc[c] = from
  /\ pc' = [pc EXCEPT ![c] = to]

Return(c, from, r) ==
  /\ Move(c, from, "done")
  /\ reply' = [reply EXCEPT ![c] = r]

-----------------------------------------------------------------------------
(* Looking for the value, then for a flight.                               *)

Call(c) ==
  /\ Move(c, "idle", "start")
  /\ UNCHANGED <<value, flight, lock, state, result, follows, woken, reply>>

ReadValue(c) ==
  /\ IF value # None THEN Return(c, "start", value)
     ELSE Move(c, "start", "missed") /\ UNCHANGED reply
  /\ UNCHANGED <<value, flight, lock, state, result, follows, woken>>

LockFlights(c) ==
  /\ lock = None
  /\ Move(c, "missed", "locked")
  /\ lock' = c
  /\ UNCHANGED <<value, flight, state, result, follows, woken, reply>>

\* Mutant: the miss observed before the lock is trusted.
RecheckNot(c) ==
  /\ Move(c, "locked", "rechecked")
  /\ UNCHANGED <<value, flight, lock, state, result, follows, woken, reply>>

Recheck(c) ==
  /\ \/ value # None /\ Return(c, "locked", value) /\ lock' = None
     \/ value = None /\ Move(c, "locked", "rechecked") /\ UNCHANGED <<lock, reply>>
  /\ UNCHANGED <<value, flight, state, result, follows, woken>>

\* Mutant: a flight found in the map is not joined.
NeverJoinable == FALSE

\* An abandoned flight is replaced; any other is joined.
Joinable == flight # None /\ state[flight] # "abandoned"

Lead(c) ==
  /\ ~Joinable
  /\ Move(c, "rechecked", "init")
  /\ flight' = c
  /\ state' = [state EXCEPT ![c] = "running"]
  /\ lock' = None
  /\ UNCHANGED <<value, result, follows, woken, reply>>

Join(c) ==
  /\ Joinable
  /\ Move(c, "rechecked", "following")
  /\ follows' = [follows EXCEPT ![c] = flight]
  /\ lock' = None
  /\ UNCHANGED <<value, flight, state, result, woken, reply>>

-----------------------------------------------------------------------------
(* The leader.                                                             *)

InitEnds(c) ==
  /\ \/ Move(c, "init", "inited") /\ result' = [result EXCEPT ![c] = "ok"]
     \/ Move(c, "init", "stored") /\ result' = [result EXCEPT ![c] = "failed"]
  /\ UNCHANGED <<value, flight, lock, state, follows, woken, reply>>

StoreValue(c) ==
  /\ Move(c, "inited", "stored")
  /\ value' = c
  /\ UNCHANGED <<flight, lock, state, result, follows, woken, reply>>

\* The lock is taken and released around the removal.
RemoveFlight(c) ==
  /\ lock = None
  /\ Move(c, "stored", "removed")
  /\ flight' = IF flight = c THEN None ELSE flight
  /\ UNCHANGED <<value, lock, state, result, follows, woken, reply>>

Publish(c) ==
  /\ Move(c, "removed", "notifying")
  /\ state' = [state EXCEPT ![c] = "complete"]
  /\ reply' = [reply EXCEPT ![c] = IF result[c] = "ok" THEN c ELSE "failed"]
  /\ UNCHANGED <<value, flight, lock, result, follows, woken>>

\* notify_waiters reaches the callers that have registered, and only them.
Notify(c) ==
  /\ Move(c, "notifying", "done")
  /\ woken' = woken \union {w \in Callers : /\ follows[w] = c
                                            /\ pc[w] \in {"registered", "asleep"}}
  /\ UNCHANGED <<value, flight, lock, state, result, follows, reply>>

-----------------------------------------------------------------------------
(* The callers that follow a flight.                                       *)

Register(c) ==
  /\ Move(c, "following", "registered")
  /\ woken' = woken \ {c}
  /\ UNCHANGED <<value, flight, lock, state, result, follows, reply>>

Observe(c) ==
  /\ LET f == follows[c]
     IN \/ /\ pc[c] = "registered" /\ state[f] = "complete"
           /\ Return(c, "registered", IF result[f] = "ok" THEN f ELSE "failed")
        \/ /\ pc[c] = "registered" /\ state[f] = "abandoned"
           /\ Move(c, "registered", "start") /\ UNCHANGED reply
        \/ /\ pc[c] = "registered" /\ state[f] = "running"
           /\ Move(c, "registered", "asleep") /\ UNCHANGED reply
  /\ UNCHANGED <<value, flight, lock, state, result, follows, woken>>

WakeUp(c) ==
  /\ c \in woken
  /\ Move(c, "asleep", "following")
  /\ UNCHANGED <<value, flight, lock, state, result, follows, woken, reply>>

-----------------------------------------------------------------------------
(* A dropped call.                                                         *)

\* Mutant: the guard of the leader is missing.
CancelSilently(c) ==
  /\ Cancellations
  /\ pc[c] \in {"start", "missed", "locked", "init", "inited", "stored", "asleep"}
  /\ pc' = [pc EXCEPT ![c] = "done"]
  /\ lock' = IF lock = c THEN None ELSE lock
  /\ UNCHANGED <<value, flight, state, result, follows, woken, reply>>

\* Where it awaits: a lock, its initialiser, its notification.  A leader's
\* guard marks the flight abandoned and wakes the followers.
Cancel(c) ==
  /\ Cancellations
  /\ \/ /\ pc[c] \in {"start", "missed", "locked", "asleep"}
        /\ pc' = [pc EXCEPT ![c] = "done"]
        /\ UNCHANGED state
     \/ /\ pc[c] \in {"init", "inited", "stored"}
        /\ pc' = [pc EXCEPT ![c] = "notifying"]
        /\ state' = [state EXCEPT ![c] = "abandoned"]
  /\ lock' = IF lock = c THEN None ELSE lock
  /\ UNCHANGED <<value, flight, result, follows, woken, reply>>

TakesLock(c) == LockFlights(c) \/ RemoveFlight(c)
Proceeds(c) ==
  \/ ReadValue(c) \/ Recheck(c) \/ Lead(c) \/ Join(c)
  \/ InitEnds(c) \/ StoreValue(c) \/ Publish(c) \/ Notify(c)
  \/ Register(c) \/ Observe(c) \/ WakeUp(c)

Next == \E c \in Callers : Call(c) \/ TakesLock(c) \/ Proceeds(c) \/ Cancel(c)

Spec == Init /\ [][Next]_vars

-----------------------------------------------------------------------------
(* Properties                                                              *)

\* "a burst of concurrent misses on the same key runs the initializer once":
\* two initialisers of one key never run at the same time.
OneInitialiser ==
  \A c, d \in Callers : pc[c] = "init" /\ pc[d] = "init" => c = d

\* The recheck under the lock catches a stale miss: an initialiser only starts
\* when no value is cached, or when the one cached was stored by a leader that
\* was dropped before it could publish (its store fell between the recheck and
\* the look at the flight).
NoInitOnceCached ==
  [][\A c \in Callers : pc[c] # "init" /\ pc'[c] = "init" /\ value # None =>
       state[value] = "abandoned"]_vars

\* "failures are never cached": a flight that is over is not found by a later
\* caller, so a failure reaches those who waited for it and nobody else.
FinishedFlightsAreGone == flight # None => state[flight] # "complete"

FlightInv == TypeOK /\ OneInitialiser /\ FinishedFlightsAreGone

\* A call that is not dropped returns, whoever was dropped, failed or raced
\* with it: no notification is lost.
CallsReturn == \A c \in Callers : []<>(pc[c] \in {"idle", "done"})

=============================================================================
