---------------------------- MODULE FlightsProofs ----------------------------
(***************************************************************************)
(* The two protocols by which concurrent callers share one computation:    *)
(* values of a cache, where no finished flight is left to be found, and    *)
(* cold searches, where a flight is led by one caller, counts those on it, *)
(* and goes with the last of them.  Any number of callers, dropped or not. *)
(***************************************************************************)
EXTENDS SingleFlight, SearchFlights, FiniteSetTheorems, TLAPS

-----------------------------------------------------------------------------
(* Values of a cache *)

USE CallerAssumption

LeaderPhases == {"init", "inited", "stored"}
OtherPhases == {"idle", "start", "missed", "locked", "rechecked",
               "following", "registered", "asleep"}

\* The flight in the map is the leader's own as long as it leads; it is gone
\* before its state becomes complete; a caller that has not led has none.
FlightOwned ==
  \A c \in Callers :
    /\ pc[c] \in LeaderPhases => flight = c /\ state[c] = "running"
    /\ pc[c] = "removed" => flight # c
    /\ state[c] = "complete" => flight # c /\ pc[c] \notin OtherPhases
    /\ pc[c] \in OtherPhases => state[c] = "none"

\* A waiting caller waits for somebody's flight.
FollowersFollow ==
  \A c \in Callers :
    pc[c] \in {"following", "registered", "asleep"} => follows[c] \in Callers

Ind == TypeOK /\ FlightOwned /\ FollowersFollow

LEMMA InitInd == Init => Ind
  BY DEF Init, Ind, TypeOK, FlightOwned, FollowersFollow, Phases, LeaderPhases,
         OtherPhases

LEMMA NextInd == Ind /\ [Next]_vars => Ind'
<1> SUFFICES ASSUME Ind, [Next]_vars PROVE Ind'
  OBVIOUS
<1> USE DEF Ind, TypeOK, FlightOwned, FollowersFollow, Phases, LeaderPhases,
            OtherPhases, Move, Return
<1>1. ASSUME NEW c \in Callers, Call(c) PROVE Ind'
  BY <1>1 DEF Call
<1>2. ASSUME NEW c \in Callers, ReadValue(c) PROVE Ind'
  BY <1>2 DEF ReadValue
<1>3. ASSUME NEW c \in Callers, LockFlights(c) PROVE Ind'
  BY <1>3 DEF LockFlights
<1>4. ASSUME NEW c \in Callers, Recheck(c) PROVE Ind'
  BY <1>4 DEF Recheck
<1>5. ASSUME NEW c \in Callers, Lead(c) PROVE Ind'
  <2>1. \A d \in Callers : pc[d] \notin LeaderPhases
    BY <1>5 DEF Lead, Joinable
  <2>2. TypeOK'
    BY <1>5 DEF Lead
  <2>3. FlightOwned'
    BY <1>5, <2>1 DEF Lead
  <2> QED BY <1>5, <2>2, <2>3 DEF Lead
<1>6. ASSUME NEW c \in Callers, Join(c) PROVE Ind'
  BY <1>6 DEF Join, Joinable
<1>7. ASSUME NEW c \in Callers, InitEnds(c) PROVE Ind'
  BY <1>7 DEF InitEnds
<1>8. ASSUME NEW c \in Callers, StoreValue(c) PROVE Ind'
  BY <1>8 DEF StoreValue
<1>9. ASSUME NEW c \in Callers, RemoveFlight(c) PROVE Ind'
  BY <1>9 DEF RemoveFlight
<1>10. ASSUME NEW c \in Callers, Publish(c) PROVE Ind'
  BY <1>10 DEF Publish
<1>11. ASSUME NEW c \in Callers, Notify(c) PROVE Ind'
  BY <1>11 DEF Notify
<1>12. ASSUME NEW c \in Callers, Register(c) PROVE Ind'
  BY <1>12 DEF Register
<1>13. ASSUME NEW c \in Callers, Observe(c) PROVE Ind'
  BY <1>13 DEF Observe
<1>14. ASSUME NEW c \in Callers, WakeUp(c) PROVE Ind'
  BY <1>14 DEF WakeUp
<1>15. ASSUME NEW c \in Callers, Cancel(c) PROVE Ind'
  BY <1>15 DEF Cancel
<1>16. CASE UNCHANGED vars
  BY <1>16 DEF vars
<1> QED
  BY <1>1, <1>2, <1>3, <1>4, <1>5, <1>6, <1>7, <1>8, <1>9, <1>10, <1>11,
     <1>12, <1>13, <1>14, <1>15, <1>16 DEF Next, TakesLock, Proceeds

LEMMA IndInvariant == Spec => []Ind
  BY InitInd, NextInd, PTL DEF Spec

\* Two initialisers of one key never run at the same time, and a finished
\* flight, and with it a failure, is never found by a later caller.
THEOREM FlightCorrect == Spec => []FlightInv
<1>1. Ind => TypeOK
  BY DEF Ind
<1>2. Ind => OneInitialiser
  BY DEF Ind, FlightOwned, OneInitialiser, LeaderPhases
<1>3. Ind => FinishedFlightsAreGone
  BY DEF Ind, TypeOK, FlightOwned, FinishedFlightsAreGone
<1>4. Ind => FlightInv
  BY <1>1, <1>2, <1>3 DEF FlightInv
<1> QED BY <1>4, IndInvariant, PTL

\* Whoever has looked again under the lock holds it; a dropped leader stays
\* dropped; a value stored since that look is its leader's, which cannot take
\* its flight away without the lock, or which was dropped.
RecheckHolds ==
  \A c \in Callers :
    /\ pc[c] \in {"locked", "rechecked"} => lock = c
    /\ state[c] = "abandoned" => pc[c] \in {"notifying", "done"}
    /\ pc[c] = "rechecked" /\ value # None => state[value] = "abandoned" \/ pc[value] = "stored"

LEMMA RecheckStep ==
  ASSUME Ind, RecheckHolds, NEW c \in Callers,
         Call(c) \/ TakesLock(c) \/ Proceeds(c) \/ Cancel(c)
  PROVE  RecheckHolds'
<1> USE DEF Ind, TypeOK, RecheckHolds, Move, Return
<1>1. CASE Call(c) \/ ReadValue(c) \/ LockFlights(c)
  BY <1>1 DEF Call, ReadValue, LockFlights
<1>2. CASE Recheck(c)
  BY <1>2 DEF Recheck
<1>3. CASE Lead(c)
  BY <1>3 DEF Lead
<1>4. CASE Join(c)
  BY <1>4 DEF Join
<1>5. CASE InitEnds(c) \/ StoreValue(c)
  BY <1>5 DEF InitEnds, StoreValue
<1>6. CASE RemoveFlight(c)
  BY <1>6 DEF RemoveFlight
<1>7. CASE Publish(c) \/ Notify(c)
  BY <1>7 DEF Publish, Notify
<1>8. CASE Register(c) \/ Observe(c) \/ WakeUp(c)
  BY <1>8 DEF Register, Observe, WakeUp
<1>9. CASE Cancel(c)
  BY <1>9 DEF Cancel
<1> QED
  BY <1>1, <1>2, <1>3, <1>4, <1>5, <1>6, <1>7, <1>8, <1>9, Zenon DEF TakesLock, Proceeds

\* An initialiser starts only where no value is cached, or only one stored by a
\* leader that was dropped before it published, for any number of callers.
THEOREM RecheckCatchesStaleMiss == Spec => NoInitOnceCached
<1> DEFINE Starts ==
      \A c \in Callers : pc[c] # "init" /\ pc'[c] = "init" /\ value # None =>
        state[value] = "abandoned"
<1>1. Init => RecheckHolds
  BY DEF Init, RecheckHolds
<1>2. Ind /\ RecheckHolds /\ [Next]_vars => RecheckHolds'
  <2>1. ASSUME RecheckHolds, UNCHANGED vars PROVE RecheckHolds'
    BY <2>1 DEF RecheckHolds, vars
  <2> QED BY <2>1, RecheckStep DEF Next
<1>3. Ind /\ RecheckHolds /\ [Next]_vars => [Starts]_vars
  <2> SUFFICES ASSUME Ind, RecheckHolds, Next, NEW c \in Callers,
                      pc[c] # "init", pc'[c] = "init", value # None
               PROVE  state[value] = "abandoned"
    BY DEF vars
  <2>1. Lead(c)
    <3>1. PICK d \in Callers : Call(d) \/ TakesLock(d) \/ Proceeds(d) \/ Cancel(d)
      BY DEF Next
    <3>2. CASE d = c
      BY <3>1, <3>2
         DEF Ind, TypeOK, Move, Return, TakesLock, Proceeds, Call, ReadValue, LockFlights,
             Recheck, Join, InitEnds, StoreValue, RemoveFlight, Publish, Notify, Register,
             Observe, WakeUp, Cancel
    <3>3. CASE d # c
      <4>1. pc'[c] = pc[c]
        BY <3>1, <3>3
           DEF Ind, TypeOK, Move, Return, TakesLock, Proceeds, Call, ReadValue, LockFlights,
               Recheck, Lead, Join, InitEnds, StoreValue, RemoveFlight, Publish, Notify,
               Register, Observe, WakeUp, Cancel
      <4> QED BY <4>1
    <3> QED BY <3>2, <3>3
  <2>2. pc[c] = "rechecked" /\ ~Joinable /\ value \in Callers
    BY <2>1 DEF Lead, Move, Ind, TypeOK
  <2>3. pc[value] # "stored"
    BY <2>2 DEF Ind, FlightOwned, LeaderPhases, Joinable
  <2> QED BY <2>2, <2>3 DEF RecheckHolds
<1> QED BY <1>1, <1>2, <1>3, InitInd, NextInd, PTL DEF Spec, NoInitOnceCached

-----------------------------------------------------------------------------
(* Cold searches *)

USE SearchersAssumption, FlightAssumption

\* A caller is on a flight from joining to leaving.
Placed == \A c \in Searchers : On(c) = NoFlight <=> search[c].pc \in {"idle", "join"}

\* A leader leads the flight of the map, which runs, and every flight that runs
\* has a leader; whoever is about to remove a flight knows that it is over.
Led ==
  /\ \A c \in Searchers : Leading(c) => On(c) = entry /\ flights[On(c)].status = "running"
  /\ \A f \in InUse \ {NoFlight} : flights[f].status = "running" =>
       \E c \in Searchers : Leading(c) /\ On(c) = f
  /\ \A c \in Searchers : At(c, "remove") => flights[On(c)].status # "running"
  /\ \A c \in Searchers : At(c, "publish") => search[c].result \in Complete

SearchInd == SearchInv /\ Placed /\ Led

SearchPcs == {"idle", "join", "recheck", "load", "publish", "notify", "notified",
              "observe", "wait", "leave", "remove"}
Results == {"none", "loaded", "failed", "dropped"}
SearchRecords ==
  [pc : SearchPcs, on : Flights \cup {NoFlight}, result : Results, woken : BOOLEAN]
FlightRecords == [participants : 0 .. Cardinality(Searchers), status : Statuses]

LEMMA SearchTypes ==
  SearchTypeOK <=>
    /\ cached \in BOOLEAN
    /\ entry \in Flights \cup {NoFlight}
    /\ flights \in [Flights -> FlightRecords]
    /\ search \in [Searchers -> SearchRecords]
BY DEF SearchTypeOK, FlightRecords, SearchRecords, SearchPcs, Results

LEMMA SearcherCount == Cardinality(Searchers) \in Nat
BY FS_CardinalityType

\* One field of a caller's locals at a time.
LEMMA FieldSet ==
  ASSUME NEW s \in [Searchers -> SearchRecords], NEW c \in Searchers
  PROVE  /\ \A x \in SearchPcs : [s EXCEPT ![c].pc = x] \in [Searchers -> SearchRecords]
         /\ \A x \in Flights : [s EXCEPT ![c].on = x] \in [Searchers -> SearchRecords]
         /\ \A x \in Results : [s EXCEPT ![c].result = x] \in [Searchers -> SearchRecords]
         /\ \A x \in BOOLEAN : [s EXCEPT ![c].woken = x] \in [Searchers -> SearchRecords]
<1>1. ASSUME NEW x \in SearchPcs PROVE [s EXCEPT ![c].pc = x] \in [Searchers -> SearchRecords]
  BY DEF SearchRecords
<1>2. ASSUME NEW x \in Flights PROVE [s EXCEPT ![c].on = x] \in [Searchers -> SearchRecords]
  BY DEF SearchRecords
<1>3. ASSUME NEW x \in Results PROVE [s EXCEPT ![c].result = x] \in [Searchers -> SearchRecords]
  BY DEF SearchRecords
<1>4. ASSUME NEW x \in BOOLEAN PROVE [s EXCEPT ![c].woken = x] \in [Searchers -> SearchRecords]
  BY DEF SearchRecords
<1> QED BY <1>1, <1>2, <1>3, <1>4

\* What a caller has besides its wake-up.
Alike(s, t, d) == s[d].pc = t[d].pc /\ s[d].on = t[d].on /\ s[d].result = t[d].result

\* The locals s are t, but that c is at this point, on f, with this outcome.
Moved(s, t, c, at, f, outcome) ==
  /\ s \in [Searchers -> SearchRecords]
  /\ s[c].pc = at /\ s[c].on = f /\ s[c].result = outcome
  /\ \A d \in Searchers : d # c => Alike(s, t, d)

LEMMA WakeIs ==
  ASSUME NEW s \in [Searchers -> SearchRecords], NEW f
  PROVE  /\ Wake(f, s) \in [Searchers -> SearchRecords]
         /\ \A d \in Searchers : Alike(Wake(f, s), s, d)
<1>1. ASSUME NEW d \in Searchers PROVE Wake(f, s)[d] \in SearchRecords /\ Alike(Wake(f, s), s, d)
  <2>1. CASE s[d].on = f /\ s[d].pc \in Watching
    <3>1. Wake(f, s)[d] = [s[d] EXCEPT !.woken = TRUE]
      BY <2>1, Zenon DEF Wake
    <3>2. PICK locals \in SearchRecords : locals = s[d]
      OBVIOUS
    <3>3. [locals EXCEPT !.woken = TRUE] \in SearchRecords
      BY DEF SearchRecords
    <3>4. /\ [locals EXCEPT !.woken = TRUE].pc = locals.pc
          /\ [locals EXCEPT !.woken = TRUE].on = locals.on
          /\ [locals EXCEPT !.woken = TRUE].result = locals.result
      BY DEF SearchRecords
    <3> QED BY <3>1, <3>2, <3>3, <3>4 DEF Alike
  <2>2. CASE ~(s[d].on = f /\ s[d].pc \in Watching)
    <3>1. Wake(f, s)[d] = s[d]
      BY <2>2, Zenon DEF Wake
    <3> QED BY <3>1 DEF Alike
  <2> QED BY <2>1, <2>2
<1>2. Wake(f, s) = [d \in Searchers |-> Wake(f, s)[d]]
  BY DEF Wake
<1> QED BY <1>1, <1>2


-----------------------------------------------------------------------------
TakingPcs == {"recheck", "load", "publish", "notify", "notified", "observe", "wait", "leave"}
LeadingPcs == {"recheck", "load", "publish"}

\* The callers that a flight counts.
Takers(s, f) == {d \in Searchers : s[d].on = f /\ s[d].pc \in TakingPcs}

LEMMA TakersCounted ==
  ParticipantsCounted <=>
    \A f \in InUse \ {NoFlight} : flights[f].participants = Cardinality(Takers(search, f))
BY DEF ParticipantsCounted, Takers, TakingPcs, Taking, On

LEMMA TakersFinite ==
  ASSUME NEW s, NEW f
  PROVE  IsFiniteSet(Takers(s, f)) /\ Cardinality(Takers(s, f)) \in 0 .. Cardinality(Searchers)
<1>1. Takers(s, f) \in SUBSET Searchers
  BY DEF Takers
<1> QED BY <1>1, FS_Subset, FS_CardinalityType

LEMMA TakersMove ==
  ASSUME NEW s, NEW t, NEW c \in Searchers, NEW at, NEW f, NEW outcome, NEW g,
         Moved(s, t, c, at, f, outcome)
  PROVE  Takers(s, g) = IF f = g /\ at \in TakingPcs THEN Takers(t, g) \cup {c}
                        ELSE Takers(t, g) \ {c}
BY DEF Moved, Alike, Takers

-----------------------------------------------------------------------------
(* What the steps do *)

\* A step that concerns only c, which keeps its flight and its part in it.
Quiet(c, at, outcome) ==
  /\ Moved(search', search, c, at, On(c), outcome)
  /\ UNCHANGED <<entry, flights>>
  /\ at \in {"idle", "join"} <=> search[c].pc \in {"idle", "join"}
  /\ at \in TakingPcs <=> search[c].pc \in TakingPcs
  /\ at \in LeadingPcs <=> search[c].pc \in LeadingPcs
  /\ at # "remove"
  /\ at = "publish" => outcome \in Complete

\* A leader ends its flight.
Ends(c, at, status, outcome) ==
  /\ search[c].pc \in LeadingPcs
  /\ Moved(search', search, c, at, On(c), outcome)
  /\ at \in TakingPcs \ LeadingPcs
  /\ status \in Statuses \ {"running"}
  /\ flights' = [flights EXCEPT ![On(c)].status = status]
  /\ entry' = entry

LEMMA PcMoves ==
  ASSUME NEW s \in [Searchers -> SearchRecords], NEW c \in Searchers, NEW x \in SearchPcs
  PROVE  Moved([s EXCEPT ![c].pc = x], s, c, x, s[c].on, s[c].result)
<1>1. [s EXCEPT ![c].pc = x] \in [Searchers -> SearchRecords]
  BY FieldSet
<1>2. /\ [s EXCEPT ![c].pc = x][c].pc = x
      /\ [s EXCEPT ![c].pc = x][c].on = s[c].on
      /\ [s EXCEPT ![c].pc = x][c].result = s[c].result
  BY DEF SearchRecords
<1>3. \A d \in Searchers : d # c => Alike([s EXCEPT ![c].pc = x], s, d)
  BY DEF Alike
<1> QED BY <1>1, <1>2, <1>3 DEF Moved

LEMMA OnMoves ==
  ASSUME NEW s \in [Searchers -> SearchRecords], NEW c \in Searchers, NEW x \in Flights
  PROVE  Moved([s EXCEPT ![c].on = x], s, c, s[c].pc, x, s[c].result)
<1>1. [s EXCEPT ![c].on = x] \in [Searchers -> SearchRecords]
  BY FieldSet
<1>2. /\ [s EXCEPT ![c].on = x][c].pc = s[c].pc
      /\ [s EXCEPT ![c].on = x][c].on = x
      /\ [s EXCEPT ![c].on = x][c].result = s[c].result
  BY DEF SearchRecords
<1>3. \A d \in Searchers : d # c => Alike([s EXCEPT ![c].on = x], s, d)
  BY DEF Alike
<1> QED BY <1>1, <1>2, <1>3 DEF Moved

LEMMA ResultMoves ==
  ASSUME NEW s \in [Searchers -> SearchRecords], NEW c \in Searchers, NEW x \in Results
  PROVE  Moved([s EXCEPT ![c].result = x], s, c, s[c].pc, s[c].on, x)
<1>1. [s EXCEPT ![c].result = x] \in [Searchers -> SearchRecords]
  BY FieldSet
<1>2. /\ [s EXCEPT ![c].result = x][c].pc = s[c].pc
      /\ [s EXCEPT ![c].result = x][c].on = s[c].on
      /\ [s EXCEPT ![c].result = x][c].result = x
  BY DEF SearchRecords
<1>3. \A d \in Searchers : d # c => Alike([s EXCEPT ![c].result = x], s, d)
  BY DEF Alike
<1> QED BY <1>1, <1>2, <1>3 DEF Moved

LEMMA WokenMoves ==
  ASSUME NEW s \in [Searchers -> SearchRecords], NEW c \in Searchers, NEW x \in BOOLEAN
  PROVE  Moved([s EXCEPT ![c].woken = x], s, c, s[c].pc, s[c].on, s[c].result)
<1>1. [s EXCEPT ![c].woken = x] \in [Searchers -> SearchRecords]
  BY FieldSet
<1>2. /\ [s EXCEPT ![c].woken = x][c].pc = s[c].pc
      /\ [s EXCEPT ![c].woken = x][c].on = s[c].on
      /\ [s EXCEPT ![c].woken = x][c].result = s[c].result
  BY DEF SearchRecords
<1>3. \A d \in Searchers : d # c => Alike([s EXCEPT ![c].woken = x], s, d)
  BY DEF Alike
<1> QED BY <1>1, <1>2, <1>3 DEF Moved

LEMMA WakeMoves ==
  ASSUME NEW s \in [Searchers -> SearchRecords], NEW c \in Searchers, NEW f
  PROVE  Moved(Wake(f, s), s, c, s[c].pc, s[c].on, s[c].result)
BY WakeIs DEF Moved, Alike

\* Two moves of the same caller are one.
LEMMA MovesCompose ==
  ASSUME NEW s, NEW t, NEW u, NEW c \in Searchers,
         NEW at, NEW f, NEW outcome, NEW pc2, NEW f2, NEW result2,
         Moved(t, s, c, at, f, outcome), Moved(u, t, c, pc2, f2, result2)
  PROVE  Moved(u, s, c, pc2, f2, result2)
BY DEF Moved, Alike

LEMMA GoneMoves ==
  ASSUME search \in [Searchers -> SearchRecords], NEW c \in Searchers
  PROVE  \E at \in {"idle", "join"} : Moved(Gone(c), search, c, at, NoFlight, "none")
<1>1. PICK at \in {"idle", "join"} : Gone(c) = [search EXCEPT ![c] = [NoSearch EXCEPT !.pc = at]]
  BY DEF Gone
<1>2. PICK r \in SearchRecords :
        r = [NoSearch EXCEPT !.pc = at] /\ r.pc = at /\ r.on = NoFlight /\ r.result = "none"
  <2>1. NoSearch \in SearchRecords
    BY DEF NoSearch, SearchRecords, SearchPcs, Results
  <2>2. NoSearch.on = NoFlight /\ NoSearch.result = "none"
    BY DEF NoSearch
  <2>3. PICK none \in SearchRecords : none = NoSearch
    BY <2>1
  <2>4. [none EXCEPT !.pc = at] \in SearchRecords
    BY DEF SearchRecords, SearchPcs
  <2>5. /\ [none EXCEPT !.pc = at].pc = at
        /\ [none EXCEPT !.pc = at].on = none.on
        /\ [none EXCEPT !.pc = at].result = none.result
    BY DEF SearchRecords
  <2> QED BY <2>2, <2>3, <2>4, <2>5
<1>3. Gone(c) = [search EXCEPT ![c] = r]
  BY <1>1, <1>2
<1> QED BY <1>2, <1>3 DEF Moved, Alike

\* What the quiet actions have in common.
LEMMA QuietSteps ==
  ASSUME SearchTypeOK, Placed, NEW c \in Searchers
  PROVE  (\/ RecheckHit(c) \/ RecheckMiss(c) \/ LoadSucceeds(c) \/ LoadFails(c)
          \/ NotifyFollowers(c) \/ CreateNotified(c) \/ ObserveFlight(c)
          \/ FollowerWakes(c) \/ DropFollower(c) \/ Miss(c))
         => \E at \in SearchPcs, outcome \in Results : Quiet(c, at, outcome)
<1> DEFINE s == search
<1>1. s \in [Searchers -> SearchRecords]
  BY SearchTypes
<1>2. ASSUME NEW at \in SearchPcs, NEW outcome \in Results,
             At(c, "load") \/ At(c, "recheck"), at = "publish", outcome \in Complete,
             search' = [search EXCEPT ![c].pc = at, ![c].result = outcome],
             UNCHANGED <<entry, flights>>
      PROVE  Quiet(c, at, outcome)
  <2>1. PICK t \in [Searchers -> SearchRecords] : t = [search EXCEPT ![c].pc = at]
    BY <1>1, FieldSet
  <2>2. search' = [t EXCEPT ![c].result = outcome]
    BY <1>2, <2>1, Zenon
  <2>3. Moved(t, search, c, at, On(c), search[c].result)
    BY <1>1, <2>1, PcMoves DEF On
  <2>4. Moved(search', t, c, t[c].pc, t[c].on, outcome)
    BY <2>1, <2>2, ResultMoves
  <2>5. Moved(search', t, c, at, On(c), outcome)
    BY <2>3, <2>4 DEF Moved
  <2>6. Moved(search', search, c, at, On(c), outcome)
    BY <2>3, <2>5, MovesCompose
  <2> QED BY <1>2, <2>6 DEF Quiet, At, TakingPcs, LeadingPcs
<1>3. ASSUME NEW at \in SearchPcs, NEW wake \in BOOLEAN,
             search' = [search EXCEPT ![c].pc = at, ![c].woken = wake]
      PROVE  Moved(search', search, c, at, On(c), search[c].result)
  <2>1. PICK t \in [Searchers -> SearchRecords] : t = [search EXCEPT ![c].pc = at]
    BY <1>1, FieldSet
  <2>2. search' = [t EXCEPT ![c].woken = wake]
    BY <1>3, <2>1, Zenon
  <2>3. Moved(t, search, c, at, On(c), search[c].result)
    BY <1>1, <2>1, PcMoves DEF On
  <2>4. Moved(search', t, c, t[c].pc, t[c].on, t[c].result)
    BY <2>1, <2>2, WokenMoves
  <2>5. Moved(search', t, c, at, On(c), search[c].result)
    BY <2>3, <2>4 DEF Moved
  <2> QED BY <2>3, <2>5, MovesCompose
<1>4. ASSUME NEW at \in SearchPcs, search' = [search EXCEPT ![c].pc = at]
      PROVE  Moved(search', search, c, at, On(c), search[c].result)
  BY <1>1, <1>4, PcMoves DEF On
<1>5. search[c].result \in Results
  BY <1>1 DEF SearchRecords
<1>6. ASSUME RecheckHit(c) PROVE \E at \in SearchPcs, outcome \in Results : Quiet(c, at, outcome)
  BY <1>6, <1>2 DEF RecheckHit, SearchPcs, Results, Complete
<1>7. ASSUME RecheckMiss(c) PROVE \E at \in SearchPcs, outcome \in Results : Quiet(c, at, outcome)
  <2>1. Quiet(c, "load", search[c].result)
    BY <1>7, <1>4 DEF RecheckMiss, Quiet, At, TakingPcs, LeadingPcs, SearchPcs
  <2> QED BY <1>5, <2>1 DEF SearchPcs
<1>8. ASSUME LoadSucceeds(c) PROVE \E at \in SearchPcs, outcome \in Results : Quiet(c, at, outcome)
  BY <1>8, <1>2 DEF LoadSucceeds, SearchPcs, Results, Complete
<1>9. ASSUME LoadFails(c) PROVE \E at \in SearchPcs, outcome \in Results : Quiet(c, at, outcome)
  BY <1>9, <1>2 DEF LoadFails, SearchPcs, Results, Complete
<1>10. ASSUME NotifyFollowers(c)
       PROVE  \E at \in SearchPcs, outcome \in Results : Quiet(c, at, outcome)
  <2>1. PICK t \in [Searchers -> SearchRecords] : t = [search EXCEPT ![c].pc = "leave"]
    BY <1>1, FieldSet DEF SearchPcs
  <2>2. search' = Wake(On(c), t)
    BY <1>10, <2>1, Zenon DEF NotifyFollowers
  <2>3. Moved(t, search, c, "leave", On(c), search[c].result)
    BY <1>1, <2>1, PcMoves DEF On, SearchPcs
  <2>4. Moved(search', t, c, t[c].pc, t[c].on, t[c].result)
    BY <2>2, WakeMoves
  <2>5. Moved(search', t, c, "leave", On(c), search[c].result)
    BY <2>3, <2>4 DEF Moved
  <2>6. Moved(search', search, c, "leave", On(c), search[c].result)
    BY <2>3, <2>5, MovesCompose
  <2>7. Quiet(c, "leave", search[c].result)
    BY <1>10, <2>6 DEF NotifyFollowers, Quiet, At, TakingPcs, LeadingPcs
  <2> QED BY <1>5, <2>7 DEF SearchPcs
<1>11. ASSUME CreateNotified(c)
       PROVE  \E at \in SearchPcs, outcome \in Results : Quiet(c, at, outcome)
  <2>1. Moved(search', search, c, "observe", On(c), search[c].result)
    BY <1>11, <1>3 DEF CreateNotified, SearchPcs
  <2>2. Quiet(c, "observe", search[c].result)
    BY <1>11, <2>1 DEF CreateNotified, Quiet, At, TakingPcs, LeadingPcs
  <2> QED BY <1>5, <2>2 DEF SearchPcs
<1>12. ASSUME ObserveFlight(c)
       PROVE  \E at \in SearchPcs, outcome \in Results : Quiet(c, at, outcome)
  <2>1. PICK status : status = flights[On(c)].status
    OBVIOUS
  <2>2. PICK at \in {"wait", "leave"} : at = IF status = "running" THEN "wait" ELSE "leave"
    OBVIOUS
  <2>3. PICK outcome \in Results : outcome = IF status \in Complete THEN status ELSE "none"
    BY DEF Results, Complete
  <2>4. PICK t \in [Searchers -> SearchRecords] : t = [search EXCEPT ![c].pc = at]
    BY <1>1, FieldSet DEF SearchPcs
  <2>5. PICK u \in [Searchers -> SearchRecords] :
          u = [t EXCEPT ![c].woken = @ /\ status = "running"]
        /\ Moved(u, t, c, t[c].pc, t[c].on, t[c].result)
    <3>1. t[c].woken \in BOOLEAN
      BY DEF SearchRecords
    <3>2. (t[c].woken /\ status = "running") \in BOOLEAN
      OBVIOUS
    <3>3. PICK wake \in BOOLEAN : wake = (t[c].woken /\ status = "running")
      BY <3>2, Zenon
    <3>4. [t EXCEPT ![c].woken = wake] \in [Searchers -> SearchRecords]
      BY FieldSet
    <3>5. [t EXCEPT ![c].woken = @ /\ status = "running"] = [t EXCEPT ![c].woken = wake]
      BY <3>3, Zenon
    <3>6. Moved([t EXCEPT ![c].woken = wake], t, c, t[c].pc, t[c].on, t[c].result)
      BY WokenMoves
    <3> QED BY <3>4, <3>5, <3>6, Zenon
  <2>6. search' = [u EXCEPT ![c].result = outcome]
    <3>1. search' = [search EXCEPT ![c].pc = at, ![c].woken = @ /\ status = "running",
                                   ![c].result = outcome]
      BY <1>12, <2>1, <2>2, <2>3, Zenon DEF ObserveFlight
    <3>2. search' = [t EXCEPT ![c].woken = @ /\ status = "running", ![c].result = outcome]
      BY <2>4, <3>1, Zenon
    <3> QED BY <2>5, <3>2, Zenon
  <2>7. Moved(t, search, c, at, On(c), search[c].result)
    BY <1>1, <2>2, <2>4, PcMoves DEF On, SearchPcs
  <2>8. Moved(u, search, c, at, On(c), search[c].result)
    <3>1. Moved(u, t, c, at, On(c), search[c].result)
      BY <2>5, <2>7 DEF Moved
    <3> QED BY <2>7, <3>1, MovesCompose
  <2>9. Moved(search', search, c, at, On(c), outcome)
    <3>1. Moved(search', u, c, u[c].pc, u[c].on, outcome)
      BY <2>5, <2>6, ResultMoves
    <3>2. Moved(search', u, c, at, On(c), outcome)
      BY <2>8, <3>1 DEF Moved
    <3> QED BY <2>8, <3>2, MovesCompose
  <2>10. Quiet(c, at, outcome)
    BY <1>12, <2>2, <2>9 DEF ObserveFlight, Quiet, At, TakingPcs, LeadingPcs
  <2> QED BY <2>2, <2>3, <2>10 DEF SearchPcs
<1>13. ASSUME FollowerWakes(c)
       PROVE  \E at \in SearchPcs, outcome \in Results : Quiet(c, at, outcome)
  <2>1. Moved(search', search, c, "notified", On(c), search[c].result)
    BY <1>13, <1>3 DEF FollowerWakes, SearchPcs
  <2>2. Quiet(c, "notified", search[c].result)
    BY <1>13, <2>1 DEF FollowerWakes, Quiet, At, TakingPcs, LeadingPcs
  <2> QED BY <1>5, <2>2 DEF SearchPcs
<1>14. ASSUME DropFollower(c)
       PROVE  \E at \in SearchPcs, outcome \in Results : Quiet(c, at, outcome)
  <2>1. PICK t \in [Searchers -> SearchRecords] : t = [search EXCEPT ![c].pc = "leave"]
    BY <1>1, FieldSet DEF SearchPcs
  <2>2. PICK u \in [Searchers -> SearchRecords] : u = [t EXCEPT ![c].result = "dropped"]
    BY <2>1, FieldSet DEF Results
  <2>3. search' = [u EXCEPT ![c].woken = FALSE]
    BY <1>14, <2>1, <2>2, Zenon DEF DropFollower
  <2>4. Moved(t, search, c, "leave", On(c), search[c].result)
    BY <1>1, <2>1, PcMoves DEF On, SearchPcs
  <2>5. Moved(u, search, c, "leave", On(c), "dropped")
    <3>1. Moved(u, t, c, t[c].pc, t[c].on, "dropped")
      BY <2>1, <2>2, ResultMoves DEF Results
    <3>2. Moved(u, t, c, "leave", On(c), "dropped")
      BY <2>4, <3>1 DEF Moved
    <3> QED BY <2>4, <3>2, MovesCompose
  <2>6. Moved(search', search, c, "leave", On(c), "dropped")
    <3>1. Moved(search', u, c, u[c].pc, u[c].on, u[c].result)
      BY <2>2, <2>3, WokenMoves
    <3>2. Moved(search', u, c, "leave", On(c), "dropped")
      BY <2>5, <3>1 DEF Moved
    <3> QED BY <2>5, <3>2, MovesCompose
  <2>7. Quiet(c, "leave", "dropped")
    BY <1>14, <2>6 DEF DropFollower, Quiet, At, TakingPcs, LeadingPcs
  <2> QED BY <2>7 DEF SearchPcs, Results
<1>15. ASSUME Miss(c) PROVE \E at \in SearchPcs, outcome \in Results : Quiet(c, at, outcome)
  <2>1. Moved(search', search, c, "join", On(c), search[c].result)
    BY <1>15, <1>4 DEF Miss, SearchPcs
  <2>2. Quiet(c, "join", search[c].result)
    BY <1>15, <2>1 DEF Miss, Quiet, At, TakingPcs, LeadingPcs
  <2> QED BY <1>5, <2>2 DEF SearchPcs
<1> QED BY <1>6, <1>7, <1>8, <1>9, <1>10, <1>11, <1>12, <1>13, <1>14, <1>15

LEMMA EndSteps ==
  ASSUME SearchTypeOK, Led, NEW c \in Searchers, PublishResult(c) \/ DropLeader(c)
  PROVE  \E at \in SearchPcs, status \in Statuses, outcome \in Results :
           Ends(c, at, status, outcome)
<1>1. search \in [Searchers -> SearchRecords]
  BY SearchTypes
<1>2. CASE PublishResult(c)
  <2>1. search[c].result \in Complete
    BY <1>2 DEF PublishResult, Led
  <2>2. Moved(search', search, c, "notify", On(c), search[c].result)
    BY <1>1, <1>2, PcMoves DEF PublishResult, On, SearchPcs
  <2>3. Ends(c, "notify", search[c].result, search[c].result)
    BY <1>2, <2>1, <2>2 DEF PublishResult, Ends, At, TakingPcs, LeadingPcs, Statuses, Complete
  <2> QED BY <2>1, <2>3 DEF SearchPcs, Statuses, Results, Complete
<1>3. CASE DropLeader(c)
  <2>1. PICK t \in [Searchers -> SearchRecords] : t = [search EXCEPT ![c].pc = "leave"]
    BY <1>1, FieldSet DEF SearchPcs
  <2>2. PICK u \in [Searchers -> SearchRecords] : u = [t EXCEPT ![c].result = "dropped"]
    BY <2>1, FieldSet DEF Results
  <2>3. search' = Wake(On(c), u)
    BY <1>3, <2>1, <2>2, Zenon DEF DropLeader
  <2>4. Moved(t, search, c, "leave", On(c), search[c].result)
    BY <1>1, <2>1, PcMoves DEF On, SearchPcs
  <2>5. Moved(u, search, c, "leave", On(c), "dropped")
    <3>1. Moved(u, t, c, t[c].pc, t[c].on, "dropped")
      BY <2>1, <2>2, ResultMoves DEF Results
    <3>2. Moved(u, t, c, "leave", On(c), "dropped")
      BY <2>4, <3>1 DEF Moved
    <3> QED BY <2>4, <3>2, MovesCompose
  <2>6. Moved(search', search, c, "leave", On(c), "dropped")
    <3>1. Moved(search', u, c, u[c].pc, u[c].on, u[c].result)
      BY <2>2, <2>3, WakeMoves
    <3>2. Moved(search', u, c, "leave", On(c), "dropped")
      BY <2>5, <3>1 DEF Moved
    <3> QED BY <2>5, <3>2, MovesCompose
  <2>7. Ends(c, "leave", "abandoned", "dropped")
    BY <1>3, <2>6 DEF DropLeader, Ends, TakingPcs, LeadingPcs, Statuses
  <2> QED BY <2>7 DEF SearchPcs, Statuses, Results
<1> QED BY <1>2, <1>3

LEMMA JoinMoves ==
  ASSUME SearchTypeOK, NEW c \in Searchers, JoinSearch(c)
  PROVE  Moved(search', search, c, "notified", entry, search[c].result)
<1>1. search \in [Searchers -> SearchRecords] /\ entry \in Flights
  BY SearchTypes DEF JoinSearch, SearchJoinable
<1>2. PICK t \in [Searchers -> SearchRecords] : t = [search EXCEPT ![c].pc = "notified"]
  BY <1>1, FieldSet DEF SearchPcs
<1>3. search' = [t EXCEPT ![c].on = entry]
  BY <1>2, Zenon DEF JoinSearch
<1>4. Moved(t, search, c, "notified", On(c), search[c].result)
  BY <1>1, <1>2, PcMoves DEF On, SearchPcs
<1>5. Moved(search', t, c, t[c].pc, entry, t[c].result)
  BY <1>1, <1>2, <1>3, OnMoves
<1>6. Moved(search', t, c, "notified", entry, search[c].result)
  BY <1>4, <1>5 DEF Moved
<1> QED BY <1>4, <1>6, MovesCompose

\* There are more flights than callers, and one that joins has none.
LEMMA FreshExists ==
  ASSUME SearchTypeOK, Placed, NEW c \in Searchers, At(c, "join")
  PROVE  Fresh \in Flights \ InUse
<1>1. search \in [Searchers -> SearchRecords]
  BY SearchTypes
<1>2. On(c) = NoFlight
  BY DEF Placed, At
<1>3. ASSUME Flights \subseteq InUse PROVE FALSE
  <2> DEFINE used == [d \in Searchers |-> IF d = c THEN entry ELSE On(d)]
  <2> DEFINE Used == {used[d] : d \in Searchers}
  <2>1. used \in Surjection(Searchers, Used)
    BY DEF Surjection
  <2>2. IsFiniteSet(Used) /\ Cardinality(Used) <= Cardinality(Searchers)
    <3> HIDE DEF used
    <3> HIDE DEF Used
    <3> QED BY <2>1, FS_Surjection
  <2>3. Flights \in SUBSET Used
    <3>1. ASSUME NEW f \in Flights PROVE f \in Used
      <4>1. f = entry \/ \E d \in Searchers : f = On(d)
        BY <1>3 DEF InUse
      <4>2. CASE f = entry
        BY <4>2
      <4>3. ASSUME NEW d \in Searchers, f = On(d) PROVE f \in Used
        BY <1>2, <4>3
      <4> QED BY <4>1, <4>2, <4>3
    <3> HIDE DEF Used
    <3> QED BY <3>1
  <2>4. Cardinality(Flights) <= Cardinality(Used)
    <3> HIDE DEF Used
    <3> QED BY <2>2, <2>3, FS_Subset
  <2>5. Cardinality(Flights) = Cardinality(Searchers) + 1
    <3>1. Cardinality(Searchers) + 1 \in Int /\ 1 \in Int /\ ~(1 > Cardinality(Searchers) + 1)
      BY SearcherCount
    <3> QED BY <3>1, SearcherCount, FS_Interval DEF Flights
  <2>6. Cardinality(Used) \in Nat
    <3> HIDE DEF Used
    <3> QED BY <2>2, FS_CardinalityType
  <2> HIDE DEF Used
  <2> QED BY <2>2, <2>4, <2>5, <2>6, SearcherCount
<1> QED BY <1>3 DEF Fresh

LEMMA LeadMoves ==
  ASSUME SearchTypeOK, Placed, NEW c \in Searchers, LeadSearch(c)
  PROVE  Moved(search', search, c, "recheck", Fresh, search[c].result)
<1>1. search \in [Searchers -> SearchRecords] /\ Fresh \in Flights
  BY SearchTypes, FreshExists DEF LeadSearch
<1>2. PICK t \in [Searchers -> SearchRecords] : t = [search EXCEPT ![c].pc = "recheck"]
  BY <1>1, FieldSet DEF SearchPcs
<1>3. search' = [t EXCEPT ![c].on = Fresh]
  BY <1>2, Zenon DEF LeadSearch
<1>4. Moved(t, search, c, "recheck", On(c), search[c].result)
  BY <1>1, <1>2, PcMoves DEF On, SearchPcs
<1>5. Moved(search', t, c, t[c].pc, Fresh, t[c].result)
  BY <1>1, <1>2, <1>3, OnMoves
<1>6. Moved(search', t, c, "recheck", Fresh, search[c].result)
  BY <1>4, <1>5 DEF Moved
<1> QED BY <1>4, <1>6, MovesCompose

-----------------------------------------------------------------------------
(* The invariant, kind of step by kind of step *)

LEMMA SearchInitInd == SearchInit => SearchInd
<1> SUFFICES ASSUME SearchInit PROVE SearchInd
  OBVIOUS
<1>1. NoSearch \in SearchRecords /\ NoSearch.pc = "idle" /\ NoSearch.on = NoFlight
  BY DEF NoSearch, SearchRecords, SearchPcs, Results
<1>2. NoParticipants \in FlightRecords
  BY SearcherCount DEF NoParticipants, FlightRecords, Statuses
<1>3. search \in [Searchers -> SearchRecords] /\ flights \in [Flights -> FlightRecords]
  BY <1>1, <1>2 DEF SearchInit
<1>4. \A c \in Searchers : search[c].pc = "idle" /\ On(c) = NoFlight
  BY <1>1 DEF SearchInit, On
<1>5. entry = NoFlight /\ cached \in BOOLEAN
  BY DEF SearchInit
<1>6. SearchTypeOK
  BY <1>3, <1>5, SearchTypes
<1>7. InUse \ {NoFlight} = {}
  BY <1>4, <1>5 DEF InUse
<1> QED BY <1>4, <1>5, <1>6, <1>7
     DEF SearchInd, SearchInv, OneLeader, ParticipantsCounted, NoKeyLeft, Placed, Led,
         Leading, At

LEMMA QuietKeeps ==
  ASSUME SearchInd, cached' \in BOOLEAN, NEW c \in Searchers, NEW at \in SearchPcs,
         NEW outcome \in Results, Quiet(c, at, outcome)
  PROVE  SearchInd'
<1> USE DEF Leading, Taking, LeadingPcs, TakingPcs, On, At
<1>1. SearchTypeOK /\ Placed /\ Led /\ OneLeader /\ ParticipantsCounted /\ NoKeyLeft
  BY DEF SearchInd, SearchInv
<1>2. /\ search' \in [Searchers -> SearchRecords] /\ entry' = entry /\ flights' = flights
      /\ Moved(search', search, c, at, On(c), outcome)
  BY DEF Quiet, Moved
<1>3. SearchTypeOK'
  BY <1>1, <1>2, SearchTypes, Zenon DEF SearchTypeOK, SearchRecords, SearchPcs, Results
<1>4. ASSUME NEW d \in Searchers
      PROVE  /\ On(d)' = On(d)
             /\ Leading(d)' <=> Leading(d)
             /\ Taking(d)' <=> Taking(d)
             /\ search'[d].pc \in {"idle", "join"} <=> search[d].pc \in {"idle", "join"}
             /\ At(d, "remove")' => At(d, "remove") /\ d # c
             /\ At(d, "publish")' => \/ At(d, "publish") /\ search'[d].result = search[d].result
                                     \/ search'[d].result \in Complete
             /\ At(d, "remove") /\ d # c => At(d, "remove")'
  BY <1>2 DEF Quiet, Moved, Alike
<1>5. InUse' = InUse
  BY <1>2, <1>4 DEF InUse
<1>6. \A f : Takers(search', f) = Takers(search, f)
  BY <1>4 DEF Takers
<1>7. OneLeader' /\ Placed'
  BY <1>1, <1>4 DEF OneLeader, Placed
<1>8. ParticipantsCounted'
  BY <1>1, <1>2, <1>5, <1>6, TakersCounted DEF ParticipantsCounted, Takers
<1>9. NoKeyLeft'
  <2>1. ~At(c, "remove")
    <3>1. At(c, "remove") => at \in {"idle", "join"} \/ at = "remove" \/ at \in TakingPcs
      BY DEF SearchPcs
    <3> QED BY <3>1 DEF Quiet
  <2> QED BY <1>1, <1>2, <1>4, <2>1 DEF NoKeyLeft
<1>10. Led'
  BY <1>1, <1>2, <1>4, <1>5 DEF Led
<1> QED BY <1>3, <1>7, <1>8, <1>9, <1>10 DEF SearchInd, SearchInv

LEMMA EndKeeps ==
  ASSUME SearchInd, cached' \in BOOLEAN, NEW c \in Searchers, NEW at \in SearchPcs,
         NEW status \in Statuses, NEW outcome \in Results, Ends(c, at, status, outcome)
  PROVE  SearchInd'
<1> USE DEF Leading, Taking, LeadingPcs, TakingPcs, On, At
<1>1. SearchTypeOK /\ Placed /\ Led /\ OneLeader /\ ParticipantsCounted /\ NoKeyLeft
  BY DEF SearchInd, SearchInv
<1>2. /\ search' \in [Searchers -> SearchRecords] /\ entry' = entry
      /\ Moved(search', search, c, at, On(c), outcome)
      /\ flights' = [flights EXCEPT ![On(c)].status = status]
      /\ status # "running"
  BY DEF Ends, Moved
<1>3. flights \in [Flights -> FlightRecords] /\ On(c) \in Flights
  BY <1>1, SearchTypes DEF Placed, Ends, SearchRecords
<1>4. /\ flights' \in [Flights -> FlightRecords]
      /\ \A f \in Flights : flights'[f].participants = flights[f].participants
      /\ \A f \in Flights : f # On(c) => flights'[f].status = flights[f].status
      /\ flights'[On(c)].status = status
  BY <1>2, <1>3 DEF FlightRecords
<1>5. SearchTypeOK'
  BY <1>1, <1>2, <1>4, SearchTypes, Zenon DEF SearchTypeOK, SearchRecords, SearchPcs, Results,
     FlightRecords
<1>6. ASSUME NEW d \in Searchers
      PROVE  /\ On(d)' = On(d)
             /\ Leading(d)' <=> Leading(d) /\ d # c
             /\ Taking(d)' <=> Taking(d)
             /\ search'[d].pc \in {"idle", "join"} <=> search[d].pc \in {"idle", "join"}
             /\ At(d, "remove")' <=> At(d, "remove")
             /\ At(d, "publish")' => At(d, "publish") /\ search'[d].result = search[d].result
  BY <1>2 DEF Ends, Moved, Alike
<1>7. InUse' = InUse /\ InUse \subseteq Flights \cup {NoFlight}
  BY <1>1, <1>2, <1>6, SearchTypes DEF InUse, SearchRecords
<1>8. \A f : Takers(search', f) = Takers(search, f)
  BY <1>6 DEF Takers
<1>9. OneLeader' /\ Placed'
  BY <1>1, <1>6 DEF OneLeader, Placed
<1>10. ParticipantsCounted'
  BY <1>1, <1>4, <1>7, <1>8, TakersCounted DEF ParticipantsCounted, Takers
<1>11. NoKeyLeft'
  BY <1>1, <1>2, <1>6 DEF NoKeyLeft
<1>12. Led'
  <2>1. \A d \in Searchers : ~Leading(d)'
    BY <1>1, <1>6 DEF OneLeader, Ends
  <2>2. \A f \in InUse' \ {NoFlight} : flights'[f].status # "running"
    <3>1. ASSUME NEW f \in InUse \ {NoFlight} PROVE flights'[f].status # "running"
      <4>1. CASE f = On(c)
        BY <1>2, <1>4, <4>1
      <4>2. CASE f # On(c)
        BY <1>1, <1>4, <1>7, <4>2 DEF Led, OneLeader, Ends
      <4> QED BY <4>1, <4>2
    <3> QED BY <1>7, <3>1
  <2>3. ASSUME NEW d \in Searchers, At(d, "remove")' PROVE flights'[On(d)'].status # "running"
    <3>1. On(d)' \in InUse' \ {NoFlight}
      BY <1>1, <1>6, <2>3 DEF InUse, Placed
    <3> QED BY <2>2, <3>1
  <2>4. \A d \in Searchers : At(d, "publish")' => search'[d].result \in Complete
    BY <2>1
  <2> QED BY <2>1, <2>2, <2>3, <2>4 DEF Led
<1> QED BY <1>5, <1>9, <1>10, <1>11, <1>12 DEF SearchInd, SearchInv

LEMMA JoinKeeps ==
  ASSUME SearchInd, cached' \in BOOLEAN, NEW c \in Searchers, JoinSearch(c)
  PROVE  SearchInd'
<1> USE DEF Leading, Taking, LeadingPcs, TakingPcs, On, At
<1>1. SearchTypeOK /\ Placed /\ Led /\ OneLeader /\ ParticipantsCounted /\ NoKeyLeft
  BY DEF SearchInd, SearchInv
<1>2. /\ entry' = entry
      /\ flights' = [flights EXCEPT ![entry].participants = @ + 1]
      /\ search[c].pc = "join"
      /\ Moved(search', search, c, "notified", entry, search[c].result)
      /\ search' \in [Searchers -> SearchRecords]
  BY <1>1, JoinMoves DEF JoinSearch, Moved
<1>3. flights \in [Flights -> FlightRecords] /\ entry \in Flights
  BY <1>1, SearchTypes DEF JoinSearch, SearchJoinable
<1>4. entry \in InUse \ {NoFlight} /\ search[c].on = NoFlight
  BY <1>1, <1>2, <1>3 DEF InUse, Placed
<1>5. /\ IsFiniteSet(Takers(search, entry)) /\ c \notin Takers(search, entry)
      /\ flights[entry].participants = Cardinality(Takers(search, entry))
      /\ Takers(search', entry) = Takers(search, entry) \cup {c}
      /\ \A f : f # entry => Takers(search', f) = Takers(search, f)
  <2>1. c \notin Takers(search, entry) /\ \A f : f # entry => c \notin Takers(search, f)
    BY <1>2 DEF Takers
  <2>2. /\ Takers(search', entry) = Takers(search, entry) \cup {c}
        /\ \A f : f # entry => Takers(search', f) = Takers(search, f) \ {c}
    BY <1>2, TakersMove
  <2> QED BY <1>1, <1>4, <2>1, <2>2, TakersCounted, TakersFinite
<1>6. /\ Cardinality(Takers(search', entry)) = flights[entry].participants + 1
      /\ Cardinality(Takers(search', entry)) \in 0 .. Cardinality(Searchers)
  BY <1>5, FS_AddElement, TakersFinite
<1>7. /\ flights' \in [Flights -> FlightRecords]
      /\ \A f \in Flights : f # entry => flights'[f].participants = flights[f].participants
      /\ \A f \in Flights : flights'[f].status = flights[f].status
      /\ flights'[entry].participants = Cardinality(Takers(search', entry))
  <2>1. PICK n \in 0 .. Cardinality(Searchers) : n = flights[entry].participants + 1
    BY <1>6
  <2>2. flights' = [flights EXCEPT ![entry].participants = n]
    BY <1>2, <2>1, Zenon
  <2> QED BY <1>3, <1>6, <2>1, <2>2 DEF FlightRecords
<1>8. SearchTypeOK'
  BY <1>1, <1>2, <1>7, SearchTypes, Zenon DEF SearchTypeOK, SearchRecords, SearchPcs, Results,
     FlightRecords
<1>9. ASSUME NEW d \in Searchers
      PROVE  /\ d # c => On(d)' = On(d)
             /\ Leading(d)' <=> Leading(d)
             /\ Leading(d) => d # c
             /\ Taking(d)' <=> Taking(d) \/ d = c
             /\ search'[d].pc \in {"idle", "join"} <=> search[d].pc \in {"idle", "join"} /\ d # c
             /\ At(d, "remove")' <=> At(d, "remove")
             /\ At(d, "remove") => d # c
             /\ At(d, "publish")' => At(d, "publish") /\ search'[d].result = search[d].result
  BY <1>2 DEF Moved, Alike
<1>10. On(c)' = entry
  BY <1>2 DEF Moved
<1>11. InUse' \subseteq InUse /\ InUse \subseteq Flights \cup {NoFlight}
  BY <1>1, <1>2, <1>9, <1>10, SearchTypes DEF InUse, SearchRecords
<1>12. OneLeader' /\ Placed'
  BY <1>1, <1>3, <1>9, <1>10 DEF OneLeader, Placed
<1>13. ParticipantsCounted'
  <2>1. ASSUME NEW f \in InUse' \ {NoFlight}
        PROVE  flights'[f].participants = Cardinality(Takers(search', f))
    BY <1>1, <1>5, <1>7, <1>11, TakersCounted
  <2> QED BY <2>1 DEF ParticipantsCounted, Takers
<1>14. NoKeyLeft'
  BY <1>2, <1>9, <1>10 DEF NoKeyLeft
<1>15. Led'
  <2>1. \A d \in Searchers : Leading(d)' => On(d)' = entry' /\ flights'[On(d)'].status = "running"
    BY <1>1, <1>2, <1>3, <1>7, <1>9 DEF Led
  <2>2. \A f \in InUse' \ {NoFlight} : flights'[f].status = "running" =>
           \E d \in Searchers : Leading(d)' /\ On(d)' = f
    BY <1>1, <1>7, <1>9, <1>11 DEF Led
  <2>3. ASSUME NEW d \in Searchers, At(d, "remove")' PROVE flights'[On(d)'].status # "running"
    <3>1. On(d)' = On(d) /\ On(d) \in Flights
      BY <1>1, <1>9, <1>11, <2>3 DEF InUse, Placed
    <3> QED BY <1>1, <1>7, <1>9, <2>3, <3>1 DEF Led
  <2>4. \A d \in Searchers : At(d, "publish")' => search'[d].result \in Complete
    BY <1>1, <1>9 DEF Led
  <2> QED BY <2>1, <2>2, <2>3, <2>4 DEF Led
<1> QED BY <1>8, <1>12, <1>13, <1>14, <1>15 DEF SearchInd, SearchInv

LEMMA LeadKeeps ==
  ASSUME SearchInd, cached' \in BOOLEAN, NEW c \in Searchers, LeadSearch(c)
  PROVE  SearchInd'
<1> USE DEF Leading, Taking, LeadingPcs, TakingPcs, On, At
<1>1. SearchTypeOK /\ Placed /\ Led /\ OneLeader /\ ParticipantsCounted /\ NoKeyLeft
  BY DEF SearchInd, SearchInv
<1>2. PICK new \in Flights \ InUse : new = Fresh
  BY <1>1, FreshExists DEF LeadSearch
<1>3. /\ entry' = new
      /\ flights' = [flights EXCEPT ![new] = [participants |-> 1, status |-> "running"]]
      /\ search[c].pc = "join"
      /\ Moved(search', search, c, "recheck", new, search[c].result)
      /\ search' \in [Searchers -> SearchRecords]
  BY <1>1, <1>2, LeadMoves DEF LeadSearch, Moved
<1>4. flights \in [Flights -> FlightRecords] /\ search[c].on = NoFlight
      /\ entry \in Flights \cup {NoFlight}
  BY <1>1, <1>3, SearchTypes DEF Placed
<1>5. /\ Takers(search, new) = {}
      /\ Takers(search', new) = {c}
      /\ \A f : f # new => Takers(search', f) = Takers(search, f)
  <2>1. Takers(search, new) = {} /\ \A f : c \notin Takers(search, f)
    BY <1>2, <1>3 DEF Takers, InUse
  <2>2. /\ Takers(search', new) = Takers(search, new) \cup {c}
        /\ \A f : f # new => Takers(search', f) = Takers(search, f) \ {c}
    BY <1>3, TakersMove
  <2> QED BY <2>1, <2>2
<1>6. Cardinality(Takers(search', new)) = 1 /\ 1 \in 0 .. Cardinality(Searchers)
  BY <1>5, FS_Singleton, TakersFinite
<1>7. /\ flights' \in [Flights -> FlightRecords]
      /\ \A f \in Flights : f # new => flights'[f] = flights[f]
      /\ flights'[new].participants = 1 /\ flights'[new].status = "running"
  BY <1>3, <1>4, <1>6 DEF FlightRecords, Statuses
<1>8. SearchTypeOK'
  <2>1. entry' \in Flights \cup {NoFlight}
    BY <1>3
  <2> QED BY <2>1, <1>1, <1>3, <1>7, SearchTypes, Zenon DEF SearchTypeOK, SearchRecords,
             SearchPcs, Results, FlightRecords
<1>9. ASSUME NEW d \in Searchers
      PROVE  /\ d # c => On(d)' = On(d)
             /\ Leading(d)' <=> Leading(d) \/ d = c
             /\ Taking(d)' <=> Taking(d) \/ d = c
             /\ search'[d].pc \in {"idle", "join"} <=> search[d].pc \in {"idle", "join"} /\ d # c
             /\ At(d, "remove")' => At(d, "remove") /\ d # c
             /\ At(d, "publish")' => At(d, "publish") /\ search'[d].result = search[d].result
  BY <1>3 DEF Moved, Alike
<1>10. On(c)' = new
  BY <1>3 DEF Moved
<1>11. InUse' \subseteq InUse \cup {new} /\ InUse \subseteq Flights \cup {NoFlight}
  BY <1>1, <1>3, <1>9, <1>10, SearchTypes DEF InUse, SearchRecords
<1>12. \A d \in Searchers : ~Leading(d)
  <2>1. ASSUME NEW d \in Searchers, Leading(d) PROVE FALSE
    <3>1. On(d) = entry /\ flights[entry].status = "running" /\ entry # NoFlight
      BY <1>1, <2>1 DEF Led, Placed
    <3> QED BY <3>1 DEF LeadSearch, SearchJoinable
  <2> QED BY <2>1
<1>13. OneLeader'
  BY <1>9, <1>12 DEF OneLeader
<1>14. Placed'
  BY <1>1, <1>2, <1>9, <1>10 DEF Placed
<1>15. ParticipantsCounted'
  <2>1. ASSUME NEW f \in InUse' \ {NoFlight}
        PROVE  flights'[f].participants = Cardinality(Takers(search', f))
    <3>1. CASE f = new
      BY <1>6, <1>7, <3>1
    <3>2. CASE f # new
      BY <1>1, <1>5, <1>7, <1>11, <3>2, TakersCounted
    <3> QED BY <3>1, <3>2
  <2> QED BY <2>1 DEF ParticipantsCounted, Takers
<1>16. NoKeyLeft'
  BY <1>3, <1>9, <1>10 DEF NoKeyLeft
<1>17. Led'
  <2>1. \A d \in Searchers : Leading(d)' => On(d)' = entry' /\ flights'[On(d)'].status = "running"
    BY <1>3, <1>7, <1>9, <1>10, <1>12
  <2>2. \A f \in InUse' \ {NoFlight} : flights'[f].status = "running" =>
           \E d \in Searchers : Leading(d)' /\ On(d)' = f
    <3>1. ASSUME NEW f \in InUse' \ {NoFlight}, flights'[f].status = "running" PROVE f = new
      BY <1>1, <1>7, <1>11, <1>12, <3>1 DEF Led
    <3> QED BY <1>9, <1>10, <3>1
  <2>3. ASSUME NEW d \in Searchers, At(d, "remove")' PROVE flights'[On(d)'].status # "running"
    <3>1. On(d)' = On(d) /\ On(d) \in Flights /\ On(d) # new
      BY <1>1, <1>2, <1>9, <1>11, <2>3 DEF InUse, Placed
    <3> QED BY <1>1, <1>7, <1>9, <2>3, <3>1 DEF Led
  <2>4. \A d \in Searchers : At(d, "publish")' => search'[d].result \in Complete
    BY <1>1, <1>9 DEF Led
  <2> QED BY <2>1, <2>2, <2>3, <2>4 DEF Led
<1> QED BY <1>8, <1>13, <1>14, <1>15, <1>16, <1>17 DEF SearchInd, SearchInv

LEMMA LeaveKeeps ==
  ASSUME SearchInd, cached' \in BOOLEAN, NEW c \in Searchers, LeaveFlight(c)
  PROVE  SearchInd'
<1> USE DEF Leading, Taking, LeadingPcs, TakingPcs, On, At
<1>1. SearchTypeOK /\ Placed /\ Led /\ OneLeader /\ ParticipantsCounted /\ NoKeyLeft
  BY DEF SearchInd, SearchInv
<1>2. search[c].pc = "leave" /\ entry' = entry
  BY DEF LeaveFlight
<1>3. /\ search \in [Searchers -> SearchRecords]
      /\ flights \in [Flights -> FlightRecords]
      /\ InUse \subseteq Flights \cup {NoFlight}
  BY <1>1, SearchTypes DEF InUse, SearchRecords
<1>4. PICK old \in Flights : old = On(c) /\ old \in InUse \ {NoFlight}
  BY <1>1, <1>2, <1>3 DEF Placed, InUse
<1>5. PICK left : left = flights[old].participants - 1
  OBVIOUS
<1>6. flights' = [flights EXCEPT ![old].participants = left]
  BY <1>4, <1>5, Zenon DEF LeaveFlight
<1>7. /\ IsFiniteSet(Takers(search, old))
      /\ c \in Takers(search, old)
      /\ flights[old].participants = Cardinality(Takers(search, old))
      /\ left = Cardinality(Takers(search, old) \ {c})
      /\ left \in 0 .. Cardinality(Searchers)
  <2>0. c \in Takers(search, old)
    BY <1>2, <1>4 DEF Takers
  <2>1. c \in Takers(search, old) /\ IsFiniteSet(Takers(search, old))
    BY <2>0, TakersFinite
  <2>2. flights[old].participants = Cardinality(Takers(search, old))
    BY <1>1, <1>4, TakersCounted
  <2>3. left = Cardinality(Takers(search, old) \ {c})
    BY <1>5, <2>1, <2>2, FS_RemoveElement
  <2>4. left \in Nat
    BY <2>1, <2>3, FS_RemoveElement, FS_CardinalityType
  <2>5. Cardinality(Takers(search, old)) \in 0 .. Cardinality(Searchers)
    BY TakersFinite
  <2> QED BY <1>5, <2>1, <2>2, <2>3, <2>4, <2>5, SearcherCount
<1>8. /\ flights' \in [Flights -> FlightRecords]
      /\ \A f \in Flights : f # old => flights'[f] = flights[f]
      /\ \A f \in Flights : flights'[f].status = flights[f].status
      /\ flights'[old].participants = left
  BY <1>3, <1>6, <1>7 DEF FlightRecords
<1>9. \E at \in {"idle", "join", "remove"}, f \in {old, NoFlight}, outcome \in Results :
        /\ Moved(search', search, c, at, f, outcome)
        /\ at = "remove" <=> left = 0
        /\ f = NoFlight <=> at # "remove"
  <2>1. CASE left = 0
    <3>1. search' = [search EXCEPT ![c].pc = "remove"]
      BY <1>4, <1>5, <2>1, Zenon DEF LeaveFlight
    <3>2. Moved(search', search, c, "remove", old, search[c].result)
      BY <1>3, <1>4, <3>1, PcMoves DEF SearchPcs
    <3>3. search[c].result \in Results
      BY <1>3 DEF SearchRecords
    <3> QED BY <1>4, <2>1, <3>2, <3>3
  <2>2. CASE left # 0
    <3>1. search' = Gone(c)
      BY <1>4, <1>5, <2>2, Zenon DEF LeaveFlight
    <3>2. PICK at \in {"idle", "join"} : Moved(search', search, c, at, NoFlight, "none")
      BY <1>3, <3>1, GoneMoves
    <3> QED BY <1>4, <2>2, <3>2 DEF Results
  <2> QED BY <2>1, <2>2
<1>10. PICK at \in {"idle", "join", "remove"}, f \in {old, NoFlight}, outcome \in Results :
        /\ Moved(search', search, c, at, f, outcome)
        /\ at = "remove" <=> left = 0
        /\ f = NoFlight <=> at # "remove"
  BY <1>9
<1>11. ASSUME NEW d \in Searchers
       PROVE  /\ d # c => On(d)' = On(d)
              /\ Leading(d)' <=> Leading(d)
              /\ Leading(d) => d # c
              /\ Taking(d)' <=> Taking(d) /\ d # c
              /\ d # c => (search'[d].pc \in {"idle", "join"} <=> search[d].pc \in {"idle", "join"})
              /\ d # c => (At(d, "remove")' <=> At(d, "remove"))
              /\ At(d, "publish")' => At(d, "publish") /\ search'[d].result = search[d].result
  BY <1>2, <1>10 DEF Moved, Alike
<1>12. search'[c].pc = at /\ On(c)' = f /\ search' \in [Searchers -> SearchRecords]
  BY <1>10 DEF Moved
<1>13. InUse' \subseteq InUse \cup {NoFlight}
  BY <1>2, <1>4, <1>11, <1>12 DEF InUse
<1>14. SearchTypeOK'
  BY <1>1, <1>2, <1>8, <1>12, SearchTypes, Zenon DEF SearchTypeOK, SearchRecords, SearchPcs,
     Results, FlightRecords
<1>15. OneLeader'
  BY <1>1, <1>11 DEF OneLeader
<1>16. Placed'
  BY <1>1, <1>4, <1>10, <1>11, <1>12 DEF Placed
<1>17. ParticipantsCounted'
  <2>1. ASSUME NEW g \in InUse' \ {NoFlight}
        PROVE  flights'[g].participants = Cardinality(Takers(search', g))
    <3>1. Takers(search', g) = Takers(search, g) \ {c}
      BY <1>10, TakersMove
    <3>2. CASE g = old
      BY <1>7, <1>8, <3>1, <3>2
    <3>3. CASE g # old
      <4>1. c \notin Takers(search, g)
        BY <1>4, <3>3 DEF Takers
      <4>2. g \in Flights /\ g \in InUse
        BY <1>3, <1>13
      <4> QED BY <1>1, <1>8, <3>1, <3>3, <4>1, <4>2, TakersCounted
    <3> QED BY <3>2, <3>3
  <2> QED BY <2>1 DEF ParticipantsCounted, Takers
<1>18. left # 0 => \E d \in Takers(search, old) : d # c
  <2>1. Takers(search, old) \ {c} = {} => left = 0
    BY <1>7, FS_EmptySet
  <2> QED BY <2>1
<1>19. NoKeyLeft'
  <2>1. ASSUME entry # NoFlight
        PROVE  \E d \in Searchers : On(d)' = entry /\ (Taking(d)' \/ At(d, "remove")')
    <3>1. PICK d \in Searchers : On(d) = entry /\ (Taking(d) \/ At(d, "remove"))
      BY <1>1, <2>1 DEF NoKeyLeft
    <3>2. CASE d # c
      BY <1>11, <3>1, <3>2
    <3>3. CASE d = c /\ left = 0
      BY <1>4, <1>10, <1>12, <3>1, <3>3
    <3>4. CASE d = c /\ left # 0
      <4>1. PICK e \in Searchers : e # c /\ On(e) = old /\ Taking(e)
        BY <1>18, <3>4 DEF Takers
      <4> QED BY <1>4, <1>11, <3>1, <3>4, <4>1
    <3> QED BY <3>2, <3>3, <3>4
  <2> QED BY <1>2, <2>1 DEF NoKeyLeft
<1>20. Led'
  <2>1. \A d \in Searchers : Leading(d)' => On(d)' = entry' /\ flights'[On(d)'].status = "running"
    <3>1. \A d \in Searchers : Leading(d) => On(d) \in Flights
      BY <1>1, <1>3 DEF Placed, InUse
    <3> QED BY <1>1, <1>2, <1>8, <1>11, <3>1 DEF Led
  <2>2. ASSUME NEW g \in InUse' \ {NoFlight}, flights'[g].status = "running"
        PROVE  \E d \in Searchers : Leading(d)' /\ On(d)' = g
    <3>1. g \in InUse \ {NoFlight} /\ flights[g].status = "running"
      BY <1>3, <1>8, <1>13, <2>2
    <3> QED BY <1>1, <1>11, <3>1 DEF Led
  <2>3. ASSUME NEW d \in Searchers, At(d, "remove")' PROVE flights'[On(d)'].status # "running"
    <3>1. CASE d # c
      <4>1. On(d)' = On(d) /\ On(d) \in Flights /\ At(d, "remove")
        BY <1>1, <1>3, <1>11, <2>3, <3>1 DEF InUse, Placed
      <4> QED BY <1>1, <1>8, <4>1 DEF Led
    <3>2. CASE d = c
      <4>1. left = 0 /\ On(c)' = old
        BY <1>10, <1>12, <2>3, <3>2
      <4>2. ASSUME flights[old].status = "running" PROVE FALSE
        <5>1. PICK e \in Searchers : Leading(e) /\ On(e) = old
          BY <1>1, <1>4, <4>2 DEF Led
        <5>2. e \in Takers(search, old) \ {c}
          BY <1>2, <5>1 DEF Takers
        <5>3. IsFiniteSet(Takers(search, old) \ {c})
          BY <1>7, FS_RemoveElement
        <5> QED BY <1>7, <4>1, <5>2, <5>3, FS_EmptySet
      <4> QED BY <1>8, <3>2, <4>1, <4>2
    <3> QED BY <3>1, <3>2
  <2>4. \A d \in Searchers : At(d, "publish")' => search'[d].result \in Complete
    BY <1>1, <1>11 DEF Led
  <2> QED BY <2>1, <2>2, <2>3, <2>4 DEF Led
<1> QED BY <1>14, <1>15, <1>16, <1>17, <1>19, <1>20 DEF SearchInd, SearchInv

LEMMA RemoveKeeps ==
  ASSUME SearchInd, cached' \in BOOLEAN, NEW c \in Searchers, RemoveKey(c)
  PROVE  SearchInd'
<1> USE DEF Leading, Taking, LeadingPcs, TakingPcs, On, At
<1>1. SearchTypeOK /\ Placed /\ Led /\ OneLeader /\ ParticipantsCounted /\ NoKeyLeft
  BY DEF SearchInd, SearchInv
<1>2. search[c].pc = "remove" /\ flights[On(c)].status # "running"
  BY <1>1 DEF RemoveKey, Led
<1>3. /\ search \in [Searchers -> SearchRecords]
      /\ flights \in [Flights -> FlightRecords]
      /\ entry \in Flights \cup {NoFlight}
      /\ InUse \subseteq Flights \cup {NoFlight}
  BY <1>1, SearchTypes DEF InUse, SearchRecords
<1>4. PICK old \in Flights : old = On(c)
  BY <1>1, <1>2, <1>3 DEF Placed, InUse
<1>5. entry' = IF entry = old THEN NoFlight ELSE entry
  BY <1>4 DEF RemoveKey, EntryWithout
<1>6. PICK at \in {"idle", "join"} : Moved(search', search, c, at, NoFlight, "none")
  BY <1>3, GoneMoves DEF RemoveKey
<1>7. /\ flights' \in [Flights -> FlightRecords]
      /\ \A g \in Flights : g # old => flights'[g] = flights[g]
      /\ (\E d \in Searchers \ {c} : On(d) = old) => flights' = flights
  <2>1. NoParticipants \in FlightRecords
    BY SearcherCount DEF NoParticipants, FlightRecords, Statuses
  <2>2. flights' = IF \E d \in Searchers \ {c} : On(d) = old THEN flights
                   ELSE [flights EXCEPT ![old] = NoParticipants]
    BY <1>4, Zenon DEF RemoveKey
  <2> QED BY <1>3, <2>1, <2>2
<1>8. ASSUME NEW d \in Searchers
      PROVE  /\ d # c => On(d)' = On(d)
             /\ Leading(d)' <=> Leading(d)
             /\ Leading(d) => d # c
             /\ Taking(d)' <=> Taking(d)
             /\ Taking(d) => d # c
             /\ d # c => (search'[d].pc \in {"idle", "join"} <=> search[d].pc \in {"idle", "join"})
             /\ At(d, "remove")' <=> At(d, "remove") /\ d # c
             /\ At(d, "publish")' => At(d, "publish") /\ search'[d].result = search[d].result
  BY <1>2, <1>6 DEF Moved, Alike
<1>9. search'[c].pc = at /\ On(c)' = NoFlight /\ search' \in [Searchers -> SearchRecords]
  BY <1>6 DEF Moved
<1>10. ASSUME NEW g \in InUse' \ {NoFlight}
       PROVE  g \in InUse /\ g \in Flights /\ flights'[g] = flights[g]
  <2>1. (g = entry /\ g # old) \/ \E d \in Searchers \ {c} : On(d) = g
    BY <1>5, <1>8, <1>9 DEF InUse
  <2> QED BY <1>3, <1>7, <2>1 DEF InUse
<1>11. SearchTypeOK'
  <2>1. entry' \in Flights \cup {NoFlight}
    BY <1>3, <1>5
  <2> QED BY <2>1, <1>1, <1>7, <1>9, SearchTypes, Zenon DEF SearchTypeOK, SearchRecords,
             SearchPcs, Results, FlightRecords
<1>12. OneLeader'
  BY <1>1, <1>8 DEF OneLeader
<1>13. Placed'
  BY <1>1, <1>6, <1>8, <1>9 DEF Placed
<1>14. ParticipantsCounted'
  <2>1. ASSUME NEW g \in InUse' \ {NoFlight}
        PROVE  flights'[g].participants = Cardinality(Takers(search', g))
    <3>1. Takers(search', g) = Takers(search, g)
      BY <1>8 DEF Takers
    <3> QED BY <1>1, <1>10, <3>1, TakersCounted
  <2> QED BY <2>1 DEF ParticipantsCounted, Takers
<1>15. NoKeyLeft'
  BY <1>1, <1>4, <1>5, <1>8 DEF NoKeyLeft
<1>16. Led'
  <2>1. ASSUME NEW d \in Searchers, Leading(d)'
        PROVE  On(d)' = entry' /\ flights'[On(d)'].status = "running"
    <3>1. d # c /\ On(d) = entry /\ flights[entry].status = "running"
      BY <1>1, <1>8, <2>1 DEF Led
    <3>2. entry # old /\ On(d)' = entry /\ entry \in Flights
      BY <1>1, <1>2, <1>3, <1>4, <1>8, <2>1, <3>1 DEF Placed
    <3> QED BY <1>5, <1>7, <3>1, <3>2
  <2>2. \A g \in InUse' \ {NoFlight} : flights'[g].status = "running" =>
           \E d \in Searchers : Leading(d)' /\ On(d)' = g
    BY <1>1, <1>8, <1>10 DEF Led
  <2>3. ASSUME NEW d \in Searchers, At(d, "remove")' PROVE flights'[On(d)'].status # "running"
    <3>1. On(d)' = On(d) /\ On(d)' \in InUse' \ {NoFlight} /\ At(d, "remove")
      BY <1>1, <1>8, <2>3 DEF Placed, InUse
    <3> QED BY <1>1, <1>10, <3>1 DEF Led
  <2>4. \A d \in Searchers : At(d, "publish")' => search'[d].result \in Complete
    BY <1>1, <1>8 DEF Led
  <2> QED BY <2>1, <2>2, <2>3, <2>4 DEF Led
<1> QED BY <1>11, <1>12, <1>13, <1>14, <1>15, <1>16 DEF SearchInd, SearchInv

LEMMA SearchStays ==
  ASSUME SearchInd, cached' \in BOOLEAN, UNCHANGED <<entry, flights, search>>
  PROVE  SearchInd'
BY DEF SearchInd, SearchInv, SearchTypeOK, OneLeader, ParticipantsCounted, NoKeyLeft, Placed,
       Led, Leading, Taking, On, At, InUse

LEMMA SearchNextInd == SearchInd /\ [SearchNext]_searchVars => SearchInd'
<1> SUFFICES ASSUME SearchInd, [SearchNext]_searchVars PROVE SearchInd'
  OBVIOUS
<1>1. SearchTypeOK /\ Placed /\ Led
  BY DEF SearchInd, SearchInv
<1>2. cached' \in BOOLEAN
  BY <1>1
     DEF SearchTypeOK, SearchNext, Step, JoinSearch, LeadSearch, RecheckHit, RecheckMiss,
         LoadSucceeds, LoadFails, PublishResult, NotifyFollowers, CreateNotified,
         ObserveFlight, FollowerWakes, LeaveFlight, RemoveKey, Hit, Miss, DropLeader,
         DropFollower, Evict, searchVars
<1>3. ASSUME NEW c \in Searchers,
             \/ RecheckHit(c) \/ RecheckMiss(c) \/ LoadSucceeds(c) \/ LoadFails(c)
             \/ NotifyFollowers(c) \/ CreateNotified(c) \/ ObserveFlight(c)
             \/ FollowerWakes(c) \/ DropFollower(c) \/ Miss(c)
      PROVE  SearchInd'
  BY <1>1, <1>2, <1>3, QuietSteps, QuietKeeps
<1>4. ASSUME NEW c \in Searchers, PublishResult(c) \/ DropLeader(c) PROVE SearchInd'
  BY <1>1, <1>2, <1>4, EndSteps, EndKeeps
<1>5. ASSUME NEW c \in Searchers, JoinSearch(c) PROVE SearchInd'
  BY <1>2, <1>5, JoinKeeps
<1>6. ASSUME NEW c \in Searchers, LeadSearch(c) PROVE SearchInd'
  BY <1>2, <1>6, LeadKeeps
<1>7. ASSUME NEW c \in Searchers, LeaveFlight(c) PROVE SearchInd'
  BY <1>2, <1>7, LeaveKeeps
<1>8. ASSUME NEW c \in Searchers, RemoveKey(c) PROVE SearchInd'
  BY <1>2, <1>8, RemoveKeeps
<1>9. CASE (\E c \in Searchers : Hit(c)) \/ Evict \/ UNCHANGED searchVars
  BY <1>2, <1>9, SearchStays DEF Hit, Evict, searchVars
<1> QED BY <1>3, <1>4, <1>5, <1>6, <1>7, <1>8, <1>9, Zenon DEF SearchNext, Step

\* Of the callers of one index at most one loads it, a flight counts exactly
\* those on it, and no flight stays in the map without a caller: however many
\* callers there are, whichever fail, and whenever they are dropped.
THEOREM SearchCorrect == SearchSpec => []SearchInv
<1>1. SearchInd => SearchInv
  BY DEF SearchInd
<1> QED BY SearchInitInd, SearchNextInd, <1>1, PTL DEF SearchSpec

=============================================================================
