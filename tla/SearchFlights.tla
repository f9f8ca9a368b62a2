---------------------------- MODULE SearchFlights ----------------------------
(***************************************************************************)
(* SearchFlights of cih-server/src/infrastructure/search_provider.rs, as  *)
(* SearchCache::get_or_load uses it: concurrent cold searches of one      *)
(* index share one load and its result, good or bad, and nothing is kept. *)
(*                                                                         *)
(* Keys do not interact, so this is one key: one entry of the flight map, *)
(* and one retained index, which the weighted cache may refuse or evict.  *)
(* A flight lives from the caller that leads it to the last participant   *)
(* that leaves; callers are futures and may be dropped at any await.      *)
(***************************************************************************)
EXTENDS Naturals, FiniteSets

CONSTANTS Searchers,   \* concurrent requests
          MayFail,   \* a load may fail
          MayDrop,   \* a request may be dropped
          NoFlight   \* no flight

ASSUME FlightAssumption == {MayFail, MayDrop} \subseteq BOOLEAN

VARIABLES cached,  \* the index is retained
          entry,   \* the flight in the map, if any
          flights, \* flight -> participants and status
          search   \* caller -> its locals

searchVars == <<cached, entry, flights, search>>

\* One more than callers can be on.
Flights == 1..(Cardinality(Searchers) + 1)

ASSUME SearchersAssumption == IsFiniteSet(Searchers) /\ NoFlight \notin Flights

Statuses == {"running", "loaded", "failed", "abandoned"}
Complete == {"loaded", "failed"}

NoSearch == [pc |-> "idle", on |-> NoFlight, result |-> "none", woken |-> FALSE]

NoParticipants == [participants |-> 0, status |-> "abandoned"]

SearchInit ==
    /\ cached = FALSE
    /\ entry = NoFlight
    /\ flights = [f \in Flights |-> NoParticipants]
    /\ search = [c \in Searchers |-> NoSearch]

----------------------------------------------------------------------------
At(c, pc) == search[c].pc = pc
On(c) == search[c].on
InUse == {entry} \cup {On(c) : c \in Searchers}
Fresh == CHOOSE f \in Flights : f \notin InUse

\* notify_waiters wakes every Notified future that exists.
Watching == {"observe", "wait"}
Wake(f, locals) ==
    [c \in Searchers |-> IF locals[c].on = f /\ locals[c].pc \in Watching
                       THEN [locals[c] EXCEPT !.woken = TRUE] ELSE locals[c]]

----------------------------------------------------------------------------
\* get_or_load: a retained index is a hit and ends the call.
Hit(c) ==
    /\ At(c, "idle")
    /\ cached
    /\ UNCHANGED searchVars

Miss(c) ==
    /\ At(c, "idle")
    /\ ~cached
    /\ search' = [search EXCEPT ![c].pc = "join"]
    /\ UNCHANGED <<cached, entry, flights>>

\* join, under the map's lock: take part in the flight of the map unless its
\* leader was lost ...
SearchJoinable == entry # NoFlight /\ flights[entry].status # "abandoned"

JoinSearch(c) ==
    /\ At(c, "join")
    /\ SearchJoinable
    /\ flights' = [flights EXCEPT ![entry].participants = @ + 1]
    /\ search' = [search EXCEPT ![c].pc = "notified", ![c].on = entry]
    /\ UNCHANGED <<cached, entry>>

\* ... or replace it by a new one and lead that.
LeadSearch(c) ==
    /\ At(c, "join")
    /\ ~SearchJoinable
    /\ entry' = Fresh
    /\ flights' = [flights EXCEPT ![Fresh] = [participants |-> 1, status |-> "running"]]
    /\ search' = [search EXCEPT ![c].pc = "recheck", ![c].on = Fresh]
    /\ UNCHANGED cached

----------------------------------------------------------------------------
(* The leader: look again, load, offer the index to the cache, publish. *)

RecheckHit(c) ==
    /\ At(c, "recheck")
    /\ cached
    /\ search' = [search EXCEPT ![c].pc = "publish", ![c].result = "loaded"]
    /\ UNCHANGED <<cached, entry, flights>>

RecheckMiss(c) ==
    /\ At(c, "recheck")
    /\ ~cached
    /\ search' = [search EXCEPT ![c].pc = "load"]
    /\ UNCHANGED <<cached, entry, flights>>

\* The weighted cache may refuse an index heavier than its budget.
LoadSucceeds(c) ==
    /\ At(c, "load")
    /\ cached' \in {cached, TRUE}
    /\ search' = [search EXCEPT ![c].pc = "publish", ![c].result = "loaded"]
    /\ UNCHANGED <<entry, flights>>

LoadFails(c) ==
    /\ MayFail
    /\ At(c, "load")
    /\ search' = [search EXCEPT ![c].pc = "publish", ![c].result = "failed"]
    /\ UNCHANGED <<cached, entry, flights>>

PublishResult(c) ==
    /\ At(c, "publish")
    /\ flights' = [flights EXCEPT ![On(c)].status = search[c].result]
    /\ search' = [search EXCEPT ![c].pc = "notify"]
    /\ UNCHANGED <<cached, entry>>

NotifyFollowers(c) ==
    /\ At(c, "notify")
    /\ search' = Wake(On(c), [search EXCEPT ![c].pc = "leave"])
    /\ UNCHANGED <<cached, entry, flights>>

----------------------------------------------------------------------------
(* A follower: make the Notified future, look, and only then wait. *)

CreateNotified(c) ==
    /\ At(c, "notified")
    /\ search' = [search EXCEPT ![c].pc = "observe", ![c].woken = FALSE]
    /\ UNCHANGED <<cached, entry, flights>>

ObserveFlight(c) ==
    LET status == flights[On(c)].status
    IN  /\ At(c, "observe")
        /\ search' = [search EXCEPT
             ![c].pc = IF status = "running" THEN "wait" ELSE "leave",
             ![c].woken = @ /\ status = "running",
             ![c].result = IF status \in Complete THEN status ELSE "none"]
        /\ UNCHANGED <<cached, entry, flights>>

FollowerWakes(c) ==
    /\ At(c, "wait")
    /\ search[c].woken
    /\ search' = [search EXCEPT ![c].pc = "notified", ![c].woken = FALSE]
    /\ UNCHANGED <<cached, entry, flights>>

----------------------------------------------------------------------------
(* Leaving: FlightParticipant::drop, in two critical sections. *)

\* A caller with a result returns it, a dropped one is gone, and a follower of
\* an abandoned flight joins again.
Gone(c) ==
    [search EXCEPT ![c] = [NoSearch EXCEPT !.pc = IF search[c].result = "none"
                                              THEN "join" ELSE "idle"]]

\* Mutant: nobody takes the flight out of the map.
LeaveFlightUnlast(c) ==
    /\ At(c, "leave")
    /\ flights' = [flights EXCEPT ![On(c)].participants = @ - 1]
    /\ search' = Gone(c)
    /\ UNCHANGED <<cached, entry>>

\* finish, under the flight's lock: the last participant will remove it.
LeaveFlight(c) ==
    LET left == flights[On(c)].participants - 1
    IN  /\ At(c, "leave")
        /\ flights' = [flights EXCEPT ![On(c)].participants = left]
        /\ search' = IF left = 0 THEN [search EXCEPT ![c].pc = "remove"] ELSE Gone(c)
        /\ UNCHANGED <<cached, entry>>

\* Under the map's lock: only if the map still has this very flight.  (Others
\* may have joined it since; the last reference frees it.)
EntryWithout(f) == IF entry = f THEN NoFlight ELSE entry
RemoveKey(c) ==
    /\ At(c, "remove")
    /\ entry' = EntryWithout(On(c))
    /\ flights' = IF \E d \in Searchers \ {c} : On(d) = On(c) THEN flights
                 ELSE [flights EXCEPT ![On(c)] = NoParticipants]
    /\ search' = Gone(c)
    /\ UNCHANGED cached

\* Mutant: the guard of a dropped leader wakes nobody.
DropLeaderSilently(c) ==
    /\ MayDrop
    /\ search[c].pc \in {"recheck", "load"}
    /\ flights' = [flights EXCEPT ![On(c)].status = "abandoned"]
    /\ search' = [search EXCEPT ![c].pc = "leave", ![c].result = "dropped"]
    /\ UNCHANGED <<cached, entry>>
\* The request is dropped.  A leader at an await abandons its flight and wakes
\* the others before it leaves; a follower just leaves.
DropLeader(c) ==
    /\ MayDrop
    /\ search[c].pc \in {"recheck", "load"}
    /\ flights' = [flights EXCEPT ![On(c)].status = "abandoned"]
    /\ search' = Wake(On(c), [search EXCEPT ![c].pc = "leave", ![c].result = "dropped"])
    /\ UNCHANGED <<cached, entry>>

DropFollower(c) ==
    /\ MayDrop
    /\ At(c, "wait")
    /\ search' = [search EXCEPT ![c].pc = "leave", ![c].result = "dropped",
                                ![c].woken = FALSE]
    /\ UNCHANGED <<cached, entry, flights>>

\* The weighted cache evicts the index for others.
Evict ==
    /\ cached
    /\ cached' = FALSE
    /\ UNCHANGED <<entry, flights, search>>

Step(c) ==
    \/ JoinSearch(c)
    \/ LeadSearch(c)
    \/ RecheckHit(c)
    \/ RecheckMiss(c)
    \/ LoadSucceeds(c)
    \/ LoadFails(c)
    \/ PublishResult(c)
    \/ NotifyFollowers(c)
    \/ CreateNotified(c)
    \/ ObserveFlight(c)
    \/ FollowerWakes(c)
    \/ LeaveFlight(c)
    \/ RemoveKey(c)

SearchNext ==
    \/ \E c \in Searchers : Step(c)
    \/ \E c \in Searchers : Hit(c) \/ Miss(c)
    \/ \E c \in Searchers : DropLeader(c) \/ DropFollower(c)
    \/ Evict

SearchSpec == SearchInit /\ [][SearchNext]_searchVars

----------------------------------------------------------------------------
SearchTypeOK ==
    /\ cached \in BOOLEAN
    /\ entry \in Flights \cup {NoFlight}
    /\ flights \in [Flights -> [participants : 0..Cardinality(Searchers),
                               status : Statuses]]
    /\ search \in [Searchers ->
         [pc : {"idle", "join", "recheck", "load", "publish", "notify", "notified",
                "observe", "wait", "leave", "remove"},
          on : Flights \cup {NoFlight},
          result : {"none", "loaded", "failed", "dropped"},
          woken : BOOLEAN]]

Leading(c) == search[c].pc \in {"recheck", "load", "publish"}
Taking(c) == search[c].pc \in {"recheck", "load", "publish", "notify", "notified",
                               "observe", "wait", "leave"}

\* One leader performs the load: two callers never lead at the same time, with
\* leaders dropped, flights replaced and late removals of older flights.
OneLeader ==
    \A c, d \in Searchers : Leading(c) /\ Leading(d) => c = d

\* A flight counts exactly the callers that are on it, so the last to leave and
\* no other finds the count at zero ...
ParticipantsCounted ==
    \A f \in InUse \ {NoFlight} :
        flights[f].participants = Cardinality({c \in Searchers : On(c) = f /\ Taking(c)})

\* ... and completed and cancelled generations leave no key behind: with no
\* caller on it or about to remove it, a flight is not in the map.
NoKeyLeft ==
    entry # NoFlight =>
        \E c \in Searchers : On(c) = entry /\ (Taking(c) \/ At(c, "remove"))

SearchInv == SearchTypeOK /\ OneLeader /\ ParticipantsCounted /\ NoKeyLeft

\* Unless leaders are dropped for ever, whoever misses gets an answer: no
\* wake-up is lost when a leader publishes or is dropped between a follower's
\* look and its wait.
SearchesEnd ==
    \/ []<><<\E c \in Searchers : DropLeader(c)>>_searchVars
    \/ \A c \in Searchers : []<>At(c, "idle")
=============================================================================
