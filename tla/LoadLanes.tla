------------------------------ MODULE LoadLanes ------------------------------
(***************************************************************************)
(* The admission lanes of blocking work in the server: the heavy lane of  *)
(* ports/blocking_runtime.rs (run_blocking_heavy), and in front of it the *)
(* cold lane of a search index load, a count and a budget of memory units *)
(* (SearchRuntime::run_cold in infrastructure/search_provider.rs).        *)
(*                                                                         *)
(* A lane is a fair semaphore of Tokio: a released permit goes to the     *)
(* longest waiter, and nobody overtakes it.  A caller is an async request *)
(* that waits for its lanes in order, hands every permit to a closure on  *)
(* the blocking pool and awaits that with a deadline.  The closure cannot *)
(* be cancelled: it outlives a caller that timed out or was dropped.      *)
(***************************************************************************)
EXTENDS Naturals, FiniteSets

CONSTANTS Callers,     \* concurrent requests
          CountLimit,  \* CIH_SEARCH_COLD_MAX_CONCURRENT
          UnitLimit,   \* CIH_SEARCH_COLD_MAX_BYTES in MiB
          HeavyLimit,  \* CIH_BLOCKING_MAX_CONCURRENT
          Units,       \* estimated sizes of a cold load
          MayDrop,     \* a request may be dropped
          MaxLeak      \* bound on the drops the cold gauge forgets

ASSUME LaneAssumption ==
    /\ IsFiniteSet(Callers)
    /\ {CountLimit, UnitLimit, HeavyLimit} \subseteq Nat \ {0}
    /\ Units \subseteq Nat \ {0}
    /\ MayDrop \in BOOLEAN
    /\ MaxLeak \in Nat

VARIABLES free,    \* lane -> permits nobody holds
          caller,  \* caller -> its locals
          ahead,   \* the order of the queues: pairs of callers waiting for one lane
          closures,    \* closures on the blocking pool
          gauges   \* the metrics a status page shows

laneVars == <<free, caller, ahead, closures, gauges>>

Lanes == {"count", "bytes", "heavy"}
Cold == {"count", "bytes"}
Limit == [count |-> CountLimit, bytes |-> UnitLimit, heavy |-> HeavyLimit]

\* A closure holds what its caller had; there are never more than heavy slots.
JobIds == 1..HeavyLimit
NoJob == 0
NoClosure == [state |-> "none", held |-> {}, units |-> 0]
Idle == [pc |-> "idle", lane |-> "heavy", units |-> 0, held |-> {}, job |-> NoJob]

LanesInit ==
    /\ free = Limit
    /\ caller = [c \in Callers |-> Idle]
    /\ ahead = {}
    /\ closures = [j \in JobIds |-> NoClosure]
    /\ gauges = [heavy |-> 0, cold |-> 0]

----------------------------------------------------------------------------
At(c, pc) == caller[c].pc = pc
Becomes(c, locals) == caller' = [caller EXCEPT ![c] = locals]
Amount(l, units) == IF l = "bytes" THEN units ELSE 1
Needs(c) == Amount(caller[c].lane, caller[c].units)

\* The sum of some amounts, counted by units; no amount is above UnitLimit.
Total(amounts) ==
    Cardinality({unit \in (DOMAIN amounts) \X (1..UnitLimit) : unit[2] <= amounts[unit[1]]})

Waiting == {c \in Callers : At(c, "waiting")}
InLane(l, some) == {c \in some : caller[c].lane = l}
Wanted(some) == Total([c \in some |-> Needs(c)])

\* Releasing permits, or leaving a queue, serves the waiters in order, as far
\* as the permits go: the most of the longest waiters that fit.
Longest(some, waiting) == \A c \in some, d \in waiting : <<d, c>> \in ahead => d \in some
Fitting(permits, waiting) ==
    {some \in SUBSET waiting : Longest(some, waiting) /\ Wanted(some) <= permits}
Served(permits, waiting, granted) ==
    /\ granted \in Fitting(permits, waiting)
    /\ \A some \in Fitting(permits, waiting) : some \subseteq granted

\* Callers leave, and each lane serves those that still wait with `permits`, its
\* free ones and those given back.
Serve(permits, gone) ==
    \E granted \in SUBSET (Waiting \ gone) :
        /\ \A l \in Lanes : Served(permits[l], InLane(l, Waiting \ gone), InLane(l, granted))
        /\ free' = [l \in Lanes |-> permits[l] - Wanted(InLane(l, granted))]
        /\ ahead' = {p \in ahead : {p[1], p[2]} \cap (gone \cup granted) = {}}
        /\ caller' = [c \in Callers |-> IF c \in gone THEN Idle
                                       ELSE IF c \in granted THEN [caller[c] EXCEPT !.pc = "granted"]
                                       ELSE caller[c]]

GiveBack(held, units) ==
    [l \in Lanes |-> free[l] + IF l \in held THEN Amount(l, units) ELSE 0]

----------------------------------------------------------------------------
\* run_blocking_heavy for an artifact: straight to the heavy lane.
StartHeavy(c) ==
    /\ At(c, "idle")
    /\ Becomes(c, [Idle EXCEPT !.pc = "acquire"])
    /\ gauges' = [gauges EXCEPT !.heavy = @ + 1]
    /\ UNCHANGED <<free, ahead, closures>>

\* run_cold: a load that can never fit is refused before it queues.
RejectOversize(c, units) ==
    /\ At(c, "idle")
    /\ units > UnitLimit
    /\ UNCHANGED laneVars

StartCold(c, units) ==
    /\ At(c, "idle")
    /\ units <= UnitLimit
    /\ Becomes(c, [Idle EXCEPT !.pc = "acquire", !.lane = "count", !.units = units])
    /\ gauges' = [gauges EXCEPT !.cold = @ + 1]
    /\ UNCHANGED <<free, ahead, closures>>

\* The first poll of acquire_owned: take the permits, or queue behind others.
Before(c) == InLane(caller[c].lane, Waiting)
CanTake(c) == Before(c) = {} /\ free[caller[c].lane] >= Needs(c)

Take(c) ==
    /\ At(c, "acquire")
    /\ CanTake(c)
    /\ free' = [free EXCEPT ![caller[c].lane] = @ - Needs(c)]
    /\ Becomes(c, [caller[c] EXCEPT !.pc = "taken"])
    /\ UNCHANGED <<ahead, closures, gauges>>

Enqueue(c) ==
    /\ At(c, "acquire")
    /\ ~CanTake(c)
    /\ ahead' = ahead \cup (Before(c) \X {c})
    /\ Becomes(c, [caller[c] EXCEPT !.pc = "waiting"])
    /\ UNCHANGED <<free, closures, gauges>>

\* The permit of a cold lane is in hand: on to the next lane.  The cold gauge
\* falls after the second one; the heavy gauge rises on entering run_gated.
NextLane == [count |-> "bytes", bytes |-> "heavy"]

HasPermit(c) == caller[c].pc \in {"taken", "granted"}

Advance(c) ==
    LET lane == caller[c].lane
    IN  /\ HasPermit(c)
        /\ lane \in Cold
        /\ Becomes(c, [caller[c] EXCEPT !.pc = "acquire", !.lane = NextLane[lane],
                                        !.held = @ \cup {lane}])
        /\ gauges' = IF lane = "count" THEN gauges
                     ELSE [gauges EXCEPT !.cold = @ - 1, !.heavy = @ + 1]
        /\ UNCHANGED <<free, ahead, closures>>

\* The heavy permit is in hand: everything held moves into a closure that
\* spawn_blocking puts on the pool.
LaunchedHeld(c) == caller[c].held \cup {"heavy"}
Launch(c) ==
    /\ HasPermit(c)
    /\ caller[c].lane = "heavy"
    /\ \E j \in JobIds :
         /\ closures[j].state = "none"
         /\ closures' = [closures EXCEPT ![j] = [state |-> "running", held |-> LaunchedHeld(c),
                                         units |-> caller[c].units]]
         /\ Becomes(c, [caller[c] EXCEPT !.pc = "awaiting", !.job = j, !.held = {}])
    /\ gauges' = [gauges EXCEPT !.heavy = @ - 1]
    /\ UNCHANGED <<free, ahead>>

\* The closure returns or panics; its guards release the permits either way,
\* and its caller, if it still waits, has its answer.
JobEnds(j) ==
    /\ closures[j].state = "running"
    /\ closures' = [closures EXCEPT ![j] = NoClosure]
    /\ Serve(GiveBack(closures[j].held, closures[j].units),
             {c \in Callers : caller[c].job = j})
    /\ UNCHANGED gauges

----------------------------------------------------------------------------
\* The gauge a waiting caller is counted in: run_cold decrements its own on
\* each way out, run_gated keeps a guard.
GaugeOf(c) == IF caller[c].lane \in Cold THEN "cold" ELSE "heavy"

\* Mutant: there is no queue timeout.
QueueTimeoutOff(c) ==
    /\ FALSE
    /\ UNCHANGED laneVars

\* The queue timeout, which loses against a permit already granted: the
\* caller is rejected and its earlier permits are dropped.
QueueTimeout(c) ==
    /\ At(c, "waiting")
    /\ Serve(GiveBack(caller[c].held, caller[c].units), {c})
    /\ gauges' = [gauges EXCEPT ![GaugeOf(c)] = @ - 1]
    /\ UNCHANGED closures

\* The deadline of run_blocking: the caller stops waiting, the closure runs on.
Deadline(c) ==
    /\ At(c, "awaiting")
    /\ Becomes(c, Idle)
    /\ UNCHANGED <<free, ahead, closures, gauges>>

\* Mutant: a permit granted but not taken is lost.
DropHeldOnly(c) == caller[c].held

\* The request is dropped at an await.  A permit granted but not yet taken goes
\* back with the rest; only the heavy lane's gauge has a guard.
DropHeld(c) == caller[c].held \cup (IF At(c, "granted") THEN {caller[c].lane} ELSE {})
GaugesAfterDrop(c) == [gauges EXCEPT !.heavy = IF GaugeOf(c) = "heavy" THEN @ - 1 ELSE @]

InCold == {c \in Callers : caller[c].lane \in Cold /\ caller[c].pc # "idle"}

DropQueued(c) ==
    /\ MayDrop
    /\ c \in InCold => gauges.cold - Cardinality(InCold) < MaxLeak
    /\ caller[c].pc \in {"waiting", "granted"}
    /\ Serve(GiveBack(DropHeld(c), caller[c].units), {c})
    /\ gauges' = GaugesAfterDrop(c)
    /\ UNCHANGED closures

DropAwaiting(c) ==
    /\ MayDrop
    /\ At(c, "awaiting")
    /\ Becomes(c, Idle)
    /\ UNCHANGED <<free, ahead, closures, gauges>>

Poll(c) ==
    \/ Take(c)
    \/ Enqueue(c)
    \/ Advance(c)
    \/ Launch(c)
    \/ QueueTimeout(c)
    \/ Deadline(c)

LanesNext ==
    \/ \E c \in Callers : Poll(c)
    \/ \E c \in Callers : StartHeavy(c)
    \/ \E c \in Callers, u \in Units : StartCold(c, u) \/ RejectOversize(c, u)
    \/ \E c \in Callers : DropQueued(c) \/ DropAwaiting(c)
    \/ \E j \in JobIds : JobEnds(j)

LanesSpec == LanesInit /\ [][LanesNext]_laneVars

\* The runtime polls its futures and its timers fire.  Nothing is assumed of
\* the closures: a wedged load never ends.
FairLanesSpec == LanesSpec /\ \A c \in Callers : WF_laneVars(Poll(c))

----------------------------------------------------------------------------
Sizes == (Units \cap (1..UnitLimit)) \cup {0}
Locals == [pc : {"idle", "acquire", "waiting", "granted", "taken", "awaiting"}, lane : Lanes,
           units : Sizes, held : SUBSET Cold, job : JobIds \cup {NoJob}]
Closures == [state : {"none", "running"}, held : SUBSET Lanes, units : Sizes]

\* Each lane's waiters stand one behind another.
QueuesOrdered ==
    /\ \A p \in ahead : /\ p \in Waiting \X Waiting /\ p[1] # p[2]
                       /\ caller[p[1]].lane = caller[p[2]].lane
    /\ \A c, d \in Waiting : caller[c].lane = caller[d].lane /\ c # d
                              => (<<c, d>> \in ahead <=> <<d, c>> \notin ahead)
    /\ \A c, d, e \in Waiting : <<c, d>> \in ahead /\ <<d, e>> \in ahead => <<c, e>> \in ahead

LanesTypeOK ==
    /\ free \in [Lanes -> Nat]
    /\ caller \in [Callers -> Locals]
    /\ QueuesOrdered
    /\ closures \in [JobIds -> Closures]
    /\ gauges \in [{"heavy", "cold"} -> Nat]

Running == {j \in JobIds : closures[j].state = "running"}

HeldBy(c, l) == l \in caller[c].held \/ (HasPermit(c) /\ caller[c].lane = l)
CallersHold(l) == [c \in Callers |-> IF HeldBy(c, l) THEN Amount(l, caller[c].units) ELSE 0]
ClosuresHold(l) ==
    [j \in JobIds |-> IF l \in closures[j].held THEN Amount(l, closures[j].units) ELSE 0]

\* No permit is lost or made: free ones, those of callers and those of closures
\* are all there are, after any mix of timeouts, drops, grants and panics.  So
\* the work on the pool stays within every lane, because a closure keeps its
\* slots until it ends ("never start another heavy load while a timed-out one
\* is still running").
PermitsConserved ==
    /\ \A j \in Running : "heavy" \in closures[j].held
    /\ \A l \in Lanes :
         free[l] + Total(CallersHold(l)) + Total(ClosuresHold(l)) = Limit[l]

\* Nobody waits for permits that are there: a caller that leaves the head of a
\* queue lets the next ones through.
NoIdleQueue ==
    \A c \in Waiting :
        (\A d \in Waiting : <<d, c>> \notin ahead) => free[caller[c].lane] < Needs(c)

\* The gauges of the status page: the heavy lane's is the number of callers in
\* its queue whatever timed out or was dropped; cold_queued never shows less
\* than that (a request dropped in the cold queue stays counted).
GaugesCount ==
    /\ gauges.heavy =
         Cardinality({c \in Callers : caller[c].lane = "heavy"
                        /\ caller[c].pc \in {"acquire", "waiting", "granted", "taken"}})
    /\ gauges.cold >= Cardinality(InCold)

LaneInv == LanesTypeOK /\ NoIdleQueue /\ PermitsConserved /\ GaugesCount

\* Every call ends, even when no closure ever does: "a prompt typed error vs a
\* two-minute hang".
CallsEnd == \A c \in Callers : []<>At(c, "idle")
=============================================================================
