----------------------------- MODULE LadybugStore -----------------------------
(***************************************************************************)
(* One graph key of the embedded store (cih-ladybug/src/lib.rs, the write  *)
(* half of cih-ladybug/src/query.rs) and the replacement loads that        *)
(* publish to it (cih-engine/src/db.rs).                                   *)
(*                                                                         *)
(* The key is a directory of version files and a pointer, CURRENT.  A      *)
(* replacement load builds a version in a staging directory of its own,    *)
(* renames it into the directory and flips CURRENT; it is one process and  *)
(* may die after any step.  A reader is a store that lives as long as the  *)
(* server: it looks at CURRENT before every query and opens another        *)
(* version when it moved.  Readers and writers alike collect old versions, *)
(* by age and recency of their modification times, without a lock.         *)
(*                                                                         *)
(* Any call on the file system may fail.  Most failures end the operation  *)
(* they hit; the reads of CURRENT, of a directory and of a modification    *)
(* time are swallowed, and taken as nothing, by a query, a collection and  *)
(* the numbering of versions alike.                                        *)
(***************************************************************************)
EXTENDS Naturals, FiniteSets, FiniteSetsExt

CONSTANTS Attempts,   \* replacement loads, each made once
          Readers,    \* stores that query the key
          OpenTries,  \* opens a reader tries before it gives up
          MaxFailures, \* bound on the operations that go on after a failure
          LogKept,     \* whether a closed database may, or does, keep its log file
          NoGraph,    \* no build, no graph
          Error       \* a query that failed

ASSUME StoreAssumption ==
    /\ {NoGraph, Error} \cap Attempts = {}
    /\ NoGraph # Error
    /\ Attempts \cap Readers = {}
    /\ IsFiniteSet(Attempts)
    /\ OpenTries \in Nat \ {0}
    /\ MaxFailures \in Nat
    /\ LogKept \subseteq BOOLEAN

VARIABLES file,     \* version -> the build under this name, and its parts
          current,  \* what CURRENT names
          pending,  \* .gc-pending
          build,    \* attempt -> the database it builds
          staged,   \* attempt -> parts in its staging directory
          attempt,  \* attempt -> its locals
          reader,   \* reader -> its locals
          sweep,    \* actor -> the locals of its garbage collection
          clock,    \* last modification time, and the latest that is old
          failures, \* operations so far that went on after a failure
          astray    \* history: one of them cost the key what it relies on

faults == <<failures, astray>>
vars == <<file, current, pending, build, staged, attempt, reader, sweep, clock,
          failures, astray>>

Versions == 1..Cardinality(Attempts)
NoVersion == 0
Actors == Attempts \cup Readers

\* What a complete graph is made of: the analyzer's artifacts, then an overlay.
ArtifactSets == {"base", "overlay"}

\* A database is a file and, for a while, a write-ahead log beside it.
Absent == [build |-> NoGraph, parts |-> {}]
Bare == [build |-> NoGraph, parts |-> {"wal"}]
NoHandle == [version |-> NoVersion, build |-> NoGraph]
NoSweep == [pc |-> "off", current |-> NoVersion, blind |-> FALSE, doomed |-> {}]

Init ==
    /\ file = [v \in Versions |-> Absent]
    /\ current = NoVersion
    /\ pending = {}
    /\ build = [a \in Attempts |-> [loaded |-> {}, wal |-> FALSE, mtime |-> 0]]
    /\ staged = [a \in Attempts |-> {}]
    /\ attempt = [a \in Attempts |-> [pc |-> "idle", version |-> NoVersion, warned |-> FALSE]]
    /\ reader = [r \in Readers |-> [pc |-> "idle", handle |-> NoHandle, version |-> NoVersion,
                                    tries |-> 0, failed |-> FALSE, blind |-> FALSE, seen |-> {},
                                    answer |-> NoGraph]]
    /\ sweep = [x \in Actors |-> NoSweep]
    /\ clock = [now |-> 0, old |-> 0]
    /\ failures = 0
    /\ astray = FALSE

----------------------------------------------------------------------------
At(a, pc) == attempt[a].pc = pc
Go(a, pc) == attempt' = [attempt EXCEPT ![a].pc = pc]
End(a, pc) == attempt' = [attempt EXCEPT ![a].pc = pc, ![a].version = NoVersion]
Quiet == {"idle", "ok", "failed", "died"}

Exists(v) == v # NoVersion /\ "main" \in file[v].parts
OnDisk == {v \in Versions : Exists(v)}

\* max_version_in
MaxVersion == Max(OnDisk \cup {NoVersion})

\* What a query of the key finds now.
Live == IF Exists(current) THEN file[current].build ELSE NoGraph

\* History of the queries under way: every graph that was live meanwhile.
Witness(locals, graph) ==
    [r \in Readers |-> IF locals[r].pc = "idle" THEN locals[r]
                       ELSE [locals[r] EXCEPT !.seen = @ \cup {graph}]]

\* An operation meets a failure and goes on.
Failure == failures < MaxFailures /\ failures' = failures + 1

----------------------------------------------------------------------------
(* Garbage collection: gc_versions, by any actor. *)

\* It reads CURRENT, and takes what it cannot read as no version ...
StartSweep(x) ==
    /\ \/ /\ sweep' = [sweep EXCEPT ![x].pc = "list", ![x].current = current]
          /\ UNCHANGED failures
       \/ /\ current # NoVersion
          /\ Failure
          /\ sweep' = [sweep EXCEPT ![x].pc = "list", ![x].blind = TRUE]
    /\ UNCHANGED astray

\* ... lists the versions, most recently modified first ...
Mtime(v) == build[file[v].build].mtime
Old(v) == Mtime(v) <= clock.old
Later(v, w) == Mtime(v) > Mtime(w) \/ (Mtime(v) = Mtime(w) /\ v > w)

\* Mutant: only what CURRENT named is kept.
KeptCurrent(seen) == {seen}

Kept(seen) ==
    {seen} \cup {v \in OnDisk \ {seen} : \A w \in OnDisk \ {seen, v} : Later(v, w)}

Doomed(seen) == ({v \in OnDisk : Old(v)} \cup pending) \ Kept(seen)

\* Without its pin a collection spares what CURRENT names only as the latest.
Unpinned(x) == sweep[x].blind /\ current # MaxVersion

SweepList(x) ==
    /\ sweep[x].pc = "list"
    /\ sweep' = [sweep EXCEPT ![x].pc = "delete", ![x].doomed = Doomed(sweep[x].current)]
    /\ astray' = (astray \/ Unpinned(x))
    /\ UNCHANGED <<file, current, pending, build, staged, attempt, reader, clock, failures>>

\* An entry that cannot be read is not there, a version without a time is the
\* least recent and never old, and unreadable notes are none.
SweepListPartly(x) ==
    LET pin == sweep[x].current
    IN  /\ sweep[x].pc = "list"
        /\ Failure
        /\ \E listed \in SUBSET OnDisk :
           \E old \in SUBSET {v \in listed : Old(v)}, noted \in {{}, pending},
              second \in IF listed \subseteq {pin} THEN {NoVersion} ELSE listed \ {pin} :
             /\ sweep' = [sweep EXCEPT ![x].pc = "delete",
                                       ![x].doomed = (old \cup noted) \ {pin, second}]
             /\ astray' = (astray \/ Unpinned(x) \/ MaxVersion \in listed \ {pin, second})
        /\ UNCHANGED <<file, current, pending, build, staged, attempt, reader, clock>>

\* ... and deletes.  A file that a reader has open is unlinked and stays
\* readable there; on Windows it resists, and is noted for the next time.
Held(v) == \E r \in Readers : Exists(v) /\ reader[r].handle.build = file[v].build

Delete(gone, bare) ==
    /\ file' = [v \in Versions |-> IF v \in bare THEN Bare
                                    ELSE IF v \in gone THEN Absent ELSE file[v]]
    /\ reader' = IF current \in gone THEN Witness(reader, NoGraph) ELSE reader

SweepDelete(x) ==
    /\ sweep[x].pc = "delete"
    /\ \E resist \in {{}, {v \in sweep[x].doomed : Held(v)}} :
         /\ Delete(sweep[x].doomed \ resist, {})
         /\ pending' = resist
    /\ sweep' = [sweep EXCEPT ![x] = NoSweep]
    /\ UNCHANGED <<current, build, staged, attempt, clock, faults>>

\* A database may resist elsewhere too; its log may, or may not be listed; and
\* the notes may stay what they were.
SweepDeletePartly(x) ==
    /\ sweep[x].pc = "delete"
    /\ Failure
    /\ \E stuck \in SUBSET (sweep[x].doomed \cap OnDisk) :
       \E bare \in SUBSET {v \in sweep[x].doomed \ stuck : "wal" \in file[v].parts} :
         /\ Delete(sweep[x].doomed \ stuck, bare)
         /\ pending' \in {stuck, stuck \cup bare, pending}
    /\ sweep' = [sweep EXCEPT ![x] = NoSweep]
    /\ UNCHANGED <<current, build, staged, attempt, clock, astray>>

----------------------------------------------------------------------------
(* A replacement load: load_replacement_inner. *)

\* What the loads of one key rely on, and what publication epochs give them:
\* each follows the one before, and takes longer than a collection takes from
\* its first read to the second.
NoSweepBetweenReads == \A x \in Actors : sweep[x].pc # "list"

\* A staging key of its own; the drop finds nothing there.
Begin(a) ==
    /\ At(a, "idle")
    /\ \A b \in Attempts : attempt[b].pc \in Quiet
    /\ NoSweepBetweenReads
    /\ Go(a, "load")
    /\ UNCHANGED <<file, current, pending, build, staged, reader, sweep, clock, faults>>

\* bulk_load, once per artifact set, into the handle that is open.
Load(a) ==
    /\ At(a, "load")
    /\ build[a].loaded # ArtifactSets
    /\ build' = [build EXCEPT ![a].loaded = IF @ = {} THEN {"base"} ELSE ArtifactSets]
    /\ staged' = [staged EXCEPT ![a] = {"main", "wal"}]
    /\ UNCHANGED <<file, current, pending, attempt, reader, sweep, clock, faults>>

\* publish_to_impl closes the handle: the last write to the file.  The log is
\* folded in; whether its file is still there is up to the database.
Close(a) ==
    /\ At(a, "load")
    /\ build[a].loaded = ArtifactSets
    /\ \E wal \in LogKept :
         /\ build' = [build EXCEPT ![a].wal = wal, ![a].mtime = clock.now + 1]
         /\ staged' = [staged EXCEPT ![a] = {"main"} \cup (IF wal THEN {"wal"} ELSE {})]
    /\ clock' = [clock EXCEPT !.now = @ + 1]
    /\ Go(a, "number")
    /\ UNCHANGED <<file, current, pending, reader, sweep, faults>>

\* Mutant: the number of versions instead of the highest.
NumberByCount(a) ==
    /\ At(a, "number")
    /\ attempt' = [attempt EXCEPT ![a].pc = "move",
                                  ![a].version = Cardinality(OnDisk) + 1]
    /\ UNCHANGED <<file, current, pending, build, staged, reader, sweep, clock, faults>>

\* The highest of the numbers it can read, so one in use is possible.
Number(a) ==
    /\ At(a, "number")
    /\ \E seen \in OnDisk \cup {NoVersion} :
         /\ attempt' = [attempt EXCEPT ![a].pc = "move", ![a].version = seen + 1]
         /\ \/ seen = MaxVersion /\ UNCHANGED faults
            \/ seen # MaxVersion /\ Failure /\ astray' = TRUE
    /\ UNCHANGED <<file, current, pending, build, staged, reader, sweep, clock>>

\* Each file is renamed, the database first; a name in use is taken over.
MoveMain(a) ==
    LET v == attempt[a].version
    IN  /\ At(a, "move")
        /\ "main" \in staged[a]
        /\ file' = [file EXCEPT ![v] = [build |-> a, parts |-> @.parts \cup {"main"}]]
        /\ staged' = [staged EXCEPT ![a] = @ \ {"main"}]
        /\ reader' = IF v = current THEN Witness(reader, a) ELSE reader
        /\ UNCHANGED <<current, pending, build, attempt, sweep, clock, faults>>

MoveLog(a) ==
    /\ At(a, "move")
    /\ staged[a] = {"wal"}
    /\ file' = [file EXCEPT ![attempt[a].version].parts = @ \cup {"wal"}]
    /\ staged' = [staged EXCEPT ![a] = {}]
    /\ UNCHANGED <<current, pending, build, attempt, reader, sweep, clock, faults>>

\* A log that version_paths did not list stays behind.
Flip(a) ==
    /\ At(a, "move")
    /\ "main" \notin staged[a]
    /\ \/ staged[a] = {} /\ UNCHANGED faults
       \/ staged[a] # {} /\ Failure /\ astray' = TRUE
    /\ current' = attempt[a].version
    /\ reader' = Witness(reader, IF Exists(current') THEN file[current'].build ELSE NoGraph)
    /\ Go(a, "flipped")
    /\ UNCHANGED <<file, pending, build, staged, sweep, clock>>

SweepAfterFlip(a) ==
    /\ At(a, "flipped")
    /\ Go(a, "sweep")
    /\ StartSweep(a)
    /\ UNCHANGED <<file, current, pending, build, staged, reader, clock>>

\* Any operation before the flip may fail: an unreadable artifact, a full
\* disk, a failed checkpoint or rename, a pointer that cannot be replaced.
Fails(a) ==
    /\ attempt[a].pc \in {"load", "number", "move"}
    /\ Go(a, "failing")
    /\ UNCHANGED <<file, current, pending, build, staged, reader, sweep, clock, faults>>

\* The collection of the destination is over, or the load failed.
Over(a) == At(a, "failing") \/ (At(a, "sweep") /\ sweep[a].pc = "off")
Verdict(a) == IF At(a, "failing") THEN "failed" ELSE "ok"

\* drop_graph of the staging key, whatever happened; if it fails, the log or
\* the error of the load says so.
Cleanup(a) ==
    /\ Over(a)
    /\ staged' = [staged EXCEPT ![a] = {}]
    /\ End(a, Verdict(a))
    /\ UNCHANGED <<file, current, pending, build, reader, sweep, clock, faults>>

CleanupFails(a) ==
    /\ Over(a)
    /\ Failure
    /\ \E left \in SUBSET staged[a] : staged' = [staged EXCEPT ![a] = left]
    /\ attempt' = [attempt EXCEPT ![a].pc = Verdict(a), ![a].version = NoVersion,
                                  ![a].warned = TRUE]
    /\ UNCHANGED <<file, current, pending, build, reader, sweep, clock, astray>>

\* The process dies; what it wrote stays.
Die(a) ==
    /\ attempt[a].pc \notin Quiet
    /\ End(a, "died")
    /\ sweep' = [sweep EXCEPT ![a] = NoSweep]
    /\ UNCHANGED <<file, current, pending, build, staged, reader, clock, faults>>

----------------------------------------------------------------------------
(* A query: read_handle. *)

\* It collects first ...
Query(r) ==
    /\ reader[r].pc = "idle"
    /\ reader' = [reader EXCEPT ![r].pc = "sweep", ![r].seen = {Live}, ![r].answer = NoGraph,
                             ![r].blind = FALSE]
    /\ StartSweep(r)
    /\ UNCHANGED <<file, current, pending, build, staged, attempt, clock>>

Answer(r, graph) ==
    reader' = [reader EXCEPT ![r].pc = "answered", ![r].answer = graph, ![r].tries = 0,
                             ![r].failed = FALSE, ![r].version = NoVersion]

\* CURRENT that cannot be read is no graph.
Misread(r) ==
    /\ current # NoVersion
    /\ Failure
    /\ reader' = [reader EXCEPT ![r].blind = TRUE, ![r].pc = "answered", ![r].answer = NoGraph,
                             ![r].tries = 0, ![r].failed = FALSE, ![r].version = NoVersion]

\* Mutant: a version that is open is good enough.
LookOnce(r) ==
    /\ reader[r].pc = "sweep"
    /\ sweep[r].pc = "off"
    /\ \/ current = NoVersion /\ Answer(r, NoGraph)
       \/ current # NoVersion /\ reader[r].handle # NoHandle
          /\ Answer(r, reader[r].handle.build)
       \/ current # NoVersion /\ reader[r].handle = NoHandle
          /\ reader' = [reader EXCEPT ![r].pc = "choose"]
    /\ UNCHANGED <<file, current, pending, build, staged, attempt, sweep, clock, faults>>

\* ... then looks at CURRENT: no graph, the version it has open, or another.
Look(r) ==
    /\ reader[r].pc = "sweep"
    /\ sweep[r].pc = "off"
    /\ \/ /\ \/ current = NoVersion /\ Answer(r, NoGraph)
             \/ current # NoVersion /\ current = reader[r].handle.version
                /\ Answer(r, reader[r].handle.build)
             \/ current # NoVersion /\ current # reader[r].handle.version
                /\ reader' = [reader EXCEPT ![r].pc = "choose"]
          /\ UNCHANGED failures
       \/ Misread(r)
    /\ UNCHANGED <<file, current, pending, build, staged, attempt, sweep, clock, astray>>

\* Every try reads CURRENT again, because a collection may have been faster.
Choose(r) ==
    /\ reader[r].pc = "choose"
    /\ reader[r].tries < OpenTries
    /\ \/ /\ reader' = [reader EXCEPT ![r].pc = "open", ![r].version = current]
          /\ UNCHANGED failures
       \/ Misread(r)
    /\ UNCHANGED <<file, current, pending, build, staged, attempt, sweep, clock, astray>>

Open(r) ==
    LET v == reader[r].version
    IN  /\ reader[r].pc = "open"
        /\ IF Exists(v)
           THEN reader' = [reader EXCEPT ![r].handle = [version |-> v, build |-> file[v].build],
                             ![r].pc = "answered", ![r].answer = file[v].build,
                             ![r].tries = 0, ![r].failed = FALSE, ![r].version = NoVersion]
           ELSE reader' = [reader EXCEPT ![r].pc = "choose", ![r].tries = @ + 1]
        /\ UNCHANGED <<file, current, pending, build, staged, attempt, sweep, clock, faults>>

\* The version is there but cannot be opened: its writer's lock lingers.  If
\* even the look whether it is there fails, it counts as gone.
OpenFails(r) ==
    /\ reader[r].pc = "open"
    /\ Exists(reader[r].version)
    /\ \/ /\ reader' = [reader EXCEPT ![r].pc = "choose", ![r].tries = @ + 1, ![r].failed = TRUE]
          /\ UNCHANGED failures
       \/ /\ Failure
          /\ reader' = [reader EXCEPT ![r].pc = "choose", ![r].tries = @ + 1, ![r].blind = TRUE]
    /\ UNCHANGED <<file, current, pending, build, staged, attempt, sweep, clock, astray>>

\* Out of tries: the error, or, if every version was gone, no graph.
GiveUp(r) ==
    /\ reader[r].pc = "choose"
    /\ reader[r].tries = OpenTries
    /\ Answer(r, IF reader[r].failed THEN Error ELSE NoGraph)
    /\ UNCHANGED <<file, current, pending, build, staged, attempt, sweep, clock, faults>>

Return(r) ==
    /\ reader[r].pc = "answered"
    /\ reader' = [reader EXCEPT ![r].pc = "idle", ![r].seen = {}, ![r].answer = NoGraph,
                             ![r].blind = FALSE]
    /\ UNCHANGED <<file, current, pending, build, staged, attempt, sweep, clock, faults>>

\* Drop: the store of a server that stops lets its version go and collects.
CloseStore(r) ==
    /\ reader[r].pc = "idle"
    /\ sweep[r].pc = "off"
    /\ reader[r].handle # NoHandle
    /\ reader' = [reader EXCEPT ![r].handle = NoHandle]
    /\ StartSweep(r)
    /\ UNCHANGED <<file, current, pending, build, staged, attempt, clock>>

\* Ten minutes pass: whatever was written so far is beyond the grace period.
TimePasses ==
    /\ clock.old < clock.now
    /\ clock' = [clock EXCEPT !.old = clock.now]
    /\ UNCHANGED <<file, current, pending, build, staged, attempt, reader, sweep, faults>>

----------------------------------------------------------------------------
Publish(a) == Close(a) \/ Number(a) \/ MoveMain(a) \/ MoveLog(a) \/ Flip(a)
              \/ SweepAfterFlip(a)
Replacement(a) == Begin(a) \/ Load(a) \/ Publish(a) \/ Fails(a) \/ Cleanup(a)
                  \/ CleanupFails(a) \/ Die(a)
Reading(r) == Query(r) \/ Look(r) \/ Choose(r) \/ Open(r) \/ OpenFails(r)
              \/ GiveUp(r) \/ Return(r) \/ CloseStore(r)
Sweeping(x) == SweepList(x) \/ SweepListPartly(x) \/ SweepDelete(x) \/ SweepDeletePartly(x)

Next ==
    \/ \E a \in Attempts : Replacement(a)
    \/ \E r \in Readers : Reading(r)
    \/ \E x \in Actors : Sweeping(x)
    \/ TimePasses

Spec == Init /\ [][Next]_vars
----------------------------------------------------------------------------
BuildOrNone == Attempts \cup {NoGraph}
VersionOrNone == Versions \cup {NoVersion}

TypeOK ==
    /\ file \in [Versions -> [build : BuildOrNone, parts : SUBSET {"main", "wal"}]]
    /\ current \in VersionOrNone
    /\ pending \subseteq Versions
    /\ build \in [Attempts -> [loaded : SUBSET ArtifactSets, wal : BOOLEAN,
                               mtime : 0..Cardinality(Attempts)]]
    /\ staged \in [Attempts -> SUBSET {"main", "wal"}]
    /\ attempt \in [Attempts ->
         [pc : {"load", "number", "move", "flipped", "sweep", "failing"} \cup Quiet,
          version : VersionOrNone, warned : BOOLEAN]]
    /\ reader \in [Readers ->
         [pc : {"idle", "sweep", "choose", "open", "answered"},
          handle : [version : VersionOrNone, build : BuildOrNone], version : VersionOrNone,
          tries : 0..OpenTries, failed : BOOLEAN, blind : BOOLEAN, seen : SUBSET BuildOrNone,
          answer : BuildOrNone \cup {Error}]]
    /\ sweep \in [Actors -> [pc : {"off", "list", "delete"},
         current : VersionOrNone, blind : BOOLEAN, doomed : SUBSET Versions]]
    /\ clock \in [now : 0..Cardinality(Attempts), old : 0..Cardinality(Attempts)]
    /\ failures \in 0..MaxFailures
    /\ astray \in BOOLEAN

\* Every file of a version is there, and every artifact set is in it.
Whole(v) ==
    LET b == file[v].build
    IN  /\ Exists(v)
        /\ build[b].loaded = ArtifactSets
        /\ build[b].wal => "wal" \in file[v].parts

\* CURRENT never names a version that is partly loaded, partly moved or
\* collected, wherever a load failed or died, whoever collected meanwhile and
\* whichever reads failed, until one of these goes astray: a collection that
\* cannot read CURRENT while an orphan is the latest version, one that cannot
\* list or date the latest, a number drawn from a listing without it, or a log
\* that the move did not list.
CurrentIsWhole == ~astray /\ current # NoVersion => Whole(current)

\* A query answers with a graph that was live at some moment since it began,
\* and with none only if there was none then ("transparently reopen when it
\* moved"), unless it reports that a version could not be opened, a read of its
\* own failed, or the key was replaced within every one of its tries: then it
\* answers as if the graph did not exist.
AnswersLive ==
    \A r \in Readers :
        ~astray /\ reader[r].pc = "answered" =>
            \/ reader[r].answer \in reader[r].seen \cup {Error}
            \/ /\ reader[r].answer = NoGraph
               /\ reader[r].blind \/ Cardinality(reader[r].seen) > OpenTries

\* Unless its process died or it said that it could not, an attempt that ended
\* has left nothing in its staging directory.
NoStagingLeft ==
    \A a \in Attempts :
        attempt[a].pc \in {"ok", "failed"} /\ ~attempt[a].warned => staged[a] = {}

StoreInv == TypeOK /\ CurrentIsWhole /\ NoStagingLeft

\* Seen from outside, the key changes in one step per successful attempt, for as
\* long as nothing goes astray; what queries answer is AnswersLive's concern.
Replaced(a) == attempt[a].pc \in {"flipped", "sweep"}
OutcomeOf(a) ==
    IF attempt[a].pc \in Quiet THEN attempt[a].pc
    ELSE IF Replaced(a) THEN "replaced" ELSE "running"
Port == INSTANCE GraphKeyPort WITH
          live <- Live, outcome <- [a \in Attempts |-> OutcomeOf(a)], broken <- astray
ImplementsKeyPort == Port!Spec
=============================================================================
