---------------------------- MODULE ArtifactCache ----------------------------
(***************************************************************************)
(* The server's cache of parsed graph artifacts: MtimeCache               *)
(* (infrastructure/cache/mtime.rs) as ArtifactCache uses it               *)
(* (infrastructure/artifact_repository.rs), with the index sidecar of     *)
(* infrastructure/artifact_index_store.rs.                                *)
(*                                                                         *)
(* A caller is a closure of the blocking pool.  It probes the identity of *)
(* nodes.jsonl and edges.jsonl, looks the directory up, takes the         *)
(* directory's gate, looks again, reads the two files, inserts and        *)
(* evicts, drops the gates of what it evicted and, if it wants indexes,   *)
(* probes the files again, fills the snapshot's OnceLock from the sidecar *)
(* or by building, and writes the sidecar.  A directory may be rewritten  *)
(* in place at any time; each write gives a file a fresh stamp, which     *)
(* stands for both its identity (mtime, length) and its content.          *)
(***************************************************************************)
EXTENDS Naturals, FiniteSets

CONSTANTS Dirs,        \* artifact directories, the cache's keys
          Callers,     \* closures that may call at the same time
          MaxEntries,  \* CacheLimits.max_entries
          MaxWeight,   \* CacheLimits.max_weight_bytes
          Workloads,   \* what callers and their surroundings may do
          MaxStamp,    \* bound on the writes of one file
          NoGate,      \* no gate for a directory
          NoSnap       \* no snapshot

ASSUME BudgetAssumption ==
    /\ {MaxEntries, MaxWeight, MaxStamp} \subseteq Nat \ {0}
    /\ IsFiniteSet(Dirs) /\ Dirs # {}
    /\ IsFiniteSet(Callers)
    /\ NoGate \notin Nat /\ NoSnap \notin Nat

\* The directories asked for, the weights their snapshots can have, and whether
\* entries expire (the idle TTL is on), indexing invalidates them, reads fail,
\* files are rewritten and callers also ask for indexed snapshots.
ASSUME WorkloadAssumption ==
    Workloads \subseteq
      [dirs : SUBSET Dirs, weights : SUBSET (1..(MaxWeight + 1)),
       happens : SUBSET {"expire", "invalidate", "fail", "rewrite", "index"}]

VARIABLES disk,     \* directory -> stamps of its two files
          cache,    \* directory -> its slot
          older,    \* the order of touched_seq: pairs of retained directories
          gates,    \* directory -> its gate
          caller,   \* caller -> its locals
          snaps,    \* snapshot object -> its content and its indexes
          sidecar,  \* directory -> the persisted indexes
          swept,    \* invalidated directories whose gates are still there
          workload, \* the member of Workloads that runs
          torn,     \* history: directories whose gate was removed in use
          failed    \* history: directories whose load failed

past == <<torn, failed, workload>>
entries == <<cache, older>>
vars == <<disk, entries, gates, caller, snaps, sidecar, swept, past>>

Files == [nodes : 0..MaxStamp, edges : 0..MaxStamp]
Unread == [nodes |-> 0, edges |-> 0]
GateIds == 1..(Cardinality(Dirs) + Cardinality(Callers))
SnapIds == GateIds

Idle == [pc |-> "idle", dir |-> CHOOSE d \in Dirs : TRUE, probed |-> Unread,
         gate |-> NoGate, read |-> Unread, snap |-> NoSnap, evicted |-> {}]

\* A value with the freshness it was loaded for and its weight.
NoSlot == [fresh |-> Unread, snap |-> NoSnap, weight |-> 0]
Slots == [fresh : Files, snap : SnapIds, weight : 1..MaxWeight]

\* A snapshot's indexes: none yet, being initialised, or positions into the
\* arrays of the content they were built from.
NoIndex == [state |-> "none", of |-> Unread]
Building == [state |-> "building", of |-> Unread]
IndexOf(content) == [state |-> "ready", of |-> content]
Dropped == [content |-> Unread, index |-> NoIndex]
NoSidecar == [source |-> Unread, index |-> Unread]

Init ==
    /\ disk = [d \in Dirs |-> [nodes |-> 1, edges |-> 1]]
    /\ cache = [d \in Dirs |-> NoSlot]
    /\ older = {}
    /\ gates = [d \in Dirs |-> NoGate]
    /\ caller = [c \in Callers |-> Idle]
    /\ snaps = [s \in SnapIds |-> Dropped]
    /\ sidecar = [d \in Dirs |-> NoSidecar]
    /\ swept = {}
    /\ torn = {} /\ failed = {}
    /\ workload \in Workloads

----------------------------------------------------------------------------
Happens(event) == event \in workload.happens
At(c, pc) == caller[c].pc = pc
Becomes(c, locals) == caller' = [caller EXCEPT ![c] = locals]
Go(c, pc) == Becomes(c, [caller[c] EXCEPT !.pc = pc])
SetIndex(s, index) == snaps' = [snaps EXCEPT ![s] = [@ EXCEPT !.index = index]]
Keys(slots) == {d \in Dirs : slots[d] # NoSlot}
Retained == Keys(cache)

\* peek: the slot of the caller's directory, if is_fresh accepts it.
Hits(c) == /\ caller[c].dir \in Retained
           /\ cache[caller[c].dir].fresh = caller[c].probed

\* Slot::touch: the directory becomes the most recently used.
Touched(d) == {p \in older : p[1] # d} \cup ((Retained \ {d}) \X {d})

\* What stays of some slots and their order.
Only(slots, kept) == [d \in Dirs |-> IF d \in kept THEN slots[d] ELSE NoSlot]
Keep(slots, order, kept) == /\ cache' = Only(slots, kept)
                            /\ older' = order \cap (kept \X kept)

GatesInUse == {gates[d] : d \in Dirs} \cup {caller[c].gate : c \in Callers}
SnapsInUse == {cache[d].snap : d \in Dirs} \cup {caller[c].snap : c \in Callers}
FreshGate == CHOOSE g \in GateIds : g \notin GatesInUse
FreshSnap == CHOOSE s \in SnapIds : s \notin SnapsInUse

Holding == {"recheck", "load_nodes", "load_edges", "insert", "drop_gates"}
Loading == {"load_nodes", "load_edges", "insert"}
Free(gate) == \A c \in Callers : caller[c].gate = gate => caller[c].pc \notin Holding

----------------------------------------------------------------------------
(* A request: probe both files, then the fast path. *)

\* snapshot_blocking begins: ArtifactFreshness::probe reads nodes.jsonl's
\* metadata, then edges.jsonl's.
Start(c, d) ==
    /\ At(c, "idle") /\ d \in workload.dirs
    /\ Becomes(c, [Idle EXCEPT !.pc = "probe_edges", !.dir = d,
                    !.probed = [nodes |-> disk[d].nodes, edges |-> 0]])
    /\ UNCHANGED <<disk, entries, gates, snaps, sidecar, swept, past>>

ProbedEdges(c) == [nodes |-> caller[c].probed.nodes, edges |-> disk[caller[c].dir].edges]

ProbeEdges(c) ==
    /\ At(c, "probe_edges")
    /\ Becomes(c, [caller[c] EXCEPT !.pc = "peek",
                    !.probed = ProbedEdges(c)])
    /\ UNCHANGED <<disk, entries, gates, snaps, sidecar, swept, past>>

\* A hit, on the fast path or under the gate: touch the slot, leave with its
\* snapshot.
Hit(c) ==
    /\ caller[c].pc \in {"peek", "recheck"}
    /\ Hits(c)
    /\ older' = Touched(caller[c].dir)
    /\ Becomes(c, [caller[c] EXCEPT !.pc = "have", !.snap = cache[caller[c].dir].snap,
                                    !.gate = NoGate, !.probed = Unread])
    /\ UNCHANGED <<disk, cache, gates, snaps, sidecar, swept, past>>

\* Mutant: every caller makes a gate.
GateForAlways(d) == FreshGate

\* gate_for: the directory's gate, made if there is none.
GateFor(d) == IF gates[d] = NoGate THEN FreshGate ELSE gates[d]

Miss(c) ==
    LET gate == GateFor(caller[c].dir)
    IN  /\ At(c, "peek")
        /\ ~Hits(c)
        /\ gates' = [gates EXCEPT ![caller[c].dir] = gate]
        /\ Becomes(c, [caller[c] EXCEPT !.pc = "wait", !.gate = gate])
        /\ UNCHANGED <<disk, entries, snaps, sidecar, swept, past>>

LockGate(c) ==
    /\ At(c, "wait")
    /\ Free(caller[c].gate)
    /\ Go(c, "recheck")
    /\ UNCHANGED <<disk, entries, gates, snaps, sidecar, swept, past>>

\* Under the gate: load only if nobody cached a fresh value meanwhile.
Recheck(c) ==
    /\ At(c, "recheck")
    /\ ~Hits(c)
    /\ Go(c, "load_nodes")
    /\ UNCHANGED <<disk, entries, gates, snaps, sidecar, swept, past>>

----------------------------------------------------------------------------
(* The load and the insertion, with the directory's gate held. *)

LoadNodes(c) ==
    /\ At(c, "load_nodes")
    /\ Becomes(c, [caller[c] EXCEPT !.pc = "load_edges",
                    !.read = [nodes |-> disk[caller[c].dir].nodes, edges |-> 0]])
    /\ UNCHANGED <<disk, entries, gates, snaps, sidecar, swept, past>>

LoadEdges(c) ==
    LET content == [nodes |-> caller[c].read.nodes, edges |-> disk[caller[c].dir].edges]
    IN  /\ At(c, "load_edges")
        /\ Becomes(c, [caller[c] EXCEPT !.pc = "insert", !.read = content,
                                        !.snap = FreshSnap])
        /\ snaps' = [s \in SnapIds |->
                       IF s = FreshSnap THEN [content |-> content, index |-> NoIndex]
                       ELSE IF s \in SnapsInUse THEN snaps[s] ELSE Dropped]
        /\ UNCHANGED <<disk, entries, gates, sidecar, swept, past>>

\* An error of either read leaves at once: nothing cached, the gate dropped
\* but still in the map.
LoadFails(c) ==
    /\ Happens("fail")
    /\ caller[c].pc \in {"load_nodes", "load_edges"}
    /\ Becomes(c, Idle)
    /\ failed' = failed \cup {caller[c].dir}
    /\ UNCHANGED <<disk, entries, gates, snaps, sidecar, swept, torn, workload>>

\* A value heavier than the whole budget is served without being kept.
Oversize(c) ==
    /\ At(c, "insert")
    /\ \E w \in workload.weights : w > MaxWeight
    /\ Keep(cache, older, Retained \ {caller[c].dir})
    /\ Becomes(c, [caller[c] EXCEPT !.pc = "drop_gates",
                                    !.evicted = {caller[c].dir}])
    /\ UNCHANGED <<disk, gates, snaps, sidecar, swept, past>>

\* The retained weight, counted by units, and the two limits.
Weight(slots) ==
    Cardinality({unit \in Dirs \X (1..MaxWeight) : unit[2] <= slots[unit[1]].weight})
Fits(slots) == Cardinality(Keys(slots)) <= MaxEntries /\ Weight(slots) <= MaxWeight

\* evict_locked: of the live slots the least recently used go until both limits
\* are met, so the most of the newest stay.
Newest(kept, live, order) ==
    \A d \in kept, e \in live : <<d, e>> \in order => e \in kept
Spared(kept, live, slots, order) ==
    /\ Newest(kept, live, order) /\ Fits(Only(slots, kept))
    /\ \A more \in SUBSET live :
         Newest(more, live, order) /\ Fits(Only(slots, more)) => more \subseteq kept

\* Mutant: the freshness is probed at the insertion.
StampOfNow(c) == disk[caller[c].dir]

\* The freshness kept with a value is the one probed before its load.
StampOf(c) == caller[c].probed

Insert(c) ==
    LET d == caller[c].dir
        order == Touched(d)
    IN  /\ At(c, "insert")
        /\ \E w \in {x \in workload.weights : x <= MaxWeight},
              expired \in SUBSET (Retained \ {d}) :
             LET live == (Retained \cup {d}) \ expired
                 slots == [cache EXCEPT ![d] = [fresh |-> StampOf(c),
                                                snap |-> caller[c].snap, weight |-> w]]
             IN  /\ Happens("expire") \/ expired = {}
                 /\ \E kept \in SUBSET live :
                      /\ Spared(kept, live, slots, order)
                      /\ Keep(slots, order, kept)
                      /\ Becomes(c, [caller[c] EXCEPT !.pc = "drop_gates",
                           !.evicted = (Retained \cup {d}) \ kept])
        /\ UNCHANGED <<disk, gates, snaps, sidecar, swept, past>>

\* The gates of the evicted keys are removed after the cache lock is released,
\* whoever holds them or waits for them; then the caller's own guard drops.
GatesWithout(dirs) == [d \in Dirs |-> IF d \in dirs THEN NoGate ELSE gates[d]]
RemoveGates(dirs, users) ==
    /\ gates' = GatesWithout(dirs)
    /\ torn' = torn \cup {d \in dirs : gates[d] \in {caller[c].gate : c \in users} \ {NoGate}}

DropGates(c) ==
    /\ At(c, "drop_gates")
    /\ RemoveGates(caller[c].evicted, Callers \ {c})
    /\ Becomes(c, [caller[c] EXCEPT !.pc = "have", !.gate = NoGate,
                  !.evicted = {}, !.probed = Unread, !.read = Unread])
    /\ UNCHANGED <<disk, entries, snaps, sidecar, swept, failed, workload>>

\* invalidate_where, after an indexing job: the entries under the cache lock,
\* then their gates under the other one.
Invalidate(dirs) ==
    /\ Happens("invalidate")
    /\ swept = {}
    /\ dirs # {} /\ dirs \subseteq Retained
    /\ Keep(cache, older, Retained \ dirs)
    /\ swept' = dirs
    /\ UNCHANGED <<disk, gates, caller, snaps, sidecar, past>>

SweepGates ==
    /\ swept # {}
    /\ RemoveGates(swept, Callers)
    /\ swept' = {}
    /\ UNCHANGED <<disk, entries, caller, snaps, sidecar, failed, workload>>

----------------------------------------------------------------------------
(* The indexes of a snapshot: load_for_repo and prepare_indexes_blocking. *)

\* snapshot(): the caller leaves without indexes.
ReturnPlain(c) ==
    /\ At(c, "have")
    /\ Becomes(c, Idle)
    /\ UNCHANGED <<disk, entries, gates, snaps, sidecar, swept, past>>

\* indexed_snapshot(): probe the files a second time.
ProbeSourceNodes(c) ==
    /\ Happens("index")
    /\ At(c, "have")
    /\ Becomes(c, [caller[c] EXCEPT !.pc = "source_edges",
                    !.probed = [nodes |-> disk[caller[c].dir].nodes, edges |-> 0]])
    /\ UNCHANGED <<disk, entries, gates, snaps, sidecar, swept, past>>

ProbeSourceEdges(c) ==
    /\ At(c, "source_edges")
    /\ Becomes(c, [caller[c] EXCEPT !.pc = "init_index",
                    !.probed = ProbedEdges(c)])
    /\ UNCHANGED <<disk, entries, gates, snaps, sidecar, swept, past>>

IndexState(c) == snaps[caller[c].snap].index.state

\* OnceLock::get_or_init: ready already, or this caller initialises it while
\* the others wait.
IndexReady(c) ==
    /\ At(c, "init_index")
    /\ IndexState(c) = "ready"
    /\ Becomes(c, Idle)
    /\ UNCHANGED <<disk, entries, gates, snaps, sidecar, swept, past>>

Claimable(state) == state = "none"
ClaimIndex(c) ==
    /\ At(c, "init_index")
    /\ Claimable(IndexState(c))
    /\ SetIndex(caller[c].snap, Building)
    /\ Go(c, "fill_index")
    /\ UNCHANGED <<disk, entries, gates, sidecar, swept, past>>

\* A sidecar whose header is the probed identity is used as it is.
ReuseSidecar(c) ==
    /\ At(c, "fill_index")
    /\ sidecar[caller[c].dir].source = caller[c].probed
    /\ SetIndex(caller[c].snap, IndexOf(sidecar[caller[c].dir].index))
    /\ Becomes(c, Idle)
    /\ UNCHANGED <<disk, entries, gates, sidecar, swept, past>>

\* No sidecar, or one of another identity: build from the snapshot.
MissSidecar(c) ==
    /\ At(c, "fill_index")
    /\ sidecar[caller[c].dir].source # caller[c].probed
    /\ Go(c, "persist")
    /\ UNCHANGED <<disk, entries, gates, snaps, sidecar, swept, past>>

\* The built indexes are persisted under the probed identity.  A failed write
\* leaves them in memory only; two callers of one process share the name of
\* the temporary file, and the checksum rejects what they mix.
PersistIndex(c) ==
    LET content == snaps[caller[c].snap].content
        d == caller[c].dir
        mixed == \E e \in Callers \ {c} : At(e, "persist") /\ caller[e].dir = d
        written == [source |-> caller[c].probed, index |-> content]
    IN  /\ At(c, "persist")
        /\ SetIndex(caller[c].snap, IndexOf(content))
        /\ \E side \in {sidecar[d], written} \cup (IF mixed THEN {NoSidecar} ELSE {}) :
              sidecar' = [sidecar EXCEPT ![d] = side]
        /\ Becomes(c, Idle)
        /\ UNCHANGED <<disk, entries, gates, swept, past>>

----------------------------------------------------------------------------
\* Another process writes one of the two files in place.
Rewrite(d, file) ==
    /\ Happens("rewrite") /\ d \in workload.dirs
    /\ disk[d][file] < MaxStamp
    /\ disk' = [disk EXCEPT ![d][file] = @ + 1]
    /\ UNCHANGED <<entries, gates, caller, snaps, sidecar, swept, past>>

Step(c) ==
    \/ ProbeEdges(c)
    \/ Hit(c)
    \/ Miss(c)
    \/ LockGate(c)
    \/ Recheck(c)
    \/ LoadNodes(c)
    \/ LoadEdges(c)
    \/ LoadFails(c)
    \/ Oversize(c)
    \/ Insert(c)
    \/ DropGates(c)
    \/ ReturnPlain(c)
    \/ ProbeSourceNodes(c)
    \/ ProbeSourceEdges(c)
    \/ IndexReady(c)
    \/ ClaimIndex(c)
    \/ ReuseSidecar(c)
    \/ MissSidecar(c)
    \/ PersistIndex(c)

Next ==
    \/ \E c \in Callers, d \in Dirs : Start(c, d)
    \/ \E c \in Callers : Step(c)
    \/ \E dirs \in SUBSET Dirs : Invalidate(dirs)
    \/ SweepGates
    \/ \E d \in Dirs, file \in {"nodes", "edges"} : Rewrite(d, file)

Spec == Init /\ [][Next]_vars
----------------------------------------------------------------------------
Pcs == {"idle", "probe_edges", "peek", "wait"} \cup Holding
       \cup {"have", "source_edges", "init_index", "fill_index", "persist"}
Locals == [pc : Pcs, dir : Dirs, probed : Files, gate : GateIds \cup {NoGate},
           read : Files, snap : SnapIds \cup {NoSnap}, evicted : SUBSET Dirs]
IndexStates == [state : {"none", "building", "ready"}, of : Files]

TypeOK ==
    /\ disk \in [Dirs -> Files]
    /\ cache \in [Dirs -> Slots \cup {NoSlot}]
    /\ older \subseteq Retained \X Retained
    /\ gates \in [Dirs -> GateIds \cup {NoGate}]
    /\ caller \in [Callers -> Locals]
    /\ snaps \in [SnapIds -> [content : Files, index : IndexStates]]
    /\ sidecar \in [Dirs -> [source : Files, index : Files]]
    /\ workload \in Workloads
    /\ swept \subseteq Dirs /\ torn \subseteq Dirs /\ failed \subseteq Dirs
    /\ \A c \in Callers : caller[c].gate # NoGate <=> caller[c].pc \in Holding \cup {"wait"}

\* The cache is within both budgets whatever the order of loads, hits, evictions
\* and invalidations: the loop of evict_locked.
BudgetHeld == Fits(cache)

\* A slot that a probe of the files as they are now would accept holds exactly
\* what those files contain: because the identity kept with a value was probed
\* before the value was read.
HonestCache ==
    \A d \in Retained :
        cache[d].fresh = disk[d] => snaps[cache[d].snap].content = disk[d]

\* When nothing runs, a gate is in the map only for a retained entry ("evicted
\* together with its entry"), whatever was evicted, expired or invalidated
\* while others loaded; a load that failed left one behind.
IdleGatesHaveEntries ==
    (swept = {} /\ \A c \in Callers : At(c, "idle")) =>
        \A d \in Dirs : gates[d] # NoGate => d \in Retained \cup failed

\* "load exactly once across concurrent callers": two callers never load one
\* directory at the same time, and a caller that loads has no fresh value to
\* take (the second look under the gate), unless the gate was removed while
\* somebody held it or waited for it, so that the next caller made another.
LoadsOnce ==
    \A c \in Callers :
        caller[c].pc \in Loading /\ caller[c].dir \notin torn =>
            /\ ~Hits(c)
            /\ \A e \in Callers \ {c} :
                 caller[e].pc \in Loading => caller[e].dir # caller[c].dir

\* The budgets, the gates and the single load, whatever the order of loads, hits,
\* evictions and invalidations.
CacheInv == TypeOK /\ BudgetHeld /\ IdleGatesHaveEntries /\ LoadsOnce

\* A sidecar that the next process would accept for the files as they are now
\* describes those files.
SidecarHonest ==
    \A d \in Dirs : sidecar[d].source = disk[d] => sidecar[d].index = disk[d]
=============================================================================
