-------------------------- MODULE FileCachesProofs --------------------------
(***************************************************************************)
(* The two caches over files that another process rewrites: CacheInv and   *)
(* HonestCache for the artifacts, any number of directories and callers    *)
(* and any budgets; WikiInv and RunsWhole for every wiki, any number of    *)
(* commits, runs and requests, and runs that die anywhere.                 *)
(***************************************************************************)
EXTENDS ArtifactCache, WikiBundle, FiniteSetTheorems, WellFoundedInduction, TLAPS

-----------------------------------------------------------------------------
(* The artifact cache.                                                     *)
(*                                                                         *)
(* Freshness turns on an order: a value's identity was probed before its   *)
(* files were read, so along a load  probed <= read <= files  holds file   *)
(* by file.  The single load turns on the gates: unless a gate was removed *)
(* in use, whoever waits for a directory's gate or holds it uses the one   *)
(* in the map, and one gate has one holder.                                *)


Early == {"idle", "probe_edges", "peek", "wait", "recheck", "load_nodes", "load_edges"}
Probing == {"probe_edges", "peek", "wait", "recheck"} \cup Loading
Gated == Holding \cup {"wait"}
Asking == {"wait", "recheck"} \cup Loading

Below(a, b) == a.nodes <= b.nodes /\ a.edges <= b.edges

\* What a caller has probed and read is not newer than the files are now, and
\* what it read is not older than what it probed.
Stamped(l, now) ==
  /\ l.pc \in Probing => Below(l.probed, now)
  /\ l.pc = "load_edges" => l.probed.nodes <= l.read.nodes /\ l.read.nodes <= now.nodes
  /\ l.pc = "insert" => Below(l.probed, l.read) /\ Below(l.read, now)
StampsRight == \A c \in Callers : Stamped(caller[c], disk[caller[c].dir])

\* A caller has a snapshot from the end of its load, with what it read.
SnapsHeld == \A c \in Callers :
  /\ caller[c].snap = NoSnap <=> caller[c].pc \in Early
  /\ At(c, "insert") => snaps[caller[c].snap].content = caller[c].read

\* A slot's content is not older than its freshness, and not newer than the files.
SlotsRight == \A d \in Retained :
  /\ Below(cache[d].fresh, snaps[cache[d].snap].content)
  /\ Below(snaps[cache[d].snap].content, disk[d])

\* Unless a gate was removed in use, who uses a directory's gate uses the one
\* in the map.
GatesKept == \A c \in Callers :
  caller[c].pc \in Gated /\ caller[c].dir \notin torn => gates[caller[c].dir] = caller[c].gate

OneHolder == \A c, e \in Callers :
  c # e /\ caller[c].gate = caller[e].gate /\ caller[c].pc \in Holding
    => caller[e].pc \notin Holding

Fresh(l, slot) == slot # NoSlot /\ slot.fresh = l.probed
NothingToTake == \A c \in Callers :
  caller[c].pc \in Loading /\ caller[c].dir \notin torn
    => ~Fresh(caller[c], cache[caller[c].dir])

\* Whose gate it is: a caller that will cache the directory, or that is about
\* to remove the gate.
Claims(l, d) ==
  \/ l.pc \in Asking /\ l.dir = d
  \/ l.pc = "drop_gates" /\ d \in l.evicted
GatesWanted == \A d \in Dirs :
  gates[d] # NoGate => d \in Retained \cup failed \cup swept \/ \E c \in Callers : Claims(caller[c], d)

CacheInd == /\ TypeOK /\ BudgetHeld /\ StampsRight /\ SnapsHeld /\ SlotsRight
            /\ GatesKept /\ OneHolder /\ NothingToTake /\ GatesWanted

-----------------------------------------------------------------------------
\* The image of a finite set has at most as many members as the set.
LEMMA ImageSmall ==
  ASSUME NEW S, IsFiniteSet(S), NEW T, NEW f \in [S -> T]
  PROVE  IsFiniteSet({f[x] : x \in S}) /\ Cardinality({f[x] : x \in S}) <= Cardinality(S)
<1>1. f \in Surjection(S, {f[x] : x \in S})
  BY DEF Surjection
<1> QED BY <1>1, FS_Surjection

\* There is always an identifier that nobody uses.
LEMMA Spare ==
  ASSUME NEW T, NEW f \in [Dirs -> T], NEW g \in [Callers -> T], NEW none, none \notin Nat,
         none \in {f[d] : d \in Dirs} \cup {g[c] : c \in Callers}
  PROVE  \E i \in GateIds : i \notin {f[d] : d \in Dirs} \cup {g[c] : c \in Callers}
<1> DEFINE A == {f[d] : d \in Dirs}
           B == {g[c] : c \in Callers}
           n == Cardinality(Dirs) + Cardinality(Callers)
<1> SUFFICES ASSUME GateIds \subseteq A \cup B PROVE FALSE
  OBVIOUS
<1>1. /\ IsFiniteSet(A) /\ Cardinality(A) <= Cardinality(Dirs) /\ Cardinality(Dirs) \in Nat
      /\ IsFiniteSet(B) /\ Cardinality(B) <= Cardinality(Callers) /\ Cardinality(Callers) \in Nat
  <2>1. IsFiniteSet(Dirs) /\ IsFiniteSet(Callers)
    BY BudgetAssumption
  <2>2. IsFiniteSet(A) /\ Cardinality(A) <= Cardinality(Dirs)
    BY <2>1, ImageSmall
  <2>3. IsFiniteSet(B) /\ Cardinality(B) <= Cardinality(Callers)
    BY <2>1, ImageSmall
  <2> QED BY <2>1, <2>2, <2>3, FS_CardinalityType
<1>2. /\ IsFiniteSet(A \cup B) /\ Cardinality(A \cup B) <= n
      /\ Cardinality(A \cup B) \in Nat
  <2>1. IsFiniteSet(A \cup B) /\ Cardinality(A \cup B) = Cardinality(A) + Cardinality(B) - Cardinality(A \cap B)
    BY <1>1, FS_Union
  <2>2. Cardinality(A) \in Nat /\ Cardinality(B) \in Nat /\ Cardinality(A \cap B) \in Nat
    BY <1>1, FS_CardinalityType, FS_Subset
  <2>3. Cardinality(A \cup B) \in Nat
    BY <2>1, FS_CardinalityType
  <2> HIDE DEF A, B
  <2> QED BY <1>1, <2>1, <2>2, <2>3
<1>3. n \in Nat
  BY <1>1
<1>4. IsFiniteSet(GateIds) /\ Cardinality(GateIds) = n
  <2> HIDE DEF n
  <2>1. IsFiniteSet(1..n) /\ Cardinality(1..n) = IF 1 > n THEN 0 ELSE n - 1 + 1
    BY <1>3, FS_Interval
  <2>2. GateIds = 1..n
    BY DEF GateIds, n
  <2> QED BY <1>3, <2>1, <2>2
<1>5. none \notin GateIds
  BY <1>3 DEF GateIds
<1>6. /\ IsFiniteSet(GateIds \cup {none}) /\ Cardinality(GateIds \cup {none}) = n + 1
  BY <1>4, <1>5, FS_AddElement
<1>7. Cardinality(GateIds \cup {none}) <= Cardinality(A \cup B)
  <2>1. GateIds \cup {none} \in SUBSET (A \cup B)
    OBVIOUS
  <2> HIDE DEF A, B
  <2> QED BY <1>2, <2>1, FS_Subset
<1> HIDE DEF A, B, n
<1> QED BY <1>2, <1>3, <1>6, <1>7

\* There are more gate numbers than gates in the map and in callers' hands, so gate_for's new gate is one nobody has.
LEMMA FreshGateUnused ==
  ASSUME TypeOK, NEW c \in Callers, caller[c].gate = NoGate
  PROVE  FreshGate \in GateIds
<1> DEFINE f == [d \in Dirs |-> gates[d]]
           g == [e \in Callers |-> caller[e].gate]
           T == GateIds \cup {NoGate}
<1>1. f \in [Dirs -> T] /\ g \in [Callers -> T]
  BY DEF TypeOK, Locals
<1>2. GatesInUse = {f[d] : d \in Dirs} \cup {g[e] : e \in Callers}
  BY DEF GatesInUse
<1>3. NoGate \in GatesInUse
  BY DEF GatesInUse
<1> HIDE DEF f, g, T
<1>4. NoGate \notin Nat /\ NoGate \in {f[d] : d \in Dirs} \cup {g[e] : e \in Callers}
  BY <1>2, <1>3, BudgetAssumption
<1>5. \E i \in GateIds : i \notin {f[d] : d \in Dirs} \cup {g[e] : e \in Callers}
  BY <1>1, <1>4, Spare
<1>6. \E i \in GateIds : i \notin GatesInUse
  BY <1>2, <1>5
<1> QED BY <1>6 DEF FreshGate

\* Likewise a load makes a snapshot object that no slot and no caller holds.
LEMMA FreshSnapUnused ==
  ASSUME TypeOK, NEW c \in Callers, caller[c].snap = NoSnap
  PROVE  FreshSnap \in SnapIds /\ FreshSnap \notin SnapsInUse
<1> DEFINE f == [d \in Dirs |-> cache[d].snap]
           g == [e \in Callers |-> caller[e].snap]
           T == SnapIds \cup {NoSnap}
<1>1. f \in [Dirs -> T] /\ g \in [Callers -> T]
  BY DEF TypeOK, Locals, Slots, NoSlot
<1>2. SnapsInUse = {f[d] : d \in Dirs} \cup {g[e] : e \in Callers}
  BY DEF SnapsInUse
<1>3. NoSnap \in SnapsInUse
  BY DEF SnapsInUse
<1> HIDE DEF f, g, T
<1>4. NoSnap \notin Nat /\ NoSnap \in {f[d] : d \in Dirs} \cup {g[e] : e \in Callers}
  BY <1>2, <1>3, BudgetAssumption
<1>5. \E i \in GateIds : i \notin {f[d] : d \in Dirs} \cup {g[e] : e \in Callers}
  BY <1>1, <1>4, Spare
<1>6. \E i \in SnapIds : i \notin SnapsInUse
  BY <1>2, <1>5 DEF SnapIds
<1> QED BY <1>6 DEF FreshSnap

\* Fewer entries fit as well.
LEMMA FitsLess ==
  ASSUME NEW slots \in [Dirs -> Slots \cup {NoSlot}], Fits(slots), NEW kept \in SUBSET Dirs
  PROVE  Fits(Only(slots, kept))
<1> DEFINE units(x) == {unit \in Dirs \X (1..MaxWeight) : unit[2] <= x[unit[1]].weight}
<1>1. Keys(Only(slots, kept)) \subseteq Keys(slots) /\ IsFiniteSet(Keys(slots))
  BY BudgetAssumption, FS_Subset DEF Keys, Only
<1>2. units(Only(slots, kept)) \subseteq units(slots)
  <2> SUFFICES ASSUME NEW d \in Dirs, NEW n \in 1..MaxWeight, n <= Only(slots, kept)[d].weight
               PROVE  n <= slots[d].weight
    OBVIOUS
  <2>1. CASE d \in kept
    BY <2>1 DEF Only
  <2>2. CASE d \notin kept
    BY <2>2, BudgetAssumption DEF Only, NoSlot
  <2> QED BY <2>1, <2>2
<1>3. IsFiniteSet(units(slots))
  <2>a. MaxWeight \in Int /\ 1 \in Int
    BY BudgetAssumption
  <2>b. IsFiniteSet(1..MaxWeight)
    BY <2>a, FS_Interval
  <2>1. IsFiniteSet(Dirs \X (1..MaxWeight))
    BY <2>b, BudgetAssumption, FS_Product
  <2> QED BY <2>1, FS_Subset
<1>4. Cardinality(Keys(Only(slots, kept))) <= Cardinality(Keys(slots))
  BY <1>1, FS_Subset
<1>5. Cardinality(units(Only(slots, kept))) <= Cardinality(units(slots))
  BY <1>2, <1>3, FS_Subset
<1>6. /\ Cardinality(Keys(Only(slots, kept))) \in Nat /\ Cardinality(Keys(slots)) \in Nat
      /\ Cardinality(units(Only(slots, kept))) \in Nat /\ Cardinality(units(slots)) \in Nat
  BY <1>1, <1>2, <1>3, FS_Subset, FS_CardinalityType
<1>7. Cardinality(Keys(slots)) <= MaxEntries /\ Cardinality(units(slots)) <= MaxWeight
  BY DEF Fits, Weight
<1>8. Fits(Only(slots, kept)) <=>
        Cardinality(Keys(Only(slots, kept))) <= MaxEntries /\ Cardinality(units(Only(slots, kept))) <= MaxWeight
  BY DEF Fits, Weight
<1>9. MaxEntries \in Nat /\ MaxWeight \in Nat
  BY BudgetAssumption
<1> HIDE DEF units
<1> QED BY <1>4, <1>5, <1>6, <1>7, <1>8, <1>9

-----------------------------------------------------------------------------
Snapshots == [SnapIds -> [content : Files, index : IndexStates]]
Sidecars == [Dirs -> [source : Files, index : Files]]

\* Snapshot objects are numbered.
LEMMA SnapNat == SnapIds \subseteq Nat
BY BudgetAssumption, FS_CardinalityType DEF SnapIds, GateIds

\* When one caller moves, the other callers' locals stay.
LEMMA Turn ==
  ASSUME TypeOK, NEW c \in Callers, NEW r \in Locals, Becomes(c, r)
  PROVE  /\ caller' \in [Callers -> Locals] /\ caller'[c] = r
         /\ \A e \in Callers : e # c => caller'[e] = caller[e]
BY DEF TypeOK, Becomes

\* Contents of snapshots somebody has are kept.
ContentsKept == \A s \in SnapsInUse \cap SnapIds : snaps'[s].content = snaps[s].content

\* A caller has a gate exactly while it waits for one or holds one.
LEMMA GatesHeld ==
  ASSUME TypeOK, NEW c \in Callers
  PROVE  /\ caller[c].gate # NoGate <=> caller[c].pc \in Gated
         /\ caller[c] \in Locals
BY DEF TypeOK, Gated

\* The snapshot a caller holds is in use.
LEMMA SnapsOwned ==
  ASSUME TypeOK, SnapsHeld, NEW c \in Callers, caller[c].pc \notin Early
  PROVE  caller[c].snap \in SnapsInUse \cap SnapIds
BY DEF TypeOK, SnapsHeld, SnapsInUse, Locals

\* The snapshot of a retained slot is in use.
LEMMA SlotSnaps ==
  ASSUME TypeOK, NEW d \in Retained
  PROVE  d \in Dirs /\ cache[d] \in Slots /\ cache[d].snap \in SnapsInUse \cap SnapIds
BY DEF TypeOK, Retained, Keys, SnapsInUse, Slots

\* One caller moves; the files, the cache and the gates stay.
LEMMA Moves ==
  ASSUME CacheInd, NEW c \in Callers, NEW r \in Locals, Becomes(c, r),
         UNCHANGED <<disk, cache, gates, swept, torn, workload>>,
         older' \subseteq Retained \X Retained,
         failed \subseteq failed', failed' \subseteq Dirs,
         snaps' \in Snapshots, sidecar' \in Sidecars, ContentsKept,
         r.gate # NoGate <=> r.pc \in Gated,
         r.snap = NoSnap <=> r.pc \in Early,
         r.pc = "insert" => snaps'[r.snap].content = r.read,
         Stamped(r, disk[r.dir]),
         r.pc \in Gated =>
           caller[c].pc \in Gated /\ r.dir = caller[c].dir /\ r.gate = caller[c].gate,
         r.pc \in Holding => caller[c].pc \in Holding \/ Free(r.gate),
         r.pc \in Loading => ~Fresh(r, cache[r.dir]) \/
            (caller[c].pc \in Loading /\ r.probed = caller[c].probed),
         \A d \in Dirs : Claims(caller[c], d) => Claims(r, d) \/ d \in Retained \cup failed'
  PROVE  CacheInd'
<1>1. /\ caller' \in [Callers -> Locals] /\ caller'[c] = r
      /\ \A e \in Callers : e # c => caller'[e] = caller[e]
  BY Turn DEF CacheInd
<1>2. /\ TypeOK /\ BudgetHeld /\ StampsRight /\ SnapsHeld /\ SlotsRight
      /\ GatesKept /\ OneHolder /\ NothingToTake /\ GatesWanted
  BY DEF CacheInd
<1>3. Retained' = Retained
  BY DEF Retained, Keys
<1>4. TypeOK'
  <2>1. \A e \in Callers : caller'[e].gate # NoGate <=> caller'[e].pc \in Gated
    BY <1>1, <1>2, GatesHeld
  <2> QED BY <1>1, <1>2, <1>3, <2>1 DEF TypeOK, Snapshots, Sidecars, Gated
<1>5. BudgetHeld'
  BY <1>2 DEF BudgetHeld
<1>6. StampsRight'
  <2> SUFFICES ASSUME NEW e \in Callers PROVE Stamped(caller'[e], disk'[caller'[e].dir])
    BY DEF StampsRight
  <2>1. CASE e = c
    BY <1>1, <2>1
  <2>2. CASE e # c
    BY <1>1, <1>2, <2>2 DEF StampsRight
  <2> QED BY <2>1, <2>2
<1>7. SnapsHeld'
  <2> SUFFICES ASSUME NEW e \in Callers
               PROVE  /\ caller'[e].snap = NoSnap <=> caller'[e].pc \in Early
                      /\ caller'[e].pc = "insert" => snaps'[caller'[e].snap].content = caller'[e].read
    BY DEF SnapsHeld, At
  <2>1. CASE e = c
    BY <1>1, <2>1
  <2>2. CASE e # c
    <3>1. caller'[e] = caller[e]
      BY <1>1, <2>2
    <3>2. ASSUME caller[e].pc = "insert" PROVE snaps'[caller[e].snap].content = caller[e].read
      <4>1. caller[e].snap \in SnapsInUse \cap SnapIds
        BY <1>2, <3>2, SnapsOwned DEF Early
      <4>2. snaps[caller[e].snap].content = caller[e].read
        BY <1>2, <3>2 DEF SnapsHeld, At
      <4> QED BY <4>1, <4>2 DEF ContentsKept
    <3> QED BY <1>2, <3>1, <3>2 DEF SnapsHeld
  <2> QED BY <2>1, <2>2
<1>8. SlotsRight'
  <2> SUFFICES ASSUME NEW d \in Retained
               PROVE  /\ Below(cache[d].fresh, snaps'[cache[d].snap].content)
                      /\ Below(snaps'[cache[d].snap].content, disk[d])
    BY <1>3 DEF SlotsRight
  <2>1. snaps'[cache[d].snap].content = snaps[cache[d].snap].content
    BY <1>2, SlotSnaps DEF ContentsKept
  <2> QED BY <1>2, <2>1 DEF SlotsRight
<1>9. GatesKept'
  <2> SUFFICES ASSUME NEW e \in Callers, caller'[e].pc \in Gated, caller'[e].dir \notin torn
               PROVE  gates[caller'[e].dir] = caller'[e].gate
    BY DEF GatesKept
  <2>1. CASE e = c
    BY <1>1, <1>2, <2>1 DEF GatesKept
  <2>2. CASE e # c
    BY <1>1, <1>2, <2>2 DEF GatesKept
  <2> QED BY <2>1, <2>2
<1>10. OneHolder'
  <2>1. r.pc \in Holding => \A e \in Callers : e # c /\ caller[e].gate = r.gate => caller[e].pc \notin Holding
    BY <1>2 DEF OneHolder, Free, Gated
  <2> SUFFICES ASSUME NEW e \in Callers, NEW q \in Callers, e # q,
                      caller'[e].gate = caller'[q].gate,
                      caller'[e].pc \in Holding, caller'[q].pc \in Holding
               PROVE  FALSE
    BY DEF OneHolder
  <2>2. CASE e = c
    BY <1>1, <2>1, <2>2
  <2>3. CASE q = c
    BY <1>1, <2>1, <2>3
  <2>4. CASE e # c /\ q # c
    BY <1>1, <1>2, <2>4 DEF OneHolder
  <2> QED BY <2>2, <2>3, <2>4
<1>11. NothingToTake'
  <2> SUFFICES ASSUME NEW e \in Callers, caller'[e].pc \in Loading, caller'[e].dir \notin torn
               PROVE  ~Fresh(caller'[e], cache[caller'[e].dir])
    BY DEF NothingToTake
  <2>1. CASE e = c
    BY <1>1, <1>2, <2>1 DEF NothingToTake, Fresh, Gated, Loading, Holding
  <2>2. CASE e # c
    BY <1>1, <1>2, <2>2 DEF NothingToTake
  <2> QED BY <2>1, <2>2
<1>12. GatesWanted'
  <2> SUFFICES ASSUME NEW d \in Dirs, gates[d] # NoGate
               PROVE  d \in Retained \cup failed' \cup swept \/ \E e \in Callers : Claims(caller'[e], d)
    BY <1>3 DEF GatesWanted
  <2>1. d \in Retained \cup failed' \cup swept \/ \E e \in Callers : Claims(caller[e], d)
    BY <1>2 DEF GatesWanted
  <2> QED BY <1>1, <2>1
<1> QED BY <1>4, <1>5, <1>6, <1>7, <1>8, <1>9, <1>10, <1>11, <1>12 DEF CacheInd

-----------------------------------------------------------------------------
\* What an unmoved rest is, of the types of what a move may write.
LEMMA Written ==
  ASSUME TypeOK
  PROVE  /\ Unread \in Files /\ Idle \in Locals
         /\ Idle.pc = "idle" /\ Idle.gate = NoGate /\ Idle.snap = NoSnap
         /\ \A d \in Dirs : disk[d] \in Files /\ [nodes |-> disk[d].nodes, edges |-> 0] \in Files
         /\ \A c \in Callers : ProbedEdges(c) \in Files
         /\ snaps \in Snapshots /\ sidecar \in Sidecars
         /\ older \subseteq Retained \X Retained /\ failed \subseteq Dirs
<1>1. Unread \in Files
  BY BudgetAssumption DEF Files, Unread
<1>2. Idle \in Locals /\ Idle.pc = "idle" /\ Idle.gate = NoGate /\ Idle.snap = NoSnap
  <2>1. (CHOOSE d \in Dirs : TRUE) \in Dirs
    BY BudgetAssumption
  <2> QED BY <1>1, <2>1 DEF Idle, Locals, Pcs
<1>3. ASSUME NEW d \in Dirs
      PROVE  disk[d] \in Files /\ [nodes |-> disk[d].nodes, edges |-> 0] \in Files
  BY BudgetAssumption DEF TypeOK, Files
<1>4. ASSUME NEW c \in Callers PROVE ProbedEdges(c) \in Files
  BY DEF TypeOK, ProbedEdges, Files, Locals
<1> QED BY <1>1, <1>2, <1>3, <1>4 DEF TypeOK, Snapshots, Sidecars

\* Where a caller neither holds a gate nor compares stamps.
Quiet == {"idle", "have", "source_edges", "init_index", "fill_index", "persist"}

\* A caller that leaves, with nothing else changed, keeps the invariant.
LEMMA Leaves ==
  ASSUME CacheInd, NEW c \in Callers, NEW r \in Locals, Becomes(c, r),
         UNCHANGED <<disk, cache, gates, swept, torn, workload>>,
         older' \subseteq Retained \X Retained,
         failed \subseteq failed', failed' \subseteq Dirs,
         snaps' \in Snapshots, sidecar' \in Sidecars, ContentsKept,
         r.pc \in Quiet, r.gate = NoGate, r.snap = NoSnap <=> r.pc = "idle",
         \A d \in Dirs : Claims(caller[c], d) => d \in Retained \cup failed'
  PROVE  CacheInd'
<1>1. r.pc \notin Gated /\ r.pc \notin Holding /\ r.pc \notin Loading /\ r.pc # "insert"
  BY DEF Quiet, Gated, Holding, Loading
<1>2. Stamped(r, disk[r.dir])
  BY DEF Quiet, Stamped, Probing, Loading
<1>3. r.snap = NoSnap <=> r.pc \in Early
  BY DEF Quiet, Early
<1> QED BY <1>1, <1>2, <1>3, Moves

\* A caller before or past its work on a directory claims no gate there.
LEMMA NoClaim ==
  ASSUME NEW l, l.pc \in Quiet \cup {"probe_edges", "peek"}
  PROVE  \A d \in Dirs : ~Claims(l, d)
BY DEF Claims, Asking, Loading, Quiet

\* Steps that leave the snapshots alone keep their contents.
LEMMA SameContents == snaps' = snaps => ContentsKept
BY DEF ContentsKept

\* Filling a snapshot's indexes leaves every content as it was.
LEMMA IndexSet ==
  ASSUME TypeOK, NEW s \in SnapIds, NEW x \in IndexStates, SetIndex(s, x)
  PROVE  snaps' \in Snapshots /\ ContentsKept
BY DEF TypeOK, SetIndex, Snapshots, ContentsKept

\* The states an index can be in.
LEMMA IndexesTyped ==
  ASSUME TypeOK
  PROVE  Building \in IndexStates /\ \A f \in Files : IndexOf(f) \in IndexStates
BY Written DEF Building, IndexOf, IndexStates

\* Start: a probe begins with the file as it is now.
LEMMA StartKeeps ==
  ASSUME CacheInd, NEW c \in Callers, NEW d \in Dirs, Start(c, d)
  PROVE  CacheInd'
<1>1. TypeOK
  BY DEF CacheInd
<1>2. PICK f \in Files : f = [nodes |-> disk[d].nodes, edges |-> 0] /\ f.nodes = disk[d].nodes /\ f.edges = 0
  BY <1>1, Written
<1> DEFINE r == [Idle EXCEPT !.pc = "probe_edges", !.dir = d, !.probed = f]
<1>3. r \in Locals
  BY <1>1, <1>2, Written DEF Locals, Pcs
<1>4. r.pc = "probe_edges" /\ r.dir = d /\ r.probed = f /\ r.gate = NoGate /\ r.snap = NoSnap
  BY DEF Idle
<1>5. Becomes(c, r)
  BY <1>2 DEF Start
<1> HIDE DEF r
<1>6. Stamped(r, disk[r.dir])
  <2>1. f.nodes <= disk[d].nodes /\ f.edges <= disk[d].edges
    BY <1>1, <1>2, Written DEF Files
  <2> QED BY <1>4, <2>1 DEF Stamped, Below
<1>7. /\ r.pc \notin Gated /\ r.pc \notin Holding /\ r.pc \notin Loading /\ r.pc # "insert"
      /\ r.pc \in Early
  BY <1>4 DEF Gated, Holding, Loading, Early
<1>8. \A e \in Dirs : ~Claims(caller[c], e)
  BY NoClaim DEF Start, At, Quiet
<1>9. UNCHANGED <<disk, cache, gates, swept, torn, workload, older, failed, snaps, sidecar>>
  BY DEF Start, entries, past
<1> QED BY <1>1, <1>3, <1>4, <1>5, <1>6, <1>7, <1>8, <1>9, Moves, Written, SameContents

\* ProbeEdges: the second half of the probe.
LEMMA ProbeEdgesKeeps ==
  ASSUME CacheInd, NEW c \in Callers, ProbeEdges(c)
  PROVE  CacheInd'
<1>1. TypeOK /\ caller[c].pc = "probe_edges"
  BY DEF CacheInd, ProbeEdges, At
<1>2. PICK l \in Locals : l = caller[c]
  BY <1>1, GatesHeld
<1>3. PICK f \in Files : f = ProbedEdges(c) /\ f.nodes = l.probed.nodes /\ f.edges = disk[l.dir].edges
  BY <1>1, <1>2, Written DEF ProbedEdges
<1> DEFINE r == [l EXCEPT !.pc = "peek", !.probed = f]
<1>4. /\ r \in Locals /\ r.pc = "peek" /\ r.probed = f /\ r.dir = l.dir
      /\ r.gate = l.gate /\ r.snap = l.snap
  BY <1>2, <1>3 DEF Locals, Pcs
<1>5. Becomes(c, r)
  BY <1>2, <1>3 DEF ProbeEdges
<1> HIDE DEF r
<1>6. Stamped(r, disk[r.dir])
  <2>1. Below(l.probed, disk[l.dir])
    BY <1>1, <1>2 DEF CacheInd, StampsRight, Stamped, Probing
  <2>2. disk[l.dir] \in Files
    BY <1>1, <1>2, Written DEF Locals
  <2>3. f.nodes <= disk[l.dir].nodes /\ f.edges <= disk[l.dir].edges
    BY <1>3, <2>1, <2>2 DEF Below, Files
  <2> QED BY <1>4, <2>3 DEF Stamped, Below
<1>7. /\ r.pc \notin Gated /\ r.pc \notin Holding /\ r.pc \notin Loading /\ r.pc # "insert"
      /\ r.pc \in Early
  BY <1>4 DEF Gated, Holding, Loading, Early
<1>8. \A e \in Dirs : ~Claims(caller[c], e)
  BY <1>1, NoClaim
<1>9. UNCHANGED <<disk, cache, gates, swept, torn, workload, older, failed, snaps, sidecar>>
  BY DEF ProbeEdges, entries, past
<1>10. r.gate = NoGate /\ r.snap = NoSnap
  <2>1. l.pc \notin Gated /\ l.pc \in Early
    BY <1>1, <1>2 DEF Gated, Holding, Early
  <2> QED BY <1>1, <1>2, <1>4, <2>1, GatesHeld DEF CacheInd, SnapsHeld
<1> QED BY <1>1, <1>4, <1>5, <1>6, <1>7, <1>8, <1>9, <1>10, Moves, Written, SameContents

\* Hit: the slot becomes the newest and the caller lets its gate go.
LEMMA HitKeeps ==
  ASSUME CacheInd, NEW c \in Callers, Hit(c)
  PROVE  CacheInd'
<1>1. /\ TypeOK /\ caller[c].pc \in {"peek", "recheck"} /\ caller[c].dir \in Retained
      /\ older' = Touched(caller[c].dir)
  BY DEF CacheInd, Hit, Hits
<1>2. PICK l \in Locals : l = caller[c]
  BY <1>1, GatesHeld
<1>3. PICK s \in SnapIds : s = cache[l.dir].snap
  BY <1>1, <1>2, SlotSnaps
<1> DEFINE r == [l EXCEPT !.pc = "have", !.snap = s, !.gate = NoGate, !.probed = Unread]
<1>4. r \in Locals /\ r.pc = "have" /\ r.gate = NoGate /\ r.snap = s
  BY <1>1, <1>2, <1>3, Written DEF Locals, Pcs
<1>5. Becomes(c, r)
  BY <1>2, <1>3 DEF Hit
<1> HIDE DEF r
<1>6. older' \subseteq Retained \X Retained
  BY <1>1, Written DEF Touched
<1>7. \A d \in Dirs : Claims(caller[c], d) => d \in Retained \cup failed
  BY <1>1 DEF Claims
<1>8. s # NoSnap
  BY BudgetAssumption, <1>3, SnapNat
<1>9. UNCHANGED <<disk, cache, gates, swept, torn, workload, failed, snaps, sidecar>>
  BY DEF Hit, past
<1>10. r.pc \in Quiet /\ r.pc # "idle"
  BY <1>4 DEF Quiet
<1> QED BY <1>1, <1>4, <1>5, <1>6, <1>7, <1>8, <1>9, <1>10, Leaves, Written, SameContents

\* LoadFails: the caller leaves, its directory counts as failed.
LEMMA LoadFailsKeeps ==
  ASSUME CacheInd, NEW c \in Callers, LoadFails(c)
  PROVE  CacheInd'
<1>1. /\ TypeOK /\ caller[c].pc \in {"load_nodes", "load_edges"}
      /\ failed' = failed \cup {caller[c].dir}
  BY DEF CacheInd, LoadFails
<1>2. caller[c].dir \in Dirs
  BY <1>1, GatesHeld DEF Locals
<1>3. Becomes(c, Idle)
  BY DEF LoadFails
<1>4. \A d \in Dirs : Claims(caller[c], d) => d \in Retained \cup failed'
  BY <1>1 DEF Claims
<1>5. UNCHANGED <<disk, cache, gates, swept, torn, workload, older, snaps, sidecar>>
  BY DEF LoadFails, entries
<1>6. Idle.pc \in Quiet
  BY <1>1, Written DEF Quiet
<1> QED BY <1>1, <1>2, <1>3, <1>4, <1>5, <1>6, Leaves, Written, SameContents

\* The steps after the cache: without and with indexes.
LEMMA IndexStepsKeep ==
  ASSUME CacheInd, NEW c \in Callers,
         \/ ReturnPlain(c) \/ ProbeSourceNodes(c) \/ ProbeSourceEdges(c) \/ IndexReady(c)
         \/ ClaimIndex(c) \/ ReuseSidecar(c) \/ MissSidecar(c) \/ PersistIndex(c)
  PROVE  CacheInd'
<1>1. TypeOK /\ SnapsHeld
  BY DEF CacheInd
<1>2. caller[c].pc \in {"have", "source_edges", "init_index", "fill_index", "persist"}
  BY DEF ReturnPlain, ProbeSourceNodes, ProbeSourceEdges, IndexReady, ClaimIndex,
         ReuseSidecar, MissSidecar, PersistIndex, At
<1>3. PICK l \in Locals : l = caller[c]
  BY <1>1, GatesHeld
<1>4. \A d \in Dirs : ~Claims(caller[c], d)
  BY <1>2, NoClaim DEF Quiet
<1>5. PICK s \in SnapIds : s = l.snap
  BY <1>1, <1>2, <1>3, SnapsOwned DEF Early
<1>6. l.gate = NoGate /\ s # NoSnap
  <2>1. l.pc \notin Gated
    BY <1>2, <1>3 DEF Gated, Holding
  <2> QED BY <1>1, <1>3, <2>1, GatesHeld, BudgetAssumption, SnapNat
<1>7. UNCHANGED <<disk, cache, gates, swept, torn, workload, older, failed>>
  BY DEF ReturnPlain, ProbeSourceNodes, ProbeSourceEdges, IndexReady, ClaimIndex,
         ReuseSidecar, MissSidecar, PersistIndex, entries, past
<1>8. snaps' \in Snapshots /\ ContentsKept
  <2>1. CASE \/ ReturnPlain(c) \/ ProbeSourceNodes(c) \/ ProbeSourceEdges(c) \/ IndexReady(c)
             \/ MissSidecar(c)
    BY <1>1, <2>1, Written, SameContents
       DEF ReturnPlain, ProbeSourceNodes, ProbeSourceEdges, IndexReady, MissSidecar
  <2>2. CASE ClaimIndex(c)
    BY <1>1, <1>3, <1>5, <2>2, IndexSet, IndexesTyped DEF ClaimIndex
  <2>3. CASE ReuseSidecar(c)
    <3>1. sidecar[caller[c].dir].index \in Files
      BY <1>1, <1>3 DEF TypeOK, Locals
    <3> QED BY <1>1, <1>3, <1>5, <2>3, <3>1, IndexSet, IndexesTyped DEF ReuseSidecar
  <2>4. CASE PersistIndex(c)
    <3>1. snaps[caller[c].snap].content \in Files
      BY <1>1, <1>3, <1>5 DEF TypeOK
    <3> QED BY <1>1, <1>3, <1>5, <2>4, <3>1, IndexSet, IndexesTyped DEF PersistIndex
  <2> QED BY <2>1, <2>2, <2>3, <2>4
<1>9. sidecar' \in Sidecars
  <2>1. CASE PersistIndex(c)
    <3>1. snaps[caller[c].snap].content \in Files /\ caller[c].probed \in Files /\ Unread \in Files
      BY <1>1, <1>3, <1>5, Written DEF TypeOK, Locals
    <3>2. PICK side : /\ side \in {sidecar[l.dir], [source |-> l.probed, index |-> snaps[s].content], NoSidecar}
                      /\ sidecar' = [sidecar EXCEPT ![l.dir] = side]
      BY <1>3, <1>5, <2>1 DEF PersistIndex
    <3>3. side \in [source : Files, index : Files]
      BY <1>1, <1>3, <1>5, <3>1, <3>2 DEF TypeOK, NoSidecar, Locals
    <3> QED BY <1>1, <3>2, <3>3 DEF TypeOK, Sidecars
  <2>2. CASE ~PersistIndex(c)
    <3>1. sidecar' = sidecar
      BY <2>2 DEF ReturnPlain, ProbeSourceNodes, ProbeSourceEdges, IndexReady, ClaimIndex,
         ReuseSidecar, MissSidecar
    <3> QED BY <1>1, <3>1, Written
  <2> QED BY <2>1, <2>2
<1>10. PICK r \in Locals : /\ Becomes(c, r) /\ r.pc \in Quiet /\ r.gate = NoGate
                           /\ r.snap = NoSnap <=> r.pc = "idle"
  <2>1. CASE ReturnPlain(c) \/ IndexReady(c) \/ ReuseSidecar(c) \/ PersistIndex(c)
    <3>1. Becomes(c, Idle)
      BY <2>1 DEF ReturnPlain, IndexReady, ReuseSidecar, PersistIndex
    <3> QED BY <1>1, <3>1, Written DEF Quiet
  <2>2. CASE ProbeSourceNodes(c)
    <3>1. PICK f \in Files : f = [nodes |-> disk[l.dir].nodes, edges |-> 0]
      BY <1>1, Written DEF Locals
    <3> DEFINE q == [l EXCEPT !.pc = "source_edges", !.probed = f]
    <3>2. /\ q \in Locals /\ q.pc = "source_edges" /\ q.gate = l.gate /\ q.snap = l.snap
      BY DEF Locals, Pcs
    <3>3. Becomes(c, q)
      BY <1>3, <2>2, <3>1 DEF ProbeSourceNodes
    <3> HIDE DEF q
    <3> QED BY <1>5, <1>6, <3>2, <3>3 DEF Quiet
  <2>3. CASE ProbeSourceEdges(c)
    <3>1. PICK f \in Files : f = ProbedEdges(c)
      BY <1>1, Written
    <3> DEFINE q == [l EXCEPT !.pc = "init_index", !.probed = f]
    <3>2. /\ q \in Locals /\ q.pc = "init_index" /\ q.gate = l.gate /\ q.snap = l.snap
      BY DEF Locals, Pcs
    <3>3. Becomes(c, q)
      BY <1>3, <2>3, <3>1 DEF ProbeSourceEdges
    <3> HIDE DEF q
    <3> QED BY <1>5, <1>6, <3>2, <3>3 DEF Quiet
  <2>4. CASE ClaimIndex(c) \/ MissSidecar(c)
    <3>1. PICK pc \in {"fill_index", "persist"} : Go(c, pc)
      BY <2>4 DEF ClaimIndex, MissSidecar
    <3> DEFINE q == [l EXCEPT !.pc = pc]
    <3>2. q \in Locals /\ q.pc = pc /\ q.gate = l.gate /\ q.snap = l.snap
      BY <3>1 DEF Locals, Pcs
    <3>3. Becomes(c, q)
      BY <1>3, <3>1 DEF Go
    <3> HIDE DEF q
    <3> QED BY <1>5, <1>6, <3>1, <3>2, <3>3 DEF Quiet
  <2> QED BY <2>1, <2>2, <2>3, <2>4
<1> QED BY <1>1, <1>4, <1>7, <1>8, <1>9, <1>10, Leaves, Written

\* With the gate: waiting, looking again, reading the first file.
LEMMA GateStepsKeep ==
  ASSUME CacheInd, NEW c \in Callers, LockGate(c) \/ Recheck(c) \/ LoadNodes(c)
  PROVE  CacheInd'
<1>1. TypeOK /\ SnapsHeld /\ StampsRight
  BY DEF CacheInd
<1>2. PICK l \in Locals : l = caller[c]
  BY <1>1, GatesHeld
<1>3. UNCHANGED <<disk, cache, gates, swept, torn, workload, older, failed, snaps, sidecar>>
  BY DEF LockGate, Recheck, LoadNodes, entries, past
<1>4. l.pc \in {"wait", "recheck", "load_nodes"}
  BY <1>2 DEF LockGate, Recheck, LoadNodes, At
<1>5. l.gate # NoGate /\ l.snap = NoSnap
  BY <1>1, <1>2, <1>4, GatesHeld DEF SnapsHeld, Gated, Holding, Early
<1>6. Below(l.probed, disk[l.dir]) /\ disk[l.dir] \in Files
  BY <1>1, <1>2, <1>4, Written DEF StampsRight, Stamped, Probing, Loading, Locals
<1>7. PICK r \in Locals :
         /\ Becomes(c, r) /\ r.dir = l.dir /\ r.gate = l.gate /\ r.snap = NoSnap
         /\ r.probed = l.probed /\ r.pc \in {"recheck", "load_nodes", "load_edges"}
         /\ r.pc = "recheck" => Free(l.gate)
         /\ r.pc # "recheck" => l.pc \in Holding
         /\ r.pc = "load_nodes" => ~Hits(c)
         /\ r.pc = "load_edges" => l.pc \in Loading /\ r.read.nodes = disk[l.dir].nodes
  <2>1. CASE LockGate(c) \/ Recheck(c)
    <3>1. PICK pc \in {"recheck", "load_nodes"} :
             /\ Go(c, pc)
             /\ pc = "recheck" => Free(l.gate)
             /\ pc = "load_nodes" => l.pc = "recheck" /\ ~Hits(c)
      BY <1>2, <2>1 DEF LockGate, Recheck, At
    <3> DEFINE q == [l EXCEPT !.pc = pc]
    <3>2. /\ q \in Locals /\ q.pc = pc /\ q.gate = l.gate /\ q.snap = l.snap
          /\ q.dir = l.dir /\ q.probed = l.probed
      BY <3>1 DEF Locals, Pcs, Holding
    <3>3. Becomes(c, q)
      BY <1>2, <3>1 DEF Go
    <3> HIDE DEF q
    <3> QED BY <1>5, <3>1, <3>2, <3>3 DEF Holding
  <2>2. CASE LoadNodes(c)
    <3>1. PICK f \in Files : f = [nodes |-> disk[l.dir].nodes, edges |-> 0] /\ f.nodes = disk[l.dir].nodes
      BY <1>1, Written DEF Locals
    <3> DEFINE q == [l EXCEPT !.pc = "load_edges", !.read = f]
    <3>2. /\ q \in Locals /\ q.pc = "load_edges" /\ q.gate = l.gate /\ q.snap = l.snap
          /\ q.dir = l.dir /\ q.probed = l.probed /\ q.read = f
      BY <3>1 DEF Locals, Pcs, Holding
    <3>3. Becomes(c, q) /\ l.pc = "load_nodes"
      BY <1>2, <2>2, <3>1 DEF LoadNodes, At
    <3> HIDE DEF q
    <3> QED BY <1>5, <3>1, <3>2, <3>3 DEF Holding, Loading
  <2> QED BY <2>1, <2>2
<1>8. Stamped(r, disk[r.dir])
  <2>1. r.pc = "load_edges" => r.probed.nodes <= r.read.nodes /\ r.read.nodes <= disk[r.dir].nodes
    BY <1>6, <1>7 DEF Below, Files
  <2> QED BY <1>6, <1>7, <2>1 DEF Stamped
<1>9. /\ r.pc \in Gated /\ l.pc \in Gated /\ r.pc \in Early /\ r.pc # "insert" /\ r.pc \in Asking
      /\ l.pc # "drop_gates"
  BY <1>4, <1>7 DEF Gated, Holding, Early, Asking, Loading
<1>10. r.pc \in Loading => ~Fresh(r, cache[r.dir]) \/ (l.pc \in Loading /\ r.probed = l.probed)
  <2>1. ASSUME r.pc = "load_nodes" PROVE ~Fresh(r, cache[r.dir])
    BY <1>2, <1>7, <2>1 DEF Fresh, Hits, Retained, Keys, Locals
  <2> QED BY <1>7, <2>1 DEF Loading
<1>11. \A d \in Dirs : Claims(caller[c], d) => Claims(r, d)
  BY <1>2, <1>7, <1>9 DEF Claims
<1>12. r.pc \in Holding => l.pc \in Holding \/ Free(r.gate)
  BY <1>7
<1> QED BY <1>1, <1>2, <1>3, <1>5, <1>7, <1>8, <1>9, <1>10, <1>11, <1>12, Moves, Written, SameContents

\* LoadEdges: the new snapshot object is one that nobody held.
LEMMA LoadEdgesKeeps ==
  ASSUME CacheInd, NEW c \in Callers, LoadEdges(c)
  PROVE  CacheInd'
<1>1. TypeOK /\ SnapsHeld /\ StampsRight
  BY DEF CacheInd
<1>2. PICK l \in Locals : l = caller[c]
  BY <1>1, GatesHeld
<1>3. UNCHANGED <<disk, cache, gates, swept, torn, workload, older, failed, sidecar>>
  BY DEF LoadEdges, entries, past
<1>4. l.pc = "load_edges"
  BY <1>2 DEF LoadEdges, At
<1>5. l.gate # NoGate /\ l.snap = NoSnap
  BY <1>1, <1>2, <1>4, GatesHeld DEF SnapsHeld, Gated, Holding, Early
<1>6. /\ Below(l.probed, disk[l.dir]) /\ disk[l.dir] \in Files
      /\ l.probed.nodes <= l.read.nodes /\ l.read.nodes <= disk[l.dir].nodes
  BY <1>1, <1>2, <1>4, Written DEF StampsRight, Stamped, Probing, Loading, Locals
<1>7. PICK s \in SnapIds : s = FreshSnap /\ s \notin SnapsInUse /\ s # NoSnap
  BY <1>1, <1>2, <1>5, FreshSnapUnused, BudgetAssumption, SnapNat
<1>8. PICK f \in Files : /\ f = [nodes |-> l.read.nodes, edges |-> disk[l.dir].edges]
                         /\ f.nodes = l.read.nodes /\ f.edges = disk[l.dir].edges
  <2>1. l.read \in Files
    BY <1>2 DEF Locals
  <2>2. l.read.nodes \in 0..MaxStamp /\ disk[l.dir].edges \in 0..MaxStamp
    BY <1>6, <2>1 DEF Files
  <2> DEFINE q == [nodes |-> l.read.nodes, edges |-> disk[l.dir].edges]
  <2>3. q \in Files /\ q.nodes = l.read.nodes /\ q.edges = disk[l.dir].edges
    BY <2>2 DEF Files
  <2>4. q = [nodes |-> l.read.nodes, edges |-> disk[l.dir].edges]
    OBVIOUS
  <2> HIDE DEF q
  <2> QED BY <2>3, <2>4
<1> DEFINE r == [l EXCEPT !.pc = "insert", !.read = f, !.snap = s]
<1>9. /\ r \in Locals /\ r.pc = "insert" /\ r.gate = l.gate /\ r.snap = s
      /\ r.dir = l.dir /\ r.probed = l.probed /\ r.read = f
  BY DEF Locals, Pcs, Holding
<1>10. Becomes(c, r)
  BY <1>2, <1>7, <1>8 DEF LoadEdges
<1> HIDE DEF r
<1>11. snaps' = [i \in SnapIds |-> IF i = s THEN [content |-> f, index |-> NoIndex]
                                   ELSE IF i \in SnapsInUse THEN snaps[i] ELSE Dropped]
  BY <1>2, <1>7, <1>8 DEF LoadEdges
<1>12. snaps' \in Snapshots /\ ContentsKept /\ snaps'[s].content = f
  <2>1. NoIndex \in IndexStates /\ Dropped \in [content : Files, index : IndexStates]
    BY <1>1, Written DEF NoIndex, IndexStates, Dropped
  <2>2. snaps'[s].content = f
    BY <1>11
  <2>3. ContentsKept
    BY <1>7, <1>11 DEF ContentsKept
  <2>4. ASSUME NEW i \in SnapIds PROVE snaps'[i] \in [content : Files, index : IndexStates]
    BY <1>1, <1>11, <2>1 DEF TypeOK
  <2>5. snaps' \in Snapshots
    BY <1>11, <2>4 DEF Snapshots
  <2> QED BY <2>2, <2>3, <2>5
<1>13. Stamped(r, disk[r.dir])
  <2>1. Below(l.probed, f) /\ Below(f, disk[l.dir])
    BY <1>6, <1>8 DEF Below, Files
  <2> QED BY <1>6, <1>9, <2>1 DEF Stamped
<1>14. /\ r.pc \in Gated /\ l.pc \in Gated /\ r.pc \notin Early /\ r.pc \in Asking /\ l.pc # "drop_gates"
       /\ l.pc \in Holding /\ l.pc \in Loading
  BY <1>4, <1>9 DEF Gated, Holding, Early, Asking, Loading
<1>15. \A d \in Dirs : Claims(caller[c], d) => Claims(r, d)
  BY <1>2, <1>9, <1>14 DEF Claims
<1> QED BY <1>1, <1>2, <1>3, <1>5, <1>7, <1>9, <1>10, <1>12, <1>13, <1>14, <1>15, Moves, Written

-----------------------------------------------------------------------------
\* A cache of which some slots stay.
LEMMA Stays ==
  ASSUME NEW slots \in [Dirs -> Slots \cup {NoSlot}], NEW kept \in SUBSET Dirs,
         cache' = Only(slots, kept)
  PROVE  /\ cache' \in [Dirs -> Slots \cup {NoSlot}]
         /\ Retained' = Keys(slots) \cap kept
         /\ \A d \in Retained' : cache'[d] = slots[d]
         /\ \A d \in Dirs : cache'[d] # NoSlot => d \in kept /\ cache'[d] = slots[d]
BY DEF Only, Retained, Keys

\* One caller has loaded and leaves the cache with or without its value.
LEMMA Inserts ==
  ASSUME CacheInd, NEW c \in Callers, At(c, "insert"),
         NEW r \in Locals, Becomes(c, r), r.pc = "drop_gates", r.dir = caller[c].dir,
         r.gate = caller[c].gate, r.snap = caller[c].snap,
         NEW slots \in [Dirs -> Slots \cup {NoSlot}], NEW kept \in SUBSET Keys(slots),
         cache' = Only(slots, kept), Fits(Only(slots, kept)), older' \subseteq kept \X kept,
         \A d \in Dirs : slots[d] = cache[d] \/
           (d = r.dir /\ slots[d].fresh = caller[c].probed /\ slots[d].snap = r.snap),
         Retained \cup {r.dir} \subseteq kept \cup r.evicted,
         UNCHANGED <<disk, gates, snaps, sidecar, swept, torn, failed, workload>>
  PROVE  CacheInd'
<1>1. /\ caller' \in [Callers -> Locals] /\ caller'[c] = r
      /\ \A e \in Callers : e # c => caller'[e] = caller[e]
  BY Turn DEF CacheInd
<1>2. /\ TypeOK /\ BudgetHeld /\ StampsRight /\ SnapsHeld /\ SlotsRight
      /\ GatesKept /\ OneHolder /\ NothingToTake /\ GatesWanted
  BY DEF CacheInd
<1>3. /\ cache' \in [Dirs -> Slots \cup {NoSlot}] /\ Retained' = kept
      /\ \A d \in Retained' : cache'[d] = slots[d]
      /\ \A d \in Dirs : cache'[d] # NoSlot => cache'[d] = slots[d]
  <2>1. kept \in SUBSET Dirs /\ Keys(slots) \cap kept = kept
    BY DEF Keys
  <2> QED BY <2>1, Stays
<1>4. PICK l \in Locals : l = caller[c] /\ l.pc = "insert"
  BY <1>2, GatesHeld DEF At
<1>5. l.gate # NoGate /\ l.snap # NoSnap /\ snaps[l.snap].content = l.read
  BY <1>2, <1>4, GatesHeld DEF SnapsHeld, Gated, Holding, Early, At
<1>6. TypeOK'
  <2>1. \A e \in Callers : caller'[e].gate # NoGate <=> caller'[e].pc \in Gated
    <3> SUFFICES ASSUME NEW e \in Callers PROVE caller'[e].gate # NoGate <=> caller'[e].pc \in Gated
      OBVIOUS
    <3>1. CASE e = c
      BY <1>1, <1>4, <1>5, <3>1 DEF Gated, Holding
    <3>2. CASE e # c
      BY <1>1, <1>2, <3>2, GatesHeld
    <3> QED BY <3>1, <3>2
  <2>2. older' \subseteq Retained' \X Retained'
    BY <1>3
  <2> QED BY <1>1, <1>2, <1>3, <2>1, <2>2 DEF TypeOK, Gated
<1>7. BudgetHeld'
  BY DEF BudgetHeld
<1>8. StampsRight'
  <2> SUFFICES ASSUME NEW e \in Callers PROVE Stamped(caller'[e], disk[caller'[e].dir])
    BY DEF StampsRight
  <2>1. CASE e = c
    BY <1>1, <2>1 DEF Stamped, Probing, Loading
  <2>2. CASE e # c
    BY <1>1, <1>2, <2>2 DEF StampsRight
  <2> QED BY <2>1, <2>2
<1>9. SnapsHeld'
  <2> SUFFICES ASSUME NEW e \in Callers
               PROVE  /\ caller'[e].snap = NoSnap <=> caller'[e].pc \in Early
                      /\ caller'[e].pc = "insert" => snaps[caller'[e].snap].content = caller'[e].read
    BY DEF SnapsHeld, At
  <2>1. CASE e = c
    BY <1>1, <1>4, <1>5, <2>1 DEF Early
  <2>2. CASE e # c
    BY <1>1, <1>2, <2>2 DEF SnapsHeld, At
  <2> QED BY <2>1, <2>2
<1>10. SlotsRight'
  <2> SUFFICES ASSUME NEW d \in kept
               PROVE  /\ Below(cache'[d].fresh, snaps[cache'[d].snap].content)
                      /\ Below(snaps[cache'[d].snap].content, disk[d])
    BY <1>3 DEF SlotsRight
  <2>1. cache'[d] = slots[d] /\ d \in Dirs /\ slots[d] # NoSlot
    BY <1>3 DEF Keys
  <2>2. CASE slots[d] = cache[d]
    BY <1>2, <2>1, <2>2 DEF SlotsRight, Retained, Keys
  <2>3. CASE d = r.dir /\ slots[d].fresh = l.probed /\ slots[d].snap = r.snap
    <3>1. Below(l.probed, l.read) /\ Below(l.read, disk[l.dir])
      BY <1>2, <1>4 DEF StampsRight, Stamped
    <3> QED BY <1>4, <1>5, <2>1, <2>3, <3>1
  <2> QED BY <1>4, <2>1, <2>2, <2>3
<1>11. GatesKept'
  <2> SUFFICES ASSUME NEW e \in Callers, caller'[e].pc \in Gated, caller'[e].dir \notin torn
               PROVE  gates[caller'[e].dir] = caller'[e].gate
    BY DEF GatesKept
  <2>1. CASE e = c
    BY <1>1, <1>2, <1>4, <2>1 DEF GatesKept, Gated, Holding
  <2>2. CASE e # c
    BY <1>1, <1>2, <2>2 DEF GatesKept
  <2> QED BY <2>1, <2>2
<1>12. OneHolder'
  <2>1. \A e \in Callers : e # c /\ caller[e].gate = r.gate => caller[e].pc \notin Holding
    BY <1>2, <1>4 DEF OneHolder, Holding
  <2> SUFFICES ASSUME NEW e \in Callers, NEW q \in Callers, e # q,
                      caller'[e].gate = caller'[q].gate,
                      caller'[e].pc \in Holding, caller'[q].pc \in Holding
               PROVE  FALSE
    BY DEF OneHolder
  <2>2. CASE e = c
    BY <1>1, <2>1, <2>2
  <2>3. CASE q = c
    BY <1>1, <2>1, <2>3
  <2>4. CASE e # c /\ q # c
    BY <1>1, <1>2, <2>4 DEF OneHolder
  <2> QED BY <2>2, <2>3, <2>4
<1>13. NothingToTake'
  <2> SUFFICES ASSUME NEW e \in Callers, caller'[e].pc \in Loading, caller'[e].dir \notin torn
               PROVE  ~Fresh(caller'[e], cache'[caller'[e].dir])
    BY DEF NothingToTake
  <2>1. e # c
    BY <1>1 DEF Loading
  <2>2. caller'[e] = caller[e] /\ caller[e].pc \in Gated /\ caller[e].pc \in Holding /\ caller[e].dir \in Dirs
    BY <1>1, <1>2, <2>1, GatesHeld DEF Loading, Gated, Holding, Locals
  <2>3. caller[e].dir # l.dir
    <3> SUFFICES ASSUME caller[e].dir = l.dir PROVE FALSE
      OBVIOUS
    <3>1. gates[l.dir] = caller[e].gate /\ gates[l.dir] = l.gate
      BY <1>2, <1>4, <2>2 DEF GatesKept, Gated, Holding
    <3>2. l.pc \in Holding
      BY <1>4 DEF Holding
    <3> QED BY <1>2, <1>4, <2>1, <2>2, <3>1, <3>2 DEF OneHolder
  <2>4. cache'[caller[e].dir] \in {cache[caller[e].dir], NoSlot}
    BY <1>3, <1>4, <2>2, <2>3
  <2> QED BY <1>2, <2>2, <2>4 DEF NothingToTake, Fresh
<1>14. GatesWanted'
  <2> SUFFICES ASSUME NEW d \in Dirs, gates[d] # NoGate
               PROVE  d \in kept \cup failed \cup swept \/ \E e \in Callers : Claims(caller'[e], d)
    BY <1>3 DEF GatesWanted
  <2>1. d \in r.evicted => Claims(caller'[c], d)
    BY <1>1 DEF Claims
  <2>2. CASE d \in Retained \cup failed \cup swept
    BY <2>1, <2>2
  <2>3. CASE \E e \in Callers : Claims(caller[e], d)
    <3>1. PICK e \in Callers : Claims(caller[e], d)
      BY <2>3
    <3>2. CASE e = c
      <4>1. d = r.dir
        BY <1>4, <3>1, <3>2 DEF Claims
      <4> QED BY <2>1, <4>1
    <3>3. CASE e # c
      BY <1>1, <3>1, <3>3
    <3> QED BY <3>2, <3>3
  <2> QED BY <1>2, <2>2, <2>3 DEF GatesWanted
<1> QED BY <1>6, <1>7, <1>8, <1>9, <1>10, <1>11, <1>12, <1>13, <1>14 DEF CacheInd

\* Oversize: the value is not kept and an older one goes.
LEMMA OversizeKeeps ==
  ASSUME CacheInd, NEW c \in Callers, Oversize(c)
  PROVE  CacheInd'
<1>1. /\ TypeOK /\ BudgetHeld /\ At(c, "insert") /\ Retained \in SUBSET Dirs
      /\ Keep(cache, older, Retained \ {caller[c].dir})
  BY DEF CacheInd, Oversize, Retained, Keys
<1>2. PICK l \in Locals : l = caller[c]
  BY <1>1, GatesHeld
<1> DEFINE r == [l EXCEPT !.pc = "drop_gates", !.evicted = {l.dir}]
           kept == Retained \ {l.dir}
<1>3. /\ r \in Locals /\ r.pc = "drop_gates" /\ r.gate = l.gate /\ r.snap = l.snap
      /\ r.dir = l.dir /\ r.evicted = {l.dir}
  BY DEF Locals, Pcs, Holding
<1>4. Becomes(c, r)
  BY <1>2 DEF Oversize
<1> HIDE DEF r
<1>5. cache' = Only(cache, kept) /\ older' \subseteq kept \X kept /\ kept \in SUBSET Keys(cache)
  BY <1>1, <1>2 DEF Keep, Retained
<1>6. Fits(Only(cache, kept)) /\ cache \in [Dirs -> Slots \cup {NoSlot}]
  BY <1>1, FitsLess DEF TypeOK, BudgetHeld
<1>7. Retained \cup {r.dir} \subseteq kept \cup r.evicted
  BY <1>3
<1>8. UNCHANGED <<disk, gates, snaps, sidecar, swept, torn, failed, workload>>
  BY DEF Oversize, past
<1> HIDE DEF kept
<1> QED BY <1>1, <1>2, <1>3, <1>4, <1>5, <1>6, <1>7, <1>8, Inserts

\* Insert: the value is kept with the stamp probed before it was read, within both budgets.
LEMMA InsertKeeps ==
  ASSUME CacheInd, NEW c \in Callers, Insert(c)
  PROVE  CacheInd'
<1>1. /\ TypeOK /\ SnapsHeld /\ At(c, "insert") /\ Retained \in SUBSET Dirs
  BY DEF CacheInd, Insert, Retained, Keys
<1>2. PICK l \in Locals : l = caller[c]
  BY <1>1, GatesHeld
<1>3. l.snap \in SnapIds /\ l.dir \in Dirs /\ l.probed \in Files
  BY <1>1, <1>2, SnapsOwned DEF At, Early, Locals
<1> DEFINE slot(w) == [fresh |-> l.probed, snap |-> l.snap, weight |-> w]
           left(kept) == [l EXCEPT !.pc = "drop_gates", !.evicted = (Retained \cup {l.dir}) \ kept]
<1>c. PICK w \in {x \in workload.weights : x <= MaxWeight}, expired \in SUBSET (Retained \ {l.dir}) :
         \E kept \in SUBSET ((Retained \cup {l.dir}) \ expired) :
            /\ Fits(Only([cache EXCEPT ![l.dir] = slot(w)], kept))
            /\ Keep([cache EXCEPT ![l.dir] = slot(w)], Touched(l.dir), kept)
            /\ Becomes(c, left(kept))
  BY <1>2 DEF Insert, Spared, StampOf
<1>4. PICK kept \in SUBSET ((Retained \cup {l.dir}) \ expired) :
            /\ Fits(Only([cache EXCEPT ![l.dir] = slot(w)], kept))
            /\ Keep([cache EXCEPT ![l.dir] = slot(w)], Touched(l.dir), kept)
            /\ Becomes(c, left(kept))
  BY <1>c
<1>b. PICK slots : slots = [cache EXCEPT ![l.dir] = [fresh |-> l.probed, snap |-> l.snap, weight |-> w]]
  OBVIOUS
<1>a. Fits(Only(slots, kept)) /\ Keep(slots, Touched(l.dir), kept)
  BY <1>4, <1>b
<1> DEFINE r == [l EXCEPT !.pc = "drop_gates", !.evicted = (Retained \cup {l.dir}) \ kept]
<1>5. /\ r \in Locals /\ r.pc = "drop_gates" /\ r.gate = l.gate /\ r.snap = l.snap
      /\ r.dir = l.dir /\ r.evicted = (Retained \cup {l.dir}) \ kept
  BY <1>1, <1>3 DEF Locals, Pcs, Holding
<1>6. Becomes(c, r)
  BY <1>4
<1> HIDE DEF r
<1>7. [fresh |-> l.probed, snap |-> l.snap, weight |-> w] \in Slots
  <2>1. w \in 1..MaxWeight
    <3>1. w \in 1..(MaxWeight + 1) /\ w <= MaxWeight
      BY <1>1, <1>c, WorkloadAssumption DEF TypeOK
    <3> QED BY <3>1, BudgetAssumption
  <2> QED BY <1>3, <2>1 DEF Slots
<1>8. slots \in [Dirs -> Slots \cup {NoSlot}]
  BY <1>1, <1>b, <1>7 DEF TypeOK
<1>9. \A d \in Dirs : \/ slots[d] = cache[d]
                      \/ d = l.dir /\ slots[d].fresh = l.probed /\ slots[d].snap = l.snap
  BY <1>1, <1>b DEF TypeOK
<1>10. kept \in SUBSET Keys(slots)
  <2>1. slots[l.dir] # NoSlot
    <3>1. slots[l.dir].snap = l.snap /\ NoSlot.snap = NoSnap /\ l.snap # NoSnap
      BY <1>1, <1>3, <1>b, SnapNat, BudgetAssumption DEF TypeOK, NoSlot
    <3> QED BY <3>1
  <2>2. \A d \in Retained : slots[d] # NoSlot
    BY <1>1, <1>b, <2>1 DEF Retained, Keys, TypeOK
  <2> QED BY <1>1, <1>3, <1>4, <2>1, <2>2 DEF Keys
<1>11. cache' = Only(slots, kept) /\ older' \subseteq kept \X kept
  BY <1>a DEF Keep
<1>12. Retained \cup {r.dir} \subseteq kept \cup r.evicted
  BY <1>5
<1>13. UNCHANGED <<disk, gates, snaps, sidecar, swept, torn, failed, workload>>
  BY DEF Insert, past
<1> QED BY <1>1, <1>2, <1>a, <1>5, <1>6, <1>8, <1>9, <1>10, <1>11, <1>12, <1>13, Inserts

\* Invalidate: some slots go, their gates are still to be removed.
LEMMA InvalidateKeeps ==
  ASSUME CacheInd, NEW gone \in SUBSET Dirs, Invalidate(gone)
  PROVE  CacheInd'
<1>1. /\ TypeOK /\ BudgetHeld /\ StampsRight /\ SnapsHeld /\ SlotsRight
      /\ GatesKept /\ OneHolder /\ NothingToTake /\ GatesWanted
  BY DEF CacheInd
<1> DEFINE kept == Retained \ gone
<1>2. /\ cache' = Only(cache, kept) /\ older' \subseteq kept \X kept
      /\ swept = {} /\ swept' = gone /\ kept \in SUBSET Dirs /\ Keys(cache) \cap kept = kept
      /\ UNCHANGED <<disk, gates, caller, snaps, sidecar, torn, failed, workload>>
  BY DEF Invalidate, Keep, past, Retained, Keys
<1>3. /\ cache' \in [Dirs -> Slots \cup {NoSlot}] /\ Retained' = kept
      /\ \A d \in Retained' : cache'[d] = cache[d]
      /\ \A d \in Dirs : cache'[d] # NoSlot => cache'[d] = cache[d]
  <2>1. cache \in [Dirs -> Slots \cup {NoSlot}]
    BY <1>1 DEF TypeOK
  <2> HIDE DEF kept
  <2> QED BY <1>2, <2>1, Stays
<1>4. TypeOK'
  <2>1. older' \subseteq Retained' \X Retained'
    BY <1>2, <1>3
  <2> QED BY <1>1, <1>2, <1>3, <2>1 DEF TypeOK
<1>5. BudgetHeld'
  BY <1>1, <1>2, FitsLess DEF BudgetHeld, TypeOK
<1>6. StampsRight' /\ SnapsHeld' /\ GatesKept' /\ OneHolder'
  BY <1>1, <1>2 DEF StampsRight, SnapsHeld, GatesKept, OneHolder, At
<1>7. SlotsRight'
  BY <1>1, <1>2, <1>3 DEF SlotsRight
<1>8. NothingToTake'
  <2> SUFFICES ASSUME NEW e \in Callers, caller[e].pc \in Loading, caller[e].dir \notin torn
               PROVE  ~Fresh(caller[e], cache'[caller[e].dir])
    BY <1>2 DEF NothingToTake
  <2>1. caller[e].dir \in Dirs
    BY <1>1, GatesHeld DEF Locals
  <2>2. cache'[caller[e].dir] \in {cache[caller[e].dir], NoSlot}
    BY <1>3, <2>1
  <2> QED BY <1>1, <2>2 DEF NothingToTake, Fresh
<1>9. GatesWanted'
  BY <1>1, <1>2, <1>3 DEF GatesWanted
<1> QED BY <1>4, <1>5, <1>6, <1>7, <1>8, <1>9 DEF CacheInd

\* Gates are removed: those of the callers named, if still used, are torn.
LEMMA Removed ==
  ASSUME CacheInd, NEW gone \in SUBSET Dirs, NEW users \in SUBSET Callers, RemoveGates(gone, users)
  PROVE  /\ gates' \in [Dirs -> GateIds \cup {NoGate}] /\ torn \subseteq torn' /\ torn' \subseteq Dirs
         /\ \A d \in Dirs : gates'[d] # NoGate => d \notin gone /\ gates[d] # NoGate
         /\ \A e \in users : caller[e].pc \in Gated /\ caller[e].dir \notin torn'
               => gates'[caller[e].dir] = caller[e].gate
<1>1. TypeOK /\ GatesKept
  BY DEF CacheInd
<1>2. /\ gates' = [d \in Dirs |-> IF d \in gone THEN NoGate ELSE gates[d]]
      /\ torn' = torn \cup {d \in gone : gates[d] \in {caller[c].gate : c \in users} \ {NoGate}}
  BY DEF RemoveGates, GatesWithout
<1>3. gates' \in [Dirs -> GateIds \cup {NoGate}] /\ torn \subseteq torn' /\ torn' \subseteq Dirs
  BY <1>1, <1>2 DEF TypeOK
<1>4. \A d \in Dirs : gates'[d] # NoGate => d \notin gone /\ gates[d] # NoGate
  BY <1>2
<1>5. ASSUME NEW e \in users, caller[e].pc \in Gated, caller[e].dir \notin torn'
      PROVE  gates'[caller[e].dir] = caller[e].gate
  <2>1. /\ caller[e].gate # NoGate /\ caller[e].dir \in Dirs
        /\ gates[caller[e].dir] = caller[e].gate
    BY <1>1, <1>3, <1>5, GatesHeld DEF GatesKept, Locals
  <2>2. caller[e].dir \notin gone
    BY <1>2, <1>5, <2>1
  <2> QED BY <1>2, <2>1, <2>2
<1> QED BY <1>3, <1>4, <1>5

\* SweepGates: the gates of the invalidated entries go; those in use are torn.
LEMMA SweepGatesKeeps ==
  ASSUME CacheInd, SweepGates
  PROVE  CacheInd'
<1>1. /\ TypeOK /\ BudgetHeld /\ StampsRight /\ SnapsHeld /\ SlotsRight
      /\ GatesKept /\ OneHolder /\ NothingToTake /\ GatesWanted
  BY DEF CacheInd
<1>2. /\ swept' = {} /\ swept \in SUBSET Dirs /\ RemoveGates(swept, Callers)
      /\ UNCHANGED <<disk, cache, older, caller, snaps, sidecar, failed, workload>>
  BY <1>1 DEF SweepGates, entries, TypeOK
<1>3. /\ gates' \in [Dirs -> GateIds \cup {NoGate}] /\ torn \subseteq torn' /\ torn' \subseteq Dirs
      /\ \A d \in Dirs : gates'[d] # NoGate => d \notin swept /\ gates[d] # NoGate
      /\ \A e \in Callers : caller[e].pc \in Gated /\ caller[e].dir \notin torn'
            => gates'[caller[e].dir] = caller[e].gate
  BY <1>2, Removed
<1>4. Retained' = Retained
  BY <1>2 DEF Retained, Keys
<1>5. TypeOK'
  BY <1>1, <1>2, <1>3, <1>4 DEF TypeOK
<1>6. BudgetHeld' /\ StampsRight' /\ SnapsHeld' /\ OneHolder'
  BY <1>1, <1>2 DEF BudgetHeld, StampsRight, SnapsHeld, OneHolder, At
<1>7. SlotsRight' /\ NothingToTake'
  BY <1>1, <1>2, <1>3, <1>4 DEF SlotsRight, NothingToTake
<1>8. GatesKept'
  BY <1>2, <1>3 DEF GatesKept
<1>9. GatesWanted'
  BY <1>1, <1>2, <1>3, <1>4 DEF GatesWanted
<1> QED BY <1>5, <1>6, <1>7, <1>8, <1>9 DEF CacheInd

\* DropGates: the gates of what the caller evicted go, then its own guard.
LEMMA DropGatesKeeps ==
  ASSUME CacheInd, NEW c \in Callers, DropGates(c)
  PROVE  CacheInd'
<1>1. /\ TypeOK /\ BudgetHeld /\ StampsRight /\ SnapsHeld /\ SlotsRight
      /\ GatesKept /\ OneHolder /\ NothingToTake /\ GatesWanted
  BY DEF CacheInd
<1>2. PICK l \in Locals : l = caller[c] /\ l.pc = "drop_gates"
  BY <1>1, GatesHeld DEF DropGates, At
<1> DEFINE r == [l EXCEPT !.pc = "have", !.gate = NoGate, !.evicted = {}, !.probed = Unread, !.read = Unread]
<1>3. /\ r \in Locals /\ r.pc = "have" /\ r.gate = NoGate /\ r.snap = l.snap
  BY <1>1, Written DEF Locals, Pcs
<1>4. Becomes(c, r)
  BY <1>2 DEF DropGates
<1> HIDE DEF r
<1>5. /\ caller' \in [Callers -> Locals] /\ caller'[c] = r
      /\ \A e \in Callers : e # c => caller'[e] = caller[e]
  BY <1>1, <1>3, <1>4, Turn
<1>6. /\ l.evicted \in SUBSET Dirs /\ RemoveGates(l.evicted, Callers \ {c})
      /\ UNCHANGED <<disk, cache, older, snaps, sidecar, swept, failed, workload>>
  BY <1>2 DEF DropGates, entries, Locals
<1>7. /\ gates' \in [Dirs -> GateIds \cup {NoGate}] /\ torn \subseteq torn' /\ torn' \subseteq Dirs
      /\ \A d \in Dirs : gates'[d] # NoGate => d \notin l.evicted /\ gates[d] # NoGate
      /\ \A e \in Callers \ {c} : caller[e].pc \in Gated /\ caller[e].dir \notin torn'
            => gates'[caller[e].dir] = caller[e].gate
  BY <1>6, Removed
<1>8. Retained' = Retained
  BY <1>6 DEF Retained, Keys
<1>9. r.pc \notin Gated /\ r.pc \notin Holding /\ r.pc \notin Loading /\ r.pc \notin Early
  BY <1>3 DEF Gated, Holding, Loading, Early
<1>10. TypeOK'
  <2>1. \A e \in Callers : caller'[e].gate # NoGate <=> caller'[e].pc \in Gated
    <3> SUFFICES ASSUME NEW e \in Callers PROVE caller'[e].gate # NoGate <=> caller'[e].pc \in Gated
      OBVIOUS
    <3>1. CASE e = c
      BY <1>3, <1>5, <1>9, <3>1
    <3>2. CASE e # c
      BY <1>1, <1>5, <3>2, GatesHeld
    <3> QED BY <3>1, <3>2
  <2> QED BY <1>1, <1>5, <1>6, <1>7, <1>8, <2>1 DEF TypeOK, Gated
<1>11. BudgetHeld' /\ SlotsRight'
  BY <1>1, <1>6, <1>8 DEF BudgetHeld, SlotsRight
<1>12. StampsRight'
  <2> SUFFICES ASSUME NEW e \in Callers PROVE Stamped(caller'[e], disk[caller'[e].dir])
    BY <1>6 DEF StampsRight
  <2>1. CASE e = c
    BY <1>3, <1>5, <2>1 DEF Stamped, Probing, Loading
  <2>2. CASE e # c
    BY <1>1, <1>5, <2>2 DEF StampsRight
  <2> QED BY <2>1, <2>2
<1>13. SnapsHeld'
  <2> SUFFICES ASSUME NEW e \in Callers
               PROVE  /\ caller'[e].snap = NoSnap <=> caller'[e].pc \in Early
                      /\ caller'[e].pc = "insert" => snaps[caller'[e].snap].content = caller'[e].read
    BY <1>6 DEF SnapsHeld, At
  <2>1. CASE e = c
    <3>1. l.pc \notin Early
      BY <1>2 DEF Early
    <3> QED BY <1>1, <1>2, <1>3, <1>5, <1>9, <2>1, <3>1 DEF SnapsHeld
  <2>2. CASE e # c
    BY <1>1, <1>5, <2>2 DEF SnapsHeld, At
  <2> QED BY <2>1, <2>2
<1>14. GatesKept'
  BY <1>5, <1>7, <1>9 DEF GatesKept
<1>15. OneHolder'
  BY <1>1, <1>5, <1>9 DEF OneHolder
<1>16. NothingToTake'
  BY <1>1, <1>5, <1>6, <1>7, <1>9 DEF NothingToTake
<1>17. GatesWanted'
  <2> SUFFICES ASSUME NEW d \in Dirs, gates'[d] # NoGate
               PROVE  d \in Retained \cup failed \cup swept \/ \E e \in Callers : Claims(caller'[e], d)
    BY <1>6, <1>8 DEF GatesWanted
  <2>1. d \notin l.evicted /\ gates[d] # NoGate
    BY <1>7
  <2>2. ~Claims(l, d)
    BY <1>2, <2>1 DEF Claims, Asking, Loading
  <2> QED BY <1>1, <1>2, <1>5, <2>1, <2>2 DEF GatesWanted
<1> QED BY <1>10, <1>11, <1>12, <1>13, <1>14, <1>15, <1>16, <1>17 DEF CacheInd

\* Miss: the caller waits for the gate in the map, or for a new one.
LEMMA MissKeeps ==
  ASSUME CacheInd, NEW c \in Callers, Miss(c)
  PROVE  CacheInd'
<1>1. /\ TypeOK /\ BudgetHeld /\ StampsRight /\ SnapsHeld /\ SlotsRight
      /\ GatesKept /\ OneHolder /\ NothingToTake /\ GatesWanted
  BY DEF CacheInd
<1>2. PICK l \in Locals : l = caller[c] /\ l.pc = "peek" /\ l.dir \in Dirs
  BY <1>1, GatesHeld DEF Miss, At, Locals
<1>3. l.gate = NoGate /\ l.snap = NoSnap /\ Below(l.probed, disk[l.dir])
  <2>1. l.pc \notin Gated /\ l.pc \in Early /\ l.pc \in Probing
    BY <1>2 DEF Gated, Holding, Early, Probing
  <2> QED BY <1>1, <1>2, <2>1, GatesHeld DEF SnapsHeld, StampsRight, Stamped
<1>4. PICK g \in GateIds : /\ g = GateFor(l.dir) /\ g # NoGate
                           /\ gates[l.dir] # NoGate => g = gates[l.dir]
  <2>1. FreshGate \in GateIds
    BY <1>1, <1>2, <1>3, FreshGateUnused
  <2>2. GateFor(l.dir) \in GateIds
    BY <1>1, <1>2, <2>1 DEF GateFor, TypeOK
  <2>3. GateIds \subseteq Nat
    BY SnapNat DEF SnapIds
  <2> QED BY <2>2, <2>3, BudgetAssumption DEF GateFor
<1> DEFINE r == [l EXCEPT !.pc = "wait", !.gate = g]
<1>5. /\ r \in Locals /\ r.pc = "wait" /\ r.gate = g /\ r.snap = NoSnap /\ r.dir = l.dir
      /\ r.probed = l.probed
  BY <1>3 DEF Locals, Pcs
<1>6. Becomes(c, r) /\ gates' = [gates EXCEPT ![l.dir] = g]
  BY <1>2, <1>4 DEF Miss
<1> HIDE DEF r
<1>7. /\ caller' \in [Callers -> Locals] /\ caller'[c] = r
      /\ \A e \in Callers : e # c => caller'[e] = caller[e]
  BY <1>1, <1>5, <1>6, Turn
<1>8. UNCHANGED <<disk, cache, older, snaps, sidecar, swept, torn, failed, workload>>
  BY DEF Miss, entries, past
<1>9. Retained' = Retained
  BY <1>8 DEF Retained, Keys
<1>10. r.pc \in Gated /\ r.pc \notin Holding /\ r.pc \notin Loading /\ r.pc \in Early
  BY <1>5 DEF Gated, Holding, Loading, Early
<1>11. TypeOK'
  <2>1. \A e \in Callers : caller'[e].gate # NoGate <=> caller'[e].pc \in Gated
    <3> SUFFICES ASSUME NEW e \in Callers PROVE caller'[e].gate # NoGate <=> caller'[e].pc \in Gated
      OBVIOUS
    <3>1. CASE e = c
      BY <1>4, <1>5, <1>7, <1>10, <3>1
    <3>2. CASE e # c
      BY <1>1, <1>7, <3>2, GatesHeld
    <3> QED BY <3>1, <3>2
  <2>2. gates' \in [Dirs -> GateIds \cup {NoGate}]
    BY <1>1, <1>6 DEF TypeOK
  <2> QED BY <1>1, <1>7, <1>8, <1>9, <2>1, <2>2 DEF TypeOK, Gated
<1>12. BudgetHeld' /\ SlotsRight'
  BY <1>1, <1>8, <1>9 DEF BudgetHeld, SlotsRight
<1>13. StampsRight'
  <2> SUFFICES ASSUME NEW e \in Callers PROVE Stamped(caller'[e], disk[caller'[e].dir])
    BY <1>8 DEF StampsRight
  <2>1. CASE e = c
    BY <1>3, <1>5, <1>7, <2>1 DEF Stamped
  <2>2. CASE e # c
    BY <1>1, <1>7, <2>2 DEF StampsRight
  <2> QED BY <2>1, <2>2
<1>14. SnapsHeld'
  <2> SUFFICES ASSUME NEW e \in Callers
               PROVE  /\ caller'[e].snap = NoSnap <=> caller'[e].pc \in Early
                      /\ caller'[e].pc = "insert" => snaps[caller'[e].snap].content = caller'[e].read
    BY <1>8 DEF SnapsHeld, At
  <2>1. CASE e = c
    BY <1>5, <1>7, <1>10, <2>1
  <2>2. CASE e # c
    BY <1>1, <1>7, <2>2 DEF SnapsHeld, At
  <2> QED BY <2>1, <2>2
<1>15. GatesKept'
  <2> SUFFICES ASSUME NEW e \in Callers, caller'[e].pc \in Gated, caller'[e].dir \notin torn
               PROVE  gates'[caller'[e].dir] = caller'[e].gate
    BY <1>8 DEF GatesKept
  <2>1. CASE e = c
    BY <1>1, <1>2, <1>5, <1>6, <1>7, <2>1 DEF TypeOK
  <2>2. CASE e # c
    <3>1. /\ caller'[e] = caller[e] /\ caller[e].gate # NoGate /\ caller[e].dir \in Dirs
          /\ gates[caller[e].dir] = caller[e].gate
      BY <1>1, <1>7, <2>2, GatesHeld DEF GatesKept, Locals
    <3>2. gates'[caller[e].dir] = gates[caller[e].dir]
      BY <1>1, <1>2, <1>4, <1>6, <3>1 DEF TypeOK
    <3> QED BY <3>1, <3>2
  <2> QED BY <2>1, <2>2
<1>16. OneHolder'
  <2> SUFFICES ASSUME NEW e \in Callers, NEW q \in Callers, e # q,
                      caller'[e].gate = caller'[q].gate,
                      caller'[e].pc \in Holding, caller'[q].pc \in Holding
               PROVE  FALSE
    BY DEF OneHolder
  <2>1. e # c /\ q # c
    BY <1>7, <1>10
  <2> QED BY <1>1, <1>7, <2>1 DEF OneHolder
<1>17. NothingToTake'
  BY <1>1, <1>7, <1>8, <1>10 DEF NothingToTake
<1>18. GatesWanted'
  <2> SUFFICES ASSUME NEW d \in Dirs, gates'[d] # NoGate
               PROVE  d \in Retained \cup failed \cup swept \/ \E e \in Callers : Claims(caller'[e], d)
    BY <1>8, <1>9 DEF GatesWanted
  <2>1. CASE d = l.dir
    BY <1>5, <1>7, <2>1 DEF Claims, Asking
  <2>2. CASE d # l.dir
    <3>1. gates[d] # NoGate
      BY <1>1, <1>6, <2>2 DEF TypeOK
    <3>2. ~Claims(l, d)
      BY <1>2 DEF Claims, Asking, Loading
    <3> QED BY <1>1, <1>2, <1>7, <3>1, <3>2 DEF GatesWanted
  <2> QED BY <2>1, <2>2
<1> QED BY <1>11, <1>12, <1>13, <1>14, <1>15, <1>16, <1>17, <1>18 DEF CacheInd

\* Rewrite: a file gets a stamp no probe and no read has seen.
LEMMA RewriteKeeps ==
  ASSUME CacheInd, NEW d \in Dirs, NEW file \in {"nodes", "edges"}, Rewrite(d, file)
  PROVE  CacheInd'
<1>1. /\ TypeOK /\ BudgetHeld /\ StampsRight /\ SnapsHeld /\ SlotsRight
      /\ GatesKept /\ OneHolder /\ NothingToTake /\ GatesWanted
  BY DEF CacheInd
<1>2. UNCHANGED <<cache, older, gates, caller, snaps, sidecar, swept, torn, failed, workload>>
  BY DEF Rewrite, entries, past
<1>3. disk' \in [Dirs -> Files] /\ \A e \in Dirs : Below(disk[e], disk'[e])
  <2>1. disk \in [Dirs -> Files] /\ disk[d] \in Files /\ disk[d][file] < MaxStamp
    BY <1>1 DEF TypeOK, Rewrite
  <2>2. disk[d].nodes \in Nat /\ disk[d].edges \in Nat /\ MaxStamp \in Nat
    BY <2>1, BudgetAssumption DEF Files
  <2>3. PICK f \in Files : disk' = [disk EXCEPT ![d] = f] /\ Below(disk[d], f)
    <3>1. CASE file = "nodes"
      <4> DEFINE f == [disk[d] EXCEPT !.nodes = disk[d].nodes + 1]
      <4>1. f \in Files /\ f.nodes = disk[d].nodes + 1 /\ f.edges = disk[d].edges
        BY <2>1, <2>2, <3>1 DEF Files
      <4>2. disk' = [disk EXCEPT ![d] = f]
        BY <2>1, <3>1 DEF Rewrite
      <4> HIDE DEF f
      <4>3. Below(disk[d], f)
        BY <2>2, <4>1 DEF Below
      <4> QED BY <4>1, <4>2, <4>3
    <3>2. CASE file = "edges"
      <4> DEFINE f == [disk[d] EXCEPT !.edges = disk[d].edges + 1]
      <4>1. f \in Files /\ f.edges = disk[d].edges + 1 /\ f.nodes = disk[d].nodes
        BY <2>1, <2>2, <3>2 DEF Files
      <4>2. disk' = [disk EXCEPT ![d] = f]
        BY <2>1, <3>2 DEF Rewrite
      <4> HIDE DEF f
      <4>3. Below(disk[d], f)
        BY <2>2, <4>1 DEF Below
      <4> QED BY <4>1, <4>2, <4>3
    <3> QED BY <3>1, <3>2
  <2>4. \A e \in Dirs : e # d => disk'[e] = disk[e] /\ Below(disk[e], disk[e])
    BY <2>1, <2>3, BudgetAssumption DEF Below, Files
  <2> QED BY <2>1, <2>3, <2>4
<1>4. \A e \in Dirs, f \in Files : Below(f, disk[e]) => Below(f, disk'[e])
  <2> SUFFICES ASSUME NEW e \in Dirs, NEW f \in Files, Below(f, disk[e]) PROVE Below(f, disk'[e])
    OBVIOUS
  <2>1. disk[e] \in Files /\ disk'[e] \in Files
    BY <1>1, <1>3 DEF TypeOK
  <2> QED BY <1>3, <2>1 DEF Below, Files
<1>5. Retained' = Retained
  BY <1>2 DEF Retained, Keys
<1>6. TypeOK'
  BY <1>1, <1>2, <1>3, <1>5 DEF TypeOK
<1>7. BudgetHeld' /\ SnapsHeld' /\ GatesKept' /\ OneHolder' /\ NothingToTake' /\ GatesWanted'
  BY <1>1, <1>2, <1>5 DEF BudgetHeld, SnapsHeld, GatesKept, OneHolder, NothingToTake, GatesWanted, At
<1>8. StampsRight'
  <2> SUFFICES ASSUME NEW c \in Callers PROVE Stamped(caller[c], disk'[caller[c].dir])
    BY <1>2 DEF StampsRight
  <2>1. PICK l \in Locals : l = caller[c] /\ Stamped(l, disk[l.dir])
    BY <1>1, GatesHeld DEF StampsRight
  <2>2. l.dir \in Dirs /\ l.probed \in Files /\ l.read \in Files
    BY DEF Locals
  <2>3. l.pc \in Probing => Below(l.probed, disk'[l.dir])
    BY <1>4, <2>1, <2>2 DEF Stamped
  <2>4. l.pc = "insert" => Below(l.read, disk'[l.dir])
    BY <1>4, <2>1, <2>2 DEF Stamped
  <2>5. l.pc = "load_edges" => l.read.nodes <= disk'[l.dir].nodes
    <3>1. Below(disk[l.dir], disk'[l.dir]) /\ disk[l.dir] \in Files /\ disk'[l.dir] \in Files
      BY <1>1, <1>3, <2>2 DEF TypeOK
    <3> QED BY <2>1, <2>2, <3>1 DEF Stamped, Below, Files
  <2> QED BY <2>1, <2>3, <2>4, <2>5 DEF Stamped
<1>9. SlotsRight'
  <2> SUFFICES ASSUME NEW e \in Retained
               PROVE  Below(snaps[cache[e].snap].content, disk'[e])
    BY <1>1, <1>2, <1>5 DEF SlotsRight
  <2>1. e \in Dirs /\ snaps[cache[e].snap].content \in Files
    BY <1>1, SlotSnaps DEF TypeOK
  <2> QED BY <1>1, <1>4, <2>1 DEF SlotsRight
<1> QED BY <1>6, <1>7, <1>8, <1>9 DEF CacheInd

\* The invariant holds at first.
LEMMA CacheInit == Init => CacheInd
<1> SUFFICES ASSUME Init PROVE CacheInd
  OBVIOUS
<1>1. Keys(cache) = {} /\ Retained = {}
  BY DEF Init, Retained, Keys
<1>2. [nodes |-> 1, edges |-> 1] \in Files /\ Unread \in Files
  BY BudgetAssumption DEF Files, Unread
<1>3. \A c \in Callers : caller[c] = Idle
  BY DEF Init
<1>4. Idle \in Locals /\ Idle.pc = "idle" /\ Idle.gate = NoGate /\ Idle.snap = NoSnap
  <2>1. (CHOOSE d \in Dirs : TRUE) \in Dirs
    BY BudgetAssumption
  <2> QED BY <1>2, <2>1 DEF Idle, Locals, Pcs
<1>5. /\ Idle.pc \notin Gated /\ Idle.pc \in Early /\ Idle.pc \notin Holding
      /\ Idle.pc \notin Loading /\ Idle.pc \notin Probing
      /\ Idle.pc # "insert" /\ Idle.pc # "load_edges"
  BY <1>4 DEF Gated, Early, Holding, Loading, Probing
<1>6. TypeOK
  <2>1. Dropped \in [content : Files, index : IndexStates] /\ NoSidecar \in [source : Files, index : Files]
    BY <1>2 DEF Dropped, NoSidecar, NoIndex, IndexStates
  <2>2. \A c \in Callers : caller[c].gate # NoGate <=> caller[c].pc \in Holding \cup {"wait"}
    BY <1>3, <1>4, <1>5 DEF Gated
  <2>3. caller \in [Callers -> Locals]
    BY <1>4 DEF Init
  <2>4. /\ disk \in [Dirs -> Files] /\ cache \in [Dirs -> Slots \cup {NoSlot}]
        /\ gates \in [Dirs -> GateIds \cup {NoGate}]
    BY <1>2 DEF Init
  <2>5. snaps \in Snapshots /\ sidecar \in Sidecars
    BY <2>1 DEF Init, Snapshots, Sidecars
  <2> QED BY <2>2, <2>3, <2>4, <2>5 DEF Init, TypeOK, Snapshots, Sidecars
<1>7. BudgetHeld
  <2>1. {unit \in Dirs \X (1..MaxWeight) : unit[2] <= cache[unit[1]].weight} = {}
    <3> SUFFICES ASSUME NEW d \in Dirs, NEW n \in 1..MaxWeight PROVE ~(n <= cache[d].weight)
      OBVIOUS
    <3>1. cache[d].weight = 0 /\ n \in Nat /\ n >= 1
      BY BudgetAssumption DEF Init, NoSlot
    <3> QED BY <3>1
  <2>2. Weight(cache) = Cardinality({})
    BY <2>1 DEF Weight
  <2> QED BY <1>1, <2>2, FS_EmptySet, BudgetAssumption DEF BudgetHeld, Fits
<1>8. StampsRight /\ SnapsHeld
  BY <1>3, <1>4, <1>5 DEF StampsRight, Stamped, SnapsHeld, At
<1>9. SlotsRight /\ GatesKept /\ OneHolder /\ NothingToTake
  BY <1>1, <1>3, <1>5 DEF SlotsRight, GatesKept, OneHolder, NothingToTake
<1>10. GatesWanted
  BY DEF Init, GatesWanted
<1> QED BY <1>6, <1>7, <1>8, <1>9, <1>10 DEF CacheInd

\* Every step keeps the invariant.
LEMMA CacheStep == CacheInd /\ [Next]_vars => CacheInd'
<1> SUFFICES ASSUME CacheInd, [Next]_vars PROVE CacheInd'
  OBVIOUS
<1>1. CASE UNCHANGED vars
  <2>1. UNCHANGED <<disk, cache, older, gates, caller, snaps, sidecar, swept, torn, failed, workload>>
    BY <1>1 DEF vars, entries, past
  <2>2. Retained' = Retained
    BY <2>1 DEF Retained, Keys
  <2>3. TypeOK'
    BY <2>1, <2>2 DEF CacheInd, TypeOK
  <2> QED BY <2>1, <2>2, <2>3 DEF CacheInd, BudgetHeld, StampsRight, SnapsHeld, SlotsRight,
             GatesKept, OneHolder, NothingToTake, GatesWanted, At
<1>2. ASSUME NEW c \in Callers, NEW d \in Dirs, Start(c, d) PROVE CacheInd'
  BY <1>2, StartKeeps
<1>3. ASSUME NEW c \in Callers, Step(c) PROVE CacheInd'
  BY <1>3, ProbeEdgesKeeps, HitKeeps, MissKeeps, GateStepsKeep, LoadEdgesKeeps, LoadFailsKeeps,
     OversizeKeeps, InsertKeeps, DropGatesKeeps, IndexStepsKeep DEF Step
<1>4. ASSUME NEW gone \in SUBSET Dirs, Invalidate(gone) PROVE CacheInd'
  BY <1>4, InvalidateKeeps
<1>5. CASE SweepGates
  BY <1>5, SweepGatesKeeps
<1>6. ASSUME NEW d \in Dirs, NEW file \in {"nodes", "edges"}, Rewrite(d, file) PROVE CacheInd'
  BY <1>6, RewriteKeeps
<1> QED BY <1>1, <1>2, <1>3, <1>4, <1>5, <1>6 DEF Next

\* The invariant gives the two properties the runs check.
LEMMA CacheIndImplies == CacheInd => CacheInv /\ HonestCache
<1> SUFFICES ASSUME CacheInd PROVE CacheInv /\ HonestCache
  OBVIOUS
<1>1. /\ TypeOK /\ BudgetHeld /\ StampsRight /\ SnapsHeld /\ SlotsRight
      /\ GatesKept /\ OneHolder /\ NothingToTake /\ GatesWanted
  BY DEF CacheInd
<1>2. IdleGatesHaveEntries
  <2> SUFFICES ASSUME swept = {}, \A c \in Callers : At(c, "idle"), NEW d \in Dirs, gates[d] # NoGate
               PROVE  d \in Retained \cup failed
    BY DEF IdleGatesHaveEntries
  <2>1. \A c \in Callers : ~Claims(caller[c], d)
    BY NoClaim DEF At, Quiet
  <2> QED BY <1>1, <2>1 DEF GatesWanted
<1>3. LoadsOnce
  <2> SUFFICES ASSUME NEW c \in Callers, caller[c].pc \in Loading, caller[c].dir \notin torn
               PROVE  /\ ~Hits(c)
                      /\ \A e \in Callers \ {c} : caller[e].pc \in Loading => caller[e].dir # caller[c].dir
    BY DEF LoadsOnce
  <2>1. ~Hits(c)
    BY <1>1 DEF NothingToTake, Fresh, Hits, Retained, Keys
  <2>2. ASSUME NEW e \in Callers \ {c}, caller[e].pc \in Loading, caller[e].dir = caller[c].dir
        PROVE  FALSE
    <3>1. \A q \in {c, e} : caller[q].pc \in Gated /\ caller[q].pc \in Holding
      BY <2>2 DEF Loading, Gated, Holding
    <3>2. caller[e].gate = caller[c].gate
      BY <1>1, <2>2, <3>1 DEF GatesKept
    <3> QED BY <1>1, <2>2, <3>1, <3>2 DEF OneHolder
  <2> QED BY <2>1, <2>2
<1>4. HonestCache
  <2> SUFFICES ASSUME NEW d \in Retained, cache[d].fresh = disk[d]
               PROVE  snaps[cache[d].snap].content = disk[d]
    BY DEF HonestCache
  <2>1. PICK f \in Files : f = snaps[cache[d].snap].content
    BY <1>1, SlotSnaps DEF TypeOK
  <2>2. disk[d] \in Files
    BY <1>1, SlotSnaps DEF TypeOK
  <2>3. Below(disk[d], f) /\ Below(f, disk[d])
    BY <1>1, <2>1 DEF SlotsRight
  <2>4. f.nodes = disk[d].nodes /\ f.edges = disk[d].edges
    BY <2>2, <2>3 DEF Below, Files
  <2> QED BY <2>1, <2>2, <2>4 DEF Files
<1> QED BY <1>1, <1>2, <1>3, <1>4 DEF CacheInv

\* Whatever callers load, hit, evict, expire or invalidate and in whatever order,
\* the budgets hold, no gate stays without an entry when nothing runs, and a
\* directory is loaded once at a time (MtimeCache::get_or_load_weighted).
THEOREM CacheCorrect == Spec => []CacheInv
<1>1. Init => CacheInd
  BY CacheInit
<1>2. CacheInd /\ [Next]_vars => CacheInd'
  BY CacheStep
<1>3. CacheInd => CacheInv
  BY CacheIndImplies
<1> QED BY <1>1, <1>2, <1>3, PTL DEF Spec

\* However often the files are rewritten under its loads, a slot that the files
\* as they are now would hit holds what they contain (snapshot_blocking).
THEOREM CacheIsHonest == Spec => []HonestCache
<1>1. Init => CacheInd
  BY CacheInit
<1>2. CacheInd /\ [Next]_vars => CacheInd'
  BY CacheStep
<1>3. CacheInd => HonestCache
  BY CacheIndImplies
<1> QED BY <1>1, <1>2, <1>3, PTL DEF Spec

-----------------------------------------------------------------------------
(* The wiki repository.                                                    *)
(*                                                                         *)
(* A request looks at the manifest, at pages and at the manifest again.    *)
(* What it has read is right, or the manifest it began with is lost: no    *)
(* look will ever find it again without the marker.  Lost is what the      *)
(* proof turns on; it survives every step of the generator, also a swap    *)
(* that is undone.                                                         *)


-----------------------------------------------------------------------------
(* The generator *)

Before == {"mark", "truncate", "meta", "render", "flush", "manifest"}
Writing == {"truncate", "meta", "render", "flush", "manifest", "unmark"}
After  == {"unmark", "rotate", "swap"}
RunSteps == {"idle"} \cup Before \cup After

Runs == [step : RunSteps, number : Nat, commit : Nat, since : Nat, changed : SUBSET Classes,
         staged : BOOLEAN, base : Nat, listing : SUBSET Classes, unwritten : SUBSET Classes]

RunnerTypes ==
  /\ history \in Seq(Pages) /\ LastCommit \in 1..MaxCommits
  /\ run.commit \in 0..LastCommit /\ (run.step # "idle" => run.commit # 0)
  /\ runs \in 0..MaxWikiRuns
  /\ outcome \in {"none", "running", "succeeded", "failed"}
  /\ dirs \in [{"out", "stage", "bak"} -> {Nothing} \cup Bundles]
  /\ run \in Runs
  /\ bundles \in [1..MaxWikiRuns -> {Nothing} \cup Records]

\* A run that has written a manifest, other than one that is still to be swapped in.
Known(s) ==
  /\ s \in 1..runs /\ bundles[s] # Nothing
  /\ ~(run.staged /\ run.step \in After /\ s = run.number)

\* The run that wrote the manifest of d listed what the manifest lists.
Listed(d) == bundles[StampIn(d)].listing = ManifestIn(d).pages
Matches(d) == Listed(d) /\ bundles[StampIn(d)].pages = dirs[d].pages

\* A directory that readers see or may see again: without a marker it is what
\* the run of its manifest published.
Served(d) == StampIn(d) # 0 =>
  /\ Known(StampIn(d)) /\ Listed(d)
  /\ ~dirs[d].marker => Matches(d) /\ bundles[StampIn(d)].visible

\* Where the run under way stands.
RunUnderWay ==
  /\ run.step # "idle" => run.number = runs /\ runs # 0
  /\ run.step \in Before => bundles[run.number] = Nothing
  /\ run.step \in Writing => dirs[Target] # Nothing /\ dirs[Target].marker
  /\ run.step \in After => bundles[run.number] # Nothing
  /\ run.step = "unmark" => StampIn(Target) = run.number /\ Matches(Target)
  /\ run.step \in {"rotate", "swap"} =>
       /\ run.staged /\ dirs["stage"] # Nothing /\ ~dirs["stage"].marker
       /\ StampIn("stage") = run.number /\ Matches("stage")
  /\ run.step = "swap" => dirs["out"] = Nothing
  /\ \A n \in (runs + 1)..MaxWikiRuns : bundles[n] = Nothing

RunnerInv == RunnerTypes /\ Served("out") /\ Served("bak") /\ RunUnderWay

-----------------------------------------------------------------------------
(* The requests *)

\* No look finds the manifest of s again without the marker.
Lost(s) ==
  /\ StampIn("out") = s => dirs["out"].marker
  /\ dirs["out"] = Nothing /\ StampIn("bak") = s => dirs["bak"].marker
  /\ ~(run.step = "unmark" /\ ~run.staged /\ run.number = s)

\* The page of f is of the bundle of s, or was not there.
TextOf(s, f, text) == text \in {bundles[s].pages[f], Absent}

Sound(index) ==
  /\ index.listing = bundles[index.stamp].listing
  /\ \A f \in index.listing : TextOf(index.stamp, f, index.bodies[f])

ReaderSteps == {"idle", "probe", "gate", "stat", "manifest", "pages", "page", "verify",
                "listed", "answered"}

\* Gates are of no account here.
ReaderTypes(r) ==
  reader[r] \in [step : ReaderSteps, stamp : Nat, index : {Nothing} \cup Indexes,
                 unread : SUBSET Classes, gate : {reader[r].gate}, body : Contents,
                 page : Classes \cup {Nothing}]

HasIndex == {"pages", "page", "verify", "listed", "answered"}

ReaderSound(r) ==
  LET index == reader[r].index
      page  == reader[r].page
      step  == reader[r].step
  IN
  /\ step = "manifest" => Known(reader[r].stamp)
  /\ step \in HasIndex => index \in Indexes /\ Known(index.stamp)
  /\ step \notin {"verify", "answered"} => page = Nothing
  /\ step = "pages" => Sound(index) \/ Lost(index.stamp)
  /\ step \in {"page", "verify"} => ShowsOneBundle(index)
  /\ step = "verify" =>
       page \in index.listing /\ (TextOf(index.stamp, page, reader[r].body) \/ Lost(index.stamp))
  /\ step = "listed" => bundles[index.stamp].listing = index.listing
  /\ step = "answered" =>
       /\ bundles[index.stamp].listing = index.listing
       /\ page # Nothing => ShowsOneBundle(index) /\ TextOf(index.stamp, page, reader[r].body)

CacheSound == wikiCache # Nothing =>
  wikiCache \in Indexes /\ Known(wikiCache.stamp) /\ ShowsOneBundle(wikiCache)

RequestsInv ==
  /\ DOMAIN reader = WikiReaders /\ reader = [r \in WikiReaders |-> reader[r]]
  /\ \A r \in WikiReaders : ReaderTypes(r) /\ ReaderSound(r)
  /\ CacheSound

WikiInd == RunnerInv /\ RequestsInv

-----------------------------------------------------------------------------
(* The generator keeps its invariant, and what requests rely on *)

\* A step of the generator leaves what is known of a bundle, and what is lost.
Carried(s) ==
  /\ Known(s)'
  /\ bundles'[s].listing = bundles[s].listing /\ bundles'[s].pages = bundles[s].pages
  /\ bundles[s].visible => bundles'[s].visible
  /\ Lost(s) => Lost(s)'
Carry == \A s : Known(s) => Carried(s)

LEMMA TargetType == Target \in {"out", "stage"}
BY DEF Target

\* What a directory's manifest is.
LEMMA StampOfDirectory ==
  ASSUME NEW d \in {"out", "stage", "bak"}, dirs[d] \in {Nothing} \cup Bundles
  PROVE  /\ StampIn(d) \in Nat
         /\ StampIn(d) # 0 => /\ dirs[d] # Nothing /\ dirs[d] \in Bundles
                              /\ dirs[d].manifest \in Manifests
                              /\ ManifestIn(d) = dirs[d].manifest
                              /\ StampIn(d) = dirs[d].manifest.stamp
BY DEF StampIn, ManifestIn, Bundles, Manifests

\* Files of the directory that the run writes to change, under its marker; the
\* manifest of the wiki directory stays.
LEMMA Overwrite ==
  ASSUME RunnerInv, NEW b \in Bundles, b.marker,
         ~run.staged => b.manifest = ManifestIn("out"),
         run.step \in Before, run'.step \in Before \cap Writing, run' \in Runs,
         run'.number = run.number, run'.staged = run.staged, run'.commit = run.commit,
         dirs' = [dirs EXCEPT ![Target] = b],
         UNCHANGED <<history, runs, outcome, bundles>>
  PROVE  RunnerInv' /\ Carry
<1> USE DEF RunnerInv
<1>1. RunnerTypes'
  BY TargetType DEF RunnerTypes, LastCommit, Before
<1>2. Target' = Target /\ dirs'[Target] = b /\ b # Nothing
  BY TargetType, NothingAssumption DEF RunnerTypes, Target
<1>3. /\ run'.step \notin After /\ run'.step \in Writing /\ run'.step # "idle"
      /\ run.step \notin After /\ run.step # "idle"
  BY DEF Before, After, Writing
<1>4. \A s : Known(s)' <=> Known(s)
  BY <1>3 DEF Known
<1>5. /\ dirs'["bak"] = dirs["bak"]
      /\ StampIn("bak")' = StampIn("bak") /\ ManifestIn("bak")' = ManifestIn("bak")
  BY TargetType DEF RunnerTypes, StampIn, ManifestIn
<1>6. Served("bak")'
  BY <1>4, <1>5 DEF Served, Listed, Matches
<1>7. StampIn("out")' = StampIn("out") /\ ManifestIn("out")' = ManifestIn("out")
  <2>1. CASE run.staged
    BY <2>1 DEF Target, RunnerTypes, StampIn, ManifestIn
  <2>2. CASE ~run.staged
    <3>1. dirs'["out"] = b /\ ManifestIn("out")' = b.manifest
      BY <1>2, <2>2 DEF Target, ManifestIn
    <3> QED BY <2>2, <3>1 DEF StampIn
  <2> QED BY <2>1, <2>2
<1>8. dirs'["out"] = dirs["out"] \/ (dirs'["out"] # Nothing /\ dirs'["out"].marker)
  BY <1>2, TargetType DEF RunnerTypes, Target
<1>9. Served("out")'
  BY <1>4, <1>7, <1>8 DEF Served, Listed, Matches
<1>10. RunUnderWay'
  BY <1>2, <1>3 DEF RunUnderWay, Writing, After
<1>11. Carry
  <2> SUFFICES ASSUME NEW s, Known(s) PROVE Carried(s)
    BY DEF Carry
  <2>1. Lost(s) => Lost(s)'
    BY <1>3, <1>5, <1>7, <1>8 DEF Lost, After
  <2> QED BY <1>4, <2>1 DEF Carried
<1> QED BY <1>1, <1>6, <1>9, <1>10, <1>11

LEMMA MarkerStep == RunnerInv /\ WriteMarker => RunnerInv' /\ Carry
<1> SUFFICES ASSUME RunnerInv, WriteMarker PROVE RunnerInv' /\ Carry
  OBVIOUS
<1> USE DEF RunnerInv, RunnerTypes, WriteMarker
<1> DEFINE kept == IF run.staged \/ dirs["out"] = Nothing THEN EmptyBundle ELSE dirs["out"]
           b == [kept EXCEPT !.marker = TRUE]
<1>1. EmptyBundle \in Bundles /\ EmptyBundle.manifest = Nothing
  BY WikiAssumption DEF EmptyBundle, NoPages, Bundles, Pages
<1>2. kept \in Bundles
  BY <1>1
<1>3. b \in Bundles /\ b.marker /\ b.manifest = kept.manifest
  BY <1>2 DEF Bundles
<1>4. ~run.staged => b.manifest = ManifestIn("out")
  BY <1>1, <1>3 DEF ManifestIn
<1>5. dirs' = [dirs EXCEPT ![Target] = b]
  OBVIOUS
<1>6. run' = [run EXCEPT !.step = "truncate"]
  BY DEF Continue
<1> HIDE DEF b, kept
<1>7. run' \in Runs
  BY <1>6 DEF Runs, RunSteps, Before
<1>8. run'.number = run.number /\ run'.staged = run.staged /\ run'.commit = run.commit
  BY <1>6 DEF Runs
<1>9. run.step \in Before /\ run'.step \in Before \cap Writing
  BY <1>6 DEF Before, Writing, Runs
<1> QED BY <1>3, <1>4, <1>5, <1>7, <1>8, <1>9, Overwrite

\* The steps that change one field of a directory already marked.
LEMMA FieldStep ==
  ASSUME RunnerInv, run.step \in Before \cap Writing, NEW b,
         b \in Bundles, b.marker = dirs[Target].marker, b.manifest = dirs[Target].manifest,
         dirs' = [dirs EXCEPT ![Target] = b],
         NEW step \in Before \cap Writing, run' \in Runs, run'.step = step,
         run'.number = run.number, run'.staged = run.staged, run'.commit = run.commit,
         UNCHANGED <<history, runs, outcome, bundles>>
  PROVE  RunnerInv' /\ Carry
<1>1. dirs[Target] # Nothing /\ dirs[Target].marker
  BY DEF RunnerInv, RunUnderWay
<1>2. ~run.staged => b.manifest = ManifestIn("out")
  BY <1>1 DEF Target, ManifestIn
<1> QED BY <1>1, <1>2, Overwrite

LEMMA FilesStep ==
  RunnerInv /\ (TruncateMeta \/ WriteMeta \/ FlushPage \/ PruneStale) => RunnerInv' /\ Carry
<1> SUFFICES ASSUME RunnerInv, TruncateMeta \/ WriteMeta \/ FlushPage \/ PruneStale
             PROVE  RunnerInv' /\ Carry
  OBVIOUS
<1>1. /\ run.step \in Before \cap Writing /\ run \in Runs
      /\ UNCHANGED <<history, runs, outcome, bundles>>
  BY DEF RunnerInv, RunnerTypes, TruncateMeta, WriteMeta, FlushPage, PruneStale, Before, Writing
<1>2. dirs \in [{"out", "stage", "bak"} -> {Nothing} \cup Bundles] /\ dirs[Target] \in Bundles
  BY <1>1, TargetType DEF RunnerInv, RunnerTypes, RunUnderWay
<1>3. history \in Seq(Pages) /\ run.commit \in 1..Len(history)
  BY <1>1 DEF RunnerInv, RunnerTypes, LastCommit, Before, Writing
<1>4. history[run.commit] \in Pages
  BY <1>3
<1>5. ASSUME NEW n, run' = [run EXCEPT !.step = n] \/ \E u \in SUBSET Classes : run' = [run EXCEPT !.unwritten = u],
             n \in Before \cap Writing
      PROVE  /\ run' \in Runs /\ run'.step \in Before \cap Writing
             /\ run'.number = run.number /\ run'.staged = run.staged /\ run'.commit = run.commit
  BY <1>1, <1>5 DEF Runs, RunSteps
<1>6. CASE TruncateMeta
  <2> DEFINE b == [dirs[Target] EXCEPT !.meta = 0]
  <2>1. b \in Bundles /\ b.marker = dirs[Target].marker /\ b.manifest = dirs[Target].manifest
    BY <1>2 DEF Bundles
  <2>2. dirs' = [dirs EXCEPT ![Target] = b] /\ run' = [run EXCEPT !.step = "meta"]
    BY <1>6, <1>2 DEF TruncateMeta, Continue
  <2> HIDE DEF b
  <2>3. "meta" \in Before \cap Writing
    BY DEF Before, Writing
  <2> QED BY <1>1, <1>5, <2>1, <2>2, <2>3, FieldStep
<1>7. CASE WriteMeta
  <2> DEFINE b == [dirs[Target] EXCEPT !.meta = run.commit]
  <2>1. b \in Bundles /\ b.marker = dirs[Target].marker /\ b.manifest = dirs[Target].manifest
    BY <1>1, <1>2 DEF Bundles, Runs
  <2>2. dirs' = [dirs EXCEPT ![Target] = b] /\ run' = [run EXCEPT !.step = "render"]
    BY <1>7, <1>2 DEF WriteMeta, Continue
  <2> HIDE DEF b
  <2>3. "render" \in Before \cap Writing
    BY DEF Before, Writing
  <2> QED BY <1>1, <1>5, <2>1, <2>2, <2>3, FieldStep
<1>8. CASE FlushPage
  <2> DEFINE f == First(run.unwritten)
             b == [dirs[Target] EXCEPT !.pages = [@ EXCEPT ![f] = history[run.commit][f]]]
             u == run.unwritten \ {f}
  <2>1. [dirs[Target].pages EXCEPT ![f] = history[run.commit][f]] \in Pages
    BY <1>2, <1>4 DEF Bundles, Pages
  <2>2. b \in Bundles /\ b.marker = dirs[Target].marker /\ b.manifest = dirs[Target].manifest
    BY <1>2, <2>1 DEF Bundles
  <2>3. dirs' = [dirs EXCEPT ![Target] = b] /\ run' = [run EXCEPT !.unwritten = u]
    BY <1>8, <1>2 DEF FlushPage
  <2>4. u \in SUBSET Classes /\ run.step \in Before \cap Writing
    BY <1>1 DEF Runs
  <2> HIDE DEF b, u
  <2> QED BY <1>1, <1>5, <2>2, <2>3, <2>4, FieldStep
<1>9. CASE PruneStale
  <2> DEFINE p == [f \in Classes |-> IF FeatureOf[f] \in Features(Rendered) /\ f \notin Rendered
                                     THEN Absent ELSE dirs[Target].pages[f]]
             b == [dirs[Target] EXCEPT !.pages = p]
  <2>1. p \in Pages
    BY <1>2, WikiAssumption DEF Bundles, Pages
  <2>2. b \in Bundles /\ b.marker = dirs[Target].marker /\ b.manifest = dirs[Target].manifest
    BY <1>2, <2>1 DEF Bundles
  <2>3. dirs' = [dirs EXCEPT ![Target] = b] /\ run' = [run EXCEPT !.step = "manifest"]
    BY <1>9, <1>2 DEF PruneStale, Continue
  <2> HIDE DEF b
  <2>4. "manifest" \in Before \cap Writing
    BY DEF Before, Writing
  <2> QED BY <1>1, <1>5, <2>2, <2>3, <2>4, FieldStep
<1> QED BY <1>6, <1>7, <1>8, <1>9

\* The steps that move the run alone.
LEMMA RunMoves ==
  ASSUME RunnerInv, RunnerTypes', RunUnderWay', UNCHANGED <<dirs, bundles>>,
         run'.step \notin After, runs' >= runs
  PROVE  RunnerInv' /\ Carry
<1>1. runs \in Nat /\ runs' \in Nat
  BY WikiAssumption DEF RunnerInv, RunnerTypes
<1>2. \A s : Known(s) => Known(s)'
  BY <1>1 DEF Known
<1>3. \A d : StampIn(d)' = StampIn(d) /\ ManifestIn(d)' = ManifestIn(d)
  BY DEF StampIn, ManifestIn
<1>4. Served("out")' /\ Served("bak")'
  BY <1>2, <1>3 DEF RunnerInv, Served, Listed, Matches
<1>5. \A s : Lost(s) => Lost(s)'
  BY <1>3 DEF Lost, After
<1> QED BY <1>2, <1>4, <1>5 DEF RunnerInv, Carry, Carried

LEMMA MovesStep ==
  ASSUME RunnerInv,
         \/ Commit \/ NothingToDo \/ Render \/ RunDies
         \/ \E since \in 0..LastCommit, staged \in Staging : StartWiki(since, staged)
  PROVE  RunnerInv' /\ Carry
<1>1. /\ RunnerTypes /\ RunUnderWay /\ runs \in Nat /\ MaxWikiRuns \in Nat /\ LastCommit \in Nat
      /\ run \in Runs
  BY WikiAssumption DEF RunnerInv, RunnerTypes
<1>2. IdleRun \in Runs
  BY DEF IdleRun, Runs, RunSteps
<1>3. Target \in {"out", "stage"}
  BY TargetType
<1>4. CASE Commit
  <2>1. PICK f \in Classes, t \in Contents :
          history' = Append(history, [history[LastCommit] EXCEPT ![f] = t])
    BY <1>4 DEF Commit
  <2>2. history[LastCommit] \in Pages
    BY <1>1 DEF RunnerTypes, LastCommit
  <2>3. [history[LastCommit] EXCEPT ![f] = t] \in Pages
    BY <2>2 DEF Pages
  <2>4. history' \in Seq(Pages) /\ Len(history') = Len(history) + 1
    BY <2>1, <2>3 DEF RunnerTypes, RunnerInv
  <2>5. /\ UNCHANGED <<dirs, run, runs, outcome, bundles>> /\ LastCommit < MaxCommits
        /\ run.step = "idle"
    BY <1>4 DEF Commit
  <2>6. RunnerTypes'
    BY <1>1, <2>4, <2>5, WikiAssumption DEF RunnerTypes, LastCommit
  <2>7. RunUnderWay'
    BY <1>1, <2>5 DEF RunUnderWay, Before, Writing, After
  <2> QED BY <1>1, <2>5, <2>6, <2>7, RunMoves DEF After
<1>5. CASE NothingToDo
  <2>1. UNCHANGED <<history, dirs, run, runs, bundles>> /\ outcome' = "succeeded" /\ run.step = "idle"
    BY <1>5 DEF NothingToDo
  <2>2. RunnerTypes'
    BY <1>1, <2>1 DEF RunnerTypes, LastCommit
  <2>3. RunUnderWay'
    BY <1>1, <2>1 DEF RunUnderWay, Before, Writing, After
  <2> QED BY <1>1, <2>1, <2>2, <2>3, RunMoves DEF After
<1>6. CASE Render
  <2>1. /\ UNCHANGED <<history, dirs, runs, outcome, bundles>> /\ run.step = "render"
        /\ run' = [run EXCEPT !.step = "flush", !.unwritten = Rendered, !.listing = Rendered \cup Merged]
    BY <1>6 DEF Render
  <2>2. dirs[Target] \in Bundles
    BY <1>1, <1>3, <2>1 DEF RunnerTypes, RunUnderWay, Writing
  <2>3. Rendered \subseteq Classes /\ Merged \subseteq Classes
    BY <2>2 DEF Rendered, Present, Merged, ManifestIn, Bundles, Manifests
  <2>4. /\ run' \in Runs /\ run'.step = "flush"
        /\ run'.number = run.number /\ run'.staged = run.staged /\ run'.commit = run.commit
    BY <1>1, <2>1, <2>3 DEF Runs, RunSteps, Before
  <2>5. RunnerTypes'
    BY <1>1, <2>1, <2>4 DEF RunnerTypes, LastCommit
  <2>6. Target' = Target
    BY <2>4 DEF Target
  <2>7. RunUnderWay'
    BY <1>1, <2>1, <2>4, <2>6 DEF RunUnderWay, Before, Writing, After
  <2> QED BY <1>1, <2>1, <2>4, <2>5, <2>7, RunMoves DEF After
<1>7. CASE RunDies
  <2>1. UNCHANGED <<history, dirs, runs, bundles>> /\ run' = IdleRun /\ outcome' = "failed"
    BY <1>7 DEF RunDies, EndRun
  <2>2. RunnerTypes'
    BY <1>1, <1>2, <2>1 DEF RunnerTypes, LastCommit, IdleRun
  <2>3. RunUnderWay'
    BY <1>1, <2>1 DEF RunUnderWay, IdleRun, Before, Writing, After
  <2> QED BY <1>1, <2>1, <2>2, <2>3, RunMoves DEF After, IdleRun
<1>8. ASSUME NEW since \in 0..LastCommit, NEW staged \in Staging, StartWiki(since, staged)
      PROVE  RunnerInv' /\ Carry
  <2>1. /\ UNCHANGED <<history, dirs, bundles>> /\ outcome' = "running"
        /\ runs < MaxWikiRuns /\ runs' = runs + 1
    BY <1>8 DEF StartWiki
  <2>0. PICK changed \in ChangedFiles(since) :
          run' = [IdleRun EXCEPT !.step = "mark", !.number = runs + 1, !.commit = LastCommit,
                                 !.since = since, !.changed = changed, !.staged = staged,
                                 !.base = StampIn("out")]
    BY <1>8 DEF StartWiki
  <2>2. changed \subseteq Classes /\ StampIn("out") \in Nat /\ staged \in BOOLEAN /\ since \in Nat
    BY <1>1, StampOfDirectory, WikiAssumption DEF RunnerTypes, ChangedFiles, Changed
  <2>3. /\ run' \in Runs /\ run'.step = "mark" /\ run'.number = runs' /\ run'.commit = LastCommit
    <3>1. run' = [step |-> "mark", number |-> runs + 1, commit |-> LastCommit, since |-> since,
                  changed |-> changed, staged |-> staged, base |-> StampIn("out"), listing |-> {}, unwritten |-> {}]
      BY <2>0 DEF IdleRun
    <3> QED BY <1>1, <2>1, <2>2, <3>1 DEF Runs, RunSteps, Before
  <2>4. RunnerTypes'
    BY <1>1, <2>1, <2>3 DEF RunnerTypes, LastCommit
  <2>5. bundles[runs + 1] = Nothing
    BY <1>1, <2>1 DEF RunUnderWay
  <2>6. \A n \in (runs' + 1)..MaxWikiRuns : n \in (runs + 1)..MaxWikiRuns
    BY <1>1, <2>1
  <2>7. RunUnderWay'
    BY <1>1, <2>1, <2>3, <2>5, <2>6 DEF RunUnderWay, Before, Writing, After
  <2> QED BY <1>1, <2>1, <2>3, <2>4, <2>7, RunMoves DEF After
<1> QED BY <1>4, <1>5, <1>6, <1>7, <1>8

LEMMA ManifestStep == RunnerInv /\ WriteManifest => RunnerInv' /\ Carry
<1> SUFFICES ASSUME RunnerInv, WriteManifest PROVE RunnerInv' /\ Carry
  OBVIOUS
<1> DEFINE m == [stamp |-> run.number, pages |-> run.listing]
           b == [dirs[Target] EXCEPT !.manifest = m]
           p == [commit |-> run.commit, since |-> run.since, changed |-> run.changed,
                 staged |-> run.staged, base |-> run.base, visible |-> FALSE, listing |-> run.listing,
                 pages |-> dirs[Target].pages]
<1>1. /\ RunnerTypes /\ RunUnderWay /\ Served("out") /\ Served("bak") /\ run \in Runs
      /\ run.step = "manifest" /\ run' = [run EXCEPT !.step = "unmark"]
      /\ dirs' = [dirs EXCEPT ![Target].manifest = m]
      /\ bundles' = [bundles EXCEPT ![run.number] = p]
      /\ UNCHANGED <<history, runs, outcome>>
  BY DEF RunnerInv, RunnerTypes, WriteManifest, Continue
<1>2. /\ run.number = runs /\ runs \in 1..MaxWikiRuns /\ bundles[run.number] = Nothing
      /\ dirs[Target] \in Bundles /\ dirs[Target].marker
      /\ dirs \in [{"out", "stage", "bak"} -> {Nothing} \cup Bundles]
      /\ bundles \in [1..MaxWikiRuns -> {Nothing} \cup Records]
  BY <1>1, TargetType DEF RunnerTypes, RunUnderWay, Before, Writing
<1>3. m \in Manifests
  BY <1>1, <1>2 DEF Runs, Manifests
<1>4. /\ b \in Bundles /\ b.marker /\ b.manifest = m /\ b.pages = dirs[Target].pages
      /\ dirs' = [dirs EXCEPT ![Target] = b]
  BY <1>1, <1>2, <1>3 DEF Bundles
<1>5. p \in Records /\ p.listing = m.pages /\ p.pages = dirs[Target].pages
  BY <1>1, <1>2 DEF Runs, Bundles, Records
<1>6. /\ run' \in Runs /\ run'.step = "unmark" /\ run'.number = run.number
      /\ run'.staged = run.staged /\ run'.commit = run.commit /\ Target' = Target
  BY <1>1 DEF Runs, RunSteps, After, Target
<1>7. m.stamp = run.number /\ m # Nothing /\ b # Nothing /\ p # Nothing
  BY <1>3, <1>4, <1>5, NothingAssumption
<1> HIDE DEF m, b, p
<1>8. RunnerTypes'
  <2>1. dirs' \in [{"out", "stage", "bak"} -> {Nothing} \cup Bundles]
    BY <1>2, <1>4, TargetType
  <2>2. bundles' \in [1..MaxWikiRuns -> {Nothing} \cup Records]
    BY <1>1, <1>2, <1>5
  <2> QED BY <1>1, <1>6, <2>1, <2>2 DEF RunnerTypes, LastCommit
<1>9. /\ dirs'[Target] = b /\ \A d \in {"out", "stage", "bak"} : d # Target => dirs'[d] = dirs[d]
      /\ bundles'[runs] = p /\ \A n \in 1..MaxWikiRuns : n # runs => bundles'[n] = bundles[n]
  BY <1>1, <1>2, <1>4, TargetType
<1>10. /\ StampIn(Target)' = runs /\ ManifestIn(Target)' = m
       /\ \A d \in {"out", "stage", "bak"} : d # Target =>
            StampIn(d)' = StampIn(d) /\ ManifestIn(d)' = ManifestIn(d)
  BY <1>2, <1>4, <1>6, <1>7, <1>9 DEF StampIn, ManifestIn
<1>11. \A s : Known(s) => Known(s)' /\ s # runs /\ bundles'[s] = bundles[s]
  BY <1>1, <1>2, <1>6, <1>9 DEF Known
<1>12. Matches(Target)'
  BY <1>4, <1>5, <1>6, <1>9, <1>10 DEF Matches, Listed
<1>13. \A d \in {"out", "bak"} : d # Target /\ Served(d) => Served(d)'
  BY <1>9, <1>10, <1>11 DEF Served, Listed, Matches
<1>14. ~run.staged => Known(runs)'
  BY <1>1, <1>2, <1>6, <1>7, <1>9 DEF Known
<1>15. Served("out")' /\ Served("bak")'
  <2>1. CASE run.staged
    BY <2>1, <1>1, <1>13 DEF Target
  <2>2. CASE ~run.staged
    BY <2>2, <1>1, <1>4, <1>6, <1>9, <1>10, <1>12, <1>13, <1>14 DEF Target, Served, Matches
  <2> QED BY <2>1, <2>2
<1>16. RunUnderWay'
  <2>1. \A n \in (runs + 1)..MaxWikiRuns : n # runs /\ n \in 1..MaxWikiRuns /\ bundles[n] = Nothing
    BY <1>1, <1>2, WikiAssumption DEF RunUnderWay
  <2> QED BY <1>1, <1>2, <1>4, <1>6, <1>7, <1>9, <1>10, <1>12, <2>1
       DEF RunUnderWay, Before, Writing, After
<1>17. Carry
  <2> SUFFICES ASSUME NEW s, Known(s) PROVE Carried(s)
    BY DEF Carry
  <2>1. s # runs /\ bundles'[s] = bundles[s] /\ Known(s)'
    BY <1>11
  <2>2. Lost(s) => Lost(s)'
    BY <1>2, <1>4, <1>6, <1>7, <1>9, <1>10, <2>1, TargetType DEF Lost, Target
  <2> QED BY <2>1, <2>2 DEF Carried
<1> QED BY <1>1, <1>8, <1>15, <1>16, <1>17 DEF RunnerInv

\* The marker goes: a run in place is over, its wiki published.
LEMMA UnmarkStep == RunnerInv /\ RemoveMarker => RunnerInv' /\ Carry
<1> SUFFICES ASSUME RunnerInv, RemoveMarker PROVE RunnerInv' /\ Carry
  OBVIOUS
<1> DEFINE b == [dirs[Target] EXCEPT !.marker = FALSE]
           p == [bundles[run.number] EXCEPT !.visible = TRUE]
<1>1. /\ RunnerTypes /\ RunUnderWay /\ Served("out") /\ Served("bak") /\ run \in Runs
      /\ run.step = "unmark" /\ dirs' = [dirs EXCEPT ![Target].marker = FALSE]
      /\ UNCHANGED <<history, runs>>
  BY DEF RunnerInv, RunnerTypes, RemoveMarker
<1>2. /\ run.number = runs /\ runs \in 1..MaxWikiRuns /\ bundles[runs] \in Records
      /\ bundles[runs] # Nothing
      /\ dirs[Target] \in Bundles /\ StampIn(Target) = runs /\ Matches(Target)
      /\ dirs \in [{"out", "stage", "bak"} -> {Nothing} \cup Bundles]
      /\ bundles \in [1..MaxWikiRuns -> {Nothing} \cup Records]
  BY <1>1, TargetType DEF RunnerTypes, RunUnderWay, Writing, After
<1>3. /\ b \in Bundles /\ ~b.marker /\ b.manifest = dirs[Target].manifest
      /\ b.pages = dirs[Target].pages /\ dirs' = [dirs EXCEPT ![Target] = b]
  BY <1>1, <1>2 DEF Bundles
<1>4. /\ p \in Records /\ p.visible
      /\ p.listing = bundles[runs].listing /\ p.pages = bundles[runs].pages
  BY <1>2 DEF Records
<1>5. b # Nothing /\ p # Nothing /\ dirs[Target] # Nothing
  BY <1>2, <1>3, <1>4, NothingAssumption
<1>6. /\ run.staged => /\ run' = [run EXCEPT !.step = "rotate"] /\ UNCHANGED <<outcome, bundles>>
      /\ ~run.staged => /\ run' = IdleRun /\ outcome' = "succeeded"
                        /\ bundles' = [bundles EXCEPT ![runs] = p]
  BY <1>2 DEF RemoveMarker, Continue, EndRun, Publish
<1> HIDE DEF b, p
<1>7. /\ dirs'[Target] = b /\ \A d \in {"out", "stage", "bak"} : d # Target => dirs'[d] = dirs[d]
      /\ dirs' \in [{"out", "stage", "bak"} -> {Nothing} \cup Bundles]
  BY <1>2, <1>3, TargetType
<1>8. \A d \in {"out", "stage", "bak"} : StampIn(d)' = StampIn(d) /\ ManifestIn(d)' = ManifestIn(d)
  BY <1>3, <1>5, <1>7, TargetType DEF StampIn, ManifestIn
<1>9. CASE run.staged
  <2>1. /\ run' \in Runs /\ run'.step = "rotate" /\ run'.number = run.number
        /\ run'.staged /\ run'.commit = run.commit
    BY <1>1, <1>6, <1>9 DEF Runs, RunSteps, After
  <2>2. Target = "stage" /\ bundles' = bundles /\ outcome' = outcome
    BY <1>6, <1>9 DEF Target
  <2>3. RunnerTypes'
    BY <1>1, <1>7, <2>1, <2>2 DEF RunnerTypes, LastCommit
  <2>4. \A s : Known(s)' <=> Known(s)
    BY <1>1, <2>1, <2>2, <1>9 DEF Known, After
  <2>5. Served("out")' /\ Served("bak")'
    BY <1>1, <1>7, <1>8, <2>2, <2>4 DEF Served, Listed, Matches
  <2>6. Matches("stage")'
    BY <1>2, <1>3, <1>7, <1>8, <2>2 DEF Matches, Listed
  <2>7. RunUnderWay'
    BY <1>1, <1>2, <1>3, <1>5, <1>7, <1>8, <2>1, <2>2, <2>6 DEF RunUnderWay, Before, Writing, After
  <2>8. \A s : Lost(s) => Lost(s)'
    BY <1>7, <1>8, <2>1, <2>2 DEF Lost
  <2> QED BY <2>2, <2>3, <2>4, <2>5, <2>7, <2>8 DEF RunnerInv, Carry, Carried
<1>10. CASE ~run.staged
  <2>1. /\ run' \in Runs /\ run'.step = "idle" /\ run'.commit = 0 /\ Target = "out"
        /\ outcome' = "succeeded"
    <3>1. run' = IdleRun /\ outcome' = "succeeded" /\ Target = "out"
      BY <1>6, <1>10 DEF Target
    <3>2. IdleRun \in Runs /\ IdleRun.step = "idle" /\ IdleRun.commit = 0
      BY DEF IdleRun, Runs, RunSteps
    <3> QED BY <3>1, <3>2
  <2>2. /\ bundles'[runs] = p /\ \A n \in 1..MaxWikiRuns : n # runs => bundles'[n] = bundles[n]
        /\ bundles' \in [1..MaxWikiRuns -> {Nothing} \cup Records]
    BY <1>2, <1>4, <1>6, <1>10
  <2>3. RunnerTypes'
    BY <1>1, <1>7, <2>1, <2>2 DEF RunnerTypes, LastCommit
  <2>4. \A s \in 1..MaxWikiRuns :
          /\ bundles'[s].listing = bundles[s].listing /\ bundles'[s].pages = bundles[s].pages
          /\ bundles[s].visible => bundles'[s].visible
          /\ bundles'[s] = Nothing <=> bundles[s] = Nothing
    BY <1>2, <1>4, <1>5, <2>2
  <2>5. \A s : Known(s) => s \in 1..MaxWikiRuns /\ Known(s)'
    <3>1. run'.step \notin After /\ runs' = runs /\ \A s \in 1..runs : s \in 1..MaxWikiRuns
      BY <1>1, <1>2, <2>1, WikiAssumption DEF After
    <3> QED BY <2>4, <3>1 DEF Known
  <2>6. Known(runs)'
    BY <1>1, <1>2, <1>5, <2>1, <2>2 DEF Known, After
  <2>7. Served("out")'
    <3>1. /\ StampIn("out")' = runs /\ dirs'["out"] = b /\ bundles'[StampIn("out")'] = p
          /\ ManifestIn("out")' = ManifestIn("out")
      BY <1>2, <1>7, <1>8, <2>1, <2>2
    <3>2. p.listing = ManifestIn("out").pages /\ p.pages = b.pages
      BY <1>2, <1>3, <1>4, <2>1 DEF Matches, Listed
    <3>3. runs' = runs
      BY <1>1
    <3> QED BY <1>3, <1>4, <2>6, <3>1, <3>2, <3>3 DEF Served, Matches, Listed
  <2>8. Served("bak")'
    BY <1>1, <1>7, <1>8, <2>1, <2>4, <2>5 DEF Served, Matches, Listed
  <2>9. RunUnderWay'
    <3>1. \A n \in (runs + 1)..MaxWikiRuns : n \in 1..MaxWikiRuns /\ bundles[n] = Nothing
      BY <1>1, <1>2, WikiAssumption DEF RunUnderWay
    <3> QED BY <1>1, <2>1, <2>4, <3>1 DEF RunUnderWay, Before, Writing, After
  <2>10. \A s : Lost(s) => Lost(s)'
    <3>1. /\ run.step = "unmark" /\ run.number = runs /\ StampIn("out") = runs
          /\ dirs'["out"] # Nothing /\ StampIn("out")' = StampIn("out")
      BY <1>1, <1>2, <1>5, <1>7, <1>8, <2>1
    <3> QED BY <1>10, <2>1, <3>1 DEF Lost
  <2> QED BY <2>3, <2>4, <2>5, <2>7, <2>8, <2>9, <2>10 DEF RunnerInv, Carry, Carried
<1> QED BY <1>9, <1>10

\* The wiki directory moves aside: what was lost there is lost in the backup.
LEMMA RotateStep == RunnerInv /\ Rotate => RunnerInv' /\ Carry
<1> SUFFICES ASSUME RunnerInv, Rotate PROVE RunnerInv' /\ Carry
  OBVIOUS
<1>1. /\ RunnerTypes /\ RunUnderWay /\ Served("out") /\ Served("bak") /\ run \in Runs
      /\ run.step = "rotate" /\ run' = [run EXCEPT !.step = "swap"]
      /\ UNCHANGED <<history, runs, outcome, bundles>>
      /\ dirs \in [{"out", "stage", "bak"} -> {Nothing} \cup Bundles]
  BY DEF RunnerInv, RunnerTypes, Rotate, Continue
<1>2. /\ run.staged /\ run' \in Runs /\ run'.step = "swap" /\ run'.number = run.number
      /\ run'.staged /\ run'.commit = run.commit
  BY <1>1 DEF Runs, RunSteps, After, RunUnderWay
<1>3. \A s : Known(s)' <=> Known(s)
  BY <1>1, <1>2 DEF Known, After
<1>4. CASE dirs["out"] = Nothing
  <2>1. dirs' = dirs
    BY <1>4 DEF Rotate
  <2>2. \A d : StampIn(d)' = StampIn(d) /\ ManifestIn(d)' = ManifestIn(d)
    BY <2>1 DEF StampIn, ManifestIn
  <2>3. RunnerTypes'
    BY <1>1, <1>2, <2>1 DEF RunnerTypes, LastCommit
  <2>4. Served("out")' /\ Served("bak")'
    BY <1>1, <1>3, <2>1, <2>2 DEF Served, Listed, Matches
  <2>5. RunUnderWay'
    BY <1>1, <1>2, <1>4, <2>1, <2>2 DEF RunUnderWay, Before, Writing, After, Matches, Listed
  <2>6. \A s : Lost(s) => Lost(s)'
    BY <1>1, <1>2, <2>1, <2>2 DEF Lost
  <2> QED BY <1>1, <1>3, <2>3, <2>4, <2>5, <2>6 DEF RunnerInv, Carry, Carried
<1>5. CASE dirs["out"] # Nothing
  <2>1. dirs' = [dirs EXCEPT !["bak"] = dirs["out"], !["out"] = Nothing]
    BY <1>5 DEF Rotate
  <2>2. /\ dirs'["out"] = Nothing /\ dirs'["bak"] = dirs["out"] /\ dirs'["stage"] = dirs["stage"]
        /\ dirs' \in [{"out", "stage", "bak"} -> {Nothing} \cup Bundles]
    BY <1>1, <2>1
  <2>3. /\ StampIn("out")' = 0
        /\ StampIn("bak")' = StampIn("out") /\ ManifestIn("bak")' = ManifestIn("out")
        /\ StampIn("stage")' = StampIn("stage") /\ ManifestIn("stage")' = ManifestIn("stage")
    BY <2>2 DEF StampIn, ManifestIn
  <2>4. RunnerTypes'
    BY <1>1, <1>2, <2>2 DEF RunnerTypes, LastCommit
  <2>5. Served("out")' /\ Served("bak")'
    BY <1>1, <1>3, <2>2, <2>3 DEF Served, Listed, Matches
  <2>6. RunUnderWay'
    BY <1>1, <1>2, <2>2, <2>3 DEF RunUnderWay, Before, Writing, After, Matches, Listed
  <2>7. ASSUME NEW s, Known(s), Lost(s) PROVE Lost(s)'
    <3>1. s # 0
      BY <1>1, <2>7, WikiAssumption DEF Known, RunnerTypes
    <3> QED BY <1>2, <2>2, <2>3, <2>7, <3>1 DEF Lost
  <2> QED BY <1>1, <1>3, <2>4, <2>5, <2>6, <2>7 DEF RunnerInv, Carry, Carried
<1> QED BY <1>4, <1>5

\* The staged wiki is what readers see: nobody knew its manifest before.
LEMMA SwapStep == RunnerInv /\ SwapIn => RunnerInv' /\ Carry
<1> SUFFICES ASSUME RunnerInv, SwapIn PROVE RunnerInv' /\ Carry
  OBVIOUS
<1> DEFINE p == [bundles[runs] EXCEPT !.visible = TRUE]
<1>1. /\ RunnerTypes /\ RunUnderWay /\ run \in Runs
      /\ run.step = "swap" /\ run' = IdleRun /\ outcome' = "succeeded"
      /\ UNCHANGED <<history, runs>>
      /\ dirs' = [out |-> dirs["stage"], stage |-> Nothing, bak |-> Nothing]
      /\ dirs \in [{"out", "stage", "bak"} -> {Nothing} \cup Bundles]
      /\ bundles \in [1..MaxWikiRuns -> {Nothing} \cup Records]
  BY DEF RunnerInv, RunnerTypes, SwapIn, EndRun
<1>2. /\ run.number = runs /\ runs \in 1..MaxWikiRuns /\ run.staged
      /\ bundles[runs] # Nothing /\ bundles[runs] \in Records
      /\ dirs["stage"] # Nothing /\ ~dirs["stage"].marker
      /\ StampIn("stage") = runs /\ Matches("stage")
  BY <1>1 DEF RunUnderWay, After, RunnerTypes
<1>3. bundles' = [bundles EXCEPT ![runs] = p]
  BY <1>2 DEF SwapIn, Publish
<1>4. p \in Records /\ p.visible /\ p.listing = bundles[runs].listing /\ p.pages = bundles[runs].pages
  BY <1>2 DEF Records
<1>5. p # Nothing
  BY <1>4, NothingAssumption
<1> HIDE DEF p
<1>6. IdleRun \in Runs /\ IdleRun.step = "idle" /\ IdleRun.commit = 0
  BY DEF IdleRun, Runs, RunSteps
<1>7. /\ bundles'[runs] = p /\ \A n \in 1..MaxWikiRuns : n # runs => bundles'[n] = bundles[n]
      /\ bundles' \in [1..MaxWikiRuns -> {Nothing} \cup Records]
  BY <1>1, <1>2, <1>3, <1>4
<1>8. /\ dirs'["out"] = dirs["stage"] /\ dirs'["bak"] = Nothing
      /\ dirs' \in [{"out", "stage", "bak"} -> {Nothing} \cup Bundles]
  BY <1>1
<1>9. /\ StampIn("out")' = runs /\ ManifestIn("out")' = ManifestIn("stage")
      /\ StampIn("bak")' = 0
  BY <1>2, <1>8 DEF StampIn, ManifestIn
<1>10. RunnerTypes'
  BY <1>1, <1>6, <1>7, <1>8 DEF RunnerTypes, LastCommit
<1>11. \A s : Known(s) => s # runs /\ s \in 1..MaxWikiRuns
  BY <1>1, <1>2, WikiAssumption DEF Known, After
<1>12. \A s : Known(s) => Known(s)'
  BY <1>1, <1>6, <1>7, <1>11 DEF Known, After
<1>13. Known(runs)'
  BY <1>1, <1>2, <1>5, <1>6, <1>7 DEF Known, After
<1>14. Served("out")'
  <2>1. p.listing = ManifestIn("stage").pages /\ p.pages = dirs["stage"].pages
    BY <1>2, <1>4 DEF Matches, Listed
  <2> QED BY <1>1, <1>4, <1>7, <1>8, <1>9, <1>13, <2>1 DEF Served, Matches, Listed
<1>15. Served("bak")'
  BY <1>9 DEF Served
<1>16. RunUnderWay'
  <2>1. \A n \in (runs + 1)..MaxWikiRuns : n # runs /\ n \in 1..MaxWikiRuns /\ bundles[n] = Nothing
    BY <1>1, <1>2, WikiAssumption DEF RunUnderWay
  <2> QED BY <1>1, <1>6, <1>7, <2>1 DEF RunUnderWay, Before, Writing, After
<1>17. ASSUME NEW s, Known(s) PROVE Lost(s)'
  <2>1. s # runs /\ s # 0 /\ run'.step # "unmark"
    BY <1>1, <1>2, <1>6, <1>11, <1>17
  <2> QED BY <1>9, <2>1 DEF Lost
<1> QED BY <1>7, <1>10, <1>11, <1>12, <1>14, <1>15, <1>16, <1>17 DEF RunnerInv, Carry, Carried

\* The swap is undone: what was lost in the backup is lost in its place again.
LEMMA SwapFailsStep == RunnerInv /\ SwapFails => RunnerInv' /\ Carry
<1> SUFFICES ASSUME RunnerInv, SwapFails PROVE RunnerInv' /\ Carry
  OBVIOUS
<1>1. /\ RunnerTypes /\ RunUnderWay /\ Served("out") /\ Served("bak") /\ run \in Runs
      /\ run.step = "swap" /\ run' = IdleRun /\ outcome' = "failed"
      /\ UNCHANGED <<history, runs, bundles>>
      /\ dirs \in [{"out", "stage", "bak"} -> {Nothing} \cup Bundles] /\ dirs["out"] = Nothing
  BY DEF RunnerInv, RunnerTypes, RunUnderWay, SwapFails, EndRun
<1>2. IdleRun \in Runs /\ IdleRun.step = "idle" /\ IdleRun.commit = 0
  BY DEF IdleRun, Runs, RunSteps
<1>3. \A s : Known(s) => Known(s)' /\ s # 0
  BY <1>1, <1>2, WikiAssumption DEF Known, After, RunnerTypes
<1>4. CASE dirs["bak"] = Nothing
  <2>1. dirs' = dirs
    BY <1>4 DEF SwapFails
  <2>2. RunnerTypes'
    BY <1>1, <1>2, <2>1 DEF RunnerTypes, LastCommit
  <2>3. RunUnderWay'
    BY <1>1, <1>2 DEF RunUnderWay, Before, Writing, After
  <2> QED BY <1>1, <1>2, <2>1, <2>2, <2>3, RunMoves DEF After, RunnerTypes
<1>5. CASE dirs["bak"] # Nothing
  <2>1. dirs' = [dirs EXCEPT !["out"] = dirs["bak"], !["bak"] = Nothing]
    BY <1>5 DEF SwapFails
  <2>2. /\ dirs'["out"] = dirs["bak"] /\ dirs'["bak"] = Nothing /\ dirs'["out"] # Nothing
        /\ dirs' \in [{"out", "stage", "bak"} -> {Nothing} \cup Bundles]
    BY <1>1, <1>5, <2>1
  <2>3. /\ StampIn("out")' = StampIn("bak") /\ ManifestIn("out")' = ManifestIn("bak")
        /\ StampIn("bak")' = 0
    BY <2>2 DEF StampIn, ManifestIn
  <2>4. RunnerTypes'
    BY <1>1, <1>2, <2>2 DEF RunnerTypes, LastCommit
  <2>5. Served("out")' /\ Served("bak")'
    BY <1>1, <1>3, <2>2, <2>3 DEF Served, Listed, Matches
  <2>6. RunUnderWay'
    BY <1>1, <1>2 DEF RunUnderWay, Before, Writing, After
  <2>7. ASSUME NEW s, Known(s), Lost(s) PROVE Lost(s)'
    BY <1>1, <1>2, <1>3, <2>2, <2>3, <2>7 DEF Lost
  <2> QED BY <1>1, <1>3, <2>4, <2>5, <2>6, <2>7 DEF RunnerInv, Carry, Carried
<1> QED BY <1>4, <1>5

LEMMA GeneratorStep == RunnerInv /\ (Commit \/ Generate) => RunnerInv' /\ Carry
BY MovesStep, MarkerStep, FilesStep, ManifestStep, UnmarkStep, RotateStep, SwapStep, SwapFailsStep
   DEF Generate

-----------------------------------------------------------------------------
(* Requests keep theirs *)

\* What the generator carries is all that a request that waits needs.
LEMMA RequestsWait == RequestsInv /\ Carry /\ UNCHANGED readerVars => RequestsInv'
<1> SUFFICES ASSUME RequestsInv, Carry, UNCHANGED readerVars PROVE RequestsInv'
  OBVIOUS
<1>1. reader' = reader /\ wikiCache' = wikiCache
  BY DEF readerVars
<1>2. ASSUME NEW index, Known(index.stamp), ShowsOneBundle(index) PROVE ShowsOneBundle(index)'
  <2>1. Carried(index.stamp)
    BY <1>2 DEF Carry
  <2> QED BY <1>2, <2>1 DEF Carried, Known, ShowsOneBundle
<1>3. CacheSound'
  BY <1>1, <1>2 DEF RequestsInv, CacheSound, Carry, Carried
<1>4. ASSUME NEW r \in WikiReaders PROVE ReaderTypes(r)' /\ ReaderSound(r)'
  <2>1. ReaderTypes(r) /\ ReaderSound(r)
    BY DEF RequestsInv
  <2>2. ReaderTypes(r)'
    BY <1>1, <2>1 DEF ReaderTypes
  <2> DEFINE index == reader[r].index
  <2>3. reader[r].step = "manifest" => Carried(reader[r].stamp)
    BY <2>1 DEF ReaderSound, Carry
  <2>4. CASE reader[r].step \in HasIndex
    <3>1. Known(index.stamp) /\ Carried(index.stamp)
      BY <2>1, <2>4 DEF ReaderSound, Carry
    <3>2. ShowsOneBundle(index) => ShowsOneBundle(index)'
      BY <1>1, <1>2, <3>1
    <3>3. Sound(index) => Sound(index)'
      BY <1>1, <3>1 DEF Sound, Carried, TextOf
    <3>4. \A f, t : TextOf(index.stamp, f, t) => TextOf(index.stamp, f, t)'
      BY <1>1, <3>1 DEF Carried, TextOf
    <3> QED BY <1>1, <2>1, <2>2, <2>4, <3>1, <3>2, <3>3, <3>4 DEF ReaderSound, Carried, HasIndex
  <2>5. CASE reader[r].step \notin HasIndex
    BY <1>1, <2>1, <2>2, <2>3, <2>5 DEF ReaderSound, Carried, HasIndex
  <2> QED BY <2>4, <2>5
<1> QED BY <1>1, <1>3, <1>4 DEF RequestsInv

\* A page that is in the wiki directory is of the bundle of s, or s is lost.
LEMMA TextOnDisk ==
  ASSUME RunnerInv, NEW s, Known(s), NEW f \in Classes
  PROVE  PageOnDisk(f) \in Contents /\ (TextOf(s, f, PageOnDisk(f)) \/ Lost(s))
<1>1. dirs["out"] \in {Nothing} \cup Bundles /\ s # 0 /\ RunUnderWay /\ Served("out")
  BY WikiAssumption DEF RunnerInv, RunnerTypes, Known
<1>2. PageOnDisk(f) \in Contents
  BY <1>1, WikiAssumption DEF PageOnDisk, Bundles, Pages
<1>3. CASE dirs["out"] = Nothing
  BY <1>2, <1>3 DEF PageOnDisk, TextOf
<1>4. CASE run.step = "unmark" /\ ~run.staged /\ run.number = s
  BY <1>1, <1>2, <1>4 DEF RunUnderWay, Target, Matches, PageOnDisk, TextOf
<1>5. CASE StampIn("out") = s /\ ~dirs["out"].marker
  BY <1>1, <1>2, <1>5 DEF Served, Matches, PageOnDisk, TextOf
<1> QED BY <1>2, <1>3, <1>4, <1>5 DEF Lost

\* A manifest that is_current accepts is of a bundle that is published, and not lost.
LEMMA CurrentIsPublished ==
  ASSUME RunnerInv, NEW s, Known(s), IsCurrent(s)
  PROVE  ~Lost(s) /\ bundles[s] # Nothing /\ bundles[s].visible
<1>1. s # 0 /\ Served("out")
  BY WikiAssumption DEF RunnerInv, RunnerTypes, Known
<1> QED BY <1>1 DEF IsCurrent, Lost, Served, Known

\* A manifest that is there is of a known run, and lists what that run listed.
LEMMA ManifestIsKnown ==
  ASSUME RunnerInv, StampIn("out") # 0
  PROVE  /\ Known(StampIn("out")) /\ StampIn("out") \in Nat
         /\ bundles[StampIn("out")].listing = ManifestIn("out").pages
         /\ ManifestIn("out").pages \subseteq Classes
<1>1. dirs["out"] \in {Nothing} \cup Bundles /\ Served("out")
  BY DEF RunnerInv, RunnerTypes
<1>2. ManifestIn("out") \in Manifests /\ StampIn("out") \in Nat
  BY <1>1, StampOfDirectory
<1> QED BY <1>1, <1>2 DEF Served, Listed, Manifests

LEMMA NoPagesType == NoPages \in Pages
BY WikiAssumption DEF NoPages, Pages

\* While a request moves, the generator does not.
LEMMA RunnerStays ==
  ASSUME UNCHANGED runnerVars
  PROVE  /\ RunnerInv => RunnerInv'
         /\ \A s : (Known(s)' <=> Known(s)) /\ (Lost(s)' <=> Lost(s))
         /\ \A s, f, t : TextOf(s, f, t)' <=> TextOf(s, f, t)
         /\ \A i : (Sound(i)' <=> Sound(i)) /\ (ShowsOneBundle(i)' <=> ShowsOneBundle(i))
         /\ wikiCache' = wikiCache => (CacheSound' <=> CacheSound)
<1>1. UNCHANGED <<history, dirs, run, runs, outcome, bundles>>
  BY DEF runnerVars
<1>2. /\ \A d : StampIn(d)' = StampIn(d) /\ ManifestIn(d)' = ManifestIn(d)
      /\ Target' = Target
  BY <1>1 DEF StampIn, ManifestIn, Target
<1>3. /\ \A s : (Known(s)' <=> Known(s)) /\ (Lost(s)' <=> Lost(s))
      /\ \A s, f, t : TextOf(s, f, t)' <=> TextOf(s, f, t)
  BY <1>1, <1>2 DEF Known, Lost, TextOf
<1>4. \A i : (Sound(i)' <=> Sound(i)) /\ (ShowsOneBundle(i)' <=> ShowsOneBundle(i))
  BY <1>1 DEF Sound, ShowsOneBundle, TextOf
<1>5. RunnerTypes => RunnerTypes'
  BY <1>1 DEF RunnerTypes, LastCommit
<1>6. RunUnderWay => RunUnderWay'
  BY <1>1, <1>2 DEF RunUnderWay, Matches, Listed
<1>7. \A d : Served(d) => Served(d)'
  BY <1>1, <1>2, <1>3 DEF Served, Matches, Listed
<1>8. RunnerInv => RunnerInv'
  BY <1>5, <1>6, <1>7 DEF RunnerInv
<1>9. wikiCache' = wikiCache => (CacheSound' <=> CacheSound)
  BY <1>3, <1>4 DEF CacheSound
<1> QED BY <1>3, <1>4, <1>8, <1>9

LEMMA OthersStay ==
  ASSUME RequestsInv, NEW q \in WikiReaders, reader'[q] = reader[q], UNCHANGED runnerVars
  PROVE  ReaderTypes(q)' /\ ReaderSound(q)'
<1>1. ReaderTypes(q) /\ ReaderSound(q)
  BY DEF RequestsInv
<1>2. ReaderTypes(q)'
  BY <1>1 DEF ReaderTypes
<1>3. bundles' = bundles
  BY DEF runnerVars
<1> QED BY <1>1, <1>2, <1>3, RunnerStays DEF ReaderSound

\* What a step of one request has to show.
LEMMA OneRequest ==
  ASSUME RequestsInv, NEW r \in WikiReaders, NEW x, reader' = [reader EXCEPT ![r] = x],
         UNCHANGED runnerVars, ReaderTypes(r)', ReaderSound(r)', CacheSound'
  PROVE  RequestsInv'
<1>1. \A q \in WikiReaders \ {r} : reader'[q] = reader[q]
  BY DEF RequestsInv
<1>2. DOMAIN reader' = WikiReaders /\ reader' = [q \in WikiReaders |-> reader'[q]]
  BY DEF RequestsInv
<1> QED BY <1>1, <1>2, OthersStay DEF RequestsInv

LEMMA Refused ==
  ASSUME RequestsInv, NEW r \in WikiReaders, reader' = [reader EXCEPT ![r] = IdleReader],
         UNCHANGED runnerVars, CacheSound'
  PROVE  RequestsInv'
<1>1. reader'[r] = IdleReader
  BY DEF RequestsInv
<1>2. ReaderTypes(r)'
  BY <1>1, WikiAssumption DEF ReaderTypes, IdleReader, ReaderSteps
<1>3. ReaderSound(r)'
  BY <1>1 DEF ReaderSound, IdleReader, HasIndex
<1> QED BY <1>2, <1>3, OneRequest

\* Steps before anything is held.
LEMMA GoesOn ==
  ASSUME RequestsInv, NEW r \in WikiReaders, NEW x, reader' = [reader EXCEPT ![r] = x],
         x \in [step : ReaderSteps \ HasIndex, stamp : Nat, index : {Nothing} \cup Indexes,
                unread : SUBSET Classes, gate : {x.gate}, body : Contents, page : {Nothing}],
         x.step = "manifest" => Known(x.stamp),
         UNCHANGED runnerVars, UNCHANGED wikiCache
  PROVE  RequestsInv'
<1>1. reader'[r] = x
  BY DEF RequestsInv
<1>2. ReaderTypes(r)'
  BY <1>1 DEF ReaderTypes
<1>3. ReaderSound(r)'
  BY <1>1, RunnerStays DEF ReaderSound, HasIndex
<1>4. CacheSound'
  BY RunnerStays DEF RequestsInv
<1> QED BY <1>2, <1>3, <1>4, OneRequest

\* Steps that hold an index: what the new state of the request is made of.
LEMMA HoldsIndex ==
  ASSUME RequestsInv, NEW r \in WikiReaders, NEW x, reader' = [reader EXCEPT ![r] = x],
         NEW index \in Indexes, Known(index.stamp), x.index = index,
         x \in [step : HasIndex, stamp : Nat, index : Indexes, unread : SUBSET Classes,
                gate : {x.gate}, body : Contents, page : Classes \cup {Nothing}],
         x.step \notin {"verify", "answered"} => x.page = Nothing,
         x.step = "pages" => Sound(index) \/ Lost(index.stamp),
         x.step \in {"page", "verify"} => ShowsOneBundle(index),
         x.step = "verify" =>
           x.page \in index.listing /\ (TextOf(index.stamp, x.page, x.body) \/ Lost(index.stamp)),
         x.step \in {"listed", "answered"} => bundles[index.stamp].listing = index.listing,
         x.step = "answered" /\ x.page # Nothing =>
           ShowsOneBundle(index) /\ TextOf(index.stamp, x.page, x.body),
         UNCHANGED runnerVars, CacheSound'
  PROVE  RequestsInv'
<1>1. reader'[r] = x
  BY DEF RequestsInv
<1>2. ReaderTypes(r)'
  BY <1>1 DEF ReaderTypes, ReaderSteps, HasIndex
<1>3. bundles' = bundles
  BY DEF runnerVars
<1>4. ReaderSound(r)'
  BY <1>1, <1>3, RunnerStays DEF ReaderSound, HasIndex
<1> QED BY <1>2, <1>4, OneRequest

LEMMA RequestType ==
  ASSUME RequestsInv, NEW r \in WikiReaders
  PROVE  /\ reader[r] \in [step : ReaderSteps, stamp : Nat, index : {Nothing} \cup Indexes,
                          unread : SUBSET Classes, gate : {reader[r].gate}, body : Contents,
                          page : Classes \cup {Nothing}]
         /\ ReaderSound(r)
BY DEF RequestsInv, ReaderTypes

\* Requests that hold no index yet.
LEMMA OpeningStep ==
  ASSUME RunnerInv, RequestsInv, NEW r \in WikiReaders,
         CheckMarker(r) \/ ProbeManifest(r) \/ PassGate(r) \/ StatManifest(r)
  PROVE  RequestsInv'
<1> DEFINE old == reader[r]
<1>1. /\ old \in [step : ReaderSteps, stamp : Nat, index : {Nothing} \cup Indexes,
                  unread : SUBSET Classes, gate : {old.gate}, body : Contents,
                  page : Classes \cup {Nothing}]
      /\ ReaderSound(r) /\ CacheSound
  BY RequestType DEF RequestsInv
<1>2. UNCHANGED <<runnerVars, wikiCache>>
  BY DEF CheckMarker, ProbeManifest, PassGate, StatManifest
<1>3. CacheSound'
  BY <1>1, <1>2, RunnerStays
<1>4. old.step \in {"idle", "probe", "gate", "stat"} /\ old.page = Nothing
  BY <1>1 DEF CheckMarker, ProbeManifest, PassGate, StatManifest, ReaderAt, ReaderSound
<1>5. Refuse(r) => RequestsInv'
  BY <1>2, <1>3, Refused DEF Refuse
<1>6. ASSUME StampIn("out") # 0 PROVE StampIn("out") \in Nat /\ Known(StampIn("out"))
  BY <1>6, ManifestIsKnown
<1>7. ASSUME NEW s, Cached(s)
      PROVE  /\ wikiCache \in Indexes /\ wikiCache.stamp = s /\ s \in Nat
             /\ Known(wikiCache.stamp) /\ ShowsOneBundle(wikiCache)
  BY <1>1, <1>7 DEF CacheSound, Cached, Indexes
<1>8. CASE CheckMarker(r)
  <2> DEFINE x == [old EXCEPT !.step = "probe"]
  <2>1. Refuse(r) \/ reader' = [reader EXCEPT ![r] = x]
    BY <1>8 DEF CheckMarker, Move
  <2>2. x \in [step : ReaderSteps \ HasIndex, stamp : Nat, index : {Nothing} \cup Indexes,
               unread : SUBSET Classes, gate : {x.gate}, body : Contents, page : {Nothing}]
        /\ x.step = "probe"
    BY <1>1, <1>4 DEF ReaderSteps, HasIndex
  <2> HIDE DEF x
  <2> QED BY <1>2, <1>5, <2>1, <2>2, GoesOn
<1>9. CASE ProbeManifest(r)
  <2>1. CASE StampIn("out") = 0
    BY <1>5, <1>9, <2>1 DEF ProbeManifest
  <2>2. CASE StampIn("out") # 0 /\ Cached(StampIn("out"))
    <3> DEFINE x == [old EXCEPT !.stamp = StampIn("out"), !.index = wikiCache, !.step = "page"]
    <3>1. reader' = [reader EXCEPT ![r].stamp = StampIn("out"), ![r].index = wikiCache,
                                   ![r].step = "page"]
      BY <1>9, <2>2 DEF ProbeManifest
    <3>2. reader' = [reader EXCEPT ![r] = x]
      BY <3>1 DEF RequestsInv
    <3>3. /\ x \in [step : HasIndex, stamp : Nat, index : Indexes, unread : SUBSET Classes,
                    gate : {x.gate}, body : Contents, page : Classes \cup {Nothing}]
          /\ x.step = "page" /\ x.index = wikiCache /\ x.page = Nothing
      BY <1>1, <1>4, <1>6, <1>7, <2>2 DEF HasIndex
    <3> HIDE DEF x
    <3> QED BY <1>2, <1>3, <1>7, <2>2, <3>2, <3>3, HoldsIndex
  <2>3. CASE StampIn("out") # 0 /\ ~Cached(StampIn("out"))
    <3> DEFINE x == [old EXCEPT !.stamp = StampIn("out"), !.gate = wikiGate', !.step = "gate"]
    <3>1. reader' = [reader EXCEPT ![r].stamp = StampIn("out"), ![r].gate = wikiGate',
                                   ![r].step = "gate"]
      BY <1>9, <2>3 DEF ProbeManifest
    <3>2. reader' = [reader EXCEPT ![r] = x]
      BY <3>1 DEF RequestsInv
    <3>3. x \in [step : ReaderSteps \ HasIndex, stamp : Nat, index : {Nothing} \cup Indexes,
                 unread : SUBSET Classes, gate : {x.gate}, body : Contents, page : {Nothing}]
          /\ x.step = "gate"
      BY <1>1, <1>4, <1>6, <2>3 DEF ReaderSteps, HasIndex
    <3> HIDE DEF x
    <3> QED BY <1>2, <3>2, <3>3, GoesOn
  <2> QED BY <2>1, <2>2, <2>3
<1>10. CASE PassGate(r)
  <2>1. CASE Cached(old.stamp)
    <3> DEFINE x == [old EXCEPT !.index = wikiCache, !.gate = Nothing, !.step = "page"]
    <3>1. reader' = [reader EXCEPT ![r].index = wikiCache, ![r].gate = Nothing, ![r].step = "page"]
      BY <1>10, <2>1 DEF PassGate
    <3>2. reader' = [reader EXCEPT ![r] = x]
      BY <3>1 DEF RequestsInv
    <3>3. /\ x \in [step : HasIndex, stamp : Nat, index : Indexes, unread : SUBSET Classes,
                    gate : {x.gate}, body : Contents, page : Classes \cup {Nothing}]
          /\ x.step = "page" /\ x.index = wikiCache /\ x.page = Nothing
      BY <1>1, <1>4, <1>7, <2>1 DEF HasIndex
    <3> HIDE DEF x
    <3> QED BY <1>2, <1>3, <1>7, <2>1, <3>2, <3>3, HoldsIndex
  <2>2. CASE ~Cached(old.stamp)
    <3> DEFINE x == [old EXCEPT !.step = "stat"]
    <3>1. reader' = [reader EXCEPT ![r] = x]
      BY <1>10, <2>2 DEF PassGate
    <3>2. x \in [step : ReaderSteps \ HasIndex, stamp : Nat, index : {Nothing} \cup Indexes,
                 unread : SUBSET Classes, gate : {x.gate}, body : Contents, page : {Nothing}]
          /\ x.step = "stat"
      BY <1>1, <1>4 DEF ReaderSteps, HasIndex
    <3> HIDE DEF x
    <3> QED BY <1>2, <3>1, <3>2, GoesOn
  <2> QED BY <2>1, <2>2
<1>11. CASE StatManifest(r)
  <2>1. CASE StampIn("out") = 0
    BY <1>5, <1>11, <2>1 DEF StatManifest
  <2>2. CASE StampIn("out") # 0
    <3> DEFINE x == [old EXCEPT !.stamp = StampIn("out"), !.step = "manifest"]
    <3>1. reader' = [reader EXCEPT ![r].stamp = StampIn("out"), ![r].step = "manifest"]
      BY <1>11, <2>2 DEF StatManifest
    <3>2. reader' = [reader EXCEPT ![r] = x]
      BY <3>1 DEF RequestsInv
    <3>3. x \in [step : ReaderSteps \ HasIndex, stamp : Nat, index : {Nothing} \cup Indexes,
                 unread : SUBSET Classes, gate : {x.gate}, body : Contents, page : {Nothing}]
          /\ x.stamp = StampIn("out")
      BY <1>1, <1>4, <1>6, <2>2 DEF ReaderSteps, HasIndex
    <3> HIDE DEF x
    <3> QED BY <1>2, <1>6, <2>2, <3>2, <3>3, GoesOn
  <2> QED BY <2>1, <2>2
<1> QED BY <1>8, <1>9, <1>10, <1>11

\* A wiki directory with another manifest has lost s.
LEMMA Replaced ==
  ASSUME RunnerInv, NEW s, Known(s), StampIn("out") \notin {0, s}
  PROVE  Lost(s)
<1>1. dirs["out"] # Nothing
  BY DEF StampIn, ManifestIn
<1>2. run.step = "unmark" /\ ~run.staged => StampIn("out") = run.number
  BY DEF RunnerInv, RunUnderWay, Target
<1> QED BY <1>1, <1>2 DEF Lost

\* load_wiki_index, once it has the mtime.
LEMMA LoadingStep ==
  ASSUME RunnerInv, RequestsInv, NEW r \in WikiReaders,
         ReadManifest(r) \/ ReadBody(r) \/ VerifyIndex(r)
  PROVE  RequestsInv'
<1> DEFINE old == reader[r]
<1>1. /\ old \in [step : ReaderSteps, stamp : Nat, index : {Nothing} \cup Indexes,
                  unread : SUBSET Classes, gate : {old.gate}, body : Contents,
                  page : Classes \cup {Nothing}]
      /\ ReaderSound(r) /\ CacheSound
  BY RequestType DEF RequestsInv
<1>2. UNCHANGED runnerVars
  BY DEF ReadManifest, ReadBody, VerifyIndex
<1>3. wikiCache' = wikiCache => CacheSound'
  BY <1>1, <1>2, RunnerStays
<1>4. Refuse(r) /\ wikiCache' = wikiCache => RequestsInv'
  BY <1>2, <1>3, Refused DEF Refuse
<1>5. CASE ReadManifest(r)
  <2>1. old.step = "manifest" /\ old.page = Nothing /\ Known(old.stamp) /\ wikiCache' = wikiCache
    BY <1>1, <1>5 DEF ReadManifest, ReaderAt, ReaderSound
  <2>2. CASE StampIn("out") = 0
    BY <1>4, <1>5, <2>1, <2>2 DEF ReadManifest
  <2>3. CASE StampIn("out") # 0
    <3> DEFINE listed == ManifestIn("out").pages
               index == [stamp |-> old.stamp, listing |-> listed, bodies |-> NoPages]
               x == [old EXCEPT !.index = index, !.unread = listed, !.step = "pages"]
    <3>1. listed \subseteq Classes /\ bundles[StampIn("out")].listing = listed
      BY <2>3, ManifestIsKnown
    <3>2. /\ index \in Indexes /\ index.stamp = old.stamp /\ index.listing = listed
          /\ \A f \in Classes : index.bodies[f] = Absent
      BY <1>1, <3>1, NoPagesType DEF Indexes, NoPages
    <3>3. Sound(index) \/ Lost(old.stamp)
      BY <2>1, <2>3, <3>1, <3>2, Replaced DEF Sound, TextOf
    <3>4. reader' = [reader EXCEPT ![r].index = index, ![r].unread = listed, ![r].step = "pages"]
      BY <1>5, <2>3 DEF ReadManifest
    <3> HIDE DEF index, listed
    <3>5. reader' = [reader EXCEPT ![r] = x]
      BY <3>4 DEF RequestsInv
    <3>6. /\ x \in [step : HasIndex, stamp : Nat, index : Indexes, unread : SUBSET Classes,
                    gate : {x.gate}, body : Contents, page : Classes \cup {Nothing}]
          /\ x.step = "pages" /\ x.index = index /\ x.page = Nothing
      BY <1>1, <2>1, <3>1, <3>2 DEF HasIndex
    <3> HIDE DEF x
    <3> QED BY <1>2, <1>3, <2>1, <3>2, <3>3, <3>5, <3>6, HoldsIndex
  <2> QED BY <2>2, <2>3
<1>6. CASE ReadBody(r)
  <2> DEFINE f == First(old.unread)
             index == [old.index EXCEPT !.bodies = [@ EXCEPT ![f] = PageOnDisk(f)]]
             x == [old EXCEPT !.index = index, !.unread = @ \ {f}]
             s == old.index.stamp
  <2>1. /\ old.step = "pages" /\ old.page = Nothing /\ wikiCache' = wikiCache
        /\ old.index \in Indexes /\ Known(s) /\ (Sound(old.index) \/ Lost(s))
    BY <1>1, <1>6 DEF ReadBody, ReaderAt, ReaderSound, HasIndex
  <2>2. f \in Classes => PageOnDisk(f) \in Contents /\ (TextOf(s, f, PageOnDisk(f)) \/ Lost(s))
    BY <2>1, TextOnDisk
  <2>3. reader' = [reader EXCEPT ![r].index.bodies[f] = PageOnDisk(f), ![r].unread = @ \ {f}]
    BY <1>6 DEF ReadBody
  <2> HIDE DEF f
  <2>4. reader' = [reader EXCEPT ![r] = x]
    BY <1>1, <2>1, <2>3 DEF RequestsInv
  <2>5. old.index.bodies \in [Classes -> Contents]
    BY <2>1 DEF Indexes, Pages
  <2>6. [old.index.bodies EXCEPT ![f] = PageOnDisk(f)] \in Pages
    BY <2>2, <2>5 DEF Pages
  <2>7. /\ index \in Indexes /\ index.stamp = s /\ index.listing = old.index.listing
        /\ index.listing \subseteq Classes
        /\ \A g \in Classes : index.bodies[g] = IF g = f THEN PageOnDisk(f) ELSE old.index.bodies[g]
    BY <2>1, <2>5, <2>6 DEF Indexes
  <2> HIDE DEF index, s
  <2>8. Sound(index) \/ Lost(s)
    BY <2>1, <2>2, <2>7 DEF Sound, s
  <2>9. /\ x \in [step : HasIndex, stamp : Nat, index : Indexes, unread : SUBSET Classes,
                  gate : {x.gate}, body : Contents, page : Classes \cup {Nothing}]
        /\ x.step = "pages" /\ x.index = index /\ x.page = Nothing
    BY <1>1, <2>1, <2>7 DEF HasIndex
  <2> HIDE DEF x
  <2> QED BY <1>2, <1>3, <2>1, <2>4, <2>7, <2>8, <2>9, HoldsIndex
<1>7. CASE VerifyIndex(r)
  <2> DEFINE s == old.index.stamp
             x == [old EXCEPT !.gate = Nothing, !.step = "page"]
  <2>1. /\ old.step = "pages" /\ old.page = Nothing
        /\ old.index \in Indexes /\ Known(s) /\ (Sound(old.index) \/ Lost(s))
    BY <1>1, <1>7 DEF VerifyIndex, ReaderAt, ReaderSound, HasIndex
  <2>2. CASE ~IsCurrent(s)
    BY <1>4, <1>7, <2>2 DEF VerifyIndex
  <2>3. CASE IsCurrent(s)
    <3>1. ShowsOneBundle(old.index)
      BY <2>1, <2>3, CurrentIsPublished DEF Sound, TextOf, ShowsOneBundle
    <3>2. /\ reader' = [reader EXCEPT ![r].gate = Nothing, ![r].step = "page"]
          /\ wikiCache' \in {old.index, Nothing}
      BY <1>7, <2>3 DEF VerifyIndex
    <3>3. reader' = [reader EXCEPT ![r] = x]
      BY <3>2 DEF RequestsInv
    <3>4. CacheSound'
      BY <1>2, <2>1, <3>1, <3>2, RunnerStays DEF CacheSound
    <3>5. /\ x \in [step : HasIndex, stamp : Nat, index : Indexes, unread : SUBSET Classes,
                    gate : {x.gate}, body : Contents, page : Classes \cup {Nothing}]
          /\ x.step = "page" /\ x.index = old.index /\ x.page = Nothing
      BY <1>1, <2>1 DEF HasIndex
    <3> HIDE DEF x
    <3> QED BY <1>2, <2>1, <3>1, <3>3, <3>4, <3>5, HoldsIndex
  <2> QED BY <2>2, <2>3
<1> QED BY <1>5, <1>6, <1>7

\* Pages, listings and the end of a request.
LEMMA AnsweringStep ==
  ASSUME RunnerInv, RequestsInv, NEW r \in WikiReaders,
         \/ \E f \in Classes : ReadPage(r, f)
         \/ AnswerRequest(r) \/ ReadListing(r) \/ AnswerListing(r) \/ EndRequest(r)
  PROVE  RequestsInv'
<1> DEFINE old == reader[r]
           index == old.index
           s == index.stamp
<1>1. /\ old \in [step : ReaderSteps, stamp : Nat, index : {Nothing} \cup Indexes,
                  unread : SUBSET Classes, gate : {old.gate}, body : Contents,
                  page : Classes \cup {Nothing}]
      /\ ReaderSound(r) /\ CacheSound
  BY RequestType DEF RequestsInv
<1>2. UNCHANGED <<runnerVars, wikiCache>>
  BY DEF ReadPage, AnswerRequest, ReadListing, AnswerListing, EndRequest
<1>3. CacheSound'
  BY <1>1, <1>2, RunnerStays
<1>4. Refuse(r) => RequestsInv'
  BY <1>2, <1>3, Refused DEF Refuse
<1>5. old.step \in HasIndex => index \in Indexes /\ Known(s) /\ index.listing \subseteq Classes
  BY <1>1 DEF ReaderSound, Indexes
<1>6. ASSUME NEW f \in Classes, ReadPage(r, f) PROVE RequestsInv'
  <2> DEFINE x == [old EXCEPT !.page = f, !.body = PageOnDisk(f), !.step = "verify"]
  <2>1. /\ old.step = "page" /\ f \in index.listing /\ ShowsOneBundle(index)
        /\ index \in Indexes /\ Known(s)
    BY <1>1, <1>5, <1>6 DEF ReadPage, ReaderAt, ReaderSound, HasIndex
  <2>2. PageOnDisk(f) \in Contents /\ (TextOf(s, f, PageOnDisk(f)) \/ Lost(s))
    BY <2>1, TextOnDisk
  <2>3. reader' = [reader EXCEPT ![r].page = f, ![r].body = PageOnDisk(f), ![r].step = "verify"]
    BY <1>6 DEF ReadPage
  <2>4. reader' = [reader EXCEPT ![r] = x]
    BY <2>3 DEF RequestsInv
  <2>5. /\ x \in [step : HasIndex, stamp : Nat, index : Indexes, unread : SUBSET Classes,
                  gate : {x.gate}, body : Contents, page : Classes \cup {Nothing}]
        /\ x.step = "verify" /\ x.index = index /\ x.page = f /\ x.body = PageOnDisk(f)
    BY <1>1, <2>1, <2>2 DEF HasIndex
  <2>6. x.page \in index.listing /\ (TextOf(s, x.page, x.body) \/ Lost(s))
    BY <2>1, <2>2, <2>5
  <2> HIDE DEF x, index
  <2> QED BY <1>2, <1>3, <2>1, <2>4, <2>5, <2>6, HoldsIndex
<1>7. CASE AnswerRequest(r)
  <2> DEFINE x == [old EXCEPT !.step = "answered"]
  <2>1. /\ old.step = "verify" /\ index \in Indexes /\ Known(s) /\ ShowsOneBundle(index)
        /\ (TextOf(s, old.page, old.body) \/ Lost(s))
    BY <1>1, <1>5, <1>7 DEF AnswerRequest, ReaderAt, ReaderSound, HasIndex
  <2>2. CASE ~IsCurrent(s)
    BY <1>4, <1>7, <2>2 DEF AnswerRequest
  <2>3. CASE IsCurrent(s)
    <3>1. TextOf(s, old.page, old.body)
      BY <2>1, <2>3, CurrentIsPublished
    <3>2. reader' = [reader EXCEPT ![r] = x]
      BY <1>7, <2>3 DEF AnswerRequest, Move
    <3>3. /\ x \in [step : HasIndex, stamp : Nat, index : Indexes, unread : SUBSET Classes,
                    gate : {x.gate}, body : Contents, page : Classes \cup {Nothing}]
          /\ x.step = "answered" /\ x.index = index /\ x.page = old.page /\ x.body = old.body
      BY <1>1, <2>1 DEF HasIndex
    <3>4. bundles[s].listing = index.listing
      BY <2>1 DEF ShowsOneBundle
    <3> HIDE DEF x
    <3> QED BY <1>2, <1>3, <2>1, <3>1, <3>2, <3>3, <3>4, HoldsIndex
  <2> QED BY <2>2, <2>3
<1>8. CASE ReadListing(r)
  <2>1. old.step = "probe" /\ old.page = Nothing
    BY <1>1, <1>8 DEF ReadListing, ReaderAt, ReaderSound
  <2>2. CASE StampIn("out") = 0
    BY <1>4, <1>8, <2>2 DEF ReadListing
  <2>3. CASE StampIn("out") # 0
    <3> DEFINE new == [stamp |-> StampIn("out"), listing |-> ManifestIn("out").pages,
                       bodies |-> NoPages]
               x == [old EXCEPT !.step = "listed", !.index = new]
    <3>1. /\ new \in Indexes /\ Known(new.stamp)
          /\ bundles[new.stamp].listing = new.listing
      BY <2>3, ManifestIsKnown, NoPagesType DEF Indexes
    <3>2. reader' = [reader EXCEPT ![r].step = "listed", ![r].index = new]
      BY <1>8, <2>3 DEF ReadListing
    <3> HIDE DEF new
    <3>3. reader' = [reader EXCEPT ![r] = x]
      BY <3>2 DEF RequestsInv
    <3>4. /\ x \in [step : HasIndex, stamp : Nat, index : Indexes, unread : SUBSET Classes,
                    gate : {x.gate}, body : Contents, page : Classes \cup {Nothing}]
          /\ x.step = "listed" /\ x.index = new /\ x.page = Nothing
      BY <1>1, <2>1, <3>1 DEF HasIndex
    <3> HIDE DEF x
    <3> QED BY <1>2, <1>3, <3>1, <3>3, <3>4, HoldsIndex
  <2> QED BY <2>2, <2>3
<1>9. CASE AnswerListing(r)
  <2> DEFINE x == [old EXCEPT !.step = "answered"]
  <2>1. /\ old.step = "listed" /\ old.page = Nothing /\ index \in Indexes /\ Known(s)
        /\ bundles[s].listing = index.listing
    BY <1>1, <1>5, <1>9 DEF AnswerListing, ReaderAt, ReaderSound, HasIndex
  <2>2. Refuse(r) \/ reader' = [reader EXCEPT ![r] = x]
    BY <1>9 DEF AnswerListing, Move
  <2>3. /\ x \in [step : HasIndex, stamp : Nat, index : Indexes, unread : SUBSET Classes,
                  gate : {x.gate}, body : Contents, page : Classes \cup {Nothing}]
        /\ x.step = "answered" /\ x.index = index /\ x.page = Nothing
    BY <1>1, <2>1 DEF HasIndex
  <2> HIDE DEF x
  <2> QED BY <1>2, <1>3, <1>4, <2>1, <2>2, <2>3, HoldsIndex
<1>10. CASE EndRequest(r)
  BY <1>4, <1>10 DEF EndRequest
<1> QED BY <1>6, <1>7, <1>8, <1>9, <1>10

LEMMA EvictionStep == RequestsInv /\ EvictIndex => RequestsInv'
<1> SUFFICES ASSUME RequestsInv, EvictIndex PROVE RequestsInv'
  OBVIOUS
<1>1. reader' = reader /\ UNCHANGED runnerVars /\ wikiCache' = Nothing
  BY DEF EvictIndex
<1> QED BY <1>1, OthersStay DEF RequestsInv, CacheSound

-----------------------------------------------------------------------------
(* The theorem *)

LEMMA WikiIndInit == WikiInit => WikiInd
<1> SUFFICES ASSUME WikiInit PROVE WikiInd
  OBVIOUS
<1>1. SomeText \in Contents
  BY WikiAssumption DEF SomeText
<1>2. PICK fs \in SUBSET Classes :
        history = <<[f \in Classes |-> IF f \in fs THEN SomeText ELSE Absent]>>
  BY DEF WikiInit
<1>3. [f \in Classes |-> IF f \in fs THEN SomeText ELSE Absent] \in Pages
  BY <1>1, WikiAssumption DEF Pages
<1>4. history \in Seq(Pages) /\ Len(history) = 1
  BY <1>2, <1>3
<1>5. IdleRun \in Runs /\ IdleRun.step = "idle" /\ IdleRun.commit = 0
  BY DEF IdleRun, Runs, RunSteps
<1>6. RunnerTypes
  BY <1>4, <1>5, WikiAssumption DEF WikiInit, RunnerTypes, LastCommit
<1>7. StampIn("out") = 0 /\ StampIn("bak") = 0
  BY DEF WikiInit, StampIn, ManifestIn
<1>8. RunUnderWay
  BY <1>5, WikiAssumption DEF WikiInit, RunUnderWay, Before, Writing, After
<1>9. RunnerInv
  BY <1>6, <1>7, <1>8 DEF RunnerInv, Served
<1>10. ASSUME NEW r \in WikiReaders PROVE ReaderTypes(r) /\ ReaderSound(r)
  <2>1. reader[r] = IdleReader
    BY DEF WikiInit
  <2> QED BY <2>1, WikiAssumption DEF ReaderTypes, ReaderSound, IdleReader, ReaderSteps, HasIndex
<1>11. RequestsInv
  BY <1>10 DEF WikiInit, RequestsInv, CacheSound
<1> QED BY <1>9, <1>11 DEF WikiInd

LEMMA WikiIndStep == WikiInd /\ [WikiNext]_wikiVars => WikiInd'
<1> SUFFICES ASSUME RunnerInv, RequestsInv, [WikiNext]_wikiVars PROVE RunnerInv' /\ RequestsInv'
  BY DEF WikiInd
<1>1. CASE Commit \/ Generate
  <2>1. UNCHANGED readerVars
    BY <1>1 DEF Commit, Generate, NothingToDo, StartWiki, WriteMarker, TruncateMeta, WriteMeta,
                Render, FlushPage, PruneStale, WriteManifest, RemoveMarker, Rotate, SwapIn,
                SwapFails, RunDies
  <2> QED BY <1>1, <2>1, GeneratorStep, RequestsWait
<1>2. ASSUME NEW r \in WikiReaders, Request(r) PROVE RunnerInv' /\ RequestsInv'
  <2>1. UNCHANGED runnerVars
    BY <1>2 DEF Request, CheckMarker, ProbeManifest, PassGate, StatManifest, ReadManifest,
                ReadBody, VerifyIndex, ReadPage, AnswerRequest, ReadListing, AnswerListing,
                EndRequest
  <2>2. RequestsInv'
    BY <1>2, OpeningStep, LoadingStep, AnsweringStep DEF Request
  <2> QED BY <2>1, <2>2, RunnerStays
<1>3. CASE EvictIndex
  <2>1. UNCHANGED runnerVars
    BY <1>3 DEF EvictIndex
  <2> QED BY <1>3, <2>1, RunnerStays, EvictionStep
<1>4. CASE UNCHANGED wikiVars
  <2>1. UNCHANGED runnerVars /\ UNCHANGED readerVars
    BY <1>4 DEF wikiVars, runnerVars, readerVars
  <2>2. Carry
    BY <2>1, RunnerStays DEF Carry, Carried, runnerVars
  <2> QED BY <2>1, <2>2, RunnerStays, RequestsWait
<1> QED BY <1>1, <1>2, <1>3, <1>4 DEF WikiNext

LEMMA WikiIndImplies == WikiInd => WikiInv
<1> SUFFICES ASSUME RunnerInv, RequestsInv PROVE WikiInv
  BY DEF WikiInd
<1>1. WikiTypeOK
  BY DEF RunnerInv, RunnerTypes, WikiTypeOK
<1>2. CachedTogether
  BY DEF RequestsInv, CacheSound, CachedTogether
<1>3. ASSUME NEW r \in WikiReaders, ReaderAt(r, "answered")
      PROVE  IF reader[r].page = Nothing THEN ListingServed(r) ELSE PageServed(r)
  <2>1. ReaderSound(r) /\ reader[r].step = "answered"
    BY <1>3 DEF RequestsInv, ReaderAt
  <2> QED BY <2>1 DEF ReaderSound, HasIndex, Known, ListingServed, PageServed, TextOf
<1> QED BY <1>1, <1>2, <1>3 DEF WikiInv, ServedTogether

\* Whatever commits, runs and their deaths come between the looks of a request
\* at the files, an answer and a retained index are of one run's bundle, a
\* published one but for bare listings (generate_wiki; wiki_repository.rs).
THEOREM WikiCorrect == WikiSpec => []WikiInv
<1>1. WikiInit => WikiInd
  BY WikiIndInit
<1>2. WikiInd /\ [WikiNext]_wikiVars => WikiInd'
  BY WikiIndStep
<1>3. WikiInd => WikiInv
  BY WikiIndImplies
<1> QED BY <1>1, <1>2, <1>3, PTL DEF WikiSpec

-----------------------------------------------------------------------------
(* Whole wikis *)

Rendering == {"flush", "manifest"}

\* The run works in place, over what the run before it wrote.
Follows == ~run.staged /\ run.base # 0 /\ run.number = run.base + 1

RecordsDated ==
  /\ run.since \in 0..LastCommit
  /\ \A n \in 1..runs : bundles[n] # Nothing =>
       bundles[n].commit \in 1..LastCommit /\ bundles[n].since \in 0..LastCommit

\* If the last run left its manifest in the wiki directory, it left its pages.
LeftWhole == run.step = "idle" /\ runs # 0 /\ StampIn("out") = runs => Matches("out")

\* What a run that follows another does not render is as the other left it.
BaseKept == run.step \in Before /\ Follows =>
  /\ StampIn("out") = run.base
  /\ \A f \in Classes :
       \/ dirs["out"].pages[f] = bundles[run.base].pages[f]
       \/ run.step \in Rendering /\ FeatureOf[f] \in Affected

RenderedRight == run.step \in Rendering =>
  /\ run.listing = Rendered \cup Merged
  /\ run.unwritten \subseteq Rendered /\ (run.step = "manifest" => run.unwritten = {})
  /\ \A f \in Rendered \ run.unwritten : dirs[Target].pages[f] = history[run.commit][f]

WholeInd == RecordsDated /\ LeftWhole /\ BaseKept /\ RenderedRight /\ RunsWhole

\* Numbers are well-founded.
LEMMA FirstIsIn ==
  ASSUME NEW fs \in SUBSET Classes, fs # {}
  PROVE  First(fs) \in fs
<1>1. PICK f \in fs : \A g \in fs : <<g, f>> \notin OpToRel(<, Nat)
  BY NatLessThanWellFounded, WFMin, WikiAssumption
<1>2. \A g \in fs : ~(g < f)
  BY <1>1, WikiAssumption DEF OpToRel
<1>3. \A g \in fs : f <= g
  BY <1>2, WikiAssumption
<1> QED BY <1>3 DEF First

LEMMA SameRendering ==
  ASSUME history' = history, run'.commit = run.commit, run'.since = run.since,
         run'.changed = run.changed
  PROVE  Rendered' = Rendered /\ Affected' = Affected
BY DEF Rendered, Affected, Present, Features

\* What is on record of a run stays, but for whether it was published.
Agree(n) ==
  /\ bundles'[n] = Nothing <=> bundles[n] = Nothing
  /\ bundles'[n].commit = bundles[n].commit /\ bundles'[n].since = bundles[n].since
  /\ bundles'[n].changed = bundles[n].changed
  /\ bundles'[n].staged = bundles[n].staged /\ bundles'[n].base = bundles[n].base
  /\ bundles'[n].listing = bundles[n].listing /\ bundles'[n].pages = bundles[n].pages

LEMMA WholeStays ==
  ASSUME NEW n, Agree(n), \A c \in 1..LastCommit : history'[c] = history[c],
         bundles[n].commit \in 1..LastCommit
  PROVE  Whole(n)' <=> Whole(n)
BY DEF Agree, Whole, Present

LEMMA RunsStayWhole ==
  ASSUME RunnerInv, RecordsDated, RunsWhole, runs' \in 0..MaxWikiRuns,
         \A c \in 1..LastCommit : history'[c] = history[c], LastCommit' \in Nat, LastCommit <= LastCommit',
         \A n \in 1..MaxWikiRuns : Agree(n), run'.since \in 0..LastCommit'
  PROVE  RecordsDated' /\ RunsWhole'
<1>1. /\ runs \in 0..MaxWikiRuns /\ MaxWikiRuns \in Nat /\ LastCommit \in Nat
      /\ bundles \in [1..MaxWikiRuns -> {Nothing} \cup Records]
      /\ \A n \in (runs + 1)..MaxWikiRuns : bundles[n] = Nothing
  BY WikiAssumption DEF RunnerInv, RunnerTypes, RunUnderWay
<1>2. ASSUME NEW n \in 1..runs', bundles'[n] # Nothing
      PROVE  /\ n \in 1..MaxWikiRuns /\ n \in 1..runs /\ bundles[n] # Nothing /\ bundles[n] \in Records
             /\ bundles[n].commit \in 1..LastCommit /\ bundles[n].since \in 0..LastCommit
  <2>1. n \in 1..MaxWikiRuns /\ bundles[n] # Nothing
    BY <1>1, <1>2 DEF Agree
  <2>2. n \in 1..runs
    BY <1>1, <2>1
  <2> QED BY <1>1, <2>1, <2>2 DEF RecordsDated
<1>3. ASSUME NEW n \in 1..runs', bundles'[n] # Nothing, bundles'[n].since = 0 \/ FromWhole(n)'
      PROVE  Whole(n)'
  <2>1. Agree(n) /\ n \in Nat
    BY <1>2, <1>3
  <2>2. CASE bundles[n].since = 0
    BY <1>2, <1>3, <2>1, <2>2, WholeStays DEF RunsWhole
  <2>3. CASE bundles[n].since # 0
    <3>0. PICK base, since : base = bundles[n].base /\ since = bundles[n].since
      OBVIOUS
    <3>1. /\ bundles'[n].base = base /\ bundles'[n].since = since /\ bundles'[n].commit = bundles[n].commit
          /\ bundles'[n].staged = bundles[n].staged /\ since # 0
      BY <3>0, <2>1, <2>3 DEF Agree
    <3>2. FromWhole(n)'
      BY <1>3, <3>1
    <3>3. /\ ~bundles'[n].staged /\ bundles'[n].base # 0 /\ n = bundles'[n].base + 1
          /\ bundles'[bundles'[n].base].commit = bundles'[n].since
      BY <3>2 DEF FromWhole
    <3>4. \A f \in Classes : history'[bundles'[n].since][f] # Absent => history'[bundles'[n].commit][f] # Absent
      BY <3>2 DEF FromWhole, Present
    <3>17. bundles'[n].changed
             = {f \in Classes : history'[bundles'[n].since][f] # history'[bundles'[n].commit][f]}
      BY <3>2 DEF FromWhole, Changed
    <3>5. bundles'[bundles'[n].base].listing
            = {f \in Classes : history'[bundles'[bundles'[n].base].commit][f] # Absent}
      BY <3>2 DEF FromWhole, Whole, Present
    <3>6. \A f \in bundles'[bundles'[n].base].listing :
            bundles'[bundles'[n].base].pages[f] = history'[bundles'[bundles'[n].base].commit][f]
      BY <3>2 DEF FromWhole, Whole
    <3>7. bundles'[base].listing = {f \in Classes : history'[bundles'[base].commit][f] # Absent}
      BY <3>1, <3>5
    <3>8. \A f \in bundles'[base].listing : bundles'[base].pages[f] = history'[bundles'[base].commit][f]
      BY <3>1, <3>6
    <3>9. Whole(base)'
      BY <3>7, <3>8 DEF Whole, Present
    <3>10. ~bundles'[n].staged /\ base # 0 /\ n = base + 1 /\ bundles'[base].commit = since
      BY <3>1, <3>3
    <3>11. \A f \in Classes : history'[since][f] # Absent => history'[bundles'[n].commit][f] # Absent
      BY <3>1, <3>4
    <3>12. base \in 1..MaxWikiRuns
      BY <3>0, <1>1, <1>2, <1>3, <3>10 DEF Records
    <3>13. bundles[base].commit = since /\ since \in 1..LastCommit
      <4>1. Agree(base)
        BY <3>12
      <4>2. since \in 0..LastCommit
        BY <3>0, <1>2, <1>3
      <4>3. bundles[base].commit = since
        BY <3>10, <4>1 DEF Agree
      <4> QED BY <1>1, <3>1, <4>2, <4>3
    <3>14. Whole(base)
      BY <3>9, <3>12, <3>13, WholeStays
    <3>15. Present(bundles[n].since) \subseteq Present(bundles[n].commit)
      <4>1. history'[since] = history[since] /\ history'[bundles[n].commit] = history[bundles[n].commit]
        BY <1>2, <1>3, <3>13
      <4>2. \A f \in Classes : history[since][f] # Absent => history[bundles[n].commit][f] # Absent
        BY <3>1, <3>11, <4>1
      <4> QED BY <3>0, <4>2 DEF Present
    <3>18. bundles[n].changed = Changed(bundles[n].since, bundles[n].commit)
      <4>1. history'[since] = history[since] /\ history'[bundles[n].commit] = history[bundles[n].commit]
        BY <1>2, <1>3, <3>13
      <4>2. bundles'[n].changed = {f \in Classes : history[since][f] # history[bundles[n].commit][f]}
        BY <3>1, <3>17, <4>1
      <4> QED BY <3>0, <4>2, <2>1 DEF Changed, Agree
    <3>16. FromWhole(n)
      BY <3>0, <3>1, <3>10, <3>13, <3>14, <3>15, <3>18 DEF FromWhole
    <3> QED BY <1>2, <1>3, <2>1, <3>16, WholeStays DEF RunsWhole
  <2> QED BY <2>2, <2>3
<1>4. RecordsDated'
  <2>1. \A n \in 1..runs' : bundles'[n] # Nothing =>
          bundles'[n].commit \in 1..LastCommit' /\ bundles'[n].since \in 0..LastCommit'
    <3> SUFFICES ASSUME NEW n \in 1..runs', bundles'[n] # Nothing
                 PROVE  bundles'[n].commit \in 1..LastCommit' /\ bundles'[n].since \in 0..LastCommit'
      OBVIOUS
    <3>1. Agree(n)
      BY <1>2
    <3> QED BY <1>1, <1>2, <3>1 DEF Agree
  <2> QED BY <2>1 DEF RecordsDated
<1>5. RunsWhole'
  BY <1>3 DEF RunsWhole
<1> QED BY <1>4, <1>5

\* The records are untouched.
LEMMA RecordsWait ==
  ASSUME RunnerInv, WholeInd, UNCHANGED <<history, bundles>>, runs' \in 0..MaxWikiRuns,
         run'.since \in 0..LastCommit
  PROVE  RecordsDated' /\ RunsWhole'
<1>1. LastCommit' = LastCommit /\ LastCommit \in Nat
  BY DEF LastCommit, RunnerInv, RunnerTypes
<1>2. \A n : Agree(n)
  BY DEF Agree
<1> QED BY <1>1, <1>2, RunsStayWhole DEF WholeInd

-----------------------------------------------------------------------------
(* The steps of the generator once more *)

\* Files are written; f is one of those that the run has to write, or may remove.
LEMMA TouchesWhole ==
  ASSUME RunnerInv, WholeInd, run.step \in Before, run'.step \in Before \cap Writing,
         UNCHANGED <<history, runs, bundles>>, run' \in Runs,
         run'.number = run.number, run'.staged = run.staged, run'.commit = run.commit,
         run'.since = run.since, run'.base = run.base, run'.listing = run.listing,
         run'.changed = run.changed,
         NEW b \in Bundles, dirs' = [dirs EXCEPT ![Target] = b],
         dirs[Target] # Nothing => b.manifest = dirs[Target].manifest,
         run.step \in Rendering <=> run'.step \in Rendering,
         ~run.staged /\ dirs["out"] # Nothing => \A f \in Classes :
           \/ b.pages[f] = dirs["out"].pages[f]
           \/ run.step \in Rendering /\ FeatureOf[f] \in Affected,
         run.step \in Rendering =>
           /\ run'.unwritten \subseteq Rendered /\ (run'.step = "manifest" => run'.unwritten = {})
           /\ \A f \in Rendered \ run'.unwritten : b.pages[f] = history[run.commit][f]
  PROVE  WholeInd'
<1>1. Target' = Target /\ Target \in {"out", "stage"} /\ dirs'[Target] = b /\ b # Nothing
  BY TargetType, NothingAssumption DEF RunnerInv, RunnerTypes, Target
<1>2. Rendered' = Rendered /\ Affected' = Affected
  BY SameRendering
<1>3. RecordsDated' /\ RunsWhole'
  BY RecordsWait DEF WholeInd, RecordsDated, RunnerInv, RunnerTypes
<1>4. LeftWhole'
  BY DEF LeftWhole, Before
<1>5. BaseKept'
  <2> SUFFICES ASSUME Follows'
               PROVE  /\ StampIn("out")' = run.base
                      /\ \A f \in Classes :
                           \/ dirs'["out"].pages[f] = bundles[run.base].pages[f]
                           \/ run'.step \in Rendering /\ FeatureOf[f] \in Affected
    BY <1>2 DEF BaseKept
  <2>1. Follows /\ Target = "out" /\ StampIn("out") = run.base /\ run.base # 0
    BY DEF Follows, Target, WholeInd, BaseKept
  <2>2. dirs["out"] # Nothing /\ dirs'["out"] = b /\ b.manifest = dirs["out"].manifest
    BY <1>1, <2>1 DEF StampIn, ManifestIn
  <2>3. StampIn("out")' = StampIn("out")
    BY <1>1, <2>1, <2>2 DEF StampIn, ManifestIn
  <2> QED BY <2>1, <2>2, <2>3 DEF WholeInd, BaseKept, Follows
<1>6. RenderedRight'
  <2> SUFFICES ASSUME run.step \in Rendering
               PROVE  /\ run.listing = Rendered \cup Merged'
                      /\ run'.unwritten \subseteq Rendered /\ (run'.step = "manifest" => run'.unwritten = {})
                      /\ \A f \in Rendered \ run'.unwritten : dirs'[Target].pages[f] = history[run.commit][f]
    BY <1>1, <1>2 DEF RenderedRight
  <2>1. dirs[Target] # Nothing
    BY DEF RunnerInv, RunUnderWay, Writing, Rendering
  <2>2. ManifestIn(Target)' = ManifestIn(Target)
    BY <1>1, <2>1 DEF ManifestIn
  <2>3. Merged' = Merged
    BY <1>2, <2>2 DEF Merged
  <2> QED BY <1>1, <2>3 DEF WholeInd, RenderedRight
<1> QED BY <1>3, <1>4, <1>5, <1>6 DEF WholeInd

LEMMA MarksWhole == RunnerInv /\ WholeInd /\ WriteMarker => WholeInd'
<1> SUFFICES ASSUME RunnerInv, WholeInd, WriteMarker PROVE WholeInd'
  OBVIOUS
<1> DEFINE kept == IF run.staged \/ dirs["out"] = Nothing THEN EmptyBundle ELSE dirs["out"]
           b == [kept EXCEPT !.marker = TRUE]
<1>1. kept \in Bundles
  BY WikiAssumption DEF EmptyBundle, NoPages, Bundles, Pages, RunnerInv, RunnerTypes
<1>2. /\ run \in Runs /\ run.step = "mark" /\ run' = [run EXCEPT !.step = "truncate"]
      /\ dirs' = [dirs EXCEPT ![Target] = b] /\ UNCHANGED <<history, runs, bundles>>
  BY DEF RunnerInv, RunnerTypes, WriteMarker, Continue
<1>3. b \in Bundles /\ b.manifest = kept.manifest /\ b.pages = kept.pages
  BY <1>1 DEF Bundles
<1>4. run' \in Runs /\ run'.step = "truncate"
      /\ run'.number = run.number /\ run'.staged = run.staged /\ run'.commit = run.commit
      /\ run'.since = run.since /\ run'.base = run.base
  BY <1>2 DEF Runs, RunSteps, Before
<1> HIDE DEF b
<1>5. RecordsDated' /\ RunsWhole'
  BY <1>2, <1>4, RecordsWait DEF WholeInd, RecordsDated, RunnerInv, RunnerTypes
<1>6. LeftWhole' /\ RenderedRight'
  BY <1>4 DEF LeftWhole, RenderedRight, Rendering
<1>7. BaseKept'
  <2> SUFFICES ASSUME Follows'
               PROVE  /\ StampIn("out")' = run.base
                      /\ \A f \in Classes : dirs'["out"].pages[f] = bundles[run.base].pages[f]
    BY <1>2, <1>4 DEF BaseKept
  <2>1. /\ Follows /\ Target = "out" /\ StampIn("out") = run.base /\ run.base # 0
        /\ \A f \in Classes : dirs["out"].pages[f] = bundles[run.base].pages[f]
    BY <1>2, <1>4 DEF Follows, Target, WholeInd, BaseKept, Before, Rendering
  <2>2. /\ dirs["out"] # Nothing /\ kept = dirs["out"] /\ dirs'["out"] = b /\ b # Nothing
    BY <1>2, <1>3, <2>1, NothingAssumption DEF StampIn, ManifestIn, Follows, RunnerInv, RunnerTypes
  <2>3. StampIn("out")' = StampIn("out")
    BY <1>3, <2>2 DEF StampIn, ManifestIn
  <2> QED BY <1>3, <2>1, <2>2, <2>3
<1> QED BY <1>5, <1>6, <1>7 DEF WholeInd

LEMMA WritesWhole ==
  RunnerInv /\ WholeInd /\ (TruncateMeta \/ WriteMeta \/ FlushPage \/ PruneStale) => WholeInd'
<1> SUFFICES ASSUME RunnerInv, WholeInd, TruncateMeta \/ WriteMeta \/ FlushPage \/ PruneStale PROVE WholeInd'
  OBVIOUS
<1>1. /\ run.step \in Before \cap Writing /\ run \in Runs /\ UNCHANGED <<history, runs, bundles>>
  BY DEF RunnerInv, RunnerTypes, TruncateMeta, WriteMeta, FlushPage, PruneStale, Before, Writing
<1>2. /\ dirs \in [{"out", "stage", "bak"} -> {Nothing} \cup Bundles]
      /\ dirs[Target] \in Bundles /\ dirs[Target] # Nothing
  BY <1>1, TargetType DEF RunnerInv, RunnerTypes, RunUnderWay
<1>3. history[run.commit] \in Pages
  <2>1. history \in Seq(Pages) /\ run.commit \in 1..Len(history)
    BY <1>1 DEF RunnerInv, RunnerTypes, LastCommit, Before, Writing
  <2> QED BY <2>1
<1>4. ASSUME NEW step \in Before \cap Writing, run' = [run EXCEPT !.step = step]
      PROVE  /\ run' \in Runs /\ run'.step = step /\ run'.unwritten = run.unwritten
             /\ run'.number = run.number /\ run'.staged = run.staged /\ run'.commit = run.commit
             /\ run'.since = run.since /\ run'.base = run.base /\ run'.listing = run.listing
             /\ run'.changed = run.changed
  BY <1>1, <1>4 DEF Runs, RunSteps
<1>5. ~run.staged => Target = "out"
  BY DEF Target
<1>6. CASE TruncateMeta
  <2> DEFINE b == [dirs[Target] EXCEPT !.meta = 0]
  <2>1. b \in Bundles /\ b.manifest = dirs[Target].manifest /\ b.pages = dirs[Target].pages
    BY <1>2 DEF Bundles
  <2>2. /\ dirs' = [dirs EXCEPT ![Target] = b] /\ run' = [run EXCEPT !.step = "meta"]
        /\ run.step = "truncate"
    BY <1>2, <1>6 DEF TruncateMeta, Continue
  <2> HIDE DEF b
  <2> QED BY <1>1, <1>4, <1>5, <2>1, <2>2, TouchesWhole DEF Before, Writing, Rendering
<1>7. CASE WriteMeta
  <2> DEFINE b == [dirs[Target] EXCEPT !.meta = run.commit]
  <2>1. b \in Bundles /\ b.manifest = dirs[Target].manifest /\ b.pages = dirs[Target].pages
    BY <1>1, <1>2 DEF Bundles, Runs
  <2>2. /\ dirs' = [dirs EXCEPT ![Target] = b] /\ run' = [run EXCEPT !.step = "render"]
        /\ run.step = "meta"
    BY <1>2, <1>7 DEF WriteMeta, Continue
  <2> HIDE DEF b
  <2> QED BY <1>1, <1>4, <1>5, <2>1, <2>2, TouchesWhole DEF Before, Writing, Rendering
<1>8. CASE FlushPage
  <2> DEFINE f == First(run.unwritten)
             pages == [dirs[Target].pages EXCEPT ![f] = history[run.commit][f]]
             b == [dirs[Target] EXCEPT !.pages = pages]
  <2>1. /\ run.step = "flush" /\ run.unwritten # {}
        /\ dirs' = [dirs EXCEPT ![Target].pages[f] = history[run.commit][f]]
        /\ run' = [run EXCEPT !.unwritten = @ \ {f}]
    BY <1>8 DEF FlushPage
  <2>2. /\ run.unwritten \subseteq Rendered /\ run.unwritten \subseteq Classes
        /\ \A g \in Rendered \ run.unwritten : dirs[Target].pages[g] = history[run.commit][g]
    BY <1>1, <2>1 DEF WholeInd, RenderedRight, Rendering, Runs
  <2>3. f \in run.unwritten /\ f \in Classes
    BY <2>1, <2>2, FirstIsIn
  <2>4. FeatureOf[f] \in Affected
    BY <2>2, <2>3 DEF Rendered
  <2> HIDE DEF f
  <2>5. /\ pages \in Pages /\ pages[f] = history[run.commit][f]
        /\ \A g \in Classes : g # f => pages[g] = dirs[Target].pages[g]
    BY <1>2, <1>3, <2>3 DEF Bundles, Pages
  <2>6. dirs' = [dirs EXCEPT ![Target] = b]
    BY <1>2, <2>1 DEF Bundles
  <2> HIDE DEF pages
  <2>7. b \in Bundles /\ b.manifest = dirs[Target].manifest /\ b.pages = pages
    BY <1>2, <2>5 DEF Bundles
  <2> HIDE DEF b
  <2>8. /\ run' \in Runs /\ run'.step = "flush" /\ run'.unwritten = run.unwritten \ {f}
        /\ run'.number = run.number /\ run'.staged = run.staged /\ run'.commit = run.commit
        /\ run'.since = run.since /\ run'.base = run.base /\ run'.listing = run.listing
        /\ run'.changed = run.changed
    BY <1>1, <2>1 DEF Runs
  <2>9. Rendered \subseteq Classes
    BY DEF Rendered, Present
  <2>10. \A g \in Rendered \ run'.unwritten : b.pages[g] = history[run.commit][g]
    BY <2>2, <2>5, <2>7, <2>8, <2>9
  <2>11. ~run.staged => \A g \in Classes :
           \/ b.pages[g] = dirs["out"].pages[g]
           \/ run.step \in Rendering /\ FeatureOf[g] \in Affected
    BY <1>5, <2>1, <2>4, <2>5, <2>7 DEF Rendering
  <2>12. run.step \in Before /\ run'.step \in Before \cap Writing /\ run'.unwritten \subseteq Rendered
         /\ run'.step # "manifest" /\ run.step \in Rendering /\ run'.step \in Rendering
    BY <2>1, <2>2, <2>8 DEF Before, Writing, Rendering
  <2> QED BY <1>1, <2>6, <2>7, <2>8, <2>10, <2>11, <2>12, TouchesWhole
<1>9. CASE PruneStale
  <2> DEFINE pages == [g \in Classes |-> IF FeatureOf[g] \in Features(Rendered) /\ g \notin Rendered
                                         THEN Absent ELSE dirs[Target].pages[g]]
             b == [dirs[Target] EXCEPT !.pages = pages]
  <2>1. /\ run.step = "flush" /\ run.unwritten = {} /\ run' = [run EXCEPT !.step = "manifest"]
        /\ dirs' = [dirs EXCEPT ![Target] = b]
    BY <1>2, <1>9 DEF PruneStale, Continue
  <2>2. \A g \in Rendered \ run.unwritten : dirs[Target].pages[g] = history[run.commit][g]
    BY <2>1 DEF WholeInd, RenderedRight, Rendering
  <2>3. pages \in Pages
    BY <1>2, WikiAssumption DEF Bundles, Pages
  <2>4. Rendered \subseteq Classes /\ \A g \in Rendered : pages[g] = dirs[Target].pages[g]
    BY DEF Rendered, Present
  <2>5. \A g \in Classes : pages[g] = dirs[Target].pages[g] \/ FeatureOf[g] \in Affected
    BY DEF Features, Rendered
  <2> HIDE DEF pages
  <2>6. b \in Bundles /\ b.manifest = dirs[Target].manifest /\ b.pages = pages
    BY <1>2, <2>3 DEF Bundles
  <2> HIDE DEF b
  <2>7. /\ run' \in Runs /\ run'.step = "manifest" /\ run'.unwritten = {}
        /\ run'.number = run.number /\ run'.staged = run.staged /\ run'.commit = run.commit
        /\ run'.since = run.since /\ run'.base = run.base /\ run'.listing = run.listing
        /\ run'.changed = run.changed
    BY <1>1, <1>4, <2>1 DEF Before, Writing
  <2>8. \A g \in Rendered \ run'.unwritten : b.pages[g] = history[run.commit][g]
    BY <2>1, <2>2, <2>4, <2>6, <2>7
  <2>9. ~run.staged => \A g \in Classes :
          \/ b.pages[g] = dirs["out"].pages[g]
          \/ run.step \in Rendering /\ FeatureOf[g] \in Affected
    BY <1>5, <2>1, <2>5, <2>6 DEF Rendering
  <2>10. run.step \in Before /\ run'.step \in Before \cap Writing
         /\ run.step \in Rendering /\ run'.step \in Rendering
    BY <2>1, <2>7 DEF Before, Writing, Rendering
  <2> QED BY <1>1, <2>1, <2>6, <2>7, <2>8, <2>9, <2>10, TouchesWhole
<1> QED BY <1>6, <1>7, <1>8, <1>9

\* A run that stops leaves its manifest in the wiki directory only with its pages.
LEMMA StopsLeavingPages ==
  ASSUME RunnerInv, run.step # "idle", StampIn("out") = runs
  PROVE  Matches("out")
<1>1. runs # 0 /\ run.number = runs /\ Known(runs)
  BY DEF RunnerInv, RunUnderWay, Served
<1>2. run.step \notin Before /\ ~(run.staged /\ run.step \in After)
  BY <1>1 DEF Known, RunnerInv, RunUnderWay
<1>3. run.step = "unmark" /\ Target = "out"
  BY <1>2 DEF RunnerInv, RunnerTypes, RunUnderWay, Runs, RunSteps, After, Target
<1> QED BY <1>3 DEF RunnerInv, RunUnderWay

\* A step to where nothing is rendered.
LEMMA LeavesWhole ==
  ASSUME RunnerInv, WholeInd, UNCHANGED <<history, runs>>, \A n \in 1..MaxWikiRuns : Agree(n),
         run'.step \notin Before, run'.since \in 0..LastCommit, LeftWhole'
  PROVE  WholeInd'
<1>1. LastCommit' = LastCommit /\ LastCommit \in Nat /\ runs' \in 0..MaxWikiRuns
  BY DEF LastCommit, RunnerInv, RunnerTypes
<1>2. RecordsDated' /\ RunsWhole'
  BY <1>1, RunsStayWhole DEF WholeInd
<1>3. BaseKept' /\ RenderedRight'
  BY DEF BaseKept, RenderedRight, Rendering, Before
<1> QED BY <1>2, <1>3 DEF WholeInd

LEMMA CommitsWhole == RunnerInv /\ WholeInd /\ (Commit \/ NothingToDo) => WholeInd'
<1> SUFFICES ASSUME RunnerInv, WholeInd, Commit \/ NothingToDo PROVE WholeInd'
  OBVIOUS
<1>1. run.step = "idle" /\ UNCHANGED <<dirs, run, runs, bundles>>
  BY DEF Commit, NothingToDo
<1>2. /\ history \in Seq(Pages) /\ LastCommit \in Nat /\ runs' \in 0..MaxWikiRuns
  BY <1>1 DEF RunnerInv, RunnerTypes
<1>3. /\ \A c \in 1..LastCommit : history'[c] = history[c]
      /\ LastCommit' \in Nat /\ LastCommit <= LastCommit'
  <2>1. CASE NothingToDo
    BY <1>2, <2>1 DEF NothingToDo, LastCommit
  <2>2. CASE Commit
    <3>1. PICK new : history' = Append(history, new)
      BY <2>2 DEF Commit
    <3> QED BY <1>2, <3>1 DEF LastCommit
  <2> QED BY <2>1, <2>2
<1>4. \A n : Agree(n)
  BY <1>1 DEF Agree
<1>5. run'.since \in 0..LastCommit'
  BY <1>1, <1>2, <1>3 DEF WholeInd, RecordsDated
<1>6. RecordsDated' /\ RunsWhole'
  BY <1>2, <1>3, <1>4, <1>5, RunsStayWhole DEF WholeInd
<1>7. LeftWhole'
  BY <1>1 DEF WholeInd, LeftWhole, Matches, Listed, StampIn, ManifestIn
<1>8. BaseKept' /\ RenderedRight'
  BY <1>1 DEF BaseKept, RenderedRight, Rendering, Before
<1> QED BY <1>6, <1>7, <1>8 DEF WholeInd

LEMMA StartsWhole ==
  ASSUME RunnerInv, WholeInd, NEW since \in 0..LastCommit, NEW staged \in Staging, StartWiki(since, staged)
  PROVE  WholeInd'
<1>1. /\ run.step = "idle" /\ runs < MaxWikiRuns /\ runs' = runs + 1
      /\ \E changed \in ChangedFiles(since) :
           run' = [IdleRun EXCEPT !.step = "mark", !.number = runs + 1, !.commit = LastCommit,
                                  !.since = since, !.changed = changed, !.staged = staged,
                                  !.base = StampIn("out")]
      /\ UNCHANGED <<history, dirs, bundles>>
  BY DEF StartWiki
<1>2. run'.step = "mark" /\ run'.number = runs + 1 /\ run'.since = since /\ run'.base = StampIn("out")
  BY <1>1 DEF IdleRun
<1>3. runs \in Nat /\ runs' \in 0..MaxWikiRuns /\ StampIn("out") \in Nat
  BY <1>1, StampOfDirectory, WikiAssumption DEF RunnerInv, RunnerTypes
<1>4. RecordsDated' /\ RunsWhole'
  BY <1>1, <1>2, <1>3, RecordsWait
<1>5. StampIn("out")' = StampIn("out")
  BY <1>1 DEF StampIn, ManifestIn
<1>6. BaseKept'
  <2> SUFFICES ASSUME Follows'
               PROVE  /\ StampIn("out")' = run'.base
                      /\ \A f \in Classes : dirs'["out"].pages[f] = bundles'[run'.base].pages[f]
    BY DEF BaseKept
  <2>1. StampIn("out") = runs /\ runs # 0
    BY <1>2, <1>3 DEF Follows
  <2>2. bundles[StampIn("out")].pages = dirs["out"].pages
    BY <1>1, <2>1 DEF WholeInd, LeftWhole, Matches
  <2> QED BY <1>1, <1>2, <1>5, <2>2
<1>7. LeftWhole' /\ RenderedRight'
  BY <1>2 DEF LeftWhole, RenderedRight, Rendering
<1> QED BY <1>4, <1>6, <1>7 DEF WholeInd

LEMMA RendersWhole == RunnerInv /\ WholeInd /\ Render => WholeInd'
<1> SUFFICES ASSUME RunnerInv, WholeInd, Render PROVE WholeInd'
  OBVIOUS
<1>1. /\ run.step = "render" /\ run \in Runs /\ UNCHANGED <<history, dirs, runs, bundles>>
      /\ run' = [run EXCEPT !.step = "flush", !.unwritten = Rendered, !.listing = Rendered \cup Merged]
  BY DEF Render, RunnerInv, RunnerTypes
<1>2. /\ run'.step = "flush" /\ run'.unwritten = Rendered /\ run'.listing = Rendered \cup Merged
      /\ run'.number = run.number /\ run'.staged = run.staged /\ run'.commit = run.commit
      /\ run'.since = run.since /\ run'.base = run.base
      /\ run'.changed = run.changed
  BY <1>1 DEF Runs
<1>3. Rendered' = Rendered /\ Target' = Target
  BY <1>1, <1>2, SameRendering DEF Target
<1>4. StampIn("out")' = StampIn("out") /\ ManifestIn(Target)' = ManifestIn(Target)
  BY <1>1, <1>3 DEF StampIn, ManifestIn
<1>5. Merged' = Merged
  BY <1>1, <1>2, <1>4, SameRendering DEF Merged
<1>6. RecordsDated' /\ RunsWhole'
  BY <1>1, <1>2, RecordsWait DEF WholeInd, RecordsDated, RunnerInv, RunnerTypes
<1>7. LeftWhole'
  BY <1>2 DEF LeftWhole
<1>8. BaseKept'
  BY <1>1, <1>2, <1>4 DEF WholeInd, BaseKept, Follows, Before, Rendering
<1>9. RenderedRight'
  BY <1>2, <1>3, <1>5 DEF RenderedRight
<1> QED BY <1>6, <1>7, <1>8, <1>9 DEF WholeInd

\* A full run lists and has written all pages; one that follows a whole wiki
\* adds those of features it does not render, which are as they were.
LEMMA ListsWhole ==
  ASSUME RunnerInv, WholeInd, run.step = "manifest",
         \/ run.since = 0
         \/ /\ Follows /\ run.since # 0 /\ bundles[run.base].commit = run.since
            /\ Whole(run.base) /\ Present(run.since) \subseteq Present(run.commit)
            /\ run.changed = Changed(run.since, run.commit)
  PROVE  /\ run.listing = Present(run.commit)
         /\ \A f \in run.listing : dirs[Target].pages[f] = history[run.commit][f]
<1>1. /\ run.listing = Rendered \cup Merged
      /\ \A f \in Rendered : dirs[Target].pages[f] = history[run.commit][f]
  BY DEF WholeInd, RenderedRight, Rendering
<1>2. CASE run.since = 0
  <2>1. Merged = {} /\ Rendered = Present(run.commit)
    BY <1>2 DEF Merged, Rendered, Affected, Features
  <2> QED BY <1>1, <2>1
<1>3. CASE run.since # 0
  <2>1. /\ Follows /\ bundles[run.base].commit = run.since /\ Whole(run.base)
        /\ Present(run.since) \subseteq Present(run.commit) /\ Target = "out"
        /\ run.changed = Changed(run.since, run.commit)
    BY <1>3 DEF Follows, Target
  <2>2. /\ StampIn("out") = run.base /\ run.base # 0
        /\ \A f \in Classes : \/ dirs["out"].pages[f] = bundles[run.base].pages[f]
                              \/ FeatureOf[f] \in Affected
    BY <2>1 DEF WholeInd, BaseKept, Before, Follows
  <2>3. ManifestIn("out") # Nothing /\ ManifestIn("out").pages = Present(run.since)
    BY <2>1, <2>2 DEF StampIn, RunnerInv, Served, Listed, Whole
  <2>4. \A f \in Classes : FeatureOf[f] \notin Affected =>
          /\ f \in Present(run.commit) => history[run.since][f] = history[run.commit][f]
          /\ f \in Present(run.commit) <=> f \in Present(run.since)
    <3> SUFFICES ASSUME NEW f \in Classes, FeatureOf[f] \notin Affected
                 PROVE  /\ f \in Present(run.commit) => history[run.since][f] = history[run.commit][f]
                        /\ f \in Present(run.commit) <=> f \in Present(run.since)
      OBVIOUS
    <3>1. f \notin Present(run.commit) \cap Changed(run.since, run.commit)
      BY <1>3, <2>1 DEF Affected, Features
    <3> QED BY <2>1, <3>1 DEF Present, Changed
  <2>5. Present(run.since) \subseteq Classes /\ Present(run.commit) \subseteq Classes
    BY DEF Present
  <2>6. Merged = {f \in Present(run.since) : FeatureOf[f] \notin Affected}
    BY <1>3, <2>1, <2>3 DEF Merged
  <2>7. run.listing = Present(run.commit)
    BY <1>1, <2>4, <2>5, <2>6 DEF Rendered
  <2>8. ASSUME NEW f \in Merged PROVE dirs["out"].pages[f] = history[run.commit][f]
    <3>1. f \in Present(run.since) /\ FeatureOf[f] \notin Affected /\ f \in Classes
      BY <2>5, <2>6
    <3>2. bundles[run.base].pages[f] = history[run.since][f]
      BY <2>1, <3>1 DEF Whole
    <3> QED BY <2>2, <2>4, <3>1, <3>2
  <2> QED BY <1>1, <2>1, <2>7, <2>8
<1> QED BY <1>2, <1>3

LEMMA RecordsWhole == RunnerInv /\ WholeInd /\ WriteManifest => WholeInd'
<1> SUFFICES ASSUME RunnerInv, WholeInd, WriteManifest PROVE WholeInd'
  OBVIOUS
<1> DEFINE p == [commit |-> run.commit, since |-> run.since, changed |-> run.changed,
                 staged |-> run.staged, base |-> run.base, visible |-> FALSE, listing |-> run.listing,
                 pages |-> dirs[Target].pages]
<1>1. /\ run \in Runs /\ run.step = "manifest" /\ run' = [run EXCEPT !.step = "unmark"]
      /\ bundles' = [bundles EXCEPT ![run.number] = p] /\ UNCHANGED <<history, runs>>
      /\ bundles \in [1..MaxWikiRuns -> {Nothing} \cup Records]
  BY DEF WriteManifest, Continue, RunnerInv, RunnerTypes
<1>2. run.number = runs /\ runs \in 1..MaxWikiRuns /\ MaxWikiRuns \in Nat
  BY <1>1, WikiAssumption DEF RunnerInv, RunnerTypes, RunUnderWay
<1>3. /\ p.commit = run.commit /\ p.since = run.since /\ p.staged = run.staged /\ p.base = run.base
      /\ p.changed = run.changed /\ p.listing = run.listing /\ p.pages = dirs[Target].pages
  OBVIOUS
<1> HIDE DEF p
<1>4. bundles'[runs] = p /\ \A n \in 1..MaxWikiRuns : n # runs => bundles'[n] = bundles[n]
  BY <1>1, <1>2
<1>5. run'.step = "unmark" /\ run'.since = run.since /\ LastCommit' = LastCommit
  BY <1>1 DEF Runs, LastCommit
<1>6. run.commit \in 1..LastCommit /\ run.since \in 0..LastCommit
  BY <1>1 DEF RunnerInv, RunnerTypes, WholeInd, RecordsDated, LastCommit
<1>7. RecordsDated'
  BY <1>1, <1>2, <1>3, <1>4, <1>5, <1>6 DEF RecordsDated, WholeInd
<1>8. ASSUME NEW n \in 1..MaxWikiRuns, n # runs PROVE Whole(n)' <=> Whole(n)
  <2>1. bundles'[n] = bundles[n] /\ history' = history
    BY <1>1, <1>4, <1>8
  <2> QED BY <2>1 DEF Whole, Present
<1>9. ASSUME NEW n \in 1..runs, bundles'[n] # Nothing, bundles'[n].since = 0 \/ FromWhole(n)'
      PROVE  Whole(n)'
  <2>0. PICK base : base = bundles'[n].base
    OBVIOUS
  <2>1. CASE n = runs
    <3>1. bundles'[n] = p
      BY <2>1, <1>4
    <3>2. run.since # 0 => /\ ~run.staged /\ base # 0 /\ n = base + 1 /\ bundles'[base].commit = run.since
                           /\ Whole(base)' /\ Present(run.since) \subseteq Present(run.commit)
                           /\ run.changed = Changed(run.since, run.commit)
      BY <2>0, <3>1, <1>1, <1>3, <1>9 DEF FromWhole, Whole, Present, Changed
    <3>3. base = run.base /\ base \in Nat
      BY <2>0, <3>1, <1>1, <1>3 DEF Runs
    <3>4. run.since # 0 => base \in 1..MaxWikiRuns /\ base # runs
      BY <2>1, <3>2, <3>3, <1>2
    <3>5. run.since # 0 => bundles[base].commit = run.since /\ Whole(base)
      BY <3>2, <3>4, <1>4, <1>8
    <3>6. /\ run.listing = Present(run.commit)
          /\ \A f \in run.listing : dirs[Target].pages[f] = history[run.commit][f]
      BY <2>1, <3>2, <3>3, <3>5, <1>1, <1>2, ListsWhole DEF Follows
    <3> QED BY <3>1, <3>6, <1>1, <1>3 DEF Whole, Present
  <2>2. CASE n # runs
    <3>1. n \in 1..MaxWikiRuns /\ bundles'[n] = bundles[n]
      BY <2>2, <1>2, <1>4
    <3>2. bundles[n].since # 0 => FromWhole(n)
      <4>1. bundles[n].since # 0 =>
              /\ ~bundles[n].staged /\ base # 0 /\ n = base + 1 /\ bundles'[base].commit = bundles[n].since
              /\ Whole(base)' /\ Present(bundles[n].since) \subseteq Present(bundles[n].commit)
              /\ bundles[n].changed = Changed(bundles[n].since, bundles[n].commit)
        <5>1. \/ bundles[n].since = 0
              \/ /\ ~bundles'[n].staged /\ bundles'[n].base # 0 /\ n = bundles'[n].base + 1
                 /\ bundles'[base].commit = bundles'[n].since /\ Whole(base)'
                 /\ {f \in Classes : history'[bundles'[n].since][f] # Absent}
                      \subseteq {f \in Classes : history'[bundles'[n].commit][f] # Absent}
                 /\ bundles'[n].changed
                      = {f \in Classes : history'[bundles'[n].since][f] # history'[bundles'[n].commit][f]}
          BY <2>0, <3>1, <1>9 DEF FromWhole, Whole, Present, Changed
        <5> QED BY <2>0, <3>1, <5>1, <1>1 DEF Present, Changed
      <4>2. base = bundles[n].base /\ base \in Nat
        BY <2>0, <3>1, <1>1, <1>9 DEF Records
      <4>3. bundles[n].since # 0 => base \in 1..MaxWikiRuns /\ base # runs
        BY <2>2, <4>1, <4>2, <1>2
      <4>4. bundles[n].since # 0 => bundles[base].commit = bundles[n].since /\ Whole(base)
        BY <4>1, <4>3, <1>4, <1>8
      <4> QED BY <4>1, <4>2, <4>4 DEF FromWhole
    <3> QED BY <3>1, <3>2, <2>2, <1>8, <1>9 DEF WholeInd, RunsWhole
  <2> QED BY <2>1, <2>2
<1>10. RunsWhole'
  BY <1>1, <1>9 DEF RunsWhole
<1>11. LeftWhole' /\ BaseKept' /\ RenderedRight'
  BY <1>5 DEF LeftWhole, BaseKept, RenderedRight, Rendering, Before
<1> QED BY <1>7, <1>10, <1>11 DEF WholeInd

\* Publishing changes nothing else of a record.
LEMMA PublishAgrees ==
  ASSUME RunnerInv, run.step \in After, Publish, NEW n \in 1..MaxWikiRuns PROVE Agree(n)
<1>1. bundles \in [1..MaxWikiRuns -> {Nothing} \cup Records]
  BY DEF RunnerInv, RunnerTypes
<1>2. CASE n = run.number
  <2>1. bundles'[n] = [bundles[n] EXCEPT !.visible = TRUE]
    BY <1>1, <1>2 DEF Publish
  <2>2. bundles[n] \in Records
    BY <1>1, <1>2 DEF RunnerInv, RunUnderWay
  <2>3. bundles'[n] \in Records
    BY <2>1, <2>2 DEF Records
  <2> QED BY <2>1, <2>2, <2>3, NothingAssumption DEF Agree, Records
<1> QED BY <1>1, <1>2 DEF Agree, Publish

\* The wiki directory shown at the end is without a marker, or not of this run.
LEMMA EndsWhole ==
  RunnerInv /\ RunnerInv' /\ WholeInd /\ (RemoveMarker \/ Rotate \/ SwapIn \/ SwapFails \/ RunDies)
    => WholeInd'
<1> SUFFICES ASSUME RunnerInv, RunnerInv', WholeInd, RemoveMarker \/ Rotate \/ SwapIn \/ SwapFails \/ RunDies
             PROVE  WholeInd'
  OBVIOUS
<1>1. run \in Runs /\ UNCHANGED <<history, runs>> /\ run.step # "idle" /\ 0 \in 0..LastCommit
  BY DEF RunnerInv, RunnerTypes, RemoveMarker, Rotate, SwapIn, SwapFails, RunDies
<1>2. IdleRun.step \notin Before /\ IdleRun.since = 0
  BY DEF IdleRun, Before
<1>3. bundles' = bundles => \A n \in 1..MaxWikiRuns : Agree(n)
  BY DEF Agree
<1>4. run.since \in 0..LastCommit
  BY DEF WholeInd, RecordsDated
<1>5. ASSUME StampIn("out")' # 0 => ~dirs'["out"].marker PROVE LeftWhole'
  BY <1>1, <1>5 DEF LeftWhole, RunnerInv, Served
<1>6. CASE RemoveMarker
  <2>1. /\ run.step = "unmark" /\ dirs' = [dirs EXCEPT ![Target].marker = FALSE]
        /\ dirs[Target] \in Bundles
        /\ dirs \in [{"out", "stage", "bak"} -> {Nothing} \cup Bundles]
    BY <1>6, TargetType DEF RemoveMarker, RunnerInv, RunnerTypes, RunUnderWay, Writing
  <2>2. CASE run.staged
    <3>1. run' = [run EXCEPT !.step = "rotate"] /\ bundles' = bundles
      BY <1>6, <2>2 DEF RemoveMarker, Continue
    <3>2. run'.step = "rotate" /\ run'.since = run.since
      BY <1>1, <3>1 DEF Runs
    <3> QED BY <1>1, <1>3, <1>4, <3>1, <3>2, LeavesWhole DEF LeftWhole, Before
  <2>3. CASE ~run.staged
    <3>1. run' = IdleRun /\ Publish
      BY <1>6, <2>3 DEF RemoveMarker, EndRun
    <3>2. ~dirs'["out"].marker
      BY <2>1, <2>3 DEF Target, Bundles
    <3>3. \A n \in 1..MaxWikiRuns : Agree(n)
      BY <2>1, <3>1, PublishAgrees DEF After
    <3> QED BY <1>1, <1>2, <1>5, <3>1, <3>2, <3>3, LeavesWhole
  <2> QED BY <2>2, <2>3
<1>7. CASE Rotate
  <2>1. run' = [run EXCEPT !.step = "swap"] /\ bundles' = bundles
    BY <1>7 DEF Rotate, Continue
  <2>2. run'.step = "swap" /\ run'.since = run.since
    BY <1>1, <2>1 DEF Runs
  <2> QED BY <1>1, <1>3, <1>4, <2>1, <2>2, LeavesWhole DEF LeftWhole, Before
<1>8. CASE SwapIn
  <2>1. run' = IdleRun /\ Publish /\ run.step = "swap" /\ dirs'["out"] = dirs["stage"]
    BY <1>8 DEF SwapIn, EndRun
  <2>2. ~dirs'["out"].marker
    BY <2>1 DEF RunnerInv, RunUnderWay
  <2>3. \A n \in 1..MaxWikiRuns : Agree(n)
    BY <2>1, PublishAgrees DEF After
  <2> QED BY <1>1, <1>2, <1>5, <2>1, <2>2, <2>3, LeavesWhole
<1>9. CASE SwapFails
  <2>1. run' = IdleRun /\ bundles' = bundles /\ run.step = "swap"
        /\ dirs \in [{"out", "stage", "bak"} -> {Nothing} \cup Bundles]
        /\ dirs' = IF dirs["bak"] = Nothing THEN dirs
                   ELSE [dirs EXCEPT !["out"] = dirs["bak"], !["bak"] = Nothing]
    BY <1>9 DEF SwapFails, EndRun, RunnerInv, RunnerTypes
  <2>2. dirs["out"] = Nothing /\ run.staged /\ run.number = runs
    BY <2>1 DEF RunnerInv, RunUnderWay
  <2>3. StampIn("out")' = StampIn("bak")
    <3>1. dirs'["out"] = dirs["bak"]
      BY <2>1, <2>2
    <3> QED BY <3>1 DEF StampIn, ManifestIn
  <2>4. StampIn("bak") # 0 => StampIn("bak") # runs
    BY <2>1, <2>2 DEF RunnerInv, Served, Known, After
  <2>5. LeftWhole'
    BY <1>1, <2>3, <2>4 DEF LeftWhole
  <2> QED BY <1>1, <1>2, <1>3, <2>1, <2>5, LeavesWhole
<1>10. CASE RunDies
  <2>1. run' = IdleRun /\ UNCHANGED <<dirs, bundles>>
    BY <1>10 DEF RunDies, EndRun
  <2>2. LeftWhole'
    BY <1>1, <2>1, StopsLeavingPages DEF LeftWhole, Matches, Listed, StampIn, ManifestIn
  <2> QED BY <1>1, <1>2, <1>3, <2>1, <2>2, LeavesWhole
<1> QED BY <1>6, <1>7, <1>8, <1>9, <1>10

\* Requests are of no account.
LEMMA WholeIdles == RunnerInv /\ WholeInd /\ UNCHANGED runnerVars => WholeInd'
<1> SUFFICES ASSUME RunnerInv, WholeInd, UNCHANGED runnerVars PROVE WholeInd'
  OBVIOUS
<1>1. UNCHANGED <<history, dirs, run, runs, bundles>>
  BY DEF runnerVars
<1>2. RecordsDated' /\ RunsWhole'
  BY <1>1, RecordsWait DEF WholeInd, RecordsDated, RunnerInv, RunnerTypes
<1>3. Rendered' = Rendered /\ Affected' = Affected
  BY <1>1, SameRendering
<1>4. Target' = Target /\ \A d : StampIn(d)' = StampIn(d) /\ ManifestIn(d)' = ManifestIn(d)
  BY <1>1 DEF Target, StampIn, ManifestIn
<1>5. LeftWhole'
  BY <1>1, <1>4 DEF WholeInd, LeftWhole, Matches, Listed
<1>6. BaseKept'
  BY <1>1, <1>3, <1>4 DEF WholeInd, BaseKept, Follows
<1>7. Merged' = Merged
  BY <1>1, <1>3, <1>4 DEF Merged
<1>8. RenderedRight'
  BY <1>1, <1>3, <1>4, <1>7 DEF WholeInd, RenderedRight
<1> QED BY <1>2, <1>5, <1>6, <1>8 DEF WholeInd

LEMMA WholeStep == WikiInd /\ WikiInd' /\ WholeInd /\ [WikiNext]_wikiVars => WholeInd'
<1> SUFFICES ASSUME RunnerInv, RunnerInv', WholeInd, [WikiNext]_wikiVars PROVE WholeInd'
  BY DEF WikiInd
<1>1. CASE Commit \/ Generate
  BY <1>1, CommitsWhole, StartsWhole, MarksWhole, WritesWhole, RendersWhole, RecordsWhole, EndsWhole
     DEF Generate
<1>2. ASSUME NEW r \in WikiReaders, Request(r) PROVE UNCHANGED runnerVars
  BY <1>2 DEF Request, CheckMarker, ProbeManifest, PassGate, StatManifest, ReadManifest,
              ReadBody, VerifyIndex, ReadPage, AnswerRequest, ReadListing, AnswerListing, EndRequest
<1>3. EvictIndex \/ UNCHANGED wikiVars => UNCHANGED runnerVars
  BY DEF EvictIndex, wikiVars, runnerVars
<1> QED BY <1>1, <1>2, <1>3, WholeIdles DEF WikiNext

LEMMA WholeInit == WikiInit => WholeInd
<1> SUFFICES ASSUME WikiInit PROVE WholeInd
  OBVIOUS
<1>1. LastCommit = 1 /\ run = IdleRun /\ runs = 0
  BY DEF WikiInit, LastCommit
<1>2. run.since = 0 /\ run.step = "idle"
  BY <1>1 DEF IdleRun
<1> QED BY <1>1, <1>2 DEF WholeInd, RecordsDated, LeftWhole, BaseKept, RenderedRight, RunsWhole,
                          Rendering, Before

\* Whatever runs die and whatever is committed, a full run writes a page for
\* every class with the text of its commit, and so does a --since run in place
\* over the whole wiki that the run before it wrote, of the commit it names, if
\* no file is gone since (generate_wiki and its merge of the previous manifest).
THEOREM WikiRunsWhole == WikiSpec => []RunsWhole
<1>1. WikiInit => WikiInd /\ WholeInd
  BY WikiIndInit, WholeInit
<1>2. WikiInd /\ WholeInd /\ [WikiNext]_wikiVars => WikiInd' /\ WholeInd'
  BY WikiIndStep, WholeStep
<1>3. WholeInd => RunsWhole
  BY DEF WholeInd
<1> QED BY <1>1, <1>2, <1>3, PTL DEF WikiSpec
=============================================================================
