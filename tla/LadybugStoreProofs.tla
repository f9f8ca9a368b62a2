-------------------------- MODULE LadybugStoreProofs --------------------------
(***************************************************************************)
(* One graph key of the embedded store, for any number of replacement      *)
(* loads and readers, failures and deaths after any step, and collections  *)
(* by anybody at any time: CURRENT names a whole version, a query answers  *)
(* with a graph that was live while it ran, and from outside every         *)
(* replacement is one step, until a swallowed failure leads the key        *)
(* astray.  The invariant has a part that holds for ever, Base, and one    *)
(* that holds until then, Healthy.                                         *)
(***************************************************************************)
EXTENDS LadybugStore, FiniteSetTheorems, WellFoundedInduction, TLAPS

USE StoreAssumption

-----------------------------------------------------------------------------
(* The inductive invariant *)

\* An attempt before its flip.
Unpublished == {"idle", "load", "number", "move"}

\* Replacement loads follow each other.
OneByOne ==
  \A a, b \in Attempts :
    attempt[a].pc \notin Quiet /\ attempt[b].pc \notin Quiet => a = b

\* Modification times count the databases closed so far, and the latest is that
\* of the attempt that has not published yet.
Closed == {a \in Attempts : build[a].mtime # 0}
Dated ==
  /\ clock.now = Cardinality(Closed)
  /\ clock.old =< clock.now
  /\ \A a \in Attempts :
       /\ build[a].mtime =< clock.now
       /\ attempt[a].pc \in {"idle", "load"} => build[a].mtime = 0
       /\ attempt[a].pc \in {"number", "move"} => build[a].mtime = clock.now /\ clock.now > 0

\* Version numbers stay behind modification times.
Behind ==
  /\ \A v \in Versions : Exists(v) =>
       v =< clock.now /\ \A a \in Attempts : At(a, "number") => v < clock.now
  /\ \A a \in Attempts : At(a, "move") =>
       attempt[a].version \in Versions /\ attempt[a].version =< clock.now

\* An open is tried only while there are tries left.
Trying == \A r \in Readers : reader[r].pc = "open" => reader[r].tries < OpenTries

\* Modification times increase with version numbers.
Built ==
  \A v \in Versions :
    /\ MaxVersion < v => file[v] = Absent
    /\ Exists(v) =>
         /\ file[v].build \in Attempts
         /\ attempt[file[v].build].pc \notin {"idle", "load", "number"}
         /\ \A w \in Versions : Exists(w) /\ v < w => Mtime(v) =< Mtime(w)

\* What an attempt moves is complete and gets a number above all others.
Moving ==
  \A a \in Attempts :
    /\ attempt[a].pc \in {"number", "move", "flipped", "sweep"} => build[a].loaded = ArtifactSets
    /\ At(a, "number") => staged[a] = {"main"} \cup (IF build[a].wal THEN {"wal"} ELSE {})
    /\ At(a, "move") =>
         /\ "main" \in staged[a] =>
              /\ MaxVersion < attempt[a].version
              /\ staged[a] = {"main"} \cup (IF build[a].wal THEN {"wal"} ELSE {})
         /\ "main" \notin staged[a] =>
              /\ Exists(attempt[a].version)
              /\ file[attempt[a].version].build = a
              /\ MaxVersion = attempt[a].version
              /\ current < attempt[a].version
              /\ build[a].wal => "wal" \in file[attempt[a].version].parts \cup staged[a]

\* No collection has doomed the latest version or the one CURRENT names, and
\* one that has read an older CURRENT finds the present one to be the latest.
Spared ==
  /\ \A v \in pending : v < MaxVersion /\ v # current
  /\ \A x \in Actors : \A v \in sweep[x].doomed : v < MaxVersion /\ v # current
  /\ \A x \in Actors :
       sweep[x].pc = "list" /\ ~sweep[x].blind /\ sweep[x].current # current =>
         /\ current = MaxVersion
         /\ \A a \in Attempts : attempt[a].pc \notin {"load", "number", "move"}

Published == current # NoVersion => attempt[file[current].build].pc \notin Unpublished

\* A number is never used again: what a reader has open or is about to open is,
\* if it is still there, what it was.
Opened ==
  \A r \in Readers :
    /\ reader[r].handle.version =< MaxVersion
    /\ reader[r].handle.version # NoVersion /\ Exists(reader[r].handle.version) =>
         file[reader[r].handle.version].build = reader[r].handle.build
    /\ reader[r].pc \in {"choose", "open"} => current # NoVersion
    /\ reader[r].pc = "open" =>
         /\ reader[r].version # NoVersion
         /\ reader[r].version =< MaxVersion
         /\ Exists(reader[r].version) => file[reader[r].version].build \in reader[r].seen

\* What was live since a query began, and that every try that found its
\* version gone has seen another one go live.
Witnessed ==
  \A r \in Readers :
    /\ reader[r].pc # "idle" => Live \in reader[r].seen
    /\ \A g \in reader[r].seen : g # NoGraph => attempt[g].pc \notin Unpublished
    /\ reader[r].pc \in {"idle", "answered"} => reader[r].tries = 0 /\ ~reader[r].failed
    /\ reader[r].pc \in {"sweep", "choose", "open"} /\ ~reader[r].failed /\ ~reader[r].blind =>
         reader[r].tries < Cardinality(reader[r].seen)
    /\ /\ reader[r].pc = "open" /\ ~reader[r].failed /\ ~reader[r].blind
       /\ reader[r].version # current
       => reader[r].tries + 1 < Cardinality(reader[r].seen)

Base == TypeOK /\ OneByOne /\ Dated /\ Behind /\ Trying /\ NoStagingLeft

Healthy ==
  /\ ~astray
  /\ Built /\ Moving /\ CurrentIsWhole /\ Published /\ Spared /\ Opened /\ Witnessed
  /\ AnswersLive

StoreInd == Base /\ (~astray => Healthy)

-----------------------------------------------------------------------------
(* Numbers *)

LEMMA Counts == Cardinality(Attempts) \in Nat /\ Versions \subseteq Nat
BY FS_CardinalityType DEF Versions

LEMMA LeastExists ==
  ASSUME NEW S, S \subseteq Nat, S # {}
  PROVE  \E m \in S : \A n \in S : m =< n
<1> DEFINE R == {p \in Nat \X Nat : p[1] < p[2]}
<1>1. IsWellFoundedOn(R, Nat)
  <2>1. R = OpToRel(<, Nat)
    BY DEF OpToRel
  <2> QED BY <2>1, NatLessThanWellFounded
<1> HIDE DEF R
<1>2. PICK m \in S : \A n \in S : ~ (<<n, m>> \in R)
  BY <1>1, WFMin
<1>3. \A n \in S : ~ (n < m)
  BY <1>2 DEF R
<1> QED BY <1>3

\* The highest version of a set of them, 0 if there is none.
LEMMA Highest ==
  ASSUME NEW S, S \subseteq Versions
  PROVE  /\ Max(S \cup {NoVersion}) \in S \cup {NoVersion}
         /\ Max(S \cup {NoVersion}) \in Nat
         /\ \A v \in S : v =< Max(S \cup {NoVersion})
<1> DEFINE T == S \cup {NoVersion}
           n == Cardinality(Attempts)
           Above == {u \in 0 .. n : \A v \in T : v =< u}
<1>1. n \in Nat /\ T \subseteq 0 .. n
  BY Counts DEF Versions, NoVersion
<1>2. n \in Above
  BY <1>1
<1>3. Above \subseteq Nat
  BY <1>1
<1> HIDE DEF Above
<1>4. PICK m \in Above : \A u \in Above : m =< u
  BY <1>2, <1>3, LeastExists
<1>5. m \in 0 .. n /\ \A v \in T : v =< m
  BY <1>4 DEF Above
<1>6. m \in T
  <2> SUFFICES ASSUME m \notin T PROVE FALSE
    OBVIOUS
  <2>1. m # 0
    BY DEF NoVersion
  <2>2. \A v \in T : v =< m - 1
    BY <1>1, <1>5
  <2>3. m - 1 \in Above
    BY <1>1, <1>5, <2>1, <2>2 DEF Above
  <2> QED BY <1>4, <1>5, <2>3, <1>1
<1>7. Max(T) \in T /\ \A v \in T : Max(T) >= v
  <2> HIDE DEF T
  <2>1. \E x \in T : \A v \in T : x >= v
    BY <1>1, <1>5, <1>6
  <2> QED BY <2>1 DEF Max
<1> QED BY <1>1, <1>7, Counts

LEMMA MaxVersionIs ==
  /\ MaxVersion \in Nat
  /\ MaxVersion # NoVersion => \E v \in Versions : v = MaxVersion /\ Exists(v)
  /\ \A v \in Versions : Exists(v) => v =< MaxVersion
<1>1. OnDisk \subseteq Versions
  BY DEF OnDisk
<1> QED BY <1>1, Highest DEF MaxVersion, OnDisk

LEMMA MaxVersionWillBe ==
  /\ MaxVersion' \in Nat
  /\ MaxVersion' # NoVersion => \E v \in Versions : v = MaxVersion' /\ Exists(v)'
  /\ \A v \in Versions : Exists(v)' => v =< MaxVersion'
<1>1. OnDisk' \subseteq Versions
  BY DEF OnDisk
<1> QED BY <1>1, Highest DEF MaxVersion, OnDisk

-----------------------------------------------------------------------------
(* What a step does to the version files *)

LEMMA SameDisk ==
  ASSUME file' = file
  PROVE  /\ MaxVersion' = MaxVersion
         /\ \A v : Exists(v)' <=> Exists(v)
BY DEF MaxVersion, OnDisk, Exists

\* Deletions and listings, undisturbed or not.
Deletes(x) == SweepDelete(x) \/ SweepDeletePartly(x)
Lists(x) == SweepList(x) \/ SweepListPartly(x)

LEMMA CurrentExists ==
  ASSUME Base, Healthy
  PROVE  /\ current \in Nat /\ current =< MaxVersion
         /\ current # NoVersion =>
              current \in Versions /\ Exists(current) /\ file[current].build \in Attempts
<1>1. current \in Versions \cup {NoVersion}
  BY DEF Base, TypeOK, VersionOrNone
<1>2. current # NoVersion => Exists(current) /\ file[current].build \in Attempts
  BY <1>1 DEF Healthy, CurrentIsWhole, Whole, Built
<1> QED BY <1>1, <1>2, Counts, MaxVersionIs DEF NoVersion

\* The main file of an attempt takes a number above all others.
LEMMA MainMoved ==
  ASSUME Base, Healthy, NEW a \in Attempts, MoveMain(a)
  PROVE  \E v \in Versions :
           /\ v = attempt[a].version
           /\ MaxVersion < v /\ current < v
           /\ \A w \in Versions : w # v => file'[w] = file[w] /\ (Exists(w)' <=> Exists(w))
           /\ file'[v] = [build |-> a, parts |-> {"main"}]
           /\ Exists(v)' /\ ~Exists(v)
           /\ MaxVersion' = v
           /\ reader' = reader
<1>1. PICK v \in Versions : v = attempt[a].version /\ MaxVersion < v
  BY DEF Base, Behind, Healthy, Moving, MoveMain
<1>2. v \in Nat /\ v # NoVersion
  BY Counts DEF Versions, NoVersion
<1>3. MaxVersion \in Nat
  BY MaxVersionIs
<1>4. current < v /\ v # current
  BY <1>1, <1>2, <1>3, CurrentExists
<1>5. ~Exists(v) /\ file[v] = Absent
  <2>1. ~Exists(v)
    BY <1>1, <1>2, <1>3, MaxVersionIs
  <2> QED BY <1>1, <2>1 DEF Healthy, Built
<1>6. file' = [file EXCEPT ![v] = [build |-> a, parts |-> @.parts \cup {"main"}]] /\ reader' = reader
  BY <1>1, <1>4 DEF MoveMain
<1>7. file \in [Versions -> [build : BuildOrNone, parts : SUBSET {"main", "wal"}]]
  BY DEF Base, TypeOK
<1>8. /\ \A w \in Versions : w # v => file'[w] = file[w]
      /\ file'[v] = [build |-> a, parts |-> {"main"}]
  <2>1. file[v].parts = {}
    BY <1>5 DEF Absent
  <2>2. file'[v] = [build |-> a, parts |-> file[v].parts \cup {"main"}]
    BY <1>6, <1>7
  <2> QED BY <2>1, <2>2, <1>6, <1>7
<1>9. \A w \in Versions : w # v => (Exists(w)' <=> Exists(w))
  BY <1>8 DEF Exists
<1>10. Exists(v)'
  BY <1>8, <1>2 DEF Exists
<1>11. MaxVersion' = v
  <2>1. v =< MaxVersion' /\ MaxVersion' \in Nat
    BY <1>10, MaxVersionWillBe
  <2>2. ASSUME MaxVersion' # v PROVE FALSE
    <3>1. MaxVersion' # NoVersion
      BY <2>1, <1>1, <1>2, <1>3 DEF NoVersion
    <3>2. PICK w \in Versions : w = MaxVersion' /\ Exists(w)'
      BY <3>1, MaxVersionWillBe
    <3>3. w =< MaxVersion
      BY <3>2, <2>2, <1>9, MaxVersionIs
    <3> QED BY <3>2, <3>3, <2>1, <1>1, <1>2, <1>3
  <2> QED BY <2>2
<1> QED BY <1>1, <1>4, <1>5, <1>6, <1>8, <1>9, <1>10, <1>11

\* The log follows it.
LEMMA LogMoved ==
  ASSUME Base, Healthy, NEW a \in Attempts, MoveLog(a)
  PROVE  \E v \in Versions :
           /\ v = attempt[a].version
           /\ current < v
           /\ \A w \in Versions :
                /\ w # v => file'[w] = file[w]
                /\ Exists(w)' <=> Exists(w)
                /\ file'[w].build = file[w].build
           /\ file'[v].parts = file[v].parts \cup {"wal"}
           /\ Exists(v)
           /\ MaxVersion' = MaxVersion
<1>1. "main" \notin staged[a]
  BY DEF MoveLog
<1>2. PICK v \in Versions : v = attempt[a].version /\ current < v /\ Exists(v)
  BY <1>1 DEF Base, Behind, Healthy, Moving, MoveLog
<1>3. file \in [Versions -> [build : BuildOrNone, parts : SUBSET {"main", "wal"}]]
  BY DEF Base, TypeOK
<1>4. file' = [file EXCEPT ![v].parts = @ \cup {"wal"}]
  BY <1>2 DEF MoveLog
<1>5. /\ \A w \in Versions : w # v => file'[w] = file[w]
      /\ file'[v].parts = file[v].parts \cup {"wal"}
      /\ file'[v].build = file[v].build
  BY <1>2, <1>3, <1>4
<1>6. \A w \in Versions : (Exists(w)' <=> Exists(w)) /\ file'[w].build = file[w].build
  BY <1>5 DEF Exists
<1>7. OnDisk' = OnDisk
  BY <1>6 DEF OnDisk
<1>8. MaxVersion' = MaxVersion
  BY <1>7 DEF MaxVersion
<1> QED BY <1>2, <1>5, <1>6, <1>8

\* What a deletion does to the files, whatever it leaves behind.
Removed(x, gone, bare) ==
  /\ gone \subseteq sweep[x].doomed
  /\ \A v \in bare : v \in gone /\ "wal" \in file[v].parts
  /\ file' = [v \in Versions |-> IF v \in bare THEN Bare ELSE IF v \in gone THEN Absent ELSE file[v]]
  /\ reader' = IF current \in gone THEN Witness(reader, NoGraph) ELSE reader
  /\ pending' \subseteq sweep[x].doomed \cup pending

LEMMA Removes ==
  ASSUME NEW x \in Actors, Deletes(x)
  PROVE  /\ \E gone, bare : Removed(x, gone, bare)
         /\ current' = current
<1>1. CASE SweepDelete(x)
  <2>1. PICK resist \in {{}, {v \in sweep[x].doomed : Held(v)}} :
          Delete(sweep[x].doomed \ resist, {}) /\ pending' = resist
    BY <1>1 DEF SweepDelete
  <2>2. Removed(x, sweep[x].doomed \ resist, {})
    BY <2>1 DEF Delete, Removed
  <2> QED BY <1>1, <2>2 DEF SweepDelete
<1>2. CASE SweepDeletePartly(x)
  <2>1. PICK stuck \in SUBSET (sweep[x].doomed \cap OnDisk) :
          \E bare \in SUBSET {v \in sweep[x].doomed \ stuck : "wal" \in file[v].parts} :
            /\ Delete(sweep[x].doomed \ stuck, bare)
            /\ pending' \in {stuck, stuck \cup bare, pending}
    BY <1>2 DEF SweepDeletePartly
  <2>2. PICK bare \in SUBSET {v \in sweep[x].doomed \ stuck : "wal" \in file[v].parts} :
            /\ Delete(sweep[x].doomed \ stuck, bare)
            /\ pending' \in {stuck, stuck \cup bare, pending}
    BY <2>1
  <2>3. Removed(x, sweep[x].doomed \ stuck, bare)
    BY <2>2 DEF Delete, Removed
  <2> QED BY <1>2, <2>3 DEF SweepDeletePartly
<1> QED BY <1>1, <1>2 DEF Deletes

\* A collection removes versions, none of them the latest or the one CURRENT
\* names.
LEMMA Collected ==
  ASSUME Base, Healthy, NEW x \in Actors, Deletes(x)
  PROVE  /\ \A v \in Versions : Exists(v)' => Exists(v) /\ file'[v] = file[v]
         /\ \A v \in Versions : file[v] = Absent => file'[v] = Absent
         /\ current # NoVersion => file'[current] = file[current] /\ Exists(current)'
         /\ MaxVersion' = MaxVersion
         /\ \A v \in Versions : v = MaxVersion => file'[v] = file[v]
         /\ pending' \subseteq sweep[x].doomed \cup pending
         /\ reader' = reader
<1>1. PICK gone, bare : Removed(x, gone, bare)
  BY Removes
<1>2. \A v \in Versions : file'[v] = file[v] \/ file'[v] = Absent \/ file'[v] = Bare
  BY <1>1 DEF Removed
<1>3. \A v \in Versions : v \notin sweep[x].doomed => file'[v] = file[v]
  BY <1>1 DEF Removed
<1>4. \A v \in Versions : Exists(v)' => Exists(v) /\ file'[v] = file[v]
  BY <1>2 DEF Exists, Absent, Bare
<1>5. current \notin sweep[x].doomed /\ MaxVersion \notin sweep[x].doomed
  BY MaxVersionIs DEF Healthy, Spared
<1>6. current # NoVersion => file'[current] = file[current] /\ Exists(current)'
  BY <1>3, <1>5, Removes, CurrentExists DEF Exists
<1>7. MaxVersion' = MaxVersion
  <2>1. ASSUME MaxVersion # NoVersion PROVE MaxVersion =< MaxVersion'
    <3>1. PICK w \in Versions : w = MaxVersion /\ Exists(w)
      BY <2>1, MaxVersionIs
    <3>2. Exists(w)'
      BY <3>1, <1>3, <1>5 DEF Exists
    <3> QED BY <3>1, <3>2, MaxVersionWillBe
  <2>2. ASSUME MaxVersion' # NoVersion PROVE MaxVersion' =< MaxVersion
    <3>1. PICK w \in Versions : w = MaxVersion' /\ Exists(w)'
      BY <2>2, MaxVersionWillBe
    <3> QED BY <3>1, <1>4, MaxVersionIs
  <2> QED BY <2>1, <2>2, MaxVersionIs, MaxVersionWillBe DEF NoVersion
<1>8. \A v \in Versions : file[v] = Absent => file'[v] = Absent
  BY <1>1 DEF Removed, Absent
<1>9. reader' = reader /\ pending' \subseteq sweep[x].doomed \cup pending
  BY <1>1, <1>5 DEF Removed
<1> QED BY <1>3, <1>4, <1>5, <1>6, <1>7, <1>8, <1>9
-----------------------------------------------------------------------------
(* Types *)

Pcs == {"load", "number", "move", "flipped", "sweep", "failing"} \cup Quiet
AttemptRecords == [pc : Pcs, version : VersionOrNone, warned : BOOLEAN]
BuildRecords == [loaded : SUBSET ArtifactSets, wal : BOOLEAN, mtime : 0 .. Cardinality(Attempts)]
ReaderRecords ==
  [pc : {"idle", "sweep", "choose", "open", "answered"},
   handle : [version : VersionOrNone, build : BuildOrNone], version : VersionOrNone,
   tries : 0 .. OpenTries, failed : BOOLEAN, blind : BOOLEAN, seen : SUBSET BuildOrNone,
   answer : BuildOrNone \cup {Error}]
SweepRecords ==
  [pc : {"off", "list", "delete"}, current : VersionOrNone, blind : BOOLEAN,
   doomed : SUBSET Versions]

LEMMA Types ==
  ASSUME TypeOK
  PROVE  /\ file \in [Versions -> [build : BuildOrNone, parts : SUBSET {"main", "wal"}]]
         /\ current \in VersionOrNone
         /\ pending \subseteq Versions
         /\ build \in [Attempts -> BuildRecords]
         /\ staged \in [Attempts -> SUBSET {"main", "wal"}]
         /\ attempt \in [Attempts -> AttemptRecords]
         /\ reader \in [Readers -> ReaderRecords]
         /\ sweep \in [Actors -> SweepRecords]
         /\ clock \in [now : 0 .. Cardinality(Attempts), old : 0 .. Cardinality(Attempts)]
BY DEF TypeOK, Pcs, AttemptRecords, BuildRecords, ReaderRecords, SweepRecords

\* A load that ends, and whether it could clean up.
Cleans(a) == Cleanup(a) \/ CleanupFails(a)

\* What each step changes.
LEMMA Changes ==
  ASSUME [Next]_vars
  PROVE  /\ \/ file' = file
            \/ \E a \in Attempts : MoveMain(a) \/ MoveLog(a)
            \/ \E x \in Actors : Deletes(x)
         /\ current' = current \/ \E a \in Attempts : Flip(a)
         /\ pending' = pending \/ \E x \in Actors : Deletes(x)
         /\ build' = build \/ \E a \in Attempts : Load(a) \/ Close(a)
         /\ \/ staged' = staged
            \/ \E a \in Attempts : Load(a) \/ Close(a) \/ MoveMain(a) \/ MoveLog(a) \/ Cleans(a)
         /\ \/ attempt' = attempt
            \/ \E a \in Attempts : \/ Begin(a) \/ Close(a) \/ Number(a) \/ Flip(a)
                                   \/ SweepAfterFlip(a) \/ Fails(a) \/ Cleans(a) \/ Die(a)
         /\ \/ reader' = reader
            \/ \E a \in Attempts : MoveMain(a) \/ Flip(a)
            \/ \E x \in Actors : Deletes(x)
            \/ \E r \in Readers : Reading(r)
         /\ \/ sweep' = sweep
            \/ \E a \in Attempts : SweepAfterFlip(a) \/ Die(a)
            \/ \E r \in Readers : Query(r) \/ CloseStore(r)
            \/ \E x \in Actors : Lists(x) \/ Deletes(x)
         /\ clock' = clock \/ TimePasses \/ \E a \in Attempts : Close(a)
         /\ failures' = failures \/ Failure
         /\ \/ astray' = astray
            \/ \E a \in Attempts : Number(a) \/ Flip(a)
            \/ \E x \in Actors : Lists(x)
<1>1. ASSUME NEW a \in Attempts, Replacement(a)
      PROVE  /\ file' = file \/ MoveMain(a) \/ MoveLog(a)
             /\ current' = current \/ Flip(a)
             /\ pending' = pending
             /\ build' = build \/ Load(a) \/ Close(a)
             /\ staged' = staged \/ Load(a) \/ Close(a) \/ MoveMain(a) \/ MoveLog(a) \/ Cleans(a)
             /\ attempt' = attempt \/ Begin(a) \/ Close(a) \/ Number(a) \/ Flip(a)
                                   \/ SweepAfterFlip(a) \/ Fails(a) \/ Cleans(a) \/ Die(a)
             /\ reader' = reader \/ MoveMain(a) \/ Flip(a)
             /\ sweep' = sweep \/ SweepAfterFlip(a) \/ Die(a)
             /\ clock' = clock \/ Close(a)
             /\ failures' = failures \/ Failure
             /\ astray' = astray \/ Number(a) \/ Flip(a)
  <2>1. CASE Begin(a)
    BY <2>1 DEF Begin, faults
  <2>2. CASE Load(a)
    BY <2>2 DEF Load, faults
  <2>3. CASE Close(a)
    BY <2>3 DEF Close, faults
  <2>4. CASE Number(a)
    BY <2>4 DEF Number, faults
  <2>5. CASE MoveMain(a)
    BY <2>5 DEF MoveMain, faults
  <2>6. CASE MoveLog(a)
    BY <2>6 DEF MoveLog, faults
  <2>7. CASE Flip(a)
    BY <2>7 DEF Flip, faults
  <2>8. CASE SweepAfterFlip(a)
    BY <2>8 DEF SweepAfterFlip, StartSweep
  <2>9. CASE Fails(a)
    BY <2>9 DEF Fails, faults
  <2>10. CASE Cleans(a)
    BY <2>10 DEF Cleans, Cleanup, CleanupFails, faults
  <2>11. CASE Die(a)
    BY <2>11 DEF Die, faults
  <2> QED BY <1>1, <2>1, <2>2, <2>3, <2>4, <2>5, <2>6, <2>7, <2>8, <2>9, <2>10, <2>11
          DEF Replacement, Publish, Cleans
<1>2. ASSUME NEW r \in Readers, Reading(r)
      PROVE  /\ UNCHANGED <<file, current, pending, build, staged, attempt, clock, astray>>
             /\ sweep' = sweep \/ Query(r) \/ CloseStore(r)
             /\ failures' = failures \/ Failure
  <2>1. CASE Query(r) \/ CloseStore(r)
    BY <2>1 DEF Query, CloseStore, StartSweep
  <2>2. CASE Look(r) \/ Choose(r)
    BY <2>2 DEF Look, Choose, Misread
  <2>3. CASE Open(r) \/ OpenFails(r) \/ GiveUp(r) \/ Return(r)
    BY <2>3 DEF Open, OpenFails, GiveUp, Return, faults
  <2> QED BY <1>2, <2>1, <2>2, <2>3 DEF Reading
<1>3. ASSUME NEW x \in Actors, Sweeping(x)
      PROVE  /\ UNCHANGED <<current, build, staged, attempt, clock>>
             /\ \/ Deletes(x) /\ astray' = astray
                \/ Lists(x) /\ UNCHANGED <<file, pending, reader>>
             /\ failures' = failures \/ Failure
  <2>1. CASE SweepList(x) \/ SweepListPartly(x)
    BY <2>1 DEF SweepList, SweepListPartly, Lists
  <2>2. CASE SweepDelete(x) \/ SweepDeletePartly(x)
    BY <2>2 DEF SweepDelete, SweepDeletePartly, Deletes, faults
  <2> QED BY <1>3, <2>1, <2>2 DEF Sweeping
<1>4. ASSUME TimePasses
      PROVE  UNCHANGED <<file, current, pending, build, staged, attempt, reader, sweep, failures, astray>>
  BY <1>4 DEF TimePasses, faults
<1>5. ASSUME UNCHANGED vars
      PROVE  UNCHANGED <<file, current, pending, build, staged, attempt, reader, sweep, clock,
                         failures, astray>>
  BY <1>5 DEF vars
<1> QED BY <1>1, <1>2, <1>3, <1>4, <1>5 DEF Next

\* What has gone astray stays astray.
LEMMA StaysAstray ==
  ASSUME Base, [Next]_vars
  PROVE  (astray => astray') /\ astray' \in BOOLEAN
<1>1. astray \in BOOLEAN
  BY DEF Base, TypeOK
<1>2. ASSUME NEW a \in Attempts, Number(a) \/ Flip(a)
      PROVE  astray' = astray \/ astray' = TRUE
  BY <1>2 DEF Number, Flip, faults
<1>3. ASSUME NEW x \in Actors, Lists(x)
      PROVE  (astray => astray') /\ astray' \in BOOLEAN
  BY <1>1, <1>3 DEF Lists, SweepList, SweepListPartly, Unpinned
<1> QED BY <1>1, <1>2, <1>3, Changes
-----------------------------------------------------------------------------
(* What a step does to an attempt *)

LEMMA Goes ==
  ASSUME TypeOK, NEW a \in Attempts, NEW pc \in Pcs, Go(a, pc)
  PROVE  /\ attempt' \in [Attempts -> AttemptRecords]
         /\ attempt'[a].pc = pc /\ attempt'[a].version = attempt[a].version
         /\ \A b \in Attempts : b # a => attempt'[b] = attempt[b]
<1>1. attempt \in [Attempts -> AttemptRecords]
  BY Types
<1> QED BY <1>1 DEF AttemptRecords, Go

LEMMA Ends ==
  ASSUME TypeOK, NEW a \in Attempts, NEW pc \in Pcs, End(a, pc)
  PROVE  /\ attempt' \in [Attempts -> AttemptRecords]
         /\ attempt'[a].pc = pc /\ attempt'[a].warned = attempt[a].warned
         /\ \A b \in Attempts : b # a => attempt'[b] = attempt[b]
<1>1. attempt \in [Attempts -> AttemptRecords]
  BY Types
<1>2. NoVersion \in VersionOrNone
  BY DEF VersionOrNone
<1> QED BY <1>1, <1>2 DEF AttemptRecords, End

\* There is a number for every attempt, and unless the listing is incomplete it
\* is above all others.
LEMMA Numbered ==
  ASSUME Base, NEW a \in Attempts, Number(a)
  PROVE  /\ attempt' \in [Attempts -> AttemptRecords]
         /\ attempt'[a].pc = "move"
         /\ attempt'[a].version \in Versions /\ attempt'[a].version =< clock.now
         /\ \A b \in Attempts : b # a => attempt'[b] = attempt[b]
         /\ ~astray' => attempt'[a].version = MaxVersion + 1
<1>1. attempt \in [Attempts -> AttemptRecords] /\ clock.now \in 0 .. Cardinality(Attempts)
  BY Types DEF Base
<1>2. PICK seen \in OnDisk \cup {NoVersion} :
        /\ attempt' = [attempt EXCEPT ![a].pc = "move", ![a].version = seen + 1]
        /\ seen = MaxVersion \/ astray' = TRUE
  BY DEF Number
<1>3. seen \in Nat /\ seen < clock.now
  <2>1. CASE seen \in OnDisk
    <3>1. seen \in Versions /\ Exists(seen) /\ At(a, "number")
      BY <2>1 DEF OnDisk, Number
    <3>2. seen < clock.now
      BY <3>1 DEF Base, Behind
    <3> QED BY <3>1, <3>2, Counts
  <2>2. CASE seen = NoVersion
    <3>1. clock.now > 0
      BY DEF Base, Dated, Number, At
    <3> QED BY <2>2, <3>1 DEF NoVersion
  <2> QED BY <1>2, <2>1, <2>2
<1>4. seen + 1 \in Versions /\ seen + 1 =< clock.now
  BY <1>1, <1>3, Counts DEF Versions
<1>5. attempt'[a].version = seen + 1
  BY <1>1, <1>2 DEF AttemptRecords
<1> QED BY <1>1, <1>2, <1>4, <1>5 DEF AttemptRecords, VersionOrNone, Pcs

\* A load ends, and says so if it could not drop its staging graph.
LEMMA Cleaned ==
  ASSUME TypeOK, NEW a \in Attempts, Cleans(a)
  PROVE  /\ attempt' \in [Attempts -> AttemptRecords]
         /\ attempt'[a].pc = Verdict(a)
         /\ attempt[a].pc \in {"failing", "sweep"}
         /\ CleanupFails(a) => attempt'[a].warned
         /\ \A b \in Attempts : b # a => attempt'[b] = attempt[b]
<1>1. Over(a) /\ Verdict(a) \in Pcs
  BY DEF Cleans, Cleanup, CleanupFails, Verdict, Pcs, Quiet
<1>2. attempt[a].pc \in {"failing", "sweep"}
  BY <1>1 DEF Over, At
<1>3. CASE Cleanup(a) /\ ~CleanupFails(a)
  BY <1>1, <1>2, <1>3, Ends DEF Cleanup
<1>4. CASE CleanupFails(a)
  <2>1. attempt \in [Attempts -> AttemptRecords] /\ NoVersion \in VersionOrNone
    BY Types DEF VersionOrNone
  <2>2. attempt' = [attempt EXCEPT ![a].pc = Verdict(a), ![a].version = NoVersion,
                                   ![a].warned = TRUE]
    BY <1>4 DEF CleanupFails
  <2>3. PICK f : f = [attempt EXCEPT ![a].pc = Verdict(a), ![a].version = NoVersion]
    OBVIOUS
  <2>4. f \in [Attempts -> AttemptRecords]
        /\ f[a].pc = Verdict(a) /\ \A b \in Attempts : b # a => f[b] = attempt[b]
    BY <1>1, <2>1, <2>3 DEF AttemptRecords
  <2>5. attempt' = [f EXCEPT ![a].warned = TRUE]
    BY <2>2, <2>3, Zenon
  <2> QED BY <1>2, <2>4, <2>5 DEF AttemptRecords
<1> QED BY <1>3, <1>4 DEF Cleans

LEMMA AttemptSteps ==
  ASSUME Base, [Next]_vars
  PROVE  /\ attempt' \in [Attempts -> AttemptRecords]
         /\ \/ attempt' = attempt
            \/ \E a \in Attempts :
                 /\ \A b \in Attempts : b # a => attempt'[b] = attempt[b]
                 /\ \/ Begin(a) /\ attempt[a].pc = "idle" /\ attempt'[a].pc = "load"
                    \/ Close(a) /\ attempt[a].pc = "load" /\ attempt'[a].pc = "number"
                    \/ Number(a) /\ attempt[a].pc = "number" /\ attempt'[a].pc = "move"
                    \/ Flip(a) /\ attempt[a].pc = "move" /\ attempt'[a].pc = "flipped"
                    \/ SweepAfterFlip(a) /\ attempt[a].pc = "flipped" /\ attempt'[a].pc = "sweep"
                    \/ /\ Fails(a) /\ attempt[a].pc \in {"load", "number", "move"}
                       /\ attempt'[a].pc = "failing"
                    \/ /\ Cleans(a) /\ attempt[a].pc \in {"failing", "sweep"}
                       /\ attempt'[a].pc = Verdict(a)
                    \/ Die(a) /\ attempt[a].pc \notin Quiet /\ attempt'[a].pc = "died"
<1>1. TypeOK /\ attempt \in [Attempts -> AttemptRecords]
  BY Types DEF Base
<1>2. ASSUME NEW a \in Attempts, Begin(a)
      PROVE  /\ attempt' \in [Attempts -> AttemptRecords]
             /\ \A b \in Attempts : b # a => attempt'[b] = attempt[b]
             /\ attempt[a].pc = "idle" /\ attempt'[a].pc = "load"
  BY <1>1, <1>2, Goes DEF Begin, At, Pcs
<1>3. ASSUME NEW a \in Attempts, Close(a)
      PROVE  /\ attempt' \in [Attempts -> AttemptRecords]
             /\ \A b \in Attempts : b # a => attempt'[b] = attempt[b]
             /\ attempt[a].pc = "load" /\ attempt'[a].pc = "number"
  BY <1>1, <1>3, Goes DEF Close, At, Pcs
<1>4. ASSUME NEW a \in Attempts, Number(a)
      PROVE  /\ attempt' \in [Attempts -> AttemptRecords]
             /\ \A b \in Attempts : b # a => attempt'[b] = attempt[b]
             /\ attempt[a].pc = "number" /\ attempt'[a].pc = "move"
  <2>1. attempt[a].pc = "number"
    BY <1>4 DEF Number, At
  <2> QED BY <2>1, <1>4, Numbered
<1>5. ASSUME NEW a \in Attempts, Flip(a)
      PROVE  /\ attempt' \in [Attempts -> AttemptRecords]
             /\ \A b \in Attempts : b # a => attempt'[b] = attempt[b]
             /\ attempt[a].pc = "move" /\ attempt'[a].pc = "flipped"
  BY <1>1, <1>5, Goes DEF Flip, At, Pcs
<1>6. ASSUME NEW a \in Attempts, SweepAfterFlip(a)
      PROVE  /\ attempt' \in [Attempts -> AttemptRecords]
             /\ \A b \in Attempts : b # a => attempt'[b] = attempt[b]
             /\ attempt[a].pc = "flipped" /\ attempt'[a].pc = "sweep"
  BY <1>1, <1>6, Goes DEF SweepAfterFlip, At, Pcs
<1>7. ASSUME NEW a \in Attempts, Fails(a)
      PROVE  /\ attempt' \in [Attempts -> AttemptRecords]
             /\ \A b \in Attempts : b # a => attempt'[b] = attempt[b]
             /\ attempt[a].pc \in {"load", "number", "move"} /\ attempt'[a].pc = "failing"
  BY <1>1, <1>7, Goes DEF Fails, Pcs
<1>8. ASSUME NEW a \in Attempts, Cleans(a)
      PROVE  /\ attempt' \in [Attempts -> AttemptRecords]
             /\ \A b \in Attempts : b # a => attempt'[b] = attempt[b]
             /\ attempt[a].pc \in {"failing", "sweep"} /\ attempt'[a].pc = Verdict(a)
  BY <1>1, <1>8, Cleaned
<1>9. ASSUME NEW a \in Attempts, Die(a)
      PROVE  /\ attempt' \in [Attempts -> AttemptRecords]
             /\ \A b \in Attempts : b # a => attempt'[b] = attempt[b]
             /\ attempt[a].pc \notin Quiet /\ attempt'[a].pc = "died"
  BY <1>1, <1>9, Ends DEF Die, Pcs, Quiet
<1>10. CASE attempt' = attempt
  BY <1>10, <1>1
<1>11. ASSUME NEW a \in Attempts,
              \/ Begin(a) \/ Close(a) \/ Number(a) \/ Flip(a)
              \/ SweepAfterFlip(a) \/ Fails(a) \/ Cleans(a) \/ Die(a)
       PROVE  /\ attempt' \in [Attempts -> AttemptRecords]
              /\ \E b \in Attempts :
                 /\ \A c \in Attempts : c # b => attempt'[c] = attempt[c]
                 /\ \/ Begin(b) /\ attempt[b].pc = "idle" /\ attempt'[b].pc = "load"
                    \/ Close(b) /\ attempt[b].pc = "load" /\ attempt'[b].pc = "number"
                    \/ Number(b) /\ attempt[b].pc = "number" /\ attempt'[b].pc = "move"
                    \/ Flip(b) /\ attempt[b].pc = "move" /\ attempt'[b].pc = "flipped"
                    \/ SweepAfterFlip(b) /\ attempt[b].pc = "flipped" /\ attempt'[b].pc = "sweep"
                    \/ /\ Fails(b) /\ attempt[b].pc \in {"load", "number", "move"}
                       /\ attempt'[b].pc = "failing"
                    \/ /\ Cleans(b) /\ attempt[b].pc \in {"failing", "sweep"}
                       /\ attempt'[b].pc = Verdict(b)
                    \/ Die(b) /\ attempt[b].pc \notin Quiet /\ attempt'[b].pc = "died"
  BY <1>11, <1>2, <1>3, <1>4, <1>5, <1>6, <1>7, <1>8, <1>9
<1> QED BY <1>10, <1>11, Changes

\* What is published stays published, and what is over stays over.
LEMMA AttemptsAdvance ==
  ASSUME Base, [Next]_vars
  PROVE  \A a \in Attempts :
           /\ attempt[a].pc \notin Unpublished => attempt'[a].pc \notin Unpublished
           /\ attempt[a].pc \notin {"idle", "load", "number"} =>
                attempt'[a].pc \notin {"idle", "load", "number"}
           /\ attempt'[a].pc \in {"ok", "failed"} =>
                (attempt[a].pc \in {"ok", "failed"} /\ attempt'[a] = attempt[a]) \/ Cleans(a)
BY AttemptSteps DEF Unpublished, Verdict, Quiet

\* A load begins when no other is under way, so there is never more than one.
LEMMA OneByOneStep ==
  ASSUME Base, [Next]_vars
  PROVE  OneByOne'
<1>1. OneByOne
  BY DEF Base
<1>2. CASE attempt' = attempt
  BY <1>1, <1>2 DEF OneByOne
<1>3. ASSUME NEW a \in Attempts, Begin(a), \A b \in Attempts : b # a => attempt'[b] = attempt[b]
      PROVE  OneByOne'
  BY <1>3 DEF OneByOne, Begin
<1>4. ASSUME NEW a \in Attempts, attempt[a].pc \notin Quiet,
             \A b \in Attempts : b # a => attempt'[b] = attempt[b]
      PROVE  OneByOne'
  BY <1>1, <1>4 DEF OneByOne
<1> QED BY <1>2, <1>3, <1>4, AttemptSteps DEF Quiet

\* The staging directory of an attempt.
LEMMA StagedSteps ==
  ASSUME Base, [Next]_vars
  PROVE  /\ staged' \in [Attempts -> SUBSET {"main", "wal"}]
         /\ \A a \in Attempts :
              \/ staged'[a] = staged[a]
              \/ Load(a) \/ Close(a)
              \/ (MoveMain(a) \/ MoveLog(a)) /\ At(a, "move")
              \/ Cleanup(a) /\ staged'[a] = {}
              \/ CleanupFails(a)
<1>1. staged \in [Attempts -> SUBSET {"main", "wal"}]
  BY Types DEF Base
<1>2. CASE staged' = staged
  BY <1>1, <1>2
<1>3. ASSUME NEW a \in Attempts,
             Load(a) \/ Close(a) \/ MoveMain(a) \/ MoveLog(a) \/ Cleans(a)
      PROVE  /\ staged' \in [Attempts -> SUBSET {"main", "wal"}]
             /\ \A b \in Attempts : b # a => staged'[b] = staged[b]
             /\ MoveMain(a) \/ MoveLog(a) => At(a, "move")
             /\ Cleanup(a) => staged'[a] = {}
  <2>1. CASE Load(a)
    BY <2>1, <1>1 DEF Load, MoveMain, MoveLog, Cleanup, Over, At
  <2>2. CASE Close(a)
    BY <2>2, <1>1 DEF Close, MoveMain, MoveLog, Cleanup, Over, At
  <2>3. CASE MoveMain(a)
    BY <2>3, <1>1 DEF MoveMain, Cleanup, Over, At
  <2>4. CASE MoveLog(a)
    BY <2>4, <1>1 DEF MoveLog, Cleanup, Over, At
  <2>5. CASE Cleanup(a)
    BY <2>5, <1>1 DEF Cleanup, MoveMain, MoveLog, Over, At
  <2>6. CASE CleanupFails(a) /\ ~Cleanup(a)
    BY <2>6, <1>1 DEF CleanupFails, MoveMain, MoveLog, Over, At
  <2> QED BY <1>3, <2>1, <2>2, <2>3, <2>4, <2>5, <2>6 DEF Cleans
<1> QED BY <1>2, <1>3, Changes DEF Cleans

LEMMA NoStagingLeftStep ==
  ASSUME Base, [Next]_vars
  PROVE  NoStagingLeft'
<1> SUFFICES ASSUME NEW a \in Attempts, attempt'[a].pc \in {"ok", "failed"}, ~attempt'[a].warned
             PROVE  staged'[a] = {}
  BY DEF NoStagingLeft
<1>1. staged \in [Attempts -> SUBSET {"main", "wal"}]
  BY Types DEF Base
<1>2. CASE Cleans(a)
  <2>1. Cleanup(a)
    BY <1>2, Cleaned DEF Cleans, Base
  <2> QED BY <1>1, <2>1 DEF Cleanup
<1>3. CASE attempt[a].pc \in {"ok", "failed"} /\ attempt'[a] = attempt[a]
  <2>1. staged[a] = {}
    BY <1>3 DEF Base, NoStagingLeft
  <2>2. ~Load(a) /\ ~Close(a) /\ ~At(a, "move") /\ ~CleanupFails(a)
    BY <1>3 DEF Load, Close, CleanupFails, Over, At
  <2> QED BY <2>1, <2>2, StagedSteps
<1> QED BY <1>2, <1>3, AttemptsAdvance
-----------------------------------------------------------------------------
(* What a step does to databases and times *)

LEMMA Closes ==
  ASSUME Base, NEW a \in Attempts, Close(a)
  PROVE  /\ build' \in [Attempts -> BuildRecords]
         /\ clock' \in [now : 0 .. Cardinality(Attempts), old : 0 .. Cardinality(Attempts)]
         /\ clock'.now = clock.now + 1 /\ clock'.old = clock.old
         /\ build'[a].mtime = clock.now + 1 /\ build'[a].loaded = ArtifactSets
         /\ staged'[a] = {"main"} \cup (IF build'[a].wal THEN {"wal"} ELSE {})
         /\ \A b \in Attempts : b # a => build'[b] = build[b]
         /\ clock'.now = Cardinality(Closed')
<1> USE Counts
<1>1. PICK wal \in BOOLEAN :
         /\ build' = [build EXCEPT ![a].wal = wal, ![a].mtime = clock.now + 1]
         /\ staged' = [staged EXCEPT ![a] = {"main"} \cup (IF wal THEN {"wal"} ELSE {})]
  BY DEF Close
<1>2. /\ build \in [Attempts -> BuildRecords]
      /\ staged \in [Attempts -> SUBSET {"main", "wal"}]
      /\ clock \in [now : 0 .. Cardinality(Attempts), old : 0 .. Cardinality(Attempts)]
  BY Types DEF Base
<1>3. clock' = [clock EXCEPT !.now = @ + 1]
  BY DEF Close
<1>4. /\ clock'.now = clock.now + 1 /\ clock'.old = clock.old
      /\ clock.now \in Nat /\ clock.old \in 0 .. Cardinality(Attempts)
  BY <1>2, <1>3
<1>5. /\ build'[a].mtime = clock.now + 1 /\ build'[a].loaded = build[a].loaded
      /\ build'[a].wal = wal
      /\ \A b \in Attempts : b # a => build'[b] = build[b]
  BY <1>1, <1>2 DEF BuildRecords
<1>6. build'[a].loaded = ArtifactSets
  BY <1>5 DEF Close
<1>7. staged'[a] = {"main"} \cup (IF build'[a].wal THEN {"wal"} ELSE {})
  BY <1>1, <1>2, <1>5
<1>8. Closed' = Closed \cup {a} /\ a \notin Closed
  <2>1. build[a].mtime = 0
    BY DEF Base, Dated, Close, At
  <2> QED BY <2>1, <1>4, <1>5 DEF Closed
<1>9. IsFiniteSet(Closed) /\ Closed' \subseteq Attempts
  BY FS_Subset DEF Closed
<1>10. Cardinality(Closed') = Cardinality(Closed) + 1
  BY <1>8, <1>9, FS_AddElement
<1>11. Cardinality(Closed') =< Cardinality(Attempts)
  BY <1>9, FS_Subset
<1>12. clock.now = Cardinality(Closed)
  BY DEF Base, Dated
<1>13. clock.now + 1 \in 0 .. Cardinality(Attempts)
  BY <1>4, <1>10, <1>11, <1>12
<1>14. build' \in [Attempts -> BuildRecords]
  <2>1. PICK mid : mid = [build EXCEPT ![a].wal = wal]
    OBVIOUS
  <2>2. mid \in [Attempts -> BuildRecords]
    BY <2>1, <1>2 DEF BuildRecords
  <2>3. build' = [mid EXCEPT ![a].mtime = clock.now + 1]
    BY <2>1, <1>1, <1>2, Zenon
  <2> QED BY <2>2, <2>3, <1>13 DEF BuildRecords
<1>15. clock' \in [now : 0 .. Cardinality(Attempts), old : 0 .. Cardinality(Attempts)]
  BY <1>2, <1>3, <1>13
<1> QED BY <1>4, <1>5, <1>6, <1>7, <1>10, <1>12, <1>14, <1>15

LEMMA Loads ==
  ASSUME Base, NEW a \in Attempts, Load(a)
  PROVE  /\ build' \in [Attempts -> BuildRecords]
         /\ attempt[a].pc = "load"
         /\ \A b \in Attempts : build'[b].mtime = build[b].mtime /\ build'[b].wal = build[b].wal
         /\ \A b \in Attempts : b # a => build'[b] = build[b]
<1>1. build \in [Attempts -> BuildRecords]
  BY Types DEF Base
<1>2. PICK loaded \in SUBSET ArtifactSets : build' = [build EXCEPT ![a].loaded = loaded]
  BY DEF Load, ArtifactSets
<1> QED BY <1>1, <1>2 DEF BuildRecords, Load, At

LEMMA BuildSteps ==
  ASSUME Base, [Next]_vars
  PROVE  /\ build' \in [Attempts -> BuildRecords]
         /\ clock' \in [now : 0 .. Cardinality(Attempts), old : 0 .. Cardinality(Attempts)]
         /\ clock.now =< clock'.now
         /\ \A a \in Attempts : attempt[a].pc # "load" => build'[a] = build[a]
<1>1. /\ build \in [Attempts -> BuildRecords]
      /\ clock \in [now : 0 .. Cardinality(Attempts), old : 0 .. Cardinality(Attempts)]
  BY Types DEF Base
<1>2. ASSUME NEW a \in Attempts, Close(a)
      PROVE  clock.now =< clock'.now /\ attempt[a].pc = "load"
  <2>1. clock.now \in Nat /\ clock'.now = clock.now + 1
    BY <1>1, <1>2, Closes, Counts
  <2>2. attempt[a].pc = "load"
    BY <1>2 DEF Close, At
  <2> QED BY <2>1, <2>2
<1>3. ASSUME TimePasses
      PROVE  /\ clock' \in [now : 0 .. Cardinality(Attempts), old : 0 .. Cardinality(Attempts)]
             /\ clock.now = clock'.now
  BY <1>1, <1>3 DEF TimePasses
<1>4. clock.now =< clock.now
  BY <1>1, Counts
<1>5. /\ build' \in [Attempts -> BuildRecords]
      /\ \A a \in Attempts : attempt[a].pc # "load" => build'[a] = build[a]
  BY <1>1, <1>2, Closes, Loads, Changes
<1>6. /\ clock' \in [now : 0 .. Cardinality(Attempts), old : 0 .. Cardinality(Attempts)]
      /\ clock.now =< clock'.now
  BY <1>1, <1>2, <1>3, <1>4, Closes, Changes
<1> QED BY <1>5, <1>6

LEMMA DatedStep ==
  ASSUME Base, [Next]_vars
  PROVE  Dated'
<1> USE Counts
<1>1. Dated /\ clock.now \in Nat /\ clock.old \in Nat /\ \A a \in Attempts : build[a].mtime \in Nat
  BY Types DEF Base, BuildRecords
<1>2. ASSUME NEW a \in Attempts, Close(a)
      PROVE  Dated'
  <2>1. clock'.old =< clock'.now
    BY <1>1, <1>2, Closes DEF Dated
  <2>2. attempt[a].pc = "load" /\ attempt'[a].pc = "number"
        /\ \A b \in Attempts : b # a => attempt'[b] = attempt[b]
    BY <1>2, Goes DEF Close, At, Pcs, Base
  <2>3. \A b \in Attempts : b # a => attempt[b].pc \in Quiet
    BY <2>2 DEF Base, OneByOne, Quiet
  <2>4. ASSUME NEW b \in Attempts
        PROVE  /\ build'[b].mtime =< clock'.now
               /\ attempt'[b].pc \in {"idle", "load"} => build'[b].mtime = 0
               /\ attempt'[b].pc \in {"number", "move"} =>
                    build'[b].mtime = clock'.now /\ clock'.now > 0
    <3>1. CASE b = a
      BY <3>1, <2>2, <1>1, <1>2, Closes
    <3>2. CASE b # a
      BY <3>2, <2>2, <2>3, <1>1, <1>2, Closes DEF Dated, Quiet
    <3> QED BY <3>1, <3>2
  <2>5. clock'.now = Cardinality(Closed')
    BY <1>2, Closes
  <2> QED BY <2>1, <2>4, <2>5 DEF Dated
<1>3. ASSUME \A a \in Attempts : build'[a].mtime = build[a].mtime, clock'.now = clock.now,
             clock'.old =< clock'.now, \A a \in Attempts : ~Close(a)
      PROVE  Dated'
  <2>1. Closed' = Closed
    BY <1>3 DEF Closed
  <2>2. \A a \in Attempts :
          /\ attempt'[a].pc \in {"idle", "load"} => attempt[a].pc \in {"idle", "load"}
          /\ attempt'[a].pc \in {"number", "move"} => attempt[a].pc \in {"number", "move"}
    BY <1>3, AttemptSteps DEF Verdict, Quiet
  <2>3. ASSUME NEW b \in Attempts
        PROVE  /\ build'[b].mtime =< clock'.now
               /\ attempt'[b].pc \in {"idle", "load"} => build'[b].mtime = 0
               /\ attempt'[b].pc \in {"number", "move"} =>
                    build'[b].mtime = clock'.now /\ clock'.now > 0
    BY <2>2, <1>1, <1>3 DEF Dated
  <2> QED BY <2>1, <2>3, <1>1, <1>3 DEF Dated
<1>4. ASSUME \A a \in Attempts : ~Close(a)
      PROVE  /\ \A a \in Attempts : build'[a].mtime = build[a].mtime
             /\ clock'.now = clock.now /\ clock'.old =< clock'.now
  <2>1. \A a \in Attempts : build'[a].mtime = build[a].mtime
    BY <1>4, Changes, Loads
  <2>2. clock'.now = clock.now /\ clock'.old =< clock'.now
    <3>1. CASE clock' = clock
      BY <3>1, <1>1 DEF Dated
    <3>2. CASE TimePasses
      <4>1. clock \in [now : 0 .. Cardinality(Attempts), old : 0 .. Cardinality(Attempts)]
        BY Types DEF Base
      <4> QED BY <3>2, <4>1, <1>1 DEF TimePasses
    <3> QED BY <3>1, <3>2, <1>4, Changes
  <2> QED BY <2>1, <2>2
<1> QED BY <1>2, <1>3, <1>4
-----------------------------------------------------------------------------
(* Version files *)

\* A version appears only when the main file of an attempt is moved there.
LEMMA ExistsSteps ==
  ASSUME Base, [Next]_vars, NEW v \in Versions, Exists(v)'
  PROVE  Exists(v) \/ \E a \in Attempts : MoveMain(a) /\ v = attempt[a].version
<1>1. file \in [Versions -> [build : BuildOrNone, parts : SUBSET {"main", "wal"}]]
  BY DEF Base, TypeOK
<1>2. CASE file' = file
  BY <1>2, SameDisk
<1>3. ASSUME NEW a \in Attempts, MoveMain(a), v # attempt[a].version PROVE Exists(v)
  BY <1>1, <1>3 DEF MoveMain, Exists
<1>4. ASSUME NEW a \in Attempts, MoveLog(a) PROVE Exists(v)
  BY <1>1, <1>4 DEF MoveLog, Exists
<1>5. ASSUME NEW x \in Actors, Deletes(x) PROVE Exists(v)
  BY <1>5, Removes DEF Removed, Exists, Absent, Bare
<1> QED BY <1>2, <1>3, <1>4, <1>5, Changes

LEMMA BehindStep ==
  ASSUME Base, [Next]_vars
  PROVE  Behind'
<1>1. clock.now \in Nat /\ clock'.now \in Nat /\ clock.now =< clock'.now
  BY Types, BuildSteps, Counts DEF Base
<1>2. ASSUME NEW v \in Versions, Exists(v)
      PROVE  v =< clock'.now /\ \A a \in Attempts : attempt'[a].pc = "number" => v < clock'.now
  <2>1. v =< clock.now /\ (\A a \in Attempts : attempt[a].pc = "number" => v < clock.now) /\ v \in Nat
    BY <1>2, Counts DEF Base, Behind, At
  <2>2. ASSUME NEW a \in Attempts, attempt'[a].pc = "number" PROVE v < clock'.now
    <3>1. attempt[a].pc = "number" \/ Close(a)
      BY <2>2, AttemptSteps DEF Verdict, Quiet
    <3>2. Close(a) => clock'.now = clock.now + 1
      BY Closes
    <3> QED BY <3>1, <3>2, <2>1, <1>1
  <2> QED BY <2>1, <2>2, <1>1
<1>3. ASSUME NEW a \in Attempts, MoveMain(a), NEW v \in Versions, v = attempt[a].version
      PROVE  v =< clock'.now /\ \A b \in Attempts : attempt'[b].pc # "number"
  <2>1. attempt[a].pc = "move" /\ attempt' = attempt /\ clock' = clock
    BY <1>3 DEF MoveMain, At
  <2>2. v =< clock.now
    BY <1>3, <2>1 DEF Base, Behind, At
  <2>3. \A b \in Attempts : attempt[b].pc # "number"
    BY <2>1 DEF Base, OneByOne, Quiet
  <2> QED BY <2>1, <2>2, <2>3
<1>4. ASSUME NEW a \in Attempts, attempt'[a].pc = "move"
      PROVE  attempt'[a].version \in Versions /\ attempt'[a].version =< clock'.now
  <2>1. CASE Number(a)
    <3>1. attempt'[a].version \in Versions /\ attempt'[a].version =< clock.now /\ clock' = clock
      BY <2>1, Numbered DEF Number
    <3> QED BY <3>1
  <2>2. CASE attempt[a].pc = "move" /\ attempt'[a] = attempt[a]
    <3>1. PICK v \in Versions : v = attempt[a].version /\ v =< clock.now
      BY <2>2 DEF Base, Behind, At
    <3> QED BY <2>2, <3>1, <1>1, Counts
  <2> QED BY <1>4, <2>1, <2>2, AttemptSteps DEF Verdict, Quiet
<1> QED BY <1>2, <1>3, <1>4, ExistsSteps DEF Behind, At

\* A version that stays keeps its place among the others.
LEMMA Stays ==
  ASSUME Base, Healthy, [Next]_vars,
         NEW v \in Versions, Exists(v), file'[v].build = file[v].build
  PROVE  /\ file'[v].build \in Attempts
         /\ attempt'[file'[v].build].pc \notin {"idle", "load", "number"}
         /\ Mtime(v)' = Mtime(v)
<1>1. /\ file[v].build \in Attempts
      /\ attempt[file[v].build].pc \notin {"idle", "load", "number"}
  BY DEF Healthy, Built, At
<1>2. Mtime(v)' = Mtime(v)
  <2>1. build'[file[v].build] = build[file[v].build]
    BY <1>1, BuildSteps
  <2> QED BY <2>1 DEF Mtime
<1> QED BY <1>1, <1>2, AttemptsAdvance

LEMMA BuiltStep ==
  ASSUME Base, Healthy, [Next]_vars
  PROVE  Built'
<1>1. ASSUME \A v \in Versions : MaxVersion' < v => file'[v] = Absent,
             \A v \in Versions : Exists(v)' => Exists(v) /\ file'[v].build = file[v].build
      PROVE  Built'
  <2>1. ASSUME NEW v \in Versions, Exists(v)'
        PROVE  /\ file'[v].build \in Attempts
               /\ attempt'[file'[v].build].pc \notin {"idle", "load", "number"}
               /\ Mtime(v)' = Mtime(v)
    BY <1>1, <2>1, Stays
  <2>2. ASSUME NEW v \in Versions, Exists(v)', NEW w \in Versions, Exists(w)', v < w
        PROVE  Mtime(v)' =< Mtime(w)'
    <3>1. Mtime(v) =< Mtime(w)
      BY <1>1, <2>2 DEF Healthy, Built
    <3> QED BY <3>1, <2>1, <2>2
  <2> QED BY <1>1, <2>1, <2>2 DEF Built, At
<1>2. CASE file' = file
  <2>1. \A v \in Versions : MaxVersion' < v => file'[v] = Absent
    BY <1>2, SameDisk DEF Healthy, Built
  <2> QED BY <1>1, <1>2, <2>1, SameDisk
<1>3. ASSUME NEW a \in Attempts, MoveLog(a) PROVE Built'
  <2>1. PICK u \in Versions :
           /\ \A w \in Versions :
                /\ w # u => file'[w] = file[w]
                /\ Exists(w)' <=> Exists(w)
                /\ file'[w].build = file[w].build
           /\ Exists(u)
           /\ MaxVersion' = MaxVersion
    BY <1>3, LogMoved
  <2>2. ASSUME NEW v \in Versions, MaxVersion' < v PROVE file'[v] = Absent
    <3>1. u =< MaxVersion /\ MaxVersion \in Nat /\ u \in Nat /\ v \in Nat
      BY <2>1, MaxVersionIs, Counts
    <3>2. v # u
      BY <3>1, <2>1, <2>2
    <3> QED BY <3>2, <2>1, <2>2 DEF Healthy, Built
  <2> QED BY <1>1, <2>1, <2>2
<1>4. ASSUME NEW x \in Actors, Deletes(x) PROVE Built'
  <2>1. \A v \in Versions : MaxVersion' < v => file'[v] = Absent
    BY <1>4, Collected DEF Healthy, Built
  <2> QED BY <1>1, <1>4, <2>1, Collected
<1>5. ASSUME NEW a \in Attempts, MoveMain(a) PROVE Built'
  <2>1. PICK u \in Versions :
           /\ u = attempt[a].version
           /\ MaxVersion < u
           /\ \A w \in Versions : w # u => file'[w] = file[w] /\ (Exists(w)' <=> Exists(w))
           /\ file'[u] = [build |-> a, parts |-> {"main"}]
           /\ Exists(u)' /\ ~Exists(u)
           /\ MaxVersion' = u
    BY <1>5, MainMoved
  <2>2. /\ attempt[a].pc = "move" /\ attempt' = attempt /\ build' = build
    BY <1>5 DEF MoveMain, At
  <2>3. /\ build[a].mtime = clock.now /\ clock.now \in Nat /\ u \in Nat
    BY <2>1, <2>2, Types, Counts DEF Base, Dated
  <2>4. ASSUME NEW v \in Versions, MaxVersion' < v PROVE file'[v] = Absent
    <3>1. v \in Nat /\ MaxVersion \in Nat
      BY MaxVersionIs, Counts
    <3>2. v # u /\ MaxVersion < v
      BY <3>1, <2>1, <2>3, <2>4
    <3> QED BY <3>2, <2>1 DEF Healthy, Built
  <2>6. ASSUME NEW v \in Versions, Exists(v)', v # u
        PROVE  /\ Exists(v) /\ file'[v].build \in Attempts
               /\ attempt'[file'[v].build].pc \notin {"idle", "load", "number"}
               /\ Mtime(v)' = Mtime(v)
               /\ Mtime(v) =< clock.now
               /\ v < u
    <3>1. Exists(v) /\ file'[v].build = file[v].build
      BY <2>1, <2>6
    <3>2. v < u
      BY <3>1, <2>1, <2>3, MaxVersionIs, Counts
    <3>3. Mtime(v) =< clock.now
      BY <3>1 DEF Healthy, Built, Base, Dated, Mtime
    <3> QED BY <3>1, <3>2, <3>3, Stays
  <2>7. Mtime(u)' = clock.now /\ file'[u].build = a
    BY <2>1, <2>2, <2>3 DEF Mtime
  <2>8. ASSUME NEW v \in Versions, Exists(v)'
        PROVE  /\ file'[v].build \in Attempts
               /\ attempt'[file'[v].build].pc \notin {"idle", "load", "number"}
    BY <2>8, <2>2, <2>6, <2>7
  <2>9. ASSUME NEW v \in Versions, Exists(v)', NEW w \in Versions, Exists(w)', v < w
        PROVE  Mtime(v)' =< Mtime(w)'
    <3>1. CASE w = u
      <4>1. v # u
        BY <3>1, <2>9, <2>3
      <4> QED BY <3>1, <4>1, <2>6, <2>7, <2>9
    <3>2. CASE v = u
      <4>1. w # u /\ w \in Nat
        BY <3>2, <2>9, <2>3, Counts
      <4> QED BY <3>2, <4>1, <2>3, <2>6, <2>9
    <3>3. CASE v # u /\ w # u
      <4>1. Mtime(v) =< Mtime(w)
        BY <3>3, <2>6, <2>9 DEF Healthy, Built
      <4> QED BY <3>3, <4>1, <2>6, <2>9
    <3> QED BY <3>1, <3>2, <3>3
  <2> QED BY <2>4, <2>8, <2>9 DEF Built, At
<1> QED BY <1>2, <1>3, <1>4, <1>5, Changes
-----------------------------------------------------------------------------
(* Publishing *)

LEMMA AloneOnTheMove ==
  ASSUME Base, NEW a \in Attempts, attempt[a].pc \notin Quiet,
         NEW b \in Attempts, b # a
  PROVE  /\ ~MoveMain(b) /\ ~MoveLog(b) /\ ~Flip(b)
         /\ ~At(b, "number") /\ ~At(b, "move") /\ ~At(b, "load")
<1>1. attempt[b].pc \in Quiet
  BY DEF Base, OneByOne
<1> QED BY <1>1 DEF MoveMain, MoveLog, Flip, At, Quiet

LEMMA MovingStep ==
  ASSUME Base, Healthy, [Next]_vars, ~astray'
  PROVE  Moving'
<1> SUFFICES ASSUME NEW a \in Attempts
             PROVE  /\ attempt'[a].pc \in {"number", "move", "flipped", "sweep"} =>
                         build'[a].loaded = ArtifactSets
                    /\ attempt'[a].pc = "number" =>
                         staged'[a] = {"main"} \cup (IF build'[a].wal THEN {"wal"} ELSE {})
                    /\ attempt'[a].pc = "move" =>
                         /\ "main" \in staged'[a] =>
                              /\ MaxVersion' < attempt'[a].version
                              /\ staged'[a] = {"main"} \cup (IF build'[a].wal THEN {"wal"} ELSE {})
                         /\ "main" \notin staged'[a] =>
                              \E v \in Versions :
                                /\ v = attempt'[a].version
                                /\ Exists(v)' /\ file'[v].build = a
                                /\ MaxVersion' = v /\ current' < v
                                /\ build'[a].wal => "wal" \in file'[v].parts \cup staged'[a]
  BY DEF Moving, At, Exists
<1>1. attempt'[a].pc \in {"number", "move", "flipped", "sweep"} => build'[a].loaded = ArtifactSets
  <2>1. CASE Close(a)
    BY <2>1, Closes
  <2>2. CASE attempt'[a].pc \in {"number", "move", "flipped", "sweep"} /\ ~Close(a)
    <3>1. attempt[a].pc \in {"number", "move", "flipped", "sweep"}
      BY <2>2, AttemptSteps DEF Verdict, Quiet
    <3> QED BY <3>1, BuildSteps DEF Healthy, Moving
  <2> QED BY <2>1, <2>2
<1>2. attempt[a].pc \in {"number", "move"} => build'[a] = build[a]
  BY BuildSteps
<1>3. attempt[a].pc = "number" => staged'[a] = staged[a]
  BY StagedSteps DEF Load, Close, Cleanup, CleanupFails, Over, At
<1>4. ASSUME attempt'[a].pc = "number"
      PROVE  staged'[a] = {"main"} \cup (IF build'[a].wal THEN {"wal"} ELSE {})
  <2>1. attempt[a].pc = "number" \/ Close(a)
    BY <1>4, AttemptSteps DEF Verdict, Quiet
  <2> QED BY <2>1, <1>2, <1>3, Closes DEF Healthy, Moving, At
<1>6. ASSUME Number(a)
      PROVE  /\ MaxVersion' < attempt'[a].version
             /\ "main" \in staged'[a]
             /\ staged'[a] = {"main"} \cup (IF build'[a].wal THEN {"wal"} ELSE {})
  <2>1. /\ attempt[a].pc = "number" /\ file' = file
    BY <1>6 DEF Number, At
  <2>2. attempt'[a].version = MaxVersion + 1 /\ MaxVersion' = MaxVersion
    BY <1>6, <2>1, SameDisk, Numbered
  <2>3. staged'[a] = {"main"} \cup (IF build'[a].wal THEN {"wal"} ELSE {})
    BY <2>1, <1>2, <1>3 DEF Healthy, Moving, At
  <2>4. MaxVersion < MaxVersion + 1
    BY MaxVersionIs
  <2> QED BY <2>2, <2>3, <2>4
<1>7. ASSUME attempt[a].pc = "move", attempt'[a] = attempt[a], current' = current
      PROVE  /\ "main" \in staged'[a] =>
                  /\ MaxVersion' < attempt'[a].version
                  /\ staged'[a] = {"main"} \cup (IF build'[a].wal THEN {"wal"} ELSE {})
             /\ "main" \notin staged'[a] =>
                  \E v \in Versions :
                    /\ v = attempt'[a].version
                    /\ Exists(v)' /\ file'[v].build = a
                    /\ MaxVersion' = v /\ current' < v
                    /\ build'[a].wal => "wal" \in file'[v].parts \cup staged'[a]
  <2>1. PICK v \in Versions : v = attempt[a].version /\ v = attempt'[a].version
    BY <1>7 DEF Base, Behind, At
  <2>2. build'[a] = build[a]
    BY <1>2, <1>7
  <2>3. "main" \in staged[a] =>
          MaxVersion < v /\ staged[a] = {"main"} \cup (IF build[a].wal THEN {"wal"} ELSE {})
    BY <1>7, <2>1 DEF Healthy, Moving, At
  <2>4. "main" \notin staged[a] =>
          /\ Exists(v) /\ file[v].build = a /\ MaxVersion = v /\ current < v
          /\ build[a].wal => "wal" \in file[v].parts \cup staged[a]
    BY <1>7, <2>1 DEF Healthy, Moving, At
  <2>5. /\ staged \in [Attempts -> SUBSET {"main", "wal"}] /\ staged[a] \subseteq {"main", "wal"}
    BY Types DEF Base
  <2>6. CASE MoveMain(a)
    <3>1. staged'[a] = staged[a] \ {"main"} /\ "main" \in staged[a]
      BY <2>5, <2>6 DEF MoveMain
    <3>2. PICK u \in Versions :
           /\ u = attempt[a].version /\ current < u
           /\ file'[u] = [build |-> a, parts |-> {"main"}]
           /\ Exists(u)' /\ MaxVersion' = u
      BY <2>6, MainMoved
    <3>3. u = v
      BY <2>1, <3>2
    <3>4. build'[a].wal => "wal" \in staged'[a]
      BY <2>2, <2>3, <3>1
    <3> QED BY <1>7, <2>1, <3>1, <3>2, <3>3, <3>4
  <2>7. CASE MoveLog(a)
    <3>1. staged'[a] = {} /\ staged[a] = {"wal"}
      BY <2>5, <2>7 DEF MoveLog
    <3>2. PICK u \in Versions :
           /\ u = attempt[a].version
           /\ \A w \in Versions :
                /\ Exists(w)' <=> Exists(w)
                /\ file'[w].build = file[w].build
           /\ file'[u].parts = file[u].parts \cup {"wal"}
           /\ MaxVersion' = MaxVersion
      BY <2>7, LogMoved
    <3>3. u = v
      BY <2>1, <3>2
    <3> QED BY <1>7, <2>1, <2>4, <3>1, <3>2, <3>3
  <2>8. ASSUME file' = file \/ (\E x \in Actors : Deletes(x)), staged'[a] = staged[a]
        PROVE  /\ MaxVersion' = MaxVersion
               /\ "main" \notin staged'[a] => Exists(v)' /\ file'[v] = file[v]
    <3>1. CASE file' = file
      BY <3>1, <2>4, <2>8, SameDisk
    <3>2. ASSUME NEW x \in Actors, Deletes(x)
          PROVE  /\ MaxVersion' = MaxVersion
                 /\ "main" \notin staged'[a] => Exists(v)' /\ file'[v] = file[v]
      <4>1. MaxVersion' = MaxVersion /\ (v = MaxVersion => file'[v] = file[v])
        BY <3>2, Collected
      <4> QED BY <4>1, <2>4, <2>8 DEF Exists
    <3> QED BY <2>8, <3>1, <3>2
  <2>9. CASE ~MoveMain(a) /\ ~MoveLog(a)
    <3>1. file' = file \/ \E x \in Actors : Deletes(x)
      BY <1>7, <2>9, AloneOnTheMove, Changes DEF Quiet
    <3>2. staged'[a] = staged[a]
      BY <1>7, <2>9, StagedSteps DEF Load, Close, Cleanup, CleanupFails, Over, At
    <3> QED BY <1>7, <2>1, <2>2, <2>3, <2>4, <2>8, <3>1, <3>2
  <2> QED BY <2>6, <2>7, <2>9
<1>8. ASSUME attempt'[a].pc = "move"
      PROVE  Number(a) \/ (attempt[a].pc = "move" /\ attempt'[a] = attempt[a] /\ current' = current)
  <2>1. Number(a) \/ (attempt[a].pc = "move" /\ attempt'[a] = attempt[a])
    BY <1>8, AttemptSteps DEF Verdict, Quiet
  <2>2. attempt[a].pc = "move" => \A b \in Attempts : b # a => ~Flip(b)
    BY AloneOnTheMove DEF Quiet
  <2>3. ~Flip(a)
    BY <1>8, AttemptSteps, Goes DEF Flip, Base, Pcs
  <2> QED BY <2>1, <2>2, <2>3, Changes
<1> QED BY <1>1, <1>4, <1>6, <1>7, <1>8

\* A flip that goes well makes the highest version, and a whole one, the current.
LEMMA Flipped ==
  ASSUME Base, Healthy, NEW a \in Attempts, Flip(a), ~astray'
  PROVE  /\ \E v \in Versions :
              /\ current' = v /\ v = MaxVersion /\ current < v
              /\ Exists(v) /\ file[v].build = a
              /\ build[a].wal => "wal" \in file[v].parts
         /\ build[a].loaded = ArtifactSets
         /\ reader' = Witness(reader, a)
         /\ UNCHANGED <<file, pending, build, staged, sweep, clock>>
         /\ attempt[a].pc = "move" /\ attempt'[a].pc = "flipped"
<1>1. attempt[a].pc = "move" /\ staged[a] = {} /\ "main" \notin staged[a] /\ current' = attempt[a].version
      /\ reader' = Witness(reader, IF Exists(current') THEN file[current'].build ELSE NoGraph)
      /\ UNCHANGED <<file, pending, build, staged, sweep, clock>>
  BY DEF Flip, At
<1>2. PICK v \in Versions :
        /\ v = attempt[a].version /\ v = MaxVersion /\ current < v
        /\ Exists(v) /\ file[v].build = a
        /\ build[a].wal => "wal" \in file[v].parts
  <2>1. PICK v \in Versions : v = attempt[a].version
    BY <1>1 DEF Base, Behind, At
  <2>2. /\ Exists(v) /\ file[v].build = a /\ v = MaxVersion /\ current < v
        /\ build[a].wal => "wal" \in file[v].parts \cup staged[a]
    BY <1>1, <2>1 DEF Healthy, Moving, At
  <2> QED BY <1>1, <2>1, <2>2
<1>3. build[a].loaded = ArtifactSets
  BY <1>1 DEF Healthy, Moving
<1>4. reader' = Witness(reader, a)
  <2>1. (IF Exists(v) THEN file[v].build ELSE NoGraph) = a
    BY <1>2
  <2>2. current' = v
    BY <1>1, <1>2
  <2> QED BY <1>1, <2>1, <2>2
<1>5. attempt'[a].pc = "flipped"
  BY Goes DEF Flip, Base, Pcs
<1> QED BY <1>1, <1>2, <1>3, <1>4, <1>5

LEMMA MaxVersionGrows ==
  ASSUME Base, Healthy, [Next]_vars
  PROVE  MaxVersion =< MaxVersion'
<1>1. MaxVersion \in Nat /\ MaxVersion =< MaxVersion
  BY MaxVersionIs
<1>2. file' = file => MaxVersion' = MaxVersion
  BY SameDisk
<1>3. ASSUME NEW a \in Attempts, MoveMain(a) PROVE MaxVersion =< MaxVersion'
  <2>1. PICK v \in Versions : MaxVersion < v /\ MaxVersion' = v
    BY <1>3, MainMoved
  <2>2. v \in Nat
    BY Counts
  <2> QED BY <1>1, <2>1, <2>2
<1> QED BY <1>1, <1>2, <1>3, LogMoved, Collected, Changes

\* The version CURRENT names is neither moved nor collected.
LEMMA CurrentKept ==
  ASSUME Base, Healthy, [Next]_vars, NEW v \in Versions, v = current
  PROVE  file'[v] = file[v] /\ Exists(v)' /\ Exists(v)
<1>1. Exists(v) /\ v # NoVersion
  BY CurrentExists, Counts DEF Versions, NoVersion
<1>2. CASE file' = file
  BY <1>1, <1>2 DEF Exists
<1>3. ASSUME NEW a \in Attempts, MoveMain(a) PROVE file'[v] = file[v]
  <2>1. PICK u \in Versions : v < u /\ \A w \in Versions : w # u => file'[w] = file[w]
    BY <1>3, MainMoved
  <2>2. v \in Nat
    BY Counts
  <2> QED BY <2>1, <2>2
<1>4. ASSUME NEW a \in Attempts, MoveLog(a) PROVE file'[v] = file[v]
  <2>1. PICK u \in Versions : v < u /\ \A w \in Versions : w # u => file'[w] = file[w]
    BY <1>4, LogMoved
  <2>2. v \in Nat
    BY Counts
  <2> QED BY <2>1, <2>2
<1>5. ASSUME NEW x \in Actors, Deletes(x) PROVE file'[v] = file[v]
  BY <1>1, <1>5, Collected
<1>6. file'[v] = file[v]
  BY <1>2, <1>3, <1>4, <1>5, Changes
<1> QED BY <1>1, <1>6 DEF Exists

LEMMA CurrentStep ==
  ASSUME Base, Healthy, [Next]_vars, ~astray'
  PROVE  CurrentIsWhole' /\ Published'
<1>1. CASE current' = current /\ current # NoVersion
  <2>1. PICK v \in Versions : v = current
    BY <1>1, CurrentExists
  <2>2. file'[v] = file[v] /\ Exists(v)' /\ Exists(v)
    BY <2>1, CurrentKept
  <2>3. /\ build[file[v].build].loaded = ArtifactSets
        /\ build[file[v].build].wal => "wal" \in file[v].parts
        /\ attempt[file[v].build].pc \notin Unpublished
        /\ file[v].build \in Attempts
    BY <1>1, <2>1, <2>2, CurrentExists DEF Healthy, CurrentIsWhole, Whole, Published
  <2>4. build'[file[v].build] = build[file[v].build] /\ attempt'[file[v].build].pc \notin Unpublished
    BY <2>3, BuildSteps, AttemptsAdvance DEF Unpublished
  <2>5. Whole(v)'
    BY <2>2, <2>3, <2>4 DEF Whole
  <2>6. current' = v
    BY <1>1, <2>1
  <2>7. CurrentIsWhole'
    BY <2>5, <2>6 DEF CurrentIsWhole
  <2>8. Published'
    BY <2>2, <2>4, <2>6 DEF Published
  <2> QED BY <2>7, <2>8
<1>2. CASE current' = current /\ current = NoVersion
  BY <1>2 DEF CurrentIsWhole, Published
<1>3. ASSUME NEW a \in Attempts, Flip(a) PROVE CurrentIsWhole' /\ Published'
  <2>1. PICK v \in Versions :
          /\ current' = v
          /\ Exists(v) /\ file[v].build = a
          /\ build[a].wal => "wal" \in file[v].parts
    BY <1>3, Flipped
  <2>2. /\ build[a].loaded = ArtifactSets /\ file' = file /\ build' = build
        /\ attempt'[a].pc = "flipped"
    BY <1>3, Flipped
  <2>3. Whole(v)'
    BY <2>1, <2>2 DEF Whole, Exists
  <2>4. CurrentIsWhole'
    BY <2>1, <2>3 DEF CurrentIsWhole
  <2>5. Published'
    BY <2>1, <2>2 DEF Published, Unpublished
  <2> QED BY <2>4, <2>5
<1> QED BY <1>1, <1>2, <1>3, Changes

-----------------------------------------------------------------------------
(* Collections *)

LEMMA SweepSteps ==
  ASSUME Base, [Next]_vars
  PROVE  /\ sweep' \in [Actors -> SweepRecords]
         /\ \A x \in Actors :
              \/ sweep'[x] = sweep[x]
              \/ sweep'[x] = NoSweep
              \/ /\ sweep'[x].pc = "list" /\ (sweep'[x].blind \/ sweep'[x].current = current)
                 /\ sweep'[x].doomed = sweep[x].doomed /\ current' = current
              \/ Lists(x) /\ sweep'[x].pc = "delete"
<1>1. /\ sweep \in [Actors -> SweepRecords] /\ current \in VersionOrNone /\ pending \subseteq Versions
  BY Types DEF Base
<1>2. NoSweep \in SweepRecords
  BY DEF NoSweep, SweepRecords, VersionOrNone
<1>3. ASSUME NEW x \in Actors, StartSweep(x)
      PROVE  /\ sweep' \in [Actors -> SweepRecords]
             /\ \A y \in Actors : y # x => sweep'[y] = sweep[y]
             /\ sweep'[x].pc = "list" /\ (sweep'[x].blind \/ sweep'[x].current = current)
             /\ sweep'[x].doomed = sweep[x].doomed
  <2>1. CASE sweep' = [sweep EXCEPT ![x].pc = "list", ![x].current = current]
    BY <1>1, <2>1 DEF SweepRecords
  <2>2. CASE sweep' = [sweep EXCEPT ![x].pc = "list", ![x].blind = TRUE]
    <3>1. PICK f : f = [sweep EXCEPT ![x].pc = "list"]
      OBVIOUS
    <3>2. /\ f \in [Actors -> SweepRecords] /\ f[x].pc = "list" /\ f[x].doomed = sweep[x].doomed
          /\ \A y \in Actors : y # x => f[y] = sweep[y]
      BY <1>1, <3>1 DEF SweepRecords
    <3>3. sweep' = [f EXCEPT ![x].blind = TRUE]
      BY <2>2, <3>1, Zenon
    <3> QED BY <3>2, <3>3 DEF SweepRecords
  <2> QED BY <1>3, <2>1, <2>2 DEF StartSweep
<1>4. ASSUME NEW x \in Actors, sweep' = [sweep EXCEPT ![x] = NoSweep]
      PROVE  /\ sweep' \in [Actors -> SweepRecords]
             /\ \A y \in Actors : sweep'[y] = IF y = x THEN NoSweep ELSE sweep[y]
  BY <1>1, <1>2, <1>4
<1>5. ASSUME NEW x \in Actors, Lists(x)
      PROVE  /\ sweep' \in [Actors -> SweepRecords]
             /\ \A y \in Actors : y # x => sweep'[y] = sweep[y]
             /\ sweep'[x].pc = "delete"
  <2>1. ASSUME NEW doomed \in SUBSET Versions,
               sweep' = [sweep EXCEPT ![x].pc = "delete", ![x].doomed = doomed]
        PROVE  /\ sweep' \in [Actors -> SweepRecords]
               /\ \A y \in Actors : y # x => sweep'[y] = sweep[y]
               /\ sweep'[x].pc = "delete"
    <3>1. PICK f : f = [sweep EXCEPT ![x].pc = "delete"]
      OBVIOUS
    <3>2. /\ f \in [Actors -> SweepRecords] /\ f[x].pc = "delete"
          /\ \A y \in Actors : y # x => f[y] = sweep[y]
      BY <1>1, <3>1 DEF SweepRecords
    <3>3. sweep' = [f EXCEPT ![x].doomed = doomed]
      BY <2>1, <3>1, Zenon
    <3> QED BY <3>2, <3>3 DEF SweepRecords
  <2>2. CASE SweepList(x)
    <3>1. Doomed(sweep[x].current) \subseteq Versions
      BY <1>1 DEF Doomed, OnDisk
    <3> QED BY <2>1, <2>2, <3>1 DEF SweepList
  <2>3. CASE SweepListPartly(x)
    <3>1. \E doomed \in SUBSET Versions : sweep' = [sweep EXCEPT ![x].pc = "delete", ![x].doomed = doomed]
      BY <1>1, <2>3 DEF SweepListPartly, OnDisk
    <3> QED BY <2>1, <3>1
  <2> QED BY <1>5, <2>2, <2>3 DEF Lists
<1>6. ASSUME NEW a \in Attempts, SweepAfterFlip(a)
      PROVE  StartSweep(a) /\ current' = current /\ a \in Actors
  BY <1>6 DEF SweepAfterFlip, Actors
<1>7. ASSUME NEW r \in Readers, Query(r) \/ CloseStore(r)
      PROVE  StartSweep(r) /\ current' = current /\ r \in Actors
  BY <1>7 DEF Query, CloseStore, Actors
<1>8. ASSUME NEW a \in Attempts, Die(a)
      PROVE  a \in Actors /\ sweep' = [sweep EXCEPT ![a] = NoSweep]
  BY <1>8 DEF Die, Actors
<1>9. ASSUME NEW x \in Actors, Deletes(x)
      PROVE  sweep' = [sweep EXCEPT ![x] = NoSweep]
  BY <1>9 DEF Deletes, SweepDelete, SweepDeletePartly
<1>10. sweep' = sweep \/ (\E x \in Actors : sweep' = [sweep EXCEPT ![x] = NoSweep])
       \/ (\E x \in Actors : StartSweep(x) /\ current' = current)
       \/ (\E x \in Actors : Lists(x))
  BY <1>6, <1>7, <1>8, <1>9, Changes
<1> QED BY <1>1, <1>3, <1>4, <1>5, <1>10

\* What a collection dooms is older than the latest version, and is not what
\* CURRENT names, unless its listing leads the key astray.
LEMMA DoomedIsOld ==
  ASSUME Base, Healthy, NEW x \in Actors, Lists(x), ~astray', NEW v \in sweep'[x].doomed
  PROVE  v \in Versions /\ v < MaxVersion /\ v # current
<1> DEFINE seen == sweep[x].current
<1>1. /\ sweep \in [Actors -> SweepRecords] /\ pending \subseteq Versions
      /\ sweep[x].pc = "list" /\ ~Unpinned(x)
  BY Types DEF Base, Lists, SweepList, SweepListPartly
<1>2. v \in Versions /\ v # seen /\ v < MaxVersion
  <2>1. ASSUME v \in pending PROVE v \in Versions /\ v < MaxVersion
    BY <1>1, <2>1 DEF Healthy, Spared
  <2>2. CASE SweepList(x)
    <3>1. v \in Doomed(seen)
      BY <1>1, <2>2 DEF SweepList, SweepRecords
    <3>2. v \notin Kept(seen) /\ v # seen
      BY <3>1 DEF Doomed, Kept
    <3>3. CASE v \in OnDisk
      <4>1. PICK w \in OnDisk \ {seen, v} : ~Later(v, w)
        BY <3>2, <3>3 DEF Kept
      <4>2. v \in Versions /\ w \in Versions /\ Exists(v) /\ Exists(w) /\ v \in Nat /\ w \in Nat
        BY <3>3, <4>1, Counts DEF OnDisk
      <4>3. Mtime(v) \in Nat /\ Mtime(w) \in Nat
        <5>1. build \in [Attempts -> BuildRecords] /\ file[v].build \in Attempts /\ file[w].build \in Attempts
          BY <4>2, Types DEF Base, Healthy, Built
        <5> QED BY <5>1, Counts DEF Mtime, BuildRecords
      <4>4. w < v => Mtime(w) =< Mtime(v)
        BY <4>2 DEF Healthy, Built
      <4>5. ~(w < v)
        BY <4>1, <4>2, <4>3, <4>4 DEF Later
      <4>6. w =< MaxVersion /\ MaxVersion \in Nat
        BY <4>2, MaxVersionIs
      <4> QED BY <3>2, <4>1, <4>2, <4>5, <4>6
    <3> QED BY <2>1, <3>1, <3>2, <3>3 DEF Doomed
  <2>3. CASE SweepListPartly(x)
    <3>1. PICK listed \in SUBSET OnDisk : \E second \in Versions \cup {NoVersion} :
            /\ v \in (listed \cup pending) \ {seen, second}
            /\ MaxVersion \notin listed \ {seen, second}
      <4>1. PICK listed \in SUBSET OnDisk :
              \E old \in SUBSET {u \in listed : Old(u)}, noted \in {{}, pending},
                 second \in IF listed \subseteq {seen} THEN {NoVersion} ELSE listed \ {seen} :
                /\ sweep' = [sweep EXCEPT ![x].pc = "delete",
                                          ![x].doomed = (old \cup noted) \ {seen, second}]
                /\ astray' = (astray \/ Unpinned(x) \/ MaxVersion \in listed \ {seen, second})
        BY <2>3 DEF SweepListPartly
      <4>2. PICK old \in SUBSET {u \in listed : Old(u)}, noted \in {{}, pending},
                 second \in IF listed \subseteq {seen} THEN {NoVersion} ELSE listed \ {seen} :
                /\ sweep' = [sweep EXCEPT ![x].pc = "delete",
                                          ![x].doomed = (old \cup noted) \ {seen, second}]
                /\ astray' = (astray \/ Unpinned(x) \/ MaxVersion \in listed \ {seen, second})
        BY <4>1
      <4>3. sweep'[x].doomed = (old \cup noted) \ {seen, second}
        BY <1>1, <4>2 DEF SweepRecords
      <4>4. second \in Versions \cup {NoVersion}
        BY <4>2 DEF OnDisk
      <4> QED BY <4>2, <4>3, <4>4
    <3>2. v # seen
      BY <3>1
    <3>3. CASE v \in listed
      <4>1. v \in Versions /\ Exists(v) /\ v # MaxVersion
        BY <3>1, <3>3 DEF OnDisk
      <4> QED BY <3>2, <4>1, MaxVersionIs, Counts
    <3> QED BY <2>1, <3>1, <3>2, <3>3
  <2> QED BY <2>2, <2>3 DEF Lists
<1>3. v # current
  <2>1. CASE seen = current
    BY <1>2, <2>1
  <2>2. CASE seen # current
    <3>1. current = MaxVersion
      BY <1>1, <2>2 DEF Healthy, Spared, Unpinned
    <3> QED BY <1>2, <3>1, MaxVersionIs
  <2> QED BY <2>1, <2>2
<1> QED BY <1>2, <1>3

LEMMA SparedStep ==
  ASSUME Base, Healthy, [Next]_vars, ~astray'
  PROVE  Spared'
<1>1. MaxVersion \in Nat /\ MaxVersion' \in Nat /\ MaxVersion =< MaxVersion'
  BY MaxVersionIs, MaxVersionWillBe, MaxVersionGrows
<1>2. current' = current \/ current' = MaxVersion
  BY Flipped, Changes
<1>3. ASSUME NEW v \in Versions, v < MaxVersion, v # current
      PROVE  v < MaxVersion' /\ v # current'
  <2>1. v \in Nat
    BY Counts
  <2> QED BY <1>1, <1>2, <1>3, <2>1
<1>4. /\ pending \subseteq Versions /\ sweep \in [Actors -> SweepRecords]
      /\ \A x \in Actors : sweep[x].doomed \subseteq Versions
  BY Types DEF Base, SweepRecords
<1>5. ASSUME NEW v \in pending' PROVE v < MaxVersion' /\ v # current'
  <2>1. v \in Versions /\ v < MaxVersion /\ v # current
    <3>1. ASSUME v \in pending
          PROVE  v \in Versions /\ v < MaxVersion /\ v # current
      BY <3>1, <1>4 DEF Healthy, Spared
    <3>2. ASSUME NEW x \in Actors, Deletes(x)
          PROVE  v \in Versions /\ v < MaxVersion /\ v # current
      <4>1. v \in sweep[x].doomed \/ v \in pending
        BY <3>2, <1>5, Collected
      <4>2. v \in sweep[x].doomed => v \in Versions /\ v < MaxVersion /\ v # current
        BY <1>4 DEF Healthy, Spared
      <4> QED BY <3>1, <4>1, <4>2
    <3> QED BY <1>5, <3>1, <3>2, Changes
  <2> QED BY <2>1, <1>3
<1>6. ASSUME NEW x \in Actors, NEW v \in sweep'[x].doomed PROVE v < MaxVersion' /\ v # current'
  <2>1. v \in sweep[x].doomed => v \in Versions /\ v < MaxVersion /\ v # current
    BY <1>4 DEF Healthy, Spared
  <2>2. Lists(x) => v \in Versions /\ v < MaxVersion /\ v # current
    BY <1>6, DoomedIsOld
  <2>3. v \in sweep[x].doomed \/ Lists(x)
    BY <1>6, SweepSteps DEF NoSweep
  <2> QED BY <2>1, <2>2, <2>3, <1>3
<1>7. ASSUME NEW x \in Actors, sweep'[x].pc = "list", ~sweep'[x].blind,
             sweep'[x].current # current'
      PROVE  /\ current' = MaxVersion'
             /\ \A a \in Attempts : attempt'[a].pc \notin {"load", "number", "move"}
  <2>1. sweep'[x] = sweep[x]
    BY <1>7, SweepSteps DEF NoSweep
  <2>2. ASSUME NEW a \in Attempts, Flip(a)
        PROVE  /\ current' = MaxVersion'
               /\ \A b \in Attempts : attempt'[b].pc \notin {"load", "number", "move"}
    <3>1. current' = MaxVersion /\ MaxVersion' = MaxVersion /\ attempt'[a].pc = "flipped"
          /\ attempt[a].pc = "move"
      BY <2>2, Flipped, SameDisk
    <3>2. ASSUME NEW b \in Attempts, b # a
          PROVE  attempt'[b].pc \notin {"load", "number", "move"}
      <4>1. attempt'[b] = attempt[b]
        BY <2>2, <3>2, Goes DEF Flip, Base, Pcs
      <4> QED BY <3>1, <3>2, <4>1, AloneOnTheMove DEF At, Quiet
    <3> QED BY <3>1, <3>2
  <2>3. ASSUME current' = current
        PROVE  /\ current' = MaxVersion'
               /\ \A b \in Attempts : attempt'[b].pc \notin {"load", "number", "move"}
    <3>1. /\ current = MaxVersion
          /\ \A a \in Attempts : attempt[a].pc \notin {"load", "number", "move"}
      BY <1>7, <2>1, <2>3 DEF Healthy, Spared
    <3>2. \A a \in Attempts : ~Begin(a)
      BY <1>7, <2>1 DEF Begin, NoSweepBetweenReads
    <3>3. \A b \in Attempts : attempt'[b].pc \notin {"load", "number", "move"}
      BY <3>1, <3>2, AttemptSteps DEF Verdict, Quiet
    <3>4. \A a \in Attempts : ~MoveMain(a) /\ ~MoveLog(a)
      BY <3>1 DEF MoveMain, MoveLog, At
    <3>5. MaxVersion' = MaxVersion
      BY <3>4, Changes, SameDisk, Collected
    <3> QED BY <2>3, <3>1, <3>3, <3>5
  <2> QED BY <2>2, <2>3, Changes
<1> QED BY <1>5, <1>6, <1>7 DEF Spared
-----------------------------------------------------------------------------
(* Queries *)

LEMMA LiveGraph ==
  ASSUME Base
  PROVE  Live \in BuildOrNone
<1>1. /\ current \in VersionOrNone
      /\ file \in [Versions -> [build : BuildOrNone, parts : SUBSET {"main", "wal"}]]
  BY DEF Base, TypeOK
<1> QED BY <1>1 DEF Live, BuildOrNone, Exists, VersionOrNone

LEMMA LiveNow ==
  ASSUME Base, Healthy
  PROVE  /\ current = NoVersion => Live = NoGraph
         /\ current # NoVersion => Live = file[current].build /\ Live \in Attempts
BY CurrentExists DEF Live, Exists

\* The number of a version that is or was there is not given to another one.
LEMMA NeverReused ==
  ASSUME Base, Healthy, [Next]_vars, NEW v \in Versions, v =< MaxVersion, Exists(v)'
  PROVE  Exists(v) /\ file'[v].build = file[v].build
<1>1. CASE file' = file
  BY <1>1, SameDisk
<1>2. ASSUME NEW a \in Attempts, MoveMain(a) PROVE Exists(v) /\ file'[v].build = file[v].build
  <2>1. PICK u \in Versions :
          MaxVersion < u /\ \A w \in Versions : w # u => file'[w] = file[w] /\ (Exists(w)' <=> Exists(w))
    BY <1>2, MainMoved
  <2>2. v \in Nat /\ u \in Nat /\ MaxVersion \in Nat
    BY Counts, MaxVersionIs
  <2> QED BY <2>1, <2>2
<1>3. ASSUME NEW a \in Attempts, MoveLog(a) PROVE Exists(v) /\ file'[v].build = file[v].build
  BY <1>3, LogMoved
<1>4. ASSUME NEW x \in Actors, Deletes(x) PROVE Exists(v) /\ file'[v].build = file[v].build
  BY <1>4, Collected
<1> QED BY <1>1, <1>2, <1>3, <1>4, Changes

\* One field of a reader's locals at a time.
LEMMA LocalsSet ==
  ASSUME NEW f \in [Readers -> ReaderRecords], NEW r \in Readers
  PROVE  /\ \A x \in {"idle", "sweep", "choose", "open", "answered"} :
              [f EXCEPT ![r].pc = x] \in [Readers -> ReaderRecords]
         /\ \A x \in BuildOrNone \cup {Error} :
              [f EXCEPT ![r].answer = x] \in [Readers -> ReaderRecords]
         /\ \A x \in [version : VersionOrNone, build : BuildOrNone] :
              [f EXCEPT ![r].handle = x] \in [Readers -> ReaderRecords]
         /\ \A x \in 0 .. OpenTries : [f EXCEPT ![r].tries = x] \in [Readers -> ReaderRecords]
         /\ [f EXCEPT ![r].failed = FALSE] \in [Readers -> ReaderRecords]
         /\ [f EXCEPT ![r].failed = TRUE] \in [Readers -> ReaderRecords]
         /\ [f EXCEPT ![r].blind = FALSE] \in [Readers -> ReaderRecords]
         /\ [f EXCEPT ![r].blind = TRUE] \in [Readers -> ReaderRecords]
         /\ \A x \in VersionOrNone : [f EXCEPT ![r].version = x] \in [Readers -> ReaderRecords]
         /\ \A x \in SUBSET BuildOrNone : [f EXCEPT ![r].seen = x] \in [Readers -> ReaderRecords]
<1>1. ASSUME NEW x \in {"idle", "sweep", "choose", "open", "answered"}
      PROVE  [f EXCEPT ![r].pc = x] \in [Readers -> ReaderRecords]
  BY DEF ReaderRecords
<1>2. ASSUME NEW x \in BuildOrNone \cup {Error}
      PROVE  [f EXCEPT ![r].answer = x] \in [Readers -> ReaderRecords]
  BY DEF ReaderRecords
<1>3. ASSUME NEW x \in [version : VersionOrNone, build : BuildOrNone]
      PROVE  [f EXCEPT ![r].handle = x] \in [Readers -> ReaderRecords]
  BY DEF ReaderRecords
<1>4. ASSUME NEW x \in 0 .. OpenTries PROVE [f EXCEPT ![r].tries = x] \in [Readers -> ReaderRecords]
  BY DEF ReaderRecords
<1>5. ASSUME NEW x \in BOOLEAN PROVE [f EXCEPT ![r].failed = x] \in [Readers -> ReaderRecords]
  <2>1. f[r] \in ReaderRecords
    OBVIOUS
  <2>2. [f[r] EXCEPT !.failed = x] \in ReaderRecords
    BY <2>1 DEF ReaderRecords
  <2> QED BY <2>2
<1>6. ASSUME NEW x \in VersionOrNone PROVE [f EXCEPT ![r].version = x] \in [Readers -> ReaderRecords]
  BY DEF ReaderRecords
<1>7. ASSUME NEW x \in SUBSET BuildOrNone PROVE [f EXCEPT ![r].seen = x] \in [Readers -> ReaderRecords]
  BY DEF ReaderRecords
<1>8. ASSUME NEW x \in BOOLEAN PROVE [f EXCEPT ![r].blind = x] \in [Readers -> ReaderRecords]
  <2>1. f[r] \in ReaderRecords
    OBVIOUS
  <2>2. [f[r] EXCEPT !.blind = x] \in ReaderRecords
    BY <2>1 DEF ReaderRecords
  <2> QED BY <2>2
<1> QED BY <1>1, <1>2, <1>3, <1>4, <1>5, <1>6, <1>7, <1>8

Answered(f, r, g) ==
  [f EXCEPT ![r].pc = "answered", ![r].answer = g, ![r].tries = 0,
            ![r].failed = FALSE, ![r].version = NoVersion]

LEMMA Answers ==
  ASSUME NEW f \in [Readers -> ReaderRecords],
         NEW r \in Readers, NEW g \in BuildOrNone \cup {Error},
         reader' = Answered(f, r, g)
  PROVE  /\ reader' \in [Readers -> ReaderRecords]
         /\ reader'[r].pc = "answered" /\ reader'[r].answer = g
         /\ reader'[r].tries = 0 /\ ~reader'[r].failed
         /\ reader'[r].seen = f[r].seen /\ reader'[r].handle = f[r].handle
         /\ reader'[r].blind = f[r].blind
         /\ \A q \in Readers : q # r => reader'[q] = f[q]
<1>1. NoVersion \in VersionOrNone /\ 0 \in 0 .. OpenTries
  BY DEF VersionOrNone
<1>2. PICK f1 : f1 = [f EXCEPT ![r].pc = "answered", ![r].answer = g]
  OBVIOUS
<1>3. /\ f1[r].pc = "answered" /\ f1[r].answer = g
      /\ f1[r].seen = f[r].seen /\ f1[r].handle = f[r].handle
      /\ f1[r].blind = f[r].blind
      /\ \A q \in Readers : q # r => f1[q] = f[q]
  BY <1>2 DEF ReaderRecords
<1>4. PICK f0 \in [Readers -> ReaderRecords] : f0 = [f EXCEPT ![r].pc = "answered"]
  BY LocalsSet
<1>5. f1 \in [Readers -> ReaderRecords]
  <2>1. f1 = [f0 EXCEPT ![r].answer = g]
    BY <1>2, <1>4, Zenon
  <2> QED BY <2>1, LocalsSet
<1>6. PICK f2 \in [Readers -> ReaderRecords] : f2 = [f1 EXCEPT ![r].tries = 0]
  BY <1>1, <1>5, LocalsSet
<1>7. PICK f3 \in [Readers -> ReaderRecords] : f3 = [f2 EXCEPT ![r].failed = FALSE]
  BY LocalsSet
<1>8. reader' = [f3 EXCEPT ![r].version = NoVersion]
  BY <1>2, <1>6, <1>7, Zenon DEF Answered
<1>9. reader' \in [Readers -> ReaderRecords]
  <2>1. PICK f4 \in [Readers -> ReaderRecords] : f4 = [f3 EXCEPT ![r].version = NoVersion]
    BY <1>1, <1>7, LocalsSet
  <2> QED BY <2>1, <1>8
<1>10. /\ f2[r].pc = "answered" /\ f2[r].answer = g /\ f2[r].tries = 0
       /\ f2[r].seen = f[r].seen /\ f2[r].handle = f[r].handle
       /\ f2[r].blind = f[r].blind
       /\ \A q \in Readers : q # r => f2[q] = f[q]
  BY <1>3, <1>5, <1>6 DEF ReaderRecords
<1>11. /\ f3[r].pc = "answered" /\ f3[r].answer = g /\ f3[r].tries = 0 /\ ~f3[r].failed
       /\ f3[r].seen = f[r].seen /\ f3[r].handle = f[r].handle
       /\ f3[r].blind = f[r].blind
       /\ \A q \in Readers : q # r => f3[q] = f[q]
  BY <1>10, <1>6, <1>7 DEF ReaderRecords
<1>12. /\ reader'[r].pc = "answered" /\ reader'[r].answer = g
       /\ reader'[r].tries = 0 /\ reader'[r].failed = f3[r].failed
       /\ reader'[r].seen = f[r].seen /\ reader'[r].handle = f[r].handle
       /\ reader'[r].blind = f[r].blind
       /\ \A q \in Readers : q # r => reader'[q] = f[q]
  BY <1>11, <1>7, <1>8 DEF ReaderRecords
<1> QED BY <1>9, <1>11, <1>12

\* A query begins or ends.
Turned(f, r, pc, seen) ==
  [f EXCEPT ![r].pc = pc, ![r].seen = seen, ![r].answer = NoGraph, ![r].blind = FALSE]

LEMMA Turns ==
  ASSUME NEW f \in [Readers -> ReaderRecords], NEW r \in Readers,
         NEW pc \in {"idle", "sweep"}, NEW seen \in SUBSET BuildOrNone,
         reader' = Turned(f, r, pc, seen)
  PROVE  /\ reader' \in [Readers -> ReaderRecords]
         /\ reader'[r].pc = pc /\ reader'[r].seen = seen
         /\ reader'[r].tries = f[r].tries /\ reader'[r].failed = f[r].failed
         /\ reader'[r].handle = f[r].handle
         /\ \A q \in Readers : q # r => reader'[q] = f[q]
<1>1. PICK f1 \in [Readers -> ReaderRecords] : f1 = [f EXCEPT ![r].pc = pc]
  BY LocalsSet
<1>2. PICK f2 \in [Readers -> ReaderRecords] : f2 = [f1 EXCEPT ![r].seen = seen]
  BY LocalsSet
<1>3. PICK f3 \in [Readers -> ReaderRecords] : f3 = [f2 EXCEPT ![r].answer = NoGraph]
  <2>1. NoGraph \in BuildOrNone \cup {Error}
    BY DEF BuildOrNone
  <2> QED BY <1>2, <2>1, LocalsSet
<1>8. reader' = [f3 EXCEPT ![r].blind = FALSE]
  BY <1>1, <1>2, <1>3, Zenon DEF Turned
<1>4. reader' \in [Readers -> ReaderRecords]
  <2>1. PICK f4 \in [Readers -> ReaderRecords] : f4 = [f3 EXCEPT ![r].blind = FALSE]
    BY <1>3, LocalsSet
  <2> QED BY <2>1, <1>8
<1>5. /\ f1[r].pc = pc /\ f1[r].tries = f[r].tries /\ f1[r].failed = f[r].failed
      /\ f1[r].handle = f[r].handle
      /\ \A q \in Readers : q # r => f1[q] = f[q]
  BY <1>1 DEF ReaderRecords
<1>6. /\ f2[r].pc = pc /\ f2[r].seen = seen
      /\ f2[r].tries = f[r].tries /\ f2[r].failed = f[r].failed /\ f2[r].handle = f[r].handle
      /\ \A q \in Readers : q # r => f2[q] = f[q]
  BY <1>1, <1>2, <1>5 DEF ReaderRecords
<1>9. /\ f3[r].pc = pc /\ f3[r].seen = seen
      /\ f3[r].tries = f[r].tries /\ f3[r].failed = f[r].failed /\ f3[r].handle = f[r].handle
      /\ \A q \in Readers : q # r => f3[q] = f[q]
  BY <1>2, <1>3, <1>6 DEF ReaderRecords
<1>7. /\ reader'[r].pc = pc /\ reader'[r].seen = seen
      /\ reader'[r].tries = f[r].tries /\ reader'[r].failed = f[r].failed
      /\ reader'[r].handle = f[r].handle
      /\ \A q \in Readers : q # r => reader'[q] = f[q]
  BY <1>3, <1>8, <1>9 DEF ReaderRecords
<1> QED BY <1>4, <1>7

\* An answer is right for what the query has seen.
RightAnswer(locals) ==
  \/ locals.answer \in locals.seen \cup {Error}
  \/ locals.answer = NoGraph /\ (locals.blind \/ Cardinality(locals.seen) > OpenTries)

ReadingMoves(r) ==
  \/ /\ reader[r].pc = "idle" /\ reader'[r].pc = "sweep" /\ reader'[r].seen = {Live}
     /\ reader'[r].handle = reader[r].handle /\ reader'[r].tries = reader[r].tries
  \/ /\ reader[r].pc = "sweep" /\ reader'[r].pc = "choose" /\ current # NoVersion
     /\ reader'[r].seen = reader[r].seen /\ reader'[r].handle = reader[r].handle
     /\ reader'[r].tries = reader[r].tries /\ reader'[r].failed = reader[r].failed
     /\ reader'[r].blind = reader[r].blind
  \/ /\ reader[r].pc = "choose" /\ reader'[r].pc = "open" /\ reader[r].tries < OpenTries
     /\ reader'[r].version = current
     /\ reader'[r].seen = reader[r].seen /\ reader'[r].handle = reader[r].handle
     /\ reader'[r].tries = reader[r].tries /\ reader'[r].failed = reader[r].failed
     /\ reader'[r].blind = reader[r].blind
  \/ /\ reader[r].pc = "open" /\ reader'[r].pc = "choose" /\ reader'[r].tries = reader[r].tries + 1
     /\ reader'[r].seen = reader[r].seen /\ reader'[r].handle = reader[r].handle
     /\ \/ reader'[r].failed \/ reader'[r].blind
        \/ /\ ~Exists(reader[r].version) /\ reader'[r].failed = reader[r].failed
           /\ reader'[r].blind = reader[r].blind
  \/ /\ reader[r].pc \in {"sweep", "choose", "open"} /\ reader'[r].pc = "answered"
     /\ reader'[r].tries = 0 /\ ~reader'[r].failed /\ reader'[r].seen = reader[r].seen
     /\ \/ reader'[r].handle = reader[r].handle
        \/ /\ reader[r].pc = "open" /\ Exists(reader[r].version)
           /\ reader'[r].handle.version = reader[r].version
           /\ reader'[r].handle.build = file[reader[r].version].build
     /\ Healthy => RightAnswer(reader'[r])
  \/ /\ reader[r].pc = "answered" /\ reader'[r].pc = "idle" /\ reader'[r].seen = {}
     /\ reader'[r].tries = reader[r].tries /\ reader'[r].failed = reader[r].failed
     /\ reader'[r].handle = reader[r].handle
  \/ /\ reader[r].pc = "idle" /\ reader'[r].pc = "idle" /\ reader'[r].handle.version = NoVersion
     /\ reader'[r].seen = reader[r].seen
     /\ reader'[r].tries = reader[r].tries /\ reader'[r].failed = reader[r].failed

LEMMA ReaderAnswers ==
  ASSUME Base, NEW r \in Readers, NEW g \in BuildOrNone \cup {Error}, Answer(r, g)
  PROVE  /\ reader' \in [Readers -> ReaderRecords]
         /\ reader'[r].pc = "answered" /\ reader'[r].answer = g
         /\ reader'[r].tries = 0 /\ ~reader'[r].failed
         /\ reader'[r].seen = reader[r].seen /\ reader'[r].handle = reader[r].handle
         /\ reader'[r].blind = reader[r].blind
         /\ \A q \in Readers : q # r => reader'[q] = reader[q]
<1>1. PICK f \in [Readers -> ReaderRecords] : f = reader
  BY Types DEF Base
<1>2. reader' = Answered(f, r, g)
  BY <1>1, Zenon DEF Answer, Answered
<1> QED BY <1>1, <1>2, Answers

\* A query that cannot read CURRENT answers that there is no graph.
LEMMA Misreads ==
  ASSUME Base, NEW r \in Readers, Misread(r)
  PROVE  /\ reader' \in [Readers -> ReaderRecords]
         /\ reader'[r].pc = "answered" /\ reader'[r].answer = NoGraph /\ reader'[r].blind
         /\ reader'[r].tries = 0 /\ ~reader'[r].failed
         /\ reader'[r].seen = reader[r].seen /\ reader'[r].handle = reader[r].handle
         /\ \A q \in Readers : q # r => reader'[q] = reader[q]
<1>1. reader \in [Readers -> ReaderRecords]
  BY Types DEF Base
<1>2. PICK f \in [Readers -> ReaderRecords] : f = [reader EXCEPT ![r].blind = TRUE]
  BY <1>1, LocalsSet
<1>3. /\ f[r].blind /\ f[r].seen = reader[r].seen /\ f[r].handle = reader[r].handle
      /\ \A q \in Readers : q # r => f[q] = reader[q]
  BY <1>1, <1>2 DEF ReaderRecords
<1>4. PICK g \in BuildOrNone \cup {Error} : g = NoGraph
  BY DEF BuildOrNone
<1>5. reader' = Answered(f, r, g)
  BY <1>2, <1>4, Zenon DEF Misread, Answered
<1>6. /\ reader' \in [Readers -> ReaderRecords]
      /\ reader'[r].pc = "answered" /\ reader'[r].answer = g
      /\ reader'[r].tries = 0 /\ ~reader'[r].failed
      /\ reader'[r].seen = f[r].seen /\ reader'[r].handle = f[r].handle
      /\ reader'[r].blind = f[r].blind
      /\ \A q \in Readers : q # r => reader'[q] = f[q]
  <2>1. f \in [Readers -> ReaderRecords] /\ g \in BuildOrNone \cup {Error}
    BY <1>2, <1>4
  <2> QED BY <2>1, <1>5, Answers
<1> QED BY <1>3, <1>4, <1>6

LEMMA ReadingSteps ==
  ASSUME Base, NEW r \in Readers, Reading(r)
  PROVE  /\ reader' \in [Readers -> ReaderRecords]
         /\ ReadingMoves(r)
         /\ \A q \in Readers : q # r => reader'[q] = reader[q]
<1>1. /\ reader \in [Readers -> ReaderRecords] /\ current \in VersionOrNone
      /\ file \in [Versions -> [build : BuildOrNone, parts : SUBSET {"main", "wal"}]]
  BY Types DEF Base
<1>2. /\ NoVersion \in VersionOrNone /\ 0 \in 0 .. OpenTries
      /\ NoGraph \in BuildOrNone /\ NoGraph \in BuildOrNone \cup {Error}
      /\ Error \in BuildOrNone \cup {Error}
  BY DEF VersionOrNone, BuildOrNone
<1>3. Live \in BuildOrNone
  BY LiveGraph
<1>4. reader[r].tries \in Nat
  BY <1>1 DEF ReaderRecords
<1>a. ASSUME Misread(r), reader[r].pc \in {"sweep", "choose"}
      PROVE  /\ reader' \in [Readers -> ReaderRecords]
             /\ ReadingMoves(r)
             /\ \A q \in Readers : q # r => reader'[q] = reader[q]
  <2>1. RightAnswer(reader'[r])
    BY <1>a, Misreads DEF RightAnswer
  <2> QED BY <1>a, <2>1, Misreads DEF ReadingMoves
<1>5. CASE Query(r)
  <2>1. /\ reader[r].pc = "idle"
        /\ reader' = [reader EXCEPT ![r].pc = "sweep", ![r].seen = {Live}, ![r].answer = NoGraph,
                                    ![r].blind = FALSE]
    BY <1>5 DEF Query
  <2>2. {Live} \in SUBSET BuildOrNone
    BY <1>3
  <2>3. PICK f \in [Readers -> ReaderRecords] : f = reader
    BY <1>1
  <2>4. PICK seen \in SUBSET BuildOrNone : seen = {Live}
    BY <2>2
  <2>a. PICK pc \in {"idle", "sweep"}, s \in SUBSET BuildOrNone : pc = "sweep" /\ s = seen
    BY <2>4
  <2>5. reader' = Turned(f, r, pc, s)
    BY <2>1, <2>3, <2>4, <2>a, Zenon DEF Turned
  <2>6. /\ reader' \in [Readers -> ReaderRecords]
        /\ reader'[r].pc = pc /\ reader'[r].seen = s
        /\ reader'[r].tries = f[r].tries /\ reader'[r].handle = f[r].handle
        /\ reader'[r].failed = f[r].failed
        /\ \A q \in Readers : q # r => reader'[q] = f[q]
    <3>1. f \in [Readers -> ReaderRecords] /\ pc \in {"idle", "sweep"} /\ s \in SUBSET BuildOrNone
      BY <2>a, <2>3
    <3> QED BY <3>1, <2>5, Turns
  <2> QED BY <2>1, <2>a, <2>3, <2>4, <2>6 DEF ReadingMoves
<1>6. CASE Look(r)
  <2>1. reader[r].pc = "sweep" /\ (Healthy => Live \in reader[r].seen)
    BY <1>6 DEF Look, Healthy, Witnessed
  <2>2. CASE current = NoVersion /\ Answer(r, NoGraph)
    <3>1. /\ reader' \in [Readers -> ReaderRecords]
          /\ reader'[r].pc = "answered" /\ reader'[r].answer = NoGraph
          /\ reader'[r].tries = 0 /\ ~reader'[r].failed
          /\ reader'[r].seen = reader[r].seen /\ reader'[r].handle = reader[r].handle
          /\ \A q \in Readers : q # r => reader'[q] = reader[q]
      BY <2>2, <1>2, ReaderAnswers
    <3>2. Healthy => NoGraph \in reader[r].seen
      BY <2>1, <2>2, LiveNow
    <3>3. Healthy => RightAnswer(reader'[r])
      BY <3>1, <3>2 DEF RightAnswer
    <3> QED BY <2>1, <3>1, <3>3 DEF ReadingMoves
  <2>3. CASE /\ current # NoVersion /\ current = reader[r].handle.version
             /\ Answer(r, reader[r].handle.build)
    <3>1. Healthy => reader[r].handle.build = Live
      BY <2>3, CurrentExists, LiveNow DEF Healthy, Opened
    <3>4. reader[r].handle.build \in BuildOrNone \cup {Error}
      BY <1>1 DEF ReaderRecords
    <3>2. /\ reader' \in [Readers -> ReaderRecords]
          /\ reader'[r].pc = "answered" /\ reader'[r].answer = reader[r].handle.build
          /\ reader'[r].tries = 0 /\ ~reader'[r].failed
          /\ reader'[r].seen = reader[r].seen /\ reader'[r].handle = reader[r].handle
          /\ \A q \in Readers : q # r => reader'[q] = reader[q]
      BY <2>3, <3>4, ReaderAnswers
    <3>3. Healthy => RightAnswer(reader'[r])
      BY <2>1, <3>1, <3>2 DEF RightAnswer
    <3> QED BY <2>1, <3>2, <3>3 DEF ReadingMoves
  <2>4. CASE current # NoVersion /\ reader' = [reader EXCEPT ![r].pc = "choose"]
    <3>a. PICK f \in [Readers -> ReaderRecords] : f = reader
      BY <1>1
    <3>b. [f EXCEPT ![r].pc = "choose"] \in [Readers -> ReaderRecords]
      BY LocalsSet
    <3>1. reader' \in [Readers -> ReaderRecords]
      BY <2>4, <3>a, <3>b, Zenon
    <3>2. /\ reader'[r].pc = "choose"
          /\ reader'[r].seen = reader[r].seen /\ reader'[r].handle = reader[r].handle
          /\ reader'[r].tries = reader[r].tries /\ reader'[r].failed = reader[r].failed
          /\ reader'[r].blind = reader[r].blind
          /\ \A q \in Readers : q # r => reader'[q] = reader[q]
      BY <1>1, <2>4 DEF ReaderRecords
    <3> QED BY <2>1, <2>4, <3>1, <3>2 DEF ReadingMoves
  <2> QED BY <1>6, <2>1, <2>2, <2>3, <2>4, <1>a DEF Look
<1>7. CASE Choose(r) /\ reader' = [reader EXCEPT ![r].pc = "open", ![r].version = current]
  <2>a. PICK f \in [Readers -> ReaderRecords] : f = reader
    BY <1>1
  <2>b. PICK f1 \in [Readers -> ReaderRecords] : f1 = [f EXCEPT ![r].pc = "open"]
    BY LocalsSet
  <2>c. [f1 EXCEPT ![r].version = current] \in [Readers -> ReaderRecords]
    BY <1>1, LocalsSet
  <2>d. reader' = [reader EXCEPT ![r].pc = "open", ![r].version = current]
    BY <1>7
  <2>e. reader' = [f1 EXCEPT ![r].version = current]
    BY <2>a, <2>b, <2>d, Zenon
  <2>f. reader' \in [Readers -> ReaderRecords]
    BY <2>c, <2>e, Zenon
  <2>1. /\ reader' \in [Readers -> ReaderRecords]
        /\ reader'[r].pc = "open" /\ reader'[r].version = current
        /\ reader'[r].seen = reader[r].seen /\ reader'[r].handle = reader[r].handle
        /\ reader'[r].tries = reader[r].tries /\ reader'[r].failed = reader[r].failed
        /\ reader'[r].blind = reader[r].blind
        /\ \A q \in Readers : q # r => reader'[q] = reader[q]
    BY <1>1, <2>d, <2>f DEF ReaderRecords
  <2> QED BY <2>1, <1>7 DEF Choose, ReadingMoves
<1>15. CASE Choose(r) /\ Misread(r)
  BY <1>15, <1>a DEF Choose
<1>8. CASE Open(r) /\ Exists(reader[r].version)
  <2>1. PICK v \in Versions : v = reader[r].version
    BY <1>1, <1>8 DEF Exists, VersionOrNone, ReaderRecords
  <2>2. /\ reader[r].pc = "open"
        /\ reader' = [reader EXCEPT ![r].handle = [version |-> v, build |-> file[v].build],
                             ![r].pc = "answered", ![r].answer = file[v].build,
                             ![r].tries = 0, ![r].failed = FALSE, ![r].version = NoVersion]
    BY <1>8, <2>1 DEF Open
  <2>3. (Healthy => file[v].build \in reader[r].seen) /\ file[v].build \in BuildOrNone
    BY <1>1, <1>8, <2>1, <2>2 DEF Healthy, Opened
  <2>4. PICK h \in [version : VersionOrNone, build : BuildOrNone] :
          h = [version |-> v, build |-> file[v].build]
    BY <2>3 DEF VersionOrNone
  <2>5. /\ reader' \in [Readers -> ReaderRecords]
        /\ reader'[r].pc = "answered" /\ reader'[r].answer = file[v].build
        /\ reader'[r].tries = 0 /\ ~reader'[r].failed /\ reader'[r].seen = reader[r].seen
        /\ reader'[r].handle.version = v /\ reader'[r].handle.build = file[v].build
        /\ \A q \in Readers : q # r => reader'[q] = reader[q]
    <3>1. PICK f \in [Readers -> ReaderRecords] : f = [reader EXCEPT ![r].handle = h]
      BY <1>1, LocalsSet
    <3>2. /\ f[r].handle = h
          /\ f[r].seen = reader[r].seen /\ \A q \in Readers : q # r => f[q] = reader[q]
      BY <1>1, <3>1 DEF ReaderRecords
    <3>a. h.version = v /\ h.build = file[v].build
      BY <2>4
    <3>3. reader' = Answered(f, r, file[v].build)
      BY <2>2, <2>4, <3>1, Zenon DEF Answered
    <3>4. PICK g \in BuildOrNone \cup {Error} : g = file[v].build
      BY <2>3
    <3>5. reader' = Answered(f, r, g)
      BY <3>3, <3>4
    <3>6. /\ reader' \in [Readers -> ReaderRecords]
          /\ reader'[r].pc = "answered" /\ reader'[r].answer = g
          /\ reader'[r].tries = 0 /\ ~reader'[r].failed
          /\ reader'[r].seen = f[r].seen /\ reader'[r].handle = f[r].handle
          /\ \A q \in Readers : q # r => reader'[q] = f[q]
      <4>1. f \in [Readers -> ReaderRecords] /\ g \in BuildOrNone \cup {Error}
        BY <3>1, <3>4
      <4> QED BY <4>1, <3>5, Answers
    <3> QED BY <3>2, <3>a, <3>4, <3>6
  <2>6. Healthy => RightAnswer(reader'[r])
    BY <2>3, <2>5 DEF RightAnswer
  <2> QED BY <1>8, <2>1, <2>2, <2>5, <2>6 DEF ReadingMoves
<1>9. ASSUME reader[r].pc = "open"
      PROVE  reader[r].tries + 1 \in 0 .. OpenTries
  BY <1>4, <1>9 DEF Base, Trying
<1>10. CASE Open(r) /\ ~Exists(reader[r].version)
  BY <1>1, <1>9, <1>10 DEF Open, ReaderRecords, ReadingMoves
<1>11. CASE OpenFails(r)
  <2>1. reader[r].pc = "open" /\ reader[r].tries + 1 \in 0 .. OpenTries
    BY <1>9, <1>11 DEF OpenFails
  <2>2. CASE reader' = [reader EXCEPT ![r].pc = "choose", ![r].tries = @ + 1, ![r].failed = TRUE]
    BY <1>1, <2>1, <2>2 DEF ReaderRecords, ReadingMoves
  <2>3. CASE reader' = [reader EXCEPT ![r].pc = "choose", ![r].tries = @ + 1, ![r].blind = TRUE]
    BY <1>1, <2>1, <2>3 DEF ReaderRecords, ReadingMoves
  <2> QED BY <1>11, <2>2, <2>3 DEF OpenFails
<1>12. CASE GiveUp(r)
  <2> DEFINE g == IF reader[r].failed THEN Error ELSE NoGraph
  <2>1. g \in BuildOrNone \cup {Error} /\ Answer(r, g) /\ reader[r].pc = "choose" /\ reader[r].tries = OpenTries
    BY <1>2, <1>12 DEF GiveUp
  <2>2. Healthy /\ ~reader[r].failed /\ ~reader[r].blind => OpenTries < Cardinality(reader[r].seen)
    BY <2>1 DEF Healthy, Witnessed
  <2>3. \/ g = Error
        \/ g = NoGraph /\ (Healthy => reader[r].blind \/ OpenTries < Cardinality(reader[r].seen))
    BY <2>2
  <2> HIDE DEF g
  <2>4. /\ reader' \in [Readers -> ReaderRecords]
        /\ reader'[r].pc = "answered" /\ reader'[r].answer = g
        /\ reader'[r].tries = 0 /\ ~reader'[r].failed
        /\ reader'[r].seen = reader[r].seen /\ reader'[r].handle = reader[r].handle
        /\ reader'[r].blind = reader[r].blind
        /\ \A q \in Readers : q # r => reader'[q] = reader[q]
    BY <2>1, ReaderAnswers
  <2>5. Cardinality(reader[r].seen) \in Nat
    <3>1. reader[r].seen \subseteq BuildOrNone
      BY <1>1 DEF ReaderRecords
    <3>2. IsFiniteSet(BuildOrNone)
      BY FS_AddElement DEF BuildOrNone
    <3> QED BY <3>1, <3>2, FS_Subset, FS_CardinalityType
  <2>6. Healthy => RightAnswer(reader'[r])
    BY <2>3, <2>4, <2>5 DEF RightAnswer
  <2> QED BY <2>1, <2>4, <2>6 DEF ReadingMoves
<1>13. CASE Return(r)
  <2>1. /\ reader[r].pc = "answered"
        /\ reader' = [reader EXCEPT ![r].pc = "idle", ![r].seen = {}, ![r].answer = NoGraph,
                                    ![r].blind = FALSE]
    BY <1>13 DEF Return
  <2>2. PICK f \in [Readers -> ReaderRecords] : f = reader
    BY <1>1
  <2>a. PICK pc \in {"idle", "sweep"}, s \in SUBSET BuildOrNone : pc = "idle" /\ s = {}
    OBVIOUS
  <2>3. reader' = Turned(f, r, pc, s)
    BY <2>1, <2>2, <2>a, Zenon DEF Turned
  <2>4. /\ reader' \in [Readers -> ReaderRecords]
        /\ reader'[r].pc = pc /\ reader'[r].seen = s
        /\ reader'[r].tries = f[r].tries /\ reader'[r].handle = f[r].handle
        /\ reader'[r].failed = f[r].failed
        /\ \A q \in Readers : q # r => reader'[q] = f[q]
    <3>1. f \in [Readers -> ReaderRecords] /\ pc \in {"idle", "sweep"} /\ s \in SUBSET BuildOrNone
      BY <2>a, <2>2
    <3> QED BY <3>1, <2>3, Turns
  <2> QED BY <2>1, <2>a, <2>2, <2>4 DEF ReadingMoves
<1>14. CASE CloseStore(r)
  <2>1. NoHandle \in [version : VersionOrNone, build : BuildOrNone] /\ NoHandle.version = NoVersion
    BY <1>2 DEF NoHandle
  <2>2. reader[r].pc = "idle" /\ reader' = [reader EXCEPT ![r].handle = NoHandle]
    BY <1>14 DEF CloseStore
  <2>a. PICK f \in [Readers -> ReaderRecords] : f = reader
    BY <1>1
  <2>b. [f EXCEPT ![r].handle = NoHandle] \in [Readers -> ReaderRecords]
    BY <2>1, LocalsSet
  <2>3. reader' \in [Readers -> ReaderRecords]
    BY <2>2, <2>a, <2>b, Zenon
  <2>4. /\ reader'[r].pc = "idle" /\ reader'[r].handle.version = NoVersion
        /\ reader'[r].seen = reader[r].seen
        /\ reader'[r].tries = reader[r].tries /\ reader'[r].failed = reader[r].failed
        /\ \A q \in Readers : q # r => reader'[q] = reader[q]
    BY <1>1, <2>1, <2>2 DEF ReaderRecords
  <2> QED BY <2>2, <2>3, <2>4 DEF ReadingMoves
<1>16. Choose(r) => Misread(r) \/ reader' = [reader EXCEPT ![r].pc = "open", ![r].version = current]
  BY DEF Choose
<1> QED BY <1>5, <1>6, <1>7, <1>8, <1>10, <1>11, <1>12, <1>13, <1>14, <1>15, <1>16 DEF Reading

\* What is live changes when CURRENT does, and then to a new graph.
LEMMA LiveSteps ==
  ASSUME Base, Healthy, [Next]_vars, ~astray'
  PROVE  /\ current' = current => Live' = Live
         /\ \A a \in Attempts : Flip(a) => Live' = a /\ current' # NoVersion
<1>1. ASSUME current' = current PROVE Live' = Live
  <2>1. CASE current = NoVersion
    BY <1>1, <2>1 DEF Live, Exists
  <2>2. CASE current # NoVersion
    <3>1. PICK v \in Versions : v = current
      BY <2>2, CurrentExists
    <3>2. file'[v] = file[v] /\ Exists(v)' /\ Exists(v)
      BY <3>1, CurrentKept
    <3>3. Live = file[v].build
      BY <3>1, <3>2 DEF Live
    <3>4. current' = v
      BY <1>1, <3>1
    <3>5. Live' = file'[v].build
      BY <3>2, <3>4 DEF Live
    <3> QED BY <3>2, <3>3, <3>5
  <2> QED BY <2>1, <2>2
<1>2. ASSUME NEW a \in Attempts, Flip(a) PROVE Live' = a /\ current' # NoVersion
  <2>1. PICK v \in Versions : current' = v /\ Exists(v) /\ file[v].build = a
    BY <1>2, Flipped
  <2>2. file' = file
    BY <1>2, Flipped
  <2>3. Exists(v)'
    BY <2>1, <2>2 DEF Exists
  <2>4. v # NoVersion
    BY <2>1 DEF Exists
  <2> QED BY <2>1, <2>2, <2>3, <2>4 DEF Live
<1> QED BY <1>1, <1>2

LEMMA Finite ==
  ASSUME NEW S, S \subseteq BuildOrNone
  PROVE  IsFiniteSet(S) /\ Cardinality(S) \in Nat
<1>1. IsFiniteSet(BuildOrNone)
  BY FS_AddElement DEF BuildOrNone
<1> QED BY <1>1, FS_Subset, FS_CardinalityType

\* Every query under way sees what becomes live.
Watches(r, g) ==
  \/ reader[r].pc = "idle" /\ reader'[r] = reader[r]
  \/ /\ reader[r].pc # "idle" /\ reader'[r].pc = reader[r].pc
     /\ reader'[r].handle = reader[r].handle /\ reader'[r].version = reader[r].version
     /\ reader'[r].tries = reader[r].tries /\ reader'[r].failed = reader[r].failed
     /\ reader'[r].blind = reader[r].blind /\ reader'[r].answer = reader[r].answer
     /\ reader'[r].seen = reader[r].seen \cup {g}

LEMMA Witnesses ==
  ASSUME Base, NEW g \in BuildOrNone, reader' = Witness(reader, g)
  PROVE  /\ reader' \in [Readers -> ReaderRecords]
         /\ \A r \in Readers : Watches(r, g)
<1>1. reader \in [Readers -> ReaderRecords]
  BY Types DEF Base
<1>2. reader' = [r \in Readers |-> IF reader[r].pc = "idle" THEN reader[r]
                                   ELSE [reader[r] EXCEPT !.seen = @ \cup {g}]]
  BY DEF Witness
<1>3. reader' \in [Readers -> ReaderRecords]
  BY <1>1, <1>2 DEF ReaderRecords
<1>4. ASSUME NEW r \in Readers PROVE Watches(r, g)
  <2>1. CASE reader[r].pc = "idle"
    BY <1>2, <2>1 DEF Watches
  <2>2. CASE reader[r].pc # "idle"
    <3>1. reader'[r] = [reader[r] EXCEPT !.seen = @ \cup {g}]
      BY <1>2, <2>2
    <3>2. PICK locals \in ReaderRecords : locals = reader[r]
      BY <1>1
    <3>3. reader'[r] = [locals EXCEPT !.seen = @ \cup {g}]
      BY <3>1, <3>2
    <3>4. /\ reader'[r].pc = reader[r].pc
          /\ reader'[r].handle = reader[r].handle /\ reader'[r].version = reader[r].version
          /\ reader'[r].tries = reader[r].tries /\ reader'[r].failed = reader[r].failed
          /\ reader'[r].blind = reader[r].blind /\ reader'[r].answer = reader[r].answer
          /\ reader'[r].seen = reader[r].seen \cup {g}
      BY <3>2, <3>3 DEF ReaderRecords
    <3> QED BY <2>2, <3>4 DEF Watches
  <2> QED BY <2>1, <2>2
<1> QED BY <1>3, <1>4

\* What a step does to a reader, whatever went astray.
LEMMA ReaderMoves ==
  ASSUME Base, [Next]_vars
  PROVE  /\ reader' \in [Readers -> ReaderRecords]
         /\ \A r \in Readers :
              \/ reader'[r] = reader[r]
              \/ \E g \in BuildOrNone : Watches(r, g)
              \/ ReadingMoves(r)
<1>1. /\ reader \in [Readers -> ReaderRecords]
      /\ file \in [Versions -> [build : BuildOrNone, parts : SUBSET {"main", "wal"}]]
  BY Types DEF Base
<1>2. CASE reader' = reader
  BY <1>1, <1>2
<1>3. CASE \E g \in BuildOrNone : reader' = Witness(reader, g)
  BY <1>3, Witnesses
<1>4. ASSUME NEW a \in Attempts, MoveMain(a)
      PROVE  reader' = reader \/ \E g \in BuildOrNone : reader' = Witness(reader, g)
  BY <1>4 DEF MoveMain, BuildOrNone
<1>5. ASSUME NEW a \in Attempts, Flip(a)
      PROVE  \E g \in BuildOrNone : reader' = Witness(reader, g)
  <2>1. PICK v \in Versions : v = attempt[a].version
    BY <1>5 DEF Base, Behind, Flip
  <2>2. reader' = Witness(reader, IF Exists(v) THEN file[v].build ELSE NoGraph)
    BY <1>5, <2>1 DEF Flip
  <2>3. (IF Exists(v) THEN file[v].build ELSE NoGraph) \in BuildOrNone
    BY <1>1 DEF BuildOrNone
  <2> QED BY <2>2, <2>3
<1>6. ASSUME NEW x \in Actors, Deletes(x)
      PROVE  reader' = reader \/ \E g \in BuildOrNone : reader' = Witness(reader, g)
  BY <1>6, Removes DEF Removed, BuildOrNone
<1>7. ASSUME NEW q \in Readers, Reading(q)
      PROVE  /\ reader' \in [Readers -> ReaderRecords]
             /\ \A r \in Readers : reader'[r] = reader[r] \/ ReadingMoves(r)
  BY <1>7, ReadingSteps
<1> QED BY <1>2, <1>3, <1>4, <1>5, <1>6, <1>7, Changes

LEMMA TryingStep ==
  ASSUME Base, [Next]_vars
  PROVE  Trying'
<1> SUFFICES ASSUME NEW r \in Readers, reader'[r].pc = "open" PROVE reader'[r].tries < OpenTries
  BY DEF Trying
<1>1. reader[r].pc = "open" => reader[r].tries < OpenTries
  BY DEF Base, Trying
<1>2. CASE reader'[r] = reader[r]
  BY <1>1, <1>2
<1>3. CASE \E g \in BuildOrNone : Watches(r, g)
  BY <1>1, <1>3 DEF Watches
<1>4. CASE ReadingMoves(r)
  BY <1>4 DEF ReadingMoves
<1> QED BY <1>2, <1>3, <1>4, ReaderMoves

\* Every query under way sees the graph that a load has just made live, and has
\* not seen it before.
Sees(r, a) ==
  /\ Watches(r, a)
  /\ reader[r].pc # "idle" => Cardinality(reader'[r].seen) = Cardinality(reader[r].seen) + 1

LEMMA Sights ==
  ASSUME Base, Healthy, NEW a \in Attempts, Flip(a), ~astray'
  PROVE  /\ reader' \in [Readers -> ReaderRecords]
         /\ \A r \in Readers : Sees(r, a)
<1>1. reader \in [Readers -> ReaderRecords] /\ a \in BuildOrNone /\ reader' = Witness(reader, a)
  BY Types, Flipped DEF Base, BuildOrNone
<1>2. reader' \in [Readers -> ReaderRecords] /\ \A r \in Readers : Watches(r, a)
  BY <1>1, Witnesses
<1>3. ASSUME NEW r \in Readers, reader[r].pc # "idle"
      PROVE  Cardinality(reader'[r].seen) = Cardinality(reader[r].seen) + 1
  <2>1. reader'[r].seen = reader[r].seen \cup {a}
    BY <1>2, <1>3 DEF Watches
  <2>2. reader[r].seen \subseteq BuildOrNone
    BY <1>1 DEF ReaderRecords
  <2>3. a \notin reader[r].seen
    <3>1. attempt[a].pc = "move" /\ a # NoGraph
      BY Flipped
    <3> QED BY <3>1 DEF Healthy, Witnessed, Unpublished
  <2> QED BY <2>1, <2>2, <2>3, Finite, FS_AddElement
<1> QED BY <1>2, <1>3 DEF Sees

\* What a step does to a reader.
LEMMA ReaderSteps ==
  ASSUME Base, Healthy, [Next]_vars, ~astray'
  PROVE  /\ reader' \in [Readers -> ReaderRecords]
         /\ \A r \in Readers :
              \/ reader'[r] = reader[r] /\ Live' = Live /\ current' = current
              \/ \E a \in Attempts : Flip(a) /\ Sees(r, a)
              \/ ReadingMoves(r) /\ UNCHANGED <<file, current, attempt, Live>>
<1>1. reader \in [Readers -> ReaderRecords]
  BY Types DEF Base
<1>2. CASE \E a \in Attempts : Flip(a)
  BY <1>2, Sights
<1>3. CASE ~ \E a \in Attempts : Flip(a)
  <2>1. current' = current /\ Live' = Live
    BY <1>3, Changes, LiveSteps
  <2>2. CASE reader' = reader
    BY <1>1, <2>1, <2>2
  <2>3. ASSUME NEW a \in Attempts, MoveMain(a) PROVE reader' = reader
    BY <2>3, MainMoved
  <2>5. ASSUME NEW x \in Actors, Deletes(x) PROVE reader' = reader
    BY <2>5, Collected
  <2>4. ASSUME NEW q \in Readers, Reading(q)
        PROVE  /\ reader' \in [Readers -> ReaderRecords]
               /\ \A r \in Readers :
                    \/ reader'[r] = reader[r] /\ Live' = Live /\ current' = current
                    \/ ReadingMoves(r) /\ UNCHANGED <<file, current, attempt, Live>>
    <3>1. UNCHANGED <<file, current, attempt>>
      BY <2>4 DEF Reading, Query, Look, Choose, Open, OpenFails, GiveUp, Return, CloseStore
    <3> QED BY <2>1, <2>4, <3>1, ReadingSteps
  <2> QED BY <1>3, <2>2, <2>3, <2>4, <2>5, Changes
<1> QED BY <1>2, <1>3

LEMMA OpenedStep ==
  ASSUME Base, Healthy, [Next]_vars, ~astray'
  PROVE  Opened'
<1>1. /\ reader \in [Readers -> ReaderRecords] /\ reader' \in [Readers -> ReaderRecords]
      /\ current \in VersionOrNone
  BY Types, ReaderMoves DEF Base
<1>2. MaxVersion \in Nat /\ MaxVersion' \in Nat /\ MaxVersion =< MaxVersion'
  BY MaxVersionIs, MaxVersionWillBe, MaxVersionGrows
<1>3. ASSUME NEW v \in VersionOrNone, v =< MaxVersion
      PROVE  v =< MaxVersion'
  <2>1. v \in Nat
    BY Counts DEF VersionOrNone, NoVersion
  <2> QED BY <1>2, <1>3, <2>1
<1>4. ASSUME NEW v \in VersionOrNone, v # NoVersion, v =< MaxVersion, Exists(v)'
      PROVE  Exists(v) /\ file'[v].build = file[v].build
  BY <1>4, NeverReused DEF VersionOrNone
<1>5. current # NoVersion => current' # NoVersion
  BY LiveSteps, Changes
<1> SUFFICES ASSUME NEW r \in Readers
             PROVE  \E h \in VersionOrNone, v \in VersionOrNone :
                      /\ h = reader'[r].handle.version /\ v = reader'[r].version
                      /\ h =< MaxVersion'
                      /\ h # NoVersion /\ Exists(h)' => file'[h].build = reader'[r].handle.build
                      /\ reader'[r].pc \in {"choose", "open"} => current' # NoVersion
                      /\ reader'[r].pc = "open" =>
                           /\ v # NoVersion
                           /\ v =< MaxVersion'
                           /\ Exists(v)' => file'[v].build \in reader'[r].seen
  BY DEF Opened
<1>6. PICK h \in VersionOrNone, v \in VersionOrNone :
        h = reader[r].handle.version /\ v = reader[r].version
  BY <1>1 DEF ReaderRecords
<1>7. PICK h1 \in VersionOrNone, v1 \in VersionOrNone :
        h1 = reader'[r].handle.version /\ v1 = reader'[r].version
  BY <1>1 DEF ReaderRecords
<1>8. /\ h =< MaxVersion
      /\ h # NoVersion /\ Exists(h) => file[h].build = reader[r].handle.build
      /\ reader[r].pc \in {"choose", "open"} => current # NoVersion
      /\ reader[r].pc = "open" =>
           /\ v # NoVersion
           /\ v =< MaxVersion
           /\ Exists(v) => file[v].build \in reader[r].seen
  BY <1>6 DEF Healthy, Opened
<1>9. ASSUME reader'[r].handle = reader[r].handle
      PROVE  /\ h1 =< MaxVersion'
             /\ h1 # NoVersion /\ Exists(h1)' => file'[h1].build = reader'[r].handle.build
  <2>1. h1 = h
    BY <1>6, <1>7, <1>9
  <2> QED BY <1>3, <1>4, <1>8, <1>9, <2>1
<1>10. ASSUME reader'[r].handle = reader[r].handle, reader'[r].version = reader[r].version,
              reader'[r].pc = reader[r].pc, reader[r].seen \subseteq reader'[r].seen
       PROVE  /\ h1 =< MaxVersion'
              /\ h1 # NoVersion /\ Exists(h1)' => file'[h1].build = reader'[r].handle.build
              /\ reader'[r].pc \in {"choose", "open"} => current' # NoVersion
              /\ reader'[r].pc = "open" =>
                   /\ v1 # NoVersion
                   /\ v1 =< MaxVersion'
                   /\ Exists(v1)' => file'[v1].build \in reader'[r].seen
  <2>1. v1 = v
    BY <1>6, <1>7, <1>10
  <2>2. reader'[r].pc = "open" =>
          /\ v1 # NoVersion
          /\ v1 =< MaxVersion'
          /\ Exists(v1)' => file'[v1].build \in reader'[r].seen
    BY <1>3, <1>4, <1>8, <1>10, <2>1
  <2>3. reader'[r].pc \in {"choose", "open"} => current' # NoVersion
    BY <1>5, <1>8, <1>10
  <2> QED BY <1>9, <1>10, <2>2, <2>3
<1>11. CASE reader'[r] = reader[r]
  BY <1>7, <1>10, <1>11
<1>12. ASSUME NEW a \in Attempts, Sees(r, a), reader'[r] # reader[r]
       PROVE  /\ reader'[r].handle = reader[r].handle /\ reader'[r].version = reader[r].version
              /\ reader'[r].pc = reader[r].pc
              /\ reader[r].seen \subseteq reader'[r].seen
  BY <1>12 DEF Sees, Watches
<1>13. CASE ReadingMoves(r) /\ UNCHANGED <<file, current, attempt, Live>>
  <2>1. file' = file /\ current' = current /\ MaxVersion' = MaxVersion
    BY <1>13, SameDisk
  <2>2. /\ h1 =< MaxVersion'
        /\ h1 # NoVersion /\ Exists(h1)' => file'[h1].build = reader'[r].handle.build
    <3>1. CASE reader'[r].handle = reader[r].handle
      BY <1>9, <3>1
    <3>2. CASE reader'[r].handle.version = NoVersion
      <4>1. h1 = 0
        BY <1>7, <3>2 DEF NoVersion
      <4> QED BY <1>2, <4>1 DEF NoVersion
    <3>3. CASE /\ reader[r].pc = "open" /\ Exists(reader[r].version)
               /\ reader'[r].handle.version = reader[r].version
               /\ reader'[r].handle.build = file[reader[r].version].build
      <4>1. h1 = v /\ reader'[r].handle.build = file[v].build /\ v =< MaxVersion
        BY <1>6, <1>7, <1>8, <3>3
      <4> QED BY <2>1, <4>1
    <3> QED BY <1>13, <3>1, <3>2, <3>3 DEF ReadingMoves
  <2>3. reader'[r].pc \in {"choose", "open"} => current' # NoVersion
    BY <1>8, <1>13, <2>1 DEF ReadingMoves
  <2>4. ASSUME reader'[r].pc = "open"
        PROVE  /\ v1 # NoVersion
               /\ v1 =< MaxVersion'
               /\ Exists(v1)' => file'[v1].build \in reader'[r].seen
    <3>1. /\ reader[r].pc = "choose" /\ reader'[r].version = current
          /\ reader'[r].seen = reader[r].seen
      BY <1>13, <2>4 DEF ReadingMoves
    <3>2. v1 = current /\ current # NoVersion /\ current =< MaxVersion /\ Live = file[current].build
      BY <1>7, <1>8, <3>1, CurrentExists, LiveNow
    <3>3. Live \in reader[r].seen
      BY <3>1 DEF Healthy, Witnessed
    <3>4. file'[v1].build = Live
      BY <2>1, <3>2
    <3> QED BY <2>1, <3>1, <3>2, <3>3, <3>4
  <2> QED BY <1>7, <2>2, <2>3, <2>4
<1> QED BY <1>7, <1>10, <1>11, <1>12, <1>13, ReaderSteps

LEMMA WitnessedStep ==
  ASSUME Base, Healthy, [Next]_vars, ~astray'
  PROVE  Witnessed'
<1>1. reader \in [Readers -> ReaderRecords] /\ reader' \in [Readers -> ReaderRecords]
  BY Types, ReaderMoves DEF Base
<1> SUFFICES ASSUME NEW r \in Readers
             PROVE  /\ reader'[r].pc # "idle" => Live' \in reader'[r].seen
                    /\ \A g \in reader'[r].seen : g # NoGraph => attempt'[g].pc \notin Unpublished
                    /\ reader'[r].pc \in {"idle", "answered"} =>
                         reader'[r].tries = 0 /\ ~reader'[r].failed
                    /\ reader'[r].pc \in {"sweep", "choose", "open"} /\ ~reader'[r].failed /\ ~reader'[r].blind =>
                         reader'[r].tries < Cardinality(reader'[r].seen)
                    /\ reader'[r].pc = "open" /\ ~reader'[r].failed /\ ~reader'[r].blind
                       /\ reader'[r].version # current' =>
                         reader'[r].tries + 1 < Cardinality(reader'[r].seen)
  BY DEF Witnessed
<1>2. /\ reader[r].pc # "idle" => Live \in reader[r].seen
      /\ \A g \in reader[r].seen : g # NoGraph => attempt[g].pc \notin Unpublished
      /\ reader[r].pc \in {"idle", "answered"} => reader[r].tries = 0 /\ ~reader[r].failed
      /\ reader[r].pc \in {"sweep", "choose", "open"} /\ ~reader[r].failed /\ ~reader[r].blind =>
           reader[r].tries < Cardinality(reader[r].seen)
      /\ reader[r].pc = "open" /\ ~reader[r].failed /\ ~reader[r].blind
         /\ reader[r].version # current =>
           reader[r].tries + 1 < Cardinality(reader[r].seen)
  BY DEF Healthy, Witnessed
<1>3. /\ reader[r].seen \subseteq BuildOrNone /\ reader[r].tries \in Nat
      /\ reader[r].pc \in {"idle", "sweep", "choose", "open", "answered"}
      /\ Cardinality(reader[r].seen) \in Nat
  BY <1>1, Finite DEF ReaderRecords
<1>4. \A g \in reader[r].seen : g # NoGraph => attempt'[g].pc \notin Unpublished
  BY <1>2, <1>3, AttemptsAdvance DEF BuildOrNone
<1>5. CASE reader'[r] = reader[r] /\ Live' = Live /\ current' = current
  BY <1>2, <1>4, <1>5
<1>6. ASSUME NEW a \in Attempts, Flip(a), Sees(r, a)
      PROVE  /\ reader'[r].pc # "idle" => Live' \in reader'[r].seen
             /\ \A g \in reader'[r].seen : g # NoGraph => attempt'[g].pc \notin Unpublished
             /\ reader'[r].pc \in {"idle", "answered"} =>
                  reader'[r].tries = 0 /\ ~reader'[r].failed
             /\ reader'[r].pc \in {"sweep", "choose", "open"} /\ ~reader'[r].failed /\ ~reader'[r].blind =>
                  reader'[r].tries < Cardinality(reader'[r].seen)
             /\ reader'[r].pc = "open" /\ ~reader'[r].failed /\ ~reader'[r].blind
                /\ reader'[r].version # current' =>
                  reader'[r].tries + 1 < Cardinality(reader'[r].seen)
  <2>1. Live' = a /\ attempt'[a].pc \notin Unpublished
    BY <1>6, LiveSteps, Flipped DEF Unpublished
  <2>2. CASE reader[r].pc = "idle" /\ reader'[r] = reader[r]
    BY <1>2, <1>4, <2>2
  <2>3. CASE reader[r].pc # "idle" /\ reader'[r] # reader[r]
    <3>1. /\ reader'[r].pc = reader[r].pc
          /\ reader'[r].tries = reader[r].tries /\ reader'[r].failed = reader[r].failed
          /\ reader'[r].blind = reader[r].blind
          /\ reader'[r].seen = reader[r].seen \cup {a}
          /\ Cardinality(reader'[r].seen) = Cardinality(reader[r].seen) + 1
      BY <1>6, <2>3 DEF Sees, Watches
    <3>2. a \in reader'[r].seen
      BY <3>1
    <3>3. \A g \in reader'[r].seen : g # NoGraph => attempt'[g].pc \notin Unpublished
      BY <1>4, <2>1, <3>1
    <3>4. reader'[r].pc \in {"idle", "answered"} => reader'[r].tries = 0 /\ ~reader'[r].failed
      BY <1>2, <3>1
    <3>5. reader'[r].pc \in {"sweep", "choose", "open"} /\ ~reader'[r].failed /\ ~reader'[r].blind =>
            reader'[r].tries + 1 < Cardinality(reader'[r].seen)
      BY <1>2, <1>3, <3>1
    <3>6. reader'[r].tries \in Nat /\ Cardinality(reader'[r].seen) \in Nat
      BY <1>3, <3>1
    <3> QED BY <2>1, <3>2, <3>3, <3>4, <3>5, <3>6
  <2>4. reader[r].pc # "idle" => reader'[r] # reader[r]
    <3>1. reader[r].pc # "idle" => Cardinality(reader'[r].seen) = Cardinality(reader[r].seen) + 1
      BY <1>6 DEF Sees
    <3> QED BY <1>3, <3>1
  <2> QED BY <1>6, <2>2, <2>3, <2>4 DEF Sees, Watches
<1>7. CASE ReadingMoves(r) /\ UNCHANGED <<file, current, attempt, Live>>
  <2>1. current' = current /\ Live' = Live /\ attempt' = attempt
    BY <1>7
  <2>2. CASE /\ reader[r].pc = "idle" /\ reader'[r].pc = "sweep" /\ reader'[r].seen = {Live}
             /\ reader'[r].tries = reader[r].tries
    <3>1. Cardinality(reader'[r].seen) = 1 /\ reader'[r].tries = 0
      BY <1>2, <2>2, FS_Singleton
    <3>2. Live # NoGraph => attempt'[Live].pc \notin Unpublished
      BY <2>1, LiveNow DEF Healthy, Published
    <3> QED BY <2>1, <2>2, <3>1, <3>2
  <2>3. CASE /\ reader[r].pc = "sweep" /\ reader'[r].pc = "choose"
             /\ reader'[r].seen = reader[r].seen
             /\ reader'[r].tries = reader[r].tries /\ reader'[r].failed = reader[r].failed
             /\ reader'[r].blind = reader[r].blind
    BY <1>2, <1>4, <2>1, <2>3
  <2>4. CASE /\ reader[r].pc = "choose" /\ reader'[r].pc = "open"
             /\ reader'[r].version = current /\ reader'[r].seen = reader[r].seen
             /\ reader'[r].tries = reader[r].tries /\ reader'[r].failed = reader[r].failed
             /\ reader'[r].blind = reader[r].blind
    BY <1>2, <1>4, <2>1, <2>4
  <2>5. CASE /\ reader[r].pc = "open" /\ reader'[r].pc = "choose"
             /\ reader'[r].tries = reader[r].tries + 1 /\ reader'[r].seen = reader[r].seen
             /\ \/ reader'[r].failed \/ reader'[r].blind
                \/ /\ ~Exists(reader[r].version) /\ reader'[r].failed = reader[r].failed
                   /\ reader'[r].blind = reader[r].blind
    <3>1. ~Exists(reader[r].version) => reader[r].version # current
      <4>1. current # NoVersion
        BY <2>5 DEF Healthy, Opened
      <4> QED BY <4>1, CurrentExists
    <3>2. ~reader'[r].failed /\ ~reader'[r].blind => reader'[r].tries < Cardinality(reader'[r].seen)
      BY <1>2, <2>5, <3>1
    <3> QED BY <1>2, <1>4, <2>1, <2>5, <3>2
  <2>6. CASE /\ reader[r].pc \in {"sweep", "choose", "open"} /\ reader'[r].pc = "answered"
             /\ reader'[r].tries = 0 /\ ~reader'[r].failed /\ reader'[r].seen = reader[r].seen
    BY <1>2, <1>4, <2>1, <2>6
  <2>7. CASE /\ reader[r].pc = "answered" /\ reader'[r].pc = "idle" /\ reader'[r].seen = {}
             /\ reader'[r].tries = reader[r].tries /\ reader'[r].failed = reader[r].failed
    BY <1>2, <2>7
  <2>8. CASE /\ reader[r].pc = "idle" /\ reader'[r].pc = "idle" /\ reader'[r].seen = reader[r].seen
             /\ reader'[r].tries = reader[r].tries /\ reader'[r].failed = reader[r].failed
    BY <1>2, <1>4, <2>8
  <2> QED BY <1>7, <2>2, <2>3, <2>4, <2>5, <2>6, <2>7, <2>8 DEF ReadingMoves
<1> QED BY <1>5, <1>6, <1>7, ReaderSteps

LEMMA AnswersStep ==
  ASSUME Base, Healthy, [Next]_vars, ~astray'
  PROVE  AnswersLive'
<1> SUFFICES ASSUME NEW r \in Readers, reader'[r].pc = "answered"
             PROVE  RightAnswer(reader'[r])
  BY DEF AnswersLive, RightAnswer
<1>1. reader[r].pc = "answered" => RightAnswer(reader[r])
  BY DEF Healthy, AnswersLive, RightAnswer
<1>2. Cardinality(reader[r].seen) \in Nat
  BY Types, Finite DEF Base, ReaderRecords
<1>3. CASE reader'[r] = reader[r]
  BY <1>1, <1>3
<1>4. ASSUME NEW a \in Attempts, Sees(r, a), reader'[r] # reader[r]
      PROVE  RightAnswer(reader'[r])
  BY <1>1, <1>2, <1>4 DEF Sees, Watches, RightAnswer
<1>5. CASE ReadingMoves(r)
  BY <1>5 DEF ReadingMoves
<1> QED BY <1>3, <1>4, <1>5, ReaderSteps

-----------------------------------------------------------------------------
(* The invariant *)

FileRecords == [build : BuildOrNone, parts : SUBSET {"main", "wal"}]

LEMMA FileSteps ==
  ASSUME Base, [Next]_vars
  PROVE  file' \in [Versions -> FileRecords] /\ current' \in VersionOrNone /\ pending' \subseteq Versions
<1>1. /\ file \in [Versions -> FileRecords] /\ current \in VersionOrNone /\ pending \subseteq Versions
      /\ sweep \in [Actors -> SweepRecords]
  BY Types DEF Base, FileRecords
<1>2. ASSUME NEW a \in Attempts, MoveMain(a) PROVE file' \in [Versions -> FileRecords]
  <2>1. PICK v \in Versions : v = attempt[a].version
    BY <1>2 DEF MoveMain, Base, Behind
  <2>2. file' = [file EXCEPT ![v] = [build |-> a, parts |-> @.parts \cup {"main"}]]
    BY <1>2, <2>1 DEF MoveMain
  <2> QED BY <1>1, <2>2 DEF FileRecords, BuildOrNone
<1>3. ASSUME NEW a \in Attempts, MoveLog(a) PROVE file' \in [Versions -> FileRecords]
  <2>1. PICK v \in Versions : v = attempt[a].version
    BY <1>3 DEF MoveLog, Base, Behind
  <2>2. file' = [file EXCEPT ![v].parts = @ \cup {"wal"}]
    BY <1>3, <2>1 DEF MoveLog
  <2> QED BY <1>1, <2>2 DEF FileRecords
<1>4. ASSUME NEW x \in Actors, Deletes(x)
      PROVE  file' \in [Versions -> FileRecords] /\ pending' \subseteq Versions
  <2>1. Absent \in FileRecords /\ Bare \in FileRecords
    BY DEF Absent, Bare, FileRecords, BuildOrNone
  <2>2. sweep[x].doomed \subseteq Versions
    BY <1>1 DEF SweepRecords
  <2>3. PICK gone, bare : Removed(x, gone, bare)
    BY <1>4, Removes
  <2> QED BY <1>1, <2>1, <2>2, <2>3 DEF Removed
<1>5. ASSUME NEW a \in Attempts, Flip(a) PROVE current' \in VersionOrNone
  BY <1>5 DEF Flip, Base, Behind, VersionOrNone
<1> QED BY <1>1, <1>2, <1>3, <1>4, <1>5, Changes

LEMMA FaultSteps ==
  ASSUME Base, [Next]_vars
  PROVE  failures' \in 0 .. MaxFailures /\ astray' \in BOOLEAN
<1>1. failures \in 0 .. MaxFailures
  BY DEF Base, TypeOK
<1>2. Failure => failures' \in 0 .. MaxFailures
  BY <1>1 DEF Failure
<1> QED BY <1>1, <1>2, StaysAstray, Changes

LEMMA TypeStep ==
  ASSUME Base, [Next]_vars
  PROVE  TypeOK'
BY FileSteps, BuildSteps, StagedSteps, AttemptSteps, ReaderMoves, SweepSteps, FaultSteps
   DEF TypeOK, Pcs, FileRecords, AttemptRecords, BuildRecords, ReaderRecords, SweepRecords

LEMMA StoreStart == Init => StoreInd
<1> SUFFICES ASSUME Init PROVE StoreInd
  OBVIOUS
<1>1. /\ \A v \in Versions : file[v] = Absent /\ ~Exists(v)
      /\ current = NoVersion /\ pending = {}
      /\ \A a \in Attempts :
           /\ build[a].mtime = 0 /\ staged[a] = {}
           /\ attempt[a].pc = "idle"
      /\ \A r \in Readers :
           /\ reader[r].pc = "idle" /\ reader[r].handle.version = NoVersion
           /\ reader[r].tries = 0 /\ ~reader[r].failed /\ reader[r].seen = {}
      /\ \A x \in Actors : sweep[x].pc = "off" /\ sweep[x].doomed = {}
      /\ clock.now = 0 /\ clock.old = 0
      /\ failures = 0 /\ astray = FALSE
  BY DEF Init, Exists, Absent, NoHandle, NoSweep
<1>2. MaxVersion = NoVersion
  BY <1>1, MaxVersionIs
<1>3. TypeOK
  <2>1. file \in [Versions -> FileRecords]
    BY DEF Init, Absent, FileRecords, BuildOrNone
  <2>2. current \in VersionOrNone /\ pending \subseteq Versions
    BY <1>1 DEF VersionOrNone
  <2>3. build \in [Attempts -> BuildRecords]
    BY Counts DEF Init, BuildRecords, ArtifactSets
  <2>4. staged \in [Attempts -> SUBSET {"main", "wal"}]
    BY DEF Init
  <2>5. attempt \in [Attempts -> AttemptRecords]
    BY DEF Init, AttemptRecords, Pcs, Quiet, VersionOrNone
  <2>6. reader \in [Readers -> ReaderRecords]
    <3>1. NoHandle \in [version : VersionOrNone, build : BuildOrNone]
      BY DEF NoHandle, VersionOrNone, BuildOrNone
    <3>2. /\ NoVersion \in VersionOrNone /\ 0 \in 0 .. OpenTries /\ NoGraph \in BuildOrNone \cup {Error}
          /\ {} \in SUBSET BuildOrNone /\ "idle" \in {"idle", "sweep", "choose", "open", "answered"}
          /\ FALSE \in BOOLEAN
      BY DEF VersionOrNone, BuildOrNone
    <3>3. [pc |-> "idle", handle |-> NoHandle, version |-> NoVersion, tries |-> 0, failed |-> FALSE,
           blind |-> FALSE, seen |-> {}, answer |-> NoGraph] \in ReaderRecords
      BY <3>1, <3>2 DEF ReaderRecords
    <3> QED BY <3>3, Zenon DEF Init
  <2>7. sweep \in [Actors -> SweepRecords]
    BY DEF Init, NoSweep, SweepRecords, VersionOrNone
  <2>8. clock \in [now : 0 .. Cardinality(Attempts), old : 0 .. Cardinality(Attempts)]
    BY Counts DEF Init
  <2>9. failures \in 0 .. MaxFailures
    BY <1>1
  <2>10. astray \in BOOLEAN
    BY DEF Init
  <2> QED BY <2>1, <2>2, <2>3, <2>4, <2>5, <2>6, <2>7, <2>8, <2>9, <2>10
          DEF TypeOK, Pcs, FileRecords, AttemptRecords, BuildRecords, ReaderRecords, SweepRecords
<1>4. OneByOne
  BY <1>1 DEF OneByOne, Quiet
<1>5. Dated
  <2>1. Closed = {}
    BY <1>1 DEF Closed
  <2>2. Cardinality(Closed) = 0
    BY <2>1, FS_EmptySet
  <2> QED BY <1>1, <2>2 DEF Dated
<1>6. Built
  BY <1>1 DEF Built
<1>7. Moving
  BY <1>1 DEF Moving, At
<1>8. CurrentIsWhole /\ Published
  BY <1>1 DEF CurrentIsWhole, Published
<1>9. Spared
  BY <1>1 DEF Spared
<1>10. Opened
  BY <1>1, <1>2 DEF Opened, NoVersion
<1>11. Witnessed
  BY <1>1 DEF Witnessed
<1>12. NoStagingLeft /\ AnswersLive
  BY <1>1 DEF NoStagingLeft, AnswersLive
<1>13. Behind /\ Trying
  BY <1>1 DEF Behind, Trying, At
<1>14. Base
  BY <1>3, <1>4, <1>5, <1>12, <1>13 DEF Base
<1>15. Healthy
  BY <1>1, <1>6, <1>7, <1>8, <1>9, <1>10, <1>11, <1>12 DEF Healthy
<1> QED BY <1>14, <1>15 DEF StoreInd

LEMMA BaseStep ==
  ASSUME Base, [Next]_vars
  PROVE  Base'
BY TypeStep, OneByOneStep, DatedStep, BehindStep, TryingStep, NoStagingLeftStep DEF Base

LEMMA HealthyStep ==
  ASSUME Base, Healthy, [Next]_vars, ~astray'
  PROVE  Healthy'
BY BuiltStep, MovingStep, CurrentStep, SparedStep, OpenedStep, WitnessedStep, AnswersStep
   DEF Healthy

LEMMA StoreAlways == Spec => []StoreInd
<1>1. StoreInd /\ [Next]_vars => StoreInd'
  <2> SUFFICES ASSUME StoreInd, [Next]_vars PROVE StoreInd'
    OBVIOUS
  <2>1. Base /\ Base'
    BY BaseStep DEF StoreInd
  <2>2. ~astray' => Healthy'
    BY <2>1, StaysAstray, HealthyStep DEF StoreInd
  <2> QED BY <2>1, <2>2 DEF StoreInd
<1> QED BY StoreStart, <1>1, PTL DEF Spec

\* Until a swallowed failure leads the key astray, CURRENT never names a version
\* that is partly loaded, partly moved or collected; and for ever, an attempt
\* whose process lives leaves nothing in its staging directory unless it said so:
\* the version files, CURRENT, the collections and the staging keys of
\* cih-ladybug/src/lib.rs and query.rs, for any number of loads, readers and
\* failures.
THEOREM StoreCorrect == Spec => []StoreInv
<1>1. StoreInd => StoreInv
  BY DEF StoreInd, Base, Healthy, StoreInv, CurrentIsWhole
<1> QED BY StoreAlways, <1>1, PTL

\* read_handle answers with a graph that was live while the query ran, whatever
\* is published, collected and swallowed meanwhile as long as the key has not gone
\* astray, unless it reports an error, a read of its own failed, or the key was
\* replaced within every one of its tries.
THEOREM AnswersAreLive == Spec => []AnswersLive
<1>1. StoreInd => AnswersLive
  BY DEF StoreInd, Healthy, AnswersLive
<1> QED BY StoreAlways, <1>1, PTL

-----------------------------------------------------------------------------
(* The key as the port promises it *)

Shown == [a \in Attempts |-> OutcomeOf(a)]

LEMMA ShownMoves ==
  ASSUME NEW a \in Attempts,
         \A b \in Attempts : b # a => attempt'[b] = attempt[b]
  PROVE  /\ Shown' = [Shown EXCEPT ![a] = OutcomeOf(a)']
         /\ OutcomeOf(a)' = OutcomeOf(a) => Shown' = Shown
         /\ Shown[a] = OutcomeOf(a)
<1>1. \A b \in Attempts : b # a => OutcomeOf(b)' = OutcomeOf(b)
  BY DEF OutcomeOf, Replaced
<1> QED BY <1>1 DEF Shown

\* What is live changes with CURRENT, and otherwise only when it is lost.
LEMMA LiveMoves ==
  ASSUME StoreInd, [Next]_vars
  PROVE  /\ Live' \in BuildOrNone
         /\ attempt' # attempt => (\E a \in Attempts : Flip(a)) \/ Live' = Live
         /\ ~astray' => (\E a \in Attempts : Flip(a)) \/ Live' = Live
         /\ \A a \in Attempts : Flip(a) /\ ~astray' => Live' = a
         /\ \/ astray' = astray
            \/ \E a \in Attempts : Flip(a)
            \/ /\ astray' /\ ~astray /\ Live' = Live
               /\ attempt' = attempt \/ \E a \in Attempts : Number(a)
<1>1. Base /\ (~astray' => Healthy) /\ astray \in BOOLEAN /\ astray' \in BOOLEAN
      /\ (astray => astray')
  BY StaysAstray DEF StoreInd, Base, TypeOK
<1>2. Live' \in BuildOrNone
  <2>1. file' \in [Versions -> FileRecords] /\ current' \in VersionOrNone
    BY <1>1, FileSteps
  <2> QED BY <2>1 DEF Live, BuildOrNone, Exists, VersionOrNone, FileRecords
<1>3. ASSUME file' = file, current' = current PROVE Live' = Live
  BY <1>3 DEF Live, Exists
<1>4. ASSUME attempt' # attempt, ~ \E a \in Attempts : Flip(a) PROVE Live' = Live
  <2>1. PICK a \in Attempts : Begin(a) \/ Close(a) \/ Number(a) \/ SweepAfterFlip(a) \/ Fails(a)
                              \/ Cleans(a) \/ Die(a)
    BY <1>4, Changes
  <2>2. file' = file /\ current' = current
    BY <2>1 DEF Begin, Close, Number, SweepAfterFlip, Fails, Cleans, Cleanup, CleanupFails, Die
  <2> QED BY <1>3, <2>2
<1>5. ~astray' => (\E a \in Attempts : Flip(a)) \/ Live' = Live
  BY <1>1, Changes, LiveSteps
<1>6. \A a \in Attempts : Flip(a) /\ ~astray' => Live' = a
  BY <1>1, LiveSteps
<1>7. ASSUME NEW a \in Attempts, Number(a) PROVE Live' = Live
  BY <1>3, <1>7 DEF Number
<1>8. ASSUME NEW x \in Actors, Lists(x) PROVE Live' = Live /\ attempt' = attempt
  BY <1>3, <1>8 DEF Lists, SweepList, SweepListPartly
<1>9. \/ astray' = astray
      \/ \E a \in Attempts : Flip(a)
      \/ /\ astray' /\ ~astray /\ Live' = Live
         /\ attempt' = attempt \/ \E a \in Attempts : Number(a)
  BY <1>1, <1>7, <1>8, Changes
<1> QED BY <1>2, <1>4, <1>5, <1>6, <1>9

LEMMA StepAsPort ==
  ASSUME StoreInd, [Next]_vars
  PROVE  [Port!Next]_(Port!vars)
<1>0. TypeOK /\ Base
  BY DEF StoreInd, Base
<1>1. ASSUME NEW a \in Attempts, Flip(a) PROVE Port!Replace(a)
  <2>1. attempt[a].pc = "move" /\ attempt'[a].pc = "flipped"
    BY <1>0, <1>1, Goes DEF Flip, At, Pcs
  <2>2. \A b \in Attempts : b # a => attempt'[b] = attempt[b]
    BY <1>0, <1>1, Goes DEF Flip, Pcs
  <2>3. OutcomeOf(a) = "running" /\ OutcomeOf(a)' = "replaced"
    BY <2>1 DEF OutcomeOf, Replaced, Quiet
  <2>4. Shown[a] = "running" /\ Shown' = [Shown EXCEPT ![a] = "replaced"]
    BY <2>2, <2>3, ShownMoves
  <2>5. astray' \in {astray, TRUE}
    BY <1>1 DEF Flip, faults
  <2>6. Live' \in IF astray' THEN Port!Graphs ELSE {a}
    BY <1>1, LiveMoves DEF Port!Graphs, BuildOrNone
  <2> QED BY <2>4, <2>5, <2>6, Zenon DEF Port!Replace, Shown
<1>2. CASE ~(\E a \in Attempts : Flip(a)) /\ astray' # astray
  <2>1. /\ astray' /\ ~astray /\ Live' = Live
        /\ attempt' = attempt \/ \E a \in Attempts : Number(a)
    BY <1>2, LiveMoves
  <2>2. Shown' = Shown
    <3>1. CASE attempt' = attempt
      BY <3>1 DEF Shown, OutcomeOf, Replaced
    <3>2. ASSUME NEW a \in Attempts, Number(a) PROVE Shown' = Shown
      <4>1. /\ attempt[a].pc = "number" /\ attempt'[a].pc = "move"
            /\ \A b \in Attempts : b # a => attempt'[b] = attempt[b]
        BY <1>0, <3>2, Numbered DEF Number, At
      <4>2. OutcomeOf(a)' = OutcomeOf(a)
        BY <4>1 DEF OutcomeOf, Replaced, Quiet
      <4> QED BY <4>1, <4>2, ShownMoves
    <3> QED BY <2>1, <3>1, <3>2
  <2>3. astray \in BOOLEAN /\ astray' \in BOOLEAN
    BY <1>0, StaysAstray DEF TypeOK
  <2>4. astray' = TRUE
    BY <2>1, <2>3
  <2>5. Port!Break
    BY <2>1, <2>2, <2>4, Zenon DEF Port!Break, Shown
  <2> QED BY <2>5, Zenon DEF Port!Next
<1>4. CASE ~(\E a \in Attempts : Flip(a)) /\ astray' = astray /\ Live' # Live
  <2>1. attempt' = attempt /\ astray
    BY <1>4, LiveMoves
  <2>2. Shown' = Shown
    BY <2>1 DEF Shown, OutcomeOf, Replaced
  <2>3. Live' \in Port!Graphs
    BY LiveMoves DEF Port!Graphs, BuildOrNone
  <2>4. Port!Lose
    BY <1>4, <2>1, <2>2, <2>3, Zenon DEF Port!Lose, Shown
  <2> QED BY <2>4, Zenon DEF Port!Next
<1>5. CASE ~(\E a \in Attempts : Flip(a)) /\ astray' = astray /\ Live' = Live
  <2>1. Live' = Live /\ astray' = astray
    BY <1>5
  <2>2. CASE attempt' = attempt
    <3>1. Shown' = Shown
      BY <2>2 DEF Shown, OutcomeOf, Replaced
    <3> QED BY <2>1, <3>1, Zenon DEF Port!vars, Shown
  <2>3. ASSUME NEW a \in Attempts, \A b \in Attempts : b # a => attempt'[b] = attempt[b],
               OutcomeOf(a)' = OutcomeOf(a)
        PROVE  UNCHANGED Port!vars
    <3>1. Shown' = Shown
      BY <2>3, ShownMoves
    <3> QED BY <2>1, <3>1, Zenon DEF Port!vars, Shown
  <2>4. ASSUME NEW a \in Attempts, \A b \in Attempts : b # a => attempt'[b] = attempt[b],
               attempt[a].pc = "idle", attempt'[a].pc = "load"
        PROVE  Port!Begin(a)
    <3>1. OutcomeOf(a) = "idle" /\ OutcomeOf(a)' = "running"
      BY <2>4 DEF OutcomeOf, Replaced, Quiet
    <3>2. Shown[a] = "idle" /\ Shown' = [Shown EXCEPT ![a] = "running"]
      BY <2>4, <3>1, ShownMoves
    <3> QED BY <2>1, <3>2, Zenon DEF Port!Begin, Shown
  <2>5. ASSUME NEW a \in Attempts, \A b \in Attempts : b # a => attempt'[b] = attempt[b],
               attempt[a].pc = "failing", attempt'[a].pc = "failed"
        PROVE  Port!Fail(a)
    <3>1. OutcomeOf(a) = "running" /\ OutcomeOf(a)' = "failed"
      BY <2>5 DEF OutcomeOf, Replaced, Quiet
    <3>2. Shown[a] = "running" /\ Shown' = [Shown EXCEPT ![a] = "failed"]
      BY <2>5, <3>1, ShownMoves
    <3> QED BY <2>1, <3>2, Zenon DEF Port!Fail, Shown
  <2>6. ASSUME NEW a \in Attempts, \A b \in Attempts : b # a => attempt'[b] = attempt[b],
               attempt[a].pc = "sweep", attempt'[a].pc = "ok"
        PROVE  Port!Succeed(a)
    <3>1. OutcomeOf(a) = "replaced" /\ OutcomeOf(a)' = "ok"
      BY <2>6 DEF OutcomeOf, Replaced, Quiet
    <3>2. Shown[a] = "replaced" /\ Shown' = [Shown EXCEPT ![a] = "ok"]
      BY <2>6, <3>1, ShownMoves
    <3> QED BY <2>1, <3>2, Zenon DEF Port!Succeed, Shown
  <2>7. ASSUME NEW a \in Attempts, \A b \in Attempts : b # a => attempt'[b] = attempt[b],
               attempt[a].pc \notin Quiet, attempt'[a].pc = "died"
        PROVE  Port!Die(a)
    <3>1. OutcomeOf(a) \in {"running", "replaced"} /\ OutcomeOf(a)' = "died"
      BY <2>7 DEF OutcomeOf, Replaced, Quiet
    <3>2. Shown[a] \in {"running", "replaced"} /\ Shown' = [Shown EXCEPT ![a] = "died"]
      BY <2>7, <3>1, ShownMoves
    <3> QED BY <2>1, <3>2, Zenon DEF Port!Die, Shown
  <2>8. CASE \E a \in Attempts :
               /\ \A b \in Attempts : b # a => attempt'[b] = attempt[b]
               /\ \/ attempt[a].pc = "load" /\ attempt'[a].pc = "number"
                  \/ attempt[a].pc = "number" /\ attempt'[a].pc = "move"
                  \/ attempt[a].pc = "flipped" /\ attempt'[a].pc = "sweep"
                  \/ attempt[a].pc \in {"load", "number", "move"} /\ attempt'[a].pc = "failing"
    <3>1. PICK a \in Attempts :
            /\ \A b \in Attempts : b # a => attempt'[b] = attempt[b]
            /\ \/ attempt[a].pc = "load" /\ attempt'[a].pc = "number"
               \/ attempt[a].pc = "number" /\ attempt'[a].pc = "move"
               \/ attempt[a].pc = "flipped" /\ attempt'[a].pc = "sweep"
               \/ attempt[a].pc \in {"load", "number", "move"} /\ attempt'[a].pc = "failing"
      BY <2>8
    <3>2. OutcomeOf(a)' = OutcomeOf(a)
      BY <3>1 DEF OutcomeOf, Replaced, Quiet
    <3> QED BY <3>1, <3>2, <2>3
  <2>9. \/ attempt' = attempt
        \/ \E a \in Attempts :
             /\ \A b \in Attempts : b # a => attempt'[b] = attempt[b]
             /\ \/ attempt[a].pc = "idle" /\ attempt'[a].pc = "load"
                \/ attempt[a].pc = "failing" /\ attempt'[a].pc = "failed"
                \/ attempt[a].pc = "sweep" /\ attempt'[a].pc = "ok"
                \/ attempt[a].pc \notin Quiet /\ attempt'[a].pc = "died"
                \/ attempt[a].pc = "load" /\ attempt'[a].pc = "number"
                \/ attempt[a].pc = "number" /\ attempt'[a].pc = "move"
                \/ attempt[a].pc = "flipped" /\ attempt'[a].pc = "sweep"
                \/ attempt[a].pc \in {"load", "number", "move"} /\ attempt'[a].pc = "failing"
    BY <1>0, <1>5, AttemptSteps DEF Verdict, At
  <2>10. CASE \E a \in Attempts : Port!Begin(a) \/ Port!Fail(a) \/ Port!Succeed(a) \/ Port!Die(a)
    BY <2>10, Zenon DEF Port!Next
  <2> QED BY <2>2, <2>4, <2>5, <2>6, <2>7, <2>8, <2>9, <2>10
<1>3. CASE \E a \in Attempts : Flip(a)
  BY <1>1, <1>3, Zenon DEF Port!Next
<1> QED BY <1>2, <1>3, <1>4, <1>5

LEMMA StartAsPort == Init => Port!Init
<1> SUFFICES ASSUME Init PROVE Port!Init
  OBVIOUS
<1>1. current = NoVersion /\ astray = FALSE /\ \A a \in Attempts : attempt[a].pc = "idle"
  BY DEF Init
<1>2. Live = NoGraph
  BY <1>1 DEF Live, Exists
<1>3. \A a \in Attempts : OutcomeOf(a) = "idle"
  BY <1>1 DEF OutcomeOf, Quiet
<1>4. Shown = [a \in Attempts |-> "idle"]
  BY <1>3 DEF Shown
<1> QED BY <1>1, <1>2, <1>4, Zenon DEF Port!Init, Shown

\* Seen from outside, a replacement load is what the trait GraphStore promises of
\* publish_to: one step replaces the graph, only a load that succeeded or died
\* after it did so, and nothing else changes what is live, until a swallowed
\* failure leads the key astray; loads end as promised even then.
THEOREM StoreImplementsPort == Spec => ImplementsKeyPort
BY StartAsPort, StepAsPort, StoreAlways, PTL DEF Spec, ImplementsKeyPort, Port!Spec
=============================================================================
