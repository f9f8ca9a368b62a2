----------------------------- MODULE RegistryStore -----------------------------
(***************************************************************************)
(* RegistryStore (cih-core): ~/.cih/registry.json, its backup and the file *)
(* lock, shared by engine processes that publish and servers that read.    *)
(*                                                                         *)
(* A document carries a revision and entries.  What the properties tell    *)
(* apart of the entries is the identity of one registered repository (0:   *)
(* an entry older than identities) and the set of updates whose effect     *)
(* they show.  One actor is one process with its own cache.                *)
(***************************************************************************)
EXTENDS Naturals, FiniteSets

CONSTANTS
  Actors,
  None,           \* nobody, nothing
  Missing, Bad,   \* a file that is absent; one that fails to parse or validate
  MaxCrashes,     \* processes killed, or stopped by an I/O error, in a transaction
  MaxCorruptions, \* times the primary is damaged on disk
  MaxPowerLosses, \* power losses
  MaxLoadFailures \* loads that fail before they hold the lock

ASSUME ActorAssumption == None \notin Actors
ASSUME BudgetAssumption ==
  {MaxCrashes, MaxCorruptions, MaxPowerLosses, MaxLoadFailures} \subseteq Nat

VARIABLES
  primary, backup,   \* the two files as processes see them
  disk,              \* what each name may denote after a power loss
  lock,              \* holder of registry.json.lock
  recorded,          \* .cih/repository.json of the repository, 0 when absent
  allocated,         \* identities drawn so far (a fresh one is never drawn again)
  pc, op, writes,    \* of each actor: its step, its program, what it will write
  result,            \* document its transaction returns
  cache,             \* [stamp, registry] of load_cached, or None
  floor,             \* updates acknowledged when its cached read began
  stale,             \* actors whose last cached read missed one of those
  acked,             \* updates acknowledged as changes
  shown,             \* identities returned to anyone
  spent              \* used up of each budget

files  == <<primary, backup, disk>>
idents == <<recorded, allocated, shown>>
local  == <<writes, result>>
reads  == <<cache, floor, stale>>
vars == <<files, lock, idents, pc, op, local, reads, acked, spent>>

Documents == [rev : Nat, id : Nat, raw : BOOLEAN, marks : SUBSET Actors]
Files     == Documents \union {Missing, Bad}
Plans     == [backup : Documents \union {None}, primary : Documents]

ASSUME NothingAssumption ==
  Missing # Bad /\ None \notin Plans /\ \A x \in {None, Missing, Bad} : x \notin Documents

TypeOK ==
  /\ primary \in Files /\ backup \in Files
  /\ disk.primary \subseteq Files /\ disk.backup \subseteq Files
  /\ lock \in Actors \union {None}
  /\ recorded \in Nat /\ allocated \in Nat /\ shown \subseteq Nat
  /\ pc \in [Actors -> {"idle", "load", "identify", "update",
                        "backup", "primary", "sync", "restat"}]
  /\ op \in [Actors -> {"cached", "analyze", "update", None}]
  /\ \A a \in Actors :
       /\ result[a] \in Documents \union {None}
       /\ writes[a] # None => writes[a].primary \in Documents
       /\ cache[a] # None => cache[a].registry \in Documents
       /\ floor[a] \subseteq Actors
  /\ acked \subseteq Actors /\ stale \subseteq Actors
  /\ DOMAIN spent = {"crashes", "corruptions", "powerLosses", "loadFailures"}

EmptyDocument == [rev |-> 0, id |-> 0, raw |-> FALSE, marks |-> {}]

\* The repository was registered before identities existed, or by a version
\* whose digest depends on the spelling of floats.
Init ==
  /\ primary \in {EmptyDocument, [EmptyDocument EXCEPT !.rev = 1, !.id = 1, !.raw = TRUE]}
  /\ backup = Missing
  /\ disk = [primary |-> {primary}, backup |-> {backup}]
  /\ lock = None
  /\ recorded = 0 /\ allocated = 1 /\ shown = {}
  /\ pc = [a \in Actors |-> "idle"]
  /\ op = [a \in Actors |-> None]
  /\ writes = [a \in Actors |-> None]
  /\ result = [a \in Actors |-> None]
  /\ cache = [a \in Actors |-> None]
  /\ floor = [a \in Actors |-> {}]
  /\ acked = {} /\ stale = {}
  /\ spent = [crashes |-> 0, corruptions |-> 0, powerLosses |-> 0, loadFailures |-> 0]

\* Failures are counted: each kind has its bound.
Spend(what, max) ==
  /\ spent[what] < max
  /\ spent' = [spent EXCEPT ![what] = @ + 1]

-----------------------------------------------------------------------------
(* load_document_unlocked                                                  *)

Readable(f) == f \notin {Missing, Bad}

\* A backup with the higher revision is an interrupted identity migration.
FromBackup(p, b) == Readable(b) /\ (Readable(p) => b.rev > p.rev)

\* One of the two is always readable here.  (With neither, loads fail as
\* LoadFails does, updates fail, and nothing is written.)
LoadedDocument(p, b) == IF FromBackup(p, b) THEN b ELSE p

-----------------------------------------------------------------------------
(* The two transactions.  Each reads under the lock and decides what to    *)
(* return and what to write: [backup, primary], or None.                   *)

\* migrate_registry_entries: an entry without identity takes the one its
\* repository recorded, or a fresh one.
Migrates(d)   == d.id = 0
NewId         == IF recorded # 0 THEN recorded ELSE allocated + 1
MigratedId(d) == IF Migrates(d) THEN NewId ELSE d.id

\* persist_documents keeps the old document, persist_identity_migration
\* writes the new one twice, persist_primary_repair leaves the backup alone.
KeepOld(old, new) == [backup |-> old, primary |-> new]
PrimaryOnly(new)  == [backup |-> None, primary |-> new]

\* Mutant: a migration leaves a backup without the identity.
TwiceNot(new) == KeepOld(LoadedDocument(primary, backup), new)

Twice(new) == [backup |-> new, primary |-> new]

Canonical(d) == [d EXCEPT !.raw = FALSE]

\* Mutant: a migration does not advance the revision.
LoadPlanSameRevision(d) ==
  LET new == [Canonical(d) EXCEPT !.id = MigratedId(d)]
  IN [new |-> new,
      writes |-> IF Migrates(d) \/ FromBackup(primary, backup) THEN Twice(new)
                 ELSE IF d.raw THEN PrimaryOnly(new) ELSE None]

LoadPlan(d) ==
  LET new == IF Migrates(d)
             THEN [Canonical(d) EXCEPT !.rev = @ + 1, !.id = MigratedId(d)]
             ELSE Canonical(d)
  IN [new |-> new,
      writes |-> IF Migrates(d) \/ FromBackup(primary, backup) THEN Twice(new)
                 ELSE IF d.raw THEN PrimaryOnly(new) ELSE None]

\* The mutator adds the effect of the actor's update.
UpdatePlan(a, d) ==
  LET changed   == Migrates(d) \/ a \notin d.marks
      repairing == FromBackup(primary, backup)
      new == [Canonical(d) EXCEPT !.rev = IF changed THEN @ + 1 ELSE @,
                                  !.id = MigratedId(d), !.marks = @ \union {a}]
  IN [new |-> new,
      writes |-> IF Migrates(d) THEN Twice(new)
                 ELSE IF changed \/ repairing THEN KeepOld(Canonical(d), new)
                 ELSE IF d.raw THEN PrimaryOnly(new) ELSE None]

FirstStep(w) == IF w.backup # None THEN "backup" ELSE "primary"

\* An identity drawn by the transaction that migrates.
Draws(d) == Migrates(d) /\ recorded = 0

After(a) == CASE op[a] = "cached"  -> "restat"
               [] op[a] = "analyze" -> "identify"
               [] op[a] = "update"  -> "idle"

\* An update is acknowledged as a change when it wrote something.
Returns(a, d, wrote) ==
  /\ lock' = None
  /\ shown' = shown \union ({d.id} \ {0})
  /\ acked' = IF op[a] = "update" /\ wrote THEN acked \union {a} ELSE acked
  /\ writes' = [writes EXCEPT ![a] = None]
  /\ pc' = [pc EXCEPT ![a] = After(a)]
  /\ IF op[a] = "update"
     THEN op' = [op EXCEPT ![a] = None] /\ result' = [result EXCEPT ![a] = None]
     ELSE op' = op /\ result' = [result EXCEPT ![a] = d]

\* Taking the lock and reading both files: nobody writes in between.
Transact(a, plan) ==
  /\ IF plan.writes = None THEN Returns(a, plan.new, FALSE)
     ELSE /\ lock' = a
          /\ result' = [result EXCEPT ![a] = plan.new]
          /\ writes' = [writes EXCEPT ![a] = plan.writes]
          /\ pc' = [pc EXCEPT ![a] = FirstStep(plan.writes)]
          /\ UNCHANGED <<op, acked, shown>>
  /\ UNCHANGED <<files, reads, spent>>

LoadTransaction(a) ==
  /\ pc[a] = "load" /\ lock = None
  /\ LET d == LoadedDocument(primary, backup)
     IN /\ Transact(a, LoadPlan(d))
        /\ allocated' = IF Draws(d) THEN allocated + 1 ELSE allocated
  /\ UNCHANGED recorded

\* Registry::load answers an empty registry when the lock cannot be taken, or
\* when the transaction fails on the way.
LoadFails(a) ==
  /\ \/ pc[a] = "load"
     \/ lock = a /\ op[a] # "update"
  /\ Spend("loadFailures", MaxLoadFailures)
  /\ lock' = IF lock = a THEN None ELSE lock
  /\ result' = [result EXCEPT ![a] = EmptyDocument]
  /\ writes' = [writes EXCEPT ![a] = None]
  /\ pc' = [pc EXCEPT ![a] = After(a)]
  /\ UNCHANGED <<files, idents, op, reads, acked>>

\* ensure_repository_id: the recorded identity, else the preferred one, else
\* a fresh one; a record that differs from the preferred one is an error.
Conflicts(preferred) == recorded # 0 /\ preferred # 0 /\ preferred # recorded
Ensured(preferred) ==
  IF recorded # 0 THEN recorded ELSE IF preferred # 0 THEN preferred ELSE allocated + 1

\* repository_identity, before the graph is published.
Identify(a) ==
  /\ pc[a] = "identify"
  /\ ~Conflicts(result[a].id)
  /\ pc' = [pc EXCEPT ![a] = "update"]
  /\ op' = [op EXCEPT ![a] = "update"]
  /\ recorded' = Ensured(result[a].id)
  /\ shown' = shown \union {recorded'}
  /\ allocated' = IF recorded = 0 /\ result[a].id = 0 THEN allocated + 1 ELSE allocated
  /\ UNCHANGED <<files, lock, local, reads, acked, spent>>

\* The program of `a` ends here.
Stop(a) ==
  /\ pc' = [pc EXCEPT ![a] = "idle"]
  /\ op' = [op EXCEPT ![a] = None]
  /\ writes' = [writes EXCEPT ![a] = None]
  /\ result' = [result EXCEPT ![a] = None]

IdentifyFails(a) ==
  /\ pc[a] = "identify"
  /\ Conflicts(result[a].id)
  /\ Stop(a)
  /\ UNCHANGED <<files, lock, idents, reads, acked, spent>>

\* persist_analyze: migrates, makes sure of the identity again, upserts.
UpdateTransaction(a) ==
  /\ pc[a] = "update" /\ lock = None
  /\ LET d == LoadedDocument(primary, backup)
     IN /\ ~Conflicts(MigratedId(d))
        /\ Transact(a, UpdatePlan(a, d))
        /\ recorded' = Ensured(MigratedId(d))
        /\ allocated' = IF Draws(d) THEN allocated + 1 ELSE allocated

UpdateFails(a) ==
  /\ pc[a] = "update" /\ lock = None
  /\ Conflicts(MigratedId(LoadedDocument(primary, backup)))
  /\ Stop(a)
  /\ UNCHANGED <<files, lock, idents, reads, acked, spent>>

-----------------------------------------------------------------------------
(* Writing: each file is synced under another name and renamed; the        *)
(* directory is synced once, at the end.                                   *)

WriteBackup(a) ==
  /\ pc[a] = "backup"
  /\ backup' = writes[a].backup
  /\ disk' = [disk EXCEPT !.backup = @ \union {backup'}]
  /\ pc' = [pc EXCEPT ![a] = "primary"]
  /\ UNCHANGED <<primary, lock, idents, op, local, reads, acked, spent>>

WritePrimary(a) ==
  /\ pc[a] = "primary"
  /\ primary' = writes[a].primary
  /\ disk' = [disk EXCEPT !.primary = @ \union {primary'}]
  /\ pc' = [pc EXCEPT ![a] = "sync"]
  /\ UNCHANGED <<backup, lock, idents, op, local, reads, acked, spent>>

\* Mutant: the directory is not synced.
SyncParentNot(a) ==
  /\ pc[a] = "sync"
  /\ cache' = [cache EXCEPT ![a] = None]
  /\ Returns(a, result[a], TRUE)
  /\ UNCHANGED <<files, recorded, allocated, floor, stale, spent>>

\* The directory sync, the invalidation of this process' cache, the return.
SyncParent(a) ==
  /\ pc[a] = "sync"
  /\ disk' = [primary |-> {primary}, backup |-> {backup}]
  /\ cache' = [cache EXCEPT ![a] = None]
  /\ Returns(a, result[a], TRUE)
  /\ UNCHANGED <<primary, backup, recorded, allocated, floor, stale, spent>>

-----------------------------------------------------------------------------
(* load_cached                                                             *)

\* Stamps are metadata of the two files; each rename makes a new inode, and
\* while nothing damages the files no document comes back.
Stamp == <<primary, backup>>

Analyze(a) ==
  /\ pc[a] = "idle"
  /\ op' = [op EXCEPT ![a] = "analyze"]
  /\ pc' = [pc EXCEPT ![a] = "load"]
  /\ UNCHANGED <<files, lock, idents, local, reads, acked, spent>>

\* What a cached read of `a` that began when `since` was acknowledged tells it.
Answers(a, d, since) ==
  stale' = IF since \subseteq d.marks THEN stale \ {a} ELSE stale \union {a}

CacheHit(a) ==
  /\ pc[a] = "idle"
  /\ cache[a] # None /\ cache[a].stamp = Stamp
  /\ Answers(a, cache[a].registry, acked)
  /\ UNCHANGED <<files, lock, idents, pc, op, local, cache, floor, acked, spent>>

CacheMiss(a) ==
  /\ pc[a] = "idle"
  /\ cache[a] # None => cache[a].stamp # Stamp
  /\ op' = [op EXCEPT ![a] = "cached"]
  /\ pc' = [pc EXCEPT ![a] = "load"]
  /\ floor' = [floor EXCEPT ![a] = acked]
  /\ UNCHANGED <<files, lock, idents, local, cache, stale, acked, spent>>

\* The stamp is taken again after the load, and kept with what was loaded.
FillCache(a) ==
  /\ pc[a] = "restat"
  /\ cache' = [cache EXCEPT ![a] = [stamp |-> Stamp, registry |-> result[a]]]
  /\ Answers(a, result[a], floor[a])
  /\ floor' = [floor EXCEPT ![a] = {}]
  /\ Stop(a)
  /\ UNCHANGED <<files, lock, idents, acked, spent>>

-----------------------------------------------------------------------------
(* Failures                                                                *)

\* A transaction dies between two of its writes, with or without its process.
Interrupt(a) ==
  /\ lock = a
  /\ Spend("crashes", MaxCrashes)
  /\ lock' = None
  /\ Stop(a)
  /\ floor' = [floor EXCEPT ![a] = {}]
  /\ \E kept \in {cache[a], None} : cache' = [cache EXCEPT ![a] = kept]
  /\ UNCHANGED <<files, idents, stale, acked>>

\* (Damage before there is a backup on the disk leaves nothing to recover from.)
DamagePrimary ==
  /\ lock = None /\ \A b \in disk.backup : Readable(b)
  /\ Spend("corruptions", MaxCorruptions)
  /\ primary' = Bad
  /\ disk' = [disk EXCEPT !.primary = {Bad}]
  /\ UNCHANGED <<backup, lock, idents, pc, op, local, reads, acked>>

\* Renames not yet synced may or may not have reached the disk.
PowerLoss ==
  /\ Spend("powerLosses", MaxPowerLosses)
  /\ primary' \in disk.primary
  /\ backup' \in disk.backup
  /\ disk' = [primary |-> {primary'}, backup |-> {backup'}]
  /\ lock' = None
  /\ pc' = [a \in Actors |-> "idle"]
  /\ op' = [a \in Actors |-> None]
  /\ writes' = [a \in Actors |-> None]
  /\ result' = [a \in Actors |-> None]
  /\ cache' = [a \in Actors |-> None]
  /\ floor' = [a \in Actors |-> {}]
  /\ UNCHANGED <<idents, stale, acked>>

Next ==
  \/ \E a \in Actors :
       \/ Analyze(a) \/ CacheHit(a) \/ CacheMiss(a) \/ FillCache(a)
       \/ LoadTransaction(a) \/ LoadFails(a) \/ Identify(a) \/ IdentifyFails(a)
       \/ UpdateTransaction(a) \/ UpdateFails(a)
       \/ WriteBackup(a) \/ WritePrimary(a) \/ SyncParent(a)
       \/ Interrupt(a)
  \/ DamagePrimary \/ PowerLoss

Spec == Init /\ [][Next]_vars

-----------------------------------------------------------------------------
(* Properties.  Each names the failures it does not withstand.             *)

Undamaged      == spent.corruptions = 0
PowerKept      == spent.powerLosses = 0
LoadsSucceeded == spent.loadFailures = 0

\* "two processes cannot silently overwrite one another's updates": an update
\* acknowledged as a change is in whatever document the next process loads,
\* now or after a power loss, however other transactions were cut short.  (A
\* damaged primary loses the last update: its backup is the document before.)
AckedSurvive ==
  Undamaged =>
    \A p \in disk.primary \union {primary}, b \in disk.backup \union {backup} :
      acked \subseteq LoadedDocument(p, b).marks

Advances ==
  LET before == LoadedDocument(primary, backup)
      after  == LoadedDocument(primary, backup)'
  IN Undamaged' /\ PowerKept' =>
       \/ after.rev > before.rev
       \/ Canonical(after) = Canonical(before)

\* "sequence advances for every content-changing transaction" and only then:
\* what the next process loads never goes back and changes only under a new
\* revision, also when a crash left files of two revisions.
SequenceAdvances == [][Advances]_vars

\* "assigned IDs ... are never regenerated": whatever crashes and damage the
\* files recovered from, everybody is shown one identity, and the registry never
\* comes to disagree with the repository's own record.  Two gaps: an identity
\* read from renames that were not synced is lost with the power, and a failed
\* load answers an empty registry, for which a second identity is drawn (every
\* later analyze then fails).
OneIdentity ==
  LoadsSucceeded =>
    /\ PowerKept => Cardinality(shown) <= 1
    /\ lock = None /\ recorded # 0 =>
         LoadedDocument(primary, backup).id \in {0, recorded}

RegistryInv == TypeOK /\ OneIdentity

\* "cached readers pick up writes": a read shows every update acknowledged
\* before it began.
ReadsAreFresh == stale = {}

=============================================================================
