-------------------------- MODULE RegistriesProofs ---------------------------
(***************************************************************************)
(* The registries of the CIH home, of repositories and of groups, for any  *)
(* number of processes.                                                    *)
(***************************************************************************)
EXTENDS RegistryStore, GroupRegistry, FiniteSetTheorems, TLAPS

-----------------------------------------------------------------------------
(* The invariant of the repository registry *)

Writing == {"backup", "primary", "sync"}
Answered == {"identify", "restat"}
Loaded == LoadedDocument(primary, backup)

\* A document that may take the place of another.
Follows(old, new) == new.rev > old.rev \/ Canonical(new) = Canonical(old)

Types ==
  /\ disk \in [primary : SUBSET (Documents \union {Bad}), backup : SUBSET (Documents \union {Missing})]
  /\ writes \in [Actors -> Plans \union {None}]
  /\ result \in [Actors -> Documents \union {None}]
  /\ cache \in [Actors -> [stamp : Files \X Files, registry : Documents] \union {None}]
  /\ floor \in [Actors -> SUBSET Actors]
  /\ spent \in [{"crashes", "corruptions", "powerLosses", "loadFailures"} -> Nat]

\* The lock is held in the steps that write, and a program is at a step of its own.
Programs ==
  \A a \in Actors :
    /\ lock = a <=> pc[a] \in Writing
    /\ pc[a] = "load" => op[a] \in {"cached", "analyze"}
    /\ pc[a] = "update" => op[a] = "update"
    /\ pc[a] \in Writing => op[a] \in {"cached", "analyze", "update"} /\ writes[a] \in Plans
    /\ pc[a] \in Writing \union Answered => result[a] \in Documents

\* A damaged primary has a backup, whatever a power loss leaves.  Only the empty
\* document has no identity, and it is the only primary and has no backup.
OnDisk ==
  /\ primary \in disk.primary /\ backup \in disk.backup
  /\ Bad \in disk.primary => ~Undamaged /\ Missing \notin disk.backup
  /\ backup = Missing => disk.backup = {Missing}
  /\ \A b \in disk.backup : b # Missing => b.id # 0 /\ b.rev # 0
  /\ \A p \in disk.primary : p # Bad =>
       /\ p.id = 0 <=> p.rev = 0
       /\ p.id = 0 /\ primary = p => disk.primary = {p}

\* What a transaction writes follows what it has loaded.
Writes(a) ==
  /\ pc[a] \in Writing =>
       /\ writes[a].primary = result[a] /\ result[a].id # 0 /\ result[a].rev # 0
       /\ op[a] = "update" => a \in result[a].marks
       /\ Loaded.marks \subseteq result[a].marks
  /\ pc[a] = "backup" =>
       /\ writes[a].backup \in Documents /\ writes[a].backup.id # 0 /\ writes[a].backup.rev # 0
       /\ Follows(Loaded, writes[a].backup) /\ Follows(writes[a].backup, result[a])
       /\ Loaded.marks \subseteq writes[a].backup.marks
       /\ writes[a].backup.marks \subseteq result[a].marks
  /\ pc[a] = "primary" => Follows(Loaded, result[a])
  /\ pc[a] = "sync" => primary = result[a] /\ Loaded = result[a]

WritesFollow == \A a \in Actors : Writes(a)

\* Every identity there is, is x.
OneId(x) ==
  /\ \A d \in disk.primary \union disk.backup : Readable(d) => d.id \in {0, x}
  /\ \A a \in Actors :
       /\ pc[a] \in Writing \union Answered => result[a].id = x
       /\ pc[a] = "backup" => writes[a].backup.id = x
  /\ recorded \in {0, x}
  /\ PowerKept => shown \subseteq {x}

\* While the registry shows no identity nobody has been shown one.
NothingShown ==
  Loaded.id = 0 => (\A a \in Actors : pc[a] \notin Answered) /\ (PowerKept => shown = {})

Identified == LoadsSucceeded => NothingShown /\ \E x \in Nat \ {0} : OneId(x)

RegistryInd ==
  TypeOK /\ Types /\ Programs /\ OnDisk /\ WritesFollow /\ AckedSurvive /\ Identified

-----------------------------------------------------------------------------
(* Documents and plans *)

USE ActorAssumption, NothingAssumption

LEMMA CanonicalIs ==
  ASSUME NEW d \in Documents
  PROVE  /\ Canonical(d) \in Documents /\ Canonical(d).rev = d.rev /\ Canonical(d).id = d.id
         /\ Canonical(d).marks = d.marks /\ Canonical(d).raw = FALSE
BY DEF Canonical, Documents

LEMMA SameCanonical ==
  ASSUME NEW d \in Documents, NEW e \in Documents
  PROVE  Canonical(d) = Canonical(e) <=> d.rev = e.rev /\ d.id = e.id /\ d.marks = e.marks
<1>1. CASE d.rev = e.rev /\ d.id = e.id /\ d.marks = e.marks
  BY <1>1 DEF Canonical, Documents
<1>2. CASE Canonical(d) = Canonical(e)
  BY <1>2, CanonicalIs
<1> QED BY <1>1, <1>2

LEMMA FollowsIs ==
  ASSUME NEW d \in Documents, NEW e \in Documents
  PROVE  Follows(d, e) <=> e.rev > d.rev \/ (d.rev = e.rev /\ d.id = e.id /\ d.marks = e.marks)
BY SameCanonical DEF Follows

LEMMA IdentityDrawn ==
  ASSUME recorded \in Nat, allocated \in Nat, NEW d \in Documents
  PROVE  MigratedId(d) \in Nat \ {0}
BY DEF MigratedId, Migrates, NewId, Documents

\* What a transaction that loaded d may decide on: it returns n, a document with
\* an identity that shows what was loaded, and writes w, n at the last.
SoundPlan(d, n, w) ==
  /\ n \in Documents /\ n.id = MigratedId(d) /\ d.marks \subseteq n.marks /\ Follows(d, n)
  /\ w # None => w \in Plans /\ w.primary = n
  /\ w = None \/ w.backup = None => d.id # 0 /\ ~FromBackup(primary, backup)
  /\ w # None /\ w.backup # None =>
       /\ w.backup.id = n.id /\ d.marks \subseteq w.backup.marks /\ w.backup.marks \subseteq n.marks
       /\ Follows(d, w.backup) /\ Follows(w.backup, n)

LEMMA PlanOfLoad ==
  ASSUME recorded \in Nat, allocated \in Nat, NEW d \in Documents
  PROVE  SoundPlan(d, LoadPlan(d).new, LoadPlan(d).writes)
<1> DEFINE m == IF Migrates(d) THEN [Canonical(d) EXCEPT !.rev = @ + 1, !.id = MigratedId(d)]
                ELSE Canonical(d)
<1>1. /\ m \in Documents /\ m.id = MigratedId(d) /\ m.marks = d.marks
      /\ m.rev = IF d.id = 0 THEN d.rev + 1 ELSE d.rev
  <2>1. CASE Migrates(d)
    <3>1. PICK c \in Documents : c = Canonical(d)
      BY CanonicalIs
    <3>2. PICK i \in Nat : i = MigratedId(d)
      BY IdentityDrawn
    <3>3. PICK f : f = [c EXCEPT !.rev = @ + 1]
      OBVIOUS
    <3>4. f \in Documents /\ f.marks = c.marks /\ f.rev = c.rev + 1
      BY <3>3 DEF Documents
    <3>5. PICK e : e = [f EXCEPT !.id = i]
      OBVIOUS
    <3>6. e \in Documents /\ e.id = i /\ e.marks = c.marks /\ e.rev = c.rev + 1
      BY <3>4, <3>5 DEF Documents
    <3>7. m = e
      BY <2>1, <3>1, <3>2, <3>3, <3>5, Zenon
    <3> HIDE DEF m
    <3> QED BY <2>1, <3>1, <3>2, <3>6, <3>7, CanonicalIs DEF Migrates
  <2>2. CASE ~Migrates(d)
    BY <2>2, CanonicalIs DEF Migrates, MigratedId
  <2> QED BY <2>1, <2>2
<1>2. LoadPlan(d).new = m
  BY DEF LoadPlan
<1>3. LoadPlan(d).writes = IF Migrates(d) \/ FromBackup(primary, backup) THEN Twice(m)
                           ELSE IF d.raw THEN PrimaryOnly(m) ELSE None
  BY DEF LoadPlan
<1> HIDE DEF m
<1>4. Twice(m) \in Plans /\ PrimaryOnly(m) \in Plans
  BY <1>1 DEF Twice, PrimaryOnly, Plans
<1>5. Follows(d, m)
  BY <1>1, FollowsIs DEF MigratedId, Migrates, Documents
<1>6. Follows(m, m)
  BY <1>1, FollowsIs
<1>7. Twice(m).backup = m /\ Twice(m).primary = m /\ PrimaryOnly(m).backup = None /\ PrimaryOnly(m).primary = m
  BY DEF Twice, PrimaryOnly
<1>8. Twice(m) # None /\ PrimaryOnly(m) # None /\ m # None
  BY <1>1, <1>4
<1>9. CASE Migrates(d) \/ FromBackup(primary, backup)
  BY <1>1, <1>2, <1>3, <1>4, <1>5, <1>6, <1>7, <1>8, <1>9 DEF SoundPlan
<1>10. CASE ~(Migrates(d) \/ FromBackup(primary, backup))
  BY <1>1, <1>2, <1>3, <1>4, <1>5, <1>7, <1>8, <1>10 DEF SoundPlan, Migrates
<1> QED BY <1>9, <1>10

LEMMA PlanOfUpdate ==
  ASSUME recorded \in Nat, allocated \in Nat, NEW a \in Actors, NEW d \in Documents
  PROVE  /\ SoundPlan(d, UpdatePlan(a, d).new, UpdatePlan(a, d).writes)
         /\ a \in UpdatePlan(a, d).new.marks
<1>1. PICK c \in Documents : c = Canonical(d) /\ c.rev = d.rev /\ c.id = d.id /\ c.marks = d.marks
  BY CanonicalIs
<1>2. PICK i \in Nat \ {0} : i = MigratedId(d)
  BY IdentityDrawn
<1>3. PICK r : r = IF d.id = 0 \/ a \notin d.marks THEN c.rev + 1 ELSE c.rev
  OBVIOUS
<1>4. PICK f : f = [c EXCEPT !.rev = r]
  OBVIOUS
<1>5. f \in Documents /\ f.rev = r /\ f.id = c.id /\ f.marks = c.marks /\ r \in Nat
  BY <1>3, <1>4 DEF Documents
<1>6. PICK g : g = [f EXCEPT !.id = i]
  OBVIOUS
<1>7. g \in Documents /\ g.rev = r /\ g.id = i /\ g.marks = c.marks
  BY <1>5, <1>6 DEF Documents
<1>8. PICK n : n = [g EXCEPT !.marks = @ \union {a}]
  OBVIOUS
<1>9. n \in Documents /\ n.rev = r /\ n.id = i /\ n.marks = c.marks \union {a}
  BY <1>7, <1>8 DEF Documents
<1>10. UpdatePlan(a, d).new = n
  BY <1>1, <1>2, <1>3, <1>4, <1>6, <1>8, Zenon DEF UpdatePlan, Migrates
<1>11. UpdatePlan(a, d).writes = IF d.id = 0 THEN Twice(n)
                                 ELSE IF a \notin d.marks \/ FromBackup(primary, backup) THEN KeepOld(c, n)
                                 ELSE IF d.raw THEN PrimaryOnly(n) ELSE None
  BY <1>1, <1>2, <1>3, <1>4, <1>6, <1>8 DEF UpdatePlan, Migrates
<1>12. d.rev \in Nat /\ d.marks \subseteq Actors
  BY DEF Documents
<1>13. d.id # 0 => i = d.id
  BY <1>2 DEF MigratedId, Migrates
<1>15. n.rev > c.rev \/ (n.rev = c.rev /\ n.id = c.id /\ n.marks = c.marks)
  <2>1. CASE d.id = 0 \/ a \notin d.marks
    <3>1. n.rev = c.rev + 1 /\ c.rev \in Nat
      BY <1>1, <1>3, <1>9, <1>12, <2>1
    <3> QED BY <3>1
  <2>2. CASE d.id # 0 /\ a \in d.marks
    <3>1. n.rev = c.rev /\ n.id = c.id
      BY <1>1, <1>3, <1>9, <1>13, <2>2
    <3>2. n.marks = c.marks
      BY <1>1, <1>9, <2>2
    <3> QED BY <3>1, <3>2
  <2> QED BY <2>1, <2>2
<1>16. Follows(n, n) /\ Follows(d, c)
  BY <1>1, <1>9, FollowsIs
<1>17. Follows(c, n) /\ Follows(d, n)
  BY <1>1, <1>9, <1>15, FollowsIs
<1>18. /\ Twice(n) \in Plans /\ PrimaryOnly(n) \in Plans /\ KeepOld(c, n) \in Plans
       /\ Twice(n).backup = n /\ Twice(n).primary = n /\ PrimaryOnly(n).backup = None
       /\ PrimaryOnly(n).primary = n /\ KeepOld(c, n).backup = c /\ KeepOld(c, n).primary = n
  BY <1>1, <1>9 DEF Twice, PrimaryOnly, KeepOld, Plans
<1>19. Twice(n) # None /\ PrimaryOnly(n) # None /\ KeepOld(c, n) # None /\ n # None /\ c # None
  BY <1>1, <1>9, <1>18
<1>20. n.id = MigratedId(d) /\ d.marks \subseteq n.marks /\ a \in n.marks
  BY <1>1, <1>2, <1>9
<1>21. CASE d.id = 0
  BY <1>9, <1>10, <1>11, <1>16, <1>17, <1>18, <1>19, <1>20, <1>21 DEF SoundPlan
<1>22. CASE d.id # 0 /\ (a \notin d.marks \/ FromBackup(primary, backup))
  <2>1. UpdatePlan(a, d).writes = KeepOld(c, n)
    BY <1>11, <1>22
  <2> QED BY <1>1, <1>9, <1>10, <1>13, <1>16, <1>17, <1>18, <1>19, <1>20, <1>22, <2>1 DEF SoundPlan
<1>23. CASE d.id # 0 /\ a \in d.marks /\ ~FromBackup(primary, backup)
  <2>1. UpdatePlan(a, d).writes \in {PrimaryOnly(n), None}
    BY <1>11, <1>23
  <2> QED BY <1>9, <1>10, <1>17, <1>18, <1>19, <1>20, <1>23, <2>1 DEF SoundPlan
<1> QED BY <1>21, <1>22, <1>23

\* Whatever the two files hold after a power loss, one of them is loaded.
LEMMA LoadedIs ==
  ASSUME Types, OnDisk, NEW p \in disk.primary, NEW b \in disk.backup
  PROVE  LET d == LoadedDocument(p, b) IN
         /\ d \in Documents
         /\ \/ d = p /\ p # Bad /\ (b = Missing \/ ~(b.rev > p.rev)) /\ ~FromBackup(p, b)
            \/ d = b /\ b # Missing /\ (p = Bad \/ b.rev > p.rev) /\ FromBackup(p, b)
         /\ d.id = 0 <=> d.rev = 0
         /\ d.id = 0 => b = Missing /\ p # Bad /\ d = p
<1>1. /\ p \in Documents \union {Bad} /\ b \in Documents \union {Missing}
      /\ p = Bad => b # Missing
  BY DEF Types, OnDisk
<1>2. Readable(p) <=> p # Bad
  BY <1>1 DEF Readable
<1>3. Readable(b) <=> b # Missing
  BY <1>1 DEF Readable
<1>4. /\ p # Bad => (p.id = 0 <=> p.rev = 0) /\ p.rev \in Nat
      /\ b # Missing => b.id # 0 /\ b.rev # 0 /\ b.rev \in Nat
  BY <1>1 DEF OnDisk, Documents
<1>5. CASE FromBackup(p, b)
  BY <1>1, <1>2, <1>3, <1>4, <1>5 DEF LoadedDocument, FromBackup
<1>6. CASE ~FromBackup(p, b)
  BY <1>1, <1>2, <1>3, <1>4, <1>6 DEF LoadedDocument, FromBackup
<1> QED BY <1>5, <1>6

-----------------------------------------------------------------------------
(* Types *)

LEMMA ProgramGoesOn ==
  ASSUME NEW a \in Actors, op[a] \in {"cached", "analyze", "update"}
  PROVE  /\ After(a) \in {"restat", "identify", "idle"}
         /\ After(a) = "restat" <=> op[a] = "cached"
         /\ After(a) = "identify" <=> op[a] = "analyze"
         /\ After(a) = "idle" <=> op[a] = "update"
BY DEF After

LEMMA StopTypes ==
  ASSUME TypeOK, Types, NEW a \in Actors, Stop(a)
  PROVE  /\ pc' \in [Actors -> {"idle", "load", "identify", "update", "backup", "primary", "sync", "restat"}]
         /\ op' \in [Actors -> {"cached", "analyze", "update", None}]
         /\ writes' \in [Actors -> Plans \union {None}] /\ result' \in [Actors -> Documents \union {None}]
BY DEF TypeOK, Types, Stop

\* The conjuncts of TypeOK that speak of each process follow from Types.
LEMMA TypesOfEach ==
  ASSUME Types
  PROVE  \A a \in Actors :
           /\ result[a] \in Documents \union {None}
           /\ writes[a] # None => writes[a].primary \in Documents
           /\ cache[a] # None => cache[a].registry \in Documents
           /\ floor[a] \subseteq Actors
BY DEF Types, Plans

Rest ==
  /\ primary \in Files /\ backup \in Files
  /\ lock \in Actors \union {None}
  /\ recorded \in Nat /\ allocated \in Nat /\ shown \subseteq Nat
  /\ pc \in [Actors -> {"idle", "load", "identify", "update", "backup", "primary", "sync", "restat"}]
  /\ op \in [Actors -> {"cached", "analyze", "update", None}]
  /\ acked \subseteq Actors /\ stale \subseteq Actors

LEMMA TypesSuffice ==
  ASSUME Types, Rest
  PROVE  TypeOK
<1>1. DOMAIN spent = {"crashes", "corruptions", "powerLosses", "loadFailures"}
  BY DEF Types
<1>2. disk.primary \subseteq Files /\ disk.backup \subseteq Files
  BY DEF Types, Files
<1> QED BY <1>1, <1>2, TypesOfEach DEF Rest, TypeOK

LEMMA RestHolds == TypeOK => Rest
BY DEF TypeOK, Rest

LEMMA SpendTypes ==
  ASSUME Types, NEW what \in DOMAIN spent, NEW max, Spend(what, max)
  PROVE  /\ spent' \in [{"crashes", "corruptions", "powerLosses", "loadFailures"} -> Nat]
         /\ \A x \in DOMAIN spent : spent'[x] = IF x = what THEN spent[x] + 1 ELSE spent[x]
BY DEF Types, Spend

\* The steps of a transaction under the lock.
LEMMA PlansRun ==
  ASSUME Types, Rest, NEW a \in Actors, NEW d \in Documents, NEW plan, Transact(a, plan),
         SoundPlan(d, plan.new, plan.writes), op[a] \in {"cached", "analyze", "update"}
  PROVE  Types' /\ primary' \in Files /\ backup' \in Files /\ lock' \in Actors \union {None}
         /\ shown' \subseteq Nat /\ acked' \subseteq Actors /\ stale' \subseteq Actors
         /\ pc' \in [Actors -> {"idle", "load", "identify", "update", "backup", "primary", "sync", "restat"}]
         /\ op' \in [Actors -> {"cached", "analyze", "update", None}]
<1>1. UNCHANGED <<primary, backup, disk, cache, floor, stale, spent>>
  BY DEF Transact, files, reads
<1>2. plan.new \in Documents /\ plan.new.id \in Nat /\ (plan.writes # None => plan.writes \in Plans)
  BY DEF SoundPlan, Documents
<1>3. CASE plan.writes = None
  <2>1. Returns(a, plan.new, FALSE)
    BY <1>3 DEF Transact
  <2>2. After(a) \in {"restat", "identify", "idle"}
    BY ProgramGoesOn
  <2>3. /\ lock' = None /\ acked' = acked /\ shown' = shown \union ({plan.new.id} \ {0})
        /\ writes' = [writes EXCEPT ![a] = None] /\ pc' = [pc EXCEPT ![a] = After(a)]
        /\ op' \in {op, [op EXCEPT ![a] = None]}
        /\ result' \in {[result EXCEPT ![a] = None], [result EXCEPT ![a] = plan.new]}
    BY <2>1 DEF Returns
  <2> QED BY <1>1, <1>2, <2>2, <2>3 DEF Types, Rest
<1>4. CASE plan.writes # None
  BY <1>1, <1>2, <1>4 DEF Transact, FirstStep, Types, Rest
<1> QED BY <1>3, <1>4

LEMMA TypeStep == RegistryInd /\ [Next]_vars => Types' /\ TypeOK'
<1> SUFFICES ASSUME Types, Rest, Programs, OnDisk, WritesFollow, [Next]_vars PROVE Types' /\ Rest'
  BY RestHolds, TypesSuffice, PTL DEF RegistryInd
<1>0. /\ Loaded \in Documents
      /\ \A a \in Actors : cache[a] \in [stamp : Files \X Files, registry : Documents] \union {None}
  BY LoadedIs DEF OnDisk, Loaded, Types
<1>1. ASSUME NEW a \in Actors, Analyze(a) \/ CacheHit(a) \/ CacheMiss(a) PROVE Types' /\ Rest'
  <2>1. CASE Analyze(a)
    BY <2>1 DEF Analyze, Types, Rest, files, idents, local, reads
  <2>2. CASE CacheHit(a)
    BY <2>2 DEF CacheHit, Answers, Types, Rest, files, idents, local
  <2>3. CASE CacheMiss(a)
    BY <2>3 DEF CacheMiss, Types, Rest, files, idents, local
  <2> QED BY <1>1, <2>1, <2>2, <2>3
<1>2. ASSUME NEW a \in Actors, FillCache(a) PROVE Types' /\ Rest'
  <2>1. result[a] \in Documents /\ Stamp \in Files \X Files
    BY <1>2 DEF FillCache, Programs, Writing, Answered, Rest, Stamp
  <2>2. [stamp |-> Stamp, registry |-> result[a]] \in [stamp : Files \X Files, registry : Documents]
    BY <2>1
  <2> QED BY <1>2, <2>2 DEF FillCache, Stop, Answers, Types, Rest, files, idents
<1>3. ASSUME NEW a \in Actors, LoadTransaction(a) PROVE Types' /\ Rest'
  <2>1. Transact(a, LoadPlan(Loaded)) /\ op[a] \in {"cached", "analyze", "update"}
    BY <1>3 DEF LoadTransaction, Loaded, Programs
  <2>2. SoundPlan(Loaded, LoadPlan(Loaded).new, LoadPlan(Loaded).writes)
    BY <1>0, PlanOfLoad DEF Rest
  <2>3. recorded' \in Nat /\ allocated' \in Nat
    BY <1>3 DEF LoadTransaction, Rest
  <2> QED BY <1>0, <2>1, <2>2, <2>3, PlansRun DEF Rest
<1>4. ASSUME NEW a \in Actors, UpdateTransaction(a) PROVE Types' /\ Rest'
  <2>1. Transact(a, UpdatePlan(a, Loaded)) /\ op[a] \in {"cached", "analyze", "update"}
    BY <1>4 DEF UpdateTransaction, Loaded, Programs
  <2>2. SoundPlan(Loaded, UpdatePlan(a, Loaded).new, UpdatePlan(a, Loaded).writes)
    BY <1>0, PlanOfUpdate DEF Rest
  <2>3. recorded' \in Nat /\ allocated' \in Nat
    <3>1. MigratedId(Loaded) \in Nat
      BY <1>0, IdentityDrawn DEF Rest
    <3> QED BY <1>4, <3>1 DEF UpdateTransaction, Rest, Ensured, Loaded
  <2> QED BY <1>0, <2>1, <2>2, <2>3, PlansRun DEF Rest
<1>5. ASSUME NEW a \in Actors, LoadFails(a) PROVE Types' /\ Rest'
  <2>1. op[a] \in {"cached", "analyze", "update"}
    BY <1>5 DEF LoadFails, Programs, Rest
  <2>2. EmptyDocument \in Documents
    BY DEF EmptyDocument, Documents
  <2>3. spent' \in [{"crashes", "corruptions", "powerLosses", "loadFailures"} -> Nat]
    BY <1>5, SpendTypes DEF LoadFails, Types
  <2> QED BY <1>5, <2>1, <2>2, <2>3, ProgramGoesOn DEF LoadFails, Types, Rest, files, idents, reads
<1>6. ASSUME NEW a \in Actors, Identify(a) PROVE Types' /\ Rest'
  <2>1. result[a].id \in Nat
    BY <1>6 DEF Identify, Programs, Writing, Answered, Documents
  <2>2. recorded' \in Nat /\ allocated' \in Nat
    BY <1>6, <2>1 DEF Identify, Ensured, Rest
  <2> QED BY <1>6, <2>2 DEF Identify, Types, Rest, files, local, reads
<1>7. ASSUME NEW a \in Actors, IdentifyFails(a) \/ UpdateFails(a) PROVE Types' /\ Rest'
  BY <1>7 DEF IdentifyFails, UpdateFails, Stop, Types, Rest, files, idents, reads
<1>8. ASSUME NEW a \in Actors, WriteBackup(a) PROVE Types' /\ Rest'
  <2>1. writes[a].backup \in Documents
    BY <1>8 DEF WriteBackup, WritesFollow, Writes
  <2> QED BY <1>8, <2>1 DEF WriteBackup, Types, Rest, Files, idents, local, reads
<1>9. ASSUME NEW a \in Actors, WritePrimary(a) PROVE Types' /\ Rest'
  <2>1. writes[a].primary \in Documents
    BY <1>9 DEF WritePrimary, Programs, Writing, Plans
  <2> QED BY <1>9, <2>1 DEF WritePrimary, Types, Rest, Files, idents, local, reads
<1>10. ASSUME NEW a \in Actors, SyncParent(a) PROVE Types' /\ Rest'
  <2>1. op[a] \in {"cached", "analyze", "update"} /\ result[a] \in Documents
    BY <1>10 DEF SyncParent, Programs, Writing, Rest
  <2>2. result[a].id \in Nat
    BY <2>1 DEF Documents
  <2>3. primary \in Documents \union {Bad} /\ backup \in Documents \union {Missing}
    BY DEF Types, OnDisk
  <2> QED BY <1>10, <2>1, <2>2, <2>3, ProgramGoesOn DEF SyncParent, Returns, Types, Rest
<1>11. ASSUME NEW a \in Actors, Interrupt(a) PROVE Types' /\ Rest'
  <2>1. spent' \in [{"crashes", "corruptions", "powerLosses", "loadFailures"} -> Nat]
    BY <1>11, SpendTypes DEF Interrupt, Types
  <2> QED BY <1>0, <1>11, <2>1 DEF Interrupt, Stop, Types, Rest, files, idents
<1>12. CASE DamagePrimary
  <2>1. spent' \in [{"crashes", "corruptions", "powerLosses", "loadFailures"} -> Nat]
    BY <1>12, SpendTypes DEF DamagePrimary, Types
  <2> QED BY <1>12, <2>1 DEF DamagePrimary, Types, Rest, Files, idents, local, reads
<1>13. CASE PowerLoss
  <2>1. spent' \in [{"crashes", "corruptions", "powerLosses", "loadFailures"} -> Nat]
    BY <1>13, SpendTypes DEF PowerLoss, Types
  <2>2. primary' \in Documents \union {Bad} /\ backup' \in Documents \union {Missing}
    BY <1>13 DEF PowerLoss, Types
  <2> QED BY <1>13, <2>1, <2>2 DEF PowerLoss, Types, Rest, Files, idents
<1>14. CASE UNCHANGED vars
  BY <1>14 DEF vars, files, idents, local, reads, Types, Rest
<1> QED BY <1>1, <1>2, <1>3, <1>4, <1>5, <1>6, <1>7, <1>8, <1>9, <1>10, <1>11, <1>12, <1>13, <1>14 DEF Next

-----------------------------------------------------------------------------
(* Programs                                                                *)

\* What is spent stays spent.
LEMMA BudgetsOnlyShrink ==
  ASSUME Types, [Next]_vars
  PROVE  /\ Undamaged' => Undamaged
         /\ PowerKept' => PowerKept
         /\ LoadsSucceeded' => LoadsSucceeded
<1>1. ASSUME NEW what \in DOMAIN spent, NEW max, Spend(what, max)
      PROVE  \A x \in DOMAIN spent : spent'[x] = 0 => spent[x] = 0
  BY <1>1, SpendTypes DEF Types
<1>2. DOMAIN spent = {"crashes", "corruptions", "powerLosses", "loadFailures"}
  BY DEF Types
<1>3. \A x \in DOMAIN spent : spent'[x] = 0 => spent[x] = 0
  <2>1. ASSUME NEW a \in Actors, LoadFails(a) \/ Interrupt(a) PROVE \A x \in DOMAIN spent : spent'[x] = 0 => spent[x] = 0
    BY <1>1, <1>2, <2>1 DEF LoadFails, Interrupt
  <2>2. ASSUME DamagePrimary \/ PowerLoss PROVE \A x \in DOMAIN spent : spent'[x] = 0 => spent[x] = 0
    BY <1>1, <1>2, <2>2 DEF DamagePrimary, PowerLoss
  <2>3. ASSUME NEW a \in Actors,
               \/ Analyze(a) \/ CacheHit(a) \/ CacheMiss(a) \/ FillCache(a)
               \/ LoadTransaction(a) \/ Identify(a) \/ IdentifyFails(a)
               \/ UpdateTransaction(a) \/ UpdateFails(a)
               \/ WriteBackup(a) \/ WritePrimary(a) \/ SyncParent(a)
        PROVE  spent' = spent
    BY <2>3 DEF Analyze, CacheHit, CacheMiss, FillCache, LoadTransaction, Transact, Identify, IdentifyFails,
                UpdateTransaction, UpdateFails, WriteBackup, WritePrimary, SyncParent
  <2>4. UNCHANGED vars => spent' = spent
    BY DEF vars
  <2> QED BY <2>1, <2>2, <2>3, <2>4 DEF Next
<1> QED BY <1>2, <1>3 DEF Undamaged, PowerKept, LoadsSucceeded

FilesKept == UNCHANGED <<primary, backup, disk>>

\* The two ways of a transaction under the lock: to write, or to return.
LEMMA Transacted ==
  ASSUME Types, Rest, Programs, NEW a \in Actors, NEW d \in Documents, NEW plan, Transact(a, plan),
         SoundPlan(d, plan.new, plan.writes), op[a] \in {"cached", "analyze", "update"}
  PROVE  /\ FilesKept /\ spent' = spent /\ acked' = acked
         /\ \/ /\ plan.writes = None /\ lock' = None
               /\ shown' = shown \union ({plan.new.id} \ {0})
               /\ writes' = [writes EXCEPT ![a] = None] /\ pc' = [pc EXCEPT ![a] = After(a)]
               /\ op' = IF op[a] = "update" THEN [op EXCEPT ![a] = None] ELSE op
               /\ result' = [result EXCEPT ![a] = IF op[a] = "update" THEN None ELSE plan.new]
            \/ /\ plan.writes \in Plans /\ lock' = a
               /\ result' = [result EXCEPT ![a] = plan.new] /\ writes' = [writes EXCEPT ![a] = plan.writes]
               /\ pc' = [pc EXCEPT ![a] = IF plan.writes.backup # None THEN "backup" ELSE "primary"]
               /\ op' = op /\ shown' = shown
<1>1. UNCHANGED <<primary, backup, disk, spent>>
  BY DEF Transact, files
<1>2. CASE plan.writes = None
  <2>1. Returns(a, plan.new, FALSE)
    BY <1>2 DEF Transact
  <2>2. /\ lock' = None /\ acked' = acked /\ shown' = shown \union ({plan.new.id} \ {0})
        /\ writes' = [writes EXCEPT ![a] = None] /\ pc' = [pc EXCEPT ![a] = After(a)]
    BY <2>1 DEF Returns
  <2>3. CASE op[a] = "update"
    <3>1. op' = [op EXCEPT ![a] = None] /\ result' = [result EXCEPT ![a] = None]
      BY <2>1, <2>3 DEF Returns
    <3> QED BY <1>1, <1>2, <2>2, <2>3, <3>1 DEF FilesKept
  <2>4. CASE op[a] # "update"
    <3>1. op' = op /\ result' = [result EXCEPT ![a] = plan.new]
      BY <2>1, <2>4 DEF Returns
    <3> QED BY <1>1, <1>2, <2>2, <2>4, <3>1 DEF FilesKept
  <2> QED BY <2>3, <2>4
<1>3. CASE plan.writes # None
  BY <1>1, <1>3 DEF Transact, FirstStep, FilesKept, SoundPlan
<1> QED BY <1>2, <1>3

\* A transaction loads a document and plans soundly.
LEMMA Planned ==
  ASSUME Types, Rest, Programs, OnDisk, NEW a \in Actors, LoadTransaction(a) \/ UpdateTransaction(a)
  PROVE  /\ lock = None /\ Loaded \in Documents /\ op[a] \in {"cached", "analyze", "update"}
         /\ \E plan : /\ Transact(a, plan) /\ SoundPlan(Loaded, plan.new, plan.writes)
                      /\ op[a] = "update" => a \in plan.new.marks
<1>1. Loaded \in Documents
  BY LoadedIs DEF OnDisk, Loaded
<1>2. CASE LoadTransaction(a)
  <2>1. Transact(a, LoadPlan(Loaded)) /\ op[a] \in {"cached", "analyze"} /\ lock = None
    BY <1>2 DEF LoadTransaction, Loaded, Programs
  <2>2. SoundPlan(Loaded, LoadPlan(Loaded).new, LoadPlan(Loaded).writes)
    BY <1>1, PlanOfLoad DEF Rest
  <2> QED BY <1>1, <2>1, <2>2
<1>3. CASE UpdateTransaction(a)
  <2>1. Transact(a, UpdatePlan(a, Loaded)) /\ op[a] = "update" /\ lock = None
    BY <1>3 DEF UpdateTransaction, Loaded, Programs
  <2>2. SoundPlan(Loaded, UpdatePlan(a, Loaded).new, UpdatePlan(a, Loaded).writes) /\ a \in UpdatePlan(a, Loaded).new.marks
    BY <1>1, PlanOfUpdate DEF Rest
  <2> QED BY <1>1, <2>1, <2>2
<1> QED BY <1>2, <1>3

LEMMA ProgramsStep ==
  ASSUME Types, Rest, Programs, OnDisk, [Next]_vars
  PROVE  Programs'
<1> USE DEF Writing, Answered
<1>1. ASSUME NEW a \in Actors, Analyze(a) \/ CacheMiss(a) PROVE Programs'
  BY <1>1 DEF Analyze, CacheMiss, Rest, Programs, local
<1>2. ASSUME NEW a \in Actors, CacheHit(a) PROVE Programs'
  BY <1>2 DEF CacheHit, Rest, Programs, local
<1>3. ASSUME NEW a \in Actors, FillCache(a) \/ IdentifyFails(a) \/ UpdateFails(a) PROVE Programs'
  <2>1. pc[a] \in {"restat", "identify", "update"} /\ Stop(a) /\ lock' = lock
    BY <1>3 DEF FillCache, IdentifyFails, UpdateFails
  <2> QED BY <2>1 DEF Stop, Types, Rest, Programs
<1>4. ASSUME NEW a \in Actors, LoadTransaction(a) \/ UpdateTransaction(a) PROVE Programs'
  <2>1. PICK plan : Transact(a, plan) /\ SoundPlan(Loaded, plan.new, plan.writes)
    BY <1>4, Planned
  <2>2. Loaded \in Documents /\ lock = None /\ op[a] \in {"cached", "analyze", "update"}
    BY <1>4, Planned
  <2>3. plan.new \in Documents
    BY <2>1 DEF SoundPlan
  <2>4. \A b \in Actors : pc[b] \notin Writing
    BY <2>2 DEF Programs
  <2>5. CASE /\ lock' = None
             /\ writes' = [writes EXCEPT ![a] = None] /\ pc' = [pc EXCEPT ![a] = After(a)]
             /\ op' = IF op[a] = "update" THEN [op EXCEPT ![a] = None] ELSE op
             /\ result' = [result EXCEPT ![a] = IF op[a] = "update" THEN None ELSE plan.new]
    <3>1. After(a) \notin Writing /\ (op[a] = "update" => After(a) = "idle")
          /\ After(a) \in {"restat", "identify", "idle"}
      BY <2>2, ProgramGoesOn
    <3>2. pc'[a] = After(a) /\ \A b \in Actors : b # a => pc'[b] = pc[b] /\ writes'[b] = writes[b]
      BY <2>5 DEF Rest, Types
    <3>3. \A b \in Actors : b # a => op'[b] = op[b] /\ result'[b] = result[b]
      BY <2>5 DEF Rest, Types
    <3>4. op[a] # "update" => result'[a] = plan.new
      BY <2>5 DEF Types
    <3>5. \A b \in Actors : pc'[b] \notin Writing /\ lock' # b
      BY <2>4, <2>5, <3>1, <3>2
    <3>6. \A b \in Actors : /\ pc'[b] = "load" => op'[b] \in {"cached", "analyze"}
                            /\ pc'[b] = "update" => op'[b] = "update"
      BY <3>1, <3>2, <3>3 DEF Programs
    <3>7. \A b \in Actors : pc'[b] \in Answered => result'[b] \in Documents
      BY <2>3, <3>1, <3>2, <3>3, <3>4 DEF Programs
    <3> QED BY <3>5, <3>6, <3>7 DEF Programs
  <2>6. CASE /\ plan.writes \in Plans /\ lock' = a
             /\ result' = [result EXCEPT ![a] = plan.new] /\ writes' = [writes EXCEPT ![a] = plan.writes]
             /\ pc' = [pc EXCEPT ![a] = IF plan.writes.backup # None THEN "backup" ELSE "primary"]
             /\ op' = op
    <3>1. /\ pc'[a] \in {"backup", "primary"} /\ result'[a] = plan.new /\ writes'[a] = plan.writes
          /\ op'[a] = op[a]
      BY <2>6 DEF Types, Rest
    <3>2. \A b \in Actors : b # a => pc'[b] = pc[b] /\ writes'[b] = writes[b] /\ op'[b] = op[b] /\ result'[b] = result[b]
      BY <2>6 DEF Rest, Types
    <3>3. \A b \in Actors : lock' = b <=> pc'[b] \in Writing
      BY <2>4, <2>6, <3>1, <3>2
    <3> QED BY <2>2, <2>3, <2>4, <2>6, <3>1, <3>2, <3>3 DEF Programs
  <2> QED BY <2>1, <2>2, <2>5, <2>6, Transacted
<1>5. ASSUME NEW a \in Actors, LoadFails(a) PROVE Programs'
  <2>1. op[a] \in {"cached", "analyze"} /\ pc[a] \in Writing \union {"load"}
    BY <1>5 DEF LoadFails, Programs, Rest
  <2>2. EmptyDocument \in Documents
    BY DEF EmptyDocument, Documents
  <2>3. After(a) \in {"restat", "identify"} /\ \A b \in Actors : lock = a /\ b # a => pc[b] \notin Writing
    BY <2>1, ProgramGoesOn DEF Programs
  <2> QED BY <1>5, <2>1, <2>2, <2>3 DEF LoadFails, Types, Rest, Programs
<1>6. ASSUME NEW a \in Actors, Identify(a) PROVE Programs'
  BY <1>6 DEF Identify, Rest, Programs, local
<1>7. ASSUME NEW a \in Actors, WriteBackup(a) \/ WritePrimary(a) PROVE Programs'
  BY <1>7 DEF WriteBackup, WritePrimary, Rest, Programs, local
<1>8. ASSUME NEW a \in Actors, SyncParent(a) PROVE Programs'
  <2>1. op[a] \in {"cached", "analyze", "update"} /\ result[a] \in Documents /\ lock = a
    BY <1>8 DEF SyncParent, Programs, Rest
  <2>2. \A b \in Actors : b # a => pc[b] \notin Writing
    BY <2>1 DEF Programs
  <2>3. /\ lock' = None /\ writes' = [writes EXCEPT ![a] = None] /\ pc' = [pc EXCEPT ![a] = After(a)]
        /\ op' = IF op[a] = "update" THEN [op EXCEPT ![a] = None] ELSE op
        /\ result' = [result EXCEPT ![a] = IF op[a] = "update" THEN None ELSE result[a]]
    BY <1>8 DEF SyncParent, Returns
  <2> QED BY <2>1, <2>2, <2>3, ProgramGoesOn DEF Types, Rest, Programs
<1>9. ASSUME NEW a \in Actors, Interrupt(a) PROVE Programs'
  <2>1. \A b \in Actors : b # a => pc[b] \notin Writing
    BY <1>9 DEF Interrupt, Programs
  <2> QED BY <1>9, <2>1 DEF Interrupt, Stop, Types, Rest, Programs
<1>10. CASE DamagePrimary
  BY <1>10 DEF DamagePrimary, local, Programs
<1>11. CASE PowerLoss
  BY <1>11 DEF PowerLoss, Programs
<1>12. CASE UNCHANGED vars
  BY <1>12 DEF vars, local, Programs
<1> QED BY <1>1, <1>2, <1>3, <1>4, <1>5, <1>6, <1>7, <1>8, <1>9, <1>10, <1>11, <1>12 DEF Next

-----------------------------------------------------------------------------
(* The files                                                               *)

LEMMA RevisionsLoaded ==
  ASSUME Types, OnDisk
  PROVE  /\ primary \in Documents \union {Bad} /\ backup \in Documents \union {Missing}
         /\ Loaded \in Documents /\ Loaded.rev \in Nat
         /\ primary # Bad => primary.rev \in Nat /\ primary.rev <= Loaded.rev
         /\ backup # Missing => backup.rev \in Nat /\ backup.rev <= Loaded.rev
<1>1. primary \in Documents \union {Bad} /\ backup \in Documents \union {Missing}
  BY DEF Types, OnDisk
<1>2. /\ Loaded \in Documents
      /\ \/ Loaded = primary /\ primary # Bad /\ (backup = Missing \/ ~(backup.rev > primary.rev))
         \/ Loaded = backup /\ backup # Missing /\ (primary = Bad \/ backup.rev > primary.rev)
  BY LoadedIs DEF OnDisk, Loaded
<1>3. \A d \in Documents : d.rev \in Nat
  BY DEF Documents
<1>4. /\ primary # Bad => primary.rev \in Nat
      /\ backup # Missing => backup.rev \in Nat
  BY <1>1, <1>3
<1> QED BY <1>1, <1>2, <1>3, <1>4

LEMMA FollowsRevision ==
  ASSUME NEW d \in Documents, NEW e \in Documents, Follows(d, e)
  PROVE  d.rev \in Nat /\ e.rev \in Nat /\ d.rev <= e.rev
<1>1. d.rev \in Nat /\ e.rev \in Nat
  BY DEF Documents
<1> QED BY <1>1, FollowsIs

\* A new backup is loaded, unless the primary was the one to load and still is.
LEMMA BackupWritten ==
  ASSUME Types, OnDisk, NEW w \in Documents, Follows(Loaded, w), NEW p \in disk.primary
  PROVE  \/ LoadedDocument(p, w) = w
         \/ LoadedDocument(p, w) = p /\ LoadedDocument(p, backup) = p
<1>1. p \in Documents \union {Bad} /\ w.rev \in Nat /\ Loaded.rev <= w.rev /\ Loaded.rev \in Nat
  BY RevisionsLoaded, FollowsRevision DEF Types
<1>2. Readable(w) /\ (Readable(p) <=> p # Bad)
  BY <1>1 DEF Readable
<1>3. CASE p = Bad \/ w.rev > p.rev
  BY <1>2, <1>3 DEF LoadedDocument, FromBackup
<1>4. CASE p # Bad /\ ~(w.rev > p.rev)
  <2>1. p.rev \in Nat
    BY <1>1, <1>4 DEF Documents
  <2>2. backup # Missing => ~(backup.rev > p.rev)
    BY <1>1, <1>4, <2>1, RevisionsLoaded
  <2>3. Readable(backup) => backup # Missing
    BY DEF Readable
  <2> QED BY <1>2, <1>4, <2>2, <2>3 DEF LoadedDocument, FromBackup
<1> QED BY <1>3, <1>4

\* A new primary is loaded, also over the backups that a power loss may restore
\* unless those were loaded over the old one.
LEMMA PrimaryWritten ==
  ASSUME Types, OnDisk, NEW r \in Documents, Follows(Loaded, r)
  PROVE  /\ LoadedDocument(r, backup) = r
         /\ \A b \in disk.backup :
              \/ LoadedDocument(r, b) = r
              \/ LoadedDocument(r, b) = b /\ LoadedDocument(primary, b) = b
<1>1. r.rev \in Nat /\ Loaded.rev <= r.rev /\ Loaded.rev \in Nat
  BY RevisionsLoaded, FollowsRevision
<1>2. Readable(r)
  BY DEF Readable
<1>3. LoadedDocument(r, backup) = r
  <2>1. Readable(backup) => backup # Missing
    BY DEF Readable
  <2>2. backup # Missing => ~(backup.rev > r.rev)
    BY <1>1, RevisionsLoaded
  <2> QED BY <1>2, <2>1, <2>2 DEF LoadedDocument, FromBackup
<1>4. ASSUME NEW b \in disk.backup
      PROVE  \/ LoadedDocument(r, b) = r
             \/ LoadedDocument(r, b) = b /\ LoadedDocument(primary, b) = b
  <2>1. CASE ~FromBackup(r, b)
    BY <2>1 DEF LoadedDocument
  <2>2. CASE FromBackup(r, b)
    <3>1. Readable(b) /\ b.rev > r.rev /\ b \in Documents
      BY <1>2, <2>2 DEF FromBackup, Readable, Types
    <3>2. b.rev \in Nat
      BY <3>1 DEF Documents
    <3>3. Readable(primary) => b.rev > primary.rev
      BY <1>1, <3>1, <3>2, RevisionsLoaded DEF Readable
    <3> QED BY <2>2, <3>1, <3>3 DEF FromBackup, LoadedDocument
  <2> QED BY <2>1, <2>2
<1> QED BY <1>3, <1>4

\* The steps that leave the files alone.
Reads(a) ==
  \/ Analyze(a) \/ CacheHit(a) \/ CacheMiss(a) \/ FillCache(a)
  \/ LoadTransaction(a) \/ UpdateTransaction(a)
  \/ LoadFails(a) \/ Identify(a) \/ IdentifyFails(a) \/ UpdateFails(a) \/ Interrupt(a)

LEMMA OthersKeepFiles ==
  ASSUME NEW a \in Actors, Reads(a)
  PROVE  FilesKept /\ acked' = acked
<1>1. CASE LoadTransaction(a) \/ UpdateTransaction(a)
  <2>1. PICK plan : Transact(a, plan)
    BY <1>1 DEF LoadTransaction, UpdateTransaction
  <2>2. Returns(a, plan.new, FALSE) => acked' = acked
    BY DEF Returns
  <2> QED BY <2>1, <2>2 DEF Transact, files, FilesKept
<1>2. CASE ~(LoadTransaction(a) \/ UpdateTransaction(a))
  BY <1>2 DEF Reads, Analyze, CacheHit, CacheMiss, FillCache, LoadFails, Identify,
              IdentifyFails, UpdateFails, Interrupt, files, FilesKept
<1> QED BY <1>1, <1>2

LEMMA StepKinds ==
  ASSUME [Next]_vars
  PROVE  \/ \E a \in Actors : Reads(a) \/ WriteBackup(a) \/ WritePrimary(a) \/ SyncParent(a)
         \/ DamagePrimary \/ PowerLoss \/ UNCHANGED vars
BY DEF Next, Reads

LEMMA OnDiskStep ==
  ASSUME Types, Rest, Programs, OnDisk, WritesFollow, [Next]_vars
  PROVE  OnDisk'
<1>1. CASE FilesKept
  <2>1. Undamaged' => Undamaged
    BY BudgetsOnlyShrink
  <2> QED BY <1>1, <2>1 DEF FilesKept, OnDisk
<1>2. ASSUME NEW a \in Actors, WriteBackup(a) PROVE OnDisk'
  <2>1. /\ primary' = primary /\ spent' = spent /\ backup' = writes[a].backup
        /\ disk'.primary = disk.primary /\ disk'.backup = disk.backup \union {backup'}
    BY <1>2 DEF WriteBackup, Types
  <2>2. backup' \in Documents /\ backup'.id # 0 /\ backup'.rev # 0
    BY <1>2 DEF WriteBackup, WritesFollow, Writes
  <2>3. backup' # Missing
    BY <2>2
  <2> QED BY <2>1, <2>2, <2>3 DEF OnDisk, Undamaged
<1>3. ASSUME NEW a \in Actors, WritePrimary(a) PROVE OnDisk'
  <2>1. /\ backup' = backup /\ spent' = spent /\ primary' = writes[a].primary
        /\ disk'.backup = disk.backup /\ disk'.primary = disk.primary \union {primary'}
    BY <1>3 DEF WritePrimary, Types
  <2>2. primary' \in Documents /\ primary'.id # 0 /\ primary'.rev # 0
    BY <1>3 DEF WritePrimary, WritesFollow, Writes, Programs, Writing
  <2>3. primary' # Bad
    BY <2>2
  <2> QED BY <2>1, <2>2, <2>3 DEF OnDisk, Undamaged
<1>4. ASSUME NEW a \in Actors, SyncParent(a) PROVE OnDisk'
  <2>1. /\ backup' = backup /\ spent' = spent /\ primary' = primary
        /\ disk'.backup = {backup} /\ disk'.primary = {primary}
    BY <1>4 DEF SyncParent
  <2> QED BY <2>1 DEF OnDisk, Undamaged
<1>5. CASE DamagePrimary
  <2>1. /\ backup' = backup /\ primary' = Bad /\ disk'.primary = {Bad} /\ disk'.backup = disk.backup
        /\ Missing \notin disk.backup
    BY <1>5 DEF DamagePrimary, Types, Readable
  <2>2. ~Undamaged'
    <3>1. spent' = [spent EXCEPT !["corruptions"] = @ + 1]
      BY <1>5 DEF DamagePrimary, Spend
    <3>2. spent["corruptions"] \in Nat /\ spent'["corruptions"] = spent["corruptions"] + 1
      BY <3>1 DEF Types
    <3> QED BY <3>2 DEF Undamaged
  <2> QED BY <2>1, <2>2 DEF OnDisk
<1>6. CASE PowerLoss
  <2>1. /\ primary' \in disk.primary /\ backup' \in disk.backup
        /\ disk'.primary = {primary'} /\ disk'.backup = {backup'}
    BY <1>6 DEF PowerLoss
  <2>2. Undamaged' => Undamaged
    BY BudgetsOnlyShrink
  <2> QED BY <2>1, <2>2 DEF OnDisk
<1>7. UNCHANGED vars => FilesKept
  BY DEF vars, files, FilesKept
<1> QED BY <1>1, <1>2, <1>3, <1>4, <1>5, <1>6, <1>7, StepKinds, OthersKeepFiles

-----------------------------------------------------------------------------
(* What transactions write follows what they loaded                        *)

Goes(a) == pc'[a] = pc[a] /\ op'[a] = op[a] /\ writes'[a] = writes[a] /\ result'[a] = result[a]

\* A transaction of b begins to write w, and n at the last.
Begins(b, n, w) ==
  /\ lock = None /\ SoundPlan(Loaded, n, w) /\ w \in Plans
  /\ op[b] = "update" => b \in n.marks
  /\ result'[b] = n /\ writes'[b] = w /\ op'[b] = op[b]
  /\ pc'[b] = IF w.backup # None THEN "backup" ELSE "primary"

\* Who writes has begun in a transaction, and nobody else touches its plan.
LEMMA WritersKeepPlans ==
  ASSUME Types, Rest, Programs, OnDisk, NEW a \in Actors, Reads(a),
         NEW b \in Actors, pc'[b] \in Writing
  PROVE  Goes(b) \/ \E n, w : Begins(b, n, w)
<1> USE DEF Writing
<1>1. CASE Analyze(a) \/ CacheHit(a) \/ CacheMiss(a) \/ Identify(a)
  BY <1>1 DEF Analyze, CacheHit, CacheMiss, Identify, Rest, Goes, local
<1>2. CASE FillCache(a) \/ IdentifyFails(a) \/ UpdateFails(a) \/ Interrupt(a)
  <2>1. Stop(a)
    BY <1>2 DEF FillCache, IdentifyFails, UpdateFails, Interrupt
  <2> QED BY <2>1 DEF Stop, Types, Rest, Goes
<1>3. CASE LoadFails(a)
  <2>1. op[a] \in {"cached", "analyze", "update"}
    BY <1>3 DEF LoadFails, Programs, Rest
  <2>2. After(a) \notin Writing
    BY <2>1, ProgramGoesOn
  <2>3. /\ pc'[a] = After(a) /\ op' = op
        /\ \A c \in Actors : c # a => pc'[c] = pc[c] /\ result'[c] = result[c] /\ writes'[c] = writes[c]
    BY <1>3 DEF LoadFails, Types, Rest
  <2> QED BY <2>2, <2>3 DEF Goes
<1>4. CASE LoadTransaction(a) \/ UpdateTransaction(a)
  <2>1. PICK plan : /\ Transact(a, plan) /\ SoundPlan(Loaded, plan.new, plan.writes)
                    /\ op[a] = "update" => a \in plan.new.marks
    BY <1>4, Planned
  <2>2. Loaded \in Documents /\ lock = None /\ op[a] \in {"cached", "analyze", "update"}
    BY <1>4, Planned
  <2>3. CASE /\ writes' = [writes EXCEPT ![a] = None] /\ pc' = [pc EXCEPT ![a] = After(a)]
             /\ op' = IF op[a] = "update" THEN [op EXCEPT ![a] = None] ELSE op
             /\ result' = [result EXCEPT ![a] = IF op[a] = "update" THEN None ELSE plan.new]
    <3>1. After(a) \notin Writing
      BY <2>2, ProgramGoesOn
    <3>2. pc'[a] = After(a) /\ \A c \in Actors : c # a => pc'[c] = pc[c] /\ writes'[c] = writes[c]
      BY <2>3 DEF Rest, Types
    <3>3. \A c \in Actors : c # a => op'[c] = op[c] /\ result'[c] = result[c]
      BY <2>3 DEF Rest, Types
    <3> QED BY <3>1, <3>2, <3>3 DEF Goes
  <2>4. CASE /\ plan.writes \in Plans
             /\ result' = [result EXCEPT ![a] = plan.new] /\ writes' = [writes EXCEPT ![a] = plan.writes]
             /\ pc' = [pc EXCEPT ![a] = IF plan.writes.backup # None THEN "backup" ELSE "primary"]
             /\ op' = op
    <3>1. /\ result'[a] = plan.new /\ writes'[a] = plan.writes /\ op'[a] = op[a]
          /\ pc'[a] = IF plan.writes.backup # None THEN "backup" ELSE "primary"
      BY <2>4 DEF Rest, Types
    <3>2. \A c \in Actors : c # a => pc'[c] = pc[c] /\ writes'[c] = writes[c] /\ op'[c] = op[c] /\ result'[c] = result[c]
      BY <2>4 DEF Rest, Types
    <3>3. CASE b = a
      <4>1. Begins(a, plan.new, plan.writes)
        BY <2>1, <2>2, <2>4, <3>1 DEF Begins
      <4> QED BY <3>3, <4>1
    <3>4. CASE b # a
      BY <3>2, <3>4 DEF Goes
    <3> QED BY <3>3, <3>4
  <2> QED BY <2>1, <2>2, <2>3, <2>4, Transacted
<1> QED BY <1>1, <1>2, <1>3, <1>4 DEF Reads

LEMMA FollowerHasIdentity ==
  ASSUME Types, OnDisk, NEW n \in Documents, n.id # 0, Follows(Loaded, n)
  PROVE  n.rev # 0
<1>1. /\ Loaded \in Documents /\ Loaded.rev \in Nat /\ n.rev \in Nat
      /\ Loaded.id = 0 <=> Loaded.rev = 0
  BY RevisionsLoaded, LoadedIs DEF OnDisk, Loaded, Documents
<1> QED BY <1>1, FollowsIs

LEMMA WritesFollowStep ==
  ASSUME Types, Rest, Programs, OnDisk, WritesFollow, [Next]_vars
  PROVE  WritesFollow'
<1> SUFFICES ASSUME NEW b \in Actors PROVE Writes(b)'
  BY DEF WritesFollow, Writes
<1>1. CASE pc'[b] \notin Writing
  BY <1>1 DEF Writing, Writes
<1>2. Writes(b)
  BY DEF WritesFollow, Writes
<1>3. CASE FilesKept /\ Goes(b)
  <2>1. Loaded' = Loaded
    BY <1>3 DEF Loaded, FilesKept
  <2> QED BY <1>2, <1>3, <2>1 DEF Writes, Goes, FilesKept, Follows
<1>4. ASSUME FilesKept, NEW n, NEW w, Begins(b, n, w) PROVE Writes(b)'
  <2>1. Loaded' = Loaded /\ Loaded \in Documents
    BY <1>4, RevisionsLoaded DEF Loaded, FilesKept
  <2>2. n \in Documents /\ n.id # 0 /\ Follows(Loaded, n) /\ Loaded.marks \subseteq n.marks /\ w.primary = n
    <3>1. w # None
      BY <1>4 DEF Begins
    <3> QED BY <1>4, <2>1, <3>1, IdentityDrawn DEF Begins, SoundPlan, Rest
  <2>3. n.rev # 0
    BY <2>2, FollowerHasIdentity
  <2>4. CASE w.backup = None
    BY <1>4, <2>1, <2>2, <2>3, <2>4 DEF Begins, Writes, Writing, Follows
  <2>5. CASE w.backup # None
    <3>1. /\ w.backup \in Documents /\ w.backup.id = n.id /\ Follows(Loaded, w.backup) /\ Follows(w.backup, n)
          /\ Loaded.marks \subseteq w.backup.marks /\ w.backup.marks \subseteq n.marks
      BY <1>4, <2>5 DEF Begins, SoundPlan, Plans
    <3>2. w.backup.rev # 0 /\ w.backup.id # 0
      BY <2>2, <3>1, FollowerHasIdentity
    <3> QED BY <1>4, <2>1, <2>2, <2>3, <2>5, <3>1, <3>2 DEF Begins, Writes, Writing, Follows
  <2> QED BY <2>4, <2>5
<1>5. ASSUME NEW a \in Actors, Reads(a) PROVE Writes(b)'
  <2>1. FilesKept
    BY <1>5, OthersKeepFiles
  <2> QED BY <1>1, <1>3, <1>4, <1>5, <2>1, WritersKeepPlans
<1>6. ASSUME NEW a \in Actors, WriteBackup(a), pc'[b] \in Writing PROVE Writes(b)'
  <2>1. pc[a] = "backup" /\ pc'[a] = "primary" /\ \A c \in Actors : c # a => pc'[c] = pc[c]
    BY <1>6 DEF WriteBackup, Rest
  <2>2. b = a
    BY <1>6, <2>1 DEF Programs, Writing
  <2>3. /\ primary' = primary /\ backup' = writes[a].backup /\ writes' = writes /\ result' = result /\ op' = op
    BY <1>6 DEF WriteBackup, local
  <2>4. PICK w \in Documents : /\ w = writes[a].backup /\ Follows(Loaded, w) /\ Follows(w, result[a])
                               /\ Loaded.marks \subseteq w.marks /\ w.marks \subseteq result[a].marks
    BY <1>2, <2>1, <2>2 DEF Writes
  <2>5. Loaded' = w \/ Loaded' = Loaded
    <3>1. LoadedDocument(primary, w) = w \/ LoadedDocument(primary, w) = Loaded
      BY <2>4, BackupWritten DEF OnDisk, Loaded
    <3> QED BY <2>3, <2>4, <3>1 DEF Loaded
  <2>6. Follows(Loaded, result[a]) /\ result[a] \in Documents
    <3>1. result[a] \in Documents /\ Loaded \in Documents
      BY <2>1, RevisionsLoaded DEF Programs, Writing
    <3>2. w.rev \in Nat /\ Loaded.rev \in Nat /\ result[a].rev \in Nat
      BY <2>4, <3>1, FollowsRevision
    <3> QED BY <2>4, <3>1, <3>2, FollowsIs
  <2>7. Follows(Loaded, result[a])' /\ (Loaded.marks \subseteq result[a].marks)'
    BY <2>3, <2>4, <2>5, <2>6 DEF Follows
  <2> QED BY <1>2, <2>1, <2>2, <2>3, <2>7 DEF Writes, Writing
<1>7. ASSUME NEW a \in Actors, WritePrimary(a), pc'[b] \in Writing PROVE Writes(b)'
  <2>1. pc[a] = "primary" /\ pc'[a] = "sync" /\ \A c \in Actors : c # a => pc'[c] = pc[c]
    BY <1>7 DEF WritePrimary, Rest
  <2>2. b = a
    BY <1>7, <2>1 DEF Programs, Writing
  <2>3. /\ backup' = backup /\ primary' = writes[a].primary /\ writes' = writes /\ result' = result /\ op' = op
    BY <1>7 DEF WritePrimary, local
  <2>4. primary' = result[a] /\ result[a] \in Documents /\ Follows(Loaded, result[a])
    BY <1>2, <2>1, <2>2, <2>3 DEF Writes, Writing, Programs
  <2>5. Loaded' = result[a]
    BY <2>3, <2>4, PrimaryWritten DEF Loaded
  <2> QED BY <1>2, <2>1, <2>2, <2>3, <2>4, <2>5 DEF Writes, Writing
<1>8. ASSUME NEW a \in Actors, SyncParent(a) PROVE pc'[b] \notin Writing
  <2>1. op[a] \in {"cached", "analyze", "update"} /\ lock = a
    BY <1>8 DEF SyncParent, Programs, Writing
  <2>2. After(a) \notin Writing
    BY <2>1, ProgramGoesOn DEF Writing
  <2>3. pc' = [pc EXCEPT ![a] = After(a)]
    BY <1>8 DEF SyncParent, Returns
  <2> QED BY <2>1, <2>2, <2>3 DEF Rest, Programs
<1>9. CASE DamagePrimary
  BY <1>1, <1>9 DEF DamagePrimary, Programs
<1>10. CASE PowerLoss
  BY <1>1, <1>10 DEF PowerLoss, Writing
<1>11. CASE UNCHANGED vars
  BY <1>3, <1>11 DEF vars, files, local, FilesKept, Goes
<1> QED BY <1>1, <1>5, <1>6, <1>7, <1>8, <1>9, <1>10, <1>11, StepKinds

-----------------------------------------------------------------------------
(* Acknowledged updates                                                    *)

LEMMA AckedStep ==
  ASSUME Types, Rest, Programs, OnDisk, WritesFollow, AckedSurvive, [Next]_vars
  PROVE  AckedSurvive'
<1> SUFFICES ASSUME Undamaged',
                    NEW p \in (disk.primary \union {primary})', NEW b \in (disk.backup \union {backup})'
             PROVE  acked' \subseteq LoadedDocument(p, b).marks
  BY DEF AckedSurvive
<1>1. Undamaged /\ Bad \notin disk.primary /\ primary \in disk.primary /\ backup \in disk.backup
  BY BudgetsOnlyShrink DEF OnDisk
<1>2. \A q \in disk.primary, c \in disk.backup : acked \subseteq LoadedDocument(q, c).marks
  BY <1>1 DEF AckedSurvive
<1>3. acked \subseteq Loaded.marks
  BY <1>1, <1>2 DEF Loaded
<1>4. CASE p \in disk.primary /\ b \in disk.backup /\ acked' = acked
  BY <1>2, <1>4
<1>5. ASSUME NEW a \in Actors, Reads(a) PROVE acked' \subseteq LoadedDocument(p, b).marks
  <2>1. FilesKept /\ acked' = acked
    BY <1>5, OthersKeepFiles
  <2> QED BY <1>1, <1>4, <2>1 DEF FilesKept
<1>6. ASSUME NEW a \in Actors, WriteBackup(a) PROVE acked' \subseteq LoadedDocument(p, b).marks
  <2>1. /\ primary' = primary /\ acked' = acked /\ backup' = writes[a].backup
        /\ disk'.primary = disk.primary /\ disk'.backup = disk.backup \union {backup'}
    BY <1>6 DEF WriteBackup, Types
  <2>2. PICK w \in Documents : w = writes[a].backup /\ Follows(Loaded, w) /\ Loaded.marks \subseteq w.marks
    BY <1>6 DEF WriteBackup, WritesFollow, Writes
  <2>3. p \in disk.primary /\ (b \in disk.backup \/ b = w)
    BY <1>1, <2>1, <2>2
  <2>4. CASE b = w
    <3>1. \/ LoadedDocument(p, w) = w
          \/ LoadedDocument(p, w) = p /\ LoadedDocument(p, backup) = p
      BY <2>2, <2>3, BackupWritten
    <3>2. acked \subseteq LoadedDocument(p, backup).marks
      BY <1>1, <1>2, <2>3
    <3> QED BY <1>3, <2>1, <2>2, <2>4, <3>1, <3>2
  <2> QED BY <1>4, <2>1, <2>3, <2>4
<1>7. ASSUME NEW a \in Actors, WritePrimary(a) PROVE acked' \subseteq LoadedDocument(p, b).marks
  <2>1. /\ backup' = backup /\ acked' = acked /\ primary' = writes[a].primary
        /\ disk'.backup = disk.backup /\ disk'.primary = disk.primary \union {primary'}
    BY <1>7 DEF WritePrimary, Types
  <2>2. PICK r \in Documents : r = writes[a].primary /\ Follows(Loaded, r) /\ Loaded.marks \subseteq r.marks
    BY <1>7 DEF WritePrimary, WritesFollow, Writes, Writing, Programs
  <2>3. b \in disk.backup /\ (p \in disk.primary \/ p = r)
    BY <1>1, <2>1, <2>2
  <2>4. CASE p = r
    <3>1. \/ LoadedDocument(r, b) = r
          \/ LoadedDocument(r, b) = b /\ LoadedDocument(primary, b) = b
      BY <2>2, <2>3, PrimaryWritten
    <3>2. acked \subseteq LoadedDocument(primary, b).marks
      BY <1>1, <1>2, <2>3
    <3> QED BY <1>3, <2>1, <2>2, <2>4, <3>1, <3>2
  <2> QED BY <1>4, <2>1, <2>3, <2>4
<1>8. ASSUME NEW a \in Actors, SyncParent(a) PROVE acked' \subseteq LoadedDocument(p, b).marks
  <2>1. /\ primary' = primary /\ backup' = backup
        /\ disk'.primary = {primary} /\ disk'.backup = {backup}
        /\ acked' = IF op[a] = "update" THEN acked \union {a} ELSE acked
    BY <1>8 DEF SyncParent, Returns
  <2>2. Loaded = result[a] /\ (op[a] = "update" => a \in result[a].marks)
    BY <1>8 DEF SyncParent, WritesFollow, Writes, Writing
  <2>3. LoadedDocument(p, b) = Loaded
    BY <2>1 DEF Loaded
  <2> QED BY <1>3, <2>1, <2>2, <2>3
<1>9. CASE DamagePrimary
  <2>1. spent' = [spent EXCEPT !["corruptions"] = @ + 1]
    BY <1>9 DEF DamagePrimary, Spend
  <2>2. spent["corruptions"] \in Nat /\ spent'["corruptions"] = spent["corruptions"] + 1
    BY <2>1 DEF Types
  <2> QED BY <2>2 DEF Undamaged
<1>10. CASE PowerLoss
  <2>1. p \in disk.primary /\ b \in disk.backup /\ acked' = acked
    BY <1>10 DEF PowerLoss
  <2> QED BY <1>4, <2>1
<1>11. CASE UNCHANGED vars
  BY <1>1, <1>4, <1>11 DEF vars, files
<1> QED BY <1>5, <1>6, <1>7, <1>8, <1>9, <1>10, <1>11, StepKinds

-----------------------------------------------------------------------------
(* Identities                                                              *)

\* Under the lock, the identity of what a transaction returns is everybody's: a
\* fresh one is drawn when there is none at all.
LEMMA EverybodysIdentity ==
  ASSUME Types, Rest, Programs, OnDisk, NothingShown, lock = None, NEW x \in Nat \ {0}, OneId(x)
  PROVE  MigratedId(Loaded) \in Nat \ {0} /\ OneId(MigratedId(Loaded))
<1>1. Loaded \in Documents /\ primary \in disk.primary /\ backup \in disk.backup
  BY RevisionsLoaded DEF OnDisk
<1>2. MigratedId(Loaded) \in Nat \ {0}
  BY <1>1, IdentityDrawn DEF Rest
<1>3. CASE Loaded.id # 0
  <2>1. Readable(Loaded) /\ Loaded \in disk.primary \union disk.backup
    BY <1>1 DEF Readable, Loaded, LoadedDocument
  <2>2. Loaded.id = x
    BY <1>3, <2>1 DEF OneId
  <2> QED BY <1>2, <1>3, <2>2 DEF MigratedId, Migrates
<1>4. CASE Loaded.id = 0 /\ recorded # 0
  BY <1>2, <1>4 DEF MigratedId, Migrates, NewId, OneId
<1>5. CASE Loaded.id = 0 /\ recorded = 0
  <2>1. backup = Missing /\ Loaded = primary /\ primary # Bad
    BY <1>1, <1>5, LoadedIs DEF Loaded
  <2>2. disk.backup = {Missing} /\ disk.primary = {primary}
    BY <1>1, <1>5, <2>1 DEF OnDisk
  <2>3. \A d \in disk.primary \union disk.backup : Readable(d) => d.id = 0
    BY <1>5, <2>1, <2>2 DEF Readable
  <2>4. \A a \in Actors : pc[a] \notin Writing \union Answered /\ pc[a] # "backup"
    BY <1>5 DEF Programs, NothingShown, Writing
  <2> QED BY <1>2, <1>5, <2>3, <2>4 DEF NothingShown, OneId
<1> QED BY <1>3, <1>4, <1>5

\* What keeps the one identity, where the files stay.
LEMMA IdentityKept ==
  ASSUME NEW y, OneId(y), FilesKept, recorded' \in {0, y}, PowerKept' => PowerKept,
         PowerKept' => shown' \subseteq shown \union {y},
         \A b \in Actors : /\ pc'[b] \in Writing \union Answered => result'[b].id = y
                           /\ pc'[b] = "backup" => writes'[b].backup.id = y
  PROVE  OneId(y)'
BY DEF OneId, FilesKept

LEMMA IdentifiedStep ==
  ASSUME Types, Rest, Programs, OnDisk, WritesFollow, Identified, [Next]_vars
  PROVE  Identified'
<1> SUFFICES ASSUME LoadsSucceeded' PROVE NothingShown' /\ \E x \in Nat \ {0} : OneId(x)'
  BY DEF Identified
<1> USE DEF Writing, Answered
<1>1. NothingShown /\ LoadsSucceeded /\ (PowerKept' => PowerKept)
  BY BudgetsOnlyShrink DEF Identified
<1>2. PICK x \in Nat \ {0} : OneId(x)
  BY <1>1 DEF Identified
<1>3. FilesKept => Loaded' = Loaded
  BY DEF FilesKept, Loaded
\* Nobody begins to write or to answer, and nobody is shown anything.
<1>4. ASSUME FilesKept, recorded' = recorded, shown' = shown,
             \A b \in Actors : pc'[b] \in Writing \union Answered =>
               pc'[b] = pc[b] /\ result'[b] = result[b] /\ writes'[b] = writes[b]
      PROVE  NothingShown' /\ OneId(x)'
  <2>1. OneId(x)'
    BY <1>1, <1>2, <1>4 DEF OneId, FilesKept
  <2>2. NothingShown'
    BY <1>1, <1>3, <1>4 DEF NothingShown
  <2> QED BY <2>1, <2>2
<1>5. ASSUME NEW a \in Actors, Analyze(a) \/ CacheHit(a) \/ CacheMiss(a)
      PROVE  NothingShown' /\ OneId(x)'
  BY <1>4, <1>5 DEF Analyze, CacheHit, CacheMiss, Rest, local, idents, files, FilesKept
<1>6. ASSUME NEW a \in Actors, FillCache(a) \/ IdentifyFails(a) \/ UpdateFails(a) \/ Interrupt(a)
      PROVE  NothingShown' /\ OneId(x)'
  <2>1. Stop(a) /\ FilesKept /\ recorded' = recorded /\ shown' = shown
    BY <1>6 DEF FillCache, IdentifyFails, UpdateFails, Interrupt, idents, files, FilesKept
  <2>2. \A b \in Actors : pc'[b] \in Writing \union Answered =>
               pc'[b] = pc[b] /\ result'[b] = result[b] /\ writes'[b] = writes[b]
    BY <2>1 DEF Stop, Types, Rest
  <2> QED BY <1>4, <2>1, <2>2
<1>7. ASSUME NEW a \in Actors, LoadFails(a) PROVE FALSE
  <2>1. spent' = [spent EXCEPT !["loadFailures"] = @ + 1]
    BY <1>7 DEF LoadFails, Spend
  <2>2. spent["loadFailures"] \in Nat /\ spent'["loadFailures"] = spent["loadFailures"] + 1
    BY <2>1 DEF Types
  <2> QED BY <2>2 DEF LoadsSucceeded
<1>8. ASSUME NEW a \in Actors, Identify(a) PROVE NothingShown' /\ OneId(x)'
  <2>1. result[a].id = x /\ recorded \in {0, x} /\ Loaded.id # 0
    BY <1>1, <1>2, <1>8 DEF Identify, OneId, NothingShown
  <2>2. recorded' = x /\ shown' = shown \union {recorded'}
    BY <1>2, <1>8, <2>1 DEF Identify, Ensured
  <2>3. FilesKept /\ result' = result /\ writes' = writes /\ pc' = [pc EXCEPT ![a] = "update"]
    BY <1>8 DEF Identify, files, local, FilesKept
  <2>4. \A b \in Actors : /\ pc'[b] \in Writing \union Answered => result'[b].id = x
                          /\ pc'[b] = "backup" => writes'[b].backup.id = x
    BY <1>2, <2>3 DEF OneId, Rest
  <2>5. OneId(x)'
    BY <1>1, <1>2, <2>2, <2>3, <2>4, IdentityKept
  <2> QED BY <1>3, <2>1, <2>3, <2>5 DEF NothingShown
<1>9. ASSUME NEW a \in Actors, LoadTransaction(a) \/ UpdateTransaction(a)
      PROVE  NothingShown' /\ \E y \in Nat \ {0} : OneId(y)'
  <2>1. PICK plan : Transact(a, plan) /\ SoundPlan(Loaded, plan.new, plan.writes)
    BY <1>9, Planned
  <2>2. Loaded \in Documents /\ lock = None /\ op[a] \in {"cached", "analyze", "update"}
    BY <1>9, Planned
  <2>3. PICK y \in Nat \ {0} : y = MigratedId(Loaded) /\ OneId(y)
    BY <1>1, <1>2, <2>2, EverybodysIdentity
  <2>4. /\ plan.new.id = y
        /\ plan.writes # None /\ plan.writes.backup # None => plan.writes.backup.id = y
        /\ plan.writes = None => Loaded.id # 0
    BY <2>1, <2>3 DEF SoundPlan
  <2>5. recorded' \in {0, y}
    <3>1. recorded \in {0, y}
      BY <2>3 DEF OneId
    <3>2. CASE LoadTransaction(a)
      BY <3>1, <3>2 DEF LoadTransaction
    <3>3. CASE UpdateTransaction(a)
      BY <2>3, <3>1, <3>3 DEF UpdateTransaction, Ensured, Loaded
    <3> QED BY <1>9, <3>2, <3>3
  <2>6. \A b \in Actors : pc[b] \notin Writing
    BY <2>2 DEF Programs
  <2>7. FilesKept
    BY <2>1, <2>2, Transacted
  <2>8. CASE /\ plan.writes = None /\ shown' = shown \union ({plan.new.id} \ {0})
             /\ writes' = [writes EXCEPT ![a] = None] /\ pc' = [pc EXCEPT ![a] = After(a)]
             /\ op' = IF op[a] = "update" THEN [op EXCEPT ![a] = None] ELSE op
             /\ result' = [result EXCEPT ![a] = IF op[a] = "update" THEN None ELSE plan.new]
    <3>1. After(a) \notin Writing /\ (op[a] = "update" => After(a) = "idle")
      BY <2>2, ProgramGoesOn
    <3>2. /\ pc'[a] = After(a) /\ (op[a] # "update" => result'[a] = plan.new)
          /\ \A b \in Actors : b # a => pc'[b] = pc[b] /\ result'[b] = result[b] /\ writes'[b] = writes[b]
      BY <2>8 DEF Rest, Types
    <3>3. \A b \in Actors : /\ pc'[b] \in Writing \union Answered => result'[b].id = y
                            /\ pc'[b] = "backup" => writes'[b].backup.id = y
      BY <2>3, <2>4, <2>6, <3>1, <3>2 DEF OneId
    <3>4. OneId(y)'
      BY <1>1, <2>3, <2>4, <2>5, <2>7, <2>8, <3>3, IdentityKept
    <3>5. NothingShown'
      BY <1>3, <2>4, <2>7, <2>8 DEF NothingShown
    <3> QED BY <3>4, <3>5
  <2>9. CASE /\ plan.writes \in Plans /\ shown' = shown
             /\ result' = [result EXCEPT ![a] = plan.new] /\ writes' = [writes EXCEPT ![a] = plan.writes]
             /\ pc' = [pc EXCEPT ![a] = IF plan.writes.backup # None THEN "backup" ELSE "primary"]
    <3>1. /\ pc'[a] = IF plan.writes.backup # None THEN "backup" ELSE "primary"
          /\ result'[a] = plan.new /\ writes'[a] = plan.writes
          /\ \A b \in Actors : b # a => pc'[b] = pc[b] /\ result'[b] = result[b] /\ writes'[b] = writes[b]
      BY <2>9 DEF Rest, Types
    <3>2. plan.writes # None
      BY <2>9
    <3>3. \A b \in Actors : /\ pc'[b] \in Writing \union Answered => result'[b].id = y
                            /\ pc'[b] = "backup" => writes'[b].backup.id = y
      BY <2>3, <2>4, <2>6, <3>1, <3>2 DEF OneId
    <3>4. OneId(y)'
      BY <1>1, <2>3, <2>5, <2>7, <2>9, <3>3, IdentityKept
    <3>5. NothingShown'
      BY <1>1, <1>3, <2>7, <2>9, <3>1 DEF NothingShown
    <3> QED BY <3>4, <3>5
  <2> QED BY <2>1, <2>2, <2>8, <2>9, Transacted
<1>10. ASSUME NEW a \in Actors, WriteBackup(a) PROVE NothingShown' /\ OneId(x)'
  <2>1. /\ primary' = primary /\ backup' = writes[a].backup /\ pc' = [pc EXCEPT ![a] = "primary"]
        /\ disk'.primary = disk.primary /\ disk'.backup = disk.backup \union {backup'}
        /\ recorded' = recorded /\ shown' = shown /\ writes' = writes /\ result' = result
    BY <1>10 DEF WriteBackup, Types, idents, local
  <2>2. pc[a] = "backup" /\ backup'.id = x
    BY <1>2, <1>10, <2>1 DEF WriteBackup, OneId
  <2>3. OneId(x)'
    BY <1>1, <1>2, <2>1, <2>2 DEF OneId, Rest
  <2>4. Loaded'.id # 0 \/ Loaded' = Loaded
    <3>1. PICK w \in Documents : w = backup' /\ Follows(Loaded, w)
      BY <2>1, <2>2 DEF WritesFollow, Writes
    <3>2. LoadedDocument(primary, w) = w \/ LoadedDocument(primary, w) = Loaded
      BY <3>1, BackupWritten DEF OnDisk, Loaded
    <3> QED BY <1>2, <2>1, <2>2, <3>1, <3>2 DEF Loaded
  <2> QED BY <1>1, <2>1, <2>3, <2>4 DEF NothingShown, Rest
<1>11. ASSUME NEW a \in Actors, WritePrimary(a) PROVE NothingShown' /\ OneId(x)'
  <2>1. /\ backup' = backup /\ primary' = writes[a].primary /\ pc' = [pc EXCEPT ![a] = "sync"]
        /\ disk'.backup = disk.backup /\ disk'.primary = disk.primary \union {primary'}
        /\ recorded' = recorded /\ shown' = shown /\ writes' = writes /\ result' = result
    BY <1>11 DEF WritePrimary, Types, idents, local
  <2>2. pc[a] = "primary" /\ primary' = result[a] /\ result[a] \in Documents /\ Follows(Loaded, result[a])
    BY <1>11, <2>1 DEF WritePrimary, WritesFollow, Writes, Programs
  <2>3. primary'.id = x
    BY <1>2, <2>2 DEF OneId
  <2>4. OneId(x)'
    BY <1>1, <1>2, <2>1, <2>2, <2>3 DEF OneId, Rest
  <2>5. Loaded' = result[a]
    BY <2>1, <2>2, PrimaryWritten DEF Loaded
  <2> QED BY <1>2, <2>2, <2>3, <2>4, <2>5 DEF NothingShown
<1>12. ASSUME NEW a \in Actors, SyncParent(a) PROVE NothingShown' /\ OneId(x)'
  <2>1. /\ primary' = primary /\ backup' = backup /\ disk'.primary = {primary} /\ disk'.backup = {backup}
        /\ recorded' = recorded /\ shown' = shown \union ({result[a].id} \ {0})
        /\ pc' = [pc EXCEPT ![a] = After(a)] /\ writes' = [writes EXCEPT ![a] = None]
        /\ result' \in {[result EXCEPT ![a] = None], [result EXCEPT ![a] = result[a]]}
        /\ op[a] # "update" => result' = [result EXCEPT ![a] = result[a]]
    BY <1>12 DEF SyncParent, Returns
  <2>2. pc[a] = "sync" /\ Loaded = result[a] /\ result[a].id = x /\ op[a] \in {"cached", "analyze", "update"}
    BY <1>2, <1>12 DEF SyncParent, WritesFollow, Writes, OneId, Programs
  <2>3. After(a) \notin Writing /\ (op[a] = "update" => After(a) = "idle")
    BY <2>2, ProgramGoesOn
  <2>4. /\ pc'[a] = After(a) /\ (op[a] # "update" => result'[a] = result[a])
        /\ \A b \in Actors : b # a => pc'[b] = pc[b] /\ result'[b] = result[b] /\ writes'[b] = writes[b]
    BY <2>1 DEF Rest, Types
  <2>5. \A b \in Actors : /\ pc'[b] \in Writing \union Answered => result'[b].id = x
                          /\ pc'[b] = "backup" => writes'[b].backup.id = x
    BY <1>2, <2>2, <2>3, <2>4 DEF OneId
  <2>6. \A d \in disk'.primary \union disk'.backup : d \in disk.primary \union disk.backup
    BY <2>1 DEF OnDisk
  <2>7. OneId(x)'
    BY <1>1, <1>2, <2>1, <2>2, <2>5, <2>6 DEF OneId
  <2>8. Loaded' = Loaded
    BY <2>1 DEF Loaded
  <2> QED BY <1>2, <2>2, <2>7, <2>8 DEF NothingShown
<1>13. CASE DamagePrimary
  <2>1. /\ backup' = backup /\ primary' = Bad /\ disk'.primary = {Bad} /\ disk'.backup = disk.backup
        /\ Readable(backup) /\ recorded' = recorded /\ shown' = shown /\ pc' = pc /\ result' = result /\ writes' = writes
    BY <1>13 DEF DamagePrimary, Types, OnDisk, idents, local
  <2>2. OneId(x)'
    BY <1>1, <1>2, <2>1 DEF OneId, Readable
  <2>3. Loaded' = backup /\ backup.id # 0
    BY <2>1 DEF Loaded, LoadedDocument, FromBackup, Readable, OnDisk
  <2> QED BY <2>2, <2>3 DEF NothingShown
<1>14. CASE PowerLoss
  <2>1. ~PowerKept'
    <3>1. spent' = [spent EXCEPT !["powerLosses"] = @ + 1]
      BY <1>14 DEF PowerLoss, Spend
    <3>2. spent["powerLosses"] \in Nat /\ spent'["powerLosses"] = spent["powerLosses"] + 1
      BY <3>1 DEF Types
    <3> QED BY <3>2 DEF PowerKept
  <2>2. /\ disk'.primary \subseteq disk.primary /\ disk'.backup \subseteq disk.backup
        /\ recorded' = recorded /\ \A b \in Actors : pc'[b] = "idle"
    BY <1>14 DEF PowerLoss, idents
  <2>3. OneId(x)'
    BY <1>2, <2>1, <2>2 DEF OneId
  <2> QED BY <2>1, <2>2, <2>3 DEF NothingShown
<1>15. CASE UNCHANGED vars
  BY <1>4, <1>15 DEF vars, files, idents, local, FilesKept
<1> QED BY <1>2, <1>5, <1>6, <1>7, <1>8, <1>9, <1>10, <1>11, <1>12, <1>13, <1>14, <1>15, StepKinds DEF Reads

-----------------------------------------------------------------------------
(* The theorems                                                            *)

LEMMA RegistryInit == Init => RegistryInd
<1> SUFFICES ASSUME Init PROVE RegistryInd
  OBVIOUS
<1> DEFINE e == EmptyDocument
<1> DEFINE f == [EmptyDocument EXCEPT !.rev = 1, !.id = 1, !.raw = TRUE]
<1>1. e \in Documents /\ e.rev = 0 /\ e.id = 0
  BY DEF EmptyDocument, Documents
<1>2. f \in Documents /\ f.rev = 1 /\ f.id = 1
  <2>1. PICK g : g = [EmptyDocument EXCEPT !.rev = 1]
    OBVIOUS
  <2>2. g \in Documents /\ g.rev = 1
    BY <2>1 DEF EmptyDocument, Documents
  <2>3. PICK h : h = [g EXCEPT !.id = 1]
    OBVIOUS
  <2>4. h \in Documents /\ h.rev = 1 /\ h.id = 1
    BY <2>2, <2>3 DEF Documents
  <2>5. PICK i : i = [h EXCEPT !.raw = TRUE]
    OBVIOUS
  <2>6. i \in Documents /\ i.rev = 1 /\ i.id = 1
    BY <2>4, <2>5 DEF Documents
  <2>7. f = i
    BY <2>1, <2>3, <2>5, Zenon
  <2> HIDE DEF f
  <2> QED BY <2>6, <2>7
<1>3. primary \in {e, f} /\ backup = Missing /\ disk.primary = {primary} /\ disk.backup = {backup}
  BY DEF Init
<1> HIDE DEF e, f
<1>4. primary \in Documents
  BY <1>1, <1>2, <1>3
<1>5. Types
  BY <1>4 DEF Init, Types
<1>6. Rest
  BY <1>4 DEF Init, Rest, Files
<1>7. \A a \in Actors : pc[a] = "idle"
  BY DEF Init
<1>8. Programs /\ WritesFollow
  BY <1>7 DEF Init, Programs, WritesFollow, Writes, Writing, Answered
<1>9. primary # Bad /\ primary.id \in {0, 1} /\ (primary.id = 0 <=> primary.rev = 0)
  BY <1>1, <1>2, <1>3, <1>4
<1>10. OnDisk
  BY <1>3, <1>9 DEF OnDisk
<1>11. AckedSurvive
  BY DEF Init, AckedSurvive
<1>12. OneId(1) /\ NothingShown
  BY <1>3, <1>7, <1>9 DEF Init, OneId, NothingShown, Writing, Answered, Readable
<1> QED BY <1>5, <1>6, <1>8, <1>10, <1>11, <1>12, TypesSuffice DEF RegistryInd, Identified

LEMMA RegistryStep == RegistryInd /\ [Next]_vars => RegistryInd'
<1> SUFFICES ASSUME RegistryInd, [Next]_vars PROVE RegistryInd'
  OBVIOUS
<1>1. Types /\ Rest /\ Programs /\ OnDisk /\ WritesFollow /\ AckedSurvive /\ Identified
  BY RestHolds DEF RegistryInd
<1>2. Types' /\ TypeOK'
  BY TypeStep
<1>3. Programs' /\ OnDisk' /\ WritesFollow' /\ AckedSurvive' /\ Identified'
  BY <1>1, ProgramsStep, OnDiskStep, WritesFollowStep, AckedStep, IdentifiedStep
<1> QED BY <1>2, <1>3 DEF RegistryInd

LEMMA RegistryIndHolds == Spec => []RegistryInd
BY RegistryInit, RegistryStep, PTL DEF Spec

LEMMA OneIdentityFollows == RegistryInd => OneIdentity
<1> SUFFICES ASSUME RegistryInd, LoadsSucceeded
             PROVE  /\ PowerKept => Cardinality(shown) <= 1
                    /\ lock = None /\ recorded # 0 => Loaded.id \in {0, recorded}
  BY DEF OneIdentity, Loaded
<1>1. PICK x \in Nat \ {0} : OneId(x)
  BY DEF RegistryInd, Identified
<1>2. PowerKept => Cardinality(shown) <= 1
  <2>1. IsFiniteSet({x}) /\ Cardinality({x}) = 1
    BY FS_Singleton
  <2>2. shown \subseteq {x} => Cardinality(shown) <= Cardinality({x})
    BY <2>1, FS_Subset
  <2> QED BY <1>1, <2>1, <2>2 DEF OneId
<1>3. Loaded \in Documents /\ Loaded \in disk.primary \union disk.backup
  BY RevisionsLoaded DEF RegistryInd, OnDisk, Loaded, LoadedDocument
<1>4. Loaded.id \in {0, x}
  BY <1>1, <1>3 DEF OneId, Readable
<1> QED BY <1>1, <1>2, <1>4 DEF OneId

\* The registry's types, and one identity for the repository: however many
\* processes load, migrate and update registry.json and however they are
\* killed, everybody is shown the same identity, and the registry agrees with
\* the repository's own record.
THEOREM RegistryCorrect == Spec => []RegistryInv
<1>1. RegistryInd => RegistryInv
  BY OneIdentityFollows DEF RegistryInv, RegistryInd
<1> QED BY <1>1, RegistryIndHolds, PTL

\* An update that persist_analyze acknowledged is in whatever the next process
\* loads, now or after a power loss, with any number of processes and crashes.
THEOREM AcknowledgedSurvive == Spec => []AckedSurvive
<1>1. RegistryInd => AckedSurvive
  BY DEF RegistryInd
<1> QED BY <1>1, RegistryIndHolds, PTL

LEMMA AdvancesStep == RegistryInd /\ [Next]_vars => [Advances]_vars
<1> SUFFICES ASSUME RegistryInd, [Next]_vars, Undamaged', PowerKept'
             PROVE  Follows(Loaded, Loaded')
  BY DEF Advances, Follows, Loaded
<1> Types /\ Rest /\ OnDisk /\ Programs /\ WritesFollow
  BY RestHolds DEF RegistryInd
<1>1. CASE FilesKept
  BY <1>1 DEF FilesKept, Follows, Loaded
<1>2. ASSUME NEW a \in Actors, WriteBackup(a) PROVE Follows(Loaded, Loaded')
  <2>1. primary' = primary /\ backup' = writes[a].backup
    BY <1>2 DEF WriteBackup
  <2>2. PICK w \in Documents : w = backup' /\ Follows(Loaded, w)
    BY <1>2, <2>1 DEF WriteBackup, WritesFollow, Writes
  <2>3. LoadedDocument(primary, w) = w \/ LoadedDocument(primary, w) = Loaded
    BY <2>2, BackupWritten DEF OnDisk, Loaded
  <2>4. Loaded' = w \/ Loaded' = Loaded
    BY <2>1, <2>2, <2>3 DEF Loaded
  <2> QED BY <2>2, <2>4 DEF Follows
<1>3. ASSUME NEW a \in Actors, WritePrimary(a) PROVE Follows(Loaded, Loaded')
  <2>1. backup' = backup /\ primary' = writes[a].primary
    BY <1>3 DEF WritePrimary
  <2>2. PICK r \in Documents : r = primary' /\ Follows(Loaded, r)
    BY <1>3, <2>1 DEF WritePrimary, WritesFollow, Writes, Writing, Programs
  <2>3. Loaded' = r
    BY <2>1, <2>2, PrimaryWritten DEF Loaded
  <2> QED BY <2>2, <2>3
<1>4. ASSUME NEW a \in Actors, SyncParent(a) PROVE Follows(Loaded, Loaded')
  BY <1>4 DEF SyncParent, Loaded, Follows
<1>5. CASE DamagePrimary
  <2>1. spent' = [spent EXCEPT !["corruptions"] = @ + 1]
    BY <1>5 DEF DamagePrimary, Spend
  <2>2. spent["corruptions"] \in Nat /\ spent'["corruptions"] = spent["corruptions"] + 1
    BY <2>1 DEF Types
  <2> QED BY <2>2 DEF Undamaged
<1>6. CASE PowerLoss
  <2>1. spent' = [spent EXCEPT !["powerLosses"] = @ + 1]
    BY <1>6 DEF PowerLoss, Spend
  <2>2. spent["powerLosses"] \in Nat /\ spent'["powerLosses"] = spent["powerLosses"] + 1
    BY <2>1 DEF Types
  <2> QED BY <2>2 DEF PowerKept
<1>7. UNCHANGED vars => FilesKept
  BY DEF vars, files, FilesKept
<1> QED BY <1>1, <1>2, <1>3, <1>4, <1>5, <1>6, <1>7, StepKinds, OthersKeepFiles

\* What the next process loads never goes back and changes only under a new
\* revision, whoever else writes, migrates or dies half-way.
THEOREM RevisionsAdvance == Spec => SequenceAdvances
BY RegistryIndHolds, AdvancesStep, PTL DEF Spec, SequenceAdvances

-----------------------------------------------------------------------------
(* The invariant of the groups *)

GroupSet == {NoGroup} \union SUBSET Members
VersionMaps == UNION {[S -> Nat] : S \in SUBSET Members}
Editing == {"loaded", "truncated"}
SyncWriting == {"filling", "stamping"}
Stages == {"none"} \union Editing \union Syncing
Edits == {"create", "add", "remove"}
GroupFiles == [is : {"whole", "torn"}, by : Commands \union {Nobody}, of : GroupSet]
ContractFiles == [is : {"none", "whole", "torn"}, by : Commands \union {Nobody}, of : VersionMaps]
CommandRecords ==
  [at : Stages, op : {"none"} \union Edits, member : Members \union {Nobody},
   group : GroupSet, of : VersionMaps, raced : BOOLEAN]

GroupTypes ==
  /\ groups \in GroupFiles /\ mtime \in Nat
  /\ indexed \in [Members -> 0 .. MaxVersion] /\ contracts \in ContractFiles
  /\ stamp = NoStamp \/ stamp \in VersionMaps
  /\ command \in [Commands -> CommandRecords]
  /\ cached.mtime \in Nat /\ seen \in Nat \union {-1} /\ saved \in GroupSet
  /\ mishaps \subseteq {"overlap", "cut", "tick", "sync"}

CommandsHold ==
  \A p \in Commands :
    /\ command[p].at \in Editing => command[p].op \in Edits /\ command[p].member \in Members
    /\ At(p, "grouped") => command[p].group # NoGroup
    /\ At(p, "published") => DOMAIN command[p].of = Members

\* No snapshot is of the future.
SnapshotsPast == cached.mtime <= mtime /\ seen <= mtime /\ CacheFresh

\* A change that nothing raced is made to what the changes before it have saved.
Unmixed == {"overlap", "cut"} \intersect mishaps = {}
EditsFollow ==
  Unmixed =>
    /\ (\A p \in Commands : ~At(p, "truncated")) => groups.is = "whole" /\ groups.of = saved
    /\ \A p \in Commands : command[p].at \in Editing /\ ~command[p].raced =>
         /\ ~Others(p, {"truncated"})
         /\ command[p].group = Edit(command[p].op, command[p].member, saved)
         /\ At(p, "truncated") => groups = File("torn", p, NoGroup)

\* A sync that nothing raced is newer than the stamp and alone with the contracts.
NotNewer(f, g) == \A m \in Members : m \in DOMAIN f /\ m \in DOMAIN g => f[m] <= g[m]
SyncFollows(p) ==
  command[p].at \in Syncing =>
    /\ NotNewer(command[p].of, indexed)
    /\ ~command[p].raced =>
         /\ command[p].at # "grouped" => NotNewer(stamp, command[p].of)
         /\ command[p].at \in SyncWriting => ~Others(p, SyncWriting)
         /\ At(p, "filling") => contracts = File("torn", p, NoVersions)
         /\ At(p, "stamping") => contracts = File("whole", Nobody, command[p].of)
SyncsFollow == NotNewer(stamp, indexed) /\ \A p \in Commands : SyncFollows(p)

\* Contracts may be newer than the stamp, of a sync that died between the two,
\* but cover every member that the stamp does.
ContractsFollow ==
  /\ "sync" \notin mishaps /\ stamp # NoStamp
  /\ \A p \in Commands : command[p].at \notin SyncWriting
  => /\ contracts.is = "whole" /\ DOMAIN stamp \subseteq DOMAIN contracts.of
     /\ NotNewer(stamp, contracts.of) /\ NotNewer(contracts.of, indexed)

GroupsInd ==
  GroupTypes /\ CommandsHold /\ SnapshotsPast /\ EditsFollow /\ SyncsFollow /\ ContractsFollow

-----------------------------------------------------------------------------
(* Files, maps of versions and the records of commands *)

LEMMA MapIs ==
  ASSUME NEW f
  PROVE  f \in VersionMaps <=> DOMAIN f \in SUBSET Members /\ f \in [DOMAIN f -> Nat]
BY DEF VersionMaps

LEMMA NoVersionsIs == NoVersions \in VersionMaps /\ DOMAIN NoVersions = {}
<1>1. DOMAIN NoVersions = {} /\ NoVersions \in [{} -> Nat]
  BY DEF NoVersions
<1> QED BY <1>1, MapIs

LEMMA NoCommandIs ==
  /\ NoCommand \in CommandRecords
  /\ NoCommand.at = "none" /\ NoCommand.op = "none" /\ NoCommand.member = Nobody
  /\ NoCommand.group = NoGroup /\ NoCommand.of = NoVersions /\ ~NoCommand.raced
<1>1. NoCommand \in CommandRecords
  BY NoVersionsIs DEF NoCommand, CommandRecords, Stages, GroupSet
<1>2. /\ NoCommand.at = "none" /\ NoCommand.op = "none" /\ NoCommand.member = Nobody
      /\ NoCommand.group = NoGroup /\ NoCommand.of = NoVersions /\ ~NoCommand.raced
  BY DEF NoCommand
<1> QED BY <1>1, <1>2

LEMMA FilledIs ==
  ASSUME NEW file \in GroupFiles \union ContractFiles, NEW p, NEW of, NEW x \in Filled(file, p, of)
  PROVE  /\ x = File("whole", Nobody, of) \/ x = [file EXCEPT !.is = "torn", !.by = Nobody]
         /\ \A y : file = File("torn", p, y) => x = File("whole", Nobody, of)
<1>1. ASSUME NEW y, file = File("torn", p, y)
      PROVE  file = [file EXCEPT !.is = "torn", !.by = p]
  <2>1. PICK r \in [is : {"torn"}, by : {p}, of : {y}] : r = file
    BY <1>1 DEF File
  <2>2. [r EXCEPT !.is = "torn", !.by = p] = r
    OBVIOUS
  <2> QED BY <2>1, <2>2
<1> QED BY <1>1 DEF Filled

LEMMA LoadIs ==
  ASSUME groups \in GroupFiles
  PROVE  Load \in GroupSet /\ (groups.is = "whole" => Load = groups.of)
BY DEF Load, GroupFiles, GroupSet

LEMMA EditIs ==
  ASSUME NEW kind \in Edits, NEW m \in Members, NEW g \in GroupSet
  PROVE  Edit(kind, m, g) \in GroupSet
BY DEF Edit, Edits, GroupSet

LEMMA VersionsIs ==
  ASSUME indexed \in [Members -> 0 .. MaxVersion], NEW g \in SUBSET Members
  PROVE  /\ Versions(g) \in VersionMaps /\ DOMAIN Versions(g) = g
         /\ \A m \in g : Versions(g)[m] = indexed[m]
<1>1. DOMAIN Versions(g) = g /\ \A m \in g : Versions(g)[m] = indexed[m]
  BY DEF Versions
<1>2. Versions(g) \in [g -> Nat]
  BY VersionAssumption DEF Versions
<1> QED BY <1>1, <1>2, MapIs

\* What a step of p does to the others: those that stand in S it has raced.
Turns(c, d, p, S) ==
  /\ c \in [Commands -> CommandRecords]
  /\ \A q \in Commands \ {p} :
       /\ c[q].at = d[q].at /\ c[q].op = d[q].op /\ c[q].member = d[q].member
       /\ c[q].group = d[q].group /\ c[q].of = d[q].of
       /\ d[q].at \in S => c[q].raced
       /\ d[q].at \notin S => (c[q].raced <=> d[q].raced)

SameBut(r, s) ==
  /\ r.op = s.op /\ r.member = s.member /\ r.group = s.group /\ r.of = s.of
  /\ r.raced <=> s.raced

LEMMA SetTurns ==
  ASSUME NEW d \in [Commands -> CommandRecords], NEW p \in Commands, NEW r \in CommandRecords
  PROVE  Turns([d EXCEPT ![p] = r], d, p, {}) /\ [d EXCEPT ![p] = r][p] = r
BY DEF Turns

LEMMA RacedTurns ==
  ASSUME NEW d \in [Commands -> CommandRecords], NEW p \in Commands
  PROVE  /\ Turns(Raced(p, d), d, p, Editing) /\ Raced(p, d)[p] = d[p]
         /\ Turns(Overtaken(p, d), d, p, Syncing) /\ Overtaken(p, d)[p] = d[p]
<1>1. ASSUME NEW S, NEW c,
             c = [q \in Commands |-> IF q # p /\ d[q].at \in S THEN [d[q] EXCEPT !.raced = TRUE] ELSE d[q]]
      PROVE  Turns(c, d, p, S) /\ c[p] = d[p]
  <2>1. c[p] = d[p]
    BY <1>1
  <2>2. ASSUME NEW q \in Commands
        PROVE  /\ c[q] \in CommandRecords
               /\ q # p =>
                  /\ c[q].at = d[q].at /\ c[q].op = d[q].op /\ c[q].member = d[q].member
                  /\ c[q].group = d[q].group /\ c[q].of = d[q].of
                  /\ d[q].at \in S => c[q].raced
                  /\ d[q].at \notin S => (c[q].raced <=> d[q].raced)
    <3>1. PICK r \in CommandRecords : r = d[q]
      OBVIOUS
    <3> DEFINE e == [r EXCEPT !.raced = TRUE]
    <3>2. e \in CommandRecords
      BY <3>1 DEF CommandRecords
    <3>3. /\ e.at = r.at /\ e.op = r.op /\ e.member = r.member
          /\ e.group = r.group /\ e.of = r.of /\ e.raced
      BY <3>1 DEF CommandRecords
    <3>4. CASE q # p /\ d[q].at \in S
      <4>1. c[q] = e
        BY <1>1, <3>1, <3>4, Zenon
      <4> HIDE DEF e
      <4> QED BY <3>1, <3>2, <3>3, <3>4, <4>1, Zenon
    <3>5. CASE ~(q # p /\ d[q].at \in S)
      <4>1. c[q] = d[q]
        BY <1>1, <3>5, Zenon
      <4> QED BY <3>1, <3>5, <4>1, Zenon
    <3> QED BY <3>4, <3>5, Zenon
  <2>3. c \in [Commands -> CommandRecords]
    BY <1>1, <2>2
  <2> QED BY <2>1, <2>2, <2>3, Zenon DEF Turns
<1> QED BY <1>1, Zenon DEF Raced, Overtaken, Editing

LEMMA TurnsTurn ==
  ASSUME NEW p, NEW S, NEW c, NEW d, NEW e, Turns(d, e, p, {}), Turns(c, d, p, S)
  PROVE  Turns(c, e, p, S)
BY Zenon DEF Turns

\* The changes that steps make to the record of p.
Staged(d, p, stage) == [d EXCEPT ![p].at = stage]
StagedOf(d, p, stage, of) == [d EXCEPT ![p].at = stage, ![p].of = of]
StagedRaced(d, p, stage, raced) == [d EXCEPT ![p].at = stage, ![p].raced = raced]
BegunEdit(d, p, kind, m, g, raced) ==
  [d EXCEPT ![p] = [NoCommand EXCEPT !.at = "loaded", !.op = kind, !.member = m,
                                     !.group = g, !.raced = raced]]

LEMMA StageTurns ==
  ASSUME NEW d \in [Commands -> CommandRecords], NEW p \in Commands, NEW stage \in Stages,
         NEW c, c = Staged(d, p, stage)
  PROVE  Turns(c, d, p, {}) /\ c[p].at = stage /\ SameBut(c[p], d[p])
<1>1. PICK s \in CommandRecords : s = d[p]
  OBVIOUS
<1>2. PICK r \in CommandRecords : r = [s EXCEPT !.at = stage] /\ r.at = stage /\ SameBut(r, s)
  <2> DEFINE e == [s EXCEPT !.at = stage]
  <2>1. e \in CommandRecords
    BY <1>1 DEF CommandRecords
  <2>2. /\ e.at = stage /\ e.op = s.op /\ e.member = s.member
        /\ e.group = s.group /\ e.of = s.of /\ e.raced = s.raced
    BY <1>1 DEF CommandRecords
  <2> QED BY <2>1, <2>2 DEF SameBut
<1>3. c = [d EXCEPT ![p] = r]
  BY <1>1, <1>2, Zenon DEF Staged
<1>4. Turns(c, d, p, {}) /\ c[p] = r
  <2>1. r \in CommandRecords
    BY <1>2
  <2>2. Turns([d EXCEPT ![p] = r], d, p, {}) /\ [d EXCEPT ![p] = r][p] = r
    BY <2>1, SetTurns, Zenon
  <2> QED BY <1>3, <2>2, Zenon
<1> QED BY <1>1, <1>2, <1>4, Zenon

LEMMA OfTurns ==
  ASSUME NEW d \in [Commands -> CommandRecords], NEW p \in Commands, NEW of \in VersionMaps,
         NEW stage \in Stages, NEW c, c = StagedOf(d, p, stage, of)
  PROVE  /\ Turns(c, d, p, {}) /\ c[p].at = stage /\ c[p].of = of
         /\ c[p].op = d[p].op /\ c[p].member = d[p].member /\ c[p].group = d[p].group
         /\ c[p].raced <=> d[p].raced
<1>1. PICK s \in CommandRecords : s = d[p]
  OBVIOUS
<1>2. PICK r \in CommandRecords :
        /\ r = [s EXCEPT !.at = stage, !.of = of] /\ r.at = stage /\ r.of = of
        /\ r.op = s.op /\ r.member = s.member /\ r.group = s.group /\ r.raced = s.raced
  <2> DEFINE e == [s EXCEPT !.at = stage, !.of = of]
  <2>1. e \in CommandRecords
    BY <1>1 DEF CommandRecords
  <2>2. /\ e.at = stage /\ e.of = of /\ e.op = s.op /\ e.member = s.member
        /\ e.group = s.group /\ e.raced = s.raced
    BY <1>1 DEF CommandRecords
  <2> QED BY <2>1, <2>2
<1>3. c = [d EXCEPT ![p] = r]
  BY <1>1, <1>2, Zenon DEF StagedOf
<1>4. Turns(c, d, p, {}) /\ c[p] = r
  <2>1. r \in CommandRecords
    BY <1>2
  <2>2. Turns([d EXCEPT ![p] = r], d, p, {}) /\ [d EXCEPT ![p] = r][p] = r
    BY <2>1, SetTurns, Zenon
  <2> QED BY <1>3, <2>2, Zenon
<1> QED BY <1>1, <1>2, <1>4, Zenon

\* The record of p once raced is what raced says.
RacedIs(c, d, p, stage, raced) ==
  /\ Turns(c, d, p, {}) /\ c[p].at = stage /\ c[p].of = d[p].of
  /\ c[p].op = d[p].op /\ c[p].member = d[p].member /\ c[p].group = d[p].group
  /\ c[p].raced <=> raced
BegunIs(c, d, p, kind, m, g, raced) ==
  /\ Turns(c, d, p, {}) /\ c[p].at = "loaded" /\ c[p].op = kind /\ c[p].member = m
  /\ c[p].group = g /\ (c[p].raced <=> raced)

LEMMA RaceTurns ==
  ASSUME NEW d \in [Commands -> CommandRecords], NEW p \in Commands, NEW stage \in Stages
  PROVE  \A raced \in BOOLEAN : RacedIs(StagedRaced(d, p, stage, raced), d, p, stage, raced)
<1> SUFFICES ASSUME NEW raced \in BOOLEAN, NEW c, c = StagedRaced(d, p, stage, raced)
             PROVE  RacedIs(c, d, p, stage, raced)
  BY Zenon
<1>1. PICK s \in CommandRecords : s = d[p]
  OBVIOUS
<1>2. PICK r \in CommandRecords :
        /\ r = [s EXCEPT !.at = stage, !.raced = raced] /\ r.at = stage /\ r.of = s.of
        /\ r.op = s.op /\ r.member = s.member /\ r.group = s.group /\ r.raced = raced
  <2> DEFINE e == [s EXCEPT !.at = stage, !.raced = raced]
  <2>1. e \in CommandRecords
    BY <1>1 DEF CommandRecords
  <2>2. /\ e.at = stage /\ e.of = s.of /\ e.op = s.op /\ e.member = s.member
        /\ e.group = s.group /\ e.raced = raced
    BY <1>1 DEF CommandRecords
  <2> HIDE DEF e
  <2>3. \E r \in CommandRecords : r = e
    BY <2>1
  <2> QED BY <2>1, <2>2, Zenon DEF e
<1>3. c = [d EXCEPT ![p] = r]
  BY <1>1, <1>2, Zenon DEF StagedRaced
<1>4. Turns(c, d, p, {}) /\ c[p] = r
  <2>1. r \in CommandRecords
    BY <1>2
  <2>2. Turns([d EXCEPT ![p] = r], d, p, {}) /\ [d EXCEPT ![p] = r][p] = r
    BY <2>1, SetTurns, Zenon
  <2> QED BY <1>3, <2>2, Zenon
<1> QED BY <1>1, <1>2, <1>4, Zenon DEF RacedIs

LEMMA EndTurns ==
  ASSUME NEW d \in [Commands -> CommandRecords], NEW p \in Commands,
         NEW c, c = [d EXCEPT ![p] = NoCommand]
  PROVE  Turns(c, d, p, {}) /\ c[p] = NoCommand /\ c[p].at = "none"
<1>1. Turns(c, d, p, {}) /\ c[p] = NoCommand
  BY NoCommandIs, SetTurns
<1> QED BY <1>1, NoCommandIs, Zenon

-----------------------------------------------------------------------------
(* What every action does *)

LEMMA EditBegins ==
  ASSUME NEW p \in Commands, NEW d \in [Commands -> CommandRecords],
         NEW kind \in Edits, NEW m \in Members, NEW g \in GroupSet
  PROVE  \A raced \in BOOLEAN : BegunIs(BegunEdit(d, p, kind, m, g, raced), d, p, kind, m, g, raced)
<1> SUFFICES ASSUME NEW raced \in BOOLEAN, NEW c, c = BegunEdit(d, p, kind, m, g, raced)
             PROVE  BegunIs(c, d, p, kind, m, g, raced)
  BY Zenon
<1>1. PICK s \in CommandRecords : s = NoCommand
  BY NoCommandIs
<1> DEFINE e == [s EXCEPT !.at = "loaded", !.op = kind, !.member = m, !.group = g, !.raced = raced]
<1>2. e \in CommandRecords
  BY <1>1 DEF CommandRecords, Stages, Editing
<1>3. e.at = "loaded" /\ e.op = kind /\ e.member = m /\ e.group = g /\ e.raced = raced
  BY <1>1 DEF CommandRecords
<1>4. c = [d EXCEPT ![p] = e]
  BY <1>1, Zenon DEF BegunEdit
<1> HIDE DEF e
<1>5. Turns(c, d, p, {}) /\ c[p] = e
  <2>1. Turns([d EXCEPT ![p] = e], d, p, {}) /\ [d EXCEPT ![p] = e][p] = e
    BY <1>2, SetTurns, Zenon
  <2> QED BY <1>4, <2>1, Zenon
<1> QED BY <1>3, <1>5, Zenon DEF BegunIs

LEMMA LoadGroupsDoes ==
  ASSUME GroupTypes, NEW p \in Commands, LoadGroups(p)
  PROVE  /\ Turns(command', command, p, {}) /\ command'[p].at = "loaded"
         /\ command'[p].op \in Edits /\ command'[p].member \in Members
         /\ command'[p].group = Edit(command'[p].op, command'[p].member, Load)
         /\ command'[p].raced <=> Others(p, {"truncated"})
<1>1. PICK kind \in Edits, m \in Members :
        command' = BegunEdit(command, p, kind, m, Edit(kind, m, Load), Others(p, {"truncated"}))
  BY Zenon DEF LoadGroups, Edits, BegunEdit
<1>2. Edit(kind, m, Load) \in GroupSet
  BY LoadIs, EditIs DEF GroupTypes
<1>3. Others(p, {"truncated"}) \in BOOLEAN
  BY DEF Others
<1>4. command \in [Commands -> CommandRecords]
  BY DEF GroupTypes
<1>5. \A raced \in BOOLEAN :
        BegunIs(BegunEdit(command, p, kind, m, Edit(kind, m, Load), raced),
                command, p, kind, m, Edit(kind, m, Load), raced)
  BY <1>1, <1>2, <1>4, EditBegins, Zenon
<1>6. /\ Turns(command', command, p, {}) /\ command'[p].at = "loaded"
      /\ command'[p].op = kind /\ command'[p].member = m
      /\ command'[p].group = Edit(kind, m, Load) /\ (command'[p].raced <=> Others(p, {"truncated"}))
  BY <1>1, <1>3, <1>5, Zenon DEF BegunIs
<1>7. kind \in Edits /\ m \in Members
  BY <1>1
<1> QED BY <1>6, <1>7, Zenon

LEMMA TruncateGroupsDoes ==
  ASSUME GroupTypes, NEW p \in Commands, TruncateGroups(p)
  PROVE  /\ Turns(command', command, p, Editing) /\ command'[p].at = "truncated"
         /\ SameBut(command'[p], command[p])
<1>1. PICK d : d = Staged(command, p, "truncated")
  OBVIOUS
<1>2. command \in [Commands -> CommandRecords]
  BY DEF GroupTypes
<1>3. "truncated" \in Stages
  BY DEF Stages, Editing
<1>4. Turns(d, command, p, {}) /\ d[p].at = "truncated" /\ SameBut(d[p], command[p])
  <2>1. \A stage \in Stages : \A c : c = Staged(command, p, stage) =>
          Turns(c, command, p, {}) /\ c[p].at = stage /\ SameBut(c[p], command[p])
    BY <1>2, StageTurns, Zenon
  <2> QED BY <1>1, <1>3, <2>1, Zenon
<1>5. command' = Raced(p, d)
  BY <1>1, Zenon DEF TruncateGroups, Staged
<1>6. d \in [Commands -> CommandRecords]
  BY <1>4 DEF Turns
<1>7. Turns(command', d, p, Editing) /\ command'[p] = d[p]
  BY <1>5, <1>6, RacedTurns, Zenon
<1> QED BY <1>4, <1>7, TurnsTurn, Zenon

LEMMA WriteGroupsDoes ==
  ASSUME GroupTypes, NEW p \in Commands, WriteGroups(p)
  PROVE  Turns(command', command, p, Editing) /\ command'[p].at = "none"
<1>1. PICK d : d = [command EXCEPT ![p] = NoCommand]
  OBVIOUS
<1>2. command \in [Commands -> CommandRecords]
  BY DEF GroupTypes
<1>3. Turns(d, command, p, {}) /\ d[p].at = "none"
  BY <1>1, <1>2, EndTurns, Zenon
<1>4. command' = Raced(p, d)
  BY <1>1, Zenon DEF WriteGroups
<1>5. d \in [Commands -> CommandRecords]
  BY <1>3 DEF Turns
<1>6. Turns(command', d, p, Editing) /\ command'[p] = d[p]
  BY <1>4, <1>5, RacedTurns, Zenon
<1> QED BY <1>3, <1>6, TurnsTurn, Zenon

LEMMA StopCommandDoes ==
  ASSUME GroupTypes, NEW p \in Commands, StopCommand(p)
  PROVE  Turns(command', command, p, {}) /\ command'[p].at = "none"
<1>1. command \in [Commands -> CommandRecords]
  BY DEF GroupTypes
<1>2. command' = [command EXCEPT ![p] = NoCommand]
  BY Zenon DEF StopCommand
<1> QED BY <1>1, <1>2, EndTurns, Zenon

LEMMA SaveStampDoes ==
  ASSUME GroupTypes, NEW p \in Commands, SaveStamp(p)
  PROVE  Turns(command', command, p, Syncing) /\ command'[p].at = "none"
<1>1. PICK d : d = [command EXCEPT ![p] = NoCommand]
  OBVIOUS
<1>2. command \in [Commands -> CommandRecords]
  BY DEF GroupTypes
<1>3. Turns(d, command, p, {}) /\ d[p].at = "none"
  BY <1>1, <1>2, EndTurns, Zenon
<1>4. command' = Overtaken(p, d)
  BY <1>1, Zenon DEF SaveStamp
<1>5. d \in [Commands -> CommandRecords]
  BY <1>3 DEF Turns
<1>6. Turns(command', d, p, Syncing) /\ command'[p] = d[p]
  BY <1>4, <1>5, RacedTurns, Zenon
<1> QED BY <1>3, <1>6, TurnsTurn, Zenon

LEMMA WriteContractsDoes ==
  ASSUME GroupTypes, NEW p \in Commands, WriteContracts(p)
  PROVE  /\ Turns(command', command, p, {}) /\ command'[p].at = "stamping"
         /\ SameBut(command'[p], command[p])
<1>1. command \in [Commands -> CommandRecords]
  BY DEF GroupTypes
<1>2. command' = Staged(command, p, "stamping")
  BY Zenon DEF WriteContracts, Staged
<1>3. "stamping" \in Stages
  BY DEF Stages, Syncing
<1>4. \A stage \in Stages : \A c : c = Staged(command, p, stage) =>
        Turns(c, command, p, {}) /\ c[p].at = stage /\ SameBut(c[p], command[p])
  BY <1>1, StageTurns, Zenon
<1> QED BY <1>2, <1>3, <1>4, Zenon

LEMMA TruncateContractsDoes ==
  ASSUME GroupTypes, NEW p \in Commands, TruncateContracts(p)
  PROVE  /\ Turns(command', command, p, Syncing) /\ command'[p].at = "filling"
         /\ command'[p].of = command[p].of
         /\ command'[p].raced <=> (command[p].raced \/ Others(p, SyncWriting))
<1>1. PICK s \in CommandRecords : s = command[p]
  BY DEF GroupTypes
<1>2. (s.raced \/ Others(p, SyncWriting)) \in BOOLEAN
  OBVIOUS
<1>3. PICK d : d = StagedRaced(command, p, "filling", s.raced \/ Others(p, SyncWriting))
  OBVIOUS
<1>4. command \in [Commands -> CommandRecords]
  BY DEF GroupTypes
<1>5. "filling" \in Stages
  BY DEF Stages, Syncing
<1>6. \A raced \in BOOLEAN :
        RacedIs(StagedRaced(command, p, "filling", raced), command, p, "filling", raced)
  BY <1>4, <1>5, RaceTurns, Zenon
<1>7. /\ Turns(d, command, p, {}) /\ d[p].at = "filling" /\ d[p].of = command[p].of
      /\ d[p].raced <=> (s.raced \/ Others(p, SyncWriting))
  BY <1>2, <1>3, <1>6, Zenon DEF RacedIs
<1>8. command' = Overtaken(p, d)
  <2>1. [command EXCEPT ![p].at = "filling", ![p].raced = @ \/ Others(p, {"filling", "stamping"})] = d
    BY <1>1, <1>3, Zenon DEF SyncWriting, StagedRaced
  <2> QED BY <2>1, Zenon DEF TruncateContracts
<1>9. d \in [Commands -> CommandRecords]
  BY <1>7 DEF Turns
<1>10. Turns(command', d, p, Syncing) /\ command'[p] = d[p]
  BY <1>8, <1>9, RacedTurns, Zenon
<1>11. Turns(command', command, p, Syncing)
  BY <1>7, <1>10, TurnsTurn, Zenon
<1> QED BY <1>1, <1>7, <1>10, <1>11, Zenon

LEMMA LoadToSyncDoes ==
  ASSUME GroupTypes, NEW p \in Commands, LoadToSync(p)
  PROVE  /\ Turns(command', command, p, {}) /\ command'[p].at = "grouped"
         /\ command'[p].group # NoGroup /\ command'[p].of = NoVersions /\ ~command'[p].raced
<1>1. PICK s \in CommandRecords : s = NoCommand
  BY NoCommandIs
<1>2. PICK g \in GroupSet : g = Load
  BY LoadIs DEF GroupTypes
<1> DEFINE e == [s EXCEPT !.at = "grouped", !.group = g]
<1>3. e \in CommandRecords
  BY <1>1, <1>2 DEF CommandRecords, Stages, Syncing
<1>4. e.at = "grouped" /\ e.group = g /\ e.of = s.of /\ e.raced = s.raced
  BY <1>1 DEF CommandRecords
<1>5. command' = [command EXCEPT ![p] = e] /\ g # NoGroup
  BY <1>1, <1>2, Zenon DEF LoadToSync
<1> HIDE DEF e
<1>6. command \in [Commands -> CommandRecords]
  BY DEF GroupTypes
<1>7. Turns([command EXCEPT ![p] = e], command, p, {}) /\ [command EXCEPT ![p] = e][p] = e
  BY <1>3, <1>6, SetTurns, Zenon
<1>8. Turns(command', command, p, {}) /\ command'[p] = e
  BY <1>5, <1>7, Zenon
<1> QED BY <1>1, <1>4, <1>5, <1>8, NoCommandIs, Zenon

LEMMA LoadMembersDoes ==
  ASSUME GroupTypes, CommandsHold, NEW p \in Commands, LoadMembers(p)
  PROVE  /\ Turns(command', command, p, {}) /\ command'[p].at = "matched"
         /\ command'[p].raced <=> command[p].raced
         /\ DOMAIN command'[p].of \subseteq Members
         /\ \A m \in DOMAIN command'[p].of : command'[p].of[m] = indexed[m]
<1>1. PICK s \in CommandRecords : s = command[p]
  BY DEF GroupTypes
<1>2. s.group \in SUBSET Members
  <2>1. s.group # NoGroup
    BY <1>1 DEF CommandsHold, LoadMembers
  <2> QED BY <1>1, <2>1 DEF CommandRecords, GroupSet
<1>3. PICK of \in VersionMaps : of = Versions(s.group)
  BY <1>2, VersionsIs DEF GroupTypes
<1>4. DOMAIN of \subseteq Members /\ \A m \in DOMAIN of : of[m] = indexed[m]
  BY <1>2, <1>3, VersionsIs DEF GroupTypes
<1> DEFINE e == [s EXCEPT !.at = "matched", !.of = of]
<1>5. e \in CommandRecords
  BY <1>1, <1>3 DEF CommandRecords, Stages, Syncing
<1>6. e.at = "matched" /\ e.of = of /\ e.raced = s.raced
  BY <1>1 DEF CommandRecords
<1>7. command' = [command EXCEPT ![p] = e]
  <2>1. command' = [command EXCEPT ![p].at = "matched", ![p].of = Versions(command[p].group)]
    BY Zenon DEF LoadMembers
  <2> QED BY <1>1, <1>3, <2>1, Zenon
<1> HIDE DEF e
<1>8. command \in [Commands -> CommandRecords]
  BY DEF GroupTypes
<1>9. Turns([command EXCEPT ![p] = e], command, p, {}) /\ [command EXCEPT ![p] = e][p] = e
  BY <1>5, <1>8, SetTurns, Zenon
<1>10. Turns(command', command, p, {}) /\ command'[p] = e
  BY <1>7, <1>9, Zenon
<1> QED BY <1>1, <1>4, <1>6, <1>10, Zenon

LEMMA PublishDoes ==
  ASSUME GroupTypes, NEW p \in Commands, Publish(p)
  PROVE  /\ Turns(command', command, p, {}) /\ command'[p].at = "published" /\ ~command'[p].raced
         /\ command'[p].of = indexed' /\ DOMAIN command'[p].of = Members
         /\ indexed' \in [Members -> 0 .. MaxVersion]
         /\ \A m \in Members : indexed[m] <= indexed'[m]
<1>1. PICK m \in Members :
        /\ indexed[m] < MaxVersion
        /\ indexed' = [indexed EXCEPT ![m] = @ + 1]
        /\ command' = [command EXCEPT ![p] = [NoCommand EXCEPT !.at = "published", !.member = m, !.of = indexed']]
  BY Zenon DEF Publish
<1>2. PICK i : i = indexed'
  OBVIOUS
<1>3. i \in [Members -> 0 .. MaxVersion] /\ \A n \in Members : indexed[n] <= i[n]
  BY <1>1, <1>2, VersionAssumption DEF GroupTypes
<1>4. i \in VersionMaps /\ DOMAIN i = Members
  <2>1. DOMAIN i = Members /\ i \in [Members -> Nat]
    BY <1>3, VersionAssumption
  <2> QED BY <2>1, MapIs
<1>5. PICK s \in CommandRecords : s = NoCommand
  BY NoCommandIs
<1> DEFINE e == [s EXCEPT !.at = "published", !.member = m, !.of = i]
<1>6. e \in CommandRecords
  BY <1>1, <1>4, <1>5 DEF CommandRecords, Stages, Syncing
<1>7. e.at = "published" /\ e.of = i /\ e.raced = s.raced
  BY <1>5 DEF CommandRecords
<1>8. command' = [command EXCEPT ![p] = e]
  BY <1>1, <1>2, <1>5, Zenon
<1> HIDE DEF e
<1>9. command \in [Commands -> CommandRecords]
  BY DEF GroupTypes
<1>10. Turns([command EXCEPT ![p] = e], command, p, {}) /\ [command EXCEPT ![p] = e][p] = e
  BY <1>6, <1>9, SetTurns, Zenon
<1>11. Turns(command', command, p, {}) /\ command'[p] = e
  BY <1>8, <1>10, Zenon
<1>12. indexed' \in [Members -> 0 .. MaxVersion] /\ \A n \in Members : indexed[n] <= indexed'[n]
  BY <1>2, <1>3, Zenon
<1> QED BY <1>2, <1>4, <1>5, <1>7, <1>11, <1>12, NoCommandIs, Zenon

\* A map that agrees with another where it is defined.
PartOf(f, g) == DOMAIN f \subseteq DOMAIN g /\ \A m \in DOMAIN f : f[m] = g[m]

LEMMA LoadAfterRunDoes ==
  ASSUME GroupTypes, CommandsHold, NEW p \in Commands, LoadAfterRun(p)
  PROVE  /\ Turns(command', command, p, {})
         /\ \/ command'[p].at = "none"
            \/ /\ command'[p].at = "matched" /\ (command'[p].raced <=> command[p].raced)
               /\ PartOf(command'[p].of, command[p].of)
<1>1. command \in [Commands -> CommandRecords]
  BY DEF GroupTypes
<1>2. CASE command' = [command EXCEPT ![p] = NoCommand]
  <2>1. Turns(command', command, p, {}) /\ command'[p].at = "none"
    BY <1>1, <1>2, EndTurns, Zenon
  <2> QED BY <2>1, Zenon
<1>3. CASE /\ Load # NoGroup
           /\ command' = [command EXCEPT ![p] =
                [command[p] EXCEPT !.at = "matched", !.of = [m \in Load |-> command[p].of[m]]]]
  <2>1. PICK s \in CommandRecords : s = command[p]
    BY <1>1
  <2>2. DOMAIN s.of = Members /\ s.of \in [Members -> Nat]
    <3>1. DOMAIN s.of = Members
      BY <2>1, Zenon DEF CommandsHold, LoadAfterRun
    <3>2. s.of \in VersionMaps
      BY <2>1 DEF CommandRecords
    <3> QED BY <3>1, <3>2, MapIs
  <2>3. Load \in SUBSET Members
    BY <1>3, LoadIs DEF GroupTypes, GroupSet
  <2>4. PICK of : of = [m \in Load |-> s.of[m]]
    OBVIOUS
  <2>5. DOMAIN of = Load /\ of \in [Load -> Nat] /\ \A m \in Load : of[m] = s.of[m]
    BY <2>2, <2>3, <2>4
  <2>6. of \in VersionMaps
    BY <2>3, <2>5, MapIs
  <2>7. PartOf(of, s.of)
    BY <2>2, <2>3, <2>5 DEF PartOf
  <2> DEFINE e == [s EXCEPT !.at = "matched", !.of = of]
  <2>8. e \in CommandRecords
    BY <2>1, <2>6 DEF CommandRecords, Stages, Syncing
  <2>9. e.at = "matched" /\ e.of = of /\ e.raced = s.raced
    BY <2>1 DEF CommandRecords
  <2>10. command' = [command EXCEPT ![p] = e]
    BY <1>3, <2>1, <2>4, Zenon
  <2> HIDE DEF e
  <2>11. Turns([command EXCEPT ![p] = e], command, p, {}) /\ [command EXCEPT ![p] = e][p] = e
    BY <1>1, <2>8, SetTurns, Zenon
  <2>12. Turns(command', command, p, {}) /\ command'[p] = e
    BY <2>10, <2>11, Zenon
  <2> QED BY <2>1, <2>7, <2>9, <2>12, Zenon
<1> QED BY <1>2, <1>3, Zenon DEF LoadAfterRun

Acts(p) ==
  \/ LoadGroups(p) \/ TruncateGroups(p) \/ WriteGroups(p)
  \/ LoadToSync(p) \/ LoadMembers(p) \/ Publish(p) \/ LoadAfterRun(p)
  \/ TruncateContracts(p) \/ WriteContracts(p) \/ SaveStamp(p)
  \/ StopCommand(p)
Serves == ServeCached \/ Serve \/ LoadCached \/ UNCHANGED groupVars

LEMMA StepIs == [GroupsNext]_groupVars => Serves \/ \E p \in Commands : Acts(p)
BY Zenon DEF GroupsNext, Acts, Serves

\* Whatever p does, it changes of the others only whether they are raced.
LEMMA CommandTurns ==
  ASSUME GroupTypes, CommandsHold, NEW p \in Commands, Acts(p)
  PROVE  \E S : Turns(command', command, p, S)
<1>1. CASE LoadGroups(p)         BY <1>1, LoadGroupsDoes, Zenon
<1>2. CASE TruncateGroups(p)     BY <1>2, TruncateGroupsDoes, Zenon
<1>3. CASE WriteGroups(p)        BY <1>3, WriteGroupsDoes, Zenon
<1>4. CASE LoadToSync(p)         BY <1>4, LoadToSyncDoes, Zenon
<1>5. CASE LoadMembers(p)        BY <1>5, LoadMembersDoes, Zenon
<1>6. CASE Publish(p)            BY <1>6, PublishDoes, Zenon
<1>7. CASE LoadAfterRun(p)       BY <1>7, LoadAfterRunDoes, Zenon
<1>8. CASE TruncateContracts(p)  BY <1>8, TruncateContractsDoes, Zenon
<1>9. CASE WriteContracts(p)     BY <1>9, WriteContractsDoes, Zenon
<1>10. CASE SaveStamp(p)         BY <1>10, SaveStampDoes, Zenon
<1>11. CASE StopCommand(p)       BY <1>11, StopCommandDoes, Zenon
<1> QED BY <1>1, <1>2, <1>3, <1>4, <1>5, <1>6, <1>7, <1>8, <1>9, <1>10, <1>11, Zenon DEF Acts

-----------------------------------------------------------------------------
(* Types, commands and snapshots *)

LEMMA FilesTyped ==
  /\ \A p \in Commands : /\ File("torn", p, NoGroup) \in GroupFiles
                         /\ File("torn", p, NoVersions) \in ContractFiles
  /\ \A g \in GroupSet : \A x, p : groups \in GroupFiles /\ x \in Filled(groups, p, g) => x \in GroupFiles
  /\ \A f \in VersionMaps : \A x, p :
       contracts \in ContractFiles /\ x \in Filled(contracts, p, f) => x \in ContractFiles
<1>1. ASSUME NEW p \in Commands
      PROVE  /\ File("torn", p, NoGroup) \in GroupFiles
             /\ File("torn", p, NoVersions) \in ContractFiles
  BY NoVersionsIs DEF File, GroupFiles, ContractFiles, GroupSet
<1>2. ASSUME NEW g \in GroupSet, NEW x, NEW p, groups \in GroupFiles, x \in Filled(groups, p, g)
      PROVE  x \in GroupFiles
  <2>1. File("whole", Nobody, g) \in GroupFiles
    BY DEF File, GroupFiles
  <2>2. [groups EXCEPT !.is = "torn", !.by = Nobody] \in GroupFiles
    BY <1>2 DEF GroupFiles
  <2>3. x = File("whole", Nobody, g) \/ x = [groups EXCEPT !.is = "torn", !.by = Nobody]
    BY <1>2, FilledIs, Zenon
  <2> QED BY <2>1, <2>2, <2>3, Zenon
<1>3. ASSUME NEW f \in VersionMaps, NEW x, NEW p, contracts \in ContractFiles, x \in Filled(contracts, p, f)
      PROVE  x \in ContractFiles
  <2>1. File("whole", Nobody, f) \in ContractFiles
    BY DEF File, ContractFiles
  <2>2. [contracts EXCEPT !.is = "torn", !.by = Nobody] \in ContractFiles
    BY <1>3 DEF ContractFiles
  <2>3. x = File("whole", Nobody, f) \/ x = [contracts EXCEPT !.is = "torn", !.by = Nobody]
    BY <1>3, FilledIs, Zenon
  <2> QED BY <2>1, <2>2, <2>3, Zenon
<1> QED BY <1>1, <1>2, <1>3, Zenon

LEMMA RecordIs ==
  ASSUME GroupTypes, NEW p \in Commands
  PROVE  /\ command[p].at \in Stages /\ command[p].group \in GroupSet /\ command[p].of \in VersionMaps
         /\ command[p].raced \in BOOLEAN
BY DEF GroupTypes, CommandRecords

LEMMA GroupTypesStep == GroupTypes /\ CommandsHold /\ [GroupsNext]_groupVars => GroupTypes'
<1> SUFFICES ASSUME GroupTypes, CommandsHold, [GroupsNext]_groupVars PROVE GroupTypes'
  OBVIOUS
<1>1. CASE Serves
  <2>1. CASE ServeCached \/ UNCHANGED groupVars
    BY <2>1 DEF ServeCached, GroupTypes, groupVars, fileVars, syncVars, serverVars
  <2>2. CASE Serve
    BY <2>2 DEF Serve, GroupTypes, fileVars, syncVars
  <2>3. CASE LoadCached
    <3>1. cached'.mtime \in Nat
      BY <2>3 DEF LoadCached, GroupTypes
    <3> QED BY <2>3, <3>1 DEF LoadCached, GroupTypes, fileVars, syncVars
  <2> QED BY <1>1, <2>1, <2>2, <2>3, Zenon DEF Serves
<1>2. ASSUME NEW p \in Commands, Acts(p) PROVE GroupTypes'
  <2>1. command' \in [Commands -> CommandRecords]
    BY <1>2, CommandTurns, Zenon DEF Turns
  <2>2. CASE LoadGroups(p)
    BY <2>1, <2>2 DEF LoadGroups, GroupTypes, fileVars, syncVars, serverVars
  <2>3. CASE TruncateGroups(p)
    <3>1. groups' \in GroupFiles
      BY <2>3, FilesTyped, Zenon DEF TruncateGroups
    <3>2. mishaps' \subseteq mishaps /\ mtime' = mtime + 1
      BY <2>3 DEF TruncateGroups
    <3>3. UNCHANGED <<saved, contracts, stamp, cached, seen, indexed>>
      BY <2>3 DEF TruncateGroups, syncVars, serverVars
    <3> QED BY <2>1, <3>1, <3>2, <3>3 DEF GroupTypes
  <2>4. CASE WriteGroups(p)
    <3>1. groups' \in GroupFiles
      BY <2>4, RecordIs, FilesTyped, Zenon DEF WriteGroups, GroupTypes
    <3>2. saved' \in GroupSet
      <4>1. command[p].op \in Edits /\ command[p].member \in Members
        BY <2>4 DEF WriteGroups, CommandsHold, At, Editing
      <4> QED BY <2>4, <4>1, EditIs DEF WriteGroups, GroupTypes
    <3>3. mtime' = mtime \/ mtime' = mtime + 1
      BY <2>4 DEF WriteGroups
    <3>4. mishaps' \subseteq mishaps \union {"overlap", "tick"}
      BY <2>4, Zenon DEF WriteGroups
    <3>5. UNCHANGED <<contracts, stamp, cached, seen, indexed, started>>
      BY <2>4 DEF WriteGroups, syncVars, serverVars
    <3> QED BY <2>1, <3>1, <3>2, <3>3, <3>4, <3>5 DEF GroupTypes
  <2>5. CASE LoadToSync(p)
    BY <2>1, <2>5 DEF LoadToSync, GroupTypes, fileVars, syncVars, serverVars
  <2>6. CASE LoadMembers(p)
    BY <2>1, <2>6 DEF LoadMembers, GroupTypes, fileVars, syncVars, serverVars
  <2>7. CASE Publish(p)
    <3>1. indexed' \in [Members -> 0 .. MaxVersion]
      BY <2>7, PublishDoes
    <3> QED BY <2>1, <2>7, <3>1 DEF Publish, GroupTypes, fileVars, syncVars, serverVars
  <2>8. CASE LoadAfterRun(p)
    BY <2>1, <2>8 DEF LoadAfterRun, GroupTypes, fileVars, syncVars, serverVars
  <2>9. CASE TruncateContracts(p)
    <3>1. contracts' \in ContractFiles
      BY <2>9, FilesTyped, Zenon DEF TruncateContracts
    <3> QED BY <2>1, <2>9, <3>1 DEF TruncateContracts, GroupTypes, fileVars, serverVars
  <2>10. CASE WriteContracts(p)
    <3>1. contracts' \in ContractFiles
      BY <2>10, RecordIs, FilesTyped, Zenon DEF WriteContracts, GroupTypes
    <3> QED BY <2>1, <2>10, <3>1 DEF WriteContracts, GroupTypes, fileVars, serverVars
  <2>11. CASE SaveStamp(p)
    <3>1. stamp' \in VersionMaps
      BY <2>11, RecordIs DEF SaveStamp
    <3>2. mishaps' \subseteq mishaps \union {"sync"}
      BY <2>11, Zenon DEF SaveStamp
    <3>3. UNCHANGED <<groups, mtime, saved, contracts, cached, seen, indexed>>
      BY <2>11 DEF SaveStamp, fileVars, serverVars
    <3> QED BY <2>1, <3>1, <3>2, <3>3 DEF GroupTypes
  <2>12. CASE StopCommand(p)
    <3>1. mishaps' \subseteq mishaps \union {"cut", "sync"}
      BY <2>12, Zenon DEF StopCommand
    <3>2. UNCHANGED <<groups, mtime, saved, contracts, stamp, cached, seen, indexed>>
      BY <2>12 DEF StopCommand, fileVars, syncVars, serverVars
    <3> QED BY <2>1, <3>1, <3>2 DEF GroupTypes
  <2> QED BY <1>2, <2>2, <2>3, <2>4, <2>5, <2>6, <2>7, <2>8, <2>9, <2>10, <2>11, <2>12, Zenon DEF Acts
<1> QED BY <1>1, <1>2, StepIs, Zenon

LEMMA CommandsHoldStep == GroupTypes /\ CommandsHold /\ [GroupsNext]_groupVars => CommandsHold'
<1> DEFINE Holds(c) == /\ c.at \in Editing => c.op \in Edits /\ c.member \in Members
                       /\ c.at = "grouped" => c.group # NoGroup
                       /\ c.at = "published" => DOMAIN c.of = Members
<1> SUFFICES ASSUME GroupTypes, CommandsHold, [GroupsNext]_groupVars
             PROVE  \A q \in Commands : Holds(command'[q])
  BY DEF CommandsHold, At
<1>1. CASE Serves
  <2>1. command' = command
    BY <1>1 DEF Serves, ServeCached, Serve, LoadCached, groupVars
  <2> QED BY <2>1 DEF CommandsHold, At
<1>2. ASSUME NEW p \in Commands, Acts(p) PROVE \A q \in Commands : Holds(command'[q])
  <2>1. ASSUME NEW q \in Commands \ {p} PROVE Holds(command'[q])
    <3>1. /\ command'[q].at = command[q].at /\ command'[q].op = command[q].op
          /\ command'[q].member = command[q].member /\ command'[q].group = command[q].group
          /\ command'[q].of = command[q].of
      BY <1>2, <2>1, CommandTurns, Zenon DEF Turns
    <3> QED BY <3>1, Zenon DEF CommandsHold, At
  <2>2. Holds(command'[p])
    <3>1. CASE LoadGroups(p)
      BY <3>1, LoadGroupsDoes DEF Editing
    <3>2. CASE TruncateGroups(p)
      BY <3>2, TruncateGroupsDoes DEF TruncateGroups, CommandsHold, At, Editing, SameBut
    <3>3. CASE WriteGroups(p)
      BY <3>3, WriteGroupsDoes DEF Editing
    <3>4. CASE LoadToSync(p)
      BY <3>4, LoadToSyncDoes DEF Editing
    <3>5. CASE LoadMembers(p)
      BY <3>5, LoadMembersDoes DEF Editing
    <3>6. CASE Publish(p)
      BY <3>6, PublishDoes DEF Editing
    <3>7. CASE LoadAfterRun(p)
      BY <3>7, LoadAfterRunDoes DEF Editing
    <3>8. CASE TruncateContracts(p)
      BY <3>8, TruncateContractsDoes DEF Editing
    <3>9. CASE WriteContracts(p)
      BY <3>9, WriteContractsDoes DEF Editing
    <3>10. CASE SaveStamp(p)
      BY <3>10, SaveStampDoes DEF Editing
    <3>11. CASE StopCommand(p)
      BY <3>11, StopCommandDoes DEF Editing
    <3> QED BY <1>2, <3>1, <3>2, <3>3, <3>4, <3>5, <3>6, <3>7, <3>8, <3>9, <3>10, <3>11, Zenon DEF Acts
  <2> QED BY <2>1, <2>2, Zenon
<1> QED BY <1>1, <1>2, StepIs, Zenon

\* Where no write shares a mtime with another, the mtime of a snapshot that was
\* overtaken is past.
LEMMA SnapshotsPastStep == GroupTypes /\ SnapshotsPast /\ [GroupsNext]_groupVars => SnapshotsPast'
<1> SUFFICES ASSUME GroupTypes, SnapshotsPast, [GroupsNext]_groupVars PROVE SnapshotsPast'
  OBVIOUS
<1>1. mtime \in Nat /\ cached.mtime \in Nat /\ seen \in Nat \union {-1} /\ cached.mtime <= mtime /\ seen <= mtime
  BY DEF GroupTypes, SnapshotsPast
<1>2. CASE UNCHANGED <<groups, mtime, cached, seen>> /\ ("tick" \in mishaps <=> "tick" \in mishaps')
  BY <1>2 DEF SnapshotsPast, CacheFresh, Load
<1>3. CASE UNCHANGED <<cached, seen>> /\ mtime' = mtime + 1
  BY <1>1, <1>3 DEF SnapshotsPast, CacheFresh
<1>4. CASE UNCHANGED <<cached, seen>> /\ mtime' = mtime /\ "tick" \in mishaps'
  BY <1>1, <1>4 DEF SnapshotsPast, CacheFresh
<1>5. CASE UNCHANGED <<groups, mtime, cached, mishaps>> /\ seen' = mtime
  BY <1>1, <1>5 DEF SnapshotsPast, CacheFresh, Load
<1>6. CASE LoadCached
  <2>1. UNCHANGED <<groups, mtime, mishaps>> /\ seen' = -1
    BY <1>6 DEF LoadCached, fileVars
  <2>2. cached'.mtime = seen /\ cached'.group = Load /\ seen # -1
    BY <1>6 DEF LoadCached
  <2> QED BY <1>1, <2>1, <2>2 DEF SnapshotsPast, CacheFresh, Load
<1>7. CASE Serves
  BY <1>2, <1>5, <1>6, <1>7 DEF Serves, ServeCached, Serve, groupVars, fileVars, serverVars
<1>8. ASSUME NEW p \in Commands, Acts(p) PROVE SnapshotsPast'
  <2>1. CASE LoadGroups(p)
    BY <1>2, <2>1 DEF LoadGroups, fileVars, serverVars
  <2>2. CASE TruncateGroups(p)
    BY <1>3, <2>2 DEF TruncateGroups, serverVars
  <2>3. CASE WriteGroups(p)
    <3>1. UNCHANGED <<cached, seen>>
      BY <2>3 DEF WriteGroups, serverVars
    <3>2. mtime' = mtime \/ mtime' = mtime + 1
      BY <2>3 DEF WriteGroups
    <3>3. mtime' = mtime => "tick" \in mishaps'
      BY <2>3, Zenon DEF WriteGroups
    <3> QED BY <1>3, <1>4, <3>1, <3>2, <3>3, Zenon
  <2>4. CASE LoadToSync(p)
    BY <1>2, <2>4 DEF LoadToSync, fileVars, serverVars
  <2>5. CASE LoadMembers(p)
    BY <1>2, <2>5 DEF LoadMembers, fileVars, serverVars
  <2>6. CASE Publish(p)
    BY <1>2, <2>6 DEF Publish, fileVars, serverVars
  <2>7. CASE LoadAfterRun(p)
    BY <1>2, <2>7 DEF LoadAfterRun, fileVars, serverVars
  <2>8. CASE TruncateContracts(p)
    BY <1>2, <2>8 DEF TruncateContracts, fileVars, serverVars
  <2>9. CASE WriteContracts(p)
    BY <1>2, <2>9 DEF WriteContracts, fileVars, serverVars
  <2>10. CASE SaveStamp(p)
    <3>1. "tick" \in mishaps <=> "tick" \in mishaps'
      BY <2>10 DEF SaveStamp
    <3> QED BY <1>2, <2>10, <3>1 DEF SaveStamp, fileVars, serverVars
  <2>11. CASE StopCommand(p)
    <3>1. "tick" \in mishaps <=> "tick" \in mishaps'
      BY <2>11 DEF StopCommand
    <3> QED BY <1>2, <2>11, <3>1 DEF StopCommand, fileVars, serverVars
  <2> QED BY <1>8, <2>1, <2>2, <2>3, <2>4, <2>5, <2>6, <2>7, <2>8, <2>9, <2>10, <2>11, Zenon DEF Acts
<1> QED BY <1>7, <1>8, StepIs, Zenon

-----------------------------------------------------------------------------
(* Changes of the group *)

\* A step that leaves groups.json alone, and p not at work on it.
LEMMA EditsRest ==
  ASSUME EditsFollow, NEW p \in Commands, NEW S, Turns(command', command, p, S),
         S \intersect Editing = {}, ~At(p, "truncated"), command'[p].at \notin Editing,
         UNCHANGED <<groups, saved>>, Unmixed' => Unmixed
  PROVE  EditsFollow'
<1> SUFFICES ASSUME Unmixed'
             PROVE  /\ (\A q \in Commands : command'[q].at # "truncated") => groups.is = "whole" /\ groups.of = saved
                    /\ \A q \in Commands : command'[q].at \in Editing /\ ~command'[q].raced =>
                         /\ ~ \E r \in Commands \ {q} : command'[r].at \in {"truncated"}
                         /\ command'[q].group = Edit(command'[q].op, command'[q].member, saved)
                         /\ command'[q].at = "truncated" => groups = File("torn", q, NoGroup)
  BY DEF EditsFollow, Others, At
<1>1. \A q \in Commands : command'[q].at = "truncated" <=> command[q].at = "truncated"
  BY DEF Turns, Editing, At
<1>2. (\A q \in Commands : command'[q].at # "truncated") => groups.is = "whole" /\ groups.of = saved
  BY <1>1 DEF EditsFollow, At
<1>3. ASSUME NEW q \in Commands, command'[q].at \in Editing, ~command'[q].raced
      PROVE  /\ ~ \E r \in Commands \ {q} : command'[r].at \in {"truncated"}
             /\ command'[q].group = Edit(command'[q].op, command'[q].member, saved)
             /\ command'[q].at = "truncated" => groups = File("torn", q, NoGroup)
  <2>1. q # p
    BY <1>3
  <2>2. command[q].at \in Editing /\ command[q].at = command'[q].at
    BY <1>3, <2>1 DEF Turns
  <2>3. ~command[q].raced
    <3>1. command[q].at \notin S
      BY <2>2
    <3> QED BY <1>3, <2>1, <3>1, Zenon DEF Turns
  <2>4. /\ ~Others(q, {"truncated"})
        /\ command[q].group = Edit(command[q].op, command[q].member, saved)
        /\ command[q].at = "truncated" => groups = File("torn", q, NoGroup)
    BY <2>2, <2>3, Zenon DEF EditsFollow, At
  <2>5. /\ command'[q].op = command[q].op /\ command'[q].member = command[q].member
        /\ command'[q].group = command[q].group
    BY <2>1, Zenon DEF Turns
  <2> QED BY <1>1, <2>2, <2>4, <2>5 DEF Others
<1> QED BY <1>2, <1>3, Zenon

\* Once p has changed groups.json, what the others have loaded is not of use.
LEMMA EditsRaced ==
  ASSUME NEW p \in Commands, Turns(command', command, p, Editing),
         command'[p].at \in Editing /\ ~command'[p].raced =>
           /\ ~Others(p, {"truncated"}) /\ command'[p].group = Edit(command'[p].op, command'[p].member, saved')
           /\ groups' = File("torn", p, NoGroup),
         (command'[p].at # "truncated" /\ ~Others(p, {"truncated"})) => groups'.is = "whole" /\ groups'.of = saved'
  PROVE  EditsFollow'
<1> SUFFICES /\ (\A q \in Commands : command'[q].at # "truncated") => groups'.is = "whole" /\ groups'.of = saved'
             /\ \A q \in Commands : command'[q].at \in Editing /\ ~command'[q].raced =>
                  /\ ~ \E r \in Commands \ {q} : command'[r].at \in {"truncated"}
                  /\ command'[q].group = Edit(command'[q].op, command'[q].member, saved')
                  /\ command'[q].at = "truncated" => groups' = File("torn", q, NoGroup)
  BY DEF EditsFollow, Others, At
<1>1. \A q \in Commands \ {p} : command'[q].at = command[q].at
  BY Zenon DEF Turns
<1>2. (\A q \in Commands : command'[q].at # "truncated") => groups'.is = "whole" /\ groups'.of = saved'
  BY <1>1 DEF Others
<1>3. ASSUME NEW q \in Commands, command'[q].at \in Editing, ~command'[q].raced
      PROVE  q = p
  BY <1>1, <1>3, Zenon DEF Turns
<1>4. (\E r \in Commands \ {p} : command'[r].at \in {"truncated"}) => Others(p, {"truncated"})
  BY <1>1 DEF Others
<1> QED BY <1>2, <1>3, <1>4, Zenon

LEMMA EditsFollowStep == GroupsInd /\ [GroupsNext]_groupVars => EditsFollow'
<1> SUFFICES ASSUME GroupTypes, CommandsHold, EditsFollow, [GroupsNext]_groupVars, Unmixed' PROVE EditsFollow'
  BY DEF GroupsInd, EditsFollow
<1>1. CASE Serves
  <2>1. UNCHANGED <<groups, saved, command, mishaps>>
    BY <1>1 DEF Serves, ServeCached, Serve, LoadCached, groupVars, fileVars
  <2> QED BY <2>1 DEF EditsFollow, Unmixed, At, Others
<1>2. ASSUME NEW p \in Commands, Acts(p) PROVE EditsFollow'
  <2>1. CASE LoadGroups(p)
    <3>1. UNCHANGED <<groups, saved, mishaps>> /\ command[p].at = "none"
      BY <2>1 DEF LoadGroups, Starts, At, fileVars
    <3>2. Unmixed
      BY <3>1 DEF Unmixed
    <3>3. \A q \in Commands \ {p} : command'[q].at = command[q].at
      BY <2>1, LoadGroupsDoes, Zenon DEF Turns
    <3>4. (\A q \in Commands : command'[q].at # "truncated") => groups.is = "whole" /\ groups.of = saved
      BY <3>1, <3>2, <3>3 DEF EditsFollow, At
    <3>5. ASSUME NEW q \in Commands, command'[q].at \in Editing, ~command'[q].raced
          PROVE  /\ ~ \E r \in Commands \ {q} : command'[r].at \in {"truncated"}
                 /\ command'[q].group = Edit(command'[q].op, command'[q].member, saved)
                 /\ command'[q].at = "truncated" => groups = File("torn", q, NoGroup)
      <4>1. CASE q = p
        <5>1. ~Others(p, {"truncated"})
          BY <2>1, <3>5, <4>1, LoadGroupsDoes, Zenon
        <5>2. Load = saved
          <6>1. groups.is = "whole" /\ groups.of = saved
            BY <3>1, <3>2, <5>1 DEF EditsFollow, Others, At
          <6> QED BY <6>1, LoadIs DEF GroupTypes
        <5>3. command'[p].group = Edit(command'[p].op, command'[p].member, saved)
          BY <2>1, <5>2, LoadGroupsDoes, Zenon
        <5>4. command'[p].at # "truncated"
          BY <2>1, LoadGroupsDoes
        <5> QED BY <3>3, <4>1, <5>1, <5>3, <5>4 DEF Others
      <4>2. CASE q # p
        <5>1. /\ command'[q].at = command[q].at /\ command'[q].op = command[q].op
              /\ command'[q].member = command[q].member /\ command'[q].group = command[q].group
              /\ command'[q].raced <=> command[q].raced
          BY <2>1, <4>2, LoadGroupsDoes, Zenon DEF Turns
        <5>2. /\ ~Others(q, {"truncated"})
              /\ command[q].group = Edit(command[q].op, command[q].member, saved)
              /\ command[q].at = "truncated" => groups = File("torn", q, NoGroup)
          BY <3>2, <3>5, <5>1, Zenon DEF EditsFollow, At
        <5>3. command'[p].at # "truncated"
          BY <2>1, LoadGroupsDoes
        <5> QED BY <3>3, <5>1, <5>2, <5>3 DEF Others
      <4> QED BY <4>1, <4>2
    <3> QED BY <3>1, <3>4, <3>5 DEF EditsFollow, At, Others
  <2>2. CASE TruncateGroups(p)
    <3>1. /\ Unmixed /\ command[p].at \in Editing
          /\ groups' = File("torn", p, NoGroup) /\ saved' = saved
      BY <2>2 DEF TruncateGroups, Unmixed, At, Editing
    <3>2. Turns(command', command, p, Editing) /\ command'[p].at = "truncated" /\ SameBut(command'[p], command[p])
      BY <2>2, TruncateGroupsDoes
    <3>3. ~command'[p].raced =>
            ~Others(p, {"truncated"}) /\ command'[p].group = Edit(command'[p].op, command'[p].member, saved')
      BY <3>1, <3>2, Zenon DEF EditsFollow, SameBut
    <3> QED BY <3>1, <3>2, <3>3, EditsRaced, Zenon
  <2>3. CASE WriteGroups(p)
    <3>1. Unmixed /\ ~command[p].raced
      BY <2>3 DEF WriteGroups, Unmixed
    <3>2. /\ groups = File("torn", p, NoGroup)
          /\ command[p].group = Edit(command[p].op, command[p].member, saved)
      BY <2>3, <3>1 DEF EditsFollow, WriteGroups, At, Editing
    <3>3. groups' = File("whole", Nobody, command[p].group)
      <4>1. groups \in GroupFiles \union ContractFiles /\ groups' \in Filled(groups, p, command[p].group)
        BY <2>3, Zenon DEF GroupTypes, WriteGroups
      <4> QED BY <3>2, <4>1, FilledIs, Zenon
    <3>4. saved' = command[p].group
      BY <2>3, <3>2, Zenon DEF WriteGroups
    <3>5. groups'.is = "whole" /\ groups'.of = saved'
      BY <3>3, <3>4 DEF File
    <3>6. Turns(command', command, p, Editing) /\ command'[p].at = "none"
      BY <2>3, WriteGroupsDoes
    <3>7. command'[p].at \notin Editing
      BY <3>6 DEF Editing
    <3> QED BY <3>5, <3>6, <3>7, EditsRaced, Zenon
  <2>4. ASSUME NEW S, Turns(command', command, p, S), S \intersect Editing = {}, ~At(p, "truncated"),
               command'[p].at \notin Editing, UNCHANGED <<groups, saved>>, mishaps' = mishaps
        PROVE  EditsFollow'
    <3>1. Unmixed' => Unmixed
      BY <2>4 DEF Unmixed
    <3> QED BY <2>4, <3>1, EditsRest, Zenon
  <2>5. {} \intersect Editing = {} /\ Syncing \intersect Editing = {}
    BY DEF Editing, Syncing
  <2>6. CASE LoadToSync(p)
    <3>1. Turns(command', command, p, {}) /\ command'[p].at \notin Editing
      BY <2>6, LoadToSyncDoes DEF Editing
    <3>2. UNCHANGED <<groups, saved>> /\ mishaps' = mishaps /\ ~At(p, "truncated")
      BY <2>6 DEF LoadToSync, fileVars, Starts, At
    <3> QED BY <2>4, <2>5, <3>1, <3>2, Zenon
  <2>7. CASE LoadMembers(p)
    <3>1. Turns(command', command, p, {}) /\ command'[p].at \notin Editing
      BY <2>7, LoadMembersDoes DEF Editing
    <3>2. UNCHANGED <<groups, saved>> /\ mishaps' = mishaps /\ ~At(p, "truncated")
      BY <2>7 DEF LoadMembers, fileVars, At
    <3> QED BY <2>4, <2>5, <3>1, <3>2, Zenon
  <2>8. CASE Publish(p)
    <3>1. Turns(command', command, p, {}) /\ command'[p].at \notin Editing
      BY <2>8, PublishDoes DEF Editing
    <3>2. UNCHANGED <<groups, saved>> /\ mishaps' = mishaps /\ ~At(p, "truncated")
      BY <2>8 DEF Publish, fileVars, Starts, At
    <3> QED BY <2>4, <2>5, <3>1, <3>2, Zenon
  <2>9. CASE LoadAfterRun(p)
    <3>1. Turns(command', command, p, {}) /\ command'[p].at \notin Editing
      BY <2>9, LoadAfterRunDoes DEF Editing
    <3>2. UNCHANGED <<groups, saved>> /\ mishaps' = mishaps /\ ~At(p, "truncated")
      BY <2>9 DEF LoadAfterRun, fileVars, At
    <3> QED BY <2>4, <2>5, <3>1, <3>2, Zenon
  <2>10. CASE TruncateContracts(p)
    <3>1. Turns(command', command, p, Syncing) /\ command'[p].at \notin Editing
      BY <2>10, TruncateContractsDoes DEF Editing
    <3>2. UNCHANGED <<groups, saved>> /\ mishaps' = mishaps /\ ~At(p, "truncated")
      BY <2>10 DEF TruncateContracts, fileVars, At
    <3> QED BY <2>4, <2>5, <3>1, <3>2, Zenon
  <2>11. CASE WriteContracts(p)
    <3>1. Turns(command', command, p, {}) /\ command'[p].at \notin Editing
      BY <2>11, WriteContractsDoes DEF Editing
    <3>2. UNCHANGED <<groups, saved>> /\ mishaps' = mishaps /\ ~At(p, "truncated")
      BY <2>11 DEF WriteContracts, fileVars, At
    <3> QED BY <2>4, <2>5, <3>1, <3>2, Zenon
  <2>12. CASE SaveStamp(p)
    <3>1. Turns(command', command, p, Syncing) /\ command'[p].at \notin Editing
      BY <2>12, SaveStampDoes DEF Editing
    <3>2. UNCHANGED <<groups, saved>> /\ ~At(p, "truncated")
      BY <2>12 DEF SaveStamp, fileVars, At
    <3>3. Unmixed' => Unmixed
      BY <2>12 DEF SaveStamp, Unmixed
    <3> QED BY <2>5, <3>1, <3>2, <3>3, EditsRest, Zenon
  <2>13. CASE StopCommand(p)
    <3>1. Turns(command', command, p, {}) /\ command'[p].at \notin Editing
      BY <2>13, StopCommandDoes DEF Editing
    <3>2. UNCHANGED <<groups, saved>> /\ ~At(p, "truncated")
      BY <2>13 DEF StopCommand, fileVars, Unmixed
    <3>3. Unmixed' => Unmixed
      BY <2>13 DEF StopCommand, Unmixed
    <3> QED BY <2>5, <3>1, <3>2, <3>3, EditsRest, Zenon
  <2> QED BY <1>2, <2>1, <2>2, <2>3, <2>6, <2>7, <2>8, <2>9, <2>10, <2>11, <2>12, <2>13, Zenon DEF Acts
<1> QED BY <1>1, <1>2, StepIs, Zenon

-----------------------------------------------------------------------------
(* Syncs and the stamp *)

MoreIndexed == indexed' \in [Members -> 0 .. MaxVersion] /\ \A m \in Members : indexed[m] <= indexed'[m]

LEMMA SameIndexed == ASSUME GroupTypes, indexed' = indexed PROVE MoreIndexed
BY VersionAssumption DEF MoreIndexed, GroupTypes

\* What is not newer than the registry stays so.
LEMMA NotNewerStays ==
  ASSUME GroupTypes, MoreIndexed, NEW f \in VersionMaps \union {NoStamp}, NotNewer(f, indexed)
  PROVE  NotNewer(f, indexed')
<1>1. ASSUME NEW m \in Members, m \in DOMAIN f PROVE f[m] <= indexed'[m]
  <2>1. f[m] \in Nat
    <3>1. CASE f = NoStamp
      BY <1>1, <3>1 DEF NoStamp
    <3>2. CASE f \in VersionMaps
      BY <1>1, <3>2, MapIs
    <3> QED BY <3>1, <3>2
  <2>2. f[m] <= indexed[m]
    BY <1>1 DEF NotNewer, GroupTypes
  <2>3. indexed[m] \in Nat /\ indexed'[m] \in Nat /\ indexed[m] <= indexed'[m]
    BY VersionAssumption DEF MoreIndexed, GroupTypes
  <2> QED BY <2>1, <2>2, <2>3
<1> QED BY <1>1 DEF NotNewer

\* The requirements on p of a sync, in the state it leads to.
Keeps(c, p, at) ==
  /\ NotNewer(c.of, indexed')
  /\ ~c.raced =>
       /\ at # "grouped" => NotNewer(stamp', c.of)
       /\ at \in SyncWriting => ~ \E q \in Commands \ {p} : command'[q].at \in SyncWriting
       /\ at = "filling" => contracts' = File("torn", p, NoVersions)
       /\ at = "stamping" => contracts' = File("whole", Nobody, c.of)

LEMMA SyncsSuffice ==
  ASSUME NotNewer(stamp', indexed'),
         \A q \in Commands : command'[q].at \in Syncing => Keeps(command'[q], q, command'[q].at)
  PROVE  SyncsFollow'
BY DEF SyncsFollow, SyncFollows, Keeps, At, Others, NotNewer

\* A step of p that touches neither contracts nor stamp and does not begin to.
LEMMA SyncsRest ==
  ASSUME GroupTypes, SyncsFollow, NEW p \in Commands, NEW S, Turns(command', command, p, S),
         S \intersect Syncing = {}, command'[p].at \notin SyncWriting,
         MoreIndexed, UNCHANGED <<contracts, stamp>>,
         command'[p].at \in Syncing => Keeps(command'[p], p, command'[p].at)
  PROVE  SyncsFollow'
<1>1. NotNewer(stamp', indexed')
  BY NotNewerStays DEF SyncsFollow, GroupTypes
<1>2. ASSUME NEW q \in Commands \ {p}, command'[q].at \in Syncing
      PROVE  Keeps(command'[q], q, command'[q].at)
  <2>1. /\ command'[q].at = command[q].at /\ command'[q].of = command[q].of
        /\ command'[q].raced <=> command[q].raced
    <3>1. command'[q].at = command[q].at /\ command'[q].of = command[q].of
      BY Zenon DEF Turns
    <3>2. command[q].at \notin S
      BY <1>2, <3>1
    <3> QED BY <3>1, <3>2, Zenon DEF Turns
  <2>2. SyncFollows(q) /\ command[q].at \in Syncing
    BY <1>2, <2>1, Zenon DEF SyncsFollow
  <2>3. NotNewer(command[q].of, indexed')
    <3>1. command[q].of \in VersionMaps
      BY RecordIs
    <3> QED BY <2>2, <3>1, NotNewerStays DEF SyncFollows
  <2>4. (\E r \in Commands \ {q} : command'[r].at \in SyncWriting) => Others(q, SyncWriting)
    <3>1. \A r \in Commands \ {p} : command'[r].at = command[r].at
      BY Zenon DEF Turns
    <3> QED BY <3>1 DEF Others
  <2>5. contracts' = contracts /\ stamp' = stamp
    OBVIOUS
  <2> QED BY <2>1, <2>2, <2>3, <2>4, <2>5, Zenon DEF SyncFollows, Keeps, At
<1> QED BY <1>1, <1>2, SyncsSuffice, Zenon

\* A step of p that races the other syncs.
LEMMA SyncsRaced ==
  ASSUME GroupTypes, SyncsFollow, NEW p \in Commands, Turns(command', command, p, Syncing),
         indexed' = indexed, NotNewer(stamp', indexed'),
         command'[p].at \in Syncing => Keeps(command'[p], p, command'[p].at)
  PROVE  SyncsFollow'
<1>1. ASSUME NEW q \in Commands \ {p}, command'[q].at \in Syncing
      PROVE  Keeps(command'[q], q, command'[q].at)
  <2>1. command'[q].at = command[q].at /\ command'[q].of = command[q].of
    BY Zenon DEF Turns
  <2>2. command'[q].raced
    BY <1>1, <2>1, Zenon DEF Turns
  <2>3. NotNewer(command[q].of, indexed)
    BY <1>1, <2>1, Zenon DEF SyncsFollow, SyncFollows
  <2>4. NotNewer(command'[q].of, indexed')
    BY <2>1, <2>3
  <2> QED BY <2>2, <2>4, Zenon DEF Keeps
<1> QED BY <1>1, SyncsSuffice, Zenon

LEMMA StepsOfSync ==
  /\ {} \intersect Syncing = {} /\ Editing \intersect Syncing = {}
  /\ SyncWriting \subseteq Syncing /\ "none" \notin Syncing /\ {"loaded", "truncated"} \intersect Syncing = {}
  /\ {"grouped", "published", "matched"} \subseteq Syncing \ SyncWriting
BY DEF Syncing, Editing, SyncWriting

LEMMA SyncsFollowStep ==
  GroupTypes /\ CommandsHold /\ SyncsFollow /\ [GroupsNext]_groupVars => SyncsFollow'
<1> SUFFICES ASSUME GroupTypes, CommandsHold, SyncsFollow, [GroupsNext]_groupVars PROVE SyncsFollow'
  OBVIOUS
<1>1. CASE Serves
  <2>1. UNCHANGED <<contracts, stamp, indexed, command>>
    BY <1>1 DEF Serves, ServeCached, Serve, LoadCached, groupVars, syncVars
  <2> QED BY <2>1 DEF SyncsFollow, SyncFollows, NotNewer, At, Others
<1>2. ASSUME NEW p \in Commands, Acts(p) PROVE SyncsFollow'
  <2>1. ASSUME NEW S, Turns(command', command, p, S), S \intersect Syncing = {},
               command'[p].at \notin Syncing, UNCHANGED <<contracts, stamp, indexed>>
        PROVE  SyncsFollow'
    BY <2>1, SyncsRest, SameIndexed, StepsOfSync
  <2>2. CASE LoadGroups(p)
    <3>1. Turns(command', command, p, {}) /\ command'[p].at \notin Syncing
      BY <2>2, LoadGroupsDoes, StepsOfSync
    <3>2. UNCHANGED <<contracts, stamp, indexed>>
      BY <2>2 DEF LoadGroups, syncVars
    <3> QED BY <2>1, <3>1, <3>2, StepsOfSync
  <2>3. CASE TruncateGroups(p)
    <3>1. Turns(command', command, p, Editing) /\ command'[p].at \notin Syncing
      BY <2>3, TruncateGroupsDoes, StepsOfSync
    <3>2. UNCHANGED <<contracts, stamp, indexed>>
      BY <2>3 DEF TruncateGroups, syncVars
    <3> QED BY <2>1, <3>1, <3>2, StepsOfSync
  <2>4. CASE WriteGroups(p)
    <3>1. Turns(command', command, p, Editing) /\ command'[p].at \notin Syncing
      BY <2>4, WriteGroupsDoes, StepsOfSync
    <3>2. UNCHANGED <<contracts, stamp, indexed>>
      BY <2>4 DEF WriteGroups, syncVars
    <3> QED BY <2>1, <3>1, <3>2, StepsOfSync
  <2>5. CASE StopCommand(p)
    <3>1. Turns(command', command, p, {}) /\ command'[p].at \notin Syncing
      BY <2>5, StopCommandDoes, StepsOfSync
    <3>2. UNCHANGED <<contracts, stamp, indexed>>
      BY <2>5 DEF StopCommand, syncVars
    <3> QED BY <2>1, <3>1, <3>2, StepsOfSync
  <2>6. ASSUME Turns(command', command, p, {}), command'[p].at \in {"grouped", "published", "matched"},
               MoreIndexed, UNCHANGED <<contracts, stamp>>, NotNewer(command'[p].of, indexed'),
               ~command'[p].raced /\ command'[p].at # "grouped" => NotNewer(stamp, command'[p].of)
        PROVE  SyncsFollow'
    <3>1. command'[p].at \notin SyncWriting /\ command'[p].at \notin {"filling", "stamping"}
      BY <2>6 DEF SyncWriting
    <3>2. Keeps(command'[p], p, command'[p].at)
      BY <2>6, <3>1 DEF Keeps
    <3> QED BY <2>6, <3>1, <3>2, SyncsRest, StepsOfSync
  <2>7. CASE LoadToSync(p)
    <3>1. NotNewer(command'[p].of, indexed')
      BY <2>7, LoadToSyncDoes, NoVersionsIs DEF NotNewer
    <3>2. UNCHANGED <<contracts, stamp, indexed>>
      BY <2>7 DEF LoadToSync, syncVars
    <3> QED BY <2>6, <2>7, <3>1, <3>2, LoadToSyncDoes, SameIndexed
  <2>8. CASE LoadMembers(p)
    <3>1. UNCHANGED <<contracts, stamp, indexed>>
      BY <2>8 DEF LoadMembers, syncVars
    <3>2. PICK of : of = command'[p].of
      OBVIOUS
    <3>3. DOMAIN of \subseteq Members /\ \A m \in DOMAIN of : of[m] = indexed[m]
      BY <2>8, <3>2, LoadMembersDoes
    <3>4. \A m \in Members : indexed[m] \in Nat
      BY VersionAssumption DEF GroupTypes
    <3>5. NotNewer(of, indexed)
      BY <3>3, <3>4 DEF NotNewer
    <3>6. NotNewer(stamp, of)
      <4>1. DOMAIN indexed = Members /\ NotNewer(stamp, indexed)
        BY DEF GroupTypes, SyncsFollow
      <4> QED BY <3>3, <4>1 DEF NotNewer
    <3>7. NotNewer(command'[p].of, indexed') /\ NotNewer(stamp, command'[p].of)
      BY <3>1, <3>2, <3>5, <3>6
    <3> QED BY <2>6, <2>8, <3>1, <3>7, LoadMembersDoes, SameIndexed
  <2>9. CASE Publish(p)
    <3>1. UNCHANGED <<contracts, stamp>>
      BY <2>9 DEF Publish, syncVars
    <3>2. MoreIndexed
      BY <2>9, PublishDoes DEF MoreIndexed
    <3>3. NotNewer(indexed', indexed') /\ NotNewer(stamp, indexed')
      <4>1. \A m \in Members : indexed'[m] \in Nat
        BY <3>2, VersionAssumption DEF MoreIndexed
      <4>2. NotNewer(indexed', indexed')
        BY <4>1 DEF NotNewer
      <4> QED BY <3>2, <4>2, NotNewerStays DEF SyncsFollow, GroupTypes
    <3>4. NotNewer(command'[p].of, indexed') /\ NotNewer(stamp, command'[p].of)
      BY <2>9, <3>3, PublishDoes
    <3> QED BY <2>6, <2>9, <3>1, <3>2, <3>4, PublishDoes
  <2>10. CASE LoadAfterRun(p)
    <3>1. UNCHANGED <<contracts, stamp, indexed>>
      BY <2>10 DEF LoadAfterRun, syncVars
    <3>2. CASE command'[p].at = "none"
      BY <2>1, <2>10, <3>1, <3>2, LoadAfterRunDoes, StepsOfSync
    <3>3. CASE /\ command'[p].at = "matched" /\ (command'[p].raced <=> command[p].raced)
               /\ PartOf(command'[p].of, command[p].of)
      <4>1. command[p].at = "published" /\ SyncFollows(p)
        BY <2>10 DEF LoadAfterRun, At, SyncsFollow
      <4>2. NotNewer(command[p].of, indexed) /\ (~command[p].raced => NotNewer(stamp, command[p].of))
        BY <4>1 DEF SyncFollows, Syncing
      <4>3. NotNewer(command'[p].of, indexed')
        BY <3>1, <3>3, <4>2 DEF NotNewer, PartOf
      <4>4. ~command'[p].raced => NotNewer(stamp, command'[p].of)
        <5>1. NotNewer(stamp, command[p].of) => NotNewer(stamp, command'[p].of)
          BY <3>3 DEF NotNewer, PartOf
        <5> QED BY <3>3, <4>2, <5>1, Zenon
      <4>5. Turns(command', command, p, {})
        BY <2>10, LoadAfterRunDoes
      <4>6. MoreIndexed /\ command'[p].at \in {"grouped", "published", "matched"}
        BY <3>1, <3>3, SameIndexed
      <4> QED BY <2>6, <3>1, <4>3, <4>4, <4>5, <4>6
    <3> QED BY <2>10, <3>2, <3>3, LoadAfterRunDoes, Zenon
  <2>11. CASE TruncateContracts(p)
    <3>1. /\ command[p].at = "matched" /\ contracts' = File("torn", p, NoVersions)
          /\ stamp' = stamp /\ indexed' = indexed
      BY <2>11 DEF TruncateContracts, At
    <3>2. /\ Turns(command', command, p, Syncing) /\ command'[p].at = "filling"
          /\ command'[p].of = command[p].of
          /\ command'[p].raced <=> (command[p].raced \/ Others(p, SyncWriting))
      BY <2>11, TruncateContractsDoes
    <3>3. NotNewer(command[p].of, indexed) /\ (~command[p].raced => NotNewer(stamp, command[p].of))
      BY <3>1 DEF SyncsFollow, SyncFollows, Syncing
    <3>4. (\E q \in Commands \ {p} : command'[q].at \in SyncWriting) => Others(p, SyncWriting)
      BY <3>2, Zenon DEF Turns, Others
    <3>5. Keeps(command'[p], p, "filling")
      <4>1. NotNewer(command'[p].of, indexed')
        BY <3>1, <3>2, <3>3
      <4>2. ~command'[p].raced => NotNewer(stamp', command'[p].of)
        BY <3>1, <3>2, <3>3, Zenon
      <4>3. "filling" # "stamping"
        OBVIOUS
      <4> QED BY <3>1, <3>2, <3>4, <4>1, <4>2, <4>3, Zenon DEF Keeps
    <3>6. NotNewer(stamp', indexed')
      BY <3>1 DEF SyncsFollow
    <3> QED BY <3>1, <3>2, <3>5, <3>6, SyncsRaced
  <2>12. CASE WriteContracts(p)
    <3>1. /\ command[p].at = "filling" /\ contracts' \in Filled(contracts, p, command[p].of)
          /\ stamp' = stamp /\ indexed' = indexed
      BY <2>12, Zenon DEF WriteContracts, At
    <3>2. /\ Turns(command', command, p, {}) /\ command'[p].at = "stamping"
          /\ command'[p].of = command[p].of /\ (command'[p].raced <=> command[p].raced)
      BY <2>12, WriteContractsDoes, Zenon DEF SameBut
    <3>3. SyncFollows(p) /\ command[p].at \in Syncing /\ command[p].at \in SyncWriting
      BY <3>1 DEF SyncsFollow, Syncing, SyncWriting
    <3>4. \A q \in Commands \ {p} : command'[q].at = command[q].at
      BY <3>2, Zenon DEF Turns
    <3>5. Keeps(command'[p], p, "stamping")
      <4>1. NotNewer(command'[p].of, indexed')
        BY <3>1, <3>2, <3>3 DEF SyncFollows
      <4>2. ASSUME ~command'[p].raced
            PROVE  /\ NotNewer(stamp', command'[p].of)
                   /\ ~ \E q \in Commands \ {p} : command'[q].at \in SyncWriting
                   /\ contracts' = File("whole", Nobody, command'[p].of)
        <5>1. ~command[p].raced
          BY <3>2, <4>2, Zenon
        <5>2. /\ NotNewer(stamp, command[p].of) /\ ~Others(p, SyncWriting)
              /\ contracts = File("torn", p, NoVersions)
          BY <3>1, <3>3, <5>1 DEF SyncFollows, At
        <5>3. contracts \in GroupFiles \union ContractFiles
          BY DEF GroupTypes
        <5>4. contracts' = File("whole", Nobody, command[p].of)
          <6>1. contracts' \in Filled(contracts, p, command[p].of) /\ contracts = File("torn", p, NoVersions)
            BY <3>1, <5>2, Zenon
          <6> QED BY <5>3, <6>1, FilledIs, Zenon
        <5>5. ~ \E q \in Commands \ {p} : command'[q].at \in SyncWriting
          BY <3>4, <5>2 DEF Others
        <5>6. NotNewer(stamp', command'[p].of)
          BY <3>1, <3>2, <5>2
        <5> QED BY <3>2, <5>4, <5>5, <5>6, Zenon
      <4>3. "stamping" # "filling"
        OBVIOUS
      <4> QED BY <4>1, <4>2, <4>3, Zenon DEF Keeps
    <3>6. ASSUME NEW q \in Commands \ {p}, command'[q].at \in Syncing
          PROVE  Keeps(command'[q], q, command'[q].at)
      <4>1. /\ command'[q].at = command[q].at /\ command'[q].of = command[q].of
            /\ command'[q].raced <=> command[q].raced
        <5>1. command[q].at \notin {}
          OBVIOUS
        <5> QED BY <3>2, <5>1, Zenon DEF Turns
      <4>2. SyncFollows(q) /\ command[q].at \in Syncing
        BY <3>6, <4>1, Zenon DEF SyncsFollow
      <4>3. Others(q, SyncWriting)
        BY <3>3 DEF Others
      <4>4. ~command[q].raced => command[q].at \notin SyncWriting
        BY <4>2, <4>3 DEF SyncFollows
      <4>5. ~command[q].raced => command[q].at # "filling" /\ command[q].at # "stamping"
        BY <4>4 DEF SyncWriting
      <4>6. NotNewer(command'[q].of, indexed')
        BY <3>1, <4>1, <4>2 DEF SyncFollows
      <4> QED BY <3>1, <4>1, <4>2, <4>4, <4>5, <4>6, Zenon DEF SyncFollows, Keeps
    <3>7. NotNewer(stamp', indexed')
      BY <3>1 DEF SyncsFollow
    <3>8. Keeps(command'[p], p, command'[p].at)
      BY <3>2, <3>5, Zenon
    <3> QED BY <3>6, <3>7, <3>8, SyncsSuffice, Zenon
  <2>13. CASE SaveStamp(p)
    <3>1. command[p].at = "stamping" /\ stamp' = command[p].of /\ indexed' = indexed
      BY <2>13 DEF SaveStamp, At
    <3>2. Turns(command', command, p, Syncing) /\ command'[p].at \notin Syncing
      BY <2>13, SaveStampDoes, StepsOfSync
    <3>3. NotNewer(stamp', indexed')
      BY <3>1 DEF SyncsFollow, SyncFollows, Syncing
    <3> QED BY <3>1, <3>2, <3>3, SyncsRaced
  <2> QED BY <1>2, <2>2, <2>3, <2>4, <2>5, <2>7, <2>8, <2>9, <2>10, <2>11, <2>12, <2>13, Zenon DEF Acts
<1> QED BY <1>1, <1>2, StepIs, Zenon

-----------------------------------------------------------------------------
(* Contracts *)

LEMMA ContractsRest ==
  ASSUME GroupTypes, ContractsFollow, NEW p \in Commands, NEW S, Turns(command', command, p, S),
         command[p].at \notin SyncWriting, UNCHANGED <<contracts, stamp>>, MoreIndexed,
         "sync" \in mishaps => "sync" \in mishaps'
  PROVE  ContractsFollow'
<1> SUFFICES ASSUME "sync" \notin mishaps', stamp # NoStamp,
                    \A q \in Commands : command'[q].at \notin SyncWriting
             PROVE  /\ contracts.is = "whole" /\ DOMAIN stamp \subseteq DOMAIN contracts.of
                    /\ NotNewer(stamp, contracts.of) /\ NotNewer(contracts.of, indexed')
  BY Zenon DEF ContractsFollow
<1>1. \A q \in Commands : command[q].at \notin SyncWriting
  BY Zenon DEF Turns
<1>2. /\ contracts.is = "whole" /\ DOMAIN stamp \subseteq DOMAIN contracts.of
      /\ NotNewer(stamp, contracts.of) /\ NotNewer(contracts.of, indexed)
  BY <1>1, Zenon DEF ContractsFollow
<1>3. contracts.of \in VersionMaps
  BY DEF GroupTypes, ContractFiles
<1> QED BY <1>2, <1>3, NotNewerStays

LEMMA ContractsWritten ==
  ASSUME NEW p \in Commands, command'[p].at \in SyncWriting
  PROVE  ContractsFollow'
BY DEF ContractsFollow

LEMMA WholeFileIs == ASSUME NEW f PROVE File("whole", Nobody, f).is = "whole" /\ File("whole", Nobody, f).of = f
BY DEF File

LEMMA ContractsFollowStep ==
  GroupTypes /\ CommandsHold /\ SyncsFollow /\ ContractsFollow /\ [GroupsNext]_groupVars => ContractsFollow'
<1> SUFFICES ASSUME GroupTypes, CommandsHold, SyncsFollow, ContractsFollow, [GroupsNext]_groupVars
             PROVE  ContractsFollow'
  OBVIOUS
<1>1. CASE Serves
  <2>1. UNCHANGED <<contracts, stamp, indexed, command, mishaps>>
    BY <1>1 DEF Serves, ServeCached, Serve, LoadCached, groupVars, syncVars
  <2> QED BY <2>1 DEF ContractsFollow, NotNewer
<1>2. ASSUME NEW p \in Commands, Acts(p) PROVE ContractsFollow'
  <2>1. PICK S : Turns(command', command, p, S)
    BY <1>2, CommandTurns, Zenon
  <2>2. ASSUME command[p].at \notin SyncWriting, UNCHANGED <<contracts, stamp>>, MoreIndexed,
               "sync" \in mishaps => "sync" \in mishaps'
        PROVE  ContractsFollow'
    BY <2>1, <2>2, ContractsRest, Zenon
  <2>3. ASSUME UNCHANGED <<contracts, stamp, indexed, mishaps>>,
               command[p].at \in {"none", "loaded", "truncated", "grouped", "published"}
        PROVE  ContractsFollow'
    BY <2>2, <2>3, SameIndexed DEF SyncWriting
  <2>4. CASE LoadGroups(p)
    BY <2>3, <2>4 DEF LoadGroups, Starts, At, syncVars
  <2>5. CASE TruncateGroups(p)
    <3>1. UNCHANGED <<contracts, stamp, indexed>> /\ command[p].at = "loaded"
      BY <2>5 DEF TruncateGroups, At, syncVars
    <3>2. "sync" \in mishaps => "sync" \in mishaps'
      BY <2>5 DEF TruncateGroups
    <3> QED BY <2>2, <3>1, <3>2, SameIndexed DEF SyncWriting
  <2>6. CASE WriteGroups(p)
    <3>1. UNCHANGED <<contracts, stamp, indexed>> /\ command[p].at = "truncated"
      BY <2>6 DEF WriteGroups, At, syncVars
    <3>2. "sync" \in mishaps => "sync" \in mishaps'
      BY <2>6 DEF WriteGroups
    <3> QED BY <2>2, <3>1, <3>2, SameIndexed DEF SyncWriting
  <2>7. CASE LoadToSync(p)
    BY <2>3, <2>7 DEF LoadToSync, Starts, At, syncVars
  <2>8. CASE LoadMembers(p)
    BY <2>3, <2>8 DEF LoadMembers, At, syncVars
  <2>9. CASE Publish(p)
    <3>1. UNCHANGED <<contracts, stamp, mishaps>> /\ command[p].at = "none"
      BY <2>9 DEF Publish, Starts, At, syncVars
    <3>2. MoreIndexed
      BY <2>9, PublishDoes DEF MoreIndexed
    <3> QED BY <2>2, <3>1, <3>2 DEF SyncWriting
  <2>10. CASE LoadAfterRun(p)
    BY <2>3, <2>10 DEF LoadAfterRun, At, syncVars
  <2>11. CASE TruncateContracts(p)
    BY <2>11, TruncateContractsDoes, ContractsWritten DEF SyncWriting
  <2>12. CASE WriteContracts(p)
    BY <2>12, WriteContractsDoes, ContractsWritten DEF SyncWriting
  <2>13. ASSUME command[p].at = "stamping", ~command[p].raced
         PROVE  contracts = File("whole", Nobody, command[p].of) /\ NotNewer(stamp, command[p].of)
    BY <2>13 DEF SyncsFollow, SyncFollows, Syncing, At
  <2>14. command[p].at \in Syncing => NotNewer(command[p].of, indexed)
    BY DEF SyncsFollow, SyncFollows
  <2>15. CASE SaveStamp(p)
    <3> SUFFICES ASSUME "sync" \notin mishaps' PROVE ContractsFollow'
      BY DEF ContractsFollow
    <3>1. /\ command[p].at = "stamping" /\ stamp' = command[p].of
          /\ indexed' = indexed /\ contracts' = contracts
      BY <2>15 DEF SaveStamp, At
    <3>2. ~command[p].raced
      BY <2>15, Zenon DEF SaveStamp
    <3>3. contracts = File("whole", Nobody, command[p].of)
      BY <2>13, <3>1, <3>2
    <3>4. contracts.is = "whole" /\ contracts.of = command[p].of
      BY <3>3, WholeFileIs
    <3>5. NotNewer(contracts.of, indexed)
      BY <2>14, <3>1, <3>4 DEF Syncing
    <3>6. PICK f \in VersionMaps : f = command[p].of
      BY RecordIs
    <3>7. NotNewer(f, f)
      BY <3>6, MapIs DEF NotNewer
    <3>8. /\ contracts'.is = "whole" /\ DOMAIN stamp' \subseteq DOMAIN contracts'.of
          /\ NotNewer(stamp', contracts'.of) /\ NotNewer(contracts'.of, indexed')
      BY <3>1, <3>4, <3>5, <3>6, <3>7
    <3> QED BY <3>8 DEF ContractsFollow, NotNewer
  <2>16. CASE StopCommand(p)
    <3>1. UNCHANGED <<contracts, stamp, indexed>>
      BY <2>16 DEF StopCommand, syncVars
    <3>2. "sync" \in mishaps => "sync" \in mishaps'
      BY <2>16 DEF StopCommand
    <3>3. CASE command[p].at \notin SyncWriting
      BY <2>2, <3>1, <3>2, <3>3, SameIndexed
    <3>4. CASE command[p].at \in SyncWriting
      <4> SUFFICES ASSUME "sync" \notin mishaps', stamp # NoStamp PROVE ContractsFollow'
        BY <3>1 DEF ContractsFollow
      <4>1. command[p].at = "stamping" /\ ~(command[p].raced \/ LeavesOut(p))
        <5>1. "sync" \in {m \in {"sync"} :
                           At(p, "filling") \/ (At(p, "stamping") /\ (command[p].raced \/ LeavesOut(p)))}
              => "sync" \in mishaps'
          BY <2>16, Zenon DEF StopCommand
        <5> QED BY <3>4, <5>1 DEF SyncWriting, At
      <4>2. ~command[p].raced /\ DOMAIN stamp \subseteq DOMAIN command[p].of
        BY <4>1, Zenon DEF LeavesOut
      <4>3. contracts = File("whole", Nobody, command[p].of) /\ NotNewer(stamp, command[p].of)
        BY <2>13, <4>1, <4>2
      <4>4. contracts.is = "whole" /\ contracts.of = command[p].of
        BY <4>3, WholeFileIs
      <4>5. NotNewer(contracts.of, indexed) /\ NotNewer(stamp, contracts.of) /\ DOMAIN stamp \subseteq DOMAIN contracts.of
        BY <2>14, <4>1, <4>2, <4>3, <4>4 DEF Syncing
      <4> QED BY <3>1, <4>4, <4>5 DEF ContractsFollow, NotNewer
    <3> QED BY <3>3, <3>4
  <2> QED BY <1>2, <2>4, <2>5, <2>6, <2>7, <2>8, <2>9, <2>10, <2>11, <2>12, <2>15, <2>16, Zenon DEF Acts
<1> QED BY <1>1, <1>2, StepIs, Zenon

-----------------------------------------------------------------------------
(* Groups *)

LEMMA GroupsInitInd == GroupsInit => GroupsInd
<1> SUFFICES ASSUME GroupsInit PROVE GroupsInd
  OBVIOUS
<1>1. PICK g \in GroupSet : groups = File("whole", Nobody, g)
  BY DEF GroupsInit, GroupSet
<1>2. groups \in GroupFiles /\ groups.is = "whole" /\ groups.of = g
  BY <1>1 DEF File, GroupFiles
<1>3. contracts \in ContractFiles
  BY NoVersionsIs DEF GroupsInit, File, ContractFiles
<1>4. command \in [Commands -> CommandRecords] /\ \A p \in Commands : command[p].at = "none"
  BY NoCommandIs DEF GroupsInit
<1>5. indexed \in [Members -> 0 .. MaxVersion]
  BY VersionAssumption DEF GroupsInit
<1>6. /\ cached.mtime = 0 /\ cached.group = groups.of /\ seen = -1 /\ mtime = 0
      /\ stamp = NoStamp /\ mishaps = {} /\ saved = groups.of
  BY DEF GroupsInit
<1>7. GroupTypes
  BY <1>2, <1>3, <1>4, <1>5, <1>6 DEF GroupTypes
<1>8. CommandsHold
  BY <1>4 DEF CommandsHold, Editing, At
<1>9. SnapshotsPast
  BY <1>2, <1>6 DEF SnapshotsPast, CacheFresh, Load
<1>10. EditsFollow
  BY <1>2, <1>4, <1>6 DEF EditsFollow, Editing, At
<1>11. SyncsFollow
  <2>1. NotNewer(stamp, indexed)
    <3>1. \A m \in Members : indexed[m] \in Nat
      BY <1>5, VersionAssumption
    <3> QED BY <1>6, <3>1 DEF NotNewer, NoStamp
  <2>2. \A p \in Commands : command[p].at \notin Syncing
    BY <1>4 DEF Syncing
  <2> QED BY <2>1, <2>2 DEF SyncsFollow, SyncFollows
<1>12. ContractsFollow
  BY <1>6 DEF ContractsFollow
<1> QED BY <1>7, <1>8, <1>9, <1>10, <1>11, <1>12 DEF GroupsInd

LEMMA GroupsNextInd == GroupsInd /\ [GroupsNext]_groupVars => GroupsInd'
<1> SUFFICES ASSUME GroupsInd, [GroupsNext]_groupVars PROVE GroupsInd'
  OBVIOUS
<1>1. GroupTypes /\ CommandsHold /\ SnapshotsPast /\ EditsFollow /\ SyncsFollow /\ ContractsFollow
  BY DEF GroupsInd
<1>2. GroupTypes' /\ CommandsHold' /\ SnapshotsPast'
  BY <1>1, GroupTypesStep, CommandsHoldStep, SnapshotsPastStep, Zenon
<1>3. EditsFollow' /\ SyncsFollow' /\ ContractsFollow'
  BY <1>1, EditsFollowStep, SyncsFollowStep, ContractsFollowStep, Zenon
<1> QED BY <1>2, <1>3, Zenon DEF GroupsInd

LEMMA GroupsIndIs == GroupsInd => GroupsInv
<1> SUFFICES ASSUME GroupsInd PROVE GroupsInv
  OBVIOUS
<1>1. GroupTypes /\ SnapshotsPast /\ EditsFollow /\ ContractsFollow
  BY DEF GroupsInd
<1>2. GroupsTypeOK
  <2>1. contracts.of \in VersionMaps /\ contracts.is \in {"none", "whole", "torn"}
    BY <1>1 DEF GroupTypes, ContractFiles
  <2>2. DOMAIN contracts.of \subseteq Members /\ (stamp = NoStamp \/ DOMAIN stamp \subseteq Members)
    BY <1>1, <2>1, MapIs DEF GroupTypes
  <2>3. groups.is \in {"whole", "torn"} /\ groups.of \in {NoGroup} \union SUBSET Members
    BY <1>1 DEF GroupTypes, GroupFiles, GroupSet
  <2> QED BY <1>1, <2>1, <2>2, <2>3 DEF GroupsTypeOK, GroupTypes
<1>3. ChangesKept
  BY <1>1 DEF ChangesKept, EditsFollow, Unmixed
<1>4. FreshContractsAreRight
  <2> SUFFICES ASSUME Load # NoGroup, ~Stale, stamp # NoStamp, "sync" \notin mishaps,
                      \A p \in Commands : command[p].at \notin SyncWriting
               PROVE  /\ contracts.is = "whole"
                      /\ \A m \in Load : m \in DOMAIN contracts.of /\ contracts.of[m] = indexed[m]
    BY Zenon DEF FreshContractsAreRight, SyncWriting
  <2>1. /\ contracts.is = "whole" /\ DOMAIN stamp \subseteq DOMAIN contracts.of
        /\ NotNewer(stamp, contracts.of) /\ NotNewer(contracts.of, indexed)
    BY <1>1 DEF ContractsFollow
  <2>2. ASSUME NEW m \in Load PROVE m \in DOMAIN contracts.of /\ contracts.of[m] = indexed[m]
    <3>1. m \in Members
      BY <1>1, LoadIs DEF GroupTypes, GroupSet
    <3>2. m \in DOMAIN stamp /\ stamp[m] = indexed[m]
      BY <2>2 DEF Stale
    <3>3. m \in DOMAIN contracts.of /\ indexed[m] <= contracts.of[m]
      BY <2>1, <3>1, <3>2 DEF NotNewer
    <3>4. contracts.of[m] <= indexed[m] /\ indexed[m] \in Nat
      BY <1>1, <2>1, <3>1, <3>3, VersionAssumption DEF NotNewer, GroupTypes
    <3>5. contracts.of[m] \in Nat
      <4>1. contracts.of \in VersionMaps
        BY <1>1 DEF GroupTypes, ContractFiles
      <4> QED BY <3>3, <4>1, MapIs
    <3> QED BY <3>3, <3>4, <3>5
  <2> QED BY <2>1, <2>2
<1> QED BY <1>1, <1>2, <1>3, <1>4 DEF GroupsInv, SnapshotsPast

\* Groups keep their acknowledged changes, are not hidden by a cached snapshot,
\* and have the contracts of their members' registered versions when their stamp
\* says so, whatever commands overlap, fail and die in (group_sync.rs,
\* cih-core/src/group.rs).
THEOREM GroupsCorrect == GroupsSpec => []GroupsInv
<1>1. GroupsSpec => []GroupsInd
  BY GroupsInitInd, GroupsNextInd, PTL DEF GroupsSpec
<1> QED BY <1>1, GroupsIndIs, PTL
=============================================================================
