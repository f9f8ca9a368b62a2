---------------------------- MODULE GroupRegistry ----------------------------
(***************************************************************************)
(* Repository groups (cih-core/src/group.rs, cih-engine/src/group_sync.rs, *)
(* cih-engine/src/cmd/group.rs).  groups.json is loaded, changed and saved *)
(* in place, without a lock; a server caches it under its mtime.  A sync   *)
(* matches the contracts of a group's members from their artifacts, writes *)
(* contracts.jsonl in place and then its stamp, sync-state.json, by which  *)
(* readers tell whether the contracts are stale.  `group sync` runs one,   *)
(* and so does every analyze or discover once it has registered its        *)
(* version.  Commands are processes; they overlap, fail and die.           *)
(*                                                                         *)
(* Groups share nothing but the file that holds them, so this is one: the  *)
(* set of its members, or NoGroup.  Contracts are the registered versions  *)
(* (indexed_at) of the members they come from; 0 is not registered.        *)
(***************************************************************************)
EXTENDS Integers, FiniteSets

CONSTANTS
  Members,      \* repositories that may be in the group
  NoGroup,
  Commands,     \* processes
  Nobody,
  MaxCommands,  \* how many commands are run
  MaxVersion,   \* how often a repository is analyzed
  CoarseTime    \* two writes may leave one mtime

ASSUME VersionAssumption == MaxVersion \in Nat \ {0} /\ MaxCommands \in Nat

VARIABLES
  groups,      \* groups.json: the group, or torn and by whom
  mtime,       \* its mtime: how often it changed
  indexed,     \* the repository registry: the version of every repository
  contracts,   \* contracts.jsonl: missing, torn and by whom, or whole and of what
  stamp,       \* sync-state.json: the versions of the last sync
  command,     \* what each process does
  cached,      \* the server's snapshot of groups.json
  seen,        \* the mtime under which a server thread loads one, or none
  started,     \* how many commands began
  saved,       \* history: the group all saves that ended have made
  mishaps      \* history: what the files have suffered and not recovered from

fileVars == <<groups, mtime, saved>>
syncVars == <<contracts, stamp>>
serverVars == <<cached, seen>>
groupVars == <<fileVars, syncVars, serverVars, indexed, command, started, mishaps>>

NoVersions == [m \in {} |-> 0]
NoStamp == [m \in {Nobody} |-> 0]
NoCommand == [at |-> "none", op |-> "none", member |-> Nobody, group |-> NoGroup, of |-> NoVersions, raced |-> FALSE]
File(is, by, of) == [is |-> is, by |-> by, of |-> of]

GroupsInit ==
  /\ groups \in {File("whole", Nobody, g) : g \in {NoGroup} \union SUBSET Members}
  /\ mtime = 0 /\ saved = groups.of
  /\ indexed \in [Members -> {0, 1}]
  /\ contracts = File("none", Nobody, NoVersions) /\ stamp = NoStamp
  /\ command = [p \in Commands |-> NoCommand] /\ started = 0
  /\ cached = [mtime |-> 0, group |-> groups.of] /\ seen = -1
  /\ mishaps = {}

At(p, at) == command[p].at = at
Others(p, S) == \E q \in Commands \ {p} : command[q].at \in S
Starts(p) == At(p, "none") /\ started < MaxCommands /\ started' = started + 1

\* GroupRegistry::load: what is missing or does not parse is no group.
Load == IF groups.is = "whole" THEN groups.of ELSE NoGroup

\* Writing in place over what another process wrote since one truncated the
\* file may leave a tail.
Filled(file, p, of) ==
  {File("whole", Nobody, of)} \union
    (IF file = [file EXCEPT !.is = "torn", !.by = p] THEN {} ELSE {[file EXCEPT !.is = "torn", !.by = Nobody]})

-----------------------------------------------------------------------------
(* create, add, remove: load, change, save *)

Edit(op, m, g) ==
  IF g = NoGroup THEN IF op = "create" THEN {} ELSE NoGroup
  ELSE CASE op = "create" -> g
         [] op = "add" -> g \union {m}
         [] op = "remove" -> g \ {m}

\* Only a registered repository is added; create of a group that is there and
\* changes of one that is not save nothing.
Saves(op, m) ==
  \/ op = "create" /\ Load = NoGroup
  \/ op = "add" /\ Load # NoGroup /\ indexed[m] > 0
  \/ op = "remove" /\ Load # NoGroup

LoadGroups(p) ==
  /\ Starts(p)
  /\ \E op \in {"create", "add", "remove"}, m \in Members :
       /\ Saves(op, m)
       /\ command' = [command EXCEPT ![p] =
            [NoCommand EXCEPT !.at = "loaded", !.op = op, !.member = m, !.group = Edit(op, m, Load),
                              !.raced = Others(p, {"truncated"})]]
  /\ UNCHANGED <<fileVars, syncVars, serverVars, indexed, mishaps>>

\* The commands that have loaded what p now changes.
Raced(p, c) ==
  [q \in Commands |-> IF q # p /\ c[q].at \in {"loaded", "truncated"} THEN [c[q] EXCEPT !.raced = TRUE] ELSE c[q]]

\* fs::write truncates the file and fills it.
TruncateGroups(p) ==
  /\ At(p, "loaded")
  /\ groups' = File("torn", p, NoGroup)
  /\ mtime' = mtime + 1
  /\ command' = Raced(p, [command EXCEPT ![p].at = "truncated"])
  /\ mishaps' = mishaps \ {"tick"}
  /\ UNCHANGED <<saved, syncVars, serverVars, indexed, started>>

WriteGroups(p) ==
  /\ At(p, "truncated")
  /\ groups' \in Filled(groups, p, command[p].group)
  /\ mtime' \in IF CoarseTime THEN {mtime, mtime + 1} ELSE {mtime + 1}
  /\ saved' = Edit(command[p].op, command[p].member, saved)
  /\ command' = Raced(p, [command EXCEPT ![p] = NoCommand])
  /\ mishaps' = (mishaps \ {"tick"}) \union {m \in {"overlap"} : command[p].raced}
                  \union {m \in {"tick"} : mtime' = mtime}
  /\ UNCHANGED <<syncVars, serverVars, indexed, started>>

-----------------------------------------------------------------------------
(* A server thread: load_cached *)

ServeCached ==
  /\ seen = -1 /\ cached.mtime = mtime
  /\ UNCHANGED groupVars

Serve ==
  /\ seen = -1 /\ cached.mtime # mtime
  /\ seen' = mtime
  /\ UNCHANGED <<fileVars, syncVars, cached, indexed, command, started, mishaps>>

LoadCached ==
  /\ seen # -1
  /\ cached' = [mtime |-> seen, group |-> Load]
  /\ seen' = -1
  /\ UNCHANGED <<fileVars, syncVars, indexed, command, started, mishaps>>

-----------------------------------------------------------------------------
(* A sync, of its own or after a run *)

Versions(g) == [m \in g |-> indexed[m]]

\* `group sync` loads the group first and the registry then ...
LoadToSync(p) ==
  /\ Starts(p)
  /\ Load # NoGroup
  /\ command' = [command EXCEPT ![p] = [NoCommand EXCEPT !.at = "grouped", !.group = Load]]
  /\ UNCHANGED <<fileVars, syncVars, serverVars, indexed, mishaps>>

\* ... and gives up if a member is not registered.
LoadMembers(p) ==
  /\ At(p, "grouped")
  /\ \A m \in command[p].group : indexed[m] > 0
  /\ command' = [command EXCEPT ![p].at = "matched", ![p].of = Versions(command[p].group)]
  /\ UNCHANGED <<fileVars, syncVars, serverVars, indexed, started, mishaps>>

\* A run registers its version and goes on with the registry it saved; it syncs
\* the group if the repository is in it and every member is registered.
Publish(p) ==
  /\ Starts(p)
  /\ \E m \in Members :
       /\ indexed[m] < MaxVersion
       /\ indexed' = [indexed EXCEPT ![m] = @ + 1]
       /\ command' = [command EXCEPT ![p] =
            [NoCommand EXCEPT !.at = "published", !.member = m, !.of = indexed']]
  /\ UNCHANGED <<fileVars, syncVars, serverVars, mishaps>>

LoadAfterRun(p) ==
  LET c == command[p]
      syncs == Load # NoGroup /\ c.member \in Load /\ \A m \in Load : c.of[m] > 0
  IN  /\ At(p, "published")
      /\ command' = [command EXCEPT ![p] =
           IF syncs THEN [c EXCEPT !.at = "matched", !.of = [m \in Load |-> c.of[m]]] ELSE NoCommand]
      /\ UNCHANGED <<fileVars, syncVars, serverVars, indexed, started, mishaps>>

\* The syncs that have loaded what p has loaded, or less, before p writes.
Syncing == {"grouped", "published", "matched", "filling", "stamping"}
Overtaken(p, c) == [q \in Commands |-> IF q # p /\ c[q].at \in Syncing THEN [c[q] EXCEPT !.raced = TRUE] ELSE c[q]]

\* write_jsonl creates the file anew and fills it.
TruncateContracts(p) ==
  /\ At(p, "matched")
  /\ contracts' = File("torn", p, NoVersions)
  /\ command' = Overtaken(p, [command EXCEPT ![p].at = "filling",
                                            ![p].raced = @ \/ Others(p, {"filling", "stamping"})])
  /\ UNCHANGED <<fileVars, stamp, serverVars, indexed, started, mishaps>>

WriteContracts(p) ==
  /\ At(p, "filling")
  /\ contracts' \in Filled(contracts, p, command[p].of)
  /\ command' = [command EXCEPT ![p].at = "stamping"]
  /\ UNCHANGED <<fileVars, stamp, serverVars, indexed, started, mishaps>>

\* Mutant: the stamp is made of the versions registered when it is saved.
SaveStampOfNow(p) ==
  /\ At(p, "stamping")
  /\ stamp' = [m \in DOMAIN command[p].of |-> indexed[m]]
  /\ command' = Overtaken(p, [command EXCEPT ![p] = NoCommand])
  /\ mishaps' = IF command[p].raced THEN mishaps \union {"sync"} ELSE mishaps \ {"sync"}
  /\ UNCHANGED <<fileVars, contracts, serverVars, indexed, started>>
\* The stamp is renamed into place.  A sync that nothing raced makes good what
\* the ones before it have done.
SaveStamp(p) ==
  /\ At(p, "stamping")
  /\ stamp' = command[p].of
  /\ command' = Overtaken(p, [command EXCEPT ![p] = NoCommand])
  /\ mishaps' = IF command[p].raced THEN mishaps \union {"sync"} ELSE mishaps \ {"sync"}
  /\ UNCHANGED <<fileVars, contracts, serverVars, indexed, started>>

\* The contracts p has written leave out a member that the stamp still covers.
LeavesOut(p) == stamp # NoStamp /\ ~(DOMAIN stamp \subseteq DOMAIN command[p].of)

\* A command fails or dies.
StopCommand(p) ==
  /\ ~At(p, "none")
  /\ command' = [command EXCEPT ![p] = NoCommand]
  /\ mishaps' = mishaps \union {m \in {"cut"} : At(p, "truncated")} \union
       {m \in {"sync"} : At(p, "filling") \/ (At(p, "stamping") /\ (command[p].raced \/ LeavesOut(p)))}
  /\ UNCHANGED <<fileVars, syncVars, serverVars, indexed, started>>

GroupsNext ==
  \/ \E p \in Commands :
       \/ LoadGroups(p) \/ TruncateGroups(p) \/ WriteGroups(p)
       \/ LoadToSync(p) \/ LoadMembers(p) \/ Publish(p) \/ LoadAfterRun(p)
       \/ TruncateContracts(p) \/ WriteContracts(p) \/ SaveStamp(p)
       \/ StopCommand(p)
  \/ ServeCached \/ Serve \/ LoadCached

GroupsSpec == GroupsInit /\ [][GroupsNext]_groupVars

-----------------------------------------------------------------------------
(* Properties *)

GroupsTypeOK ==
  /\ groups.is \in {"whole", "torn"} /\ groups.of \in {NoGroup} \union SUBSET Members
  /\ indexed \in [Members -> 0 .. MaxVersion]
  /\ contracts.is \in {"none", "whole", "torn"} /\ DOMAIN contracts.of \subseteq Members
  /\ stamp = NoStamp \/ DOMAIN stamp \subseteq Members
  /\ mishaps \subseteq {"overlap", "cut", "tick", "sync"}

\* No acknowledged change of a group is lost, and the file is only ever torn
\* while it is written: unless a command wrote what it had loaded before another
\* one wrote, or died while it wrote.
ChangesKept ==
  {"overlap", "cut"} \intersect mishaps = {} /\ (\A p \in Commands : ~At(p, "truncated")) =>
    groups.is = "whole" /\ groups.of = saved

\* "Any save bumps the mtime, so cached readers pick up writes": where no two
\* writes share one mtime, a snapshot found under the present mtime is what the
\* file holds, though it is loaded after its mtime was read and the file is
\* empty in between.
CacheFresh ==
  "tick" \notin mishaps /\ cached.mtime = mtime => cached.group = Load

\* group_contracts_stale: a group that was never synced is not stale.
Stale ==
  \/ \E m \in Load : indexed[m] = 0
  \/ stamp = NoStamp /\ contracts.is # "none"
  \/ stamp # NoStamp /\ \E m \in Load : m \notin DOMAIN stamp \/ stamp[m] # indexed[m]

\* Contracts that are not called stale come from the registered version of every
\* member, whatever was published, added, removed and left half-done, unless a
\* sync is at work, or the last one was raced by another, died as it wrote the
\* contracts, or died after it and left out a member that was in the group, is
\* covered by the old stamp and may come back.
FreshContractsAreRight ==
  /\ Load # NoGroup /\ ~Stale /\ stamp # NoStamp
  /\ "sync" \notin mishaps
  /\ \A p \in Commands : command[p].at \notin {"filling", "stamping"}
  => /\ contracts.is = "whole"
     /\ \A m \in Load : m \in DOMAIN contracts.of /\ contracts.of[m] = indexed[m]

GroupsInv == GroupsTypeOK /\ ChangesKept /\ CacheFresh /\ FreshContractsAreRight
=============================================================================
