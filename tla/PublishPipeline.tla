---------------------------- MODULE PublishPipeline ----------------------------
(***************************************************************************)
(* Engine runs over one repository (cih-engine): `analyze` emits a version *)
(* of the artifacts, publishes a graph made of it, registers the           *)
(* publication and prunes the other versions; `discover` publishes the     *)
(* newest version with an overlay and registers.  A server request takes   *)
(* its graph from the authoritative pointer and its search corpus from the *)
(* artifacts directory.                                                    *)
(*                                                                         *)
(* Publication is the component PublicationPort, whose actions the runs    *)
(* take.  A version is the content of .cih/artifacts/<version>; versions   *)
(* are numbered in the order they are first emitted.  Overlay and parse    *)
(* directories are pruned in the same way and left out.                    *)
(***************************************************************************)
EXTENDS PublicationPort, FiniteSets

CONSTANTS
  Readers,      \* server requests
  MaxVersions   \* versions ever emitted

ASSUME BoundAssumption == MaxVersions \in Nat

VARIABLES
  present,   \* version directories
  newest,    \* the one whose nodes were written last, 0 when there is none
  partial,   \* directories whose files are not completely written
  emitted,   \* how many versions have been emitted
  hashed,    \* TRUE once the hashes of a complete emission are on record
  content,   \* base version that was loaded into the graph of each epoch
  truncated, \* epochs whose graph was loaded from a partial directory
  registry,  \* the entry of the repository: [artifacts_dir, latest, epoch]
  run,       \* [step, kind, base] of each publisher
  request,   \* [step, epoch, corpus] of each reader
  mishaps    \* history: what has happened so far that properties depend on

disk   == <<present, newest, partial, emitted, hashed>>
graphs == <<content, truncated>>
vars   == <<portVars, disk, graphs, registry, run, request, mishaps>>

Versions    == 1..MaxVersions
IdleRun     == [step |-> "idle", kind |-> "analyze", base |-> 0]
NoRequest   == [step |-> "none", epoch |-> None, corpus |-> 0]

TypeOK ==
  /\ PortTypeOK
  /\ present \subseteq Versions
  /\ IF present = {} THEN newest = 0 ELSE newest \in present
  /\ partial \subseteq Versions /\ emitted \in 0..MaxVersions /\ hashed \in BOOLEAN
  /\ content \in [Epochs -> 0..MaxVersions] /\ truncated \subseteq Epochs
  /\ registry \in [artifacts_dir : 0..MaxVersions, latest : 0..MaxVersions,
                   epoch : EpochOrNone]
  /\ run \in [Publishers ->
                [step : {"idle", "emitting", "emitted", "publishing",
                         "registered"},
                 kind : {"analyze", "discover"}, base : 0..MaxVersions]]
  /\ request \in [Readers -> [step : {"none", "graph", "done"},
                              epoch : EpochOrNone, corpus : 0..MaxVersions]]
  /\ mishaps \subseteq {"overlap", "unpublished", "death"}

\* Nothing was ever analyzed: no artifacts, no registry entry.
Init ==
  /\ PortInit
  /\ present = {} /\ newest = 0 /\ partial = {} /\ emitted = 0 /\ hashed = FALSE
  /\ content = [e \in Epochs |-> 0] /\ truncated = {}
  /\ registry = [artifacts_dir |-> 0, latest |-> 0, epoch |-> None]
  /\ run = [p \in Publishers |-> IdleRun]
  /\ request = [r \in Readers |-> NoRequest]
  /\ mishaps = {}

OnDisk(v)   == v \in present
LatestFound == present # {}   \* latest_in_dir: the newest version wins

At(p, step) == run[p].step = step
Go(p, step) == run' = [run EXCEPT ![p].step = step]

\* A scheduler keeps the runs of one server apart; a command line beside it
\* may start one while another is under way.
Start(p, kind, step, base) ==
  /\ At(p, "idle")
  /\ run' = [run EXCEPT ![p] = [step |-> step, kind |-> kind, base |-> base]]
  /\ mishaps' = IF \A q \in Publishers : At(q, "idle") THEN mishaps
                ELSE mishaps \union {"overlap"}

\* The run ends, well or with a mishap.
End(p, how) ==
  /\ run' = [run EXCEPT ![p] = IdleRun]
  /\ mishaps' = mishaps \union how

-----------------------------------------------------------------------------
(* Emission                                                                *)

\* GraphArtifacts::write creates the files in place, also when the content,
\* hence the directory, is one that exists.
StartAnalyze(p) ==
  /\ \E v \in present \union ({emitted + 1} \cap Versions) :
       /\ present' = present \union {v} /\ newest' = v
       /\ partial' = partial \union {v}
       /\ emitted' = IF v > emitted THEN v ELSE emitted
       /\ Start(p, "analyze", "emitting", v)
  /\ UNCHANGED <<portVars, hashed, graphs, registry, request>>

\* Mutant: the run goes on before the second file is written.
FinishEmitPartly(p) ==
  /\ At(p, "emitting")
  /\ hashed' = TRUE
  /\ Go(p, "emitted")
  /\ UNCHANGED <<portVars, present, newest, partial, emitted, graphs, registry, request, mishaps>>

\* (Pruned under way by another run, the files are written into nothing.)
FinishEmit(p) ==
  /\ At(p, "emitting")
  /\ partial' = partial \ {run[p].base}
  /\ hashed' = TRUE
  /\ Go(p, "emitted")
  /\ UNCHANGED <<portVars, present, newest, emitted, graphs, registry, request, mishaps>>

\* The sources are those of the last complete emission: the version that
\* latest_in_dir finds, whichever it is, is reused.
ReuseArtifacts(p) ==
  /\ hashed /\ LatestFound
  /\ Start(p, "analyze", "emitted", newest)
  /\ UNCHANGED <<portVars, disk, graphs, registry, request>>

StartDiscover(p) ==
  /\ LatestFound
  /\ Start(p, "discover", "emitted", newest)
  /\ UNCHANGED <<portVars, disk, graphs, registry, request>>

\* --no-load: the run ends with its artifacts on disk.
SkipLoad(p) ==
  /\ At(p, "emitted")
  /\ End(p, {"unpublished"})
  /\ UNCHANGED <<portVars, disk, graphs, registry, request>>

-----------------------------------------------------------------------------
(* Publication                                                             *)

StartPublish(p) ==
  /\ At(p, "emitted")
  /\ ReadCurrent(p)
  /\ Go(p, "publishing")
  /\ UNCHANGED <<disk, graphs, registry, request, mishaps>>

\* The artifacts are read now.
LoadGraph(p) ==
  /\ At(p, "publishing")
  /\ OnDisk(run[p].base)
  /\ FinishLoad(p)
  /\ content' = [content EXCEPT ![pub[p].epoch] = run[p].base]
  /\ truncated' = IF run[p].base \in partial THEN truncated \union {pub[p].epoch}
                                             ELSE truncated
  /\ UNCHANGED <<disk, registry, run, request, mishaps>>

Publish(p) ==
  /\ At(p, "publishing")
  /\ AllocateToken(p) \/ BeginLoad(p) \/ CasPublish(p) \/ Reply(p)
  /\ UNCHANGED <<disk, graphs, registry, run, request, mishaps>>

\* A failed load, a lost race: the artifacts stay, the registry is not told.
PublishFails(p) ==
  /\ At(p, "publishing")
  /\ \/ CasRefused(p)
     \/ pub[p].pc = "loading" /\ ~OnDisk(run[p].base) /\ Abort(p)
  /\ End(p, {"unpublished"})
  /\ UNCHANGED <<disk, graphs, registry, request>>

-----------------------------------------------------------------------------
(* Registry promotion, then cleanup                                        *)

\* Mutant: the epoch registered is the one that was replaced.
RegisteredExpected(p) ==
  [registry EXCEPT !.artifacts_dir = run[p].base, !.latest = run[p].base,
                   !.epoch = pub[p].expected]

\* persist_analyze replaces the entry; persist_discover needs one and leaves
\* its artifacts_dir alone.
Registered(p) ==
  IF run[p].kind = "analyze"
  THEN [artifacts_dir |-> run[p].base, latest |-> run[p].base, epoch |-> pub[p].epoch]
  ELSE [registry EXCEPT !.latest = run[p].base, !.epoch = pub[p].epoch]

\* Mutant: the registry is told of the epoch before it is committed.
RegisterEarly(p) ==
  /\ At(p, "publishing") /\ pub[p].pc \in {"loaded", "published"}
  /\ registry' = Registered(p)
  /\ IF pub[p].pc = "published" THEN Go(p, "registered") ELSE UNCHANGED run
  /\ UNCHANGED <<portVars, disk, graphs, request, mishaps>>

Register(p) ==
  /\ At(p, "publishing") /\ pub[p].pc = "published"
  /\ run[p].kind = "discover" => registry.epoch # None
  /\ registry' = Registered(p)
  /\ Go(p, "registered")
  /\ UNCHANGED <<portVars, disk, graphs, request, mishaps>>

RegisterFails(p) ==
  /\ At(p, "publishing") /\ pub[p].pc = "published"
  /\ run[p].kind = "discover" /\ registry.epoch = None
  /\ Finish(p)
  /\ End(p, {"unpublished"})
  /\ UNCHANGED <<disk, graphs, registry, request>>

\* (A version that another run pruned meanwhile does not come back.)
KeepOnly(v) ==
  /\ present' = present \cap {v}
  /\ newest' = IF OnDisk(v) THEN v ELSE 0

\* Mutant: the other versions go as soon as the new one is emitted.
PruneEarly(p) ==
  /\ At(p, "emitted") \/ At(p, "registered")
  /\ KeepOnly(run[p].base)
  /\ IF At(p, "registered") THEN Finish(p) /\ End(p, {})
     ELSE UNCHANGED <<portVars, run, mishaps>>
  /\ UNCHANGED <<partial, emitted, hashed, graphs, registry, request>>

\* prune_other_versions, after `analyze` only; then the run ends.
Prune(p) ==
  /\ At(p, "registered")
  /\ IF run[p].kind = "analyze" THEN KeepOnly(run[p].base) ELSE UNCHANGED <<present, newest>>
  /\ Finish(p)
  /\ End(p, {})
  /\ UNCHANGED <<partial, emitted, hashed, graphs, registry, request>>

\* A run is killed, or bails out, between two steps.
Die(p) ==
  /\ ~At(p, "idle")
  /\ IF pub[p].pc = "idle" THEN UNCHANGED portVars
     ELSE Abort(p) \/ Finish(p)
  /\ End(p, {"death"})
  /\ UNCHANGED <<disk, graphs, registry, request>>

-----------------------------------------------------------------------------
(* Requests: resolve the graph, then search the newest artifacts beside the *)
(* registered directory.                                                   *)

ResolveGraph(r) ==
  /\ request[r].step = "none"
  /\ registry.epoch # None
  /\ request' = [request EXCEPT ![r] = [@ EXCEPT !.step = "graph", !.epoch = current.epoch]]
  /\ UNCHANGED <<portVars, disk, graphs, registry, run, mishaps>>

ResolveCorpus(r) ==
  /\ request[r].step = "graph"
  /\ LatestFound
  /\ request' = [request EXCEPT ![r] = [@ EXCEPT !.step = "done", !.corpus = newest]]
  /\ UNCHANGED <<portVars, disk, graphs, registry, run, mishaps>>

Answer(r) ==
  /\ request[r].step = "done"
  /\ request' = [request EXCEPT ![r] = NoRequest]
  /\ UNCHANGED <<portVars, disk, graphs, registry, run, mishaps>>

Next ==
  \/ \E p \in Publishers :
       \/ StartAnalyze(p) \/ FinishEmit(p) \/ ReuseArtifacts(p) \/ StartDiscover(p)
       \/ SkipLoad(p) \/ StartPublish(p) \/ LoadGraph(p) \/ Publish(p)
       \/ PublishFails(p) \/ Register(p) \/ RegisterFails(p) \/ Prune(p) \/ Die(p)
  \/ \E r \in Readers : ResolveGraph(r) \/ ResolveCorpus(r) \/ Answer(r)

Spec == Init /\ [][Next]_vars

-----------------------------------------------------------------------------
(* Properties.  Each names the mishaps it does not withstand.              *)

OneAtATime     == "overlap" \notin mishaps   \* no two runs were ever under way at once
Undisturbed    == mishaps = {}               \* and each published what it emitted
NoRunUnderWay  == \A p \in Publishers : At(p, "idle")

\* "Remove superseded analyze artifacts only after the corresponding graph has
\* been published": the artifacts of the published graph, and those the
\* registry names, stay on disk whatever runs failed or died.  (A run prunes
\* what another one published meanwhile.)
PublishedArtifactsKept ==
  OneAtATime =>
    /\ current.epoch # None => OnDisk(content[current.epoch])
    /\ registry.artifacts_dir # 0 => OnDisk(registry.artifacts_dir)

\* The invariant of the runs: every variable has its type and no run prunes
\* what the pointer or the registry needs.
PipelineInv == TypeOK /\ PublishedArtifactsKept

\* "the registry is only a recoverable mirror of the committed record": it only
\* ever comes to show a committed epoch whose graph was made of artifacts,
\* whatever runs overlapped, failed or died, and never goes back to an older
\* publication, unless runs registered in the order opposite to their commits.
RegistryMirrorsPublication ==
  [][registry' # registry =>
       /\ committedBy[registry'.epoch] # 0
       /\ content[registry'.epoch] # 0
       /\ OneAtATime /\ registry.epoch # None =>
            committedBy[registry.epoch] <= committedBy[registry'.epoch]]_vars

\* "Load a complete base artifact": no graph is published from a directory
\* whose files were not completely written, unless the run that wrote it died
\* or another one read it meanwhile.
PublishedGraphIsWhole ==
  OneAtATime /\ "death" \notin mishaps => current.epoch \notin truncated

\* After any sequence of analyze and discover runs that all published, the
\* pointer, the registry, the graph and the newest artifacts name one version;
\* and a request mixes no generations: its graph, if it is still the published
\* one, and its search corpus are of that version.
OneVersionEverywhere ==
  Undisturbed /\ NoRunUnderWay /\ registry.epoch # None =>
    /\ registry.epoch = current.epoch
    /\ registry.latest = newest
    /\ content[current.epoch] = newest
    /\ \A r \in Readers :
         request[r].step = "done" /\ request[r].epoch = current.epoch =>
           request[r].corpus = content[current.epoch]

=============================================================================
