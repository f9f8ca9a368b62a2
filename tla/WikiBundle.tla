----------------------------- MODULE WikiBundle -----------------------------
(***************************************************************************)
(* The generated wiki of one repository: `cih wiki` renders it page by     *)
(* page, in place under a marker or in a staging directory that is swapped *)
(* in, while the server answers requests from the files.  A page is the    *)
(* one of the class a source file defines; its text is that of the file.   *)
(* The generator runs alone and may die anywhere.                          *)
(***************************************************************************)
EXTENDS Naturals, Sequences, FiniteSets

CONSTANTS
  Classes,      \* the source files, each of one class with one page: numbers, in the order of pages
  FeatureOf,    \* [Classes -> the feature (directory of pages) it belongs to]
  Contents,     \* what a commit may make of a file
  Absent,       \* no such file, no such page
  Nothing,      \* no directory, no manifest, no index, no gate
  Staging,      \* whether runs use --stage-and-swap: a subset of BOOLEAN
  WikiReaders,  \* requests under way in the server
  MaxCommits,   \* bound: commits of the repository
  MaxWikiRuns   \* bound: runs that get past the no-op gate

\* What a directory, a manifest, the record of a run and an index are made of.
Pages     == [Classes -> Contents]
Manifests == [stamp : Nat \ {0}, pages : SUBSET Classes]
Bundles   == [marker : BOOLEAN, meta : Nat, manifest : {Nothing} \cup Manifests, pages : Pages]
Records   == [commit : Nat, since : Nat, changed : SUBSET Classes, staged : BOOLEAN,
              base : Nat, visible : BOOLEAN, listing : SUBSET Classes, pages : Pages]
Indexes   == [stamp : Nat, listing : SUBSET Classes, bodies : Pages]

ASSUME WikiAssumption ==
  /\ Classes \subseteq Nat
  /\ Absent \in Contents /\ Contents # {Absent}
  /\ Staging \subseteq BOOLEAN
  /\ MaxCommits \in Nat \ {0} /\ MaxWikiRuns \in Nat \ {0}

ASSUME NothingAssumption ==
  /\ Nothing \notin Manifests /\ Nothing \notin Bundles
  /\ Nothing \notin Records /\ Nothing \notin Indexes

VARIABLES
  history,    \* the commits; the last one is HEAD, and the graph is of HEAD
  dirs,       \* the wiki directory, its staging directory and its backup
  run,        \* the run under way
  runs,       \* how many runs got past the gate; a run's number is its manifest's mtime
  outcome,    \* how the last run ended
  bundles,    \* for each run, what it has written and published (history variable)
  reader,     \* the requests
  wikiCache,  \* the retained index of the wiki directory
  wikiGate    \* the gate of the wiki directory in the map of gates

wikiVars == <<history, dirs, run, runs, outcome, bundles, reader, wikiCache, wikiGate>>
runnerVars == <<history, dirs, run, runs, outcome, bundles>>
readerVars == <<reader, wikiCache, wikiGate>>

LastCommit == Len(history)
Present(c) == {f \in Classes : history[c][f] # Absent}
Features(fs) == {FeatureOf[f] : f \in fs}
First(fs) == CHOOSE f \in fs : \A g \in fs : f <= g

\* `git diff --name-only`: deleted files are among the names.
Changed(base, c) == {f \in Classes : history[base][f] # history[c][f]}

\* What git_changed_files may answer: no name when git fails or does not know
\* the commit, which a run takes for "nothing has changed".
ChangedFiles(since) == IF since = 0 THEN {{}} ELSE {Changed(since, LastCommit), {}}

NoPages == [f \in Classes |-> Absent]
EmptyBundle == [marker |-> FALSE, meta |-> 0, manifest |-> Nothing, pages |-> NoPages]

IdleRun == [step |-> "idle", number |-> 0, commit |-> 0, since |-> 0, changed |-> {},
            staged |-> FALSE, base |-> 0, listing |-> {}, unwritten |-> {}]
IdleReader == [step |-> "idle", stamp |-> 0, index |-> Nothing, unread |-> {},
               gate |-> Nothing, body |-> Absent, page |-> Nothing]

Target == IF run.staged THEN "stage" ELSE "out"

-----------------------------------------------------------------------------
(* The generator *)

\* A commit edits, adds or deletes one file; the graph is analyzed again.  A run
\* keeps to the commit it started from, so that one made meanwhile may wait.
Commit ==
  /\ run.step = "idle" /\ LastCommit < MaxCommits
  /\ \E f \in Classes, t \in Contents :
       /\ t # history[LastCommit][f]
       /\ history' = Append(history, [history[LastCommit] EXCEPT ![f] = t])
  /\ UNCHANGED <<dirs, run, runs, outcome, bundles, readerVars>>

\* The no-op gate: the metadata of the wiki directory name HEAD and its graph.
UpToDate == dirs["out"] # Nothing /\ dirs["out"].meta = LastCommit

NothingToDo ==
  /\ run.step = "idle" /\ UpToDate
  /\ outcome' = "succeeded"
  /\ UNCHANGED <<history, dirs, run, runs, bundles, readerVars>>

\* The manifest in a directory, and the run that wrote it (0 if there is none).
ManifestIn(d) == IF dirs[d] = Nothing THEN Nothing ELSE dirs[d].manifest
StampIn(d) == IF ManifestIn(d) = Nothing THEN 0 ELSE ManifestIn(d).stamp

\* since is 0 for a full run, or the commit that --since names.
StartWiki(since, staged) ==
  /\ run.step = "idle" /\ ~UpToDate
  /\ runs < MaxWikiRuns
  /\ runs' = runs + 1
  /\ \E changed \in ChangedFiles(since) :
       run' = [IdleRun EXCEPT !.step = "mark", !.number = runs + 1, !.commit = LastCommit,
                              !.since = since, !.changed = changed, !.staged = staged,
                              !.base = StampIn("out")]
  /\ outcome' = "running"
  /\ UNCHANGED <<history, dirs, bundles, readerVars>>

Continue(step) == run' = [run EXCEPT !.step = step]

\* A leftover staging directory is wiped; the wiki directory is kept.
WriteMarker ==
  /\ run.step = "mark"
  /\ LET kept == IF run.staged \/ dirs["out"] = Nothing THEN EmptyBundle ELSE dirs["out"]
     IN  dirs' = [dirs EXCEPT ![Target] = [kept EXCEPT !.marker = TRUE]]
  /\ Continue("truncate")
  /\ UNCHANGED <<history, runs, outcome, bundles, readerVars>>

\* wiki_meta.json is written in place; half of it is as good as none.
TruncateMeta ==
  /\ run.step = "truncate"
  /\ dirs' = [dirs EXCEPT ![Target].meta = 0]
  /\ Continue("meta")
  /\ UNCHANGED <<history, runs, outcome, bundles, readerVars>>

WriteMeta ==
  /\ run.step = "meta"
  /\ dirs' = [dirs EXCEPT ![Target].meta = run.commit]
  /\ Continue("render")
  /\ UNCHANGED <<history, runs, outcome, bundles, readerVars>>

\* Mutant: a file that is new does not count as changed.
AffectedEdited ==
  IF run.since = 0 THEN Features(Present(run.commit))
  ELSE Features(Present(run.commit) \cap Present(run.since) \cap run.changed)

\* The features that are rendered: all of them, or those with a class of the
\* graph among the changed files.
Affected ==
  Features(IF run.since = 0 THEN Present(run.commit) ELSE Present(run.commit) \cap run.changed)

Rendered == {f \in Present(run.commit) : FeatureOf[f] \in Affected}

\* The entries of the manifest that is in the directory written to, of features
\* that are not rendered.
Merged ==
  IF run.since = 0 \/ ManifestIn(Target) = Nothing THEN {}
  ELSE {f \in ManifestIn(Target).pages : FeatureOf[f] \notin Affected}

Render ==
  /\ run.step = "render"
  /\ run' = [run EXCEPT !.step = "flush", !.unwritten = Rendered, !.listing = Rendered \cup Merged]
  /\ UNCHANGED <<history, dirs, runs, outcome, bundles, readerVars>>

\* Pages are renamed into place one after the other.
FlushPage ==
  /\ run.step = "flush" /\ run.unwritten # {}
  /\ LET f == First(run.unwritten) IN
       /\ dirs' = [dirs EXCEPT ![Target].pages[f] = history[run.commit][f]]
       /\ run' = [run EXCEPT !.unwritten = @ \ {f}]
  /\ UNCHANGED <<history, runs, outcome, bundles, readerVars>>

\* Pages of rendered features that were not rendered.
PruneStale ==
  /\ run.step = "flush" /\ run.unwritten = {}
  /\ dirs' = [dirs EXCEPT ![Target].pages =
       [f \in Classes |-> IF FeatureOf[f] \in Features(Rendered) /\ f \notin Rendered
                          THEN Absent ELSE @[f]]]
  /\ Continue("manifest")
  /\ UNCHANGED <<history, runs, outcome, bundles, readerVars>>

WriteManifest ==
  /\ run.step = "manifest"
  /\ dirs' = [dirs EXCEPT ![Target].manifest = [stamp |-> run.number, pages |-> run.listing]]
  /\ bundles' = [bundles EXCEPT ![run.number] =
       [commit |-> run.commit, since |-> run.since, changed |-> run.changed,
        staged |-> run.staged, base |-> run.base, visible |-> FALSE,
        listing |-> run.listing, pages |-> dirs[Target].pages]]
  /\ Continue("unmark")
  /\ UNCHANGED <<history, runs, outcome, readerVars>>

Publish == bundles' = [bundles EXCEPT ![run.number].visible = TRUE]

EndRun(how) == run' = IdleRun /\ outcome' = how

RemoveMarker ==
  /\ run.step = "unmark"
  /\ dirs' = [dirs EXCEPT ![Target].marker = FALSE]
  /\ IF run.staged
     THEN Continue("rotate") /\ UNCHANGED <<outcome, bundles>>
     ELSE EndRun("succeeded") /\ Publish
  /\ UNCHANGED <<history, runs, readerVars>>

Rotate ==
  /\ run.step = "rotate"
  /\ dirs' = IF dirs["out"] = Nothing THEN dirs
             ELSE [dirs EXCEPT !["bak"] = dirs["out"], !["out"] = Nothing]
  /\ Continue("swap")
  /\ UNCHANGED <<history, runs, outcome, bundles, readerVars>>

SwapIn ==
  /\ run.step = "swap"
  /\ dirs' = [out |-> dirs["stage"], stage |-> Nothing, bak |-> Nothing]
  /\ Publish
  /\ EndRun("succeeded")
  /\ UNCHANGED <<history, runs, readerVars>>

\* The second rename fails: the backup is put back.
SwapFails ==
  /\ run.step = "swap"
  /\ dirs' = IF dirs["bak"] = Nothing THEN dirs
             ELSE [dirs EXCEPT !["out"] = dirs["bak"], !["bak"] = Nothing]
  /\ EndRun("failed")
  /\ UNCHANGED <<history, runs, bundles, readerVars>>

\* An error or the death of the process, between any two steps.
RunDies ==
  /\ run.step # "idle"
  /\ EndRun("failed")
  /\ UNCHANGED <<history, dirs, runs, bundles, readerVars>>

-----------------------------------------------------------------------------
(* Requests *)

ReaderAt(r, step) == reader[r].step = step
Move(r, step) == reader' = [reader EXCEPT ![r].step = step]
Refuse(r) == reader' = [reader EXCEPT ![r] = IdleReader]

\* Mutant: the marker is not looked at again.
IsCurrentUnmarked(stamp) == StampIn("out") = stamp

\* is_current: no marker, and the manifest is the one with that mtime.
IsCurrent(stamp) == StampIn("out") = stamp /\ ~dirs["out"].marker

Marked == dirs["out"] # Nothing /\ dirs["out"].marker

\* get_or_load: a directory that is being published, or has no manifest, is refused.
CheckMarker(r) ==
  /\ ReaderAt(r, "idle")
  /\ IF StampIn("out") # 0 /\ ~Marked THEN Move(r, "probe") ELSE Refuse(r)
  /\ UNCHANGED <<runnerVars, wikiCache, wikiGate>>

Cached(stamp) == wikiCache # Nothing /\ wikiCache.stamp = stamp

\* A gate is free when nobody holds it; it may have left the map.
WikiGatesInUse == {reader[r].gate : r \in WikiReaders} \cup {wikiGate}
FreshWikiGate == CHOOSE g \in 1..(Cardinality(WikiReaders) + 1) : g \notin WikiGatesInUse

ProbeManifest(r) ==
  /\ ReaderAt(r, "probe")
  /\ IF StampIn("out") = 0 THEN Refuse(r) /\ UNCHANGED wikiGate
     ELSE IF Cached(StampIn("out"))
     THEN /\ reader' = [reader EXCEPT ![r].stamp = StampIn("out"), ![r].index = wikiCache,
                                      ![r].step = "page"]
          /\ UNCHANGED wikiGate
     ELSE /\ wikiGate' = IF wikiGate = Nothing THEN FreshWikiGate ELSE wikiGate
          /\ reader' = [reader EXCEPT ![r].stamp = StampIn("out"), ![r].gate = wikiGate',
                                      ![r].step = "gate"]
  /\ UNCHANGED <<runnerVars, wikiCache>>

LoadingIndex == {"stat", "manifest", "pages"}

\* Behind the gate the cache is asked again, for the mtime seen before.
PassGate(r) ==
  /\ ReaderAt(r, "gate")
  /\ \A q \in WikiReaders : reader[q].gate = reader[r].gate => reader[q].step \notin LoadingIndex
  /\ reader' = IF Cached(reader[r].stamp)
               THEN [reader EXCEPT ![r].index = wikiCache, ![r].gate = Nothing, ![r].step = "page"]
               ELSE [reader EXCEPT ![r].step = "stat"]
  /\ UNCHANGED <<runnerVars, wikiCache, wikiGate>>

\* load_wiki_index: the mtime, the manifest, then one page after the other.
StatManifest(r) ==
  /\ ReaderAt(r, "stat")
  /\ IF StampIn("out") = 0 THEN Refuse(r)
     ELSE reader' = [reader EXCEPT ![r].stamp = StampIn("out"), ![r].step = "manifest"]
  /\ UNCHANGED <<runnerVars, wikiCache, wikiGate>>

ReadManifest(r) ==
  /\ ReaderAt(r, "manifest")
  /\ IF StampIn("out") = 0 THEN Refuse(r)
     ELSE LET listed == ManifestIn("out").pages IN
          reader' = [reader EXCEPT
            ![r].index = [stamp |-> reader[r].stamp, listing |-> listed, bodies |-> NoPages],
            ![r].unread = listed, ![r].step = "pages"]
  /\ UNCHANGED <<runnerVars, wikiCache, wikiGate>>

PageOnDisk(f) == IF dirs["out"] = Nothing THEN Absent ELSE dirs["out"].pages[f]

\* A page that cannot be read is indexed without its text.
ReadBody(r) ==
  /\ ReaderAt(r, "pages") /\ reader[r].unread # {}
  /\ LET f == First(reader[r].unread) IN
       reader' = [reader EXCEPT ![r].index.bodies[f] = PageOnDisk(f), ![r].unread = @ \ {f}]
  /\ UNCHANGED <<runnerVars, wikiCache, wikiGate>>

\* A current index is used, and retained if the cache has room; what the cache
\* drops takes its gate with it, so that a dropped index may drop this gate.
VerifyIndex(r) ==
  /\ ReaderAt(r, "pages") /\ reader[r].unread = {}
  /\ IF IsCurrent(reader[r].index.stamp)
     THEN /\ reader' = [reader EXCEPT ![r].gate = Nothing, ![r].step = "page"]
          /\ \/ wikiCache' = reader[r].index /\ UNCHANGED wikiGate
             \/ wikiCache' = Nothing /\ wikiGate' = Nothing
     ELSE Refuse(r) /\ UNCHANGED <<wikiCache, wikiGate>>
  /\ UNCHANGED runnerVars

\* Indexes of other directories take the room.
EvictIndex ==
  /\ wikiCache # Nothing
  /\ wikiCache' = Nothing /\ wikiGate' = Nothing
  /\ UNCHANGED <<runnerVars, reader>>

\* get_page, or the snippet of a hit: the text comes from the directory.
ReadPage(r, f) ==
  /\ ReaderAt(r, "page") /\ f \in reader[r].index.listing
  /\ reader' = [reader EXCEPT ![r].page = f, ![r].body = PageOnDisk(f), ![r].step = "verify"]
  /\ UNCHANGED <<runnerVars, wikiCache, wikiGate>>

AnswerRequest(r) ==
  /\ ReaderAt(r, "verify")
  /\ IF IsCurrent(reader[r].index.stamp) THEN Move(r, "answered") ELSE Refuse(r)
  /\ UNCHANGED <<runnerVars, wikiCache, wikiGate>>

\* list_pages: the manifest between two looks at the marker.
ReadListing(r) ==
  /\ ReaderAt(r, "probe")
  /\ IF StampIn("out") = 0 THEN Refuse(r)
     ELSE reader' = [reader EXCEPT ![r].step = "listed",
            ![r].index = [stamp |-> StampIn("out"), listing |-> ManifestIn("out").pages,
                          bodies |-> NoPages]]
  /\ UNCHANGED <<runnerVars, wikiCache, wikiGate>>

AnswerListing(r) ==
  /\ ReaderAt(r, "listed")
  /\ IF Marked THEN Refuse(r) ELSE Move(r, "answered")
  /\ UNCHANGED <<runnerVars, wikiCache, wikiGate>>

\* The request is over, or its future is dropped at the operation deadline.
EndRequest(r) ==
  /\ ~ReaderAt(r, "idle")
  /\ Refuse(r)
  /\ UNCHANGED <<runnerVars, wikiCache, wikiGate>>

-----------------------------------------------------------------------------
\* Before the first run, with some classes present and alike.
SomeText == CHOOSE t \in Contents : t # Absent
WikiInit ==
  /\ \E fs \in SUBSET Classes :
       history = <<[f \in Classes |-> IF f \in fs THEN SomeText ELSE Absent]>>
  /\ dirs = [d \in {"out", "stage", "bak"} |-> Nothing]
  /\ run = IdleRun /\ runs = 0 /\ outcome = "none"
  /\ bundles = [n \in 1..MaxWikiRuns |-> Nothing]
  /\ reader = [r \in WikiReaders |-> IdleReader]
  /\ wikiCache = Nothing /\ wikiGate = Nothing

Generate ==
  \/ NothingToDo
  \/ \E since \in 0..LastCommit, staged \in Staging : StartWiki(since, staged)
  \/ WriteMarker \/ TruncateMeta \/ WriteMeta \/ Render
  \/ FlushPage \/ PruneStale \/ WriteManifest \/ RemoveMarker
  \/ Rotate \/ SwapIn \/ SwapFails \/ RunDies

Request(r) ==
  \/ CheckMarker(r) \/ ProbeManifest(r) \/ PassGate(r)
  \/ StatManifest(r) \/ ReadManifest(r)
  \/ ReadBody(r) \/ VerifyIndex(r) \/ (\E f \in Classes : ReadPage(r, f))
  \/ AnswerRequest(r)
  \/ ReadListing(r) \/ AnswerListing(r) \/ EndRequest(r)

WikiNext == Commit \/ Generate \/ (\E r \in WikiReaders : Request(r)) \/ EvictIndex

WikiSpec == WikiInit /\ [][WikiNext]_wikiVars

-----------------------------------------------------------------------------
(* Properties *)

WikiTypeOK ==
  /\ history \in Seq(Pages) /\ LastCommit \in 1..MaxCommits
  /\ runs \in 0..MaxWikiRuns
  /\ outcome \in {"none", "running", "succeeded", "failed"}
  /\ \A d \in DOMAIN dirs : dirs[d] # Nothing => dirs[d] \in Bundles

\* What an index or an answer shows is what one run published: its listing, and
\* of each page the text as it was then, or none if the file could not be read.
ShowsOneBundle(index) ==
  LET of == bundles[index.stamp] IN
  /\ of # Nothing /\ of.visible
  /\ index.listing = of.listing
  /\ \A f \in index.listing : index.bodies[f] \in {of.pages[f], Absent}

PageServed(r) ==
  LET of == bundles[reader[r].index.stamp] IN
  /\ ShowsOneBundle(reader[r].index)
  /\ reader[r].body \in {of.pages[reader[r].page], Absent}

\* A listing may be that of a run that died before it removed the marker, if
\* another run removed it before the second look; its pages were all written.
ListingServed(r) ==
  LET of == bundles[reader[r].index.stamp] IN of # Nothing /\ of.listing = reader[r].index.listing

ServedTogether == \A r \in WikiReaders : ReaderAt(r, "answered") =>
  IF reader[r].page = Nothing THEN ListingServed(r) ELSE PageServed(r)

CachedTogether == wikiCache # Nothing => ShowsOneBundle(wikiCache)

\* No request is answered, and no index retained, from the manifest of one
\* publication and the pages of another, or of a run that did not finish
\* (wiki_repository.rs is_current, and the marker of generate_wiki).
WikiInv == WikiTypeOK /\ ServedTogether /\ CachedTogether

\* The bundle of a run is whole: a page for every class of its commit, with its text.
Whole(n) ==
  LET p == bundles[n] IN
  /\ p.listing = Present(p.commit)
  /\ \A f \in p.listing : p.pages[f] = history[p.commit][f]

\* A --since run in place, from the commit of a whole wiki that the run before
\* wrote, when git could tell the difference and no file is gone since.
FromWhole(n) ==
  LET p == bundles[n] IN
  /\ p.changed = Changed(p.since, p.commit)
  /\ ~p.staged /\ p.base # 0 /\ n = p.base + 1
  /\ bundles[p.base].commit = p.since /\ Whole(p.base)
  /\ Present(p.since) \subseteq Present(p.commit)

\* A full run writes a whole wiki, whatever runs died in its directories before;
\* a --since run keeps a whole wiki whole under the conditions of FromWhole, none
\* of which the command checks (generate_wiki's merge of the previous manifest).
RunsWhole == \A n \in 1..runs :
  (bundles[n] # Nothing /\ (bundles[n].since = 0 \/ FromWhole(n))) => Whole(n)

\* A run that ends successfully leaves a wiki that readers may use
\* (docs/ARCHITECTURE.md:585: a successful rerun clears the marker).
SuccessClears == outcome = "succeeded" => dirs["out"] # Nothing /\ ~Marked
=============================================================================
