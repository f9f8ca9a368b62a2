-------------------------- MODULE IncrementalAnalyze --------------------------
(***************************************************************************)
(* The incremental part of `analyze` (cih-engine): a run hashes the files  *)
(* of its scope, reuses the last artifacts when nothing differs from the   *)
(* record of the run before, and otherwise parses what changed, takes the  *)
(* other parse units from a cache keyed by content hash, resolves, writes  *)
(* the artifacts, and puts its hashes and its configuration fingerprint on *)
(* record.  Files are edited, the patterns file and the resources of the   *)
(* frameworks too, and a run may die, between any two steps.               *)
(*                                                                         *)
(* A hash is the content it stands for, and a parse unit says from which   *)
(* file, content and parser it comes.  Resolution is a function of the     *)
(* units, the patterns and the resources: a graph is the three.  One run   *)
(* goes at a time (PublishPipeline has those that overlap); a write that   *)
(* returns an error ends its run as a death does.                          *)
(***************************************************************************)
EXTENDS FiniteSets, Integers

CONSTANTS
  Files,       \* the source files, numbered in the order of their paths
  Scopes,      \* the sets of files a scope file may list
  Contents,    \* what a file may contain
  Parsers,     \* parse-cache namespaces: parser schema and sql_apis
  Patterns,    \* what cih.patterns.toml may contain
  Resources,   \* what XML and property files outside the scope may contain
  Imports,     \* pairs <<f, g>>: file g imports what file f exports
  MaxEdits,    \* how often anything is edited
  MaxRuns,     \* how many runs there are
  MaxFaults    \* how many files cannot be read and runs die

ASSUME FilesAssumption == Files \subseteq Nat
ASSUME ScopesAssumption == Scopes \subseteq SUBSET Files
ASSUME ImportsAssumption == Imports \subseteq Files \X Files

VARIABLES
  source,      \* the content of every file
  patterns,    \* cih.patterns.toml
  resources,   \* files resolution reads that are no source files
  hashes,      \* file-hashes.json: content of the files of the last run
  printed,     \* analyze-config.json: its parser and patterns
  parseCache,  \* parse-cache/v<parser>/<hash>.json: parse units
  newest,      \* the graph latest_graph_artifacts finds
  step,        \* where the run under way is
  job,         \* its scope, parser, and whether it uses the cache
  current,     \* the hashes it took
  units,       \* the parse units it combined
  built,       \* the graph it resolved
  own,         \* history: what befell this run
  legacy,      \* history: what befell the runs before and still counts
  edits, runs, faults  \* how many there were

inputVars == <<source, patterns, resources, edits>>
recordVars == <<hashes, printed, parseCache, newest>>
runVars == <<step, job, current, units, built, runs>>
incVars == <<inputVars, recordVars, runVars, own, legacy, faults>>

Unit(f, c, p) == [file |-> f, content |-> c, parser |-> p]
Units == [file : Files, content : Contents, parser : Parsers]
GraphsOf == [units : SUBSET Units, patterns : Patterns, resources : Resources, whole : BOOLEAN]
NoGraph == [whole |-> FALSE]
Jobs == [scope : Scopes, parser : Parsers, cached : BOOLEAN]
NoJob == [scope |-> {}]
NoHashes == [f \in {} |-> {}]
NoPrint == [parser |-> {}]

\* What a run may go through that later runs can suffer from:
\*   unhashed   a file could not be read for hashing
\*   torn       a file, or the patterns, changed between two readings of it
\*   skipped    a file was hashed but could not be read for parsing
\*   shared     a unit went under the hash on record for another file
\*   died       the run died after it began to write its artifacts
\*   resources  a resource was edited after it was read
Mishaps == {"unhashed", "torn", "skipped", "shared", "died", "resources"}

IncInit ==
  /\ source \in [Files -> Contents] /\ patterns \in Patterns /\ resources \in Resources
  /\ hashes = NoHashes /\ printed = NoPrint /\ parseCache = [k \in {} |-> {}] /\ newest = NoGraph
  /\ step = "idle" /\ job = NoJob /\ current = NoHashes /\ units = {} /\ built = NoGraph
  /\ own = {} /\ legacy = {} /\ edits = 0 /\ runs = 0 /\ faults = 0

-----------------------------------------------------------------------------
(* The world around the run *)

Edit == edits < MaxEdits /\ edits' = edits + 1

EditFile ==
  /\ Edit
  /\ \E f \in Files : \E c \in Contents \ {source[f]} : source' = [source EXCEPT ![f] = c]
  /\ UNCHANGED <<patterns, resources, recordVars, runVars, own, legacy, faults>>

EditPatterns ==
  /\ Edit
  /\ patterns' \in Patterns \ {patterns}
  /\ UNCHANGED <<source, resources, recordVars, runVars, own, legacy, faults>>

EditResources ==
  /\ Edit
  /\ resources' \in Resources \ {resources}
  /\ own' = IF step = "idle" THEN {} ELSE own \union {"resources"}
  /\ legacy' = legacy \union {"resources"}
  /\ UNCHANGED <<source, patterns, recordVars, runVars, faults>>

-----------------------------------------------------------------------------
(* A run *)

\* Files the system fails to read, and deaths, are bounded together.
Fault(n) == faults + n =< MaxFaults /\ faults' = faults + n

\* All readable files are hashed; the caches of other parsers are deleted.
StartRun ==
  /\ step = "idle" /\ runs < MaxRuns /\ runs' = runs + 1
  /\ \E j \in Jobs, lost \in SUBSET Files :
       /\ lost \subseteq j.scope /\ Fault(Cardinality(lost))
       /\ job' = j
       /\ current' = [f \in j.scope \ lost |-> source[f]]
       /\ own' = IF lost = {} THEN {} ELSE {"unhashed"}
       /\ parseCache' = [k \in {k \in DOMAIN parseCache : k[1] = j.parser} |-> parseCache[k]]
  /\ step' = "hashed"
  /\ UNCHANGED <<inputVars, hashes, printed, newest, units, built, legacy>>

Changed == {f \in DOMAIN current : f \notin DOMAIN hashes \/ hashes[f] # current[f]}
SameFiles == DOMAIN hashes = DOMAIN current
Fingerprint == [parser |-> job.parser, patterns |-> patterns]

\* The gate of the no-op.
NothingChangedNorAdded ==  \* mutant: files that left the scope are not noticed
  /\ job.cached
  /\ DOMAIN current = job.scope /\ Changed = {}
  /\ printed = Fingerprint
NothingChanged ==
  /\ job.cached
  /\ DOMAIN current = job.scope /\ Changed = {} /\ SameFiles
  /\ printed = Fingerprint

\* The run is over.
Leave == step' = "idle" /\ job' = NoJob /\ current' = NoHashes /\ units' = {} /\ built' = NoGraph /\ own' = {} /\ UNCHANGED runs

\* A graph cut short may still be read line by line to its end.
Reuse ==
  /\ step = "hashed"
  /\ NothingChanged
  /\ newest # NoGraph
  /\ Leave
  /\ UNCHANGED <<inputVars, recordVars, legacy, faults>>

EntryOf(c) == <<job.parser, c>>
Has(c) == EntryOf(c) \in DOMAIN parseCache

\* The unit of the present content, or else that of the last run.
HasUnit(f) ==
  \/ f \in DOMAIN current /\ Has(current[f])
  \/ f \in DOMAIN hashes /\ Has(hashes[f])
CachedUnit(f) ==
  IF f \in DOMAIN current /\ Has(current[f]) THEN parseCache[EntryOf(current[f])]
                                             ELSE parseCache[EntryOf(hashes[f])]

\* The changed files, with what imports them up to four hops.
Importers(S) == S \union {p[2] : p \in {p \in Imports : p[1] \in S}}
Expanded == Importers(Importers(Importers(Importers(Changed))))

ToParseMissing ==  \* mutant: a changed file whose old unit is cached is not parsed
  IF job.cached
    THEN {f \in job.scope : ~HasUnit(f) \/ f \notin DOMAIN current}
    ELSE job.scope
ToParse ==
  IF job.cached
    THEN {f \in job.scope : f \in Expanded \/ ~HasUnit(f) \/ f \notin DOMAIN current}
    ELSE job.scope

\* Of files with one hash the last one stays.
Saved(P) ==
  [k \in DOMAIN parseCache \union {EntryOf(current[f]) : f \in P} |->
     IF k \in {EntryOf(current[f]) : f \in P}
       THEN LET f == CHOOSE f \in P : /\ EntryOf(current[f]) = k
                                      /\ \A g \in P : current[g] = current[f] => g =< f
            IN Unit(f, source[f], job.parser)
       ELSE parseCache[k]]

Tears(P) == IF \E f \in P : source[f] # current[f] THEN {"torn"} ELSE {}
Shares(P) ==
  IF \E f \in P, g \in Files :
       /\ f # g
       /\ \/ g \in DOMAIN current /\ current[g] = current[f]
          \/ g \in DOMAIN hashes /\ hashes[g] = current[f]
    THEN {"shared"} ELSE {}

\* What is to be parsed is read now and goes into the cache under the hash
\* taken before; a file that cannot be read, or makes the parser panic, is
\* left out.  This is also what follows a no-op whose artifacts cannot be read,
\* and the gate is not asked by a caller that rules the no-op out.
Parse ==
  /\ step = "hashed"
  /\ \E skipped \in SUBSET ToParse :
       LET parsed == ToParse \ skipped
           kept == parsed \intersect DOMAIN current IN
       /\ Fault(Cardinality(skipped))
       /\ units' = {Unit(f, source[f], job.parser) : f \in parsed}
                     \union {CachedUnit(f) : f \in job.scope \ ToParse}
       /\ parseCache' = Saved(kept)
       /\ own' = own \union Tears(kept) \union Shares(kept)
                   \union (IF skipped = {} THEN {} ELSE {"skipped"})
  /\ step' = "parsed"
  /\ UNCHANGED <<inputVars, hashes, printed, newest, job, current, built, runs, legacy>>

\* The patterns and the resources are read here.
Resolve ==
  /\ step = "parsed"
  /\ built' = [units |-> units, patterns |-> patterns, resources |-> resources, whole |-> TRUE]
  /\ units' = {}
  /\ own' = own \ {"resources"}
  /\ step' = "resolved"
  /\ UNCHANGED <<inputVars, recordVars, job, current, runs, legacy, faults>>

WriteArtifacts ==
  /\ step = "resolved"
  /\ newest' = built
  /\ step' = "written"
  /\ UNCHANGED <<inputVars, hashes, printed, parseCache, job, current, units, built, runs, own, legacy, faults>>

SaveHashes ==
  /\ step = "written"
  /\ hashes' = current
  /\ step' = "recorded"
  /\ UNCHANGED <<inputVars, printed, parseCache, newest, job, current, units, built, runs, own, legacy, faults>>

Twins == IF \E f, g \in DOMAIN current : f # g /\ current[f] = current[g] THEN {"shared"} ELSE {}

\* The patterns are read once more for the fingerprint.  The run leaves a
\* record of its own; what the parse cache got wrong before stays, unless
\* every file was parsed.
SavePrint ==
  /\ step = "recorded"
  /\ printed' = Fingerprint
  /\ legacy' = (own \ {"shared"}) \union Twins
                 \union (IF patterns = built.patterns THEN {} ELSE {"torn"})
                 \union (IF job.cached THEN legacy \intersect {"torn", "skipped", "shared"} ELSE {})
  /\ Leave
  /\ UNCHANGED <<inputVars, hashes, parseCache, newest, faults>>

\* Death leaves what was written so far: some of the units, the artifacts as
\* they were or cut short, a record as it was or unreadable.
Die ==
  /\ step \in {"hashed", "parsed", "resolved", "written", "recorded"}
  /\ Fault(1)
  /\ \/ /\ step = "hashed"
        /\ \E n \in {0} \union Files :
             LET kept == {f \in ToParse \intersect DOMAIN current : f =< n} IN
             /\ parseCache' = Saved(kept)
             /\ legacy' = legacy \union own \union Tears(kept) \union Shares(kept)
        /\ UNCHANGED <<hashes, printed, newest>>
     \/ /\ step = "parsed"
        /\ legacy' = legacy \union own
        /\ UNCHANGED recordVars
     \/ /\ step = "resolved"
        /\ newest' \in {newest, [built EXCEPT !.whole = FALSE]}
        /\ legacy' = legacy \union own \union {"died"}
        /\ UNCHANGED <<hashes, printed, parseCache>>
     \/ /\ step = "written"
        /\ hashes' \in {hashes, NoHashes}
        /\ legacy' = legacy \union own \union {"died"}
        /\ UNCHANGED <<printed, parseCache, newest>>
     \/ /\ step = "recorded"
        /\ printed' \in {printed, NoPrint}
        /\ legacy' = legacy \union own \union {"died"}
        /\ UNCHANGED <<hashes, parseCache, newest>>
  /\ Leave
  /\ UNCHANGED inputVars

IncNext ==
  \/ EditFile \/ EditPatterns \/ EditResources
  \/ StartRun \/ Reuse \/ Parse \/ Resolve \/ WriteArtifacts \/ SaveHashes \/ SavePrint \/ Die

IncSpec == IncInit /\ [][IncNext]_incVars

-----------------------------------------------------------------------------
(* What the cache and the records are worth *)

Right(f, c, p) == <<p, c>> \in DOMAIN parseCache => parseCache[<<p, c>>] = Unit(f, c, p)
Spoilt(mishaps) == {"torn", "skipped", "shared"} \intersect mishaps # {}

RunTypeOK ==
  /\ source \in [Files -> Contents] /\ patterns \in Patterns /\ resources \in Resources
  /\ hashes \in [DOMAIN hashes -> Contents] /\ DOMAIN hashes \subseteq Files
  /\ current \in [DOMAIN current -> Contents] /\ DOMAIN current \subseteq Files
  /\ DOMAIN parseCache \subseteq Parsers \X Contents
  /\ step \in {"idle", "hashed", "parsed", "resolved", "written", "recorded"}
  /\ own \subseteq Mishaps /\ legacy \subseteq Mishaps
  /\ step = "idle" => own = {}
  /\ step = "hashed" => own \subseteq {"unhashed", "resources"}
  /\ step # "idle" =>
       /\ job \in Jobs
       /\ DOMAIN current \subseteq job.scope
       /\ "unhashed" \notin own => DOMAIN current = job.scope
       /\ \A k \in DOMAIN parseCache : k[1] = job.parser

\* Until a run replaces the hashes on record, the cache holds under them the
\* units of the files on record, or none.
CacheOfRecord ==
  step # "recorded" /\ ~Spoilt(legacy) /\ {"torn", "shared"} \intersect own = {} =>
    \A f \in DOMAIN hashes, p \in Parsers : Right(f, hashes[f], p)

\* Once it has parsed, the cache holds the units of the files it hashed.
CacheOfRun ==
  /\ step \in {"parsed", "resolved", "written", "recorded"}
  /\ {"torn", "skipped"} \intersect own = {}
  /\ Twins = {} \/ "shared" \notin own
  /\ job.cached => ~Spoilt(legacy)
  => \A f \in DOMAIN current : Right(f, current[f], job.parser)

FullUnits == {Unit(f, current[f], job.parser) : f \in DOMAIN current}

Full(us) == {u \in us : u.file \in DOMAIN current} = FullUnits /\ {u.file : u \in us} = job.scope
Sound ==
  /\ {"torn", "skipped"} \intersect own = {}
  /\ job.cached => ~Spoilt(legacy)

\* The newest artifacts are those on record, up to the moment the next ones are
\* written.
NewestOfRecord ==
  step \in {"idle", "hashed", "parsed", "resolved"} /\ legacy = {} /\ "patterns" \in DOMAIN printed =>
    newest = [units |-> {Unit(f, hashes[f], printed.parser) : f \in DOMAIN hashes},
              patterns |-> printed.patterns, resources |-> resources, whole |-> TRUE]

NewestOfRun ==
  /\ step = "parsed" /\ Sound => Full(units)
  /\ step \in {"resolved", "written", "recorded"} =>
       /\ built = [units |-> built.units, patterns |-> built.patterns,
                    resources |-> built.resources, whole |-> TRUE]
       /\ "resources" \in own \/ built.resources = resources
       /\ Sound => Full(built.units)
  /\ step \in {"written", "recorded"} => newest = built
  /\ step = "recorded" => hashes = current

\* Whatever happens between two runs or in the midst of one, what the cache and
\* the artifacts hold agrees with the hashes and the configuration on record,
\* unless a mishap that still counts says otherwise.
IncInv == RunTypeOK /\ CacheOfRecord /\ CacheOfRun /\ NewestOfRecord /\ NewestOfRun

\* A run that resolves a graph resolves the one a full parse of what it hashed
\* gives, whatever was edited and whichever runs died before; with the cache
\* this takes a cache that was never torn, shared, or short of a skipped file
\* since every file was last parsed.
WritesFullGraph == step \in {"resolved", "written", "recorded"} /\ Sound => Full(built.units)

\* When the gate of the no-op opens, the newest artifacts are those a full run
\* would write, unless a mishap is still to be made good.
ReuseIsFull ==
  step = "hashed" /\ NothingChanged /\ newest # NoGraph /\ legacy = {} =>
    /\ newest.whole /\ newest.units = FullUnits
    /\ newest.patterns = patterns /\ newest.resources = resources
=============================================================================
