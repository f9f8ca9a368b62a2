\* Artifacts: entries dropped in every way, or files rewritten under callers
\* that want indexes.  Wiki: two commits, runs of every kind that may die anywhere.
SPECIFICATION CachesSpec
CONSTANTS
    d1 = d1
    d2 = d2
    Dirs = {d1, d2}
    Callers = {c1, c2}
    MaxEntries = 2
    MaxWeight = 2
    MaxStamp = 2
    NoGate = NoGate
    NoSnap = NoSnap
    Workloads <- DropOrRewrite
    Classes = {1, 2, 3}
    FeatureOf <- FeaturesOfClasses
    Contents = {x, y, gone}
    Absent = gone
    Nothing = Nothing
    Staging = {TRUE, FALSE}
    WikiReaders = {1, 2}
    MaxCommits = 2
    MaxWikiRuns = 3
SYMMETRY Symmetry
INVARIANTS
    CacheInv
    HonestCache
    WikiInv
    RunsWhole
