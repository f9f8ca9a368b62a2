\* One commit, runs in place that may die; no requests.
SPECIFICATION WikiSpec
CONSTANTS
    Classes = {1, 2, 3}
    FeatureOf <- FeaturesOfClasses
    Contents = {x, y, gone}
    Absent = gone
    Nothing = Nothing
    Staging = {FALSE}
    WikiReaders = {}
    MaxCommits = 2
    MaxWikiRuns = 2
INVARIANT SuccessClears
CHECK_DEADLOCK FALSE
