\* Three loads of one key after each other, one reader.
SPECIFICATION Spec
CONSTANTS
    Attempts = {a1, a2, a3}
    Readers = {r1}
    OpenTries = 2
    MaxFailures = 1
    LogKept = {TRUE}
    NoGraph = NoGraph
    Error = Error
SYMMETRY Symmetry
INVARIANTS
    StoreInv
    AnswersLive
PROPERTIES
    ImplementsKeyPort
