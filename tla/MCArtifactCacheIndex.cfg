\* The identity under which the indexes are persisted is probed after the load.
SPECIFICATION Spec
CONSTANTS
    d1 = d1
    d2 = d2
    Dirs = {d1, d2}
    Callers = {c1, c2}
    MaxEntries = 2
    MaxWeight = 2
    MaxStamp = 2
    NoGate = NoGate
    NoSnap = NoSnap
    Workloads <- RewriteOnly
SYMMETRY Symmetry
INVARIANTS
    SidecarHonest
