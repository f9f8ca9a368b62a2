\* Repositories: two processes; any two of a crash, a damaged primary, a power loss
\* and a failed load, in either order.  Groups: two processes run three commands
\* over two repositories, from no group or one of both, either of which may fail at any point.
SPECIFICATION RegistriesSpec
CONSTANTS
  Actors = {a1, a2}
  None = None
  Missing = Missing
  Bad = Bad
  MaxCrashes = 1
  MaxCorruptions = 1
  MaxPowerLosses = 1
  MaxLoadFailures = 1
  MaxTroubles = 2
  Members = {m1, m2}
  NoGroup = NoGroup
  Commands = {a1, a2}
  Nobody = Nobody
  MaxCommands = 3
  MaxVersion = 2
  CoarseTime = TRUE
SYMMETRY Symmetry
INVARIANTS
  RegistryInv
  AckedSurvive
  GroupsInv
PROPERTIES
  SequenceAdvances
