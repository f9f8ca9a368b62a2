SPECIFICATION Spec
CONSTANTS
  Actors = {a1, a2}
  None = None
  Missing = Missing
  Bad = Bad
  MaxCrashes = 0
  MaxCorruptions = 0
  MaxPowerLosses = 0
  MaxLoadFailures = 0
INVARIANT ReadsAreFresh
