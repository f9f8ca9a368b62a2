\* Two runs at a time over two versions, two epochs and two tokens, and one
\* request; runs overlap, fail and die.
SPECIFICATION Spec
CONSTANTS
  Publishers = {p1, p2}
  Epochs = {e1, e2}
  None = None
  MaxFence = 2
  PowerFailures = FALSE
  FenceFailures = TRUE
  Readers = {r}
  MaxVersions = 2
SYMMETRY Symmetry
CHECK_DEADLOCK FALSE
INVARIANTS
  PipelineInv
  OneChain
  PublishedGraphIsWhole
  OneVersionEverywhere
PROPERTIES
  RegistryMirrorsPublication
