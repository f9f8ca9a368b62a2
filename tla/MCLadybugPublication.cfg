\* Two publishers, three attempts, three tokens; processes die, calls fail and
\* the machine loses power between any two system calls.
CONSTANTS
  p1 = p1
  p2 = p2
  e1 = e1
  e2 = e2
  e3 = e3
  None = None
  Publishers = {p1, p2}
  Epochs = {e1, e2, e3}
  MaxFence = 3
  PowerFailures = TRUE
SPECIFICATION FairSpec
INVARIANTS
  FilesInv
  ReadersFindRecords
PROPERTIES
  OnlyCompleteGraphsPublished
  ImplementsPort
  AttemptsEnd
