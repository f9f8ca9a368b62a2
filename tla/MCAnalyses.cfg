SPECIFICATION Spec
CONSTANTS
  Nodes = {1, 2, 3, 4}
  Tables = {4}
  BatchSize = 1
  Graphs <- AllGraphs
  Requests <- Asked
  Files = {1, 2}
  Scopes <- OneOrBoth
  Contents = {text1, text2}
  Parsers = {v1, v2}
  Patterns = {t1, t2}
  Resources = {r1, r2}
  Imports <- OneImport
  MaxEdits = 2
  MaxRuns = 3
  MaxFaults = 1
  Programs <- AllPrograms
  Params <- OneParam
  Methods = {1, 2, 3, 4, 5, 8, 9}
  CallGraphs <- AllCalls
  Handlers = {1, 4}
  Dangerous = {8}
  Sanitizers = {9}
  Queriers = {5}
  MaxHops = 2
  Embeddable = {1, 2}
  Indices = {0, 1}
  Texts = {oldText, newText}
  NoText = NoText
  Chunkings <- AllChunkings
  Runners = {r1, r2}
  MaxEmbeds = 3
  MayStop = TRUE
  OlderRelease = TRUE
  oldText = oldText
  newText = newText
  text1 = text1
  t1 = t1
  r1 = r1
SYMMETRY Interchangeable
INVARIANTS
  TraversalInv AnswersHonest
  IncInv WritesFullGraph ReuseIsFull
  TaintExact
  PathsFound
  EmbedInv RunSettles
CHECK_DEADLOCK FALSE
