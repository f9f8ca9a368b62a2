\* One run after the other, none of which fails, from empty tables.
SPECIFICATION EmbedSpec
CONSTANTS
  Embeddable = {1, 2}
  Indices = {0, 1}
  Texts = {oldText, newText}
  NoText = NoText
  Chunkings <- AllChunkings
  Runners = {p1}
  MaxEmbeds = 3
  MayStop = FALSE
  OlderRelease = FALSE
  oldText = oldText
  newText = newText
INVARIANT VectorsOfGraph
CHECK_DEADLOCK FALSE
