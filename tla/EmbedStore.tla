------------------------------ MODULE EmbedStore ------------------------------
(***************************************************************************)
(* The embedding tables of Postgres (cih-embed/src/store.rs): chunk rows,  *)
(* and one vector per node, the mean of its chunk rows.  `cih embed` runs  *)
(* embed_nodes over the newest graph; the embed strategy of `cih discover` *)
(* fills the node vectors from the chunk rows when it finds none.  Both    *)
(* tables serve every repository that names the database, each statement   *)
(* commits on its own, and runs overlap, fail and die between any two.     *)
(*                                                                         *)
(* A graph is what embed_nodes makes of it: the chunks of its embeddable   *)
(* nodes in order.  A content hash, and an embedding, is the text it is    *)
(* made of; a vector is the rows it is the mean of.  Batching bounds the   *)
(* memory of a run and nothing else.                                       *)
(***************************************************************************)
EXTENDS Integers, Sequences

CONSTANTS
  Embeddable,   \* node ids, of all repositories
  Indices,      \* numbers of the chunks of a node
  Texts,
  NoText,
  Chunkings,    \* the graphs there are to embed
  Runners,      \* processes
  MaxEmbeds,    \* how many runs there are
  MayStop,      \* a run may fail or die
  OlderRelease  \* the chunk rows may come from a release without node vectors

ASSUME TextAssumption == NoText \notin Texts
ASSUME SwitchAssumption == {MayStop, OlderRelease} \subseteq BOOLEAN
Pieces == [node : Embeddable, idx : Indices, text : Texts]
ASSUME ChunkingsAssumption == Chunkings \subseteq Seq(Pieces)

VARIABLES
  rows,      \* cih_embeddings: node -> chunk -> text
  vectors,   \* cih_node_vectors: node -> the rows it is the mean of
  runner,    \* the run of each process
  embeds,    \* how many runs began
  alone,     \* history: the process whose run has had the tables to itself
  astray     \* history: why the vector of a node is not the mean of its rows

embedVars == <<rows, vectors, runner, embeds, alone, astray>>

NoRows == [i \in Indices |-> NoText]
HasRows(n) == rows[n] # NoRows
OnRecord(chunk) == rows[chunk.node][chunk.idx] = chunk.text

NodesOf(chunks) == {chunks[i].node : i \in DOMAIN chunks}

AtRest == [at |-> "rest", chunks |-> <<>>, existing |-> {}, next |-> 1, changed |-> {},
           means |-> [n \in Embeddable |-> NoRows], embeds |-> FALSE]

Causes == {"none", "older", "stopped", "pruned", "raced"}

\* What the tables hold at first: nothing, or the chunks an older release wrote.
PiecesAt(chunks, n, i) == {c \in DOMAIN chunks : chunks[c].node = n /\ chunks[c].idx = i}
Recorded(chunks) ==
  {table \in [Embeddable -> [Indices -> Texts \cup {NoText}]] : \A n \in Embeddable, i \in Indices :
     IF PiecesAt(chunks, n, i) = {} THEN table[n][i] = NoText
     ELSE \E c \in PiecesAt(chunks, n, i) : table[n][i] = chunks[c].text}
Before == IF OlderRelease THEN Chunkings ELSE {<<>>}

EmbedInit ==
  /\ rows \in UNION {Recorded(chunks) : chunks \in Before}
  /\ vectors = [n \in Embeddable |-> NoRows]
  /\ runner = [r \in Runners |-> AtRest]
  /\ embeds = 0
  /\ alone = {}
  /\ astray = [n \in Embeddable |-> IF HasRows(n) THEN "older" ELSE "none"]

-----------------------------------------------------------------------------
Resting(r) == runner[r].at \in {"rest", "done"}
Overlapped(r) == \E s \in Runners \ {r} : ~Resting(s)

Begin(r, first, chunks, embedding) ==
  /\ Resting(r) /\ embeds < MaxEmbeds
  /\ runner' = [runner EXCEPT ![r] =
       [AtRest EXCEPT !.at = first, !.chunks = chunks, !.embeds = embedding]]
  /\ embeds' = embeds + 1
  /\ alone' = IF Overlapped(r) THEN {} ELSE {r}
  /\ UNCHANGED <<rows, vectors, astray>>

BeginEmbed(r) == \E chunks \in Chunkings : Begin(r, "read", chunks, TRUE)

\* discover gives up when its graph has no embeddable node.
BeginDiscover(r) == \E chunks \in Chunkings \ {<<>>} : Begin(r, "count", chunks, FALSE)

\* existing_chunk_hashes: one look at the rows of the nodes of the graph.
ReadExisting(r) ==
  /\ runner[r].at = "read"
  /\ runner' = [runner EXCEPT ![r].at = "write",
       ![r].existing = {c \in DOMAIN runner[r].chunks : OnRecord(runner[r].chunks[c])}]
  /\ UNCHANGED <<rows, vectors, embeds, alone, astray>>

Writing(r) == runner[r].at = "write" /\ runner[r].next =< Len(runner[r].chunks)
Chunk(r) == runner[r].chunks[runner[r].next]

\* A chunk on record with the same hash is not embedded again.
SkipChunk(r) ==
  /\ Writing(r)
  /\ runner[r].next \in runner[r].existing
  /\ runner' = [runner EXCEPT ![r].next = @ + 1]
  /\ UNCHANGED <<rows, vectors, embeds, alone, astray>>

\* Mutant: only a new chunk makes its node one to refresh.
UpsertChunkUncounted(r) ==
  LET chunk == Chunk(r)
  IN  /\ Writing(r)
      /\ runner[r].next \notin runner[r].existing
      /\ rows' = [rows EXCEPT ![chunk.node][chunk.idx] = chunk.text]
      /\ runner' = [runner EXCEPT ![r].next = @ + 1,
           ![r].changed = IF rows[chunk.node][chunk.idx] = NoText THEN @ \cup {chunk.node} ELSE @]
      /\ UNCHANGED <<vectors, embeds, alone, astray>>
\* Any other is embedded and written, and its node is one to refresh.
UpsertChunk(r) ==
  LET chunk == Chunk(r)
  IN  /\ Writing(r)
      /\ runner[r].next \notin runner[r].existing
      /\ rows' = [rows EXCEPT ![chunk.node][chunk.idx] = chunk.text]
      /\ runner' = [runner EXCEPT ![r].next = @ + 1, ![r].changed = @ \cup {chunk.node}]
      /\ UNCHANGED <<vectors, embeds, alone, astray>>

AllWritten(r) ==
  /\ runner[r].at = "write" /\ runner[r].next > Len(runner[r].chunks)
  /\ runner' = [runner EXCEPT ![r].at = "refresh"]
  /\ UNCHANGED <<rows, vectors, embeds, alone, astray>>

\* node_vector_count: discover heals only a table that is empty.
CountVectors(r) ==
  /\ runner[r].at = "count"
  /\ runner' = IF \A n \in Embeddable : vectors[n] = NoRows
               THEN [runner EXCEPT ![r].at = "refresh", ![r].changed = NodesOf(runner[r].chunks)]
               ELSE [runner EXCEPT ![r].at = "done"]
  /\ UNCHANGED <<rows, vectors, embeds, alone, astray>>

-----------------------------------------------------------------------------
\* upsert_node_vectors averages the rows of the changed nodes that have any, as
\* they are when its statement begins ...
AverageRows(r) ==
  /\ runner[r].at = "refresh"
  /\ runner' = [runner EXCEPT ![r].at = "store",
       ![r].means = [n \in Embeddable |-> IF n \in runner[r].changed THEN rows[n] ELSE NoRows]]
  /\ UNCHANGED <<rows, vectors, embeds, alone, astray>>

\* ... and its averages are there when it commits: over those another run has
\* stored meanwhile, of rows another run may have written meanwhile.
StoreVectors(r) ==
  LET means == runner[r].means
  IN  /\ runner[r].at = "store"
      /\ vectors' = [n \in Embeddable |-> IF means[n] # NoRows THEN means[n] ELSE vectors[n]]
      /\ astray' = [n \in Embeddable |->
           IF means[n] = NoRows THEN astray[n] ELSE IF means[n] = rows[n] THEN "none" ELSE "raced"]
      /\ runner' = [runner EXCEPT ![r].at = "prune", ![r].changed = {}, ![r].means = AtRest.means]
      /\ UNCHANGED <<rows, embeds, alone>>

\* Mutant: pruned down to the nodes with chunks on record.
KeptOnRecord(r) == {n \in Embeddable : HasRows(n)}
\* prune_node_vectors: an empty graph prunes nothing.
Kept(r) == IF runner[r].chunks = <<>> THEN Embeddable ELSE NodesOf(runner[r].chunks)
PruneVectors(r) ==
  /\ runner[r].at = "prune"
  /\ vectors' = [n \in Embeddable |-> IF n \in Kept(r) THEN vectors[n] ELSE NoRows]
  /\ astray' = [n \in Embeddable |-> IF n \notin Kept(r) /\ HasRows(n) THEN "pruned" ELSE astray[n]]
  /\ runner' = [runner EXCEPT ![r].at = "done"]
  /\ UNCHANGED <<rows, embeds, alone>>

\* A statement or the model fails, or the process dies: what it was going to
\* refresh is forgotten.
Stop(r) ==
  /\ MayStop
  /\ ~Resting(r)
  /\ astray' = [n \in Embeddable |->
       IF n \in runner[r].changed /\ vectors[n] # rows[n] THEN "stopped" ELSE astray[n]]
  /\ runner' = [runner EXCEPT ![r] = AtRest]
  /\ UNCHANGED <<rows, vectors, embeds, alone>>

EmbedNext == \E r \in Runners :
  \/ BeginEmbed(r) \/ BeginDiscover(r)
  \/ ReadExisting(r) \/ SkipChunk(r) \/ UpsertChunk(r) \/ AllWritten(r)
  \/ CountVectors(r) \/ AverageRows(r) \/ StoreVectors(r) \/ PruneVectors(r)
  \/ Stop(r)

EmbedSpec == EmbedInit /\ [][EmbedNext]_embedVars

-----------------------------------------------------------------------------
(* Properties *)

RowsOfNode == [Indices -> Texts \cup {NoText}]

EmbedRuns ==
  [at : {"rest", "read", "write", "count", "refresh", "store", "prune", "done"},
   chunks : Chunkings \cup {<<>>}, existing : SUBSET Nat, next : Nat \ {0},
   changed : SUBSET Embeddable, means : [Embeddable -> RowsOfNode], embeds : BOOLEAN]

EmbedTypeOK ==
  /\ rows \in [Embeddable -> RowsOfNode]
  /\ vectors \in [Embeddable -> RowsOfNode]
  /\ runner \in [Runners -> EmbedRuns]
  /\ embeds \in Nat
  /\ alone \subseteq Runners
  /\ astray \in [Embeddable -> Causes]

\* The vector of n has yet to be made by r.
Refreshes(r, n) ==
  n \in runner[r].changed /\ (runner[r].at = "store" => runner[r].means[n] # NoRows)

\* Whatever overlaps and dies, the vector of a node is the mean of all its rows
\* unless a run under way has yet to make it, or one stopped before it did, or
\* stored the mean of rows another run was writing, or the vector was pruned while
\* the rows stayed, or an older release never made it.
VectorsFollowRows ==
  \A n \in Embeddable :
    vectors[n] = rows[n] \/ astray[n] # "none" \/ \E r \in Runners : Refreshes(r, n)

\* A node with a vector has rows; what a run has averaged has rows and is among
\* the nodes it wrote.
EmbedBookkeeping ==
  /\ \A n \in Embeddable : vectors[n] # NoRows => HasRows(n)
  /\ \A r \in Runners, n \in Embeddable :
       /\ n \in runner[r].changed => runner[r].at \in {"write", "refresh", "store"}
       /\ runner[r].means[n] # NoRows => runner[r].at = "store" /\ n \in runner[r].changed /\ HasRows(n)

EmbedInv == EmbedTypeOK /\ VectorsFollowRows /\ EmbedBookkeeping

\* No other chunk of the graph has the place of this one: nodes of one id, which
\* nothing keeps out of a graph, write over each other's chunks.
Sole(chunks, c) == PiecesAt(chunks, chunks[c].node, chunks[c].idx) = {c}

\* A run that nothing overlapped, over a graph with nodes, leaves every chunk of
\* its graph on record, vectors of no other nodes, and for its nodes the means
\* of their rows, those excepted that a run before led astray and it did not
\* have to write.
RunSettles ==
  \A r \in alone :
    LET run == runner[r] nodes == NodesOf(run.chunks)
    IN  run.at = "done" /\ run.embeds /\ nodes # {} =>
          /\ \A c \in DOMAIN run.chunks : Sole(run.chunks, c) => OnRecord(run.chunks[c])
          /\ \A n \in Embeddable \ nodes : vectors[n] = NoRows
          /\ \A n \in nodes : astray[n] = "none" => vectors[n] = rows[n]

\* "prune the table to the current embeddable set so it always equals the
\* current graph": after a run that nothing overlapped, the nodes with a vector
\* are those of its graph.
VectorsOfGraph ==
  \A r \in alone :
    LET run == runner[r] nodes == NodesOf(run.chunks)
    IN  run.at = "done" /\ run.embeds /\ nodes # {} => {n \in Embeddable : vectors[n] # NoRows} = nodes
=============================================================================
