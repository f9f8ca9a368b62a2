----------------------------- MODULE MCEmbedStore -----------------------------
(* Graphs over the nodes 1 and 2: a node that leaves and comes back (or       *)
(* belongs to another repository), a text that changes, a node that shrinks,  *)
(* two nodes of one id, and an empty graph.                                   *)
EXTENDS EmbedStore

CONSTANTS oldText, newText

Piece(n, i, t) == [node |-> n, idx |-> i, text |-> t]

AllChunkings ==
  {<<>>, <<Piece(1, 0, oldText)>>, <<Piece(1, 0, oldText), Piece(2, 0, oldText)>>,
   <<Piece(1, 0, newText), Piece(1, 1, oldText), Piece(2, 0, oldText)>>,
   <<Piece(1, 0, oldText), Piece(1, 0, newText)>>}
=============================================================================
