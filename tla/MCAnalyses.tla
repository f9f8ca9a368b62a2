----------------------------- MODULE MCAnalyses -----------------------------
(* Five computations that share nothing, each explored on its own: the      *)
(* walks over the graph, the incremental analysis, taint in a method and    *)
(* between methods, and the embedding tables.  Only the machine named by    *)
(* task moves; the others rest in one of their initial states.              *)
EXTENDS GraphTraversal, IncrementalAnalyze, TaintFlow, TaintPaths, MCEmbedStore, TLC

CONSTANTS text1, t1, r1

VARIABLE task

-----------------------------------------------------------------------------
(* Walks: every graph with at most four edges of a pool that has cycles,    *)
(* parallel edges, a loop and a table                                       *)

e(s, d, k) == [src |-> s, dst |-> d, kind |-> k]
Pool ==
  {e(1, 2, Calls), e(1, 3, Calls), e(2, 3, Calls), e(3, 2, Calls), e(3, 1, Calls), e(2, 2, Calls),
   e(2, 4, Calls), e(3, 4, Calls), e(2, 1, Handles), e(3, 2, Handles),
   e(2, 4, Reads), e(2, 4, Writes), e(3, 4, Writes)}
AllGraphs == {g \in SUBSET Pool : Cardinality(g) =< 4}

Ask(op) ==
  [op |-> op, seeds |-> {1}, depth |-> 3, nodes |-> 4, edges |-> 9, limit |-> 4, offset |-> 0,
   direction |-> "downstream", hidden |-> {}, target |-> 4, access |-> 0]
Asked ==
  {[Ask("impact") EXCEPT !.limit = 2], [Ask("impact") EXCEPT !.direction = "both", !.edges = 3],
   [Ask("impact") EXCEPT !.direction = "upstream", !.nodes = 2, !.seeds = {2}],
   [Ask("subgraph") EXCEPT !.seeds = {1, 4}, !.depth = 2], [Ask("subgraph") EXCEPT !.nodes = 3, !.edges = 4],
   [Ask("flow") EXCEPT !.limit = 1, !.offset = 1, !.hidden = {1, 2}], [Ask("flow") EXCEPT !.nodes = 2],
   [Ask("flow") EXCEPT !.edges = 2],
   Ask("paths"), [Ask("paths") EXCEPT !.access = Writes, !.limit = 1], [Ask("paths") EXCEPT !.edges = 3],
   [Ask("paths") EXCEPT !.nodes = 3], [Ask("paths") EXCEPT !.target = 1], [Ask("paths") EXCEPT !.target = 3, !.depth = 2]}

-----------------------------------------------------------------------------
(* Incremental analysis: file 1 imports file 2, runs over one or both       *)

OneImport == {<<1, 2>>}
OneOrBoth == {{1}, {1, 2}}

Interchangeable ==
  Permutations(Contents) \union Permutations(Parsers) \union Permutations(Patterns) \union Permutations(Resources)

-----------------------------------------------------------------------------
(* Taint in a method: a start, every control structure over small bodies,   *)
(* and a sink                                                               *)

Node(op, id, reads) ==
  [op |-> op, id |-> id, reads |-> reads, writes |-> {}, args |-> {}, call |-> "none", kind |-> "other"]
Set(id, w, r) == [Node("plain", id, r) EXCEPT !.writes = {w}, !.kind = "assign"]
Clean(id, w, r) == [Set(id, w, {r}) EXCEPT !.args = {r}, !.call = "sanitizer"]
Sink(id, v) == [Node("plain", id, {v}) EXCEPT !.args = {v}, !.call = "sink", !.kind = "call"]
Return(id) == [Node("return", id, {}) EXCEPT !.kind = "return"]

Moves(id) == {Set(id, "x", {"p"}), Set(id, "x", {}), Set(id, "y", {"x"}), Sink(id, "y")}
Leaves(id) == Moves(id) \union {Clean(id, "x", "x"), Sink(id, "x"), Return(id)}
One(id) == {<<s>> : s \in Leaves(id)}
UpToTwo(id) == {<<>>} \union One(id) \union {<<s, t>> : s \in Leaves(id), t \in Leaves(id + 1)}

If(id, then, else) == [op |-> "if", then |-> then, else |-> else, both |-> else # <<>>] @@ Node("if", id, {"x"})
While(id, body) == [op |-> "while", body |-> body] @@ Node("while", id, {"x"})
Do(id, body) == [op |-> "do", body |-> body] @@ Node("do", id, {"x"})
Try(id, body, handler, last, finally) ==
  [op |-> "try", body |-> body, handlers |-> <<handler>>, last |-> last, finally |-> finally] @@ Node("try", id, {})
Switch(id, groups) == [op |-> "switch", groups |-> groups] @@ Node("switch", id, {"x"})

Structures(id) ==
  UNION {
    {If(id, s, t) : s \in UpToTwo(id + 1), t \in {<<>>} \union One(id + 3)},
    {While(id, s) : s \in UpToTwo(id + 1)},
    {While(id, <<s, t, u>>) : s \in Moves(id + 1), t \in Moves(id + 2), u \in Moves(id + 3)},
    {While(id, <<While(id + 1, <<s>>), t>>) : s \in Moves(id + 2), t \in Moves(id + 3)},
    {While(id, <<If(id + 1, s, <<>>)>> \o t) : s \in One(id + 2), t \in One(id + 3)},
    {Do(id, s) : s \in UpToTwo(id + 1)},
    {Do(id, <<t, If(id + 1, s, <<>>)>>) : s \in One(id + 2), t \in Leaves(id + 3)},
    {Try(id, s, t, FALSE, <<>>) : s \in UpToTwo(id + 1), t \in One(id + 3)},
    {Try(id, s, t, TRUE, u) : s \in One(id + 1), t \in One(id + 3), u \in One(id + 5)},
    {Switch(id, <<s, t>>) : s \in One(id + 1), t \in One(id + 3)}}

Starts == {Set(1, "x", {"p"}), Set(1, "x", {}), Return(1)}
AllPrograms == {<<s, t, u>> : s \in Starts, t \in Structures(10), u \in {Sink(30, "x"), Sink(30, "y")}}
OneParam == {"p"}

-----------------------------------------------------------------------------
(* Taint between methods: handlers 1 and 4, a sink rule on 8, a sanitizer   *)
(* rule on 9, dynamic queries in 5                                          *)

CallPool ==
  {<<1, 2>>, <<1, 3>>, <<1, 8>>, <<2, 3>>, <<2, 4>>, <<2, 8>>, <<3, 2>>, <<3, 4>>, <<3, 9>>, <<4, 1>>, <<4, 5>>, <<4, 8>>}
AllCalls == {c \in SUBSET CallPool : Cardinality(c) \in 4 .. 9}

-----------------------------------------------------------------------------

Init ==
  /\ task \in {"walk", "analyze", "flow", "paths", "embed"}
  /\ task # "walk" => graph = {} /\ request = Ask("paths")
  /\ task # "flow" => program = <<Return(1), If(10, <<>>, <<>>), Sink(30, "x")>>
  /\ task # "paths" => calls = {c \in CallPool : c[1] = 4} \union {<<1, 2>>}
  /\ task # "analyze" => source = [f \in Files |-> text1] /\ patterns = t1 /\ resources = r1
  /\ task # "embed" => rows = [n \in Embeddable |-> NoRows]
  /\ EmbedInit /\ FlowInit /\ PathsInit /\ IncInit /\ TraversalInit

vars == <<task, walkVars, incVars, flowVars, pathVars, embedVars>>

Next ==
  /\ task' = task
  /\ \/ task = "walk" /\ TraversalNext /\ UNCHANGED <<incVars, flowVars, pathVars, embedVars>>
     \/ task = "analyze" /\ IncNext /\ UNCHANGED <<walkVars, flowVars, pathVars, embedVars>>
     \/ task = "flow" /\ FlowNext /\ UNCHANGED <<walkVars, incVars, pathVars, embedVars>>
     \/ task = "paths" /\ PathsNext /\ UNCHANGED <<walkVars, incVars, flowVars, embedVars>>
     \/ task = "embed" /\ EmbedNext /\ UNCHANGED <<walkVars, incVars, flowVars, pathVars>>

Spec == Init /\ [][Next]_vars
=============================================================================
