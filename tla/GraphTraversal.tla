--------------------------- MODULE GraphTraversal ---------------------------
(***************************************************************************)
(* The breadth-first walks shared by the graph stores                      *)
(* (cih-graph-store/src/traversal.rs): impact and subgraph follow stored   *)
(* edges, flow and paths follow logical execution transitions.  A walk     *)
(* asks the backend for one layer at a time, in batches of sources, and    *)
(* stops at a depth, a node budget, an edge budget, or when the backend    *)
(* cannot continue a page; it then says how complete its answer is.        *)
(*                                                                         *)
(* A node is a number, and names and ids are ordered as the numbers are.   *)
(* Ranks in an order stand for positions in a sorted vector.  Confidence,  *)
(* reason, properties and call sites of an edge are left out, and so are   *)
(* the calls refused before the walk (RequestsAssumption names them).      *)
(***************************************************************************)
EXTENDS Integers, FiniteSets, Sequences

CONSTANTS
  Nodes,        \* the symbols of the repository
  Tables,       \* those that are database tables
  Graphs,       \* the graphs considered, each a set of edges
  Requests,     \* the calls considered
  BatchSize     \* EXECUTION_BATCH_SIZE: sources per query to the backend

\* The kinds told apart, in the order of their labels.  The logical walks
\* follow calls forward and routes backward; reads and writes lead to tables.
Calls == 1
Handles == 2
Reads == 3
Writes == 4
Kinds == {Calls, Handles, Reads, Writes}

Edges == [src : Nodes, dst : Nodes, kind : Kinds]
Links == [from : Nodes, to : Nodes, edge : Edges, back : {0, 1}]
AllRequests ==
  [op : {"impact", "subgraph", "flow", "paths"}, seeds : SUBSET Nodes, depth : Nat,
   nodes : Nat \ {0}, edges : Nat \ {0}, limit : Nat \ {0}, offset : Nat,
   direction : {"upstream", "downstream", "both"}, hidden : SUBSET Nodes,
   target : Nodes, access : {0, Reads, Writes}]

ASSUME NodesAssumption == Nodes \subseteq Nat \ {0} /\ IsFiniteSet(Nodes)
ASSUME GraphsAssumption == \A g \in Graphs : g \subseteq Edges /\ IsFiniteSet(g)
ASSUME BatchAssumption == BatchSize \in Nat \ {0}
\* Impact, flow and paths start at one node, a subgraph has no more roots than
\* its node limit, and an access filter names a table.
ASSUME RequestsAssumption ==
  \A r \in Requests :
    /\ r \in AllRequests
    /\ Cardinality(r.seeds) =< r.nodes
    /\ r.op # "subgraph" => Cardinality(r.seeds) = 1
    /\ r.op = "paths" /\ r.access # 0 => r.target \in Tables

VARIABLES
  graph,      \* the edges of the graph the call reads
  request,    \* the call
  layer,      \* depth of the frontier
  frontier,   \* nodes to expand next
  depthOf,    \* the depth of every node reached
  parentOf,   \* the node it was reached from, 0 for a seed
  links,      \* transitions kept: edges of a subgraph, predecessors of paths
  expanded,   \* number of transitions examined
  reasons,    \* why the scope was not evaluated completely
  answer      \* the page returned

walkVars == <<graph, request, layer, frontier, depthOf, parentOf, links, expanded, reasons, answer>>

NoAnswer == [status |-> "none"]

TraversalInit ==
  /\ graph \in Graphs
  /\ request \in Requests
  /\ layer = 0
  /\ frontier = request.seeds
  /\ depthOf = [n \in request.seeds |-> 0]
  /\ parentOf = [n \in request.seeds |-> 0]
  /\ links = {}
  /\ expanded = 0
  /\ reasons = {}
  /\ answer = NoAnswer

Reached == DOMAIN depthOf

-----------------------------------------------------------------------------
(* One layer from the backend *)

Forward(ks) == {[from |-> e.src, to |-> e.dst, edge |-> e, back |-> 0] : e \in {e \in graph : e.kind \in ks}}
Backward(ks) == {[from |-> e.dst, to |-> e.src, edge |-> e, back |-> 1] : e \in {e \in graph : e.kind \in ks}}

\* The one-hop transitions a call may follow.
Transitions ==
  CASE request.op = "impact" ->
         (IF request.direction # "upstream" THEN Forward({Calls}) ELSE {})
           \union (IF request.direction # "downstream" THEN Backward({Calls}) ELSE {})
    [] request.op = "subgraph" -> Forward(Kinds) \union Backward(Kinds)
    [] request.op = "flow" -> Forward({Calls}) \union Backward({Handles})
    [] OTHER -> Forward({Calls, Reads, Writes}) \union Backward({Handles})

Out == {t \in Transitions : t.from \in frontier}

\* The order in which the backend delivers a layer: batch by batch, a stored
\* batch by source and target, a logical one by target and source.
BatchOf(n) == Cardinality({f \in frontier : f < n}) \div BatchSize
Key(t) ==
  IF request.op \in {"impact", "subgraph"}
    THEN <<0, t.from, t.to, t.edge.kind, t.back>>
    ELSE <<BatchOf(t.from), t.to, t.from, t.edge.kind, t.back>>
Lex(a, b) == \E i \in 1 .. 5 : a[i] < b[i] /\ \A j \in 1 .. 5 : j < i => a[j] = b[j]
Sooner == {p \in Out \X Out : Lex(Key(p[1]), Key(p[2]))}

\* The first n elements of S in the order R.
FirstOf(S, n, R) == {s \in S : Cardinality({r \in S : <<r, s>> \in R}) < n}

\* The edges left; a batch is asked for while there are some, so a layer is
\* whole when it fits and its last batch was asked for.
Room == request.edges - expanded
WholeUnchecked == TRUE  \* mutant: the edge budget is not compared
Whole ==
  /\ Cardinality(Out) =< Room
  /\ \A f \in frontier : Cardinality({t \in Out : BatchOf(t.from) < BatchOf(f)}) < Room

\* Everything, what the budget covers, or, when a page of stored transitions
\* cannot be continued, what came before.
Layers ==
  (IF Whole THEN {[took |-> Out, why |-> {}]}
            ELSE {[took |-> FirstOf(Out, Room, Sooner), why |-> {"edge budget"}]})
    \union {[took |-> FirstOf(Out, n, Sooner), why |-> {"backend limit"}] :
              n \in {n \in 0 .. Cardinality(Out) - 1 :
                       n =< Room /\ request.op \in {"impact", "subgraph"}}}

-----------------------------------------------------------------------------
(* The layers of a walk *)

\* A path ends at the first arrival at its target by an edge the access filter
\* accepts; other arrivals at it are passed over.
Accepted(t) == t.to = request.target /\ request.access # 0 => t.edge.kind = request.access
Found ==
  /\ request.op = "paths"
  /\ request.target \in Reached
  /\ request.target \in request.seeds => request.access = 0

Going == answer = NoAnswer /\ layer < request.depth /\ frontier # {} /\ reasons = {} /\ ~Found

Sources(T, n) == {t.from : t \in {u \in T : u.to = n}}
FirstSource(T, n) == CHOOSE f \in Sources(T, n) : \A g \in Sources(T, n) : f =< g

\* New nodes are met by name, in a subgraph by source and then by name, and
\* taken while the node budget lasts.
Met(T, N) ==
  {p \in N \X N :
     IF request.op = "subgraph" /\ FirstSource(T, p[1]) # FirstSource(T, p[2])
       THEN FirstSource(T, p[1]) < FirstSource(T, p[2])
       ELSE p[1] < p[2]}
Fresh(T) == {t.to : t \in T} \ Reached
Taken(T) == FirstOf(Fresh(T), request.nodes - Cardinality(Reached), Met(T, Fresh(T)))

Reach(T, why) ==
  /\ layer' = layer + 1
  /\ depthOf' = [n \in Reached \union Taken(T) |-> IF n \in Reached THEN depthOf[n] ELSE layer + 1]
  /\ parentOf' = [n \in Reached \union Taken(T) |-> IF n \in Reached THEN parentOf[n] ELSE FirstSource(T, n)]
  /\ reasons' = reasons \union why \union (IF Taken(T) = Fresh(T) THEN {} ELSE {"node budget"})
  /\ UNCHANGED <<graph, request, answer>>

WalkTree ==
  /\ request.op \in {"impact", "flow"}
  /\ Going
  /\ \E x \in Layers :
       /\ Reach(x.took, x.why)
       /\ frontier' = Taken(x.took)
       /\ expanded' = expanded + Cardinality(x.took)
  /\ UNCHANGED links

WalkSubgraph ==
  /\ request.op = "subgraph"
  /\ Going
  /\ \E x \in Layers :
       /\ Reach(x.took, x.why)
       /\ frontier' = Taken(x.took)
       /\ expanded' = expanded + Cardinality(x.took)
       /\ links' = links \union x.took

\* All arrivals of the layer at a node new in it.
Predecessors(T) == {t \in T : t.to \in Taken(T)}

WalkPaths ==
  /\ request.op = "paths"
  /\ Going
  /\ \E x \in Layers :
       LET T == {t \in x.took : Accepted(t)} IN
       /\ Reach(T, x.why)
       /\ frontier' = Taken(T) \ {request.target}
       /\ expanded' = expanded + Cardinality(x.took)
       /\ links' = links \union Predecessors(T)

-----------------------------------------------------------------------------
(* The answers *)

\* Sorted by depth and name.
Listed(N) == {p \in N \X N : depthOf[p[1]] < depthOf[p[2]] \/ (depthOf[p[1]] = depthOf[p[2]] /\ p[1] < p[2])}

StatusByPage(limited) == IF limited THEN "truncated" ELSE "complete"  \* mutant: reasons are not looked at
StatusOf(limited) ==
  IF reasons # {} THEN "inconclusive" ELSE IF limited THEN "truncated" ELSE "complete"

ReportImpact ==
  /\ request.op = "impact"
  /\ answer = NoAnswer /\ ~Going
  /\ LET affected == Reached \ request.seeds IN
     answer' = [status |-> StatusOf(Cardinality(affected) > request.limit),
                nodes |-> FirstOf(affected, request.limit, Listed(affected)),
                evaluated |-> Cardinality(affected)]
  /\ UNCHANGED <<graph, request, layer, frontier, depthOf, parentOf, links, expanded, reasons>>

ReportSubgraph ==
  /\ request.op = "subgraph"
  /\ answer = NoAnswer /\ ~Going
  /\ answer' = [status |-> StatusOf(FALSE),
                nodes |-> Reached,
                edges |-> {e \in {t.edge : t \in links} : e.src \in Reached /\ e.dst \in Reached}]
  /\ UNCHANGED <<graph, request, layer, frontier, depthOf, parentOf, links, expanded, reasons>>

\* Hidden nodes are walked through but not shown; the entry always is.
ReportFlow ==
  /\ request.op = "flow"
  /\ answer = NoAnswer /\ ~Going
  /\ LET visible == Reached \ (request.hidden \ request.seeds)
         end == request.offset + request.limit IN
     answer' = [status |-> StatusOf(FALSE),
                nodes |-> FirstOf(visible, end, Listed(visible))
                            \ FirstOf(visible, request.offset, Listed(visible)),
                more |-> Cardinality(visible) > end]
  /\ UNCHANGED <<graph, request, layer, frontier, depthOf, parentOf, links, expanded, reasons>>

\* The chains of k predecessors that end at the target.
Back[k \in Nat] ==
  IF k = 0 THEN {<<>>}
  ELSE UNION {{<<l>> \o c : l \in {l \in links : l.to = IF c = <<>> THEN request.target ELSE c[1].from}} :
                c \in Back[k - 1]}

ReportPaths ==
  /\ request.op = "paths"
  /\ answer = NoAnswer /\ ~Going
  /\ IF Found
       THEN LET all == Back[depthOf[request.target]] IN
            \E shown \in SUBSET all :
              /\ Cardinality(shown) = request.limit \/ (shown = all /\ Cardinality(all) < request.limit)
              /\ answer' = [status |-> StatusOf(FALSE), paths |-> shown,
                            more |-> Cardinality(all) > request.limit]
       ELSE answer' = [status |-> StatusOf(FALSE), paths |-> {}, more |-> FALSE]
  /\ UNCHANGED <<graph, request, layer, frontier, depthOf, parentOf, links, expanded, reasons>>

TraversalNext ==
  WalkTree \/ WalkSubgraph \/ WalkPaths \/ ReportImpact \/ ReportSubgraph \/ ReportFlow \/ ReportPaths

TraversalSpec == TraversalInit /\ [][TraversalNext]_walkVars

-----------------------------------------------------------------------------
(* What a walk keeps true *)

TraversalTypeOK ==
  /\ graph \in Graphs
  /\ request \in Requests
  /\ layer \in Nat
  /\ frontier \subseteq Reached
  /\ Reached \subseteq Nodes
  /\ depthOf \in [Reached -> Nat]
  /\ parentOf \in [Reached -> Nodes \union {0}]
  /\ links \subseteq Transitions
  /\ expanded \in Nat
  /\ reasons \subseteq {"edge budget", "backend limit", "node budget"}
  /\ answer.status \in {"none", "complete", "truncated", "inconclusive"}

\* Depths count layers: a seed has depth 0, any other node was reached by a
\* transition from a node one layer above it.
LayersStep ==
  /\ request.seeds \subseteq Reached
  /\ \A n \in Reached : depthOf[n] =< layer /\ (depthOf[n] = 0 <=> n \in request.seeds)
  /\ \A n \in Reached \ request.seeds :
       /\ parentOf[n] \in Reached /\ depthOf[n] = depthOf[parentOf[n]] + 1
       /\ \E t \in Transitions : t.from = parentOf[n] /\ t.to = n

\* While nothing cut the walk short, no way out of an expanded node is missing
\* and none leads more than one layer down.
LayersComplete ==
  reasons = {} =>
    /\ ~Found => frontier = {n \in Reached : depthOf[n] = layer}
    /\ \A t \in Transitions :
         /\ t.from \in Reached /\ depthOf[t.from] < layer
         /\ request.op = "paths" => Accepted(t)
         => t.to \in Reached /\ depthOf[t.to] =< depthOf[t.from] + 1

BudgetsHeld == Cardinality(Reached) =< request.nodes /\ expanded =< request.edges

\* A walk over any graph, however it is cut, keeps to its node and edge
\* budgets, gives every node the depth of its first layer, and misses no
\* transition of an expanded layer unless it says why.
TraversalInv == TraversalTypeOK /\ LayersStep /\ LayersComplete /\ BudgetsHeld

-----------------------------------------------------------------------------
(* What an answer says of the graph *)

Near[k \in Nat] ==
  IF k = 0 THEN request.seeds
  ELSE Near[k - 1] \union {t.to : t \in {t \in Transitions : t.from \in Near[k - 1]}}
Scope == Near[request.depth]
Distance(n) == CHOOSE k \in 0 .. request.depth : n \in Near[k] /\ (k = 0 \/ n \notin Near[k - 1])
ByDistance(N) == {p \in N \X N : Distance(p[1]) < Distance(p[2]) \/ (Distance(p[1]) = Distance(p[2]) /\ p[1] < p[2])}
Exact(N) == N \subseteq Scope /\ \A n \in N : depthOf[n] = Distance(n)

HonestImpact ==
  LET affected == Scope \ request.seeds IN
  /\ Exact(answer.nodes)
  /\ answer.evaluated =< Cardinality(affected)
  /\ answer.status # "inconclusive" =>
       /\ answer.nodes = FirstOf(affected, request.limit, ByDistance(affected))
       /\ answer.evaluated = Cardinality(affected)
  /\ answer.status = "complete" => answer.nodes = affected

HonestSubgraph ==
  /\ Exact(answer.nodes)
  /\ answer.edges \subseteq {e \in graph : e.src \in answer.nodes /\ e.dst \in answer.nodes}
  /\ answer.status = "complete" =>
       /\ answer.nodes = Scope
       /\ answer.edges = {e \in graph : \E n \in {e.src, e.dst} : n \in Scope /\ Distance(n) < request.depth}

HonestFlow ==
  LET visible == Scope \ (request.hidden \ request.seeds)
      end == request.offset + request.limit IN
  /\ Exact(answer.nodes) /\ answer.nodes \subseteq visible
  /\ answer.more => Cardinality(visible) > end
  /\ answer.status = "complete" =>
       /\ answer.nodes = {n \in visible : Cardinality({m \in visible : <<m, n>> \in ByDistance(visible)})
                                            \in request.offset .. end - 1}
       /\ answer.more <=> Cardinality(visible) > end

\* The ways to walk k transitions from the source without meeting a node
\* twice, the last one into the target if the filter accepts it.
Simple[k \in Nat] ==
  IF k = 0 THEN {<<>>}
  ELSE UNION {{Append(c, t) : t \in
                 {t \in Transitions :
                    /\ t.from \in (IF c = <<>> THEN request.seeds ELSE {c[k - 1].to})
                    /\ t.to \notin request.seeds \union {c[i].to : i \in 1 .. k - 1}
                    /\ Accepted(t)}} :
                c \in Simple[k - 1]}
To(k) == {c \in Simple[k] : IF c = <<>> THEN request.target \in request.seeds /\ request.access = 0
                                       ELSE c[k].to = request.target}
Shortest ==
  LET lengths == {k \in 0 .. request.depth : To(k) # {}} IN
  IF lengths = {} THEN {} ELSE To(CHOOSE k \in lengths : \A j \in lengths : k =< j)

HonestPaths ==
  /\ answer.paths \subseteq Shortest
  /\ answer.more => Cardinality(Shortest) > request.limit
  /\ answer.status = "complete" =>
       /\ answer.more <=> Cardinality(Shortest) > request.limit
       /\ ~answer.more => answer.paths = Shortest

\* An impact, subgraph or flow answer is measured against distances in the
\* whole graph: complete means the whole scope, truncated its first nodes in
\* order with the full count, and an inconclusive one is a lower bound with
\* exact depths.  Every path answered is a shortest one whose last edge the
\* access filter accepts, though the layers were walked without knowing the
\* target; unless a budget was hit they are all of them, or as many as asked for
\* and more is said to exist.
AnswersHonest ==
  answer # NoAnswer =>
    /\ request.op = "impact" => HonestImpact
    /\ request.op = "subgraph" => HonestSubgraph
    /\ request.op = "flow" => HonestFlow
    /\ request.op = "paths" => HonestPaths
=============================================================================
