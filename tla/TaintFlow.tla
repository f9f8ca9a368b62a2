------------------------------ MODULE TaintFlow ------------------------------
(***************************************************************************)
(* Taint inside one Java method (cih-taint): the control flow graph is     *)
(* built from the syntax tree, its dominators are iterated to a fixed      *)
(* point, then reaching definitions and taint (TaintPasses), and the       *)
(* verdict on the sinks is drawn from these.                               *)
(*                                                                         *)
(* A syntax tree is a sequence of nodes, each a record with the field op.  *)
(* What is left out: names of calls (a call is a sink, a sanitizer, or     *)
(* neither), what an expression reads in detail, and the reports.          *)
(***************************************************************************)
EXTENDS TaintPasses, FiniteSets
LOCAL INSTANCE SequencesExt

CONSTANT Programs    \* the method bodies considered

VARIABLES
  program,     \* the body under analysis
  idom,        \* immediate dominators found so far
  verdict      \* the sinks confirmed, and those only under a tainted condition

flowVars == <<program, idom, verdict, passVars>>

NoCfg == [n |-> 0, stmts |-> <<>>, edges |-> <<>>, ended |-> {}, cur |-> 0]
NoVerdict == [confirmed |-> {}, conditional |-> {}]

FlowInit ==
  /\ program \in Programs
  /\ cfg = NoCfg /\ order = <<>> /\ idom = [b \in {} |-> 0] /\ out = [b \in {} |-> {}]
  /\ tainted = {0} /\ verdict = NoVerdict /\ stage = "source"
  /\ block = 1 /\ changed = FALSE

-----------------------------------------------------------------------------
(* The builder: blocks are numbered, 1 is the entry and 2 the exit, cur is   *)
(* the block the next statement goes to                                      *)

Blocks(c, k) == [c EXCEPT !.n = @ + k, !.stmts = @ \o [i \in 1 .. k |-> <<>>]]
At(c, b) == [c EXCEPT !.cur = b]
EdgeTo(c, from, to, kind) ==
  IF \E i \in 1 .. Len(c.edges) : c.edges[i] = <<from, to, kind>> THEN c
  ELSE [c EXCEPT !.edges = Append(@, <<from, to, kind>>)]

\* A statement is known by its place in the text.
StmtAt(c, b, kind, node) ==
  [c EXCEPT !.stmts[b] = Append(@, [id |-> node.id, kind |-> kind, reads |-> node.reads,
                                    writes |-> node.writes, call |-> node.call, args |-> node.args])]

\* A block that ended with a return is left by no other edge.
Fall(c, to, kind) == IF c.cur \in c.ended THEN c ELSE EdgeTo(c, c.cur, to, kind)

RECURSIVE Build(_, _)
BuildAll(c, nodes) == FoldLeft(Build, c, nodes)

BuildPlain(c, node) == IF c.cur \in c.ended THEN c ELSE StmtAt(c, c.cur, node.kind, node)

\* What follows a return goes to a block nothing leads to.
BuildReturn(c, node) ==
  LET d == IF c.cur \in c.ended THEN c
           ELSE LET r == EdgeTo(StmtAt(c, c.cur, node.kind, node), c.cur, 2, "sequential") IN
                [r EXCEPT !.ended = @ \union {c.cur}]
  IN At(Blocks(d, 1), d.n + 1)

BuildIf(c, node) ==
  LET then == c.n + 1
      join == c.n + 2
      c1 == EdgeTo(Blocks(StmtAt(c, c.cur, "branch", node), 2), c.cur, then, "true")
      c2 == Fall(BuildAll(At(c1, then), node.then), join, "sequential")
      else == c2.n + 1
      c3 == IF node.both
              THEN Fall(BuildAll(At(EdgeTo(Blocks(c2, 1), c.cur, else, "false"), else), node.else),
                        join, "sequential")
              ELSE EdgeTo(c2, c.cur, join, "false")
  IN At(c3, join)

\* Only the first group is an alternative of the switch; the others are what
\* the one before falls through to.
BuildSwitch(c, node) ==
  LET after == c.n + 1
      c1 == Blocks(StmtAt(c, c.cur, "branch", node), 1)
      first == c1.n + 1
      c2 == IF node.groups = <<>> THEN c1
            ELSE Fall(FoldLeft(BuildAll, At(EdgeTo(Blocks(c1, 1), c.cur, first, "true"), first), node.groups),
                      after, "sequential")
  IN At(EdgeTo(c2, c.cur, after, "false"), after)

\* while, for and for-each.
BuildWhile(c, node) ==
  LET header == c.n + 1
      body == c.n + 2
      after == c.n + 3
      c1 == StmtAt(EdgeTo(Blocks(c, 3), c.cur, header, "sequential"), header, "loop", node)
      c2 == EdgeTo(EdgeTo(c1, header, body, "true"), header, after, "false")
  IN At(Fall(BuildAll(At(c2, body), node.body), header, "back"), after)

BuildDo(c, node) ==
  LET body == c.n + 1
      header == c.n + 2
      after == c.n + 3
      c1 == EdgeTo(Blocks(c, 3), c.cur, body, "sequential")
      c2 == Fall(BuildAll(At(c1, body), node.body), header, "sequential")
      c3 == StmtAt(c2, header, "loop", node)
  IN At(EdgeTo(EdgeTo(c3, header, body, "back"), header, after, "false"), after)

\* The handlers start at one block, each after the statements of the one
\* before; an exception leaves the first block of the body.
BuildTry(c, node) ==
  LET try == c.n + 1
      after == c.n + 2
      catch == c.n + 3
      c1 == EdgeTo(EdgeTo(Blocks(StmtAt(c, c.cur, "try", node), 3), c.cur, try, "sequential"),
                   try, catch, "exception")
      c2 == Fall(BuildAll(At(c1, try), node.body), after, "sequential")
      Handle(x, handler) ==
        LET h == BuildAll(At(x.c, catch), handler) IN
        [c |-> h, exits |-> IF h.cur \in h.ended THEN x.exits ELSE Append(x.exits, h.cur)]
      handled == FoldLeft(Handle, [c |-> c2, exits |-> <<>>], node.handlers)
      Join(x, b) == EdgeTo(x, b, after, "sequential")
      final == handled.c.n + 1
      c3 == EdgeTo(Blocks(handled.c, 1), after, final, "sequential")
      c4 == BuildAll(At(FoldLeft(Join, c3, handled.exits), final), node.finally)
      real == c4.n + 1
  IN IF node.last
       THEN At(Fall(Blocks(c4, 1), real, "sequential"), real)
       ELSE At(FoldLeft(Join, handled.c, handled.exits), after)

Build(c, node) ==
  CASE node.op = "plain" -> BuildPlain(c, node)
    [] node.op = "return" -> BuildReturn(c, node)
    [] node.op = "if" -> BuildIf(c, node)
    [] node.op = "switch" -> BuildSwitch(c, node)
    [] node.op = "while" -> BuildWhile(c, node)
    [] node.op = "do" -> BuildDo(c, node)
    [] OTHER -> BuildTry(c, node)

-----------------------------------------------------------------------------
(* Order and dominators *)

Of(edges, b) == LET IsOf(e) == e[1] = b IN SelectSeq(edges, IsOf)
Into(b) == LET IsInto(e) == e[2] = b IN SelectSeq(cfg.edges, IsInto)

\* Reverse post-order of a depth-first search from the entry.
RECURSIVE Visit(_, _, _)
Visit(edges, x, b) ==
  IF b \in x.seen THEN x
  ELSE LET Next(y, e) == Visit(edges, y, e[2])
           y == FoldLeft(Next, [x EXCEPT !.seen = @ \union {b}], Of(edges, b)) IN
       [y EXCEPT !.order = <<b>> \o @]
Place(b) == CHOOSE i \in 1 .. Len(order) : order[i] = b

BuildCfg ==
  /\ stage = "source"
  /\ cfg' = Fall(BuildAll(At(Blocks(NoCfg, 2), 1), program), 2, "sequential")
  /\ order' = Visit(cfg'.edges, [seen |-> {}, order |-> <<>>], 1).order
  /\ idom' = [b \in {1} |-> 1]
  /\ stage' = "dominators"
  /\ UNCHANGED <<program, verdict, out, tainted, block, changed>>

\* Up the tree found so far, the later of the two first, until they meet.
RECURSIVE Meet(_, _, _)
Meet(tree, a, b) ==
  IF a = b THEN a
  ELSE IF Place(a) > Place(b) THEN Meet(tree, tree[a], b) ELSE Meet(tree, a, tree[b])

\* A block's dominator from those of its predecessors, as far as they have one.
Nearest(tree, b) ==
  LET Known(e) == e[1] \in DOMAIN tree
      Closer(x, e) == IF x = 0 THEN e[1] ELSE Meet(tree, x, e[1])
  IN FoldLeft(Closer, 0, SelectSeq(Into(b), Known))

NearestPass ==
  LET Improve(tree, b) ==
        LET d == Nearest(tree, b) IN
        IF b = 1 \/ d = 0 THEN tree
        ELSE [x \in DOMAIN tree \union {b} |-> IF x = b THEN d ELSE tree[x]]
  IN FoldLeft(Improve, idom, order)

DominatorPass ==
  /\ stage = "dominators"
  /\ idom' = NearestPass
  /\ stage' = IF idom' = idom THEN "reaching" ELSE "dominators"
  /\ UNCHANGED <<program, verdict, cfg, order, out, tainted, block, changed>>

RECURSIVE Above(_, _)
Above(a, b) ==
  b \in DOMAIN idom /\ idom[b] # b /\ (idom[b] = a \/ Above(a, idom[b]))
StrictlyDominates(a, b) == a # b /\ Above(a, b)

DataPass == PassNext /\ UNCHANGED <<program, idom, verdict>>

-----------------------------------------------------------------------------
(* The verdict; a statement is known by its block and its number there       *)

Spots == UNION {{<<b, i>> : i \in 1 .. Len(Stmts(b))} : b \in 1 .. cfg.n}
Stmt(p) == Stmts(p[1])[p[2]]

\* Every statement of a block that a branch leads to, or that such a block
\* dominates.
ControlDeps ==
  UNION {LET deciders == {i \in 1 .. Len(Stmts(b)) : Stmts(b)[i].kind \in {"branch", "loop"}}
             decider == <<b, CHOOSE i \in deciders : \A j \in deciders : i =< j>>
             region == {o \in 1 .. cfg.n : \E e \in CfgEdges :
                          /\ e[1] = b /\ e[3] \in {"true", "false", "back"}
                          /\ e[2] = o \/ StrictlyDominates(e[2], o)}
         IN IF deciders = {} THEN {} ELSE {<<decider, p>> : p \in {p \in Spots \ {decider} : p[1] \in region}} :
         b \in 1 .. cfg.n}

Sinks == {p \in Spots : Stmt(p).call = "sink" /\ Stmt(p).kind \in {"call", "assign"}}
ConfirmedSinks == {p \in Sinks : Confirmed(p[1], p[2])}

\* A statement that a branch decides which is tainted, or reads what is.
TaintedCondition(p) ==
  \E d \in ControlDeps :
    /\ d[2] = p
    /\ Stmt(d[1]).id \in tainted \/ TaintedIn(d[1][1], d[1][2], Stmt(d[1]).reads, tainted)

Classify ==
  /\ stage = "classify"
  /\ verdict' = [confirmed |-> {Stmt(p).id : p \in ConfirmedSinks},
                 conditional |-> {Stmt(p).id : p \in {p \in Sinks \ ConfirmedSinks : TaintedCondition(p)}}]
  /\ stage' = "done"
  /\ UNCHANGED <<program, idom, cfg, order, out, tainted, block, changed>>

FlowNext == BuildCfg \/ DominatorPass \/ DataPass \/ Classify

FlowSpec == FlowInit /\ [][FlowNext]_flowVars

-----------------------------------------------------------------------------
(* What the body does: a state is the set of tainted variables.  From the    *)
(* states before it, a node has states after it, states somewhere within it, *)
(* and sinks it reaches with a tainted argument.                             *)

Step(state, node) ==
  (state \ node.writes)
    \union (IF node.call # "sanitizer" /\ (node.reads \union node.args) \intersect state # {}
              THEN node.writes ELSE {})

RECURSIVE Exec(_, _)
ExecAll(x, nodes) == FoldLeft(Exec, x, nodes)
From(x, states) == [x EXCEPT !.after = states, !.within = @ \union states]

\* As often as it likes, from no time on.
RECURSIVE Repeat(_, _)
Repeat(x, nodes) ==
  LET y == ExecAll(x, nodes) IN
  IF y.after \subseteq x.after THEN [y EXCEPT !.after = x.after]
  ELSE Repeat([y EXCEPT !.after = @ \union x.after], nodes)

Exec(x, node) ==
  CASE node.op = "plain" ->
         LET y == From(x, {Step(s, node) : s \in x.after}) IN
         IF node.call = "sink" /\ \E s \in x.after : node.args \intersect s # {}
           THEN [y EXCEPT !.hits = @ \union {node.id}] ELSE y
    [] node.op = "return" -> [x EXCEPT !.after = {}]
    [] node.op = "if" ->
         LET y == ExecAll(x, node.then)
             z == IF node.both THEN ExecAll([y EXCEPT !.after = x.after], node.else)
                               ELSE [y EXCEPT !.after = x.after]
         IN [z EXCEPT !.after = @ \union y.after]
    [] node.op = "switch" ->
         LET One(y, i) == LET z == FoldLeft(ExecAll, [y EXCEPT !.after = x.after],
                                            SubSeq(node.groups, i, Len(node.groups))) IN
                          [z EXCEPT !.after = @ \union y.after]
         IN FoldLeft(One, x, [i \in 1 .. Len(node.groups) |-> i])
    [] node.op = "while" -> Repeat(x, node.body)
    [] node.op = "do" -> Repeat(ExecAll(x, node.body), node.body)
    [] OTHER ->
         LET y == ExecAll([x EXCEPT !.within = x.after], node.body)
             Caught(z, h) == LET c == ExecAll([z EXCEPT !.after = y.within], h) IN
                             [c EXCEPT !.after = @ \union z.after]
             z == FoldLeft(Caught, y, node.handlers)
             f == IF node.last THEN ExecAll([z EXCEPT !.after = z.within], node.finally) ELSE z
         IN [f EXCEPT !.after = IF node.last THEN ExecAll(z, node.finally).after ELSE z.after,
                      !.within = @ \union x.within]

Hits == ExecAll([after |-> {Params}, within |-> {Params}, hits |-> {}], program).hits

RECURSIVE Nested(_)
Nested(nodes) ==
  UNION {LET n == nodes[i] IN
         {n} \union (CASE n.op = "if" -> Nested(n.then) \union Nested(n.else)
                       [] n.op \in {"while", "do"} -> Nested(n.body)
                       [] n.op = "switch" -> UNION {Nested(n.groups[g]) : g \in 1 .. Len(n.groups)}
                       [] n.op = "try" -> Nested(n.body) \union Nested(n.finally)
                                            \union UNION {Nested(n.handlers[h]) : h \in 1 .. Len(n.handlers)}
                       [] OTHER -> {}) : i \in 1 .. Len(nodes)}
Uses(ops) == \E n \in Nested(program) : n.op \in ops

\* The sinks confirmed are those that some execution reaches with a tainted
\* argument, where definitions and blocks are put together again after
\* branches, loops and returns.  Of a try with one handler some may be missed,
\* since an exception is taken to leave its first block only; none is invented.
ConfirmedExact ==
  stage = "done" =>
    /\ ~Uses({"switch", "try"}) => verdict.confirmed = Hits
    /\ (\A n \in Nested(program) : n.op # "switch" /\ (n.op = "try" => Len(n.handlers) =< 1)) =>
         verdict.confirmed \subseteq Hits

-----------------------------------------------------------------------------
(* What the graph is *)

RECURSIVE Grow(_, _)
Grow(S, links) ==
  LET T == S \union {e[2] : e \in {e \in links : e[1] \in S}} IN IF T = S THEN S ELSE Grow(T, links)

Reachable == Grow({1}, CfgEdges)
Bypass(a) == IF a = 1 THEN {} ELSE Grow({1}, {e \in CfgEdges : e[1] # a /\ e[2] # a})

\* The ways between places that do not write v, and the places that define it.
Ways(v) ==
  UNION {{<<<<b, i - 1>>, <<b, i>>>> : i \in {i \in 1 .. Len(Stmts(b)) : v \notin Stmts(b)[i].writes}} :
           b \in Reachable}
    \union {<<<<e[1], Len(Stmts(e[1]))>>, <<e[2], 0>>>> : e \in {e \in CfgEdges : e[1] \in Reachable}}
DefinedAt(v) ==
  {<<<<1, 0>>, 0>> : x \in {v} \intersect Params}
    \union UNION {{<<<<b, i>>, Stmts(b)[i].id>> : i \in {i \in 1 .. Len(Stmts(b)) : v \in Stmts(b)[i].writes}} :
                    b \in Reachable}
Variables == Params \union UNION {Stmt(p).reads \union Stmt(p).writes \union Stmt(p).args : p \in Spots}

\* Post-dominance: without a the exit is out of reach.
PostDominates(a, b) == a = b \/ 2 \notin Grow({b}, {e \in CfgEdges : e[1] # a /\ e[2] # a})
Depends(a, b) ==  \* b on the branch in a
  \E e \in CfgEdges : e[1] = a /\ PostDominates(b, e[2]) /\ (a = b \/ ~PostDominates(b, a))

\* The passes go over the blocks the entry leads to, each once.  The fixed points
\* are the ones meant: a block dominates another when it cannot be bypassed; a
\* definition reaches a statement when a way to it meets no other of the variable;
\* and, without early returns, exceptions and switches, no control dependence in
\* the sense of post-dominators is missing.
DependencesExact ==
  /\ stage = "reaching" => FlowGraph /\ Ordered = Reachable /\ Cardinality(Ordered) = Len(order)
  /\ stage = "done" =>
       /\ \A a, b \in Reachable : StrictlyDominates(a, b) <=> a # b /\ b \notin Bypass(a)
       /\ \A b \in Reachable : \A i \in 0 .. Len(Stmts(b)) :
            DefsIn(b)[i] =
              UNION {{<<v, d[2]>> : d \in {d \in DefinedAt(v) : <<b, i>> \in Grow({d[1]}, Ways(v))}} : v \in Variables}
       /\ ~Uses({"switch", "try", "return"}) =>
            \A p, q \in Spots :
              /\ p[1] \in Reachable /\ q[1] \in Reachable /\ p # q
              /\ Depends(p[1], q[1]) /\ Stmt(p).kind \in {"branch", "loop"}
              => <<p, q>> \in ControlDeps

\* The passes of analyze_with_pdg taken together: the verdict on the sinks is that
\* of executions, and what it was drawn from is what the flow graph says.
TaintExact == ConfirmedExact /\ DependencesExact
=============================================================================
