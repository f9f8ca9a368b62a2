----------------------------- MODULE TaintPasses -----------------------------
(***************************************************************************)
(* The two iterations over the flow graph of a method (cih-taint): which   *)
(* definitions reach each statement, and which definitions are tainted.    *)
(* Both go over the blocks in the same order, again and again, until a     *)
(* pass changes nothing.  A step is one block.  What leads to the graph    *)
(* and to the verdict is in TaintFlow; here the graph and the order of its *)
(* blocks may be any.                                                      *)
(*                                                                         *)
(* Block 1 is the entry.  A definition is a pair of a variable and the id  *)
(* of the statement that defines it, 0 for a parameter.  Place i of a      *)
(* block is after its first i statements.                                  *)
(***************************************************************************)
EXTENDS Integers, Sequences

CONSTANT Params   \* the parameters, all tainted

VARIABLES
  cfg,         \* the flow graph
  order,       \* its blocks in reverse post-order
  out,         \* the definitions that leave each block
  tainted,     \* the ids of tainted definitions
  block,       \* the place in order of the block a pass looks at next
  changed,     \* this pass has changed something
  stage        \* what is computed now

passVars == <<cfg, order, out, tainted, block, changed, stage>>

Stmts(b) == cfg.stmts[b]
CfgEdges == {cfg.edges[i] : i \in 1 .. Len(cfg.edges)}
Ordered == {order[i] : i \in 1 .. Len(order)}

\* What the builder and the depth-first search promise: the entry is in the
\* order, and what a block in it leads to is in it too.
FlowGraph ==
  /\ \A b \in Ordered :
       Len(Stmts(b)) \in Nat /\ \A i \in 1 .. Len(Stmts(b)) : Stmts(b)[i].id \in Nat \ {0}
  /\ Len(order) \in Nat /\ 1 \in Ordered
  /\ \A e \in CfgEdges : e[1] \in Ordered => e[2] \in Ordered

PassInit ==
  /\ FlowGraph
  /\ out = [b \in {} |-> {}] /\ tainted = {0}
  /\ block = 1 /\ changed = FALSE /\ stage = "reaching"

InPass == block =< Len(order)

-----------------------------------------------------------------------------
(* Reaching definitions *)

\* A written variable loses its old definitions.
ThroughUnkilled(defs, s) == defs \union {<<v, s.id>> : v \in s.writes}  \* mutant: they stay
Through(defs, s) == {d \in defs : d[1] \notin s.writes} \union {<<v, s.id>> : v \in s.writes}

MergeIn(b) ==
  (IF b = 1 THEN {<<v, 0>> : v \in Params} ELSE {})
    \union UNION {out[e[1]] : e \in {e \in CfgEdges : e[2] = b /\ e[1] \in DOMAIN out}}

\* The definitions at each place of a block.
DefsIn(b) ==
  LET defs[i \in 0 .. Len(Stmts(b))] == IF i = 0 THEN MergeIn(b) ELSE Through(defs[i - 1], Stmts(b)[i]) IN defs

ReachBlock ==
  /\ stage = "reaching" /\ InPass
  /\ LET b == order[block] IN
     out' = [x \in DOMAIN out \union {b} |-> IF x = b THEN DefsIn(b)[Len(Stmts(b))] ELSE out[x]]
  /\ changed' = (changed \/ out' # out)
  /\ block' = block + 1
  /\ UNCHANGED <<cfg, order, tainted, stage>>

\* A definition of one of the variables reaches statement i of block b, by a
\* statement with one of the ids; none does in a block nothing leads to.
TaintedIn(b, i, vars, ids) == b \in DOMAIN out /\ \E d \in DefsIn(b)[i - 1] : d[1] \in vars /\ d[2] \in ids

-----------------------------------------------------------------------------
(* Taint *)

\* What reads a tainted definition writes one, unless it sanitizes.
Spread(ids, b, i) ==
  LET s == Stmts(b)[i] IN
  IF s.writes # {} /\ s.call # "sanitizer" /\ TaintedIn(b, i, s.reads \union s.args, ids)
    THEN ids \union {s.id} ELSE ids

SpreadIn(b) ==
  LET ids[i \in 0 .. Len(Stmts(b))] == IF i = 0 THEN tainted ELSE Spread(ids[i - 1], b, i) IN ids

TaintBlock ==
  /\ stage = "taint" /\ InPass
  /\ LET b == order[block] IN tainted' = SpreadIn(b)[Len(Stmts(b))]
  /\ changed' = (changed \/ tainted' # tainted)
  /\ block' = block + 1
  /\ UNCHANGED <<cfg, order, out, stage>>

\* A sink with a tainted argument.
Confirmed(b, i) ==
  LET s == Stmts(b)[i] IN
  s.call = "sink" /\ s.kind \in {"call", "assign"} /\ TaintedIn(b, i, s.args, tainted)

-----------------------------------------------------------------------------

\* A pass that changed something is followed by another, the last one by what
\* comes next.
EndPass ==
  /\ stage \in {"reaching", "taint"} /\ ~InPass
  /\ stage' = IF changed THEN stage ELSE IF stage = "reaching" THEN "taint" ELSE "classify"
  /\ block' = 1 /\ changed' = FALSE
  /\ UNCHANGED <<cfg, order, out, tainted>>

PassNext == ReachBlock \/ TaintBlock \/ EndPass

PassSpec == PassInit /\ [][PassNext]_passVars

-----------------------------------------------------------------------------
(* What the iterations compute, said of the graph *)

Places == {<<b, i>> : b \in Ordered, i \in Nat}

\* The definition d is made at the place p.
MadeAt(d, p) ==
  \/ p = <<1, 0>> /\ \E v \in Params : d = <<v, 0>>
  \/ /\ p[2] \in 1 .. Len(Stmts(p[1]))
     /\ \E v \in Stmts(p[1])[p[2]].writes : d = <<v, Stmts(p[1])[p[2]].id>>

\* From p to q without a statement that writes the variable.
Clear(v, p, q) ==
  \/ /\ q = <<p[1], p[2] + 1>> /\ q[2] \in 1 .. Len(Stmts(q[1]))
     /\ v \notin Stmts(q[1])[q[2]].writes
  \/ /\ p[2] = Len(Stmts(p[1])) /\ q[2] = 0
     /\ \E e \in CfgEdges : e[1] = p[1] /\ e[2] = q[1]

\* A way leads from where d is made to the place p and meets no other
\* definition of its variable.
Carried(d, p) ==
  \E w \in Seq(Places) \ {<<>>} :
    /\ MadeAt(d, w[1]) /\ w[Len(w)] = p
    /\ \A k \in 1 .. Len(w) - 1 : Clear(d[1], w[k], w[k + 1])

\* Statement i of block b hands on taint of the definition id.
Hands(id, b, i) ==
  /\ Stmts(b)[i].writes # {} /\ Stmts(b)[i].call # "sanitizer"
  /\ \E v \in Stmts(b)[i].reads \union Stmts(b)[i].args : Carried(<<v, id>>, <<b, i - 1>>)

\* A chain of such statements leads from a parameter to the definition id.
Traced(id) ==
  \E c \in Seq(Nat) \ {<<>>} :
    /\ c[1] = 0 /\ c[Len(c)] = id
    /\ \A k \in 1 .. Len(c) - 1 :
         \E b \in Ordered : \E i \in 1 .. Len(Stmts(b)) : Stmts(b)[i].id = c[k + 1] /\ Hands(c[k], b, i)

\* Once the passes have ended: the definitions at a place are those that some
\* way carries there, the tainted ones are those that a chain from a parameter
\* leads to, and a sink is confirmed when one of them is carried to one of its
\* arguments.
PassesExact ==
  /\ stage \in {"taint", "classify"} =>
       \A b \in Ordered : \A i \in 0 .. Len(Stmts(b)) : \A d : d \in DefsIn(b)[i] <=> Carried(d, <<b, i>>)
  /\ stage = "classify" =>
       /\ \A id : id \in tainted <=> Traced(id)
       /\ \A b \in Ordered : \A i \in 1 .. Len(Stmts(b)) :
            Confirmed(b, i) <=>
              /\ Stmts(b)[i].call = "sink" /\ Stmts(b)[i].kind \in {"call", "assign"}
              /\ \E v \in Stmts(b)[i].args, id \in Nat : Traced(id) /\ Carried(<<v, id>>, <<b, i - 1>>)
=============================================================================
