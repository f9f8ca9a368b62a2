--------------------------- MODULE AnalysesProofs ---------------------------
(***************************************************************************)
(* What the computations over code and graphs answer, for any graph, any   *)
(* files and any number of runs.  A graph walk keeps to its budgets,       *)
(* numbers its layers correctly and misses no transition silently, and     *)
(* what it answers of distances, listings and simple paths is what the     *)
(* whole graph says, as far as the answer claims to be complete.  Every    *)
(* taint path reported is a chain of calls within the limit that ends at a *)
(* sink and passes no other sink and no sanitizing method, and every sink  *)
(* such a chain leads to is reported, once, by a shortest one.  In a       *)
(* method, the definitions said to reach a place are those that some way   *)
(* carries there, and a sink is confirmed when a chain of statements hands *)
(* taint on to its arguments.  A run that reuses cached units resolves the *)
(* graph a full parse would give, one that reuses the last artifacts       *)
(* reuses the right ones, and a vector that is not the mean of its node's  *)
(* rows is one a run will refresh.                                         *)
(***************************************************************************)
EXTENDS GraphTraversal, TaintPaths, TaintPasses, IncrementalAnalyze, EmbedStore,
        SequenceTheorems, FiniteSetTheorems, WellFoundedInduction, TLAPS

-----------------------------------------------------------------------------
(* Walks over the knowledge graph *)

USE NodesAssumption, GraphsAssumption, BatchAssumption, RequestsAssumption

-----------------------------------------------------------------------------
(* Orders and their first elements *)

StrictOrder(R, S) ==
  /\ \A x \in S : <<x, x>> \notin R
  /\ \A x, y \in S : x # y => <<x, y>> \in R \/ <<y, x>> \in R
  /\ \A x, y, z \in S : <<x, y>> \in R /\ <<y, z>> \in R => <<x, z>> \in R

\* A set has at most n elements among its first n: ranks are distinct.
LEMMA FirstOfSize ==
  ASSUME NEW S, IsFiniteSet(S), NEW R, StrictOrder(R, S), NEW n \in Nat
  PROVE  /\ FirstOf(S, n, R) \subseteq S
         /\ IsFiniteSet(FirstOf(S, n, R))
         /\ Cardinality(FirstOf(S, n, R)) =< n
<1> DEFINE Earlier(s) == {r \in S : <<r, s>> \in R}
           F == FirstOf(S, n, R)
           rank == [s \in F |-> Cardinality(Earlier(s))]
<1>1. F \subseteq S
  BY DEF FirstOf
<1>2. \A s \in S : IsFiniteSet(Earlier(s)) /\ Cardinality(Earlier(s)) \in Nat
  <2> SUFFICES ASSUME NEW s \in S PROVE IsFiniteSet(Earlier(s)) /\ Cardinality(Earlier(s)) \in Nat
    OBVIOUS
  <2>1. Earlier(s) \in SUBSET S
    OBVIOUS
  <2> HIDE DEF Earlier
  <2> QED BY <2>1, FS_Subset, FS_CardinalityType
<1>3. ASSUME NEW s \in S, NEW t \in S, <<s, t>> \in R
      PROVE  Cardinality(Earlier(s)) < Cardinality(Earlier(t))
  <2>1. Earlier(s) \in SUBSET Earlier(t) /\ s \in Earlier(t) /\ s \notin Earlier(s)
    BY <1>3 DEF StrictOrder
  <2> HIDE DEF Earlier
  <2>2. Cardinality(Earlier(s)) =< Cardinality(Earlier(t)) /\ Cardinality(Earlier(s)) # Cardinality(Earlier(t))
    BY <2>1, <1>2, FS_Subset
  <2> QED BY <2>2, <1>2
<1>4. rank \in Injection(F, 0 .. n - 1)
  <2>1. ASSUME NEW s \in F PROVE rank[s] \in 0 .. n - 1
    <3>1. Cardinality(Earlier(s)) < n /\ Cardinality(Earlier(s)) \in Nat
      BY <2>1, <1>1, <1>2 DEF FirstOf
    <3> QED BY <3>1
  <2>2. ASSUME NEW s \in F, NEW t \in F, s # t PROVE rank[s] # rank[t]
    <3>1. s \in S /\ t \in S
      BY <1>1
    <3>2. <<s, t>> \in R \/ <<t, s>> \in R
      BY <3>1, <2>2 DEF StrictOrder
    <3>3. Cardinality(Earlier(s)) # Cardinality(Earlier(t))
      <4> HIDE DEF Earlier
      <4> QED BY <3>1, <3>2, <1>2, <1>3
    <3> HIDE DEF F, Earlier
    <3> QED BY <3>3, <2>2
  <2> HIDE DEF rank
  <2>3. rank \in [F -> 0 .. n - 1]
    BY <2>1 DEF rank
  <2> QED BY <2>2, <2>3 DEF Injection, IsInjective
<1>5. IsFiniteSet(0 .. n - 1) /\ Cardinality(0 .. n - 1) = n
  BY FS_Interval
<1>6. IsFiniteSet(F) /\ Cardinality(F) =< n
  BY <1>4, <1>5, FS_Injection
<1> QED BY <1>1, <1>6

LEMMA LeastExists ==
  ASSUME NEW S, S \subseteq Nat, S # {}
  PROVE  \E m \in S : \A n \in S : m =< n
<1> DEFINE R == {p \in Nat \X Nat : p[1] < p[2]}
<1>1. IsWellFoundedOn(R, Nat)
  <2>1. R = OpToRel(<, Nat)
    BY DEF OpToRel
  <2> QED BY <2>1, NatLessThanWellFounded
<1> HIDE DEF R
<1>2. PICK m \in S : \A n \in S : ~ (<<n, m>> \in R)
  BY <1>1, WFMin
<1>3. \A n \in S : ~ (n < m)
  BY <1>2 DEF R
<1> QED BY <1>3

-----------------------------------------------------------------------------
(* The transitions of a layer *)

Five == Int \X Int \X Int \X Int \X Int

LEMMA LexOrder ==
  /\ \A a \in Five : ~Lex(a, a)
  /\ \A a, b \in Five : a # b => Lex(a, b) \/ Lex(b, a)
  /\ \A a, b, c \in Five : Lex(a, b) /\ Lex(b, c) => Lex(a, c)
<1>1. \A a, b \in Five :
        Lex(a, b) <=> \/ a[1] < b[1]
                      \/ a[1] = b[1] /\ a[2] < b[2]
                      \/ a[1] = b[1] /\ a[2] = b[2] /\ a[3] < b[3]
                      \/ a[1] = b[1] /\ a[2] = b[2] /\ a[3] = b[3] /\ a[4] < b[4]
                      \/ a[1] = b[1] /\ a[2] = b[2] /\ a[3] = b[3] /\ a[4] = b[4] /\ a[5] < b[5]
  <2> SUFFICES ASSUME NEW a \in Five, NEW b \in Five
      PROVE  (\E i \in 1 .. 5 : a[i] < b[i] /\ \A j \in 1 .. 5 : j < i => a[j] = b[j])
             <=> \/ a[1] < b[1]
                 \/ a[1] = b[1] /\ a[2] < b[2]
                 \/ a[1] = b[1] /\ a[2] = b[2] /\ a[3] < b[3]
                 \/ a[1] = b[1] /\ a[2] = b[2] /\ a[3] = b[3] /\ a[4] < b[4]
                 \/ a[1] = b[1] /\ a[2] = b[2] /\ a[3] = b[3] /\ a[4] = b[4] /\ a[5] < b[5]
    BY DEF Lex
  <2>1. 1 .. 5 = {1, 2, 3, 4, 5}
    OBVIOUS
  <2> QED BY <2>1, SMTT(30)
<1>2. \A a \in Five : a = <<a[1], a[2], a[3], a[4], a[5]>> /\ \A i \in {1, 2, 3, 4, 5} : a[i] \in Int
  BY DEF Five
<1>3. ASSUME NEW a \in Five, NEW b \in Five, a # b PROVE Lex(a, b) \/ Lex(b, a)
  <2>1. a[1] # b[1] \/ a[2] # b[2] \/ a[3] # b[3] \/ a[4] # b[4] \/ a[5] # b[5]
    BY <1>2, <1>3
  <2> QED BY <1>1, <1>2, <2>1
<1>4. \A a \in Five : ~Lex(a, a)
  BY <1>1, <1>2
<1>5. \A a, b, c \in Five : Lex(a, b) /\ Lex(b, c) => Lex(a, c)
  BY <1>1, <1>2, SMTT(60)
<1> QED BY <1>3, <1>4, <1>5

Inputs == graph \in Graphs /\ request \in Requests

LEMMA RequestType == Inputs => request \in AllRequests /\ graph \subseteq Edges /\ IsFiniteSet(graph)
  BY DEF Inputs

LEMMA TransitionShape ==
  ASSUME Inputs, NEW t \in Transitions
  PROVE  \E e \in graph : \/ t = [from |-> e.src, to |-> e.dst, edge |-> e, back |-> 0]
                          \/ t = [from |-> e.dst, to |-> e.src, edge |-> e, back |-> 1]
  BY RequestType DEF Transitions, Forward, Backward, AllRequests

LEMMA TransitionsTyped ==
  ASSUME Inputs
  PROVE  Transitions \subseteq Links /\ IsFiniteSet(Transitions)
<1>1. Transitions \subseteq Links
  BY TransitionShape, RequestType DEF Links, Edges
<1> DEFINE f == [e \in graph |-> [from |-> e.src, to |-> e.dst, edge |-> e, back |-> 0]]
           b == [e \in graph |-> [from |-> e.dst, to |-> e.src, edge |-> e, back |-> 1]]
           Fs == {f[e] : e \in graph}
           Bs == {b[e] : e \in graph}
<1>2. f \in Surjection(graph, Fs) /\ b \in Surjection(graph, Bs)
  BY DEF Surjection
<1>3. IsFiniteSet(Fs) /\ IsFiniteSet(Bs)
  <2> HIDE DEF f, b, Fs, Bs
  <2> QED BY <1>2, RequestType, FS_Surjection
<1>4. IsFiniteSet(Fs \union Bs)
  <2> HIDE DEF Fs, Bs
  <2> QED BY <1>3, FS_Union
<1>5. Transitions \subseteq Fs \union Bs
  BY TransitionShape
<1> HIDE DEF Fs, Bs
<1>6. IsFiniteSet(Transitions)
  BY <1>4, <1>5, FS_Subset
<1> QED BY <1>1, <1>6

LEMMA SoonerOrder ==
  ASSUME Inputs, frontier \subseteq Nodes
  PROVE  Out \subseteq Transitions /\ IsFiniteSet(Out) /\ StrictOrder(Sooner, Out)
<1>1. Out \subseteq Transitions
  BY DEF Out
<1>2. IsFiniteSet(Out)
  BY <1>1, TransitionsTyped, FS_Subset
<1>3. \A n \in Nodes : BatchOf(n) \in Int
  <2> SUFFICES ASSUME NEW n \in Nodes PROVE BatchOf(n) \in Int
    OBVIOUS
  <2> DEFINE before == {f \in frontier : f < n}
  <2>1. before \in SUBSET Nodes
    OBVIOUS
  <2>2. Cardinality(before) \in Nat
    <3> HIDE DEF before
    <3> QED BY <2>1, FS_Subset, FS_CardinalityType
  <2> QED BY <2>2 DEF BatchOf
<1>4. \A t \in Out : Key(t) \in Five
  <2> SUFFICES ASSUME NEW t \in Out PROVE Key(t) \in Five
    OBVIOUS
  <2>1. t.from \in Int /\ t.to \in Int /\ t.edge.kind \in Int /\ t.back \in Int /\ BatchOf(t.from) \in Int
    <3>1. t \in Links /\ t.from \in frontier
      BY <1>1, TransitionsTyped DEF Out
    <3>2. t.from \in Nodes /\ t.to \in Nodes /\ t.back \in {0, 1} /\ t.edge.kind \in {1, 2, 3, 4}
      BY <3>1 DEF Links, Edges, Kinds, Calls, Handles, Reads, Writes
    <3>3. BatchOf(t.from) \in Int
      BY <1>3, <3>2
    <3>4. t.from \in Int /\ t.to \in Int /\ t.edge.kind \in Int /\ t.back \in Int
      <4>1. \A n \in Nodes : n \in Int
        OBVIOUS
      <4>2. \A k \in {1, 2, 3, 4} : k \in Int
        OBVIOUS
      <4>3. \A k \in {0, 1} : k \in Int
        OBVIOUS
      <4> QED BY <3>2, <4>1, <4>2, <4>3, Zenon
    <3> QED BY <3>3, <3>4
  <2> QED BY <2>1 DEF Key, Five
<1>5. ASSUME NEW s \in Out, NEW t \in Out, Key(s) = Key(t) PROVE s = t
  <2>1. s.from = t.from /\ s.to = t.to /\ s.edge.kind = t.edge.kind /\ s.back = t.back
    BY <1>5 DEF Key
  <2>2. s \in Transitions /\ t \in Transitions
    BY <1>1
  <2>3. PICK d \in graph : \/ s = [from |-> d.src, to |-> d.dst, edge |-> d, back |-> 0]
                          \/ s = [from |-> d.dst, to |-> d.src, edge |-> d, back |-> 1]
    BY <2>2, TransitionShape
  <2>4. PICK e \in graph : \/ t = [from |-> e.src, to |-> e.dst, edge |-> e, back |-> 0]
                          \/ t = [from |-> e.dst, to |-> e.src, edge |-> e, back |-> 1]
    BY <2>2, TransitionShape
  <2>5. d.src = e.src /\ d.dst = e.dst /\ d.kind = e.kind
    BY <2>1, <2>3, <2>4
  <2>6. d = e
    BY <2>5, RequestType DEF Edges
  <2> QED BY <2>1, <2>3, <2>4, <2>6
<1>6. \A s, t \in Out : <<s, t>> \in Sooner <=> Lex(Key(s), Key(t))
  BY DEF Sooner
<1>7. StrictOrder(Sooner, Out)
  BY <1>4, <1>5, <1>6, LexOrder DEF StrictOrder
<1> QED BY <1>1, <1>2, <1>7

\* A layer is within the edges left, and whole if it gives no reason.
LEMMA LayerBound ==
  ASSUME Inputs, frontier \subseteq Nodes, expanded \in Nat, expanded =< request.edges,
         NEW x \in Layers
  PROVE  /\ x.took \subseteq Out /\ Cardinality(x.took) \in Nat
         /\ Cardinality(x.took) =< request.edges - expanded
         /\ x.why \subseteq {"edge budget", "backend limit"}
         /\ x.why = {} => x.took = Out
<1>1. Out \subseteq Transitions /\ IsFiniteSet(Out) /\ StrictOrder(Sooner, Out)
  BY SoonerOrder
<1>2. Room \in Nat /\ Room = request.edges - expanded
  BY RequestType DEF Room, AllRequests
<1>3. \A n \in Nat : /\ FirstOf(Out, n, Sooner) \subseteq Out
                     /\ Cardinality(FirstOf(Out, n, Sooner)) \in Nat
                     /\ Cardinality(FirstOf(Out, n, Sooner)) =< n
  BY <1>1, FirstOfSize, FS_CardinalityType
<1>4. Cardinality(Out) \in Nat
  BY <1>1, FS_CardinalityType
<1>5. CASE Whole /\ x = [took |-> Out, why |-> {}]
  BY <1>2, <1>4, <1>5 DEF Whole
<1>6. CASE x = [took |-> FirstOf(Out, Room, Sooner), why |-> {"edge budget"}]
  BY <1>2, <1>3, <1>6
<1>7. CASE \E n \in 0 .. Cardinality(Out) - 1 :
             n =< Room /\ x = [took |-> FirstOf(Out, n, Sooner), why |-> {"backend limit"}]
  <2>0. PICK n \in 0 .. Cardinality(Out) - 1 :
               n =< Room /\ x = [took |-> FirstOf(Out, n, Sooner), why |-> {"backend limit"}]
    BY <1>7
  <2>1. n \in Nat
    BY <1>4
  <2>2. x.took \subseteq Out /\ Cardinality(x.took) \in Nat /\ Cardinality(x.took) =< n
    BY <1>3, <2>0, <2>1
  <2>3. x.why = {"backend limit"}
    BY <2>0
  <2>4. Cardinality(x.took) =< Room
    <3> DEFINE c == Cardinality(x.took)
    <3>1. c \in Nat /\ c =< n /\ n =< Room
      BY <2>0, <2>2
    <3> HIDE DEF c
    <3>2. c =< Room
      BY <1>2, <2>1, <3>1
    <3> QED BY <3>2 DEF c
  <2>5. x.why # {}
    BY <2>3
  <2> QED BY <1>2, <2>2, <2>3, <2>4, <2>5, Zenon
<1>8. \/ x = [took |-> Out, why |-> {}] /\ Whole
      \/ x = [took |-> FirstOf(Out, Room, Sooner), why |-> {"edge budget"}]
      \/ \E n \in {k \in 0 .. Cardinality(Out) - 1 : k =< Room /\ request.op \in {"impact", "subgraph"}} :
           x = [took |-> FirstOf(Out, n, Sooner), why |-> {"backend limit"}]
  BY Zenon DEF Layers
<1> QED BY <1>5, <1>6, <1>7, <1>8

-----------------------------------------------------------------------------
(* The nodes a layer adds *)

LEMMA FirstSourceIn ==
  ASSUME NEW T, T \subseteq Links, NEW t \in T
  PROVE  \E u \in T : u.to = t.to /\ u.from = FirstSource(T, t.to)
<1>1. Sources(T, t.to) \subseteq Nat /\ Sources(T, t.to) # {}
  BY DEF Sources, Links
<1>2. \E f \in Sources(T, t.to) : \A g \in Sources(T, t.to) : f =< g
  BY <1>1, LeastExists
<1>3. FirstSource(T, t.to) \in Sources(T, t.to)
  BY <1>2 DEF FirstSource
<1> QED BY <1>3 DEF Sources

LEMMA MetOrder ==
  ASSUME NEW T, T \subseteq Links
  PROVE  StrictOrder(Met(T, Fresh(T)), Fresh(T))
<1>1. \A n \in Fresh(T) : n \in Nat /\ FirstSource(T, n) \in Nat
  <2> SUFFICES ASSUME NEW n \in Fresh(T) PROVE n \in Nat /\ FirstSource(T, n) \in Nat
    OBVIOUS
  <2>1. PICK t \in T : t.to = n
    BY DEF Fresh
  <2>2. PICK u \in T : u.from = FirstSource(T, n)
    BY <2>1, FirstSourceIn
  <2> QED BY <2>1, <2>2 DEF Links
<1> DEFINE N == Fresh(T)
           F(n) == FirstSource(T, n)
           R == Met(T, N)
<1>2. \A m, n \in N : <<m, n>> \in R <=>
        IF request.op = "subgraph" /\ F(m) # F(n) THEN F(m) < F(n) ELSE m < n
  BY DEF Met
<1> HIDE DEF N, F, R
<1>3. \A n \in N : n \in Nat /\ F(n) \in Nat
  BY <1>1 DEF N, F
<1>4. \A x, y, z \in N : <<x, y>> \in R /\ <<y, z>> \in R => <<x, z>> \in R
  BY <1>2, <1>3
<1>5. StrictOrder(R, N)
  BY <1>2, <1>3, <1>4 DEF StrictOrder
<1> QED BY <1>5 DEF R, N

\* New nodes fit in what is left of the node budget.
LEMMA TakenBound ==
  ASSUME NEW T, T \subseteq Links, Inputs, Reached \subseteq Nodes, Cardinality(Reached) =< request.nodes
  PROVE  /\ Taken(T) \subseteq Fresh(T)
         /\ Fresh(T) \subseteq Nodes
         /\ Cardinality(Reached \union Taken(T)) =< request.nodes
<1>1. Fresh(T) \subseteq Nodes
  BY DEF Fresh, Links
<1>2. IsFiniteSet(Reached) /\ Cardinality(Reached) \in Nat /\ IsFiniteSet(Fresh(T))
  BY <1>1, FS_Subset, FS_CardinalityType
<1>3. request.nodes - Cardinality(Reached) \in Nat /\ request.nodes \in Nat
  BY <1>2, RequestType DEF AllRequests
<1>4. /\ Taken(T) \subseteq Fresh(T) /\ IsFiniteSet(Taken(T))
      /\ Cardinality(Taken(T)) =< request.nodes - Cardinality(Reached)
  BY <1>2, <1>3, MetOrder, FirstOfSize DEF Taken
<1>5. Reached \cap Taken(T) = {}
  BY <1>4 DEF Fresh
<1>6. Cardinality(Reached \union Taken(T)) = Cardinality(Reached) + Cardinality(Taken(T)) - Cardinality({})
  <2> HIDE DEF Reached
  <2> QED BY <1>2, <1>4, <1>5, FS_Union
<1>7. Cardinality({}) = 0 /\ Cardinality(Taken(T)) \in Nat
  BY <1>4, FS_EmptySet, FS_CardinalityType
<1> QED BY <1>1, <1>2, <1>3, <1>4, <1>6, <1>7

-----------------------------------------------------------------------------
(* The invariant *)

LEMMA InitInv == TraversalInit => TraversalInv
<1> SUFFICES ASSUME TraversalInit PROVE TraversalInv
  OBVIOUS
<1>1. request \in AllRequests /\ Reached = request.seeds /\ request.seeds \subseteq Nodes
  BY DEF TraversalInit, AllRequests, Reached
<1>2. TraversalTypeOK
  BY <1>1 DEF TraversalInit, TraversalTypeOK, NoAnswer
<1>3. LayersStep /\ LayersComplete
  BY <1>1 DEF TraversalInit, LayersStep, LayersComplete
<1>4. BudgetsHeld
  BY <1>1 DEF TraversalInit, BudgetsHeld, AllRequests
<1> QED BY <1>2, <1>3, <1>4 DEF TraversalInv

\* What the three walks have in common: T is what counts of the layer x.
Step(x, T) ==
  /\ x \in Layers
  /\ Reach(T, x.why)
  /\ T = {t \in x.took : request.op = "paths" => Accepted(t)}
  /\ frontier' = Taken(T) \ (IF request.op = "paths" THEN {request.target} ELSE {})
  /\ expanded' = expanded + Cardinality(x.took)
  /\ links' \subseteq Transitions

LEMMA StepKeeps ==
  ASSUME TraversalInv, Going, NEW x, NEW T, Step(x, T)
  PROVE  TraversalInv'
<1>0. /\ layer \in Nat /\ frontier \subseteq Reached /\ Reached \subseteq Nodes
      /\ depthOf \in [Reached -> Nat] /\ parentOf \in [Reached -> Nodes \union {0}]
      /\ expanded \in Nat /\ LayersStep /\ LayersComplete /\ BudgetsHeld
      /\ answer.status \in {"none", "complete", "truncated", "inconclusive"}
      /\ graph \in Graphs /\ request \in Requests /\ reasons = {}
  BY DEF TraversalInv, TraversalTypeOK, Going
<1>1. /\ Inputs /\ request \in AllRequests
      /\ graph' = graph /\ request' = request /\ answer' = answer
      /\ request.edges \in Nat /\ request.nodes \in Nat
  BY <1>0, RequestType DEF Inputs, Step, Reach, AllRequests
<1>2. Transitions' = Transitions
  BY <1>1 DEF Transitions, Forward, Backward
<1>3. frontier = {n \in Reached : depthOf[n] = layer}
  BY <1>0 DEF LayersComplete, Going
<1>4. /\ x.took \subseteq Out /\ Cardinality(x.took) \in Nat
      /\ Cardinality(x.took) =< request.edges - expanded
      /\ x.why \subseteq {"edge budget", "backend limit"}
      /\ x.why = {} => x.took = Out
  <2>1. x \in Layers /\ frontier \subseteq Nodes /\ expanded =< request.edges
    BY <1>0 DEF BudgetsHeld, Step
  <2> QED BY <1>0, <1>1, <2>1, LayerBound
<1>5. T \subseteq Out /\ T \subseteq Links /\ T \subseteq Transitions
  BY <1>1, <1>4, TransitionsTyped DEF Step, Out
<1>6. /\ Taken(T) \subseteq Fresh(T) /\ Fresh(T) \subseteq Nodes
      /\ Cardinality(Reached \union Taken(T)) =< request.nodes
  BY <1>0, <1>1, <1>5, TakenBound DEF BudgetsHeld
<1>7. /\ Reached' = Reached \union Taken(T)
      /\ depthOf' = [n \in Reached' |-> IF n \in Reached THEN depthOf[n] ELSE layer + 1]
      /\ parentOf' = [n \in Reached' |-> IF n \in Reached THEN parentOf[n] ELSE FirstSource(T, n)]
      /\ layer' = layer + 1
  BY DEF Step, Reach, Reached
<1>8. ASSUME NEW n \in Taken(T)
      PROVE  n \notin Reached /\ \E t \in T : t.to = n /\ t.from = FirstSource(T, n) /\ t.from \in frontier
  <2>1. n \notin Reached /\ \E t \in T : t.to = n
    BY <1>6 DEF Fresh
  <2>2. PICK t \in T : t.to = n /\ t.from = FirstSource(T, n)
    BY <1>5, <2>1, FirstSourceIn
  <2>3. t.from \in frontier
    BY <1>5 DEF Out
  <2> QED BY <2>1, <2>2, <2>3
<1>9. TraversalTypeOK'
  <2>2. \A n \in Taken(T) : FirstSource(T, n) \in Nodes
    BY <1>0, <1>8
  <2>1. depthOf' \in [Reached' -> Nat] /\ parentOf' \in [Reached' -> Nodes \union {0}]
    <3>1. \A n \in Reached : depthOf[n] \in Nat /\ parentOf[n] \in Nodes \union {0}
      BY <1>0
    <3>2. \A n \in Reached' : n \in Reached \/ n \in Taken(T)
      BY <1>7
    <3>3. layer + 1 \in Nat
      BY <1>0
    <3>4. \A n \in Reached' : (IF n \in Reached THEN depthOf[n] ELSE layer + 1) \in Nat
      BY <3>1, <3>3
    <3>5. \A n \in Reached' : (IF n \in Reached THEN parentOf[n] ELSE FirstSource(T, n)) \in Nodes \union {0}
      BY <2>2, <3>1, <3>2
    <3> QED BY <1>7, <3>4, <3>5
  <2>4. reasons' \subseteq {"edge budget", "backend limit", "node budget"}
    <3>1. reasons' \subseteq reasons \union x.why \union {"node budget"}
      BY DEF Step, Reach
    <3> QED BY <1>0, <1>4, <3>1
  <2>5. expanded' \in Nat
    <3>1. expanded' = expanded + Cardinality(x.took)
      BY DEF Step
    <3> DEFINE c == Cardinality(x.took)
    <3>2. c \in Nat
      BY <1>4
    <3> HIDE DEF c
    <3>3. expanded + c \in Nat
      BY <1>0, <3>2
    <3> QED BY <3>1, <3>3 DEF c
  <2>6. frontier' \subseteq Reached' /\ Reached' \subseteq Nodes
    BY <1>0, <1>6, <1>7 DEF Step
  <2>7. links' \subseteq Transitions' /\ layer' \in Nat
    BY <1>0, <1>2, <1>7 DEF Step
  <2> QED BY <1>0, <1>1, <2>1, <2>4, <2>5, <2>6, <2>7 DEF TraversalTypeOK
<1>10. /\ \A n \in Reached : n \in Reached' /\ depthOf'[n] = depthOf[n] /\ parentOf'[n] = parentOf[n]
       /\ \A n \in Taken(T) : n \in Reached' /\ depthOf'[n] = layer + 1 /\ parentOf'[n] = FirstSource(T, n)
       /\ \A n \in Reached' : n \in Reached \/ n \in Taken(T)
       /\ \A n \in Reached : depthOf[n] \in Nat /\ depthOf[n] =< layer
  BY <1>0, <1>7, <1>8 DEF LayersStep
<1>11. LayersStep'
  <2>1. request.seeds \subseteq Reached'
    BY <1>0, <1>10 DEF LayersStep
  <2>2. ASSUME NEW n \in Reached'
        PROVE  depthOf'[n] =< layer' /\ (depthOf'[n] = 0 <=> n \in request.seeds)
    <3>1. CASE n \in Reached
      <4>1. depthOf[n] =< layer /\ (depthOf[n] = 0 <=> n \in request.seeds)
        BY <1>0, <3>1 DEF LayersStep
      <4>2. depthOf'[n] = depthOf[n] /\ depthOf[n] \in Nat
        BY <1>10, <3>1
      <4> QED BY <1>0, <1>7, <4>1, <4>2
    <3>2. CASE n \in Taken(T)
      <4>1. n \notin request.seeds
        BY <1>0, <1>8, <3>2 DEF LayersStep
      <4>2. depthOf'[n] = layer + 1 /\ layer' = layer + 1 /\ layer \in Nat
        BY <1>0, <1>7, <1>10, <3>2
      <4> QED BY <4>1, <4>2
    <3> QED BY <1>10, <3>1, <3>2
  <2>3. ASSUME NEW n \in Reached' \ request.seeds
        PROVE  /\ parentOf'[n] \in Reached' /\ depthOf'[n] = depthOf'[parentOf'[n]] + 1
               /\ \E t \in Transitions : t.from = parentOf'[n] /\ t.to = n
    <3>1. CASE n \in Reached
      <4>1. /\ parentOf[n] \in Reached /\ depthOf[n] = depthOf[parentOf[n]] + 1
            /\ \E t \in Transitions : t.from = parentOf[n] /\ t.to = n
        BY <1>0, <2>3, <3>1 DEF LayersStep
      <4>2. /\ parentOf'[n] = parentOf[n] /\ depthOf'[n] = depthOf[n]
            /\ parentOf[n] \in Reached' /\ depthOf'[parentOf[n]] = depthOf[parentOf[n]]
        BY <1>10, <3>1, <4>1
      <4>3. depthOf'[parentOf'[n]] = depthOf[parentOf[n]]
        BY <4>2
      <4> QED BY <4>1, <4>2, <4>3, Zenon
    <3>2. CASE n \in Taken(T)
      <4>1. PICK t \in T : t.to = n /\ t.from = FirstSource(T, n) /\ t.from \in frontier
        BY <1>8, <3>2
      <4>2. parentOf'[n] = t.from /\ t.from \in Reached /\ depthOf[t.from] = layer
        BY <1>3, <1>10, <3>2, <4>1
      <4>3. depthOf'[t.from] = layer /\ depthOf'[n] = layer + 1 /\ t.from \in Reached'
        BY <1>10, <3>2, <4>2
      <4> QED BY <1>5, <4>1, <4>2, <4>3
    <3> QED BY <1>10, <3>1, <3>2
  <2> QED BY <1>1, <1>2, <2>1, <2>2, <2>3 DEF LayersStep
<1>12. LayersComplete'
  <2> SUFFICES ASSUME reasons' = {}
      PROVE  /\ ~Found' => frontier' = {n \in Reached' : depthOf'[n] = layer'}
             /\ \A t \in Transitions :
                  /\ t.from \in Reached' /\ depthOf'[t.from] < layer'
                  /\ request.op = "paths" => Accepted(t)
                  => t.to \in Reached' /\ depthOf'[t.to] =< depthOf'[t.from] + 1
    BY <1>1, <1>2 DEF LayersComplete, Accepted
  <2>1. Taken(T) = Fresh(T) /\ x.took = Out
    BY <1>0, <1>4 DEF Step, Reach
  <2>2. {n \in Reached' : depthOf'[n] = layer'} = Taken(T)
    <3>1. \A n \in Reached : depthOf'[n] # layer'
      BY <1>0, <1>7, <1>10
    <3> QED BY <1>7, <1>10, <3>1
  <2>3. ASSUME ~Found' PROVE frontier' = Taken(T)
    <3>1. CASE request.op # "paths"
      BY <3>1 DEF Step
    <3>2. CASE request.op = "paths" /\ request.target \in Taken(T)
      <4>1. request.target \in Reached' /\ request.target \notin request.seeds
        BY <1>0, <1>8, <1>10, <3>2 DEF LayersStep
      <4> QED BY <1>1, <2>3, <3>2, <4>1 DEF Found
    <3>3. CASE request.op = "paths" /\ request.target \notin Taken(T)
      BY <3>3 DEF Step
    <3> QED BY <3>1, <3>2, <3>3
  <2>4. ASSUME NEW t \in Transitions, t.from \in Reached', depthOf'[t.from] < layer',
               request.op = "paths" => Accepted(t)
        PROVE  t.to \in Reached' /\ depthOf'[t.to] =< depthOf'[t.from] + 1
    <3>1. t.from \in Reached /\ depthOf'[t.from] = depthOf[t.from]
      BY <1>0, <1>7, <1>10, <2>4
    <3>2. CASE depthOf[t.from] < layer
      <4>1. t.to \in Reached /\ depthOf[t.to] =< depthOf[t.from] + 1
        BY <1>0, <2>4, <3>1, <3>2 DEF LayersComplete
      <4> QED BY <1>10, <3>1, <4>1
    <3>3. CASE depthOf[t.from] = layer
      <4>1. t \in T
        BY <1>3, <2>1, <2>4, <3>1, <3>3 DEF Step, Out
      <4>2. t.to \in Reached \/ t.to \in Taken(T)
        BY <2>1, <4>1 DEF Fresh
      <4>3. t.to \in Reached' /\ depthOf'[t.to] =< layer + 1
        <5>1. CASE t.to \in Reached
          <6>1. depthOf'[t.to] = depthOf[t.to] /\ depthOf[t.to] \in Nat /\ depthOf[t.to] =< layer /\ t.to \in Reached'
            BY <1>10, <5>1
          <6> QED BY <1>0, <6>1
        <5>2. CASE t.to \in Taken(T)
          <6>1. depthOf'[t.to] = layer + 1 /\ t.to \in Reached'
            BY <1>10, <5>2
          <6> QED BY <1>0, <6>1
        <5> QED BY <4>2, <5>1, <5>2
      <4> QED BY <3>1, <3>3, <4>3
    <3>4. depthOf[t.from] < layer \/ depthOf[t.from] = layer
      <4>1. depthOf[t.from] \in Nat /\ depthOf[t.from] =< layer /\ layer \in Nat
        BY <1>0, <1>10, <3>1
      <4> QED BY <4>1
    <3> QED BY <3>2, <3>3, <3>4
  <2> QED BY <2>2, <2>3, <2>4
<1>13. BudgetsHeld'
  <2>1. expanded' = expanded + Cardinality(x.took)
    BY DEF Step
  <2>2. expanded' =< request.edges
    <3> DEFINE c == Cardinality(x.took)
    <3>2. c \in Nat /\ c =< request.edges - expanded
      BY <1>4
    <3> HIDE DEF c
    <3>3. expanded + c =< request.edges
      BY <1>0, <1>1, <3>2
    <3> QED BY <2>1, <3>3 DEF c
  <2> QED BY <1>1, <1>6, <1>7, <2>2 DEF BudgetsHeld
<1> QED BY <1>9, <1>11, <1>12, <1>13 DEF TraversalInv

LEMMA NextInv == TraversalInv /\ [TraversalNext]_walkVars => TraversalInv'
<1> SUFFICES ASSUME TraversalInv, [TraversalNext]_walkVars PROVE TraversalInv'
  OBVIOUS
<1>1. CASE WalkTree
  <2>1. PICK x \in Layers : Reach(x.took, x.why) /\ frontier' = Taken(x.took)
                             /\ expanded' = expanded + Cardinality(x.took)
    BY <1>1 DEF WalkTree
  <2>2. Step(x, x.took)
    BY <1>1, <2>1 DEF WalkTree, Step, TraversalInv, TraversalTypeOK
  <2> QED BY <1>1, <2>2, StepKeeps DEF WalkTree
<1>2. CASE WalkSubgraph
  <2>1. PICK x \in Layers : /\ Reach(x.took, x.why) /\ frontier' = Taken(x.took)
                            /\ expanded' = expanded + Cardinality(x.took)
                            /\ links' = links \union x.took
    BY <1>2 DEF WalkSubgraph
  <2>2. x.took \subseteq Transitions
    BY LayerBound DEF Inputs, TraversalInv, TraversalTypeOK, BudgetsHeld, Out
  <2>3. Step(x, x.took)
    BY <1>2, <2>1, <2>2 DEF WalkSubgraph, Step, TraversalInv, TraversalTypeOK
  <2> QED BY <1>2, <2>3, StepKeeps DEF WalkSubgraph
<1>3. CASE WalkPaths
  <2> DEFINE T(x) == {t \in x.took : Accepted(t)}
  <2>1. PICK x \in Layers : /\ Reach(T(x), x.why) /\ frontier' = Taken(T(x)) \ {request.target}
                            /\ expanded' = expanded + Cardinality(x.took)
                            /\ links' = links \union Predecessors(T(x))
    BY <1>3 DEF WalkPaths
  <2>2. x.took \subseteq Transitions
    BY LayerBound DEF Inputs, TraversalInv, TraversalTypeOK, BudgetsHeld, Out
  <2>3. Predecessors(T(x)) \subseteq Transitions
    BY <2>2 DEF Predecessors
  <2>4. Step(x, T(x))
    BY <1>3, <2>1, <2>3 DEF WalkPaths, Step, TraversalInv, TraversalTypeOK
  <2> QED BY <1>3, <2>4, StepKeeps DEF WalkPaths
<1>4. ASSUME UNCHANGED <<graph, request, layer, frontier, depthOf, parentOf, links, expanded, reasons>>,
             answer'.status \in {"none", "complete", "truncated", "inconclusive"}
      PROVE  TraversalInv'
  <2>1. UNCHANGED <<Reached, Transitions, Found>>
    BY <1>4 DEF Reached, Transitions, Forward, Backward, Found
  <2> QED BY <1>4, <2>1 DEF TraversalInv, TraversalTypeOK, LayersStep, LayersComplete, BudgetsHeld, Accepted
<1>5. CASE ReportImpact
  BY <1>4, <1>5 DEF ReportImpact, StatusOf
<1>6. CASE ReportSubgraph
  BY <1>4, <1>6 DEF ReportSubgraph, StatusOf
<1>7. CASE ReportFlow
  BY <1>4, <1>7 DEF ReportFlow, StatusOf
<1>8. CASE ReportPaths
  <2>1. answer'.status \in {"complete", "truncated", "inconclusive"}
    BY <1>8 DEF ReportPaths, StatusOf
  <2> QED BY <1>4, <1>8, <2>1 DEF ReportPaths
<1>9. CASE UNCHANGED walkVars
  BY <1>4, <1>9 DEF walkVars, TraversalInv, TraversalTypeOK
<1> QED BY <1>1, <1>2, <1>3, <1>5, <1>6, <1>7, <1>8, <1>9 DEF TraversalNext

\* Whatever the graph, the call and the way a walk is cut short, it keeps to
\* its budgets, its depths count layers, and an expanded layer misses no
\* transition without a reason given.
THEOREM TraversalCorrect == TraversalSpec => []TraversalInv
  BY InitInv, NextInv, PTL DEF TraversalSpec

-----------------------------------------------------------------------------
(* Near is the function it is defined to be *)

\* The walks from the seeds and where walks of at most k transitions lead.
Walks ==
  {c \in Seq(Transitions) :
     c # <<>> /\ c[1].from \in request.seeds /\ \A i \in 1 .. Len(c) - 1 : c[i].to = c[i + 1].from}
Hops(k) == request.seeds \union {c[Len(c)].to : c \in {c \in Walks : Len(c) =< k}}

LEMMA HopsNext ==
  ASSUME NEW k \in Nat \ {0}
  PROVE  Hops(k) = Hops(k - 1) \union {t.to : t \in {t \in Transitions : t.from \in Hops(k - 1)}}
<1>1. ASSUME NEW n \in Hops(k)
      PROVE  n \in Hops(k - 1) \/ \E t \in Transitions : t.from \in Hops(k - 1) /\ n = t.to
  <2>1. CASE n \in request.seeds
    BY <2>1 DEF Hops
  <2>2. ASSUME NEW c \in Walks, Len(c) =< k, n = c[Len(c)].to
        PROVE  n \in Hops(k - 1) \/ \E t \in Transitions : t.from \in Hops(k - 1) /\ n = t.to
    <3>1. c \in Seq(Transitions) /\ Len(c) \in Nat \ {0} /\ c[Len(c)] \in Transitions
      BY DEF Walks
    <3>2. CASE Len(c) =< k - 1
      BY <2>2, <3>2 DEF Hops
    <3>3. CASE Len(c) = k /\ k = 1
      <4>1. c[1].from \in request.seeds
        BY DEF Walks
      <4>2. c[1].from \in Hops(k - 1)
        BY <4>1 DEF Hops
      <4> QED BY <2>2, <3>1, <3>3, <4>2
    <3>4. CASE Len(c) = k /\ k # 1
      <4> DEFINE d == [i \in 1 .. k - 1 |-> c[i]]
      <4>1. d \in Seq(Transitions) /\ Len(d) = k - 1 /\ d # <<>>
        BY <3>1, <3>4
      <4>2. \A i \in 1 .. k - 1 : d[i] = c[i]
        OBVIOUS
      <4> HIDE DEF d
      <4>3. d[1].from \in request.seeds
        BY <3>4, <4>2 DEF Walks
      <4>4. ASSUME NEW i \in 1 .. Len(d) - 1 PROVE d[i].to = d[i + 1].from
        <5>1. i \in 1 .. Len(c) - 1 /\ i \in 1 .. k - 1 /\ i + 1 \in 1 .. k - 1
          BY <3>4, <4>1
        <5> QED BY <4>2, <5>1 DEF Walks
      <4>5. d \in Walks
        BY <4>1, <4>3, <4>4 DEF Walks
      <4>6. k - 1 \in 1 .. Len(c) - 1 /\ c[k - 1].to = c[k].from
        <5>1. k - 1 \in 1 .. Len(c) - 1 /\ (k - 1) + 1 = k
          BY <3>4
        <5> QED BY <5>1 DEF Walks
      <4>7. d[Len(d)].to = c[k].from
        BY <3>4, <4>1, <4>2, <4>6
      <4>8. c[k].from \in Hops(k - 1)
        BY <4>1, <4>5, <4>7 DEF Hops
      <4> QED BY <2>2, <3>1, <3>4, <4>8
    <3> QED BY <2>2, <3>1, <3>2, <3>3, <3>4
  <2> QED BY <2>1, <2>2 DEF Hops
<1>2. ASSUME NEW n \in Hops(k - 1) PROVE n \in Hops(k)
  <2>1. \A c \in Walks : Len(c) =< k - 1 => Len(c) =< k
    BY DEF Walks
  <2> QED BY <2>1 DEF Hops
<1>3. ASSUME NEW t \in Transitions, t.from \in Hops(k - 1) PROVE t.to \in Hops(k)
  <2>1. ASSUME t.from \in request.seeds PROVE \E c \in Walks : Len(c) =< k /\ c[Len(c)].to = t.to
    <3>1. <<t>> \in Seq(Transitions) /\ <<t>> # <<>> /\ Len(<<t>>) = 1 /\ (<<t>>)[1] = t
      OBVIOUS
    <3>2. <<t>> \in Walks
      BY <2>1, <3>1 DEF Walks
    <3> QED BY <3>1, <3>2
  <2>2. ASSUME NEW c \in Walks, Len(c) =< k - 1, c[Len(c)].to = t.from
        PROVE  \E d \in Walks : Len(d) =< k /\ d[Len(d)].to = t.to
    <3> DEFINE d == Append(c, t)
    <3>1. c \in Seq(Transitions) /\ Len(c) \in Nat \ {0}
      BY DEF Walks
    <3>2. /\ d \in Seq(Transitions) /\ Len(d) = Len(c) + 1 /\ d # <<>>
          /\ d[Len(c) + 1] = t /\ \A i \in 1 .. Len(c) : d[i] = c[i]
      BY <3>1
    <3> HIDE DEF d
    <3>3. d[1].from \in request.seeds
      BY <3>1, <3>2 DEF Walks
    <3>4. ASSUME NEW i \in 1 .. Len(d) - 1 PROVE d[i].to = d[i + 1].from
      <4>1. CASE i = Len(c)
        BY <2>2, <3>1, <3>2, <4>1
      <4>2. CASE i # Len(c)
        <5>1. i \in 1 .. Len(c) /\ i + 1 \in 1 .. Len(c) /\ i \in 1 .. Len(c) - 1
          BY <3>1, <3>2, <4>2
        <5> QED BY <3>2, <5>1 DEF Walks
      <4> QED BY <4>1, <4>2
    <3>5. d \in Walks
      BY <3>2, <3>3, <3>4 DEF Walks
    <3>6. Len(d) =< k /\ d[Len(d)].to = t.to
      BY <2>2, <3>1, <3>2
    <3> QED BY <3>5, <3>6
  <2>3. t.from \in request.seeds \/ \E c \in Walks : Len(c) =< k - 1 /\ c[Len(c)].to = t.from
    BY <1>3 DEF Hops
  <2>4. \E c \in Walks : Len(c) =< k /\ c[Len(c)].to = t.to
    BY <2>1, <2>2, <2>3
  <2> QED BY <2>4 DEF Hops
<1> QED BY <1>1, <1>2, <1>3

LEMMA HopsFirst == Hops(0) = request.seeds
<1>1. \A c \in Walks : ~(Len(c) =< 0)
  BY DEF Walks
<1> QED BY <1>1 DEF Hops

\* There is a function that satisfies the equation of Near, so Near does.
LEMMA NearNext ==
  /\ Near[0] = request.seeds
  /\ \A k \in Nat \ {0} : Near[k] = Near[k - 1] \union {t.to : t \in {t \in Transitions : t.from \in Near[k - 1]}}
<1> DEFINE G == [k \in Nat |-> Hops(k)]
<1>1. G = [k \in Nat |->
            IF k = 0 THEN request.seeds
            ELSE G[k - 1] \union {t.to : t \in {t \in Transitions : t.from \in G[k - 1]}}]
  <2>1. ASSUME NEW k \in Nat
        PROVE  Hops(k) = IF k = 0 THEN request.seeds
                         ELSE G[k - 1] \union {t.to : t \in {t \in Transitions : t.from \in G[k - 1]}}
    <3>1. CASE k = 0
      BY <3>1, HopsFirst
    <3>2. CASE k # 0
      <4>1. k - 1 \in Nat /\ G[k - 1] = Hops(k - 1)
        BY <3>2
      <4> HIDE DEF G
      <4> QED BY <3>2, <4>1, HopsNext
    <3> QED BY <3>1, <3>2
  <2> QED BY <2>1, Zenon
<1> HIDE DEF G
<1>2. Near = [k \in Nat |->
               IF k = 0 THEN request.seeds
               ELSE Near[k - 1] \union {t.to : t \in {t \in Transitions : t.from \in Near[k - 1]}}]
  BY <1>1, Zenon DEF Near
<1> DEFINE W == Near
<1>3. W[0] = request.seeds
  BY <1>2
<1>4. \A k \in Nat \ {0} : W[k] = W[k - 1] \union {t.to : t \in {t \in Transitions : t.from \in W[k - 1]}}
  BY <1>2
<1> QED BY <1>3, <1>4

LEMMA NearGrows ==
  ASSUME NEW i \in Nat, NEW j \in Nat, i =< j
  PROVE  Near[i] \subseteq Near[j]
<1> DEFINE Bad == {k \in Nat : i =< k /\ ~(Near[i] \subseteq Near[k])}
<1> SUFFICES ASSUME Bad # {} PROVE FALSE
  OBVIOUS
<1>1. PICK k \in Bad : \A l \in Bad : k =< l
  <2>1. Bad \subseteq Nat
    OBVIOUS
  <2> HIDE DEF Bad
  <2> QED BY <2>1, LeastExists
<1>2. k # i /\ k \in Nat \ {0} /\ i =< k - 1 /\ k - 1 \in Nat /\ k - 1 \notin Bad
  BY <1>1
<1>3. Near[i] \subseteq Near[k - 1]
  BY <1>2
<1>4. Near[k - 1] \subseteq Near[k]
  BY <1>2, NearNext
<1> QED BY <1>3, <1>4

-----------------------------------------------------------------------------
(* What a walk knows of distances *)

Usable == {t \in Transitions : request.op = "paths" => Accepted(t)}

\* What leads out of a layer above the last one was followed, even when the
\* walk was cut in the last one.
Behind ==
  \A t \in Usable :
    t.from \in Reached /\ depthOf[t.from] + 1 < layer => t.to \in Reached /\ depthOf[t.to] =< depthOf[t.from] + 1

\* A subgraph keeps what leads out of the layers expanded, a search for paths
\* what leads one layer down.
LinksKept ==
  /\ request.op = "subgraph" =>
       /\ \A t \in links : t \in Transitions /\ t.from \in Reached /\ depthOf[t.from] < layer
       /\ reasons = {} => \A t \in Transitions : t.from \in Reached /\ depthOf[t.from] < layer => t \in links
  /\ request.op = "paths" =>
       /\ \A t \in links : t \in Usable /\ t.from \in Reached /\ t.to \in Reached /\ depthOf[t.to] = depthOf[t.from] + 1
       /\ \A n \in Reached \ request.seeds : \E t \in links : t.to = n
       /\ reasons = {} =>
            \A t \in Usable :
              t.from \in Reached /\ t.to \in Reached /\ depthOf[t.to] = depthOf[t.from] + 1 => t \in links

Over == ~(layer < request.depth /\ frontier # {} /\ reasons = {} /\ ~Found)

DistInv == TraversalInv /\ layer =< request.depth /\ Behind /\ LinksKept

LEMMA WalkTypes ==
  ASSUME DistInv
  PROVE  /\ layer \in Nat /\ request.depth \in Nat /\ layer =< request.depth
         /\ request \in AllRequests /\ request.seeds \subseteq Reached /\ IsFiniteSet(Reached)
         /\ \A n \in Reached : depthOf[n] \in Nat /\ depthOf[n] =< layer /\ (depthOf[n] = 0 <=> n \in request.seeds)
         /\ Inputs
<1>1. Inputs /\ request \in AllRequests
  BY RequestType DEF DistInv, TraversalInv, TraversalTypeOK, Inputs
<1>2. IsFiniteSet(Reached)
  <2>1. Reached \subseteq Nodes
    BY DEF DistInv, TraversalInv, TraversalTypeOK
  <2> QED BY <2>1, FS_Subset
<1>3. layer \in Nat /\ depthOf \in [Reached -> Nat] /\ LayersStep
  BY DEF DistInv, TraversalInv, TraversalTypeOK
<1>4. request.depth \in Nat
  BY <1>1 DEF AllRequests
<1>5. \A n \in Reached : depthOf[n] \in Nat
  BY <1>3
<1> QED BY <1>1, <1>2, <1>3, <1>4, <1>5 DEF DistInv, LayersStep

LEMMA DepthIsNear ==
  ASSUME DistInv, NEW n \in Reached
  PROVE  n \in Near[depthOf[n]]
<1> DEFINE Bad == {k \in Nat : \E m \in Reached : depthOf[m] = k /\ m \notin Near[k]}
<1>0. n \in Near[depthOf[n]] \/ Bad # {}
  BY WalkTypes
<1> SUFFICES ASSUME Bad # {} PROVE FALSE
  BY <1>0
<1>1. PICK k \in Bad : \A l \in Bad : k =< l
  <2>1. Bad \subseteq Nat
    OBVIOUS
  <2> HIDE DEF Bad
  <2> QED BY <2>1, LeastExists
<1>2. PICK m \in Reached : depthOf[m] = k /\ m \notin Near[k]
  OBVIOUS
<1>3. m \notin request.seeds /\ k \in Nat \ {0}
  BY <1>2, WalkTypes, NearNext
<1>4. PICK t \in Transitions : t.from = parentOf[m] /\ t.to = m
  BY <1>2, <1>3 DEF DistInv, TraversalInv, LayersStep
<1>5. parentOf[m] \in Reached /\ depthOf[m] = depthOf[parentOf[m]] + 1
  BY <1>2, <1>3 DEF DistInv, TraversalInv, LayersStep
<1>6. depthOf[parentOf[m]] = k - 1 /\ k - 1 \in Nat
  BY <1>2, <1>3, <1>5, WalkTypes
<1>7. k - 1 \notin Bad
  BY <1>1, <1>3
<1>8. parentOf[m] \in Near[k - 1]
  BY <1>5, <1>6, <1>7
<1>9. m \in Near[k]
  BY <1>3, <1>4, <1>8, NearNext
<1> QED BY <1>2, <1>9

\* As far down as nothing is missing, what is near was reached, and as soon.
LEMMA NearIsReached ==
  ASSUME DistInv, NEW d \in Nat,
         \A t \in Transitions : t.from \in Reached /\ depthOf[t.from] < d
                                  => t.to \in Reached /\ depthOf[t.to] =< depthOf[t.from] + 1,
         NEW k \in Nat, k =< d, NEW n \in Near[k]
  PROVE  n \in Reached /\ depthOf[n] =< k
<1> DEFINE Bad == {j \in Nat : j =< d /\ \E m \in Near[j] : ~(m \in Reached /\ depthOf[m] =< j)}
<1> SUFFICES ASSUME Bad # {} PROVE FALSE
  OBVIOUS
<1>1. PICK j \in Bad : \A l \in Bad : j =< l
  <2>1. Bad \subseteq Nat
    OBVIOUS
  <2> HIDE DEF Bad
  <2> QED BY <2>1, LeastExists
<1>2. PICK m \in Near[j] : ~(m \in Reached /\ depthOf[m] =< j)
  OBVIOUS
<1>3. j \in Nat \ {0} /\ j - 1 \in Nat
  BY <1>2, WalkTypes, NearNext
<1>4. \A l \in Near[j - 1] : l \in Reached /\ depthOf[l] =< j - 1
  BY <1>1, <1>3
<1>5. CASE m \in Near[j - 1]
  BY <1>2, <1>3, <1>4, <1>5, WalkTypes
<1>6. ASSUME NEW t \in Transitions, t.from \in Near[j - 1], m = t.to PROVE FALSE
  <2>1. t.from \in Reached /\ depthOf[t.from] =< j - 1 /\ depthOf[t.from] \in Nat
    BY <1>4, <1>6, WalkTypes
  <2>2. depthOf[t.from] < d
    BY <1>1, <1>3, <2>1
  <2>3. m \in Reached /\ depthOf[m] =< depthOf[t.from] + 1
    BY <1>6, <2>1, <2>2
  <2> QED BY <1>2, <1>3, <2>1, <2>3, WalkTypes
<1> QED BY <1>2, <1>3, <1>5, <1>6, NearNext

\* Depths are distances, cut short or not.
LEMMA DepthIsDistance ==
  ASSUME DistInv, request.op # "paths", NEW n \in Reached
  PROVE  n \in Scope /\ Distance(n) = depthOf[n]
<1> DEFINE k == depthOf[n]
<1>1. k \in Nat /\ k =< layer /\ layer \in Nat /\ request.depth \in Nat /\ layer =< request.depth
  BY WalkTypes
<1>2. n \in Near[k]
  BY DepthIsNear
<1>3. \A j \in Nat : j < k => n \notin Near[j]
  <2> SUFFICES ASSUME NEW j \in Nat, j < k, n \in Near[j] PROVE FALSE
    OBVIOUS
  <2>1. layer - 1 \in Nat /\ j =< layer - 1
    BY <1>1
  <2>2. \A t \in Transitions : t.from \in Reached /\ depthOf[t.from] < layer - 1
                                => t.to \in Reached /\ depthOf[t.to] =< depthOf[t.from] + 1
    <3> SUFFICES ASSUME NEW t \in Transitions, t.from \in Reached, depthOf[t.from] < layer - 1
                 PROVE  t.to \in Reached /\ depthOf[t.to] =< depthOf[t.from] + 1
      OBVIOUS
    <3>1. depthOf[t.from] + 1 < layer
      BY <1>1, WalkTypes
    <3> QED BY <3>1 DEF DistInv, Behind, Usable
  <2>3. depthOf[n] =< j
    BY <2>1, <2>2, NearIsReached
  <2> QED BY <1>1, <2>3
<1>4. n \in Scope
  BY <1>1, <1>2, NearGrows DEF Scope
<1> HIDE DEF k
<1>5. k \in 0 .. request.depth /\ n \in Near[k] /\ (k = 0 \/ n \notin Near[k - 1])
  BY <1>1, <1>2, <1>3
<1>6. ASSUME NEW j \in 0 .. request.depth, n \in Near[j], j = 0 \/ n \notin Near[j - 1]
      PROVE  j = k
  <2>1. ~(j < k)
    BY <1>3, <1>6
  <2>2. ASSUME k < j PROVE FALSE
    <3>1. j - 1 \in Nat /\ k =< j - 1
      BY <1>1, <2>2
    <3>2. n \in Near[j - 1]
      BY <1>1, <1>2, <3>1, NearGrows
    <3> QED BY <1>1, <1>6, <2>2, <3>2
  <2> QED BY <1>1, <2>1, <2>2
<1>7. Distance(n) = k
  BY <1>5, <1>6 DEF Distance
<1> QED BY <1>4, <1>7 DEF k

\* A walk that is over and was not cut followed every transition it could.
LEMMA AllFollowed ==
  ASSUME DistInv, Over, reasons = {}, ~Found
  PROVE  \A t \in Usable : t.from \in Reached /\ depthOf[t.from] < request.depth
                            => t.to \in Reached /\ depthOf[t.to] =< depthOf[t.from] + 1 /\ depthOf[t.from] < layer
<1> SUFFICES ASSUME NEW t \in Usable, t.from \in Reached, depthOf[t.from] < request.depth
             PROVE  t.to \in Reached /\ depthOf[t.to] =< depthOf[t.from] + 1 /\ depthOf[t.from] < layer
  OBVIOUS
<1>1. LayersComplete
  BY DEF DistInv, TraversalInv
<1>2. depthOf[t.from] < layer
  <2>1. CASE layer < request.depth
    <3>1. frontier = {}
      BY <2>1 DEF Over
    <3>2. depthOf[t.from] # layer
      BY <1>1, <3>1 DEF LayersComplete
    <3> QED BY <3>2, WalkTypes
  <2>2. CASE ~(layer < request.depth)
    BY <2>2, WalkTypes
  <2> QED BY <2>1, <2>2
<1> QED BY <1>1, <1>2 DEF LayersComplete, Usable

LEMMA ScopeIsReached ==
  ASSUME DistInv, Over, reasons = {}, request.op # "paths"
  PROVE  Scope = Reached
<1>1. \A n \in Reached : n \in Scope
  BY DepthIsDistance
<1>2. ASSUME NEW n \in Scope PROVE n \in Reached
  <2>1. request.depth \in Nat
    BY WalkTypes
  <2>2. \A t \in Transitions : t.from \in Reached /\ depthOf[t.from] < request.depth
                                => t.to \in Reached /\ depthOf[t.to] =< depthOf[t.from] + 1
    BY AllFollowed DEF Found, Usable
  <2>3. n \in Near[request.depth]
    BY DEF Scope
  <2> QED BY <2>1, <2>2, <2>3, NearIsReached
<1> QED BY <1>1, <1>2

\* What is near are nodes.
LEMMA ScopeFinite == DistInv => IsFiniteSet(Scope)
<1> SUFFICES ASSUME DistInv PROVE IsFiniteSet(Scope)
  OBVIOUS
<1> DEFINE Bad == {k \in Nat : ~(Near[k] \subseteq Nodes)}
<1>1. Bad = {}
  <2> SUFFICES ASSUME Bad # {} PROVE FALSE
    OBVIOUS
  <2>1. PICK k \in Bad : \A l \in Bad : k =< l
    <3>1. Bad \subseteq Nat
      OBVIOUS
    <3> HIDE DEF Bad
    <3> QED BY <3>1, LeastExists
  <2>2. request.seeds \subseteq Nodes
    BY WalkTypes DEF AllRequests
  <2>3. k \in Nat \ {0}
    BY <2>2, NearNext
  <2>4. k - 1 \in Nat /\ k - 1 \notin Bad
    BY <2>1, <2>3
  <2>5. Near[k - 1] \subseteq Nodes
    BY <2>4
  <2>6. \A t \in Transitions : t.to \in Nodes
    BY WalkTypes, TransitionsTyped DEF Links
  <2>7. Near[k] \subseteq Nodes
    BY <2>3, <2>5, <2>6, NearNext
  <2> QED BY <2>7
<1>2. Scope \subseteq Nodes
  BY <1>1, WalkTypes DEF Scope
<1> QED BY <1>2, FS_Subset

-----------------------------------------------------------------------------
(* The answers of impact, subgraph and flow *)

ImpactAnswer ==
  LET affected == Reached \ request.seeds IN
  answer = [status |-> StatusOf(Cardinality(affected) > request.limit),
            nodes |-> FirstOf(affected, request.limit, Listed(affected)),
            evaluated |-> Cardinality(affected)]
SubgraphAnswer ==
  answer = [status |-> StatusOf(FALSE),
            nodes |-> Reached,
            edges |-> {e \in {t.edge : t \in links} : e.src \in Reached /\ e.dst \in Reached}]
FlowAnswer ==
  LET visible == Reached \ (request.hidden \ request.seeds)
      end == request.offset + request.limit IN
  answer = [status |-> StatusOf(FALSE),
            nodes |-> FirstOf(visible, end, Listed(visible)) \ FirstOf(visible, request.offset, Listed(visible)),
            more |-> Cardinality(visible) > end]

LEMMA RankInSet ==
  ASSUME NEW S, IsFiniteSet(S), NEW R, NEW s \in S, <<s, s>> \notin R
  PROVE  /\ Cardinality({r \in S : <<r, s>> \in R}) \in Nat
         /\ Cardinality({r \in S : <<r, s>> \in R}) < Cardinality(S)
<1> DEFINE B == {r \in S : <<r, s>> \in R}
<1>1. B \subseteq S /\ s \notin B
  OBVIOUS
<1> HIDE DEF B
<1>2. IsFiniteSet(B) /\ Cardinality(B) =< Cardinality(S) /\ (Cardinality(S) = Cardinality(B) => S = B)
  BY <1>1, FS_Subset
<1>3. Cardinality(B) \in Nat /\ Cardinality(S) \in Nat
  BY <1>2, FS_CardinalityType
<1>4. Cardinality(B) < Cardinality(S)
  BY <1>1, <1>2, <1>3
<1> QED BY <1>3, <1>4 DEF B

LEMMA FirstOfAll ==
  ASSUME NEW S, IsFiniteSet(S), NEW R, \A s \in S : <<s, s>> \notin R, NEW n \in Nat, Cardinality(S) =< n
  PROVE  FirstOf(S, n, R) = S
<1>1. ASSUME NEW s \in S PROVE Cardinality({r \in S : <<r, s>> \in R}) < n
  <2>1. /\ Cardinality({r \in S : <<r, s>> \in R}) \in Nat
        /\ Cardinality({r \in S : <<r, s>> \in R}) < Cardinality(S)
    BY RankInSet
  <2>2. Cardinality(S) \in Nat
    BY FS_CardinalityType
  <2> DEFINE c == Cardinality({r \in S : <<r, s>> \in R})
  <2> HIDE DEF c
  <2>3. c \in Nat /\ c < Cardinality(S)
    BY <2>1 DEF c
  <2>4. c < n
    BY <2>2, <2>3
  <2> QED BY <2>4 DEF c
<1> QED BY <1>1 DEF FirstOf

LEMMA SameRank ==
  ASSUME NEW S, NEW R, NEW Q, \A x, y \in S : <<x, y>> \in R <=> <<x, y>> \in Q
  PROVE  /\ \A s \in S : {r \in S : <<r, s>> \in R} = {r \in S : <<r, s>> \in Q}
         /\ \A n : FirstOf(S, n, R) = FirstOf(S, n, Q)
<1>1. \A s \in S : {r \in S : <<r, s>> \in R} = {r \in S : <<r, s>> \in Q}
  OBVIOUS
<1>2. \A s \in S : Cardinality({r \in S : <<r, s>> \in R}) = Cardinality({r \in S : <<r, s>> \in Q})
  BY <1>1
<1> QED BY <1>1, <1>2 DEF FirstOf

\* The order by depth is the order by distance.
LEMMA ListedByDistance ==
  ASSUME DistInv, request.op # "paths", NEW S, S \subseteq Reached
  PROVE  /\ \A x, y \in S : <<x, y>> \in Listed(S) <=> <<x, y>> \in ByDistance(S)
         /\ \A x \in S : <<x, x>> \notin Listed(S)
<1>1. ASSUME NEW x \in S, NEW y \in S
      PROVE  <<x, y>> \in Listed(S) <=> <<x, y>> \in ByDistance(S)
  <2>1. Distance(x) = depthOf[x] /\ Distance(y) = depthOf[y]
    BY DepthIsDistance
  <2>2. <<x, y>> \in Listed(S) <=> (depthOf[x] < depthOf[y] \/ (depthOf[x] = depthOf[y] /\ x < y))
    BY DEF Listed
  <2>3. <<x, y>> \in ByDistance(S) <=> (Distance(x) < Distance(y) \/ (Distance(x) = Distance(y) /\ x < y))
    BY DEF ByDistance
  <2> QED BY <2>1, <2>2, <2>3
<1>2. ASSUME NEW x \in S PROVE <<x, x>> \notin Listed(S)
  <2>1. x \in Nat /\ depthOf[x] \in Nat
    BY WalkTypes DEF DistInv, TraversalInv, TraversalTypeOK
  <2>2. <<x, x>> \in Listed(S) <=> (depthOf[x] < depthOf[x] \/ (depthOf[x] = depthOf[x] /\ x < x))
    BY DEF Listed
  <2> QED BY <2>1, <2>2
<1> QED BY <1>1, <1>2

LEMMA ImpactHonest ==
  ASSUME DistInv, Over, request.op = "impact", ImpactAnswer
  PROVE  HonestImpact
<1> DEFINE A == Reached \ request.seeds
           F == FirstOf(A, request.limit, Listed(A))
<1>1. answer.status = StatusOf(Cardinality(A) > request.limit) /\ answer.nodes = F /\ answer.evaluated = Cardinality(A)
  BY DEF ImpactAnswer
<1>2. F \subseteq A /\ A \subseteq Reached /\ IsFiniteSet(A)
  <2>1. F \subseteq A
    BY DEF FirstOf
  <2>2. IsFiniteSet(A)
    BY WalkTypes, FS_Subset
  <2> QED BY <2>1, <2>2
<1>3. request.limit \in Nat /\ Cardinality(A) \in Nat
  BY <1>2, WalkTypes, FS_CardinalityType DEF AllRequests
<1>4. /\ \A x, y \in A : <<x, y>> \in Listed(A) <=> <<x, y>> \in ByDistance(A)
      /\ \A x \in A : <<x, x>> \notin Listed(A)
  BY ListedByDistance
<1> HIDE DEF A, F
<1>5. Exact(answer.nodes)
  BY <1>1, <1>2, DepthIsDistance DEF Exact
<1>6. A \subseteq Scope \ request.seeds
  BY DepthIsDistance DEF A
<1>7. IsFiniteSet(Scope \ request.seeds) /\ Cardinality(A) =< Cardinality(Scope \ request.seeds)
  <2>1. IsFiniteSet(Scope)
    BY ScopeFinite
  <2> DEFINE V == Scope \ request.seeds
  <2>2. IsFiniteSet(V)
    BY <2>1, FS_Subset
  <2> HIDE DEF V
  <2>3. A \in SUBSET V
    BY <1>6 DEF V
  <2>4. Cardinality(A) =< Cardinality(V)
    BY <2>2, <2>3, FS_Subset
  <2> QED BY <2>2, <2>4 DEF V
<1>8. reasons = {} => Scope \ request.seeds = A
  BY ScopeIsReached DEF A
<1>9. F = FirstOf(A, request.limit, ByDistance(A))
  BY <1>4, SameRank DEF F
<1>10. ~(Cardinality(A) > request.limit) => F = A
  BY <1>2, <1>3, <1>4, FirstOfAll DEF F
<1>11. answer.status # "inconclusive" => reasons = {}
  BY <1>1 DEF StatusOf
<1>12. answer.status = "complete" => reasons = {} /\ ~(Cardinality(A) > request.limit)
  BY <1>1 DEF StatusOf
<1> QED BY <1>1, <1>5, <1>7, <1>8, <1>9, <1>10, <1>11, <1>12 DEF HonestImpact

LEMMA FlowHonest ==
  ASSUME DistInv, Over, request.op = "flow", FlowAnswer
  PROVE  HonestFlow
<1> DEFINE V == Reached \ (request.hidden \ request.seeds)
           W == Scope \ (request.hidden \ request.seeds)
           end == request.offset + request.limit
           F(n) == FirstOf(V, n, Listed(V))
           rank(n) == Cardinality({m \in V : <<m, n>> \in Listed(V)})
<1>1. /\ answer.status = StatusOf(FALSE) /\ answer.nodes = F(end) \ F(request.offset)
      /\ answer.more <=> Cardinality(V) > end
  BY DEF FlowAnswer
<1>2. V \subseteq Reached /\ IsFiniteSet(V) /\ V \subseteq W /\ IsFiniteSet(W)
  <2>1. IsFiniteSet(V) /\ V \subseteq Reached
    BY WalkTypes, FS_Subset
  <2>2. V \subseteq W
    BY DepthIsDistance
  <2>3. IsFiniteSet(W)
    BY ScopeFinite, FS_Subset
  <2> QED BY <2>1, <2>2, <2>3
<1>3. request.limit \in Nat /\ request.offset \in Nat /\ end \in Nat
  BY WalkTypes DEF AllRequests
<1>4. /\ \A x, y \in V : <<x, y>> \in Listed(V) <=> <<x, y>> \in ByDistance(V)
      /\ \A x \in V : <<x, x>> \notin Listed(V)
  BY <1>2, ListedByDistance
<1>5. Cardinality(V) \in Nat /\ Cardinality(W) \in Nat /\ Cardinality(V) =< Cardinality(W)
  <2> HIDE DEF V, W
  <2> QED BY <1>2, FS_Subset, FS_CardinalityType
<1>6. \A n : F(n) = {s \in V : rank(s) < n}
  BY DEF FirstOf
<1>7. \A s \in V : rank(s) \in Nat
  <2> SUFFICES ASSUME NEW s \in V PROVE Cardinality({m \in V : <<m, s>> \in Listed(V)}) \in Nat
    OBVIOUS
  <2>1. <<s, s>> \notin Listed(V)
    BY <1>4
  <2> DEFINE R == Listed(V)
  <2> HIDE DEF R, V
  <2>2. s \in V /\ IsFiniteSet(V) /\ <<s, s>> \notin R
    BY <1>2, <2>1 DEF R
  <2>3. Cardinality({m \in V : <<m, s>> \in R}) \in Nat
    BY <2>2, RankInSet
  <2> QED BY <2>3 DEF R
<1>8. \A s \in V : rank(s) = Cardinality({m \in V : <<m, s>> \in ByDistance(V)})
  <2>1. \A s \in V : {m \in V : <<m, s>> \in Listed(V)} = {m \in V : <<m, s>> \in ByDistance(V)}
    <3> HIDE DEF V
    <3> QED BY <1>4, SameRank
  <2> HIDE DEF V
  <2> QED BY <2>1
<1>9. reasons = {} => W = V
  BY ScopeIsReached
<1>10. answer.status = "complete" => reasons = {}
  BY <1>1 DEF StatusOf
<1> HIDE DEF V, end, rank, F
<1>11. answer.nodes = {s \in V : rank(s) \in request.offset .. end - 1}
  <2>1. \A s \in V : rank(s) \in request.offset .. end - 1 <=> rank(s) < end /\ ~(rank(s) < request.offset)
    BY <1>3, <1>7
  <2> QED BY <1>1, <1>6, <2>1
<1>12. Exact(answer.nodes) /\ answer.nodes \subseteq W
  BY <1>2, <1>11, DepthIsDistance DEF Exact
<1>13. answer.more => Cardinality(W) > end
  BY <1>1, <1>3, <1>5
<1>14. ASSUME answer.status = "complete"
       PROVE  /\ answer.nodes = {n \in W : Cardinality({m \in W : <<m, n>> \in ByDistance(W)})
                                             \in request.offset .. end - 1}
              /\ answer.more <=> Cardinality(W) > end
  <2>1. W = V
    BY <1>9, <1>10, <1>14
  <2> HIDE DEF W
  <2>2. \A n \in V : rank(n) \in request.offset .. end - 1
                       <=> Cardinality({m \in V : <<m, n>> \in ByDistance(V)}) \in request.offset .. end - 1
    BY <1>8
  <2> QED BY <1>1, <1>11, <2>1, <2>2
<1> QED BY <1>12, <1>13, <1>14 DEF HonestFlow, end

LEMMA SubgraphHonest ==
  ASSUME DistInv, Over, request.op = "subgraph", SubgraphAnswer
  PROVE  HonestSubgraph
<1>1. /\ answer.status = StatusOf(FALSE) /\ answer.nodes = Reached
      /\ answer.edges = {e \in {t.edge : t \in links} : e.src \in Reached /\ e.dst \in Reached}
  BY DEF SubgraphAnswer
<1>2. Exact(answer.nodes)
  BY <1>1, DepthIsDistance DEF Exact
<1>3. \A t \in Transitions : /\ t.edge \in graph /\ t.from \in {t.edge.src, t.edge.dst}
                             /\ {t.from, t.to} = {t.edge.src, t.edge.dst}
  BY WalkTypes, TransitionShape
<1>4. \A t \in links : t \in Transitions /\ t.from \in Reached /\ depthOf[t.from] < layer
  BY DEF DistInv, LinksKept
<1>5. answer.edges \subseteq {e \in graph : e.src \in answer.nodes /\ e.dst \in answer.nodes}
  BY <1>1, <1>3, <1>4
<1>6. ASSUME answer.status = "complete"
      PROVE  answer.nodes = Scope
             /\ answer.edges = {e \in graph : \E n \in {e.src, e.dst} : n \in Scope /\ Distance(n) < request.depth}
  <2>1. reasons = {}
    BY <1>1, <1>6 DEF StatusOf
  <2>2. Scope = Reached /\ answer.nodes = Scope
    BY <1>1, <2>1, ScopeIsReached
  <2>3. ASSUME NEW e \in answer.edges
        PROVE  e \in graph /\ \E n \in {e.src, e.dst} : n \in Scope /\ Distance(n) < request.depth
    <3>1. PICK t \in links : t.edge = e
      BY <1>1
    <3>2. t.from \in Reached /\ depthOf[t.from] < layer /\ t.from \in {e.src, e.dst} /\ e \in graph
      BY <1>3, <1>4, <3>1
    <3>3. Distance(t.from) = depthOf[t.from] /\ depthOf[t.from] < request.depth
      BY <3>2, DepthIsDistance, WalkTypes
    <3> QED BY <2>2, <3>2, <3>3
  <2>4. ASSUME NEW e \in graph, NEW n \in {e.src, e.dst}, n \in Scope, Distance(n) < request.depth
        PROVE  e \in answer.edges
    <3>1. n \in Reached /\ depthOf[n] < request.depth
      BY <2>2, <2>4, DepthIsDistance
    <3>2. PICK t \in Transitions : t.from = n /\ t.edge = e
      <4>1. e.kind \in Kinds
        BY WalkTypes, RequestType DEF Edges
      <4>2. Transitions = Forward(Kinds) \union Backward(Kinds)
        BY DEF Transitions
      <4>3. CASE n = e.src
        <5>1. [from |-> e.src, to |-> e.dst, edge |-> e, back |-> 0] \in Transitions
          BY <4>1, <4>2 DEF Forward
        <5> QED BY <4>3, <5>1
      <4>4. CASE n = e.dst
        <5>1. [from |-> e.dst, to |-> e.src, edge |-> e, back |-> 1] \in Transitions
          BY <4>1, <4>2 DEF Backward
        <5> QED BY <4>4, <5>1
      <4> QED BY <4>3, <4>4
    <3>3. t.to \in Reached /\ depthOf[t.from] < layer
      <4>1. t \in Usable
        BY DEF Usable
      <4> QED BY <2>1, <3>1, <3>2, <4>1, AllFollowed DEF Found
    <3>4. t \in links
      BY <2>1, <3>1, <3>2, <3>3 DEF DistInv, LinksKept
    <3>5. e.src \in Reached /\ e.dst \in Reached
      BY <1>3, <3>1, <3>2, <3>3
    <3> QED BY <1>1, <3>2, <3>4, <3>5
  <2>5. \A e \in answer.edges :
          e \in {f \in graph : \E n \in {f.src, f.dst} : n \in Scope /\ Distance(n) < request.depth}
    BY <2>3
  <2>6. \A e \in {f \in graph : \E n \in {f.src, f.dst} : n \in Scope /\ Distance(n) < request.depth} :
          e \in answer.edges
    BY <2>4
  <2> QED BY <2>2, <2>5, <2>6
<1> QED BY <1>2, <1>5, <1>6 DEF HonestSubgraph

-----------------------------------------------------------------------------
(* Back and Simple are the functions they are defined to be *)

WaysBack(k) ==
  {c \in Seq(links) :
     /\ Len(c) = k
     /\ k # 0 => c[k].to = request.target
     /\ \A i \in 1 .. k - 1 : c[i].to = c[i + 1].from}

LEMMA WaysBackNext ==
  ASSUME NEW k \in Nat \ {0}
  PROVE  WaysBack(k) = UNION {{<<l>> \o c : l \in {l \in links : l.to = IF c = <<>> THEN request.target ELSE c[1].from}} :
                                c \in WaysBack(k - 1)}
<1>1. ASSUME NEW c \in WaysBack(k - 1), NEW l \in links,
             l.to = IF c = <<>> THEN request.target ELSE c[1].from
      PROVE  <<l>> \o c \in WaysBack(k)
  <2>1. c \in Seq(links) /\ Len(c) = k - 1 /\ <<l>> \in Seq(links) /\ Len(<<l>>) = 1 /\ (<<l>>)[1] = l
    BY DEF WaysBack
  <2> DEFINE d == <<l>> \o c
  <2>2. /\ d \in Seq(links) /\ Len(d) = 1 + (k - 1)
        /\ \A i \in 1 .. 1 + (k - 1) : d[i] = IF i =< 1 THEN (<<l>>)[i] ELSE c[i - 1]
    <3>1. /\ <<l>> \o c \in Seq(links) /\ Len(<<l>> \o c) = Len(<<l>>) + Len(c)
          /\ \A i \in 1 .. Len(<<l>>) + Len(c) : (<<l>> \o c)[i] = IF i =< Len(<<l>>) THEN (<<l>>)[i] ELSE c[i - Len(<<l>>)]
      BY <2>1, ConcatProperties, Zenon
    <3> QED BY <2>1, <3>1
  <2> HIDE DEF d
  <2>3. Len(d) = k /\ d[1] = l /\ \A i \in 2 .. k : d[i] = c[i - 1]
    BY <2>1, <2>2
  <2>4. d[k].to = request.target
    <3>1. CASE k = 1
      <4>1. c = <<>>
        BY <2>1, <3>1
      <4> QED BY <1>1, <2>3, <3>1, <4>1
    <3>2. CASE k # 1
      <4>1. d[k] = c[k - 1] /\ c[k - 1].to = request.target
        BY <2>3, <3>2 DEF WaysBack
      <4> QED BY <4>1
    <3> QED BY <3>1, <3>2
  <2>5. ASSUME NEW i \in 1 .. k - 1 PROVE d[i].to = d[i + 1].from
    <3>1. c # <<>> /\ i + 1 \in 2 .. k /\ d[i + 1] = c[i]
      BY <2>1, <2>3
    <3>2. CASE i = 1
      BY <1>1, <2>3, <3>1, <3>2
    <3>3. CASE i # 1
      <4>1. i - 1 \in 1 .. (k - 1) - 1 /\ (i - 1) + 1 = i /\ d[i] = c[i - 1]
        BY <2>3, <3>3
      <4>2. c[i - 1].to = c[(i - 1) + 1].from
        BY <4>1 DEF WaysBack
      <4> QED BY <3>1, <4>1, <4>2
    <3> QED BY <3>2, <3>3
  <2>6. d \in WaysBack(k)
    BY <2>2, <2>3, <2>4, <2>5 DEF WaysBack
  <2> QED BY <2>6 DEF d
<1>2. ASSUME NEW d \in WaysBack(k)
      PROVE  \E c \in WaysBack(k - 1), l \in links :
               d = <<l>> \o c /\ l.to = IF c = <<>> THEN request.target ELSE c[1].from
  <2>1. d \in Seq(links) /\ Len(d) = k
    BY DEF WaysBack
  <2> DEFINE c == Tail(d)
             l == d[1]
  <2>2. c \in Seq(links) /\ Len(c) = k - 1 /\ \A i \in 1 .. k - 1 : c[i] = d[i + 1]
    BY <2>1
  <2>3. l \in links
    BY <2>1
  <2>4. d = <<l>> \o c
    <3>1. /\ <<l>> \in Seq(links) /\ Len(<<l>>) = 1 /\ (<<l>>)[1] = l
      BY <2>3
    <3> HIDE DEF c, l
    <3>2. /\ <<l>> \o c \in Seq(links) /\ Len(<<l>> \o c) = Len(<<l>>) + Len(c)
          /\ \A i \in 1 .. Len(<<l>>) + Len(c) : (<<l>> \o c)[i] = IF i =< Len(<<l>>) THEN (<<l>>)[i] ELSE c[i - Len(<<l>>)]
      <4>1. <<l>> \in Seq(links) /\ c \in Seq(links)
        BY <2>2, <3>1
      <4> DEFINE p == <<l>>
      <4>2. p \in Seq(links)
        BY <4>1
      <4> HIDE DEF p
      <4>3. /\ p \o c \in Seq(links) /\ Len(p \o c) = Len(p) + Len(c)
            /\ \A i \in 1 .. Len(p) + Len(c) : (p \o c)[i] = IF i =< Len(p) THEN p[i] ELSE c[i - Len(p)]
        BY <4>1, <4>2, ConcatProperties
      <4> QED BY <4>3 DEF p
    <3> DEFINE e == <<l>> \o c
    <3>3. e \in Seq(links) /\ Len(e) = k /\ \A i \in 1 .. k : e[i] = IF i =< 1 THEN (<<l>>)[i] ELSE c[i - 1]
      BY <2>2, <3>1, <3>2
    <3> HIDE DEF e
    <3>4. ASSUME NEW i \in 1 .. k PROVE d[i] = e[i]
      <4>1. CASE i = 1
        BY <3>1, <3>3, <4>1 DEF l
      <4>2. CASE i # 1
        <5>1. i - 1 \in 1 .. k - 1 /\ (i - 1) + 1 = i /\ ~(i =< 1)
          BY <4>2
        <5>2. c[i - 1] = d[(i - 1) + 1]
          BY <2>2, <5>1
        <5> QED BY <3>3, <5>1, <5>2
      <4> QED BY <4>1, <4>2
    <3>5. d = e
      BY <2>1, <3>3, <3>4, SeqEqual
    <3> QED BY <3>5 DEF e
  <2> HIDE DEF c
  <2>5. l.to = IF c = <<>> THEN request.target ELSE c[1].from
    <3>1. CASE k = 1
      <4>1. c = <<>>
        BY <2>2, <3>1
      <4> QED BY <3>1, <4>1 DEF WaysBack
    <3>2. CASE k # 1
      <4>1. c # <<>> /\ 1 \in 1 .. k - 1
        BY <2>2, <3>2
      <4>2. d[1].to = d[1 + 1].from /\ c[1] = d[1 + 1]
        BY <2>2, <4>1 DEF WaysBack
      <4> QED BY <4>1, <4>2
    <3> QED BY <3>1, <3>2
  <2>6. c \in WaysBack(k - 1)
    <3>1. k - 1 # 0 => c[k - 1].to = request.target
      <4> SUFFICES ASSUME k - 1 # 0 PROVE c[k - 1].to = request.target
        OBVIOUS
      <4>1. k - 1 \in 1 .. k - 1 /\ (k - 1) + 1 = k
        OBVIOUS
      <4>2. c[k - 1] = d[k] /\ d[k].to = request.target
        BY <2>2, <4>1 DEF WaysBack
      <4> QED BY <4>2
    <3>2. ASSUME NEW i \in 1 .. (k - 1) - 1 PROVE c[i].to = c[i + 1].from
      <4>1. i \in 1 .. k - 1 /\ i + 1 \in 1 .. k - 1
        OBVIOUS
      <4>2. d[i + 1].to = d[(i + 1) + 1].from
        BY <4>1 DEF WaysBack
      <4> QED BY <2>2, <4>1, <4>2
    <3> QED BY <2>2, <3>1, <3>2 DEF WaysBack
  <2> QED BY <2>3, <2>4, <2>5, <2>6
<1> DEFINE L(c) == {l \in links : l.to = IF c = <<>> THEN request.target ELSE c[1].from}
           On(c) == {<<l>> \o c : l \in L(c)}
<1>3. ASSUME NEW d \in WaysBack(k) PROVE \E c \in WaysBack(k - 1) : d \in On(c)
  <2>1. PICK c \in WaysBack(k - 1), l \in links :
          d = <<l>> \o c /\ l.to = IF c = <<>> THEN request.target ELSE c[1].from
    BY <1>2
  <2>2. l \in L(c)
    BY <2>1
  <2> HIDE DEF L
  <2>3. d \in On(c)
    BY <2>1, <2>2
  <2> QED BY <2>3
<1>4. ASSUME NEW c \in WaysBack(k - 1), NEW d \in On(c) PROVE d \in WaysBack(k)
  <2>1. PICK l \in L(c) : d = <<l>> \o c
    OBVIOUS
  <2>2. l \in links /\ l.to = IF c = <<>> THEN request.target ELSE c[1].from
    OBVIOUS
  <2> QED BY <1>1, <2>1, <2>2
<1> HIDE DEF On
<1>5. WaysBack(k) = UNION {On(c) : c \in WaysBack(k - 1)}
  BY <1>3, <1>4
<1> QED BY <1>5 DEF On

LEMMA WaysBackFirst == WaysBack(0) = {<<>>}
<1>1. \A c \in WaysBack(0) : c = <<>>
  BY DEF WaysBack
<1>2. <<>> \in WaysBack(0)
  BY DEF WaysBack
<1> QED BY <1>1, <1>2

LEMMA BackIs == \A k \in Nat : Back[k] = WaysBack(k)
<1> DEFINE G == [k \in Nat |-> WaysBack(k)]
           Longer1(S) == UNION {{<<l>> \o c : l \in {l \in links : l.to = IF c = <<>> THEN request.target ELSE c[1].from}} : c \in S}
<1>1. G = [k \in Nat |-> IF k = 0 THEN {<<>>} ELSE Longer1(G[k - 1])]
  <2>1. ASSUME NEW k \in Nat
        PROVE  WaysBack(k) = IF k = 0 THEN {<<>>} ELSE Longer1(G[k - 1])
    <3>1. CASE k = 0
      BY <3>1, WaysBackFirst
    <3>2. CASE k # 0
      <4>1. k - 1 \in Nat /\ G[k - 1] = WaysBack(k - 1)
        BY <3>2
      <4>2. WaysBack(k) = Longer1(WaysBack(k - 1))
        BY <3>2, WaysBackNext
      <4> HIDE DEF G, Longer1
      <4> QED BY <3>2, <4>1, <4>2
    <3> QED BY <3>1, <3>2
  <2> HIDE DEF Longer1
  <2> QED BY <2>1, Zenon
<1> HIDE DEF G
<1>2. Back = [k \in Nat |-> IF k = 0 THEN {<<>>} ELSE Longer1(Back[k - 1])]
  BY <1>1, Zenon DEF Back
<1> HIDE DEF Longer1
<1> DEFINE Bad == {k \in Nat : Back[k] # WaysBack(k)}
<1> SUFFICES ASSUME Bad # {} PROVE FALSE
  OBVIOUS
<1>3. PICK k \in Bad : \A l \in Bad : k =< l
  <2>1. Bad \subseteq Nat
    OBVIOUS
  <2> HIDE DEF Bad
  <2> QED BY <2>1, LeastExists
<1>4. Back[0] = {<<>>} /\ \A j \in Nat \ {0} : Back[j] = Longer1(Back[j - 1])
  <2> DEFINE W == Back
  <2>1. W[0] = {<<>>} /\ \A j \in Nat \ {0} : W[j] = Longer1(W[j - 1])
    BY <1>2
  <2> QED BY <2>1
<1>5. k \in Nat \ {0}
  BY <1>4, WaysBackFirst
<1>6. k - 1 \in Nat /\ k - 1 \notin Bad
  BY <1>3, <1>5
<1>7. Back[k - 1] = WaysBack(k - 1)
  BY <1>6
<1>8. WaysBack(k) = Longer1(WaysBack(k - 1))
  BY <1>5, WaysBackNext DEF Longer1
<1> QED BY <1>4, <1>5, <1>7, <1>8

WaysFrom(k) ==
  {c \in Seq(Transitions) :
     /\ Len(c) = k
     /\ k # 0 => c[1].from \in request.seeds
     /\ \A i \in 1 .. k - 1 : c[i].to = c[i + 1].from
     /\ \A i \in 1 .. k : c[i].to \notin request.seeds \union {c[j].to : j \in 1 .. i - 1} /\ Accepted(c[i])}
GoesOn(c, k) ==
  {t \in Transitions :
     /\ t.from \in (IF c = <<>> THEN request.seeds ELSE {c[k - 1].to})
     /\ t.to \notin request.seeds \union {c[i].to : i \in 1 .. k - 1}
     /\ Accepted(t)}

LEMMA WaysFromNext ==
  ASSUME NEW k \in Nat \ {0}
  PROVE  WaysFrom(k) = UNION {{Append(c, t) : t \in GoesOn(c, k)} : c \in WaysFrom(k - 1)}
<1>1. ASSUME NEW c \in WaysFrom(k - 1), NEW t \in GoesOn(c, k)
      PROVE  Append(c, t) \in WaysFrom(k)
  <2>1. c \in Seq(Transitions) /\ Len(c) = k - 1 /\ t \in Transitions
    BY DEF WaysFrom, GoesOn
  <2> DEFINE d == Append(c, t)
  <2>2. d \in Seq(Transitions) /\ Len(d) = k /\ d[k] = t /\ \A i \in 1 .. k - 1 : d[i] = c[i]
    BY <2>1
  <2> HIDE DEF d
  <2>3. d[1].from \in request.seeds
    <3>1. CASE k = 1
      <4>1. c = <<>>
        BY <2>1, <3>1
      <4> QED BY <2>2, <3>1, <4>1 DEF GoesOn
    <3>2. CASE k # 1
      BY <2>2, <3>2 DEF WaysFrom
    <3> QED BY <3>1, <3>2
  <2>4. ASSUME NEW i \in 1 .. k - 1 PROVE d[i].to = d[i + 1].from
    <3>1. CASE i = k - 1
      <4>1. c # <<>>
        BY <2>1
      <4>2. t.from = c[k - 1].to
        BY <4>1 DEF GoesOn
      <4> QED BY <2>2, <3>1, <4>2
    <3>2. CASE i # k - 1
      <4>1. i \in 1 .. (k - 1) - 1 /\ i + 1 \in 1 .. k - 1
        BY <3>2
      <4>2. c[i].to = c[i + 1].from
        BY <4>1 DEF WaysFrom
      <4> QED BY <2>2, <4>1, <4>2
    <3> QED BY <3>1, <3>2
  <2>5. ASSUME NEW i \in 1 .. k
        PROVE  d[i].to \notin request.seeds \union {d[j].to : j \in 1 .. i - 1} /\ Accepted(d[i])
    <3>1. \A j \in 1 .. i - 1 : j \in 1 .. k - 1 /\ d[j] = c[j]
      BY <2>2
    <3>2. CASE i = k
      BY <2>2, <3>1, <3>2 DEF GoesOn
    <3>3. CASE i # k
      <4>1. i \in 1 .. k - 1 /\ d[i] = c[i]
        BY <2>2, <3>3
      <4>2. c[i].to \notin request.seeds \union {c[j].to : j \in 1 .. i - 1} /\ Accepted(c[i])
        BY <4>1 DEF WaysFrom
      <4> QED BY <3>1, <4>1, <4>2
    <3> QED BY <3>2, <3>3
  <2>6. d \in WaysFrom(k)
    BY <2>2, <2>3, <2>4, <2>5 DEF WaysFrom
  <2> QED BY <2>6 DEF d
<1>2. ASSUME NEW d \in WaysFrom(k)
      PROVE  \E c \in WaysFrom(k - 1) : \E t \in GoesOn(c, k) : d = Append(c, t)
  <2>1. d \in Seq(Transitions) /\ Len(d) = k /\ d[k] \in Transitions
    BY DEF WaysFrom
  <2> DEFINE c == [i \in 1 .. k - 1 |-> d[i]]
  <2>2. c \in Seq(Transitions) /\ Len(c) = k - 1 /\ \A i \in 1 .. k - 1 : c[i] = d[i]
    BY <2>1
  <2>3. d = Append(c, d[k])
    <3> HIDE DEF c
    <3> DEFINE e == Append(c, d[k])
    <3>1. e \in Seq(Transitions) /\ Len(e) = k /\ e[k] = d[k] /\ \A i \in 1 .. k - 1 : e[i] = c[i]
      BY <2>1, <2>2
    <3> HIDE DEF e
    <3>2. \A i \in 1 .. k : d[i] = e[i]
      <4> SUFFICES ASSUME NEW i \in 1 .. k PROVE d[i] = e[i]
        OBVIOUS
      <4>1. i = k \/ i \in 1 .. k - 1
        OBVIOUS
      <4> QED BY <2>2, <3>1, <4>1
    <3>3. d = e
      BY <2>1, <3>1, <3>2, SeqEqual
    <3> QED BY <3>3 DEF e
  <2> HIDE DEF c
  <2>4. c \in WaysFrom(k - 1)
    <3>1. k - 1 # 0 => c[1].from \in request.seeds
      BY <2>2 DEF WaysFrom
    <3>2. ASSUME NEW i \in 1 .. (k - 1) - 1 PROVE c[i].to = c[i + 1].from
      <4>1. i \in 1 .. k - 1 /\ i + 1 \in 1 .. k - 1
        OBVIOUS
      <4>2. d[i].to = d[i + 1].from
        BY <4>1 DEF WaysFrom
      <4> QED BY <2>2, <4>1, <4>2
    <3>3. ASSUME NEW i \in 1 .. k - 1
          PROVE  c[i].to \notin request.seeds \union {c[j].to : j \in 1 .. i - 1} /\ Accepted(c[i])
      <4>1. i \in 1 .. k /\ \A j \in 1 .. i - 1 : j \in 1 .. k - 1
        OBVIOUS
      <4>2. d[i].to \notin request.seeds \union {d[j].to : j \in 1 .. i - 1} /\ Accepted(d[i])
        BY <4>1 DEF WaysFrom
      <4> QED BY <2>2, <4>1, <4>2
    <3> QED BY <2>2, <3>1, <3>2, <3>3 DEF WaysFrom
  <2>5. d[k] \in GoesOn(c, k)
    <3>1. d[k].from \in (IF c = <<>> THEN request.seeds ELSE {c[k - 1].to})
      <4>1. CASE k = 1
        <5>1. c = <<>>
          BY <2>2, <4>1
        <5> QED BY <4>1, <5>1 DEF WaysFrom
      <4>2. CASE k # 1
        <5>1. c # <<>> /\ k - 1 \in 1 .. k - 1 /\ (k - 1) + 1 = k
          BY <2>2, <4>2
        <5>2. d[k - 1].to = d[(k - 1) + 1].from /\ c[k - 1] = d[k - 1]
          BY <2>2, <5>1 DEF WaysFrom
        <5> QED BY <5>1, <5>2
      <4> QED BY <4>1, <4>2
    <3>2. d[k].to \notin request.seeds \union {d[i].to : i \in 1 .. k - 1} /\ Accepted(d[k])
      BY DEF WaysFrom
    <3> QED BY <2>1, <2>2, <3>1, <3>2 DEF GoesOn
  <2> QED BY <2>3, <2>4, <2>5
<1> DEFINE On(c) == {Append(c, t) : t \in GoesOn(c, k)}
<1>3. \A d \in WaysFrom(k) : \E c \in WaysFrom(k - 1) : d \in On(c)
  BY <1>2
<1>4. \A c \in WaysFrom(k - 1) : \A d \in On(c) : d \in WaysFrom(k)
  BY <1>1
<1> HIDE DEF On
<1>5. WaysFrom(k) = UNION {On(c) : c \in WaysFrom(k - 1)}
  BY <1>3, <1>4
<1> QED BY <1>5 DEF On

LEMMA WaysFromFirst == WaysFrom(0) = {<<>>}
<1>1. \A c \in WaysFrom(0) : c = <<>>
  BY DEF WaysFrom
<1>2. <<>> \in WaysFrom(0)
  BY DEF WaysFrom
<1> QED BY <1>1, <1>2

LEMMA SimpleIs == \A k \in Nat : Simple[k] = WaysFrom(k)
<1> DEFINE G == [k \in Nat |-> WaysFrom(k)]
           More(S, k) == UNION {{Append(c, t) : t \in GoesOn(c, k)} : c \in S}
<1>1. G = [k \in Nat |-> IF k = 0 THEN {<<>>} ELSE More(G[k - 1], k)]
  <2>1. ASSUME NEW k \in Nat
        PROVE  WaysFrom(k) = IF k = 0 THEN {<<>>} ELSE More(G[k - 1], k)
    <3>1. CASE k = 0
      BY <3>1, WaysFromFirst
    <3>2. CASE k # 0
      <4>1. k - 1 \in Nat /\ G[k - 1] = WaysFrom(k - 1)
        BY <3>2
      <4>2. WaysFrom(k) = More(WaysFrom(k - 1), k)
        BY <3>2, WaysFromNext
      <4> HIDE DEF G, More
      <4> QED BY <3>2, <4>1, <4>2
    <3> QED BY <3>1, <3>2
  <2> HIDE DEF More
  <2> QED BY <2>1, Zenon
<1> HIDE DEF G
<1>2. Simple = [k \in Nat |-> IF k = 0 THEN {<<>>} ELSE More(Simple[k - 1], k)]
  BY <1>1, Zenon DEF Simple, GoesOn
<1> HIDE DEF More
<1> DEFINE Bad == {k \in Nat : Simple[k] # WaysFrom(k)}
<1> SUFFICES ASSUME Bad # {} PROVE FALSE
  OBVIOUS
<1>3. PICK k \in Bad : \A l \in Bad : k =< l
  <2>1. Bad \subseteq Nat
    OBVIOUS
  <2> HIDE DEF Bad
  <2> QED BY <2>1, LeastExists
<1>4. Simple[0] = {<<>>} /\ \A j \in Nat \ {0} : Simple[j] = More(Simple[j - 1], j)
  <2> DEFINE W == Simple
  <2>1. W[0] = {<<>>} /\ \A j \in Nat \ {0} : W[j] = More(W[j - 1], j)
    BY <1>2
  <2> QED BY <2>1
<1>5. k \in Nat \ {0}
  BY <1>4, WaysFromFirst
<1>6. k - 1 \in Nat /\ k - 1 \notin Bad
  BY <1>3, <1>5
<1>7. Simple[k - 1] = WaysFrom(k - 1)
  BY <1>6
<1>8. WaysFrom(k) = More(WaysFrom(k - 1), k)
  BY <1>5, WaysFromNext DEF More
<1> QED BY <1>4, <1>5, <1>7, <1>8

\* Over a finite set there are finitely many sequences of a length.
LEMMA FiniteSeqs ==
  ASSUME NEW S, IsFiniteSet(S), NEW k \in Nat
  PROVE  IsFiniteSet({c \in Seq(S) : Len(c) = k})
<1> DEFINE Of(n) == {c \in Seq(S) : Len(c) = n}
           Bad == {n \in Nat : ~IsFiniteSet(Of(n))}
<1> SUFFICES ASSUME Bad # {} PROVE FALSE
  OBVIOUS
<1>1. PICK n \in Bad : \A l \in Bad : n =< l
  <2>1. Bad \subseteq Nat
    OBVIOUS
  <2> HIDE DEF Bad
  <2> QED BY <2>1, LeastExists
<1>2. n # 0
  <2>1. \A c \in Of(0) : c = <<>>
    OBVIOUS
  <2>2. Of(0) \subseteq {<<>>}
    BY <2>1
  <2> HIDE DEF Of
  <2>3. IsFiniteSet(Of(0))
    BY <2>2, FS_Singleton, FS_Subset
  <2> QED BY <2>3
<1>3. n - 1 \in Nat /\ n - 1 \notin Bad
  BY <1>1, <1>2
<1>4. IsFiniteSet(Of(n - 1))
  BY <1>3
<1> DEFINE P == S \X Of(n - 1)
           f == [p \in P |-> Append(p[2], p[1])]
<1>5. IsFiniteSet(P)
  <2> HIDE DEF Of
  <2> QED BY <1>4, FS_Product
<1>6. f \in Surjection(P, {f[p] : p \in P})
  <2> HIDE DEF P, f
  <2>1. DOMAIN f = P /\ f = [p \in P |-> f[p]]
    BY DEF f
  <2> QED BY <2>1 DEF Surjection
<1>7. IsFiniteSet({f[p] : p \in P})
  <2> HIDE DEF P, f
  <2> QED BY <1>5, <1>6, FS_Surjection
<1>8. ASSUME NEW d \in Of(n) PROVE d \in {f[p] : p \in P}
  <2>1. d \in Seq(S) /\ Len(d) = n /\ d[n] \in S
    BY <1>2
  <2> DEFINE c == [i \in 1 .. n - 1 |-> d[i]]
  <2>2. c \in Seq(S) /\ Len(c) = n - 1 /\ \A i \in 1 .. n - 1 : c[i] = d[i]
    BY <1>3, <2>1
  <2>3. d = Append(c, d[n])
    <3> HIDE DEF c
    <3> DEFINE e == Append(c, d[n])
    <3>1. e \in Seq(S) /\ Len(e) = n /\ e[n] = d[n] /\ \A i \in 1 .. n - 1 : e[i] = c[i]
      BY <1>3, <2>1, <2>2
    <3> HIDE DEF e
    <3>2. \A i \in 1 .. n : d[i] = e[i]
      <4> SUFFICES ASSUME NEW i \in 1 .. n PROVE d[i] = e[i]
        OBVIOUS
      <4>1. i = n \/ i \in 1 .. n - 1
        BY <1>3
      <4> QED BY <2>2, <3>1, <4>1
    <3>3. d = e
      BY <2>1, <3>1, <3>2, SeqEqual
    <3> QED BY <3>3 DEF e
  <2> HIDE DEF c
  <2>4. <<d[n], c>> \in P
    BY <2>1, <2>2
  <2>5. f[<<d[n], c>>] = d
    BY <2>3, <2>4
  <2> HIDE DEF P, f
  <2> QED BY <2>4, <2>5
<1>9. IsFiniteSet(Of(n))
  <2> HIDE DEF Of, f, P
  <2> QED BY <1>7, <1>8, FS_Subset
<1> QED BY <1>9

-----------------------------------------------------------------------------
(* The answers of a search for paths *)

PathsAnswer ==
  IF Found
    THEN LET all == WaysBack(depthOf[request.target]) IN
         \E shown \in SUBSET all :
           /\ Cardinality(shown) = request.limit \/ (shown = all /\ Cardinality(all) < request.limit)
           /\ answer = [status |-> StatusOf(FALSE), paths |-> shown, more |-> Cardinality(all) > request.limit]
    ELSE answer = [status |-> StatusOf(FALSE), paths |-> {}, more |-> FALSE]

\* As far down as nothing is missing, each way was followed, and as soon.
LEMMA WayDown ==
  ASSUME DistInv, request.op = "paths", NEW d \in Nat,
         \A t \in Usable : t.from \in Reached /\ depthOf[t.from] < d
                             => t.to \in Reached /\ depthOf[t.to] =< depthOf[t.from] + 1,
         NEW k \in Nat, k =< d, NEW c \in WaysFrom(k), NEW i \in 1 .. k
  PROVE  /\ c[i] \in Usable /\ c[i].from \in Reached /\ depthOf[c[i].from] =< i - 1
         /\ c[i].to \in Reached /\ depthOf[c[i].to] =< i
<1> DEFINE Down(j) == /\ c[j].from \in Reached /\ depthOf[c[j].from] =< j - 1
                      /\ c[j].to \in Reached /\ depthOf[c[j].to] =< j
           Bad == {j \in 1 .. k : ~Down(j)}
<1>1. \A j \in 1 .. k : c[j] \in Usable
  BY DEF WaysFrom, Usable
<1>2. Bad = {}
  <2> SUFFICES ASSUME Bad # {} PROVE FALSE
    OBVIOUS
  <2>1. PICK j \in Bad : \A l \in Bad : j =< l
    <3>1. Bad \subseteq Nat
      OBVIOUS
    <3> HIDE DEF Bad
    <3> QED BY <3>1, LeastExists
  <2>2. j \in 1 .. k /\ ~Down(j)
    OBVIOUS
  <2>3. c[j].from \in Reached /\ depthOf[c[j].from] =< j - 1
    <3>1. CASE j = 1
      <4>1. c[1].from \in request.seeds
        BY <2>2, <3>1 DEF WaysFrom
      <4> QED BY <3>1, <4>1, WalkTypes
    <3>2. CASE j # 1
      <4>1. j - 1 \in 1 .. k - 1 /\ (j - 1) + 1 = j /\ j - 1 \in 1 .. k /\ j - 1 \notin Bad
        BY <2>1, <2>2, <3>2
      <4>2. c[j - 1].to = c[(j - 1) + 1].from
        BY <4>1 DEF WaysFrom
      <4>3. c[j - 1].to \in Reached /\ depthOf[c[j - 1].to] =< j - 1
        BY <4>1
      <4> QED BY <4>1, <4>2, <4>3
    <3> QED BY <3>1, <3>2
  <2>4. depthOf[c[j].from] < d /\ depthOf[c[j].from] \in Nat
    BY <2>2, <2>3, WalkTypes
  <2>5. c[j].to \in Reached /\ depthOf[c[j].to] =< depthOf[c[j].from] + 1
    BY <1>1, <2>2, <2>3, <2>4
  <2>6. depthOf[c[j].to] =< j
    BY <2>2, <2>3, <2>4, <2>5, WalkTypes
  <2> QED BY <2>2, <2>3, <2>5, <2>6
<1> QED BY <1>1, <1>2

LEMMA ToIs ==
  ASSUME NEW k \in Nat
  PROVE  To(k) = {c \in WaysFrom(k) : IF k = 0 THEN request.target \in request.seeds /\ request.access = 0
                                               ELSE c[k].to = request.target}
<1>1. Simple[k] = WaysFrom(k)
  BY SimpleIs
<1>2. \A c \in WaysFrom(k) : c = <<>> <=> k = 0
  BY DEF WaysFrom
<1> QED BY <1>1, <1>2 DEF To

LEMMA NoShorterWay ==
  ASSUME DistInv, request.op = "paths", request.target \in Reached,
         NEW k \in Nat, k < depthOf[request.target]
  PROVE  To(k) = {}
<1> SUFFICES ASSUME NEW c \in To(k) PROVE FALSE
  OBVIOUS
<1>1. c \in WaysFrom(k) /\ (k = 0 => request.target \in request.seeds) /\ (k # 0 => c[k].to = request.target)
  BY ToIs
<1>2. k # 0
  BY <1>1, WalkTypes
<1>3. layer - 1 \in Nat /\ k =< layer - 1
  BY WalkTypes
<1>4. ASSUME NEW t \in Usable, t.from \in Reached, depthOf[t.from] < layer - 1
      PROVE  t.to \in Reached /\ depthOf[t.to] =< depthOf[t.from] + 1
  <2>1. depthOf[t.from] + 1 < layer
    BY <1>4, WalkTypes
  <2> QED BY <1>4, <2>1 DEF DistInv, Behind
<1>5. k \in 1 .. k
  BY <1>2
<1>6. depthOf[c[k].to] =< k
  BY <1>1, <1>3, <1>4, <1>5, WayDown
<1> QED BY <1>1, <1>2, <1>6, WalkTypes

\* The links that lead back from the target go up one layer each.
LEMMA BackByLayers ==
  ASSUME DistInv, request.op = "paths", request.target \in Reached,
         NEW c \in WaysBack(depthOf[request.target]), NEW i \in 1 .. depthOf[request.target]
  PROVE  /\ c[i] \in links /\ c[i].from \in Reached /\ c[i].to \in Reached
         /\ depthOf[c[i].to] = i /\ depthOf[c[i].from] = i - 1
<1> DEFINE d == depthOf[request.target]
           Bad == {j \in Nat : j < d /\ depthOf[c[d - j].to] # d - j}
<1>1. d \in Nat /\ c \in Seq(links) /\ Len(c) = d
  BY WalkTypes DEF WaysBack
<1>2. \A j \in 1 .. d : /\ c[j] \in links /\ c[j].from \in Reached /\ c[j].to \in Reached
                        /\ depthOf[c[j].to] = depthOf[c[j].from] + 1
  <2>1. \A j \in 1 .. d : c[j] \in links
    BY <1>1
  <2> QED BY <2>1 DEF DistInv, LinksKept
<1>3. d # 0 => c[d].to = request.target
  BY DEF WaysBack
<1>4. \A j \in 1 .. d - 1 : c[j].to = c[j + 1].from
  BY DEF WaysBack
<1> HIDE DEF d
<1>5. Bad = {}
  <2> SUFFICES ASSUME Bad # {} PROVE FALSE
    OBVIOUS
  <2>1. PICK j \in Bad : \A l \in Bad : j =< l
    <3>1. Bad \subseteq Nat
      OBVIOUS
    <3> HIDE DEF Bad
    <3> QED BY <3>1, LeastExists
  <2>2. j # 0
    BY <1>1, <1>3 DEF d
  <2>3. j - 1 \in Nat /\ j - 1 \notin Bad /\ j \in Nat /\ j < d
    BY <2>1, <2>2
  <2>4. depthOf[c[d - (j - 1)].to] = d - (j - 1)
    BY <1>1, <2>3
  <2>5. d - j \in 1 .. d - 1 /\ (d - j) + 1 = d - (j - 1) /\ (d - j) + 1 \in 1 .. d
    BY <1>1, <2>2, <2>3
  <2>6. depthOf[c[(d - j) + 1].from] = d - j
    <3>1. depthOf[c[(d - j) + 1].to] = depthOf[c[(d - j) + 1].from] + 1 /\ depthOf[c[(d - j) + 1].from] \in Nat
      BY <1>2, <2>5, WalkTypes
    <3>2. depthOf[c[(d - j) + 1].to] = (d - j) + 1
      BY <2>4, <2>5
    <3> QED BY <1>1, <2>3, <3>1, <3>2
  <2> QED BY <1>4, <2>5, <2>6
<1>6. i \in 1 .. d
  BY DEF d
<1>7. depthOf[c[i].to] = i
  <2>1. d - i \in Nat /\ d - i < d /\ d - (d - i) = i
    BY <1>1, <1>6
  <2>2. d - i \notin Bad
    BY <1>5
  <2> QED BY <2>1, <2>2
<1> QED BY <1>2, <1>6, <1>7, WalkTypes

LEMMA BackIsWay ==
  ASSUME DistInv, request.op = "paths", Found, NEW c \in WaysBack(depthOf[request.target])
  PROVE  c \in To(depthOf[request.target])
<1> DEFINE d == depthOf[request.target]
<1>0. request.target \in Reached /\ (request.target \in request.seeds => request.access = 0)
  BY DEF Found
<1>1. d \in Nat /\ c \in Seq(links) /\ Len(c) = d /\ (d = 0 <=> request.target \in request.seeds)
  BY <1>0, WalkTypes DEF WaysBack
<1>2. \A i \in 1 .. d : /\ c[i] \in links /\ c[i].from \in Reached /\ c[i].to \in Reached
                        /\ depthOf[c[i].to] = i /\ depthOf[c[i].from] = i - 1
  BY <1>0, BackByLayers
<1>3. links \subseteq Transitions /\ \A l \in links : Accepted(l)
  BY DEF DistInv, LinksKept, Usable
<1>4. d # 0 => c[d].to = request.target
  BY DEF WaysBack
<1>5. \A j \in 1 .. d - 1 : c[j].to = c[j + 1].from
  BY DEF WaysBack
<1> HIDE DEF d
<1>6. c \in Seq(Transitions)
  BY <1>1, <1>3, SeqMonotonic
<1>7. d # 0 => c[1].from \in request.seeds
  <2> SUFFICES ASSUME d # 0 PROVE c[1].from \in request.seeds
    OBVIOUS
  <2>1. 1 \in 1 .. d
    BY <1>1
  <2>2. c[1].from \in Reached /\ depthOf[c[1].from] = 0
    BY <1>2, <2>1
  <2> QED BY <2>2, WalkTypes
<1>8. ASSUME NEW i \in 1 .. d
      PROVE  c[i].to \notin request.seeds \union {c[j].to : j \in 1 .. i - 1} /\ Accepted(c[i])
  <2>1. c[i].to \notin request.seeds
    BY <1>1, <1>2, WalkTypes
  <2>2. \A j \in 1 .. i - 1 : c[j].to # c[i].to
    <3> SUFFICES ASSUME NEW j \in 1 .. i - 1 PROVE c[j].to # c[i].to
      OBVIOUS
    <3>1. j \in 1 .. d /\ j # i
      BY <1>1
    <3>2. depthOf[c[j].to] = j /\ depthOf[c[i].to] = i
      BY <1>2, <3>1
    <3> QED BY <3>1, <3>2
  <2> QED BY <1>2, <1>3, <2>1, <2>2
<1>9. c \in WaysFrom(d)
  BY <1>1, <1>5, <1>6, <1>7, <1>8 DEF WaysFrom
<1>10. c \in To(d)
  BY <1>0, <1>1, <1>4, <1>9, ToIs
<1> QED BY <1>10 DEF d

\* There is a way back from the target.
LEMMA SomeWayBack ==
  ASSUME DistInv, request.op = "paths", request.target \in Reached
  PROVE  WaysBack(depthOf[request.target]) # {}
<1> DEFINE Leads(c, n) == /\ c \in Seq(links) /\ Len(c) = depthOf[n]
                          /\ \A i \in 1 .. Len(c) - 1 : c[i].to = c[i + 1].from
                          /\ depthOf[n] # 0 => c[depthOf[n]].to = n
           Bad == {k \in Nat : \E n \in Reached : depthOf[n] = k /\ \A c : ~Leads(c, n)}
<1>1. Bad = {}
  <2> SUFFICES ASSUME Bad # {} PROVE FALSE
    OBVIOUS
  <2>1. PICK k \in Bad : \A l \in Bad : k =< l
    <3>1. Bad \subseteq Nat
      OBVIOUS
    <3> HIDE DEF Bad
    <3> QED BY <3>1, LeastExists
  <2>2. PICK n \in Reached : depthOf[n] = k /\ \A c : ~Leads(c, n)
    OBVIOUS
  <2>3. k \in Nat \ {0} /\ n \notin request.seeds
    <3>1. k = 0 => Leads(<<>>, n)
      BY <2>2
    <3> QED BY <2>2, <3>1, WalkTypes
  <2>4. PICK l \in links : l.to = n
    BY <2>3 DEF DistInv, LinksKept
  <2>5. l.from \in Reached /\ depthOf[l.from] = k - 1
    <3>1. l.from \in Reached /\ depthOf[n] = depthOf[l.from] + 1
      BY <2>4 DEF DistInv, LinksKept
    <3> QED BY <2>2, <2>3, <3>1, WalkTypes
  <2>6. k - 1 \in Nat /\ k - 1 \notin Bad
    BY <2>1, <2>3
  <2>7. PICK c : Leads(c, l.from)
    BY <2>5, <2>6
  <2>8. /\ c \in Seq(links) /\ Len(c) = k - 1 /\ (k - 1 # 0 => c[k - 1].to = l.from)
        /\ \A i \in 1 .. k - 2 : c[i].to = c[i + 1].from
    BY <2>3, <2>5, <2>7
  <2> DEFINE e == Append(c, l)
  <2>9. e \in Seq(links) /\ Len(e) = k /\ e[k] = l /\ \A i \in 1 .. k - 1 : e[i] = c[i]
    BY <2>3, <2>8
  <2> HIDE DEF e
  <2>10. ASSUME NEW i \in 1 .. k - 1 PROVE e[i].to = e[i + 1].from
    <3>1. CASE i = k - 1
      BY <2>3, <2>8, <2>9, <3>1
    <3>2. CASE i # k - 1
      <4>1. i \in 1 .. k - 2 /\ i + 1 \in 1 .. k - 1
        BY <2>3, <3>2
      <4> QED BY <2>8, <2>9, <4>1
    <3> QED BY <3>1, <3>2
  <2>11. Leads(e, n)
    BY <2>2, <2>4, <2>9, <2>10
  <2> QED BY <2>2, <2>11
<1>2. PICK c : Leads(c, request.target)
  BY <1>1, WalkTypes
<1>3. c \in WaysBack(depthOf[request.target])
  BY <1>2 DEF WaysBack
<1> QED BY <1>3

\* When the walk was not cut, the ways to the target that are as short are all kept.
LEMMA WayIsBack ==
  ASSUME DistInv, request.op = "paths", Found, reasons = {}, NEW c \in To(depthOf[request.target])
  PROVE  c \in WaysBack(depthOf[request.target])
<1> DEFINE d == depthOf[request.target]
           Bad == {j \in Nat : j < d /\ depthOf[c[d - j].to] # d - j}
<1>0. request.target \in Reached
  BY DEF Found
<1>1. d \in Nat /\ d =< layer /\ layer \in Nat
  BY <1>0, WalkTypes
<1>2. c \in WaysFrom(d) /\ (d # 0 => c[d].to = request.target)
  BY <1>1, ToIs
<1>3. \A t \in Usable : t.from \in Reached /\ depthOf[t.from] < layer
                          => t.to \in Reached /\ depthOf[t.to] =< depthOf[t.from] + 1
  BY DEF DistInv, TraversalInv, LayersComplete, Usable
<1> HIDE DEF d
<1>4. \A i \in 1 .. d : /\ c[i] \in Usable /\ c[i].from \in Reached /\ depthOf[c[i].from] =< i - 1
                        /\ c[i].to \in Reached /\ depthOf[c[i].to] =< i
                        /\ depthOf[c[i].from] \in Nat /\ depthOf[c[i].to] \in Nat
  BY <1>1, <1>2, <1>3, WayDown, WalkTypes
<1>5. \A j \in 1 .. d - 1 : c[j].to = c[j + 1].from
  BY <1>2 DEF WaysFrom
<1>6. Bad = {}
  <2> SUFFICES ASSUME Bad # {} PROVE FALSE
    OBVIOUS
  <2>1. PICK j \in Bad : \A l \in Bad : j =< l
    <3>1. Bad \subseteq Nat
      OBVIOUS
    <3> HIDE DEF Bad
    <3> QED BY <3>1, LeastExists
  <2>2. j # 0
    BY <1>1, <1>2 DEF d
  <2>3. j - 1 \in Nat /\ j - 1 \notin Bad /\ j \in Nat /\ j < d
    BY <2>1, <2>2
  <2>4. depthOf[c[d - (j - 1)].to] = d - (j - 1)
    BY <1>1, <2>3
  <2> DEFINE i == d - j
  <2>5. i \in 1 .. d - 1 /\ i + 1 = d - (j - 1) /\ i + 1 \in 1 .. d /\ i \in 1 .. d
    BY <1>1, <2>2, <2>3
  <2>6. depthOf[c[i].to] # i
    OBVIOUS
  <2> HIDE DEF i
  <2>7. c[i].to = c[i + 1].from /\ depthOf[c[i + 1].to] = i + 1
    BY <1>5, <2>4, <2>5
  <2>8. depthOf[c[i + 1].to] =< depthOf[c[i + 1].from] + 1
    <3>1. depthOf[c[i + 1].from] < layer
      BY <1>1, <1>4, <2>5
    <3> QED BY <1>3, <1>4, <2>5, <3>1
  <2>9. depthOf[c[i].to] \in Nat /\ depthOf[c[i].to] =< i
    BY <1>4, <2>5
  <2> QED BY <2>5, <2>6, <2>7, <2>8, <2>9
<1>7. ASSUME NEW i \in 1 .. d PROVE depthOf[c[i].to] = i
  <2>1. d - i \in Nat /\ d - i < d /\ d - (d - i) = i
    BY <1>1
  <2>2. d - i \notin Bad
    BY <1>6
  <2> QED BY <2>1, <2>2
<1>8. ASSUME NEW i \in 1 .. d PROVE c[i] \in links
  <2>1. depthOf[c[i].from] = i - 1
    <3>1. CASE i = 1
      BY <1>4, <3>1
    <3>2. CASE i # 1
      <4>1. i - 1 \in 1 .. d - 1 /\ (i - 1) + 1 = i /\ i - 1 \in 1 .. d
        BY <1>1, <3>2
      <4>2. depthOf[c[i - 1].to] = i - 1
        BY <1>7, <4>1
      <4>3. c[i - 1].to = c[(i - 1) + 1].from
        BY <1>5, <4>1
      <4> QED BY <4>1, <4>2, <4>3
    <3> QED BY <3>1, <3>2
  <2>2. depthOf[c[i].to] = depthOf[c[i].from] + 1
    BY <1>7, <2>1
  <2> QED BY <1>4, <2>2 DEF DistInv, LinksKept
<1>9. c \in Seq(Transitions) /\ Len(c) = d
  BY <1>2 DEF WaysFrom
<1>10. c \in Seq(links)
  BY <1>8, <1>9
<1>11. c \in WaysBack(d)
  BY <1>2, <1>5, <1>9, <1>10 DEF WaysBack
<1> QED BY <1>11 DEF d

LEMMA WaysFinite == ASSUME DistInv, NEW k \in Nat PROVE IsFiniteSet(To(k))
<1>1. IsFiniteSet({c \in Seq(Transitions) : Len(c) = k})
  BY WalkTypes, TransitionsTyped, FiniteSeqs
<1>2. To(k) \subseteq {c \in Seq(Transitions) : Len(c) = k}
  BY ToIs DEF WaysFrom
<1> QED BY <1>1, <1>2, FS_Subset

\* What is shortest when the target was found.
LEMMA ShortestIs ==
  ASSUME DistInv, request.op = "paths", Found
  PROVE  /\ Shortest = To(depthOf[request.target])
         /\ WaysBack(depthOf[request.target]) \subseteq Shortest
         /\ reasons = {} => WaysBack(depthOf[request.target]) = Shortest
<1> DEFINE d == depthOf[request.target]
           lengths == {k \in 0 .. request.depth : To(k) # {}}
<1>0. request.target \in Reached
  BY DEF Found
<1>1. d \in 0 .. request.depth
  BY <1>0, WalkTypes
<1>2. To(d) # {}
  BY <1>0, SomeWayBack, BackIsWay
<1>3. \A k \in Nat : k < d => To(k) = {}
  BY <1>0, NoShorterWay
<1>4. Shortest = IF lengths = {} THEN {} ELSE To(CHOOSE k \in lengths : \A j \in lengths : k =< j)
  BY DEF Shortest
<1>5. WaysBack(d) \subseteq To(d) /\ (reasons = {} => WaysBack(d) = To(d))
  BY BackIsWay, WayIsBack
<1>6. request.depth \in Nat
  BY WalkTypes
<1> HIDE DEF d
<1>7. d \in lengths /\ \A k \in lengths : d =< k
  BY <1>1, <1>2, <1>3, <1>6
<1>8. (CHOOSE k \in lengths : \A j \in lengths : k =< j) = d
  <2>1. \A k \in lengths : (\A j \in lengths : k =< j) => k = d
    BY <1>6, <1>7
  <2> HIDE DEF lengths
  <2> QED BY <1>7, <2>1
<1>9. Shortest = To(d)
  BY <1>4, <1>7, <1>8
<1> QED BY <1>5, <1>9 DEF d

LEMMA NoneIs ==
  ASSUME DistInv, request.op = "paths", Over, reasons = {}, ~Found
  PROVE  Shortest = {}
<1>1. ASSUME NEW k \in 0 .. request.depth, NEW c \in To(k) PROVE FALSE
  <2>1. request.depth \in Nat /\ k \in Nat /\ k =< request.depth
    BY WalkTypes
  <2>2. c \in WaysFrom(k) /\ IF k = 0 THEN request.target \in request.seeds /\ request.access = 0
                                      ELSE c[k].to = request.target
    BY <2>1, ToIs
  <2>3. k # 0
    BY <2>2, WalkTypes DEF Found
  <2>4. \A t \in Usable : t.from \in Reached /\ depthOf[t.from] < request.depth
                            => t.to \in Reached /\ depthOf[t.to] =< depthOf[t.from] + 1
    BY AllFollowed
  <2>5. k \in 1 .. k
    BY <2>1, <2>3
  <2>6. c[k].to \in Reached
    BY <2>1, <2>2, <2>4, <2>5, WayDown
  <2>7. c[k].to \notin request.seeds
    BY <2>2, <2>5 DEF WaysFrom
  <2> QED BY <2>2, <2>3, <2>6, <2>7 DEF Found
<1>2. {k \in 0 .. request.depth : To(k) # {}} = {}
  BY <1>1
<1> QED BY <1>2 DEF Shortest

LEMMA PathsHonest ==
  ASSUME DistInv, Over, request.op = "paths", PathsAnswer
  PROVE  HonestPaths
<1>1. CASE Found
  <2> DEFINE all == WaysBack(depthOf[request.target])
  <2>1. PICK shown \in SUBSET all :
          /\ Cardinality(shown) = request.limit \/ (shown = all /\ Cardinality(all) < request.limit)
          /\ answer = [status |-> StatusOf(FALSE), paths |-> shown, more |-> Cardinality(all) > request.limit]
    BY <1>1 DEF PathsAnswer
  <2>2. answer.status = StatusOf(FALSE) /\ answer.paths = shown /\ (answer.more <=> Cardinality(all) > request.limit)
    BY <2>1
  <2>3. all \subseteq Shortest /\ (reasons = {} => all = Shortest)
    BY <1>1, ShortestIs
  <2>4. IsFiniteSet(Shortest)
    <3>1. depthOf[request.target] \in Nat
      BY <1>1, WalkTypes DEF Found
    <3> QED BY <1>1, <3>1, ShortestIs, WaysFinite
  <2> HIDE DEF all
  <2>5. IsFiniteSet(all) /\ Cardinality(all) =< Cardinality(Shortest)
    BY <2>3, <2>4, FS_Subset
  <2>6. IsFiniteSet(shown) /\ Cardinality(shown) =< Cardinality(all) /\ (Cardinality(all) = Cardinality(shown) => all = shown)
    BY <2>5, FS_Subset
  <2>7. Cardinality(all) \in Nat /\ Cardinality(Shortest) \in Nat /\ Cardinality(shown) \in Nat /\ request.limit \in Nat
    BY <2>4, <2>5, <2>6, FS_CardinalityType, WalkTypes DEF AllRequests
  <2>8. answer.more => Cardinality(Shortest) > request.limit
    BY <2>2, <2>5, <2>7
  <2>9. ~answer.more => shown = all
    BY <2>1, <2>2, <2>6, <2>7
  <2>10. answer.status = "complete" => reasons = {}
    BY <2>2 DEF StatusOf
  <2> QED BY <2>2, <2>3, <2>8, <2>9, <2>10 DEF HonestPaths
<1>2. CASE ~Found
  <2>0. answer = [status |-> StatusOf(FALSE), paths |-> {}, more |-> FALSE]
    BY <1>2 DEF PathsAnswer
  <2>1. answer.status = StatusOf(FALSE) /\ answer.paths = {} /\ ~answer.more
    BY <2>0
  <2>2. answer.status = "complete" => reasons = {}
    BY <2>1 DEF StatusOf
  <2>3. reasons = {} => Shortest = {}
    BY <1>2, NoneIs
  <2>4. Cardinality({}) = 0 /\ request.limit \in Nat
    BY FS_EmptySet, WalkTypes DEF AllRequests
  <2>5. reasons = {} => ~(Cardinality(Shortest) > request.limit)
    <3>1. ~(0 > request.limit)
      BY <2>4
    <3>2. reasons = {} => Cardinality(Shortest) = 0
      BY <2>3, <2>4, Zenon
    <3> QED BY <3>1, <3>2
  <2> QED BY <2>1, <2>2, <2>3, <2>5 DEF HonestPaths
<1> QED BY <1>1, <1>2

-----------------------------------------------------------------------------
(* Every answer *)

AnswerInv ==
  answer # NoAnswer =>
    /\ Over
    /\ request.op = "impact" => ImpactAnswer
    /\ request.op = "subgraph" => SubgraphAnswer
    /\ request.op = "flow" => FlowAnswer
    /\ request.op = "paths" => PathsAnswer

HonestInv == DistInv /\ AnswerInv

LEMMA AnswersAreHonest == HonestInv => AnswersHonest
BY ImpactHonest, SubgraphHonest, FlowHonest, PathsHonest DEF HonestInv, AnswerInv, AnswersHonest

LEMMA HonestInit == TraversalInit => HonestInv
<1> SUFFICES ASSUME TraversalInit PROVE HonestInv
  OBVIOUS
<1>1. request \in AllRequests /\ Reached = request.seeds /\ \A n \in Reached : depthOf[n] = 0
  BY DEF TraversalInit, Reached
<1>2. layer = 0 /\ links = {} /\ answer = NoAnswer /\ request.depth \in Nat
  BY <1>1 DEF TraversalInit, AllRequests
<1>3. Behind
  BY <1>1, <1>2 DEF Behind
<1>4. LinksKept
  BY <1>1, <1>2 DEF LinksKept
<1> QED BY <1>2, <1>3, <1>4, InitInv DEF HonestInv, DistInv, AnswerInv

\* What a step adds to the nodes reached.
LEMMA StepAdds ==
  ASSUME TraversalInv, Going, NEW x, NEW T, Step(x, T)
  PROVE  /\ layer \in Nat /\ layer' = layer + 1 /\ layer < request.depth /\ reasons = {} /\ answer = NoAnswer
         /\ graph' = graph /\ request' = request /\ answer' = answer
         /\ T \subseteq Transitions
         /\ \A t \in T : t.from \in Reached /\ depthOf[t.from] = layer
         /\ \A n \in Reached : n \in Reached' /\ depthOf'[n] = depthOf[n] /\ depthOf[n] \in Nat /\ depthOf[n] =< layer
         /\ \A n \in Taken(T) : n \notin Reached /\ n \in Reached' /\ depthOf'[n] = layer + 1 /\ \E t \in T : t.to = n
         /\ \A n \in Reached' : n \in Reached \/ n \in Taken(T)
         /\ reasons' = {} =>
              \A t \in Usable : t.from \in Reached /\ depthOf[t.from] = layer
                                  => t \in T /\ (t.to \in Reached \/ t.to \in Taken(T))
<1>0. /\ layer \in Nat /\ frontier \subseteq Reached /\ Reached \subseteq Nodes
      /\ depthOf \in [Reached -> Nat]
      /\ expanded \in Nat /\ LayersStep /\ LayersComplete /\ BudgetsHeld
      /\ graph \in Graphs /\ request \in Requests /\ reasons = {} /\ answer = NoAnswer /\ layer < request.depth
  BY DEF TraversalInv, TraversalTypeOK, Going
<1>1. Inputs /\ graph' = graph /\ request' = request /\ answer' = answer
  BY <1>0 DEF Inputs, Step, Reach
<1>2. frontier = {n \in Reached : depthOf[n] = layer}
  BY <1>0 DEF LayersComplete, Going
<1>3. x.took \subseteq Out /\ (x.why = {} => x.took = Out)
  <2>1. x \in Layers /\ frontier \subseteq Nodes /\ expanded =< request.edges
    BY <1>0 DEF BudgetsHeld, Step
  <2> QED BY <1>0, <1>1, <2>1, LayerBound
<1>4. T \subseteq Out /\ T \subseteq Transitions
  BY <1>3 DEF Step, Out
<1>5. Taken(T) \subseteq Fresh(T)
  BY DEF Taken, FirstOf
<1>6. /\ Reached' = Reached \union Taken(T)
      /\ depthOf' = [n \in Reached' |-> IF n \in Reached THEN depthOf[n] ELSE layer + 1]
      /\ layer' = layer + 1
  BY DEF Step, Reach, Reached
<1>7. \A t \in T : t.from \in Reached /\ depthOf[t.from] = layer
  BY <1>2, <1>4 DEF Out
<1>8. \A n \in Taken(T) : n \notin Reached /\ \E t \in T : t.to = n
  BY <1>5 DEF Fresh
<1>9. /\ \A n \in Reached : n \in Reached' /\ depthOf'[n] = depthOf[n] /\ depthOf[n] \in Nat /\ depthOf[n] =< layer
      /\ \A n \in Taken(T) : n \in Reached' /\ depthOf'[n] = layer + 1
      /\ \A n \in Reached' : n \in Reached \/ n \in Taken(T)
  BY <1>0, <1>6, <1>8 DEF LayersStep
<1>10. ASSUME reasons' = {}, NEW t \in Usable, t.from \in Reached, depthOf[t.from] = layer
       PROVE  t \in T /\ (t.to \in Reached \/ t.to \in Taken(T))
  <2>1. Taken(T) = Fresh(T) /\ x.took = Out
    BY <1>0, <1>3, <1>10 DEF Step, Reach
  <2>2. t \in Out
    BY <1>2, <1>10 DEF Out, Usable
  <2>3. t \in T
    BY <1>10, <2>1, <2>2 DEF Step, Usable
  <2> QED BY <2>1, <2>3 DEF Fresh
<1> QED BY <1>0, <1>1, <1>4, <1>6, <1>7, <1>8, <1>9, <1>10

LEMMA StepKeepsDist ==
  ASSUME DistInv, Going, NEW x, NEW T, Step(x, T),
         request.op = "subgraph" => links' = links \union T,
         request.op = "paths" => links' = links \union Predecessors(T)
  PROVE  HonestInv'
<1>1. TraversalInv /\ Behind /\ LinksKept /\ LayersComplete /\ LayersStep
  BY DEF DistInv, TraversalInv
<1>2. TraversalInv'
  BY <1>1, StepKeeps
<1>3. /\ layer \in Nat /\ layer' = layer + 1 /\ layer < request.depth /\ reasons = {} /\ answer = NoAnswer
      /\ graph' = graph /\ request' = request /\ answer' = answer
      /\ T \subseteq Transitions
  BY <1>1, StepAdds
<1>4. \A t \in T : t.from \in Reached /\ depthOf[t.from] = layer
  BY <1>1, StepAdds
<1>5. /\ \A n \in Reached : n \in Reached' /\ depthOf'[n] = depthOf[n] /\ depthOf[n] \in Nat /\ depthOf[n] =< layer
      /\ \A n \in Taken(T) : n \notin Reached /\ n \in Reached' /\ depthOf'[n] = layer + 1 /\ \E t \in T : t.to = n
      /\ \A n \in Reached' : n \in Reached \/ n \in Taken(T)
  BY <1>1, StepAdds
<1>6. reasons' = {} =>
        \A t \in Usable : t.from \in Reached /\ depthOf[t.from] = layer
                            => t \in T /\ (t.to \in Reached \/ t.to \in Taken(T))
  BY <1>1, StepAdds
<1>7. UNCHANGED <<Transitions, Usable>>
  BY <1>3 DEF Transitions, Forward, Backward, Usable, Accepted
<1>8. \A t \in Usable : t.from \in Reached /\ depthOf[t.from] < layer
                          => t.to \in Reached /\ depthOf[t.to] =< depthOf[t.from] + 1
  BY <1>1, <1>3 DEF LayersComplete, Usable
\* Only a node reached before is above the new layer.
<1>9. ASSUME NEW n \in Reached', depthOf'[n] < layer + 1
      PROVE  n \in Reached /\ depthOf'[n] = depthOf[n] /\ (depthOf[n] < layer \/ depthOf[n] = layer)
  BY <1>3, <1>5, <1>9
<1>10. Behind'
  <2> SUFFICES ASSUME NEW t \in Usable, t.from \in Reached', depthOf'[t.from] + 1 < layer + 1
               PROVE  t.to \in Reached' /\ depthOf'[t.to] =< depthOf'[t.from] + 1
    BY <1>3, <1>7 DEF Behind
  <2>1. t.from \in Reached /\ depthOf'[t.from] = depthOf[t.from] /\ depthOf[t.from] < layer
    <3>1. t.from \in Reached
      BY <1>3, <1>5
    <3>2. depthOf'[t.from] = depthOf[t.from] /\ depthOf[t.from] \in Nat
      BY <1>5, <3>1
    <3> QED BY <1>3, <3>1, <3>2
  <2>2. t.to \in Reached /\ depthOf[t.to] =< depthOf[t.from] + 1
    BY <1>8, <2>1
  <2> QED BY <1>5, <2>1, <2>2
<1>11. ASSUME request.op = "subgraph"
       PROVE  /\ \A t \in links' : t \in Transitions /\ t.from \in Reached' /\ depthOf'[t.from] < layer'
              /\ reasons' = {} => \A t \in Transitions : t.from \in Reached' /\ depthOf'[t.from] < layer' => t \in links'
  <2>1. ASSUME NEW t \in links' PROVE t \in Transitions /\ t.from \in Reached' /\ depthOf'[t.from] < layer'
    <3>1. CASE t \in links
      <4>1. t \in Transitions /\ t.from \in Reached /\ depthOf[t.from] < layer
        BY <1>1, <1>11, <3>1 DEF LinksKept
      <4> QED BY <1>3, <1>5, <4>1
    <3>2. CASE t \in T
      BY <1>3, <1>4, <1>5, <3>2
    <3> QED BY <1>11, <3>1, <3>2
  <2>2. ASSUME reasons' = {}, NEW t \in Transitions, t.from \in Reached', depthOf'[t.from] < layer'
        PROVE  t \in links'
    <3>1. t.from \in Reached /\ (depthOf[t.from] < layer \/ depthOf[t.from] = layer)
      BY <1>3, <1>9, <2>2
    <3>2. CASE depthOf[t.from] < layer
      BY <1>1, <1>3, <1>11, <3>1, <3>2 DEF LinksKept
    <3>3. CASE depthOf[t.from] = layer
      <4>1. t \in Usable
        BY <1>11 DEF Usable
      <4> QED BY <1>6, <1>11, <2>2, <3>1, <3>3, <4>1
    <3> QED BY <3>1, <3>2, <3>3
  <2> QED BY <2>1, <2>2
<1>12. ASSUME request.op = "paths"
       PROVE  /\ \A t \in links' : t \in Usable /\ t.from \in Reached' /\ t.to \in Reached' /\ depthOf'[t.to] = depthOf'[t.from] + 1
              /\ \A n \in Reached' \ request.seeds : \E t \in links' : t.to = n
              /\ reasons' = {} =>
                   \A t \in Usable :
                     t.from \in Reached' /\ t.to \in Reached' /\ depthOf'[t.to] = depthOf'[t.from] + 1 => t \in links'
  <2>1. \A t \in T : t \in Usable
    BY <1>3 DEF Step, Usable
  <2>2. ASSUME NEW t \in links'
        PROVE  t \in Usable /\ t.from \in Reached' /\ t.to \in Reached' /\ depthOf'[t.to] = depthOf'[t.from] + 1
    <3>1. CASE t \in links
      <4>1. t \in Usable /\ t.from \in Reached /\ t.to \in Reached /\ depthOf[t.to] = depthOf[t.from] + 1
        BY <1>1, <1>12, <3>1 DEF LinksKept
      <4> QED BY <1>5, <4>1
    <3>2. CASE t \in Predecessors(T)
      <4>1. t \in T /\ t.to \in Taken(T)
        BY <3>2 DEF Predecessors
      <4> QED BY <1>4, <1>5, <2>1, <4>1
    <3> QED BY <1>12, <3>1, <3>2
  <2>3. ASSUME NEW n \in Reached' \ request.seeds PROVE \E t \in links' : t.to = n
    <3>1. CASE n \in Reached
      <4>1. \E t \in links : t.to = n
        BY <1>1, <1>12, <3>1 DEF LinksKept
      <4> QED BY <1>12, <4>1
    <3>2. CASE n \in Taken(T)
      <4>1. PICK t \in T : t.to = n
        BY <1>5, <3>2
      <4>2. t \in Predecessors(T)
        BY <3>2, <4>1 DEF Predecessors
      <4> QED BY <1>12, <4>1, <4>2
    <3> QED BY <1>5, <3>1, <3>2
  <2>4. ASSUME reasons' = {}, NEW t \in Usable,
               t.from \in Reached', t.to \in Reached', depthOf'[t.to] = depthOf'[t.from] + 1
        PROVE  t \in links'
    <3>1. t.from \in Reached
      <4>1. depthOf'[t.to] =< layer + 1
        BY <1>3, <1>5, <2>4
      <4>2. CASE t.from \in Taken(T)
        <5>1. depthOf'[t.from] = layer + 1
          BY <1>5, <4>2
        <5> QED BY <1>3, <2>4, <4>1, <5>1
      <4> QED BY <1>5, <2>4, <4>2
    <3>2. depthOf'[t.from] = depthOf[t.from] /\ depthOf[t.from] \in Nat /\ depthOf[t.from] =< layer
      BY <1>5, <3>1
    <3>3. CASE depthOf[t.from] < layer
      <4>1. t.to \in Reached
        BY <1>8, <3>1, <3>3
      <4>2. depthOf[t.to] = depthOf[t.from] + 1
        BY <1>5, <2>4, <3>2, <4>1
      <4>3. t \in links
        BY <1>1, <1>3, <1>12, <3>1, <4>1, <4>2 DEF LinksKept
      <4> QED BY <1>12, <4>3
    <3>4. CASE depthOf[t.from] = layer
      <4>1. t \in T /\ (t.to \in Reached \/ t.to \in Taken(T))
        BY <1>6, <2>4, <3>1, <3>4
      <4>2. depthOf'[t.to] = layer + 1
        BY <2>4, <3>2, <3>4
      <4>3. t.to \in Taken(T)
        BY <1>3, <1>5, <4>1, <4>2
      <4>4. t \in Predecessors(T)
        BY <4>1, <4>3 DEF Predecessors
      <4> QED BY <1>12, <4>4
    <3> QED BY <1>3, <3>2, <3>3, <3>4
  <2> QED BY <2>2, <2>3, <2>4
<1>13. LinksKept'
  BY <1>3, <1>7, <1>11, <1>12 DEF LinksKept
<1>14. layer' =< request'.depth
  <2>1. request.depth \in Nat
    BY WalkTypes
  <2> QED BY <1>3, <2>1
<1>15. DistInv'
  BY <1>2, <1>10, <1>13, <1>14 DEF DistInv
<1>16. AnswerInv'
  BY <1>3 DEF AnswerInv, NoAnswer
<1> QED BY <1>15, <1>16 DEF HonestInv

\* An answer changes nothing else.
LEMMA WalkStays ==
  ASSUME DistInv, TraversalInv',
         UNCHANGED <<graph, request, layer, frontier, depthOf, parentOf, links, expanded, reasons>>
  PROVE  DistInv' /\ (Over' <=> Over)
<1>1. UNCHANGED <<Reached, Transitions, Usable, Found>>
  BY DEF Reached, Transitions, Forward, Backward, Usable, Accepted, Found
<1>2. Behind'
  BY <1>1 DEF DistInv, Behind
<1>3. LinksKept'
  BY <1>1 DEF DistInv, LinksKept
<1>4. Over' <=> Over
  BY <1>1 DEF Over
<1> QED BY <1>2, <1>3, <1>4 DEF DistInv

LEMMA HonestStep == HonestInv /\ [TraversalNext]_walkVars => HonestInv'
<1> SUFFICES ASSUME HonestInv, [TraversalNext]_walkVars PROVE HonestInv'
  OBVIOUS
<1>1. DistInv /\ TraversalInv /\ TraversalInv'
  BY NextInv DEF HonestInv, DistInv
<1>2. CASE WalkTree
  <2>1. PICK x \in Layers : Reach(x.took, x.why) /\ frontier' = Taken(x.took)
                             /\ expanded' = expanded + Cardinality(x.took)
    BY <1>2 DEF WalkTree
  <2>2. Step(x, x.took) /\ Going /\ request.op \in {"impact", "flow"}
    BY <1>1, <1>2, <2>1 DEF WalkTree, Step, TraversalInv, TraversalTypeOK
  <2> QED BY <1>1, <2>2, StepKeepsDist
<1>3. CASE WalkSubgraph
  <2>1. PICK x \in Layers : /\ Reach(x.took, x.why) /\ frontier' = Taken(x.took)
                            /\ expanded' = expanded + Cardinality(x.took)
                            /\ links' = links \union x.took
    BY <1>3 DEF WalkSubgraph
  <2>2. x.took \subseteq Transitions
    BY <1>1, LayerBound DEF Inputs, TraversalInv, TraversalTypeOK, BudgetsHeld, Out
  <2>3. Step(x, x.took) /\ Going /\ request.op = "subgraph"
    BY <1>1, <1>3, <2>1, <2>2 DEF WalkSubgraph, Step, TraversalInv, TraversalTypeOK
  <2> QED BY <1>1, <2>1, <2>3, StepKeepsDist
<1>4. CASE WalkPaths
  <2> DEFINE T(x) == {t \in x.took : Accepted(t)}
  <2>1. PICK x \in Layers : /\ Reach(T(x), x.why) /\ frontier' = Taken(T(x)) \ {request.target}
                            /\ expanded' = expanded + Cardinality(x.took)
                            /\ links' = links \union Predecessors(T(x))
    BY <1>4 DEF WalkPaths
  <2>2. x.took \subseteq Transitions
    BY <1>1, LayerBound DEF Inputs, TraversalInv, TraversalTypeOK, BudgetsHeld, Out
  <2>3. Predecessors(T(x)) \subseteq Transitions
    BY <2>2 DEF Predecessors
  <2>4. Step(x, T(x)) /\ Going /\ request.op = "paths"
    BY <1>1, <1>4, <2>1, <2>3 DEF WalkPaths, Step, TraversalInv, TraversalTypeOK
  <2> QED BY <1>1, <2>1, <2>4, StepKeepsDist
<1>5. ASSUME UNCHANGED <<graph, request, layer, frontier, depthOf, parentOf, links, expanded, reasons>>,
             answer = NoAnswer, ~Going
      PROVE  DistInv' /\ Over'
  <2>1. Over
    BY <1>5 DEF Over, Going
  <2> QED BY <1>1, <1>5, <2>1, WalkStays
<1>6. CASE ReportImpact
  <2>1. DistInv' /\ Over' /\ request'.op = "impact"
    BY <1>5, <1>6 DEF ReportImpact
  <2>2. ImpactAnswer'
    BY <1>6 DEF ReportImpact, ImpactAnswer, StatusOf, Listed, Reached
  <2> QED BY <2>1, <2>2 DEF HonestInv, AnswerInv
<1>7. CASE ReportSubgraph
  <2>1. DistInv' /\ Over' /\ request'.op = "subgraph"
    BY <1>5, <1>7 DEF ReportSubgraph
  <2>2. SubgraphAnswer'
    BY <1>7 DEF ReportSubgraph, SubgraphAnswer, StatusOf, Reached
  <2> QED BY <2>1, <2>2 DEF HonestInv, AnswerInv
<1>8. CASE ReportFlow
  <2>1. DistInv' /\ Over' /\ request'.op = "flow"
    BY <1>5, <1>8 DEF ReportFlow
  <2>2. FlowAnswer'
    BY <1>8 DEF ReportFlow, FlowAnswer, StatusOf, Listed, Reached
  <2> QED BY <2>1, <2>2 DEF HonestInv, AnswerInv
<1>9. CASE ReportPaths
  <2>1. DistInv' /\ Over' /\ request'.op = "paths"
    BY <1>5, <1>9 DEF ReportPaths
  <2>2. UNCHANGED <<graph, request, layer, frontier, depthOf, parentOf, links, expanded, reasons>>
    BY <1>9 DEF ReportPaths
  <2>3. (Found' <=> Found) /\ (\A k : WaysBack(k)' = WaysBack(k)) /\ StatusOf(FALSE)' = StatusOf(FALSE)
    BY <2>2 DEF Found, WaysBack, StatusOf, Reached
  <2>4. PathsAnswer'
    <3>1. CASE Found
      <4> DEFINE all == WaysBack(depthOf[request.target])
      <4>1. Back[depthOf[request.target]] = all
        <5>1. depthOf[request.target] \in Nat
          BY <1>1, <3>1, WalkTypes DEF Found
        <5> QED BY <5>1, BackIs
      <4>2. \E shown \in SUBSET all :
              /\ Cardinality(shown) = request.limit \/ (shown = all /\ Cardinality(all) < request.limit)
              /\ answer' = [status |-> StatusOf(FALSE), paths |-> shown, more |-> Cardinality(all) > request.limit]
        BY <1>9, <3>1, <4>1 DEF ReportPaths
      <4> QED BY <2>2, <2>3, <3>1, <4>2 DEF PathsAnswer
    <3>2. CASE ~Found
      <4>1. answer' = [status |-> StatusOf(FALSE), paths |-> {}, more |-> FALSE]
        BY <1>9, <3>2 DEF ReportPaths
      <4> QED BY <2>3, <3>2, <4>1 DEF PathsAnswer
    <3> QED BY <3>1, <3>2
  <2> QED BY <2>1, <2>4 DEF HonestInv, AnswerInv
<1>10. CASE UNCHANGED walkVars
  <2>1. UNCHANGED <<graph, request, layer, frontier, depthOf, parentOf, links, expanded, reasons>> /\ answer' = answer
    BY <1>10 DEF walkVars
  <2>2. DistInv' /\ (Over' <=> Over)
    BY <1>1, <2>1, WalkStays
  <2>3. (Found' <=> Found) /\ (\A k : WaysBack(k)' = WaysBack(k))
    BY <2>1 DEF Found, WaysBack, Reached
  <2>4. /\ ImpactAnswer' <=> ImpactAnswer
        /\ SubgraphAnswer' <=> SubgraphAnswer
        /\ FlowAnswer' <=> FlowAnswer
    BY <2>1 DEF ImpactAnswer, SubgraphAnswer, FlowAnswer, StatusOf, Listed, Reached
  <2>5. PathsAnswer' <=> PathsAnswer
    BY <2>1, <2>3 DEF PathsAnswer, StatusOf
  <2>6. AnswerInv'
    BY <2>1, <2>2, <2>4, <2>5 DEF HonestInv, AnswerInv, NoAnswer
  <2> QED BY <2>2, <2>6 DEF HonestInv
<1> QED BY <1>2, <1>3, <1>4, <1>6, <1>7, <1>8, <1>9, <1>10 DEF TraversalNext

\* Whatever the graph, the call and its budgets: an answer says of the graph
\* what distances and simple paths in the whole graph say, and how complete it
\* is.
THEOREM HonestAnswers == TraversalSpec => []AnswersHonest
  BY HonestInit, HonestStep, AnswersAreHonest, PTL DEF TraversalSpec

-----------------------------------------------------------------------------
(* Taint paths between methods *)

USE CallsAssumption, MaxHopsAssumption

Linked(p) ==
  \A i \in 1 .. Len(p) - 1 : <<p[i], p[i + 1]>> \in calls /\ p[i] \notin SinkMethods \union Sanitizing
Paths == Seq(Methods) \ {<<>>}

PathsInv ==
  /\ calls \subseteq Methods \X Methods
  /\ queue \in Seq(Paths)
  /\ \A i \in 1 .. Len(queue) : Linked(queue[i])
  /\ OnlyChains

\* A path goes on with any callee of its last method.
LEMMA Extended ==
  ASSUME calls \subseteq Methods \X Methods, NEW p \in Paths, Linked(p),
         Last(p) \notin SinkMethods \union Sanitizing, NEW m \in Callees(Last(p))
  PROVE  Append(p, m) \in Paths /\ Linked(Append(p, m))
<1>1. <<Last(p), m>> \in calls /\ m \in Methods
  BY DEF Callees
<1>2. p \in Seq(Methods) /\ Len(p) \in Nat \ {0}
  BY DEF Paths
<1>3. Append(p, m) \in Seq(Methods) /\ Len(Append(p, m)) = Len(p) + 1
  BY <1>1, <1>2
<1>4. ASSUME NEW i \in 1 .. Len(p)
      PROVE  /\ <<Append(p, m)[i], Append(p, m)[i + 1]>> \in calls
             /\ Append(p, m)[i] \notin SinkMethods \union Sanitizing
  <2>1. CASE i = Len(p)
    <3>1. Append(p, m)[i] = Last(p) /\ Append(p, m)[i + 1] = m
      BY <1>1, <1>2, <2>1 DEF Last
    <3> QED BY <1>1, <3>1
  <2>2. CASE i < Len(p)
    <3>1. Append(p, m)[i] = p[i] /\ Append(p, m)[i + 1] = p[i + 1] /\ i \in 1 .. Len(p) - 1
      BY <1>1, <1>2, <2>2
    <3> QED BY <3>1 DEF Linked
  <2> QED BY <1>2, <2>1, <2>2
<1>5. Append(p, m) # <<>> /\ Len(Append(p, m)) - 1 = Len(p)
  BY <1>2, <1>3
<1>6. Linked(Append(p, m))
  BY <1>4, <1>5, Zenon DEF Linked
<1> QED BY <1>3, <1>5, <1>6 DEF Paths

LEMMA FirstOfQueue ==
  ASSUME PathsInv, queue # <<>>
  PROVE  /\ Head(queue) \in Paths /\ Linked(Head(queue))
         /\ Tail(queue) \in Seq(Paths)
         /\ \A i \in 1 .. Len(Tail(queue)) : Linked(Tail(queue)[i])
<1>1. queue \in Seq(Paths) /\ Len(queue) \in Nat \ {0} /\ Head(queue) = queue[1]
  BY DEF PathsInv
<1>2. Tail(queue) \in Seq(Paths) /\ Len(Tail(queue)) = Len(queue) - 1
  BY <1>1
<1>3. \A i \in 1 .. Len(Tail(queue)) : Tail(queue)[i] = queue[i + 1] /\ i + 1 \in 1 .. Len(queue)
  BY <1>1, <1>2
<1>4. queue[1] \in Paths /\ Linked(queue[1])
  BY <1>1 DEF PathsInv
<1> QED BY <1>1, <1>2, <1>3, <1>4 DEF PathsInv

LEMMA PathsStep == PathsInv /\ [PathsNext]_pathVars => PathsInv'
<1> SUFFICES ASSUME PathsInv, [PathsNext]_pathVars PROVE PathsInv'
  OBVIOUS
<1>1. UNCHANGED calls
  BY DEF PathsNext, pathVars, Start, Report, GiveUp, Expand
<1>2. \A p : (Linked(p))' <=> Linked(p)
  BY <1>1 DEF Linked, SinkMethods, Sanitizing, Callees
<1>3. \A p : (Chain(p))' <=> Chain(p)
  BY <1>1 DEF Chain, SinkMethods, Sanitizing, Callees
<1>4. ASSUME NEW s \in Handlers, Start(s) PROVE PathsInv'
  <2>1. <<s>> \in Paths /\ Linked(<<s>>)
    BY DEF Paths, Linked
  <2>2. queue' = <<<<s>>>> /\ found' = found
    BY <1>4 DEF Start
  <2>3. queue' \in Seq(Paths) /\ Len(queue') = 1 /\ queue'[1] = <<s>>
    BY <2>1, <2>2
  <2>4. \A i \in 1 .. Len(queue') : Linked(queue'[i])
    BY <2>1, <2>3
  <2> QED BY <1>1, <1>2, <1>3, <2>2, <2>3, <2>4 DEF PathsInv, OnlyChains
<1>5. CASE Report
  <2>1. queue # <<>> /\ queue' = Tail(queue) /\ found' = found \union {Head(queue)}
    BY <1>5 DEF Report
  <2>2. Chain(Head(queue))
    <3>1. ~TooFar(Head(queue)) /\ Last(Head(queue)) \in SinkMethods
      BY <1>5 DEF Report
    <3>2. Head(queue) \in Paths /\ Linked(Head(queue))
      BY <2>1, FirstOfQueue
    <3>3. Len(Head(queue)) \in Nat
      BY <3>2 DEF Paths
    <3> QED BY <3>1, <3>2, <3>3 DEF Chain, Linked, TooFar
  <2> QED BY <1>1, <1>2, <1>3, <2>1, <2>2, FirstOfQueue DEF PathsInv, OnlyChains
<1>6. CASE GiveUp
  <2>1. queue # <<>> /\ queue' = Tail(queue) /\ found' = found
    BY <1>6 DEF GiveUp
  <2> QED BY <1>1, <1>2, <1>3, <2>1, FirstOfQueue DEF PathsInv, OnlyChains
<1>7. CASE Expand
  <2> DEFINE p == Head(queue)
             new == Callees(Last(p)) \ seen
  <2>1. /\ queue # <<>> /\ found' = found
        /\ Last(p) \notin SinkMethods \union Sanitizing
    BY <1>7 DEF Expand
  <2>2. PICK o \in Orders(new) : queue' = Tail(queue) \o [i \in DOMAIN o |-> Append(p, o[i])]
    BY <1>7 DEF Expand
  <2>3. p \in Paths /\ Linked(p) /\ calls \subseteq Methods \X Methods
    BY <2>1, FirstOfQueue DEF PathsInv
  <2> DEFINE more == [i \in DOMAIN o |-> Append(p, o[i])]
             rest == Tail(queue)
  <2>4. o \in [1 .. Cardinality(new) -> new] /\ DOMAIN o = 1 .. Cardinality(new)
    BY <2>2 DEF Orders
  <2> HIDE DEF p
  <2>5. \A i \in DOMAIN o : more[i] \in Paths /\ Linked(more[i])
    <3> SUFFICES ASSUME NEW i \in DOMAIN o PROVE Append(p, o[i]) \in Paths /\ Linked(Append(p, o[i]))
      OBVIOUS
    <3>1. o[i] \in Callees(Last(p))
      BY <2>4
    <3> QED BY <2>1, <2>3, <3>1, Extended
  <2>6. Cardinality(new) \in Nat
    <3>1. new \subseteq Methods
      BY <2>3 DEF Callees
    <3> QED BY <3>1, CallsAssumption, FS_Subset, FS_CardinalityType
  <2> DEFINE n == Cardinality(new)
  <2>7. more \in Seq(Paths) /\ Len(more) = n
    <3>1. more \in [1 .. n -> Paths]
      BY <2>4, <2>5
    <3>2. n \in Nat
      BY <2>6
    <3> HIDE DEF more, n
    <3> QED BY <3>1, <3>2
  <2>8. rest \in Seq(Paths) /\ \A i \in 1 .. Len(rest) : Linked(rest[i])
    BY <2>1, FirstOfQueue
  <2>9. \A i \in 1 .. Len(more) : Linked(more[i])
    BY <2>4, <2>5, <2>7
  <2>10. queue' = rest \o more
    BY <2>2 DEF p
  <2> HIDE DEF more, rest
  <2>11. /\ rest \o more \in Seq(Paths)
         /\ \A i \in 1 .. Len(rest \o more) : Linked((rest \o more)[i])
    <3>0. rest \in Seq(Paths) /\ more \in Seq(Paths) /\ Len(rest) \in Nat /\ Len(more) \in Nat
      BY <2>7, <2>8
    <3>1. /\ rest \o more \in Seq(Paths) /\ Len(rest \o more) = Len(rest) + Len(more)
          /\ Len(rest) \in Nat /\ Len(more) \in Nat
          /\ \A i \in 1 .. Len(rest) + Len(more) :
               (rest \o more)[i] = IF i =< Len(rest) THEN rest[i] ELSE more[i - Len(rest)]
      BY <3>0, ConcatProperties, Zenon
    <3>2. \A i \in 1 .. Len(rest) + Len(more) :
            i \in 1 .. Len(rest) \/ (~(i =< Len(rest)) /\ i - Len(rest) \in 1 .. Len(more))
      BY <3>1
    <3>3. ASSUME NEW i \in 1 .. Len(rest \o more) PROVE Linked((rest \o more)[i])
      <4>1. CASE i \in 1 .. Len(rest)
        <5>1. (rest \o more)[i] = rest[i]
          BY <3>1, <4>1
        <5> QED BY <4>1, <5>1, <2>8
      <4>2. CASE ~(i =< Len(rest)) /\ i - Len(rest) \in 1 .. Len(more)
        <5>1. (rest \o more)[i] = more[i - Len(rest)]
          BY <3>1, <3>3, <4>2
        <5> QED BY <4>2, <5>1, <2>9
      <4> QED BY <3>1, <3>2, <3>3, <4>1, <4>2
    <3> QED BY <3>1, <3>3
  <2> QED BY <1>1, <1>2, <1>3, <2>1, <2>10, <2>11 DEF PathsInv, OnlyChains
<1>8. CASE UNCHANGED pathVars
  BY <1>8, <1>2, <1>3 DEF PathsInv, OnlyChains, pathVars
<1> QED BY <1>4, <1>5, <1>6, <1>7, <1>8 DEF PathsNext

\* The search of a source reports only real paths.
THEOREM ReportedPathsAreReal == PathsSpec => []OnlyChains
<1>1. PathsInit => PathsInv
  BY DEF PathsInit, PathsInv, OnlyChains
<1>2. PathsInv => OnlyChains
  BY DEF PathsInv
<1> QED BY <1>1, <1>2, PathsStep, PTL DEF PathsSpec

-----------------------------------------------------------------------------
(* No path is missed: chains of calls and the set that the search is measured *)
(* against                                                                    *)

\* The chains of calls from s to m that pass no sink and no sanitizing method.
Chains(s, m) == {p \in Paths : Linked(p) /\ p[1] = s /\ Last(p) = m}

LEMMA ChainTypes ==
  ASSUME NEW s, NEW m, NEW p \in Chains(s, m)
  PROVE  p \in Seq(Methods) /\ Len(p) \in Nat \ {0} /\ p[1] = s /\ p[Len(p)] = m /\ m \in Methods /\ p[1] \in Methods
BY DEF Chains, Paths, Last

\* A chain begins with a chain to each of its methods.
LEMMA Prefix ==
  ASSUME NEW s, NEW m, NEW p \in Chains(s, m), NEW n \in 1 .. Len(p)
  PROVE  \E q \in Chains(s, p[n]) : Len(q) = n
<1>1. p \in Seq(Methods) /\ Len(p) \in Nat \ {0} /\ p[1] = s /\ Linked(p)
  BY ChainTypes DEF Chains
<1> DEFINE q == [i \in 1 .. n |-> p[i]]
<1>2. q \in Seq(Methods) /\ Len(q) = n
  BY <1>1
<1>3. q[1] = s /\ q[n] = p[n] /\ q # <<>>
  BY <1>1, <1>2
<1>4. ASSUME NEW i \in 1 .. n - 1
      PROVE  <<q[i], q[i + 1]>> \in calls /\ q[i] \notin SinkMethods \union Sanitizing
  <2>1. q[i] = p[i] /\ q[i + 1] = p[i + 1] /\ i \in 1 .. Len(p) - 1
    BY <1>1, <1>4
  <2> HIDE DEF q
  <2> QED BY <1>1, <2>1 DEF Linked
<1> HIDE DEF q
<1>5. Linked(q)
  BY <1>2, <1>4 DEF Linked
<1>6. q \in Chains(s, p[n])
  BY <1>2, <1>3, <1>5 DEF Chains, Paths, Last
<1> QED BY <1>2, <1>6

\* A chain to a method that is neither goes on to each of its callees.
LEMMA Longer ==
  ASSUME calls \subseteq Methods \X Methods, NEW s, NEW m, NEW p \in Chains(s, m),
         m \notin SinkMethods \union Sanitizing, NEW n \in Callees(m)
  PROVE  Append(p, n) \in Chains(s, n) /\ Len(Append(p, n)) = Len(p) + 1
<1>1. p \in Seq(Methods) /\ Len(p) \in Nat \ {0} /\ p[1] = s /\ p[Len(p)] = m
  BY ChainTypes
<1>2. Append(p, n) \in Paths /\ Linked(Append(p, n)) /\ n \in Methods
  <2>1. p \in Paths /\ Linked(p) /\ Last(p) = m
    BY DEF Chains
  <2>2. n \in Methods
    BY DEF Callees
  <2> QED BY <2>1, <2>2, Extended
<1>3. Len(Append(p, n)) = Len(p) + 1 /\ Append(p, n)[1] = s /\ Append(p, n)[Len(p) + 1] = n
  BY <1>1, <1>2
<1> QED BY <1>2, <1>3 DEF Chains, Last

LEMMA OneLong ==
  ASSUME NEW s \in Methods
  PROVE  /\ <<s>> \in Chains(s, s) /\ Len(<<s>>) = 1
         /\ \A m : \A p \in Chains(s, m) : Len(p) = 1 => m = s
<1>1. <<s>> \in Paths /\ Linked(<<s>>)
  BY DEF Paths, Linked
<1>2. <<s>> \in Chains(s, s)
  BY <1>1 DEF Chains, Last
<1> QED BY <1>2, ChainTypes

\* The methods at the end of a chain of k calls.
Ends(s, k) == {m \in Methods : \E p \in Chains(s, m) : Len(p) = k + 1}

LEMMA EndsNext ==
  ASSUME calls \subseteq Methods \X Methods, NEW s \in Methods, NEW k \in Nat \ {0}
  PROVE  Ends(s, k) = UNION {Callees(m) : m \in Ends(s, k - 1) \ (SinkMethods \union Sanitizing)}
<1>1. ASSUME NEW n \in Ends(s, k)
      PROVE  \E m \in Ends(s, k - 1) \ (SinkMethods \union Sanitizing) : n \in Callees(m)
  <2>1. PICK p \in Chains(s, n) : Len(p) = k + 1
    BY DEF Ends
  <2>2. p \in Seq(Methods) /\ k \in 1 .. Len(p) /\ p[k + 1] = n /\ p[k] \in Methods
    BY <2>1, ChainTypes
  <2>3. <<p[k], p[k + 1]>> \in calls /\ p[k] \notin SinkMethods \union Sanitizing
    BY <2>1 DEF Chains, Linked
  <2>4. PICK q \in Chains(s, p[k]) : Len(q) = k
    BY <2>2, Prefix
  <2>5. p[k] \in Ends(s, k - 1)
    BY <2>2, <2>4 DEF Ends
  <2>6. n \in Callees(p[k])
    BY <2>2, <2>3 DEF Callees
  <2> QED BY <2>3, <2>5, <2>6
<1>2. ASSUME NEW m \in Ends(s, k - 1) \ (SinkMethods \union Sanitizing), NEW n \in Callees(m)
      PROVE  n \in Ends(s, k)
  <2>1. PICK p \in Chains(s, m) : Len(p) = k
    BY DEF Ends
  <2>2. Append(p, n) \in Chains(s, n) /\ Len(Append(p, n)) = k + 1
    BY <2>1, Longer
  <2>3. n \in Methods
    BY DEF Callees
  <2> QED BY <2>2, <2>3 DEF Ends
<1> QED BY <1>1, <1>2

LEMMA EndsFirst ==
  ASSUME NEW s \in Methods
  PROVE  Ends(s, 0) = {s}
<1>1. Ends(s, 0) = {m \in Methods : \E p \in Chains(s, m) : Len(p) = 1}
  BY DEF Ends
<1>2. \A m \in Ends(s, 0) : m = s
  BY <1>1, OneLong
<1>3. s \in Ends(s, 0)
  BY <1>1, OneLong, Zenon
<1> QED BY <1>2, <1>3

\* Within is the function it is defined to be, for there is one, and what it
\* holds are the ends of chains, or there were a least k for which it does not.
LEMMA WithinEnds ==
  ASSUME calls \subseteq Methods \X Methods
  PROVE  \A k \in Nat, s \in Handlers : Within[k][s] = Ends(s, k)
<1> DEFINE G == [k \in Nat |-> [s \in Handlers |-> Ends(s, k)]]
<1>1. G = [k \in Nat |->
            [s \in Handlers |->
               IF k = 0 THEN {s}
               ELSE UNION {Callees(m) : m \in G[k - 1][s] \ (SinkMethods \union Sanitizing)}]]
  <2>1. ASSUME NEW k \in Nat, NEW s \in Handlers
        PROVE  Ends(s, k) = IF k = 0 THEN {s}
                            ELSE UNION {Callees(m) : m \in G[k - 1][s] \ (SinkMethods \union Sanitizing)}
    <3>1. CASE k = 0
      <4>1. s \in Methods
        OBVIOUS
      <4> QED BY <3>1, <4>1, EndsFirst
    <3>2. CASE k # 0
      <4>1. G[k - 1][s] = Ends(s, k - 1)
        BY <3>2
      <4> QED BY <3>2, <4>1, EndsNext
    <3> QED BY <3>1, <3>2
  <2>2. ASSUME NEW k \in Nat
        PROVE  [s \in Handlers |-> Ends(s, k)]
                 = [s \in Handlers |->
                      IF k = 0 THEN {s}
                      ELSE UNION {Callees(m) : m \in G[k - 1][s] \ (SinkMethods \union Sanitizing)}]
    <3> HIDE DEF G
    <3> QED BY <2>1, Zenon
  <2> QED BY <2>2, Zenon
<1> HIDE DEF G
<1>2. Within = [k \in Nat |->
                 [s \in Handlers |->
                    IF k = 0 THEN {s}
                    ELSE UNION {Callees(m) : m \in Within[k - 1][s] \ (SinkMethods \union Sanitizing)}]]
  BY <1>1, Zenon DEF Within
<1> DEFINE W == Within
           Bad == {k \in Nat : \E s \in Handlers : W[k][s] # Ends(s, k)}
<1>3. \A s \in Handlers : W[0][s] = {s}
  BY <1>2
<1>4. \A k \in Nat \ {0}, s \in Handlers :
        W[k][s] = UNION {Callees(m) : m \in W[k - 1][s] \ (SinkMethods \union Sanitizing)}
  BY <1>2
<1> HIDE DEF W
<1>5. Bad = {}
  <2> SUFFICES ASSUME Bad # {} PROVE FALSE
    OBVIOUS
  <2>1. PICK k \in Bad : \A j \in Bad : k =< j
    BY LeastExists
  <2>2. PICK s \in Handlers : W[k][s] # Ends(s, k)
    OBVIOUS
  <2>3. k \in Nat \ {0}
    BY <1>3, <2>2, EndsFirst
  <2>4. k - 1 \in Nat /\ k - 1 \notin Bad
    BY <2>1, <2>3
  <2>5. W[k - 1][s] = Ends(s, k - 1)
    BY <2>4
  <2>6. Ends(s, k) = UNION {Callees(m) : m \in Ends(s, k - 1) \ (SinkMethods \union Sanitizing)}
    <3>1. s \in Methods
      OBVIOUS
    <3> QED BY <2>3, <3>1, EndsNext
  <2> QED BY <1>4, <2>2, <2>3, <2>5, <2>6
<1> QED BY <1>5 DEF W

-----------------------------------------------------------------------------
(* The search of one source: Q is its queue, S what it has seen, F what has  *)
(* been found                                                                *)

Beyond(s, m) == \A p \in Chains(s, m) : Len(p) > MaxHops + 1
ShortestTo(s, p) == \A q \in Chains(s, Last(p)) : Len(p) =< Len(q)
Waits(Q, m) == \E i \in 1 .. Len(Q) : Last(Q[i]) = m

\* The queue holds a shortest chain to each method on it, in the order of their lengths.
InLayers(s, Q, S) ==
  /\ Q \in Seq(Paths)
  /\ \A i \in 1 .. Len(Q) :
       Q[i] \in Chains(s, Last(Q[i])) /\ Last(Q[i]) \in S /\ ShortestTo(s, Q[i])
  /\ \A i, j \in 1 .. Len(Q) : i < j =>
       Len(Q[i]) =< Len(Q[j]) /\ Len(Q[j]) =< Len(Q[i]) + 1 /\ Last(Q[i]) # Last(Q[j])

\* What was seen waits, or its callees were seen too, unless a path ends there.
Followed(s, Q, S) ==
  \A m \in S : Waits(Q, m) \/ m \in SinkMethods \union Sanitizing \/ Callees(m) \subseteq S \/ Beyond(s, m)

\* A sink seen waits or is reported, once and by a shortest chain.
Reported(s, Q, S, F) ==
  /\ \A m \in S \intersect SinkMethods :
       Waits(Q, m) \/ Beyond(s, m) \/ \E p \in F : p[1] = s /\ Last(p) = m
  /\ \A p \in F : p[1] = s => Last(p) \in S /\ ~Waits(Q, Last(p)) /\ ShortestTo(s, p)
  /\ \A p, q \in F : p[1] = s /\ q[1] = s /\ Last(p) = Last(q) => p = q

Searching(s, Q, S, F) ==
  s \in S /\ S \subseteq Methods /\ InLayers(s, Q, S) /\ Followed(s, Q, S) /\ Reported(s, Q, S, F)

\* What a search leaves.
Done(s, F) ==
  /\ \A m \in SinkMethods : Beyond(s, m) \/ \E p \in F : p[1] = s /\ Last(p) = m
  /\ \A p \in F : p[1] = s => ShortestTo(s, p)
  /\ \A p, q \in F : p[1] = s /\ q[1] = s /\ Last(p) = Last(q) => p = q

\* A chain to a method not seen leaves what was seen behind a method that waits
\* or is beyond the limit.
LEMMA Unseen ==
  ASSUME NEW s, NEW Q, NEW S, NEW F, Searching(s, Q, S, F), NEW m, m \notin S, NEW c \in Chains(s, m)
  PROVE  \E i \in 1 .. Len(c) - 1 : i > MaxHops + 1 \/ \E j \in 1 .. Len(Q) : Len(Q[j]) =< i
<1>1. c \in Seq(Methods) /\ Len(c) \in Nat \ {0} /\ c[1] = s /\ c[Len(c)] = m
  BY ChainTypes
<1> DEFINE Unmet == {i \in 1 .. Len(c) : c[i] \notin S}
<1>2. Unmet \subseteq Nat /\ Len(c) \in Unmet
  BY <1>1
<1>3. PICK n \in Unmet : \A k \in Unmet : n =< k
  <2> HIDE DEF Unmet
  <2> QED BY <1>2, LeastExists
<1>4. n \in 2 .. Len(c) /\ n - 1 \in 1 .. Len(c) - 1 /\ c[n - 1] \in S /\ c[n] \notin S
  <2>1. n # 1
    BY <1>1 DEF Searching
  <2>2. n \in 1 .. Len(c) /\ c[n] \notin S
    OBVIOUS
  <2>3. n - 1 \in 1 .. Len(c) /\ n - 1 \notin Unmet
    BY <1>1, <1>3, <2>1, <2>2
  <2> QED BY <1>1, <2>1, <2>2, <2>3
<1>5. <<c[n - 1], c[n]>> \in calls /\ c[n - 1] \notin SinkMethods \union Sanitizing
  BY <1>1, <1>4 DEF Chains, Linked
<1>6. c[n] \in Callees(c[n - 1])
  BY <1>5 DEF Callees
<1>7. PICK q \in Chains(s, c[n - 1]) : Len(q) = n - 1
  <2>1. n - 1 \in 1 .. Len(c)
    BY <1>1, <1>4
  <2> HIDE DEF Unmet
  <2> QED BY <2>1, Prefix
<1>8. Waits(Q, c[n - 1]) \/ Beyond(s, c[n - 1])
  BY <1>4, <1>5, <1>6 DEF Searching, Followed
<1>9. CASE Beyond(s, c[n - 1])
  BY <1>4, <1>7, <1>9 DEF Beyond
<1>10. CASE Waits(Q, c[n - 1])
  <2>1. PICK j \in 1 .. Len(Q) : Last(Q[j]) = c[n - 1]
    BY <1>10 DEF Waits
  <2>2. Len(Q[j]) =< n - 1
    BY <1>7, <2>1 DEF Searching, InLayers, ShortestTo
  <2> QED BY <1>4, <2>2
<1> QED BY <1>8, <1>9, <1>10

\* A search with nothing on its queue is done.
LEMMA SearchDone ==
  ASSUME NEW s, NEW S, NEW F, Searching(s, <<>>, S, F)
  PROVE  Done(s, F)
<1>1. \A m : ~Waits(<<>>, m)
  BY DEF Waits
<1>2. ASSUME NEW m \in SinkMethods PROVE Beyond(s, m) \/ \E p \in F : p[1] = s /\ Last(p) = m
  <2>1. CASE m \in S
    BY <1>1, <2>1 DEF Searching, Reported
  <2>2. CASE m \notin S
    <3>1. ASSUME NEW c \in Chains(s, m) PROVE Len(c) > MaxHops + 1
      <4>1. \E i \in 1 .. Len(c) - 1 : i > MaxHops + 1 \/ \E j \in 1 .. Len(<<>>) : Len((<<>>)[j]) =< i
        BY <2>2, Unseen
      <4>2. PICK i \in 1 .. Len(c) - 1 : i > MaxHops + 1
        BY <4>1
      <4> QED BY <4>2, ChainTypes
    <3> QED BY <3>1 DEF Beyond
  <2> QED BY <2>1, <2>2
<1> QED BY <1>2 DEF Done, Searching, Reported

\* The head of the queue is a shortest chain, and no other waits for its method.
LEMMA HeadOfSearch ==
  ASSUME NEW s, NEW Q, NEW S, NEW F, Searching(s, Q, S, F), Q # <<>>
  PROVE  /\ Head(Q) \in Chains(s, Last(Head(Q))) /\ ShortestTo(s, Head(Q)) /\ Head(Q) = Q[1]
         /\ Last(Head(Q)) \in S /\ Len(Q) \in Nat \ {0}
         /\ Tail(Q) \in Seq(Paths) /\ Len(Tail(Q)) = Len(Q) - 1
         /\ \A i \in 1 .. Len(Tail(Q)) : Tail(Q)[i] = Q[i + 1] /\ i + 1 \in 1 .. Len(Q)
         /\ ~Waits(Tail(Q), Last(Head(Q)))
         /\ \A m : Waits(Q, m) => m = Last(Head(Q)) \/ Waits(Tail(Q), m)
         /\ \A m : Waits(Tail(Q), m) => Waits(Q, m)
<1>1. Q \in Seq(Paths) /\ Len(Q) \in Nat \ {0} /\ Head(Q) = Q[1]
  BY DEF Searching, InLayers
<1>2. Tail(Q) \in Seq(Paths) /\ Len(Tail(Q)) = Len(Q) - 1
  BY <1>1
<1>3. \A i \in 1 .. Len(Tail(Q)) : Tail(Q)[i] = Q[i + 1] /\ i + 1 \in 1 .. Len(Q)
  BY <1>1, <1>2
<1> DEFINE R == Tail(Q)
<1> HIDE DEF R
<1>4. ~Waits(R, Last(Q[1]))
  <2> SUFFICES ASSUME NEW i \in 1 .. Len(R), Last(R[i]) = Last(Q[1]) PROVE FALSE
    BY DEF Waits
  <2>1. R[i] = Q[i + 1] /\ i + 1 \in 1 .. Len(Q) /\ 1 < i + 1 /\ 1 \in 1 .. Len(Q)
    BY <1>1, <1>3 DEF R
  <2>2. Last(Q[1]) # Last(Q[i + 1])
    BY <2>1 DEF Searching, InLayers
  <2> QED BY <2>1, <2>2
<1>5. ASSUME NEW m, Waits(Q, m), m # Last(Q[1]) PROVE Waits(R, m)
  <2>1. PICK i \in 1 .. Len(Q) : Last(Q[i]) = m
    BY <1>5 DEF Waits
  <2>2. i - 1 \in 1 .. Len(R) /\ R[i - 1] = Q[i]
    BY <1>1, <1>2, <1>3, <1>5, <2>1 DEF R
  <2> QED BY <2>1, <2>2 DEF Waits
<1>6. \A m : Waits(R, m) => Waits(Q, m)
  BY <1>3 DEF Waits, R
<1>7. 1 \in 1 .. Len(Q)
  BY <1>1
<1> QED BY <1>1, <1>2, <1>3, <1>4, <1>5, <1>6, <1>7 DEF Searching, InLayers, R

\* The rest of a queue is a queue.
LEMMA RestInLayers ==
  ASSUME NEW s, NEW Q, NEW S, NEW F, Searching(s, Q, S, F), Q # <<>>
  PROVE  InLayers(s, Tail(Q), S)
<1> DEFINE R == Tail(Q)
<1>1. R \in Seq(Paths) /\ Len(R) \in Nat /\ \A i \in 1 .. Len(R) : R[i] = Q[i + 1] /\ i + 1 \in 1 .. Len(Q)
  BY HeadOfSearch
<1> HIDE DEF R
<1>2. \A i \in 1 .. Len(R) : R[i] \in Chains(s, Last(R[i])) /\ Last(R[i]) \in S /\ ShortestTo(s, R[i])
  BY <1>1 DEF Searching, InLayers
<1>3. ASSUME NEW i \in 1 .. Len(R), NEW j \in 1 .. Len(R), i < j
      PROVE  Len(R[i]) =< Len(R[j]) /\ Len(R[j]) =< Len(R[i]) + 1 /\ Last(R[i]) # Last(R[j])
  <2>1. i + 1 \in 1 .. Len(Q) /\ j + 1 \in 1 .. Len(Q) /\ i + 1 < j + 1 /\ R[i] = Q[i + 1] /\ R[j] = Q[j + 1]
    BY <1>1, <1>3
  <2> QED BY <2>1 DEF Searching, InLayers
<1>4. InLayers(s, R, S)
  BY <1>1, <1>2, <1>3 DEF InLayers
<1> QED BY <1>4 DEF R

\* A path ends: at a sink, which is reported, or where it is given up.
LEMMA PathEnds ==
  ASSUME NEW s, NEW Q, NEW S, NEW F, NEW G, Searching(s, Q, S, F), Q # <<>>,
         \/ Last(Head(Q)) \in SinkMethods /\ G = F \union {Head(Q)}
         \/ (Len(Head(Q)) > MaxHops + 1 \/ Last(Head(Q)) \in Sanitizing \ SinkMethods) /\ G = F
  PROVE  Searching(s, Tail(Q), S, G)
<1> DEFINE p == Head(Q)
           R == Tail(Q)
           l == Last(p)
<1>1. /\ p \in Chains(s, l) /\ ShortestTo(s, p) /\ l \in S /\ ~Waits(R, l)
      /\ \A m : Waits(Q, m) => m = l \/ Waits(R, m)
      /\ \A m : Waits(R, m) => Waits(Q, m)
      /\ Waits(Q, l) /\ p[1] = s
  <2>1. Waits(Q, l)
    BY HeadOfSearch DEF Waits
  <2>2. p[1] = s
    BY HeadOfSearch DEF Chains
  <2> QED BY <2>1, <2>2, HeadOfSearch
<1>2. InLayers(s, R, S)
  BY RestInLayers
<1>3. \/ l \in SinkMethods /\ G = F \union {p}
      \/ (Len(p) > MaxHops + 1 \/ l \in Sanitizing \ SinkMethods) /\ G = F
  OBVIOUS
<1>4. Last(p) = l
  OBVIOUS
<1> HIDE DEF p, R, l
<1>5. Len(p) > MaxHops + 1 => Beyond(s, l)
  <2> SUFFICES ASSUME Len(p) > MaxHops + 1, NEW q \in Chains(s, l) PROVE Len(q) > MaxHops + 1
    BY DEF Beyond
  <2>1. Len(p) =< Len(q)
    BY <1>1, <1>4 DEF ShortestTo
  <2>2. Len(p) \in Nat /\ Len(q) \in Nat
    BY <1>1, ChainTypes
  <2> QED BY <2>1, <2>2
<1>6. Followed(s, R, S)
  <2> SUFFICES ASSUME NEW m \in S
               PROVE  Waits(R, m) \/ m \in SinkMethods \union Sanitizing \/ Callees(m) \subseteq S \/ Beyond(s, m)
    BY DEF Followed
  <2>1. CASE m = l
    BY <1>3, <1>5, <2>1
  <2>2. CASE m # l
    BY <1>1, <2>2 DEF Searching, Followed
  <2> QED BY <2>1, <2>2
<1>7. \A m \in S \intersect SinkMethods :
        Waits(R, m) \/ Beyond(s, m) \/ \E q \in G : q[1] = s /\ Last(q) = m
  <2> SUFFICES ASSUME NEW m \in S \intersect SinkMethods
               PROVE  Waits(R, m) \/ Beyond(s, m) \/ \E q \in G : q[1] = s /\ Last(q) = m
    OBVIOUS
  <2>1. CASE m = l
    BY <1>1, <1>3, <1>4, <1>5, <2>1
  <2>2. CASE m # l
    <3>1. Waits(Q, m) \/ Beyond(s, m) \/ \E q \in F : q[1] = s /\ Last(q) = m
      BY DEF Searching, Reported
    <3> QED BY <1>1, <1>3, <2>2, <3>1
  <2> QED BY <2>1, <2>2
<1>8. \A q \in G : q[1] = s => Last(q) \in S /\ ~Waits(R, Last(q)) /\ ShortestTo(s, q)
  <2> SUFFICES ASSUME NEW q \in G, q[1] = s PROVE Last(q) \in S /\ ~Waits(R, Last(q)) /\ ShortestTo(s, q)
    OBVIOUS
  <2>1. CASE q = p
    BY <1>1, <1>4, <2>1
  <2>2. CASE q \in F
    BY <1>1, <2>2 DEF Searching, Reported
  <2> QED BY <1>3, <2>1, <2>2
<1>9. \A q, r \in G : q[1] = s /\ r[1] = s /\ Last(q) = Last(r) => q = r
  <2>1. \A q \in F : q[1] = s => Last(q) # l
    BY <1>1 DEF Searching, Reported
  <2>2. \A q, r \in F : q[1] = s /\ r[1] = s /\ Last(q) = Last(r) => q = r
    BY DEF Searching, Reported
  <2> QED BY <1>3, <1>4, <2>1, <2>2
<1>10. s \in S /\ S \subseteq Methods
  BY DEF Searching
<1>11. Reported(s, R, S, G)
  BY <1>7, <1>8, <1>9 DEF Reported
<1>12. Searching(s, R, S, G)
  BY <1>2, <1>6, <1>10, <1>11 DEF Searching
<1> QED BY <1>12 DEF R

\* As many elements as a finite set has, all different, are all of the set.
LEMMA OrderOnto ==
  ASSUME NEW S, IsFiniteSet(S), NEW o \in Orders(S), NEW x \in S
  PROVE  \E i \in DOMAIN o : o[i] = x
<1> DEFINE n == Cardinality(S)
<1>1. n \in Nat /\ o \in [1 .. n -> S] /\ \A i, j \in 1 .. n : o[i] = o[j] => i = j
  BY FS_CardinalityType DEF Orders
<1>2. Cardinality(S \ {x}) = n - 1 /\ IsFiniteSet(S \ {x})
  BY FS_RemoveElement
<1> HIDE DEF n
<1>3. IsFiniteSet(1 .. n) /\ Cardinality(1 .. n) = n
  BY <1>1, FS_Interval
<1> SUFFICES ASSUME \A i \in DOMAIN o : o[i] # x PROVE FALSE
  OBVIOUS
<1>4. o \in [1 .. n -> S \ {x}]
  BY <1>1
<1>5. o \in Injection(1 .. n, S \ {x})
  BY <1>1, <1>4 DEF Injection, IsInjective
<1>6. Cardinality(1 .. n) =< Cardinality(S \ {x})
  BY <1>2, <1>3, <1>5, FS_Injection
<1> QED BY <1>1, <1>2, <1>3, <1>6

\* The callees that are new join the end of the queue.
LEMMA PathGoesOn ==
  ASSUME calls \subseteq Methods \X Methods,
         NEW s, NEW Q, NEW S, NEW F, Searching(s, Q, S, F), Q # <<>>,
         Len(Head(Q)) =< MaxHops + 1, Last(Head(Q)) \notin SinkMethods \union Sanitizing,
         NEW o \in Orders(Callees(Last(Head(Q))) \ S)
  PROVE  Searching(s, Tail(Q) \o [i \in DOMAIN o |-> Append(Head(Q), o[i])],
                   S \union (Callees(Last(Head(Q))) \ S), F)
<1> DEFINE p == Head(Q)
           R == Tail(Q)
           l == Last(p)
           N == Callees(l) \ S
           n == Cardinality(N)
           more == [i \in DOMAIN o |-> Append(p, o[i])]
           T == R \o more
<1>1. /\ p \in Chains(s, l) /\ ShortestTo(s, p) /\ l \in S /\ ~Waits(R, l) /\ p = Q[1]
      /\ \A m : Waits(Q, m) => m = l \/ Waits(R, m)
      /\ \A m : Waits(R, m) => Waits(Q, m)
      /\ Len(Q) \in Nat \ {0}
      /\ R \in Seq(Paths) /\ Len(R) = Len(Q) - 1
      /\ \A i \in 1 .. Len(R) : R[i] = Q[i + 1] /\ i + 1 \in 1 .. Len(Q)
  BY HeadOfSearch
<1>2. InLayers(s, R, S)
  BY RestInLayers
<1>3. Len(p) =< MaxHops + 1 /\ l \notin SinkMethods \union Sanitizing
  OBVIOUS
<1>4. IsFiniteSet(N) /\ N \subseteq Methods /\ Callees(l) \subseteq S \union N /\ N \subseteq Callees(l)
      /\ N \intersect S = {}
  <2>1. N \subseteq Methods
    BY DEF Callees
  <2>2. IsFiniteSet(N)
    BY <2>1, FS_Subset
  <2> QED BY <2>1, <2>2
<1>5. /\ n \in Nat /\ o \in [1 .. n -> N] /\ DOMAIN o = 1 .. n
      /\ \A i, j \in 1 .. n : o[i] = o[j] => i = j
  BY <1>4, FS_CardinalityType DEF Orders
<1>6. \A m \in N : \E i \in 1 .. n : o[i] = m
  <2>1. o \in Orders(N)
    OBVIOUS
  <2> HIDE DEF N, n
  <2> QED BY <1>4, <1>5, <2>1, OrderOnto
<1> HIDE DEF p, R, l, N, n
<1>7. p \in Seq(Methods) /\ Len(p) \in Nat \ {0}
  BY <1>1, ChainTypes
<1>8. \A i \in 1 .. n : /\ more[i] \in Chains(s, o[i]) /\ Len(more[i]) = Len(p) + 1
                        /\ Last(more[i]) = o[i] /\ more[i] \in Paths
  <2> SUFFICES ASSUME NEW i \in 1 .. n
               PROVE  /\ Append(p, o[i]) \in Chains(s, o[i]) /\ Len(Append(p, o[i])) = Len(p) + 1
                      /\ Last(Append(p, o[i])) = o[i] /\ Append(p, o[i]) \in Paths
    BY <1>5
  <2>1. o[i] \in Callees(l)
    BY <1>4, <1>5
  <2>2. Append(p, o[i]) \in Chains(s, o[i]) /\ Len(Append(p, o[i])) = Len(p) + 1
    BY <1>1, <1>3, <2>1, Longer
  <2> QED BY <2>2 DEF Chains
<1>9. more \in Seq(Paths) /\ Len(more) = n
  <2>1. more \in [1 .. n -> Paths]
    BY <1>5, <1>8
  <2> HIDE DEF more
  <2> QED BY <1>5, <2>1
<1> HIDE DEF more
<1>10. /\ T \in Seq(Paths) /\ Len(T) = Len(R) + n /\ Len(R) \in Nat
       /\ \A i \in 1 .. Len(R) + n : T[i] = IF i =< Len(R) THEN R[i] ELSE more[i - Len(R)]
  <2>1. R \in Seq(Paths) /\ more \in Seq(Paths) /\ Len(more) = n /\ Len(R) \in Nat
    BY <1>1, <1>9
  <2>2. /\ R \o more \in Seq(Paths) /\ Len(R \o more) = Len(R) + Len(more)
        /\ \A i \in 1 .. Len(R) + Len(more) :
             (R \o more)[i] = IF i =< Len(R) THEN R[i] ELSE more[i - Len(R)]
    BY <2>1, ConcatProperties, Zenon
  <2> QED BY <2>1, <2>2
<1> HIDE DEF T
<1>11. \A i \in 1 .. Len(R) : i \in 1 .. Len(T) /\ T[i] = R[i]
  BY <1>5, <1>10
<1>12. \A i \in 1 .. n : Len(R) + i \in 1 .. Len(T) /\ T[Len(R) + i] = more[i]
  <2> SUFFICES ASSUME NEW i \in 1 .. n PROVE Len(R) + i \in 1 .. Len(T) /\ T[Len(R) + i] = more[i]
    OBVIOUS
  <2>1. Len(R) + i \in 1 .. Len(R) + n /\ ~(Len(R) + i =< Len(R)) /\ (Len(R) + i) - Len(R) = i
    BY <1>5, <1>10
  <2> QED BY <1>10, <2>1
<1>13. ASSUME NEW i \in 1 .. Len(T), i \notin 1 .. Len(R)
       PROVE  i - Len(R) \in 1 .. n /\ T[i] = more[i - Len(R)]
  <2>1. i \in 1 .. Len(R) + n /\ ~(i =< Len(R))
    BY <1>5, <1>10, <1>13
  <2> QED BY <1>5, <1>10, <2>1
\* Nothing shorter leads to what is new.
<1>14. ASSUME NEW m \in N, NEW c \in Chains(s, m) PROVE Len(p) + 1 =< Len(c)
  <2>1. PICK i \in 1 .. Len(c) - 1 : i > MaxHops + 1 \/ \E j \in 1 .. Len(Q) : Len(Q[j]) =< i
    BY <1>4, Unseen
  <2>2. Len(c) \in Nat /\ i + 1 =< Len(c)
    BY ChainTypes
  <2>3. CASE i > MaxHops + 1
    BY <1>3, <1>7, <2>2, <2>3
  <2>4. ASSUME NEW j \in 1 .. Len(Q), Len(Q[j]) =< i PROVE Len(p) + 1 =< Len(c)
    <3>1. Q[j] \in Chains(s, Last(Q[j])) /\ Len(Q[j]) \in Nat
      BY ChainTypes DEF Searching, InLayers
    <3>2. Len(p) =< Len(Q[j])
      <4>1. CASE j = 1
        BY <1>1, <1>7, <4>1
      <4>2. CASE j # 1
        <5>1. 1 \in 1 .. Len(Q) /\ 1 < j
          BY <1>1, <4>2
        <5> QED BY <1>1, <5>1 DEF Searching, InLayers
      <4> QED BY <4>1, <4>2
    <3> QED BY <1>7, <2>2, <2>4, <3>1, <3>2
  <2> QED BY <2>1, <2>3, <2>4
<1>15. \A m : Waits(R, m) => Waits(T, m)
  BY <1>11 DEF Waits
<1>16. \A m \in N : Waits(T, m)
  <2> SUFFICES ASSUME NEW m \in N PROVE Waits(T, m)
    OBVIOUS
  <2>1. PICK i \in 1 .. n : o[i] = m
    BY <1>6
  <2>2. Last(T[Len(R) + i]) = m /\ Len(R) + i \in 1 .. Len(T)
    BY <1>8, <1>12, <2>1
  <2> QED BY <2>2 DEF Waits
<1>17. \A m : Waits(T, m) => Waits(R, m) \/ m \in N
  <2> SUFFICES ASSUME NEW i \in 1 .. Len(T) PROVE Waits(R, Last(T[i])) \/ Last(T[i]) \in N
    BY DEF Waits
  <2>1. CASE i \in 1 .. Len(R)
    BY <1>11, <2>1 DEF Waits
  <2>2. CASE i \notin 1 .. Len(R)
    <3>1. i - Len(R) \in 1 .. n /\ T[i] = more[i - Len(R)]
      BY <1>13, <2>2
    <3> QED BY <1>5, <1>8, <3>1
  <2> QED BY <2>1, <2>2
<1>18. \A i \in 1 .. Len(T) : T[i] \in Chains(s, Last(T[i])) /\ Last(T[i]) \in S \union N /\ ShortestTo(s, T[i])
  <2> SUFFICES ASSUME NEW i \in 1 .. Len(T)
               PROVE  T[i] \in Chains(s, Last(T[i])) /\ Last(T[i]) \in S \union N /\ ShortestTo(s, T[i])
    OBVIOUS
  <2>1. CASE i \in 1 .. Len(R)
    BY <1>2, <1>11, <2>1 DEF InLayers
  <2>2. CASE i \notin 1 .. Len(R)
    <3>1. PICK k \in 1 .. n : T[i] = more[k]
      BY <1>13, <2>2
    <3>2. T[i] \in Chains(s, o[k]) /\ Last(T[i]) = o[k] /\ o[k] \in N /\ Len(T[i]) = Len(p) + 1
      BY <1>5, <1>8, <3>1
    <3>3. ShortestTo(s, T[i])
      BY <1>14, <3>2 DEF ShortestTo
    <3> QED BY <3>2, <3>3
  <2> QED BY <2>1, <2>2
\* The rest of the queue is as long as its head or one longer.
<1>19. \A i \in 1 .. Len(R) : Len(R[i]) \in Nat /\ Len(p) =< Len(R[i]) /\ Len(R[i]) =< Len(p) + 1
  <2> SUFFICES ASSUME NEW i \in 1 .. Len(R)
               PROVE  Len(R[i]) \in Nat /\ Len(p) =< Len(R[i]) /\ Len(R[i]) =< Len(p) + 1
    OBVIOUS
  <2>1. R[i] = Q[i + 1] /\ i + 1 \in 1 .. Len(Q) /\ 1 \in 1 .. Len(Q) /\ 1 < i + 1 /\ p = Q[1]
    BY <1>1
  <2>2. Len(R[i]) \in Nat
    BY <1>2, ChainTypes DEF InLayers
  <2> QED BY <2>1, <2>2 DEF Searching, InLayers
<1>20. ASSUME NEW i \in 1 .. Len(T), NEW j \in 1 .. Len(T), i < j
       PROVE  Len(T[i]) =< Len(T[j]) /\ Len(T[j]) =< Len(T[i]) + 1 /\ Last(T[i]) # Last(T[j])
  <2>1. CASE i \in 1 .. Len(R) /\ j \in 1 .. Len(R)
    BY <1>2, <1>11, <1>20, <2>1 DEF InLayers
  <2>2. CASE i \in 1 .. Len(R) /\ j \notin 1 .. Len(R)
    <3>1. PICK k \in 1 .. n : T[j] = more[k]
      BY <1>13, <2>2
    <3>2. Len(T[j]) = Len(p) + 1 /\ Last(T[j]) \in N
      BY <1>5, <1>8, <3>1
    <3>3. T[i] = R[i] /\ Last(T[i]) \in S
      BY <1>2, <1>11, <2>2 DEF InLayers
    <3> QED BY <1>4, <1>7, <1>19, <2>2, <3>2, <3>3
  <2>3. CASE i \notin 1 .. Len(R) /\ j \notin 1 .. Len(R)
    <3>1. /\ i - Len(R) \in 1 .. n /\ T[i] = more[i - Len(R)]
          /\ j - Len(R) \in 1 .. n /\ T[j] = more[j - Len(R)]
      BY <1>13, <2>3
    <3>2. i - Len(R) # j - Len(R)
      BY <1>10, <1>20
    <3>3. Len(T[i]) = Len(p) + 1 /\ Len(T[j]) = Len(p) + 1 /\ Last(T[i]) # Last(T[j])
      BY <1>5, <1>8, <3>1, <3>2
    <3> QED BY <1>7, <3>3
  <2>4. CASE i \notin 1 .. Len(R) /\ j \in 1 .. Len(R)
    BY <1>10, <1>20, <2>4
  <2> QED BY <2>1, <2>2, <2>3, <2>4
<1>21. InLayers(s, T, S \union N)
  BY <1>10, <1>18, <1>20 DEF InLayers
<1>22. Followed(s, T, S \union N)
  <2> SUFFICES ASSUME NEW m \in S \union N
               PROVE  \/ Waits(T, m) \/ m \in SinkMethods \union Sanitizing
                      \/ Callees(m) \subseteq S \union N \/ Beyond(s, m)
    BY DEF Followed
  <2>1. CASE m \in N
    BY <1>16, <2>1
  <2>2. CASE m = l
    BY <1>4, <2>2
  <2>3. CASE m \in S /\ m # l
    <3>1. Waits(Q, m) \/ m \in SinkMethods \union Sanitizing \/ Callees(m) \subseteq S \/ Beyond(s, m)
      BY <2>3 DEF Searching, Followed
    <3> QED BY <1>1, <1>15, <2>3, <3>1
  <2> QED BY <2>1, <2>2, <2>3
<1>23. Reported(s, T, S \union N, F)
  <2>1. \A m \in (S \union N) \intersect SinkMethods :
          Waits(T, m) \/ Beyond(s, m) \/ \E q \in F : q[1] = s /\ Last(q) = m
    <3> SUFFICES ASSUME NEW m \in (S \union N) \intersect SinkMethods
                 PROVE  Waits(T, m) \/ Beyond(s, m) \/ \E q \in F : q[1] = s /\ Last(q) = m
      OBVIOUS
    <3>1. CASE m \in N
      BY <1>16, <3>1
    <3>2. CASE m \in S
      <4>1. m # l
        BY <1>3
      <4>2. Waits(Q, m) \/ Beyond(s, m) \/ \E q \in F : q[1] = s /\ Last(q) = m
        BY <3>2 DEF Searching, Reported
      <4> QED BY <1>1, <1>15, <4>1, <4>2
    <3> QED BY <3>1, <3>2
  <2>2. \A q \in F : q[1] = s => Last(q) \in S \union N /\ ~Waits(T, Last(q)) /\ ShortestTo(s, q)
    <3> SUFFICES ASSUME NEW q \in F, q[1] = s
                 PROVE  Last(q) \in S \union N /\ ~Waits(T, Last(q)) /\ ShortestTo(s, q)
      OBVIOUS
    <3>1. Last(q) \in S /\ ~Waits(Q, Last(q)) /\ ShortestTo(s, q)
      BY DEF Searching, Reported
    <3>2. ~Waits(T, Last(q))
      BY <1>1, <1>4, <1>17, <3>1
    <3> QED BY <3>1, <3>2
  <2>3. \A q, r \in F : q[1] = s /\ r[1] = s /\ Last(q) = Last(r) => q = r
    BY DEF Searching, Reported
  <2> QED BY <2>1, <2>2, <2>3 DEF Reported
<1>24. s \in S \union N /\ S \union N \subseteq Methods
  BY <1>4 DEF Searching
<1>25. Searching(s, T, S \union N, F)
  BY <1>21, <1>22, <1>23, <1>24 DEF Searching
<1> QED BY <1>25 DEF T, R, more, p, N, l

\* A search begins at its source.
LEMMA SearchBegins ==
  ASSUME NEW s \in Methods, NEW F, \A p \in F : p[1] # s
  PROVE  Searching(s, <<<<s>>>>, {s}, F)
<1>1. <<s>> \in Chains(s, s) /\ Len(<<s>>) = 1 /\ Last(<<s>>) = s /\ <<s>> \in Paths
  BY OneLong DEF Chains
<1> DEFINE Q == <<<<s>>>>
<1>2. Q \in Seq(Paths) /\ Len(Q) = 1 /\ Q[1] = <<s>>
  BY <1>1
<1> HIDE DEF Q
<1>3. ShortestTo(s, <<s>>)
  <2> SUFFICES ASSUME NEW q \in Chains(s, s) PROVE 1 =< Len(q)
    BY <1>1 DEF ShortestTo
  <2> QED BY ChainTypes
<1>4. InLayers(s, Q, {s})
  BY <1>1, <1>2, <1>3 DEF InLayers
<1>5. Waits(Q, s)
  BY <1>1, <1>2 DEF Waits
<1>6. Followed(s, Q, {s}) /\ Reported(s, Q, {s}, F)
  BY <1>5 DEF Followed, Reported
<1> QED BY <1>4, <1>6 DEF Searching, Q

\* What is said of chains, of searches and of what they leave rests on the calls alone.
LEMMA SameCalls ==
  ASSUME UNCHANGED calls
  PROVE  /\ \A p : Chain(p)' <=> Chain(p)
         /\ \A t, F : Done(t, F)' <=> Done(t, F)
         /\ \A t, Q, S, F : Searching(t, Q, S, F)' <=> Searching(t, Q, S, F)
<1>1. UNCHANGED <<SinkMethods, Sanitizing>> /\ \A m : UNCHANGED Callees(m)
  BY DEF SinkMethods, Sanitizing, Callees
<1>2. \A p : Chain(p)' <=> Chain(p)
  BY <1>1 DEF Chain
<1>3. \A t, m : UNCHANGED Chains(t, m)
  BY <1>1 DEF Chains, Linked
<1>4. \A t, m : Beyond(t, m)' <=> Beyond(t, m)
  BY <1>3 DEF Beyond
<1>5. \A t, p : ShortestTo(t, p)' <=> ShortestTo(t, p)
  BY <1>3 DEF ShortestTo
<1>6. \A t, F : Done(t, F)' <=> Done(t, F)
  BY <1>1, <1>4, <1>5 DEF Done
<1>7. \A t, Q, S : InLayers(t, Q, S)' <=> InLayers(t, Q, S)
  BY <1>3, <1>5 DEF InLayers
<1>8. \A Q, m : Waits(Q, m)' <=> Waits(Q, m)
  BY DEF Waits
<1>9. \A t, Q, S : Followed(t, Q, S)' <=> Followed(t, Q, S)
  BY <1>1, <1>4, <1>8 DEF Followed
<1>10. \A t, Q, S, F : Reported(t, Q, S, F)' <=> Reported(t, Q, S, F)
  BY <1>1, <1>4, <1>5, <1>8 DEF Reported
<1> QED BY <1>2, <1>6, <1>7, <1>9, <1>10 DEF Searching

-----------------------------------------------------------------------------
(* All searches *)

FoundInv ==
  /\ calls \subseteq Methods \X Methods
  /\ searched \subseteq Handlers
  /\ \A p \in found : p \in Paths /\ p[1] \in searched /\ Chain(p)
  /\ \A s \in searched : Done(s, found) \/ (queue # <<>> /\ s = queue[1][1])
  /\ queue # <<>> => queue[1][1] \in searched /\ Searching(queue[1][1], queue, seen, found)

\* What is done is left alone by another search.
LEMMA DoneStays ==
  ASSUME NEW s, NEW F, Done(s, F), NEW p, p[1] # s
  PROVE  Done(s, F \union {p})
BY DEF Done

\* Each step is one of the search whose path is first on the queue.
LEMMA SearchStep ==
  ASSUME FoundInv, UNCHANGED <<calls, searched>>, NEW s, queue # <<>>, s = queue[1][1],
         found' = found \/ (found' = found \union {Head(queue)} /\ Chain(Head(queue))),
         Searching(s, queue', seen', found')
  PROVE  FoundInv'
<1>1. /\ calls' \subseteq Methods \X Methods
      /\ searched' \subseteq Handlers /\ searched' = searched
  BY DEF FoundInv
<1>2. s \in searched /\ Searching(s, queue, seen, found)
  BY DEF FoundInv
<1>3. Head(queue) \in Paths /\ Head(queue)[1] = s
  BY <1>2, HeadOfSearch DEF Chains
<1>4. /\ \A p : Chain(p)' <=> Chain(p)
      /\ \A t, F : Done(t, F)' <=> Done(t, F)
      /\ \A t, Q, S, F : Searching(t, Q, S, F)' <=> Searching(t, Q, S, F)
  BY SameCalls
<1>5. \A p \in found' : p \in Paths /\ p[1] \in searched' /\ Chain(p)'
  BY <1>1, <1>2, <1>3, <1>4 DEF FoundInv
<1>6. queue' # <<>> => queue'[1][1] = s
  <2> SUFFICES ASSUME queue' # <<>> PROVE queue'[1][1] = s
    OBVIOUS
  <2>1. Head(queue') = queue'[1] /\ Head(queue') \in Chains(s, Last(Head(queue')))
    BY HeadOfSearch
  <2> QED BY <2>1 DEF Chains
<1>7. queue' = <<>> => Done(s, found')
  BY SearchDone
<1>8. \A t \in searched \ {s} : Done(t, found')
  BY <1>3, DoneStays DEF FoundInv
<1>9. \A t \in searched' : Done(t, found') \/ (queue' # <<>> /\ t = queue'[1][1])
  BY <1>1, <1>6, <1>7, <1>8
<1> QED BY <1>1, <1>2, <1>4, <1>5, <1>6, <1>9 DEF FoundInv

\* A search begins when the others are over.
LEMMA SearchesStart ==
  ASSUME FoundInv, UNCHANGED <<calls, found>>, queue = <<>>, NEW s \in Handlers,
         searched' = searched \union {s}, queue' = <<<<s>>>>, Searching(s, queue', seen', found')
  PROVE  FoundInv'
<1>1. /\ \A p : Chain(p)' <=> Chain(p)
      /\ \A t, F : Done(t, F)' <=> Done(t, F)
      /\ \A t, Q, S, F : Searching(t, Q, S, F)' <=> Searching(t, Q, S, F)
  BY SameCalls
<1>2. queue' # <<>> /\ queue'[1][1] = s
  OBVIOUS
<1>3. \A t \in searched : Done(t, found')
  BY DEF FoundInv
<1>4. \A t \in searched' : Done(t, found') \/ (queue' # <<>> /\ t = queue'[1][1])
  BY <1>2, <1>3
<1>5. calls' \subseteq Methods \X Methods /\ searched' \subseteq Handlers /\ s \in searched'
  BY DEF FoundInv
<1>6. \A p \in found' : p \in Paths /\ p[1] \in searched' /\ Chain(p)'
  BY <1>1 DEF FoundInv
<1> QED BY <1>1, <1>2, <1>4, <1>5, <1>6 DEF FoundInv

\* And nothing changes when nothing does.
LEMMA SearchRests == FoundInv /\ UNCHANGED pathVars => FoundInv'
<1> SUFFICES ASSUME FoundInv, UNCHANGED pathVars PROVE FoundInv'
  OBVIOUS
<1>1. UNCHANGED <<calls, searched, queue, seen, found>>
  BY DEF pathVars
<1>2. /\ \A p : Chain(p)' <=> Chain(p)
      /\ \A t, F : Done(t, F)' <=> Done(t, F)
      /\ \A t, Q, S, F : Searching(t, Q, S, F)' <=> Searching(t, Q, S, F)
  BY <1>1, SameCalls
<1>3. calls' \subseteq Methods \X Methods /\ searched' \subseteq Handlers
  BY <1>1 DEF FoundInv
<1>4. \A p \in found' : p \in Paths /\ p[1] \in searched' /\ Chain(p)'
  BY <1>1, <1>2 DEF FoundInv
<1>5. \A s \in searched' : Done(s, found') \/ (queue' # <<>> /\ s = queue'[1][1])
  BY <1>1 DEF FoundInv
<1>6. queue' # <<>> => queue'[1][1] \in searched' /\ Searching(queue'[1][1], queue', seen', found')
  BY <1>1 DEF FoundInv
<1> QED BY <1>2, <1>3, <1>4, <1>5, <1>6 DEF FoundInv


LEMMA FoundStep == FoundInv /\ [PathsNext]_pathVars => FoundInv'
<1> SUFFICES ASSUME FoundInv, [PathsNext]_pathVars PROVE FoundInv'
  OBVIOUS
<1> DEFINE s == queue[1][1]
           p == Head(queue)
<1>1. ASSUME queue # <<>>
      PROVE  Searching(s, queue, seen, found) /\ p \in Chains(s, Last(p)) /\ p \in Paths /\ Linked(p)
             /\ Len(p) \in Nat
  <2>1. Searching(s, queue, seen, found)
    BY <1>1 DEF FoundInv
  <2>2. p \in Chains(s, Last(p))
    BY <1>1, <2>1, HeadOfSearch
  <2>3. p \in Paths /\ Linked(p)
    BY <2>2 DEF Chains
  <2> QED BY <2>1, <2>2, <2>3, ChainTypes
<1>2. ASSUME NEW t \in Handlers, Start(t) PROVE FoundInv'
  <2>1. /\ queue = <<>> /\ t \notin searched /\ searched' = searched \union {t}
        /\ queue' = <<<<t>>>> /\ seen' = {t} /\ calls' = calls /\ found' = found /\ t \in Methods
    BY <1>2 DEF Start
  <2>2. \A q \in found : q[1] # t
    BY <2>1 DEF FoundInv
  <2>3. Searching(t, queue', seen', found')
    BY <2>1, <2>2, SearchBegins
  <2> QED BY <2>1, <2>3, SearchesStart
<1>3. CASE Report
  <2>1. /\ queue # <<>> /\ ~TooFar(p) /\ Last(p) \in SinkMethods /\ queue' = Tail(queue)
        /\ found' = found \union {p} /\ UNCHANGED <<calls, searched>> /\ seen' = seen
    BY <1>3 DEF Report
  <2>2. Chain(p)
    BY <1>1, <2>1 DEF Chain, Linked, TooFar
  <2>3. Searching(s, queue', seen', found')
    BY <1>1, <2>1, PathEnds
  <2> QED BY <2>1, <2>2, <2>3, SearchStep
<1>4. CASE GiveUp
  <2>1. /\ queue # <<>> /\ (TooFar(p) \/ Last(p) \in Sanitizing \ SinkMethods)
        /\ queue' = Tail(queue) /\ UNCHANGED <<calls, searched>> /\ seen' = seen /\ found' = found
    BY <1>4 DEF GiveUp
  <2>2. Searching(s, queue', seen', found')
    BY <1>1, <2>1, PathEnds DEF TooFar
  <2> QED BY <2>1, <2>2, SearchStep
<1>5. CASE Expand
  <2> DEFINE new == Callees(Last(p)) \ seen
  <2>1. /\ queue # <<>> /\ ~TooFar(p) /\ Last(p) \notin SinkMethods \union Sanitizing
        /\ UNCHANGED <<calls, searched>> /\ found' = found /\ seen' = seen \union new
    BY <1>5 DEF Expand
  <2>2. PICK o \in Orders(new) : queue' = Tail(queue) \o [i \in DOMAIN o |-> Append(p, o[i])]
    BY <1>5, Zenon DEF Expand
  <2>3. calls \subseteq Methods \X Methods /\ Len(p) =< MaxHops + 1
    BY <1>1, <2>1 DEF FoundInv, TooFar
  <2>4. Searching(s, Tail(queue) \o [i \in DOMAIN o |-> Append(p, o[i])], seen \union new, found)
    <3>1. Searching(s, queue, seen, found)
      BY <1>1, <2>1
    <3> HIDE DEF s
    <3> QED BY <2>1, <2>2, <2>3, <3>1, PathGoesOn
  <2>5. Searching(s, queue', seen', found')
    BY <2>1, <2>2, <2>4, Zenon
  <2> QED BY <2>1, <2>5, SearchStep
<1>6. CASE UNCHANGED pathVars
  BY <1>6, SearchRests
<1> QED BY <1>2, <1>3, <1>4, <1>5, <1>6 DEF PathsNext

\* When all searches are over, what was found is what there is.
LEMMA FoundIsAll == FoundInv => PathsFound
<1> SUFFICES ASSUME FoundInv PROVE PathsFound
  OBVIOUS
<1>1. OnlyChains
  BY DEF FoundInv, OnlyChains
<1>2. ASSUME queue = <<>>, NEW s \in searched, NEW m \in SinkMethods
      PROVE  LET mine == {p \in found : p[1] = s /\ Last(p) = m}
                 hops == {k \in 0 .. MaxHops : m \in Within[k][s]} IN
             IF hops = {} THEN mine = {}
             ELSE Cardinality(mine) = 1 /\ \A p \in mine, k \in hops : Len(p) - 1 \in hops /\ Len(p) - 1 =< k
  <2> DEFINE mine == {p \in found : p[1] = s /\ Last(p) = m}
             hops == {k \in 0 .. MaxHops : m \in Within[k][s]}
  <2>1. s \in Handlers /\ s \in Methods /\ m \in Methods /\ Done(s, found)
    BY <1>2 DEF FoundInv, SinkMethods
  <2>2. \A k \in 0 .. MaxHops : k \in hops <=> \E c \in Chains(s, m) : Len(c) = k + 1
    <3>1. \A k \in Nat : Within[k][s] = Ends(s, k)
      BY <2>1, WithinEnds DEF FoundInv
    <3>2. \A k \in 0 .. MaxHops : k \in hops <=> m \in Ends(s, k)
      BY <3>1
    <3> QED BY <2>1, <3>2 DEF Ends
  <2> HIDE DEF hops
  <2>3. ASSUME NEW p \in mine
        PROVE  p \in Chains(s, m) /\ Len(p) - 1 \in hops
    <3>1. p \in Paths /\ Chain(p) /\ p[1] = s /\ Last(p) = m
      BY DEF FoundInv
    <3>2. p \in Chains(s, m)
      BY <3>1 DEF Chains, Chain, Linked
    <3>3. Len(p) - 1 \in 0 .. MaxHops /\ Len(p) = (Len(p) - 1) + 1
      BY <3>1, <3>2, ChainTypes DEF Chain
    <3> QED BY <2>2, <3>2, <3>3
  <2>4. ASSUME NEW k \in hops
        PROVE  k \in 0 .. MaxHops /\ \E c \in Chains(s, m) : Len(c) = k + 1
    BY <2>2 DEF hops
  <2>5. CASE hops = {}
    BY <2>3, <2>5 DEF hops
  <2>6. CASE hops # {}
    <3>1. PICK k \in hops : TRUE
      BY <2>6
    <3>2. PICK c \in Chains(s, m) : Len(c) = k + 1 /\ k \in 0 .. MaxHops
      BY <2>4
    <3>3. ~Beyond(s, m)
      BY <3>2 DEF Beyond
    <3>4. PICK p \in mine : TRUE
      BY <2>1, <3>3 DEF Done
    <3>5. \A q, r \in mine : q = r
      BY <2>1 DEF Done
    <3>6. mine = {p}
      BY <3>4, <3>5
    <3>7. Cardinality(mine) = 1
      BY <3>6, FS_Singleton
    <3>8. ASSUME NEW q \in mine, NEW j \in hops PROVE Len(q) - 1 \in hops /\ Len(q) - 1 =< j
      <4>1. PICK d \in Chains(s, m) : Len(d) = j + 1 /\ j \in 0 .. MaxHops
        BY <2>4
      <4>2. Len(q) =< Len(d)
        <5>1. ShortestTo(s, q) /\ Last(q) = m
          BY <2>1 DEF Done
        <5> QED BY <5>1 DEF ShortestTo
      <4>3. q \in Chains(s, m) /\ Len(q) - 1 \in hops /\ Len(q) \in Nat
        BY <2>3, ChainTypes
      <4> QED BY <4>1, <4>2, <4>3
    <3> QED BY <2>6, <3>7, <3>8 DEF hops
  <2> QED BY <2>5, <2>6 DEF hops
<1> QED BY <1>1, <1>2 DEF PathsFound

\* Whatever the calls, the handlers, the sinks and the limit: a search reports each sink
\* within the limit once, by a shortest chain of calls, and nothing else.
THEOREM AllPathsFound == PathsSpec => []PathsFound
<1>1. PathsInit => FoundInv
  BY DEF PathsInit, FoundInv
<1> QED BY <1>1, FoundStep, FoundIsAll, PTL DEF PathsSpec

-----------------------------------------------------------------------------
(* Taint in a method: what is computed from place to place *)

\* A value, handed on n times, goes through n others.
Hand(T, x, F, n, g) == g \in [0 .. n -> T] /\ g[0] = x /\ \A i \in 1 .. n : g[i] = F[<<i, g[i - 1]>>]

LEMMA HandedOn ==
  ASSUME NEW T, NEW x \in T, NEW F \in [Nat \X T -> T], NEW n \in Nat
  PROVE  \E g : Hand(T, x, F, n, g)
<1> DEFINE Good(m) == \E g \in [0 .. m -> T] : g[0] = x /\ \A i \in 1 .. m : g[i] = F[<<i, g[i - 1]>>]
           Bad == {m \in Nat : ~Good(m)}
<1>1. Good(0)
  <2> DEFINE g == [i \in 0 .. 0 |-> x]
  <2>1. g \in [0 .. 0 -> T] /\ g[0] = x /\ 1 .. 0 = {}
    OBVIOUS
  <2> HIDE DEF g
  <2> QED BY <2>1
<1>2. ASSUME NEW m \in Nat \ {0}, Good(m - 1) PROVE Good(m)
  <2>1. PICK g \in [0 .. m - 1 -> T] : g[0] = x /\ \A i \in 1 .. m - 1 : g[i] = F[<<i, g[i - 1]>>]
    BY <1>2
  <2> DEFINE h == [i \in 0 .. m |-> IF i = m THEN F[<<m, g[m - 1]>>] ELSE g[i]]
  <2>2. g[m - 1] \in T
    BY <2>1
  <2>3. F[<<m, g[m - 1]>>] \in T
    BY <2>2
  <2>4. h \in [0 .. m -> T]
    BY <2>1, <2>3
  <2>5. h[0] = x
    BY <2>1
  <2>6. \A i \in 1 .. m : h[i] = F[<<i, h[i - 1]>>]
    <3> SUFFICES ASSUME NEW i \in 1 .. m PROVE h[i] = F[<<i, h[i - 1]>>]
      OBVIOUS
    <3>1. h[i - 1] = g[i - 1]
      OBVIOUS
    <3>2. CASE i = m
      <4>1. h[i] = F[<<m, g[m - 1]>>]
        BY <3>2
      <4> HIDE DEF h
      <4> QED BY <3>1, <3>2, <4>1
    <3>3. CASE i # m
      BY <2>1, <3>1, <3>3
    <3> QED BY <3>2, <3>3
  <2> HIDE DEF h
  <2> QED BY <2>4, <2>5, <2>6
<1> HIDE DEF Good
<1>3. Bad = {}
  <2> SUFFICES ASSUME Bad # {} PROVE FALSE
    OBVIOUS
  <2>1. PICK m \in Bad : \A k \in Bad : m =< k
    <3>1. Bad \subseteq Nat
      OBVIOUS
    <3> HIDE DEF Bad
    <3> QED BY <3>1, LeastExists
  <2>2. m \in Nat \ {0}
    BY <1>1
  <2>3. m - 1 \in Nat /\ m - 1 \notin Bad
    BY <2>1, <2>2
  <2>4. Good(m - 1)
    BY <2>3
  <2> QED BY <1>2, <2>2, <2>4
<1>4. Good(n)
  BY <1>3
<1> QED BY <1>4 DEF Good, Hand

\* DefsIn is the function it is defined to be.
LEMMA DefsInIs ==
  ASSUME NEW b, Len(Stmts(b)) \in Nat
  PROVE  /\ DefsIn(b)[0] = MergeIn(b)
         /\ \A i \in 1 .. Len(Stmts(b)) : DefsIn(b)[i] = Through(DefsIn(b)[i - 1], Stmts(b)[i])
<1> DEFINE n == Len(Stmts(b))
           made == UNION {{<<v, Stmts(b)[i].id>> : v \in Stmts(b)[i].writes} : i \in 1 .. n}
           T == SUBSET (MergeIn(b) \union made)
           F == [p \in Nat \X T |-> IF p[1] \in 1 .. n THEN Through(p[2], Stmts(b)[p[1]]) ELSE p[2]]
<1>1. MergeIn(b) \in T
  OBVIOUS
<1>2. ASSUME NEW i \in 1 .. n, NEW S \in T PROVE Through(S, Stmts(b)[i]) \in T
  BY DEF Through
<1>3. F \in [Nat \X T -> T]
  <2> HIDE DEF T
  <2>1. ASSUME NEW p \in Nat \X T
        PROVE  (IF p[1] \in 1 .. n THEN Through(p[2], Stmts(b)[p[1]]) ELSE p[2]) \in T
    BY <1>2
  <2> QED BY <2>1
<1>4. \A i \in 1 .. n, S \in T : F[<<i, S>>] = Through(S, Stmts(b)[i])
  <2> HIDE DEF T
  <2> QED OBVIOUS
<1> HIDE DEF T, F
<1>5. PICK g : Hand(T, MergeIn(b), F, n, g)
  <2>1. n \in Nat
    OBVIOUS
  <2> HIDE DEF n
  <2> QED BY <1>1, <1>3, <2>1, HandedOn, Zenon
<1>6. \A i \in 1 .. n : g[i] = Through(g[i - 1], Stmts(b)[i])
  <2> SUFFICES ASSUME NEW i \in 1 .. n PROVE g[i] = Through(g[i - 1], Stmts(b)[i])
    OBVIOUS
  <2>1. g[i - 1] \in T
    BY <1>5 DEF Hand
  <2>2. g[i] = F[<<i, g[i - 1]>>]
    BY <1>5 DEF Hand
  <2> QED BY <1>4, <2>1, <2>2, Zenon
<1>7. g = [i \in 0 .. Len(Stmts(b)) |-> IF i = 0 THEN MergeIn(b) ELSE Through(g[i - 1], Stmts(b)[i])]
  <2>1. \A i \in 0 .. n : g[i] = IF i = 0 THEN MergeIn(b) ELSE Through(g[i - 1], Stmts(b)[i])
    BY <1>5, <1>6 DEF Hand
  <2>2. g = [i \in 0 .. n |-> g[i]]
    BY <1>5 DEF Hand
  <2> QED BY <2>1, <2>2
<1>8. DefsIn(b) = [i \in 0 .. Len(Stmts(b)) |-> IF i = 0 THEN MergeIn(b) ELSE Through(DefsIn(b)[i - 1], Stmts(b)[i])]
  BY <1>7, Zenon DEF DefsIn
<1> DEFINE W == DefsIn(b)
<1>9. W[0] = MergeIn(b)
  BY <1>8
<1>10. \A i \in 1 .. n : W[i] = Through(W[i - 1], Stmts(b)[i])
  BY <1>8
<1> QED BY <1>9, <1>10

\* So is SpreadIn.
LEMMA SpreadInIs ==
  ASSUME NEW b, Len(Stmts(b)) \in Nat
  PROVE  /\ SpreadIn(b)[0] = tainted
         /\ \A i \in 1 .. Len(Stmts(b)) : SpreadIn(b)[i] = Spread(SpreadIn(b)[i - 1], b, i)
<1> DEFINE n == Len(Stmts(b))
           T == SUBSET (tainted \union {Stmts(b)[i].id : i \in 1 .. n})
           F == [p \in Nat \X T |-> IF p[1] \in 1 .. n THEN Spread(p[2], b, p[1]) ELSE p[2]]
<1>1. tainted \in T
  OBVIOUS
<1>2. ASSUME NEW i \in 1 .. n, NEW S \in T PROVE Spread(S, b, i) \in T
  <2>1. Spread(S, b, i) \subseteq S \union {Stmts(b)[i].id}
    BY DEF Spread
  <2> QED BY <2>1
<1>3. F \in [Nat \X T -> T]
  <2> HIDE DEF T
  <2>1. ASSUME NEW p \in Nat \X T
        PROVE  (IF p[1] \in 1 .. n THEN Spread(p[2], b, p[1]) ELSE p[2]) \in T
    BY <1>2
  <2> QED BY <2>1
<1>4. \A i \in 1 .. n, S \in T : F[<<i, S>>] = Spread(S, b, i)
  <2> HIDE DEF T
  <2> QED OBVIOUS
<1> HIDE DEF T, F
<1>5. PICK g : Hand(T, tainted, F, n, g)
  <2>1. n \in Nat
    OBVIOUS
  <2> HIDE DEF n
  <2> QED BY <1>1, <1>3, <2>1, HandedOn, Zenon
<1>6. \A i \in 1 .. n : g[i] = Spread(g[i - 1], b, i)
  <2> SUFFICES ASSUME NEW i \in 1 .. n PROVE g[i] = Spread(g[i - 1], b, i)
    OBVIOUS
  <2>1. g[i - 1] \in T
    BY <1>5 DEF Hand
  <2>2. g[i] = F[<<i, g[i - 1]>>]
    BY <1>5 DEF Hand
  <2> QED BY <1>4, <2>1, <2>2, Zenon
<1>7. g = [i \in 0 .. Len(Stmts(b)) |-> IF i = 0 THEN tainted ELSE Spread(g[i - 1], b, i)]
  <2>1. \A i \in 0 .. n : g[i] = IF i = 0 THEN tainted ELSE Spread(g[i - 1], b, i)
    BY <1>5, <1>6 DEF Hand
  <2>2. g = [i \in 0 .. n |-> g[i]]
    BY <1>5 DEF Hand
  <2> QED BY <2>1, <2>2
<1>8. SpreadIn(b) = [i \in 0 .. Len(Stmts(b)) |-> IF i = 0 THEN tainted ELSE Spread(SpreadIn(b)[i - 1], b, i)]
  BY <1>7, Zenon DEF SpreadIn
<1> DEFINE W == SpreadIn(b)
<1>9. W[0] = tainted
  BY <1>8
<1>10. \A i \in 1 .. n : W[i] = Spread(W[i - 1], b, i)
  BY <1>8
<1> QED BY <1>9, <1>10

\* What neither graph nor definitions have changed is the same in the next state.
LEMMA DefsStay == ASSUME UNCHANGED <<cfg, out>>, NEW b PROVE DefsIn(b)' = DefsIn(b)
  BY DEF DefsIn, MergeIn, Through, Stmts, CfgEdges

LEMMA CarriedStays ==
  ASSUME UNCHANGED <<cfg, order>>
  PROVE  /\ \A d, p : Carried(d, p)' <=> Carried(d, p)
         /\ \A id : Traced(id)' <=> Traced(id)
         /\ FlowGraph' <=> FlowGraph
<1>1. /\ CfgEdges' = CfgEdges /\ Ordered' = Ordered /\ Places' = Places
      /\ \A b : Stmts(b)' = Stmts(b)
  BY DEF CfgEdges, Ordered, Places, Stmts
<1>2. \A d, p : Carried(d, p)' <=> Carried(d, p)
  <2>1. \A d, p : MadeAt(d, p)' <=> MadeAt(d, p)
    BY <1>1 DEF MadeAt
  <2>2. \A v, p, q : Clear(v, p, q)' <=> Clear(v, p, q)
    BY <1>1 DEF Clear
  <2> QED BY <1>1, <2>1, <2>2, Zenon DEF Carried
<1>3. \A id, b, i : Hands(id, b, i)' <=> Hands(id, b, i)
  BY <1>1, <1>2 DEF Hands
<1>4. \A id : Traced(id)' <=> Traced(id)
  BY <1>1, <1>3 DEF Traced
<1>5. FlowGraph' <=> FlowGraph
  BY <1>1 DEF FlowGraph
<1> QED BY <1>2, <1>4, <1>5

-----------------------------------------------------------------------------
(* Ways and the definitions they carry *)

LEMMA WayStarts ==
  ASSUME NEW d, NEW p \in Places, MadeAt(d, p) PROVE Carried(d, p)
<1> DEFINE w == <<p>>
<1>1. w \in Seq(Places) \ {<<>>} /\ w[1] = p /\ Len(w) = 1
  OBVIOUS
<1>2. 1 .. Len(w) - 1 = {}
  BY <1>1
<1> HIDE DEF w
<1> QED BY <1>1, <1>2 DEF Carried

LEMMA WayGoesOn ==
  ASSUME NEW d, NEW p, Carried(d, p), NEW q \in Places, Clear(d[1], p, q)
  PROVE  Carried(d, q)
<1>1. PICK w \in Seq(Places) \ {<<>>} :
        /\ MadeAt(d, w[1]) /\ w[Len(w)] = p
        /\ \A k \in 1 .. Len(w) - 1 : Clear(d[1], w[k], w[k + 1])
  BY DEF Carried
<1> DEFINE z == Append(w, q)
<1>2. /\ Len(w) \in Nat \ {0} /\ Len(z) = Len(w) + 1 /\ z \in Seq(Places) \ {<<>>}
      /\ z[Len(z)] = q /\ \A k \in 1 .. Len(w) : z[k] = w[k]
  BY <1>1
<1> HIDE DEF z
<1>3. ASSUME NEW k \in 1 .. Len(z) - 1 PROVE Clear(d[1], z[k], z[k + 1])
  <2>1. CASE k = Len(w)
    BY <1>1, <1>2, <2>1
  <2>2. CASE k # Len(w)
    <3>1. k \in 1 .. Len(w) - 1 /\ k + 1 \in 1 .. Len(w)
      BY <1>2, <2>2
    <3> QED BY <1>1, <1>2, <3>1
  <2> QED BY <2>1, <2>2
<1>4. MadeAt(d, z[1])
  BY <1>1, <1>2
<1> QED BY <1>2, <1>3, <1>4 DEF Carried

\* A definition is a pair.
LEMMA DefIsPair ==
  ASSUME NEW d, NEW p, Carried(d, p) PROVE d = <<d[1], d[2]>>
<1>1. \E q : MadeAt(d, q)
  BY DEF Carried
<1> QED BY <1>1 DEF MadeAt

\* What leaves the blocks came by some way, and what the blocks before have
\* not let out yet is not lost: the two halves of what a pass keeps.
CameByWays == \A b \in DOMAIN out : b \in Ordered /\ \A d \in out[b] : Carried(d, <<b, Len(Stmts(b))>>)
Fixed(b) == b \in DOMAIN out /\ out[b] = DefsIn(b)[Len(Stmts(b))]

LEMMA DefsSound ==
  ASSUME FlowGraph, CameByWays, NEW b \in Ordered
  PROVE  \A i \in 0 .. Len(Stmts(b)) : \A d \in DefsIn(b)[i] : Carried(d, <<b, i>>)
<1>0. Len(Stmts(b)) \in Nat
  BY DEF FlowGraph
<1>1. /\ DefsIn(b)[0] = MergeIn(b)
      /\ \A i \in 1 .. Len(Stmts(b)) : DefsIn(b)[i] = Through(DefsIn(b)[i - 1], Stmts(b)[i])
  BY <1>0, DefsInIs
<1> DEFINE Bad == {i \in 0 .. Len(Stmts(b)) : \E d \in DefsIn(b)[i] : ~Carried(d, <<b, i>>)}
<1>2. \A i \in 0 .. Len(Stmts(b)) : <<b, i>> \in Places
  BY <1>0 DEF Places
<1>3. \A d \in MergeIn(b) : Carried(d, <<b, 0>>)
  <2> SUFFICES ASSUME NEW d \in MergeIn(b) PROVE Carried(d, <<b, 0>>)
    OBVIOUS
  <2>1. <<b, 0>> \in Places
    BY <1>0, <1>2
  <2>2. CASE b = 1 /\ \E v \in Params : d = <<v, 0>>
    <3>1. MadeAt(d, <<b, 0>>)
      BY <2>2 DEF MadeAt
    <3> QED BY <2>1, <3>1, WayStarts
  <2>3. ASSUME NEW e \in CfgEdges, e[2] = b, e[1] \in DOMAIN out, d \in out[e[1]]
        PROVE  Carried(d, <<b, 0>>)
    <3>1. Carried(d, <<e[1], Len(Stmts(e[1]))>>)
      BY <2>3 DEF CameByWays
    <3>2. Clear(d[1], <<e[1], Len(Stmts(e[1]))>>, <<b, 0>>)
      BY <2>3 DEF Clear
    <3> QED BY <2>1, <3>1, <3>2, WayGoesOn
  <2> QED BY <2>2, <2>3 DEF MergeIn
<1>4. ASSUME NEW i \in 1 .. Len(Stmts(b)), NEW d \in DefsIn(b)[i],
             \A c \in DefsIn(b)[i - 1] : Carried(c, <<b, i - 1>>)
      PROVE  Carried(d, <<b, i>>)
  <2>0. <<b, i>> \in Places /\ i \in Nat
    BY <1>0, <1>2
  <2>1. CASE d \in DefsIn(b)[i - 1] /\ d[1] \notin Stmts(b)[i].writes
    <3>1. Carried(d, <<b, i - 1>>)
      BY <1>4, <2>1
    <3>2. Clear(d[1], <<b, i - 1>>, <<b, i>>)
      <4>1. (i - 1) + 1 = i
        BY <2>0
      <4> QED BY <2>1, <4>1 DEF Clear
    <3> QED BY <2>0, <3>1, <3>2, WayGoesOn
  <2>2. CASE \E v \in Stmts(b)[i].writes : d = <<v, Stmts(b)[i].id>>
    <3>1. MadeAt(d, <<b, i>>)
      BY <2>2 DEF MadeAt
    <3> QED BY <2>0, <3>1, WayStarts
  <2>3. DefsIn(b)[i] = Through(DefsIn(b)[i - 1], Stmts(b)[i])
    BY <1>1
  <2> QED BY <1>4, <2>1, <2>2, <2>3 DEF Through
<1>5. Bad = {}
  <2> SUFFICES ASSUME Bad # {} PROVE FALSE
    OBVIOUS
  <2>1. PICK i \in Bad : \A j \in Bad : i =< j
    <3>1. Bad \subseteq Nat
      BY <1>0
    <3> HIDE DEF Bad
    <3> QED BY <3>1, LeastExists
  <2>2. i # 0 /\ i \in 0 .. Len(Stmts(b))
    BY <1>1, <1>3
  <2>3. i \in 1 .. Len(Stmts(b)) /\ i - 1 \in 0 .. Len(Stmts(b)) /\ ~(i =< i - 1)
    BY <1>0, <2>2
  <2>4. i - 1 \notin Bad
    BY <2>1, <2>3
  <2>5. \A c \in DefsIn(b)[i - 1] : Carried(c, <<b, i - 1>>)
    BY <2>3, <2>4
  <2> QED BY <1>4, <2>3, <2>5
<1> QED BY <1>5

LEMMA DefsComplete ==
  ASSUME FlowGraph, \A b \in Ordered : Fixed(b), NEW d, NEW p, Carried(d, p)
  PROVE  p[1] \in Ordered /\ p[2] \in 0 .. Len(Stmts(p[1])) /\ d \in DefsIn(p[1])[p[2]]
<1> DEFINE Holds(q) == q[1] \in Ordered /\ q[2] \in 0 .. Len(Stmts(q[1])) /\ d \in DefsIn(q[1])[q[2]]
<1>1. PICK w \in Seq(Places) \ {<<>>} :
        /\ MadeAt(d, w[1]) /\ w[Len(w)] = p
        /\ \A k \in 1 .. Len(w) - 1 : Clear(d[1], w[k], w[k + 1])
  BY DEF Carried
<1>2. Len(w) \in Nat \ {0} /\ \A k \in 1 .. Len(w) : w[k] \in Places
  BY <1>1
<1>3. \A b \in Ordered :
        /\ Len(Stmts(b)) \in Nat /\ DefsIn(b)[0] = MergeIn(b)
        /\ \A i \in 1 .. Len(Stmts(b)) : DefsIn(b)[i] = Through(DefsIn(b)[i - 1], Stmts(b)[i])
  <2>1. \A b \in Ordered : Len(Stmts(b)) \in Nat
    BY DEF FlowGraph
  <2> QED BY <2>1, DefsInIs
<1>4. \A q \in Places : q[1] \in Ordered /\ q[2] \in Nat /\ q = <<q[1], q[2]>>
  BY DEF Places
<1>5. Holds(w[1])
  <2> DEFINE q == w[1]
  <2> SUFFICES Holds(q)
    OBVIOUS
  <2>1. q \in Places /\ MadeAt(d, q)
    BY <1>1, <1>2
  <2> HIDE DEF q
  <2>2. CASE q = <<1, 0>> /\ \E v \in Params : d = <<v, 0>>
    <3>1. 1 \in Ordered /\ Len(Stmts(1)) \in Nat
      BY <1>3 DEF FlowGraph
    <3>2. d \in MergeIn(1)
      BY <2>2 DEF MergeIn
    <3>3. q[1] = 1 /\ q[2] = 0
      BY <2>2
    <3> QED BY <1>3, <3>1, <3>2, <3>3
  <2>3. CASE q[2] \in 1 .. Len(Stmts(q[1])) /\ \E v \in Stmts(q[1])[q[2]].writes : d = <<v, Stmts(q[1])[q[2]].id>>
    <3>1. d \in Through(DefsIn(q[1])[q[2] - 1], Stmts(q[1])[q[2]])
      BY <2>3 DEF Through
    <3>2. q[1] \in Ordered
      BY <1>4, <2>1
    <3>3. d \in DefsIn(q[1])[q[2]]
      BY <1>3, <2>3, <3>1, <3>2
    <3>4. q[2] \in 0 .. Len(Stmts(q[1]))
      BY <1>3, <2>3, <3>2
    <3> QED BY <3>2, <3>3, <3>4
  <2> QED BY <2>1, <2>2, <2>3 DEF MadeAt
<1>6. ASSUME NEW q \in Places, NEW r \in Places, Holds(q), Clear(d[1], q, r) PROVE Holds(r)
  <2>0. q[1] \in Ordered /\ r[1] \in Ordered /\ q[2] \in Nat /\ r[2] \in Nat /\ Len(Stmts(q[1])) \in Nat /\ Len(Stmts(r[1])) \in Nat
    BY <1>3, <1>4
  <2>1. CASE /\ r = <<q[1], q[2] + 1>> /\ r[2] \in 1 .. Len(Stmts(r[1]))
             /\ d[1] \notin Stmts(r[1])[r[2]].writes
    <3>1. r[1] = q[1] /\ r[2] - 1 = q[2]
      BY <2>0, <2>1
    <3>2. DefsIn(r[1])[r[2]] = Through(DefsIn(r[1])[r[2] - 1], Stmts(r[1])[r[2]])
      BY <1>3, <2>0, <2>1
    <3>3. d \in DefsIn(r[1])[r[2]]
      BY <1>6, <2>1, <3>1, <3>2 DEF Through
    <3>4. r[2] \in 0 .. Len(Stmts(r[1]))
      BY <2>0, <2>1
    <3> QED BY <2>0, <3>3, <3>4
  <2>2. CASE /\ q[2] = Len(Stmts(q[1])) /\ r[2] = 0
             /\ \E e \in CfgEdges : e[1] = q[1] /\ e[2] = r[1]
    <3>1. q[1] \in DOMAIN out /\ d \in out[q[1]]
      BY <1>6, <2>0, <2>2 DEF Fixed
    <3>2. d \in MergeIn(r[1])
      BY <2>2, <3>1 DEF MergeIn
    <3> QED BY <1>3, <2>0, <2>2, <3>2
  <2> QED BY <1>6, <2>1, <2>2 DEF Clear
<1> DEFINE Bad == {k \in 1 .. Len(w) : ~Holds(w[k])}
<1> HIDE DEF Holds
<1>7. Bad = {}
  <2> SUFFICES ASSUME Bad # {} PROVE FALSE
    OBVIOUS
  <2>1. PICK k \in Bad : \A j \in Bad : k =< j
    <3>1. Bad \subseteq Nat
      BY <1>2
    <3> HIDE DEF Bad
    <3> QED BY <3>1, LeastExists
  <2>2. k \in 1 .. Len(w) /\ k # 1
    BY <1>5
  <2>3. k - 1 \in 1 .. Len(w) - 1 /\ k - 1 \in 1 .. Len(w) /\ ~(k =< k - 1) /\ (k - 1) + 1 = k
    BY <1>2, <2>2
  <2>4. k - 1 \notin Bad
    BY <2>1, <2>3
  <2>5. Holds(w[k - 1])
    BY <2>3, <2>4
  <2>6. Clear(d[1], w[k - 1], w[k])
    BY <1>1, <2>3
  <2>7. Holds(w[k])
    BY <1>2, <1>6, <2>2, <2>3, <2>5, <2>6
  <2> QED BY <2>1, <2>7
<1>8. Holds(p)
  BY <1>1, <1>2, <1>7
<1> QED BY <1>8 DEF Holds

-----------------------------------------------------------------------------
(* Chains and the taint they hand on *)

LEMMA ParametersTraced == Traced(0)
<1> DEFINE c == <<0>>
<1>1. c \in Seq(Nat) \ {<<>>} /\ c[1] = 0 /\ Len(c) = 1
  OBVIOUS
<1>2. 1 .. Len(c) - 1 = {}
  BY <1>1
<1> HIDE DEF c
<1> QED BY <1>1, <1>2 DEF Traced

LEMMA TracedIsNat == ASSUME NEW id, Traced(id) PROVE id \in Nat
  BY DEF Traced

LEMMA ChainGoesOn ==
  ASSUME NEW id, Traced(id), NEW b \in Ordered, NEW i \in 1 .. Len(Stmts(b)), Hands(id, b, i),
         Stmts(b)[i].id \in Nat
  PROVE  Traced(Stmts(b)[i].id)
<1>1. PICK c \in Seq(Nat) \ {<<>>} :
        /\ c[1] = 0 /\ c[Len(c)] = id
        /\ \A k \in 1 .. Len(c) - 1 :
             \E x \in Ordered : \E j \in 1 .. Len(Stmts(x)) : Stmts(x)[j].id = c[k + 1] /\ Hands(c[k], x, j)
  BY DEF Traced
<1> DEFINE z == Append(c, Stmts(b)[i].id)
<1>2. /\ Len(c) \in Nat \ {0} /\ Len(z) = Len(c) + 1 /\ z \in Seq(Nat) \ {<<>>}
      /\ z[Len(z)] = Stmts(b)[i].id /\ \A k \in 1 .. Len(c) : z[k] = c[k]
  <2>1. c \in Seq(Nat) /\ Len(c) \in Nat \ {0}
    OBVIOUS
  <2>2. /\ z \in Seq(Nat) /\ z # <<>> /\ Len(z) = Len(c) + 1
        /\ \A k \in 1 .. Len(c) : z[k] = c[k]
        /\ z[Len(c) + 1] = Stmts(b)[i].id
    BY <2>1, AppendProperties
  <2> HIDE DEF z
  <2> QED BY <2>1, <2>2
<1> HIDE DEF z
<1>3. ASSUME NEW k \in 1 .. Len(z) - 1
      PROVE  \E x \in Ordered : \E j \in 1 .. Len(Stmts(x)) : Stmts(x)[j].id = z[k + 1] /\ Hands(z[k], x, j)
  <2>1. CASE k = Len(c)
    <3>1. z[k + 1] = Stmts(b)[i].id /\ z[k] = id
      BY <1>1, <1>2, <2>1
    <3> QED BY <3>1
  <2>2. CASE k # Len(c)
    <3>0. k \in 1 .. Len(c) - 1 /\ k \in 1 .. Len(c) /\ k + 1 \in 1 .. Len(c)
      <4>1. Len(c) \in Nat \ {0} /\ Len(z) = Len(c) + 1 /\ k \in 1 .. Len(z) - 1 /\ k # Len(c)
        BY <1>2, <2>2
      <4> QED BY <4>1
    <3>1. z[k] = c[k] /\ z[k + 1] = c[k + 1]
      BY <1>2, <3>0
    <3> QED BY <1>1, <3>0, <3>1
  <2> QED BY <2>1, <2>2
<1>4. z[1] = 0
  <2>1. 1 \in 1 .. Len(c) /\ c[1] = 0
    BY <1>1, <1>2
  <2>2. \A k \in 1 .. Len(c) : z[k] = c[k]
    BY <1>2
  <2> QED BY <2>1, <2>2
<1> QED BY <1>2, <1>3, <1>4 DEF Traced

\* The taint of a statement is what a chain hands on to it.
LEMMA TaintedInSound ==
  ASSUME FlowGraph, CameByWays, NEW b \in Ordered, NEW i \in 1 .. Len(Stmts(b)), NEW vars, NEW ids,
         \A id \in ids : Traced(id), TaintedIn(b, i, vars, ids)
  PROVE  \E v \in vars, id \in Nat : Traced(id) /\ Carried(<<v, id>>, <<b, i - 1>>)
<1>1. PICK d \in DefsIn(b)[i - 1] : d[1] \in vars /\ d[2] \in ids
  BY DEF TaintedIn
<1>2. i - 1 \in 0 .. Len(Stmts(b))
  BY DEF FlowGraph
<1>3. Carried(d, <<b, i - 1>>)
  BY <1>1, <1>2, DefsSound
<1>4. Carried(<<d[1], d[2]>>, <<b, i - 1>>)
  BY <1>3, DefIsPair
<1>5. d[2] \in Nat /\ Traced(d[2])
  BY <1>1, TracedIsNat
<1> QED BY <1>1, <1>4, <1>5

LEMMA SpreadSound ==
  ASSUME FlowGraph, CameByWays, NEW b \in Ordered, \A id \in tainted : Traced(id)
  PROVE  \A i \in 0 .. Len(Stmts(b)) : \A id \in SpreadIn(b)[i] : Traced(id)
<1>0. Len(Stmts(b)) \in Nat /\ \A i \in 1 .. Len(Stmts(b)) : Stmts(b)[i].id \in Nat
  BY DEF FlowGraph
<1>1. /\ SpreadIn(b)[0] = tainted
      /\ \A i \in 1 .. Len(Stmts(b)) : SpreadIn(b)[i] = Spread(SpreadIn(b)[i - 1], b, i)
  BY <1>0, SpreadInIs
<1> DEFINE Bad == {i \in 0 .. Len(Stmts(b)) : \E id \in SpreadIn(b)[i] : ~Traced(id)}
<1>2. ASSUME NEW i \in 1 .. Len(Stmts(b)), \A id \in SpreadIn(b)[i - 1] : Traced(id),
             NEW id \in SpreadIn(b)[i]
      PROVE  Traced(id)
  <2> DEFINE s == Stmts(b)[i]
             old == SpreadIn(b)[i - 1]
  <2>1. id \in Spread(old, b, i)
    BY <1>1
  <2>2. CASE id \in old
    BY <1>2, <2>2
  <2>3. CASE id = s.id /\ s.writes # {} /\ s.call # "sanitizer" /\ TaintedIn(b, i, s.reads \union s.args, old)
    <3>1. PICK v \in s.reads \union s.args, from \in Nat : Traced(from) /\ Carried(<<v, from>>, <<b, i - 1>>)
      <4> HIDE DEF old, s
      <4> QED BY <1>2, <2>3, TaintedInSound DEF old
    <3>2. Hands(from, b, i)
      BY <2>3, <3>1 DEF Hands
    <3> QED BY <1>0, <2>3, <3>1, <3>2, ChainGoesOn
  <2> QED BY <2>1, <2>2, <2>3 DEF Spread
<1>3. Bad = {}
  <2> SUFFICES ASSUME Bad # {} PROVE FALSE
    OBVIOUS
  <2>1. PICK i \in Bad : \A j \in Bad : i =< j
    <3>1. Bad \subseteq Nat
      BY <1>0
    <3> HIDE DEF Bad
    <3> QED BY <3>1, LeastExists
  <2>2. i # 0 /\ i \in 0 .. Len(Stmts(b))
    BY <1>1
  <2>3. i \in 1 .. Len(Stmts(b)) /\ i - 1 \in 0 .. Len(Stmts(b)) /\ ~(i =< i - 1)
    BY <1>0, <2>2
  <2>4. i - 1 \notin Bad
    BY <2>1, <2>3
  <2>5. \A id \in SpreadIn(b)[i - 1] : Traced(id)
    BY <2>3, <2>4
  <2> QED BY <1>2, <2>3, <2>5
<1> QED BY <1>3

\* Taint only grows, so a block that adds none adds none at any statement.
Closed(b) == \A i \in 1 .. Len(Stmts(b)) : Spread(tainted, b, i) = tainted

LEMMA SpreadGrows ==
  ASSUME NEW b, Len(Stmts(b)) \in Nat
  PROVE  /\ \A i \in 0 .. Len(Stmts(b)) : tainted \subseteq SpreadIn(b)[i] /\ SpreadIn(b)[i] \subseteq SpreadIn(b)[Len(Stmts(b))]
         /\ SpreadIn(b)[Len(Stmts(b))] = tainted => Closed(b)
<1> DEFINE n == Len(Stmts(b))
           S == SpreadIn(b)
<1>1. S[0] = tainted /\ \A i \in 1 .. n : S[i] = Spread(S[i - 1], b, i)
  BY SpreadInIs
<1>2. \A i \in 1 .. n : S[i - 1] \subseteq S[i]
  <2> SUFFICES ASSUME NEW i \in 1 .. n PROVE S[i - 1] \subseteq S[i]
    OBVIOUS
  <2>1. S[i] = Spread(S[i - 1], b, i)
    BY <1>1
  <2> HIDE DEF S
  <2> QED BY <2>1 DEF Spread
<1>3. n \in Nat
  OBVIOUS
<1> HIDE DEF n, S
<1>4. \A i \in 0 .. n : tainted \subseteq S[i]
  <2> DEFINE Bad == {i \in 0 .. n : ~(tainted \subseteq S[i])}
  <2> SUFFICES ASSUME Bad # {} PROVE FALSE
    OBVIOUS
  <2>1. PICK i \in Bad : \A j \in Bad : i =< j
    <3>1. Bad \subseteq Nat
      BY <1>3
    <3> HIDE DEF Bad
    <3> QED BY <3>1, LeastExists
  <2>2. i # 0 /\ i \in 0 .. n
    BY <1>1
  <2>3. i \in 1 .. n /\ i - 1 \in 0 .. n /\ ~(i =< i - 1)
    BY <1>3, <2>2
  <2>4. i - 1 \notin Bad
    BY <2>1, <2>3
  <2> QED BY <1>2, <2>3, <2>4
<1>5. \A i \in 0 .. n : S[i] \subseteq S[n]
  <2> DEFINE Bad == {i \in 0 .. n : ~(S[n - i] \subseteq S[n])}
  <2>1. Bad = {}
    <3> SUFFICES ASSUME Bad # {} PROVE FALSE
      OBVIOUS
    <3>1. PICK i \in Bad : \A j \in Bad : i =< j
      <4>1. Bad \subseteq Nat
        BY <1>3
      <4> HIDE DEF Bad
      <4> QED BY <4>1, LeastExists
    <3>2. i # 0 /\ i \in 0 .. n
      BY <1>3
    <3>3. i \in 1 .. n /\ i - 1 \in 0 .. n /\ ~(i =< i - 1) /\ n - (i - 1) \in 1 .. n /\ (n - (i - 1)) - 1 = n - i
      BY <1>3, <3>2
    <3>4. i - 1 \notin Bad
      BY <3>1, <3>3
    <3>5. S[n - i] \subseteq S[n - (i - 1)]
      BY <1>2, <3>3
    <3> QED BY <3>3, <3>4, <3>5
  <2> SUFFICES ASSUME NEW i \in 0 .. n PROVE S[i] \subseteq S[n]
    OBVIOUS
  <2>2. n - i \in 0 .. n /\ n - (n - i) = i
    BY <1>3
  <2>3. S[n - (n - i)] \subseteq S[n]
    BY <2>1, <2>2
  <2> QED BY <2>2, <2>3
<1>6. ASSUME S[n] = tainted PROVE Closed(b)
  <2>1. \A i \in 0 .. n : S[i] = tainted
    BY <1>4, <1>5, <1>6
  <2>2. ASSUME NEW i \in 1 .. n PROVE Spread(tainted, b, i) = tainted
    <3>1. i - 1 \in 0 .. n /\ i \in 0 .. n
      BY <1>3
    <3>2. S[i - 1] = tainted /\ S[i] = tainted
      BY <2>1, <3>1
    <3> QED BY <1>1, <3>2
  <2> QED BY <2>2 DEF Closed, n
<1> QED BY <1>4, <1>5, <1>6 DEF n, S

-----------------------------------------------------------------------------
(* The passes *)

\* What a pass that has changed nothing so far has looked at is as it should be.
PassInv ==
  /\ FlowGraph /\ CameByWays /\ 0 \in tainted /\ \A id \in tainted : Traced(id)
  /\ stage \in {"reaching", "taint", "classify"} /\ changed \in BOOLEAN /\ block \in 1 .. Len(order) + 1
  /\ out = [b \in DOMAIN out |-> out[b]]
  /\ stage = "reaching" /\ ~changed => \A j \in 1 .. block - 1 : Fixed(order[j])
  /\ stage # "reaching" => \A b \in Ordered : Fixed(b)
  /\ stage = "taint" /\ ~changed => \A j \in 1 .. block - 1 : Closed(order[j])
  /\ stage = "classify" => \A b \in Ordered : Closed(b)

LEMMA PassInitInv == PassInit => PassInv
<1> SUFFICES ASSUME PassInit PROVE PassInv
  OBVIOUS
<1>1. FlowGraph /\ tainted = {0} /\ stage = "reaching" /\ changed = FALSE /\ block = 1 /\ DOMAIN out = {}
  BY DEF PassInit
<1>2. Len(order) \in Nat
  BY <1>1 DEF FlowGraph
<1>3. CameByWays
  BY <1>1 DEF CameByWays
<1>4. out = [b \in DOMAIN out |-> out[b]]
  BY DEF PassInit
<1>5. block \in 1 .. Len(order) + 1 /\ 1 .. block - 1 = {}
  BY <1>1, <1>2
<1> QED BY <1>1, <1>3, <1>4, <1>5, ParametersTraced DEF PassInv

\* What a step leaves alone of what was settled.
LEMMA SettledStays ==
  ASSUME UNCHANGED <<cfg, order, out>>
  PROVE  /\ \A b : Fixed(b)' <=> Fixed(b)
         /\ CameByWays' <=> CameByWays
         /\ tainted' = tainted => \A b : Closed(b)' <=> Closed(b)
<1>1. \A b : DefsIn(b)' = DefsIn(b)
  BY DefsStay
<1>2. /\ \A b : Stmts(b)' = Stmts(b)
      /\ Ordered' = Ordered
  BY DEF Stmts, Ordered
<1>3. \A b : Fixed(b)' <=> Fixed(b)
  BY <1>1, <1>2 DEF Fixed
<1>4. CameByWays' <=> CameByWays
  BY <1>2, CarriedStays DEF CameByWays
<1>5. \A b, i, vars, ids : TaintedIn(b, i, vars, ids)' <=> TaintedIn(b, i, vars, ids)
  BY <1>1 DEF TaintedIn
<1>6. ASSUME tainted' = tainted, NEW b PROVE Closed(b)' <=> Closed(b)
  <2>1. \A i : Spread(tainted, b, i)' = Spread(tainted, b, i)
    BY <1>2, <1>5, <1>6 DEF Spread
  <2> QED BY <1>2, <1>6, <2>1 DEF Closed
<1> QED BY <1>3, <1>4, <1>6

LEMMA ReachKeeps == ASSUME PassInv, ReachBlock PROVE PassInv'
<1> DEFINE b == order[block]
           new == DefsIn(b)[Len(Stmts(b))]
<1>1. /\ FlowGraph /\ CameByWays /\ stage = "reaching" /\ stage' = stage /\ block' = block + 1
      /\ UNCHANGED <<cfg, order, tainted, stage>> /\ changed \in BOOLEAN /\ Len(order) \in Nat
      /\ block \in 1 .. Len(order)
      /\ out' = [x \in DOMAIN out \union {b} |-> IF x = b THEN new ELSE out[x]]
      /\ changed' = (changed \/ out' # out)
  BY DEF PassInv, ReachBlock, InPass, FlowGraph
<1>2. b \in Ordered
  BY <1>1 DEF Ordered
<1>3. /\ FlowGraph' /\ Ordered' = Ordered /\ (\A x : Stmts(x)' = Stmts(x))
      /\ (\A d, p : Carried(d, p)' <=> Carried(d, p)) /\ (\A id : Traced(id)' <=> Traced(id))
  BY <1>1, CarriedStays DEF Ordered, Stmts
<1>4. Len(Stmts(b)) \in 0 .. Len(Stmts(b))
  BY <1>1, <1>2 DEF FlowGraph
<1>5. \A d \in new : Carried(d, <<b, Len(Stmts(b))>>)
  BY <1>1, <1>2, <1>4, DefsSound
<1> HIDE DEF new, b
<1>6. CameByWays'
  <2> SUFFICES ASSUME NEW x \in DOMAIN out'
               PROVE  x \in Ordered /\ \A d \in out'[x] : Carried(d, <<x, Len(Stmts(x))>>)
    BY <1>3 DEF CameByWays
  <2>1. CASE x = b
    BY <1>1, <1>2, <1>5, <2>1
  <2>2. CASE x # b
    BY <1>1, <2>2 DEF CameByWays
  <2> QED BY <2>1, <2>2
<1>7. out' = [x \in DOMAIN out' |-> out'[x]]
  BY <1>1
<1>8. ASSUME ~changed' PROVE \A j \in 1 .. block' - 1 : Fixed(order[j])'
  <2>1. ~changed /\ out' = out
    BY <1>1, <1>8
  <2>2. \A x : Fixed(x)' <=> Fixed(x)
    BY <1>1, <2>1, SettledStays
  <2>3. \A j \in 1 .. block - 1 : Fixed(order[j])
    BY <1>1, <2>1 DEF PassInv
  <2>4. b \in DOMAIN out /\ out[b] = new
    BY <1>1, <2>1
  <2>5. Fixed(b)
    BY <2>4 DEF Fixed, new
  <2> SUFFICES ASSUME NEW j \in 1 .. block' - 1 PROVE Fixed(order[j])'
    OBVIOUS
  <2>6. j = block \/ j \in 1 .. block - 1
    BY <1>1
  <2>7. Fixed(order[j])
    BY <2>3, <2>5, <2>6 DEF b
  <2>8. order'[j] = order[j]
    BY <1>1
  <2> QED BY <2>2, <2>7, <2>8
<1>9. block' \in 1 .. Len(order') + 1 /\ changed' \in BOOLEAN
  BY <1>1
<1>10. 0 \in tainted' /\ \A id \in tainted' : Traced(id)'
  BY <1>1, <1>3 DEF PassInv
<1> QED BY <1>1, <1>3, <1>6, <1>7, <1>8, <1>9, <1>10 DEF PassInv

LEMMA TaintKeeps == ASSUME PassInv, TaintBlock PROVE PassInv'
<1> DEFINE b == order[block]
           new == SpreadIn(b)[Len(Stmts(b))]
<1>1. /\ FlowGraph /\ CameByWays /\ stage = "taint" /\ stage' = stage /\ block' = block + 1
      /\ UNCHANGED <<cfg, order, out, stage>> /\ changed \in BOOLEAN /\ Len(order) \in Nat
      /\ block \in 1 .. Len(order) /\ tainted' = new
      /\ changed' = (changed \/ tainted' # tainted)
  BY DEF PassInv, TaintBlock, InPass, FlowGraph
<1>2. b \in Ordered
  BY <1>1 DEF Ordered
<1>3. /\ FlowGraph' /\ Ordered' = Ordered /\ CameByWays' /\ (\A x : Fixed(x)' <=> Fixed(x))
      /\ (\A id : Traced(id)' <=> Traced(id))
  BY <1>1, CarriedStays, SettledStays DEF Ordered
<1>4. Len(Stmts(b)) \in Nat /\ Len(Stmts(b)) \in 0 .. Len(Stmts(b)) /\ 0 \in 0 .. Len(Stmts(b))
  BY <1>1, <1>2 DEF FlowGraph
<1>5. \A id \in new : Traced(id)
  BY <1>1, <1>2, <1>4, SpreadSound DEF PassInv
<1>6. tainted \subseteq new /\ (new = tainted => Closed(b))
  BY <1>4, SpreadGrows
<1> HIDE DEF new, b
<1>7. ASSUME ~changed' PROVE \A j \in 1 .. block' - 1 : Closed(order[j])'
  <2>1. ~changed /\ tainted' = tainted
    BY <1>1, <1>7
  <2>2. \A x : Closed(x)' <=> Closed(x)
    BY <1>1, <2>1, SettledStays
  <2>3. \A j \in 1 .. block - 1 : Closed(order[j])
    BY <1>1, <2>1 DEF PassInv
  <2>4. Closed(b)
    BY <1>1, <1>6, <2>1
  <2> SUFFICES ASSUME NEW j \in 1 .. block' - 1 PROVE Closed(order[j])'
    OBVIOUS
  <2>5. j = block \/ j \in 1 .. block - 1
    BY <1>1
  <2>6. Closed(order[j])
    BY <2>3, <2>4, <2>5 DEF b
  <2>7. order'[j] = order[j]
    BY <1>1
  <2> QED BY <2>2, <2>6, <2>7
<1>8. block' \in 1 .. Len(order') + 1 /\ changed' \in BOOLEAN
  BY <1>1
<1>9. 0 \in tainted' /\ \A id \in tainted' : Traced(id)'
  BY <1>1, <1>3, <1>5, <1>6 DEF PassInv
<1>10. \A x \in Ordered' : Fixed(x)'
  BY <1>1, <1>3 DEF PassInv
<1>11. out' = [x \in DOMAIN out' |-> out'[x]]
  BY <1>1 DEF PassInv
<1> QED BY <1>1, <1>3, <1>7, <1>8, <1>9, <1>10, <1>11 DEF PassInv

LEMMA EndPassKeeps == ASSUME PassInv, EndPass PROVE PassInv'
<1>1. /\ FlowGraph /\ CameByWays /\ stage \in {"reaching", "taint"} /\ block' = 1 /\ changed' = FALSE
      /\ stage' = IF changed THEN stage ELSE IF stage = "reaching" THEN "taint" ELSE "classify"
      /\ UNCHANGED <<cfg, order, out, tainted>> /\ changed \in BOOLEAN /\ Len(order) \in Nat
      /\ block = Len(order) + 1
  BY DEF PassInv, EndPass, InPass, FlowGraph
<1>2. /\ FlowGraph' /\ Ordered' = Ordered /\ CameByWays' /\ (\A x : Fixed(x)' <=> Fixed(x))
      /\ (\A x : Closed(x)' <=> Closed(x)) /\ (\A id : Traced(id)' <=> Traced(id))
  BY <1>1, CarriedStays, SettledStays DEF Ordered
<1>3. 1 .. block - 1 = 1 .. Len(order) /\ 1 .. block' - 1 = {} /\ block' \in 1 .. Len(order') + 1
  BY <1>1
<1>4. \A x \in Ordered : \E j \in 1 .. block - 1 : order[j] = x
  BY <1>3 DEF Ordered
<1>5. ASSUME stage' # "reaching" PROVE \A x \in Ordered' : Fixed(x)'
  <2>1. stage # "reaching" \/ ~changed
    BY <1>1, <1>5
  <2>2. \A x \in Ordered : Fixed(x)
    BY <1>1, <1>4, <2>1 DEF PassInv
  <2> QED BY <1>2, <2>2
<1>6. ASSUME stage' = "classify" PROVE \A x \in Ordered' : Closed(x)'
  <2>1. stage = "taint" /\ ~changed
    BY <1>1, <1>6
  <2>2. \A x \in Ordered : Closed(x)
    BY <1>4, <2>1 DEF PassInv
  <2> QED BY <1>2, <2>2
<1>7. 0 \in tainted' /\ \A id \in tainted' : Traced(id)'
  BY <1>1, <1>2 DEF PassInv
<1>8. out' = [x \in DOMAIN out' |-> out'[x]]
  BY <1>1 DEF PassInv
<1>9. stage' \in {"reaching", "taint", "classify"}
  BY <1>1
<1> QED BY <1>1, <1>2, <1>3, <1>5, <1>6, <1>7, <1>8, <1>9 DEF PassInv

LEMMA PassNextInv == PassInv /\ [PassNext]_passVars => PassInv'
<1> SUFFICES ASSUME PassInv, [PassNext]_passVars PROVE PassInv'
  OBVIOUS
<1>1. CASE UNCHANGED passVars
  <2>1. UNCHANGED <<cfg, order, out, tainted, block, changed, stage>>
    BY <1>1 DEF passVars
  <2>2. /\ FlowGraph' /\ Ordered' = Ordered /\ CameByWays' /\ (\A x : Fixed(x)' <=> Fixed(x))
        /\ (\A x : Closed(x)' <=> Closed(x)) /\ (\A id : Traced(id)' <=> Traced(id))
    BY <2>1, CarriedStays, SettledStays DEF Ordered, PassInv
  <2> QED BY <2>1, <2>2 DEF PassInv
<1> QED BY <1>1, ReachKeeps, TaintKeeps, EndPassKeeps DEF PassNext

LEMMA PassInvExact == PassInv => PassesExact
<1> SUFFICES ASSUME PassInv PROVE PassesExact
  OBVIOUS
<1>1. FlowGraph /\ CameByWays
  BY DEF PassInv
<1>2. ASSUME stage # "reaching", NEW b \in Ordered, NEW i \in 0 .. Len(Stmts(b)), NEW d
      PROVE  d \in DefsIn(b)[i] <=> Carried(d, <<b, i>>)
  <2>1. d \in DefsIn(b)[i] => Carried(d, <<b, i>>)
    BY <1>1, DefsSound
  <2>2. ASSUME Carried(d, <<b, i>>) PROVE d \in DefsIn(b)[i]
    <3>1. \A x \in Ordered : Fixed(x)
      BY <1>2 DEF PassInv
    <3> DEFINE p == <<b, i>>
    <3>2. d \in DefsIn(p[1])[p[2]]
      BY <1>1, <2>2, <3>1, DefsComplete
    <3> QED BY <3>2
  <2> QED BY <2>1, <2>2
<1>3. ASSUME stage = "classify", NEW b \in Ordered, NEW i \in 1 .. Len(Stmts(b)), NEW vars,
             NEW v \in vars, NEW id \in tainted, Carried(<<v, id>>, <<b, i - 1>>)
      PROVE  TaintedIn(b, i, vars, tainted)
  <2>1. b \in DOMAIN out
    BY <1>3 DEF PassInv, Fixed
  <2>2. i - 1 \in 0 .. Len(Stmts(b))
    BY <1>1 DEF FlowGraph
  <2>3. <<v, id>> \in DefsIn(b)[i - 1]
    BY <1>2, <1>3, <2>2
  <2> QED BY <2>1, <2>3 DEF TaintedIn
<1>4. ASSUME stage = "classify", NEW id, Traced(id) PROVE id \in tainted
  <2>1. PICK c \in Seq(Nat) \ {<<>>} :
          /\ c[1] = 0 /\ c[Len(c)] = id
          /\ \A k \in 1 .. Len(c) - 1 :
               \E x \in Ordered : \E j \in 1 .. Len(Stmts(x)) : Stmts(x)[j].id = c[k + 1] /\ Hands(c[k], x, j)
    BY <1>4 DEF Traced
  <2>2. Len(c) \in Nat \ {0}
    BY <2>1
  <2> DEFINE Bad == {k \in 1 .. Len(c) : c[k] \notin tainted}
  <2>3. Bad = {}
    <3> SUFFICES ASSUME Bad # {} PROVE FALSE
      OBVIOUS
    <3>1. PICK k \in Bad : \A j \in Bad : k =< j
      <4>1. Bad \subseteq Nat
        BY <2>2
      <4> HIDE DEF Bad
      <4> QED BY <4>1, LeastExists
    <3>2. k \in 1 .. Len(c) /\ k # 1
      BY <2>1 DEF PassInv
    <3>3. k - 1 \in 1 .. Len(c) - 1 /\ k - 1 \in 1 .. Len(c) /\ ~(k =< k - 1) /\ (k - 1) + 1 = k
      BY <2>2, <3>2
    <3>4. c[k - 1] \in tainted
      BY <3>1, <3>3
    <3>5. PICK x \in Ordered : \E j \in 1 .. Len(Stmts(x)) : Stmts(x)[j].id = c[k] /\ Hands(c[k - 1], x, j)
      <4>1. \E x \in Ordered : \E j \in 1 .. Len(Stmts(x)) : Stmts(x)[j].id = c[(k - 1) + 1] /\ Hands(c[k - 1], x, j)
        BY <2>1, <3>3
      <4> QED BY <3>3, <4>1
    <3>6. PICK j \in 1 .. Len(Stmts(x)) : Stmts(x)[j].id = c[k] /\ Hands(c[k - 1], x, j)
      BY <3>5
    <3>7. PICK v \in Stmts(x)[j].reads \union Stmts(x)[j].args : Carried(<<v, c[k - 1]>>, <<x, j - 1>>)
      BY <3>6 DEF Hands
    <3>8. TaintedIn(x, j, Stmts(x)[j].reads \union Stmts(x)[j].args, tainted)
      BY <1>3, <1>4, <3>4, <3>7
    <3>9. Stmts(x)[j].id \in Spread(tainted, x, j)
      BY <3>6, <3>8 DEF Spread, Hands
    <3>10. Spread(tainted, x, j) = tainted
      BY <1>4 DEF PassInv, Closed
    <3> QED BY <3>1, <3>6, <3>9, <3>10
  <2>4. Len(c) \in 1 .. Len(c) /\ Len(c) \notin Bad
    BY <2>2, <2>3
  <2> QED BY <2>1, <2>4
<1>5. ASSUME stage = "classify", NEW id PROVE id \in tainted <=> Traced(id)
  BY <1>4, <1>5 DEF PassInv
<1>6. ASSUME stage = "classify", NEW b \in Ordered, NEW i \in 1 .. Len(Stmts(b))
      PROVE  Confirmed(b, i) <=>
               /\ Stmts(b)[i].call = "sink" /\ Stmts(b)[i].kind \in {"call", "assign"}
               /\ \E v \in Stmts(b)[i].args, id \in Nat : Traced(id) /\ Carried(<<v, id>>, <<b, i - 1>>)
  <2> DEFINE s == Stmts(b)[i]
  <2>1. TaintedIn(b, i, s.args, tainted)
          => \E v \in s.args, id \in Nat : Traced(id) /\ Carried(<<v, id>>, <<b, i - 1>>)
    <3>1. \A id \in tainted : Traced(id)
      BY DEF PassInv
    <3> HIDE DEF s
    <3> QED BY <1>1, <3>1, TaintedInSound
  <2>2. (\E v \in s.args, id \in Nat : Traced(id) /\ Carried(<<v, id>>, <<b, i - 1>>))
          => TaintedIn(b, i, s.args, tainted)
    <3> HIDE DEF s
    <3> QED BY <1>3, <1>5, <1>6
  <2> QED BY <2>1, <2>2 DEF Confirmed
<1>7. stage \in {"taint", "classify"} => stage # "reaching"
  OBVIOUS
<1> QED BY <1>2, <1>5, <1>6, <1>7 DEF PassesExact

\* Whatever the flow graph, and whatever the order in which its blocks are
\* looked at: the definitions at each place, the tainted ones and the sinks
\* confirmed are those that ways and chains of statements give.
THEOREM PassesCompute == PassSpec => []PassesExact
  BY PassInitInv, PassNextInv, PassInvExact, PTL DEF PassSpec

-----------------------------------------------------------------------------
(* The incremental analysis *)

USE FilesAssumption, ScopesAssumption, ImportsAssumption

-----------------------------------------------------------------------------
(* The parse cache *)

\* Without a tear or a shared hash, saving the units of P writes right units
\* under the hashes of P and leaves those of other files alone.
LEMMA SavedRight ==
  ASSUME NEW P, P \subseteq Files, Tears(P) = {}
  PROVE  /\ \A f \in P :
              (\A g \in P : current[g] = current[f] => g = f)
                => Saved(P)[EntryOf(current[f])] = Unit(f, current[f], job.parser)
         /\ \A k \in DOMAIN Saved(P) :
              (\A g \in P : k # EntryOf(current[g])) => k \in DOMAIN parseCache /\ Saved(P)[k] = parseCache[k]
         /\ DOMAIN Saved(P) = DOMAIN parseCache \union {EntryOf(current[f]) : f \in P}
<1>1. \A f \in P : source[f] = current[f]
  BY DEF Tears
<1>2. ASSUME NEW f \in P, \A g \in P : current[g] = current[f] => g = f
      PROVE  Saved(P)[EntryOf(current[f])] = Unit(f, current[f], job.parser)
  <2> DEFINE Final(g) == EntryOf(current[g]) = EntryOf(current[f]) /\ \A h \in P : current[h] = current[g] => h =< g
             l == CHOOSE g \in P : Final(g)
  <2>1. \A g \in P : EntryOf(current[g]) = EntryOf(current[f]) => g = f
    BY <1>2 DEF EntryOf
  <2>2. Final(f)
    <3>1. f =< f
      BY FilesAssumption
    <3> QED BY <1>2, <3>1
  <2>3. l \in P /\ Final(l)
    BY <2>2
  <2>4. l = f
    BY <2>1, <2>3
  <2>5. Saved(P)[EntryOf(current[f])] = Unit(l, source[l], job.parser)
    BY DEF Saved
  <2> QED BY <2>4, <2>5, <1>1
<1>3. ASSUME NEW k \in DOMAIN Saved(P), \A g \in P : k # EntryOf(current[g])
      PROVE  k \in DOMAIN parseCache /\ Saved(P)[k] = parseCache[k]
  BY <1>3 DEF Saved
<1>4. DOMAIN Saved(P) = DOMAIN parseCache \union {EntryOf(current[f]) : f \in P}
  BY DEF Saved
<1> QED BY <1>2, <1>3, <1>4

\* What is parsed of the files hashed, and does not share a hash, leaves the
\* units of the record right.
LEMMA RecordStaysRight ==
  ASSUME RunTypeOK, step = "hashed", CacheOfRecord, ~Spoilt(legacy),
         NEW P, P \subseteq DOMAIN current, Tears(P) = {}, Shares(P) = {}
  PROVE  \A f \in DOMAIN hashes, p \in Parsers :
           <<p, hashes[f]>> \in DOMAIN Saved(P) => Saved(P)[<<p, hashes[f]>>] = Unit(f, hashes[f], p)
<1> SUFFICES ASSUME NEW f \in DOMAIN hashes, NEW p \in Parsers, <<p, hashes[f]>> \in DOMAIN Saved(P)
             PROVE  Saved(P)[<<p, hashes[f]>>] = Unit(f, hashes[f], p)
  OBVIOUS
<1>1. P \subseteq Files /\ DOMAIN hashes \subseteq Files
  BY DEF RunTypeOK
<1>2. <<p, hashes[f]>> \in DOMAIN parseCache => parseCache[<<p, hashes[f]>>] = Unit(f, hashes[f], p)
  BY DEF CacheOfRecord, RunTypeOK, Right
<1>3. \A g \in P : hashes[f] = current[g] => g = f
  BY <1>1 DEF Shares
<1>4. CASE \E g \in P : <<p, hashes[f]>> = EntryOf(current[g])
  <2>1. f \in P /\ p = job.parser /\ hashes[f] = current[f]
    BY <1>3, <1>4 DEF EntryOf
  <2>2. \A g \in P : current[g] = current[f] => g = f
    BY <1>3, <2>1
  <2>3. Saved(P)[EntryOf(current[f])] = Unit(f, current[f], job.parser)
    BY <1>1, <2>1, <2>2, SavedRight
  <2>4. EntryOf(current[f]) = <<p, hashes[f]>>
    BY <2>1 DEF EntryOf
  <2> QED BY <2>1, <2>3, <2>4
<1>5. CASE \A g \in P : <<p, hashes[f]>> # EntryOf(current[g])
  BY <1>1, <1>2, <1>5, SavedRight
<1> QED BY <1>4, <1>5

-----------------------------------------------------------------------------
(* Every step keeps the invariant *)

LEMMA IncInitInv == IncInit => IncInv
BY DEF IncInit, IncInv, RunTypeOK, CacheOfRecord, CacheOfRun, NewestOfRecord, NewestOfRun,
       NoHashes, NoPrint, NoGraph, Mishaps

LEMMA EditsKeep == IncInv /\ (EditFile \/ EditPatterns \/ EditResources) => IncInv'
<1> SUFFICES ASSUME IncInv, EditFile \/ EditPatterns \/ EditResources PROVE IncInv'
  OBVIOUS
<1> USE DEF recordVars, runVars
<1>1. CASE EditFile
  <2>1. RunTypeOK'
    BY <1>1 DEF EditFile, IncInv, RunTypeOK
  <2>2. CacheOfRecord' /\ CacheOfRun'
    BY <1>1 DEF EditFile, IncInv, CacheOfRecord, CacheOfRun, Right, Spoilt, Twins
  <2>3. NewestOfRecord' /\ NewestOfRun'
    BY <1>1 DEF EditFile, IncInv, NewestOfRecord, NewestOfRun, Sound, Full, FullUnits, Spoilt
  <2> QED BY <2>1, <2>2, <2>3 DEF IncInv
<1>2. CASE EditPatterns
  <2>1. RunTypeOK'
    BY <1>2 DEF EditPatterns, IncInv, RunTypeOK
  <2>2. CacheOfRecord' /\ CacheOfRun'
    BY <1>2 DEF EditPatterns, IncInv, CacheOfRecord, CacheOfRun, Right, Spoilt, Twins
  <2>3. NewestOfRecord' /\ NewestOfRun'
    BY <1>2 DEF EditPatterns, IncInv, NewestOfRecord, NewestOfRun, Sound, Full, FullUnits, Spoilt
  <2> QED BY <2>1, <2>2, <2>3 DEF IncInv
<1>3. CASE EditResources
  <2>1. RunTypeOK'
    BY <1>3 DEF EditResources, IncInv, RunTypeOK, Mishaps
  <2>2. CacheOfRecord' /\ CacheOfRun'
    BY <1>3 DEF EditResources, IncInv, RunTypeOK, CacheOfRecord, CacheOfRun, Right, Spoilt, Twins
  <2>3. NewestOfRecord'
    BY <1>3 DEF EditResources, NewestOfRecord
  <2>4. NewestOfRun'
    BY <1>3 DEF EditResources, IncInv, NewestOfRun, Sound, Full, FullUnits, Spoilt
  <2> QED BY <2>1, <2>2, <2>3, <2>4 DEF IncInv
<1> QED BY <1>1, <1>2, <1>3

LEMMA StartKeeps == IncInv /\ StartRun => IncInv'
<1> SUFFICES ASSUME IncInv, StartRun PROVE IncInv'
  OBVIOUS
<1> USE DEF inputVars
<1>1. PICK j \in Jobs, lost \in SUBSET Files :
        /\ lost \subseteq j.scope
        /\ job' = j
        /\ current' = [f \in j.scope \ lost |-> source[f]]
        /\ own' = IF lost = {} THEN {} ELSE {"unhashed"}
        /\ parseCache' = [k \in {k \in DOMAIN parseCache : k[1] = j.parser} |-> parseCache[k]]
  BY DEF StartRun
<1>2. step = "idle" /\ own = {} /\ step' = "hashed" /\ j.scope \subseteq Files
  BY DEF StartRun, IncInv, RunTypeOK, Jobs
<1>3. RunTypeOK'
  BY <1>1, <1>2 DEF StartRun, IncInv, RunTypeOK, Mishaps
<1>4. CacheOfRecord'
  BY <1>1, <1>2 DEF StartRun, IncInv, CacheOfRecord, Right, Spoilt
<1>5. CacheOfRun' /\ NewestOfRecord' /\ NewestOfRun'
  BY <1>2 DEF StartRun, IncInv, CacheOfRun, NewestOfRecord, NewestOfRun
<1> QED BY <1>3, <1>4, <1>5 DEF IncInv

LEMMA ReuseKeeps == IncInv /\ Reuse => IncInv'
<1> SUFFICES ASSUME IncInv, Reuse PROVE IncInv'
  OBVIOUS
<1> USE DEF inputVars, recordVars, Leave, Reuse
<1>1. RunTypeOK'
  BY DEF IncInv, RunTypeOK, NoHashes
<1>2. CacheOfRecord'
  BY DEF IncInv, RunTypeOK, CacheOfRecord, Right, Spoilt
<1>3. CacheOfRun' /\ NewestOfRecord' /\ NewestOfRun'
  BY DEF IncInv, CacheOfRun, NewestOfRecord, NewestOfRun
<1> QED BY <1>1, <1>2, <1>3 DEF IncInv

LEMMA ParseKeeps == IncInv /\ Parse => IncInv'
<1> SUFFICES ASSUME IncInv, Parse PROVE IncInv'
  OBVIOUS
<1>1. PICK skipped \in SUBSET ToParse :
        LET parsed == ToParse \ skipped
            kept == parsed \intersect DOMAIN current IN
        /\ units' = {Unit(f, source[f], job.parser) : f \in parsed}
                      \union {CachedUnit(f) : f \in job.scope \ ToParse}
        /\ parseCache' = Saved(kept)
        /\ own' = own \union Tears(kept) \union Shares(kept)
                    \union (IF skipped = {} THEN {} ELSE {"skipped"})
  BY DEF Parse
<1> DEFINE parsed == ToParse \ skipped
           kept == parsed \intersect DOMAIN current
<1>2. /\ step = "hashed" /\ step' = "parsed"
      /\ UNCHANGED <<source, patterns, resources, edits, hashes, printed, newest, job, current, built, runs, legacy>>
  BY DEF Parse, inputVars
<1>3. /\ job \in Jobs /\ DOMAIN current \subseteq job.scope /\ job.scope \subseteq Files
      /\ DOMAIN current \subseteq Files /\ DOMAIN hashes \subseteq Files
      /\ ToParse \subseteq job.scope /\ own \subseteq {"unhashed", "resources"}
  BY <1>2 DEF IncInv, RunTypeOK, Jobs, ToParse
<1>4. kept \subseteq Files /\ kept \subseteq DOMAIN current
  BY <1>3
<1> HIDE DEF kept
<1>5. Tears(kept) = {} <=> "torn" \notin own'
  BY <1>1, <1>3 DEF Tears, Shares, kept
<1>6. Shares(kept) = {} <=> "shared" \notin own'
  BY <1>1, <1>3 DEF Tears, Shares, kept
<1>7. skipped = {} <=> "skipped" \notin own'
  BY <1>1, <1>3 DEF Tears, Shares, kept
<1>8. parseCache' = Saved(kept)
  BY <1>1 DEF kept
<1>9. RunTypeOK'
  <2>1. own' \subseteq Mishaps /\ ("unhashed" \in own' <=> "unhashed" \in own)
    BY <1>1, <1>3 DEF Mishaps, Tears, Shares, kept
  <2>2. DOMAIN parseCache' = DOMAIN parseCache \union {EntryOf(current[f]) : f \in kept}
    BY <1>8 DEF Saved
  <2>3. \A f \in kept : EntryOf(current[f]) = <<job.parser, current[f]>> /\ current[f] \in Contents
    BY <1>4 DEF EntryOf, IncInv, RunTypeOK
  <2>4. job.parser \in Parsers
    BY <1>3 DEF Jobs
  <2>5. /\ DOMAIN parseCache' \subseteq Parsers \X Contents
        /\ \A k \in DOMAIN parseCache' : k[1] = job.parser
    BY <1>2, <2>2, <2>3, <2>4 DEF IncInv, RunTypeOK
  <2> QED BY <1>2, <2>1, <2>5 DEF IncInv, RunTypeOK
<1>10. CacheOfRecord'
  <2> SUFFICES ASSUME ~Spoilt(legacy'), {"torn", "shared"} \intersect own' = {}
               PROVE  \A f \in DOMAIN hashes', p \in Parsers : Right(f, hashes[f], p)'
    BY DEF CacheOfRecord, Right
  <2>1. ~Spoilt(legacy) /\ Tears(kept) = {} /\ Shares(kept) = {}
    BY <1>2, <1>5, <1>6
  <2> QED BY <1>2, <1>4, <1>8, <2>1, RecordStaysRight DEF IncInv, Right
<1>11. ASSUME "torn" \notin own', "skipped" \notin own', job.cached => ~Spoilt(legacy)
       PROVE  \A f \in job.scope \ ToParse :
                /\ job.cached /\ f \in DOMAIN current /\ f \in DOMAIN hashes /\ hashes[f] = current[f]
                /\ EntryOf(current[f]) \in DOMAIN parseCache
                /\ parseCache[EntryOf(current[f])] = Unit(f, current[f], job.parser)
  <2> SUFFICES ASSUME NEW f \in job.scope \ ToParse
               PROVE  /\ job.cached /\ f \in DOMAIN current /\ f \in DOMAIN hashes /\ hashes[f] = current[f]
                      /\ EntryOf(current[f]) \in DOMAIN parseCache
                      /\ parseCache[EntryOf(current[f])] = Unit(f, current[f], job.parser)
    OBVIOUS
  <2>1. job.cached /\ f \notin Expanded /\ HasUnit(f) /\ f \in DOMAIN current
    BY DEF ToParse
  <2>2. f \notin Changed
    BY <2>1 DEF Expanded, Importers
  <2>3. f \in DOMAIN hashes /\ hashes[f] = current[f]
    BY <2>1, <2>2 DEF Changed
  <2>4. EntryOf(current[f]) \in DOMAIN parseCache
    BY <2>1, <2>3 DEF HasUnit, Has
  <2>5. Right(f, hashes[f], job.parser)
    <3>1. job.parser \in Parsers /\ {"torn", "shared"} \intersect own = {} /\ ~Spoilt(legacy)
      BY <1>3, <1>11, <2>1 DEF Jobs
    <3> QED BY <1>2, <2>3, <3>1 DEF IncInv, CacheOfRecord
  <2> QED BY <2>1, <2>3, <2>4, <2>5 DEF Right, EntryOf
<1>12. CacheOfRun'
  <2> SUFFICES ASSUME {"torn", "skipped"} \intersect own' = {}, Twins' = {} \/ "shared" \notin own',
                      job.cached => ~Spoilt(legacy), NEW f \in DOMAIN current,
                      <<job.parser, current[f]>> \in DOMAIN Saved(kept)
               PROVE  Saved(kept)[<<job.parser, current[f]>>] = Unit(f, current[f], job.parser)
    BY <1>2, <1>8 DEF CacheOfRun, Right
  <2>1. Tears(kept) = {} /\ skipped = {}
    BY <1>5, <1>7
  <2>2. \A g \in kept : current[g] = current[f] => g = f
    BY <1>2, <1>3, <1>4, <1>6 DEF Shares, Twins
  <2>3. CASE f \in kept
    BY <1>4, <2>1, <2>2, <2>3, SavedRight DEF EntryOf
  <2>4. CASE f \notin kept
    <3>1. f \in job.scope \ ToParse
      BY <1>3, <2>1, <2>4 DEF kept
    <3>2. \A g \in kept : <<job.parser, current[f]>> # EntryOf(current[g])
      BY <2>2, <2>4 DEF EntryOf
    <3>3. Saved(kept)[<<job.parser, current[f]>>] = parseCache[<<job.parser, current[f]>>]
      BY <1>4, <2>1, <3>2, SavedRight
    <3> QED BY <1>11, <3>1, <3>3 DEF EntryOf
  <2> QED BY <2>3, <2>4
<1>13. NewestOfRecord'
  BY <1>2 DEF IncInv, NewestOfRecord
<1>14. NewestOfRun'
  <2>1. ASSUME Sound' PROVE Full(units)'
    <3>1. skipped = {} /\ Tears(kept) = {} /\ (job.cached => ~Spoilt(legacy))
      BY <1>2, <1>5, <1>7, <2>1 DEF Sound
    <3>2. \A f \in job.scope \ ToParse : f \in DOMAIN current /\ CachedUnit(f) = Unit(f, current[f], job.parser)
      BY <1>11, <2>1, <3>1 DEF Sound, CachedUnit, Has
    <3>3. units' = {Unit(f, source[f], job.parser) : f \in ToParse}
                     \union {Unit(f, current[f], job.parser) : f \in job.scope \ ToParse}
      BY <1>1, <3>1, <3>2
    <3>4. \A f \in ToParse \intersect DOMAIN current : source[f] = current[f]
      BY <3>1 DEF Tears, kept
    <3>5. \A f, c : Unit(f, c, job.parser).file = f
      BY DEF Unit
    <3>6. {u.file : u \in units'} = job.scope
      BY <1>3, <3>3, <3>5
    <3>7. {u \in units' : u.file \in DOMAIN current} = FullUnits
      BY <1>3, <3>2, <3>3, <3>4, <3>5 DEF FullUnits
    <3> QED BY <1>2, <3>6, <3>7 DEF Full, FullUnits
  <2> QED BY <1>2, <2>1 DEF NewestOfRun
<1> QED BY <1>9, <1>10, <1>12, <1>13, <1>14 DEF IncInv

LEMMA ResolveKeeps == IncInv /\ Resolve => IncInv'
<1> SUFFICES ASSUME IncInv, Resolve PROVE IncInv'
  OBVIOUS
<1> USE DEF Resolve, inputVars, recordVars
<1>1. RunTypeOK'
  BY DEF IncInv, RunTypeOK
<1>2. CacheOfRecord' /\ CacheOfRun'
  BY DEF IncInv, CacheOfRecord, CacheOfRun, Right, Spoilt, Twins
<1>3. NewestOfRecord'
  BY DEF IncInv, NewestOfRecord
<1>4. NewestOfRun'
  BY DEF IncInv, NewestOfRun, Sound, Spoilt, Full, FullUnits
<1> QED BY <1>1, <1>2, <1>3, <1>4 DEF IncInv

LEMMA WriteKeeps == IncInv /\ WriteArtifacts => IncInv'
<1> SUFFICES ASSUME IncInv, WriteArtifacts PROVE IncInv'
  OBVIOUS
<1> USE DEF WriteArtifacts, inputVars
<1>1. RunTypeOK'
  BY DEF IncInv, RunTypeOK
<1>2. CacheOfRecord' /\ CacheOfRun'
  BY DEF IncInv, CacheOfRecord, CacheOfRun, Right, Spoilt, Twins
<1>3. NewestOfRecord' /\ NewestOfRun'
  BY DEF IncInv, NewestOfRecord, NewestOfRun, Sound, Spoilt, Full, FullUnits
<1> QED BY <1>1, <1>2, <1>3 DEF IncInv

LEMMA SaveHashesKeeps == IncInv /\ SaveHashes => IncInv'
<1> SUFFICES ASSUME IncInv, SaveHashes PROVE IncInv'
  OBVIOUS
<1> USE DEF SaveHashes, inputVars
<1>1. RunTypeOK'
  BY DEF IncInv, RunTypeOK
<1>2. CacheOfRecord' /\ CacheOfRun'
  BY DEF IncInv, CacheOfRecord, CacheOfRun, Right, Spoilt, Twins
<1>3. NewestOfRecord' /\ NewestOfRun'
  BY DEF IncInv, NewestOfRecord, NewestOfRun, Sound, Spoilt, Full, FullUnits
<1> QED BY <1>1, <1>2, <1>3 DEF IncInv

LEMMA SavePrintKeeps == IncInv /\ SavePrint => IncInv'
<1> SUFFICES ASSUME IncInv, SavePrint PROVE IncInv'
  OBVIOUS
<1>1. /\ step = "recorded" /\ step' = "idle" /\ own' = {} /\ hashes = current /\ newest = built
      /\ UNCHANGED <<source, patterns, resources, hashes, parseCache, newest>>
      /\ current' = NoHashes /\ job' = NoJob /\ printed' = Fingerprint
      /\ legacy' = (own \ {"shared"}) \union Twins
                 \union (IF patterns = built.patterns THEN {} ELSE {"torn"})
                 \union (IF job.cached THEN legacy \intersect {"torn", "skipped", "shared"} ELSE {})
  BY DEF SavePrint, Leave, inputVars, IncInv, NewestOfRun
<1>2. /\ DOMAIN current \subseteq job.scope /\ job \in Jobs /\ job.parser \in Parsers
      /\ "unhashed" \notin own => DOMAIN current = job.scope
  BY <1>1 DEF IncInv, RunTypeOK, Jobs
<1>3. RunTypeOK'
  BY <1>1 DEF IncInv, RunTypeOK, Mishaps, Twins, NoHashes
<1>4. ~Spoilt(legacy') => Sound /\ Twins = {}
  BY <1>1 DEF Spoilt, Sound, Twins
<1>5. CacheOfRecord'
  <2> SUFFICES ASSUME ~Spoilt(legacy'), NEW f \in DOMAIN hashes, NEW p \in Parsers,
                      <<p, hashes[f]>> \in DOMAIN parseCache
               PROVE  parseCache[<<p, hashes[f]>>] = Unit(f, hashes[f], p)
    BY <1>1 DEF CacheOfRecord, Right
  <2>1. p = job.parser
    BY <1>1 DEF IncInv, RunTypeOK
  <2>2. Right(f, current[f], job.parser)
    BY <1>1, <1>4 DEF IncInv, CacheOfRun, Sound
  <2> QED BY <1>1, <2>1, <2>2 DEF Right
<1>6. NewestOfRecord'
  <2> SUFFICES ASSUME legacy' = {}
               PROVE  built = [units |-> {Unit(f, current[f], job.parser) : f \in DOMAIN current},
                               patterns |-> patterns, resources |-> resources, whole |-> TRUE]
    BY <1>1 DEF NewestOfRecord, Fingerprint
  <2>1. Sound /\ "unhashed" \notin own /\ "resources" \notin own /\ patterns = built.patterns
    BY <1>1, <1>4 DEF Spoilt
  <2>2. Full(built.units) /\ built.resources = resources
    BY <1>1, <2>1 DEF IncInv, NewestOfRun
  <2>3. built.units = FullUnits
    BY <1>2, <2>1, <2>2 DEF Full
  <2>4. built = [units |-> built.units, patterns |-> built.patterns,
                 resources |-> built.resources, whole |-> TRUE]
    BY <1>1 DEF IncInv, NewestOfRun
  <2> QED BY <2>1, <2>2, <2>3, <2>4 DEF FullUnits
<1>7. CacheOfRun' /\ NewestOfRun'
  BY <1>1 DEF CacheOfRun, NewestOfRun
<1> QED BY <1>3, <1>5, <1>6, <1>7 DEF IncInv

LEMMA DieKeeps == IncInv /\ Die => IncInv'
<1> SUFFICES ASSUME IncInv, Die PROVE IncInv'
  OBVIOUS
<1>1. /\ step' = "idle" /\ own' = {} /\ current' = NoHashes
      /\ UNCHANGED <<source, patterns, resources>>
  BY DEF Die, Leave, inputVars
<1>2. CacheOfRun' /\ NewestOfRun'
  BY <1>1 DEF CacheOfRun, NewestOfRun
<1>3. CASE step = "hashed"
  <2>1. PICK n \in {0} \union Files :
          LET kept == {f \in ToParse \intersect DOMAIN current : f =< n} IN
          /\ parseCache' = Saved(kept)
          /\ legacy' = legacy \union own \union Tears(kept) \union Shares(kept)
    BY <1>3 DEF Die
  <2> DEFINE kept == {f \in ToParse \intersect DOMAIN current : f =< n}
  <2>2. UNCHANGED <<hashes, printed, newest>>
    BY <1>3 DEF Die
  <2>3. kept \subseteq DOMAIN current /\ kept \subseteq Files /\ job.parser \in Parsers
    BY <1>3 DEF IncInv, RunTypeOK, Jobs
  <2>4. parseCache' = Saved(kept) /\ legacy' = legacy \union own \union Tears(kept) \union Shares(kept)
    BY <2>1
  <2> HIDE DEF kept
  <2>5. RunTypeOK'
    <3>1. DOMAIN parseCache' = DOMAIN parseCache \union {EntryOf(current[f]) : f \in kept}
      BY <2>4 DEF Saved
    <3>2. \A f \in kept : EntryOf(current[f]) = <<job.parser, current[f]>> /\ current[f] \in Contents
      BY <2>3 DEF EntryOf, IncInv, RunTypeOK
    <3>3. DOMAIN parseCache' \subseteq Parsers \X Contents
      BY <2>3, <3>1, <3>2 DEF IncInv, RunTypeOK
    <3> QED BY <1>1, <2>2, <2>4, <3>3 DEF IncInv, RunTypeOK, Tears, Shares, Mishaps, NoHashes
  <2>6. CacheOfRecord'
    <3> SUFFICES ASSUME ~Spoilt(legacy')
                 PROVE  \A f \in DOMAIN hashes', p \in Parsers : Right(f, hashes[f], p)'
      BY DEF CacheOfRecord, Right
    <3>1. ~Spoilt(legacy) /\ Tears(kept) = {} /\ Shares(kept) = {}
      BY <2>4 DEF Spoilt, Tears, Shares
    <3> QED BY <1>3, <2>2, <2>3, <2>4, <3>1, RecordStaysRight DEF IncInv, Right
  <2>7. NewestOfRecord'
    BY <1>1, <1>3, <2>2, <2>4 DEF IncInv, NewestOfRecord
  <2> QED BY <1>2, <2>5, <2>6, <2>7 DEF IncInv
<1>4. CASE step = "parsed"
  <2>1. legacy' = legacy \union own /\ UNCHANGED <<hashes, printed, parseCache, newest>>
    BY <1>4 DEF Die, recordVars
  <2>2. RunTypeOK'
    BY <1>1, <2>1 DEF IncInv, RunTypeOK, NoHashes
  <2>3. CacheOfRecord'
    BY <1>1, <1>4, <2>1 DEF IncInv, CacheOfRecord, Right, Spoilt
  <2>4. NewestOfRecord'
    BY <1>1, <1>4, <2>1 DEF IncInv, NewestOfRecord
  <2> QED BY <1>2, <2>2, <2>3, <2>4 DEF IncInv
<1>5. CASE step \in {"resolved", "written", "recorded"}
  <2>1. legacy' = legacy \union own \union {"died"} /\ UNCHANGED parseCache
    BY <1>5 DEF Die
  <2>2. hashes' \in {hashes, NoHashes} /\ (step = "recorded" => hashes' = current)
    BY <1>5 DEF Die, IncInv, NewestOfRun
  <2>3. RunTypeOK'
    BY <1>1, <2>1, <2>2 DEF IncInv, RunTypeOK, NoHashes, Mishaps
  <2>4. NewestOfRecord'
    BY <2>1 DEF NewestOfRecord
  <2>5. CacheOfRecord'
    <3> SUFFICES ASSUME ~Spoilt(legacy'), NEW f \in DOMAIN hashes', NEW p \in Parsers,
                        <<p, hashes'[f]>> \in DOMAIN parseCache
                 PROVE  parseCache[<<p, hashes'[f]>>] = Unit(f, hashes'[f], p)
      BY <2>1 DEF CacheOfRecord, Right
    <3>1. ~Spoilt(legacy) /\ {"torn", "skipped", "shared"} \intersect own = {}
      BY <2>1 DEF Spoilt
    <3>2. CASE step = "recorded"
      <4>1. hashes' = current /\ p = job.parser
        BY <2>2, <3>2 DEF IncInv, RunTypeOK
      <4>2. Right(f, current[f], job.parser)
        BY <3>1, <3>2, <4>1 DEF IncInv, CacheOfRun
      <4> QED BY <4>1, <4>2 DEF Right
    <3>3. CASE step # "recorded"
      <4>1. hashes' = hashes
        BY <2>2 DEF NoHashes
      <4>2. Right(f, hashes[f], p)
        BY <3>1, <3>3, <4>1 DEF IncInv, CacheOfRecord
      <4> QED BY <4>1, <4>2 DEF Right
    <3> QED BY <3>2, <3>3
  <2> QED BY <1>2, <2>3, <2>4, <2>5 DEF IncInv
<1> QED BY <1>3, <1>4, <1>5 DEF Die

THEOREM IncrementalInvariant == IncSpec => []IncInv
<1>1. IncInit => IncInv
  BY IncInitInv
<1>2. IncInv /\ [IncNext]_incVars => IncInv'
  <2> SUFFICES ASSUME IncInv, [IncNext]_incVars PROVE IncInv'
    OBVIOUS
  <2>1. CASE IncNext
    BY <2>1, EditsKeep, StartKeeps, ReuseKeeps, ParseKeeps, ResolveKeeps, WriteKeeps,
       SaveHashesKeeps, SavePrintKeeps, DieKeeps DEF IncNext
  <2>2. CASE UNCHANGED incVars
    <3> USE <2>2 DEF incVars, inputVars, recordVars, runVars
    <3>1. RunTypeOK' /\ CacheOfRecord'
      BY DEF IncInv, RunTypeOK, CacheOfRecord, Right, Spoilt
    <3>2. CacheOfRun' /\ NewestOfRecord'
      BY DEF IncInv, CacheOfRun, Right, Spoilt, Twins, NewestOfRecord
    <3>3. NewestOfRun'
      BY DEF IncInv, NewestOfRun, Sound, Spoilt, Full, FullUnits
    <3> QED BY <3>1, <3>2, <3>3 DEF IncInv
  <2> QED BY <2>1, <2>2
<1> QED BY <1>1, <1>2, PTL DEF IncSpec

-----------------------------------------------------------------------------
(* What the invariant is for *)

\* The graph an incremental run resolves and writes is the graph a run from
\* scratch would, with the mishaps of WritesFullGraph excluded.
THEOREM IncrementalIsFull == IncSpec => []WritesFullGraph
<1>1. IncInv => WritesFullGraph
  BY DEF IncInv, NewestOfRun, WritesFullGraph
<1> QED BY <1>1, IncrementalInvariant, PTL

\* The gate of the no-op opens on right artifacts only.
THEOREM ReuseIsRight == IncSpec => []ReuseIsFull
<1>1. IncInv => ReuseIsFull
  <2> SUFFICES ASSUME IncInv, step = "hashed", NothingChanged, legacy = {}
               PROVE  /\ newest.whole /\ newest.units = FullUnits
                      /\ newest.patterns = patterns /\ newest.resources = resources
    BY DEF ReuseIsFull
  <2>1. DOMAIN hashes = DOMAIN current /\ \A f \in DOMAIN current : hashes[f] = current[f]
    BY DEF NothingChanged, Changed, SameFiles
  <2>2. printed = [parser |-> job.parser, patterns |-> patterns]
    BY DEF NothingChanged, Fingerprint
  <2>3. newest = [units |-> {Unit(f, hashes[f], printed.parser) : f \in DOMAIN hashes},
                  patterns |-> printed.patterns, resources |-> resources, whole |-> TRUE]
    BY <2>2 DEF IncInv, NewestOfRecord
  <2> QED BY <2>1, <2>2, <2>3 DEF FullUnits
<1> QED BY <1>1, IncrementalInvariant, PTL

-----------------------------------------------------------------------------
(* The embedding tables *)

LEMMA NoRowsIsRows == NoRows \in RowsOfNode
  BY DEF NoRows, RowsOfNode

LEMMA AtRestIsRun == AtRest \in EmbedRuns
  BY NoRowsIsRows DEF AtRest, EmbedRuns

LEMMA GraphsArePieces ==
  ASSUME NEW chunks \in Chunkings \cup {<<>>}
  PROVE  chunks \in Seq(Pieces)
<1>1. CASE chunks \in Chunkings
  BY <1>1, ChunkingsAssumption DEF Pieces
<1>2. CASE chunks = <<>>
  BY <1>2
<1> QED
  BY <1>1, <1>2

LEMMA NodesAreEmbeddable ==
  ASSUME NEW chunks \in Chunkings \cup {<<>>}
  PROVE  NodesOf(chunks) \subseteq Embeddable
<1>1. \A i \in DOMAIN chunks : chunks[i] \in Pieces
  BY GraphsArePieces
<1> QED
  BY <1>1 DEF NodesOf, Pieces

\* A row that was written is there.
LEMMA WrittenIsNotEmpty ==
  ASSUME NEW f \in RowsOfNode, NEW i \in Indices, NEW t \in Texts
  PROVE  [f EXCEPT ![i] = t] \in RowsOfNode /\ [f EXCEPT ![i] = t] # NoRows
<1>1. [f EXCEPT ![i] = t][i] = t
  BY DEF RowsOfNode
<1>2. NoRows[i] = NoText
  BY DEF NoRows
<1> QED
  BY <1>1, <1>2, TextAssumption DEF RowsOfNode

-----------------------------------------------------------------------------
(* The tables a first run finds *)

LEMMA EmbedInitInv == EmbedInit => EmbedInv
<1> SUFFICES ASSUME EmbedInit PROVE EmbedInv
  OBVIOUS
<1>1. rows \in [Embeddable -> RowsOfNode]
  BY DEF EmbedInit, Recorded, RowsOfNode
<1>2. EmbedTypeOK
  BY <1>1, NoRowsIsRows, AtRestIsRun DEF EmbedInit, EmbedTypeOK, Causes, EmbedRuns
<1>3. VectorsFollowRows
  BY <1>1 DEF EmbedInit, VectorsFollowRows, HasRows
<1>4. EmbedBookkeeping
  BY DEF EmbedInit, EmbedBookkeeping, AtRest
<1> QED
  BY <1>2, <1>3, <1>4 DEF EmbedInv

-----------------------------------------------------------------------------
(* Steps *)

\* Where a step leaves the tables alone, the invariant follows from what it
\* makes of one run: what that run would refresh it goes on to refresh, or it
\* is accounted for.
LEMMA OneRunMoves ==
  ASSUME EmbedInv, NEW r \in Runners, NEW run \in EmbedRuns,
         runner' = [runner EXCEPT ![r] = run],
         UNCHANGED <<rows, vectors>>,
         embeds' \in Nat, alone' \subseteq Runners, astray' \in [Embeddable -> Causes],
         \A n \in Embeddable :
           /\ astray[n] # "none" => astray'[n] # "none"
           /\ Refreshes(r, n) =>
                \/ vectors[n] = rows[n] \/ astray'[n] # "none"
                \/ n \in run.changed /\ (run.at = "store" => run.means[n] # NoRows)
           /\ n \in run.changed => run.at \in {"write", "refresh", "store"}
           /\ run.means[n] # NoRows => run.at = "store" /\ n \in run.changed /\ HasRows(n)
  PROVE  EmbedInv'
<1>1. runner \in [Runners -> EmbedRuns]
  BY DEF EmbedInv, EmbedTypeOK, EmbedRuns
<1>2. runner'[r] = run /\ \A s \in Runners \ {r} : runner'[s] = runner[s]
  BY <1>1
<1>3. EmbedTypeOK'
  BY <1>1 DEF EmbedInv, EmbedTypeOK, EmbedRuns
<1>4. VectorsFollowRows'
  BY <1>2 DEF EmbedInv, VectorsFollowRows, Refreshes
<1>5. EmbedBookkeeping'
  BY <1>2 DEF EmbedInv, EmbedBookkeeping, HasRows
<1> QED
  BY <1>3, <1>4, <1>5 DEF EmbedInv

\* A run that goes on with the nodes it has to refresh.
LEMMA OneRunGoesOn ==
  ASSUME EmbedInv, NEW r \in Runners, NEW run \in EmbedRuns,
         runner' = [runner EXCEPT ![r] = run],
         UNCHANGED <<rows, vectors, embeds, alone, astray>>,
         runner[r].at # "store", run.at \in {"write", "refresh"},
         run.changed = runner[r].changed, run.means = runner[r].means
  PROVE  EmbedInv'
<1>1. embeds' \in Nat /\ alone' \subseteq Runners /\ astray' \in [Embeddable -> Causes]
  BY DEF EmbedInv, EmbedTypeOK
<1>2. \A n \in Embeddable : run.means[n] = NoRows
  BY DEF EmbedInv, EmbedBookkeeping
<1>3. \A n \in Embeddable : Refreshes(r, n) => n \in run.changed /\ (run.at = "store" => run.means[n] # NoRows)
  BY DEF Refreshes
<1> QED
  BY <1>1, <1>2, <1>3, OneRunMoves

LEMMA BeginStep == ASSUME EmbedInv, NEW r \in Runners, BeginEmbed(r) \/ BeginDiscover(r) PROVE EmbedInv'
<1>1. PICK first \in {"read", "count"}, chunks \in Chunkings, embedding \in BOOLEAN :
        Begin(r, first, chunks, embedding)
  BY DEF BeginEmbed, BeginDiscover
<1> DEFINE run == [AtRest EXCEPT !.at = first, !.chunks = chunks, !.embeds = embedding]
<1>2. run \in EmbedRuns /\ run.changed = {} /\ \A n \in Embeddable : run.means[n] = NoRows
  BY AtRestIsRun DEF EmbedRuns, AtRest
<1>3. \A n \in Embeddable : ~Refreshes(r, n)
  BY <1>1 DEF EmbedInv, EmbedBookkeeping, Begin, Resting, Refreshes
<1>4. runner' = [runner EXCEPT ![r] = run] /\ UNCHANGED <<rows, vectors, astray>>
  BY <1>1 DEF Begin
<1>5. embeds' \in Nat /\ alone' \subseteq Runners /\ astray' \in [Embeddable -> Causes]
  BY <1>1 DEF Begin, EmbedInv, EmbedTypeOK
<1> HIDE DEF run
<1> QED
  BY <1>2, <1>3, <1>4, <1>5, OneRunMoves

LEMMA ReadStep == ASSUME EmbedInv, NEW r \in Runners, ReadExisting(r) PROVE EmbedInv'
<1> DEFINE known == {c \in DOMAIN runner[r].chunks : OnRecord(runner[r].chunks[c])}
           run == [runner[r] EXCEPT !.at = "write", !.existing = known]
<1>1. runner[r] \in EmbedRuns
  BY DEF EmbedInv, EmbedTypeOK
<1>2. runner[r].chunks \in Seq(Pieces)
  BY <1>1, GraphsArePieces DEF EmbedRuns
<1>3. known \subseteq Nat
  BY <1>2
<1>4. runner' = [runner EXCEPT ![r] = run] /\ UNCHANGED <<rows, vectors, embeds, alone, astray>>
  BY DEF ReadExisting, EmbedInv, EmbedTypeOK
<1> HIDE DEF known
<1>5. run \in EmbedRuns
  BY <1>1, <1>3 DEF EmbedRuns
<1>6. run.at = "write" /\ run.changed = runner[r].changed /\ run.means = runner[r].means /\ runner[r].at = "read"
  BY <1>1 DEF EmbedRuns, ReadExisting
<1> HIDE DEF run
<1> QED
  BY <1>4, <1>5, <1>6, OneRunGoesOn

LEMMA SkipStep == ASSUME EmbedInv, NEW r \in Runners, SkipChunk(r) PROVE EmbedInv'
<1> DEFINE run == [runner[r] EXCEPT !.next = @ + 1]
<1>1. runner[r] \in EmbedRuns
  BY DEF EmbedInv, EmbedTypeOK
<1>2. runner' = [runner EXCEPT ![r] = run] /\ UNCHANGED <<rows, vectors, embeds, alone, astray>>
  BY DEF SkipChunk, EmbedInv, EmbedTypeOK
<1>3. run \in EmbedRuns
  BY <1>1 DEF EmbedRuns
<1>4. run.at = "write" /\ run.changed = runner[r].changed /\ run.means = runner[r].means /\ runner[r].at = "write"
  BY <1>1 DEF EmbedRuns, SkipChunk, Writing
<1> HIDE DEF run
<1> QED
  BY <1>2, <1>3, <1>4, OneRunGoesOn

LEMMA AllWrittenStep == ASSUME EmbedInv, NEW r \in Runners, AllWritten(r) PROVE EmbedInv'
<1> DEFINE run == [runner[r] EXCEPT !.at = "refresh"]
<1>1. runner[r] \in EmbedRuns
  BY DEF EmbedInv, EmbedTypeOK
<1>2. runner' = [runner EXCEPT ![r] = run] /\ UNCHANGED <<rows, vectors, embeds, alone, astray>>
  BY DEF AllWritten, EmbedInv, EmbedTypeOK
<1>3. run \in EmbedRuns
  BY <1>1 DEF EmbedRuns
<1>4. run.at = "refresh" /\ run.changed = runner[r].changed /\ run.means = runner[r].means /\ runner[r].at = "write"
  BY <1>1 DEF EmbedRuns, AllWritten
<1> HIDE DEF run
<1> QED
  BY <1>2, <1>3, <1>4, OneRunGoesOn

LEMMA CountStep == ASSUME EmbedInv, NEW r \in Runners, CountVectors(r) PROVE EmbedInv'
<1>1. runner[r] \in EmbedRuns /\ UNCHANGED <<rows, vectors, embeds, alone, astray>> /\ runner[r].at = "count"
  BY DEF EmbedInv, EmbedTypeOK, CountVectors
<1>2. \A n \in Embeddable : n \notin runner[r].changed /\ runner[r].means[n] = NoRows /\ ~Refreshes(r, n)
  BY <1>1 DEF EmbedInv, EmbedBookkeeping, Refreshes
<1>3. ASSUME NEW run \in EmbedRuns, runner' = [runner EXCEPT ![r] = run],
             run.at \in {"refresh", "done"}, run.means = runner[r].means,
             run.at = "done" => run.changed = runner[r].changed
      PROVE  EmbedInv'
  <2>1. embeds' \in Nat /\ alone' \subseteq Runners /\ astray' \in [Embeddable -> Causes] /\ astray' = astray
    BY <1>1 DEF EmbedInv, EmbedTypeOK
  <2>2. \A n \in Embeddable : n \in run.changed => run.at = "refresh"
    BY <1>2, <1>3
  <2>3. \A n \in Embeddable : run.means[n] = NoRows
    BY <1>2, <1>3
  <2> QED BY <1>1, <1>2, <1>3, <2>1, <2>2, <2>3, OneRunMoves
<1>4. CASE \A n \in Embeddable : vectors[n] = NoRows
  <2> DEFINE run == [runner[r] EXCEPT !.at = "refresh", !.changed = NodesOf(runner[r].chunks)]
  <2>1. NodesOf(runner[r].chunks) \subseteq Embeddable
    BY <1>1, NodesAreEmbeddable DEF EmbedRuns
  <2>2. run \in EmbedRuns /\ run.at = "refresh" /\ run.means = runner[r].means
    BY <1>1, <2>1 DEF EmbedRuns
  <2>3. runner' = [runner EXCEPT ![r] = run]
    BY <1>4 DEF CountVectors, EmbedInv, EmbedTypeOK
  <2> HIDE DEF run
  <2> QED
    BY <1>3, <2>2, <2>3
<1>5. CASE ~\A n \in Embeddable : vectors[n] = NoRows
  <2> DEFINE run == [runner[r] EXCEPT !.at = "done"]
  <2>1. run \in EmbedRuns /\ run.at = "done" /\ run.means = runner[r].means /\ run.changed = runner[r].changed
    BY <1>1 DEF EmbedRuns
  <2>2. runner' = [runner EXCEPT ![r] = run]
    BY <1>5 DEF CountVectors, EmbedInv, EmbedTypeOK
  <2> HIDE DEF run
  <2> QED
    BY <1>3, <2>1, <2>2
<1> QED
  BY <1>4, <1>5

LEMMA AverageStep == ASSUME EmbedInv, NEW r \in Runners, AverageRows(r) PROVE EmbedInv'
<1> DEFINE means == [n \in Embeddable |-> IF n \in runner[r].changed THEN rows[n] ELSE NoRows]
           run == [runner[r] EXCEPT !.at = "store", !.means = means]
<1>1. runner[r] \in EmbedRuns /\ rows \in [Embeddable -> RowsOfNode]
  BY DEF EmbedInv, EmbedTypeOK
<1>2. runner' = [runner EXCEPT ![r] = run] /\ UNCHANGED <<rows, vectors, embeds, alone, astray>>
  BY DEF AverageRows, EmbedInv, EmbedTypeOK
<1>3. means \in [Embeddable -> RowsOfNode]
  BY <1>1, NoRowsIsRows
<1>4. \A n \in Embeddable : means[n] # NoRows => n \in runner[r].changed /\ HasRows(n)
  BY DEF HasRows
<1>5. \A n \in Embeddable : n \in runner[r].changed /\ means[n] = NoRows => vectors[n] = rows[n]
  BY DEF EmbedInv, EmbedBookkeeping, HasRows
<1> HIDE DEF means
<1>6. run \in EmbedRuns
  BY <1>1, <1>3 DEF EmbedRuns
<1>7. run.at = "store" /\ run.changed = runner[r].changed /\ run.means = means
  BY <1>1 DEF EmbedRuns
<1> HIDE DEF run
<1> QED
  BY <1>2, <1>4, <1>5, <1>6, <1>7, OneRunMoves DEF EmbedInv, EmbedTypeOK, Refreshes

LEMMA StopStep == ASSUME EmbedInv, NEW r \in Runners, Stop(r) PROVE EmbedInv'
<1>1. runner' = [runner EXCEPT ![r] = AtRest] /\ UNCHANGED <<rows, vectors, embeds, alone>>
  BY DEF Stop
<1>2. astray' = [n \in Embeddable |->
        IF n \in runner[r].changed /\ vectors[n] # rows[n] THEN "stopped" ELSE astray[n]]
  BY DEF Stop
<1>3. astray' \in [Embeddable -> Causes]
  BY <1>2 DEF EmbedInv, EmbedTypeOK, Causes
<1>4. AtRest.changed = {} /\ \A n \in Embeddable : AtRest.means[n] = NoRows
  BY DEF AtRest
<1> QED
  BY <1>1, <1>2, <1>3, <1>4, AtRestIsRun, OneRunMoves DEF EmbedInv, EmbedTypeOK, Refreshes

-----------------------------------------------------------------------------
(* Steps that write the tables *)

LEMMA UpsertStep == ASSUME EmbedInv, NEW r \in Runners, UpsertChunk(r) PROVE EmbedInv'
<1> DEFINE chunk == Chunk(r)
           run == [runner[r] EXCEPT !.next = @ + 1, !.changed = @ \cup {chunk.node}]
<1>1. runner[r] \in EmbedRuns /\ runner \in [Runners -> EmbedRuns] /\ rows \in [Embeddable -> RowsOfNode]
  BY DEF EmbedInv, EmbedTypeOK
<1>2. chunk \in Pieces
  <2>1. runner[r].chunks \in Seq(Pieces) /\ runner[r].next \in 1 .. Len(runner[r].chunks)
    BY <1>1, GraphsArePieces DEF EmbedRuns, UpsertChunk, Writing
  <2> QED
    BY <2>1 DEF Chunk
<1>3. chunk.node \in Embeddable /\ chunk.idx \in Indices /\ chunk.text \in Texts
  BY <1>2 DEF Pieces
<1>4. /\ runner' = [runner EXCEPT ![r] = run]
      /\ rows' = [rows EXCEPT ![chunk.node] = [rows[chunk.node] EXCEPT ![chunk.idx] = chunk.text]]
      /\ UNCHANGED <<vectors, embeds, alone, astray>>
      /\ runner[r].at = "write"
  BY <1>1 DEF UpsertChunk, Writing
<1> HIDE DEF chunk
<1>5. /\ rows' \in [Embeddable -> RowsOfNode] /\ rows'[chunk.node] # NoRows
      /\ \A n \in Embeddable \ {chunk.node} : rows'[n] = rows[n]
  BY <1>1, <1>3, <1>4, WrittenIsNotEmpty
<1>6. /\ run \in EmbedRuns /\ run.at = "write" /\ run.means = runner[r].means
      /\ run.changed = runner[r].changed \cup {chunk.node}
  <2>1. runner[r].next + 1 \in Nat \ {0} /\ runner[r].changed \cup {chunk.node} \in SUBSET Embeddable
    BY <1>1, <1>3 DEF EmbedRuns
  <2> QED
    BY <1>1, <1>4, <2>1 DEF EmbedRuns
<1> HIDE DEF run
<1>7. runner'[r] = run /\ \A s \in Runners \ {r} : runner'[s] = runner[s]
  BY <1>1, <1>4
<1>8. EmbedTypeOK'
  BY <1>1, <1>4, <1>5, <1>6 DEF EmbedInv, EmbedTypeOK
<1>9. VectorsFollowRows'
  BY <1>4, <1>5, <1>6, <1>7 DEF EmbedInv, VectorsFollowRows, Refreshes
<1>10. EmbedBookkeeping'
  BY <1>4, <1>5, <1>6, <1>7 DEF EmbedInv, EmbedBookkeeping, HasRows
<1> QED
  BY <1>8, <1>9, <1>10 DEF EmbedInv

LEMMA StoreStep == ASSUME EmbedInv, NEW r \in Runners, StoreVectors(r) PROVE EmbedInv'
<1> DEFINE means == runner[r].means
           run == [runner[r] EXCEPT !.at = "prune", !.changed = {}, !.means = AtRest.means]
<1>1. /\ runner[r] \in EmbedRuns /\ runner \in [Runners -> EmbedRuns]
      /\ rows \in [Embeddable -> RowsOfNode] /\ vectors \in [Embeddable -> RowsOfNode]
  BY DEF EmbedInv, EmbedTypeOK
<1>2. means \in [Embeddable -> RowsOfNode]
  BY <1>1 DEF EmbedRuns
<1>3. /\ runner' = [runner EXCEPT ![r] = run]
      /\ vectors' = [n \in Embeddable |-> IF means[n] # NoRows THEN means[n] ELSE vectors[n]]
      /\ astray' = [n \in Embeddable |->
           IF means[n] = NoRows THEN astray[n] ELSE IF means[n] = rows[n] THEN "none" ELSE "raced"]
      /\ UNCHANGED <<rows, embeds, alone>>
      /\ runner[r].at = "store"
  BY <1>1 DEF StoreVectors
<1>4. run \in EmbedRuns /\ run.at = "prune" /\ run.changed = {} /\ \A n \in Embeddable : run.means[n] = NoRows
  BY <1>1, AtRestIsRun DEF EmbedRuns, AtRest
<1> HIDE DEF run
<1>5. runner'[r] = run /\ \A s \in Runners \ {r} : runner'[s] = runner[s]
  BY <1>1, <1>3
<1>6. \A n \in Embeddable : means[n] # NoRows => HasRows(n)
  BY DEF EmbedInv, EmbedBookkeeping
<1>7. \A n \in Embeddable : means[n] = NoRows => ~Refreshes(r, n)
  BY <1>3 DEF Refreshes
<1> HIDE DEF means
<1>8. EmbedTypeOK'
  <2>1. vectors' \in [Embeddable -> RowsOfNode]
    BY <1>1, <1>2, <1>3
  <2>2. astray' \in [Embeddable -> Causes]
    BY <1>3 DEF EmbedInv, EmbedTypeOK, Causes
  <2>3. runner' \in [Runners -> EmbedRuns]
    BY <1>1, <1>3, <1>4
  <2> QED
    BY <1>3, <2>1, <2>2, <2>3 DEF EmbedInv, EmbedTypeOK
<1>9. VectorsFollowRows'
  <2> SUFFICES ASSUME NEW n \in Embeddable
               PROVE  vectors'[n] = rows'[n] \/ astray'[n] # "none" \/ \E s \in Runners : Refreshes(s, n)'
    BY DEF VectorsFollowRows
  <2>1. CASE means[n] # NoRows
    BY <1>3, <2>1
  <2>2. CASE means[n] = NoRows
    <3>1. vectors[n] = rows[n] \/ astray[n] # "none" \/ \E s \in Runners : Refreshes(s, n)
      BY DEF EmbedInv, VectorsFollowRows
    <3>2. \A s \in Runners : Refreshes(s, n) => Refreshes(s, n)'
      BY <1>5, <1>7, <2>2 DEF Refreshes
    <3> QED
      BY <1>3, <2>2, <3>1, <3>2
  <2> QED
    BY <2>1, <2>2
<1>10. EmbedBookkeeping'
  <2>1. \A n \in Embeddable : vectors'[n] # NoRows => HasRows(n)'
    BY <1>3, <1>6 DEF EmbedInv, EmbedBookkeeping, HasRows
  <2>2. \A s \in Runners, n \in Embeddable :
          /\ n \in runner'[s].changed => runner'[s].at \in {"write", "refresh", "store"}
          /\ runner'[s].means[n] # NoRows => runner'[s].at = "store" /\ n \in runner'[s].changed /\ HasRows(n)'
    BY <1>3, <1>4, <1>5 DEF EmbedInv, EmbedBookkeeping, HasRows
  <2> QED
    BY <2>1, <2>2 DEF EmbedBookkeeping
<1> QED
  BY <1>8, <1>9, <1>10 DEF EmbedInv

LEMMA PruneStep == ASSUME EmbedInv, NEW r \in Runners, PruneVectors(r) PROVE EmbedInv'
<1> DEFINE run == [runner[r] EXCEPT !.at = "done"]
<1>1. /\ runner[r] \in EmbedRuns /\ runner \in [Runners -> EmbedRuns]
      /\ vectors \in [Embeddable -> RowsOfNode]
  BY DEF EmbedInv, EmbedTypeOK
<1>2. /\ runner' = [runner EXCEPT ![r] = run]
      /\ vectors' = [n \in Embeddable |-> IF n \in Kept(r) THEN vectors[n] ELSE NoRows]
      /\ astray' = [n \in Embeddable |-> IF n \notin Kept(r) /\ HasRows(n) THEN "pruned" ELSE astray[n]]
      /\ UNCHANGED <<rows, embeds, alone>>
      /\ runner[r].at = "prune"
  BY <1>1 DEF PruneVectors
<1>3. run \in EmbedRuns /\ run.at = "done" /\ run.changed = runner[r].changed /\ run.means = runner[r].means
  BY <1>1 DEF EmbedRuns
<1> HIDE DEF run
<1>4. runner'[r] = run /\ \A s \in Runners \ {r} : runner'[s] = runner[s]
  BY <1>1, <1>2
<1>5. \A n \in Embeddable : n \notin runner[r].changed /\ runner[r].means[n] = NoRows
  BY <1>2 DEF EmbedInv, EmbedBookkeeping
<1>6. EmbedTypeOK'
  <2>1. vectors' \in [Embeddable -> RowsOfNode]
    BY <1>1, <1>2, NoRowsIsRows
  <2>2. astray' \in [Embeddable -> Causes]
    BY <1>2 DEF EmbedInv, EmbedTypeOK, Causes
  <2>3. runner' \in [Runners -> EmbedRuns]
    BY <1>1, <1>2, <1>3
  <2> QED
    BY <1>2, <2>1, <2>2, <2>3 DEF EmbedInv, EmbedTypeOK
<1>7. VectorsFollowRows'
  <2> SUFFICES ASSUME NEW n \in Embeddable
               PROVE  vectors'[n] = rows'[n] \/ astray'[n] # "none" \/ \E s \in Runners : Refreshes(s, n)'
    BY DEF VectorsFollowRows
  <2>1. vectors[n] = rows[n] \/ astray[n] # "none" \/ \E s \in Runners : Refreshes(s, n)
    BY DEF EmbedInv, VectorsFollowRows
  <2>2. \A s \in Runners : Refreshes(s, n) => Refreshes(s, n)'
    BY <1>4, <1>5 DEF Refreshes
  <2>3. CASE n \in Kept(r)
    BY <1>2, <2>1, <2>2, <2>3
  <2>4. CASE n \notin Kept(r)
    BY <1>2, <2>4 DEF HasRows
  <2> QED
    BY <2>3, <2>4
<1>8. EmbedBookkeeping'
  <2>1. \A n \in Embeddable : vectors'[n] # NoRows => HasRows(n)'
    BY <1>2 DEF EmbedInv, EmbedBookkeeping, HasRows
  <2>2. \A s \in Runners, n \in Embeddable :
          /\ n \in runner'[s].changed => runner'[s].at \in {"write", "refresh", "store"}
          /\ runner'[s].means[n] # NoRows => runner'[s].at = "store" /\ n \in runner'[s].changed /\ HasRows(n)'
    BY <1>2, <1>3, <1>4, <1>5 DEF EmbedInv, EmbedBookkeeping, HasRows
  <2> QED
    BY <2>1, <2>2 DEF EmbedBookkeeping
<1> QED
  BY <1>6, <1>7, <1>8 DEF EmbedInv

-----------------------------------------------------------------------------
\* For any number of processes, repositories, graphs and deaths, the vector of a
\* node is the mean of its rows unless a run under way has yet to make it or the
\* history names why it is not.
THEOREM EmbedCorrect == EmbedSpec => []EmbedInv
<1>1. EmbedInv /\ [EmbedNext]_embedVars => EmbedInv'
  <2> SUFFICES ASSUME EmbedInv, [EmbedNext]_embedVars PROVE EmbedInv'
    OBVIOUS
  <2>1. CASE UNCHANGED embedVars
    BY <2>1 DEF embedVars, EmbedInv, EmbedTypeOK, VectorsFollowRows, Refreshes, EmbedBookkeeping, HasRows
  <2>2. CASE EmbedNext
    BY <2>2, BeginStep, ReadStep, SkipStep, UpsertStep, AllWrittenStep, CountStep, AverageStep, StoreStep,
       PruneStep, StopStep DEF EmbedNext
  <2> QED
    BY <2>1, <2>2
<1> QED
  BY <1>1, EmbedInitInv, PTL DEF EmbedSpec

-----------------------------------------------------------------------------
(* What a run by itself leaves *)

\* What a run has put on record: what it read there, and what it has written.
Past(run, c) ==
  \/ run.at \in {"refresh", "store", "prune", "done"}
  \/ run.at = "write" /\ (c < run.next \/ c \in run.existing)

\* A run that keeps the tables to itself finds on record what it read and wrote.
InOrder(run) == run.embeds =>
  /\ run.at # "count" /\ (run.at = "read" => run.next = 1)
  /\ \A c \in DOMAIN run.chunks :
       Sole(run.chunks, c) /\ Past(run, c) => OnRecord(run.chunks[c])
  /\ run.at = "done" /\ NodesOf(run.chunks) # {} =>
       \A n \in Embeddable \ NodesOf(run.chunks) : vectors[n] = NoRows

Undisturbed ==
  \A r \in alone :
    /\ alone = {r} /\ \A s \in Runners \ {r} : Resting(s)
    /\ InOrder(runner[r])

LEMMA FirstInOrder ==
  ASSUME NEW run, run.embeds => run.at = "read" /\ run.next = 1
  PROVE  InOrder(run)'
BY DEF InOrder, Past

\* A run that begins is alone only if nobody else is under way.
LEMMA BeginsUndisturbed ==
  ASSUME EmbedInv, Undisturbed, NEW r \in Runners, BeginEmbed(r) \/ BeginDiscover(r)
  PROVE  Undisturbed'
<1>1. PICK first \in {"read", "count"}, chunks \in Chunkings, embedding \in BOOLEAN :
        Begin(r, first, chunks, embedding) /\ (embedding => first = "read")
  BY DEF BeginEmbed, BeginDiscover
<1> DEFINE run == [AtRest EXCEPT !.at = first, !.chunks = chunks, !.embeds = embedding]
<1>2. run.at = first /\ run.embeds = embedding /\ run.next = 1
  BY DEF AtRest
<1>3. runner' = [runner EXCEPT ![r] = run] /\ alone' = IF Overlapped(r) THEN {} ELSE {r}
  BY <1>1 DEF Begin
<1> HIDE DEF run
<1>4. runner'[r] = run /\ \A s \in Runners \ {r} : runner'[s] = runner[s]
  BY <1>3 DEF EmbedInv, EmbedTypeOK
<1>5. alone' # {} => alone' = {r} /\ \A s \in Runners \ {r} : Resting(s)'
  BY <1>3, <1>4 DEF Overlapped, Resting
<1>6. InOrder(run)'
  BY <1>1, <1>2, FirstInOrder
<1>7. InOrder(runner[r])'
  BY <1>4, <1>6 DEF InOrder
<1> QED BY <1>5, <1>7 DEF Undisturbed

\* Only the run that has the tables to itself moves.
LEMMA GoesOnUndisturbed ==
  ASSUME EmbedInv, Undisturbed, NEW r \in Runners, NEW run \in EmbedRuns,
         ~Resting(r), runner' = [runner EXCEPT ![r] = run], alone' = alone,
         InOrder(runner[r]) => InOrder(run)'
  PROVE  Undisturbed'
<1>1. runner'[r] = run /\ \A s \in Runners \ {r} : runner'[s] = runner[s]
  BY DEF EmbedInv, EmbedTypeOK
<1> SUFFICES ASSUME NEW q \in alone'
             PROVE  /\ alone' = {q} /\ \A s \in Runners \ {q} : Resting(s)'
                    /\ InOrder(runner[q])'
  BY DEF Undisturbed
<1>2. q \in alone /\ alone = {q} /\ InOrder(runner[q]) /\ \A s \in Runners \ {q} : Resting(s)
  BY DEF Undisturbed
<1>3. q = r
  BY <1>2
<1>4. \A s \in Runners \ {r} : Resting(s)'
  BY <1>1, <1>2, <1>3 DEF Resting
<1>5. InOrder(runner[r])'
  BY <1>1, <1>2, <1>3 DEF InOrder
<1> QED BY <1>2, <1>3, <1>4, <1>5

\* What a step that leaves the rows alone makes of a run.
LEMMA RowsStay ==
  ASSUME EmbedInv, Undisturbed, NEW r \in Runners, NEW run \in EmbedRuns,
         ~Resting(r), runner' = [runner EXCEPT ![r] = run], alone' = alone, rows' = rows,
         run.chunks = runner[r].chunks, run.embeds = runner[r].embeds,
         run.at # "read", run.at = "count" => runner[r].at = "count",
         InOrder(runner[r]) /\ runner[r].embeds =>
           /\ \A c \in DOMAIN run.chunks :
                Past(run, c) => Past(runner[r], c) \/ OnRecord(run.chunks[c])
           /\ run.at = "done" /\ NodesOf(run.chunks) # {} =>
                \A n \in Embeddable \ NodesOf(run.chunks) : vectors'[n] = NoRows
  PROVE  Undisturbed'
<1>1. \A c : OnRecord(run.chunks[c])' <=> OnRecord(run.chunks[c])
  BY DEF OnRecord
<1>2. ASSUME InOrder(runner[r]) PROVE InOrder(run)'
  <2> SUFFICES ASSUME run.embeds
               PROVE  /\ run.at # "count" /\ (run.at = "read" => run.next = 1)
                      /\ \A c \in DOMAIN run.chunks :
                           Sole(run.chunks, c) /\ Past(run, c) => OnRecord(run.chunks[c])'
                      /\ run.at = "done" /\ NodesOf(run.chunks) # {} =>
                           \A n \in Embeddable \ NodesOf(run.chunks) : vectors'[n] = NoRows
    BY DEF InOrder, Sole, PiecesAt, Past, NodesOf
  <2> QED BY <1>1, <1>2 DEF InOrder
<1> QED BY <1>2, GoesOnUndisturbed

\* Reading: what is on record already is what is there.
LEMMA ReadsInOrder ==
  ASSUME EmbedInv, Undisturbed, NEW r \in Runners, ReadExisting(r) PROVE Undisturbed'
<1> DEFINE known == {c \in DOMAIN runner[r].chunks : OnRecord(runner[r].chunks[c])}
           run == [runner[r] EXCEPT !.at = "write", !.existing = known]
<1>1. runner[r] \in EmbedRuns
  BY DEF EmbedInv, EmbedTypeOK
<1>2. DOMAIN runner[r].chunks \subseteq Nat \ {0}
  BY <1>1, GraphsArePieces DEF EmbedRuns
<1>3. known \subseteq Nat /\ \A c \in known : OnRecord(runner[r].chunks[c])
  BY <1>2
<1>4. runner' = [runner EXCEPT ![r] = run] /\ UNCHANGED <<rows, vectors, alone>>
      /\ runner[r].at = "read"
  BY DEF ReadExisting, EmbedInv, EmbedTypeOK
<1> HIDE DEF known
<1>5. /\ run \in EmbedRuns /\ run.at = "write" /\ run.existing = known
      /\ run.chunks = runner[r].chunks /\ run.next = runner[r].next /\ run.embeds = runner[r].embeds
  BY <1>1, <1>3 DEF EmbedRuns
<1> HIDE DEF run
<1>6. InOrder(runner[r]) /\ runner[r].embeds =>
        \A c \in DOMAIN run.chunks : Past(run, c) => OnRecord(run.chunks[c])
  BY <1>2, <1>3, <1>4, <1>5 DEF InOrder, Past
<1> QED BY <1>4, <1>5, <1>6, RowsStay DEF Resting

\* A chunk that is skipped is on record.
LEMMA SkipsInOrder ==
  ASSUME EmbedInv, Undisturbed, NEW r \in Runners, SkipChunk(r) PROVE Undisturbed'
<1> DEFINE run == [runner[r] EXCEPT !.next = @ + 1]
<1>1. runner[r] \in EmbedRuns
  BY DEF EmbedInv, EmbedTypeOK
<1>2. /\ runner' = [runner EXCEPT ![r] = run] /\ UNCHANGED <<rows, vectors, alone>>
      /\ runner[r].at = "write" /\ runner[r].next \in runner[r].existing
  BY DEF SkipChunk, Writing, EmbedInv, EmbedTypeOK
<1>3. /\ run \in EmbedRuns /\ run.at = "write" /\ run.existing = runner[r].existing
      /\ run.chunks = runner[r].chunks /\ run.next = runner[r].next + 1
      /\ run.embeds = runner[r].embeds /\ runner[r].next \in Nat
  BY <1>1, <1>2 DEF EmbedRuns
<1> HIDE DEF run
<1>4. DOMAIN run.chunks \subseteq Nat
  BY <1>3, GraphsArePieces DEF EmbedRuns
<1>5. \A c \in DOMAIN run.chunks : Past(run, c) => Past(runner[r], c)
  BY <1>2, <1>3, <1>4 DEF Past
<1> QED BY <1>2, <1>3, <1>5, RowsStay DEF Resting

\* The last chunk is behind the run.
LEMMA WrittenInOrder ==
  ASSUME EmbedInv, Undisturbed, NEW r \in Runners, AllWritten(r) PROVE Undisturbed'
<1> DEFINE run == [runner[r] EXCEPT !.at = "refresh"]
<1>1. runner[r] \in EmbedRuns
  BY DEF EmbedInv, EmbedTypeOK
<1>2. /\ runner' = [runner EXCEPT ![r] = run] /\ UNCHANGED <<rows, vectors, alone>>
      /\ runner[r].at = "write" /\ runner[r].next > Len(runner[r].chunks)
  BY DEF AllWritten, EmbedInv, EmbedTypeOK
<1>3. /\ run \in EmbedRuns /\ run.at = "refresh" /\ run.chunks = runner[r].chunks
      /\ run.embeds = runner[r].embeds
  BY <1>1 DEF EmbedRuns
<1> HIDE DEF run
<1>4. /\ DOMAIN run.chunks = 1 .. Len(run.chunks) /\ Len(run.chunks) \in Nat
      /\ runner[r].next \in Nat
  BY <1>1, <1>3, GraphsArePieces DEF EmbedRuns
<1>5. \A c \in DOMAIN run.chunks : Past(runner[r], c)
  BY <1>2, <1>3, <1>4 DEF Past
<1> QED BY <1>2, <1>3, <1>5, RowsStay DEF Resting

LEMMA OfPieces == \A q \in Seq(Pieces) : \A i \in DOMAIN q : q[i] \in Pieces /\ i \in Nat
OBVIOUS

LEMMA PastBefore ==
  ASSUME NEW run, NEW old, old.at = "write", run.at = "write", run.existing = old.existing,
         old.next \in Nat, run.next = old.next + 1, NEW c \in Nat, c # old.next, Past(run, c)
  PROVE  Past(old, c)
BY DEF Past

\* A chunk that is written is there, and writes over no chunk that is alone in
\* its place.
LEMMA WritesInOrder ==
  ASSUME EmbedInv, Undisturbed, NEW r \in Runners, NEW run \in EmbedRuns, NEW chunk \in Pieces,
         runner' = [runner EXCEPT ![r] = run], alone' = alone,
         rows' = [rows EXCEPT ![chunk.node] = [rows[chunk.node] EXCEPT ![chunk.idx] = chunk.text]],
         runner[r].at = "write", run.at = "write", run.existing = runner[r].existing,
         run.chunks = runner[r].chunks, run.chunks \in Seq(Pieces), run.embeds = runner[r].embeds,
         runner[r].next \in DOMAIN run.chunks, run.next = runner[r].next + 1,
         chunk = run.chunks[runner[r].next]
  PROVE  Undisturbed'
<1>0. \A c \in DOMAIN run.chunks : run.chunks[c] \in Pieces /\ c \in Nat
  <2>1. run.chunks \in Seq(Pieces)
    OBVIOUS
  <2> QED BY <2>1, OfPieces, Zenon
<1>1. /\ rows \in [Embeddable -> RowsOfNode]
      /\ chunk.node \in Embeddable /\ chunk.idx \in Indices
  BY DEF EmbedInv, EmbedTypeOK, Pieces
<1>2. \A other \in Pieces :
        rows'[other.node][other.idx] =
          IF other.node = chunk.node /\ other.idx = chunk.idx THEN chunk.text ELSE rows[other.node][other.idx]
  BY <1>1 DEF RowsOfNode, Pieces
<1>3. ASSUME NEW c \in DOMAIN run.chunks, Sole(run.chunks, c), Past(run, c),
             Past(runner[r], c) => OnRecord(run.chunks[c])
      PROVE  OnRecord(run.chunks[c])'
  <2>1. run.chunks[c] \in Pieces /\ c \in Nat /\ runner[r].next \in Nat
    BY <1>0
  <2>2. CASE c = runner[r].next
    BY <2>1, <2>2, <1>2 DEF OnRecord
  <2>3. CASE c # runner[r].next
    <3>1. run.chunks[c].node # chunk.node \/ run.chunks[c].idx # chunk.idx
      BY <2>3, <1>3 DEF Sole, PiecesAt
    <3>2. Past(runner[r], c)
      BY <2>1, <2>3, <1>3, PastBefore
    <3>3. OnRecord(run.chunks[c])
      BY <1>3, <3>2
    <3> QED BY <2>1, <3>1, <3>3, <1>2 DEF OnRecord
  <2> QED BY <2>2, <2>3
<1>4. ASSUME InOrder(runner[r]) PROVE InOrder(run)'
  <2>1. ASSUME run.embeds, NEW c \in DOMAIN run.chunks, Sole(run.chunks, c), Past(run, c)
        PROVE  OnRecord(run.chunks[c])'
    BY <1>3, <1>4, <2>1 DEF InOrder
  <2> QED BY <2>1 DEF InOrder
<1> QED BY <1>4, GoesOnUndisturbed DEF Resting

LEMMA UpsertsInOrder ==
  ASSUME EmbedInv, Undisturbed, NEW r \in Runners, UpsertChunk(r) PROVE Undisturbed'
<1> DEFINE chunk == Chunk(r)
           run == [runner[r] EXCEPT !.next = @ + 1, !.changed = @ \cup {chunk.node}]
<1>1. runner[r] \in EmbedRuns /\ rows \in [Embeddable -> RowsOfNode]
  BY DEF EmbedInv, EmbedTypeOK
<1>2. /\ runner[r].chunks \in Seq(Pieces) /\ runner[r].next \in DOMAIN runner[r].chunks
      /\ chunk \in Pieces /\ chunk = runner[r].chunks[runner[r].next]
  <2>1. runner[r].chunks \in Seq(Pieces) /\ runner[r].next \in 1 .. Len(runner[r].chunks)
    BY <1>1, GraphsArePieces DEF EmbedRuns, UpsertChunk, Writing
  <2> QED BY <2>1 DEF Chunk
<1>3. chunk.node \in Embeddable
  BY <1>2 DEF Pieces
<1>4. /\ runner' = [runner EXCEPT ![r] = run]
      /\ rows' = [rows EXCEPT ![chunk.node] = [rows[chunk.node] EXCEPT ![chunk.idx] = chunk.text]]
      /\ alone' = alone /\ runner[r].at = "write"
  BY <1>1 DEF UpsertChunk, Writing, EmbedInv, EmbedTypeOK
<1> HIDE DEF chunk
<1>5. /\ run \in EmbedRuns /\ run.at = "write" /\ run.existing = runner[r].existing
      /\ run.chunks = runner[r].chunks /\ run.next = runner[r].next + 1
      /\ run.embeds = runner[r].embeds
  <2>1. runner[r].next + 1 \in Nat \ {0} /\ runner[r].changed \cup {chunk.node} \in SUBSET Embeddable
    BY <1>1, <1>3 DEF EmbedRuns
  <2> QED BY <1>1, <1>4, <2>1 DEF EmbedRuns
<1> HIDE DEF run
<1> QED BY <1>2, <1>4, <1>5, WritesInOrder

\* A run that only counts vectors does not embed.
LEMMA CountsInOrder ==
  ASSUME EmbedInv, Undisturbed, NEW r \in Runners, CountVectors(r) PROVE Undisturbed'
<1>1. runner[r] \in EmbedRuns /\ runner[r].at = "count" /\ alone' = alone
  BY DEF EmbedInv, EmbedTypeOK, CountVectors
<1>2. ASSUME NEW run \in EmbedRuns, runner' = [runner EXCEPT ![r] = run], run.embeds = runner[r].embeds
      PROVE  Undisturbed'
  <2>1. InOrder(runner[r]) => ~run.embeds
    BY <1>1, <1>2 DEF InOrder
  <2>2. ~run.embeds => InOrder(run)'
    BY DEF InOrder
  <2> QED BY <1>1, <1>2, <2>1, <2>2, GoesOnUndisturbed DEF Resting
<1>3. CASE \A n \in Embeddable : vectors[n] = NoRows
  <2> DEFINE run == [runner[r] EXCEPT !.at = "refresh", !.changed = NodesOf(runner[r].chunks)]
  <2>1. NodesOf(runner[r].chunks) \subseteq Embeddable
    BY <1>1, NodesAreEmbeddable DEF EmbedRuns
  <2>2. run \in EmbedRuns /\ run.embeds = runner[r].embeds
    BY <1>1, <2>1 DEF EmbedRuns
  <2>3. runner' = [runner EXCEPT ![r] = run]
    BY <1>3 DEF CountVectors, EmbedInv, EmbedTypeOK
  <2> HIDE DEF run
  <2> QED BY <1>2, <2>2, <2>3
<1>4. CASE ~\A n \in Embeddable : vectors[n] = NoRows
  <2> DEFINE run == [runner[r] EXCEPT !.at = "done"]
  <2>1. run \in EmbedRuns /\ run.embeds = runner[r].embeds
    BY <1>1 DEF EmbedRuns
  <2>2. runner' = [runner EXCEPT ![r] = run]
    BY <1>4 DEF CountVectors, EmbedInv, EmbedTypeOK
  <2> HIDE DEF run
  <2> QED BY <1>2, <2>1, <2>2
<1> QED BY <1>3, <1>4

\* Averaging, storing and pruning leave the rows alone.
LEMMA RefreshesInOrder ==
  ASSUME EmbedInv, Undisturbed, NEW r \in Runners,
         AverageRows(r) \/ StoreVectors(r) \/ PruneVectors(r)
  PROVE  Undisturbed'
<1>1. runner[r] \in EmbedRuns /\ rows \in [Embeddable -> RowsOfNode]
  BY DEF EmbedInv, EmbedTypeOK
<1>2. CASE AverageRows(r)
  <2> DEFINE means == [n \in Embeddable |-> IF n \in runner[r].changed THEN rows[n] ELSE NoRows]
             run == [runner[r] EXCEPT !.at = "store", !.means = means]
  <2>1. means \in [Embeddable -> RowsOfNode]
    BY <1>1, NoRowsIsRows
  <2>2. runner' = [runner EXCEPT ![r] = run] /\ UNCHANGED <<rows, vectors, alone>> /\ runner[r].at = "refresh"
    BY <1>2 DEF AverageRows, EmbedInv, EmbedTypeOK
  <2> HIDE DEF means
  <2>3. run \in EmbedRuns /\ run.at = "store" /\ run.chunks = runner[r].chunks /\ run.embeds = runner[r].embeds
    BY <1>1, <2>1 DEF EmbedRuns
  <2> HIDE DEF run
  <2> QED BY <2>2, <2>3, RowsStay DEF Resting, Past
<1>3. CASE StoreVectors(r)
  <2> DEFINE run == [runner[r] EXCEPT !.at = "prune", !.changed = {}, !.means = AtRest.means]
  <2>1. runner' = [runner EXCEPT ![r] = run] /\ UNCHANGED <<rows, alone>> /\ runner[r].at = "store"
    BY <1>3 DEF StoreVectors, EmbedInv, EmbedTypeOK
  <2>2. run \in EmbedRuns /\ run.at = "prune" /\ run.chunks = runner[r].chunks /\ run.embeds = runner[r].embeds
    BY <1>1, AtRestIsRun DEF EmbedRuns, AtRest
  <2> HIDE DEF run
  <2> QED BY <2>1, <2>2, RowsStay DEF Resting, Past
<1>4. CASE PruneVectors(r)
  <2> DEFINE run == [runner[r] EXCEPT !.at = "done"]
  <2>1. /\ runner' = [runner EXCEPT ![r] = run] /\ UNCHANGED <<rows, alone>> /\ runner[r].at = "prune"
        /\ vectors' = [n \in Embeddable |-> IF n \in Kept(r) THEN vectors[n] ELSE NoRows]
    BY <1>4 DEF PruneVectors, EmbedInv, EmbedTypeOK
  <2>2. run \in EmbedRuns /\ run.at = "done" /\ run.chunks = runner[r].chunks /\ run.embeds = runner[r].embeds
    BY <1>1 DEF EmbedRuns
  <2> HIDE DEF run
  <2>3. NodesOf(run.chunks) # {} => Kept(r) = NodesOf(run.chunks)
    BY <2>2 DEF Kept, NodesOf
  <2>4. NodesOf(run.chunks) # {} => \A n \in Embeddable \ NodesOf(run.chunks) : vectors'[n] = NoRows
    BY <2>1, <2>3
  <2> QED BY <2>1, <2>2, <2>4, RowsStay DEF Resting, Past
<1> QED BY <1>2, <1>3, <1>4

\* A run that stops promises nothing.
LEMMA StopsUndisturbed ==
  ASSUME EmbedInv, Undisturbed, NEW r \in Runners, Stop(r) PROVE Undisturbed'
<1>1. runner' = [runner EXCEPT ![r] = AtRest] /\ alone' = alone /\ ~Resting(r) /\ ~AtRest.embeds
  BY DEF Stop, AtRest
<1>2. InOrder(AtRest)'
  BY <1>1 DEF InOrder, AtRest
<1> QED BY <1>1, <1>2, AtRestIsRun, GoesOnUndisturbed

\* A run that nothing overlapped leaves the tables as they should be: its chunks
\* are on record, no other node has a vector, and its nodes have the means of
\* their rows unless a run before led them astray.
THEOREM UndisturbedRunsSettle == EmbedSpec => []RunSettles
<1>1. EmbedInit => Undisturbed
  BY DEF EmbedInit, Undisturbed
<1>2. EmbedInv /\ Undisturbed /\ [EmbedNext]_embedVars => Undisturbed'
  <2> SUFFICES ASSUME EmbedInv, Undisturbed, [EmbedNext]_embedVars PROVE Undisturbed'
    OBVIOUS
  <2>1. CASE UNCHANGED embedVars
    <3>1. runner' = runner /\ rows' = rows /\ vectors' = vectors /\ alone' = alone
      BY <2>1 DEF embedVars
    <3>2. \A r : InOrder(runner[r])' <=> InOrder(runner[r])
      BY <3>1 DEF InOrder, OnRecord
    <3> QED BY <3>1, <3>2 DEF Undisturbed, Resting
  <2>2. CASE EmbedNext
    BY <2>2, BeginsUndisturbed, ReadsInOrder, SkipsInOrder, UpsertsInOrder, WrittenInOrder, CountsInOrder,
       RefreshesInOrder, StopsUndisturbed DEF EmbedNext
  <2> QED BY <2>1, <2>2
<1>3. EmbedInv /\ Undisturbed => RunSettles
  <2> SUFFICES ASSUME EmbedInv, Undisturbed, NEW r \in alone,
                      runner[r].at = "done", runner[r].embeds, NodesOf(runner[r].chunks) # {}
               PROVE  /\ \A c \in DOMAIN runner[r].chunks :
                           Sole(runner[r].chunks, c) => OnRecord(runner[r].chunks[c])
                      /\ \A n \in Embeddable \ NodesOf(runner[r].chunks) : vectors[n] = NoRows
                      /\ \A n \in NodesOf(runner[r].chunks) : astray[n] = "none" => vectors[n] = rows[n]
    BY DEF RunSettles
  <2>1. InOrder(runner[r]) /\ r \in Runners /\ \A s \in Runners \ {r} : Resting(s)
    BY DEF Undisturbed, EmbedInv, EmbedTypeOK
  <2>2. runner[r] \in EmbedRuns
    BY <2>1 DEF EmbedInv, EmbedTypeOK
  <2>3. \A s \in Runners, n \in Embeddable : n \notin runner[s].changed
    BY <2>1 DEF Resting, EmbedInv, EmbedBookkeeping
  <2>4. \A n \in NodesOf(runner[r].chunks) : astray[n] = "none" => vectors[n] = rows[n]
    BY <2>2, <2>3, NodesAreEmbeddable DEF EmbedInv, VectorsFollowRows, Refreshes, EmbedRuns
  <2> QED BY <2>1, <2>4 DEF InOrder, Past
<1> QED BY <1>1, <1>2, <1>3, EmbedCorrect, PTL DEF EmbedSpec
=============================================================================
