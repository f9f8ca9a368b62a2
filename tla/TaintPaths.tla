------------------------------ MODULE TaintPaths ------------------------------
(***************************************************************************)
(* Taint between methods (cih-taint/src/interproc.rs): from every method   *)
(* that handles a route or an event a breadth-first search follows calls   *)
(* to methods that do something dangerous.  A path ends there, and at a    *)
(* method that calls a sanitizer.  The search of one source after the      *)
(* other; categories and confidences are left out.                         *)
(***************************************************************************)
EXTENDS Integers, FiniteSets, Sequences

CONSTANTS
  Methods,      \* methods and what they call
  CallGraphs,   \* the call graphs considered, each a set of pairs
  Handlers,     \* the sources
  Dangerous,    \* callees a sink rule matches
  Sanitizers,   \* callees a sanitizer rule matches
  Queriers,     \* methods that execute a query put together at run time
  MaxHops

ASSUME CallsAssumption ==
  IsFiniteSet(Methods) /\ Handlers \subseteq Methods /\ CallGraphs \subseteq SUBSET (Methods \X Methods)
ASSUME MaxHopsAssumption == MaxHops \in Nat

VARIABLES
  calls,        \* the call graph
  searched,     \* the sources taken up
  queue,        \* paths whose last method waits to be looked at
  seen,         \* methods met in this search
  found         \* the paths reported

pathVars == <<calls, searched, queue, seen, found>>

Callees(m) == {c[2] : c \in {c \in calls : c[1] = m}}
SinkMethods == {m \in Methods : m \in Queriers \/ Callees(m) \intersect Dangerous # {}}
Sanitizing == {m \in Methods : Callees(m) \intersect Sanitizers # {}}

Last(p) == p[Len(p)]

PathsInit ==
  /\ calls \in CallGraphs
  /\ searched = {} /\ queue = <<>> /\ seen = {} /\ found = {}

Start(s) ==
  /\ queue = <<>>
  /\ s \in Handlers \ searched
  /\ searched' = searched \union {s}
  /\ queue' = <<<<s>>>>
  /\ seen' = {s}
  /\ UNCHANGED <<calls, found>>

TooFarByMethods(p) == Len(p) > MaxHops  \* mutant: counts methods, not calls
TooFar(p) == Len(p) > MaxHops + 1

Report ==
  /\ queue # <<>> /\ ~TooFar(Head(queue)) /\ Last(Head(queue)) \in SinkMethods
  /\ queue' = Tail(queue)
  /\ found' = found \union {Head(queue)}
  /\ UNCHANGED <<calls, searched, seen>>

\* Neither what is beyond the limit nor what a sanitizer may have cleaned is
\* followed.
GiveUp ==
  /\ queue # <<>>
  /\ \/ TooFar(Head(queue))
     \/ Last(Head(queue)) \in Sanitizing \ SinkMethods
  /\ queue' = Tail(queue)
  /\ UNCHANGED <<calls, searched, seen, found>>

\* The order of the callees is that of the edges.
Orders(S) == {o \in [1 .. Cardinality(S) -> S] : \A i, j \in DOMAIN o : o[i] = o[j] => i = j}

Expand ==
  /\ queue # <<>> /\ ~TooFar(Head(queue))
  /\ Last(Head(queue)) \notin SinkMethods \union Sanitizing
  /\ LET new == Callees(Last(Head(queue))) \ seen IN
     /\ \E o \in Orders(new) : queue' = Tail(queue) \o [i \in DOMAIN o |-> Append(Head(queue), o[i])]
     /\ seen' = seen \union new
  /\ UNCHANGED <<calls, searched, found>>

PathsNext == (\E s \in Handlers : Start(s)) \/ Report \/ GiveUp \/ Expand

PathsSpec == PathsInit /\ [][PathsNext]_pathVars

-----------------------------------------------------------------------------

\* The methods some chain of k calls leads to without passing a sink or a
\* sanitizing method.
Within[k \in Nat] ==
  [s \in Handlers |->
     IF k = 0 THEN {s}
     ELSE UNION {Callees(m) : m \in Within[k - 1][s] \ (SinkMethods \union Sanitizing)}]

Chain(p) ==
  /\ Len(p) - 1 =< MaxHops
  /\ \A i \in 1 .. Len(p) - 1 :
       /\ <<p[i], p[i + 1]>> \in calls
       /\ p[i] \notin SinkMethods \union Sanitizing
  /\ Last(p) \in SinkMethods

OnlyChains == \A p \in found : Chain(p)

\* A search reports, once each, the sinks within the limit that a chain of
\* calls reaches past no other sink or sanitizing method, and for each a
\* shortest such chain.
PathsFound ==
  /\ OnlyChains
  /\ queue = <<>> =>
       \A s \in searched, m \in SinkMethods :
         LET mine == {p \in found : p[1] = s /\ Last(p) = m}
             hops == {k \in 0 .. MaxHops : m \in Within[k][s]} IN
         IF hops = {} THEN mine = {}
         ELSE Cardinality(mine) = 1 /\ \A p \in mine, k \in hops : Len(p) - 1 \in hops /\ Len(p) - 1 =< k
=============================================================================
