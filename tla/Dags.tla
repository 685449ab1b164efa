----------------------------------- MODULE Dags -----------------------------------
(***************************************************************************)
(* DAG: nodes that depend on one another, the search for a cycle, and the  *)
(* division into stages, in each of which some nodes start and some        *)
(* finish.  Nodes are numbered from 0; what a node carries is left out.    *)
(***************************************************************************)
EXTENDS Integers, FiniteSets
LOCAL INSTANCE FiniteSetsExt

EmptyDag == [size |-> 0, dependents |-> <<>>, dependencies |-> <<>>]
Nodes(dag) == 0..(dag.size - 1)

CreateNode(dag) ==
    LET n == dag.size
        With(f, none) == [i \in 0..n |-> IF i = n THEN none ELSE f[i]]
    IN  [size |-> n + 1, dependents   |-> With(dag.dependents, <<>>),
                         dependencies |-> With(dag.dependencies, {})]

\* Noted by one of its ends only.
CreateLinkOneWay(dag, dependency, dependent, metadata) ==
    [dag EXCEPT !.dependents[dependency] =
                   [d \in DOMAIN @ \cup {dependent} |-> IF d \in DOMAIN @ THEN @[d] ELSE metadata]]
\* emplace() keeps the metadata of a link that exists; a debug build stops there.
CreateLink(dag, dependency, dependent, metadata) ==
    [dag EXCEPT !.dependents[dependency] =
                   [d \in DOMAIN @ \cup {dependent} |-> IF d \in DOMAIN @ THEN @[d] ELSE metadata],
                !.dependencies[dependent] = @ \cup {dependency}]
SetLinkMetadata(dag, dependency, dependent, metadata) ==
    [dag EXCEPT !.dependents[dependency][dependent] = metadata]
GetLinkMetadata(dag, dependency, dependent) == dag.dependents[dependency][dependent]

-----------------------------------------------------------------------------
(* hasCycle(): depth first, over the dependents in any order.  The search  *)
(* is [cycle, visited, onStack]; each operator gives those it can end in.  *)

LOCAL Search(cycle, visited, onStack) == [cycle |-> cycle, visited |-> visited, onStack |-> onStack]

RECURSIVE Visit(_, _, _), VisitDependents(_, _, _, _)
Visit(dag, node, s) ==
    IF node \in s.visited THEN {Search(FALSE, s.visited, s.onStack \ {node})}
    ELSE VisitDependents(dag, node, DOMAIN dag.dependents[node],
                         Search(FALSE, s.visited \cup {node}, s.onStack \cup {node}))
VisitDependents(dag, node, todo, s) ==
    IF todo = {} THEN {Search(FALSE, s.visited, s.onStack \ {node})}
    ELSE UNION {LET after == IF d \in s.visited THEN {s} ELSE Visit(dag, d, s)
                IN  UNION {IF t.cycle \/ d \in t.onStack THEN {Search(TRUE, t.visited, t.onStack)}
                           ELSE VisitDependents(dag, node, todo \ {d}, t) : t \in after} :
                  d \in todo}

RECURSIVE SearchFrom(_, _, _)
LOCAL SearchFrom(dag, node, s) ==
    IF node = dag.size THEN {FALSE}
    ELSE UNION {IF t.cycle THEN {TRUE} ELSE SearchFrom(dag, node + 1, t) : t \in Visit(dag, node, s)}
HasCycle(dag) == SearchFrom(dag, 0, Search(FALSE, {}, {}))

-----------------------------------------------------------------------------
(* computeStageSequence(): backwards from the nodes without dependents, a  *)
(* node gets the distance of its finish from the end, again whenever it is *)
(* met again; it starts right behind the last finish it depends on.        *)

LOCAL Last(dag) == {n \in Nodes(dag) : DOMAIN dag.dependents[n] = {}}

RECURSIVE FinishBackwards(_, _, _, _)
LOCAL FinishBackwards(dag, finishing, stages, offset) ==
    IF finishing = {} THEN [stages |-> stages - 1, offset |-> offset]
    ELSE LET prior == UNION {dag.dependencies[n] : n \in finishing}
         IN  FinishBackwards(dag, prior, stages + 1,
                             [n \in Nodes(dag) |-> IF n \in prior THEN stages + 1 ELSE offset[n]])

\* The stages [starts, finishes], numbered from 0.
ComputeStageSequence(dag) ==
    LET back == FinishBackwards(dag, Last(dag), 1,
                                [n \in Nodes(dag) |-> IF n \in Last(dag) THEN 1 ELSE 0])
        finish == [n \in Nodes(dag) |-> back.stages - back.offset[n]]
        start  == [n \in Nodes(dag) |-> Max({finish[d] + 1 : d \in dag.dependencies[n]} \cup {0})]
    IN  [s \in 0..(back.stages - 1) |-> [starts   |-> {n \in Nodes(dag) : start[n] = s},
                                         finishes |-> {n \in Nodes(dag) : finish[n] = s}]]
====================================================================================
