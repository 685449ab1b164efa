----------------------------------- MODULE DataCalls -----------------------------------
(***************************************************************************)
(* The calls of ExpressionCalls, those of ValueCalls that it leaves out,    *)
(* and those to graphs.  A behaviour is one call, or a history of values   *)
(* that are assigned to one another (ValueOwnership).                      *)
(***************************************************************************)
EXTENDS ExpressionCalls, Dags, ValueOwnership

CONSTANT MostNodes     \* of a graph

allVars == <<call, result, slots, heap>>

-----------------------------------------------------------------------------
(* Arguments.                                                              *)

\* Links between up to two nodes fewer may make a cycle; those of the largest graphs go up or around.
InitGraph ==
  \E n \in 0..MostNodes :
    \E links \in SUBSET {<<i, j>> \in (0..(n - 1)) \X (0..(n - 1)) : n < MostNodes \/ i < j \/ j = 0} :
      call = [kind |-> "graph", nodes |-> n, links |-> links]

DataInit ==
  \/ /\ slots = <<>> /\ heap = [live |-> {}, bytes |-> <<>>, twice |-> FALSE]
     /\ CallsInit \/ (result = NotReturned
                      /\ (InitBits \/ InitTwo \/ InitColumn \/ InitCursor \/ InitGraph
                          \/ InitPointers \/ InitSchema \/ InitCatalog))
  \/ /\ call = [kind |-> "assignments"] /\ result = NotReturned
     /\ OwnershipInit

-----------------------------------------------------------------------------
(* The calls.                                                              *)

StageGraph ==
  Returns("graph",
    LET nodes[n \in 0..call.nodes] == IF n = 0 THEN EmptyDag ELSE CreateNode(nodes[n - 1])
        dag == FoldSet(LAMBDA l, d : CreateLink(d, l[1], l[2], "created"), nodes[call.nodes], call.links)
    IN  [cycle |-> HasCycle(dag),
         stages |-> IF HasCycle(dag) = {FALSE} THEN ComputeStageSequence(dag) ELSE <<>>,
         metadata |-> {IF GetLinkMetadata(SetLinkMetadata(dag, l[1], l[2], "set"), l[1], l[2]) = "set"
                       THEN GetLinkMetadata(CreateLink(dag, l[1], l[2], "again"), l[1], l[2])
                       ELSE "lost" : l \in call.links}])

DataNext ==
  \/ /\ CallsNext \/ AskBits \/ ChangeBits \/ CombineBits \/ FillColumn \/ MoveCursor \/ StageGraph
        \/ ChangePointers \/ BuildSchema \/ BuildCatalog
     /\ UNCHANGED ownershipVars
  \/ OwnershipNext /\ UNCHANGED callVars

DataSpec == DataInit /\ [][DataNext]_allVars

-----------------------------------------------------------------------------
(* Properties.                                                             *)

\* The search finds a cycle if and only if there is one, in whatever order it goes;
\* every node of a graph without one starts in a stage behind those in which the
\* nodes it depends on finish, finishes not before it starts and right before the
\* first of its dependents starts, and is started and finished once (DAG.hpp).
StagesFollowTheLinks ==
  Returned("graph") =>
    LET nodes == 0..(call.nodes - 1)
        r == result.value
        reach[k \in 0..call.nodes] ==
          IF k = 0 THEN call.links
          ELSE reach[k - 1] \cup {l \in nodes \X nodes :
                                    \E m \in nodes : <<l[1], m>> \in reach[k - 1] /\ <<m, l[2]>> \in reach[k - 1]}
        cyclic == \E n \in nodes : <<n, n>> \in reach[call.nodes]
        Stages(n, part) == {s \in DOMAIN r.stages : n \in r.stages[s][part]}
        last == Cardinality(DOMAIN r.stages) - 1
    IN  /\ r.cycle = {cyclic} /\ r.metadata \subseteq {"created"}
        /\ ~cyclic =>
             \A n \in nodes :
               /\ Cardinality(Stages(n, "starts")) = 1 /\ Cardinality(Stages(n, "finishes")) = 1
               /\ \A s \in Stages(n, "starts"), f \in Stages(n, "finishes") :
                    /\ s <= f
                    /\ \A l \in call.links : l[2] = n => \A g \in Stages(l[1], "finishes") : g < s
                    /\ f = last \/ \E l \in call.links : l[1] = n /\ f + 1 \in Stages(l[2], "starts")
====================================================================================
