-------------------------- MODULE MCStreamingSelect --------------------------
(***************************************************************************)
(* Select over leaves P and Q and the two constants, and tuples for every  *)
(* combination of P and Q.                                                 *)
(***************************************************************************)
EXTENDS StreamingSelectOperator, TLC

MCTuples == {"neither", "p", "q", "both"}
MCLeaves == {"TRUE", "FALSE", "P", "Q"}
MCStaticOf == [l \in MCLeaves |-> IF l \in {"TRUE", "FALSE"} THEN l ELSE "none"]
MCSatisfiedBy ==
  [l \in MCLeaves |-> CASE l = "TRUE"  -> MCTuples
                        [] l = "FALSE" -> {}
                        [] l = "P"     -> {"p", "both"}
                        [] l = "Q"     -> {"q", "both"}]

MCInputs == {<< <<"p", "both", "neither", "q">>, <<"q", "p">> >>}
Symmetry == Permutations(Nodes)
=============================================================================
