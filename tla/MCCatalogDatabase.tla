-------------------------- MODULE MCCatalogDatabase --------------------------
(***************************************************************************)
(* CatalogDatabase with four relations, three of which differ only in the  *)
(* case of their names, and ids up to 2: one addRelation() overflows.      *)
(***************************************************************************)
EXTENDS CatalogDatabase

MCRelations == 1 .. 4
MCNames     == {"a", "A", "b"}
MCNameOf    == <<"a", "A", "b", "a">>
MCToLower   == [n \in MCNames |-> IF n = "A" THEN "a" ELSE n]
=============================================================================
