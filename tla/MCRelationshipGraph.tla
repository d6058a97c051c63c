------------------------ MODULE MCRelationshipGraph -------------------------
(***************************************************************************)
(* Instances of RelationshipGraph: regulations are interchangeable, and so *)
(* are workers.                                                            *)
(***************************************************************************)
EXTENDS RelationshipGraph, TLC

Symmetry == Permutations(Regs) \cup Permutations(Workers)
=============================================================================
