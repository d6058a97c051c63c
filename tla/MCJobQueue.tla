----------------------------- MODULE MCJobQueue -----------------------------
(***************************************************************************)
(* Instances of JobQueue for TLC.  Clients and workers are interchangeable, *)
(* so an invariant may be checked up to permutation; a run with temporal   *)
(* properties uses no symmetry.                                            *)
(***************************************************************************)
EXTENDS JobQueue, TLC

Symmetry ==
  Permutations(Celex) \cup Permutations(Clients) \cup Permutations(Workers)
=============================================================================
