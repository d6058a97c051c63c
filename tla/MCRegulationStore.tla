------------------------- MODULE MCRegulationStore --------------------------
(***************************************************************************)
(* Instances of RegulationStore.  Three runs are the fewest that can        *)
(* disagree about a regulation that is already ingested.                    *)
(***************************************************************************)
EXTENDS RegulationStore, TLC

CONSTANTS r1, r2, r3, sA, sB

\* The third run extracts the summary the first one did.
OneRepeats == (r1 :> sA) @@ (r2 :> sB) @@ (r3 :> sA)
=============================================================================
