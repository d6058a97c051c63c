---------------------------- MODULE MCHsMapping -----------------------------
(***************************************************************************)
(* Instance of HsMapping: two subheadings of 8501 that the nomenclature    *)
(* knows (so that one inferred code can fail the other) and a code of 8    *)
(* digits below the first that it does not know.                           *)
(***************************************************************************)
EXTENDS HsMapping

Sub    == <<"8501", "10">>
Other8 == <<"8501", "10", "99">>
Second == <<"8501", "20">>

SubCodes == {Sub, Other8, Second}
KnownCodes == {Sub, Second}
=============================================================================
