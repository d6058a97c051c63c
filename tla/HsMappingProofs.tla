-------------------------- MODULE HsMappingProofs ---------------------------
(***************************************************************************)
(* What holds of HsMapping for every nomenclature, any codes, and any      *)
(* number of runs and of codes in a document.  The invariant IInv is the   *)
(* type invariant and InferredNeedsHuman, which are inductive together,    *)
(* and what the wizard's query needs: no row has a confidence of 0.        *)
(***************************************************************************)
EXTENDS HsMapping, TLAPS

Scored == \A c \in Mapped : rows[c].confidence > 0

IInv == TypeOK /\ InferredNeedsHuman /\ Scored
-----------------------------------------------------------------------------
(***************************************************************************)
(* What the operators yield                                                *)
(***************************************************************************)
\* A mapped code is exact or fuzzy, never inferred.
LEMMA MapRowType ==
  ASSUME NEW c
  PROVE  /\ MapRow(c) \in Row
         /\ MapRow(c).match_type \in {"exact", "fuzzy"}
         /\ MapRow(c).confidence > 0
BY DEF MapRow, Row, ReviewStatus

\* However often a document cites a code, its row is a row, is not inferred,
\* and has the status that the row had before, if there was one.
LEMMA UpsertedType ==
  ASSUME NEW row \in Row \cup {NoRow}, NEW cited, NEW I
  PROVE  /\ Upserted(row, cited, I) \in Row
         /\ Upserted(row, cited, I).match_type # "inferred"
         /\ Upserted(row, cited, I).confidence > 0
         /\ row # NoRow => Upserted(row, cited, I).review_status = row.review_status
<1> DEFINE first == MapRow(cited[First(I)])
           final == MapRow(cited[Last(I)])
           status == IF row = NoRow THEN first.review_status ELSE row.review_status
<1>1. first \in Row /\ final \in Row /\ final.match_type # "inferred" /\ final.confidence > 0
  BY MapRowType
<1> HIDE DEF first, final
<1>2. status \in ReviewStatus
  BY <1>1 DEF Row
<1>3. Upserted(row, cited, I) = [final EXCEPT !.review_status = status]
  BY DEF Upserted, first, final
<1> HIDE DEF status
<1>4. /\ [final EXCEPT !.review_status = status] \in Row
      /\ [final EXCEPT !.review_status = status].match_type = final.match_type
      /\ [final EXCEPT !.review_status = status].confidence = final.confidence
      /\ [final EXCEPT !.review_status = status].review_status = status
  BY <1>1, <1>2 DEF Row
<1>5. QED
  BY <1>1, <1>3, <1>4 DEF status

LEMMA InferredRowType ==
  /\ InferredRow \in Row
  /\ InferredRow.review_status = "pending"
  /\ InferredRow.confidence > 0
BY DEF InferredRow, Row, ReviewStatus
-----------------------------------------------------------------------------
(***************************************************************************)
(* Every action preserves IInv                                             *)
(***************************************************************************)
LEMMA MapCodesInv ==
  ASSUME IInv, NEW cited \in Documents, MapCodes(cited)
  PROVE  IInv'
<1>1. \A c \in Codes : rows[c] \in Row \cup {NoRow}
  BY DEF IInv, TypeOK
<1>2. \A c \in Codes :
        \/ rows'[c] = rows[c]
        \/ rows'[c] \in Row /\ rows'[c].match_type # "inferred" /\ rows'[c].confidence > 0
  BY <1>1, UpsertedType DEF MapCodes
<1>3. TypeOK'
  BY <1>1, <1>2 DEF IInv, TypeOK, MapCodes
<1>4. InferredNeedsHuman' /\ Scored'
  BY <1>2 DEF IInv, InferredNeedsHuman, Scored, Mapped
<1>5. QED
  BY <1>3, <1>4 DEF IInv

LEMMA InferInsertInv ==
  ASSUME IInv, NEW r \in Runs, InferInsert(r)
  PROVE  IInv'
<1>1. \A c \in Codes : rows'[c] = rows[c] \/ rows'[c] = InferredRow
  BY DEF IInv, TypeOK, InferInsert
<1>2. TypeOK'
  BY <1>1, InferredRowType DEF IInv, TypeOK, InferInsert
<1>3. InferredNeedsHuman' /\ Scored'
  BY <1>1, InferredRowType DEF IInv, InferredNeedsHuman, Scored, Mapped
<1>4. QED
  BY <1>2, <1>3 DEF IInv

LEMMA ReviewerInv ==
  ASSUME IInv, ReviewerStep
  PROVE  IInv'
<1>1. PICK c \in Codes :
        \/ \E chosen \in Codes : HsSelect(c, chosen)
        \/ \E status \in {"human-approved", "rejected"} : HsDecide(c, status)
  BY DEF ReviewerStep
<1>2. \A d \in Codes : rows[d] \in Row \cup {NoRow}
  BY DEF IInv, TypeOK
<1>3. ASSUME NEW chosen \in Codes, HsSelect(c, chosen)
      PROVE  IInv'
  <2> DEFINE manual == [confidence |-> 100, match_type |-> "manual",
                        review_status |-> "human-approved"]
  <2>1. manual \in Row /\ manual.match_type # "inferred" /\ manual.confidence > 0
    BY DEF Row, ReviewStatus
  <2> HIDE DEF manual
  <2>2. rows' = [rows EXCEPT ![c] = NoRow, ![chosen] = manual] /\ inference' = inference
    BY <1>3 DEF HsSelect, manual
  <2>3. TypeOK'
    BY <2>1, <2>2 DEF IInv, TypeOK
  <2>4. \A d \in Codes : rows'[d] \in {rows[d], NoRow, manual}
    BY <2>2 DEF IInv, TypeOK
  <2>5. InferredNeedsHuman' /\ Scored'
    BY <2>1, <2>4 DEF IInv, InferredNeedsHuman, Scored, Mapped
  <2>6. QED
    BY <2>3, <2>5 DEF IInv
<1>4. ASSUME NEW status \in {"human-approved", "rejected"}, HsDecide(c, status)
      PROVE  IInv'
  <2> DEFINE decided == [rows[c] EXCEPT !.review_status = status]
  <2>1. rows[c] \in Row
    BY <1>2, <1>4 DEF HsDecide
  <2>2. decided \in Row /\ decided.review_status = status /\ decided.confidence > 0
    <3>1. decided \in Row /\ decided.review_status = status
      BY <2>1 DEF Row, ReviewStatus
    <3>2. decided.confidence = rows[c].confidence
      BY <2>1 DEF Row
    <3>3. rows[c].confidence > 0
      BY <1>4 DEF HsDecide, IInv, Scored, Mapped
    <3>4. QED
      BY <3>1, <3>2, <3>3
  <2>3. rows' = [rows EXCEPT ![c] = decided] /\ inference' = inference
    BY <1>4 DEF HsDecide
  <2> HIDE DEF decided
  <2>4. TypeOK'
    BY <2>2, <2>3 DEF IInv, TypeOK
  <2>5. \A d \in Codes : rows'[d] \in {rows[d], decided}
    BY <2>3 DEF IInv, TypeOK
  <2>6. InferredNeedsHuman' /\ Scored'
    BY <2>2, <2>5 DEF IInv, InferredNeedsHuman, Scored, Mapped
  <2>7. QED
    BY <2>4, <2>6 DEF IInv
<1>5. QED
  BY <1>1, <1>3, <1>4

\* The inductive invariant of the mapping rows holds throughout.
THEOREM Invariance == Spec => []IInv
<1>1. Init => IInv
  BY DEF Init, IInv, TypeOK, InferredNeedsHuman, Scored, Mapped
<1>2. IInv /\ [Next]_vars => IInv'
  <2> SUFFICES ASSUME IInv, [Next]_vars
               PROVE  IInv'
    OBVIOUS
  <2>1. ASSUME NEW cited \in Documents, MapCodes(cited)
        PROVE  IInv'
    BY <2>1, MapCodesInv
  <2>2. ASSUME NEW r \in Runs, NEW proposed \in SUBSET Candidates, InferSelect(r, proposed)
        PROVE  IInv'
    <3>1. rows' = rows /\ inference' \in [Runs -> SUBSET Candidates]
      BY <2>2 DEF InferSelect, IInv, TypeOK
    <3>2. QED
      BY <3>1 DEF IInv, TypeOK, InferredNeedsHuman, Scored, Mapped
  <2>3. ASSUME NEW r \in Runs, InferInsert(r)
        PROVE  IInv'
    BY <2>3, InferInsertInv
  <2>4. CASE ReviewerStep
    BY <2>4, ReviewerInv
  <2>5. CASE UNCHANGED vars
    BY <2>5 DEF vars, IInv, TypeOK, InferredNeedsHuman, Scored, Mapped
  <2>6. QED
    BY <2>1, <2>2, <2>3, <2>4, <2>5 DEF Next, PipelineStep
<1>3. QED
  BY <1>1, <1>2, PTL DEF Spec
-----------------------------------------------------------------------------
(***************************************************************************)
(* The theorems                                                            *)
(***************************************************************************)
\* The rows of hs_regulation_map are well typed, and an inference only holds
\* subheadings of the nomenclature.
THEOREM TypeCorrect == Spec => []TypeOK
<1>1. IInv => TypeOK
  BY DEF IInv
<1>2. QED
  BY <1>1, Invariance, PTL

\* "inference never auto-approves" (hs_inference.py:9), for any number of
\* runs and whatever they interleave with.
THEOREM InferenceNeedsHuman == Spec => []InferredNeedsHuman
<1>1. IInv => InferredNeedsHuman
  BY DEF IInv
<1>2. QED
  BY <1>1, Invariance, PTL

\* "DO NOT clobber a reviewer's decision" (hs_mapper.py:93-94): no upsert and
\* no inference changes a decided row's status, however often a document cites
\* its code.
THEOREM DecisionsStand == Spec => DecisionStands
<1>1. IInv /\ [Next]_vars =>
        \A c \in Codes :
          PipelineStep /\ rows[c] # NoRow /\ rows[c].review_status \in Human
            => rows'[c] # NoRow /\ rows'[c].review_status = rows[c].review_status
  <2> SUFFICES ASSUME IInv, NEW c \in Codes, PipelineStep, rows[c] # NoRow
               PROVE  rows'[c] # NoRow /\ rows'[c].review_status = rows[c].review_status
    OBVIOUS
  <2>1. rows[c] \in Row
    BY DEF IInv, TypeOK
  <2>2. ASSUME NEW cited \in Documents, MapCodes(cited)
        PROVE  rows'[c] # NoRow /\ rows'[c].review_status = rows[c].review_status
    <3>1. Upserted(rows[c], cited, Citing(cited, c)) \in Row
          /\ Upserted(rows[c], cited, Citing(cited, c)).review_status = rows[c].review_status
      BY <2>1, UpsertedType
    <3>2. QED
      BY <2>2, <3>1, ConstantsOK DEF MapCodes
  <2>3. ASSUME NEW r \in Runs, InferInsert(r)
        PROVE  rows'[c] = rows[c]
    BY <2>3 DEF InferInsert, Mapped
  <2>4. ASSUME NEW r \in Runs, NEW proposed \in SUBSET Candidates, InferSelect(r, proposed)
        PROVE  rows'[c] = rows[c]
    BY <2>4 DEF InferSelect
  <2>5. QED
    BY <2>2, <2>3, <2>4 DEF PipelineStep
<1>2. QED
  BY <1>1, Invariance, PTL DEF Spec, DecisionStands

\* "inference can only ADD candidates" (hs_mapper.py:52-54): what was stored
\* since the inference looked is left as it is.
THEOREM InferenceAdds == Spec => InferenceOnlyAdds
<1>1. [Next]_vars =>
        \A r \in Runs, c \in Codes : InferInsert(r) /\ rows[c] # NoRow => rows'[c] = rows[c]
  BY DEF InferInsert, Mapped
<1>2. QED
  BY <1>1, PTL DEF Spec, InferenceOnlyAdds
-----------------------------------------------------------------------------
\* From six digits on, codes that begin with each other have the same first six.
LEMMA SameSubheading ==
  ASSUME NEW c \in Codes, NEW d \in Codes, IsSubheading(c), IsSubheading(d),
         StartsWith(c, d)
  PROVE  Six(c) = Six(d)
<1>1. c \in Seq(STRING) /\ d \in Seq(STRING)
  BY ConstantsOK
<1>2. Len(d) \in Nat /\ 2 <= Len(d) /\ Len(d) <= Len(c)
  BY <1>1 DEF IsSubheading, StartsWith
<1>3. \A i \in 1..2 : c[i] = d[i]
  <2>1. \A i \in 1..Len(d) : SubSeq(c, 1, Len(d))[i] = c[i]
    BY <1>1, <1>2
  <2>2. SubSeq(c, 1, Len(d)) = d
    BY DEF StartsWith
  <2>3. QED
    BY <1>2, <2>1, <2>2
<1>4. \A e \in {c, d} : Six(e) = [i \in 1..2 |-> e[i]]
  BY <1>1, <1>2 DEF Six
<1>5. QED
  BY <1>3, <1>4

\* "so the wizard never misses a candidate" (hs_mapper.py:107), from six digits
\* on: whatever ingests, inference and reviewers did, the stored code of a
\* mapping is found from every code that it begins with or that begins with it.
THEOREM PrefixesAreFound == Spec => []PrefixIsFound
<1>1. IInv => PrefixIsFound
  <2> SUFFICES ASSUME IInv, NEW c \in Mapped, NEW u \in Codes,
                      IsSubheading(c), IsSubheading(u),
                      StartsWith(u, c) \/ StartsWith(c, u)
               PROVE  Found(rows, u)
    BY DEF PrefixIsFound
  <2> DEFINE stored == rows[c].confidence
  <2>1. c \in Codes /\ rows[c] # NoRow
    BY DEF Mapped
  <2>2. stored \in Nat /\ stored > 0
    BY <2>1 DEF IInv, TypeOK, Row, Scored
  <2>3. Six(u) = Six(c)
    BY <2>1, SameSubheading
  <2>4. MatchScore(u, c, stored) \in {100 * stored, 85 * stored}
    BY <2>3 DEF MatchScore
  <2>5. MatchScore(u, c, stored) > 0
    BY <2>2, <2>4
  <2>6. MatchScore(u, c, stored) \in Scores(rows, u)
    BY <2>1 DEF Scores
  <2>7. QED
    BY <2>5, <2>6 DEF Found
<1>2. QED
  BY <1>1, Invariance, PTL
=============================================================================
