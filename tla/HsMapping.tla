----------------------------- MODULE HsMapping ------------------------------
(***************************************************************************)
(* The HS codes of one regulation (hs_regulation_map): pipeline runs that  *)
(* map the codes a document cites and the codes an LLM infers              *)
(* (engine/hs_mapper.py, engine/hs_inference.py), reviewers who decide on  *)
(* a mapping (ui/api/hs.py), and the wizard's reverse query.               *)
(*                                                                         *)
(* A code is the sequence of its digit groups: <<heading>> has 4 digits,   *)
(* each further group 2 more, so a subheading of 6 digits is two groups.   *)
(***************************************************************************)
EXTENDS Naturals, Sequences

CONSTANTS
  Codes,         \* codes that documents, the LLM and reviewers use
  Nomenclature,  \* those in the seeded hs_nomenclature
  MaxCited,      \* bound: codes of one document
  Runs,          \* pipeline runs that infer codes at the same time
  NoRow

IsSubheading(c) == Len(c) >= 2      \* len(code) >= 6
Six(c) == SubSeq(c, 1, 2)           \* code[:6]
Candidates == {c \in Nomenclature : Len(c) = 2}

ReviewStatus == {"pending", "auto-approved", "human-approved", "rejected"}
Row == [confidence : 0..100, match_type : {"exact", "fuzzy", "inferred", "manual"},
        review_status : ReviewStatus]

ASSUME ConstantsOK ==
  /\ Codes \subseteq Seq(STRING) /\ Nomenclature \subseteq Codes /\ MaxCited \in Nat
  /\ \A c \in Codes : c # << >> /\ (IsSubheading(c) => Six(c) \in Codes)
  /\ NoRow \notin Row

VARIABLES
  rows,      \* the row with a code, or NoRow
  inference  \* a run's map_inferred_hs_codes: the rows it is going to add

vars == <<rows, inference>>

Documents == UNION {[1..n -> Codes] : n \in 1..MaxCited}

TypeOK ==
  /\ rows \in [Codes -> Row \cup {NoRow}]
  /\ inference \in [Runs -> SUBSET Candidates]

Init ==
  /\ rows = [c \in Codes |-> NoRow]
  /\ inference = [r \in Runs |-> {}]

Mapped == {c \in Codes : rows[c] # NoRow}

(***************************************************************************)
(* map_regulation_hs_codes: one transaction of blind upserts, whose row    *)
(* locks make it atomic for everybody else.                                *)
(***************************************************************************)
Stored(c) ==
  IF IsSubheading(c) /\ c \notin Nomenclature /\ Six(c) \in Nomenclature THEN Six(c) ELSE c

MapRow(c) ==
  IF IsSubheading(c) /\ c \in Nomenclature
  THEN [confidence |-> 100, match_type |-> "exact", review_status |-> "auto-approved"]
  ELSE [confidence |-> IF Stored(c) # c THEN 70 ELSE 30,
        match_type |-> "fuzzy", review_status |-> "pending"]

\* Where a document cites a code that is stored as c.
Citing(cited, c) == {i \in DOMAIN cited : Stored(cited[i]) = c}

First(I) == CHOOSE i \in I : \A j \in I : i <= j
Last(I)  == CHOOSE i \in I : \A j \in I : j <= i

\* Mutant: the conflicting row is replaced with its review_status.
UpsertedAll(row, cited, I) == MapRow(cited[Last(I)])

\* _upsert, once for each citation: a row that is there keeps its
\* review_status, and takes the rest from the last of them.
Upserted(row, cited, I) ==
  [MapRow(cited[Last(I)]) EXCEPT !.review_status =
     IF row = NoRow THEN MapRow(cited[First(I)]).review_status ELSE row.review_status]

MapCodes(cited) ==
  /\ rows' = [c \in Codes |->
                IF Citing(cited, c) = {} THEN rows[c]
                ELSE Upserted(rows[c], cited, Citing(cited, c))]
  /\ UNCHANGED inference

(***************************************************************************)
(* pipeline._infer_hs.  infer_hs_codes lets only 6-digit codes of the      *)
(* nomenclature through, at a capped confidence; map_inferred_hs_codes     *)
(* looks for each and adds those it does not find.                         *)
(***************************************************************************)
InferredRow ==
  [confidence |-> 60, match_type |-> "inferred", review_status |-> "pending"]

InferSelect(r, proposed) ==
  /\ inference[r] = {}
  /\ inference' = [inference EXCEPT ![r] = proposed \ Mapped]
  /\ UNCHANGED rows

\* Mutant: inference upserts like mapping does, and keeps the review_status.
InferUpsert(r) ==
  /\ inference[r] # {}
  /\ rows' = [c \in Codes |->
                IF c \notin inference[r] THEN rows[c]
                ELSE IF rows[c] = NoRow THEN InferredRow
                ELSE [InferredRow EXCEPT !.review_status = rows[c].review_status]]
  /\ inference' = [inference EXCEPT ![r] = {}]

\* INSERT and COMMIT.  A code somebody else has mapped since then breaks the
\* unique constraint: nothing is added, and the exception is swallowed.
InferInsert(r) ==
  /\ inference[r] # {}
  /\ rows' = IF inference[r] \cap Mapped # {} THEN rows
             ELSE [c \in Codes |-> IF c \in inference[r] THEN InferredRow ELSE rows[c]]
  /\ inference' = [inference EXCEPT ![r] = {}]

(***************************************************************************)
(* ui/api/hs.py: hs_action, on any row whatever its status                 *)
(***************************************************************************)
\* select: the row moves to the chosen code, unless that one has a row.
HsSelect(c, chosen) ==
  /\ rows[c] # NoRow
  /\ chosen = c \/ rows[chosen] = NoRow
  /\ rows' = [rows EXCEPT ![c] = NoRow,
                          ![chosen] = [confidence |-> 100, match_type |-> "manual",
                                       review_status |-> "human-approved"]]
  /\ UNCHANGED inference

HsDecide(c, status) ==
  /\ rows[c] # NoRow
  /\ rows' = [rows EXCEPT ![c].review_status = status]
  /\ UNCHANGED inference

PipelineStep ==
  \/ \E cited \in Documents : MapCodes(cited)
  \/ \E r \in Runs, proposed \in SUBSET Candidates : InferSelect(r, proposed)
  \/ \E r \in Runs : InferInsert(r)

ReviewerStep ==
  \E c \in Codes :
    \/ \E chosen \in Codes : HsSelect(c, chosen)
    \/ \E status \in {"human-approved", "rejected"} : HsDecide(c, status)

Next == PipelineStep \/ ReviewerStep

Spec == Init /\ [][Next]_vars

(***************************************************************************)
(* find_regulations_by_hs, for one regulation: the best score of its codes *)
(* against a user's code (in units of 1/10000), 0 when none matches.       *)
(***************************************************************************)
StartsWith(c, d) == Len(d) <= Len(c) /\ SubSeq(c, 1, Len(d)) = d

\* Mutant: only equal codes match.
MatchScoreEqual(u, c, stored) == IF u = c THEN 100 * stored ELSE 0

MatchScore(u, c, stored) ==
  CASE u = c -> 100 * stored
    [] u # c /\ IsSubheading(u) /\ IsSubheading(c) /\ Six(u) = Six(c) ->
         IF StartsWith(u, c) \/ StartsWith(c, u) THEN 85 * stored ELSE 70 * stored
    [] OTHER -> 0

Scores(table, u) ==
  {MatchScore(u, c, table[c].confidence) : c \in {c \in Codes : table[c] # NoRow}}

\* The regulation is among the wizard's candidates for u.
Found(table, u) == \E score \in Scores(table, u) : score > 0

(***************************************************************************)
(* Properties                                                              *)
(***************************************************************************)
Human == {"human-approved", "rejected"}

\* "inference can only ADD candidates, never downgrade a stronger match"
\* (hs_mapper.py:52-54): also when the match was stored after it looked.
InferenceOnlyAdds ==
  [][\A r \in Runs, c \in Codes :
       InferInsert(r) /\ rows[c] # NoRow => rows'[c] = rows[c]]_vars

\* "inference never auto-approves" (hs_inference.py:9): no interleaving of
\* re-ingests and inference leaves an inferred mapping approved by nobody.
InferredNeedsHuman ==
  \A c \in Mapped :
    rows[c].match_type = "inferred" => rows[c].review_status # "auto-approved"

\* "DO NOT clobber a reviewer's decision" (hs_mapper.py:93-94): whatever the
\* pipeline does, a decided mapping keeps its code and its decision.
DecisionStands ==
  [][\A c \in Codes :
       PipelineStep /\ rows[c] # NoRow /\ rows[c].review_status \in Human
         => rows'[c] # NoRow /\ rows'[c].review_status = rows[c].review_status]_vars

\* "Includes fuzzy/prefix matches so the wizard never misses a candidate"
\* (hs_mapper.py:107): a mapping is found by its code and by those that it
\* begins with or that begin with it, from six digits on (the query compares
\* no shorter prefix).
PrefixIsFound ==
  \A c \in Mapped, u \in Codes :
    /\ IsSubheading(c) /\ IsSubheading(u)
    /\ StartsWith(u, c) \/ StartsWith(c, u)
    => Found(rows, u)
=============================================================================
