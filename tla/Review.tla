------------------------------- MODULE Review -------------------------------
(***************************************************************************)
(* One ingested regulation in review: the validation agent flags what is   *)
(* wrong with the mapped record (agents/validation_agent.py), _persist      *)
(* derives from the flags which rows wait for a human (pipeline.py), the    *)
(* queue lists those with a reason and in pages (ui/api/review.py,          *)
(* ui/review_helpers.py, ui/pagination.py), and reviewers decide on rows    *)
(* at the same time.  RegulationStore has the re-ingestion under them.      *)
(***************************************************************************)
EXTENDS Integers, Sequences, FiniteSets

CONSTANTS
  Records,          \* mapped records: [jurisdiction, fields, conds]
  Threshold,        \* config.CONFIDENCE_THRESHOLD, in percent
  Reviewers, Nobody,
  Bodies,           \* canonical names of the certification_bodies rows
  Edits,            \* values a reviewer may type
  ParamEdits,       \* parameter names a reviewer may type, "" to keep it
  ValidHs,          \* texts of 6, 8 or 10 digits
  KnownParams,      \* product_attributes.attribute_name
  DefaultPerPage, MaxPerPage,
  MaxDecisions      \* bound: calls of the two action endpoints and bulk_approve

ASSUME ConstantsOK ==
  /\ Threshold \in 0..100
  /\ MaxPerPage \in Nat /\ DefaultPerPage \in 1..MaxPerPage
  /\ Nobody \notin Reviewers
  /\ {"none", "unresolved", "gone"} \cap Bodies = {}
  /\ \A r \in Records :
       /\ IsFiniteSet(DOMAIN r.fields) /\ IsFiniteSet(DOMAIN r.conds)
       /\ \A i \in DOMAIN r.fields : r.fields[i].conf \in 0..100
       /\ \A i \in DOMAIN r.conds : r.conds[i].conf \in 0..100

VARIABLES
  pc,         \* "validate", "persist", "review"
  record,     \* the mapped record
  flags,      \* ValidationOutput.flags: [on, reason]
  rows,       \* the committed row of each field and condition
  sess,       \* a reviewer's open transaction: rows loaded, decisions on them
  last,       \* history: the last decision committed on a row
  decisions   \* calls made so far

vars == <<pc, record, flags, rows, sess, last, decisions>>

\* The absent value of a column; a row's identity is its place in the record.
None == "none"
FieldIds == {<<"field", i>> : i \in DOMAIN record.fields}
CondIds  == {<<"cond", i>> : i \in DOMAIN record.conds}

Field(id) == record.fields[id[2]]
Cond(id)  == record.conds[id[2]]

\* A field is [name, text, json, conf], with text the canonical value when it
\* is a string and json the resolved body's name or "unresolved" when it is an
\* object.  A condition is [structured, param, conf].
Named(n) == {i \in DOMAIN record.fields : record.fields[i].name = n}

(***************************************************************************)
(* agents/validation_agent.py                                              *)
(***************************************************************************)
OnField(n) == <<"field", n>>
OnCond(i)  == <<"cond", i>>

FlagsIf(condition, on, reason) ==
  IF condition THEN {[on |-> on, reason |-> reason]} ELSE {}

FormatChecks ==
  UNION {   FlagsIf(f.name = "hs_code" /\ f.text \notin ValidHs,
                    OnField("hs_code"), "invalid_hs")
       \cup FlagsIf(f.name = "certification_body" /\ f.json = "unresolved",
                    OnField("certification_body"), "unresolved_alias")
         : f \in {record.fields[i] : i \in DOMAIN record.fields}}

MarkingJurisdiction(mark) ==
  CASE mark = "CE"   -> "EU"
    [] mark = "UKCA" -> "UK"
    [] mark = "EAC"  -> "EAEU"
    [] OTHER         -> record.jurisdiction

ConsistencyChecks ==
  LET assessed == {record.fields[i].text : i \in Named("conformity_assessment_type")}
      marks    == {record.fields[i].text : i \in Named("marking")}
      path     == Named("conformity_path_testing") \cup Named("conformity_path_inspection")
  IN  FlagsIf("3rd-party" \in assessed /\ Named("certification_body") = {},
              OnField("certification_body"), "consistency_fail")
      \cup FlagsIf("CE" \in marks /\ Named("standard_harmonized") = {},
                   OnField("standard_harmonized"), "consistency_fail")
      \cup FlagsIf(\E m \in marks : MarkingJurisdiction(m) # record.jurisdiction,
                   OnField("marking"), "consistency_fail")
      \cup FlagsIf(path # {} /\ Named("production_type") = {},
                   OnField("production_type"), "missing_required_field")

ConditionChecks ==
  UNION {LET c == record.conds[i]
         IN  FlagsIf(~c.structured, OnCond(i), "unstructured_condition")
             \cup FlagsIf(c.structured /\ c.param \notin KnownParams \cup {""},
                          OnCond(i), "unknown_parameter")
         : i \in DOMAIN record.conds}

ConfidenceChecks ==
  (UNION {FlagsIf(record.fields[i].conf < Threshold,
                  OnField(record.fields[i].name), "low_confidence")
          : i \in DOMAIN record.fields})
  \cup (UNION {FlagsIf(record.conds[i].conf < Threshold, OnCond(i), "low_confidence")
               : i \in DOMAIN record.conds})

FlagsOfRecord ==
  FormatChecks \cup ConsistencyChecks \cup ConditionChecks \cup ConfidenceChecks

Init ==
  /\ pc = "validate"
  /\ record \in Records
  /\ flags = {}
  /\ rows = << >>
  /\ sess = [v \in Reviewers |-> [saw |-> << >>, doing |-> << >>]]
  /\ last = << >>
  /\ decisions = 0

Validate ==
  /\ pc = "validate"
  /\ flags' = FlagsOfRecord
  /\ pc' = "persist"
  /\ UNCHANGED <<record, rows, sess, last, decisions>>

(***************************************************************************)
(* pipeline.py: _persist                                                   *)
(***************************************************************************)
Flagged(on) == \E f \in flags : f.on = on

\* Mutant: what was only said of the record as a whole is forgotten.
FieldPendingOwn(f) ==
  \/ f.conf < Threshold
  \/ f.name \in {"hs_code", "certification_body"} /\ Flagged(OnField(f.name))

\* A flag names a field: it keeps every row of that name pending.
FieldPending(f) == Flagged(OnField(f.name)) \/ f.conf < Threshold

CondPending(i) ==
  \/ Flagged(OnCond(i))
  \/ ~record.conds[i].structured
  \/ record.conds[i].conf < Threshold

StatusIf(pending) == IF pending THEN "pending" ELSE "auto-approved"

RowOf(id) ==
  IF id \in FieldIds
  THEN [status |-> StatusIf(FieldPending(Field(id))),
        text |-> Field(id).text, json |-> Field(id).json, by |-> Nobody]
  ELSE [status |-> StatusIf(CondPending(id[2])), param |-> Cond(id).param]

NoDecision == [act |-> None, value |-> None, by |-> Nobody, alone |-> TRUE]

Persist ==
  /\ pc = "persist"
  /\ rows' = [id \in FieldIds \cup CondIds |-> RowOf(id)]
  /\ last' = [id \in FieldIds \cup CondIds |-> NoDecision]
  /\ pc' = "review"
  /\ UNCHANGED <<record, flags, sess, decisions>>

(***************************************************************************)
(* ui/api/review.py: review_queue; ui/review_helpers.py; ui/pagination.py  *)
(***************************************************************************)
\* Mutant: the threshold itself counts as low.
FieldReasonInclusive(id) ==
  CASE Field(id).conf <= Threshold -> "low_confidence"
    [] OTHER -> "flagged"

FieldReason(id) ==
  CASE Field(id).conf < Threshold -> "low_confidence"
    [] Field(id).conf >= Threshold /\ Field(id).name = "hs_code"
         /\ rows[id].text \notin ValidHs -> "invalid_hs"
    [] Field(id).conf >= Threshold /\ Field(id).name = "certification_body"
         /\ rows[id].json = "unresolved" -> "unresolved_alias"
    [] OTHER -> "flagged"

CondReason(id) ==
  IF ~Cond(id).structured THEN "unstructured_condition"
  ELSE IF Cond(id).conf < Threshold THEN "low_confidence" ELSE "flagged"

Reason(id) == IF id \in FieldIds THEN FieldReason(id) ELSE CondReason(id)

Confidence(id) == IF id \in FieldIds THEN Field(id).conf ELSE Cond(id).conf

\* json hides text.
Display(row) == IF row.json # None THEN row.json ELSE row.text

Pending == {id \in DOMAIN rows : rows[id].status = "pending"}

Matching(low, high) == {id \in Pending : Confidence(id) \in low..high}

\* The queries have no ORDER BY and the sort is by confidence alone: rows of
\* one confidence come in any order.
Listings(S) ==
  {s \in [1..Cardinality(S) -> S] :
     \A i, j \in DOMAIN s : i < j => s[i] # s[j] /\ Confidence(s[i]) <= Confidence(s[j])}

ClampPerPage(n) == IF n <= 0 THEN DefaultPerPage ELSE IF n < MaxPerPage THEN n ELSE MaxPerPage

AtLeastOne(n) == IF n < 1 THEN 1 ELSE n

\* Mutant: a last page that is not full is not counted.
TotalPagesFloor(total, perPage) == AtLeastOne(total \div perPage)

TotalPages(total, perPage) == AtLeastOne((total + perPage - 1) \div perPage)

BuildPage(page, perPage, total) ==
  LET n == TotalPages(total, ClampPerPage(perPage))
  IN  [page |-> AtLeastOne(IF page < n THEN page ELSE n),
       per_page |-> ClampPerPage(perPage), total |-> total]

\* The items of one answer, of the listing that the request sorted.
Items(listing, page, perPage) ==
  LET pg     == BuildPage(page, perPage, Len(listing))
      offset == (pg.page - 1) * pg.per_page
      end    == IF offset + pg.per_page < pg.total THEN offset + pg.per_page ELSE pg.total
  IN  SubSeq(listing, offset + 1, end)

(***************************************************************************)
(* ui/api/review.py: field_action, condition_action, bulk_approve.  Each   *)
(* loads its rows, assigns attributes and commits; the ORM updates only    *)
(* the columns whose value is not the one it loaded.                       *)
(***************************************************************************)
Decision(act, value) == [act |-> act, value |-> value]

FieldDecisions ==
       {Decision("approve", None), Decision("reject", None)}
  \cup {Decision("edit", x) : x \in Edits}
  \cup {Decision("resolve", b) : b \in Bodies \cup {"gone"}}   \* "gone": no such body

CondDecisions ==
       {Decision("approve", None), Decision("reject", None)}
  \cup {Decision("edit", p) : p \in ParamEdits}

\* Mutant: an edit leaves the structured value.
AssignedKeepsJson(row, d, v) ==
  CASE d.act = "approve" -> [row EXCEPT !.status = "human-approved", !.by = v]
    [] d.act = "reject"  -> [row EXCEPT !.status = "rejected", !.by = v]
    [] d.act = "edit"    -> [row EXCEPT !.status = "human-approved", !.text = d.value, !.by = v]
    [] OTHER             -> [row EXCEPT !.json = d.value, !.by = v]

\* A body that is gone: the reviewer is recorded, nothing is decided.
AssignedField(row, d, v) ==
  CASE d.act = "approve" -> [row EXCEPT !.status = "human-approved", !.by = v]
    [] d.act = "reject"  -> [row EXCEPT !.status = "rejected", !.by = v]
    [] d.act = "edit"    -> [row EXCEPT !.status = "human-approved", !.text = d.value,
                                        !.json = None, !.by = v]
    [] d.act = "resolve" /\ d.value \in Bodies ->
         [row EXCEPT !.status = "human-approved", !.json = d.value, !.text = None, !.by = v]
    [] d.act = "resolve" /\ d.value = "gone" -> [row EXCEPT !.by = v]

\* raw_text is edited as parameter_name is, and left out.
AssignedCond(row, d) ==
  CASE d.act = "approve" -> [row EXCEPT !.status = "human-approved"]
    [] d.act = "reject"  -> [row EXCEPT !.status = "rejected"]
    [] d.act = "edit"    -> [row EXCEPT !.status = "human-approved",
                                        !.param = IF d.value # "" THEN d.value ELSE @]

Assigned(id, row, d, v) ==
  IF id \in FieldIds THEN AssignedField(row, d, v) ELSE AssignedCond(row, d)

Idle(v) == DOMAIN sess[v].saw = {}

Load(v, doing) ==
  /\ pc = "review"
  /\ Idle(v)
  /\ decisions < MaxDecisions
  /\ sess' = [sess EXCEPT ![v] =
       [saw |-> [id \in DOMAIN doing |-> rows[id]], doing |-> doing]]
  /\ decisions' = decisions + 1
  /\ UNCHANGED <<pc, record, flags, rows, last>>

FieldAction(v, id, d) == id \in FieldIds /\ Load(v, [x \in {id} |-> d])

ConditionAction(v, id, d) == id \in CondIds /\ Load(v, [x \in {id} |-> d])

BulkFound(threshold) == {id \in Pending \cap FieldIds : Confidence(id) >= threshold}

\* A call that finds nothing opens and closes a transaction without effect.
BulkApprove(v, threshold) ==
  /\ BulkFound(threshold) # {}
  /\ Load(v, [id \in BulkFound(threshold) |-> Decision("approve", None)])

\* Mutant: the row is written as it was loaded, all its columns.
WrittenWhole(v, id) == Assigned(id, sess[v].saw[id], sess[v].doing[id], v)

Written(v, id) ==
  LET saw == sess[v].saw[id]
      obj == Assigned(id, saw, sess[v].doing[id], v)
  IN  [c \in DOMAIN saw |-> IF obj[c] # saw[c] THEN obj[c] ELSE rows[id][c]]

\* The flush and the COMMIT at the end of session_scope.
Write(v) ==
  /\ ~Idle(v)
  /\ rows' = [id \in DOMAIN rows |->
                IF id \in DOMAIN sess[v].saw THEN Written(v, id) ELSE rows[id]]
  /\ last' = [id \in DOMAIN rows |->
                IF id \in DOMAIN sess[v].saw
                THEN [act |-> sess[v].doing[id].act, value |-> sess[v].doing[id].value,
                      by |-> v, alone |-> rows[id] = sess[v].saw[id]]
                ELSE last[id]]
  /\ sess' = [sess EXCEPT ![v] = [saw |-> << >>, doing |-> << >>]]
  /\ UNCHANGED <<pc, record, flags, decisions>>

Next ==
  \/ Validate \/ Persist
  \/ \E v \in Reviewers :
       \/ \E id \in DOMAIN rows, d \in FieldDecisions : FieldAction(v, id, d)
       \/ \E id \in DOMAIN rows, d \in CondDecisions : ConditionAction(v, id, d)
       \/ \E threshold \in {0, Threshold} : BulkApprove(v, threshold)
       \/ Write(v)

Spec == Init /\ [][Next]_vars

(***************************************************************************)
(* Properties                                                              *)
(***************************************************************************)
\* What is wrong with a row by itself or against the record's jurisdiction.
SoundField(f) ==
  /\ f.conf >= Threshold
  /\ f.name = "hs_code" => f.text \in ValidHs
  /\ f.name = "certification_body" => f.json # "unresolved"
  /\ f.name = "marking" => <<f.text, record.jurisdiction>> \notin
       {<<"CE", "UK">>, <<"CE", "EAEU">>, <<"UKCA", "EU">>, <<"UKCA", "EAEU">>,
        <<"EAC", "EU">>, <<"EAC", "UK">>}

SoundCond(c) == c.structured /\ c.conf >= Threshold /\ c.param \in KnownParams \cup {""}

\* Nothing unsound is published without a human: a row that is auto-approved
\* is sound, and for a field so is every other row of its name; a record with
\* a consistency flag has no auto-approved row of the flagged name
\* (validation_agent.py:6, pipeline.py:105-106,141,158).
AutoApprovedIsSound ==
  pc = "review" =>
    \A id \in DOMAIN rows : rows[id].status = "auto-approved" =>
      IF id \in FieldIds
      THEN \A i \in Named(Field(id).name) : SoundField(record.fields[i])
      ELSE SoundCond(Cond(id))

\* "any flag => review_status='pending'", of a row "or the record"
\* (validation_agent.py:6-10): a record with a flag leaves something to review.
\* The code does not keep this; see the README.
AnyFlagPends == pc = "review" /\ decisions = 0 /\ flags # {} => Pending # {}

\* The reason a reviewer reads is one the validation had: derived from the row
\* alone it agrees with the flags, and "flagged" stands only for what a row
\* does not show: its sibling, the jurisdiction or the vocabulary
\* (review_helpers.py:3-6).
ReasonIsTrue ==
  \A id \in Pending :
    LET on     == IF id \in FieldIds THEN OnField(Field(id).name) ELSE id
        raised == {f.reason : f \in {g \in flags : g.on = on}}
    IN  IF Reason(id) # "flagged" THEN Reason(id) \in raised
        ELSE \/ raised \cap {"consistency_fail", "unknown_parameter"} # {}
             \/ id \in FieldIds /\ raised # {} /\ Cardinality(Named(Field(id).name)) > 1

\* Every request is answered with a page of the queue: not empty while
\* something matches, whatever page is asked for, lowest confidence first,
\* and the pages of one listing show each row once (ui/pagination.py).
PagesShowQueue ==
  \A low \in {0, Threshold} : \A s \in Listings(Matching(low, 100)) :
    \A perPage \in -1..(MaxPerPage + 1) :
      LET n    == TotalPages(Len(s), ClampPerPage(perPage))
          page == [p \in -1..(Len(s) + 2) |-> Items(s, p, perPage)]
      IN  /\ \A p \in DOMAIN page :
               /\ Len(page[p]) <= MaxPerPage
               /\ Len(page[p]) = 0 <=> Len(s) = 0
               /\ p < 1 => page[p] = page[1]
               /\ p > n => page[p] = page[n]
          /\ \A i \in DOMAIN s :
               Cardinality({p \in 1..n : \E k \in DOMAIN page[p] : page[p][k] = s[i]}) = 1
          /\ \A p \in 1..(n - 1) :
               Confidence(page[p][Len(page[p])]) <= Confidence(page[p + 1][1])

\* A row says what a decision on it asked for: its status, its reviewer and
\* the value that is displayed.
Shows(id, d) ==
  /\ d.act \in {"approve", "edit"} => rows[id].status = "human-approved"
  /\ d.act = "reject" => rows[id].status = "rejected"
  /\ id \in FieldIds =>
       /\ rows[id].by = d.by
       /\ d.act = "edit" => Display(rows[id]) = d.value
       /\ d.act = "resolve" /\ d.value \in Bodies =>
            Display(rows[id]) = d.value /\ rows[id].status = "human-approved"

\* A decision that met nobody else's is what the row says afterwards, whatever
\* kind of value the row had before.
LastDecisionShows ==
  \A id \in DOMAIN last : last[id].act # None /\ last[id].alone => Shows(id, last[id])

\* "if two people review the same cue, last write wins" (TEAM_SETUP.md:160-161).
\* The code does not keep this; see the README.
LastWriteWins ==
  \A id \in DOMAIN last : last[id].act # None => Shows(id, last[id])

\* Whoever decides at the same time, an approval or a rejection, of one row or
\* in bulk, leaves the value on display alone: it never brings back one that
\* another reviewer has replaced since the row was loaded.
ApprovalKeepsValue ==
  [][\A id \in DOMAIN rows \cap FieldIds :
       last'[id] # last[id] /\ last'[id].act \in {"approve", "reject"} =>
         Display(rows'[id]) = Display(rows[id])]_vars
=============================================================================
