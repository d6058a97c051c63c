---------------------------- MODULE ReviewProofs ----------------------------
(***************************************************************************)
(* Theorems about Review, for every set of records, every number of        *)
(* reviewers and every number of decisions.  The inductive invariant says  *)
(* which columns a row has, that a reviewer's transaction holds rows of    *)
(* the record with decisions the endpoint of their kind takes, and that    *)
(* what is auto-approved was found sound.                                  *)
(***************************************************************************)
EXTENDS Review, FiniteSetTheorems, SequenceTheorems, TLAPS

Ids == FieldIds \cup CondIds

FieldCols == {"status", "text", "json", "by"}
CondCols == {"status", "param"}

\* The columns of the row of id.
Shape(id, row) ==
  row = [c \in (IF id \in FieldIds THEN FieldCols ELSE CondCols) |-> row[c]]

DecisionsOn(id) == IF id \in FieldIds THEN FieldDecisions ELSE CondDecisions

\* What the row of id asserts when no human has looked at it.
Sound(id) ==
  IF id \in FieldIds
  THEN \A i \in Named(Field(id).name) : SoundField(record.fields[i])
  ELSE SoundCond(Cond(id))

RowsOK ==
  /\ pc = "review" => DOMAIN rows = Ids
  /\ pc # "review" => DOMAIN rows = {}
  /\ \A id \in DOMAIN rows : Shape(id, rows[id])
  /\ \A id \in DOMAIN rows : rows[id].status = "auto-approved" => Sound(id)

SessionsOK ==
  /\ DOMAIN sess = Reviewers
  /\ \A v \in Reviewers :
       /\ DOMAIN sess[v].saw \subseteq DOMAIN rows
       /\ \A id \in DOMAIN sess[v].saw :
            Shape(id, sess[v].saw[id]) /\ sess[v].doing[id] \in DecisionsOn(id)

IInv ==
  /\ record \in Records
  /\ pc \in {"validate", "persist", "review"}
  /\ pc = "persist" => flags = FlagsOfRecord
  /\ DOMAIN last = DOMAIN rows
  /\ RowsOK
  /\ SessionsOK
-----------------------------------------------------------------------------
\* The checks of single fields and conditions, flag by flag.
LEMMA FormatFlags ==
  ASSUME NEW i \in DOMAIN record.fields
  PROVE  LET f == record.fields[i] IN
         /\ f.name = "hs_code" /\ f.text \notin ValidHs =>
              [on |-> OnField("hs_code"), reason |-> "invalid_hs"] \in FlagsOfRecord
         /\ f.name = "certification_body" /\ f.json = "unresolved" =>
              [on |-> OnField("certification_body"), reason |-> "unresolved_alias"]
                \in FlagsOfRecord
<1> DEFINE All == {record.fields[j] : j \in DOMAIN record.fields}
           Both(f) == FlagsIf(f.name = "hs_code" /\ f.text \notin ValidHs,
                              OnField("hs_code"), "invalid_hs")
                      \cup FlagsIf(f.name = "certification_body" /\ f.json = "unresolved",
                                   OnField("certification_body"), "unresolved_alias")
<1>1. FormatChecks = UNION {Both(f) : f \in All}
  BY DEF FormatChecks
<1>2. record.fields[i] \in All
  OBVIOUS
<1>3. Both(record.fields[i]) \subseteq FlagsOfRecord
  <2> HIDE DEF All, Both
  <2>1. QED
    BY <1>1, <1>2 DEF FlagsOfRecord
<1>4. QED
  BY <1>3 DEF FlagsIf

LEMMA CondFlags ==
  ASSUME NEW i \in DOMAIN record.conds
  PROVE  LET c == record.conds[i] IN
         /\ ~c.structured =>
              [on |-> OnCond(i), reason |-> "unstructured_condition"] \in FlagsOfRecord
         /\ c.structured /\ c.param \notin KnownParams \cup {""} =>
              [on |-> OnCond(i), reason |-> "unknown_parameter"] \in FlagsOfRecord
<1> DEFINE Both(j) == FlagsIf(~record.conds[j].structured, OnCond(j), "unstructured_condition")
                      \cup FlagsIf(record.conds[j].structured
                                     /\ record.conds[j].param \notin KnownParams \cup {""},
                                   OnCond(j), "unknown_parameter")
<1>1. ConditionChecks = UNION {Both(j) : j \in DOMAIN record.conds}
  BY DEF ConditionChecks
<1>2. Both(i) \subseteq FlagsOfRecord
  <2> HIDE DEF Both
  <2>1. QED
    BY <1>1 DEF FlagsOfRecord
<1>3. QED
  BY <1>2 DEF FlagsIf

LEMMA ConfidenceFlags ==
  ASSUME NEW i \in DOMAIN record.fields, record.fields[i].conf < Threshold
  PROVE  [on |-> OnField(record.fields[i].name), reason |-> "low_confidence"] \in FlagsOfRecord
<1> DEFINE Low(j) == FlagsIf(record.fields[j].conf < Threshold,
                             OnField(record.fields[j].name), "low_confidence")
<1>1. UNION {Low(j) : j \in DOMAIN record.fields} \subseteq ConfidenceChecks
  BY DEF ConfidenceChecks
<1>2. Low(i) \subseteq FlagsOfRecord
  <2> HIDE DEF Low
  <2>1. QED
    BY <1>1 DEF FlagsOfRecord
<1>3. QED
  BY <1>2 DEF FlagsIf

\* A marking of another market is flagged.
LEMMA MarkingFlags ==
  ASSUME NEW i \in DOMAIN record.fields, record.fields[i].name = "marking",
         MarkingJurisdiction(record.fields[i].text) # record.jurisdiction
  PROVE  [on |-> OnField("marking"), reason |-> "consistency_fail"] \in FlagsOfRecord
<1> DEFINE marks == {record.fields[j].text : j \in Named("marking")}
           foreign == \E m \in marks : MarkingJurisdiction(m) # record.jurisdiction
<1>1. foreign
  BY DEF Named
<1>2. FlagsIf(foreign, OnField("marking"), "consistency_fail") \subseteq ConsistencyChecks
  BY DEF ConsistencyChecks
<1>3. QED
  BY <1>1, <1>2 DEF FlagsOfRecord, FlagsIf

\* A field whose name has no flag is sound.
LEMMA UnflaggedField ==
  ASSUME record \in Records, NEW i \in DOMAIN record.fields,
         ~\E f \in FlagsOfRecord : f.on = OnField(record.fields[i].name)
  PROVE  SoundField(record.fields[i])
<1> DEFINE f == record.fields[i]
<1>1. \A r : [on |-> OnField(f.name), reason |-> r] \notin FlagsOfRecord
  OBVIOUS
<1>2. f.conf >= Threshold
  <2>1. f.conf \in 0..100 /\ Threshold \in 0..100
    BY ConstantsOK
  <2>2. ~(f.conf < Threshold)
    BY <1>1, ConfidenceFlags
  <2> HIDE DEF f
  <2>3. QED
    BY <2>1, <2>2
<1>3. f.name = "hs_code" => f.text \in ValidHs
  BY <1>1, FormatFlags
<1>4. f.name = "certification_body" => f.json # "unresolved"
  BY <1>1, FormatFlags
<1>5. f.name = "marking" => MarkingJurisdiction(f.text) = record.jurisdiction
  BY <1>1, MarkingFlags
<1>6. QED
  BY <1>2, <1>3, <1>4, <1>5 DEF SoundField, MarkingJurisdiction

\* So is a condition that is not pending.
LEMMA UnflaggedCond ==
  ASSUME record \in Records, NEW i \in DOMAIN record.conds,
         record.conds[i].structured, ~(record.conds[i].conf < Threshold),
         ~\E f \in FlagsOfRecord : f.on = OnCond(i)
  PROVE  SoundCond(record.conds[i])
<1> DEFINE conf == record.conds[i].conf
<1>1. conf >= Threshold
  <2>1. conf \in 0..100 /\ Threshold \in 0..100
    BY ConstantsOK
  <2> HIDE DEF conf
  <2>2. ~(conf < Threshold) => conf >= Threshold
    BY <2>1
  <2>3. QED
    BY <2>2 DEF conf
<1>2. record.conds[i].param \in KnownParams \cup {""}
  BY CondFlags
<1>3. QED
  BY <1>1, <1>2 DEF SoundCond
-----------------------------------------------------------------------------
LEMMA IdsApart == FieldIds \cap CondIds = {}
  BY DEF FieldIds, CondIds

Cols(id) == IF id \in FieldIds THEN FieldCols ELSE CondCols

LEMMA RowHasShape == ASSUME NEW id \in Ids PROVE Shape(id, RowOf(id))
<1>1. CASE id \in FieldIds
  BY <1>1 DEF Shape, RowOf, FieldCols
<1>2. CASE id \notin FieldIds
  BY <1>2 DEF Shape, RowOf, CondCols
<1>3. QED
  BY <1>1, <1>2

\* What a decision assigns to a row of the right shape.
LEMMA AssignedIs ==
  ASSUME NEW id, NEW row, NEW v, NEW d \in DecisionsOn(id), Shape(id, row)
  PROVE  LET new == Assigned(id, row, d, v) IN
         /\ new.status \in {row.status, "human-approved", "rejected"}
         /\ id \in FieldIds /\ d.act \in {"approve", "reject"} =>
              new.text = row.text /\ new.json = row.json
<1>1. CASE id \in FieldIds
  <2>1. d.act \in {"approve", "reject", "edit", "resolve"}
    BY <1>1 DEF DecisionsOn, FieldDecisions, Decision
  <2>2. d.act = "resolve" => d.value \in Bodies \/ d.value = "gone"
    BY <1>1 DEF DecisionsOn, FieldDecisions, Decision
  <2>3. "gone" \notin Bodies
    BY ConstantsOK
  <2>4. row = [c \in FieldCols |-> row[c]]
    BY <1>1 DEF Shape
  <2>5. QED
    BY <1>1, <2>1, <2>2, <2>3, <2>4 DEF Assigned, AssignedField, FieldCols
<1>2. CASE id \notin FieldIds
  <2>1. d.act \in {"approve", "reject", "edit"}
    BY <1>2 DEF DecisionsOn, CondDecisions, Decision
  <2>2. row = [c \in CondCols |-> row[c]]
    BY <1>2 DEF Shape
  <2>3. QED
    BY <1>2, <2>1, <2>2 DEF Assigned, AssignedCond, CondCols
<1>3. QED
  BY <1>1, <1>2

\* What a transaction leaves in a row: the right columns, never a row that
\* was auto-approved by it, and the values of an approval or rejection alone.
LEMMA WrittenIs ==
  ASSUME SessionsOK, RowsOK, NEW v \in Reviewers, NEW id \in DOMAIN sess[v].saw
  PROVE  /\ Shape(id, Written(v, id))
         /\ Written(v, id).status \in {rows[id].status, "human-approved", "rejected"}
         /\ id \in FieldIds /\ sess[v].doing[id].act \in {"approve", "reject"} =>
              Written(v, id).text = rows[id].text /\ Written(v, id).json = rows[id].json
<1> DEFINE saw == sess[v].saw[id]
           d   == sess[v].doing[id]
           obj == Assigned(id, saw, d, v)
<1>1. Shape(id, saw) /\ d \in DecisionsOn(id)
  BY DEF SessionsOK
<1>2. DOMAIN saw = Cols(id)
  BY <1>1 DEF Shape, Cols
<1>3. Written(v, id) = [c \in Cols(id) |-> IF obj[c] # saw[c] THEN obj[c] ELSE rows[id][c]]
  BY <1>2 DEF Written
<1>4. /\ obj.status \in {saw.status, "human-approved", "rejected"}
      /\ id \in FieldIds /\ d.act \in {"approve", "reject"} =>
           obj.text = saw.text /\ obj.json = saw.json
  BY <1>1, AssignedIs
<1> HIDE DEF obj, saw
<1>5. Shape(id, Written(v, id))
  BY <1>3 DEF Shape, Cols
<1>6. "status" \in Cols(id) /\ (id \in FieldIds => "text" \in Cols(id) /\ "json" \in Cols(id))
  BY DEF Cols, FieldCols, CondCols
<1>7. QED
  BY <1>3, <1>4, <1>5, <1>6

\* What a decision asks for is what it assigns: the value it sets is on
\* display, since the other column is cleared.
LEMMA AssignedShows ==
  ASSUME NEW id, NEW row, NEW v, NEW d \in DecisionsOn(id), Shape(id, row)
  PROVE  LET new == Assigned(id, row, d, v) IN
         /\ d.act \in {"approve", "edit"} => new.status = "human-approved"
         /\ d.act = "reject" => new.status = "rejected"
         /\ id \in FieldIds =>
              /\ new.by = v
              /\ d.act = "edit" => new.json = None /\ new.text = d.value
              /\ d.act = "resolve" /\ d.value \in Bodies =>
                   new.json = d.value /\ new.status = "human-approved"
<1>1. CASE id \in FieldIds
  <2>1. d.act \in {"approve", "reject", "edit", "resolve"}
    BY <1>1 DEF DecisionsOn, FieldDecisions, Decision
  <2>2. d.act = "resolve" => d.value \in Bodies \/ d.value = "gone"
    BY <1>1 DEF DecisionsOn, FieldDecisions, Decision
  <2>3. "gone" \notin Bodies
    BY ConstantsOK
  <2>4. row = [c \in FieldCols |-> row[c]]
    BY <1>1 DEF Shape
  <2>5. QED
    BY <1>1, <2>1, <2>2, <2>3, <2>4 DEF Assigned, AssignedField, FieldCols
<1>2. CASE id \notin FieldIds
  <2>1. d.act \in {"approve", "reject", "edit"}
    BY <1>2 DEF DecisionsOn, CondDecisions, Decision
  <2>2. row = [c \in CondCols |-> row[c]]
    BY <1>2 DEF Shape
  <2>3. QED
    BY <1>2, <2>1, <2>2 DEF Assigned, AssignedCond, CondCols
<1>3. QED
  BY <1>1, <1>2

\* A transaction that met no other write leaves in a row what it assigned.
LEMMA WrittenAlone ==
  ASSUME SessionsOK, RowsOK, NEW v \in Reviewers, NEW id \in DOMAIN sess[v].saw,
         rows[id] = sess[v].saw[id], NEW c \in Cols(id)
  PROVE  Written(v, id)[c] = Assigned(id, sess[v].saw[id], sess[v].doing[id], v)[c]
<1> DEFINE saw == sess[v].saw[id]
           obj == Assigned(id, saw, sess[v].doing[id], v)
<1>1. Shape(id, saw)
  BY DEF SessionsOK
<1>2. DOMAIN saw = Cols(id)
  BY <1>1 DEF Shape, Cols
<1>3. Written(v, id) = [k \in Cols(id) |-> IF obj[k] # saw[k] THEN obj[k] ELSE rows[id][k]]
  BY <1>2 DEF Written
<1>4. QED
  BY <1>3
-----------------------------------------------------------------------------
LEMMA InitIInv == Init => IInv
<1> SUFFICES ASSUME Init PROVE IInv
  OBVIOUS
<1>1. DOMAIN << >> = {}
  OBVIOUS
<1>2. RowsOK
  BY <1>1 DEF Init, RowsOK
<1>3. SessionsOK
  BY <1>1 DEF Init, SessionsOK
<1>4. QED
  BY <1>2, <1>3 DEF Init, IInv

\* The flags depend on the record alone.
LEMMA FlagsStay == ASSUME record' = record PROVE FlagsOfRecord' = FlagsOfRecord
<1>1. FormatChecks' = FormatChecks
  BY DEF FormatChecks
<1>2. \A mark : MarkingJurisdiction(mark)' = MarkingJurisdiction(mark)
  BY DEF MarkingJurisdiction
<1>3. \A n : Named(n)' = Named(n)
  BY DEF Named
<1>4. ConsistencyChecks' = ConsistencyChecks
  BY <1>2, <1>3, ZenonT(30) DEF ConsistencyChecks
<1>5. ConditionChecks' = ConditionChecks
  BY DEF ConditionChecks
<1>6. ConfidenceChecks' = ConfidenceChecks
  BY DEF ConfidenceChecks
<1>7. QED
  BY <1>1, <1>4, <1>5, <1>6 DEF FlagsOfRecord

LEMMA ValidateInv == ASSUME IInv, Validate PROVE IInv'
<1>1. /\ pc = "validate" /\ pc' = "persist" /\ flags' = FlagsOfRecord
      /\ UNCHANGED <<record, rows, sess, last>>
  BY DEF Validate
<1>2. FlagsOfRecord' = FlagsOfRecord
  BY <1>1, FlagsStay
<1>3. RowsOK'
  BY <1>1 DEF IInv, RowsOK
<1>4. SessionsOK'
  BY <1>1 DEF IInv, SessionsOK, Shape, DecisionsOn, FieldIds
<1>5. QED
  BY <1>1, <1>2, <1>3, <1>4 DEF IInv

\* No row is auto-approved unless it is sound.
LEMMA AutoApprovedRowSound ==
  ASSUME record \in Records, flags = FlagsOfRecord, NEW id \in Ids,
         RowOf(id).status = "auto-approved"
  PROVE  Sound(id)
<1>1. CASE id \in FieldIds
  <2>1. ~FieldPending(Field(id))
    BY <1>1 DEF RowOf, StatusIf
  <2>2. ~\E f \in FlagsOfRecord : f.on = OnField(Field(id).name)
    BY <2>1 DEF FieldPending, Flagged
  <2>3. ASSUME NEW i \in Named(Field(id).name) PROVE SoundField(record.fields[i])
    BY <2>2, UnflaggedField DEF Named
  <2>4. QED
    BY <1>1, <2>3 DEF Sound
<1>2. CASE id \notin FieldIds
  <2>1. id[2] \in DOMAIN record.conds
    BY <1>2 DEF Ids, CondIds
  <2>2. ~CondPending(id[2])
    BY <1>2 DEF RowOf, StatusIf
  <2>3. SoundCond(record.conds[id[2]])
    BY <2>1, <2>2, UnflaggedCond DEF CondPending, Flagged
  <2>4. QED
    BY <1>2, <2>3 DEF Sound, Cond
<1>3. QED
  BY <1>1, <1>2

LEMMA PersistInv == ASSUME IInv, Persist PROVE IInv'
<1>1. /\ pc = "persist" /\ pc' = "review" /\ UNCHANGED <<record, sess>>
      /\ rows' = [id \in Ids |-> RowOf(id)] /\ DOMAIN last' = Ids
  BY DEF Persist, Ids
<1>2. Ids' = Ids /\ FieldIds' = FieldIds /\ \A id : Sound(id)' = Sound(id)
  BY <1>1 DEF Ids, FieldIds, CondIds, Sound, Named, Field, Cond, SoundField, SoundCond
<1>3. \A id \in Ids : Shape(id, rows'[id]) /\ (rows'[id].status = "auto-approved" => Sound(id))
  BY <1>1, RowHasShape, AutoApprovedRowSound DEF IInv
<1>4. RowsOK'
  BY <1>1, <1>2, <1>3 DEF RowsOK, Shape
<1>5. \A v \in Reviewers : DOMAIN sess[v].saw = {}
  BY <1>1 DEF IInv, RowsOK, SessionsOK
<1>6. SessionsOK'
  BY <1>1, <1>5 DEF IInv, SessionsOK
<1>7. QED
  BY <1>1, <1>4, <1>6 DEF IInv

LEMMA LoadInv ==
  ASSUME IInv, NEW v \in Reviewers, NEW doing,
         DOMAIN doing \subseteq DOMAIN rows,
         \A id \in DOMAIN doing : doing[id] \in DecisionsOn(id),
         Load(v, doing)
  PROVE  IInv'
<1>1. /\ UNCHANGED <<pc, record, flags, rows, last>> /\ pc = "review"
      /\ sess' = [sess EXCEPT ![v] =
           [saw |-> [id \in DOMAIN doing |-> rows[id]], doing |-> doing]]
  BY DEF Load
<1>2. /\ FieldIds' = FieldIds /\ Ids' = Ids /\ \A id : Sound(id)' = Sound(id)
      /\ \A id : DecisionsOn(id)' = DecisionsOn(id)
  BY <1>1 DEF Ids, FieldIds, CondIds, Sound, Named, Field, Cond, SoundField, SoundCond,
              DecisionsOn
<1>3. RowsOK'
  BY <1>1, <1>2 DEF IInv, RowsOK, Shape
<1>4. ASSUME NEW w \in Reviewers
      PROVE  /\ DOMAIN sess'[w].saw \subseteq DOMAIN rows
             /\ \A id \in DOMAIN sess'[w].saw :
                  Shape(id, sess'[w].saw[id]) /\ sess'[w].doing[id] \in DecisionsOn(id)
  <2>1. CASE w = v
    <3>1. sess'[w] = [saw |-> [id \in DOMAIN doing |-> rows[id]], doing |-> doing]
      BY <1>1, <2>1 DEF IInv, SessionsOK
    <3>2. QED
      BY <3>1 DEF IInv, RowsOK
  <2>2. CASE w # v
    BY <1>1, <2>2 DEF IInv, SessionsOK
  <2>3. QED
    BY <2>1, <2>2
<1>5. SessionsOK'
  <2>1. DOMAIN sess' = Reviewers
    BY <1>1 DEF IInv, SessionsOK
  <2>2. \A id, row : Shape(id, row)' = Shape(id, row)
    BY <1>2 DEF Shape
  <2>3. QED
    BY <1>1, <1>2, <1>4, <2>1, <2>2 DEF SessionsOK
<1>6. QED
  BY <1>1, <1>3, <1>5 DEF IInv

LEMMA EndpointInv ==
  ASSUME IInv, NEW v \in Reviewers,
         \/ \E id \in DOMAIN rows, d \in FieldDecisions : FieldAction(v, id, d)
         \/ \E id \in DOMAIN rows, d \in CondDecisions : ConditionAction(v, id, d)
         \/ \E threshold \in {0, Threshold} : BulkApprove(v, threshold)
  PROVE  IInv'
<1>1. CASE \E id \in DOMAIN rows, d \in FieldDecisions : FieldAction(v, id, d)
  <2>1. PICK id \in DOMAIN rows, d \in FieldDecisions : FieldAction(v, id, d)
    BY <1>1
  <2>2. id \in FieldIds /\ Load(v, [x \in {id} |-> d])
    BY <2>1 DEF FieldAction
  <2>3. QED
    BY <2>2, LoadInv DEF DecisionsOn
<1>2. CASE \E id \in DOMAIN rows, d \in CondDecisions : ConditionAction(v, id, d)
  <2>1. PICK id \in DOMAIN rows, d \in CondDecisions : ConditionAction(v, id, d)
    BY <1>2
  <2>2. id \in CondIds /\ id \notin FieldIds /\ Load(v, [x \in {id} |-> d])
    BY <2>1, IdsApart DEF ConditionAction
  <2>3. QED
    BY <2>2, LoadInv DEF DecisionsOn
<1>3. CASE \E threshold \in {0, Threshold} : BulkApprove(v, threshold)
  <2>1. PICK threshold \in {0, Threshold} : BulkApprove(v, threshold)
    BY <1>3
  <2>2. Load(v, [id \in BulkFound(threshold) |-> Decision("approve", None)])
    BY <2>1 DEF BulkApprove
  <2>3. BulkFound(threshold) \subseteq DOMAIN rows \cap FieldIds
    BY DEF BulkFound, Pending
  <2>4. Decision("approve", None) \in FieldDecisions
    BY DEF FieldDecisions
  <2>5. QED
    BY <2>2, <2>3, <2>4, LoadInv DEF DecisionsOn
<1>4. QED
  BY <1>1, <1>2, <1>3

LEMMA WriteInv ==
  ASSUME IInv, NEW v \in Reviewers, Write(v)
  PROVE  IInv'
<1>1. /\ UNCHANGED <<pc, record, flags>>
      /\ rows' = [id \in DOMAIN rows |->
                    IF id \in DOMAIN sess[v].saw THEN Written(v, id) ELSE rows[id]]
      /\ DOMAIN last' = DOMAIN rows
      /\ sess' = [sess EXCEPT ![v] = [saw |-> << >>, doing |-> << >>]]
  BY DEF Write
<1>2. /\ FieldIds' = FieldIds /\ Ids' = Ids /\ \A id : Sound(id)' = Sound(id)
      /\ \A id : DecisionsOn(id)' = DecisionsOn(id)
  BY <1>1 DEF Ids, FieldIds, CondIds, Sound, Named, Field, Cond, SoundField, SoundCond,
              DecisionsOn
<1>3. \A id \in DOMAIN rows :
        Shape(id, rows'[id]) /\ (rows'[id].status = "auto-approved" => Sound(id))
  BY <1>1, WrittenIs DEF IInv, RowsOK
<1>4. DOMAIN rows' = DOMAIN rows
  BY <1>1
<1>5. RowsOK'
  BY <1>1, <1>2, <1>3, <1>4 DEF IInv, RowsOK, Shape
<1>6. SessionsOK'
  <2>1. DOMAIN << >> = {}
    OBVIOUS
  <2>2. \A w \in Reviewers : sess'[w] = IF w = v THEN [saw |-> << >>, doing |-> << >>]
                                              ELSE sess[w]
    BY <1>1 DEF IInv, SessionsOK
  <2>3. DOMAIN sess' = Reviewers
    BY <1>1 DEF IInv, SessionsOK
  <2>4. ASSUME NEW w \in Reviewers
        PROVE  /\ DOMAIN sess'[w].saw \subseteq DOMAIN rows
               /\ \A id \in DOMAIN sess'[w].saw :
                    Shape(id, sess'[w].saw[id]) /\ sess'[w].doing[id] \in DecisionsOn(id)
    <3>1. CASE w = v
      <4>1. sess'[w].saw = << >>
        BY <2>2, <3>1
      <4>2. QED
        BY <2>1, <4>1
    <3>2. CASE w # v
      BY <2>2, <3>2 DEF IInv, SessionsOK
    <3>3. QED
      BY <3>1, <3>2
  <2>5. QED
    BY <1>2, <1>4, <2>3, <2>4 DEF SessionsOK, Shape
<1>7. FlagsOfRecord' = FlagsOfRecord
  BY <1>1, FlagsStay
<1>8. QED
  BY <1>1, <1>4, <1>5, <1>6, <1>7 DEF IInv

LEMMA NextIInv == IInv /\ [Next]_vars => IInv'
<1>1. ASSUME IInv, UNCHANGED vars PROVE IInv'
  <2>1. FlagsOfRecord' = FlagsOfRecord
    BY <1>1, FlagsStay DEF vars
  <2>2. /\ FieldIds' = FieldIds /\ Ids' = Ids /\ \A id : Sound(id)' = Sound(id)
        /\ \A id : DecisionsOn(id)' = DecisionsOn(id)
    BY <1>1 DEF vars, Ids, FieldIds, CondIds, Sound, Named, Field, Cond, SoundField,
                SoundCond, DecisionsOn
  <2>3. RowsOK'
    BY <1>1, <2>2 DEF vars, IInv, RowsOK, Shape
  <2>4. SessionsOK'
    BY <1>1, <2>2 DEF vars, IInv, SessionsOK, Shape
  <2>5. QED
    BY <1>1, <2>1, <2>3, <2>4 DEF vars, IInv
<1>2. QED
  BY <1>1, ValidateInv, PersistInv, EndpointInv, WriteInv DEF Next

\* The inductive invariant of review.
THEOREM Invariance == Spec => []IInv
<1>1. QED
  BY InitIInv, NextIInv, PTL DEF Spec

\* No row is shown as approved without a human that the validation agent had
\* anything to say about, for any record and any decisions
\* (pipeline.py: _persist).
THEOREM AutoApprovalSound == Spec => []AutoApprovedIsSound
<1>1. IInv => AutoApprovedIsSound
  BY DEF IInv, RowsOK, Ids, Sound, AutoApprovedIsSound
<1>2. QED
  BY <1>1, Invariance, PTL

\* An approval or a rejection changes no value that is on display, whoever
\* wrote the row since it was loaded (ui/api/review.py: bulk_approve loads many
\* rows and writes their status alone).
THEOREM ApprovalsKeepValues == Spec => ApprovalKeepsValue
<1> DEFINE Keeps == \A id \in DOMAIN rows \cap FieldIds :
                      last'[id] # last[id] /\ last'[id].act \in {"approve", "reject"} =>
                        Display(rows'[id]) = Display(rows[id])
<1>1. IInv /\ [Next]_vars => [Keeps]_vars
  <2> SUFFICES ASSUME IInv, Next, NEW id \in DOMAIN rows \cap FieldIds,
                      last'[id] # last[id], last'[id].act \in {"approve", "reject"}
               PROVE  Display(rows'[id]) = Display(rows[id])
    OBVIOUS
  <2>1. pc = "review"
    BY DEF IInv, RowsOK
  <2>2. ASSUME NEW v \in Reviewers, Write(v)
        PROVE  Display(rows'[id]) = Display(rows[id])
    <3>1. id \in DOMAIN sess[v].saw /\ sess[v].doing[id].act \in {"approve", "reject"}
      BY <2>2 DEF Write
    <3>2. rows'[id] = Written(v, id)
      BY <2>2, <3>1 DEF Write
    <3>3. Written(v, id).text = rows[id].text /\ Written(v, id).json = rows[id].json
      BY <3>1, WrittenIs DEF IInv
    <3>4. QED
      BY <3>2, <3>3 DEF Display
  <2>3. ASSUME UNCHANGED last PROVE FALSE
    BY <2>3
  <2>4. QED
    BY <2>1, <2>2, <2>3 DEF Next, Validate, Persist, FieldAction, ConditionAction,
       BulkApprove, Load
<1>2. QED
  BY <1>1, Invariance, PTL DEF Spec, ApprovalKeepsValue

\* A decision that met no other is what its row says, for any number of
\* reviewers: an edit clears the structured value that would hide it, and a
\* resolution the text (ui/api/review.py: field_action).
THEOREM DecisionsShow == Spec => []LastDecisionShows
<1>1. Init => LastDecisionShows
  <2>1. DOMAIN << >> = {}
    OBVIOUS
  <2>2. QED
    BY <2>1 DEF Init, LastDecisionShows
<1>2. IInv /\ LastDecisionShows /\ [Next]_vars => LastDecisionShows'
  <2> SUFFICES ASSUME IInv, LastDecisionShows, [Next]_vars, NEW id \in DOMAIN last',
                      last'[id].act # None, last'[id].alone
               PROVE  Shows(id, last[id])'
    BY DEF LastDecisionShows
  <2>1. CASE Persist
    BY <2>1 DEF Persist, NoDecision
  <2>2. ASSUME NEW v \in Reviewers, Write(v), id \in DOMAIN sess[v].saw
        PROVE  Shows(id, last[id])'
    <3> DEFINE d == sess[v].doing[id]
               obj == Assigned(id, sess[v].saw[id], d, v)
    <3>1. id \in DOMAIN rows /\ d \in DecisionsOn(id) /\ Shape(id, sess[v].saw[id])
      BY <2>2 DEF IInv, SessionsOK
    <3>2. /\ rows'[id] = Written(v, id) /\ rows[id] = sess[v].saw[id]
          /\ last'[id].act = d.act /\ last'[id].value = d.value /\ last'[id].by = v
          /\ FieldIds' = FieldIds
      BY <2>2, <3>1 DEF Write, FieldIds
    <3>3. \A c \in Cols(id) : rows'[id][c] = obj[c]
      BY <2>2, <3>2, WrittenAlone DEF IInv
    <3>4. /\ d.act \in {"approve", "edit"} => obj.status = "human-approved"
          /\ d.act = "reject" => obj.status = "rejected"
          /\ id \in FieldIds =>
               /\ obj.by = v
               /\ d.act = "edit" => obj.json = None /\ obj.text = d.value
               /\ d.act = "resolve" /\ d.value \in Bodies =>
                    obj.json = d.value /\ obj.status = "human-approved"
      BY <3>1, AssignedShows
    <3> HIDE DEF obj, d
    <3>5. rows'[id].status = obj.status
      BY <3>3 DEF Cols, FieldCols, CondCols
    <3>6. id \in FieldIds => /\ rows'[id].by = obj.by /\ rows'[id].text = obj.text
                            /\ rows'[id].json = obj.json
      BY <3>3 DEF Cols, FieldCols
    <3>7. None \notin Bodies
      BY ConstantsOK DEF None
    <3>8. QED
      BY <3>2, <3>4, <3>5, <3>6, <3>7 DEF Shows, Display
  <2>3. ASSUME last'[id] = last[id], id \in DOMAIN last, rows'[id] = rows[id],
               record' = record
        PROVE  Shows(id, last[id])'
    BY <2>3 DEF LastDecisionShows, Shows, Display, FieldIds
  <2>4. ASSUME NEW v \in Reviewers, Write(v), id \notin DOMAIN sess[v].saw
        PROVE  Shows(id, last[id])'
    BY <2>3, <2>4 DEF Write, IInv
  <2>5. CASE UNCHANGED <<record, rows, last>>
    BY <2>3, <2>5
  <2>6. QED
    BY <2>1, <2>2, <2>4, <2>5 DEF Next, Validate, FieldAction, ConditionAction, BulkApprove,
       Load, vars
<1>3. QED
  BY <1>1, <1>2, Invariance, PTL DEF Spec
-----------------------------------------------------------------------------
(***************************************************************************)
(* The reason a reviewer reads                                             *)
(***************************************************************************)
\* What a row still pending says is what the record says: its status was never
\* written, and no transaction believes it was.
RInv ==
  /\ pc = "review" => flags = FlagsOfRecord
  /\ \A id \in Pending :
       /\ IF id \in FieldIds
          THEN /\ FieldPending(Field(id))
               /\ rows[id].text = Field(id).text /\ rows[id].json = Field(id).json
          ELSE CondPending(id[2])
       /\ \A v \in Reviewers :
            id \in DOMAIN sess[v].saw => sess[v].saw[id].status = "pending"

\* The other way round: where a flag is from.
LEMMA FormatFlagFrom ==
  ASSUME NEW g \in FormatChecks
  PROVE  \E i \in DOMAIN record.fields :
           LET f == record.fields[i] IN
           \/ /\ f.name = "hs_code" /\ f.text \notin ValidHs
              /\ g.on = OnField("hs_code")
           \/ /\ f.name = "certification_body" /\ f.json = "unresolved"
              /\ g.on = OnField("certification_body")
<1> DEFINE Both(f) == FlagsIf(f.name = "hs_code" /\ f.text \notin ValidHs,
                              OnField("hs_code"), "invalid_hs")
                      \cup FlagsIf(f.name = "certification_body" /\ f.json = "unresolved",
                                   OnField("certification_body"), "unresolved_alias")
<1>1. PICK i \in DOMAIN record.fields : g \in Both(record.fields[i])
  <2> HIDE DEF Both
  <2>1. FormatChecks = UNION {Both(f) : f \in {record.fields[j] : j \in DOMAIN record.fields}}
    BY DEF FormatChecks, Both
  <2>2. QED
    BY <2>1
<1>2. QED
  BY <1>1 DEF FlagsIf

LEMMA CondFlagFrom ==
  ASSUME NEW g \in ConditionChecks
  PROVE  \E i \in DOMAIN record.conds :
           /\ g.on = OnCond(i)
           /\ ~record.conds[i].structured \/ g.reason = "unknown_parameter"
<1> DEFINE Both(j) == FlagsIf(~record.conds[j].structured, OnCond(j), "unstructured_condition")
                      \cup FlagsIf(record.conds[j].structured
                                     /\ record.conds[j].param \notin KnownParams \cup {""},
                                   OnCond(j), "unknown_parameter")
<1>1. ConditionChecks = UNION {Both(j) : j \in DOMAIN record.conds}
  BY DEF ConditionChecks
<1>2. PICK i \in DOMAIN record.conds : g \in Both(i)
  <2> HIDE DEF Both
  <2>1. QED
    BY <1>1
<1>3. \/ ~record.conds[i].structured /\ g = [on |-> OnCond(i), reason |-> "unstructured_condition"]
      \/ g = [on |-> OnCond(i), reason |-> "unknown_parameter"]
  BY <1>2 DEF FlagsIf
<1>4. QED
  BY <1>3

LEMMA ConfidenceFlagFrom ==
  ASSUME NEW g \in ConfidenceChecks
  PROVE  \/ \E i \in DOMAIN record.fields :
              record.fields[i].conf < Threshold /\ g.on = OnField(record.fields[i].name)
         \/ \E i \in DOMAIN record.conds :
              record.conds[i].conf < Threshold /\ g.on = OnCond(i)
<1> DEFINE LowField(j) == FlagsIf(record.fields[j].conf < Threshold,
                                  OnField(record.fields[j].name), "low_confidence")
           LowCond(j) == FlagsIf(record.conds[j].conf < Threshold, OnCond(j), "low_confidence")
<1>1. ConfidenceChecks = (UNION {LowField(j) : j \in DOMAIN record.fields})
                         \cup (UNION {LowCond(j) : j \in DOMAIN record.conds})
  BY DEF ConfidenceChecks
<1>2. \/ \E i \in DOMAIN record.fields : g \in LowField(i)
      \/ \E i \in DOMAIN record.conds : g \in LowCond(i)
  <2> HIDE DEF LowField, LowCond
  <2>1. QED
    BY <1>1
<1>3. QED
  BY <1>2 DEF FlagsIf

LEMMA ConsistencyFlagFrom ==
  ASSUME NEW g \in ConsistencyChecks
  PROVE  /\ \E n : g.on = OnField(n)
         /\ \/ g.reason = "consistency_fail"
            \/ g.on = OnField("production_type") /\ Named("production_type") = {}
BY DEF ConsistencyChecks, FlagsIf

\* Two rows of one name.
LEMMA Sibling ==
  ASSUME record \in Records, NEW n, NEW i \in Named(n), NEW j \in Named(n), i # j
  PROVE  Cardinality(Named(n)) > 1
<1>1. IsFiniteSet(Named(n))
  BY ConstantsOK, FS_Subset DEF Named
<1>2. IsFiniteSet({i}) /\ Cardinality({i}) = 1
  BY FS_Singleton
<1>3. IsFiniteSet({i} \cup {j}) /\ Cardinality({i} \cup {j}) = 2
  <2>1. j \notin {i}
    OBVIOUS
  <2>2. IsFiniteSet({i} \cup {j}) /\ Cardinality({i} \cup {j}) = Cardinality({i}) + 1
    BY <1>2, <2>1, FS_AddElement
  <2>3. QED
    BY <1>2, <2>2
<1>4. {i} \cup {j} \in SUBSET Named(n)
  OBVIOUS
<1>5. Cardinality({i} \cup {j}) <= Cardinality(Named(n)) /\ Cardinality(Named(n)) \in Nat
  BY <1>1, <1>4, FS_Subset, FS_CardinalityType
<1>6. QED
  BY <1>3, <1>5

LEMMA LowCondFlags ==
  ASSUME NEW i \in DOMAIN record.conds, record.conds[i].conf < Threshold
  PROVE  [on |-> OnCond(i), reason |-> "low_confidence"] \in FlagsOfRecord
<1> DEFINE Low(j) == FlagsIf(record.conds[j].conf < Threshold, OnCond(j), "low_confidence")
<1>1. UNION {Low(j) : j \in DOMAIN record.conds} \subseteq ConfidenceChecks
  BY DEF ConfidenceChecks
<1>2. Low(i) \subseteq FlagsOfRecord
  <2> HIDE DEF Low
  <2>1. QED
    BY <1>1 DEF FlagsOfRecord
<1>3. QED
  BY <1>2 DEF FlagsIf

Raised(on) == {f.reason : f \in {g \in flags : g.on = on}}

LEMMA RaisedIf ==
  ASSUME NEW on, NEW reason, [on |-> on, reason |-> reason] \in flags
  PROVE  reason \in Raised(on)
BY DEF Raised

LEMMA FieldReasonTrue ==
  ASSUME IInv, RInv, NEW id \in Pending, id \in FieldIds
  PROVE  LET n == Field(id).name IN
         IF FieldReason(id) # "flagged" THEN FieldReason(id) \in Raised(OnField(n))
         ELSE \/ "consistency_fail" \in Raised(OnField(n))
              \/ Raised(OnField(n)) # {} /\ Cardinality(Named(n)) > 1
<1> DEFINE f == Field(id)
           i == id[2]
<1>1. /\ i \in DOMAIN record.fields /\ f = record.fields[i]
      /\ record \in Records /\ i \in Named(f.name)
  BY DEF FieldIds, Field, IInv, Named
<1>2. flags = FlagsOfRecord
  BY DEF IInv, RowsOK, RInv, Pending
<1>3. rows[id].text = f.text /\ rows[id].json = f.json /\ FieldPending(f)
  BY DEF RInv
<1>4. f.conf \in 0..100 /\ Threshold \in 0..100
  BY <1>1, ConstantsOK
<1> HIDE DEF f, i
<1>5. CASE f.conf < Threshold
  <2>1. FieldReason(id) = "low_confidence"
    <3>1. ~(f.conf >= Threshold)
      BY <1>4, <1>5
    <3>2. QED
      BY <1>5, <3>1 DEF FieldReason, f
  <2>2. QED
    BY <1>1, <1>2, <1>5, <2>1, ConfidenceFlags, RaisedIf DEF f
<1>6. CASE f.conf >= Threshold /\ f.name = "hs_code" /\ f.text \notin ValidHs
  <2>1. FieldReason(id) = "invalid_hs"
    BY <1>3, <1>4, <1>6 DEF FieldReason, f
  <2>2. QED
    BY <1>1, <1>2, <1>6, <2>1, FormatFlags, RaisedIf DEF f
<1>7. CASE f.conf >= Threshold /\ f.name = "certification_body" /\ f.json = "unresolved"
  <2>1. FieldReason(id) = "unresolved_alias"
    BY <1>3, <1>4, <1>7 DEF FieldReason, f
  <2>2. QED
    BY <1>1, <1>2, <1>7, <2>1, FormatFlags, RaisedIf DEF f
<1>8. CASE /\ f.conf >= Threshold
           /\ f.name = "hs_code" => f.text \in ValidHs
           /\ f.name = "certification_body" => f.json # "unresolved"
  <2>1. FieldReason(id) = "flagged"
    BY <1>3, <1>4, <1>8 DEF FieldReason, f
  <2>2. PICK g \in FlagsOfRecord : g.on = OnField(f.name)
    BY <1>2, <1>3, <1>4, <1>8 DEF FieldPending, Flagged
  <2>3. g.reason \in Raised(OnField(f.name))
    BY <1>2, <2>2 DEF Raised
  <2>4. CASE g \in FormatChecks
    <3>1. PICK j \in DOMAIN record.fields :
            LET h == record.fields[j] IN
            \/ /\ h.name = "hs_code" /\ h.text \notin ValidHs
               /\ g.on = OnField("hs_code")
            \/ /\ h.name = "certification_body" /\ h.json = "unresolved"
               /\ g.on = OnField("certification_body")
      BY <2>4, FormatFlagFrom
    <3>2. record.fields[j].name = f.name /\ j # i
      BY <1>1, <1>8, <2>2, <3>1 DEF OnField
    <3>3. Cardinality(Named(f.name)) > 1
      BY <1>1, <3>2, Sibling DEF Named
    <3>4. QED
      BY <2>1, <2>3, <3>3 DEF f
  <2>5. CASE g \in ConsistencyChecks
    <3>1. g.reason = "consistency_fail"
      BY <1>1, <2>2, <2>5, ConsistencyFlagFrom DEF OnField
    <3>2. QED
      BY <2>1, <2>3, <3>1 DEF f
  <2>6. CASE g \in ConditionChecks
    BY <2>2, <2>6, CondFlagFrom DEF OnField, OnCond
  <2>7. CASE g \in ConfidenceChecks
    <3>1. PICK j \in DOMAIN record.fields :
            record.fields[j].conf < Threshold /\ g.on = OnField(record.fields[j].name)
      BY <2>2, <2>7, ConfidenceFlagFrom DEF OnField, OnCond
    <3>2. record.fields[j].name = f.name /\ j # i
      BY <1>1, <1>4, <1>8, <2>2, <3>1 DEF OnField
    <3>3. Cardinality(Named(f.name)) > 1
      BY <1>1, <3>2, Sibling DEF Named
    <3>4. QED
      BY <2>1, <2>3, <3>3 DEF f
  <2>8. QED
    BY <2>2, <2>4, <2>5, <2>6, <2>7 DEF FlagsOfRecord
<1>9. QED
  BY <1>4, <1>5, <1>6, <1>7, <1>8

LEMMA CondReasonTrue ==
  ASSUME IInv, RInv, NEW id \in Pending, id \notin FieldIds
  PROVE  IF CondReason(id) # "flagged" THEN CondReason(id) \in Raised(id)
         ELSE "unknown_parameter" \in Raised(id)
<1> DEFINE i == id[2]
           c == record.conds[i]
<1>1. id \in CondIds /\ i \in DOMAIN record.conds /\ id = OnCond(i) /\ record \in Records
  BY DEF IInv, RowsOK, Pending, Ids, CondIds, OnCond
<1>2. flags = FlagsOfRecord /\ CondPending(i) /\ Cond(id) = c
  BY DEF IInv, RowsOK, RInv, Pending, Cond
<1>3. c.conf \in 0..100 /\ Threshold \in 0..100
  BY <1>1, ConstantsOK
<1> HIDE DEF i
<1>4. CASE ~c.structured
  BY <1>1, <1>2, <1>4, CondFlags, RaisedIf DEF CondReason
<1>5. CASE c.structured /\ c.conf < Threshold
  BY <1>1, <1>2, <1>5, LowCondFlags, RaisedIf DEF CondReason
<1>6. CASE c.structured /\ ~(c.conf < Threshold)
  <2>1. CondReason(id) = "flagged"
    BY <1>2, <1>6 DEF CondReason
  <2>2. PICK g \in FlagsOfRecord : g.on = OnCond(i)
    BY <1>2, <1>6 DEF CondPending, Flagged
  <2>3. g \in ConditionChecks
    BY <1>6, <2>2, FormatFlagFrom, ConsistencyFlagFrom, ConfidenceFlagFrom
    DEF FlagsOfRecord, OnField, OnCond
  <2>4. g.reason = "unknown_parameter"
    BY <1>6, <2>2, <2>3, CondFlagFrom DEF OnCond
  <2>5. QED
    BY <1>1, <1>2, <2>1, <2>2, <2>4 DEF Raised
<1>7. QED
  BY <1>4, <1>5, <1>6

\* A decision that decides nothing changes no value.
LEMMA AssignedPending ==
  ASSUME NEW id, NEW row, NEW v, NEW d \in DecisionsOn(id), Shape(id, row)
  PROVE  LET new == Assigned(id, row, d, v) IN
         new.status = "pending" =>
           id \in FieldIds /\ new.text = row.text /\ new.json = row.json
<1>1. CASE id \in FieldIds
  <2>1. d.act \in {"approve", "reject", "edit", "resolve"}
    BY <1>1 DEF DecisionsOn, FieldDecisions, Decision
  <2>2. d.act = "resolve" => d.value \in Bodies \/ d.value = "gone"
    BY <1>1 DEF DecisionsOn, FieldDecisions, Decision
  <2>3. "gone" \notin Bodies
    BY ConstantsOK
  <2>4. row = [c \in FieldCols |-> row[c]]
    BY <1>1 DEF Shape
  <2>5. QED
    BY <1>1, <2>1, <2>2, <2>3, <2>4 DEF Assigned, AssignedField, FieldCols
<1>2. CASE id \notin FieldIds
  <2>1. d.act \in {"approve", "reject", "edit"}
    BY <1>2 DEF DecisionsOn, CondDecisions, Decision
  <2>2. row = [c \in CondCols |-> row[c]]
    BY <1>2 DEF Shape
  <2>3. QED
    BY <1>2, <2>1, <2>2 DEF Assigned, AssignedCond, CondCols
<1>3. QED
  BY <1>1, <1>2

\* A row that a transaction leaves pending was pending, and keeps its values.
LEMMA WrittenPending ==
  ASSUME IInv, RInv, NEW v \in Reviewers, NEW id \in DOMAIN sess[v].saw,
         Written(v, id).status = "pending"
  PROVE  /\ id \in Pending /\ id \in FieldIds
         /\ Written(v, id).text = rows[id].text /\ Written(v, id).json = rows[id].json
<1> DEFINE saw == sess[v].saw[id]
           d   == sess[v].doing[id]
           obj == Assigned(id, saw, d, v)
<1>1. Shape(id, saw) /\ d \in DecisionsOn(id) /\ id \in DOMAIN rows
  BY DEF IInv, SessionsOK
<1>2. rows[id].status = "pending"
  BY WrittenIs DEF IInv
<1>3. id \in Pending /\ saw.status = "pending"
  BY <1>1, <1>2 DEF Pending, RInv
<1>4. DOMAIN saw = Cols(id)
  BY <1>1 DEF Shape, Cols
<1>5. Written(v, id) = [c \in Cols(id) |-> IF obj[c] # saw[c] THEN obj[c] ELSE rows[id][c]]
  BY <1>4 DEF Written
<1>6. /\ obj.status \in {saw.status, "human-approved", "rejected"}
      /\ obj.status = "pending" => id \in FieldIds /\ obj.text = saw.text /\ obj.json = saw.json
  BY <1>1, AssignedIs, AssignedPending
<1> HIDE DEF obj, saw
<1>7. "status" \in Cols(id) /\ (id \in FieldIds => "text" \in Cols(id) /\ "json" \in Cols(id))
  BY DEF Cols, FieldCols, CondCols
<1>8. obj.status = "pending"
  BY <1>3, <1>5, <1>6, <1>7
<1>9. QED
  BY <1>3, <1>5, <1>6, <1>7, <1>8

LEMMA NextRInv ==
  ASSUME IInv, RInv, [Next]_vars
  PROVE  RInv'
<1>1. ASSUME UNCHANGED <<record, flags>>
      PROVE  /\ FlagsOfRecord' = FlagsOfRecord /\ FieldIds' = FieldIds /\ CondIds' = CondIds
             /\ \A id : Field(id)' = Field(id)
             /\ \A f : FieldPending(f)' = FieldPending(f)
             /\ \A i : CondPending(i)' = CondPending(i)
  <2>1. FlagsOfRecord' = FlagsOfRecord
    BY <1>1, FlagsStay
  <2>2. QED
    BY <1>1, <2>1 DEF FieldIds, CondIds, Field, FieldPending, CondPending, Flagged
<1>2. CASE Validate
  <2>1. pc' = "persist" /\ DOMAIN rows' = {}
    BY <1>2 DEF Validate, IInv, RowsOK
  <2>2. QED
    BY <2>1 DEF RInv, Pending
<1>3. CASE Persist
  <2>1. /\ UNCHANGED <<record, flags, sess>> /\ flags = FlagsOfRecord
        /\ rows' = [id \in Ids |-> RowOf(id)]
    BY <1>3 DEF Persist, Ids, IInv
  <2>2. \A v \in Reviewers : DOMAIN sess[v].saw = {}
    BY <1>3 DEF Persist, IInv, RowsOK, SessionsOK
  <2>3. ASSUME NEW id \in Ids, RowOf(id).status = "pending"
        PROVE  IF id \in FieldIds
               THEN /\ FieldPending(Field(id))
                    /\ RowOf(id).text = Field(id).text /\ RowOf(id).json = Field(id).json
               ELSE CondPending(id[2])
    BY <2>3 DEF RowOf, StatusIf
  <2>4. \A id \in Pending' : id \in Ids /\ rows'[id] = RowOf(id) /\ RowOf(id).status = "pending"
    BY <2>1 DEF Pending
  <2>5. QED
    BY <1>1, <2>1, <2>2, <2>3, <2>4 DEF RInv
<1>4. ASSUME NEW v \in Reviewers, NEW doing, Load(v, doing)
      PROVE  RInv'
  <2>1. /\ UNCHANGED <<pc, record, flags, rows>>
        /\ sess' = [sess EXCEPT ![v] =
             [saw |-> [id \in DOMAIN doing |-> rows[id]], doing |-> doing]]
    BY <1>4 DEF Load
  <2>2. Pending' = Pending
    BY <2>1 DEF Pending
  <2>3. ASSUME NEW id \in Pending, NEW w \in Reviewers, id \in DOMAIN sess'[w].saw
        PROVE  sess'[w].saw[id].status = "pending"
    <3>1. CASE w = v
      <4>1. sess'[w].saw = [x \in DOMAIN doing |-> rows[x]]
        BY <2>1, <3>1 DEF IInv, SessionsOK
      <4>2. QED
        BY <2>3, <4>1 DEF Pending
    <3>2. CASE w # v
      BY <2>1, <2>3, <3>2 DEF IInv, SessionsOK, RInv
    <3>3. QED
      BY <3>1, <3>2
  <2>4. QED
    BY <1>1, <2>1, <2>2, <2>3 DEF RInv
<1>5. ASSUME NEW v \in Reviewers, Write(v)
      PROVE  RInv'
  <2>1. /\ UNCHANGED <<pc, record, flags>>
        /\ rows' = [id \in DOMAIN rows |->
                      IF id \in DOMAIN sess[v].saw THEN Written(v, id) ELSE rows[id]]
        /\ \A w \in Reviewers : sess'[w] = IF w = v THEN [saw |-> << >>, doing |-> << >>]
                                                    ELSE sess[w]
    BY <1>5 DEF Write, IInv, SessionsOK
  <2>2. ASSUME NEW id \in Pending'
        PROVE  /\ id \in Pending
               /\ id \in FieldIds => rows'[id].text = rows[id].text /\ rows'[id].json = rows[id].json
    <3>1. id \in DOMAIN rows /\ rows'[id].status = "pending"
      BY <2>1 DEF Pending
    <3>2. CASE id \in DOMAIN sess[v].saw
      <4>1. rows'[id] = Written(v, id)
        BY <2>1, <3>1, <3>2
      <4>2. QED
        BY <3>1, <3>2, <4>1, WrittenPending
    <3>3. CASE id \notin DOMAIN sess[v].saw
      BY <2>1, <3>1, <3>3 DEF Pending
    <3>4. QED
      BY <3>2, <3>3
  <2>3. ASSUME NEW id \in Pending, NEW w \in Reviewers, id \in DOMAIN sess'[w].saw
        PROVE  sess'[w].saw[id].status = "pending"
    <3>1. DOMAIN << >> = {}
      OBVIOUS
    <3>2. w # v
      BY <2>1, <2>3, <3>1
    <3>3. QED
      BY <2>1, <2>3, <3>2 DEF RInv
  <2>4. QED
    BY <1>1, <2>1, <2>2, <2>3 DEF RInv
<1>6. CASE UNCHANGED vars
  BY <1>1, <1>6 DEF vars, RInv, Pending
<1>7. QED
  BY <1>2, <1>3, <1>4, <1>5, <1>6 DEF Next, FieldAction, ConditionAction, BulkApprove

\* The reason of a pending row, computed from the row as it is now, is one that
\* the validation agent raised; "flagged" stands only for what the row cannot
\* show (ui/review_helpers.py), for every record and whatever reviewers do.
THEOREM ReasonsAreTrue == Spec => []ReasonIsTrue
<1>1. Init => RInv
  <2>1. DOMAIN << >> = {}
    OBVIOUS
  <2>2. QED
    BY <2>1 DEF Init, RInv, Pending
<1>2. IInv /\ RInv /\ [Next]_vars => RInv'
  BY NextRInv
<1>3. IInv /\ RInv => ReasonIsTrue
  <2> SUFFICES ASSUME IInv, RInv, NEW id \in Pending
               PROVE  LET on == IF id \in FieldIds THEN OnField(Field(id).name) ELSE id
                      IN  IF Reason(id) # "flagged" THEN Reason(id) \in Raised(on)
                          ELSE \/ Raised(on) \cap {"consistency_fail", "unknown_parameter"} # {}
                               \/ /\ id \in FieldIds /\ Raised(on) # {}
                                  /\ Cardinality(Named(Field(id).name)) > 1
    BY DEF ReasonIsTrue, Raised
  <2>1. CASE id \in FieldIds
    BY <2>1, FieldReasonTrue DEF Reason
  <2>2. CASE id \notin FieldIds
    BY <2>2, CondReasonTrue DEF Reason
  <2>3. QED
    BY <2>1, <2>2
<1>4. QED
  BY <1>1, <1>2, <1>3, Invariance, PTL DEF Spec
-----------------------------------------------------------------------------
(***************************************************************************)
(* The pages of the queue                                                  *)
(***************************************************************************)
LEMMA Quotient ==
  ASSUME NEW a \in Nat, NEW k \in Nat \ {0}
  PROVE  /\ a \div k \in Nat
         /\ (a \div k) * k <= a /\ a < (a \div k + 1) * k
OBVIOUS

LEMMA TimesGrows ==
  ASSUME NEW a \in Int, NEW b \in Int, a <= b, NEW k \in Nat
  PROVE  a * k <= b * k
OBVIOUS

\* Numbers of full pages: what p - 1 pages hold, and p.
LEMMA PageSuccessor ==
  ASSUME NEW p \in Int, NEW k \in Nat
  PROVE  /\ (p - 1) * k \in Int /\ p * k \in Int
         /\ (p - 1) * k + k = p * k
OBVIOUS

LEMMA Clamped ==
  ASSUME NEW perPage \in Int
  PROVE  ClampPerPage(perPage) \in 1..MaxPerPage /\ ClampPerPage(perPage) \in Nat \ {0}
BY ConstantsOK DEF ClampPerPage

\* All pages but the last are full, and the last is not empty.
LEMMA PageCount ==
  ASSUME NEW total \in Nat, NEW k \in Nat \ {0}
  PROVE  LET n == TotalPages(total, k) IN
         /\ n \in Nat \ {0}
         /\ total <= n * k
         /\ total = 0 => n = 1
         /\ total # 0 => (n - 1) * k < total /\ n <= total
<1> DEFINE q == (total + k - 1) \div k
           n == TotalPages(total, k)
<1>1. q \in Nat /\ q * k <= total + k - 1 /\ total + k - 1 < (q + 1) * k
  BY Quotient
<1>2. n = IF q < 1 THEN 1 ELSE q
  BY DEF TotalPages, AtLeastOne
<1> HIDE DEF q, n
<1>3. (q + 1) * k = q * k + k /\ q * k \in Nat
  BY <1>1
<1>4. total <= q * k
  BY <1>1, <1>3
<1>5. total <= n * k
  <2>1. q * k <= n * k /\ n * k \in Int
    BY <1>1, <1>2, TimesGrows
  <2>2. QED
    BY <1>3, <1>4, <2>1
<1>6. total # 0 => q >= 1 /\ (q - 1) * k < total /\ q <= total
  <2> SUFFICES ASSUME total # 0
               PROVE  q >= 1 /\ (q - 1) * k < total /\ q <= total
    OBVIOUS
  <2>1. q # 0
    BY <1>4
  <2>2. (q - 1) * k + k = q * k /\ (q - 1) * k \in Int
    BY <1>1, PageSuccessor
  <2>3. (q - 1) * k < total
    BY <1>1, <1>3, <2>2
  <2>4. (q - 1) * 1 <= (q - 1) * k
    BY <1>1, <2>1
  <2>5. QED
    BY <1>1, <2>1, <2>2, <2>3, <2>4
<1>7. total = 0 => n = 1
  <2> SUFFICES ASSUME total = 0 PROVE n = 1
    OBVIOUS
  <2>1. q = 0 \/ q * k >= k
    BY <1>1
  <2>2. QED
    BY <1>1, <1>2, <2>1
<1>8. QED
  BY <1>1, <1>2, <1>5, <1>6, <1>7 DEF n

\* Page p of a listing of total rows is what lies between two multiples of k.
LEMMA PageIs ==
  ASSUME NEW S, NEW s \in Seq(S), NEW p \in Int, NEW perPage \in Int
  PROVE  LET k    == ClampPerPage(perPage)
             n    == TotalPages(Len(s), k)
             at   == IF p < 1 THEN 1 ELSE IF p < n THEN p ELSE n
             end  == IF at * k < Len(s) THEN at * k ELSE Len(s)
         IN  /\ at \in 1..n
             /\ Items(s, p, perPage) = SubSeq(s, (at - 1) * k + 1, end)
<1> DEFINE k    == ClampPerPage(perPage)
           n    == TotalPages(Len(s), k)
           at   == IF p < 1 THEN 1 ELSE IF p < n THEN p ELSE n
           end  == IF at * k < Len(s) THEN at * k ELSE Len(s)
           pg   == BuildPage(p, perPage, Len(s))
<1>1. k \in Nat \ {0} /\ Len(s) \in Nat
  BY Clamped
<1>2. n \in Nat \ {0}
  BY <1>1, PageCount
<1>3. pg.page = AtLeastOne(IF p < n THEN p ELSE n) /\ pg.per_page = k /\ pg.total = Len(s)
  BY DEF BuildPage
<1>4. Items(s, p, perPage) =
        SubSeq(s, (pg.page - 1) * k + 1,
               IF (pg.page - 1) * k + k < Len(s) THEN (pg.page - 1) * k + k ELSE Len(s))
  BY <1>3 DEF Items
<1> HIDE DEF k, n, pg
<1>5. pg.page = at /\ at \in 1..n
  BY <1>2, <1>3 DEF AtLeastOne
<1>6. (at - 1) * k + k = at * k
  BY <1>1, <1>5, PageSuccessor
<1>7. QED
  BY <1>4, <1>5, <1>6 DEF k, n

\* What the pages of a listing hold.
LEMMA PageRows ==
  ASSUME NEW S, NEW s \in Seq(S), NEW perPage \in Int,
         NEW q \in 1..TotalPages(Len(s), ClampPerPage(perPage))
  PROVE  LET k    == ClampPerPage(perPage)
             n    == TotalPages(Len(s), k)
             page == Items(s, q, perPage)
         IN  /\ page \in Seq(S)
             /\ Len(page) <= k
             /\ Len(page) = 0 <=> Len(s) = 0
             /\ \A j \in 1..Len(page) :
                  (q - 1) * k + j \in 1..Len(s) /\ page[j] = s[(q - 1) * k + j]
             /\ \A i \in 1..Len(s) : (q - 1) * k < i /\ i <= q * k =>
                  i - (q - 1) * k \in 1..Len(page)
             /\ q < n => Len(page) = k
<1> DEFINE k    == ClampPerPage(perPage)
           n    == TotalPages(Len(s), k)
           N    == Len(s)
           full == (q - 1) * k
           end  == IF q * k < N THEN q * k ELSE N
           page == Items(s, q, perPage)
<1>1. k \in Nat \ {0} /\ N \in Nat
  BY Clamped
<1>2. /\ n \in Nat \ {0} /\ N <= n * k
      /\ N = 0 => n = 1
      /\ N # 0 => (n - 1) * k < N
  BY <1>1, PageCount
<1>3. page = SubSeq(s, full + 1, end)
  <2> DEFINE at == IF q < 1 THEN 1 ELSE IF q < n THEN q ELSE n
  <2>1. page = SubSeq(s, (at - 1) * k + 1, IF at * k < Len(s) THEN at * k ELSE Len(s))
    BY PageIs
  <2> HIDE DEF page
  <2>2. q \in 1..n
    OBVIOUS
  <2> HIDE DEF n
  <2>3. at = q
    BY <1>2, <2>2
  <2> HIDE DEF at
  <2>4. QED
    BY <2>1, <2>3
<1> HIDE DEF k, n, page, N
<1>4. q \in 1..n
  BY DEF n, k, N
<1>5. full \in Nat /\ q * k \in Nat /\ full + k = q * k
  BY <1>1, <1>2, <1>4, PageSuccessor
<1>6. full <= end /\ end <= full + k /\ end <= N /\ end \in Nat
      /\ (end = full <=> N = 0) /\ (q < n => end = full + k)
  <2>1. CASE N = 0
    <3>1. n = 1 /\ q = 1
      BY <1>2, <1>4, <2>1
    <3>2. full = 0
      BY <1>1, <3>1
    <3>3. end = 0
      BY <1>5, <2>1
    <3>4. QED
      BY <1>1, <2>1, <3>1, <3>2, <3>3
  <2>2. CASE N # 0
    <3>1. full <= (n - 1) * k /\ (n - 1) * k < N /\ (n - 1) * k \in Int
      BY <1>1, <1>2, <1>4, <2>2, TimesGrows
    <3>2. full < N
      BY <1>1, <1>5, <3>1
    <3>3. q < n => q * k <= (n - 1) * k
      BY <1>1, <1>2, <1>4, TimesGrows
    <3> HIDE DEF full
    <3>4. q < n => q * k < N
      <4>1. q * k \in Int /\ (n - 1) * k \in Int /\ N \in Int
        BY <1>1, <1>5, <3>1
      <4>2. QED
        BY <3>1, <3>3, <4>1
    <3>5. QED
      BY <1>1, <1>5, <2>2, <3>2, <3>4
  <2>3. QED
    BY <2>1, <2>2
<1> HIDE DEF full, end
<1>7. \A i \in full + 1 .. end : s[i] \in S
  BY <1>1, <1>5, <1>6 DEF N
<1>8. /\ page \in Seq(S)
      /\ Len(page) = IF full + 1 <= end THEN end - (full + 1) + 1 ELSE 0
      /\ \A i \in 1 .. end - (full + 1) + 1 : page[i] = s[full + 1 + i - 1]
  BY <1>3, <1>5, <1>6, <1>7, SubSeqProperties
<1>9. Len(page) = end - full
  BY <1>5, <1>6, <1>8
<1>10. \A j \in 1..Len(page) : full + j \in 1..N /\ page[j] = s[full + j]
  <2> SUFFICES ASSUME NEW j \in 1..Len(page)
               PROVE  full + j \in 1..N /\ page[j] = s[full + j]
    OBVIOUS
  <2>1. j \in 1 .. end - (full + 1) + 1 /\ full + 1 + j - 1 = full + j
    BY <1>5, <1>6, <1>9
  <2>2. page[j] = s[full + j]
    BY <1>8, <2>1
  <2>3. full + j \in 1..N
    <3>1. j \in Nat \ {0} /\ j <= end - full
      BY <1>5, <1>6, <1>9
    <3>2. QED
      BY <1>1, <1>5, <1>6, <3>1
  <2>4. QED
    BY <2>2, <2>3
<1>11. \A i \in 1..N : full < i /\ i <= q * k => i - full \in 1..Len(page)
  <2>1. end = IF q * k < N THEN q * k ELSE N
    BY DEF end
  <2>2. QED
    BY <1>1, <1>5, <1>6, <1>9, <2>1
<1>12. Len(page) <= k /\ (Len(page) = 0 <=> N = 0) /\ (q < n => Len(page) = k)
  BY <1>1, <1>5, <1>6, <1>9
<1>13. page \in Seq(S)
  BY <1>8
<1>14. QED
  BY <1>10, <1>11, <1>12, <1>13, Zenon DEF k, n, N, full, page

\* The page on which row i of a listing is: one, and no other.
LEMMA PageOf ==
  ASSUME NEW k \in Nat \ {0}, NEW N \in Nat, NEW n \in Nat \ {0}, N <= n * k, NEW i \in 1..N
  PROVE  \E q \in 1..n :
           /\ (q - 1) * k < i /\ i <= q * k
           /\ \A r \in 1..n : (r - 1) * k < i /\ i <= r * k => r = q
<1> DEFINE d == (i - 1) \div k
<1>1. d \in Nat /\ d * k <= i - 1 /\ i - 1 < (d + 1) * k
  BY Quotient
<1> HIDE DEF d
<1>2. (d + 1) * k \in Int /\ d * k \in Int /\ n * k \in Int
  BY <1>1
<1>3. d + 1 <= n
  <2>1. n <= d => n * k <= d * k
    BY <1>1, TimesGrows
  <2>2. ~(n * k <= d * k)
    BY <1>1, <1>2
  <2>3. QED
    BY <1>1, <2>1, <2>2
<1>4. ASSUME NEW r \in 1..n, (r - 1) * k < i, i <= r * k
      PROVE  r = d + 1
  <2>1. (r - 1) * k \in Int /\ r * k \in Int
    OBVIOUS
  <2>2. r <= d => r * k <= d * k
    BY <1>1, TimesGrows
  <2>3. d + 1 <= r - 1 => (d + 1) * k <= (r - 1) * k
    BY <1>1, TimesGrows
  <2>4. ~(r <= d) /\ ~(d + 1 <= r - 1)
    BY <1>1, <1>2, <1>4, <2>1, <2>2, <2>3
  <2>5. QED
    BY <1>1, <2>4
<1>5. d + 1 \in 1..n /\ (d + 1 - 1) * k < i /\ i <= (d + 1) * k
  BY <1>1, <1>2, <1>3
<1>6. PICK q \in 1..n : q = d + 1
  BY <1>5
<1>7. (q - 1) * k < i /\ i <= q * k
  <2>1. (q - 1) * k = d * k /\ q * k = (d + 1) * k
    <3>1. q - 1 = d
      BY <1>1, <1>6
    <3>2. QED
      BY <1>6, <3>1
  <2>2. QED
    BY <1>1, <1>2, <2>1
<1>8. \A r \in 1..n : (r - 1) * k < i /\ i <= r * k => r = q
  BY <1>4, <1>6
<1>9. QED
  BY <1>7, <1>8, Zenon

LEMMA PendingFinite ==
  ASSUME IInv
  PROVE  IsFiniteSet(Pending)
<1>1. IsFiniteSet(FieldIds)
  <2> DEFINE f == [i \in DOMAIN record.fields |-> <<"field", i>>]
  <2>1. IsFiniteSet(DOMAIN record.fields)
    BY ConstantsOK DEF IInv
  <2>2. f \in Surjection(DOMAIN record.fields, FieldIds)
    BY DEF Surjection, FieldIds
  <2>3. QED
    BY <2>1, <2>2, FS_Surjection
<1>2. IsFiniteSet(CondIds)
  <2> DEFINE f == [i \in DOMAIN record.conds |-> <<"cond", i>>]
  <2>1. IsFiniteSet(DOMAIN record.conds)
    BY ConstantsOK DEF IInv
  <2>2. f \in Surjection(DOMAIN record.conds, CondIds)
    BY DEF Surjection, CondIds
  <2>3. QED
    BY <2>1, <2>2, FS_Surjection
<1>3. IsFiniteSet(Ids)
  BY <1>1, <1>2, FS_Union DEF Ids
<1>4. Pending \subseteq Ids
  BY DEF IInv, RowsOK, Pending
<1>5. QED
  BY <1>3, <1>4, FS_Subset

\* Every request is answered with a page of the queue, whatever page and page
\* size it asks for: no row is on two pages or on none, and the pages follow
\* the order of the listing (ui/pagination.py: build_page).
THEOREM QueueIsPaged == Spec => []PagesShowQueue
<1>1. IInv => PagesShowQueue
  <2> SUFFICES ASSUME IInv, NEW low \in {0, Threshold},
                      NEW s \in Listings(Matching(low, 100)),
                      NEW perPage \in -1..(MaxPerPage + 1)
               PROVE  LET n    == TotalPages(Len(s), ClampPerPage(perPage))
                          page == [p \in -1..(Len(s) + 2) |-> Items(s, p, perPage)]
                      IN  /\ \A p \in DOMAIN page :
                               /\ Len(page[p]) <= MaxPerPage
                               /\ Len(page[p]) = 0 <=> Len(s) = 0
                               /\ p < 1 => page[p] = page[1]
                               /\ p > n => page[p] = page[n]
                          /\ \A i \in DOMAIN s :
                               Cardinality({p \in 1..n :
                                  \E k \in DOMAIN page[p] : page[p][k] = s[i]}) = 1
                          /\ \A p \in 1..(n - 1) :
                               Confidence(page[p][Len(page[p])]) <= Confidence(page[p + 1][1])
    BY DEF PagesShowQueue
  <2> DEFINE S    == Matching(low, 100)
             k    == ClampPerPage(perPage)
             n    == TotalPages(Len(s), k)
             page == [p \in -1..(Len(s) + 2) |-> Items(s, p, perPage)]
             it(p) == Items(s, p, perPage)
             at(p) == IF p < 1 THEN 1 ELSE IF p < n THEN p ELSE n
  <2>1. perPage \in Int /\ k \in Nat \ {0} /\ k <= MaxPerPage /\ MaxPerPage \in Nat
    <3>1. perPage \in Int /\ MaxPerPage \in Nat
      BY ConstantsOK
    <3>2. QED
      BY <3>1, Clamped
  <2>2. /\ s \in Seq(S)
        /\ \A i, j \in 1..Len(s) : i < j => s[i] # s[j] /\ Confidence(s[i]) <= Confidence(s[j])
    <3>1. IsFiniteSet(S)
      BY PendingFinite, FS_Subset DEF Matching
    <3>2. Cardinality(S) \in Nat
      BY <3>1, FS_CardinalityType
    <3> HIDE DEF S
    <3>3. /\ s \in [1..Cardinality(S) -> S]
          /\ \A i, j \in DOMAIN s : i < j => s[i] # s[j] /\ Confidence(s[i]) <= Confidence(s[j])
      BY DEF Listings, S
    <3>4. s \in Seq(S) /\ DOMAIN s = 1..Len(s)
      BY <3>2, <3>3
    <3>5. QED
      BY <3>3, <3>4
  <2> HIDE DEF S
  <2>3. Len(s) \in Nat /\ DOMAIN s = 1..Len(s)
    BY <2>2
  <2>4. /\ n \in Nat \ {0} /\ Len(s) <= n * k
        /\ Len(s) = 0 => n = 1
        /\ Len(s) # 0 => n <= Len(s)
    BY <2>1, <2>3, PageCount
  <2>5. ASSUME NEW q \in 1..n
        PROVE  /\ it(q) \in Seq(S) /\ Len(it(q)) <= k
               /\ Len(it(q)) = 0 <=> Len(s) = 0
               /\ \A j \in 1..Len(it(q)) :
                    (q - 1) * k + j \in 1..Len(s) /\ it(q)[j] = s[(q - 1) * k + j]
               /\ \A i \in 1..Len(s) : (q - 1) * k < i /\ i <= q * k =>
                    i - (q - 1) * k \in 1..Len(it(q))
               /\ q < n => Len(it(q)) = k
    BY <2>1, <2>2, PageRows
  <2>6. ASSUME NEW p \in Int
        PROVE  at(p) \in 1..n /\ it(p) = it(at(p))
    <3>1. at(p) \in 1..n /\ at(at(p)) = at(p)
      BY <2>4
    <3>2. \A r \in Int :
            it(r) = SubSeq(s, (at(r) - 1) * k + 1,
                           IF at(r) * k < Len(s) THEN at(r) * k ELSE Len(s))
      BY <2>1, <2>2, PageIs
    <3>3. at(p) \in Int
      BY <2>4, <3>1
    <3> HIDE DEF it, at
    <3>4. QED
      BY <3>1, <3>2, <3>3
  <2>7. 1 \in -1..(Len(s) + 2) /\ 1..n \subseteq -1..(Len(s) + 2)
    BY <2>3, <2>4
  <2> HIDE DEF n, k, it
  <2>8. \A p \in -1..(Len(s) + 2) : page[p] = it(p)
    BY DEF it
  <2> HIDE DEF page
  <2>9. ASSUME NEW p \in -1..(Len(s) + 2)
        PROVE  /\ Len(page[p]) <= MaxPerPage
               /\ Len(page[p]) = 0 <=> Len(s) = 0
               /\ p < 1 => page[p] = page[1]
               /\ p > n => page[p] = page[n]
    <3>1. p \in Int
      BY <2>3
    <3>2. at(p) \in 1..n /\ it(p) = it(at(p))
      BY <2>6, <3>1
    <3>3. Len(it(at(p))) \in Nat /\ Len(it(at(p))) <= k /\ (Len(it(at(p))) = 0 <=> Len(s) = 0)
      <4> HIDE DEF at
      <4>1. QED
        BY <2>5, <3>2
    <3>4. Len(page[p]) <= MaxPerPage /\ (Len(page[p]) = 0 <=> Len(s) = 0)
      BY <2>1, <2>8, <3>2, <3>3
    <3>5. p < 1 => page[p] = page[1]
      BY <2>7, <2>8, <3>2
    <3>6. p > n => page[p] = page[n]
      BY <2>4, <2>7, <2>8, <3>1, <3>2
    <3>7. QED
      BY <3>4, <3>5, <3>6
  <2>10. ASSUME NEW i \in DOMAIN s
         PROVE  Cardinality({p \in 1..n : \E j \in DOMAIN page[p] : page[p][j] = s[i]}) = 1
    <3>1. i \in 1..Len(s)
      BY <2>3
    <3>2. PICK q \in 1..n :
            /\ (q - 1) * k < i /\ i <= q * k
            /\ \A r \in 1..n : (r - 1) * k < i /\ i <= r * k => r = q
      <4>1. k \in Nat \ {0} /\ Len(s) \in Nat /\ n \in Nat \ {0} /\ Len(s) <= n * k
        BY <2>1, <2>3, <2>4
      <4>2. QED
        BY <3>1, <4>1, PageOf, Zenon
    <3>3. q \in {p \in 1..n : \E j \in DOMAIN page[p] : page[p][j] = s[i]}
      <4>1. i - (q - 1) * k \in 1..Len(it(q))
        BY <2>5, <3>1, <3>2
      <4>2. (q - 1) * k + (i - (q - 1) * k) = i
        BY <2>1, <3>1
      <4>3. it(q)[i - (q - 1) * k] = s[i]
        BY <2>5, <4>1, <4>2
      <4>4. DOMAIN page[q] = 1..Len(it(q)) /\ page[q] = it(q)
        <5>1. page[q] = it(q)
          BY <2>7, <2>8
        <5>2. it(q) \in Seq(S)
          BY <2>5
        <5>3. QED
          BY <5>1, <5>2, LenProperties
      <4>5. QED
        BY <4>1, <4>3, <4>4
    <3>4. ASSUME NEW r \in 1..n, NEW j \in DOMAIN page[r], page[r][j] = s[i]
          PROVE  r = q
      <4>1. page[r] = it(r) /\ j \in 1..Len(it(r))
        <5>1. page[r] = it(r)
          BY <2>7, <2>8
        <5>2. it(r) \in Seq(S)
          BY <2>5
        <5>3. QED
          BY <5>1, <5>2, LenProperties
      <4>2. (r - 1) * k + j \in 1..Len(s) /\ s[(r - 1) * k + j] = s[i]
        BY <2>5, <3>4, <4>1
      <4>3. (r - 1) * k + j = i
        BY <2>2, <3>1, <4>2
      <4>4. j >= 1 /\ j <= k /\ j \in Int
        BY <2>1, <2>5, <4>1
      <4>5. (r - 1) * k + k = r * k /\ (r - 1) * k \in Int
        BY <2>1, PageSuccessor
      <4>6. (r - 1) * k < i /\ i <= r * k
        BY <2>1, <4>3, <4>4, <4>5
      <4>7. QED
        BY <3>2, <4>6
    <3>5. {p \in 1..n : \E j \in DOMAIN page[p] : page[p][j] = s[i]} = {q}
      BY <3>3, <3>4
    <3>6. QED
      BY <3>5, FS_Singleton
  <2>11. ASSUME NEW p \in 1..(n - 1)
         PROVE  Confidence(page[p][Len(page[p])]) <= Confidence(page[p + 1][1])
    <3>1. p \in 1..n /\ p + 1 \in 1..n /\ p < n /\ p \in Int
      BY <2>4
    <3>2. Len(s) # 0
      BY <2>4, <3>1
    <3>3. Len(it(p)) = k /\ Len(it(p + 1)) \in Nat \ {0}
      BY <2>5, <3>1, <3>2
    <3>4. (p - 1) * k + k \in 1..Len(s) /\ it(p)[k] = s[(p - 1) * k + k]
      BY <2>1, <2>5, <3>1, <3>3
    <3>5. (p + 1 - 1) * k + 1 \in 1..Len(s) /\ it(p + 1)[1] = s[(p + 1 - 1) * k + 1]
      BY <2>5, <3>1, <3>3
    <3>6. (p - 1) * k + k < (p + 1 - 1) * k + 1
      <4>1. (p - 1) * k + k = p * k /\ p + 1 - 1 = p /\ p * k \in Int
        BY <2>1, <3>1, PageSuccessor
      <4>2. QED
        BY <4>1
    <3>7. Confidence(it(p)[k]) <= Confidence(it(p + 1)[1])
      BY <2>2, <3>4, <3>5, <3>6
    <3>8. QED
      BY <2>7, <2>8, <3>1, <3>3, <3>7
  <2>12. DOMAIN page = -1..(Len(s) + 2)
    BY DEF page
  <2>13. QED
    BY <2>9, <2>10, <2>11, <2>12 DEF n, k, page
<1>2. QED
  BY <1>1, Invariance, PTL
=============================================================================
