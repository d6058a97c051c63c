------------------------------ MODULE MCReview ------------------------------
(***************************************************************************)
(* Instance of Review.  The records have up to two fields, which is what    *)
(* each cross-field rule is about, or two conditions with at most one field. *)
(***************************************************************************)
EXTENDS Review

Text(n, t, conf) == [name |-> n, text |-> t, json |-> None, conf |-> conf]
Body(b, conf) == [name |-> "certification_body", text |-> None, json |-> b, conf |-> conf]

FieldKinds ==
  {Text("hs_code", "847989", 75), Text("hs_code", "847989", 60), Text("hs_code", "84", 75),
   Body("TUV", 90), Body("unresolved", 90), Body("unresolved", 60),
   Text("conformity_assessment_type", "3rd-party", 90),
   Text("marking", "CE", 90), Text("marking", "UKCA", 75), Text("marking", "WEEE", 90),
   Text("standard_harmonized", "EN 1", 90),
   Text("conformity_path_testing", "B", 90), Text("production_type", "serial", 90)}

CondKinds ==
  {[structured |-> s, param |-> p, conf |-> c] :
     s \in BOOLEAN, p \in {"voltage", "color", ""}, c \in {60, 75}}

Rec(j, fs, cs) == [jurisdiction |-> j, fields |-> fs, conds |-> cs]

SomeRecords ==
       {Rec("EU", <<f, g>>, << >>) : f, g \in FieldKinds}
  \cup {Rec("UK", <<Text("marking", "CE", 90), f>>, << >>) : f \in FieldKinds}
  \cup {Rec("EU", << >>, <<c, d>>) : c, d \in CondKinds}
  \cup {Rec("EU", <<Text("hs_code", "84", 75)>>, <<c, [c EXCEPT !.conf = 60]>>) : c \in CondKinds}
  \cup {Rec("EU", << >>, << >>)}
=============================================================================
