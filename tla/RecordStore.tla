----------------------------- MODULE RecordStore ----------------------------
(***************************************************************************)
(* How a stored regulation may change, without its transactions: a run     *)
(* replaces the whole record in one step, status, summary and rows         *)
(* together, at most once; between two replacements the rows change only   *)
(* by decisions on rows that are there.                                    *)
(* A run may also never get to it, and then it leaves no trace.            *)
(***************************************************************************)
CONSTANTS
  Runs,        \* runs that store this regulation
  Fields,      \* names of the fields a run extracts
  ForReview,   \* those that wait for a reviewer
  Summary,     \* [Runs -> the summary the run extracts]
  NoSummary

Rows == Runs \X Fields

VARIABLES
  state,     \* "none", "stub" (somebody cites the regulation) or "ingested"
  summary,   \* the summary on display
  rows,      \* the status of a row, "none": no such row
  done       \* the runs that have stored their record

vars == <<state, summary, rows, done>>

Init ==
  /\ state = "none" /\ summary = NoSummary
  /\ rows = [x \in Rows |-> "none"]
  /\ done = {}

Stored == {x \in Rows : rows[x] # "none"}

Announce ==
  /\ state = "none"
  /\ state' = "stub"
  /\ UNCHANGED <<summary, rows, done>>

Replace(r) ==
  /\ r \notin done
  /\ done' = done \cup {r}
  /\ state' = "ingested" /\ summary' = Summary[r]
  /\ rows' = [x \in Rows |-> IF x[1] # r THEN "none"
                             ELSE IF x[2] \in ForReview THEN "pending" ELSE "auto-approved"]

Approve(S) ==
  /\ S \subseteq Stored
  /\ rows' = [x \in Rows |-> IF x \in S THEN "human-approved" ELSE rows[x]]
  /\ UNCHANGED <<state, summary, done>>

Decide(x, status) ==
  /\ x \in Stored
  /\ rows' = [rows EXCEPT ![x] = status]
  /\ UNCHANGED <<state, summary, done>>

Next ==
  \/ Announce
  \/ \E r \in Runs : Replace(r)
  \/ \E S \in SUBSET Rows : Approve(S)
  \/ \E x \in Rows, status \in {"human-approved", "rejected"} : Decide(x, status)

Spec == Init /\ [][Next]_vars
=============================================================================
