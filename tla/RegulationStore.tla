-------------------------- MODULE RegulationStore ---------------------------
(***************************************************************************)
(* One regulation in the database: pipeline runs that store it             *)
(* (pipeline.py: _persist) and reviewers who decide on its fields           *)
(* (ui/api/review.py), each in a READ COMMITTED transaction of several      *)
(* statements.  A variable holds what is committed; a transaction in        *)
(* progress keeps its own reads and pending deletions in its record.        *)
(* The condition rows are deleted and inserted exactly as the field rows    *)
(* are, and are left out.                                                   *)
(***************************************************************************)
EXTENDS FiniteSets

CONSTANTS
  Runs,        \* pipeline runs that store this regulation
  Fields,      \* names of the fields a run extracts
  Flagged,     \* fields the validation agent flags
  LowConf,     \* fields below CONFIDENCE_THRESHOLD
  Reviewers,
  Summary,     \* the summary a run extracts, NoSummary when it finds none
  NoSummary, NoRun

Rows == Runs \X Fields   \* a run's rows get fresh primary keys

ASSUME ConstantsOK ==
  /\ Flagged \subseteq Fields /\ LowConf \subseteq Fields
  /\ DOMAIN Summary = Runs /\ NoRun \notin Runs

VARIABLES
  reg,      \* the committed regulations row
  rows,     \* committed review_status of a field row, "none": no such row
  run,      \* a run's transaction: what it read, which rows it deletes
  lock,     \* the run whose INSERT or UPDATE of the regulations row is open
  bulk      \* a bulk approval in progress and the rows its query returned

vars == <<reg, rows, run, lock, bulk>>

Summaries == {Summary[r] : r \in Runs} \cup {NoSummary}
RegRows == [state : {"none", "stub", "ingested"},
            created_by : {"none", "resolution_engine", "pipeline"},
            summary : Summaries]
NoReg == [state |-> "none", created_by |-> "none", summary |-> NoSummary]
Stub == [state |-> "stub", created_by |-> "resolution_engine", summary |-> NoSummary]

ReviewStatus == {"pending", "auto-approved", "human-approved", "rejected"}

TypeOK ==
  /\ reg \in RegRows
  /\ rows \in [Rows -> ReviewStatus \cup {"none"}]
  /\ run \in [Runs -> [pc : {"idle", "selected", "flushed", "deleting", "deleted",
                             "done", "raised"},
                       saw : RegRows, target : SUBSET Rows]]
  /\ lock \in Runs \cup {NoRun}
  /\ bulk \in [Reviewers -> [pc : {"idle", "read"}, rows : SUBSET Rows]]

Start == [pc |-> "idle", saw |-> NoReg, target |-> {}]

Init ==
  /\ reg = NoReg
  /\ rows = [x \in Rows |-> "none"]
  /\ run = [r \in Runs |-> Start]
  /\ lock = NoRun
  /\ bulk = [v \in Reviewers |-> [pc |-> "idle", rows |-> {}]]

Stored == {x \in Rows : rows[x] # "none"}

\* Rows that the open DELETE of another run has locked.
DeletedByOthers(r) ==
  UNION {run[q].target : q \in {q \in Runs \ {r} : run[q].pc = "deleted"}}

(***************************************************************************)
(* pipeline.py: _persist                                                   *)
(***************************************************************************)
\* SELECT the regulation by source_id.
Select(r) ==
  /\ run[r].pc = "idle"
  /\ run' = [run EXCEPT ![r] = [pc |-> "selected", saw |-> reg, target |-> {}]]
  /\ UNCHANGED <<reg, rows, lock, bulk>>

\* The columns the run assigns; an empty summary keeps the one it read.
NewSummary(r) == IF Summary[r] = NoSummary THEN run[r].saw.summary ELSE Summary[r]

Changed(r) ==
  \/ run[r].saw.state # "ingested"
  \/ run[r].saw.created_by # "pipeline"
  \/ run[r].saw.summary # NewSummary(r)

\* flush with nothing to write: the ORM emits no statement and takes no lock.
FlushUnchanged(r) ==
  /\ run[r].pc = "selected"
  /\ ~Changed(r)
  /\ run' = [run EXCEPT ![r].pc = "flushed"]
  /\ UNCHANGED <<reg, rows, lock, bulk>>

\* Mutant: the INSERT or UPDATE takes no lock on the row.
FlushWriteAtOnce(r) ==
  /\ run[r].pc = "selected"
  /\ Changed(r)
  /\ run[r].saw.state = "none" => reg.state = "none"
  /\ lock' = r
  /\ run' = [run EXCEPT ![r].pc = "flushed"]
  /\ UNCHANGED <<reg, rows, bulk>>

\* flush with an INSERT or an UPDATE: it waits for an open one.
FlushWrite(r) ==
  /\ run[r].pc = "selected"
  /\ Changed(r)
  /\ lock = NoRun
  /\ run[r].saw.state = "none" => reg.state = "none"
  /\ lock' = r
  /\ run' = [run EXCEPT ![r].pc = "flushed"]
  /\ UNCHANGED <<reg, rows, bulk>>

\* source_id is unique: an INSERT after somebody else's fails, and so the job.
FlushConflict(r) ==
  /\ run[r].pc = "selected"
  /\ run[r].saw.state = "none" /\ reg.state # "none"
  /\ lock = NoRun
  /\ run' = [run EXCEPT ![r].pc = "raised"]
  /\ UNCHANGED <<reg, rows, lock, bulk>>

\* DELETE the regulation's field rows: those committed when it starts ...
DeleteStart(r) ==
  /\ run[r].pc = "flushed"
  /\ run' = [run EXCEPT ![r].pc = "deleting", ![r].target = Stored]
  /\ UNCHANGED <<reg, rows, lock, bulk>>

\* ... it waits for each that another DELETE holds, and skips what is gone.
DeleteEnd(r) ==
  /\ run[r].pc = "deleting"
  /\ run[r].target \cap DeletedByOthers(r) = {}
  /\ run' = [run EXCEPT ![r].pc = "deleted", ![r].target = @ \cap Stored]
  /\ UNCHANGED <<reg, rows, lock, bulk>>

StatusOf(f) == IF f \in Flagged \cup LowConf THEN "pending" ELSE "auto-approved"

\* Mutants: the first summary stays; a stub stays the resolution engine's.
WrittenRegOldSummary(r) ==
  [state |-> "ingested",
   created_by |-> IF run[r].saw.created_by = "pipeline" THEN reg.created_by ELSE "pipeline",
   summary |-> IF reg.summary = NoSummary THEN NewSummary(r) ELSE reg.summary]

WrittenRegUnclaimed(r) ==
  [state |-> "ingested",
   created_by |-> IF run[r].saw.state = "none" THEN "pipeline" ELSE reg.created_by,
   summary |-> IF run[r].saw.summary # NewSummary(r) THEN NewSummary(r) ELSE reg.summary]

\* Only the columns that differ from what was read are in the UPDATE.
WrittenReg(r) ==
  [state |-> "ingested",
   created_by |-> IF run[r].saw.created_by = "pipeline" THEN reg.created_by ELSE "pipeline",
   summary |-> IF run[r].saw.summary # NewSummary(r) THEN NewSummary(r) ELSE reg.summary]

\* INSERT the new rows and COMMIT.
Commit(r) ==
  /\ run[r].pc = "deleted"
  /\ rows' = [x \in Rows |-> IF x[1] = r THEN StatusOf(x[2])
                             ELSE IF x \in run[r].target THEN "none" ELSE rows[x]]
  /\ reg' = IF lock = r THEN WrittenReg(r) ELSE reg
  /\ lock' = IF lock = r THEN NoRun ELSE lock
  /\ run' = [run EXCEPT ![r].pc = "done"]
  /\ UNCHANGED bulk

\* Mutant: the session is never closed, and its locks stay.
RollbackKeepsLock(r) ==
  /\ run[r].pc \in {"selected", "flushed", "deleting", "deleted"}
  /\ run' = [run EXCEPT ![r].pc = "raised"]
  /\ UNCHANGED <<reg, rows, lock, bulk>>

\* A statement fails, or the worker dies: all of it is rolled back.
Rollback(r) ==
  /\ run[r].pc \in {"selected", "flushed", "deleting", "deleted"}
  /\ run' = [run EXCEPT ![r].pc = "raised"]
  /\ lock' = IF lock = r THEN NoRun ELSE lock
  /\ UNCHANGED <<reg, rows, bulk>>

(***************************************************************************)
(* relationship_resolver.py: _get_or_create_stub, for another regulation   *)
(* that cites this one (its own transaction; an open INSERT makes it wait) *)
(***************************************************************************)
CreateStub ==
  /\ reg.state = "none"
  /\ lock = NoRun
  /\ reg' = Stub
  /\ UNCHANGED <<rows, run, lock, bulk>>

(***************************************************************************)
(* ui/api/review.py                                                        *)
(***************************************************************************)
Locked(x) == \E r \in Runs : run[r].pc = "deleted" /\ x \in run[r].target

Pending == {x \in Rows : rows[x] = "pending"}

\* bulk_approve: SELECT the pending fields; the threshold filters them.
BulkRead(v) ==
  /\ bulk[v].pc = "idle"
  /\ \E covered \in {Fields, Fields \ LowConf} :
       LET found == {x \in Pending : x[2] \in covered}
       IN  /\ found # {}
           /\ bulk' = [bulk EXCEPT ![v] = [pc |-> "read", rows |-> found]]
  /\ UNCHANGED <<reg, rows, run, lock>>

\* Mutant: a row that is gone is inserted again (session.merge).
BulkWriteMerges(v) ==
  /\ bulk[v].pc = "read"
  /\ \A x \in bulk[v].rows : ~Locked(x)
  /\ rows' = [x \in Rows |-> IF x \in bulk[v].rows THEN "human-approved" ELSE rows[x]]
  /\ bulk' = [bulk EXCEPT ![v] = [pc |-> "idle", rows |-> {}]]
  /\ UNCHANGED <<reg, run, lock>>

\* UPDATE each of them by primary key and COMMIT.
BulkWrite(v) ==
  /\ bulk[v].pc = "read"
  /\ \A x \in bulk[v].rows : ~Locked(x) /\ rows[x] # "none"
  /\ rows' = [x \in Rows |-> IF x \in bulk[v].rows THEN "human-approved" ELSE rows[x]]
  /\ bulk' = [bulk EXCEPT ![v] = [pc |-> "idle", rows |-> {}]]
  /\ UNCHANGED <<reg, run, lock>>

\* A row is gone by then: the ORM misses it and the whole call fails.
BulkStale(v) ==
  /\ bulk[v].pc = "read"
  /\ \E x \in bulk[v].rows : rows[x] = "none"
  /\ bulk' = [bulk EXCEPT ![v] = [pc |-> "idle", rows |-> {}]]
  /\ UNCHANGED <<reg, rows, run, lock>>

\* field_action on a row that is there: approve, edit and resolve end in
\* "human-approved", reject in "rejected", whatever the status was before.
FieldAction(x, status) ==
  /\ rows[x] # "none"
  /\ ~Locked(x)
  /\ rows' = [rows EXCEPT ![x] = status]
  /\ UNCHANGED <<reg, run, lock, bulk>>

RunStep(r) ==
  \/ Select(r)
  \/ FlushUnchanged(r) \/ FlushWrite(r) \/ FlushConflict(r)
  \/ DeleteStart(r) \/ DeleteEnd(r)
  \/ Commit(r)

Next ==
  \/ \E r \in Runs : RunStep(r) \/ Rollback(r)
  \/ CreateStub
  \/ \E v \in Reviewers : BulkRead(v) \/ BulkWrite(v) \/ BulkStale(v)
  \/ \E x \in Rows, status \in {"human-approved", "rejected"} : FieldAction(x, status)

Spec == Init /\ [][Next]_vars

\* PostgreSQL grants a lock once it is free, and a run goes on when it can.
FairSpec == Spec /\ \A r \in Runs : WF_vars(RunStep(r))

(***************************************************************************)
(* Properties                                                              *)
(***************************************************************************)
Owners == {x[1] : x \in Stored}

\* "re-running a job replaces that regulation's fields and conditions rather
\* than duplicating them" (pipeline.py:8-9): all rows are those of one run.
NoDuplicateRows == \A q, r \in Owners : q = r

\* Two runs leave their rows side by side only if one of them changed nothing
\* in the regulations row: writing that row is what makes runs take turns.
DuplicatesNeedNoChange ==
  \A q, r \in Owners : q = r \/ ~Changed(q) \/ ~Changed(r)

\* The summary on display is that of the run whose fields are, if that run has
\* written it.
RecordOfOneRun ==
  \A r \in Owners : Changed(r) /\ Summary[r] # NoSummary => reg.summary = Summary[r]

\* INGESTED means stored in full (enqueue.py:50 relies on it): the status and
\* the rows appear together, and a stub that is filled in becomes the
\* pipeline's own (pipeline.py:115-120).
IngestedIsComplete ==
  /\ reg.state = "ingested" <=> Stored # {}
  /\ \A r \in Owners, f \in Fields : <<r, f>> \in Stored
  /\ reg.state = "ingested" => reg.created_by = "pipeline"

Decided == {x \in Rows : rows[x] \in {"human-approved", "rejected"}}

\* A reviewer's decision stands until another run replaces the whole record: a
\* run that fails, or has not committed yet, takes none back, and none returns
\* to the queue.  A row that was replaced stays away, also when a bulk approval
\* that had read it writes afterwards (review.py:129-137, pipeline.py:131-137).
DecisionsLast ==
  [][\A x \in Rows :
       /\ x \in Decided =>
            \/ x \in Decided'
            \/ /\ rows'[x] = "none"
               /\ \E r \in Runs \ {x[1]} : run[r].pc # "done" /\ run'[r].pc = "done"
       /\ rows[x] = "none" /\ run[x[1]].pc = "done" => rows'[x] = "none"]_vars

\* Two runs never wait for each other for ever: whatever the reviewers do, a
\* run that has begun commits or fails.
RunsEnd ==
  \A r \in Runs : run[r].pc = "selected" ~> run[r].pc \in {"done", "raised"}

\* For runs that extract different summaries: what is committed changes as if
\* _persist and bulk_approve were single steps.  A run replaces the record as
\* a whole, a failed one leaves no trace, and an approval falls only on rows
\* that are there.
Record == INSTANCE RecordStore WITH
            ForReview <- Flagged \cup LowConf,
            state <- reg.state, summary <- reg.summary,
            done <- {r \in Runs : run[r].pc = "done"}

ImplementsRecordStore == Record!Spec
=============================================================================
