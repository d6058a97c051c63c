----------------------- MODULE RegulationStoreProofs ------------------------
(***************************************************************************)
(* What holds of RegulationStore for any number of runs, fields and        *)
(* reviewers.  That rows of two runs do not stand side by side rests on     *)
(* the lock: a run that changes the regulations row holds it from its flush *)
(* to its commit, so that its DELETE, which starts in between, sees the     *)
(* rows of every other run that did the same.                              *)
(***************************************************************************)
EXTENDS RegulationStore, TLAPS

Mid == {"flushed", "deleting", "deleted"}

\* What a regulations row may look like, committed or as a run read it.
Claimed(row) ==
  \/ row = NoReg \/ row = Stub
  \/ row.state = "ingested" /\ row.created_by = "pipeline"

Regs ==
  /\ Claimed(reg)
  /\ Stored # {} => reg.state = "ingested"
  /\ reg.state = "ingested" /\ Fields # {} => Stored # {}
  /\ \A r \in Runs :
       /\ Claimed(run[r].saw)
       /\ run[r].saw.state = "ingested" => reg.state = "ingested"

\* The lock is held by the run that is writing the row, if there is one.
Locks == \A r \in Runs : lock = r <=> run[r].pc \in Mid /\ Changed(r)

\* Runs insert and delete all rows of a run or none.
Whole(S) == \A x \in S : \A f \in Fields : <<x[1], f>> \in S

Wholes == Whole(Stored) /\ \A r \in Runs : Whole(run[r].target)

\* A run that writes the row deletes the rows of all others that did.
Takes ==
  \A r \in Runs : run[r].pc \in {"deleting", "deleted"} /\ Changed(r) =>
    \A x \in Stored : Changed(x[1]) => x \in run[r].target

Owns == \A x \in Stored : run[x[1]].pc = "done"

IInv ==
  /\ TypeOK
  /\ Regs /\ Locks /\ Wholes /\ Takes /\ Owns
  /\ DuplicatesNeedNoChange /\ RecordOfOneRun
-----------------------------------------------------------------------------
\* Whether a run changes the row depends on nothing but what it read.
LEMMA ChangedStays ==
  ASSUME NEW r \in Runs, run'[r].saw = run[r].saw
  PROVE  Changed(r)' = Changed(r)
BY DEF Changed, NewSummary

LEMMA StoredInRows == Stored \subseteq Rows
BY DEF Stored

LEMMA RowPair ==
  ASSUME NEW x \in Rows
  PROVE  x[1] \in Runs /\ x[2] \in Fields /\ x = <<x[1], x[2]>>
BY DEF Rows

\* The invariant is about the committed regulations row, the set of rows, the
\* runs and the lock, and not about the statuses of rows.
LEMMA OnlyStatuses ==
  ASSUME IInv, Stored' = Stored, UNCHANGED <<reg, run, lock>>,
         TypeOK'
  PROVE  IInv'
<1>1. \A r \in Runs : Changed(r)' = Changed(r)
  BY DEF Changed, NewSummary
<1>2. Regs' /\ Locks' /\ Wholes' /\ Owns'
  BY <1>1 DEF IInv, Regs, Locks, Wholes, Owns
<1>3. Takes'
  BY <1>1, StoredInRows, RowPair DEF IInv, Takes
<1>4. Owners' = Owners /\ Owners \subseteq Runs
  BY StoredInRows, RowPair DEF Owners
<1>5. DuplicatesNeedNoChange' /\ RecordOfOneRun'
  BY <1>1, <1>4 DEF IInv, DuplicatesNeedNoChange, RecordOfOneRun
<1>6. QED
  BY <1>2, <1>3, <1>5 DEF IInv
-----------------------------------------------------------------------------
(***************************************************************************)
(* Steps of a run before its commit                                        *)
(***************************************************************************)
\* Such a step changes one run that owns no rows, perhaps the lock, and
\* nothing that is committed.
LEMMA BeforeCommit ==
  ASSUME IInv, TypeOK', Locks', NEW r \in Runs,
         UNCHANGED <<reg, rows, bulk>>,
         \A q \in Runs \ {r} : run'[q] = run[q],
         run[r].pc # "done",
         Claimed(run'[r].saw),
         run'[r].saw.state = "ingested" => reg.state = "ingested",
         Whole(run'[r].target),
         run'[r].pc \in {"deleting", "deleted"} /\ Changed(r)' =>
           \A x \in Stored : Changed(x[1]) => x \in run'[r].target
  PROVE  IInv'
<1>1. Stored' = Stored
  BY DEF Stored
<1>2. \A x \in Stored : x[1] \in Runs \ {r}
  BY StoredInRows, RowPair DEF IInv, Owns
<1>3. \A q \in Runs \ {r} : Changed(q)' = Changed(q)
  BY ChangedStays
<1>4. Regs'
  BY <1>1 DEF IInv, Regs
<1>5. Wholes'
  BY <1>1 DEF IInv, Wholes
<1>6. Takes'
  <2> SUFFICES ASSUME NEW q \in Runs, run'[q].pc \in {"deleting", "deleted"}, Changed(q)',
                      NEW x \in Stored, Changed(x[1])'
               PROVE  x \in run'[q].target
    BY <1>1 DEF Takes
  <2>1. Changed(x[1])
    BY <1>2, <1>3
  <2>2. CASE q = r
    BY <2>1, <2>2
  <2>3. CASE q # r
    BY <2>1, <2>3, <1>3 DEF IInv, Takes
  <2>4. QED
    BY <2>2, <2>3
<1>7. Owns'
  BY <1>1, <1>2 DEF IInv, Owns
<1>9. Owners' = Owners /\ Owners \subseteq Runs \ {r}
  BY <1>1, <1>2 DEF Owners
<1>10. DuplicatesNeedNoChange' /\ RecordOfOneRun'
  BY <1>3, <1>9 DEF IInv, DuplicatesNeedNoChange, RecordOfOneRun
<1>11. QED
  BY <1>4, <1>5, <1>6, <1>7, <1>10 DEF IInv

\* The lock stays as it is, and r does not change what it says of r.
LEMMA LocksStay ==
  ASSUME IInv, NEW r \in Runs, lock' = lock,
         \A q \in Runs \ {r} : run'[q] = run[q],
         lock = r <=> run'[r].pc \in Mid /\ Changed(r)'
  PROVE  Locks'
<1>1. \A q \in Runs \ {r} : Changed(q)' = Changed(q)
  BY ChangedStays
<1>2. QED
  BY <1>1 DEF IInv, Locks

\* A run's record stays a record when a DELETE is given its rows.
LEMMA TargetType ==
  ASSUME TypeOK, NEW r \in Runs, NEW S \in SUBSET Rows, NEW p \in {"deleting", "deleted"},
         run' = [run EXCEPT ![r] = [@ EXCEPT !.pc = p, !.target = S]],
         UNCHANGED <<reg, rows, lock, bulk>>
  PROVE  TypeOK'
<1> DEFINE T == [pc : {"idle", "selected", "flushed", "deleting", "deleted", "done", "raised"},
                 saw : RegRows, target : SUBSET Rows]
<1>1. [run[r] EXCEPT !.pc = p, !.target = S] \in T
  BY ZenonT(30) DEF TypeOK
<1>2. run' \in [Runs -> T]
  BY <1>1 DEF TypeOK
<1>3. QED
  BY <1>2 DEF TypeOK

LEMMA SelectInv == ASSUME IInv, NEW r \in Runs, Select(r) PROVE IInv'
<1>1. /\ run[r].pc = "idle"
      /\ run' = [run EXCEPT ![r] = [pc |-> "selected", saw |-> reg, target |-> {}]]
      /\ UNCHANGED <<reg, rows, lock, bulk>>
  BY DEF Select
<1>2. TypeOK'
  BY <1>1 DEF IInv, TypeOK
<1>3. run'[r] = [pc |-> "selected", saw |-> reg, target |-> {}]
      /\ \A q \in Runs \ {r} : run'[q] = run[q]
  BY <1>1 DEF IInv, TypeOK
<1>4. lock # r
  BY <1>1 DEF IInv, Locks, Mid
<1>5. Locks'
  BY <1>1, <1>3, <1>4, LocksStay DEF Mid
<1>6. Claimed(reg) /\ Whole({})
  BY DEF IInv, Regs, Whole
<1>7. QED
  BY <1>1, <1>2, <1>3, <1>5, <1>6, BeforeCommit

LEMMA FlushUnchangedInv == ASSUME IInv, NEW r \in Runs, FlushUnchanged(r) PROVE IInv'
<1>1. /\ run[r].pc = "selected" /\ ~Changed(r)
      /\ run' = [run EXCEPT ![r].pc = "flushed"]
      /\ UNCHANGED <<reg, rows, lock, bulk>>
  BY DEF FlushUnchanged
<1>2. TypeOK'
  BY <1>1 DEF IInv, TypeOK
<1>3. /\ run'[r].pc = "flushed" /\ run'[r].saw = run[r].saw /\ run'[r].target = run[r].target
      /\ \A q \in Runs \ {r} : run'[q] = run[q]
  BY <1>1 DEF IInv, TypeOK
<1>4. ~Changed(r)'
  BY <1>1, <1>3, ChangedStays
<1>5. lock # r
  BY <1>1 DEF IInv, Locks, Mid
<1>6. Locks'
  BY <1>1, <1>3, <1>4, <1>5, LocksStay
<1>7. Claimed(run[r].saw) /\ Whole(run[r].target)
      /\ (run[r].saw.state = "ingested" => reg.state = "ingested")
  BY DEF IInv, Regs, Wholes
<1>8. QED
  BY <1>1, <1>2, <1>3, <1>6, <1>7, BeforeCommit

LEMMA FlushWriteInv == ASSUME IInv, NEW r \in Runs, FlushWrite(r) PROVE IInv'
<1>1. /\ run[r].pc = "selected" /\ Changed(r)
      /\ run' = [run EXCEPT ![r].pc = "flushed"]
      /\ lock = NoRun /\ lock' = r
      /\ UNCHANGED <<reg, rows, bulk>>
  BY DEF FlushWrite
<1>2. TypeOK'
  BY <1>1 DEF IInv, TypeOK
<1>3. /\ run'[r].pc = "flushed" /\ run'[r].saw = run[r].saw /\ run'[r].target = run[r].target
      /\ \A q \in Runs \ {r} : run'[q] = run[q]
  BY <1>1 DEF IInv, TypeOK
<1>4. \A q \in Runs : Changed(q)' = Changed(q)
  BY <1>3, ChangedStays
<1>5. \A q \in Runs : ~(run[q].pc \in Mid /\ Changed(q))
  BY <1>1, ConstantsOK DEF IInv, Locks
<1>6. Locks'
  BY <1>1, <1>3, <1>4, <1>5 DEF Locks, Mid
<1>7. Claimed(run[r].saw) /\ Whole(run[r].target)
      /\ (run[r].saw.state = "ingested" => reg.state = "ingested")
  BY DEF IInv, Regs, Wholes
<1>8. QED
  BY <1>1, <1>2, <1>3, <1>6, <1>7, BeforeCommit

LEMMA DeleteStartInv == ASSUME IInv, NEW r \in Runs, DeleteStart(r) PROVE IInv'
<1>1. /\ run[r].pc = "flushed"
      /\ run' = [run EXCEPT ![r].pc = "deleting", ![r].target = Stored]
      /\ UNCHANGED <<reg, rows, lock, bulk>>
  BY DEF DeleteStart
<1>2. TypeOK'
  BY <1>1, StoredInRows, TargetType, ZenonT(30) DEF IInv
<1>3. /\ run'[r].pc = "deleting" /\ run'[r].saw = run[r].saw /\ run'[r].target = Stored
      /\ \A q \in Runs \ {r} : run'[q] = run[q]
  BY <1>1 DEF IInv, TypeOK
<1>4. Changed(r)' = Changed(r)
  BY <1>3, ChangedStays
<1>5. Locks'
  BY <1>1, <1>3, <1>4, LocksStay DEF IInv, Locks, Mid
<1>6. Claimed(run[r].saw) /\ Whole(Stored)
      /\ (run[r].saw.state = "ingested" => reg.state = "ingested")
  BY DEF IInv, Regs, Wholes
<1>7. QED
  BY <1>1, <1>2, <1>3, <1>5, <1>6, BeforeCommit

LEMMA DeleteEndInv == ASSUME IInv, NEW r \in Runs, DeleteEnd(r) PROVE IInv'
<1>1. /\ run[r].pc = "deleting"
      /\ run' = [run EXCEPT ![r].pc = "deleted", ![r].target = @ \cap Stored]
      /\ UNCHANGED <<reg, rows, lock, bulk>>
  BY DEF DeleteEnd
<1>2. TypeOK'
  <2>1. run[r].target \cap Stored \in SUBSET Rows
    BY StoredInRows
  <2>2. run' = [run EXCEPT ![r] = [@ EXCEPT !.pc = "deleted", !.target = run[r].target \cap Stored]]
    BY <1>1
  <2>3. QED
    BY <1>1, <2>1, <2>2, TargetType DEF IInv
<1>3. /\ run'[r].pc = "deleted" /\ run'[r].saw = run[r].saw
      /\ run'[r].target = run[r].target \cap Stored
      /\ \A q \in Runs \ {r} : run'[q] = run[q]
  BY <1>1 DEF IInv, TypeOK
<1>4. Changed(r)' = Changed(r)
  BY <1>3, ChangedStays
<1>5. Locks'
  BY <1>1, <1>3, <1>4, LocksStay DEF IInv, Locks, Mid
<1>6. Claimed(run[r].saw) /\ Whole(run[r].target \cap Stored)
      /\ (run[r].saw.state = "ingested" => reg.state = "ingested")
  BY DEF IInv, Regs, Wholes, Whole
<1>7. Changed(r) => \A x \in Stored : Changed(x[1]) => x \in run[r].target \cap Stored
  BY <1>1 DEF IInv, Takes
<1>8. QED
  BY <1>1, <1>2, <1>3, <1>4, <1>5, <1>6, <1>7, BeforeCommit

\* A conflict or a rollback: r is over, and gives back the lock if it has it.
LEMMA RaisedInv ==
  ASSUME IInv, NEW r \in Runs, FlushConflict(r) \/ Rollback(r)
  PROVE  IInv'
<1>1. /\ run[r].pc \notin {"idle", "done"}
      /\ run' = [run EXCEPT ![r].pc = "raised"]
      /\ lock' = IF lock = r THEN NoRun ELSE lock
      /\ UNCHANGED <<reg, rows, bulk>>
  BY ConstantsOK DEF FlushConflict, Rollback
<1>2. TypeOK'
  BY <1>1 DEF IInv, TypeOK
<1>3. /\ run'[r].pc = "raised" /\ run'[r].saw = run[r].saw /\ run'[r].target = run[r].target
      /\ \A q \in Runs \ {r} : run'[q] = run[q]
  BY <1>1 DEF IInv, TypeOK
<1>4. \A q \in Runs : Changed(q)' = Changed(q)
  BY <1>3, ChangedStays
<1>5. Locks'
  BY <1>1, <1>3, <1>4, ConstantsOK DEF IInv, Locks, Mid
<1>6. Claimed(run[r].saw) /\ Whole(run[r].target)
      /\ (run[r].saw.state = "ingested" => reg.state = "ingested")
  BY DEF IInv, Regs, Wholes
<1>7. QED
  BY <1>1, <1>2, <1>3, <1>5, <1>6, BeforeCommit
-----------------------------------------------------------------------------
(***************************************************************************)
(* The commit                                                              *)
(***************************************************************************)
Mine(r) == {x \in Rows : x[1] = r}

LEMMA CommitStored ==
  ASSUME IInv, NEW r \in Runs, Commit(r)
  PROVE  /\ Stored' = Mine(r) \cup (Stored \ run[r].target)
         /\ \A x \in Mine(r) : rows'[x] \in {"pending", "auto-approved"}
         /\ \A x \in Rows \ Mine(r) : rows'[x] \in {"none", rows[x]}
<1>1. \A f : StatusOf(f) \in {"pending", "auto-approved"}
  BY DEF StatusOf
<1>2. \A x \in Rows : rows'[x] = IF x[1] = r THEN StatusOf(x[2])
                                 ELSE IF x \in run[r].target THEN "none" ELSE rows[x]
  BY DEF Commit
<1>3. \A x \in Stored : x \in Rows /\ x[1] # r
  BY StoredInRows, RowPair DEF IInv, Owns, Commit
<1>4. Stored' = Mine(r) \cup (Stored \ run[r].target)
  BY <1>1, <1>2, <1>3 DEF Stored, Mine
<1>5. QED
  BY <1>1, <1>2, <1>4 DEF Mine

\* A commit leaves the row ingested and claimed, by its own write or by that
\* of an earlier run, which it read.
LEMMA CommitReg ==
  ASSUME IInv, NEW r \in Runs, Commit(r)
  PROVE  /\ reg' \in RegRows
         /\ reg'.state = "ingested" /\ reg'.created_by = "pipeline"
         /\ lock # r => ~Changed(r) /\ reg' = reg
         /\ lock = r => Changed(r)
         /\ Changed(r) /\ Summary[r] # NoSummary => reg'.summary = Summary[r]
<1>1. /\ run[r].pc = "deleted"
      /\ reg' = IF lock = r THEN WrittenReg(r) ELSE reg
  BY DEF Commit
<1>2. lock = r <=> Changed(r)
  BY <1>1 DEF IInv, Locks, Mid
<1>3. /\ reg \in RegRows /\ run[r].saw \in RegRows
      /\ Claimed(reg) /\ Claimed(run[r].saw)
      /\ run[r].saw.state = "ingested" => reg.state = "ingested"
  BY DEF IInv, TypeOK, Regs
<1>4. run[r].saw.created_by = "pipeline" => run[r].saw.state = "ingested"
  BY <1>3 DEF Claimed, NoReg, Stub
<1>5. reg.state = "ingested" => reg.created_by = "pipeline"
  BY <1>3 DEF Claimed, NoReg, Stub
<1>6. CASE lock # r
  <2>1. ~Changed(r) /\ reg' = reg
    BY <1>1, <1>2, <1>6
  <2>2. run[r].saw.state = "ingested"
    BY <2>1 DEF Changed
  <2>3. QED
    BY <1>3, <1>5, <1>6, <2>1, <2>2
<1>7. CASE lock = r
  <2>1. Changed(r) /\ reg' = WrittenReg(r)
    BY <1>1, <1>2, <1>7
  <2>2. Summary[r] \in Summaries
    BY DEF Summaries
  <2>3. NewSummary(r) \in Summaries
    BY <1>3, <2>2 DEF NewSummary, RegRows
  <2>4. WrittenReg(r) \in RegRows /\ WrittenReg(r).state = "ingested"
        /\ WrittenReg(r).created_by = "pipeline"
    BY <1>3, <1>4, <1>5, <2>3 DEF WrittenReg, RegRows
  <2>5. ASSUME Summary[r] # NoSummary
        PROVE  WrittenReg(r).summary = Summary[r]
    <3>1. NewSummary(r) = Summary[r]
      BY <2>5 DEF NewSummary
    <3>2. run[r].saw.summary # NewSummary(r)
      BY <1>3, <2>1, <2>5, <3>1 DEF Claimed, NoReg, Stub, Changed
    <3>3. QED
      BY <3>1, <3>2 DEF WrittenReg
  <2>6. QED
    BY <1>7, <2>1, <2>4, <2>5
<1>8. QED
  BY <1>6, <1>7

\* Of the runs that write the row, the last to commit is the only owner.
LEMMA CommitOwners ==
  ASSUME IInv, NEW r \in Runs, Commit(r), NEW x \in Stored', Changed(x[1])
  PROVE  IF lock = r THEN x[1] = r ELSE x[1] # r /\ x \in Stored
<1>1. x \in Mine(r) \/ x \in Stored \ run[r].target
  BY CommitStored
<1>2. CASE lock = r
  <2>1. Changed(r) /\ run[r].pc = "deleted"
    BY <1>2, CommitReg DEF Commit
  <2>2. x \notin Stored \ run[r].target
    BY <2>1 DEF IInv, Takes
  <2>3. QED
    BY <1>1, <1>2, <2>2 DEF Mine
<1>3. CASE lock # r
  <2>1. ~Changed(r)
    BY <1>3, CommitReg
  <2>2. x[1] # r
    BY <2>1
  <2>3. QED
    BY <1>1, <1>3, <2>2 DEF Mine
<1>4. QED
  BY <1>2, <1>3

LEMMA CommitInv == ASSUME IInv, NEW r \in Runs, Commit(r) PROVE IInv'
<1>1. /\ run[r].pc = "deleted"
      /\ run' = [run EXCEPT ![r].pc = "done"]
      /\ lock' = IF lock = r THEN NoRun ELSE lock
      /\ UNCHANGED bulk
  BY DEF Commit
<1>2. /\ run'[r].pc = "done" /\ run'[r].saw = run[r].saw /\ run'[r].target = run[r].target
      /\ \A q \in Runs \ {r} : run'[q] = run[q]
  BY <1>1 DEF IInv, TypeOK
<1>3. \A q \in Runs : Changed(q)' = Changed(q)
  BY <1>2, ChangedStays
<1>4. Stored' \subseteq Rows /\ \A x \in Stored' : x[1] \in Runs
  BY CommitStored, StoredInRows, RowPair DEF Mine
<1>5. TypeOK'
  <2>1. run' \in [Runs -> [pc : {"idle", "selected", "flushed", "deleting", "deleted",
                                 "done", "raised"},
                           saw : RegRows, target : SUBSET Rows]]
    BY <1>1 DEF IInv, TypeOK
  <2>2. rows' = [x \in Rows |-> rows'[x]]
    BY DEF Commit
  <2>3. \A x \in Rows : rows'[x] \in ReviewStatus \cup {"none"}
    BY CommitStored DEF IInv, TypeOK, ReviewStatus
  <2>4. lock' \in Runs \cup {NoRun}
    BY <1>1 DEF IInv, TypeOK
  <2>5. bulk' \in [Reviewers -> [pc : {"idle", "read"}, rows : SUBSET Rows]]
    BY <1>1 DEF IInv, TypeOK
  <2>6. QED
    BY <2>1, <2>2, <2>3, <2>4, <2>5, CommitReg DEF TypeOK
<1>6. Regs'
  <2>1. Claimed(reg')
    BY CommitReg DEF Claimed
  <2>2. Fields # {} => Stored' # {}
    <3>1. SUFFICES ASSUME NEW f \in Fields
                   PROVE  Stored' # {}
      OBVIOUS
    <3>2. <<r, f>> \in Mine(r)
      BY DEF Mine, Rows
    <3>3. QED
      BY <3>2, CommitStored
  <2>3. \A q \in Runs : run'[q].saw = run[q].saw
    BY <1>2
  <2>4. QED
    BY <2>1, <2>2, <2>3, CommitReg DEF IInv, Regs
<1>7. Locks'
  BY <1>1, <1>2, <1>3, ConstantsOK DEF IInv, Locks, Mid
<1>8. Wholes'
  <2>1. Whole(Stored) /\ Whole(run[r].target)
    BY DEF IInv, Wholes
  <2>2. Whole(Mine(r))
    BY DEF Whole, Mine, Rows
  <2>3. Whole(Stored \ run[r].target)
    <3> SUFFICES ASSUME NEW x \in Stored \ run[r].target, NEW f \in Fields
                 PROVE  <<x[1], f>> \notin run[r].target /\ <<x[1], f>> \in Stored
      BY DEF Whole
    <3>1. x = <<x[1], x[2]>> /\ x[2] \in Fields
      BY StoredInRows, RowPair
    <3>2. <<x[1], f>> \in run[r].target => x \in run[r].target
      BY <2>1, <3>1 DEF Whole
    <3>3. QED
      BY <2>1, <3>2 DEF Whole
  <2>4. Whole(Stored')
    BY <2>2, <2>3, CommitStored DEF Whole
  <2>5. \A q \in Runs : run'[q].target = run[q].target
    BY <1>2
  <2>6. QED
    BY <2>4, <2>5 DEF IInv, Wholes
<1>9. Takes'
  <2> SUFFICES ASSUME NEW q \in Runs, run'[q].pc \in {"deleting", "deleted"}, Changed(q)',
                      NEW x \in Stored', Changed(x[1])'
               PROVE  x \in run'[q].target
    BY DEF Takes
  <2>1. q # r /\ run'[q] = run[q]
    BY <1>2
  <2>2. lock = q
    BY <1>3, <2>1 DEF IInv, Locks, Mid
  <2>3. x \in Stored /\ Changed(x[1])
    BY <1>3, <1>4, <2>1, <2>2, CommitOwners
  <2>4. QED
    BY <1>3, <2>1, <2>3 DEF IInv, Takes
<1>10. Owns'
  <2> SUFFICES ASSUME NEW x \in Stored'
               PROVE  run'[x[1]].pc = "done"
    BY DEF Owns
  <2>1. x[1] = r \/ x \in Stored
    BY CommitStored DEF Mine
  <2>2. QED
    BY <1>2, <1>4, <2>1 DEF IInv, Owns
<1>12. DuplicatesNeedNoChange'
  <2> SUFFICES ASSUME NEW x \in Stored', NEW y \in Stored', Changed(x[1]), Changed(y[1])
               PROVE  x[1] = y[1]
    BY <1>3, <1>4 DEF DuplicatesNeedNoChange, Owners
  <2>1. CASE lock = r
    BY <2>1, CommitOwners
  <2>2. CASE lock # r
    <3>1. x \in Stored /\ y \in Stored
      BY <2>2, CommitOwners
    <3>2. QED
      BY <3>1 DEF IInv, DuplicatesNeedNoChange, Owners
  <2>3. QED
    BY <2>1, <2>2
<1>13. RecordOfOneRun'
  <2> SUFFICES ASSUME NEW x \in Stored', Changed(x[1]), Summary[x[1]] # NoSummary
               PROVE  reg'.summary = Summary[x[1]]
    BY <1>3, <1>4 DEF RecordOfOneRun, Owners
  <2>1. CASE lock = r
    BY <2>1, CommitOwners, CommitReg
  <2>2. CASE lock # r
    <3>1. x \in Stored /\ reg' = reg
      BY <2>2, CommitOwners, CommitReg
    <3>2. QED
      BY <3>1 DEF IInv, RecordOfOneRun, Owners
  <2>3. QED
    BY <2>1, <2>2
<1>14. QED
  BY <1>5, <1>6, <1>7, <1>8, <1>9, <1>10, <1>12, <1>13 DEF IInv
-----------------------------------------------------------------------------
(***************************************************************************)
(* Stubs and reviewers                                                     *)
(***************************************************************************)
LEMMA CreateStubInv == ASSUME IInv, CreateStub PROVE IInv'
<1>1. /\ reg.state = "none" /\ reg' = Stub
      /\ UNCHANGED <<rows, run, lock, bulk>>
  BY DEF CreateStub
<1>2. Stored = {} /\ Stored' = {}
  BY <1>1 DEF IInv, Regs, Stored
<1>3. \A r \in Runs : Changed(r)' = Changed(r)
  BY <1>1, ChangedStays
<1>4. Stub \in RegRows /\ Stub.state = "stub" /\ Claimed(Stub)
  BY DEF Stub, RegRows, Summaries, Claimed
<1>5. TypeOK'
  BY <1>1, <1>4 DEF IInv, TypeOK
<1>6. Regs'
  BY <1>1, <1>2, <1>4 DEF IInv, Regs
<1>7. Locks'
  BY <1>1, <1>3 DEF IInv, Locks
<1>8. Wholes' /\ Takes' /\ Owns'
  BY <1>1, <1>2 DEF IInv, Wholes, Whole, Takes, Owns
<1>10. DuplicatesNeedNoChange' /\ RecordOfOneRun'
  BY <1>2 DEF DuplicatesNeedNoChange, RecordOfOneRun, Owners
<1>11. QED
  BY <1>5, <1>6, <1>7, <1>8, <1>10 DEF IInv

LEMMA BulkReadInv == ASSUME IInv, NEW v \in Reviewers, BulkRead(v) PROVE IInv'
<1>1. PICK found \in SUBSET Rows :
        bulk' = [bulk EXCEPT ![v] = [pc |-> "read", rows |-> found]]
  BY DEF BulkRead, Pending
<1>2. UNCHANGED <<reg, rows, run, lock>>
  BY DEF BulkRead
<1>3. TypeOK'
  BY <1>1, <1>2 DEF IInv, TypeOK
<1>5. Stored' = Stored
  BY <1>2 DEF Stored
<1>6. QED
  BY <1>2, <1>3, <1>5, OnlyStatuses

LEMMA BulkWriteInv == ASSUME IInv, NEW v \in Reviewers, BulkWrite(v) PROVE IInv'
<1>1. /\ \A x \in bulk[v].rows : rows[x] # "none"
      /\ rows' = [x \in Rows |-> IF x \in bulk[v].rows THEN "human-approved" ELSE rows[x]]
      /\ bulk' = [bulk EXCEPT ![v] = [pc |-> "idle", rows |-> {}]]
      /\ UNCHANGED <<reg, run, lock>>
  BY DEF BulkWrite
<1>2. TypeOK'
  BY <1>1 DEF IInv, TypeOK, ReviewStatus
<1>5. Stored' = Stored
  BY <1>1 DEF Stored
<1>6. QED
  BY <1>1, <1>2, <1>5, OnlyStatuses

LEMMA BulkStaleInv == ASSUME IInv, NEW v \in Reviewers, BulkStale(v) PROVE IInv'
<1>1. /\ bulk' = [bulk EXCEPT ![v] = [pc |-> "idle", rows |-> {}]]
      /\ UNCHANGED <<reg, rows, run, lock>>
  BY DEF BulkStale
<1>2. TypeOK'
  BY <1>1 DEF IInv, TypeOK
<1>4. Stored' = Stored
  BY <1>1 DEF Stored
<1>5. QED
  BY <1>1, <1>2, <1>4, OnlyStatuses

LEMMA FieldActionInv ==
  ASSUME IInv, NEW x \in Rows, NEW status \in {"human-approved", "rejected"},
         FieldAction(x, status)
  PROVE  IInv'
<1>1. /\ rows[x] # "none"
      /\ rows' = [rows EXCEPT ![x] = status]
      /\ UNCHANGED <<reg, run, lock, bulk>>
  BY DEF FieldAction
<1>2. TypeOK'
  BY <1>1 DEF IInv, TypeOK, ReviewStatus
<1>4. Stored' = Stored
  BY <1>1 DEF Stored, IInv, TypeOK
<1>5. QED
  BY <1>1, <1>2, <1>4, OnlyStatuses
-----------------------------------------------------------------------------
(***************************************************************************)
(* The theorems                                                            *)
(***************************************************************************)
LEMMA InitInv == Init => IInv
<1> SUFFICES ASSUME Init PROVE IInv
  OBVIOUS
<1>1. Stored = {}
  BY DEF Init, Stored
<1>2. NoReg \in RegRows /\ Claimed(NoReg) /\ NoReg.state = "none"
  BY DEF NoReg, RegRows, Summaries, Claimed
<1>3. Start \in [pc : {"idle", "selected", "flushed", "deleting", "deleted", "done", "raised"},
                 saw : RegRows, target : SUBSET Rows]
  BY <1>2 DEF Start
<1>4. TypeOK
  BY <1>2, <1>3 DEF Init, TypeOK
<1>5. Regs
  BY <1>1, <1>2 DEF Init, Regs, Start
<1>6. Locks
  BY ConstantsOK DEF Init, Locks, Start, Mid
<1>7. Wholes /\ Takes /\ Owns
  BY <1>1 DEF Init, Wholes, Whole, Takes, Owns, Start
<1>9. DuplicatesNeedNoChange /\ RecordOfOneRun
  BY <1>1 DEF DuplicatesNeedNoChange, RecordOfOneRun, Owners
<1>10. QED
  BY <1>4, <1>5, <1>6, <1>7, <1>9 DEF IInv

\* The inductive invariant of the record and its rows holds throughout.
THEOREM Invariance == Spec => []IInv
<1>1. IInv /\ [Next]_vars => IInv'
  <2> SUFFICES ASSUME IInv, [Next]_vars
               PROVE  IInv'
    OBVIOUS
  <2>1. ASSUME NEW r \in Runs, RunStep(r) \/ Rollback(r)
        PROVE  IInv'
    BY <2>1, SelectInv, FlushUnchangedInv, FlushWriteInv, RaisedInv, DeleteStartInv,
       DeleteEndInv, CommitInv DEF RunStep
  <2>2. CASE CreateStub
    BY <2>2, CreateStubInv
  <2>3. ASSUME NEW v \in Reviewers, BulkRead(v) \/ BulkWrite(v) \/ BulkStale(v)
        PROVE  IInv'
    BY <2>3, BulkReadInv, BulkWriteInv, BulkStaleInv
  <2>4. ASSUME NEW x \in Rows, NEW status \in {"human-approved", "rejected"},
               FieldAction(x, status)
        PROVE  IInv'
    BY <2>4, FieldActionInv
  <2>5. CASE UNCHANGED vars
    <3>1. Stored' = Stored /\ UNCHANGED <<reg, rows, run, lock, bulk>>
      BY <2>5 DEF vars, Stored
    <3>2. TypeOK'
      BY <3>1 DEF IInv, TypeOK
    <3>3. QED
      BY <3>1, <3>2, OnlyStatuses
  <2>6. QED
    BY <2>1, <2>2, <2>3, <2>4, <2>5 DEF Next
<1>2. QED
  BY <1>1, InitInv, PTL DEF Spec

\* The rows, the transactions and the lock are well typed.
THEOREM TypeCorrect == Spec => []TypeOK
<1>1. IInv => TypeOK
  BY DEF IInv
<1>2. QED
  BY <1>1, Invariance, PTL

\* Rows of two runs stand side by side only if one of the two wrote nothing to
\* the regulations row: writing it is what serialises _persist.
THEOREM WritersTakeTurns == Spec => []DuplicatesNeedNoChange
<1>1. IInv => DuplicatesNeedNoChange
  BY DEF IInv
<1>2. QED
  BY <1>1, Invariance, PTL

\* Fields and summary of a run that wrote the row are displayed together.
THEOREM OneRecord == Spec => []RecordOfOneRun
<1>1. IInv => RecordOfOneRun
  BY DEF IInv
<1>2. QED
  BY <1>1, Invariance, PTL

\* INGESTED (which enqueue.py:50 relies on) means stored in full, whatever
\* fails and whoever else stores it, for records with at least one field.
THEOREM IngestedInFull ==
  ASSUME Fields # {}
  PROVE  Spec => []IngestedIsComplete
<1>1. IInv => IngestedIsComplete
  <2> SUFFICES ASSUME IInv
               PROVE  IngestedIsComplete
    OBVIOUS
  <2>1. reg.state = "ingested" <=> Stored # {}
    BY DEF IInv, Regs
  <2>2. \A r \in Owners, f \in Fields : <<r, f>> \in Stored
    BY DEF IInv, Wholes, Whole, Owners
  <2>3. reg.state = "ingested" => reg.created_by = "pipeline"
    BY DEF IInv, Regs, Claimed, NoReg, Stub
  <2>4. QED
    BY <2>1, <2>2, <2>3 DEF IngestedIsComplete
<1>2. QED
  BY <1>1, Invariance, PTL

\* A decision ends only with its row, when another run commits its own: no
\* failed run and no late approval undoes it or brings a replaced row back.
THEOREM DecisionsStand == Spec => DecisionsLast
<1>1. IInv /\ [Next]_vars =>
        [\A x \in Rows :
           /\ x \in Decided =>
                \/ x \in Decided'
                \/ /\ rows'[x] = "none"
                   /\ \E r \in Runs \ {x[1]} : run[r].pc # "done" /\ run'[r].pc = "done"
           /\ rows[x] = "none" /\ run[x[1]].pc = "done" => rows'[x] = "none"]_vars
  <2> SUFFICES ASSUME IInv, Next, NEW x \in Rows
               PROVE  /\ x \in Decided =>
                           \/ x \in Decided'
                           \/ /\ rows'[x] = "none"
                              /\ \E r \in Runs \ {x[1]} :
                                   run[r].pc # "done" /\ run'[r].pc = "done"
                      /\ rows[x] = "none" /\ run[x[1]].pc = "done" => rows'[x] = "none"
    OBVIOUS
  <2>1. x \in Decided => run[x[1]].pc = "done"
    BY DEF Decided, IInv, Owns, Stored
  <2>2. CASE rows' = rows
    BY <2>2 DEF Decided
  <2>3. ASSUME NEW r \in Runs, Commit(r)
        PROVE  /\ x \in Decided => \/ x \in Decided'
                                   \/ /\ rows'[x] = "none"
                                      /\ r # x[1] /\ run[r].pc # "done" /\ run'[r].pc = "done"
               /\ rows[x] = "none" /\ run[x[1]].pc = "done" => rows'[x] = "none"
    <3>1. run[r].pc = "deleted" /\ run'[r].pc = "done"
      BY <2>3 DEF Commit, IInv, TypeOK
    <3>2. x[1] # r => rows'[x] \in {"none", rows[x]}
      BY <2>3 DEF Commit
    <3>3. QED
      BY <2>1, <3>1, <3>2 DEF Decided
  <2>4. ASSUME NEW v \in Reviewers, BulkWrite(v)
        PROVE  rows'[x] \in {"human-approved", rows[x]} /\ (rows[x] = "none" => rows'[x] = "none")
    BY <2>4 DEF BulkWrite
  <2>5. ASSUME NEW y \in Rows, NEW status \in {"human-approved", "rejected"},
               FieldAction(y, status)
        PROVE  rows'[x] \in {status, rows[x]} /\ (rows[x] = "none" => rows'[x] = "none")
    BY <2>5 DEF FieldAction, IInv, TypeOK
  <2>6. \/ rows' = rows
        \/ \E r \in Runs : Commit(r)
        \/ \E v \in Reviewers : BulkWrite(v)
        \/ \E y \in Rows, status \in {"human-approved", "rejected"} : FieldAction(y, status)
    BY DEF Next, RunStep, Select, FlushUnchanged, FlushWrite, FlushConflict, DeleteStart,
           DeleteEnd, Rollback, CreateStub, BulkRead, BulkStale
  <2>7. QED
    BY <2>2, <2>3, <2>4, <2>5, <2>6 DEF Decided
<1>2. QED
  BY <1>1, Invariance, PTL DEF Spec, DecisionsLast
-----------------------------------------------------------------------------
(***************************************************************************)
(* When no two runs extract the same summary                               *)
(***************************************************************************)
DistinctSummaries ==
  \A r \in Runs : Summary[r] # NoSummary /\ \A q \in Runs \ {r} : Summary[q] # Summary[r]

\* A run's summary is news to it, and to the row until the run has committed.
Fresh ==
  \A r \in Runs :
    /\ run[r].saw.summary # Summary[r]
    /\ run[r].pc # "done" => reg.summary # Summary[r]

\* Fresh is about the row and the runs; a step of one run that leaves the row
\* alone keeps it if the run still has what it read and was not done.
LEMMA FreshStays ==
  ASSUME Fresh, NEW r \in Runs, reg' = reg,
         \A q \in Runs \ {r} : run'[q] = run[q],
         run'[r].saw = run[r].saw,
         run[r].pc # "done"
  PROVE  Fresh'
BY DEF Fresh

\* No step makes a summary known before the run that extracted it commits.
LEMMA FreshStep ==
  ASSUME DistinctSummaries, IInv, Fresh, [Next]_vars
  PROVE  Fresh'
<1>1. run \in [Runs -> [pc : {"idle", "selected", "flushed", "deleting", "deleted",
                             "done", "raised"},
                       saw : RegRows, target : SUBSET Rows]]
  BY DEF IInv, TypeOK
<1>2. ASSUME NEW r \in Runs, Select(r) PROVE Fresh'
  BY <1>1, <1>2, SMTT(30) DEF Select, Fresh
<1>3. ASSUME NEW r \in Runs,
             \/ FlushUnchanged(r) \/ FlushWrite(r) \/ FlushConflict(r)
             \/ DeleteStart(r) \/ DeleteEnd(r) \/ Rollback(r)
      PROVE  Fresh'
  <2>1. reg' = reg /\ run[r].pc # "done"
    BY <1>3 DEF FlushUnchanged, FlushWrite, FlushConflict, DeleteStart, DeleteEnd, Rollback
  <2>2. (\A q \in Runs \ {r} : run'[q] = run[q]) /\ run'[r].saw = run[r].saw
    BY <1>1, <1>3, SMTT(30)
    DEF FlushUnchanged, FlushWrite, FlushConflict, DeleteStart, DeleteEnd, Rollback
  <2>3. QED
    BY <2>1, <2>2, FreshStays
<1>4. ASSUME NEW r \in Runs, Commit(r) PROVE Fresh'
  <2>1. /\ \A q \in Runs \ {r} : run'[q] = run[q]
        /\ run'[r].saw = run[r].saw /\ run'[r].pc = "done"
    BY <1>1, <1>4, SMTT(30) DEF Commit
  <2>2. NewSummary(r) = Summary[r]
    BY DEF NewSummary, DistinctSummaries
  <2>3. reg'.summary \in {reg.summary, Summary[r]}
    BY <1>4, <2>2 DEF Commit, WrittenReg
  <2>4. \A q \in Runs \ {r} : Summary[q] # Summary[r]
    BY DEF DistinctSummaries
  <2>5. QED
    BY <2>1, <2>3, <2>4 DEF Fresh
<1>5. CASE CreateStub
  BY <1>5 DEF CreateStub, Stub, Fresh, DistinctSummaries
<1>6. CASE UNCHANGED <<reg, run>>
  BY <1>6 DEF Fresh
<1>7. QED
  BY <1>2, <1>3, <1>4, <1>5, <1>6
  DEF Next, RunStep, BulkRead, BulkWrite, BulkStale, FieldAction, vars

LEMMA FreshInit ==
  ASSUME DistinctSummaries
  PROVE  Init => Fresh
<1> SUFFICES ASSUME Init PROVE Fresh
  OBVIOUS
<1>1. reg.summary = NoSummary /\ \A r \in Runs : run[r].saw.summary = NoSummary
  BY DEF Init, Start, NoReg
<1>2. QED
  BY <1>1 DEF Fresh, DistinctSummaries

\* So every run writes the regulations row.
LEMMA AllWrite ==
  ASSUME DistinctSummaries, Fresh
  PROVE  \A r \in Runs : Changed(r)
BY DEF Changed, NewSummary, Fresh, DistinctSummaries

\* Re-ingesting replaces the rows instead of duplicating them (pipeline.py:8-9),
\* whatever overlaps or fails, if no two runs extract the same summary: then
\* each of them writes the regulations row, and they take turns.
THEOREM DistinctRunsReplace ==
  ASSUME DistinctSummaries
  PROVE  Spec => []NoDuplicateRows
<1>1. Init => Fresh
  BY FreshInit
<1>2. IInv /\ Fresh => NoDuplicateRows
  <2> SUFFICES ASSUME IInv, Fresh PROVE NoDuplicateRows
    OBVIOUS
  <2>1. Owners \subseteq Runs
    BY StoredInRows, RowPair DEF Owners
  <2>2. \A r \in Runs : Changed(r)
    BY AllWrite
  <2>3. QED
    BY <2>1, <2>2 DEF IInv, DuplicatesNeedNoChange, NoDuplicateRows
<1>3. IInv /\ Fresh /\ [Next]_vars => Fresh'
  BY FreshStep
<1>4. QED
  BY <1>1, <1>2, <1>3, Invariance, PTL DEF Spec
-----------------------------------------------------------------------------
(***************************************************************************)
(* RecordStore                                                             *)
(***************************************************************************)
Done == {r \in Runs : run[r].pc = "done"}

\* What Record sees of the store.
Seen == <<reg.state, reg.summary, rows, Done>>

LEMMA SeenStays ==
  ASSUME UNCHANGED <<reg, rows, run>>
  PROVE  UNCHANGED Seen
BY DEF Seen, Done

\* What a run does before it commits, or instead, cannot be seen.
LEMMA HiddenStep ==
  ASSUME IInv, NEW r \in Runs,
         \/ Select(r) \/ FlushUnchanged(r) \/ FlushWrite(r) \/ FlushConflict(r)
         \/ DeleteStart(r) \/ DeleteEnd(r) \/ Rollback(r)
  PROVE  UNCHANGED Seen
<1>1. UNCHANGED <<reg, rows>> /\ run[r].pc # "done"
  BY DEF Select, FlushUnchanged, FlushWrite, FlushConflict, DeleteStart, DeleteEnd, Rollback
<1>2. (\A q \in Runs \ {r} : run'[q] = run[q]) /\ run'[r].pc # "done"
  BY SMTT(30)
  DEF IInv, TypeOK, Select, FlushUnchanged, FlushWrite, FlushConflict, DeleteStart,
      DeleteEnd, Rollback
<1>3. Done' = Done
  BY <1>1, <1>2 DEF Done
<1>4. QED
  BY <1>1, <1>3 DEF Seen

\* A commit leaves the record of its run and nothing else: the run has written
\* the regulations row, so its DELETE took the rows of all others.
LEMMA CommitReplaces ==
  ASSUME DistinctSummaries, IInv, Fresh, NEW r \in Runs, Commit(r)
  PROVE  Record!Next
<1>1. /\ run[r].pc = "deleted"
      /\ rows' = [x \in Rows |-> IF x[1] = r THEN StatusOf(x[2])
                                 ELSE IF x \in run[r].target THEN "none" ELSE rows[x]]
      /\ run' = [run EXCEPT ![r].pc = "done"]
  BY DEF Commit
<1>2. \A q \in Runs : Changed(q)
  BY AllWrite
<1>3. reg'.state = "ingested" /\ reg'.summary = Summary[r]
  BY <1>2, CommitReg DEF DistinctSummaries
<1>4. r \notin Done /\ Done' = Done \cup {r}
  <2>1. /\ run'[r].pc = "done" /\ \A q \in Runs \ {r} : run'[q] = run[q]
    BY <1>1 DEF IInv, TypeOK
  <2>2. QED
    BY <1>1, <2>1 DEF Done
<1>5. \A x \in Rows : x \notin run[r].target => rows[x] = "none"
  BY <1>1, <1>2, RowPair DEF IInv, Takes, Stored
<1>6. rows' = [x \in Rows |-> IF x[1] # r THEN "none"
                              ELSE IF x[2] \in Flagged \cup LowConf THEN "pending"
                                   ELSE "auto-approved"]
  BY <1>1, <1>5 DEF StatusOf
<1>7. Record!Replace(r)
  BY <1>1, <1>3, <1>4, <1>6 DEF Record!Replace, Record!Rows, Rows, Done
<1>8. QED
  BY <1>7 DEF Record!Next

LEMMA StubAnnounces ==
  ASSUME IInv, CreateStub
  PROVE  Record!Next
<1>1. reg = NoReg /\ reg' = Stub /\ UNCHANGED <<rows, run>>
  BY DEF CreateStub, IInv, Regs, Claimed, Stub
<1>2. /\ reg.state = "none" /\ reg'.state = "stub" /\ reg'.summary = reg.summary
      /\ {r \in Runs : run'[r].pc = "done"} = {r \in Runs : run[r].pc = "done"}
  BY <1>1 DEF NoReg, Stub
<1>3. Record!Announce
  BY <1>1, <1>2 DEF Record!Announce
<1>4. QED
  BY <1>3 DEF Record!Next

\* A bulk approval finds all its rows, or writes nothing.
LEMMA WriteApproves ==
  ASSUME IInv, NEW v \in Reviewers, BulkWrite(v)
  PROVE  Record!Next
<1> DEFINE S == bulk[v].rows
<1>1. /\ \A x \in S : rows[x] # "none"
      /\ rows' = [x \in Rows |-> IF x \in S THEN "human-approved" ELSE rows[x]]
      /\ UNCHANGED <<reg, run>>
  BY DEF BulkWrite
<1>2. S \in SUBSET Rows
  BY DEF IInv, TypeOK
<1> HIDE DEF S
<1>3. Record!Approve(S)
  BY <1>1, <1>2 DEF Record!Approve, Record!Stored, Record!Rows, Rows
<1>4. QED
  BY <1>2, <1>3 DEF Record!Next, Record!Rows, Rows

LEMMA ActionDecides ==
  ASSUME NEW x \in Rows, NEW status \in {"human-approved", "rejected"},
         FieldAction(x, status)
  PROVE  Record!Next
<1>1. Record!Decide(x, status)
  BY DEF FieldAction, Record!Decide, Record!Stored, Record!Rows, Rows
<1>2. QED
  BY <1>1 DEF Record!Next, Record!Rows, Rows

\* RegulationStore implements RecordStore when no two runs extract the same
\* summary: the statements of _persist, interleaved with those of other runs
\* and of reviewers, amount to the replacement of the record in one step.
THEOREM RecordIsReplaced ==
  ASSUME DistinctSummaries
  PROVE  Spec => ImplementsRecordStore
<1>1. Init => Record!Init
  <2> SUFFICES ASSUME Init PROVE Record!Init
    OBVIOUS
  <2>1. reg.state = "none" /\ reg.summary = NoSummary
        /\ {r \in Runs : run[r].pc = "done"} = {}
    BY DEF Init, NoReg, Start
  <2>2. QED
    BY <2>1 DEF Init, Record!Init, Record!Rows, Rows
<1>2. Init => Fresh
  BY FreshInit
<1>3. IInv /\ Fresh /\ [Next]_vars => Fresh'
  BY FreshStep
<1>4. IInv /\ Fresh /\ [Next]_vars => [Record!Next]_Record!vars
  <2> SUFFICES ASSUME IInv, Fresh, [Next]_vars
               PROVE  Record!Next \/ UNCHANGED Seen
    BY DEF Record!vars, Seen, Done
  <2>1. ASSUME NEW r \in Runs, RunStep(r) \/ Rollback(r)
        PROVE  Record!Next \/ UNCHANGED Seen
    BY <2>1, HiddenStep, CommitReplaces DEF RunStep
  <2>2. CASE CreateStub
    BY <2>2, StubAnnounces
  <2>3. ASSUME NEW v \in Reviewers, BulkRead(v) \/ BulkWrite(v) \/ BulkStale(v)
        PROVE  Record!Next \/ UNCHANGED Seen
    BY <2>3, WriteApproves, SeenStays DEF BulkRead, BulkStale
  <2>4. ASSUME NEW x \in Rows, NEW status \in {"human-approved", "rejected"},
               FieldAction(x, status)
        PROVE  Record!Next \/ UNCHANGED Seen
    BY <2>4, ActionDecides
  <2>5. CASE UNCHANGED vars
    BY <2>5, SeenStays DEF vars
  <2>6. QED
    BY <2>1, <2>2, <2>3, <2>4, <2>5 DEF Next
<1>5. QED
  BY <1>1, <1>2, <1>3, <1>4, Invariance, PTL DEF Spec, ImplementsRecordStore, Record!Spec
=============================================================================
