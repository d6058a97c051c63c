--------------------------- MODULE JobQueueProofs ---------------------------
(***************************************************************************)
(* Theorems about JobQueue, for any number of jobs, CELEX numbers, clients *)
(* and workers.  The safety invariants are not inductive alone: IInv adds  *)
(* what an actor's program counter says about the row it is working on.    *)
(***************************************************************************)
EXTENDS JobQueue, FiniteSetTheorems, TLAPS

\* A worker has a job exactly while it is in the middle of one; the row is
\* still queued while it is being claimed and processing from then on.
WorkerInv ==
  \A w \in Workers :
    /\ worker[w].job = NoJob <=> worker[w].pc \in {"idle", "dead"}
    /\ worker[w].pc = "claiming" => status[worker[w].job] = "queued"
    /\ Held(w) # NoJob => status[worker[w].job] = "processing"
    /\ worker[w].pc \in {"persisted", "succeeded"} /\ source[worker[w].job] \in Celex
         => source[worker[w].job] \in ingested

Exclusive ==
  \A v, w \in Workers :
    worker[v].job # NoJob /\ worker[v].job = worker[w].job => v = w

\* An id is drawn once, and its row is absent until its transaction inserts it.
FreshIds ==
  /\ \A j \in Jobs : j > clock => status[j] = "absent"
  /\ \A c \in Clients :
       client[c].pc # "idle" =>
         /\ client[c].celex \in Celex
         /\ client[c].id \in Jobs
         /\ client[c].id <= clock
         /\ status[client[c].id] = "absent"
  /\ \A c, d \in Clients :
       client[c].pc # "idle" /\ client[d].pc # "idle" /\ client[c].id = client[d].id
         => c = d

\* What the second SELECT of enqueue established still holds of the client's
\* own jobs when it inserts.
OwnCheckHolds ==
  \A c \in Clients : client[c].pc = "insert" =>
    \A j \in Jobs : source[j] = client[c].celex /\ insertedBy[j] = c
                      => status[j] \notin InFlight

IInv ==
  /\ TypeOK
  /\ WorkerInv
  /\ Exclusive
  /\ FreshIds
  /\ OwnCheckHolds
  /\ RunAtMostOnce
  /\ OutcomeTruthful
  /\ OneInFlightPerClient
-----------------------------------------------------------------------------
LEMMA InitIInv == Init => IInv
  BY ConstantsOK DEF Init, IInv, TypeOK, WorkerInv, Exclusive, FreshIds, OwnCheckHolds,
     RunAtMostOnce, OutcomeTruthful, OneInFlightPerClient, Held, Jobs, InFlight, Settled,
     IdleClient, IdleWorker

\* Setting the pc of a worker's record keeps its job.
LEMMA SetPc ==
  ASSUME TypeOK, NEW w \in Workers, NEW p
  PROVE  [worker EXCEPT ![w].pc = p] = [worker EXCEPT ![w] = [pc |-> p, job |-> worker[w].job]]
<1>1. [worker[w] EXCEPT !.pc = p] = [pc |-> p, job |-> worker[w].job]
  BY DEF TypeOK
<1>2. [worker EXCEPT ![w].pc = p] = [worker EXCEPT ![w] = [worker[w] EXCEPT !.pc = p]]
  BY Zenon
<1>3. QED
  BY <1>1, <1>2
-----------------------------------------------------------------------------
(* The steps of enqueue and upload. *)

LEMMA EnqueueBeginInv ==
  ASSUME IInv, NEW c \in Clients, NEW x \in Celex, EnqueueBegin(c, x)
  PROVE  IInv'
  BY ConstantsOK, SMTT(30)
  DEF EnqueueBegin, IInv, TypeOK, WorkerInv, Exclusive, FreshIds, OwnCheckHolds, RunAtMostOnce,
      OutcomeTruthful, OneInFlightPerClient, Held, Jobs, InFlight, Settled, rows

LEMMA EnqueueCheckInv ==
  ASSUME IInv, NEW c \in Clients, EnqueueCheck(c)
  PROVE  IInv'
<1>1. client[c].celex \in Celex /\ client[c].id \in Jobs
  BY DEF IInv, FreshIds, EnqueueCheck
<1>2. TypeOK' /\ FreshIds' /\ OwnCheckHolds'
  <2>1. CASE HasJobInFlight(client[c].celex)
    <3>1. client' = [client EXCEPT ![c] = IdleClient]
      BY <2>1 DEF EnqueueCheck
    <3>2. QED
      BY <3>1 DEF IInv, TypeOK, FreshIds, OwnCheckHolds, EnqueueCheck, IdleClient, rows
  <2>2. CASE ~HasJobInFlight(client[c].celex)
    <3>1. client' = [client EXCEPT ![c] = [client[c] EXCEPT !.pc = "insert"]]
      BY <2>2 DEF EnqueueCheck
    <3>2. [client[c] EXCEPT !.pc = "insert"] =
            [pc |-> "insert", celex |-> client[c].celex, id |-> client[c].id]
      BY DEF IInv, TypeOK
    <3>3. QED
      BY <1>1, <2>2, <3>1, <3>2
      DEF IInv, TypeOK, FreshIds, OwnCheckHolds, EnqueueCheck, HasJobInFlight, rows
  <2>3. QED
    BY <2>1, <2>2
<1>3. QED
  BY <1>2 DEF IInv, EnqueueCheck, WorkerInv, Exclusive, RunAtMostOnce, OutcomeTruthful,
         OneInFlightPerClient, Held, rows

LEMMA EnqueueInsertInv ==
  ASSUME IInv, NEW c \in Clients, EnqueueInsert(c)
  PROVE  IInv'
  BY ConstantsOK, SMTT(30)
  DEF EnqueueInsert, InsertRow, IdleClient, IInv, TypeOK, WorkerInv, Exclusive, FreshIds, OwnCheckHolds, RunAtMostOnce,
      OutcomeTruthful, OneInFlightPerClient, Held, Jobs, InFlight, Settled, rows

LEMMA EnqueueAbortInv ==
  ASSUME IInv, NEW c \in Clients, EnqueueAbort(c)
  PROVE  IInv'
  BY ConstantsOK, SMTT(30)
  DEF EnqueueAbort, IdleClient, IInv, TypeOK, WorkerInv, Exclusive, FreshIds, OwnCheckHolds, RunAtMostOnce,
      OutcomeTruthful, OneInFlightPerClient, Held, Jobs, InFlight, Settled, rows

LEMMA UploadInv ==
  ASSUME IInv, NEW x \in UploadIds, Upload(x)
  PROVE  IInv'
  BY ConstantsOK, SMTT(30)
  DEF Upload, InsertRow, IInv, TypeOK, WorkerInv, Exclusive, FreshIds, OwnCheckHolds, RunAtMostOnce,
      OutcomeTruthful, OneInFlightPerClient, Held, Jobs, InFlight, Settled, rows
-----------------------------------------------------------------------------
(* The steps of a worker. *)

LEMMA ClaimSelectInv ==
  ASSUME IInv, NEW w \in Workers, NEW j \in Jobs, ClaimSelect(w, j)
  PROVE  IInv'
  BY ConstantsOK, SMTT(30)
  DEF ClaimSelect, Claimable, Locked, IInv, TypeOK, WorkerInv, Exclusive, FreshIds, OwnCheckHolds, RunAtMostOnce,
      OutcomeTruthful, OneInFlightPerClient, Held, Jobs, InFlight, Settled, rows

LEMMA ClaimCommitInv ==
  ASSUME IInv, NEW w \in Workers, ClaimCommit(w)
  PROVE  IInv'
<1> DEFINE j == worker[w].job
<1>1. j \in Jobs /\ status[j] = "queued" /\ attempts[j] = 0
  BY DEF IInv, TypeOK, WorkerInv, ClaimCommit, RunAtMostOnce
<1>2. worker' = [worker EXCEPT ![w] = [pc |-> "running", job |-> j]]
  BY SetPc DEF IInv, ClaimCommit
<1>3. /\ status' = [status EXCEPT ![j] = "processing"]
      /\ UNCHANGED <<source, errors, insertedBy, ingested, clock, client, faults>>
  BY DEF ClaimCommit, MarkProcessing
<1>4. attempts' = [attempts EXCEPT ![j] = 1]
  BY <1>1 DEF IInv, TypeOK, ClaimCommit, MarkProcessing
<1>5. TypeOK'
  BY <1>1, <1>2, <1>3, <1>4 DEF IInv, TypeOK, InFlight
<1>6. WorkerInv' /\ Exclusive'
  BY <1>1, <1>2, <1>3, ConstantsOK DEF IInv, TypeOK, WorkerInv, Exclusive, Held, ClaimCommit
<1>7. FreshIds' /\ OwnCheckHolds' /\ OneInFlightPerClient'
  BY <1>1, <1>3 DEF IInv, TypeOK, FreshIds, OwnCheckHolds, OneInFlightPerClient, InFlight, Jobs
<1>8. RunAtMostOnce' /\ OutcomeTruthful'
  BY <1>1, <1>3, <1>4 DEF IInv, TypeOK, RunAtMostOnce, OutcomeTruthful
<1>9. QED
  BY <1>5, <1>6, <1>7, <1>8 DEF IInv

LEMMA ClaimCommitLostInv ==
  ASSUME IInv, NEW w \in Workers, ClaimCommitLost(w)
  PROVE  IInv'
  BY ConstantsOK, SMTT(30)
  DEF ClaimCommitLost, MarkProcessing, DeadWorker, IInv, TypeOK, WorkerInv, Exclusive, FreshIds, OwnCheckHolds, RunAtMostOnce,
      OutcomeTruthful, OneInFlightPerClient, Held, Jobs, InFlight, Settled, rows

LEMMA RunInv ==
  ASSUME IInv, NEW w \in Workers, RunPersist(w) \/ RunReturn(w) \/ RunRaise(w)
  PROVE  IInv'
<1>1. CASE RunPersist(w)
  BY <1>1, SetPc, ConstantsOK, SMTT(30)
  DEF RunPersist, IInv, TypeOK, WorkerInv, Exclusive, FreshIds, OwnCheckHolds, RunAtMostOnce,
      OutcomeTruthful, OneInFlightPerClient, Held, Jobs, InFlight, Settled, rows
<1>2. CASE RunReturn(w)
  BY <1>2, SetPc, ConstantsOK, SMTT(30)
  DEF RunReturn, IInv, TypeOK, WorkerInv, Exclusive, FreshIds, OwnCheckHolds, RunAtMostOnce,
      OutcomeTruthful, OneInFlightPerClient, Held, Jobs, InFlight, Settled, rows
<1>3. CASE RunRaise(w)
  BY <1>3, SetPc, ConstantsOK, SMTT(30)
  DEF RunRaise, IInv, TypeOK, WorkerInv, Exclusive, FreshIds, OwnCheckHolds, RunAtMostOnce,
      OutcomeTruthful, OneInFlightPerClient, Held, Jobs, InFlight, Settled, rows
<1>4. QED
  BY <1>1, <1>2, <1>3

LEMMA RecordInv ==
  ASSUME IInv, NEW w \in Workers, RecordDone(w) \/ RecordFailure(w)
  PROVE  IInv'
<1> DEFINE j == worker[w].job
           outcome == IF worker[w].pc = "succeeded" THEN "done" ELSE "failed"
<1>1. /\ status' = [status EXCEPT ![j] = outcome]
      /\ worker' = [worker EXCEPT ![w] = IdleWorker]
      /\ errors' = IF outcome = "done" THEN errors ELSE errors \cup {j}
      /\ worker[w].pc \in {"succeeded", "raised"}
      /\ UNCHANGED <<source, attempts, insertedBy, ingested, clock, client, faults>>
  BY DEF RecordDone, RecordFailure
<1>2. j \in Jobs /\ status[j] = "processing" /\ attempts[j] = 1 /\ j \notin errors
  BY <1>1, ConstantsOK, SMTT(30)
  DEF IInv, TypeOK, WorkerInv, Held, RunAtMostOnce, OutcomeTruthful, Settled
<1>3. outcome \in Settled
  BY DEF Settled
<1>4. TypeOK'
  BY <1>1, <1>2, <1>3 DEF IInv, TypeOK, IdleWorker
<1>5. WorkerInv' /\ Exclusive'
  BY <1>1, <1>2, ConstantsOK DEF IInv, TypeOK, WorkerInv, Exclusive, Held, IdleWorker
<1>6. FreshIds' /\ OwnCheckHolds' /\ OneInFlightPerClient'
  BY <1>1, <1>2, <1>3
  DEF IInv, TypeOK, FreshIds, OwnCheckHolds, OneInFlightPerClient, InFlight, Settled, Jobs
<1>7. RunAtMostOnce' /\ OutcomeTruthful'
  BY <1>1, <1>2 DEF IInv, TypeOK, WorkerInv, RunAtMostOnce, OutcomeTruthful, Held
<1>8. QED
  BY <1>4, <1>5, <1>6, <1>7 DEF IInv

LEMMA LetGoInv ==
  ASSUME IInv, NEW w \in Workers, RecordLost(w) \/ Crash(w) \/ Start(w)
  PROVE  IInv'
<1>1. CASE RecordLost(w)
  BY <1>1, ConstantsOK, SMTT(30)
  DEF RecordLost, IdleWorker, IInv, TypeOK, WorkerInv, Exclusive, FreshIds, OwnCheckHolds, RunAtMostOnce,
      OutcomeTruthful, OneInFlightPerClient, Held, Jobs, InFlight, Settled, rows
<1>2. CASE Crash(w)
  BY <1>2, ConstantsOK, SMTT(30)
  DEF Crash, DeadWorker, IInv, TypeOK, WorkerInv, Exclusive, FreshIds, OwnCheckHolds, RunAtMostOnce,
      OutcomeTruthful, OneInFlightPerClient, Held, Jobs, InFlight, Settled, rows
<1>3. CASE Start(w)
  BY <1>3, ConstantsOK, SMTT(30)
  DEF Start, IdleWorker, IInv, TypeOK, WorkerInv, Exclusive, FreshIds, OwnCheckHolds, RunAtMostOnce,
      OutcomeTruthful, OneInFlightPerClient, Held, Jobs, InFlight, Settled, rows
<1>4. QED
  BY <1>1, <1>2, <1>3
-----------------------------------------------------------------------------
LEMMA NextIInv == IInv /\ [Next]_vars => IInv'
<1> SUFFICES ASSUME IInv, [Next]_vars PROVE IInv'
  OBVIOUS
<1>1. ASSUME NEW c \in Clients, ClientStep(c) PROVE IInv'
  BY <1>1, EnqueueBeginInv, EnqueueCheckInv, EnqueueInsertInv, EnqueueAbortInv DEF ClientStep
<1>2. ASSUME NEW x \in UploadIds, Upload(x) PROVE IInv'
  BY <1>2, UploadInv
<1>3. ASSUME NEW w \in Workers, WorkerStep(w) \/ WorkerFault(w) \/ Start(w) PROVE IInv'
  BY <1>3, ClaimSelectInv, ClaimCommitInv, ClaimCommitLostInv, RunInv, RecordInv, LetGoInv
  DEF WorkerStep, WorkerFault
<1>4. CASE UNCHANGED vars
  BY <1>4 DEF vars, IInv, TypeOK, WorkerInv, Exclusive, FreshIds, OwnCheckHolds, RunAtMostOnce,
      OutcomeTruthful, OneInFlightPerClient, Held, rows
<1>5. QED
  BY <1>1, <1>2, <1>3, <1>4 DEF Next

\* The inductive invariant holds of every behaviour of the queue.
THEOREM Invariance == Spec => []IInv
<1>1. Init => IInv
  BY InitIInv
<1>2. IInv /\ [Next]_vars => IInv'
  BY NextIInv
<1>3. QED
  BY <1>1, <1>2, PTL DEF Spec

\* The columns of the table and the actors' records keep their types.
THEOREM TypeCorrect == Spec => []TypeOK
<1>1. IInv => TypeOK
  BY DEF IInv
<1>2. QED
  BY <1>1, Invariance, PTL

\* Two workers never have the same job (worker.py: _claim_one).
THEOREM ClaimsAreExclusive == Spec => []ExclusiveClaim
<1>1. IInv => ExclusiveClaim
  BY DEF IInv, WorkerInv, Exclusive, ExclusiveClaim, Held
<1>2. QED
  BY <1>1, Invariance, PTL

\* No job is ever run a second time, whatever is lost and whoever crashes.
THEOREM NoSecondRun == Spec => []RunAtMostOnce
<1>1. IInv => RunAtMostOnce
  BY DEF IInv
<1>2. QED
  BY <1>1, Invariance, PTL

\* A recorded outcome is what the pipeline did (worker.py: _process).
THEOREM OutcomesAreTruthful == Spec => []OutcomeTruthful
<1>1. IInv => OutcomeTruthful
  BY DEF IInv
<1>2. QED
  BY <1>1, Invariance, PTL

\* The duplicate check of enqueue holds per client, uploads and races or not.
THEOREM DedupPerClient == Spec => []OneInFlightPerClient
<1>1. IInv => OneInFlightPerClient
  BY DEF IInv
<1>2. QED
  BY <1>1, Invariance, PTL
-----------------------------------------------------------------------------
\* Rows with a CELEX come from a client when no upload carries one.
CelexFromClients ==
  \A j \in Jobs : source[j] \in Celex => insertedBy[j] \in Clients

\* The case the code is written for: with a single client, and no upload that
\* carries a CELEX, the duplicate check of enqueue is enough.
THEOREM DedupSequential ==
  ASSUME UploadIds \subseteq {NoCelex}, \A c, d \in Clients : c = d
  PROVE  Spec => []NoDuplicateInFlight
<1>1. Init => CelexFromClients
  BY ConstantsOK DEF Init, CelexFromClients
<1>2. IInv /\ CelexFromClients /\ [Next]_vars => CelexFromClients'
  <2> SUFFICES ASSUME IInv, CelexFromClients, [Next]_vars PROVE CelexFromClients'
    OBVIOUS
  <2> USE DEF CelexFromClients
  <2>1. ASSUME NEW c \in Clients, EnqueueInsert(c) PROVE CelexFromClients'
    BY <2>1 DEF EnqueueInsert, InsertRow, IInv, TypeOK
  <2>2. ASSUME NEW x \in UploadIds, Upload(x) PROVE CelexFromClients'
    BY <2>2, ConstantsOK DEF Upload, InsertRow, IInv, TypeOK
  <2>3. ASSUME NEW c \in Clients, ClientStep(c), ~EnqueueInsert(c) PROVE CelexFromClients'
    BY <2>3 DEF ClientStep, EnqueueBegin, EnqueueCheck, EnqueueAbort, rows
  <2>4. ASSUME NEW w \in Workers, WorkerStep(w) \/ WorkerFault(w) \/ Start(w)
        PROVE  CelexFromClients'
    BY <2>4 DEF WorkerStep, WorkerFault, ClaimSelect, ClaimCommit, ClaimCommitLost,
       MarkProcessing, RunPersist, RunReturn, RunRaise, RecordDone, RecordFailure,
       RecordLost, Crash, Start, rows
  <2>5. CASE UNCHANGED vars
    BY <2>5 DEF vars, rows
  <2>6. QED
    BY <2>1, <2>2, <2>3, <2>4, <2>5 DEF Next
<1>3. IInv /\ CelexFromClients => NoDuplicateInFlight
  BY DEF IInv, OneInFlightPerClient, CelexFromClients, NoDuplicateInFlight
<1>4. QED
  BY <1>1, <1>2, <1>3, Invariance, PTL DEF Spec
-----------------------------------------------------------------------------
(* Jobs without a worker: each of them has cost a fault of its own. *)

StrandedJobs == {j \in Jobs : Stranded(j)}

SInv == Cardinality(StrandedJobs) <= faults

LEMMA StrandedCount ==
  IsFiniteSet(StrandedJobs) /\ Cardinality(StrandedJobs) \in Nat
<1>1. IsFiniteSet(Jobs)
  BY ConstantsOK, FS_Interval DEF Jobs
<1>2. IsFiniteSet(StrandedJobs)
  BY <1>1, FS_Subset DEF StrandedJobs
<1>3. QED
  BY <1>2, FS_CardinalityType

\* Steps that leave no job behind.
LEMMA NothingStranded ==
  ASSUME TypeOK, SInv, faults' = faults,
         \A j \in Jobs : Stranded(j)' => Stranded(j)
  PROVE  SInv'
<1>1. StrandedJobs' \subseteq StrandedJobs
  BY DEF StrandedJobs, Jobs
<1>2. IsFiniteSet(StrandedJobs') /\ Cardinality(StrandedJobs') <= Cardinality(StrandedJobs)
  BY <1>1, StrandedCount, FS_Subset
<1>3. Cardinality(StrandedJobs') \in Nat
  BY <1>2, FS_CardinalityType
<1>4. QED
  BY <1>2, <1>3, StrandedCount, ConstantsOK DEF SInv, TypeOK

\* A fault leaves at most the job j of its worker behind.
LEMMA OneStranded ==
  ASSUME TypeOK, SInv, faults' = faults + 1, NEW j,
         \A i \in Jobs : Stranded(i)' => Stranded(i) \/ i = j
  PROVE  SInv'
<1> DEFINE more == StrandedJobs \cup {j}
<1>1. /\ IsFiniteSet(more) /\ Cardinality(more) <= Cardinality(StrandedJobs) + 1
      /\ Cardinality(more) \in Nat
  <2>1. /\ IsFiniteSet(more)
        /\ Cardinality(more) = IF j \in StrandedJobs THEN Cardinality(StrandedJobs)
                                                     ELSE Cardinality(StrandedJobs) + 1
    BY StrandedCount, FS_AddElement
  <2>2. QED
    BY <2>1, StrandedCount
<1>2. StrandedJobs' \subseteq more
  BY DEF StrandedJobs, Jobs
<1> HIDE DEF more
<1>3. IsFiniteSet(StrandedJobs') /\ Cardinality(StrandedJobs') <= Cardinality(more)
  BY <1>1, <1>2, FS_Subset
<1>4. Cardinality(StrandedJobs') \in Nat
  BY <1>3, FS_CardinalityType
<1>5. QED
  BY <1>1, <1>3, <1>4, StrandedCount, ConstantsOK DEF SInv, TypeOK

\* A job stays "processing" with nobody working on it only through a fault, and
\* every fault leaves one such job at most (worker.py: _claim_one, _process).
THEOREM FaultsStrand == Spec => []StrandedOnlyByFault
<1>1. Init => SInv
  <2> SUFFICES ASSUME Init PROVE SInv
    OBVIOUS
  <2>1. StrandedJobs = {} /\ faults = 0
    BY DEF Init, StrandedJobs, Stranded
  <2>2. QED
    BY <2>1, FS_EmptySet DEF SInv
<1>2. IInv /\ SInv /\ [Next]_vars => SInv'
  <2> SUFFICES ASSUME IInv, SInv, [Next]_vars PROVE SInv'
    OBVIOUS
  <2> USE DEF Stranded
  <2>1. TypeOK
    BY DEF IInv
  <2>2. ASSUME NEW c \in Clients, ClientStep(c) PROVE SInv'
    <3>1. faults' = faults /\ worker' = worker
      BY <2>2 DEF ClientStep, EnqueueBegin, EnqueueCheck, EnqueueInsert, EnqueueAbort
    <3>2. \A j \in Jobs : status'[j] = status[j] \/ status'[j] = "queued"
      BY <2>1, <2>2 DEF ClientStep, EnqueueBegin, EnqueueCheck, EnqueueInsert, EnqueueAbort,
         InsertRow, TypeOK, rows
    <3>3. QED
      BY <2>1, <3>1, <3>2, NothingStranded DEF Held
  <2>3. ASSUME NEW x \in UploadIds, Upload(x) PROVE SInv'
    <3>1. faults' = faults /\ worker' = worker
      BY <2>3 DEF Upload
    <3>2. \A j \in Jobs : status'[j] = status[j] \/ status'[j] = "queued"
      BY <2>1, <2>3 DEF Upload, InsertRow, TypeOK
    <3>3. QED
      BY <2>1, <3>1, <3>2, NothingStranded DEF Held
  <2>4. ASSUME NEW w \in Workers, NEW j \in Jobs, ClaimSelect(w, j) PROVE SInv'
    <3>1. faults' = faults /\ status' = status /\ \A v \in Workers : Held(v)' = Held(v)
      BY <2>1, <2>4 DEF ClaimSelect, TypeOK, rows, Held
    <3>2. QED
      BY <2>1, <3>1, NothingStranded
  <2>5. ASSUME NEW w \in Workers, ClaimCommit(w) PROVE SInv'
    <3>1. worker' = [worker EXCEPT ![w] = [pc |-> "running", job |-> worker[w].job]]
      BY <2>1, <2>5, SetPc DEF ClaimCommit
    <3>2. /\ \A v \in Workers : Held(v)' = IF v = w THEN worker[w].job ELSE Held(v)
          /\ Held(w) = NoJob
      BY <2>1, <2>5, <3>1 DEF ClaimCommit, TypeOK, Held
    <3>3. /\ faults' = faults
          /\ \A i \in Jobs : i # worker[w].job => status'[i] = status[i]
      BY <2>1, <2>5 DEF ClaimCommit, MarkProcessing, TypeOK
    <3>4. QED
      BY <2>1, <3>2, <3>3, ConstantsOK, NothingStranded
  <2>6. ASSUME NEW w \in Workers, RunPersist(w) \/ RunReturn(w) \/ RunRaise(w) PROVE SInv'
    <3>1. PICK p \in {"persisted", "succeeded", "raised"} :
            worker' = [worker EXCEPT ![w] = [pc |-> p, job |-> worker[w].job]]
      BY <2>1, <2>6, SetPc DEF RunPersist, RunReturn, RunRaise
    <3>2. \A v \in Workers : Held(v)' = Held(v)
      BY <2>1, <2>6, <3>1 DEF RunPersist, RunReturn, RunRaise, TypeOK, Held
    <3>3. faults' = faults /\ status' = status
      BY <2>6 DEF RunPersist, RunReturn, RunRaise, rows
    <3>4. QED
      BY <2>1, <3>2, <3>3, NothingStranded
  <2>7. ASSUME NEW w \in Workers, RecordDone(w) \/ RecordFailure(w) PROVE SInv'
    <3>1. worker' = [worker EXCEPT ![w] = IdleWorker] /\ faults' = faults
      BY <2>7 DEF RecordDone, RecordFailure
    <3>2. \A v \in Workers : Held(v)' = IF v = w THEN NoJob ELSE Held(v)
      BY <2>1, <3>1 DEF IdleWorker, TypeOK, Held
    <3>3. Held(w) = worker[w].job
      BY <2>7 DEF RecordDone, RecordFailure, Held
    <3>4. \A i \in Jobs : IF i = worker[w].job THEN status'[i] \in Settled
                                               ELSE status'[i] = status[i]
      BY <2>1, <2>7 DEF RecordDone, RecordFailure, TypeOK, Settled
    <3>5. QED
      BY <2>1, <3>1, <3>2, <3>3, <3>4, NothingStranded DEF Settled
  <2>8. ASSUME NEW w \in Workers, ClaimCommitLost(w) PROVE SInv'
    <3>1. /\ faults' = faults + 1 /\ \A v \in Workers : Held(v)' = Held(v)
          /\ \A i \in Jobs : i # worker[w].job => status'[i] = status[i]
      BY <2>1, <2>8 DEF ClaimCommitLost, MarkProcessing, DeadWorker, TypeOK, Held
    <3>2. QED
      BY <2>1, <3>1, OneStranded
  <2>9. ASSUME NEW w \in Workers, RecordLost(w) \/ Crash(w) PROVE SInv'
    <3>1. PICK r \in {IdleWorker, DeadWorker} : worker' = [worker EXCEPT ![w] = r]
      BY <2>9 DEF RecordLost, Crash
    <3>2. \A v \in Workers : v # w => Held(v)' = Held(v)
      BY <2>1, <3>1 DEF TypeOK, Held
    <3>3. faults' = faults + 1 /\ status' = status
      BY <2>9 DEF RecordLost, Crash, rows
    <3>4. \A i \in Jobs : Stranded(i)' => Stranded(i) \/ i = Held(w)
      BY <3>2, <3>3
    <3>5. QED
      BY <2>1, <3>3, <3>4, OneStranded
  <2>10. ASSUME NEW w \in Workers, Start(w) PROVE SInv'
    <3>1. \A v \in Workers : Held(v)' = Held(v)
      BY <2>1, <2>10 DEF Start, IdleWorker, TypeOK, Held
    <3>2. faults' = faults /\ status' = status
      BY <2>10 DEF Start, rows
    <3>3. QED
      BY <2>1, <3>1, <3>2, NothingStranded
  <2>11. CASE UNCHANGED vars
    BY <2>1, <2>11, NothingStranded DEF vars, rows, Held
  <2>12. QED
    BY <2>2, <2>3, <2>4, <2>5, <2>6, <2>7, <2>8, <2>9, <2>10, <2>11
    DEF Next, WorkerStep, WorkerFault
<1>3. SInv => StrandedOnlyByFault
  BY DEF SInv, StrandedJobs, StrandedOnlyByFault
<1>4. QED
  BY <1>1, <1>2, <1>3, Invariance, PTL DEF Spec
-----------------------------------------------------------------------------
(* The queue implements JobLifecycle: every step is Submit, HandOut,       *)
(* HandOutLost, Settle or LetGo of one job, or leaves the promise alone.   *)

Map == [w \in Workers |-> Held(w)]

HeldIn(r) == IF r.pc \in {"idle", "claiming", "dead"} THEN NoJob ELSE r.job

LEMMA MapStep ==
  ASSUME TypeOK, NEW w \in Workers, NEW r, worker' = [worker EXCEPT ![w] = r]
  PROVE  Map' = [Map EXCEPT ![w] = HeldIn(r)]
<1>1. \A v \in Workers : worker'[v] = IF v = w THEN r ELSE worker[v]
  BY DEF TypeOK
<1>2. \A v \in Workers : Map'[v] = IF v = w THEN HeldIn(r) ELSE Map[v]
  BY <1>1 DEF Map, Held, HeldIn
<1>3. QED
  BY <1>2 DEF Map

LEMMA InsertSubmits ==
  ASSUME IInv, NEW j \in Jobs, status[j] = "absent",
         status' = [status EXCEPT ![j] = "queued"], UNCHANGED worker
  PROVE  Lifecycle!Next
  BY DEF Lifecycle!Next, Lifecycle!Submit, Held

LEMMA ClaimHandsOut ==
  ASSUME IInv, NEW w \in Workers, ClaimCommit(w)
  PROVE  Lifecycle!Next
<1> DEFINE j == worker[w].job
<1>1. j \in Jobs /\ status[j] = "queued" /\ Held(w) = NoJob
  BY DEF IInv, TypeOK, WorkerInv, ClaimCommit, Held
<1>2. \A v \in Workers : Held(v) # j
  BY <1>1, ConstantsOK DEF IInv, WorkerInv, Held
<1>3. worker' = [worker EXCEPT ![w] = [pc |-> "running", job |-> j]]
  BY SetPc DEF IInv, ClaimCommit
<1>4. Map' = [Map EXCEPT ![w] = j]
  BY <1>3 DEF IInv, TypeOK, Map, Held
<1>5. Lifecycle!HandOut(w, j)
  BY <1>1, <1>2, <1>4 DEF Lifecycle!HandOut, ClaimCommit, MarkProcessing, Map
<1>6. QED
  BY <1>1, <1>5 DEF Lifecycle!Next

LEMMA ClaimLostHandsOut ==
  ASSUME IInv, NEW w \in Workers, ClaimCommitLost(w)
  PROVE  Lifecycle!Next
<1> DEFINE j == worker[w].job
<1>1. j \in Jobs /\ status[j] = "queued"
  BY DEF IInv, TypeOK, WorkerInv, ClaimCommitLost
<1>2. \A v \in Workers : Held(v) # j
  BY <1>1, ConstantsOK DEF IInv, WorkerInv, Held
<1>3. Map' = Map
  BY DEF IInv, TypeOK, ClaimCommitLost, DeadWorker, Map, Held
<1>4. Lifecycle!HandOutLost(j)
  BY <1>1, <1>2, <1>3 DEF Lifecycle!HandOutLost, ClaimCommitLost, MarkProcessing, Map
<1>5. QED
  BY <1>1, <1>4 DEF Lifecycle!Next

LEMMA RecordSettles ==
  ASSUME IInv, NEW w \in Workers, RecordDone(w) \/ RecordFailure(w)
  PROVE  Lifecycle!Next
<1> DEFINE j == worker[w].job
           outcome == IF worker[w].pc = "succeeded" THEN "done" ELSE "failed"
<1>1. /\ j \in Jobs /\ status[j] = "processing" /\ Held(w) = j
      /\ \A v \in Workers : Held(v) = j => v = w
  BY ConstantsOK DEF IInv, TypeOK, WorkerInv, Exclusive, RecordDone, RecordFailure, Held
<1>2. Map' = [Map EXCEPT ![w] = NoJob]
  <2>1. worker' = [worker EXCEPT ![w] = IdleWorker]
    BY DEF RecordDone, RecordFailure
  <2>2. HeldIn(IdleWorker) = NoJob
    BY DEF HeldIn, IdleWorker
  <2>3. QED
    BY <2>1, <2>2, MapStep DEF IInv
<1>3. Lifecycle!Settle(w, j, outcome)
  BY <1>1, <1>2 DEF Lifecycle!Settle, RecordDone, RecordFailure, Map
<1>4. QED
  BY <1>1, <1>3 DEF Lifecycle!Next

LEMMA FaultLetsGo ==
  ASSUME IInv, NEW w \in Workers, RecordLost(w) \/ Crash(w)
  PROVE  Lifecycle!Next \/ UNCHANGED <<status, Map>>
<1>1. Map' = [Map EXCEPT ![w] = NoJob] /\ status' = status
  <2>1. PICK r \in {IdleWorker, DeadWorker} : worker' = [worker EXCEPT ![w] = r]
    BY DEF RecordLost, Crash
  <2>2. HeldIn(r) = NoJob
    BY DEF HeldIn, IdleWorker, DeadWorker
  <2>3. status' = status
    BY DEF RecordLost, Crash, rows
  <2>4. QED
    BY <2>1, <2>2, <2>3, MapStep DEF IInv
<1>2. CASE Held(w) = NoJob
  BY <1>1, <1>2 DEF Map
<1>3. CASE Held(w) # NoJob
  BY <1>1, <1>3 DEF Lifecycle!Next, Lifecycle!LetGo, Map
<1>4. QED
  BY <1>2, <1>3

\* JobQueue implements JobLifecycle, with Held as the holder of a job.
THEOREM Refinement == Spec => ImplementsLifecycle
<1>1. Init => Lifecycle!Init
  BY DEF Init, Lifecycle!Init, Held, IdleWorker
<1>2. IInv /\ [Next]_vars => [Lifecycle!Next]_Lifecycle!vars
  <2> SUFFICES ASSUME IInv, [Next]_vars
               PROVE  Lifecycle!Next \/ UNCHANGED <<status, Map>>
    BY DEF Lifecycle!vars, Map
  <2>1. ASSUME NEW c \in Clients, EnqueueInsert(c) PROVE Lifecycle!Next
    BY <2>1, InsertSubmits DEF EnqueueInsert, InsertRow, IInv, FreshIds
  <2>2. ASSUME NEW x \in UploadIds, Upload(x) PROVE Lifecycle!Next
    <3>1. clock + 1 \in Jobs /\ status[clock + 1] = "absent"
      BY <2>2, ConstantsOK DEF Upload, IInv, TypeOK, FreshIds, Jobs
    <3>2. QED
      BY <2>2, <3>1, InsertSubmits DEF Upload, InsertRow
  <2>3. ASSUME NEW c \in Clients, ClientStep(c), ~EnqueueInsert(c)
        PROVE  UNCHANGED <<status, Map>>
    BY <2>3 DEF ClientStep, EnqueueBegin, EnqueueCheck, EnqueueAbort, rows, Map, Held
  <2>4. ASSUME NEW w \in Workers, NEW j \in Jobs, ClaimSelect(w, j)
        PROVE  UNCHANGED <<status, Map>>
    BY <2>4 DEF ClaimSelect, IInv, TypeOK, rows, Map, Held
  <2>5. ASSUME NEW w \in Workers, RunPersist(w) \/ RunReturn(w) \/ RunRaise(w)
        PROVE  UNCHANGED <<status, Map>>
    <3>1. PICK p \in {"persisted", "succeeded", "raised"} :
            worker' = [worker EXCEPT ![w] = [pc |-> p, job |-> worker[w].job]]
      BY <2>5, SetPc DEF RunPersist, RunReturn, RunRaise, IInv
    <3>2. HeldIn([pc |-> p, job |-> worker[w].job]) = Map[w]
      BY <2>5 DEF HeldIn, Map, Held, RunPersist, RunReturn, RunRaise
    <3>3. Map' = [Map EXCEPT ![w] = Map[w]]
      BY <3>1, <3>2, MapStep DEF IInv
    <3>4. status' = status
      BY <2>5 DEF RunPersist, RunReturn, RunRaise, rows
    <3>5. QED
      BY <3>3, <3>4 DEF Map
  <2>6. ASSUME NEW w \in Workers, Start(w) PROVE UNCHANGED <<status, Map>>
    BY <2>6 DEF Start, IInv, TypeOK, IdleWorker, rows, Map, Held
  <2>7. CASE UNCHANGED vars
    BY <2>7 DEF vars, rows, Map, Held
  <2>8. QED
    BY <2>1, <2>2, <2>3, <2>4, <2>5, <2>6, <2>7,
       ClaimHandsOut, ClaimLostHandsOut, RecordSettles, FaultLetsGo
    DEF Next, ClientStep, WorkerStep, WorkerFault
<1>3. QED
  BY <1>1, <1>2, Invariance, PTL DEF Spec, ImplementsLifecycle, Lifecycle!Spec
=============================================================================
