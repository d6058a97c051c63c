------------------------------ MODULE JobQueue ------------------------------
(***************************************************************************)
(* The jobs table, the processes that fill it (scripts/enqueue.py behind   *)
(* the import API, adapters/upload.py) and the workers that drain it       *)
(* (worker.py).  PostgreSQL runs at READ COMMITTED: every statement sees   *)
(* what is committed when it starts, so an enqueue is three steps - two    *)
(* SELECTs and an INSERT - between which others commit.                    *)
(***************************************************************************)
EXTENDS Naturals, FiniteSets

CONSTANTS
  MaxJobs,     \* bound: ids (created_at ranks) that are ever drawn
  Celex,       \* CELEX numbers
  Clients,     \* threads of the API, or runs of the script, that enqueue
  Workers,     \* worker processes
  UploadIds,   \* source_ids that an uploaded file may carry
  MaxFaults,   \* bound: crashes and failed database writes
  NoJob, NoCelex, NoClient

Jobs == 1..MaxJobs

ASSUME ConstantsOK ==
  /\ MaxJobs \in Nat /\ MaxFaults \in Nat
  /\ NoJob \notin Jobs /\ NoCelex \notin Celex /\ NoClient \notin Clients
  /\ UploadIds \subseteq Celex \cup {NoCelex}

VARIABLES
  status,      \* jobs.status ("absent": no such row)
  source,      \* jobs.source_id
  attempts,    \* jobs.attempts
  errors,      \* jobs that have a job_errors row
  ingested,    \* CELEX numbers whose regulation is INGESTED
  clock,       \* the last created_at given out: now() of a transaction
  client,      \* an enqueue call and what it has read
  worker,      \* a worker process and the job id it has
  insertedBy,  \* history: the client that inserted a row
  faults       \* faults so far

rows == <<status, source, attempts, errors, insertedBy>>
vars == <<rows, ingested, clock, client, worker, faults>>

InFlight == {"queued", "processing"}
Settled == {"done", "failed"}

TypeOK ==
  /\ status \in [Jobs -> {"absent"} \cup InFlight \cup Settled]
  /\ source \in [Jobs -> Celex \cup {NoCelex}]
  /\ attempts \in [Jobs -> Nat]
  /\ errors \in SUBSET Jobs
  /\ ingested \in SUBSET Celex
  /\ clock \in 0..MaxJobs
  /\ client \in [Clients -> [pc : {"idle", "check", "insert"},
                             celex : Celex \cup {NoCelex},
                             id : Jobs \cup {NoJob}]]
  /\ worker \in [Workers -> [pc : {"idle", "claiming", "running", "persisted",
                                   "succeeded", "raised", "dead"},
                             job : Jobs \cup {NoJob}]]
  /\ insertedBy \in [Jobs -> Clients \cup {NoClient}]
  /\ faults \in 0..MaxFaults

IdleClient == [pc |-> "idle", celex |-> NoCelex, id |-> NoJob]
IdleWorker == [pc |-> "idle", job |-> NoJob]
DeadWorker == [pc |-> "dead", job |-> NoJob]

Init ==
  /\ status = [j \in Jobs |-> "absent"]
  /\ source = [j \in Jobs |-> NoCelex]
  /\ attempts = [j \in Jobs |-> 0]
  /\ errors = {}
  /\ ingested = {}
  /\ clock = 0
  /\ client = [c \in Clients |-> IdleClient]
  /\ worker = [w \in Workers |-> IdleWorker]
  /\ insertedBy = [j \in Jobs |-> NoClient]
  /\ faults = 0

(***************************************************************************)
(* scripts/enqueue.py: enqueue                                             *)
(***************************************************************************)

\* BEGIN, and the SELECT of the regulation's ingestion_status.  An INGESTED
\* regulation ends the call ("already ingested") with nothing changed.
EnqueueBegin(c, x) ==
  /\ client[c].pc = "idle"
  /\ clock < MaxJobs
  /\ x \notin ingested
  /\ clock' = clock + 1
  /\ client' = [client EXCEPT ![c] =
                  [pc |-> "check", celex |-> x, id |-> clock + 1]]
  /\ UNCHANGED <<rows, ingested, worker, faults>>

\* Mutant: the check looks at queued jobs only.
HasQueuedJob(x) == \E j \in Jobs : source[j] = x /\ status[j] = "queued"

HasJobInFlight(x) == \E j \in Jobs : source[j] = x /\ status[j] \in InFlight

\* The SELECT of a queued or processing job with the same source_id.
EnqueueCheck(c) ==
  /\ client[c].pc = "check"
  /\ client' = [client EXCEPT ![c] =
                  IF HasJobInFlight(client[c].celex)
                  THEN IdleClient
                  ELSE [client[c] EXCEPT !.pc = "insert"]]
  /\ UNCHANGED <<rows, ingested, clock, worker, faults>>

InsertRow(j, x, by) ==
  /\ status' = [status EXCEPT ![j] = "queued"]
  /\ source' = [source EXCEPT ![j] = x]
  /\ insertedBy' = [insertedBy EXCEPT ![j] = by]
  /\ UNCHANGED <<attempts, errors>>

\* INSERT and COMMIT.
EnqueueInsert(c) ==
  /\ client[c].pc = "insert"
  /\ InsertRow(client[c].id, client[c].celex, c)
  /\ client' = [client EXCEPT ![c] = IdleClient]
  /\ UNCHANGED <<ingested, clock, worker, faults>>

\* session_scope rolls the transaction back when a statement fails.
EnqueueAbort(c) ==
  /\ client[c].pc # "idle"
  /\ client' = [client EXCEPT ![c] = IdleClient]
  /\ UNCHANGED <<rows, ingested, clock, worker, faults>>

(***************************************************************************)
(* adapters/upload.py: fetch, with adapters/base.py: _register_job - one   *)
(* INSERT that looks at no other row.                                      *)
(***************************************************************************)
Upload(x) ==
  /\ clock < MaxJobs
  /\ clock' = clock + 1
  /\ InsertRow(clock + 1, x, NoClient)
  /\ UNCHANGED <<ingested, client, worker, faults>>

(***************************************************************************)
(* worker.py: _claim_one                                                   *)
(***************************************************************************)
\* Mutant: a plain SELECT, without FOR UPDATE SKIP LOCKED.
NeverLocked(j) == FALSE

Locked(j) == \E w \in Workers : worker[w].pc = "claiming" /\ worker[w].job = j

\* Mutant: the worker passes over jobs without a CELEX.
ClaimableByCelex(j) == status[j] = "queued" /\ ~Locked(j) /\ source[j] # NoCelex

Claimable(j) == status[j] = "queued" /\ ~Locked(j)

\* SELECT ... ORDER BY created_at FOR UPDATE SKIP LOCKED LIMIT 1.  With no
\* claimable row the worker sleeps and polls again: nothing changes.
ClaimSelect(w, j) ==
  /\ worker[w].pc = "idle"
  /\ Claimable(j)
  /\ \A i \in Jobs : i < j => ~Claimable(i)
  /\ worker' = [worker EXCEPT ![w] = [pc |-> "claiming", job |-> j]]
  /\ UNCHANGED <<rows, ingested, clock, client, faults>>

MarkProcessing(j) ==
  /\ status' = [status EXCEPT ![j] = "processing"]
  /\ attempts' = [attempts EXCEPT ![j] = @ + 1]
  /\ UNCHANGED <<source, errors, insertedBy>>

\* UPDATE and COMMIT: the row lock goes with the transaction.
ClaimCommit(w) ==
  /\ worker[w].pc = "claiming"
  /\ MarkProcessing(worker[w].job)
  /\ worker' = [worker EXCEPT ![w].pc = "running"]
  /\ UNCHANGED <<ingested, clock, client, faults>>

\* The server commits, the worker sees an error: _claim_one is not guarded,
\* so the exception leaves the poll loop and ends the process.
ClaimCommitLost(w) ==
  /\ worker[w].pc = "claiming"
  /\ faults < MaxFaults
  /\ faults' = faults + 1
  /\ MarkProcessing(worker[w].job)
  /\ worker' = [worker EXCEPT ![w] = DeadWorker]
  /\ UNCHANGED <<ingested, clock, client>>

(***************************************************************************)
(* worker.py: _process, and the two points of pipeline.run_pipeline that   *)
(* the queue can tell apart: _persist commits, then _resolve may fail.     *)
(***************************************************************************)
RunPersist(w) ==
  /\ worker[w].pc = "running"
  /\ ingested' = ingested \cup ({source[worker[w].job]} \cap Celex)
  /\ worker' = [worker EXCEPT ![w].pc = "persisted"]
  /\ UNCHANGED <<rows, clock, client, faults>>

RunReturn(w) ==
  /\ worker[w].pc = "persisted"
  /\ worker' = [worker EXCEPT ![w].pc = "succeeded"]
  /\ UNCHANGED <<rows, ingested, clock, client, faults>>

\* Mutant: the pipeline's exception is swallowed and the job counts as done.
RunRaiseSwallowed(w) ==
  /\ worker[w].pc \in {"running", "persisted"}
  /\ worker' = [worker EXCEPT ![w].pc = "succeeded"]
  /\ UNCHANGED <<rows, ingested, clock, client, faults>>

RunRaise(w) ==
  /\ worker[w].pc \in {"running", "persisted"}
  /\ worker' = [worker EXCEPT ![w].pc = "raised"]
  /\ UNCHANGED <<rows, ingested, clock, client, faults>>

\* worker.py: _record_done
RecordDone(w) ==
  /\ worker[w].pc = "succeeded"
  /\ status' = [status EXCEPT ![worker[w].job] = "done"]
  /\ worker' = [worker EXCEPT ![w] = IdleWorker]
  /\ UNCHANGED <<source, attempts, errors, insertedBy, ingested, clock, client, faults>>

\* Mutants: a failed job is queued again; its status is not written at all.
RecordRetry(w) ==
  /\ worker[w].pc = "raised"
  /\ status' = [status EXCEPT ![worker[w].job] = "queued"]
  /\ worker' = [worker EXCEPT ![w] = IdleWorker]
  /\ UNCHANGED <<source, attempts, errors, insertedBy, ingested, clock, client, faults>>

RecordErrorOnly(w) ==
  /\ worker[w].pc = "raised"
  /\ errors' = errors \cup {worker[w].job}
  /\ worker' = [worker EXCEPT ![w] = IdleWorker]
  /\ UNCHANGED <<status, source, attempts, insertedBy, ingested, clock, client, faults>>

\* worker.py: _record_failure - the status and the job_errors row together.
RecordFailure(w) ==
  /\ worker[w].pc = "raised"
  /\ status' = [status EXCEPT ![worker[w].job] = "failed"]
  /\ errors' = errors \cup {worker[w].job}
  /\ worker' = [worker EXCEPT ![w] = IdleWorker]
  /\ UNCHANGED <<source, attempts, insertedBy, ingested, clock, client, faults>>

\* Either write fails: logged, swallowed, and the worker polls on.
RecordLost(w) ==
  /\ worker[w].pc \in {"succeeded", "raised"}
  /\ faults < MaxFaults
  /\ faults' = faults + 1
  /\ worker' = [worker EXCEPT ![w] = IdleWorker]
  /\ UNCHANGED <<rows, ingested, clock, client>>

(***************************************************************************)
(* The process: docker-entrypoint.sh starts it once, nothing supervises    *)
(* it; an operator may start it again.  A crash rolls back what is open.   *)
(***************************************************************************)
Crash(w) ==
  /\ worker[w].pc # "dead"
  /\ faults < MaxFaults
  /\ faults' = faults + 1
  /\ worker' = [worker EXCEPT ![w] = DeadWorker]
  /\ UNCHANGED <<rows, ingested, clock, client>>

Start(w) ==
  /\ worker[w].pc = "dead"
  /\ worker' = [worker EXCEPT ![w] = IdleWorker]
  /\ UNCHANGED <<rows, ingested, clock, client, faults>>

(***************************************************************************)
ClientStep(c) ==
  \/ \E x \in Celex : EnqueueBegin(c, x)
  \/ EnqueueCheck(c)
  \/ EnqueueInsert(c)
  \/ EnqueueAbort(c)

\* What a worker does when nothing goes wrong with it or the database.
WorkerStep(w) ==
  \/ \E j \in Jobs : ClaimSelect(w, j)
  \/ ClaimCommit(w)
  \/ RunPersist(w)
  \/ RunReturn(w)
  \/ RunRaise(w)
  \/ RecordDone(w)
  \/ RecordFailure(w)

WorkerFault(w) == ClaimCommitLost(w) \/ RecordLost(w) \/ Crash(w)

Next ==
  \/ \E c \in Clients : ClientStep(c)
  \/ \E x \in UploadIds : Upload(x)
  \/ \E w \in Workers : WorkerStep(w) \/ WorkerFault(w) \/ Start(w)

Spec == Init /\ [][Next]_vars

\* A worker that is alive keeps going: the poll loop never ends, and every
\* call of the pipeline returns or raises (its HTTP calls time out).  Nobody
\* promises to restart a dead worker or to enqueue anything.
FairSpec == Spec /\ \A w \in Workers : WF_vars(WorkerStep(w))

(***************************************************************************)
(* Properties                                                              *)
(***************************************************************************)
\* The job a worker was handed and has not let go of.
Held(w) == IF worker[w].pc \in {"idle", "claiming", "dead"} THEN NoJob
                                                            ELSE worker[w].job

Stranded(j) == status[j] = "processing" /\ \A w \in Workers : Held(w) # j

\* Two workers never have the same job, whether they are still claiming it,
\* running it or writing its outcome (worker.py: _claim_one is the only gate),
\* and a worker that runs a job runs one the table shows as processing.
ExclusiveClaim ==
  /\ \A v, w \in Workers :
       worker[v].job # NoJob /\ worker[v].job = worker[w].job => v = w
  /\ \A w \in Workers : Held(w) # NoJob => status[Held(w)] = "processing"

\* A job is claimed at most once in its life, and exactly once when it has
\* left the queue: no crash, lost write or second worker makes it run again.
RunAtMostOnce ==
  \A j \in Jobs : attempts[j] = IF status[j] \in {"absent", "queued"} THEN 0 ELSE 1

\* The recorded outcome is what happened: "done" only after the regulation was
\* committed, "failed" exactly when its traceback was stored with it.
OutcomeTruthful ==
  \A j \in Jobs :
    /\ status[j] = "done" /\ source[j] \in Celex => source[j] \in ingested
    /\ status[j] = "failed" <=> j \in errors

\* What the duplicate check does buy (enqueue.py): two jobs for one CELEX that
\* are in flight together were never queued by the same client.
OneInFlightPerClient ==
  \A i, j \in Jobs :
    /\ status[i] \in InFlight /\ status[j] \in InFlight
    /\ source[i] = source[j] /\ insertedBy[i] = insertedBy[j]
    /\ insertedBy[i] \in Clients
    => i = j

\* "writes one QUEUED job per CELEX (deduped)" (scripts/enqueue.py:4-5): no two
\* jobs for one CELEX are queued or processing at the same time.
NoDuplicateInFlight ==
  \A i, j \in Jobs :
    /\ status[i] \in InFlight /\ status[j] \in InFlight
    /\ source[i] = source[j] /\ source[i] \in Celex
    => i = j

\* A job stays "processing" with nobody working on it only if a write was lost
\* or a process died: one fault strands at most one job.
StrandedOnlyByFault == Cardinality({j \in Jobs : Stranded(j)}) <= faults

\* "both must remain (re)ingestable" (scripts/enqueue.py:50-52): a CELEX is
\* answered "already ingested" after a failed job only if another job for it
\* got through.
FailedStaysIngestable ==
  \A j \in Jobs :
    status[j] = "failed" /\ source[j] \in ingested =>
      \E i \in Jobs \ {j} : source[i] = source[j] /\ status[i] \in {"processing", "done"}

AllWorkersDead == \A w \in Workers : worker[w].pc = "dead"

\* While a worker is alive no queued job waits for ever: it is settled, or it
\* is stranded by a fault (liveness of the poll loop, oldest job first).
QueueDrains ==
  \A j \in Jobs :
    status[j] = "queued" ~> status[j] \in Settled \/ Stranded(j) \/ AllWorkersDead

(***************************************************************************)
(* The queue implements JobLifecycle.                                      *)
(***************************************************************************)
Lifecycle == INSTANCE JobLifecycle WITH holder <- [w \in Workers |-> Held(w)]

\* Every step of clients, workers and faults is a step of the life cycle that
\* JobLifecycle promises, or leaves it alone.
ImplementsLifecycle == Lifecycle!Spec
=============================================================================
