# Verification of the compliance-wizard-engine

TLA+ modules that model the parts of the compliance engine in which steps of
several actors, failures or boundaries can go wrong; TLC configurations that
check them on small instances; and theorems that TLAPS checks for every value
of the constants. Paths below are relative to the repository (`src/`).

The engine ingests EU regulations. A job names a CELEX id (or an uploaded
file); a worker claims it from a PostgreSQL table, fetches and extracts the
document with an LLM, stores a structured record, links it to other regulations
and to HS codes, and leaves uncertain rows for human review. A wizard then tells
which stored regulations apply to a product.

* [Inventory](#inventory): the system's parts
* [How they interact, and what is hard](#how-they-interact-and-what-is-hard)
* [Modules](#modules): which module models what, and how
* [Runs](#runs): what each run checks, its bounds, the fairness
* [Where the code and its documentation disagree](#where-the-code-and-its-documentation-disagree)
* [Proofs](#proofs)
* [What is not modelled](#what-is-not-modelled)
* [Plan](#plan)

Commands, in this directory:

    tlc -workers 2 -config JobQueue.cfg MCJobQueue.tla
    tlapm JobQueueProofs.tla

## Inventory

| part | state | operations | correct when |
|---|---|---|---|
| **Job queue and worker** `worker.py`, `docker-entrypoint.sh` | rows of `jobs` (status, attempts) and `job_errors`; each process' current job | claim the oldest queued job (`FOR UPDATE SKIP LOCKED`), mark it processing, run the pipeline, record done or failed; restart | a job is run by one worker and once; its outcome is truthful; a queued job is taken up |
| **Enqueue, import, upload** `scripts/enqueue.py`, `ui/api/imports.py`, `adapters/` | the same rows, and the stored file of an upload | insert a job unless the CELEX is ingested or in flight; insert a job for a file | one CELEX is not in flight twice and not ingested twice |
| **Agentic graph** `agentic/` | one `PipelineState` per run: segments, extraction, validation, critique, attempts, planner turns | nodes load, planner, extract, map_validate, critic, enrich, persist, resolve | what is stored is what was judged, after enrichment; the retry loop ends; a retry carries the critique |
| **Persistence** `pipeline.py`, `db/session.py` | rows of `regulations`, `regulation_fields`, `applicability_conditions` | claim or create the regulation, delete the old rows, insert the new ones, commit | a re-ingest replaces the record as a whole |
| **Relationship resolver** `engine/relationship_resolver.py` | rows of `regulation_relationships`, stub regulations | create stubs, check for a cycle, insert edge and inverse, query the amendment chain | inverses are maintained, no supersedes/amends loop, no relation is lost |
| **HS mapper and inference** `engine/hs_mapper.py`, `engine/hs_inference.py` | rows of `hs_regulation_map`, the nomenclature | map cited codes, propose codes, find regulations for a code | inference never overrides; decisions stand; a cited code is found |
| **Extraction** `agents/segment_text.py`, `agents/extract_agent.py`, `agentic/specialists.py` | lists of one run: lines, segments, chunks, answers | segment, chunk, fit into a prompt, merge | nothing of the document and nothing of an answer is lost unnoticed |
| **Mapping agent** `agents/mapping_agent.py` | a condition per clause | structure a clause as a range or a list, or leave it to a human | a structured condition means what its clause says |
| **Wizard** `engine/wizard_matcher.py`, `ui/api/wizard.py` | none: attributes in, verdict out | evaluate conditions, decide APPLIES, POSSIBLY_APPLIES, UNCERTAIN or EXCLUDED | no regulation that may apply is excluded |
| **Review** `ui/api/review.py`, `ui/review_helpers.py`, `ui/api/hs.py`, `ui/api/relationships.py` | review_status of rows; edges; HS rows | approve, edit, reject, bulk approve; delete or retype an edge; choose a code | a decision stands until the record is replaced, and touches nothing else |
| **Validation agent** `agents/validation_agent.py` | none: flags out | check format, consistency, conditions and confidence; flag what fails | what is published without a human is sound |
| **LLM client, audit** `llm_client.py`, `agentic/audit.py`, `agentic/model.py` | rows of `llm_audit_log`, the handler's open calls | call with retries, write one audit row in a transaction of its own | each call leaves exactly one row, and a failure is marked as one |
| **Fetch, EUR-Lex** `agents/fetch_agent.py`, `eurlex/` | none | download RDF, then XHTML or HTML | text and metadata are of one document |
| **PDF reader** `agents/read_agent.py` | none | layout and OCR | |
| **Listing** `ui/api/jobs.py`, `ui/api/regulations.py`, `ui/pagination.py` | none | pages of a table | each row is on one page; no page asked for is an error |
| **Models, migrations** `db/` | the schema | | the constraints the statements rely on |
| **Rest**: extra-key audit, seed scripts, trace script, configuration, logging, health check, React frontend | reference rows, or none | | |

`PROJECT.json` lists the same parts with their status, and under `hazards`
every place where they are exposed to something a test would hardly reach.

## How they interact, and what is hard

Everything shared is in PostgreSQL, in READ COMMITTED transactions. There are
several workers (TEAM_SETUP.md runs them on several machines), several API
processes and several people, and no lock apart from those that statements take:

* `enqueue` and uploads insert jobs, workers claim them. Enqueuing is two
  SELECTs and an INSERT in separate steps (`JobQueue`).
* A worker commits its claim, then runs the pipeline in transactions of its
  own, then records the outcome in another. It can die, or lose the write, at
  each point (`JobQueue`).
* Within a run the LangGraph graph loops between extraction and critic under
  two limits, attempts and planner turns (`AgenticGraph`); `extract` splits the
  document over several requests and merges the answers (`Extraction`), each of
  which is audited in a transaction of its own (`LlmAudit`).
* The validation agent flags a record, the rows that `_persist` derives from the
  flags wait in a queue, and reviewers decide on them at the same time (`Review`).
* Two runs of one regulation (a duplicate job, an upload) meet in `_persist`,
  with people who approve its rows and resolvers that create it as a stub
  (`RegulationStore`).
* After `_persist` has committed, relations are resolved in a second
  transaction, beside those of other workers (`RelationshipGraph`), and HS codes
  in a third (`HsMapping`).
* What the mapping agent stored is evaluated much later, by another program
  for another user (`Applicability`).

Hard are therefore: check-then-insert without a constraint; crashes between
commits; reads that are stale under READ COMMITTED; waiting on row locks, and a
SELECT that sees the world before the wait; loops under limits; numeric
boundaries of codes, ranges and budgets. Messages are not lost or reordered:
there are none but the rows.

## Modules

| module | models | composed with |
|---|---|---|
| `JobLifecycle` | abstract: what a job goes through, who may hold it | |
| `JobQueue` | the queue: enqueue, uploads, workers, faults | implements `JobLifecycle` (INSTANCE with a refinement mapping) |
| `AgenticGraph` | one run of the graph, with the acquisition of its document | its `Persist` is a run of `RegulationStore`; its limits are `agentic/graph.py`'s |
| `RecordStore` | abstract: a record is replaced as a whole, then decided on | |
| `RegulationStore` | `_persist` by several runs, and approval of rows | implements `RecordStore` for runs whose summaries differ |
| `Review` | validation of a record, the rows it leaves for review, the queue and its pages, and decisions by several reviewers | what `RegulationStore` takes as its constant `Flagged` comes from here |
| `RelationshipGraph` | `resolve_relationships` by several workers, and review of edges | |
| `HsMapping` | HS mapping, inference and review for one regulation | |
| `Applicability` | mapping agent and wizard, one after the other | |
| `Extraction` | segmentation, chunks, prompt, calls, parsing, merge; agentic and classic | instantiates `LlmAudit` |
| `LlmAudit` | audit rows of LLM calls, through the client and through the callback handler | |
| `MC*` | values for the constants of the runs | |
| `*Proofs` | theorems of the module they extend | |

Some modules hold, before an operator, a variant of it with a plausible slip
(`ClaimableByCelex` before `Claimable`, `ExtractUnhinted` before `Extract`). No
action uses one; they record against which slips the runs are known to be
sensitive, and each property has at least one (`mutants` in `PROJECT.json`).

### JobLifecycle

A job is absent, queued, processing, done or failed, and a worker may hold it
(`Submit`, `HandOut`, `HandOutLost`, `Settle`, `LetGo`). Once settled it does not
change, and once let go of it stays processing.

### JobQueue

Jobs are numbers in the order of their insertion, which is the order
`created_at` gives them. `source[j]` is the job's CELEX or `NoCelex` (an upload
that names none), `status[j]` its row. `ingested` is the set of CELEX ids whose
regulation is INGESTED. A client (`enqueue` script, import API) and a worker are
each a record with a program counter at the boundaries of their statements.

| action | code |
|---|---|
| `EnqueueBegin`, `EnqueueCheck`, `EnqueueInsert`, `EnqueueAbort` | `enqueue`: SELECT the regulation, SELECT a job, INSERT and commit, or roll back |
| `Upload` | `UploadAdapter.fetch`: a job for a file, with no check for duplicates |
| `ClaimSelect`, `ClaimCommit`, `ClaimCommitLost` | `_claim_one`: the SELECT with SKIP LOCKED, the commit, a commit whose answer is lost, which raises and ends the process |
| `RunPersist`, `RunReturn`, `RunRaise` | `run_pipeline` as `_process` sees it: `_persist` commits, then it returns or raises |
| `RecordDone`, `RecordFailure`, `RecordLost` | `_record_done`, `_record_failure`: a transaction of its own, whose failure is logged and swallowed |
| `Crash`, `Start` | the process dies at any point; somebody starts it again |

Faults (lost commits and crashes) are counted up to `MaxFaults`.

### AgenticGraph

One run; the variables are the keys of `PipelineState`. The data is abstracted
to where it comes from: the extraction in the state is number `attempts`, and
`validated`, `judged` and `stored` are the number of the extraction that a value
was made from, so that a stale value is a smaller number. `load_node` is one
action per request: `Load`, `GetRdf` (the graph, which names the expression),
`GetManifestation` (XHTML, then HTML), and `ReadFile`, the fallback for every
failure. `origin` says where the text came from, `rdf` whether metadata is at
hand. Each other node is one action (`Planner`, `Extract`, `MapValidate`,
`Critic`, `Enrich`), but for `persist_node`, which is two because it commits in
between (`Persist`, `Resolve`). `Raise` is an exception in a node that can have
one; it ends the run. `Planner` is `planner_node` with `_canonical_action` and the
guard on turns. `_canonical_action`'s "HUMAN" cannot be reached and is left out.

### RecordStore

What is committed of a regulation, seen from outside: a run replaces status, summary and rows
in one step, at most once (`Replace`), and the rows then change only by
decisions on rows that are there (`Approve`, `Decide`). `Announce` is a citation elsewhere,
before the first run. There
are no statements, locks or failures in it: a run that fails leaves no trace.

### RegulationStore

One `regulations` row with its `regulation_fields` rows, which have a fresh
key per run. A run goes through the statements of `_persist`: SELECT the
regulation; flush its UPDATE or INSERT, which waits for whoever holds the row and
fails on a unique violation; DELETE the rows, which takes its snapshot at the
start, then waits for the rows that others are deleting; then the INSERTs and the
commit. `FlushUnchanged` is SQLAlchemy's rule that an object without a changed
attribute is not written, so that no lock is taken: the columns that `_persist`
assigns are its status, its creator and one for the rest, `Summary[r]`. `RunStep` is all of it.
`BulkRead`, `BulkWrite`, `BulkStale` are the two statements of `bulk_approve`
(its rows can vanish in between, which SQLAlchemy reports as StaleDataError);
what `BulkRead` finds is read by the handler, not shown to anybody, as a request carries a
threshold and no rows; `FieldAction` is the single decision. `CreateStub` is a resolver elsewhere.

### Review

One ingested record. `Validate` is `ValidationAgent.run` with its four layers
of checks (`FormatChecks`, `ConsistencyChecks`, `ConditionChecks`,
`ConfidenceChecks`), whose `flags` are sets of a place and a reason. `Persist` is the
part of `_persist` that turns flags and confidences into a review_status
(`FieldPending`, `CondPending`). `Reason` is what the queue derives for a row
again from the row alone, `Items` the page that a request gets; both are
operators, as the queue changes nothing. `FieldAction`, `ConditionAction` and
`BulkApprove` open a reviewer's transaction on the rows they load; `Write` commits
it. In between others commit theirs. `Written` is the ORM's rule that an UPDATE
carries only the attributes whose value is not the loaded one. `last` records the last decision on a row and whether
it met another one (`alone`).

### RelationshipGraph

`nodes` are committed regulations, `edges` committed rows
`<<source, target, type>>`. `tx[w]` is a worker's transaction: what it has inserted
(`nodes`, `edges`), what is left of its document (`todo`) and the next statement.
`SelectTarget`, `InsertStub`, `CheckCycle`, `InsertEdge`, `InsertInverse` are the
statements of `_get_or_create_stub`, `_write_edge` and `_insert_edge`. An INSERT
waits for a transaction that has inserted the same key; if that one commits, an
edge is skipped by ON CONFLICT DO NOTHING, and a stub fails on the unique
source_id, which is one of the ways to `Abort`. `DeleteEdge` and `CorrectEdge` are
the review page's actions; `touched` remembers them.

### HsMapping

A code is the sequence of its digit groups, four digits and then two each, so that
headings, subheadings and tariff lines are its prefixes. `rows[c]` is the mapping
row of code `c` or `NoRow`. `MapCodes` is `map_regulation_hs_codes` for one
document: an exact row for a known code, a fuzzy one on its 6-digit parent if that
is known, else a fuzzy one of its own. The document's codes are upserted in their
order; `Upserted` says what that leaves of each row (the status of the first, the
rest of the last) without iterating, which is what the proofs need. `InferSelect` and `InferInsert` are
`map_inferred_hs_codes`, which looks first and inserts afterwards; `HsSelect` and
`HsDecide` are the review API. `Scores` and `Found` are `_match_score` and
`find_regulations_by_hs`.

### Applicability

A clause is what its text spells: an operator (after `_norm_operator`), any number of
numbers and whether they are joined by hyphens, words, a truth value, the LLM's hint of a
type, and whether the sentence is there. `Map` is `MappingAgent.run`: `Structure`, with one
operator per type that the vocabulary, the hint or the numbers make of a clause (`Type`),
over all clauses, and the exception for one without its sentence. `Provide` is a
query with one more attribute, or with another value for one that the last answer called
missing. The page takes attributes as a JSON object, so that a value may be
a number, a word, a truth value, some other text ("no" is one) or null, whatever the type of the
parameter. `Evaluate` and `Compare` are `_evaluate`, with `Truth` for `bool` (any text is
true) and `Numeric` and `Num` for `float` (a truth value is 1 or 0); `Status` is the cascade of
`_evaluate_regulation`. `Covers` is the meaning of the clause, independent of the code,
and `Rules` what follows from it for the product. A text that spells a number is taken as that
number where a range is asked for; "nan" and "inf" are left out.

### Extraction and LlmAudit

A document is a text, whose lines are on page 0, or a file, whose blocks are on pages;
either pipeline reads both, and a .docx is read as a text. A line or block is a heading of
some part, or none, the length of its first line, its length and its page. Each
loop of the code is a recursive function of the passes made, over an operator that is one
pass: `SegmentsOf` over `AddLine` (`segment_text` on lines and `_segment` on blocks: the
same loop, but for pages and for what is the first line); `CutOf` over `AddSegment`
(`_chunk_segments`); `Selection` over `Choose` (the selection by priority and
budget of `_build_prompt`); `MergeOf` over `MergeTwo` (`_merge_extractions`). A
segment remembers the numbers of its lines, so that one can ask where they went, and its
first and last page, as the prefix of its block prints them: `Prefix` counts the digits of the
index and of both pages, up to ten of each (`PowersOfTen`). A heading such as "Art5" opens a
segment and has the lowest priority ("bare"), because `_build_prompt` does not know it.
In agentic mode `Invoke`, `InvokeReturns`, `InvokeFails` and
`InvokeMisfits` are one request per chunk through the chat model, whose callbacks write the
audit; in classic mode `Complete` is the one call through `llm_client`, and
`Parse` the tolerant parsing of its free JSON, key by key (`Parsed`, and
`ParseRaises` where it is not tolerant). An element of a list is good, bad (an exception
that the code catches, and drops the element), or fatal: an exception that it does not
catch, such as the OverflowError of `int` on 1e999. An answer may be an object, something
else that is JSON or is not, or one that `json.loads` refuses with an exception of another
kind (an integer of more than 4300 digits).

`LlmAudit` has no specification of its own: its steps (`Complete`,
`OnChatModelStart`, `OnLlmEnd`, `OnLlmError`) are conjuncts of `Extraction`'s
actions. A row's transaction may fail, which is swallowed, up to `MaxLost` times.
Two histories are kept apart: `calls` is `Extraction`'s, of the requests that ended, with
the prompt that was sent and what came of it; `writes` is `LlmAudit`'s, of the rows that it
set out to write, with their place in the log or 0 if the transaction failed.
`EveryCallIsLogged` compares the two and the log.

## Runs

"States" are distinct states; each run takes from a few seconds to about three minutes.

| run | instance | states | shows |
|---|---|---|---|
| `JobQueue` | 3 jobs, 1 CELEX, 2 clients, 2 workers, uploads with and without the CELEX, 1 fault; fairness | 185570 | no two workers have one job (`ExclusiveClaim`); no job is claimed twice (`RunAtMostOnce`); done and failed say what happened (`OutcomeTruthful`); a client does not duplicate its own jobs (`OneInFlightPerClient`); each stranded job is accounted for by a fault (`StrandedOnlyByFault`); a queued job leaves the queue unless all workers are dead (`QueueDrains`); every behaviour is one of `JobLifecycle` (`ImplementsLifecycle`) |
| `AgenticGraph` | 2 attempts; 20 turns or 5; fairness | 8046 | what is stored is the judged validation of the last extraction (`PersistsWhatWasJudged`), and enriched only from the document it was read from (`EnrichedFromSource`); a run that ends has stored it (`EndMeansStored`); at most 2 * attempts + 3 turns (`TurnsBounded`); a retry carries the critique (`RetryCarriesFeedback`); every run ends (`RunEnds`) |
| `RegulationStore` | 3 runs, of which the third finds the summary of the first, 2 fields (1 flagged, 1 of low confidence), 1 bulk reviewer; fairness | 66815 | rows of two runs only stand together if one of them changed nothing (`DuplicatesNeedNoChange`); summary and rows are of one run (`RecordOfOneRun`); INGESTED means complete (`IngestedIsComplete`); a decision stands until another run replaces the record, and brings no replaced row back (`DecisionsLast`); all runs end (`RunsEnd`) |
| `Review` | all records of two fields of 13 kinds, or two conditions, or one of each; 2 reviewers, 2 decisions; pages of 2 | 321259 | what is auto-approved is sound (`AutoApprovedIsSound`); the reason shown is one that validation had (`ReasonIsTrue`); any page asked for is answered and the pages show each row once (`PagesShowQueue`); a decision that met no other one is what the row says (`LastDecisionShows`); approvals leave values alone (`ApprovalKeepsValue`) |
| `RelationshipGraph_workers` | 2 regulations, 2 workers, documents with up to one amends or amended_by, a reviewer | 51172 | no statement violates a constraint (`RowsAreAccepted`); what is committed is complete (`CommitIsComplete`); only a reviewer leaves half a pair (`MissingInverseWasReviewed`); until one has touched an edge, amendment chains are the same from both ends (`ChainIsMutual`) |
| `HsMapping` | 2 known subheadings, 1 unknown 8-digit code, 2 cited, 2 inference runs, reviewers | 5652 | inference only adds (`InferenceOnlyAdds`), and what it adds needs a human (`InferredNeedsHuman`); a decision stands (`DecisionStands`); a mapping is found by its prefixes and extensions (`PrefixIsFound`) |
| `Applicability` | 20 clause shapes, up to 3 clauses, numbers 0..3, words, truth values, other text, null | 279942 | an exclusion or a confirmation is true to the clauses, if they can be read and the attributes have their types (`TruthfulVerdict`); for any clauses and values it is final (`VerdictIsFinal`), and supplying the missing attributes suffices for one (`MissingSuffices`) |
| `Extraction` | texts of up to 5 lines of 6 kinds and files of up to 5 blocks of 5 kinds, budget 1000, 3 findings per chunk or 24 JSON answers, both modes, 1 lost audit row | 3459660 | every line is in one chunk (`EveryLineInOneChunk`); within the estimate nothing is left out (`CoveredWhenEstimated`), and beyond it only the longer block yields (`LongerYieldsFirst`); every item found is represented in the merge (`MergeKeepsAllKeys`); an odd key takes no sound one with it, unless it is of the kinds that raise (`OddFieldsDegrade`); one row was written for every request that ended, in order, with the prompt that was sent (`EveryCallIsLogged`) |
| `JobQueue_failed` | 2 jobs, 1 client, 1 worker, no fault | violated | `FailedStaysIngestable` |
| `RegulationStore_duplicate` | 3 runs, 1 field | violated | `NoDuplicateRows` |
| `RelationshipGraph_loop` | 2 regulations, 1 worker, amends and amended_by | violated | `Acyclic` |
| `Applicability_hyphen` | one clause, a range written 1-3 | violated | `NeverSilentlyDrops` |

The type invariants (`TypeOK`) are theorems of the `*Proofs` modules, and the
runs spend their time on what is less obvious. `Review` and `Extraction` have no
`TypeOK`; `Shape` in `ReviewProofs` and `TextInv`, `RunInv` and `AuditInv` in
`ExtractionProofs` are the corresponding parts of their invariants.

### Why the bounds suffice

* *JobQueue*: conflicts are between two actors; a third job is needed for one
  to starve behind another, and for a CELEX to be queued again after its job was
  settled. Symmetry is not used, as there are temporal properties.
* *AgenticGraph*: 2 attempts and 20 turns are the shipped values, with which the
  guard on turns never acts. 5 turns is the least with which all
  properties hold, and there it does cut runs short. `MCAgenticGraph` checks
  both settings in one run; a deployment has one of them.
* *RegulationStore*: two runs can only disagree about a stub; three are the
  fewest of which two meet over a record that a first one has ingested. That the
  third repeats the first one's summary makes the case of a run that writes
  nothing reachable.
* *Review*: each cross-field rule is about two fields, or two rows of one name.
  Two decisions are one overlap, or one after the other; the same properties were found to hold with
  3 and with 4. A queue of two rows
  with pages of one and two has full, partial and missing last pages.
* *RelationshipGraph*: two documents can lock, race and loop. Regulations and workers
  are symmetric. Longer loops and chains, of any number of regulations, are covered by
  `OneWorkerIsAcyclic` and `ChainsAreMutual`.
* *HsMapping*: the boundary of the prefix rule is at six digits; a known code on
  it, an unknown one beyond it and a sibling meet every branch. Codes of four and of ten
  digits are left to the theorem `PrefixesAreFound`.
* *Applicability*: each operator once as a range on one numeric parameter, with no number,
  one, two, three, and two with a hyphen; lists on a textual one, and a boolean, with and
  without a value that parses; attribute values below, on, between and above
  the bounds, and of every other type. `Status` combines clauses by type and outcome, which
  three do. The regulation has a set of clauses, as a repeated one changes no verdict.
* *Extraction*: titles short and of full length, paragraphs of which three fit a
  request and one that nearly fills it; five lines make up to five segments, and up
  to five requests, any of which may fail. Of the blocks of files, one is exactly as long as
  estimated on page 99 and a character longer on page 100. An index of two digits would
  need ten segments: that is left to the theorem `NothingIsTruncated`. Each JSON key is odd
  in each way beside keys that are not. One lost audit row is enough to tell an order that
  depends on there being none.

### Fairness

* `JobQueue`: `WF(WorkerStep(w))`. `main` polls in an endless loop; every
  call a run makes has a timeout, so that it returns or raises. Nothing is
  assumed of clients, of uploads or of restarts: `Start` is not part of
  `WorkerStep`, and `QueueDrains` allows for all workers being dead.
* `AgenticGraph`: `WF(Next)`: a node returns or raises.
* `RegulationStore`: `WF(RunStep(r))`: PostgreSQL hands a freed lock to a
  waiter. Reviewers need not act.

### Deadlock

`CHECK_DEADLOCK FALSE` is set because the modelled systems do stop: a run that
has ended, jobs used up with nobody to restart, all attributes given. That
the waits of `RegulationStore` are never circular is `RunsEnd`; in
`RelationshipGraph` they can be, see below.

## Where the code and its documentation disagree

Four disagreements have a run that TLC ends with a short counterexample; the
quoted line is in `findings` of `PROJECT.json`.

| run | what happens |
|---|---|
| `JobQueue_failed` | `_persist` commits, `_resolve` raises (`pipeline.py:73`): the job is failed, and enqueue refuses its CELEX as ingested |
| `RegulationStore_duplicate` | a run that changes no column of the regulations row takes no lock on it (`pipeline.py:131`); its rows end up beside those of another run |
| `RelationshipGraph_loop` | amended_by is not guarded, and its inverse closes the loop (`engine/relationship_resolver.py:113,120`) |
| `Applicability_hyphen` | 1-3 is read as 1 and -3 (`agents/mapping_agent.py:22`), so that the range is [-3, 1] and a product of 2 is excluded |

Five sentences are stated as formulas of the modules, beside the property that
does hold. No run checks them; put in the component's .cfg as an invariant, each
ends in a short counterexample:

| formula | the sentence | what happens |
|---|---|---|
| `Review.LastWriteWins` | TEAM_SETUP.md:160-161: "if two people review the same cue, last write wins" | the ORM writes only the attributes that a decision changes from what it loaded (`ui/api/review.py:209`), so that of two overlapping decisions a mixture may remain, such as the first one's value with the second one's reviewer. Four decisions on one row can leave it without any value: an edit empties value_json, a resolution value_text. `LastDecisionShows` and `ApprovalKeepsValue` are what holds |
| `Review.AnyFlagPends` | agents/validation_agent.py:6: "any flag ⇒ review_status='pending'" | a flag about a field that is absent, such as a missing certification body, has no row to keep pending (`pipeline.py:141`): the record may be auto-approved throughout |
| `AgenticGraph.RejectedNeedsHuman` | agentic/graph.py:25-26: "the record then persists with pending review_status" | a record that the critic rejected in the last attempt is pending only if a flag or a low confidence makes it so (`agentic/graph.py:44`; `Persist` ignores `decision`) |
| `Extraction.NeverCrashes` | agents/extract_agent.py:9-11: "a missing/odd field degrades to None/[] rather than crashing the pipeline" | a number where a list should be, or null for the mentions, is iterated over before it is tested (`agents/extract_agent.py:241`), and fails the job; so does a number such as 1e999 in an index, whose OverflowError is not among the exceptions caught (lines 221, 262 and 283), and an integer that `json.loads` refuses for its length (line 204) |
| `Extraction.FailuresAreMarked` | llm_client.py:33-35: the marker is how "queries/UI can reliably tell a failed call from a successful one" | a call that Ctrl-C interrupts (`worker.py:140` suggests it) passes `except Exception` and is written by the finally block as an empty success (`llm_client.py:114`) |

The models show the following as well, without a formula of its own, because
the properties that do hold are stated up to it:

* `scripts/enqueue.py:58`: two clients find no job for a CELEX, and both insert
  one. `OneInFlightPerClient` is what the check gives; the theorem
  `DedupSequential` says when it is enough.
* `worker.py:62`: a job in processing whose outcome was lost, or whose worker
  died, is called recoverable; no code takes it up again (`StrandedOnlyByFault`
  counts them; `JobLifecycle` has no step out of that state).
* `scripts/enqueue.py:53`: a job that finishes between enqueue's two SELECTs is
  seen by neither, and the CELEX is queued although ingested.
* `agentic/nodes.py:70`: when nothing could be fetched and there is no file, the
  run goes on and the regulation is stored as INGESTED (`ReadFile` with `origin` "none").
* `agentic/nodes.py:131`: one metadata value that does not validate makes
  `enrich_node` skip all it has read, the typed relations too (`Enrich` may choose
  "skipped" with RDF at hand).
* `ui/api/review.py:109`: rows of one confidence have no order, so that a row may be
  on two pages of two requests, or on none; `PagesShowQueue` is about the pages of
  one listing, of which `Listings` has all.
* `ui/api/review.py:132`: bulk approval overwrites a rejection made since it read its rows, and
  approves whatever is above its threshold when it runs, also rows that a re-ingest wrote
  after the reviewer loaded the page.
* `engine/relationship_resolver.py:113`: two workers look for a path before
  either has committed, and both insert; `OneWorkerIsAcyclic` needs one worker.
* `engine/relationship_resolver.py:117`: two documents that cite each other are
  inserted in opposite orders; each worker waits for the other, and PostgreSQL
  fails one (`Abort`).
* `ui/api/relationships.py:63`: deleting or retyping an edge leaves its inverse,
  hence `MissingInverseWasReviewed` instead of `InversePairs`.
* `engine/hs_mapper.py:97`: the status of an existing row is kept. An inferred
  mapping that is cited exactly later is exact and pending; an exact mapping that
  a fuzzy fallback overwrites is fuzzy and approved.
* `engine/hs_mapper.py:144`: prefixes are compared from six digits on, while
  shorter codes are stored; a four-digit heading is not found by its subheadings.
* `agents/mapping_agent.py:257`: `not_in`, or a comparison, with two numbers is stored as
  the range between them, three numbers as the range from the least to the greatest
  (`WellWritten` rules them out for `TruthfulVerdict`).
* `engine/wizard_matcher.py:107`: attributes are not checked for their type. `bool("no")` is
  true, so that the answer "no" excludes what a clause asks to be false; null is in no
  list and is false; a truth value counts as 1 or 0 in a range. `TruthfulVerdict` is about
  attributes of the types that schemas/wizard.py:22-24 names (`Typed`), or text in place of a
  number, which the matcher reports as missing.
* `agents/extract_agent.py:131`: "Art5" is a heading for the reader and no article for the
  prompt, so that it yields before chapters do (`Priority`, "bare").
* `agents/mapping_agent.py:229`: a clause without its sentence fails the document
  even if it can be structured (`Map`, state "failed").
* `agentic/specialists.py:36`: a title may be longer than the estimate allows for,
  and a segment of a chunk is then omitted from the prompt, hence the condition of
  `CoveredWhenEstimated`.
* `agents/extract_agent.py:143`: a lower priority takes the room that an annex was
  too large for; `LongerYieldsFirst` is what remains.
* `agentic/specialists.py:86`: two routes with the same modules under different
  conditions become one; `MergeKeepsAllKeys` speaks of keys.

Read in the code, and outside the models: the snippet of a queue item is cut out
of the stored file even if the record was extracted from EUR-Lex's text, whose
segments have other numbers (`ui/api/review.py:146`); the status of a group of rows
counts as "pending" what a human approved or rejected (`ui/api/regulations.py:123`).

## Proofs

Eight modules are proved about, and `LlmAudit` as a part of `Extraction`; each theorem holds for every value of the
constants that their named assumptions admit, and where it assumes more, its
statement says so.

### JobQueueProofs

`Invariance: Spec => []IInv`. The properties are not inductive as they stand:
that two workers do not hold one job depends on the lock that lasts from
`ClaimSelect` to `ClaimCommit`, and that outcomes are truthful on what a worker knows
before it records one. `IInv` therefore says, for every program counter of
every worker, what its job's row looks like (claiming: queued and locked by
nobody else; running and recording: processing, claimed once, and the regulation
committed where the counter says so), and, for every client, what its last SELECT
still guarantees. From it follow `TypeCorrect`, `ClaimsAreExclusive`,
`NoSecondRun`, `OutcomesAreTruthful`, `DedupPerClient`, and `Refinement`: each
step is a step of `JobLifecycle` or leaves its variables unchanged.
`DedupSequential` assumes that all clients are one and that no upload carries a
CELEX: then no CELEX is in flight twice (`NoDuplicateInFlight`).
`FaultsStrand` counts: the set of stranded jobs grows by one job at most, and only in a
step that counts a fault.

### AgenticGraphProofs

`Invariance` ties, for each node that is next, the numbers of the extraction,
validation and verdict to `attempts`, and bounds `steps` by how far the run has
come: every round takes two planner turns. Hence `TypeCorrect`, `NoStaleRecord`,
`TurnsAreBounded` (2 * MaxAttempts + 3), and `OneSource`: a record is enriched only
from the EUR-Lex document that its text came from. `EndedRunsStored` assumes
`TurnCap >= 2 * MaxAttempts`, `EnrichmentFirst` one turn more; both are the
least caps for which they hold, and the shipped 20 and 2 are far above.
`RetriesAreTold` is an action property: the invariant says that a run which is back at
the extraction has a verdict, and what it was.

### RelationshipGraphProofs

`Invariance`: `IInv` is `Typed`, `Sound` (endpoints of edges are nodes, no edge is
a self-edge, an edge lacks its inverse only if touched), `Good` of every
transaction (the same of what it has inserted, with the one edge whose inverse is
still to come, and with what it skipped as already there), and that nothing is
touched where there is no review. `Good` is what makes it inductive: a commit
adds a whole transaction at once. Hence `TypeCorrect`, `InsertsAreAccepted` and
`HalfPairsAreReviewed`; `ChainsAreMutual`, as long as no edge has been touched
(reachability along a relation that is closed under inverses is symmetric); and,
assuming that the review page is not used, `InversesMaintained`.
`OneWorkerIsAcyclic` assumes no review, one worker, and that the types which occur do not include both a
guarded type and its unguarded opposite. It needs `AInv`: the edges are
acyclic together with what the worker has inserted. The step that matters is
that an edge added where no path leads back closes no loop, which is shown with
the reachability of the module's own `PathExists`. Each of the three
assumptions is needed: dropping one gives one of the loops described above.
`CommitsAreComplete` needs `CInv`: for each relation of the document that is no longer
to do, the edge is there, or was inserted by this transaction, or a reviewer touched
it, or there was a path that it would have closed; and a path stays a path while edges are
only added or touched. An edge that is skipped because another transaction holds it is not
among these until that one has committed, which is why an INSERT has to wait.

### RegulationStoreProofs

`Invariance: Spec => []IInv`. That rows of two runs do not stand side by side
rests on a chain of facts about steps that lie apart: the regulations row is
locked by the one run that has flushed a change and has not ended (`Locks`); rows
stand only for runs that are done (`Owns`); and a changing run's DELETE has
targeted all rows of other changing runs (`Takes`), because they committed before
it got the lock, and its snapshot is later than that. `Wholes` says that rows of a
run come and go together, `Regs` what the row and every read copy of it may look like.
Hence `TypeCorrect`, `WritersTakeTurns` (`DuplicatesNeedNoChange`), `OneRecord`
(`RecordOfOneRun`), `DecisionsStand` (`DecisionsLast`: only the commit of another run takes
a decided row away, and nothing inserts a row again, since the ORM's UPDATE of a row that
is gone fails), and, with at least one field, `IngestedInFull` (`IngestedIsComplete`).
`DistinctRunsReplace` is the documented behaviour, `NoDuplicateRows`, under the assumption
that no two runs extract the same summary. It adds `Fresh` to the invariant: a run's summary is
in the row only once the run has committed, so that each run changes the row. The run
`RegulationStore_duplicate` shows that the assumption is needed.

`RecordIsReplaced` (`ImplementsRecordStore`) is the refinement under the same assumption,
with `done` as the set of runs that have committed. No run of the table checks it, as the
constants of both `RegulationStore` runs violate its assumption on purpose; TLC agrees for
three runs with three summaries. All of a run but its commit is hidden (`HiddenStep`). The
commit is `Replace` (`CommitReplaces`): the run holds the lock, so it writes its own
summary, and by `Takes` its DELETE has all rows there are. A bulk approval is `Approve`
because it fails when a row is gone (`WriteApproves`).

### ReviewProofs

`IInv` says which columns each row has, that an open transaction holds rows of
the record with decisions that their endpoint takes, and that an auto-approved
row is sound. The first two are needed because `Written` mixes the columns of two
moments. Flag by flag, lemmas show that what is not flagged is sound. Hence
`AutoApprovalSound`, `ApprovalsKeepValues` (an approval assigns no value column, so
that whatever has happened to them since stays) and `DecisionsShow`, for any records,
reviewers and number of decisions. `ReasonsAreTrue` adds to the invariant that what a
pending row says of itself is what validation saw. `QueueIsPaged` is arithmetic: the
pages of `build_page` are consecutive intervals of a listing, of which each position is in
exactly one, and clamping leads to the first or the last. It assumes that the default page
size is one a request may ask for, which `pagination.py` has as constants.

### HsMappingProofs

`TypeOK` and `InferredNeedsHuman` are inductive together, with two lemmas about
`Upserted`. Hence `TypeCorrect` and `InferenceNeedsHuman`, and the action properties
`DecisionsStand` and `InferenceAdds`, for any nomenclature and documents of any length.
`PrefixesAreFound` is about codes of any length: of two sequences of which one begins
with the other, the prefixes that `find_regulations_by_hs` asks for have one in common.

### ApplicabilityProofs

`RangeMeaning` and `ConditionMeaning` compare, clause by clause, what `_structure` and
`_evaluate` make of it with its meaning `Covers`; `OutcomeStays` says that what has been
decided about a condition stays when more is known; `StatusForm` turns the cascade
of `Status` into quantifiers. Hence `VerdictsAreTrue`, `VerdictsAreFinal` and
`MissingIsEnough`, for any vocabulary and any number of clauses. They assume that the
kinds of values can be told apart (`ValuesApart`) and that clauses and attributes are of
the forms described (`ConstantsOK`), no more. `VerdictsAreTrue` is stated for clauses that
are `WellWritten` and attributes that are `Typed`: no range with a hyphen, which the run
`Applicability_hyphen` shows to be needed, none that is excepted or compared with two numbers or
more, bounds in their order, and no attribute of another type. The other two theorems need
neither.

### ExtractionProofs

The properties are about what loops have computed, for documents, budgets and
answers of any size. The library's induction theorems are of no use here, since
they take an operator as a parameter; `Steps` replaces them: a set of numbers
that has 0, and with n also n + 1, has all numbers up to N, because a nonempty
set of numbers has a least one. `Recursion` proves likewise that a loop's recursive
function exists and obeys its equation. With these, each loop is one lemma on a
single pass and one that carries it through:

* *Segments*: `Holds(s, n)` (lines 1 to n are in the segments, each segment is a
  nonempty set of them, and earlier segments have earlier lines) is kept by a
  pass (`PassHolds`), so that it holds of all (`SegmentsHold`).
* *Chunks*: `Partition(s, n)` says the same of segments and chunks, place by place
  (`PartitionGrows`, `ChunksPartition`). Both together give `LinesAreReadOnce`.
* *Selection*: `Selected` says of the blocks left over so far that they are longer
  than what is left of the budget, and than every chosen block of lower priority
  (`ChooseSelects`, `LongerYields`).
* *Sums*: cur_len and the budget are sums over sets of segments. A sum is stated
  as the cardinality of a set of characters (`Chars`), so that the library's theorems on
  cardinality do the counting (`CountAdd`, `CountMore`). `ChunksFit`: if each segment
  fits, so does each chunk; `FittingIsShown`: of a set that fits, nothing is omitted.
* *Merge*: `Represents(m, p)` (m has the scalar and the keys of p) is kept by every
  further merge (`MergeRepresents`, `MergedRepresents`).

`Invariance: Spec => []IInv` says at each point of a run what these loops have left:
`TextInv` of the text, `RunInv` of the results, in either pipeline, `ShownInv` of the
prompts (what the chunks asked about so far have shown; a later prompt adds nothing
to them, as chunks are disjoint), `ResultInv` of the merge, `AuditInv` of the audit
(a call is open exactly while it runs, with the prompt it was made with; as many rows were to
be written as requests ended, and each tells of its own: `LoggedInv`, which a row that is
committed keeps by `RowIsTold`, one that is lost by `RowIsLost`). The prefix of a block is
a number whatever the pages (`DigitsAreNat`), which is all the sums need. Hence `LinesAreReadOnce`,
`NothingIsTruncated`, `PriorityIsKept`, `NothingFoundIsLost`, `AnswersDegrade` and
`CallsAreLogged`. `ConstantsOK` assumes that a line is not empty and its first line
no longer than itself, that the lines of a text are on page 0, that confidences are
percentages, and that each value of an answer is good, bad or fatal.

### Only model-checked

Liveness (`QueueDrains`, `RunEnds`, `RunsEnd`) and ENABLED are beyond the proof
system and stay with TLC. All other properties of the passing runs are theorems.
The four runs that end in a violation have no theorem, of course; where a
documented sentence holds under an assumption (`DedupSequential`, `DistinctRunsReplace`,
`OneWorkerIsAcyclic`, `VerdictsAreTrue`), the theorem states it.

## What is not modelled

* *Content.* What an LLM answers is any value of the right shape; text, titles and
  dates are abstracted to what the properties distinguish. Normalisation of a
  citation to an identifier (`normalize_identifier`) is taken at its result.
* *Transactions that are one step*: the HS mapping of one document, and each of a reviewer's
  actions on HS codes and edges. Each is a single statement, or takes row locks
  that make it atomic for everyone except a deadlock, which PostgreSQL resolves by
  failing one (noted in the hazards).
* *Condition rows* are deleted, inserted and reviewed by the same statements as
  field rows, which stand for both.
* *Files, HTTP, PDF, frontend, seed data, logging*: input and output, without
  shared state that a property could be about.
* *The classic sequence of agents* is straight-line code; where it differs, its
  extraction and its single LLM call, `Extraction` has it as a mode.
* *Lists of jobs and regulations* are single queries with LIMIT and OFFSET;
  their page arithmetic is `Review`'s.

## Plan

Done, in order of importance: `JobLifecycle` and `JobQueue`, `AgenticGraph`,
`RegulationStore`, `RelationshipGraph`, `HsMapping`, `Applicability`, `Extraction`,
`Review`, `LlmAudit`, with proofs of all their safety properties, and `RecordStore`. Left:

1. Conditions that a reviewer edits, under the wizard's evaluation: an edited condition that was
   unstructured stays so, and review_status does not matter to the wizard.
2. Normalisation of scalar fields in the mapping agent.
