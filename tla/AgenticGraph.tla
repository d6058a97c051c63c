---------------------------- MODULE AgenticGraph ----------------------------
(***************************************************************************)
(* One document going through the agentic ingestion graph: agentic/graph.py *)
(* (planner and edges), agentic/nodes.py and agentic/specialists.py (the    *)
(* nodes).  What a node computes is abstracted to which extraction attempt  *)
(* it was computed from; what it may fail at is kept.                       *)
(***************************************************************************)
EXTENDS Naturals

CONSTANTS
  TurnCap,      \* config.AGENT_MAX_TURNS
  MaxAttempts   \* MAX_EXTRACT_ATTEMPTS

ASSUME ConstantsOK == TurnCap \in Nat /\ MaxAttempts \in Nat \ {0}

VARIABLES
  pc,          \* the node that runs next
  doc,         \* the job: does it name a CELEX, does it have a file
  text,        \* "segments": is there anything to read
  origin,      \* history: where the segments are from
  rdf,         \* "rdf_bytes": did EUR-Lex deliver metadata
  attempts,    \* "extract_attempts"; the extraction in the state is the last
  hinted,      \* the last extraction was given the critic's feedback
  validated,   \* "validation_output": the attempt it was made from, 0 for None
  clean,       \* every row of that validation would be auto-approved
  judged,      \* history: the attempt the critic saw last
  decision,    \* "critic_decision"
  feedback,    \* "critic_feedback" is not empty
  fetch,       \* "fetch_output"
  stored,      \* the attempt whose validation _persist committed, 0 for none
  review,      \* how its rows were stored
  returned,    \* "regulation_id" is set
  next_action, \* the planner's latest choice
  steps        \* planner turns taken

docVars == <<doc, text, origin, rdf>>
recordVars == <<attempts, hinted, validated, clean, judged, decision, feedback>>
storeVars == <<stored, review, returned>>
vars == <<pc, docVars, recordVars, fetch, storeVars, next_action, steps>>

\* load_node, and where get_document is in it.
Loading == {"load", "get_rdf", "get_xhtml", "get_html", "read_file"}

Nodes == Loading \cup {"planner", "extract", "map_validate", "critic", "enrich",
                      "persist", "resolve"}
Decisions == {"none", "ACCEPT", "REEXTRACT", "ROUTE_TO_HUMAN"}
Actions == {"none", "EXTRACT", "VALIDATE", "ENRICH", "PERSIST", "FINISH"}

TypeOK ==
  /\ pc \in Nodes \cup {"end", "raised"}
  /\ doc \in [celex : BOOLEAN, file : BOOLEAN]
  /\ text \in BOOLEAN /\ rdf \in BOOLEAN
  /\ origin \in {"none", "eurlex", "file"}
  /\ attempts \in 0..MaxAttempts
  /\ validated \in 0..MaxAttempts /\ judged \in 0..MaxAttempts
  /\ stored \in 0..MaxAttempts
  /\ hinted \in BOOLEAN /\ clean \in BOOLEAN /\ feedback \in BOOLEAN
  /\ returned \in BOOLEAN
  /\ decision \in Decisions
  /\ fetch \in {"none", "skipped", "enriched"}
  /\ review \in {"none", "auto-approved", "pending"}
  /\ next_action \in Actions
  /\ steps \in Nat

\* run_agentic_pipeline: the initial state.  enqueue takes any string, so a
\* job may have neither a well-formed CELEX nor a file.
Init ==
  /\ pc = "load"
  /\ doc \in [celex : BOOLEAN, file : BOOLEAN]
  /\ text = FALSE /\ origin = "none" /\ rdf = FALSE
  /\ attempts = 0 /\ hinted = FALSE
  /\ validated = 0 /\ clean = FALSE /\ judged = 0
  /\ decision = "none" /\ feedback = FALSE
  /\ fetch = "none"
  /\ stored = 0 /\ review = "none" /\ returned = FALSE
  /\ next_action = "none" /\ steps = 0

(***************************************************************************)
(* agentic/nodes.py: load_node and eurlex/fetch.py: get_document.  A CELEX *)
(* document is the RDF graph, which names the expression, and that as      *)
(* XHTML or else as HTML.  When a step fails, the file; when there is      *)
(* none, nothing.                                                          *)
(***************************************************************************)
Load ==
  /\ pc = "load"
  /\ pc' = IF doc.celex THEN "get_rdf" ELSE "read_file"
  /\ UNCHANGED <<docVars, recordVars, fetch, storeVars, next_action, steps>>

\* The graph comes and names an English expression, or the fetch is over.
GetRdf ==
  /\ pc = "get_rdf"
  /\ \/ rdf' = TRUE /\ pc' = "get_xhtml"
     \/ rdf' = rdf /\ pc' = "read_file"
  /\ UNCHANGED <<doc, text, origin, recordVars, fetch, storeVars, next_action, steps>>

\* A status other than 200 leaves the other format; an exception does not.
GetManifestation ==
  /\ pc \in {"get_xhtml", "get_html"}
  /\ \/ /\ text' \in BOOLEAN      \* the text may hold no segment
        /\ origin' = "eurlex"
        /\ pc' = "planner"
     \/ /\ pc' = IF pc = "get_xhtml" THEN "get_html" ELSE "read_file"
        /\ UNCHANGED <<text, origin>>
     \/ /\ pc' = "read_file"
        /\ UNCHANGED <<text, origin>>
  /\ UNCHANGED <<doc, rdf, recordVars, fetch, storeVars, next_action, steps>>

\* Mutant: the metadata of the document that could not be read is kept.
ReadFileKeepsRdf ==
  /\ pc = "read_file"
  /\ text' \in IF doc.file THEN BOOLEAN ELSE {FALSE}
  /\ origin' = IF doc.file THEN "file" ELSE "none"
  /\ pc' = "planner"
  /\ UNCHANGED <<doc, rdf, recordVars, fetch, storeVars, next_action, steps>>

\* rdf_bytes is None, whatever get_document had fetched before it failed.
ReadFile ==
  /\ pc = "read_file"
  /\ text' \in IF doc.file THEN BOOLEAN ELSE {FALSE}
  /\ origin' = IF doc.file THEN "file" ELSE "none"
  /\ rdf' = FALSE
  /\ pc' = "planner"
  /\ UNCHANGED <<doc, recordVars, fetch, storeVars, next_action, steps>>

(***************************************************************************)
(* agentic/graph.py: planner_node, _canonical_action and _route            *)
(***************************************************************************)
\* Mutant: no bound on attempts.
CanonicalActionUnbounded ==
  CASE returned -> "FINISH"
    [] ~returned /\ attempts = 0 -> "EXTRACT"
    [] ~returned /\ attempts # 0 /\ validated = 0 -> "VALIDATE"
    [] ~returned /\ validated # 0 /\ decision = "REEXTRACT" -> "EXTRACT"
    [] OTHER -> IF doc.celex /\ fetch = "none" THEN "ENRICH" ELSE "PERSIST"

\* "HUMAN" is missing: its guard asks for an extraction that is None after
\* the second test has already seen that it is not.
CanonicalAction ==
  CASE returned -> "FINISH"
    [] ~returned /\ attempts = 0 -> "EXTRACT"
    [] ~returned /\ attempts # 0 /\ validated = 0 -> "VALIDATE"
    [] ~returned /\ validated # 0 /\ decision = "REEXTRACT" /\ attempts < MaxAttempts
         -> "EXTRACT"
    [] OTHER -> IF doc.celex /\ fetch = "none" THEN "ENRICH" ELSE "PERSIST"

NodeOf(action) ==
  CASE action = "EXTRACT"  -> "extract"
    [] action = "VALIDATE" -> "map_validate"
    [] action = "ENRICH"   -> "enrich"
    [] action = "PERSIST"  -> "persist"
    [] action = "FINISH"   -> "end"

\* Mutant: the loop guard gives up instead of storing what it has.
PlannerGivesUp ==
  /\ pc = "planner"
  /\ steps' = steps + 1
  /\ next_action' = IF steps' > TurnCap THEN "FINISH" ELSE CanonicalAction
  /\ pc' = NodeOf(next_action')
  /\ UNCHANGED <<docVars, recordVars, fetch, storeVars>>

Planner ==
  /\ pc = "planner"
  /\ steps' = steps + 1
  /\ next_action' = IF steps' > TurnCap
                    THEN IF validated # 0 /\ ~returned THEN "PERSIST" ELSE "FINISH"
                    ELSE CanonicalAction
  /\ pc' = NodeOf(next_action')
  /\ UNCHANGED <<docVars, recordVars, fetch, storeVars>>

(***************************************************************************)
(* agentic/specialists.py: extract_node and critic_node;                   *)
(* agentic/nodes.py: map_validate_node, enrich_node, persist_node          *)
(***************************************************************************)
\* Mutants: the old validation is kept; the critic's feedback is cleared
\* before the prompt is built.
ExtractKeepsValidation ==
  /\ pc = "extract"
  /\ attempts' = attempts + 1
  /\ hinted' = (decision = "REEXTRACT" /\ feedback)
  /\ feedback' = FALSE
  /\ decision' = "none"
  /\ pc' = "planner"
  /\ UNCHANGED <<docVars, validated, clean, judged, fetch, storeVars, next_action, steps>>

ExtractUnhinted ==
  /\ pc = "extract"
  /\ attempts' = attempts + 1
  /\ hinted' = FALSE
  /\ feedback' = FALSE
  /\ validated' = 0
  /\ decision' = "none"
  /\ pc' = "planner"
  /\ UNCHANGED <<docVars, clean, judged, fetch, storeVars, next_action, steps>>

\* A new extraction drops everything derived from the one before.
Extract ==
  /\ pc = "extract"
  /\ attempts' = attempts + 1
  /\ hinted' = (decision = "REEXTRACT" /\ feedback)
  /\ feedback' = FALSE
  /\ validated' = 0
  /\ decision' = "none"
  /\ pc' = "planner"
  /\ UNCHANGED <<docVars, clean, judged, fetch, storeVars, next_action, steps>>

MapValidate ==
  /\ pc = "map_validate"
  /\ validated' = attempts
  /\ clean' \in BOOLEAN
  /\ pc' = "critic"
  /\ UNCHANGED <<docVars, attempts, hinted, judged, decision, feedback, fetch,
                 storeVars, next_action, steps>>

\* Mutant: the critic's edge leads back to validation.
CriticLoops ==
  /\ pc = "critic"
  /\ judged' = validated
  /\ decision' \in Decisions \ {"none"}
  /\ feedback' \in BOOLEAN
  /\ pc' = "map_validate"
  /\ UNCHANGED <<docVars, attempts, hinted, validated, clean, fetch, storeVars,
                 next_action, steps>>

Critic ==
  /\ pc = "critic"
  /\ judged' = validated
  /\ decision' \in Decisions \ {"none"}
  /\ feedback' \in BOOLEAN
  /\ pc' = "planner"
  /\ UNCHANGED <<docVars, attempts, hinted, validated, clean, fetch, storeVars,
                 next_action, steps>>

\* Never raises; without RDF, or when reading it fails, it is skipped.
Enrich ==
  /\ pc = "enrich"
  /\ fetch' \in IF doc.celex /\ rdf THEN {"enriched", "skipped"} ELSE {"skipped"}
  /\ pc' = "planner"
  /\ UNCHANGED <<docVars, recordVars, storeVars, next_action, steps>>

\* persist_node commits the record in one transaction (pipeline._persist) ...
Persist ==
  /\ pc = "persist"
  /\ stored' = validated
  /\ review' = IF clean THEN "auto-approved" ELSE "pending"
  /\ pc' = "resolve"
  /\ UNCHANGED <<docVars, recordVars, fetch, returned, next_action, steps>>

\* ... and resolves relationships and HS codes in others (pipeline._resolve).
Resolve ==
  /\ pc = "resolve"
  /\ returned' = TRUE
  /\ pc' = "planner"
  /\ UNCHANGED <<docVars, recordVars, fetch, stored, review, next_action, steps>>

\* An exception of a node ends the run: a file that cannot be read, an LLM
\* call that fails, a database error.  planner and enrich have none.
Raise ==
  /\ pc \in {"extract", "map_validate", "critic", "persist", "resolve"}
       \/ (pc = "read_file" /\ doc.file)
  /\ pc' = "raised"
  /\ UNCHANGED <<docVars, recordVars, fetch, storeVars, next_action, steps>>

Node ==
  \/ Load \/ GetRdf \/ GetManifestation \/ ReadFile
  \/ Planner \/ Extract \/ MapValidate \/ Critic \/ Enrich \/ Persist \/ Resolve

Next == Node \/ Raise

Spec == Init /\ [][Next]_vars

\* Nodes return or raise: their HTTP calls have timeouts.
FairSpec == Spec /\ WF_vars(Next)

(***************************************************************************)
(* Properties                                                              *)
(***************************************************************************)
\* What is committed is the validation of the last extraction, and the critic
\* has seen it: a retry never lets a stale record through (specialists.py:132).
PersistsWhatWasJudged ==
  stored # 0 => stored = attempts /\ judged = attempts /\ validated = attempts

\* The second attempt is made only on a rejection, and is told why.
RetryCarriesFeedback ==
  [][pc = "extract" /\ attempts # 0 /\ pc' = "planner" =>
       decision = "REEXTRACT" /\ (feedback => hinted')]_vars

\* A CELEX document is enriched, or enrichment was tried, before it is stored.
EnrichedBeforeStored == stored # 0 /\ doc.celex => fetch # "none"

\* The metadata that a record is enriched with are those of the document it was
\* extracted from: after a fallback to the uploaded file, which may be another
\* version, none of EUR-Lex's dates and relations are stored with it.
EnrichedFromSource ==
  /\ fetch = "enriched" => origin = "eurlex"
  /\ pc \notin Loading \cup {"raised"} /\ origin = "none" => ~doc.file

\* "the record then persists with pending review_status" (graph.py:25-26): what
\* the critic rejected to the end waits for a human.
\* The code does not keep this; see the README.
RejectedNeedsHuman == stored # 0 /\ decision = "REEXTRACT" => review = "pending"

\* A run that returns to the worker, and so makes its job "done", has stored
\* its regulation (graph.py: "until the document is persisted").
EndMeansStored == pc = "end" => stored # 0 /\ returned

\* The retry loop alone bounds the run: with the shipped limit the planner's
\* loop guard is never needed, and with it 2 * attempts + 2 other nodes, the
\* run is far from the recursion limit of run_agentic_pipeline (at least 60).
TurnsBounded == steps <= 2 * MaxAttempts + 3

\* Every run ends (the retry loop is bounded).
RunEnds == <>(pc \in {"end", "raised"})
=============================================================================
