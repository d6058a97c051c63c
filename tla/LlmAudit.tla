------------------------------ MODULE LlmAudit ------------------------------
(***************************************************************************)
(* The audit of LLM calls: llm_client.complete, which the classic pipeline *)
(* calls through, and agentic/audit.py, the callback handler of a chat     *)
(* model.  Each call gets a row in a transaction of its own; a failed      *)
(* write is swallowed.  The steps leave everything else to their caller.   *)
(***************************************************************************)
EXTENDS Naturals, Sequences, FiniteSets

CONSTANTS
  Job,         \* the job the calls are made for
  NoJob,
  MaxLost      \* bound: rows whose transaction fails

VARIABLES
  audit,       \* llm_audit_log: [job, prompt, response], in commit order
  starts,      \* LlmAuditHandler._starts: run_id -> prompt
  writes       \* history: for each row that was to be written, in order, its
               \* index in the log, or 0 if its transaction failed

auditVars == <<audit, starts, writes>>

Outcomes == {"answer", "error", "interrupt"}

AuditInit == audit = << >> /\ starts = << >> /\ writes = << >>

Lost == Cardinality({i \in DOMAIN writes : writes[i] = 0})

\* The row is committed, or its transaction fails and nobody is told.
WriteRow(row) ==
  \/ /\ audit' = Append(audit, row)
     /\ writes' = Append(writes, Len(audit) + 1)
  \/ /\ Lost < MaxLost
     /\ writes' = Append(writes, 0)
     /\ UNCHANGED audit

(***************************************************************************)
(* llm_client.py                                                           *)
(***************************************************************************)
\* "except Exception" sees an error and marks it; a KeyboardInterrupt passes
\* by it, and the finally block writes the text there is: none.
ResponseOf(outcome) ==
  CASE outcome = "answer"    -> "text"
    [] outcome = "error"     -> "[LLM_CALL_FAILED]"
    [] outcome = "interrupt" -> ""

\* Mutant: a call that fails leaves before its row is written.
CompleteUnlessFailed(prompt, outcome) ==
  /\ outcome \in Outcomes
  /\ IF outcome = "answer"
     THEN WriteRow([job |-> Job, prompt |-> prompt, response |-> ResponseOf(outcome)])
     ELSE UNCHANGED <<audit, writes>>
  /\ UNCHANGED starts

\* The caller gets the answer, or the exception.
Complete(prompt, outcome) ==
  /\ outcome \in Outcomes
  /\ WriteRow([job |-> Job, prompt |-> prompt, response |-> ResponseOf(outcome)])
  /\ UNCHANGED starts

(***************************************************************************)
(* agentic/audit.py: LlmAuditHandler                                       *)
(***************************************************************************)
OnChatModelStart(id, prompt) ==
  /\ starts' = [i \in DOMAIN starts \cup {id} |-> IF i = id THEN prompt ELSE starts[i]]
  /\ UNCHANGED <<audit, writes>>

\* A run id that is not there gets an empty prompt.
Started(id) == IF id \in DOMAIN starts THEN starts[id] ELSE 0

Popped(id) == [i \in DOMAIN starts \ {id} |-> starts[i]]

OnLlmEnd(id) ==
  /\ WriteRow([job |-> NoJob, prompt |-> Started(id), response |-> "text"])
  /\ starts' = Popped(id)

\* langchain reports a KeyboardInterrupt here as well.
OnLlmError(id) ==
  /\ WriteRow([job |-> NoJob, prompt |-> Started(id), response |-> "[LLM_CALL_FAILED]"])
  /\ starts' = Popped(id)
=============================================================================
