------------------------- MODULE AgenticGraphProofs -------------------------
(***************************************************************************)
(* Theorems about AgenticGraph, for every turn limit and every number of   *)
(* extraction attempts.  Two inductive invariants: Progress says what each *)
(* node may rely on, Budget counts planner turns against the work done.    *)
(***************************************************************************)
EXTENDS AgenticGraph, TLAPS

\* The record in the state is the validation of the last extraction, judged.
Current == attempts # 0 /\ validated = attempts /\ judged = attempts

Progress ==
  /\ validated # 0 => attempts # 0 /\ validated = attempts
  /\ validated # 0 /\ pc # "critic" => pc = "raised" \/ judged = validated
  /\ stored # 0 => Current /\ stored = attempts
  /\ returned => stored # 0
  /\ fetch # "none" => Current /\ (decision = "REEXTRACT" => attempts >= MaxAttempts)
  /\ pc \in Loading => attempts = 0
  /\ pc \notin Loading \cup {"raised"} /\ rdf => origin = "eurlex"
  /\ fetch = "enriched" => origin = "eurlex"
  /\ pc \notin Loading \cup {"raised"} /\ origin = "none" => ~doc.file
  /\ pc = "planner" /\ stored # 0 => returned
  /\ pc = "extract" =>
       /\ attempts < MaxAttempts /\ stored = 0 /\ fetch = "none"
       /\ attempts # 0 => validated # 0 /\ decision = "REEXTRACT"
  /\ pc = "map_validate" => attempts # 0 /\ validated = 0 /\ stored = 0 /\ fetch = "none"
  /\ pc = "critic" => validated # 0 /\ stored = 0 /\ fetch = "none"
  /\ pc = "enrich" =>
       /\ Current /\ stored = 0 /\ fetch = "none"
       /\ decision = "REEXTRACT" => attempts >= MaxAttempts
  /\ pc = "persist" => Current /\ stored = 0
  /\ pc = "resolve" => stored # 0 /\ ~returned

One(b) == IF b THEN 1 ELSE 0

\* Turns that the work done so far accounts for: two for an extraction, once
\* it is validated, one for enrichment, one for storing.
Work == 2 * attempts - One(attempts # 0 /\ validated = 0)
          + One(fetch # "none") + One(stored # 0)

Budget ==
  steps <= Work + One(pc \notin Loading \cup {"planner", "critic", "resolve"})

IInv == TypeOK /\ Progress /\ Budget
-----------------------------------------------------------------------------
LEMMA InitIInv == Init => IInv
<1>1. Init => TypeOK
  <2>1. 0 \in 0..MaxAttempts /\ 0 \in Nat
    BY ConstantsOK
  <2>2. QED
    BY <2>1, Zenon DEF Init, TypeOK, Nodes, Loading, Decisions, Actions
<1>2. Init => Progress
  BY DEF Init, Progress, Loading
<1>3. Init => Budget
  BY DEF Init, Budget, Work, One, Loading
<1>4. QED
  BY <1>1, <1>2, <1>3 DEF IInv

LEMMA LoadInv ==
  ASSUME IInv, Load \/ GetRdf \/ GetManifestation \/ ReadFile
  PROVE  IInv'
<1>1. /\ pc \in Loading /\ pc' \in Loading \cup {"planner"} /\ doc' = doc
      /\ UNCHANGED <<recordVars, fetch, storeVars, next_action, steps>>
  BY DEF Load, GetRdf, GetManifestation, ReadFile, Loading, docVars
<1>2. text' \in BOOLEAN /\ rdf' \in BOOLEAN /\ origin' \in {"none", "eurlex", "file"}
  BY DEF Load, GetRdf, GetManifestation, ReadFile, docVars, IInv, TypeOK
<1>3. pc' = "planner" =>
        /\ rdf' => origin' = "eurlex"
        /\ origin' = "none" => ~doc'.file
  BY DEF Load, GetRdf, GetManifestation, ReadFile, Loading
<1>4. TypeOK'
  BY <1>1, <1>2, ZenonT(30) DEF IInv, TypeOK, Nodes, recordVars, storeVars
<1>5. attempts = 0 /\ stored = 0 /\ fetch = "none" /\ validated = 0 /\ ~returned
  BY <1>1 DEF IInv, TypeOK, Progress, Current
<1>6. Progress'
  BY <1>1, <1>3, <1>5 DEF Progress, Current, Loading, recordVars, storeVars
<1>7. Budget'
  BY <1>1 DEF IInv, Budget, Work, One, Loading, recordVars, storeVars
<1>8. QED
  BY <1>4, <1>6, <1>7 DEF IInv

\* What the planner chooses, case by case.
LEMMA PlannerChoice ==
  ASSUME IInv, Planner
  PROVE  \/ /\ pc' = "extract" /\ next_action' = "EXTRACT"
            /\ ~returned /\ steps < TurnCap
            /\ \/ attempts = 0
               \/ validated # 0 /\ decision = "REEXTRACT" /\ attempts < MaxAttempts
         \/ /\ pc' = "map_validate" /\ next_action' = "VALIDATE"
            /\ ~returned /\ attempts # 0 /\ validated = 0
         \/ /\ pc' = "enrich" /\ next_action' = "ENRICH"
            /\ ~returned /\ validated # 0 /\ fetch = "none"
            /\ decision = "REEXTRACT" => attempts >= MaxAttempts
         \/ /\ pc' = "persist" /\ next_action' = "PERSIST"
            /\ ~returned /\ validated # 0
            /\ steps < TurnCap => (doc.celex => fetch # "none")
         \/ /\ pc' = "end" /\ next_action' = "FINISH"
            /\ returned \/ (steps >= TurnCap /\ validated = 0)
<1>1. steps \in Nat /\ steps' = steps + 1 /\ TurnCap \in Nat
  BY ConstantsOK DEF IInv, TypeOK, Planner
<1>2. /\ attempts \in Nat /\ validated \in Nat /\ MaxAttempts \in Nat
      /\ returned \in BOOLEAN /\ doc.celex \in BOOLEAN
      /\ validated # 0 => attempts # 0
  BY ConstantsOK DEF IInv, TypeOK, Progress
<1>3. CASE steps' > TurnCap
  BY <1>1, <1>2, <1>3 DEF Planner, NodeOf
<1>4. CASE ~(steps' > TurnCap)
  <2>1. next_action' = CanonicalAction /\ pc' = NodeOf(CanonicalAction) /\ steps < TurnCap
    BY <1>1, <1>4 DEF Planner
  <2>2. CASE returned
    BY <2>1, <2>2 DEF CanonicalAction, NodeOf
  <2>3. CASE ~returned /\ attempts = 0
    BY <2>1, <2>3 DEF CanonicalAction, NodeOf
  <2>4. CASE ~returned /\ attempts # 0 /\ validated = 0
    BY <2>1, <2>4 DEF CanonicalAction, NodeOf
  <2>5. CASE ~returned /\ validated # 0 /\ decision = "REEXTRACT" /\ attempts < MaxAttempts
    BY <1>2, <2>1, <2>5 DEF CanonicalAction, NodeOf
  <2>6. CASE /\ ~returned /\ validated # 0
             /\ ~(decision = "REEXTRACT" /\ attempts < MaxAttempts)
    BY <1>2, <2>1, <2>6 DEF CanonicalAction, NodeOf
  <2>7. QED
    BY <1>2, <2>2, <2>3, <2>4, <2>5, <2>6
<1>5. QED
  BY <1>3, <1>4

LEMMA PlannerInv ==
  ASSUME IInv, Planner
  PROVE  IInv'
<1>1. /\ steps' = steps + 1 /\ pc = "planner"
      /\ UNCHANGED <<docVars, recordVars, fetch, storeVars>>
  BY DEF Planner
<1>2. TypeOK'
  BY <1>1, PlannerChoice DEF IInv, TypeOK, Nodes, Actions, docVars, recordVars, storeVars
<1>3. Progress'
  BY <1>1, PlannerChoice, ConstantsOK
  DEF IInv, TypeOK, Progress, Current, Loading, docVars, recordVars, storeVars
<1>4. Budget'
  BY <1>1, PlannerChoice
  DEF IInv, TypeOK, Budget, Work, One, Loading, docVars, recordVars, storeVars
<1>5. QED
  BY <1>2, <1>3, <1>4 DEF IInv

LEMMA NodeInv ==
  ASSUME IInv, Extract \/ MapValidate \/ Critic \/ Enrich \/ Persist \/ Resolve
  PROVE  IInv'
<1> USE ConstantsOK DEF docVars, recordVars, storeVars, IInv, TypeOK, Progress, Current,
                        Budget, Work, One, Nodes, Loading
<1>1. CASE Extract
  <2>1. attempts' = attempts + 1 /\ attempts \in Nat /\ attempts < MaxAttempts
    BY <1>1 DEF Extract
  <2>2. attempts' \in 0..MaxAttempts /\ 0 \in 0..MaxAttempts
    BY <2>1
  <2>3. TypeOK'
    BY <1>1, <2>2, Zenon DEF Extract, Decisions
  <2>4. Progress'
    BY <1>1, <2>1 DEF Extract
  <2>5. Budget'
    BY <1>1, <2>1 DEF Extract
  <2>6. QED
    BY <2>3, <2>4, <2>5
<1>2. CASE MapValidate
  BY <1>2 DEF MapValidate
<1>3. CASE Critic
  BY <1>3 DEF Critic, Decisions
<1>4. CASE Enrich
  BY <1>4 DEF Enrich
<1>5. CASE Persist
  BY <1>5 DEF Persist
<1>6. CASE Resolve
  BY <1>6 DEF Resolve
<1>7. QED
  BY <1>1, <1>2, <1>3, <1>4, <1>5, <1>6

LEMMA RaiseInv ==
  ASSUME IInv, Raise
  PROVE  IInv'
<1>1. /\ pc # "raised" /\ pc' = "raised"
      /\ UNCHANGED <<docVars, recordVars, fetch, storeVars, next_action, steps>>
  BY DEF Raise
<1>2. pc \in {"extract", "map_validate", "critic", "persist", "resolve", "read_file"}
  BY DEF Raise
<1>3. TypeOK'
  BY <1>1 DEF IInv, TypeOK, docVars, recordVars, storeVars
<1>4. Progress'
  BY <1>1, <1>2 DEF IInv, Progress, Current, Loading, docVars, recordVars, storeVars
<1>5. Budget'
  BY <1>1, <1>2 DEF IInv, TypeOK, Budget, Work, One, Loading, docVars, recordVars, storeVars
<1>6. QED
  BY <1>3, <1>4, <1>5 DEF IInv

LEMMA NextIInv == IInv /\ [Next]_vars => IInv'
<1>1. ASSUME IInv, UNCHANGED vars PROVE IInv'
  BY <1>1 DEF vars, docVars, recordVars, storeVars, IInv, TypeOK, Progress, Current,
              Budget, Work, One, Loading
<1>2. QED
  BY <1>1, LoadInv, PlannerInv, NodeInv, RaiseInv DEF Next, Node

\* The inductive invariant of the graph.
THEOREM Invariance == Spec => []IInv
<1>1. QED
  BY InitIInv, NextIInv, PTL DEF Spec

\* The state of a run keeps its types; no more attempts than MaxAttempts.
THEOREM TypeCorrect == Spec => []TypeOK
<1>1. IInv => TypeOK
  BY DEF IInv
<1>2. QED
  BY <1>1, Invariance, PTL

\* No run stores a record that was not validated from the last extraction and
\* judged by the critic, for any turn limit (specialists.py: extract_node).
THEOREM NoStaleRecord == Spec => []PersistsWhatWasJudged
<1>1. IInv => PersistsWhatWasJudged
  BY DEF IInv, Progress, Current, PersistsWhatWasJudged
<1>2. QED
  BY <1>1, Invariance, PTL

\* A record is enriched only from the EUR-Lex document it was extracted from,
\* and a job that has a file is never extracted from nothing (nodes.py:
\* load_node and enrich_node).
THEOREM OneSource == Spec => []EnrichedFromSource
<1>1. IInv => EnrichedFromSource
  BY DEF IInv, Progress, EnrichedFromSource
<1>2. QED
  BY <1>1, Invariance, PTL

\* The retry loop bounds the planner's turns, for any turn limit.
THEOREM TurnsAreBounded == Spec => []TurnsBounded
<1>1. IInv => TurnsBounded
  BY ConstantsOK DEF IInv, TypeOK, Budget, Work, One, TurnsBounded
<1>2. QED
  BY <1>1, Invariance, PTL

\* An extraction after the first one is made only on a rejection by the critic,
\* and has its feedback in the prompt if it gave any (specialists.py:
\* extract_node and critic_node).
THEOREM RetriesAreTold == Spec => RetryCarriesFeedback
<1>1. IInv /\ [Next]_vars =>
        (pc = "extract" /\ attempts # 0 /\ pc' = "planner" =>
           decision = "REEXTRACT" /\ (feedback => hinted'))
  <2> SUFFICES ASSUME IInv, [Next]_vars, pc = "extract", attempts # 0, pc' = "planner"
               PROVE  decision = "REEXTRACT" /\ (feedback => hinted')
    OBVIOUS
  <2>1. decision = "REEXTRACT"
    BY DEF IInv, Progress
  <2>2. Extract
    BY DEF Next, Node, Load, GetRdf, GetManifestation, ReadFile, Planner, MapValidate, Critic,
           Enrich, Persist, Resolve, Raise, vars
  <2>3. QED
    BY <2>1, <2>2 DEF Extract
<1>2. QED
  BY <1>1, Invariance, PTL DEF Spec, RetryCarriesFeedback
-----------------------------------------------------------------------------
\* A run that ends has stored its regulation as long as the turn limit lets
\* every attempt be validated; below that a job can be "done" with nothing
\* stored (graph.py: planner_node, the loop guard).
THEOREM EndedRunsStored ==
  ASSUME TurnCap >= 2 * MaxAttempts
  PROVE  Spec => []EndMeansStored
<1>1. Init => EndMeansStored
  BY DEF Init, EndMeansStored
<1>2. IInv /\ EndMeansStored /\ [Next]_vars => EndMeansStored'
  <2> SUFFICES ASSUME IInv, EndMeansStored, [Next]_vars, pc' = "end"
               PROVE  stored' # 0 /\ returned'
    BY DEF EndMeansStored
  <2>1. CASE Planner
    <3>1. UNCHANGED storeVars
      BY <2>1 DEF Planner
    <3>2. returned \/ (steps >= TurnCap /\ validated = 0)
      BY <2>1, PlannerChoice
    <3>3. CASE returned
      BY <3>1, <3>3 DEF IInv, Progress, storeVars
    <3>4. CASE ~returned /\ steps >= TurnCap /\ validated = 0
      <4>1. stored = 0 /\ fetch = "none" /\ pc = "planner"
        BY <2>1, <3>4 DEF IInv, Progress, Current, Planner
      <4>2. steps <= 2 * attempts - One(attempts # 0)
        BY <3>4, <4>1 DEF IInv, TypeOK, Budget, Work, One
      <4>3. steps < 2 * MaxAttempts
        BY <4>2, ConstantsOK DEF IInv, TypeOK, One
      <4>4. QED
        BY <3>4, <4>3, ConstantsOK DEF IInv, TypeOK
    <3>5. QED
      BY <3>2, <3>3, <3>4
  <2>2. CASE UNCHANGED vars
    BY <2>2 DEF EndMeansStored, vars, storeVars
  <2>3. QED
    BY <2>1, <2>2 DEF Next, Node, Load, GetRdf, GetManifestation, ReadFile, Extract,
       MapValidate, Critic, Enrich, Persist, Resolve, Raise
<1>3. QED
  BY <1>1, <1>2, Invariance, PTL DEF Spec

\* With one more turn, no CELEX document is stored before enrichment was tried.
THEOREM EnrichmentFirst ==
  ASSUME TurnCap >= 2 * MaxAttempts + 1
  PROVE  Spec => []EnrichedBeforeStored
<1> DEFINE Ready == /\ EnrichedBeforeStored
                    /\ pc = "persist" /\ doc.celex => fetch # "none"
<1>1. Init => Ready
  BY DEF Init, EnrichedBeforeStored
<1>2. IInv /\ Ready /\ [Next]_vars => Ready'
  <2> SUFFICES ASSUME IInv, Ready, [Next]_vars PROVE Ready'
    OBVIOUS
  <2>1. CASE Planner
    <3>1. UNCHANGED <<docVars, recordVars, fetch, storeVars>> /\ pc = "planner"
      BY <2>1 DEF Planner
    <3>2. ASSUME pc' = "persist", doc.celex, fetch = "none" PROVE FALSE
      <4>1. steps >= TurnCap /\ ~returned
        BY <2>1, <3>2, PlannerChoice, ConstantsOK DEF IInv, TypeOK
      <4>2. steps <= 2 * attempts
        BY <3>1, <3>2, <4>1 DEF IInv, TypeOK, Progress, Budget, Work, One
      <4>3. QED
        BY <4>1, <4>2, ConstantsOK DEF IInv, TypeOK
    <3>3. QED
      BY <3>1, <3>2 DEF EnrichedBeforeStored, docVars, recordVars, storeVars
  <2>2. CASE Persist
    BY <2>2 DEF Persist, EnrichedBeforeStored, docVars
  <2>3. CASE Enrich
    BY <2>3 DEF Enrich, EnrichedBeforeStored, docVars, storeVars
  <2>4. CASE UNCHANGED vars
    BY <2>4 DEF EnrichedBeforeStored, vars, docVars, storeVars
  <2>5. QED
    BY <2>1, <2>2, <2>3, <2>4 DEF Next, Node, Load, GetRdf, GetManifestation, ReadFile,
       Extract, MapValidate, Critic, Resolve, Raise, EnrichedBeforeStored, docVars, storeVars
<1>3. QED
  BY <1>1, <1>2, Invariance, PTL DEF Spec
=============================================================================
