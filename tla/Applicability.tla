--------------------------- MODULE Applicability ----------------------------
(***************************************************************************)
(* From a clause of a regulation to the wizard's verdict: how a clause is  *)
(* structured (agents/mapping_agent.py: _structure), and how the           *)
(* Compliance Wizard evaluates it against the product attributes that a    *)
(* user supplies query after query (engine/wizard_matcher.py).             *)
(*                                                                         *)
(* A clause keeps what the verdict depends on: the numbers, the words and  *)
(* the truth value that its text spells, and how the LLM labelled it.      *)
(***************************************************************************)
EXTENDS Integers, Sequences, FiniteSets

CONSTANTS
  Params,      \* parameter names
  VocabType,   \* the type of each in the controlled vocabulary, or "none"
  Clauses,     \* the clauses that may occur, each as in Clause below
  MaxClauses,  \* bound: clauses of one regulation
  Given,       \* what a user may enter for a parameter, as in Value below
  Words,       \* values of a categorical attribute
  Yes, No,     \* the two truth values
  Text,        \* a text that is no number and that no clause lists
  Null,        \* null or an empty text
  Absent, NoParam, NoBound, NoTruth

VARIABLES
  clauses,   \* the clauses extracted from the regulation
  stored,    \* what Mapping made of them, or the job failed
  attrs      \* what the user has told the wizard so far

vars == <<clauses, stored, attrs>>

Ops == {">", ">=", "<", "<=", "==", "between", "in", "not_in", "other"}
Types == {"range", "enum", "boolean"}
Outcomes == {"TRUE", "FALSE", "MISSING", "UNSTRUCTURED"}

Clause(c) ==
  /\ c.param \in Params \cup {NoParam}
  /\ c.condition_type \in {"inclusion", "exclusion"}
  /\ c.raw_text \in BOOLEAN             \* the original sentence is not empty
  /\ c.hint \in Types \cup {"none"}      \* the LLM's value_type
  /\ c.op \in Ops
  /\ c.nums \in Seq(Int)                \* the numbers as they are written ...
  /\ c.hyphen \in BOOLEAN               \* ... each joined by a hyphen to the last
  /\ c.words \in SUBSET Words
  /\ c.truth \in {Yes, No, NoTruth}

\* What the JSON object of a query may hold for an attribute.
Value == Int \cup Words \cup {Yes, No, Text, Null}

ASSUME ConstantsOK ==
  /\ \A c \in Clauses : Clause(c)
  /\ VocabType \in [Params -> Types \cup {"none"}]
  /\ MaxClauses \in Nat
  /\ \A p \in Params : Given[p] \subseteq Value

ASSUME ValuesApart ==
  /\ NoParam \notin Params /\ NoBound \notin Int /\ NoTruth \notin {Yes, No}
  /\ Absent \notin Value
  /\ {Yes, No, Text, Null} \cap (Int \cup Words) = {}
  /\ Yes # No /\ {Yes, No} \cap {Text, Null} = {} /\ Text # Null

(***************************************************************************)
(* mapping_agent.py: _structure                                            *)
(***************************************************************************)
\* Type precedence: controlled vocabulary, then the LLM's hint, then the value.
Type(c) ==
  IF c.param # NoParam /\ VocabType[c.param] # "none" THEN VocabType[c.param]
  ELSE IF c.hint # "none" THEN c.hint
  ELSE IF c.nums # <<>> THEN "range" ELSE "enum"

\* _NUM.findall: a hyphen before a digit is taken for a minus sign.
NumbersIn(c) ==
  [i \in DOMAIN c.nums |-> IF c.hyphen /\ i > 1 THEN -c.nums[i] ELSE c.nums[i]]

Least(nums) ==
  CHOOSE n \in {nums[i] : i \in DOMAIN nums} : \A i \in DOMAIN nums : n <= nums[i]
Greatest(nums) ==
  CHOOSE n \in {nums[i] : i \in DOMAIN nums} : \A i \in DOMAIN nums : n >= nums[i]

Condition(c, op, vmin, vmax) ==
  [param |-> c.param, condition_type |-> c.condition_type, is_structured |-> TRUE,
   kind |-> "range", op |-> op, vmin |-> vmin, vmax |-> vmax]

Unstructured(c) ==
  [param |-> c.param, condition_type |-> c.condition_type, is_structured |-> FALSE]

StructureRange(c) ==
  LET nums == NumbersIn(c)
  IN  CASE Len(nums) >= 2 -> Condition(c, "none", Least(nums), Greatest(nums))
        [] Len(nums) = 1 /\ c.op = "between" -> Condition(c, "none", nums[1], nums[1])
        [] Len(nums) = 1 /\ c.op \in {">", ">="} -> Condition(c, c.op, nums[1], NoBound)
        [] Len(nums) = 1 /\ c.op \in {"<", "<="} -> Condition(c, c.op, NoBound, nums[1])
        [] Len(nums) = 1 /\ c.op = "==" -> Condition(c, "==", nums[1], nums[1])
        [] OTHER -> Unstructured(c)   \* no number, or an operator that bounds none

StructureEnum(c) ==
  IF c.words = {} THEN Unstructured(c)
  ELSE [param |-> c.param, condition_type |-> c.condition_type, is_structured |-> TRUE,
        kind |-> "enum", op |-> IF c.op = "not_in" THEN "not_in" ELSE "in",
        words |-> c.words]

StructureBoolean(c) ==
  IF c.truth = NoTruth THEN Unstructured(c)
  ELSE [param |-> c.param, condition_type |-> c.condition_type, is_structured |-> TRUE,
        kind |-> "boolean", value |-> c.truth]

Structure(c) ==
  CASE Type(c) = "boolean" -> StructureBoolean(c)
    [] Type(c) = "enum"    -> StructureEnum(c)
    [] Type(c) = "range"   -> StructureRange(c)

(***************************************************************************)
(* wizard_matcher.py: _evaluate and _evaluate_regulation                   *)
(***************************************************************************)
\* Mutant: every bound is inclusive.
InRangeInclusive(c, u) ==
  CASE c.vmin # NoBound /\ c.vmax # NoBound -> c.vmin <= u /\ u <= c.vmax
    [] c.vmax = NoBound -> u >= c.vmin
    [] c.vmin = NoBound -> u <= c.vmax

InRange(c, u) ==
  CASE c.vmin # NoBound /\ c.vmax # NoBound -> c.vmin <= u /\ u <= c.vmax
    [] c.vmax = NoBound -> IF c.op = ">" THEN u > c.vmin ELSE u >= c.vmin
    [] c.vmin = NoBound -> IF c.op = "<" THEN u < c.vmax ELSE u <= c.vmax

Verdict(met) == IF met THEN "TRUE" ELSE "FALSE"

\* bool(u): every text but the empty one is true, also "no" and "false".
Truth(u) == IF u \in {No, Null, 0} THEN No ELSE Yes

\* float(u) and what it accepts: a truth value counts as 1 or 0.
Numeric(u) == u \in Int \cup {Yes, No}
Num(u) == IF u = Yes THEN 1 ELSE IF u = No THEN 0 ELSE u

\* Mutant: a word that the condition does not list decides nothing.
CompareListed(c, u) ==
  CASE c.kind = "boolean" -> Verdict(Truth(u) = c.value)
    [] c.kind = "enum" -> IF u \in c.words THEN Verdict(c.op = "in") ELSE "MISSING"
    [] c.kind = "range" -> IF Numeric(u) THEN Verdict(InRange(c, Num(u))) ELSE "MISSING"

Compare(c, u) ==
  CASE c.kind = "boolean" -> Verdict(Truth(u) = c.value)
    [] c.kind = "enum" -> Verdict((u \in c.words) = (c.op = "in"))
    [] c.kind = "range" -> IF Numeric(u) THEN Verdict(InRange(c, Num(u))) ELSE "MISSING"

Evaluate(c, known) ==
  IF ~c.is_structured \/ c.param = NoParam THEN "UNSTRUCTURED"
  ELSE IF known[c.param] = Absent THEN "MISSING"
  ELSE Compare(c, known[c.param])

Of(conds, type, outcome, known) ==
  {c \in conds : c.condition_type = type /\ Evaluate(c, known) = outcome}

Missing(conds, known) == {c.param : c \in {c \in conds : Evaluate(c, known) = "MISSING"}}

\* Mutant: missing attributes are not asked for.
StatusHasty(conds, known) ==
  IF conds = {} THEN "UNCERTAIN"
  ELSE IF Of(conds, "exclusion", "TRUE", known) \cup Of(conds, "inclusion", "FALSE", known) # {}
  THEN "EXCLUDED"
  ELSE IF \E c \in conds : Evaluate(c, known) = "UNSTRUCTURED" THEN "UNCERTAIN"
  ELSE "APPLIES"

Status(conds, known) ==
  IF conds = {} THEN "UNCERTAIN"
  ELSE IF Of(conds, "exclusion", "TRUE", known) \cup Of(conds, "inclusion", "FALSE", known) # {}
  THEN "EXCLUDED"
  ELSE IF \E c \in conds : Evaluate(c, known) = "UNSTRUCTURED" THEN "UNCERTAIN"
  ELSE IF Missing(conds, known) # {} THEN "POSSIBLY_APPLIES"
  ELSE "APPLIES"

(***************************************************************************)
(* A regulation is ingested; a user then queries, and supplies what is     *)
(* missing.                                                                *)
(***************************************************************************)
Extracted == {C \in SUBSET Clauses : Cardinality(C) <= MaxClauses}

Unmapped == [state |-> "unmapped", conds |-> {}]
Failed == [state |-> "failed", conds |-> {}]

Init ==
  /\ clauses \in Extracted
  /\ stored = Unmapped
  /\ attrs = [p \in Params |-> Absent]

\* MappingAgent.run.  The unstructured form of every clause is built first,
\* and its contract refuses an empty raw_text: the exception ends the job.
Map ==
  /\ stored = Unmapped
  /\ stored' = IF \E c \in clauses : ~c.raw_text THEN Failed
               ELSE [state |-> "stored", conds |-> {Structure(c) : c \in clauses}]
  /\ UNCHANGED <<clauses, attrs>>

\* wizard_matcher.py: query, once more: with an attribute added, or with one
\* changed that the last answer reported as missing.
Provide(p, u) ==
  /\ stored.state = "stored"
  /\ \/ attrs[p] = Absent
     \/ /\ Status(stored.conds, attrs) = "POSSIBLY_APPLIES"
        /\ p \in Missing(stored.conds, attrs)
  /\ attrs' = [attrs EXCEPT ![p] = u]
  /\ UNCHANGED <<clauses, stored>>

Next == Map \/ \E p \in Params : \E u \in Given[p] : Provide(p, u)

Spec == Init /\ [][Next]_vars

TypeOK ==
  /\ clauses \subseteq Clauses
  /\ stored.state \in {"unmapped", "stored", "failed"}
  /\ \A c \in stored.conds : Evaluate(c, attrs) \in Outcomes
  /\ \A p \in Params : attrs[p] \in Given[p] \cup {Absent}

(***************************************************************************)
(* Properties.  Covers is what a clause says, read as its author wrote it. *)
(***************************************************************************)
CoversOne(c, u) ==
  CASE c.op = ">"  -> u > c.nums[1]
    [] c.op = ">=" -> u >= c.nums[1]
    [] c.op = "<"  -> u < c.nums[1]
    [] c.op = "<=" -> u <= c.nums[1]
    [] OTHER -> u = c.nums[1]

Covers(c, u) ==
  CASE Type(c) = "boolean" -> u = c.truth
    [] Type(c) = "enum" -> (u \in c.words) = (c.op # "not_in")
    [] Type(c) = "range" ->
         IF Len(c.nums) = 0 THEN FALSE
         ELSE IF Len(c.nums) = 1 THEN CoversOne(c, u)
         ELSE c.nums[1] <= u /\ u <= c.nums[2]

Known(c) == c.param # NoParam /\ attrs[c.param] # Absent

Decided(c) == Known(c) /\ (Type(c) = "range" => attrs[c.param] \in Int)

Rules(c) ==   \* the clause rules the product out
  Decided(c) /\ (Covers(c, attrs[c.param]) = (c.condition_type = "exclusion"))

\* A clause whose numbers mean what _structure takes them for: no hyphen, one
\* number, or the two ends of a range.
WellWritten(c) ==
  Type(c) = "range" =>
    /\ ~c.hyphen /\ Len(c.nums) <= 2
    /\ Len(c.nums) = 2 => c.op \in {"between", "in"} /\ c.nums[1] <= c.nums[2]

\* "Values may be numbers, strings, or bools depending on the attribute's
\* value_type" (schemas/wizard.py:22-24): the user keeps to that, or enters
\* some text for a number.
Typed(c) ==
  Known(c) =>
    CASE Type(c) = "boolean" -> attrs[c.param] \in {Yes, No}
      [] Type(c) = "enum" -> attrs[c.param] \in Words \cup {Text}
      [] Type(c) = "range" -> attrs[c.param] \notin {Yes, No}

Answer == Status(stored.conds, attrs)

\* "NEVER silently drop a regulation that might apply" (wizard_matcher.py:5-6):
\* it is excluded only if a clause, as written, rules the product out.
NeverSilentlyDrops ==
  stored.state = "stored" /\ Answer = "EXCLUDED" => \E c \in clauses : Rules(c)

\* That, and a regulation applies only if every clause, as written, is known
\* to be met; for clauses that _structure can read and attributes of the types
\* that wizard_matcher.py:107-113 expects ("no" for a truth value is true).
TruthfulVerdict ==
  (stored.state = "stored" /\ \A c \in clauses : WellWritten(c) /\ Typed(c)) =>
    /\ NeverSilentlyDrops
    /\ Answer = "APPLIES" => \A c \in clauses : Decided(c) /\ ~Rules(c)

\* A definite verdict is never revised by telling the wizard more.
VerdictIsFinal ==
  [][stored.state = "stored" /\ Answer \in {"APPLIES", "EXCLUDED"} => Answer' = Answer]_vars

\* "missing_attributes: needed to confirm" (schemas/wizard.py:38): with any
\* value for each of them, a number where a range asks for one, the answer is
\* definite.
MissingSuffices ==
  stored.state = "stored" /\ Answer = "POSSIBLY_APPLIES" =>
    LET missing == Missing(stored.conds, attrs)
        ranges == {c \in stored.conds : c.is_structured /\ c.kind = "range"}
    IN  \A more \in [missing -> UNION {Given[p] : p \in missing}] :
          /\ \A p \in missing : more[p] \in Given[p]
          /\ \A c \in ranges : c.param \in missing => Numeric(more[c.param])
          => Status(stored.conds, [p \in Params |-> IF p \in missing THEN more[p] ELSE attrs[p]])
               \in {"APPLIES", "EXCLUDED"}
=============================================================================
