------------------------- MODULE ApplicabilityProofs -------------------------
(***************************************************************************)
(* What the wizard's verdict means, for any number of parameters, clauses, *)
(* numbers and words: the meaning of a single condition first, then how    *)
(* Status combines them.  The invariant is that the stored conditions are  *)
(* the structured clauses and that attributes are what a user may enter.   *)
(***************************************************************************)
EXTENDS Applicability, SequenceTheorems, TLAPS

\* A user's attributes.
Proper(known) == \A p \in Params : known[p] \in Given[p] \cup {Absent}

IInv ==
  /\ clauses \subseteq Clauses
  /\ stored \in {Unmapped, Failed, [state |-> "stored", conds |-> {Structure(c) : c \in clauses}]}
  /\ attrs \in [Params -> Value \cup {Absent}]
  /\ Proper(attrs)
-----------------------------------------------------------------------------
(***************************************************************************)
(* One clause and its condition                                            *)
(***************************************************************************)
LEMMA ClauseForm ==
  ASSUME NEW c \in Clauses
  PROVE  /\ c.param \in Params \cup {NoParam}
         /\ c.condition_type \in {"inclusion", "exclusion"}
         /\ c.op \in Ops
         /\ c.nums \in Seq(Int)
         /\ c.hyphen \in BOOLEAN
         /\ c.truth \in {Yes, No, NoTruth}
         /\ Type(c) \in {"range", "enum", "boolean"}
<1>1. Clause(c) /\ VocabType \in [Params -> Types \cup {"none"}]
  BY ConstantsOK DEF ConstantsOK
<1>2. c.param # NoParam => VocabType[c.param] \in Types \cup {"none"}
  BY <1>1 DEF Clause
<1>3. Type(c) \in Types
  BY <1>1, <1>2 DEF Clause, Type, Types
<1>4. QED
  BY <1>1, <1>3 DEF Clause, Types

\* What a clause is structured into has its parameter and sense, and its type
\* as the kind, or is kept as it is.
LEMMA StructureKeeps ==
  ASSUME NEW c \in Clauses
  PROVE  /\ Structure(c).param = c.param
         /\ Structure(c).condition_type = c.condition_type
         /\ Structure(c).is_structured \in BOOLEAN
         /\ Structure(c).is_structured => Structure(c).kind = Type(c)
<1>1. CASE Type(c) = "range"
  <2>1. Structure(c) = StructureRange(c)
    BY <1>1 DEF Structure
  <2>2. CASE StructureRange(c) = Unstructured(c)
    BY <2>1, <2>2 DEF Unstructured
  <2>3. CASE \E op, vmin, vmax : StructureRange(c) = Condition(c, op, vmin, vmax)
    BY <1>1, <2>1, <2>3 DEF Condition
  <2>4. QED
    BY <2>2, <2>3 DEF StructureRange
<1>2. CASE Type(c) = "enum"
  BY <1>2 DEF Structure, StructureEnum, Unstructured
<1>3. CASE Type(c) = "boolean"
  BY <1>3 DEF Structure, StructureBoolean, Unstructured
<1>4. QED
  BY <1>1, <1>2, <1>3, ClauseForm

\* A clause covers a value or does not.
LEMMA CoversForm ==
  ASSUME NEW c \in Clauses, NEW u, Type(c) = "range" => u \in Int
  PROVE  Covers(c, u) \in BOOLEAN
<1>0. c.nums \in Seq(Int)
  BY ClauseForm
<1>1. CASE Type(c) = "range" /\ Len(c.nums) \notin {0, 1}
  <2>1. Covers(c, u) = (c.nums[1] <= u /\ u <= c.nums[2])
    BY <1>1 DEF Covers
  <2>2. QED
    BY <2>1
<1>2. CASE Type(c) = "range" /\ Len(c.nums) = 1
  <2>1. u \in Int /\ c.nums[1] \in Int
    BY <1>0, <1>2, ElementOfSeq
  <2>2. /\ (u > c.nums[1]) \in BOOLEAN /\ (u >= c.nums[1]) \in BOOLEAN
        /\ (u < c.nums[1]) \in BOOLEAN /\ (u <= c.nums[1]) \in BOOLEAN
    BY <2>1
  <2>3. \/ Covers(c, u) = (u > c.nums[1]) \/ Covers(c, u) = (u >= c.nums[1])
        \/ Covers(c, u) = (u < c.nums[1]) \/ Covers(c, u) = (u <= c.nums[1])
        \/ Covers(c, u) = (u = c.nums[1])
    BY <1>2 DEF Covers, CoversOne
  <2>4. QED
    BY <2>2, <2>3
<1>3. CASE Type(c) = "range" /\ Len(c.nums) = 0
  BY <1>3 DEF Covers
<1>4. CASE Type(c) = "enum"
  BY <1>4 DEF Covers
<1>5. CASE Type(c) = "boolean"
  BY <1>5 DEF Covers
<1>6. QED
  BY <1>1, <1>2, <1>3, <1>4, <1>5, ClauseForm

\* The ends of a range that is given in its order.
LEMMA EndsOfTwo ==
  ASSUME NEW nums \in Seq(Int), Len(nums) = 2, nums[1] <= nums[2]
  PROVE  Least(nums) = nums[1] /\ Greatest(nums) = nums[2]
<1>1. DOMAIN nums = {1, 2} /\ nums[1] \in Int /\ nums[2] \in Int
  <2>1. nums \in [1..2 -> Int] /\ DOMAIN nums = 1..2
    BY LenProperties
  <2>2. 1..2 = {1, 2}
    OBVIOUS
  <2>3. QED
    BY <2>1, <2>2
<1>2. {nums[i] : i \in DOMAIN nums} = {nums[1], nums[2]}
  BY <1>1
<1>3. Least(nums) = CHOOSE n \in {nums[1], nums[2]} : n <= nums[1] /\ n <= nums[2]
  <2>1. \A n : (\A i \in DOMAIN nums : n <= nums[i]) <=> (n <= nums[1] /\ n <= nums[2])
    BY <1>1
  <2>2. QED
    BY <1>2, <2>1, Zenon DEF Least
<1>4. Greatest(nums) = CHOOSE n \in {nums[1], nums[2]} : n >= nums[1] /\ n >= nums[2]
  <2>1. \A n : (\A i \in DOMAIN nums : n >= nums[i]) <=> (n >= nums[1] /\ n >= nums[2])
    BY <1>1
  <2>2. QED
    BY <1>2, <2>1, Zenon DEF Greatest
<1>5. \E n \in {nums[1], nums[2]} : n <= nums[1] /\ n <= nums[2]
  BY <1>1
<1>6. \E n \in {nums[1], nums[2]} : n >= nums[1] /\ n >= nums[2]
  BY <1>1
<1>7. QED
  BY <1>1, <1>3, <1>4, <1>5, <1>6

\* A range that is structured means what its clause says.
LEMMA RangeMeaning ==
  ASSUME NEW c \in Clauses, Type(c) = "range", WellWritten(c), NEW u \in Int,
         Structure(c).is_structured
  PROVE  InRange(Structure(c), u) = Covers(c, u)
<1>0. /\ c.op \in Ops /\ c.nums \in Seq(Int) /\ ~c.hyphen /\ Len(c.nums) \in {0, 1, 2}
      /\ Len(c.nums) = 2 => c.nums[1] <= c.nums[2]
  <2>1. c.nums \in Seq(Int) /\ c.op \in Ops
    BY ClauseForm
  <2>2. Len(c.nums) \in Nat /\ Len(c.nums) <= 2
    BY <2>1, LenProperties DEF WellWritten
  <2>3. \A n \in Nat : n <= 2 => n \in {0, 1, 2}
    OBVIOUS
  <2>4. QED
    BY <2>1, <2>2, <2>3 DEF WellWritten
<1>1. Structure(c) = StructureRange(c)
  BY DEF Structure
<1>2. StructureRange(c) # Unstructured(c)
  BY <1>1 DEF Unstructured
<1>3. NumbersIn(c) = c.nums
  BY <1>0 DEF NumbersIn
<1>4. CASE Len(c.nums) = 2
  <2>1. StructureRange(c) = Condition(c, "none", c.nums[1], c.nums[2])
    BY <1>0, <1>3, <1>4, EndsOfTwo DEF StructureRange
  <2>2. c.nums[1] \in Int /\ c.nums[2] \in Int
    BY <1>0, <1>4
  <2>3. QED
    BY <1>0, <1>1, <1>4, <2>1, <2>2, ValuesApart DEF Condition, InRange, Covers, ValuesApart
<1>5. CASE Len(c.nums) = 1
  <2> DEFINE n == c.nums[1]
  <2>1. n \in Int /\ n # NoBound
    BY <1>0, <1>5, ValuesApart DEF ValuesApart
  <2>2. CASE c.op \in {"between", "=="}
    <3>1. StructureRange(c) = Condition(c, IF c.op = "==" THEN "==" ELSE "none", n, n)
      BY <1>3, <1>5, <2>2 DEF StructureRange
    <3>2. Covers(c, u) = (u = n)
      BY <1>5, <2>2 DEF Covers, CoversOne
    <3>3. QED
      BY <1>1, <2>1, <3>1, <3>2 DEF Condition, InRange
  <2>3. CASE c.op \in {">", ">="}
    <3>1. StructureRange(c) = Condition(c, c.op, n, NoBound)
      BY <1>3, <1>5, <2>3 DEF StructureRange
    <3>2. Covers(c, u) = IF c.op = ">" THEN u > n ELSE u >= n
      BY <1>5, <2>3 DEF Covers, CoversOne
    <3>3. QED
      BY <1>1, <2>1, <2>3, <3>1, <3>2 DEF Condition, InRange
  <2>4. CASE c.op \in {"<", "<="}
    <3>1. StructureRange(c) = Condition(c, c.op, NoBound, n)
      BY <1>3, <1>5, <2>4 DEF StructureRange
    <3>2. Covers(c, u) = IF c.op = "<" THEN u < n ELSE u <= n
      BY <1>5, <2>4 DEF Covers, CoversOne
    <3>3. QED
      BY <1>1, <2>1, <2>4, <3>1, <3>2 DEF Condition, InRange
  <2>5. CASE c.op \in {"in", "not_in", "other"}
    BY <1>2, <1>3, <1>5, <2>5 DEF StructureRange
  <2>6. QED
    BY <1>0, <2>2, <2>3, <2>4, <2>5 DEF Ops
<1>6. CASE Len(c.nums) = 0
  BY <1>2, <1>3, <1>6 DEF StructureRange
<1>7. QED
  BY <1>0, <1>4, <1>5, <1>6

\* What Evaluate answers, by the condition and by what is known.
LEMMA OutcomeOf ==
  ASSUME NEW c \in Clauses, NEW known
  PROVE  LET cond == Structure(c)
             u    == known[c.param]
             bare == ~cond.is_structured \/ c.param = NoParam
             odd  == u = Absent \/ (Type(c) = "range" /\ ~Numeric(u))
         IN  /\ bare => Evaluate(cond, known) = "UNSTRUCTURED"
             /\ ~bare /\ odd => Evaluate(cond, known) = "MISSING"
             /\ ~bare /\ ~odd => Evaluate(cond, known) \in {"TRUE", "FALSE"}
<1> DEFINE cond == Structure(c)
           u == known[c.param]
<1>1. /\ cond.param = c.param /\ cond.is_structured \in BOOLEAN
      /\ cond.is_structured => cond.kind = Type(c)
  BY StructureKeeps
<1>2. \A met : Verdict(met) \in {"TRUE", "FALSE"}
  BY DEF Verdict
<1>3. CASE ~cond.is_structured \/ c.param = NoParam
  BY <1>1, <1>3 DEF Evaluate, Compare
<1>4. CASE cond.is_structured /\ c.param # NoParam /\ u = Absent
  BY <1>1, <1>4 DEF Evaluate, Compare
<1>5. CASE cond.is_structured /\ c.param # NoParam /\ u # Absent
  <2>1. CASE Type(c) = "range"
    <3>1. Evaluate(cond, known)
            = IF Numeric(u) THEN Verdict(InRange(cond, Num(u))) ELSE "MISSING"
      BY <1>1, <1>5, <2>1 DEF Evaluate, Compare
    <3>2. QED
      BY <1>2, <1>5, <2>1, <3>1
  <2>2. CASE Type(c) = "enum"
    <3>1. Evaluate(cond, known) = Verdict((u \in cond.words) = (cond.op = "in"))
      BY <1>1, <1>5, <2>2 DEF Evaluate, Compare
    <3>2. QED
      BY <1>2, <1>5, <2>2, <3>1
  <2>3. CASE Type(c) = "boolean"
    <3>1. Evaluate(cond, known) = Verdict(Truth(u) = cond.value)
      BY <1>1, <1>5, <2>3 DEF Evaluate, Compare
    <3>2. QED
      BY <1>2, <1>5, <2>3, <3>1
  <2>4. QED
    BY <2>1, <2>2, <2>3, ClauseForm
<1>6. QED
  BY <1>1, <1>3, <1>4, <1>5

\* A condition that is evaluated says what its clause says, if that can be read
\* and the attribute has its type.
LEMMA ConditionMeaning ==
  ASSUME NEW c \in Clauses, WellWritten(c), Typed(c), Proper(attrs),
         Evaluate(Structure(c), attrs) \notin {"UNSTRUCTURED", "MISSING"}
  PROVE  /\ Decided(c)
         /\ Evaluate(Structure(c), attrs) = Verdict(Covers(c, attrs[c.param]))
<1> DEFINE cond == Structure(c)
           u == attrs[c.param]
<1>1. /\ cond.param = c.param /\ cond.is_structured /\ cond.kind = Type(c)
      /\ c.param # NoParam /\ u # Absent
      /\ Type(c) = "range" => Numeric(u)
  BY StructureKeeps, OutcomeOf
<1>2. Known(c)
  BY <1>1 DEF Known
<1>3. CASE Type(c) = "range"
  <2>1. u \in Int
    BY <1>1, <1>2, <1>3 DEF Typed, Numeric
  <2>2. Num(u) = u
    BY <2>1, ValuesApart DEF Num, ValuesApart
  <2>3. InRange(cond, u) = Covers(c, u)
    BY <1>1, <1>3, <2>1, RangeMeaning
  <2>4. Evaluate(cond, attrs) = Verdict(InRange(cond, u))
    BY <1>1, <1>3, <2>2 DEF Evaluate, Compare
  <2>5. QED
    BY <1>2, <2>1, <2>3, <2>4 DEF Decided
<1>4. CASE Type(c) = "enum"
  <2>1. cond.words = c.words /\ (cond.op = "in" <=> c.op # "not_in")
    BY <1>1, <1>4 DEF Structure, StructureEnum, Unstructured
  <2>2. Evaluate(cond, attrs) = Verdict((u \in c.words) = (cond.op = "in"))
    BY <1>1, <1>4, <2>1 DEF Evaluate, Compare
  <2>3. Covers(c, u) = ((u \in c.words) = (c.op # "not_in"))
    BY <1>4 DEF Covers
  <2>4. QED
    BY <1>2, <1>4, <2>1, <2>2, <2>3 DEF Decided
<1>5. CASE Type(c) = "boolean"
  <2>1. cond.value = c.truth
    BY <1>1, <1>5 DEF Structure, StructureBoolean, Unstructured
  <2>2. u \in {Yes, No}
    BY <1>2, <1>5 DEF Typed
  <2>3. Yes \notin {No, Null, 0}
    <3>1. Yes # No /\ Yes # Null /\ Yes \notin Int
      BY ValuesApart DEF ValuesApart
    <3>2. QED
      BY <3>1
  <2>4. Truth(u) = u
    BY <2>2, <2>3 DEF Truth
  <2>5. Evaluate(cond, attrs) = Verdict(Truth(u) = cond.value)
    BY <1>1, <1>5 DEF Evaluate, Compare
  <2>6. QED
    BY <1>2, <1>5, <2>1, <2>4, <2>5 DEF Covers, Decided
<1>6. QED
  BY <1>3, <1>4, <1>5, ClauseForm

\* What has been decided about a condition depends on its own attribute alone.
LEMMA OutcomeStays ==
  ASSUME NEW c \in Clauses, NEW known, NEW more,
         c.param # NoParam => more[c.param] = known[c.param]
  PROVE  Evaluate(Structure(c), more) = Evaluate(Structure(c), known)
<1>1. Structure(c).param = c.param
  BY StructureKeeps
<1>2. CASE c.param = NoParam
  BY <1>1, <1>2 DEF Evaluate
<1>3. CASE c.param # NoParam
  BY <1>1, <1>3 DEF Evaluate
<1>4. QED
  BY <1>2, <1>3
-----------------------------------------------------------------------------
(***************************************************************************)
(* The invariant                                                           *)
(***************************************************************************)
LEMMA Invariance == Spec => []IInv
<1>1. Init => IInv
  <2> SUFFICES ASSUME Init PROVE IInv
    OBVIOUS
  <2>1. clauses \subseteq Clauses
    BY DEF Init, Extracted
  <2>2. attrs \in [Params -> Value \cup {Absent}]
    BY DEF Init
  <2>3. Proper(attrs)
    BY DEF Init, Proper
  <2>4. stored = Unmapped
    BY DEF Init
  <2>5. QED
    BY <2>1, <2>2, <2>3, <2>4 DEF IInv
<1>2. IInv /\ [Next]_vars => IInv'
  <2> SUFFICES ASSUME IInv, [Next]_vars PROVE IInv'
    OBVIOUS
  <2>1. CASE Map
    <3>1. /\ UNCHANGED <<clauses, attrs>>
          /\ stored' \in {Failed, [state |-> "stored", conds |-> {Structure(c) : c \in clauses}]}
      BY <2>1 DEF Map
    <3>2. {Structure(c) : c \in clauses}' = {Structure(c) : c \in clauses}
      BY <3>1
    <3>3. QED
      BY <3>1, <3>2 DEF IInv
  <2>2. ASSUME NEW p \in Params, NEW u \in Given[p], Provide(p, u) PROVE IInv'
    <3>1. /\ attrs' = [attrs EXCEPT ![p] = u]
          /\ UNCHANGED <<clauses, stored>>
      BY <2>2 DEF Provide
    <3>2. u \in Value
      BY ConstantsOK DEF ConstantsOK
    <3>3. attrs' \in [Params -> Value \cup {Absent}]
      BY <3>1, <3>2 DEF IInv
    <3>4. Proper(attrs')
      BY <3>1 DEF IInv, Proper
    <3>5. QED
      BY <3>1, <3>3, <3>4 DEF IInv
  <2>3. CASE UNCHANGED vars
    BY <2>3 DEF IInv, vars, Proper
  <2>4. QED
    BY <2>1, <2>2, <2>3 DEF Next
<1>3. QED
  BY <1>1, <1>2, PTL DEF Spec

\* What is stored once it is stored.
LEMMA StoredForm ==
  ASSUME IInv, stored.state = "stored"
  PROVE  /\ stored.conds = {Structure(c) : c \in clauses}
         /\ clauses \subseteq Clauses
         /\ Proper(attrs)
<1>1. stored # Unmapped /\ stored # Failed
  BY DEF Unmapped, Failed
<1>2. QED
  BY <1>1 DEF IInv

\* The store is in one of its states, and every stored condition has one of the
\* four outcomes of condition_outcome, whatever is known of the product.
THEOREM TypeCorrect == Spec => []TypeOK
<1>1. IInv => TypeOK
  <2> SUFFICES ASSUME IInv PROVE TypeOK
    OBVIOUS
  <2>1. stored.state \in {"unmapped", "stored", "failed"}
    BY DEF IInv, Unmapped, Failed
  <2>2. \A c \in stored.conds : Evaluate(c, attrs) \in Outcomes
    <3>1. CASE stored \in {Unmapped, Failed}
      BY <3>1 DEF Unmapped, Failed
    <3>2. CASE stored.conds = {Structure(c) : c \in clauses}
      <4> SUFFICES ASSUME NEW c \in clauses PROVE Evaluate(Structure(c), attrs) \in Outcomes
        BY <3>2
      <4>1. c \in Clauses
        BY DEF IInv
      <4>2. Structure(c).is_structured \in BOOLEAN
        BY <4>1, StructureKeeps
      <4>3. QED
        BY <4>1, <4>2, OutcomeOf DEF Outcomes
    <3>3. QED
      BY <3>1, <3>2 DEF IInv
  <2>3. QED
    BY <2>1, <2>2 DEF IInv, TypeOK, Proper
<1>2. QED
  BY <1>1, Invariance, PTL
-----------------------------------------------------------------------------
(***************************************************************************)
(* The verdict                                                             *)
(***************************************************************************)
\* The condition excludes the regulation.
Decisive(c, known) ==
  Evaluate(c, known) = IF c.condition_type = "exclusion" THEN "TRUE" ELSE "FALSE"

\* What Status answers, by the outcomes of the conditions.
LEMMA StatusForm ==
  ASSUME NEW conds, NEW known, \A c \in conds : c.condition_type \in {"inclusion", "exclusion"}
  PROVE  /\ Status(conds, known) = "EXCLUDED" <=> \E c \in conds : Decisive(c, known)
         /\ Status(conds, known) = "APPLIES" <=>
              /\ conds # {}
              /\ \A c \in conds : /\ ~Decisive(c, known)
                                   /\ Evaluate(c, known) \notin {"UNSTRUCTURED", "MISSING"}
         /\ Status(conds, known) = "POSSIBLY_APPLIES" =>
              conds # {} /\ \A c \in conds : Evaluate(c, known) # "UNSTRUCTURED"
<1>1. Of(conds, "exclusion", "TRUE", known) \cup Of(conds, "inclusion", "FALSE", known)
        = {c \in conds : Decisive(c, known)}
  BY DEF Of, Decisive
<1>2. Missing(conds, known) # {} <=> \E c \in conds : Evaluate(c, known) = "MISSING"
  BY DEF Missing
<1>3. QED
  BY <1>1, <1>2 DEF Status

\* "NEVER silently drop a regulation that might apply" (wizard_matcher.py:5-6):
\* for any regulation and any product, an exclusion or a confirmation is true
\* to the clauses, where _structure can read them and the attributes have the
\* types that _evaluate expects.
THEOREM VerdictsAreTrue == Spec => []TruthfulVerdict
<1>1. IInv => TruthfulVerdict
  <2> SUFFICES ASSUME IInv, stored.state = "stored",
                      \A c \in clauses : WellWritten(c) /\ Typed(c)
               PROVE  /\ Answer = "EXCLUDED" => \E c \in clauses : Rules(c)
                      /\ Answer = "APPLIES" => \A c \in clauses : Decided(c) /\ ~Rules(c)
    BY DEF TruthfulVerdict, NeverSilentlyDrops
  <2>1. /\ stored.conds = {Structure(c) : c \in clauses}
        /\ clauses \subseteq Clauses /\ Proper(attrs)
    BY StoredForm
  <2>2. \A c \in stored.conds : c.condition_type \in {"inclusion", "exclusion"}
    BY <2>1, StructureKeeps, ClauseForm
  <2>3. ASSUME NEW c \in clauses, Evaluate(Structure(c), attrs) \notin {"UNSTRUCTURED", "MISSING"}
        PROVE  /\ Decided(c)
               /\ Rules(c) <=> Decisive(Structure(c), attrs)
    <3>1. c \in Clauses
      BY <2>1
    <3>2. Decided(c) /\ Evaluate(Structure(c), attrs) = Verdict(Covers(c, attrs[c.param]))
      BY <2>1, <2>3, <3>1, ConditionMeaning
    <3>3. /\ Structure(c).condition_type = c.condition_type
          /\ c.condition_type \in {"inclusion", "exclusion"}
      BY <3>1, StructureKeeps, ClauseForm
    <3>4. Covers(c, attrs[c.param]) \in BOOLEAN
      BY <3>1, <3>2, CoversForm DEF Decided
    <3>5. QED
      BY <3>2, <3>3, <3>4 DEF Rules, Verdict, Decisive
  <2>4. ASSUME Answer = "EXCLUDED" PROVE \E c \in clauses : Rules(c)
    <3>1. PICK cond \in stored.conds : Decisive(cond, attrs)
      BY <2>2, <2>4, StatusForm DEF Answer
    <3>2. PICK c \in clauses : cond = Structure(c)
      BY <2>1
    <3>3. Evaluate(Structure(c), attrs) \notin {"UNSTRUCTURED", "MISSING"}
      BY <3>1, <3>2 DEF Decisive
    <3>4. QED
      BY <2>3, <3>1, <3>2, <3>3
  <2>5. ASSUME Answer = "APPLIES", NEW c \in clauses PROVE Decided(c) /\ ~Rules(c)
    <3>1. Structure(c) \in stored.conds
      BY <2>1
    <3>2. /\ Evaluate(Structure(c), attrs) \notin {"UNSTRUCTURED", "MISSING"}
          /\ ~Decisive(Structure(c), attrs)
      BY <2>2, <2>5, <3>1, StatusForm DEF Answer
    <3>3. QED
      BY <2>3, <3>2
  <2>6. QED
    BY <2>4, <2>5
<1>2. QED
  BY <1>1, Invariance, PTL

\* A definite verdict is never revised by telling the wizard more, however
\* many attributes and clauses there are.
THEOREM VerdictsAreFinal == Spec => VerdictIsFinal
<1> DEFINE Final == stored.state = "stored" /\ Answer \in {"APPLIES", "EXCLUDED"} => Answer' = Answer
<1>1. IInv /\ [Next]_vars => [Final]_vars
  <2> SUFFICES ASSUME IInv, Next, stored.state = "stored", Answer \in {"APPLIES", "EXCLUDED"}
               PROVE  Answer' = Answer
    BY DEF Final
  <2>1. stored # Unmapped
    BY DEF Unmapped
  <2>2. PICK p \in Params : \E u \in Given[p] : Provide(p, u)
    BY <2>1 DEF Next, Map
  <2>3. /\ attrs[p] = Absent /\ stored' = stored
        /\ \A q \in Params : q # p => attrs'[q] = attrs[q]
    BY <2>2 DEF Provide, IInv, Answer
  <2>4. /\ stored.conds = {Structure(c) : c \in clauses}
        /\ clauses \subseteq Clauses /\ Proper(attrs)
    BY StoredForm
  <2>5. \A c \in stored.conds : c.condition_type \in {"inclusion", "exclusion"}
    BY <2>4, StructureKeeps, ClauseForm
  <2>6. ASSUME NEW cond \in stored.conds, Evaluate(cond, attrs) # "MISSING"
        PROVE  Evaluate(cond, attrs') = Evaluate(cond, attrs)
    <3>1. PICK c \in clauses : cond = Structure(c)
      BY <2>4
    <3>2. c \in Clauses /\ c.param \in Params \cup {NoParam}
      BY <2>4, ClauseForm
    <3>3. CASE c.param \notin {p, NoParam}
      BY <2>3, <3>1, <3>2, <3>3, OutcomeStays
    <3>4. CASE c.param \in {p, NoParam} \/ ~cond.is_structured
      <4>1. ~cond.is_structured \/ c.param = NoParam
        BY <2>3, <2>6, <3>1, <3>2, <3>4, OutcomeOf
      <4>2. QED
        BY <3>1, <3>2, <4>1, OutcomeOf
    <3>5. QED
      BY <3>3, <3>4
  <2>7. Answer = Status(stored.conds, attrs) /\ Answer' = Status(stored.conds, attrs')
    BY <2>3 DEF Answer
  <2>8. CASE Answer = "EXCLUDED"
    <3>1. PICK c \in stored.conds : Decisive(c, attrs)
      BY <2>5, <2>7, <2>8, StatusForm
    <3>2. Decisive(c, attrs')
      BY <2>6, <3>1 DEF Decisive
    <3>3. QED
      BY <2>5, <2>7, <2>8, <3>2, StatusForm
  <2>9. CASE Answer = "APPLIES"
    <3>1. /\ stored.conds # {}
          /\ \A c \in stored.conds :
               /\ Evaluate(c, attrs) \notin {"UNSTRUCTURED", "MISSING"}
               /\ ~Decisive(c, attrs)
      BY <2>5, <2>7, <2>9, StatusForm
    <3>2. \A c \in stored.conds : Evaluate(c, attrs') = Evaluate(c, attrs)
      BY <2>6, <3>1
    <3>3. \A c \in stored.conds :
               /\ Evaluate(c, attrs') \notin {"UNSTRUCTURED", "MISSING"}
               /\ ~Decisive(c, attrs')
      BY <3>1, <3>2 DEF Decisive
    <3>4. QED
      BY <2>5, <2>7, <2>9, <3>1, <3>3, StatusForm
  <2>10. QED
    BY <2>8, <2>9
<1>2. QED
  BY <1>1, Invariance, PTL DEF Spec, VerdictIsFinal

\* "missing_attributes: needed to confirm" (schemas/wizard.py:38): they suffice
\* for any number of clauses, whatever their values turn out to be.
THEOREM MissingIsEnough == Spec => []MissingSuffices
<1>1. IInv => MissingSuffices
  <2> DEFINE missing == Missing(stored.conds, attrs)
             ranges == {c \in stored.conds : c.is_structured /\ c.kind = "range"}
  <2> SUFFICES ASSUME IInv, stored.state = "stored", Answer = "POSSIBLY_APPLIES",
                      NEW more \in [missing -> UNION {Given[p] : p \in missing}],
                      \A p \in missing : more[p] \in Given[p],
                      \A c \in ranges : c.param \in missing => Numeric(more[c.param])
               PROVE  Status(stored.conds, [p \in Params |-> IF p \in missing THEN more[p]
                                                              ELSE attrs[p]])
                        \in {"APPLIES", "EXCLUDED"}
    BY DEF MissingSuffices
  <2> DEFINE known == [p \in Params |-> IF p \in missing THEN more[p] ELSE attrs[p]]
  <2>1. /\ stored.conds = {Structure(c) : c \in clauses}
        /\ clauses \subseteq Clauses
    BY StoredForm
  <2>2. \A c \in stored.conds : c.condition_type \in {"inclusion", "exclusion"}
    BY <2>1, StructureKeeps, ClauseForm
  <2>3. /\ stored.conds # {}
        /\ \A c \in stored.conds : Evaluate(c, attrs) # "UNSTRUCTURED"
    BY <2>2, StatusForm DEF Answer
  <2>4. missing = {c.param : c \in {c \in stored.conds : Evaluate(c, attrs) = "MISSING"}}
    BY DEF Missing
  <2>5. \A p \in Params : Absent \notin Given[p]
    BY ConstantsOK, ValuesApart DEF ConstantsOK, ValuesApart
  <2>6. ASSUME NEW cond \in stored.conds
        PROVE  Evaluate(cond, known) \notin {"UNSTRUCTURED", "MISSING"}
    <3>1. PICK c \in clauses : cond = Structure(c)
      BY <2>1
    <3>2. /\ c \in Clauses /\ c.param \in Params \cup {NoParam}
          /\ cond.param = c.param /\ cond.is_structured \in BOOLEAN
          /\ cond.is_structured => cond.kind = Type(c)
      BY <2>1, <3>1, StructureKeeps, ClauseForm
    <3>3. cond.is_structured /\ c.param \in Params
      BY <2>3, <3>1, <3>2, OutcomeOf
    <3>4. CASE c.param \in missing
      <4>1. known[c.param] = more[c.param] /\ more[c.param] # Absent
        BY <2>5, <3>3, <3>4
      <4>2. Type(c) = "range" => Numeric(known[c.param])
        BY <3>2, <3>3, <3>4, <4>1
      <4>3. c.param # NoParam
        BY <3>3, ValuesApart DEF ValuesApart
      <4>4. QED
        BY <3>1, <3>2, <3>3, <4>1, <4>2, <4>3, OutcomeOf
    <3>5. CASE c.param \notin missing
      <4>1. Evaluate(cond, attrs) # "MISSING"
        BY <2>4, <3>2, <3>5
      <4>2. known[c.param] = attrs[c.param]
        BY <3>3, <3>5
      <4>3. Evaluate(cond, known) = Evaluate(cond, attrs)
        BY <3>1, <3>2, <4>2, OutcomeStays
      <4>4. QED
        BY <2>3, <4>1, <4>3
    <3>6. QED
      BY <3>4, <3>5
  <2> HIDE DEF known, missing, ranges
  <2>7. Status(stored.conds, known) \in {"APPLIES", "EXCLUDED"}
    BY <2>2, <2>3, <2>6, StatusForm
  <2>8. QED
    BY <2>7 DEF known
<1>2. QED
  BY <1>1, Invariance, PTL
=============================================================================
