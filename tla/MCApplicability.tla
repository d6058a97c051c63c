-------------------------- MODULE MCApplicability ---------------------------
(***************************************************************************)
(* Instances of Applicability: a voltage and a radio module, which the      *)
(* vocabulary knows, and an intended use, which it does not, with clauses  *)
(* of every shape about them.                                              *)
(***************************************************************************)
EXTENDS Applicability, TLC

CONSTANTS voltage, use, radio, child, adult

AllParams == {voltage, use, radio}
UseWords == {child, adult}

Vocabulary == (voltage :> "range") @@ (use :> "none") @@ (radio :> "boolean")

Answers == (voltage :> 0..3 \cup {Yes, Text, Null}) @@ (use :> {child, adult, 1, Text, Null})
             @@ (radio :> {Yes, No, Text, Null})

Volt(type, op, nums) ==
  [param |-> voltage, condition_type |-> type, raw_text |-> TRUE, hint |-> "none", op |-> op,
   nums |-> nums, hyphen |-> FALSE, words |-> {}, truth |-> NoTruth]
Use(type, hint, op, nums, words) ==
  [param |-> use, condition_type |-> type, raw_text |-> TRUE, hint |-> hint, op |-> op,
   nums |-> nums, hyphen |-> FALSE, words |-> words, truth |-> NoTruth]
Radio(type, truth) ==
  [param |-> radio, condition_type |-> type, raw_text |-> TRUE, hint |-> "enum", op |-> "in",
   nums |-> <<>>, hyphen |-> FALSE, words |-> {child}, truth |-> truth]

Hyphened == [Volt("inclusion", "between", <<1, 3>>) EXCEPT !.hyphen = TRUE]

AllClauses ==
  {Volt("inclusion", "between", <<1, 3>>), Volt("inclusion", ">", <<1>>),
   Volt("inclusion", ">=", <<2>>), Volt("exclusion", "<", <<2>>),
   Volt("exclusion", "<=", <<1>>), Volt("inclusion", "==", <<2>>),
   Volt("inclusion", "in", <<2>>), Volt("inclusion", "between", <<2>>),
   Volt("inclusion", "==", <<>>), Volt("inclusion", "in", <<2, 1, 3>>), Hyphened,
   Use("inclusion", "none", "in", <<>>, {child}), Use("exclusion", "enum", "not_in", <<2>>, {child}),
   Use("inclusion", "none", "<", <<2>>, {adult}), Use("inclusion", "enum", "other", <<>>, {}),
   [Use("inclusion", "none", "in", <<>>, {child}) EXCEPT !.raw_text = FALSE],
   [Use("exclusion", "none", "in", <<>>, {child}) EXCEPT !.param = NoParam],
   Radio("inclusion", Yes), Radio("exclusion", No), Radio("inclusion", NoTruth)}

HyphenClauses == {Hyphened}
=============================================================================
