----------------------------- MODULE MCAiLedger -----------------------------
(***************************************************************************)
(* A small instance of AiLedger: one question and a review in two          *)
(* languages, one of them under edited instructions, beside a spare version *)
(* that contains the markers of the data fence.                            *)
(***************************************************************************)
EXTENDS AiLedger, TLC

CONSTANTS august, en, fr, edited, spare

OneQuestion == {august}
TwoLanguages == {en, fr}
TwoBodies == {edited, spare}
OneSpare == {spare}
Nothing == {}
OneKind == {"category_guess"}

EditedEnglish ==
  [x \in Questions \cup Reviews |-> IF x = en THEN edited ELSE BuiltIn]

CallerSymmetry == Permutations(Callers)
==============================================================================
