----------------------------- MODULE MCProposals -----------------------------
(***************************************************************************)
(* A small instance of Proposals: one target of each kind, since proposals *)
(* about different targets share nothing but the id counter.               *)
(***************************************************************************)
EXTENDS Proposals, TLC

CONSTANTS meta, transaction, budget

OneMeta == {meta}
OneTransaction == {transaction}
OneBudget == {budget}
Nothing == {}

ActorSymmetry == Permutations(Makers) \cup Permutations(Appliers)
==============================================================================
