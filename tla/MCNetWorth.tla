----------------------------- MODULE MCNetWorth -----------------------------
(***************************************************************************)
(* A small instance of NetWorth: two accounts in Actual and one in         *)
(* Ghostfolio, so that a group can lose an account to another group.       *)
(***************************************************************************)
EXTENDS NetWorth, TLC

AccountSymmetry == Permutations(Actual)
=============================================================================
