------------------------------ MODULE MCBackup ------------------------------
(***************************************************************************)
(* A small instance of Backup: one name without a date among the days,     *)
(* which may be there or not.                                              *)
(***************************************************************************)
EXTENDS Backup, TLC

SecondDay == {2}
JobSymmetry == Permutations(Jobs)
=============================================================================
