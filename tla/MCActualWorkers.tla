--------------------------- MODULE MCActualWorkers ---------------------------
(***************************************************************************)
(* Small instances of ActualWorkers. The callers are interchangeable: they *)
(* differ in nothing but their names, and no property tells them apart.    *)
(***************************************************************************)
EXTENDS ActualWorkers, TLC

CallerSymmetry == Permutations(Callers)

AllKinds == Kinds
NoKind == {}
==============================================================================
