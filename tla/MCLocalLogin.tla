---------------------------- MODULE MCLocalLogin ----------------------------
(***************************************************************************)
(* A small instance of LocalLogin: a tenant that is still empty, and one   *)
(* with two owners of whom one has a password. The logins differ in        *)
(* nothing but their names, and no property tells them apart.              *)
(***************************************************************************)
EXTENDS LocalLogin, TLC

CONSTANTS ann, ben

Everybody == {ann, ben}
EmptyOrShared == {[x \in Everybody |-> "none"], [x \in Everybody |-> "owner"]}
OneOfThem == {ann}

LoginSymmetry == Permutations(Requests)
=============================================================================
