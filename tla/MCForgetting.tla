---------------------------- MODULE MCForgetting ----------------------------
(* A finite instance of Forgetting for TLC. *)
EXTENDS Forgetting, TLC

CONSTANT m1

OneMemory == {m1}
OneRank == m1 :> 1

Symmetric == Permutations(Tasks)
=============================================================================
