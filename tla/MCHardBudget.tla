---------------------------- MODULE MCHardBudget ----------------------------
(* Instances of HardBudget for TLC: the policy ladder of its runs. *)
EXTENDS HardBudget, TLC

Blocks == {[at |-> 100, action |-> "block"]}
CallerSymmetry == Permutations(Namespaces)
=============================================================================
