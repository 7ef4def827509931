-------------------------- MODULE MCBudgetExchange --------------------------
(* Instances of BudgetExchange for TLC: the Pods are interchangeable. *)
EXTENDS BudgetExchange, TLC

PodSymmetry == Permutations(Pods)
=============================================================================
