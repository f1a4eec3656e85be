------------------------- MODULE MCBudgetEnforcement -------------------------
(* Instances of BudgetEnforcement for TLC. *)
EXTENDS BudgetEnforcement, TLC

CONSTANT MCPeriodLength


\* Every task has the same period; which task is which is then immaterial.
MCPeriod == [t \in Task |-> MCPeriodLength]
MCSymmetry == Permutations(Task)
=============================================================================
