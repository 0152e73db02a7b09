--------------------------- MODULE MCBudgetLedger ---------------------------
(* A small instance of BudgetLedger. *)
EXTENDS BudgetLedger, TLC

CallSymmetry == Permutations(Calls)
=============================================================================
