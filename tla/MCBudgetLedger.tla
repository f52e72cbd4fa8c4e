--------------------------- MODULE MCBudgetLedger ---------------------------
(* BudgetLedger for TLC: three dispatches compete for two worker slots and  *)
(* pools that two large reservations would overdraw.                        *)
EXTENDS BudgetLedger

MCAllowance == [tokens : {0, 1, 2}, cost : {1, 2}]
=============================================================================
