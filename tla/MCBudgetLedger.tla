--------------------------- MODULE MCBudgetLedger ---------------------------
EXTENDS BudgetLedger, TLC

CONSTANTS a, b, c

\* Any two calls fit under the higher ceiling, not all three.
MCEstimate == (a :> 2) @@ (b :> 3) @@ (c :> 3)
=============================================================================
