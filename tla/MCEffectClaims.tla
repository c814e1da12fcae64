--------------------------- MODULE MCEffectClaims ---------------------------
EXTENDS EffectClaims, TLC

\* One step of each retry policy, in the order of workloads/echo.
MCPlan == <<"reserve", "announce">>

Symmetry == Permutations(Workers)
=============================================================================
