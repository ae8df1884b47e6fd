-------------------------- MODULE MCPredictOrders ---------------------------
\* The instance of PredictOrders that TLC checks: a slippage of a half, and one
\* that nothing is left after.
EXTENDS PredictOrders

MCSlippages == {5000, 20000}
=============================================================================
