--------------------------- MODULE MCSynthOrders ----------------------------
\* The instance of SynthOrders that TLC checks: amounts of every sign.
EXTENDS SynthOrders, TLC

MCAmounts == {-1, 0, 1}

\* Feeds are interchangeable.
Symmetry == Permutations(Feeds)
=============================================================================
