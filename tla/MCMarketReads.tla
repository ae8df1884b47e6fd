---------------------------- MODULE MCMarketReads ----------------------------
(* Small windows for MarketReads: limits below and above the window, and ids   *)
(* for several pages and batches.                                              *)
EXTENDS MarketReads

CONSTANTS m1, m2

MCLimits == {1, 2, 5}

\* The markets share the symbols of one side, and not those of the other.
MCAxUsdFirst == {<<m1, "yes">>, <<m2, "yes">>, <<m1, "no">>}
=============================================================================
