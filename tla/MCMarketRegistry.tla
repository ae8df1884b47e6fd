-------------------------- MODULE MCMarketRegistry ---------------------------
\* The instances of MarketRegistry that TLC checks.
EXTENDS MarketRegistry, TLC

\* One contract in two spellings, and another one.
MCContract == "0xAB" :> 1 @@ "0xab" :> 1 @@ "0xcd" :> 2

\* Processes are interchangeable.
Symmetry == Permutations(Workers)
=============================================================================
