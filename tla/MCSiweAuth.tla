----------------------------- MODULE MCSiweAuth ------------------------------
\* The instance of SiweAuth that TLC checks.
EXTENDS SiweAuth, TLC

\* Workers, nonces and wallets are interchangeable.
Symmetry == Permutations(Workers) \cup Permutations(Nonces) \cup Permutations(Wallets)
=============================================================================
