------------------------------ MODULE MCComments -----------------------------
\* The instance of Comments that TLC checks.
EXTENDS Comments, TLC

\* One person whose wallet comes in two spellings, and another one.
MCPerson == "0xA" :> 1 @@ "0xa" :> 1 @@ "0xb" :> 2

\* Processes are interchangeable, and so are markets.
Symmetry == Permutations(Workers) \cup Permutations(Markets)
=============================================================================
