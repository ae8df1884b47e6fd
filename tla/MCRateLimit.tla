----------------------------- MODULE MCRateLimit -----------------------------
\* The instance of RateLimit, with the count of RequestCount, that TLC checks.
EXTENDS RequestCount, TLC

\* Half a token per tick in the default tier, a whole one in the other.
MCRate == "BASIC" :> 1 @@ "ADVANCED" :> 2
MCTiers == {"BASIC", "ADVANCED"}
=============================================================================
