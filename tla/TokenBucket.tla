----------------------------- MODULE TokenBucket -----------------------------
(***************************************************************************)
(* What the rate limiter promises: every address has one token bucket that *)
(* is refilled all the time, whose size follows the tier last presented    *)
(* from that address, and a request is refused only if the bucket does not *)
(* hold a token.  No bucket is ever created, replaced or thrown away.      *)
(***************************************************************************)
EXTENDS Naturals

CONSTANTS
  Ips,          \* client addresses
  Tiers,        \* RateTier
  DefaultTier,  \* default_tier of the middleware
  NoToken,      \* a request without a valid access token
  Rate,         \* refill per clock tick and tier, in fractions of a token
  Period,       \* clock ticks a bucket takes to fill
  Cost,         \* the fractions that make one token
  None          \* no address

VARIABLES
  tier,      \* tier of each address
  level,     \* content of each bucket
  decision   \* the last decision: address and status code, 200 for a request passed on

bucketVars == <<tier, level, decision>>

Capacity(t) == Rate[t] * Period

\* Levels never exceed the capacity of the bucket.
AtMost(n, cap) == IF n < cap THEN n ELSE cap

BucketInit ==
  /\ tier = [ip \in Ips |-> DefaultTier]
  /\ level = [ip \in Ips |-> Capacity(DefaultTier)]
  /\ decision = [ip |-> None, status |-> 200]

\* One tick of the clock refills every bucket.
Refill ==
  /\ level' = [ip \in Ips |-> AtMost(level[ip] + Rate[tier[ip]], Capacity(tier[ip]))]
  /\ UNCHANGED <<tier, decision>>

\* A request.  A token of another size of bucket replaces it by a full one.
Decide(ip, claim) ==
  LET t == IF claim = NoToken THEN tier[ip] ELSE claim
      before == IF Capacity(t) = Capacity(tier[ip]) THEN level[ip] ELSE Capacity(t)
  IN  /\ tier' = [tier EXCEPT ![ip] = t]
      /\ \/ /\ before >= Cost
            /\ level' = [level EXCEPT ![ip] = before - Cost]
            /\ decision' = [ip |-> ip, status |-> 200]
         \/ /\ before < Cost
            /\ level' = [level EXCEPT ![ip] = before]
            /\ decision' = [ip |-> ip, status |-> 429]

BucketNext ==
  \/ Refill
  \/ \E ip \in Ips, claim \in Tiers \cup {NoToken} : Decide(ip, claim)

BucketSpec == BucketInit /\ [][BucketNext]_bucketVars
=============================================================================
