------------------------------ MODULE RateLimit ------------------------------
(***************************************************************************)
(* src/app/middleware/rate_limit.py in one worker process: buckets that    *)
(* are created on the first request of an address, refilled when they are  *)
(* used, replaced when a token of another tier arrives, and removed by a   *)
(* clean-up that every request starts with.                                *)
(*                                                                         *)
(* dispatch() does not await before call_next, so a request is one action  *)
(* up to there; the headers are read from the same bucket object after it. *)
(* Levels are counted in fractions of a token so that they are integers.   *)
(***************************************************************************)
EXTENDS Integers

CONSTANTS
  Ips, Tiers, DefaultTier, NoToken, Rate, Period, Cost,  \* see TokenBucket
  CleanupInterval,  \* cleanup_interval, in clock ticks
  Slots,            \* bounds the awaiting requests that are followed
  None,             \* no bucket, no request or no address
  MaxTime           \* bound on the clock

ASSUME RateAssumption ==
  /\ DefaultTier \in Tiers
  /\ NoToken \notin Tiers
  /\ Rate \in [Tiers -> Nat \ {0}]
  /\ Period \in Nat \ {0}
  /\ Cost \in Nat \ {0}
  /\ MaxTime \in Nat

\* The sentinel is none of the values it stands in for.
ASSUME NoneAssumption ==
  /\ None \notin Ips
  /\ None \notin [max : Nat, rate : Nat, tokens : Nat, last : Nat]
  /\ None \notin [ip : Ips, limit : Nat,
                 bucket : [max : Nat, rate : Nat, tokens : Nat, last : Nat] \cup {None}]

\* A bucket is full before it counts as unused: 60s against 10s.
ASSUME CleanupAssumption == CleanupInterval \in Nat /\ CleanupInterval >= Period

VARIABLES
  now,          \* time.monotonic()
  ipTiers,      \* _ip_tiers, DefaultTier where an address has no entry
  buckets,      \* _buckets: the TokenBucket of an address, or None
  lastCleanup,  \* _last_cleanup
  inFlight,     \* the forwarded requests that are followed, see Forwarded
  decision      \* the last decision of dispatch()

vars == <<now, ipTiers, buckets, lastCleanup, inFlight, decision>>

-----------------------------------------------------------------------------
Capacity(t) == Rate[t] * Period

BucketStates == [max : Nat, rate : Nat, tokens : Nat, last : Nat]

\* A forwarded request: its address, the max_tokens it read, and its bucket
\* if that has left _buckets since (None while it is the one in _buckets).
Forwarded == [ip : Ips, limit : Nat, bucket : BucketStates \cup {None}]

NewBucket(t) ==
  [max |-> Capacity(t), rate |-> Rate[t], tokens |-> Capacity(t), last |-> now]

\* The refill at the head of consume().
Refilled(b) ==
  LET n == b.tokens + (now - b.last) * b.rate IN IF n < b.max THEN n ELSE b.max

\* A bucket that was used in this tick and left with n.
Used(b, n) == [max |-> b.max, rate |-> b.rate, tokens |-> n, last |-> now]

Init ==
  /\ now = 0
  /\ ipTiers = [ip \in Ips |-> DefaultTier]
  /\ buckets = [ip \in Ips |-> None]
  /\ lastCleanup = 0
  /\ inFlight = [s \in Slots |-> None]
  /\ decision = [ip |-> None, status |-> 200]

Tick ==
  /\ now < MaxTime
  /\ now' = now + 1
  /\ UNCHANGED <<ipTiers, buckets, lastCleanup, inFlight, decision>>

\* As Stale, with the time of the request as the threshold.
StaleAtOnce(ip) == buckets[ip] # None /\ buckets[ip].last < now

\* last_refill < now - cleanup_interval
Stale(ip) == buckets[ip] # None /\ buckets[ip].last + CleanupInterval < now

CleanupDue == now - lastCleanup >= CleanupInterval

\* _buckets after _cleanup_stale().
AfterCleanup == [ip \in Ips |-> IF CleanupDue /\ Stale(ip) THEN None ELSE buckets[ip]]

\* As Detached, for a dispatch() that looks the bucket up again after call_next.
DetachedLookedUp(left) == inFlight

\* The forwarded requests when the addresses in `left` lose their bucket
\* object: the requests keep the object.
Detached(left) ==
  [s \in Slots |->
     IF inFlight[s] # None /\ inFlight[s].ip \in left /\ inFlight[s].bucket = None
     THEN [inFlight[s] EXCEPT !.bucket = buckets[inFlight[s].ip]]
     ELSE inFlight[s]]

\* As Consume, without the comparison with one token.
ConsumeUnchecked(ip, b, requests) ==
  /\ buckets' = [AfterCleanup EXCEPT ![ip] = Used(b, Refilled(b) - Cost)]
  /\ decision' = [ip |-> ip, status |-> 200]
  /\ inFlight' = requests

\* consume() on bucket b of this address, and what follows in dispatch().  A
\* request that is served may be one of those followed to its response: the
\* others await call_next unseen, for nothing but their headers depends on it.
Consume(ip, b, requests) ==
  LET n == Refilled(b)
  IN  \/ /\ n >= Cost
         /\ buckets' = [AfterCleanup EXCEPT ![ip] = Used(b, n - Cost)]
         /\ decision' = [ip |-> ip, status |-> 200]
         /\ \/ inFlight' = requests
            \/ \E s \in Slots :
                 /\ requests[s] = None
                 /\ inFlight' = [requests EXCEPT ![s] =
                      [ip |-> ip, limit |-> Capacity(ipTiers'[ip]), bucket |-> None]]
      \/ /\ n < Cost
         /\ buckets' = [AfterCleanup EXCEPT ![ip] = Used(b, n)]
         /\ decision' = [ip |-> ip, status |-> 429]
         /\ inFlight' = requests

\* As Keeps, without a look at the tier of the token.
KeepsAny(ip, claim) == AfterCleanup[ip] # None

\* The bucket that survives the clean-up and, if the request carries a token,
\* has the size of its tier.
Keeps(ip, claim) ==
  /\ AfterCleanup[ip] # None
  /\ claim # NoToken => buckets[ip].max = Capacity(claim)

\* dispatch() up to call_next.  claim is the tier of a valid access token, or
\* NoToken: a missing, malformed or expired one, or one of an unknown tier.
Dispatch(ip, claim) ==
  LET removed == {i \in Ips : buckets[i] # None /\ AfterCleanup[i] = None}
  IN  /\ lastCleanup' = IF CleanupDue THEN now ELSE lastCleanup
      /\ ipTiers' = [ipTiers EXCEPT ![ip] = IF claim = NoToken THEN @ ELSE claim]
      /\ IF Keeps(ip, claim)
         THEN Consume(ip, buckets[ip], Detached(removed))
         ELSE Consume(ip, NewBucket(ipTiers'[ip]), Detached(removed \cup {ip}))
      /\ UNCHANGED now

\* call_next() returns and the headers are read from the bucket object.
Respond(s) ==
  /\ inFlight[s] # None
  /\ inFlight' = [inFlight EXCEPT ![s] = None]
  /\ UNCHANGED <<now, ipTiers, buckets, lastCleanup, decision>>

Next ==
  \/ Tick
  \/ \E ip \in Ips, claim \in Tiers \cup {NoToken} : Dispatch(ip, claim)
  \/ \E s \in Slots : Respond(s)

Spec == Init /\ [][Next]_vars

-----------------------------------------------------------------------------
(* Properties *)

\* Every variable has its type.
TypeOK ==
  /\ now \in Nat
  /\ ipTiers \in [Ips -> Tiers]
  /\ buckets \in [Ips -> BucketStates \cup {None}]
  /\ lastCleanup \in Nat
  /\ inFlight \in [Slots -> Forwarded \cup {None}]
  /\ decision \in [ip : Ips \cup {None}, status : {200, 429}]

\* The bucket an address has is the one its tier calls for, whatever the order
\* of tokens, clean-ups and requests: _ip_tiers and _buckets agree.
BucketMatchesTier ==
  \A ip \in Ips : buckets[ip] # None =>
    /\ buckets[ip].max = Capacity(ipTiers[ip])
    /\ buckets[ip].rate = Rate[ipTiers[ip]]
    /\ buckets[ip].tokens <= buckets[ip].max

\* The bucket object whose state the headers of a response will show.
HeaderBucket(s) ==
  IF inFlight[s].bucket = None THEN buckets[inFlight[s].ip] ELSE inFlight[s].bucket

\* The headers of a response describe one bucket: what remains is read after
\* other requests ran, from an object that may have left _buckets meanwhile,
\* and belongs to a bucket of the limit announced beside it.
HeadersAgree ==
  \A s \in Slots : inFlight[s] # None =>
    /\ HeaderBucket(s) # None
    /\ HeaderBucket(s).max = inFlight[s].limit
    /\ HeaderBucket(s).tokens <= inFlight[s].limit

\* The buckets as TokenBucket sees them: a missing one is full, and one that
\* was not used for a while holds what a refill would give it now.
Level == [ip \in Ips |-> IF buckets[ip] = None
                         THEN Capacity(ipTiers[ip])
                         ELSE Refilled(buckets[ip])]

Eager == INSTANCE TokenBucket WITH tier <- ipTiers, level <- Level

\* Lazy refills, creation on demand and the clean-up cannot be told from
\* buckets that exist and fill all the time: no request is served or refused
\* because its bucket was removed or was not refilled yet.
ImplementsTokenBucket == Eager!BucketSpec
=============================================================================
