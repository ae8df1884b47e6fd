--------------------------- MODULE RateLimitProofs ---------------------------
(***************************************************************************)
(* Proofs about RateLimit for any addresses, tiers, rates and periods: the *)
(* invariants, that the buckets implement TokenBucket, and what follows    *)
(* from that for the requests that RequestCount counts.                    *)
(***************************************************************************)
EXTENDS RequestCount, TLAPS

\* BucketMatchesTier and HeadersAgree hold together: the first says what a
\* bucket that replaces another looks like, the second that nobody waiting
\* still counts on the one replaced.  Clocks never run backwards.
IInv ==
  /\ TypeOK
  /\ BucketMatchesTier
  /\ HeadersAgree
  /\ \A ip \in Ips : buckets[ip] # None => buckets[ip].last <= now

-----------------------------------------------------------------------------
(* Arithmetic *)

LEMMA CapacityType == \A t \in Tiers : Capacity(t) \in Nat /\ Rate[t] \in Nat \ {0}
BY RateAssumption DEF Capacity

\* Two tiers with buckets of one size refill them at one rate.
LEMMA SameCapacity ==
  ASSUME NEW t \in Tiers, NEW u \in Tiers, Capacity(t) = Capacity(u)
  PROVE  Rate[t] = Rate[u]
<1>1. /\ Rate[t] \in Nat /\ Rate[u] \in Nat /\ Period \in Nat \ {0}
      /\ Rate[t] * Period = Rate[u] * Period
  BY RateAssumption DEF Capacity
<1>2. \A a, b \in Nat, p \in Nat \ {0} : a * p = b * p => a = b
  OBVIOUS
<1>. QED  BY <1>1, <1>2

\* A product grows with its first factor.
LEMMA ProductGrows ==
  ASSUME NEW a \in Nat, NEW b \in Nat, NEW r \in Nat, a <= b
  PROVE  r * a <= b * r
OBVIOUS

LEMMA ProductOfNext ==
  ASSUME NEW d \in Nat, NEW r \in Nat
  PROVE  (d + 1) * r = d * r + r /\ d * r \in Nat
OBVIOUS

LEMMA RefilledType ==
  ASSUME NEW b \in BucketStates, now \in Nat, b.last <= now, b.tokens <= b.max
  PROVE  Refilled(b) \in Nat /\ Refilled(b) <= b.max
<1>1. now - b.last \in Nat /\ b.rate \in Nat /\ b.tokens \in Nat /\ b.max \in Nat
  BY DEF BucketStates
<1>2. (now - b.last) * b.rate \in Nat
  BY <1>1
<1>. QED  BY <1>1, <1>2 DEF Refilled

\* A bucket that was used in this tick holds what it was left with.
LEMMA RefilledNow ==
  ASSUME NEW b \in BucketStates, now \in Nat, b.last = now, b.tokens <= b.max
  PROVE  Refilled(b) = b.tokens
<1>1. (now - b.last) * b.rate = 0 /\ b.tokens \in Nat /\ b.max \in Nat
  BY DEF BucketStates
<1>. QED  BY <1>1 DEF Refilled

LEMMA NewBucketFull ==
  ASSUME NEW t \in Tiers, now \in Nat
  PROVE  /\ NewBucket(t) \in BucketStates
         /\ NewBucket(t).max = Capacity(t) /\ NewBucket(t).rate = Rate[t]
         /\ NewBucket(t).tokens = Capacity(t) /\ NewBucket(t).last = now
         /\ Refilled(NewBucket(t)) = Capacity(t)
<1>1. /\ NewBucket(t) \in BucketStates
      /\ NewBucket(t).max = Capacity(t) /\ NewBucket(t).rate = Rate[t]
      /\ NewBucket(t).tokens = Capacity(t) /\ NewBucket(t).last = now
  BY CapacityType DEF NewBucket, BucketStates
<1>2. Capacity(t) <= Capacity(t)
  BY CapacityType
<1>. QED  BY <1>1, <1>2, RefilledNow

-----------------------------------------------------------------------------
(* The parts of dispatch() *)

\* What the clean-up removes was full again.
LEMMA StaleIsFull ==
  ASSUME IInv, NEW ip \in Ips, Stale(ip)
  PROVE  Refilled(buckets[ip]) = Capacity(ipTiers[ip])
<1> DEFINE b == buckets[ip]
<1>1. /\ b \in BucketStates /\ b.last + CleanupInterval < now /\ b.last <= now
      /\ b.max = Capacity(ipTiers[ip]) /\ b.rate = Rate[ipTiers[ip]]
      /\ ipTiers[ip] \in Tiers /\ now \in Nat
  BY DEF IInv, TypeOK, BucketMatchesTier, Stale
<1>2. Period \in Nat /\ CleanupInterval \in Nat /\ Period <= CleanupInterval
  BY RateAssumption, CleanupAssumption
<1>3. /\ b.last \in Nat /\ b.tokens \in Nat /\ b.rate \in Nat /\ b.max \in Nat
      /\ b.max = b.rate * Period
  BY <1>1 DEF BucketStates, Capacity
<1>4. now - b.last \in Nat /\ Period <= now - b.last
  BY <1>1, <1>2, <1>3
<1>5. b.rate * Period <= (now - b.last) * b.rate
  BY <1>2, <1>3, <1>4, ProductGrows
<1>6. (now - b.last) * b.rate \in Nat
  BY <1>3, <1>4
<1>. QED  BY <1>1, <1>3, <1>5, <1>6 DEF Refilled

LEMMA AfterCleanupType ==
  ASSUME IInv
  PROVE  /\ AfterCleanup \in [Ips -> BucketStates \cup {None}]
         /\ \A i \in Ips : \/ AfterCleanup[i] = buckets[i]
                           \/ AfterCleanup[i] = None /\ Stale(i)
BY DEF IInv, TypeOK, AfterCleanup

\* What the requests that wait know of their buckets, once those of `left`
\* have lost theirs.
Served(requests, left) ==
  /\ requests \in [Slots -> Forwarded \cup {None}]
  /\ \A s \in Slots : requests[s] # None =>
       IF requests[s].bucket = None
       THEN /\ requests[s].ip \notin left
            /\ buckets[requests[s].ip] # None
            /\ buckets[requests[s].ip].max = requests[s].limit
       ELSE /\ requests[s].bucket.max = requests[s].limit
            /\ requests[s].bucket.tokens <= requests[s].limit

LEMMA DetachedServed ==
  ASSUME IInv, NEW left \in SUBSET Ips
  PROVE  Served(Detached(left), left)
<1>1. ASSUME NEW s \in Slots, inFlight[s] # None
      PROVE  /\ inFlight[s] \in Forwarded /\ inFlight[s].ip \in Ips
             /\ inFlight[s].limit \in Nat
             /\ inFlight[s].bucket \in BucketStates \cup {None}
             /\ buckets[inFlight[s].ip] \in BucketStates \cup {None}
  BY <1>1 DEF IInv, TypeOK, Forwarded
<1>2. ASSUME NEW s \in Slots, inFlight[s] # None,
             inFlight[s].ip \in left, inFlight[s].bucket = None
      PROVE  /\ Detached(left)[s] \in Forwarded
             /\ Detached(left)[s].bucket = buckets[inFlight[s].ip]
             /\ Detached(left)[s].limit = inFlight[s].limit
             /\ buckets[inFlight[s].ip] # None
             /\ buckets[inFlight[s].ip].max = inFlight[s].limit
             /\ buckets[inFlight[s].ip].tokens <= inFlight[s].limit
  <2>1. Detached(left)[s] = [inFlight[s] EXCEPT !.bucket = buckets[inFlight[s].ip]]
    BY <1>2 DEF Detached
  <2>2. /\ buckets[inFlight[s].ip] # None
        /\ buckets[inFlight[s].ip].max = inFlight[s].limit
        /\ buckets[inFlight[s].ip].tokens <= inFlight[s].limit
    BY <1>2 DEF IInv, HeadersAgree, HeaderBucket
  <2>. QED  BY <1>1, <1>2, <2>1, <2>2 DEF Forwarded
<1>3. ASSUME NEW s \in Slots,
             ~(inFlight[s] # None /\ inFlight[s].ip \in left /\ inFlight[s].bucket = None)
      PROVE  Detached(left)[s] = inFlight[s]
  BY <1>3 DEF Detached
<1>4. Detached(left) \in [Slots -> Forwarded \cup {None}]
  <2>1. \A s \in Slots : Detached(left)[s] \in Forwarded \cup {None}
    BY <1>1, <1>2, <1>3
  <2>2. Detached(left) = [s \in Slots |-> Detached(left)[s]]
    BY DEF Detached
  <2>. QED  BY <2>1, <2>2
<1>5. ASSUME NEW s \in Slots, Detached(left)[s] # None
      PROVE  IF Detached(left)[s].bucket = None
             THEN /\ Detached(left)[s].ip \notin left
                  /\ buckets[Detached(left)[s].ip] # None
                  /\ buckets[Detached(left)[s].ip].max = Detached(left)[s].limit
             ELSE /\ Detached(left)[s].bucket.max = Detached(left)[s].limit
                  /\ Detached(left)[s].bucket.tokens <= Detached(left)[s].limit
  <2>1. CASE inFlight[s] # None /\ inFlight[s].ip \in left /\ inFlight[s].bucket = None
    BY <1>2, <2>1
  <2>2. CASE ~(inFlight[s] # None /\ inFlight[s].ip \in left /\ inFlight[s].bucket = None)
    BY <1>3, <1>5, <2>2 DEF IInv, HeadersAgree, HeaderBucket
  <2>. QED  BY <2>1, <2>2
<1>. QED  BY <1>4, <1>5 DEF Served

\* What dispatch() hands to consume(): the bucket b of tier t, and the
\* addresses `left` that lost theirs, all but ip to the clean-up.
Hands(ip, t, b, left) ==
  /\ ip \in Ips /\ t \in Tiers /\ b \in BucketStates /\ left \in SUBSET Ips
  /\ b.max = Capacity(t) /\ b.rate = Rate[t]
  /\ b.tokens <= b.max /\ b.last <= now
  /\ \A i \in Ips \ {ip} : IF i \in left THEN Stale(i) ELSE AfterCleanup[i] = buckets[i]
  /\ ip \in left \/ buckets[ip] = b
  /\ ipTiers' = [ipTiers EXCEPT ![ip] = t]
  /\ now' = now
  /\ lastCleanup' \in Nat

\* The bucket of the address after consume().
LEMMA ConsumeLeaves ==
  ASSUME IInv, NEW ip, NEW t, NEW b, NEW left, Hands(ip, t, b, left),
         Consume(ip, b, Detached(left))
  PROVE  \E n \in Nat :
           /\ n <= b.max
           /\ \/ /\ Refilled(b) >= Cost /\ n = Refilled(b) - Cost
                 /\ decision' = [ip |-> ip, status |-> 200]
              \/ /\ Refilled(b) < Cost /\ n = Refilled(b)
                 /\ decision' = [ip |-> ip, status |-> 429]
           /\ buckets' = [AfterCleanup EXCEPT ![ip] = Used(b, n)]
<1>1. now \in Nat /\ Cost \in Nat \ {0}
  BY RateAssumption DEF IInv, TypeOK
<1>2. Refilled(b) \in Nat /\ Refilled(b) <= b.max /\ b.max \in Nat
  BY <1>1, RefilledType DEF Hands, BucketStates
<1>4. CASE Refilled(b) >= Cost
  <2>1. Refilled(b) - Cost \in Nat /\ Refilled(b) - Cost <= b.max /\ ~(Refilled(b) < Cost)
    BY <1>1, <1>2, <1>4
  <2>. QED  BY <1>4, <2>1 DEF Consume
<1>5. CASE Refilled(b) < Cost
  <2>1. ~(Refilled(b) >= Cost)
    BY <1>1, <1>2, <1>5
  <2>. QED  BY <1>2, <1>5, <2>1 DEF Consume
<1>. QED  BY <1>1, <1>2, <1>4, <1>5

\* The requests followed after consume().
LEMMA ConsumeForwards ==
  ASSUME NEW ip, NEW b, NEW requests, Consume(ip, b, requests)
  PROVE  \/ inFlight' = requests
         \/ \E s \in Slots : inFlight' = [requests EXCEPT ![s] =
              [ip |-> ip, limit |-> Capacity(ipTiers'[ip]), bucket |-> None]]
BY DEF Consume

LEMMA ConsumeKeepsIInv ==
  ASSUME IInv, NEW ip, NEW t, NEW b, NEW left, Hands(ip, t, b, left),
         Consume(ip, b, Detached(left))
  PROVE  IInv'
<1>1. PICK n \in Nat :
        /\ n <= b.max
        /\ \/ /\ Refilled(b) >= Cost /\ n = Refilled(b) - Cost
              /\ decision' = [ip |-> ip, status |-> 200]
           \/ /\ Refilled(b) < Cost /\ n = Refilled(b)
              /\ decision' = [ip |-> ip, status |-> 429]
        /\ buckets' = [AfterCleanup EXCEPT ![ip] = Used(b, n)]
  BY ConsumeLeaves
<1> DEFINE r == Used(b, n)
<1>2. /\ r \in BucketStates /\ r.max = Capacity(t) /\ r.rate = Rate[t]
      /\ r.tokens <= r.max /\ r.last = now /\ r # None /\ now \in Nat
  BY <1>1, NoneAssumption DEF Hands, BucketStates, IInv, TypeOK, Used
<1>3. /\ ip \in Ips /\ t \in Tiers /\ ipTiers' = [ipTiers EXCEPT ![ip] = t]
      /\ now' = now /\ lastCleanup' \in Nat
      /\ ipTiers \in [Ips -> Tiers]
  BY DEF Hands, IInv, TypeOK
<1>4. /\ buckets' \in [Ips -> BucketStates \cup {None}]
      /\ buckets'[ip] = r
      /\ \A i \in Ips \ {ip} : buckets'[i] = AfterCleanup[i]
  <2> HIDE DEF r
  <2>1. buckets' = [AfterCleanup EXCEPT ![ip] = r]
    BY <1>1 DEF r
  <2>. QED  BY <1>2, <1>3, <2>1, AfterCleanupType
<1> HIDE DEF r
<1>5. Served(Detached(left), left)
  BY DetachedServed DEF Hands
<1>6. \A i \in Ips : buckets'[i] # None =>
        /\ buckets'[i].max = Capacity(ipTiers'[i])
        /\ buckets'[i].rate = Rate[ipTiers'[i]]
        /\ buckets'[i].tokens <= buckets'[i].max
        /\ buckets'[i].last <= now
  <2>1. \A i \in Ips \ {ip} : ipTiers'[i] = ipTiers[i]
    BY <1>3
  <2>2. ipTiers'[ip] = t
    BY <1>3
  <2>3. \A i \in Ips \ {ip} : buckets'[i] # None => buckets'[i] = buckets[i]
    BY <1>4, AfterCleanupType
  <2>4. r.last <= now
    BY <1>2
  <2>. QED  BY <1>2, <1>4, <2>1, <2>2, <2>3, <2>4 DEF IInv, BucketMatchesTier
<1>7. ASSUME NEW s \in Slots, inFlight'[s] # None, inFlight'[s] = Detached(left)[s]
      PROVE  /\ inFlight'[s] \in Forwarded
             /\ HeaderBucket(s)' # None
             /\ HeaderBucket(s)'.max = inFlight'[s].limit
             /\ HeaderBucket(s)'.tokens <= inFlight'[s].limit
  <2> DEFINE q == Detached(left)[s]
  <2>1. q \in Forwarded /\ q.ip \in Ips /\ q = inFlight'[s]
    BY <1>5, <1>7 DEF Served, Forwarded
  <2>2. CASE q.bucket # None
    BY <1>5, <1>7, <2>1, <2>2 DEF Served, HeaderBucket
  <2>3. CASE q.bucket = None
    <3>1. q.ip \notin left /\ buckets[q.ip] # None /\ buckets[q.ip].max = q.limit
      BY <1>5, <1>7, <2>1, <2>3 DEF Served
    <3>2. CASE q.ip = ip
      BY <1>2, <1>4, <2>1, <2>3, <3>1, <3>2 DEF HeaderBucket, Hands
    <3>3. CASE q.ip # ip
      <4>1. buckets'[q.ip] = buckets[q.ip]
        BY <1>4, <2>1, <3>1, <3>3 DEF Hands
      <4>. QED  BY <2>1, <2>3, <3>1, <4>1 DEF HeaderBucket, IInv, BucketMatchesTier
    <3>. QED  BY <3>2, <3>3
  <2>. QED  BY <2>2, <2>3
<1>8. /\ inFlight' \in [Slots -> Forwarded \cup {None}]
      /\ HeadersAgree'
  <2>1. CASE inFlight' = Detached(left)
    BY <1>5, <1>7, <2>1 DEF Served, HeadersAgree
  <2>2. ASSUME NEW s0 \in Slots,
               inFlight' = [Detached(left) EXCEPT ![s0] =
                 [ip |-> ip, limit |-> Capacity(ipTiers'[ip]), bucket |-> None]]
        PROVE  /\ inFlight' \in [Slots -> Forwarded \cup {None}]
               /\ HeadersAgree'
    <3> DEFINE q == [ip |-> ip, limit |-> Capacity(ipTiers'[ip]), bucket |-> None]
    <3>1. q \in Forwarded /\ q.ip = ip /\ q.limit = Capacity(t) /\ q.bucket = None
      BY <1>3, CapacityType DEF Forwarded
    <3> HIDE DEF q
    <3>2. inFlight' = [Detached(left) EXCEPT ![s0] = q]
      BY <2>2 DEF q
    <3>3. /\ Detached(left) \in [Slots -> Forwarded \cup {None}]
          /\ inFlight'[s0] = q
          /\ \A s \in Slots \ {s0} : inFlight'[s] = Detached(left)[s]
      BY <1>5, <3>2 DEF Served
    <3>4. /\ HeaderBucket(s0)' = r
          /\ r.max = inFlight'[s0].limit /\ r.tokens <= inFlight'[s0].limit
      BY <1>2, <1>4, <3>1, <3>3 DEF HeaderBucket
    <3>. QED  BY <1>2, <1>7, <3>1, <3>2, <3>3, <3>4 DEF HeadersAgree
  <2>. QED  BY <2>1, <2>2, ConsumeForwards
<1>9. decision' \in [ip : Ips \cup {None}, status : {200, 429}]
  <2>1. \A code \in {200, 429} :
          [ip |-> ip, status |-> code] \in [ip : Ips \cup {None}, status : {200, 429}]
    BY <1>3
  <2>2. \E code \in {200, 429} : decision' = [ip |-> ip, status |-> code]
    BY <1>1
  <2>. QED  BY <2>1, <2>2
<1>10. ipTiers' \in [Ips -> Tiers] /\ now' \in Nat
  BY <1>2, <1>3
<1>11. TypeOK'
  BY <1>3, <1>4, <1>8, <1>9, <1>10 DEF TypeOK
<1>12. BucketMatchesTier'
  BY <1>6 DEF BucketMatchesTier
<1>. QED  BY <1>3, <1>6, <1>8, <1>11, <1>12 DEF IInv

\* dispatch() is such a step of consume().
LEMMA DispatchHands ==
  ASSUME IInv, NEW ip \in Ips, NEW claim \in Tiers \cup {NoToken}, Dispatch(ip, claim)
  PROVE  \E b \in BucketStates, left \in SUBSET Ips :
           /\ Hands(ip, IF claim = NoToken THEN ipTiers[ip] ELSE claim, b, left)
           /\ Consume(ip, b, Detached(left))
           /\ IF Keeps(ip, claim) THEN b = buckets[ip]
              ELSE b = NewBucket(IF claim = NoToken THEN ipTiers[ip] ELSE claim)
<1> DEFINE t == IF claim = NoToken THEN ipTiers[ip] ELSE claim
           removed == {i \in Ips : buckets[i] # None /\ AfterCleanup[i] = None}
<1>1. /\ t \in Tiers /\ ipTiers' = [ipTiers EXCEPT ![ip] = t] /\ ipTiers'[ip] = t
      /\ now' = now /\ now \in Nat /\ lastCleanup' \in Nat
  BY DEF Dispatch, IInv, TypeOK
<1>2. \A i \in Ips : IF i \in removed THEN Stale(i) ELSE AfterCleanup[i] = buckets[i]
  BY DEF AfterCleanup, Stale
<1>3. CASE Keeps(ip, claim)
  <2>1. /\ buckets[ip] # None /\ ip \notin removed
        /\ buckets[ip] \in BucketStates
        /\ buckets[ip].tokens <= buckets[ip].max /\ buckets[ip].last <= now
    BY <1>3 DEF Keeps, AfterCleanup, IInv, TypeOK, BucketMatchesTier
  <2>2. buckets[ip].max = Capacity(t) /\ buckets[ip].rate = Rate[t]
    BY <1>1, <1>3, <2>1, SameCapacity DEF Keeps, IInv, TypeOK, BucketMatchesTier
  <2>3. Consume(ip, buckets[ip], Detached(removed))
    BY <1>3 DEF Dispatch
  <2>. QED  BY <1>1, <1>2, <1>3, <2>1, <2>2, <2>3 DEF Hands
<1>4. CASE ~Keeps(ip, claim)
  <2>1. Consume(ip, NewBucket(t), Detached(removed \cup {ip}))
    BY <1>1, <1>4 DEF Dispatch
  <2>2. Hands(ip, t, NewBucket(t), removed \cup {ip})
    <3>1. /\ NewBucket(t) \in BucketStates
          /\ NewBucket(t).max = Capacity(t) /\ NewBucket(t).rate = Rate[t]
          /\ NewBucket(t).tokens <= NewBucket(t).max /\ NewBucket(t).last <= now
      BY <1>1, NewBucketFull, CapacityType
    <3>. QED  BY <1>1, <1>2, <3>1 DEF Hands
  <2>. QED  BY <1>4, <2>1, <2>2 DEF Hands
<1>. QED  BY <1>3, <1>4

-----------------------------------------------------------------------------
(* Steps *)

LEMMA InitIInv == Init => IInv
<1> SUFFICES ASSUME Init PROVE IInv
  OBVIOUS
<1>1. TypeOK
  BY RateAssumption DEF Init, TypeOK
<1>. QED  BY <1>1 DEF Init, IInv, BucketMatchesTier, HeadersAgree

LEMMA TickIInv ==
  ASSUME IInv, Tick
  PROVE  IInv'
<1>1. now' = now + 1 /\ UNCHANGED <<ipTiers, buckets, lastCleanup, inFlight, decision>>
  BY DEF Tick
<1>2. TypeOK'
  BY <1>1 DEF IInv, TypeOK
<1>3. BucketMatchesTier' /\ HeadersAgree'
  BY <1>1 DEF IInv, BucketMatchesTier, HeadersAgree, HeaderBucket
<1>4. ASSUME NEW ip \in Ips, buckets'[ip] # None
      PROVE  buckets'[ip].last <= now'
  <2>1. buckets[ip].last \in Nat /\ now \in Nat /\ buckets[ip].last <= now
    BY <1>1, <1>4 DEF IInv, TypeOK, BucketStates
  <2>. QED  BY <1>1, <2>1
<1>. QED  BY <1>2, <1>3, <1>4 DEF IInv

LEMMA RespondIInv ==
  ASSUME IInv, NEW s \in Slots, Respond(s)
  PROVE  IInv'
<1>1. /\ inFlight' = [inFlight EXCEPT ![s] = None]
      /\ UNCHANGED <<now, ipTiers, buckets, lastCleanup, decision>>
  BY DEF Respond
<1>2. TypeOK'
  BY <1>1 DEF IInv, TypeOK
<1>3. BucketMatchesTier'
  BY <1>1 DEF IInv, BucketMatchesTier
<1>4. \A r \in Slots : inFlight'[r] # None => inFlight'[r] = inFlight[r]
  BY <1>1 DEF IInv, TypeOK
<1>5. HeadersAgree'
  BY <1>1, <1>4 DEF IInv, HeadersAgree, HeaderBucket
<1>. QED  BY <1>1, <1>2, <1>3, <1>5 DEF IInv

LEMMA NextIInv == IInv /\ [Next]_vars => IInv'
<1>. SUFFICES ASSUME IInv, [Next]_vars PROVE IInv'
  OBVIOUS
<1>1. CASE Tick
  BY <1>1, TickIInv
<1>2. ASSUME NEW ip \in Ips, NEW claim \in Tiers \cup {NoToken}, Dispatch(ip, claim)
      PROVE  IInv'
  BY <1>2, DispatchHands, ConsumeKeepsIInv
<1>3. ASSUME NEW s \in Slots, Respond(s)
      PROVE  IInv'
  BY <1>3, RespondIInv
<1>4. CASE UNCHANGED vars
  BY <1>4 DEF vars, IInv, TypeOK, BucketMatchesTier, HeadersAgree, HeaderBucket
<1>. QED  BY <1>1, <1>2, <1>3, <1>4 DEF Next

\* IInv holds in every reachable state.
LEMMA Invariance == Spec => []IInv
BY InitIInv, NextIInv, PTL DEF Spec

\* Every variable of the rate limiter keeps its type: no level is negative.
THEOREM TypeCorrect == Spec => []TypeOK
<1>1. IInv => TypeOK
  BY DEF IInv
<1>. QED  BY <1>1, Invariance, PTL

\* The bucket of an address always has the size and rate of its tier, and
\* never more in it than it holds.
THEOREM BucketsMatch == Spec => []BucketMatchesTier
<1>1. IInv => BucketMatchesTier
  BY DEF IInv
<1>. QED  BY <1>1, Invariance, PTL

\* The headers of every response describe one bucket, whatever happened to it
\* while the request was answered.
THEOREM HeadersCorrect == Spec => []HeadersAgree
<1>1. IInv => HeadersAgree
  BY DEF IInv
<1>. QED  BY <1>1, Invariance, PTL

-----------------------------------------------------------------------------
(* Refinement *)

\* The clock refills all buckets at once.
LEMMA TickRefines ==
  ASSUME IInv, Tick
  PROVE  Eager!Refill
<1>1. now' = now + 1 /\ UNCHANGED <<ipTiers, buckets, decision>> /\ now \in Nat
  BY DEF Tick, IInv, TypeOK
<1>2. ASSUME NEW ip \in Ips
      PROVE  Level'[ip] = Eager!AtMost(Level[ip] + Rate[ipTiers[ip]],
                                       Eager!Capacity(ipTiers[ip]))
  <2> DEFINE cap == Capacity(ipTiers[ip])
             rate == Rate[ipTiers[ip]]
  <2>1. ipTiers[ip] \in Tiers /\ cap \in Nat /\ rate \in Nat /\ Eager!Capacity(ipTiers[ip]) = cap
    BY CapacityType DEF IInv, TypeOK, Capacity, Eager!Capacity
  <2>2. CASE buckets[ip] = None
    <3>1. Level[ip] = cap /\ Level'[ip] = cap
      BY <1>1, <2>2 DEF Level
    <3>. QED  BY <2>1, <3>1 DEF Eager!AtMost
  <2>3. CASE buckets[ip] # None
    <3> DEFINE b == buckets[ip]
    <3>1. /\ b.max = cap /\ b.rate = rate /\ b.last \in Nat /\ b.last <= now
          /\ b.tokens \in Nat
      BY <2>3 DEF IInv, TypeOK, BucketMatchesTier, BucketStates
    <3>2. /\ Level[ip] = (IF b.tokens + (now - b.last) * rate < cap
                          THEN b.tokens + (now - b.last) * rate ELSE cap)
          /\ Level'[ip] = (IF b.tokens + ((now + 1) - b.last) * rate < cap
                           THEN b.tokens + ((now + 1) - b.last) * rate ELSE cap)
      BY <1>1, <2>3, <3>1 DEF Level, Refilled
    <3>3. /\ ((now + 1) - b.last) * rate = (now - b.last) * rate + rate
          /\ (now - b.last) * rate \in Nat
      <4>1. now - b.last \in Nat /\ (now + 1) - b.last = (now - b.last) + 1 /\ rate \in Nat
        BY <1>1, <2>1, <3>1
      <4>. QED  BY <4>1, ProductOfNext
    <3> HIDE DEF b, cap, rate
    <3>. QED  BY <2>1, <3>1, <3>2, <3>3 DEF Eager!AtMost, cap, rate
  <2>. QED  BY <2>2, <2>3
<1>. QED  BY <1>1, <1>2 DEF Eager!Refill, Level

\* A request finds in its bucket what the bucket that always fills holds, and
\* leaves the same in it; the clean-up takes nothing from any other address.
LEMMA DispatchRefines ==
  ASSUME IInv, NEW ip \in Ips, NEW claim \in Tiers \cup {NoToken}, Dispatch(ip, claim)
  PROVE  Eager!Decide(ip, claim)
<1> DEFINE t == IF claim = NoToken THEN ipTiers[ip] ELSE claim
           before == IF Eager!Capacity(t) = Eager!Capacity(ipTiers[ip])
                     THEN Level[ip] ELSE Eager!Capacity(t)
<1>1. PICK b \in BucketStates, left \in SUBSET Ips :
        /\ Hands(ip, t, b, left)
        /\ Consume(ip, b, Detached(left))
        /\ IF Keeps(ip, claim) THEN b = buckets[ip] ELSE b = NewBucket(t)
  BY DispatchHands
<1>2. PICK n \in Nat :
        /\ n <= b.max
        /\ \/ /\ Refilled(b) >= Cost /\ n = Refilled(b) - Cost
              /\ decision' = [ip |-> ip, status |-> 200]
           \/ /\ Refilled(b) < Cost /\ n = Refilled(b)
              /\ decision' = [ip |-> ip, status |-> 429]
        /\ buckets' = [AfterCleanup EXCEPT ![ip] = Used(b, n)]
  BY <1>1, ConsumeLeaves
<1>3. /\ t \in Tiers /\ ipTiers' = [ipTiers EXCEPT ![ip] = t] /\ ipTiers \in [Ips -> Tiers]
      /\ now' = now /\ now \in Nat
  BY <1>1 DEF Hands, IInv, TypeOK
<1>4. \A u : Eager!Capacity(u) = Capacity(u)
  BY DEF Eager!Capacity, Capacity
<1>5. before = Refilled(b)
  <2>1. CASE Keeps(ip, claim)
    <3>1. buckets[ip] # None /\ b = buckets[ip] /\ Capacity(t) = Capacity(ipTiers[ip])
      BY <1>1, <2>1 DEF Keeps, AfterCleanup, Hands, IInv, BucketMatchesTier
    <3>. QED  BY <1>4, <3>1 DEF Level
  <2>2. CASE ~Keeps(ip, claim)
    <3>1. Refilled(b) = Capacity(t)
      BY <1>1, <1>3, <2>2, NewBucketFull
    <3>2. CASE Capacity(t) # Capacity(ipTiers[ip])
      BY <1>4, <3>1, <3>2
    <3>3. CASE Capacity(t) = Capacity(ipTiers[ip])
      <4>1. buckets[ip] = None \/ Stale(ip)
        BY <2>2, <3>3 DEF Keeps, AfterCleanup, Stale, IInv, BucketMatchesTier
      <4>2. Level[ip] = Capacity(t)
        BY <3>3, <4>1, StaleIsFull DEF Level, Stale
      <4>. QED  BY <1>4, <3>1, <3>3, <4>2
    <3>. QED  BY <3>2, <3>3
  <2>. QED  BY <2>1, <2>2
<1>6. Level' = [Level EXCEPT ![ip] = n]
  <2>1. Level'[ip] = n
    <3>1. Used(b, n) \in BucketStates /\ Used(b, n) # None
      BY <1>3, NoneAssumption DEF Used, BucketStates
    <3>2. buckets'[ip] = Used(b, n)
      BY <1>2, AfterCleanupType
    <3>3. Refilled(Used(b, n)) = n
      <4>1. /\ Used(b, n).last = now /\ Used(b, n).tokens = n
            /\ Used(b, n).max = b.max
        BY DEF Used
      <4>. QED  BY <1>2, <1>3, <3>1, <4>1, RefilledNow
    <3>. QED  BY <1>3, <3>1, <3>2, <3>3 DEF Level, Refilled
  <2>2. ASSUME NEW i \in Ips \ {ip}
        PROVE  Level'[i] = Level[i]
    <3>1. ipTiers'[i] = ipTiers[i] /\ buckets'[i] = AfterCleanup[i]
      BY <1>2, <1>3, AfterCleanupType
    <3>2. CASE AfterCleanup[i] = buckets[i]
      BY <1>3, <3>1, <3>2 DEF Level, Refilled
    <3>3. CASE AfterCleanup[i] = None /\ Stale(i)
      BY <3>1, <3>3, StaleIsFull DEF Level, Stale
    <3>. QED  BY <3>2, <3>3, AfterCleanupType
  <2>. QED  BY <2>1, <2>2 DEF Level
<1>7. /\ Level' = [Level EXCEPT ![ip] = n]
      /\ \/ before >= Cost /\ n = before - Cost /\ decision' = [ip |-> ip, status |-> 200]
         \/ before < Cost /\ n = before /\ decision' = [ip |-> ip, status |-> 429]
  BY <1>2, <1>5, <1>6
<1>. QED  BY <1>3, <1>7 DEF Eager!Decide

\* The rate limiter implements buckets that exist and fill all the time.
THEOREM Refinement == Spec => ImplementsTokenBucket
<1>1. Init => Eager!BucketInit
  BY DEF Init, Eager!BucketInit, Level, Capacity, Eager!Capacity
<1>2. IInv /\ [Next]_vars => [Eager!BucketNext]_(Eager!bucketVars)
  <2> SUFFICES ASSUME IInv, [Next]_vars
               PROVE  Eager!BucketNext \/ UNCHANGED Eager!bucketVars
    OBVIOUS
  <2>1. CASE Tick
    BY <2>1, TickRefines DEF Eager!BucketNext
  <2>2. ASSUME NEW ip \in Ips, NEW claim \in Tiers \cup {NoToken}, Dispatch(ip, claim)
        PROVE  Eager!BucketNext
    BY <2>2, DispatchRefines DEF Eager!BucketNext
  <2>3. CASE UNCHANGED <<now, ipTiers, buckets, decision>>
    <3>1. Level' = Level
      BY <2>3 DEF Level, Refilled
    <3>. QED  BY <2>3, <3>1 DEF Eager!bucketVars
  <2>. QED  BY <2>1, <2>2, <2>3 DEF Next, Respond, vars
<1>. QED  BY <1>1, <1>2, Invariance, PTL DEF Spec, ImplementsTokenBucket, Eager!BucketSpec

-----------------------------------------------------------------------------
(* How many requests get past *)

\* The inductive invariant.  What has been paid since the count started, and
\* what is left to pay with, came out of the bucket of then and the refills
\* since: RequestsBounded forgets what is left.
CountInvariant ==
  /\ served \in Nat
  /\ since \in Nat
  /\ since <= now
  /\ served * Cost + Level[Client]
       <= Capacity(ipTiers[Client]) + (now - since) * Rate[ipTiers[Client]]

\* No bucket holds more than its size, or less than nothing.
LevelBounded ==
  /\ Level[Client] \in Nat
  /\ Level[Client] <= Capacity(ipTiers[Client])
  /\ ipTiers[Client] \in Tiers
  /\ now \in Nat

LEMMA LevelType == IInv => LevelBounded
<1>. SUFFICES ASSUME IInv PROVE LevelBounded
  OBVIOUS
<1>1. ipTiers[Client] \in Tiers /\ now \in Nat /\ Client \in Ips
  BY ClientAssumption DEF IInv, TypeOK
<1>2. CASE buckets[Client] = None
  <2>1. Level[Client] = Capacity(ipTiers[Client])
    BY <1>1, <1>2 DEF Level
  <2>2. Capacity(ipTiers[Client]) \in Nat
    BY <1>1, CapacityType
  <2>. QED  BY <1>1, <2>1, <2>2 DEF LevelBounded
<1>3. CASE buckets[Client] # None
  <2>1. /\ buckets[Client] \in BucketStates
        /\ buckets[Client].last <= now
        /\ buckets[Client].tokens <= buckets[Client].max
        /\ buckets[Client].max = Capacity(ipTiers[Client])
    BY <1>1, <1>3 DEF IInv, TypeOK, BucketMatchesTier
  <2>2. Level[Client] = Refilled(buckets[Client])
    BY <1>1, <1>3 DEF Level
  <2>. QED  BY <1>1, <2>1, <2>2, RefilledType DEF LevelBounded
<1>. QED  BY <1>2, <1>3

LEMMA LevelTypeNext == IInv' => LevelBounded'
BY LevelType, PTL

\* A count that starts now is within the bound.
LEMMA FreshCount ==
  ASSUME NEW cap \in Nat, NEW rate \in Nat, NEW level \in Nat, level <= cap,
         NEW time \in Nat
  PROVE  0 * Cost + level <= cap + (time - time) * rate
<1>1. (time - time) * rate = 0 /\ 0 * Cost = 0
  BY RateAssumption
<1>. QED  BY <1>1

LEMMA CountInitInvariant == CountInit => CountInvariant
<1>. SUFFICES ASSUME CountInit PROVE CountInvariant
  OBVIOUS
<1>1. IInv
  BY InitIInv DEF CountInit
<1>2. Capacity(ipTiers[Client]) \in Nat /\ Rate[ipTiers[Client]] \in Nat
  BY <1>1, LevelType, CapacityType DEF LevelBounded
<1>. QED  BY <1>1, <1>2, LevelType, FreshCount DEF CountInit, CountInvariant, LevelBounded, Init

\* The clock adds to the bound what it adds to the bucket, or more.
LEMMA TickCount ==
  ASSUME IInv, CountInvariant, Tick, UNCHANGED countVars
  PROVE  CountInvariant'
<1> DEFINE cap == Capacity(ipTiers[Client])
           rate == Rate[ipTiers[Client]]
<1>1. /\ cap \in Nat /\ rate \in Nat /\ Level[Client] \in Nat
      /\ now \in Nat /\ since \in Nat /\ since <= now /\ served * Cost \in Nat
  BY LevelType, CapacityType, RateAssumption DEF CountInvariant, LevelBounded
<1>2. now' = now + 1 /\ ipTiers' = ipTiers /\ since' = since /\ served' = served
  BY DEF Tick, countVars
<1>3. Level'[Client] \in Nat /\ Level'[Client] <= Level[Client] + rate
  <2>1. Level' = [ip \in Ips |-> Eager!AtMost(Level[ip] + Rate[ipTiers[ip]],
                                            Eager!Capacity(ipTiers[ip]))]
    BY TickRefines DEF Eager!Refill
  <2>2. Level'[Client] = Eager!AtMost(Level[Client] + rate, cap)
    BY <2>1, ClientAssumption DEF Eager!Capacity, Capacity
  <2> HIDE DEF cap, rate
  <2>. QED  BY <1>1, <2>2 DEF Eager!AtMost
<1>4. ((now + 1) - since) * rate = (now - since) * rate + rate /\ (now - since) * rate \in Nat
  <2>1. now - since \in Nat /\ (now + 1) - since = (now - since) + 1
    BY <1>1
  <2>. QED  BY <1>1, <2>1, ProductOfNext
<1>5. served * Cost + Level'[Client] <= cap + ((now + 1) - since) * rate
  <2>1. served * Cost + Level[Client] <= cap + (now - since) * rate
    BY DEF CountInvariant
  <2> HIDE DEF cap, rate
  <2>. QED  BY <1>1, <1>3, <1>4, <2>1
<1>6. since' <= now'
  BY <1>1, <1>2
<1>. QED  BY <1>1, <1>2, <1>5, <1>6 DEF CountInvariant

LEMMA Updated ==
  ASSUME NEW S, NEW f, f = [i \in S |-> f[i]], NEW k \in S, NEW x,
         NEW g, g = [f EXCEPT ![k] = x]
  PROVE  g[k] = x /\ \A i \in S \ {k} : g[i] = f[i]
OBVIOUS

\* What a request that is passed on is charged leaves the bucket it finds: the
\* one that was there, or a full one of another size.
LEMMA Charged ==
  ASSUME IInv, NEW ip \in Ips, NEW claim \in Tiers \cup {NoToken}, Dispatch(ip, claim)
  PROVE  /\ \A i \in Ips \ {ip} : Level'[i] = Level[i] /\ ipTiers'[i] = ipTiers[i]
         /\ PassedOn \in {0, 1}
         /\ Level'[ip] = (IF Capacity(ipTiers'[ip]) = Capacity(ipTiers[ip])
                          THEN Level[ip] ELSE Capacity(ipTiers'[ip])) - PassedOn * Cost
<1> DEFINE t == IF claim = NoToken THEN ipTiers[ip] ELSE claim
           before == IF Capacity(t) = Capacity(ipTiers[ip]) THEN Level[ip] ELSE Capacity(t)
<1>1. /\ ipTiers' = [ipTiers EXCEPT ![ip] = t]
      /\ \/ /\ before >= Cost
            /\ Level' = [Level EXCEPT ![ip] = before - Cost]
            /\ decision' = [ip |-> ip, status |-> 200]
         \/ /\ before < Cost
            /\ Level' = [Level EXCEPT ![ip] = before]
            /\ decision' = [ip |-> ip, status |-> 429]
  BY DispatchRefines DEF Eager!Decide, Eager!Capacity, Capacity
<1>2. Level = [i \in Ips |-> Level[i]] /\ ipTiers = [i \in Ips |-> ipTiers[i]]
  BY DEF Level, IInv, TypeOK
<1>3. t \in Tiers /\ Cost \in Nat
  BY RateAssumption DEF IInv, TypeOK
<1>4. before \in Int
  <2>1. ipTiers[ip] \in Tiers /\ Capacity(t) \in Nat /\ Capacity(ipTiers[ip]) \in Nat
    BY <1>3, CapacityType DEF IInv, TypeOK
  <2>2. CASE buckets[ip] = None
    BY <2>1, <2>2 DEF Level
  <2>3. CASE buckets[ip] # None
    <3>1. Level[ip] = Refilled(buckets[ip])
      BY <2>3 DEF Level
    <3>2. /\ buckets[ip] \in BucketStates /\ now \in Nat /\ buckets[ip].last <= now
          /\ buckets[ip].tokens <= buckets[ip].max
      BY <2>3 DEF IInv, TypeOK, BucketMatchesTier
    <3>. QED  BY <2>1, <3>1, <3>2, RefilledType
  <2>. QED  BY <2>2, <2>3
<1>5. ipTiers'[ip] = t
  BY <1>1, <1>2
<1> HIDE DEF before, t
<1>6. CASE decision' = [ip |-> ip, status |-> 200] /\ Level' = [Level EXCEPT ![ip] = before - Cost]
  <2>1. PassedOn = 1 /\ before - Cost = before - PassedOn * Cost
    BY <1>3, <1>4, <1>6 DEF PassedOn
  <2>2. Level'[ip] = before - Cost /\ \A i \in Ips \ {ip} : Level'[i] = Level[i]
    BY <1>2, <1>6, Updated
  <2>. QED  BY <1>1, <1>2, <1>5, <2>1, <2>2, Updated DEF before
<1>7. CASE decision' = [ip |-> ip, status |-> 429] /\ Level' = [Level EXCEPT ![ip] = before]
  <2>1. PassedOn = 0 /\ before = before - PassedOn * Cost
    BY <1>3, <1>4, <1>7 DEF PassedOn
  <2>2. Level'[ip] = before /\ \A i \in Ips \ {ip} : Level'[i] = Level[i]
    BY <1>2, <1>7, Updated
  <2>. QED  BY <1>1, <1>2, <1>5, <2>1, <2>2, Updated DEF before
<1>. QED  BY <1>1, <1>6, <1>7

LEMMA DispatchCount ==
  ASSUME IInv, IInv', CountInvariant,
         NEW ip \in Ips, NEW claim \in Tiers \cup {NoToken}, CountedDispatch(ip, claim)
  PROVE  CountInvariant'
<1>1. Dispatch(ip, claim) /\ now' = now /\ Client \in Ips /\ Cost \in Nat
  BY ClientAssumption, RateAssumption DEF CountedDispatch, Dispatch
<1>2. /\ ipTiers[Client] \in Tiers /\ ipTiers'[Client] \in Tiers
      /\ Level[Client] \in Nat /\ Level'[Client] \in Nat
      /\ now \in Nat
  BY LevelType, LevelTypeNext DEF LevelBounded
<1>3. /\ served \in Nat /\ since \in Nat /\ since <= now
      /\ served * Cost + Level[Client]
           <= Capacity(ipTiers[Client]) + (now - since) * Rate[ipTiers[Client]]
  BY DEF CountInvariant
<1>4. PassedOn \in {0, 1}
  BY <1>1, Charged
<1>5. CASE ip # Client
  <2>1. /\ ipTiers'[Client] = ipTiers[Client] /\ Level'[Client] = Level[Client]
        /\ since' = since /\ served' = served
    BY <1>1, <1>5, Charged DEF CountedDispatch, countVars
  <2>. QED  BY <1>1, <1>3, <2>1 DEF CountInvariant
<1>6. CASE ip = Client /\ Capacity(ipTiers'[ip]) = Capacity(ipTiers[ip])
  <2>1. /\ Rate[ipTiers'[Client]] = Rate[ipTiers[Client]]
        /\ Capacity(ipTiers'[Client]) = Capacity(ipTiers[Client])
    BY <1>2, <1>6, SameCapacity
  <2>2. since' = since /\ served' = served + PassedOn
    BY <1>6 DEF CountedDispatch, countVars
  <2>3. Level'[Client] = Level[Client] - PassedOn * Cost
    BY <1>1, <1>6, Charged
  <2>4. /\ (served + PassedOn) * Cost = served * Cost + PassedOn * Cost
        /\ served + PassedOn \in Nat
        /\ served * Cost \in Nat /\ PassedOn * Cost \in Nat
    BY <1>1, <1>3, <1>4
  <2> DEFINE paid == served * Cost
             charge == PassedOn * Cost
  <2>5. served' * Cost + Level'[Client] = paid + Level[Client]
    <3> HIDE DEF paid, charge
    <3>1. served' * Cost = paid + charge /\ Level'[Client] = Level[Client] - charge
      BY <2>2, <2>3, <2>4 DEF paid, charge
    <3>. QED  BY <1>2, <2>4, <3>1 DEF paid, charge
  <2>. QED  BY <1>1, <1>3, <2>1, <2>2, <2>4, <2>5 DEF CountInvariant
<1>7. CASE ip = Client /\ Capacity(ipTiers'[ip]) # Capacity(ipTiers[ip])
  <2>1. since' = now /\ served' = PassedOn
    BY <1>7 DEF CountedDispatch, countVars
  <2>2. Level'[Client] = Capacity(ipTiers'[Client]) - PassedOn * Cost
    BY <1>1, <1>7, Charged
  <2>3. /\ served' * Cost + Level'[Client] = Capacity(ipTiers'[Client])
        /\ Capacity(ipTiers'[Client]) \in Nat
        /\ (now - now) * Rate[ipTiers'[Client]] = 0
    <3>1. Capacity(ipTiers'[Client]) \in Nat /\ Rate[ipTiers'[Client]] \in Nat
      BY <1>2, CapacityType
    <3>2. PassedOn * Cost \in Nat
      BY <1>1, <1>4
    <3>. QED  BY <1>2, <2>1, <2>2, <3>1, <3>2
  <2>. QED  BY <1>1, <1>2, <1>4, <2>1, <2>3 DEF CountInvariant
<1>. QED  BY <1>1, <1>5, <1>6, <1>7 DEF CountedDispatch

LEMMA WatchCount ==
  ASSUME IInv, Watch
  PROVE  CountInvariant'
<1>1. /\ since' = now /\ served' = 0 /\ now' = now
      /\ ipTiers' = ipTiers /\ Level' = Level
  BY DEF Watch, vars, Level, Refilled
<1>2. Capacity(ipTiers[Client]) \in Nat /\ Rate[ipTiers[Client]] \in Nat
  BY LevelType, CapacityType DEF LevelBounded
<1>3. /\ Level[Client] \in Nat /\ now \in Nat
      /\ 0 * Cost + Level[Client]
           <= Capacity(ipTiers[Client]) + (now - now) * Rate[ipTiers[Client]]
  BY <1>2, LevelType, FreshCount DEF LevelBounded
<1>. QED  BY <1>1, <1>3 DEF CountInvariant

\* What does not touch the buckets does not touch the count.
LEMMA OthersCount ==
  ASSUME CountInvariant,
         UNCHANGED <<now, ipTiers, buckets, since, served>>
  PROVE  CountInvariant'
<1>1. Level' = Level
  BY DEF Level, Refilled
<1>. QED  BY <1>1 DEF CountInvariant

\* Whatever an address sends, and however often its bucket is cleaned up and
\* created again, it gets no more requests past dispatch() in any stretch of
\* time than one full bucket and the refill of that time pay for.
THEOREM RequestsAreBounded == CountSpec => []RequestsBounded
<1>1. CountInit => IInv /\ CountInvariant
  BY CountInitInvariant, InitIInv DEF CountInit
<1>2. [CountNext]_allVars => [Next]_vars
  BY DEF CountNext, allVars, Watch, CountedDispatch, Next
<1>3. IInv /\ CountInvariant /\ [CountNext]_allVars => IInv' /\ CountInvariant'
  <2>. SUFFICES ASSUME IInv, CountInvariant, [CountNext]_allVars
                PROVE  IInv' /\ CountInvariant'
    OBVIOUS
  <2>1. IInv'
    BY <1>2, NextIInv
  <2>2. CASE Watch
    BY <2>1, <2>2, WatchCount
  <2>3. ASSUME NEW ip \in Ips, NEW claim \in Tiers \cup {NoToken}, CountedDispatch(ip, claim)
        PROVE  CountInvariant'
    BY <2>1, <2>3, DispatchCount
  <2>4. CASE Tick /\ UNCHANGED countVars
    BY <2>1, <2>4, TickCount
  <2>5. CASE (\E s \in Slots : Respond(s)) /\ UNCHANGED countVars
    BY <2>1, <2>5, OthersCount DEF Respond, countVars
  <2>6. CASE UNCHANGED allVars
    BY <2>1, <2>6, OthersCount DEF allVars, vars, countVars
  <2>. QED  BY <2>1, <2>2, <2>3, <2>4, <2>5, <2>6 DEF CountNext
<1>4. IInv /\ CountInvariant => RequestsBounded
  <2>. SUFFICES ASSUME IInv, CountInvariant PROVE RequestsBounded
    OBVIOUS
  <2>1. /\ served * Cost \in Nat /\ Level[Client] \in Nat
        /\ Capacity(ipTiers[Client]) \in Nat
        /\ (now - since) * Rate[ipTiers[Client]] \in Nat
    <3>1. /\ served \in Nat /\ Cost \in Nat /\ now - since \in Nat
          /\ Rate[ipTiers[Client]] \in Nat /\ Capacity(ipTiers[Client]) \in Nat
          /\ Level[Client] \in Nat
      BY LevelType, CapacityType, RateAssumption DEF CountInvariant, LevelBounded
    <3>. QED  BY <3>1
  <2>. QED  BY <2>1 DEF CountInvariant, RequestsBounded
<1>. QED  BY <1>1, <1>3, <1>4, PTL DEF CountSpec
=============================================================================
