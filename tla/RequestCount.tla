---------------------------- MODULE RequestCount ----------------------------
(***************************************************************************)
(* How many requests of one address get past the rate limiter: RateLimit   *)
(* with a count that may start at any moment.  It changes nothing of what  *)
(* RateLimit does.                                                         *)
(***************************************************************************)
EXTENDS RateLimit

CONSTANT Client  \* the address whose requests are counted

ASSUME ClientAssumption == Client \in Ips

VARIABLES
  since,  \* history: the time the count started
  served  \* history: the requests of Client that were passed on since then

countVars == <<since, served>>
allVars == <<vars, countVars>>

-----------------------------------------------------------------------------
CountInit == Init /\ since = 0 /\ served = 0

\* The count starts again, at any moment.
Watch ==
  /\ since' = now
  /\ served' = 0
  /\ UNCHANGED vars

\* The decision just made passed the request on.
PassedOn == IF decision'.status = 200 THEN 1 ELSE 0

\* A request, counted if it is Client's.  A token of another size of bucket
\* brings a full one, and the count starts again with it.
CountedDispatch(ip, claim) ==
  /\ Dispatch(ip, claim)
  /\ \/ /\ ip # Client
        /\ UNCHANGED countVars
     \/ /\ ip = Client
        /\ Capacity(ipTiers'[ip]) = Capacity(ipTiers[ip])
        /\ served' = served + PassedOn
        /\ UNCHANGED since
     \/ /\ ip = Client
        /\ Capacity(ipTiers'[ip]) # Capacity(ipTiers[ip])
        /\ served' = PassedOn
        /\ since' = now

CountNext ==
  \/ Watch
  \/ \E ip \in Ips, claim \in Tiers \cup {NoToken} : CountedDispatch(ip, claim)
  \/ (Tick \/ \E s \in Slots : Respond(s)) /\ UNCHANGED countVars

CountSpec == CountInit /\ [][CountNext]_allVars

-----------------------------------------------------------------------------
(* Properties *)

\* Between any two moments no more requests of an address are passed on than
\* a full bucket holds and the time between adds, while it keeps its tier: no
\* clean-up, creation on demand or late refill pays a token twice.
RequestsBounded ==
  served * Cost <= Capacity(ipTiers[Client]) + (now - since) * Rate[ipTiers[Client]]
=============================================================================
