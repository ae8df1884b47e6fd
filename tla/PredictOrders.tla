---------------------------- MODULE PredictOrders ----------------------------
(***************************************************************************)
(* The builders of prediction market orders, api/v1/predict_orders.py, and *)
(* what becomes of their transactions on the chain.                        *)
(*                                                                         *)
(* A builder reads the chain three times: the allowance, the price, and    *)
(* once more when web3 fills in the gas of the transaction, which runs it  *)
(* against the chain and raises if it would revert.  Blocks are mined in   *)
(* between, and between the answer and the time the client sends it.       *)
(*                                                                         *)
(* There is one wallet here: builders look at nothing of other wallets,    *)
(* whose trades move the prices.  The chain is external, a pool being a    *)
(* price of its outcome token in units of axUSD.                           *)
(***************************************************************************)
EXTENDS Integers

CONSTANTS
  Workers,    \* server processes
  Markets,    \* market contracts
  AxUsd,      \* the token that markets are paid in
  Router,     \* the contract that swaps
  Traded,     \* the outcomes that orders name, of Outcomes
  Amounts,    \* amounts of orders
  Slippages,  \* values of slippage_bps, which nothing validates
  Prices,     \* what outcome tokens cost, in fractions of Unit
  Unit,
  Funds,      \* axUSD in the wallet at first
  MaxOrders   \* bound on the orders that are started

Outcomes == {"yes", "no"}

ASSUME OrdersAssumption ==
  /\ Traded \subseteq Outcomes
  /\ Amounts \subseteq Nat \ {0}
  /\ Slippages \subseteq Int
  /\ Prices \subseteq Nat \ {0}
  /\ Unit \in Nat \ {0}
  /\ Funds \in Nat
  /\ MaxOrders \in Nat
  /\ AxUsd \notin Markets \X Outcomes

VARIABLES
  registry,   \* data/markets_registry.json where the builders look for it
  cache,      \* _REGISTRY_CACHE of each worker
  build,      \* the request each worker is in the middle of
  held,       \* orders the client has and did not send yet
  count,      \* orders started so far
  price,      \* of each outcome token
  holding,    \* what the wallet has of each token
  allowance   \* what each spender may pull of each token

chain == <<price, holding, allowance>>
vars == <<registry, cache, build, held, count, price, holding, allowance>>

-----------------------------------------------------------------------------
Tokens == {AxUsd} \cup (Markets \X Outcomes)
TradedTokens == Markets \X Traded

\* What allowances are about: a token and who may pull it.
Purses == ({AxUsd} \X (Markets \cup {Router})) \cup (TradedTokens \X {Router})

\* The requests that pass validation: outcome and slippage only matter to swaps.
Requests ==
  [kind : {"buy", "sell"}, market : Markets, outcome : Traded, amount : Amounts,
   bps : Slippages] \cup
  [kind : {"mint", "redeem"}, market : Markets, outcome : {"both"}, amount : Amounts,
   bps : {0}]

OutcomeToken(r) == <<r.market, r.outcome>>

IsSwap(r) == r.kind \in {"buy", "sell"}

\* The allowance that an order uses up; a redeem has none.
Purse(r) ==
  CASE r.kind = "sell" -> <<OutcomeToken(r), Router>>
    [] r.kind = "mint" -> <<AxUsd, r.market>>
    [] OTHER -> <<AxUsd, Router>>

UsesPurse(r, p) == r.kind # "redeem" /\ Purse(r) = p

\* getAmountsOut() at the present price.
AmountOut(r) ==
  CASE r.kind = "buy" -> (r.amount * Unit) \div price[OutcomeToken(r)]
    [] r.kind = "sell" -> (r.amount * price[OutcomeToken(r)]) \div Unit
    [] OTHER -> 0

\* As ApplySlippage, taken off the amount twice.
ApplySlippageTwice(amount, bps) == (amount * (10000 - bps) * (10000 - bps)) \div 100000000

\* _apply_slippage(): rounds down, Python's // being \div.
ApplySlippage(amount, bps) == (amount * (10000 - bps)) \div 10000

Registries == [readable : {TRUE}, markets : SUBSET Markets] \cup
              [readable : {FALSE}, markets : {{}}]

\* What a worker has of the registry; `loaded` is whether the cache is set.
Caches == [loaded : BOOLEAN, markets : SUBSET Markets]

NotLoaded == [loaded |-> FALSE, markets |-> {}]

\* A build between two reads of the chain.  `approve` is whether the allowance
\* was too small, `out` what the swap was quoted.
Builds ==
  [pc : {"allowed", "quoted"}, id : Nat, request : Requests, approve : BOOLEAN, out : Nat]

NoBuild == [pc |-> "idle"]

\* An answer the client holds; `approve` is whether it starts with an approval
\* that was not sent yet.  History: `out` as above, `touched` is whether the
\* allowance changed since the answer, or since its own approval.
Orders ==
  [id : Nat, request : Requests, min : Nat, approve : BOOLEAN, out : Nat,
   touched : BOOLEAN]

Order(b, min) ==
  [id |-> b.id, request |-> b.request, min |-> min, approve |-> b.approve,
   out |-> b.out, touched |-> FALSE]

Init ==
  /\ registry \in Registries
  /\ cache = [w \in Workers |-> NotLoaded]
  /\ build = [w \in Workers |-> NoBuild]
  /\ held = {}
  /\ count = 0
  /\ price \in [TradedTokens -> Prices]
  /\ holding = [t \in Tokens |-> IF t = AxUsd THEN Funds ELSE 0]
  /\ allowance = [p \in Purses |-> 0]

-----------------------------------------------------------------------------
(* The builders *)

\* What _load_registry() gives: the cache, and the file for want of one.
Known(w) == IF cache[w].loaded THEN cache[w].markets ELSE registry.markets

\* The cache is set by the first load that does not raise, a missing file being
\* an empty registry, and never again.
LoadRegistry(w) ==
  /\ build[w] = NoBuild
  /\ cache[w].loaded \/ registry.readable
  /\ cache' = [cache EXCEPT ![w] = [loaded |-> TRUE, markets |-> Known(w)]]

Idle(w) == build' = [build EXCEPT ![w] = NoBuild]

\* GET /orders/quote, and a builder that answers MARKET_NOT_FOUND, leave nothing
\* behind but the cache.
Lookup(w) ==
  /\ LoadRegistry(w)
  /\ UNCHANGED <<registry, build, held, count, chain>>

\* json.load() raises on a broken registry, for each request anew: the cache is
\* not set.
Fails(w) ==
  /\ build[w] = NoBuild
  /\ ~cache[w].loaded /\ ~registry.readable
  /\ UNCHANGED vars

\* A builder up to the allowance: is it less than the amount?
ReadAllowance(w, r) ==
  /\ LoadRegistry(w)
  /\ r.market \in Known(w)
  /\ count < MaxOrders
  /\ count' = count + 1
  /\ build' = [build EXCEPT ![w] =
       [pc |-> IF IsSwap(r) THEN "allowed" ELSE "quoted", id |-> count', request |-> r,
        approve |-> r.kind # "redeem" /\ allowance[Purse(r)] < r.amount,
        out |-> 0]]
  /\ UNCHANGED <<registry, held, chain>>

\* getAmountsOut()
ReadPrice(w) ==
  /\ build[w].pc = "allowed"
  /\ build' = [build EXCEPT ![w].pc = "quoted", ![w].out = AmountOut(build[w].request)]
  /\ UNCHANGED <<registry, cache, held, count, chain>>

\* A call to the node fails: CONTRACT_REVERT, as for a revert.
CallFails(w) ==
  /\ build[w] # NoBuild
  /\ Idle(w)
  /\ UNCHANGED <<registry, cache, held, count, chain>>

Minimum(b) == IF IsSwap(b.request) THEN ApplySlippage(b.out, b.request.bps) ELSE 0

\* The chain takes an order: the wallet allows it, has what it costs, and the
\* pool pays the minimum.
Allowed(r) == r.kind = "redeem" \/ allowance[Purse(r)] >= r.amount

Costs(r) ==
  CASE r.kind = "sell" -> {OutcomeToken(r)}
    [] r.kind = "redeem" -> {r.market} \X Outcomes
    [] OTHER -> {AxUsd}

Funded(r) == \A t \in Costs(r) : holding[t] >= r.amount

Pays(r, min) == IsSwap(r) => AmountOut(r) >= min

Accepts(r, min) == Allowed(r) /\ Funded(r) /\ Pays(r, min)

\* As Finish, with a gas limit given so that nothing is estimated, and a minimum
\* that is not checked.
FinishUnestimated(w) ==
  LET b == build[w] IN
  /\ b.pc = "quoted"
  /\ held' = held \cup {Order(b, Minimum(b))}
  /\ Idle(w)
  /\ UNCHANGED <<registry, cache, count, chain>>

\* build_transaction() of the order encodes the minimum as a uint256 and
\* estimates the gas on a chain to which no approval was sent yet: the order is
\* answered if the chain takes it, and otherwise refused as CONTRACT_REVERT.
Finish(w) ==
  LET b == build[w]
      min == Minimum(b)
  IN
  /\ b.pc = "quoted"
  /\ Idle(w)
  /\ \/ /\ min >= 0 /\ Accepts(b.request, min)
        /\ held' = held \cup {Order(b, min)}
     \/ /\ min < 0 \/ ~Accepts(b.request, min)
        /\ UNCHANGED held
  /\ UNCHANGED <<registry, cache, count, chain>>

\* A worker is started anew.
Restart(w) ==
  /\ Idle(w)
  /\ cache' = [cache EXCEPT ![w] = NotLoaded]
  /\ UNCHANGED <<registry, held, count, chain>>

-----------------------------------------------------------------------------
(* The client, the wallet and the chain *)

\* The allowance p changes, as orders that rely on it note.
Touched(orders, p) ==
  {IF UsesPurse(o.request, p) THEN [o EXCEPT !.touched = TRUE] ELSE o : o \in orders}

\* The wallet sends an approval: one of its own, or what /orders/build-approve
\* or /portfolio/build-approve made of the token, spender and amount it gave.
Approve(p, amount) ==
  /\ allowance' = [allowance EXCEPT ![p] = amount]
  /\ held' = Touched(held, p)
  /\ UNCHANGED <<registry, cache, build, count, price, holding>>

\* As SendApproval, for what the order is to bring.
SendApprovalMinimum(o) ==
  LET p == Purse(o.request) IN
  /\ o.approve
  /\ allowance' = [allowance EXCEPT ![p] = o.min]
  /\ held' = Touched(held \ {o}, p) \cup {[o EXCEPT !.approve = FALSE, !.touched = FALSE]}
  /\ UNCHANGED <<registry, cache, build, count, price, holding>>

\* The client sends the approval of an answer, which comes first in it: for the
\* amount of this order, whatever others need.
SendApproval(o) ==
  LET p == Purse(o.request) IN
  /\ o.approve
  /\ allowance' = [allowance EXCEPT ![p] = o.request.amount]
  /\ held' = Touched(held \ {o}, p) \cup {[o EXCEPT !.approve = FALSE, !.touched = FALSE]}
  /\ UNCHANGED <<registry, cache, build, count, price, holding>>

\* What an order brings.
Gains(r) ==
  CASE r.kind = "buy" -> [t \in {OutcomeToken(r)} |-> AmountOut(r)]
    [] r.kind = "sell" -> [t \in {AxUsd} |-> AmountOut(r)]
    [] r.kind = "mint" -> [t \in {r.market} \X Outcomes |-> r.amount]
    [] OTHER -> [t \in {AxUsd} |-> r.amount]

Settled(r) ==
  [t \in Tokens |->
     holding[t] - (IF t \in Costs(r) THEN r.amount ELSE 0)
                + (IF t \in DOMAIN Gains(r) THEN Gains(r)[t] ELSE 0)]

\* The client sends an order, and the chain takes it.
Execute(o) ==
  LET r == o.request
      p == Purse(r)
  IN
  /\ ~o.approve
  /\ Accepts(r, o.min)
  /\ holding' = Settled(r)
  /\ IF r.kind = "redeem"
     THEN /\ held' = held \ {o}
          /\ UNCHANGED allowance
     ELSE /\ allowance' = [allowance EXCEPT ![p] = @ - r.amount]
          /\ held' = Touched(held \ {o}, p)
  /\ UNCHANGED <<registry, cache, build, count, price>>

\* An order is not sent, or reverts because the chain no longer takes it or its
\* deadline passed.
Drop(o) ==
  /\ held' = held \ {o}
  /\ UNCHANGED <<registry, cache, build, count, chain>>

\* Others trade.
Move(t, p) ==
  /\ price' = [price EXCEPT ![t] = p]
  /\ UNCHANGED <<registry, cache, build, held, count, holding, allowance>>

\* The file is put there, replaced or broken by hand: no code writes it.
CopyRegistry(r) ==
  /\ registry' = r
  /\ UNCHANGED <<cache, build, held, count, chain>>

Next ==
  \/ \E w \in Workers :
       \/ Lookup(w) \/ Fails(w)
       \/ \E r \in Requests : ReadAllowance(w, r)
       \/ ReadPrice(w) \/ Finish(w) \/ CallFails(w) \/ Restart(w)
  \/ \E p \in Purses, amount \in Amounts \cup {0} : Approve(p, amount)
  \/ \E o \in held : SendApproval(o) \/ Execute(o) \/ Drop(o)
  \/ \E t \in TradedTokens, p \in Prices : Move(t, p)
  \/ \E r \in Registries : CopyRegistry(r)

Spec == Init /\ [][Next]_vars

-----------------------------------------------------------------------------
(* Properties *)

\* Every variable has its type: in particular no order has a negative minimum
\* and no balance or allowance is overdrawn.
TypeOK ==
  /\ registry \in Registries
  /\ cache \in [Workers -> Caches]
  /\ build \in [Workers -> Builds \cup {NoBuild}]
  /\ held \in SUBSET Orders
  /\ count \in Nat
  /\ price \in [TradedTokens -> Prices]
  /\ holding \in [Tokens -> Nat]
  /\ allowance \in [Purses -> Nat]

\* An order that was answered does not fail for its allowance, however long the
\* client waits, unless another transaction of the wallet changed it meanwhile:
\* an approval for another order, or an order that used the same one up.
AllowanceCovers ==
  \A o \in held : ~o.touched /\ o.request.kind # "redeem" =>
    allowance[Purse(o.request)] >= o.request.amount

\* What a swap pays, it was quoted while it was built, less the slippage that was
\* asked for: prices that move before the order is answered, between the answer
\* and the approval, or before the swap is mined, never cost more.
MinimumKept ==
  [][\A o \in held :
       /\ IsSwap(o.request) /\ holding' # holding
       /\ \A k \in held' : k.id # o.id
       => 10000 * (AmountOut(o.request) + 1) > o.out * (10000 - o.request.bps)]_vars

\* "Returns approve tx (if needed) + swap tx": a buy that found the allowance too
\* small is answered, with the approval first, when nothing but the allowance keeps
\* the chain from taking it.  It is not: the swap is estimated without the approval,
\* and the request refused.
ApproveIfNeeded ==
  [][\A w \in Workers :
       LET b == build[w] IN
       b # NoBuild /\ Finish(w) =>
         \/ b.request.kind # "buy" \/ ~b.approve
         \/ Minimum(b) < 0 \/ ~Funded(b.request) \/ ~Pays(b.request, Minimum(b))
         \/ \E o \in held' : o.id = b.id]_vars
=============================================================================
