------------------------- MODULE PredictOrdersProofs --------------------------
(***************************************************************************)
(* Theorems about PredictOrders, for any workers, markets, prices, amounts,*)
(* slippages, funds and number of orders.                                  *)
(***************************************************************************)
EXTENDS PredictOrders, TLAPS

-----------------------------------------------------------------------------
(* Arithmetic *)

\* What is rounded down is a natural number if what it is made of is.
LEMMA DivNat ==
  ASSUME NEW a \in Nat, NEW b \in Nat \ {0}
  PROVE  a \div b \in Nat
OBVIOUS

\* Nothing above the rounded quotient plus one fits.
LEMMA DivBound ==
  ASSUME NEW a \in Int, NEW q \in Int, q >= a \div 10000
  PROVE  10000 * (q + 1) > a
OBVIOUS

\* Slippage is taken off in whole numbers.
LEMMA SlippageInt ==
  ASSUME NEW a \in Int, NEW b \in Int
  PROVE  ApplySlippage(a, b) \in Int
<1> DEFINE x == a * (10000 - b)
<1>1. x \in Int
  OBVIOUS
<1>2. ApplySlippage(a, b) = x \div 10000
  BY DEF ApplySlippage
<1> HIDE DEF x
<1> QED BY <1>1, <1>2

-----------------------------------------------------------------------------
(* Requests, tokens and purses *)

\* The parts of a request.
LEMMA RequestParts ==
  ASSUME NEW r \in Requests
  PROVE  /\ r.kind \in {"buy", "sell", "mint", "redeem"}
         /\ r.market \in Markets
         /\ r.amount \in Nat \ {0}
         /\ r.amount \in Amounts
         /\ r.bps \in Int
         /\ IsSwap(r) => r.outcome \in Traded
<1> DEFINE Swaps == [kind : {"buy", "sell"}, market : Markets, outcome : Traded,
                     amount : Amounts, bps : Slippages]
           Sets == [kind : {"mint", "redeem"}, market : Markets, outcome : {"both"},
                    amount : Amounts, bps : {0}]
<1>1. r \in Swaps \/ r \in Sets
  BY DEF Requests
<1>2. CASE r \in Swaps
  <2>1. /\ r.kind \in {"buy", "sell"} /\ r.market \in Markets /\ r.outcome \in Traded
        /\ r.amount \in Amounts /\ r.bps \in Slippages
    BY <1>2
  <2> QED BY <2>1, OrdersAssumption DEF IsSwap
<1>3. CASE r \in Sets
  <2>1. /\ r.kind \in {"mint", "redeem"} /\ r.market \in Markets
        /\ r.amount \in Amounts /\ r.bps = 0
    BY <1>3
  <2>2. Amounts \subseteq Nat \ {0}
    BY OrdersAssumption
  <2>3. r.amount \in Nat \ {0}
    BY <2>1, <2>2
  <2>4. r.bps \in Int
    <3>1. 0 \in Int
      OBVIOUS
    <3> QED BY <2>1, <3>1
  <2>5. ~IsSwap(r)
    BY <2>1 DEF IsSwap
  <2> QED BY <2>1, <2>3, <2>4, <2>5
<1> QED BY <1>1, <1>2, <1>3

\* What a request uses up is one of the purses.
LEMMA PurseType ==
  ASSUME NEW r \in Requests
  PROVE  Purse(r) \in Purses
BY RequestParts DEF Purse, Purses, TradedTokens, OutcomeToken, IsSwap

\* What a swap names is traded.
LEMMA SwapToken ==
  ASSUME NEW r \in Requests, IsSwap(r)
  PROVE  OutcomeToken(r) \in TradedTokens
BY RequestParts DEF TradedTokens, OutcomeToken

\* What a swap brings is a natural number.
LEMMA AmountOutType ==
  ASSUME NEW r \in Requests, price \in [TradedTokens -> Prices]
  PROVE  AmountOut(r) \in Nat
<1>1. CASE IsSwap(r)
  <2> DEFINE p == price[OutcomeToken(r)]
  <2>1. p \in Nat \ {0}
    BY <1>1, SwapToken, OrdersAssumption
  <2>2. r.amount \in Nat /\ Unit \in Nat \ {0}
    BY RequestParts, OrdersAssumption
  <2>3. r.amount * Unit \in Nat /\ r.amount * p \in Nat
    BY <2>1, <2>2
  <2>4. (r.amount * Unit) \div p \in Nat /\ (r.amount * p) \div Unit \in Nat
    BY <2>1, <2>2, <2>3, DivNat
  <2>5. AmountOut(r) = (r.amount * Unit) \div p \/ AmountOut(r) = (r.amount * p) \div Unit
    BY <1>1 DEF AmountOut, IsSwap
  <2> QED BY <2>4, <2>5
<1>2. CASE ~IsSwap(r)
  BY <1>2 DEF AmountOut, IsSwap
<1> QED BY <1>1, <1>2

-----------------------------------------------------------------------------
(* Orders and builds *)

\* The parts of an order.
LEMMA OrderParts ==
  ASSUME NEW o \in Orders
  PROVE  /\ o.id \in Nat /\ o.request \in Requests /\ o.min \in Nat /\ o.out \in Nat
         /\ o.approve \in BOOLEAN /\ o.touched \in BOOLEAN
BY DEF Orders

\* The parts of a build.
LEMMA BuildParts ==
  ASSUME NEW b \in Builds
  PROVE  /\ b.id \in Nat /\ b.request \in Requests /\ b.out \in Nat
         /\ b.approve \in BOOLEAN
         /\ b.pc \in {"allowed", "quoted"}
BY DEF Builds

\* What a build with its minimum makes is an order.
LEMMA OrderType ==
  ASSUME NEW b \in Builds, NEW min \in Nat
  PROVE  /\ Order(b, min) \in Orders
         /\ Order(b, min).id = b.id
         /\ Order(b, min).request = b.request
         /\ Order(b, min).min = min
         /\ Order(b, min).approve = b.approve
         /\ Order(b, min).out = b.out
         /\ Order(b, min).touched = FALSE
BY BuildParts DEF Order, Orders

\* An idle worker is told from a busy one.
LEMMA Busy ==
  ASSUME NEW b \in Builds \cup {NoBuild}
  PROVE  /\ b.pc \in {"allowed", "quoted"} => b \in Builds
         /\ b \in Builds => b # NoBuild
BY DEF Builds, NoBuild

\* An order that is touched changes in that only.
LEMMA TouchedFields ==
  ASSUME NEW o \in Orders
  PROVE  LET k == [o EXCEPT !.touched = TRUE] IN
         /\ k \in Orders /\ k.touched
         /\ k.id = o.id /\ k.request = o.request /\ k.min = o.min
         /\ k.approve = o.approve /\ k.out = o.out
BY DEF Orders

\* An order whose approval was sent changes in that only.
LEMMA ApprovedFields ==
  ASSUME NEW o \in Orders
  PROVE  LET k == [o EXCEPT !.approve = FALSE, !.touched = FALSE] IN
         /\ k \in Orders /\ ~k.touched /\ ~k.approve
         /\ k.id = o.id /\ k.request = o.request /\ k.min = o.min
         /\ k.out = o.out
BY DEF Orders

\* Every order that is noted comes from one, and stays as it is unless it uses
\* the purse; and every one goes on.
LEMMA TouchedOrders ==
  ASSUME NEW S \in SUBSET Orders, NEW p
  PROVE  /\ Touched(S, p) \in SUBSET Orders
         /\ \A k \in Touched(S, p) :
              /\ ~k.touched => k \in S /\ ~UsesPurse(k.request, p)
              /\ \E o \in S : /\ k.id = o.id /\ k.request = o.request /\ k.min = o.min
                              /\ k.approve = o.approve /\ k.out = o.out
         /\ \A o \in S : \E k \in Touched(S, p) : k.id = o.id
<1> DEFINE T(o) == IF UsesPurse(o.request, p) THEN [o EXCEPT !.touched = TRUE] ELSE o
<1>1. Touched(S, p) = {T(o) : o \in S}
  BY DEF Touched
<1>2. \A o \in S :
        /\ T(o) \in Orders
        /\ ~T(o).touched => T(o) = o /\ ~UsesPurse(o.request, p)
        /\ T(o).id = o.id /\ T(o).request = o.request /\ T(o).min = o.min
        /\ T(o).approve = o.approve /\ T(o).out = o.out
  BY TouchedFields
<1> HIDE DEF T
<1> QED BY <1>1, <1>2

-----------------------------------------------------------------------------
(* Type correctness *)

\* Init gives every variable its type.
LEMMA InitTyped == Init => TypeOK
<1> SUFFICES ASSUME Init PROVE TypeOK
  OBVIOUS
<1>1. cache \in [Workers -> Caches]
  BY DEF Init, NotLoaded, Caches
<1>2. holding \in [Tokens -> Nat] /\ allowance \in [Purses -> Nat]
  BY OrdersAssumption DEF Init
<1>3. build \in [Workers -> Builds \cup {NoBuild}]
  BY DEF Init
<1> QED BY <1>1, <1>2, <1>3 DEF Init, TypeOK

\* What a worker knows of the registry is a set of markets.
LEMMA KnownType ==
  ASSUME TypeOK, NEW w \in Workers
  PROVE  Known(w) \in SUBSET Markets
<1>1. registry.markets \in SUBSET Markets
  BY DEF TypeOK, Registries
<1>2. cache[w] \in Caches
  BY DEF TypeOK
<1>3. cache[w].markets \in SUBSET Markets
  BY <1>2 DEF Caches
<1> QED BY <1>1, <1>3 DEF Known

\* Loading the registry keeps the caches of their type.
LEMMA LoadTyped ==
  ASSUME TypeOK, NEW w \in Workers, LoadRegistry(w)
  PROVE  cache' \in [Workers -> Caches]
<1>1. [loaded |-> TRUE, markets |-> Known(w)] \in Caches
  BY KnownType DEF Caches
<1> QED BY <1>1 DEF LoadRegistry, TypeOK

\* A worker that is done is idle.
LEMMA IdleTyped ==
  ASSUME TypeOK, NEW w \in Workers, Idle(w)
  PROVE  build' \in [Workers -> Builds \cup {NoBuild}]
BY DEF Idle, TypeOK

\* Reading the allowance starts a build.
LEMMA ReadAllowanceTyped ==
  ASSUME TypeOK, NEW w \in Workers, NEW r \in Requests, ReadAllowance(w, r)
  PROVE  TypeOK'
<1> DEFINE b == [pc |-> IF IsSwap(r) THEN "allowed" ELSE "quoted", id |-> count', request |-> r,
                 approve |-> r.kind # "redeem" /\ allowance[Purse(r)] < r.amount,
                 out |-> 0]
<1>1. count' \in Nat
  BY DEF ReadAllowance, TypeOK
<1>2. b \in Builds
  BY <1>1 DEF Builds
<1>3. build' = [build EXCEPT ![w] = b]
  BY DEF ReadAllowance
<1> HIDE DEF b
<1>4. build' \in [Workers -> Builds \cup {NoBuild}]
  BY <1>2, <1>3 DEF TypeOK
<1>5. cache' \in [Workers -> Caches]
  BY LoadTyped DEF ReadAllowance
<1> QED BY <1>1, <1>4, <1>5 DEF ReadAllowance, TypeOK, chain

\* Reading the price goes on with a build.
LEMMA ReadPriceTyped ==
  ASSUME TypeOK, NEW w \in Workers, ReadPrice(w)
  PROVE  TypeOK'
<1>1. build[w] \in Builds
  BY Busy DEF ReadPrice, TypeOK
<1>2. AmountOut(build[w].request) \in Nat
  BY <1>1, BuildParts, AmountOutType DEF TypeOK
<1>3. [[build[w] EXCEPT !.pc = "quoted"] EXCEPT !.out = AmountOut(build[w].request)] \in Builds
  BY <1>1, <1>2 DEF Builds
<1>4. build' = [build EXCEPT ![w] = [[build[w] EXCEPT !.pc = "quoted"]
                  EXCEPT !.out = AmountOut(build[w].request)]]
  BY DEF ReadPrice, TypeOK
<1>5. build' \in [Workers -> Builds \cup {NoBuild}]
  BY <1>3, <1>4 DEF TypeOK
<1> QED BY <1>5 DEF ReadPrice, TypeOK, chain

\* The minimum of a build is a number.
LEMMA MinimumInt ==
  ASSUME NEW b \in Builds
  PROVE  Minimum(b) \in Int
<1>1. b.out \in Int /\ b.request \in Requests
  BY BuildParts
<1>2. b.request.bps \in Int
  BY <1>1, RequestParts
<1>3. ApplySlippage(b.out, b.request.bps) \in Int
  BY <1>1, <1>2, SlippageInt
<1> QED BY <1>3 DEF Minimum

\* Finishing a build makes an order or none.
LEMMA FinishTyped ==
  ASSUME TypeOK, NEW w \in Workers, Finish(w)
  PROVE  TypeOK'
<1>1. build[w] \in Builds
  BY Busy DEF Finish, TypeOK
<1>2. ASSUME Minimum(build[w]) >= 0
      PROVE  Order(build[w], Minimum(build[w])) \in Orders
  <2>1. Minimum(build[w]) \in Nat
    BY <1>1, <1>2, MinimumInt
  <2> QED BY <1>1, <2>1, OrderType
<1>3. held' \in SUBSET Orders
  BY <1>2 DEF Finish, TypeOK
<1>4. build' \in [Workers -> Builds \cup {NoBuild}]
  BY IdleTyped DEF Finish
<1> QED BY <1>3, <1>4 DEF Finish, TypeOK, chain

\* An approval that is sent is of a purse.
LEMMA SendApprovalTyped ==
  ASSUME TypeOK, NEW o \in held, SendApproval(o)
  PROVE  TypeOK'
<1> DEFINE p == Purse(o.request)
<1>1. o \in Orders /\ o.request \in Requests
  BY OrderParts DEF TypeOK
<1>2. p \in Purses /\ o.request.amount \in Nat
  BY <1>1, PurseType, RequestParts
<1>3. allowance' \in [Purses -> Nat]
  BY <1>2 DEF SendApproval, TypeOK
<1>4. held \ {o} \in SUBSET Orders
  BY DEF TypeOK
<1>5. Touched(held \ {o}, p) \in SUBSET Orders
  BY <1>4, TouchedOrders
<1>6. held' \in SUBSET Orders
  BY <1>1, <1>5, ApprovedFields DEF SendApproval
<1> QED BY <1>3, <1>6 DEF SendApproval, TypeOK

\* No order that is taken overdraws a balance.
LEMMA SettledType ==
  ASSUME TypeOK, NEW r \in Requests, Funded(r)
  PROVE  Settled(r) \in [Tokens -> Nat]
<1> DEFINE S(t) == holding[t] - (IF t \in Costs(r) THEN r.amount ELSE 0)
                     + (IF t \in DOMAIN Gains(r) THEN Gains(r)[t] ELSE 0)
<1>1. r.amount \in Nat /\ AmountOut(r) \in Nat
  BY RequestParts, AmountOutType DEF TypeOK
<1>2. \A t \in DOMAIN Gains(r) : Gains(r)[t] \in Nat
  BY <1>1 DEF Gains
<1>3. ASSUME NEW t \in Tokens
      PROVE  S(t) \in Nat
  <2>1. holding[t] \in Nat
    BY <1>3 DEF TypeOK
  <2>2. t \in Costs(r) => holding[t] >= r.amount
    BY DEF Funded
  <2>3. holding[t] - (IF t \in Costs(r) THEN r.amount ELSE 0) \in Nat
    BY <1>1, <2>1, <2>2
  <2>4. (IF t \in DOMAIN Gains(r) THEN Gains(r)[t] ELSE 0) \in Nat
    BY <1>2
  <2> QED BY <2>3, <2>4
<1>4. Settled(r) = [t \in Tokens |-> S(t)]
  BY DEF Settled
<1> HIDE DEF S
<1> QED BY <1>3, <1>4

\* No order that is taken overdraws an allowance.
LEMMA ExecuteTyped ==
  ASSUME TypeOK, NEW o \in held, Execute(o)
  PROVE  TypeOK'
<1> DEFINE r == o.request
           p == Purse(r)
<1>1. r \in Requests
  BY OrderParts DEF TypeOK
<1>2. p \in Purses /\ r.amount \in Nat
  BY <1>1, PurseType, RequestParts
<1>3. holding' \in [Tokens -> Nat]
  BY <1>1, SettledType DEF Execute, Accepts
<1>4. CASE r.kind = "redeem"
  <2>1. UNCHANGED allowance /\ held' = held \ {o}
    BY <1>4 DEF Execute
  <2> QED BY <1>3, <2>1 DEF Execute, TypeOK
<1>5. CASE r.kind # "redeem"
  <2>1. /\ allowance' = [allowance EXCEPT ![p] = @ - r.amount]
        /\ held' = Touched(held \ {o}, p)
    BY <1>5 DEF Execute
  <2>2. allowance[p] \in Nat /\ allowance[p] >= r.amount
    BY <1>2, <1>5 DEF Execute, Accepts, Allowed, TypeOK
  <2>3. allowance[p] - r.amount \in Nat
    BY <1>2, <2>2
  <2>4. allowance' \in [Purses -> Nat]
    BY <2>1, <2>3 DEF TypeOK
  <2>5. held' \in SUBSET Orders
    BY <2>1, TouchedOrders DEF TypeOK
  <2> QED BY <1>3, <2>4, <2>5 DEF Execute, TypeOK
<1> QED BY <1>4, <1>5

\* An approval of the wallet's own keeps the types.
LEMMA ApproveTyped ==
  ASSUME TypeOK, NEW p \in Purses, NEW amount \in Amounts \cup {0}, Approve(p, amount)
  PROVE  TypeOK'
<1>1. amount \in Nat
  BY OrdersAssumption
<1>2. allowance' \in [Purses -> Nat]
  BY <1>1 DEF Approve, TypeOK
<1>3. held' \in SUBSET Orders
  BY TouchedOrders DEF Approve, TypeOK
<1> QED BY <1>2, <1>3 DEF Approve, TypeOK

\* Every step keeps the types.
LEMMA NextTyped == TypeOK /\ [Next]_vars => TypeOK'
<1> SUFFICES ASSUME TypeOK, [Next]_vars PROVE TypeOK'
  OBVIOUS
<1>1. ASSUME NEW w \in Workers, Lookup(w) PROVE TypeOK'
  BY <1>1, LoadTyped DEF Lookup, TypeOK, chain
<1>2. ASSUME NEW w \in Workers, Fails(w) PROVE TypeOK'
  BY <1>2 DEF Fails, TypeOK, vars, chain
<1>3. ASSUME NEW w \in Workers, CallFails(w) PROVE TypeOK'
  BY <1>3, IdleTyped DEF CallFails, TypeOK, chain
<1>4. ASSUME NEW w \in Workers, Restart(w) PROVE TypeOK'
  <2>1. NotLoaded \in Caches
    BY DEF NotLoaded, Caches
  <2> QED BY <1>4, <2>1, IdleTyped DEF Restart, TypeOK, chain
<1>5. ASSUME NEW o \in held, Drop(o) PROVE TypeOK'
  BY <1>5 DEF Drop, TypeOK, chain
<1>6. ASSUME NEW t \in TradedTokens, NEW p \in Prices, Move(t, p) PROVE TypeOK'
  BY <1>6 DEF Move, TypeOK
<1>7. ASSUME NEW r \in Registries, CopyRegistry(r) PROVE TypeOK'
  BY <1>7 DEF CopyRegistry, TypeOK, chain
<1>8. CASE UNCHANGED vars
  BY <1>8 DEF TypeOK, vars, chain
<1> QED BY <1>1, <1>2, <1>3, <1>4, <1>5, <1>6, <1>7, <1>8, ReadAllowanceTyped,
       ReadPriceTyped, FinishTyped, SendApprovalTyped, ExecuteTyped, ApproveTyped
    DEF Next

\* Every variable has its type: no minimum is negative, no balance and no
\* allowance is overdrawn.
THEOREM TypeCorrect == Spec => []TypeOK
BY InitTyped, NextTyped, PTL DEF Spec

-----------------------------------------------------------------------------
(* What orders rely on *)

\* The minimum of a swap is its quote less the slippage.
Quoted ==
  \A o \in held : IsSwap(o.request) => o.min = ApplySlippage(o.out, o.request.bps)

\* What the steps preserve together.
IInv == TypeOK /\ Quoted /\ AllowanceCovers

\* What holds of an order whatever the chain does.
Sound(o) == IsSwap(o.request) => o.min = ApplySlippage(o.out, o.request.bps)

\* What an order needs of the allowances.
Covered(o, allowed) ==
  ~o.touched /\ o.request.kind # "redeem" => allowed[Purse(o.request)] >= o.request.amount

\* The two invariants about orders are about each of them.
LEMMA HeldSound ==
  Quoted /\ AllowanceCovers <=> \A o \in held : Sound(o) /\ Covered(o, allowance)
BY DEF Quoted, AllowanceCovers, Sound, Covered

\* Orders that stay when an allowance changes are as sound as before, and those
\* that are not noted do not use it.
LEMMA TouchedSound ==
  ASSUME IInv, NEW S \in SUBSET held, NEW p,
         \A q \in Purses : q # p => allowance'[q] = allowance[q]
  PROVE  \A k \in Touched(S, p) : Sound(k) /\ Covered(k, allowance')
<1>1. S \in SUBSET Orders
  BY DEF IInv, TypeOK
<1> TAKE k \in Touched(S, p)
<1>2. PICK o \in S : /\ k.request = o.request /\ k.min = o.min /\ k.approve = o.approve
                     /\ k.out = o.out
  BY <1>1, TouchedOrders
<1>3. Sound(k)
  BY <1>2, HeldSound DEF IInv, Sound
<1>4. ASSUME ~k.touched, k.request.kind # "redeem"
      PROVE  allowance'[Purse(k.request)] >= k.request.amount
  <2>1. k \in S /\ ~UsesPurse(k.request, p)
    BY <1>1, <1>4, TouchedOrders
  <2>2. Purse(k.request) # p /\ Purse(k.request) \in Purses
    BY <1>1, <1>4, <2>1, OrderParts, PurseType DEF UsesPurse
  <2>3. allowance[Purse(k.request)] >= k.request.amount
    BY <1>4, <2>1 DEF IInv, AllowanceCovers
  <2> QED BY <2>2, <2>3
<1>5. Covered(k, allowance')
  BY <1>4 DEF Covered
<1> QED BY <1>3, <1>5

\* An order that is answered was taken by the chain when it was estimated.
LEMMA FinishSound ==
  ASSUME IInv, NEW w \in Workers, Finish(w)
  PROVE  \A o \in held' : Sound(o) /\ Covered(o, allowance')
<1> DEFINE b == build[w]
           min == Minimum(b)
           o == Order(b, min)
<1>1. b \in Builds /\ UNCHANGED allowance
  BY Busy DEF Finish, IInv, TypeOK, chain
<1>2. ASSUME NEW k \in held PROVE Sound(k) /\ Covered(k, allowance')
  BY <1>1, <1>2, HeldSound DEF IInv, Covered
<1>3. ASSUME min >= 0, Accepts(b.request, min) PROVE Sound(o) /\ Covered(o, allowance')
  <2>1. min \in Nat
    BY <1>1, <1>3, MinimumInt
  <2>2. /\ o.request = b.request /\ o.min = min /\ o.approve = b.approve
        /\ o.out = b.out
    BY <1>1, <2>1, OrderType
  <2>3. Allowed(b.request)
    BY <1>3 DEF Accepts
  <2>5. Sound(o)
    BY <2>2 DEF Sound, Minimum
  <2>6. Covered(o, allowance')
    BY <1>1, <2>2, <2>3 DEF Covered, Allowed
  <2> QED BY <2>5, <2>6
<1>4. held' = held \/ (min >= 0 /\ Accepts(b.request, min) /\ held' = held \cup {o})
  BY DEF Finish
<1> HIDE DEF b, min, o
<1> QED BY <1>2, <1>3, <1>4

\* An approval covers its own order.
LEMMA SendApprovalSound ==
  ASSUME IInv, NEW o \in held, SendApproval(o)
  PROVE  \A k \in held' : Sound(k) /\ Covered(k, allowance')
<1> DEFINE p == Purse(o.request)
           n == [o EXCEPT !.approve = FALSE, !.touched = FALSE]
<1>1. o \in Orders /\ o.request \in Requests
  BY OrderParts DEF IInv, TypeOK
<1>2. p \in Purses /\ o.request.amount \in Nat
  BY <1>1, PurseType, RequestParts
<1>3. allowance' = [allowance EXCEPT ![p] = o.request.amount]
  BY DEF SendApproval
<1>4. /\ allowance'[p] = o.request.amount
      /\ \A q \in Purses : q # p => allowance'[q] = allowance[q]
  BY <1>2, <1>3 DEF IInv, TypeOK
<1>5. /\ n.request = o.request /\ n.min = o.min /\ n.out = o.out /\ ~n.approve
  BY <1>1, ApprovedFields
<1>6. Sound(n)
  BY <1>5, HeldSound DEF IInv, Sound
<1>7. Covered(n, allowance')
  BY <1>2, <1>4, <1>5 DEF Covered
<1>8. held' = Touched(held \ {o}, p) \cup {n}
  BY DEF SendApproval
<1>9. \A k \in Touched(held \ {o}, p) : Sound(k) /\ Covered(k, allowance')
  BY <1>4, TouchedSound
<1> HIDE DEF p, n
<1> QED BY <1>6, <1>7, <1>8, <1>9

\* No step takes from an order what it relies on, unless it is noted.
LEMMA NextSound ==
  ASSUME IInv, [Next]_vars
  PROVE  \A o \in held' : Sound(o) /\ Covered(o, allowance')
<1>1. ASSUME held' \in SUBSET held, UNCHANGED allowance
      PROVE  \A o \in held' : Sound(o) /\ Covered(o, allowance')
  BY <1>1, HeldSound DEF IInv, Covered
<1>2. ASSUME NEW w \in Workers,
             Lookup(w) \/ Fails(w) \/ ReadPrice(w) \/ CallFails(w) \/ Restart(w)
                \/ \E r \in Requests : ReadAllowance(w, r)
      PROVE  \A o \in held' : Sound(o) /\ Covered(o, allowance')
  <2>1. UNCHANGED <<held, allowance>>
    BY <1>2 DEF Lookup, Fails, ReadPrice, CallFails, Restart, ReadAllowance, vars, chain
  <2> QED BY <1>1, <2>1
<1>3. ASSUME NEW p \in Purses, NEW amount \in Amounts \cup {0}, Approve(p, amount)
      PROVE  \A o \in held' : Sound(o) /\ Covered(o, allowance')
  BY <1>3, TouchedSound DEF Approve, IInv, TypeOK
<1>4. ASSUME NEW o \in held, Execute(o)
      PROVE  \A k \in held' : Sound(k) /\ Covered(k, allowance')
  <2>1. CASE o.request.kind = "redeem"
    BY <1>1, <1>4, <2>1 DEF Execute
  <2>2. CASE o.request.kind # "redeem"
    BY <1>4, <2>2, TouchedSound DEF Execute, IInv, TypeOK
  <2> QED BY <2>1, <2>2
<1>5. ASSUME NEW o \in held, Drop(o)
      PROVE  \A k \in held' : Sound(k) /\ Covered(k, allowance')
  BY <1>1, <1>5 DEF Drop, chain
<1>6. ASSUME NEW t \in TradedTokens, NEW p \in Prices, Move(t, p)
      PROVE  \A o \in held' : Sound(o) /\ Covered(o, allowance')
  BY <1>1, <1>6 DEF Move
<1>7. ASSUME NEW r \in Registries, CopyRegistry(r)
      PROVE  \A o \in held' : Sound(o) /\ Covered(o, allowance')
  BY <1>1, <1>7 DEF CopyRegistry, chain
<1>8. CASE UNCHANGED vars
  BY <1>1, <1>8 DEF vars, chain
<1> QED BY <1>2, <1>3, <1>4, <1>5, <1>6, <1>7, <1>8, FinishSound, SendApprovalSound
    DEF Next

\* Init establishes the invariant.
LEMMA InitInv == Init => IInv
<1> SUFFICES ASSUME Init PROVE IInv
  OBVIOUS
<1>1. TypeOK
  BY InitTyped
<1>2. held = {}
  BY DEF Init
<1> QED BY <1>1, <1>2 DEF IInv, Quoted, AllowanceCovers

\* Every step preserves it.
LEMMA NextInv == IInv /\ [Next]_vars => IInv'
<1> SUFFICES ASSUME IInv, [Next]_vars PROVE IInv'
  OBVIOUS
<1>1. TypeOK'
  BY NextTyped DEF IInv
<1>2. \A o \in held' : Sound(o) /\ Covered(o, allowance')
  BY NextSound
<1>3. Quoted' /\ AllowanceCovers'
  BY <1>2 DEF Quoted, AllowanceCovers, Sound, Covered
<1> QED BY <1>1, <1>3 DEF IInv

\* The invariant holds of every behaviour.
LEMMA Invariant == Spec => []IInv
BY InitInv, NextInv, PTL DEF Spec

\* An order that was answered does not fail for its allowance unless another
\* transaction of the wallet changed it.
THEOREM AllowancesCover == Spec => []AllowanceCovers
<1>1. IInv => AllowanceCovers
  BY DEF IInv
<1> QED BY <1>1, Invariant, PTL

-----------------------------------------------------------------------------
(* What swaps pay *)

\* A swap that the chain takes pays the minimum of its order, which is no less
\* than the quote and the slippage say, but for the rounding.
LEMMA PaysQuote ==
  ASSUME IInv, NEW o \in held, IsSwap(o.request), AmountOut(o.request) >= o.min
  PROVE  10000 * (AmountOut(o.request) + 1) > o.out * (10000 - o.request.bps)
<1> DEFINE x == o.out * (10000 - o.request.bps)
<1>1. o.request \in Requests /\ o.out \in Nat
  BY OrderParts DEF IInv, TypeOK
<1>2. AmountOut(o.request) \in Int /\ o.request.bps \in Int
  BY <1>1, AmountOutType, RequestParts DEF IInv, TypeOK
<1>3. x \in Int
  BY <1>1, <1>2
<1>4. o.min = x \div 10000
  BY DEF IInv, Quoted, ApplySlippage
<1> HIDE DEF x
<1>5. 10000 * (AmountOut(o.request) + 1) > x
  BY <1>2, <1>3, <1>4, DivBound
<1> QED BY <1>5 DEF x

\* The balances change with an order only, and that order is no longer held
\* while every other one is.
LEMMA NextPays ==
  ASSUME IInv, [Next]_vars,
         NEW o \in held, IsSwap(o.request), holding' # holding, \A k \in held' : k.id # o.id
  PROVE  AmountOut(o.request) >= o.min
<1>1. PICK e \in held : Execute(e)
  BY DEF Next, Lookup, Fails, ReadAllowance, ReadPrice, CallFails, Finish, Restart, Approve,
     SendApproval, Drop, Move, CopyRegistry, vars, chain
<1>2. CASE e = o
  BY <1>1, <1>2 DEF Execute, Accepts, Pays
<1>3. CASE e # o
  <2>1. o \in held \ {e} /\ held \ {e} \in SUBSET Orders
    BY <1>3 DEF IInv, TypeOK
  <2>2. held' = held \ {e} \/ held' = Touched(held \ {e}, Purse(e.request))
    BY <1>1 DEF Execute
  <2>3. \E k \in held' : k.id = o.id
    BY <2>1, <2>2, TouchedOrders
  <2> QED BY <2>3
<1> QED BY <1>2, <1>3

\* What a swap pays is what it was quoted less the slippage that was asked for,
\* however prices move before it is mined.
THEOREM MinimumIsKept == Spec => MinimumKept
<1>1. ASSUME IInv, [Next]_vars
      PROVE  [\A o \in held :
                /\ IsSwap(o.request) /\ holding' # holding
                /\ \A k \in held' : k.id # o.id
                => 10000 * (AmountOut(o.request) + 1) > o.out * (10000 - o.request.bps)]_vars
  BY <1>1, NextPays, PaysQuote
<1> QED BY <1>1, Invariant, PTL DEF Spec, MinimumKept
=============================================================================
