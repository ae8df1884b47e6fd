-------------------------- MODULE SynthOrdersProofs --------------------------
(***************************************************************************)
(* Theorems about SynthOrders, for any processes, feeds, amounts, funds    *)
(* and number of transactions.                                             *)
(***************************************************************************)
EXTENDS SynthOrders, TLAPS

-----------------------------------------------------------------------------
(* What records are made of *)

\* A request that is not for less than nothing becomes a call.
LEMMA CallFields ==
  ASSUME NEW r \in Requests(Kinds), r.amount >= 0
  PROVE  /\ Call(r) \in Calls
         /\ Call(r).kind = r.kind
         /\ Call(r).amount = r.amount
<1>1. r.kind \in Kinds /\ r.amount \in Amounts
  BY DEF Requests
<1>2. r.amount \in Int
  BY <1>1, SynthAssumption
<1>3. r.amount \in Nat
  BY <1>2
<1> QED BY <1>1, <1>3 DEF Call, Calls

\* The parts of a request.
LEMMA RequestParts ==
  ASSUME NEW r \in Requests(OrdersKinds) \cup Requests(PortfolioKinds)
  PROVE  r \in Requests(Kinds) /\ r.kind \in Kinds /\ r.amount \in Amounts /\ r.amount \in Int
BY SynthAssumption DEF Requests, Kinds

\* A transaction has the fields it is made of, and a recent update.
LEMMA TransactionFields ==
  ASSUME NEW c \in Calls, NEW f \in Feeds \cup {NoFeed}, NEW e \in BOOLEAN
  PROVE  /\ Transaction(c, f, e) \in Transactions
         /\ Transaction(c, f, e).call = c
         /\ Transaction(c, f, e).update = f
         /\ Transaction(c, f, e).estimated = e
         /\ Transaction(c, f, e).current = TRUE
BY DEF Transaction, Transactions

\* The parts of a transaction.
LEMMA TransactionParts ==
  ASSUME NEW t \in Transactions
  PROVE  /\ t.call \in Calls
         /\ t.update \in Feeds \cup {NoFeed}
         /\ t.call.kind \in Kinds
         /\ t.call.amount \in Nat
BY DEF Transactions, Calls

\* A transaction whose estimate is out of date is one, with the same call.
LEMMA OutdatedFields ==
  ASSUME NEW t \in Transactions
  PROVE  /\ [t EXCEPT !.estimated = FALSE] \in Transactions
         /\ [t EXCEPT !.estimated = FALSE].call = t.call
         /\ [t EXCEPT !.estimated = FALSE].estimated = FALSE
         /\ [t EXCEPT !.current = FALSE, !.estimated = FALSE] \in Transactions
         /\ [t EXCEPT !.current = FALSE, !.estimated = FALSE].call = t.call
         /\ [t EXCEPT !.current = FALSE, !.estimated = FALSE].estimated = FALSE
BY DEF Transactions

\* Each transaction whose estimate was dropped has the call of one that it was.
LEMMA OutdatedMembers ==
  ASSUME NEW ts \in SUBSET Transactions, NEW u \in Outdated(ts)
  PROVE  u.estimated = FALSE /\ \E v \in ts : u.call = v.call
<1>1. PICK v \in ts : u = [v EXCEPT !.estimated = FALSE]
  BY Zenon DEF Outdated
<1>2. v \in Transactions
  OBVIOUS
<1>3. u.call = v.call /\ u.estimated = FALSE
  BY <1>1, <1>2, OutdatedFields
<1> QED BY <1>3

\* No worker that resolves a trade is without one.
LEMMA BuildParts ==
  ASSUME TypeOK, NEW w \in Workers, build[w] # NoBuild
  PROVE  build[w] \in Builds /\ build[w].call \in Calls /\ build[w].feed \in Feeds
<1>1. build[w] \in Builds
  BY DEF TypeOK
<1> QED BY <1>1 DEF Builds

-----------------------------------------------------------------------------
(* Type correctness *)

\* A call that the account has the funds for leaves an account.
LEMMA AfterTyped ==
  ASSUME account \in Accounts, NEW c \in Calls, Funded(c)
  PROVE  After(c) \in Accounts
<1> DEFINE a == c.amount
<1>1. /\ account.exists \in BOOLEAN
      /\ account.usd \in Nat /\ account.synth \in Nat /\ account.collateral \in Nat
      /\ account.available \in Nat /\ account.delegated \in Nat /\ account.debt \in Nat
  BY DEF Accounts
<1>2. c.kind \in Kinds /\ a \in Nat
  BY DEF Calls
<1> HIDE DEF a
<1>3. CASE c.kind = "create"
  BY <1>3 DEF After, Accounts
<1>4. CASE c.kind = "buy"
  <2>1. account.usd >= a
    BY <1>4 DEF Funded, a
  <2>2. account.usd - a \in Nat /\ account.synth + a \in Nat
    BY <1>1, <1>2, <2>1
  <2> QED BY <1>4, <2>2 DEF After, Accounts, a
<1>5. CASE c.kind = "sell"
  <2>1. account.synth >= a
    BY <1>5 DEF Funded, a
  <2>2. account.synth - a \in Nat /\ account.usd + a \in Nat
    BY <1>1, <1>2, <2>1
  <2> QED BY <1>5, <2>2 DEF After, Accounts, a
<1>6. CASE c.kind = "wrap"
  <2>1. account.collateral >= a
    BY <1>6 DEF Funded, a
  <2>2. account.collateral - a \in Nat /\ account.synth + a \in Nat
    BY <1>1, <1>2, <2>1
  <2> QED BY <1>6, <2>2 DEF After, Accounts, a
<1>7. CASE c.kind = "deposit"
  <2>1. account.collateral >= a
    BY <1>7 DEF Funded, a
  <2>2. account.collateral - a \in Nat /\ account.available + a \in Nat
    BY <1>1, <1>2, <2>1
  <2> QED BY <1>7, <2>2 DEF After, Accounts, a
<1>8. CASE c.kind = "withdraw"
  <2>1. account.available >= a
    BY <1>8 DEF Funded, a
  <2>2. account.available - a \in Nat /\ account.collateral + a \in Nat
    BY <1>1, <1>2, <2>1
  <2> QED BY <1>8, <2>2 DEF After, Accounts, a
<1>9. CASE c.kind = "delegate"
  <2>1. account.available + account.delegated >= a
    BY <1>9 DEF Funded, a
  <2>2. account.available + account.delegated - a \in Nat
    BY <1>1, <1>2, <2>1
  <2> QED BY <1>2, <1>9, <2>2 DEF After, Accounts, a
<1>10. CASE c.kind = "mint"
  <2>1. account.debt + a \in Nat /\ account.usd + a \in Nat
    BY <1>1, <1>2
  <2> QED BY <1>10, <2>1 DEF After, Accounts, a
<1>11. CASE c.kind = "burn"
  <2>1. account.debt >= a /\ account.usd >= a
    BY <1>11 DEF Funded, a
  <2>2. account.debt - a \in Nat /\ account.usd - a \in Nat
    BY <1>1, <1>2, <2>1
  <2> QED BY <1>11, <2>2 DEF After, Accounts, a
<1> QED BY <1>2, <1>3, <1>4, <1>5, <1>6, <1>7, <1>8, <1>9, <1>10, <1>11
        DEF Kinds, OrdersKinds, PortfolioKinds

\* Transactions stay transactions when their estimates are dropped.
LEMMA OutdatedTyped ==
  ASSUME NEW ts \in SUBSET Transactions
  PROVE  Outdated(ts) \in SUBSET Transactions
BY OutdatedFields DEF Outdated

\* An answer is one transaction more.
LEMMA AnswerTyped ==
  ASSUME held \in SUBSET Transactions, NEW c \in Calls, NEW f \in Feeds \cup {NoFeed},
         NEW e \in BOOLEAN, Answer(Transaction(c, f, e))
  PROVE  held' \in SUBSET Transactions
<1> DEFINE t == Transaction(c, f, e)
<1>1. t \in Transactions
  BY TransactionFields
<1>2. held' = held \cup {t}
  BY Zenon DEF Answer
<1> HIDE DEF t
<1> QED BY <1>1, <1>2

\* The builders answer with a transaction for the call of the request, and with
\* an estimate only if the chain takes it.
LEMMA BuilderAnswers ==
  ASSUME NEW w, NEW r, BuildUnchecked(w, r) \/ Build(w, r)
  PROVE  \E e \in BOOLEAN :
           Answer(Transaction(Call(r), NoFeed, e)) /\ (e => Accepts(Call(r), NoFeed, TRUE))
<1>1. \/ Answer(Transaction(Call(r), NoFeed, FALSE))
      \/ Accepts(Call(r), NoFeed, TRUE) /\ Answer(Transaction(Call(r), NoFeed, TRUE))
  BY Zenon DEF BuildUnchecked, Build
<1> QED BY <1>1, Zenon

\* So does an attempt to resolve a revert, when it ends.
LEMMA ResolverAnswers ==
  ASSUME NEW w, Resolve(w) \/ ResolveFails(w)
  PROVE  \E e \in BOOLEAN, f \in {build[w].feed, NoFeed} :
           /\ Answer(Transaction(build[w].call, f, e))
           /\ e => Accepts(build[w].call, f, TRUE)
<1>1. \/ Answer(Transaction(build[w].call, NoFeed, FALSE))
      \/ Answer(Transaction(build[w].call, build[w].feed, FALSE))
      \/ /\ Accepts(build[w].call, build[w].feed, TRUE)
         /\ Answer(Transaction(build[w].call, build[w].feed, TRUE))
  BY Zenon DEF Resolve, ResolveFails
<1> QED BY <1>1, Zenon

\* The builders that only answer keep the types.
LEMMA BuilderTyped ==
  ASSUME TypeOK, NEW w \in Workers,
         NEW r \in Requests(OrdersKinds) \cup Requests(PortfolioKinds),
         BuildUnchecked(w, r) \/ Build(w, r)
  PROVE  TypeOK'
<1>1. r \in Requests(Kinds) /\ r.amount \in Amounts /\ r.amount \in Int
  BY RequestParts
<1>2. r.amount >= 0
  <2>1. r.amount >= 0 \/ r.amount > 0
    BY Zenon DEF BuildUnchecked, Build
  <2> QED BY <1>1, <2>1
<1>3. Call(r) \in Calls
  BY <1>1, <1>2, CallFields
<1>4. held' \in SUBSET Transactions
  BY <1>3, BuilderAnswers, AnswerTyped DEF TypeOK
<1>5. asked' \in SUBSET Amounts
  BY <1>1 DEF BuildUnchecked, Build, Asked, TypeOK
<1>6. UNCHANGED <<build, account, fresh>>
  BY DEF BuildUnchecked, Build
<1> QED BY <1>4, <1>5, <1>6 DEF TypeOK

\* So does the start of an attempt to resolve a revert.
LEMMA InterceptTyped ==
  ASSUME TypeOK, NEW w \in Workers, NEW r \in Requests(OrdersKinds), NEW f \in Feeds,
         Intercept(w, r, f)
  PROVE  TypeOK'
<1>1. r.amount >= 0 /\ r \in Requests(Kinds)
  BY RequestParts DEF Intercept
<1>2. Call(r) \in Calls
  BY <1>1, CallFields
<1>3. build' \in [Workers -> Builds \cup {NoBuild}]
  BY <1>2 DEF Intercept, TypeOK, Builds
<1> QED BY <1>3 DEF Intercept, TypeOK

\* So does its end.
LEMMA ResolveTyped ==
  ASSUME TypeOK, NEW w \in Workers, Resolve(w) \/ ResolveFails(w)
  PROVE  TypeOK'
<1>1. build[w].call \in Calls /\ build[w].feed \in Feeds
  BY BuildParts DEF Resolve, ResolveFails
<1>2. held' \in SUBSET Transactions
  BY <1>1, ResolverAnswers, AnswerTyped DEF TypeOK
<1>3. build' \in [Workers -> Builds \cup {NoBuild}]
  BY DEF Resolve, ResolveFails, TypeOK
<1> QED BY <1>2, <1>3 DEF Resolve, ResolveFails, TypeOK

\* So does what the client does.
LEMMA ClientTyped ==
  ASSUME TypeOK, NEW t \in held, Send(t) \/ Discard(t) \/ Expire(t)
  PROVE  TypeOK'
<1>1. t \in Transactions /\ t.update \in Feeds \cup {NoFeed} /\ t.call \in Calls
  BY TransactionParts DEF TypeOK
<1>2. CASE Send(t)
  <2>1. account' \in Accounts
    BY <1>1, <1>2, AfterTyped DEF Send, Accepts, TypeOK
  <2>2. held' \in SUBSET Transactions
    BY <1>2, OutdatedTyped DEF Send, TypeOK
  <2>3. fresh' \in SUBSET Feeds
    BY <1>1, <1>2 DEF Send, TypeOK
  <2> QED BY <1>2, <2>1, <2>2, <2>3 DEF Send, TypeOK
<1>3. CASE Discard(t)
  BY <1>3 DEF Discard, TypeOK
<1>4. CASE Expire(t)
  <2>1. held' \in SUBSET Transactions
    BY <1>1, <1>4, OutdatedFields DEF Expire, TypeOK
  <2> QED BY <1>4, <2>1 DEF Expire, TypeOK
<1> QED BY <1>2, <1>3, <1>4

\* So do the feeds.
LEMMA FeedTyped ==
  ASSUME TypeOK, NEW f \in Feeds, Age(f) \/ Refresh(f)
  PROVE  TypeOK'
BY OutdatedTyped DEF Age, Refresh, TypeOK

\* Init gives every variable its type.
LEMMA InitTyped == Init => TypeOK
BY SynthAssumption DEF Init, TypeOK, Accounts

\* So does every step.
LEMMA NextTyped == TypeOK /\ [Next]_vars => TypeOK'
<1> SUFFICES ASSUME TypeOK, [Next]_vars PROVE TypeOK'
  OBVIOUS
<1>1. ASSUME UNCHANGED vars PROVE TypeOK'
  BY <1>1 DEF TypeOK, vars
<1>2. ASSUME NEW w \in Workers, Refused(w) PROVE TypeOK'
  BY <1>1, <1>2 DEF Refused
<1>3. ASSUME NEW w \in Workers, NEW r \in Requests(PortfolioKinds), BuildUnchecked(w, r)
      PROVE  TypeOK'
  BY <1>3, BuilderTyped
<1>4. ASSUME NEW w \in Workers, NEW r \in Requests(OrdersKinds), Build(w, r)
      PROVE  TypeOK'
  BY <1>4, BuilderTyped
<1>5. ASSUME NEW w \in Workers, NEW r \in Requests(OrdersKinds), NEW f \in Feeds,
             Intercept(w, r, f)
      PROVE  TypeOK'
  BY <1>5, InterceptTyped
<1>6. ASSUME NEW w \in Workers, Resolve(w) \/ ResolveFails(w) PROVE TypeOK'
  BY <1>6, ResolveTyped
<1>7. ASSUME NEW t \in held, Send(t) \/ Discard(t) \/ Expire(t) PROVE TypeOK'
  BY <1>7, ClientTyped
<1>8. ASSUME NEW f \in Feeds, Age(f) \/ Refresh(f) PROVE TypeOK'
  BY <1>8, FeedTyped
<1> QED BY <1>1, <1>2, <1>3, <1>4, <1>5, <1>6, <1>7, <1>8 DEF Next

\* Every variable always has its type: no account is ever overdrawn.
THEOREM TypeCorrect == Spec => []TypeOK
BY InitTyped, NextTyped, PTL DEF Spec

-----------------------------------------------------------------------------
(* What an estimate is worth *)

\* The chain takes what it was estimated to take, as long as it does not change.
LEMMA AnswerHolds ==
  ASSUME EstimateHolds, NEW c \in Calls, NEW f \in Feeds \cup {NoFeed}, NEW e \in BOOLEAN,
         Answer(Transaction(c, f, e)), e => Accepts(c, f, TRUE),
         UNCHANGED <<account, fresh>>
  PROVE  EstimateHolds'
<1> DEFINE t == Transaction(c, f, e)
<1>1. t.call = c /\ t.update = f /\ t.estimated = e /\ t.current = TRUE
  BY TransactionFields
<1>2. held' = held \cup {t}
  BY Zenon DEF Answer
<1>3. t.estimated => Accepts(t.call, t.update, t.current)
  BY <1>1, Zenon
<1> HIDE DEF t
<1>4. \A u \in held' : u.estimated => Accepts(u.call, u.update, u.current)
  BY <1>2, <1>3, Zenon DEF EstimateHolds
<1>5. ASSUME NEW d, NEW g, NEW b, Accepts(d, g, b)
      PROVE  Accepts(d, g, b)'
  BY <1>5 DEF Accepts, Funded
<1> QED BY <1>4, <1>5 DEF EstimateHolds

\* EstimateHolds speaks of what is estimated only, and Outdated leaves none.
LEMMA OutdatedHolds ==
  ASSUME held \in SUBSET Transactions, held' = Outdated(held)
  PROVE  EstimateHolds'
<1>1. \A u \in held' : u.estimated = FALSE
  BY OutdatedMembers
<1> QED BY <1>1 DEF EstimateHolds

\* The chain still takes a call when one more feed is recent.
LEMMA RefreshHolds ==
  ASSUME NEW f \in Feeds, Refresh(f), NEW c, NEW g, NEW b, Accepts(c, g, b)
  PROVE  Accepts(c, g, b)'
<1>1. Funded(c)' = Funded(c)
  BY DEF Refresh, Funded
<1>2. fresh \subseteq fresh'
  BY DEF Refresh
<1>3. g # NoFeed => b
  BY Zenon DEF Accepts
<1>4. Priced(c) => Feeds \subseteq fresh' \cup {g}
  BY <1>2 DEF Accepts
<1>5. Funded(c)'
  BY <1>1 DEF Accepts
<1>6. Priced(c)' = Priced(c)
  BY DEF Priced, IsTrade
<1> QED BY <1>3, <1>4, <1>5, <1>6, Zenon DEF Accepts

\* Every step keeps the promise of the estimates.
LEMMA NextHolds == TypeOK /\ EstimateHolds /\ [Next]_vars => EstimateHolds'
<1> SUFFICES ASSUME TypeOK, EstimateHolds, [Next]_vars PROVE EstimateHolds'
  OBVIOUS
<1>1. held \in SUBSET Transactions
  BY DEF TypeOK
<1>2. ASSUME UNCHANGED vars PROVE EstimateHolds'
  BY <1>2 DEF EstimateHolds, Accepts, Funded, vars
<1>3. ASSUME NEW w \in Workers, Refused(w) PROVE EstimateHolds'
  BY <1>2, <1>3 DEF Refused
<1>4. ASSUME NEW w \in Workers,
             NEW r \in Requests(OrdersKinds) \cup Requests(PortfolioKinds),
             BuildUnchecked(w, r) \/ Build(w, r)
      PROVE  EstimateHolds'
  <2>1. r \in Requests(Kinds) /\ r.amount >= 0
    <3>1. r \in Requests(Kinds) /\ r.amount \in Int
      BY RequestParts
    <3>2. r.amount >= 0 \/ r.amount > 0
      BY <1>4, Zenon DEF BuildUnchecked, Build
    <3> QED BY <3>1, <3>2
  <2>2. Call(r) \in Calls
    BY <2>1, CallFields
  <2>3. UNCHANGED <<account, fresh>>
    BY <1>4 DEF BuildUnchecked, Build
  <2> QED BY <1>4, <2>2, <2>3, BuilderAnswers, AnswerHolds
<1>5. ASSUME NEW w \in Workers, NEW r \in Requests(OrdersKinds), NEW f \in Feeds,
             Intercept(w, r, f)
      PROVE  EstimateHolds'
  BY <1>5 DEF Intercept, EstimateHolds, Accepts, Funded
<1>6. ASSUME NEW w \in Workers, Resolve(w) \/ ResolveFails(w) PROVE EstimateHolds'
  <2>1. build[w].call \in Calls /\ build[w].feed \in Feeds
    BY <1>6, BuildParts DEF Resolve, ResolveFails
  <2>2. UNCHANGED <<account, fresh>>
    BY <1>6 DEF Resolve, ResolveFails
  <2> QED BY <1>6, <2>1, <2>2, ResolverAnswers, AnswerHolds
<1>7. ASSUME NEW t \in held, Send(t) PROVE EstimateHolds'
  BY <1>1, <1>7, OutdatedHolds DEF Send
<1>8. ASSUME NEW t \in held, Discard(t) PROVE EstimateHolds'
  BY <1>8 DEF Discard, EstimateHolds, Accepts, Funded
<1>9. ASSUME NEW t \in held, Expire(t) PROVE EstimateHolds'
  <2> DEFINE u == [t EXCEPT !.current = FALSE, !.estimated = FALSE]
  <2>1. u.estimated = FALSE
    BY <1>1, OutdatedFields
  <2>2. held' = (held \ {t}) \cup {u} /\ UNCHANGED <<account, fresh>>
    BY <1>9 DEF Expire
  <2> HIDE DEF u
  <2> QED BY <2>1, <2>2 DEF EstimateHolds, Accepts, Funded
<1>10. ASSUME NEW f \in Feeds, Age(f) PROVE EstimateHolds'
  BY <1>1, <1>10, OutdatedHolds DEF Age
<1>11. ASSUME NEW f \in Feeds, Refresh(f) PROVE EstimateHolds'
  <2>1. held' = held
    BY <1>11 DEF Refresh
  <2> QED BY <1>11, <2>1, RefreshHolds DEF EstimateHolds
<1> QED BY <1>2, <1>3, <1>4, <1>5, <1>6, <1>7, <1>8, <1>9, <1>10, <1>11 DEF Next

\* A transaction that came with an estimate is taken as long as nothing changed.
THEOREM EstimatesHold == Spec => []EstimateHolds
<1>1. Init => EstimateHolds
  BY DEF Init, EstimateHolds
<1> QED BY <1>1, TypeCorrect, NextHolds, PTL DEF Spec

-----------------------------------------------------------------------------
(* Delegations *)

\* What the client could sign to delegate was asked for, and so was what is
\* delegated.  A trade that is being resolved delegates nothing.
DelegationsAsked ==
  /\ \A t \in held : t.call.kind = "delegate" => t.call.amount \in asked
  /\ \A w \in Workers : build[w] # NoBuild => build[w].call.kind \in {"buy", "sell"}
  /\ DelegatedAsAsked

\* Answers are for calls that delegate what was asked for.
LEMMA AnswerAsked ==
  ASSUME NEW c \in Calls, NEW f \in Feeds \cup {NoFeed}, NEW e \in BOOLEAN,
         Answer(Transaction(c, f, e)), c.kind = "delegate" => c.amount \in asked',
         asked \subseteq asked',
         \A t \in held : t.call.kind = "delegate" => t.call.amount \in asked
  PROVE  \A t \in held' : t.call.kind = "delegate" => t.call.amount \in asked'
<1> DEFINE u == Transaction(c, f, e)
<1>1. u.call = c
  BY TransactionFields
<1>2. held' = held \cup {u}
  BY Zenon DEF Answer
<1> HIDE DEF u
<1> QED BY <1>1, <1>2

\* A call other than a delegation leaves what is delegated.
LEMMA AfterDelegated ==
  ASSUME account \in Accounts, NEW c \in Calls
  PROVE  After(c).delegated =
           IF c.kind = "delegate" THEN c.amount ELSE account.delegated
<1>1. c.kind \in Kinds
  BY DEF Calls
<1>2. CASE c.kind \in {"create", "buy", "sell", "wrap"}
  BY <1>2 DEF After, Accounts
<1>3. CASE c.kind \in {"deposit", "withdraw", "mint", "burn"}
  BY <1>3 DEF After, Accounts
<1>4. CASE c.kind = "delegate"
  BY <1>4 DEF After, Accounts
<1> QED BY <1>1, <1>2, <1>3, <1>4 DEF Kinds, OrdersKinds, PortfolioKinds

\* Steps that do not touch the account and forget nothing of what was asked.
LEMMA AccountKept ==
  ASSUME DelegatedAsAsked, UNCHANGED account, asked \subseteq asked'
  PROVE  DelegatedAsAsked'
BY DEF DelegatedAsAsked

\* Every step keeps the invariant.
LEMMA NextAsked == TypeOK /\ DelegationsAsked /\ [Next]_vars => DelegationsAsked'
<1> SUFFICES ASSUME TypeOK, DelegationsAsked, [Next]_vars PROVE DelegationsAsked'
  OBVIOUS
<1>1. held \in SUBSET Transactions
  BY DEF TypeOK
<1>2. ASSUME UNCHANGED vars PROVE DelegationsAsked'
  BY <1>2 DEF DelegationsAsked, DelegatedAsAsked, vars
<1>3. ASSUME NEW w \in Workers, Refused(w) PROVE DelegationsAsked'
  BY <1>2, <1>3 DEF Refused
<1>4. ASSUME NEW w \in Workers,
             NEW r \in Requests(OrdersKinds) \cup Requests(PortfolioKinds),
             BuildUnchecked(w, r) \/ Build(w, r)
      PROVE  DelegationsAsked'
  <2>1. r \in Requests(Kinds) /\ r.amount >= 0
    <3>1. r \in Requests(Kinds) /\ r.amount \in Int
      BY RequestParts
    <3>2. r.amount >= 0 \/ r.amount > 0
      BY <1>4, Zenon DEF BuildUnchecked, Build
    <3> QED BY <3>1, <3>2
  <2>2. Call(r) \in Calls /\ Call(r).kind = r.kind /\ Call(r).amount = r.amount
    BY <2>1, CallFields
  <2>3. asked \subseteq asked' /\ (r.kind = "delegate" => r.amount \in asked')
    BY <1>4 DEF BuildUnchecked, Build, Asked
  <2>4. \A t \in held' : t.call.kind = "delegate" => t.call.amount \in asked'
    <3>1. PICK e \in BOOLEAN : Answer(Transaction(Call(r), NoFeed, e))
      BY <1>4, BuilderAnswers, Zenon
    <3> QED BY <2>2, <2>3, <3>1, AnswerAsked DEF DelegationsAsked
  <2>5. UNCHANGED <<build, account>>
    BY <1>4 DEF BuildUnchecked, Build
  <2> QED BY <2>3, <2>4, <2>5, AccountKept DEF DelegationsAsked
<1>5. ASSUME NEW w \in Workers, NEW r \in Requests(OrdersKinds), NEW f \in Feeds,
             Intercept(w, r, f)
      PROVE  DelegationsAsked'
  <2>1. r.kind \in {"buy", "sell"} /\ Call(r).kind = r.kind
    BY <1>5 DEF Intercept, IsTrade, Call
  <2>2. /\ build'[w].call = Call(r)
        /\ \A v \in Workers \ {w} : build'[v] = build[v]
    BY <1>5 DEF Intercept, TypeOK
  <2>3. UNCHANGED <<held, account, asked>>
    BY <1>5 DEF Intercept
  <2> QED BY <2>1, <2>2, <2>3, AccountKept DEF DelegationsAsked
<1>6. ASSUME NEW w \in Workers, Resolve(w) \/ ResolveFails(w) PROVE DelegationsAsked'
  <2>1. build[w].call \in Calls /\ build[w].feed \in Feeds
    BY <1>6, BuildParts DEF Resolve, ResolveFails
  <2>2. build[w].call.kind \in {"buy", "sell"}
    BY <1>6 DEF Resolve, ResolveFails, DelegationsAsked
  <2>3. UNCHANGED <<account, fresh, asked>>
    BY <1>6 DEF Resolve, ResolveFails
  <2>4. \A t \in held' : t.call.kind = "delegate" => t.call.amount \in asked'
    <3>1. PICK e \in BOOLEAN, f \in {build[w].feed, NoFeed} :
            Answer(Transaction(build[w].call, f, e))
      BY <1>6, ResolverAnswers, Zenon
    <3> QED BY <2>1, <2>2, <2>3, <3>1, AnswerAsked DEF DelegationsAsked
  <2>5. build'[w] = NoBuild /\ \A v \in Workers \ {w} : build'[v] = build[v]
    BY <1>6 DEF Resolve, ResolveFails, TypeOK
  <2> QED BY <2>3, <2>4, <2>5, AccountKept DEF DelegationsAsked
<1>7. ASSUME NEW t \in held, Send(t) PROVE DelegationsAsked'
  <2>1. account' = After(t.call) /\ held' = Outdated(held) /\ UNCHANGED <<build, asked>>
    BY <1>7 DEF Send
  <2>2. t.call \in Calls
    BY <1>1, TransactionParts
  <2>3. account'.delegated =
          IF t.call.kind = "delegate" THEN t.call.amount ELSE account.delegated
    BY <2>1, <2>2, AfterDelegated DEF TypeOK
  <2>4. DelegatedAsAsked'
    BY <2>1, <2>3 DEF DelegatedAsAsked, DelegationsAsked
  <2>5. \A u \in held' : \E v \in held : u.call = v.call
    BY <1>1, <2>1, OutdatedMembers
  <2> QED BY <2>1, <2>4, <2>5 DEF DelegationsAsked
<1>8. ASSUME NEW t \in held, Discard(t) \/ Expire(t) PROVE DelegationsAsked'
  <2>1. UNCHANGED <<build, account, asked>>
    BY <1>8 DEF Discard, Expire
  <2>2. \A u \in held' : \E v \in held : u.call = v.call
    BY <1>1, <1>8, OutdatedFields DEF Discard, Expire
  <2> QED BY <2>1, <2>2, AccountKept DEF DelegationsAsked
<1>9. ASSUME NEW f \in Feeds, Age(f) \/ Refresh(f) PROVE DelegationsAsked'
  <2>1. UNCHANGED <<build, account, asked>>
    BY <1>9 DEF Age, Refresh
  <2>2. \A u \in held' : \E v \in held : u.call = v.call
    BY <1>1, <1>9, OutdatedMembers DEF Age, Refresh
  <2> QED BY <2>1, <2>2, AccountKept DEF DelegationsAsked
<1> QED BY <1>2, <1>3, <1>4, <1>5, <1>6, <1>7, <1>8, <1>9 DEF Next

\* What is delegated is what some request asked for.
THEOREM DelegationsAreAsked == Spec => []DelegatedAsAsked
<1>1. Init => DelegationsAsked
  BY DEF Init, DelegationsAsked, DelegatedAsAsked
<1>2. DelegationsAsked => DelegatedAsAsked
  BY DEF DelegationsAsked
<1> QED BY <1>1, <1>2, TypeCorrect, NextAsked, PTL DEF Spec
=============================================================================
