----------------------------- MODULE SynthOrders -----------------------------
(***************************************************************************)
(* The builders of transactions to the Synthetix contracts: trades of      *)
(* synths in api/v1/orders.py, positions in the vaults there and in        *)
(* api/v1/portfolio.py, and the attempt of chain/eip7412.py to put a price *)
(* update in front of a trade that reverts for want of one.                *)
(*                                                                         *)
(* The chain is external: one account of one wallet, one synth, and the    *)
(* feeds that prices come from, which are fresh or stale.  Everything is   *)
(* worth the same, and min_received, which the builders pass on, is never  *)
(* missed.                                                                 *)
(***************************************************************************)
EXTENDS Integers, FiniteSets

CONSTANTS
  Workers,  \* server processes
  Feeds,    \* the price feeds that the contracts consult
  NoFeed,   \* in a transaction that updates none
  Amounts,  \* amounts of requests: portfolio.py takes any integer
  Funds,    \* axUSD and collateral in the wallet at first
  MaxHeld   \* bound on the transactions that the client has at a time

ASSUME SynthAssumption ==
  /\ NoFeed \notin Feeds
  /\ Amounts \subseteq Int
  /\ Funds \in Nat
  /\ MaxHeld \in Nat

VARIABLES
  build,    \* the trade whose revert each worker tries to resolve
  held,     \* transactions the client has: it may sign each any number of times
  account,  \* what the wallet and its account have
  fresh,    \* the feeds whose price on the chain is recent
  asked     \* history: what requests to delegate asked for

vars == <<build, held, account, fresh, asked>>

-----------------------------------------------------------------------------
\* What the routers build.  An undelegation is a delegation.
OrdersKinds == {"buy", "sell", "deposit", "withdraw", "delegate", "mint", "burn"}
PortfolioKinds == {"create", "deposit", "withdraw", "delegate", "mint", "wrap"}
Kinds == OrdersKinds \cup PortfolioKinds

\* The amount of "create" means nothing.
Requests(kinds) == [kind : kinds, amount : Amounts]

\* The calls that the ABI can encode.
Calls == [kind : Kinds, amount : Nat]

IsTrade(c) == c.kind \in {"buy", "sell"}

\* As Call, with a delegation taken for one on top of what is delegated.
CallOnTop(r) ==
  [kind |-> r.kind,
   amount |-> r.amount + IF r.kind = "delegate" THEN account.delegated ELSE 0]

\* The call to a contract that a request becomes: the amount is passed on, for
\* delegateCollateral() as what is to be delegated in all.
Call(r) == [kind |-> r.kind, amount |-> r.amount]

\* A transaction to sign: its call and the feed it updates first.  History:
\* `current` is whether its update is recent enough, `estimated` whether it came
\* with a gas_estimate and the chain did not change since.
Transactions ==
  [call : Calls, update : Feeds \cup {NoFeed}, estimated : BOOLEAN, current : BOOLEAN]

Transaction(c, f, estimated) ==
  [call |-> c, update |-> f, estimated |-> estimated, current |-> TRUE]

\* A trade that reverted with OracleDataRequired for a feed.
Builds == [call : Calls, feed : Feeds]

NoBuild == [feed |-> NoFeed]

\* `available` is deposited and not delegated.
Accounts ==
  [exists : BOOLEAN, usd : Nat, synth : Nat, collateral : Nat, available : Nat,
   delegated : Nat, debt : Nat]

Init ==
  /\ build = [w \in Workers |-> NoBuild]
  /\ held = {}
  /\ account = [exists |-> FALSE, usd |-> Funds, synth |-> 0, collateral |-> Funds,
                available |-> 0, delegated |-> 0, debt |-> 0]
  /\ fresh \in SUBSET Feeds
  /\ asked = {}

-----------------------------------------------------------------------------
(* The contracts *)

\* The account has what a call takes, and keeps its debt covered.
Funded(c) ==
  CASE c.kind = "create" -> TRUE
    [] c.kind = "buy" -> account.usd >= c.amount
    [] c.kind = "sell" -> account.synth >= c.amount
    [] c.kind = "wrap" -> account.collateral >= c.amount
    [] c.kind = "deposit" -> account.exists /\ account.collateral >= c.amount
    [] c.kind = "withdraw" -> account.exists /\ account.available >= c.amount
    [] c.kind = "delegate" -> /\ account.exists
                              /\ account.available + account.delegated >= c.amount
                              /\ c.amount >= account.debt
    [] c.kind = "mint" -> account.exists /\ account.delegated >= account.debt + c.amount
    [] OTHER -> account.exists /\ account.debt >= c.amount /\ account.usd >= c.amount

\* The calls that need prices.
Priced(c) == IsTrade(c) \/ c.kind \in {"delegate", "mint"}

\* The chain takes a call with feed f updated first, by an update that is
\* recent: Multicall3 runs both or reverts.
Accepts(c, f, current) ==
  /\ f # NoFeed => current
  /\ Priced(c) => Feeds \subseteq fresh \cup {f}
  /\ Funded(c)

\* The account after a call.
After(c) ==
  LET a == c.amount IN
  CASE c.kind = "create" -> [account EXCEPT !.exists = TRUE]
    [] c.kind = "buy" -> [account EXCEPT !.usd = @ - a, !.synth = @ + a]
    [] c.kind = "sell" -> [account EXCEPT !.synth = @ - a, !.usd = @ + a]
    [] c.kind = "wrap" -> [account EXCEPT !.collateral = @ - a, !.synth = @ + a]
    [] c.kind = "deposit" -> [account EXCEPT !.collateral = @ - a, !.available = @ + a]
    [] c.kind = "withdraw" -> [account EXCEPT !.available = @ - a, !.collateral = @ + a]
    [] c.kind = "delegate" -> [account EXCEPT !.available = @ + account.delegated - a,
                                              !.delegated = a]
    [] c.kind = "mint" -> [account EXCEPT !.debt = @ + a, !.usd = @ + a]
    [] OTHER -> [account EXCEPT !.debt = @ - a, !.usd = @ - a]

-----------------------------------------------------------------------------
(* The builders *)

\* A request that does not pass validation, or has an amount that no uint256
\* can be, or a node that does not even tell the chain id: nothing is built.
Refused(w) ==
  /\ build[w] = NoBuild
  /\ UNCHANGED vars

Answer(t) ==
  /\ Cardinality(held \cup {t}) <= MaxHeld
  /\ held' = held \cup {t}

Asked(r) == asked' = IF r.kind = "delegate" THEN asked \cup {r.amount} ELSE asked

\* portfolio.py looks at nothing: int(amount), and no estimate.
BuildUnchecked(w, r) ==
  /\ build[w] = NoBuild
  /\ r.amount >= 0
  /\ Answer(Transaction(Call(r), NoFeed, FALSE))
  /\ Asked(r)
  /\ UNCHANGED <<build, account, fresh>>

\* As Build, without the check of the amount.
BuildUnvalidated(w, r) ==
  /\ build[w] = NoBuild
  /\ Answer(Transaction(Call(r), NoFeed, FALSE))
  /\ Asked(r)
  /\ UNCHANGED <<build, account, fresh>>

\* orders.py estimates the gas.  If that fails, by a revert or because the node
\* does, the transaction is answered without.
Build(w, r) ==
  /\ build[w] = NoBuild
  /\ r.amount > 0
  /\ \/ Accepts(Call(r), NoFeed, TRUE) /\ Answer(Transaction(Call(r), NoFeed, TRUE))
     \/ Answer(Transaction(Call(r), NoFeed, FALSE))
  /\ Asked(r)
  /\ UNCHANGED <<build, account, fresh>>

\* The estimate of a trade reverts for want of the price of a feed, which
\* try_resolve_eip7412() goes and gets.
Intercept(w, r, f) ==
  /\ build[w] = NoBuild
  /\ IsTrade(r)
  /\ r.amount > 0
  /\ f \notin fresh
  /\ build' = [build EXCEPT ![w] = [call |-> Call(r), feed |-> f]]
  /\ UNCHANGED <<held, account, fresh, asked>>

\* As Resolve, without another estimate.
ResolveUnestimated(w) ==
  LET b == build[w] IN
  /\ b # NoBuild
  /\ Answer(Transaction(b.call, b.feed, TRUE))
  /\ build' = [build EXCEPT ![w] = NoBuild]
  /\ UNCHANGED <<account, fresh, asked>>

\* The update comes from Hermes, and update and trade are put into one
\* transaction, which is estimated in turn; it is not tried a third time.
Resolve(w) ==
  LET b == build[w] IN
  /\ b # NoBuild
  /\ \/ Accepts(b.call, b.feed, TRUE) /\ Answer(Transaction(b.call, b.feed, TRUE))
     \/ Answer(Transaction(b.call, b.feed, FALSE))
  /\ build' = [build EXCEPT ![w] = NoBuild]
  /\ UNCHANGED <<account, fresh, asked>>

\* The query has an unknown tag, Hermes does not answer in five seconds, or
\* encodeABI() is missing, as in web3 7: None, and the trade goes out as it was.
ResolveFails(w) ==
  /\ build[w] # NoBuild
  /\ Answer(Transaction(build[w].call, NoFeed, FALSE))
  /\ build' = [build EXCEPT ![w] = NoBuild]
  /\ UNCHANGED <<account, fresh, asked>>

-----------------------------------------------------------------------------
(* The client and the chain *)

\* What was estimated on the chain as it was.
Outdated(ts) == {[t EXCEPT !.estimated = FALSE] : t \in ts}

\* The client signs a transaction, for the first time or again.
Send(t) ==
  /\ Accepts(t.call, t.update, t.current)
  /\ account' = After(t.call)
  /\ fresh' = IF t.update = NoFeed THEN fresh ELSE fresh \cup {t.update}
  /\ held' = Outdated(held)
  /\ UNCHANGED <<build, asked>>

\* It is thrown away; one that reverts changes nothing either.
Discard(t) ==
  /\ held' = held \ {t}
  /\ UNCHANGED <<build, account, fresh, asked>>

\* Time passes: the price of a feed is no longer recent, and neither is an
\* update that was fetched.
Age(f) ==
  /\ f \in fresh
  /\ fresh' = fresh \ {f}
  /\ held' = Outdated(held)
  /\ UNCHANGED <<build, account, asked>>

Expire(t) ==
  /\ t.update # NoFeed
  /\ held' = (held \ {t}) \cup {[t EXCEPT !.current = FALSE, !.estimated = FALSE]}
  /\ UNCHANGED <<build, account, fresh, asked>>

\* Somebody else updates a feed.
Refresh(f) ==
  /\ fresh' = fresh \cup {f}
  /\ UNCHANGED <<build, held, account, asked>>

Next ==
  \/ \E w \in Workers :
       \/ Refused(w)
       \/ \E r \in Requests(PortfolioKinds) : BuildUnchecked(w, r)
       \/ \E r \in Requests(OrdersKinds) :
            Build(w, r) \/ \E f \in Feeds : Intercept(w, r, f)
       \/ Resolve(w) \/ ResolveFails(w)
  \/ \E t \in held : Send(t) \/ Discard(t) \/ Expire(t)
  \/ \E f \in Feeds : Age(f) \/ Refresh(f)

Spec == Init /\ [][Next]_vars

-----------------------------------------------------------------------------
(* Properties *)

\* Every variable has its type: no call is for less than nothing, and no
\* account is overdrawn.
TypeOK ==
  /\ build \in [Workers -> Builds \cup {NoBuild}]
  /\ held \in SUBSET Transactions
  /\ account \in Accounts
  /\ fresh \in SUBSET Feeds
  /\ asked \in SUBSET Amounts

\* A gas_estimate is a promise: the transaction that came with one, alone or
\* with the update in front, is taken by the chain as long as nothing changed
\* there, although the revert it was built on may be long out of date when the
\* update has come and the second estimate is made.
EstimateHolds ==
  \A t \in held : t.estimated => Accepts(t.call, t.update, t.current)

\* What is delegated is what some request asked for, not the sum of several:
\* transactions that are signed twice, late or in another order, and
\* delegations built while others are on the way, do not add up.
DelegatedAsAsked == account.delegated \in asked \cup {0}
=============================================================================
