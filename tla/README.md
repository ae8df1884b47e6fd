# A TLA+ development of ax-server

ax-server is the FastAPI backend of AthleteX: it signs users in with a wallet, serves market data
over HTTP and a WebSocket, builds unsigned transactions for Polygon contracts, copies swaps from a
subgraph into QuestDB, and keeps the list of prediction markets in a JSON file. It runs as two
uvicorn processes (`src/Dockerfile:18`, `--workers 2`) with one asyncio loop each. This directory
holds TLA+ models of the parts that keep state, the TLC configurations that check them, and proofs
of their safety properties that TLAPS checks. Paths below are under `src/app` unless they start
with `src/`.

To check a module: `tlc -workers 2 -config WsServer.cfg MCWsServer.tla`; to check its proofs:
`tlapm WsServerProofs.tla`.

## 1. Inventory

### What the processes share

A *worker* is one process with its own loop, its own module globals and its own lifespan (one
ingest task, one WebSocket poller, one nonce store, one rate limiter, one cache of the registry).
Workers meet only in what is outside them: the files under `src/data`, the QuestDB tables, the
chain, and the tokens that clients carry, which are signed with a secret all workers share. Nothing
locks any of these. Within a worker, code interleaves only where it awaits; most handlers are
`async` functions that call synchronous clients and so never do.

### Components

| Component | State | Operations | Interacts with | What is hard |
|---|---|---|---|---|
| WebSocket server (`api/ws/events.py`) | registry of clients and their subscriptions; the poller's `_running` flag and `_task` | connect, commands, disconnect; start, stop, polling cycle, broadcast | endpoint coroutines and the poller task share registry and flag; `stop()` awaits a cancelled task | interleaving at every await, cancellation, sends that fail, a registry that shrinks behind the endpoint's back |
| Rate limiter (`middleware/rate_limit.py`) | a bucket and a tier per address, time of the last clean-up | dispatch of a request, clean-up | wraps every request; reads the access token | lazy refill, clean-up and tier change against "one bucket per address"; headers read after the request ran |
| Sign-in (`auth/siwe.py`, `auth/tokens.py`, `api/v1/auth.py`, `auth/deps.py`) | a nonce store per worker; tokens in clients' hands | nonce, message, verify, refresh, verify_token | clients reach any worker | replays, a first try that fails, expiry against clean-up, a restart or the other worker |
| Price ingest (`services/price_ingest.py`) | high-water mark, "backfilled" flag | backfill, poll, stop | subgraph client (read), QuestDB client (write in a thread), lifespan in `main.py` | partial failure, a limited window of swaps, restarts, two tasks at once, late writes |
| QuestDB client (`services/questdb_client.py`) | connection pool; tables on the server | init, ingest, queries | ingest and history endpoints | a table that was created without its deduplication keys |
| Subgraph client (`chain/subgraph.py`) | none | recent swaps, pairs (paged), day data | ingest, predict endpoints | retries, batches while the set grows |
| History endpoints (`api/v1/history.py`) | none | candles, prices, volume | QuestDB client, subgraph | what is summed twice |
| Market registry (`chain/prediction_deployer.py`, `api/v1/admin.py`) | `src/data/markets_registry.json` | register, set status, resolve, list | two workers and all readers share the file | read-change-write without a lock, truncate before write, spellings of addresses |
| Prediction reads (`api/v1/predict.py`) | none | list, detail, history, trades, leaderboard | registry file, chain, QuestDB, subgraph | a history made of up to six queries, with a fallback that all markets share |
| Prediction order builders (`api/v1/predict_orders.py`) | a cache of the registry per worker | quote, buy, sell, mint, redeem | chain reads; the wallet signs what is built | a stale cache; allowances and reserves that change between a builder's reads, and before the transaction runs |
| Comments (`api/v1/comments.py`) | one JSON file per market | post, delete, list | two workers share the files | as for the registry |
| Spot and vault order builders (`api/v1/orders.py`, `chain/synthetix.py`, `chain/eip7412.py`, `api/v1/portfolio.py`) | none | build, resolve a revert for want of a price, answer | chain, Pyth's Hermes | the chain moves while an update is fetched; transactions signed late, twice and out of order |
| Spot listing (`api/v1/spot.py`) | none | scan of market ids, page by page | chain | ids with holes, calls that fail, markets that are created between pages |
| Portfolio, vaults, oracle, exchange, health (`api/v1/…`, `services/portfolio_service.py`, `services/price_service.py`) | none | reads | chain | none: stateless |
| Share cards (`api/v1/share.py`) | a picture and a metadata file per card | upload, view | files | two writes |
| Agents (`agents/…`) | `running` flag | run, stop | nothing starts them | stop before run |
| AMM arithmetic, provider, multicall, contracts, uma (`chain/…`) | none | reads, `get_amount_out` | chain | rounding |
| Versus, positions, markets, stubs; configuration, models, errors; scripts | none | — | external database | — |

### What makes the parts correct

- *WebSocket*: whoever is registered is served by a running poller, however clients come and go
  while `stop()` is suspended; an idle server stops polling; no reachable client is dropped; an
  answered unsubscription holds; subscribers keep getting heartbeats; `stop()` returns.
- *Rate limiter*: what a client sees is one token bucket per address that always exists and always
  fills; the headers of a response describe the bucket the request was counted in.
- *Sign-in*: a nonce signs in once, and only by the first message that presents it; a token names a
  wallet that signed; the store stays bounded.
- *Ingest*: the high-water mark never passes a swap that is not stored; a swap is written twice only
  where the code cannot know that it was written once; polling survives every failure; swaps are
  stored in the end.
- *Registry*: what was registered is listed, once, with its last status; a list that cannot be read
  is not lost for good by being overwritten.
- *Order builders*: an order that was answered does not fail for its allowance unless the wallet
  itself changed it; a swap pays what was quoted less the slippage that was asked for, or fails;
  an estimate holds while nothing changes; delegations do not add up.
- *Comments*: the file of one market is touched by requests on that market only, and is exact where
  they do not overlap.
- *Reads*: each market and pair once, none left out; a market's history is its own.

The hazards in PROJECT.json name the lines where each of these can go wrong.

## 2. Modules

| Module | Models | Checked by | Proved in |
|---|---|---|---|
| `WsServer` | `api/ws/events.py` in one worker | `WsServer.cfg`, `WsServerLive.cfg` | `WsServerProofs` |
| `RateLimit` | `middleware/rate_limit.py` in one worker | `RateLimit.cfg` | `RateLimitProofs` |
| `RequestCount` | `RateLimit` with a count of the requests of one address | `RateLimit.cfg` | `RateLimitProofs` |
| `TokenBucket` | the abstract specification of `RateLimit` | as a property of `RateLimit.cfg` | `RateLimitProofs` |
| `SiweAuth` | sign-in over all workers | `SiweAuth.cfg`, `SiweWorkers.cfg` | `SiweAuthProofs` |
| `PriceIngest` | the ingest of all workers, QuestDB's table and the subgraph | `PriceIngest.cfg` | `PriceIngestProofs` |
| `JsonFile` | a JSON file that processes read, change and rewrite | with `MarketRegistry` and `Comments` | `MarketRegistryProofs`, `CommentsProofs` |
| `MarketRegistry` | the registry of markets, extends `JsonFile` | `MarketRegistry.cfg` | `MarketRegistryProofs` |
| `PredictOrders` | `api/v1/predict_orders.py` in all workers, the wallet, its allowances and the pools | `PredictOrders.cfg`, `PredictApprove.cfg` | `PredictOrdersProofs` |
| `SynthOrders` | `api/v1/orders.py`, `api/v1/portfolio.py`, `chain/synthetix.py`, `chain/eip7412.py`, and the account they are about | `SynthOrders.cfg` | `SynthOrdersProofs` |
| `Comments` | `api/v1/comments.py` in all workers; each market's file is an instance of `JsonFile` | `Comments.cfg` | `CommentsProofs` |
| `MarketReads` | reads in several calls: `api/v1/spot.py`, `get_all_pairs()` of `chain/subgraph.py`, the history of `api/v1/predict.py` | `MarketReads.cfg` | `PriceIngestProofs` |

Each `MC…` module extends a specification with the values TLC needs. Operators whose comment starts
with "As X, …" or "Mutant of X" are variants of the definition below them with one plausible bug;
they are listed under "mutants" in PROJECT.json, and each makes TLC report the property it is
listed with. They are in no specification.

### WsServer

State and code: `clients`, `channels`, `marketIds` are `manager._clients` and the two sets of a
`ClientState`; `running` and `task` are the poller's fields; `conn[c]` is the await at which the
coroutine of socket `c` is suspended ("accepting": `ws.accept`; "reply": the send of the welcome or
of an answer; "receive": `ws.receive_text`; "stopping": `await self._task`); `poll[t]` is the await
of poller task `t` ("sending": `ws.send_json` of broadcast `job` to `to`, with the snapshot entries
still to come in `targets` and the failed ones in `dead`; "asleep"). An action is the code between
two awaits. The manager's lock is never held across an await, so it never blocks and is left out.
Chain reads block the loop and are part of the step they are in; each may fail, which skips its
broadcast. Messages are reduced to the channel and the market they are about. `Connect` creates a
socket; `Accepted` is the rest of `connect()` with the start of the poller; `Subscribe`,
`Unsubscribe`, `OtherCommand` are `_handle_command`; `Disconnect` and `HandlerError` are the
`finally` block with `stop()`; `BeginCycle`, `SendJsonDone`, `TaskEnds` are `_run`, the `_poll_*`
methods and `broadcast`. `quiet` is a history variable: channels whose unsubscription was answered.
`StopAwaitsCancelled`, in `WsServerProofs`, is the part of `StopCompletes` that is no matter of
fairness: the task that a `stop()` waits for is cancelled until it has ended, although tasks come
and go meanwhile. It is proved there and is in no run.

Bounds: two sockets, whose identities are reused once nothing refers to them, so that connections
come and go without limit; three tasks, enough for the current one, one that is cancelled and one
that was left behind by a dropped client; two market ids, one subscribed by name, and both commands.
Two sockets suffice for every race found in the code: one that leaves while the other arrives, and
one that is dropped while the other is served. Liveness is checked on the heartbeat alone with two
tasks and no symmetry.

Fairness: a ready coroutine is run (weak fairness of `TaskStep` and `Resumes`): asyncio schedules
ready callbacks in order, and a suspended send ends because uvicorn's ping timeout closes a stalled
socket. `Disconnect` is strongly fair: a closed socket has finitely many messages left, so
`receive_text` raises in the end. Nothing is assumed of clients.

### RateLimit and TokenBucket

`dispatch` awaits only in `call_next`, so `Dispatch` is everything before it: clean-up, token,
tier, bucket, `consume`, the 429 answer. `Respond` is the rest, which reads the headers from the
bucket object it holds, even if that has left `_buckets` meanwhile: `inFlight` keeps such an object.
Not every waiting request is followed, as a waiting request affects nothing; `Slots` are those that
are. Levels are integers in fractions of a token; `Rate`, `Period` and `Cost` scale them.
`CleanupAssumption` (the clean-up interval is at least the time a bucket takes to fill: 60 s
against 10 s in the code) is what makes the clean-up invisible.

`TokenBucket` is the promise: one bucket per address, refilled at every tick, replaced when the
tier changes. `ImplementsTokenBucket` substitutes for its level what a refill *would* give now and
the capacity where there is no bucket. A tick of `RateLimit` is a refill of all buckets there; the
clean-up and a creation on demand are invisible.

Bounds: two addresses, one of which is counted, so that they are not symmetric; two tiers, which
fill by half a token and by a whole one in a tick; one waiting request that is followed; a clock of
four ticks with a clean-up interval and a period of two, so that a bucket is drained, fills, goes
stale, is removed and is created again.

`RequestCount` adds two history variables to `RateLimit`: a count of the requests of one address
(`Client`) that are passed on, which may start at any moment (`Watch`), and starts again when a
token of another size of bucket brings a full one. It takes nothing from `RateLimit` and adds
nothing to what that can do, and the run `rate_limit` is of its `CountSpec`. `RequestsBounded` is what that count can reach:
a full bucket and what the time since then adds, in one worker: each of the two processes has
buckets of its own. For BASIC that is up to 200 requests in some ten
seconds, twice the number `src/API.md:14` gives for the tier, and 100 on the average. The bound does
not hold over a change of tier, which fills the bucket.

### SiweAuth

The endpoints do not await, so `Generate`, `Verify` and `Refresh` are one action each; what
interleaves is whole requests at any worker, the clock, and `Restart`, which empties one store.
`Verify` follows `verify_siwe` in its order: signature, the message's own expiry, the nonce, which
is consumed even if a later check refuses. The message is reduced to nonce, address, chain, expiry
and signer. `tried`, `accepted` and `signers` are history variables.

Bounds: three nonces, two workers, two wallets and an invalid signature, lifetimes of one or two
ticks on a clock of three: enough for a nonce to expire, be cleaned up while another lives, and for
a refresh after the access token ran out. Workers, nonces and wallets are symmetric.

### PriceIngest

One task per worker, with its pc at the await it is suspended in; the subgraph is `ts` (the time of
each indexed swap; blocks arrive whole), QuestDB is `table` and `rows`. A request fails or returns
what the subgraph then has; retries in `_execute` are one failure. A write that raises may have been
applied. `Shutdown` is a crash or the cancellation in `lifespan`; a write it interrupts goes on in
its thread (`late`) and may land at any later time. `init()` creates the table or, if QuestDB is not
there, only logs, and then the first write creates it without deduplication ("plain"). A process
that is "off" has no task: `ingest_enabled` is false, or `init()` raised what it does not catch
itself, which `lifespan` does (`main.py:69`). The three seconds before the backfill and the request
for the pairs are one pc, since nothing happens in between. The rows of daily data are left out, and
with them what a failed backfill loses (`price_ingest.py:77`).

Two variables are history. `crowded` are new swaps that a poll had no room for. `doubt` are the swaps
of which the code cannot know whether they are stored: a task that had passed them, or was writing
them, ended, or a write of them raised. `DoubledOnlyInDoubt` is about the "plain" table, where nothing
but the mark keeps a swap from being written again: a swap is doubled only if it is in doubt or two
tasks have passed it, never by a task that goes on.

Bounds: two processes, of which one ends once, perhaps with a write left in its thread, and starts
again; two usable swaps in at most two blocks, and a window (`limit`, 200 in the code) of one, so
that two swaps of one block are a rush; one pair. That has every reason for a doubled swap and every
way past the mark, also for the liveness properties, which the same run checks. It has no batch of
several swaps, and none in which usable and unusable swaps are mixed: those are left to the theorems,
which hold for any of them. Processes may all be without a task, and then nothing happens any more:
`CHECK_DEADLOCK FALSE`.

Fairness: processes are started again (`Restart=always`, `restart: unless-stopped`), the loop runs
what is ready, and requests and writes that are tried for ever succeed now and then (strong fairness
of `Polled` and `Written`); without the last nothing could be promised.

### JsonFile and MarketRegistry

A request loads the file and works out the new list (`Register`, `Update`), opens it for writing,
which truncates it (`Truncate`), and writes and closes it (`Answer`); it may be killed at any point
(`Crash`). There is no await in between, so a process has one request at a time, but the other
process can act between any two. Two overlapping writes start at the same offset: the shorter text
can leave the end of the longer one behind it, and then the file does not parse. `at` stands for the
position of a record in the list. `promised` (what the answered requests add up to), `registered`
and `clash` are history variables. The file starts absent: the image has no `data` directory.

Bounds: a contract in two spellings and another one, two statuses and one outcome, four requests in
a behaviour (`MaxRequests`): enough to register both spellings, update one and overlap with it. The
system does not stop, the bound does: `CHECK_DEADLOCK FALSE`.

### PredictOrders

State and code: `registry` is the file where `_REGISTRY_PATH` looks for it, `cache[w]` is
`_REGISTRY_CACHE` of a process, `build[w]` the request a process is in the middle of, cut where it
reads the chain: `ReadAllowance` (the registry, validation, `allowance()`), `ReadPrice`
(`getAmountsOut()`), `Finish` (`_apply_slippage()` and `build_transaction()`, which estimates the
gas and so runs the order), or `CallFails`. `held` are the answers a client has: it may send the
approval, then the order (`SendApproval`, `Execute`), later, in any order, more than once, or never
(`Drop`). The chain is external: a price for each outcome token, what the wallet holds, and what
each spender may pull. `Approve` is any other approval of the wallet, `Move` the trades of others.
`touched` and the quote `out` that an order carries are history.

A builder checks the allowance and estimates the order on a chain that has not seen the approval.
So an order for which an approval is needed is refused (`CONTRACT_REVERT`), unless the allowance
changed between the two looks. That is the opposite of the docstring's "Returns approve tx (if
needed) + swap tx" (`predict_orders.py:271`), which `ApproveIfNeeded` states and the run
`predict_approve` refutes. `AllowanceCovers` leaves out orders whose allowance another transaction of
the same wallet changed (`touched`): nothing in the code keeps two orders from counting on one
allowance. `slippage_bps` is not validated: above 10000 the minimum is
negative and does not encode, below 0 it asks for more than was quoted; both only ever refuse.

`MinimumKept` has a `+ 1`: the minimum is rounded down, so that a swap may pay up to one unit less
than the exact share of its quote.

Bounds: one process (builders share nothing but the file, which others replace at any time), one
market and one outcome, two orders, amounts 1 and 2 against prices of a half and two, funds of two:
enough for two orders on one allowance, a price that falls to a quarter between any two steps, and
a sale of what a purchase brought.

### SynthOrders

`build[w]` is a trade whose estimate reverted with `OracleDataRequired` and whose price update is
being fetched (`Intercept`, then `Resolve` or `ResolveFails`); all other builders answer in one
action: `Build` for `orders.py`, which validates and estimates, `BuildUnchecked` for `portfolio.py`,
which does neither. `held` are the transactions a client has; `Send` leaves them with the client,
which may sign them again. The account, the freshness of the feeds and what the contracts require
are external; amounts are all worth the same. Approvals of tokens are taken as given. `estimated`,
`current` and `asked` are history.

Two things of `eip7412.py` are left to chance in the model because they depend on what is outside
`src`: with web3 7 `encodeABI()` is missing, and every attempt ends in `ResolveFails`; and the
multicall contract sees itself, not the wallet, as the sender of the trade, so that whether the
chain takes the combined transaction is its decision alone. `EstimateHolds` says what the second
estimate then makes of it.

Bounds: amounts -1, 0 and 1 with funds of two, two interchangeable feeds, one process, two
transactions in hand.

### Comments

`files[m]` is the file of a market, `worker[w]` the request of a process: `Post` and `Delete` read
and work out the new list, `Open` empties the file, `Answer` writes it, `Crash` ends the process at
any point; `Refuse` is every request that changes nothing. Deletion searches all files in no
particular order; a file that cannot be parsed on its way ends it. `OneFileEach` is a refinement:
for each market, what the processes do there (`On(m)`) is a behaviour of `JsonFile`. `clash` are
the markets where requests overlapped or one was cut short; posts can be lost there, and deleted
comments come back, which `CommentsKept` does not exclude.

Bounds: two processes, two markets, one person with two spellings of a wallet and another one, two
comments. The system does not stop, the bound does: `CHECK_DEADLOCK FALSE`.

### MarketReads

One read at a time, since reads change nothing, of one of three `kind`s, while what it reads grows:
pages of spot markets (`Found`, `Missed`, `EndPage`), batches of pairs (`GetBatch`), and the up to
six queries of a history (`Lookup`, which finds the pair of either side, of both or of none, and
`Query`), with `Grow` and `Insert` for what others add, and
`Fail`. `due`, `lost` and `before` are history: what was there at first, and whose calls failed.

`ScanComplete` is claimed while fewer calls than end a scan fail and the limit with the failures
fits the window of 50 ids. Beyond, the code does hide markets: with a `limit` of 51 to 100 and more
than 50 markets, a page stops at the window and says that there is no more. `HistoryIsOwn` is
claimed for a side whose pair is known and has daily rows. Beyond, the fallback asks by the symbols
of the pair, which all markets share, and shows the prices of other markets.

Bounds: seven ids, a window of four, three misses, limits below and above the window, batches of
two; two markets that share the symbols of one side, four rows. Reads end: `CHECK_DEADLOCK FALSE`.

## 3. Runs

| Run | Question | Result |
|---|---|---|
| `ws_safety` | can any order of connects, commands, failures, cancellations and disconnects break the registry or the poller? | no: `PollerCoversClients`, `IdleMeansStopped`, `RegistryIsServed`, `QuietAfterUnsubscribe` |
| `ws_liveness` | do heartbeats keep coming, do pollers end, does `stop()` return? | yes: `HeartbeatsKeepComing`, `PollersWindDown`, `StopCompletes` |
| `rate_limit` | can lazily filled, created and removed buckets be told from ideal ones, and how many requests of an address get past? | no: `ImplementsTokenBucket`; `BucketMatchesTier`, `HeadersAgree` hold; one bucket and the refill of the time: `RequestsBounded` |
| `siwe_auth` | can a nonce or a token be had twice, or by anybody else? | no: `SingleUse`, `FirstTryDecides`, `TokensTraceable`, `StoreBounded` |
| `siwe_workers` | is an unused, unexpired nonce accepted (`api/v1/auth.py:93`)? | no, see the findings |
| `ingest` | can the mark pass a swap that is not stored, or a task write one twice; are swaps stored in the end, and does polling go on? | no: `MarkCovers`, `DoubledOnlyInDoubt`; yes: `EventuallyStored`, `KeepsPolling` |
| `registry` | what still holds of the list when requests overlap, and is it exact when they do not? | `RegisteredOnce`, `UnreadableIsKept`; `SerialUnlessClash` |
| `predict_orders` | what is an order worth when prices and allowances move while it is built and before it is sent? | it pays its minimum or fails (`MinimumKept`), not for its allowance (`AllowanceCovers`) |
| `predict_approve` | does a wallet that has to approve first get an approval and a swap (`api/v1/predict_orders.py:271`)? | no, see the findings |
| `synth_orders` | what is an estimate worth, and do delegations add up when they are signed late and twice? | it holds while nothing changes (`EstimateHolds`); no (`DelegatedAsAsked`) |
| `comments` | does each market have a file of its own, and is it exact where requests do not overlap? | yes: `OneFileEach`, `CommentsKept` |
| `reads` | do reads in several calls lose, double or mix up anything while it grows? | not within the window and with rows of its own: `ScanComplete`, `HistoryIsOwn` |

### Findings

`siwe_workers`: each of the two processes has its own nonces, and a message signed in time is
refused when it reaches the other one, although `api/v1/auth.py:93` says that a nonce lives for five
minutes and the comment at `auth/siwe.py:29` asks for a shared store in production.

`predict_approve`: the docstring at `api/v1/predict_orders.py:271` has the builder of a buy return
"approve tx (if needed) + swap tx". The swap is built by web3 without a gas limit (313), which
estimates it on the chain as it is. The approval was not sent to that, so the estimate reverts, and
the wallet that needs the approval gets `CONTRACT_REVERT`. The other builders with an allowance do
the same.

### Known divergences

Seen while reading and modelling; no run is about them, but the models behave like the code.

- A client that `broadcast()` drops leaves `client_count` at zero while the poller runs; the next
  client starts a second poller beside it ("Singleton poller", `api/ws/events.py:425`), until the
  end of polling stops both.
- The tier of a token stays with the address: requests without a token from behind that address are
  limited as that tier (`src/API.md:14` has them BASIC).
- Tokens always name chain 137, whatever the message says (`auth/tokens.py:58`).
- Registrations that overlap in the two processes: both are answered, one is lost
  (`chain/prediction_deployer.py:217`). A crash or an overlap can leave a file that stops every
  later request: `UnreadableIsKept` says that nothing overwrites it, and so that nothing repairs it.
  The same holds of comments.
- A `limit` above 50 ends the listing of spot markets early; a market without rows of its own shows
  the prices of others (see `MarketReads`).
- `QuestDBClient.get_24h_volume` and `get_volume_stats_by_pair` call `_get_pool`, and a route of
  `predict.py` calls `_enrich_markets_with_volume`; neither exists. `history.get_candles` reads
  attributes of rows that are dicts.
- `_REGISTRY_PATH` (`predict_orders.py:37`) points into `src/app/data`, where nothing writes, so that
  the builders find no market unless somebody puts the file there (`CopyRegistry`).
- `resolve_market` marks a market resolved before the transaction is signed (`admin.py:260`, against
  the docstring at 240).
- A sign-in message is valid for ten minutes, its nonce for five.
- Daily backfill rows and the swaps of the same day are both summed as volume.

## 4. Theorems

All are for arbitrary values of the constants, under the assumptions the modules name
(`ConstantsAssumption`, `RateAssumption`, `NoneAssumption`, `CleanupAssumption`, `AuthAssumption`,
`IngestAssumption`, `RegistryAssumption`, `OrdersAssumption`, `SynthAssumption`,
`CommentsAssumption`, `ClientAssumption`, `ReadsAssumption`), which say that constants have their
types, that sentinels differ from values, and that the clean-up interval is at least the period. TLC
evaluates them.

| Theorem | Says | Why the invariant is not inductive alone, and what is added |
|---|---|---|
| `WsServerProofs`: `TypeCorrect`, `PollerCovers`, `IdleStopped`, `RegistryServed` | types; a registered client has a live, uncancelled task; an idle server's poller is off; nobody reachable is dropped | `IInv` ties the `running` flag to a live, uncancelled current task; only live tasks are cancelled, so an identity that is used again starts uncancelled; the sockets in a task's `dead` are closed, so dropping them drops nobody reachable |
| `WsServerProofs`: `StopsAwaitCancelled`, `UnsubscribedIsQuiet` | `stop()` waits for a cancelled task only; nothing is sent after an unsubscription | the first is inductive with the types; for the second, the subscriptions and the quiet channels of an open socket are apart (`QuietInvariant`, which needs `RegistryIsServed`: an unsubscription that finds no client finds a closed socket), and every send looks at the subscriptions in the step that starts it, whatever snapshot its targets are from |
| `RateLimitProofs`: `TypeCorrect`, `BucketsMatch`, `HeadersCorrect`, `Refinement` | types; buckets fit tiers; headers describe one bucket; `Spec` implements `TokenBucket` | refills need `last <= now`; the refinement needs that a stale bucket is full (`StaleIsFull`, from `CleanupAssumption`) and that a refill in two parts is a refill in one |
| `RateLimitProofs`: `RequestsAreBounded` | no stretch of time sees more requests of an address than a full bucket and its refill pay for | what was paid and what is *left* in the bucket are bounded together (`CountInvariant`); each step moves tokens between the two as the refinement says (`TickRefines`, `DispatchRefines`), so that the clean-up need not be looked at again |
| `SiweAuthProofs`: `TypeCorrect`, `NonceSignsInOnce`, `NonceBurns`, `TokensComeFromSignatures`, `StoresStayBounded` | types; one sign-in per nonce; the first try decides; tokens go back to signatures; stores hold one lifetime | a nonce is fresh in one store at most and nowhere once tried; an accepted nonce was tried; nothing in a store was created in the future |
| `PriceIngestProofs`: `TypeCorrect`, `MarkNeverLoses`, `TwiceOnlyInDoubt` | types; the mark covers only stored swaps; a swap is doubled only in doubt or by two tasks | what a task is about to write must cover everything above its mark up to its newest swap (`BatchCovers`); no timestamp is above the height. For the third, every stored swap is in doubt or behind some mark (`RowsExplained`), a batch is above its own mark (`BatchAbove`), and what is left in a thread is in doubt (`LateInDoubt`): so a swap that a write finds stored is in doubt or behind the mark of another task |
| `PriceIngestProofs`: `ReadsTypeCorrect`, `ReadsAreComplete`, `HistoriesAreOwn` (of `MarketReads`) | types; a scan returns each market and pair that was there once; a history with rows of its own has no others | the ids of spot markets have no gaps, so the misses counted are the ids just passed and were lost, and the finds are those returned within the window: a page that ends early has lost as many ids as it takes (`SpotInv`); a batch is the next ids in order (`IsNextBatch`), so that nothing below the last one is left (`PairsInv`); what the query by the pair found keeps the queries by symbols away from its side (`HistoryInv`) |
| `MarketRegistryProofs`: `TypeCorrect`, `MarketsRegisteredOnce`, `BrokenRegistryKept`, `RegistryKeepsPromises` | types; no address twice and no market from nowhere under any overlap; a broken file is kept; without overlap the file is exact | the lists that processes hold are as sound as the file (`ListsSound`), since any of them may be written last; without a clash one process at most is busy and its list already agrees with what its answer will promise (`Serial`, `Agree`) |
| `PredictOrdersProofs`: `TypeCorrect`, `AllowancesCover`, `MinimumIsKept` | types; an order does not fail for its allowance; a swap pays its minimum | an order that is answered was estimated in the same step (`FinishSound`), and whatever takes from its allowance notes it (`TouchedSound`); an order's minimum is computed from the quote it carries (`Quoted`); rounding down loses less than one unit, which is arithmetic on `ApplySlippage` |
| `SynthOrdersProofs`: `TypeCorrect`, `EstimatesHold`, `DelegationsAreAsked` | types, so that no account is overdrawn; an estimate holds; delegations do not add up | `EstimateHolds` is inductive with the types; for the delegations, every delegation in hand was asked for, and what is being resolved is a trade (`DelegationsAsked`) |
| `CommentsProofs`: `TypeCorrect`, `CommentsAreKept`, `MarketsHaveTheirFiles` | types; the list of a market without overlaps is exact; every step is a step of `JsonFile` on each market | on a market without clash one process at most is busy, its list is what its answer will make of the comments, and the file is exact or open (`Serial`); a new comment is none of the removed ones, because all comments anywhere are numbered below the next one (`Numbered`) |

Only model-checked: the liveness properties of `WsServer` and `PriceIngest`, since fairness and what
is enabled are out of reach of these proofs; of `StopCompletes` the safety part is proved
(`StopsAwaitCancelled`). `UnusedNonceAccepted` and `ApproveIfNeeded` are not
proved because they are false, see the findings.

## 5. Plan

Done, the most important behaviour first: `WsServer`, `TokenBucket` and `RateLimit`, `SiweAuth`,
`PriceIngest`, `JsonFile` and `MarketRegistry`, `PredictOrders`, `SynthOrders`, `Comments` and
`MarketReads`, with a theorem for each safety property that a run checks; `RequestCount`. Left:

1. The safety parts of the other liveness properties as theorems, as `StopsAwaitCancelled` is: that a
   process which polls never loses its way back to the poll (`KeepsPolling`).
2. `PredictOrders` with two processes whose copies of the registry differ, on a larger machine: the
   theorems hold for any number, the runs have one.
3. Volumes over the rows that `PriceIngest` leaves, when the queries call methods that exist.

## 6. Not modelled, and why

- The text of messages, headers, errors and logs; addresses beyond equality and spelling;
  cryptography (a signature is the wallet that made it); amounts beyond small integers.
- Stateless reads: portfolio, vaults, oracle, exchange, health, markets, versus, news, price history,
  and of `predict.py` the list, detail, trades, statistics and leaderboard. Each is one function of
  the chain or of a database, with no behaviour of its own between its calls.
- Configuration, models, error mapping, CORS, scripts at the root, ABIs: declarations.
- The agents are stubs and nothing starts them. Share cards are two files with fresh names that
  nothing changes.
- `deploy_market` raises `NotImplementedError` before its first transaction, and so `UniswapV2Client`
  is never used.
- A copy of the registry that is out of date: modelled, but the code promises nothing about it.
- Removal of the container, with which `src/data` goes: `MarketRegistry` is about the life of one.
