----------------------------- MODULE MarketReads -----------------------------
(***************************************************************************)
(* Reads that take several calls, while what they read grows:              *)
(*                                                                         *)
(*  - "spot": a client that pages through GET /spot/markets, which scans   *)
(*    the ids of the chain's markets one by one (api/v1/spot.py);          *)
(*  - "pairs": get_all_pairs() of the subgraph client, in batches of ids   *)
(*    above the last one (chain/subgraph.py);                              *)
(*  - "history": the prices of a prediction market, for each side by its   *)
(*    pair and, if there are none, by its symbols (api/v1/predict.py).     *)
(*                                                                         *)
(* Reads change nothing, so that one of them alone with what it reads is   *)
(* every case; `kind` says which.  Ids are numbers; a row stands for one   *)
(* in the days that are asked for, whose candle shows it.                  *)
(***************************************************************************)
EXTENDS Naturals, Sequences, FiniteSets

CONSTANTS
  MaxId,     \* bound on the ids of markets and pairs
  Limits,    \* values of a client's `limit`
  Window,    \* _MAX_MARKET_SCAN: ids that are scanned for a page
  Misses,    \* consecutive misses that end a page
  Batch,     \* pairs asked for at once
  Markets,   \* prediction markets
  AxUsdFirst,  \* sides of markets in whose pairs axUSD is the first token
  MaxRows    \* bound on the rows that are stored meanwhile

ASSUME ReadsAssumption ==
  /\ MaxId \in Nat /\ MaxRows \in Nat
  /\ Limits \subseteq Nat \ {0}
  /\ {Window, Misses, Batch} \subseteq Nat \ {0}
  /\ AxUsdFirst \subseteq Markets \X {"yes", "no"}

Kinds == {"spot", "pairs", "history"}
Sides == {"yes", "no"}

\* A daily row carries the address of its pair.  A row of a swap does not, as
\* the swaps are fetched without it.
Rows == [market : Markets, side : Sides, addressed : BOOLEAN]

\* Both carry the symbols of the two tokens in the order of the pair.  These do
\* not tell one market from another.
Symbols(r) == IF <<r.market, r.side>> \in AxUsdFirst THEN "axUSD-" ELSE "-axUSD"

\* The queries of the history, in the order they are made.
Queries ==
  << [side |-> "yes", by |-> "pair"], [side |-> "no", by |-> "pair"],
     [side |-> "yes", by |-> "axUSD-"], [side |-> "yes", by |-> "-axUSD"],
     [side |-> "no", by |-> "axUSD-"], [side |-> "no", by |-> "-axUSD"] >>

VARIABLES
  kind,      \* what is read
  pc,        \* "reading", "done", or "failed" with nothing to show
  ids,       \* ids of the spot markets on the chain, or of the indexed pairs
  limit,     \* what the client asks for on each page, or a batch
  page,      \* the page that is being scanned, or the last batch
  seen,      \* the ids that were returned, on all pages so far
  due,       \* history: ids there were when the first page was asked for
  lost,      \* history: ids whose calls failed
  trades,    \* rows of the trades table
  before,    \* history: rows there were when the history was asked for
  asked,     \* the market whose history it is
  paired,    \* the sides whose pair the registry has
  step,      \* queries that are behind
  answer     \* the rows that are shown on each side

idVars == <<ids, limit, page, seen, due, lost>>
rowVars == <<trades, before, asked, paired, step, answer>>
readVars == <<kind, pc, idVars, rowVars>>

\* As PageAfter, with the cursor taken for the first id of the page.
PageFrom(last) ==
  [at |-> last, until |-> last + Window - 1, last |-> last, found |-> 0, misses |-> 0]

\* The scan of a page: the next id, the last one of the window, the last id
\* that was found, how many were, and how many were missed since.
PageAfter(last) ==
  [at |-> last + 1, until |-> last + Window, last |-> last, found |-> 0, misses |-> 0]

\* Ids of spot markets are given out one after the other; pairs have the
\* addresses of their contracts.
ReadInit ==
  /\ kind \in Kinds
  /\ pc = "reading"
  /\ \/ kind = "spot" /\ ids \in {1..n : n \in 0..MaxId}
     \/ kind = "pairs" /\ ids \in SUBSET (1..MaxId)
     \/ kind = "history" /\ ids = {}
  /\ limit \in IF kind = "spot" THEN Limits ELSE {Batch}
  /\ page = PageAfter(0)
  /\ seen = <<>>
  /\ due = ids
  /\ lost = {}
  /\ \/ kind = "history" /\ trades \in {R \in SUBSET Rows : Cardinality(R) <= MaxRows}
     \/ kind # "history" /\ trades = {}
  /\ before = trades
  /\ asked \in Markets
  /\ paired = {}
  /\ step = 0
  /\ answer = [s \in Sides |-> {}]

-----------------------------------------------------------------------------
(* Spot markets, a call for each id *)

Scanning ==
  /\ kind = "spot" /\ pc = "reading"
  /\ page.found < limit /\ page.at <= page.until /\ page.misses < Misses

\* As Found, with a name made up for an id that has none.
FoundAnyway ==
  /\ Scanning
  /\ seen' = Append(seen, page.at)
  /\ page' = [page EXCEPT !.at = @ + 1, !.last = page.at, !.found = @ + 1, !.misses = 0]
  /\ UNCHANGED <<kind, pc, ids, limit, due, lost, rowVars>>

\* The market has a name and a token.
Found ==
  /\ Scanning
  /\ page.at \in ids
  /\ seen' = Append(seen, page.at)
  /\ page' = [page EXCEPT !.at = @ + 1, !.last = page.at, !.found = @ + 1, !.misses = 0]
  /\ UNCHANGED <<kind, pc, ids, limit, due, lost, rowVars>>

\* There is no such market, or the call failed.
Missed ==
  /\ Scanning
  /\ page' = [page EXCEPT !.at = @ + 1, !.misses = @ + 1]
  /\ lost' = lost \cup ({page.at} \cap ids)
  /\ UNCHANGED <<kind, pc, ids, limit, seen, due, rowVars>>

\* The page is answered, and the client asks for the next one if there is more.
EndPage ==
  /\ kind = "spot" /\ pc = "reading" /\ ~Scanning
  /\ IF page.found >= limit /\ page.misses < Misses
     THEN page' = PageAfter(page.last) /\ UNCHANGED pc
     ELSE pc' = "done" /\ UNCHANGED page
  /\ UNCHANGED <<kind, ids, limit, seen, due, lost, rowVars>>

-----------------------------------------------------------------------------
(* Pairs, a query for each batch *)

\* The query that a batch answers: the first ids above the last one, in their
\* order, each after as many as are below it.
PairsAbove(last) ==
  LET above == {i \in ids : i > last}
      n == Cardinality(above)
  IN [k \in 1..(IF n < limit THEN n ELSE limit) |->
        CHOOSE i \in above : Cardinality({j \in above : j <= i}) = k]

GetBatch ==
  LET batch == PairsAbove(page.last) IN
  /\ kind = "pairs" /\ pc = "reading"
  /\ seen' = seen \o batch
  /\ page' = IF batch = <<>> THEN page ELSE [page EXCEPT !.last = batch[Len(batch)]]
  /\ pc' = IF Len(batch) < limit THEN "done" ELSE "reading"
  /\ UNCHANGED <<kind, ids, limit, due, lost, rowVars>>

\* A market or a pair is added.
Grow ==
  /\ pc = "reading"
  /\ \E i \in (1..MaxId) \ ids :
       /\ \/ kind = "spot" /\ i = Cardinality(ids) + 1
          \/ kind = "pairs"
       /\ ids' = ids \cup {i}
  /\ UNCHANGED <<kind, pc, limit, page, seen, due, lost, rowVars>>

-----------------------------------------------------------------------------
(* Price history, up to six queries *)

\* The registry, as it is found, may have the pair of either side of the market, of
\* both or of none: it matches the tokens, as no record has a contract_address.
Lookup ==
  /\ kind = "history" /\ pc = "reading" /\ step = 0
  /\ paired' \in SUBSET Sides
  /\ step' = 1
  /\ UNCHANGED <<kind, pc, idVars, trades, before, asked, answer>>

\* Rows a query finds; by symbols those of all markets.
Matches(q) ==
  {r \in trades :
     /\ r.side = q.side
     /\ \/ q.by = "pair" /\ r.addressed /\ r.market = asked
        \/ q.by = Symbols(r)}

\* As Needed, by symbols for either side as soon as one shows nothing.
NeededByEither(q) ==
  IF q.by = "pair" THEN q.side \in paired ELSE \E s \in Sides : answer[s] = {}

\* By the pair if it is known, by symbols if the side shows nothing yet.
Needed(q) ==
  IF q.by = "pair" THEN q.side \in paired ELSE answer[q.side] = {}

Query ==
  LET q == Queries[step] IN
  /\ kind = "history" /\ pc = "reading"
  /\ step \in 1..Len(Queries)
  /\ answer' = IF Needed(q) THEN [answer EXCEPT ![q.side] = @ \cup Matches(q)] ELSE answer
  /\ step' = step + 1
  /\ pc' = IF step = Len(Queries) THEN "done" ELSE "reading"
  /\ UNCHANGED <<kind, idVars, trades, before, asked, paired>>

\* The ingest of any process stores a row.
Insert ==
  /\ kind = "history" /\ pc = "reading"
  /\ Cardinality(trades) < MaxRows
  /\ \E r \in Rows \ trades : trades' = trades \cup {r}
  /\ UNCHANGED <<kind, pc, idVars, before, asked, paired, step, answer>>

\* A query fails for good, or the registry cannot be read: there is no list of
\* pairs, and the history is empty.
Fail ==
  /\ kind \in {"pairs", "history"} /\ pc = "reading"
  /\ pc' = "failed"
  /\ seen' = <<>>
  /\ answer' = [s \in Sides |-> {}]
  /\ UNCHANGED <<kind, ids, limit, page, due, lost, trades, before, asked, paired, step>>

ReadNext ==
  \/ Found \/ Missed \/ EndPage \/ GetBatch \/ Grow
  \/ Lookup \/ Query \/ Insert \/ Fail

ReadSpec == ReadInit /\ [][ReadNext]_readVars

-----------------------------------------------------------------------------
(* Properties *)

\* Every variable has its type, and nothing is found that is not there.
ReadTypeOK ==
  /\ kind \in Kinds
  /\ pc \in {"reading", "done", "failed"}
  /\ ids \in SUBSET (1..MaxId)
  /\ limit \in Limits \cup {Batch}
  /\ page \in [at : Nat, until : Nat, last : Nat, found : 0..limit, misses : 0..Misses]
  /\ seen \in Seq(ids)
  /\ due \in SUBSET ids
  /\ lost \in SUBSET ids
  /\ trades \in SUBSET Rows
  /\ before \in SUBSET trades
  /\ asked \in Markets
  /\ paired \in SUBSET Sides
  /\ step \in 0..(Len(Queries) + 1)
  /\ answer \in [Sides -> SUBSET trades]

\* Calls that failed are too few to end a page before its limit is reached.
FewLost == Cardinality(lost) < Misses /\ limit + Cardinality(lost) <= Window

\* Whatever is added between pages or batches, no id is returned twice, and a
\* scan that has come to its end has returned all there were at its beginning,
\* except those whose own calls failed: these take no others with them.
ScanComplete ==
  /\ \A i, j \in DOMAIN seen : i < j => seen[i] < seen[j]
  /\ pc = "done" /\ FewLost => due \ lost \subseteq {seen[i] : i \in DOMAIN seen}

\* A side of a market's history shows rows of that side only, and, if its own
\* pair had daily rows to show when it was asked for, all of these and no row
\* of another market, whatever is stored between the queries.
HistoryIsOwn ==
  kind = "history" /\ pc = "done" =>
    \A s \in Sides :
      LET own == {r \in trades : r.market = asked /\ r.side = s}
          stored == {r \in own \cap before : r.addressed}
      IN /\ \A r \in answer[s] : r.side = s
         /\ s \in paired /\ stored # {} => stored \subseteq answer[s] /\ answer[s] \subseteq own
=============================================================================
