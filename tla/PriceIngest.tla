----------------------------- MODULE PriceIngest -----------------------------
(***************************************************************************)
(* services/price_ingest.py: the task that reads swaps from the subgraph   *)
(* and writes them to QuestDB, one in every worker process, with           *)
(* processes that stop and start, and requests and writes that fail.       *)
(*                                                                         *)
(* A step lasts from one await to the next.  The task is the only one of   *)
(* its process that touches the high-water mark; two processes meet in the *)
(* table, and so does a process with the write its predecessor left in a   *)
(* thread.                                                                 *)
(***************************************************************************)
EXTENDS Naturals, FiniteSets

CONSTANTS
  Workers,      \* processes with an ingest task
  Swaps,        \* swaps that may ever happen
  Unusable,     \* those of which no side and price can be derived
  Pairs,        \* pairs with daily data to backfill
  Limit,        \* limit of get_recent_swaps()
  MaxBlocks, MaxStops  \* bounds on the chain and on processes that end

ASSUME IngestAssumption ==
  /\ Unusable \subseteq Swaps
  /\ Limit \in Nat \ {0} /\ MaxBlocks \in Nat /\ MaxStops \in Nat

VARIABLES
  height,   \* timestamp of the last block in the subgraph
  ts,       \* timestamp of each swap, 0 before the subgraph has it
  table,    \* the table trades: "none", "dedup" or "plain"
  rows,     \* rows of trades for each swap: 0, 1 or 2 (two or more)
  late,     \* writes left in a thread by a process that ended, each as its swaps
  worker,   \* the task of each process, see TaskStates
  stops,    \* processes ended so far
  crowded,  \* history: new swaps beyond the limit of a poll of the task
  doubt     \* history: swaps that the code cannot know to be written: a task that
            \* handled them ended, or their write raised

vars == <<height, ts, table, rows, late, worker, stops, crowded, doubt>>

-----------------------------------------------------------------------------
Usable == Swaps \ Unusable
Indexed == {s \in Swaps : ts[s] > 0}

\* A process that is "off" serves requests and has no task.  "pairs" is sleep(3)
\* and get_all_pairs(), which nothing happens between, "days" and "poll" await the
\* subgraph, "writeDays" and "write" await QuestDB.  mark is _last_swap_ts, left
\* the pairs to backfill after the one in hand, and batch new_swaps.  The rows of
\* daily data are left out.
PCs == {"down", "off", "pairs", "days", "writeDays", "poll", "write", "asleep"}
TaskStates == [pc : PCs, mark : Nat, left : SUBSET Pairs, batch : SUBSET Swaps]

Task(pc, mark, left, batch) == [pc |-> pc, mark |-> mark, left |-> left, batch |-> batch]

NewTask(pc) == Task(pc, 0, {}, {})

Init ==
  /\ height = 0
  /\ ts = [s \in Swaps |-> 0]
  /\ table = "none"
  /\ rows = [s \in Swaps |-> 0]
  /\ late = {}
  /\ worker = [w \in Workers |-> NewTask("down")]
  /\ stops = 0
  /\ crowded = [w \in Workers |-> {}]
  /\ doubt = {}

\* The subgraph has a new block, with all its swaps at once.
Block(new) ==
  /\ height < MaxBlocks
  /\ new # {} /\ new \cap Indexed = {}
  /\ height' = height + 1
  /\ ts' = [s \in Swaps |-> IF s \in new THEN height + 1 ELSE ts[s]]
  /\ UNCHANGED <<table, rows, late, worker, stops, crowded, doubt>>

-----------------------------------------------------------------------------
(* The table *)

\* As Upserted, counting every write.
UpsertedCounts(n) == n + 1

\* A row more of a key in a table with or without DEDUP UPSERT KEYS.
Upserted(n) == IF table = "dedup" \/ n = 0 THEN 1 ELSE 2

\* _ingest_trades_sync() reaches QuestDB: all its rows are in one flush.  A
\* write to a table that is missing creates it, without deduplication.
Applied(swaps) ==
  /\ table' = IF table = "none" THEN "plain" ELSE table
  /\ rows' = [s \in Swaps |-> IF s \in swaps THEN Upserted(rows[s]) ELSE rows[s]]

NotApplied == UNCHANGED <<table, rows>>

-----------------------------------------------------------------------------
(* Processes *)

\* The swaps that the mark of a task has passed.
Passed(w) == {s \in Indexed : ts[s] <= worker[w].mark}

\* lifespan() up to the yield.  init() creates the table or only logs that
\* QuestDB is not there, and the task is created either way.  Without
\* ingest_enabled, or if init() raises what it does not catch itself, the
\* process runs without a task.
Startup(w) ==
  /\ worker[w].pc = "down"
  /\ \E pc \in {"pairs", "off"} : worker' = [worker EXCEPT ![w] = NewTask(pc)]
  /\ table' \in {table, IF table = "none" THEN "dedup" ELSE table}
  /\ UNCHANGED <<height, ts, rows, late, stops, crowded, doubt>>

\* The process ends: it crashes, or lifespan() cancels the task and the task
\* breaks out of its loop.  The thread of a write goes on, or dies with it.
Shutdown(w) ==
  /\ worker[w].pc # "down"
  /\ stops < MaxStops
  /\ stops' = stops + 1
  /\ worker' = [worker EXCEPT ![w] = NewTask("down")]
  /\ \/ UNCHANGED late
     \/ /\ worker[w].pc \in {"write", "writeDays"}
        /\ late' = late \cup {worker[w].batch \cap Usable}
  /\ crowded' = [crowded EXCEPT ![w] = {}]
  /\ doubt' = doubt \cup Passed(w) \cup worker[w].batch
  /\ UNCHANGED <<height, ts, table, rows>>

LateWrite(b) ==
  /\ late' = late \ {b}
  /\ Applied(b)
  /\ UNCHANGED <<height, ts, worker, stops, crowded, doubt>>

-----------------------------------------------------------------------------
(* The task *)

\* A step that only concerns the task itself.
Goes(w, state) ==
  /\ worker' = [worker EXCEPT ![w] = state]
  /\ UNCHANGED <<height, ts, late, stops>>

\* The task is done with pairs and swaps and waits at pc.
Waits(w, pc) == Goes(w, Task(pc, worker[w].mark, {}, {}))

\* The next pair of _backfill(), or the first poll after it.
NextPair(w, left) ==
  \/ left = {} /\ Waits(w, "poll")
  \/ \E p \in left : Goes(w, Task("days", worker[w].mark, left \ {p}, {}))

\* get_all_pairs() returns, or raises: then there is no backfill.
PairsFetched(w) ==
  /\ worker[w].pc = "pairs"
  /\ NextPair(w, Pairs) \/ NextPair(w, {})
  /\ UNCHANGED <<table, rows, crowded, doubt>>

\* get_pair_day_data() returns days, or none, or raises.
DaysFetched(w) ==
  /\ worker[w].pc = "days"
  /\ \/ Goes(w, Task("writeDays", worker[w].mark, worker[w].left, {}))
     \/ NextPair(w, worker[w].left)
  /\ UNCHANGED <<table, rows, crowded, doubt>>

\* As DaysWritten, with a pair that is tried again until it is written.
DaysWrittenOrAgain(w) ==
  /\ worker[w].pc = "writeDays"
  /\ \/ Applied({}) /\ NextPair(w, worker[w].left)
     \/ NotApplied /\ Goes(w, Task("days", worker[w].mark, worker[w].left, {}))
  /\ UNCHANGED <<crowded, doubt>>

\* ingest_trades() of the days returns or raises, and the loop goes on.
DaysWritten(w) ==
  /\ worker[w].pc = "writeDays"
  /\ Applied({}) \/ NotApplied
  /\ NextPair(w, worker[w].left)
  /\ UNCHANGED <<crowded, doubt>>

\* The subgraph's answer: the newest swaps, ties in any order.
Newest(window) ==
  /\ window \subseteq Indexed
  /\ IF Cardinality(Indexed) <= Limit THEN window = Indexed ELSE Cardinality(window) = Limit
  /\ \A s \in window, r \in Indexed \ window : ts[s] >= ts[r]

\* As Above, for a poll that asks for later swaps than the mark by one.
AboveNext(w, swaps) == {s \in swaps : ts[s] > worker[w].mark + 1}

\* As Above, for a poll that asks for the last swap again.
AboveFrom(w, swaps) == {s \in swaps : ts[s] >= worker[w].mark}

\* The new ones: those later than the mark.
Above(w, swaps) == {s \in swaps : ts[s] > worker[w].mark}

\* get_recent_swaps() returns.  Nothing is written, and the mark stays, if no
\* new swap is usable.
Polled(w) ==
  /\ worker[w].pc = "poll"
  /\ \E window \in SUBSET Indexed :
       LET new == Above(w, window)
       IN  /\ Newest(window)
           /\ crowded' = [crowded EXCEPT ![w] = @ \cup (Above(w, Indexed) \ window)]
           /\ \/ /\ new \cap Usable # {}
                 /\ Goes(w, Task("write", worker[w].mark, {}, new))
              \/ /\ new \cap Usable = {}
                 /\ Waits(w, "asleep")
  /\ UNCHANGED <<table, rows, doubt>>

PollFailed(w) ==
  /\ worker[w].pc = "poll"
  /\ Waits(w, "asleep")
  /\ UNCHANGED <<table, rows, crowded, doubt>>

\* The latest of the swaps.
Latest(swaps) == {s \in swaps : \A r \in swaps : ts[r] <= ts[s]}

\* ingest_trades() returns and the mark moves up.
Written(w) ==
  /\ worker[w].pc = "write"
  /\ Applied(worker[w].batch \cap Usable)
  /\ \E s \in Latest(worker[w].batch) : Goes(w, Task("asleep", ts[s], {}, {}))
  /\ UNCHANGED <<crowded, doubt>>

\* As WriteFailed, with the mark moved up before the write.
WriteFailedMoves(w) ==
  /\ worker[w].pc = "write"
  /\ Applied(worker[w].batch \cap Usable) \/ NotApplied
  /\ \E s \in Latest(worker[w].batch) : Goes(w, Task("asleep", ts[s], {}, {}))
  /\ doubt' = doubt \cup worker[w].batch
  /\ UNCHANGED crowded

\* ingest_trades() raises, whether or not QuestDB took the rows.
WriteFailed(w) ==
  /\ worker[w].pc = "write"
  /\ Applied(worker[w].batch \cap Usable) \/ NotApplied
  /\ Waits(w, "asleep")
  /\ doubt' = doubt \cup worker[w].batch
  /\ UNCHANGED crowded

\* sleep(ingest_poll_interval) is over; the backfill was tried and is not again.
Wake(w) ==
  /\ worker[w].pc = "asleep"
  /\ Waits(w, "poll")
  /\ UNCHANGED <<table, rows, crowded, doubt>>

TaskStep(w) ==
  \/ PairsFetched(w) \/ DaysFetched(w) \/ DaysWritten(w)
  \/ Polled(w) \/ PollFailed(w) \/ Written(w) \/ WriteFailed(w) \/ Wake(w)

Next ==
  \/ \E new \in SUBSET Swaps : Block(new)
  \/ \E w \in Workers : Startup(w) \/ Shutdown(w) \/ TaskStep(w)
  \/ \E b \in late : LateWrite(b)

Spec == Init /\ [][Next]_vars

\* Processes are started again, the loop runs whatever is ready, and requests
\* and writes do not fail for ever.
Fairness ==
  \A w \in Workers :
    /\ WF_vars(Startup(w))
    /\ WF_vars(TaskStep(w))
    /\ SF_vars(Polled(w))
    /\ SF_vars(Written(w))

FairSpec == Spec /\ Fairness

-----------------------------------------------------------------------------
(* Properties *)

\* Every variable has its type.
TypeOK ==
  /\ height \in Nat /\ stops \in Nat
  /\ ts \in [Swaps -> Nat]
  /\ table \in {"none", "dedup", "plain"}
  /\ rows \in [Swaps -> 0..2]
  /\ late \in SUBSET (SUBSET Swaps)
  /\ worker \in [Workers -> TaskStates]
  /\ crowded \in [Workers -> SUBSET Swaps]
  /\ doubt \in SUBSET Swaps

\* What the mark of a task has passed is in the table, however many writes
\* failed before: no later poll would look at it again.  The exception are
\* swaps of a rush of more than `Limit` between two polls.
MarkCovers ==
  \A w \in Workers, s \in Indexed \cap Usable :
    ts[s] <= worker[w].mark => rows[s] > 0 \/ s \in crowded[w]

\* Even in a table without deduplication, which the first write makes when
\* QuestDB was not there for init(), a swap is doubled for one of three reasons
\* only: two processes have handled it, a task that had handled it ended, perhaps
\* with a write left behind, or a write of it raised.  A task that goes on never
\* by itself writes again what was written.
DoubledOnlyInDoubt ==
  \A s \in Swaps : rows[s] > 1 =>
    \/ s \in doubt
    \/ \E v, w \in Workers : v # w /\ s \in Passed(v) \cap Passed(w)

\* Every usable swap gets into the table, unless every process runs without a
\* task or saw a rush that pushed it out.
EventuallyStored ==
  \A s \in Usable :
    (s \in Indexed) ~>
      \/ rows[s] > 0
      \/ \A w \in Workers : worker[w].pc = "off" \/ s \in crowded[w]

\* A poll and a backfill that fail never stop the task.
KeepsPolling ==
  \A w \in Workers :
    [](worker[w].pc # "poll" => <>(worker[w].pc \in {"poll", "off"}))
=============================================================================
