-------------------------- MODULE PriceIngestProofs --------------------------
(***************************************************************************)
(* Proofs about PriceIngest for any processes, swaps, pairs and limit, and *)
(* about MarketReads, whose histories read the table that the ingest       *)
(* fills: the second part, which uses nothing of the first.                *)
(***************************************************************************)
EXTENDS PriceIngest, MarketReads, FiniteSetTheorems, SequenceTheorems, TLAPS

\* Blocks come in order, and no mark is ahead of them.
Ordered ==
  /\ \A s \in Swaps : ts[s] <= height
  /\ \A w \in Workers : worker[w].mark <= height

\* While a task writes, every swap up to any of its batch is in the batch or
\* accounted for already: what the subgraph shows later is later.  This is what
\* lets the mark move to the latest of the batch when the write returns.
BatchCovers ==
  \A w \in Workers : worker[w].pc = "write" =>
    /\ worker[w].batch \subseteq Indexed
    /\ \A b \in worker[w].batch, s \in Indexed \cap Usable :
         ts[s] <= ts[b] => rows[s] > 0 \/ s \in crowded[w] \/ s \in worker[w].batch

IInv ==
  /\ TypeOK
  /\ Ordered
  /\ MarkCovers
  /\ BatchCovers

-----------------------------------------------------------------------------
(* Writes *)

\* The table and the history keep their types, and no swap is lost.
StoreGrows ==
  /\ table' \in {"none", "dedup", "plain"}
  /\ rows' \in [Swaps -> 0..2]
  /\ doubt' \in SUBSET Swaps
  /\ \A s \in Swaps : rows[s] > 0 => rows'[s] > 0

LEMMA UpsertedType ==
  ASSUME NEW n \in 0..2
  PROVE  Upserted(n) \in {1, 2} /\ (n = 0 => Upserted(n) = 1)
BY DEF Upserted

LEMMA AppliedRows ==
  ASSUME IInv, NEW swaps \in SUBSET Swaps, Applied(swaps)
  PROVE  /\ table' \in {"dedup", "plain"}
         /\ rows' \in [Swaps -> 0..2]
         /\ \A s \in swaps : rows'[s] > 0 /\ (rows'[s] > 1 => rows[s] > 0)
         /\ \A s \in Swaps \ swaps : rows'[s] = rows[s]
<1>1. rows \in [Swaps -> 0..2] /\ table \in {"none", "dedup", "plain"}
  BY DEF IInv, TypeOK
<1>2. \A s \in Swaps : rows'[s] = IF s \in swaps THEN Upserted(rows[s]) ELSE rows[s]
  BY DEF Applied
<1>3. rows' = [s \in Swaps |-> rows'[s]]
  BY DEF Applied
<1>4. \A s \in Swaps : rows'[s] \in 0..2
  BY <1>1, <1>2, UpsertedType
<1>5. ASSUME NEW s \in swaps PROVE rows'[s] > 0 /\ (rows'[s] > 1 => rows[s] > 0)
  <2>1. rows'[s] = Upserted(rows[s]) /\ rows[s] \in 0..2
    BY <1>1, <1>2
  <2>2. Upserted(rows[s]) \in {1, 2} /\ (rows[s] = 0 => Upserted(rows[s]) = 1)
    BY <2>1, UpsertedType
  <2>. QED  BY <2>1, <2>2
<1>6. table' \in {"dedup", "plain"}
  BY <1>1 DEF Applied
<1>. QED  BY <1>2, <1>3, <1>4, <1>5, <1>6

LEMMA AppliedGrows ==
  ASSUME IInv, NEW swaps \in SUBSET Swaps, Applied(swaps), doubt' \in SUBSET Swaps
  PROVE  StoreGrows /\ \A s \in swaps : rows'[s] > 0
BY AppliedRows DEF StoreGrows

LEMMA NotAppliedGrows ==
  ASSUME IInv, UNCHANGED <<table, rows>>, doubt' \in SUBSET Swaps
  PROVE  StoreGrows
BY DEF IInv, TypeOK, StoreGrows

-----------------------------------------------------------------------------
(* Steps of a task *)

\* What a task may have passed: a swap is stored, or its poll was crowded.
Accounted(w, s) == rows[s] > 0 \/ s \in crowded[w]

\* A step of a task to a state whose mark and batch are accounted for.
LEMMA TaskMoves ==
  ASSUME IInv, NEW w \in Workers, NEW state \in TaskStates, Goes(w, state),
         StoreGrows,
         crowded' \in [Workers -> SUBSET Swaps],
         \A v \in Workers : crowded[v] \subseteq crowded'[v],
         state.mark <= height,
         \A s \in Indexed \cap Usable : ts[s] <= state.mark => Accounted(w, s)',
         state.pc = "write" =>
           /\ state.batch \subseteq Indexed
           /\ \A b \in state.batch, s \in Indexed \cap Usable :
                ts[s] <= ts[b] => Accounted(w, s)' \/ s \in state.batch
  PROVE  IInv'
<1>1. /\ worker' = [worker EXCEPT ![w] = state] /\ worker \in [Workers -> TaskStates]
      /\ UNCHANGED <<height, ts, late, stops>>
  BY DEF Goes, IInv, TypeOK
<1>2. /\ worker' \in [Workers -> TaskStates] /\ worker'[w] = state
      /\ \A v \in Workers \ {w} : worker'[v] = worker[v]
  BY <1>1
<1>3. /\ Indexed' = Indexed
      /\ \A v \in Workers, s \in Swaps : Accounted(v, s) => Accounted(v, s)'
  BY <1>1 DEF Indexed, Accounted, StoreGrows
<1>4. TypeOK'
  BY <1>1, <1>2 DEF IInv, TypeOK, StoreGrows
<1>5. Ordered'
  BY <1>1, <1>2 DEF IInv, Ordered
<1>6. MarkCovers'
  <2> SUFFICES ASSUME NEW v \in Workers, NEW s \in Indexed \cap Usable, ts[s] <= worker'[v].mark
               PROVE  Accounted(v, s)'
    BY <1>1, <1>3 DEF MarkCovers, Accounted
  <2>1. CASE v = w
    BY <1>2, <2>1
  <2>2. CASE v # w
    BY <1>2, <1>3, <2>2 DEF IInv, MarkCovers, Accounted, Indexed
  <2>. QED  BY <2>1, <2>2
<1>7. BatchCovers'
  <2> SUFFICES ASSUME NEW v \in Workers, worker'[v].pc = "write"
               PROVE  /\ worker'[v].batch \subseteq Indexed
                      /\ \A b \in worker'[v].batch, s \in Indexed \cap Usable :
                           ts[s] <= ts[b] => Accounted(v, s)' \/ s \in worker'[v].batch
    BY <1>1, <1>3 DEF BatchCovers, Accounted
  <2>1. CASE v = w
    BY <1>2, <2>1
  <2>2. CASE v # w
    <3>1. worker'[v] = worker[v]
      BY <1>2, <2>2
    <3>2. \A b \in worker[v].batch, s \in Indexed \cap Usable :
            ts[s] <= ts[b] => Accounted(v, s) \/ s \in worker[v].batch
      BY <3>1 DEF IInv, BatchCovers, Accounted
    <3>. QED  BY <1>3, <3>1, <3>2 DEF IInv, BatchCovers, Indexed
  <2>. QED  BY <2>1, <2>2
<1>. QED  BY <1>4, <1>5, <1>6, <1>7 DEF IInv, StoreGrows

\* A step that keeps the mark and holds no batch.
LEMMA TaskGoesOn ==
  ASSUME IInv, NEW w \in Workers, NEW state \in TaskStates, Goes(w, state),
         StoreGrows, crowded' \in [Workers -> SUBSET Swaps],
         \A v \in Workers : crowded[v] \subseteq crowded'[v],
         state.mark = worker[w].mark, state.pc # "write"
  PROVE  IInv'
<1>1. state.mark <= height
  BY DEF IInv, Ordered
<1>2. \A s \in Indexed \cap Usable : ts[s] <= state.mark => Accounted(w, s)'
  BY DEF IInv, MarkCovers, Accounted, StoreGrows, Indexed
<1>. QED  BY <1>1, <1>2, TaskMoves

LEMMA TaskType ==
  ASSUME IInv, NEW w \in Workers
  PROVE  /\ worker[w] \in TaskStates /\ worker[w].mark \in Nat
         /\ worker[w].left \in SUBSET Pairs
         /\ worker[w].batch \in SUBSET Swaps
         /\ doubt \in SUBSET Swaps
         /\ \A at \in PCs : /\ Task(at, worker[w].mark, {}, {}) \in TaskStates
                            /\ Task(at, worker[w].mark, {}, {}).mark = worker[w].mark
                            /\ Task(at, worker[w].mark, {}, {}).pc = at
BY DEF IInv, TypeOK, TaskStates, Task

\* Waiting elsewhere, with the same mark and nothing in hand.
LEMMA WaitsIInv ==
  ASSUME IInv, NEW w \in Workers, NEW at \in PCs \ {"write"}, Waits(w, at),
         StoreGrows, UNCHANGED crowded
  PROVE  IInv'
<1>1. crowded' \in [Workers -> SUBSET Swaps] /\ \A v \in Workers : crowded[v] \subseteq crowded'[v]
  BY DEF IInv, TypeOK
<1>. QED  BY <1>1, TaskType, TaskGoesOn DEF Waits

LEMMA NextPairIInv ==
  ASSUME IInv, NEW w \in Workers, NEW left \in SUBSET Pairs, NextPair(w, left),
         StoreGrows, UNCHANGED crowded
  PROVE  IInv'
<1>1. CASE left = {} /\ Waits(w, "poll")
  BY <1>1, WaitsIInv DEF PCs
<1>2. ASSUME NEW p \in left, Goes(w, Task("days", worker[w].mark, left \ {p}, {}))
      PROVE  IInv'
  <2> DEFINE state == Task("days", worker[w].mark, left \ {p}, {})
  <2>1. state \in TaskStates /\ state.mark = worker[w].mark /\ state.pc # "write"
    BY TaskType DEF TaskStates, PCs, Task
  <2>2. crowded' \in [Workers -> SUBSET Swaps] /\ \A v \in Workers : crowded[v] \subseteq crowded'[v]
    BY DEF IInv, TypeOK
  <2> HIDE DEF state
  <2>3. Goes(w, state)
    BY <1>2 DEF state
  <2>. QED  BY <2>1, <2>2, <2>3, TaskGoesOn
<1>. QED  BY <1>1, <1>2 DEF NextPair

LEMMA DaysFetchedIInv ==
  ASSUME IInv, NEW w \in Workers, DaysFetched(w)
  PROVE  IInv'
<1>1. StoreGrows /\ crowded' = crowded
  BY NotAppliedGrows, TaskType DEF DaysFetched
<1>2. CASE NextPair(w, worker[w].left)
  BY <1>1, <1>2, TaskType, NextPairIInv
<1>3. CASE Goes(w, Task("writeDays", worker[w].mark, worker[w].left, {}))
  <2> DEFINE state == Task("writeDays", worker[w].mark, worker[w].left, {})
  <2>1. state \in TaskStates /\ state.mark = worker[w].mark /\ state.pc # "write"
    BY TaskType DEF TaskStates, PCs, Task
  <2>2. crowded' \in [Workers -> SUBSET Swaps] /\ \A v \in Workers : crowded[v] \subseteq crowded'[v]
    BY <1>1 DEF IInv, TypeOK
  <2> HIDE DEF state
  <2>3. Goes(w, state)
    BY <1>3 DEF state
  <2>. QED  BY <1>1, <2>1, <2>2, <2>3, TaskGoesOn
<1>. QED  BY <1>2, <1>3 DEF DaysFetched

\* The poll accounts for every swap the subgraph has: it is stored, below the
\* mark, in the answer or crowded out of it.
LEMMA PolledIInv ==
  ASSUME IInv, NEW w \in Workers, Polled(w)
  PROVE  IInv'
<1>1. StoreGrows /\ rows' = rows
  BY NotAppliedGrows, TaskType DEF Polled
<1>2. PICK window \in SUBSET Indexed :
        /\ crowded' = [crowded EXCEPT ![w] = @ \cup (Above(w, Indexed) \ window)]
        /\ \/ Goes(w, Task("write", worker[w].mark, {}, Above(w, window)))
           \/ Waits(w, "asleep")
  BY DEF Polled
<1>3. /\ crowded \in [Workers -> SUBSET Swaps] /\ Above(w, Indexed) \subseteq Swaps
      /\ Above(w, window) \subseteq Indexed /\ Indexed \subseteq Swaps
  BY <1>2 DEF IInv, TypeOK, Above, Indexed
<1>4. /\ crowded' \in [Workers -> SUBSET Swaps]
      /\ \A v \in Workers : crowded[v] \subseteq crowded'[v]
      /\ Above(w, Indexed) \ window \subseteq crowded'[w]
  BY <1>2, <1>3
<1>5. CASE Waits(w, "asleep")
  BY <1>1, <1>4, <1>5, TaskType, TaskGoesOn DEF Waits, PCs
<1>6. CASE Goes(w, Task("write", worker[w].mark, {}, Above(w, window)))
  <2> DEFINE state == Task("write", worker[w].mark, {}, Above(w, window))
  <2>1. /\ state \in TaskStates /\ state.mark = worker[w].mark
        /\ state.batch = Above(w, window) /\ state.batch \subseteq Indexed
    BY <1>3, TaskType DEF TaskStates, PCs, Task
  <2>2. state.mark <= height
    BY <2>1 DEF IInv, Ordered
  <2>3. \A s \in Indexed \cap Usable : ts[s] <= state.mark => Accounted(w, s)'
    BY <1>1, <1>4, <2>1 DEF IInv, MarkCovers, Accounted
  <2>4. \A s \in Indexed \cap Usable : Accounted(w, s)' \/ s \in state.batch
    <3> SUFFICES ASSUME NEW s \in Indexed \cap Usable PROVE Accounted(w, s)' \/ s \in state.batch
      OBVIOUS
    <3>1. ts[s] \in Nat /\ worker[w].mark \in Nat
      BY <1>3, TaskType DEF IInv, TypeOK
    <3>2. CASE ts[s] <= worker[w].mark
      BY <2>1, <2>3, <3>2
    <3>3. CASE ts[s] > worker[w].mark
      BY <1>4, <2>1, <3>3 DEF Above, Accounted
    <3>. QED  BY <3>1, <3>2, <3>3
  <2> HIDE DEF state
  <2>5. Goes(w, state)
    BY <1>6 DEF state
  <2>. QED  BY <1>1, <1>4, <2>1, <2>2, <2>3, <2>4, <2>5, TaskMoves
<1>. QED  BY <1>2, <1>5, <1>6

\* The mark moves to the latest of a batch that is stored now.
LEMMA WrittenIInv ==
  ASSUME IInv, NEW w \in Workers, Written(w)
  PROVE  IInv'
<1> DEFINE batch == worker[w].batch
<1>1. worker[w].pc = "write" /\ crowded' = crowded /\ batch \subseteq Indexed /\ Indexed \subseteq Swaps
  BY DEF Written, IInv, BatchCovers, Indexed
<1>2. StoreGrows /\ \A s \in batch \cap Usable : rows'[s] > 0
  <2>1. /\ Applied(batch \cap Usable) /\ batch \cap Usable \in SUBSET Swaps
        /\ doubt' \in SUBSET Swaps
    BY <1>1, TaskType DEF Written
  <2>. QED  BY <2>1, AppliedGrows
<1>3. PICK b \in Latest(batch) : Goes(w, Task("asleep", ts[b], {}, {}))
  BY DEF Written
<1> DEFINE state == Task("asleep", ts[b], {}, {})
<1>4. b \in batch /\ b \in Swaps
  BY <1>1, <1>3 DEF Latest
<1>5. state \in TaskStates /\ state.mark = ts[b] /\ state.pc = "asleep" /\ ts[b] <= height
  BY <1>4 DEF IInv, TypeOK, TaskStates, PCs, Task, Ordered
<1>6. \A s \in Indexed \cap Usable : ts[s] <= ts[b] => Accounted(w, s)'
  BY <1>1, <1>2, <1>4 DEF IInv, BatchCovers, Accounted, StoreGrows, Indexed
<1>7. crowded' \in [Workers -> SUBSET Swaps] /\ \A v \in Workers : crowded[v] \subseteq crowded'[v]
  BY <1>1 DEF IInv, TypeOK
<1> HIDE DEF state
<1>8. Goes(w, state)
  BY <1>3 DEF state
<1>. QED  BY <1>2, <1>5, <1>6, <1>7, <1>8, TaskMoves

LEMMA TaskStepIInv ==
  ASSUME IInv, NEW w \in Workers, TaskStep(w)
  PROVE  IInv'
<1>1. doubt \in SUBSET Swaps /\ worker[w].batch \cap Usable \in SUBSET Swaps
  BY TaskType
<1>2. CASE PairsFetched(w)
  BY <1>1, <1>2, NotAppliedGrows, NextPairIInv DEF PairsFetched
<1>3. CASE DaysFetched(w)
  BY <1>3, DaysFetchedIInv
<1>4. CASE DaysWritten(w)
  <2>1. StoreGrows
    BY <1>1, <1>4, AppliedGrows, NotAppliedGrows DEF DaysWritten, NotApplied
  <2>. QED  BY <1>4, <2>1, TaskType, NextPairIInv DEF DaysWritten
<1>5. CASE Polled(w)
  BY <1>5, PolledIInv
<1>6. CASE PollFailed(w)
  BY <1>1, <1>6, NotAppliedGrows, WaitsIInv DEF PollFailed, PCs
<1>7. CASE Written(w)
  BY <1>7, WrittenIInv
<1>8. CASE WriteFailed(w)
  <2>1. doubt' \in SUBSET Swaps
    BY <1>1, <1>8, TaskType DEF WriteFailed
  <2>2. StoreGrows
    BY <1>1, <1>8, <2>1, AppliedGrows, NotAppliedGrows DEF WriteFailed, NotApplied
  <2>. QED  BY <1>8, <2>2, WaitsIInv DEF WriteFailed, PCs
<1>9. CASE Wake(w)
  BY <1>1, <1>9, NotAppliedGrows, WaitsIInv DEF Wake, PCs
<1>. QED  BY <1>2, <1>3, <1>4, <1>5, <1>6, <1>7, <1>8, <1>9 DEF TaskStep

-----------------------------------------------------------------------------
(* Steps of the subgraph and of processes *)

LEMMA InitIInv == Init => IInv
<1> SUFFICES ASSUME Init PROVE IInv
  OBVIOUS
<1>1. TypeOK
  BY DEF Init, TypeOK, NewTask, Task, TaskStates, PCs
<1>2. MarkCovers
  BY DEF Init, MarkCovers, Indexed
<1>3. Ordered /\ BatchCovers
  BY DEF Init, Ordered, BatchCovers, NewTask, Task
<1>. QED  BY <1>1, <1>2, <1>3 DEF IInv

\* A new block is later than every mark and every batch.
LEMMA BlockIInv ==
  ASSUME IInv, NEW new \in SUBSET Swaps, Block(new)
  PROVE  IInv'
<1>1. /\ height' = height + 1 /\ height \in Nat /\ ts \in [Swaps -> Nat]
      /\ \A s \in Swaps : ts'[s] = IF s \in new THEN height + 1 ELSE ts[s]
      /\ ts' = [s \in Swaps |-> ts'[s]]
      /\ \A s \in new : s \notin Indexed
      /\ UNCHANGED <<table, rows, late, worker, stops, crowded, doubt>>
  BY DEF Block, IInv, TypeOK
<1>2. ts' \in [Swaps -> Nat] /\ height' \in Nat
  <2>1. \A s \in Swaps : ts'[s] \in Nat
    BY <1>1
  <2>. QED  BY <1>1, <2>1
<1>3. TypeOK'
  BY <1>1, <1>2 DEF IInv, TypeOK
<1>4. \A w \in Workers : worker[w].mark \in Nat /\ worker[w].mark <= height
  BY TaskType DEF IInv, Ordered
<1>5. Ordered'
  <2>1. \A s \in Swaps : ts'[s] <= height'
    BY <1>1 DEF IInv, Ordered
  <2>2. \A w \in Workers : worker'[w].mark <= height'
    BY <1>1, <1>4
  <2>. QED  BY <2>1, <2>2 DEF Ordered
<1>6. \A s \in Indexed' \ Indexed : ts'[s] = height + 1
  BY <1>1 DEF Indexed
<1>7. \A s \in Indexed : s \in Indexed' /\ ts'[s] = ts[s] /\ ts[s] \in Nat /\ ts[s] <= height
  BY <1>1 DEF Indexed, IInv, Ordered
<1>8. MarkCovers'
  <2> SUFFICES ASSUME NEW w \in Workers, NEW s \in Indexed' \cap Usable, ts'[s] <= worker[w].mark
               PROVE  rows[s] > 0 \/ s \in crowded[w]
    BY <1>1 DEF MarkCovers
  <2>1. s \in Indexed
    BY <1>1, <1>4, <1>6
  <2>. QED  BY <1>7, <2>1 DEF IInv, MarkCovers
<1>9. BatchCovers'
  <2> SUFFICES ASSUME NEW w \in Workers, worker[w].pc = "write"
               PROVE  /\ worker[w].batch \subseteq Indexed'
                      /\ \A b \in worker[w].batch, s \in Indexed' \cap Usable :
                           ts'[s] <= ts'[b] =>
                             rows[s] > 0 \/ s \in crowded[w] \/ s \in worker[w].batch
    BY <1>1 DEF BatchCovers
  <2>1. worker[w].batch \subseteq Indexed
    BY DEF IInv, BatchCovers
  <2>2. ASSUME NEW b \in worker[w].batch, NEW s \in Indexed' \cap Usable, ts'[s] <= ts'[b]
        PROVE  rows[s] > 0 \/ s \in crowded[w] \/ s \in worker[w].batch
    <3>1. s \in Indexed
      BY <1>1, <1>6, <1>7, <2>1, <2>2
    <3>. QED  BY <1>7, <2>1, <2>2, <3>1 DEF IInv, BatchCovers
  <2>. QED  BY <1>7, <2>1, <2>2
<1>. QED  BY <1>3, <1>5, <1>8, <1>9 DEF IInv

\* A process that starts or ends has passed nothing.
LEMMA ProcessIInv ==
  ASSUME IInv, NEW w \in Workers, NEW at \in PCs \ {"write"},
         worker' = [worker EXCEPT ![w] = NewTask(at)],
         table' \in {"none", "dedup", "plain"}, stops' \in Nat,
         late' \in SUBSET (SUBSET Swaps), doubt' \in SUBSET Swaps,
         crowded' \in [Workers -> SUBSET Swaps],
         \A v \in Workers \ {w} : crowded'[v] = crowded[v],
         UNCHANGED <<height, ts, rows>>
  PROVE  IInv'
<1>1. NewTask(at) \in TaskStates /\ NewTask(at).mark = 0 /\ NewTask(at).pc # "write"
  BY DEF NewTask, Task, TaskStates
<1>2. worker \in [Workers -> TaskStates]
  BY DEF IInv, TypeOK
<1>3. /\ worker' \in [Workers -> TaskStates] /\ worker'[w] = NewTask(at)
      /\ \A v \in Workers \ {w} : worker'[v] = worker[v]
  BY <1>1, <1>2
<1>4. TypeOK'
  BY <1>3 DEF IInv, TypeOK
<1>5. Ordered'
  BY <1>1, <1>3 DEF IInv, Ordered, TypeOK
<1>6. MarkCovers'
  <2>1. \A s \in Indexed : ~(ts[s] <= worker'[w].mark)
    BY <1>1, <1>3 DEF Indexed, IInv, TypeOK
  <2>. QED  BY <1>3, <2>1 DEF IInv, MarkCovers, Indexed
<1>7. BatchCovers'
  BY <1>1, <1>3 DEF IInv, BatchCovers, Indexed
<1>. QED  BY <1>4, <1>5, <1>6, <1>7 DEF IInv

LEMMA StartupIInv ==
  ASSUME IInv, NEW w \in Workers, Startup(w)
  PROVE  IInv'
<1>1. PICK at \in {"pairs", "off"} : worker' = [worker EXCEPT ![w] = NewTask(at)]
  BY DEF Startup
<1>2. /\ table' \in {"none", "dedup", "plain"} /\ at \in PCs \ {"write"}
      /\ UNCHANGED <<height, ts, rows, late, stops, crowded, doubt>>
      /\ stops \in Nat /\ late \in SUBSET (SUBSET Swaps) /\ doubt \in SUBSET Swaps
      /\ crowded \in [Workers -> SUBSET Swaps]
  BY DEF Startup, IInv, TypeOK, PCs
<1>. QED  BY <1>1, <1>2, ProcessIInv

LEMMA ShutdownIInv ==
  ASSUME IInv, NEW w \in Workers, Shutdown(w)
  PROVE  IInv'
<1>1. /\ worker' = [worker EXCEPT ![w] = NewTask("down")] /\ "down" \in PCs \ {"write"}
      /\ stops' \in Nat /\ table' \in {"none", "dedup", "plain"}
      /\ UNCHANGED <<height, ts, rows>>
  BY DEF Shutdown, IInv, TypeOK, PCs
<1>2. late' \in SUBSET (SUBSET Swaps)
  BY TaskType DEF Shutdown, IInv, TypeOK
<1>3. doubt' \in SUBSET Swaps
  BY TaskType DEF Shutdown, Passed, Indexed
<1>4. /\ crowded' \in [Workers -> SUBSET Swaps]
      /\ \A v \in Workers \ {w} : crowded'[v] = crowded[v]
  BY DEF Shutdown, IInv, TypeOK
<1>. QED  BY <1>1, <1>2, <1>3, <1>4, ProcessIInv

LEMMA LateWriteIInv ==
  ASSUME IInv, NEW b \in late, LateWrite(b)
  PROVE  IInv'
<1>1. b \in SUBSET Swaps /\ doubt' \in SUBSET Swaps
  BY DEF IInv, TypeOK, LateWrite
<1>2. StoreGrows
  BY <1>1, AppliedGrows DEF LateWrite
<1>3. late' \subseteq late /\ UNCHANGED <<height, ts, worker, stops, crowded, doubt>>
  BY DEF LateWrite
<1>4. TypeOK'
  BY <1>2, <1>3 DEF IInv, TypeOK, StoreGrows
<1>5. Ordered' /\ MarkCovers' /\ BatchCovers'
  BY <1>2, <1>3 DEF IInv, Ordered, MarkCovers, BatchCovers, StoreGrows, Indexed
<1>. QED  BY <1>4, <1>5 DEF IInv

-----------------------------------------------------------------------------
LEMMA NextIInv ==
  ASSUME IInv, [Next]_vars
  PROVE  IInv'
<1>1. ASSUME NEW new \in SUBSET Swaps, Block(new) PROVE IInv'
  BY <1>1, BlockIInv
<1>2. ASSUME NEW w \in Workers, Startup(w) \/ Shutdown(w) \/ TaskStep(w) PROVE IInv'
  BY <1>2, StartupIInv, ShutdownIInv, TaskStepIInv
<1>3. ASSUME NEW b \in late, LateWrite(b) PROVE IInv'
  BY <1>3, LateWriteIInv
<1>4. CASE UNCHANGED vars
  BY <1>4 DEF vars, IInv, TypeOK, Ordered, MarkCovers, BatchCovers, Indexed
<1>. QED  BY <1>1, <1>2, <1>3, <1>4 DEF Next

LEMMA Invariance == Spec => []IInv
BY NextIInv, InitIInv, PTL DEF Spec

\* Every variable of the ingest keeps its type.
THEOREM TypeCorrect == Spec => []TypeOK
<1>1. IInv => TypeOK
  BY DEF IInv
<1>. QED  BY <1>1, Invariance, PTL

\* The high-water mark never passes a usable swap that is not stored, other
\* than one that a poll had no room for.
THEOREM MarkNeverLoses == Spec => []MarkCovers
<1>1. IInv => MarkCovers
  BY DEF IInv
<1>. QED  BY <1>1, Invariance, PTL

-----------------------------------------------------------------------------
(* What is written twice *)

\* A task only writes what its mark has not passed.
BatchAbove ==
  \A w \in Workers : worker[w].pc = "write" =>
    \A s \in worker[w].batch : ts[s] > worker[w].mark

LateInDoubt == \A b \in late : b \subseteq doubt

\* A process that is down has passed nothing: a new task forgets nothing.
DownHasNoMark == \A w \in Workers : worker[w].pc = "down" => worker[w].mark = 0

\* Why a swap may be in the table at all, and why it may be there twice.
Explained(s) == s \in doubt \/ \E w \in Workers : s \in Passed(w)

Excused(s) ==
  s \in doubt \/ \E v, w \in Workers : v # w /\ s \in Passed(v) \cap Passed(w)

RowsExplained == \A s \in Swaps : rows[s] > 0 => Explained(s)

DoubtInv ==
  /\ BatchAbove
  /\ LateInDoubt
  /\ DownHasNoMark
  /\ RowsExplained
  /\ DoubledOnlyInDoubt

\* What is passed or in doubt stays so.
PassedStays ==
  /\ doubt \subseteq doubt'
  /\ \A w \in Workers, s \in Swaps : s \in Passed(w) => s \in Passed(w)' \/ s \in doubt'

LEMMA ReasonsStay ==
  ASSUME PassedStays, NEW s \in Swaps
  PROVE  (Explained(s) => Explained(s)') /\ (Excused(s) => Excused(s)')
BY DEF PassedStays, Explained, Excused

\* A step that writes nothing.
LEMMA NothingDoubled ==
  ASSUME RowsExplained, DoubledOnlyInDoubt, PassedStays, rows' = rows
  PROVE  RowsExplained' /\ DoubledOnlyInDoubt'
<1>1. RowsExplained'
  BY ReasonsStay DEF RowsExplained
<1>2. DoubledOnlyInDoubt'
  BY ReasonsStay DEF DoubledOnlyInDoubt, Excused
<1>. QED  BY <1>1, <1>2

\* A write of swaps that are excused, or that were not there.
LEMMA WriteDoubles ==
  ASSUME IInv, RowsExplained, DoubledOnlyInDoubt, PassedStays,
         NEW swaps \in SUBSET Swaps, Applied(swaps),
         \A s \in swaps : Explained(s)' /\ (rows[s] > 0 => Excused(s)')
  PROVE  RowsExplained' /\ DoubledOnlyInDoubt'
<1>1. ASSUME NEW s \in Swaps, rows'[s] > 0 PROVE Explained(s)'
  <2>1. CASE s \in swaps
    BY <2>1
  <2>2. CASE s \notin swaps
    BY <1>1, <2>2, AppliedRows, ReasonsStay DEF RowsExplained
  <2>. QED  BY <2>1, <2>2
<1>2. ASSUME NEW s \in Swaps, rows'[s] > 1 PROVE Excused(s)'
  <2>1. CASE s \in swaps
    BY <1>2, <2>1, AppliedRows
  <2>2. CASE s \notin swaps
    BY <1>2, <2>2, AppliedRows, ReasonsStay DEF DoubledOnlyInDoubt, Excused
  <2>. QED  BY <2>1, <2>2
<1>. QED  BY <1>1, <1>2 DEF RowsExplained, DoubledOnlyInDoubt, Excused


\* A step of a task to a state with no batch, that writes nothing.
LEMMA TaskDoubtGoes ==
  ASSUME IInv, DoubtInv, NEW w \in Workers, NEW state \in TaskStates, Goes(w, state),
         state.mark >= worker[w].mark,
         state.pc = "down" => state.mark = 0,
         state.pc = "write" => \A s \in state.batch : ts[s] > state.mark,
         doubt \subseteq doubt'
  PROVE  BatchAbove' /\ LateInDoubt' /\ DownHasNoMark' /\ PassedStays
<1>1. /\ worker' = [worker EXCEPT ![w] = state] /\ worker \in [Workers -> TaskStates]
      /\ UNCHANGED <<height, ts, late, stops>>
      /\ ts \in [Swaps -> Nat]
  BY DEF Goes, IInv, TypeOK
<1>2. worker'[w] = state /\ \A v \in Workers \ {w} : worker'[v] = worker[v]
  BY <1>1
<1>3. BatchAbove' /\ DownHasNoMark'
  BY <1>1, <1>2 DEF DoubtInv, BatchAbove, DownHasNoMark
<1>4. LateInDoubt'
  BY <1>1 DEF DoubtInv, LateInDoubt
<1>5. ASSUME NEW v \in Workers, NEW s \in Swaps, s \in Passed(v) PROVE s \in Passed(v)'
  <2>1. ts[s] \in Nat /\ worker[v].mark \in Nat /\ worker[w].mark \in Nat /\ state.mark \in Nat
    BY <1>1, TaskType DEF TaskStates
  <2>2. ts[s] <= worker[v].mark /\ s \in Indexed
    BY <1>5 DEF Passed
  <2>3. worker[v].mark <= worker'[v].mark /\ worker'[v].mark \in Nat
    BY <1>2, <2>1
  <2>4. ts'[s] <= worker'[v].mark /\ s \in Indexed'
    BY <1>1, <2>1, <2>2, <2>3 DEF Indexed
  <2>. QED  BY <2>4 DEF Passed
<1>. QED  BY <1>3, <1>4, <1>5 DEF PassedStays

LEMMA WaitsDoubt ==
  ASSUME IInv, DoubtInv, NEW w \in Workers, NEW at \in PCs \ {"write", "down"}, Waits(w, at),
         doubt \subseteq doubt'
  PROVE  BatchAbove' /\ LateInDoubt' /\ DownHasNoMark' /\ PassedStays
<1> DEFINE state == Task(at, worker[w].mark, {}, {})
<1>1. state \in TaskStates /\ state.mark = worker[w].mark /\ state.pc = at
  BY TaskType
<1>2. state.mark >= worker[w].mark
  BY <1>1, TaskType
<1> HIDE DEF state
<1>3. Goes(w, state)
  BY DEF state, Waits
<1>. QED  BY <1>1, <1>2, <1>3, TaskDoubtGoes

LEMMA NextPairDoubt ==
  ASSUME IInv, DoubtInv, NEW w \in Workers, NEW left \in SUBSET Pairs, NextPair(w, left),
         doubt' = doubt
  PROVE  BatchAbove' /\ LateInDoubt' /\ DownHasNoMark' /\ PassedStays
<1>1. CASE Waits(w, "poll")
  BY <1>1, WaitsDoubt DEF PCs
<1>2. ASSUME NEW p \in left, Goes(w, Task("days", worker[w].mark, left \ {p}, {}))
      PROVE  BatchAbove' /\ LateInDoubt' /\ DownHasNoMark' /\ PassedStays
  <2> DEFINE state == Task("days", worker[w].mark, left \ {p}, {})
  <2>1. state \in TaskStates /\ state.mark = worker[w].mark /\ state.pc = "days"
    BY TaskType DEF TaskStates, PCs, Task
  <2>2. state.mark >= worker[w].mark
    BY <2>1, TaskType
  <2> HIDE DEF state
  <2>3. Goes(w, state)
    BY <1>2 DEF state
  <2>. QED  BY <2>1, <2>2, <2>3, TaskDoubtGoes
<1>. QED  BY <1>1, <1>2 DEF NextPair

LEMMA PolledDoubt ==
  ASSUME IInv, DoubtInv, NEW w \in Workers, Polled(w)
  PROVE  DoubtInv'
<1>1. rows' = rows /\ doubt' = doubt
  BY DEF Polled
<1>2. PICK window \in SUBSET Indexed :
        \/ Goes(w, Task("write", worker[w].mark, {}, Above(w, window)))
        \/ Waits(w, "asleep")
  BY DEF Polled
<1>3. CASE Waits(w, "asleep")
  <2>1. BatchAbove' /\ LateInDoubt' /\ DownHasNoMark' /\ PassedStays
    BY <1>1, <1>3, WaitsDoubt DEF PCs
  <2>. QED  BY <1>1, <2>1, NothingDoubled DEF DoubtInv
<1>4. CASE Goes(w, Task("write", worker[w].mark, {}, Above(w, window)))
  <2> DEFINE state == Task("write", worker[w].mark, {}, Above(w, window))
  <2>1. /\ state \in TaskStates /\ state.mark = worker[w].mark /\ state.pc = "write"
        /\ state.batch = Above(w, window)
    BY <1>2, TaskType DEF TaskStates, PCs, Task, Above, Indexed
  <2>2. state.mark >= worker[w].mark
    BY <2>1, TaskType
  <2>3. \A s \in state.batch : ts[s] > state.mark
    BY <2>1 DEF Above
  <2> HIDE DEF state
  <2>4. Goes(w, state)
    BY <1>4 DEF state
  <2>5. BatchAbove' /\ LateInDoubt' /\ DownHasNoMark' /\ PassedStays
    BY <1>1, <2>1, <2>2, <2>3, <2>4, TaskDoubtGoes
  <2>. QED  BY <1>1, <2>5, NothingDoubled DEF DoubtInv
<1>. QED  BY <1>2, <1>3, <1>4

\* The rows that a write without an error adds are above the mark.  What was there
\* of them is in doubt or behind the mark of another process, and they are all
\* behind this one's when the write has returned.
LEMMA WrittenDoubt ==
  ASSUME IInv, DoubtInv, NEW w \in Workers, Written(w)
  PROVE  DoubtInv'
<1> DEFINE batch == worker[w].batch
<1>1. /\ worker[w].pc = "write" /\ batch \subseteq Indexed /\ Indexed \subseteq Swaps
      /\ \A s \in batch : ts[s] > worker[w].mark
      /\ doubt' = doubt /\ Applied(batch \cap Usable) /\ batch \in SUBSET Swaps
      /\ ts \in [Swaps -> Nat]
  BY TaskType DEF Written, IInv, TypeOK, BatchCovers, Indexed, DoubtInv, BatchAbove
<1>2. PICK b \in Latest(batch) : Goes(w, Task("asleep", ts[b], {}, {}))
  BY DEF Written
<1> DEFINE state == Task("asleep", ts[b], {}, {})
<1>3. b \in batch /\ b \in Swaps /\ \A s \in batch : ts[s] <= ts[b]
  BY <1>1, <1>2 DEF Latest
<1>4. state \in TaskStates /\ state.mark = ts[b] /\ state.pc = "asleep" /\ ts[b] \in Nat
  BY <1>1, <1>3 DEF TaskStates, PCs, Task
<1>5. state.mark >= worker[w].mark
  BY <1>1, <1>3, <1>4, TaskType
<1> HIDE DEF state
<1>6. Goes(w, state)
  BY <1>2 DEF state
<1>7. BatchAbove' /\ LateInDoubt' /\ DownHasNoMark' /\ PassedStays
  BY <1>1, <1>4, <1>5, <1>6, TaskDoubtGoes
<1>8. \A s \in batch : s \in Passed(w)'
  <2>1. worker'[w].mark = ts[b] /\ ts' = ts
    BY <1>4, <1>6 DEF Goes, IInv, TypeOK
  <2>. QED  BY <1>1, <1>3, <2>1 DEF Passed, Indexed
<1>9. ASSUME NEW s \in batch \cap Usable
      PROVE  Explained(s)' /\ (rows[s] > 0 => Excused(s)')
  <2>1. Explained(s)'
    BY <1>8 DEF Explained
  <2>2. ASSUME rows[s] > 0 PROVE Excused(s)'
    <3>1. Explained(s)
      BY <1>1, <2>2 DEF DoubtInv, RowsExplained
    <3>2. CASE s \in doubt
      BY <1>1, <3>2 DEF Excused
    <3>3. ASSUME NEW v \in Workers, s \in Passed(v) PROVE Excused(s)'
      <4>1. v # w
        <5>1. s \notin Passed(w)
          BY <1>1, TaskType DEF Passed
        <5>. QED  BY <3>3, <5>1
      <4>2. s \in Passed(v)' \/ s \in doubt'
        BY <1>1, <1>7, <3>3 DEF PassedStays
      <4>. QED  BY <1>8, <4>1, <4>2 DEF Excused
    <3>. QED  BY <3>1, <3>2, <3>3 DEF Explained
  <2>. QED  BY <2>1, <2>2
<1>10. RowsExplained' /\ DoubledOnlyInDoubt'
  <2>1. batch \cap Usable \in SUBSET Swaps
    BY <1>1
  <2>2. RowsExplained /\ DoubledOnlyInDoubt
    BY DEF DoubtInv
  <2>. QED  BY <1>1, <1>7, <1>9, <2>1, <2>2, WriteDoubles
<1>. QED  BY <1>7, <1>10 DEF DoubtInv

\* Whatever a write that may have failed, or that nobody waits for, adds is in
\* doubt.
LEMMA DoubtfulWrite ==
  ASSUME IInv, RowsExplained, DoubledOnlyInDoubt, PassedStays,
         NEW swaps \in SUBSET Swaps, swaps \subseteq doubt',
         Applied(swaps) \/ NotApplied
  PROVE  RowsExplained' /\ DoubledOnlyInDoubt'
<1>1. CASE NotApplied
  BY <1>1, NothingDoubled DEF NotApplied
<1>2. CASE Applied(swaps)
  <2>1. \A s \in swaps : Explained(s)' /\ Excused(s)'
    BY DEF Explained, Excused
  <2>. QED  BY <1>2, <2>1, WriteDoubles
<1>. QED  BY <1>1, <1>2

LEMMA TaskStepDoubt ==
  ASSUME IInv, DoubtInv, NEW w \in Workers, TaskStep(w)
  PROVE  DoubtInv'
<1>1. RowsExplained /\ DoubledOnlyInDoubt
  BY DEF DoubtInv
<1>2. CASE PairsFetched(w)
  <2>1. rows' = rows /\ doubt' = doubt /\ (NextPair(w, Pairs) \/ NextPair(w, {}))
    BY <1>2 DEF PairsFetched
  <2>2. BatchAbove' /\ LateInDoubt' /\ DownHasNoMark' /\ PassedStays
    BY <2>1, NextPairDoubt
  <2>. QED  BY <1>1, <2>1, <2>2, NothingDoubled DEF DoubtInv
<1>3. CASE DaysFetched(w)
  <2>1. rows' = rows /\ doubt' = doubt
    BY <1>3 DEF DaysFetched
  <2>2. BatchAbove' /\ LateInDoubt' /\ DownHasNoMark' /\ PassedStays
    <3>1. CASE NextPair(w, worker[w].left)
      BY <2>1, <3>1, TaskType, NextPairDoubt
    <3>2. CASE Goes(w, Task("writeDays", worker[w].mark, worker[w].left, {}))
      <4> DEFINE state == Task("writeDays", worker[w].mark, worker[w].left, {})
      <4>1. state \in TaskStates /\ state.mark = worker[w].mark /\ state.pc = "writeDays"
        BY TaskType DEF TaskStates, PCs, Task
      <4>2. state.mark >= worker[w].mark
        BY <4>1, TaskType
      <4> HIDE DEF state
      <4>3. Goes(w, state)
        BY <3>2 DEF state
      <4>. QED  BY <2>1, <4>1, <4>2, <4>3, TaskDoubtGoes
    <3>. QED  BY <1>3, <3>1, <3>2 DEF DaysFetched
  <2>. QED  BY <1>1, <2>1, <2>2, NothingDoubled DEF DoubtInv
<1>4. CASE DaysWritten(w)
  <2>1. doubt' = doubt /\ NextPair(w, worker[w].left) /\ (Applied({}) \/ NotApplied)
    BY <1>4 DEF DaysWritten
  <2>2. BatchAbove' /\ LateInDoubt' /\ DownHasNoMark' /\ PassedStays
    BY <2>1, TaskType, NextPairDoubt
  <2>. QED  BY <1>1, <2>1, <2>2, DoubtfulWrite DEF DoubtInv
<1>5. CASE Polled(w)
  BY <1>5, PolledDoubt
<1>6. CASE PollFailed(w) \/ Wake(w)
  <2>1. rows' = rows /\ doubt' = doubt /\ \E at \in {"poll", "asleep"} : Waits(w, at)
    BY <1>6 DEF PollFailed, Wake
  <2>2. BatchAbove' /\ LateInDoubt' /\ DownHasNoMark' /\ PassedStays
    BY <2>1, WaitsDoubt DEF PCs
  <2>. QED  BY <1>1, <2>1, <2>2, NothingDoubled DEF DoubtInv
<1>7. CASE Written(w)
  BY <1>7, WrittenDoubt
<1>8. CASE WriteFailed(w)
  <2> DEFINE swaps == worker[w].batch \cap Usable
  <2>1. /\ doubt' = doubt \cup worker[w].batch /\ Waits(w, "asleep")
        /\ Applied(swaps) \/ NotApplied
    BY <1>8 DEF WriteFailed
  <2>2. BatchAbove' /\ LateInDoubt' /\ DownHasNoMark' /\ PassedStays
    BY <2>1, WaitsDoubt DEF PCs
  <2>3. swaps \in SUBSET Swaps /\ swaps \subseteq doubt'
    BY <2>1, TaskType
  <2> HIDE DEF swaps
  <2>. QED  BY <1>1, <2>1, <2>2, <2>3, DoubtfulWrite DEF DoubtInv
<1>. QED  BY <1>2, <1>3, <1>4, <1>5, <1>6, <1>7, <1>8 DEF TaskStep

LEMMA BlockDoubt ==
  ASSUME IInv, DoubtInv, NEW new \in SUBSET Swaps, Block(new)
  PROVE  DoubtInv'
<1>1. /\ \A s \in Indexed : s \in Indexed' /\ ts'[s] = ts[s]
      /\ UNCHANGED <<rows, late, worker, doubt>>
  BY DEF Block, IInv, TypeOK, Indexed
<1>2. BatchAbove'
  BY <1>1 DEF IInv, BatchCovers, DoubtInv, BatchAbove
<1>3. PassedStays
  BY <1>1 DEF PassedStays, Passed
<1>4. LateInDoubt' /\ DownHasNoMark'
  BY <1>1 DEF DoubtInv, LateInDoubt, DownHasNoMark
<1>. QED  BY <1>1, <1>2, <1>3, <1>4, NothingDoubled DEF DoubtInv

\* A process that starts had passed nothing, and one that ends leaves what it had
\* passed or was writing in doubt.
LEMMA ProcessDoubt ==
  ASSUME IInv, DoubtInv, NEW w \in Workers, Startup(w) \/ Shutdown(w)
  PROVE  DoubtInv'
<1>1. /\ UNCHANGED <<ts, rows>>
      /\ \E at \in {"pairs", "off", "down"} : worker' = [worker EXCEPT ![w] = NewTask(at)]
      /\ worker \in [Workers -> TaskStates] /\ ts \in [Swaps -> Nat]
  BY DEF Startup, Shutdown, IInv, TypeOK
<1>2. /\ worker'[w].mark = 0 /\ worker'[w].pc # "write"
      /\ \A v \in Workers \ {w} : worker'[v] = worker[v]
  BY <1>1 DEF NewTask, Task
<1>3. BatchAbove' /\ DownHasNoMark'
  BY <1>1, <1>2 DEF DoubtInv, BatchAbove, DownHasNoMark
<1>4. doubt \subseteq doubt' /\ \A s \in Swaps : s \in Passed(w) => s \in doubt'
  <2>1. CASE Startup(w)
    <3>1. worker[w].mark = 0 /\ doubt' = doubt
      BY <2>1 DEF Startup, DoubtInv, DownHasNoMark
    <3>2. \A s \in Swaps : s \notin Passed(w)
      BY <1>1, <3>1 DEF Passed, Indexed
    <3>. QED  BY <3>1, <3>2
  <2>2. CASE Shutdown(w)
    BY <2>2 DEF Shutdown
  <2>. QED  BY <2>1, <2>2
<1>5. PassedStays
  <2>1. \A v \in Workers \ {w} : Passed(v)' = Passed(v)
    BY <1>1, <1>2 DEF Passed, Indexed
  <2>. QED  BY <1>4, <2>1 DEF PassedStays
<1>6. LateInDoubt'
  <2>1. \A b \in late' : b \in late \/ b \subseteq doubt'
    BY DEF Startup, Shutdown
  <2>. QED  BY <1>4, <2>1 DEF DoubtInv, LateInDoubt
<1>. QED  BY <1>1, <1>3, <1>5, <1>6, NothingDoubled DEF DoubtInv

LEMMA LateWriteDoubt ==
  ASSUME IInv, DoubtInv, NEW b \in late, LateWrite(b)
  PROVE  DoubtInv'
<1>1. /\ late' \subseteq late /\ UNCHANGED <<ts, worker, doubt>>
      /\ Applied(b) /\ b \subseteq doubt /\ b \in SUBSET Swaps
  BY DEF LateWrite, DoubtInv, LateInDoubt, IInv, TypeOK
<1>2. BatchAbove' /\ LateInDoubt' /\ DownHasNoMark'
  BY <1>1 DEF DoubtInv, BatchAbove, LateInDoubt, DownHasNoMark
<1>3. PassedStays
  BY <1>1 DEF PassedStays, Passed, Indexed
<1>. QED  BY <1>1, <1>2, <1>3, DoubtfulWrite DEF DoubtInv

LEMMA NextDoubt ==
  ASSUME IInv, DoubtInv, [Next]_vars
  PROVE  DoubtInv'
<1>1. ASSUME NEW new \in SUBSET Swaps, Block(new) PROVE DoubtInv'
  BY <1>1, BlockDoubt
<1>2. ASSUME NEW w \in Workers, Startup(w) \/ Shutdown(w) \/ TaskStep(w) PROVE DoubtInv'
  BY <1>2, ProcessDoubt, TaskStepDoubt
<1>3. ASSUME NEW b \in late, LateWrite(b) PROVE DoubtInv'
  BY <1>3, LateWriteDoubt
<1>4. CASE UNCHANGED vars
  <2>1. UNCHANGED <<ts, rows, late, worker, doubt>>
    BY <1>4 DEF vars
  <2>2. PassedStays /\ BatchAbove' /\ LateInDoubt' /\ DownHasNoMark'
    BY <2>1 DEF PassedStays, Passed, Indexed, DoubtInv, BatchAbove, LateInDoubt, DownHasNoMark
  <2>. QED  BY <2>1, <2>2, NothingDoubled DEF DoubtInv
<1>. QED  BY <1>1, <1>2, <1>3, <1>4 DEF Next

\* Whether the table was made with deduplication or by a first write without it,
\* a swap is there twice only if a task that had handled it ended, a write of it
\* raised, or two processes have both passed it: a task that goes on, whatever it
\* polls again and in whatever order, never writes twice what it wrote once.
THEOREM TwiceOnlyInDoubt == Spec => []DoubledOnlyInDoubt
<1>1. Init => DoubtInv
  BY DEF Init, DoubtInv, BatchAbove, LateInDoubt, DownHasNoMark, RowsExplained,
         DoubledOnlyInDoubt, NewTask, Task
<1>2. IInv /\ DoubtInv /\ [Next]_vars => DoubtInv'
  BY NextDoubt
<1>3. DoubtInv => DoubledOnlyInDoubt
  BY DEF DoubtInv
<1>. QED  BY <1>1, <1>2, <1>3, Invariance, PTL DEF Spec

-----------------------------------------------------------------------------
(* The reads of what the ingest stores and of the pairs it goes through: the   *)
(* theorems of MarketReads.                                                     *)

\* The rank of a number in a set: how many there are up to itself.
Rank(S, i) == Cardinality({j \in S : j <= i})

LEMMA RankType ==
  ASSUME NEW S, IsFiniteSet(S), S \subseteq Nat, NEW i \in S
  PROVE  Rank(S, i) \in 1..Cardinality(S)
<1>. DEFINE upTo == {j \in S : j <= i}
<1>1. upTo \in SUBSET S /\ i \in upTo
  OBVIOUS
<1>2. IsFiniteSet(upTo) /\ Cardinality(upTo) <= Cardinality(S)
  BY <1>1, FS_Subset
<1>3. Cardinality(upTo) \in Nat /\ Cardinality(upTo) # 0
  BY <1>1, <1>2, FS_CardinalityType, FS_EmptySet
<1>. QED  BY <1>2, <1>3, FS_CardinalityType DEF Rank

LEMMA RankGrows ==
  ASSUME NEW S, IsFiniteSet(S), S \subseteq Nat, NEW i \in S, NEW j \in S, i < j
  PROVE  Rank(S, i) < Rank(S, j)
<1>. DEFINE below == {k \in S : k <= i}
            upTo == {k \in S : k <= j}
<1>1. \A k \in below : k \in upTo
  OBVIOUS
<1>2. j \in upTo /\ j \notin below
  OBVIOUS
<1>3. upTo \in SUBSET S
  OBVIOUS
<1>. HIDE DEF below, upTo
<1>4. IsFiniteSet(upTo) /\ below \in SUBSET upTo
  BY <1>1, <1>3, FS_Subset
<1>5. IsFiniteSet(below)
  BY <1>4, FS_Subset
<1>6. Cardinality(below) <= Cardinality(upTo) /\ Cardinality(below) # Cardinality(upTo)
  BY <1>2, <1>4, FS_Subset
<1>7. Cardinality(below) \in Nat /\ Cardinality(upTo) \in Nat
  BY <1>4, <1>5, FS_CardinalityType
<1>8. Cardinality(below) < Cardinality(upTo)
  BY <1>6, <1>7
<1>. QED  BY <1>8 DEF Rank, below, upTo

\* Every rank up to the size of the set is that of an element.
LEMMA RankIsOnto ==
  ASSUME NEW S, IsFiniteSet(S), S \subseteq Nat, NEW k \in 1..Cardinality(S)
  PROVE  \E i \in S : Rank(S, i) = k
<1>. DEFINE n == Cardinality(S)
            rank == [i \in S |-> Rank(S, i)]
<1>1. n \in Nat
  BY FS_CardinalityType
<1>2. \A i \in S : Rank(S, i) \in 1..n
  BY RankType
<1>. HIDE DEF n
<1>3. rank \in Injection(S, 1..n)
  <2>1. rank \in [S -> 1..n]
    BY <1>2
  <2>2. ASSUME NEW i \in S, NEW j \in S, rank[i] = rank[j]
        PROVE  i = j
    <3>1. Rank(S, i) = Rank(S, j) /\ Rank(S, i) \in Nat
      BY <1>1, <1>2, <2>2
    <3>2. CASE i < j
      <4>1. Rank(S, i) < Rank(S, j)
        BY <3>2, RankGrows
      <4>. QED  BY <3>1, <4>1
    <3>3. CASE j < i
      <4>1. Rank(S, j) < Rank(S, i)
        BY <3>3, RankGrows
      <4>. QED  BY <3>1, <4>1
    <3>. QED  BY <3>2, <3>3
  <2>. QED  BY <2>1, <2>2 DEF Injection, IsInjective
<1>4. IsFiniteSet(1..n) /\ Cardinality(1..n) = n
  BY <1>1, FS_Interval
<1>5. Cardinality(S) = Cardinality(1..n)
  BY <1>4 DEF n
<1>6. rank \in Surjection(S, 1..n)
  BY <1>3, <1>4, <1>5, FS_Injection
<1>7. k \in 1..n
  BY DEF n
<1>. QED  BY <1>6, <1>7 DEF Surjection

\* What is asked for at once is at least one id, and there are finitely many.
LEMMA LimitType ==
  ASSUME ReadTypeOK
  PROVE  /\ limit \in Nat \ {0}
         /\ ids \subseteq Nat \ {0}
         /\ IsFiniteSet(ids)
<1>1. limit \in Nat \ {0} /\ ids \subseteq 1..MaxId /\ MaxId \in Nat
  BY ReadsAssumption DEF ReadTypeOK
<1>2. ids \subseteq Nat \ {0}
  BY <1>1
<1>3. IsFiniteSet(1..MaxId)
  BY <1>1, FS_Interval
<1>4. IsFiniteSet(ids)
  BY <1>1, <1>3, FS_Subset
<1>. QED  BY <1>1, <1>2, <1>4

\* A batch of pairs holds ids above the last one in their order, without a gap,
\* and all there are when it is not full.
IsNextBatch(batch, last) ==
  /\ batch \in Seq(ids)
  /\ \A k \in 1..Len(batch) : batch[k] > last
  /\ \A k, m \in 1..Len(batch) : k < m => batch[k] < batch[m]
  /\ \A i \in ids :
       i > last /\ (Len(batch) < limit \/ i <= batch[Len(batch)])
         => \E k \in 1..Len(batch) : batch[k] = i

LEMMA BatchIsNext ==
  ASSUME ReadTypeOK, NEW last \in Nat
  PROVE  IsNextBatch(PairsAbove(last), last)
<1>. DEFINE batch == PairsAbove(last)
            above == {i \in ids : i > last}
            n == Cardinality(above)
            len == IF n < limit THEN n ELSE limit
<1>1. ids \subseteq Nat /\ limit \in Nat \ {0} /\ IsFiniteSet(ids)
  BY LimitType
<1>2. IsFiniteSet(above) /\ above \subseteq Nat
  BY <1>1, FS_Subset
<1>3. n \in Nat
  BY <1>2, FS_CardinalityType
<1>4. batch = [k \in 1..len |->
                 CHOOSE i \in above : Cardinality({j \in above : j <= i}) = k]
  BY DEF PairsAbove
<1>5. len \in Nat /\ len <= n /\ len <= limit
  BY <1>1, <1>3
<1>. HIDE DEF batch, above, n
<1>6. \A k \in 1..len : batch[k] \in above /\ Rank(above, batch[k]) = k
  <2>. SUFFICES ASSUME NEW k \in 1..len
                PROVE  batch[k] \in above /\ Rank(above, batch[k]) = k
    OBVIOUS
  <2>1. k \in 1..n
    BY <1>3, <1>5
  <2>2. \E i \in above : Rank(above, i) = k
    BY <1>2, <2>1, RankIsOnto DEF n
  <2>. QED  BY <1>4, <2>2 DEF Rank
<1>. HIDE DEF len
<1>7. batch \in [1..len -> above]
  BY <1>4, <1>6
<1>8. batch \in Seq(above) /\ Len(batch) = len
  BY <1>5, <1>7
<1>9. batch \in Seq(ids)
  <2>1. above \subseteq ids
    BY DEF above
  <2>. QED  BY <1>8, <2>1, SeqMonotonic
<1>10. \A k \in 1..len : batch[k] > last
  BY <1>7 DEF above
<1>11. \A k \in 1..len : batch[k] \in Nat
  BY <1>2, <1>7
<1>12. ASSUME NEW i \in above, NEW j \in above, Rank(above, i) < Rank(above, j)
       PROVE  i < j
  <2>1. i \in Nat /\ j \in Nat /\ Rank(above, i) \in 1..n /\ Rank(above, j) \in 1..n
    BY <1>2, RankType DEF n
  <2>2. ~(j < i)
    <3>1. j < i => Rank(above, j) < Rank(above, i)
      BY <1>2, RankGrows
    <3>. QED  BY <1>12, <1>3, <2>1, <3>1
  <2>. QED  BY <1>3, <1>12, <2>1, <2>2
<1>13. ASSUME NEW k \in 1..len, NEW m \in 1..len, k < m
       PROVE  batch[k] < batch[m]
  BY <1>6, <1>12, <1>13
<1>14. ASSUME NEW i \in ids, i > last, len < limit \/ i <= batch[len]
       PROVE  \E k \in 1..len : batch[k] = i
  <2>1. i \in above
    BY <1>14 DEF above
  <2>2. Rank(above, i) \in 1..n /\ i \in Nat
    BY <1>2, <2>1, RankType DEF n
  <2>3. Rank(above, i) \in 1..len
    <3>1. CASE len < limit
      <4>1. len = n
        BY <1>1, <1>3, <3>1 DEF len
      <4>. QED  BY <2>2, <4>1
    <3>2. CASE ~(len < limit) /\ i <= batch[len]
      <4>1. len \in 1..len
        BY <1>1, <1>5, <3>2
      <4>2. batch[len] \in above /\ Rank(above, batch[len]) = len /\ batch[len] \in Nat
        BY <1>6, <1>11, <4>1
      <4>3. ~(len < Rank(above, i))
        <5>1. len < Rank(above, i) => batch[len] < i
          BY <1>12, <2>1, <4>2
        <5>. QED  BY <2>2, <3>2, <4>2, <5>1
      <4>. QED  BY <1>3, <1>5, <2>2, <4>3
    <3>. QED  BY <1>14, <3>1, <3>2
  <2>4. PICK k \in 1..len : k = Rank(above, i)
    BY <2>3
  <2>5. batch[k] \in above /\ Rank(above, batch[k]) = k /\ batch[k] \in Nat
    BY <1>6, <1>11
  <2>6. batch[k] < i => k < k
    BY <1>2, <2>1, <2>4, <2>5, RankGrows
  <2>7. i < batch[k] => k < k
    BY <1>2, <2>1, <2>4, <2>5, RankGrows
  <2>. QED  BY <1>5, <2>2, <2>4, <2>5, <2>6, <2>7
<1>15. IsNextBatch(batch, last)
  BY <1>8, <1>9, <1>10, <1>13, <1>14 DEF IsNextBatch
<1>. QED  BY <1>15 DEF batch

LEMMA ReadsInitType == ReadInit => ReadTypeOK
<1>. SUFFICES ASSUME ReadInit PROVE ReadTypeOK
  OBVIOUS
<1>1. ids \in SUBSET (1..MaxId)
  <2>1. CASE kind = "spot" /\ ids \in {1..n : n \in 0..MaxId}
    <3>1. PICK n \in 0..MaxId : ids = 1..n
      BY <2>1
    <3>. QED  BY <3>1, ReadsAssumption
  <2>. QED  BY <2>1 DEF ReadInit
<1>2. limit \in Nat \ {0} /\ limit \in Limits \cup {Batch}
  BY ReadsAssumption DEF ReadInit
<1>3. page \in [at : Nat, until : Nat, last : Nat, found : 0..limit, misses : 0..Misses]
  BY <1>2, ReadsAssumption DEF ReadInit, PageAfter
<1>4. seen \in Seq(ids)
  BY DEF ReadInit
<1>5. trades \in SUBSET Rows
  BY DEF ReadInit
<1>6. step \in 0..(Len(Queries) + 1)
  BY DEF ReadInit, Queries
<1>7. /\ kind \in Kinds /\ pc = "reading" /\ due = ids /\ lost = {} /\ before = trades
      /\ asked \in Markets /\ paired = {}
      /\ answer \in [Sides -> SUBSET trades]
  BY DEF ReadInit
<1>. QED  BY <1>1, <1>2, <1>3, <1>4, <1>5, <1>6, <1>7 DEF ReadTypeOK

\* A page that goes on at the next id.
LEMMA FoundType ==
  ASSUME ReadTypeOK, Found
  PROVE  ReadTypeOK'
<1>1. page' \in [at : Nat, until : Nat, last : Nat, found : 0..limit, misses : 0..Misses]
  <2>1. /\ page \in [at : Nat, until : Nat, last : Nat, found : 0..limit, misses : 0..Misses]
        /\ page' = [page EXCEPT !.at = @ + 1, !.last = page.at, !.found = @ + 1, !.misses = 0]
        /\ page.found < limit
    BY DEF ReadTypeOK, Found, Scanning
  <2>2. limit \in Nat /\ Misses \in Nat
    BY LimitType, ReadsAssumption
  <2>3. page.at \in Nat /\ page.at + 1 \in Nat /\ page.found + 1 \in 0..limit /\ 0 \in 0..Misses
    BY <2>1, <2>2
  <2>. QED  BY <2>1, <2>2, <2>3
<1>2. seen' \in Seq(ids)
  BY DEF ReadTypeOK, Found
<1>. QED  BY <1>1, <1>2 DEF ReadTypeOK, Found, rowVars

LEMMA MissedType ==
  ASSUME ReadTypeOK, Missed
  PROVE  ReadTypeOK'
<1>1. page' \in [at : Nat, until : Nat, last : Nat, found : 0..limit, misses : 0..Misses]
  <2>1. /\ page \in [at : Nat, until : Nat, last : Nat, found : 0..limit, misses : 0..Misses]
        /\ page' = [page EXCEPT !.at = @ + 1, !.misses = @ + 1]
        /\ page.found < limit /\ page.misses < Misses
    BY DEF ReadTypeOK, Missed, Scanning
  <2>2. limit \in Nat /\ Misses \in Nat
    BY LimitType, ReadsAssumption
  <2>3. /\ page.at \in Nat /\ page.at + 1 \in Nat
        /\ page.found \in 0..limit /\ page.misses + 1 \in 0..Misses
    BY <2>1, <2>2
  <2>. QED  BY <2>1, <2>2, <2>3
<1>2. lost' \in SUBSET ids
  BY DEF ReadTypeOK, Missed
<1>. QED  BY <1>1, <1>2 DEF ReadTypeOK, Missed, rowVars

LEMMA EndPageType ==
  ASSUME ReadTypeOK, EndPage
  PROVE  ReadTypeOK'
<1>1. page' \in [at : Nat, until : Nat, last : Nat, found : 0..limit, misses : 0..Misses]
  BY LimitType, ReadsAssumption DEF ReadTypeOK, EndPage, PageAfter
<1>. QED  BY <1>1 DEF ReadTypeOK, EndPage, rowVars

\* What a batch does to the ids that were returned, in the terms of the batch.
LEMMA GetBatchEffect ==
  ASSUME ReadTypeOK, GetBatch
  PROVE  LET batch == PairsAbove(page.last) IN
         /\ page.last \in Nat /\ Len(batch) \in Nat /\ Len(seen) \in Nat
         /\ seen' \in Seq(ids)
         /\ Len(seen') = Len(seen) + Len(batch)
         /\ \A i \in 1..Len(seen) : seen'[i] = seen[i]
         /\ \A i \in 1..Len(batch) : seen'[Len(seen) + i] = batch[i]
         /\ \/ batch = <<>> /\ Len(batch) = 0 /\ page' = page
            \/ /\ Len(batch) \in 1..Len(batch)
               /\ batch[Len(batch)] \in ids
               /\ page'.last = batch[Len(batch)]
               /\ page' = [page EXCEPT !.last = batch[Len(batch)]]
<1>. DEFINE batch == PairsAbove(page.last)
<1>1. page.last \in Nat /\ seen \in Seq(ids)
  BY DEF ReadTypeOK
<1>2. batch \in Seq(ids)
  BY <1>1, BatchIsNext DEF IsNextBatch
<1>3. /\ seen' = seen \o batch
      /\ page' = IF batch = <<>> THEN page ELSE [page EXCEPT !.last = batch[Len(batch)]]
  BY DEF GetBatch
<1>. HIDE DEF batch
<1>4. batch # <<>> => /\ Len(batch) \in 1..Len(batch)
                      /\ batch[Len(batch)] \in ids
                      /\ page'.last = batch[Len(batch)]
  BY <1>2, <1>3 DEF ReadTypeOK
<1>5. /\ seen' \in Seq(ids)
      /\ Len(seen') = Len(seen) + Len(batch)
      /\ \A i \in 1..Len(seen) : seen'[i] = seen[i]
      /\ \A i \in 1..Len(batch) : seen'[Len(seen) + i] = batch[i]
      /\ Len(batch) \in Nat /\ Len(seen) \in Nat
  BY <1>1, <1>2, <1>3
<1>. QED  BY <1>1, <1>2, <1>3, <1>4, <1>5 DEF batch

LEMMA GetBatchType ==
  ASSUME ReadTypeOK, GetBatch
  PROVE  ReadTypeOK'
<1>1. seen' \in Seq(ids)
  BY GetBatchEffect
<1>2. page' \in [at : Nat, until : Nat, last : Nat, found : 0..limit, misses : 0..Misses]
  <2>1. page' = page \/ \E i \in ids : page' = [page EXCEPT !.last = i]
    BY GetBatchEffect
  <2>2. ids \subseteq Nat
    BY LimitType
  <2>. QED  BY <2>1, <2>2 DEF ReadTypeOK
<1>. QED  BY <1>1, <1>2 DEF ReadTypeOK, GetBatch, rowVars

LEMMA GrowType ==
  ASSUME ReadTypeOK, Grow
  PROVE  ReadTypeOK'
<1>1. ids \subseteq ids' /\ ids' \in SUBSET (1..MaxId)
  BY DEF ReadTypeOK, Grow
<1>2. seen' \in Seq(ids')
  BY <1>1, SeqMonotonic DEF ReadTypeOK, Grow
<1>. QED  BY <1>1, <1>2 DEF ReadTypeOK, Grow, rowVars

LEMMA QueryType ==
  ASSUME ReadTypeOK, Query
  PROVE  ReadTypeOK'
<1>1. answer' \in [Sides -> SUBSET trades]
  BY DEF ReadTypeOK, Query, Matches
<1>2. Len(Queries) = 6
  BY DEF Queries
<1>3. step' \in 0..(Len(Queries) + 1)
  BY <1>2 DEF ReadTypeOK, Query
<1>. QED  BY <1>1, <1>3 DEF ReadTypeOK, Query, idVars

LEMMA ReadsNextType ==
  ASSUME ReadTypeOK, [ReadNext]_readVars
  PROVE  ReadTypeOK'
<1>1. CASE Lookup
  <2>1. step' \in 0..(Len(Queries) + 1)
    BY <1>1 DEF Lookup, Queries
  <2>. QED  BY <1>1, <2>1 DEF ReadTypeOK, Lookup, idVars
<1>2. CASE Insert
  <2>1. trades' \in SUBSET Rows /\ trades \subseteq trades'
    BY <1>2 DEF ReadTypeOK, Insert
  <2>2. answer' \in [Sides -> SUBSET trades']
    BY <1>2, <2>1 DEF ReadTypeOK, Insert
  <2>. QED  BY <1>2, <2>1, <2>2 DEF ReadTypeOK, Insert, idVars
<1>3. CASE Fail
  BY <1>3 DEF ReadTypeOK, Fail
<1>4. CASE UNCHANGED readVars
  BY <1>4 DEF ReadTypeOK, readVars, idVars, rowVars
<1>. QED
  BY <1>1, <1>2, <1>3, <1>4, FoundType, MissedType, EndPageType, GetBatchType,
     GrowType, QueryType DEF ReadNext

\* Every variable of the reads keeps its type, whatever is added meanwhile: a
\* page counts no more finds and misses than end it, and answers hold only what
\* is stored.
THEOREM ReadsTypeCorrect == ReadSpec => []ReadTypeOK
<1>1. ReadInit => ReadTypeOK
  BY ReadsInitType
<1>2. ReadTypeOK /\ [ReadNext]_readVars => ReadTypeOK'
  BY ReadsNextType
<1>. QED  BY <1>1, <1>2, PTL DEF ReadSpec

\* The ids that were returned on all pages, and on the page of this scan.
Returned == {seen[i] : i \in DOMAIN seen}
OnPage == {i \in Returned : page.until < i + Window}

\* What a scan has passed: in order, and no id of the beginning is behind it
\* that was neither returned nor lost.
PassedInv ==
  /\ \A i, j \in DOMAIN seen : i < j => seen[i] < seen[j]
  /\ \A i \in DOMAIN seen : seen[i] <= page.last
  /\ kind = "history" => due = {}

\* A scan of spot markets.  Their ids have no gaps.  The misses that were counted
\* since the last find are the ids just passed, and the finds those returned out
\* of the window, so that a page that ends early has lost as many ids as it
\* takes, or has passed the last one there was.
SpotInv ==
  kind = "spot" =>
    /\ \E n \in Nat : ids = 1..n
    /\ \E n \in Nat : due = 1..n
    /\ page.last < page.at
    /\ \A i \in due : i < page.at => i \in Returned \cup lost
    /\ page.misses < page.at
    /\ \A i \in due : page.at <= i + page.misses /\ i < page.at => i \in lost
    /\ Window <= page.until
    /\ page.until < page.at + Window
    /\ page.at <= page.until + 1
    /\ page.found = Cardinality(OnPage)
    /\ pc # "reading" => \/ page.misses >= Misses
                         \/ page.found < limit /\ page.at > page.until

\* Batches of pairs.  Pairs that are added may have ids behind the last one.
PairsInv ==
  kind = "pairs" /\ pc # "failed" =>
    /\ \A i \in due : i <= page.last => i \in Returned
    /\ pc = "done" => due \subseteq Returned

ScanInv == PassedInv /\ SpotInv /\ PairsInv

LEMMA ReturnedType ==
  ASSUME ReadTypeOK
  PROVE  /\ seen \in Seq(ids) /\ DOMAIN seen = 1..Len(seen) /\ Len(seen) \in Nat
         /\ Returned \subseteq ids /\ Returned \subseteq Nat \ {0}
         /\ OnPage \subseteq ids /\ IsFiniteSet(OnPage)
         /\ lost \subseteq ids /\ IsFiniteSet(lost) /\ due \subseteq ids
         /\ page.at \in Nat /\ page.until \in Nat /\ page.last \in Nat
         /\ page.found \in Nat /\ page.misses \in Nat
         /\ Window \in Nat \ {0} /\ Misses \in Nat \ {0}
<1>1. /\ seen \in Seq(ids) /\ lost \subseteq ids /\ due \subseteq ids
      /\ page \in [at : Nat, until : Nat, last : Nat, found : 0..limit, misses : 0..Misses]
      /\ Window \in Nat \ {0} /\ Misses \in Nat \ {0}
  BY ReadsAssumption DEF ReadTypeOK
<1>2. DOMAIN seen = 1..Len(seen) /\ Len(seen) \in Nat
  BY <1>1
<1>3. Returned \subseteq ids
  BY <1>1, <1>2 DEF Returned
<1>4. OnPage \subseteq ids
  BY <1>3 DEF OnPage
<1>5. ids \subseteq Nat \ {0} /\ IsFiniteSet(ids) /\ limit \in Nat
  BY LimitType
<1>6. IsFiniteSet(OnPage) /\ IsFiniteSet(lost)
  BY <1>1, <1>4, <1>5, FS_Subset
<1>7. Returned \subseteq Nat \ {0}
  BY <1>3, <1>5
<1>8. /\ page.at \in Nat /\ page.until \in Nat /\ page.last \in Nat
      /\ page.found \in Nat /\ page.misses \in Nat
  BY <1>1, <1>5
<1>. QED  BY <1>1, <1>2, <1>3, <1>4, <1>6, <1>7, <1>8

LEMMA ScanInit == ASSUME ReadInit PROVE ScanInv
<1>1. seen = <<>> /\ DOMAIN seen = {} /\ Returned = {}
  BY DEF ReadInit, Returned
<1>2. OnPage = {} /\ Cardinality(OnPage) = 0
  BY <1>1, FS_EmptySet DEF OnPage
<1>3. /\ page.at = 1 /\ page.until = Window /\ page.last = 0
      /\ page.found = 0 /\ page.misses = 0
      /\ due = ids /\ pc = "reading"
      /\ Window \in Nat
  BY ReadsAssumption DEF ReadInit, PageAfter
<1>4. kind = "spot" => \E n \in Nat : ids = 1..n
  <2>1. kind = "spot" => ids \in {1..n : n \in 0..MaxId}
    BY DEF ReadInit
  <2>. QED  BY <2>1
<1>5. kind # "spot" => ids = {} \/ kind = "pairs"
  BY DEF ReadInit
<1>6. ids \subseteq Nat \ {0}
  BY LimitType, ReadsInitType
<1>7. PassedInv
  BY <1>1, <1>3, <1>5 DEF PassedInv
<1>8. SpotInv
  BY <1>1, <1>2, <1>3, <1>4, <1>6 DEF SpotInv
<1>9. PairsInv
  BY <1>3, <1>6 DEF PairsInv
<1>. QED  BY <1>7, <1>8, <1>9 DEF ScanInv

LEMMA ScanFound ==
  ASSUME ReadTypeOK, ScanInv, Found
  PROVE  ScanInv'
<1>0. /\ kind = "spot" /\ kind' = kind /\ ids' = ids /\ due' = due /\ lost' = lost
      /\ pc = "reading" /\ pc' = pc /\ limit' = limit
      /\ page.at \in ids
      /\ page'.at = page.at + 1 /\ page'.last = page.at /\ page'.misses = 0
      /\ page'.found = page.found + 1 /\ page'.until = page.until
      /\ page.at <= page.until
      /\ seen' = Append(seen, page.at)
  BY DEF Found, Scanning, ReadTypeOK
<1>1. /\ PassedInv
      /\ (\E n \in Nat : ids = 1..n) /\ (\E n \in Nat : due = 1..n)
      /\ page.last < page.at
      /\ \A i \in due : i < page.at => i \in Returned \cup lost
      /\ Window <= page.until
      /\ page.until < page.at + Window
      /\ page.found = Cardinality(OnPage)
  BY <1>0 DEF ScanInv, SpotInv
<1>2. /\ DOMAIN seen' = DOMAIN seen \cup {Len(seen) + 1}
      /\ \A i \in DOMAIN seen : seen'[i] = seen[i] /\ i < Len(seen) + 1
      /\ seen'[Len(seen) + 1] = page.at
      /\ DOMAIN seen \subseteq Nat /\ Len(seen) \in Nat
  BY <1>0, ReturnedType
<1>3. Returned' = Returned \cup {page.at}
  BY <1>2 DEF Returned
<1>4. page.at \notin Returned /\ \A i \in DOMAIN seen : seen[i] \in Nat /\ seen[i] < page.at
  <2>1. \A i \in DOMAIN seen : seen[i] \in Nat /\ seen[i] <= page.last
    BY <1>1, ReturnedType DEF PassedInv, Returned
  <2>2. page.at \in Nat /\ page.last \in Nat
    BY ReturnedType
  <2>. QED  BY <1>1, <2>1, <2>2 DEF Returned
<1>5. PassedInv'
  <2>1. \A i \in DOMAIN seen' : seen'[i] <= page.at
    BY <1>2, <1>4, ReturnedType
  <2>2. ASSUME NEW i \in DOMAIN seen', NEW j \in DOMAIN seen', i < j
        PROVE  seen'[i] < seen'[j]
    <3>1. i \in DOMAIN seen
      BY <1>2, <2>2
    <3>2. CASE j \in DOMAIN seen
      BY <1>1, <1>2, <2>2, <3>1, <3>2 DEF PassedInv
    <3>3. CASE j = Len(seen) + 1
      BY <1>2, <1>4, <3>1, <3>3
    <3>. QED  BY <1>2, <3>2, <3>3
  <2>. QED  BY <1>0, <2>1, <2>2 DEF PassedInv
<1>6. page'.found = Cardinality(OnPage')
  <2>1. OnPage' = OnPage \cup {page.at}
    <3>1. Window' = Window
      OBVIOUS
    <3>. QED  BY <1>0, <1>1, <1>3 DEF OnPage
  <2>2. page.at \notin OnPage /\ IsFiniteSet(OnPage)
    BY <1>4, ReturnedType DEF OnPage
  <2>3. Cardinality(OnPage \cup {page.at}) = Cardinality(OnPage) + 1
    BY <2>2, FS_AddElement
  <2>. QED  BY <1>0, <1>1, <2>1, <2>3
<1>7. /\ page'.last < page'.at
      /\ page'.misses < page'.at
      /\ Window <= page'.until
      /\ page'.until < page'.at + Window
      /\ page'.at <= page'.until + 1
  <2>1. /\ page.at \in Nat /\ page.until \in Nat /\ page.last \in Nat
        /\ page.misses \in Nat /\ Window \in Nat
    BY ReturnedType
  <2>. QED  BY <1>0, <1>1, <2>1
<1>8. \A i \in due : i < page'.at => i \in Returned' \cup lost
  <2>1. \A i \in due : i < page.at + 1 => i < page.at \/ i = page.at
    BY ReturnedType, LimitType
  <2>. QED  BY <1>0, <1>1, <1>3, <2>1
<1>9. \A i \in due : ~(page'.at <= i + page'.misses /\ i < page'.at)
  BY <1>0, ReturnedType, LimitType
<1>. QED
  BY <1>0, <1>1, <1>5, <1>6, <1>7, <1>8, <1>9 DEF ScanInv, SpotInv, PairsInv

LEMMA ScanMissed ==
  ASSUME ReadTypeOK, ScanInv, Missed
  PROVE  ScanInv'
<1>0. /\ kind = "spot" /\ kind' = kind /\ ids' = ids /\ due' = due /\ seen' = seen
      /\ pc = "reading" /\ pc' = pc /\ limit' = limit
      /\ lost' = lost \cup ({page.at} \cap ids)
      /\ page'.at = page.at + 1 /\ page'.last = page.last
      /\ page'.misses = page.misses + 1
      /\ page'.found = page.found /\ page'.until = page.until
      /\ page.at <= page.until
  BY DEF Missed, Scanning, ReadTypeOK
<1>1. Returned' = Returned /\ OnPage' = OnPage
  BY <1>0 DEF Returned, OnPage
<1>2. /\ (\E n \in Nat : ids = 1..n) /\ (\E n \in Nat : due = 1..n)
      /\ page.last < page.at
      /\ \A i \in due : i < page.at => i \in Returned \cup lost
      /\ page.misses < page.at
      /\ \A i \in due : page.at <= i + page.misses /\ i < page.at => i \in lost
      /\ Window <= page.until
      /\ page.until < page.at + Window
      /\ page.found = Cardinality(OnPage)
  BY <1>0 DEF ScanInv, SpotInv
<1>3. \A i \in due : i \in ids /\ i \in Nat
  BY ReturnedType, LimitType
<1>4. /\ page'.last < page'.at
      /\ page'.misses < page'.at
      /\ page'.until < page'.at + Window
      /\ page'.at <= page'.until + 1
  <2>1. /\ page.at \in Nat /\ page.until \in Nat /\ page.last \in Nat
        /\ page.misses \in Nat /\ Window \in Nat
    BY ReturnedType
  <2>2. /\ page.last < page.at /\ page.misses < page.at
        /\ page.until < page.at + Window /\ page.at <= page.until
    BY <1>0, <1>2
  <2>3. /\ page'.at = page.at + 1 /\ page'.last = page.last
        /\ page'.misses = page.misses + 1 /\ page'.until = page.until
    BY <1>0
  <2>. QED  BY <2>1, <2>2, <2>3
<1>5. \A i \in due : i < page'.at => i < page.at \/ i \in lost'
  BY <1>0, <1>3, ReturnedType
<1>6. \A i \in due : page'.at <= i + page'.misses /\ i < page'.at => i \in lost'
  <2>. SUFFICES ASSUME NEW i \in due, page'.at <= i + page'.misses, i < page'.at, i < page.at
                PROVE  i \in lost'
    BY <1>5
  <2>1. page.at <= i + page.misses
    BY <1>0, <1>3, ReturnedType
  <2>. QED  BY <1>0, <1>2, <2>1
<1>7. PassedInv'
  BY <1>0 DEF ScanInv, PassedInv
<1>. QED
  BY <1>0, <1>1, <1>2, <1>4, <1>5, <1>6, <1>7 DEF ScanInv, SpotInv, PairsInv

LEMMA ScanEndPage ==
  ASSUME ReadTypeOK, ScanInv, EndPage
  PROVE  ScanInv'
<1>0. /\ kind = "spot" /\ kind' = kind /\ ids' = ids /\ due' = due /\ seen' = seen
      /\ pc = "reading" /\ limit' = limit /\ lost' = lost
  BY DEF EndPage
<1>1. Returned' = Returned /\ PassedInv
  BY <1>0 DEF Returned, ScanInv
<1>2. SpotInv
  BY DEF ScanInv
<1>3. CASE page' = PageAfter(page.last) /\ pc' = pc
  <2>1. /\ page'.at = page.last + 1 /\ page'.until = page.last + Window
        /\ page'.last = page.last /\ page'.found = 0 /\ page'.misses = 0
    BY <1>3 DEF PageAfter
  <2>2. OnPage' = {}
    <3>1. \A i \in Returned : i \in Nat /\ i <= page.last
      BY <1>1, ReturnedType DEF PassedInv, Returned
    <3>2. page.last \in Nat /\ Window \in Nat
      BY ReturnedType
    <3>3. \A i \in Returned' : ~(page'.until < i + Window)
      BY <1>1, <2>1, <3>1, <3>2
    <3>. QED  BY <3>3 DEF OnPage
  <2>3. page'.found = Cardinality(OnPage')
    BY <2>1, <2>2, FS_EmptySet
  <2>4. \A i \in due : i < page'.at => i < page.at
    BY <1>0, <1>2, <2>1, ReturnedType, LimitType DEF SpotInv
  <2>5. \A i \in due : ~(page'.at <= i + page'.misses /\ i < page'.at)
    BY <2>1, ReturnedType, LimitType
  <2>6. /\ page'.last < page'.at /\ page'.misses < page'.at
        /\ Window <= page'.until /\ page'.until < page'.at + Window
        /\ page'.at <= page'.until + 1
    BY <2>1, ReturnedType
  <2>7. PassedInv'
    BY <1>0, <1>1, <2>1 DEF PassedInv
  <2>. QED
    BY <1>0, <1>1, <1>2, <1>3, <2>3, <2>4, <2>5, <2>6, <2>7 DEF ScanInv, SpotInv, PairsInv
<1>4. CASE /\ page' = page /\ pc' = "done"
           /\ ~(page.found >= limit /\ page.misses < Misses)
  <2>1. ~(page.found < limit /\ page.at <= page.until /\ page.misses < Misses)
    BY <1>0 DEF EndPage, Scanning
  <2>2. \/ page.misses >= Misses
        \/ page.found < limit /\ page.at > page.until
    BY <1>4, <2>1, ReturnedType, LimitType
  <2>3. OnPage' = OnPage /\ PassedInv'
    BY <1>0, <1>1, <1>4 DEF OnPage, PassedInv
  <2>. QED
    BY <1>0, <1>1, <1>2, <1>4, <2>2, <2>3 DEF ScanInv, SpotInv, PairsInv
<1>. QED  BY <1>3, <1>4 DEF EndPage

LEMMA ScanGetBatch ==
  ASSUME ReadTypeOK, ScanInv, GetBatch
  PROVE  ScanInv'
<1>. DEFINE batch == PairsAbove(page.last)
            m == Len(batch)
            n == Len(seen)
<1>0. /\ kind = "pairs" /\ kind' = kind /\ ids' = ids /\ due' = due
      /\ pc = "reading"
      /\ pc' = IF m < limit THEN "done" ELSE "reading"
  BY DEF GetBatch
<1>1. /\ page.last \in Nat /\ m \in Nat /\ n \in Nat
      /\ seen' \in Seq(ids)
      /\ Len(seen') = n + m
      /\ \A i \in 1..n : seen'[i] = seen[i]
      /\ \A i \in 1..m : seen'[n + i] = batch[i]
      /\ \/ m = 0 /\ page' = page
         \/ m \in 1..m /\ batch[m] \in ids /\ page'.last = batch[m]
  BY GetBatchEffect
<1>2. /\ batch \in Seq(ids)
      /\ \A k \in 1..m : batch[k] > page.last
      /\ \A k, l \in 1..m : k < l => batch[k] < batch[l]
      /\ \A i \in ids : i > page.last /\ (m < limit \/ i <= batch[m])
                          => \E k \in 1..m : batch[k] = i
  <2>1. IsNextBatch(batch, page.last)
    BY <1>1, BatchIsNext
  <2>. QED  BY <2>1 DEF IsNextBatch
<1>. HIDE DEF batch
<1>3. \A k \in 1..m : batch[k] \in ids
  BY <1>2
<1>. HIDE DEF m, n
<1>4. ids \subseteq Nat /\ due \subseteq ids /\ DOMAIN seen = 1..n
  BY ReturnedType, LimitType DEF n
<1>5. DOMAIN seen' = 1..(n + m)
  BY <1>1
<1>6. /\ \A i, j \in 1..n : i < j => seen[i] < seen[j]
      /\ \A i \in 1..n : seen[i] <= page.last
      /\ \A i \in due : i <= page.last => i \in Returned
  BY <1>0, <1>4 DEF ScanInv, PassedInv, PairsInv
<1>7. \A i \in 1..n : seen[i] \in Nat
  BY <1>4, ReturnedType DEF Returned
<1>8. \A i \in 1..(n + m) : i \in 1..n \/ \E k \in 1..m : i = n + k
  <2>1. \A i \in 1..(n + m) : i \notin 1..n => i - n \in 1..m /\ i = n + (i - n)
    BY <1>1
  <2>. QED  BY <2>1
<1>9. page.last <= page'.last /\ \A k \in 1..m : batch[k] <= page'.last
  <2>1. CASE m = 0 /\ page' = page
    BY <1>1, <2>1
  <2>2. CASE m \in 1..m /\ batch[m] \in ids /\ page'.last = batch[m]
    <3>1. \A k \in 1..m : k = m \/ k < m
      BY <1>1
    <3>2. \A k \in 1..m : batch[k] \in Nat
      BY <1>3, <1>4
    <3>3. \A k \in 1..m : k = m \/ batch[k] < batch[m]
      BY <1>2, <2>2, <3>1
    <3>4. page.last < batch[m]
      BY <1>2, <2>2
    <3>5. batch[m] \in Nat
      BY <2>2, <3>2
    <3>6. \A k \in 1..m : batch[k] <= batch[m]
      BY <3>2, <3>3, <3>5
    <3>7. page.last <= batch[m]
      BY <1>1, <3>4, <3>5
    <3>. QED  BY <2>2, <3>6, <3>7
  <2>. QED  BY <1>1, <2>1, <2>2
<1>10. page'.last \in Nat
  BY <1>1, <1>4
<1>11. ASSUME NEW i \in 1..(n + m), NEW j \in 1..(n + m), i < j
       PROVE  seen'[i] < seen'[j]
  <2>1. CASE i \in 1..n /\ j \in 1..n
    BY <1>1, <1>6, <1>11, <2>1
  <2>2. ASSUME NEW k \in 1..m, j = n + k, i \in 1..n
        PROVE  seen'[i] < seen'[j]
    <3>1. seen'[i] = seen[i] /\ seen'[j] = batch[k]
      BY <1>1, <2>2
    <3>2. seen[i] \in Nat /\ seen[i] <= page.last /\ batch[k] \in Nat /\ batch[k] > page.last
      BY <1>2, <1>3, <1>4, <1>6, <1>7, <2>2
    <3>. QED  BY <1>1, <3>1, <3>2
  <2>3. ASSUME NEW k \in 1..m, NEW l \in 1..m, i = n + k, j = n + l
        PROVE  seen'[i] < seen'[j]
    <3>1. k < l
      BY <1>1, <1>11, <2>3
    <3>2. seen'[i] = batch[k] /\ seen'[j] = batch[l]
      BY <1>1, <2>3
    <3>. QED  BY <1>2, <3>1, <3>2
  <2>4. ASSUME NEW k \in 1..m, i = n + k, j \in 1..n
        PROVE  FALSE
    BY <1>1, <1>11, <2>4
  <2>. QED  BY <1>8, <2>1, <2>2, <2>3, <2>4
<1>12. \A i \in 1..(n + m) : seen'[i] <= page'.last
  <2>1. \A i \in 1..n : seen'[i] <= page'.last
    BY <1>1, <1>6, <1>7, <1>9, <1>10
  <2>2. \A k \in 1..m : seen'[n + k] <= page'.last
    BY <1>1, <1>9
  <2>. QED  BY <1>8, <2>1, <2>2
<1>13. PassedInv'
  BY <1>0, <1>5, <1>11, <1>12 DEF PassedInv
<1>14. Returned \subseteq Returned' /\ \A k \in 1..m : batch[k] \in Returned'
  <2>1. \A i \in 1..n : i \in 1..(n + m) /\ seen[i] = seen'[i]
    BY <1>1
  <2>2. \A k \in 1..m : n + k \in 1..(n + m) /\ batch[k] = seen'[n + k]
    BY <1>1
  <2>. QED  BY <1>4, <1>5, <2>1, <2>2 DEF Returned
<1>15. \A i \in due : i > page.last /\ (m < limit \/ i <= batch[m]) => i \in Returned'
  BY <1>2, <1>4, <1>14
<1>16. \A i \in due : i <= page'.last => i \in Returned'
  <2>1. CASE m = 0 /\ page' = page
    BY <1>6, <1>14, <2>1
  <2>2. CASE page'.last = batch[m]
    BY <1>1, <1>4, <1>6, <1>14, <1>15, <2>2
  <2>. QED  BY <1>1, <2>1, <2>2
<1>17. m < limit => due \subseteq Returned'
  BY <1>1, <1>4, <1>6, <1>14, <1>15
<1>. QED  BY <1>0, <1>13, <1>16, <1>17 DEF ScanInv, SpotInv, PairsInv

LEMMA ScanNext ==
  ASSUME ReadTypeOK, ScanInv, [ReadNext]_readVars
  PROVE  ScanInv'
<1>1. CASE Grow
  <2>1. /\ UNCHANGED <<kind, pc, limit, page, seen, due, lost>>
        /\ kind \in {"spot", "pairs"}
    BY <1>1 DEF Grow
  <2>2. Returned' = Returned /\ OnPage' = OnPage
    BY <2>1 DEF Returned, OnPage
  <2>3. kind = "spot" => \E n \in Nat : ids' = 1..n
    <3>. SUFFICES ASSUME kind = "spot" PROVE \E n \in Nat : ids' = 1..n
      OBVIOUS
    <3>1. PICK n \in Nat : ids = 1..n
      BY DEF ScanInv, SpotInv
    <3>2. Cardinality(ids) = n
      BY <3>1, FS_Interval
    <3>3. ids' = ids \cup {n + 1}
      BY <1>1, <3>2 DEF Grow
    <3>4. ids' = 1..(n + 1)
      BY <3>1, <3>3
    <3>. QED  BY <3>4
  <2>4. PassedInv' /\ PairsInv'
    BY <2>1, <2>2 DEF ScanInv, PassedInv, PairsInv
  <2>5. SpotInv'
    BY <2>1, <2>2, <2>3 DEF ScanInv, SpotInv
  <2>. QED  BY <2>4, <2>5 DEF ScanInv
<1>2. CASE Lookup \/ Query \/ Insert
  <2>1. UNCHANGED <<ids, limit, page, seen, due, lost, kind>> /\ kind = "history"
    BY <1>2 DEF Lookup, Query, Insert, idVars
  <2>. QED  BY <2>1 DEF ScanInv, PassedInv, SpotInv, PairsInv
<1>3. CASE Fail
  <2>1. /\ seen' = <<>> /\ DOMAIN seen' = {} /\ kind' = kind /\ due' = due
        /\ kind # "spot" /\ pc' = "failed"
    BY <1>3 DEF Fail
  <2>. QED  BY <2>1 DEF ScanInv, PassedInv, SpotInv, PairsInv
<1>4. CASE UNCHANGED readVars
  <2>1. UNCHANGED <<kind, pc, ids, limit, page, seen, due, lost>>
    BY <1>4 DEF readVars, idVars
  <2>2. Returned' = Returned /\ OnPage' = OnPage
    BY <2>1 DEF Returned, OnPage
  <2>. QED  BY <2>1, <2>2 DEF ScanInv, PassedInv, SpotInv, PairsInv
<1>. QED
  BY <1>1, <1>2, <1>3, <1>4, ScanFound, ScanMissed, ScanEndPage, ScanGetBatch
     DEF ReadNext

\* A scan of spot markets that has ended returned what it was due, unless as
\* many calls failed as end a page.
LEMMA SpotComplete ==
  ASSUME ReadTypeOK, SpotInv, kind = "spot", pc = "done",
         FewLost, NEW i \in due, i \notin lost, i \notin Returned
  PROVE  FALSE
<1>1. /\ \A j \in due : j < page.at => j \in Returned \cup lost
      /\ \A j \in due : page.at <= j + page.misses /\ j < page.at => j \in lost
      /\ page.misses < page.at
      /\ Window <= page.until
      /\ page.at <= page.until + 1
      /\ page.found = Cardinality(OnPage)
      /\ \/ page.misses >= Misses
         \/ page.found < limit /\ page.at > page.until
  BY DEF SpotInv
<1>2. PICK n \in Nat : due = 1..n
  BY DEF SpotInv
<1>3. /\ page.at \in Nat /\ page.until \in Nat /\ page.found \in Nat /\ page.misses \in Nat
      /\ Window \in Nat \ {0} /\ Misses \in Nat \ {0} /\ limit \in Nat
      /\ IsFiniteSet(lost) /\ IsFiniteSet(OnPage)
  BY ReturnedType, LimitType
<1>4. Cardinality(lost) \in Nat /\ Cardinality(OnPage) \in Nat
  BY <1>3, FS_CardinalityType
<1>5. Cardinality(lost) < Misses /\ limit + Cardinality(lost) <= Window
  BY DEF FewLost
<1>6. page.at <= i /\ i <= n /\ i \in Nat
  BY <1>1, <1>2, <1>3
<1>7. CASE page.misses >= Misses
  <2>. DEFINE missed == (page.at - page.misses)..(page.at - 1)
  <2>1. missed \subseteq lost
    <3>. SUFFICES ASSUME NEW j \in missed PROVE j \in lost
      OBVIOUS
    <3>1. j \in due /\ page.at <= j + page.misses /\ j < page.at
      BY <1>1, <1>2, <1>3, <1>6
    <3>. QED  BY <1>1, <3>1
  <2>2. Cardinality(missed) = page.misses
    <3>1. /\ page.at - page.misses \in Int /\ page.at - 1 \in Int
          /\ page.misses = IF page.at - page.misses > page.at - 1 THEN 0
                           ELSE (page.at - 1) - (page.at - page.misses) + 1
      BY <1>3
    <3>. QED  BY <3>1, FS_Interval
  <2>3. Cardinality(missed) <= Cardinality(lost)
    BY <1>3, <2>1, FS_Subset
  <2>. QED  BY <1>3, <1>4, <1>5, <1>7, <2>2, <2>3
<1>8. CASE page.found < limit /\ page.at > page.until
  <2>. DEFINE window == (page.until - Window + 1)..page.until
  <2>1. window \subseteq OnPage \cup lost
    <3>. SUFFICES ASSUME NEW j \in window PROVE j \in OnPage \cup lost
      OBVIOUS
    <3>1. j \in due /\ j < page.at /\ page.until < j + Window
      BY <1>1, <1>2, <1>3, <1>6, <1>8
    <3>. QED  BY <1>1, <3>1 DEF OnPage
  <2>2. Cardinality(window) = Window
    <3>1. /\ page.until - Window + 1 \in Int /\ page.until \in Int
          /\ Window = IF page.until - Window + 1 > page.until THEN 0
                      ELSE page.until - (page.until - Window + 1) + 1
      BY <1>3
    <3>. QED  BY <3>1, FS_Interval
  <2>3. /\ IsFiniteSet(OnPage \cup lost)
        /\ Cardinality(OnPage \cup lost)
             = Cardinality(OnPage) + Cardinality(lost) - Cardinality(OnPage \cap lost)
    BY <1>3, FS_Union
  <2>4. Cardinality(OnPage \cap lost) \in Nat
    BY <1>3, FS_Intersection, FS_CardinalityType
  <2>5. Cardinality(window) <= Cardinality(OnPage \cup lost)
    BY <2>1, <2>3, FS_Subset
  <2>. QED  BY <1>1, <1>3, <1>4, <1>5, <1>8, <2>2, <2>3, <2>4, <2>5
<1>. QED  BY <1>1, <1>7, <1>8

\* Whoever pages through the spot markets, or fetches all pairs, gets no id
\* twice and all there were at the beginning but those whose own calls failed,
\* for every size of the pages, the window and the batches, and however many
\* markets and pairs are added meanwhile: list_spot_markets() goes on behind the
\* last id it found, get_all_pairs() behind the last one it got.
THEOREM ReadsAreComplete == ReadSpec => []ScanComplete
<1>1. ReadInit => ScanInv
  BY ScanInit
<1>2. ReadTypeOK /\ ScanInv /\ [ReadNext]_readVars => ScanInv'
  BY ScanNext
<1>3. ReadTypeOK /\ ScanInv => ScanComplete
  <2>. SUFFICES ASSUME ReadTypeOK, ScanInv PROVE ScanComplete
    OBVIOUS
  <2>1. \A i, j \in DOMAIN seen : i < j => seen[i] < seen[j]
    BY DEF ScanInv, PassedInv
  <2>2. ASSUME pc = "done", FewLost
        PROVE  due \ lost \subseteq Returned
    <3>1. CASE kind = "spot"
      BY <2>2, <3>1, SpotComplete DEF ScanInv
    <3>2. CASE kind = "pairs"
      BY <2>2, <3>2 DEF ScanInv, PairsInv
    <3>3. CASE kind = "history"
      BY <3>3 DEF ScanInv, PassedInv
    <3>. QED  BY <3>1, <3>2, <3>3 DEF ReadTypeOK, Kinds
  <2>. QED  BY <2>1, <2>2 DEF ScanComplete, Returned
<1>. QED  BY <1>1, <1>2, <1>3, ReadsTypeCorrect, PTL DEF ReadSpec

\* The query by its pair of each side of a market, and the rows it must show.
PairQuery(s) == IF s = "yes" THEN 1 ELSE 2

Stored(s) == {r \in before : r.market = asked /\ r.side = s /\ r.addressed}

Own(s) == {r \in trades : r.market = asked /\ r.side = s}

\* A side is empty until its pair was asked for.  From then on, what that query
\* found keeps the queries by symbols away from it.
HistoryInv ==
  kind = "history" /\ pc # "failed" =>
    /\ pc = "done" => step > 6
    /\ \A s \in Sides :
         /\ step <= PairQuery(s) => answer[s] = {}
         /\ \A r \in answer[s] : r.side = s
         /\ s \in paired /\ step > PairQuery(s) /\ Stored(s) # {}
              => Stored(s) \subseteq answer[s] /\ answer[s] \subseteq Own(s)

LEMMA QueryOrder ==
  ASSUME NEW k \in 1..Len(Queries)
  PROVE  /\ k \in 1..6
         /\ Queries[k].side \in Sides
         /\ Queries[k].by = "pair" => k = PairQuery(Queries[k].side)
         /\ Queries[k].by # "pair" => k > 2
         /\ k <= 2 => Queries[k].by = "pair"
<1>1. k = 1 \/ k = 2 \/ k = 3 \/ k = 4 \/ k = 5 \/ k = 6
  BY DEF Queries
<1>. QED  BY <1>1 DEF Queries, Sides, PairQuery

LEMMA HistoryQuery ==
  ASSUME ReadTypeOK, HistoryInv, Query
  PROVE  HistoryInv'
<1>. DEFINE q == Queries[step]
<1>1. /\ kind = "history" /\ pc = "reading" /\ step \in 1..Len(Queries)
      /\ kind' = kind /\ before' = before /\ asked' = asked /\ trades' = trades
      /\ paired' = paired
      /\ step' = step + 1
      /\ pc' = IF step = Len(Queries) THEN "done" ELSE "reading"
      /\ answer' = IF Needed(q)
                   THEN [answer EXCEPT ![q.side] = @ \cup Matches(q)] ELSE answer
  BY DEF Query
<1>2. /\ step \in 1..6 /\ q.side \in Sides
      /\ q.by = "pair" => step = PairQuery(q.side)
      /\ q.by # "pair" => step > 2
      /\ step <= 2 => q.by = "pair"
  BY <1>1, QueryOrder
<1>3. Len(Queries) = 6
  BY DEF Queries
<1>4. answer \in [Sides -> SUBSET trades] /\ before \subseteq trades
  BY DEF ReadTypeOK
<1>5. \A s \in Sides : Stored(s)' = Stored(s) /\ Own(s)' = Own(s)
  BY <1>1 DEF Stored, Own
<1>6. \A s \in Sides :
        /\ step <= PairQuery(s) => answer[s] = {}
        /\ \A r \in answer[s] : r.side = s
        /\ s \in paired /\ step > PairQuery(s) /\ Stored(s) # {}
             => Stored(s) \subseteq answer[s] /\ answer[s] \subseteq Own(s)
  BY <1>1 DEF HistoryInv
<1>. HIDE DEF q
<1>7. \A s \in Sides : s # q.side => answer'[s] = answer[s]
  BY <1>1, <1>4
<1>8. \A r \in Matches(q) : r.side = q.side
  BY DEF Matches
<1>9. q.by = "pair" =>
        Stored(q.side) \subseteq Matches(q) /\ Matches(q) \subseteq Own(q.side)
  BY <1>4 DEF Stored, Own, Matches, Symbols
<1>10. /\ answer'[q.side] = IF Needed(q) THEN answer[q.side] \cup Matches(q)
                            ELSE answer[q.side]
       /\ \A r \in answer'[q.side] : r.side = q.side
  BY <1>1, <1>2, <1>4, <1>6, <1>8
<1>11. \A s \in Sides : PairQuery(s) \in 1..2 /\ (s # q.side => step # PairQuery(s) \/ step > 2)
  <2>1. \A s \in Sides : PairQuery(s) \in 1..2
    BY DEF PairQuery
  <2>2. \A s, t \in Sides : PairQuery(s) = PairQuery(t) => s = t
    BY DEF PairQuery, Sides
  <2>. QED  BY <1>2, <2>1, <2>2
<1>12. ASSUME NEW s \in Sides
       PROVE  /\ step' <= PairQuery(s) => answer'[s] = {}
              /\ \A r \in answer'[s] : r.side = s
              /\ s \in paired' /\ step' > PairQuery(s) /\ Stored(s) # {}
                   => Stored(s) \subseteq answer'[s] /\ answer'[s] \subseteq Own(s)
  <2>1. CASE s # q.side
    BY <1>1, <1>2, <1>6, <1>7, <1>11, <2>1
  <2>2. CASE s = q.side /\ q.by = "pair"
    <3>1. step = PairQuery(s) /\ answer[s] = {}
      BY <1>2, <1>6, <2>2
    <3>2. s \in paired => answer'[s] = Matches(q)
      BY <1>10, <2>2, <3>1 DEF Needed
    <3>3. ~(step' <= PairQuery(s))
      BY <1>1, <1>2, <3>1
    <3>. QED  BY <1>1, <1>9, <1>10, <2>2, <3>2, <3>3
  <2>3. CASE s = q.side /\ q.by # "pair"
    <3>1. step > PairQuery(s) /\ ~(step' <= PairQuery(s))
      BY <1>1, <1>2, <1>11, <2>3
    <3>2. answer[s] # {} => answer'[s] = answer[s]
      BY <1>10, <2>3 DEF Needed
    <3>3. s \in paired /\ Stored(s) # {} => answer[s] # {}
      BY <1>6, <3>1
    <3>. QED  BY <1>1, <1>6, <1>10, <2>3, <3>1, <3>2, <3>3
  <2>. QED  BY <2>1, <2>2, <2>3
<1>13. pc' = "done" => step' > 6
  BY <1>1, <1>2, <1>3
<1>. QED  BY <1>1, <1>5, <1>12, <1>13 DEF HistoryInv

LEMMA HistoryNext ==
  ASSUME ReadTypeOK, HistoryInv, [ReadNext]_readVars
  PROVE  HistoryInv'
<1>1. CASE Lookup
  <2>1. /\ kind = "history" /\ pc = "reading" /\ step = 0 /\ step' = 1
        /\ kind' = kind /\ pc' = pc /\ answer' = answer
    BY <1>1 DEF Lookup, idVars
  <2>2. \A s \in Sides : PairQuery(s) \in {1, 2}
    BY DEF PairQuery
  <2>3. \A s \in Sides : 0 <= PairQuery(s) /\ ~(1 > PairQuery(s))
    BY <2>2
  <2>. QED  BY <2>1, <2>3 DEF HistoryInv
<1>2. CASE Insert
  <2>1. /\ UNCHANGED <<kind, pc, before, asked, paired, step, answer>>
        /\ trades \subseteq trades'
    BY <1>2 DEF Insert
  <2>2. \A s \in Sides : Stored(s)' = Stored(s) /\ Own(s) \subseteq Own(s)'
    BY <2>1 DEF Stored, Own
  <2>. QED  BY <2>1, <2>2 DEF HistoryInv
<1>3. CASE Fail
  BY <1>3 DEF Fail, HistoryInv
<1>4. CASE \/ Found \/ Missed \/ EndPage \/ GetBatch \/ Grow
  <2>1. kind # "history" /\ kind' = kind
    BY <1>4 DEF Found, Missed, Scanning, EndPage, GetBatch,
                Grow
  <2>. QED  BY <2>1 DEF HistoryInv
<1>5. CASE UNCHANGED readVars
  <2>1. UNCHANGED <<kind, pc, trades, before, asked, paired, step, answer>>
    BY <1>5 DEF readVars, rowVars
  <2>. QED  BY <2>1 DEF HistoryInv, Stored, Own
<1>. QED  BY <1>1, <1>2, <1>3, <1>4, <1>5, HistoryQuery DEF ReadNext

\* The history of a market whose pair is known shows all the daily rows that its
\* pair had when it was asked for, and none of another market, however many rows
\* are stored between the six queries: get_prediction_history() asks by symbols,
\* which markets share, only for a side that its pair left empty.
THEOREM HistoriesAreOwn == ReadSpec => []HistoryIsOwn
<1>1. ReadInit => HistoryInv
  BY DEF ReadInit, HistoryInv
<1>2. ReadTypeOK /\ HistoryInv /\ [ReadNext]_readVars => HistoryInv'
  BY HistoryNext
<1>3. ReadTypeOK /\ HistoryInv => HistoryIsOwn
  <2>. SUFFICES ASSUME ReadTypeOK, HistoryInv PROVE HistoryIsOwn
    OBVIOUS
  <2>. SUFFICES ASSUME kind = "history", pc = "done", NEW s \in Sides
                PROVE  /\ \A r \in answer[s] : r.side = s
                       /\ s \in paired /\ Stored(s) # {}
                            => Stored(s) \subseteq answer[s] /\ answer[s] \subseteq Own(s)
    <3>1. before \subseteq trades
      BY DEF ReadTypeOK
    <3>2. \A s \in Sides :
            {r \in {x \in trades : x.market = asked /\ x.side = s} \cap before : r.addressed}
              = Stored(s)
      BY <3>1 DEF Stored
    <3>. QED  BY <3>2 DEF HistoryIsOwn, Own
  <2>1. PairQuery(s) \in {1, 2} /\ step > 6 /\ step \in Nat
    BY DEF PairQuery, HistoryInv, ReadTypeOK
  <2>2. step > PairQuery(s)
    BY <2>1
  <2>. QED  BY <2>2 DEF HistoryInv
<1>. QED  BY <1>1, <1>2, <1>3, ReadsTypeCorrect, PTL DEF ReadSpec
=============================================================================
