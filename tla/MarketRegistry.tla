--------------------------- MODULE MarketRegistry ----------------------------
(***************************************************************************)
(* The registry of prediction markets: the requests of api/v1/admin.py     *)
(* that register a market and set its status, and the list they keep in a  *)
(* JSON file through chain/prediction_deployer.py.                         *)
(*                                                                         *)
(* The chain is asked for pool addresses before the file is read, and not  *)
(* while it is in hand.  Of a record only what identifies the market and   *)
(* what updates change is kept.                                            *)
(***************************************************************************)
EXTENDS JsonFile

CONSTANTS
  Addresses,  \* contract addresses as requests spell them
  Contract,   \* the contract of each: addresses that differ in case share it
  Statuses,   \* the statuses that requests set, of VALID_STATUSES
  Outcomes,   \* the outcomes of resolutions, of OUTCOME_MAP
  MaxRequests \* bound on the requests that are carried out

ASSUME RegistryAssumption ==
  /\ "unset" \notin Statuses
  /\ "resolved" \in Statuses
  /\ "none" \notin Outcomes
  /\ MaxRequests \in Nat

VARIABLES
  count,       \* requests carried out so far
  registered,  \* history: addresses somebody asked to register
  promised,    \* history: the records that answered requests add up to, all `at` 0
  clash        \* history: two requests overlapped, or one was cut short

history == <<count, registered, promised, clash>>
vars == <<file, worker, count, registered, promised, clash>>

-----------------------------------------------------------------------------
\* "unset" and "none" stand for fields that a record does not have.  The order
\* of a list is that of `at`, the number of the request that appended a record.
Records == [address : Addresses, status : Statuses \cup {"unset"},
            outcome : Outcomes \cup {"none"}, at : Nat]

Record(a, status, outcome, at) ==
  [address |-> a, status |-> status, outcome |-> outcome, at |-> at]

\* A request with status "unset" registers a market, others update it.
Requests == [address : Addresses, status : Statuses \cup {"unset"},
             outcome : Outcomes \cup {"none"}]

Request(a, status, outcome) == [address |-> a, status |-> status, outcome |-> outcome]

Updates ==
  {Request(a, s, "none") : a \in Addresses, s \in Statuses} \cup
  {Request(a, "resolved", o) : a \in Addresses, o \in Outcomes}

SameContract(a, b) == Contract[a] = Contract[b]

\* As Registered, without "Deduplicate by market_address".
RegisteredTwice(list, a) == list \cup {Record(a, "unset", "none", count')}

\* register_market(): a new record last, in place of one of the same spelling.
Registered(list, a) ==
  {m \in list : m.address # a} \cup {Record(a, "unset", "none", count')}

\* Where update_market_status() finds a market: the first record of the
\* contract, in any spelling.
Found(list, a) ==
  {m \in list :
     /\ SameContract(m.address, a)
     /\ \A k \in list : SameContract(k.address, a) => m.at <= k.at}

\* As Changed, with the arguments in the wrong order.
ChangedSwapped(m, r) ==
  Record(m.address, IF r.outcome = "none" THEN m.outcome ELSE r.outcome, r.status, m.at)

\* A record after request r; an argument that is None leaves its field alone.
Changed(m, r) ==
  Record(m.address, r.status, IF r.outcome = "none" THEN m.outcome ELSE r.outcome, m.at)

\* As Updated, with an address that is compared as it is spelled.
UpdatedSpelled(list, r) ==
  {IF m.address = r.address THEN Changed(m, r) ELSE m : m \in list}

\* update_market_status() when it finds the market.
Updated(list, r) ==
  {IF m \in Found(list, r.address) THEN Changed(m, r) ELSE m : m \in list}

Init ==
  /\ file = Absent
  /\ worker = [w \in Workers |-> Idle]
  /\ count = 0
  /\ registered = {}
  /\ promised = {}
  /\ clash = FALSE

-----------------------------------------------------------------------------
AllIdle == \A w \in Workers : worker[w].pc = "idle"

\* A request read the file and will write it.
Takes(w, r, list) ==
  /\ count < MaxRequests
  /\ count' = count + 1
  /\ Load(w, r, list)
  /\ clash' = (clash \/ ~AllIdle)
  /\ UNCHANGED promised

\* POST /register-market up to the open().
Register(w, a) ==
  /\ Takes(w, Request(a, "unset", "none"), Registered(file.list, a))
  /\ registered' = registered \cup {a}

\* PATCH /markets/{address}/status, and the update of POST /resolve-market,
\* which sets "resolved" and an outcome.
Update(w, r) ==
  /\ Found(file.list, r.address) # {}
  /\ Takes(w, r, Updated(file.list, r))
  /\ UNCHANGED registered

\* json.load() raises, which the updates report as a market that is not in the
\* list, or the market of an update is not in the list: nothing is written.
Refuse(w) ==
  /\ worker[w].pc = "idle"
  /\ ~Readable \/ \E r \in Updates : Found(file.list, r.address) = {}
  /\ UNCHANGED vars

Truncate(w) == Open(w) /\ UNCHANGED history

\* What the records add up to once r is answered: a registration starts its
\* market anew, an update concerns the market in every spelling.
Fulfilled(r) ==
  IF r.status = "unset"
  THEN {m \in promised : m.address # r.address} \cup {Record(r.address, "unset", "none", 0)}
  ELSE {IF SameContract(m.address, r.address) THEN Changed(m, r) ELSE m : m \in promised}

\* The file is closed and the request answered.
Answer(w) ==
  /\ Close(w)
  /\ promised' = Fulfilled(worker[w].request)
  /\ UNCHANGED <<count, registered, clash>>

\* A process is killed in the middle of a request.
Crash(w) ==
  /\ Die(w)
  /\ clash' = TRUE
  /\ UNCHANGED <<count, registered, promised>>

Next ==
  \E w \in Workers :
    \/ \E a \in Addresses : Register(w, a)
    \/ \E r \in Updates : Update(w, r)
    \/ Refuse(w) \/ Truncate(w) \/ Answer(w) \/ Crash(w)

Spec == Init /\ [][Next]_vars

-----------------------------------------------------------------------------
(* Properties *)

\* Every variable has its type.
TypeOK ==
  /\ file \in Contents(Records)
  /\ worker \in [Workers -> Jobs(Requests, Records)]
  /\ count \in Nat
  /\ registered \in SUBSET Addresses
  /\ promised \in SUBSET Records
  /\ clash \in BOOLEAN

\* Every listed market was registered, and no spelling of its address is listed
\* twice, however requests overlap and whichever of them is lost, cut short or
\* written over: updates that overlap with each other or with a registration
\* never make up a market.
RegisteredOnce ==
  \A m \in file.list :
    /\ m.address \in registered
    /\ \A k \in file.list : m.address = k.address => m = k

\* The records whose contract is listed in one spelling only.
Unambiguous(set) ==
  {m \in set : \A k \in set : SameContract(k.address, m.address) => k = m}

\* As long as requests do not overlap and none is cut short, the registry says
\* of every market what the answered requests add up to, whichever process took
\* them and however each spelled the address; a contract listed in two
\* spellings is the exception, for an update only reaches the older record.
SerialUnlessClash ==
  ~clash /\ AllIdle =>
    /\ Readable
    /\ {m.address : m \in file.list} = {m.address : m \in promised}
    /\ {Record(m.address, m.status, m.outcome, 0) : m \in Unambiguous(file.list)}
         = Unambiguous(promised)

\* A registry nothing can be read from is never taken for an empty one and
\* overwritten: once nobody is writing, no request gets past reading it again.
UnreadableIsKept ==
  [][~Readable /\ AllIdle => file' = file /\ AllIdle']_vars
=============================================================================
