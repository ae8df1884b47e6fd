------------------------ MODULE MarketRegistryProofs -------------------------
(***************************************************************************)
(* Theorems about MarketRegistry, for any processes, addresses, statuses,  *)
(* outcomes and number of requests.                                        *)
(***************************************************************************)
EXTENDS MarketRegistry, TLAPS

-----------------------------------------------------------------------------
(* What the operations do to a list *)

\* No address twice in the list.
Distinct(list) == \A m, k \in list : m.address = k.address => m = k

\* A record has the fields it is made of.
LEMMA RecordFields ==
  ASSUME NEW a, NEW s, NEW o, NEW n
  PROVE  /\ Record(a, s, o, n).address = a
         /\ Record(a, s, o, n).status = s
         /\ Record(a, s, o, n).outcome = o
         /\ Record(a, s, o, n).at = n
BY DEF Record

\* Records are made of values of the right types.
LEMMA RecordType ==
  ASSUME NEW a \in Addresses, NEW s \in Statuses \cup {"unset"},
         NEW o \in Outcomes \cup {"none"}, NEW n \in Nat
  PROVE  Record(a, s, o, n) \in Records
BY DEF Record, Records

\* A job is made of a state, a request and a list.
LEMMA JobType ==
  ASSUME NEW pc \in {"idle", "loaded", "open"}, NEW r \in Requests \cup {NoRequest},
         NEW list \in SUBSET Records
  PROVE  /\ Job(pc, r, list) \in Jobs(Requests, Records)
         /\ Job(pc, r, list).pc = pc
         /\ Job(pc, r, list).request = r
         /\ Job(pc, r, list).list = list
BY DEF Job, Jobs

\* Every update is a request, and none is a registration.
LEMMA UpdateTypes ==
  ASSUME NEW r \in Updates
  PROVE  r \in Requests /\ r.status \in Statuses /\ r.status # "unset"
BY RegistryAssumption DEF Updates, Requests, Request

\* An update changes neither the address nor the place of a record.
LEMMA ChangedFields ==
  ASSUME NEW m \in Records, NEW r \in Requests
  PROVE  /\ Changed(m, r) \in Records
         /\ Changed(m, r).address = m.address
         /\ Changed(m, r).at = m.at
<1>1. /\ m.address \in Addresses
      /\ m.outcome \in Outcomes \cup {"none"}
      /\ m.at \in Nat
      /\ r.status \in Statuses \cup {"unset"}
      /\ r.outcome \in Outcomes \cup {"none"}
  BY DEF Records, Requests
<1>2. PICK o \in Outcomes \cup {"none"} : Changed(m, r) = Record(m.address, r.status, o, m.at)
  BY <1>1 DEF Changed
<1> QED BY <1>1, <1>2, RecordFields, RecordType

\* A registration keeps the list of the right type.
LEMMA RegisteredType ==
  ASSUME NEW list \in SUBSET Records, NEW a \in Addresses, count' \in Nat
  PROVE  Registered(list, a) \in SUBSET Records
BY RecordType DEF Registered

\* An update keeps the list of the right type.
LEMMA UpdatedType ==
  ASSUME NEW list \in SUBSET Records, NEW r \in Requests
  PROVE  Updated(list, r) \in SUBSET Records
BY ChangedFields DEF Updated, Found

\* A registration leaves no address twice.
LEMMA RegisteredDistinct ==
  ASSUME NEW list \in SUBSET Records, Distinct(list), NEW a
  PROVE  Distinct(Registered(list, a))
BY RecordFields DEF Distinct, Registered

\* An update leaves no address twice.
LEMMA UpdatedDistinct ==
  ASSUME NEW list \in SUBSET Records, Distinct(list), NEW r \in Requests
  PROVE  Distinct(Updated(list, r))
<1> DEFINE New(m) == IF m \in Found(list, r.address) THEN Changed(m, r) ELSE m
<1>1. \A m \in list : New(m).address = m.address
  BY ChangedFields
<1>2. Updated(list, r) = {New(m) : m \in list}
  BY DEF Updated
<1> HIDE DEF New
<1> QED BY <1>1, <1>2 DEF Distinct

\* An update adds no address.
LEMMA UpdatedAddresses ==
  ASSUME NEW list \in SUBSET Records, NEW r \in Requests
  PROVE  {m.address : m \in Updated(list, r)} = {m.address : m \in list}
<1> DEFINE New(m) == IF m \in Found(list, r.address) THEN Changed(m, r) ELSE m
<1>1. \A m \in list : New(m).address = m.address
  BY ChangedFields
<1>2. Updated(list, r) = {New(m) : m \in list}
  BY DEF Updated
<1> HIDE DEF New
<1> QED BY <1>1, <1>2

-----------------------------------------------------------------------------
(* Type correctness *)

\* A process with a list in hand has a request.
Busy == \A w \in Workers : worker[w].pc # "idle" => worker[w].request \in Requests

\* TypeOK with Busy, which it needs to be inductive.
Typed == TypeOK /\ Busy

\* The types of the parts of a job.
LEMMA JobParts ==
  ASSUME TypeOK, NEW w \in Workers
  PROVE  /\ worker[w].pc \in {"idle", "loaded", "open"}
         /\ worker[w].request \in Requests \cup {NoRequest}
         /\ worker[w].list \in SUBSET Records
BY DEF TypeOK, Jobs

\* Contents with a list of records, and the others, are contents.
LEMMA ContentsType ==
  /\ \A list \in SUBSET Records : Json(list) \in Contents(Records) /\ Json(list).list = list
  /\ Empty \in Contents(Records) /\ Empty.list = {}
  /\ Torn \in Contents(Records) /\ Torn.list = {}
  /\ Absent \in Contents(Records) /\ Absent.list = {}
BY DEF Contents, Json, Empty, Torn, Absent

\* An idle job has no list.
LEMMA IdleType ==
  /\ Idle \in Jobs(Requests, Records)
  /\ Idle.pc = "idle"
  /\ Idle.list = {}
BY JobType DEF Idle

\* Init gives every variable its type.
LEMMA InitTyped == Init => Typed
<1> SUFFICES ASSUME Init PROVE Typed
  OBVIOUS
<1>1. file \in Contents(Records)
  BY ContentsType DEF Init
<1>2. worker \in [Workers -> Jobs(Requests, Records)] /\ Busy
  BY IdleType DEF Init, Busy
<1>3. count \in Nat /\ registered \in SUBSET Addresses /\ promised \in SUBSET Records
      /\ clash \in BOOLEAN
  BY DEF Init
<1> QED BY <1>1, <1>2, <1>3 DEF Typed, TypeOK

\* What the answered requests add up to stays a set of records.
LEMMA FulfilledType ==
  ASSUME promised \in SUBSET Records, NEW r \in Requests
  PROVE  Fulfilled(r) \in SUBSET Records
<1>1. r.address \in Addresses
  BY DEF Requests
<1>2. Record(r.address, "unset", "none", 0) \in Records
  BY <1>1, RecordType
<1> QED BY <1>2, ChangedFields DEF Fulfilled

\* A request that takes the file in hand keeps the types.
LEMMA TakesTyped ==
  ASSUME Typed, NEW w \in Workers, NEW r \in Requests, NEW list \in SUBSET Records,
         Takes(w, r, list), registered' \in SUBSET Addresses
  PROVE  Typed'
<1>1. Job("loaded", r, list) \in Jobs(Requests, Records)
      /\ Job("loaded", r, list).request = r
  BY JobType
<1>2. worker' \in [Workers -> Jobs(Requests, Records)]
  BY <1>1 DEF Takes, Load, Typed, TypeOK
<1>3. Busy'
  BY <1>1 DEF Takes, Load, Typed, TypeOK, Busy
<1>4. count' \in Nat /\ clash' \in BOOLEAN /\ UNCHANGED <<file, promised>>
  BY DEF Takes, Load, Typed, TypeOK
<1> QED BY <1>2, <1>3, <1>4 DEF Typed, TypeOK

\* Every step keeps the types.
LEMMA NextTyped ==
  ASSUME Typed, [Next]_vars
  PROVE  Typed'
<1>1. ASSUME NEW w \in Workers, NEW a \in Addresses, Register(w, a)
      PROVE  Typed'
  <2>1. Request(a, "unset", "none") \in Requests
    BY DEF Request, Requests
  <2>2. Registered(file.list, a) \in SUBSET Records
    BY <1>1, RegisteredType DEF Register, Takes, Typed, TypeOK, Contents
  <2> QED BY <1>1, <2>1, <2>2, TakesTyped DEF Register, Typed, TypeOK
<1>2. ASSUME NEW w \in Workers, NEW r \in Updates, Update(w, r)
      PROVE  Typed'
  <2>1. r \in Requests
    BY UpdateTypes
  <2>2. Updated(file.list, r) \in SUBSET Records
    BY <2>1, UpdatedType DEF Typed, TypeOK, Contents
  <2> QED BY <1>2, <2>1, <2>2, TakesTyped DEF Update, Typed, TypeOK
<1>3. ASSUME NEW w \in Workers, Truncate(w)
      PROVE  Typed'
  <2> DEFINE job == Job("open", worker[w].request, worker[w].list)
  <2>1. job \in Jobs(Requests, Records) /\ job.request = worker[w].request
    BY JobParts, JobType DEF Typed
  <2>2. worker' = [worker EXCEPT ![w] = job] /\ file' = Empty /\ UNCHANGED history
        /\ worker[w].pc = "loaded"
    BY <1>3 DEF Truncate, Open
  <2> HIDE DEF job
  <2> QED BY <2>1, <2>2, ContentsType DEF Typed, TypeOK, Busy, history
<1>4. ASSUME NEW w \in Workers, Answer(w)
      PROVE  Typed'
  <2>1. worker[w].request \in Requests
    BY <1>4 DEF Answer, Close, Typed, Busy
  <2>2. promised' \in SUBSET Records
    BY <1>4, <2>1, FulfilledType DEF Answer, Typed, TypeOK
  <2>3. file' \in Contents(Records)
    BY <1>4, JobParts, ContentsType DEF Answer, Close, Typed
  <2>4. worker' = [worker EXCEPT ![w] = Idle] /\ UNCHANGED <<count, registered, clash>>
    BY <1>4 DEF Answer, Close
  <2> QED BY <2>2, <2>3, <2>4, IdleType DEF Typed, TypeOK, Busy
<1>5. ASSUME NEW w \in Workers, Crash(w)
      PROVE  Typed'
  <2>1. file' \in Contents(Records)
    BY <1>5, JobParts, ContentsType DEF Crash, Die, Typed, TypeOK
  <2>2. worker' = [worker EXCEPT ![w] = Idle] /\ clash' = TRUE
        /\ UNCHANGED <<count, registered, promised>>
    BY <1>5 DEF Crash, Die
  <2> QED BY <2>1, <2>2, IdleType DEF Typed, TypeOK, Busy
<1>6. ASSUME UNCHANGED vars
      PROVE  Typed'
  BY <1>6 DEF vars, Typed, TypeOK, Busy
<1> QED BY <1>1, <1>2, <1>3, <1>4, <1>5, <1>6 DEF Next, Refuse

\* The registry's variables keep their types.
THEOREM TypeCorrect == Spec => []TypeOK
<1>1. Typed /\ [Next]_vars => Typed'
  BY NextTyped
<1> QED BY InitTyped, <1>1, PTL DEF Spec, Typed

-----------------------------------------------------------------------------
(* Lists under overlapping requests *)

\* A list without duplicates in which every market was registered.
Sound(list) == Distinct(list) /\ \A m \in list : m.address \in registered

\* The file and all the lists about to be written are sound: whichever write
\* comes last, the file is.
ListsSound == Sound(file.list) /\ \A w \in Workers : Sound(worker[w].list)

\* A request that takes the file in hand with a sound list keeps them sound.
LEMMA TakesSound ==
  ASSUME Typed, ListsSound, NEW w \in Workers, NEW r \in Requests,
         NEW list \in SUBSET Records, Takes(w, r, list),
         Distinct(list), \A m \in list : m.address \in registered',
         registered \subseteq registered'
  PROVE  ListsSound'
<1>1. Job("loaded", r, list).list = list
  BY JobType
<1>2. file' = file /\ worker' = [worker EXCEPT ![w] = Job("loaded", r, list)]
  BY DEF Takes, Load
<1>3. worker \in [Workers -> Jobs(Requests, Records)]
  BY DEF Typed, TypeOK
<1>4. Sound(file.list)'
  BY <1>2 DEF ListsSound, Sound, Distinct
<1>5. ASSUME NEW v \in Workers PROVE Sound(worker[v].list)'
  <2>1. CASE v = w
    BY <1>1, <1>2, <1>3, <2>1 DEF Sound, Distinct
  <2>2. CASE v # w
    <3>1. worker'[v] = worker[v]
      BY <1>2, <1>3, <2>2
    <3> QED BY <3>1 DEF ListsSound, Sound, Distinct
  <2> QED BY <2>1, <2>2
<1> QED BY <1>4, <1>5 DEF ListsSound

\* A step that empties or writes the file and gives up the list of w, keeps it,
\* or leaves both alone keeps the lists sound.
LEMMA WriteSound ==
  ASSUME ListsSound, NEW w \in Workers, registered' = registered,
         file'.list = {} \/ file'.list = file.list \/ file'.list = worker[w].list,
         \A v \in Workers : worker'[v].list = {} \/ worker'[v].list = worker[v].list
  PROVE  ListsSound'
BY DEF ListsSound, Sound, Distinct

\* Every step keeps the lists sound.
LEMMA NextSound ==
  ASSUME Typed, ListsSound, [Next]_vars
  PROVE  ListsSound'
<1>1. ASSUME NEW w \in Workers, NEW a \in Addresses, Register(w, a)
      PROVE  ListsSound'
  <2> DEFINE list == Registered(file.list, a)
  <2>1. Request(a, "unset", "none") \in Requests
    BY DEF Request, Requests
  <2>2. Takes(w, Request(a, "unset", "none"), list) /\ registered' = registered \cup {a}
    BY <1>1 DEF Register
  <2>3. list \in SUBSET Records
    BY <2>2, RegisteredType DEF Takes, Typed, TypeOK, Contents
  <2>4. Distinct(list)
    BY RegisteredDistinct DEF ListsSound, Sound, Typed, TypeOK, Contents
  <2>5. \A m \in list : m.address \in registered'
    BY <2>2, RecordFields DEF Registered, ListsSound, Sound
  <2> HIDE DEF list
  <2> QED BY <2>1, <2>2, <2>3, <2>4, <2>5, TakesSound
<1>2. ASSUME NEW w \in Workers, NEW r \in Updates, Update(w, r)
      PROVE  ListsSound'
  <2> DEFINE list == Updated(file.list, r)
  <2>1. r \in Requests /\ file.list \in SUBSET Records
    BY UpdateTypes DEF Typed, TypeOK, Contents
  <2>2. Takes(w, r, list) /\ registered' = registered
    BY <1>2 DEF Update
  <2>3. list \in SUBSET Records
    BY <2>1, UpdatedType
  <2>4. Distinct(list)
    BY <2>1, UpdatedDistinct DEF ListsSound, Sound
  <2>5. {m.address : m \in list} = {m.address : m \in file.list}
    BY <2>1, UpdatedAddresses
  <2>6. \A m \in list : m.address \in registered'
    <3> HIDE DEF list
    <3>1. \A m \in list : m.address \in {k.address : k \in file.list}
      BY <2>5
    <3> QED BY <2>2, <3>1 DEF ListsSound, Sound
  <2> HIDE DEF list
  <2> QED BY <2>1, <2>2, <2>3, <2>4, <2>6, TakesSound
<1>3. ASSUME NEW w \in Workers, Truncate(w)
      PROVE  ListsSound'
  <2> DEFINE job == Job("open", worker[w].request, worker[w].list)
  <2>1. job.list = worker[w].list
    BY JobParts, JobType DEF Typed
  <2>2. worker' = [worker EXCEPT ![w] = job] /\ file'.list = {} /\ registered' = registered
    BY <1>3, ContentsType DEF Truncate, Open, history
  <2> HIDE DEF job
  <2>3. \A v \in Workers : worker'[v].list = {} \/ worker'[v].list = worker[v].list
    BY <2>1, <2>2 DEF Typed, TypeOK
  <2> QED BY <2>2, <2>3, WriteSound
<1>4. ASSUME NEW w \in Workers, Answer(w)
      PROVE  ListsSound'
  <2>1. worker' = [worker EXCEPT ![w] = Idle] /\ registered' = registered
    BY <1>4 DEF Answer, Close
  <2>2. file'.list = {} \/ file'.list = worker[w].list
    BY <1>4, JobParts, ContentsType DEF Answer, Close, Typed
  <2>3. \A v \in Workers : worker'[v].list = {} \/ worker'[v].list = worker[v].list
    BY <2>1, IdleType DEF Typed, TypeOK
  <2> QED BY <2>1, <2>2, <2>3, WriteSound
<1>5. ASSUME NEW w \in Workers, Crash(w)
      PROVE  ListsSound'
  <2>1. worker' = [worker EXCEPT ![w] = Idle] /\ registered' = registered
    BY <1>5 DEF Crash, Die
  <2>2. file'.list = {} \/ file'.list = file.list \/ file'.list = worker[w].list
    BY <1>5, JobParts, ContentsType DEF Crash, Die, Typed
  <2>3. \A v \in Workers : worker'[v].list = {} \/ worker'[v].list = worker[v].list
    BY <2>1, IdleType DEF Typed, TypeOK
  <2> QED BY <2>1, <2>2, <2>3, WriteSound
<1>6. ASSUME UNCHANGED vars
      PROVE  ListsSound'
  BY <1>6 DEF vars, ListsSound, Sound, Distinct
<1> QED BY <1>1, <1>2, <1>3, <1>4, <1>5, <1>6 DEF Next, Refuse

\* Init has no lists.
LEMMA InitSound == Init => ListsSound
BY IdleType, ContentsType DEF Init, ListsSound, Sound, Distinct

\* Every listed market was registered, and none is listed twice under one
\* address, however requests of several processes overlap, get lost or are cut
\* short.
THEOREM MarketsRegisteredOnce == Spec => []RegisteredOnce
<1>1. Typed /\ ListsSound /\ [Next]_vars => Typed' /\ ListsSound'
  BY NextTyped, NextSound
<1>2. ListsSound => RegisteredOnce
  BY DEF ListsSound, Sound, Distinct, RegisteredOnce
<1> QED BY InitTyped, InitSound, <1>1, <1>2, PTL DEF Spec

\* A registry that cannot be read is kept as it is.
THEOREM BrokenRegistryKept == Spec => UnreadableIsKept
<1>1. ASSUME [Next]_vars, ~Readable, AllIdle
      PROVE  file' = file /\ AllIdle'
  <2>1. ASSUME NEW w \in Workers, NEW r, NEW list, Takes(w, r, list)
        PROVE  FALSE
    BY <1>1, <2>1 DEF Takes, Load
  <2>2. ASSUME NEW w \in Workers, Truncate(w) \/ Answer(w) \/ Crash(w)
        PROVE  FALSE
    BY <1>1, <2>2 DEF Truncate, Open, Answer, Close, Crash, Die, AllIdle
  <2>3. UNCHANGED <<file, worker>>
    BY <1>1, <2>1, <2>2 DEF Next, Register, Update, Refuse, vars
  <2> QED BY <1>1, <2>3 DEF AllIdle
<1> QED BY <1>1, PTL DEF Spec, UnreadableIsKept

-----------------------------------------------------------------------------
(* The registry without overlapping requests *)

\* No other spelling of the contract of a is listed.
Sole(list, a) == \A k \in list : SameContract(k.address, a) => k.address = a

\* The list has the markets that were promised, and says of those in one
\* spelling what was promised.
Agree(list, made) ==
  /\ \A m \in list : \E k \in made : k.address = m.address
  /\ \A k \in made : \E m \in list : m.address = k.address
  /\ \A m \in list, k \in made : m.address = k.address /\ Sole(list, m.address)
       => m.status = k.status /\ m.outcome = k.outcome

\* What is promised has no order and no address twice.
Promises == Distinct(promised) /\ \A m \in promised : m.at = 0

\* One request at a time: its list agrees with what its answer will add.
Serial ==
  ~clash =>
    /\ \A v, w \in Workers : worker[v].pc # "idle" /\ worker[w].pc # "idle" => v = w
    /\ AllIdle => Readable /\ Agree(file.list, promised)
    /\ \A w \in Workers : worker[w].pc # "idle" =>
         Agree(worker[w].list, Fulfilled(worker[w].request))
    /\ \A w \in Workers : worker[w].pc = "open" => file = Empty

\* A registration adds to the list what its answer promises.
LEMMA RegisteredAgrees ==
  ASSUME NEW list \in SUBSET Records, Agree(list, promised),
         NEW a \in Addresses
  PROVE  Agree(Registered(list, a), Fulfilled(Request(a, "unset", "none")))
<1> DEFINE new == Record(a, "unset", "none", count')
           due == Record(a, "unset", "none", 0)
           grown == {m \in list : m.address # a} \cup {new}
           made == {m \in promised : m.address # a} \cup {due}
<1>1. Registered(list, a) = grown
  BY DEF Registered
<1>2. Fulfilled(Request(a, "unset", "none")) = made
  BY DEF Fulfilled, Request
<1>3. /\ new.address = a /\ new.status = "unset" /\ new.outcome = "none"
      /\ due.address = a /\ due.status = "unset" /\ due.outcome = "none"
  BY RecordFields
<1> HIDE DEF new, due
<1>4. \A m \in grown : \E k \in made : k.address = m.address
  BY <1>3 DEF Agree
<1>5. \A k \in made : \E m \in grown : m.address = k.address
  BY <1>3 DEF Agree
<1>6. ASSUME NEW m \in grown, NEW k \in made, m.address = k.address, Sole(grown, m.address)
      PROVE  m.status = k.status /\ m.outcome = k.outcome
  <2>1. CASE m.address = a
    BY <1>3, <1>6, <2>1
  <2>2. CASE m.address # a
    <3>1. m \in list /\ k \in promised
      BY <1>3, <1>6, <2>2
    <3>2. ~SameContract(a, m.address)
      BY <1>3, <1>6, <2>2 DEF Sole
    <3>3. Sole(list, m.address)
      BY <1>6, <3>2 DEF Sole
    <3> QED BY <1>6, <3>1, <3>3 DEF Agree
  <2> QED BY <2>1, <2>2
<1> QED BY <1>1, <1>2, <1>4, <1>5, <1>6 DEF Agree

\* An update does to the list what its answer promises.
LEMMA UpdatedAgrees ==
  ASSUME NEW list \in SUBSET Records, Distinct(list), Agree(list, promised),
         promised \in SUBSET Records, NEW r \in Updates
  PROVE  Agree(Updated(list, r), Fulfilled(r))
<1> DEFINE New(m) == IF m \in Found(list, r.address) THEN Changed(m, r) ELSE m
           Due(k) == IF SameContract(k.address, r.address) THEN Changed(k, r) ELSE k
           after == {New(m) : m \in list}
           owed == {Due(k) : k \in promised}
<1>1. Updated(list, r) = after
  BY DEF Updated
<1>2. Fulfilled(r) = owed
  BY UpdateTypes DEF Fulfilled
<1>3. /\ \A m \in list : New(m).address = m.address
      /\ \A k \in promised : Due(k).address = k.address
  BY ChangedFields, UpdateTypes
<1>4. ASSUME NEW m \in list, NEW k \in promised, m.address = k.address, Sole(list, m.address)
      PROVE  New(m).status = Due(k).status /\ New(m).outcome = Due(k).outcome
  <2>1. m.status = k.status /\ m.outcome = k.outcome
    BY <1>4 DEF Agree
  <2>2. CASE SameContract(m.address, r.address)
    <3>1. ASSUME NEW j \in list, SameContract(j.address, r.address)
          PROVE  m.at <= j.at
      <4>1. j.address = m.address
        BY <1>4, <2>2, <3>1 DEF Sole, SameContract
      <4>2. j = m
        BY <4>1 DEF Distinct
      <4> QED BY <4>2 DEF Records
    <3>2. m \in Found(list, r.address)
      BY <2>2, <3>1 DEF Found
    <3>3. New(m) = Changed(m, r) /\ Due(k) = Changed(k, r)
      BY <1>4, <2>2, <3>2
    <3> QED BY <2>1, <3>3, RecordFields DEF Changed
  <2>3. CASE ~SameContract(m.address, r.address)
    <3>1. New(m) = m /\ Due(k) = k
      BY <1>4, <2>3 DEF Found
    <3> QED BY <2>1, <3>1
  <2> QED BY <2>2, <2>3
<1> HIDE DEF New, Due
<1>5. \A m \in list : Sole(after, m.address) => Sole(list, m.address)
  BY <1>3 DEF Sole
<1>6. \A x \in after : \E y \in owed : y.address = x.address
  BY <1>3 DEF Agree
<1>7. \A y \in owed : \E x \in after : x.address = y.address
  BY <1>3 DEF Agree
<1>8. ASSUME NEW x \in after, NEW y \in owed, x.address = y.address, Sole(after, x.address)
      PROVE  x.status = y.status /\ x.outcome = y.outcome
  <2>1. PICK m \in list : x = New(m)
    OBVIOUS
  <2>2. PICK k \in promised : y = Due(k)
    OBVIOUS
  <2> HIDE DEF after, owed
  <2>3. x.address = m.address /\ y.address = k.address
    BY <1>3, <2>1, <2>2
  <2>4. Sole(list, m.address)
    BY <1>5, <1>8, <2>3
  <2>5. New(m).status = Due(k).status /\ New(m).outcome = Due(k).outcome
    BY <1>4, <1>8, <2>3, <2>4
  <2> QED BY <2>1, <2>2, <2>5
<1> HIDE DEF after, owed
<1>9. Agree(after, owed)
  BY <1>6, <1>7, <1>8 DEF Agree
<1> QED BY <1>1, <1>2, <1>9

\* What is promised stays free of duplicates.
LEMMA NextPromises ==
  ASSUME Typed, Promises, [Next]_vars
  PROVE  Promises'
<1>1. ASSUME NEW w \in Workers, Answer(w)
      PROVE  Promises'
  <2> DEFINE r == worker[w].request
  <2>1. r \in Requests /\ promised' = Fulfilled(r)
    BY <1>1 DEF Answer, Close, Typed, Busy
  <2> HIDE DEF r
  <2>2. CASE r.status = "unset"
    <3>1. promised' = {m \in promised : m.address # r.address}
                        \cup {Record(r.address, "unset", "none", 0)}
      BY <2>1, <2>2 DEF Fulfilled
    <3> QED BY <3>1, RecordFields DEF Promises, Distinct
  <2>3. CASE r.status # "unset"
    <3> DEFINE Due(k) == IF SameContract(k.address, r.address) THEN Changed(k, r) ELSE k
    <3>1. promised' = {Due(k) : k \in promised}
      BY <2>1, <2>3 DEF Fulfilled
    <3>2. \A k \in promised : Due(k).address = k.address /\ Due(k).at = k.at
      BY <2>1, ChangedFields DEF Typed, TypeOK
    <3> HIDE DEF Due
    <3> QED BY <3>1, <3>2 DEF Promises, Distinct
  <2> QED BY <2>2, <2>3
<1>2. ASSUME UNCHANGED promised
      PROVE  Promises'
  BY <1>2 DEF Promises, Distinct
<1> QED BY <1>1, <1>2 DEF Next, Register, Update, Takes, Refuse, Truncate, Crash, history, vars

\* A request that takes the file in hand, alone, keeps its list in agreement.
LEMMA TakesSerial ==
  ASSUME Typed, Serial, NEW w \in Workers, NEW r \in Requests,
         NEW list \in SUBSET Records, Takes(w, r, list),
         Agree(file.list, promised) => Agree(list, Fulfilled(r))
  PROVE  Serial'
<1> SUFFICES ASSUME ~clash' PROVE Serial'
  BY DEF Serial
<1>1. AllIdle /\ ~clash /\ promised' = promised
  BY DEF Takes
<1>2. Job("loaded", r, list).pc = "loaded" /\ Job("loaded", r, list).request = r
      /\ Job("loaded", r, list).list = list
  BY JobType
<1>3. worker' = [worker EXCEPT ![w] = Job("loaded", r, list)]
  BY DEF Takes, Load
<1>4. worker \in [Workers -> Jobs(Requests, Records)]
  BY DEF Typed, TypeOK
<1>5. /\ worker'[w].pc = "loaded" /\ worker'[w].request = r /\ worker'[w].list = list
      /\ \A v \in Workers : v # w => worker'[v].pc = "idle"
  BY <1>1, <1>2, <1>3, <1>4 DEF AllIdle
<1>6. Agree(list, Fulfilled(r))
  BY <1>1 DEF Serial
<1>7. Fulfilled(worker[w].request)' = Fulfilled(r)
  BY <1>1, <1>5 DEF Fulfilled
<1>8. Agree(worker[w].list, Fulfilled(worker[w].request))'
  BY <1>5, <1>6, <1>7 DEF Agree, Sole
<1>9. ~AllIdle'
  BY <1>5 DEF AllIdle
<1>10. \A v \in Workers : worker'[v].pc # "idle" => v = w
  BY <1>5
<1>11. \A v \in Workers : worker'[v].pc # "open"
  BY <1>5
<1> QED BY <1>8, <1>9, <1>10, <1>11 DEF Serial

\* Every step keeps requests that do not overlap in agreement.
LEMMA NextSerial ==
  ASSUME Typed, ListsSound, Promises, Serial, [Next]_vars
  PROVE  Serial'
<1>0. worker \in [Workers -> Jobs(Requests, Records)] /\ file.list \in SUBSET Records
  BY DEF Typed, TypeOK, Contents
<1>1. ASSUME NEW w \in Workers, NEW a \in Addresses, Register(w, a)
      PROVE  Serial'
  <2>1. Request(a, "unset", "none") \in Requests
    BY DEF Request, Requests
  <2>2. Registered(file.list, a) \in SUBSET Records
    BY <1>1, RegisteredType DEF Register, Takes, Typed, TypeOK, Contents
  <2>3. Agree(file.list, promised) =>
          Agree(Registered(file.list, a), Fulfilled(Request(a, "unset", "none")))
    BY <1>0, RegisteredAgrees
  <2> QED BY <1>1, <2>1, <2>2, <2>3, TakesSerial DEF Register
<1>2. ASSUME NEW w \in Workers, NEW r \in Updates, Update(w, r)
      PROVE  Serial'
  <2>1. r \in Requests
    BY UpdateTypes
  <2>2. Updated(file.list, r) \in SUBSET Records
    BY <1>0, <2>1, UpdatedType
  <2>3. Agree(file.list, promised) => Agree(Updated(file.list, r), Fulfilled(r))
    BY <1>0, UpdatedAgrees DEF ListsSound, Sound, Typed, TypeOK
  <2> QED BY <1>2, <2>1, <2>2, <2>3, TakesSerial DEF Update
<1>3. ASSUME NEW w \in Workers, Truncate(w)
      PROVE  Serial'
  <2> SUFFICES ASSUME ~clash' PROVE Serial'
    BY DEF Serial
  <2>1. worker[w].pc = "loaded" /\ file' = Empty /\ promised' = promised /\ ~clash
    BY <1>3 DEF Truncate, Open, history
  <2>2. /\ worker'[w].pc = "open"
        /\ worker'[w].request = worker[w].request
        /\ worker'[w].list = worker[w].list
    BY <1>0, <1>3, JobParts, JobType DEF Truncate, Open, Typed
  <2>3. \A v \in Workers : worker'[v].pc # "idle" => v = w
    BY <1>0, <1>3, <2>1 DEF Truncate, Open, Serial
  <2>4. Agree(worker[w].list, Fulfilled(worker[w].request))
    BY <2>1 DEF Serial
  <2>5. Fulfilled(worker[w].request)' = Fulfilled(worker[w].request)
    BY <2>1, <2>2 DEF Fulfilled
  <2>6. Agree(worker[w].list, Fulfilled(worker[w].request))'
    BY <2>2, <2>4, <2>5 DEF Agree, Sole
  <2>7. ~AllIdle'
    BY <2>2 DEF AllIdle
  <2> QED BY <2>1, <2>3, <2>6, <2>7 DEF Serial
<1>4. ASSUME NEW w \in Workers, Answer(w)
      PROVE  Serial'
  <2> SUFFICES ASSUME ~clash' PROVE Serial'
    BY DEF Serial
  <2>1. /\ worker[w].pc = "open" /\ ~clash
        /\ worker' = [worker EXCEPT ![w] = Idle]
        /\ promised' = Fulfilled(worker[w].request)
    BY <1>4 DEF Answer, Close
  <2>2. file = Empty /\ Agree(worker[w].list, Fulfilled(worker[w].request))
    BY <2>1 DEF Serial
  <2>3. file' = Json(worker[w].list)
    BY <1>4, <2>2 DEF Answer, Close
  <2>4. file'.list = worker[w].list /\ Readable'
    BY <2>3 DEF Json, Readable
  <2>5. Agree(file.list, promised)'
    BY <2>1, <2>2, <2>4 DEF Agree, Sole
  <2>6. \A v \in Workers : worker'[v].pc = "idle"
    BY <1>0, <2>1, IdleType DEF Serial
  <2> QED BY <2>4, <2>5, <2>6 DEF Serial
<1>5. ASSUME NEW w \in Workers, Crash(w)
      PROVE  Serial'
  BY <1>5 DEF Crash, Serial
<1>6. ASSUME UNCHANGED vars
      PROVE  Serial'
  BY <1>6 DEF vars, Serial, AllIdle, Readable, Agree, Sole, Fulfilled
<1> QED BY <1>1, <1>2, <1>3, <1>4, <1>5, <1>6 DEF Next, Refuse

\* Init has nothing in it and nothing promised.
LEMMA InitSerial == Init => Serial /\ Promises
BY IdleType, ContentsType
   DEF Init, Serial, Promises, Distinct, AllIdle, Readable, Agree, Sole, Absent

\* Lists that agree say the same of every market in one spelling.
LEMMA AgreementSays ==
  ASSUME Typed, Promises, Distinct(file.list), Agree(file.list, promised)
  PROVE  /\ {m.address : m \in file.list} = {m.address : m \in promised}
         /\ {Record(m.address, m.status, m.outcome, 0) : m \in Unambiguous(file.list)}
              = Unambiguous(promised)
<1> DEFINE Said(m) == Record(m.address, m.status, m.outcome, 0)
<1>1. {m.address : m \in file.list} = {m.address : m \in promised}
  BY DEF Agree
<1>2. \A m \in file.list : m \in Unambiguous(file.list) <=> Sole(file.list, m.address)
  BY DEF Unambiguous, Sole, Distinct
<1>3. \A k \in promised : k \in Unambiguous(promised) <=> Sole(promised, k.address)
  BY DEF Unambiguous, Sole, Distinct, Promises
<1>4. \A a : Sole(file.list, a) <=> Sole(promised, a)
  BY DEF Agree, Sole
<1>5. ASSUME NEW m \in file.list, NEW k \in promised, m.address = k.address,
             Sole(file.list, m.address)
      PROVE  Said(m) = k
  <2>1. m.status = k.status /\ m.outcome = k.outcome /\ k.at = 0 /\ k \in Records
    BY <1>5 DEF Agree, Promises, Typed, TypeOK
  <2> QED BY <1>5, <2>1 DEF Record, Records
<1> HIDE DEF Said
<1>6. ASSUME NEW m \in Unambiguous(file.list)
      PROVE  Said(m) \in Unambiguous(promised)
  <2>1. m \in file.list /\ Sole(file.list, m.address)
    BY <1>2 DEF Unambiguous
  <2>2. PICK k \in promised : k.address = m.address
    BY <2>1 DEF Agree
  <2>3. Said(m) = k
    BY <1>5, <2>1, <2>2
  <2> QED BY <1>3, <1>4, <2>1, <2>2, <2>3
<1>7. ASSUME NEW k \in Unambiguous(promised)
      PROVE  \E m \in Unambiguous(file.list) : Said(m) = k
  <2>1. k \in promised /\ Sole(promised, k.address)
    BY <1>3 DEF Unambiguous
  <2>2. PICK m \in file.list : m.address = k.address
    BY <2>1 DEF Agree
  <2>3. Sole(file.list, m.address)
    BY <1>4, <2>1, <2>2
  <2> QED BY <1>2, <1>5, <2>1, <2>2, <2>3
<1>8. {Said(m) : m \in Unambiguous(file.list)} = Unambiguous(promised)
  BY <1>6, <1>7
<1> QED BY <1>1, <1>8 DEF Said

\* As long as requests do not overlap and none is cut short, the registry says
\* of every market in one spelling what the answered requests add up to.
THEOREM RegistryKeepsPromises == Spec => []SerialUnlessClash
<1> DEFINE IInv == Typed /\ ListsSound /\ Promises /\ Serial
<1>1. Init => IInv
  BY InitTyped, InitSound, InitSerial
<1>2. IInv /\ [Next]_vars => IInv'
  BY NextTyped, NextSound, NextPromises, NextSerial
<1>3. IInv => SerialUnlessClash
  <2> SUFFICES ASSUME IInv, ~clash, AllIdle
               PROVE  SerialUnlessClash
    BY DEF SerialUnlessClash
  <2>1. Readable /\ Agree(file.list, promised) /\ Distinct(file.list)
    BY DEF Serial, ListsSound, Sound
  <2> QED BY <2>1, AgreementSays DEF SerialUnlessClash
<1> QED BY <1>1, <1>2, <1>3, PTL DEF Spec
=============================================================================
