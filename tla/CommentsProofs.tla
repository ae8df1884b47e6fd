---------------------------- MODULE CommentsProofs ----------------------------
(***************************************************************************)
(* Theorems about Comments, for any processes, markets, wallets, spellings *)
(* and number of comments.                                                 *)
(***************************************************************************)
EXTENDS Comments, TLAPS

-----------------------------------------------------------------------------
(* What records are made of *)

\* A comment has the fields it is made of.
LEMMA CommentFields ==
  ASSUME NEW n \in Nat, NEW m \in Markets, NEW a \in Wallets
  PROVE  /\ Comment(n, m, a) \in AllComments
         /\ Comment(n, m, a).id = n
         /\ Comment(n, m, a).market = m
         /\ Comment(n, m, a).wallet = a
BY DEF Comment, AllComments

\* So has a request.
LEMMA RequestFields ==
  ASSUME NEW op \in {"post", "delete"}, NEW c \in AllComments, NEW a \in Wallets
  PROVE  /\ Request(op, c, a) \in Requests
         /\ Request(op, c, a).op = op
         /\ Request(op, c, a).comment = c
         /\ Request(op, c, a).by = a
BY DEF Request, Requests

\* So has a job, which is never idle.
LEMMA JobFields ==
  ASSUME NEW pc \in {"loaded", "open"}, NEW m \in Markets, NEW r \in Requests,
         NEW list \in SUBSET AllComments
  PROVE  /\ Job(pc, m, r, list) \in Jobs
         /\ Job(pc, m, r, list).pc = pc
         /\ Job(pc, m, r, list).market = m
         /\ Job(pc, m, r, list).request = r
         /\ Job(pc, m, r, list).list = list
         /\ Job(pc, m, r, list) # Idle
<1>1. /\ Job(pc, m, r, list) \in Jobs
      /\ Job(pc, m, r, list).pc = pc
      /\ Job(pc, m, r, list).market = m
      /\ Job(pc, m, r, list).request = r
      /\ Job(pc, m, r, list).list = list
  BY DEF Job, Jobs
<1>2. Idle.pc = "idle"
  BY DEF Idle
<1> QED BY <1>1, <1>2

\* Idle is at no market and has no list.
LEMMA IdleFields ==
  /\ Idle.pc = "idle"
  /\ Idle.market = NoMarket
  /\ Idle.list = {}
BY DEF Idle

\* What a file may contain.
LEMMA ContentsFields ==
  /\ \A list \in SUBSET AllComments :
       Json(list) \in Contents /\ Json(list).kind = "json" /\ Json(list).list = list
  /\ Empty \in Contents /\ Empty.kind = "empty" /\ Empty.list = {}
  /\ Torn \in Contents /\ Torn.kind = "torn" /\ Torn.list = {}
  /\ Absent \in Contents /\ Absent.kind = "absent" /\ Absent.list = {}
BY DEF Contents, Json, Empty, Torn, Absent

\* The types of the parts of a request.
LEMMA RequestParts ==
  ASSUME NEW r \in Requests
  PROVE  r.op \in {"post", "delete"} /\ r.comment \in AllComments /\ r.by \in Wallets
BY DEF Requests

\* A process that is not idle has a job, with parts of the right types.
LEMMA JobParts ==
  ASSUME TypeOK, NEW w \in Workers, worker[w] # Idle
  PROVE  /\ worker[w] \in Jobs
         /\ worker[w].pc \in {"loaded", "open"}
         /\ worker[w].market \in Markets
         /\ worker[w].request \in Requests
         /\ worker[w].list \in SUBSET AllComments
<1>1. worker[w] \in Jobs
  BY DEF TypeOK
<1> QED BY <1>1 DEF Jobs

\* A process whose job has begun is not idle, and one that is, is nowhere.
LEMMA BusyOrIdle ==
  ASSUME TypeOK, NEW w \in Workers
  PROVE  /\ worker[w].pc \in {"loaded", "open"} => worker[w] # Idle
         /\ worker[w].market \in Markets <=> worker[w] # Idle
BY JobParts, IdleFields, CommentsAssumption

-----------------------------------------------------------------------------
(* Type correctness *)

\* What every operation does to the worker and the file it is about.
LEMMA TakesTyped ==
  ASSUME TypeOK, NEW w \in Workers, NEW m \in Markets, NEW r \in Requests,
         NEW list \in SUBSET AllComments, Takes(w, m, r, list), count' \in Nat
  PROVE  TypeOK'
<1>1. worker' \in [Workers -> Jobs \cup {Idle}]
  BY JobFields DEF TypeOK, Takes
<1>2. clash' \in SUBSET Markets
  BY DEF TypeOK, Takes
<1>3. UNCHANGED <<files, posted, removed>>
  BY DEF Takes
<1> QED BY <1>1, <1>2, <1>3 DEF TypeOK

\* A posting keeps the types.
LEMMA PostTyped ==
  ASSUME TypeOK, NEW w \in Workers, NEW m \in Markets, NEW a \in Wallets, Post(w, m, a)
  PROVE  TypeOK'
<1> DEFINE c == Comment(count + 1, m, a)
<1>1. count + 1 \in Nat /\ count' \in Nat
  BY DEF TypeOK, Post
<1>2. c \in AllComments
  BY <1>1, CommentFields
<1>3. Request("post", c, a) \in Requests
  BY <1>2, RequestFields
<1>4. files[m].list \cup {c} \in SUBSET AllComments
  BY <1>2 DEF TypeOK, Contents
<1>5. Takes(w, m, Request("post", c, a), files[m].list \cup {c})
  BY DEF Post
<1> HIDE DEF c
<1> QED BY <1>1, <1>3, <1>4, <1>5, TakesTyped

\* A deletion keeps the types.
LEMMA DeleteTyped ==
  ASSUME TypeOK, NEW w \in Workers, NEW m \in Markets, NEW a \in Wallets,
         NEW c \in files[m].list, Delete(w, c, a)
  PROVE  TypeOK'
<1>1. c \in AllComments
  BY DEF TypeOK, Contents
<1>2. c.market \in Markets
  BY <1>1 DEF AllComments
<1>3. Request("delete", c, a) \in Requests
  BY <1>1, RequestFields
<1>4. files[c.market].list \ {c} \in SUBSET AllComments
  BY <1>2 DEF TypeOK, Contents
<1>5. /\ Takes(w, c.market, Request("delete", c, a), files[c.market].list \ {c})
      /\ count' \in Nat
  BY DEF Delete, TypeOK
<1> QED BY <1>2, <1>3, <1>4, <1>5, TakesTyped

\* So does opening the file.
LEMMA OpenTyped ==
  ASSUME TypeOK, NEW w \in Workers, Open(w)
  PROVE  TypeOK'
<1>1. worker[w] # Idle
  BY BusyOrIdle DEF Open
<1>2. [worker[w] EXCEPT !.pc = "open"] \in Jobs
  BY <1>1, JobParts DEF Jobs
<1>3. worker' \in [Workers -> Jobs \cup {Idle}]
  BY <1>2 DEF TypeOK, Open
<1>4. files' \in [Markets -> Contents]
  BY ContentsFields DEF TypeOK, Open
<1> QED BY <1>3, <1>4 DEF TypeOK, Open

\* So does answering.
LEMMA AnswerTyped ==
  ASSUME TypeOK, NEW w \in Workers, Answer(w)
  PROVE  TypeOK'
<1>1. worker[w] # Idle
  BY BusyOrIdle DEF Answer
<1>2. files' \in [Markets -> Contents]
  BY <1>1, JobParts, ContentsFields DEF TypeOK, Answer, Written
<1>3. worker' \in [Workers -> Jobs \cup {Idle}]
  BY DEF TypeOK, Answer
<1>4. worker[w].request.comment \in AllComments
  BY <1>1, JobParts, RequestParts
<1>5. posted' \in SUBSET AllComments /\ removed' \in SUBSET AllComments
  BY <1>4 DEF TypeOK, Answer
<1> QED BY <1>2, <1>3, <1>5 DEF TypeOK, Answer

\* So does a crash.
LEMMA CrashTyped ==
  ASSUME TypeOK, NEW w \in Workers, Crash(w)
  PROVE  TypeOK'
<1>1. worker[w] # Idle
  BY DEF Crash
<1>2. files' \in [Markets -> Contents]
  BY <1>1, JobParts, ContentsFields DEF TypeOK, Crash
<1>3. worker' \in [Workers -> Jobs \cup {Idle}]
  BY DEF TypeOK, Crash
<1>4. clash' \in SUBSET Markets
  BY <1>1, JobParts DEF TypeOK, Crash
<1> QED BY <1>2, <1>3, <1>4 DEF TypeOK, Crash

\* Init gives every variable its type.
LEMMA InitTyped == Init => TypeOK
BY ContentsFields DEF Init, TypeOK

\* So does every step.
LEMMA NextTyped == TypeOK /\ [Next]_vars => TypeOK'
<1> SUFFICES ASSUME TypeOK, [Next]_vars PROVE TypeOK'
  OBVIOUS
<1>1. CASE UNCHANGED vars
  BY <1>1 DEF TypeOK, vars
<1>2. ASSUME NEW w \in Workers, NEW m \in Markets, NEW a \in Wallets, Post(w, m, a)
      PROVE  TypeOK'
  BY <1>2, PostTyped
<1>3. ASSUME NEW w \in Workers, NEW m \in Markets, NEW a \in Wallets,
             NEW c \in files[m].list, Delete(w, c, a)
      PROVE  TypeOK'
  BY <1>3, DeleteTyped
<1>4. ASSUME NEW w \in Workers, Refuse(w) PROVE TypeOK'
  BY <1>4 DEF Refuse, TypeOK, vars
<1>5. ASSUME NEW w \in Workers, Open(w) \/ Answer(w) \/ Crash(w) PROVE TypeOK'
  BY <1>5, OpenTyped, AnswerTyped, CrashTyped
<1> QED BY <1>1, <1>2, <1>3, <1>4, <1>5 DEF Next

\* Every variable always has its type.
THEOREM TypeCorrect == Spec => []TypeOK
BY InitTyped, NextTyped, PTL DEF Spec

-----------------------------------------------------------------------------
(* What is kept of the comments *)

\* What was posted on a market and not deleted by its author.
Kept(m) == {c \in posted : c.market = m} \ removed

\* No comment in a file, in the hands of a process or among the removed ones is
\* newer than the newest, and a request is about the market its process is at.
Numbered ==
  /\ \A m \in Markets : \A c \in files[m].list : c.id <= count
  /\ \A w \in Workers : worker[w] # Idle =>
       /\ worker[w].request.comment.id <= count
       /\ worker[w].request.comment.market = worker[w].market
       /\ \A c \in worker[w].list : c.id <= count
  /\ \A c \in removed : c.id <= count

\* The list a request is about to write is what its answer makes of the comments
\* that were kept until then.
Agrees(r, list, kept, gone) ==
  \/ /\ r.op = "post"
     /\ list = kept \cup {r.comment}
     /\ r.comment \notin gone
  \/ /\ r.op = "delete"
     /\ list = kept \ {r.comment}
     /\ ByAuthor(r)

\* On market m requests come one after the other: the file is what was kept,
\* unless the request that has it open will make it so.
Serial(m) ==
  /\ \A v, w \in Workers : worker[v].market = m /\ worker[w].market = m => v = w
  /\ (\A w \in Workers : worker[w].market = m => worker[w].pc # "open")
       => Readable(m) /\ files[m].list = Kept(m)
  /\ \A w \in Workers : worker[w].market = m =>
       /\ Agrees(worker[w].request, worker[w].list, Kept(m), removed)
       /\ worker[w].pc = "open" => files[m] = Empty

\* The inductive invariant.
IInv == TypeOK /\ Numbered /\ \A m \in Markets \ clash : Serial(m)

\* A new request is about the market of its comment, and has nothing newer.
LEMMA TakesNumbered ==
  ASSUME TypeOK, Numbered, NEW w \in Workers, NEW r \in Requests,
         NEW list \in SUBSET AllComments, Takes(w, r.comment.market, r, list),
         count' \in Nat, count <= count', r.comment.id <= count',
         \A c \in list : c.id <= count'
  PROVE  Numbered'
<1> DEFINE m == r.comment.market
<1>1. m \in Markets
  BY DEF Requests, AllComments
<1>2. UNCHANGED <<files, removed>>
  BY DEF Takes
<1>3. \A c \in AllComments : c.id <= count => c.id <= count'
  BY DEF TypeOK, AllComments
<1>4. \A k \in Markets : \A c \in files[k].list : c.id <= count'
  BY <1>3 DEF TypeOK, Contents, Numbered
<1>5. \A c \in removed : c.id <= count'
  BY <1>3 DEF TypeOK, Numbered
<1>6. ASSUME NEW v \in Workers, worker'[v] # Idle
      PROVE  /\ worker'[v].request.comment.id <= count'
             /\ worker'[v].request.comment.market = worker'[v].market
             /\ \A c \in worker'[v].list : c.id <= count'
  <2>1. CASE v = w
    <3>1. worker'[v] = Job("loaded", m, r, list)
      BY <2>1 DEF Takes, TypeOK
    <3>2. /\ worker'[v].market = m
          /\ worker'[v].request = r
          /\ worker'[v].list = list
      BY <1>1, <3>1, JobFields
    <3> QED BY <3>2
  <2>2. CASE v # w
    <3>1. worker'[v] = worker[v]
      BY <2>2 DEF Takes, TypeOK
    <3>2. worker[v].request.comment \in AllComments /\ worker[v].list \in SUBSET AllComments
      BY <1>6, <3>1, JobParts, RequestParts
    <3>3. worker[v] # Idle
      BY <1>6, <3>1
    <3> QED BY <1>3, <3>1, <3>2, <3>3 DEF Numbered
  <2> QED BY <2>1, <2>2
<1> QED BY <1>2, <1>4, <1>5, <1>6 DEF Numbered

\* A new request that does not overlap keeps a market serial, and those on
\* other markets do not touch it.
LEMMA TakesSerial ==
  ASSUME IInv, NEW w \in Workers, NEW r \in Requests, NEW list \in SUBSET AllComments,
         Takes(w, r.comment.market, r, list),
         Busy(r.comment.market) \/ r.comment.market \in clash
           \/ Agrees(r, list, Kept(r.comment.market), removed),
         NEW m \in Markets, m \notin clash'
  PROVE  Serial(m)'
<1> DEFINE k == r.comment.market
<1>1. k \in Markets
  BY DEF Requests, AllComments
<1>2. m \notin clash /\ Serial(m)
  BY DEF Takes, IInv
<1>3. UNCHANGED <<files, posted, removed>> /\ Readable(m)' = Readable(m)
  BY DEF Takes, Readable
<1>4. Kept(m)' = Kept(m)
  BY <1>3 DEF Kept
<1>5. worker[w].market = NoMarket
  BY IdleFields DEF Takes
<1>6. \A v \in Workers \ {w} : worker'[v] = worker[v]
  BY DEF Takes, TypeOK, IInv
<1>7. worker'[w] = Job("loaded", k, r, list)
  BY DEF Takes, TypeOK, IInv
<1>8. /\ worker'[w].pc = "loaded"
      /\ worker'[w].market = k
      /\ worker'[w].request = r
      /\ worker'[w].list = list
  BY <1>1, <1>7, JobFields
<1> HIDE DEF k
<1>10. CASE k # m
  <2>1. \A v \in Workers : worker'[v].market = m => v # w /\ worker'[v] = worker[v]
    BY <1>6, <1>8, <1>10
  <2>2. \A v \in Workers : worker[v].market = m => v # w
    BY <1>5, CommentsAssumption
  <2>3. \A v, u \in Workers : worker'[v].market = m /\ worker'[u].market = m => v = u
    BY <1>2, <2>1 DEF Serial
  <2>4. (\A v \in Workers : worker'[v].market = m => worker'[v].pc # "open")
          => Readable(m)' /\ files'[m].list = Kept(m)'
    BY <1>2, <1>3, <1>4, <1>6, <2>2 DEF Serial
  <2>5. \A v \in Workers : worker'[v].market = m =>
          /\ Agrees(worker'[v].request, worker'[v].list, Kept(m)', removed')
          /\ worker'[v].pc = "open" => files'[m] = Empty
    BY <1>2, <1>3, <1>4, <2>1 DEF Serial
  <2> QED BY <2>3, <2>4, <2>5 DEF Serial
<1>11. CASE k = m
  <2>1. ~Busy(m)
    BY <1>11 DEF Takes, k
  <2>2. \A v \in Workers : worker[v].market # m
    BY <2>1 DEF Busy
  <2>3. \A v \in Workers : worker'[v].market = m => v = w
    BY <1>6, <2>2
  <2>4. Readable(m) /\ files[m].list = Kept(m)
    BY <1>2, <2>2 DEF Serial
  <2>5. Agrees(r, list, Kept(m), removed)
    BY <1>2, <1>11, <2>1 DEF k
  <2>6. Agrees(worker'[w].request, worker'[w].list, Kept(m)', removed')
    BY <1>3, <1>4, <1>8, <2>5
  <2> QED BY <1>3, <1>4, <1>8, <2>3, <2>4, <2>6 DEF Serial
<1> QED BY <1>10, <1>11

\* Posting keeps the invariant: the new comment is newer than all removed ones.
LEMMA PostSafe ==
  ASSUME IInv, NEW w \in Workers, NEW m \in Markets, NEW a \in Wallets, Post(w, m, a)
  PROVE  Numbered' /\ \A k \in Markets \ clash' : Serial(k)'
<1> DEFINE c == Comment(count + 1, m, a)
           r == Request("post", c, a)
           list == files[m].list \cup {c}
<1>1. count \in Nat /\ count' = count + 1
  BY DEF IInv, TypeOK, Post
<1>2. c \in AllComments /\ c.id = count + 1 /\ c.market = m
  BY <1>1, CommentFields
<1>3. r \in Requests /\ r.op = "post" /\ r.comment = c
  BY <1>2, RequestFields
<1>4. list \in SUBSET AllComments /\ \A d \in files[m].list : d \in AllComments
  BY <1>2 DEF IInv, TypeOK, Contents
<1>5. Takes(w, m, r, list)
  BY DEF Post
<1>6. \A d \in list : d.id <= count'
  BY <1>1, <1>2, <1>4 DEF IInv, Numbered, AllComments
<1>7. c \notin removed
  BY <1>1, <1>2 DEF IInv, Numbered
<1>8. m \in clash \/ Busy(m) \/ files[m].list = Kept(m)
  BY DEF IInv, Serial, Busy
<1>9. m \in clash \/ Busy(m) \/ Agrees(r, list, Kept(m), removed)
  BY <1>3, <1>7, <1>8 DEF Agrees
<1> HIDE DEF c, r, list
<1>10. Numbered'
  BY <1>1, <1>2, <1>3, <1>4, <1>5, <1>6, TakesNumbered DEF IInv
<1>11. ASSUME NEW k \in Markets \ clash' PROVE Serial(k)'
  BY <1>2, <1>3, <1>4, <1>5, <1>9, TakesSerial
<1> QED BY <1>10, <1>11

\* Deletion keeps the invariant: it only begins for the author.
LEMMA DeleteSafe ==
  ASSUME IInv, NEW w \in Workers, NEW n \in Markets, NEW a \in Wallets,
         NEW c \in files[n].list, Delete(w, c, a)
  PROVE  Numbered' /\ \A k \in Markets \ clash' : Serial(k)'
<1> DEFINE m == c.market
           r == Request("delete", c, a)
           list == files[m].list \ {c}
<1>1. c \in AllComments /\ m \in Markets
  BY DEF IInv, TypeOK, Contents, AllComments
<1>2. r \in Requests /\ r.op = "delete" /\ r.comment = c /\ r.by = a
  BY <1>1, RequestFields
<1>3. list \in SUBSET AllComments
  BY <1>1 DEF IInv, TypeOK, Contents
<1>4. Takes(w, m, r, list) /\ count' = count /\ count \in Nat /\ c \in files[m].list
  BY DEF Delete, IInv, TypeOK
<1>5. c.id <= count /\ \A d \in list : d.id <= count
  BY <1>1, <1>4 DEF IInv, Numbered
<1>6. ByAuthor(r)
  BY <1>2 DEF Delete, MayDelete, ByAuthor
<1>7. m \in clash \/ Busy(m) \/ files[m].list = Kept(m)
  BY <1>1 DEF IInv, Serial, Busy
<1>8. m \in clash \/ Busy(m) \/ Agrees(r, list, Kept(m), removed)
  BY <1>2, <1>6, <1>7 DEF Agrees
<1>9. count <= count'
  BY <1>4
<1> HIDE DEF r, list
<1>10. Numbered'
  BY <1>2, <1>3, <1>4, <1>5, <1>9, TakesNumbered DEF IInv
<1>11. ASSUME NEW k \in Markets \ clash' PROVE Serial(k)'
  BY <1>2, <1>3, <1>4, <1>8, TakesSerial
<1> QED BY <1>10, <1>11

\* What a process does on its own market leaves the others serial.
LEMMA Elsewhere ==
  ASSUME IInv, NEW w \in Workers, NEW m \in Markets, m # worker[w].market, Serial(m),
         worker'[w].market # m, \A v \in Workers \ {w} : worker'[v] = worker[v],
         files'[m] = files[m], Kept(m)' = Kept(m),
         \A c \in AllComments : c.market = m => (c \in removed' <=> c \in removed)
  PROVE  Serial(m)'
<1>1. \A v \in Workers : worker'[v].market = m => v # w /\ worker'[v] = worker[v]
  OBVIOUS
<1>2. \A v \in Workers : worker[v].market = m => v # w /\ worker'[v] = worker[v]
  OBVIOUS
<1>3. Readable(m)' = Readable(m)
  BY DEF Readable
<1>4. \A v, u \in Workers : worker'[v].market = m /\ worker'[u].market = m => v = u
  BY <1>1 DEF Serial
<1>5. (\A v \in Workers : worker'[v].market = m => worker'[v].pc # "open")
        => Readable(m)' /\ files'[m].list = Kept(m)'
  BY <1>2, <1>3 DEF Serial
<1>6. ASSUME NEW v \in Workers, worker'[v].market = m
      PROVE  /\ Agrees(worker'[v].request, worker'[v].list, Kept(m)', removed')
             /\ worker'[v].pc = "open" => files'[m] = Empty
  <2>1. worker'[v] = worker[v] /\ worker[v].market = m
    BY <1>1, <1>6
  <2>2. worker[v] # Idle
    BY <2>1, IdleFields, CommentsAssumption
  <2>3. worker[v].request.comment \in AllComments
    BY <2>2, JobParts, RequestParts DEF IInv
  <2>4. worker[v].request.comment.market = m
    BY <2>1, <2>2 DEF IInv, Numbered
  <2>5. /\ Agrees(worker[v].request, worker[v].list, Kept(m), removed)
        /\ worker[v].pc = "open" => files[m] = Empty
    BY <2>1 DEF Serial
  <2>6. Agrees(worker[v].request, worker[v].list, Kept(m)', removed')
    BY <2>3, <2>4, <2>5 DEF Agrees
  <2> QED BY <2>1, <2>5, <2>6
<1> QED BY <1>4, <1>5, <1>6 DEF Serial

\* Opening the file keeps the invariant: the list in hand is what it was.
LEMMA OpenSafe ==
  ASSUME IInv, NEW w \in Workers, Open(w)
  PROVE  Numbered' /\ \A k \in Markets \ clash' : Serial(k)'
<1> DEFINE m == worker[w].market
<1>1. worker[w] # Idle /\ TypeOK
  BY BusyOrIdle DEF Open, IInv
<1>2. worker[w] \in Jobs /\ m \in Markets
  BY <1>1, JobParts
<1>3. worker'[w] = [worker[w] EXCEPT !.pc = "open"]
  BY DEF Open, TypeOK, IInv
<1>4. /\ worker'[w].pc = "open"
      /\ worker'[w].market = m
      /\ worker'[w].request = worker[w].request
      /\ worker'[w].list = worker[w].list
  BY <1>2, <1>3 DEF Jobs
<1>5. \A v \in Workers \ {w} : worker'[v] = worker[v]
  BY DEF Open, TypeOK, IInv
<1>6. files'[m] = Empty /\ \A k \in Markets \ {m} : files'[k] = files[k]
  BY <1>2 DEF Open, TypeOK, IInv
<1>7. UNCHANGED <<count, posted, removed, clash>> /\ \A k \in Markets : Kept(k)' = Kept(k)
  BY DEF Open, Kept
<1> HIDE DEF m
<1>8. Numbered'
  <2>1. \A k \in Markets : \A c \in files'[k].list : c.id <= count
    BY <1>6, ContentsFields DEF IInv, Numbered
  <2>2. ASSUME NEW v \in Workers, worker'[v] # Idle
        PROVE  /\ worker'[v].request.comment.id <= count
               /\ worker'[v].request.comment.market = worker'[v].market
               /\ \A c \in worker'[v].list : c.id <= count
    BY <1>1, <1>4, <1>5, <2>2 DEF IInv, Numbered, m
  <2> QED BY <1>7, <2>1, <2>2 DEF IInv, Numbered
<1>9. ASSUME NEW k \in Markets \ clash' PROVE Serial(k)'
  <2>1. Serial(k)
    BY <1>7 DEF IInv
  <2>2. CASE k # m
    BY <1>4, <1>5, <1>6, <1>7, <2>1, <2>2, Elsewhere DEF m
  <2>3. CASE k = m
    <3>1. \A v \in Workers : worker[v].market = k => v = w
      BY <2>1, <2>3 DEF Serial, m
    <3>2. \A v \in Workers : worker'[v].market = k => v = w
      BY <1>5, <3>1
    <3>3. Agrees(worker'[w].request, worker'[w].list, Kept(k)', removed')
      BY <1>4, <1>7, <2>1, <2>3 DEF Serial, m
    <3> QED BY <1>4, <1>6, <2>3, <3>2, <3>3 DEF Serial
  <2> QED BY <2>2, <2>3
<1> QED BY <1>8, <1>9

\* Answering keeps the invariant: the file becomes what is then kept.
LEMMA AnswerSafe ==
  ASSUME IInv, NEW w \in Workers, Answer(w)
  PROVE  Numbered' /\ \A k \in Markets \ clash' : Serial(k)'
<1> DEFINE m == worker[w].market
           r == worker[w].request
           list == worker[w].list
<1>1. worker[w] # Idle /\ TypeOK
  BY BusyOrIdle DEF Answer, IInv
<1>2. m \in Markets /\ r \in Requests /\ list \in SUBSET AllComments
  BY <1>1, JobParts
<1>3. r.comment \in AllComments /\ r.comment.market = m /\ r.comment.id <= count
  BY <1>1, <1>2, RequestParts DEF IInv, Numbered
<1>4. worker'[w] = Idle /\ \A v \in Workers \ {w} : worker'[v] = worker[v]
  BY DEF Answer, TypeOK, IInv
<1>5. /\ \/ files'[m] = Json(list)
         \/ files[m] # Empty /\ files'[m] = Torn
      /\ \A k \in Markets \ {m} : files'[k] = files[k]
  BY <1>2 DEF Answer, Written, TypeOK, IInv
<1>6. /\ r.op = "post" => posted' = posted \cup {r.comment} /\ removed' = removed
      /\ r.op # "post" => /\ posted' = posted
                          /\ removed' = IF ByAuthor(r) THEN removed \cup {r.comment}
                                        ELSE removed
  BY DEF Answer
<1>7. UNCHANGED <<count, clash>>
  BY DEF Answer
<1>8. worker[w].pc = "open"
  BY DEF Answer
<1> HIDE DEF m, r, list
<1>9. Numbered'
  <2>1. \A c \in files'[m].list : c.id <= count
    <3>1. \A c \in list : c.id <= count
      BY <1>1 DEF IInv, Numbered, list
    <3> QED BY <1>2, <1>5, <3>1, ContentsFields
  <2>2. \A k \in Markets : \A c \in files'[k].list : c.id <= count
    BY <1>5, <2>1 DEF IInv, Numbered
  <2>3. \A v \in Workers : worker'[v] # Idle =>
          /\ worker'[v].request.comment.id <= count
          /\ worker'[v].request.comment.market = worker'[v].market
          /\ \A c \in worker'[v].list : c.id <= count
    BY <1>4 DEF IInv, Numbered
  <2>4. \A c \in removed' : c.id <= count
    BY <1>3, <1>6 DEF IInv, Numbered
  <2> QED BY <1>7, <2>2, <2>3, <2>4 DEF Numbered
<1>10. ASSUME NEW k \in Markets \ clash' PROVE Serial(k)'
  <2>1. Serial(k)
    BY <1>7 DEF IInv
  <2>2. CASE k # m
    <3>1. Kept(k)' = Kept(k)
      BY <1>3, <1>6, <2>2 DEF Kept
    <3>2. \A c \in AllComments : c.market = k => (c \in removed' <=> c \in removed)
      BY <1>3, <1>6, <2>2
    <3>3. worker'[w].market # k
      BY <1>4, IdleFields, CommentsAssumption
    <3> QED BY <1>4, <1>5, <2>1, <2>2, <3>1, <3>2, <3>3, Elsewhere DEF m
  <2>3. CASE k = m
    <3>1. \A v \in Workers : worker[v].market = k => v = w
      BY <2>1, <2>3 DEF Serial, m
    <3>2. \A v \in Workers : worker'[v].market # k
      BY <1>4, <3>1, IdleFields, CommentsAssumption
    <3>3. files'[k] = Json(list)
      BY <1>5, <1>8, <2>1, <2>3 DEF Serial, m
    <3>4. Agrees(r, list, Kept(k), removed)
      BY <2>1, <2>3 DEF Serial, m, r, list
    <3>5. list = Kept(k)'
      <4>1. CASE r.op = "post"
        BY <1>3, <1>6, <2>3, <3>4, <4>1 DEF Agrees, Kept
      <4>2. CASE r.op # "post"
        BY <1>3, <1>6, <2>3, <3>4, <4>2 DEF Agrees, Kept
      <4> QED BY <4>1, <4>2
    <3>6. Readable(k)' /\ files'[k].list = list
      BY <1>2, <3>3, ContentsFields DEF Readable
    <3> QED BY <3>2, <3>5, <3>6 DEF Serial
  <2> QED BY <2>2, <2>3
<1> QED BY <1>9, <1>10

\* A crash keeps the invariant: its market counts no longer.
LEMMA CrashSafe ==
  ASSUME IInv, NEW w \in Workers, Crash(w)
  PROVE  Numbered' /\ \A k \in Markets \ clash' : Serial(k)'
<1> DEFINE m == worker[w].market
<1>1. worker[w] # Idle /\ TypeOK
  BY DEF Crash, IInv
<1>2. m \in Markets /\ worker[w].list \in SUBSET AllComments
  BY <1>1, JobParts
<1>3. worker'[w] = Idle /\ \A v \in Workers \ {w} : worker'[v] = worker[v]
  BY DEF Crash, TypeOK, IInv
<1>4. /\ files'[m] \in {files[m], Json(worker[w].list), Torn}
      /\ \A k \in Markets \ {m} : files'[k] = files[k]
  BY <1>2 DEF Crash, TypeOK, IInv
<1>5. /\ UNCHANGED <<count, posted, removed>> /\ clash' = clash \cup {m}
      /\ \A k \in Markets : Kept(k)' = Kept(k)
  BY DEF Crash, Kept
<1> HIDE DEF m
<1>6. Numbered'
  <2>1. \A c \in worker[w].list : c.id <= count
    BY <1>1 DEF IInv, Numbered
  <2>2. \A k \in Markets : \A c \in files'[k].list : c.id <= count
    BY <1>2, <1>4, <2>1, ContentsFields DEF IInv, Numbered
  <2>3. \A v \in Workers : worker'[v] # Idle =>
          /\ worker'[v].request.comment.id <= count
          /\ worker'[v].request.comment.market = worker'[v].market
          /\ \A c \in worker'[v].list : c.id <= count
    BY <1>3 DEF IInv, Numbered
  <2> QED BY <1>5, <2>2, <2>3 DEF IInv, Numbered
<1>7. ASSUME NEW k \in Markets \ clash' PROVE Serial(k)'
  <2>1. Serial(k) /\ k # m
    BY <1>5 DEF IInv
  <2>2. worker'[w].market # k
    BY <1>3, IdleFields, CommentsAssumption
  <2> QED BY <1>3, <1>4, <1>5, <2>1, <2>2, Elsewhere DEF m
<1> QED BY <1>6, <1>7

\* Init establishes the invariant.
LEMMA InitSafe == Init => IInv
<1> SUFFICES ASSUME Init PROVE IInv
  OBVIOUS
<1>1. TypeOK
  BY InitTyped
<1>2. /\ \A m \in Markets : files[m] = Absent
      /\ \A w \in Workers : worker[w] = Idle
      /\ removed = {} /\ posted = {}
  BY DEF Init
<1>3. Numbered
  BY <1>2, ContentsFields DEF Numbered
<1>4. \A m \in Markets : Serial(m)
  BY <1>2, ContentsFields, IdleFields, CommentsAssumption DEF Serial, Readable, Kept
<1> QED BY <1>1, <1>3, <1>4 DEF IInv

\* Every step keeps it.
LEMMA NextSafe == IInv /\ [Next]_vars => IInv'
<1> SUFFICES ASSUME IInv, [Next]_vars PROVE IInv'
  OBVIOUS
<1>1. TypeOK'
  BY NextTyped DEF IInv
<1>2. ASSUME UNCHANGED vars PROVE IInv'
  BY <1>1, <1>2 DEF IInv, Numbered, Serial, Agrees, Kept, Readable, vars
<1>3. ASSUME NEW w \in Workers, NEW m \in Markets, NEW a \in Wallets, Post(w, m, a)
      PROVE  IInv'
  BY <1>1, <1>3, PostSafe DEF IInv
<1>4. ASSUME NEW w \in Workers, NEW m \in Markets, NEW a \in Wallets,
             NEW c \in files[m].list, Delete(w, c, a)
      PROVE  IInv'
  BY <1>1, <1>4, DeleteSafe DEF IInv
<1>5. ASSUME NEW w \in Workers, Refuse(w) PROVE IInv'
  BY <1>2, <1>5 DEF Refuse
<1>6. ASSUME NEW w \in Workers, Open(w) \/ Answer(w) \/ Crash(w) PROVE IInv'
  BY <1>1, <1>6, OpenSafe, AnswerSafe, CrashSafe DEF IInv
<1> QED BY <1>2, <1>3, <1>4, <1>5, <1>6 DEF Next

\* The invariant says what CommentsKept says of a market that nobody is at.
LEMMA SafeKept == IInv => CommentsKept
<1> SUFFICES ASSUME IInv, NEW m \in Markets, m \notin clash, ~Busy(m)
             PROVE  Readable(m) /\ files[m].list = {c \in posted : c.market = m} \ removed
  BY DEF CommentsKept
<1> QED BY DEF IInv, Serial, Busy, Kept

\* Without overlaps and crashes on a market, its list is what was posted there
\* and not deleted by its author.
THEOREM CommentsAreKept == Spec => []CommentsKept
BY InitSafe, NextSafe, SafeKept, PTL DEF Spec

-----------------------------------------------------------------------------
(* Each market has a file of its own *)

\* A process as it is seen from a market.
Seen(j, m) ==
  [pc |-> IF j.market = m THEN j.pc ELSE "idle",
   request |-> IF j.market = m THEN j.request ELSE NoMarket,
   list |-> IF j.market = m THEN j.list ELSE {}]

\* An idle process is idle everywhere, and a busy one at its market.
LEMMA SeenFields ==
  /\ \A j : \A m \in Markets : j.market # m => Seen(j, m) = File(m)!Idle
  /\ \A pc, r, list : \A m \in Markets :
       LET j == Job(pc, m, r, list) IN Seen(j, m) = File(m)!Job(pc, r, list)
BY DEF Seen, Job, File!Idle, File!Job

\* What one process does is seen as that, and at other markets as nothing.
LEMMA SeenStep ==
  ASSUME NEW w \in Workers, NEW m \in Markets,
         \A v \in Workers \ {w} : worker'[v] = worker[v]
  PROVE  /\ On(m)' = [On(m) EXCEPT ![w] = Seen(worker'[w], m)]
         /\ Seen(worker[w], m) = Seen(worker'[w], m) => On(m)' = On(m)
<1>1. /\ On(m) = [v \in Workers |-> Seen(worker[v], m)]
      /\ On(m)' = [v \in Workers |-> Seen(worker'[v], m)]
  BY DEF On, Seen
<1> QED BY <1>1

\* What happens to the file of a market, in a step of one process.
FileStep(m, w) ==
  \/ /\ File(m)!Load(w, On(m)'[w].request, On(m)'[w].list)
     /\ On(m)'[w].request.comment.market = m
  \/ File(m)!Open(w) \/ File(m)!Close(w) \/ File(m)!Die(w)

\* A process that takes a request on reads one file.
LEMMA TakesOneFile ==
  ASSUME TypeOK, NEW w \in Workers, NEW r \in Requests, NEW list \in SUBSET AllComments,
         Takes(w, r.comment.market, r, list), NEW m \in Markets
  PROVE  UNCHANGED <<files[m], On(m)>> \/ FileStep(m, w)
<1> DEFINE k == r.comment.market
           j == Job("loaded", k, r, list)
<1>1. k \in Markets
  BY DEF Requests, AllComments
<1>2. /\ worker'[w] = j /\ \A v \in Workers \ {w} : worker'[v] = worker[v]
      /\ files' = files
  BY DEF Takes, TypeOK
<1>3. worker[w] = Idle
  BY DEF Takes
<1>4. worker[w].market # m
  BY <1>3, IdleFields, CommentsAssumption
<1>5. Seen(worker[w], m) = File(m)!Idle
  BY <1>4, SeenFields
<1>6. j.market = k
  BY <1>1, JobFields
<1>7. CASE k # m
  <2>1. Seen(j, m) = File(m)!Idle
    BY <1>6, <1>7, SeenFields
  <2>2. On(m)' = On(m)
    BY <1>2, <1>5, <2>1, SeenStep
  <2> QED BY <1>2, <2>2
<1>8. CASE k = m
  <2>1. Seen(j, m) = File(m)!Job("loaded", r, list)
    BY <1>8, SeenFields
  <2>2. On(m)' = [On(m) EXCEPT ![w] = File(m)!Job("loaded", r, list)]
    BY <1>2, <2>1, SeenStep
  <2>3. On(m)'[w] = File(m)!Job("loaded", r, list)
    BY <2>2 DEF On
  <2>4. On(m)'[w].request = r /\ On(m)'[w].list = list
    BY <2>3 DEF File!Job
  <2>5. On(m)[w].pc = "idle"
    BY <1>4 DEF On
  <2>6. File(m)!Readable
    BY <1>8 DEF Takes, Readable, File!Readable
  <2>7. File(m)!Load(w, r, list)
    BY <1>2, <2>2, <2>5, <2>6 DEF File!Load
  <2> QED BY <1>8, <2>4, <2>7 DEF FileStep
<1> QED BY <1>7, <1>8

\* A process that opens a file opens that of its market.
LEMMA OpenOneFile ==
  ASSUME TypeOK, NEW w \in Workers, Open(w), NEW m \in Markets
  PROVE  UNCHANGED <<files[m], On(m)>> \/ FileStep(m, w)
<1> DEFINE k == worker[w].market
           r == worker[w].request
           list == worker[w].list
           j == [worker[w] EXCEPT !.pc = "open"]
<1>1. worker[w] \in Jobs /\ k \in Markets
  BY BusyOrIdle, JobParts DEF Open
<1>2. /\ worker'[w] = j /\ \A v \in Workers \ {w} : worker'[v] = worker[v]
      /\ files' = [files EXCEPT ![k] = Empty]
  BY DEF Open, TypeOK
<1>3. j.pc = "open" /\ j.market = k /\ j.request = r /\ j.list = list
  BY <1>1 DEF Jobs
<1>4. worker[w].pc = "loaded"
  BY DEF Open
<1>5. CASE k # m
  <2>1. Seen(j, m) = Seen(worker[w], m)
    BY <1>3, <1>5, SeenFields
  <2>2. On(m)' = On(m)
    BY <1>2, <2>1, SeenStep
  <2>3. files'[m] = files[m]
    BY <1>2, <1>5 DEF TypeOK
  <2> QED BY <2>2, <2>3
<1>6. CASE k = m
  <2>1. Seen(j, m) = File(m)!Job("open", r, list)
    BY <1>3, <1>6 DEF Seen, File!Job
  <2>2. On(m)' = [On(m) EXCEPT ![w] = File(m)!Job("open", r, list)]
    BY <1>2, <2>1, SeenStep
  <2>3. On(m)[w].pc = "loaded" /\ On(m)[w].request = r /\ On(m)[w].list = list
    BY <1>4, <1>6 DEF On
  <2>4. files'[m] = File(m)!Empty
    BY <1>2, <1>6 DEF TypeOK, Empty, File!Empty
  <2>5. File(m)!Open(w)
    BY <2>2, <2>3, <2>4 DEF File!Open
  <2> QED BY <2>5 DEF FileStep
<1> QED BY <1>5, <1>6

\* A process that answers writes the file of its market.
LEMMA AnswerOneFile ==
  ASSUME TypeOK, NEW w \in Workers, Answer(w), NEW m \in Markets
  PROVE  UNCHANGED <<files[m], On(m)>> \/ FileStep(m, w)
<1> DEFINE k == worker[w].market
           list == worker[w].list
<1>1. k \in Markets
  BY BusyOrIdle DEF Answer
<1>2. /\ worker'[w] = Idle /\ \A v \in Workers \ {w} : worker'[v] = worker[v]
      /\ worker[w].pc = "open"
  BY DEF Answer, TypeOK
<1>3. \/ files' = [files EXCEPT ![k] = Json(list)]
      \/ files[k] # Empty /\ files' = [files EXCEPT ![k] = Torn]
  BY DEF Answer, Written
<1>4. Seen(Idle, m) = File(m)!Idle
  BY SeenFields, IdleFields, CommentsAssumption
<1>5. CASE k # m
  <2>1. Seen(worker[w], m) = Seen(Idle, m)
    BY <1>4, <1>5, SeenFields
  <2>2. On(m)' = On(m)
    BY <1>2, <2>1, SeenStep
  <2>3. files'[m] = files[m]
    BY <1>3, <1>5 DEF TypeOK
  <2> QED BY <2>2, <2>3
<1>6. CASE k = m
  <2>1. On(m)' = [On(m) EXCEPT ![w] = File(m)!Idle]
    BY <1>2, <1>4, SeenStep
  <2>2. On(m)[w].pc = "open" /\ On(m)[w].list = list
    BY <1>2, <1>6 DEF On
  <2>3. \/ files'[m] = File(m)!Json(list)
        \/ files[m] # File(m)!Empty /\ files'[m] = File(m)!Torn
    BY <1>3, <1>6 DEF TypeOK, Json, Empty, Torn, File!Json, File!Empty, File!Torn
  <2>4. File(m)!Close(w)
    BY <2>1, <2>2, <2>3 DEF File!Close
  <2> QED BY <2>4 DEF FileStep
<1> QED BY <1>5, <1>6

\* A process that is killed leaves the other files alone.
LEMMA CrashOneFile ==
  ASSUME TypeOK, NEW w \in Workers, Crash(w), NEW m \in Markets
  PROVE  UNCHANGED <<files[m], On(m)>> \/ FileStep(m, w)
<1> DEFINE k == worker[w].market
           list == worker[w].list
<1>1. worker[w] # Idle
  BY DEF Crash
<1>2. k \in Markets /\ worker[w].pc \in {"loaded", "open"}
  BY <1>1, JobParts
<1>3. worker'[w] = Idle /\ \A v \in Workers \ {w} : worker'[v] = worker[v]
  BY DEF Crash, TypeOK
<1>4. \/ files' = files
      \/ /\ worker[w].pc = "open"
         /\ \/ files' = [files EXCEPT ![k] = Json(list)]
            \/ files' = [files EXCEPT ![k] = Torn]
  BY DEF Crash
<1>5. Seen(Idle, m) = File(m)!Idle
  BY SeenFields, IdleFields, CommentsAssumption
<1>6. CASE k # m
  <2>1. Seen(worker[w], m) = Seen(Idle, m)
    BY <1>5, <1>6, SeenFields
  <2>2. On(m)' = On(m)
    BY <1>3, <2>1, SeenStep
  <2>3. files'[m] = files[m]
    BY <1>4, <1>6 DEF TypeOK
  <2> QED BY <2>2, <2>3
<1>7. CASE k = m
  <2>1. On(m)' = [On(m) EXCEPT ![w] = File(m)!Idle]
    BY <1>3, <1>5, SeenStep
  <2>2. On(m)[w].pc = worker[w].pc /\ On(m)[w].list = list
    BY <1>7 DEF On
  <2>3. \/ files'[m] = files[m]
        \/ /\ worker[w].pc = "open"
           /\ files'[m] \in {File(m)!Json(list), File(m)!Torn}
    BY <1>4, <1>7 DEF TypeOK, Json, Torn, File!Json, File!Torn
  <2>4. File(m)!Die(w)
    BY <1>2, <2>1, <2>2, <2>3 DEF File!Die
  <2> QED BY <2>4 DEF FileStep
<1> QED BY <1>6, <1>7

\* Every step is a step of each file, or leaves it alone.
LEMMA NextOneFile ==
  ASSUME TypeOK, [Next]_vars, NEW m \in Markets
  PROVE  UNCHANGED <<files[m], On(m)>> \/ \E w \in Workers : FileStep(m, w)
<1>1. ASSUME UNCHANGED vars PROVE UNCHANGED <<files[m], On(m)>>
  BY <1>1 DEF vars, On
<1>2. ASSUME NEW w \in Workers, NEW k \in Markets, NEW a \in Wallets, Post(w, k, a)
      PROVE  UNCHANGED <<files[m], On(m)>> \/ FileStep(m, w)
  <2> DEFINE c == Comment(count + 1, k, a)
             r == Request("post", c, a)
             list == files[k].list \cup {c}
  <2>1. c \in AllComments /\ c.market = k
    BY CommentFields DEF TypeOK
  <2>2. r \in Requests /\ r.comment = c
    BY <2>1, RequestFields
  <2>3. list \in SUBSET AllComments
    BY <2>1 DEF TypeOK, Contents
  <2>4. Takes(w, k, r, list)
    BY <1>2 DEF Post
  <2> HIDE DEF c, r, list
  <2> QED BY <2>1, <2>2, <2>3, <2>4, TakesOneFile
<1>3. ASSUME NEW w \in Workers, NEW k \in Markets, NEW a \in Wallets,
             NEW c \in files[k].list, Delete(w, c, a)
      PROVE  UNCHANGED <<files[m], On(m)>> \/ FileStep(m, w)
  <2> DEFINE r == Request("delete", c, a)
             list == files[c.market].list \ {c}
  <2>1. c \in AllComments /\ c.market \in Markets
    BY DEF TypeOK, Contents, AllComments
  <2>2. r \in Requests /\ r.comment = c
    BY <2>1, RequestFields
  <2>3. list \in SUBSET AllComments
    BY <2>1 DEF TypeOK, Contents
  <2>4. Takes(w, c.market, r, list)
    BY <1>3 DEF Delete
  <2> HIDE DEF r, list
  <2> QED BY <2>2, <2>3, <2>4, TakesOneFile
<1>4. ASSUME NEW w \in Workers, Refuse(w) PROVE UNCHANGED <<files[m], On(m)>>
  BY <1>1, <1>4 DEF Refuse
<1>5. ASSUME NEW w \in Workers, Open(w) \/ Answer(w) \/ Crash(w)
      PROVE  UNCHANGED <<files[m], On(m)>> \/ FileStep(m, w)
  BY <1>5, OpenOneFile, AnswerOneFile, CrashOneFile
<1> QED BY <1>1, <1>2, <1>3, <1>4, <1>5 DEF Next

\* What happens on each market is what happens to a JSON file of its own.
THEOREM MarketsHaveTheirFiles == Spec => OneFileEach
<1>1. TypeOK /\ [Next]_vars =>
        [\A m \in Markets :
           \/ UNCHANGED <<files[m], On(m)>>
           \/ \E w \in Workers :
                \/ /\ File(m)!Load(w, On(m)'[w].request, On(m)'[w].list)
                   /\ On(m)'[w].request.comment.market = m
                \/ File(m)!Open(w) \/ File(m)!Close(w) \/ File(m)!Die(w)]_vars
  BY NextOneFile DEF FileStep
<1> QED BY <1>1, TypeCorrect, PTL DEF Spec, OneFileEach
=============================================================================
