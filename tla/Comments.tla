------------------------------- MODULE Comments ------------------------------
(***************************************************************************)
(* The comments on prediction markets, api/v1/comments.py: one JSON file   *)
(* for each market, which the worker processes read, change and write back *)
(* like the registry of markets (JsonFile), without a lock.                *)
(*                                                                         *)
(* A request awaits nothing, so a process is in the middle of one at most. *)
(* Reading is one step; write_text() opens the file, which empties it, and *)
(* then writes.  Of a comment the text is left out, and its position: a    *)
(* list is sorted by the time of posting when it is read.                  *)
(***************************************************************************)
EXTENDS Naturals

CONSTANTS
  Workers,    \* processes that share the files
  Markets,    \* market ids, of which any integer is one
  Wallets,    \* wallets as tokens spell them
  Person,     \* whose each is: lower() of the spelling
  NoMarket,   \* what a process without a request is at
  MaxPosts    \* bound on the comments that are posted

ASSUME CommentsAssumption ==
  /\ NoMarket \notin Markets
  /\ MaxPosts \in Nat

VARIABLES
  files,    \* contents of the file of each market
  worker,   \* the request each process is in the middle of
  count,    \* comments posted so far
  posted,   \* history: the comments whose posting was answered
  removed,  \* history: the comments whose deletion by their author was answered
  clash     \* history: markets where requests overlapped or one was cut short

vars == <<files, worker, count, posted, removed, clash>>

-----------------------------------------------------------------------------
AllComments == [id : Nat, market : Markets, wallet : Wallets]

\* As Comment, with the arguments in the wrong order.
CommentSwapped(id, m, a) == [id |-> id, market |-> a, wallet |-> m]

Comment(id, m, a) == [id |-> id, market |-> m, wallet |-> a]

Contents == [kind : {"absent", "empty", "torn", "json"}, list : SUBSET AllComments]

Json(list) == [kind |-> "json", list |-> list]
Absent == [kind |-> "absent", list |-> {}]
Empty == [kind |-> "empty", list |-> {}]
Torn == [kind |-> "torn", list |-> {}]

\* A request: "post" or "delete" of a comment by a wallet.
Requests == [op : {"post", "delete"}, comment : AllComments, by : Wallets]

ByAuthor(r) == Person[r.by] = Person[r.comment.wallet]

Request(op, c, a) == [op |-> op, comment |-> c, by |-> a]

\* A process that has read the file of a market, or opened it to write `list`.
Jobs ==
  [pc : {"loaded", "open"}, market : Markets, request : Requests,
   list : SUBSET AllComments]

Job(pc, m, r, list) == [pc |-> pc, market |-> m, request |-> r, list |-> list]

Idle == [pc |-> "idle", market |-> NoMarket, list |-> {}]

\* json.loads() raises for anything else, and the request ends there.
Readable(m) == files[m].kind \in {"absent", "json"}

\* A process is in the middle of a request on market m.
Busy(m) == \E w \in Workers : worker[w].market = m

Init ==
  /\ files = [m \in Markets |-> Absent]
  /\ worker = [w \in Workers |-> Idle]
  /\ count = 0
  /\ posted = {}
  /\ removed = {}
  /\ clash = {}

-----------------------------------------------------------------------------
\* A request read the file of market m and will write `list` in its place.
Takes(w, m, r, list) ==
  /\ worker[w] = Idle
  /\ Readable(m)
  /\ worker' = [worker EXCEPT ![w] = Job("loaded", m, r, list)]
  /\ clash' = IF Busy(m) THEN clash \cup {m} ELSE clash
  /\ UNCHANGED <<files, posted, removed>>

\* post_comment() with its new comment.
Post(w, m, a) ==
  LET c == Comment(count + 1, m, a) IN
  /\ count < MaxPosts
  /\ count' = count + 1
  /\ Takes(w, m, Request("post", c, a), files[m].list \cup {c})

\* As MayDelete, with nobody turned away.
AnybodyMayDelete(c, a) == c.wallet \in Wallets /\ a \in Wallets

\* "Not your comment", unless the wallets differ in case only.
MayDelete(c, a) == Person[c.wallet] = Person[a]

\* As Delete, writing to the first file that was searched.
DeleteElsewhere(w, c, a) ==
  \E m \in Markets :
    /\ c \in files[c.market].list
    /\ MayDelete(c, a)
    /\ Takes(w, m, Request("delete", c, a), files[c.market].list \ {c})
    /\ UNCHANGED count

\* delete_comment() finds the comment: the files come in any order, so that
\* this one may be the first that is read.
Delete(w, c, a) ==
  /\ c \in files[c.market].list
  /\ MayDelete(c, a)
  /\ Takes(w, c.market, Request("delete", c, a), files[c.market].list \ {c})
  /\ UNCHANGED count

\* A list, which is only read, a comment that is not found or not the caller's,
\* or a file that nothing can be read from: that of the market, or of any market
\* that a deletion searches on its way.
Refuse(w) ==
  /\ worker[w] = Idle
  /\ UNCHANGED vars

\* write_text() opens the file.
Open(w) ==
  /\ worker[w].pc = "loaded"
  /\ worker' = [worker EXCEPT ![w].pc = "open"]
  /\ files' = [files EXCEPT ![worker[w].market] = Empty]
  /\ UNCHANGED <<count, posted, removed, clash>>

\* It writes from the start of the file: what another process wrote since stays
\* behind the end of a shorter text.
Written(w) ==
  LET m == worker[w].market IN
  \/ files' = [files EXCEPT ![m] = Json(worker[w].list)]
  \/ files[m] # Empty /\ files' = [files EXCEPT ![m] = Torn]

\* The file is closed and the request answered.
Answer(w) ==
  LET r == worker[w].request IN
  /\ worker[w].pc = "open"
  /\ Written(w)
  /\ worker' = [worker EXCEPT ![w] = Idle]
  /\ IF r.op = "post"
     THEN posted' = posted \cup {r.comment} /\ UNCHANGED removed
     ELSE /\ removed' = IF ByAuthor(r) THEN removed \cup {r.comment} ELSE removed
          /\ UNCHANGED posted
  /\ UNCHANGED <<count, clash>>

\* The process is killed with nothing, a part, or all of the text written.
Crash(w) ==
  LET m == worker[w].market IN
  /\ worker[w] # Idle
  /\ worker' = [worker EXCEPT ![w] = Idle]
  /\ \/ UNCHANGED files
     \/ /\ worker[w].pc = "open"
        /\ \E contents \in {Json(worker[w].list), Torn} :
             files' = [files EXCEPT ![m] = contents]
  /\ clash' = clash \cup {m}
  /\ UNCHANGED <<count, posted, removed>>

Next ==
  \E w \in Workers :
    \/ \E m \in Markets, a \in Wallets : Post(w, m, a)
    \/ \E m \in Markets, a \in Wallets : \E c \in files[m].list : Delete(w, c, a)
    \/ Refuse(w) \/ Open(w) \/ Answer(w) \/ Crash(w)

Spec == Init /\ [][Next]_vars

-----------------------------------------------------------------------------
(* Properties *)

\* Every variable has its type.
TypeOK ==
  /\ files \in [Markets -> Contents]
  /\ worker \in [Workers -> Jobs \cup {Idle}]
  /\ count \in Nat
  /\ posted \in SUBSET AllComments
  /\ removed \in SUBSET AllComments
  /\ clash \in SUBSET Markets

\* As long as requests on a market do not overlap and none is cut short, its
\* list is what was posted and not deleted by its author, whatever happens to
\* other markets meanwhile: their overlaps, crashes and broken files included.
CommentsKept ==
  \A m \in Markets :
    m \notin clash /\ ~Busy(m) =>
      Readable(m) /\ files[m].list = {c \in posted : c.market = m} \ removed

\* What the processes do on market m, and the file as if it were the only one.
On(m) ==
  [w \in Workers |->
    [pc |-> IF worker[w].market = m THEN worker[w].pc ELSE "idle",
     request |-> IF worker[w].market = m THEN worker[w].request ELSE NoMarket,
     list |-> IF worker[w].market = m THEN worker[w].list ELSE {}]]

File(m) == INSTANCE JsonFile
  WITH file <- files[m], worker <- On(m), NoRequest <- NoMarket

\* What happens on each market is what happens to a JsonFile of its own: no
\* request on one market writes to the file of another, deletions that search
\* all of them included, and a file nothing can be read from is never replaced.
OneFileEach ==
  [][\A m \in Markets :
       \/ UNCHANGED <<files[m], On(m)>>
       \/ \E w \in Workers :
            \/ /\ File(m)!Load(w, On(m)'[w].request, On(m)'[w].list)
               /\ On(m)'[w].request.comment.market = m
            \/ File(m)!Open(w) \/ File(m)!Close(w) \/ File(m)!Die(w)]_vars
=============================================================================
