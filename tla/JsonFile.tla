------------------------------ MODULE JsonFile -------------------------------
(***************************************************************************)
(* A list of records in a JSON file that several worker processes read,    *)
(* change and write back, as chain/prediction_deployer.py does with the    *)
(* registry of markets.                                                    *)
(*                                                                         *)
(* A request does not await between reading and closing the file, so one   *)
(* process handles one at a time.  Nothing locks the file: the other       *)
(* processes see it between any two of load, open("w"), which truncates,   *)
(* and the flush of what was dumped.  A list is the set of its records,    *)
(* which carry their order themselves.                                     *)
(***************************************************************************)
EXTENDS Naturals

CONSTANTS
  Workers,   \* processes that share the file
  NoRequest  \* what an idle process works on

VARIABLES
  file,   \* contents of the file, see Contents
  worker  \* the request each process is in the middle of, see Jobs

-----------------------------------------------------------------------------
\* Nothing parses an "empty" file or a "torn" one, which was written in part or
\* by two processes at once.
Contents(Records) ==
  [kind : {"absent", "empty", "torn", "json"}, list : SUBSET Records]

Json(list) == [kind |-> "json", list |-> list]
Absent == [kind |-> "absent", list |-> {}]
Empty == [kind |-> "empty", list |-> {}]
Torn == [kind |-> "torn", list |-> {}]

\* A process with no request, with a new list in hand, with the file open.
Jobs(Requests, Records) ==
  [pc : {"idle", "loaded", "open"}, request : Requests \cup {NoRequest},
   list : SUBSET Records]

Job(pc, request, list) == [pc |-> pc, request |-> request, list |-> list]

Idle == Job("idle", NoRequest, {})

\* json.load() raises for anything else, and the request ends there.
Readable == file.kind \in {"absent", "json"}

\* As Load, for a file that counts as empty when it cannot be read.
LoadAnyway(w, request, list) ==
  /\ worker[w].pc = "idle"
  /\ worker' = [worker EXCEPT ![w] = Job("loaded", request, list)]
  /\ UNCHANGED file

\* The request read the file, a missing one as no records, and worked out the
\* list to write.
Load(w, request, list) ==
  /\ worker[w].pc = "idle"
  /\ Readable
  /\ worker' = [worker EXCEPT ![w] = Job("loaded", request, list)]
  /\ UNCHANGED file

\* open("w")
Open(w) ==
  /\ worker[w].pc = "loaded"
  /\ worker' = [worker EXCEPT ![w] = Job("open", worker[w].request, worker[w].list)]
  /\ file' = Empty

\* The dump is flushed from the start of the file.  What another process wrote
\* since our open() stays behind its end if that was the longer text.
Close(w) ==
  /\ worker[w].pc = "open"
  /\ worker' = [worker EXCEPT ![w] = Idle]
  /\ \/ file' = Json(worker[w].list)
     \/ file # Empty /\ file' = Torn

\* The process is killed, with nothing, a part, or all of the dump written.
Die(w) ==
  /\ worker[w].pc # "idle"
  /\ worker' = [worker EXCEPT ![w] = Idle]
  /\ \/ UNCHANGED file
     \/ worker[w].pc = "open" /\ file' \in {Json(worker[w].list), Torn}
=============================================================================
