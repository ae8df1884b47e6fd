------------------------------ MODULE WsServer ------------------------------
(***************************************************************************)
(* The WebSocket server of src/app/api/ws/events.py inside one worker      *)
(* process: the ChannelManager (registry of clients and subscriptions),    *)
(* the MarketPoller (background task that broadcasts chain data) and the   *)
(* endpoint coroutine that serves one socket.                              *)
(*                                                                         *)
(* Everything runs on one asyncio loop, so an action is the code between   *)
(* two suspension points.  The manager's lock is never held across an      *)
(* await and so is never contended: the suspension points are ws.accept,   *)
(* ws.send_json, ws.receive_text, asyncio.sleep and `await self._task`.    *)
(* Reads of the chain are synchronous and block the loop.                  *)
(***************************************************************************)
EXTENDS Naturals, FiniteSets

CONSTANTS
  Clients,        \* identities of sockets; one is reused once nothing refers to it
  Tasks,          \* identities of poller tasks: bounds the tasks not yet collected
  NoTask,         \* self._task is None
  MaxMarketScan,  \* _MAX_MARKET_SCAN: market ids 1..MaxMarketScan are polled
  Subscriptions   \* the <<channels, market_ids>> that subscribe commands name

\* Channels that are broadcast; nothing is ever sent on "trades".
Channels == {"exchange_status", "market", "orderbook"}

ASSUME ConstantsAssumption ==
  /\ NoTask \notin Tasks
  /\ MaxMarketScan \in Nat
  /\ Subscriptions \subseteq (SUBSET Channels) \X (SUBSET (1..MaxMarketScan))

VARIABLES
  conn,        \* where the endpoint coroutine of each socket is suspended
  alive,       \* alive[c]: the peer's end of the socket is open
  clients,     \* keys of manager._clients
  channels,    \* ClientState.channels
  marketIds,   \* ClientState.market_ids
  quiet,       \* history: channels whose unsubscription c was told of last
  running,     \* poller._running
  task,        \* poller._task
  poll,        \* state of each poller task, see TaskStates
  cancelled,   \* tasks with a CancelledError pending
  waitsOn      \* task awaited by stop() in the coroutine of each socket

connVars == <<conn, alive, waitsOn>>
regVars == <<clients, channels, marketIds, quiet>>
pollVars == <<running, task, poll, cancelled>>
vars == <<conn, alive, waitsOn, clients, channels, marketIds, quiet,
          running, task, poll, cancelled>>

-----------------------------------------------------------------------------
\* A broadcast of a polling cycle: 0 is the heartbeat, 1..MaxMarketScan the
\* snapshot of that market, the last one the vault state.
Jobs == 0..(MaxMarketScan + 1)

ChannelOf(j) ==
  CASE j = 0 -> "exchange_status"
    [] j \in 1..MaxMarketScan -> "market"
    [] OTHER -> "orderbook"

\* Suspended in send_to (the welcome or a reply), or in receive_text.
Serving == {"reply", "receive"}

ConnStates == {"off", "accepting", "stopping"} \cup Serving

\* to: socket of the send in progress; targets: snapshot entries not looked
\* at yet; dead: sockets whose send raised in this broadcast; cycle: the cycle
\* counter modulo 2, all that the loop reads of it.
TaskStates ==
  [pc : {"ended", "created", "sending", "asleep"},
   job : Jobs,
   to : SUBSET Clients,
   targets : SUBSET Clients,
   dead : SUBSET Clients,
   cycle : {0, 1}]

NewTask == [pc |-> "created", job |-> 0, to |-> {}, targets |-> {},
            dead |-> {}, cycle |-> 0]

Ended == [NewTask EXCEPT !.pc = "ended"]

Live(t) == poll[t].pc # "ended"

\* A task object nothing refers to any more: its identity may be reused.
Free(t) == ~Live(t) /\ \A c \in Clients : waitsOn[c] # t

Init ==
  /\ conn = [c \in Clients |-> "off"]
  /\ alive = [c \in Clients |-> FALSE]
  /\ waitsOn = [c \in Clients |-> NoTask]
  /\ clients = {}
  /\ channels = [c \in Clients |-> {}]
  /\ marketIds = [c \in Clients |-> {}]
  /\ quiet = [c \in Clients |-> {}]
  /\ running = FALSE
  /\ task = NoTask
  /\ poll = [t \in Tasks |-> Ended]
  /\ cancelled = {}

-----------------------------------------------------------------------------
(* MarketPoller.start and MarketPoller.stop *)

Start ==
  \E t \in Tasks :
    /\ Free(t)
    /\ running' = TRUE
    /\ task' = t
    /\ poll' = [poll EXCEPT ![t] = NewTask]
    /\ UNCHANGED cancelled

\* Mutant of Stop: without the call of self._task.cancel().
StopWithoutCancel(c) ==
  /\ running' = FALSE
  /\ UNCHANGED <<task, poll, cancelled>>
  /\ IF task \in Tasks /\ Live(task)
     THEN /\ conn' = [conn EXCEPT ![c] = "stopping"]
          /\ waitsOn' = [waitsOn EXCEPT ![c] = task]
     ELSE /\ conn' = [conn EXCEPT ![c] = "off"]
          /\ UNCHANGED waitsOn

\* stop() up to its await.  Cancelling a finished task does nothing, and
\* awaiting it does not suspend.
Stop(c) ==
  /\ running' = FALSE
  /\ UNCHANGED <<task, poll>>
  /\ IF task \in Tasks /\ Live(task)
     THEN /\ cancelled' = cancelled \cup {task}
          /\ conn' = [conn EXCEPT ![c] = "stopping"]
          /\ waitsOn' = [waitsOn EXCEPT ![c] = task]
     ELSE /\ conn' = [conn EXCEPT ![c] = "off"]
          /\ UNCHANGED <<cancelled, waitsOn>>

-----------------------------------------------------------------------------
(* The endpoint coroutine of one socket *)

\* A peer connects.  The identity c must be one no broadcast still holds.
Connect(c) ==
  /\ conn[c] = "off"
  /\ \A t \in Tasks : c \notin poll[t].to \cup poll[t].targets \cup poll[t].dead
  /\ conn' = [conn EXCEPT ![c] = "accepting"]
  /\ alive' = [alive EXCEPT ![c] = TRUE]
  /\ UNCHANGED <<waitsOn, regVars, pollVars>>

\* The peer closes the socket, or the network loses it.
SocketDies(c) ==
  /\ alive[c]
  /\ alive' = [alive EXCEPT ![c] = FALSE]
  /\ UNCHANGED <<conn, waitsOn, regVars, pollVars>>

\* ws.accept() raises before the client is registered.
AcceptFails(c) ==
  /\ conn[c] = "accepting"
  /\ ~alive[c]
  /\ conn' = [conn EXCEPT ![c] = "off"]
  /\ UNCHANGED <<alive, waitsOn, regVars, pollVars>>

\* Mutant of Accepted: starts the poller only if no task was ever created.
AcceptedStartsOnce(c) ==
  /\ conn[c] = "accepting"
  /\ clients' = clients \cup {c}
  /\ channels' = [channels EXCEPT ![c] = {}]
  /\ marketIds' = [marketIds EXCEPT ![c] = {}]
  /\ quiet' = [quiet EXCEPT ![c] = {}]
  /\ conn' = [conn EXCEPT ![c] = "reply"]
  /\ IF task = NoTask THEN Start ELSE UNCHANGED pollVars
  /\ UNCHANGED <<alive, waitsOn>>

\* connect() registers the client, then client_count = 1 starts the poller.
Accepted(c) ==
  /\ conn[c] = "accepting"
  /\ clients' = clients \cup {c}
  /\ channels' = [channels EXCEPT ![c] = {}]
  /\ marketIds' = [marketIds EXCEPT ![c] = {}]
  /\ quiet' = [quiet EXCEPT ![c] = {}]
  /\ conn' = [conn EXCEPT ![c] = "reply"]
  /\ IF clients' = {c} THEN Start ELSE UNCHANGED pollVars
  /\ UNCHANGED <<alive, waitsOn>>

\* send_to() of the welcome or of a reply returns, whether or not it failed.
SendToDone(c) ==
  /\ conn[c] = "reply"
  /\ conn' = [conn EXCEPT ![c] = "receive"]
  /\ UNCHANGED <<alive, waitsOn, regVars, pollVars>>

\* Mutant of Subscribe: keeps channel names it does not know.
SubscribeUnchecked(c, chs, mids) ==
  /\ conn[c] = "receive"
  /\ conn' = [conn EXCEPT ![c] = "reply"]
  /\ channels' = [channels EXCEPT ![c] = @ \cup chs \cup {"unknown"}]
  /\ marketIds' = [marketIds EXCEPT ![c] = @ \cup mids]
  /\ quiet' = [quiet EXCEPT ![c] = @ \ chs]
  /\ UNCHANGED <<alive, waitsOn, clients, pollVars>>

Subscribe(c, chs, mids) ==
  /\ conn[c] = "receive"
  /\ conn' = [conn EXCEPT ![c] = "reply"]
  /\ IF c \in clients
     THEN /\ channels' = [channels EXCEPT ![c] = @ \cup chs]
          /\ marketIds' = [marketIds EXCEPT ![c] = @ \cup mids]
     ELSE UNCHANGED <<channels, marketIds>>
  /\ quiet' = [quiet EXCEPT ![c] = @ \ chs]
  /\ UNCHANGED <<alive, waitsOn, clients, pollVars>>

Unsubscribe(c, chs) ==
  /\ conn[c] = "receive"
  /\ conn' = [conn EXCEPT ![c] = "reply"]
  /\ channels' = [channels EXCEPT ![c] = IF c \in clients THEN @ \ chs ELSE @]
  /\ quiet' = [quiet EXCEPT ![c] = @ \cup chs]
  /\ UNCHANGED <<alive, waitsOn, clients, marketIds, pollVars>>

\* ping, info, an unknown command, invalid JSON, a subscribe without channels.
OtherCommand(c) ==
  /\ conn[c] = "receive"
  /\ conn' = [conn EXCEPT ![c] = "reply"]
  /\ UNCHANGED <<alive, waitsOn, regVars, pollVars>>

\* Mutant of Leave: stops the poller although one client is left.
LeaveStopsEarly(c) ==
  /\ conn[c] = "receive"
  /\ clients' = clients \ {c}
  /\ alive' = [alive EXCEPT ![c] = FALSE]
  /\ quiet' = [quiet EXCEPT ![c] = {}]
  /\ UNCHANGED <<channels, marketIds>>
  /\ IF Cardinality(clients') <= 1
     THEN Stop(c)
     ELSE /\ conn' = [conn EXCEPT ![c] = "off"]
          /\ UNCHANGED <<waitsOn, pollVars>>

\* Mutant of Leave: stops the poller only if this client was still registered.
LeaveIfRegistered(c) ==
  /\ conn[c] = "receive"
  /\ clients' = clients \ {c}
  /\ alive' = [alive EXCEPT ![c] = FALSE]
  /\ quiet' = [quiet EXCEPT ![c] = {}]
  /\ UNCHANGED <<channels, marketIds>>
  /\ IF clients' = {} /\ c \in clients
     THEN Stop(c)
     ELSE /\ conn' = [conn EXCEPT ![c] = "off"]
          /\ UNCHANGED <<waitsOn, pollVars>>

\* The `finally` block: disconnect(), then client_count = 0 stops the poller.
Leave(c) ==
  /\ conn[c] = "receive"
  /\ clients' = clients \ {c}
  /\ alive' = [alive EXCEPT ![c] = FALSE]
  /\ quiet' = [quiet EXCEPT ![c] = {}]
  /\ UNCHANGED <<channels, marketIds>>
  /\ IF clients' = {}
     THEN Stop(c)
     ELSE /\ conn' = [conn EXCEPT ![c] = "off"]
          /\ UNCHANGED <<waitsOn, pollVars>>

\* receive_text() raises WebSocketDisconnect.
Disconnect(c) == ~alive[c] /\ Leave(c)

\* A message the handler cannot process (JSON that is not an object, an
\* unhashable channel) raises, and returning closes the socket.
HandlerError(c) == alive[c] /\ Leave(c)

\* `await self._task` in stop() returns.
StopReturns(c) ==
  /\ conn[c] = "stopping"
  /\ waitsOn[c] \in Tasks => ~Live(waitsOn[c])
  /\ conn' = [conn EXCEPT ![c] = "off"]
  /\ waitsOn' = [waitsOn EXCEPT ![c] = NoTask]
  /\ UNCHANGED <<alive, regVars, pollVars>>

-----------------------------------------------------------------------------
(* The poller task: MarketPoller._run, _poll_* and ChannelManager.broadcast *)

\* Mutant of Wants: does not look at the subscribed channels.
WantsAnyChannel(c, j) ==
  ChannelOf(j) = "market" => marketIds[c] = {} \/ j \in marketIds[c]

\* The test broadcast() makes on the live subscription state of a target.
Wants(c, j) ==
  /\ ChannelOf(j) \in channels[c]
  /\ ChannelOf(j) = "market" => marketIds[c] = {} \/ j \in marketIds[c]

\* Suspend in send_json to one of the targets that want job j.
SendOneOf(t, j, targets, dead) ==
  \E c \in targets :
    /\ Wants(c, j)
    /\ poll' = [poll EXCEPT ![t] =
                  [pc |-> "sending", job |-> j, to |-> {c},
                   targets |-> targets \ {c}, dead |-> dead, cycle |-> @.cycle]]

\* End of the cycle: cycle += 1 and sleep(10).
Sleep(t) ==
  poll' = [poll EXCEPT ![t] =
             [NewTask EXCEPT !.pc = "asleep", !.cycle = 1 - poll[t].cycle]]

\* After broadcast j: some later broadcast of the cycle that reaches a client
\* (any read of the chain may fail, which skips its broadcast), or the sleep.
NextBroadcast(t, j) ==
  \/ /\ poll[t].cycle = 0
     /\ \E k \in {i \in Jobs : i > j} : SendOneOf(t, k, clients', {})
  \/ Sleep(t)

\* The loop head: the task is scheduled first, or wakes from its sleep.  The
\* heartbeat is broadcast in every cycle, whether or not the chain answers.
BeginCycle(t) ==
  /\ poll[t].pc \in {"created", "asleep"}
  /\ t \notin cancelled
  /\ running
  /\ UNCHANGED <<regVars, connVars, running, task, cancelled>>
  /\ IF \E c \in clients : Wants(c, 0)
     THEN SendOneOf(t, 0, clients, {})
     ELSE NextBroadcast(t, 0)

\* Mutant of SendJsonDone: drops a client whose send did not raise.
SendJsonDropsSlow(t) ==
  /\ poll[t].pc = "sending"
  /\ t \notin cancelled
  /\ \E dead \in {poll[t].dead, poll[t].dead \cup poll[t].to} :
       IF \E c \in poll[t].targets : Wants(c, poll[t].job)
       THEN /\ SendOneOf(t, poll[t].job, poll[t].targets, dead)
            /\ UNCHANGED clients
       ELSE /\ clients' = clients \ dead
            /\ NextBroadcast(t, poll[t].job)
  /\ UNCHANGED <<channels, marketIds, quiet, connVars, running, task, cancelled>>

\* send_json returns or raises; the broadcast goes on, and after its last
\* target the sockets whose send raised are dropped from the registry.
SendJsonDone(t) ==
  /\ poll[t].pc = "sending"
  /\ t \notin cancelled
  /\ \E dead \in {poll[t].dead} \cup
                 {poll[t].dead \cup {c} : c \in {x \in poll[t].to : ~alive[x]}} :
       IF \E c \in poll[t].targets : Wants(c, poll[t].job)
       THEN /\ SendOneOf(t, poll[t].job, poll[t].targets, dead)
            /\ UNCHANGED clients
       ELSE /\ clients' = clients \ dead
            /\ NextBroadcast(t, poll[t].job)
  /\ UNCHANGED <<channels, marketIds, quiet, connVars, running, task, cancelled>>

\* Mutant of TaskEnds: `while True`, only a cancellation ends the task.
TaskEndsIfCancelled(t) ==
  /\ Live(t)
  /\ t \in cancelled
  /\ poll' = [poll EXCEPT ![t] = Ended]
  /\ cancelled' = cancelled \ {t}
  /\ UNCHANGED <<regVars, connVars, running, task>>

\* The coroutine finishes: it sees _running = FALSE at the loop head, or the
\* pending CancelledError is raised where it is suspended.
TaskEnds(t) ==
  /\ Live(t)
  /\ \/ t \in cancelled
     \/ poll[t].pc \in {"created", "asleep"} /\ ~running
  /\ poll' = [poll EXCEPT ![t] = Ended]
  /\ cancelled' = cancelled \ {t}
  /\ UNCHANGED <<regVars, connVars, running, task>>

-----------------------------------------------------------------------------
TaskStep(t) == BeginCycle(t) \/ SendJsonDone(t) \/ TaskEnds(t)

\* The coroutine goes on after an await that does not depend on the peer.
Resumes(c) == Accepted(c) \/ AcceptFails(c) \/ SendToDone(c) \/ StopReturns(c)

Command(c) ==
  \/ \E s \in Subscriptions : Subscribe(c, s[1], s[2]) \/ Unsubscribe(c, s[1])
  \/ OtherCommand(c)

Next ==
  \/ \E c \in Clients :
       \/ Connect(c) \/ SocketDies(c) \/ Resumes(c) \/ Command(c)
       \/ Disconnect(c) \/ HandlerError(c)
  \/ \E t \in Tasks : TaskStep(t)

\* The loop runs every ready coroutine; a send ends because the server's ping
\* timeout closes a stalled socket; a closed socket has finitely many messages
\* buffered, so receive_text raises in the end (strong fairness).
Fairness ==
  /\ \A t \in Tasks : WF_vars(TaskStep(t))
  /\ \A c \in Clients :
       /\ WF_vars(Resumes(c))
       /\ SF_vars(Disconnect(c))

Spec == Init /\ [][Next]_vars /\ Fairness

-----------------------------------------------------------------------------
(* Properties *)

\* Every variable has its type.
TypeOK ==
  /\ conn \in [Clients -> ConnStates]
  /\ alive \in [Clients -> BOOLEAN]
  /\ waitsOn \in [Clients -> Tasks \cup {NoTask}]
  /\ clients \in SUBSET Clients
  /\ channels \in [Clients -> SUBSET Channels]
  /\ marketIds \in [Clients -> SUBSET (1..MaxMarketScan)]
  /\ quiet \in [Clients -> SUBSET Channels]
  /\ running \in BOOLEAN
  /\ task \in Tasks \cup {NoTask}
  /\ poll \in [Tasks -> TaskStates]
  /\ cancelled \in SUBSET Tasks

\* While any client is registered, the poller's current task is running and
\* nobody has cancelled it: no order of connects, disconnects, dropped
\* sockets and suspended stop() calls leaves clients without updates.
PollerCoversClients ==
  clients # {} => /\ running
                  /\ task \in Tasks
                  /\ Live(task)
                  /\ task \notin cancelled

\* When the last endpoint coroutine has left its receive loop, the poller has
\* been told to stop: dropping dead sockets inside broadcast() does not lose
\* the stop that the `finally` block owes.
IdleMeansStopped == running => \E c \in Clients : conn[c] \in Serving

\* A client whose socket is open and whose coroutine serves it is never
\* dropped from the registry, and the registry holds no finished coroutine.
RegistryIsServed ==
  /\ \A c \in clients : conn[c] \in Serving
  /\ \A c \in Clients : conn[c] \in Serving /\ alive[c] => c \in clients

\* The send that a poller task started in this step.
StartsSend(t) ==
  /\ poll'[t].pc = "sending"
  /\ poll'[t].to # poll[t].to \/ poll'[t].job # poll[t].job \/ poll[t].pc # "sending"

\* Once unsubscribe was answered, no send on that channel to the open socket
\* starts until the client subscribes again, broadcasts that took their
\* snapshot of targets before the unsubscription included.
QuietAfterUnsubscribe ==
  [][\A t \in Tasks : StartsSend(t) =>
       \A c \in poll'[t].to : alive[c] => ChannelOf(poll'[t].job) \notin quiet[c]]_vars

\* A heartbeat is being sent to c.
HeartbeatTo(c) ==
  \E t \in Tasks : /\ poll[t].pc = "sending"
                   /\ poll[t].job = 0
                   /\ c \in poll[t].to

\* A registered subscriber of exchange_status keeps getting heartbeats until
\* it unsubscribes or leaves.
HeartbeatsKeepComing ==
  \A c \in Clients :
    (c \in clients /\ "exchange_status" \in channels[c])
      ~> (HeartbeatTo(c) \/ c \notin clients \/ "exchange_status" \notin channels[c])

\* When every socket is gone, all poller tasks come to an end (or a new
\* client arrives), the tasks the poller no longer refers to included.
PollersWindDown ==
  (\A c \in Clients : conn[c] = "off")
    ~> ((\A t \in Tasks : ~Live(t)) \/ (\E c \in Clients : conn[c] # "off"))

\* stop() returns: the cancelled task does end, even when a new client starts
\* another task meanwhile.
StopCompletes ==
  \A c \in Clients : conn[c] = "stopping" ~> conn[c] = "off"
=============================================================================
