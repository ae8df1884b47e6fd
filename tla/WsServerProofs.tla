--------------------------- MODULE WsServerProofs ---------------------------
(***************************************************************************)
(* Proofs about WsServer for any number of sockets, tasks and markets.     *)
(***************************************************************************)
EXTENDS WsServer, TLAPS

-----------------------------------------------------------------------------
(* Facts about the building blocks *)

LEMMA FreshTask == NewTask \in TaskStates /\ Ended \in TaskStates
BY ConstantsAssumption DEF NewTask, Ended, TaskStates, Jobs

LEMMA StartType ==
  ASSUME TypeOK, Start
  PROVE  /\ running' \in BOOLEAN
         /\ task' \in Tasks \cup {NoTask}
         /\ poll' \in [Tasks -> TaskStates]
         /\ cancelled' \in SUBSET Tasks
BY FreshTask DEF TypeOK, Start

LEMMA SendOneOfType ==
  ASSUME TypeOK, NEW t \in Tasks, NEW j \in Jobs,
         NEW targets \in SUBSET Clients, NEW dead \in SUBSET Clients,
         SendOneOf(t, j, targets, dead)
  PROVE  poll' \in [Tasks -> TaskStates]
BY DEF TypeOK, SendOneOf, TaskStates

LEMMA NextBroadcastType ==
  ASSUME TypeOK, NEW t \in Tasks, NEW j \in Jobs,
         clients' \in SUBSET Clients, NextBroadcast(t, j)
  PROVE  poll' \in [Tasks -> TaskStates]
<1>1. ASSUME NEW k \in Jobs, SendOneOf(t, k, clients', {})
      PROVE  poll' \in [Tasks -> TaskStates]
  BY <1>1, SendOneOfType
<1>2. CASE Sleep(t)
  <2>1. 1 - poll[t].cycle \in {0, 1}
    BY DEF TypeOK, TaskStates
  <2>2. [NewTask EXCEPT !.pc = "asleep", !.cycle = 1 - poll[t].cycle] \in TaskStates
    BY <2>1, FreshTask DEF TaskStates
  <2>. QED  BY <1>2, <2>2 DEF Sleep, TypeOK
<1>. QED  BY <1>1, <1>2 DEF NextBroadcast

-----------------------------------------------------------------------------
(* Types *)

LEMMA InitType == Init => TypeOK
BY FreshTask DEF Init, TypeOK, ConnStates

LEMMA LeaveType ==
  ASSUME TypeOK, NEW c \in Clients, Leave(c)
  PROVE  TypeOK'
<1>1. /\ clients' \in SUBSET Clients
      /\ alive' \in [Clients -> BOOLEAN]
      /\ quiet' \in [Clients -> SUBSET Channels]
      /\ channels' \in [Clients -> SUBSET Channels]
      /\ marketIds' \in [Clients -> SUBSET (1..MaxMarketScan)]
  BY DEF TypeOK, Leave
<1>2. /\ conn' \in [Clients -> ConnStates]
      /\ waitsOn' \in [Clients -> Tasks \cup {NoTask}]
      /\ running' \in BOOLEAN
      /\ task' \in Tasks \cup {NoTask}
      /\ poll' \in [Tasks -> TaskStates]
      /\ cancelled' \in SUBSET Tasks
  <2>1. CASE Stop(c)
    BY <2>1 DEF TypeOK, Stop, ConnStates, TaskStates
  <2>2. CASE /\ conn' = [conn EXCEPT ![c] = "off"]
             /\ UNCHANGED <<waitsOn, pollVars>>
    BY <2>2 DEF TypeOK, pollVars, ConnStates
  <2>. QED  BY <2>1, <2>2 DEF Leave
<1>. QED  BY <1>1, <1>2 DEF TypeOK

LEMMA TaskStepType ==
  ASSUME TypeOK, NEW t \in Tasks, TaskStep(t)
  PROVE  TypeOK'
<1>0. \A s \in Tasks : poll[s] \in TaskStates
  BY DEF TypeOK
<1>1. CASE BeginCycle(t)
  <2>1. clients' \in SUBSET Clients /\ clients' = clients /\ 0 \in Jobs
    BY <1>1, ConstantsAssumption DEF TypeOK, BeginCycle, regVars, Jobs
  <2>2. poll' \in [Tasks -> TaskStates]
    BY <1>1, <2>1, SendOneOfType, NextBroadcastType DEF BeginCycle
  <2>. QED  BY <1>1, <2>2 DEF TypeOK, BeginCycle, regVars, connVars
<1>2. CASE SendJsonDone(t)
  <2>1. PICK dead \in {poll[t].dead} \cup
                 {poll[t].dead \cup {c} : c \in {x \in poll[t].to : ~alive[x]}} :
          IF \E c \in poll[t].targets : Wants(c, poll[t].job)
          THEN /\ SendOneOf(t, poll[t].job, poll[t].targets, dead)
               /\ UNCHANGED clients
          ELSE /\ clients' = clients \ dead
               /\ NextBroadcast(t, poll[t].job)
    BY <1>2 DEF SendJsonDone
  <2>2. /\ dead \in SUBSET Clients
        /\ poll[t].targets \in SUBSET Clients
        /\ poll[t].job \in Jobs
    BY <1>0, <2>1 DEF TaskStates
  <2>3. clients' \in SUBSET Clients
    BY <2>1 DEF TypeOK
  <2>4. poll' \in [Tasks -> TaskStates]
    BY <2>1, <2>2, <2>3, SendOneOfType, NextBroadcastType
  <2>. QED  BY <1>2, <2>3, <2>4 DEF TypeOK, SendJsonDone, connVars
<1>3. CASE TaskEnds(t)
  BY <1>3, FreshTask DEF TypeOK, TaskEnds, regVars, connVars
<1>. QED  BY <1>1, <1>2, <1>3 DEF TaskStep

LEMMA CommandType ==
  ASSUME TypeOK, NEW c \in Clients, Command(c)
  PROVE  TypeOK'
<1>1. ASSUME NEW s \in Subscriptions, Subscribe(c, s[1], s[2])
      PROVE  TypeOK'
  <2>1. s[1] \in SUBSET Channels /\ s[2] \in SUBSET (1..MaxMarketScan)
    BY ConstantsAssumption
  <2>. QED
    BY <1>1, <2>1 DEF TypeOK, Subscribe, pollVars, ConnStates, Serving
<1>2. ASSUME NEW s \in Subscriptions, Unsubscribe(c, s[1])
      PROVE  TypeOK'
  <2>1. s[1] \in SUBSET Channels
    BY ConstantsAssumption
  <2>. QED
    BY <1>2, <2>1 DEF TypeOK, Unsubscribe, pollVars, ConnStates, Serving
<1>3. CASE OtherCommand(c)
  BY <1>3 DEF TypeOK, OtherCommand, regVars, pollVars, ConnStates, Serving
<1>. QED  BY <1>1, <1>2, <1>3 DEF Command

LEMMA NextType == TypeOK /\ [Next]_vars => TypeOK'
<1>. SUFFICES ASSUME TypeOK, [Next]_vars PROVE TypeOK'
  OBVIOUS
<1>1. ASSUME NEW c \in Clients, Connect(c) PROVE TypeOK'
  BY <1>1 DEF TypeOK, Connect, regVars, pollVars, ConnStates
<1>2. ASSUME NEW c \in Clients, SocketDies(c) PROVE TypeOK'
  BY <1>2 DEF TypeOK, SocketDies, regVars, pollVars
<1>3. ASSUME NEW c \in Clients, AcceptFails(c) PROVE TypeOK'
  BY <1>3 DEF TypeOK, AcceptFails, regVars, pollVars, ConnStates
<1>4. ASSUME NEW c \in Clients, Accepted(c) PROVE TypeOK'
  <2>1. /\ running' \in BOOLEAN
        /\ task' \in Tasks \cup {NoTask}
        /\ poll' \in [Tasks -> TaskStates]
        /\ cancelled' \in SUBSET Tasks
    BY <1>4, StartType DEF Accepted, TypeOK, pollVars
  <2>. QED  BY <1>4, <2>1 DEF TypeOK, Accepted, ConnStates, Serving
<1>5. ASSUME NEW c \in Clients, SendToDone(c) PROVE TypeOK'
  BY <1>5 DEF TypeOK, SendToDone, regVars, pollVars, ConnStates, Serving
<1>6. ASSUME NEW c \in Clients, StopReturns(c) PROVE TypeOK'
  BY <1>6 DEF TypeOK, StopReturns, regVars, pollVars, ConnStates
<1>7. ASSUME NEW c \in Clients, Disconnect(c) \/ HandlerError(c) PROVE TypeOK'
  BY <1>7, LeaveType DEF Disconnect, HandlerError
<1>8. CASE UNCHANGED vars
  BY <1>8 DEF TypeOK, vars
<1>. QED
  BY <1>1, <1>2, <1>3, <1>4, <1>5, <1>6, <1>7, <1>8, CommandType, TaskStepType
     DEF Next, Resumes

\* Type correctness: every variable of the server keeps its type.
THEOREM TypeCorrect == Spec => []TypeOK
BY InitType, NextType, PTL DEF Spec

-----------------------------------------------------------------------------
(* The registry, the coroutines and the poller *)

\* The inductive invariant.  The poller runs only on behalf of a coroutine in
\* its loop, a running poller has a live current task that is not cancelled,
\* and a broadcast takes for dead only sockets that are closed.
IInv ==
  /\ RegistryIsServed
  /\ clients # {} => running
  /\ running => /\ task \in Tasks
                /\ Live(task)
                /\ task \notin cancelled
  /\ IdleMeansStopped
  /\ \A t \in cancelled : Live(t)
  /\ \A t \in Tasks : \A c \in poll[t].dead : ~alive[c]

LEMMA InitInv == Init => IInv
BY DEF Init, IInv, RegistryIsServed, IdleMeansStopped, Ended, NewTask, Serving

LEMMA AcceptedInv ==
  ASSUME TypeOK, IInv, NEW c \in Clients, Accepted(c)
  PROVE  IInv'
<1>1. /\ clients' = clients \cup {c}
      /\ conn' = [conn EXCEPT ![c] = "reply"]
      /\ conn'[c] \in Serving
      /\ alive' = alive
  BY DEF Accepted, TypeOK, Serving
<1>2. RegistryIsServed'
  BY <1>1 DEF IInv, RegistryIsServed, TypeOK
<1>3. IdleMeansStopped'
  BY <1>1 DEF IdleMeansStopped
<1>4. CASE clients' = {c} /\ Start
  <2>1. PICK t \in Tasks : /\ running' = TRUE
                           /\ task' = t
                           /\ poll' = [poll EXCEPT ![t] = NewTask]
                           /\ cancelled' = cancelled
                           /\ Free(t)
    BY <1>4 DEF Start
  <2>2. t \notin cancelled /\ ~Live(t)
    BY <2>1 DEF Free, IInv
  <2>3. task' \in Tasks /\ Live(task)' /\ task' \notin cancelled'
    BY <2>1, <2>2 DEF Live, NewTask, TypeOK
  <2>4. \A u \in cancelled' : Live(u)'
    BY <2>1, <2>2 DEF IInv, Live, TypeOK
  <2>5. \A u \in Tasks : \A d \in poll'[u].dead : ~alive'[d]
    BY <1>1, <2>1 DEF IInv, NewTask, TypeOK
  <2>. QED
    BY <1>2, <1>3, <2>1, <2>3, <2>4, <2>5 DEF IInv
<1>5. CASE clients' # {c} /\ UNCHANGED pollVars
  <2>1. clients # {}
    BY <1>1, <1>5
  <2>. QED
    BY <1>1, <1>2, <1>3, <1>5, <2>1 DEF IInv, pollVars, Live
<1>. QED  BY <1>4, <1>5 DEF Accepted

LEMMA LeaveInv ==
  ASSUME TypeOK, IInv, NEW c \in Clients, Leave(c)
  PROVE  IInv'
<1>1. /\ clients' = clients \ {c}
      /\ alive' = [alive EXCEPT ![c] = FALSE]
      /\ poll' = poll
      /\ \E s \in {"off", "stopping"} : conn' = [conn EXCEPT ![c] = s]
  BY DEF Leave, Stop, pollVars
<1>2. RegistryIsServed'
  BY <1>1 DEF IInv, RegistryIsServed, TypeOK, Serving
<1>3. \A t \in Tasks : \A d \in poll'[t].dead : ~alive'[d]
  BY <1>1 DEF IInv, TypeOK, TaskStates
<1>4. CASE clients' = {} /\ Stop(c)
  <2>1. running' = FALSE /\ clients' = {}
    BY <1>4 DEF Stop
  <2>2. \A t \in cancelled' : Live(t)'
    BY <1>1, <1>4 DEF Stop, IInv, Live
  <2>. QED  BY <1>2, <1>3, <2>1, <2>2 DEF IInv, IdleMeansStopped
<1>5. CASE clients' # {} /\ UNCHANGED pollVars
  <2>1. PICK d \in clients' : d \in clients /\ d # c
    BY <1>1, <1>5
  <2>2. d \in Clients /\ conn'[d] \in Serving
    BY <1>1, <2>1 DEF IInv, RegistryIsServed, TypeOK
  <2>. QED
    BY <1>2, <1>3, <1>5, <2>1, <2>2 DEF IInv, IdleMeansStopped, pollVars, Live
<1>. QED  BY <1>4, <1>5 DEF Leave

\* The steps of the coroutines that neither register nor unregister a client.
LEMMA QuietInv ==
  ASSUME TypeOK, IInv, NEW c \in Clients,
         \/ Connect(c) \/ SocketDies(c) \/ AcceptFails(c) \/ SendToDone(c)
         \/ Command(c) \/ StopReturns(c)
  PROVE  IInv'
<1>1. /\ clients' = clients
      /\ UNCHANGED pollVars
  BY DEF Connect, SocketDies, AcceptFails, SendToDone, Command, Subscribe,
         Unsubscribe, OtherCommand, StopReturns, regVars
<1>2. \A d \in Clients : /\ conn[d] \in Serving => conn'[d] \in Serving
                         /\ conn'[d] \in Serving /\ alive'[d]
                              => conn[d] \in Serving /\ alive[d]
  BY DEF Connect, SocketDies, AcceptFails, SendToDone, Command, Subscribe,
         Unsubscribe, OtherCommand, StopReturns, TypeOK, Serving
<1>3. \A t \in Tasks : \A d \in poll[t].dead : ~alive'[d]
  <2>1. CASE Connect(c)
    BY <2>1 DEF Connect, IInv, TypeOK, TaskStates
  <2>2. CASE SocketDies(c)
    BY <2>2 DEF SocketDies, IInv, TypeOK, TaskStates
  <2>3. CASE alive' = alive
    BY <2>3 DEF IInv
  <2>. QED
    BY <2>1, <2>2, <2>3 DEF AcceptFails, SendToDone, Command, Subscribe,
       Unsubscribe, OtherCommand, StopReturns
<1>4. RegistryIsServed'
  <2>1. \A d \in clients : d \in Clients /\ conn[d] \in Serving
    BY DEF IInv, RegistryIsServed, TypeOK
  <2>2. \A d \in Clients : conn[d] \in Serving /\ alive[d] => d \in clients
    BY DEF IInv, RegistryIsServed
  <2>3. \A d \in clients' : conn'[d] \in Serving
    BY <1>1, <1>2, <2>1
  <2>4. \A d \in Clients : conn'[d] \in Serving /\ alive'[d] => d \in clients'
    BY <1>1, <1>2, <2>2
  <2>. QED  BY <2>3, <2>4 DEF RegistryIsServed
<1>5. IdleMeansStopped'
  <2>1. running' = running
    BY <1>1 DEF pollVars
  <2>2. running => \E d \in Clients : conn[d] \in Serving
    BY DEF IInv, IdleMeansStopped
  <2>. QED  BY <1>2, <2>1, <2>2 DEF IdleMeansStopped
<1>. QED
  BY <1>1, <1>3, <1>4, <1>5 DEF IInv, pollVars, Live

\* What a step of task t may do to the tasks: t suspends again, the others keep
\* their state.
Suspends(t, dead) ==
  /\ \A u \in Tasks : u # t => poll'[u] = poll[u]
  /\ poll'[t].pc \in {"sending", "asleep"}
  /\ poll'[t].dead = dead

LEMMA SendOneOfEffect ==
  ASSUME TypeOK, NEW t \in Tasks, NEW j, NEW targets, NEW dead,
         SendOneOf(t, j, targets, dead)
  PROVE  Suspends(t, dead)
BY DEF TypeOK, SendOneOf, Suspends

LEMMA NextBroadcastEffect ==
  ASSUME TypeOK, NEW t \in Tasks, NEW j, NextBroadcast(t, j)
  PROVE  Suspends(t, {})
<1>1. CASE Sleep(t)
  BY <1>1 DEF TypeOK, Sleep, NewTask, Suspends
<1>. QED  BY <1>1, SendOneOfEffect DEF NextBroadcast

LEMMA TaskStepInv ==
  ASSUME TypeOK, IInv, NEW t \in Tasks, TaskStep(t)
  PROVE  IInv'
<1>1. UNCHANGED <<connVars, running, task>>
  BY DEF TaskStep, BeginCycle, SendJsonDone, TaskEnds
<1>2. /\ clients' \subseteq clients
      /\ \A d \in clients \ clients' : ~alive[d]
      /\ \A u \in Tasks : \A d \in poll'[u].dead : ~alive[d]
      /\ \A u \in Tasks : u # t => poll'[u] = poll[u]
      /\ \A u \in cancelled' : poll'[u].pc # "ended"
      /\ running => task \notin cancelled' /\ poll'[task].pc # "ended"
  <2>. cancelled \subseteq Tasks
    BY DEF TypeOK
  <2>1. CASE BeginCycle(t)
    <3>1. Suspends(t, {})
      BY <2>1, SendOneOfEffect, NextBroadcastEffect DEF BeginCycle
    <3>. QED
      BY <2>1, <3>1 DEF BeginCycle, Suspends, IInv, Live, regVars
  <2>2. CASE SendJsonDone(t)
    <3>1. PICK dead \in {poll[t].dead} \cup
                   {poll[t].dead \cup {c} : c \in {x \in poll[t].to : ~alive[x]}} :
            IF \E c \in poll[t].targets : Wants(c, poll[t].job)
            THEN /\ SendOneOf(t, poll[t].job, poll[t].targets, dead)
                 /\ UNCHANGED clients
            ELSE /\ clients' = clients \ dead
                 /\ NextBroadcast(t, poll[t].job)
      BY <2>2 DEF SendJsonDone
    <3>2. \A d \in dead : ~alive[d]
      BY <3>1 DEF IInv
    <3>3. \/ Suspends(t, dead) /\ clients' = clients
          \/ Suspends(t, {}) /\ clients' = clients \ dead
      BY <3>1, SendOneOfEffect, NextBroadcastEffect
    <3>. QED
      BY <2>2, <3>2, <3>3 DEF SendJsonDone, Suspends, IInv, Live
  <2>3. CASE TaskEnds(t)
    <3>1. /\ poll' = [poll EXCEPT ![t] = Ended]
          /\ cancelled' = cancelled \ {t}
          /\ clients' = clients
      BY <2>3 DEF TaskEnds, regVars
    <3>2. running => task # t
      BY <2>3 DEF TaskEnds, IInv
    <3>. QED
      BY <3>1, <3>2 DEF IInv, Live, Ended, NewTask, TypeOK
  <2>. QED  BY <2>1, <2>2, <2>3 DEF TaskStep
<1>3. RegistryIsServed'
  BY <1>1, <1>2 DEF IInv, RegistryIsServed, connVars, TypeOK
<1>. QED
  BY <1>1, <1>2, <1>3 DEF IInv, IdleMeansStopped, connVars, Live

LEMMA NextInv == TypeOK /\ IInv /\ [Next]_vars => IInv'
<1>. SUFFICES ASSUME TypeOK, IInv, [Next]_vars PROVE IInv'
  OBVIOUS
<1>1. CASE UNCHANGED vars
  BY <1>1 DEF IInv, RegistryIsServed, IdleMeansStopped, Live, vars
<1>2. ASSUME NEW c \in Clients, Disconnect(c) \/ HandlerError(c) PROVE IInv'
  BY <1>2, LeaveInv DEF Disconnect, HandlerError
<1>. QED
  BY <1>1, <1>2, AcceptedInv, QuietInv, TaskStepInv DEF Next, Resumes

LEMMA Invariance == Spec => []IInv
BY InitType, InitInv, NextType, NextInv, TypeCorrect, PTL DEF Spec

\* Whatever the number of clients and tasks and the order of their steps, a
\* registered client always has a running poller with a live, uncancelled
\* task: _run, start, stop and the endpoint keep that between them.
THEOREM PollerCovers == Spec => []PollerCoversClients
<1>1. IInv => PollerCoversClients
  BY DEF IInv, PollerCoversClients
<1>. QED  BY <1>1, Invariance, PTL

\* The poller never stays switched on without a coroutine in its loop.
THEOREM IdleStopped == Spec => []IdleMeansStopped
<1>1. IInv => IdleMeansStopped
  BY DEF IInv
<1>. QED  BY <1>1, Invariance, PTL

\* The registry holds exactly the open sockets being served, closed ones not
\* yet noticed aside: a broadcast drops no client that can still be reached.
THEOREM RegistryServed == Spec => []RegistryIsServed
<1>1. IInv => RegistryIsServed
  BY DEF IInv
<1>. QED  BY <1>1, Invariance, PTL

-----------------------------------------------------------------------------
(* What stop() waits for *)

\* stop() waits for the task it cancelled and for no other: until that task
\* has ended its cancellation is not lost, and its identity is not given to a
\* task that nobody cancels.
StopAwaitsCancelled ==
  \A c \in Clients : conn[c] = "stopping" =>
    /\ waitsOn[c] \in Tasks
    /\ Live(waitsOn[c]) => waitsOn[c] \in cancelled

LEMMA StopAwaitsNext ==
  TypeOK /\ StopAwaitsCancelled /\ [Next]_vars => StopAwaitsCancelled'
<1>. SUFFICES ASSUME TypeOK, StopAwaitsCancelled, [Next]_vars
              PROVE  StopAwaitsCancelled'
  OBVIOUS
<1>1. ASSUME NEW c \in Clients, Connect(c) PROVE StopAwaitsCancelled'
  BY <1>1 DEF Connect, pollVars, StopAwaitsCancelled, TypeOK, Live
<1>2. ASSUME NEW c \in Clients, SocketDies(c) \/ AcceptFails(c) \/ SendToDone(c)
      PROVE  StopAwaitsCancelled'
  BY <1>2 DEF SocketDies, AcceptFails, SendToDone, pollVars, StopAwaitsCancelled, TypeOK, Live
<1>3. ASSUME NEW c \in Clients, StopReturns(c) PROVE StopAwaitsCancelled'
  <2>1. /\ conn' = [conn EXCEPT ![c] = "off"]
        /\ \A d \in Clients : d # c => waitsOn'[d] = waitsOn[d]
        /\ poll' = poll /\ cancelled' = cancelled
    BY <1>3 DEF StopReturns, pollVars, TypeOK
  <2>. QED  BY <2>1 DEF StopAwaitsCancelled, TypeOK, Live
\* A new task takes no identity that somebody waits on.
<1>4. ASSUME NEW c \in Clients, Accepted(c) PROVE StopAwaitsCancelled'
  <2>1. conn' = [conn EXCEPT ![c] = "reply"] /\ waitsOn' = waitsOn
    BY <1>4 DEF Accepted
  <2>2. CASE Start
    <3>1. PICK t \in Tasks : Free(t) /\ poll' = [poll EXCEPT ![t] = NewTask]
                             /\ cancelled' = cancelled
      BY <2>2 DEF Start
    <3>2. \A d \in Clients : waitsOn[d] # t
      BY <3>1 DEF Free
    <3>3. \A u \in Tasks : u # t => poll'[u] = poll[u]
      BY <3>1 DEF TypeOK
    <3>. QED  BY <2>1, <3>1, <3>2, <3>3 DEF StopAwaitsCancelled, TypeOK, Live
  <2>3. CASE UNCHANGED pollVars
    BY <2>1, <2>3 DEF StopAwaitsCancelled, TypeOK, Live, pollVars
  <2>. QED  BY <1>4, <2>2, <2>3 DEF Accepted
<1>5. ASSUME NEW c \in Clients, Command(c) PROVE StopAwaitsCancelled'
  <2>1. /\ conn' = [conn EXCEPT ![c] = "reply"] /\ waitsOn' = waitsOn
        /\ UNCHANGED pollVars
    BY <1>5 DEF Command, Subscribe, Unsubscribe, OtherCommand
  <2>. QED  BY <2>1 DEF StopAwaitsCancelled, TypeOK, Live, pollVars
<1>6. ASSUME NEW c \in Clients, Disconnect(c) \/ HandlerError(c)
      PROVE  StopAwaitsCancelled'
  <2>1. CASE Stop(c) /\ task \in Tasks /\ Live(task)
    <3>1. /\ poll' = poll /\ cancelled' = cancelled \cup {task}
          /\ conn' = [conn EXCEPT ![c] = "stopping"]
          /\ waitsOn' = [waitsOn EXCEPT ![c] = task]
      BY <2>1 DEF Stop
    <3>. QED  BY <2>1, <3>1 DEF StopAwaitsCancelled, TypeOK, Live
  <2>2. CASE Stop(c) /\ ~(task \in Tasks /\ Live(task))
    <3>1. /\ poll' = poll /\ cancelled' = cancelled /\ waitsOn' = waitsOn
          /\ conn' = [conn EXCEPT ![c] = "off"]
      BY <2>2 DEF Stop
    <3>. QED  BY <3>1 DEF StopAwaitsCancelled, TypeOK, Live
  <2>3. CASE conn' = [conn EXCEPT ![c] = "off"] /\ UNCHANGED <<waitsOn, pollVars>>
    BY <2>3 DEF StopAwaitsCancelled, TypeOK, Live, pollVars
  <2>. QED  BY <1>6, <2>1, <2>2, <2>3 DEF Disconnect, HandlerError, Leave
\* A cancellation is over only with its task.
<1>7. ASSUME NEW t \in Tasks, TaskStep(t) PROVE StopAwaitsCancelled'
  <2>1. conn' = conn /\ waitsOn' = waitsOn
    BY <1>7 DEF TaskStep, BeginCycle, SendJsonDone, TaskEnds, connVars
  <2>2. CASE BeginCycle(t) \/ SendJsonDone(t)
    <3>1. t \notin cancelled /\ Live(t) /\ cancelled' = cancelled
      BY <2>2 DEF BeginCycle, SendJsonDone, Live
    <3>2. \A u \in Tasks : u # t => poll'[u] = poll[u]
      BY <2>2 DEF BeginCycle, SendJsonDone, NextBroadcast, SendOneOf, Sleep, TypeOK
    <3>. QED  BY <2>1, <3>1, <3>2 DEF StopAwaitsCancelled, Live
  <2>3. CASE TaskEnds(t)
    <3>1. poll' = [poll EXCEPT ![t] = Ended] /\ cancelled' = cancelled \ {t}
      BY <2>3 DEF TaskEnds
    <3>2. Ended.pc = "ended"
      BY DEF Ended, NewTask
    <3>3. /\ poll'[t].pc = "ended"
          /\ \A u \in Tasks : u # t => poll'[u] = poll[u]
      BY <3>1, <3>2 DEF TypeOK
    <3>. QED  BY <2>1, <3>1, <3>3 DEF StopAwaitsCancelled, Live
  <2>. QED  BY <1>7, <2>2, <2>3 DEF TaskStep
<1>8. CASE UNCHANGED vars
  BY <1>8 DEF vars, StopAwaitsCancelled, Live
<1>. QED
  BY <1>1, <1>2, <1>3, <1>4, <1>5, <1>6, <1>7, <1>8 DEF Next, Resumes

\* stop() never waits for a task that nobody cancelled: with any number of
\* sockets and tasks, whose identities are used again, `await self._task`
\* depends on nothing but that the cancelled task is run.
THEOREM StopsAwaitCancelled == Spec => []StopAwaitsCancelled
<1>1. Init => StopAwaitsCancelled
  BY DEF Init, StopAwaitsCancelled
<1>. QED  BY <1>1, StopAwaitsNext, TypeCorrect, PTL DEF Spec

-----------------------------------------------------------------------------
(* What a client unsubscribed from is not sent to it *)

\* The inductive invariant.  While a socket is open, its subscriptions and the
\* channels it was told to be rid of are apart: an unsubscription leaves those
\* of a client alone only when a broadcast has dropped it, and then its socket
\* is closed.  A socket that is not served has been told nothing, so that the
\* next client with its identity starts afresh.
QuietInvariant ==
  \A c \in Clients :
    /\ alive[c] => channels[c] \cap quiet[c] = {}
    /\ conn[c] \in Serving \/ quiet[c] = {}

LEMMA InitQuiet == Init => QuietInvariant
BY DEF Init, QuietInvariant

LEMMA CommandQuiet ==
  ASSUME TypeOK, IInv, QuietInvariant, NEW c \in Clients, Command(c)
  PROVE  QuietInvariant'
<1>1. /\ conn' = [conn EXCEPT ![c] = "reply"]
      /\ conn'[c] \in Serving
      /\ alive' = alive
      /\ \A d \in Clients : d # c => /\ conn'[d] = conn[d]
                                     /\ channels'[d] = channels[d]
                                     /\ quiet'[d] = quiet[d]
  BY DEF Command, Subscribe, Unsubscribe, OtherCommand, regVars, TypeOK, Serving
<1>2. alive[c] => c \in clients
  <2>1. conn[c] \in Serving
    BY DEF Command, Subscribe, Unsubscribe, OtherCommand, Serving
  <2>. QED  BY <2>1 DEF IInv, RegistryIsServed
<1>3. alive[c] => channels'[c] \cap quiet'[c] = {}
  <2>. SUFFICES ASSUME alive[c] PROVE channels'[c] \cap quiet'[c] = {}
    OBVIOUS
  <2>1. channels[c] \cap quiet[c] = {}
    BY DEF QuietInvariant
  <2>2. ASSUME NEW chs, NEW mids, Subscribe(c, chs, mids)
        PROVE  channels'[c] \cap quiet'[c] = {}
    <3>1. channels'[c] = channels[c] \cup chs /\ quiet'[c] = quiet[c] \ chs
      BY <1>2, <2>2 DEF Subscribe, TypeOK
    <3>. QED  BY <2>1, <3>1
  <2>3. ASSUME NEW chs, Unsubscribe(c, chs)
        PROVE  channels'[c] \cap quiet'[c] = {}
    <3>1. channels'[c] = channels[c] \ chs /\ quiet'[c] = quiet[c] \cup chs
      BY <1>2, <2>3 DEF Unsubscribe, TypeOK
    <3>. QED  BY <2>1, <3>1
  <2>4. CASE OtherCommand(c)
    BY <2>1, <2>4 DEF OtherCommand, regVars
  <2>. QED  BY <2>2, <2>3, <2>4 DEF Command
<1>. QED  BY <1>1, <1>3 DEF QuietInvariant

LEMMA NextQuiet ==
  TypeOK /\ IInv /\ QuietInvariant /\ [Next]_vars => QuietInvariant'
<1>. SUFFICES ASSUME TypeOK, IInv, QuietInvariant, [Next]_vars
              PROVE  QuietInvariant'
  OBVIOUS
<1>1. ASSUME NEW c \in Clients, Connect(c) PROVE QuietInvariant'
  <2>1. quiet[c] = {}
    BY <1>1 DEF Connect, QuietInvariant, Serving
  <2>. QED  BY <1>1, <2>1 DEF Connect, regVars, QuietInvariant, TypeOK, Serving
<1>2. ASSUME NEW c \in Clients,
             SocketDies(c) \/ AcceptFails(c) \/ SendToDone(c) \/ StopReturns(c)
      PROVE  QuietInvariant'
  BY <1>2 DEF SocketDies, AcceptFails, SendToDone, StopReturns, regVars,
              QuietInvariant, TypeOK, Serving
<1>3. ASSUME NEW c \in Clients, Accepted(c) PROVE QuietInvariant'
  BY <1>3 DEF Accepted, QuietInvariant, TypeOK, Serving
<1>4. ASSUME NEW c \in Clients, Disconnect(c) \/ HandlerError(c)
      PROVE  QuietInvariant'
  <2>1. /\ quiet' = [quiet EXCEPT ![c] = {}]
        /\ alive' = [alive EXCEPT ![c] = FALSE]
        /\ channels' = channels
        /\ \A d \in Clients : d # c => conn'[d] = conn[d]
    BY <1>4 DEF Disconnect, HandlerError, Leave, Stop, TypeOK
  <2>. QED  BY <2>1 DEF QuietInvariant, TypeOK
<1>5. ASSUME NEW t \in Tasks, TaskStep(t) PROVE QuietInvariant'
  BY <1>5 DEF TaskStep, BeginCycle, SendJsonDone, TaskEnds, connVars, regVars,
              QuietInvariant
<1>6. CASE UNCHANGED vars
  BY <1>6 DEF vars, QuietInvariant
<1>. QED
  BY <1>1, <1>2, <1>3, <1>4, <1>5, <1>6, CommandQuiet DEF Next, Resumes

\* A task that goes on to send looks at the subscriptions of the very step.
LEMMA SendIsWanted ==
  ASSUME TypeOK, NEW t \in Tasks, NEW j, NEW targets, NEW dead,
         SendOneOf(t, j, targets, dead)
  PROVE  /\ \A u \in Tasks : u # t => poll'[u] = poll[u]
         /\ \A c \in poll'[t].to : Wants(c, poll'[t].job)
<1>1. PICK c \in targets :
        /\ Wants(c, j)
        /\ poll' = [poll EXCEPT ![t] =
                      [pc |-> "sending", job |-> j, to |-> {c},
                       targets |-> targets \ {c}, dead |-> dead, cycle |-> @.cycle]]
  BY DEF SendOneOf
<1>2. poll'[t].to = {c} /\ poll'[t].job = j
  BY <1>1 DEF TypeOK
<1>. QED  BY <1>1, <1>2 DEF TypeOK

LEMMA NextBroadcastIsWanted ==
  ASSUME TypeOK, NEW t \in Tasks, NEW j, NextBroadcast(t, j)
  PROVE  /\ \A u \in Tasks : u # t => poll'[u] = poll[u]
         /\ poll'[t].pc = "sending" => \A c \in poll'[t].to : Wants(c, poll'[t].job)
<1>1. CASE Sleep(t)
  BY <1>1 DEF TypeOK, Sleep, NewTask
<1>. QED  BY <1>1, SendIsWanted DEF NextBroadcast

LEMMA TaskStepSends ==
  ASSUME TypeOK, NEW t \in Tasks, TaskStep(t),
         NEW u \in Tasks, StartsSend(u)
  PROVE  \A c \in poll'[u].to : Wants(c, poll'[u].job)
<1>1. poll'[u] # poll[u] /\ poll'[u].pc = "sending"
  BY DEF StartsSend
<1>2. CASE BeginCycle(t)
  BY <1>1, <1>2, SendIsWanted, NextBroadcastIsWanted DEF BeginCycle
<1>3. CASE SendJsonDone(t)
  BY <1>1, <1>3, SendIsWanted, NextBroadcastIsWanted DEF SendJsonDone
<1>4. CASE TaskEnds(t)
  BY <1>1, <1>4 DEF TaskEnds, Ended, NewTask, TypeOK
<1>. QED  BY <1>2, <1>3, <1>4 DEF TaskStep

LEMMA OthersSendNothing ==
  ASSUME TypeOK, NEW u \in Tasks, StartsSend(u), [Next]_vars
  PROVE  \E t \in Tasks : TaskStep(t)
<1>1. poll'[u] # poll[u] /\ poll'[u].pc = "sending"
  BY DEF StartsSend
<1>2. ASSUME NEW c \in Clients, Accepted(c) PROVE FALSE
  BY <1>1, <1>2 DEF Accepted, Start, pollVars, NewTask, TypeOK
<1>3. ASSUME NEW c \in Clients,
             \/ Connect(c) \/ SocketDies(c) \/ AcceptFails(c) \/ SendToDone(c)
             \/ StopReturns(c) \/ Command(c) \/ Disconnect(c) \/ HandlerError(c)
      PROVE  FALSE
  <2>1. poll' = poll
    BY <1>3 DEF Connect, SocketDies, AcceptFails, SendToDone, StopReturns,
                Command, Subscribe, Unsubscribe, OtherCommand, Disconnect,
                HandlerError, Leave, Stop, pollVars
  <2>. QED  BY <1>1, <2>1
<1>. QED  BY <1>1, <1>2, <1>3 DEF Next, Resumes, vars

\* No send on a channel starts to an open socket that was told it is rid of
\* that channel, even if the broadcast took it for a target before: broadcast()
\* tests the subscriptions after each of its awaits, and unsubscribe() leaves
\* none behind while the socket is open.
THEOREM UnsubscribedIsQuiet == Spec => QuietAfterUnsubscribe
<1>1. Spec => []QuietInvariant
  BY InitQuiet, NextQuiet, TypeCorrect, Invariance, PTL DEF Spec
<1>2. TypeOK /\ QuietInvariant /\ [Next]_vars
        => [\A t \in Tasks : StartsSend(t) =>
              \A c \in poll'[t].to :
                alive[c] => ChannelOf(poll'[t].job) \notin quiet[c]]_vars
  <2>. SUFFICES ASSUME TypeOK, QuietInvariant, [Next]_vars,
                       NEW t \in Tasks, StartsSend(t),
                       NEW c \in poll'[t].to, alive[c]
                PROVE  ChannelOf(poll'[t].job) \notin quiet[c]
    OBVIOUS
  <2>1. PICK s \in Tasks : TaskStep(s)
    BY OthersSendNothing
  <2>2. ChannelOf(poll'[t].job) \in channels[c]
    BY <2>1, TaskStepSends DEF Wants
  <2>3. c \in Clients
    BY <2>1, TaskStepType DEF TypeOK, TaskStates
  <2>. QED  BY <2>2, <2>3 DEF QuietInvariant
<1>. QED  BY <1>1, <1>2, TypeCorrect, PTL DEF Spec, QuietAfterUnsubscribe
=============================================================================
