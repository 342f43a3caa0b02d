# A TLA+ model of P2PMapReduce

P2PMapReduce distributes the parameters of a *task* over a set of *peers*, each a
process of the program in `src/MapReduce`. A *coordinator*
(`src/Coordinator`) keeps the table of the peers that are online. This directory
holds TLA+ modules for the parts of the two programs where threads, processes and
messages meet, the TLC configurations that check them, and theorems proved by TLAPS.

    tlasany M.tla                              parse a module
    tlc -workers 2 -config X.cfg M             check a configuration
    tlapm MProofs.tla                          check the proofs of a module

PROJECT.json lists the runs, the source lines every definition stands for, the
seeded faults (definitions `X_Something` marked "Fault:") that each property is
known to detect, and the hazards of the code.

## The system

| Part | State | Operations | Talks to |
|---|---|---|---|
| Task (`Task.cpp`) | unallotted parameters, two maps parameter → node, nodes asked, nodes executing, results, counters, thresholds, `m_bStop` | Start, AskPeers, run, one handler per answer, TaskCancel, HandlePeerConnFailure | PeerNodes; its own queue |
| Peer (`Peer.cpp`) | tasks, jobs, the peer list (`Database.h`), the coordinator's node | Start, Kill, dispatch of every message, HandleTaskRequest / Execute / Cancel, HandleJobExecution, HandleOnlineResp, HandlePeerList | all others |
| Job (`Job.cpp`, `WorkHistory.cpp`) | status, result; count of jobs handled | Start, run, Stop | the peer's queue |
| MessageQueue (both programs) | a list, a mutex, a condition | GetMessage, WaitForFull, PutMessage | any thread |
| PeerNode, Connection | `m_bConnected`, addresses, the socket, the listener thread | Connect, ConnectBackups, DisConnect, SendMessage, ReceiveMessage, HandleConnectionBroken, MsgListener | the peer's queue |
| ConnectionManager | the listening socket | accept loop, Connect | Peer |
| Message | the fields of a request or response | GetXML, ParseMessage | Connection |
| TimerMessage | an io_service | CreateTimer | Peer |
| Coordinator (`Coordinator.cpp`, `Database.cpp`) | tables Users and timestamp on disk | HandlePeerOnline, HandlePeerOffline, Init | peers |

Every process has one *peer thread* (or coordinator thread) that takes messages from
one queue, a listener thread per connection that parses what it receives and puts it
there, a thread per task with a queue of its own, and a thread per job. The console's
thread calls `Task::Start`. A task's life:

    AskPeers  --TASK_REQUEST-->  HandleTaskRequest (makes a job)
    HandleTaskRequestResponse <--TASK_REQUEST_RESP (with history and peer list)
       eligible: --TASK_EXECUTE--> HandleTaskExecute (starts the job)
       not:      --TASK_CANCEL-->  HandleTaskCancel; the parameter goes back, AskPeers
    HandleTaskExecuteResponse <--TASK_EXECUTE_RESP
    HandleTaskResult          <--TASK_RESULT when the job's thread is done
    HandlePeerConnFailure     <-- a listener that saw an error

What makes each part correct, and hard:

* **Queue** - no message lost, repeated or reordered between any number of producers
  and one consumer; the consumer must not sleep over a message. GetMessage and
  WaitForFull lock separately, and stopping a task notifies nobody.
* **Task** - each parameter is at every moment somewhere, runs on one peer at a time,
  and its result counts once; the task completes exactly when every parameter has a
  result; asking comes to an end. Two threads run AskPeers without a lock; peers
  refuse, die, come back; completion is a comparison of two counts that also move
  for other reasons; nodes are removed by peer id, jobs are found by owner and task.
* **Peer lists** - peers that are online find each other; a list that is newer knows
  more; a coordinator's restart forgets nobody. Lists travel over several connections
  and are ordered by GetTickCount, which wraps and is truncated on the way.
* **Connections** - a failure is noticed, a reconnection works or is reported, what was received
  whole is handed on in order. A listener thread per connection and any sender share the node's flag,
  its socket and one buffer.
* **Messages** - each program understands what the other wrote. Two copies of the enums and
  parsers; tasks, jobs and parameters are found by numbers and texts that several owners use alike.

## The modules

### MessageQueue, FifoChannel, MessageQueueProofs

`MessageQueue` is `MessageQueue.cpp` under the consumer loop of `Task::run` (and
`Peer::run`, whose behaviours are those without Stop). One action is one critical section.
`pc` is the consumer's place; `put` and `got` are histories. Waiting may end
spuriously, as `boost::condition` allows. `FifoChannel` says what a queue promises.
`ImplementsFifo` shows that the first implements the second, with the identity on the
histories.

The only fairness is weak fairness of the consumer's own steps: a thread that is able to
run is scheduled. Nothing is assumed of the producers, of Stop or of
spurious wake-ups. `NextPutRescues` and `NextPutEndsStopped` therefore speak of what
happens *after* one more put, and exclude a wait that ended for no reason.

Bounds: two messages, four puts. The queue's behaviour depends on empty or not empty only.
Four puts let a message be stranded, a second one rescue it, and both be followed by another
round.

### TaskProtocol, AbstractTask, Eligibility, TaskProtocolProofs, TaskOnceProofs, TaskAliveProofs

One task, its owner `Me`, and the workers. The owner's two threads are "main"
(`Task::Start`, which creates the task's thread first and then calls AskPeers) and
"task". `ask[t]` is where thread t is and AskPeers' local variables. The variables
named `m_...` are Task's members; maps whose values no handler reads are modelled by
their key sets. AskPeers takes one step per peer it looks at, and three for one it
asks: connect, send, erase. Between these, the other thread, the workers, deaths, failures and the
peer thread's `HandlePeerList` may act: the latter replaces the owner's list by any of `PeerLists`, at most
`MaxLists` times, while each AskPeers goes by the copy it made (`ask[t].peerList`) and the bound
`m_numMaxToTryPeers` is that of the last one entered. Which lists come, and why, is Membership's subject.
A list is any sequence of peers; its order decides when the scan restarts. Every handler is one step up to its call of AskPeers.

A `Node` is a PeerNode object. AskPeers makes one for every request and each request
makes one job, so a job is named by the node of its request. `conn[n]` tells what the
node and its socket know of each other:

| conn | the code |
|---|---|
| up | `m_bConnected`, the worker's process lives |
| stale | the worker died, the listener has not noticed |
| down | `m_bConnected` is false: the listener saw an error and put a failure message, or the owner closed the node. The next send connects again, to the port the worker's process listens on |
| dead | that connection failed: SendMessage called Connect, which ignores it and sets `m_bConnected` |
| eof | `m_bConnected` is true and nobody listens: recv returned 0, which is told to nobody, or the listener of a dead node failed before Connect set the flag |

A worker's
death loses its jobs and what was on its way to it. What it had sent may still arrive.
`numTaskHandled` is the history a worker reports; `Eligibility` computes from it,
with the code's doubles in tenths, how the task rates the peer.

Assumptions of the module, all true of the program as it is built and configured:

* one recv yields one message (see Connection, and "Limits");
* parameters are distinct strings, as in the shipped Task-config.xml;
* all processes run on one machine (addresses are 127.0.0.1), so a connection breaks
  only when a process ends;
* the lost wake-up of the queue is left to MessageQueue: here a message that is queued
  can be handled. The peer thread's queue and the task's queue in series are one channel per
  node. Messages of different nodes may be handled in any order anyway, and
  messages of one node stay in order, which the FIFO result on each queue gives;
* data races are abstracted to the granularity of the steps above. What a torn read of a
  vector can do is not modelled.

`AbstractTask` is the promise: a parameter is open, given to a peer that was told to execute it, or
done; only a given one becomes done, once, and every counted result is one; a refusal or a death
takes one back; a task that is given up takes no result any more, and may tell one more peer to
execute, whose answer its thread was waiting for. The mapping reads "done" off `m_paramResultMap`, "given" off `m_peerParamMap`
without the done ones (the code never removes those), the count off `m_numResultsRecvd`
and the task's life off `m_bStop` and the task thread's place. `ImplementsTask` is checked with deaths
at every moment. TaskProtocolProofs proves what is under way for a PeerNode, TaskOnceProofs what the
maps and lists know of it, TaskAliveProofs where the counters, the scan and the jobs of a worker stand while nobody dies
and what the first death finds.

`StartRace` is the named scheduling assumption. With TRUE the task's thread may handle an
answer while main is still inside Start, as the code permits. With FALSE it
happens not to, which on a loaded machine is luck. The runs and theorems that need FALSE say so,
and the run `task_race` shows what TRUE breaks. `MaxNodes` bounds the PeerNodes made (it is
larger than what the runs without races ever use, so that it cuts nothing off);
`MaxDowns` bounds deaths; `Restarts` tells whether a dead worker may be started again. `MaxLists` is 1: a longer list
may follow a shorter one or the other way round, at any step, and the next AskPeers begins again from a fresh copy.

No fairness is assumed. `AsksFinitely` holds without any: every behaviour ends in the
task loop's polling or in nothing at all. `NoStall` is the safety form of progress: while nobody has died a quiet
state is a complete one. Once a peer died no such thing holds (task_handover), and `MissingHasCause` says what does: at rest, a parameter
without a result waits to be asked for, or was last asked of a peer that died, or its job was cancelled. That the task completes under fairness is not stated on purpose: the
queue's lost wake-up (run queue_lost_wakeup) lets the task's thread sleep over the last answer, so weak
fairness of "handle the next message" is not something the code gives.

### Membership, MembershipProofs

Peers, coordinators and lists. `Users` and `timestamp` are a coordinator's tables and
survive its death; each coordinator has a database of its own. `HandlePeerOnline` changes the table and `RespondOnline` answers, two
steps of one handler, so that the process can die in between. `list` is a peer's
Database, `link` what is left of its connection to the coordinator:

* `HandleOnlineResp` disconnects ("closed"); Kill's offline message connects the same node again, to
  the coordinator it had ("home"), whose port the answer did not change;
* when the coordinator dies, a peer either sees an error ("closed" again) or an orderly end ("eof":
  nobody is told, `m_bConnected` stays true and what is sent is lost);
* the backups are tried only while there has been no Connection ("none");
* a peer started when no coordinator answers stays alone: ConnectToCoordinator sets a
  timer that `TimerMessage::CreateTimer` destroys before it expires.

A coordinator that starts runs `InsertTimestamp`. Its insert fails on the existing row when
that row says 0, otherwise the row is updated. The shipped database has a
timestamp row and no users (`Init`). The clock wraps at `TickMod` and timestamps above
`MaxSigned` are read as `MaxSigned` (atoi). Every answer to a task request carries the answerer's whole list,
after the requester was added to it; `Newer` is HandlePeerList. `origin` (whose list it
is) and `since` (when a row was inserted) are histories.
`toCoord[c][p]` is what of p's is on its way to c: its online and offline requests, in order.
An offline message stays ahead of a later start's online message: Kill sleeps a second
after it was sent, which is more than the coordinator's thread needs.

Bounds: two peers, a coordinator and its backup, `TickMod` 4 with four ticks (so the clock
wraps once), `MaxSigned` 2 (so that truncation happens before the wrap), three starts of peer processes in all
(so a peer can be restarted while the other runs) and one death of a coordinator. Peers
are symmetric, coordinators are not: the configuration orders them. Between two peers one exchange at a time is under way. No
fairness and no liveness: nothing in this part retries, so the properties say what is true when
nothing is under way.

### Connection, ConnectionProofs

One PeerNode with its Connection, the threads that use it and the listener threads. `Connect`,
`Start` and `MarkConnected` are three steps of PeerNode::Connect, which holds the node's mutex
(`m_mutex`); `DisConnect` and `CloseSocket` are two of DisConnect, which does not.
`HandleConnect` makes the node for an accepted connection. A listener is at its loop condition
("check", where it takes the socket of that moment), in recv, or before ProcessMessages. Sockets are numbered in the
order they are made; `stream` holds the pieces the other side sent, and a recv
returns any number of them up to the buffer's size. `ParseMessage` finds nothing in a string that is
no sequence of whole documents, else the first request, else the first response, as the two
parsers do with what pugixml makes of several roots. `m_recvbuf` is one variable: two listeners share it.
`alone` and `broke` are histories of what the properties are about.

Fairness: weak fairness of each listener's steps. A thread that can run is scheduled, and a recv
that has something to return returns. Nothing is assumed of senders or of the other side.

Bounds: two user threads, two sockets, three listeners (so a node reconnects, and an old and a new
listener meet), two messages in two pieces each, a response and a request, which is what a
worker sends in one breath, and a buffer of four pieces, so that both may be joined, cut, or fit exactly.

### Messages, MessagesProofs

The wire. `RequestXML`, `ResponseXML` and the coordinator's `RespondOnlineXML` are the GetXML functions;
a document is its root and a function of its elements, `Join`ed from the header every message has and
those that are written only under a condition (`IfAny`, `TimestampAndList`), so that an element
that is not written is not there. `ParseRequestMessage`, `ParseResponseMessage` and `CoordinatorParseRequest` read it
with the defaults, the missing elements that make a parser give up, atoi on numbers beyond an
int, and pugixml's loss of character data that is only white space. `ProcessMessages` is the dispatch: the
handlers called with what they read. The send operations of PeerNode put a document on
the `wire` with `meant`, a history that says in the sender's terms what the receiver is
to do. Owners make tasks and PeerNodes; workers keep `m_jobList`, in which GetJob
searches; results are stored by the index HandleTaskResult finds. When a task
executes or cancels is TaskProtocol's subject, so here it may at any time.

Bounds: two owners that ask one worker, two tasks each (ids 1 and 2 for both, as the code counts
them), two parameters, two PeerNodes, one document at a time per PeerNode, lists
without a timestamp, with one, and with one above the largest int, results that are empty or have blank lines.
Confusing two requests needs two of them, which is what two nodes give.

### DataLemmas

Facts the proofs share about the operators taken from the library: the minimum of a set of
numbers, what RemoveAt, Tail and Append do to the elements of a sequence and to nothing
occurring twice in it, and what is in a concatenation. No state.

## What the runs show

| Run | Instance | Shows |
|---|---|---|
| queue | 2 messages, 4 puts | order, refinement of FifoChannel, at most one more message after Stop, one more put always rescues |
| queue_lost_wakeup | 2 puts | **violated**: a consumer may wait on a queue that is not empty (`MessageQueue.cpp:13`) |
| task_refused | 2 or 3 parameters, 2 or 3 live workers listed, each new or experienced, the list replaced at any moment | what is refused is asked again until the task is complete, with the scan restarted at the lowered threshold; no index out of range, nothing left unasked, no running job hit by the cancel of another, no giving up, asking ends |
| task_crash | 2 workers, owner first, one death at any moment, one worker appears in the list or leaves it; 2 parameters, and 3, which Start gives up in these lists | no parameter dropped, handed over once, counted once, completion means all results, what stays without a result was a dead peer's or a cancelled job's, a death is noticed unless the socket closed in order, nothing is asked after a cancel; all of it implements AbstractTask |
| task_anything | 2 parameters, 1 worker, death and restart, start race, the list replaced | types, and deaths noticed, under everything the code allows |
| task_handover | 2 parameters, 3 workers, two deaths | **violated**: a peer that dies between AskPeers' connection and its request counts as asked, and the parameter is never handed over (`Task.cpp:94`) |
| task_race | start race | **violated**: AskPeers erases another parameter than it asked for (`Task.cpp:105`) |
| task_final_nodes | 3 parameters on 2 workers, nobody dies | **violated**: when a worker that was asked twice sends the result of its second job first, the first node of that worker is removed from `m_taskNodes`, whose job still runs (`Task.cpp:488`) |
| membership | see above | who knows whom: own membership, survival of rows, newer lists know more, any two peers can meet, everyone who found a coordinator is answered, who quits is removed |
| membership_stale | 1 coordinator, 2 peers, no death | **violated**: a late answer brings an older list back (`Peer.cpp:413`) |
| connection | see above | one listener while the node is not disconnected; messages of a socket in order, none twice; only cutting and joining loses any; a connected node nobody listens to was closed in order or reported; breaks are reported |
| messages | see above | every document is read as meant by either program; results go to the parameter, task and owner that asked; a cancel hits no other task's or owner's job |

Deadlock is not checked in any of them: a queue nobody puts into, a finished task and a clock
at its bound are legitimate ends, and stopping short of completion is what
NextPutRescues, NoStall and EveryoneAnswered are about.

Limits of what holds, found while modelling and worth knowing:

* `NotGivenUp` is checked with the owner after two workers, and at most twice as many parameters as
  the list has workers (each is asked once per threshold). With the owner first and more
  parameters than workers, or too few workers, Start's scan runs out of peers and cancels the task at once
  (`Task.cpp:67-72`). Nothing but Start does (OnlyStartGivesUp), and Start does not when
  lists name more peers, the owner included, than there are parameters (EnoughNotGivenUp).
* `NoAbort` and `RunningJobListed` too are about a task Start did not give up. After that a late answer of a peer that falls short
  puts its parameter back through maps TaskCancel has cleared, and a late order to execute an
  older job lets the cancel find a running one.
* `NoAbort` and `NothingLeftUnasked` hold while no process dies. After a death the erase of
  a refused parameter's entry may be given `end()` (`Task.cpp:335`), and a
  request whose send fails counts as asked (`Task.cpp:104`, task_handover).
* More goes wrong after a death: an unreachable peer or a failed send leaves `m_numRemainingPeers` such that a later AskPeers ends
  having asked nobody, and the cancel for a refused parameter may take an older job of the same worker that runs, whose result then never comes.
  `MissingHasCause` allows for both and for nothing else. The second was met with three parameters on two workers, the owner last in the list, which
  was explored exhaustively for every history of the workers (over five million states each, too many for a kept run) and violates none
  of task_crash's properties.
* `IsTaskComplete` (`Task.cpp:461`) is defined and never called: CompletionSound is about what it would say.
* `ParamRunsOnce`, `ResultsOnce`, `CompletionSound`, `RunningJobListed` and `ImplementsTask` are for workers that
  are not started again. A worker that is restarted at the same port receives what was meant for its
  former life, since the owner's node reconnects to it: with `Restarts = TRUE` TLC violates each of the first four.
* `OneListener`, `DeafWasTold` and `BreakIsReported` are for nodes that are not disconnected. DisConnect
  does not wait for its listener and Start resets `m_bStop`, so that after a reconnection the old
  listener may read the new socket; `HandedInOrder` and `AloneIsHanded` say so by `overlap`.
* The stream may join TASK_EXECUTE_RESP and TASK_RESULT, which a worker may send in one breath: only the
  result (a request) is handed on. Of TASK_EXECUTE and TASK_CANCEL joined, the cancel is lost.
  TaskProtocol and Membership assume that this does not happen.
* `m_numRemainingPeers` is lowered in AskPeers and again for every acceptance, and becomes
  negative.

## What is proved

TLAPS proves the theorems below for every value of the constants that the named
assumptions in the modules allow (`TaskConstants`, `MembershipConstants` and so on): bounds are
numbers, `None` and the owner are none of the others, lists that are sent have a peer, a buffer
holds at least a piece, the clock has more than one tick. Each is `Spec => []P` unless said otherwise. A safety property a run checks and no theorem
states is under "Only model-checked" with the reason.

A proof goes action by action, one lemma per handler where it is long. OnceInv, FinalInv,
OneDeathInv,
QuotaInv, ScanInv, UnaskedInv, OnInv, MemberInv and MessageInv were checked by TLC on the instances of the runs before they were proved.

### The queue (MessageQueueProofs)

`QueueTypeCorrect`, `QueueIsFifo`, `QueueImplementsFifo`, `StopEndsWork` (StopLetsOneMore). The inductive
invariant is TypeOK and NothingLostOrReordered. For StopEndsWork: if k
messages were taken when Stop set the flag, at most k + 1 are taken ever after, and only k while the consumer has still to call GetMessage
after having read the flag. The step simulation maps PutMessage to the channel's send,
GetMessage to its receive and everything else to a stutter.

### The task (TaskProtocolProofs, TaskOnceProofs, TaskAliveProofs)

| Theorem | Property | Hypotheses |
|---|---|---|
| TaskTypeCorrect | TypeOK | none |
| DeathIsNoticed | DeathWillBeSeen | none |
| NoParameterIsLost | NoParamLost | StartRace = FALSE |
| StopAsksNobody | NoRequestAfterStop (action property) | StartRace = FALSE |
| ParameterRunsOnce | ParamRunsOnce | StartRace = FALSE, no restarts, at most one death |
| ResultsCountOnce | ResultsOnce | the same |
| CompleteMeansAllResults | CompletionSound | the same |
| TaskImplementsAbstract | ImplementsTask (refinement) | the same |
| NothingWaitsUnasked | NothingLeftUnasked | StartRace = FALSE, no deaths, UsableLists |
| NeverAtRest | NoStall | the same |
| OnlyStartGivesUp | NotGivenUp | the same, StartSucceeds |
| NoIndexOutOfRange | NoAbort | the same, StartSucceeds |
| CancelSparesRunningJobs | RunningJobListed | the same, StartSucceeds |
| StartFindsEnough | `Spec => StartSucceeds` | StartRace = FALSE, no deaths, EnoughPeers |
| EnoughNotGivenUp | NotGivenUp | the same |
| EnoughNoAbort | NoAbort | the same |
| EnoughSparesRunningJobs | RunningJobListed | the same |

"None" means with any deaths, restarts, refusals, replaced lists and the start race. Where
StartRace must be FALSE or processes must not come back, TLC violates the property
otherwise (see "Limits"). The argument, from the bottom:

* `TypeInv`: TypeOK is not inductive, since the types of what a handler appends depend on the node whose
  message it handles having been made. `NodeInv` adds that: made nodes carry a worker and
  a parameter, unmade ones no messages, executing nodes and jobs are made, and a result
  is only sent by a node that has a job with a parameter.
* `KeepInv` (NoParameterIsLost) adds that one thread at a time is inside
  AskPeers (`OneAsks`), that a thread between the request and the erase has its parameter at the head of
  the list (`AskedIsFirst`), and NoParamLost itself. Without AskedIsFirst the erase could drop a
  parameter that is nowhere else; without OneAsks the other thread could change the head, which is the run task_race.
* `RequestInv` says of each PeerNode that at most one thing is under way: its request, a job,
  an answer, the order to execute, a result or a failure (`TurnInv`), that nodes are numbered as
  made (`MadeInv`), which stage of their life the task's sets put them in (`StageInv`), that none is twice in
  `m_taskNodes` (`ListedOnce`) and that a connection that is up has a process (`UpInv`). With `DownInv`
  it gives DeathIsNoticed.
* `CalmInv` is KeepInv, RequestInv and what follows from StartRace = FALSE: `EarlyInv` (while main is inside Start
  nobody has been told to execute) and `StopInv` (once m_bStop is set nobody asks, and the one message the
  thread may be waiting for makes nobody ask).
* `OnceInv` adds the core, what is under way for a *parameter*. `ParamInv`: what a message or a job carries
  is its node's parameter. `GoneInv`: a broken connection or an unread failure means that the
  process is gone or that the task closed the connection, and only failures come after a failure. `OwnInv`: no two nodes
  are under way for one parameter, which meanwhile is not to be asked for, has no result yet, and has
  its entry in `m_peerParamMap` from the moment it is to be executed. And ResultsOnce itself. CompletionSound and
  the refinement's steps follow.
* A failure must not take back a parameter that another node has. For that, every node in `m_taskNodes` whose failure may still come (`Failing`: its
  peer is dead, or one more may die) must be alone with its parameter, which is `FinalInv`. Every step keeps it but
  a refusal that leaves a node of its own listed: RemovePeerFromFinalNodes (`Task.cpp:483`) removes the first node *of that peer*, and the
  refused one stays, its parameter back in the list. So the step lemma asks that a refused node is not in Failing afterwards.

While nobody dies every message is delivered and every request answered, and more is true. The lists are then what matters:

    UsableLists   == \A list \in PeerLists : IsInjective(list) /\ Len(list) >= 2
    EnoughPeers   == UsableLists /\ \A list \in PeerLists, k \in ParamCounts : k < Len(list)
    StartSucceeds == [][~AskShort("main") /\ ~AskGiveUp("main")]_vars

The first says that no list names a peer twice, which the coordinator's table guarantees (id is its key, and AddPeer, like Peer::HandleTaskRequest,
looks first), and that one names a peer besides its owner, which is a condition on the deployment like the second: a list has a
worker for each parameter. The third says that the call of AskPeers in `Task::Start` asked a peer for
every parameter; it is a theorem under the second.

* `QuotaInv` relates what AskPeers was asked for to what it asked. `StartQuota`: in Start the list shrinks by one parameter
  per request, and Start is done when it is empty. `HandlerQuota`: a handler's call asks one peer, because
  (`RemainInv`) m_numRemainingPeers and the nodes that execute are together never positive after Start. That is
  why the counter that is lowered twice (`Task.cpp:116`, `Task.cpp:314`) does no harm.
* `ScanInv` says where a scan stands: its bound m_numMaxToTryPeers is that of its own list, everyone before the index was tried
  or is the owner, everyone on m_tryNodes was counted as tried, and a handler's call that has lowered the threshold starts with
  nobody tried. From these and UsableLists, a scan that would wrap can lower the threshold, and one that has
  lowered it finds a peer.
* `UnaskedInv`: after Start, m_unAllotParamList holds the one parameter a handler put back until it was
  asked for, and is empty otherwise. It gives NothingWaitsUnasked.
* `GoingInv`: the task is not given up, no index was out of range, and a parameter somebody is asked for is in m_tryPeerParamMap, where the
  handler of the answer erases it. It gives OnlyStartGivesUp and NoIndexOutOfRange. `EnoughInv` counts Start's
  requests against its list and gives StartFindsEnough.
* `JobsInv` follows a worker's m_jobList. `ListedInv`: a job that runs, or will be told to, is listed, so that nobody refuses.
  `CancelInv`: at most one cancel is under way to a worker, and the job GetJob finds for it, the oldest, is
  not one that is needed. That rests on `HighInv`: before the threshold is lowered nobody is asked twice who has not
  finished. It gives CancelSparesRunningJobs.
* `FlowInv` reads the maps backwards. `AskedInv` and `GivenInv`: for what is in m_tryPeerParamMap, or in m_peerParamMap without a
  result, some peer is asked or executes. `FinalCount`: m_taskNodes, from which nodes are removed by peer,
  has no more nodes of a peer than execute there; which nodes it has may be wrong (task_final_nodes), how many is not.
  `OnInv` is JobsInv and FlowInv for as long as the task goes on. In a quiet state all of these are empty, and with
  NoParamLost and ResultsOnce the counters say complete: NeverAtRest.
* `OneDeathInv` carries this over the first death, for ParameterRunsOnce, ResultsCountOnce, CompleteMeansAllResults and
  TaskImplementsAbstract. By ListedInv nobody who was told to execute refuses while everybody lives (`NobodyRefuses`), so when the only death comes the
  dead peer has refused nothing (`DeadSilent`) and FinalInv holds. A refusal handled after it comes from a living worker
  (`RefusedLives`), of which no failure can follow, so what it leaves in m_taskNodes is harmless. These theorems need no
  condition on the lists. They include the behaviours in which the removal does hit another node: with three workers, the owner last in the
  list, four parameters and one death, 71 states lead to one. With two deaths the node left listed may be one whose worker dies next, and
  its failure takes back a parameter another peer has by then, which is why the theorems stop at one.

The refinement's step lemma maps HandleEligible to Give, a refusal or a failure of a given
parameter to TakeBack, the first result to Finish, TaskCancel to GiveUp, the last message of a
stopped task to Give or End, and the rest to stutters.

### Connections (ConnectionProofs)

`ConnectionTypeCorrect`, `ListensOnce`, `NoSilentDeafness`, `StreamKeepsOrder`,
`WholeMessagesArrive`: TypeOK, OneListener, DeafWasTold, HandedInOrder and AloneIsHanded, with any number of threads,
sockets, listeners, messages and pieces. TypeInv is TypeOK and `PointersInv` (without a Connection nobody is
where it would be used, and who is inside Connect holds the mutex). `ListenInv`: a node that nobody
disconnects has at most one listener, none while it is unconnected or about to start one, and that one
reads the socket of the moment. `OverlapInv`: unless two were seen at once there is one listener. `StreamInv`: what is left of a
stream is in sequence and its last message whole. `OrderInv` (`HandedInv`, `BufferInv`): what is handed, in the buffer and in the stream
come in that order. `AloneInv` follows a message that was received alone to the queue.

### Peer lists (MembershipProofs)

| Theorem | Property | Rests on |
|---|---|---|
| MembershipTypeCorrect | TypeOK | itself |
| PeersKnowThemselves | KnowsItself | KnowInv |
| RegistrationSurvives | RegisteredSurvives | QueueInv, StageInv |
| LaterListsHaveAll | LaterListsKnow | ListInv |
| AnsweredMeet | Acquainted | AcquaintInv |
| RequestsAreAnswered | EveryoneAnswered | AnswerInv |
| QuitIsRemembered | QuitMeansRemoved | QuitInv |

All hold for any number of peers, coordinators, starts, deaths and ticks; the conditions (no coordinator died, the clock did not
wrap yet) are part of the properties. `MemberInv` is their conjunction and was checked as an
invariant of the membership instance. `QueueInv`: a request of a peer's present life is the last in its queue and an
online one, whatever earlier lives left before it. `StageInv`: who is past the queue, about to be answered or
answered, has its row, and nothing in its queue that could remove it. `KnowInv` and `ListInv` are KnowsItself and LaterListsKnow for
the lists that are on their way as well. `AcquaintInv`: of two views, held or under way, one has the other's
peer and stays ahead of any that does not. `AnswerInv` and `QuitInv` say where the request of a running peer, or the
last word of one that quit, still is.

### The wire (MessagesProofs)

`DocumentsAreUnderstood` (UnderstoodAsMeant), `ResultsAreStoredRight` (ResultsAreOfTheirParam)
and `CancelsHitTheirTask` (CancelHitsItsTask, an action property), for any owners, workers, tasks,
parameters, lists and texts. First a lemma for every kind of message says what its receiver reads and
which handler it calls, defaults and lost white space included. The inductive `MessageInv` then is
TypeInv; `NodeInv`, a PeerNode made for a task belongs to its owner and never changes; `DocumentInv`, what is under way for a
PeerNode is one of the nine forms a sender writes for it; `JobInv`, each job is what its PeerNode
was made for; `ResultInv`, so is each stored result. The assumption that parameters are distinct and
not blank is TaskProtocol's as well.

### Only model-checked

* Liveness: NextPutRescues, NextPutEndsStopped, AsksFinitely, BreakIsReported. Fairness and ENABLED are beyond
  the prover.
* NotGivenUp, NoAbort and RunningJobListed for fewer peers than EnoughPeers asks for (task_refused has three parameters
  on two workers): whether Start finds its peers then depends on where in the list the owner is.
* MissingHasCause. It is about every way a death can leave the counters, the jobs and the lists, and no inductive invariant for that is given here.
* ParamRunsOnce, ResultsOnce, CompletionSound and ImplementsTask with more than one death are neither checked nor proved.
* The properties of the runs that expect a violation, which are false.

## Not modelled

* The terminator written at index -1 or 1000 of the receive buffer (`Connection.cpp:124`): what it
  overwrites is the compiler's choice.
* The message types nobody sends (PING, GET_STATE, PEER_LIST and their answers), the coordinator's
  parser for answers, which nobody gives it, and `ReadConfigFile`.
* SQL text, logging, the command a job runs, the result files, the console.
* Memory races on `m_taskList` (`Peer.cpp:464`) and on the vector GetPeerList returns by
  reference (`Database.h:36`).
* `Job::m_status` and the timing of a job. `Job::Stop` interrupts a thread that has no interruption
  point, so a cancelled job runs on and only its entry in `m_jobList` goes: that is modelled. That
  its object is freed under its thread is modelled as one of the ways a worker's process may die.
* Several tasks of one owner inside TaskProtocol, and a peer that owns a task and works for another at
  once: they share the peer thread, the peer list and the ids, and the last is what Messages is about.
* `src/architecture_change` (an older snapshot), pugixml and SQLite. The two libraries are 18000 of the
  repository's 25800 lines of C and C++, the snapshot another 2200, and neither is this system's logic.

## Plan

1. Done: MessageQueue, TaskProtocol with AbstractTask, Membership, Connection, Messages; the proofs above.
2. Proved since: the conditions under which NotGivenUp, NoAbort, NothingLeftUnasked, NoStall and RunningJobListed are theorems,
   and ParamRunsOnce, ResultsOnce, CompletionSound and the refinement with a death at any step. Left: StartSucceeds from a
   condition on the place of the owner and the number of parameters per worker, weaker than EnoughPeers; and the node
   that a second death may find left in m_taskNodes, either as a run that shows what it does or as a reason it cannot be made.
3. Model, if worth a run: a job's status under Stop, and several tasks that share one peer list.
