---------------------------- MODULE TaskProtocol ----------------------------
(***************************************************************************)
(* One distributed task: MapReduce/src/Task.cpp on the peer that owns the  *)
(* task, and the handlers of MapReduce/src/Peer.cpp and Job.cpp on the     *)
(* peers that execute its parameters, with the part of PeerNode.cpp and    *)
(* Connection.cpp that decides whether a message is sent at all.           *)
(*                                                                         *)
(* Two threads of the owner run Task's code without a lock: the "main"     *)
(* thread, which calls Task::Start and in it AskPeers, and the "task"      *)
(* thread, which Start creates first and which handles every answer.       *)
(* AskPeers takes one step per peer it tries, three when it asks it; each  *)
(* handler is one step, followed by the steps of the AskPeers it calls.    *)
(*                                                                         *)
(* A PeerNode is made for every request, and a worker makes one Job for    *)
(* every request, so a job is named by the PeerNode of its request.        *)
(***************************************************************************)
EXTENDS Integers, Sequences, SequencesExt, Eligibility

CONSTANTS
    Worker,       \* the other peers, each a process that may run jobs
    Me,           \* the peer that owns the task
    PeerLists,    \* the peer lists its database may hold
    MaxLists,     \* bound: lists that replace another while the task runs
    ParamCounts,  \* possible lengths of Task-config.xml's parameter list
    InitHandled,  \* possible numbers of jobs handled before, per worker
    MaxNodes,     \* bound: PeerNodes made for the task
    MaxDowns,     \* bound: deaths of worker processes
    Restarts,     \* whether a worker process that died may be started again
    StartRace     \* whether the task thread may handle an answer while main
                  \* is still inside Start; FALSE: it happens not to

PeerList == Seq(Worker \union {Me})

ASSUME TaskConstants ==
    /\ Me \notin Worker
    /\ PeerLists \subseteq PeerList
    /\ MaxLists \in Nat
    /\ ParamCounts \subseteq Nat \ {0}
    /\ InitHandled \subseteq [Worker -> Nat]
    /\ MaxNodes \in Nat
    /\ MaxDowns \in Nat
    /\ Restarts \in BOOLEAN
    /\ StartRace \in BOOLEAN

Param == UNION {1 .. k : k \in ParamCounts}
Node == 1 .. MaxNodes
Thread == {"main", "task"}
None == -1             \* m_peerId and m_paramIndx of a PeerNode before they are set

VARIABLES
    \* the owner's Database
    m_peerList,           \* the peer list, in order
    numLists,             \* how often it was replaced
    \* Task
    m_numRequiredPeers,   \* how many parameters the task has
    m_unAllotParamList,   \* parameters nobody has been asked to run
    m_tryPeerParamMap,    \* parameters asked for, not answered (the map's keys)
    m_peerParamMap,       \* parameters given to a peer (the map's keys)
    m_paramResultMap,     \* parameters with a result (the map's keys)
    m_tryNodes,           \* PeerNodes asked
    m_taskNodes,          \* PeerNodes told to execute
    m_peerResultAvailMap, \* PeerNodes whose result arrived
    m_numRemainingPeers,
    m_numTotalPeersTried,
    m_numMaxToTryPeers,   \* the last AskPeers' list, without the owner
    m_currentThreshold,
    m_numResultsRecvd,
    m_bStop,
    ask,                  \* per thread, where it is and AskPeers' local variables
    aborted,              \* an index or iterator out of range ended the process
    \* PeerNode and Connection, the owner's side
    numNodes,             \* how many PeerNodes exist
    nodePeer,             \* PeerNode::m_peerId
    nodeParam,            \* PeerNode::m_paramIndx
    conn,                 \* what the node and its socket know of each other
    toWorker,             \* per node, messages on their way to the worker
    toTask,               \* per node, messages on their way to the task's queue
    \* the workers
    up,                   \* workers whose process runs
    downs,                \* how many times one died
    jobList,              \* per worker, Peer::m_jobList in the order of job ids
    jobParam,             \* per job, Job::m_param
    jobRunning,           \* jobs whose thread runs
    numTaskHandled        \* per worker, WorkHistory::m_numTaskHandled

allotVars  == <<m_unAllotParamList, m_tryPeerParamMap, m_peerParamMap>>
nodeLists  == <<m_tryNodes, m_taskNodes>>
resultVars == <<m_paramResultMap, m_peerResultAvailMap, m_numResultsRecvd>>
triedVars  == <<m_numTotalPeersTried, m_numMaxToTryPeers, m_currentThreshold>>
countVars  == <<m_numRemainingPeers, triedVars>>
listVars   == <<m_peerList, numLists>>
taskVars   == <<allotVars, nodeLists, resultVars, countVars, m_bStop, ask, aborted>>
nodeVars   == <<numNodes, nodePeer, nodeParam>>
netVars    == <<conn, toWorker, toTask>>
jobVars    == <<jobList, jobParam, jobRunning, numTaskHandled>>
workerVars == <<up, downs, jobVars>>
vars == <<listVars, m_numRequiredPeers, taskVars, nodeVars, netVars, workerVars>>

-----------------------------------------------------------------------------
\* PeerNode and Connection

\* "none": no such node yet.  "up": connected.  "stale": the worker's process
\* died and the listener has not noticed.  "down": m_bConnected is false.
\* "dead": SendMessage tried to reconnect, Connection::Connect failed and its
\* result was ignored, so m_bConnected is true over a broken socket.  "eof":
\* m_bConnected is true and nobody listens, MsgListener having seen an end of
\* file, which it tells nobody, or a failure before Connect set m_bConnected.
ConnState == {"none", "up", "stale", "down", "dead", "eof"}

WorkerMessage == [type : {"TASK_REQUEST"}, param : Param]
          \union [type : {"TASK_EXECUTE", "TASK_CANCEL"}, param : {None}]

\* "EXECUTING" and "REFUSED" are TASK_EXECUTE_RESP with status true and false;
\* "CONNECTION_FAILURE" is CONNECTION_FAILURE_ON_PEER.
TaskMessage == [type : {"TASK_REQUEST_RESP", "EXECUTING", "REFUSED", "CONNECTION_FAILURE"},
                arg : Nat]
        \union [type : {"TASK_RESULT"}, arg : Param]

RequestFor(p) == [type |-> "TASK_REQUEST", param |-> p]
Execute == [type |-> "TASK_EXECUTE", param |-> None]
Cancel  == [type |-> "TASK_CANCEL", param |-> None]

\* CONNECTION_FAILURE_ON_PEER, as it reaches the task's queue.
ConnectionFailure == [type |-> "CONNECTION_FAILURE", arg |-> 0]

\* A node that is given a message can send it: it is connected, or connects to
\* the port its worker's process listens on, whichever life that is in.
Reachable(n) == conn[n] = "up" \/ (conn[n] = "down" /\ nodePeer[n] \in up)

\* PeerNode::SendMessage for every node n with something in out[n]: an
\* unconnected node connects first, a broken one loses what it is given.
SendAll(out) ==
    /\ toWorker' = [n \in Node |-> IF Reachable(n) THEN toWorker[n] \o out[n]
                                                   ELSE toWorker[n]]
    /\ conn' = [n \in Node |->
                    IF out[n] = <<>> \/ conn[n] # "down" THEN conn[n]
                    ELSE IF Reachable(n) THEN "up" ELSE "dead"]

Send(n, msg) == SendAll([m \in Node |-> IF m = n THEN <<msg>> ELSE <<>>])

\* The task handles node n's first message.
Consume(n) == toTask' = [toTask EXCEPT ![n] = Tail(@)]

-----------------------------------------------------------------------------
\* Task's helpers

\* RemovePeerFromTryNodes and RemovePeerFromFinalNodes: the first node of the
\* same peer goes, whichever node it is.
RemovePeerFrom(list, n) ==
    RemoveFirstMatch(list, LAMBDA m : nodePeer[m] = nodePeer[n])

IsInTryNodes(peer) == \E n \in ToSet(m_tryNodes) : nodePeer[n] = peer

\* Fault: a parameter that comes back is dropped.
Unallot_Forgets(p) == UNCHANGED m_unAllotParamList

\* Back onto the list of unallotted parameters, unless it is there.
Unallot(p) ==
    m_unAllotParamList' = IF Contains(m_unAllotParamList, p)
                          THEN m_unAllotParamList
                          ELSE Append(m_unAllotParamList, p)

\* Task::TaskCancel: a cancel to every node of both lists (a node in both gets
\* two), then both lists and both maps are forgotten and the loop is told to end.
TaskCancel ==
    /\ LET once(n, list) == IF Contains(list, n) THEN <<Cancel>> ELSE <<>>
       IN  SendAll([n \in Node |-> once(n, m_tryNodes) \o once(n, m_taskNodes)])
    /\ m_tryNodes' = <<>>
    /\ m_taskNodes' = <<>>
    /\ m_peerParamMap' = {}
    /\ m_tryPeerParamMap' = {}
    /\ m_bStop' = TRUE

\* Fault: off by one.
IsTaskComplete_Early == m_numResultsRecvd >= m_numRequiredPeers - 1 /\ m_taskNodes = <<>>

\* Task::IsTaskComplete
IsTaskComplete == m_numResultsRecvd >= m_numRequiredPeers /\ m_taskNodes = <<>>

-----------------------------------------------------------------------------
\* Task::AskPeers, run by either thread.  ask[t].pc is "loop" at the loop
\* condition, "scan" in an iteration whose test of the threshold is behind it,
\* "request" before TaskRequest, "erase" before the parameter is erased, and
\* "finish" after a break.  Outside AskPeers the task thread is at "check" (its
\* loop condition), "get" (GetMessage) or "done"; main has left Start at "done".

AskStep == {"loop", "scan", "request", "erase", "finish"}

Asking == [pc : AskStep \union {"check", "get", "done"}, i : Nat \ {0},
           numAsking : Nat, node : Node \union {None},
           peerList : PeerList]

\* AskPeers goes by a copy of the list, made when it is entered.
Entered == [pc |-> "loop", i |-> 1, numAsking |-> 0, node |-> None, peerList |-> m_peerList]

MaxToTry == Len(m_peerList) - 1

\* Fault: a handler that puts a parameter back does not ask anybody.
AskPeers_NotCalled ==
    /\ ask' = [ask EXCEPT !["task"].pc = "check"]
    /\ UNCHANGED <<m_numMaxToTryPeers, m_currentThreshold>>

\* The call, from a handler of the task thread.
AskPeers ==
    /\ ask' = [ask EXCEPT !["task"] = Entered]
    /\ m_numMaxToTryPeers' = MaxToTry
    /\ m_currentThreshold' = HighThreshold

Left(t) == IF t = "main" THEN "done" ELSE "check"

\* Fault: off by one.
Exhausted_Early == m_numTotalPeersTried >= m_numMaxToTryPeers - 1

Exhausted == m_numTotalPeersTried >= m_numMaxToTryPeers

\* i < peerList.size()
InList(t) == ask[t].i <= Len(ask[t].peerList)

\* peerList[i]
Peer(t) == ask[t].peerList[ask[t].i]

\* In the body of the loop.
Scanning(t) ==
    /\ ~aborted
    /\ \/ ask[t].pc = "loop" /\ InList(t) /\ ~Exhausted
       \/ ask[t].pc = "scan"

Candidate(t) == Peer(t) # Me /\ ~IsInTryNodes(Peer(t))

\* Fault: the scan restarts, but nothing it depends on is reset.
AskLower_OnlyRestarts(t) ==
    /\ ~aborted
    /\ ask[t].pc = "loop" /\ InList(t) /\ Exhausted
    /\ m_currentThreshold > MediumThreshold
    /\ ask' = [ask EXCEPT ![t].pc = "scan", ![t].i = 1]
    /\ UNCHANGED <<allotVars, nodeLists, resultVars, countVars, m_bStop, aborted, nodeVars,
                   netVars, workerVars>>

\* Every peer has been tried at the high threshold: try them all at the medium.
AskLower(t) ==
    /\ ~aborted
    /\ ask[t].pc = "loop" /\ InList(t) /\ Exhausted
    /\ m_currentThreshold > MediumThreshold
    /\ m_currentThreshold' = MediumThreshold
    /\ m_tryNodes' = <<>>
    /\ m_numTotalPeersTried' = 0
    /\ ask' = [ask EXCEPT ![t].pc = "scan", ![t].i = 1]
    /\ UNCHANGED <<allotVars, m_taskNodes, resultVars, m_numRemainingPeers,
                   m_numMaxToTryPeers, m_bStop, aborted, nodeVars, netVars, workerVars>>

\* Every peer has been tried at the medium threshold too: the task is given up.
AskGiveUp(t) ==
    /\ ~aborted
    /\ ask[t].pc = "loop" /\ InList(t) /\ Exhausted
    /\ m_currentThreshold <= MediumThreshold
    /\ TaskCancel
    /\ ask' = [ask EXCEPT ![t].pc = Left(t)]
    /\ UNCHANGED <<m_unAllotParamList, resultVars, countVars, aborted, nodeVars,
                   toTask, workerVars>>

AskSkip(t) ==
    /\ Scanning(t)
    /\ ~Candidate(t)
    /\ ask' = [ask EXCEPT ![t].pc = "loop", ![t].i = @ + 1]
    /\ UNCHANGED <<allotVars, nodeLists, resultVars, countVars, m_bStop, aborted, nodeVars,
                   netVars, workerVars>>

\* PeerNode::Connect fails: the peer counts as tried, the node is forgotten.
AskUnreachable(t) ==
    /\ Scanning(t)
    /\ Candidate(t)
    /\ Peer(t) \notin up
    /\ m_numTotalPeersTried' = m_numTotalPeersTried + 1
    /\ ask' = [ask EXCEPT ![t].pc = "loop", ![t].i = @ + 1]
    /\ UNCHANGED <<allotVars, nodeLists, resultVars, m_numRemainingPeers, m_numMaxToTryPeers,
                   m_currentThreshold, m_bStop, aborted, nodeVars, netVars, workerVars>>

\* m_unAllotParamList[paramIndx], and paramIndx is always 0.
ParamToAsk == Head(m_unAllotParamList)

\* Fault: the node is not told which parameter it was asked for.
SetParamIndex_Unset(n, p) == UNCHANGED nodeParam

SetParamIndex(n, p) == nodeParam' = [nodeParam EXCEPT ![n] = p]

\* The connection stands: the node is entered as asked for the first parameter
\* of the list.
AskConnect(t) ==
    /\ Scanning(t)
    /\ Candidate(t)
    /\ Peer(t) \in up
    /\ m_unAllotParamList # <<>>
    /\ numNodes < MaxNodes
    /\ LET n == numNodes + 1
           p == ParamToAsk
       IN  /\ numNodes' = n
           /\ nodePeer' = [nodePeer EXCEPT ![n] = Peer(t)]
           /\ SetParamIndex(n, p)
           /\ conn' = [conn EXCEPT ![n] = "up"]
           /\ m_tryNodes' = Append(m_tryNodes, n)
           /\ m_tryPeerParamMap' = m_tryPeerParamMap \union {p}
           /\ ask' = [ask EXCEPT ![t].pc = "request", ![t].node = n,
                                 ![t].numAsking = @ + 1]
    /\ m_numTotalPeersTried' = m_numTotalPeersTried + 1
    /\ UNCHANGED <<m_unAllotParamList, m_peerParamMap, m_taskNodes, resultVars,
                   m_numRemainingPeers, m_numMaxToTryPeers, m_currentThreshold, m_bStop, aborted,
                   toWorker, toTask, workerVars>>

Broke(t) == ask[t].numAsking >= m_numRemainingPeers

\* The end of an iteration that asked somebody.
NextPeer(t) ==
    ask' = [ask EXCEPT ![t].pc = IF Broke(t) THEN "finish" ELSE "loop", ![t].i = @ + 1]

\* TaskRequest for the first parameter, which is read again.  Only a request
\* that was sent takes the parameter off the list.
AskRequest(t) ==
    /\ ~aborted
    /\ ask[t].pc = "request"
    /\ m_unAllotParamList # <<>>
    /\ Send(ask[t].node, RequestFor(ParamToAsk))
    /\ \/ /\ conn'[ask[t].node] \in {"up", "stale", "eof"}
          /\ ask' = [ask EXCEPT ![t].pc = "erase"]
       \/ /\ conn'[ask[t].node] # "up"
          /\ NextPeer(t)
    /\ UNCHANGED <<allotVars, nodeLists, resultVars, countVars, m_bStop, aborted, nodeVars,
                   toTask, workerVars>>

\* Fault: the list is cleared.
EraseAsked_All == m_unAllotParamList' = <<>>

\* Fault: the parameter stays.
EraseAsked_None == UNCHANGED m_unAllotParamList

EraseAsked == m_unAllotParamList' = Tail(m_unAllotParamList)

AskErase(t) ==
    /\ ~aborted
    /\ ask[t].pc = "erase"
    /\ m_unAllotParamList # <<>>
    /\ EraseAsked
    /\ NextPeer(t)
    /\ UNCHANGED <<m_tryPeerParamMap, m_peerParamMap, nodeLists, resultVars, countVars,
                   m_bStop, aborted, nodeVars, netVars, workerVars>>

\* m_unAllotParamList[0] or its erasure on an empty list: the checked iterators
\* of the build end the process.
AskAbort(t) ==
    /\ \/ Scanning(t) /\ Candidate(t) /\ Peer(t) \in up
       \/ ~aborted /\ ask[t].pc \in {"request", "erase"}
    /\ m_unAllotParamList = <<>>
    /\ aborted' = TRUE
    /\ UNCHANGED <<allotVars, nodeLists, resultVars, countVars, m_bStop, ask, nodeVars,
                   netVars, workerVars>>

\* After the loop: not enough peers could be asked, or the count is taken down.
AskEnd(t) ==
    /\ ~aborted
    /\ \/ ask[t].pc = "finish"
       \/ ask[t].pc = "loop" /\ ~InList(t)
    /\ ask' = [ask EXCEPT ![t].pc = Left(t)]

AskShort(t) ==
    /\ AskEnd(t)
    /\ ~Broke(t)
    /\ TaskCancel
    /\ UNCHANGED <<m_unAllotParamList, resultVars, countVars, aborted, nodeVars,
                   toTask, workerVars>>

AskEnough(t) ==
    /\ AskEnd(t)
    /\ Broke(t)
    /\ m_numRemainingPeers' = m_numRemainingPeers - ask[t].numAsking
    /\ UNCHANGED <<allotVars, nodeLists, resultVars, triedVars, m_bStop, aborted, nodeVars, netVars, workerVars>>

-----------------------------------------------------------------------------
\* Peer::HandlePeerList on the owner: its peer thread installs another list,
\* which an answer to a request carried, whatever the task is doing.  (A request
\* from a peer it does not know, or a late HandleOnlineResp, changes it as well.)
HandlePeerList(list) ==
    /\ ~aborted
    /\ numLists < MaxLists
    /\ m_peerList' = list
    /\ numLists' = numLists + 1
    /\ UNCHANGED <<m_numRequiredPeers, taskVars, nodeVars, netVars, workerVars>>

-----------------------------------------------------------------------------
\* Task::run and its handlers.  The owner's Peer thread only forwards these
\* messages to the task's queue, so a handler takes the first message of any
\* node: each interleaving of the connections is an order of the queue.

\* Fault: the loop forgets its flag.
Looping_Always == TRUE

\* while (!m_bStop)
Looping == ~m_bStop

TaskCheck ==
    /\ ~aborted
    /\ ask["task"].pc = "check"
    /\ ask' = [ask EXCEPT !["task"].pc = IF Looping THEN "get" ELSE "done"]
    /\ UNCHANGED <<allotVars, nodeLists, resultVars, countVars, m_bStop, aborted,
                   nodeVars, netVars, workerVars>>

\* GetMessage returned NULL; the wait that follows ends at the loop condition.
TaskWait ==
    /\ ~aborted
    /\ ask["task"].pc = "get"
    /\ \A n \in Node : toTask[n] = <<>>
    /\ ask' = [ask EXCEPT !["task"].pc = "check"]
    /\ UNCHANGED <<allotVars, nodeLists, resultVars, countVars, m_bStop, aborted,
                   nodeVars, netVars, workerVars>>

\* GetMessage returned node n's message of this type.
Receives(n, type) ==
    /\ ~aborted
    /\ ask["task"].pc = "get"
    /\ StartRace \/ ask["main"].pc = "done"
    /\ toTask[n] # <<>>
    /\ Head(toTask[n]).type = type

BackToLoop == ask' = [ask EXCEPT !["task"].pc = "check"]

Eligible(n) == PeerEligibility(Head(toTask[n]).arg) >= m_currentThreshold

\* HandleTaskRequestResponse: the peer is eligible and is told to execute.
HandleEligible(n) ==
    /\ Receives(n, "TASK_REQUEST_RESP")
    /\ Eligible(n)
    /\ Consume(n)
    /\ m_numRemainingPeers' = m_numRemainingPeers - 1
    /\ m_taskNodes' = Append(m_taskNodes, n)
    /\ m_peerParamMap' = m_peerParamMap \union {nodeParam[n]}
    /\ m_tryPeerParamMap' = m_tryPeerParamMap \ {nodeParam[n]}
    /\ Send(n, Execute)
    /\ BackToLoop
    /\ UNCHANGED <<m_unAllotParamList, m_tryNodes, resultVars, triedVars, m_bStop, aborted,
                   nodeVars, workerVars>>

\* HandleTaskRequestResponse: it is not, and the parameter goes to somebody else.
HandleNotEligible(n) ==
    /\ Receives(n, "TASK_REQUEST_RESP")
    /\ ~Eligible(n)
    /\ nodeParam[n] \in m_tryPeerParamMap
    /\ Consume(n)
    /\ Send(n, Cancel)
    /\ m_tryPeerParamMap' = m_tryPeerParamMap \ {nodeParam[n]}
    /\ Unallot(nodeParam[n])
    /\ AskPeers
    /\ UNCHANGED <<m_peerParamMap, nodeLists, resultVars, m_numRemainingPeers,
                   m_numTotalPeersTried, m_bStop, aborted, nodeVars, workerVars>>

\* m_tryPeerParamMap.erase(end()): the build's checked iterators end the process.
HandleNotEligibleAbort(n) ==
    /\ Receives(n, "TASK_REQUEST_RESP")
    /\ ~Eligible(n)
    /\ nodeParam[n] \notin m_tryPeerParamMap
    /\ Consume(n)
    /\ Send(n, Cancel)
    /\ aborted' = TRUE
    /\ UNCHANGED <<allotVars, nodeLists, resultVars, countVars, m_bStop, ask, nodeVars,
                   workerVars>>

\* HandleTaskExecuteResponse with status true does nothing.
HandleExecuting(n) ==
    /\ Receives(n, "EXECUTING")
    /\ Consume(n)
    /\ BackToLoop
    /\ UNCHANGED <<allotVars, nodeLists, resultVars, countVars, m_bStop, aborted, nodeVars,
                   conn, toWorker, workerVars>>

\* HandleTaskExecuteResponse with status false.
HandleRefused(n) ==
    /\ Receives(n, "REFUSED")
    /\ Consume(n)
    /\ m_numRemainingPeers' = m_numRemainingPeers + 1
    /\ m_taskNodes' = RemovePeerFrom(m_taskNodes, n)
    /\ m_peerParamMap' = m_peerParamMap \ {nodeParam[n]}
    /\ Unallot(nodeParam[n])
    /\ AskPeers
    /\ UNCHANGED <<m_tryPeerParamMap, m_tryNodes, resultVars, m_numTotalPeersTried, m_bStop,
                   aborted, nodeVars, conn, toWorker, workerVars>>

\* HandleTaskResult.  DestroyPeerNode closes the connection; the node's own
\* listener sees an end of file or an error, and reports only the error.
HandleTaskResult(n) ==
    /\ Receives(n, "TASK_RESULT")
    /\ m_taskNodes' = RemovePeerFrom(m_taskNodes, n)
    /\ m_tryNodes' = RemovePeerFrom(m_tryNodes, n)
    /\ m_numResultsRecvd' = m_numResultsRecvd + 1
    /\ m_paramResultMap' = m_paramResultMap \union {Head(toTask[n]).arg}
    /\ m_peerResultAvailMap' = m_peerResultAvailMap \union {n}
    /\ conn' = [conn EXCEPT ![n] = "down"]
    /\ \/ Consume(n)
       \/ /\ conn[n] \in {"up", "stale", "dead"}
          /\ toTask' = [toTask EXCEPT ![n] = Append(Tail(@), ConnectionFailure)]
    /\ BackToLoop
    /\ UNCHANGED <<allotVars, countVars, m_bStop, aborted, nodeVars, toWorker, workerVars>>

\* The failed connection is of a node that runs a parameter of this task.
Concerns(n) == Contains(m_taskNodes, n) /\ n \notin m_peerResultAvailMap

HandlePeerConnFailure(n) ==
    /\ Receives(n, "CONNECTION_FAILURE")
    /\ Concerns(n)
    /\ Consume(n)
    /\ m_tryPeerParamMap' = m_tryPeerParamMap \ {nodeParam[n]}
    /\ m_peerParamMap' = m_peerParamMap \ {nodeParam[n]}
    /\ Unallot(nodeParam[n])
    /\ Send(n, Cancel)
    /\ m_taskNodes' = RemoveFirst(m_taskNodes, n)
    /\ m_tryNodes' = RemovePeerFrom(m_tryNodes, n)
    /\ m_numRemainingPeers' = m_numRemainingPeers + 1
    /\ AskPeers
    /\ UNCHANGED <<resultVars, m_numTotalPeersTried, m_bStop, aborted, nodeVars, workerVars>>

IgnorePeerConnFailure(n) ==
    /\ Receives(n, "CONNECTION_FAILURE")
    /\ ~Concerns(n)
    /\ Consume(n)
    /\ BackToLoop
    /\ UNCHANGED <<allotVars, nodeLists, resultVars, countVars, m_bStop, aborted, nodeVars,
                   conn, toWorker, workerVars>>

-----------------------------------------------------------------------------
\* The worker: Peer::HandleRequests, and the threads of its jobs.

\* The worker's process handles the first message of node n, of this type.
WorkerReceives(n, type) ==
    /\ toWorker[n] # <<>>
    /\ Head(toWorker[n]).type = type
    /\ toWorker' = [toWorker EXCEPT ![n] = Tail(@)]

\* Fault: the answer is never sent.
Reply_Lost(n, type, arg) == UNCHANGED toTask

Reply(n, type, arg) ==
    toTask' = [toTask EXCEPT ![n] = Append(@, [type |-> type, arg |-> arg])]

\* HandleTaskRequest: CreateJob, and TaskResponse with the peer's work history.
HandleTaskRequest(n) ==
    /\ WorkerReceives(n, "TASK_REQUEST")
    /\ jobList' = [jobList EXCEPT ![nodePeer[n]] = Append(@, n)]
    /\ jobParam' = [jobParam EXCEPT ![n] = Head(toWorker[n]).param]
    /\ Reply(n, "TASK_REQUEST_RESP", numTaskHandled[nodePeer[n]])
    /\ UNCHANGED <<taskVars, nodeVars, conn, up, downs, jobRunning, numTaskHandled>>

\* HandleTaskExecute: GetJob with the connection's node finds this request's job.
HandleTaskExecute(n) ==
    /\ WorkerReceives(n, "TASK_EXECUTE")
    /\ IF Contains(jobList[nodePeer[n]], n)
       THEN /\ jobRunning' = jobRunning \union {n}
            /\ Reply(n, "EXECUTING", 0)
       ELSE /\ Reply(n, "REFUSED", 0)
            /\ UNCHANGED jobRunning
    /\ UNCHANGED <<taskVars, nodeVars, conn, up, downs, jobList, jobParam,
                   numTaskHandled>>

\* Fault: every job of the owner and task goes.
WithoutOldest_None(jobs) == <<>>

WithoutOldest(jobs) == IF jobs = <<>> THEN jobs ELSE Tail(jobs)

\* HandleTaskCancel: GetJob without the node finds the oldest job of this owner
\* and this task.  Its thread is interrupted where it has no interruption point,
\* so it runs on; only the entry of m_jobList goes.
HandleTaskCancel(n) ==
    /\ WorkerReceives(n, "TASK_CANCEL")
    /\ jobList' = [jobList EXCEPT ![nodePeer[n]] = WithoutOldest(@)]
    /\ UNCHANGED <<taskVars, nodeVars, conn, toTask, up, downs, jobParam,
                   jobRunning, numTaskHandled>>

\* Job::run ends and HandleJobExecution sends the result, unless the job is no
\* longer in the list.  A finished job stays in the list.
JobDone(n) ==
    /\ n \in jobRunning
    /\ jobRunning' = jobRunning \ {n}
    /\ IF Contains(jobList[nodePeer[n]], n)
       THEN /\ numTaskHandled' = [numTaskHandled EXCEPT ![nodePeer[n]] = @ + 1]
            /\ Reply(n, "TASK_RESULT", jobParam[n])
       ELSE UNCHANGED <<numTaskHandled, toTask>>
    /\ UNCHANGED <<taskVars, nodeVars, conn, toWorker, up, downs, jobList, jobParam>>

-----------------------------------------------------------------------------
\* Processes that die and connections that break

NodesOf(w) == {n \in Node : nodePeer[n] = w}

\* A worker's process dies (or uses a job that was freed while its thread ran).
\* Its jobs, its history and whatever was on its way to it are gone.
WorkerDown(w) ==
    /\ downs < MaxDowns
    /\ w \in up
    /\ downs' = downs + 1
    /\ up' = up \ {w}
    /\ jobList' = [jobList EXCEPT ![w] = <<>>]
    /\ jobRunning' = jobRunning \ NodesOf(w)
    /\ numTaskHandled' = [numTaskHandled EXCEPT ![w] = 0]
    /\ toWorker' = [n \in Node |-> IF n \in NodesOf(w) THEN <<>> ELSE toWorker[n]]
    /\ conn' = [n \in Node |-> IF n \in NodesOf(w) /\ conn[n] = "up" THEN "stale"
                                                                     ELSE conn[n]]
    /\ UNCHANGED <<taskVars, nodeVars, toTask, jobParam>>

WorkerUp(w) ==
    /\ Restarts
    /\ w \notin up
    /\ up' = up \union {w}
    /\ UNCHANGED <<taskVars, nodeVars, netVars, downs, jobVars>>

\* Fault: the failure is not reported.
HandleConnectionBroken_Silent(n) == UNCHANGED toTask

\* What the socket still held, which was sent after every earlier failure, is
\* lost; the rest and the event reach the queue.
HandleConnectionBroken(n) ==
    \E k \in 0 .. Len(toTask[n]) :
        /\ \A i \in k + 1 .. Len(toTask[n]) : toTask[n][i] # ConnectionFailure
        /\ toTask' = [toTask EXCEPT ![n] = Append(SubSeq(@, 1, k), ConnectionFailure)]

\* recv fails: ConnectionBroke, HandleConnectionBroken and, through the Peer
\* thread, HandleConnectionFailure.  The listener of a node that reconnected in
\* vain may come to this before Connect sets m_bConnected, its last line.
RecvError(n) ==
    /\ ~aborted
    /\ conn[n] \in {"stale", "dead"}
    /\ \/ conn' = [conn EXCEPT ![n] = "down"]
       \/ conn[n] = "dead" /\ conn' = [conn EXCEPT ![n] = "eof"]
    /\ HandleConnectionBroken(n)
    /\ UNCHANGED <<taskVars, nodeVars, toWorker, workerVars>>

\* recv returns 0: the listener ends, and m_bConnected stays true.
RecvEof(n) ==
    /\ ~aborted
    /\ conn[n] = "stale"
    /\ conn' = [conn EXCEPT ![n] = "eof"]
    /\ UNCHANGED <<taskVars, nodeVars, toWorker, toTask, workerVars>>

-----------------------------------------------------------------------------

\* AddTaskParams has run; Start has created the task thread and calls AskPeers.
Init ==
    /\ m_peerList \in PeerLists
    /\ numLists = 0
    /\ m_numRequiredPeers \in ParamCounts
    /\ m_unAllotParamList = [i \in 1 .. m_numRequiredPeers |-> i]
    /\ m_tryPeerParamMap = {}
    /\ m_peerParamMap = {}
    /\ m_paramResultMap = {}
    /\ m_tryNodes = <<>>
    /\ m_taskNodes = <<>>
    /\ m_peerResultAvailMap = {}
    /\ m_numRemainingPeers = m_numRequiredPeers
    /\ m_numTotalPeersTried = 0
    /\ m_numMaxToTryPeers = MaxToTry
    /\ m_currentThreshold = HighThreshold
    /\ m_numResultsRecvd = 0
    /\ m_bStop = FALSE
    /\ ask = [main |-> Entered, task |-> [Entered EXCEPT !.pc = "check"]]
    /\ aborted = FALSE
    /\ numNodes = 0
    /\ nodePeer = [n \in Node |-> None]
    /\ nodeParam = [n \in Node |-> None]
    /\ conn = [n \in Node |-> "none"]
    /\ toWorker = [n \in Node |-> <<>>]
    /\ toTask = [n \in Node |-> <<>>]
    /\ up = Worker
    /\ downs = 0
    /\ jobList = [w \in Worker |-> <<>>]
    /\ jobParam = [n \in Node |-> None]
    /\ jobRunning = {}
    /\ numTaskHandled \in InitHandled

AskPeersStep(t) ==
    \/ AskLower(t) \/ AskGiveUp(t) \/ AskSkip(t) \/ AskUnreachable(t) \/ AskConnect(t)
    \/ AskRequest(t) \/ AskErase(t) \/ AskAbort(t) \/ AskShort(t) \/ AskEnough(t)

TaskHandler(n) ==
    \/ HandleEligible(n) \/ HandleNotEligible(n) \/ HandleNotEligibleAbort(n)
    \/ HandleExecuting(n) \/ HandleRefused(n) \/ HandleTaskResult(n)
    \/ HandlePeerConnFailure(n) \/ IgnorePeerConnFailure(n)

WorkerStep(n) == HandleTaskRequest(n) \/ HandleTaskExecute(n) \/ HandleTaskCancel(n)

Step ==
    \/ \E t \in Thread : AskPeersStep(t)
    \/ TaskCheck
    \/ TaskWait
    \/ \E n \in Node : \/ TaskHandler(n) \/ WorkerStep(n) \/ JobDone(n)
                       \/ RecvError(n) \/ RecvEof(n)
    \/ \E w \in Worker : WorkerDown(w) \/ WorkerUp(w)

Next ==
    \/ Step /\ UNCHANGED <<listVars, m_numRequiredPeers>>
    \/ \E list \in PeerLists : HandlePeerList(list)

Spec == Init /\ [][Next]_vars

-----------------------------------------------------------------------------
\* Properties

\* Every variable is what the code can make of it, m_paramIndx and the indices
\* that travel with messages and jobs included.
TypeOK ==
    /\ m_peerList \in PeerLists
    /\ numLists \in Nat
    /\ m_numRequiredPeers \in ParamCounts
    /\ m_unAllotParamList \in Seq(Param)
    /\ m_tryPeerParamMap \subseteq Param
    /\ m_peerParamMap \subseteq Param
    /\ m_paramResultMap \subseteq Param
    /\ m_tryNodes \in Seq(Node)
    /\ m_taskNodes \in Seq(Node)
    /\ m_peerResultAvailMap \subseteq Node
    /\ m_numRemainingPeers \in Int
    /\ m_numTotalPeersTried \in Nat
    /\ m_numMaxToTryPeers \in Int
    /\ m_currentThreshold \in {HighThreshold, MediumThreshold}
    /\ m_numResultsRecvd \in Nat
    /\ m_bStop \in BOOLEAN
    /\ ask \in [Thread -> Asking]
    /\ aborted \in BOOLEAN
    /\ numNodes \in 0 .. MaxNodes
    /\ nodePeer \in [Node -> Worker \union {None}]
    /\ nodeParam \in [Node -> Param \union {None}]
    /\ conn \in [Node -> ConnState]
    /\ toWorker \in [Node -> Seq(WorkerMessage)]
    /\ toTask \in [Node -> Seq(TaskMessage)]
    /\ up \subseteq Worker
    /\ downs \in Nat
    /\ jobList \in [Worker -> Seq(Node)]
    /\ jobParam \in [Node -> Param \union {None}]
    /\ jobRunning \subseteq Node
    /\ numTaskHandled \in [Worker -> Nat]

\* A parameter's place: not asked, asked, given to a peer, or with a result.
Accounted == ToSet(m_unAllotParamList) \union m_tryPeerParamMap \union m_peerParamMap
                                       \union m_paramResultMap

\* Whatever the answers, refusals, deaths and their order, the handlers' moves
\* between the list and the two maps never drop a parameter of a live task.
NoParamLost == m_bStop \/ aborted \/ 1 .. m_numRequiredPeers \subseteq Accounted

\* What AskPeers erases after a request is the parameter of that request: "if
\* req successfully sent then erase param from the unalloted param list".
ErasesWhatItAsked ==
    \A t \in Thread : ask[t].pc = "erase" /\ m_unAllotParamList # <<>> =>
        Head(m_unAllotParamList) = nodeParam[ask[t].node]

\* Neither m_unAllotParamList[0] nor the map's erase is ever out of range.
NoAbort == ~aborted

\* No parameter runs at two peers at once, or still when its result has come:
\* deaths, late failures and refusals never give out what somebody works on.
ParamRunsOnce ==
    /\ \A n, m \in jobRunning : jobParam[n] = jobParam[m] => n = m
    /\ \A n \in jobRunning : jobParam[n] \notin m_paramResultMap

\* m_numResultsRecvd, which decides that the task is complete, counts every
\* parameter's result once.
ResultsOnce == m_numResultsRecvd = Cardinality(m_paramResultMap)

\* IsTaskComplete goes by that count and by m_taskNodes, from which nodes are
\* removed by peer: it is still true only when every parameter has a result.
CompletionSound == IsTaskComplete => m_paramResultMap = 1 .. m_numRequiredPeers

\* Neither thread is inside AskPeers, and the task goes on.
Idle == ~aborted /\ ~m_bStop /\ \A t \in Thread : ask[t].pc \notin AskStep

\* Between two messages no parameter waits to be asked for: nothing but an
\* answer makes the task ask, so one left here may be left for ever.
NothingLeftUnasked == Idle => m_unAllotParamList = <<>>

\* Nothing is under way: no message, no job, no broken connection to notice.
Quiet ==
    /\ Idle
    /\ \A n \in Node : toTask[n] = <<>> /\ toWorker[n] = <<>>
    /\ jobRunning = {}
    /\ \A n \in Node : conn[n] \notin {"stale", "dead"}

\* While no process dies, the protocol never comes to rest short of completion.
NoStall == Quiet /\ downs = 0 => IsTaskComplete

\* What a task at rest still misses waits to be asked for, or was last asked of a
\* peer that died, or of one that was told to run it and had that job cancelled
\* in another's stead: whoever refused or died in whatever order, and however the
\* counters were left, no parameter is simply forgotten.
MissingHasCause == Quiet =>
    \A p \in 1 .. m_numRequiredPeers \ (m_paramResultMap \union ToSet(m_unAllotParamList)) :
        \E n \in 1 .. numNodes :
            /\ nodeParam[n] = p
            /\ \A m \in n + 1 .. numNodes : nodeParam[m] # p
            /\ \/ nodePeer[n] \notin up
               \/ p \in m_peerParamMap /\ ~Contains(jobList[nodePeer[n]], n)

\* It does come to rest: asking, refusing and asking again cannot go on for
\* ever.  No fairness is assumed; only the loop's polling may repeat.
AsksFinitely == <>[][TaskCheck \/ TaskWait]_vars

\* A cancel, which names only the owner and the task, never hits a job whose
\* thread runs (that thread would go on with a freed Job).
RunningJobListed == \A n \in jobRunning : Contains(jobList[nodePeer[n]], n)

\* The task is not given up while every peer is alive, though there are fewer
\* peers than parameters and all of them fall short of the high threshold.
NotGivenUp == ~m_bStop

\* The owner will learn that a peer that was executing died: the event is on its
\* way or still to come, unless the listener saw a clean end of file.
DeathWillBeSeen ==
    \A n \in ToSet(m_taskNodes) \ m_peerResultAvailMap :
        \/ aborted
        \/ nodePeer[n] \in up
        \/ conn[n] \in {"stale", "dead", "eof"}
        \/ Contains(toTask[n], ConnectionFailure)

\* Once the task is cancelled it asks nobody any more, though the task thread
\* may still handle the one answer it was waiting for when main cancelled.
NoRequestAfterStop == [][m_bStop => numNodes' = numNodes]_vars

\* "cancel its task and send this task to some other peer": when the owner has
\* handled all that came, a parameter whose peer had a job for it and died waits
\* for nobody to ask for it, if a peer is left and every peer left is eligible.
HandedOver ==
    Idle /\ up # {} /\ (\A w \in up : numTaskHandled[w] >= 2) =>
        \A n \in Node : nodePeer[n] \notin up => jobParam[n] \notin ToSet(m_unAllotParamList)

\* What a task is given up leaves for its thread: the message it is waiting for.
Life == IF ~m_bStop THEN "on" ELSE IF ask["task"].pc = "get" THEN "last" ELSE "over"

Abstract == INSTANCE AbstractTask WITH
    params <- 1 .. m_numRequiredPeers,
    given  <- m_peerParamMap \ m_paramResultMap,
    done   <- m_paramResultMap,
    count  <- m_numResultsRecvd,
    life   <- Life

\* The two threads, the lists, maps and counters, the jobs and the connections
\* implement the abstract task.
ImplementsTask == Abstract!Spec

\* m_taskNodes: "final nodes where task is running".
FinalNodesAreWhereItRuns == m_bStop \/ jobRunning \subseteq ToSet(m_taskNodes)

=============================================================================
