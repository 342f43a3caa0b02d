------------------------------ MODULE Messages ------------------------------
(***************************************************************************)
(* What the peers and the coordinator write to each other and what they    *)
(* make of it: the send operations of PeerNode.cpp, the XML that           *)
(* Message.cpp of the one program writes and Message.cpp of the other      *)
(* reads, the dispatch of what was read to the handlers, and the jobs and  *)
(* results that are found by what the messages say of owner, task and      *)
(* parameter.  Several owners, with several tasks each, use a worker.      *)
(*                                                                         *)
(* A document is its root and a function of its elements: numbers, texts,  *)
(* and for "task", "history", "result" and "peerlist" what they contain.   *)
(* When an owner executes or cancels is TaskProtocol's subject; here it    *)
(* may at any time.                                                        *)
(***************************************************************************)
EXTENDS Naturals, Sequences, SequencesExt, FiniteSets

CONSTANTS
    Owner,         \* ids of the peers that own tasks
    Worker,        \* ids of the peers they ask
    Coordinator,   \* no peer's id
    m_paramList,   \* the parameters in Task-config.xml
    MaxSigned,     \* the largest int
    PeerLists,     \* lists with their timestamps, as peers and coordinators have them
    ResultLists,   \* what jobs print, line by line
    MaxTasks,      \* bound: tasks of an owner
    MaxNodes       \* bound: PeerNodes made

Peer == Owner \union Worker

\* Character data of which nothing is left when it is read
Blank(text) == text \in {"", " "}

ASSUME MessagesConstants ==
    /\ Peer \subseteq Nat \ {0} /\ Coordinator \notin Peer
    /\ m_paramList \in Seq(STRING) /\ IsInjective(m_paramList)
    /\ \A i \in DOMAIN m_paramList : ~Blank(m_paramList[i])
    /\ MaxSigned \in Nat \ {0}
    /\ \A l \in PeerLists : l.peers \in Seq(Peer) \ {<<>>} /\ l.ts \in Nat
    /\ \A r \in ResultLists : r \in Seq(STRING)
    /\ {MaxTasks, MaxNodes} \subseteq Nat

TaskId == 1 .. MaxTasks
Node == 1 .. MaxNodes
\* No PeerNode yet, and nothing on its way
NoNode == [from |-> 0, to |-> 0, task |-> 0, param |-> 0]
Nothing == [to |-> 0, doc |-> [root |-> "", els |-> <<>>], meant |-> <<>>]

VARIABLES
    m_taskList,   \* per owner, the tasks AddTask has made
    m_jobList,    \* per worker, the jobs in the order of their ids
    results,      \* per result an owner handled, the index it found and the node
    numNodes,
    node,         \* per PeerNode, what its connection was made for
    wire          \* per PeerNode, the document on its way; bound: one at a time

vars == <<m_taskList, m_jobList, results, numNodes, node, wire>>

-----------------------------------------------------------------------------
\* Writing

\* enum REQ_TYPE and RESP_TYPE, in either program
REQ_TYPE == [TASK_EXECUTE |-> 2, TASK_REQUEST |-> 4, TASK_RESULT |-> 5,
             TASK_CANCEL |-> 6, GET_OFFLINE |-> 8, GET_ONLINE |-> 9]
RESP_TYPE == [TASK_EXECUTE_RESP |-> 2, TASK_REQUEST_RESP |-> 4,
              GET_ONLINE_RESP |-> 7]
CoordinatorREQ_TYPE == [GET_OFFLINE |-> 8, GET_ONLINE |-> 9]
CoordinatorRESP_TYPE == [GET_ONLINE_RESP |-> 7]

\* The element, unless there is nothing in it.
IfAny(name, content) == IF DOMAIN content = {} THEN <<>> ELSE [n \in {name} |-> content]

\* The elements of the one and of the other, which have no name in common.
Join(els, more) ==
    [name \in DOMAIN els \union DOMAIN more |-> IF name \in DOMAIN els THEN els[name] ELSE more[name]]

\* A timestamp is written if it is not 0.
TimestampAndList(ts, peerList) ==
    Join(IF ts > 0 THEN [timestamp |-> ts] ELSE <<>>, IfAny("peerlist", peerList))

\* lexical_cast of a bool
AsNumber(b) == IF b THEN 1 ELSE 0

\* RequestMessage::GetXML
RequestXML(type, from, port, taskMap, resultList) ==
    [root |-> "Request",
     els |-> Join([type |-> type, frompeer |-> from, listenport |-> port],
                  Join(IfAny("task", taskMap), IfAny("result", resultList)))]

\* ResponseMessage::GetXML of the peers
ResponseXML(type, status, from, ts, peerList, taskMap, history) ==
    [root |-> "Response",
     els |-> Join([type |-> type, status |-> AsNumber(status), frompeer |-> from],
                  Join(TimestampAndList(ts, peerList),
                       Join(IfAny("task", taskMap), IfAny("history", history))))]

\* Fault: the peer id, which is not used any more, is not written either.
RespondOnlineXML_NoFrom(ts, peerList) ==
    [root |-> "Response",
     els |-> Join([type |-> CoordinatorRESP_TYPE.GET_ONLINE_RESP, status |-> 1],
                  TimestampAndList(ts, peerList))]

\* The coordinator's ResponseMessage::GetXML, as RespondOnline fills it in
RespondOnlineXML(ts, peerList) ==
    [root |-> "Response",
     els |-> Join([type |-> CoordinatorRESP_TYPE.GET_ONLINE_RESP, status |-> 1, frompeer |-> 0],
                  TimestampAndList(ts, peerList))]

-----------------------------------------------------------------------------
\* Reading

\* pugixml drops character data that is nothing but white space.
PcData(text) == IF Blank(text) THEN "" ELSE text

\* A number beyond the range of int is read as the largest one.
atoi(n) == IF n > MaxSigned THEN MaxSigned ELSE n

Child(doc, name, default) == IF name \in DOMAIN doc.els THEN doc.els[name] ELSE default

Has(doc, root, names) == doc.root = root /\ names \subseteq DOMAIN doc.els

\* Message::GetTaskMap and GetResult
GetTaskMap(task) ==
    [name \in DOMAIN task |-> IF name = "taskParam" THEN PcData(task[name]) ELSE task[name]]
GetResult(lines) == [i \in DOMAIN lines |-> PcData(lines[i])]

TaskIdOf(taskMap) == IF "taskid" \in DOMAIN taskMap THEN taskMap["taskid"] ELSE 0
ParamOf(taskMap) == IF "taskParam" \in DOMAIN taskMap THEN taskMap["taskParam"] ELSE ""

\* RequestMessage::ParseRequestMessage of the peers, of a document that Has it
ParseRequestMessage(doc) ==
    LET taskMap == GetTaskMap(Child(doc, "task", <<>>))
    IN  [m_reqType |-> doc.els["type"], m_fromPeerId |-> doc.els["frompeer"],
         m_listenPort |-> doc.els["listenport"], m_taskId |-> TaskIdOf(taskMap),
         m_taskMap |-> taskMap, m_resultList |-> GetResult(Child(doc, "result", <<>>))]

\* ResponseMessage::ParseResponseMessage of the peers
ParseResponseMessage(doc) ==
    LET taskMap == GetTaskMap(Child(doc, "task", <<>>))
    IN  [m_respType |-> doc.els["type"], m_status |-> doc.els["status"] # 0,
         m_timestamp |-> atoi(Child(doc, "timestamp", 0)),
         m_peerList |-> Child(doc, "peerlist", <<>>), m_taskId |-> TaskIdOf(taskMap),
         m_sysHistory |-> Child(doc, "history", <<>>)]

\* RequestMessage::ParseRequestMessage of the coordinator
CoordinatorParseRequest(doc) ==
    [m_reqType |-> doc.els["type"], m_fromPeerId |-> doc.els["frompeer"],
     m_listenPort |-> doc.els["listenport"]]

-----------------------------------------------------------------------------
\* What the receiver does with a document: the handlers it calls, with what
\* they read of the message, or nothing.

\* Peer::HandlePeerList takes no list without a timestamp.
HandlePeerList(m) ==
    IF m.m_peerList # <<>> /\ m.m_timestamp > 0
    THEN << <<"HandlePeerList", m.m_peerList, m.m_timestamp>> >> ELSE <<>>

\* Peer::HandleResponses and Task::ProcessMessages
HandleResponses(p, m) ==
    HandlePeerList(m) \o
    CASE m.m_respType = RESP_TYPE.TASK_REQUEST_RESP /\ m.m_taskId \in m_taskList[p] ->
            << <<"HandleTaskRequestResponse", m.m_taskId, m.m_status, m.m_sysHistory>> >>
      [] m.m_respType = RESP_TYPE.TASK_EXECUTE_RESP /\ m.m_taskId \in m_taskList[p] ->
            << <<"HandleTaskExecuteResponse", m.m_taskId, m.m_status>> >>
      [] m.m_respType = RESP_TYPE.GET_ONLINE_RESP ->
            << <<"HandleOnlineResp", m.m_peerList, m.m_timestamp>> >>
      [] OTHER -> <<>>

\* Peer::HandleRequests and Task::ProcessMessages
HandleRequests(p, m) ==
    CASE m.m_reqType = REQ_TYPE.TASK_REQUEST ->
            << <<"HandleTaskRequest", m.m_fromPeerId, m.m_listenPort, m.m_taskId,
                 ParamOf(m.m_taskMap)>> >>
      [] m.m_reqType = REQ_TYPE.TASK_EXECUTE -> << <<"HandleTaskExecute", m.m_fromPeerId, m.m_taskId>> >>
      [] m.m_reqType = REQ_TYPE.TASK_CANCEL -> << <<"HandleTaskCancel", m.m_fromPeerId, m.m_taskId>> >>
      [] m.m_reqType = REQ_TYPE.TASK_RESULT /\ m.m_taskId \in m_taskList[p] ->
            << <<"HandleTaskResult", m.m_taskId, m.m_taskMap["status"] # 0,
                 ParamOf(m.m_taskMap), m.m_resultList>> >>
      [] OTHER -> <<>>

\* Coordinator::HandleRequests
CoordinatorHandleRequests(m) ==
    CASE m.m_reqType = CoordinatorREQ_TYPE.GET_ONLINE ->
            << <<"HandlePeerOnline", m.m_fromPeerId, m.m_listenPort>> >>
      [] m.m_reqType = CoordinatorREQ_TYPE.GET_OFFLINE -> << <<"HandlePeerOffline", m.m_fromPeerId>> >>
      [] OTHER -> <<>>

RequestHeader == {"type", "frompeer", "listenport"}
ResponseHeader == {"type", "frompeer", "status"}

\* Message::ParseMessage and the receiving program's ProcessMessages
ProcessMessages(to, doc) ==
    IF to = Coordinator
    THEN IF Has(doc, "Request", RequestHeader)
         THEN CoordinatorHandleRequests(CoordinatorParseRequest(doc)) ELSE <<>>
    ELSE IF Has(doc, "Request", RequestHeader) THEN HandleRequests(to, ParseRequestMessage(doc))
    ELSE IF Has(doc, "Response", ResponseHeader) THEN HandleResponses(to, ParseResponseMessage(doc))
    ELSE <<>>

-----------------------------------------------------------------------------
\* The send operations of PeerNode.  "meant" is history: what the receiver is to
\* do with the document.

Quiet(n) == wire[n].to = 0

\* A PeerNode is made, from one process to another, and its first document sent.
Connects(purpose, doc, meant) ==
    /\ numNodes < MaxNodes
    /\ numNodes' = numNodes + 1
    /\ node' = [node EXCEPT ![numNodes'] = purpose]
    /\ wire' = [wire EXCEPT ![numNodes'] = [to |-> purpose.to, doc |-> doc, meant |-> meant]]

SendsTo(n, to, doc, meant) == wire' = [wire EXCEPT ![n] = [to |-> to, doc |-> doc, meant |-> meant]]

\* The port a peer listens on, of which there is one per peer.
PortOf(p) == p

SendOnlineMessage(p) ==
    /\ Connects([from |-> p, to |-> Coordinator, task |-> 0, param |-> 0],
                RequestXML(REQ_TYPE.GET_ONLINE, p, PortOf(p), <<>>, <<>>),
                << <<"HandlePeerOnline", p, PortOf(p)>> >>)
    /\ UNCHANGED <<m_taskList, m_jobList, results>>

SendOfflineMessage(p) ==
    /\ Connects([from |-> p, to |-> Coordinator, task |-> 0, param |-> 0],
                RequestXML(REQ_TYPE.GET_OFFLINE, p, PortOf(p), <<>>, <<>>),
                << <<"HandlePeerOffline", p>> >>)
    /\ UNCHANGED <<m_taskList, m_jobList, results>>

TaskRequest(p, q, t, i) ==
    /\ t \in m_taskList[p]
    /\ Connects([from |-> p, to |-> q, task |-> t, param |-> i],
                RequestXML(REQ_TYPE.TASK_REQUEST, p, PortOf(p),
                           [taskid |-> t, taskParam |-> m_paramList[i]], <<>>),
                << <<"HandleTaskRequest", p, PortOf(p), t, m_paramList[i]>> >>)
    /\ UNCHANGED <<m_taskList, m_jobList, results>>

\* TaskExecute and TaskCancel over node n, if it was made for a task
TaskExecute(n) ==
    /\ Quiet(n) /\ node[n].task # 0
    /\ SendsTo(n, node[n].to,
               RequestXML(REQ_TYPE.TASK_EXECUTE, node[n].from, PortOf(node[n].from),
                          [taskid |-> node[n].task], <<>>),
               << <<"HandleTaskExecute", node[n].from, node[n].task>> >>)
    /\ UNCHANGED <<m_taskList, m_jobList, results, numNodes, node>>

TaskCancel(n) ==
    /\ Quiet(n) /\ node[n].task # 0
    /\ SendsTo(n, node[n].to,
               RequestXML(REQ_TYPE.TASK_CANCEL, node[n].from, PortOf(node[n].from),
                          [taskid |-> node[n].task], <<>>),
               << <<"HandleTaskCancel", node[n].from, node[n].task>> >>)
    /\ UNCHANGED <<m_taskList, m_jobList, results, numNodes, node>>

\* The list as its receiver has it after reading.
AsRead(l) == IF l.ts > 0 THEN << <<"HandlePeerList", l.peers, atoi(l.ts)>> >> ELSE <<>>

\* The lists a peer or coordinator may have once p is in them, as
\* HandleTaskRequest and HandlePeerOnline see to it
ListsWith(p) == {l \in PeerLists : p \in ToSet(l.peers)}

\* TaskResponse, with any such list and any history
TaskResponse(n, taskId) ==
    \E l \in ListsWith(node[n].from), handledTasks \in 0 .. 1 :
        LET history == [workload |-> 0, totalexecuted |-> handledTasks, totalfailure |-> 0]
        IN  SendsTo(n, node[n].from,
                    ResponseXML(RESP_TYPE.TASK_REQUEST_RESP, TRUE, node[n].to, l.ts, l.peers,
                                [taskid |-> taskId], history),
                    AsRead(l) \o << <<"HandleTaskRequestResponse", node[n].task, TRUE, history>> >>)

\* TaskExecuteResponse; its m_timestamp is not initialised.
TaskExecuteResponse(n, taskId, status) ==
    \E ts \in 0 .. 1 :
        SendsTo(n, node[n].from,
                ResponseXML(RESP_TYPE.TASK_EXECUTE_RESP, status, node[n].to, ts, <<>>,
                            [taskid |-> taskId], <<>>),
                << <<"HandleTaskExecuteResponse", node[n].task, status>> >>)

\* TaskExecuteResult
TaskExecuteResult(n, job, lines) ==
    SendsTo(n, node[n].from,
            RequestXML(REQ_TYPE.TASK_RESULT, node[n].to, PortOf(node[n].to),
                       [taskid |-> job.taskId, status |-> 1, taskParam |-> job.param], lines),
            << <<"HandleTaskResult", node[n].task, TRUE, m_paramList[node[n].param],
                 GetResult(lines)>> >>)

-----------------------------------------------------------------------------
\* The handlers

\* Peer::AddTask; ids are counted from 1 by every owner.
AddTask(p) ==
    /\ Cardinality(m_taskList[p]) < MaxTasks
    /\ m_taskList' = [m_taskList EXCEPT ![p] = @ \union {Cardinality(@) + 1}]
    /\ UNCHANGED <<m_jobList, results, numNodes, node, wire>>

Handles(n, handler) ==
    /\ ~Quiet(n)
    /\ LET calls == ProcessMessages(wire[n].to, wire[n].doc)
       IN  calls # <<>> /\ Last(calls)[1] = handler

\* What the handler was given, by position.
Arg(n, i) == Last(ProcessMessages(wire[n].to, wire[n].doc))[i + 1]

Received(n) == wire' = [wire EXCEPT ![n] = Nothing]

\* HandleTaskRequest and CreateJob
HandleTaskRequest(n) ==
    /\ Handles(n, "HandleTaskRequest")
    /\ m_jobList' = [m_jobList EXCEPT ![node[n].to] =
           Append(@, [owner |-> Arg(n, 1), taskId |-> Arg(n, 3), param |-> Arg(n, 4), node |-> n,
                      running |-> FALSE])]
    /\ TaskResponse(n, Arg(n, 3))
    /\ UNCHANGED <<m_taskList, results, numNodes, node>>

IsJob(job, n, owner, taskId) == job.node = n /\ job.owner = owner /\ job.taskId = taskId

Started(jobs, found) == [j \in DOMAIN jobs |-> [jobs[j] EXCEPT !.running = @ \/ j \in found]]

HandleTaskExecute(n) ==
    /\ Handles(n, "HandleTaskExecute")
    /\ LET w == node[n].to
           found == {j \in DOMAIN m_jobList[w] : IsJob(m_jobList[w][j], n, Arg(n, 1), Arg(n, 2))}
       IN  /\ m_jobList' = [m_jobList EXCEPT ![w] = Started(@, found)]
           /\ TaskExecuteResponse(n, Arg(n, 2), found # {})
    /\ UNCHANGED <<m_taskList, results, numNodes, node>>

\* Fault: the task id alone is compared.
OfTask_AnyOwner(job, owner, taskId) == job.taskId = taskId

\* GetJob without a node
OfTask(job, owner, taskId) == job.taskId = taskId /\ job.owner = owner

HandleTaskCancel(n) ==
    /\ Handles(n, "HandleTaskCancel")
    /\ LET w == node[n].to
           found == {j \in DOMAIN m_jobList[w] : OfTask(m_jobList[w][j], Arg(n, 1), Arg(n, 2))}
       IN  m_jobList' = IF found = {} THEN m_jobList
                        ELSE [m_jobList EXCEPT ![w] = RemoveAt(@, Min(found))]
    /\ Received(n)
    /\ UNCHANGED <<m_taskList, results, numNodes, node>>

\* The job's thread ends and Peer::HandleJobExecution finds the job in the list.
HandleJobExecution(w, j) ==
    LET job == m_jobList[w][j] IN
    /\ job.running
    /\ Quiet(job.node)
    /\ m_jobList' = [m_jobList EXCEPT ![w][j].running = FALSE]
    /\ \E lines \in ResultLists : TaskExecuteResult(job.node, job, lines)
    /\ UNCHANGED <<m_taskList, results, numNodes, node>>

\* HandleTaskRequestResponse, HandleTaskExecuteResponse and what they start is
\* TaskProtocol's; HandleOnlineResp and HandlePeerOffline are Membership's.
HandleOther(n) ==
    /\ \E h \in {"HandleTaskRequestResponse", "HandleTaskExecuteResponse", "HandleOnlineResp",
                 "HandlePeerOffline"} : Handles(n, h)
    /\ Received(n)
    /\ UNCHANGED <<m_taskList, m_jobList, results, numNodes, node>>

\* Coordinator::HandlePeerOnline and RespondOnline
HandlePeerOnline(n) ==
    /\ Handles(n, "HandlePeerOnline")
    /\ \E l \in ListsWith(node[n].from) :
           SendsTo(n, node[n].from, RespondOnlineXML(l.ts, l.peers),
                   AsRead(l) \o << <<"HandleOnlineResp", l.peers, atoi(l.ts)>> >>)
    /\ UNCHANGED <<m_taskList, m_jobList, results, numNodes, node>>

\* Fault: the first parameter is taken without a comparison.
IndexOf_First(param) == 1

\* Task::HandleTaskResult looks for the parameter; -1, here 0, if there is none.
IndexOf(param) ==
    IF \E i \in DOMAIN m_paramList : m_paramList[i] = param
    THEN CHOOSE i \in DOMAIN m_paramList : m_paramList[i] = param
    ELSE 0

HandleTaskResult(n) ==
    /\ Handles(n, "HandleTaskResult")
    /\ results' = results \union {[owner |-> wire[n].to, task |-> Arg(n, 1),
                                   index |-> IndexOf(Arg(n, 3)), node |-> n]}
    /\ Received(n)
    /\ UNCHANGED <<m_taskList, m_jobList, numNodes, node>>

-----------------------------------------------------------------------------

Init ==
    /\ m_taskList = [p \in Owner |-> {}]
    /\ m_jobList = [w \in Worker |-> <<>>]
    /\ results = {}
    /\ numNodes = 0
    /\ node = [n \in Node |-> NoNode]
    /\ wire = [n \in Node |-> Nothing]

OwnerStep(p) ==
    \/ AddTask(p) \/ SendOnlineMessage(p) \/ SendOfflineMessage(p)
    \/ \E q \in Worker \ {p}, t \in TaskId, i \in DOMAIN m_paramList : TaskRequest(p, q, t, i)

NodeStep(n) ==
    \/ TaskExecute(n) \/ TaskCancel(n)
    \/ HandleTaskRequest(n) \/ HandleTaskExecute(n) \/ HandleTaskCancel(n)
    \/ HandleTaskResult(n) \/ HandlePeerOnline(n) \/ HandleOther(n)

Next ==
    \/ \E p \in Owner : OwnerStep(p)
    \/ \E n \in Node : NodeStep(n)
    \/ \E w \in Worker : \E j \in DOMAIN m_jobList[w] : HandleJobExecution(w, j)

Spec == Init /\ [][Next]_vars

-----------------------------------------------------------------------------
\* Properties

\* Each program makes of a document what the other one meant by it: the handler
\* of that message, with everything the handler reads, except that a number
\* beyond an int is the largest int and a blank line of a result is empty.  A
\* list without a timestamp is not taken.
UnderstoodAsMeant ==
    \A n \in Node :
        ~Quiet(n) => ProcessMessages(wire[n].to, wire[n].doc) = wire[n].meant

\* A result is stored under the parameter its PeerNode was asked to run, by the
\* owner and the task that asked, though owners count their task ids alike and
\* the result names its parameter only by its text.
ResultsAreOfTheirParam ==
    \A r \in results :
        LET n == node[r.node] IN r.owner = n.from /\ r.task = n.task /\ r.index = n.param

\* A cancel takes away no job of another owner's or another task's request.
CancelHitsItsTask ==
    [][\A n \in Node : HandleTaskCancel(n) =>
           \A w \in Worker : \A job \in ToSet(m_jobList[w]) \ ToSet(m_jobList'[w]) :
               node[job.node].from = node[n].from /\ node[job.node].task = node[n].task]_vars

=============================================================================
