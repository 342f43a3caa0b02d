--------------------------- MODULE TaskOnceProofs ---------------------------
(***************************************************************************)
(* What a task does once: it stops once, gives a parameter to one peer at  *)
(* a time, and counts one result of each.  All of it rests on the task     *)
(* thread handling its first answer after Start has returned (StartRace).  *)
(* A node whose process may still fail must be alone with its parameter    *)
(* (FinalInv); that it is, where at most one process dies, TaskAliveProofs *)
(* shows, and there the theorems are.                                      *)
(***************************************************************************)
EXTENDS TaskProtocolProofs

-----------------------------------------------------------------------------
\* The task is given up once, and then nobody is asked any more.

\* Before main has left Start, and when main gave the task up while its thread
\* was waiting for a message.
Early == ask["main"].pc \in AskStep \/ (m_bStop /\ ask["task"].pc = "get")

\* Nobody has been told to execute yet.
EarlyInv == Early =>
    /\ m_taskNodes = <<>>
    /\ m_peerParamMap = {} /\ m_paramResultMap = {} /\ m_peerResultAvailMap = {}
    /\ \A n \in Node : ~Engaged(n)

\* Nobody asks, and the message the thread is waiting for makes nobody ask.
StopInv == m_bStop =>
    /\ \A t \in Thread : ask[t].pc \notin AskStep
    /\ ask["task"].pc = "get" => m_tryPeerParamMap = {}

CalmInv == KeepInv /\ RequestInv /\ EarlyInv /\ StopInv

\* AskPeers only gives things up.
LEMMA AskStaysCalm ==
    ASSUME CalmInv, NEW t \in Thread, AskPeersStep(t)
    PROVE  EarlyInv' /\ StopInv' /\ (Early' => Early)
<1>1. /\ TypeInv /\ RequestInv /\ OneAsks /\ EarlyInv /\ StopInv
      /\ "main" \in Thread /\ "task" \in Thread
  BY DEF CalmInv, KeepInv, Thread
<1>2. /\ ask[t].pc \in AskStep /\ ask'[t].pc \in AskStep \union {Left(t)}
      /\ \A u \in Thread \ {t} : ask'[u] = ask[u]
  BY <1>1, AskMoves
<1>3. \A n \in Node : Engaged(n)' => Engaged(n)
  BY <1>1, AskTurns
<1>4. /\ UNCHANGED <<m_paramResultMap, m_peerResultAvailMap>>
      /\ m_taskNodes' \in {m_taskNodes, <<>>} /\ m_peerParamMap' \in {m_peerParamMap, {}}
      /\ m_bStop' => \/ m_bStop
                     \/ m_tryPeerParamMap' = {} /\ ask'[t].pc = Left(t)
  <2>1. ask \in [Thread -> Asking]
    BY <1>1 DEF TypeInv, TypeOK
  <2>2. CASE AskGiveUp(t) \/ AskShort(t)
    BY <2>1, <2>2 DEF AskGiveUp, AskShort, AskEnd, TaskCancel, resultVars, Asking
  <2>3. CASE ~AskGiveUp(t) /\ ~AskShort(t)
    BY <2>3 DEF AskPeersStep, AskLower, AskSkip, AskUnreachable, AskConnect, AskRequest,
                AskErase, AskAbort, AskEnough, resultVars, nodeLists, allotVars
  <2> QED
    BY <2>2, <2>3
<1>5. Early' => Early
  <2>1. t = "task" => ask'["task"].pc # "get"
    BY <1>2 DEF Left, AskStep
  <2> QED
    BY <1>1, <1>2, <2>1 DEF Early, Thread
<1>6. EarlyInv'
  BY <1>1, <1>3, <1>4, <1>5 DEF EarlyInv
<1>7. StopInv'
  <2>1. ~m_bStop
    BY <1>1, <1>2 DEF StopInv
  <2>2. \A u \in Thread \ {t} : ask[u].pc \notin AskStep
    BY <1>1, <1>2 DEF OneAsks, Thread
  <2>3. Left(t) \notin AskStep
    BY DEF Left, AskStep
  <2> QED
    BY <1>1, <1>2, <1>4, <2>1, <2>2, <2>3 DEF StopInv
<1> QED
  BY <1>5, <1>6, <1>7

\* Whom a task that was given up still hears from, it does not answer.
LEMMA StoppedHandler ==
    ASSUME StartRace = FALSE, CalmInv, NEW n \in Node, TaskHandler(n)
    PROVE  /\ ask["main"].pc = "done" /\ ask["task"].pc = "get"
           /\ m_bStop' = m_bStop
           /\ m_bStop => \/ HandleEligible(n) \/ HandleNotEligibleAbort(n)
                         \/ HandleExecuting(n) \/ IgnorePeerConnFailure(n)
<1>1. /\ RequestInv /\ EarlyInv /\ StopInv
  BY DEF CalmInv
<1>2. /\ ask["main"].pc = "done" /\ ask["task"].pc = "get" /\ m_bStop' = m_bStop
  BY DEF TaskHandler, HandleEligible, HandleNotEligible, HandleNotEligibleAbort,
         HandleExecuting, HandleRefused, HandleTaskResult, HandlePeerConnFailure,
         IgnorePeerConnFailure, Receives
<1>3. ASSUME m_bStop
      PROVE  ~HandleNotEligible(n) /\ ~HandleRefused(n) /\ ~HandleTaskResult(n)
             /\ ~HandlePeerConnFailure(n)
  <2>1. m_taskNodes = <<>> /\ ~Engaged(n) /\ m_tryPeerParamMap = {}
    BY <1>1, <1>2, <1>3 DEF EarlyInv, Early, StopInv
  <2>2. Head(toTask[n]).type \notin {"REFUSED", "TASK_RESULT"}
    BY <1>1, <2>1, HandlerTurns
  <2>3. ~Contains(m_taskNodes, n)
    BY <2>1 DEF Contains
  <2> QED
    BY <2>1, <2>2, <2>3 DEF HandleNotEligible, HandleRefused, HandleTaskResult,
                            HandlePeerConnFailure, Concerns, Receives
<1> QED
  BY <1>2, <1>3 DEF TaskHandler

\* So a handler starts AskPeers only while the task goes on.
LEMMA HandlerStaysCalm ==
    ASSUME StartRace = FALSE, CalmInv, NEW n \in Node, TaskHandler(n)
    PROVE  EarlyInv' /\ StopInv' /\ (Early' => Early /\ HandleNotEligibleAbort(n))
<1>1. /\ TypeInv /\ RequestInv /\ EarlyInv /\ StopInv
      /\ "main" \in Thread /\ "task" \in Thread /\ ask \in [Thread -> Asking]
  BY DEF CalmInv, KeepInv, TypeInv, TypeOK, Thread
<1>2. /\ ask["main"].pc = "done" /\ ask["task"].pc = "get" /\ m_bStop' = m_bStop
      /\ m_bStop => \/ HandleEligible(n) \/ HandleNotEligibleAbort(n)
                    \/ HandleExecuting(n) \/ IgnorePeerConnFailure(n)
  BY StoppedHandler
<1>3. CASE HandleNotEligibleAbort(n)
  <2>1. UNCHANGED <<m_taskNodes, m_peerParamMap, m_paramResultMap, m_peerResultAvailMap,
                    m_tryPeerParamMap, m_bStop, ask>>
    BY <1>3 DEF HandleNotEligibleAbort, nodeLists, allotVars, resultVars
  <2>2. ~HandleEligible(n)
    BY <1>3 DEF HandleNotEligibleAbort, HandleEligible
  <2>3. \A m \in Node : Engaged(m)' => Engaged(m)
    BY <1>1, <2>2, HandlerTurns
  <2> QED
    BY <1>1, <1>3, <2>1, <2>3 DEF EarlyInv, Early, StopInv
<1>4. CASE ~HandleNotEligibleAbort(n)
  <2>1. BackToLoop \/ (AskPeers /\ ~m_bStop)
    BY <1>2, <1>4 DEF TaskHandler, HandleEligible, HandleNotEligible, HandleExecuting,
                      HandleRefused, HandleTaskResult, HandlePeerConnFailure,
                      IgnorePeerConnFailure
  <2>2. /\ ask'["main"] = ask["main"]
        /\ \/ ask'["task"].pc = "check"
           \/ ask'["task"].pc = "loop" /\ ~m_bStop
    BY <1>1, <2>1 DEF BackToLoop, AskPeers, Entered, Asking
  <2>3. ~Early'
    BY <1>2, <2>2 DEF Early, AskStep
  <2> QED
    BY <1>2, <2>2, <2>3 DEF EarlyInv, StopInv, Thread, AskStep
<1> QED
  BY <1>3, <1>4

\* Every step keeps CalmInv.
LEMMA StepCalm ==
    ASSUME StartRace = FALSE
    PROVE  CalmInv /\ [Next]_vars => CalmInv'
<1> SUFFICES ASSUME CalmInv, [Next]_vars
             PROVE  EarlyInv' /\ StopInv'
  BY StepKeeps, StepRequests DEF CalmInv
<1>1. /\ RequestInv /\ EarlyInv /\ StopInv /\ "main" \in Thread /\ "task" \in Thread
      /\ ask \in [Thread -> Asking]
  BY DEF CalmInv, KeepInv, TypeInv, TypeOK, Thread
<1>2. ASSUME UNCHANGED taskVars, \A m \in Node : Engaged(m)' => Engaged(m)
      PROVE  EarlyInv' /\ StopInv'
  <2>1. UNCHANGED <<m_taskNodes, m_peerParamMap, m_paramResultMap, m_peerResultAvailMap,
                    m_tryPeerParamMap, m_bStop, ask>>
    BY <1>2 DEF taskVars, nodeLists, allotVars, resultVars
  <2> QED
    BY <1>1, <1>2, <2>1 DEF EarlyInv, Early, StopInv
<1>3. CASE TaskCheck \/ TaskWait
  <2>1. UNCHANGED <<m_taskNodes, m_peerParamMap, m_paramResultMap, m_peerResultAvailMap,
                    m_tryPeerParamMap, m_bStop, toWorker, toTask, jobRunning>>
    BY <1>3 DEF TaskCheck, TaskWait, nodeLists, allotVars, resultVars, netVars, workerVars, jobVars
  <2>2. \A m \in Node : Engaged(m)' = Engaged(m)
    BY <2>1 DEF Engaged
  <2>3. /\ ask'["main"] = ask["main"]
        /\ ask'["task"].pc \in {"check", "get", "done"}
        /\ m_bStop => ask'["task"].pc # "get"
    BY <1>1, <1>3 DEF TaskCheck, TaskWait, Looping, Asking
  <2> QED
    BY <1>1, <2>1, <2>2, <2>3 DEF EarlyInv, Early, StopInv, Thread, AskStep
<1>4. CASE UNCHANGED vars \/ \E list \in PeerLists : HandlePeerList(list)
  <2>1. UNCHANGED <<taskVars, toWorker, toTask, jobRunning>>
    BY <1>4 DEF vars, HandlePeerList, netVars, workerVars, jobVars
  <2> QED
    BY <1>2, <2>1 DEF Engaged
<1>5. CASE \/ \E n \in Node : WorkerStep(n) \/ JobDone(n) \/ RecvError(n) \/ RecvEof(n)
           \/ \E w \in Worker : WorkerDown(w) \/ WorkerUp(w)
  <2>1. UNCHANGED taskVars
    BY <1>5 DEF WorkerStep, HandleTaskRequest, HandleTaskExecute, HandleTaskCancel, JobDone,
                RecvError, RecvEof, WorkerDown, WorkerUp
  <2>2. \A m \in Node : Engaged(m)' => Engaged(m)
    BY <1>1, <1>5, WorkerTurns, BreakTurns
  <2> QED
    BY <1>2, <2>1, <2>2
<1> QED
  BY <1>3, <1>4, <1>5, AskStaysCalm, HandlerStaysCalm DEF Next, Step

\* At first main asks, and nobody has been told anything.
LEMMA InitCalm == Init => CalmInv
<1> SUFFICES ASSUME Init PROVE CalmInv
  OBVIOUS
<1>1. EarlyInv /\ StopInv
  BY DEF Init, EarlyInv, StopInv, Engaged, Carries
<1> QED
  BY <1>1, InitKeeps, InitRequests DEF CalmInv

\* NoRequestAfterStop, Task::TaskCancel and the handlers that call AskPeers: a
\* task that was given up makes no PeerNode any more, whichever thread gave it
\* up and whatever its thread was waiting for.
THEOREM StopAsksNobody ==
    ASSUME StartRace = FALSE
    PROVE  Spec => NoRequestAfterStop
<1>1. CalmInv /\ [Next]_vars => [m_bStop => numNodes' = numNodes]_vars
  <2> SUFFICES ASSUME CalmInv, Next, m_bStop
               PROVE  numNodes' = numNodes
    BY DEF vars
  <2>1. \A t \in Thread : ~AskConnect(t)
    BY DEF CalmInv, StopInv, AskConnect, Scanning, AskStep
  <2>2. \A t \in Thread : AskPeersStep(t) => numNodes' = numNodes
    BY <2>1 DEF AskPeersStep, AskLower, AskGiveUp, AskSkip, AskUnreachable, AskRequest,
                AskErase, AskAbort, AskShort, AskEnough, nodeVars
  <2>3. \A n \in Node : TaskHandler(n) => numNodes' = numNodes
    BY DEF TaskHandler, HandleEligible, HandleNotEligible, HandleNotEligibleAbort,
           HandleExecuting, HandleRefused, HandleTaskResult, HandlePeerConnFailure,
           IgnorePeerConnFailure, nodeVars
  <2> QED
    BY <2>2, <2>3 DEF Next, Step, HandlePeerList, TaskCheck, TaskWait, WorkerStep,
                      HandleTaskRequest, HandleTaskExecute, HandleTaskCancel, JobDone,
                      RecvError, RecvEof, WorkerDown, WorkerUp, nodeVars
<1> QED
  BY <1>1, InitCalm, StepCalm, PTL DEF Spec, NoRequestAfterStop

-----------------------------------------------------------------------------
\* The parameter a message or a job carries is that of its node.

\* ... and every parameter is one of the task's.
ParamInv ==
    /\ \A n \in Node :
          /\ jobParam[n] = None \/ (n \in Made /\ jobParam[n] = nodeParam[n])
          /\ \A m \in ToSet(toWorker[n]) : m.type = "TASK_REQUEST" => m.param = nodeParam[n]
          /\ \A m \in ToSet(toTask[n]) : m.type = "TASK_RESULT" => m.arg = nodeParam[n]
    /\ \A n \in Made : nodeParam[n] \in 1 .. m_numRequiredPeers
    /\ ToSet(m_unAllotParamList) \subseteq 1 .. m_numRequiredPeers
    /\ m_peerParamMap \union m_paramResultMap \subseteq 1 .. m_numRequiredPeers

\* The cancels of a task that is given up are all it sends.
LEMMA CancelsSent ==
    ASSUME TypeInv, TaskCancel, NEW m \in Node
    PROVE  ToSet(toWorker'[m]) \subseteq ToSet(toWorker[m]) \union {Cancel}
<1> DEFINE once(n, list) == IF Contains(list, n) THEN <<Cancel>> ELSE <<>>
           out == [n \in Node |-> once(n, m_tryNodes) \o once(n, m_taskNodes)]
           a == once(m, m_tryNodes)
           b == once(m, m_taskNodes)
<1>1. SendAll(out) /\ out[m] = a \o b
  BY DEF TaskCancel
<1>2. toWorker[m] \in Seq(WorkerMessage)
  BY DEF TypeInv, TypeOK
<1>3. a \in {<<>>, <<Cancel>>} /\ b \in {<<>>, <<Cancel>>}
  OBVIOUS
<1>4. <<>> \in Seq(WorkerMessage) /\ <<Cancel>> \in Seq(WorkerMessage)
  BY ConstantMessages, OneElement
<1>5. ToSet(<<>>) = {} /\ ToSet(<<Cancel>>) = {Cancel}
  BY DEF ToSet
<1> HIDE DEF out, a, b, once
<1>6. a \o b \in Seq(WorkerMessage) /\ ToSet(a \o b) \subseteq {Cancel}
  <2>1. a \in Seq(WorkerMessage) /\ b \in Seq(WorkerMessage)
    BY <1>3, <1>4
  <2> QED
    BY <1>3, <1>5, <2>1, ConcatToSet, ConcatProperties
<1>7. ToSet(toWorker[m] \o out[m]) = ToSet(toWorker[m]) \union ToSet(out[m])
  <2>1. out[m] \in Seq(WorkerMessage)
    BY <1>1, <1>6
  <2> QED
    BY <1>2, <2>1, ConcatToSet
<1>8. toWorker'[m] \in {toWorker[m], toWorker[m] \o out[m]}
  BY <1>1 DEF SendAll
<1> QED
  BY <1>1, <1>6, <1>7, <1>8

\* What a step of the task puts into the channels.
LEMMA TaskSent ==
    ASSUME RequestInv, NEW m \in Node
    PROVE  /\ \A t \in Thread : AskPeersStep(t) =>
                  /\ toTask' = toTask
                  /\ \A x \in ToSet(toWorker'[m]) :
                        \/ x \in ToSet(toWorker[m]) \/ x = Cancel
                        \/ AskRequest(t) /\ m = ask[t].node /\ x = RequestFor(ParamToAsk)
           /\ \A n \in Node : TaskHandler(n) =>
                  /\ ToSet(toTask'[m]) \subseteq ToSet(toTask[m]) \union {ConnectionFailure}
                  /\ ToSet(toWorker'[m]) \subseteq ToSet(toWorker[m]) \union {Execute, Cancel}
<1>1. /\ TypeInv /\ toWorker \in [Node -> Seq(WorkerMessage)] /\ toTask \in [Node -> Seq(TaskMessage)]
  BY DEF RequestInv, TypeInv, TypeOK
<1>2. ASSUME NEW n \in Node, NEW msg \in WorkerMessage, Send(n, msg)
      PROVE  ToSet(toWorker'[m]) \subseteq ToSet(toWorker[m]) \union IF m = n THEN {msg} ELSE {}
  <2>1. /\ m # n => toWorker'[m] = toWorker[m]
        /\ m = n => toWorker'[m] \in {toWorker[m], Append(toWorker[m], msg)}
    BY <1>1, <1>2, SendOne
  <2>2. ToSet(Append(toWorker[m], msg)) = ToSet(toWorker[m]) \union {msg}
    BY <1>1, AppendOnce
  <2> QED
    BY <2>1, <2>2
<1>3. ASSUME NEW t \in Thread, AskPeersStep(t)
      PROVE  /\ toTask' = toTask
             /\ \A x \in ToSet(toWorker'[m]) :
                   \/ x \in ToSet(toWorker[m]) \/ x = Cancel
                   \/ AskRequest(t) /\ m = ask[t].node /\ x = RequestFor(ParamToAsk)
  <2>1. toTask' = toTask
    BY <1>3 DEF AskPeersStep, AskLower, AskGiveUp, AskSkip, AskUnreachable, AskConnect,
                AskRequest, AskErase, AskAbort, AskShort, AskEnough, netVars
  <2>2. CASE AskRequest(t)
    <3>1. ParamToAsk \in Param
      BY <1>1, <2>2, HeadTailProperties DEF AskRequest, ParamToAsk, TypeInv, TypeOK
    <3>2. Send(ask[t].node, RequestFor(ParamToAsk)) /\ ask[t].pc = "request"
      BY <2>2 DEF AskRequest
    <3>3. ask[t].node \in Node /\ RequestFor(ParamToAsk) \in WorkerMessage
      BY <3>1, <3>2, ConstantMessages DEF RequestInv, MadeInv, Made
    <3> QED
      BY <1>2, <2>1, <2>2, <3>2, <3>3
  <2>3. CASE TaskCancel
    BY <1>1, <2>1, <2>3, CancelsSent
  <2>4. CASE ~AskRequest(t) /\ ~TaskCancel
    <3>1. toWorker' = toWorker
      BY <1>3, <2>4 DEF AskPeersStep, AskLower, AskGiveUp, AskSkip, AskUnreachable, AskConnect,
                        AskErase, AskAbort, AskShort, AskEnough, netVars
    <3> QED
      BY <2>1, <3>1
  <2> QED
    BY <2>2, <2>3, <2>4
<1>4. ASSUME NEW n \in Node, TaskHandler(n)
      PROVE  /\ ToSet(toTask'[m]) \subseteq ToSet(toTask[m]) \union {ConnectionFailure}
             /\ ToSet(toWorker'[m]) \subseteq ToSet(toWorker[m]) \union {Execute, Cancel}
  <2>1. Send(n, Execute) \/ Send(n, Cancel) \/ toWorker' = toWorker
    BY <1>4 DEF TaskHandler, HandleEligible, HandleNotEligible, HandleNotEligibleAbort,
                HandleExecuting, HandleRefused, HandleTaskResult, HandlePeerConnFailure,
                IgnorePeerConnFailure
  <2>2. ToSet(toWorker'[m]) \subseteq ToSet(toWorker[m]) \union {Execute, Cancel}
    BY <1>2, <2>1, ConstantMessages
  <2>3. /\ toTask[n] # <<>>
        /\ \/ Consume(n)
           \/ toTask' = [toTask EXCEPT ![n] = Append(Tail(@), ConnectionFailure)]
    BY <1>4 DEF TaskHandler, HandleEligible, HandleNotEligible, HandleNotEligibleAbort,
                HandleExecuting, HandleRefused, HandleTaskResult, HandlePeerConnFailure,
                IgnorePeerConnFailure, Receives
  <2>4. ToSet(Tail(toTask[n])) \subseteq ToSet(toTask[n]) /\ Tail(toTask[n]) \in Seq(TaskMessage)
    BY <1>1, <2>3, TailOnce, HeadTailProperties
  <2>5. ToSet(Append(Tail(toTask[n]), ConnectionFailure))
            = ToSet(Tail(toTask[n])) \union {ConnectionFailure}
    <3>1. ConnectionFailure \in TaskMessage
      BY ConstantMessages
    <3>2. \A s \in Seq(TaskMessage) :
              ToSet(Append(s, ConnectionFailure)) = ToSet(s) \union {ConnectionFailure}
      BY <3>1, AppendOnce
    <3> QED
      BY <2>4, <3>2
  <2>6. /\ m # n => toTask'[m] = toTask[m]
        /\ m = n => toTask'[m] \in {Tail(toTask[n]), Append(Tail(toTask[n]), ConnectionFailure)}
    BY <1>1, <2>3 DEF Consume
  <2> QED
    BY <2>2, <2>4, <2>5, <2>6
<1> QED
  BY <1>3, <1>4

\* What the workers and the connections put there.
LEMMA WorkerSent ==
    ASSUME RequestInv, NEW m \in Node
    PROVE  /\ \A n \in Node : WorkerStep(n) \/ JobDone(n) =>
                  /\ ToSet(toWorker'[m]) \subseteq ToSet(toWorker[m])
                  /\ \A x \in ToSet(toTask'[m]) :
                        \/ x \in ToSet(toTask[m]) \/ x.type # "TASK_RESULT"
                        \/ m = n /\ n \in jobRunning /\ x.arg = jobParam[n]
           /\ (\/ \E n \in Node : RecvError(n) \/ RecvEof(n)
               \/ \E w \in Worker : WorkerDown(w) \/ WorkerUp(w)) =>
                  /\ ToSet(toWorker'[m]) \subseteq ToSet(toWorker[m])
                  /\ ToSet(toTask'[m]) \subseteq ToSet(toTask[m]) \union {ConnectionFailure}
<1>1. /\ TypeInv /\ toWorker \in [Node -> Seq(WorkerMessage)] /\ toTask \in [Node -> Seq(TaskMessage)]
  BY DEF RequestInv, TypeInv, TypeOK
<1>2. ASSUME NEW n \in Node, WorkerStep(n) \/ JobDone(n)
      PROVE  /\ ToSet(toWorker'[m]) \subseteq ToSet(toWorker[m])
             /\ \A x \in ToSet(toTask'[m]) :
                   \/ x \in ToSet(toTask[m]) \/ x.type # "TASK_RESULT"
                   \/ m = n /\ n \in jobRunning /\ x.arg = jobParam[n]
  <2>1. \/ toWorker' = toWorker
        \/ toWorker[n] # <<>> /\ toWorker' = [toWorker EXCEPT ![n] = Tail(@)]
    BY <1>2 DEF WorkerStep, HandleTaskRequest, HandleTaskExecute, HandleTaskCancel, JobDone,
                WorkerReceives
  <2>2. ToSet(toWorker'[m]) \subseteq ToSet(toWorker[m])
    <3>1. toWorker[n] # <<>> => ToSet(Tail(toWorker[n])) \subseteq ToSet(toWorker[n])
      BY <1>1, TailOnce
    <3>2. \/ toWorker'[m] = toWorker[m]
          \/ m = n /\ toWorker[n] # <<>> /\ toWorker'[m] = Tail(toWorker[n])
      BY <1>1, <2>1
    <3> QED
      BY <3>1, <3>2
  <2>3. \/ toTask' = toTask
        \/ \E x : /\ toTask' = [toTask EXCEPT ![n] = Append(@, x)]
                  /\ \/ x.type # "TASK_RESULT"
                     \/ n \in jobRunning /\ x.arg = jobParam[n]
    <3>1. CASE JobDone(n)
      BY <3>1 DEF JobDone, Reply
    <3>2. CASE HandleTaskRequest(n)
      <4> DEFINE x == [type |-> "TASK_REQUEST_RESP", arg |-> numTaskHandled[nodePeer[n]]]
      <4>1. toTask' = [toTask EXCEPT ![n] = Append(@, x)] /\ x.type # "TASK_RESULT"
        BY <3>2 DEF HandleTaskRequest, Reply
      <4> QED
        BY <4>1
    <3>3. CASE HandleTaskExecute(n)
      <4> DEFINE x(type) == [type |-> type, arg |-> 0]
      <4>1. \/ toTask' = [toTask EXCEPT ![n] = Append(@, x("EXECUTING"))]
            \/ toTask' = [toTask EXCEPT ![n] = Append(@, x("REFUSED"))]
        BY <3>3 DEF HandleTaskExecute, Reply
      <4>2. x("EXECUTING").type # "TASK_RESULT" /\ x("REFUSED").type # "TASK_RESULT"
        OBVIOUS
      <4> HIDE DEF x
      <4> QED
        BY <4>1, <4>2
    <3>4. CASE HandleTaskCancel(n)
      BY <3>4 DEF HandleTaskCancel
    <3> QED
      BY <1>2, <3>1, <3>2, <3>3, <3>4 DEF WorkerStep
  <2>4. CASE toTask' = toTask
    BY <2>2, <2>4
  <2>5. ASSUME NEW x, toTask' = [toTask EXCEPT ![n] = Append(@, x)],
               x.type # "TASK_RESULT" \/ (n \in jobRunning /\ x.arg = jobParam[n])
        PROVE  \A y \in ToSet(toTask'[m]) :
                   \/ y \in ToSet(toTask[m]) \/ y.type # "TASK_RESULT"
                   \/ m = n /\ n \in jobRunning /\ y.arg = jobParam[n]
    <3>1. /\ m # n => toTask'[m] = toTask[m]
          /\ m = n => toTask'[m] = Append(toTask[m], x)
      BY <1>1, <2>5
    <3>2. ToSet(Append(toTask[m], x)) = ToSet(toTask[m]) \union {x}
      <4>1. toTask[m] \in Seq(TaskMessage \union {x}) /\ x \in TaskMessage \union {x}
        BY <1>1, SeqMonotonic
      <4> QED
        BY <4>1, AppendOnce
    <3> QED
      BY <2>5, <3>1, <3>2
  <2> QED
    BY <2>2, <2>3, <2>4, <2>5
<1>3. ASSUME \/ \E n \in Node : RecvError(n) \/ RecvEof(n)
             \/ \E w \in Worker : WorkerDown(w) \/ WorkerUp(w)
      PROVE  /\ ToSet(toWorker'[m]) \subseteq ToSet(toWorker[m])
             /\ ToSet(toTask'[m]) \subseteq ToSet(toTask[m]) \union {ConnectionFailure}
  <2>1. toWorker'[m] \in {toWorker[m], <<>>}
    BY <1>3 DEF RecvError, RecvEof, WorkerDown, WorkerUp, netVars
  <2>2. ToSet(toWorker'[m]) \subseteq ToSet(toWorker[m])
    BY <2>1 DEF ToSet
  <2>3. CASE \E n \in Node : RecvError(n)
    <3>1. PICK n \in Node : RecvError(n)
      BY <2>3
    <3>2. PICK k \in 0 .. Len(toTask[n]) :
              toTask' = [toTask EXCEPT ![n] = Append(SubSeq(@, 1, k), ConnectionFailure)]
      BY <3>1 DEF RecvError, HandleConnectionBroken
    <3> DEFINE r == SubSeq(toTask[n], 1, k)
    <3>3. r \in Seq(TaskMessage) /\ ToSet(r) \subseteq ToSet(toTask[n])
      <4>0. Len(toTask[n]) \in Nat /\ DOMAIN toTask[n] = 1 .. Len(toTask[n])
        BY <1>1, LenProperties
      <4>1. /\ r \in Seq(TaskMessage) /\ DOMAIN r = 1 .. k
            /\ \A i \in 1 .. k : r[i] = toTask[n][i]
        BY <1>1, <4>0, SubSeqProperties, LenProperties, ElementOfSeq
      <4>2. \A i \in DOMAIN r : i \in DOMAIN toTask[n] /\ r[i] = toTask[n][i]
        BY <4>0, <4>1
      <4> HIDE DEF r
      <4> QED
        BY <4>1, <4>2 DEF ToSet
    <3>4. /\ m # n => toTask'[m] = toTask[m]
          /\ m = n => toTask'[m] = Append(r, ConnectionFailure)
      BY <1>1, <3>2
    <3> HIDE DEF r
    <3>5. ToSet(Append(r, ConnectionFailure)) = ToSet(r) \union {ConnectionFailure}
      BY <3>3, AppendOnce, ConstantMessages
    <3> QED
      BY <2>2, <3>3, <3>4, <3>5
  <2>4. CASE ~ \E n \in Node : RecvError(n)
    <3>1. toTask' = toTask
      BY <1>3, <2>4 DEF RecvEof, WorkerDown, WorkerUp, netVars
    <3> QED
      BY <2>2, <3>1
  <2> QED
    BY <2>3, <2>4
<1> QED
  BY <1>2, <1>3

\* Nodes stay made, for the same parameter; AskPeers makes one for the first of its list.
LEMMA NodesStay ==
    ASSUME RequestInv, [Next]_vars
    PROVE  /\ Made \subseteq Made' /\ \A n \in Made : nodeParam'[n] = nodeParam[n]
           /\ \A t \in Thread : AskConnect(t) =>
                  /\ numNodes + 1 \in Node \ Made /\ Made' = Made \union {numNodes + 1}
                  /\ nodeParam'[numNodes + 1] = Head(m_unAllotParamList)
                  /\ Head(m_unAllotParamList) \in ToSet(m_unAllotParamList)
                  /\ \A n \in Node \ {numNodes + 1} : nodeParam'[n] = nodeParam[n]
           /\ (\A t \in Thread : ~AskConnect(t)) => Made' = Made /\ nodeParam' = nodeParam
<1>1. /\ TypeInv /\ Made = 1 .. numNodes /\ Made' = 1 .. numNodes'
      /\ numNodes \in 0 .. MaxNodes /\ nodeParam \in [Node -> Param \union {None}]
      /\ m_unAllotParamList \in Seq(Param)
  BY StepRequests DEF RequestInv, MadeInv, TypeInv, TypeOK
<1>2. ASSUME NEW t \in Thread, AskConnect(t)
      PROVE  /\ numNodes + 1 \in Node \ Made /\ Made' = Made \union {numNodes + 1}
             /\ nodeParam'[numNodes + 1] = Head(m_unAllotParamList)
             /\ Head(m_unAllotParamList) \in ToSet(m_unAllotParamList)
             /\ \A n \in Node \ {numNodes + 1} : nodeParam'[n] = nodeParam[n]
  <2>1. /\ numNodes' = numNodes + 1 /\ numNodes < MaxNodes /\ m_unAllotParamList # <<>>
        /\ nodeParam' = [nodeParam EXCEPT ![numNodes + 1] = Head(m_unAllotParamList)]
    BY <1>2 DEF AskConnect, SetParamIndex, ParamToAsk
  <2>2. numNodes + 1 \in Node \ Made /\ Made' = Made \union {numNodes + 1}
    BY <1>1, <2>1, TaskConstants DEF Node
  <2>3. Head(m_unAllotParamList) \in ToSet(m_unAllotParamList)
    BY <1>1, <2>1, TailOnce
  <2> QED
    BY <1>1, <2>1, <2>2, <2>3
<1>3. ASSUME \A t \in Thread : ~AskConnect(t)
      PROVE  numNodes' = numNodes /\ nodeParam' = nodeParam
  <2>1. \A t \in Thread : AskPeersStep(t) => UNCHANGED nodeVars
    BY <1>3 DEF AskPeersStep, AskLower, AskGiveUp, AskSkip, AskUnreachable, AskRequest,
                AskErase, AskAbort, AskShort, AskEnough
  <2>2. \A n \in Node : TaskHandler(n) => UNCHANGED nodeVars
    BY DEF TaskHandler, HandleEligible, HandleNotEligible, HandleNotEligibleAbort,
           HandleExecuting, HandleRefused, HandleTaskResult, HandlePeerConnFailure,
           IgnorePeerConnFailure
  <2>3. UNCHANGED nodeVars
    BY <2>1, <2>2 DEF Next, Step, vars, HandlePeerList, TaskCheck, TaskWait, WorkerStep,
                      HandleTaskRequest, HandleTaskExecute, HandleTaskCancel, JobDone,
                      RecvError, RecvEof, WorkerDown, WorkerUp
  <2> QED
    BY <2>3 DEF nodeVars
<1>4. CASE \A t \in Thread : ~AskConnect(t)
  BY <1>1, <1>3, <1>4
<1>5. CASE \E t \in Thread : AskConnect(t)
  <2>1. PICK t \in Thread : AskConnect(t)
    BY <1>5
  <2>2. \A n \in Made : nodeParam'[n] = nodeParam[n]
    BY <1>2, <2>1 DEF Made
  <2> QED
    BY <1>2, <1>5, <2>1, <2>2
<1> QED
  BY <1>4, <1>5

\* Every parameter goes along unchanged.
LEMMA StepParams ==
    ASSUME CalmInv, ParamInv, [Next]_vars
    PROVE  ParamInv'
<1>1. /\ TypeInv /\ RequestInv /\ AskedIsFirst /\ TypeInv' /\ RequestInv'
  BY StepTyped, StepRequests DEF CalmInv, KeepInv
<1>2. /\ Made \subseteq Made' /\ \A n \in Made : nodeParam'[n] = nodeParam[n]
      /\ \A t \in Thread : AskConnect(t) =>
             /\ Made' = Made \union {numNodes + 1}
             /\ nodeParam'[numNodes + 1] = Head(m_unAllotParamList)
             /\ Head(m_unAllotParamList) \in ToSet(m_unAllotParamList)
      /\ (\A t \in Thread : ~AskConnect(t)) => Made' = Made /\ nodeParam' = nodeParam
  BY <1>1, NodesStay
<1>3. m_numRequiredPeers' = m_numRequiredPeers
  BY DEF Next, HandlePeerList, vars
<1>4. \A n \in Made' : nodeParam'[n] \in 1 .. m_numRequiredPeers
  BY <1>2 DEF ParamInv
<1>5. \A n \in Node \ Made' : toWorker'[n] = <<>> /\ toTask'[n] = <<>>
  BY <1>1 DEF TypeInv, NodeInv
<1>6. ASSUME NEW n \in Node
      PROVE  jobParam'[n] = None \/ (n \in Made' /\ jobParam'[n] = nodeParam'[n])
  <2>1. jobParam[n] = None \/ (n \in Made /\ jobParam[n] = nodeParam[n])
    BY DEF ParamInv
  <2>2. CASE jobParam'[n] = jobParam[n]
    BY <1>2, <2>1, <2>2
  <2>3. CASE HandleTaskRequest(n)
    <3>1. /\ jobParam' = [jobParam EXCEPT ![n] = Head(toWorker[n]).param]
          /\ toWorker[n] # <<>> /\ Head(toWorker[n]).type = "TASK_REQUEST"
      BY <2>3 DEF HandleTaskRequest, WorkerReceives
    <3>2. jobParam \in [Node -> Param \union {None}] /\ toWorker[n] \in Seq(WorkerMessage)
      BY <1>1 DEF TypeInv, TypeOK
    <3>3. Head(toWorker[n]) \in ToSet(toWorker[n])
      BY <3>1, <3>2, TailOnce
    <3>4. n \in Made
      BY <1>1, <3>1 DEF TypeInv, NodeInv
    <3> QED
      BY <1>2, <3>1, <3>2, <3>3, <3>4 DEF ParamInv
  <2>4. jobParam'[n] = jobParam[n] \/ HandleTaskRequest(n)
    <3>1. jobParam \in [Node -> Param \union {None}]
      BY <1>1 DEF TypeInv, TypeOK
    <3>2. \A m \in Node : HandleTaskRequest(m) /\ m # n => jobParam'[n] = jobParam[n]
      BY <3>1 DEF HandleTaskRequest
    <3>3. \A t \in Thread : AskPeersStep(t) => UNCHANGED workerVars
      BY DEF AskPeersStep, AskLower, AskGiveUp, AskSkip, AskUnreachable, AskConnect, AskRequest,
             AskErase, AskAbort, AskShort, AskEnough
    <3>4. \A m \in Node : TaskHandler(m) => UNCHANGED workerVars
      BY DEF TaskHandler, HandleEligible, HandleNotEligible, HandleNotEligibleAbort,
             HandleExecuting, HandleRefused, HandleTaskResult, HandlePeerConnFailure,
             IgnorePeerConnFailure
    <3> QED
      BY <3>2, <3>3, <3>4 DEF Next, Step, vars, HandlePeerList, TaskCheck, TaskWait, WorkerStep,
                      HandleTaskExecute, HandleTaskCancel, JobDone,
                      RecvError, RecvEof, WorkerDown, WorkerUp, workerVars, jobVars
  <2> QED
    BY <2>2, <2>3, <2>4
<1>7. ASSUME NEW n \in Made
      PROVE  /\ \A m \in ToSet(toWorker'[n]) : m.type = "TASK_REQUEST" => m.param = nodeParam[n]
             /\ \A m \in ToSet(toTask'[n]) : m.type = "TASK_RESULT" => m.arg = nodeParam[n]
  <2>1. n \in Node
    BY DEF Made
  <2>2. /\ Cancel.type # "TASK_REQUEST" /\ Execute.type # "TASK_REQUEST"
        /\ ConnectionFailure.type # "TASK_RESULT"
    BY DEF Cancel, Execute, ConnectionFailure
  <2>3. ASSUME NEW t \in Thread, AskRequest(t), n = ask[t].node
        PROVE  RequestFor(ParamToAsk).param = nodeParam[n]
    <3>1. ask[t].pc = "request"
      BY <2>3 DEF AskRequest
    <3>2. ParamToAsk = nodeParam[n]
      BY <1>1, <2>3, <3>1 DEF AskedIsFirst, ParamToAsk
    <3> QED
      BY <3>2 DEF RequestFor
  <2>4. n \in jobRunning => jobParam[n] = nodeParam[n]
    BY <1>1, <2>1, TaskConstants DEF ParamInv, TypeInv, NodeInv, Employed, Param, None
  <2>5. ASSUME NEW t \in Thread, AskPeersStep(t)
        PROVE  /\ \A m \in ToSet(toWorker'[n]) : m.type = "TASK_REQUEST" => m.param = nodeParam[n]
               /\ \A m \in ToSet(toTask'[n]) : m.type = "TASK_RESULT" => m.arg = nodeParam[n]
    BY <1>1, <2>1, <2>2, <2>3, <2>5, TaskSent DEF ParamInv
  <2>6. ASSUME NEW k \in Node, TaskHandler(k)
        PROVE  /\ \A m \in ToSet(toWorker'[n]) : m.type = "TASK_REQUEST" => m.param = nodeParam[n]
               /\ \A m \in ToSet(toTask'[n]) : m.type = "TASK_RESULT" => m.arg = nodeParam[n]
    BY <1>1, <2>1, <2>2, <2>6, TaskSent DEF ParamInv
  <2>7. ASSUME NEW k \in Node, WorkerStep(k) \/ JobDone(k)
        PROVE  /\ \A m \in ToSet(toWorker'[n]) : m.type = "TASK_REQUEST" => m.param = nodeParam[n]
               /\ \A m \in ToSet(toTask'[n]) : m.type = "TASK_RESULT" => m.arg = nodeParam[n]
    BY <1>1, <2>1, <2>4, <2>7, WorkerSent DEF ParamInv
  <2>8. ASSUME \/ \E k \in Node : RecvError(k) \/ RecvEof(k)
               \/ \E w \in Worker : WorkerDown(w) \/ WorkerUp(w)
        PROVE  /\ \A m \in ToSet(toWorker'[n]) : m.type = "TASK_REQUEST" => m.param = nodeParam[n]
               /\ \A m \in ToSet(toTask'[n]) : m.type = "TASK_RESULT" => m.arg = nodeParam[n]
    BY <1>1, <2>1, <2>2, <2>8, WorkerSent DEF ParamInv
  <2>9. CASE \/ UNCHANGED vars \/ \E list \in PeerLists : HandlePeerList(list)
             \/ TaskCheck \/ TaskWait
    <3>1. UNCHANGED <<toWorker, toTask>>
      BY <2>9 DEF vars, HandlePeerList, TaskCheck, TaskWait, netVars
    <3> QED
      BY <2>1, <3>1 DEF ParamInv
  <2> QED
    BY <2>5, <2>6, <2>7, <2>8, <2>9 DEF Next, Step
<1>8. ASSUME NEW n \in Node
      PROVE  /\ \A m \in ToSet(toWorker'[n]) : m.type = "TASK_REQUEST" => m.param = nodeParam'[n]
             /\ \A m \in ToSet(toTask'[n]) : m.type = "TASK_RESULT" => m.arg = nodeParam'[n]
  <2>1. CASE n \in Made
    BY <1>2, <1>7, <2>1
  <2>2. CASE n \notin Made
    <3>1. n \notin Made \/ ~(toWorker'[n] # <<>> \/ toTask'[n] # <<>>)
      BY <2>2
    <3>2. CASE n \notin Made'
      BY <1>5, <3>2 DEF ToSet
    <3>3. CASE n \in Made'
      <4>1. PICK t \in Thread : AskConnect(t)
        BY <1>2, <2>2, <3>3
      <4>2. UNCHANGED <<toWorker, toTask>>
        BY <4>1 DEF AskConnect
      <4>3. toWorker[n] = <<>> /\ toTask[n] = <<>>
        BY <1>1, <2>2 DEF TypeInv, NodeInv
      <4> QED
        BY <4>2, <4>3 DEF ToSet
    <3> QED
      BY <3>2, <3>3
  <2> QED
    BY <2>1, <2>2
<1>9. /\ ToSet(m_unAllotParamList') \subseteq 1 .. m_numRequiredPeers
      /\ m_peerParamMap' \union m_paramResultMap' \subseteq 1 .. m_numRequiredPeers
  <2>0. m_unAllotParamList \in Seq(Param)
    BY <1>1 DEF TypeInv, TypeOK
  <2>1. ASSUME NEW t \in Thread, AskPeersStep(t)
        PROVE  /\ m_unAllotParamList' = m_unAllotParamList
                  \/ (m_unAllotParamList # <<>> /\ m_unAllotParamList' = Tail(m_unAllotParamList))
               /\ m_peerParamMap' \in {{}, m_peerParamMap} /\ m_paramResultMap' = m_paramResultMap
    BY <2>1 DEF AskPeersStep, AskLower, AskGiveUp, AskSkip, AskUnreachable, AskConnect, AskRequest,
                AskErase, EraseAsked, AskAbort, AskShort, AskEnough, TaskCancel, allotVars, resultVars
  <2>2. m_unAllotParamList # <<>> => ToSet(Tail(m_unAllotParamList)) \subseteq ToSet(m_unAllotParamList)
    BY <2>0, TailOnce
  <2>3. CASE \E t \in Thread : AskPeersStep(t)
    BY <2>1, <2>2, <2>3 DEF ParamInv
  <2>4. ASSUME NEW n \in Node, TaskHandler(n)
        PROVE  /\ ToSet(m_unAllotParamList') \subseteq 1 .. m_numRequiredPeers
               /\ m_peerParamMap' \union m_paramResultMap' \subseteq 1 .. m_numRequiredPeers
    <3>1. n \in Made /\ toTask[n] # <<>> /\ toTask[n] \in Seq(TaskMessage)
      <4>1. toTask[n] # <<>>
        BY <2>4 DEF TaskHandler, HandleEligible, HandleNotEligible, HandleNotEligibleAbort,
                    HandleExecuting, HandleRefused, HandleTaskResult, HandlePeerConnFailure,
                    IgnorePeerConnFailure, Receives
      <4> QED
        BY <1>1, <4>1 DEF TypeInv, TypeOK, NodeInv
    <3>2. nodeParam[n] \in 1 .. m_numRequiredPeers /\ nodeParam[n] \in Param
      BY <1>1, <3>1 DEF ParamInv, TypeInv, NodeInv
    <3>3. Head(toTask[n]) \in ToSet(toTask[n])
      BY <3>1, TailOnce
    <3>4. Head(toTask[n]).type = "TASK_RESULT" => Head(toTask[n]).arg = nodeParam[n]
      BY <3>3 DEF ParamInv
    <3>5. /\ m_peerParamMap' \subseteq m_peerParamMap \union {nodeParam[n]}
          /\ m_paramResultMap' \subseteq m_paramResultMap \union {nodeParam[n]}
          /\ m_unAllotParamList' = m_unAllotParamList \/ Unallot(nodeParam[n])
      BY <2>4, <3>4 DEF TaskHandler, HandleEligible, HandleNotEligible, HandleNotEligibleAbort,
                    HandleExecuting, HandleRefused, HandleTaskResult, HandlePeerConnFailure,
                    IgnorePeerConnFailure, Receives, allotVars, resultVars
    <3>6. \/ m_unAllotParamList' = m_unAllotParamList
          \/ m_unAllotParamList' = Append(m_unAllotParamList, nodeParam[n])
      BY <3>5 DEF Unallot
    <3>7. ToSet(Append(m_unAllotParamList, nodeParam[n]))
              = ToSet(m_unAllotParamList) \union {nodeParam[n]}
      BY <2>0, <3>2, AppendOnce
    <3> QED
      BY <3>2, <3>5, <3>6, <3>7 DEF ParamInv
  <2>5. CASE ~(\E t \in Thread : AskPeersStep(t)) /\ ~(\E n \in Node : TaskHandler(n))
    <3>1. UNCHANGED <<m_unAllotParamList, m_peerParamMap, m_paramResultMap>>
      BY <2>5 DEF Next, Step, vars, HandlePeerList, TaskCheck, TaskWait, WorkerStep,
                  HandleTaskRequest, HandleTaskExecute, HandleTaskCancel, JobDone,
                  RecvError, RecvEof, WorkerDown, WorkerUp, taskVars, allotVars, resultVars
    <3> QED
      BY <3>1 DEF ParamInv
  <2> QED
    BY <2>3, <2>4, <2>5
<1>10. /\ \A n \in Node :
              /\ jobParam'[n] = None \/ (n \in Made' /\ jobParam'[n] = nodeParam'[n])
              /\ \A m \in ToSet(toWorker'[n]) : m.type = "TASK_REQUEST" => m.param = nodeParam'[n]
              /\ \A m \in ToSet(toTask'[n]) : m.type = "TASK_RESULT" => m.arg = nodeParam'[n]
  BY <1>6, <1>8
<1> QED
  BY <1>3, <1>4, <1>9, <1>10 DEF ParamInv

\* At first no node exists.
LEMMA InitParams == Init => ParamInv
BY DEF Init, ParamInv, Made, ToSet

-----------------------------------------------------------------------------
\* A failure that the task hears of is of a process that is gone.

\* No process comes back, or none dies.
NoComeback == ~Restarts \/ MaxDowns = 0

Failure == {"CONNECTION_FAILURE"}

\* The connection broke before the task, or the node, was told.
Broken == {"stale", "dead", "eof"}

\* Nothing comes after a failure but failures.
Clean(s) == \A i, j \in DOMAIN s : i < j /\ s[i].type \in Failure => s[j].type \in Failure

\* A broken connection and an unread failure mean that the process is gone, or
\* that the task closed the connection itself.
GoneInv ==
    /\ downs <= MaxDowns
    /\ downs = 0 => up = Worker
    /\ \A n \in Made :
          /\ conn[n] \in Broken => nodePeer[n] \notin up
          /\ Carries(toTask[n], Failure) => n \in m_peerResultAvailMap \/ nodePeer[n] \notin up
          /\ Clean(toTask[n])

\* Reading and reporting a failure leave a channel clean.
LEMMA CleanChannel ==
    ASSUME NEW S, NEW s \in Seq(S), Clean(s), NEW m \in S
    PROVE  /\ s # <<>> => Clean(Tail(s))
           /\ m.type \in Failure \/ ~Carries(s, Failure) => Clean(Append(s, m))
           /\ \A k \in 0 .. Len(s) : Clean(SubSeq(s, 1, k))
           /\ s # <<>> /\ Head(s).type \in Failure => ~Carries(s, Answers)
<1>1. Len(s) \in Nat /\ DOMAIN s = 1 .. Len(s)
  BY LenProperties
<1>2. ASSUME s # <<>> PROVE Clean(Tail(s))
  <2>1. /\ Len(s) # 0 /\ DOMAIN Tail(s) = 1 .. Len(s) - 1
        /\ \A i \in 1 .. Len(s) - 1 : Tail(s)[i] = s[i + 1]
    BY <1>1, <1>2, HeadTailProperties, LenProperties, EmptySeq
  <2> SUFFICES ASSUME NEW i \in DOMAIN Tail(s), NEW j \in DOMAIN Tail(s), i < j,
                      Tail(s)[i].type \in Failure
               PROVE  Tail(s)[j].type \in Failure
    BY DEF Clean
  <2>2. /\ i + 1 \in DOMAIN s /\ j + 1 \in DOMAIN s /\ i + 1 < j + 1
        /\ Tail(s)[i] = s[i + 1] /\ Tail(s)[j] = s[j + 1]
    BY <1>1, <2>1
  <2> QED
    BY <2>2 DEF Clean
<1>3. ASSUME m.type \in Failure \/ ~Carries(s, Failure) PROVE Clean(Append(s, m))
  <2> DEFINE a == Append(s, m)
  <2>1. /\ DOMAIN a = 1 .. Len(s) + 1 /\ a[Len(s) + 1] = m
        /\ \A i \in 1 .. Len(s) : a[i] = s[i]
    BY AppendProperties, LenProperties
  <2> HIDE DEF a
  <2> SUFFICES ASSUME NEW i \in DOMAIN a, NEW j \in DOMAIN a, i < j, a[i].type \in Failure
               PROVE  a[j].type \in Failure
    BY DEF Clean, a
  <2>2. i \in DOMAIN s /\ a[i] = s[i]
    BY <1>1, <2>1
  <2>3. CASE j = Len(s) + 1
    BY <1>3, <2>1, <2>2, <2>3 DEF Carries
  <2>4. CASE j # Len(s) + 1
    <3>1. j \in DOMAIN s /\ a[j] = s[j]
      BY <1>1, <2>1, <2>4
    <3> QED
      BY <2>2, <3>1 DEF Clean
  <2> QED
    BY <2>3, <2>4
<1>4. ASSUME NEW k \in 0 .. Len(s) PROVE Clean(SubSeq(s, 1, k))
  <2>1. /\ DOMAIN SubSeq(s, 1, k) = 1 .. k
        /\ \A i \in 1 .. k : SubSeq(s, 1, k)[i] = s[i]
    BY <1>1, SubSeqProperties, LenProperties, ElementOfSeq
  <2>2. \A i \in DOMAIN SubSeq(s, 1, k) : i \in DOMAIN s /\ SubSeq(s, 1, k)[i] = s[i]
    BY <1>1, <2>1
  <2> QED
    BY <2>2 DEF Clean
<1>5. ASSUME s # <<>>, Head(s).type \in Failure PROVE ~Carries(s, Answers)
  <2>1. Len(s) # 0 /\ Head(s) = s[1]
    BY <1>5, HeadTailProperties, EmptySeq
  <2>2. \A j \in DOMAIN s : j = 1 \/ 1 < j
    BY <1>1
  <2>3. \A j \in DOMAIN s : s[j].type \in Failure
    BY <1>1, <1>5, <2>1, <2>2 DEF Clean
  <2> QED
    BY <2>3 DEF Carries, Failure, Answers
<1> QED
  BY <1>2, <1>3, <1>4, <1>5

\* What is sent breaks only connections to processes that are gone.
LEMMA SendBreaks ==
    ASSUME NEW out, SendAll(out), NEW m \in Node, conn'[m] \in Broken
    PROVE  conn[m] \in Broken \/ nodePeer[m] \notin up
BY DEF SendAll, Reachable, Broken

\* So does every other step of the task.
LEMMA TaskBreaks ==
    ASSUME RequestInv, NEW m \in Node, conn'[m] \in Broken,
           (\E t \in Thread : AskPeersStep(t)) \/ (\E n \in Node : TaskHandler(n))
    PROVE  conn[m] \in Broken \/ nodePeer[m] \notin up
<1>1. conn \in [Node -> ConnState]
  BY DEF RequestInv, TypeInv, TypeOK
<1>2. \/ conn' = conn \/ \E out : SendAll(out)
      \/ \E n, c : conn' = [conn EXCEPT ![n] = c] /\ c \in {"up", "down"}
  <2>1. ASSUME NEW t \in Thread, AskPeersStep(t)
        PROVE  \/ conn' = conn \/ \E out : SendAll(out)
               \/ conn' = [conn EXCEPT ![numNodes + 1] = "up"]
    BY <2>1 DEF AskPeersStep, AskLower, AskGiveUp, AskSkip, AskUnreachable, AskConnect, AskRequest,
                AskErase, AskAbort, AskShort, AskEnough, TaskCancel, Send, netVars
  <2>2. ASSUME NEW n \in Node, TaskHandler(n)
        PROVE  \/ conn' = conn \/ \E out : SendAll(out)
               \/ conn' = [conn EXCEPT ![n] = "down"]
    BY <2>2 DEF TaskHandler, HandleEligible, HandleNotEligible, HandleNotEligibleAbort,
                HandleExecuting, HandleRefused, HandleTaskResult, HandlePeerConnFailure,
                IgnorePeerConnFailure, Send
  <2> QED
    BY <2>1, <2>2
<1> QED
  BY <1>1, <1>2, SendBreaks DEF Broken

\* Every step keeps GoneInv, if no process comes back.
LEMMA StepGone ==
    ASSUME NoComeback, RequestInv, GoneInv, [Next]_vars
    PROVE  GoneInv'
<1>1. /\ TypeInv /\ StageInv /\ UpInv /\ TypeInv' /\ RequestInv'
      /\ conn \in [Node -> ConnState] /\ nodePeer \in [Node -> Worker \union {None}]
      /\ toTask \in [Node -> Seq(TaskMessage)] /\ up \subseteq Worker /\ downs \in Nat
      /\ ConnectionFailure \in TaskMessage /\ ConnectionFailure.type \in Failure
  BY StepRequests, ConstantMessages
     DEF RequestInv, TypeInv, TypeOK, ConnectionFailure, Failure
<1>2. Made \subseteq Node
  BY DEF Made
<1>3. ASSUME UNCHANGED <<nodePeer, up, downs, m_peerResultAvailMap, conn, toTask>>
      PROVE  GoneInv'
  BY <1>3 DEF GoneInv, Made
<1>4. ASSUME NEW t \in Thread, AskPeersStep(t)
      PROVE  GoneInv'
  <2>1. UNCHANGED <<up, downs, m_peerResultAvailMap, toTask>>
    BY <1>4 DEF AskPeersStep, AskLower, AskGiveUp, AskSkip, AskUnreachable, AskConnect,
                AskRequest, AskErase, AskAbort, AskShort, AskEnough, netVars, workerVars, resultVars
  <2>2. \A m \in Node : conn'[m] \in Broken => conn[m] \in Broken \/ nodePeer[m] \notin up
    BY <1>1, <1>4, TaskBreaks
  <2>3. CASE ~AskConnect(t)
    <3>1. nodePeer' = nodePeer /\ numNodes' = numNodes
      BY <1>4, <2>3 DEF AskPeersStep, AskLower, AskGiveUp, AskSkip, AskUnreachable,
                  AskRequest, AskErase, AskAbort, AskShort, AskEnough, nodeVars
    <3>2. Made' = Made
      BY <1>1, <3>1 DEF RequestInv, MadeInv
    <3> QED
      BY <1>2, <2>1, <2>2, <3>1, <3>2 DEF GoneInv
  <2>4. CASE AskConnect(t)
    <3> DEFINE n == numNodes + 1
    <3>1. /\ nodePeer' = [nodePeer EXCEPT ![n] = Peer(t)] /\ conn' = [conn EXCEPT ![n] = "up"]
      BY <2>4 DEF AskConnect
    <3>2. n \in Node \ Made /\ Made' = Made \union {n}
      BY <1>1, <2>4, NodesStay
    <3>3. toTask[n] = <<>>
      BY <1>1, <3>2 DEF TypeInv, NodeInv
    <3>4. conn'[n] = "up" /\ \A m \in Made : nodePeer'[m] = nodePeer[m] /\ conn'[m] = conn[m]
      BY <1>1, <1>2, <3>1, <3>2
    <3>5. Clean(toTask[n]) /\ ~Carries(toTask[n], Failure)
      BY <3>3 DEF Clean, Carries
    <3> HIDE DEF n
    <3> QED
      BY <1>2, <2>1, <3>2, <3>4, <3>5 DEF GoneInv, Broken
  <2> QED
    BY <2>3, <2>4
<1>5. ASSUME NEW n \in Node, TaskHandler(n)
      PROVE  GoneInv'
  <2>1. /\ Made' = Made /\ nodePeer' = nodePeer /\ up' = up /\ downs' = downs /\ n \in Made
    BY <1>1, <1>5, HandlerConnects
        DEF TaskHandler, HandleEligible, HandleNotEligible, HandleNotEligibleAbort,
            HandleExecuting, HandleRefused, HandleTaskResult, HandlePeerConnFailure,
            IgnorePeerConnFailure, workerVars
  <2>2. \A m \in Node : conn'[m] \in Broken => conn[m] \in Broken \/ nodePeer[m] \notin up
    BY <1>1, <1>5, TaskBreaks
  <2>3. /\ m_peerResultAvailMap \subseteq m_peerResultAvailMap'
        /\ HandleTaskResult(n) => n \in m_peerResultAvailMap'
    BY <1>5, HandlerLists
  <2>4. /\ toTask[n] # <<>>
        /\ \/ toTask' = [toTask EXCEPT ![n] = Tail(@)]
           \/ /\ toTask' = [toTask EXCEPT ![n] = Append(Tail(@), ConnectionFailure)]
              /\ HandleTaskResult(n)
    BY <1>5 DEF TaskHandler, HandleEligible, HandleNotEligible, HandleNotEligibleAbort,
                HandleExecuting, HandleRefused, HandleTaskResult, HandlePeerConnFailure,
                IgnorePeerConnFailure, Receives, Consume
  <2> DEFINE r == Tail(toTask[n])
  <2>5. /\ r \in Seq(TaskMessage) /\ Clean(r)
        /\ Carries(r, Failure) => Carries(toTask[n], Failure)
    <3>1. r \in Seq(TaskMessage) /\ Shrinks(r, toTask[n], Failure)
      BY <1>1, <2>4, HeadTailProperties, TailShrinks
    <3>2. Clean(r)
      BY <1>1, <2>1, <2>4, CleanChannel DEF GoneInv
    <3> QED
      BY <3>1, <3>2 DEF Shrinks
  <2>6. /\ \A m \in Node \ {n} : toTask'[m] = toTask[m]
        /\ toTask'[n] = r \/ (toTask'[n] = Append(r, ConnectionFailure) /\ HandleTaskResult(n))
    BY <1>1, <2>4
  <2> HIDE DEF r
  <2>7. Clean(toTask'[n]) /\ (Carries(toTask'[n], Failure) =>
                                  Carries(toTask[n], Failure) \/ HandleTaskResult(n))
    BY <1>1, <2>5, <2>6, CleanChannel
  <2> QED
    BY <1>2, <2>1, <2>2, <2>3, <2>6, <2>7 DEF GoneInv
<1>6. ASSUME NEW n \in Node, WorkerStep(n) \/ JobDone(n)
      PROVE  GoneInv'
  <2>1. UNCHANGED <<nodePeer, up, downs, m_peerResultAvailMap, conn>>
    BY <1>6 DEF WorkerStep, HandleTaskRequest, HandleTaskExecute, HandleTaskCancel, JobDone,
                taskVars, nodeVars, resultVars
  <2>2. Made' = Made
    BY <2>1 DEF Made
  <2>3. CASE toTask' = toTask
    BY <1>3, <2>1, <2>3
  <2>4. CASE toTask' # toTask
    <3>1. n \in Made /\ nodePeer[n] \in up /\ n \notin m_peerResultAvailMap
      <4>1. n \in Made
        BY <1>1, <1>6 DEF WorkerStep, HandleTaskRequest, HandleTaskExecute, HandleTaskCancel,
                          JobDone, WorkerReceives, TypeInv, NodeInv
      <4>2. nodePeer[n] \in up
        BY <1>1, <1>6, <4>1 DEF WorkerStep, HandleTaskRequest, HandleTaskExecute, HandleTaskCancel,
                          JobDone, WorkerReceives, UpInv
      <4>3. Awaited(n) \/ Engaged(n)
        <5>1. toWorker[n] \in Seq(WorkerMessage)
          BY <1>1 DEF TypeInv, TypeOK
        <5>2. ASSUME NEW type, WorkerReceives(n, type) PROVE Carries(toWorker[n], {type})
          BY <5>1, <5>2, TailShrinks DEF WorkerReceives
        <5>3. ~HandleTaskCancel(n)
          BY <2>4 DEF HandleTaskCancel
        <5> QED
          BY <1>6, <5>2, <5>3 DEF WorkerStep, HandleTaskRequest, HandleTaskExecute, JobDone,
                                  Awaited, Engaged
      <4> QED
        BY <1>1, <4>1, <4>2, <4>3 DEF StageInv
    <3>2. ~Carries(toTask[n], Failure) /\ Clean(toTask[n])
      BY <3>1 DEF GoneInv
    <3>3. \E type \in {"TASK_REQUEST_RESP", "EXECUTING", "REFUSED", "TASK_RESULT"} :
              \E arg : toTask' = [toTask EXCEPT ![n] = Append(@, [type |-> type, arg |-> arg])]
      BY <1>6, <2>4 DEF WorkerStep, HandleTaskRequest, HandleTaskExecute, HandleTaskCancel,
                        JobDone, Reply
    <3>4. PICK x : x.type \notin Failure /\ toTask' = [toTask EXCEPT ![n] = Append(@, x)]
      <4>1. \A type, arg : type \in {"TASK_REQUEST_RESP", "EXECUTING", "REFUSED", "TASK_RESULT"} =>
                [type |-> type, arg |-> arg].type \notin Failure
        BY DEF Failure
      <4> QED
        BY <3>3, <4>1
    <3>5. /\ toTask[n] \in Seq(TaskMessage \union {x}) /\ x \in TaskMessage \union {x}
      BY <1>1, SeqMonotonic
    <3>6. Clean(Append(toTask[n], x)) /\ ~Carries(Append(toTask[n], x), Failure)
      BY <3>2, <3>4, <3>5, CleanChannel, AppendShrinks
    <3>7. toTask'[n] = Append(toTask[n], x) /\ \A m \in Node \ {n} : toTask'[m] = toTask[m]
      BY <1>1, <3>4
    <3> QED
      BY <1>2, <2>1, <2>2, <3>6, <3>7 DEF GoneInv
  <2> QED
    BY <2>3, <2>4
<1>7. ASSUME NEW n \in Node, RecvError(n) \/ RecvEof(n)
      PROVE  GoneInv'
  <2>1. /\ UNCHANGED <<nodePeer, up, downs, m_peerResultAvailMap>> /\ conn[n] \in Broken
        /\ \A m \in Node \ {n} : conn'[m] = conn[m]
        /\ conn'[n] # "none"
    BY <1>1, <1>7 DEF RecvError, RecvEof, taskVars, nodeVars, resultVars, workerVars, Broken
  <2>2. Made' = Made /\ n \in Made
    BY <2>1 DEF Made, Broken
  <2>3. nodePeer[n] \notin up
    BY <2>1, <2>2 DEF GoneInv
  <2>4. /\ \A m \in Node \ {n} : toTask'[m] = toTask[m]
        /\ Clean(toTask'[n])
    <3>1. CASE RecvEof(n)
      BY <2>2, <3>1 DEF RecvEof, GoneInv
    <3>2. CASE RecvError(n)
      <4>1. PICK k \in 0 .. Len(toTask[n]) :
                toTask' = [toTask EXCEPT ![n] = Append(SubSeq(@, 1, k), ConnectionFailure)]
        BY <3>2 DEF RecvError, HandleConnectionBroken
      <4> DEFINE r == SubSeq(toTask[n], 1, k)
      <4>2. r \in Seq(TaskMessage)
        BY <1>1, SubSeqProperties, LenProperties, ElementOfSeq
      <4>3. Clean(r)
        BY <1>1, <2>2, CleanChannel DEF GoneInv
      <4>4. toTask'[n] = Append(r, ConnectionFailure) /\ \A m \in Node \ {n} : toTask'[m] = toTask[m]
        BY <1>1, <4>1
      <4> HIDE DEF r
      <4> QED
        BY <1>1, <4>2, <4>3, <4>4, CleanChannel
    <3> QED
      BY <1>7, <3>1, <3>2
  <2> QED
    BY <1>2, <2>1, <2>2, <2>3, <2>4 DEF GoneInv
<1>8. ASSUME NEW w \in Worker, WorkerDown(w)
      PROVE  GoneInv'
  <2>1. /\ UNCHANGED <<nodePeer, m_peerResultAvailMap, toTask>> /\ up' = up \ {w}
        /\ downs' # 0 /\ downs' <= MaxDowns
        /\ \A m \in Node : conn'[m] = IF m \in NodesOf(w) /\ conn[m] = "up" THEN "stale"
                                                                            ELSE conn[m]
    BY <1>1, <1>8, TaskConstants DEF WorkerDown, taskVars, nodeVars, resultVars
  <2>2. Made' = Made
    BY <2>1 DEF Made
  <2> QED
    BY <1>2, <2>1, <2>2 DEF GoneInv, NodesOf
<1>9. ASSUME NEW w \in Worker, WorkerUp(w)
      PROVE  FALSE
  BY <1>1, <1>9 DEF WorkerUp, NoComeback, GoneInv
<1>10. CASE \/ UNCHANGED vars \/ \E list \in PeerLists : HandlePeerList(list)
            \/ TaskCheck \/ TaskWait
  <2>1. UNCHANGED <<nodePeer, up, downs, m_peerResultAvailMap, conn, toTask>>
    BY <1>10 DEF vars, HandlePeerList, TaskCheck, TaskWait, taskVars, nodeVars, resultVars,
                 netVars, workerVars
  <2> QED
    BY <1>3, <2>1
<1> QED
  BY <1>4, <1>5, <1>6, <1>7, <1>8, <1>9, <1>10 DEF Next, Step

\* At first every process runs.
LEMMA InitGone == Init => GoneInv
BY TaskConstants DEF Init, GoneInv, Made

-----------------------------------------------------------------------------
\* A parameter has one place.

\* Something is under way for the node; AskPeers has sent its request and not
\* yet erased its parameter.
Live(n) == Awaited(n) \/ Engaged(n)
Erasing(n) == \E t \in Thread : ask[t].pc = "erase" /\ ask[t].node = n

\* No two nodes are under way for one parameter, which is not to be asked for
\* meanwhile, and has no result before the job has brought it.
OwnInv ==
    /\ \A n, m \in Node : Live(n) /\ Live(m) /\ nodeParam[n] = nodeParam[m] => n = m
    /\ IsInjective(m_unAllotParamList)
    /\ ToSet(m_unAllotParamList) \intersect (m_peerParamMap \union m_paramResultMap) = {}
    /\ \A n \in Node : Live(n) /\ ~Erasing(n) => nodeParam[n] \notin ToSet(m_unAllotParamList)
    /\ \A n \in Node : Awaited(n) => nodeParam[n] \notin m_peerParamMap \union m_paramResultMap
    /\ \A n \in Node : Engaged(n) => /\ nodeParam[n] \notin m_paramResultMap
                                     /\ m_bStop \/ nodeParam[n] \in m_peerParamMap

\* A failure of the node's process may still come to be handled: the process is
\* gone, or another may die.
Mortal(n) == downs < MaxDowns \/ nodePeer[n] \notin up

\* The nodes the task believes to be executing and may hear a failure of.
Failing == {n \in ToSet(m_taskNodes) : Mortal(n)}

\* Such a node still has its parameter for its own, so the failure takes back
\* what nobody else works on.
FinalInv ==
    /\ \A n \in Failing, m \in Node :
          (m \in Failing \/ Live(m)) /\ nodeParam[n] = nodeParam[m] => n = m
    /\ \A n \in Failing : nodeParam[n] \notin ToSet(m_unAllotParamList)
    /\ \A n \in Failing \ m_peerResultAvailMap :
          nodeParam[n] \notin m_paramResultMap /\ (m_bStop \/ nodeParam[n] \in m_peerParamMap)

\* Only a node that was made is under way or executing.
LEMMA LiveMade ==
    ASSUME RequestInv
    PROVE  /\ \A n \in Node : Live(n) => n \in Made
           /\ ToSet(m_taskNodes) \subseteq Made
<1>1. /\ \A n \in Node \ Made : toWorker[n] = <<>> /\ toTask[n] = <<>> /\ n \notin jobRunning
      /\ m_taskNodes \in Seq(Made)
  BY DEF RequestInv, TypeInv, NodeInv
<1>2. \A n \in Node \ Made : ~Live(n)
  BY <1>1 DEF Live, Awaited, Engaged, Carries
<1> QED
  BY <1>1, <1>2, ElementOfSeq, LenProperties DEF ToSet

\* Nobody becomes mortal.
LEMMA FailingSince ==
    ASSUME RequestInv, [Next]_vars
    PROVE  /\ Failing \subseteq Made /\ Failing \subseteq ToSet(m_taskNodes)
           /\ ToSet(m_taskNodes') \subseteq ToSet(m_taskNodes) => Failing' \subseteq Failing
           /\ \A n \in Made : (Mortal(n)' => Mortal(n)) /\ nodePeer'[n] = nodePeer[n]
<1>1. /\ downs \in Nat /\ MaxDowns \in Nat
      /\ Made \subseteq Node /\ nodePeer \in [Node -> Worker \union {None}]
  BY TaskConstants DEF RequestInv, TypeInv, TypeOK, Made
<1>2. /\ \/ downs' = downs /\ up \subseteq up'
         \/ downs' = downs + 1 /\ downs < MaxDowns
      /\ nodePeer' = nodePeer \/ \E t \in Thread : AskConnect(t)
  <2>1. CASE \E w \in Worker : WorkerDown(w) \/ WorkerUp(w)
    BY <2>1 DEF WorkerDown, WorkerUp, nodeVars
  <2>2. CASE \E t \in Thread : AskPeersStep(t)
    BY <2>2 DEF AskPeersStep, AskLower, AskGiveUp, AskSkip, AskUnreachable, AskConnect,
                AskRequest, AskErase, AskAbort, AskShort, AskEnough, workerVars, nodeVars
  <2>3. CASE \E n \in Node : TaskHandler(n)
    BY <2>3 DEF TaskHandler, HandleEligible, HandleNotEligible, HandleNotEligibleAbort,
                HandleExecuting, HandleRefused, HandleTaskResult, HandlePeerConnFailure,
                IgnorePeerConnFailure, workerVars, nodeVars
  <2>4. CASE \/ UNCHANGED vars \/ (\E list \in PeerLists : HandlePeerList(list))
             \/ TaskCheck \/ TaskWait
             \/ \E n \in Node : WorkerStep(n) \/ JobDone(n) \/ RecvError(n) \/ RecvEof(n)
    BY <2>4 DEF vars, HandlePeerList, TaskCheck, TaskWait, WorkerStep, HandleTaskRequest,
                HandleTaskExecute, HandleTaskCancel, JobDone, RecvError, RecvEof, workerVars,
                nodeVars
  <2> QED
    BY <2>1, <2>2, <2>3, <2>4 DEF Next, Step
<1>6. \A n \in Made : nodePeer'[n] = nodePeer[n]
  <2>1. ASSUME NEW t \in Thread, AskConnect(t)
        PROVE  nodePeer' = [nodePeer EXCEPT ![numNodes + 1] = Peer(t)]
    BY <2>1 DEF AskConnect
  <2> QED
    BY <1>1, <1>2, <2>1, NodesStay
<1>3. \A n \in Made : Mortal(n)' => Mortal(n)
  BY <1>1, <1>2, <1>6 DEF Mortal
<1>4. Failing \subseteq Made /\ Failing \subseteq ToSet(m_taskNodes)
  BY LiveMade DEF Failing
<1>5. ASSUME ToSet(m_taskNodes') \subseteq ToSet(m_taskNodes)
      PROVE  Failing' \subseteq Failing
  BY <1>3, <1>5, LiveMade DEF Failing
<1> QED
  BY <1>3, <1>4, <1>5, <1>6

\* A step that starts nothing and moves no parameter, unless it forgets them.
LEMMA OwnKept ==
    ASSUME RequestInv, OwnInv,
           \A n \in Made : nodeParam'[n] = nodeParam[n],
           \A n \in Node : (Awaited(n)' => Awaited(n)) /\ (Engaged(n)' => Engaged(n)),
           \A n \in Node : Erasing(n) => Erasing(n)',
           m_unAllotParamList' = m_unAllotParamList, m_paramResultMap' = m_paramResultMap,
           m_bStop => m_bStop',
           m_peerParamMap' = m_peerParamMap \/ (m_peerParamMap' = {} /\ m_bStop')
    PROVE  /\ OwnInv'
           /\ FinalInv /\ Failing' \subseteq Failing
              /\ m_peerResultAvailMap \subseteq m_peerResultAvailMap' => FinalInv'
<1>1. \A n \in Node : Live(n)' => Live(n) /\ nodeParam'[n] = nodeParam[n]
  BY LiveMade DEF Live
<1>2. \A n \in Failing : n \in Node /\ nodeParam'[n] = nodeParam[n]
  BY LiveMade DEF Made, Failing
<1>3. OwnInv'
  <2>1. \A n, m \in Node : Live(n)' /\ Live(m)' /\ nodeParam'[n] = nodeParam'[m] => n = m
    BY <1>1 DEF OwnInv
  <2>2. ToSet(m_unAllotParamList') \intersect (m_peerParamMap' \union m_paramResultMap') = {}
    BY DEF OwnInv
  <2>3. \A n \in Node : Live(n)' /\ ~Erasing(n)' => nodeParam'[n] \notin ToSet(m_unAllotParamList')
    BY <1>1 DEF OwnInv
  <2>4. \A n \in Node : Awaited(n)' => nodeParam'[n] \notin m_peerParamMap' \union m_paramResultMap'
    BY <1>1 DEF OwnInv, Live
  <2>5. \A n \in Node : Engaged(n)' => /\ nodeParam'[n] \notin m_paramResultMap'
                                       /\ m_bStop' \/ nodeParam'[n] \in m_peerParamMap'
    BY <1>1 DEF OwnInv, Live
  <2> QED
    BY <2>1, <2>2, <2>3, <2>4, <2>5 DEF OwnInv
<1>4. ASSUME FinalInv, Failing' \subseteq Failing,
             m_peerResultAvailMap \subseteq m_peerResultAvailMap'
      PROVE  FinalInv'
  BY <1>1, <1>2, <1>4 DEF FinalInv
<1> QED
  BY <1>3, <1>4

\* AskPeers asks for a parameter that nothing else is under way for.
LEMMA AskOwns ==
    ASSUME CalmInv, OwnInv, NEW t \in Thread, AskPeersStep(t), [Next]_vars
    PROVE  OwnInv' /\ (FinalInv => FinalInv')
<1>1. /\ RequestInv /\ TypeInv /\ OneAsks /\ AskedIsFirst /\ m_unAllotParamList \in Seq(Param)
      /\ ask \in [Thread -> Asking]
  BY DEF CalmInv, KeepInv, RequestInv, TypeInv, TypeOK
<1>2. /\ \A n \in Made : nodeParam'[n] = nodeParam[n]
      /\ Made \subseteq Node
  BY <1>1, NodesStay DEF Made
<1>3. \A m \in Node : /\ Engaged(m)' => Engaged(m)
                      /\ Awaited(m)' => Awaited(m) \/ (AskRequest(t) /\ ask[t].node = m)
  BY <1>1, AskTurns
<1>4. /\ ask[t].pc \in AskStep
      /\ \A u \in Thread \ {t} : ask'[u] = ask[u] /\ ask[u].pc \notin AskStep
  BY <1>1, AskMoves DEF OneAsks, Thread
<1>5. /\ m_peerResultAvailMap' = m_peerResultAvailMap /\ m_paramResultMap' = m_paramResultMap
      /\ ToSet(m_taskNodes') \subseteq ToSet(m_taskNodes)
      /\ \/ m_peerParamMap' = m_peerParamMap /\ m_bStop' = m_bStop
         \/ m_peerParamMap' = {} /\ m_bStop'
      /\ ~AskErase(t) => m_unAllotParamList' = m_unAllotParamList
  <2>1. m_taskNodes' \in {m_taskNodes, <<>>}
    BY DEF AskPeersStep, AskLower, AskGiveUp, AskSkip, AskUnreachable, AskConnect, AskRequest,
           AskErase, AskAbort, AskShort, AskEnough, TaskCancel, nodeLists
  <2>2. ToSet(m_taskNodes') \subseteq ToSet(m_taskNodes)
    BY <2>1 DEF ToSet
  <2>3. /\ m_peerResultAvailMap' = m_peerResultAvailMap /\ m_paramResultMap' = m_paramResultMap
        /\ \/ m_peerParamMap' = m_peerParamMap /\ m_bStop' = m_bStop
           \/ m_peerParamMap' = {} /\ m_bStop'
        /\ ~AskErase(t) => m_unAllotParamList' = m_unAllotParamList
    BY DEF AskPeersStep, AskLower, AskGiveUp, AskSkip, AskUnreachable, AskConnect, AskRequest,
           AskErase, AskAbort, AskShort, AskEnough, TaskCancel, allotVars, resultVars
  <2> QED
    BY <2>2, <2>3
<1>6. ~AskErase(t) => \A n \in Node : Erasing(n) => Erasing(n)'
  <2> SUFFICES ASSUME ~AskErase(t), NEW n \in Node, Erasing(n) PROVE Erasing(n)'
    OBVIOUS
  <2>1. PICK u \in Thread : ask[u].pc = "erase" /\ ask[u].node = n
    BY DEF Erasing
  <2>2. u = t
    BY <1>4, <2>1 DEF AskStep
  <2>3. AskAbort(t)
    BY <2>1, <2>2 DEF AskPeersStep, AskLower, AskGiveUp, AskSkip, AskUnreachable, AskConnect,
                AskRequest, AskShort, AskEnough, AskEnd, Scanning
  <2>4. ask' = ask
    BY <2>3 DEF AskAbort
  <2> QED
    BY <2>1, <2>4 DEF Erasing
<1>10. Failing' \subseteq Failing /\ \A m \in Failing : m \in Node
  BY <1>1, <1>2, <1>5, FailingSince
<1>7. CASE ~AskErase(t) /\ ~AskRequest(t)
  BY <1>1, <1>2, <1>3, <1>5, <1>6, <1>7, <1>10, OwnKept
<1>8. CASE AskErase(t)
  <2> DEFINE n == ask[t].node
             l == m_unAllotParamList
  <2>1. /\ ask[t].pc = "erase" /\ l # <<>> /\ m_unAllotParamList' = Tail(l)
        /\ ~AskRequest(t) /\ m_peerParamMap' = m_peerParamMap /\ m_bStop' = m_bStop
        /\ nodeParam' = nodeParam
    BY <1>8 DEF AskErase, EraseAsked, AskRequest, nodeVars
  <2>2. Head(l) = nodeParam[n]
    BY <1>1, <2>1 DEF AskedIsFirst
  <2>3. ToSet(l) = ToSet(Tail(l)) \union {Head(l)} /\ IsInjective(Tail(l)) /\ Head(l) \notin ToSet(Tail(l))
    BY <1>1, <2>1, TailOnce DEF OwnInv
  <2>4. \A m \in Node : Erasing(m) => m = n
    BY <1>4 DEF Erasing, AskStep
  <2>5. \A m \in Node : Live(m)' => Live(m) /\ nodeParam'[m] \notin ToSet(Tail(l))
    <3> SUFFICES ASSUME NEW m \in Node, Live(m)'
                 PROVE  Live(m) /\ nodeParam[m] \notin ToSet(Tail(l))
      BY <2>1
    <3>1. Live(m)
      BY <1>3, <2>1 DEF Live
    <3>2. CASE m = n
      BY <2>2, <2>3, <3>1, <3>2
    <3>3. CASE m # n
      BY <2>3, <2>4, <3>1, <3>3 DEF OwnInv
    <3> QED
      BY <3>1, <3>2, <3>3
  <2> HIDE DEF l, n
  <2>6. OwnInv'
    <3>1. \A k, m \in Node : Live(k)' /\ Live(m)' /\ nodeParam'[k] = nodeParam'[m] => k = m
      BY <2>1, <2>5 DEF OwnInv
    <3>2. ToSet(m_unAllotParamList') \intersect (m_peerParamMap' \union m_paramResultMap') = {}
      BY <1>5, <2>1, <2>3 DEF OwnInv, l
    <3>3. \A m \in Node : Awaited(m)' => nodeParam'[m] \notin m_peerParamMap' \union m_paramResultMap'
      BY <1>3, <1>5, <2>1 DEF OwnInv
    <3>4. \A m \in Node : Engaged(m)' => /\ nodeParam'[m] \notin m_paramResultMap'
                                         /\ m_bStop' \/ nodeParam'[m] \in m_peerParamMap'
      BY <1>3, <1>5, <2>1 DEF OwnInv
    <3> QED
      BY <2>1, <2>3, <2>5, <3>1, <3>2, <3>3, <3>4 DEF OwnInv
  <2>7. FinalInv => FinalInv'
    BY <1>5, <1>10, <2>1, <2>3, <2>5 DEF FinalInv, l
  <2> QED
    BY <2>6, <2>7
<1>9. CASE AskRequest(t)
  <2>0. PICK n, p : n = ask[t].node /\ p = Head(m_unAllotParamList)
    OBVIOUS
  <2>1. /\ ask[t].pc = "request" /\ m_unAllotParamList # <<>> /\ nodeParam' = nodeParam
        /\ m_peerParamMap' = m_peerParamMap /\ m_bStop' = m_bStop /\ m_taskNodes' = m_taskNodes
        /\ m_unAllotParamList' = m_unAllotParamList
        /\ Send(n, RequestFor(p)) /\ UNCHANGED <<toTask, jobRunning>>
    BY <1>9, <2>0 DEF AskRequest, ParamToAsk, allotVars, nodeLists, nodeVars, workerVars, jobVars
  <2>2. /\ n \in Node /\ p = nodeParam[n] /\ p \in ToSet(m_unAllotParamList)
        /\ RequestFor(p) \in WorkerMessage
    <3>1. p \in Param
      BY <1>1, <2>0, <2>1, HeadTailProperties
    <3> QED
      BY <1>1, <1>2, <2>0, <2>1, <3>1, TailOnce, ConstantMessages DEF RequestInv, MadeInv, AskedIsFirst
  <2>3. \A m \in Node : ~Erasing(m)
    BY <1>4, <2>1 DEF Erasing, AskStep
  <2>4. ~Awaited(n) /\ ~Engaged(n)
    BY <1>1, <2>0, <2>1, <2>2 DEF RequestInv, StageInv, Fresh
  <2>5. CASE ~Awaited(n)'
    <3>1. \A m \in Node : (Awaited(m)' => Awaited(m)) /\ (Engaged(m)' => Engaged(m))
      BY <1>3, <2>0, <2>5
    <3>2. \A m \in Node : Erasing(m) => Erasing(m)'
      BY <2>3
    <3> QED
      BY <1>1, <1>2, <1>5, <1>10, <2>1, <3>1, <3>2, OwnKept
  <2>6. CASE Awaited(n)'
    <3>1. Erasing(n)'
      <4>1. toWorker'[n] # toWorker[n]
        <5>1. toTask'[n] = toTask[n]
          BY <2>1
        <5>2. Carries(toWorker'[n], {"TASK_REQUEST"}) /\ ~Carries(toWorker[n], {"TASK_REQUEST"})
          BY <2>4, <2>6, <5>1 DEF Awaited, Carries
        <5> QED
          BY <5>2
      <4>2. Reachable(n)
        BY <1>1, <2>1, <2>2, <4>1, SendOne
      <4>3. conn'[n] = "up"
        BY <1>1, <2>1, <2>2, <4>2, SendOne DEF Reachable
      <4>4. ask' = [ask EXCEPT ![t].pc = "erase"]
        BY <1>9, <2>0, <4>3 DEF AskRequest
      <4>5. ask'[t].pc = "erase" /\ ask'[t].node = n
        BY <1>1, <2>0, <4>4 DEF Asking
      <4> QED
        BY <4>5 DEF Erasing
    <3>2. \A m \in Node : Live(m)' => m = n \/ Live(m)
      BY <1>3, <2>0 DEF Live
    <3>3. \A m \in Node : Live(m) => nodeParam[m] # p
      BY <2>2, <2>3 DEF OwnInv
    <3>4. \A k, m \in Node : Live(k)' /\ Live(m)' /\ nodeParam'[k] = nodeParam'[m] => k = m
      BY <2>1, <2>2, <3>2, <3>3 DEF OwnInv
    <3>5. \A m \in Node : Live(m)' /\ ~Erasing(m)' => nodeParam'[m] \notin ToSet(m_unAllotParamList')
      <4> SUFFICES ASSUME NEW m \in Node, Live(m)', ~Erasing(m)'
                   PROVE  nodeParam[m] \notin ToSet(m_unAllotParamList)
        BY <2>1
      <4>1. m # n
        BY <3>1
      <4> QED
        BY <2>3, <3>2, <4>1 DEF OwnInv
    <3>6. \A m \in Node : Awaited(m)' => nodeParam'[m] \notin m_peerParamMap' \union m_paramResultMap'
      <4>1. p \notin m_peerParamMap \union m_paramResultMap
        BY <2>2 DEF OwnInv
      <4>2. \A m \in Node : Awaited(m)' => m = n \/ Awaited(m)
        BY <1>3, <2>0
      <4> QED
        BY <1>5, <2>1, <2>2, <4>1, <4>2 DEF OwnInv
    <3>7. \A m \in Node : Engaged(m)' => /\ nodeParam'[m] \notin m_paramResultMap'
                                         /\ m_bStop' \/ nodeParam'[m] \in m_peerParamMap'
      BY <1>3, <1>5, <2>1 DEF OwnInv
    <3>8. OwnInv'
      BY <1>5, <2>1, <3>4, <3>5, <3>6, <3>7 DEF OwnInv
    <3>9. FinalInv => FinalInv'
      BY <1>5, <1>10, <2>1, <2>2, <3>2 DEF FinalInv
    <3> QED
      BY <3>8, <3>9
  <2> QED
    BY <2>5, <2>6
<1> QED
  BY <1>7, <1>8, <1>9

\* Putting a parameter back lists it, and lists nothing twice.
LEMMA UnallotOnce ==
    ASSUME TypeInv, NEW p \in Param, Unallot(p), IsInjective(m_unAllotParamList)
    PROVE  /\ IsInjective(m_unAllotParamList')
           /\ ToSet(m_unAllotParamList') = ToSet(m_unAllotParamList) \union {p}
<1>1. m_unAllotParamList \in Seq(Param)
  BY DEF TypeInv, TypeOK
<1>2. Contains(m_unAllotParamList, p) <=> p \in ToSet(m_unAllotParamList)
  <2>1. DOMAIN m_unAllotParamList = 1 .. Len(m_unAllotParamList)
    BY <1>1, LenProperties
  <2> QED
    BY <2>1 DEF Contains, ToSet
<1> QED
  BY <1>1, <1>2, AppendOnce DEF Unallot

\* The parameter of a node that is done for can be asked for again.
LEMMA PutBack ==
    ASSUME RequestInv, OwnInv,
           NEW n \in Node, NEW p \in Param, p = nodeParam[n], Unallot(p),
           nodeParam' = nodeParam, m_paramResultMap' = m_paramResultMap, m_bStop' = m_bStop,
           m_peerParamMap' = m_peerParamMap \ {p}, p \notin m_paramResultMap,
           \A m \in Node : (Awaited(m)' => Awaited(m)) /\ (Engaged(m)' => Engaged(m)),
           \A m \in Node : ~Erasing(m), ~Live(n)',
           \A m \in Node : Live(m) /\ nodeParam[m] = p => m = n
    PROVE  /\ OwnInv'
           /\ /\ FinalInv
              /\ \A m \in Failing : nodeParam[m] = p => m = n
              /\ Failing' \subseteq Failing \ {n}
              /\ m_peerResultAvailMap' = m_peerResultAvailMap
              => FinalInv'
<1>1. /\ IsInjective(m_unAllotParamList')
      /\ ToSet(m_unAllotParamList') = ToSet(m_unAllotParamList) \union {p}
  BY UnallotOnce DEF OwnInv, RequestInv
<1>2. \A m \in Node : Live(m)' => Live(m) /\ nodeParam[m] # p
  BY DEF Live
<1>3. OwnInv'
  <2>1. \A k, m \in Node : Live(k)' /\ Live(m)' /\ nodeParam'[k] = nodeParam'[m] => k = m
    BY <1>2 DEF OwnInv
  <2>2. ToSet(m_unAllotParamList') \intersect (m_peerParamMap' \union m_paramResultMap') = {}
    BY <1>1 DEF OwnInv
  <2>3. \A m \in Node : Live(m)' => nodeParam'[m] \notin ToSet(m_unAllotParamList')
    BY <1>1, <1>2 DEF OwnInv
  <2>4. \A m \in Node : Awaited(m)' => nodeParam'[m] \notin m_peerParamMap' \union m_paramResultMap'
    BY DEF OwnInv
  <2>5. \A m \in Node : Engaged(m)' => /\ nodeParam'[m] \notin m_paramResultMap'
                                       /\ m_bStop' \/ nodeParam'[m] \in m_peerParamMap'
    BY <1>2 DEF OwnInv, Live
  <2> QED
    BY <1>1, <2>1, <2>2, <2>3, <2>4, <2>5 DEF OwnInv
<1>4. ASSUME FinalInv, \A m \in Failing : nodeParam[m] = p => m = n,
             Failing' \subseteq Failing \ {n},
             m_peerResultAvailMap' = m_peerResultAvailMap
      PROVE  FinalInv'
  <2>1. \A m \in Failing' : m \in Failing /\ nodeParam[m] # p
    BY <1>4
  <2>2. \A k \in Failing', m \in Node :
            (m \in Failing' \/ Live(m)') /\ nodeParam'[k] = nodeParam'[m] => k = m
    BY <1>2, <1>4, <2>1 DEF FinalInv
  <2>3. \A k \in Failing' : nodeParam'[k] \notin ToSet(m_unAllotParamList')
    BY <1>1, <1>4, <2>1 DEF FinalInv
  <2>4. \A k \in Failing' \ m_peerResultAvailMap' :
            nodeParam'[k] \notin m_paramResultMap' /\ (m_bStop' \/ nodeParam'[k] \in m_peerParamMap')
    BY <1>4, <2>1 DEF FinalInv
  <2> QED
    BY <2>2, <2>3, <2>4 DEF FinalInv
<1> QED
  BY <1>3, <1>4

\* A failure that concerns the task is of a process that is gone, with all it
\* had to say and to do for the node.
LEMMA FailureIsFinal ==
    ASSUME NoComeback, RequestInv, GoneInv, NEW n \in Node, HandlePeerConnFailure(n)
    PROVE  n \in Failing \ m_peerResultAvailMap /\ ~Live(n)
<1>1. /\ TypeInv /\ UpInv /\ StageInv /\ n \in Made /\ m_taskNodes \in Seq(Node)
  BY HandlerConnects DEF TaskHandler, RequestInv, TypeInv, TypeOK
<1>2. /\ toTask[n] # <<>> /\ Head(toTask[n]).type \in Failure /\ toTask[n] \in Seq(TaskMessage)
  BY <1>1 DEF HandlePeerConnFailure, Receives, Failure, TypeInv, TypeOK
<1>3. n \in ToSet(m_taskNodes) \ m_peerResultAvailMap
  <2>1. DOMAIN m_taskNodes = 1 .. Len(m_taskNodes)
    BY <1>1, LenProperties
  <2> QED
    BY <2>1 DEF HandlePeerConnFailure, Concerns, Contains, ToSet
<1>4. Carries(toTask[n], Failure)
  <2>1. Head(toTask[n]) = toTask[n][1] /\ 1 \in DOMAIN toTask[n]
    BY <1>2, HeadTailProperties, LenProperties, EmptySeq
  <2> QED
    BY <1>2, <2>1 DEF Carries
<1>5. nodePeer[n] \notin up /\ Clean(toTask[n])
  BY <1>1, <1>3, <1>4 DEF GoneInv
<1>7. n \in Failing
  BY <1>3, <1>5 DEF Failing, Mortal
<1>8. ~Carries(toTask[n], Answers)
  <2>1. Head(toTask[n]) \in TaskMessage
    BY <1>2, HeadTailProperties
  <2> QED
    BY <1>2, <1>5, <2>1, CleanChannel
<1>9. toWorker[n] = <<>> /\ n \notin jobRunning
  BY <1>1, <1>5 DEF UpInv
<1>10. ~Live(n)
  BY <1>8, <1>9 DEF Live, Awaited, Engaged, Carries, Answers
<1> QED
  BY <1>3, <1>7, <1>10

\* A handler moves one parameter: it is told to execute, comes back, or has its
\* result.  A refusal must be that of the node it is taken for.
LEMMA HandlerOwns ==
    ASSUME StartRace = FALSE, NoComeback, CalmInv, ParamInv, GoneInv, OwnInv,
           FinalInv, NEW n \in Node, TaskHandler(n), [Next]_vars
    PROVE  /\ OwnInv'
           /\ (HandleRefused(n) => n \notin Failing') => FinalInv'
<1>1. /\ TypeInv /\ RequestInv /\ KeepInv /\ toTask[n] # <<>>
      /\ n \in Made /\ nodeParam[n] \in Param /\ nodeParam' = nodeParam
      /\ m_taskNodes \in Seq(Made) /\ ToSet(m_taskNodes) \subseteq Node
  <2>1. /\ TypeInv /\ RequestInv /\ KeepInv /\ toTask[n] # <<>> /\ nodeParam' = nodeParam
    BY DEF CalmInv, KeepInv, TaskHandler, HandleEligible, HandleNotEligible,
           HandleNotEligibleAbort, HandleExecuting, HandleRefused, HandleTaskResult,
           HandlePeerConnFailure, IgnorePeerConnFailure, Receives, nodeVars
  <2> QED
    BY <2>1, HandlerConnects, LiveMade DEF TypeInv, NodeInv, Made
<1>2. PICK p : p = nodeParam[n]
  OBVIOUS
<1>3. /\ m_bStop' = m_bStop
      /\ m_bStop => \/ HandleEligible(n) \/ HandleNotEligibleAbort(n)
                    \/ HandleExecuting(n) \/ IgnorePeerConnFailure(n)
      /\ \A m \in Node : ~Erasing(m)
  BY StoppedHandler DEF Erasing, Thread
<1>4. \A m \in Node : /\ Awaited(m)' => Awaited(m)
                      /\ Engaged(m)' => Engaged(m) \/ (m = n /\ HandleEligible(n))
  BY <1>1, HandlerTurns
<1>5. /\ ~HandleTaskResult(n) => m_peerResultAvailMap' = m_peerResultAvailMap
      /\ ~HandleEligible(n) => ToSet(m_taskNodes') \subseteq ToSet(m_taskNodes)
  BY <1>1, HandlerLists
<1>12. /\ \A m \in Failing : m \in Node /\ m \in ToSet(m_taskNodes)
       /\ ~HandleEligible(n) => Failing' \subseteq Failing
       /\ \A m \in Made : Mortal(m)' => Mortal(m)
  BY <1>1, <1>5, FailingSince
<1>6. CASE HandleEligible(n)
  <2>1. /\ Awaited(n) /\ ~Awaited(n)'
        /\ ToSet(m_taskNodes') = ToSet(m_taskNodes) \union {n}
        /\ m_peerResultAvailMap' = m_peerResultAvailMap
    BY <1>1, <1>6, HandlerLists DEF HandleEligible, resultVars
  <2>2. /\ m_peerParamMap' = m_peerParamMap \union {p}
        /\ m_unAllotParamList' = m_unAllotParamList /\ m_paramResultMap' = m_paramResultMap
    BY <1>2, <1>6 DEF HandleEligible, resultVars
  <2>3. p \notin m_peerParamMap \union m_paramResultMap \union ToSet(m_unAllotParamList)
    BY <1>2, <1>3, <2>1 DEF OwnInv, Live
  <2>4. \A m \in Node : Live(m)' => Live(m)
    BY <1>4, <2>1 DEF Live
  <2>5. \A m \in Node : Live(m) /\ nodeParam[m] = p => m = n
    BY <1>2, <2>1 DEF OwnInv, Live
  <2>6. OwnInv'
    <3>1. \A k, m \in Node : Live(k)' /\ Live(m)' /\ nodeParam'[k] = nodeParam'[m] => k = m
      BY <1>1, <2>4 DEF OwnInv
    <3>2. ToSet(m_unAllotParamList') \intersect (m_peerParamMap' \union m_paramResultMap') = {}
      BY <2>2, <2>3 DEF OwnInv
    <3>3. \A m \in Node : Live(m)' => nodeParam'[m] \notin ToSet(m_unAllotParamList')
      BY <1>1, <1>3, <2>2, <2>4 DEF OwnInv
    <3>4. \A m \in Node : Awaited(m)' => nodeParam'[m] \notin m_peerParamMap' \union m_paramResultMap'
      BY <1>1, <1>4, <2>1, <2>2, <2>5 DEF OwnInv, Live
    <3>5. \A m \in Node : Engaged(m)' => /\ nodeParam'[m] \notin m_paramResultMap'
                                         /\ m_bStop' \/ nodeParam'[m] \in m_peerParamMap'
      BY <1>1, <1>2, <1>3, <1>4, <2>2, <2>3 DEF OwnInv
    <3> QED
      BY <2>2, <3>1, <3>2, <3>3, <3>4, <3>5 DEF OwnInv
  <2>7. FinalInv'
    <3>1. \A m \in Failing : nodeParam[m] = p => m = n
      BY <1>1, <1>2, <1>12, <2>1 DEF FinalInv, Live
    <3>0. \A m \in Failing' : m \in Failing \/ m = n
      BY <1>1, <1>12, <2>1, LiveMade DEF Failing
    <3>2. \A k \in Failing', m \in Node :
              (m \in Failing' \/ Live(m)') /\ nodeParam'[k] = nodeParam'[m] => k = m
      BY <1>1, <1>2, <1>12, <2>4, <2>5, <3>0, <3>1 DEF FinalInv
    <3>3. \A k \in Failing' : nodeParam'[k] \notin ToSet(m_unAllotParamList')
      BY <1>1, <1>2, <2>2, <2>3, <3>0 DEF FinalInv
    <3>4. \A k \in Failing' \ m_peerResultAvailMap' :
              nodeParam'[k] \notin m_paramResultMap' /\ (m_bStop' \/ nodeParam'[k] \in m_peerParamMap')
      BY <1>1, <1>2, <1>3, <2>1, <2>2, <2>3, <3>0 DEF FinalInv
    <3> QED
      BY <3>2, <3>3, <3>4 DEF FinalInv
  <2> QED
    BY <2>6, <2>7
<1>7. CASE HandleNotEligible(n)
  <2>1. Awaited(n) /\ ~Awaited(n)' /\ ~HandleEligible(n) /\ ~HandleTaskResult(n)
        /\ ~HandleRefused(n)
    BY <1>1, <1>7, HandlerTurns DEF HandleNotEligible, HandleEligible, HandleTaskResult,
                                    HandleRefused, Receives, Answers
  <2>2. /\ Unallot(p) /\ ~m_bStop /\ m_taskNodes' = m_taskNodes
        /\ m_paramResultMap' = m_paramResultMap /\ m_peerParamMap' = m_peerParamMap
    BY <1>2, <1>3, <1>7, <2>1 DEF HandleNotEligible, HandleNotEligibleAbort, HandleExecuting,
                            IgnorePeerConnFailure, Receives, nodeLists, resultVars
  <2>3. p \notin m_peerParamMap \union m_paramResultMap
    BY <1>2, <2>1 DEF OwnInv
  <2>4. ~Engaged(n)
    BY <1>2, <2>2, <2>3 DEF OwnInv
  <2>5. ~Live(n)' /\ \A m \in Node : (Awaited(m)' => Awaited(m)) /\ (Engaged(m)' => Engaged(m))
    BY <1>4, <2>1, <2>4 DEF Live
  <2>6. \A m \in Node : Live(m) /\ nodeParam[m] = p => m = n
    BY <1>2, <2>1 DEF OwnInv, Live
  <2>7. n \notin ToSet(m_taskNodes)
    BY <1>1, <2>1 DEF RequestInv, StageInv
  <2>8. \A m \in Failing : nodeParam[m] = p => m = n
    BY <1>1, <1>2, <1>12, <2>1 DEF FinalInv, Live
  <2>9. Failing' \subseteq Failing \ {n}
    BY <1>12, <2>1, <2>7
  <2> QED
    BY <2>9, <1>1, <1>2, <1>3, <1>5, <2>1, <2>2, <2>3, <2>5, <2>6, <2>7, <2>8, PutBack
<1>8. CASE HandleRefused(n)
  <2>1. /\ Engaged(n) /\ ~Engaged(n)' /\ ~Awaited(n)' /\ ~HandleEligible(n)
        /\ ~HandleTaskResult(n)
    BY <1>1, <1>8, HandlerTurns DEF HandleEligible, HandleTaskResult,
                                    HandleRefused, Receives, Answers
  <2>2. /\ Unallot(p)
        /\ m_paramResultMap' = m_paramResultMap /\ m_peerParamMap' = m_peerParamMap \ {p}
    BY <1>2, <1>8 DEF HandleRefused, resultVars
  <2>3. p \notin m_paramResultMap
    BY <1>2, <2>1 DEF OwnInv
  <2>4. ~Live(n)' /\ \A m \in Node : (Awaited(m)' => Awaited(m)) /\ (Engaged(m)' => Engaged(m))
    BY <1>4, <2>1 DEF Live
  <2>5. \A m \in Node : Live(m) /\ nodeParam[m] = p => m = n
    BY <1>2, <2>1 DEF OwnInv, Live
  <2>6. \A m \in Failing : nodeParam[m] = p => m = n
    BY <1>1, <1>2, <1>12, <2>1 DEF FinalInv, Live
  <2>7. n \notin Failing' => Failing' \subseteq Failing \ {n}
    BY <1>12, <2>1
  <2> QED
    BY <1>1, <1>2, <1>3, <1>5, <1>8, <2>1, <2>2, <2>3, <2>4, <2>5, <2>6, <2>7, PutBack
<1>9. CASE HandleTaskResult(n)
  <2>1. /\ Engaged(n) /\ ~Live(n)' /\ m_peerResultAvailMap' = m_peerResultAvailMap \union {n}
        /\ ~HandleEligible(n) /\ ~m_bStop
    BY <1>1, <1>3, <1>9, HandlerLists
        DEF Live, HandleTaskResult, HandleEligible, HandleNotEligibleAbort, HandleExecuting,
            IgnorePeerConnFailure, Receives
  <2>2. /\ m_paramResultMap' = m_paramResultMap \union {p}
        /\ m_unAllotParamList' = m_unAllotParamList /\ m_peerParamMap' = m_peerParamMap
    <3>1. Head(toTask[n]) \in ToSet(toTask[n])
      BY <1>1, TailOnce DEF TypeInv, TypeOK
    <3>2. Head(toTask[n]).arg = p
      BY <1>2, <1>9, <3>1 DEF HandleTaskResult, Receives, ParamInv
    <3> QED
      BY <1>9, <3>2 DEF HandleTaskResult, allotVars
  <2>3. p \in m_peerParamMap /\ p \notin ToSet(m_unAllotParamList)
    BY <1>2, <2>1 DEF OwnInv
  <2>4. \A m \in Node : Live(m)' => Live(m) /\ nodeParam[m] # p
    BY <1>2, <1>4, <2>1 DEF OwnInv, Live
  <2>5. OwnInv'
    <3>1. \A k, m \in Node : Live(k)' /\ Live(m)' /\ nodeParam'[k] = nodeParam'[m] => k = m
      BY <1>1, <2>4 DEF OwnInv
    <3>2. ToSet(m_unAllotParamList') \intersect (m_peerParamMap' \union m_paramResultMap') = {}
      BY <2>2, <2>3 DEF OwnInv
    <3>3. \A m \in Node : Live(m)' => nodeParam'[m] \notin ToSet(m_unAllotParamList')
      BY <1>1, <1>3, <2>2, <2>4 DEF OwnInv
    <3>4. \A m \in Node : Awaited(m)' => nodeParam'[m] \notin m_peerParamMap' \union m_paramResultMap'
      BY <1>1, <1>4, <2>2, <2>4 DEF OwnInv, Live
    <3>5. \A m \in Node : Engaged(m)' => /\ nodeParam'[m] \notin m_paramResultMap'
                                         /\ m_bStop' \/ nodeParam'[m] \in m_peerParamMap'
      BY <1>1, <1>3, <1>4, <2>1, <2>2, <2>4 DEF OwnInv, Live
    <3> QED
      BY <2>2, <3>1, <3>2, <3>3, <3>4, <3>5 DEF OwnInv
  <2>6. FinalInv'
    <3>0. Failing' \subseteq Failing
      BY <1>12, <2>1
    <3>1. \A m \in Failing : nodeParam[m] = p => m = n
      BY <1>1, <1>2, <1>12, <2>1 DEF FinalInv, Live
    <3>2. \A k \in Failing', m \in Node :
              (m \in Failing' \/ Live(m)') /\ nodeParam'[k] = nodeParam'[m] => k = m
      BY <1>1, <2>4, <3>0 DEF FinalInv
    <3>3. \A k \in Failing' : nodeParam'[k] \notin ToSet(m_unAllotParamList')
      BY <1>1, <2>2, <3>0 DEF FinalInv
    <3>4. \A k \in Failing' \ m_peerResultAvailMap' :
              nodeParam'[k] \notin m_paramResultMap' /\ (m_bStop' \/ nodeParam'[k] \in m_peerParamMap')
      BY <1>1, <1>3, <2>1, <2>2, <3>0, <3>1 DEF FinalInv
    <3> QED
      BY <3>2, <3>3, <3>4 DEF FinalInv
  <2> QED
    BY <2>5, <2>6
<1>10. CASE HandlePeerConnFailure(n)
  <2>1. n \in Failing \ m_peerResultAvailMap /\ ~Live(n)
    BY <1>1, <1>10, FailureIsFinal
  <2>3. /\ ~HandleEligible(n) /\ ~HandleTaskResult(n) /\ ~HandleRefused(n)
        /\ Failing' \subseteq Failing \ {n}
    BY <1>1, <1>10, <1>12, HandlerLists DEF Failing, HandlePeerConnFailure, HandleEligible, HandleTaskResult,
                                     HandleRefused, Receives
  <2>4. /\ Unallot(p)
        /\ m_paramResultMap' = m_paramResultMap /\ m_peerParamMap' = m_peerParamMap \ {p}
    BY <1>2, <1>10 DEF HandlePeerConnFailure, resultVars
  <2>5. /\ p \notin m_paramResultMap
        /\ \A m \in Node : Live(m) /\ nodeParam[m] = p => m = n
        /\ \A m \in Failing : nodeParam[m] = p => m = n
    BY <1>1, <1>2, <1>12, <2>1 DEF FinalInv
  <2>6. ~Live(n)' /\ \A m \in Node : (Awaited(m)' => Awaited(m)) /\ (Engaged(m)' => Engaged(m))
    BY <1>4, <2>1, <2>3 DEF Live
  <2> QED
    BY <1>1, <1>2, <1>3, <1>5, <2>3, <2>4, <2>5, <2>6, PutBack
<1>11. CASE HandleNotEligibleAbort(n) \/ HandleExecuting(n) \/ IgnorePeerConnFailure(n)
  <2>1. ~HandleEligible(n) /\ ~HandleTaskResult(n)
    BY <1>11 DEF HandleNotEligibleAbort, HandleExecuting, IgnorePeerConnFailure,
                 HandleEligible, HandleTaskResult, Receives
  <2>2. UNCHANGED <<m_unAllotParamList, m_peerParamMap, m_paramResultMap>>
    BY <1>11 DEF HandleNotEligibleAbort, HandleExecuting, IgnorePeerConnFailure, allotVars,
                 resultVars
  <2>3. \A m \in Node : (Awaited(m)' => Awaited(m)) /\ (Engaged(m)' => Engaged(m))
    BY <1>4, <2>1
  <2> QED
    BY <1>1, <1>3, <1>5, <1>12, <2>1, <2>2, <2>3, OwnKept
<1> QED
  BY <1>6, <1>7, <1>8, <1>9, <1>10, <1>11 DEF TaskHandler

\* Whatever else happens starts nothing and moves no parameter.
LEMMA OthersOwn ==
    ASSUME RequestInv, OwnInv, [Next]_vars,
           \A t \in Thread : ~AskPeersStep(t), \A n \in Node : ~TaskHandler(n)
    PROVE  /\ OwnInv' /\ (FinalInv => FinalInv')
           /\ UNCHANGED <<m_numRequiredPeers, m_unAllotParamList, m_peerParamMap, m_taskNodes,
                          m_paramResultMap, m_numResultsRecvd, m_bStop>>
<1>1. /\ UNCHANGED <<m_numRequiredPeers, m_unAllotParamList, m_peerParamMap, m_taskNodes,
                     m_paramResultMap, m_numResultsRecvd, m_peerResultAvailMap, m_bStop, nodeParam>>
      /\ \A n \in Node : Erasing(n) => Erasing(n)'
  <2>1. CASE \/ UNCHANGED vars \/ (\E list \in PeerLists : HandlePeerList(list))
             \/ \E n \in Node : WorkerStep(n) \/ JobDone(n) \/ RecvError(n) \/ RecvEof(n)
             \/ \E w \in Worker : WorkerDown(w) \/ WorkerUp(w)
    <3>1. UNCHANGED <<taskVars, nodeVars, m_numRequiredPeers>>
      BY <2>1 DEF vars, HandlePeerList, WorkerStep, HandleTaskRequest, HandleTaskExecute,
                  HandleTaskCancel, JobDone, RecvError, RecvEof, WorkerDown, WorkerUp, Next, Step
    <3> QED
      BY <3>1 DEF taskVars, nodeVars, allotVars, nodeLists, resultVars, Erasing
  <2>2. CASE TaskCheck \/ TaskWait
    <3>1. /\ UNCHANGED <<allotVars, nodeLists, resultVars, m_bStop, nodeVars, m_numRequiredPeers>>
          /\ ask["task"].pc # "erase"
          /\ \E c : ask' = [ask EXCEPT !["task"].pc = c]
      BY <2>2 DEF TaskCheck, TaskWait, Next, Step, HandlePeerList, vars, taskVars, nodeVars
    <3>2. ask'["main"] = ask["main"]
      BY <3>1 DEF RequestInv, TypeInv, TypeOK, Thread
    <3>3. \A n \in Node : Erasing(n) => Erasing(n)'
      BY <3>1, <3>2 DEF Erasing, Thread
    <3> QED
      BY <3>1, <3>3 DEF allotVars, nodeLists, resultVars, nodeVars
  <2> QED
    BY <2>1, <2>2 DEF Next, Step
<1>2. \A m \in Node : (Awaited(m)' => Awaited(m)) /\ (Engaged(m)' => Engaged(m))
  <2>1. CASE \/ UNCHANGED vars \/ (\E list \in PeerLists : HandlePeerList(list))
             \/ TaskCheck \/ TaskWait
    <3>1. UNCHANGED <<toWorker, toTask, jobRunning>>
      BY <2>1 DEF vars, HandlePeerList, TaskCheck, TaskWait, netVars, workerVars, jobVars
    <3> QED
      BY <3>1 DEF Awaited, Engaged
  <2>2. CASE \/ \E n \in Node : WorkerStep(n) \/ JobDone(n) \/ RecvError(n) \/ RecvEof(n)
             \/ \E w \in Worker : WorkerDown(w) \/ WorkerUp(w)
    BY <2>2, WorkerTurns, BreakTurns
  <2> QED
    BY <2>1, <2>2 DEF Next, Step
<1>3. Failing' \subseteq Failing
  BY <1>1, FailingSince
<1> QED
  BY <1>1, <1>2, <1>3, OwnKept

\* Every step keeps OwnInv, and FinalInv unless a refused node stays listed and
\* its process may still fail.
LEMMA StepOwns ==
    ASSUME StartRace = FALSE, NoComeback, CalmInv, ParamInv, GoneInv, OwnInv,
           FinalInv, [Next]_vars
    PROVE  /\ OwnInv'
           /\ (\A n \in Node : HandleRefused(n) => n \notin Failing') => FinalInv'
<1>1. RequestInv
  BY DEF CalmInv
<1>2. CASE \E t \in Thread : AskPeersStep(t)
  BY <1>2, AskOwns
<1>3. CASE \E n \in Node : TaskHandler(n)
  BY <1>3, HandlerOwns
<1>4. CASE (\A t \in Thread : ~AskPeersStep(t)) /\ \A n \in Node : ~TaskHandler(n)
  BY <1>1, <1>4, OthersOwn
<1> QED
  BY <1>2, <1>3, <1>4

\* At first nothing is under way.
LEMMA InitOwns == Init => OwnInv /\ FinalInv
<1> SUFFICES ASSUME Init PROVE OwnInv /\ FinalInv
  OBVIOUS
<1>1. \A n \in Node : ~Live(n)
  BY DEF Init, Live, Awaited, Engaged, Carries
<1>2. m_taskNodes = <<>> /\ m_peerParamMap = {} /\ m_paramResultMap = {}
      /\ m_unAllotParamList = [i \in 1 .. m_numRequiredPeers |-> i]
  BY DEF Init
<1>3. IsInjective(m_unAllotParamList)
  BY <1>2 DEF IsInjective
<1>4. Failing = {}
  BY <1>2 DEF ToSet, Failing
<1> QED
  BY <1>1, <1>2, <1>3, <1>4 DEF OwnInv, FinalInv, Live

-----------------------------------------------------------------------------
\* One result of each parameter

\* A result is of a parameter that was given and had none.
LEMMA ResultIsNew ==
    ASSUME StartRace = FALSE, CalmInv, ParamInv, OwnInv, NEW n \in Node, HandleTaskResult(n)
    PROVE  /\ ~m_bStop
           /\ m_paramResultMap' = m_paramResultMap \union {nodeParam[n]}
           /\ m_numResultsRecvd' = m_numResultsRecvd + 1
           /\ m_peerParamMap' = m_peerParamMap
           /\ nodeParam[n] \in m_peerParamMap \ m_paramResultMap
<1>1. /\ TaskHandler(n) /\ RequestInv /\ TypeInv
      /\ toTask[n] # <<>> /\ Head(toTask[n]).type = "TASK_RESULT"
  BY DEF TaskHandler, HandleTaskResult, Receives, CalmInv, KeepInv
<1>2. Engaged(n)
  BY <1>1, HandlerLists
<1>3. ~m_bStop
  BY <1>1, StoppedHandler DEF HandleTaskResult, HandleEligible, HandleNotEligibleAbort,
                              HandleExecuting, IgnorePeerConnFailure, Receives
<1>4. Head(toTask[n]).arg = nodeParam[n]
  <2>1. Head(toTask[n]) \in ToSet(toTask[n])
    BY <1>1, TailOnce DEF TypeInv, TypeOK
  <2> QED
    BY <1>1, <2>1 DEF ParamInv
<1> QED
  BY <1>2, <1>3, <1>4 DEF HandleTaskResult, allotVars, OwnInv

\* Nothing else adds a result.
LEMMA ResultsStay ==
    ASSUME RequestInv, OwnInv, [Next]_vars, \A n \in Node : ~HandleTaskResult(n)
    PROVE  m_paramResultMap' = m_paramResultMap /\ m_numResultsRecvd' = m_numResultsRecvd
<1>1. CASE \E t \in Thread : AskPeersStep(t)
  BY <1>1 DEF AskPeersStep, AskLower, AskGiveUp, AskSkip, AskUnreachable, AskConnect, AskRequest,
              AskErase, AskAbort, AskShort, AskEnough, resultVars
<1>2. CASE \E n \in Node : TaskHandler(n)
  BY <1>2 DEF TaskHandler, HandleEligible, HandleNotEligible, HandleNotEligibleAbort,
              HandleExecuting, HandleRefused, HandlePeerConnFailure, IgnorePeerConnFailure,
              resultVars
<1>3. CASE (\A t \in Thread : ~AskPeersStep(t)) /\ \A n \in Node : ~TaskHandler(n)
  BY <1>3, OthersOwn
<1> QED
  BY <1>1, <1>2, <1>3

\* So the count is that of the parameters with a result.
LEMMA StepCounts ==
    ASSUME StartRace = FALSE, CalmInv, ParamInv, OwnInv, ResultsOnce, [Next]_vars
    PROVE  ResultsOnce'
<1>1. RequestInv /\ m_numRequiredPeers \in Nat
  BY TaskConstants DEF CalmInv, RequestInv, TypeInv, TypeOK
<1>2. IsFiniteSet(m_paramResultMap)
  <2>1. IsFiniteSet(1 .. m_numRequiredPeers)
    BY <1>1, FS_Interval
  <2> QED
    BY <2>1, FS_Subset DEF ParamInv
<1>3. CASE \E n \in Node : HandleTaskResult(n)
  BY <1>2, <1>3, ResultIsNew, FS_AddElement DEF ResultsOnce
<1>4. CASE \A n \in Node : ~HandleTaskResult(n)
  BY <1>1, <1>4, ResultsStay DEF ResultsOnce
<1> QED
  BY <1>3, <1>4

\* All that is kept together.
OnceInv == CalmInv /\ ParamInv /\ GoneInv /\ OwnInv /\ ResultsOnce

\* It is kept as long as FinalInv holds.
LEMMA StepOnce ==
    ASSUME StartRace = FALSE, NoComeback
    PROVE  OnceInv /\ FinalInv /\ [Next]_vars => OnceInv'
<1> SUFFICES ASSUME OnceInv, FinalInv, [Next]_vars
             PROVE  OnceInv'
  OBVIOUS
<1>1. RequestInv /\ CalmInv /\ ParamInv /\ GoneInv /\ OwnInv /\ ResultsOnce
  BY DEF OnceInv, CalmInv
<1> QED
  BY <1>1, StepCalm, StepParams, StepGone, StepOwns, StepCounts DEF OnceInv

\* At first no result has come.
LEMMA InitOnce == Init => OnceInv /\ FinalInv
<1>1. Init => ResultsOnce
  BY FS_EmptySet DEF Init, ResultsOnce
<1> QED
  BY <1>1, InitCalm, InitParams, InitGone, InitOwns DEF OnceInv

\* IsTaskComplete needs as many results as there are parameters.
LEMMA CompleteHasAll == OnceInv => CompletionSound
<1> SUFFICES ASSUME OnceInv, IsTaskComplete
             PROVE  m_paramResultMap = 1 .. m_numRequiredPeers
  BY DEF CompletionSound
<1> DEFINE all == 1 .. m_numRequiredPeers
<1>1. m_numRequiredPeers \in Nat /\ m_paramResultMap \subseteq all /\ ResultsOnce
  BY TaskConstants DEF OnceInv, CalmInv, RequestInv, TypeInv, TypeOK, ParamInv
<1>2. IsFiniteSet(all) /\ Cardinality(all) = m_numRequiredPeers
  BY <1>1, FS_Interval
<1>3. Cardinality(m_paramResultMap) >= Cardinality(all)
  BY <1>1, <1>2 DEF IsTaskComplete, ResultsOnce
<1> HIDE DEF all
<1>4. m_paramResultMap = all
  <2>1. IsFiniteSet(m_paramResultMap) /\ Cardinality(m_paramResultMap) \in Nat
    BY <1>1, <1>2, FS_Subset, FS_CardinalityType
  <2>2. Cardinality(all) \in Nat
    BY <1>2, FS_CardinalityType
  <2> QED
    BY <1>1, <1>2, <1>3, <2>1, <2>2, FS_Subset
<1> QED
  BY <1>4 DEF all

-----------------------------------------------------------------------------
\* The abstract task

abstractVars == <<1 .. m_numRequiredPeers, m_peerParamMap \ m_paramResultMap, m_paramResultMap,
                  m_numResultsRecvd, Life>>

\* AskPeers, until it gives the task up, is a stutter.
LEMMA AskImplements ==
    ASSUME OnceInv, NEW t \in Thread, AskPeersStep(t), m_numRequiredPeers' = m_numRequiredPeers
    PROVE  Abstract!GiveUp \/ UNCHANGED abstractVars
<1>1. /\ StopInv /\ KeepInv
  BY DEF OnceInv, CalmInv
<1>2. ~m_bStop
  <2>1. ask[t].pc \in AskStep
    BY <1>1, AskMoves DEF KeepInv
  <2> QED
    BY <1>1, <2>1 DEF StopInv
<1>3. CASE AskGiveUp(t) \/ AskShort(t)
  <2>1. /\ m_bStop' /\ m_peerParamMap' = {}
        /\ UNCHANGED <<m_paramResultMap, m_numResultsRecvd>>
    BY <1>3 DEF AskGiveUp, AskShort, TaskCancel, resultVars
  <2>2. Life = "on" /\ Life' \in {"last", "over"}
    BY <1>2, <2>1 DEF Life
  <2> QED
    BY <2>1, <2>2 DEF Abstract!GiveUp
<1>4. CASE ~AskGiveUp(t) /\ ~AskShort(t)
  <2>1. UNCHANGED <<m_bStop, m_peerParamMap, m_paramResultMap, m_numResultsRecvd>>
    BY <1>4 DEF AskPeersStep, AskLower, AskSkip, AskUnreachable, AskConnect, AskRequest,
                AskErase, AskAbort, AskEnough, allotVars, resultVars
  <2> QED
    BY <1>2, <2>1 DEF abstractVars, Life
<1> QED
  BY <1>3, <1>4

\* A handler gives, takes back or finishes its node's parameter, or does nothing.
LEMMA HandlerImplements ==
    ASSUME StartRace = FALSE, NoComeback, OnceInv, FinalInv,
           NEW n \in Node, TaskHandler(n), m_numRequiredPeers' = m_numRequiredPeers
    PROVE  \/ Abstract!End \/ UNCHANGED abstractVars
           \/ \E p \in Param : Abstract!Give(p) \/ Abstract!TakeBack(p) \/ Abstract!Finish(p)
<1>1. /\ CalmInv /\ ParamInv /\ GoneInv /\ OwnInv /\ RequestInv /\ TypeInv
      /\ ask \in [Thread -> Asking] /\ "task" \in Thread
  BY DEF OnceInv, CalmInv, RequestInv, TypeInv, TypeOK, Thread
<1>2. PICK p : p = nodeParam[n]
  OBVIOUS
<1>3. p \in Param /\ p \in 1 .. m_numRequiredPeers
  <2>1. n \in Made
    BY <1>1, HandlerConnects
  <2> QED
    BY <1>1, <1>2, <2>1 DEF TypeInv, NodeInv, ParamInv
<1>4. /\ ask["task"].pc = "get" /\ m_bStop' = m_bStop
      /\ m_bStop => \/ HandleEligible(n) \/ HandleNotEligibleAbort(n)
                    \/ HandleExecuting(n) \/ IgnorePeerConnFailure(n)
  BY <1>1, StoppedHandler
<1>5. /\ ~m_bStop => Life = "on" /\ Life' = "on"
      /\ m_bStop => Life = "last" /\ (BackToLoop => Life' = "over")
  <2>1. BackToLoop => ask'["task"].pc = "check"
    BY <1>1 DEF BackToLoop, Asking
  <2> QED
    BY <1>4, <2>1 DEF Life
<1>6. CASE HandleEligible(n)
  <2>1. /\ m_peerParamMap' = m_peerParamMap \union {p} /\ BackToLoop
        /\ UNCHANGED <<m_paramResultMap, m_numResultsRecvd>>
    BY <1>2, <1>6 DEF HandleEligible, resultVars
  <2>2. p \notin m_peerParamMap \union m_paramResultMap
    BY <1>1, <1>2, <1>6, HandlerLists DEF OwnInv
  <2>3. Life \in {"on", "last"} /\ Life' = IF Life = "on" THEN "on" ELSE "over"
    BY <1>5, <2>1
  <2>4. Abstract!Give(p)
    BY <1>3, <2>1, <2>2, <2>3 DEF Abstract!Give
  <2> QED
    BY <1>3, <2>4
<1>7. CASE HandleNotEligible(n)
  <2>1. /\ ~m_bStop
        /\ UNCHANGED <<m_peerParamMap, m_paramResultMap, m_numResultsRecvd>>
    BY <1>4, <1>7 DEF HandleNotEligible, HandleEligible, HandleNotEligibleAbort,
                      HandleExecuting, IgnorePeerConnFailure, Receives, resultVars
  <2> QED
    BY <1>5, <2>1 DEF abstractVars
<1>8. CASE HandleRefused(n)
  <2>1. /\ ~m_bStop /\ m_peerParamMap' = m_peerParamMap \ {p}
        /\ UNCHANGED <<m_paramResultMap, m_numResultsRecvd>>
    BY <1>2, <1>4, <1>8 DEF HandleRefused, HandleEligible, HandleNotEligibleAbort,
                            HandleExecuting, IgnorePeerConnFailure, Receives, resultVars
  <2>2. Engaged(n)
    BY <1>1, <1>8, HandlerTurns DEF HandleRefused, Receives
  <2>3. p \in m_peerParamMap \ m_paramResultMap
    BY <1>1, <1>2, <2>1, <2>2 DEF OwnInv
  <2>4. Abstract!TakeBack(p)
    BY <1>5, <2>1, <2>3 DEF Abstract!TakeBack
  <2> QED
    BY <1>3, <2>4
<1>9. CASE HandlePeerConnFailure(n)
  <2>1. /\ ~m_bStop /\ m_peerParamMap' = m_peerParamMap \ {p}
        /\ UNCHANGED <<m_paramResultMap, m_numResultsRecvd>>
    BY <1>2, <1>4, <1>9 DEF HandlePeerConnFailure, HandleEligible, HandleNotEligibleAbort,
                            HandleExecuting, IgnorePeerConnFailure, Receives, resultVars
  <2>2. p \in m_peerParamMap \ m_paramResultMap
    BY <1>1, <1>2, <1>9, <2>1, FailureIsFinal DEF FinalInv
  <2>3. Abstract!TakeBack(p)
    BY <1>5, <2>1, <2>2 DEF Abstract!TakeBack
  <2> QED
    BY <1>3, <2>3
<1>10. CASE HandleTaskResult(n)
  <2>1. /\ ~m_bStop /\ p \in m_peerParamMap \ m_paramResultMap
        /\ m_paramResultMap' = m_paramResultMap \union {p}
        /\ m_numResultsRecvd' = m_numResultsRecvd + 1 /\ m_peerParamMap' = m_peerParamMap
    BY <1>1, <1>2, <1>10, ResultIsNew
  <2>2. Abstract!Finish(p)
    BY <1>5, <2>1 DEF Abstract!Finish
  <2> QED
    BY <1>3, <2>2
<1>11. CASE HandleNotEligibleAbort(n)
  <2>1. UNCHANGED <<m_bStop, ask, m_peerParamMap, m_paramResultMap, m_numResultsRecvd>>
    BY <1>11 DEF HandleNotEligibleAbort, allotVars, resultVars
  <2> QED
    BY <2>1 DEF abstractVars, Life
<1>12. CASE HandleExecuting(n) \/ IgnorePeerConnFailure(n)
  <2>1. UNCHANGED <<m_peerParamMap, m_paramResultMap, m_numResultsRecvd>> /\ BackToLoop
    BY <1>12 DEF HandleExecuting, IgnorePeerConnFailure, allotVars, resultVars
  <2> QED
    BY <1>5, <2>1 DEF abstractVars, Abstract!End
<1> QED
  BY <1>6, <1>7, <1>8, <1>9, <1>10, <1>11, <1>12 DEF TaskHandler

\* Every step of the task is a step of the abstract one, or a stutter.
LEMMA StepImplements ==
    ASSUME StartRace = FALSE, NoComeback
    PROVE  OnceInv /\ FinalInv /\ [Next]_vars
                => Abstract!Next \/ UNCHANGED abstractVars
<1> SUFFICES ASSUME OnceInv, FinalInv, [Next]_vars
             PROVE  Abstract!Next \/ UNCHANGED abstractVars
  OBVIOUS
<1>1. /\ RequestInv /\ OwnInv /\ ask \in [Thread -> Asking] /\ "task" \in Thread
  BY DEF OnceInv, CalmInv, RequestInv, TypeInv, TypeOK, Thread
<1>2. ASSUME NEW t \in Thread, AskPeersStep(t)
      PROVE  Abstract!Next \/ UNCHANGED abstractVars
  <2>1. m_numRequiredPeers' = m_numRequiredPeers
    BY <1>2 DEF Next, Step, HandlePeerList, vars
  <2> QED
    BY <1>2, <2>1, AskImplements DEF Abstract!Next
<1>3. ASSUME NEW n \in Node, TaskHandler(n)
      PROVE  Abstract!Next \/ UNCHANGED abstractVars
  <2>1. m_numRequiredPeers' = m_numRequiredPeers
    BY <1>3 DEF Next, Step, HandlePeerList, vars
  <2> QED
    BY <1>3, <2>1, HandlerImplements DEF Abstract!Next
<1>4. CASE (\A t \in Thread : ~AskPeersStep(t)) /\ \A n \in Node : ~TaskHandler(n)
  <2>1. UNCHANGED <<m_numRequiredPeers, m_peerParamMap, m_paramResultMap, m_numResultsRecvd,
                    m_bStop>>
    BY <1>1, <1>4, OthersOwn
  <2>2. Life' = Life \/ (Life = "last" /\ Life' = "over")
    <3>1. CASE ask' = ask
      BY <2>1, <3>1 DEF Life
    <3>2. CASE TaskCheck \/ TaskWait
      <4>1. /\ m_bStop /\ ask["task"].pc # "get" => ask'["task"].pc # "get"
            /\ ask["task"].pc = "get" => ask'["task"].pc = "check"
        BY <1>1, <3>2 DEF TaskCheck, TaskWait, Looping, Asking
      <4> QED
        BY <2>1, <4>1 DEF Life
    <3>3. ask' = ask \/ TaskCheck \/ TaskWait
      BY <1>4 DEF Next, Step, vars, HandlePeerList, WorkerStep, HandleTaskRequest,
                  HandleTaskExecute, HandleTaskCancel, JobDone, RecvError, RecvEof,
                  WorkerDown, WorkerUp, taskVars
    <3> QED
      BY <3>1, <3>2, <3>3
  <2> QED
    BY <2>1, <2>2 DEF abstractVars, Abstract!Next, Abstract!End
<1> QED
  BY <1>2, <1>3, <1>4

\* A task starts as an abstract one does.
LEMMA InitImplements == Init => Abstract!Init
<1> SUFFICES ASSUME Init PROVE Abstract!Init
  OBVIOUS
<1>1. 1 .. m_numRequiredPeers \subseteq Param
  BY DEF Init, Param
<1> QED
  BY <1>1 DEF Init, Abstract!Init, Life

-----------------------------------------------------------------------------
\* What FinalInv is needed for

\* Nobody fails where nobody dies.
LEMMA NobodyFails ==
    ASSUME MaxDowns = 0, RequestInv, GoneInv
    PROVE  downs = 0 /\ FinalInv
<1>1. downs = 0 /\ up = Worker
  BY DEF GoneInv, RequestInv, TypeInv, TypeOK
<1>2. \A n \in Made : nodePeer[n] \in up
  BY <1>1 DEF RequestInv, TypeInv, NodeInv, Employed
<1>3. Failing = {}
  BY <1>1, <1>2, LiveMade DEF Failing, Mortal
<1> QED
  BY <1>1, <1>3 DEF FinalInv

\* A job that runs is for a parameter that nobody else runs and that has no
\* result.
LEMMA RunsOnce == OnceInv => ParamRunsOnce
<1> SUFFICES ASSUME OnceInv
             PROVE  ParamRunsOnce
  OBVIOUS
<1>1. RequestInv /\ ParamInv /\ OwnInv /\ jobRunning \subseteq Node
  BY DEF OnceInv, CalmInv, RequestInv, TypeInv, TypeOK
<1>2. \A n \in jobRunning : n \in Node /\ Engaged(n) /\ jobParam[n] = nodeParam[n]
  <2>1. jobRunning \subseteq Employed /\ None \notin Param
    BY <1>1, TaskConstants DEF RequestInv, TypeInv, NodeInv, None, Param
  <2> QED
    BY <1>1, <2>1 DEF Engaged, ParamInv, Employed
<1> QED
  BY <1>1, <1>2 DEF ParamRunsOnce, OwnInv, Live
=============================================================================
