------------------------- MODULE TaskProtocolProofs -------------------------
(***************************************************************************)
(* Theorems about TaskProtocol, for any workers, peer lists, number of     *)
(* parameters and bounds.                                                  *)
(*                                                                         *)
(* TypeInv adds to TypeOK that only nodes that were made (Made) appear in  *)
(* the task's lists, jobs and channels and that each has a peer and a      *)
(* parameter; without that a handler could be given an unset m_paramIndx.  *)
(* KeepInv adds that at most one thread is inside AskPeers and that the    *)
(* parameter about to be erased is the one its node was asked for, which   *)
(* is what keeps AskErase from dropping another one.                       *)
(*                                                                         *)
(* RequestInv adds that between the task and the worker of one PeerNode at *)
(* most one thing is under way that somebody has to act on: a request or   *)
(* an order to execute on its way there, an answer on its way back, or the *)
(* running job.  That a node is asked once, told to execute once and       *)
(* reports one result follows, whoever dies, comes back, or asks while the *)
(* task thread already handles answers.                                    *)
(***************************************************************************)
EXTENDS TaskProtocol, DataLemmas

-----------------------------------------------------------------------------
\* Sequences

\* A list of Task without a node: no new elements, the same order, and without
\* that node if the list held it once.
LEMMA RemoveFirstFacts ==
    ASSUME NEW S, NEW s \in Seq(S), NEW n
    PROVE  /\ RemoveFirst(s, n) \in Seq(S)
           /\ ToSet(RemoveFirst(s, n)) \subseteq ToSet(s)
           /\ ToSet(s) \subseteq ToSet(RemoveFirst(s, n)) \union {n}
           /\ IsInjective(s) => /\ IsInjective(RemoveFirst(s, n))
                                /\ n \notin ToSet(RemoveFirst(s, n))
<1> DEFINE I == {i \in 1 .. Len(s) : s[i] = n}
<1>1. CASE I = {}
  <2>1. RemoveFirst(s, n) = s
    BY <1>1 DEF RemoveFirst
  <2>2. n \notin ToSet(s)
    BY <1>1, LenProperties DEF ToSet
  <2> QED
    BY <2>1, <2>2
<1>2. CASE I # {}
  <2>1. Min(I) \in I
    <3>1. I \subseteq Nat
      BY LenProperties
    <3> HIDE DEF I
    <3> QED
      BY <1>2, <3>1, MinOfNat
  <2>2. RemoveFirst(s, n) = RemoveAt(s, Min(I))
    BY <1>2 DEF RemoveFirst, SelectInSeq
  <2>3. Min(I) \in 1 .. Len(s) /\ s[Min(I)] = n
    BY <2>1
  <2> HIDE DEF I
  <2> QED
    BY <2>2, <2>3, RemoveAtFacts, RemoveAtOnce
<1> QED
  BY <1>1, <1>2

\* RemovePeerFromTryNodes and RemovePeerFromFinalNodes, whichever node goes.
LEMMA RemovePeerFacts ==
    ASSUME NEW S, NEW s \in Seq(S), NEW n
    PROVE  /\ RemovePeerFrom(s, n) \in Seq(S)
           /\ ToSet(RemovePeerFrom(s, n)) \subseteq ToSet(s)
           /\ IsInjective(s) => IsInjective(RemovePeerFrom(s, n))
<1> DEFINE I == {i \in 1 .. Len(s) : nodePeer[s[i]] = nodePeer[n]}
<1>1. CASE I = {}
  BY <1>1 DEF RemovePeerFrom, RemoveFirstMatch
<1>2. CASE I # {}
  <2>1. Min(I) \in I
    <3>1. I \subseteq Nat
      BY LenProperties
    <3> HIDE DEF I
    <3> QED
      BY <1>2, <3>1, MinOfNat
  <2>2. RemovePeerFrom(s, n) = RemoveAt(s, Min(I))
    BY <1>2 DEF RemovePeerFrom, RemoveFirstMatch, SelectInSeq
  <2>3. Min(I) \in 1 .. Len(s)
    BY <2>1
  <2> HIDE DEF I
  <2> QED
    BY <2>2, <2>3, RemoveAtFacts, RemoveAtOnce
<1> QED
  BY <1>1, <1>2

-----------------------------------------------------------------------------
\* Nodes that exist, and jobs that do.

\* AskPeers has made this PeerNode and connected it.
Made == {n \in Node : conn[n] # "none"}

\* A worker has made a job for this node's request.
Employed == {n \in Node : jobParam[n] \in Param}

\* What a made node carries, and what an unmade one cannot have.
NodeInv ==
    /\ \A n \in Made : nodePeer[n] \in Worker /\ nodeParam[n] \in Param
    /\ \A n \in Node \ Made : toWorker[n] = <<>> /\ toTask[n] = <<>>
    /\ m_taskNodes \in Seq(Made)
    /\ jobRunning \subseteq Made \intersect Employed
    /\ jobList \in [Worker -> Seq(Employed)]

TypeInv == TypeOK /\ NodeInv

\* The messages the task and the workers send have the types of their channels.
LEMMA ConstantMessages ==
    /\ Execute \in WorkerMessage
    /\ Cancel \in WorkerMessage
    /\ ConnectionFailure \in TaskMessage
    /\ \A p \in Param : RequestFor(p) \in WorkerMessage
BY DEF Execute, Cancel, ConnectionFailure, RequestFor, WorkerMessage, TaskMessage, None

\* Sending reconnects nodes, breaks them or leaves them; it makes none, and an
\* unmade node takes no message.
LEMMA SendAllTyped ==
    ASSUME TypeInv, NEW out \in [Node -> Seq(WorkerMessage)], SendAll(out)
    PROVE  /\ conn' \in [Node -> ConnState]
           /\ toWorker' \in [Node -> Seq(WorkerMessage)]
           /\ Made' = Made
           /\ \A n \in Node \ Made : toWorker'[n] = <<>>
<1> USE DEF TypeInv, TypeOK, SendAll
<1>1. \A n \in Node : toWorker[n] \o out[n] \in Seq(WorkerMessage)
  BY ConcatProperties
<1>2. toWorker' \in [Node -> Seq(WorkerMessage)]
  BY <1>1
<1>3. conn' \in [Node -> ConnState] /\ Made' = Made
  BY DEF ConnState, Made
<1>4. \A n \in Node \ Made : toWorker'[n] = <<>>
  BY DEF Made, NodeInv, Reachable
<1> QED
  BY <1>2, <1>3, <1>4

\* One message sent to one node is a case of SendAll.
LEMMA SendTyped ==
    ASSUME TypeInv, NEW n, NEW msg \in WorkerMessage, Send(n, msg)
    PROVE  /\ conn' \in [Node -> ConnState]
           /\ toWorker' \in [Node -> Seq(WorkerMessage)]
           /\ Made' = Made
           /\ \A m \in Node \ Made : toWorker'[m] = <<>>
<1>1. <<msg>> \in Seq(WorkerMessage) /\ <<>> \in Seq(WorkerMessage)
  OBVIOUS
<1>2. [m \in Node |-> IF m = n THEN <<msg>> ELSE <<>>] \in [Node -> Seq(WorkerMessage)]
  BY <1>1
<1> QED
  BY <1>2, SendAllTyped DEF Send

\* Giving a task up leaves every variable it touches well typed.
LEMMA TaskCancelTyped ==
    ASSUME TypeInv, TaskCancel
    PROVE  /\ conn' \in [Node -> ConnState]
           /\ toWorker' \in [Node -> Seq(WorkerMessage)]
           /\ Made' = Made
           /\ \A n \in Node \ Made : toWorker'[n] = <<>>
<1> DEFINE once(n, list) == IF Contains(list, n) THEN <<Cancel>> ELSE <<>>
           out == [n \in Node |-> once(n, m_tryNodes) \o once(n, m_taskNodes)]
<1>1. <<Cancel>> \in Seq(WorkerMessage) /\ <<>> \in Seq(WorkerMessage)
  BY ConstantMessages
<1>2. \A n, list : once(n, list) \in Seq(WorkerMessage)
  BY <1>1
<1> HIDE DEF once
<1>3. out \in [Node -> Seq(WorkerMessage)]
  BY <1>2, ConcatProperties
<1>4. SendAll(out)
  BY DEF TaskCancel, once
<1> QED
  BY <1>3, <1>4, SendAllTyped

\* Handling the first message of a node that has one.
LEMMA ConsumeTyped ==
    ASSUME TypeInv, NEW n \in Node, toTask[n] # <<>>, Consume(n)
    PROVE  /\ toTask' \in [Node -> Seq(TaskMessage)]
           /\ n \in Made
           /\ \A m \in Node \ Made : toTask'[m] = <<>>
<1>1. Tail(toTask[n]) \in Seq(TaskMessage)
  BY HeadTailProperties DEF TypeInv, TypeOK
<1> QED
  BY <1>1 DEF TypeInv, TypeOK, NodeInv, Made, Consume

\* Adding to what is on its way to the task, of a node that exists.
LEMMA AppendTyped ==
    ASSUME TypeInv, NEW n \in Made, NEW s \in Seq(TaskMessage), NEW m \in TaskMessage,
           toTask' = [toTask EXCEPT ![n] = Append(s, m)]
    PROVE  /\ toTask' \in [Node -> Seq(TaskMessage)]
           /\ \A k \in Node \ Made : toTask'[k] = <<>>
<1>1. Append(s, m) \in Seq(TaskMessage)
  BY AppendProperties
<1> QED
  BY <1>1 DEF TypeInv, TypeOK, NodeInv, Made

\* Putting a parameter back keeps the list a list of parameters.
LEMMA UnallotTyped ==
    ASSUME TypeInv, NEW p \in Param, Unallot(p)
    PROVE  m_unAllotParamList' \in Seq(Param)
BY AppendProperties DEF TypeInv, TypeOK, Unallot

\* AskPeers starts with a list of the peers that exist.
LEMMA EnteredTyped ==
    ASSUME m_peerList \in PeerLists
    PROVE  Entered \in Asking /\ MaxToTry \in Int
<1>1. m_peerList \in Seq(Worker \union {Me}) /\ m_peerList \in PeerList
  BY TaskConstants DEF PeerList
<1> QED
  BY <1>1, LenProperties DEF Entered, MaxToTry, Asking, AskStep

-----------------------------------------------------------------------------
\* One step of AskPeers, by either thread.
LEMMA AskPeersTyped ==
    ASSUME TypeInv, NEW t \in Thread, AskPeersStep(t),
           UNCHANGED <<m_peerList, numLists, m_numRequiredPeers>>
    PROVE  TypeInv'
<1>a. ask \in [Thread -> Asking]
  BY DEF TypeInv, TypeOK
<1> USE DEF TypeInv, allotVars, nodeLists, resultVars, countVars, triedVars, nodeVars, netVars,
            workerVars, jobVars
<1>1. CASE AskLower(t)
  <2>1. ask' \in [Thread -> Asking]
    <3>1. ask' = [ask EXCEPT ![t].pc = "scan", ![t].i = 1]
      BY <1>1 DEF AskLower
    <3>2. 1 \in Nat \ {0}
      OBVIOUS
    <3>3. \A a \in Asking : [a EXCEPT !.pc = "scan", !.i = 1] \in Asking
      BY <3>2, Zenon DEF AskStep, Asking
    <3> QED
      BY <1>a, <3>1, <3>3
  <2>2. m_tryNodes' \in Seq(Node)
    BY <1>1 DEF AskLower
  <2> QED
    BY <1>1, <2>1, <2>2 DEF AskLower, TypeOK, NodeInv, Made, Employed
<1>2. CASE AskGiveUp(t) \/ AskShort(t)
  <2>1. ask' \in [Thread -> Asking]
    BY <1>2, <1>a DEF AskGiveUp, AskShort, AskEnd, Left, AskStep, Asking
  <2>2. TaskCancel /\ UNCHANGED <<m_unAllotParamList, resultVars, countVars, aborted,
                                  nodeVars, toTask, workerVars>>
    BY <1>2 DEF AskGiveUp, AskShort
  <2>3. m_tryNodes' \in Seq(Node) /\ m_taskNodes' \in Seq(Node) /\ m_taskNodes' \in Seq(Made')
    BY <2>2 DEF TaskCancel
  <2> QED
    BY <2>1, <2>2, <2>3, TaskCancelTyped DEF TaskCancel, TypeOK, NodeInv, Employed
<1>3. CASE AskSkip(t)
  <2>1. ask' \in [Thread -> Asking]
    BY <1>3, <1>a DEF AskSkip, AskStep, Asking
  <2> QED
    BY <1>3, <2>1 DEF AskSkip, TypeOK, NodeInv, Made, Employed
<1>4. CASE AskUnreachable(t)
  <2>1. ask' \in [Thread -> Asking]
    BY <1>4, <1>a DEF AskUnreachable, AskStep, Asking
  <2> QED
    BY <1>4, <2>1 DEF AskUnreachable, TypeOK, NodeInv, Made, Employed
<1>5. CASE AskConnect(t)
  <2> DEFINE n == numNodes + 1
             p == ParamToAsk
  <2>1. n \in Node /\ p \in Param /\ Peer(t) \in Worker
    <3>1. p \in Param
      BY <1>5, HeadTailProperties DEF AskConnect, ParamToAsk, TypeOK
    <3>2. numNodes \in 0 .. MaxNodes /\ numNodes < MaxNodes
      BY <1>5 DEF AskConnect, TypeOK
    <3>3. n \in Node
      BY <3>2, TaskConstants DEF Node
    <3>4. Peer(t) \in Worker
      BY <1>5 DEF AskConnect, TypeOK
    <3> QED
      BY <3>1, <3>3, <3>4
  <2>2. ask' \in [Thread -> Asking]
    BY <1>5, <1>a, <2>1 DEF AskConnect, AskStep, Asking
  <2>3. m_tryNodes' \in Seq(Node)
    BY <1>5, <2>1, AppendProperties DEF AskConnect, TypeOK
  <2>4. /\ numNodes' \in 0 .. MaxNodes
        /\ nodePeer' \in [Node -> Worker \union {None}]
        /\ nodeParam' \in [Node -> Param \union {None}]
        /\ conn' \in [Node -> ConnState]
        /\ m_tryPeerParamMap' \subseteq Param
    <3>1. numNodes' \in 0 .. MaxNodes
      BY <1>5, <2>1 DEF AskConnect, Node
    <3>2. nodePeer' \in [Node -> Worker \union {None}]
      BY <1>5, <2>1 DEF AskConnect, TypeOK
    <3>3. nodeParam' \in [Node -> Param \union {None}]
      BY <1>5, <2>1 DEF AskConnect, SetParamIndex, TypeOK
    <3>4. conn' \in [Node -> ConnState]
      BY <1>5, <2>1 DEF AskConnect, TypeOK, ConnState
    <3>5. m_tryPeerParamMap' \subseteq Param
      BY <1>5, <2>1 DEF AskConnect, TypeOK
    <3> QED
      BY <3>1, <3>2, <3>3, <3>4, <3>5
  <2>5. Made' = Made \union {n}
    BY <1>5, <2>1 DEF AskConnect, Made, TypeOK
  <2>6. \A m \in Made' : nodePeer'[m] \in Worker /\ nodeParam'[m] \in Param
    <3>1. nodePeer' = [nodePeer EXCEPT ![n] = Peer(t)] /\ nodeParam' = [nodeParam EXCEPT ![n] = p]
      BY <1>5 DEF AskConnect, SetParamIndex
    <3>2. /\ nodePeer \in [Node -> Worker \union {None}]
          /\ nodeParam \in [Node -> Param \union {None}]
          /\ Made \subseteq Node
          /\ \A m \in Made : nodePeer[m] \in Worker /\ nodeParam[m] \in Param
      BY DEF TypeOK, NodeInv, Made, Node
    <3>3. nodePeer'[n] \in Worker /\ nodeParam'[n] \in Param
      BY <2>1, <3>1, <3>2
    <3>4. \A m \in Made : nodePeer'[m] \in Worker /\ nodeParam'[m] \in Param
      BY <2>1, <3>1, <3>2, <3>3
    <3> QED
      BY <2>5, <3>3, <3>4
  <2>7. m_taskNodes' \in Seq(Made')
    BY <1>5, <2>5, SeqMonotonic DEF AskConnect, NodeInv
  <2>8. TypeOK'
    <3>1. UNCHANGED <<m_unAllotParamList, m_peerParamMap, m_taskNodes, resultVars,
                      m_numRemainingPeers, m_numMaxToTryPeers, m_currentThreshold, m_bStop, aborted,
                      toWorker, toTask, workerVars>> /\ m_numTotalPeersTried' = m_numTotalPeersTried + 1
      BY <1>5 DEF AskConnect
    <3> QED
      BY <2>2, <2>3, <2>4, <3>1 DEF TypeOK
  <2>9. NodeInv'
    BY <1>5, <2>5, <2>6, <2>7 DEF AskConnect, NodeInv, Employed
  <2> QED
    BY <2>8, <2>9
<1>6. CASE AskRequest(t)
  <2>1. ask' \in [Thread -> Asking]
    <3>1. \/ ask' = [ask EXCEPT ![t].pc = "erase"]
          \/ NextPeer(t)
      BY <1>6 DEF AskRequest
    <3> QED
      BY <1>a, <3>1 DEF NextPeer, AskStep, Asking
  <2>2. RequestFor(ParamToAsk) \in WorkerMessage
    BY <1>6, ConstantMessages, HeadTailProperties DEF AskRequest, ParamToAsk, TypeOK
  <2>3. Send(ask[t].node, RequestFor(ParamToAsk))
    BY <1>6 DEF AskRequest
  <2> QED
    BY <1>6, <2>1, <2>2, <2>3, SendTyped DEF AskRequest, TypeOK, NodeInv, Employed
<1>7. CASE AskErase(t)
  <2>1. ask' \in [Thread -> Asking]
    BY <1>7, <1>a DEF AskErase, NextPeer, AskStep, Asking
  <2>2. m_unAllotParamList' \in Seq(Param)
    BY <1>7, HeadTailProperties DEF AskErase, EraseAsked, TypeOK
  <2> QED
    BY <1>7, <2>1, <2>2 DEF AskErase, TypeOK, NodeInv, Made, Employed
<1>8. CASE AskAbort(t)
  BY <1>8 DEF AskAbort, TypeOK, NodeInv, Made, Employed
<1>9. CASE AskEnough(t)
  <2>1. ask' \in [Thread -> Asking]
    BY <1>9, <1>a DEF AskEnough, AskEnd, Left, AskStep, Asking
  <2> QED
    BY <1>9, <2>1 DEF AskEnough, TypeOK, NodeInv, Made, Employed
<1> QED
  BY <1>1, <1>2, <1>3, <1>4, <1>5, <1>6, <1>7, <1>8, <1>9 DEF AskPeersStep

-----------------------------------------------------------------------------
\* The task thread's loop and its handlers.

\* The condition of Task::run's loop and the empty GetMessage move the task thread only.
LEMMA LoopTyped ==
    ASSUME TypeInv, TaskCheck \/ TaskWait,
           UNCHANGED <<m_peerList, numLists, m_numRequiredPeers>>
    PROVE  TypeInv'
<1>1. ask \in [Thread -> Asking]
  BY DEF TypeInv, TypeOK
<1>2. ask' \in [Thread -> Asking]
  <2>1. \E x \in {"check", "get", "done"} : ask' = [ask EXCEPT !["task"].pc = x]
    BY DEF TaskCheck, TaskWait
  <2> QED
    BY <1>1, <2>1 DEF Asking, Thread
<1>3. UNCHANGED <<allotVars, nodeLists, resultVars, countVars, m_bStop, aborted, nodeVars,
                  netVars, workerVars>>
  BY DEF TaskCheck, TaskWait
<1> QED
  BY <1>2, <1>3 DEF TypeInv, TypeOK, NodeInv, Made, Employed, allotVars, nodeLists,
                    resultVars, countVars, triedVars, nodeVars, netVars, workerVars, jobVars

\* One handler of the task thread, on the first message of a node.
LEMMA HandlerTyped ==
    ASSUME TypeInv, NEW n \in Node, TaskHandler(n),
           UNCHANGED <<m_peerList, numLists, m_numRequiredPeers>>
    PROVE  TypeInv'
<1>a. ask \in [Thread -> Asking]
  BY DEF TypeInv, TypeOK
<1>b. BackToLoop => ask' \in [Thread -> Asking]
  <2>1. "task" \in Thread
    BY DEF Thread
  <2> QED
    BY <1>a, <2>1 DEF BackToLoop, Asking
<1>c. AskPeers => /\ ask' \in [Thread -> Asking]
                  /\ m_numMaxToTryPeers' \in Int
                  /\ m_currentThreshold' = HighThreshold
  <2>1. Entered \in Asking /\ MaxToTry \in Int
    BY EnteredTyped DEF TypeInv, TypeOK
  <2> QED
    BY <1>a, <2>1 DEF AskPeers
<1>d. \A type : Receives(n, type) => toTask[n] # <<>>
  BY DEF Receives
<1>e. n \in Made => nodeParam[n] \in Param
  BY DEF TypeInv, NodeInv
<1> USE DEF TypeInv, allotVars, nodeLists, resultVars, countVars, triedVars, nodeVars, netVars,
            workerVars, jobVars
<1>1. CASE HandleEligible(n)
  <2>1. Consume(n) /\ toTask[n] # <<>> /\ Send(n, Execute)
    BY <1>1, <1>d DEF HandleEligible
  <2>2. nodeParam[n] \in Param /\ n \in Made
    BY <1>e, <2>1, ConsumeTyped
  <2>3. m_taskNodes' \in Seq(Node) /\ m_taskNodes' \in Seq(Made)
    BY <1>1, <2>2, AppendProperties DEF HandleEligible, TypeOK, NodeInv
  <2>4. m_peerParamMap' \subseteq Param /\ m_tryPeerParamMap' \subseteq Param
    BY <1>1, <2>2 DEF HandleEligible, TypeOK
  <2>5. ask' \in [Thread -> Asking]
    BY <1>1, <1>b DEF HandleEligible
  <2>6. TypeOK'
    <3>1. /\ m_numRemainingPeers' \in Int
          /\ UNCHANGED <<m_unAllotParamList, m_tryNodes, resultVars, triedVars, m_bStop,
                         aborted, nodeVars, workerVars>>
      BY <1>1 DEF HandleEligible, TypeOK
    <3>2. /\ conn' \in [Node -> ConnState]
          /\ toWorker' \in [Node -> Seq(WorkerMessage)]
          /\ toTask' \in [Node -> Seq(TaskMessage)]
      BY <2>1, ConsumeTyped, SendTyped, ConstantMessages
    <3> QED
      BY <2>3, <2>4, <2>5, <3>1, <3>2 DEF TypeOK
  <2>7. NodeInv'
    BY <1>1, <2>1, <2>3, ConsumeTyped, SendTyped, ConstantMessages
       DEF HandleEligible, NodeInv, Employed
  <2> QED
    BY <2>6, <2>7
<1>2. CASE HandleNotEligible(n)
  <2>1. Consume(n) /\ toTask[n] # <<>> /\ Send(n, Cancel)
    BY <1>2, <1>d DEF HandleNotEligible
  <2>2. nodeParam[n] \in Param
    BY <1>e, <2>1, ConsumeTyped
  <2>3. m_unAllotParamList' \in Seq(Param)
    BY <1>2, <2>2, UnallotTyped DEF HandleNotEligible
  <2> QED
    BY <1>2, <1>c, <2>1, <2>3, ConsumeTyped, SendTyped, ConstantMessages
       DEF HandleNotEligible, TypeOK, NodeInv, Employed
<1>3. CASE HandleNotEligibleAbort(n)
  <2>1. Consume(n) /\ toTask[n] # <<>> /\ Send(n, Cancel)
    BY <1>3, <1>d DEF HandleNotEligibleAbort
  <2> QED
    BY <1>3, <2>1, ConsumeTyped, SendTyped, ConstantMessages
       DEF HandleNotEligibleAbort, TypeOK, NodeInv, Employed
<1>4. CASE HandleExecuting(n)
  <2>1. Consume(n) /\ toTask[n] # <<>> /\ ask' \in [Thread -> Asking]
    BY <1>4, <1>b, <1>d DEF HandleExecuting
  <2> QED
    BY <1>4, <2>1, ConsumeTyped DEF HandleExecuting, TypeOK, NodeInv, Made, Employed
<1>5. CASE HandleRefused(n)
  <2>1. Consume(n) /\ toTask[n] # <<>>
    BY <1>5, <1>d DEF HandleRefused
  <2>2. nodeParam[n] \in Param
    BY <1>e, <2>1, ConsumeTyped
  <2>3. m_unAllotParamList' \in Seq(Param)
    BY <1>5, <2>2, UnallotTyped DEF HandleRefused
  <2>4. m_taskNodes' \in Seq(Node) /\ m_taskNodes' \in Seq(Made)
    BY <1>5, RemovePeerFacts DEF HandleRefused, TypeOK, NodeInv
  <2>5. TypeOK'
    <3>1. /\ m_peerParamMap' = m_peerParamMap \ {nodeParam[n]} /\ AskPeers
          /\ m_numRemainingPeers' = m_numRemainingPeers + 1
          /\ UNCHANGED <<m_tryPeerParamMap, m_tryNodes, resultVars, m_numTotalPeersTried,
                         m_bStop, aborted, nodeVars, conn, toWorker, workerVars>>
      BY <1>5 DEF HandleRefused
    <3>2. toTask' \in [Node -> Seq(TaskMessage)]
      BY <2>1, ConsumeTyped
    <3> QED
      BY <1>c, <2>3, <2>4, <3>1, <3>2 DEF TypeOK
  <2>6. NodeInv'
    BY <1>5, <2>1, <2>4, ConsumeTyped DEF HandleRefused, NodeInv, Made, Employed
  <2> QED
    BY <2>5, <2>6
<1>6. CASE HandleTaskResult(n)
  <2>1. toTask[n] # <<>> /\ Head(toTask[n]).type = "TASK_RESULT"
    BY <1>6 DEF HandleTaskResult, Receives
  <2>2. n \in Made
    BY <2>1 DEF NodeInv
  <2>3. Head(toTask[n]) \in TaskMessage /\ Tail(toTask[n]) \in Seq(TaskMessage)
    BY <2>1, HeadTailProperties DEF TypeOK
  <2>4. Head(toTask[n]).arg \in Param
    BY <2>1, <2>3 DEF TaskMessage
  <2>5. conn' \in [Node -> ConnState] /\ Made' = Made
    BY <1>6, <2>2 DEF HandleTaskResult, TypeOK, ConnState, Made
  <2>6. toTask' \in [Node -> Seq(TaskMessage)] /\ \A m \in Node \ Made : toTask'[m] = <<>>
    <3>1. CASE Consume(n)
      BY <2>1, <3>1, ConsumeTyped
    <3>2. CASE toTask' = [toTask EXCEPT ![n] = Append(Tail(@), ConnectionFailure)]
      BY <2>2, <2>3, <3>2, AppendTyped, ConstantMessages
    <3> QED
      BY <1>6, <3>1, <3>2 DEF HandleTaskResult
  <2>7. /\ m_taskNodes' \in Seq(Node) /\ m_taskNodes' \in Seq(Made)
        /\ m_tryNodes' \in Seq(Node)
    BY <1>6, RemovePeerFacts DEF HandleTaskResult, TypeOK, NodeInv
  <2>8. ask' \in [Thread -> Asking]
    BY <1>6, <1>b DEF HandleTaskResult
  <2>9. TypeOK'
    <3>1. /\ m_numResultsRecvd' \in Nat
          /\ m_paramResultMap' \subseteq Param
          /\ m_peerResultAvailMap' \subseteq Node
          /\ UNCHANGED <<allotVars, countVars, m_bStop, aborted, nodeVars, toWorker, workerVars>>
      BY <1>6, <2>4 DEF HandleTaskResult, TypeOK
    <3> QED
      BY <2>5, <2>6, <2>7, <2>8, <3>1 DEF TypeOK
  <2>10. NodeInv'
    BY <1>6, <2>5, <2>6, <2>7 DEF HandleTaskResult, NodeInv, Employed
  <2> QED
    BY <2>9, <2>10
<1>7. CASE HandlePeerConnFailure(n)
  <2>1. Consume(n) /\ toTask[n] # <<>> /\ Send(n, Cancel)
    BY <1>7, <1>d DEF HandlePeerConnFailure
  <2>2. nodeParam[n] \in Param
    BY <1>e, <2>1, ConsumeTyped
  <2>3. m_unAllotParamList' \in Seq(Param)
    BY <1>7, <2>2, UnallotTyped DEF HandlePeerConnFailure
  <2>4. /\ m_taskNodes' \in Seq(Node) /\ m_taskNodes' \in Seq(Made)
        /\ m_tryNodes' \in Seq(Node)
    BY <1>7, RemovePeerFacts, RemoveFirstFacts DEF HandlePeerConnFailure, TypeOK, NodeInv
  <2>5. TypeOK'
    <3>1. /\ m_numRemainingPeers' \in Int
          /\ m_tryPeerParamMap' \subseteq Param /\ m_peerParamMap' \subseteq Param
          /\ AskPeers
          /\ UNCHANGED <<resultVars, m_numTotalPeersTried, m_bStop, aborted, nodeVars, workerVars>>
      BY <1>7 DEF HandlePeerConnFailure, TypeOK
    <3>2. /\ conn' \in [Node -> ConnState]
          /\ toWorker' \in [Node -> Seq(WorkerMessage)]
          /\ toTask' \in [Node -> Seq(TaskMessage)]
      BY <2>1, ConsumeTyped, SendTyped, ConstantMessages
    <3> QED
      BY <1>c, <2>3, <2>4, <3>1, <3>2 DEF TypeOK
  <2>6. NodeInv'
    BY <1>7, <2>1, <2>4, ConsumeTyped, SendTyped, ConstantMessages
       DEF HandlePeerConnFailure, NodeInv, Employed
  <2> QED
    BY <2>5, <2>6
<1>8. CASE IgnorePeerConnFailure(n)
  <2>1. Consume(n) /\ toTask[n] # <<>> /\ ask' \in [Thread -> Asking]
    BY <1>8, <1>b, <1>d DEF IgnorePeerConnFailure
  <2> QED
    BY <1>8, <2>1, ConsumeTyped DEF IgnorePeerConnFailure, TypeOK, NodeInv, Made, Employed
<1> QED
  BY <1>1, <1>2, <1>3, <1>4, <1>5, <1>6, <1>7, <1>8 DEF TaskHandler

-----------------------------------------------------------------------------
\* The workers, their jobs, and the connections that break.

\* One handler of Peer::HandleRequests on a worker, or the end of a job.
LEMMA WorkerTyped ==
    ASSUME TypeInv, NEW n \in Node, WorkerStep(n) \/ JobDone(n),
           UNCHANGED <<m_peerList, numLists, m_numRequiredPeers>>
    PROVE  TypeInv'
<1>a. ASSUME NEW type, WorkerReceives(n, type)
      PROVE  /\ n \in Made
             /\ nodePeer[n] \in Worker
             /\ Head(toWorker[n]) \in WorkerMessage
             /\ Head(toWorker[n]).type = type
             /\ toWorker' \in [Node -> Seq(WorkerMessage)]
             /\ \A m \in Node \ Made : toWorker'[m] = <<>>
  <2>1. toWorker[n] # <<>> /\ Head(toWorker[n]).type = type
    BY <1>a DEF WorkerReceives
  <2>2. n \in Made /\ nodePeer[n] \in Worker
    BY <2>1 DEF TypeInv, NodeInv
  <2>3. Head(toWorker[n]) \in WorkerMessage /\ Tail(toWorker[n]) \in Seq(WorkerMessage)
    BY <2>1, HeadTailProperties DEF TypeInv, TypeOK
  <2> QED
    BY <1>a, <2>1, <2>2, <2>3 DEF WorkerReceives, TypeInv, TypeOK, NodeInv
<1>b. ASSUME NEW m \in TaskMessage, n \in Made, toTask' = [toTask EXCEPT ![n] = Append(@, m)]
      PROVE  /\ toTask' \in [Node -> Seq(TaskMessage)]
             /\ \A k \in Node \ Made : toTask'[k] = <<>>
  BY <1>b, AppendTyped DEF TypeInv, TypeOK, Made
<1> USE DEF taskVars, allotVars, nodeLists, resultVars, countVars, triedVars, nodeVars
<1>1. CASE HandleTaskRequest(n)
  <2> DEFINE w == nodePeer[n]
             p == Head(toWorker[n]).param
             m == [type |-> "TASK_REQUEST_RESP", arg |-> numTaskHandled[w]]
  <2>1. WorkerReceives(n, "TASK_REQUEST")
    BY <1>1 DEF HandleTaskRequest
  <2>2. p \in Param /\ w \in Worker /\ n \in Made
    BY <1>a, <2>1 DEF WorkerMessage
  <2>3. m \in TaskMessage
    BY <2>2 DEF TaskMessage, TypeInv, TypeOK
  <2>4. toTask' = [toTask EXCEPT ![n] = Append(@, m)]
    BY <1>1 DEF HandleTaskRequest, Reply
  <2>5. /\ toTask' \in [Node -> Seq(TaskMessage)]
        /\ \A k \in Node \ Made : toTask'[k] = <<>>
    BY <1>b, <2>2, <2>3, <2>4
  <2>6. /\ jobParam' \in [Node -> Param \union {None}]
        /\ Employed' = Employed \union {n}
    BY <1>1, <2>2 DEF HandleTaskRequest, TypeInv, TypeOK, Employed
  <2>7. /\ jobList' \in [Worker -> Seq(Node)]
        /\ jobList' \in [Worker -> Seq(Employed')]
    <3>1. Append(jobList[w], n) \in Seq(Node)
      BY <2>2, AppendProperties DEF TypeInv, TypeOK
    <3>2. \A v \in Worker : jobList[v] \in Seq(Employed')
      BY <2>6, SeqMonotonic DEF TypeInv, NodeInv
    <3>3. Append(jobList[w], n) \in Seq(Employed')
      BY <2>2, <2>6, <3>2, AppendProperties
    <3> QED
      BY <1>1, <3>1, <3>2, <3>3 DEF HandleTaskRequest, TypeInv, TypeOK
  <2>8. TypeOK'
    BY <1>1, <1>a, <2>1, <2>5, <2>6, <2>7 DEF HandleTaskRequest, TypeInv, TypeOK
  <2>9. NodeInv'
    BY <1>1, <1>a, <2>1, <2>5, <2>6, <2>7 DEF HandleTaskRequest, TypeInv, NodeInv, Made
  <2> QED
    BY <2>8, <2>9 DEF TypeInv
<1>2. CASE HandleTaskExecute(n)
  <2>1. WorkerReceives(n, "TASK_EXECUTE")
    BY <1>2 DEF HandleTaskExecute
  <2>2. n \in Made /\ nodePeer[n] \in Worker
    BY <1>a, <2>1
  <2>3. \/ /\ Contains(jobList[nodePeer[n]], n)
           /\ jobRunning' = jobRunning \union {n}
           /\ Reply(n, "EXECUTING", 0)
        \/ Reply(n, "REFUSED", 0) /\ UNCHANGED jobRunning
    BY <1>2 DEF HandleTaskExecute
  <2>4. /\ toTask' \in [Node -> Seq(TaskMessage)]
        /\ \A k \in Node \ Made : toTask'[k] = <<>>
    <3>1. /\ [type |-> "EXECUTING", arg |-> 0] \in TaskMessage
          /\ [type |-> "REFUSED", arg |-> 0] \in TaskMessage
      BY DEF TaskMessage
    <3> QED
      BY <1>b, <2>2, <2>3, <3>1 DEF Reply
  <2>5. jobRunning' \subseteq Made \intersect Employed
    <3>1. Contains(jobList[nodePeer[n]], n) => n \in Employed
      BY <2>2, ElementOfSeq DEF Contains, TypeInv, NodeInv
    <3> QED
      BY <2>2, <2>3, <3>1 DEF TypeInv, NodeInv
  <2>6. TypeOK'
    BY <1>2, <1>a, <2>1, <2>4, <2>5 DEF HandleTaskExecute, TypeInv, TypeOK, Made
  <2>7. NodeInv'
    BY <1>2, <1>a, <2>1, <2>4, <2>5 DEF HandleTaskExecute, TypeInv, NodeInv, Made, Employed
  <2> QED
    BY <2>6, <2>7 DEF TypeInv
<1>3. CASE HandleTaskCancel(n)
  <2>1. WorkerReceives(n, "TASK_CANCEL")
    BY <1>3 DEF HandleTaskCancel
  <2>2. \A S : \A s \in Seq(S) : WithoutOldest(s) \in Seq(S)
    BY HeadTailProperties DEF WithoutOldest
  <2>3. /\ jobList' \in [Worker -> Seq(Node)]
        /\ jobList' \in [Worker -> Seq(Employed)]
    BY <1>3, <2>2 DEF HandleTaskCancel, TypeInv, TypeOK, NodeInv
  <2>4. TypeOK'
    BY <1>3, <1>a, <2>1, <2>3 DEF HandleTaskCancel, TypeInv, TypeOK
  <2>5. NodeInv'
    BY <1>3, <1>a, <2>1, <2>3 DEF HandleTaskCancel, TypeInv, NodeInv, Made, Employed
  <2> QED
    BY <2>4, <2>5 DEF TypeInv
<1>4. CASE JobDone(n)
  <2> DEFINE w == nodePeer[n]
  <2>1. n \in Made /\ w \in Worker /\ jobParam[n] \in Param
    BY <1>4 DEF JobDone, TypeInv, NodeInv, Employed
  <2>2. [type |-> "TASK_RESULT", arg |-> jobParam[n]] \in TaskMessage
    BY <2>1 DEF TaskMessage
  <2>3. /\ toTask' \in [Node -> Seq(TaskMessage)]
        /\ \A k \in Node \ Made : toTask'[k] = <<>>
    <3>1. CASE Reply(n, "TASK_RESULT", jobParam[n])
      BY <1>b, <2>1, <2>2, <3>1 DEF Reply
    <3>2. CASE UNCHANGED toTask
      BY <3>2 DEF TypeInv, TypeOK, NodeInv
    <3> QED
      BY <1>4, <3>1, <3>2 DEF JobDone
  <2>4. numTaskHandled' \in [Worker -> Nat] /\ jobRunning' \subseteq jobRunning
    <3>1. \/ numTaskHandled' = [numTaskHandled EXCEPT ![w] = @ + 1]
          \/ UNCHANGED numTaskHandled
      BY <1>4 DEF JobDone
    <3>2. jobRunning' \subseteq jobRunning
      BY <1>4 DEF JobDone
    <3>3. numTaskHandled \in [Worker -> Nat]
      BY DEF TypeInv, TypeOK
    <3> QED
      BY <3>1, <3>2, <3>3
  <2>5. UNCHANGED <<taskVars, nodeVars, conn, toWorker, up, downs, jobList, jobParam>>
    BY <1>4 DEF JobDone
  <2>6. TypeOK'
    BY <2>3, <2>4, <2>5 DEF TypeInv, TypeOK
  <2>7. NodeInv'
    BY <2>3, <2>4, <2>5 DEF TypeInv, NodeInv, Made, Employed
  <2> QED
    BY <2>6, <2>7 DEF TypeInv
<1> QED
  BY <1>1, <1>2, <1>3, <1>4 DEF WorkerStep

\* A process that dies or is started, a connection whose listener ends.
LEMMA BreakTyped ==
    ASSUME TypeInv,
           UNCHANGED <<m_peerList, numLists, m_numRequiredPeers>>
    PROVE  /\ \A w \in Worker : WorkerDown(w) \/ WorkerUp(w) => TypeInv'
           /\ \A n \in Node : RecvError(n) \/ RecvEof(n) => TypeInv'
<1> USE DEF taskVars, allotVars, nodeLists, resultVars, countVars, triedVars, nodeVars, netVars,
            workerVars, jobVars
<1>1. ASSUME NEW w \in Worker, WorkerDown(w)
      PROVE  TypeInv'
  <2>1. jobList' \in [Worker -> Seq(Node)] /\ jobList' \in [Worker -> Seq(Employed)]
    BY <1>1 DEF WorkerDown, TypeInv, TypeOK, NodeInv
  <2>2. /\ toWorker' \in [Node -> Seq(WorkerMessage)]
        /\ \A n \in Node \ Made : toWorker'[n] = <<>>
    BY <1>1 DEF WorkerDown, TypeInv, TypeOK, NodeInv
  <2>3. conn' \in [Node -> ConnState] /\ Made' = Made
    BY <1>1 DEF WorkerDown, TypeInv, TypeOK, ConnState, Made
  <2>4. /\ numTaskHandled' \in [Worker -> Nat] /\ downs' \in Nat /\ up' \subseteq Worker
        /\ jobRunning' \subseteq jobRunning
    BY <1>1 DEF WorkerDown, TypeInv, TypeOK
  <2>5. UNCHANGED <<taskVars, nodeVars, toTask, jobParam>>
    BY <1>1 DEF WorkerDown
  <2>6. TypeOK'
    BY <2>1, <2>2, <2>3, <2>4, <2>5 DEF TypeInv, TypeOK
  <2>7. NodeInv'
    BY <2>1, <2>2, <2>3, <2>4, <2>5 DEF TypeInv, NodeInv, Employed
  <2> QED
    BY <2>6, <2>7 DEF TypeInv
<1>2. ASSUME NEW w \in Worker, WorkerUp(w)
      PROVE  TypeInv'
  BY <1>2 DEF WorkerUp, TypeInv, TypeOK, NodeInv, Made, Employed
<1>3. ASSUME NEW n \in Node, RecvError(n)
      PROVE  TypeInv'
  <2>1. n \in Made /\ conn' \in [Node -> ConnState] /\ Made' = Made
    BY <1>3 DEF RecvError, TypeInv, TypeOK, ConnState, Made
  <2>2. PICK k \in 0 .. Len(toTask[n]) :
            toTask' = [toTask EXCEPT ![n] = Append(SubSeq(@, 1, k), ConnectionFailure)]
    BY <1>3 DEF RecvError, HandleConnectionBroken
  <2>3. SubSeq(toTask[n], 1, k) \in Seq(TaskMessage)
    BY <2>1, SubSeqProperties, LenProperties, ElementOfSeq DEF TypeInv, TypeOK, Made
  <2>4. /\ toTask' \in [Node -> Seq(TaskMessage)]
        /\ \A m \in Node \ Made : toTask'[m] = <<>>
    BY <2>1, <2>2, <2>3, AppendTyped, ConstantMessages
  <2>5. UNCHANGED <<taskVars, nodeVars, toWorker, workerVars>>
    BY <1>3 DEF RecvError
  <2>6. TypeOK'
    BY <2>1, <2>4, <2>5 DEF TypeInv, TypeOK
  <2>7. NodeInv'
    BY <2>1, <2>4, <2>5 DEF TypeInv, NodeInv, Employed
  <2> QED
    BY <2>6, <2>7 DEF TypeInv
<1>4. ASSUME NEW n \in Node, RecvEof(n)
      PROVE  TypeInv'
  <2>1. conn' \in [Node -> ConnState] /\ Made' = Made
    BY <1>4 DEF RecvEof, TypeInv, TypeOK, ConnState, Made
  <2> QED
    BY <1>4, <2>1 DEF RecvEof, TypeInv, TypeOK, NodeInv, Employed
<1> QED
  BY <1>1, <1>2, <1>3, <1>4

-----------------------------------------------------------------------------
\* The state in which Start calls AskPeers is well typed.
LEMMA InitTyped == Init => TypeInv
<1> SUFFICES ASSUME Init PROVE TypeInv
  OBVIOUS
<1>1. TypeOK
  <2>1. m_unAllotParamList \in Seq(Param)
    <3>1. /\ m_numRequiredPeers \in ParamCounts
          /\ m_unAllotParamList = [i \in 1 .. m_numRequiredPeers |-> i]
      BY DEF Init
    <3>2. m_numRequiredPeers \in Nat /\ 1 .. m_numRequiredPeers \subseteq Param
      BY <3>1, TaskConstants DEF Param
    <3> QED
      BY <3>1, <3>2
  <2>2. ask \in [Thread -> Asking] /\ m_numMaxToTryPeers \in Int
    <3>1. Entered \in Asking /\ MaxToTry \in Int
      BY EnteredTyped DEF Init
    <3>2. [Entered EXCEPT !.pc = "check"] \in Asking
      BY <3>1 DEF Asking
    <3> QED
      BY <3>1, <3>2 DEF Init, Thread
  <2>3. /\ nodePeer \in [Node -> Worker \union {None}]
        /\ nodeParam \in [Node -> Param \union {None}]
        /\ jobParam \in [Node -> Param \union {None}]
        /\ conn \in [Node -> ConnState]
        /\ toWorker \in [Node -> Seq(WorkerMessage)]
        /\ toTask \in [Node -> Seq(TaskMessage)]
        /\ jobList \in [Worker -> Seq(Node)]
        /\ numTaskHandled \in [Worker -> Nat]
    BY TaskConstants DEF Init, ConnState
  <2>4. /\ numNodes \in 0 .. MaxNodes /\ m_numRemainingPeers \in Int
        /\ m_numRequiredPeers \in ParamCounts /\ m_peerList \in PeerLists
    BY TaskConstants DEF Init
  <2>5. /\ <<>> \in Seq(Node)
        /\ m_currentThreshold \in {HighThreshold, MediumThreshold}
        /\ {} \subseteq Param /\ {} \subseteq Node /\ Worker \subseteq Worker
    BY DEF Init
  <2>6. 0 \in Nat /\ FALSE \in BOOLEAN
    OBVIOUS
  <2> QED
    BY <2>1, <2>2, <2>3, <2>4, <2>5, <2>6 DEF Init, TypeOK
<1>2. NodeInv
  BY DEF Init, NodeInv, Made, Employed
<1> QED
  BY <1>1, <1>2 DEF TypeInv

\* Every step keeps the type invariant.
LEMMA StepTyped == TypeInv /\ [Next]_vars => TypeInv'
<1> SUFFICES ASSUME TypeInv, [Next]_vars
             PROVE  TypeInv'
  OBVIOUS
<1>1. CASE UNCHANGED vars
  BY <1>1 DEF vars, listVars, taskVars, allotVars, nodeLists, resultVars, countVars, triedVars,
              nodeVars, netVars,
              workerVars, jobVars, TypeInv, TypeOK, NodeInv, Made, Employed
<1>2. CASE Step /\ UNCHANGED <<listVars, m_numRequiredPeers>>
  BY <1>2, AskPeersTyped, LoopTyped, HandlerTyped, WorkerTyped, BreakTyped DEF Step, listVars
<1>3. ASSUME NEW list \in PeerLists, HandlePeerList(list)
      PROVE  TypeInv'
  <2>1. /\ m_peerList' \in PeerLists /\ numLists' \in Nat
        /\ UNCHANGED <<m_numRequiredPeers, taskVars, nodeVars, netVars, workerVars>>
    BY <1>3 DEF HandlePeerList, TypeInv, TypeOK
  <2> QED
    BY <2>1 DEF taskVars, allotVars, nodeLists, resultVars, countVars, triedVars, nodeVars,
                netVars, workerVars, jobVars, TypeInv, TypeOK, NodeInv, Made, Employed
<1> QED
  BY <1>1, <1>2, <1>3 DEF Next

\* Whatever the peers, the parameters and the order of events, every message,
\* list and map of a task holds parameters and nodes that exist: no handler
\* uses a PeerNode whose m_paramIndx or m_peerId is still -1.
THEOREM TaskTypeCorrect == Spec => []TypeOK
<1>1. TypeInv => TypeOK
  BY DEF TypeInv
<1> QED
  BY <1>1, InitTyped, StepTyped, PTL DEF Spec

-----------------------------------------------------------------------------
\* Parameters are kept, if the task thread handles nothing while main asks.

\* At most one thread is in AskPeers; main never comes back to it.
OneAsks ==
    /\ ask["main"].pc \in AskStep \union {"done"}
    /\ ask["main"].pc \in AskStep => ask["task"].pc \notin AskStep

\* From AskConnect to AskErase the list still begins with the parameter the
\* node was made for, which is also in m_tryPeerParamMap.
AskedIsFirst ==
    \A t \in Thread : ask[t].pc \in {"request", "erase"} =>
        /\ m_unAllotParamList # <<>>
        /\ Head(m_unAllotParamList) = nodeParam[ask[t].node]
        /\ Head(m_unAllotParamList) \in m_tryPeerParamMap

KeepInv == TypeInv /\ OneAsks /\ AskedIsFirst /\ NoParamLost

\* What AskPeers does to the thread that runs it, and only to that thread.
LEMMA AskMoves ==
    ASSUME TypeInv, NEW t \in Thread, AskPeersStep(t)
    PROVE  /\ ask[t].pc \in AskStep
           /\ ask'[t].pc \in AskStep \union {Left(t)}
           /\ \A u \in Thread \ {t} : ask'[u] = ask[u]
<1>1. ask \in [Thread -> Asking]
  BY DEF TypeInv, TypeOK
<1>2. ask[t].pc \in AskStep
  BY DEF AskPeersStep, AskLower, AskGiveUp, AskSkip, AskUnreachable, AskConnect, AskRequest,
         AskErase, AskAbort, AskShort, AskEnough, AskEnd, Scanning, AskStep
<1> DEFINE Moves == /\ ask'[t].pc \in AskStep \union {Left(t)}
                    /\ \A u \in Thread \ {t} : ask'[u] = ask[u]
<1>3. CASE AskLower(t)
  BY <1>1, <1>3 DEF AskLower, Asking, AskStep
<1>4. CASE AskGiveUp(t) \/ AskShort(t) \/ AskEnough(t)
  BY <1>1, <1>4 DEF AskGiveUp, AskShort, AskEnough, AskEnd, Asking
<1>5. CASE AskSkip(t) \/ AskUnreachable(t)
  BY <1>1, <1>5 DEF AskSkip, AskUnreachable, Asking, AskStep
<1>6. CASE AskConnect(t)
  BY <1>1, <1>6 DEF AskConnect, Asking, AskStep
<1>7. ASSUME NextPeer(t)
      PROVE  Moves
  BY <1>1, <1>7 DEF NextPeer, Asking, AskStep
<1>8. CASE AskRequest(t)
  BY <1>1, <1>7, <1>8 DEF AskRequest, Asking, AskStep
<1>9. CASE AskErase(t)
  BY <1>2, <1>7, <1>9 DEF AskErase
<1>10. CASE AskAbort(t)
  BY <1>2, <1>10 DEF AskAbort
<1> QED
  BY <1>2, <1>3, <1>4, <1>5, <1>6, <1>8, <1>9, <1>10 DEF AskPeersStep

\* AskPeers keeps parameters: it erases only the one it asked for.
LEMMA AskPeersKeeps ==
    ASSUME KeepInv, NEW t \in Thread, AskPeersStep(t),
           UNCHANGED <<m_peerList, numLists, m_numRequiredPeers>>
    PROVE  OneAsks' /\ AskedIsFirst' /\ NoParamLost'
<1> USE DEF KeepInv, allotVars, resultVars, nodeVars
<1>a. TypeInv /\ TypeInv'
  BY AskPeersTyped
<1>b. /\ ask \in [Thread -> Asking] /\ m_unAllotParamList \in Seq(Param)
      /\ nodeParam \in [Node -> Param \union {None}]
  BY <1>a DEF TypeInv, TypeOK
<1>1. OneAsks'
  BY <1>a, AskMoves DEF OneAsks, Thread, Left, AskStep
<1>2. \A u \in Thread \ {t} : ask[u].pc \notin AskStep /\ ask'[u] = ask[u]
  BY <1>a, AskMoves DEF OneAsks, Thread
<1>3. ASSUME ask'[t].pc \notin {"request", "erase"}
      PROVE  AskedIsFirst'
  BY <1>2, <1>3 DEF AskedIsFirst, AskStep
<1>4. ASSUME UNCHANGED <<allotVars, m_paramResultMap, m_bStop, aborted>>
      PROVE  NoParamLost'
  BY <1>4 DEF NoParamLost, Accounted
<1>5. CASE AskLower(t) \/ AskSkip(t) \/ AskUnreachable(t) \/ AskEnough(t)
  <2>1. ask'[t].pc \notin {"request", "erase"}
    BY <1>b, <1>5 DEF AskLower, AskSkip, AskUnreachable, AskEnough, AskEnd, Left, Asking
  <2>2. UNCHANGED <<allotVars, m_paramResultMap, m_bStop, aborted>>
    BY <1>5 DEF AskLower, AskSkip, AskUnreachable, AskEnough
  <2> QED
    BY <1>1, <1>3, <1>4, <2>1, <2>2
<1>6. CASE AskGiveUp(t) \/ AskShort(t)
  <2>1. ask'[t].pc \notin {"request", "erase"}
    BY <1>b, <1>6 DEF AskGiveUp, AskShort, AskEnd, Left, Asking
  <2>2. m_bStop'
    BY <1>6 DEF AskGiveUp, AskShort, TaskCancel
  <2> QED
    BY <1>1, <1>3, <2>1, <2>2 DEF NoParamLost
<1>7. CASE AskConnect(t)
  <2> DEFINE n == numNodes + 1
             p == Head(m_unAllotParamList)
  <2>1. /\ ask'[t].node = n
        /\ m_unAllotParamList' = m_unAllotParamList /\ m_unAllotParamList # <<>>
        /\ m_tryPeerParamMap' = m_tryPeerParamMap \union {p}
        /\ nodeParam' = [nodeParam EXCEPT ![n] = p]
        /\ UNCHANGED <<m_peerParamMap, m_paramResultMap, m_bStop, aborted>>
    BY <1>b, <1>7 DEF AskConnect, ParamToAsk, SetParamIndex, Asking
  <2>2. n \in Node
    BY <1>7, <1>a, TaskConstants DEF AskConnect, Node, TypeInv, TypeOK
  <2>3. nodeParam'[n] = p
    BY <1>b, <2>1, <2>2
  <2>4. AskedIsFirst'
    BY <1>2, <2>1, <2>3 DEF AskedIsFirst, AskStep
  <2>5. NoParamLost'
    BY <2>1 DEF NoParamLost, Accounted
  <2> QED
    BY <1>1, <2>4, <2>5
<1>8. CASE AskRequest(t)
  <2>1. /\ ask[t].pc = "request" /\ ask'[t].node = ask[t].node
        /\ UNCHANGED <<allotVars, m_paramResultMap, m_bStop, aborted, nodeVars>>
    <3>1. NextPeer(t) => ask'[t].node = ask[t].node
      BY <1>b DEF NextPeer, Asking
    <3> QED
      BY <1>b, <1>8, <3>1 DEF AskRequest, Asking
  <2>2. AskedIsFirst'
    BY <1>2, <2>1 DEF AskedIsFirst, AskStep
  <2> QED
    BY <1>1, <1>4, <2>1, <2>2
<1>9. CASE AskErase(t)
  <2> DEFINE p == Head(m_unAllotParamList)
  <2>1. /\ ask[t].pc = "erase" /\ NextPeer(t) /\ m_unAllotParamList # <<>>
        /\ m_unAllotParamList' = Tail(m_unAllotParamList)
        /\ UNCHANGED <<m_tryPeerParamMap, m_peerParamMap, m_paramResultMap, m_bStop, aborted>>
    BY <1>9 DEF AskErase, EraseAsked
  <2>2. ask'[t].pc \notin {"request", "erase"}
    BY <1>b, <2>1 DEF NextPeer, Asking
  <2>3. p \in m_tryPeerParamMap
    BY <2>1 DEF AskedIsFirst
  <2>4. ToSet(m_unAllotParamList) \subseteq ToSet(m_unAllotParamList') \union {p}
    <3>1. Len(m_unAllotParamList) \in Nat /\ DOMAIN m_unAllotParamList = 1 .. Len(m_unAllotParamList)
      BY <1>b, LenProperties
    <3>2. /\ Len(m_unAllotParamList') = Len(m_unAllotParamList) - 1
          /\ DOMAIN m_unAllotParamList' = 1 .. Len(m_unAllotParamList')
          /\ \A i \in 1 .. Len(m_unAllotParamList') :
                m_unAllotParamList'[i] = m_unAllotParamList[i + 1]
      BY <1>b, <2>1, HeadTailProperties, LenProperties
    <3>3. ASSUME NEW i \in DOMAIN m_unAllotParamList, i # 1
          PROVE  m_unAllotParamList[i] \in ToSet(m_unAllotParamList')
      <4>1. i - 1 \in DOMAIN m_unAllotParamList' /\ m_unAllotParamList'[i - 1] = m_unAllotParamList[i]
        BY <3>1, <3>2, <3>3
      <4> QED
        BY <4>1 DEF ToSet
    <3> QED
      BY <3>3 DEF ToSet
  <2>5. NoParamLost'
    BY <2>1, <2>3, <2>4 DEF NoParamLost, Accounted
  <2> QED
    BY <1>1, <1>3, <2>2, <2>5
<1>10. CASE AskAbort(t)
  <2>1. aborted' /\ UNCHANGED <<allotVars, ask, nodeVars>>
    BY <1>10 DEF AskAbort
  <2>2. AskedIsFirst'
    BY <2>1 DEF AskedIsFirst
  <2> QED
    BY <1>1, <2>1, <2>2 DEF NoParamLost
<1> QED
  BY <1>5, <1>6, <1>7, <1>8, <1>9, <1>10 DEF AskPeersStep

\* Putting a parameter back keeps it, and all the others.
LEMMA UnallotKeeps ==
    ASSUME TypeInv, NEW p \in Param, Unallot(p)
    PROVE  ToSet(m_unAllotParamList) \union {p} \subseteq ToSet(m_unAllotParamList')
<1>1. m_unAllotParamList \in Seq(Param)
  BY DEF TypeInv, TypeOK
<1>2. CASE Contains(m_unAllotParamList, p)
  <2>1. DOMAIN m_unAllotParamList = 1 .. Len(m_unAllotParamList)
    BY <1>1, LenProperties
  <2> QED
    BY <1>2, <2>1 DEF Contains, ToSet, Unallot
<1>3. CASE ~Contains(m_unAllotParamList, p)
  <2> DEFINE l == m_unAllotParamList
  <2>1. m_unAllotParamList' = Append(l, p)
    BY <1>3 DEF Unallot
  <2>2. /\ DOMAIN l = 1 .. Len(l) /\ Len(l) \in Nat
        /\ DOMAIN Append(l, p) = 1 .. Len(l) + 1
        /\ \A i \in 1 .. Len(l) : Append(l, p)[i] = l[i]
        /\ Append(l, p)[Len(l) + 1] = p
    BY <1>1, LenProperties, AppendProperties
  <2>3. ToSet(l) \subseteq ToSet(Append(l, p)) /\ p \in ToSet(Append(l, p))
    BY <2>2 DEF ToSet
  <2> QED
    BY <2>1, <2>3
<1> QED
  BY <1>2, <1>3

\* The handlers move a parameter from one place to another.
LEMMA HandlerKeeps ==
    ASSUME StartRace = FALSE, KeepInv, NEW n \in Node, TaskHandler(n),
           UNCHANGED <<m_peerList, numLists, m_numRequiredPeers>>
    PROVE  OneAsks' /\ AskedIsFirst' /\ NoParamLost'
<1> USE DEF KeepInv, allotVars, resultVars
<1>1. /\ ask \in [Thread -> Asking]
      /\ ask["main"].pc = "done" /\ ask["task"].pc = "get"
      /\ toTask[n] # <<>>
  BY DEF TaskHandler, HandleEligible, HandleNotEligible, HandleNotEligibleAbort,
         HandleExecuting, HandleRefused, HandleTaskResult, HandlePeerConnFailure,
         IgnorePeerConnFailure, Receives, TypeInv, TypeOK
<1>2. nodeParam[n] \in Param
  BY <1>1 DEF TypeInv, NodeInv
<1>3. ask'["main"] = ask["main"] /\ ask'["task"].pc \in {"check", "loop", "get"}
  <2>1. "task" \in Thread /\ "main" \in Thread
    BY DEF Thread
  <2>2. BackToLoop \/ AskPeers \/ ask' = ask
    BY DEF TaskHandler, HandleEligible, HandleNotEligible, HandleNotEligibleAbort,
           HandleExecuting, HandleRefused, HandleTaskResult, HandlePeerConnFailure,
           IgnorePeerConnFailure
  <2> QED
    BY <1>1, <2>1, <2>2 DEF BackToLoop, AskPeers, Entered, Asking
<1>4. OneAsks' /\ AskedIsFirst'
  BY <1>1, <1>3 DEF OneAsks, AskedIsFirst, Thread, AskStep
<1>5. CASE HandleEligible(n)
  BY <1>4, <1>5 DEF HandleEligible, NoParamLost, Accounted
<1>6. CASE HandleNotEligible(n)
  <2>1. ToSet(m_unAllotParamList) \union {nodeParam[n]} \subseteq ToSet(m_unAllotParamList')
    BY <1>2, <1>6, UnallotKeeps DEF HandleNotEligible
  <2>2. /\ m_tryPeerParamMap' = m_tryPeerParamMap \ {nodeParam[n]}
        /\ UNCHANGED <<m_peerParamMap, m_paramResultMap, m_bStop, aborted>>
    BY <1>6 DEF HandleNotEligible
  <2> QED
    BY <1>4, <2>1, <2>2 DEF NoParamLost, Accounted
<1>7. CASE HandleNotEligibleAbort(n)
  BY <1>4, <1>7 DEF HandleNotEligibleAbort, NoParamLost
<1>8. CASE HandleExecuting(n) \/ IgnorePeerConnFailure(n)
  BY <1>4, <1>8 DEF HandleExecuting, IgnorePeerConnFailure, NoParamLost, Accounted
<1>9. CASE HandleRefused(n)
  <2>1. ToSet(m_unAllotParamList) \union {nodeParam[n]} \subseteq ToSet(m_unAllotParamList')
    BY <1>2, <1>9, UnallotKeeps DEF HandleRefused
  <2>2. /\ m_peerParamMap' = m_peerParamMap \ {nodeParam[n]}
        /\ UNCHANGED <<m_tryPeerParamMap, m_paramResultMap, m_bStop, aborted>>
    BY <1>9 DEF HandleRefused
  <2> QED
    BY <1>4, <2>1, <2>2 DEF NoParamLost, Accounted
<1>10. CASE HandleTaskResult(n)
  BY <1>4, <1>10 DEF HandleTaskResult, NoParamLost, Accounted
<1>11. CASE HandlePeerConnFailure(n)
  <2>1. ToSet(m_unAllotParamList) \union {nodeParam[n]} \subseteq ToSet(m_unAllotParamList')
    BY <1>2, <1>11, UnallotKeeps DEF HandlePeerConnFailure
  <2>2. /\ m_tryPeerParamMap' = m_tryPeerParamMap \ {nodeParam[n]}
        /\ m_peerParamMap' = m_peerParamMap \ {nodeParam[n]}
        /\ UNCHANGED <<m_paramResultMap, m_bStop, aborted>>
    BY <1>11 DEF HandlePeerConnFailure
  <2> QED
    BY <1>4, <2>1, <2>2 DEF NoParamLost, Accounted
<1> QED
  BY <1>5, <1>6, <1>7, <1>8, <1>9, <1>10, <1>11 DEF TaskHandler

\* At first every parameter is on the list, and only the main thread asks.
LEMMA InitKeeps == Init => KeepInv
<1> SUFFICES ASSUME Init PROVE KeepInv
  OBVIOUS
<1>1. OneAsks /\ AskedIsFirst
  BY DEF Init, OneAsks, AskedIsFirst, Entered, Thread, AskStep
<1>2. NoParamLost
  BY DEF Init, NoParamLost, Accounted, ToSet
<1> QED
  BY <1>1, <1>2, InitTyped DEF KeepInv

\* Every step keeps every parameter accounted for, if only one thread asks at a time.
LEMMA StepKeeps ==
    ASSUME StartRace = FALSE
    PROVE  KeepInv /\ [Next]_vars => KeepInv'
<1> SUFFICES ASSUME KeepInv, [Next]_vars
             PROVE  KeepInv'
  OBVIOUS
<1>1. TypeInv'
  BY StepTyped DEF KeepInv
<1>a. UNCHANGED m_numRequiredPeers
  BY DEF Next, HandlePeerList, vars
<1>2. ASSUME UNCHANGED <<taskVars, nodeVars>>
      PROVE  OneAsks' /\ AskedIsFirst' /\ NoParamLost'
  BY <1>a, <1>2 DEF taskVars, allotVars, nodeLists, resultVars, countVars, triedVars, nodeVars, KeepInv, OneAsks,
              AskedIsFirst, NoParamLost, Accounted
<1>3. CASE TaskCheck \/ TaskWait
  <2>1. ask \in [Thread -> Asking] /\ "task" \in Thread /\ "main" \in Thread
    BY DEF KeepInv, TypeInv, TypeOK, Thread
  <2>2. PICK x \in {"check", "get", "done"} : ask' = [ask EXCEPT !["task"].pc = x]
    BY <1>3 DEF TaskCheck, TaskWait
  <2>3. ask'["main"] = ask["main"] /\ ask'["task"].pc \in {"check", "get", "done"}
    BY <2>1, <2>2 DEF Asking
  <2>4. UNCHANGED <<allotVars, resultVars, m_bStop, aborted, nodeVars>>
    BY <1>3 DEF TaskCheck, TaskWait
  <2>5. OneAsks' /\ AskedIsFirst'
    BY <2>3, <2>4 DEF KeepInv, OneAsks, AskedIsFirst, Thread, AskStep, allotVars, nodeVars
  <2>6. NoParamLost'
    BY <1>a, <2>4 DEF KeepInv, NoParamLost, Accounted, allotVars, resultVars
  <2> QED
    BY <1>1, <2>5, <2>6 DEF KeepInv
<1>4. CASE (\E t \in Thread : AskPeersStep(t)) /\ UNCHANGED listVars
  BY <1>a, <1>1, <1>4, AskPeersKeeps DEF KeepInv, listVars
<1>5. CASE (\E n \in Node : TaskHandler(n)) /\ UNCHANGED listVars
  BY <1>a, <1>1, <1>5, HandlerKeeps DEF KeepInv, listVars
<1>6. CASE \E n \in Node : WorkerStep(n) \/ JobDone(n) \/ RecvError(n) \/ RecvEof(n)
  <2>1. UNCHANGED <<taskVars, nodeVars>>
    BY <1>6 DEF WorkerStep, HandleTaskRequest, HandleTaskExecute, HandleTaskCancel, JobDone,
                RecvError, RecvEof
  <2> QED
    BY <1>1, <1>2, <2>1 DEF KeepInv
<1>7. CASE \E w \in Worker : WorkerDown(w) \/ WorkerUp(w)
  <2>1. UNCHANGED <<taskVars, nodeVars>>
    BY <1>7 DEF WorkerDown, WorkerUp
  <2> QED
    BY <1>1, <1>2, <2>1 DEF KeepInv
<1>8. CASE UNCHANGED vars \/ \E list \in PeerLists : HandlePeerList(list)
  BY <1>1, <1>2, <1>8 DEF vars, HandlePeerList, KeepInv
<1> QED
  BY <1>3, <1>4, <1>5, <1>6, <1>7, <1>8 DEF Next, Step

\* With any number of peers that die and come back, if the task thread handles
\* its first answer only after Start has returned, then no parameter of a task
\* that goes on is ever in none of its four places.
THEOREM NoParameterIsLost ==
    ASSUME StartRace = FALSE
    PROVE  Spec => []NoParamLost
<1>1. KeepInv => NoParamLost
  BY DEF KeepInv
<1> QED
  BY <1>1, InitKeeps, StepKeeps, PTL DEF Spec

-----------------------------------------------------------------------------
\* What is on its way

\* A message of one of these types is in the channel; at most one is.
Carries(s, types) == \E i \in DOMAIN s : s[i].type \in types
Once(s, types) == \A i, j \in DOMAIN s : s[i].type \in types /\ s[j].type \in types => i = j

\* What a worker answers, and what the task acts on.
Calls == {"TASK_REQUEST", "TASK_EXECUTE"}
Answers == {"TASK_REQUEST_RESP", "REFUSED", "TASK_RESULT"}

\* The channel has lost messages of these types, or kept them.
Shrinks(new, old, types) ==
    /\ Once(old, types) => Once(new, types)
    /\ \A T \in SUBSET types : Carries(new, T) => Carries(old, T)

\* Nothing new in a channel that is left alone, ...
LEMMA SameShrinks == ASSUME NEW s, NEW types PROVE Shrinks(s, s, types)
BY DEF Shrinks

\* ... emptied, ...
LEMMA EmptyShrinks ==
    ASSUME NEW s, NEW types
    PROVE  Shrinks(<<>>, s, types) /\ \A T : ~Carries(<<>>, T)
BY DEF Shrinks, Once, Carries

\* ... read, ...
LEMMA TailShrinks ==
    ASSUME NEW S, NEW s \in Seq(S), s # <<>>, NEW types
    PROVE  /\ Shrinks(Tail(s), s, types)
           /\ \A T : Head(s).type \in T => Carries(s, T)
           /\ Once(s, types) /\ Head(s).type \in types => ~Carries(Tail(s), types)
<1>1. /\ Len(s) \in Nat /\ Len(s) # 0 /\ DOMAIN s = 1 .. Len(s)
      /\ DOMAIN Tail(s) = 1 .. Len(s) - 1
      /\ \A i \in 1 .. Len(s) - 1 : Tail(s)[i] = s[i + 1]
      /\ Head(s) = s[1]
  BY HeadTailProperties, LenProperties, EmptySeq
<1>2. \A i \in DOMAIN Tail(s) : i + 1 \in DOMAIN s /\ Tail(s)[i] = s[i + 1] /\ i + 1 # 1
  BY <1>1
<1>3. \A i, j \in DOMAIN Tail(s) : i + 1 = j + 1 => i = j
  BY <1>1
<1>4. 1 \in DOMAIN s
  BY <1>1
<1> HIDE <1>1
<1>5. \A T : Carries(Tail(s), T) => Carries(s, T)
  BY <1>2 DEF Carries
<1>6. Once(s, types) => Once(Tail(s), types)
  BY <1>2, <1>3 DEF Once
<1>7. Head(s) = s[1]
  BY <1>1
<1> QED
  BY <1>2, <1>4, <1>5, <1>6, <1>7 DEF Shrinks, Once, Carries

\* ... cut off, ...
LEMMA PrefixShrinks ==
    ASSUME NEW S, NEW s \in Seq(S), NEW k \in 0 .. Len(s), NEW types
    PROVE  Shrinks(SubSeq(s, 1, k), s, types)
<1>1. Len(s) \in Nat /\ DOMAIN s = 1 .. Len(s)
  BY LenProperties
<1>2. /\ DOMAIN SubSeq(s, 1, k) = 1 .. k
      /\ \A i \in 1 .. k : SubSeq(s, 1, k)[i] = s[i]
  BY <1>1, SubSeqProperties, LenProperties, ElementOfSeq
<1>3. \A i \in DOMAIN SubSeq(s, 1, k) : i \in DOMAIN s /\ SubSeq(s, 1, k)[i] = s[i]
  BY <1>1, <1>2
<1> QED
  BY <1>3 DEF Shrinks, Once, Carries

\* ... or given a message that nobody has to act on.
LEMMA AppendShrinks ==
    ASSUME NEW S, NEW s \in Seq(S), NEW m \in S, NEW types
    PROVE  /\ m.type \notin types => Shrinks(Append(s, m), s, types)
           /\ ~Carries(s, types) => Once(Append(s, m), types)
           /\ \A T : Carries(Append(s, m), T) => Carries(s, T) \/ m.type \in T
<1> DEFINE a == Append(s, m)
<1>1. /\ Len(s) \in Nat /\ DOMAIN s = 1 .. Len(s)
      /\ DOMAIN a = 1 .. Len(s) + 1
      /\ \A i \in 1 .. Len(s) : a[i] = s[i]
      /\ a[Len(s) + 1] = m
  BY AppendProperties, LenProperties
<1> HIDE DEF a
<1>2. \A i \in DOMAIN a : \/ i \in DOMAIN s /\ a[i] = s[i]
                          \/ i = Len(s) + 1 /\ a[i] = m
  BY <1>1
<1>3. \A T : Carries(a, T) => Carries(s, T) \/ m.type \in T
  BY <1>2 DEF Carries
<1>4. ~Carries(s, types) => Once(a, types)
  BY <1>2 DEF Carries, Once
<1>5. m.type \notin types => Shrinks(a, s, types)
  BY <1>2, <1>3 DEF Shrinks, Once
<1> QED
  BY <1>3, <1>4, <1>5 DEF a

-----------------------------------------------------------------------------
\* Whose turn it is

\* AskPeers has made the node and not yet sent its request.
Fresh(n) == \E t \in Thread : ask[t].pc = "request" /\ ask[t].node = n

\* The request or its answer is on its way, ...
Awaited(n) == Carries(toWorker[n], {"TASK_REQUEST"}) \/ Carries(toTask[n], {"TASK_REQUEST_RESP"})

\* ... or the order to execute, the running job or what comes of it.
Engaged(n) == \/ Carries(toWorker[n], {"TASK_EXECUTE"})
              \/ n \in jobRunning
              \/ Carries(toTask[n], {"REFUSED", "TASK_RESULT"})

\* At most one of all these.
Turn(n) ==
    /\ Once(toWorker[n], Calls) /\ Once(toTask[n], Answers)
    /\ ~(Carries(toWorker[n], Calls) /\ Carries(toTask[n], Answers))
    /\ n \in jobRunning => ~Carries(toWorker[n], Calls) /\ ~Carries(toTask[n], Answers)

TurnInv == \A n \in Node : Turn(n)

\* The nodes that were made are the first ones, and the threads make different ones.
MadeInv ==
    /\ Made = 1 .. numNodes
    /\ \A t \in Thread : ask[t].pc \in {"request", "erase"} => ask[t].node \in Made
    /\ \A t, u \in Thread : ask[t].pc = "request" /\ ask[u].pc = "request"
                            /\ ask[t].node = ask[u].node => t = u
    /\ m_peerResultAvailMap \subseteq Made

\* A node is executing only after its answer was handled, and is done with its result.
StageInv == \A n \in Node :
    /\ Fresh(n) => ~Awaited(n) /\ ~Engaged(n) /\ n \notin m_peerResultAvailMap
    /\ Fresh(n) \/ Awaited(n) => n \notin ToSet(m_taskNodes)
    /\ n \in m_peerResultAvailMap => ~Awaited(n) /\ ~Engaged(n)

\* A node is told to execute once.
ListedOnce == IsInjective(m_taskNodes)

\* A worker whose process is gone has no connection, no message and no job.
UpInv == \A n \in Made :
    /\ conn[n] = "up" => nodePeer[n] \in up
    /\ nodePeer[n] \notin up => toWorker[n] = <<>> /\ n \notin jobRunning

RequestInv == TypeInv /\ MadeInv /\ TurnInv /\ StageInv /\ ListedOnce /\ UpInv

\* Whatever a step does to the node's channels and job, nothing new is under way.
Kept(n) == /\ Shrinks(toWorker'[n], toWorker[n], Calls)
           /\ Shrinks(toTask'[n], toTask[n], Answers)
           /\ n \in jobRunning' => n \in jobRunning

\* The channels are unchanged.
LEMMA SameKept ==
    ASSUME NEW n, UNCHANGED <<toWorker, toTask, jobRunning>>
    PROVE  Kept(n)
BY SameShrinks DEF Kept

\* A node at which nothing new is under way keeps its turn.
LEMMA KeptTurn ==
    ASSUME NEW n, Kept(n)
    PROVE  /\ Turn(n) => Turn(n)'
           /\ Awaited(n)' => Awaited(n)
           /\ Engaged(n)' => Engaged(n)
<1>1. /\ {"TASK_REQUEST"} \in SUBSET Calls /\ {"TASK_EXECUTE"} \in SUBSET Calls
      /\ Calls \in SUBSET Calls
      /\ {"TASK_REQUEST_RESP"} \in SUBSET Answers /\ {"REFUSED", "TASK_RESULT"} \in SUBSET Answers
      /\ Answers \in SUBSET Answers
  BY DEF Calls, Answers
<1>2. /\ Once(toWorker[n], Calls) => Once(toWorker'[n], Calls)
      /\ Once(toTask[n], Answers) => Once(toTask'[n], Answers)
  BY DEF Kept, Shrinks
<1>3. /\ \A T \in SUBSET Calls : Carries(toWorker'[n], T) => Carries(toWorker[n], T)
      /\ \A T \in SUBSET Answers : Carries(toTask'[n], T) => Carries(toTask[n], T)
      /\ n \in jobRunning' => n \in jobRunning
  BY DEF Kept, Shrinks
<1>4. /\ Carries(toWorker'[n], Calls) => Carries(toWorker[n], Calls)
      /\ Carries(toTask'[n], Answers) => Carries(toTask[n], Answers)
  BY <1>1, <1>3
<1>5. Turn(n) => Turn(n)'
  BY <1>2, <1>3, <1>4 DEF Turn
<1> QED
  BY <1>1, <1>3, <1>5 DEF Awaited, Engaged

\* What a message sent to one node changes.
LEMMA SendOne ==
    ASSUME TypeInv, NEW n \in Node, NEW msg \in WorkerMessage, Send(n, msg)
    PROVE  /\ \A m \in Node \ {n} : toWorker'[m] = toWorker[m] /\ conn'[m] = conn[m]
           /\ toWorker'[n] \in {toWorker[n], Append(toWorker[n], msg)}
           /\ ~Reachable(n) => toWorker'[n] = toWorker[n]
           /\ conn[n] # "down" => conn'[n] = conn[n]
           /\ conn[n] = "down" => conn'[n] = IF nodePeer[n] \in up THEN "up" ELSE "dead"
<1> DEFINE out == [m \in Node |-> IF m = n THEN <<msg>> ELSE <<>>]
<1>1. \A m \in Node : toWorker[m] \in Seq(WorkerMessage)
  BY DEF TypeInv, TypeOK
<1>2. \A m \in Node : toWorker[m] \o <<>> = toWorker[m]
  BY <1>1, ConcatEmptySeq
<1>3. toWorker[n] \o <<msg>> = Append(toWorker[n], msg)
  BY <1>1, AppendIsConcat
<1>4. SendAll(out)
  BY DEF Send
<1>5. out[n] = <<msg>> /\ out[n] # <<>> /\ \A m \in Node \ {n} : out[m] = <<>>
  OBVIOUS
<1> HIDE DEF out
<1>6. \A m \in Node : /\ toWorker'[m] = IF Reachable(m) THEN toWorker[m] \o out[m] ELSE toWorker[m]
                      /\ conn'[m] = IF out[m] = <<>> \/ conn[m] # "down" THEN conn[m]
                                    ELSE IF Reachable(m) THEN "up" ELSE "dead"
  BY <1>4 DEF SendAll
<1> QED
  BY <1>2, <1>3, <1>5, <1>6 DEF Reachable

\* What the cancels of a task that is given up change.
LEMMA CancelAll ==
    ASSUME TypeInv, TaskCancel
    PROVE  \A m \in Node :
               /\ Shrinks(toWorker'[m], toWorker[m], Calls)
               /\ ~Reachable(m) => toWorker'[m] = toWorker[m]
               /\ conn[m] # "down" => conn'[m] = conn[m]
               /\ conn'[m] = "up" => Reachable(m)
               /\ conn'[m] = "down" => conn[m] = "down"
<1> DEFINE once(n, list) == IF Contains(list, n) THEN <<Cancel>> ELSE <<>>
           out == [n \in Node |-> once(n, m_tryNodes) \o once(n, m_taskNodes)]
<1> SUFFICES ASSUME NEW m \in Node
             PROVE  /\ Shrinks(toWorker'[m], toWorker[m], Calls)
                    /\ ~Reachable(m) => toWorker'[m] = toWorker[m]
                    /\ conn[m] # "down" => conn'[m] = conn[m]
                    /\ conn'[m] = "up" => Reachable(m)
                    /\ conn'[m] = "down" => conn[m] = "down"
  OBVIOUS
<1>1. Cancel \in WorkerMessage /\ Cancel.type \notin Calls
  BY ConstantMessages DEF Cancel, Calls
<1>2. toWorker[m] \in Seq(WorkerMessage)
  BY DEF TypeInv, TypeOK
<1>3. \A s \in Seq(WorkerMessage), x \in {<<>>, <<Cancel>>} :
          s \o x \in Seq(WorkerMessage) /\ Shrinks(s \o x, s, Calls)
  <2> SUFFICES ASSUME NEW s \in Seq(WorkerMessage)
               PROVE  /\ s \o <<>> \in Seq(WorkerMessage) /\ Shrinks(s \o <<>>, s, Calls)
                      /\ s \o <<Cancel>> \in Seq(WorkerMessage) /\ Shrinks(s \o <<Cancel>>, s, Calls)
    OBVIOUS
  <2>1. s \o <<>> = s
    BY ConcatEmptySeq
  <2>2. s \o <<Cancel>> = Append(s, Cancel) /\ Append(s, Cancel) \in Seq(WorkerMessage)
    BY <1>1, AppendIsConcat, AppendProperties
  <2> QED
    BY <1>1, <2>1, <2>2, SameShrinks, AppendShrinks
<1>4. SendAll(out)
  BY DEF TaskCancel
<1>5. \A list : once(m, list) \in {<<>>, <<Cancel>>}
  OBVIOUS
<1>6. out[m] = once(m, m_tryNodes) \o once(m, m_taskNodes)
  OBVIOUS
<1> HIDE DEF out, once
<1>7. Shrinks(toWorker[m] \o out[m], toWorker[m], Calls)
  <2> DEFINE a == once(m, m_tryNodes)
             b == once(m, m_taskNodes)
  <2>1. a \in {<<>>, <<Cancel>>} /\ b \in {<<>>, <<Cancel>>}
    BY <1>5
  <2>0. <<>> \in Seq(WorkerMessage) /\ <<Cancel>> \in Seq(WorkerMessage)
    BY <1>1, OneElement
  <2> HIDE DEF a, b
  <2>2. a \in Seq(WorkerMessage) /\ b \in Seq(WorkerMessage)
    BY <2>0, <2>1
  <2>3. toWorker[m] \o (a \o b) = (toWorker[m] \o a) \o b
    <3>1. \A s, t, u \in Seq(WorkerMessage) : (s \o t) \o u = s \o (t \o u)
      BY ConcatAssociative
    <3> QED
      BY <1>2, <2>2, <3>1
  <2>4. /\ toWorker[m] \o a \in Seq(WorkerMessage)
        /\ Shrinks(toWorker[m] \o a, toWorker[m], Calls)
        /\ Shrinks((toWorker[m] \o a) \o b, toWorker[m] \o a, Calls)
    BY <1>2, <1>3, <2>1
  <2> QED
    BY <1>6, <2>3, <2>4 DEF Shrinks, a, b
<1>8. /\ toWorker'[m] = IF Reachable(m) THEN toWorker[m] \o out[m] ELSE toWorker[m]
      /\ conn'[m] = IF out[m] = <<>> \/ conn[m] # "down" THEN conn[m]
                    ELSE IF Reachable(m) THEN "up" ELSE "dead"
  BY <1>4 DEF SendAll
<1> QED
  BY <1>7, <1>8, SameShrinks DEF Reachable

-----------------------------------------------------------------------------
\* What each step puts under way

\* The task's queue gives out a message.
LEMMA Reading ==
    ASSUME TypeInv, NEW n \in Node, toTask[n] # <<>>,
           \/ Consume(n)
           \/ toTask' = [toTask EXCEPT ![n] = Append(Tail(@), ConnectionFailure)]
    PROVE  /\ \A m \in Node : Shrinks(toTask'[m], toTask[m], Answers)
           /\ \A T : Head(toTask[n]).type \in T => Carries(toTask[n], T)
           /\ Once(toTask[n], Answers) /\ Head(toTask[n]).type \in Answers
                  => ~Carries(toTask'[n], Answers)
<1> DEFINE s == toTask[n]
           r == Tail(s)
<1>1. toTask \in [Node -> Seq(TaskMessage)] /\ s \in Seq(TaskMessage) /\ s # <<>>
  BY DEF TypeInv, TypeOK
<1>2. r \in Seq(TaskMessage)
  BY <1>1, HeadTailProperties
<1>3. ConnectionFailure \in TaskMessage /\ ConnectionFailure.type \notin Answers
  BY ConstantMessages DEF ConnectionFailure, Answers
<1>4. /\ Shrinks(r, s, Answers)
      /\ \A T : Head(s).type \in T => Carries(s, T)
      /\ Once(s, Answers) /\ Head(s).type \in Answers => ~Carries(r, Answers)
  BY <1>1, TailShrinks
<1>5. /\ Shrinks(Append(r, ConnectionFailure), r, Answers)
      /\ Carries(Append(r, ConnectionFailure), Answers) => Carries(r, Answers)
  BY <1>2, <1>3, AppendShrinks
<1>6. Shrinks(Append(r, ConnectionFailure), s, Answers)
  BY <1>4, <1>5 DEF Shrinks
<1>7. /\ toTask'[n] \in {r, Append(r, ConnectionFailure)}
      /\ \A m \in Node \ {n} : toTask'[m] = toTask[m]
  BY <1>1 DEF Consume
<1> HIDE DEF r, s
<1>8. /\ Shrinks(toTask'[n], s, Answers)
      /\ Carries(toTask'[n], Answers) => Carries(r, Answers)
  BY <1>4, <1>5, <1>6, <1>7
<1>9. \A m \in Node \ {n} : Shrinks(toTask'[m], toTask[m], Answers)
  BY <1>7, SameShrinks
<1> QED
  BY <1>4, <1>8, <1>9 DEF s

\* A cancel gives nobody anything to answer.
LEMMA CancelOne ==
    ASSUME TypeInv, NEW n \in Node, Send(n, Cancel)
    PROVE  \A m \in Node : Shrinks(toWorker'[m], toWorker[m], Calls)
<1>1. toWorker[n] \in Seq(WorkerMessage) /\ Cancel \in WorkerMessage /\ Cancel.type \notin Calls
  BY ConstantMessages DEF TypeInv, TypeOK, Cancel, Calls
<1>2. Shrinks(Append(toWorker[n], Cancel), toWorker[n], Calls)
  BY <1>1, AppendShrinks
<1>3. /\ \A m \in Node \ {n} : toWorker'[m] = toWorker[m]
      /\ toWorker'[n] \in {toWorker[n], Append(toWorker[n], Cancel)}
  BY <1>1, SendOne
<1> QED
  BY <1>2, <1>3, SameShrinks

\* A step of AskPeers sends at most the request of the node it has just made.
LEMMA AskTurns ==
    ASSUME RequestInv, NEW t \in Thread, AskPeersStep(t), NEW m \in Node
    PROVE  /\ Turn(m)'
           /\ Engaged(m)' => Engaged(m)
           /\ Awaited(m)' => Awaited(m) \/ (AskRequest(t) /\ ask[t].node = m)
<1>1. TypeInv /\ Turn(m)
  BY DEF RequestInv, TurnInv
<1>2. CASE ~AskRequest(t)
  <2>1. Kept(m)
    <3>1. CASE TaskCancel /\ UNCHANGED <<toTask, jobRunning>>
      BY <1>1, <3>1, CancelAll, SameShrinks DEF Kept
    <3>2. CASE UNCHANGED <<toWorker, toTask, jobRunning>>
      BY <3>2, SameKept
    <3>3. \/ TaskCancel /\ UNCHANGED <<toTask, jobRunning>>
          \/ UNCHANGED <<toWorker, toTask, jobRunning>>
      BY <1>2 DEF AskPeersStep, AskLower, AskGiveUp, AskSkip, AskUnreachable, AskConnect,
                  AskErase, AskAbort, AskShort, AskEnough, netVars, workerVars, jobVars
    <3> QED
      BY <3>1, <3>2, <3>3
  <2> QED
    BY <1>1, <2>1, KeptTurn
<1>3. CASE AskRequest(t)
  <2> DEFINE n == ask[t].node
             msg == RequestFor(ParamToAsk)
  <2>1. /\ ask[t].pc = "request" /\ n \in Node /\ msg \in WorkerMessage
        /\ Send(n, msg) /\ UNCHANGED <<toTask, jobRunning>>
    <3>1. ParamToAsk \in Param
      BY <1>1, <1>3, HeadTailProperties DEF AskRequest, ParamToAsk, TypeInv, TypeOK
    <3>2. ask[t].pc = "request" /\ Send(n, msg) /\ UNCHANGED <<toTask, jobRunning>>
      BY <1>3 DEF AskRequest, workerVars, jobVars
    <3> QED
      BY <3>1, <3>2, ConstantMessages DEF RequestInv, MadeInv, Made
  <2>2. ~Awaited(n) /\ ~Engaged(n)
    BY <2>1 DEF RequestInv, StageInv, Fresh
  <2>3. CASE m # n
    <3>1. Kept(m)
      BY <1>1, <2>1, <2>3, SendOne, SameShrinks DEF Kept
    <3> QED
      BY <1>1, <3>1, KeptTurn
  <2>4. CASE m = n
    <3>1. toWorker[n] \in Seq(WorkerMessage) /\ msg.type = "TASK_REQUEST"
      BY <1>1, <2>1 DEF TypeInv, TypeOK, RequestFor
    <3>2. toWorker'[n] \in {toWorker[n], Append(toWorker[n], msg)}
      BY <1>1, <2>1, SendOne
    <3>3. /\ ~Carries(toWorker[n], Calls) /\ ~Carries(toTask[n], Answers) /\ n \notin jobRunning
      BY <2>2 DEF Awaited, Engaged, Carries, Calls, Answers
    <3>4. /\ Once(Append(toWorker[n], msg), Calls)
          /\ \A T : Carries(Append(toWorker[n], msg), T)
                        => Carries(toWorker[n], T) \/ msg.type \in T
      BY <2>1, <3>1, <3>3, AppendShrinks
    <3>5. CASE toWorker'[n] = toWorker[n]
      <4>1. Kept(m)
        BY <2>1, <2>4, <3>5, SameShrinks DEF Kept
      <4> QED
        BY <1>1, <4>1, KeptTurn
    <3> HIDE DEF msg, n
    <3>6. CASE toWorker'[n] = Append(toWorker[n], msg)
      <4>1. Turn(m)'
        BY <1>1, <2>1, <2>4, <3>3, <3>4, <3>6 DEF Turn
      <4>2. ~Engaged(m)'
        BY <2>1, <2>2, <2>4, <3>1, <3>4, <3>6 DEF Engaged
      <4> QED
        BY <1>3, <2>4, <4>1, <4>2 DEF n
    <3> QED
      BY <3>2, <3>5, <3>6
  <2> QED
    BY <2>3, <2>4
<1> QED
  BY <1>2, <1>3

\* A handler uses up its message; only HandleEligible has something executed.
LEMMA HandlerTurns ==
    ASSUME RequestInv, NEW n \in Node, TaskHandler(n), NEW m \in Node
    PROVE  /\ Turn(m)'
           /\ Awaited(m)' => Awaited(m)
           /\ Engaged(m)' => Engaged(m) \/ (m = n /\ HandleEligible(n))
           /\ Head(toTask[n]).type \in Answers => ~Awaited(n)'
           /\ Head(toTask[n]).type \in {"REFUSED", "TASK_RESULT"} => Engaged(n) /\ ~Engaged(n)'
           /\ Head(toTask[n]).type = "TASK_REQUEST_RESP" => Awaited(n)
<1>1. TypeInv /\ Turn(m) /\ Turn(n)
  BY DEF RequestInv, TurnInv
<1>2. toTask[n] # <<>> /\ jobRunning' = jobRunning
  BY DEF TaskHandler, HandleEligible, HandleNotEligible, HandleNotEligibleAbort,
         HandleExecuting, HandleRefused, HandleTaskResult, HandlePeerConnFailure,
         IgnorePeerConnFailure, Receives, workerVars, jobVars
<1>3. \/ Consume(n)
      \/ toTask' = [toTask EXCEPT ![n] = Append(Tail(@), ConnectionFailure)]
  BY DEF TaskHandler, HandleEligible, HandleNotEligible, HandleNotEligibleAbort,
         HandleExecuting, HandleRefused, HandleTaskResult, HandlePeerConnFailure,
         IgnorePeerConnFailure
<1>4. /\ \A k \in Node : Shrinks(toTask'[k], toTask[k], Answers)
      /\ \A T : Head(toTask[n]).type \in T => Carries(toTask[n], T)
      /\ Head(toTask[n]).type \in Answers => ~Carries(toTask'[n], Answers)
  BY <1>1, <1>2, <1>3, Reading DEF Turn
<1>5. Head(toTask[n]).type \in Answers => ~Carries(toWorker[n], Calls) /\ n \notin jobRunning
  BY <1>1, <1>4 DEF Turn
<1>6. CASE ~HandleEligible(n)
  <2>1. \A k \in Node : Shrinks(toWorker'[k], toWorker[k], Calls)
    <3>1. CASE Send(n, Cancel)
      BY <1>1, <3>1, CancelOne
    <3>2. CASE UNCHANGED toWorker
      BY <3>2, SameShrinks
    <3>3. Send(n, Cancel) \/ UNCHANGED toWorker
      BY <1>6 DEF TaskHandler, HandleNotEligible, HandleNotEligibleAbort,
                  HandleExecuting, HandleRefused, HandleTaskResult, HandlePeerConnFailure,
                  IgnorePeerConnFailure
    <3> QED
      BY <3>1, <3>2, <3>3
  <2>2. Kept(m) /\ Kept(n)
    BY <1>2, <1>4, <2>1 DEF Kept
  <2>3. Head(toTask[n]).type \in Answers => ~Carries(toWorker'[n], Calls)
    BY <1>5, <2>1 DEF Shrinks
  <2>4. Head(toTask[n]).type \in Answers => ~Awaited(n)' /\ ~Engaged(n)'
    BY <1>2, <1>4, <1>5, <2>3 DEF Awaited, Engaged, Carries, Calls, Answers
  <2> QED
    BY <1>1, <1>4, <2>2, <2>4, KeptTurn DEF Answers, Awaited, Engaged
<1>7. CASE HandleEligible(n)
  <2>1. Head(toTask[n]).type = "TASK_REQUEST_RESP" /\ Send(n, Execute)
    BY <1>7 DEF HandleEligible, Receives
  <2>2. Awaited(n) /\ ~Carries(toTask'[n], Answers)
    BY <1>4, <2>1 DEF Awaited, Answers
  <2>3. /\ ~Carries(toWorker[n], Calls) /\ n \notin jobRunning
    BY <1>5, <2>1 DEF Answers
  <2>4. /\ Turn(n)' /\ ~Awaited(n)'
    <3>1. toWorker[n] \in Seq(WorkerMessage) /\ Execute \in WorkerMessage
      BY <1>1, ConstantMessages DEF TypeInv, TypeOK
    <3>2. Execute.type = "TASK_EXECUTE"
      BY DEF Execute
    <3>3. toWorker'[n] \in {toWorker[n], Append(toWorker[n], Execute)}
      BY <1>1, <2>1, <3>1, SendOne
    <3>4. /\ Once(Append(toWorker[n], Execute), Calls)
          /\ \A T : Carries(Append(toWorker[n], Execute), T)
                        => Carries(toWorker[n], T) \/ Execute.type \in T
      BY <2>3, <3>1, AppendShrinks
    <3>5. /\ Once(toWorker'[n], Calls)
          /\ ~Carries(toWorker'[n], {"TASK_REQUEST"})
      <4>1. ~Carries(toWorker[n], {"TASK_REQUEST"})
        BY <2>3 DEF Carries, Calls
      <4> QED
        BY <1>1, <3>2, <3>3, <3>4, <4>1 DEF Turn
    <3>6. Once(toTask'[n], Answers)
      BY <1>1, <1>4 DEF Turn, Shrinks
    <3>7. ~Carries(toTask'[n], {"TASK_REQUEST_RESP"})
      BY <2>2 DEF Carries, Answers
    <3> QED
      BY <1>2, <2>2, <2>3, <3>5, <3>6, <3>7 DEF Turn, Awaited
  <2>5. CASE m # n
    <3>1. Kept(m)
      BY <1>1, <1>2, <1>4, <2>1, <2>5, SendOne, ConstantMessages, SameShrinks DEF Kept
    <3> QED
      BY <1>1, <2>1, <2>2, <2>4, <3>1, KeptTurn
  <2> QED
    BY <1>7, <2>1, <2>2, <2>4, <2>5
<1> QED
  BY <1>6, <1>7

\* A worker answers what it was called for, once, or runs the job.
LEMMA WorkerTurns ==
    ASSUME RequestInv, NEW n \in Node, WorkerStep(n) \/ JobDone(n), NEW m \in Node
    PROVE  /\ Turn(m)'
           /\ Awaited(m)' => Awaited(m)
           /\ Engaged(m)' => Engaged(m)
<1>1. TypeInv /\ Turn(m) /\ Turn(n)
  BY DEF RequestInv, TurnInv
<1>2. toWorker[n] \in Seq(WorkerMessage) /\ toTask[n] \in Seq(TaskMessage)
  BY <1>1 DEF TypeInv, TypeOK
<1>3. toWorker \in [Node -> Seq(WorkerMessage)] /\ toTask \in [Node -> Seq(TaskMessage)]
  BY <1>1 DEF TypeInv, TypeOK
\* The message of type that the worker reads is gone.
<1>4. ASSUME NEW type, WorkerReceives(n, type)
      PROVE  /\ \A k \in Node : Shrinks(toWorker'[k], toWorker[k], Calls)
             /\ Carries(toWorker[n], {type})
             /\ type \in Calls => /\ ~Carries(toWorker'[n], Calls)
                                  /\ ~Carries(toTask[n], Answers) /\ n \notin jobRunning
  <2>1. /\ toWorker[n] # <<>> /\ Head(toWorker[n]).type = type
        /\ toWorker' = [toWorker EXCEPT ![n] = Tail(@)]
    BY <1>4 DEF WorkerReceives
  <2>2. /\ Shrinks(Tail(toWorker[n]), toWorker[n], Calls)
        /\ Carries(toWorker[n], {type})
        /\ type \in Calls => Carries(toWorker[n], Calls)
        /\ type \in Calls => ~Carries(Tail(toWorker[n]), Calls)
    BY <1>1, <1>2, <2>1, TailShrinks DEF Turn
  <2>3. toWorker'[n] = Tail(toWorker[n]) /\ \A k \in Node \ {n} : toWorker'[k] = toWorker[k]
    BY <1>3, <2>1
  <2> QED
    BY <1>1, <2>2, <2>3, SameShrinks DEF Turn
\* What is sent to the task.
<1>5. ASSUME NEW msg \in TaskMessage, toTask' = [toTask EXCEPT ![n] = Append(@, msg)]
      PROVE  /\ \A k \in Node \ {n} : toTask'[k] = toTask[k]
             /\ msg.type \notin Answers => \A k \in Node : Shrinks(toTask'[k], toTask[k], Answers)
             /\ ~Carries(toTask[n], Answers) => Once(toTask'[n], Answers)
             /\ \A T : Carries(toTask'[n], T) => Carries(toTask[n], T) \/ msg.type \in T
  <2>1. /\ toTask'[n] = Append(toTask[n], msg)
        /\ \A k \in Node \ {n} : toTask'[k] = toTask[k]
    BY <1>3, <1>5
  <2>2. /\ msg.type \notin Answers => Shrinks(Append(toTask[n], msg), toTask[n], Answers)
        /\ ~Carries(toTask[n], Answers) => Once(Append(toTask[n], msg), Answers)
        /\ \A T : Carries(Append(toTask[n], msg), T) => Carries(toTask[n], T) \/ msg.type \in T
    BY <1>2, AppendShrinks
  <2>3. \A k \in Node \ {n} : Shrinks(toTask'[k], toTask[k], Answers)
    BY <2>1, SameShrinks
  <2> QED
    BY <2>1, <2>2, <2>3
<1>6. nodePeer[n] \in Worker => numTaskHandled[nodePeer[n]] \in Nat
  BY <1>1 DEF TypeInv, TypeOK
<1>7. n \in Made /\ nodePeer[n] \in Worker
  <2>1. toWorker[n] # <<>> \/ n \in jobRunning
    BY DEF WorkerStep, HandleTaskRequest, HandleTaskExecute, HandleTaskCancel, JobDone, WorkerReceives
  <2> QED
    BY <1>1, <2>1 DEF TypeInv, NodeInv
<1>8. CASE HandleTaskRequest(n)
  <2> DEFINE msg == [type |-> "TASK_REQUEST_RESP", arg |-> numTaskHandled[nodePeer[n]]]
  <2>1. /\ WorkerReceives(n, "TASK_REQUEST") /\ jobRunning' = jobRunning
        /\ toTask' = [toTask EXCEPT ![n] = Append(@, msg)]
    BY <1>8 DEF HandleTaskRequest, Reply
  <2>2. msg \in TaskMessage /\ msg.type = "TASK_REQUEST_RESP"
    BY <1>6, <1>7 DEF TaskMessage
  <2> HIDE DEF msg
  <2>3. /\ Awaited(n) /\ ~Carries(toWorker'[n], Calls)
        /\ ~Carries(toTask[n], Answers) /\ n \notin jobRunning
    BY <1>4, <2>1 DEF Awaited, Calls
  <2>4. Once(toTask'[n], Answers) /\ ~Carries(toTask'[n], {"REFUSED", "TASK_RESULT"})
    <3>1. ~Carries(toTask[n], {"REFUSED", "TASK_RESULT"})
      BY <2>3 DEF Carries, Answers
    <3> QED
      BY <1>5, <2>1, <2>2, <2>3, <3>1
  <2>5. CASE m = n
    <3>1. Turn(n)'
      <4>1. Once(toWorker'[n], Calls)
        BY <1>1, <1>4, <2>1 DEF Turn, Shrinks
      <4> QED
        BY <2>1, <2>3, <2>4, <4>1 DEF Turn
    <3>2. ~Engaged(n)'
      BY <2>1, <2>3, <2>4 DEF Engaged, Carries, Calls
    <3> QED
      BY <2>3, <2>5, <3>1, <3>2
  <2>6. CASE m # n
    <3>1. Kept(m)
      BY <1>4, <1>5, <2>1, <2>2, <2>6, SameShrinks DEF Kept
    <3> QED
      BY <1>1, <3>1, KeptTurn
  <2> QED
    BY <2>5, <2>6
<1>9. CASE HandleTaskExecute(n)
  <2>1. /\ WorkerReceives(n, "TASK_EXECUTE")
        /\ \/ /\ jobRunning' = jobRunning \union {n}
              /\ toTask' = [toTask EXCEPT ![n] = Append(@, [type |-> "EXECUTING", arg |-> 0])]
           \/ /\ jobRunning' = jobRunning
              /\ toTask' = [toTask EXCEPT ![n] = Append(@, [type |-> "REFUSED", arg |-> 0])]
    BY <1>9 DEF HandleTaskExecute, Reply
  <2>2. /\ [type |-> "EXECUTING", arg |-> 0] \in TaskMessage
        /\ [type |-> "REFUSED", arg |-> 0] \in TaskMessage
    BY DEF TaskMessage
  <2>3. /\ Engaged(n) /\ ~Carries(toWorker'[n], Calls)
        /\ ~Carries(toTask[n], Answers) /\ n \notin jobRunning
    BY <1>4, <2>1 DEF Engaged, Calls
  <2>4. ~Carries(toTask[n], {"TASK_REQUEST_RESP"})
    BY <2>3 DEF Carries, Answers
  <2>5. Once(toWorker'[n], Calls) /\ ~Carries(toWorker'[n], {"TASK_REQUEST"})
    <3>1. Once(toWorker'[n], Calls)
      BY <1>1, <1>4, <2>1 DEF Turn, Shrinks
    <3> QED
      BY <2>3, <3>1 DEF Carries, Calls
  <2>6. CASE m # n
    <3>1. Kept(m)
      BY <1>4, <1>5, <2>1, <2>2, <2>6, SameShrinks DEF Kept
    <3> QED
      BY <1>1, <3>1, KeptTurn
  <2>7. CASE m = n
    <3>1. CASE toTask' = [toTask EXCEPT ![n] = Append(@, [type |-> "EXECUTING", arg |-> 0])]
      <4>1. /\ Shrinks(toTask'[n], toTask[n], Answers)
            /\ ~Carries(toTask'[n], {"TASK_REQUEST_RESP"})
        BY <1>5, <2>2, <2>4, <3>1 DEF Answers
      <4>2. Once(toTask'[n], Answers) /\ ~Carries(toTask'[n], Answers)
        BY <1>1, <2>3, <4>1 DEF Turn, Shrinks
      <4> QED
        BY <2>3, <2>5, <2>7, <4>1, <4>2 DEF Turn, Awaited
    <3>2. CASE /\ jobRunning' = jobRunning
               /\ toTask' = [toTask EXCEPT ![n] = Append(@, [type |-> "REFUSED", arg |-> 0])]
      <4>1. Once(toTask'[n], Answers) /\ ~Carries(toTask'[n], {"TASK_REQUEST_RESP"})
        BY <1>5, <2>2, <2>3, <2>4, <3>2
      <4> QED
        BY <2>3, <2>5, <2>7, <3>2, <4>1 DEF Turn, Awaited
    <3> QED
      BY <2>1, <3>1, <3>2
  <2> QED
    BY <2>6, <2>7
<1>10. CASE HandleTaskCancel(n)
  <2>1. WorkerReceives(n, "TASK_CANCEL") /\ UNCHANGED <<toTask, jobRunning>>
    BY <1>10 DEF HandleTaskCancel
  <2>2. Kept(m)
    BY <1>4, <2>1, SameShrinks DEF Kept
  <2> QED
    BY <1>1, <2>2, KeptTurn
<1>11. CASE JobDone(n)
  <2> DEFINE msg == [type |-> "TASK_RESULT", arg |-> jobParam[n]]
  <2>1. /\ n \in jobRunning /\ jobRunning' = jobRunning \ {n} /\ toWorker' = toWorker
        /\ \/ toTask' = [toTask EXCEPT ![n] = Append(@, msg)]
           \/ toTask' = toTask
    BY <1>11 DEF JobDone, Reply
  <2>2. msg \in TaskMessage /\ msg.type = "TASK_RESULT"
    BY <1>1, <2>1 DEF TaskMessage, TypeInv, NodeInv, Employed
  <2> HIDE DEF msg
  <2>3. Engaged(n) /\ ~Carries(toWorker[n], Calls) /\ ~Carries(toTask[n], Answers)
    BY <1>1, <2>1 DEF Engaged, Turn
  <2>4. CASE toTask' = toTask
    <3>1. Kept(m)
      BY <2>1, <2>4, SameShrinks DEF Kept
    <3> QED
      BY <1>1, <3>1, KeptTurn
  <2>5. CASE toTask' = [toTask EXCEPT ![n] = Append(@, msg)]
    <3>1. CASE m = n
      <4>1. ~Carries(toTask[n], {"TASK_REQUEST_RESP"}) /\ ~Carries(toWorker[n], {"TASK_REQUEST"})
        BY <2>3 DEF Carries, Answers, Calls
      <4>2. Once(toTask'[n], Answers) /\ ~Carries(toTask'[n], {"TASK_REQUEST_RESP"})
        BY <1>5, <2>2, <2>3, <2>5, <4>1
      <4> QED
        BY <1>1, <2>1, <2>3, <3>1, <4>1, <4>2 DEF Turn, Awaited
    <3>2. CASE m # n
      <4>1. Kept(m)
        BY <1>5, <2>1, <2>2, <2>5, <3>2, SameShrinks DEF Kept
      <4> QED
        BY <1>1, <4>1, KeptTurn
    <3> QED
      BY <3>1, <3>2
  <2> QED
    BY <2>1, <2>4, <2>5
<1> QED
  BY <1>8, <1>9, <1>10, <1>11 DEF WorkerStep

\* A death or a broken connection only loses things.
LEMMA BreakTurns ==
    ASSUME RequestInv, NEW m \in Node,
           \/ \E w \in Worker : WorkerDown(w) \/ WorkerUp(w)
           \/ \E n \in Node : RecvError(n) \/ RecvEof(n)
    PROVE  /\ Turn(m)'
           /\ Awaited(m)' => Awaited(m)
           /\ Engaged(m)' => Engaged(m)
<1>1. TypeInv /\ Turn(m)
  BY DEF RequestInv, TurnInv
<1>2. CASE \E w \in Worker : WorkerDown(w)
  <2>1. toWorker'[m] \in {<<>>, toWorker[m]} /\ toTask' = toTask /\ jobRunning' \subseteq jobRunning
    BY <1>2 DEF WorkerDown
  <2>2. Kept(m)
    BY <2>1, SameShrinks, EmptyShrinks DEF Kept
  <2> QED
    BY <1>1, <2>2, KeptTurn
<1>3. CASE \/ \E w \in Worker : WorkerUp(w)
           \/ \E n \in Node : RecvEof(n)
  <2>1. UNCHANGED <<toWorker, toTask, jobRunning>>
    BY <1>3 DEF WorkerUp, RecvEof, netVars, workerVars, jobVars
  <2> QED
    BY <1>1, <2>1, SameKept, KeptTurn
<1>4. ASSUME NEW n \in Node, RecvError(n)
      PROVE  Kept(m)
  <2>1. PICK k \in 0 .. Len(toTask[n]) :
            toTask' = [toTask EXCEPT ![n] = Append(SubSeq(@, 1, k), ConnectionFailure)]
    BY <1>4 DEF RecvError, HandleConnectionBroken
  <2> DEFINE r == SubSeq(toTask[n], 1, k)
  <2>2. toTask \in [Node -> Seq(TaskMessage)]
    BY <1>1 DEF TypeInv, TypeOK
  <2>3. r \in Seq(TaskMessage) /\ Shrinks(r, toTask[n], Answers)
    BY <2>2, SubSeqProperties, LenProperties, ElementOfSeq, PrefixShrinks
  <2>4. ConnectionFailure \in TaskMessage /\ ConnectionFailure.type \notin Answers
    BY ConstantMessages DEF ConnectionFailure, Answers
  <2>5. toTask'[n] = Append(r, ConnectionFailure) /\ \A j \in Node \ {n} : toTask'[j] = toTask[j]
    BY <2>1, <2>2
  <2> HIDE DEF r
  <2>6. Shrinks(Append(r, ConnectionFailure), toTask[n], Answers)
    BY <2>3, <2>4, AppendShrinks DEF Shrinks
  <2>7. Shrinks(toTask'[m], toTask[m], Answers)
    BY <2>5, <2>6, SameShrinks
  <2>8. UNCHANGED <<toWorker, jobRunning>>
    BY <1>4 DEF RecvError, workerVars, jobVars
  <2> QED
    BY <2>7, <2>8, SameShrinks DEF Kept
<1> QED
  BY <1>1, <1>2, <1>3, <1>4, KeptTurn

-----------------------------------------------------------------------------
\* Every step keeps RequestInv.

\* What a step of AskPeers does to the thread's node.
LEMMA AskFrame ==
    ASSUME TypeInv, NEW t \in Thread, AskPeersStep(t), NEW u \in Thread
    PROVE  /\ ask'[u].pc = "request" => \/ ask'[u] = ask[u] /\ ~(u = t /\ AskRequest(t))
                                        \/ u = t /\ AskConnect(t) /\ ask'[t].node = numNodes + 1
           /\ ask'[u].pc = "erase" => \/ ask'[u] = ask[u]
                                      \/ /\ u = t /\ AskRequest(t)
                                         /\ ask[u].pc = "request" /\ ask'[u].node = ask[u].node
<1>1. ask \in [Thread -> Asking]
  BY DEF TypeInv, TypeOK
<1>2. CASE u # t
  BY <1>2, AskMoves
<1> SUFFICES ASSUME u = t
             PROVE  /\ ask'[t].pc = "request" =>
                           \/ ask'[t] = ask[t] /\ ~AskRequest(t)
                           \/ AskConnect(t) /\ ask'[t].node = numNodes + 1
                    /\ ask'[t].pc = "erase" =>
                           \/ ask'[t] = ask[t]
                           \/ /\ AskRequest(t)
                              /\ ask[t].pc = "request" /\ ask'[t].node = ask[t].node
  BY <1>2
<1>3. CASE \/ AskLower(t) \/ AskGiveUp(t) \/ AskSkip(t) \/ AskUnreachable(t) \/ AskErase(t)
           \/ AskShort(t) \/ AskEnough(t)
  BY <1>1, <1>3 DEF AskLower, AskGiveUp, AskSkip, AskUnreachable, AskErase, NextPeer, AskShort,
                    AskEnough, AskEnd, Left, Asking
<1>4. CASE AskConnect(t)
  BY <1>1, <1>4 DEF AskConnect, Asking
<1>5. CASE AskRequest(t)
  BY <1>1, <1>5 DEF AskRequest, NextPeer, Asking
<1>6. CASE AskAbort(t)
  <2>1. ask' = ask
    BY <1>6 DEF AskAbort
  <2>2. ~(ask[t].pc = "request" /\ AskRequest(t))
    BY <1>6 DEF AskAbort, AskRequest
  <2> QED
    BY <2>1, <2>2
<1> QED
  BY <1>3, <1>4, <1>5, <1>6 DEF AskPeersStep

\* ... and a step of the task thread outside of it.
LEMMA TaskFrame ==
    ASSUME TypeInv, NEW u \in Thread,
           TaskCheck \/ TaskWait \/ \E n \in Node : TaskHandler(n)
    PROVE  ask'[u].pc \in {"request", "erase"} => ask'[u] = ask[u]
<1>1. ask \in [Thread -> Asking] /\ "task" \in Thread
  BY DEF TypeInv, TypeOK, Thread
<1>2. CASE TaskCheck \/ TaskWait
  BY <1>1, <1>2 DEF TaskCheck, TaskWait, Asking
<1>3. CASE \E n \in Node : TaskHandler(n)
  <2>1. BackToLoop \/ AskPeers \/ ask' = ask
    BY <1>3 DEF TaskHandler, HandleEligible, HandleNotEligible, HandleNotEligibleAbort,
                HandleExecuting, HandleRefused, HandleTaskResult, HandlePeerConnFailure,
                IgnorePeerConnFailure
  <2> QED
    BY <1>1, <2>1 DEF BackToLoop, AskPeers, Entered, Asking
<1> QED
  BY <1>2, <1>3

\* A step that makes no node and lists none keeps the stages.
LEMMA NothingMade ==
    ASSUME RequestInv, TypeInv',
           Made' = Made, numNodes' = numNodes, m_peerResultAvailMap' = m_peerResultAvailMap,
           ToSet(m_taskNodes') \subseteq ToSet(m_taskNodes), IsInjective(m_taskNodes'),
           \A u \in Thread : ask'[u].pc \in {"request", "erase"} => ask'[u] = ask[u],
           \A m \in Node : Turn(m)' /\ (Awaited(m)' => Awaited(m)) /\ (Engaged(m)' => Engaged(m))
    PROVE  (MadeInv /\ TurnInv /\ StageInv /\ ListedOnce)'
<1>1. \A m \in Node : Fresh(m)' => Fresh(m)
  BY DEF Fresh
<1>2. StageInv'
  BY <1>1 DEF RequestInv, StageInv
<1>3. MadeInv'
  <2>1. \A t, u \in Thread : ask'[t].pc = "request" /\ ask'[u].pc = "request"
                             /\ ask'[t].node = ask'[u].node => t = u
    <3> SUFFICES ASSUME NEW t \in Thread, NEW u \in Thread,
                        ask'[t].pc = "request", ask'[u].pc = "request",
                        ask'[t].node = ask'[u].node
                 PROVE  t = u
      OBVIOUS
    <3>1. ask'[t] = ask[t] /\ ask'[u] = ask[u]
      OBVIOUS
    <3> QED
      BY <3>1 DEF RequestInv, MadeInv
  <2>2. \A t \in Thread : ask'[t].pc \in {"request", "erase"} => ask'[t].node \in Made'
    BY DEF RequestInv, MadeInv
  <2> QED
    BY <2>1, <2>2 DEF RequestInv, MadeInv
<1> QED
  BY <1>2, <1>3 DEF TurnInv, ListedOnce

\* Every step of AskPeers keeps the requests in order.
LEMMA AskKeepsRequests ==
    ASSUME RequestInv, TypeInv', NEW t \in Thread, AskPeersStep(t)
    PROVE  (MadeInv /\ TurnInv /\ StageInv /\ ListedOnce /\ UpInv)'
<1>1. TypeInv /\ MadeInv /\ StageInv /\ UpInv /\ IsInjective(m_taskNodes)
  BY DEF RequestInv, ListedOnce
<1>2. \A m \in Node : /\ Turn(m)' /\ (Engaged(m)' => Engaged(m))
                      /\ Awaited(m)' => Awaited(m) \/ (AskRequest(t) /\ ask[t].node = m)
  BY AskTurns
<1>3. /\ conn \in [Node -> ConnState] /\ nodePeer \in [Node -> Worker \union {None}]
      /\ ask \in [Thread -> Asking] /\ numNodes \in 0 .. MaxNodes
  BY <1>1 DEF TypeInv, TypeOK
<1>4. CASE ~AskConnect(t) /\ ~AskRequest(t)
  <2>1. /\ numNodes' = numNodes /\ nodePeer' = nodePeer
        /\ m_peerResultAvailMap' = m_peerResultAvailMap
        /\ up' = up /\ jobRunning' = jobRunning
        /\ m_taskNodes' \in {m_taskNodes, <<>>}
        /\ TaskCancel \/ UNCHANGED <<conn, toWorker>>
    BY <1>4 DEF AskPeersStep, AskLower, AskGiveUp, AskSkip, AskUnreachable, AskErase, AskAbort,
                AskShort, AskEnough, TaskCancel, nodeVars, nodeLists, resultVars, netVars,
                workerVars, jobVars
  <2>2. ToSet(m_taskNodes') \subseteq ToSet(m_taskNodes) /\ IsInjective(m_taskNodes')
    BY <1>1, <2>1 DEF ToSet, IsInjective
  <2>3. Made' = Made
    BY <1>1, <2>1, TaskCancelTyped DEF Made
  <2>4. UpInv'
    <3>1. CASE TaskCancel
      BY <1>1, <2>1, <2>3, <3>1, CancelAll DEF UpInv, Reachable, Made
    <3>2. CASE UNCHANGED <<conn, toWorker>>
      BY <1>1, <2>1, <2>3, <3>2 DEF UpInv
    <3> QED
      BY <2>1, <3>1, <3>2
  <2>5. \A u \in Thread : ask'[u].pc \in {"request", "erase"} => ask'[u] = ask[u]
    BY <1>1, <1>4, AskFrame
  <2> QED
    BY <1>2, <1>4, <2>1, <2>2, <2>3, <2>4, <2>5, NothingMade
<1>5. CASE AskRequest(t)
  <2> DEFINE n == ask[t].node
             msg == RequestFor(ParamToAsk)
  <2>1. /\ numNodes' = numNodes /\ nodePeer' = nodePeer
        /\ m_peerResultAvailMap' = m_peerResultAvailMap
        /\ up' = up /\ jobRunning' = jobRunning /\ m_taskNodes' = m_taskNodes
        /\ Send(n, msg) /\ ask[t].pc = "request"
    BY <1>5 DEF AskRequest, nodeVars, nodeLists, resultVars, workerVars, jobVars
  <2>2. msg \in WorkerMessage /\ n \in Made /\ n \in Node
    <3>1. ParamToAsk \in Param
      BY <1>1, <1>5, HeadTailProperties DEF AskRequest, ParamToAsk, TypeInv, TypeOK
    <3> QED
      BY <1>1, <2>1, <3>1, ConstantMessages DEF MadeInv, Made
  <2>3. ~AskConnect(t)
    BY <2>1 DEF AskConnect, Scanning
  <2>4. Made' = Made
    BY <1>1, <2>1, <2>2, SendTyped
  <2>5. \A u \in Thread : /\ ask'[u].pc = "request" => ask'[u] = ask[u] /\ u # t
                          /\ ask'[u].pc = "erase" =>
                                 /\ ask[u].pc \in {"request", "erase"}
                                 /\ ask'[u].node = ask[u].node
    BY <1>1, <1>5, <2>3, AskFrame
  <2>6. MadeInv'
    <3>1. \A u, v \in Thread : ask'[u].pc = "request" /\ ask'[v].pc = "request"
                               /\ ask'[u].node = ask'[v].node => u = v
      <4> SUFFICES ASSUME NEW u \in Thread, NEW v \in Thread,
                          ask'[u].pc = "request", ask'[v].pc = "request",
                          ask'[u].node = ask'[v].node
                   PROVE  u = v
        OBVIOUS
      <4>1. ask'[u] = ask[u] /\ ask'[v] = ask[v]
        BY <2>5
      <4> QED
        BY <1>1, <4>1 DEF MadeInv
    <3>2. \A u \in Thread : ask'[u].pc \in {"request", "erase"} => ask'[u].node \in Made'
      BY <1>1, <2>4, <2>5 DEF MadeInv
    <3> QED
      BY <1>1, <2>1, <2>4, <3>1, <3>2 DEF MadeInv
  <2>7. \A m \in Node : Fresh(m)' => Fresh(m) /\ m # n
    BY <1>1, <2>1, <2>5 DEF Fresh, MadeInv
  <2>8. /\ ~Engaged(n) /\ n \notin m_peerResultAvailMap /\ n \notin ToSet(m_taskNodes)
    BY <1>1, <2>1, <2>2 DEF StageInv, Fresh
  <2>9. StageInv'
    BY <1>1, <1>2, <2>1, <2>7, <2>8 DEF StageInv
  <2>10. UpInv'
    <3>1. /\ \A m \in Node \ {n} : toWorker'[m] = toWorker[m] /\ conn'[m] = conn[m]
          /\ ~Reachable(n) => toWorker'[n] = toWorker[n]
          /\ conn[n] # "down" => conn'[n] = conn[n]
          /\ conn[n] = "down" => conn'[n] = IF nodePeer[n] \in up THEN "up" ELSE "dead"
      BY <1>1, <2>1, <2>2, SendOne
    <3> QED
      BY <1>1, <2>1, <2>2, <2>4, <3>1 DEF UpInv, Reachable, Made
  <2> QED
    BY <1>1, <1>2, <2>1, <2>6, <2>9, <2>10 DEF TurnInv, ListedOnce
<1>6. CASE AskConnect(t)
  <2> DEFINE n == numNodes + 1
  <2>1. /\ numNodes' = n /\ nodePeer' = [nodePeer EXCEPT ![n] = Peer(t)] /\ Peer(t) \in up
        /\ conn' = [conn EXCEPT ![n] = "up"]
        /\ m_peerResultAvailMap' = m_peerResultAvailMap /\ m_taskNodes' = m_taskNodes
        /\ UNCHANGED <<up, jobRunning, toWorker, toTask>>
        /\ numNodes < MaxNodes
    BY <1>6 DEF AskConnect, resultVars, workerVars, jobVars
  <2>2. n \in Node /\ n \notin Made
    BY <1>1, <1>3, <2>1, TaskConstants DEF MadeInv, Node
  <2>3. Made' = Made \union {n}
    BY <1>3, <2>1, <2>2 DEF Made
  <2>4. ~AskRequest(t)
    BY <1>6 DEF AskConnect, AskRequest, Scanning
  <2>5. \A u \in Thread : /\ ask'[u].pc = "request" => ask'[u] = ask[u] \/ (u = t /\ ask'[t].node = n)
                          /\ ask'[u].pc = "erase" => ask'[u] = ask[u]
    BY <1>1, <2>4, AskFrame
  <2>6. Made' = 1 .. numNodes'
    BY <1>1, <1>3, <2>1, <2>3 DEF MadeInv
  <2>7. MadeInv'
    <3>1. \A u \in Thread : ask'[u].pc \in {"request", "erase"} => ask'[u].node \in Made'
      BY <1>1, <2>3, <2>5 DEF MadeInv
    <3>2. \A u \in Thread \ {t} : ask'[u].pc = "request" => ask'[u].node # n
      BY <1>1, <2>2, <2>5 DEF MadeInv
    <3>3. \A u, v \in Thread : ask'[u].pc = "request" /\ ask'[v].pc = "request"
                               /\ ask'[u].node = ask'[v].node => u = v
      <4>1. \A u \in Thread \ {t} : ask'[u].pc = "request" => ask'[u] = ask[u]
        BY <2>5
      <4>2. ask'[t].pc = "request" => ask'[t].node = n \/ ask'[t] = ask[t]
        BY <2>5
      <4>3. \A u, v \in Thread \ {t} : ask'[u].pc = "request" /\ ask'[v].pc = "request"
                                         /\ ask'[u].node = ask'[v].node => u = v
        <5> SUFFICES ASSUME NEW u \in Thread \ {t}, NEW v \in Thread \ {t},
                            ask'[u].pc = "request", ask'[v].pc = "request",
                            ask'[u].node = ask'[v].node
                     PROVE  u = v
          OBVIOUS
        <5>1. ask'[u] = ask[u] /\ ask'[v] = ask[v]
          BY <4>1
        <5> QED
          BY <1>1, <5>1 DEF MadeInv
      <4>4. \A u \in Thread \ {t} : ask'[u].pc = "request" /\ ask'[t].pc = "request"
                                        => ask'[u].node # ask'[t].node
        <5> SUFFICES ASSUME NEW u \in Thread \ {t},
                            ask'[u].pc = "request", ask'[t].pc = "request"
                     PROVE  ask'[u].node # ask'[t].node
          OBVIOUS
        <5>1. ask'[u] = ask[u]
          BY <4>1
        <5>2. CASE ask'[t] = ask[t]
          BY <1>1, <5>1, <5>2 DEF MadeInv
        <5> QED
          BY <3>2, <4>2, <5>2
      <4> QED
        BY <4>3, <4>4
    <3> QED
      BY <1>1, <2>1, <2>3, <2>6, <3>1, <3>3 DEF MadeInv
  <2>8. ~Awaited(n) /\ ~Engaged(n) /\ n \notin m_peerResultAvailMap /\ n \notin ToSet(m_taskNodes)
    <3>1. toWorker[n] = <<>> /\ toTask[n] = <<>> /\ n \notin jobRunning
      BY <1>1, <2>2 DEF TypeInv, NodeInv
    <3>2. m_taskNodes \in Seq(Made)
      BY <1>1 DEF TypeInv, NodeInv
    <3>3. ToSet(m_taskNodes) \subseteq Made
      BY <3>2, ElementOfSeq, LenProperties DEF ToSet
    <3> QED
      BY <1>1, <2>2, <3>1, <3>3, EmptyShrinks DEF Awaited, Engaged, MadeInv
  <2>9. \A m \in Node : Fresh(m)' => Fresh(m) \/ m = n
    BY <2>5 DEF Fresh
  <2>10. StageInv'
    BY <1>1, <1>2, <2>1, <2>4, <2>8, <2>9 DEF StageInv
  <2>11. UpInv'
    <3>1. nodePeer'[n] = Peer(t) /\ \A m \in Made : nodePeer'[m] = nodePeer[m] /\ conn'[m] = conn[m]
      BY <1>3, <2>1, <2>2 DEF Made
    <3> QED
      BY <1>1, <2>1, <2>3, <3>1 DEF UpInv
  <2> QED
    BY <1>1, <1>2, <2>1, <2>7, <2>10, <2>11 DEF TurnInv, ListedOnce
<1> QED
  BY <1>4, <1>5, <1>6

\* What the handlers do to the lists of nodes.
LEMMA HandlerLists ==
    ASSUME RequestInv, NEW n \in Node, TaskHandler(n)
    PROVE  /\ HandleEligible(n) =>
                  /\ Awaited(n) /\ ~Awaited(n)'
                  /\ ToSet(m_taskNodes') = ToSet(m_taskNodes) \union {n}
                  /\ IsInjective(m_taskNodes')
           /\ ~HandleEligible(n) => /\ ToSet(m_taskNodes') \subseteq ToSet(m_taskNodes)
                                    /\ IsInjective(m_taskNodes')
           /\ HandleTaskResult(n) => /\ m_peerResultAvailMap' = m_peerResultAvailMap \union {n}
                                     /\ Engaged(n) /\ ~Awaited(n)' /\ ~Engaged(n)'
           /\ ~HandleTaskResult(n) => m_peerResultAvailMap' = m_peerResultAvailMap
           /\ HandlePeerConnFailure(n) => n \notin ToSet(m_taskNodes')
<1>1. TypeInv /\ IsInjective(m_taskNodes) /\ StageInv /\ m_taskNodes \in Seq(Node)
  BY DEF RequestInv, ListedOnce, TypeInv, TypeOK
<1>2. ASSUME HandleEligible(n)
      PROVE  /\ Awaited(n) /\ ~Awaited(n)'
             /\ ToSet(m_taskNodes') = ToSet(m_taskNodes) \union {n}
             /\ IsInjective(m_taskNodes')
  <2>1. Head(toTask[n]).type = "TASK_REQUEST_RESP" /\ m_taskNodes' = Append(m_taskNodes, n)
    BY <1>2 DEF HandleEligible, Receives
  <2>2. Awaited(n) /\ ~Awaited(n)'
    BY <2>1, HandlerTurns DEF Answers
  <2>3. n \notin ToSet(m_taskNodes)
    BY <1>1, <2>2 DEF StageInv
  <2> QED
    BY <1>1, <2>1, <2>2, <2>3, AppendOnce
<1>3. ASSUME HandleTaskResult(n)
      PROVE  /\ m_peerResultAvailMap' = m_peerResultAvailMap \union {n}
             /\ Engaged(n) /\ ~Awaited(n)' /\ ~Engaged(n)'
  <2>1. /\ Head(toTask[n]).type = "TASK_RESULT"
        /\ m_peerResultAvailMap' = m_peerResultAvailMap \union {n}
    BY <1>3 DEF HandleTaskResult, Receives
  <2> QED
    BY <2>1, HandlerTurns DEF Answers
<1>4. ASSUME ~HandleEligible(n)
      PROVE  ToSet(m_taskNodes') \subseteq ToSet(m_taskNodes) /\ IsInjective(m_taskNodes')
  <2>1. m_taskNodes' \in {m_taskNodes, RemovePeerFrom(m_taskNodes, n), RemoveFirst(m_taskNodes, n)}
    BY <1>4 DEF TaskHandler, HandleNotEligible, HandleNotEligibleAbort,
                HandleExecuting, HandleRefused, HandleTaskResult, HandlePeerConnFailure,
                IgnorePeerConnFailure, nodeLists
  <2>2. /\ ToSet(RemovePeerFrom(m_taskNodes, n)) \subseteq ToSet(m_taskNodes)
        /\ IsInjective(RemovePeerFrom(m_taskNodes, n))
    BY <1>1, RemovePeerFacts
  <2>3. /\ ToSet(RemoveFirst(m_taskNodes, n)) \subseteq ToSet(m_taskNodes)
        /\ IsInjective(RemoveFirst(m_taskNodes, n))
    BY <1>1, RemoveFirstFacts
  <2> QED
    BY <1>1, <2>1, <2>2, <2>3
<1>5. ~HandleTaskResult(n) => m_peerResultAvailMap' = m_peerResultAvailMap
  BY DEF TaskHandler, HandleEligible, HandleNotEligible, HandleNotEligibleAbort,
         HandleExecuting, HandleRefused, HandlePeerConnFailure, IgnorePeerConnFailure, resultVars
<1>6. ASSUME HandlePeerConnFailure(n)
      PROVE  n \notin ToSet(m_taskNodes')
  <2>1. m_taskNodes' = RemoveFirst(m_taskNodes, n)
    BY <1>6 DEF HandlePeerConnFailure
  <2> QED
    BY <1>1, <2>1, RemoveFirstFacts
<1> QED
  BY <1>2, <1>3, <1>4, <1>5, <1>6

\* What they do to the connections: a node that is given a message is connected
\* again or broken, one that brought a result is closed.
LEMMA HandlerConnects ==
    ASSUME RequestInv, NEW n \in Node, TaskHandler(n)
    PROVE  /\ Made' = Made /\ numNodes' = numNodes /\ nodePeer' = nodePeer /\ up' = up
           /\ n \in Made
           /\ \A m \in Node \ {n} : toWorker'[m] = toWorker[m] /\ conn'[m] = conn[m]
           /\ ~Reachable(n) => toWorker'[n] = toWorker[n]
           /\ conn'[n] = "up" => Reachable(n)
           /\ conn'[n] = "down" => conn[n] = "down" \/ HandleTaskResult(n)
           /\ HandleEligible(n) => conn'[n] # "down"
<1>1. TypeInv /\ toTask[n] # <<>> /\ nodePeer' = nodePeer /\ numNodes' = numNodes /\ up' = up
  BY DEF RequestInv, TaskHandler, HandleEligible, HandleNotEligible, HandleNotEligibleAbort,
         HandleExecuting, HandleRefused, HandleTaskResult, HandlePeerConnFailure,
         IgnorePeerConnFailure, Receives, nodeVars, workerVars
<1>2. n \in Made /\ conn \in [Node -> ConnState]
  BY <1>1 DEF TypeInv, TypeOK, NodeInv
<1>3. ASSUME NEW msg \in {Execute, Cancel}, Send(n, msg)
      PROVE  /\ Made' = Made
             /\ \A m \in Node \ {n} : toWorker'[m] = toWorker[m] /\ conn'[m] = conn[m]
             /\ ~Reachable(n) => toWorker'[n] = toWorker[n]
             /\ conn'[n] = "up" => Reachable(n)
             /\ conn'[n] # "down"
  <2>1. msg \in WorkerMessage
    BY ConstantMessages
  <2> QED
    BY <1>1, <1>2, <1>3, <2>1, SendOne, SendTyped DEF Reachable
<1>4. CASE HandleEligible(n) \/ HandleNotEligible(n) \/ HandleNotEligibleAbort(n)
           \/ HandlePeerConnFailure(n)
  <2>1. \E msg \in {Execute, Cancel} : Send(n, msg)
    BY <1>4 DEF HandleEligible, HandleNotEligible, HandleNotEligibleAbort, HandlePeerConnFailure
  <2> QED
    BY <1>1, <1>2, <1>3, <2>1
<1>5. CASE HandleExecuting(n) \/ HandleRefused(n) \/ IgnorePeerConnFailure(n)
  <2>1. UNCHANGED <<conn, toWorker>> /\ ~HandleEligible(n)
    BY <1>5 DEF HandleExecuting, HandleRefused, IgnorePeerConnFailure, HandleEligible, Receives
  <2> QED
    BY <1>1, <1>2, <2>1 DEF Made, Reachable
<1>6. CASE HandleTaskResult(n)
  <2>1. /\ conn' = [conn EXCEPT ![n] = "down"] /\ toWorker' = toWorker
        /\ ~HandleEligible(n)
    BY <1>6 DEF HandleTaskResult, HandleEligible, Receives
  <2>2. conn'[n] = "down" /\ \A m \in Node \ {n} : conn'[m] = conn[m]
    BY <1>2, <2>1
  <2>3. Made' = Made
    BY <1>2, <2>2 DEF Made
  <2> QED
    BY <1>1, <1>2, <1>6, <2>1, <2>2, <2>3
<1> QED
  BY <1>4, <1>5, <1>6 DEF TaskHandler

\* Every handler of the task thread keeps the requests in order.
LEMMA HandlerKeepsRequests ==
    ASSUME RequestInv, TypeInv', NEW n \in Node, TaskHandler(n)
    PROVE  (MadeInv /\ TurnInv /\ StageInv /\ ListedOnce /\ UpInv)'
<1>1. TypeInv /\ MadeInv /\ StageInv /\ UpInv
  BY DEF RequestInv
<1>2. \A m \in Node : /\ Turn(m)' /\ (Awaited(m)' => Awaited(m))
                      /\ Engaged(m)' => Engaged(m) \/ (m = n /\ HandleEligible(n))
  BY HandlerTurns
<1>3. /\ Made' = Made /\ numNodes' = numNodes /\ nodePeer' = nodePeer /\ up' = up /\ n \in Made
      /\ \A m \in Node \ {n} : toWorker'[m] = toWorker[m] /\ conn'[m] = conn[m]
      /\ ~Reachable(n) => toWorker'[n] = toWorker[n]
      /\ conn'[n] = "up" => Reachable(n)
  BY HandlerConnects
<1>4. \A u \in Thread : ask'[u].pc \in {"request", "erase"} => ask'[u] = ask[u]
  BY <1>1, TaskFrame
<1>5. \A m \in Node : Fresh(m)' => Fresh(m)
  BY <1>4 DEF Fresh
<1>6. UpInv'
  <2>1. jobRunning' = jobRunning
    BY DEF TaskHandler, HandleEligible, HandleNotEligible, HandleNotEligibleAbort,
           HandleExecuting, HandleRefused, HandleTaskResult, HandlePeerConnFailure,
           IgnorePeerConnFailure, workerVars, jobVars
  <2> QED
    BY <1>1, <1>3, <2>1 DEF UpInv, Reachable, Made
<1>7. CASE HandleEligible(n)
  <2>1. /\ Awaited(n) /\ ~Awaited(n)' /\ IsInjective(m_taskNodes')
        /\ ToSet(m_taskNodes') = ToSet(m_taskNodes) \union {n}
    BY <1>7, HandlerLists
  <2>2. m_peerResultAvailMap' = m_peerResultAvailMap
    BY <1>7 DEF HandleEligible, resultVars
  <2>3. ~Fresh(n) /\ n \notin m_peerResultAvailMap
    BY <1>1, <2>1 DEF StageInv
  <2>4. StageInv'
    BY <1>1, <1>2, <1>5, <2>1, <2>2, <2>3 DEF StageInv
  <2>5. MadeInv'
    BY <1>1, <1>3, <1>4, <2>2 DEF MadeInv
  <2> QED
    BY <1>2, <1>6, <2>1, <2>4, <2>5 DEF TurnInv, ListedOnce
<1>8. CASE HandleTaskResult(n)
  <2>1. ~HandleEligible(n)
    BY <1>8 DEF HandleTaskResult, HandleEligible, Receives
  <2>2. /\ m_peerResultAvailMap' = m_peerResultAvailMap \union {n}
        /\ Engaged(n) /\ ~Awaited(n)' /\ ~Engaged(n)'
        /\ ToSet(m_taskNodes') \subseteq ToSet(m_taskNodes) /\ IsInjective(m_taskNodes')
    BY <1>8, <2>1, HandlerLists
  <2>3. ~Fresh(n)
    BY <1>1, <2>2 DEF StageInv
  <2>4. StageInv'
    BY <1>1, <1>2, <1>5, <2>1, <2>2, <2>3 DEF StageInv
  <2>5. MadeInv'
    BY <1>1, <1>3, <1>4, <2>2 DEF MadeInv
  <2> QED
    BY <1>2, <1>6, <2>2, <2>4, <2>5 DEF TurnInv, ListedOnce
<1>9. CASE ~HandleEligible(n) /\ ~HandleTaskResult(n)
  BY <1>2, <1>3, <1>4, <1>6, <1>9, HandlerLists, NothingMade
<1> QED
  BY <1>7, <1>8, <1>9

\* The steps of the workers and of the connections keep them too.
LEMMA OthersKeepRequests ==
    ASSUME RequestInv, TypeInv',
           \/ \E n \in Node : WorkerStep(n) \/ JobDone(n) \/ RecvError(n) \/ RecvEof(n)
           \/ \E w \in Worker : WorkerDown(w) \/ WorkerUp(w)
    PROVE  (MadeInv /\ TurnInv /\ StageInv /\ ListedOnce /\ UpInv)'
<1>1. TypeInv /\ UpInv /\ ListedOnce
  BY DEF RequestInv
<1>2. \A m \in Node : Turn(m)' /\ (Awaited(m)' => Awaited(m)) /\ (Engaged(m)' => Engaged(m))
  BY WorkerTurns, BreakTurns
<1>3. UNCHANGED <<taskVars, nodeVars>>
  BY DEF WorkerStep, HandleTaskRequest, HandleTaskExecute, HandleTaskCancel, JobDone,
         RecvError, RecvEof, WorkerDown, WorkerUp
<1>4. /\ conn \in [Node -> ConnState] /\ nodePeer \in [Node -> Worker \union {None}]
      /\ toWorker \in [Node -> Seq(WorkerMessage)]
  BY <1>1 DEF TypeInv, TypeOK
<1>5. Made' = Made /\ UpInv'
  <2>1. ASSUME NEW n \in Node, WorkerStep(n)
        PROVE  Made' = Made /\ UpInv'
    <3>1. UNCHANGED <<conn, nodePeer, up>> /\ toWorker[n] # <<>>
          /\ \A m \in Node \ {n} : toWorker'[m] = toWorker[m]
          /\ jobRunning' \subseteq jobRunning \union {n}
      BY <1>4, <2>1 DEF WorkerStep, HandleTaskRequest, HandleTaskExecute, HandleTaskCancel,
                        WorkerReceives, nodeVars
    <3>2. Made' = Made
      BY <3>1 DEF Made
    <3> QED
      BY <1>1, <3>1, <3>2 DEF UpInv, Made
  <2>2. ASSUME NEW n \in Node, JobDone(n)
        PROVE  Made' = Made /\ UpInv'
    <3>1. UNCHANGED <<conn, nodePeer, up, toWorker>> /\ jobRunning' \subseteq jobRunning
      BY <2>2 DEF JobDone, nodeVars
    <3> QED
      BY <1>1, <3>1 DEF UpInv, Made
  <2>3. ASSUME NEW w \in Worker, WorkerDown(w)
        PROVE  Made' = Made /\ UpInv'
    <3>1. /\ up' = up \ {w} /\ nodePeer' = nodePeer
          /\ jobRunning' = jobRunning \ NodesOf(w)
          /\ \A m \in Node : toWorker'[m] = IF m \in NodesOf(w) THEN <<>> ELSE toWorker[m]
          /\ \A m \in Node : conn'[m] = IF m \in NodesOf(w) /\ conn[m] = "up" THEN "stale"
                                                                              ELSE conn[m]
      BY <2>3 DEF WorkerDown, nodeVars
    <3>2. Made' = Made
      BY <3>1 DEF Made
    <3> QED
      BY <1>1, <3>1, <3>2 DEF UpInv, Made, NodesOf
  <2>4. ASSUME NEW w \in Worker, WorkerUp(w)
        PROVE  Made' = Made /\ UpInv'
    <3>1. up \subseteq up' /\ UNCHANGED <<conn, nodePeer, toWorker, jobRunning>>
      BY <2>4 DEF WorkerUp, nodeVars, netVars, jobVars
    <3> QED
      BY <1>1, <3>1 DEF UpInv, Made
  <2>5. ASSUME NEW n \in Node, RecvError(n) \/ RecvEof(n)
        PROVE  Made' = Made /\ UpInv'
    <3>1. /\ conn[n] \in {"stale", "dead"} /\ conn'[n] \in {"down", "eof"}
          /\ \A m \in Node \ {n} : conn'[m] = conn[m]
          /\ UNCHANGED <<nodePeer, up, toWorker, jobRunning>>
      BY <1>4, <2>5 DEF RecvError, RecvEof, nodeVars, workerVars, jobVars
    <3>2. Made' = Made
      BY <3>1 DEF Made
    <3> QED
      BY <1>1, <3>1, <3>2 DEF UpInv, Made
  <2> QED
    BY <2>1, <2>2, <2>3, <2>4, <2>5
<1>6. /\ numNodes' = numNodes /\ m_peerResultAvailMap' = m_peerResultAvailMap
      /\ m_taskNodes' = m_taskNodes /\ ask' = ask
  BY <1>3 DEF taskVars, nodeVars, nodeLists, resultVars
<1> QED
  BY <1>1, <1>2, <1>5, <1>6, NothingMade DEF ListedOnce

\* At first there is no node.
LEMMA InitRequests == Init => RequestInv
<1> SUFFICES ASSUME Init PROVE RequestInv
  OBVIOUS
<1>1. TypeInv
  BY InitTyped
<1>2. Made = {} /\ numNodes = 0 /\ m_peerResultAvailMap = {} /\ m_taskNodes = <<>>
  BY DEF Init, Made
<1>3. \A t \in Thread : ask[t].pc \in {"loop", "check"}
  BY DEF Init, Entered, Thread
<1>4. \A n \in Node : toWorker[n] = <<>> /\ toTask[n] = <<>> /\ n \notin jobRunning
  BY DEF Init
<1>5. MadeInv
  BY <1>2, <1>3 DEF MadeInv
<1>6. TurnInv
  BY <1>4 DEF TurnInv, Turn, Once, Carries
<1>7. StageInv
  BY <1>2, <1>3, <1>4 DEF StageInv, Fresh, Awaited, Engaged, Carries, ToSet
<1>8. ListedOnce /\ UpInv
  BY <1>2 DEF ListedOnce, IsInjective, UpInv
<1> QED
  BY <1>1, <1>5, <1>6, <1>7, <1>8 DEF RequestInv

\* Every step keeps RequestInv.
LEMMA StepRequests == RequestInv /\ [Next]_vars => RequestInv'
<1> SUFFICES ASSUME RequestInv, [Next]_vars
             PROVE  RequestInv'
  OBVIOUS
<1>1. TypeInv'
  BY StepTyped DEF RequestInv
<1>2. CASE UNCHANGED vars \/ \E list \in PeerLists : HandlePeerList(list)
  <2>1. UNCHANGED <<taskVars, nodeVars, netVars, workerVars>>
    BY <1>2 DEF vars, HandlePeerList
  <2>2. UNCHANGED <<m_taskNodes, m_peerResultAvailMap, ask, numNodes, nodePeer, conn, toWorker,
                    toTask, up, jobRunning>>
    BY <2>1 DEF taskVars, nodeVars, netVars, workerVars, jobVars, nodeLists, resultVars
  <2>3. /\ Made' = Made
        /\ \A m \in Node : /\ Fresh(m)' = Fresh(m) /\ Turn(m)' = Turn(m)
                           /\ Awaited(m)' = Awaited(m) /\ Engaged(m)' = Engaged(m)
    BY <2>2 DEF Made, Fresh, Turn, Awaited, Engaged
  <2> QED
    BY <1>1, <2>2, <2>3 DEF RequestInv, MadeInv, TurnInv, StageInv, ListedOnce, UpInv
<1>3. CASE TaskCheck \/ TaskWait
  <2>1. UNCHANGED <<m_taskNodes, m_peerResultAvailMap, numNodes, nodePeer, conn, toWorker,
                    toTask, up, jobRunning>>
    BY <1>3 DEF TaskCheck, TaskWait, nodeVars, netVars, workerVars, jobVars, nodeLists, resultVars
  <2>2. /\ Made' = Made
        /\ \A m \in Node : /\ Turn(m)' = Turn(m)
                           /\ Awaited(m)' = Awaited(m) /\ Engaged(m)' = Engaged(m)
    BY <2>1 DEF Made, Turn, Awaited, Engaged
  <2>3. \A u \in Thread : ask'[u].pc \in {"request", "erase"} => ask'[u] = ask[u]
    BY <1>3, TaskFrame DEF RequestInv
  <2>4. (MadeInv /\ TurnInv /\ StageInv /\ ListedOnce)'
    BY <1>1, <2>1, <2>2, <2>3, NothingMade DEF RequestInv, TurnInv, ListedOnce
  <2>5. UpInv'
    BY <2>1, <2>2 DEF RequestInv, UpInv
  <2> QED
    BY <1>1, <2>4, <2>5 DEF RequestInv
<1>4. CASE \E t \in Thread : AskPeersStep(t)
  BY <1>1, <1>4, AskKeepsRequests DEF RequestInv
<1>5. CASE \E n \in Node : TaskHandler(n)
  BY <1>1, <1>5, HandlerKeepsRequests DEF RequestInv
<1>6. CASE \/ \E n \in Node : WorkerStep(n) \/ JobDone(n) \/ RecvError(n) \/ RecvEof(n)
           \/ \E w \in Worker : WorkerDown(w) \/ WorkerUp(w)
  BY <1>1, <1>6, OthersKeepRequests DEF RequestInv
<1> QED
  BY <1>2, <1>3, <1>4, <1>5, <1>6 DEF Next, Step

-----------------------------------------------------------------------------
\* The owner will learn that a peer that was executing died.

\* A node whose listener noticed told the task, which has not read it yet.
DownInv == \A n \in ToSet(m_taskNodes) \ m_peerResultAvailMap :
    conn[n] = "down" => Contains(toTask[n], ConnectionFailure)

\* A message stays in a channel until it is read.
LEMMA StaysUnread ==
    ASSUME NEW S, NEW s \in Seq(S), NEW m \in S
    PROVE  /\ Contains(Append(s, m), m)
           /\ \A x \in S : Contains(s, m) => Contains(Append(s, x), m)
           /\ s # <<>> /\ Head(s) # m /\ Contains(s, m) => Contains(Tail(s), m)
<1>1. Len(s) \in Nat
  BY LenProperties
<1>2. \A x \in S : /\ Append(s, x) \in Seq(S) /\ Len(Append(s, x)) = Len(s) + 1
                   /\ Append(s, x)[Len(s) + 1] = x
                   /\ \A i \in 1 .. Len(s) : Append(s, x)[i] = s[i]
  BY AppendProperties
<1>3. ASSUME s # <<>>, Head(s) # m, Contains(s, m)
      PROVE  Contains(Tail(s), m)
  <2>1. PICK i \in 1 .. Len(s) : s[i] = m
    BY <1>3 DEF Contains
  <2>2. /\ Len(Tail(s)) = Len(s) - 1 /\ Head(s) = s[1]
        /\ \A j \in 1 .. Len(s) - 1 : Tail(s)[j] = s[j + 1]
    BY <1>1, <1>3, HeadTailProperties, EmptySeq
  <2>3. i - 1 \in 1 .. Len(s) - 1
    BY <1>1, <1>3, <2>1, <2>2
  <2>4. Tail(s)[i - 1] = m /\ i - 1 \in 1 .. Len(Tail(s))
    BY <1>1, <2>1, <2>2, <2>3
  <2> QED
    BY <2>4 DEF Contains
<1> QED
  BY <1>1, <1>2, <1>3 DEF Contains

\* A handler leaves a report of another kind than the one it reads.
LEMMA HandlerKeepsReports ==
    ASSUME RequestInv, DownInv, NEW n \in Node, TaskHandler(n)
    PROVE  DownInv'
<1>1. /\ TypeInv /\ toTask \in [Node -> Seq(TaskMessage)] /\ m_taskNodes \in Seq(Node)
      /\ ConnectionFailure \in TaskMessage
  BY ConstantMessages DEF RequestInv, TypeInv, TypeOK
<1> SUFFICES ASSUME NEW m \in ToSet(m_taskNodes') \ m_peerResultAvailMap', conn'[m] = "down"
             PROVE  Contains(toTask'[m], ConnectionFailure)
  BY DEF DownInv
<1>2. /\ \A k \in Node \ {n} : conn'[k] = conn[k]
      /\ conn'[n] = "down" => conn[n] = "down" \/ HandleTaskResult(n)
      /\ HandleEligible(n) => conn'[n] # "down"
  BY HandlerConnects
<1>3. \/ Consume(n)
      \/ toTask' = [toTask EXCEPT ![n] = Append(Tail(@), ConnectionFailure)]
  BY DEF TaskHandler, HandleEligible, HandleNotEligible, HandleNotEligibleAbort,
         HandleExecuting, HandleRefused, HandleTaskResult, HandlePeerConnFailure,
         IgnorePeerConnFailure
<1>4. \A k \in Node \ {n} : toTask'[k] = toTask[k]
  BY <1>1, <1>3 DEF Consume
<1>5. /\ ToSet(m_taskNodes') \subseteq ToSet(m_taskNodes) \union {n}
      /\ ~HandleEligible(n) => ToSet(m_taskNodes') \subseteq ToSet(m_taskNodes)
      /\ m_peerResultAvailMap \subseteq m_peerResultAvailMap'
      /\ HandleTaskResult(n) => n \in m_peerResultAvailMap'
      /\ HandlePeerConnFailure(n) => n \notin ToSet(m_taskNodes')
  BY HandlerLists
<1>6. CASE m # n
  <2>1. m \in ToSet(m_taskNodes) \ m_peerResultAvailMap
    <3>1. m \in ToSet(m_taskNodes) \union {n}
      BY <1>5
    <3>2. m \notin m_peerResultAvailMap
      BY <1>5
    <3> QED
      BY <1>6, <3>1, <3>2
  <2>2. m \in Node
    <3>1. DOMAIN m_taskNodes = 1 .. Len(m_taskNodes)
      BY <1>1, LenProperties
    <3>2. PICK i \in DOMAIN m_taskNodes : m = m_taskNodes[i]
      BY <2>1 DEF ToSet
    <3> QED
      BY <1>1, <3>1, <3>2, ElementOfSeq
  <2> QED
    BY <1>2, <1>4, <1>6, <2>1, <2>2 DEF DownInv
<1>7. CASE m = n
  <2>1. ~HandleEligible(n) /\ ~HandleTaskResult(n) /\ ~HandlePeerConnFailure(n)
    BY <1>2, <1>5, <1>7
  <2>2. m \in ToSet(m_taskNodes) \ m_peerResultAvailMap
    BY <1>5, <2>1
  <2>3. Contains(m_taskNodes, n)
    BY <1>1, <1>7, <2>2, LenProperties DEF ToSet, Contains
  <2>4. ~IgnorePeerConnFailure(n)
    BY <1>7, <2>2, <2>3 DEF IgnorePeerConnFailure, Concerns
  <2>5. Consume(n) /\ toTask[n] # <<>> /\ Head(toTask[n]).type # "CONNECTION_FAILURE"
    BY <2>1, <2>4 DEF TaskHandler, HandleNotEligible, HandleNotEligibleAbort,
                      HandleExecuting, HandleRefused, Receives
  <2>6. Contains(toTask[n], ConnectionFailure)
    BY <1>2, <1>7, <2>1, <2>2 DEF DownInv
  <2>7. Head(toTask[n]) # ConnectionFailure
    BY <2>5 DEF ConnectionFailure
  <2>8. toTask'[n] = Tail(toTask[n])
    BY <1>1, <2>5 DEF Consume
  <2> QED
    BY <1>1, <1>7, <2>5, <2>6, <2>7, <2>8, StaysUnread
<1> QED
  BY <1>6, <1>7

\* So do the other steps, and a listener that notices reports it.
LEMMA StepReports ==
    RequestInv /\ DownInv /\ [Next]_vars => DownInv'
<1> SUFFICES ASSUME RequestInv, DownInv, [Next]_vars PROVE DownInv'
  OBVIOUS
<1>1. /\ TypeInv /\ toTask \in [Node -> Seq(TaskMessage)] /\ conn \in [Node -> ConnState]
      /\ m_taskNodes \in Seq(Node) /\ ConnectionFailure \in TaskMessage
  BY ConstantMessages DEF RequestInv, TypeInv, TypeOK
<1>2. ToSet(m_taskNodes) \subseteq Node
  BY <1>1, ElementOfSeq, LenProperties DEF ToSet
<1>3. ASSUME NEW n \in Node, WorkerStep(n) \/ JobDone(n)
      PROVE  DownInv'
  <2>1. UNCHANGED <<m_taskNodes, m_peerResultAvailMap, conn>>
    BY <1>3 DEF WorkerStep, HandleTaskRequest, HandleTaskExecute, HandleTaskCancel, JobDone,
                taskVars, nodeLists, resultVars
  <2>2. \/ toTask' = toTask
        \/ \E type \in {"TASK_REQUEST_RESP", "EXECUTING", "REFUSED", "TASK_RESULT"} :
              \E arg : toTask' = [toTask EXCEPT ![n] = Append(@, [type |-> type, arg |-> arg])]
    BY <1>3 DEF WorkerStep, HandleTaskRequest, HandleTaskExecute, HandleTaskCancel, JobDone, Reply
  <2>3. \A s \in Seq(TaskMessage) : \A x : Contains(s, ConnectionFailure)
                                              => Contains(Append(s, x), ConnectionFailure)
    <3> SUFFICES ASSUME NEW s \in Seq(TaskMessage), NEW x, Contains(s, ConnectionFailure)
                 PROVE  Contains(Append(s, x), ConnectionFailure)
      OBVIOUS
    <3>1. s \in Seq(TaskMessage \union {x}) /\ x \in TaskMessage \union {x}
      BY SeqMonotonic
    <3> QED
      BY <1>1, <3>1, StaysUnread
  <2>4. \A k \in Node : Contains(toTask[k], ConnectionFailure)
                            => Contains(toTask'[k], ConnectionFailure)
    <3>1. CASE toTask' = toTask
      BY <3>1
    <3>2. ASSUME NEW x, toTask' = [toTask EXCEPT ![n] = Append(@, x)]
          PROVE  \A k \in Node : Contains(toTask[k], ConnectionFailure)
                                      => Contains(toTask'[k], ConnectionFailure)
      <4> SUFFICES ASSUME NEW k \in Node, Contains(toTask[k], ConnectionFailure)
                   PROVE  Contains(toTask'[k], ConnectionFailure)
        OBVIOUS
      <4>1. toTask[k] \in Seq(TaskMessage) /\ toTask'[k] \in {toTask[k], Append(toTask[k], x)}
        BY <1>1, <3>2
      <4> QED
        BY <2>3, <4>1
    <3> QED
      BY <2>2, <3>1, <3>2
  <2> QED
    BY <1>2, <2>1, <2>4 DEF DownInv
<1>4. ASSUME NEW n \in Node, RecvError(n)
      PROVE  DownInv'
  <2>1. PICK k \in 0 .. Len(toTask[n]) :
            toTask' = [toTask EXCEPT ![n] = Append(SubSeq(@, 1, k), ConnectionFailure)]
    BY <1>4 DEF RecvError, HandleConnectionBroken
  <2>2. SubSeq(toTask[n], 1, k) \in Seq(TaskMessage)
    BY <1>1, SubSeqProperties, LenProperties, ElementOfSeq
  <2>3. Contains(toTask'[n], ConnectionFailure)
    BY <1>1, <2>1, <2>2, StaysUnread
  <2>4. \A m \in Node \ {n} : toTask'[m] = toTask[m] /\ conn'[m] = conn[m]
    BY <1>1, <1>4, <2>1 DEF RecvError
  <2>5. UNCHANGED <<m_taskNodes, m_peerResultAvailMap>>
    BY <1>4 DEF RecvError, taskVars, nodeLists, resultVars
  <2> QED
    BY <1>2, <2>3, <2>4, <2>5 DEF DownInv
<1>5. ASSUME NEW t \in Thread, AskPeersStep(t)
      PROVE  DownInv'
  <2>1. UNCHANGED <<m_peerResultAvailMap, toTask>> /\ m_taskNodes' \in {m_taskNodes, <<>>}
    BY <1>5 DEF AskPeersStep, AskLower, AskGiveUp, AskSkip, AskUnreachable, AskConnect,
                AskRequest, AskErase, AskAbort, AskShort, AskEnough, TaskCancel, nodeLists,
                resultVars, netVars
  <2>2. CASE m_taskNodes' = <<>>
    BY <2>2 DEF DownInv, ToSet
  <2>3. CASE m_taskNodes' = m_taskNodes /\ AskConnect(t)
    <3>1. conn' = [conn EXCEPT ![numNodes + 1] = "up"]
      BY <2>3 DEF AskConnect
    <3>2. \A m \in Node : conn'[m] = "down" => conn[m] = "down"
      BY <1>1, <3>1
    <3> QED
      BY <1>2, <2>1, <2>3, <3>2 DEF DownInv
  <2>4. CASE m_taskNodes' = m_taskNodes /\ AskRequest(t)
    <3>1. ParamToAsk \in Param
      BY <1>1, <2>4, HeadTailProperties DEF AskRequest, ParamToAsk, TypeInv, TypeOK
    <3>2. Send(ask[t].node, RequestFor(ParamToAsk)) /\ ask[t].pc = "request"
      BY <2>4 DEF AskRequest
    <3>3. ask[t].node \in Node /\ RequestFor(ParamToAsk) \in WorkerMessage
      BY <3>1, <3>2, ConstantMessages DEF RequestInv, MadeInv, Made
    <3>4. \A m \in Node : conn'[m] = "down" => conn[m] = "down"
      BY <1>1, <3>2, <3>3, SendOne
    <3> QED
      BY <1>2, <2>1, <2>4, <3>4 DEF DownInv
  <2>5. CASE m_taskNodes' = m_taskNodes /\ TaskCancel
    BY <1>1, <1>2, <2>1, <2>5, CancelAll DEF DownInv
  <2>6. CASE m_taskNodes' = m_taskNodes /\ conn' = conn
    BY <2>1, <2>6 DEF DownInv
  <2>7. AskConnect(t) \/ AskRequest(t) \/ TaskCancel \/ conn' = conn
    BY <1>5 DEF AskPeersStep, AskLower, AskGiveUp, AskSkip, AskUnreachable, AskErase, AskAbort,
                AskShort, AskEnough, netVars
  <2> QED
    BY <2>1, <2>2, <2>3, <2>4, <2>5, <2>6, <2>7
<1>6. CASE \E w \in Worker : WorkerDown(w)
  <2>1. /\ UNCHANGED <<m_taskNodes, m_peerResultAvailMap, toTask>>
        /\ \A m \in Node : conn'[m] \in {conn[m], "stale"}
    BY <1>6 DEF WorkerDown, taskVars, nodeLists, resultVars
  <2> QED
    BY <1>2, <2>1 DEF DownInv
<1>7. CASE \E n \in Node : RecvEof(n)
  <2>1. /\ UNCHANGED <<m_taskNodes, m_peerResultAvailMap, toTask>>
        /\ \A m \in Node : conn'[m] \in {conn[m], "eof"}
    BY <1>1, <1>7 DEF RecvEof, taskVars, nodeLists, resultVars
  <2> QED
    BY <1>2, <2>1 DEF DownInv
<1>8. CASE \/ UNCHANGED vars \/ \E list \in PeerLists : HandlePeerList(list)
           \/ TaskCheck \/ TaskWait \/ \E w \in Worker : WorkerUp(w)
  <2>1. UNCHANGED <<m_taskNodes, m_peerResultAvailMap, toTask, conn>>
    BY <1>8 DEF vars, HandlePeerList, TaskCheck, TaskWait, WorkerUp, taskVars, nodeLists,
                resultVars, netVars
  <2> QED
    BY <2>1 DEF DownInv
<1> QED
  BY <1>3, <1>4, <1>5, <1>6, <1>7, <1>8, HandlerKeepsReports DEF Next, Step

\* DeathWillBeSeen, Peer::HandleConnectionBroken and its way to the task: of a
\* peer that was told to execute and died, the failure is reported or still to
\* be noticed, unless the listener saw a clean end of file.
THEOREM DeathIsNoticed == Spec => []DeathWillBeSeen
<1>1. Init => RequestInv /\ DownInv
  <2>1. Init => DownInv
    BY DEF Init, DownInv, ToSet
  <2> QED
    BY <2>1, InitRequests
<1>2. RequestInv /\ DownInv /\ [Next]_vars => (RequestInv /\ DownInv)'
  BY StepRequests, StepReports
<1>3. RequestInv /\ DownInv => DeathWillBeSeen
  <2> SUFFICES ASSUME RequestInv, DownInv, NEW n \in ToSet(m_taskNodes) \ m_peerResultAvailMap
               PROVE  \/ nodePeer[n] \in up
                      \/ conn[n] \in {"stale", "dead", "eof"}
                      \/ Contains(toTask[n], ConnectionFailure)
    BY DEF DeathWillBeSeen
  <2>1. m_taskNodes \in Seq(Made) /\ conn \in [Node -> ConnState]
    BY DEF RequestInv, TypeInv, TypeOK, NodeInv
  <2>2. n \in Made
    BY <2>1, ElementOfSeq, LenProperties DEF ToSet
  <2>3. conn[n] \in ConnState /\ conn[n] # "none"
    BY <2>1, <2>2 DEF Made
  <2> QED
    BY <2>2, <2>3 DEF RequestInv, UpInv, DownInv, ConnState
<1> QED
  BY <1>1, <1>2, <1>3, PTL DEF Spec
=============================================================================
