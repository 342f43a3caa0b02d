--------------------------- MODULE TaskAliveProofs ---------------------------
(***************************************************************************)
(* A task whose peers live, or of whose peers one dies, and whose thread   *)
(* handles its first answer after Start has returned (StartRace).          *)
(*                                                                         *)
(* While everybody lives (downs = 0) every message is delivered, and the   *)
(* counters that end AskPeers' loop can be related to the peers that run   *)
(* something.  Where nobody ever dies (MaxDowns = 0), a parameter that     *)
(* comes back is asked for again (NothingWaitsUnasked), whatever is in a   *)
(* map or in m_taskNodes is of a peer that is asked or executes (FlowInv), *)
(* so the protocol does not come to rest early (NeverAtRest).  Start       *)
(* itself may give the task up, when its list is too short; that nothing   *)
(* else does, that no index is out of range and that no running job is     *)
(* cancelled is proved of a Start that finds its peers (StartSucceeds),    *)
(* and Start finds them when every list names more peers than the task has *)
(* parameters (EnoughPeers).                                               *)
(*                                                                         *)
(* While everybody lives nobody refuses, either, so when the only death    *)
(* comes the dead peer's nodes have refused nothing and none of them was   *)
(* left listed by a removal that took another node of its peer: the        *)
(* failures that follow take back what nobody else works on, and every     *)
(* parameter is still run and counted once (OneDeathInv).                  *)
(***************************************************************************)
EXTENDS TaskOnceProofs

-----------------------------------------------------------------------------
\* What a channel carries when something is added, ...
LEMMA AppendCarries ==
    ASSUME NEW S, NEW s \in Seq(S), NEW x \in S
    PROVE  /\ \A T : Carries(Append(s, x), T) <=> Carries(s, T) \/ x.type \in T
           /\ \A T : ~Carries(s, T) => Once(Append(s, x), T)
           /\ \A T : x.type \notin T /\ Once(s, T) => Once(Append(s, x), T)
<1> DEFINE a == Append(s, x)
<1>1. /\ Len(s) \in Nat /\ DOMAIN s = 1 .. Len(s) /\ DOMAIN a = 1 .. Len(s) + 1
      /\ \A i \in 1 .. Len(s) : a[i] = s[i]
      /\ a[Len(s) + 1] = x
  BY AppendProperties, LenProperties
<1> HIDE DEF a
<1>2. /\ \A i \in DOMAIN a : i \in DOMAIN s \/ i = Len(s) + 1
      /\ \A i \in DOMAIN s : i \in DOMAIN a /\ a[i] = s[i]
      /\ Len(s) + 1 \in DOMAIN a /\ a[Len(s) + 1] = x
  BY <1>1
<1> HIDE <1>1
<1>3. \A T : Carries(a, T) <=> Carries(s, T) \/ x.type \in T
  BY <1>2 DEF Carries
<1>4. \A T : ~Carries(s, T) => Once(a, T)
  BY <1>2 DEF Carries, Once
<1>5. \A T : x.type \notin T /\ Once(s, T) => Once(a, T)
  BY <1>2 DEF Once
<1> QED
  BY <1>3, <1>4, <1>5 DEF a

\* ... and when its first message is read.
LEMMA TailCarries ==
    ASSUME NEW S, NEW s \in Seq(S), s # <<>>
    PROVE  /\ \A T : Carries(Tail(s), T) => Carries(s, T)
           /\ \A T : Carries(s, T) /\ Head(s).type \notin T => Carries(Tail(s), T)
           /\ \A T : Head(s).type \in T => Carries(s, T)
           /\ \A T : Once(s, T) => Once(Tail(s), T)
           /\ \A T : Once(s, T) /\ Head(s).type \in T => ~Carries(Tail(s), T)
<1>1. /\ Len(s) \in Nat /\ DOMAIN s = 1 .. Len(s) /\ Len(s) # 0
      /\ DOMAIN Tail(s) = 1 .. Len(s) - 1 /\ Head(s) = s[1]
      /\ \A i \in 1 .. Len(s) - 1 : Tail(s)[i] = s[i + 1]
  BY HeadTailProperties, LenProperties, EmptySeq
<1>2. \A i \in DOMAIN Tail(s) : i + 1 \in DOMAIN s /\ Tail(s)[i] = s[i + 1] /\ i + 1 # 1
  BY <1>1
<1>3. \A i, j \in DOMAIN Tail(s) : i + 1 = j + 1 => i = j
  BY <1>1
<1>4. \A i \in DOMAIN s : i # 1 => i - 1 \in DOMAIN Tail(s) /\ Tail(s)[i - 1] = s[i]
  <2> TAKE i \in DOMAIN s
  <2> HAVE i # 1
  <2>1. i - 1 \in 1 .. Len(s) - 1 /\ (i - 1) + 1 = i
    BY <1>1
  <2> QED
    BY <1>1, <2>1
<1>5. 1 \in DOMAIN s /\ Head(s) = s[1]
  BY <1>1
<1> HIDE <1>1
<1>6. \A T : /\ Carries(Tail(s), T) => Carries(s, T)
             /\ Head(s).type \in T => Carries(s, T)
  BY <1>2, <1>5 DEF Carries
<1>7. \A T : Carries(s, T) /\ Head(s).type \notin T => Carries(Tail(s), T)
  BY <1>4, <1>5 DEF Carries
<1>8. \A T : Once(s, T) => Once(Tail(s), T)
  BY <1>2, <1>3 DEF Once
<1>9. \A T : Once(s, T) /\ Head(s).type \in T => ~Carries(Tail(s), T)
  BY <1>2, <1>5 DEF Once, Carries
<1> QED
  BY <1>6, <1>7, <1>8, <1>9

-----------------------------------------------------------------------------
\* While every process lives, connections stand and messages arrive.

\* Whatever a node is given reaches its worker.
LEMMA AliveSends ==
    ASSUME downs = 0, RequestInv, GoneInv
    PROVE  /\ up = Worker
           /\ \A n \in Made : conn[n] \in {"up", "down"} /\ nodePeer[n] \in Worker
           /\ \A n \in Made, msg \in WorkerMessage : Send(n, msg) =>
                  /\ toWorker' = [toWorker EXCEPT ![n] = Append(@, msg)]
                  /\ conn'[n] = "up"
<1>1. TypeInv /\ NodeInv /\ up = Worker
  BY DEF RequestInv, TypeInv, GoneInv
<1>2. ASSUME NEW n \in Made
      PROVE  conn[n] \in {"up", "down"} /\ nodePeer[n] \in Worker
  <2>1. n \in Node /\ conn[n] # "none" /\ conn[n] \in ConnState /\ nodePeer[n] \in Worker
    BY <1>1 DEF Made, TypeInv, TypeOK, NodeInv
  <2>2. conn[n] \notin Broken
    BY <1>1, <2>1 DEF GoneInv
  <2> QED
    BY <2>1, <2>2 DEF ConnState, Broken
<1>3. ASSUME NEW n \in Made, NEW msg \in WorkerMessage, Send(n, msg)
      PROVE  /\ toWorker' = [toWorker EXCEPT ![n] = Append(@, msg)]
             /\ conn'[n] = "up"
  <2>1. n \in Node /\ Reachable(n)
    BY <1>1, <1>2 DEF Made, Reachable
  <2>2. /\ \A m \in Node \ {n} : toWorker'[m] = toWorker[m]
        /\ conn[n] # "down" => conn'[n] = conn[n]
        /\ conn[n] = "down" => conn'[n] = "up"
    BY <1>1, <1>2, <1>3, <2>1, SendOne
  <2>3. toWorker \in [Node -> Seq(WorkerMessage)]
    BY <1>1 DEF TypeInv, TypeOK
  <2>4. toWorker'[n] = toWorker[n] \o <<msg>>
    BY <1>3, <2>1 DEF Send, SendAll
  <2>5. toWorker'[n] = Append(toWorker[n], msg)
    BY <2>1, <2>3, <2>4, AppendIsConcat
  <2>6. toWorker' = [m \in Node |-> toWorker'[m]]
    BY <1>3 DEF Send, SendAll
  <2> QED
    BY <1>2, <2>1, <2>2, <2>3, <2>5, <2>6
<1> QED
  BY <1>1, <1>2, <1>3

\* No connection breaks, and nobody goes or comes.
LEMMA AliveStays ==
    ASSUME downs = 0, RequestInv, GoneInv
    PROVE  /\ \A n \in Node : ~RecvError(n) /\ ~RecvEof(n) /\ ~HandlePeerConnFailure(n)
           /\ downs' = 0 => \A w \in Worker : ~WorkerDown(w) /\ ~WorkerUp(w)
<1>1. up = Worker /\ downs \in Nat /\ \A n \in Node : conn[n] \notin {"stale", "dead"}
  BY AliveSends DEF Made, RequestInv, TypeInv, TypeOK
<1>2. \A n \in Node : ~RecvError(n) /\ ~RecvEof(n)
  BY <1>1 DEF RecvError, RecvEof
<1>3. downs' = 0 => \A w \in Worker : ~WorkerDown(w) /\ ~WorkerUp(w)
  BY <1>1 DEF WorkerDown, WorkerUp
<1>4. ASSUME NEW n \in Node, HandlePeerConnFailure(n)
      PROVE  FALSE
  <2>1. /\ toTask[n] # <<>> /\ Head(toTask[n]).type = "CONNECTION_FAILURE"
        /\ n \notin m_peerResultAvailMap /\ Contains(m_taskNodes, n)
    BY <1>4 DEF HandlePeerConnFailure, Receives, Concerns
  <2>2. Carries(toTask[n], Failure)
    BY <2>1, TailCarries DEF Failure, RequestInv, TypeInv, TypeOK
  <2>3. n \in Made
    BY <2>1, LiveMade DEF Contains, ToSet
  <2> QED
    BY <1>1, <2>1, <2>2, <2>3, AliveSends DEF GoneInv
<1> QED
  BY <1>2, <1>3, <1>4

-----------------------------------------------------------------------------
\* How many are still to be asked

\* At a peer of the list, before it is asked, and while it is.
Before == {"loop", "scan"}
Asked == {"request", "erase"}

\* The steps of AskPeers that ask nobody.
LooksOn(t) == AskLower(t) \/ AskSkip(t) \/ AskUnreachable(t)

\* Where AskPeers goes and what it counts.  A request is always sent.
LEMMA AskCounts ==
    ASSUME downs = 0, RequestInv, GoneInv, NEW t \in Thread, AskPeersStep(t)
    PROVE  /\ LooksOn(t) => /\ ask[t].pc \in Before /\ ask'[t].pc \in Before
                            /\ ask'[t].numAsking = ask[t].numAsking
           /\ AskConnect(t) => /\ ask[t].pc \in Before /\ ask'[t].pc = "request"
                               /\ ask'[t].numAsking = ask[t].numAsking + 1
           /\ AskRequest(t) => /\ ask[t].pc = "request" /\ ask'[t].pc = "erase"
                               /\ ask'[t].numAsking = ask[t].numAsking
           /\ AskErase(t) => /\ ask[t].pc = "erase"
                             /\ ask'[t].pc = IF Broke(t) THEN "finish" ELSE "loop"
                             /\ ask'[t].numAsking = ask[t].numAsking
           /\ AskEnough(t) => /\ ask[t].pc \in {"loop", "finish"} /\ Broke(t)
                              /\ ask'[t].pc = Left(t)
                              /\ m_numRemainingPeers' = m_numRemainingPeers - ask[t].numAsking
           /\ AskGiveUp(t) \/ AskShort(t) => m_bStop' /\ ask'[t].pc = Left(t)
           /\ AskAbort(t) => ask' = ask
           /\ IF AskErase(t)
              THEN /\ m_unAllotParamList # <<>>
                   /\ m_unAllotParamList' = Tail(m_unAllotParamList)
              ELSE m_unAllotParamList' = m_unAllotParamList
           /\ AskEnough(t) \/ m_numRemainingPeers' = m_numRemainingPeers
<1>1. ask \in [Thread -> Asking]
  BY DEF RequestInv, TypeInv, TypeOK
<1>2. LooksOn(t) => /\ ask[t].pc \in Before /\ ask'[t].pc \in Before
                    /\ ask'[t].numAsking = ask[t].numAsking
  <2>1. AskLower(t) => /\ ask[t].pc \in Before /\ ask'[t].pc \in Before
                       /\ ask'[t].numAsking = ask[t].numAsking
    BY <1>1 DEF AskLower, Before, Asking
  <2>2. AskSkip(t) \/ AskUnreachable(t) => /\ ask[t].pc \in Before /\ ask'[t].pc \in Before
                                           /\ ask'[t].numAsking = ask[t].numAsking
    <3>1. AskSkip(t) \/ AskUnreachable(t) =>
              Scanning(t) /\ ask' = [ask EXCEPT ![t].pc = "loop", ![t].i = @ + 1]
      BY DEF AskSkip, AskUnreachable
    <3> QED
      BY <1>1, <3>1 DEF Scanning, Before, Asking
  <2> QED
    BY <2>1, <2>2 DEF LooksOn
<1>3. AskConnect(t) => /\ ask[t].pc \in Before /\ ask'[t].pc = "request"
                       /\ ask'[t].numAsking = ask[t].numAsking + 1
  BY <1>1 DEF AskConnect, Scanning, Before
<1>4. ASSUME AskRequest(t)
      PROVE  /\ ask[t].pc = "request" /\ ask'[t].pc = "erase"
             /\ ask'[t].numAsking = ask[t].numAsking
  <2>1. /\ ask[t].pc = "request" /\ m_unAllotParamList # <<>>
        /\ Send(ask[t].node, RequestFor(ParamToAsk))
        /\ \/ ask' = [ask EXCEPT ![t].pc = "erase"]
           \/ conn'[ask[t].node] # "up"
    BY <1>4 DEF AskRequest
  <2>2. ask[t].node \in Made
    BY <2>1 DEF RequestInv, MadeInv
  <2>3. RequestFor(ParamToAsk) \in WorkerMessage
    <3>1. ParamToAsk \in Param
      BY <2>1, HeadTailProperties DEF ParamToAsk, RequestInv, TypeInv, TypeOK
    <3> QED
      BY <3>1, ConstantMessages
  <2>4. conn'[ask[t].node] = "up"
    BY <2>1, <2>2, <2>3, AliveSends
  <2>5. ask' = [ask EXCEPT ![t].pc = "erase"]
    BY <2>1, <2>4
  <2> QED
    BY <1>1, <2>1, <2>5 DEF Asking
<1>5. AskErase(t) => /\ ask[t].pc = "erase"
                     /\ ask'[t].pc = IF Broke(t) THEN "finish" ELSE "loop"
                     /\ ask'[t].numAsking = ask[t].numAsking
  BY <1>1 DEF AskErase, NextPeer
<1>6. AskEnough(t) => /\ ask[t].pc \in {"loop", "finish"} /\ Broke(t)
                      /\ ask'[t].pc = Left(t)
                      /\ m_numRemainingPeers' = m_numRemainingPeers - ask[t].numAsking
  BY <1>1 DEF AskEnough, AskEnd
<1>7. AskGiveUp(t) \/ AskShort(t) => m_bStop' /\ ask'[t].pc = Left(t)
  <2>1. AskGiveUp(t) \/ AskShort(t) => m_bStop' /\ ask' = [ask EXCEPT ![t].pc = Left(t)]
    BY DEF AskGiveUp, AskShort, AskEnd, TaskCancel
  <2> QED
    BY <1>1, <2>1 DEF Asking
<1>8. AskAbort(t) => ask' = ask
  BY DEF AskAbort
<1>9. AskErase(t) => m_unAllotParamList # <<>> /\ m_unAllotParamList' = Tail(m_unAllotParamList)
  BY DEF AskErase, EraseAsked
<1>10. ~AskErase(t) => m_unAllotParamList' = m_unAllotParamList
  BY DEF AskPeersStep, AskLower, AskGiveUp, AskSkip, AskUnreachable, AskConnect, AskRequest,
         AskAbort, AskShort, AskEnough, allotVars
<1>11. AskEnough(t) \/ m_numRemainingPeers' = m_numRemainingPeers
  BY DEF AskPeersStep, AskLower, AskGiveUp, AskSkip, AskUnreachable, AskConnect, AskRequest,
         AskErase, AskAbort, AskShort, countVars
<1> QED
  BY <1>2, <1>3, <1>4, <1>5, <1>6, <1>7, <1>8, <1>9, <1>10, <1>11

\* The nodes that are executing, as far as anything is under way for them.
Executing == {n \in Node : Engaged(n)}

\* Start asks for every parameter once: with each request one parameter leaves
\* the list, and it ends when it has asked for all.
StartQuota ==
    /\ ask["main"].pc \in AskStep => m_numRemainingPeers = m_numRequiredPeers
    /\ ask["main"].pc \in Before =>
          /\ ask["main"].numAsking < m_numRequiredPeers
          /\ Len(m_unAllotParamList) = m_numRequiredPeers - ask["main"].numAsking
    /\ ask["main"].pc \in Asked =>
          /\ ask["main"].numAsking <= m_numRequiredPeers
          /\ Len(m_unAllotParamList) = m_numRequiredPeers - ask["main"].numAsking + 1
    /\ ask["main"].pc = "finish" =>
          /\ ask["main"].numAsking = m_numRequiredPeers
          /\ Len(m_unAllotParamList) = 0

\* A handler asks one peer at most ...
HandlerQuota ==
    /\ ask["task"].pc \in Before => ask["task"].numAsking = 0
    /\ ask["task"].pc \in Asked \union {"finish"} => ask["task"].numAsking = 1

\* ... because no peer remains to be asked for; each peer that executes has been
\* counted down once more.
RemainInv ==
    ask["main"].pc \notin AskStep /\ ~m_bStop =>
        m_numRemainingPeers + Cardinality(Executing) <= 0

QuotaInv == StartQuota /\ HandlerQuota /\ RemainInv

\* They can be counted.
LEMMA ExecutingFinite ==
    IsFiniteSet(Executing) /\ Cardinality(Executing) \in Nat
<1>1. IsFiniteSet(Node)
  BY TaskConstants, FS_Interval DEF Node
<1>2. Executing \in SUBSET Node
  BY DEF Executing
<1> QED
  BY <1>1, <1>2, FS_Subset, FS_CardinalityType

\* Fewer executing, or one more, or one less, change the count accordingly.
LEMMA ExecutingCounts ==
    /\ (\A m \in Node : Engaged(m)' => Engaged(m)) =>
           Cardinality(Executing') <= Cardinality(Executing)
    /\ \A n \in Node : (\A m \in Node : Engaged(m)' => Engaged(m) \/ m = n) =>
           Cardinality(Executing') <= Cardinality(Executing) + 1
    /\ \A n \in Node : Engaged(n) /\ ~Engaged(n)' /\ (\A m \in Node : Engaged(m)' => Engaged(m)) =>
           Cardinality(Executing') <= Cardinality(Executing) - 1
<1>1. IsFiniteSet(Executing) /\ Cardinality(Executing) \in Nat /\ Executing' \subseteq Node
  BY ExecutingFinite DEF Executing
<1>2. ASSUME \A m \in Node : Engaged(m)' => Engaged(m)
      PROVE  Cardinality(Executing') <= Cardinality(Executing)
  <2>1. Executing' \in SUBSET Executing
    BY <1>2 DEF Executing
  <2> QED
    BY <1>1, <2>1, FS_Subset
<1>3. ASSUME NEW n \in Node, \A m \in Node : Engaged(m)' => Engaged(m) \/ m = n
      PROVE  Cardinality(Executing') <= Cardinality(Executing) + 1
  <2>1. Executing' \in SUBSET (Executing \cup {n})
    BY <1>3 DEF Executing
  <2>2. /\ IsFiniteSet(Executing \cup {n})
        /\ Cardinality(Executing \cup {n}) \in {Cardinality(Executing), Cardinality(Executing) + 1}
    BY <1>1, FS_AddElement
  <2>3. /\ IsFiniteSet(Executing') /\ Cardinality(Executing') <= Cardinality(Executing \cup {n})
    BY <2>1, <2>2, FS_Subset
  <2>4. Cardinality(Executing') \in Nat
    BY <2>3, FS_CardinalityType
  <2> QED
    BY <1>1, <2>2, <2>3, <2>4
<1>4. ASSUME NEW n \in Node, Engaged(n), ~Engaged(n)', \A m \in Node : Engaged(m)' => Engaged(m)
      PROVE  Cardinality(Executing') <= Cardinality(Executing) - 1
  <2>1. Executing' \in SUBSET (Executing \ {n}) /\ n \in Executing
    BY <1>4 DEF Executing
  <2>2. /\ IsFiniteSet(Executing \ {n})
        /\ Cardinality(Executing \ {n}) = Cardinality(Executing) - 1
    BY <1>1, <2>1, FS_RemoveElement
  <2> QED
    BY <2>1, <2>2, FS_Subset
<1> QED
  BY <1>2, <1>3, <1>4

\* Where the task's thread goes and what it counts when it handles an answer.
LEMMA HandlerCounts ==
    ASSUME StartRace = FALSE, downs = 0, CalmInv, GoneInv, NEW n \in Node, TaskHandler(n)
    PROVE  /\ ask["main"].pc = "done" /\ ask["task"].pc = "get"
           /\ ask'["main"] = ask["main"]
           /\ HandleNotEligible(n) \/ HandleRefused(n) => ask'["task"] = Entered
           /\ ~HandleNotEligible(n) /\ ~HandleRefused(n) => ask'["task"].pc \in {"check", "get"}
           /\ HandleEligible(n) => m_numRemainingPeers' = m_numRemainingPeers - 1
           /\ HandleRefused(n) => m_numRemainingPeers' = m_numRemainingPeers + 1
           /\ HandleEligible(n) \/ HandleRefused(n) \/ m_numRemainingPeers' = m_numRemainingPeers
           /\ m_bStop' = m_bStop
<1>1. /\ ask \in [Thread -> Asking] /\ "main" \in Thread /\ "task" \in Thread
      /\ ~HandlePeerConnFailure(n)
  BY AliveStays DEF CalmInv, RequestInv, TypeInv, TypeOK, Thread
<1>2. ask["main"].pc = "done" /\ ask["task"].pc = "get" /\ m_bStop' = m_bStop
  BY StoppedHandler
<1>3. \/ HandleNotEligible(n) \/ HandleRefused(n) \/ HandleEligible(n)
      \/ HandleNotEligibleAbort(n) \/ HandleExecuting(n)
      \/ HandleTaskResult(n) \/ IgnorePeerConnFailure(n)
  BY <1>1 DEF TaskHandler
<1>4. CASE HandleNotEligible(n) \/ HandleRefused(n)
  <2>1. ask' = [ask EXCEPT !["task"] = Entered] /\ ~HandleEligible(n)
    BY <1>4 DEF HandleNotEligible, HandleRefused, HandleEligible, AskPeers, Receives
  <2>2. HandleNotEligible(n) => ~HandleRefused(n) /\ m_numRemainingPeers' = m_numRemainingPeers
    BY DEF HandleNotEligible, HandleRefused, Receives
  <2>3. HandleRefused(n) => m_numRemainingPeers' = m_numRemainingPeers + 1
    BY DEF HandleRefused
  <2> QED
    BY <1>1, <1>2, <1>4, <2>1, <2>2, <2>3
<1>5. CASE HandleEligible(n)
  <2>1. /\ ask' = [ask EXCEPT !["task"].pc = "check"]
        /\ m_numRemainingPeers' = m_numRemainingPeers - 1
        /\ ~HandleNotEligible(n) /\ ~HandleRefused(n)
    BY <1>5 DEF HandleEligible, BackToLoop, HandleNotEligible, HandleRefused, Receives
  <2> QED
    BY <1>1, <1>2, <1>5, <2>1 DEF Asking
<1>6. CASE \/ HandleNotEligibleAbort(n) \/ HandleExecuting(n)
           \/ HandleTaskResult(n) \/ IgnorePeerConnFailure(n)
  <2>1. /\ \/ ask' = [ask EXCEPT !["task"].pc = "check"]
           \/ ask' = ask
        /\ m_numRemainingPeers' = m_numRemainingPeers
    BY <1>6 DEF HandleNotEligibleAbort, HandleExecuting, HandleTaskResult,
                IgnorePeerConnFailure, BackToLoop, countVars
  <2>2. ~HandleNotEligible(n) /\ ~HandleRefused(n) /\ ~HandleEligible(n)
    BY <1>6 DEF HandleNotEligibleAbort, HandleExecuting, HandleTaskResult,
                IgnorePeerConnFailure, HandleNotEligible, HandleRefused, HandleEligible, Receives
  <2> QED
    BY <1>1, <1>2, <2>1, <2>2 DEF Asking
<1> QED
  BY <1>3, <1>4, <1>5, <1>6

\* The other steps leave the owner's counters alone.
LEMMA OtherCounts ==
    ASSUME RequestInv, [Next]_vars,
           \A t \in Thread : ~AskPeersStep(t), \A n \in Node : ~TaskHandler(n)
    PROVE  /\ ask'["main"] = ask["main"]
           /\ ask'["task"] = ask["task"] \/ (/\ ask["task"].pc \in {"check", "get"}
                                             /\ ask'["task"].pc \in {"check", "get", "done"})
           /\ UNCHANGED <<allotVars, nodeLists, resultVars, countVars, m_bStop, aborted, nodeVars,
                          m_numRequiredPeers>>
<1>1. ask \in [Thread -> Asking] /\ "main" \in Thread /\ "task" \in Thread
  BY DEF RequestInv, TypeInv, TypeOK, Thread
<1>2. CASE TaskCheck \/ TaskWait
  <2>1. /\ UNCHANGED <<allotVars, nodeLists, resultVars, countVars, m_bStop, aborted, nodeVars>>
        /\ ask["task"].pc \in {"check", "get"}
        /\ \E c \in {"check", "get", "done"} : ask' = [ask EXCEPT !["task"].pc = c]
    BY <1>2 DEF TaskCheck, TaskWait
  <2>2. m_numRequiredPeers' = m_numRequiredPeers
    BY DEF Next, HandlePeerList, vars
  <2> QED
    BY <1>1, <2>1, <2>2 DEF Asking
<1>3. CASE \/ UNCHANGED vars \/ (\E list \in PeerLists : HandlePeerList(list))
           \/ \E n \in Node : WorkerStep(n) \/ JobDone(n) \/ RecvError(n) \/ RecvEof(n)
           \/ \E w \in Worker : WorkerDown(w) \/ WorkerUp(w)
  <2>1. UNCHANGED <<taskVars, nodeVars, m_numRequiredPeers>>
    BY <1>3 DEF vars, HandlePeerList, WorkerStep, HandleTaskRequest, HandleTaskExecute,
                HandleTaskCancel, JobDone, RecvError, RecvEof, WorkerDown, WorkerUp, Next, Step
  <2> QED
    BY <2>1 DEF taskVars
<1> QED
  BY <1>2, <1>3 DEF Next, Step

\* What is under way for a node: a request begins it and HandleEligible goes on.
LEMMA StepTurns ==
    ASSUME RequestInv, [Next]_vars, NEW m \in Node
    PROVE  /\ Engaged(m)' => Engaged(m) \/ HandleEligible(m)
           /\ Awaited(m)' => Awaited(m) \/ \E t \in Thread : AskRequest(t) /\ ask[t].node = m
<1>1. CASE \/ UNCHANGED vars \/ (\E list \in PeerLists : HandlePeerList(list))
           \/ TaskCheck \/ TaskWait
  <2>1. UNCHANGED <<toWorker, toTask, jobRunning>>
    BY <1>1 DEF vars, HandlePeerList, TaskCheck, TaskWait, netVars, workerVars, jobVars
  <2> QED
    BY <2>1 DEF Awaited, Engaged
<1>2. CASE \/ \E n \in Node : WorkerStep(n) \/ JobDone(n) \/ RecvError(n) \/ RecvEof(n)
           \/ \E w \in Worker : WorkerDown(w) \/ WorkerUp(w)
  BY <1>2, WorkerTurns, BreakTurns
<1>3. CASE \E t \in Thread : AskPeersStep(t)
  BY <1>3, AskTurns
<1>4. CASE \E n \in Node : TaskHandler(n)
  BY <1>4, HandlerTurns
<1> QED
  BY <1>1, <1>2, <1>3, <1>4 DEF Next, Step

\* A step of AskPeers keeps the quotas.
LEMMA AskQuota ==
    ASSUME StartRace = FALSE, downs = 0, CalmInv, GoneInv, QuotaInv,
           NEW t \in Thread, AskPeersStep(t), m_numRequiredPeers' = m_numRequiredPeers
    PROVE  QuotaInv'
<1>1. /\ RequestInv /\ OneAsks /\ StopInv /\ EarlyInv /\ m_numRequiredPeers \in Nat \ {0}
      /\ m_numRemainingPeers \in Int /\ m_unAllotParamList \in Seq(Param)
      /\ \A u \in Thread : ask[u].numAsking \in Nat
      /\ "main" \in Thread /\ "task" \in Thread
  BY TaskConstants DEF CalmInv, KeepInv, RequestInv, TypeInv, TypeOK, Asking, Thread
<1>2. /\ ask[t].pc \in AskStep /\ ~m_bStop
      /\ \A u \in Thread \ {t} : ask'[u] = ask[u]
  BY <1>1, AskMoves DEF RequestInv, StopInv
<1> DEFINE a == ask[t]
           b == ask'[t]
           u == m_unAllotParamList
<1>3. /\ LooksOn(t) => a.pc \in Before /\ b.pc \in Before /\ b.numAsking = a.numAsking
      /\ AskConnect(t) => a.pc \in Before /\ b.pc = "request" /\ b.numAsking = a.numAsking + 1
      /\ AskRequest(t) => a.pc = "request" /\ b.pc = "erase" /\ b.numAsking = a.numAsking
      /\ AskErase(t) => /\ a.pc = "erase" /\ b.numAsking = a.numAsking
                        /\ b.pc = IF Broke(t) THEN "finish" ELSE "loop"
      /\ AskEnough(t) => /\ a.pc \in {"loop", "finish"} /\ Broke(t) /\ b.pc = Left(t)
                         /\ m_numRemainingPeers' = m_numRemainingPeers - a.numAsking
      /\ AskGiveUp(t) \/ AskShort(t) => m_bStop' /\ b.pc = Left(t)
      /\ AskAbort(t) => ask' = ask
      /\ ~AskErase(t) => u' = u
      /\ AskErase(t) => Len(u) # 0 /\ Len(u') = Len(u) - 1
      /\ AskEnough(t) \/ m_numRemainingPeers' = m_numRemainingPeers
  <2>1. AskErase(t) => Len(u) # 0 /\ Len(u') = Len(u) - 1
    BY <1>1, AskCounts, HeadTailProperties, EmptySeq, LenProperties
  <2> QED
    BY <1>1, <2>1, AskCounts
<1>4. \/ LooksOn(t) \/ AskConnect(t) \/ AskRequest(t) \/ AskErase(t) \/ AskEnough(t)
      \/ AskGiveUp(t) \/ AskShort(t) \/ AskAbort(t)
  BY DEF AskPeersStep, LooksOn
<1>5. \A m \in Node : Engaged(m)' => Engaged(m)
  BY <1>1, AskTurns
<1>6. /\ Cardinality(Executing) \in Nat
      /\ Cardinality(Executing') <= Cardinality(Executing)
      /\ Cardinality(Executing') \in Nat
  <2>1. Executing' \in SUBSET Executing
    BY <1>5 DEF Executing
  <2> QED
    BY <1>5, <2>1, ExecutingFinite, ExecutingCounts, FS_Subset, FS_CardinalityType
<1>7. Len(u) \in Nat /\ (\A i \in {"loop", "scan", "request", "erase", "finish"} : i \in AskStep)
      /\ Left(t) \notin AskStep
  BY <1>1, LenProperties DEF AskStep, Left
<1> HIDE DEF u
<1>8. CASE t = "main"
  <2>0. m_numRequiredPeers \in Nat
    BY <1>1
  <2>1. /\ m_numRemainingPeers = m_numRequiredPeers
        /\ a.pc \in Before => /\ a.numAsking < m_numRequiredPeers
                              /\ Len(u) = m_numRequiredPeers - a.numAsking
        /\ a.pc \in Asked => /\ a.numAsking <= m_numRequiredPeers
                             /\ Len(u) = m_numRequiredPeers - a.numAsking + 1
        /\ a.pc = "finish" => a.numAsking = m_numRequiredPeers /\ Len(u) = 0
    BY <1>2, <1>8 DEF QuotaInv, StartQuota, u
  <2>2. HandlerQuota'
    BY <1>1, <1>2, <1>8 DEF QuotaInv, HandlerQuota
  <2>3. StartQuota'
    <3> DEFINE Goal == /\ b.pc \in AskStep => m_numRemainingPeers' = m_numRequiredPeers
                       /\ b.pc \in Before => /\ b.numAsking < m_numRequiredPeers
                                             /\ Len(u') = m_numRequiredPeers - b.numAsking
                       /\ b.pc \in Asked => /\ b.numAsking <= m_numRequiredPeers
                                            /\ Len(u') = m_numRequiredPeers - b.numAsking + 1
                       /\ b.pc = "finish" => b.numAsking = m_numRequiredPeers /\ Len(u') = 0
    <3>1. a.numAsking \in Nat
      BY <1>1
    <3>2. ASSUME LooksOn(t) PROVE Goal
      <4>1. ~AskErase(t) /\ ~AskEnough(t)
        BY <3>2, <1>3 DEF Before, LooksOn, AskLower, AskSkip, AskUnreachable, AskEnough, AskEnd,
                          Scanning
      <4> QED
        BY <1>3, <2>1, <3>1, <3>2, <4>1 DEF Before, Asked
    <3>3. ASSUME AskConnect(t) PROVE Goal
      <4>1. ~AskErase(t) /\ ~AskEnough(t)
        BY <3>3, <1>3 DEF Before, AskConnect, AskEnough, AskEnd, Scanning
      <4>2. /\ a.numAsking < m_numRequiredPeers /\ Len(u) = m_numRequiredPeers - a.numAsking
            /\ b.pc = "request" /\ b.numAsking = a.numAsking + 1 /\ u' = u
            /\ m_numRemainingPeers' = m_numRequiredPeers
        BY <1>3, <2>1, <3>3, <4>1
      <4>3. /\ b.numAsking <= m_numRequiredPeers
            /\ Len(u') = m_numRequiredPeers - b.numAsking + 1
        BY <2>0, <3>1, <4>2
      <4> QED
        BY <4>2, <4>3 DEF Before, Asked
    <3>4. ASSUME AskRequest(t) PROVE Goal
      <4>1. ~AskErase(t) /\ ~AskEnough(t)
        BY <3>4, <1>3
      <4> QED
        BY <1>3, <2>1, <3>1, <3>4, <4>1 DEF Before, Asked
    <3>5. ASSUME AskErase(t) PROVE Goal
      <4>1. ~AskEnough(t)
        BY <3>5, <1>3
      <4>2. Broke(t) <=> a.numAsking >= m_numRequiredPeers
        BY <2>1 DEF Broke
      <4>3. /\ a.numAsking <= m_numRequiredPeers
            /\ Len(u) = m_numRequiredPeers - a.numAsking + 1 /\ Len(u') = Len(u) - 1
            /\ b.pc = (IF Broke(t) THEN "finish" ELSE "loop") /\ b.numAsking = a.numAsking
            /\ m_numRemainingPeers' = m_numRequiredPeers
        BY <1>3, <2>1, <3>5, <4>1 DEF Asked
      <4>4. Len(u') = m_numRequiredPeers - a.numAsking
        BY <2>0, <3>1, <4>3
      <4>5. IF Broke(t) THEN a.numAsking = m_numRequiredPeers /\ Len(u') = 0
                        ELSE a.numAsking < m_numRequiredPeers
        BY <2>0, <3>1, <4>2, <4>3, <4>4
      <4> QED
        BY <4>3, <4>4, <4>5 DEF Before, Asked
    <3>6. ASSUME b.pc = Left(t) PROVE Goal
      BY <1>8, <3>6 DEF Left, Before, Asked, AskStep
    <3>7. ASSUME AskAbort(t) PROVE Goal
      <4>1. ~AskErase(t) /\ ~AskEnough(t)
        BY <3>7 DEF AskAbort, AskErase, AskEnough, AskEnd, Scanning, Candidate
      <4> QED
        BY <1>3, <2>1, <3>7, <4>1
    <3>8. Goal
      BY <1>3, <1>4, <3>2, <3>3, <3>4, <3>5, <3>6, <3>7
    <3> QED
      BY <1>8, <3>8 DEF StartQuota, u
  <2>4. RemainInv'
    <3>1. Cardinality(Executing) = 0
      <4>1. Executing = {}
        BY <1>1, <1>2, <1>8 DEF EarlyInv, Early, Executing
      <4> QED
        BY <4>1, FS_EmptySet
    <3>2. ASSUME AskEnough(t)
          PROVE  m_numRemainingPeers' = 0
      <4>1. a.numAsking >= m_numRequiredPeers /\ a.pc \in {"loop", "finish"}
        BY <1>3, <2>1, <3>2 DEF Broke
      <4>2. a.numAsking = m_numRequiredPeers
        BY <1>1, <2>1, <4>1 DEF Before
      <4> QED
        BY <1>1, <1>3, <2>1, <3>2, <4>2
    <3>3. ASSUME ask'["main"].pc \notin AskStep, ~m_bStop'
          PROVE  AskEnough(t)
      BY <1>2, <1>3, <1>4, <1>7, <1>8, <3>3 DEF Before
    <3> QED
      BY <1>6, <3>1, <3>2, <3>3 DEF RemainInv
  <2> QED
    BY <2>2, <2>3, <2>4 DEF QuotaInv
<1>9. CASE t = "task"
  <2>1. ask["main"].pc \notin AskStep /\ ask'["main"] = ask["main"]
    BY <1>1, <1>2, <1>9 DEF OneAsks
  <2>2. /\ a.pc \in Before => a.numAsking = 0
        /\ a.pc \in Asked \union {"finish"} => a.numAsking = 1
        /\ m_numRemainingPeers + Cardinality(Executing) <= 0
    BY <1>2, <1>9, <2>1 DEF QuotaInv, HandlerQuota, RemainInv
  <2>3. StartQuota'
    BY <2>1 DEF StartQuota, AskStep, Before, Asked
  <2>4. RemainInv'
    <3>1. m_numRemainingPeers' <= m_numRemainingPeers /\ m_numRemainingPeers' \in Int
      BY <1>1, <1>3
    <3> QED
      BY <1>1, <1>6, <2>2, <3>1 DEF RemainInv
  <2>5. HandlerQuota'
    <3>1. a.numAsking = 1 => Broke(t)
      BY <1>1, <1>6, <2>2 DEF Broke
    <3>2. /\ b.pc \in Before => b.numAsking = 0
          /\ b.pc \in Asked \union {"finish"} => b.numAsking = 1
      BY <1>3, <1>4, <1>9, <2>2, <3>1 DEF Before, Asked, Left
    <3> QED
      BY <1>9, <3>2 DEF HandlerQuota
  <2> QED
    BY <2>3, <2>4, <2>5 DEF QuotaInv
<1> QED
  BY <1>8, <1>9 DEF Thread

\* Every step keeps them.
LEMMA StepQuota ==
    ASSUME StartRace = FALSE, downs = 0, downs' = 0, CalmInv, GoneInv, QuotaInv, [Next]_vars
    PROVE  QuotaInv'
<1>1. RequestInv /\ m_numRequiredPeers' = m_numRequiredPeers /\ m_numRemainingPeers \in Int
  BY DEF CalmInv, RequestInv, TypeInv, TypeOK, Next, HandlePeerList, vars
<1>2. CASE \E t \in Thread : AskPeersStep(t)
  BY <1>1, <1>2, AskQuota
<1>3. ASSUME NEW n \in Node, TaskHandler(n)
      PROVE  QuotaInv'
  <2>1. /\ ask["main"].pc = "done" /\ ask'["main"] = ask["main"] /\ m_bStop' = m_bStop
        /\ ask'["task"] = Entered \/ ask'["task"].pc \in {"check", "get"}
        /\ HandleEligible(n) => m_numRemainingPeers' = m_numRemainingPeers - 1
        /\ HandleRefused(n) => m_numRemainingPeers' = m_numRemainingPeers + 1
        /\ HandleEligible(n) \/ HandleRefused(n) \/ m_numRemainingPeers' = m_numRemainingPeers
    BY <1>3, HandlerCounts
  <2>2. StartQuota' /\ HandlerQuota'
    BY <2>1 DEF StartQuota, HandlerQuota, AskStep, Before, Asked, Entered
  <2>3. /\ \A m \in Node : Engaged(m)' => Engaged(m) \/ (m = n /\ HandleEligible(n))
        /\ HandleRefused(n) => Engaged(n) /\ ~Engaged(n)'
    BY <1>1, <1>3, HandlerTurns DEF HandleRefused, Receives
  <2>4. Cardinality(Executing) \in Nat /\ Cardinality(Executing') \in Nat
    <3>1. Executing' \in SUBSET Node /\ IsFiniteSet(Node)
      BY TaskConstants, FS_Interval DEF Node, Executing
    <3> QED
      BY <3>1, ExecutingFinite, FS_Subset, FS_CardinalityType
  <2>5. m_numRemainingPeers' + Cardinality(Executing') <= m_numRemainingPeers + Cardinality(Executing)
    <3>1. CASE HandleEligible(n)
      <4>1. Cardinality(Executing') <= Cardinality(Executing) + 1
        BY <2>3, ExecutingCounts
      <4> QED
        BY <1>1, <2>1, <2>4, <3>1, <4>1
    <3>2. CASE ~HandleEligible(n) /\ HandleRefused(n)
      <4>1. Cardinality(Executing') <= Cardinality(Executing) - 1
        BY <2>3, <3>2, ExecutingCounts
      <4> QED
        BY <1>1, <2>1, <2>4, <3>2, <4>1
    <3>3. CASE ~HandleEligible(n) /\ ~HandleRefused(n)
      <4>1. Cardinality(Executing') <= Cardinality(Executing)
        BY <2>3, <3>3, ExecutingCounts
      <4> QED
        BY <1>1, <2>1, <2>4, <3>3, <4>1
    <3> QED
      BY <3>1, <3>2, <3>3
  <2>6. m_numRemainingPeers' \in Int
    BY <1>1, <2>1
  <2>7. RemainInv'
    <3>1. ~m_bStop => m_numRemainingPeers + Cardinality(Executing) <= 0
      BY <2>1 DEF QuotaInv, RemainInv, AskStep
    <3> QED
      BY <1>1, <2>1, <2>4, <2>5, <2>6, <3>1 DEF RemainInv
  <2> QED
    BY <2>2, <2>7 DEF QuotaInv
<1>4. CASE (\A t \in Thread : ~AskPeersStep(t)) /\ \A n \in Node : ~TaskHandler(n)
  <2>1. /\ ask'["main"] = ask["main"]
        /\ ask'["task"] = ask["task"] \/ ask'["task"].pc \in {"check", "get", "done"}
        /\ UNCHANGED <<m_unAllotParamList, m_numRemainingPeers, m_bStop>>
    BY <1>1, <1>4, OtherCounts DEF allotVars, countVars
  <2>2. StartQuota' /\ HandlerQuota'
    BY <1>1, <2>1 DEF QuotaInv, StartQuota, HandlerQuota, AskStep, Before, Asked
  <2>3. \A m \in Node : Engaged(m)' => Engaged(m)
    BY <1>1, <1>4, StepTurns DEF TaskHandler
  <2>4. Cardinality(Executing') <= Cardinality(Executing) /\ Cardinality(Executing) \in Nat
        /\ Cardinality(Executing') \in Nat
    <3>1. Executing' \in SUBSET Executing
      BY <2>3 DEF Executing
    <3> QED
      BY <2>3, <3>1, ExecutingFinite, ExecutingCounts, FS_Subset, FS_CardinalityType
  <2>5. RemainInv'
    BY <1>1, <2>1, <2>4 DEF QuotaInv, RemainInv
  <2> QED
    BY <2>2, <2>5 DEF QuotaInv
<1> QED
  BY <1>2, <1>3, <1>4

\* The quotas hold in the beginning.
LEMMA InitQuota == Init => QuotaInv
<1> SUFFICES ASSUME Init PROVE QuotaInv
  OBVIOUS
<1>1. /\ ask["main"].pc = "loop" /\ ask["main"].numAsking = 0 /\ ask["task"].pc = "check"
      /\ m_numRequiredPeers \in Nat \ {0} /\ m_numRemainingPeers = m_numRequiredPeers
      /\ m_unAllotParamList = [i \in 1 .. m_numRequiredPeers |-> i]
  BY TaskConstants DEF Init, Entered
<1>2. Len(m_unAllotParamList) = m_numRequiredPeers
  BY <1>1
<1> QED
  BY <1>1, <1>2 DEF QuotaInv, StartQuota, HandlerQuota, RemainInv, Before, Asked, AskStep

-----------------------------------------------------------------------------
\* Where the scan of the peer list has come

\* The thread is at a peer, or between two.
AtPeers(t) == ask[t].pc \in Before \union Asked

\* AskPeers goes by the list and the maximum it was entered with; every peer
\* before the current one is the owner or has been asked.
Scanned(t) ==
    /\ ask[t].peerList \in PeerLists
    /\ m_numMaxToTryPeers = Len(ask[t].peerList) - 1
    /\ ask[t].i <= Len(ask[t].peerList) + 1
    /\ ask[t].pc # "loop" => InList(t)
    /\ \A j \in 1 .. ask[t].i - 1 :
           ask[t].peerList[j] = Me \/ IsInTryNodes(ask[t].peerList[j])
    /\ ask[t].pc \in Asked => IsInTryNodes(Peer(t))
    /\ ask[t].pc = "scan" => m_currentThreshold = MediumThreshold

\* Until a handler's call has asked somebody: once it has lowered the threshold,
\* nobody counts as tried; before, it went on because somebody was left to try.
HandlerScan ==
    ask["task"].pc \in Before =>
        IF m_currentThreshold = MediumThreshold
        THEN m_tryNodes = <<>> /\ m_numTotalPeersTried = 0
        ELSE ask["task"].i > 1 => ~Exhausted

\* What was asked was counted, though RemovePeerFromTryNodes may take it off the list.
TriedInv ==
    /\ ToSet(m_tryNodes) \subseteq Made
    /\ Len(m_tryNodes) <= m_numTotalPeersTried

ScanInv == TriedInv /\ HandlerScan /\ \A t \in Thread : AtPeers(t) => Scanned(t)

\* RemovePeerFromTryNodes and RemovePeerFromFinalNodes take away one node of the
\* peer, if there is one.
LEMMA RemovePeerOne ==
    ASSUME NEW S, NEW s \in Seq(S), NEW n
    PROVE  /\ Len(RemovePeerFrom(s, n)) <= Len(s)
           /\ \/ /\ RemovePeerFrom(s, n) = s
                 /\ \A m \in ToSet(s) : nodePeer[m] # nodePeer[n]
              \/ \E x \in ToSet(s) :
                     /\ nodePeer[x] = nodePeer[n]
                     /\ ToSet(s) \subseteq ToSet(RemovePeerFrom(s, n)) \union {x}
                     /\ IsInjective(s) => x \notin ToSet(RemovePeerFrom(s, n))
<1> DEFINE I == {i \in 1 .. Len(s) : nodePeer[s[i]] = nodePeer[n]}
<1>1. Len(s) \in Nat /\ DOMAIN s = 1 .. Len(s)
  BY LenProperties
<1>2. CASE I = {}
  <2>1. RemovePeerFrom(s, n) = s
    BY <1>2 DEF RemovePeerFrom, RemoveFirstMatch
  <2>2. \A m \in ToSet(s) : nodePeer[m] # nodePeer[n]
    BY <1>1, <1>2 DEF ToSet
  <2> QED
    BY <1>1, <2>1, <2>2
<1>3. CASE I # {}
  <2>1. Min(I) \in I
    <3>1. I \subseteq Nat
      BY <1>1
    <3> HIDE DEF I
    <3> QED
      BY <1>3, <3>1, MinOfNat
  <2>2. RemovePeerFrom(s, n) = RemoveAt(s, Min(I))
    BY <1>3 DEF RemovePeerFrom, RemoveFirstMatch, SelectInSeq
  <2>3. Min(I) \in 1 .. Len(s) /\ nodePeer[s[Min(I)]] = nodePeer[n]
    BY <2>1
  <2> HIDE DEF I
  <2>4. /\ Len(RemoveAt(s, Min(I))) = Len(s) - 1
        /\ ToSet(s) \subseteq ToSet(RemoveAt(s, Min(I))) \union {s[Min(I)]}
        /\ IsInjective(s) => s[Min(I)] \notin ToSet(RemoveAt(s, Min(I)))
    BY <2>3, RemoveAtFacts, RemoveAtOnce
  <2>5. s[Min(I)] \in ToSet(s)
    BY <1>1, <2>3 DEF ToSet
  <2>6. Len(RemovePeerFrom(s, n)) <= Len(s)
    BY <1>1, <2>2, <2>4
  <2> QED
    BY <2>2, <2>3, <2>4, <2>5, <2>6
<1> QED
  BY <1>2, <1>3

\* The peer AskPeers is at is the owner or lives.
LEMMA PeerLives ==
    ASSUME downs = 0, RequestInv, GoneInv, NEW t \in Thread, Scanned(t), InList(t)
    PROVE  Peer(t) \in up \union {Me}
<1>1. ask[t].peerList \in Seq(Worker \union {Me}) /\ ask[t].i \in Nat \ {0} /\ up = Worker
  BY AliveSends DEF RequestInv, TypeInv, TypeOK, Asking, PeerList
<1> QED
  BY <1>1, LenProperties, ElementOfSeq DEF InList, Peer

\* What AskPeers leaves of the nodes it has asked.
LEMMA AskTries ==
    ASSUME downs = 0, RequestInv, GoneInv, TriedInv, NEW t \in Thread, AskPeersStep(t),
           ~AskUnreachable(t)
    PROVE  /\ TriedInv'
           /\ \/ AskLower(t) \/ AskGiveUp(t) \/ AskShort(t)
              \/ /\ \A p \in Worker : IsInTryNodes(p) => IsInTryNodes(p)'
                 /\ m_currentThreshold' = m_currentThreshold
                 /\ AskConnect(t) \/ UNCHANGED <<m_tryNodes, m_numTotalPeersTried>>
           /\ AskConnect(t) => IsInTryNodes(Peer(t))'
           /\ AskLower(t) => m_tryNodes' = <<>> /\ m_numTotalPeersTried' = 0
           /\ m_numMaxToTryPeers' = m_numMaxToTryPeers
<1>1. /\ m_tryNodes \in Seq(Node) /\ m_numTotalPeersTried \in Nat /\ ask \in [Thread -> Asking]
      /\ numNodes \in 0 .. MaxNodes /\ nodePeer \in [Node -> Worker \union {None}]
      /\ Made = 1 .. numNodes /\ conn \in [Node -> ConnState] /\ TypeInv
  BY DEF RequestInv, TypeInv, TypeOK, MadeInv
<1>2. CASE AskConnect(t)
  <2> DEFINE n == numNodes + 1
  <2>1. /\ n \in Node \ Made /\ m_tryNodes' = Append(m_tryNodes, n)
        /\ nodePeer' = [nodePeer EXCEPT ![n] = Peer(t)] /\ conn' = [conn EXCEPT ![n] = "up"]
        /\ m_numTotalPeersTried' = m_numTotalPeersTried + 1
        /\ m_currentThreshold' = m_currentThreshold
        /\ m_numMaxToTryPeers' = m_numMaxToTryPeers
    BY <1>1, <1>2, TaskConstants DEF AskConnect, Node
  <2>2. /\ ToSet(m_tryNodes') = ToSet(m_tryNodes) \union {n}
        /\ Len(m_tryNodes') = Len(m_tryNodes) + 1
    BY <1>1, <2>1, AppendOnce, AppendProperties
  <2> HIDE DEF n
  <2>3. Made' = Made \union {n}
    BY <1>1, <2>1 DEF Made
  <2>4. Len(m_tryNodes) \in Nat
    BY <1>1, LenProperties
  <2>5. TriedInv'
    BY <1>1, <2>1, <2>2, <2>3, <2>4 DEF TriedInv
  <2>6. \A p \in Worker : IsInTryNodes(p) => IsInTryNodes(p)'
    BY <1>1, <2>1, <2>2 DEF IsInTryNodes, TriedInv
  <2>7. Peer(t)' = Peer(t)
    <3>1. ask'[t].i = ask[t].i /\ ask'[t].peerList = ask[t].peerList
      BY <1>1, <1>2 DEF AskConnect, Asking
    <3> QED
      BY <3>1 DEF Peer
  <2>8. IsInTryNodes(Peer(t))'
    BY <1>1, <2>1, <2>2, <2>7 DEF IsInTryNodes
  <2>9. ~AskLower(t)
    BY <1>2, <2>1 DEF AskLower, nodeVars
  <2> QED
    BY <1>2, <2>1, <2>5, <2>6, <2>8, <2>9
<1>3. CASE ~AskConnect(t)
  <2>1. nodePeer' = nodePeer /\ m_numMaxToTryPeers' = m_numMaxToTryPeers
    BY <1>3 DEF AskPeersStep, AskLower, AskGiveUp, AskSkip, AskUnreachable, AskRequest, AskErase,
                AskAbort, AskShort, AskEnough, nodeVars, countVars, triedVars
  <2>2. Made' = Made
    <3>1. CASE AskRequest(t)
      <4>1. ParamToAsk \in Param
        BY <1>1, <3>1, HeadTailProperties DEF AskRequest, ParamToAsk, TypeInv, TypeOK
      <4> QED
        BY <1>1, <3>1, <4>1, SendTyped, ConstantMessages DEF AskRequest
    <3>2. CASE AskGiveUp(t) \/ AskShort(t)
      BY <1>1, <3>2, TaskCancelTyped DEF AskGiveUp, AskShort
    <3>3. CASE ~AskRequest(t) /\ ~AskGiveUp(t) /\ ~AskShort(t)
      <4>1. conn' = conn
        BY <1>3, <3>3 DEF AskPeersStep, AskLower, AskSkip, AskUnreachable, AskErase,
                AskAbort, AskEnough, netVars
      <4> QED
        BY <4>1 DEF Made
    <3> QED
      BY <3>1, <3>2, <3>3
  <2>3. CASE AskLower(t)
    <3>1. m_tryNodes' = <<>> /\ m_numTotalPeersTried' = 0
      BY <2>3 DEF AskLower
    <3> QED
      BY <1>3, <2>1, <2>3, <3>1 DEF TriedInv, ToSet
  <2>4. CASE ~AskLower(t) /\ (AskGiveUp(t) \/ AskShort(t))
    <3>1. m_tryNodes' = <<>> /\ m_numTotalPeersTried' = m_numTotalPeersTried
      BY <2>4 DEF AskGiveUp, AskShort, TaskCancel, countVars, triedVars
    <3> QED
      BY <1>1, <1>3, <2>1, <2>4, <3>1 DEF TriedInv, ToSet
  <2>5. CASE ~AskLower(t) /\ ~AskGiveUp(t) /\ ~AskShort(t)
    <3>1. UNCHANGED <<m_tryNodes, m_numTotalPeersTried, m_currentThreshold>>
      BY <1>3, <2>5 DEF AskPeersStep, AskSkip, AskUnreachable, AskRequest, AskErase, AskAbort,
                        AskEnough, nodeLists, countVars, triedVars
    <3> QED
      BY <1>3, <2>1, <2>2, <2>5, <3>1 DEF TriedInv, IsInTryNodes
  <2> QED
    BY <2>3, <2>4, <2>5
<1> QED
  BY <1>2, <1>3

\* A step of AskPeers asks peers that live, and keeps its place.
LEMMA AskScans ==
    ASSUME StartRace = FALSE, downs = 0, CalmInv, GoneInv, QuotaInv, ScanInv,
           NEW t \in Thread, AskPeersStep(t), m_numRequiredPeers' = m_numRequiredPeers
    PROVE  ~AskUnreachable(t) /\ ScanInv'
<1>1. /\ RequestInv /\ OneAsks /\ ask \in [Thread -> Asking] /\ ask[t].i \in Nat \ {0}
      /\ Len(ask[t].peerList) \in Nat /\ m_numTotalPeersTried \in Nat
      /\ ask[t].peerList \in Seq(Worker \union {Me})
      /\ m_numRemainingPeers \in Int
  BY LenProperties
     DEF CalmInv, KeepInv, RequestInv, TypeInv, TypeOK, Asking, PeerList
<1>2. /\ ask[t].pc \in AskStep /\ ~m_bStop
      /\ \A u \in Thread \ {t} : ask'[u] = ask[u] /\ ask[u].pc \notin AskStep
  BY <1>1, AskMoves DEF RequestInv, CalmInv, StopInv, OneAsks, Thread
<1>3. AtPeers(t) => Scanned(t)
  BY DEF ScanInv
<1>4. ~AskUnreachable(t)
  <2> SUFFICES ASSUME AskUnreachable(t) PROVE FALSE
    OBVIOUS
  <2>1. Scanning(t) /\ Candidate(t) /\ Peer(t) \notin up
    BY DEF AskUnreachable
  <2>2. AtPeers(t)
    BY <2>1 DEF AtPeers, Scanning, Before
  <2>3. InList(t)
    BY <1>3, <2>1, <2>2 DEF Scanned, Scanning
  <2> QED
    BY <1>1, <1>3, <2>1, <2>2, <2>3, PeerLives DEF Candidate
<1>5. /\ TriedInv'
      /\ \/ AskLower(t) \/ AskGiveUp(t) \/ AskShort(t)
         \/ /\ \A p \in Worker : IsInTryNodes(p) => IsInTryNodes(p)'
            /\ m_currentThreshold' = m_currentThreshold
            /\ AskConnect(t) \/ UNCHANGED <<m_tryNodes, m_numTotalPeersTried>>
      /\ AskConnect(t) => IsInTryNodes(Peer(t))'
      /\ AskLower(t) => m_tryNodes' = <<>> /\ m_numTotalPeersTried' = 0
      /\ m_numMaxToTryPeers' = m_numMaxToTryPeers
  BY <1>1, <1>4, AskTries DEF ScanInv
<1>6. AskPeersStep(t) /\ \A u \in Thread \ {t} : ~AtPeers(u)'
  BY <1>2 DEF AtPeers, Before, Asked, AskStep
<1> DEFINE list == ask[t].peerList
           Still(p) == \E n \in ToSet(m_tryNodes') : nodePeer'[n] = p
<1>7. /\ ask'[t].peerList = list
      /\ AskLower(t) => ask'[t].i = 1 /\ ask'[t].pc = "scan"
      /\ AskSkip(t) => ask'[t].i = ask[t].i + 1 /\ ask'[t].pc = "loop"
      /\ AskErase(t) => ask'[t].i = ask[t].i + 1 /\ ask'[t].pc \in {"loop", "finish"}
      /\ AskConnect(t) \/ AskRequest(t) \/ AskAbort(t) => ask'[t].i = ask[t].i
  <2>1. AskLower(t) => /\ ask'[t].peerList = list
                       /\ ask'[t].i = 1 /\ ask'[t].pc = "scan"
    BY <1>1 DEF AskLower, Asking
  <2>2. AskSkip(t) => /\ ask'[t].peerList = list
                      /\ ask'[t].i = ask[t].i + 1 /\ ask'[t].pc = "loop"
    BY <1>1 DEF AskSkip, Asking
  <2>3. AskConnect(t) => ask'[t].peerList = list /\ ask'[t].i = ask[t].i
    BY <1>1 DEF AskConnect, Asking
  <2>4. ASSUME AskRequest(t)
        PROVE  ask'[t].peerList = list /\ ask'[t].i = ask[t].i
    <3>1. ask'[t].pc = "erase"
      BY <1>1, <2>4, AskCounts
    <3>2. ask' = [ask EXCEPT ![t].pc = "erase"]
      BY <1>1, <2>4, <3>1 DEF AskRequest, NextPeer, Asking
    <3> QED
      BY <1>1, <3>2 DEF Asking
  <2>5. AskErase(t) => /\ ask'[t].peerList = list
                       /\ ask'[t].i = ask[t].i + 1 /\ ask'[t].pc \in {"loop", "finish"}
    BY <1>1 DEF AskErase, NextPeer, Asking
  <2>6. AskAbort(t) => ask'[t].peerList = list /\ ask'[t].i = ask[t].i
    BY DEF AskAbort
  <2>7. AskGiveUp(t) \/ AskShort(t) \/ AskEnough(t) => ask'[t].peerList = list
    BY <1>1 DEF AskGiveUp, AskShort, AskEnough, AskEnd, Asking
  <2> QED
    BY <1>4, <2>1, <2>2, <2>3, <2>4, <2>5, <2>6, <2>7 DEF AskPeersStep
<1>8. ASSUME AtPeers(t)'
      PROVE  /\ AskLower(t) \/ AskSkip(t) \/ AskConnect(t) \/ AskRequest(t) \/ AskErase(t) \/ AskAbort(t)
             /\ AtPeers(t)
             /\ AskAbort(t) => ask' = ask
  <2>1. Left(t) \notin Before \union Asked
    BY DEF Left, Before, Asked
  <2>2. ~AskGiveUp(t) /\ ~AskShort(t) /\ ~AskEnough(t)
    BY <1>1, <1>8, <2>1, AskCounts DEF AtPeers
  <2>3. AskLower(t) \/ AskSkip(t) \/ AskConnect(t) \/ AskRequest(t) \/ AskErase(t) \/ AskAbort(t)
    BY <1>4, <2>2 DEF AskPeersStep
  <2>4. AskAbort(t) => ask' = ask
    BY DEF AskAbort
  <2>5. ~AskAbort(t) => ask[t].pc \in Before \union Asked
    BY <1>1, <2>3, AskCounts DEF LooksOn, Asked
  <2> QED
    BY <1>8, <2>3, <2>4, <2>5 DEF AtPeers
<1>9. ASSUME AtPeers(t)'
      PROVE  Scanned(t)'
  <2>1. /\ list \in PeerLists /\ m_numMaxToTryPeers = Len(list) - 1
        /\ ask[t].i <= Len(list) + 1 /\ (ask[t].pc # "loop" => InList(t))
        /\ \A j \in 1 .. ask[t].i - 1 : list[j] = Me \/ IsInTryNodes(list[j])
        /\ ask[t].pc \in Asked => IsInTryNodes(Peer(t))
        /\ ask[t].pc = "scan" => m_currentThreshold = MediumThreshold
    BY <1>3, <1>8, <1>9 DEF Scanned
  <2>2. AskLower(t) \/ AskSkip(t) \/ AskConnect(t) \/ AskErase(t) => ask[t].i <= Len(list)
    BY <2>1, <1>1, AskCounts DEF AskLower, AskSkip, AskConnect, Scanning, InList
  <2>3. \A j \in 1 .. Len(list) : list[j] \in Worker \union {Me}
    BY <1>1, ElementOfSeq
  <2>4. CASE AskLower(t)
    <3>1. m_currentThreshold' = MediumThreshold
      BY <2>4 DEF AskLower
    <3>2. InList(t)' /\ ask'[t].i - 1 = 0 /\ ask'[t].i <= Len(list) + 1
      BY <1>1, <1>7, <2>2, <2>4 DEF InList
    <3> QED
      BY <1>5, <1>7, <2>1, <2>4, <3>1, <3>2 DEF Scanned, Asked
  <2>5. CASE ~AskLower(t)
    <3>1. /\ \A p \in Worker : IsInTryNodes(p) => Still(p)
          /\ m_currentThreshold' = m_currentThreshold
      <4>1. ~AskGiveUp(t) /\ ~AskShort(t)
        BY <1>1, <1>9, AskCounts DEF AtPeers, Left, Before, Asked
      <4> QED
        BY <1>5, <2>5, <4>1 DEF IsInTryNodes
    <3>2. \A j \in 1 .. ask[t].i - 1 : list[j] = Me \/ Still(list[j])
      <4> SUFFICES ASSUME NEW j \in 1 .. ask[t].i - 1, list[j] # Me
                   PROVE  Still(list[j])
        OBVIOUS
      <4>1. list[j] \in Worker
        BY <1>1, <2>1, <2>3
      <4> QED
        BY <2>1, <3>1, <4>1
    <3>3. CASE AskSkip(t) \/ AskErase(t)
      <4>1. Peer(t) = Me \/ IsInTryNodes(Peer(t))
        BY <1>1, <2>1, <3>3, AskCounts DEF AskSkip, Candidate, Asked
      <4>2. list[ask[t].i] = Me \/ Still(list[ask[t].i])
        BY <1>1, <2>2, <2>3, <3>1, <3>3, <4>1 DEF Peer
      <4>3. ask'[t].pc = "loop" /\ ask'[t].i = ask[t].i + 1
        BY <1>7, <1>9, <3>3 DEF AtPeers, Before, Asked
      <4>4. \A j \in 1 .. ask'[t].i - 1 : list[j] = Me \/ Still(list[j])
        <5>1. \A j \in 1 .. ask'[t].i - 1 : j \in 1 .. ask[t].i - 1 \/ j = ask[t].i
          BY <1>1, <4>3
        <5> QED
          BY <3>2, <4>2, <5>1
      <4>5. ask'[t].i <= Len(list) + 1
        BY <1>1, <2>2, <3>3, <4>3
      <4> QED
        BY <1>5, <1>7, <2>1, <4>3, <4>4, <4>5 DEF Scanned, Asked, IsInTryNodes
    <3>4. CASE AskConnect(t)
      <4>1. ask'[t].pc = "request" /\ ask'[t].i = ask[t].i /\ IsInTryNodes(Peer(t))'
        BY <1>1, <1>5, <1>7, <3>4, AskCounts
      <4>2. InList(t)'
        BY <1>7, <2>2, <3>4, <4>1 DEF InList
      <4> QED
        BY <1>5, <1>7, <2>1, <3>2, <4>1, <4>2 DEF Scanned, IsInTryNodes
    <3>5. CASE AskRequest(t) \/ AskAbort(t)
      <4>1. /\ ask'[t].i = ask[t].i
            /\ ask'[t].pc # "loop" => InList(t)
            /\ ask'[t].pc \in Asked => ask[t].pc \in Asked
            /\ ask'[t].pc = "scan" => ask[t].pc = "scan"
        BY <1>1, <1>7, <1>8, <1>9, <2>1, <3>5, AskCounts DEF Asked
      <4>2. (InList(t) => InList(t)') /\ Peer(t)' = list[ask[t].i]
        BY <1>7, <4>1 DEF InList, Peer
      <4>3. ASSUME ask'[t].pc \in Asked
            PROVE  Still(list[ask[t].i])
        <5>1. IsInTryNodes(list[ask[t].i])
          BY <2>1, <4>1, <4>3 DEF Peer
        <5>2. list[ask[t].i] \in Worker
          BY <1>1, <5>1 DEF IsInTryNodes, ScanInv, TriedInv, RequestInv, TypeInv, NodeInv
        <5> QED
          BY <3>1, <5>1, <5>2
      <4>4. ask'[t].pc \in Asked => IsInTryNodes(Peer(t))'
        BY <4>2, <4>3 DEF IsInTryNodes
      <4> QED
        BY <1>5, <1>7, <2>1, <3>1, <3>2, <4>1, <4>2, <4>4 DEF Scanned, IsInTryNodes
    <3> QED
      BY <1>8, <1>9, <2>5, <3>3, <3>4, <3>5
  <2> QED
    BY <2>4, <2>5
<1>10. HandlerScan'
  <2>1. CASE t = "main"
    BY <1>2, <2>1 DEF HandlerScan, Thread, Before, AskStep
  <2>2. CASE t = "task"
    <3> SUFFICES ASSUME ask'[t].pc \in Before
                 PROVE  IF m_currentThreshold' = MediumThreshold
                        THEN m_tryNodes' = <<>> /\ m_numTotalPeersTried' = 0
                        ELSE ask'[t].i > 1 => ~Exhausted'
      BY <2>2 DEF HandlerScan
    <3>1. AskLower(t) \/ AskSkip(t) \/ AskAbort(t)
      <4>1. ~AskErase(t)
        <5>1. HandlerQuota /\ HandlerQuota'
          BY AskQuota DEF QuotaInv
        <5>2. AskErase(t) => ask[t].numAsking = 1 /\ ask'[t].numAsking = 0
          BY <1>1, <2>2, <5>1, AskCounts DEF HandlerQuota, Asked
        <5> QED
          BY <1>1, <5>2, AskCounts
      <4>2. ~AskConnect(t) /\ ~AskRequest(t)
        BY <1>1, AskCounts DEF Before
      <4> QED
        BY <1>8, <4>1, <4>2 DEF AtPeers
    <3>2. CASE AskLower(t)
      BY <1>5, <3>2 DEF AskLower
    <3>3. CASE ~AskLower(t) /\ (AskSkip(t) \/ AskAbort(t))
      <4>1. UNCHANGED <<m_tryNodes, m_numTotalPeersTried, m_numMaxToTryPeers, m_currentThreshold>>
        BY <3>3 DEF AskSkip, AskAbort, nodeLists, countVars, triedVars
      <4>2. ask[t].pc \in Before
        BY <1>1, <1>8, <3>3, AskCounts DEF LooksOn
      <4>3. Exhausted' = Exhausted
        BY <4>1 DEF Exhausted
      <4>4. CASE AskSkip(t) /\ m_currentThreshold # MediumThreshold
        <5>1. ask[t].pc # "scan"
          BY <1>3, <4>2, <4>4 DEF AtPeers, Scanned
        <5>2. ~Exhausted
          BY <4>4, <5>1 DEF AskSkip, Scanning
        <5> QED
          BY <4>1, <4>3, <4>4, <5>2
      <4>5. CASE m_currentThreshold = MediumThreshold \/ AskAbort(t)
        BY <1>8, <2>2, <4>1, <4>2, <4>3, <4>5 DEF HandlerScan, ScanInv, AtPeers, AskAbort
      <4> QED
        BY <3>3, <4>4, <4>5
    <3> QED
      BY <3>1, <3>2, <3>3
  <2> QED
    BY <2>1, <2>2 DEF Thread
<1> QED
  BY <1>4, <1>5, <1>6, <1>9, <1>10 DEF ScanInv

\* An answer that makes the task ask starts a scan of the current list.
LEMMA HandlerScans ==
    ASSUME StartRace = FALSE, downs = 0, CalmInv, GoneInv, ScanInv, NEW n \in Node, TaskHandler(n)
    PROVE  ScanInv'
<1>1. /\ RequestInv /\ ask["main"].pc = "done" /\ ask'["main"] = ask["main"]
      /\ HandleNotEligible(n) \/ HandleRefused(n) => ask'["task"] = Entered
      /\ ~HandleNotEligible(n) /\ ~HandleRefused(n) => ask'["task"].pc \in {"check", "get"}
      /\ m_tryNodes \in Seq(Node) /\ m_peerList \in PeerLists /\ m_peerList \in PeerList
      /\ m_numTotalPeersTried \in Nat
  BY HandlerCounts, TaskConstants DEF CalmInv, RequestInv, TypeInv, TypeOK
<1>2. TriedInv'
  <2>1. /\ m_numTotalPeersTried' = m_numTotalPeersTried
        /\ m_tryNodes' = m_tryNodes \/ m_tryNodes' = RemovePeerFrom(m_tryNodes, n)
    BY DEF TaskHandler, HandleEligible, HandleNotEligible, HandleNotEligibleAbort, HandleExecuting,
           HandleRefused, HandleTaskResult, HandlePeerConnFailure, IgnorePeerConnFailure,
           nodeLists, countVars, triedVars
  <2>2. /\ ToSet(m_tryNodes') \subseteq ToSet(m_tryNodes)
        /\ Len(m_tryNodes') <= Len(m_tryNodes) /\ Len(m_tryNodes') \in Nat
    BY <1>1, <2>1, RemovePeerFacts, RemovePeerOne, LenProperties
  <2>3. Made' = Made /\ Len(m_tryNodes) \in Nat
    BY <1>1, HandlerConnects, LenProperties
  <2> QED
    BY <1>1, <2>1, <2>2, <2>3 DEF ScanInv, TriedInv
<1>3. CASE HandleNotEligible(n) \/ HandleRefused(n)
  <2>1. /\ ask'["task"] = Entered /\ m_currentThreshold' = HighThreshold
        /\ m_numMaxToTryPeers' = Len(m_peerList) - 1
    BY <1>1, <1>3 DEF HandleNotEligible, HandleRefused, AskPeers, MaxToTry
  <2>2. /\ ask'["task"].pc = "loop" /\ ask'["task"].i = 1
        /\ ask'["task"].peerList = m_peerList
    BY <2>1 DEF Entered
  <2>3. HandlerScan'
    BY <2>1, <2>2 DEF HandlerScan, HighThreshold, MediumThreshold
  <2>4. Scanned("task")'
    <3>1. Len(m_peerList) \in Nat /\ 1 .. ask'["task"].i - 1 = {}
      BY <1>1, <2>2, LenProperties DEF PeerList
    <3> QED
      BY <1>1, <2>1, <2>2, <3>1 DEF Scanned, Asked
  <2>5. ~AtPeers("main")'
    BY <1>1 DEF AtPeers, Before, Asked
  <2> QED
    BY <1>2, <2>3, <2>4, <2>5 DEF ScanInv, Thread
<1>4. CASE ~HandleNotEligible(n) /\ ~HandleRefused(n)
  <2>1. \A t \in Thread : ~AtPeers(t)'
    BY <1>1, <1>4 DEF AtPeers, Before, Asked, Thread
  <2>2. ask'["task"].pc \notin Before
    BY <1>1, <1>4 DEF Before
  <2> QED
    BY <1>2, <2>1, <2>2 DEF ScanInv, HandlerScan
<1> QED
  BY <1>3, <1>4

\* Every step keeps the scan's place.
LEMMA StepScan ==
    ASSUME StartRace = FALSE, downs = 0, downs' = 0, CalmInv, GoneInv, QuotaInv, ScanInv, [Next]_vars
    PROVE  ScanInv'
<1>1. RequestInv /\ m_numRequiredPeers' = m_numRequiredPeers
  BY DEF CalmInv, Next, HandlePeerList, vars
<1>2. CASE \E t \in Thread : AskPeersStep(t)
  BY <1>1, <1>2, AskScans
<1>3. CASE \E n \in Node : TaskHandler(n)
  BY <1>3, HandlerScans
<1>4. CASE (\A t \in Thread : ~AskPeersStep(t)) /\ \A n \in Node : ~TaskHandler(n)
  <2>1. /\ ask'["main"] = ask["main"]
        /\ ask'["task"] = ask["task"] \/ ask'["task"].pc \in {"check", "get", "done"}
        /\ UNCHANGED <<m_tryNodes, m_numTotalPeersTried, m_numMaxToTryPeers, m_currentThreshold,
                       nodePeer>>
    BY <1>1, <1>4, OtherCounts DEF nodeLists, countVars, triedVars, nodeVars
  <2>2. Made \subseteq Made'
    BY <1>1, NodesStay
  <2>3. TriedInv'
    BY <2>1, <2>2 DEF ScanInv, TriedInv
  <2>4. \A t \in Thread : AtPeers(t)' => AtPeers(t) /\ ask'[t] = ask[t]
    BY <2>1 DEF AtPeers, Before, Asked, Thread
  <2>5. ASSUME NEW t \in Thread, AtPeers(t)'
        PROVE  Scanned(t)'
    <3>1. Scanned(t) /\ ask'[t] = ask[t]
      BY <2>4, <2>5 DEF ScanInv
    <3>2. /\ InList(t)' = InList(t) /\ Peer(t)' = Peer(t)
          /\ \A p : IsInTryNodes(p)' = IsInTryNodes(p)
      BY <2>1, <3>1 DEF InList, Peer, IsInTryNodes
    <3> DEFINE list == ask[t].peerList
    <3>3. \A j \in 1 .. ask[t].i - 1 : list[j] = Me \/ \E n \in ToSet(m_tryNodes) : nodePeer[n] = list[j]
      BY <3>1 DEF Scanned, IsInTryNodes
    <3>4. ask[t].pc \in Asked => \E n \in ToSet(m_tryNodes) : nodePeer[n] = Peer(t)
      BY <3>1 DEF Scanned, IsInTryNodes
    <3> QED
      BY <2>1, <3>1, <3>2, <3>3, <3>4 DEF Scanned, IsInTryNodes
  <2>6. HandlerScan'
    <3>1. ask'["task"].pc \in Before => ask'["task"] = ask["task"]
      BY <2>1 DEF Before
    <3>2. Exhausted' = Exhausted
      BY <2>1 DEF Exhausted
    <3> QED
      BY <2>1, <3>1, <3>2 DEF ScanInv, HandlerScan
  <2> QED
    BY <2>3, <2>5, <2>6 DEF ScanInv
<1> QED
  BY <1>2, <1>3, <1>4

\* Start begins with the list it was created with and has asked nobody.
LEMMA InitScan == Init => ScanInv
<1> SUFFICES ASSUME Init PROVE ScanInv
  OBVIOUS
<1>1. /\ ask["main"] = Entered /\ ask["task"].pc = "check" /\ m_tryNodes = <<>>
      /\ m_numTotalPeersTried = 0 /\ m_peerList \in PeerLists
      /\ m_numMaxToTryPeers = Len(m_peerList) - 1
  BY DEF Init, Entered, MaxToTry
<1>2. /\ ask["main"].pc = "loop" /\ ask["main"].i = 1 /\ ask["main"].peerList = m_peerList
  BY <1>1 DEF Entered
<1>3. TriedInv
  BY <1>1 DEF TriedInv, ToSet
<1>4. HandlerScan
  BY <1>1 DEF HandlerScan, Before
<1>5. Scanned("main")
  <2>1. Len(m_peerList) \in Nat /\ 1 .. ask["main"].i - 1 = {}
    BY <1>1, <1>2, TaskConstants, LenProperties DEF PeerList
  <2> QED
    BY <1>1, <1>2, <2>1 DEF Scanned, Asked
<1>6. ~AtPeers("task")
  BY <1>1 DEF AtPeers, Before, Asked
<1> QED
  BY <1>3, <1>4, <1>5, <1>6 DEF ScanInv, Thread

-----------------------------------------------------------------------------
\* Nothing is left unasked

\* No peer is listed twice, and besides the owner (or in its place) there is one
\* at least.
UsableLists == \A list \in PeerLists : IsInjective(list) /\ Len(list) >= 2

\* The size of an interval.
LEMMA IntervalSize == \A k \in Nat : IsFiniteSet(1 .. k) /\ Cardinality(1 .. k) = k
<1> TAKE k \in Nat
<1>1. /\ IsFiniteSet(1 .. k)
      /\ Cardinality(1 .. k) = IF 1 > k THEN 0 ELSE k - 1 + 1
  BY FS_Interval
<1> QED
  BY <1>1

\* When every peer of a list but the owner is the peer of one of some nodes, the
\* list is at most one longer.
LEMMA ListBound ==
    ASSUME NEW S, NEW list \in Seq(S), IsInjective(list),
           NEW T, NEW s \in Seq(T), NEW peer,
           \A j \in 1 .. Len(list) : list[j] = Me \/ \E n \in ToSet(s) : peer[n] = list[j]
    PROVE  Len(list) <= Len(s) + 1
<1> DEFINE D == {j \in 1 .. Len(list) : list[j] # Me}
           f == [j \in D |-> CHOOSE k \in 1 .. Len(s) : peer[s[k]] = list[j]]
<1>1. /\ Len(list) \in Nat /\ DOMAIN list = 1 .. Len(list)
      /\ Len(s) \in Nat /\ DOMAIN s = 1 .. Len(s)
  BY LenProperties
<1>2. \A j \in D : f[j] \in 1 .. Len(s) /\ peer[s[f[j]]] = list[j]
  <2> TAKE j \in D
  <2>1. \E k \in 1 .. Len(s) : peer[s[k]] = list[j]
    BY <1>1 DEF ToSet
  <2> QED
    BY <2>1
<1>3. f \in Injection(D, 1 .. Len(s))
  <2>1. f \in [D -> 1 .. Len(s)]
    BY <1>2
  <2>2. \A i, j \in D : f[i] = f[j] => i = j
    <3> TAKE i, j \in D
    <3> HAVE f[i] = f[j]
    <3>1. list[i] = list[j]
      BY <1>2
    <3> QED
      BY <1>1, <3>1 DEF IsInjective
  <2> HIDE DEF f, D
  <2> QED
    BY <2>1, <2>2 DEF Injection, IsInjective
<1> HIDE DEF f
<1>4. /\ IsFiniteSet(D) /\ Cardinality(D) <= Len(s) /\ Cardinality(D) \in Nat
  <2>1. IsFiniteSet(1 .. Len(s)) /\ Cardinality(1 .. Len(s)) = Len(s)
    BY <1>1, IntervalSize
  <2>2. IsFiniteSet(D) /\ Cardinality(D) <= Cardinality(1 .. Len(s))
    BY <1>3, <2>1, FS_Injection
  <2> QED
    BY <2>1, <2>2, FS_CardinalityType
<1>5. CASE \A j \in 1 .. Len(list) : list[j] # Me
  <2>1. D = 1 .. Len(list)
    BY <1>5
  <2>2. Cardinality(D) = Len(list)
    BY <1>1, <2>1, IntervalSize
  <2> HIDE DEF D
  <2> QED
    BY <1>1, <1>4, <2>2
<1>6. ASSUME NEW m \in 1 .. Len(list), list[m] = Me
      PROVE  Len(list) <= Len(s) + 1
  <2>1. \A j \in 1 .. Len(list) : list[j] = Me => j = m
    BY <1>1, <1>6 DEF IsInjective
  <2>2. D \union {m} = 1 .. Len(list) /\ m \notin D
    BY <1>6, <2>1
  <2>3. Cardinality(D \union {m}) = Cardinality(D) + 1
    BY <1>4, <2>2, FS_AddElement
  <2>4. Cardinality(D \union {m}) = Len(list)
    BY <1>1, <2>2, IntervalSize
  <2> HIDE DEF D
  <2> QED
    BY <1>1, <1>4, <2>3, <2>4
<1> QED
  BY <1>5, <1>6

\* At the end of the list, a thread has tried as many peers as the list holds,
\* but for the owner.
LEMMA PastTheEnd ==
    ASSUME RequestInv, TriedInv, NEW t \in Thread, Scanned(t), ~InList(t), IsInjective(ask[t].peerList)
    PROVE  /\ Len(ask[t].peerList) <= Len(m_tryNodes) + 1
           /\ Exhausted
<1> DEFINE list == ask[t].peerList
<1>1. /\ list \in Seq(Worker \union {Me}) /\ ask[t].i \in Nat \ {0} /\ m_tryNodes \in Seq(Node)
      /\ m_numTotalPeersTried \in Nat /\ Len(list) \in Nat /\ Len(m_tryNodes) \in Nat
  BY LenProperties DEF RequestInv, TypeInv, TypeOK, Asking, PeerList
<1>2. ask[t].i = Len(list) + 1
  BY <1>1 DEF Scanned, InList
<1>3. \A j \in 1 .. Len(list) : list[j] = Me \/ \E n \in ToSet(m_tryNodes) : nodePeer[n] = list[j]
  BY <1>1, <1>2 DEF Scanned, IsInTryNodes
<1>4. Len(list) <= Len(m_tryNodes) + 1
  BY <1>1, <1>3, ListBound
<1> QED
  BY <1>1, <1>4 DEF Scanned, TriedInv, Exhausted

\* A handler's call finds somebody to ask before the list ends.
LEMMA SomebodyLeft ==
    ASSUME UsableLists, RequestInv, ScanInv, ask["task"].pc = "loop"
    PROVE  InList("task")
<1> SUFFICES ASSUME ~InList("task") PROVE FALSE
  OBVIOUS
<1>1. Scanned("task") /\ TriedInv /\ "task" \in Thread
  BY DEF ScanInv, AtPeers, Before, Thread
<1> DEFINE list == ask["task"].peerList
<1>2. IsInjective(list) /\ Len(list) >= 2 /\ Len(list) \in Nat /\ ask["task"].i \in Nat
  BY <1>1, LenProperties DEF Scanned, UsableLists, RequestInv, TypeInv, TypeOK, Asking, PeerList
<1>3. Len(list) <= Len(m_tryNodes) + 1 /\ Exhausted
  BY <1>1, <1>2, PastTheEnd
<1>4. ask["task"].i > 1
  BY <1>2 DEF InList
<1>5. m_tryNodes = <<>>
  BY <1>3, <1>4 DEF ScanInv, HandlerScan, Before
<1>6. Len(m_tryNodes) = 0
  BY <1>5
<1> QED
  BY <1>2, <1>3, <1>6

\* After Start, the one parameter a handler has put back is all there is to ask for.
UnaskedInv ==
    ask["main"].pc \notin AskStep /\ ~m_bStop =>
        Len(m_unAllotParamList) = IF ask["task"].pc \in Before \union Asked THEN 1 ELSE 0

\* Every step keeps it so.
LEMMA StepUnasked ==
    ASSUME StartRace = FALSE, downs = 0, downs' = 0, UsableLists,
           CalmInv, GoneInv, QuotaInv, ScanInv, UnaskedInv, [Next]_vars
    PROVE  UnaskedInv'
<1>1. /\ RequestInv /\ m_numRequiredPeers' = m_numRequiredPeers /\ ask \in [Thread -> Asking]
      /\ m_unAllotParamList \in Seq(Param) /\ Len(m_unAllotParamList) \in Nat
      /\ "main" \in Thread /\ "task" \in Thread /\ OneAsks
  BY LenProperties
     DEF CalmInv, KeepInv, RequestInv, TypeInv, TypeOK, Next, HandlePeerList, vars, Thread
<1> SUFFICES ASSUME ask'["main"].pc \notin AskStep, ~m_bStop'
             PROVE  Len(m_unAllotParamList') = IF ask'["task"].pc \in Before \union Asked THEN 1 ELSE 0
  BY DEF UnaskedInv
<1>2. CASE AskPeersStep("main")
  <2>1. /\ ask["main"].pc \in AskStep /\ ask'["task"] = ask["task"]
        /\ ask["task"].pc \notin AskStep
    BY <1>1, <1>2, AskMoves DEF RequestInv, OneAsks, Thread
  <2>2. AskEnough("main")
    <3>1. AskAbort("main") => ask' = ask
      BY DEF AskAbort
    <3> QED
      BY <1>1, <1>2, <2>1, <3>1, AskCounts DEF AskPeersStep, LooksOn, AskStep, Before
  <2>3. /\ ask["main"].pc \in {"loop", "finish"} /\ Broke("main")
        /\ m_unAllotParamList' = m_unAllotParamList
    BY <1>1, <1>2, <2>2, AskCounts DEF AskEnough, allotVars
  <2>4. ask["main"].pc = "finish"
    <3>1. ask["main"].numAsking \in Nat /\ m_numRequiredPeers \in Nat
      BY <1>1, TaskConstants DEF Asking, RequestInv, TypeInv, TypeOK
    <3>2. ask["main"].pc = "loop" => ask["main"].numAsking < m_numRequiredPeers
                                     /\ m_numRemainingPeers = m_numRequiredPeers
      BY DEF QuotaInv, StartQuota, Before, AskStep
    <3> QED
      BY <2>3, <3>1, <3>2 DEF Broke
  <2>5. Len(m_unAllotParamList') = 0
    BY <2>3, <2>4 DEF QuotaInv, StartQuota
  <2> QED
    BY <2>1, <2>5 DEF AskStep, Before, Asked
<1>3. CASE AskPeersStep("task")
  <2>1. /\ ask["task"].pc \in AskStep /\ ask'["main"] = ask["main"] /\ ~m_bStop
    BY <1>1, <1>3, AskMoves DEF CalmInv, StopInv, RequestInv, Thread
  <2>2. Len(m_unAllotParamList) = IF ask["task"].pc \in Before \union Asked THEN 1 ELSE 0
    BY <2>1 DEF UnaskedInv
  <2>3. CASE LooksOn("task") \/ AskConnect("task") \/ AskRequest("task") \/ AskAbort("task")
    <3>1. m_unAllotParamList' = m_unAllotParamList
      <4>1. ~AskErase("task")
        BY <1>1, <1>3, <2>3, AskCounts DEF Before, AskErase, AskAbort
      <4> QED
        BY <1>1, <1>3, <4>1, AskCounts
    <3>2. /\ AskAbort("task") => ask' = ask
          /\ ~AskAbort("task") => /\ ask["task"].pc \in Before \union Asked
                                  /\ ask'["task"].pc \in Before \union Asked
      BY <1>1, <1>3, <2>3, AskCounts DEF AskAbort, Asked
    <3> QED
      BY <2>2, <3>1, <3>2
  <2>4. CASE AskErase("task")
    <3>1. /\ ask["task"].pc = "erase" /\ m_unAllotParamList # <<>>
          /\ m_unAllotParamList' = Tail(m_unAllotParamList)
          /\ ask'["task"].pc = IF Broke("task") THEN "finish" ELSE "loop"
      BY <1>1, <1>3, <2>4, AskCounts
    <3>2. ask["task"].numAsking = 1 /\ m_numRemainingPeers <= 0 /\ m_numRemainingPeers \in Int
      <4>1. Cardinality(Executing) \in Nat
        BY ExecutingFinite
      <4> QED
        BY <1>1, <2>1, <3>1, <4>1
           DEF QuotaInv, HandlerQuota, RemainInv, Asked, OneAsks, RequestInv, TypeInv, TypeOK
    <3>3. Broke("task")
      BY <3>2 DEF Broke
    <3>4. Len(m_unAllotParamList') = 0
      BY <1>1, <2>2, <3>1, HeadTailProperties DEF Asked
    <3> QED
      BY <3>1, <3>3, <3>4 DEF Before, Asked
  <2>5. CASE AskEnough("task")
    <3>1. /\ ask["task"].pc = "finish" \/ (ask["task"].pc = "loop" /\ ~InList("task"))
          /\ ask'["task"].pc = "check" /\ m_unAllotParamList' = m_unAllotParamList
      BY <1>1, <1>3, <2>5, AskCounts DEF AskEnough, AskEnd, Left, allotVars
    <3>2. ask["task"].pc = "finish"
      BY <1>1, <3>1, SomebodyLeft
    <3> QED
      BY <2>2, <3>1, <3>2 DEF Before, Asked
  <2>6. CASE AskGiveUp("task") \/ AskShort("task")
    BY <1>1, <1>3, <2>6, AskCounts
  <2> QED
    BY <1>3, <2>3, <2>4, <2>5, <2>6 DEF AskPeersStep, LooksOn
<1>4. ASSUME NEW n \in Node, TaskHandler(n)
      PROVE  Len(m_unAllotParamList') = IF ask'["task"].pc \in Before \union Asked THEN 1 ELSE 0
  <2>1. /\ ask["main"].pc = "done" /\ ask["task"].pc = "get" /\ m_bStop' = m_bStop
        /\ HandleNotEligible(n) \/ HandleRefused(n) => ask'["task"] = Entered
        /\ ~HandleNotEligible(n) /\ ~HandleRefused(n) => ask'["task"].pc \in {"check", "get"}
        /\ ~HandlePeerConnFailure(n)
    BY <1>1, <1>4, HandlerCounts, AliveStays
  <2>2. m_unAllotParamList = <<>>
    <3>1. Len(m_unAllotParamList) = 0
      BY <2>1 DEF UnaskedInv, AskStep, Before, Asked
    <3> QED
      BY <1>1, <3>1, EmptySeq
  <2>3. CASE HandleNotEligible(n) \/ HandleRefused(n)
    <3>1. Unallot(nodeParam[n]) /\ ask'["task"].pc = "loop"
      BY <2>1, <2>3 DEF HandleNotEligible, HandleRefused, Entered
    <3>2. m_unAllotParamList' = Append(<<>>, nodeParam[n])
      BY <2>2, <3>1 DEF Unallot, Contains
    <3> QED
      BY <3>1, <3>2 DEF Before
  <2>4. CASE ~HandleNotEligible(n) /\ ~HandleRefused(n)
    <3>1. m_unAllotParamList' = m_unAllotParamList
      BY <1>4, <2>1, <2>4 DEF TaskHandler, HandleEligible, HandleNotEligibleAbort, HandleExecuting,
                  HandleTaskResult, IgnorePeerConnFailure, allotVars
    <3>2. Len(m_unAllotParamList') = 0
      BY <2>2, <3>1
    <3> QED
      BY <2>1, <2>4, <3>2 DEF Before, Asked
  <2> QED
    BY <2>3, <2>4
<1>5. CASE (\A t \in Thread : ~AskPeersStep(t)) /\ \A n \in Node : ~TaskHandler(n)
  <2>1. /\ ask'["main"] = ask["main"]
        /\ \/ ask'["task"] = ask["task"]
           \/ ask["task"].pc \in {"check", "get"} /\ ask'["task"].pc \in {"check", "get", "done"}
        /\ UNCHANGED <<m_unAllotParamList, m_bStop>>
    BY <1>1, <1>5, OtherCounts DEF allotVars
  <2> QED
    BY <2>1 DEF UnaskedInv, Before, Asked
<1> QED
  BY <1>2, <1>3, <1>4, <1>5 DEF Thread

\* What holds of the task while its peers live.
AliveInv == OnceInv /\ QuotaInv /\ ScanInv

\* It holds from the beginning ...
LEMMA InitAlive == Init => AliveInv /\ UnaskedInv
<1>1. Init => UnaskedInv
  BY DEF Init, Entered, UnaskedInv, AskStep
<1> QED
  BY <1>1, InitOnce, InitQuota, InitScan DEF AliveInv

\* ... and every step keeps it.
LEMMA StepAlive ==
    ASSUME StartRace = FALSE, MaxDowns = 0
    PROVE  AliveInv /\ [Next]_vars => AliveInv' /\ downs = 0 /\ downs' = 0
<1> SUFFICES ASSUME AliveInv, [Next]_vars
             PROVE  AliveInv' /\ downs = 0 /\ downs' = 0
  OBVIOUS
<1>1. OnceInv /\ CalmInv /\ GoneInv /\ RequestInv /\ QuotaInv /\ ScanInv
  BY DEF AliveInv, OnceInv, CalmInv
<1>2. downs = 0 /\ FinalInv
  BY <1>1, NobodyFails
<1>3. OnceInv'
  BY <1>1, <1>2, StepOnce DEF NoComeback
<1>4. downs' = 0
  BY <1>3 DEF OnceInv, CalmInv, RequestInv, TypeInv, TypeOK, GoneInv
<1> QED
  BY <1>1, <1>2, <1>3, <1>4, StepQuota, StepScan DEF AliveInv

\* With no death and usable lists, however many peers fall short of the threshold:
\* a handler that puts a parameter back asks for it before it returns.
THEOREM NothingWaitsUnasked ==
    ASSUME StartRace = FALSE, MaxDowns = 0, UsableLists
    PROVE  Spec => []NothingLeftUnasked
<1>1. AliveInv /\ UnaskedInv /\ [Next]_vars => UnaskedInv'
  BY StepUnasked, StepAlive DEF AliveInv, OnceInv
<1>2. AliveInv /\ UnaskedInv => NothingLeftUnasked
  <2> SUFFICES ASSUME AliveInv, UnaskedInv, Idle PROVE m_unAllotParamList = <<>>
    BY DEF NothingLeftUnasked
  <2>1. Len(m_unAllotParamList) = 0
    BY DEF UnaskedInv, Idle, Thread, AskStep, Before, Asked
  <2>2. m_unAllotParamList \in Seq(Param)
    BY DEF AliveInv, OnceInv, CalmInv, RequestInv, TypeInv, TypeOK
  <2> QED
    BY <2>1, <2>2, EmptySeq
<1> QED
  BY <1>1, <1>2, InitAlive, StepAlive, PTL DEF Spec

-----------------------------------------------------------------------------
\* Only Start gives the task up

\* Task::Start, in its own call of AskPeers, finds enough peers.
StartSucceeds == [][~AskShort("main") /\ ~AskGiveUp("main")]_vars

\* A parameter somebody is being asked for is in the map HandleTaskRequestResponse
\* erases it from.
TriesInv == \A n \in Node : Fresh(n) \/ Awaited(n) => nodeParam[n] \in m_tryPeerParamMap

GoingInv == ~m_bStop /\ ~aborted /\ TriesInv

\* A handler's call never gives up, and no index is out of range.
LEMMA AskGoesOn ==
    ASSUME StartRace = FALSE, downs = 0, downs' = 0, UsableLists, AliveInv, UnaskedInv, ~m_bStop,
           NEW t \in Thread, AskPeersStep(t), [Next]_vars
    PROVE  ~AskAbort(t) /\ (t = "task" => ~AskShort(t) /\ ~AskGiveUp(t))
<1>1. /\ RequestInv /\ ask \in [Thread -> Asking] /\ m_numRemainingPeers \in Int /\ OneAsks
      /\ ask[t].numAsking \in Nat /\ ask[t].peerList \in Seq(Worker \union {Me})
      /\ m_numTotalPeersTried \in Nat /\ QuotaInv /\ ScanInv
      /\ m_currentThreshold \in {HighThreshold, MediumThreshold}
      /\ m_numRequiredPeers \in Nat
  BY TaskConstants
     DEF AliveInv, OnceInv, CalmInv, KeepInv, RequestInv, TypeInv, TypeOK, Asking, PeerList
<1>2. /\ ask[t].pc \in AskStep /\ (t = "task" => ask["main"].pc \notin AskStep)
  BY <1>1, AskMoves DEF RequestInv, OneAsks
<1>3. ASSUME t = "task" PROVE ~AskShort(t)
  <2>1. m_numRemainingPeers + Cardinality(Executing) <= 0 /\ Cardinality(Executing) \in Nat
    BY <1>1, <1>2, <1>3, ExecutingFinite DEF QuotaInv, RemainInv
  <2>2. Broke(t)
    BY <1>1, <2>1 DEF Broke
  <2> QED
    BY <2>2 DEF AskShort
<1>4. ASSUME t = "task" PROVE ~AskGiveUp(t)
  <2> SUFFICES ASSUME AskGiveUp(t) PROVE FALSE
    OBVIOUS
  <2>1. ask[t].pc = "loop" /\ Exhausted /\ m_currentThreshold = MediumThreshold
    BY <1>1 DEF AskGiveUp, HighThreshold, MediumThreshold
  <2>2. m_numTotalPeersTried = 0
    BY <1>1, <1>4, <2>1 DEF ScanInv, HandlerScan, Before
  <2>3. /\ m_numMaxToTryPeers = Len(ask[t].peerList) - 1
        /\ Len(ask[t].peerList) >= 2 /\ Len(ask[t].peerList) \in Nat
    BY <1>1, <2>1, LenProperties DEF ScanInv, AtPeers, Before, Scanned, UsableLists
  <2> QED
    BY <2>1, <2>2, <2>3 DEF Exhausted
<1>5. ~AskAbort(t)
  <2> SUFFICES ASSUME AskAbort(t) PROVE FALSE
    OBVIOUS
  <2>1. ask[t].pc \in Before \union Asked /\ Len(m_unAllotParamList) = 0
    BY DEF AskAbort, Scanning, Before, Asked
  <2>2. CASE t = "main"
    BY <1>1, <2>1, <2>2 DEF QuotaInv, StartQuota
  <2>3. CASE t = "task"
    BY <1>2, <2>1, <2>3 DEF UnaskedInv
  <2> QED
    BY <2>2, <2>3 DEF Thread
<1> QED
  BY <1>3, <1>4, <1>5

\* What is being asked for stays in the map.
LEMMA StepTries ==
    ASSUME StartRace = FALSE, downs = 0, downs' = 0, AliveInv, GoingInv, [Next]_vars,
           \A t \in Thread : ~AskShort(t) /\ ~AskGiveUp(t)
    PROVE  TriesInv'
<1>1. /\ RequestInv /\ CalmInv /\ GoneInv /\ OwnInv /\ TypeInv
      /\ \A n \in Made : nodeParam'[n] = nodeParam[n]
  BY NodesStay DEF AliveInv, OnceInv, CalmInv, RequestInv
<1>2. \A n \in Node : Fresh(n) \/ Awaited(n) => n \in Made
  BY <1>1, LiveMade DEF Fresh, Live, RequestInv, MadeInv
<1>3. ASSUME NEW t \in Thread, AskPeersStep(t), NEW n \in Node, (Fresh(n) \/ Awaited(n))'
      PROVE  nodeParam'[n] \in m_tryPeerParamMap'
  <2>1. m_tryPeerParamMap \subseteq m_tryPeerParamMap'
    BY <1>3 DEF AskPeersStep, AskLower, AskSkip, AskUnreachable, AskConnect, AskRequest,
         AskErase, AskAbort, AskEnough, allotVars
  <2>2. \/ Fresh(n) \/ Awaited(n)
        \/ AskConnect(t) /\ n = numNodes + 1
    <3>1. CASE Fresh(n)'
      <4>1. PICK u \in Thread : ask'[u].pc = "request" /\ ask'[u].node = n
        BY <3>1 DEF Fresh
      <4>2. \/ ask'[u] = ask[u]
            \/ u = t /\ AskConnect(t) /\ ask'[t].node = numNodes + 1
        BY <1>1, <1>3, <4>1, AskFrame
      <4> QED
        BY <4>1, <4>2 DEF Fresh
    <3>2. CASE Awaited(n)'
      <4>1. Awaited(n) \/ (AskRequest(t) /\ ask[t].node = n)
        BY <1>1, <1>3, <3>2, AskTurns
      <4> QED
        BY <4>1 DEF AskRequest, Fresh
    <3> QED
      BY <1>3, <3>1, <3>2
  <2>3. CASE Fresh(n) \/ Awaited(n)
    BY <1>1, <1>2, <2>1, <2>3 DEF GoingInv, TriesInv
  <2>4. CASE AskConnect(t) /\ n = numNodes + 1
    <3>1. nodeParam'[n] = Head(m_unAllotParamList)
      BY <1>1, <2>4, NodesStay
    <3> QED
      BY <2>4, <3>1 DEF AskConnect, ParamToAsk
  <2> QED
    BY <2>2, <2>3, <2>4
<1>4. ASSUME NEW n \in Node, TaskHandler(n), NEW m \in Node, (Fresh(m) \/ Awaited(m))'
      PROVE  nodeParam'[m] \in m_tryPeerParamMap'
  <2>1. /\ ask["main"].pc = "done" /\ ask'["main"] = ask["main"] /\ ~HandlePeerConnFailure(n)
        /\ ask'["task"] = Entered \/ ask'["task"].pc \in {"check", "get"}
    BY <1>1, <1>4, HandlerCounts, AliveStays
  <2>2. ~Fresh(m)'
    BY <2>1 DEF Fresh, Entered, Thread
  <2>3. Awaited(m) /\ nodeParam'[m] = nodeParam[m] /\ nodeParam[m] \in m_tryPeerParamMap
    BY <1>1, <1>2, <1>4, <2>2, HandlerTurns DEF GoingInv, TriesInv
  <2>4. CASE HandleEligible(n) \/ HandleNotEligible(n)
    <3>1. /\ m_tryPeerParamMap' = m_tryPeerParamMap \ {nodeParam[n]}
          /\ Head(toTask[n]).type = "TASK_REQUEST_RESP"
      BY <2>4 DEF HandleEligible, HandleNotEligible, Receives
    <3>2. Awaited(n) /\ ~Awaited(n)'
      BY <1>1, <1>4, <3>1, HandlerTurns DEF Answers
    <3>3. nodeParam[m] # nodeParam[n]
      BY <1>1, <1>4, <2>2, <2>3, <3>2 DEF OwnInv, Live
    <3> QED
      BY <2>3, <3>1, <3>3
  <2>5. CASE ~HandleEligible(n) /\ ~HandleNotEligible(n)
    <3>1. m_tryPeerParamMap' = m_tryPeerParamMap
      BY <1>4, <2>1, <2>5 DEF TaskHandler, HandleNotEligibleAbort, HandleExecuting, HandleRefused,
             HandleTaskResult, IgnorePeerConnFailure, allotVars
    <3> QED
      BY <2>3, <3>1
  <2> QED
    BY <2>4, <2>5
<1>5. ASSUME \A t \in Thread : ~AskPeersStep(t), \A n \in Node : ~TaskHandler(n),
             NEW n \in Node, (Fresh(n) \/ Awaited(n))'
      PROVE  nodeParam'[n] \in m_tryPeerParamMap'
  <2>1. /\ ask'["main"] = ask["main"]
        /\ ask'["task"] = ask["task"] \/ ask'["task"].pc \in {"check", "get", "done"}
        /\ m_tryPeerParamMap' = m_tryPeerParamMap
    BY <1>1, <1>5, OtherCounts DEF allotVars
  <2>2. Fresh(n)' => Fresh(n)
    BY <2>1 DEF Fresh, Thread
  <2>3. Awaited(n)' => Awaited(n)
    BY <1>1, <1>5, StepTurns DEF AskPeersStep
  <2> QED
    BY <1>1, <1>2, <1>5, <2>1, <2>2, <2>3 DEF GoingInv, TriesInv
<1> QED
  BY <1>3, <1>4, <1>5 DEF TriesInv

\* What Start has not given up goes on.
LEMMA StepGoes ==
    ASSUME StartRace = FALSE, downs = 0, downs' = 0, UsableLists, AliveInv, UnaskedInv, GoingInv,
           [Next]_vars, [~AskShort("main") /\ ~AskGiveUp("main")]_vars
    PROVE  /\ GoingInv'
           /\ \A t \in Thread : ~AskShort(t) /\ ~AskGiveUp(t) /\ ~AskAbort(t)
           /\ \A n \in Node : ~HandleNotEligibleAbort(n)
<1>1. RequestInv /\ ask \in [Thread -> Asking]
  BY DEF AliveInv, OnceInv, CalmInv, RequestInv, TypeInv, TypeOK
<1>2. \A t \in Thread : ~AskShort(t) /\ ~AskGiveUp(t)
  <2>1. ASSUME NEW t \in Thread, AskShort(t) \/ AskGiveUp(t)
        PROVE  FALSE
    <3>1. AskPeersStep(t)
      BY <2>1 DEF AskPeersStep
    <3>2. t = "main"
      BY <2>1, <3>1, AskGoesOn DEF GoingInv, Thread
    <3>3. ask'[t].pc = Left(t) /\ ask[t].pc \in AskStep
      <4>1. /\ ask'[t].pc = Left(t)
        BY <1>1, <2>1, <3>1, AskCounts DEF AliveInv, OnceInv
      <4> QED
        BY <1>1, <3>1, <4>1, AskMoves DEF RequestInv
    <3>4. ask' # ask
      BY <3>3 DEF Left, AskStep
    <3> QED
      BY <2>1, <3>2, <3>4 DEF vars, taskVars
  <2> QED
    BY <2>1
<1>3. \A t \in Thread : ~AskAbort(t)
  <2> SUFFICES ASSUME NEW t \in Thread, AskAbort(t) PROVE FALSE
    OBVIOUS
  <2>1. AskPeersStep(t)
    BY DEF AskPeersStep
  <2> QED
    BY <2>1, AskGoesOn DEF GoingInv
<1>4. \A n \in Node : ~HandleNotEligibleAbort(n)
  <2> SUFFICES ASSUME NEW n \in Node, HandleNotEligibleAbort(n) PROVE FALSE
    OBVIOUS
  <2>1. /\ TaskHandler(n) /\ Head(toTask[n]).type = "TASK_REQUEST_RESP"
        /\ nodeParam[n] \notin m_tryPeerParamMap
    BY DEF TaskHandler, HandleNotEligibleAbort, Receives
  <2>2. Awaited(n)
    BY <1>1, <2>1, HandlerTurns
  <2> QED
    BY <2>1, <2>2 DEF GoingInv, TriesInv
<1>5. TriesInv'
  BY <1>2, StepTries
<1>6. UNCHANGED <<m_bStop, aborted>>
  <2>1. CASE \E t \in Thread : AskPeersStep(t)
    BY <1>2, <1>3, <2>1 DEF AskPeersStep, AskLower, AskSkip, AskUnreachable, AskConnect, AskRequest,
         AskErase, AskEnough
  <2>2. CASE \E n \in Node : TaskHandler(n)
    BY <1>4, <2>2 DEF TaskHandler, HandleEligible, HandleNotEligible, HandleExecuting,
           HandleRefused, HandleTaskResult, HandlePeerConnFailure, IgnorePeerConnFailure
  <2>3. CASE (\A t \in Thread : ~AskPeersStep(t)) /\ \A n \in Node : ~TaskHandler(n)
    BY <1>1, <2>3, OtherCounts
  <2> QED
    BY <2>1, <2>2, <2>3
<1> QED
  BY <1>2, <1>3, <1>4, <1>5, <1>6 DEF GoingInv

\* It all holds while Start succeeds.
LEMMA AlwaysGoes ==
    ASSUME StartRace = FALSE, MaxDowns = 0, UsableLists
    PROVE  Spec /\ StartSucceeds => [](AliveInv /\ UnaskedInv /\ GoingInv)
<1>1. Init => GoingInv
  <2> SUFFICES ASSUME Init PROVE GoingInv
    OBVIOUS
  <2>1. \A n \in Node : toWorker[n] = <<>> /\ toTask[n] = <<>>
    BY DEF Init
  <2>2. \A n \in Node : ~Fresh(n) /\ ~Awaited(n)
    <3>1. \A t \in Thread : ask[t].pc # "request"
      BY DEF Init, Entered, Thread
    <3> QED
      BY <2>1, <3>1, EmptyShrinks DEF Fresh, Awaited
  <2> QED
    BY <2>2 DEF Init, GoingInv, TriesInv
<1>2. AliveInv /\ UnaskedInv /\ [Next]_vars => UnaskedInv'
  BY StepUnasked, StepAlive DEF AliveInv, OnceInv
<1>3. /\ AliveInv /\ UnaskedInv /\ GoingInv /\ [Next]_vars
      /\ [~AskShort("main") /\ ~AskGiveUp("main")]_vars
      => GoingInv'
  BY StepGoes, StepAlive
<1> QED
  BY <1>1, <1>2, <1>3, InitAlive, StepAlive, PTL DEF Spec, StartSucceeds

\* With no death, usable lists and a Start that finds enough peers, the task is
\* never given up: a handler that asks again starts over, and once it has lowered
\* the threshold nobody counts as tried, so that it finds a peer to ask.
THEOREM OnlyStartGivesUp ==
    ASSUME StartRace = FALSE, MaxDowns = 0, UsableLists
    PROVE  Spec /\ StartSucceeds => []NotGivenUp
<1>1. GoingInv => NotGivenUp
  BY DEF GoingInv, NotGivenUp
<1> QED
  BY <1>1, AlwaysGoes, PTL

\* ... and neither m_unAllotParamList[0] nor an erase from the list or the map is
\* out of range.
THEOREM NoIndexOutOfRange ==
    ASSUME StartRace = FALSE, MaxDowns = 0, UsableLists
    PROVE  Spec /\ StartSucceeds => []NoAbort
<1>1. GoingInv => NoAbort
  BY DEF GoingInv, NoAbort
<1> QED
  BY <1>1, AlwaysGoes, PTL

-----------------------------------------------------------------------------
\* Enough peers

\* Every list names more peers than the task has parameters, the owner counted.
EnoughPeers == UsableLists /\ \A list \in PeerLists, k \in ParamCounts : k < Len(list)

\* Start stays at the high threshold, and everybody it tries it asks.
EnoughInv == AtPeers("main") =>
    m_currentThreshold = HighThreshold /\ m_numTotalPeersTried = ask["main"].numAsking

\* It finds a peer for every parameter before it has tried them all.
LEMMA StartFindsPeers ==
    ASSUME StartRace = FALSE, downs = 0, EnoughPeers, AliveInv, EnoughInv
    PROVE  ~AskLower("main") /\ ~AskGiveUp("main") /\ ~AskShort("main")
<1>1. /\ RequestInv /\ ask["main"].peerList \in Seq(Worker \union {Me})
      /\ ask["main"].numAsking \in Nat
      /\ m_numRequiredPeers \in ParamCounts /\ m_numRequiredPeers \in Nat
      /\ "main" \in Thread /\ ScanInv /\ TriedInv
  BY TaskConstants
     DEF AliveInv, OnceInv, CalmInv, RequestInv, TypeInv, TypeOK, Asking, PeerList, Thread, ScanInv
<1> DEFINE list == ask["main"].peerList
<1>2. ASSUME ask["main"].pc = "loop"
      PROVE  ~Exhausted /\ InList("main")
  <2>1. /\ Scanned("main") /\ m_numTotalPeersTried = ask["main"].numAsking
        /\ ask["main"].numAsking < m_numRequiredPeers
    BY <1>1, <1>2 DEF EnoughInv, AtPeers, Before, ScanInv, AliveInv, QuotaInv, StartQuota
  <2>2. /\ IsInjective(list) /\ m_numRequiredPeers < Len(list) /\ Len(list) \in Nat
        /\ m_numMaxToTryPeers = Len(list) - 1
    BY <1>1, <2>1, LenProperties DEF Scanned, EnoughPeers, UsableLists
  <2>3. ~Exhausted
    BY <1>1, <2>1, <2>2 DEF Exhausted
  <2> QED
    BY <1>1, <2>1, <2>2, <2>3, PastTheEnd
<1>3. ask["main"].pc = "finish" => Broke("main")
  BY <1>1 DEF AliveInv, QuotaInv, StartQuota, AskStep, Broke
<1> QED
  BY <1>2, <1>3 DEF AskLower, AskGiveUp, AskShort, AskEnd

\* Every step keeps it so.
LEMMA StepEnough ==
    ASSUME StartRace = FALSE, downs = 0, downs' = 0, EnoughPeers, AliveInv, EnoughInv, [Next]_vars
    PROVE  EnoughInv'
<1>1. /\ RequestInv /\ CalmInv /\ GoneInv /\ QuotaInv /\ ScanInv /\ TriedInv /\ TypeInv
      /\ ask \in [Thread -> Asking] /\ "main" \in Thread
      /\ m_numTotalPeersTried \in Nat /\ m_numRequiredPeers' = m_numRequiredPeers
  BY DEF AliveInv, OnceInv, CalmInv, RequestInv, TypeInv, TypeOK, ScanInv, Thread, Next,
         HandlePeerList, vars
<1> SUFFICES ASSUME AtPeers("main")'
             PROVE  /\ m_currentThreshold' = HighThreshold
                    /\ m_numTotalPeersTried' = ask'["main"].numAsking
  BY DEF EnoughInv
<1>2. CASE AskPeersStep("main")
  <2>1. ~AskLower("main") /\ ~AskGiveUp("main") /\ ~AskShort("main") /\ ~AskUnreachable("main")
    BY <1>1, <1>2, StartFindsPeers, AskScans
  <2>2. ~AskEnough("main")
    BY <1>1, <1>2, AskCounts DEF AtPeers, Left, Before, Asked
  <2>3. AtPeers("main")
    <3>1. AskAbort("main") => ask' = ask
      BY DEF AskAbort
    <3> QED
      BY <1>1, <1>2, <2>1, <2>2, <3>1, AskCounts DEF AskPeersStep, LooksOn, AtPeers, Asked
  <2>4. /\ m_currentThreshold' = m_currentThreshold
        /\ IF AskConnect("main")
           THEN /\ m_numTotalPeersTried' = m_numTotalPeersTried + 1
                /\ ask'["main"].numAsking = ask["main"].numAsking + 1
           ELSE /\ m_numTotalPeersTried' = m_numTotalPeersTried
                /\ ask'["main"].numAsking = ask["main"].numAsking
    <3>1. CASE AskConnect("main")
      BY <1>1, <1>2, <3>1, AskCounts DEF AskConnect
    <3>2. CASE ~AskConnect("main")
      <4>1. ask'["main"].numAsking = ask["main"].numAsking
        <5>1. AskAbort("main") => ask' = ask
          BY DEF AskAbort
        <5> QED
          BY <1>1, <1>2, <2>1, <2>2, <3>2, <5>1, AskCounts DEF AskPeersStep, LooksOn
      <4>2. UNCHANGED <<m_currentThreshold, m_numTotalPeersTried>>
        BY <1>2, <2>1, <3>2 DEF AskPeersStep, AskSkip, AskRequest, AskErase, AskAbort, AskEnough,
                                countVars, triedVars
      <4> QED
        BY <3>2, <4>1, <4>2
    <3> QED
      BY <3>1, <3>2
  <2> QED
    BY <2>3, <2>4 DEF EnoughInv
<1>3. CASE AskPeersStep("task")
  <2>1. ask["main"].pc \notin AskStep /\ ask'["main"] = ask["main"]
    BY <1>1, <1>3, AskMoves DEF CalmInv, KeepInv, OneAsks, Thread
  <2> QED
    BY <2>1 DEF AtPeers, AskStep, Before, Asked
<1>4. ASSUME NEW n \in Node, TaskHandler(n)
      PROVE  FALSE
  <2>1. ask["main"].pc = "done" /\ ask'["main"] = ask["main"]
    BY <1>1, <1>4, HandlerCounts
  <2> QED
    BY <2>1 DEF AtPeers, Before, Asked
<1>5. CASE (\A t \in Thread : ~AskPeersStep(t)) /\ \A n \in Node : ~TaskHandler(n)
  <2>1. ask'["main"] = ask["main"] /\ UNCHANGED <<m_currentThreshold, m_numTotalPeersTried>>
    BY <1>1, <1>5, OtherCounts DEF countVars, triedVars
  <2> QED
    BY <2>1 DEF EnoughInv, AtPeers
<1> QED
  BY <1>2, <1>3, <1>4, <1>5 DEF Thread

\* With no death and enough peers, whatever their histories: Start asks a peer
\* for every parameter and does not give the task up.
THEOREM StartFindsEnough ==
    ASSUME StartRace = FALSE, MaxDowns = 0, EnoughPeers
    PROVE  Spec => StartSucceeds
<1>1. Init => EnoughInv
  BY DEF Init, Entered, EnoughInv
<1>2. AliveInv /\ EnoughInv => ~AskShort("main") /\ ~AskGiveUp("main")
  BY NobodyFails, StartFindsPeers DEF AliveInv, OnceInv, CalmInv
<1>3. AliveInv /\ EnoughInv /\ [Next]_vars => EnoughInv'
  BY StepAlive, StepEnough
<1> QED
  BY <1>1, <1>2, <1>3, InitAlive, StepAlive, PTL DEF Spec, StartSucceeds

\* With no death and enough peers the task is never given up, ...
THEOREM EnoughNotGivenUp ==
    ASSUME StartRace = FALSE, MaxDowns = 0, EnoughPeers
    PROVE  Spec => []NotGivenUp
BY StartFindsEnough, OnlyStartGivesUp, PTL DEF EnoughPeers

\* ... and no index is out of range.
THEOREM EnoughNoAbort ==
    ASSUME StartRace = FALSE, MaxDowns = 0, EnoughPeers
    PROVE  Spec => []NoAbort
BY StartFindsEnough, NoIndexOutOfRange, PTL DEF EnoughPeers

-----------------------------------------------------------------------------
\* The jobs of a worker

\* A cancel is on its way for the node.
CancelDue(n) == Carries(toWorker[n], {"TASK_CANCEL"})

\* The node's request was handled and its job may still be needed.
Served(n) == \/ n \in jobRunning
             \/ Carries(toWorker[n], {"TASK_EXECUTE"})
             \/ Carries(toTask[n], {"TASK_REQUEST_RESP"})

JobsOf(n) == jobList[nodePeer[n]]

\* A job that may be needed is listed: HandleTaskExecute finds it and refuses
\* nobody, ...
ListedInv == \A n \in Node : /\ Served(n) => n \in ToSet(JobsOf(n))
                             /\ ~Carries(toTask[n], {"REFUSED"})

\* ... because a cancel, one to a peer at a time, whose node needs nothing more,
\* takes the oldest job, and a needed one is younger.
CancelInv ==
    /\ \A n \in Node : CancelDue(n) =>
          /\ ~Live(n) /\ ~Fresh(n) /\ JobsOf(n) # <<>> /\ Once(toWorker[n], {"TASK_CANCEL"})
    /\ \A n, m \in Node : nodePeer[n] = nodePeer[m] /\ CancelDue(n) =>
          /\ CancelDue(m) => n = m
          /\ Served(m) => m \in ToSet(Tail(JobsOf(n)))

\* Until the threshold is lowered no peer is asked twice, but for one that has
\* sent its result.
HighInv == m_currentThreshold = HighThreshold =>
    /\ \A n \in Node : Fresh(n) \/ Live(n) \/ CancelDue(n) => n \in ToSet(m_tryNodes)
    /\ \A n, m \in ToSet(m_tryNodes) : nodePeer[n] = nodePeer[m] => n = m

JobsInv == ListedInv /\ CancelInv /\ HighInv

\* The step brings the node no job to be needed, no cancel and no refusal.
Quieter(m) ==
    /\ Served(m)' => Served(m)
    /\ CancelDue(m)' => CancelDue(m)
    /\ Once(toWorker[m], {"TASK_CANCEL"}) => Once(toWorker'[m], {"TASK_CANCEL"})
    /\ Carries(toTask'[m], {"REFUSED"}) => Carries(toTask[m], {"REFUSED"})

\* Something is under way only for a node that was made.
LEMMA ServedMade ==
    ASSUME RequestInv, NEW n \in Node
    PROVE  /\ Served(n) => Live(n) /\ n \in Made
           /\ CancelDue(n) => n \in Made
           /\ n \in Made => nodePeer[n] \in Worker /\ JobsOf(n) \in Seq(Node)
<1>1. Served(n) => Live(n)
  BY DEF Served, Live, Awaited, Engaged
<1>2. CancelDue(n) => n \in Made
  <2>1. n \notin Made => toWorker[n] = <<>>
    BY DEF RequestInv, TypeInv, NodeInv
  <2> QED
    BY <2>1, EmptyShrinks DEF CancelDue
<1>3. n \in Made => nodePeer[n] \in Worker /\ JobsOf(n) \in Seq(Node)
  BY DEF RequestInv, TypeInv, NodeInv, TypeOK, JobsOf
<1> QED
  BY <1>1, <1>2, <1>3, LiveMade

\* AskPeers sends requests only.
LEMMA AskQuieter ==
    ASSUME downs = 0, RequestInv, GoneInv, NEW t \in Thread, AskPeersStep(t),
           ~AskGiveUp(t), ~AskShort(t), NEW m \in Node
    PROVE  Quieter(m) /\ jobList' = jobList
<1>1. UNCHANGED <<toTask, jobRunning, jobList>>
  BY DEF AskPeersStep, AskLower, AskSkip, AskUnreachable, AskConnect, AskRequest,
         AskErase, AskAbort, AskEnough, netVars, workerVars, jobVars
<1>2. \/ toWorker'[m] = toWorker[m]
      \/ \E x \in WorkerMessage : x.type = "TASK_REQUEST" /\ toWorker'[m] = Append(toWorker[m], x)
  <2>1. CASE AskRequest(t)
    <3>1. /\ Send(ask[t].node, RequestFor(ParamToAsk)) /\ ask[t].node \in Made
          /\ ParamToAsk \in Param
      BY <2>1, HeadTailProperties
         DEF AskRequest, RequestInv, MadeInv, ParamToAsk, TypeInv, TypeOK
    <3>2. /\ RequestFor(ParamToAsk) \in WorkerMessage
          /\ RequestFor(ParamToAsk).type = "TASK_REQUEST"
      BY <3>1, ConstantMessages DEF RequestFor
    <3>3. toWorker' = [toWorker EXCEPT ![ask[t].node] = Append(@, RequestFor(ParamToAsk))]
      BY <3>1, <3>2, AliveSends
    <3>4. toWorker \in [Node -> Seq(WorkerMessage)]
      BY DEF RequestInv, TypeInv, TypeOK
    <3> QED
      BY <3>1, <3>2, <3>3, <3>4
  <2>2. CASE ~AskRequest(t)
    BY <2>2 DEF AskPeersStep, AskLower, AskSkip, AskUnreachable, AskConnect,
         AskErase, AskAbort, AskEnough, netVars
  <2> QED
    BY <2>1, <2>2
<1>3. toWorker[m] \in Seq(WorkerMessage)
  BY DEF RequestInv, TypeInv, TypeOK
<1>4. /\ Carries(toWorker'[m], {"TASK_CANCEL"}) => Carries(toWorker[m], {"TASK_CANCEL"})
      /\ Carries(toWorker'[m], {"TASK_EXECUTE"}) => Carries(toWorker[m], {"TASK_EXECUTE"})
      /\ Once(toWorker[m], {"TASK_CANCEL"}) => Once(toWorker'[m], {"TASK_CANCEL"})
  BY <1>2, <1>3, AppendCarries
<1> QED
  BY <1>1, <1>4 DEF Quieter, Served, CancelDue

\* A handler sends a cancel to the peer that fell short, which has answered, and
\* an execute to one that has answered too.
LEMMA HandlerQuieter ==
    ASSUME downs = 0, RequestInv, GoneInv, NEW n \in Node, TaskHandler(n),
           ~HandleNotEligibleAbort(n), NEW m \in Node
    PROVE  /\ Quieter(m) \/ (m = n /\ HandleNotEligible(n))
           /\ jobList' = jobList
           /\ HandleNotEligible(n) =>
                 /\ Served(n) /\ ~Served(n)'
                 /\ ~CancelDue(n) => Once(toWorker'[n], {"TASK_CANCEL"})
                 /\ Carries(toTask'[n], {"REFUSED"}) => Carries(toTask[n], {"REFUSED"})
<1>1. /\ UNCHANGED <<jobRunning, jobList>> /\ toTask[n] # <<>> /\ ~HandlePeerConnFailure(n)
      /\ n \in Made
      /\ toWorker \in [Node -> Seq(WorkerMessage)] /\ toTask \in [Node -> Seq(TaskMessage)]
      /\ TypeInv
  <2>1. /\ UNCHANGED <<jobRunning, jobList>> /\ toTask[n] # <<>>
    BY DEF TaskHandler, HandleEligible, HandleNotEligible, HandleNotEligibleAbort, HandleExecuting,
           HandleRefused, HandleTaskResult, HandlePeerConnFailure, IgnorePeerConnFailure,
           workerVars, jobVars, Receives
  <2> QED
    BY <2>1, AliveStays, HandlerConnects DEF RequestInv, TypeInv, TypeOK
<1>2. /\ \A k \in Node \ {n} : toTask'[k] = toTask[k]
      /\ \/ toTask'[n] = Tail(toTask[n])
         \/ toTask'[n] = Append(Tail(toTask[n]), ConnectionFailure)
  <2>1. Consume(n) \/ toTask' = [toTask EXCEPT ![n] = Append(Tail(@), ConnectionFailure)]
    BY DEF TaskHandler, HandleEligible, HandleNotEligible, HandleNotEligibleAbort, HandleExecuting,
           HandleRefused, HandleTaskResult, HandlePeerConnFailure, IgnorePeerConnFailure
  <2> QED
    BY <1>1, <2>1 DEF Consume
<1>3. /\ \A k \in Node \ {n} : toWorker'[k] = toWorker[k]
      /\ \/ toWorker'[n] = toWorker[n]
         \/ HandleEligible(n) /\ toWorker'[n] = Append(toWorker[n], Execute)
         \/ HandleNotEligible(n)
      /\ HandleNotEligible(n) => toWorker'[n] = Append(toWorker[n], Cancel)
  <2>1. CASE HandleEligible(n)
    <3>1. toWorker' = [toWorker EXCEPT ![n] = Append(@, Execute)]
      BY <1>1, <2>1, AliveSends, ConstantMessages DEF HandleEligible
    <3> QED
      BY <1>1, <2>1, <3>1 DEF HandleEligible, HandleNotEligible
  <2>2. CASE HandleNotEligible(n)
    <3>1. toWorker' = [toWorker EXCEPT ![n] = Append(@, Cancel)]
      BY <1>1, <2>2, AliveSends, ConstantMessages DEF HandleNotEligible
    <3> QED
      BY <1>1, <2>2, <3>1
  <2>3. CASE ~HandleEligible(n) /\ ~HandleNotEligible(n)
    BY <1>1, <2>3 DEF TaskHandler, HandleExecuting, HandleRefused, HandleTaskResult,
                      IgnorePeerConnFailure, netVars
  <2> QED
    BY <2>1, <2>2, <2>3
<1>4. Tail(toTask[n]) \in Seq(TaskMessage) /\ ConnectionFailure \in TaskMessage
      /\ ConnectionFailure.type = "CONNECTION_FAILURE"
  BY <1>1, HeadTailProperties, ConstantMessages DEF ConnectionFailure
<1>5. \A T : "CONNECTION_FAILURE" \notin T =>
          /\ Carries(toTask'[n], T) => Carries(toTask[n], T)
          /\ Once(toTask[n], T) /\ Head(toTask[n]).type \in T => ~Carries(toTask'[n], T)
  <2>1. \A T : "CONNECTION_FAILURE" \notin T =>
            (Carries(toTask'[n], T) => Carries(Tail(toTask[n]), T))
    BY <1>2, <1>4, AppendCarries
  <2> QED
    BY <1>1, <2>1, TailCarries
<1>6. Cancel.type = "TASK_CANCEL" /\ Execute.type = "TASK_EXECUTE" /\ Cancel \in WorkerMessage
      /\ Execute \in WorkerMessage /\ toWorker[n] \in Seq(WorkerMessage)
  BY <1>1, ConstantMessages DEF Cancel, Execute
<1>7. \A T : Head(toTask[n]).type \in T => Carries(toTask[n], T)
  BY <1>1, TailCarries
<1>8. Carries(toTask'[n], {"REFUSED"}) => Carries(toTask[n], {"REFUSED"})
  BY <1>5
<1>9. ASSUME HandleNotEligible(n)
      PROVE  /\ Served(n) /\ ~Served(n)'
             /\ ~CancelDue(n) => Once(toWorker'[n], {"TASK_CANCEL"})
  <2>1. Head(toTask[n]).type = "TASK_REQUEST_RESP"
    BY <1>9 DEF HandleNotEligible, Receives
  <2>2. Carries(toTask[n], Answers) /\ Carries(toTask[n], {"TASK_REQUEST_RESP"})
    BY <1>7, <2>1 DEF Answers
  <2>3. Turn(n)
    BY DEF RequestInv, TurnInv
  <2>4. n \notin jobRunning /\ ~Carries(toWorker[n], Calls)
    BY <2>2, <2>3 DEF Turn
  <2>5. ~Carries(toTask'[n], Answers)
    BY <1>5, <2>1, <2>3 DEF Turn, Answers
  <2>6. ~Carries(toTask'[n], {"TASK_REQUEST_RESP"}) /\ ~Carries(toWorker[n], {"TASK_EXECUTE"})
    BY <2>4, <2>5 DEF Carries, Answers, Calls
  <2>7. toWorker'[n] = Append(toWorker[n], Cancel)
    BY <1>3, <1>9
  <2>8. /\ ~Carries(toWorker'[n], {"TASK_EXECUTE"})
        /\ ~CancelDue(n) => Once(toWorker'[n], {"TASK_CANCEL"})
    BY <1>6, <2>6, <2>7, AppendCarries DEF CancelDue
  <2> QED
    BY <1>1, <2>2, <2>4, <2>6, <2>8 DEF Served
<1>10. ASSUME m # n
       PROVE  Quieter(m)
  <2>1. toWorker'[m] = toWorker[m] /\ toTask'[m] = toTask[m]
    BY <1>2, <1>3, <1>10
  <2> QED
    BY <1>1, <2>1 DEF Quieter, Served, CancelDue
<1>11. ASSUME ~HandleNotEligible(n)
       PROVE  Quieter(n)
  <2>1. /\ Carries(toWorker'[n], {"TASK_CANCEL"}) => Carries(toWorker[n], {"TASK_CANCEL"})
        /\ Once(toWorker[n], {"TASK_CANCEL"}) => Once(toWorker'[n], {"TASK_CANCEL"})
        /\ Carries(toWorker'[n], {"TASK_EXECUTE"}) =>
               Carries(toWorker[n], {"TASK_EXECUTE"}) \/ HandleEligible(n)
    <3>1. CASE toWorker'[n] = toWorker[n]
      BY <3>1
    <3>2. CASE HandleEligible(n) /\ toWorker'[n] = Append(toWorker[n], Execute)
      BY <1>6, <3>2, AppendCarries
    <3> QED
      BY <1>3, <1>11, <3>1, <3>2
  <2>2. HandleEligible(n) => Carries(toTask[n], {"TASK_REQUEST_RESP"})
    BY <1>7 DEF HandleEligible, Receives
  <2>3. Carries(toTask'[n], {"TASK_REQUEST_RESP"}) => Carries(toTask[n], {"TASK_REQUEST_RESP"})
    BY <1>5
  <2> QED
    BY <1>1, <1>8, <2>1, <2>2, <2>3 DEF Quieter, Served, CancelDue
<1> QED
  BY <1>1, <1>8, <1>9, <1>10, <1>11

\* What a worker does about a request, an execute and a cancel, and at the end of
\* a job.
LEMMA WorkerQuieter ==
    ASSUME RequestInv, NEW n \in Node, WorkerStep(n) \/ JobDone(n)
    PROVE  /\ n \in Made /\ \A m \in Node \ {n} : Quieter(m)
           /\ HandleTaskRequest(n) =>
                 /\ Awaited(n) /\ jobList' = [jobList EXCEPT ![nodePeer[n]] = Append(@, n)]
                 /\ CancelDue(n)' => CancelDue(n)
                 /\ Once(toWorker[n], {"TASK_CANCEL"}) => Once(toWorker'[n], {"TASK_CANCEL"})
                 /\ Carries(toTask'[n], {"REFUSED"}) => Carries(toTask[n], {"REFUSED"})
           /\ HandleTaskExecute(n) =>
                 /\ Served(n) /\ jobList' = jobList
                 /\ n \in ToSet(JobsOf(n)) => Quieter(n)
           /\ HandleTaskCancel(n) =>
                 /\ CancelDue(n) /\ Quieter(n)
                 /\ Once(toWorker[n], {"TASK_CANCEL"}) => ~CancelDue(n)'
                 /\ jobList' = [jobList EXCEPT ![nodePeer[n]] = WithoutOldest(@)]
           /\ JobDone(n) => Quieter(n) /\ jobList' = jobList
<1>1. /\ toWorker \in [Node -> Seq(WorkerMessage)] /\ toTask \in [Node -> Seq(TaskMessage)]
      /\ \A k \in Node \ Made : toWorker[k] = <<>> /\ k \notin jobRunning
      /\ numTaskHandled \in [Worker -> Nat] /\ nodePeer \in [Node -> Worker \union {None}]
      /\ \A k \in Made : nodePeer[k] \in Worker
      /\ \A k \in jobRunning : jobParam[k] \in Param
  BY DEF RequestInv, TypeInv, NodeInv, TypeOK, Employed
<1>2. n \in Made
  BY <1>1 DEF WorkerStep, HandleTaskRequest, HandleTaskExecute, HandleTaskCancel, JobDone,
              WorkerReceives
<1>3. /\ \A m \in Node \ {n} : toWorker'[m] = toWorker[m] /\ toTask'[m] = toTask[m]
      /\ \A m \in Node \ {n} : m \in jobRunning' => m \in jobRunning
      /\ JobDone(n) \/ (toWorker[n] # <<>> /\ toWorker'[n] = Tail(toWorker[n]))
  <2>1. ASSUME HandleTaskRequest(n)
        PROVE  /\ toWorker[n] # <<>> /\ toWorker' = [toWorker EXCEPT ![n] = Tail(@)]
               /\ jobRunning' = jobRunning /\ \A m \in Node \ {n} : toTask'[m] = toTask[m]
    BY <1>1, <2>1 DEF HandleTaskRequest, WorkerReceives, Reply
  <2>2. ASSUME HandleTaskExecute(n)
        PROVE  /\ toWorker[n] # <<>> /\ toWorker' = [toWorker EXCEPT ![n] = Tail(@)]
               /\ jobRunning' \subseteq jobRunning \union {n}
               /\ \A m \in Node \ {n} : toTask'[m] = toTask[m]
    BY <1>1, <2>2 DEF HandleTaskExecute, WorkerReceives, Reply
  <2>3. ASSUME HandleTaskCancel(n)
        PROVE  /\ toWorker[n] # <<>> /\ toWorker' = [toWorker EXCEPT ![n] = Tail(@)]
               /\ jobRunning' = jobRunning /\ toTask' = toTask
    BY <2>3 DEF HandleTaskCancel, WorkerReceives
  <2>4. ASSUME JobDone(n)
        PROVE  /\ toWorker' = toWorker /\ jobRunning' \subseteq jobRunning
               /\ \A m \in Node \ {n} : toTask'[m] = toTask[m]
    BY <1>1, <2>4 DEF JobDone, Reply
  <2> QED
    BY <1>1, <2>1, <2>2, <2>3, <2>4 DEF WorkerStep
<1>4. ASSUME NEW m \in Node \ {n}
      PROVE  Quieter(m)
  BY <1>3 DEF Quieter, Served, CancelDue
<1>5. ASSUME toWorker[n] # <<>>, toWorker'[n] = Tail(toWorker[n])
      PROVE  /\ \A T : Carries(toWorker'[n], T) => Carries(toWorker[n], T)
             /\ \A T : Once(toWorker[n], T) => Once(toWorker'[n], T)
             /\ \A T : Head(toWorker[n]).type \in T => Carries(toWorker[n], T)
             /\ \A T : Once(toWorker[n], T) /\ Head(toWorker[n]).type \in T => ~Carries(toWorker'[n], T)
  BY <1>1, <1>5, TailCarries
<1>6. ASSUME NEW x \in TaskMessage, toTask' = [toTask EXCEPT ![n] = Append(@, x)]
      PROVE  \A T : x.type \notin T => (Carries(toTask'[n], T) => Carries(toTask[n], T))
  BY <1>1, <1>6, AppendCarries
<1>7. ASSUME HandleTaskRequest(n)
      PROVE  /\ Awaited(n) /\ jobList' = [jobList EXCEPT ![nodePeer[n]] = Append(@, n)]
             /\ CancelDue(n)' => CancelDue(n)
             /\ Once(toWorker[n], {"TASK_CANCEL"}) => Once(toWorker'[n], {"TASK_CANCEL"})
             /\ Carries(toTask'[n], {"REFUSED"}) => Carries(toTask[n], {"REFUSED"})
  <2>1. /\ toWorker[n] # <<>> /\ toWorker'[n] = Tail(toWorker[n])
        /\ Head(toWorker[n]).type = "TASK_REQUEST"
        /\ jobList' = [jobList EXCEPT ![nodePeer[n]] = Append(@, n)]
    BY <1>1, <1>7 DEF HandleTaskRequest, WorkerReceives
  <2> DEFINE x == [type |-> "TASK_REQUEST_RESP", arg |-> numTaskHandled[nodePeer[n]]]
  <2>2. x \in TaskMessage /\ x.type = "TASK_REQUEST_RESP"
    BY <1>1, <1>2 DEF TaskMessage
  <2>3. toTask' = [toTask EXCEPT ![n] = Append(@, x)]
    BY <1>7 DEF HandleTaskRequest, Reply
  <2> HIDE DEF x
  <2>4. Carries(toTask'[n], {"REFUSED"}) => Carries(toTask[n], {"REFUSED"})
    BY <1>6, <2>2, <2>3
  <2> QED
    BY <1>5, <2>1, <2>4 DEF Awaited, CancelDue
<1>8. ASSUME HandleTaskExecute(n)
      PROVE  /\ Served(n) /\ jobList' = jobList
             /\ n \in ToSet(JobsOf(n)) => Quieter(n)
  <2>1. /\ toWorker[n] # <<>> /\ toWorker'[n] = Tail(toWorker[n])
        /\ Head(toWorker[n]).type = "TASK_EXECUTE" /\ jobList' = jobList
    BY <1>1, <1>8 DEF HandleTaskExecute, WorkerReceives
  <2>2. Served(n)
    BY <1>5, <2>1 DEF Served
  <2>3. ASSUME n \in ToSet(JobsOf(n))
        PROVE  Quieter(n)
    <3> DEFINE x == [type |-> "EXECUTING", arg |-> 0]
    <3>1. Contains(jobList[nodePeer[n]], n)
      <4>1. JobsOf(n) \in Seq(Node)
        BY <1>2, ServedMade
      <4> QED
        BY <2>3, <4>1, LenProperties DEF ToSet, Contains, JobsOf
    <3>2. toTask' = [toTask EXCEPT ![n] = Append(@, x)]
      BY <1>8, <3>1 DEF HandleTaskExecute, Reply
    <3>3. x \in TaskMessage /\ x.type = "EXECUTING"
      BY DEF TaskMessage
    <3> HIDE DEF x
    <3>4. Carries(toTask'[n], {"REFUSED"}) => Carries(toTask[n], {"REFUSED"})
      BY <1>6, <3>2, <3>3
    <3> QED
      BY <1>5, <2>1, <2>2, <3>4 DEF Quieter, CancelDue
  <2> QED
    BY <2>1, <2>2, <2>3
<1>9. ASSUME HandleTaskCancel(n)
      PROVE  /\ CancelDue(n) /\ Quieter(n)
             /\ Once(toWorker[n], {"TASK_CANCEL"}) => ~CancelDue(n)'
             /\ jobList' = [jobList EXCEPT ![nodePeer[n]] = WithoutOldest(@)]
  <2>1. /\ toWorker[n] # <<>> /\ toWorker'[n] = Tail(toWorker[n])
        /\ Head(toWorker[n]).type = "TASK_CANCEL"
        /\ toTask' = toTask /\ jobRunning' = jobRunning
        /\ jobList' = [jobList EXCEPT ![nodePeer[n]] = WithoutOldest(@)]
    BY <1>1, <1>9 DEF HandleTaskCancel, WorkerReceives
  <2> QED
    BY <1>5, <2>1 DEF Quieter, CancelDue, Served
<1>10. ASSUME JobDone(n)
       PROVE  Quieter(n) /\ jobList' = jobList
  <2>1. /\ n \in jobRunning /\ jobRunning' = jobRunning \ {n} /\ toWorker' = toWorker
        /\ jobList' = jobList
        /\ \/ toTask' = toTask
           \/ toTask' = [toTask EXCEPT ![n] = Append(@, [type |-> "TASK_RESULT", arg |-> jobParam[n]])]
    BY <1>10 DEF JobDone, Reply
  <2> DEFINE x == [type |-> "TASK_RESULT", arg |-> jobParam[n]]
  <2>2. x \in TaskMessage /\ x.type = "TASK_RESULT"
    BY <1>1, <2>1 DEF TaskMessage
  <2>3. toTask' = toTask \/ toTask' = [toTask EXCEPT ![n] = Append(@, x)]
    BY <2>1
  <2> HIDE DEF x
  <2>4. Carries(toTask'[n], {"REFUSED"}) => Carries(toTask[n], {"REFUSED"})
    BY <1>6, <2>2, <2>3
  <2>5. Served(n)
    BY <2>1 DEF Served
  <2> QED
    BY <2>1, <2>4, <2>5 DEF Quieter, CancelDue
<1> QED
  BY <1>2, <1>4, <1>7, <1>8, <1>9, <1>10

\* The other steps touch no message, and nobody's jobs.
LEMMA RestQuieter ==
    ASSUME RequestInv, downs = 0, downs' = 0, GoneInv, [Next]_vars, \A t \in Thread : ~AskPeersStep(t),
           \A n \in Node : ~TaskHandler(n) /\ ~WorkerStep(n) /\ ~JobDone(n), NEW m \in Node
    PROVE  Quieter(m) /\ jobList' = jobList
<1>1. UNCHANGED <<toWorker, toTask, jobRunning, jobList>>
  BY AliveStays DEF Next, Step, HandlePeerList, TaskCheck, TaskWait, netVars, workerVars, jobVars,
                    vars
<1> QED
  BY <1>1 DEF Quieter, Served, CancelDue

\* Who a node stands for stays, a new request is of a new node, and what is under
\* way for a node was under way or just asked.
LEMMA NodeSteps ==
    ASSUME StartRace = FALSE, downs = 0, downs' = 0, CalmInv, GoneInv, [Next]_vars, NEW m \in Node
    PROVE  /\ m \in Made => nodePeer'[m] = nodePeer[m]
           /\ Fresh(m)' => Fresh(m) \/ (m \notin Made /\ \E t \in Thread : AskConnect(t) /\ m = numNodes + 1)
           /\ Live(m)' => Live(m) \/ Fresh(m)
<1>1. /\ RequestInv /\ TypeInv /\ Made = 1 .. numNodes /\ numNodes \in 0 .. MaxNodes
      /\ nodePeer \in [Node -> Worker \union {None}]
  BY DEF CalmInv, RequestInv, MadeInv, TypeInv, TypeOK
<1>2. m \in Made => nodePeer'[m] = nodePeer[m]
  <2>1. CASE \E t \in Thread : AskConnect(t)
    BY <1>1, <2>1 DEF AskConnect, Made
  <2>2. CASE ~(\E t \in Thread : AskConnect(t)) /\ \E t \in Thread : AskPeersStep(t)
    BY <2>2 DEF AskPeersStep, AskLower, AskGiveUp, AskSkip, AskUnreachable, AskRequest, AskErase,
                AskAbort, AskShort, AskEnough, nodeVars
  <2>3. CASE \E n \in Node : TaskHandler(n)
    BY <1>1, <2>3, HandlerConnects
  <2>4. CASE (\A t \in Thread : ~AskPeersStep(t)) /\ \A n \in Node : ~TaskHandler(n)
    BY <1>1, <2>4, OtherCounts DEF nodeVars
  <2> QED
    BY <2>1, <2>2, <2>3, <2>4
<1>3. ASSUME Fresh(m)'
      PROVE  Fresh(m) \/ (m \notin Made /\ \E t \in Thread : AskConnect(t) /\ m = numNodes + 1)
  <2>1. PICK u \in Thread : ask'[u].pc = "request" /\ ask'[u].node = m
    BY <1>3 DEF Fresh
  <2>2. CASE \E t \in Thread : AskPeersStep(t)
    <3>1. PICK t \in Thread : AskPeersStep(t)
      BY <2>2
    <3>2. \/ ask'[u] = ask[u]
          \/ u = t /\ AskConnect(t) /\ ask'[t].node = numNodes + 1
      BY <1>1, <2>1, <3>1, AskFrame
    <3> QED
      BY <1>1, <2>1, <3>2 DEF Fresh
  <2>3. CASE \E n \in Node : TaskHandler(n)
    <3>1. ask'[u] = ask[u]
      BY <1>1, <2>1, <2>3, TaskFrame
    <3> QED
      BY <2>1, <3>1 DEF Fresh
  <2>4. CASE (\A t \in Thread : ~AskPeersStep(t)) /\ \A n \in Node : ~TaskHandler(n)
    <3>1. ask'[u] = ask[u]
      BY <1>1, <2>1, <2>4, OtherCounts DEF Thread
    <3> QED
      BY <2>1, <3>1 DEF Fresh
  <2> QED
    BY <2>2, <2>3, <2>4
<1>4. ASSUME Live(m)'
      PROVE  Live(m) \/ Fresh(m)
  <2>1. Engaged(m)' => Engaged(m) \/ Awaited(m)
    <3>1. HandleEligible(m) => Awaited(m)
      BY <1>1, HandlerTurns DEF HandleEligible, Receives, TaskHandler
    <3> QED
      BY <1>1, <3>1, StepTurns
  <2>2. Awaited(m)' => Awaited(m) \/ Fresh(m)
    BY <1>1, StepTurns DEF Fresh, AskRequest
  <2> QED
    BY <1>4, <2>1, <2>2 DEF Live
<1> QED
  BY <1>2, <1>3, <1>4

\* Somebody who falls short: the threshold is still the high one, nothing else is
\* under way at his peer, and nothing more for himself.
LEMMA FallsShort ==
    ASSUME StartRace = FALSE, downs = 0, downs' = 0, CalmInv, GoneInv, JobsInv,
           NEW n \in Node, HandleNotEligible(n), [Next]_vars
    PROVE  /\ m_currentThreshold = HighThreshold
           /\ ~CancelDue(n) /\ n \in ToSet(m_tryNodes)
           /\ \A m \in Node \ {n} : nodePeer[m] = nodePeer[n] => ~CancelDue(m) /\ ~Served(m)
           /\ ~Live(n)' /\ ~Fresh(n)'
<1>1. /\ RequestInv /\ TaskHandler(n) /\ n \in Made /\ ~HandleNotEligibleAbort(n)
  <2>1. TaskHandler(n) /\ ~HandleNotEligibleAbort(n)
    BY DEF TaskHandler, HandleNotEligible, HandleNotEligibleAbort
  <2> QED
    BY <2>1, HandlerConnects DEF CalmInv
<1>2. /\ toTask[n] # <<>> /\ Head(toTask[n]).type = "TASK_REQUEST_RESP" /\ ~Eligible(n)
      /\ ~HandleEligible(n)
  BY DEF HandleNotEligible, HandleEligible, Receives
<1>3. m_currentThreshold = HighThreshold
  <2>1. Head(toTask[n]) \in TaskMessage
    BY <1>1, <1>2, HeadTailProperties DEF RequestInv, TypeInv, TypeOK
  <2>2. Head(toTask[n]).arg \in Nat
    BY <1>2, <2>1 DEF TaskMessage
  <2>3. PeerEligibility(Head(toTask[n]).arg) >= MediumThreshold
    BY <2>2 DEF PeerEligibility, MediumThreshold
  <2>4. m_currentThreshold \in {HighThreshold, MediumThreshold}
    BY <1>1 DEF RequestInv, TypeInv, TypeOK
  <2> QED
    BY <1>2, <2>3, <2>4 DEF Eligible
<1>4. Served(n) /\ Awaited(n) /\ ~Awaited(n)'
  BY <1>1, <1>2, HandlerQuieter, HandlerTurns DEF Answers
<1>5. ~CancelDue(n) /\ n \in ToSet(m_tryNodes)
  BY <1>3, <1>4 DEF JobsInv, CancelInv, HighInv, Live
<1>6. ASSUME NEW m \in Node \ {n}, nodePeer[m] = nodePeer[n]
      PROVE  ~CancelDue(m) /\ ~Served(m)
  BY <1>1, <1>3, <1>5, <1>6, ServedMade DEF JobsInv, HighInv
<1>7. ~Engaged(n)'
  <2>1. Carries(toTask[n], {"TASK_REQUEST_RESP"})
    BY <1>1, <1>2, TailCarries DEF RequestInv, TypeInv, TypeOK
  <2>2. Turn(n)
    BY <1>1 DEF RequestInv, TurnInv
  <2>3. ~Engaged(n)
    BY <2>1, <2>2 DEF Turn, Engaged, Carries, Once, Answers, Calls
  <2> QED
    BY <1>1, <1>2, <2>3, HandlerTurns
<1>8. ~Fresh(n)'
  BY <1>1, <1>4, NodeSteps DEF RequestInv, StageInv
<1> QED
  BY <1>3, <1>4, <1>5, <1>6, <1>7, <1>8 DEF Live

\* Steps that bring nobody anything keep the jobs in order.
LEMMA QuietJobs ==
    ASSUME StartRace = FALSE, downs = 0, downs' = 0, CalmInv, GoneInv, JobsInv, [Next]_vars,
           \A m \in Node : Quieter(m), jobList' = jobList
    PROVE  ListedInv' /\ CancelInv'
<1>1. \A m \in Node : /\ Served(m) \/ CancelDue(m) => m \in Made
                      /\ m \in Made => nodePeer'[m] = nodePeer[m]
                      /\ Fresh(m)' => Fresh(m) \/ m \notin Made
                      /\ Live(m)' => Live(m) \/ Fresh(m)
  BY NodeSteps, ServedMade DEF CalmInv
<1>2. \A m \in Made : JobsOf(m)' = JobsOf(m)
  BY <1>1 DEF JobsOf, Made
<1>3. ListedInv'
  BY <1>1, <1>2 DEF JobsInv, ListedInv, Quieter
<1>4. ASSUME NEW n \in Node, CancelDue(n)'
      PROVE  /\ CancelDue(n) /\ n \in Made
             /\ ~Live(n)' /\ ~Fresh(n)' /\ JobsOf(n)' # <<>> /\ Once(toWorker'[n], {"TASK_CANCEL"})
  BY <1>1, <1>2, <1>4 DEF JobsInv, CancelInv, Quieter
<1>5. ASSUME NEW n \in Node, NEW m \in Node, nodePeer'[n] = nodePeer'[m], CancelDue(n)'
      PROVE  /\ CancelDue(m)' => n = m
             /\ Served(m)' => m \in ToSet(Tail(JobsOf(n)'))
  BY <1>1, <1>2, <1>4, <1>5 DEF JobsInv, CancelInv, Quieter
<1> QED
  BY <1>3, <1>4, <1>5 DEF CancelInv

\* A cancel that is sent finds nothing else under way at the peer.
LEMMA CancelJobs ==
    ASSUME StartRace = FALSE, downs = 0, downs' = 0, CalmInv, GoneInv, JobsInv, [Next]_vars,
           NEW n \in Node, HandleNotEligible(n)
    PROVE  ListedInv' /\ CancelInv'
<1>1. /\ RequestInv /\ TaskHandler(n) /\ n \in Made /\ ~HandleNotEligibleAbort(n)
  <2>1. TaskHandler(n) /\ ~HandleNotEligibleAbort(n)
    BY DEF TaskHandler, HandleNotEligible, HandleNotEligibleAbort
  <2> QED
    BY <2>1, HandlerConnects DEF CalmInv
<1>2. /\ jobList' = jobList /\ \A m \in Node \ {n} : Quieter(m)
      /\ Served(n) /\ ~Served(n)'
      /\ ~CancelDue(n) => Once(toWorker'[n], {"TASK_CANCEL"})
      /\ Carries(toTask'[n], {"REFUSED"}) => Carries(toTask[n], {"REFUSED"})
  BY <1>1, HandlerQuieter DEF CalmInv
<1>3. /\ ~CancelDue(n)
      /\ \A m \in Node \ {n} : nodePeer[m] = nodePeer[n] => ~CancelDue(m) /\ ~Served(m)
      /\ ~Live(n)' /\ ~Fresh(n)'
  BY FallsShort
<1>4. \A m \in Node : /\ Served(m) \/ CancelDue(m) => m \in Made
                      /\ m \in Made => nodePeer'[m] = nodePeer[m]
                      /\ Fresh(m)' => Fresh(m) \/ m \notin Made
                      /\ Live(m)' => Live(m) \/ Fresh(m)
  BY NodeSteps, ServedMade DEF CalmInv
<1>5. \A m \in Made : JobsOf(m)' = JobsOf(m)
  BY <1>2, <1>4 DEF JobsOf, Made
<1>6. ListedInv'
  BY <1>2, <1>4, <1>5 DEF JobsInv, ListedInv, Quieter
<1>7. JobsOf(n)' # <<>>
  BY <1>1, <1>2, <1>5 DEF JobsInv, ListedInv, ToSet
<1>8. ASSUME NEW k \in Node, CancelDue(k)'
      PROVE  /\ k \in Made /\ (k # n => CancelDue(k))
             /\ ~Live(k)' /\ ~Fresh(k)' /\ JobsOf(k)' # <<>> /\ Once(toWorker'[k], {"TASK_CANCEL"})
  <2>1. CASE k = n
    BY <1>1, <1>2, <1>3, <1>7, <2>1
  <2>2. CASE k # n
    BY <1>2, <1>4, <1>5, <1>8, <2>2 DEF JobsInv, CancelInv, Quieter
  <2> QED
    BY <2>1, <2>2
<1>9. ASSUME NEW k \in Node, NEW m \in Node, nodePeer'[k] = nodePeer'[m], CancelDue(k)'
      PROVE  /\ CancelDue(m)' => k = m
             /\ Served(m)' => m \in ToSet(Tail(JobsOf(k)'))
  <2>1. CASE k = n
    <3>1. m # n => ~CancelDue(m)' /\ ~Served(m)'
      BY <1>1, <1>2, <1>3, <1>4, <1>9, <2>1 DEF Quieter
    <3> QED
      BY <1>2, <2>1, <3>1
  <2>2. CASE k # n
    <3>1. CancelDue(k) /\ k \in Made
      BY <1>8, <1>9, <2>2
    <3>2. CASE m = n
      BY <1>1, <1>2, <1>3, <1>4, <1>9, <2>2, <3>1, <3>2
    <3>3. CASE m # n
      BY <1>2, <1>4, <1>5, <1>9, <3>1, <3>3 DEF JobsInv, CancelInv, Quieter
    <3> QED
      BY <3>2, <3>3
  <2> QED
    BY <2>1, <2>2
<1> QED
  BY <1>6, <1>8, <1>9 DEF CancelInv

\* A job that is added is the youngest.
LEMMA RequestJobs ==
    ASSUME StartRace = FALSE, downs = 0, downs' = 0, CalmInv, GoneInv, JobsInv, [Next]_vars,
           NEW n \in Node, HandleTaskRequest(n)
    PROVE  ListedInv' /\ CancelInv'
<1>1. /\ RequestInv /\ WorkerStep(n) /\ n \in Made /\ Awaited(n)
      /\ \A m \in Node \ {n} : Quieter(m)
      /\ jobList' = [jobList EXCEPT ![nodePeer[n]] = Append(@, n)]
      /\ CancelDue(n)' => CancelDue(n)
      /\ Carries(toTask'[n], {"REFUSED"}) => Carries(toTask[n], {"REFUSED"})
  <2>1. WorkerStep(n)
    BY DEF WorkerStep
  <2> QED
    BY <2>1, WorkerQuieter DEF CalmInv
<1>2. ~CancelDue(n)'
  BY <1>1 DEF JobsInv, CancelInv, Live
<1>3. \A m \in Node : /\ Served(m) \/ CancelDue(m) => m \in Made
                      /\ m \in Made => nodePeer'[m] = nodePeer[m]
                      /\ Fresh(m)' => Fresh(m) \/ m \notin Made
                      /\ Live(m)' => Live(m) \/ Fresh(m)
  BY NodeSteps, ServedMade DEF CalmInv
<1>4. ASSUME NEW m \in Made
      PROVE  /\ JobsOf(m) \in Seq(Node)
             /\ JobsOf(m)' = IF nodePeer[m] = nodePeer[n] THEN Append(JobsOf(m), n) ELSE JobsOf(m)
  <2>1. m \in Node /\ jobList \in [Worker -> Seq(Node)] /\ nodePeer[n] \in Worker
    BY <1>1, ServedMade DEF RequestInv, TypeInv, TypeOK, Made
  <2>2. nodePeer'[m] = nodePeer[m] /\ nodePeer[m] \in Worker
    BY <1>1, <1>3, <2>1, ServedMade
  <2> QED
    BY <1>1, <2>1, <2>2 DEF JobsOf
<1>5. ASSUME NEW s \in Seq(Node)
      PROVE  /\ ToSet(Append(s, n)) = ToSet(s) \union {n} /\ Append(s, n) # <<>>
             /\ s # <<>> => ToSet(Tail(Append(s, n))) = ToSet(Tail(s)) \union {n}
  <2>1. \A r \in Seq(Node) : ToSet(Append(r, n)) = ToSet(r) \union {n} /\ Append(r, n) # <<>>
    BY AppendOnce, AppendProperties
  <2>2. ASSUME s # <<>>
        PROVE  ToSet(Tail(Append(s, n))) = ToSet(Tail(s)) \union {n}
    <3>1. /\ Tail(s) \in Seq(Node) /\ Len(s) \in Nat \ {0} /\ Len(Tail(s)) = Len(s) - 1
          /\ \A i \in 1 .. Len(s) - 1 : Tail(s)[i] = s[i + 1]
      BY <2>2, HeadTailProperties, LenProperties, EmptySeq
    <3>2. Len(s) \in Nat /\ Tail(s) \in Seq(Node)
      BY <3>1
    <3>3. ToSet(Append(Tail(s), n)) = ToSet(Tail(s)) \union {n}
      BY <2>1, <3>2
    <3>4. /\ Append(s, n) \in Seq(Node) /\ Len(Append(s, n)) = Len(s) + 1
          /\ \A i \in 1 .. Len(s) : Append(s, n)[i] = s[i]
          /\ Append(s, n)[Len(s) + 1] = n
      BY AppendProperties
    <3>5. /\ Tail(Append(s, n)) \in Seq(Node) /\ Len(Tail(Append(s, n))) = Len(s)
          /\ \A i \in 1 .. Len(s) : Tail(Append(s, n))[i] = Append(s, n)[i + 1]
      BY <3>1, <3>4, <2>1, HeadTailProperties
    <3>6. /\ Append(Tail(s), n) \in Seq(Node) /\ Len(Append(Tail(s), n)) = Len(s)
          /\ \A i \in 1 .. Len(s) - 1 : Append(Tail(s), n)[i] = Tail(s)[i]
          /\ Append(Tail(s), n)[Len(s)] = n
      BY <3>1, AppendProperties
    <3>7. \A i \in 1 .. Len(s) : Tail(Append(s, n))[i] = Append(Tail(s), n)[i]
      <4> TAKE i \in 1 .. Len(s)
      <4>1. CASE i = Len(s)
        BY <3>1, <3>4, <3>5, <3>6, <4>1
      <4>2. CASE i # Len(s)
        <5>1. i \in 1 .. Len(s) - 1 /\ i + 1 \in 1 .. Len(s)
          BY <3>2, <4>2
        <5> QED
          BY <3>1, <3>4, <3>5, <3>6, <5>1
      <4> QED
        BY <4>1, <4>2
    <3>8. Tail(Append(s, n)) = Append(Tail(s), n)
      BY <3>5, <3>6, <3>7, SeqEqual
    <3> QED
      BY <3>8, <3>3
  <2> QED
    BY <2>1, <2>2
<1>6. ListedInv'
  <2>1. ASSUME NEW m \in Node, Served(m)'
        PROVE  m \in ToSet(JobsOf(m)')
    <3>1. m \in Made /\ (m = n \/ m \in ToSet(JobsOf(m)))
      BY <1>1, <1>3, <2>1 DEF Quieter, JobsInv, ListedInv
    <3> QED
      BY <1>4, <1>5, <3>1
  <2>2. \A m \in Node : ~Carries(toTask'[m], {"REFUSED"})
    BY <1>1 DEF Quieter, JobsInv, ListedInv
  <2> QED
    BY <2>1, <2>2 DEF ListedInv
<1>7. ASSUME NEW k \in Node, CancelDue(k)'
      PROVE  /\ CancelDue(k) /\ k \in Made /\ k # n
             /\ ~Live(k)' /\ ~Fresh(k)' /\ JobsOf(k)' # <<>> /\ Once(toWorker'[k], {"TASK_CANCEL"})
  <2>1. k # n /\ CancelDue(k) /\ k \in Made
    BY <1>1, <1>2, <1>3, <1>7 DEF Quieter
  <2>2. JobsOf(k)' # <<>>
    BY <1>4, <1>5, <2>1 DEF JobsInv, CancelInv
  <2> QED
    BY <1>1, <1>3, <2>1, <2>2 DEF JobsInv, CancelInv, Quieter
<1>8. ASSUME NEW k \in Node, NEW m \in Node, nodePeer'[k] = nodePeer'[m], CancelDue(k)'
      PROVE  /\ CancelDue(m)' => k = m
             /\ Served(m)' => m \in ToSet(Tail(JobsOf(k)'))
  <2>1. CancelDue(k) /\ k \in Made /\ JobsOf(k) # <<>>
    BY <1>7, <1>8 DEF JobsInv, CancelInv
  <2>2. ASSUME CancelDue(m)' PROVE k = m
    <3>1. CancelDue(m) /\ m \in Made
      BY <1>7, <2>2
    <3> QED
      BY <1>3, <1>8, <2>1, <3>1 DEF JobsInv, CancelInv
  <2>3. ASSUME Served(m)' PROVE m \in ToSet(Tail(JobsOf(k)'))
    <3>1. m \in Made /\ (m = n \/ Served(m))
      BY <1>1, <1>3, <2>3 DEF Quieter
    <3>2. nodePeer[k] = nodePeer[m]
      BY <1>3, <1>8, <2>1, <3>1
    <3>3. m # n => m \in ToSet(Tail(JobsOf(k)))
      BY <2>1, <3>1, <3>2 DEF JobsInv, CancelInv
    <3>4. JobsOf(k) \in Seq(Node) /\ JobsOf(k)' = IF nodePeer[m] = nodePeer[n] THEN Append(JobsOf(k), n)
                                                                              ELSE JobsOf(k)
      BY <1>4, <2>1, <3>2
    <3>5. nodePeer[m] = nodePeer[n] =>
              ToSet(Tail(JobsOf(k)')) = ToSet(Tail(JobsOf(k))) \union {n}
      BY <1>5, <2>1, <3>4
    <3> QED
      BY <3>3, <3>4, <3>5
  <2> QED
    BY <2>2, <2>3
<1> QED
  BY <1>6, <1>7, <1>8 DEF CancelInv

\* What a cancel takes is no job that may be needed.
LEMMA CancelledJobs ==
    ASSUME StartRace = FALSE, downs = 0, downs' = 0, CalmInv, GoneInv, JobsInv, [Next]_vars,
           NEW n \in Node, HandleTaskCancel(n)
    PROVE  ListedInv' /\ CancelInv'
<1>1. /\ RequestInv /\ WorkerStep(n) /\ n \in Made /\ CancelDue(n)
      /\ \A m \in Node : Quieter(m)
      /\ jobList' = [jobList EXCEPT ![nodePeer[n]] = WithoutOldest(@)]
      /\ Once(toWorker[n], {"TASK_CANCEL"}) => ~CancelDue(n)'
  <2>1. WorkerStep(n)
    BY DEF WorkerStep
  <2> QED
    BY <2>1, WorkerQuieter DEF CalmInv
<1>2. ~CancelDue(n)' /\ JobsOf(n) # <<>>
  BY <1>1 DEF JobsInv, CancelInv
<1>3. \A m \in Node : /\ Served(m) \/ CancelDue(m) => m \in Made
                      /\ m \in Made => nodePeer'[m] = nodePeer[m]
                      /\ Fresh(m)' => Fresh(m) \/ m \notin Made
                      /\ Live(m)' => Live(m) \/ Fresh(m)
  BY NodeSteps, ServedMade DEF CalmInv
<1>4. ASSUME NEW m \in Made
      PROVE  JobsOf(m)' = IF nodePeer[m] = nodePeer[n] THEN Tail(JobsOf(n)) ELSE JobsOf(m)
  <2>1. m \in Node /\ jobList \in [Worker -> Seq(Node)] /\ nodePeer[n] \in Worker
    BY <1>1, ServedMade DEF RequestInv, TypeInv, TypeOK, Made
  <2>2. nodePeer'[m] = nodePeer[m] /\ nodePeer[m] \in Worker
    BY <1>1, <1>3, <2>1, ServedMade
  <2> QED
    BY <1>1, <1>2, <2>1, <2>2 DEF JobsOf, WithoutOldest
<1>5. ListedInv'
  <2>1. ASSUME NEW m \in Node, Served(m)'
        PROVE  m \in ToSet(JobsOf(m)')
    <3>1. m \in Made /\ Served(m) /\ m \in ToSet(JobsOf(m))
      BY <1>1, <1>3, <2>1 DEF Quieter, JobsInv, ListedInv
    <3>2. nodePeer[m] = nodePeer[n] => m \in ToSet(Tail(JobsOf(n)))
      BY <1>1, <3>1 DEF JobsInv, CancelInv
    <3> QED
      BY <1>4, <3>1, <3>2
  <2> QED
    BY <1>1, <2>1 DEF Quieter, JobsInv, ListedInv
<1>6. ASSUME NEW k \in Node, CancelDue(k)'
      PROVE  /\ CancelDue(k) /\ k \in Made /\ JobsOf(k)' = JobsOf(k)
             /\ ~Live(k)' /\ ~Fresh(k)' /\ JobsOf(k)' # <<>> /\ Once(toWorker'[k], {"TASK_CANCEL"})
  <2>1. CancelDue(k) /\ k \in Made /\ k # n
    BY <1>1, <1>2, <1>3, <1>6 DEF Quieter
  <2>2. nodePeer[k] # nodePeer[n]
    BY <1>1, <2>1 DEF JobsInv, CancelInv
  <2>3. JobsOf(k)' = JobsOf(k)
    BY <1>4, <2>1, <2>2
  <2> QED
    BY <1>1, <1>3, <2>1, <2>3 DEF JobsInv, CancelInv, Quieter
<1>7. ASSUME NEW k \in Node, NEW m \in Node, nodePeer'[k] = nodePeer'[m], CancelDue(k)'
      PROVE  /\ CancelDue(m)' => k = m
             /\ Served(m)' => m \in ToSet(Tail(JobsOf(k)'))
  <2>1. CancelDue(k) /\ k \in Made /\ JobsOf(k)' = JobsOf(k)
    BY <1>6, <1>7
  <2>2. CancelDue(m)' => CancelDue(m) /\ m \in Made
    BY <1>6
  <2>3. Served(m)' => Served(m) /\ m \in Made
    BY <1>1, <1>3 DEF Quieter
  <2> QED
    BY <1>3, <1>7, <2>1, <2>2, <2>3 DEF JobsInv, CancelInv
<1> QED
  BY <1>5, <1>6, <1>7 DEF CancelInv

\* Every step keeps each peer from being asked twice at the high threshold.
LEMMA StepHigh ==
    ASSUME StartRace = FALSE, downs = 0, downs' = 0, AliveInv, JobsInv, [Next]_vars,
           \A t \in Thread : ~AskGiveUp(t) /\ ~AskShort(t),
           \A n \in Node : ~HandleNotEligibleAbort(n)
    PROVE  HighInv'
<1>1. /\ RequestInv /\ CalmInv /\ GoneInv /\ TriedInv /\ ScanInv /\ QuotaInv
      /\ m_tryNodes \in Seq(Node) /\ m_numRequiredPeers' = m_numRequiredPeers
      /\ nodePeer \in [Node -> Worker \union {None}] /\ numNodes \in 0 .. MaxNodes
  BY DEF AliveInv, OnceInv, CalmInv, RequestInv, TypeInv, TypeOK, ScanInv, Next, HandlePeerList, vars
<1>2. \A m \in Node : /\ m \in Made => nodePeer'[m] = nodePeer[m]
                      /\ Fresh(m)' => Fresh(m) \/ (m \notin Made /\ \E t \in Thread : AskConnect(t) /\ m = numNodes + 1)
                      /\ Live(m)' => Live(m) \/ Fresh(m)
  BY <1>1, NodeSteps
<1> DEFINE Busy(m) == Fresh(m) \/ Live(m) \/ CancelDue(m)
           BusyNext(m) == Fresh(m)' \/ Live(m)' \/ CancelDue(m)'
<1> SUFFICES ASSUME m_currentThreshold' = HighThreshold
             PROVE  /\ \A m \in Node : BusyNext(m) => m \in ToSet(m_tryNodes')
                    /\ \A n, m \in ToSet(m_tryNodes') : nodePeer'[n] = nodePeer'[m] => n = m
  BY DEF HighInv
<1>3. ASSUME m_currentThreshold = HighThreshold
      PROVE  /\ \A m \in Node : Busy(m) => m \in ToSet(m_tryNodes)
             /\ \A n, m \in ToSet(m_tryNodes) : nodePeer[n] = nodePeer[m] => n = m
             /\ ToSet(m_tryNodes) \subseteq Made /\ ToSet(m_tryNodes) \subseteq Node
  BY <1>1, <1>3 DEF JobsInv, HighInv, TriedInv, Made
<1>4. ASSUME m_currentThreshold = HighThreshold, \A m \in Node : BusyNext(m) => Busy(m),
             m_tryNodes' = m_tryNodes
      PROVE  /\ \A m \in Node : BusyNext(m) => m \in ToSet(m_tryNodes')
             /\ \A n, m \in ToSet(m_tryNodes') : nodePeer'[n] = nodePeer'[m] => n = m
  BY <1>2, <1>3, <1>4
<1>5. ASSUME NEW t \in Thread, AskPeersStep(t)
      PROVE  /\ \A m \in Node : BusyNext(m) => m \in ToSet(m_tryNodes')
             /\ \A n, m \in ToSet(m_tryNodes') : nodePeer'[n] = nodePeer'[m] => n = m
  <2>1. ~AskLower(t) /\ ~AskUnreachable(t)
    <3>1. ~AskLower(t)
      BY DEF AskLower, HighThreshold, MediumThreshold
    <3>2. ~AskUnreachable(t)
      BY <1>1, <1>5, AskScans
    <3> QED
      BY <3>1, <3>2
  <2>2. /\ m_currentThreshold = HighThreshold
        /\ AskConnect(t) \/ m_tryNodes' = m_tryNodes
    BY <1>1, <1>5, <2>1, AskTries
  <2>3. \A m \in Node : CancelDue(m)' => CancelDue(m)
    BY <1>1, <1>5, AskQuieter DEF Quieter
  <2>4. CASE \E u \in Thread : AskConnect(u)
    <3>1. PICK u \in Thread : AskConnect(u)
      BY <2>4
    <3> DEFINE k == numNodes + 1
    <3>2. /\ m_tryNodes' = Append(m_tryNodes, k) /\ k \in Node
          /\ nodePeer'[k] = Peer(u) /\ ~IsInTryNodes(Peer(u))
      <4>1. k \in Node
        BY <1>1, <3>1, TaskConstants DEF AskConnect, Node
      <4> QED
        BY <1>1, <3>1, <4>1 DEF AskConnect, Candidate
    <3> HIDE DEF k
    <3>3. ToSet(m_tryNodes') = ToSet(m_tryNodes) \union {k}
      BY <1>1, <3>2, AppendOnce
    <3>4. \A m \in Node : BusyNext(m) => Busy(m) \/ m = k
      BY <1>2, <2>3 DEF k
    <3>5. \A m \in ToSet(m_tryNodes) : nodePeer'[m] = nodePeer[m] /\ nodePeer[m] # nodePeer'[k]
      BY <1>2, <1>3, <2>2, <3>2 DEF IsInTryNodes
    <3> QED
      BY <1>3, <2>2, <3>3, <3>4, <3>5
  <2>5. CASE ~(\E u \in Thread : AskConnect(u))
    <3>1. \A m \in Node : BusyNext(m) => Busy(m)
      BY <1>2, <2>3, <2>5
    <3> QED
      BY <1>4, <1>5, <2>2, <2>5, <3>1
  <2> QED
    BY <2>4, <2>5
<1>6. ASSUME NEW n \in Node, TaskHandler(n)
      PROVE  /\ \A m \in Node : BusyNext(m) => m \in ToSet(m_tryNodes')
             /\ \A k, m \in ToSet(m_tryNodes') : nodePeer'[k] = nodePeer'[m] => k = m
  <2>1. /\ ask["main"].pc = "done" /\ ask'["main"] = ask["main"] /\ ~HandlePeerConnFailure(n)
        /\ ask'["task"] = Entered \/ ask'["task"].pc \in {"check", "get"}
    BY <1>1, <1>6, HandlerCounts, AliveStays
  <2>2. \A m \in Node : ~Fresh(m)'
    BY <2>1 DEF Fresh, Entered, Thread
  <2>3. \A m \in Node : CancelDue(m)' => CancelDue(m) \/ (m = n /\ HandleNotEligible(n))
    BY <1>1, <1>6, HandlerQuieter DEF Quieter
  <2>4. HandleNotEligible(n) => Live(n)
    BY <1>1, <1>6, HandlerQuieter, ServedMade
  <2>5. \A m \in Node : BusyNext(m) => Busy(m)
    BY <1>2, <2>2, <2>3, <2>4
  <2>6. ~HandleRefused(n)
    <3>1. HandleRefused(n) => toTask[n] # <<>> /\ Head(toTask[n]).type = "REFUSED"
      BY DEF HandleRefused, Receives
    <3>2. HandleRefused(n) => Carries(toTask[n], {"REFUSED"})
      BY <1>1, <3>1, TailCarries DEF RequestInv, TypeInv, TypeOK
    <3> QED
      BY <3>2 DEF JobsInv, ListedInv
  <2>7. /\ m_currentThreshold = HighThreshold
        /\ HandleTaskResult(n) \/ m_tryNodes' = m_tryNodes
    <3>1. CASE HandleNotEligible(n)
      <4>1. m_tryNodes' = m_tryNodes
        BY <3>1 DEF HandleNotEligible, nodeLists
      <4> QED
        BY <1>1, <3>1, <4>1, FallsShort
    <3>2. CASE ~HandleNotEligible(n)
      BY <1>6, <2>1, <2>6, <3>2 DEF TaskHandler, HandleEligible, HandleExecuting, HandleTaskResult,
                  IgnorePeerConnFailure, countVars, triedVars, nodeLists
    <3> QED
      BY <3>1, <3>2
  <2>8. CASE ~HandleTaskResult(n)
    BY <1>4, <2>5, <2>7, <2>8
  <2>9. CASE HandleTaskResult(n)
    <3>1. m_tryNodes' = RemovePeerFrom(m_tryNodes, n) /\ Live(n) /\ ~Live(n)'
      BY <1>1, <1>6, <2>9, HandlerLists DEF HandleTaskResult, Live
    <3>2. ~BusyNext(n)
      <4>1. ~HandleNotEligible(n)
        BY <2>9 DEF HandleTaskResult, HandleNotEligible, Receives
      <4> QED
        BY <2>2, <2>3, <3>1, <4>1 DEF JobsInv, CancelInv
    <3>3. n \in ToSet(m_tryNodes)
      BY <1>3, <2>7, <3>1
    <3>4. ToSet(m_tryNodes') \subseteq ToSet(m_tryNodes)
      BY <1>1, <3>1, RemovePeerFacts
    <3>5. ToSet(m_tryNodes) \subseteq ToSet(m_tryNodes') \union {n}
      BY <1>1, <1>3, <2>7, <3>1, <3>3, RemovePeerOne
    <3> QED
      BY <1>2, <1>3, <2>5, <2>7, <3>2, <3>4, <3>5
  <2> QED
    BY <2>8, <2>9
<1>7. CASE (\A t \in Thread : ~AskPeersStep(t)) /\ \A n \in Node : ~TaskHandler(n)
  <2>1. UNCHANGED <<m_tryNodes, m_currentThreshold>>
    BY <1>1, <1>7, OtherCounts DEF nodeLists, countVars, triedVars
  <2>2. \A t \in Thread : ~AskConnect(t)
    BY <1>7 DEF AskPeersStep
  <2>3. \A m \in Node : CancelDue(m)' => CancelDue(m)
    <3>1. ASSUME NEW n \in Node, WorkerStep(n) \/ JobDone(n), NEW m \in Node, CancelDue(m)'
          PROVE  CancelDue(m)
      <4>1. HandleTaskExecute(n) => n \in ToSet(JobsOf(n))
        BY <1>1, <3>1, WorkerQuieter DEF JobsInv, ListedInv
      <4> QED
        BY <1>1, <3>1, <4>1, WorkerQuieter DEF WorkerStep, Quieter
    <3>2. ASSUME \A n \in Node : ~WorkerStep(n) /\ ~JobDone(n), NEW m \in Node, CancelDue(m)'
          PROVE  CancelDue(m)
      BY <1>1, <1>7, <3>2, RestQuieter DEF Quieter
    <3> QED
      BY <3>1, <3>2
  <2>4. \A m \in Node : BusyNext(m) => Busy(m)
    BY <1>2, <2>2, <2>3
  <2> QED
    BY <1>4, <2>1, <2>4
<1> QED
  BY <1>5, <1>6, <1>7

\* Every step keeps the jobs in order.
LEMMA StepJobs ==
    ASSUME StartRace = FALSE, downs = 0, downs' = 0, AliveInv, JobsInv, [Next]_vars,
           \A t \in Thread : ~AskGiveUp(t) /\ ~AskShort(t),
           \A n \in Node : ~HandleNotEligibleAbort(n)
    PROVE  JobsInv'
<1>1. RequestInv /\ CalmInv /\ GoneInv
  BY DEF AliveInv, OnceInv, CalmInv
<1>2. CASE \E t \in Thread : AskPeersStep(t)
  <2>1. jobList' = jobList /\ \A m \in Node : Quieter(m)
    <3>1. jobList' = jobList
      BY <1>2 DEF AskPeersStep, AskLower, AskSkip, AskUnreachable, AskConnect, AskRequest,
         AskErase, AskAbort, AskEnough, workerVars, jobVars
    <3> QED
      BY <1>1, <1>2, <3>1, AskQuieter
  <2> QED
    BY <1>1, <2>1, QuietJobs, StepHigh DEF JobsInv
<1>3. ASSUME NEW n \in Node, TaskHandler(n)
      PROVE  JobsInv'
  <2>1. CASE HandleNotEligible(n)
    BY <1>1, <2>1, CancelJobs, StepHigh DEF JobsInv
  <2>2. CASE ~HandleNotEligible(n)
    <3>1. jobList' = jobList
      BY <1>3 DEF TaskHandler, HandleEligible, HandleNotEligible, HandleNotEligibleAbort, HandleExecuting,
           HandleRefused, HandleTaskResult, HandlePeerConnFailure, IgnorePeerConnFailure,
           workerVars, jobVars
    <3>2. \A m \in Node : Quieter(m)
      BY <1>1, <1>3, <2>2, HandlerQuieter
    <3> QED
      BY <1>1, <3>1, <3>2, QuietJobs, StepHigh DEF JobsInv
  <2> QED
    BY <2>1, <2>2
<1>4. ASSUME NEW n \in Node, WorkerStep(n) \/ JobDone(n)
      PROVE  JobsInv'
  <2>1. CASE HandleTaskRequest(n)
    BY <1>1, <2>1, RequestJobs, StepHigh DEF JobsInv
  <2>2. CASE HandleTaskCancel(n)
    BY <1>1, <2>2, CancelledJobs, StepHigh DEF JobsInv
  <2>3. CASE HandleTaskExecute(n) \/ JobDone(n)
    <3>1. \A m \in Node \ {n} : Quieter(m)
      BY <1>1, <1>4, WorkerQuieter
    <3>2. jobList' = jobList /\ Quieter(n)
      BY <1>1, <1>4, <2>3, WorkerQuieter DEF JobsInv, ListedInv
    <3>3. \A m \in Node : Quieter(m)
      BY <3>1, <3>2
    <3> QED
      BY <1>1, <3>2, <3>3, QuietJobs, StepHigh DEF JobsInv
  <2> QED
    BY <1>4, <2>1, <2>2, <2>3 DEF WorkerStep
<1>5. CASE /\ \A t \in Thread : ~AskPeersStep(t)
           /\ \A n \in Node : ~TaskHandler(n) /\ ~WorkerStep(n) /\ ~JobDone(n)
  <2>1. \A m \in Node : Quieter(m)
    BY <1>1, <1>5, RestQuieter
  <2>2. jobList' = jobList
    BY <1>1, <1>5, AliveStays DEF Next, Step, HandlePeerList, TaskCheck, TaskWait, workerVars,
                                  jobVars, vars
  <2> QED
    BY <1>1, <2>1, <2>2, QuietJobs, StepHigh DEF JobsInv
<1> QED
  BY <1>2, <1>3, <1>4, <1>5

\* In the beginning nobody has a job.
LEMMA InitJobs == Init => JobsInv
<1> SUFFICES ASSUME Init PROVE JobsInv
  OBVIOUS
<1>1. \A n \in Node : toWorker[n] = <<>> /\ toTask[n] = <<>> /\ n \notin jobRunning
  BY DEF Init
<1>2. \A n \in Node : \A T : ~Carries(toWorker[n], T) /\ ~Carries(toTask[n], T)
  BY <1>1, EmptyShrinks
<1>3. \A n \in Node : ~Fresh(n) /\ ~Live(n) /\ ~Served(n) /\ ~CancelDue(n)
  <2>1. \A t \in Thread : ask[t].pc # "request"
    BY DEF Init, Entered, Thread
  <2> QED
    BY <1>1, <1>2, <2>1 DEF Fresh, Live, Awaited, Engaged, Served, CancelDue
<1>4. m_tryNodes = <<>>
  BY DEF Init
<1>5. ToSet(m_tryNodes) = {}
  BY <1>4 DEF ToSet
<1>6. ListedInv /\ CancelInv
  BY <1>2, <1>3 DEF ListedInv, CancelInv
<1>7. HighInv
  BY <1>3, <1>5 DEF HighInv
<1> QED
  BY <1>6, <1>7 DEF JobsInv

\* It all holds while Start succeeds.
LEMMA AlwaysServes ==
    ASSUME StartRace = FALSE, MaxDowns = 0, UsableLists
    PROVE  Spec /\ StartSucceeds => [](AliveInv /\ UnaskedInv /\ GoingInv /\ JobsInv)
<1>1. /\ AliveInv /\ UnaskedInv /\ GoingInv /\ JobsInv /\ [Next]_vars
      /\ [~AskShort("main") /\ ~AskGiveUp("main")]_vars
      => JobsInv'
  BY StepAlive, StepGoes, StepJobs
<1> QED
  BY <1>1, InitJobs, AlwaysGoes, PTL DEF Spec, StartSucceeds

\* With no death, usable lists and a Start that finds enough peers: a cancel,
\* which names only the owner and the task, never takes the entry of a job whose
\* thread runs.
THEOREM CancelSparesRunningJobs ==
    ASSUME StartRace = FALSE, MaxDowns = 0, UsableLists
    PROVE  Spec /\ StartSucceeds => []RunningJobListed
<1>1. AliveInv /\ JobsInv => RunningJobListed
  <2> SUFFICES ASSUME AliveInv, JobsInv, NEW n \in jobRunning
               PROVE  Contains(jobList[nodePeer[n]], n)
    BY DEF RunningJobListed
  <2>1. RequestInv /\ n \in Node
    BY DEF AliveInv, OnceInv, CalmInv, RequestInv, TypeInv, TypeOK
  <2>2. Served(n)
    BY DEF Served
  <2>3. n \in ToSet(JobsOf(n)) /\ JobsOf(n) \in Seq(Node)
    BY <2>1, <2>2, ServedMade DEF JobsInv, ListedInv
  <2> QED
    BY <2>3, LenProperties DEF ToSet, Contains, JobsOf
<1> QED
  BY <1>1, AlwaysServes, PTL

\* ... so with lists long enough no running job is ever cancelled.
THEOREM EnoughSparesRunningJobs ==
    ASSUME StartRace = FALSE, MaxDowns = 0, EnoughPeers
    PROVE  Spec => []RunningJobListed
BY StartFindsEnough, CancelSparesRunningJobs, PTL DEF EnoughPeers

-----------------------------------------------------------------------------
\* Nothing comes to rest

\* The task was not given up, and its process goes on.
On == ~m_bStop /\ ~aborted

\* What was under way for the node still is.
Stays(m) == (Awaited(m) => Awaited(m)') /\ (Engaged(m) => Engaged(m)')

\* A task that goes on has gone on.
LEMMA OnSince ==
    ASSUME StartRace = FALSE, CalmInv, [Next]_vars, On'
    PROVE  /\ On
           /\ \A t \in Thread : ~AskGiveUp(t) /\ ~AskShort(t) /\ ~AskAbort(t)
           /\ \A n \in Node : ~HandleNotEligibleAbort(n)
<1>1. RequestInv /\ m_bStop \in BOOLEAN /\ aborted \in BOOLEAN
  BY DEF CalmInv, RequestInv, TypeInv, TypeOK
<1>2. /\ \A t \in Thread : ~AskGiveUp(t) /\ ~AskShort(t) /\ ~AskAbort(t)
      /\ \A n \in Node : ~HandleNotEligibleAbort(n)
  BY DEF On, AskGiveUp, AskShort, AskAbort, TaskCancel, HandleNotEligibleAbort
<1>3. CASE \E t \in Thread : AskPeersStep(t)
  BY <1>2, <1>3 DEF On, AskPeersStep, AskLower, AskSkip, AskUnreachable, AskConnect, AskRequest,
                    AskErase, AskEnough
<1>4. CASE \E n \in Node : TaskHandler(n)
  <2>1. PICK n \in Node : TaskHandler(n)
    BY <1>4
  <2>2. m_bStop' = m_bStop
    BY <2>1, StoppedHandler
  <2>3. ~aborted
    BY <2>1 DEF TaskHandler, HandleEligible, HandleNotEligible, HandleNotEligibleAbort, HandleExecuting,
           HandleRefused, HandleTaskResult, HandlePeerConnFailure, IgnorePeerConnFailure, Receives
  <2> QED
    BY <1>2, <2>2, <2>3 DEF On
<1>5. CASE (\A t \in Thread : ~AskPeersStep(t)) /\ \A n \in Node : ~TaskHandler(n)
  BY <1>1, <1>2, <1>5, OtherCounts DEF On
<1> QED
  BY <1>3, <1>4, <1>5

\* AskPeers sends what it was about to ask, and loses nothing.
LEMMA AskDelivers ==
    ASSUME downs = 0, CalmInv, GoneInv, NEW t \in Thread, AskPeersStep(t), ~AskGiveUp(t), ~AskShort(t),
           NEW m \in Node
    PROVE  /\ Stays(m) /\ (Fresh(m) => Fresh(m)' \/ Awaited(m)')
           /\ AskConnect(t) /\ m = numNodes + 1 => Fresh(m)'
<1>1. /\ RequestInv /\ TypeInv /\ ask \in [Thread -> Asking] /\ AskedIsFirst
      /\ toWorker \in [Node -> Seq(WorkerMessage)] /\ m_unAllotParamList \in Seq(Param)
      /\ \A u \in Thread : ask[u].pc = "request" => ask[u].node \in Made
  BY DEF CalmInv, KeepInv, RequestInv, MadeInv, TypeInv, TypeOK
<1>2. UNCHANGED <<jobRunning, toTask>> /\ (AskRequest(t) \/ toWorker' = toWorker)
  BY DEF AskPeersStep, AskLower, AskSkip, AskUnreachable, AskConnect, AskRequest, AskErase,
         AskAbort, AskEnough, workerVars, jobVars, netVars
<1>3. AskConnect(t) /\ m = numNodes + 1 => Fresh(m)'
  <2> SUFFICES ASSUME AskConnect(t), m = numNodes + 1 PROVE Fresh(m)'
    OBVIOUS
  <2>1. ask'[t].pc = "request" /\ ask'[t].node = m
    BY <1>1 DEF AskConnect, Asking
  <2> QED
    BY <2>1 DEF Fresh
<1>4. ASSUME AskRequest(t)
      PROVE  /\ m = ask[t].node => Awaited(m)'
             /\ \A T : Carries(toWorker[m], T) => Carries(toWorker'[m], T)
  <2> DEFINE x == RequestFor(ParamToAsk)
  <2>1. PICK k \in Made : k = ask[t].node
    BY <1>1, <1>4 DEF AskRequest
  <2>2. x \in WorkerMessage /\ x.type = "TASK_REQUEST"
    <3>1. ParamToAsk \in Param
      BY <1>1, <1>4, HeadTailProperties DEF AskRequest, ParamToAsk
    <3> QED
      BY <3>1 DEF RequestFor, WorkerMessage
  <2>3. Send(k, x)
    BY <1>4, <2>1 DEF AskRequest
  <2> HIDE DEF x
  <2>4. toWorker' = [toWorker EXCEPT ![k] = Append(@, x)]
    BY <1>1, <2>1, <2>2, <2>3, AliveSends
  <2>5. CASE m = k
    <3>1. \A T : Carries(toWorker'[m], T) <=> Carries(toWorker[m], T) \/ x.type \in T
      BY <1>1, <2>2, <2>4, <2>5, AppendCarries
    <3> QED
      BY <2>2, <3>1 DEF Awaited
  <2>6. CASE m # k
    BY <1>1, <2>1, <2>4, <2>6
  <2> QED
    BY <2>5, <2>6
<1>5. Stays(m)
  <2>1. /\ Carries(toWorker[m], {"TASK_REQUEST"}) => Carries(toWorker'[m], {"TASK_REQUEST"})
        /\ Carries(toWorker[m], {"TASK_EXECUTE"}) => Carries(toWorker'[m], {"TASK_EXECUTE"})
    BY <1>2, <1>4
  <2> QED
    BY <1>2, <2>1 DEF Stays, Awaited, Engaged
<1>6. Fresh(m) => Fresh(m)' \/ Awaited(m)'
  <2> SUFFICES ASSUME NEW u \in Thread, ask[u].pc = "request", ask[u].node = m
               PROVE  Fresh(m)' \/ Awaited(m)'
    BY DEF Fresh
  <2>1. CASE u # t
    <3>1. ask'[u] = ask[u]
      BY <1>1, <2>1, AskMoves DEF RequestInv
    <3> QED
      BY <3>1 DEF Fresh
  <2>2. CASE u = t
    <3>1. AskRequest(t) \/ ask' = ask
      BY <2>2 DEF AskPeersStep, AskLower, AskSkip, AskUnreachable, AskConnect, AskErase,
                  AskAbort, AskEnough, AskEnd, Scanning
    <3> QED
      BY <1>4, <2>2, <3>1 DEF Fresh
  <2> QED
    BY <2>1, <2>2
<1> QED
  BY <1>3, <1>5, <1>6

\* Of the maps it changes one: what is asked for.
LEMMA AskMaps ==
    ASSUME NEW t \in Thread, AskPeersStep(t), ~AskGiveUp(t), ~AskShort(t)
    PROVE  /\ UNCHANGED <<m_peerParamMap, m_paramResultMap, m_taskNodes>>
           /\ AskConnect(t) => m_tryPeerParamMap' = m_tryPeerParamMap \union {Head(m_unAllotParamList)}
           /\ ~AskConnect(t) => m_tryPeerParamMap' = m_tryPeerParamMap
<1>1. /\ UNCHANGED <<m_peerParamMap, m_paramResultMap, m_taskNodes>>
      /\ AskConnect(t) => m_tryPeerParamMap' = m_tryPeerParamMap \union {Head(m_unAllotParamList)}
  BY DEF AskPeersStep, AskLower, AskSkip, AskUnreachable, AskConnect, AskRequest, AskErase,
         AskAbort, AskEnough, allotVars, nodeLists, resultVars, ParamToAsk
<1>2. ~AskConnect(t) => m_tryPeerParamMap' = m_tryPeerParamMap
  BY DEF AskPeersStep, AskLower, AskSkip, AskUnreachable, AskRequest, AskErase,
         AskAbort, AskEnough, allotVars
<1> QED
  BY <1>1, <1>2

\* A handler consumes its own message alone, and what it sends arrives.
LEMMA HandlerDelivers ==
    ASSUME StartRace = FALSE, downs = 0, CalmInv, GoneInv, NEW n \in Node, TaskHandler(n),
           ~HandleNotEligibleAbort(n), NEW m \in Node
    PROVE  /\ m # n => Stays(m)
           /\ HandleEligible(n) => Engaged(n)'
           /\ ~HandleEligible(n) /\ ~HandleNotEligible(n) => (Awaited(n) => Awaited(n)')
           /\ ~HandleTaskResult(n) /\ ~HandleRefused(n) => (Engaged(n) => Engaged(n)')
           /\ ~Fresh(m)
<1>1. /\ RequestInv /\ UNCHANGED jobRunning /\ toTask[n] # <<>> /\ ~HandlePeerConnFailure(n)
      /\ n \in Made
      /\ toWorker \in [Node -> Seq(WorkerMessage)] /\ toTask \in [Node -> Seq(TaskMessage)]
  <2>1. UNCHANGED jobRunning /\ toTask[n] # <<>>
    BY DEF TaskHandler, HandleEligible, HandleNotEligible, HandleNotEligibleAbort, HandleExecuting,
           HandleRefused, HandleTaskResult, HandlePeerConnFailure, IgnorePeerConnFailure,
           workerVars, jobVars, Receives
  <2> QED
    BY <2>1, AliveStays, HandlerConnects DEF CalmInv, RequestInv, TypeInv, TypeOK
<1>2. /\ \A k \in Node \ {n} : toTask'[k] = toTask[k]
      /\ \/ toTask'[n] = Tail(toTask[n])
         \/ toTask'[n] = Append(Tail(toTask[n]), ConnectionFailure)
  <2>1. Consume(n) \/ toTask' = [toTask EXCEPT ![n] = Append(Tail(@), ConnectionFailure)]
    BY DEF TaskHandler, HandleEligible, HandleNotEligible, HandleNotEligibleAbort, HandleExecuting,
           HandleRefused, HandleTaskResult, HandlePeerConnFailure, IgnorePeerConnFailure
  <2> QED
    BY <1>1, <2>1 DEF Consume
<1>3. /\ \A k \in Node \ {n} : toWorker'[k] = toWorker[k]
      /\ \A T : Carries(toWorker[n], T) => Carries(toWorker'[n], T)
      /\ HandleEligible(n) => Carries(toWorker'[n], {"TASK_EXECUTE"})
  <2>1. CASE HandleEligible(n)
    <3>1. /\ toWorker' = [toWorker EXCEPT ![n] = Append(@, Execute)]
          /\ Execute \in WorkerMessage /\ Execute.type = "TASK_EXECUTE"
      BY <1>1, <2>1, AliveSends, ConstantMessages DEF HandleEligible, Execute
    <3> QED
      BY <1>1, <3>1, AppendCarries
  <2>2. CASE HandleNotEligible(n)
    <3>1. /\ toWorker' = [toWorker EXCEPT ![n] = Append(@, Cancel)]
          /\ Cancel \in WorkerMessage
      BY <1>1, <2>2, AliveSends, ConstantMessages DEF HandleNotEligible
    <3>2. ~HandleEligible(n)
      BY <2>2 DEF HandleNotEligible, HandleEligible
    <3> QED
      BY <1>1, <3>1, <3>2, AppendCarries
  <2>3. CASE ~HandleEligible(n) /\ ~HandleNotEligible(n)
    BY <1>1, <2>3 DEF TaskHandler, HandleExecuting, HandleRefused, HandleTaskResult,
                      IgnorePeerConnFailure, netVars
  <2> QED
    BY <2>1, <2>2, <2>3
<1>4. \A T : Carries(toTask[n], T) /\ Head(toTask[n]).type \notin T => Carries(toTask'[n], T)
  <2>1. \A T : Carries(toTask[n], T) /\ Head(toTask[n]).type \notin T => Carries(Tail(toTask[n]), T)
    BY <1>1, TailCarries
  <2>2. Tail(toTask[n]) \in Seq(TaskMessage) /\ ConnectionFailure \in TaskMessage
    BY <1>1, HeadTailProperties, ConstantMessages
  <2>3. \A T : Carries(Tail(toTask[n]), T) => Carries(Append(Tail(toTask[n]), ConnectionFailure), T)
    BY <2>2, AppendCarries
  <2> QED
    BY <1>2, <2>1, <2>3
<1>5. m # n => Stays(m)
  BY <1>1, <1>2, <1>3 DEF Stays, Awaited, Engaged
<1>6. HandleEligible(n) => Engaged(n)'
  BY <1>3 DEF Engaged
<1>7. ASSUME ~HandleEligible(n), ~HandleNotEligible(n), Awaited(n)
      PROVE  Awaited(n)'
  <2>1. Head(toTask[n]).type # "TASK_REQUEST_RESP"
    BY <1>1, <1>7 DEF TaskHandler, HandleExecuting, HandleRefused, HandleTaskResult,
                      IgnorePeerConnFailure, Receives
  <2> QED
    BY <1>3, <1>4, <1>7, <2>1 DEF Awaited
<1>8. ASSUME ~HandleTaskResult(n), ~HandleRefused(n), Engaged(n)
      PROVE  Engaged(n)'
  <2>1. Head(toTask[n]).type \notin {"REFUSED", "TASK_RESULT"}
    BY <1>1, <1>8 DEF TaskHandler, HandleEligible, HandleNotEligible, HandleExecuting,
                      IgnorePeerConnFailure, Receives
  <2> QED
    BY <1>1, <1>3, <1>4, <1>8, <2>1 DEF Engaged
<1>9. ~Fresh(m)
  <2>1. ask["main"].pc = "done" /\ ask["task"].pc = "get"
    BY HandlerCounts
  <2> QED
    BY <2>1 DEF Fresh, Thread
<1> QED
  BY <1>5, <1>6, <1>7, <1>8, <1>9

\* A worker answers what it reads, and a listed job sends its result.
LEMMA WorkerDelivers ==
    ASSUME RequestInv, NEW n \in Node, WorkerStep(n) \/ JobDone(n),
           n \in jobRunning => Contains(jobList[nodePeer[n]], n), NEW m \in Node
    PROVE  Stays(m)
<1>1. /\ toWorker \in [Node -> Seq(WorkerMessage)] /\ toTask \in [Node -> Seq(TaskMessage)]
      /\ \A k \in Node \ Made : toWorker[k] = <<>> /\ k \notin jobRunning
      /\ numTaskHandled \in [Worker -> Nat] /\ nodePeer \in [Node -> Worker \union {None}]
      /\ \A k \in Made : nodePeer[k] \in Worker
      /\ \A k \in jobRunning : jobParam[k] \in Param
  BY DEF RequestInv, TypeInv, NodeInv, TypeOK, Employed
<1>2. n \in Made
  BY <1>1 DEF WorkerStep, HandleTaskRequest, HandleTaskExecute, HandleTaskCancel, JobDone,
              WorkerReceives
<1>3. ASSUME NEW x \in TaskMessage, toTask' = [toTask EXCEPT ![n] = Append(@, x)]
      PROVE  /\ \A k \in Node \ {n} : toTask'[k] = toTask[k]
             /\ \A T : Carries(toTask'[n], T) <=> Carries(toTask[n], T) \/ x.type \in T
  BY <1>1, <1>3, AppendCarries
<1>4. ASSUME NEW type, WorkerReceives(n, type)
      PROVE  /\ \A k \in Node \ {n} : toWorker'[k] = toWorker[k]
             /\ \A T : Carries(toWorker[n], T) /\ type \notin T => Carries(toWorker'[n], T)
  <2>1. /\ toWorker[n] # <<>> /\ Head(toWorker[n]).type = type
        /\ toWorker' = [toWorker EXCEPT ![n] = Tail(@)]
    BY <1>4 DEF WorkerReceives
  <2> QED
    BY <1>1, <2>1, TailCarries
<1>5. CASE HandleTaskRequest(n)
  <2> DEFINE x == [type |-> "TASK_REQUEST_RESP", arg |-> numTaskHandled[nodePeer[n]]]
  <2>1. x \in TaskMessage /\ x.type = "TASK_REQUEST_RESP"
    BY <1>1, <1>2 DEF TaskMessage
  <2>2. /\ WorkerReceives(n, "TASK_REQUEST") /\ jobRunning' = jobRunning
        /\ toTask' = [toTask EXCEPT ![n] = Append(@, x)]
    BY <1>5 DEF HandleTaskRequest, Reply
  <2> HIDE DEF x
  <2>3. /\ \A k \in Node \ {n} : toTask'[k] = toTask[k]
        /\ \A T : Carries(toTask'[n], T) <=> Carries(toTask[n], T) \/ x.type \in T
    BY <1>3, <2>1, <2>2
  <2>4. CASE m = n
    BY <1>4, <2>1, <2>2, <2>3, <2>4 DEF Stays, Awaited, Engaged
  <2>5. CASE m # n
    BY <1>4, <2>2, <2>3, <2>5 DEF Stays, Awaited, Engaged
  <2> QED
    BY <2>4, <2>5
<1>6. CASE HandleTaskExecute(n)
  <2>1. PICK x \in TaskMessage :
            /\ toTask' = [toTask EXCEPT ![n] = Append(@, x)]
            /\ x.type = "REFUSED" \/ n \in jobRunning'
    <3>1. /\ [type |-> "EXECUTING", arg |-> 0] \in TaskMessage
          /\ [type |-> "REFUSED", arg |-> 0] \in TaskMessage
      BY DEF TaskMessage
    <3> QED
      BY <1>6, <3>1 DEF HandleTaskExecute, Reply
  <2>2. WorkerReceives(n, "TASK_EXECUTE") /\ jobRunning \subseteq jobRunning'
    BY <1>6 DEF HandleTaskExecute
  <2>3. /\ \A k \in Node \ {n} : toTask'[k] = toTask[k]
        /\ \A T : Carries(toTask'[n], T) <=> Carries(toTask[n], T) \/ x.type \in T
    BY <1>3, <2>1
  <2>4. CASE m = n
    BY <1>4, <2>1, <2>2, <2>3, <2>4 DEF Stays, Awaited, Engaged
  <2>5. CASE m # n
    BY <1>4, <2>2, <2>3, <2>5 DEF Stays, Awaited, Engaged
  <2> QED
    BY <2>4, <2>5
<1>7. CASE HandleTaskCancel(n)
  <2>1. WorkerReceives(n, "TASK_CANCEL") /\ UNCHANGED <<toTask, jobRunning>>
    BY <1>7 DEF HandleTaskCancel
  <2>2. /\ Carries(toWorker[m], {"TASK_REQUEST"}) => Carries(toWorker'[m], {"TASK_REQUEST"})
        /\ Carries(toWorker[m], {"TASK_EXECUTE"}) => Carries(toWorker'[m], {"TASK_EXECUTE"})
    BY <1>4, <2>1
  <2> QED
    BY <2>1, <2>2 DEF Stays, Awaited, Engaged
<1>8. CASE JobDone(n)
  <2> DEFINE x == [type |-> "TASK_RESULT", arg |-> jobParam[n]]
  <2>1. /\ n \in jobRunning /\ jobRunning' = jobRunning \ {n} /\ toWorker' = toWorker
        /\ toTask' = [toTask EXCEPT ![n] = Append(@, x)]
    BY <1>8 DEF JobDone, Reply
  <2>2. x \in TaskMessage /\ x.type = "TASK_RESULT"
    BY <1>1, <2>1 DEF TaskMessage
  <2> HIDE DEF x
  <2>3. /\ \A k \in Node \ {n} : toTask'[k] = toTask[k]
        /\ \A T : Carries(toTask'[n], T) <=> Carries(toTask[n], T) \/ x.type \in T
    BY <1>3, <2>1, <2>2
  <2>4. CASE m = n
    BY <2>1, <2>2, <2>3, <2>4 DEF Stays, Awaited, Engaged
  <2>5. CASE m # n
    BY <2>1, <2>3, <2>5 DEF Stays, Awaited, Engaged
  <2> QED
    BY <2>4, <2>5
<1> QED
  BY <1>5, <1>6, <1>7, <1>8 DEF WorkerStep

\* Every parameter in m_tryPeerParamMap is of a peer that is being asked, ...
AskedInv == \A p \in m_tryPeerParamMap :
                \E n \in Node : nodeParam[n] = p /\ (Fresh(n) \/ Awaited(n))

\* ... one in m_peerParamMap, until its result is there, of one that executes, ...
GivenInv == \A p \in m_peerParamMap \ m_paramResultMap : \E n \in Node : nodeParam[n] = p /\ Engaged(n)

\* ... and m_taskNodes, from which nodes are removed by peer, holds no more nodes
\* of a peer than execute there.
ExecutingAt(w) == {n \in Executing : nodePeer[n] = w}
ListedAt(w) == {n \in ToSet(m_taskNodes) : nodePeer[n] = w}
FinalCount == \A w \in Worker : Cardinality(ListedAt(w)) <= Cardinality(ExecutingAt(w))

FlowInv == AskedInv /\ GivenInv /\ FinalCount

\* The nodes of a peer can be counted.
LEMMA AtPeerFinite ==
    ASSUME RequestInv, NEW w
    PROVE  /\ IsFiniteSet(ListedAt(w)) /\ Cardinality(ListedAt(w)) \in Nat
           /\ IsFiniteSet(ExecutingAt(w)) /\ Cardinality(ExecutingAt(w)) \in Nat
           /\ \A S \in SUBSET Node : IsFiniteSet(S) /\ Cardinality(S) \in Nat
           /\ ListedAt(w) \subseteq Made /\ ExecutingAt(w) \subseteq Made
           /\ Made \subseteq Node
<1>1. IsFiniteSet(Node)
  BY TaskConstants, FS_Interval DEF Node
<1>2. \A S \in SUBSET Node : IsFiniteSet(S) /\ Cardinality(S) \in Nat
  BY <1>1, FS_Subset, FS_CardinalityType
<1>3. Made \subseteq Node /\ ListedAt(w) \subseteq Made /\ ExecutingAt(w) \subseteq Made
  BY LiveMade DEF Made, ListedAt, ExecutingAt, Executing, Live
<1>4. ListedAt(w) \in SUBSET Node /\ ExecutingAt(w) \in SUBSET Node
  BY <1>3
<1> QED
  BY <1>2, <1>3, <1>4

\* The peer's counts while nobody there stops executing.
LEMMA CountsStay ==
    ASSUME StartRace = FALSE, downs = 0, downs' = 0, CalmInv, GoneInv, [Next]_vars, NEW w,
           \A m \in Node : Engaged(m) /\ nodePeer[m] = w => Engaged(m)',
           ToSet(m_taskNodes') \subseteq ToSet(m_taskNodes),
           Cardinality(ListedAt(w)) <= Cardinality(ExecutingAt(w))
    PROVE  Cardinality(ListedAt(w)') <= Cardinality(ExecutingAt(w)')
<1>1. \A m \in Made : nodePeer'[m] = nodePeer[m]
  BY NodeSteps DEF Made
<1>2. /\ IsFiniteSet(ListedAt(w)) /\ Cardinality(ListedAt(w)) \in Nat
      /\ Cardinality(ExecutingAt(w)) \in Nat
      /\ \A S \in SUBSET Node : IsFiniteSet(S) /\ Cardinality(S) \in Nat
      /\ ListedAt(w) \subseteq Made /\ ExecutingAt(w) \subseteq Made /\ Made \subseteq Node
      /\ ToSet(m_taskNodes) \subseteq Made
  BY AtPeerFinite, LiveMade DEF CalmInv
<1>3. ListedAt(w)' \in SUBSET ListedAt(w)
  BY <1>1, <1>2 DEF ListedAt
<1>4. ExecutingAt(w) \in SUBSET (ExecutingAt(w)') /\ ExecutingAt(w)' \in SUBSET Node
  BY <1>1, <1>2 DEF ExecutingAt, Executing
<1>5. Cardinality(ListedAt(w)') <= Cardinality(ListedAt(w)) /\ Cardinality(ListedAt(w)') \in Nat
  BY <1>2, <1>3, FS_Subset, FS_CardinalityType
<1>6. Cardinality(ExecutingAt(w)) <= Cardinality(ExecutingAt(w)') /\ Cardinality(ExecutingAt(w)') \in Nat
  BY <1>2, <1>4, FS_Subset
<1> QED
  BY <1>2, <1>5, <1>6

\* Steps that touch neither map nor the nodes told to execute.
LEMMA GivenStays ==
    ASSUME StartRace = FALSE, downs = 0, downs' = 0, CalmInv, GoneInv, [Next]_vars, GivenInv, FinalCount,
           \A m \in Node : Engaged(m) => Engaged(m)',
           UNCHANGED <<m_peerParamMap, m_paramResultMap, m_taskNodes>>
    PROVE  GivenInv' /\ FinalCount'
<1>1. \A m \in Node : Engaged(m) => nodeParam'[m] = nodeParam[m]
  BY NodesStay, LiveMade DEF CalmInv, Live
<1>2. GivenInv'
  BY <1>1 DEF GivenInv
<1>3. FinalCount'
  <2> SUFFICES ASSUME NEW w \in Worker
               PROVE  Cardinality(ListedAt(w)') <= Cardinality(ExecutingAt(w)')
    BY DEF FinalCount
  <2> QED
    BY CountsStay DEF FinalCount
<1> QED
  BY <1>2, <1>3

\* An eligible peer executes: its parameter is given, and it is listed once more.
LEMMA EligibleFlow ==
    ASSUME StartRace = FALSE, downs = 0, downs' = 0, CalmInv, GoneInv, [Next]_vars, GivenInv, FinalCount,
           NEW n \in Node, HandleEligible(n)
    PROVE  GivenInv' /\ FinalCount'
<1>1. /\ RequestInv /\ TaskHandler(n) /\ ~HandleNotEligibleAbort(n) /\ ~HandleTaskResult(n)
      /\ ~HandleRefused(n)
  BY DEF CalmInv, TaskHandler, HandleEligible, HandleNotEligibleAbort, HandleTaskResult,
         HandleRefused, Receives
<1>2. /\ \A m \in Node : Engaged(m) => Engaged(m)'
      /\ Engaged(n)' /\ ~Engaged(n) /\ n \in Made
  <2>1. Engaged(n)' /\ \A m \in Node : Engaged(m) => Engaged(m)'
    BY <1>1, HandlerDelivers DEF Stays
  <2>2. n \in Made
    BY <1>1, HandlerConnects
  <2>3. ~Engaged(n)
    <3>1. toTask[n] # <<>> /\ Head(toTask[n]).type = "TASK_REQUEST_RESP"
      BY DEF HandleEligible, Receives
    <3>2. Carries(toTask[n], {"TASK_REQUEST_RESP"}) /\ Turn(n)
      BY <1>1, <3>1, TailCarries DEF RequestInv, TurnInv, TypeInv, TypeOK
    <3> QED
      BY <3>2 DEF Turn, Engaged, Carries, Once, Answers, Calls
  <2> QED
    BY <2>1, <2>2, <2>3
<1>3. /\ \A m \in Made : nodePeer'[m] = nodePeer[m] /\ nodeParam'[m] = nodeParam[m]
      /\ \A m \in Node : Engaged(m) => m \in Made
  BY <1>1, NodeSteps, NodesStay, LiveMade DEF Made, Live
<1>4. GivenInv'
  <2>1. /\ m_peerParamMap' = m_peerParamMap \union {nodeParam[n]}
        /\ m_paramResultMap' = m_paramResultMap
    BY DEF HandleEligible, resultVars
  <2> QED
    BY <1>2, <1>3, <2>1 DEF GivenInv
<1>5. ASSUME NEW w \in Worker
      PROVE  Cardinality(ListedAt(w)') <= Cardinality(ExecutingAt(w)')
  <2>1. /\ IsFiniteSet(ListedAt(w)) /\ Cardinality(ListedAt(w)) \in Nat
        /\ IsFiniteSet(ExecutingAt(w)) /\ Cardinality(ExecutingAt(w)) \in Nat
        /\ \A S \in SUBSET Node : IsFiniteSet(S) /\ Cardinality(S) \in Nat
        /\ ExecutingAt(w) \subseteq Node /\ ToSet(m_taskNodes) \subseteq Made /\ Made \subseteq Node
        /\ Cardinality(ListedAt(w)) <= Cardinality(ExecutingAt(w))
    BY <1>1, AtPeerFinite, LiveMade DEF FinalCount
  <2>2. ToSet(m_taskNodes') = ToSet(m_taskNodes) \union {n}
    BY <1>1, HandlerLists
  <2>3. CASE nodePeer[n] # w
    <3>1. ListedAt(w)' = ListedAt(w)
      BY <1>2, <1>3, <2>1, <2>2, <2>3 DEF ListedAt
    <3>2. ExecutingAt(w) \in SUBSET (ExecutingAt(w)') /\ ExecutingAt(w)' \in SUBSET Node
      BY <1>2, <1>3 DEF ExecutingAt, Executing
    <3>3. Cardinality(ExecutingAt(w)) <= Cardinality(ExecutingAt(w)') /\ Cardinality(ExecutingAt(w)') \in Nat
      BY <2>1, <3>2, FS_Subset
    <3> QED
      BY <2>1, <3>1, <3>3
  <2>4. CASE nodePeer[n] = w
    <3>1. ListedAt(w)' = ListedAt(w) \cup {n}
      BY <1>2, <1>3, <2>1, <2>2, <2>4 DEF ListedAt
    <3>2. /\ (ExecutingAt(w) \cup {n}) \in SUBSET (ExecutingAt(w)') /\ ExecutingAt(w)' \in SUBSET Node
          /\ n \notin ExecutingAt(w)
      BY <1>2, <1>3, <2>4 DEF ExecutingAt, Executing
    <3>3. Cardinality(ListedAt(w) \cup {n}) \in {Cardinality(ListedAt(w)), Cardinality(ListedAt(w)) + 1}
      BY <2>1, FS_AddElement
    <3>4. Cardinality(ExecutingAt(w) \cup {n}) = Cardinality(ExecutingAt(w)) + 1
      BY <2>1, <3>2, FS_AddElement
    <3>5. /\ Cardinality(ExecutingAt(w) \cup {n}) <= Cardinality(ExecutingAt(w)')
          /\ Cardinality(ExecutingAt(w)') \in Nat
      BY <2>1, <3>2, FS_Subset
    <3> QED
      BY <2>1, <3>1, <3>3, <3>4, <3>5
  <2> QED
    BY <2>3, <2>4
<1> QED
  BY <1>4, <1>5 DEF FinalCount

\* A result ends what its parameter was given for, and unlists a node of the peer.
LEMMA ResultFlow ==
    ASSUME StartRace = FALSE, downs = 0, downs' = 0, CalmInv, ParamInv, GoneInv, [Next]_vars, GivenInv, FinalCount,
           NEW n \in Node, HandleTaskResult(n)
    PROVE  GivenInv' /\ FinalCount'
<1>1. /\ RequestInv /\ TaskHandler(n) /\ ~HandleNotEligibleAbort(n)
      /\ m_taskNodes \in Seq(Node) /\ IsInjective(m_taskNodes)
  BY DEF CalmInv, RequestInv, ListedOnce, TypeInv, TypeOK, TaskHandler, HandleTaskResult,
         HandleNotEligibleAbort, Receives
<1>2. \A m \in Node : Engaged(m) /\ m # n => Engaged(m)'
  BY <1>1, HandlerDelivers DEF Stays
<1>3. /\ \A m \in Made : nodePeer'[m] = nodePeer[m] /\ nodeParam'[m] = nodeParam[m]
      /\ \A m \in Node : Engaged(m) => m \in Made
      /\ n \in Made
  BY <1>1, NodeSteps, NodesStay, LiveMade, HandlerConnects DEF Made, Live
<1>4. GivenInv'
  <2>1. /\ m_peerParamMap' = m_peerParamMap
        /\ m_paramResultMap' = m_paramResultMap \union {Head(toTask[n]).arg}
    BY DEF HandleTaskResult, allotVars
  <2>2. Head(toTask[n]).arg = nodeParam[n]
    <3>1. toTask[n] # <<>> /\ Head(toTask[n]).type = "TASK_RESULT" /\ toTask[n] \in Seq(TaskMessage)
      BY <1>1 DEF HandleTaskResult, Receives, RequestInv, TypeInv, TypeOK
    <3>2. Head(toTask[n]) \in ToSet(toTask[n])
      BY <3>1, HeadTailProperties, LenProperties, EmptySeq DEF ToSet
    <3> QED
      BY <3>1, <3>2 DEF ParamInv
  <2> QED
    BY <1>2, <1>3, <2>1, <2>2 DEF GivenInv
<1>5. m_taskNodes' = RemovePeerFrom(m_taskNodes, n)
  BY DEF HandleTaskResult
<1>6. ToSet(m_taskNodes') \subseteq ToSet(m_taskNodes)
  BY <1>1, <1>5, RemovePeerFacts
<1>7. ASSUME NEW w \in Worker
      PROVE  Cardinality(ListedAt(w)') <= Cardinality(ExecutingAt(w)')
  <2>1. CASE nodePeer[n] # w
    BY <1>2, <1>6, <2>1, CountsStay DEF FinalCount
  <2>2. CASE nodePeer[n] = w
    <3>1. /\ IsFiniteSet(ListedAt(w)) /\ Cardinality(ListedAt(w)) \in Nat
          /\ IsFiniteSet(ExecutingAt(w)) /\ Cardinality(ExecutingAt(w)) \in Nat
          /\ \A S \in SUBSET Node : IsFiniteSet(S) /\ Cardinality(S) \in Nat
          /\ ToSet(m_taskNodes) \subseteq Made /\ Made \subseteq Node
          /\ Cardinality(ListedAt(w)) <= Cardinality(ExecutingAt(w))
      BY <1>1, AtPeerFinite, LiveMade DEF FinalCount
    <3>2. (ExecutingAt(w) \ {n}) \in SUBSET (ExecutingAt(w)') /\ ExecutingAt(w)' \in SUBSET Node
      BY <1>2, <1>3 DEF ExecutingAt, Executing
    <3>3. Cardinality(ExecutingAt(w) \ {n}) \in {Cardinality(ExecutingAt(w)) - 1, Cardinality(ExecutingAt(w))}
      BY <3>1, FS_RemoveElement
    <3>4. /\ Cardinality(ExecutingAt(w) \ {n}) <= Cardinality(ExecutingAt(w)')
          /\ Cardinality(ExecutingAt(w)') \in Nat
      BY <3>1, <3>2, FS_Subset
    <3>5. CASE \A m \in ToSet(m_taskNodes) : nodePeer[m] # nodePeer[n]
      <4>1. ListedAt(w)' = {}
        BY <1>3, <1>6, <2>2, <3>1, <3>5 DEF ListedAt
      <4> QED
        BY <3>4, <4>1, FS_EmptySet
    <3>6. CASE \E x \in ToSet(m_taskNodes) : nodePeer[x] = nodePeer[n]
      <4>1. PICK x \in ToSet(m_taskNodes) : nodePeer[x] = nodePeer[n] /\ x \notin ToSet(m_taskNodes')
        BY <1>1, <1>5, <3>6, RemovePeerOne
      <4>2. ListedAt(w)' \in SUBSET (ListedAt(w) \ {x}) /\ x \in ListedAt(w)
        BY <1>3, <1>6, <2>2, <3>1, <4>1 DEF ListedAt
      <4>3. /\ IsFiniteSet(ListedAt(w) \ {x})
            /\ Cardinality(ListedAt(w) \ {x}) = Cardinality(ListedAt(w)) - 1
        BY <3>1, <4>2, FS_RemoveElement
      <4>4. Cardinality(ListedAt(w)') <= Cardinality(ListedAt(w) \ {x}) /\ Cardinality(ListedAt(w)') \in Nat
        BY <4>2, <4>3, FS_Subset, FS_CardinalityType
      <4> QED
        BY <3>1, <3>3, <3>4, <4>3, <4>4
    <3> QED
      BY <3>5, <3>6
  <2> QED
    BY <2>1, <2>2
<1> QED
  BY <1>4, <1>7 DEF FinalCount

\* What is asked for, while nobody answers a request.
LEMMA AskedStays ==
    ASSUME CalmInv, [Next]_vars, AskedInv, m_tryPeerParamMap' = m_tryPeerParamMap,
           \A m \in Node : (Fresh(m) \/ Awaited(m)) => (Fresh(m) \/ Awaited(m))'
    PROVE  AskedInv'
<1>1. \A m \in Node : Fresh(m) \/ Awaited(m) => m \in Made
  BY LiveMade DEF Fresh, Live, CalmInv, RequestInv, MadeInv
<1>2. \A m \in Made : nodeParam'[m] = nodeParam[m]
  BY NodesStay DEF CalmInv
<1> QED
  BY <1>1, <1>2 DEF AskedInv

\* Every step of a task that goes on keeps all three.
LEMMA StepFlow ==
    ASSUME StartRace = FALSE, downs = 0, downs' = 0, AliveInv, JobsInv, FlowInv, [Next]_vars, On'
    PROVE  FlowInv'
<1>1. /\ CalmInv /\ GoneInv /\ RequestInv /\ ParamInv /\ AskedInv /\ GivenInv /\ FinalCount
      /\ \A t \in Thread : ~AskGiveUp(t) /\ ~AskShort(t) /\ ~AskAbort(t)
      /\ \A n \in Node : ~HandleNotEligibleAbort(n)
      /\ numNodes \in 0 .. MaxNodes
  BY OnSince DEF AliveInv, OnceInv, CalmInv, FlowInv, RequestInv, TypeInv, TypeOK
<1>2. ASSUME NEW t \in Thread, AskPeersStep(t)
      PROVE  FlowInv'
  <2>1. \A m \in Node : /\ Stays(m) /\ (Fresh(m) => Fresh(m)' \/ Awaited(m)')
                        /\ AskConnect(t) /\ m = numNodes + 1 => Fresh(m)'
    BY <1>1, <1>2, AskDelivers
  <2>2. /\ UNCHANGED <<m_peerParamMap, m_paramResultMap, m_taskNodes>>
        /\ AskConnect(t) => m_tryPeerParamMap' = m_tryPeerParamMap \union {Head(m_unAllotParamList)}
        /\ ~AskConnect(t) => m_tryPeerParamMap' = m_tryPeerParamMap
    BY <1>1, <1>2, AskMaps
  <2>3. GivenInv' /\ FinalCount'
    BY <1>1, <2>1, <2>2, GivenStays DEF Stays
  <2>4. CASE ~AskConnect(t)
    <3>1. AskedInv'
      BY <1>1, <2>1, <2>2, <2>4, AskedStays DEF Stays
    <3> QED
      BY <2>3, <3>1 DEF FlowInv
  <2>5. CASE AskConnect(t)
    <3>1. \A m \in Node : Fresh(m) \/ Awaited(m) => m \in Made
      BY <1>1, LiveMade DEF Fresh, Live, RequestInv, MadeInv
    <3>2. /\ \A m \in Made : nodeParam'[m] = nodeParam[m]
          /\ nodeParam'[numNodes + 1] = Head(m_unAllotParamList) /\ numNodes + 1 \in Node
      BY <1>1, <2>5, NodesStay
    <3>3. AskedInv'
      BY <1>1, <2>1, <2>2, <2>5, <3>1, <3>2 DEF AskedInv, Stays
    <3> QED
      BY <2>3, <3>3 DEF FlowInv
  <2> QED
    BY <2>4, <2>5
<1>3. ASSUME NEW n \in Node, TaskHandler(n)
      PROVE  FlowInv'
  <2>1. /\ \A m \in Node : ~Fresh(m)
        /\ \A m \in Node \ {n} : Stays(m)
        /\ ~HandleEligible(n) /\ ~HandleNotEligible(n) => (Awaited(n) => Awaited(n)')
        /\ ~HandleTaskResult(n) /\ ~HandleRefused(n) => (Engaged(n) => Engaged(n)')
        /\ ~HandlePeerConnFailure(n)
    BY <1>1, <1>3, HandlerDelivers, AliveStays
  <2>2. ~HandleRefused(n)
    <3>1. ~Carries(toTask[n], {"REFUSED"}) /\ toTask[n] \in Seq(TaskMessage)
      BY <1>1 DEF JobsInv, ListedInv, RequestInv, TypeInv, TypeOK
    <3> QED
      BY <3>1, TailCarries DEF HandleRefused, Receives
  <2>3. GivenInv' /\ FinalCount'
    <3>1. CASE HandleEligible(n)
      BY <1>1, <3>1, EligibleFlow
    <3>2. CASE HandleTaskResult(n)
      BY <1>1, <3>2, ResultFlow
    <3>3. CASE ~HandleEligible(n) /\ ~HandleTaskResult(n)
      <4>1. UNCHANGED <<m_peerParamMap, m_paramResultMap, m_taskNodes>>
        BY <1>1, <1>3, <2>1, <2>2, <3>3
           DEF TaskHandler, HandleNotEligible, HandleExecuting, IgnorePeerConnFailure, allotVars,
               nodeLists, resultVars
      <4>2. \A m \in Node : Engaged(m) => Engaged(m)'
        BY <2>1, <2>2, <3>3 DEF Stays
      <4> QED
        BY <1>1, <4>1, <4>2, GivenStays
    <3> QED
      BY <3>1, <3>2, <3>3
  <2>4. CASE HandleEligible(n) \/ HandleNotEligible(n)
    <3>1. m_tryPeerParamMap' = m_tryPeerParamMap \ {nodeParam[n]}
      BY <2>4 DEF HandleEligible, HandleNotEligible
    <3>2. /\ \A m \in Node : Awaited(m) => m \in Made
          /\ \A m \in Made : nodeParam'[m] = nodeParam[m]
      BY <1>1, LiveMade, NodesStay DEF Live
    <3>3. AskedInv'
      BY <1>1, <2>1, <3>1, <3>2 DEF AskedInv, Stays
    <3> QED
      BY <2>3, <3>3 DEF FlowInv
  <2>5. CASE ~HandleEligible(n) /\ ~HandleNotEligible(n)
    <3>1. m_tryPeerParamMap' = m_tryPeerParamMap
      BY <1>1, <1>3, <2>1, <2>2, <2>5
         DEF TaskHandler, HandleExecuting, HandleTaskResult, IgnorePeerConnFailure, allotVars
    <3>2. AskedInv'
      BY <1>1, <2>1, <2>5, <3>1, AskedStays DEF Stays
    <3> QED
      BY <2>3, <3>2 DEF FlowInv
  <2> QED
    BY <2>4, <2>5
<1>4. CASE (\A t \in Thread : ~AskPeersStep(t)) /\ \A n \in Node : ~TaskHandler(n)
  <2>1. /\ ask'["main"] = ask["main"]
        /\ ask'["task"] = ask["task"] \/ ask["task"].pc \in {"check", "get"}
        /\ UNCHANGED <<m_tryPeerParamMap, m_peerParamMap, m_paramResultMap, m_taskNodes>>
    BY <1>1, <1>4, OtherCounts DEF allotVars, nodeLists, resultVars
  <2>2. \A m \in Node : Fresh(m) => Fresh(m)'
    BY <2>1 DEF Fresh, Thread
  <2>3. \A m \in Node : Stays(m)
    <3>1. CASE \E n \in Node : WorkerStep(n) \/ JobDone(n)
      <4>1. PICK n \in Node : WorkerStep(n) \/ JobDone(n)
        BY <3>1
      <4>2. n \in jobRunning => Contains(jobList[nodePeer[n]], n)
        <5> HAVE n \in jobRunning
        <5>2. Served(n)
          BY DEF Served
        <5>3. n \in ToSet(JobsOf(n)) /\ JobsOf(n) \in Seq(Node)
          BY <1>1, <5>2, ServedMade DEF JobsInv, ListedInv
        <5> QED
          BY <5>3, LenProperties DEF ToSet, Contains, JobsOf
      <4> QED
        BY <1>1, <4>1, <4>2, WorkerDelivers
    <3>2. CASE \A n \in Node : ~WorkerStep(n) /\ ~JobDone(n)
      <4>1. UNCHANGED <<toWorker, toTask, jobRunning>>
        BY <1>1, <1>4, <3>2, AliveStays DEF Next, Step, HandlePeerList, TaskCheck, TaskWait, netVars,
                    workerVars, jobVars, vars
      <4> QED
        BY <4>1 DEF Stays, Awaited, Engaged
    <3> QED
      BY <3>1, <3>2
  <2>4. AskedInv'
    BY <1>1, <2>1, <2>2, <2>3, AskedStays DEF Stays
  <2> QED
    BY <1>1, <2>1, <2>3, <2>4, GivenStays DEF FlowInv, Stays
<1> QED
  BY <1>2, <1>3, <1>4

\* What holds as long as the task goes on.
OnInv == On => JobsInv /\ FlowInv

\* It holds from the beginning, ...
LEMMA InitOn == Init => OnInv
<1> SUFFICES ASSUME Init PROVE FlowInv
  BY InitJobs DEF OnInv
<1>1. AskedInv /\ GivenInv
  BY DEF Init, AskedInv, GivenInv
<1>2. FinalCount
  <2>1. ToSet(m_taskNodes) = {}
    BY DEF Init, ToSet
  <2>2. \A w \in Worker : ListedAt(w) = {}
    BY <2>1 DEF ListedAt
  <2>3. \A w \in Worker : Cardinality(ExecutingAt(w)) \in Nat
    BY InitRequests, AtPeerFinite
  <2> QED
    BY <2>2, <2>3, FS_EmptySet DEF FinalCount
<1> QED
  BY <1>1, <1>2 DEF FlowInv

\* ... and every step keeps it.
LEMMA StepOn ==
    ASSUME StartRace = FALSE, downs = 0, downs' = 0
    PROVE  AliveInv /\ OnInv /\ [Next]_vars => OnInv'
<1> SUFFICES ASSUME AliveInv, OnInv, [Next]_vars, On'
             PROVE  JobsInv' /\ FlowInv'
  BY DEF OnInv
<1>1. /\ On
      /\ \A t \in Thread : ~AskGiveUp(t) /\ ~AskShort(t) /\ ~AskAbort(t)
      /\ \A n \in Node : ~HandleNotEligibleAbort(n)
  BY OnSince DEF AliveInv, OnceInv
<1>2. JobsInv /\ FlowInv
  BY <1>1 DEF OnInv
<1> QED
  BY <1>1, <1>2, StepJobs, StepFlow

\* It always holds.
LEMMA AlwaysOn ==
    ASSUME StartRace = FALSE, MaxDowns = 0
    PROVE  Spec => [](AliveInv /\ OnInv)
<1>1. AliveInv /\ OnInv /\ [Next]_vars => OnInv'
  BY StepAlive, StepOn
<1> QED
  BY <1>1, InitOn, InitAlive, StepAlive, PTL DEF Spec

\* With no death and usable lists the protocol never comes to rest short of
\* completion: with no message on its way and no job running, every parameter has
\* its result and m_taskNodes, from which nodes are removed by peer, is empty.
THEOREM NeverAtRest ==
    ASSUME StartRace = FALSE, MaxDowns = 0, UsableLists
    PROVE  Spec => []NoStall
<1>1. AliveInv /\ OnInv /\ NothingLeftUnasked => NoStall
  <2> SUFFICES ASSUME AliveInv, OnInv, NothingLeftUnasked, Quiet
               PROVE  IsTaskComplete
    BY DEF NoStall
  <2>1. /\ AskedInv /\ GivenInv /\ FinalCount /\ NoParamLost /\ ResultsOnce /\ RequestInv
        /\ ~m_bStop /\ ~aborted /\ m_taskNodes \in Seq(Node)
        /\ m_paramResultMap \subseteq 1 .. m_numRequiredPeers /\ m_numRequiredPeers \in Nat
    BY TaskConstants
       DEF AliveInv, OnceInv, CalmInv, KeepInv, RequestInv, TypeInv, TypeOK, ParamInv, OnInv, On,
           FlowInv, Quiet, Idle
  <2>2. \A n \in Node : ~Fresh(n) /\ ~Awaited(n) /\ ~Engaged(n)
    <3>1. \A n \in Node : toTask[n] = <<>> /\ toWorker[n] = <<>> /\ n \notin jobRunning
      BY DEF Quiet
    <3>2. \A n \in Node : ~Fresh(n)
      BY DEF Quiet, Idle, Fresh, AskStep
    <3> QED
      BY <3>1, <3>2, EmptyShrinks DEF Awaited, Engaged
  <2>3. m_unAllotParamList = <<>> /\ m_tryPeerParamMap = {} /\ m_peerParamMap \subseteq m_paramResultMap
    BY <2>1, <2>2 DEF NothingLeftUnasked, Quiet, AskedInv, GivenInv
  <2>4. m_paramResultMap = 1 .. m_numRequiredPeers
    <3>1. ToSet(m_unAllotParamList) = {}
      BY <2>3 DEF ToSet
    <3> QED
      BY <2>1, <2>3, <3>1 DEF NoParamLost, Accounted
  <2>5. m_numResultsRecvd = m_numRequiredPeers
    BY <2>1, <2>4, IntervalSize DEF ResultsOnce
  <2>6. m_taskNodes = <<>>
    <3>1. Executing = {}
      BY <2>2 DEF Executing
    <3>2. ASSUME NEW n \in ToSet(m_taskNodes)
          PROVE  FALSE
      <4>1. n \in Made /\ nodePeer[n] \in Worker
        BY <2>1, LiveMade DEF RequestInv, TypeInv, NodeInv
      <4> DEFINE w == nodePeer[n]
      <4>2. IsFiniteSet(ListedAt(w)) /\ Cardinality(ListedAt(w)) \in Nat
        BY <2>1, AtPeerFinite
      <4>3. ExecutingAt(w) = {} /\ n \in ListedAt(w)
        BY <3>1 DEF ExecutingAt, ListedAt
      <4>4. Cardinality(ListedAt(w)) <= Cardinality(ExecutingAt(w))
        BY <2>1, <4>1 DEF FinalCount
      <4> HIDE DEF w
      <4> QED
        BY <4>2, <4>3, <4>4, FS_EmptySet
    <3>3. ToSet(m_taskNodes) = {}
      BY <3>2
    <3>4. Len(m_taskNodes) \in Nat /\ DOMAIN m_taskNodes = 1 .. Len(m_taskNodes)
      BY <2>1, LenProperties
    <3>5. DOMAIN m_taskNodes = {}
      BY <3>3 DEF ToSet
    <3> QED
      BY <2>1, <3>4, <3>5, EmptySeq
  <2> QED
    BY <2>1, <2>5, <2>6 DEF IsTaskComplete
<1> QED
  BY <1>1, AlwaysOn, NothingWaitsUnasked, PTL

-----------------------------------------------------------------------------
\* At most one death

\* A refusal is handled only while the task goes on.
LEMMA RefusedGoesOn ==
    ASSUME StartRace = FALSE, CalmInv, NEW n \in Node, HandleRefused(n)
    PROVE  On /\ n \in Made /\ Carries(toTask[n], {"REFUSED"})
<1>1. TaskHandler(n) /\ ~aborted /\ toTask[n] # <<>> /\ Head(toTask[n]).type = "REFUSED"
  BY DEF TaskHandler, HandleRefused, Receives
<1>2. ~m_bStop
  <2>1. m_bStop => \/ HandleEligible(n) \/ HandleNotEligibleAbort(n)
                   \/ HandleExecuting(n) \/ IgnorePeerConnFailure(n)
    BY <1>1, StoppedHandler
  <2> QED
    BY <1>1, <2>1 DEF HandleEligible, HandleNotEligibleAbort, HandleExecuting,
                      IgnorePeerConnFailure, Receives
<1>3. n \in Made /\ toTask[n] \in Seq(TaskMessage)
  BY <1>1, HandlerConnects DEF CalmInv, RequestInv, TypeInv, TypeOK
<1> QED
  BY <1>1, <1>2, <1>3, TailCarries DEF On

\* Only a worker that read something refuses.
LEMMA WorkersRefuse ==
    ASSUME RequestInv, [Next]_vars, NEW m \in Node, Carries(toTask'[m], {"REFUSED"})
    PROVE  \/ Carries(toTask[m], {"REFUSED"})
           \/ toWorker[m] # <<>> /\ UNCHANGED up
<1>1. toTask \in [Node -> Seq(TaskMessage)]
  BY DEF RequestInv, TypeInv, TypeOK
<1>2. ASSUME ToSet(toTask'[m]) \subseteq ToSet(toTask[m]) \union {ConnectionFailure}
      PROVE  Carries(toTask[m], {"REFUSED"})
  BY <1>2 DEF Carries, ToSet, ConnectionFailure
<1>3. CASE \E n \in Node : WorkerStep(n) \/ JobDone(n)
  <2>1. PICK n \in Node : WorkerStep(n) \/ JobDone(n)
    BY <1>3
  <2>2. m # n => toTask'[m] = toTask[m]
    BY <1>1, <2>1 DEF WorkerStep, HandleTaskRequest, HandleTaskExecute, HandleTaskCancel, JobDone,
                      Reply
  <2>3. WorkerStep(n) => toWorker[n] # <<>> /\ UNCHANGED up
    BY DEF WorkerStep, HandleTaskRequest, HandleTaskExecute, HandleTaskCancel, WorkerReceives
  <2>4. ASSUME JobDone(n), m = n
        PROVE  Carries(toTask[m], {"REFUSED"})
    <3> DEFINE x == [type |-> "TASK_RESULT", arg |-> jobParam[n]]
    <3>1. x \in TaskMessage /\ x.type = "TASK_RESULT"
      BY <2>4 DEF JobDone, TaskMessage, RequestInv, TypeInv, NodeInv, Employed
    <3>2. toTask'[n] = toTask[n] \/ toTask'[n] = Append(toTask[n], x)
      BY <1>1, <2>4 DEF JobDone, Reply
    <3> HIDE DEF x
    <3>3. Carries(Append(toTask[n], x), {"REFUSED"}) => Carries(toTask[n], {"REFUSED"})
      BY <1>1, <3>1, AppendCarries
    <3> QED
      BY <2>4, <3>2, <3>3
  <2> QED
    BY <2>1, <2>2, <2>3, <2>4
<1>4. CASE \/ \E n \in Node : RecvError(n) \/ RecvEof(n)
           \/ \E w \in Worker : WorkerDown(w) \/ WorkerUp(w)
  BY <1>2, <1>4, WorkerSent
<1>5. CASE \/ \E t \in Thread : AskPeersStep(t)
           \/ \E n \in Node : TaskHandler(n)
  <2>1. ToSet(toTask'[m]) \subseteq ToSet(toTask[m]) \union {ConnectionFailure}
    BY <1>5, TaskSent
  <2> QED
    BY <1>2, <2>1
<1>6. CASE \/ TaskCheck \/ TaskWait \/ UNCHANGED vars
           \/ \E list \in PeerLists : HandlePeerList(list)
  BY <1>6 DEF TaskCheck, TaskWait, vars, HandlePeerList, netVars
<1> QED
  BY <1>3, <1>4, <1>5, <1>6 DEF Next, Step

\* With no death nobody refuses a task that goes on.
LEMMA NobodyRefuses ==
    ASSUME StartRace = FALSE, downs = 0, AliveInv, OnInv, NEW n \in Node
    PROVE  ~HandleRefused(n)
BY RefusedGoesOn DEF OnInv, JobsInv, ListedInv, AliveInv, OnceInv

\* A worker that died has refused nothing: until it died nobody had.
DeadSilent == On =>
    \A n \in Made : nodePeer[n] \notin up => ~Carries(toTask[n], {"REFUSED"})

\* Before the death all is as among the living.
OneDeathInv == OnceInv /\ FinalInv /\ DeadSilent /\ (downs = 0 => AliveInv /\ OnInv)

\* At first everybody lives.
LEMMA InitOneDeath == Init => OneDeathInv
<1>1. Init => DeadSilent
  BY DEF Init, DeadSilent, Carries, Made
<1> QED
  BY <1>1, InitOnce, InitAlive, InitOn DEF OneDeathInv

\* A node whose refusal is handled is none that may still fail: refusals come
\* after the death, from workers that live.
LEMMA RefusedLives ==
    ASSUME StartRace = FALSE, MaxDowns <= 1, OneDeathInv, NEW n \in Node, HandleRefused(n)
    PROVE  n \notin Failing'
<1>1. OnceInv /\ CalmInv /\ DeadSilent /\ downs \in Nat /\ downs <= MaxDowns /\ MaxDowns \in Nat
  BY TaskConstants DEF OneDeathInv, OnceInv, CalmInv, RequestInv, TypeInv, TypeOK, GoneInv
<1>2. On /\ n \in Made /\ Carries(toTask[n], {"REFUSED"})
  BY <1>1, RefusedGoesOn
<1>3. downs # 0
  BY NobodyRefuses DEF OneDeathInv
<1>4. downs = MaxDowns /\ nodePeer[n] \in up
  BY <1>1, <1>2, <1>3 DEF DeadSilent
<1>5. UNCHANGED <<downs, up, nodePeer>>
  BY DEF HandleRefused, nodeVars, workerVars
<1> QED
  BY <1>1, <1>4, <1>5 DEF Failing, Mortal

\* Every step keeps it.
LEMMA StepOneDeath ==
    ASSUME StartRace = FALSE, NoComeback, MaxDowns <= 1
    PROVE  OneDeathInv /\ [Next]_vars => OneDeathInv'
<1> SUFFICES ASSUME OneDeathInv, [Next]_vars
             PROVE  OneDeathInv'
  OBVIOUS
<1>1. /\ OnceInv /\ FinalInv /\ CalmInv /\ ParamInv /\ GoneInv /\ OwnInv /\ RequestInv /\ DeadSilent
      /\ downs \in Nat /\ downs <= MaxDowns /\ MaxDowns \in Nat
  BY TaskConstants DEF OneDeathInv, OnceInv, CalmInv, RequestInv, TypeInv, TypeOK, GoneInv
<1>2. OnceInv' /\ FinalInv'
  BY <1>1, StepOnce, StepOwns, RefusedLives
<1>3. \/ downs' = downs /\ (up' = up \/ downs' = 0)
      \/ downs = 0 /\ downs' # 0 /\ \E w \in Worker : WorkerDown(w)
  <2>1. CASE \E w \in Worker : WorkerDown(w)
    <3>1. downs < MaxDowns /\ downs' = downs + 1
      BY <2>1 DEF WorkerDown
    <3>2. downs = 0 /\ downs' # 0
      BY <1>1, <3>1
    <3> QED
      BY <2>1, <3>2
  <2>2. CASE \E w \in Worker : WorkerUp(w)
    BY <1>1, <2>2 DEF WorkerUp, NoComeback
  <2>3. CASE \E t \in Thread : AskPeersStep(t)
    BY <2>3 DEF AskPeersStep, AskLower, AskGiveUp, AskSkip, AskUnreachable, AskConnect,
                AskRequest, AskErase, AskAbort, AskShort, AskEnough, workerVars
  <2>4. CASE \E n \in Node : TaskHandler(n)
    BY <2>4 DEF TaskHandler, HandleEligible, HandleNotEligible, HandleNotEligibleAbort,
                HandleExecuting, HandleRefused, HandleTaskResult, HandlePeerConnFailure,
                IgnorePeerConnFailure, workerVars
  <2>5. CASE \/ UNCHANGED vars \/ (\E list \in PeerLists : HandlePeerList(list))
             \/ TaskCheck \/ TaskWait
             \/ \E n \in Node : WorkerStep(n) \/ JobDone(n) \/ RecvError(n) \/ RecvEof(n)
    BY <2>5 DEF vars, HandlePeerList, TaskCheck, TaskWait, WorkerStep, HandleTaskRequest,
                HandleTaskExecute, HandleTaskCancel, JobDone, RecvError, RecvEof, workerVars
  <2> QED
    BY <2>1, <2>2, <2>3, <2>4, <2>5 DEF Next, Step
<1>4. downs' = 0 => AliveInv' /\ OnInv'
  <2> HAVE downs' = 0
  <2>1. downs = 0 /\ AliveInv /\ OnInv
    BY <1>3 DEF OneDeathInv
  <2>2. QuotaInv /\ ScanInv
    BY <2>1 DEF AliveInv
  <2> QED
    BY <1>1, <1>2, <2>1, <2>2, StepQuota, StepScan, StepOn DEF AliveInv
<1>5. DeadSilent'
  <2> SUFFICES ASSUME On', NEW n \in Made', nodePeer'[n] \notin up',
                      Carries(toTask'[n], {"REFUSED"})
               PROVE  FALSE
    BY DEF DeadSilent
  <2>1. On /\ n \in Node
    BY <1>1, OnSince DEF Made
  <2>2. CASE downs' = 0
    BY <1>2, <2>2
       DEF OnceInv, CalmInv, RequestInv, TypeInv, NodeInv, GoneInv
  <2>3. CASE downs = 0 /\ \E w \in Worker : WorkerDown(w)
    <3>1. toTask' = toTask
      BY <2>3 DEF WorkerDown
    <3> QED
      BY <2>1, <2>3, <3>1 DEF OneDeathInv, OnInv, JobsInv, ListedInv
  <2>4. CASE up' = up
    <3>1. Carries(toTask[n], {"REFUSED"}) \/ toWorker[n] # <<>>
      BY <1>1, <2>1, WorkersRefuse
    <3>2. n \in Made
      BY <1>1, <2>1, <3>1 DEF RequestInv, TypeInv, NodeInv, Carries
    <3>3. nodePeer[n] \notin up
      BY <1>1, <2>4, <3>2, FailingSince
    <3>4. toWorker[n] = <<>> /\ ~Carries(toTask[n], {"REFUSED"})
      BY <1>1, <2>1, <3>2, <3>3 DEF RequestInv, UpInv, DeadSilent
    <3> QED
      BY <3>1, <3>4
  <2> QED
    BY <1>3, <2>2, <2>3, <2>4
<1> QED
  BY <1>2, <1>4, <1>5 DEF OneDeathInv

\* With at most one death, and no life after it: no parameter is given out while
\* a peer has it or when its result is there, so no two peers run it and none
\* still does.  (The moves of Unallot and AskPeers, against refusals, failures
\* and removals that go by the peer.)
THEOREM ParameterRunsOnce ==
    ASSUME StartRace = FALSE, NoComeback, MaxDowns <= 1
    PROVE  Spec => []ParamRunsOnce
<1>1. OneDeathInv => ParamRunsOnce
  BY RunsOnce DEF OneDeathInv
<1> QED
  BY <1>1, InitOneDeath, StepOneDeath, PTL DEF Spec

\* ... every result counted is of another parameter, ...
THEOREM ResultsCountOnce ==
    ASSUME StartRace = FALSE, NoComeback, MaxDowns <= 1
    PROVE  Spec => []ResultsOnce
<1>1. OneDeathInv => ResultsOnce
  BY DEF OneDeathInv, OnceInv
<1> QED
  BY <1>1, InitOneDeath, StepOneDeath, PTL DEF Spec

\* ... so IsTaskComplete, which goes by the count and by m_taskNodes, is true only
\* when every parameter has its result, ...
THEOREM CompleteMeansAllResults ==
    ASSUME StartRace = FALSE, NoComeback, MaxDowns <= 1
    PROVE  Spec => []CompletionSound
<1>1. OneDeathInv => CompletionSound
  BY CompleteHasAll DEF OneDeathInv
<1> QED
  BY <1>1, InitOneDeath, StepOneDeath, PTL DEF Spec

\* ... and Task implements the abstract task: a parameter is given to one peer at
\* a time, a death takes back only what has no result, a result is counted once,
\* and a task that was given up does one thing more at most.
THEOREM TaskImplementsAbstract ==
    ASSUME StartRace = FALSE, NoComeback, MaxDowns <= 1
    PROVE  Spec => ImplementsTask
<1>1. Abstract!Next \/ UNCHANGED abstractVars <=> [Abstract!Next]_abstractVars
  OBVIOUS
<1>2. OneDeathInv /\ [Next]_vars => Abstract!Next \/ UNCHANGED abstractVars
  BY StepImplements DEF OneDeathInv
<1>3. Spec => Abstract!Init /\ [][Abstract!Next]_abstractVars
  BY <1>1, <1>2, InitImplements, InitOneDeath, StepOneDeath, PTL DEF Spec
<1> QED
  BY <1>3 DEF ImplementsTask, Abstract!Spec, abstractVars
=============================================================================
