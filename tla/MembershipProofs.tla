-------------------------- MODULE MembershipProofs --------------------------
(***************************************************************************)
(* Theorems about Membership, for any peers, coordinators, clocks and      *)
(* bounds.                                                                 *)
(*                                                                         *)
(* StageInv follows a peer's online request from the coordinator's queue   *)
(* to the answer: whoever is past the queue has its row, and has nothing   *)
(* left in that queue that could remove it.  ListInv is about every list   *)
(* there is, and AcquaintInv about two of them, those of peers that were   *)
(* answered or are about to be.                                            *)
(***************************************************************************)
EXTENDS Membership, DataLemmas

-----------------------------------------------------------------------------
\* The invariant

Queue(c, p) == toCoord[c][p]

\* The coordinator has handled the request of p's present life and will answer;
\* its answers on their way; p was answered by it.
BeingAnswered(p, c) == handling[c] # None /\ handling[c].peer = p /\ On(p, handling[c].life)
Answers(p, c) == {m \in toPeer[p] : m.type = "GET_ONLINE_RESP" /\ m.from = c}
WasAnswered(p, c) == status[p] = "on" /\ answered[p] /\ home[p] = c

Known(p, c) == BeingAnswered(p, c) \/ Answers(p, c) # {} \/ WasAnswered(p, c)

\* A request of p's present life waits in the queue.
Asked(p, c) == \E i \in DOMAIN Queue(c, p) : On(p, Queue(c, p)[i].life)

QueueInv == \A p \in Peer, c \in Coordinator : \A i \in DOMAIN Queue(c, p) :
    /\ Queue(c, p)[i].life <= starts[p]
    /\ On(p, Queue(c, p)[i].life) => /\ home[p] = c
                                     /\ i = Len(Queue(c, p))
                                     /\ Queue(c, p)[i].type = "GET_ONLINE"

StageInv ==
    /\ \A p \in Peer, c \in Coordinator : Known(p, c) =>
           home[p] = c /\ Queue(c, p) = <<>> /\ p \in Users[c]
    /\ \A c \in Coordinator : handling[c] # None =>
           handling[c].peer \in Users[c] /\ handling[c].life <= starts[handling[c].peer]
    /\ \A p \in Peer : answered[p] => home[p] \in Coordinator
    /\ \A p \in Peer : status[p] # "on" =>
           ~answered[p] /\ list[p] = NoList /\ link[p] = "none" /\ toPeer[p] = {}

\* Every list a peer takes over has that peer.
KnowInv == \A p \in Peer :
    /\ answered[p] => p \in list[p].peers
    /\ \A m \in toPeer[p] : m.type # "TASK_REQUEST" => p \in m.list.peers

\* The lists there are.
Lists == {list[p] : p \in Peer} \union UNION {{m.list : m \in toPeer[p]} : p \in Peer}

\* Until the clock wraps, times are in order, and a list that is later than a
\* row has the row's peer.
ListInv == now < TickMod =>
    /\ \A c \in Coordinator : /\ timestamp[c] <= now
                              /\ \A p \in Users[c] : since[c][p] <= timestamp[c]
    /\ \A l \in Lists : /\ l.ts <= now /\ l.ts <= MaxSigned
                        /\ l.origin \in Coordinator =>
                               \A p \in Users[l.origin] : since[l.origin][p] < l.ts => p \in l.peers

\* The lists p has, or is about to get, from being online with c.
Views(p, c) == {m.list : m \in Answers(p, c)}
                   \union {l \in {list[p]} : WasAnswered(p, c)}

\* A list has q, if it is c's, and so does every later list of c's.
Sees(l, q, c) == /\ since[c][q] <= l.ts \/ l.ts >= MaxSigned
                 /\ l.origin = c => q \in l.peers

AcquaintInv == now < TickMod =>
    \A c \in Coordinator : \A p \in Peer : \A q \in Peer \ {p} :
        \A l \in Views(p, c), k \in Views(q, c) : Sees(l, q, c) \/ Sees(k, p, c)

\* While no coordinator dies, whoever found one is on the way to be answered.
AnswerInv == deaths = 0 => \A p \in Peer : home[p] # None =>
    /\ home[p] \in running
    /\ status[p] = "on" => /\ answered[p] \/ (link[p] = "up" /\ (Asked(p, home[p]) \/ Known(p, home[p])))
                           /\ link[p] \in {"up", "closed"}

\* ... and of a peer that quit, the last word is still to come or was heard.
QuitInv == deaths = 0 => \A p \in Peer, c \in Coordinator :
    status[p] = "quit" /\ home[p] = c =>
        IF Queue(c, p) = <<>> THEN p \notin Users[c]
        ELSE Queue(c, p)[Len(Queue(c, p))].type = "GET_OFFLINE"

MemberInv == TypeOK /\ QueueInv /\ StageInv /\ KnowInv /\ ListInv /\ AcquaintInv /\ AnswerInv /\ QuitInv

-----------------------------------------------------------------------------
\* Types

\* A wrapped tick is a timestamp, and is the tick until the clock wraps.
LEMMA TickType ==
    ASSUME TypeOK
    PROVE  GetTickCount \in 0 .. TickMod - 1 /\ (now < TickMod => GetTickCount = now)
<1>1. now \in Nat /\ TickMod \in Nat /\ TickMod > 0 BY MembershipConstants DEF TypeOK
<1>2. now % TickMod \in 0 .. TickMod - 1 BY <1>1
<1>3. now < TickMod => now % TickMod = now BY <1>1
<1>4. QED BY <1>2, <1>3 DEF GetTickCount

\* What atoi reads is at most what was written, and at most MaxSigned.
LEMMA ReceivedFacts ==
    ASSUME NEW ts \in 0 .. TickMod - 1
    PROVE  /\ Received(ts) \in Nat /\ Received(ts) <= ts /\ Received(ts) <= MaxSigned
           /\ Received(ts) = ts \/ Received(ts) = MaxSigned
BY MembershipConstants DEF Received

\* The coordinators that answer are running ones.
LEMMA ReachableRuns == Reachable \subseteq running
BY DEF Reachable

\* None is nobody, and NoList is a list of nobody's.
LEMMA NoneFacts ==
    /\ None \notin Peer /\ None \notin Coordinator
    /\ NoList \in PeerList /\ NoList.origin = None /\ NoList.ts = 0 /\ NoList.peers = {}
BY NoneAssumption DEF NoList, PeerList

\* Initially the variables have their types.
LEMMA TypeInit == Init => TypeOK
<1> SUFFICES ASSUME Init PROVE TypeOK OBVIOUS
<1>1. 1 \in 0 .. TickMod - 1 /\ 0 \in 0 .. TickMod - 1 BY MembershipConstants
<1>2. <<>> \in Seq(Request) OBVIOUS
<1>3. QED BY <1>1, <1>2, NoneFacts DEF Init, TypeOK, Link

\* A message that is appended keeps a coordinator's queue one of requests.
LEMMA AppendRequest ==
    ASSUME NEW s \in Seq(Request), NEW type \in {"GET_ONLINE", "GET_OFFLINE"}, NEW life \in Nat
    PROVE  /\ Append(s, [type |-> type, life |-> life]) \in Seq(Request)
           /\ Len(Append(s, [type |-> type, life |-> life])) = Len(s) + 1
           /\ \A i \in 1 .. Len(s) : Append(s, [type |-> type, life |-> life])[i] = s[i]
           /\ Append(s, [type |-> type, life |-> life])[Len(s) + 1] = [type |-> type, life |-> life]
<1>1. [type |-> type, life |-> life] \in Request BY DEF Request
<1>2. QED BY <1>1

\* The steps of the coordinators keep the types.
LEMMA TypeCoordinator ==
    ASSUME TypeOK, NEW c \in Coordinator, CoordinatorStep(c)
    PROVE  TypeOK'
<1>1. GetTickCount \in 0 .. TickMod - 1 BY TickType
<1>2. 0 \in 0 .. TickMod - 1 BY MembershipConstants
<1>3. CASE RespondOnline(c)
  <2> DEFINE p == handling[c].peer
             m == [type |-> "GET_ONLINE_RESP", from |-> c, life |-> handling[c].life,
                   list |-> [peers |-> Users[c], ts |-> Received(timestamp[c]), origin |-> c]]
  <2>1. handling[c] \in [peer : Peer, life : Nat] BY <1>3 DEF RespondOnline, TypeOK
  <2>2. Received(timestamp[c]) \in Nat BY ReceivedFacts DEF TypeOK
  <2>3. m \in PeerMessage BY <2>1, <2>2 DEF PeerMessage, PeerList, TypeOK
  <2>4. toPeer' = [toPeer EXCEPT ![p] = @ \union {m}] \/ toPeer' = toPeer
    BY <1>3 DEF RespondOnline
  <2>5. toPeer' \in [Peer -> SUBSET PeerMessage]
    <3>1. toPeer \in [Peer -> SUBSET PeerMessage] BY DEF TypeOK
    <3>2. p \in Peer BY <2>1
    <3> HIDE DEF m, p
    <3>3. QED BY <3>1, <3>2, <2>3, <2>4
  <2>6. handling' \in [Coordinator -> [peer : Peer, life : Nat] \union {None}]
    BY <1>3 DEF RespondOnline, TypeOK
  <2>7. QED BY <1>3, <2>5, <2>6 DEF RespondOnline, TypeOK, peerVars
<1>4. CASE CoordinatorStarts(c)
  <2>1. timestamp' \in [Coordinator -> 0 .. TickMod - 1]
    BY <1>4, <1>1 DEF CoordinatorStarts, TypeOK
  <2>2. QED BY <1>4, <2>1 DEF CoordinatorStarts, TypeOK, peerVars
<1>5. CASE CoordinatorDies(c)
  <2>1. link' \in [Peer -> Link] /\ toPeer' \in [Peer -> SUBSET PeerMessage]
    BY <1>5 DEF CoordinatorDies, TypeOK, Link
  <2>2. toCoord' \in [Coordinator -> [Peer -> Seq(Request)]]
    <3>1. [p \in Peer |-> <<>>] \in [Peer -> Seq(Request)] OBVIOUS
    <3>2. QED BY <1>5, <3>1 DEF CoordinatorDies, TypeOK
  <2>3. QED BY <1>5, <2>1, <2>2 DEF CoordinatorDies, TypeOK
<1>6. ASSUME NEW p \in Peer, HandlePeerOnline(c, p) PROVE TypeOK'
  <2>1. toCoord[c][p] \in Seq(Request) /\ toCoord[c][p] # <<>> BY <1>6 DEF HandlePeerOnline, TypeOK
  <2>2. Tail(toCoord[c][p]) \in Seq(Request) /\ Head(toCoord[c][p]) \in Request BY <2>1
  <2>3. toCoord' \in [Coordinator -> [Peer -> Seq(Request)]] BY <1>6, <2>2 DEF HandlePeerOnline, TypeOK
  <2>4. [peer |-> p, life |-> Head(toCoord[c][p]).life] \in [peer : Peer, life : Nat]
    BY <2>2 DEF Request
  <2>5. handling' \in [Coordinator -> [peer : Peer, life : Nat] \union {None}]
    BY <1>6, <2>4 DEF HandlePeerOnline, TypeOK
  <2>6. /\ Users' \in [Coordinator -> SUBSET Peer]
        /\ timestamp' \in [Coordinator -> 0 .. TickMod - 1]
        /\ since' \in [Coordinator -> [Peer -> 0 .. TickMod - 1]]
    BY <1>6, <1>1 DEF HandlePeerOnline, AddPeer, TypeOK
  <2>7. QED BY <1>6, <2>3, <2>5, <2>6 DEF HandlePeerOnline, TypeOK, peerVars
<1>7. ASSUME NEW p \in Peer, HandlePeerOffline(c, p) PROVE TypeOK'
  <2>1. toCoord[c][p] \in Seq(Request) /\ toCoord[c][p] # <<>> BY <1>7 DEF HandlePeerOffline, TypeOK
  <2>2. Tail(toCoord[c][p]) \in Seq(Request) BY <2>1
  <2>3. toCoord' \in [Coordinator -> [Peer -> Seq(Request)]] BY <1>7, <2>2 DEF HandlePeerOffline, TypeOK
  <2>4. /\ Users' \in [Coordinator -> SUBSET Peer]
        /\ timestamp' \in [Coordinator -> 0 .. TickMod - 1]
        /\ since' \in [Coordinator -> [Peer -> 0 .. TickMod - 1]]
    BY <1>7, <1>1, <1>2 DEF HandlePeerOffline, TypeOK
  <2>5. QED BY <1>7, <2>3, <2>4 DEF HandlePeerOffline, TypeOK, peerVars
<1>8. QED BY <1>3, <1>4, <1>5, <1>6, <1>7 DEF CoordinatorStep

\* The steps of the peers keep the types.
LEMMA TypePeer ==
    ASSUME TypeOK, NEW p \in Peer, PeerStep(p)
    PROVE  TypeOK'
<1>1. CASE Start(p)
  <2>1. starts' \in [Peer -> Nat] /\ starts'[p] \in Nat
    <3>1. starts' = [starts EXCEPT ![p] = @ + 1] BY <1>1 DEF Start
    <3>2. QED BY <3>1 DEF TypeOK
  <2>2. status' \in [Peer -> {"on", "off", "quit"}]
    <3>1. status' = [status EXCEPT ![p] = "on"] BY <1>1 DEF Start
    <3>2. QED BY <3>1 DEF TypeOK
  <2>3. /\ home' \in [Peer -> Coordinator \union {None}] /\ link' \in [Peer -> Link]
        /\ toCoord' \in [Coordinator -> [Peer -> Seq(Request)]]
    <3>1. CASE Reachable = {} /\ home' = [home EXCEPT ![p] = None] /\ UNCHANGED <<link, toCoord>>
      BY <3>1 DEF TypeOK
    <3>2. ASSUME NEW c \in Reachable,
                 home' = [home EXCEPT ![p] = c], link' = [link EXCEPT ![p] = "up"],
                 toCoord' = [toCoord EXCEPT ![c][p] =
                     Append(@, [type |-> "GET_ONLINE", life |-> starts'[p]])]
          PROVE  /\ home' \in [Peer -> Coordinator \union {None}] /\ link' \in [Peer -> Link]
                 /\ toCoord' \in [Coordinator -> [Peer -> Seq(Request)]]
      <4>1. c \in Coordinator BY ReachableRuns DEF TypeOK
      <4>2. toCoord[c][p] \in Seq(Request) BY <4>1 DEF TypeOK
      <4>3. Append(toCoord[c][p], [type |-> "GET_ONLINE", life |-> starts'[p]]) \in Seq(Request)
        BY <4>2, <2>1, AppendRequest
      <4>4. toCoord' \in [Coordinator -> [Peer -> Seq(Request)]] BY <3>2, <4>3 DEF TypeOK
      <4>5. QED BY <3>2, <4>1, <4>4 DEF TypeOK, Link
    <3>3. QED BY <1>1, <3>1, <3>2 DEF Start
  <2>4. UNCHANGED <<now, coordVars, list, answered, toPeer>> BY <1>1 DEF Start
  <2>5. QED BY <2>1, <2>2, <2>3, <2>4 DEF TypeOK, coordVars
<1>2. ASSUME Ends(p, "quit") \/ Ends(p, "off")
      PROVE  /\ status' \in [Peer -> {"on", "off", "quit"}] /\ list' \in [Peer -> PeerList]
             /\ link' \in [Peer -> Link] /\ answered' \in [Peer -> BOOLEAN]
             /\ toPeer' \in [Peer -> SUBSET PeerMessage]
  <2>1. status' \in [Peer -> {"on", "off", "quit"}] BY <1>2 DEF Ends, TypeOK
  <2>2. list' \in [Peer -> PeerList]
    <3>1. list' = [list EXCEPT ![p] = NoList] BY <1>2 DEF Ends
    <3>2. NoList \in PeerList BY NoneFacts
    <3>3. QED BY <3>1, <3>2 DEF TypeOK
  <2>3. link' \in [Peer -> Link] BY <1>2 DEF Ends, TypeOK, Link
  <2>4. answered' \in [Peer -> BOOLEAN] BY <1>2 DEF Ends, TypeOK
  <2>5. toPeer' \in [Peer -> SUBSET PeerMessage] BY <1>2 DEF Ends, TypeOK
  <2>6. QED BY <2>1, <2>2, <2>3, <2>4, <2>5
<1>3. CASE Kill(p)
  <2> DEFINE m == [type |-> "GET_OFFLINE", life |-> starts[p]]
  <2>1. ASSUME NEW c \in Coordinator PROVE [toCoord[c] EXCEPT ![p] = Append(@, m)] \in [Peer -> Seq(Request)]
    <3>1. toCoord[c][p] \in Seq(Request) /\ starts[p] \in Nat BY DEF TypeOK
    <3>2. Append(toCoord[c][p], m) \in Seq(Request) BY <3>1, AppendRequest
    <3> HIDE DEF m
    <3>3. QED BY <3>2 DEF TypeOK
  <2>2. toCoord' = [c \in Coordinator |-> IF c \in OfflineTo(p)
                                          THEN [toCoord[c] EXCEPT ![p] = Append(@, m)] ELSE toCoord[c]]
    BY <1>3 DEF Kill
  <2> HIDE DEF m
  <2>3. toCoord' \in [Coordinator -> [Peer -> Seq(Request)]] BY <2>1, <2>2 DEF TypeOK
  <2>4. Ends(p, "quit") /\ UNCHANGED <<now, coordVars, starts, home>> BY <1>3 DEF Kill
  <2>5. QED BY <1>2, <2>3, <2>4 DEF TypeOK, coordVars
<1>4. CASE Crash(p)
  BY <1>2, <1>4, NoneFacts DEF Crash, TypeOK, coordVars
<1>5. CASE HandleOnlineResp(p)
  BY <1>5 DEF HandleOnlineResp, TypeOK, PeerMessage, Link, coordVars
<1>6. CASE HandleTaskRequest(p)
  <2>1. PICK m \in toPeer[p] : /\ m.type = "TASK_REQUEST"
                               /\ list' = [list EXCEPT ![p] = WithPeer(@, m.from)]
                               /\ toPeer' = [toPeer EXCEPT ![p] = @ \ {m},
                                      ![m.from] = IF On(m.from, m.life)
                                                  THEN @ \union {[type |-> "TASK_REQUEST_RESP", from |-> p,
                                                                  life |-> m.life, list |-> list'[p]]}
                                                  ELSE @]
    BY <1>6 DEF HandleTaskRequest
  <2>2. m \in PeerMessage /\ m.from \in Peer /\ m.life \in Nat BY <2>1 DEF TypeOK, PeerMessage
  <2>3. WithPeer(list[p], m.from) \in PeerList
    <3>1. list[p] \in PeerList BY DEF TypeOK
    <3>2. QED BY <2>2, <3>1 DEF WithPeer, PeerList
  <2>4. list' \in [Peer -> PeerList] BY <2>1, <2>3 DEF TypeOK
  <2>5. [type |-> "TASK_REQUEST_RESP", from |-> p, life |-> m.life, list |-> list'[p]] \in PeerMessage
    BY <2>2, <2>4 DEF PeerMessage
  <2>6. toPeer' \in [Peer -> SUBSET PeerMessage] BY <2>1, <2>2, <2>5 DEF TypeOK
  <2>7. UNCHANGED <<now, coordVars, toCoord, status, starts, home, link, answered>>
    BY <1>6 DEF HandleTaskRequest
  <2>8. QED BY <2>4, <2>6, <2>7 DEF TypeOK, coordVars
<1>7. CASE HandleTaskResponse(p)
  <2>1. PICK m \in toPeer[p] : /\ m.type = "TASK_REQUEST_RESP"
                               /\ list' = [list EXCEPT ![p] = Newer(@, m.list)]
                               /\ toPeer' = [toPeer EXCEPT ![p] = @ \ {m}]
    BY <1>7 DEF HandleTaskResponse
  <2>2. m.list \in PeerList BY <2>1 DEF TypeOK, PeerMessage
  <2>3. Newer(list[p], m.list) \in PeerList BY <2>2 DEF Newer, TypeOK
  <2>4. QED BY <1>7, <2>1, <2>3 DEF HandleTaskResponse, TypeOK, coordVars
<1>8. ASSUME NEW q \in Peer, TaskRequest(p, q) PROVE TypeOK'
  <2>1. [type |-> "TASK_REQUEST", from |-> p, life |-> starts[p], list |-> NoList] \in PeerMessage
    BY NoneFacts DEF TypeOK, PeerMessage
  <2>2. toPeer' = [toPeer EXCEPT ![q] =
            @ \union {[type |-> "TASK_REQUEST", from |-> p, life |-> starts[p], list |-> NoList]}]
    BY <1>8 DEF TaskRequest
  <2>3. toPeer' \in [Peer -> SUBSET PeerMessage] BY <2>1, <2>2 DEF TypeOK
  <2>4. QED BY <1>8, <2>3 DEF TaskRequest, TypeOK, coordVars, peerVars
<1>9. QED BY <1>1, <1>3, <1>4, <1>5, <1>6, <1>7, <1>8 DEF PeerStep

\* Every step keeps the types.
LEMMA TypeStep == TypeOK /\ [Next]_vars => TypeOK'
<1> SUFFICES ASSUME TypeOK, [Next]_vars PROVE TypeOK' OBVIOUS
<1>1. CASE Tick BY <1>1 DEF Tick, TypeOK, coordVars, peerVars
<1>2. CASE UNCHANGED vars BY <1>2 DEF vars, TypeOK, coordVars, peerVars
<1>3. QED BY <1>1, <1>2, TypeCoordinator, TypePeer DEF Next

\* The variables keep their types.
THEOREM MembershipTypeCorrect == Spec => []TypeOK
BY TypeInit, TypeStep, PTL DEF Spec

-----------------------------------------------------------------------------
\* The queues

\* A step of a kind that touches no queue, no start and no status.
QueuesAlone == UNCHANGED <<toCoord, status, starts, home>>

\* The queue of p at c loses its head.
TakesHead(c, p) ==
    /\ Queue(c, p) # <<>>
    /\ toCoord' = [toCoord EXCEPT ![c][p] = Tail(@)]
    /\ UNCHANGED <<status, starts, home>>

\* Whichever queue the head is taken from, the requests that stay move up.
LEMMA TakenHead ==
    ASSUME TypeOK, NEW c \in Coordinator, NEW p \in Peer, TakesHead(c, p)
    PROVE  /\ Len(Queue(c, p)') = Len(Queue(c, p)) - 1
           /\ Len(Queue(c, p)) \in Nat \ {0}
           /\ \A i \in DOMAIN Queue(c, p)' : /\ i \in Nat /\ i + 1 \in DOMAIN Queue(c, p)
                                             /\ Queue(c, p)'[i] = Queue(c, p)[i + 1]
           /\ \A d \in Coordinator, q \in Peer : d # c \/ q # p => Queue(d, q)' = Queue(d, q)
<1>1. Queue(c, p) \in Seq(Request) /\ Queue(c, p) # <<>> BY DEF TypeOK, Queue, TakesHead
<1>2. Queue(c, p)' = Tail(Queue(c, p)) BY DEF TypeOK, Queue, TakesHead
<1>3. \A d \in Coordinator, q \in Peer : d # c \/ q # p => Queue(d, q)' = Queue(d, q)
  BY DEF TypeOK, Queue, TakesHead
<1> HIDE DEF Queue
<1>4. QED BY <1>1, <1>2, <1>3

\* What each step does to the queues, for the steps that do nothing else to them.
LEMMA QueueSteps ==
    ASSUME TypeOK, Next
    PROVE  \/ QueuesAlone
           \/ \E c \in Coordinator, p \in Peer : TakesHead(c, p)
           \/ \E c \in Coordinator : CoordinatorDies(c)
           \/ \E p \in Peer : Start(p) \/ Kill(p) \/ Crash(p)
<1>1. CASE Tick BY <1>1 DEF Tick, QueuesAlone, peerVars
<1>2. ASSUME NEW c \in Coordinator, RespondOnline(c) \/ CoordinatorStarts(c) PROVE QueuesAlone
  BY <1>2 DEF RespondOnline, CoordinatorStarts, QueuesAlone, peerVars
<1>3. ASSUME NEW c \in Coordinator, NEW p \in Peer, HandlePeerOnline(c, p) \/ HandlePeerOffline(c, p)
      PROVE  TakesHead(c, p)
  BY <1>3 DEF HandlePeerOnline, HandlePeerOffline, TakesHead, Queue, peerVars
<1>4. ASSUME NEW p \in Peer, HandleOnlineResp(p) \/ HandleTaskRequest(p) \/ HandleTaskResponse(p)
      PROVE  QueuesAlone
  BY <1>4 DEF HandleOnlineResp, HandleTaskRequest, HandleTaskResponse, QueuesAlone
<1>5. ASSUME NEW p \in Peer, NEW q \in Peer, TaskRequest(p, q) PROVE QueuesAlone
  BY <1>5 DEF TaskRequest, QueuesAlone, peerVars
<1>6. QED BY <1>1, <1>2, <1>3, <1>4, <1>5 DEF Next, CoordinatorStep, PeerStep

\* What a start does: the request it queues, if a coordinator is there, is the
\* last of its queue.
LEMMA StartFacts ==
    ASSUME TypeOK, NEW p \in Peer, Start(p)
    PROVE  /\ status[p] # "on" /\ starts'[p] = starts[p] + 1 /\ starts[p] \in Nat
           /\ \A q \in Peer \ {p} : UNCHANGED <<status[q], starts[q], home[q], link[q]>>
           /\ status'[p] = "on"
           /\ UNCHANGED <<now, coordVars, list, answered, toPeer>>
           /\ \A q \in Peer \ {p}, c \in Coordinator : Queue(c, q)' = Queue(c, q)
           /\ \/ /\ home'[p] = None /\ link'[p] = link[p]
                 /\ \A c \in Coordinator : Queue(c, p)' = Queue(c, p)
              \/ \E c \in running :
                     /\ c \in Coordinator /\ home'[p] = c /\ link'[p] = "up"
                     /\ \A d \in Coordinator \ {c} : Queue(d, p)' = Queue(d, p)
                     /\ Queue(c, p)' = Append(Queue(c, p), [type |-> "GET_ONLINE", life |-> starts[p] + 1])
<1>1. /\ status[p] # "on" /\ status' = [status EXCEPT ![p] = "on"]
      /\ starts' = [starts EXCEPT ![p] = @ + 1]
      /\ UNCHANGED <<now, coordVars, list, answered, toPeer>>
  BY DEF Start
<1>2. starts[p] \in Nat /\ starts'[p] = starts[p] + 1 BY <1>1 DEF TypeOK
<1>3. CASE Reachable = {} /\ home' = [home EXCEPT ![p] = None] /\ UNCHANGED <<link, toCoord>>
  BY <1>1, <1>2, <1>3 DEF TypeOK, Queue
<1>4. ASSUME NEW c \in Reachable,
             home' = [home EXCEPT ![p] = c], link' = [link EXCEPT ![p] = "up"],
             toCoord' = [toCoord EXCEPT ![c][p] =
                 Append(@, [type |-> "GET_ONLINE", life |-> starts'[p]])]
      PROVE  /\ \A q \in Peer \ {p} : UNCHANGED <<home[q], link[q]>>
             /\ \A q \in Peer \ {p}, d \in Coordinator : Queue(d, q)' = Queue(d, q)
             /\ \E d \in running :
                     /\ d \in Coordinator /\ home'[p] = d /\ link'[p] = "up"
                     /\ \A e \in Coordinator \ {d} : Queue(e, p)' = Queue(e, p)
                     /\ Queue(d, p)' = Append(Queue(d, p), [type |-> "GET_ONLINE", life |-> starts[p] + 1])
  <2>1. c \in running /\ c \in Coordinator BY ReachableRuns DEF TypeOK
  <2>2. Queue(c, p)' = Append(Queue(c, p), [type |-> "GET_ONLINE", life |-> starts[p] + 1])
    BY <1>2, <1>4, <2>1 DEF TypeOK, Queue
  <2>3. \A q \in Peer, d \in Coordinator : q # p \/ d # c => Queue(d, q)' = Queue(d, q)
    BY <1>4 DEF TypeOK, Queue
  <2>4. home'[p] = c /\ link'[p] = "up" /\ \A q \in Peer \ {p} : UNCHANGED <<home[q], link[q]>>
    BY <1>4 DEF TypeOK
  <2>5. QED BY <2>1, <2>2, <2>3, <2>4
<1>5. \A q \in Peer \ {p} : UNCHANGED <<status[q], starts[q]>> BY <1>1 DEF TypeOK
<1>6. status'[p] = "on" BY <1>1 DEF TypeOK
<1>7. \/ Reachable = {} /\ home' = [home EXCEPT ![p] = None] /\ UNCHANGED <<link, toCoord>>
      \/ \E c \in Reachable :
              /\ home' = [home EXCEPT ![p] = c]
              /\ link' = [link EXCEPT ![p] = "up"]
              /\ toCoord' = [toCoord EXCEPT ![c][p] =
                     Append(@, [type |-> "GET_ONLINE", life |-> starts'[p]])]
  BY DEF Start
<1>8. CASE \E c \in Reachable :
              /\ home' = [home EXCEPT ![p] = c]
              /\ link' = [link EXCEPT ![p] = "up"]
              /\ toCoord' = [toCoord EXCEPT ![c][p] =
                     Append(@, [type |-> "GET_ONLINE", life |-> starts'[p]])]
  BY <1>1, <1>2, <1>4, <1>5, <1>6, <1>8
<1>9. QED BY <1>3, <1>7, <1>8

\* What the end of a process does: its requests stay, with one more at those it
\* tells.
LEMMA EndFacts ==
    ASSUME TypeOK, NEW p \in Peer, Kill(p) \/ Crash(p)
    PROVE  /\ status[p] = "on" /\ status'[p] \in {"quit", "off"} /\ ~answered'[p]
           /\ list'[p] = NoList /\ link'[p] = "none" /\ toPeer'[p] = {}
           /\ \A q \in Peer \ {p} : UNCHANGED <<status[q], list[q], link[q], answered[q], toPeer[q], home[q]>>
           /\ UNCHANGED <<now, coordVars, starts>>
           /\ starts[p] \in Nat
           /\ \A q \in Peer \ {p}, c \in Coordinator : Queue(c, q)' = Queue(c, q)
           /\ Crash(p) => status'[p] = "off" /\ home'[p] = None
           /\ Kill(p) => status'[p] = "quit" /\ home'[p] = home[p]
           /\ \A c \in Coordinator :
                  \/ /\ Kill(p) /\ c \in OfflineTo(p)
                     /\ Queue(c, p)' = Append(Queue(c, p), [type |-> "GET_OFFLINE", life |-> starts[p]])
                  \/ /\ ~(Kill(p) /\ c \in OfflineTo(p))
                     /\ Queue(c, p)' = Queue(c, p)
<1>0. Ends(p, "quit") \/ Ends(p, "off") BY DEF Kill, Crash
<1>1. \A how \in {"quit", "off"} : Ends(p, how) => /\ status'[p] = how /\ ~answered'[p] /\ list'[p] = NoList
                          /\ link'[p] = "none" /\ toPeer'[p] = {}
                          /\ \A q \in Peer \ {p} : UNCHANGED <<status[q], list[q], link[q], answered[q], toPeer[q]>>
  BY DEF Ends, TypeOK
<1>2. CASE Kill(p) /\ ~Crash(p)
  <2>1. /\ toCoord' = [c \in Coordinator |-> IF c \in OfflineTo(p)
                            THEN [toCoord[c] EXCEPT ![p] = Append(@, [type |-> "GET_OFFLINE", life |-> starts[p]])]
                            ELSE toCoord[c]]
        /\ status[p] = "on" /\ Ends(p, "quit") /\ UNCHANGED <<now, coordVars, starts, home>>
    BY <1>2 DEF Kill
  <2>2. \A q \in Peer \ {p}, c \in Coordinator : Queue(c, q)' = Queue(c, q)
    BY <2>1 DEF TypeOK, Queue
  <2>3. \A c \in Coordinator :
            /\ c \in OfflineTo(p) =>
                   Queue(c, p)' = Append(Queue(c, p), [type |-> "GET_OFFLINE", life |-> starts[p]])
            /\ c \notin OfflineTo(p) => Queue(c, p)' = Queue(c, p)
    BY <2>1 DEF TypeOK, Queue
  <2>4. starts[p] \in Nat BY DEF TypeOK
  <2> HIDE DEF Queue
  <2>5. QED BY <1>1, <1>2, <2>1, <2>2, <2>3, <2>4
<1>3. CASE Crash(p)
  <2>1. /\ status[p] = "on" /\ Ends(p, "off") /\ home' = [home EXCEPT ![p] = None]
        /\ UNCHANGED <<now, coordVars, toCoord, starts>>
    BY <1>3 DEF Crash
  <2>2. ~Kill(p)
    <3>1. status'[p] = "off" BY <2>1, <1>1
    <3>2. Kill(p) => Ends(p, "quit") BY DEF Kill
    <3>3. QED BY <3>1, <3>2, <1>1
  <2>3. home'[p] = None /\ \A q \in Peer \ {p} : UNCHANGED home[q] BY <2>1 DEF TypeOK
  <2>4. \A q \in Peer, c \in Coordinator : Queue(c, q)' = Queue(c, q) BY <2>1 DEF Queue
  <2>5. starts[p] \in Nat BY DEF TypeOK
  <2> HIDE DEF Queue
  <2>6. QED BY <1>1, <1>3, <2>1, <2>2, <2>3, <2>4, <2>5
<1>4. QED BY <1>2, <1>3

\* A request of the present life is the last in its queue, and an online one.
LEMMA QueueStep == TypeOK /\ QueueInv /\ [Next]_vars => QueueInv'
<1> SUFFICES ASSUME TypeOK, QueueInv, [Next]_vars,
                    NEW p \in Peer, NEW c \in Coordinator, NEW i \in DOMAIN Queue(c, p)'
             PROVE  /\ Queue(c, p)'[i].life <= starts'[p]
                    /\ status'[p] = "on" /\ starts'[p] = Queue(c, p)'[i].life =>
                           /\ home'[p] = c /\ i = Len(Queue(c, p)') /\ Queue(c, p)'[i].type = "GET_ONLINE"
  BY DEF QueueInv, On
<1>0. Queue(c, p) \in Seq(Request) /\ starts[p] \in Nat BY DEF TypeOK, Queue
<1>1. CASE QueuesAlone \/ UNCHANGED vars
  BY <1>1 DEF QueuesAlone, vars, peerVars, QueueInv, Queue, On
<1>2. ASSUME NEW d \in Coordinator, NEW q \in Peer, TakesHead(d, q)
      PROVE  /\ Queue(c, p)'[i].life <= starts'[p]
             /\ status'[p] = "on" /\ starts'[p] = Queue(c, p)'[i].life =>
                    /\ home'[p] = c /\ i = Len(Queue(c, p)') /\ Queue(c, p)'[i].type = "GET_ONLINE"
  <2>1. UNCHANGED <<status, starts, home>> BY <1>2 DEF TakesHead
  <2>2. CASE d = c /\ q = p
    <3>1. /\ Len(Queue(c, p)') = Len(Queue(c, p)) - 1 /\ Len(Queue(c, p)) \in Nat \ {0}
          /\ i \in Nat /\ i + 1 \in DOMAIN Queue(c, p) /\ Queue(c, p)'[i] = Queue(c, p)[i + 1]
      BY <1>2, <2>2, TakenHead
    <3>2. QED BY <2>1, <3>1 DEF QueueInv, On
  <2>3. CASE d # c \/ q # p
    <3>1. Queue(c, p)' = Queue(c, p) BY <1>2, <2>3, TakenHead
    <3>2. QED BY <2>1, <3>1 DEF QueueInv, On
  <2>4. QED BY <2>2, <2>3
<1>3. ASSUME NEW d \in Coordinator, CoordinatorDies(d)
      PROVE  /\ Queue(c, p)'[i].life <= starts'[p]
             /\ status'[p] = "on" /\ starts'[p] = Queue(c, p)'[i].life =>
                    /\ home'[p] = c /\ i = Len(Queue(c, p)') /\ Queue(c, p)'[i].type = "GET_ONLINE"
  <2>1. UNCHANGED <<status, starts, home>> BY <1>3 DEF CoordinatorDies
  <2>2. c = d => Queue(c, p)' = <<>> BY <1>3 DEF CoordinatorDies, TypeOK, Queue
  <2>3. c # d => Queue(c, p)' = Queue(c, p) BY <1>3 DEF CoordinatorDies, TypeOK, Queue
  <2>4. QED BY <2>1, <2>2, <2>3 DEF QueueInv, On
<1>4. ASSUME NEW q \in Peer, Start(q)
      PROVE  /\ Queue(c, p)'[i].life <= starts'[p]
             /\ status'[p] = "on" /\ starts'[p] = Queue(c, p)'[i].life =>
                    /\ home'[p] = c /\ i = Len(Queue(c, p)') /\ Queue(c, p)'[i].type = "GET_ONLINE"
  <2>1. CASE p # q
    <3>1. Queue(c, p)' = Queue(c, p) /\ UNCHANGED <<status[p], starts[p], home[p]>>
      BY <1>4, <2>1, StartFacts
    <3>2. QED BY <3>1 DEF QueueInv, On
  <2>2. CASE p = q
    <3>1. starts'[p] = starts[p] + 1 BY <1>4, <2>2, StartFacts
    <3>2. CASE Queue(c, p)' = Queue(c, p)
      <4>1. Queue(c, p)[i] \in Request /\ Queue(c, p)[i].life <= starts[p] BY <1>0, <3>2 DEF QueueInv
      <4>2. Queue(c, p)[i].life \in Nat BY <4>1 DEF Request
      <4>3. QED BY <1>0, <3>1, <3>2, <4>1, <4>2 DEF On
    <3>3. CASE /\ home'[p] = c
               /\ Queue(c, p)' = Append(Queue(c, p), [type |-> "GET_ONLINE", life |-> starts[p] + 1])
      <4>1. /\ Len(Queue(c, p)') = Len(Queue(c, p)) + 1
            /\ \A j \in 1 .. Len(Queue(c, p)) : Queue(c, p)'[j] = Queue(c, p)[j]
            /\ Queue(c, p)'[Len(Queue(c, p)) + 1] = [type |-> "GET_ONLINE", life |-> starts[p] + 1]
            /\ Queue(c, p)' \in Seq(Request)
        BY <1>0, <3>3, AppendRequest
      <4>2. i \in 1 .. Len(Queue(c, p)) \/ i = Len(Queue(c, p)) + 1 BY <1>0, <4>1
      <4>3. CASE i = Len(Queue(c, p)) + 1 BY <1>0, <3>1, <3>3, <4>1, <4>3
      <4>4. CASE i \in 1 .. Len(Queue(c, p))
        <5>1. Queue(c, p)[i] \in Request /\ Queue(c, p)[i].life <= starts[p] BY <1>0, <4>4 DEF QueueInv
        <5>2. Queue(c, p)[i].life \in Nat BY <5>1 DEF Request
        <5>3. Queue(c, p)'[i] = Queue(c, p)[i] BY <4>1, <4>4
        <5>4. QED BY <1>0, <3>1, <5>1, <5>2, <5>3 DEF On
      <4>5. QED BY <4>2, <4>3, <4>4
    <3>4. QED BY <1>4, <2>2, <3>2, <3>3, StartFacts
  <2>3. QED BY <2>1, <2>2
<1>5. ASSUME NEW q \in Peer, Kill(q) \/ Crash(q)
      PROVE  /\ Queue(c, p)'[i].life <= starts'[p]
             /\ status'[p] = "on" /\ starts'[p] = Queue(c, p)'[i].life =>
                    /\ home'[p] = c /\ i = Len(Queue(c, p)') /\ Queue(c, p)'[i].type = "GET_ONLINE"
  <2>1. UNCHANGED starts BY <1>5, EndFacts
  <2>2. CASE p # q
    <3>1. Queue(c, p)' = Queue(c, p) /\ UNCHANGED <<status[p], home[p]>>
      BY <1>5, <2>2, EndFacts
    <3>2. QED BY <2>1, <3>1 DEF QueueInv, On
  <2>3. CASE p = q
    <3>1. status'[p] # "on" BY <1>5, <2>3, EndFacts
    <3>2. CASE Queue(c, p)' = Queue(c, p) BY <2>1, <3>1, <3>2 DEF QueueInv, On
    <3>3. CASE Queue(c, p)' = Append(Queue(c, p), [type |-> "GET_OFFLINE", life |-> starts[p]])
      <4>1. /\ Len(Queue(c, p)') = Len(Queue(c, p)) + 1
            /\ \A j \in 1 .. Len(Queue(c, p)) : Queue(c, p)'[j] = Queue(c, p)[j]
            /\ Queue(c, p)'[Len(Queue(c, p)) + 1] = [type |-> "GET_OFFLINE", life |-> starts[p]]
            /\ Queue(c, p)' \in Seq(Request)
        BY <1>0, <3>3, AppendRequest
      <4>2. i \in 1 .. Len(Queue(c, p)) \/ i = Len(Queue(c, p)) + 1 BY <1>0, <4>1
      <4>3. CASE i = Len(Queue(c, p)) + 1 BY <1>0, <2>1, <3>1, <4>1, <4>3 DEF On
      <4>4. CASE i \in 1 .. Len(Queue(c, p))
        <5>1. Queue(c, p)[i].life <= starts[p] BY <1>0, <4>4 DEF QueueInv
        <5>2. QED BY <2>1, <3>1, <4>1, <4>4, <5>1 DEF On
      <4>5. QED BY <4>2, <4>3, <4>4
    <3>4. QED BY <1>5, <2>3, <3>2, <3>3, EndFacts
  <2>4. QED BY <2>2, <2>3
<1>6. QED BY <1>1, <1>2, <1>3, <1>4, <1>5, QueueSteps

-----------------------------------------------------------------------------
\* Answers

\* How a peer comes to be known: only by the coordinator handling its request.
LEMMA KnownStep ==
    ASSUME TypeOK, QueueInv, StageInv, [Next]_vars,
           NEW p \in Peer, NEW c \in Coordinator, Known(p, c)'
    PROVE  \/ Known(p, c) /\ UNCHANGED <<status[p], home[p]>>
           \/ /\ HandlePeerOnline(c, p) /\ Queue(c, p) # <<>> /\ On(p, Head(Queue(c, p)).life)
<1> DEFINE Goal == \/ Known(p, c) /\ UNCHANGED <<status[p], home[p]>>
                   \/ HandlePeerOnline(c, p) /\ Queue(c, p) # <<>> /\ On(p, Head(Queue(c, p)).life)
<1>1. CASE Tick \/ UNCHANGED vars
  BY <1>1 DEF Tick, vars, coordVars, peerVars, Known, BeingAnswered, Answers, WasAnswered, On
<1>2. ASSUME NEW d \in Coordinator, RespondOnline(d) PROVE Goal
  <2>1. UNCHANGED <<status, starts, home, answered>> BY <1>2 DEF RespondOnline, peerVars
  <2>2. /\ handling' = [handling EXCEPT ![d] = None] /\ handling[d] # None
    BY <1>2 DEF RespondOnline
  <2>3. BeingAnswered(p, c)' => BeingAnswered(p, c)
    BY <2>1, <2>2 DEF BeingAnswered, On, TypeOK
  <2>4. WasAnswered(p, c)' => WasAnswered(p, c) BY <2>1 DEF WasAnswered
  <2>5. Answers(p, c)' # {} => Answers(p, c) # {} \/ BeingAnswered(p, c)
    <3> DEFINE r == handling[d].peer
               m == [type |-> "GET_ONLINE_RESP", from |-> d, life |-> handling[d].life,
                     list |-> [peers |-> Users[d], ts |-> Received(timestamp[d]), origin |-> d]]
    <3>1. \/ toPeer' = toPeer
          \/ On(r, handling[d].life) /\ toPeer' = [toPeer EXCEPT ![r] = @ \union {m}]
      BY <1>2 DEF RespondOnline
    <3>2. m.from = d OBVIOUS
    <3> HIDE DEF m
    <3>3. CASE p = r /\ On(r, handling[d].life) /\ c = d BY <2>2, <3>3 DEF BeingAnswered
    <3>4. CASE toPeer' = toPeer BY <3>4 DEF Answers
    <3>5. CASE (p # r \/ c # d) /\ toPeer' = [toPeer EXCEPT ![r] = @ \union {m}]
      BY <3>2, <3>5 DEF Answers, TypeOK
    <3>6. QED BY <3>1, <3>3, <3>4, <3>5
  <2>6. QED BY <2>1, <2>3, <2>4, <2>5 DEF Known
<1>3. ASSUME NEW d \in Coordinator, CoordinatorStarts(d) PROVE Goal
  BY <1>3 DEF CoordinatorStarts, peerVars, Known, BeingAnswered, Answers, WasAnswered, On
<1>4. ASSUME NEW d \in Coordinator, CoordinatorDies(d) PROVE Goal
  <2>1. UNCHANGED <<status, starts, home, answered>> /\ handling' = [handling EXCEPT ![d] = None]
    BY <1>4 DEF CoordinatorDies
  <2>2. toPeer'[p] \subseteq toPeer[p] BY <1>4 DEF CoordinatorDies
  <2>3. QED BY <2>1, <2>2 DEF TypeOK, Known, BeingAnswered, Answers, WasAnswered, On
<1>5. ASSUME NEW d \in Coordinator, NEW q \in Peer, HandlePeerOnline(d, q) PROVE Goal
  <2>1. /\ handling' = [handling EXCEPT ![d] = [peer |-> q, life |-> Head(toCoord[d][q]).life]]
        /\ toCoord[d][q] # <<>>
        /\ UNCHANGED <<peerVars, toPeer>>
    BY <1>5 DEF HandlePeerOnline
  <2>2. Answers(p, c)' = Answers(p, c) /\ WasAnswered(p, c)' = WasAnswered(p, c) /\ UNCHANGED <<status[p], home[p]>>
    BY <2>1 DEF peerVars, Answers, WasAnswered
  <2>3. BeingAnswered(p, c)' => BeingAnswered(p, c) \/ (d = c /\ q = p /\ On(p, Head(Queue(c, p)).life))
    BY <2>1 DEF peerVars, BeingAnswered, On, Queue, TypeOK
  <2>4. QED BY <1>5, <2>1, <2>2, <2>3 DEF Known, Queue
<1>6. ASSUME NEW d \in Coordinator, NEW q \in Peer, HandlePeerOffline(d, q) PROVE Goal
  BY <1>6 DEF HandlePeerOffline, peerVars, Known, BeingAnswered, Answers, WasAnswered, On
<1>7. ASSUME NEW q \in Peer, Start(q) PROVE Goal
  <2>1. UNCHANGED <<handling, list, answered, toPeer>> BY <1>7, StartFacts DEF coordVars
  <2>2. CASE p # q
    <3>1. UNCHANGED <<status[p], starts[p], home[p]>> BY <1>7, <2>2, StartFacts
    <3>2. QED BY <2>1, <3>1 DEF Known, BeingAnswered, Answers, WasAnswered, On
  <2>3. CASE p = q
    <3>1. status[p] # "on" /\ starts'[p] = starts[p] + 1 /\ starts[p] \in Nat BY <1>7, <2>3, StartFacts
    <3>2. ~answered[p] /\ toPeer[p] = {} BY <3>1 DEF StageInv
    <3>3. ~BeingAnswered(p, c)'
      <4>1. handling[c] # None /\ handling[c].peer = p => handling[c].life <= starts[p] /\ handling[c].life \in Nat
        BY DEF StageInv, TypeOK
      <4>2. QED BY <2>1, <3>1, <4>1 DEF BeingAnswered, On
    <3>4. QED BY <2>1, <3>2, <3>3 DEF Known, Answers, WasAnswered
  <2>4. QED BY <2>2, <2>3
<1>8. ASSUME NEW q \in Peer, Kill(q) \/ Crash(q) PROVE Goal
  <2>1. UNCHANGED <<handling, starts>> BY <1>8, EndFacts DEF coordVars
  <2>2. CASE p # q
    <3>1. UNCHANGED <<status[p], home[p], answered[p], toPeer[p]>> BY <1>8, <2>2, EndFacts
    <3>2. QED BY <2>1, <3>1 DEF Known, BeingAnswered, Answers, WasAnswered, On
  <2>3. CASE p = q
    <3>1. status'[p] # "on" /\ toPeer'[p] = {} BY <1>8, <2>3, EndFacts
    <3>2. QED BY <3>1 DEF Known, BeingAnswered, Answers, WasAnswered, On
  <2>4. QED BY <2>2, <2>3
<1>9. ASSUME NEW q \in Peer, HandleOnlineResp(q) PROVE Goal
  <2>1. PICK m \in toPeer[q] : /\ m.type = "GET_ONLINE_RESP"
                               /\ answered' = [answered EXCEPT ![q] = TRUE]
                               /\ toPeer' = [toPeer EXCEPT ![q] = @ \ {m}]
                               /\ UNCHANGED <<coordVars, toCoord, status, starts, home>>
    BY <1>9 DEF HandleOnlineResp
  <2>2. BeingAnswered(p, c)' => BeingAnswered(p, c) BY <2>1 DEF BeingAnswered, On, coordVars
  <2>3. Answers(p, c)' # {} => Answers(p, c) # {} BY <2>1 DEF Answers, TypeOK
  <2>4. WasAnswered(p, c)' => Known(p, c)
    <3>1. CASE p # q BY <2>1, <3>1 DEF WasAnswered, Known, TypeOK
    <3>2. CASE p = q
      <4>0. m \in PeerMessage BY <2>1 DEF TypeOK
      <4>1. m.from \in Coordinator /\ m \in Answers(p, m.from)
        <5>1. m.from \in Coordinator BY <2>1, <4>0 DEF PeerMessage
        <5>2. QED BY <2>1, <3>2, <5>1 DEF Answers
      <4>2. Known(p, m.from) BY <4>1 DEF Known
      <4>3. home[p] = m.from BY <4>1, <4>2 DEF StageInv
      <4>4. QED BY <2>1, <4>2, <4>3 DEF WasAnswered
    <3>3. QED BY <3>1, <3>2
  <2>5. QED BY <2>1, <2>2, <2>3, <2>4 DEF Known
<1>10. ASSUME NEW q \in Peer, NEW r \in Peer, TaskRequest(q, r) PROVE Goal
  <2>1. Answers(p, c)' = Answers(p, c)
    <3> DEFINE m == [type |-> "TASK_REQUEST", from |-> q, life |-> starts[q], list |-> NoList]
    <3>1. toPeer' = [toPeer EXCEPT ![r] = @ \union {m}] /\ m.type # "GET_ONLINE_RESP" BY <1>10 DEF TaskRequest
    <3> HIDE DEF m
    <3>2. QED BY <3>1 DEF Answers, TypeOK
  <2>2. UNCHANGED <<coordVars, peerVars>> BY <1>10 DEF TaskRequest
  <2>3. QED BY <2>1, <2>2 DEF coordVars, peerVars, Known, BeingAnswered, WasAnswered, On
<1>11. ASSUME NEW q \in Peer, HandleTaskRequest(q) PROVE Goal
  <2>1. Answers(p, c)' = Answers(p, c)
    <3>1. PICK m \in toPeer[q] :
              /\ m.type = "TASK_REQUEST"
              /\ toPeer' = [toPeer EXCEPT ![q] = @ \ {m},
                     ![m.from] = IF On(m.from, m.life)
                                 THEN @ \union {[type |-> "TASK_REQUEST_RESP", from |-> q,
                                                 life |-> m.life, list |-> list'[q]]}
                                 ELSE @]
      BY <1>11 DEF HandleTaskRequest
    <3> DEFINE x == [type |-> "TASK_REQUEST_RESP", from |-> q, life |-> m.life, list |-> list'[q]]
    <3>2. x.type # "GET_ONLINE_RESP" OBVIOUS
    <3>3. toPeer'[p] \subseteq toPeer[p] \union {x} /\ toPeer[p] \ {m} \subseteq toPeer'[p] BY <3>1 DEF TypeOK
    <3> HIDE DEF x
    <3>4. QED BY <3>1, <3>2, <3>3 DEF Answers
  <2>2. UNCHANGED <<coordVars, status, starts, home, answered>> BY <1>11 DEF HandleTaskRequest
  <2>3. QED BY <2>1, <2>2 DEF coordVars, Known, BeingAnswered, WasAnswered, On
<1>12. ASSUME NEW q \in Peer, HandleTaskResponse(q) PROVE Goal
  <2>1. Answers(p, c)' = Answers(p, c) BY <1>12 DEF HandleTaskResponse, Answers, TypeOK
  <2>2. UNCHANGED <<coordVars, status, starts, home, answered>> BY <1>12 DEF HandleTaskResponse
  <2>3. QED BY <2>1, <2>2 DEF coordVars, Known, BeingAnswered, WasAnswered, On
<1>13. QED
  BY <1>1, <1>2, <1>3, <1>4, <1>5, <1>6, <1>7, <1>8, <1>9, <1>10, <1>11, <1>12
  DEF Next, CoordinatorStep, PeerStep

\* Rows come and go only as requests are taken from the queue of their peer.
LEMMA RowStep ==
    ASSUME TypeOK, [Next]_vars, NEW c \in Coordinator, NEW p \in Peer
    PROVE  \/ Users'[c] = Users[c] /\ since'[c][p] = since[c][p]
           \/ /\ Queue(c, p) # <<>> /\ handling[c] = None /\ UNCHANGED peerVars
              /\ HandlePeerOnline(c, p) \/ HandlePeerOffline(c, p)
           \/ \E q \in Peer \ {p} : /\ Users'[c] = Users[c] \union {q} \/ Users'[c] = Users[c] \ {q}
                                    /\ since'[c][p] = since[c][p]
<1> DEFINE Goal == \/ Users'[c] = Users[c] /\ since'[c][p] = since[c][p]
                   \/ /\ Queue(c, p) # <<>> /\ handling[c] = None /\ UNCHANGED peerVars
                      /\ HandlePeerOnline(c, p) \/ HandlePeerOffline(c, p)
                   \/ \E q \in Peer \ {p} : /\ Users'[c] = Users[c] \union {q} \/ Users'[c] = Users[c] \ {q}
                                            /\ since'[c][p] = since[c][p]
<1>1. CASE UNCHANGED <<Users, since>> BY <1>1
<1>2. ASSUME NEW d \in Coordinator, NEW q \in Peer, HandlePeerOnline(d, q) PROVE Goal
  <2>1. CASE c = d /\ p = q BY <1>2, <2>1 DEF HandlePeerOnline, Queue
  <2>2. CASE c = d /\ p # q
    <3>1. Users' = [Users EXCEPT ![d] = @ \union {q}] BY <1>2 DEF HandlePeerOnline, AddPeer
    <3>2. since'[d][p] = since[d][p] BY <1>2, <2>2 DEF HandlePeerOnline, AddPeer, TypeOK
    <3>3. Users'[c] = Users[c] \union {q} BY <2>2, <3>1 DEF TypeOK
    <3>4. QED BY <2>2, <3>2, <3>3
  <2>3. CASE c # d BY <1>2, <2>3 DEF HandlePeerOnline, AddPeer, TypeOK
  <2>4. QED BY <2>1, <2>2, <2>3
<1>3. ASSUME NEW d \in Coordinator, NEW q \in Peer, HandlePeerOffline(d, q) PROVE Goal
  <2>1. CASE c = d /\ p = q BY <1>3, <2>1 DEF HandlePeerOffline, Queue
  <2>2. CASE c = d /\ p # q
    <3>1. Users' = [Users EXCEPT ![d] = @ \ {q}] BY <1>3 DEF HandlePeerOffline
    <3>2. since'[d][p] = since[d][p] BY <1>3, <2>2 DEF HandlePeerOffline, TypeOK
    <3>3. Users'[c] = Users[c] \ {q} BY <2>2, <3>1 DEF TypeOK
    <3>4. QED BY <2>2, <3>2, <3>3
  <2>3. CASE c # d BY <1>3, <2>3 DEF HandlePeerOffline, TypeOK
  <2>4. QED BY <2>1, <2>2, <2>3
<1>4. CASE Tick \/ UNCHANGED vars BY <1>1, <1>4 DEF Tick, vars, coordVars
<1>5. ASSUME NEW d \in Coordinator, RespondOnline(d) \/ CoordinatorStarts(d) \/ CoordinatorDies(d) PROVE Goal
  BY <1>1, <1>5 DEF RespondOnline, CoordinatorStarts, CoordinatorDies
<1>6. ASSUME NEW q \in Peer, PeerStep(q) PROVE Goal
  <2>1. UNCHANGED coordVars
    BY <1>6 DEF PeerStep, Start, Kill, Crash, HandleOnlineResp, HandleTaskRequest, HandleTaskResponse, TaskRequest
  <2>2. QED BY <1>1, <2>1 DEF coordVars
<1>7. QED BY <1>2, <1>3, <1>4, <1>5, <1>6 DEF Next, CoordinatorStep

\* Whoever is known to a coordinator has its row there and nothing in its queue.
LEMMA StageStep == TypeOK /\ QueueInv /\ StageInv /\ [Next]_vars => StageInv'
<1> SUFFICES ASSUME TypeOK, QueueInv, StageInv, [Next]_vars PROVE StageInv' OBVIOUS
<1>1. ASSUME NEW p \in Peer, NEW c \in Coordinator, Known(p, c)'
      PROVE  home'[p] = c /\ Queue(c, p)' = <<>> /\ p \in Users'[c]
  <2>0. Queue(c, p) \in Seq(Request) BY DEF TypeOK, Queue
  <2>1. CASE Known(p, c) /\ UNCHANGED <<status[p], home[p]>>
    <3>1. home'[p] = c /\ Queue(c, p) = <<>> /\ p \in Users[c] BY <2>1 DEF StageInv
    <3>2. Queue(c, p)' = <<>>
      <4>1. CASE QueuesAlone \/ UNCHANGED vars BY <3>1, <4>1 DEF QueuesAlone, vars, Queue
      <4>2. ASSUME NEW d \in Coordinator, NEW q \in Peer, TakesHead(d, q) PROVE Queue(c, p)' = <<>>
        <5>1. d # c \/ q # p BY <3>1, <4>2 DEF TakesHead
        <5>2. QED BY <3>1, <4>2, <5>1, TakenHead
      <4>3. ASSUME NEW d \in Coordinator, CoordinatorDies(d) PROVE Queue(c, p)' = <<>>
        BY <3>1, <4>3 DEF CoordinatorDies, TypeOK, Queue
      <4>4. ASSUME NEW q \in Peer, Start(q) PROVE Queue(c, p)' = <<>>
        <5>1. p # q BY <2>1, <4>4, StartFacts
        <5>2. QED BY <3>1, <4>4, <5>1, StartFacts
      <4>5. ASSUME NEW q \in Peer, Kill(q) \/ Crash(q) PROVE Queue(c, p)' = <<>>
        <5>1. p # q BY <2>1, <4>5, EndFacts
        <5>2. Queue(c, p)' = Queue(c, p) BY <4>5, <5>1, EndFacts
        <5>3. QED BY <3>1, <5>2
      <4>6. QED BY <4>1, <4>2, <4>3, <4>4, <4>5, QueueSteps
    <3>3. p \in Users'[c] BY <3>1, RowStep
    <3>4. QED BY <3>1, <3>2, <3>3
  <2>2. CASE HandlePeerOnline(c, p) /\ Queue(c, p) # <<>> /\ On(p, Head(Queue(c, p)).life)
    <3>1. Head(Queue(c, p)) = Queue(c, p)[1] /\ 1 \in DOMAIN Queue(c, p) BY <2>0, <2>2
    <3>2. home[p] = c /\ 1 = Len(Queue(c, p))
      <4>1. On(p, Queue(c, p)[1].life) BY <2>2, <3>1
      <4>2. QED BY <3>1, <4>1 DEF QueueInv
    <3>3. TakesHead(c, p) /\ p \in Users'[c]
      BY <2>2 DEF HandlePeerOnline, AddPeer, TakesHead, Queue, peerVars, TypeOK
    <3>4. Len(Queue(c, p)') = 0 /\ home'[p] = c
      <4>1. Len(Queue(c, p)') = Len(Queue(c, p)) - 1 BY <3>3, TakenHead
      <4>2. home'[p] = home[p] BY <3>3 DEF TakesHead
      <4>3. QED BY <3>2, <4>1, <4>2
    <3>5. Queue(c, p)' \in Seq(Request) BY TypeStep DEF TypeOK, Queue
    <3>6. QED BY <3>3, <3>4, <3>5
  <2>3. QED BY <1>1, <2>1, <2>2, KnownStep
<1>2. ASSUME NEW c \in Coordinator, handling'[c] # None
      PROVE  handling'[c].peer \in Users'[c] /\ handling'[c].life <= starts'[handling'[c].peer]
  <2>1. CASE handling'[c] = handling[c]
    <3>1. handling[c] # None /\ handling[c].peer \in Users[c] /\ handling[c].life <= starts[handling[c].peer]
      BY <1>2, <2>1 DEF StageInv
    <3>2. handling[c].peer \in Peer /\ handling[c].life \in Nat BY <3>1 DEF TypeOK
    <3>3. handling[c].peer \in Users'[c]
      <4> DEFINE r == handling[c].peer
      <4>1. r \in Peer /\ r \in Users[c] BY <3>1, <3>2
      <4> HIDE DEF r
      <4>2. r \in Users'[c] BY <3>1, <4>1, RowStep
      <4>3. QED BY <4>2 DEF r
    <3>4. \A p \in Peer : starts'[p] >= starts[p] /\ starts'[p] \in Nat /\ starts[p] \in Nat
      <4>1. \A p \in Peer : starts'[p] \in Nat /\ starts[p] \in Nat BY TypeStep DEF TypeOK
      <4>2. ASSUME NEW q \in Peer, Start(q) PROVE \A p \in Peer : starts'[p] >= starts[p]
        <5>1. starts' = [starts EXCEPT ![q] = @ + 1] BY <4>2 DEF Start
        <5>2. QED BY <4>1, <5>1 DEF TypeOK
      <4>3. ASSUME NEW q \in Peer, Kill(q) \/ Crash(q) PROVE \A p \in Peer : starts'[p] >= starts[p]
        <5>1. starts' = starts BY <4>3 DEF Kill, Crash
        <5>2. QED BY <4>1, <5>1
      <4>4. CASE UNCHANGED starts BY <4>1, <4>4
      <4>5. QED
        BY <4>1, <4>2, <4>3, <4>4, QueueSteps
        DEF QueuesAlone, TakesHead, CoordinatorDies, vars, peerVars
    <3>5. QED BY <2>1, <3>1, <3>2, <3>3, <3>4
  <2>2. ASSUME NEW p \in Peer, HandlePeerOnline(c, p)
        PROVE  handling'[c].peer \in Users'[c] /\ handling'[c].life <= starts'[handling'[c].peer]
    <3>1. /\ handling'[c] = [peer |-> p, life |-> Head(Queue(c, p)).life] /\ Queue(c, p) # <<>>
          /\ p \in Users'[c] /\ starts'[p] = starts[p]
      BY <2>2 DEF HandlePeerOnline, AddPeer, Queue, peerVars, TypeOK
    <3>2. Queue(c, p) \in Seq(Request) BY DEF TypeOK, Queue
    <3>3. Head(Queue(c, p)) = Queue(c, p)[1] /\ 1 \in DOMAIN Queue(c, p) BY <3>1, <3>2
    <3>4. Head(Queue(c, p)).life <= starts[p] BY <3>3 DEF QueueInv
    <3>5. QED BY <3>1, <3>4
  <2>3. handling'[c] = handling[c] \/ \E p \in Peer : HandlePeerOnline(c, p)
    <3>1. CASE UNCHANGED handling BY <3>1
    <3>2. ASSUME NEW d \in Coordinator, RespondOnline(d) \/ CoordinatorDies(d) PROVE handling'[c] = handling[c]
      BY <1>2, <3>2 DEF RespondOnline, CoordinatorDies, TypeOK
    <3>3. ASSUME NEW d \in Coordinator, NEW q \in Peer, HandlePeerOnline(d, q)
          PROVE  handling'[c] = handling[c] \/ HandlePeerOnline(c, q)
      BY <3>3 DEF HandlePeerOnline, TypeOK
    <3>4. ASSUME NEW q \in Peer, PeerStep(q) PROVE UNCHANGED handling
      BY <3>4 DEF PeerStep, Start, Kill, Crash, HandleOnlineResp, HandleTaskRequest, HandleTaskResponse,
                  TaskRequest, coordVars
    <3>5. QED
      BY <3>1, <3>2, <3>3, <3>4
      DEF Next, CoordinatorStep, CoordinatorStarts, HandlePeerOffline, Tick, vars, coordVars
  <2>4. QED BY <2>1, <2>2, <2>3
<1>3. ASSUME NEW p \in Peer, answered'[p] PROVE home'[p] \in Coordinator
  <2>1. CASE \E q \in Peer : Start(q) \/ Kill(q) \/ Crash(q)
    <3>1. PICK q \in Peer : Start(q) \/ Kill(q) \/ Crash(q) BY <2>1
    <3>2. CASE p = q
      <4>1. CASE Kill(q) \/ Crash(q) BY <1>3, <3>2, <4>1, EndFacts
      <4>2. CASE Start(q)
        <5>1. ~answered[p] BY <3>2, <4>2, StartFacts DEF StageInv
        <5>2. QED BY <1>3, <4>2, <5>1, StartFacts
      <4>3. QED BY <3>1, <4>1, <4>2
    <3>3. CASE p # q
      <4>1. answered'[p] = answered[p] /\ home'[p] = home[p] BY <3>1, <3>3, EndFacts, StartFacts
      <4>2. QED BY <1>3, <4>1 DEF StageInv
    <3>4. QED BY <3>2, <3>3
  <2>2. ASSUME NEW q \in Peer, HandleOnlineResp(q) PROVE home'[p] \in Coordinator
    <3>1. PICK m \in toPeer[q] : /\ m.type = "GET_ONLINE_RESP"
                                 /\ answered' = [answered EXCEPT ![q] = TRUE]
                                 /\ UNCHANGED home
      BY <2>2 DEF HandleOnlineResp
    <3>2. CASE p # q BY <1>3, <3>1, <3>2 DEF StageInv, TypeOK
    <3>3. CASE p = q
      <4>0. m \in PeerMessage BY <3>1 DEF TypeOK
      <4>1. m.from \in Coordinator BY <3>1, <4>0 DEF PeerMessage
      <4>2. Known(p, m.from) BY <3>1, <3>3 DEF Known, Answers
      <4>3. QED BY <3>1, <4>1, <4>2 DEF StageInv
    <3>4. QED BY <3>2, <3>3
  <2>3. CASE UNCHANGED <<answered, home>> BY <1>3, <2>3 DEF StageInv
  <2>4. QED
    BY <2>1, <2>2, <2>3
    DEF Next, CoordinatorStep, PeerStep, Tick, RespondOnline, CoordinatorStarts, CoordinatorDies,
        HandlePeerOnline, HandlePeerOffline, HandleTaskRequest, HandleTaskResponse, TaskRequest, vars, peerVars
<1>4. ASSUME NEW p \in Peer, status'[p] # "on"
      PROVE  ~answered'[p] /\ list'[p] = NoList /\ link'[p] = "none" /\ toPeer'[p] = {}
  <2>1. ASSUME NEW q \in Peer, Start(q) \/ Kill(q) \/ Crash(q)
        PROVE  ~answered'[p] /\ list'[p] = NoList /\ link'[p] = "none" /\ toPeer'[p] = {}
    <3>1. CASE p = q BY <1>4, <2>1, <3>1, StartFacts, EndFacts
    <3>2. CASE p # q
      <4>1. UNCHANGED <<status[p], answered[p], list[p], link[p], toPeer[p]>> BY <2>1, <3>2, StartFacts, EndFacts
      <4>2. QED BY <1>4, <4>1 DEF StageInv
    <3>3. QED BY <3>1, <3>2
  <2>2. ASSUME UNCHANGED status, UNCHANGED <<list[p], link[p], answered[p]>>, toPeer'[p] \subseteq toPeer[p]
        PROVE  ~answered'[p] /\ list'[p] = NoList /\ link'[p] = "none" /\ toPeer'[p] = {}
    BY <1>4, <2>2 DEF StageInv
  <2>3. ASSUME NEW q \in Peer, HandleOnlineResp(q) \/ HandleTaskRequest(q) \/ HandleTaskResponse(q)
        PROVE  ~answered'[p] /\ list'[p] = NoList /\ link'[p] = "none" /\ toPeer'[p] = {}
    <3>1. UNCHANGED status /\ status[p] # "on"
      BY <1>4, <2>3 DEF HandleOnlineResp, HandleTaskRequest, HandleTaskResponse
    <3>2. toPeer[p] = {} BY <3>1 DEF StageInv
    <3>3. toPeer[q] # {} BY <2>3 DEF HandleOnlineResp, HandleTaskRequest, HandleTaskResponse
    <3>4. p # q BY <3>2, <3>3
    <3>5. UNCHANGED <<list[p], link[p], answered[p]>>
      <4>1. CASE HandleOnlineResp(q) BY <3>4, <4>1 DEF HandleOnlineResp, TypeOK
      <4>2. CASE HandleTaskRequest(q) BY <3>4, <4>2 DEF HandleTaskRequest, TypeOK
      <4>3. CASE HandleTaskResponse(q) BY <3>4, <4>3 DEF HandleTaskResponse, TypeOK
      <4>4. QED BY <2>3, <4>1, <4>2, <4>3
    <3>6. toPeer'[p] \subseteq toPeer[p]
      <4>1. CASE HandleOnlineResp(q) \/ HandleTaskResponse(q)
        BY <3>4, <4>1 DEF HandleOnlineResp, HandleTaskResponse, TypeOK
      <4>2. CASE HandleTaskRequest(q)
        BY <3>1, <3>4, <4>2 DEF HandleTaskRequest, TypeOK, On
      <4>3. QED BY <2>3, <4>1, <4>2
    <3>7. QED BY <2>2, <3>1, <3>5, <3>6
  <2>4. ASSUME NEW q \in Peer, NEW r \in Peer, TaskRequest(q, r)
        PROVE  ~answered'[p] /\ list'[p] = NoList /\ link'[p] = "none" /\ toPeer'[p] = {}
    <3>1. UNCHANGED peerVars /\ status[r] = "on" BY <2>4 DEF TaskRequest
    <3>2. p # r BY <1>4, <3>1 DEF peerVars
    <3>3. toPeer'[p] = toPeer[p] BY <2>4, <3>2 DEF TaskRequest, TypeOK
    <3>4. QED BY <2>2, <3>1, <3>3 DEF peerVars
  <2>5. ASSUME NEW d \in Coordinator, CoordinatorDies(d)
        PROVE  ~answered'[p] /\ list'[p] = NoList /\ link'[p] = "none" /\ toPeer'[p] = {}
    <3>1. UNCHANGED <<status, list, answered>> BY <2>5 DEF CoordinatorDies
    <3>2. link[p] = "none" BY <1>4, <3>1 DEF StageInv
    <3>3. link'[p] = link[p] /\ toPeer'[p] \subseteq toPeer[p] BY <2>5, <3>2 DEF CoordinatorDies
    <3>4. QED BY <2>2, <3>1, <3>3
  <2>6. ASSUME NEW d \in Coordinator, RespondOnline(d)
        PROVE  ~answered'[p] /\ list'[p] = NoList /\ link'[p] = "none" /\ toPeer'[p] = {}
    <3>1. UNCHANGED peerVars BY <2>6 DEF RespondOnline
    <3>2. status[p] # "on" BY <1>4, <3>1 DEF peerVars
    <3>3. toPeer'[p] = toPeer[p] BY <2>6, <3>2 DEF RespondOnline, TypeOK, On
    <3>4. QED BY <2>2, <3>1, <3>3 DEF peerVars
  <2>7. CASE UNCHANGED <<peerVars, toPeer>> BY <2>2, <2>7 DEF peerVars
  <2>8. QED
    BY <2>1, <2>3, <2>4, <2>5, <2>6, <2>7
    DEF Next, CoordinatorStep, PeerStep, Tick, CoordinatorStarts, HandlePeerOnline, HandlePeerOffline, vars
<1>5. QED BY <1>1, <1>2, <1>3, <1>4 DEF StageInv

-----------------------------------------------------------------------------
\* What the peers know

\* The steps after which no peer has a list, or a message, that it had not.
Quiet == UNCHANGED <<list, answered>> /\ \A p \in Peer : toPeer'[p] \subseteq toPeer[p]

\* The answer to an online request is the table, with the last change's time.
LEMMA OnlineAnswer ==
    ASSUME TypeOK, StageInv, NEW c \in Coordinator, RespondOnline(c)
    PROVE  \/ Quiet /\ toPeer' = toPeer /\ ~(On(handling[c].peer, handling[c].life) /\ link[handling[c].peer] = "up")
           \/ \E p \in Peer, m \in PeerMessage :
                  /\ BeingAnswered(p, c) /\ p \in Users[c]
                  /\ m.type = "GET_ONLINE_RESP" /\ m.from = c
                  /\ m.list.peers = Users[c] /\ m.list.ts = Received(timestamp[c]) /\ m.list.origin = c
                  /\ toPeer' = [toPeer EXCEPT ![p] = @ \union {m}]
                  /\ UNCHANGED <<list, answered>>
<1> DEFINE p == handling[c].peer
           m == [type |-> "GET_ONLINE_RESP", from |-> c, life |-> handling[c].life,
                 list |-> [peers |-> Users[c], ts |-> Received(timestamp[c]), origin |-> c]]
<1>1. handling[c] # None BY DEF RespondOnline
<1>2. handling[c] \in [peer : Peer, life : Nat] /\ p \in Peer BY <1>1 DEF TypeOK
<1>3. m \in PeerMessage
  <2>1. Received(timestamp[c]) \in Nat BY ReceivedFacts DEF TypeOK
  <2>2. QED BY <1>2, <2>1 DEF PeerMessage, PeerList, TypeOK
<1>4. UNCHANGED <<list, answered>> BY DEF RespondOnline, peerVars
<1>5. CASE On(p, handling[c].life) /\ link[p] = "up"
  <2>1. toPeer' = [toPeer EXCEPT ![p] = @ \union {m}] BY <1>5 DEF RespondOnline
  <2>2. BeingAnswered(p, c) /\ p \in Users[c] BY <1>1, <1>5 DEF BeingAnswered, StageInv
  <2>3. /\ m.type = "GET_ONLINE_RESP" /\ m.from = c
        /\ m.list.peers = Users[c] /\ m.list.ts = Received(timestamp[c]) /\ m.list.origin = c
    OBVIOUS
  <2> HIDE DEF m, p
  <2>4. QED BY <1>2, <1>3, <1>4, <2>1, <2>2, <2>3
<1>6. CASE ~(On(p, handling[c].life) /\ link[p] = "up")
  <2>1. toPeer' = toPeer BY <1>6 DEF RespondOnline
  <2>2. QED BY <1>4, <1>6, <2>1 DEF Quiet
<1>7. QED BY <1>5, <1>6

\* The answer to a task's request is the whole list, to which the sender has
\* been added.
LEMMA RequestAnswer ==
    ASSUME TypeOK, NEW q \in Peer, HandleTaskRequest(q)
    PROVE  \E r \in Peer, m \in PeerMessage :
               /\ list' = [list EXCEPT ![q] = WithPeer(@, r)]
               /\ m.type = "TASK_REQUEST_RESP" /\ m.list = WithPeer(list[q], r)
               /\ WithPeer(list[q], r).peers = list[q].peers \union {r}
               /\ WithPeer(list[q], r).ts = list[q].ts
               /\ WithPeer(list[q], r).origin = list[q].origin
               /\ \A p \in Peer \ {r} : toPeer'[p] \subseteq toPeer[p]
               /\ toPeer'[r] \subseteq toPeer[r] \union {m}
               /\ \A p \in Peer, c \in Coordinator : Answers(p, c)' = Answers(p, c)
               /\ UNCHANGED <<now, coordVars, toCoord, status, starts, home, link, answered>>
<1>1. PICK x \in toPeer[q] :
          /\ x.type = "TASK_REQUEST"
          /\ list' = [list EXCEPT ![q] = WithPeer(@, x.from)]
          /\ toPeer' = [toPeer EXCEPT ![q] = @ \ {x},
                 ![x.from] = IF On(x.from, x.life)
                             THEN @ \union {[type |-> "TASK_REQUEST_RESP", from |-> q,
                                             life |-> x.life, list |-> list'[q]]}
                             ELSE @]
  BY DEF HandleTaskRequest
<1>2. UNCHANGED <<now, coordVars, toCoord, status, starts, home, link, answered>> BY DEF HandleTaskRequest
<1> DEFINE m == [type |-> "TASK_REQUEST_RESP", from |-> q, life |-> x.life, list |-> list'[q]]
<1>3. x \in PeerMessage BY <1>1 DEF TypeOK
<1>4. x.from \in Peer /\ x.life \in Nat BY <1>1, <1>3 DEF PeerMessage
<1>5. list[q] \in PeerList BY DEF TypeOK
<1>6. /\ WithPeer(list[q], x.from).peers = list[q].peers \union {x.from}
      /\ WithPeer(list[q], x.from).ts = list[q].ts
      /\ WithPeer(list[q], x.from).origin = list[q].origin
      /\ WithPeer(list[q], x.from) \in PeerList
  BY <1>4, <1>5 DEF WithPeer, PeerList
<1>7. list'[q] = WithPeer(list[q], x.from) BY <1>1 DEF TypeOK
<1>8. m \in PeerMessage BY <1>4, <1>6, <1>7 DEF PeerMessage
<1>9. m.type = "TASK_REQUEST_RESP" /\ m.list = WithPeer(list[q], x.from) BY <1>7
<1>10. /\ \A p \in Peer \ {x.from} : toPeer'[p] \subseteq toPeer[p]
       /\ toPeer'[x.from] \subseteq toPeer[x.from] \union {m}
       /\ \A p \in Peer : toPeer[p] \ {x} \subseteq toPeer'[p]
  BY <1>1, <1>4 DEF TypeOK
<1> HIDE DEF m
<1>11. \A p \in Peer, c \in Coordinator : Answers(p, c)' = Answers(p, c)
  <2> SUFFICES ASSUME NEW p \in Peer, NEW c \in Coordinator PROVE Answers(p, c)' = Answers(p, c) OBVIOUS
  <2>1. toPeer'[p] \subseteq toPeer[p] \union {m} /\ toPeer[p] \ {x} \subseteq toPeer'[p] BY <1>10
  <2>2. QED BY <1>1, <1>9, <2>1 DEF Answers
<1>12. QED
  <2> USE <1>4, <1>8
  <2> WITNESS x.from \in Peer, m \in PeerMessage
  <2>1. QED BY <1>1, <1>2, <1>6, <1>9, <1>10, <1>11

\* A task's request carries no list.
LEMMA RequestSent ==
    ASSUME TypeOK, NEW p \in Peer, NEW q \in Peer, TaskRequest(p, q)
    PROVE  /\ \E m \in PeerMessage : /\ m.type = "TASK_REQUEST" /\ m.list = NoList
                                     /\ \A r \in Peer : toPeer'[r] \subseteq toPeer[r] \union {m}
           /\ \A r \in Peer, c \in Coordinator : Answers(r, c)' = Answers(r, c)
           /\ UNCHANGED <<now, coordVars, toCoord, peerVars>>
<1> DEFINE m == [type |-> "TASK_REQUEST", from |-> p, life |-> starts[p], list |-> NoList]
<1>1. m \in PeerMessage BY NoneFacts DEF TypeOK, PeerMessage
<1>2. m.type = "TASK_REQUEST" /\ m.list = NoList OBVIOUS
<1>3. toPeer' = [toPeer EXCEPT ![q] = @ \union {m}] /\ UNCHANGED <<now, coordVars, toCoord, peerVars>>
  BY DEF TaskRequest
<1> HIDE DEF m
<1>4. \A r \in Peer : toPeer'[r] \subseteq toPeer[r] \union {m} /\ toPeer[r] \subseteq toPeer'[r]
  BY <1>3 DEF TypeOK
<1>5. \A r \in Peer, c \in Coordinator : Answers(r, c)' = Answers(r, c)
  <2> SUFFICES ASSUME NEW r \in Peer, NEW c \in Coordinator PROVE Answers(r, c)' = Answers(r, c) OBVIOUS
  <2>1. toPeer'[r] \subseteq toPeer[r] \union {m} /\ toPeer[r] \subseteq toPeer'[r] BY <1>4
  <2>2. QED BY <1>2, <2>1 DEF Answers
<1>6. QED BY <1>1, <1>2, <1>3, <1>4, <1>5

\* The steps that only take lists and messages away, or make no use of them.
LEMMA QuietSteps ==
    ASSUME TypeOK, StageInv, Next
    PROVE  \/ Quiet
           \/ \E c \in Coordinator : RespondOnline(c)
           \/ \E p \in Peer : \/ Kill(p) \/ Crash(p) \/ HandleOnlineResp(p)
                              \/ HandleTaskRequest(p) \/ HandleTaskResponse(p)
                              \/ \E q \in Peer : TaskRequest(p, q)
<1>1. CASE UNCHANGED <<list, answered, toPeer>> BY <1>1 DEF Quiet
<1>2. ASSUME NEW c \in Coordinator, CoordinatorDies(c) PROVE Quiet
  <2>1. \A p \in Peer : toPeer'[p] \subseteq toPeer[p] BY <1>2 DEF CoordinatorDies
  <2>2. QED BY <1>2, <2>1 DEF CoordinatorDies, Quiet
<1>3. QED
  BY <1>1, <1>2
  DEF Next, CoordinatorStep, PeerStep, Tick, CoordinatorStarts, HandlePeerOnline, HandlePeerOffline, Start, peerVars

\* A list that is taken over has the peer that takes it.
LEMMA KnowStep == TypeOK /\ StageInv /\ KnowInv /\ [Next]_vars => KnowInv'
<1> SUFFICES ASSUME TypeOK, StageInv, KnowInv, [Next]_vars, NEW p \in Peer
             PROVE  /\ answered'[p] => p \in list'[p].peers
                    /\ \A m \in toPeer'[p] : m.type # "TASK_REQUEST" => p \in m.list.peers
  BY DEF KnowInv
<1> DEFINE Goal == /\ answered'[p] => p \in list'[p].peers
                   /\ \A m \in toPeer'[p] : m.type # "TASK_REQUEST" => p \in m.list.peers
<1>1. CASE Quiet \/ UNCHANGED vars
  <2>1. UNCHANGED <<list, answered>> /\ toPeer'[p] \subseteq toPeer[p] BY <1>1 DEF Quiet, vars, peerVars
  <2>2. QED BY <2>1 DEF KnowInv
<1>2. ASSUME NEW c \in Coordinator, RespondOnline(c) PROVE Goal
  <2>1. CASE \E q \in Peer, m \in PeerMessage :
                  /\ BeingAnswered(q, c) /\ q \in Users[c]
                  /\ m.list.peers = Users[c]
                  /\ toPeer' = [toPeer EXCEPT ![q] = @ \union {m}]
                  /\ UNCHANGED <<list, answered>>
    BY <2>1 DEF KnowInv, TypeOK
  <2>2. CASE Quiet BY <1>1, <2>2
  <2>3. QED BY <1>2, <2>1, <2>2, OnlineAnswer
<1>3. ASSUME NEW q \in Peer, Kill(q) \/ Crash(q) PROVE Goal
  <2>1. CASE p = q BY <1>3, <2>1, EndFacts
  <2>2. CASE p # q
    <3>1. UNCHANGED <<list[p], answered[p], toPeer[p]>> BY <1>3, <2>2, EndFacts
    <3>2. QED BY <3>1 DEF KnowInv
  <2>3. QED BY <2>1, <2>2
<1>4. ASSUME NEW q \in Peer, HandleOnlineResp(q) PROVE Goal
  BY <1>4 DEF HandleOnlineResp, KnowInv, TypeOK
<1>5. ASSUME NEW q \in Peer, HandleTaskRequest(q) PROVE Goal
  <2>1. PICK r \in Peer, m \in PeerMessage :
               /\ list' = [list EXCEPT ![q] = WithPeer(@, r)]
               /\ m.list = WithPeer(list[q], r)
               /\ WithPeer(list[q], r).peers = list[q].peers \union {r}
               /\ \A s \in Peer \ {r} : toPeer'[s] \subseteq toPeer[s]
               /\ toPeer'[r] \subseteq toPeer[r] \union {m}
               /\ UNCHANGED answered
    BY <1>5, RequestAnswer
  <2>2. list[p].peers \subseteq list'[p].peers BY <2>1 DEF TypeOK
  <2>3. QED BY <2>1, <2>2 DEF KnowInv
<1>6. ASSUME NEW q \in Peer, HandleTaskResponse(q) PROVE Goal
  <2>1. PICK m \in toPeer[q] : /\ m.type = "TASK_REQUEST_RESP"
                               /\ list' = [list EXCEPT ![q] = Newer(@, m.list)]
                               /\ toPeer' = [toPeer EXCEPT ![q] = @ \ {m}]
                               /\ UNCHANGED answered
    BY <1>6 DEF HandleTaskResponse
  <2>2. toPeer'[p] \subseteq toPeer[p] BY <2>1 DEF TypeOK
  <2>3. answered[p] => p \in list'[p].peers
    <3>1. CASE p # q BY <2>1, <3>1 DEF KnowInv, TypeOK
    <3>2. CASE p = q
      <4>1. list'[p] = list[p] \/ list'[p] = m.list BY <2>1, <3>2 DEF Newer, TypeOK
      <4>2. p \in m.list.peers BY <2>1, <3>2 DEF KnowInv
      <4>3. QED BY <4>1, <4>2 DEF KnowInv
    <3>3. QED BY <3>1, <3>2
  <2>4. QED BY <2>1, <2>2, <2>3 DEF KnowInv
<1>7. ASSUME NEW q \in Peer, NEW r \in Peer, TaskRequest(q, r) PROVE Goal
  <2>1. PICK m \in PeerMessage : /\ m.type = "TASK_REQUEST"
                                 /\ \A s \in Peer : toPeer'[s] \subseteq toPeer[s] \union {m}
    BY <1>7, RequestSent
  <2>2. UNCHANGED <<list, answered>> BY <1>7, RequestSent DEF peerVars
  <2>3. QED BY <2>1, <2>2 DEF KnowInv
<1>8. QED BY <1>1, <1>2, <1>3, <1>4, <1>5, <1>6, <1>7, QuietSteps

\* A step makes a list only out of a table or out of another list.
LEMMA NewLists ==
    ASSUME TypeOK, StageInv, [Next]_vars, NEW l \in Lists'
    PROVE  \/ l \in Lists
           \/ l = NoList
           \/ \E c \in Coordinator : /\ RespondOnline(c)
                                     /\ l.peers = Users[c] /\ l.ts = Received(timestamp[c]) /\ l.origin = c
           \/ \E k \in Lists : /\ UNCHANGED <<now, coordVars>>
                               /\ k.peers \subseteq l.peers /\ l.ts = k.ts /\ l.origin = k.origin
<1> DEFINE Goal == \/ l \in Lists
                   \/ l = NoList
                   \/ \E c \in Coordinator : /\ RespondOnline(c)
                                             /\ l.peers = Users[c] /\ l.ts = Received(timestamp[c]) /\ l.origin = c
                   \/ \E k \in Lists : /\ UNCHANGED <<now, coordVars>>
                                       /\ k.peers \subseteq l.peers /\ l.ts = k.ts /\ l.origin = k.origin
<1>0. PICK p \in Peer : l = list'[p] \/ \E m \in toPeer'[p] : l = m.list
  BY DEF Lists
<1>a. ASSUME l = list[p] \/ \E m \in toPeer[p] : l = m.list PROVE l \in Lists
  BY <1>a DEF Lists
<1> HIDE DEF Lists
<1>1. CASE Quiet \/ UNCHANGED vars
  <2>1. list'[p] = list[p] /\ toPeer'[p] \subseteq toPeer[p] BY <1>1 DEF Quiet, vars, peerVars
  <2>2. QED BY <1>0, <1>a, <2>1
<1>2. ASSUME NEW c \in Coordinator, RespondOnline(c) PROVE Goal
  <2>1. CASE \E q \in Peer, m \in PeerMessage :
                  /\ m.list.peers = Users[c] /\ m.list.ts = Received(timestamp[c]) /\ m.list.origin = c
                  /\ toPeer' = [toPeer EXCEPT ![q] = @ \union {m}]
                  /\ UNCHANGED <<list, answered>>
    <3>1. PICK q \in Peer, m \in PeerMessage :
                  /\ m.list.peers = Users[c] /\ m.list.ts = Received(timestamp[c]) /\ m.list.origin = c
                  /\ toPeer' = [toPeer EXCEPT ![q] = @ \union {m}]
                  /\ UNCHANGED <<list, answered>>
      BY <2>1
    <3>2. list'[p] = list[p] /\ toPeer'[p] \subseteq toPeer[p] \union {m} BY <3>1 DEF TypeOK
    <3>3. l = m.list \/ l = list[p] \/ \E n \in toPeer[p] : l = n.list BY <1>0, <3>2
    <3>4. QED BY <1>2, <1>a, <3>1, <3>3
  <2>2. CASE Quiet BY <1>1, <2>2
  <2> HIDE DEF Goal
  <2>3. QED BY <1>2, <2>1, <2>2, OnlineAnswer
<1>3. ASSUME NEW q \in Peer, Kill(q) \/ Crash(q) PROVE Goal
  <2>1. CASE p = q BY <1>0, <1>3, <2>1, EndFacts
  <2>2. CASE p # q
    <3>1. UNCHANGED <<list[p], toPeer[p]>> BY <1>3, <2>2, EndFacts
    <3>2. QED BY <1>0, <1>a, <3>1
  <2>3. QED BY <2>1, <2>2
<1>4. ASSUME NEW q \in Peer, HandleOnlineResp(q) PROVE Goal
  <2>1. PICK m \in toPeer[q] : /\ list' = [list EXCEPT ![q] = m.list]
                               /\ toPeer' = [toPeer EXCEPT ![q] = @ \ {m}]
    BY <1>4 DEF HandleOnlineResp
  <2>2. toPeer'[p] \subseteq toPeer[p] BY <2>1 DEF TypeOK
  <2>3. list'[p] = list[p] \/ (p = q /\ list'[p] = m.list) BY <2>1 DEF TypeOK
  <2>4. l = list[p] \/ \E n \in toPeer[p] : l = n.list BY <1>0, <2>1, <2>2, <2>3
  <2>5. QED BY <1>a, <2>4
<1>5. ASSUME NEW q \in Peer, HandleTaskRequest(q) PROVE Goal
  <2>1. PICK r \in Peer, m \in PeerMessage :
               /\ list' = [list EXCEPT ![q] = WithPeer(@, r)]
               /\ m.list = WithPeer(list[q], r)
               /\ WithPeer(list[q], r).peers = list[q].peers \union {r}
               /\ WithPeer(list[q], r).ts = list[q].ts
               /\ WithPeer(list[q], r).origin = list[q].origin
               /\ \A s \in Peer \ {r} : toPeer'[s] \subseteq toPeer[s]
               /\ toPeer'[r] \subseteq toPeer[r] \union {m}
               /\ UNCHANGED <<now, coordVars>>
    BY <1>5, RequestAnswer
  <2>2. list[q] \in Lists BY DEF Lists
  <2>3. l = WithPeer(list[q], r) \/ l = list[p] \/ \E n \in toPeer[p] : l = n.list
    <3>1. list'[p] = list[p] \/ list'[p] = WithPeer(list[q], r) BY <2>1 DEF TypeOK
    <3>2. toPeer'[p] \subseteq toPeer[p] \union {m} BY <2>1
    <3>3. QED BY <1>0, <2>1, <3>1, <3>2
  <2>4. CASE l = WithPeer(list[q], r) BY <2>1, <2>2, <2>4
  <2>5. QED BY <1>a, <2>3, <2>4
<1>6. ASSUME NEW q \in Peer, HandleTaskResponse(q) PROVE Goal
  <2>1. PICK m \in toPeer[q] : /\ list' = [list EXCEPT ![q] = Newer(@, m.list)]
                               /\ toPeer' = [toPeer EXCEPT ![q] = @ \ {m}]
    BY <1>6 DEF HandleTaskResponse
  <2>2. toPeer'[p] \subseteq toPeer[p] BY <2>1 DEF TypeOK
  <2>3. list'[p] = list[p] \/ (p = q /\ list'[p] = m.list) BY <2>1 DEF TypeOK, Newer
  <2>4. l = list[p] \/ \E n \in toPeer[p] : l = n.list BY <1>0, <2>1, <2>2, <2>3
  <2>5. QED BY <1>a, <2>4
<1>7. ASSUME NEW q \in Peer, NEW r \in Peer, TaskRequest(q, r) PROVE Goal
  <2>1. PICK m \in PeerMessage : /\ m.list = NoList
                                 /\ \A s \in Peer : toPeer'[s] \subseteq toPeer[s] \union {m}
    BY <1>7, RequestSent
  <2>2. UNCHANGED list BY <1>7, RequestSent DEF peerVars
  <2>3. l = NoList \/ l = list[p] \/ \E n \in toPeer[p] : l = n.list BY <1>0, <2>1, <2>2
  <2>4. QED BY <1>a, <2>3
<1>8. QED BY <1>1, <1>2, <1>3, <1>4, <1>5, <1>6, <1>7, QuietSteps

\* Until the clock wraps the tables' times are in order, and a new row is as late
\* as any list.
LEMMA TimeStep ==
    ASSUME TypeOK, ListInv, [Next]_vars, now' < TickMod
    PROVE  /\ now < TickMod /\ now <= now' /\ now \in Nat /\ now' \in Nat
           /\ \A c \in Coordinator : /\ timestamp'[c] <= now'
                                     /\ \A p \in Users'[c] : since'[c][p] <= timestamp'[c]
           /\ \A c \in Coordinator : \A p \in Users'[c] :
                  (p \in Users[c] /\ since'[c][p] = since[c][p]) \/ since'[c][p] = now
<1>1. now \in Nat /\ now' \in Nat /\ TickMod \in Nat BY TypeStep, MembershipConstants DEF TypeOK
<1>2. now' = now \/ now' = now + 1
  <2>1. ASSUME NEW c \in Coordinator, CoordinatorStep(c) PROVE now' = now
    BY <2>1 DEF CoordinatorStep, RespondOnline, CoordinatorStarts, CoordinatorDies, HandlePeerOnline,
                HandlePeerOffline
  <2>2. ASSUME NEW p \in Peer, PeerStep(p) PROVE now' = now
    BY <2>2 DEF PeerStep, Start, Kill, Crash, HandleOnlineResp, HandleTaskRequest, HandleTaskResponse,
                TaskRequest
  <2>3. QED BY <2>1, <2>2 DEF Next, Tick, vars
<1>3. now < TickMod /\ now <= now' BY <1>1, <1>2
<1>4. GetTickCount = now BY <1>3, TickType
<1>5. ASSUME NEW c \in Coordinator
      PROVE  /\ timestamp[c] <= now /\ timestamp[c] \in Nat
             /\ \A p \in Users[c] : since[c][p] <= timestamp[c]
             /\ \A p \in Peer : since[c][p] \in Nat
  BY <1>3, MembershipConstants DEF ListInv, TypeOK
<1> DEFINE Goal == \A c \in Coordinator :
                       /\ timestamp'[c] <= now'
                       /\ \A p \in Users'[c] :
                              /\ since'[c][p] <= timestamp'[c]
                              /\ (p \in Users[c] /\ since'[c][p] = since[c][p]) \/ since'[c][p] = now
<1>6. ASSUME UNCHANGED <<Users, timestamp, since>> PROVE Goal
  <2> SUFFICES ASSUME NEW c \in Coordinator
               PROVE  /\ timestamp'[c] <= now'
                      /\ \A p \in Users'[c] :
                             /\ since'[c][p] <= timestamp'[c]
                             /\ (p \in Users[c] /\ since'[c][p] = since[c][p]) \/ since'[c][p] = now
    OBVIOUS
  <2>1. timestamp'[c] = timestamp[c] /\ Users'[c] = Users[c] /\ since'[c] = since[c] BY <1>6
  <2>2. QED BY <1>1, <1>3, <1>5, <2>1
<1>7. ASSUME NEW d \in Coordinator,
             \A c \in Coordinator \ {d} : /\ timestamp'[c] = timestamp[c]
                                          /\ Users'[c] = Users[c] /\ since'[c] = since[c],
             timestamp'[d] <= now', timestamp'[d] >= timestamp[d], timestamp'[d] \in Nat,
             \A p \in Users'[d] : \/ p \in Users[d] /\ since'[d][p] = since[d][p]
                                  \/ since'[d][p] = now /\ timestamp'[d] = now
      PROVE  Goal
  <2> SUFFICES ASSUME NEW c \in Coordinator
               PROVE  /\ timestamp'[c] <= now'
                      /\ \A p \in Users'[c] :
                             /\ since'[c][p] <= timestamp'[c]
                             /\ (p \in Users[c] /\ since'[c][p] = since[c][p]) \/ since'[c][p] = now
    OBVIOUS
  <2>1. CASE c # d
    <3>1. timestamp'[c] = timestamp[c] /\ Users'[c] = Users[c] /\ since'[c] = since[c] BY <1>7, <2>1
    <3>2. QED BY <1>1, <1>3, <1>5, <3>1
  <2>2. CASE c = d
    <3>1. ASSUME NEW p \in Users'[c]
          PROVE  /\ since'[c][p] <= timestamp'[c]
                 /\ (p \in Users[c] /\ since'[c][p] = since[c][p]) \/ since'[c][p] = now
      <4>1. CASE p \in Users[d] /\ since'[d][p] = since[d][p]
        <5>1. since[d][p] <= timestamp[d] /\ since[d][p] \in Nat /\ timestamp[d] \in Nat
          BY <1>5, <4>1 DEF TypeOK
        <5>2. QED BY <1>7, <2>2, <4>1, <5>1
      <4>2. CASE since'[d][p] = now /\ timestamp'[d] = now BY <1>1, <2>2, <4>2
      <4>3. QED BY <1>7, <2>2, <3>1, <4>1, <4>2
    <3>2. QED BY <1>7, <2>2, <3>1
  <2>3. QED BY <2>1, <2>2
<1>8. ASSUME NEW d \in Coordinator, NEW q \in Peer, HandlePeerOnline(d, q) PROVE Goal
  <2>1. /\ Users' = [Users EXCEPT ![d] = @ \union {q}]
        /\ since' = [since EXCEPT ![d][q] = IF q \in Users[d] THEN @ ELSE now]
        /\ timestamp' = [timestamp EXCEPT ![d] = now] /\ now' = now
    BY <1>4, <1>8 DEF HandlePeerOnline, AddPeer
  <2>2. \A c \in Coordinator \ {d} : /\ timestamp'[c] = timestamp[c]
                                     /\ Users'[c] = Users[c] /\ since'[c] = since[c]
    BY <2>1 DEF TypeOK
  <2>3. timestamp'[d] = now BY <2>1 DEF TypeOK
  <2>4. \A p \in Users'[d] : \/ p \in Users[d] /\ since'[d][p] = since[d][p]
                             \/ since'[d][p] = now /\ timestamp'[d] = now
    BY <2>1, <2>3 DEF TypeOK
  <2>5. timestamp[d] <= now BY <1>5
  <2> HIDE DEF Goal
  <2>6. QED BY <1>1, <1>7, <2>1, <2>2, <2>3, <2>4, <2>5
<1>9. ASSUME NEW d \in Coordinator, NEW q \in Peer, HandlePeerOffline(d, q) PROVE Goal
  <2>1. /\ Users' = [Users EXCEPT ![d] = @ \ {q}]
        /\ since' = [since EXCEPT ![d][q] = 0]
        /\ timestamp' = [timestamp EXCEPT ![d] = now] /\ now' = now
    BY <1>4, <1>9 DEF HandlePeerOffline
  <2>2. \A c \in Coordinator \ {d} : /\ timestamp'[c] = timestamp[c]
                                     /\ Users'[c] = Users[c] /\ since'[c] = since[c]
    BY <2>1 DEF TypeOK
  <2>3. timestamp'[d] = now BY <2>1 DEF TypeOK
  <2>4. \A p \in Users'[d] : \/ p \in Users[d] /\ since'[d][p] = since[d][p]
                             \/ since'[d][p] = now /\ timestamp'[d] = now
    BY <2>1, <2>3 DEF TypeOK
  <2>5. timestamp[d] <= now BY <1>5
  <2> HIDE DEF Goal
  <2>6. QED BY <1>1, <1>7, <2>1, <2>2, <2>3, <2>4, <2>5
<1>10. ASSUME NEW d \in Coordinator, CoordinatorStarts(d) PROVE Goal
  <2>1. /\ timestamp' = [timestamp EXCEPT ![d] = IF @ = 0 THEN @ ELSE now]
        /\ UNCHANGED <<now, Users, since>>
    BY <1>4, <1>10 DEF CoordinatorStarts
  <2>2. \A c \in Coordinator \ {d} : /\ timestamp'[c] = timestamp[c]
                                     /\ Users'[c] = Users[c] /\ since'[c] = since[c]
    BY <2>1 DEF TypeOK
  <2>3. timestamp'[d] = now \/ timestamp'[d] = timestamp[d] BY <2>1 DEF TypeOK
  <2>4. \A p \in Users'[d] : p \in Users[d] /\ since'[d][p] = since[d][p]
    BY <2>1
  <2>5. timestamp[d] <= now /\ timestamp[d] \in Nat BY <1>5
  <2>6. timestamp'[d] <= now' /\ timestamp'[d] >= timestamp[d] /\ timestamp'[d] \in Nat
    BY <1>1, <2>1, <2>3, <2>5
  <2> HIDE DEF Goal
  <2>7. QED BY <1>7, <2>2, <2>4, <2>6
<1>11. ASSUME NEW q \in Peer, PeerStep(q) PROVE UNCHANGED coordVars
  BY <1>11 DEF PeerStep, Start, Kill, Crash, HandleOnlineResp, HandleTaskRequest, HandleTaskResponse, TaskRequest
<1>12. Goal
  <2> HIDE DEF Goal
  <2>1. CASE Tick \/ UNCHANGED vars BY <1>6, <2>1 DEF Tick, vars, coordVars
  <2>2. ASSUME NEW q \in Peer, PeerStep(q) PROVE Goal BY <1>6, <1>11, <2>2 DEF coordVars
  <2>3. ASSUME NEW d \in Coordinator, RespondOnline(d) \/ CoordinatorDies(d) PROVE Goal
    BY <1>6, <2>3 DEF RespondOnline, CoordinatorDies
  <2>4. QED BY <1>8, <1>9, <1>10, <2>1, <2>2, <2>3 DEF Next, CoordinatorStep
<1>13. QED BY <1>1, <1>3, <1>12

\* The lists have their type.
LEMMA ListsType == TypeOK => Lists \subseteq PeerList
<1> SUFFICES ASSUME TypeOK, NEW l \in Lists PROVE l \in PeerList OBVIOUS
<1>1. CASE \E p \in Peer : l = list[p] BY <1>1 DEF TypeOK
<1>2. CASE \E p \in Peer : \E m \in toPeer[p] : l = m.list
  <2>1. PICK p \in Peer : \E m \in toPeer[p] : l = m.list BY <1>2
  <2>a. PICK m \in toPeer[p] : l = m.list BY <2>1
  <2>2. m \in PeerMessage BY DEF TypeOK
  <2>3. QED BY <2>a, <2>2 DEF PeerMessage
<1>3. QED BY <1>1, <1>2 DEF Lists

\* A list that is later than a row has the row's peer.
LEMMA ListStep == TypeOK /\ StageInv /\ ListInv /\ [Next]_vars => ListInv'
<1> SUFFICES ASSUME TypeOK, StageInv, ListInv, [Next]_vars, now' < TickMod
             PROVE  /\ \A c \in Coordinator : /\ timestamp'[c] <= now'
                                              /\ \A p \in Users'[c] : since'[c][p] <= timestamp'[c]
                    /\ \A l \in Lists' :
                           /\ l.ts <= now' /\ l.ts <= MaxSigned
                           /\ l.origin \in Coordinator =>
                                  \A p \in Users'[l.origin] : since'[l.origin][p] < l.ts => p \in l.peers
  BY DEF ListInv
<1>1. /\ now < TickMod /\ now <= now' /\ now \in Nat /\ now' \in Nat
      /\ \A c \in Coordinator : \A p \in Users'[c] :
             (p \in Users[c] /\ since'[c][p] = since[c][p]) \/ since'[c][p] = now
  BY TimeStep
<1>2. \A c \in Coordinator : timestamp'[c] <= now' /\ \A p \in Users'[c] : since'[c][p] <= timestamp'[c]
  BY TimeStep
<1>3. ASSUME NEW k \in Lists
      PROVE  /\ k \in PeerList /\ k.ts \in Nat /\ k.ts <= now /\ k.ts <= MaxSigned
             /\ k.origin \in Coordinator =>
                    \A p \in Users'[k.origin] : since'[k.origin][p] < k.ts => p \in k.peers
  <2>1. k \in PeerList /\ k.ts \in Nat BY ListsType DEF PeerList
  <2>2. k.ts <= now /\ k.ts <= MaxSigned BY <1>1 DEF ListInv
  <2>3. ASSUME k.origin \in Coordinator, NEW p \in Users'[k.origin], since'[k.origin][p] < k.ts
        PROVE  p \in k.peers
    <3>1. since'[k.origin][p] # now BY <1>1, <2>1, <2>2, <2>3
    <3>2. p \in Users[k.origin] /\ since[k.origin][p] < k.ts BY <1>1, <2>3, <3>1
    <3>3. QED BY <1>1, <2>3, <3>2 DEF ListInv
  <2>4. QED BY <2>1, <2>2, <2>3
<1>4. ASSUME NEW l \in Lists'
      PROVE  /\ l.ts <= now' /\ l.ts <= MaxSigned
             /\ l.origin \in Coordinator =>
                    \A p \in Users'[l.origin] : since'[l.origin][p] < l.ts => p \in l.peers
  <2> DEFINE Goal == /\ l.ts <= now' /\ l.ts <= MaxSigned
                     /\ l.origin \in Coordinator =>
                            \A p \in Users'[l.origin] : since'[l.origin][p] < l.ts => p \in l.peers
  <2>0. MaxSigned \in Nat BY MembershipConstants
  <2>1. ASSUME l \in Lists PROVE Goal
    <3>1. /\ l.ts \in Nat /\ l.ts <= now /\ l.ts <= MaxSigned
          /\ l.origin \in Coordinator =>
                 \A p \in Users'[l.origin] : since'[l.origin][p] < l.ts => p \in l.peers
      BY <1>3, <2>1
    <3>2. QED BY <1>1, <2>0, <3>1
  <2>2. ASSUME l = NoList PROVE Goal BY <1>1, <2>0, <2>2, NoneFacts
  <2>3. ASSUME NEW c \in Coordinator, RespondOnline(c),
               l.peers = Users[c], l.ts = Received(timestamp[c]), l.origin = c
        PROVE  Goal
    <3>1. timestamp[c] \in 0 .. TickMod - 1 /\ timestamp[c] <= now BY <1>1 DEF TypeOK, ListInv
    <3>2. l.ts \in Nat /\ l.ts <= timestamp[c] /\ l.ts <= MaxSigned BY <2>3, <3>1, ReceivedFacts
    <3>3. l.ts <= now' BY <1>1, <3>1, <3>2, MembershipConstants
    <3>4. Users'[c] = Users[c] BY <2>3 DEF RespondOnline
    <3>5. QED BY <2>3, <3>2, <3>3, <3>4
  <2>4. ASSUME NEW k \in Lists, UNCHANGED <<now, coordVars>>,
               k.peers \subseteq l.peers, l.ts = k.ts, l.origin = k.origin
        PROVE  Goal
    <3>1. /\ k.ts \in Nat /\ k.ts <= now /\ k.ts <= MaxSigned
          /\ k.origin \in Coordinator =>
                 \A p \in Users'[k.origin] : since'[k.origin][p] < k.ts => p \in k.peers
      BY <1>3
    <3>2. QED BY <1>1, <2>0, <2>4, <3>1
  <2> HIDE DEF Goal
  <2>5. Goal BY <2>1, <2>2, <2>3, <2>4, NewLists
  <2>6. QED BY <2>5 DEF Goal
<1>5. QED BY <1>2, <1>4

\* How a peer's view of a coordinator's peers changes: it gets the table, or
\* what it has grows, or is replaced by a later list.
LEMMA NewViews ==
    ASSUME TypeOK, QueueInv, StageInv, [Next]_vars,
           NEW p \in Peer, NEW c \in Coordinator, NEW l \in Views(p, c)'
    PROVE  \/ l \in Views(p, c)
           \/ /\ RespondOnline(c) /\ Known(p, c)
              /\ l.peers = Users[c] /\ l.ts = Received(timestamp[c]) /\ l.origin = c
           \/ \E k \in Views(p, c) : /\ UNCHANGED <<now, coordVars>>
                                     /\ k.peers \subseteq l.peers /\ l.ts = k.ts /\ l.origin = k.origin
           \/ \E k \in Views(p, c) : /\ UNCHANGED <<now, coordVars>>
                                     /\ l \in Lists /\ k.ts < l.ts
<1> DEFINE Goal == \/ l \in Views(p, c)
                   \/ /\ RespondOnline(c) /\ Known(p, c)
                      /\ l.peers = Users[c] /\ l.ts = Received(timestamp[c]) /\ l.origin = c
                   \/ \E k \in Views(p, c) : /\ UNCHANGED <<now, coordVars>>
                                             /\ k.peers \subseteq l.peers /\ l.ts = k.ts /\ l.origin = k.origin
                   \/ \E k \in Views(p, c) : /\ UNCHANGED <<now, coordVars>>
                                             /\ l \in Lists /\ k.ts < l.ts
<1>0. (\E m \in Answers(p, c)' : l = m.list) \/ (l = list'[p] /\ WasAnswered(p, c)') BY DEF Views
<1>v. \/ \E m \in Answers(p, c) : l = m.list
      \/ l = list[p] /\ WasAnswered(p, c)
      => l \in Views(p, c)
  BY DEF Views
<1>p. WasAnswered(p, c) => list[p] \in Views(p, c) BY DEF Views
<1> HIDE DEF Views
<1>k. Known(p, c)'
  BY <1>0 DEF Known
<1>1. ASSUME NEW q \in Peer, Start(q) \/ Kill(q) \/ Crash(q) PROVE Goal
  <2>1. CASE p # q
    <3>1. UNCHANGED <<status[p], home[p], list[p], answered[p], toPeer[p]>>
      BY <1>1, <2>1, StartFacts, EndFacts
    <3>2. Answers(p, c)' = Answers(p, c) /\ WasAnswered(p, c)' = WasAnswered(p, c)
      BY <3>1 DEF Answers, WasAnswered
    <3>3. QED BY <1>0, <1>v, <3>1, <3>2
  <2>2. CASE p = q
    <3>1. CASE Kill(q) \/ Crash(q)
      <4>1. status'[p] # "on" /\ toPeer'[p] = {} BY <2>2, <3>1, EndFacts
      <4>2. QED BY <1>0, <4>1 DEF Answers, WasAnswered
    <3>2. CASE Start(q)
      <4>a. status[p] # "on" /\ UNCHANGED <<answered, toPeer>> BY <2>2, <3>2, StartFacts
      <4>1. ~answered'[p] /\ toPeer'[p] = {} BY <4>a DEF StageInv
      <4>2. QED BY <1>0, <4>1 DEF Answers, WasAnswered
    <3>3. QED BY <1>1, <3>1, <3>2
  <2>3. QED BY <2>1, <2>2
<1>2. ASSUME UNCHANGED <<list, answered, status, home>>, toPeer'[p] \subseteq toPeer[p] PROVE Goal
  <2>1. Answers(p, c)' \subseteq Answers(p, c) /\ WasAnswered(p, c)' = WasAnswered(p, c)
    BY <1>2 DEF Answers, WasAnswered
  <2>2. QED BY <1>0, <1>2, <1>v, <2>1
<1>3. ASSUME NEW d \in Coordinator, RespondOnline(d) PROVE Goal
  <2>1. CASE toPeer' = toPeer BY <1>2, <1>3, <2>1 DEF RespondOnline, peerVars
  <2>2. ASSUME NEW q \in Peer, NEW m \in PeerMessage,
               BeingAnswered(q, d), m.from = d,
               m.list.peers = Users[d], m.list.ts = Received(timestamp[d]), m.list.origin = d,
               toPeer' = [toPeer EXCEPT ![q] = @ \union {m}]
        PROVE  Goal
    <3>1. UNCHANGED <<list, answered, status, home>> BY <1>3 DEF RespondOnline, peerVars
    <3>2. CASE p = q /\ c = d
      <4>1. Known(p, c) BY <2>2, <3>2 DEF Known
      <4>2. toPeer'[p] \subseteq toPeer[p] \union {m} BY <2>2 DEF TypeOK
      <4>3. l = m.list \/ l \in Views(p, c)
        <5>1. Answers(p, c)' \subseteq Answers(p, c) \union {m} /\ WasAnswered(p, c)' = WasAnswered(p, c)
          BY <3>1, <4>2 DEF Answers, WasAnswered
        <5>2. QED BY <1>0, <1>v, <3>1, <5>1
      <4>4. QED BY <1>3, <2>2, <3>2, <4>1, <4>3
    <3>3. CASE p # q \/ c # d
      <4>1. Answers(p, c)' = Answers(p, c) BY <2>2, <3>3 DEF Answers, TypeOK
      <4>2. WasAnswered(p, c)' = WasAnswered(p, c) BY <3>1 DEF WasAnswered
      <4>3. QED BY <1>0, <1>v, <3>1, <4>1, <4>2
    <3>4. QED BY <3>2, <3>3
  <2> HIDE DEF Goal
  <2>3. QED BY <1>3, <2>1, <2>2, OnlineAnswer
<1>4. ASSUME NEW q \in Peer, HandleOnlineResp(q) PROVE Goal
  <2>1. PICK m \in toPeer[q] : /\ m.type = "GET_ONLINE_RESP"
                               /\ list' = [list EXCEPT ![q] = m.list]
                               /\ answered' = [answered EXCEPT ![q] = TRUE]
                               /\ toPeer' = [toPeer EXCEPT ![q] = @ \ {m}]
                               /\ UNCHANGED <<status, home>>
    BY <1>4 DEF HandleOnlineResp
  <2>2. Answers(p, c)' \subseteq Answers(p, c) BY <2>1 DEF Answers, TypeOK
  <2>3. CASE p # q
    <3>1. list'[p] = list[p] /\ WasAnswered(p, c)' = WasAnswered(p, c) BY <2>1, <2>3 DEF WasAnswered, TypeOK
    <3>2. QED BY <1>0, <1>v, <2>2, <3>1
  <2>4. CASE p = q
    <3>0. m \in PeerMessage BY <2>1 DEF TypeOK
    <3>1. m.from \in Coordinator BY <2>1, <3>0 DEF PeerMessage
    <3>2. m \in Answers(p, m.from) BY <2>1, <2>4 DEF Answers
    <3>3. home[p] = m.from BY <3>1, <3>2 DEF Known, StageInv
    <3>4. list'[p] = m.list BY <2>1, <2>4 DEF TypeOK
    <3>5. WasAnswered(p, c)' => c = m.from BY <2>1, <3>3 DEF WasAnswered
    <3>6. QED BY <1>0, <1>v, <2>2, <3>2, <3>4, <3>5
  <2>5. QED BY <2>3, <2>4
<1>5. ASSUME NEW q \in Peer, HandleTaskRequest(q) PROVE Goal
  <2>1. PICK r \in Peer, m \in PeerMessage :
               /\ list' = [list EXCEPT ![q] = WithPeer(@, r)]
               /\ WithPeer(list[q], r).peers = list[q].peers \union {r}
               /\ WithPeer(list[q], r).ts = list[q].ts
               /\ WithPeer(list[q], r).origin = list[q].origin
               /\ \A s \in Peer, e \in Coordinator : Answers(s, e)' = Answers(s, e)
               /\ UNCHANGED <<now, coordVars, status, home, answered>>
    BY <1>5, RequestAnswer
  <2>2. Answers(p, c)' = Answers(p, c) /\ WasAnswered(p, c)' = WasAnswered(p, c) BY <2>1 DEF WasAnswered
  <2>3. list'[p] = list[p] \/ (p = q /\ list'[p] = WithPeer(list[p], r)) BY <2>1 DEF TypeOK
  <2>4. CASE list'[p] = list[p] BY <1>0, <1>v, <2>2, <2>4
  <2>5. CASE p = q /\ list'[p] = WithPeer(list[p], r)
    <3>1. CASE l \in Views(p, c) BY <3>1
    <3>2. CASE l = WithPeer(list[p], r) /\ list[p] \in Views(p, c)
      BY <2>1, <2>5, <3>2
    <3>3. QED BY <1>0, <1>v, <1>p, <2>2, <2>5, <3>1, <3>2
  <2>6. QED BY <2>3, <2>4, <2>5
<1>6. ASSUME NEW q \in Peer, HandleTaskResponse(q) PROVE Goal
  <2>1. PICK m \in toPeer[q] : /\ m.type = "TASK_REQUEST_RESP"
                               /\ list' = [list EXCEPT ![q] = Newer(@, m.list)]
                               /\ toPeer' = [toPeer EXCEPT ![q] = @ \ {m}]
                               /\ UNCHANGED <<now, coordVars, status, home, answered>>
    BY <1>6 DEF HandleTaskResponse
  <2>2. Answers(p, c)' = Answers(p, c) /\ WasAnswered(p, c)' = WasAnswered(p, c)
    BY <2>1 DEF Answers, WasAnswered, TypeOK
  <2>3. list'[p] = list[p] \/ (list'[p] = m.list /\ list[p].ts < m.list.ts /\ p = q)
    BY <2>1 DEF TypeOK, Newer
  <2>4. CASE list'[p] = list[p] BY <1>0, <1>v, <2>2, <2>4
  <2>5. CASE list'[p] = m.list /\ list[p].ts < m.list.ts /\ p = q
    <3>0. m.list \in Lists BY <2>1 DEF Lists
    <3>1. CASE l \in Views(p, c) BY <3>1
    <3>2. CASE l = m.list /\ list[p] \in Views(p, c) BY <2>1, <2>5, <3>0, <3>2
    <3>3. QED BY <1>0, <1>v, <1>p, <2>2, <2>5, <3>1, <3>2
  <2>6. QED BY <2>3, <2>4, <2>5
<1>7. ASSUME NEW q \in Peer, NEW r \in Peer, TaskRequest(q, r) PROVE Goal
  <2>1. /\ \A s \in Peer, e \in Coordinator : Answers(s, e)' = Answers(s, e)
        /\ UNCHANGED peerVars
    BY <1>7, RequestSent
  <2>2. Answers(p, c)' = Answers(p, c) /\ WasAnswered(p, c)' = WasAnswered(p, c) /\ list'[p] = list[p]
    BY <2>1 DEF WasAnswered, peerVars
  <2>3. QED BY <1>0, <1>v, <2>2
<1>8. ASSUME NEW d \in Coordinator, CoordinatorDies(d) PROVE Goal
  BY <1>2, <1>8 DEF CoordinatorDies
<1>9. ASSUME UNCHANGED <<peerVars, toPeer>> PROVE Goal BY <1>2, <1>9 DEF peerVars
<1>10. Goal
  <2> HIDE DEF Goal
  <2>1. ASSUME NEW d \in Coordinator, CoordinatorStep(d) PROVE Goal
    BY <1>3, <1>8, <1>9, <2>1 DEF CoordinatorStep, CoordinatorStarts, HandlePeerOnline, HandlePeerOffline
  <2>2. ASSUME NEW q \in Peer, PeerStep(q) PROVE Goal
    BY <1>1, <1>4, <1>5, <1>6, <1>7, <2>2 DEF PeerStep
  <2>3. CASE Tick \/ UNCHANGED vars BY <1>9, <2>3 DEF Tick, vars
  <2>4. QED BY <2>1, <2>2, <2>3 DEF Next
<1>11. QED BY <1>10

\* Whatever a peer's list becomes, it still has the peers it had to have.
LEMMA SeesFollows ==
    ASSUME TypeOK, StageInv, ListInv, now < TickMod, NEW c \in Coordinator, NEW q \in Peer, Known(q, c),
           NEW k \in Lists, Sees(k, q, c), NEW l,
           \/ l = k
           \/ k.peers \subseteq l.peers /\ l.ts = k.ts /\ l.origin = k.origin
           \/ l \in Lists /\ k.ts < l.ts
    PROVE  Sees(l, q, c)
<1>1. CASE l \in Lists /\ k.ts < l.ts
  <2>1. l.ts \in Nat /\ k.ts \in Nat /\ since[c][q] \in Nat /\ MaxSigned \in Nat
    BY <1>1, ListsType, MembershipConstants DEF PeerList, TypeOK
  <2>2. l.ts <= MaxSigned BY <1>1 DEF ListInv
  <2>3. since[c][q] <= k.ts BY <1>1, <2>1, <2>2 DEF Sees
  <2>4. since[c][q] < l.ts BY <1>1, <2>1, <2>3
  <2>5. q \in Users[c] BY DEF StageInv
  <2>6. l.origin = c => q \in l.peers BY <1>1, <2>4, <2>5 DEF ListInv
  <2>7. since[c][q] <= l.ts BY <2>1, <2>4
  <2>8. QED BY <2>6, <2>7 DEF Sees
<1>2. QED BY <1>1 DEF Sees

\* Of two peers known to a coordinator, one sees the other.
LEMMA AcquaintStep ==
    TypeOK /\ QueueInv /\ StageInv /\ ListInv /\ AcquaintInv /\ [Next]_vars => AcquaintInv'
<1> SUFFICES ASSUME TypeOK, QueueInv, StageInv, ListInv, AcquaintInv, [Next]_vars, now' < TickMod,
                    NEW c \in Coordinator, NEW p \in Peer, NEW q \in Peer, p # q,
                    NEW l \in Views(p, c)', NEW k \in Views(q, c)'
             PROVE  \/ /\ since'[c][q] <= l.ts \/ l.ts >= MaxSigned
                       /\ l.origin = c => q \in l.peers
                    \/ /\ since'[c][p] <= k.ts \/ k.ts >= MaxSigned
                       /\ k.origin = c => p \in k.peers
  BY DEF AcquaintInv, Sees
<1>1. now < TickMod BY TimeStep
<1>2. \A r \in Peer : Views(r, c) # {} => Known(r, c)
  BY DEF Views, Known
<1>3. \A r \in Peer : Views(r, c) \subseteq Lists
  BY DEF Views, Lists, Answers
<1>4. \A r \in Peer : Known(r, c) => since'[c][r] = since[c][r]
  BY RowStep DEF StageInv
<1>5. \A r \in Peer : Known(r, c) => r \in Users[c] BY DEF StageInv
<1>6. ASSUME NEW x, NEW r \in Peer, Known(r, c), Sees(x, r, c)
      PROVE  /\ since'[c][r] <= x.ts \/ x.ts >= MaxSigned
             /\ x.origin = c => r \in x.peers
  BY <1>4, <1>6 DEF Sees
<1>7. ASSUME NEW x, NEW r \in Peer, Known(r, c), x.peers = Users[c], x.ts = Received(timestamp[c])
      PROVE  Sees(x, r, c)
  <2>1. timestamp[c] \in 0 .. TickMod - 1 /\ since[c][r] \in Nat /\ timestamp[c] \in Nat /\ MaxSigned \in Nat
    BY MembershipConstants DEF TypeOK
  <2>2. since[c][r] <= timestamp[c] BY <1>1, <1>5, <1>7 DEF ListInv
  <2>3. x.ts \in Nat /\ (x.ts = timestamp[c] \/ x.ts = MaxSigned) BY <1>7, <2>1, ReceivedFacts
  <2>4. since[c][r] <= x.ts \/ x.ts >= MaxSigned BY <2>1, <2>2, <2>3
  <2>5. QED BY <1>5, <1>7, <2>4 DEF Sees
<1> DEFINE Told(x, r) == RespondOnline(c) /\ Known(r, c) /\ x.peers = Users[c] /\ x.ts = Received(timestamp[c])
           Follows(y, x) == \/ x = y
                            \/ y.peers \subseteq x.peers /\ x.ts = y.ts /\ x.origin = y.origin
                            \/ x \in Lists /\ y.ts < x.ts
<1>8. Told(l, p) \/ \E y \in Views(p, c) : Follows(y, l)
  BY NewViews, Zenon
<1>9. Told(k, q) \/ \E y \in Views(q, c) : Follows(y, k)
  BY NewViews, Zenon
<1>10. Known(p, c) /\ Known(q, c) BY <1>2, <1>8, <1>9
<1>11. CASE Told(l, p)
  <2>1. Sees(l, q, c) BY <1>7, <1>10, <1>11
  <2>2. QED BY <1>6, <1>10, <2>1
<1>12. CASE Told(k, q)
  <2>1. Sees(k, p, c) BY <1>7, <1>10, <1>12
  <2>2. QED BY <1>6, <1>10, <2>1
<1>13. ASSUME NEW y \in Views(p, c), Follows(y, l), NEW z \in Views(q, c), Follows(z, k)
       PROVE  Sees(l, q, c) \/ Sees(k, p, c)
  <2>1. Sees(y, q, c) \/ Sees(z, p, c) BY <1>1 DEF AcquaintInv
  <2>2. y \in Lists /\ z \in Lists BY <1>3
  <2>3. CASE Sees(y, q, c) BY <1>1, <1>10, <1>13, <2>2, <2>3, SeesFollows
  <2>4. CASE Sees(z, p, c) BY <1>1, <1>10, <1>13, <2>2, <2>4, SeesFollows
  <2>5. QED BY <2>1, <2>3, <2>4
<1> HIDE DEF Told, Follows
<1>14. CASE Sees(l, q, c) BY <1>6, <1>10, <1>14
<1>15. CASE Sees(k, p, c) BY <1>6, <1>10, <1>15
<1>16. QED BY <1>8, <1>9, <1>11, <1>12, <1>13, <1>14, <1>15

-----------------------------------------------------------------------------
\* Nobody is forgotten while no coordinator dies

\* Whom a peer that ends tells, if its coordinator has not died.
LEMMA ToldAtEnd ==
    ASSUME TypeOK, AnswerInv, deaths = 0, NEW p \in Peer, status[p] = "on", home[p] # None
    PROVE  OfflineTo(p) = {home[p]}
BY DEF AnswerInv, OfflineTo

\* While no coordinator dies, a peer that found one is on its way to be answered.
LEMMA AnswerStep ==
    TypeOK /\ QueueInv /\ StageInv /\ AnswerInv /\ [Next]_vars => AnswerInv'
<1> SUFFICES ASSUME TypeOK, QueueInv, StageInv, AnswerInv, [Next]_vars, deaths' = 0,
                    NEW p \in Peer, home'[p] # None
             PROVE  /\ home'[p] \in running'
                    /\ status'[p] = "on" =>
                           /\ \/ answered'[p]
                              \/ link'[p] = "up" /\ (Asked(p, home[p])' \/ Known(p, home[p])')
                           /\ link'[p] \in {"up", "closed"}
  BY DEF AnswerInv
<1> DEFINE Goal == /\ home'[p] \in running'
                   /\ status'[p] = "on" =>
                          /\ \/ answered'[p]
                             \/ link'[p] = "up" /\ (Asked(p, home[p])' \/ Known(p, home[p])')
                          /\ link'[p] \in {"up", "closed"}
<1>1. ASSUME NEW d \in Coordinator, CoordinatorDies(d) PROVE FALSE
  BY <1>1 DEF CoordinatorDies, TypeOK
<1>2. deaths = 0
  <2>1. ASSUME NEW d \in Coordinator, CoordinatorStep(d) PROVE deaths = 0
    BY <1>1, <2>1 DEF CoordinatorStep, RespondOnline, CoordinatorStarts, HandlePeerOnline, HandlePeerOffline
  <2>2. ASSUME NEW q \in Peer, PeerStep(q) PROVE deaths = 0
    BY <2>2 DEF PeerStep, Start, Kill, Crash, HandleOnlineResp, HandleTaskRequest, HandleTaskResponse,
                TaskRequest, coordVars
  <2>3. QED BY <2>1, <2>2 DEF Next, Tick, vars, coordVars
<1>3. ASSUME home'[p] = home[p]
      PROVE  /\ home[p] \in Coordinator /\ home[p] \in running
             /\ status[p] = "on" => /\ \/ answered[p]
                                       \/ link[p] = "up" /\ (Asked(p, home[p]) \/ Known(p, home[p]))
                                    /\ link[p] \in {"up", "closed"}
  BY <1>2, <1>3 DEF AnswerInv, TypeOK
\* A step that leaves the peer's own state and its queues alone.
<1>4. ASSUME UNCHANGED <<status, starts, home, answered, link, toCoord, running>>,
             \A c \in Coordinator : link[p] = "up" /\ Known(p, c) => Known(p, c)'
      PROVE  Goal
  <2>1. \A c \in Coordinator : Asked(p, c)' = Asked(p, c) BY <1>4 DEF Asked, Queue, On
  <2>2. QED BY <1>3, <1>4, <2>1
<1>5. ASSUME UNCHANGED <<handling, status, starts, home, answered>>,
             \A c \in Coordinator : Answers(p, c)' = Answers(p, c)
      PROVE  \A c \in Coordinator : Known(p, c)' = Known(p, c)
  BY <1>5 DEF Known, BeingAnswered, WasAnswered, On
<1>6. ASSUME Tick \/ UNCHANGED vars PROVE Goal
  <2>1. UNCHANGED <<coordVars, peerVars, toPeer, toCoord>> BY <1>6 DEF Tick, vars
  <2>2. \A c \in Coordinator : Known(p, c)' = Known(p, c)
    BY <1>5, <2>1 DEF coordVars, peerVars, Answers
  <2>3. QED BY <1>4, <2>1, <2>2 DEF coordVars, peerVars
<1>7. ASSUME NEW d \in Coordinator, RespondOnline(d) PROVE Goal
  <2>1. UNCHANGED <<status, starts, home, answered, link, toCoord, running>> BY <1>7 DEF RespondOnline, peerVars
  <2>2. ASSUME NEW c \in Coordinator, link[p] = "up", Known(p, c) PROVE Known(p, c)'
    <3>1. CASE WasAnswered(p, c) BY <2>1, <3>1 DEF Known, WasAnswered
    <3>2. CASE Answers(p, c) # {}
      <4>1. toPeer[p] \subseteq toPeer'[p] BY <1>7 DEF RespondOnline, TypeOK
      <4>2. QED BY <3>2, <4>1 DEF Known, Answers
    <3>3. CASE BeingAnswered(p, c) /\ c # d
      BY <1>7, <2>1, <3>3 DEF Known, BeingAnswered, On, RespondOnline, TypeOK
    <3>4. CASE BeingAnswered(p, c) /\ c = d
      <4>1. handling[d] # None /\ p = handling[d].peer /\ On(p, handling[d].life) BY <3>4 DEF BeingAnswered
      <4>2. PICK q \in Peer, m \in PeerMessage :
                  /\ BeingAnswered(q, d) /\ m.type = "GET_ONLINE_RESP" /\ m.from = d
                  /\ toPeer' = [toPeer EXCEPT ![q] = @ \union {m}]
        BY <1>7, <2>2, <4>1, OnlineAnswer
      <4>3. q = p BY <4>1, <4>2 DEF BeingAnswered
      <4>4. m \in toPeer'[p] BY <4>2, <4>3 DEF TypeOK
      <4>5. QED BY <3>4, <4>2, <4>4 DEF Known, Answers
    <3>5. QED BY <2>2, <3>1, <3>2, <3>3, <3>4 DEF Known
  <2>3. QED BY <1>4, <2>1, <2>2
<1>8. ASSUME NEW d \in Coordinator, CoordinatorStarts(d) PROVE Goal
  <2>1. UNCHANGED <<handling, peerVars, toPeer, toCoord>> /\ running' = running \union {d}
    BY <1>8 DEF CoordinatorStarts
  <2>2. \A c \in Coordinator : Known(p, c)' = Known(p, c) /\ Asked(p, c)' = Asked(p, c)
    BY <1>5, <2>1 DEF peerVars, Answers, Asked, Queue, On
  <2>3. UNCHANGED <<status, home, answered, link>> BY <2>1 DEF peerVars
  <2>4. QED BY <1>3, <2>1, <2>2, <2>3
<1>9. ASSUME NEW d \in Coordinator, NEW q \in Peer, HandlePeerOnline(d, q) \/ HandlePeerOffline(d, q)
      PROVE  Goal
  <2>1. /\ UNCHANGED <<running, peerVars, toPeer>> /\ handling[d] = None
        /\ handling' = handling \/ \E life : handling' = [handling EXCEPT ![d] = [peer |-> q, life |-> life]]
    BY <1>9 DEF HandlePeerOnline, HandlePeerOffline
  <2>2. UNCHANGED <<status, starts, home, answered, link>> BY <2>1 DEF peerVars
  <2>3. ASSUME NEW c \in Coordinator, Known(p, c) PROVE Known(p, c)'
    <3>1. Answers(p, c)' = Answers(p, c) /\ WasAnswered(p, c)' = WasAnswered(p, c)
      BY <2>1, <2>2 DEF Answers, WasAnswered
    <3>2. BeingAnswered(p, c) => BeingAnswered(p, c)'
      BY <2>1, <2>2 DEF BeingAnswered, On, TypeOK
    <3>3. QED BY <2>3, <3>1, <3>2 DEF Known
  <2>4. ASSUME NEW c \in Coordinator, Asked(p, c) PROVE Asked(p, c)' \/ Known(p, c)'
    <3>1. TakesHead(d, q) BY <1>9 DEF HandlePeerOnline, HandlePeerOffline, TakesHead, Queue, peerVars
    <3>2. CASE c # d \/ p # q
      <4>1. Queue(c, p)' = Queue(c, p) BY <3>1, <3>2, TakenHead
      <4>2. QED BY <2>2, <2>4, <4>1 DEF Asked, On
    <3>3. CASE c = d /\ p = q
      <4>0. Queue(c, p) \in Seq(Request) BY DEF TypeOK, Queue
      <4>1. PICK i \in DOMAIN Queue(c, p) : On(p, Queue(c, p)[i].life) BY <2>4 DEF Asked
      <4>2. Queue(c, p)[i].type = "GET_ONLINE" BY <4>1 DEF QueueInv
      <4>3. CASE i # 1
        <5>1. Queue(c, p)' = Tail(Queue(c, p)) BY <3>1, <3>3 DEF TakesHead, Queue, TypeOK
        <5>2. i - 1 \in DOMAIN Queue(c, p)' /\ Queue(c, p)'[i - 1] = Queue(c, p)[i] BY <4>0, <4>3, <5>1
        <5>3. status'[p] = "on" /\ starts'[p] = Queue(c, p)'[i - 1].life BY <2>2, <4>1, <5>2 DEF On
        <5>4. QED BY <5>2, <5>3 DEF Asked, On
      <4>4. CASE i = 1
        <5>1. Head(Queue(c, p)) = Queue(c, p)[1] BY <4>0, <4>4
        <5>2. HandlePeerOnline(c, p) BY <1>9, <3>3, <4>2, <4>4, <5>1 DEF HandlePeerOffline, Queue
        <5>3. handling'[c] = [peer |-> p, life |-> Queue(c, p)[1].life]
          BY <5>1, <5>2 DEF HandlePeerOnline, Queue, TypeOK
        <5>4. Queue(c, p)[1].life \in Nat
          <6>1. Queue(c, p)[1] \in Request BY <4>0, <4>1, <4>4
          <6>2. QED BY <6>1 DEF Request
        <5>5. handling'[c] # None BY <5>3, <5>4, NoneAssumption
        <5>6. BeingAnswered(p, c)' BY <2>2, <4>1, <4>4, <5>3, <5>5 DEF BeingAnswered, On
        <5>7. QED BY <5>6 DEF Known
      <4>5. QED BY <4>3, <4>4
    <3>4. QED BY <3>2, <3>3
  <2>5. QED BY <1>3, <2>1, <2>2, <2>3, <2>4
<1>10. ASSUME NEW q \in Peer, Start(q) PROVE Goal
  <2>1. UNCHANGED <<handling, running, answered, toPeer>> BY <1>10, StartFacts DEF coordVars
  <2>2. CASE p # q
    <3>1. /\ UNCHANGED <<status[p], starts[p], home[p], link[p], answered[p]>>
          /\ \A c \in Coordinator : Queue(c, p)' = Queue(c, p)
      BY <1>10, <2>1, <2>2, StartFacts
    <3>2. \A c \in Coordinator : Asked(p, c)' = Asked(p, c) BY <3>1 DEF Asked, On
    <3>3. \A c \in Coordinator : Known(p, c)' = Known(p, c)
      BY <2>1, <3>1 DEF Known, BeingAnswered, Answers, WasAnswered, On
    <3>4. QED BY <1>3, <2>1, <3>1, <3>2, <3>3
  <2>3. CASE p = q
    <3>1. PICK c \in running :
                     /\ c \in Coordinator /\ home'[p] = c /\ link'[p] = "up"
                     /\ Queue(c, p)' = Append(Queue(c, p), [type |-> "GET_ONLINE", life |-> starts[p] + 1])
      BY <1>10, <2>3, StartFacts
    <3>2. starts'[p] = starts[p] + 1 /\ starts[p] \in Nat /\ status'[p] = "on" BY <1>10, <2>3, StartFacts
    <3>3. Queue(c, p) \in Seq(Request) BY DEF TypeOK, Queue
    <3>4. /\ Queue(c, p)' \in Seq(Request)
          /\ Len(Queue(c, p)') = Len(Queue(c, p)) + 1
          /\ Queue(c, p)'[Len(Queue(c, p)) + 1] = [type |-> "GET_ONLINE", life |-> starts[p] + 1]
      BY <3>1, <3>2, <3>3, AppendRequest
    <3>5. Len(Queue(c, p)) + 1 \in DOMAIN Queue(c, p)' BY <3>3, <3>4
    <3>6. Asked(p, c)' BY <3>2, <3>4, <3>5 DEF Asked, On
    <3>7. QED BY <2>1, <3>1, <3>2, <3>6
  <2>4. QED BY <2>2, <2>3
<1>11. ASSUME NEW q \in Peer, Kill(q) \/ Crash(q) PROVE Goal
  <2>1. UNCHANGED <<handling, running, starts>> BY <1>11, EndFacts DEF coordVars
  <2>2. CASE p # q
    <3>1. /\ UNCHANGED <<status[p], home[p], link[p], answered[p], toPeer[p]>>
          /\ \A c \in Coordinator : Queue(c, p)' = Queue(c, p)
      BY <1>11, <2>2, EndFacts
    <3>2. \A c \in Coordinator : Asked(p, c)' = Asked(p, c) BY <2>1, <3>1 DEF Asked, On
    <3>3. \A c \in Coordinator : Known(p, c)' = Known(p, c)
      BY <2>1, <3>1 DEF Known, BeingAnswered, Answers, WasAnswered, On
    <3>4. QED BY <1>3, <2>1, <3>1, <3>2, <3>3
  <2>3. CASE p = q
    <3>1. status'[p] # "on" /\ home'[p] = home[p] BY <1>11, <2>3, EndFacts
    <3>2. QED BY <1>3, <2>1, <3>1
  <2>4. QED BY <2>2, <2>3
<1>12. ASSUME NEW q \in Peer, HandleOnlineResp(q) PROVE Goal
  <2>1. PICK m \in toPeer[q] : /\ answered' = [answered EXCEPT ![q] = TRUE]
                               /\ link' = [link EXCEPT ![q] = "closed"]
                               /\ toPeer' = [toPeer EXCEPT ![q] = @ \ {m}]
                               /\ UNCHANGED <<coordVars, toCoord, status, starts, home>>
    BY <1>12 DEF HandleOnlineResp
  <2>2. CASE p = q BY <1>3, <2>1, <2>2 DEF coordVars, TypeOK
  <2>3. CASE p # q
    <3>1. UNCHANGED <<status, starts, home, toCoord, handling, running, link[p], answered[p], toPeer[p]>>
      BY <2>1, <2>3 DEF coordVars, TypeOK
    <3>2. \A c \in Coordinator : Asked(p, c)' = Asked(p, c) BY <3>1 DEF Asked, Queue, On
    <3>3. \A c \in Coordinator : Known(p, c)' = Known(p, c)
      BY <3>1 DEF Known, BeingAnswered, Answers, WasAnswered, On
    <3>4. QED BY <1>3, <3>1, <3>2, <3>3
  <2>4. QED BY <2>2, <2>3
<1>13. ASSUME NEW q \in Peer, HandleTaskRequest(q) PROVE Goal
  <2>1. /\ \A r \in Peer, c \in Coordinator : Answers(r, c)' = Answers(r, c)
        /\ UNCHANGED <<coordVars, toCoord, status, starts, home, link, answered>>
    BY <1>13, RequestAnswer
  <2>2. \A c \in Coordinator : Known(p, c)' = Known(p, c) BY <1>5, <2>1 DEF coordVars
  <2>3. QED BY <1>4, <2>1, <2>2 DEF coordVars
<1>14. ASSUME NEW q \in Peer, HandleTaskResponse(q) PROVE Goal
  <2>1. UNCHANGED <<coordVars, toCoord, status, starts, home, link, answered>> BY <1>14 DEF HandleTaskResponse
  <2>2. \A c \in Coordinator : Answers(p, c)' = Answers(p, c) BY <1>14 DEF HandleTaskResponse, Answers, TypeOK
  <2>3. \A c \in Coordinator : Known(p, c)' = Known(p, c) BY <1>5, <2>1, <2>2 DEF coordVars
  <2>4. QED BY <1>4, <2>1, <2>3 DEF coordVars
<1>15. ASSUME NEW q \in Peer, NEW r \in Peer, TaskRequest(q, r) PROVE Goal
  <2>1. /\ \A s \in Peer, c \in Coordinator : Answers(s, c)' = Answers(s, c)
        /\ UNCHANGED <<coordVars, toCoord, peerVars>>
    BY <1>15, RequestSent
  <2>2. \A c \in Coordinator : Known(p, c)' = Known(p, c) BY <1>5, <2>1 DEF coordVars, peerVars
  <2>3. QED BY <1>4, <2>1, <2>2 DEF coordVars, peerVars
<1> HIDE DEF Goal
<1>16. Goal
  BY <1>1, <1>7, <1>8, <1>9, <1>10, <1>11, <1>12, <1>13, <1>14, <1>15, <1>6
  DEF Next, CoordinatorStep, PeerStep
<1>17. QED BY <1>16 DEF Goal

\* While no coordinator dies, the last word of a peer that quit is the one that
\* counts.
LEMMA QuitStep ==
    TypeOK /\ AnswerInv /\ QuitInv /\ [Next]_vars => QuitInv'
<1> SUFFICES ASSUME TypeOK, AnswerInv, QuitInv, [Next]_vars, deaths' = 0,
                    NEW p \in Peer, NEW c \in Coordinator, status'[p] = "quit", home'[p] = c
             PROVE  IF Queue(c, p)' = <<>> THEN p \notin Users'[c]
                    ELSE Queue(c, p)'[Len(Queue(c, p)')].type = "GET_OFFLINE"
  BY DEF QuitInv
<1> DEFINE Goal == IF Queue(c, p)' = <<>> THEN p \notin Users'[c]
                   ELSE Queue(c, p)'[Len(Queue(c, p)')].type = "GET_OFFLINE"
<1>0. Queue(c, p) \in Seq(Request) BY DEF TypeOK, Queue
<1>1. ASSUME NEW d \in Coordinator, CoordinatorDies(d) PROVE FALSE
  BY <1>1 DEF CoordinatorDies, TypeOK
<1>2. deaths = 0
  <2>1. ASSUME NEW d \in Coordinator, CoordinatorStep(d) PROVE deaths = 0
    BY <1>1, <2>1 DEF CoordinatorStep, RespondOnline, CoordinatorStarts, HandlePeerOnline, HandlePeerOffline
  <2>2. ASSUME NEW q \in Peer, PeerStep(q) PROVE deaths = 0
    BY <2>2 DEF PeerStep, Start, Kill, Crash, HandleOnlineResp, HandleTaskRequest, HandleTaskResponse,
                TaskRequest, coordVars
  <2>3. QED BY <2>1, <2>2 DEF Next, Tick, vars, coordVars
<1>3. ASSUME status[p] = "quit", home[p] = c
      PROVE  IF Queue(c, p) = <<>> THEN p \notin Users[c]
             ELSE Queue(c, p)[Len(Queue(c, p))].type = "GET_OFFLINE"
  BY <1>2, <1>3 DEF QuitInv
<1>4. ASSUME status'[p] = status[p], home'[p] = home[p], Queue(c, p)' = Queue(c, p),
             p \in Users'[c] => p \in Users[c]
      PROVE  Goal
  BY <1>3, <1>4
<1>5. CASE Tick \/ UNCHANGED vars
  BY <1>4, <1>5 DEF Tick, vars, coordVars, peerVars, Queue
<1>6. ASSUME NEW d \in Coordinator, RespondOnline(d) \/ CoordinatorStarts(d) PROVE Goal
  BY <1>4, <1>6 DEF RespondOnline, CoordinatorStarts, peerVars, Queue
<1>7. ASSUME NEW d \in Coordinator, NEW q \in Peer, HandlePeerOnline(d, q) \/ HandlePeerOffline(d, q)
      PROVE  Goal
  <2>1. TakesHead(d, q) BY <1>7 DEF HandlePeerOnline, HandlePeerOffline, TakesHead, Queue, peerVars
  <2>2. status'[p] = status[p] /\ home'[p] = home[p] BY <2>1 DEF TakesHead
  <2>3. CASE c # d \/ p # q
    <3>1. Queue(c, p)' = Queue(c, p) BY <2>1, <2>3, TakenHead
    <3>2. p \in Users'[c] => p \in Users[c]
      BY <1>7, <2>3 DEF HandlePeerOnline, HandlePeerOffline, AddPeer, TypeOK
    <3> HIDE DEF Goal
    <3>3. QED BY <1>4, <2>2, <3>1, <3>2
  <2>4. CASE c = d /\ p = q
    <3>1. /\ Queue(c, p) # <<>> /\ Queue(c, p)' = Tail(Queue(c, p))
      BY <2>1, <2>4 DEF TakesHead, Queue, TypeOK
    <3>2. Queue(c, p)[Len(Queue(c, p))].type = "GET_OFFLINE" BY <1>3, <2>2, <3>1
    <3>3. CASE Queue(c, p)' # <<>>
      <4>1. Queue(c, p)'[Len(Queue(c, p)')] = Queue(c, p)[Len(Queue(c, p))] BY <1>0, <3>1, <3>3
      <4>2. QED BY <3>2, <3>3, <4>1
    <3>4. CASE Queue(c, p)' = <<>>
      <4>1. Len(Queue(c, p)) = 1 /\ Head(Queue(c, p)) = Queue(c, p)[Len(Queue(c, p))]
        <5>1. Len(Queue(c, p)') = Len(Queue(c, p)) - 1 BY <2>1, <2>4, TakenHead
        <5>2. Len(Queue(c, p)') = 0 BY <3>4
        <5>3. Len(Queue(c, p)) = 1 BY <1>0, <5>1, <5>2
        <5>4. QED BY <1>0, <3>1, <5>3
      <4>2. HandlePeerOffline(c, p) BY <1>7, <2>4, <3>2, <4>1 DEF HandlePeerOnline, Queue
      <4>3. p \notin Users'[c] BY <4>2 DEF HandlePeerOffline, TypeOK
      <4>4. QED BY <3>4, <4>3
    <3>5. QED BY <3>3, <3>4
  <2>5. QED BY <2>3, <2>4
<1>8. ASSUME NEW q \in Peer, Start(q) PROVE Goal
  <2>1. p # q BY <1>8, StartFacts
  <2>2. UNCHANGED <<status[p], home[p], Users>> /\ Queue(c, p)' = Queue(c, p)
    BY <1>8, <2>1, StartFacts DEF coordVars
  <2> HIDE DEF Goal
  <2>3. QED BY <1>4, <2>2
<1>9. ASSUME NEW q \in Peer, Kill(q) \/ Crash(q) PROVE Goal
  <2>1. UNCHANGED Users BY <1>9, EndFacts DEF coordVars
  <2>2. CASE p # q
    <3>1. UNCHANGED <<status[p], home[p]>> /\ Queue(c, p)' = Queue(c, p) BY <1>9, <2>2, EndFacts
    <3> HIDE DEF Goal
    <3>2. QED BY <1>4, <2>1, <3>1
  <2>3. CASE p = q
    <3>1. Kill(p) /\ status[p] = "on" /\ home[p] = c BY <1>9, <2>3, EndFacts
    <3>2. OfflineTo(p) = {c} BY <1>2, <3>1, NoneFacts, ToldAtEnd
    <3>3. Queue(c, p)' = Append(Queue(c, p), [type |-> "GET_OFFLINE", life |-> starts[p]]) /\ starts[p] \in Nat
      BY <3>1, <3>2, EndFacts
    <3>4. /\ Queue(c, p)' \in Seq(Request)
          /\ Len(Queue(c, p)') = Len(Queue(c, p)) + 1
          /\ Queue(c, p)'[Len(Queue(c, p)) + 1] = [type |-> "GET_OFFLINE", life |-> starts[p]]
      BY <1>0, <3>3, AppendRequest
    <3>5. Queue(c, p)' # <<>> BY <1>0, <3>4
    <3>6. QED BY <3>4, <3>5
  <2>4. QED BY <2>2, <2>3
<1>10. ASSUME NEW q \in Peer, HandleOnlineResp(q) \/ HandleTaskRequest(q) \/ HandleTaskResponse(q) PROVE Goal
  BY <1>4, <1>10 DEF HandleOnlineResp, HandleTaskRequest, HandleTaskResponse, coordVars, Queue
<1>11. ASSUME NEW q \in Peer, NEW r \in Peer, TaskRequest(q, r) PROVE Goal
  BY <1>4, <1>11 DEF TaskRequest, coordVars, peerVars, Queue
<1>12. QED
  BY <1>1, <1>5, <1>6, <1>7, <1>8, <1>9, <1>10, <1>11 DEF Next, CoordinatorStep, PeerStep

-----------------------------------------------------------------------------
\* The theorems

\* The whole invariant holds at the start.
LEMMA MemberInit == Init => MemberInv
<1> SUFFICES ASSUME Init PROVE MemberInv OBVIOUS
<1>1. TypeOK BY TypeInit
<1>2. \A p \in Peer, c \in Coordinator : Queue(c, p) = <<>> BY DEF Init, Queue
<1>3. \A p \in Peer, c \in Coordinator : ~Known(p, c) /\ Answers(p, c) = {} /\ ~WasAnswered(p, c)
  BY DEF Init, Known, BeingAnswered, Answers, WasAnswered
<1>4. QueueInv BY <1>2 DEF QueueInv
<1>5. StageInv BY <1>3 DEF Init, StageInv
<1>6. KnowInv BY DEF Init, KnowInv
<1>7. ListInv
  <2>1. \A l \in Lists : l = NoList BY DEF Init, Lists
  <2>2. \A l \in Lists : l.ts = 0 /\ l.origin \notin Coordinator BY <2>1, NoneFacts
  <2>3. 0 <= now /\ 0 <= MaxSigned /\ \A c \in Coordinator : timestamp[c] <= now /\ Users[c] = {}
    BY MembershipConstants DEF Init
  <2>4. QED BY <2>2, <2>3 DEF ListInv
<1>8. AcquaintInv BY <1>3 DEF AcquaintInv, Views
<1>9. AnswerInv /\ QuitInv BY DEF Init, AnswerInv, QuitInv
<1>10. QED BY <1>1, <1>4, <1>5, <1>6, <1>7, <1>8, <1>9 DEF MemberInv

\* Every step keeps it.
LEMMA MemberStep == MemberInv /\ [Next]_vars => MemberInv'
BY TypeStep, QueueStep, StageStep, KnowStep, ListStep, AcquaintStep, AnswerStep, QuitStep DEF MemberInv

\* The invariant holds in every behaviour.
THEOREM MembershipInvariant == Spec => []MemberInv
BY MemberInit, MemberStep, PTL DEF Spec

\* A peer that was answered is in its own list, whoever's list it has taken since.
THEOREM PeersKnowThemselves == Spec => []KnowsItself
<1>1. MemberInv => KnowsItself BY DEF MemberInv, KnowInv, KnowsItself
<1>2. QED BY <1>1, MembershipInvariant, PTL

\* A peer that was answered stays in its coordinator's table while it runs,
\* whatever dies and is started again.
THEOREM RegistrationSurvives == Spec => []RegisteredSurvives
<1>1. MemberInv => RegisteredSurvives
  <2> SUFFICES ASSUME MemberInv, NEW p \in Peer, status[p] = "on", answered[p] PROVE p \in Users[home[p]]
    BY DEF RegisteredSurvives
  <2>1. home[p] \in Coordinator BY DEF MemberInv, StageInv
  <2>2. Known(p, home[p]) BY DEF Known, WasAnswered
  <2>3. QED BY <2>1, <2>2 DEF MemberInv, StageInv
<1>2. QED BY <1>1, MembershipInvariant, PTL

\* Until the clock wraps, a list later than a peer's row has that peer, through
\* whomever it came.
THEOREM LaterListsHaveAll == Spec => []LaterListsKnow
<1>1. MemberInv => LaterListsKnow
  <2> SUFFICES ASSUME MemberInv, now < TickMod, NEW p \in Peer, NEW q \in Peer, NEW c \in Coordinator,
                      list[q].origin = c, p \in Users[c], since[c][p] < list[q].ts
               PROVE  p \in list[q].peers
    BY DEF LaterListsKnow
  <2>1. list[q] \in Lists BY DEF Lists
  <2>2. QED BY <2>1 DEF MemberInv, ListInv
<1>2. QED BY <1>1, MembershipInvariant, PTL

\* Until the clock wraps, of two peers answered by one coordinator one knows the
\* other.
THEOREM AnsweredMeet == Spec => []Acquainted
<1>1. MemberInv => Acquainted
  <2> SUFFICES ASSUME MemberInv, now < TickMod, NEW p \in Peer, NEW q \in Peer, NEW c \in Coordinator,
                      \A r \in {p, q} : status[r] = "on" /\ answered[r] /\ home[r] = c /\ list[r].origin = c
               PROVE  p \in list[q].peers \/ q \in list[p].peers
    BY DEF Acquainted
  <2>1. CASE p = q BY <2>1 DEF MemberInv, KnowInv
  <2>2. CASE p # q
    <3>1. list[p] \in Views(p, c) /\ list[q] \in Views(q, c) BY DEF Views, WasAnswered
    <3>2. Sees(list[p], q, c) \/ Sees(list[q], p, c) BY <2>2, <3>1 DEF MemberInv, AcquaintInv
    <3>3. QED BY <3>2 DEF Sees
  <2>3. QED BY <2>1, <2>2
<1>2. QED BY <1>1, MembershipInvariant, PTL

\* While no coordinator dies, once nothing is on its way every running peer that
\* found a coordinator has been answered.
THEOREM RequestsAreAnswered == Spec => []EveryoneAnswered
<1>1. MemberInv => EveryoneAnswered
  <2> SUFFICES ASSUME MemberInv, Settled, deaths = 0, NEW p \in Peer, status[p] = "on", home[p] # None
               PROVE  answered[p]
    BY DEF EveryoneAnswered
  <2>1. home[p] \in Coordinator BY DEF MemberInv, TypeOK
  <2>2. answered[p] \/ Asked(p, home[p]) \/ Known(p, home[p]) BY DEF MemberInv, AnswerInv
  <2>3. ~Asked(p, home[p])
    <3>1. Queue(home[p], p) = <<>> BY <2>1 DEF Settled, Queue
    <3>2. QED BY <3>1 DEF Asked
  <2>4. Known(p, home[p]) => answered[p]
    BY <2>1 DEF Settled, Known, BeingAnswered, Answers, WasAnswered
  <2>5. QED BY <2>2, <2>3, <2>4
<1>2. QED BY <1>1, MembershipInvariant, PTL

\* While no coordinator dies, once nothing is on its way no peer that ended by
\* Kill is left in its coordinator's table.
THEOREM QuitIsRemembered == Spec => []QuitMeansRemoved
<1>1. MemberInv => QuitMeansRemoved
  <2> SUFFICES ASSUME MemberInv, Settled, deaths = 0, NEW p \in Peer, status[p] = "quit", home[p] # None
               PROVE  p \notin Users[home[p]]
    BY DEF QuitMeansRemoved
  <2>1. home[p] \in Coordinator BY DEF MemberInv, TypeOK
  <2>2. Queue(home[p], p) = <<>> BY <2>1 DEF Settled, Queue
  <2>3. QED BY <2>1, <2>2 DEF MemberInv, QuitInv
<1>2. QED BY <1>1, MembershipInvariant, PTL
=============================================================================
