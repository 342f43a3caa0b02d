----------------------------- MODULE Membership -----------------------------
(***************************************************************************)
(* Who knows whom.  The coordinator keeps the peers in a table on disk     *)
(* (Coordinator.cpp and Database.cpp of Coordinator/src) and answers a     *)
(* peer that comes online with all of them and the time of the table's     *)
(* last change.  A peer keeps the list in memory (Peer.cpp, Database.h and *)
(* PeerNode.cpp of MapReduce/src), and peers pass lists on to each other   *)
(* with every answer to a TASK_REQUEST.                                    *)
(*                                                                         *)
(* One action is one handler of the coordinator's thread or of a Peer      *)
(* thread; the coordinator's answer is a step of its own, so that it may   *)
(* die between the change of the table and the answer.  Processes die and  *)
(* are started again, in any order.                                        *)
(***************************************************************************)
EXTENDS Naturals, Sequences, SequencesExt, Functions

CONSTANTS
    Peer,          \* the peers, by the id in their config.xml
    Coordinators,  \* what config.xml names: the coordinator, then its backups
    TickMod,       \* GetTickCount wraps to 0 here
    MaxSigned,     \* the largest value atoi returns: it reads larger ones as this
    MaxNow,        \* bound: ticks of the clock
    MaxStarts,     \* bound: starts of peer processes, in all
    MaxDeaths      \* bound: deaths of coordinator processes

ASSUME MembershipConstants ==
    /\ TickMod \in Nat \ {0, 1}
    /\ MaxSigned \in 1 .. TickMod
    /\ MaxNow \in Nat \ {0}
    /\ MaxStarts \in Nat
    /\ MaxDeaths \in Nat
    /\ Coordinators \in Seq(ToSet(Coordinators))

Coordinator == ToSet(Coordinators)

CONSTANT None
ASSUME NoneAssumption ==
    None \notin Peer /\ None \notin Coordinator /\ None \notin [peer : Peer, life : Nat]

VARIABLES
    now,        \* ticks since the clock's last zero, not wrapped
    \* the coordinators
    running,    \* coordinators whose process runs
    Users,      \* per coordinator, the ids in its table
    timestamp,  \* per coordinator, the one row of its timestamp table
    since,      \* history: per coordinator and peer, when its row was inserted
    handling,   \* per coordinator, the online request its thread is answering
    deaths,     \* how many times one died
    toCoord,    \* per coordinator and peer, its requests that are not handled
    \* the peers
    status,     \* "on", "off" (never started, or crashed) or "quit" (by Kill)
    starts,     \* how many times the process was started
    list,       \* Database::m_peerList, and the coordinator it comes from
    home,       \* the coordinator m_pCoordinatorNode has connected to; kept as
                \* history by a peer that quit
    link,       \* what m_pCoordinatorNode and its socket are good for
    answered,   \* whether HandleOnlineResp has run
    toPeer      \* messages on their way to the peer's thread

coordVars == <<running, Users, timestamp, since, handling, deaths>>
peerVars  == <<status, starts, list, home, link, answered>>
vars == <<now, coordVars, toCoord, peerVars, toPeer>>

-----------------------------------------------------------------------------

\* A peer list with its timestamp; origin is history.
PeerList == [peers : SUBSET Peer, ts : Nat, origin : Coordinator \union {None}]

NoList == [peers |-> {}, ts |-> 0, origin |-> None]

\* "none": m_pConn is NULL.  "up": connected.  "closed": m_bConnected is false,
\* because HandleOnlineResp has disconnected or the listener saw an error.
\* "eof": the coordinator closed the socket in order, which is not reported, so
\* that m_bConnected is still true.
Link == {"none", "up", "closed", "eof"}

Request == [type : {"GET_ONLINE", "GET_OFFLINE"}, life : Nat]

PeerMessage ==
    [type : {"GET_ONLINE_RESP"}, from : Coordinator, life : Nat, list : PeerList]
        \union [type : {"TASK_REQUEST", "TASK_REQUEST_RESP"}, from : Peer, life : Nat, list : PeerList]

\* Fault: the count does not wrap.
GetTickCount_Unbounded == now

GetTickCount == now % TickMod

\* A timestamp written by lexical_cast and read by atoi.
Received(ts) == IF ts > MaxSigned THEN MaxSigned ELSE ts

\* ConnectionManager::Connect to the configured coordinator, then ConnectBackups:
\* the first one that runs, if any does.
Reachable == {c \in running : \E i \in DOMAIN Coordinators :
                  /\ Coordinators[i] = c
                  /\ \A j \in 1 .. i - 1 : Coordinators[j] \notin running}

On(p, life) == status[p] = "on" /\ starts[p] = life

-----------------------------------------------------------------------------
\* The coordinator

\* Fault: the row of whoever came before is overwritten.
AddPeer_Replaces(c, p) ==
    /\ Users' = [Users EXCEPT ![c] = {p}]
    /\ since' = [since EXCEPT ![c][p] = GetTickCount]
    /\ timestamp' = [timestamp EXCEPT ![c] = GetTickCount]

\* Database::AddPeer with its UpdateTimestamp: a row that is there stays there.
AddPeer(c, p) ==
    /\ Users' = [Users EXCEPT ![c] = @ \union {p}]
    /\ since' = [since EXCEPT ![c][p] = IF p \in Users[c] THEN @ ELSE GetTickCount]
    /\ timestamp' = [timestamp EXCEPT ![c] = GetTickCount]

\* Fault: a peer that is in the table already is not answered.
HandlePeerOnline_OnlyNew(c, p) ==
    /\ c \in running
    /\ handling[c] = None
    /\ toCoord[c][p] # <<>>
    /\ Head(toCoord[c][p]).type = "GET_ONLINE"
    /\ AddPeer(c, p)
    /\ handling' = IF p \in Users[c] THEN handling
                   ELSE [handling EXCEPT ![c] = [peer |-> p, life |-> Head(toCoord[c][p]).life]]
    /\ toCoord' = [toCoord EXCEPT ![c][p] = Tail(@)]
    /\ UNCHANGED <<now, running, deaths, peerVars, toPeer>>

\* Coordinator::HandlePeerOnline, up to the answer.
HandlePeerOnline(c, p) ==
    /\ c \in running
    /\ handling[c] = None
    /\ toCoord[c][p] # <<>>
    /\ Head(toCoord[c][p]).type = "GET_ONLINE"
    /\ AddPeer(c, p)
    /\ handling' = [handling EXCEPT ![c] = [peer |-> p, life |-> Head(toCoord[c][p]).life]]
    /\ toCoord' = [toCoord EXCEPT ![c][p] = Tail(@)]
    /\ UNCHANGED <<now, running, deaths, peerVars, toPeer>>

\* HandlePeerOnline: GetPeerList and RespondOnline.  The answer is lost if the
\* connection the request came over is gone.
RespondOnline(c) ==
    /\ handling[c] # None
    /\ LET p == handling[c].peer
           m == [type |-> "GET_ONLINE_RESP", from |-> c, life |-> handling[c].life,
                 list |-> [peers |-> Users[c], ts |-> Received(timestamp[c]), origin |-> c]]
       IN  toPeer' = IF On(p, handling[c].life) /\ link[p] = "up"
                     THEN [toPeer EXCEPT ![p] = @ \union {m}]
                     ELSE toPeer
    /\ handling' = [handling EXCEPT ![c] = None]
    /\ UNCHANGED <<now, running, Users, timestamp, since, deaths, toCoord, peerVars>>

\* Coordinator::HandlePeerOffline
HandlePeerOffline(c, p) ==
    /\ c \in running
    /\ handling[c] = None
    /\ toCoord[c][p] # <<>>
    /\ Head(toCoord[c][p]).type = "GET_OFFLINE"
    /\ Users' = [Users EXCEPT ![c] = @ \ {p}]
    /\ timestamp' = [timestamp EXCEPT ![c] = GetTickCount]
    /\ since' = [since EXCEPT ![c][p] = 0]
    /\ toCoord' = [toCoord EXCEPT ![c][p] = Tail(@)]
    /\ UNCHANGED <<now, running, handling, deaths, peerVars, toPeer>>

\* Fault: the process begins with empty tables.
CoordinatorStarts_Afresh(c) ==
    /\ c \notin running
    /\ running' = running \union {c}
    /\ Users' = [Users EXCEPT ![c] = {}]
    /\ timestamp' = [timestamp EXCEPT ![c] = GetTickCount]
    /\ UNCHANGED <<now, since, handling, deaths, toCoord, peerVars, toPeer>>

\* Database::Init: the tables are as they were left, except for InsertTimestamp,
\* whose insert fails on the row that is there when that row says 0.
CoordinatorStarts(c) ==
    /\ c \notin running
    /\ running' = running \union {c}
    /\ timestamp' = [timestamp EXCEPT ![c] = IF @ = 0 THEN @ ELSE GetTickCount]
    /\ UNCHANGED <<now, Users, since, handling, deaths, toCoord, peerVars, toPeer>>

\* The process dies.  Of the peers connected to it, those in S see an error and
\* lose an answer they have not received; the others see the connection closed.
CoordinatorDies(c) ==
    /\ c \in running
    /\ deaths < MaxDeaths
    /\ deaths' = deaths + 1
    /\ running' = running \ {c}
    /\ handling' = [handling EXCEPT ![c] = None]
    /\ toCoord' = [toCoord EXCEPT ![c] = [p \in Peer |-> <<>>]]
    /\ LET connected == {p \in Peer : home[p] = c /\ link[p] = "up"}
       IN  \E S \in SUBSET connected :
               /\ link' = [p \in Peer |-> IF p \in S THEN "closed"
                                          ELSE IF p \in connected THEN "eof" ELSE link[p]]
               /\ toPeer' = [p \in Peer |-> IF p \in S
                                            THEN {m \in toPeer[p] : m.type # "GET_ONLINE_RESP"}
                                            ELSE toPeer[p]]
    /\ UNCHANGED <<now, Users, timestamp, since, status, starts, list, home, answered>>

-----------------------------------------------------------------------------
\* The peers

\* Peer::Start.  If no coordinator answers, ConnectToCoordinator sets a timer
\* that TimerMessage::CreateTimer destroys: nothing will connect again.
Start(p) ==
    /\ status[p] # "on"
    /\ FoldFunction(+, 0, starts) < MaxStarts
    /\ status' = [status EXCEPT ![p] = "on"]
    /\ starts' = [starts EXCEPT ![p] = @ + 1]
    /\ \/ \E c \in Reachable :
              /\ home' = [home EXCEPT ![p] = c]
              /\ link' = [link EXCEPT ![p] = "up"]
              /\ toCoord' = [toCoord EXCEPT ![c][p] =
                     Append(@, [type |-> "GET_ONLINE", life |-> starts'[p]])]
       \/ /\ Reachable = {}
          /\ home' = [home EXCEPT ![p] = None]
          /\ UNCHANGED <<link, toCoord>>
    /\ UNCHANGED <<now, coordVars, list, answered, toPeer>>

\* HandleResponses with a GET_ONLINE_RESP.  HandlePeerList comes first, but
\* HandleOnlineResp then takes the list whatever its timestamp, and disconnects.
HandleOnlineResp(p) ==
    \E m \in toPeer[p] :
        /\ m.type = "GET_ONLINE_RESP"
        /\ list' = [list EXCEPT ![p] = m.list]
        /\ answered' = [answered EXCEPT ![p] = TRUE]
        /\ link' = [link EXCEPT ![p] = "closed"]
        /\ toPeer' = [toPeer EXCEPT ![p] = @ \ {m}]
        /\ UNCHANGED <<now, coordVars, toCoord, status, starts, home>>

\* A task of p asks q.  Bound: one exchange of the two peers at a time.
TaskRequest(p, q) ==
    /\ status[p] = "on"
    /\ q \in list[p].peers \ {p}
    /\ status[q] = "on"
    /\ \A m \in toPeer[q] : ~(m.type = "TASK_REQUEST" /\ m.from = p)
    /\ \A m \in toPeer[p] : ~(m.type = "TASK_REQUEST_RESP" /\ m.from = q)
    /\ toPeer' = [toPeer EXCEPT ![q] =
           @ \union {[type |-> "TASK_REQUEST", from |-> p, life |-> starts[p], list |-> NoList]}]
    /\ UNCHANGED <<now, coordVars, toCoord, peerVars>>

\* Fault: the requester is not added.
WithPeer_Not(mine, p) == mine

\* Database::AddPeer of the peer: the list grows, its timestamp stays.
WithPeer(mine, p) == [mine EXCEPT !.peers = @ \union {p}]

\* Peer::HandleTaskRequest and TaskResponse: the answer carries the whole list.
HandleTaskRequest(q) ==
    \E m \in toPeer[q] :
        /\ m.type = "TASK_REQUEST"
        /\ list' = [list EXCEPT ![q] = WithPeer(@, m.from)]
        /\ LET resp == [type |-> "TASK_REQUEST_RESP", from |-> q, life |-> m.life,
                        list |-> list'[q]]
           IN  toPeer' = [toPeer EXCEPT ![q] = @ \ {m},
                              ![m.from] = IF On(m.from, m.life) THEN @ \union {resp} ELSE @]
        /\ UNCHANGED <<now, coordVars, toCoord, status, starts, home, link, answered>>

\* Fault: the new timestamp is stored, the new list is not.
Newer_StampOnly(mine, theirs) ==
    IF mine.ts < theirs.ts THEN [theirs EXCEPT !.peers = mine.peers] ELSE mine

\* Peer::HandlePeerList
Newer(mine, theirs) ==
    IF theirs.peers # {} /\ theirs.ts > 0 /\ mine.ts < theirs.ts THEN theirs ELSE mine

\* HandleResponses with a TASK_REQUEST_RESP: HandlePeerList, before the task sees it.
HandleTaskResponse(p) ==
    \E m \in toPeer[p] :
        /\ m.type = "TASK_REQUEST_RESP"
        /\ list' = [list EXCEPT ![p] = Newer(@, m.list)]
        /\ toPeer' = [toPeer EXCEPT ![p] = @ \ {m}]
        /\ UNCHANGED <<now, coordVars, toCoord, status, starts, home, link, answered>>

\* Fault: a node that has disconnected does not connect again.
OfflineTo_NoReconnect(p) ==
    IF link[p] = "up" THEN {home[p]} ELSE IF link[p] = "none" THEN Reachable ELSE {}

\* Whom SendOfflineMessage reaches: the coordinator it is connected to, or the
\* same one over the old Connection, whose failure to connect is ignored; the
\* backups only if there has been no Connection.
OfflineTo(p) ==
    IF link[p] = "up" \/ (link[p] = "closed" /\ home[p] \in running) THEN {home[p]}
    ELSE IF link[p] = "none" THEN Reachable ELSE {}

\* Whatever the process had in memory, and what was on its way to it, is gone.
Ends(p, how) ==
    /\ status' = [status EXCEPT ![p] = how]
    /\ list' = [list EXCEPT ![p] = NoList]
    /\ link' = [link EXCEPT ![p] = "none"]
    /\ answered' = [answered EXCEPT ![p] = FALSE]
    /\ toPeer' = [toPeer EXCEPT ![p] = {}]

\* Peer::Kill and the end of the process.  Kill sleeps a second, in which the
\* coordinator receives the message: it is queued before a later start's.
Kill(p) ==
    /\ status[p] = "on"
    /\ Ends(p, "quit")
    /\ LET m == [type |-> "GET_OFFLINE", life |-> starts[p]]
       IN  toCoord' = [c \in Coordinator |-> IF c \in OfflineTo(p)
                                             THEN [toCoord[c] EXCEPT ![p] = Append(@, m)]
                                             ELSE toCoord[c]]
    /\ UNCHANGED <<now, coordVars, starts, home>>

\* The peer's process dies.
Crash(p) ==
    /\ status[p] = "on"
    /\ Ends(p, "off")
    /\ home' = [home EXCEPT ![p] = None]
    /\ UNCHANGED <<now, coordVars, toCoord, starts>>

Tick ==
    /\ now < MaxNow
    /\ now' = now + 1
    /\ UNCHANGED <<coordVars, toCoord, peerVars, toPeer>>

-----------------------------------------------------------------------------

\* Nothing runs yet; the tables are the ones the repository ships, empty.
Init ==
    /\ now = 1
    /\ running = {}
    /\ Users = [c \in Coordinator |-> {}]
    /\ timestamp = [c \in Coordinator |-> 1]
    /\ since = [c \in Coordinator |-> [p \in Peer |-> 0]]
    /\ handling = [c \in Coordinator |-> None]
    /\ deaths = 0
    /\ toCoord = [c \in Coordinator |-> [p \in Peer |-> <<>>]]
    /\ status = [p \in Peer |-> "off"]
    /\ starts = [p \in Peer |-> 0]
    /\ list = [p \in Peer |-> NoList]
    /\ home = [p \in Peer |-> None]
    /\ link = [p \in Peer |-> "none"]
    /\ answered = [p \in Peer |-> FALSE]
    /\ toPeer = [p \in Peer |-> {}]

CoordinatorStep(c) ==
    \/ RespondOnline(c) \/ CoordinatorStarts(c) \/ CoordinatorDies(c)
    \/ \E p \in Peer : HandlePeerOnline(c, p) \/ HandlePeerOffline(c, p)

PeerStep(p) ==
    \/ Start(p) \/ Kill(p) \/ Crash(p)
    \/ HandleOnlineResp(p) \/ HandleTaskRequest(p) \/ HandleTaskResponse(p)
    \/ \E q \in Peer : TaskRequest(p, q)

Next ==
    \/ Tick
    \/ \E c \in Coordinator : CoordinatorStep(c)
    \/ \E p \in Peer : PeerStep(p)

Spec == Init /\ [][Next]_vars

-----------------------------------------------------------------------------
\* Properties

\* The variables range over what the code can put in them.
TypeOK ==
    /\ now \in Nat
    /\ running \subseteq Coordinator
    /\ Users \in [Coordinator -> SUBSET Peer]
    /\ timestamp \in [Coordinator -> 0 .. TickMod - 1]
    /\ since \in [Coordinator -> [Peer -> 0 .. TickMod - 1]]
    /\ handling \in [Coordinator -> [peer : Peer, life : Nat] \union {None}]
    /\ deaths \in Nat
    /\ toCoord \in [Coordinator -> [Peer -> Seq(Request)]]
    /\ status \in [Peer -> {"on", "off", "quit"}]
    /\ starts \in [Peer -> Nat]
    /\ list \in [Peer -> PeerList]
    /\ home \in [Peer -> Coordinator \union {None}]
    /\ link \in [Peer -> Link]
    /\ answered \in [Peer -> BOOLEAN]
    /\ toPeer \in [Peer -> SUBSET PeerMessage]

\* A peer that was answered is in its own list, whoever's list it has taken
\* since: Task::AskPeers counts on it (peerList.size() - 1 peers to try).
KnowsItself == \A p \in Peer : status[p] = "on" /\ answered[p] => p \in list[p].peers

\* A peer that was answered stays in the table of the coordinator it went online
\* with for as long as it runs, whatever dies and is started again.
RegisteredSurvives ==
    \A p \in Peer : status[p] = "on" /\ answered[p] => p \in Users[home[p]]

\* Until the clock wraps, a list whose timestamp is later than a peer's row has
\* that peer, wherever the list was read and through whomever it came.
LaterListsKnow ==
    now < TickMod =>
        \A p, q \in Peer : \A c \in Coordinator :
            /\ status[q] = "on" /\ list[q].origin = c
            /\ p \in Users[c] /\ since[c][p] < list[q].ts
            => p \in list[q].peers

\* Until the clock wraps, of two peers answered by one coordinator and holding
\* its lists one knows the other, so that one of them can ask the other.
Acquainted ==
    now < TickMod =>
        \A p, q \in Peer : \A c \in Coordinator :
            (\A r \in {p, q} : status[r] = "on" /\ answered[r] /\ home[r] = c /\ list[r].origin = c)
            => p \in list[q].peers \/ q \in list[p].peers

\* No request is on its way or being answered, and no answer either.
Settled ==
    /\ \A p \in Peer : toPeer[p] = {} /\ \A c \in Coordinator : toCoord[c][p] = <<>>
    /\ \A c \in Coordinator : handling[c] = None

\* While no coordinator dies, a peer that found one is answered: no order of
\* requests, crashes and restarts of other peers, or of its own, swallows it.
EveryoneAnswered ==
    Settled /\ deaths = 0 =>
        \A p \in Peer : status[p] = "on" /\ home[p] # None => answered[p]

\* "New PeerList received is Stale, Ignoring it!!": a running peer's list is
\* never replaced by an older one.
ListsNeverGoBack ==
    [][\A p \in Peer : status[p] = "on" /\ status'[p] = "on" => list'[p].ts >= list[p].ts]_vars

\* Once nothing is on its way, a peer that ended by Kill is no longer in the
\* table of the coordinator it was online with, whatever came between its
\* requests, unless a coordinator has died.
QuitMeansRemoved ==
    Settled /\ deaths = 0 =>
        \A p \in Peer : status[p] = "quit" /\ home[p] # None => p \notin Users[home[p]]

=============================================================================
