----------------------------- MODULE Connection -----------------------------
(***************************************************************************)
(* One PeerNode with its Connection (MapReduce/src/PeerNode.cpp and        *)
(* Connection.cpp): the threads that send over it, the listener threads    *)
(* that Start makes, one per call, and the sockets, whose streams know no  *)
(* messages: a recv returns any pieces at their front, and what it returns *)
(* is taken for one message.                                               *)
(*                                                                         *)
(* A socket is named by the order of its making, a listener too.  What is  *)
(* sent is left out: it changes nothing on this side.                      *)
(***************************************************************************)
EXTENDS Naturals, Sequences, SequencesExt, Functions, FiniteSets

CONSTANTS
    User,         \* the threads that use the node
    Sent,         \* what the other side sends over a connection: root elements
    Parts,        \* pieces of a message that the stream may part
    BufLen,       \* DEFAULT_MSG_BUFLEN, in pieces
    MaxSent,      \* bound: messages sent to the node, over all sockets
    MaxSockets,   \* bound: sockets
    MaxListeners  \* bound: listener threads

ASSUME ConnectionConstants ==
    /\ Sent \in Seq({"Request", "Response"})
    /\ Parts \in Nat \ {0}
    /\ BufLen \in Nat \ {0}
    /\ MaxSent \in Nat
    /\ MaxSockets \in Nat \ {0}
    /\ MaxListeners \in Nat \ {0}

CONSTANT None
ASSUME NoneIsNoUser == None \notin User

Socket == 1 .. MaxSockets
Listener == 1 .. MaxListeners
Piece == [sock : Socket, msg : DOMAIN Sent, part : 1 .. Parts]

VARIABLES
    \* PeerNode
    m_bConnected,
    m_pConn,       \* whether there is a Connection
    m_mutex,       \* who is inside Connect
    user,          \* per thread, where it is
    \* Connection
    m_connSocket,  \* 0 before the first socket
    m_bStop,
    m_recvbuf,     \* one buffer, whoever listens
    listener,      \* per thread, where it is and the socket it reads
    \* the sockets
    socket,        \* what became of them
    stream,        \* pieces that were sent and not received
    sent,          \* how many messages were sent
    \* histories
    handed,        \* per socket, what ReceiveMessage put into the peer's queue
    alone,         \* per socket, the messages a recv returned whole and alone
    overlap,       \* whether a listener was started while another one was at work
    broke          \* sockets whose failure was put into the peer's queue

nodeVars == <<m_bConnected, m_pConn, m_mutex, user>>
connVars == <<m_connSocket, m_bStop, m_recvbuf, listener>>
sockVars == <<socket, stream, sent>>
history  == <<handed, alone, overlap, broke>>
vars == <<nodeVars, connVars, sockVars, history>>

-----------------------------------------------------------------------------

\* "eof": the other side closed the socket in order.  "reset": it broke.
\* "closed": closed on this side.
SocketState == {"none", "open", "eof", "reset", "closed"}

NewSocket == Min({s \in Socket : socket[s] = "none"})
NewListener == Min({l \in Listener : listener[l].pc = "none"})
SocketsLeft == \E s \in Socket : socket[s] = "none"
ListenersLeft == \E l \in Listener : listener[l].pc = "none"

Listening == {l \in Listener : listener[l].pc \in {"check", "recv", "process"}}

Messages(chunk) == {p.msg : p \in ToSet(chunk)}

\* The documents a string of pieces consists of, if it consists of documents.
WellFormed(chunk) == /\ chunk[1].part = 1
                     /\ chunk[Len(chunk)].part = Parts

\* Fault: the message that could not be parsed is handed on.
ParseMessage_Null(chunk) ==
    IF WellFormed(chunk) THEN {Min(Messages(chunk))} ELSE {0}

\* Fault: a document without a request is taken for an error.
ParseMessage_RequestsOnly(chunk) ==
    IF ~WellFormed(chunk) THEN {}
    ELSE LET requests == {m \in Messages(chunk) : Sent[m] = "Request"}
         IN  IF requests = {} THEN {} ELSE {Min(requests)}

\* Message::ParseMessage: nothing of a string that is no XML; else the first
\* request, or the first response if there is none.
ParseMessage(chunk) ==
    IF ~WellFormed(chunk) THEN {}
    ELSE LET requests == {m \in Messages(chunk) : Sent[m] = "Request"}
         IN  {Min(IF requests # {} THEN requests ELSE Messages(chunk))}

-----------------------------------------------------------------------------
\* PeerNode::SendMessage, Connect and DisConnect

\* Fault: Connect does not look again.
Connects_Unchecked(u) == user[u] = "idle" /\ m_mutex = None

\* SendMessage on an unconnected node calls Connect, which looks again under the
\* lock; a thread that then finds the node connected has changed nothing.
Connects(u) ==
    /\ user[u] = "idle"
    /\ ~m_bConnected
    /\ m_mutex = None

\* A socket is connected, of a new Connection or of the old one.
Connect(u) ==
    /\ Connects(u)
    /\ SocketsLeft /\ ListenersLeft
    /\ m_mutex' = u
    /\ m_pConn' = TRUE
    /\ socket' = [socket EXCEPT ![NewSocket] = "open"]
    /\ m_connSocket' = NewSocket
    /\ user' = [user EXCEPT ![u] = "start"]
    /\ UNCHANGED <<m_bConnected, m_bStop, m_recvbuf, listener, stream, sent, history>>

\* Nobody listens there.  The failure of an old Connection to connect again is
\* ignored, and its old socket stays; without one SendMessage fails.
ConnectFails(u) ==
    /\ Connects(u)
    /\ m_pConn
    /\ ListenersLeft
    /\ m_mutex' = u
    /\ user' = [user EXCEPT ![u] = "start"]
    /\ UNCHANGED <<m_bConnected, m_pConn, connVars, sockVars, history>>

\* Fault: the stop flag of the last DisConnect stays.
Start_Stopped(u) ==
    /\ user[u] = "start"
    /\ listener' = [listener EXCEPT ![NewListener].pc = "check"]
    /\ overlap' = (overlap \/ Listening # {})
    /\ user' = [user EXCEPT ![u] = "mark"]
    /\ UNCHANGED <<m_bConnected, m_pConn, m_mutex, m_connSocket, m_bStop, m_recvbuf, sockVars,
                   handed, alone, broke>>

\* Connection::Start
Start(u) ==
    /\ user[u] = "start"
    /\ m_bStop' = FALSE
    /\ listener' = [listener EXCEPT ![NewListener].pc = "check"]
    /\ overlap' = (overlap \/ Listening # {})
    /\ user' = [user EXCEPT ![u] = "mark"]
    /\ UNCHANGED <<m_bConnected, m_pConn, m_mutex, m_connSocket, m_recvbuf, sockVars, handed,
                   alone, broke>>

\* The last lines of Connect: m_bConnected is set after the listener was started.
MarkConnected(u) ==
    /\ user[u] = "mark"
    /\ m_bConnected' = TRUE
    /\ m_mutex' = None
    /\ user' = [user EXCEPT ![u] = "idle"]
    /\ UNCHANGED <<m_pConn, connVars, sockVars, history>>

\* PeerNode::HandleConnect: the node is made for a connection that was accepted.
HandleConnect ==
    /\ ~m_pConn
    /\ \A u \in User : user[u] = "idle"
    /\ m_pConn' = TRUE
    /\ m_bConnected' = TRUE
    /\ socket' = [socket EXCEPT ![NewSocket] = "open"]
    /\ m_connSocket' = NewSocket
    /\ m_bStop' = FALSE
    /\ listener' = [listener EXCEPT ![NewListener].pc = "check"]
    /\ UNCHANGED <<m_mutex, user, m_recvbuf, stream, sent, history>>

\* PeerNode::DisConnect takes no lock, and first makes the node unconnected.
DisConnect(u) ==
    /\ user[u] = "idle"
    /\ m_bConnected
    /\ m_bConnected' = FALSE
    /\ user' = [user EXCEPT ![u] = "close"]
    /\ UNCHANGED <<m_pConn, m_mutex, connVars, sockVars, history>>

\* Connection::DisConnect, of whatever the socket is by now.
CloseSocket(u) ==
    /\ user[u] = "close"
    /\ m_bStop' = TRUE
    /\ socket' = [socket EXCEPT ![m_connSocket] = "closed"]
    /\ stream' = [stream EXCEPT ![m_connSocket] = <<>>]
    /\ user' = [user EXCEPT ![u] = "idle"]
    /\ UNCHANGED <<m_bConnected, m_pConn, m_mutex, m_connSocket, m_recvbuf, listener, sent,
                   history>>

-----------------------------------------------------------------------------
\* Connection::MsgListener

\* while(!m_bStop), and the call of recv with the socket of this moment.
CheckStop(l) ==
    /\ listener[l].pc = "check"
    /\ listener' = [listener EXCEPT ![l] =
           IF m_bStop THEN [pc |-> "ended", sock |-> 0] ELSE [pc |-> "recv", sock |-> m_connSocket]]
    /\ UNCHANGED <<nodeVars, m_connSocket, m_bStop, m_recvbuf, sockVars, history>>

\* Fault: what was returned is still there.
Take_Peeks(s, k) == m_recvbuf' = SubSeq(stream[s], 1, k) /\ UNCHANGED stream

Take(s, k) ==
    /\ m_recvbuf' = SubSeq(stream[s], 1, k)
    /\ stream' = [stream EXCEPT ![s] = SubSeq(@, k + 1, Len(@))]

\* recv returns some of what has come.
Recv(l) ==
    /\ listener[l].pc = "recv"
    /\ LET s == listener[l].sock
       IN  /\ socket[s] \in {"open", "eof"}
           /\ \E k \in 1 .. Len(stream[s]) : k <= BufLen /\ Take(s, k)
           /\ alone' = IF WellFormed(m_recvbuf') /\ Len(m_recvbuf') = Parts
                       THEN [alone EXCEPT ![s] = @ \union Messages(m_recvbuf')]
                       ELSE alone
    /\ listener' = [listener EXCEPT ![l].pc = "process"]
    /\ UNCHANGED <<nodeVars, m_connSocket, m_bStop, socket, sent, handed, overlap, broke>>

\* recv returns 0.  So it may on a socket this side has just shut down.
RecvEof(l) ==
    /\ listener[l].pc = "recv"
    /\ \/ socket[listener[l].sock] = "closed"
       \/ socket[listener[l].sock] = "eof" /\ stream[listener[l].sock] = <<>>
    /\ listener' = [listener EXCEPT ![l] = [pc |-> "ended", sock |-> 0]]
    /\ UNCHANGED <<nodeVars, m_connSocket, m_bStop, m_recvbuf, sockVars, history>>

\* Fault: the failure is not reported.
HandleConnectionBroken_Silent(l) == m_bConnected' = FALSE /\ UNCHANGED broke

\* PeerNode::HandleConnectionBroken, whichever socket l was reading.
HandleConnectionBroken(l) ==
    /\ m_bConnected' = FALSE
    /\ broke' = broke \union {listener[l].sock}

\* recv fails, on a socket that broke or that this side has closed.
RecvError(l) ==
    /\ listener[l].pc = "recv"
    /\ socket[listener[l].sock] \in {"reset", "closed"}
    /\ HandleConnectionBroken(l)
    /\ listener' = [listener EXCEPT ![l] = [pc |-> "ended", sock |-> 0]]
    /\ UNCHANGED <<m_pConn, m_mutex, user, m_connSocket, m_bStop, m_recvbuf, sockVars, handed,
                   alone, overlap>>

\* Connection::ProcessMessages and PeerNode::ReceiveMessage, of what is in the
\* buffer by now.  What nobody will read again is forgotten.
ProcessMessages(l) ==
    /\ listener[l].pc = "process"
    /\ LET s == m_recvbuf[1].sock
       IN  handed' = [handed EXCEPT ![s] = @ \o SetToSeq(ParseMessage(m_recvbuf))]
    /\ m_recvbuf' = IF \E k \in Listener \ {l} : listener[k].pc = "process" THEN m_recvbuf
                                                                            ELSE <<>>
    /\ listener' = [listener EXCEPT ![l] = [pc |-> "check", sock |-> 0]]
    /\ UNCHANGED <<nodeVars, m_connSocket, m_bStop, sockVars, alone, overlap, broke>>

-----------------------------------------------------------------------------
\* The other side and the network

PeerSends(s) ==
    /\ socket[s] = "open"
    /\ sent[s] < Len(Sent) /\ FoldFunction(+, 0, sent) < MaxSent
    /\ sent' = [sent EXCEPT ![s] = @ + 1]
    /\ stream' = [stream EXCEPT ![s] =
           @ \o [i \in 1 .. Parts |-> [sock |-> s, msg |-> sent[s] + 1, part |-> i]]]
    /\ UNCHANGED <<nodeVars, connVars, socket, history>>

PeerCloses(s) ==
    /\ socket[s] = "open"
    /\ socket' = [socket EXCEPT ![s] = "eof"]
    /\ UNCHANGED <<nodeVars, connVars, stream, sent, history>>

\* What was not received by then is lost.
PeerBreaks(s) ==
    /\ socket[s] = "open"
    /\ socket' = [socket EXCEPT ![s] = "reset"]
    /\ stream' = [stream EXCEPT ![s] = <<>>]
    /\ UNCHANGED <<nodeVars, connVars, sent, history>>

-----------------------------------------------------------------------------

Init ==
    /\ m_bConnected = FALSE
    /\ m_pConn = FALSE
    /\ m_mutex = None
    /\ user = [u \in User |-> "idle"]
    /\ m_connSocket = 0
    /\ m_bStop = TRUE
    /\ m_recvbuf = <<>>
    /\ listener = [l \in Listener |-> [pc |-> "none", sock |-> 0]]
    /\ socket = [s \in Socket |-> "none"]
    /\ stream = [s \in Socket |-> <<>>]
    /\ sent = [s \in Socket |-> 0]
    /\ handed = [s \in Socket |-> <<>>]
    /\ alone = [s \in Socket |-> {}]
    /\ overlap = FALSE
    /\ broke = {}

UserStep(u) ==
    \/ Connect(u) \/ ConnectFails(u) \/ Start(u) \/ MarkConnected(u)
    \/ DisConnect(u) \/ CloseSocket(u)

MsgListener(l) ==
    CheckStop(l) \/ Recv(l) \/ RecvEof(l) \/ RecvError(l) \/ ProcessMessages(l)

PeerStep(s) == PeerSends(s) \/ PeerCloses(s) \/ PeerBreaks(s)

Next ==
    \/ HandleConnect
    \/ \E u \in User : UserStep(u)
    \/ \E l \in Listener : MsgListener(l)
    \/ \E s \in Socket : PeerStep(s)

\* A thread that is able to run is scheduled, and a recv that has something to
\* return returns.  Nothing is assumed of the other side.
Spec == Init /\ [][Next]_vars /\ \A l \in Listener : WF_vars(MsgListener(l))

-----------------------------------------------------------------------------
\* Properties

TypeOK ==
    /\ m_bConnected \in BOOLEAN
    /\ m_pConn \in BOOLEAN
    /\ m_mutex \in User \union {None}
    /\ user \in [User -> {"idle", "start", "mark", "close"}]
    /\ m_connSocket \in 0 .. MaxSockets
    /\ m_bStop \in BOOLEAN
    /\ m_recvbuf \in Seq(Piece)
    /\ listener \in [Listener -> [pc : {"none", "check", "recv", "process", "ended"},
                                  sock : 0 .. MaxSockets]]
    /\ socket \in [Socket -> SocketState]
    /\ stream \in [Socket -> Seq(Piece)]
    /\ sent \in [Socket -> 0 .. Len(Sent)]
    /\ handed \in [Socket -> Seq(DOMAIN Sent)]
    /\ alone \in [Socket -> SUBSET DOMAIN Sent]
    /\ overlap \in BOOLEAN
    /\ broke \subseteq Socket

NeverDisconnected == /\ \A s \in Socket : socket[s] # "closed"
                     /\ \A u \in User : user[u] # "close"

\* A node that is never disconnected has at most one listener, however often its
\* connection breaks and is made again, fails to be made, and whoever connects:
\* the buffer and the socket have one reader.
OneListener == NeverDisconnected => ~overlap

\* While the node has one listener at a time, a socket's messages are handed on
\* in the order in which they were sent and none twice, however the stream cuts
\* and joins them, and also if the node is disconnected and connects again.
HandedInOrder ==
    ~overlap => \A s \in Socket : \A i, j \in DOMAIN handed[s] :
                    i < j => handed[s][i] < handed[s][j]

\* Only the stream's cutting and joining loses a message that was received: one
\* that a recv returned alone is handed on, or about to be.
AloneIsHanded ==
    ~overlap =>
        \A s \in Socket : \A m \in alone[s] :
            \/ m \in ToSet(handed[s])
            \/ \E l \in Listening : listener[l].pc = "process" /\ m_recvbuf[1].sock = s
                                    /\ Messages(m_recvbuf) = {m}

\* A node that counts as connected while nobody listens has been closed in order
\* by the other side, or its failure has been reported: the listener may have
\* seen it before Connect set m_bConnected, which then stays true.
DeafWasTold ==
    NeverDisconnected /\ m_bConnected /\ Listening = {} =>
        \/ socket[m_connSocket] = "eof"
        \/ m_connSocket \in broke

\* The socket of a connected node that breaks is reported to the peer, unless
\* the node is disconnected first.
BreakIsReported ==
    \A s \in Socket :
        (m_bConnected /\ m_connSocket = s /\ socket[s] = "reset")
        ~> (s \in broke \/ ~NeverDisconnected)

=============================================================================
