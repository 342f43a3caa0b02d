-------------------------- MODULE ConnectionProofs --------------------------
(***************************************************************************)
(* Theorems about Connection, for any threads, messages, pieces and        *)
(* bounds.                                                                 *)
(*                                                                         *)
(* TypeInv adds to TypeOK what the code's pointers rely on: there is a     *)
(* socket when there is a Connection, and a buffer when it is processed.   *)
(* ListenInv is about a node that nobody disconnects: it has a listener    *)
(* only if it is connected or about to be, at most one, on the socket of   *)
(* the moment.  StreamInv and OrderInv follow a piece from the stream      *)
(* through the buffer to the peer's queue.                                 *)
(***************************************************************************)
EXTENDS Connection, DataLemmas

-----------------------------------------------------------------------------
\* Types

\* What a node without a Connection cannot have done, and one with it has.
PointersInv ==
    /\ ~m_pConn => /\ ~m_bConnected
                   /\ \A u \in User : user[u] = "idle"
                   /\ \A s \in Socket : socket[s] = "none"
                   /\ \A l \in Listener : listener[l].pc = "none"
    /\ m_pConn => m_connSocket \in Socket /\ socket[m_connSocket] # "none"
    /\ \A u \in User : user[u] \in {"start", "mark"} <=> m_mutex = u
    /\ \A u \in User : user[u] = "start" => ListenersLeft
    /\ \A l \in Listener : listener[l].pc = "recv" => listener[l].sock \in Socket
    /\ (\E l \in Listener : listener[l].pc = "process") <=> m_recvbuf # <<>>

TypeInv == TypeOK /\ PointersInv

\* A new socket is one that was not used, and a new listener too.
LEMMA NewOnes ==
    /\ SocketsLeft => NewSocket \in Socket /\ socket[NewSocket] = "none"
    /\ ListenersLeft => NewListener \in Listener /\ listener[NewListener].pc = "none"
<1> DEFINE unused == {s \in Socket : socket[s] = "none"}
           idle == {l \in Listener : listener[l].pc = "none"}
<1>1. unused \subseteq Nat /\ idle \subseteq Nat
  BY DEF Socket, Listener
<1>2. SocketsLeft => unused # {} /\ NewSocket = Min(unused)
  BY DEF SocketsLeft, NewSocket
<1>3. ListenersLeft => idle # {} /\ NewListener = Min(idle)
  BY DEF ListenersLeft, NewListener
<1>4. /\ unused # {} => Min(unused) \in unused
      /\ idle # {} => Min(idle) \in idle
  <2> HIDE DEF unused, idle
  <2> QED
    BY <1>1, MinOfNat
<1> QED
  BY <1>2, <1>3, <1>4

\* Pieces of a message in a row, as TaskResponse or any other sends them.
LEMMA MessagePieces ==
    ASSUME NEW s \in Socket, NEW m \in DOMAIN Sent
    PROVE  /\ [i \in 1 .. Parts |-> [sock |-> s, msg |-> m, part |-> i]] \in Seq(Piece)
           /\ Len([i \in 1 .. Parts |-> [sock |-> s, msg |-> m, part |-> i]]) = Parts
<1>1. Parts \in Nat
  BY ConnectionConstants
<1>2. \A i \in 1 .. Parts : [sock |-> s, msg |-> m, part |-> i] \in Piece
  BY DEF Piece
<1> QED
  BY <1>1, <1>2

\* What is in pieces are messages the other side sends.
LEMMA MessagesTyped ==
    ASSUME NEW chunk \in Seq(Piece)
    PROVE  Messages(chunk) \subseteq DOMAIN Sent
<1>1. DOMAIN chunk = 1 .. Len(chunk)
  BY LenProperties
<1>2. \A i \in DOMAIN chunk : chunk[i] \in Piece
  BY <1>1, ElementOfSeq
<1> QED
  BY <1>2 DEF Messages, ToSet, Piece

\* A chunk is parsed to nothing, if it does not begin and end like documents
\* do, or to one message that has pieces in it.
LEMMA ParseOne ==
    ASSUME NEW chunk \in Seq(Piece), chunk # <<>>
    PROVE  \/ ~WellFormed(chunk) /\ ParseMessage(chunk) = {}
           \/ /\ WellFormed(chunk)
              /\ \E m \in Messages(chunk) : m \in DOMAIN Sent /\ ParseMessage(chunk) = {m}
<1>1. DOMAIN chunk = 1 .. Len(chunk) /\ Len(chunk) \in Nat /\ Len(chunk) > 0
  BY EmptySeq, LenProperties
<1>2. \A i \in DOMAIN chunk : chunk[i] \in Piece
  BY <1>1, ElementOfSeq
<1>3. Messages(chunk) \subseteq DOMAIN Sent /\ Messages(chunk) # {}
  <2>1. chunk[1] \in ToSet(chunk)
    BY <1>1 DEF ToSet
  <2> QED
    BY <1>2, <2>1 DEF Messages, ToSet, Piece
<1>4. DOMAIN Sent \subseteq Nat
  BY ConnectionConstants, LenProperties
<1> DEFINE requests == {m \in Messages(chunk) : Sent[m] = "Request"}
           some == IF requests # {} THEN requests ELSE Messages(chunk)
<1>5. some \subseteq Messages(chunk) /\ some # {} /\ some \subseteq Nat
  BY <1>3, <1>4
<1>6. ParseMessage(chunk) = IF WellFormed(chunk) THEN {Min(some)} ELSE {}
  BY DEF ParseMessage
<1> HIDE DEF some
<1> QED
  BY <1>3, <1>5, <1>6, MinOfNat

\* What becomes of the queue when a chunk is processed.
LEMMA HandedOn ==
    ASSUME NEW chunk \in Seq(Piece), chunk # <<>>
    PROVE  \/ ~WellFormed(chunk) /\ SetToSeq(ParseMessage(chunk)) = <<>>
           \/ /\ WellFormed(chunk)
              /\ \E m \in Messages(chunk) :
                     m \in DOMAIN Sent /\ SetToSeq(ParseMessage(chunk)) = <<m>>
BY ParseOne, SetToSeqEmpty, SetToSeqSingleton

\* A recv takes pieces off the front of the stream.
LEMMA TakeFacts ==
    ASSUME TypeOK, NEW s \in Socket, NEW k \in 1 .. Len(stream[s]), Take(s, k)
    PROVE  /\ m_recvbuf' \in Seq(Piece) /\ Len(m_recvbuf') = k /\ m_recvbuf' # <<>>
           /\ \A i \in 1 .. k : m_recvbuf'[i] = stream[s][i]
           /\ stream' \in [Socket -> Seq(Piece)]
           /\ \A r \in Socket \ {s} : stream'[r] = stream[r]
           /\ Len(stream'[s]) = Len(stream[s]) - k
           /\ \A i \in 1 .. Len(stream[s]) - k : stream'[s][i] = stream[s][i + k]
<1>1. stream \in [Socket -> Seq(Piece)] /\ stream[s] \in Seq(Piece)
  BY DEF TypeOK
<1>2. Len(stream[s]) \in Nat /\ \A i \in 1 .. Len(stream[s]) : stream[s][i] \in Piece
  BY <1>1, LenProperties, ElementOfSeq
<1> DEFINE a == SubSeq(stream[s], 1, k)
           b == SubSeq(stream[s], k + 1, Len(stream[s]))
<1>3. /\ a \in Seq(Piece) /\ Len(a) = k
      /\ \A i \in 1 .. k : a[i] = stream[s][i]
  BY <1>2, SubSeqProperties
<1>4. /\ b \in Seq(Piece) /\ Len(b) = Len(stream[s]) - k
      /\ \A i \in 1 .. Len(stream[s]) - k : b[i] = stream[s][i + k]
  BY <1>2, SubSeqProperties
<1>5. m_recvbuf' = a /\ stream' = [stream EXCEPT ![s] = b]
  BY DEF Take
<1> HIDE DEF a, b
<1>6. stream'[s] = b /\ \A r \in Socket \ {s} : stream'[r] = stream[r]
  BY <1>1, <1>5
<1>7. stream' \in [Socket -> Seq(Piece)]
  BY <1>1, <1>4, <1>5
<1>8. m_recvbuf' # <<>>
  BY <1>3, <1>5, EmptySeq
<1> QED
  BY <1>3, <1>4, <1>5, <1>6, <1>7, <1>8

\* Sending adds the pieces of the next message to the stream.
LEMMA SendFacts ==
    ASSUME TypeOK, NEW s \in Socket, PeerSends(s)
    PROVE  /\ sent[s] + 1 \in DOMAIN Sent
           /\ sent' = [sent EXCEPT ![s] = sent[s] + 1]
           /\ stream' \in [Socket -> Seq(Piece)]
           /\ \A r \in Socket \ {s} : stream'[r] = stream[r]
           /\ Len(stream'[s]) = Len(stream[s]) + Parts
           /\ \A i \in 1 .. Len(stream[s]) : stream'[s][i] = stream[s][i]
           /\ \A i \in 1 .. Parts :
                  stream'[s][Len(stream[s]) + i] = [sock |-> s, msg |-> sent[s] + 1, part |-> i]
<1>1. stream \in [Socket -> Seq(Piece)] /\ stream[s] \in Seq(Piece) /\ sent[s] \in Nat
  BY DEF TypeOK
<1>2. Len(stream[s]) \in Nat /\ Parts \in Nat
  BY <1>1, LenProperties, ConnectionConstants
<1>3. sent[s] + 1 \in DOMAIN Sent
  <2>1. DOMAIN Sent = 1 .. Len(Sent) /\ Len(Sent) \in Nat
    BY ConnectionConstants, LenProperties
  <2>2. sent[s] < Len(Sent)
    BY Zenon DEF PeerSends
  <2> QED
    BY <1>1, <2>1, <2>2
<1> DEFINE b == [i \in 1 .. Parts |-> [sock |-> s, msg |-> sent[s] + 1, part |-> i]]
<1>4. b \in Seq(Piece) /\ Len(b) = Parts
  BY <1>3, MessagePieces
<1>5. \A i \in 1 .. Parts : b[i] = [sock |-> s, msg |-> sent[s] + 1, part |-> i]
  OBVIOUS
<1>6. stream' = [stream EXCEPT ![s] = stream[s] \o b] /\ sent' = [sent EXCEPT ![s] = sent[s] + 1]
  BY DEF PeerSends
<1> HIDE DEF b
<1>7. /\ stream[s] \o b \in Seq(Piece) /\ Len(stream[s] \o b) = Len(stream[s]) + Parts
      /\ \A i \in 1 .. Len(stream[s]) + Parts : (stream[s] \o b)[i] =
             IF i <= Len(stream[s]) THEN stream[s][i] ELSE b[i - Len(stream[s])]
  BY <1>1, <1>4, ConcatProperties
<1>8. stream'[s] = stream[s] \o b /\ \A r \in Socket \ {s} : stream'[r] = stream[r]
  BY <1>1, <1>6
<1>9. stream' \in [Socket -> Seq(Piece)]
  BY <1>1, <1>6, <1>7
<1>10. \A i \in 1 .. Len(stream[s]) : stream'[s][i] = stream[s][i]
  BY <1>2, <1>7, <1>8
<1>11. ASSUME NEW i \in 1 .. Parts
       PROVE  stream'[s][Len(stream[s]) + i] = [sock |-> s, msg |-> sent[s] + 1, part |-> i]
  <2> DEFINE j == Len(stream[s]) + i
  <2>1. j \in 1 .. Len(stream[s]) + Parts /\ ~(j <= Len(stream[s])) /\ j - Len(stream[s]) = i
    BY <1>2
  <2> HIDE DEF j
  <2>2. stream'[s][j] = b[i]
    BY <1>7, <1>8, <2>1
  <2> QED
    BY <1>5, <2>2 DEF j
<1> QED
  BY <1>3, <1>6, <1>7, <1>8, <1>9, <1>10, <1>11
-----------------------------------------------------------------------------
\* One listener

\* A node that nobody disconnects has at most one listener, none while it is
\* unconnected or about to start one, and that one reads the socket of the
\* moment; without one, a connected node's socket has ended.
ListenInv ==
    NeverDisconnected =>
        /\ ~overlap
        /\ ~m_bConnected /\ m_mutex = None => Listening = {}
        /\ \A u \in User : user[u] = "start" => ~m_bConnected /\ Listening = {}
        /\ \A l \in Listening : /\ ~m_bStop
                                /\ listener[l].pc = "recv" => listener[l].sock = m_connSocket
        /\ (m_bConnected \/ \E u \in User : user[u] = "mark") /\ Listening = {} =>
               socket[m_connSocket] = "eof" \/ m_connSocket \in broke

\* overlap tells whether there have been two listeners at a time.
OverlapInv == ~overlap => \A k, l \in Listening : k = l

-----------------------------------------------------------------------------
\* From the stream to the queue

\* q is sent d pieces behind p: in the same message, or in a later one after at
\* least the rest of p's message and the pieces of q's up to q.
Behind(q, p, d) ==
    \/ q.msg = p.msg /\ q.part = p.part + d
    \/ p.msg < q.msg /\ (Parts - p.part) + q.part <= d

InSequence(chunk) ==
    \A i, j \in DOMAIN chunk : i < j => Behind(chunk[j], chunk[i], j - i)

\* A stream has the pieces of its own messages in sequence, the last one whole.
StreamInv ==
    \A s \in Socket :
        /\ InSequence(stream[s])
        /\ \A i \in DOMAIN stream[s] : /\ stream[s][i].sock = s
                                       /\ stream[s][i].msg <= sent[s]
                                       /\ Parts - stream[s][i].part <= Len(stream[s]) - i

Increasing(messages) == \A i, j \in DOMAIN messages : i < j => messages[i] < messages[j]

\* What is handed on comes before what is in the buffer and in the stream.
HandedInv ==
    \A s \in Socket :
        /\ Increasing(handed[s])
        /\ \A i \in DOMAIN handed[s] :
               /\ handed[s][i] <= sent[s]
               /\ \A j \in DOMAIN stream[s] : handed[s][i] < stream[s][j].msg

\* The buffer has pieces of one socket, in sequence, and before those in its stream.
BufferInv ==
    /\ InSequence(m_recvbuf)
    /\ \A i \in DOMAIN m_recvbuf :
           LET s == m_recvbuf[1].sock
           IN  /\ m_recvbuf[i].sock = s
               /\ m_recvbuf[i].msg <= sent[s]
               /\ \A j \in DOMAIN stream[s] :
                      \/ m_recvbuf[i].msg < stream[s][j].msg
                      \/ /\ m_recvbuf[i].msg = stream[s][j].msg
                         /\ m_recvbuf[i].part < stream[s][j].part
               /\ \A h \in DOMAIN handed[s] : handed[s][h] < m_recvbuf[i].msg

OrderInv == ~overlap => HandedInv /\ BufferInv

\* A message that was received alone is handed on, or in the buffer alone.
AloneInv ==
    ~overlap =>
        \A s \in Socket : \A m \in alone[s] :
            \/ m \in ToSet(handed[s])
            \/ \E l \in Listening :
                   /\ listener[l].pc = "process" /\ m_recvbuf[1].sock = s
                   /\ WellFormed(m_recvbuf) /\ Messages(m_recvbuf) = {m}

ConnectionInv == TypeInv /\ ListenInv /\ OverlapInv /\ StreamInv /\ OrderInv /\ AloneInv

-----------------------------------------------------------------------------
\* The type invariant is kept

\* The pieces of the state that no definition below looks into.
USE DEF nodeVars, connVars, sockVars, history

\* A node that was not made yet is well typed.
LEMMA InitTyped == Init => TypeInv
<1> SUFFICES ASSUME Init PROVE TypeInv
  OBVIOUS
<1>1. TypeOK
  <2>1. /\ m_bConnected \in BOOLEAN /\ m_pConn \in BOOLEAN /\ m_bStop \in BOOLEAN
        /\ overlap \in BOOLEAN /\ m_mutex \in User \union {None}
        /\ broke \subseteq Socket
    BY DEF Init
  <2>6. m_recvbuf \in Seq(Piece)
    BY EmptySeq DEF Init
  <2>2. m_connSocket \in 0 .. MaxSockets
    BY ConnectionConstants DEF Init
  <2>3. /\ user \in [User -> {"idle", "start", "mark", "close"}]
        /\ socket \in [Socket -> SocketState]
        /\ stream \in [Socket -> Seq(Piece)]
        /\ handed \in [Socket -> Seq(DOMAIN Sent)]
        /\ alone \in [Socket -> SUBSET DOMAIN Sent]
    BY DEF Init, SocketState
  <2>4. sent \in [Socket -> 0 .. Len(Sent)]
    BY ConnectionConstants, LenProperties DEF Init
  <2>5. listener \in [Listener -> [pc : {"none", "check", "recv", "process", "ended"},
                                   sock : 0 .. MaxSockets]]
    BY ConnectionConstants DEF Init
  <2> QED
    BY <2>1, <2>2, <2>3, <2>4, <2>5, <2>6 DEF TypeOK
<1>2. PointersInv
  BY NoneIsNoUser DEF Init, PointersInv
<1> QED
  BY <1>1, <1>2 DEF TypeInv

\* The threads that use the node.
LEMMA UserTyped ==
    ASSUME TypeInv, NEW u \in User, UserStep(u)
    PROVE  TypeInv'
<1> USE DEF TypeInv
<1>a. m_mutex # None => m_mutex \in User
  BY DEF TypeOK
<1>1. CASE Connect(u)
  <2>1. /\ NewSocket \in Socket /\ socket[NewSocket] = "none" /\ NewSocket \in 0 .. MaxSockets
    BY <1>1, NewOnes DEF Connect, Socket
  <2>2. TypeOK'
    BY <1>1, <2>1 DEF Connect, TypeOK, SocketState
  <2>3. PointersInv'
    BY <1>1, <2>1, NoneIsNoUser DEF Connect, Connects, TypeOK, PointersInv, ListenersLeft
  <2> QED
    BY <2>2, <2>3
<1>2. CASE ConnectFails(u)
  <2>1. TypeOK'
    BY <1>2 DEF ConnectFails, TypeOK
  <2>2. PointersInv'
    BY <1>2, NoneIsNoUser DEF ConnectFails, Connects, TypeOK, PointersInv, ListenersLeft
  <2> QED
    BY <2>1, <2>2
<1>3. CASE Start(u)
  <2>1. NewListener \in Listener /\ listener[NewListener].pc = "none"
    BY <1>3, NewOnes DEF Start, PointersInv
  <2>2. listener' \in [Listener -> [pc : {"none", "check", "recv", "process", "ended"},
                                    sock : 0 .. MaxSockets]]
    BY <1>3, <2>1 DEF Start, TypeOK
  <2>3. TypeOK'
    <3>1. overlap' \in BOOLEAN
      BY <1>3 DEF Start, TypeOK
    <3>2. UNCHANGED <<m_bConnected, m_pConn, m_mutex, m_connSocket, m_recvbuf, sockVars, handed,
                      alone, broke>>
      BY <1>3 DEF Start
    <3>3. m_bStop' \in BOOLEAN /\ user' \in [User -> {"idle", "start", "mark", "close"}]
      BY <1>3 DEF Start, TypeOK
    <3> QED
      BY <2>2, <3>1, <3>2, <3>3 DEF TypeOK
  <2>4. PointersInv'
    <3>1. /\ listener'[NewListener].pc = "check"
          /\ \A l \in Listener \ {NewListener} : listener'[l] = listener[l]
      BY <1>3, <2>1 DEF Start, TypeOK
    <3>2. m_pConn /\ m_pConn' = m_pConn
      BY <1>3 DEF Start, PointersInv
    <3>3. \A k \in User : user'[k] = IF k = u THEN "mark" ELSE user[k]
      BY <1>3 DEF Start, TypeOK
    <3>4. m_mutex = u
      BY <1>3 DEF Start, PointersInv
    <3>5. UNCHANGED <<m_mutex, socket, m_connSocket, m_recvbuf>>
      BY <1>3 DEF Start
    <3> QED
      BY <2>1, <3>1, <3>2, <3>3, <3>4, <3>5 DEF PointersInv
  <2> QED
    BY <2>3, <2>4
<1>4. CASE MarkConnected(u)
  <2>1. TypeOK'
    BY <1>4 DEF MarkConnected, TypeOK
  <2>2. PointersInv'
    BY <1>4, NoneIsNoUser DEF MarkConnected, TypeOK, PointersInv, ListenersLeft
  <2> QED
    BY <2>1, <2>2
<1>5. CASE DisConnect(u)
  <2>1. TypeOK'
    BY <1>5 DEF DisConnect, TypeOK
  <2>2. PointersInv'
    BY <1>5 DEF DisConnect, TypeOK, PointersInv, ListenersLeft
  <2> QED
    BY <2>1, <2>2
<1>6. CASE CloseSocket(u)
  <2>1. m_pConn /\ m_connSocket \in Socket
    BY <1>6 DEF CloseSocket, PointersInv
  <2>2. TypeOK'
    BY <1>6, <2>1 DEF CloseSocket, TypeOK, SocketState
  <2>3. PointersInv'
    BY <1>6, <2>1 DEF CloseSocket, TypeOK, PointersInv, ListenersLeft
  <2> QED
    BY <2>2, <2>3
<1> QED
  BY <1>1, <1>2, <1>3, <1>4, <1>5, <1>6 DEF UserStep

\* A node made for a connection that was accepted.
LEMMA HandleConnectTyped ==
    ASSUME TypeInv, HandleConnect
    PROVE  TypeInv'
<1> USE DEF TypeInv
<1>1. 1 \in Socket /\ 1 \in Listener
  BY ConnectionConstants DEF Socket, Listener
<1>2. /\ NewSocket \in Socket /\ NewSocket \in 0 .. MaxSockets
      /\ NewListener \in Listener /\ listener[NewListener].pc = "none"
  BY <1>1, NewOnes DEF HandleConnect, PointersInv, SocketsLeft, ListenersLeft, Socket
<1>3. listener' \in [Listener -> [pc : {"none", "check", "recv", "process", "ended"},
                                  sock : 0 .. MaxSockets]]
  BY <1>2 DEF HandleConnect, TypeOK
<1>4. TypeOK'
  BY <1>2, <1>3 DEF HandleConnect, TypeOK, SocketState
<1>5. PointersInv'
  <2>1. /\ listener'[NewListener].pc = "check"
        /\ \A l \in Listener \ {NewListener} : listener'[l] = listener[l]
    BY <1>2 DEF HandleConnect, TypeOK
  <2>2. \A l \in Listener : listener[l].pc = "none"
    BY DEF HandleConnect, PointersInv
  <2>3. m_pConn' /\ m_connSocket' \in Socket /\ socket'[m_connSocket'] # "none"
    BY <1>2 DEF HandleConnect, TypeOK
  <2>4. UNCHANGED <<m_mutex, user, m_recvbuf>> /\ \A k \in User : user[k] = "idle"
    BY DEF HandleConnect
  <2> QED
    BY <2>1, <2>2, <2>3, <2>4 DEF PointersInv
<1> QED
  BY <1>4, <1>5

\* The threads that listen.
LEMMA ListenerTyped ==
    ASSUME TypeInv, NEW l \in Listener, MsgListener(l)
    PROVE  TypeInv'
<1> USE DEF TypeInv
<1> DEFINE Shape == [pc : {"none", "check", "recv", "process", "ended"}, sock : 0 .. MaxSockets]
<1>a. listener \in [Listener -> Shape] /\ m_pConn \in BOOLEAN /\ m_connSocket \in 0 .. MaxSockets
  BY DEF TypeOK
<1>1. CASE CheckStop(l)
  <2>1. /\ m_pConn /\ m_connSocket \in Socket
    BY <1>1 DEF CheckStop, PointersInv
  <2>2. \E x \in Shape : /\ x.pc \in {"ended", "recv"} /\ (x.pc = "recv" => x.sock \in Socket)
                         /\ listener' = [listener EXCEPT ![l] = x]
    <3>1. [pc |-> "ended", sock |-> 0] \in Shape /\ [pc |-> "recv", sock |-> m_connSocket] \in Shape
      BY <1>a, ConnectionConstants
    <3> QED
      BY <1>1, <2>1, <3>1 DEF CheckStop
  <2>3. UNCHANGED <<nodeVars, m_connSocket, m_bStop, m_recvbuf, sockVars, history>>
    BY <1>1 DEF CheckStop
  <2>4. listener' \in [Listener -> Shape]
    BY <1>a, <2>2
  <2>5. TypeOK'
    BY <2>3, <2>4 DEF TypeOK
  <2>6. PointersInv'
    <3> HIDE DEF Shape
    <3>1. /\ listener[l].pc = "check" /\ listener'[l].pc \in {"ended", "recv"}
          /\ listener'[l].pc = "recv" => listener'[l].sock \in Socket
          /\ \A k \in Listener \ {l} : listener'[k] = listener[k]
      BY <1>1, <1>a, <2>2 DEF CheckStop
    <3>2. ListenersLeft => ListenersLeft'
      BY <3>1 DEF ListenersLeft
    <3> QED
      BY <2>1, <2>3, <3>1, <3>2 DEF PointersInv
  <2> QED
    BY <2>5, <2>6
<1>2. CASE Recv(l)
  <2> DEFINE s == listener[l].sock
  <2>1. s \in Socket /\ listener[l].pc = "recv" /\ m_pConn
    BY <1>2 DEF Recv, PointersInv
  <2>2. PICK k \in 1 .. Len(stream[s]) : Take(s, k)
    BY <1>2 DEF Recv
  <2>3. /\ m_recvbuf' \in Seq(Piece) /\ m_recvbuf' # <<>>
        /\ stream' \in [Socket -> Seq(Piece)]
    BY <2>1, <2>2, TakeFacts
  <2>4. Messages(m_recvbuf') \subseteq DOMAIN Sent
    BY <2>3, MessagesTyped
  <2>5. alone' \in [Socket -> SUBSET DOMAIN Sent]
    <3>1. alone' = IF WellFormed(m_recvbuf') /\ Len(m_recvbuf') = Parts
                   THEN [alone EXCEPT ![s] = @ \union Messages(m_recvbuf')] ELSE alone
      BY <1>2 DEF Recv
    <3> QED
      BY <2>1, <2>4, <3>1 DEF TypeOK
  <2>6. /\ listener' \in [Listener -> Shape] /\ listener'[l].pc = "process"
        /\ \A r \in Listener \ {l} : listener'[r] = listener[r]
    BY <1>2, <1>a DEF Recv
  <2>7. UNCHANGED <<nodeVars, m_connSocket, m_bStop, socket, sent, handed, overlap, broke>>
    BY <1>2 DEF Recv
  <2>8. TypeOK'
    BY <2>3, <2>5, <2>6, <2>7 DEF TypeOK
  <2>9. PointersInv'
    <3> HIDE DEF Shape
    <3>1. ListenersLeft => ListenersLeft'
      BY <2>1, <2>6 DEF ListenersLeft
    <3> QED
      BY <2>1, <2>3, <2>6, <2>7, <3>1 DEF PointersInv
  <2> QED
    BY <2>8, <2>9
<1>3. ASSUME \/ RecvEof(l) \/ RecvError(l)
      PROVE  TypeInv'
  <2>1. [pc |-> "ended", sock |-> 0] \in Shape
    BY ConnectionConstants
  <2>2. listener[l].pc = "recv" /\ listener' = [listener EXCEPT ![l] = [pc |-> "ended", sock |-> 0]]
    BY <1>3 DEF RecvEof, RecvError
  <2>3. /\ listener' \in [Listener -> Shape] /\ listener'[l].pc = "ended"
        /\ \A k \in Listener \ {l} : listener'[k] = listener[k]
    BY <1>a, <2>1, <2>2
  <2>4. /\ m_bConnected' \in {m_bConnected, FALSE} /\ broke' \subseteq Socket
        /\ UNCHANGED <<m_pConn, m_mutex, user, m_connSocket, m_bStop, m_recvbuf, sockVars, handed,
                       alone, overlap>>
    BY <1>3 DEF RecvEof, RecvError, HandleConnectionBroken, TypeOK, PointersInv
  <2>5. TypeOK'
    BY <2>3, <2>4 DEF TypeOK
  <2>6. PointersInv'
    <3> HIDE DEF Shape
    <3>1. ListenersLeft => ListenersLeft'
      BY <2>2, <2>3 DEF ListenersLeft
    <3>2. m_pConn
      BY <2>2 DEF PointersInv
    <3> QED
      BY <2>2, <2>3, <2>4, <3>1, <3>2 DEF PointersInv
  <2> QED
    BY <2>5, <2>6
<1>4. CASE ProcessMessages(l)
  <2> DEFINE s == m_recvbuf[1].sock
             parsed == SetToSeq(ParseMessage(m_recvbuf))
             others == \E k \in Listener \ {l} : listener[k].pc = "process"
  <2>1. m_recvbuf \in Seq(Piece) /\ m_recvbuf # <<>> /\ m_pConn /\ listener[l].pc = "process"
    BY <1>4 DEF ProcessMessages, PointersInv, TypeOK
  <2>2. s \in Socket /\ parsed \in Seq(DOMAIN Sent)
    <3>1. m_recvbuf[1] \in Piece
      BY <2>1, EmptySeq, ElementOfSeq
    <3>2. parsed = <<>> \/ \E m \in DOMAIN Sent : parsed = <<m>>
      BY <2>1, HandedOn
    <3>3. parsed \in Seq(DOMAIN Sent)
      BY <3>2, OneElement, EmptySeq
    <3> QED
      BY <3>1, <3>3 DEF Piece
  <2>3. handed' = [handed EXCEPT ![s] = handed[s] \o parsed]
    BY <1>4 DEF ProcessMessages
  <2>4. handed' \in [Socket -> Seq(DOMAIN Sent)]
    <3> HIDE DEF s, parsed
    <3>1. handed[s] \o parsed \in Seq(DOMAIN Sent)
      BY <2>2, ConcatProperties DEF TypeOK
    <3> QED
      BY <2>2, <2>3, <3>1 DEF TypeOK
  <2>5. m_recvbuf' = (IF others THEN m_recvbuf ELSE <<>>) /\ m_recvbuf' \in Seq(Piece)
    BY <1>4, <2>1 DEF ProcessMessages
  <2>6. /\ listener' \in [Listener -> Shape] /\ listener'[l].pc = "check"
        /\ \A k \in Listener \ {l} : listener'[k] = listener[k]
    <3>1. [pc |-> "check", sock |-> 0] \in Shape
      BY ConnectionConstants
    <3> QED
      BY <1>4, <1>a, <3>1 DEF ProcessMessages
  <2>7. UNCHANGED <<nodeVars, m_connSocket, m_bStop, sockVars, alone, overlap, broke>>
    BY <1>4 DEF ProcessMessages
  <2>8. TypeOK'
    BY <2>4, <2>5, <2>6, <2>7 DEF TypeOK
  <2>9. PointersInv'
    <3> HIDE DEF Shape
    <3>1. ListenersLeft => ListenersLeft'
      BY <2>1, <2>6 DEF ListenersLeft
    <3>2. (\E k \in Listener : listener'[k].pc = "process") <=> m_recvbuf' # <<>>
      BY <2>1, <2>5, <2>6
    <3> QED
      BY <2>1, <2>6, <2>7, <3>1, <3>2 DEF PointersInv
  <2> QED
    BY <2>8, <2>9
<1> QED
  BY <1>1, <1>2, <1>3, <1>4 DEF MsgListener

\* The other side.
LEMMA PeerTyped ==
    ASSUME TypeInv, NEW s \in Socket, PeerStep(s)
    PROVE  TypeInv'
<1> USE DEF TypeInv
<1>1. CASE PeerSends(s)
  <2>1. /\ sent[s] + 1 \in DOMAIN Sent /\ sent' = [sent EXCEPT ![s] = sent[s] + 1]
        /\ stream' \in [Socket -> Seq(Piece)]
    BY <1>1, SendFacts
  <2>2. sent' \in [Socket -> 0 .. Len(Sent)]
    BY <2>1, ConnectionConstants, LenProperties DEF TypeOK
  <2>3. UNCHANGED <<nodeVars, connVars, socket, history>>
    BY <1>1, Zenon DEF PeerSends
  <2> QED
    BY <2>1, <2>2, <2>3 DEF TypeOK, PointersInv, ListenersLeft
<1>2. CASE PeerCloses(s) \/ PeerBreaks(s)
  <2>1. /\ socket' \in [Socket -> SocketState]
        /\ \A r \in Socket : socket'[r] = "none" <=> socket[r] = "none"
    BY <1>2 DEF PeerCloses, PeerBreaks, TypeOK, SocketState
  <2>2. stream' \in [Socket -> Seq(Piece)]
    <3>1. <<>> \in Seq(Piece) /\ stream \in [Socket -> Seq(Piece)]
      BY EmptySeq DEF TypeOK
    <3>2. stream' = stream \/ stream' = [stream EXCEPT ![s] = <<>>]
      BY <1>2 DEF PeerCloses, PeerBreaks
    <3> QED
      BY <3>1, <3>2
  <2>3. UNCHANGED <<nodeVars, connVars, sent, history>>
    BY <1>2 DEF PeerCloses, PeerBreaks
  <2> QED
    BY <2>1, <2>2, <2>3 DEF TypeOK, PointersInv, ListenersLeft
<1> QED
  BY <1>1, <1>2 DEF PeerStep

\* Every step keeps the type invariant.
LEMMA StepTyped == TypeInv /\ [Next]_vars => TypeInv'
<1> SUFFICES ASSUME TypeInv, [Next]_vars
             PROVE  TypeInv'
  OBVIOUS
<1>1. CASE UNCHANGED vars
  BY <1>1 DEF vars, TypeInv, TypeOK, PointersInv, ListenersLeft
<1> QED
  BY <1>1, UserTyped, HandleConnectTyped, ListenerTyped, PeerTyped DEF Next

-----------------------------------------------------------------------------
\* ListenInv and OverlapInv are kept

\* A thread that works on the node stays the only one that connects.
LEMMA OneConnects ==
    ASSUME TypeInv, NEW u \in User, user[u] \in {"start", "mark"}
    PROVE  m_mutex = u /\ m_pConn /\ \A k \in User \ {u} : user[k] \notin {"start", "mark"}
BY DEF TypeInv, PointersInv

\* Having been disconnected is for ever.
LEMMA DisconnectedStays ==
    ASSUME TypeInv, Next, NeverDisconnected'
    PROVE  NeverDisconnected
<1> USE DEF TypeInv, NeverDisconnected
<1>a. socket \in [Socket -> SocketState] /\ user \in [User -> {"idle", "start", "mark", "close"}]
  BY DEF TypeOK
<1>1. ASSUME NEW u \in User, UserStep(u)
      PROVE  NeverDisconnected
  <2>1. CASE Connect(u)
    <3>1. socket[NewSocket] = "none"
      BY <2>1, NewOnes DEF Connect
    <3>2. /\ \A s \in Socket : socket[s] = "closed" => socket'[s] = "closed"
          /\ \A k \in User : user[k] = "close" => user'[k] = "close"
      BY <1>a, <2>1, <3>1 DEF Connect, Connects
    <3> QED
      BY <3>2
  <2>2. CASE ConnectFails(u) \/ Start(u) \/ MarkConnected(u) \/ DisConnect(u)
    <3>1. /\ socket' = socket
          /\ \A k \in User : user[k] = "close" => user'[k] = "close"
      BY <1>a, <2>2 DEF ConnectFails, Connects, Start, MarkConnected, DisConnect
    <3> QED
      BY <3>1
  <2>3. CASE CloseSocket(u)
    <3>1. m_connSocket \in Socket /\ socket'[m_connSocket] = "closed"
      BY <1>a, <2>3 DEF CloseSocket, PointersInv
    <3> QED
      BY <3>1
  <2> QED
    BY <1>1, <2>1, <2>2, <2>3 DEF UserStep
<1>2. CASE HandleConnect
  BY <1>2 DEF HandleConnect, PointersInv
<1>3. ASSUME NEW l \in Listener, MsgListener(l)
      PROVE  NeverDisconnected
  <2>1. UNCHANGED <<socket, user>>
    BY <1>3 DEF MsgListener, CheckStop, Recv, RecvEof, RecvError, ProcessMessages
  <2> QED
    BY <2>1
<1>4. ASSUME NEW s \in Socket, PeerStep(s)
      PROVE  NeverDisconnected
  <2>1. user' = user
    BY <1>4, Zenon DEF PeerStep, PeerSends, PeerCloses, PeerBreaks
  <2>2. socket[s] = "open" /\ \A r \in Socket \ {s} : socket'[r] = socket[r]
    <3>1. CASE PeerSends(s)
      BY <3>1, Zenon DEF PeerSends
    <3>2. CASE PeerCloses(s) \/ PeerBreaks(s)
      BY <1>a, <3>2 DEF PeerCloses, PeerBreaks
    <3> QED
      BY <1>4, <3>1, <3>2 DEF PeerStep
  <2> QED
    BY <2>1, <2>2
<1> QED
  BY <1>1, <1>2, <1>3, <1>4 DEF Next

\* What becomes of the listeners when one is started, ...
LEMMA ListenerStarts ==
    ASSUME TypeInv, NewListener \in Listener,
           listener' = [listener EXCEPT ![NewListener].pc = "check"]
    PROVE  /\ listener'[NewListener].pc = "check" /\ Listening' = Listening \union {NewListener}
           /\ \A l \in Listener \ {NewListener} : listener'[l] = listener[l]
<1>1. /\ listener'[NewListener].pc = "check"
      /\ \A l \in Listener \ {NewListener} : listener'[l] = listener[l]
  BY DEF TypeInv, TypeOK
<1> QED
  BY <1>1 DEF Listening

\* ... and when one moves.
LEMMA ListenerMoves ==
    ASSUME TypeInv, NEW l \in Listener, MsgListener(l)
    PROVE  /\ l \in Listening /\ listener'[l].pc \in {"check", "recv", "process", "ended"}
           /\ \A k \in Listener \ {l} : listener'[k] = listener[k]
           /\ Listening' = IF listener'[l].pc = "ended" THEN Listening \ {l} ELSE Listening
<1>1. /\ listener'[l].pc \in {"check", "recv", "process", "ended"}
      /\ \A k \in Listener \ {l} : listener'[k] = listener[k]
  <2>1. CASE CheckStop(l)
    BY <2>1 DEF CheckStop, TypeInv, TypeOK
  <2>2. CASE Recv(l)
    BY <2>2 DEF Recv, TypeInv, TypeOK
  <2>3. CASE RecvEof(l)
    BY <2>3 DEF RecvEof, TypeInv, TypeOK
  <2>4. CASE RecvError(l)
    BY <2>4 DEF RecvError, TypeInv, TypeOK
  <2>5. CASE ProcessMessages(l)
    BY <2>5 DEF ProcessMessages, TypeInv, TypeOK
  <2> QED
    BY <2>1, <2>2, <2>3, <2>4, <2>5 DEF MsgListener
<1>2. l \in Listening
  BY DEF MsgListener, CheckStop, Recv, RecvEof, RecvError, ProcessMessages, Listening
<1> QED
  BY <1>1, <1>2 DEF Listening

\* While overlap is false a second listener has not been started.
LEMMA OverlapKept ==
    ASSUME TypeInv, OverlapInv, [Next]_vars
    PROVE  OverlapInv'
<1> SUFFICES ASSUME ~overlap' PROVE \A k, l \in Listening' : k = l
  BY DEF OverlapInv
<1>1. CASE UNCHANGED vars
  BY <1>1 DEF vars, OverlapInv, Listening
<1>2. ASSUME NEW u \in User, Start(u)
      PROVE  \A k, l \in Listening' : k = l
  <2>1. Listening = {} /\ NewListener \in Listener
    BY <1>2, NewOnes DEF Start, TypeInv, PointersInv
  <2>2. Listening' = {NewListener}
    BY <1>2, <2>1, ListenerStarts DEF Start
  <2> QED
    BY <2>2
<1>3. ASSUME NEW u \in User, UserStep(u), ~Start(u)
      PROVE  \A k, l \in Listening' : k = l
  <2>1. UNCHANGED <<listener, overlap>>
    BY <1>3 DEF UserStep, Connect, ConnectFails, MarkConnected, DisConnect, CloseSocket
  <2> QED
    BY <2>1 DEF OverlapInv, Listening
<1>4. CASE HandleConnect
  <2>1. 1 \in Listener /\ Listening = {} /\ ListenersLeft
    BY <1>4, ConnectionConstants DEF HandleConnect, TypeInv, PointersInv, Listening, Listener,
                                     ListenersLeft
  <2>2. Listening' = {NewListener}
    BY <1>4, <2>1, NewOnes, ListenerStarts DEF HandleConnect
  <2> QED
    BY <2>2
<1>5. ASSUME NEW l \in Listener, MsgListener(l)
      PROVE  \A j, k \in Listening' : j = k
  <2>1. overlap' = overlap
    BY <1>5 DEF MsgListener, CheckStop, Recv, RecvEof, RecvError, ProcessMessages
  <2> QED
    BY <1>5, <2>1, ListenerMoves DEF OverlapInv
<1>6. ASSUME NEW s \in Socket, PeerStep(s)
      PROVE  \A k, l \in Listening' : k = l
  <2>1. UNCHANGED <<listener, overlap>>
    BY <1>6, Zenon DEF PeerStep, PeerSends, PeerCloses, PeerBreaks
  <2> QED
    BY <2>1 DEF OverlapInv, Listening
<1> QED
  BY <1>1, <1>2, <1>3, <1>4, <1>5, <1>6 DEF Next

\* A node that is not disconnected keeps ListenInv.
LEMMA ListenKept ==
    ASSUME TypeInv, OverlapInv, ListenInv, [Next]_vars
    PROVE  ListenInv'
<1>1. CASE UNCHANGED vars
  BY <1>1 DEF vars, ListenInv, Listening, NeverDisconnected
<1> SUFFICES ASSUME Next, NeverDisconnected' PROVE ListenInv'
  BY <1>1 DEF ListenInv
<1>a. NeverDisconnected
  BY DisconnectedStays
<1>b. /\ ~overlap
      /\ ~m_bConnected /\ m_mutex = None => Listening = {}
      /\ \A u \in User : user[u] = "start" => ~m_bConnected /\ Listening = {}
      /\ \A l \in Listening : /\ ~m_bStop
                              /\ listener[l].pc = "recv" => listener[l].sock = m_connSocket
      /\ (m_bConnected \/ \E u \in User : user[u] = "mark") /\ Listening = {} =>
             socket[m_connSocket] = "eof" \/ m_connSocket \in broke
  BY <1>a DEF ListenInv
<1>c. \A k, l \in Listening : k = l
  BY <1>b DEF OverlapInv
<1>d. user \in [User -> {"idle", "start", "mark", "close"}] /\ socket \in [Socket -> SocketState]
  BY DEF TypeInv, TypeOK
<1>e. \A u \in User : m_mutex = None => user[u] \notin {"start", "mark"}
  BY NoneIsNoUser DEF TypeInv, PointersInv
<1>2. ASSUME NEW u \in User, Connect(u)
      PROVE  ListenInv'
  <2>1. /\ Listening = {} /\ ~m_bConnected /\ m_mutex' # None
        /\ UNCHANGED <<m_bConnected, listener, overlap>>
        /\ \A k \in User : user'[k] = "mark" => user[k] = "mark"
    BY <1>2, <1>b, <1>d, NoneIsNoUser DEF Connect, Connects
  <2>2. Listening' = {}
    BY <2>1 DEF Listening
  <2>3. \A k \in User : user'[k] # "mark"
    BY <1>2, <1>d, <1>e DEF Connect, Connects
  <2> QED
    BY <1>b, <2>1, <2>2, <2>3 DEF ListenInv
<1>3. ASSUME NEW u \in User, ConnectFails(u)
      PROVE  ListenInv'
  <2>1. /\ Listening = {} /\ ~m_bConnected /\ m_mutex' # None
        /\ UNCHANGED <<m_bConnected, listener, overlap>>
    BY <1>3, <1>b, NoneIsNoUser DEF ConnectFails, Connects
  <2>2. Listening' = {}
    BY <2>1 DEF Listening
  <2>3. \A k \in User : user'[k] # "mark"
    BY <1>3, <1>d, <1>e DEF ConnectFails, Connects
  <2> QED
    BY <1>b, <2>1, <2>2, <2>3 DEF ListenInv
<1>4. ASSUME NEW u \in User, Start(u)
      PROVE  ListenInv'
  <2>1. /\ user[u] = "start" /\ Listening = {} /\ m_mutex = u /\ ~m_bConnected
        /\ \A k \in User \ {u} : user[k] # "start"
    BY <1>4, <1>b, OneConnects DEF Start
  <2>2. NewListener \in Listener
    BY <1>4, NewOnes DEF Start, TypeInv, PointersInv
  <2>3. Listening' = {NewListener} /\ listener'[NewListener].pc = "check"
    BY <1>4, <2>1, <2>2, ListenerStarts DEF Start
  <2>4. /\ ~overlap' /\ ~m_bStop' /\ m_mutex' # None
        /\ \A k \in User : user'[k] # "start"
    BY <1>4, <1>b, <1>d, <2>1, NoneIsNoUser DEF Start
  <2> QED
    BY <2>3, <2>4 DEF ListenInv
<1>5. ASSUME NEW u \in User, MarkConnected(u)
      PROVE  ListenInv'
  <2>1. /\ m_bConnected' /\ user[u] = "mark"
        /\ UNCHANGED <<listener, overlap, m_bStop, m_connSocket, socket, broke>>
    BY <1>5 DEF MarkConnected
  <2>2. \A k \in User : user'[k] # "start"
    BY <1>5, <1>d, OneConnects DEF MarkConnected
  <2>3. Listening' = Listening
    BY <2>1 DEF Listening
  <2> QED
    BY <1>b, <2>1, <2>2, <2>3 DEF ListenInv
<1>6. ASSUME NEW u \in User, DisConnect(u) \/ CloseSocket(u)
      PROVE  ListenInv'
  <2>1. CASE DisConnect(u)
    BY <1>d, <2>1 DEF DisConnect, NeverDisconnected
  <2>2. CASE CloseSocket(u)
    BY <1>a, <2>2 DEF CloseSocket, NeverDisconnected
  <2> QED
    BY <1>6, <2>1, <2>2
<1>7. CASE HandleConnect
  <2>1. 1 \in Listener /\ Listening = {} /\ ListenersLeft
    BY <1>7, ConnectionConstants DEF HandleConnect, TypeInv, PointersInv, Listening, Listener,
                                     ListenersLeft
  <2>2. Listening' = {NewListener} /\ listener'[NewListener].pc = "check"
    BY <1>7, <2>1, NewOnes, ListenerStarts DEF HandleConnect
  <2>3. /\ ~overlap' /\ ~m_bStop' /\ m_bConnected'
        /\ \A k \in User : user'[k] # "start"
    BY <1>7, <1>b DEF HandleConnect
  <2> QED
    BY <2>2, <2>3 DEF ListenInv
<1>8. ASSUME NEW l \in Listener, MsgListener(l)
      PROVE  ListenInv'
  <2>1. /\ Listening = {l} /\ listener'[l].pc \in {"check", "recv", "process", "ended"}
        /\ Listening' = IF listener'[l].pc = "ended" THEN {} ELSE {l}
    BY <1>8, <1>c, ListenerMoves
  <2>2. ~m_bStop /\ (m_bConnected \/ m_mutex # None) /\ \A u \in User : user[u] # "start"
    BY <1>b, <2>1
  <2>3. /\ UNCHANGED <<m_mutex, user, m_connSocket, m_bStop, socket, overlap>>
    BY <1>8 DEF MsgListener, CheckStop, Recv, RecvEof, RecvError, ProcessMessages
  <2>4. CASE CheckStop(l)
    <3>1. /\ listener'[l].pc = "recv" /\ listener'[l].sock = m_connSocket
          /\ m_bConnected' = m_bConnected
      BY <2>2, <2>4 DEF CheckStop, TypeInv, TypeOK
    <3> QED
      BY <1>b, <2>1, <2>2, <2>3, <3>1 DEF ListenInv
  <2>5. CASE Recv(l) \/ ProcessMessages(l)
    <3>1. listener'[l].pc \in {"process", "check"} /\ m_bConnected' = m_bConnected
      <4>1. CASE Recv(l)
        BY <4>1 DEF Recv, TypeInv, TypeOK
      <4>2. CASE ProcessMessages(l)
        BY <4>2 DEF ProcessMessages, TypeInv, TypeOK
      <4> QED
        BY <2>5, <4>1, <4>2
    <3> QED
      BY <1>b, <2>1, <2>2, <2>3, <3>1 DEF ListenInv
  <2>6. CASE RecvEof(l)
    <3>1. listener[l].sock = m_connSocket /\ listener[l].sock \in Socket
      BY <1>b, <2>1, <2>6 DEF RecvEof, TypeInv, PointersInv
    <3>2. socket[m_connSocket] = "eof" /\ m_bConnected' = m_bConnected
      BY <1>a, <2>6, <3>1 DEF RecvEof, NeverDisconnected
    <3>3. Listening' = {}
      BY <2>1, <2>6 DEF RecvEof, TypeInv, TypeOK
    <3> QED
      BY <1>b, <2>2, <2>3, <3>2, <3>3 DEF ListenInv
  <2>7. CASE RecvError(l)
    <3>1. listener[l].sock = m_connSocket
      BY <1>b, <2>1, <2>7 DEF RecvError
    <3>2. m_connSocket \in broke' /\ ~m_bConnected'
      BY <2>7, <3>1 DEF RecvError, HandleConnectionBroken
    <3>3. Listening' = {}
      BY <2>1, <2>7 DEF RecvError, TypeInv, TypeOK
    <3> QED
      BY <1>b, <2>2, <2>3, <3>2, <3>3 DEF ListenInv
  <2> QED
    BY <1>8, <2>4, <2>5, <2>6, <2>7 DEF MsgListener
<1>9. ASSUME NEW s \in Socket, PeerStep(s)
      PROVE  ListenInv'
  <2>1. UNCHANGED <<nodeVars, connVars, history>>
    BY <1>9, Zenon DEF PeerStep, PeerSends, PeerCloses, PeerBreaks
  <2>2. \A r \in Socket : socket[r] = "eof" => socket'[r] = "eof"
    <3>1. CASE PeerSends(s)
      BY <3>1, Zenon DEF PeerSends
    <3>2. CASE PeerCloses(s) \/ PeerBreaks(s)
      BY <1>d, <3>2 DEF PeerCloses, PeerBreaks
    <3> QED
      BY <1>9, <3>1, <3>2 DEF PeerStep
  <2>3. Listening' = Listening
    BY <2>1 DEF Listening
  <2>4. (m_bConnected \/ \E u \in User : user[u] = "mark") => m_connSocket \in Socket
    BY DEF TypeInv, PointersInv
  <2> QED
    BY <1>b, <2>1, <2>2, <2>3, <2>4 DEF ListenInv
<1> QED
  BY <1>2, <1>3, <1>4, <1>5, <1>6, <1>7, <1>8, <1>9 DEF Next, UserStep

-----------------------------------------------------------------------------
\* StreamInv is kept

\* The numbers in a piece.
LEMMA PieceNumbers ==
    ASSUME NEW p \in Piece
    PROVE  p.sock \in Socket /\ p.msg \in Nat /\ p.part \in Nat /\ 1 <= p.part /\ p.part <= Parts
           /\ Parts \in Nat
<1>1. DOMAIN Sent \subseteq Nat /\ Parts \in Nat
  BY ConnectionConstants, LenProperties
<1> QED
  BY <1>1 DEF Piece

\* The pieces of a stream, and how many there are.
LEMMA StreamPieces ==
    ASSUME TypeOK, NEW s \in Socket
    PROVE  /\ Len(stream[s]) \in Nat /\ DOMAIN stream[s] = 1 .. Len(stream[s])
           /\ \A i \in 1 .. Len(stream[s]) : stream[s][i] \in Piece
           /\ sent[s] \in Nat
BY LenProperties, ElementOfSeq DEF TypeOK

\* What recv leaves in the stream.
LEMMA TakeKeepsStream ==
    ASSUME TypeInv, TypeInv', StreamInv, NEW s \in Socket, NEW k \in 1 .. Len(stream[s]),
           Take(s, k), sent' = sent
    PROVE  StreamInv'
<1>1. /\ \A r \in Socket \ {s} : stream'[r] = stream[r]
      /\ Len(stream'[s]) = Len(stream[s]) - k
      /\ \A i \in 1 .. Len(stream[s]) - k : stream'[s][i] = stream[s][i + k]
  BY TakeFacts DEF TypeInv
<1>2. /\ Len(stream[s]) \in Nat /\ DOMAIN stream[s] = 1 .. Len(stream[s])
      /\ \A i \in 1 .. Len(stream[s]) : stream[s][i] \in Piece
  BY StreamPieces DEF TypeInv
<1>3. DOMAIN stream'[s] = 1 .. Len(stream[s]) - k
  BY <1>1, LenProperties DEF TypeInv, TypeOK
<1>4. ASSUME NEW i \in DOMAIN stream'[s]
      PROVE  /\ i + k \in DOMAIN stream[s] /\ stream'[s][i] = stream[s][i + k]
             /\ i \in Nat /\ stream[s][i + k] \in Piece
  BY <1>1, <1>2, <1>3
<1>5. InSequence(stream'[s])
  <2>1. ASSUME NEW i \in DOMAIN stream'[s], NEW j \in DOMAIN stream'[s], i < j
        PROVE  Behind(stream'[s][j], stream'[s][i], j - i)
    <3>1. i + k < j + k /\ (j + k) - (i + k) = j - i
      BY <1>4, <2>1
    <3>2. Behind(stream[s][j + k], stream[s][i + k], (j + k) - (i + k))
      BY <1>4, <3>1 DEF StreamInv, InSequence
    <3> QED
      BY <1>4, <3>1, <3>2
  <2> QED
    BY <2>1 DEF InSequence
<1>6. ASSUME NEW i \in DOMAIN stream'[s]
      PROVE  /\ stream'[s][i].sock = s
             /\ stream'[s][i].msg <= sent[s]
             /\ Parts - stream'[s][i].part <= Len(stream'[s]) - i
  <2>1. /\ stream[s][i + k].sock = s /\ stream[s][i + k].msg <= sent[s]
        /\ Parts - stream[s][i + k].part <= Len(stream[s]) - (i + k)
    BY <1>4 DEF StreamInv
  <2>2. Len(stream[s]) - (i + k) = Len(stream'[s]) - i
    BY <1>1, <1>2, <1>4
  <2> QED
    BY <1>4, <2>1, <2>2
<1> QED
  BY <1>1, <1>5, <1>6 DEF StreamInv

\* The pieces of a new message come behind those of the earlier ones.
LEMMA SendKeepsStream ==
    ASSUME TypeInv, TypeInv', StreamInv, NEW s \in Socket, PeerSends(s)
    PROVE  StreamInv'
<1> DEFINE L == Len(stream[s])
<1>1. /\ sent' = [sent EXCEPT ![s] = sent[s] + 1]
      /\ \A r \in Socket \ {s} : stream'[r] = stream[r]
      /\ Len(stream'[s]) = L + Parts
      /\ \A i \in 1 .. L : stream'[s][i] = stream[s][i]
      /\ \A i \in 1 .. Parts : stream'[s][L + i] = [sock |-> s, msg |-> sent[s] + 1, part |-> i]
  BY SendFacts DEF TypeInv
<1>2. /\ L \in Nat /\ DOMAIN stream[s] = 1 .. L
      /\ \A i \in 1 .. L : stream[s][i] \in Piece
      /\ sent[s] \in Nat /\ Parts \in Nat
  BY StreamPieces, ConnectionConstants DEF TypeInv
<1>3. DOMAIN stream'[s] = 1 .. L + Parts
  BY <1>1, LenProperties DEF TypeInv, TypeOK
<1>4. sent'[s] = sent[s] + 1 /\ \A r \in Socket \ {s} : sent'[r] = sent[r]
  BY <1>1 DEF TypeInv, TypeOK
<1>5. ASSUME NEW i \in 1 .. L
      PROVE  /\ stream'[s][i] = stream[s][i] /\ stream[s][i].sock = s
             /\ stream[s][i].msg \in Nat /\ stream[s][i].msg <= sent[s]
             /\ stream[s][i].part \in Nat /\ Parts - stream[s][i].part <= L - i
  BY <1>1, <1>2, PieceNumbers DEF StreamInv
<1> HIDE DEF L
<1>6. ASSUME NEW i \in 1 .. L + Parts, ~(i <= L)
      PROVE  /\ i - L \in 1 .. Parts /\ i \in Nat
             /\ stream'[s][i].sock = s
             /\ stream'[s][i].msg = sent[s] + 1
             /\ stream'[s][i].part = i - L
  <2> DEFINE k == i - L
  <2>1. k \in 1 .. Parts /\ i \in Nat /\ L + k = i
    BY <1>2, <1>6
  <2> HIDE DEF k
  <2>2. stream'[s][L + k] = [sock |-> s, msg |-> sent[s] + 1, part |-> k]
    BY <1>1, <2>1 DEF L
  <2>3. /\ stream'[s][i].sock = s /\ stream'[s][i].msg = sent[s] + 1
        /\ stream'[s][i].part = k
    BY <2>1, <2>2
  <2> QED
    BY <2>1, <2>3 DEF k
<1>7. InSequence(stream'[s])
  <2>1. ASSUME NEW i \in 1 .. L + Parts, NEW j \in 1 .. L + Parts, i < j
        PROVE  Behind(stream'[s][j], stream'[s][i], j - i)
    <3>1. CASE j <= L
      <4>1. i \in 1 .. L /\ j \in 1 .. L
        BY <1>2, <2>1, <3>1
      <4>2. Behind(stream[s][j], stream[s][i], j - i)
        BY <1>2, <2>1, <4>1 DEF StreamInv, InSequence
      <4> QED
        BY <1>5, <4>1, <4>2
    <3>2. CASE i <= L /\ ~(j <= L)
      <4>1. i \in 1 .. L
        BY <1>2, <3>2
      <4>2. /\ stream'[s][j].msg = sent[s] + 1 /\ stream'[s][j].part = j - L
            /\ j - L \in 1 .. Parts /\ j \in Nat
        BY <1>6, <3>2
      <4>3. /\ stream'[s][i].msg \in Nat /\ stream'[s][i].msg <= sent[s]
            /\ stream'[s][i].part \in Nat /\ Parts - stream'[s][i].part <= L - i
        BY <1>5, <4>1
      <4>4. stream'[s][i].msg < stream'[s][j].msg
        BY <1>2, <4>2, <4>3
      <4>5. (Parts - stream'[s][i].part) + stream'[s][j].part <= j - i
        BY <1>2, <4>1, <4>2, <4>3
      <4> QED
        BY <4>4, <4>5 DEF Behind
    <3>3. CASE ~(i <= L)
      <4>1. ~(j <= L)
        BY <1>2, <2>1, <3>3
      <4>2. /\ stream'[s][i].msg = sent[s] + 1 /\ stream'[s][i].part = i - L
            /\ stream'[s][j].msg = sent[s] + 1 /\ stream'[s][j].part = j - L
        BY <1>6, <3>3, <4>1
      <4>3. j - L = (i - L) + (j - i)
        BY <1>2
      <4> QED
        BY <4>2, <4>3 DEF Behind
    <3> QED
      BY <3>1, <3>2, <3>3
  <2> QED
    BY <1>3, <2>1 DEF InSequence
<1>8. ASSUME NEW i \in 1 .. L + Parts
      PROVE  /\ stream'[s][i].sock = s
             /\ stream'[s][i].msg <= sent'[s]
             /\ Parts - stream'[s][i].part <= Len(stream'[s]) - i
  <2>1. CASE i <= L
    <3>1. i \in 1 .. L
      BY <1>2, <2>1
    <3>2. /\ stream'[s][i].sock = s
          /\ stream'[s][i].msg \in Nat /\ stream'[s][i].msg <= sent[s]
          /\ stream'[s][i].part \in Nat /\ Parts - stream'[s][i].part <= L - i
      BY <1>5, <3>1
    <3>3. Len(stream'[s]) = L + Parts
      BY <1>1 DEF L
    <3>4. i \in Int /\ L \in Int /\ Parts \in Int
      BY <1>2, <3>1
    <3> DEFINE q == stream'[s][i]
    <3>5. q.msg <= sent'[s]
      BY <1>2, <1>4, <3>2
    <3>6. q.part \in Int /\ Parts - q.part <= L - i
      BY <3>2
    <3>7. Parts - q.part <= Len(stream'[s]) - i
      <4> HIDE DEF q
      <4>1. Parts - q.part <= (L + Parts) - i
        BY <1>2, <3>4, <3>6
      <4> QED
        BY <3>3, <4>1
    <3> QED
      BY <3>2, <3>5, <3>7
  <2>2. CASE ~(i <= L)
    <3>1. /\ stream'[s][i].sock = s /\ stream'[s][i].msg = sent[s] + 1
          /\ stream'[s][i].part = i - L /\ i \in Nat
      BY <1>6, <2>2
    <3>2. Len(stream'[s]) = L + Parts
      BY <1>1 DEF L
    <3> QED
      BY <1>2, <1>4, <3>1, <3>2
  <2> QED
    BY <2>1, <2>2
<1> QED
  BY <1>1, <1>3, <1>4, <1>7, <1>8 DEF StreamInv

\* A stream that is emptied is in sequence.
LEMMA EmptyInSequence == InSequence(<<>>) /\ DOMAIN <<>> = {}
BY DEF InSequence

\* Every step keeps the streams in sequence.
LEMMA StreamKept ==
    ASSUME TypeInv, TypeInv', StreamInv, [Next]_vars
    PROVE  StreamInv'
<1>1. ASSUME UNCHANGED <<stream, sent>>
      PROVE  StreamInv'
  BY <1>1 DEF StreamInv
<1>2. ASSUME NEW s \in Socket, stream' = [stream EXCEPT ![s] = <<>>], sent' = sent
      PROVE  StreamInv'
  <2>1. stream'[s] = <<>> /\ \A r \in Socket \ {s} : stream'[r] = stream[r]
    BY <1>2 DEF TypeInv, TypeOK
  <2> QED
    BY <1>2, <2>1, EmptyInSequence DEF StreamInv
<1>3. CASE UNCHANGED vars
  BY <1>1, <1>3 DEF vars
<1>4. ASSUME NEW u \in User, UserStep(u)
      PROVE  StreamInv'
  <2>1. CASE CloseSocket(u)
    BY <1>2, <2>1 DEF CloseSocket, TypeInv, PointersInv
  <2>2. CASE ~CloseSocket(u)
    BY <1>1, <1>4, <2>2 DEF UserStep, Connect, ConnectFails, Start, MarkConnected, DisConnect
  <2> QED
    BY <2>1, <2>2
<1>5. CASE HandleConnect
  BY <1>1, <1>5 DEF HandleConnect
<1>6. ASSUME NEW l \in Listener, MsgListener(l)
      PROVE  StreamInv'
  <2>1. CASE Recv(l)
    <3>1. listener[l].sock \in Socket
      BY <2>1 DEF Recv, TypeInv, PointersInv
    <3>2. \E k \in 1 .. Len(stream[listener[l].sock]) : Take(listener[l].sock, k)
      BY <2>1 DEF Recv
    <3>3. sent' = sent
      BY <2>1 DEF Recv
    <3> QED
      BY <3>1, <3>2, <3>3, TakeKeepsStream
  <2>2. CASE ~Recv(l)
    BY <1>1, <1>6, <2>2 DEF MsgListener, CheckStop, RecvEof, RecvError, ProcessMessages
  <2> QED
    BY <2>1, <2>2
<1>7. ASSUME NEW s \in Socket, PeerStep(s)
      PROVE  StreamInv'
  BY <1>1, <1>2, <1>7, SendKeepsStream DEF PeerStep, PeerCloses, PeerBreaks
<1> QED
  BY <1>3, <1>4, <1>5, <1>6, <1>7 DEF Next

-----------------------------------------------------------------------------
\* OrderInv and AloneInv are kept

\* What is in the stream after a message is sent was there or is of that message.
LEMMA NewPieces ==
    ASSUME TypeInv, TypeInv', NEW s \in Socket, PeerSends(s), NEW r \in Socket,
           NEW j \in DOMAIN stream'[r]
    PROVE  \/ j \in DOMAIN stream[r] /\ stream'[r][j] = stream[r][j]
           \/ r = s /\ stream'[s][j].msg = sent[s] + 1
<1> DEFINE L == Len(stream[s])
<1>1. /\ \A q \in Socket \ {s} : stream'[q] = stream[q]
      /\ Len(stream'[s]) = L + Parts
      /\ \A i \in 1 .. L : stream'[s][i] = stream[s][i]
      /\ \A i \in 1 .. Parts : stream'[s][L + i] = [sock |-> s, msg |-> sent[s] + 1, part |-> i]
  BY SendFacts DEF TypeInv
<1>2. L \in Nat /\ DOMAIN stream[s] = 1 .. L /\ Parts \in Nat
  BY StreamPieces, ConnectionConstants DEF TypeInv
<1>3. DOMAIN stream'[s] = 1 .. L + Parts
  BY <1>1, LenProperties DEF TypeInv, TypeOK
<1>4. CASE r = s /\ ~(j <= L)
  <2> DEFINE k == j - L
  <2> HIDE DEF L
  <2>1. k \in 1 .. Parts /\ L + k = j
    BY <1>2, <1>3, <1>4
  <2> HIDE DEF k
  <2>2. stream'[s][L + k] = [sock |-> s, msg |-> sent[s] + 1, part |-> k]
    BY <1>1, <2>1 DEF L
  <2> QED
    BY <1>4, <2>1, <2>2
<1>5. CASE r = s /\ j <= L
  BY <1>1, <1>2, <1>3, <1>5
<1>6. CASE r # s
  BY <1>1, <1>6
<1> QED
  BY <1>4, <1>5, <1>6

\* The buffer and its pieces.
LEMMA BufferPieces ==
    ASSUME TypeOK
    PROVE  /\ Len(m_recvbuf) \in Nat /\ DOMAIN m_recvbuf = 1 .. Len(m_recvbuf)
           /\ \A i \in DOMAIN m_recvbuf : m_recvbuf[i] \in Piece
           /\ m_recvbuf # <<>> => Len(m_recvbuf) > 0
BY LenProperties, ElementOfSeq, EmptySeq DEF TypeOK

\* What was handed on.
LEMMA HandedTyped ==
    ASSUME TypeOK, NEW s \in Socket
    PROVE  /\ handed[s] \in Seq(Nat) /\ DOMAIN handed[s] = 1 .. Len(handed[s])
           /\ \A i \in DOMAIN handed[s] : handed[s][i] \in Nat
<1>1. DOMAIN Sent \subseteq Nat
  BY ConnectionConstants, LenProperties
<1>2. handed[s] \in Seq(Nat)
  BY <1>1, SeqMonotonic DEF TypeOK
<1> QED
  BY <1>2, LenProperties, ElementOfSeq

\* A recv keeps the order: what it takes into the buffer was at the stream's front.
LEMMA RecvOrdered ==
    ASSUME TypeInv, TypeInv', StreamInv, HandedInv, NEW l \in Listener, Recv(l)
    PROVE  HandedInv' /\ BufferInv' /\ m_recvbuf'[1].sock = listener[l].sock
<1> DEFINE s == listener[l].sock
<1>1. s \in Socket /\ UNCHANGED <<sent, handed>>
  BY DEF Recv, TypeInv, PointersInv
<1>2. PICK k \in 1 .. Len(stream[s]) : Take(s, k)
  BY DEF Recv
<1>3. /\ m_recvbuf' \in Seq(Piece) /\ Len(m_recvbuf') = k
      /\ \A i \in 1 .. k : m_recvbuf'[i] = stream[s][i]
      /\ \A r \in Socket \ {s} : stream'[r] = stream[r]
      /\ Len(stream'[s]) = Len(stream[s]) - k
      /\ \A i \in 1 .. Len(stream[s]) - k : stream'[s][i] = stream[s][i + k]
  BY <1>1, <1>2, TakeFacts DEF TypeInv
<1>4. /\ Len(stream[s]) \in Nat /\ DOMAIN stream[s] = 1 .. Len(stream[s])
      /\ \A i \in 1 .. Len(stream[s]) : stream[s][i] \in Piece
  BY <1>1, StreamPieces DEF TypeInv
<1>5. DOMAIN stream'[s] = 1 .. Len(stream[s]) - k /\ DOMAIN m_recvbuf' = 1 .. k
  BY <1>1, <1>3, LenProperties DEF TypeInv, TypeOK
<1> HIDE DEF s
<1>6. ASSUME NEW j \in DOMAIN stream'[s]
      PROVE  j + k \in DOMAIN stream[s] /\ stream'[s][j] = stream[s][j + k] /\ j \in Nat /\ j > 0
  BY <1>3, <1>4, <1>5
<1>7. ASSUME NEW i \in DOMAIN m_recvbuf'
      PROVE  i \in DOMAIN stream[s] /\ m_recvbuf'[i] = stream[s][i] /\ i \in Nat /\ i <= k
  BY <1>3, <1>4, <1>5
<1>8. HandedInv'
  <2>1. ASSUME NEW r \in Socket, NEW i \in DOMAIN handed[r], NEW j \in DOMAIN stream'[r]
        PROVE  handed[r][i] < stream'[r][j].msg
    <3>1. CASE r = s
      <4>1. j + k \in DOMAIN stream[s] /\ stream'[s][j] = stream[s][j + k]
        BY <1>6, <2>1, <3>1
      <4>2. handed[s][i] < stream[s][j + k].msg
        BY <1>1, <2>1, <3>1, <4>1 DEF HandedInv
      <4> QED
        BY <3>1, <4>1, <4>2
    <3>2. CASE r # s
      <4>1. stream'[r] = stream[r]
        BY <1>3, <3>2
      <4> QED
        BY <2>1, <4>1 DEF HandedInv
    <3> QED
      BY <3>1, <3>2
  <2> QED
    BY <1>1, <2>1 DEF HandedInv
<1>9. InSequence(m_recvbuf')
  BY <1>1, <1>7 DEF StreamInv, InSequence
<1>10. ASSUME NEW i \in DOMAIN m_recvbuf'
       PROVE  /\ m_recvbuf'[i].sock = s
              /\ m_recvbuf'[i].msg <= sent[s]
              /\ \A h \in DOMAIN handed[s] : handed[s][h] < m_recvbuf'[i].msg
  BY <1>1, <1>7 DEF StreamInv, HandedInv
<1>11. ASSUME NEW i \in DOMAIN m_recvbuf', NEW j \in DOMAIN stream'[s]
       PROVE  \/ m_recvbuf'[i].msg < stream'[s][j].msg
              \/ /\ m_recvbuf'[i].msg = stream'[s][j].msg
                 /\ m_recvbuf'[i].part < stream'[s][j].part
  <2> DEFINE p == stream[s][i]
             q == stream[s][j + k]
             d == (j + k) - i
  <2>1. i < j + k /\ d \in Nat /\ d > 0
    BY <1>6, <1>7
  <2>2. Behind(q, p, d)
    BY <1>1, <1>6, <1>7, <2>1 DEF StreamInv, InSequence
  <2>3. p.part \in Nat
    BY <1>4, <1>7, PieceNumbers
  <2>4. m_recvbuf'[i] = p /\ stream'[s][j] = q
    BY <1>6, <1>7
  <2> HIDE DEF p, q, d
  <2> QED
    BY <2>1, <2>2, <2>3, <2>4 DEF Behind
<1>12. m_recvbuf'[1].sock = s
  BY <1>5, <1>10
<1> QED
  BY <1>1, <1>8, <1>9, <1>10, <1>11, <1>12 DEF BufferInv, s

\* What a chunk is parsed to is handed on in order.
LEMMA ProcessOrdered ==
    ASSUME TypeInv, TypeInv', OverlapInv, ~overlap, StreamInv, HandedInv, BufferInv,
           NEW l \in Listener, ProcessMessages(l)
    PROVE  HandedInv' /\ BufferInv'
<1> DEFINE s == m_recvbuf[1].sock
           parsed == SetToSeq(ParseMessage(m_recvbuf))
<1>1. m_recvbuf \in Seq(Piece) /\ m_recvbuf # <<>> /\ listener[l].pc = "process"
  BY DEF ProcessMessages, TypeInv, TypeOK, PointersInv
<1>2. m_recvbuf' = <<>>
  <2>1. \A k \in Listener \ {l} : listener[k].pc # "process"
    BY <1>1 DEF OverlapInv, Listening
  <2> QED
    BY <2>1 DEF ProcessMessages
<1>3. BufferInv'
  BY <1>2, EmptyInSequence DEF BufferInv
<1>4. /\ Len(m_recvbuf) \in Nat /\ Len(m_recvbuf) > 0 /\ DOMAIN m_recvbuf = 1 .. Len(m_recvbuf)
      /\ \A i \in DOMAIN m_recvbuf : m_recvbuf[i] \in Piece
  BY <1>1, BufferPieces DEF TypeInv
<1>5. s \in Socket
  BY <1>4 DEF Piece
<1>6. /\ handed' = [handed EXCEPT ![s] = handed[s] \o parsed]
      /\ UNCHANGED <<stream, sent>>
  BY DEF ProcessMessages
<1>7. /\ handed[s] \in Seq(Nat) /\ DOMAIN handed[s] = 1 .. Len(handed[s])
      /\ \A i \in DOMAIN handed[s] : handed[s][i] \in Nat
  BY <1>5, HandedTyped DEF TypeInv
<1>8. \A r \in Socket \ {s} : handed'[r] = handed[r]
  BY <1>6 DEF TypeInv, TypeOK
<1>9. handed'[s] = handed[s] \o parsed
  BY <1>5, <1>6 DEF TypeInv, TypeOK
<1>10. CASE parsed = <<>>
  <2>1. handed' = handed
    BY <1>6, <1>7, <1>10, ConcatEmptySeq DEF TypeInv, TypeOK
  <2> QED
    BY <1>3, <1>6, <2>1 DEF HandedInv
<1>11. ASSUME NEW m \in Messages(m_recvbuf), WellFormed(m_recvbuf), parsed = <<m>>
       PROVE  HandedInv'
  <2> HIDE DEF parsed
  <2>1. PICK x \in DOMAIN m_recvbuf : m = m_recvbuf[x].msg
    BY <1>11 DEF Messages, ToSet
  <2>2. m \in Nat
    BY <1>4, <2>1, PieceNumbers
  <2>3. m <= sent[s] /\ \A h \in DOMAIN handed[s] : handed[s][h] < m
    BY <2>1 DEF BufferInv
  <2>4. ASSUME NEW j \in DOMAIN stream[s]
        PROVE  m < stream[s][j].msg
    <3> DEFINE last == m_recvbuf[Len(m_recvbuf)]
    <3>1. Len(m_recvbuf) \in DOMAIN m_recvbuf /\ last.part = Parts
      BY <1>4, <1>11 DEF WellFormed
    <3>2. last.msg \in Nat /\ stream[s][j].msg \in Nat /\ stream[s][j].part \in Nat
          /\ stream[s][j].part <= Parts /\ Parts \in Nat
      BY <1>4, <1>5, <3>1, StreamPieces, PieceNumbers DEF TypeInv
    <3>3. m <= last.msg
      <4>1. x = Len(m_recvbuf) \/ x < Len(m_recvbuf)
        BY <1>4, <2>1
      <4>2. x < Len(m_recvbuf) => Behind(last, m_recvbuf[x], Len(m_recvbuf) - x)
        BY <3>1 DEF BufferInv, InSequence
      <4> QED
        BY <2>1, <2>2, <3>2, <4>1, <4>2 DEF Behind
    <3>4. last.msg < stream[s][j].msg \/ (last.msg = stream[s][j].msg /\ Parts < stream[s][j].part)
      BY <3>1 DEF BufferInv
    <3> QED
      BY <2>2, <3>2, <3>3, <3>4
  <2> DEFINE H == handed[s]
             G == handed[s] \o parsed
  <2>5. /\ DOMAIN G = 1 .. Len(H) + 1 /\ Len(H) \in Nat
        /\ \A i \in 1 .. Len(H) : G[i] = H[i]
        /\ G[Len(H) + 1] = m
    <3>1. <<m>> \in Seq(Nat) /\ Len(<<m>>) = 1
      BY <2>2, OneElement
    <3>2. /\ G \in Seq(Nat) /\ Len(G) = Len(H) + 1
          /\ \A i \in 1 .. Len(H) + 1 : G[i] = IF i <= Len(H) THEN H[i] ELSE <<m>>[i - Len(H)]
      BY <1>7, <1>11, <3>1, ConcatProperties
    <3>3. Len(H) \in Nat /\ DOMAIN G = 1 .. Len(G)
      BY <1>7, <3>2, LenProperties
    <3> HIDE DEF G, H
    <3>4. G[Len(H) + 1] = m
      <4>1. /\ Len(H) + 1 \in 1 .. Len(H) + 1 /\ ~(Len(H) + 1 <= Len(H))
            /\ Len(H) + 1 - Len(H) = 1
        BY <3>3
      <4>2. G[Len(H) + 1] = <<m>>[Len(H) + 1 - Len(H)]
        BY <3>2, <4>1
      <4> QED
        BY <4>1, <4>2
    <3>5. \A i \in 1 .. Len(H) : G[i] = H[i]
      <4>1. \A i \in 1 .. Len(H) : i \in 1 .. Len(H) + 1 /\ i <= Len(H)
        BY <3>3
      <4> QED
        BY <3>2, <4>1
    <3> QED
      BY <3>2, <3>3, <3>4, <3>5
  <2> HIDE DEF G
  <2>6. Increasing(G)
    <3>1. ASSUME NEW i \in DOMAIN G, NEW j \in DOMAIN G, i < j
          PROVE  G[i] < G[j]
      <4>1. i \in DOMAIN H
        BY <1>7, <2>5, <3>1
      <4>2. CASE j \in DOMAIN H
        BY <1>5, <1>7, <2>5, <3>1, <4>1, <4>2 DEF HandedInv, Increasing
      <4>3. CASE j = Len(H) + 1
        BY <1>7, <2>3, <2>5, <4>1, <4>3
      <4> QED
        BY <1>7, <2>5, <4>2, <4>3
    <3> QED
      BY <3>1 DEF Increasing
  <2>7. ASSUME NEW i \in DOMAIN G
        PROVE  G[i] <= sent[s] /\ \A j \in DOMAIN stream[s] : G[i] < stream[s][j].msg
    <3>1. CASE i \in DOMAIN H
      BY <1>5, <1>7, <2>5, <3>1 DEF HandedInv
    <3>2. CASE i = Len(H) + 1
      BY <2>3, <2>4, <2>5, <3>2
    <3> QED
      BY <1>7, <2>5, <3>1, <3>2
  <2>8. handed'[s] = G
    BY <1>9 DEF G
  <2> QED
    BY <1>5, <1>6, <1>8, <2>6, <2>7, <2>8 DEF HandedInv
<1> QED
  BY <1>1, <1>3, <1>10, <1>11, HandedOn

\* A listener that overlaps with another one has done so ever since.
LEMMA UserKeepsOverlap ==
    ASSUME NEW u \in User, UserStep(u), ~overlap'
    PROVE  ~overlap
<1>1. CASE Start(u)
  BY <1>1, Zenon DEF Start
<1>2. CASE ~Start(u)
  <2>1. UNCHANGED overlap
    BY <1>2 DEF UserStep, Connect, ConnectFails, MarkConnected, DisConnect, CloseSocket
  <2> QED
    BY <2>1
<1> QED
  BY <1>1, <1>2

\* Every step keeps what is handed on in order, as long as one thread listens.
LEMMA OrderKept ==
    ASSUME TypeInv, TypeInv', OverlapInv, StreamInv, OrderInv, [Next]_vars
    PROVE  OrderInv'
<1>1. ASSUME UNCHANGED <<stream, sent, handed, m_recvbuf, overlap>>
      PROVE  OrderInv'
  BY <1>1 DEF OrderInv, HandedInv, BufferInv
<1>2. CASE UNCHANGED vars
  BY <1>1, <1>2 DEF vars
<1> SUFFICES ASSUME Next, ~overlap' PROVE HandedInv' /\ BufferInv'
  BY <1>2 DEF OrderInv
<1>3. ASSUME ~overlap, NEW s \in Socket, stream' = [stream EXCEPT ![s] = <<>>],
             UNCHANGED <<sent, handed, m_recvbuf>>
      PROVE  HandedInv' /\ BufferInv'
  <2>1. stream'[s] = <<>> /\ \A r \in Socket \ {s} : stream'[r] = stream[r]
    BY <1>3 DEF TypeInv, TypeOK
  <2>2. \A r \in Socket : DOMAIN stream'[r] \subseteq DOMAIN stream[r]
                          /\ \A j \in DOMAIN stream'[r] : stream'[r][j] = stream[r][j]
    BY <2>1, EmptyInSequence
  <2>3. \A i \in DOMAIN m_recvbuf : m_recvbuf[1].sock \in Socket
    <3>1. \A i \in DOMAIN m_recvbuf : 1 \in DOMAIN m_recvbuf
      BY BufferPieces DEF TypeInv
    <3> QED
      BY <3>1, BufferPieces DEF TypeInv, Piece
  <2>4. HandedInv'
    BY <1>3, <2>2 DEF OrderInv, HandedInv
  <2>5. BufferInv'
    BY <1>3, <2>2, <2>3 DEF OrderInv, BufferInv
  <2> QED
    BY <2>4, <2>5
<1>4. ASSUME NEW u \in User, UserStep(u)
      PROVE  HandedInv' /\ BufferInv'
  <2>1. CASE CloseSocket(u)
    <3>1. /\ m_connSocket \in Socket /\ stream' = [stream EXCEPT ![m_connSocket] = <<>>]
          /\ UNCHANGED <<sent, handed, m_recvbuf, overlap>>
      BY <2>1 DEF CloseSocket, TypeInv, PointersInv
    <3> QED
      BY <1>3, <3>1
  <2>2. CASE ~CloseSocket(u)
    <3>1. UNCHANGED <<stream, sent, handed, m_recvbuf>>
      BY <1>4, <2>2 DEF UserStep, Connect, ConnectFails, Start, MarkConnected, DisConnect
    <3>2. ~overlap
      BY <1>4, UserKeepsOverlap
    <3> QED
      BY <3>1, <3>2 DEF OrderInv, HandedInv, BufferInv
  <2> QED
    BY <2>1, <2>2
<1>5. CASE HandleConnect
  <2>1. UNCHANGED <<stream, sent, handed, m_recvbuf, overlap>>
    BY <1>5 DEF HandleConnect
  <2> QED
    BY <1>1, <2>1 DEF OrderInv
<1>6. ASSUME NEW l \in Listener, MsgListener(l)
      PROVE  HandedInv' /\ BufferInv'
  <2>1. overlap' = overlap /\ HandedInv /\ BufferInv
    BY <1>6 DEF MsgListener, CheckStop, Recv, RecvEof, RecvError, ProcessMessages, OrderInv
  <2>2. CASE Recv(l)
    BY <2>1, <2>2, RecvOrdered
  <2>3. CASE ProcessMessages(l)
    BY <2>1, <2>3, ProcessOrdered
  <2>4. CASE CheckStop(l) \/ RecvEof(l) \/ RecvError(l)
    <3>1. UNCHANGED <<stream, sent, handed, m_recvbuf, overlap>>
      BY <2>4 DEF CheckStop, RecvEof, RecvError
    <3> QED
      BY <1>1, <3>1 DEF OrderInv
  <2> QED
    BY <1>6, <2>2, <2>3, <2>4 DEF MsgListener
<1>7. ASSUME NEW s \in Socket, PeerSends(s)
      PROVE  HandedInv' /\ BufferInv'
  <2>1. UNCHANGED <<handed, m_recvbuf, overlap>>
    BY <1>7, Zenon DEF PeerSends
  <2>2. /\ sent'[s] = sent[s] + 1 /\ \A r \in Socket \ {s} : sent'[r] = sent[r]
        /\ \A r \in Socket : sent[r] \in Nat
    BY <1>7, SendFacts DEF TypeInv, TypeOK
  <2>3. HandedInv /\ BufferInv
    BY <2>1 DEF OrderInv
  <2>4. ASSUME NEW r \in Socket, NEW i \in DOMAIN handed[r]
        PROVE  /\ handed[r][i] <= sent'[r]
               /\ \A j \in DOMAIN stream'[r] : handed[r][i] < stream'[r][j].msg
    <3>1. handed[r][i] \in Nat /\ handed[r][i] <= sent[r]
      BY <2>3, HandedTyped DEF HandedInv, TypeInv
    <3>2. handed[r][i] <= sent'[r] /\ (r = s => handed[r][i] < sent[s] + 1)
      BY <2>2, <3>1
    <3>3. ASSUME NEW j \in DOMAIN stream'[r]
          PROVE  handed[r][i] < stream'[r][j].msg
      BY <1>7, <2>3, <3>2, NewPieces DEF HandedInv
    <3> QED
      BY <3>2, <3>3
  <2>5. HandedInv'
    BY <2>1, <2>3, <2>4 DEF HandedInv
  <2>6. ASSUME NEW i \in DOMAIN m_recvbuf
        PROVE  LET r == m_recvbuf[1].sock
               IN  /\ m_recvbuf[i].msg <= sent'[r]
                   /\ \A j \in DOMAIN stream'[r] :
                          \/ m_recvbuf[i].msg < stream'[r][j].msg
                          \/ /\ m_recvbuf[i].msg = stream'[r][j].msg
                             /\ m_recvbuf[i].part < stream'[r][j].part
    <3> DEFINE r == m_recvbuf[1].sock
    <3>1. r \in Socket /\ m_recvbuf[i].msg \in Nat
      <4>1. 1 \in DOMAIN m_recvbuf
        BY BufferPieces DEF TypeInv
      <4> QED
        BY <4>1, BufferPieces, PieceNumbers DEF TypeInv
    <3>2. m_recvbuf[i].msg <= sent[r]
      BY <2>3 DEF BufferInv
    <3>3. m_recvbuf[i].msg <= sent'[r] /\ (r = s => m_recvbuf[i].msg < sent[s] + 1)
      BY <2>2, <3>1, <3>2
    <3>4. ASSUME NEW j \in DOMAIN stream'[r]
          PROVE  \/ m_recvbuf[i].msg < stream'[r][j].msg
                 \/ /\ m_recvbuf[i].msg = stream'[r][j].msg
                    /\ m_recvbuf[i].part < stream'[r][j].part
      <4>1. CASE j \in DOMAIN stream[r] /\ stream'[r][j] = stream[r][j]
        BY <2>3, <4>1 DEF BufferInv
      <4>2. CASE r = s /\ stream'[s][j].msg = sent[s] + 1
        BY <3>3, <4>2
      <4> QED
        BY <1>7, <3>1, <4>1, <4>2, NewPieces
    <3> QED
      BY <3>3, <3>4
  <2>7. BufferInv'
    BY <2>1, <2>3, <2>6 DEF BufferInv
  <2> QED
    BY <2>5, <2>7
<1>8. ASSUME NEW s \in Socket, PeerCloses(s)
      PROVE  HandedInv' /\ BufferInv'
  BY <1>1, <1>8 DEF PeerCloses, OrderInv
<1>9. ASSUME NEW s \in Socket, PeerBreaks(s)
      PROVE  HandedInv' /\ BufferInv'
  BY <1>3, <1>9 DEF PeerBreaks
<1> QED
  BY <1>4, <1>5, <1>6, <1>7, <1>8, <1>9 DEF Next, PeerStep

\* A chunk that is a message's pieces from the first to the last and no longer
\* than one message holds this message alone.
LEMMA WholeChunk ==
    ASSUME NEW chunk \in Seq(Piece), chunk # <<>>, InSequence(chunk), WellFormed(chunk),
           Len(chunk) = Parts
    PROVE  Messages(chunk) = {chunk[1].msg}
<1>1. Len(chunk) \in Nat /\ Len(chunk) > 0 /\ DOMAIN chunk = 1 .. Len(chunk)
  BY EmptySeq, LenProperties
<1>2. \A i \in DOMAIN chunk : /\ chunk[i] \in Piece /\ chunk[i].msg \in Nat
                              /\ chunk[i].part \in Nat
  BY <1>1, ElementOfSeq, PieceNumbers
<1> DEFINE n == Len(chunk)
<1>3. 1 \in DOMAIN chunk /\ n \in DOMAIN chunk /\ n = Parts
  BY <1>1
<1>4. chunk[1].part = 1 /\ chunk[n].part = n
  BY <1>3 DEF WellFormed
<1>5. chunk[n].msg = chunk[1].msg
  <2>1. CASE n = 1
    BY <2>1
  <2>2. CASE 1 < n
    <3>1. Behind(chunk[n], chunk[1], n - 1)
      BY <1>3, <2>2 DEF InSequence
    <3>2. ~((n - 1) + n <= n - 1)
      BY <1>1
    <3> QED
      BY <1>3, <1>4, <3>1, <3>2 DEF Behind
  <2> QED
    BY <1>1, <2>1, <2>2
<1>6. ASSUME NEW i \in DOMAIN chunk
      PROVE  chunk[i].msg = chunk[1].msg
  <2>1. chunk[1].msg <= chunk[i].msg
    <3>1. i = 1 \/ 1 < i
      BY <1>1
    <3>2. 1 < i => Behind(chunk[i], chunk[1], i - 1)
      BY <1>3 DEF InSequence
    <3> QED
      BY <1>2, <1>3, <3>1, <3>2 DEF Behind
  <2>2. chunk[i].msg <= chunk[n].msg
    <3>1. i = n \/ i < n
      BY <1>1
    <3>2. i < n => Behind(chunk[n], chunk[i], n - i)
      BY <1>3 DEF InSequence
    <3> QED
      BY <1>2, <1>3, <3>1, <3>2 DEF Behind
  <2> QED
    BY <1>2, <1>3, <1>5, <2>1, <2>2
<1> QED
  BY <1>3, <1>6 DEF Messages, ToSet

\* A step that neither receives nor processes keeps what AloneInv says of each message.
LEMMA AloneUntouched ==
    ASSUME TypeInv, AloneInv, UNCHANGED <<alone, handed, m_recvbuf>>, ~overlap,
           \A l \in Listener : listener[l].pc = "process" => listener'[l] = listener[l]
    PROVE  AloneInv'
BY DEF AloneInv, Listening

\* Every step keeps AloneInv.
LEMMA AloneKept ==
    ASSUME TypeInv, TypeInv', OverlapInv, StreamInv, OrderInv, AloneInv, [Next]_vars
    PROVE  AloneInv'
<1>1. CASE UNCHANGED vars
  BY <1>1 DEF vars, AloneInv, Listening
<1> SUFFICES ASSUME Next, ~overlap' PROVE AloneInv'
  BY <1>1 DEF AloneInv
<1>2. ASSUME NEW u \in User, UserStep(u)
      PROVE  AloneInv'
  <2>1. UNCHANGED <<alone, handed, m_recvbuf>> /\ ~overlap
    <3>1. UNCHANGED <<alone, handed, m_recvbuf>>
      BY <1>2 DEF UserStep, Connect, ConnectFails, Start, MarkConnected, DisConnect, CloseSocket
    <3> QED
      BY <1>2, <3>1, UserKeepsOverlap
  <2>2. \A l \in Listener : listener[l].pc = "process" => listener'[l] = listener[l]
    <3>1. CASE Start(u)
      <4>1. NewListener \in Listener /\ listener[NewListener].pc = "none"
        BY <3>1, NewOnes DEF Start, TypeInv, PointersInv
      <4> QED
        BY <3>1, <4>1, ListenerStarts DEF Start
    <3>2. CASE ~Start(u)
      BY <1>2, <3>2 DEF UserStep, Connect, ConnectFails, MarkConnected, DisConnect, CloseSocket
    <3> QED
      BY <3>1, <3>2
  <2> QED
    BY <2>1, <2>2, AloneUntouched
<1>3. CASE HandleConnect
  <2>1. UNCHANGED <<alone, handed, m_recvbuf, overlap>>
    BY <1>3 DEF HandleConnect
  <2>2. \A l \in Listener : listener[l].pc = "none"
    BY <1>3 DEF HandleConnect, TypeInv, PointersInv
  <2> QED
    BY <2>1, <2>2, AloneUntouched
<1>4. ASSUME NEW s \in Socket, PeerStep(s)
      PROVE  AloneInv'
  <2>1. UNCHANGED <<alone, handed, m_recvbuf, overlap, listener>>
    BY <1>4, Zenon DEF PeerStep, PeerSends, PeerCloses, PeerBreaks
  <2> QED
    BY <2>1, AloneUntouched
<1>5. ASSUME NEW l \in Listener, CheckStop(l) \/ RecvEof(l) \/ RecvError(l)
      PROVE  AloneInv'
  <2>1. UNCHANGED <<alone, handed, m_recvbuf, overlap>> /\ listener[l].pc # "process"
    BY <1>5 DEF CheckStop, RecvEof, RecvError
  <2>2. \A k \in Listener \ {l} : listener'[k] = listener[k]
    BY <1>5, ListenerMoves DEF MsgListener
  <2> QED
    BY <2>1, <2>2, AloneUntouched
<1>6. ASSUME NEW l \in Listener, Recv(l)
      PROVE  AloneInv'
  <2> DEFINE s == listener[l].sock
  <2>1. /\ ~overlap /\ handed' = handed /\ listener[l].pc = "recv" /\ s \in Socket
        /\ alone' = IF WellFormed(m_recvbuf') /\ Len(m_recvbuf') = Parts
                    THEN [alone EXCEPT ![s] = @ \union Messages(m_recvbuf')] ELSE alone
    BY <1>6 DEF Recv, TypeInv, PointersInv
  <2>2. \A k \in Listening : listener[k].pc # "process"
    BY <2>1 DEF OverlapInv, Listening
  <2>3. \A r \in Socket : \A m \in alone[r] : m \in ToSet(handed[r])
    BY <2>1, <2>2 DEF AloneInv
  <2>4. l \in Listening' /\ listener'[l].pc = "process"
    BY <1>6 DEF Recv, TypeInv, TypeOK, Listening
  <2>5. CASE WellFormed(m_recvbuf') /\ Len(m_recvbuf') = Parts
    <3>1. BufferInv' /\ m_recvbuf'[1].sock = s
      BY <1>6, <2>1, RecvOrdered DEF OrderInv
    <3>2. m_recvbuf' \in Seq(Piece) /\ m_recvbuf' # <<>>
      BY <2>4 DEF TypeInv, TypeOK, PointersInv, Listening
    <3>3. Messages(m_recvbuf') = {m_recvbuf'[1].msg}
      BY <2>5, <3>1, <3>2, WholeChunk DEF BufferInv
    <3>4. \A r \in Socket : \A m \in alone'[r] :
              m \in alone[r] \/ (r = s /\ Messages(m_recvbuf') = {m})
      BY <2>1, <2>5, <3>3 DEF TypeInv, TypeOK
    <3> QED
      BY <2>1, <2>3, <2>4, <2>5, <3>1, <3>4 DEF AloneInv
  <2>6. CASE ~(WellFormed(m_recvbuf') /\ Len(m_recvbuf') = Parts)
    BY <2>1, <2>3, <2>6 DEF AloneInv
  <2> QED
    BY <2>5, <2>6
<1>7. ASSUME NEW l \in Listener, ProcessMessages(l)
      PROVE  AloneInv'
  <2> DEFINE s == m_recvbuf[1].sock
             parsed == SetToSeq(ParseMessage(m_recvbuf))
  <2>1. /\ m_recvbuf \in Seq(Piece) /\ m_recvbuf # <<>>
        /\ alone' = alone /\ ~overlap
        /\ handed' = [handed EXCEPT ![s] = handed[s] \o parsed]
    BY <1>7 DEF ProcessMessages, TypeInv, TypeOK, PointersInv
  <2>2. s \in Socket
    <3>1. 1 \in DOMAIN m_recvbuf
      BY <2>1, BufferPieces DEF TypeInv
    <3> QED
      BY <3>1, BufferPieces DEF TypeInv, Piece
  <2>3. parsed \in Seq(DOMAIN Sent) /\ (WellFormed(m_recvbuf) =>
            \E m \in Messages(m_recvbuf) : parsed = <<m>>)
    <3>1. /\ parsed = <<>> \/ \E m \in DOMAIN Sent : parsed = <<m>>
          /\ WellFormed(m_recvbuf) => \E m \in Messages(m_recvbuf) : parsed = <<m>>
      BY <2>1, HandedOn
    <3> QED
      BY <3>1, OneElement, EmptySeq
  <2> HIDE DEF parsed
  <2>4. /\ handed'[s] = handed[s] \o parsed
        /\ \A r \in Socket \ {s} : handed'[r] = handed[r]
    BY <2>1, <2>2 DEF TypeInv, TypeOK
  <2>5. ToSet(handed'[s]) = ToSet(handed[s]) \union ToSet(parsed)
    BY <2>2, <2>3, <2>4, ConcatToSet DEF TypeInv, TypeOK
  <2>6. ASSUME NEW r \in Socket, NEW m \in alone[r]
        PROVE  m \in ToSet(handed'[r])
    <3>1. CASE m \in ToSet(handed[r])
      BY <2>4, <2>5, <3>1
    <3>2. CASE r = s /\ WellFormed(m_recvbuf) /\ Messages(m_recvbuf) = {m}
      <4>1. parsed = <<m>>
        BY <2>3, <3>2
      <4>2. m \in ToSet(parsed)
        BY <4>1 DEF ToSet
      <4> QED
        BY <2>5, <3>2, <4>2
    <3> QED
      BY <2>1, <3>1, <3>2 DEF AloneInv
  <2> QED
    BY <2>1, <2>6 DEF AloneInv
<1> QED
  BY <1>2, <1>3, <1>4, <1>5, <1>6, <1>7 DEF Next, MsgListener

-----------------------------------------------------------------------------
\* Theorems

\* A node that was not made yet satisfies all of it.
LEMMA InitConnection == Init => ConnectionInv
<1> SUFFICES ASSUME Init PROVE ConnectionInv
  OBVIOUS
<1>1. ListenInv /\ OverlapInv
  BY DEF Init, ListenInv, OverlapInv, Listening
<1>2. StreamInv /\ OrderInv
  BY EmptyInSequence DEF Init, StreamInv, OrderInv, HandedInv, BufferInv, Increasing
<1>3. AloneInv
  BY DEF Init, AloneInv
<1> QED
  BY <1>1, <1>2, <1>3, InitTyped DEF ConnectionInv

\* Every step keeps all of it.
LEMMA StepConnection == ConnectionInv /\ [Next]_vars => ConnectionInv'
BY StepTyped, OverlapKept, ListenKept, StreamKept, OrderKept, AloneKept DEF ConnectionInv

\* All of it holds in every state.
LEMMA AlwaysConnection == Spec => []ConnectionInv
BY InitConnection, StepConnection, PTL DEF Spec

\* Sockets, buffers and queues hold what they are for: no step follows a
\* Connection that is not there or parses an empty buffer.
THEOREM ConnectionTypeCorrect == Spec => []TypeOK
<1>1. ConnectionInv => TypeOK
  BY DEF ConnectionInv, TypeInv
<1> QED
  BY <1>1, AlwaysConnection, PTL

\* Connect, Start, a listener's end and HandleConnectionBroken, of any number of
\* threads: without a DisConnect a node never has two listeners.
THEOREM ListensOnce == Spec => []OneListener
<1>1. ConnectionInv => OneListener
  BY DEF ConnectionInv, ListenInv, OneListener
<1> QED
  BY <1>1, AlwaysConnection, PTL

\* A connected node without a listener has been closed by the other side, or
\* the failure of its socket was reported.
THEOREM NoSilentDeafness == Spec => []DeafWasTold
<1>1. ConnectionInv => DeafWasTold
  BY DEF ConnectionInv, ListenInv, DeafWasTold
<1> QED
  BY <1>1, AlwaysConnection, PTL

\* However recv cuts and joins a stream, of messages of any number of pieces,
\* the peer's queue gets a socket's messages in order and none twice.
THEOREM StreamKeepsOrder == Spec => []HandedInOrder
<1>1. ConnectionInv => HandedInOrder
  BY DEF ConnectionInv, OrderInv, HandedInv, Increasing, HandedInOrder
<1> QED
  BY <1>1, AlwaysConnection, PTL

\* A message that a recv returned whole and alone reaches the peer's queue.
THEOREM WholeMessagesArrive == Spec => []AloneIsHanded
<1>1. ConnectionInv => AloneIsHanded
  BY DEF ConnectionInv, AloneInv, AloneIsHanded
<1> QED
  BY <1>1, AlwaysConnection, PTL
=============================================================================
