--------------------------- MODULE MessagesProofs ---------------------------
(***************************************************************************)
(* Theorems about Messages, for any owners, workers, tasks, parameters,    *)
(* lists and results.                                                      *)
(*                                                                         *)
(* The first part reads what the programs write: one lemma for each kind   *)
(* of message says which handler its receiver calls, and with what.  The   *)
(* second part says of every document that is on its way which kind it is  *)
(* (DocumentInv), and of every job which request it was made for (JobInv). *)
(***************************************************************************)
EXTENDS Messages, DataLemmas

\* What the constants are.
LEMMA ConstantFacts ==
    /\ \A p \in Peer : p \in Nat /\ p # 0 /\ p # Coordinator
    /\ Owner \subseteq Peer /\ Worker \subseteq Peer
    /\ \A i \in DOMAIN m_paramList : m_paramList[i] \in STRING /\ ~Blank(m_paramList[i])
    /\ \A i, j \in DOMAIN m_paramList : m_paramList[i] = m_paramList[j] => i = j
    /\ \A l \in PeerLists : l.ts \in Nat /\ l.peers \in Seq(Peer) /\ l.peers # <<>>
    /\ \A lines \in ResultLists : lines \in Seq(STRING)
    /\ MaxNodes \in Nat /\ MaxTasks \in Nat
<1>1. \A p \in Peer : p \in Nat /\ p # 0 /\ p # Coordinator
  BY MessagesConstants
<1>2. Owner \subseteq Peer /\ Worker \subseteq Peer
  BY DEF Peer
<1>3. m_paramList \in Seq(STRING) /\ \A i \in DOMAIN m_paramList : ~Blank(m_paramList[i])
  BY MessagesConstants
<1>4. ASSUME NEW i \in DOMAIN m_paramList PROVE m_paramList[i] \in STRING
  <2>1. DOMAIN m_paramList = 1 .. Len(m_paramList) BY <1>3, LenProperties
  <2>2. QED BY <1>3, <1>4, <2>1, ElementOfSeq
<1>5. \A i, j \in DOMAIN m_paramList : m_paramList[i] = m_paramList[j] => i = j
  BY MessagesConstants DEF IsInjective
<1>6. /\ \A l \in PeerLists : l.ts \in Nat /\ l.peers \in Seq(Peer) /\ l.peers # <<>>
      /\ \A lines \in ResultLists : lines \in Seq(STRING)
      /\ MaxNodes \in Nat /\ MaxTasks \in Nat
  BY MessagesConstants
<1>7. QED BY <1>1, <1>2, <1>3, <1>4, <1>5, <1>6

-----------------------------------------------------------------------------
\* Elements

\* The element of that name, or the default.
Get(els, name, default) == IF name \in DOMAIN els THEN els[name] ELSE default

\* Child looks a name up among the elements.
LEMMA ChildIsGet ==
    ASSUME NEW doc, NEW name, NEW default
    PROVE  Child(doc, name, default) = Get(doc.els, name, default)
BY DEF Child, Get

\* Joined elements: those of the first, then those of the second.
LEMMA GetJoin ==
    ASSUME NEW els, NEW more
    PROVE  /\ DOMAIN els \subseteq DOMAIN Join(els, more)
           /\ \A name \in DOMAIN els : Join(els, more)[name] = els[name]
           /\ \A name, default : Get(Join(els, more), name, default) =
                  IF name \in DOMAIN els THEN els[name] ELSE Get(more, name, default)
<1> DEFINE j == Join(els, more)
<1>1. /\ DOMAIN j = DOMAIN els \union DOMAIN more
      /\ \A name \in DOMAIN els : j[name] = els[name]
      /\ \A name \in DOMAIN more \ DOMAIN els : j[name] = more[name]
  BY DEF Join
<1> HIDE DEF j
<1>2. ASSUME NEW name, NEW default
      PROVE  Get(j, name, default) = IF name \in DOMAIN els THEN els[name] ELSE Get(more, name, default)
  BY <1>1 DEF Get
<1>3. QED BY <1>1, <1>2 DEF j

\* An element that may be missing: its name and what is in it.
LEMMA IfAnyFacts ==
    ASSUME NEW elem, NEW content
    PROVE  /\ DOMAIN IfAny(elem, content) = IF DOMAIN content # {} THEN {elem} ELSE {}
           /\ DOMAIN content # {} => IfAny(elem, content)[elem] = content
<1>1. CASE DOMAIN content = {}
  <2>1. IfAny(elem, content) = <<>> BY <1>1 DEF IfAny
  <2>2. DOMAIN IfAny(elem, content) = {} BY <2>1
  <2>3. QED BY <1>1, <2>2
<1>2. CASE DOMAIN content # {}
  <2>1. IfAny(elem, content) = [n \in {elem} |-> content] BY <1>2 DEF IfAny
  <2>2. QED BY <1>2, <2>1
<1>3. QED BY <1>1, <1>2

\* An element that may be missing.
LEMMA GetIfAny ==
    ASSUME NEW elem, NEW content, NEW name, NEW default
    PROVE  Get(IfAny(elem, content), name, default) =
               IF name = elem /\ DOMAIN content # {} THEN content ELSE default
<1> DEFINE f == IfAny(elem, content)
<1>1. /\ DOMAIN f = IF DOMAIN content # {} THEN {elem} ELSE {}
      /\ DOMAIN content # {} => f[elem] = content
  BY IfAnyFacts
<1> HIDE DEF f
<1>2. QED BY <1>1 DEF Get, f

\* A timestamp of 0 and an empty list are missing.
LEMMA GetTimestampAndList ==
    ASSUME NEW ts \in Nat, NEW peerList
    PROVE  LET els == TimestampAndList(ts, peerList)
           IN  /\ Get(els, "timestamp", 0) = ts
               /\ Get(els, "peerlist", <<>>) = IF DOMAIN peerList # {} THEN peerList ELSE <<>>
               /\ \A name, default : name \notin {"timestamp", "peerlist"} => Get(els, name, default) = default
<1> DEFINE stamp == IF ts > 0 THEN [timestamp |-> ts] ELSE <<>>
           els == TimestampAndList(ts, peerList)
<1>1. /\ ts > 0 => DOMAIN stamp = {"timestamp"} /\ stamp["timestamp"] = ts
      /\ ~(ts > 0) => DOMAIN stamp = {}
  BY ZenonT(20), SMT
<1>2. els = Join(stamp, IfAny("peerlist", peerList)) BY DEF TimestampAndList
<1> HIDE DEF stamp, els
<1>3. \A name, default : Get(els, name, default) =
          IF name \in DOMAIN stamp THEN stamp[name] ELSE Get(IfAny("peerlist", peerList), name, default)
  BY <1>2, GetJoin
<1>4. \A name, default : Get(IfAny("peerlist", peerList), name, default) =
          IF name = "peerlist" /\ DOMAIN peerList # {} THEN peerList ELSE default
  BY GetIfAny
<1>5. Get(els, "timestamp", 0) = ts BY <1>1, <1>3, <1>4
<1>6. Get(els, "peerlist", <<>>) = IF DOMAIN peerList # {} THEN peerList ELSE <<>> BY <1>1, <1>3, <1>4
<1>7. \A name, default : name \notin {"timestamp", "peerlist"} => Get(els, name, default) = default
  BY <1>1, <1>3, <1>4
<1>8. QED BY <1>5, <1>6, <1>7 DEF els

\* What a peer or the coordinator finds in a request.
LEMMA RequestElements ==
    ASSUME NEW type, NEW from, NEW port, NEW taskMap, NEW resultList
    PROVE  LET doc == RequestXML(type, from, port, taskMap, resultList)
           IN  /\ Has(doc, "Request", RequestHeader)
               /\ doc.els["type"] = type /\ doc.els["frompeer"] = from /\ doc.els["listenport"] = port
               /\ Child(doc, "task", <<>>) = IF DOMAIN taskMap # {} THEN taskMap ELSE <<>>
               /\ Child(doc, "result", <<>>) = IF DOMAIN resultList # {} THEN resultList ELSE <<>>
<1> DEFINE h == [type |-> type, frompeer |-> from, listenport |-> port]
           body == Join(IfAny("task", taskMap), IfAny("result", resultList))
           els == Join(h, body)
           doc == RequestXML(type, from, port, taskMap, resultList)
<1>1. /\ DOMAIN h = {"type", "frompeer", "listenport"}
      /\ h["type"] = type /\ h["frompeer"] = from /\ h["listenport"] = port
  OBVIOUS
<1>2. doc.root = "Request" /\ doc.els = els BY DEF RequestXML
<1>3. \A name, default : Get(body, name, default) =
          IF name = "task" /\ DOMAIN taskMap # {} THEN taskMap
          ELSE IF name = "result" /\ DOMAIN resultList # {} THEN resultList ELSE default
  <2>1. \A name, default : Get(IfAny("result", resultList), name, default) =
            IF name = "result" /\ DOMAIN resultList # {} THEN resultList ELSE default
    BY GetIfAny
  <2>2. \A name, default : Get(IfAny("task", taskMap), name, default) =
            IF name = "task" /\ DOMAIN taskMap # {} THEN taskMap ELSE default
    BY GetIfAny
  <2> DEFINE t == IfAny("task", taskMap)
  <2>3. \A name, default : Get(body, name, default) =
            IF name \in DOMAIN t THEN t[name] ELSE Get(IfAny("result", resultList), name, default)
    BY GetJoin
  <2>4. DOMAIN t = IF DOMAIN taskMap # {} THEN {"task"} ELSE {} BY IfAnyFacts
  <2>5. DOMAIN taskMap # {} => t["task"] = taskMap BY IfAnyFacts
  <2> HIDE DEF t, body
  <2>6. QED BY <2>1, <2>3, <2>4, <2>5
<1> HIDE DEF h, body
<1>4. /\ DOMAIN h \subseteq DOMAIN els
      /\ \A name \in DOMAIN h : els[name] = h[name]
      /\ \A name, default : Get(els, name, default) =
             IF name \in DOMAIN h THEN h[name] ELSE Get(body, name, default)
  BY GetJoin
<1> HIDE DEF els
<1>5. els["type"] = type /\ els["frompeer"] = from /\ els["listenport"] = port
      /\ RequestHeader \subseteq DOMAIN els
  BY <1>1, <1>4 DEF RequestHeader
<1>6. Get(els, "task", <<>>) = IF DOMAIN taskMap # {} THEN taskMap ELSE <<>>
  BY <1>1, <1>3, <1>4
<1>7. Get(els, "result", <<>>) = IF DOMAIN resultList # {} THEN resultList ELSE <<>>
  BY <1>1, <1>3, <1>4
<1> HIDE DEF doc
<1>8. /\ Child(doc, "task", <<>>) = IF DOMAIN taskMap # {} THEN taskMap ELSE <<>>
      /\ Child(doc, "result", <<>>) = IF DOMAIN resultList # {} THEN resultList ELSE <<>>
  BY <1>2, <1>6, <1>7, ChildIsGet
<1>9. QED BY <1>2, <1>5, <1>8 DEF Has, doc

\* What a response holds.
ResponseHolds(doc, type, status, ts, peerList, taskMap, history) ==
    /\ doc.root = "Response" /\ ResponseHeader \subseteq DOMAIN doc.els
    /\ doc.els["type"] = type /\ doc.els["status"] = AsNumber(status)
    /\ Child(doc, "timestamp", 0) = ts
    /\ Child(doc, "peerlist", <<>>) = IF DOMAIN peerList # {} THEN peerList ELSE <<>>
    /\ Child(doc, "task", <<>>) = IF DOMAIN taskMap # {} THEN taskMap ELSE <<>>
    /\ Child(doc, "history", <<>>) = IF DOMAIN history # {} THEN history ELSE <<>>

\* What a peer finds in a response of a peer.
LEMMA ResponseElements ==
    ASSUME NEW type, NEW status, NEW from, NEW ts \in Nat, NEW peerList, NEW taskMap, NEW history
    PROVE  ResponseHolds(ResponseXML(type, status, from, ts, peerList, taskMap, history),
                         type, status, ts, peerList, taskMap, history)
<1> DEFINE h == [type |-> type, status |-> AsNumber(status), frompeer |-> from]
           stamped == TimestampAndList(ts, peerList)
           last == Join(IfAny("task", taskMap), IfAny("history", history))
           body == Join(stamped, last)
           els == Join(h, body)
           doc == ResponseXML(type, status, from, ts, peerList, taskMap, history)
<1>1. /\ DOMAIN h = {"type", "frompeer", "status"}
      /\ h["type"] = type /\ h["status"] = AsNumber(status)
  OBVIOUS
<1>2. doc.root = "Response" /\ doc.els = els BY DEF ResponseXML
<1>3. \A name, default : Get(last, name, default) =
          IF name = "task" /\ DOMAIN taskMap # {} THEN taskMap
          ELSE IF name = "history" /\ DOMAIN history # {} THEN history ELSE default
  <2>1. \A name, default : Get(IfAny("history", history), name, default) =
            IF name = "history" /\ DOMAIN history # {} THEN history ELSE default
    BY GetIfAny
  <2> DEFINE t == IfAny("task", taskMap)
  <2>3. \A name, default : Get(last, name, default) =
            IF name \in DOMAIN t THEN t[name] ELSE Get(IfAny("history", history), name, default)
    BY GetJoin
  <2>4. DOMAIN t = IF DOMAIN taskMap # {} THEN {"task"} ELSE {} BY IfAnyFacts
  <2>5. DOMAIN taskMap # {} => t["task"] = taskMap BY IfAnyFacts
  <2> HIDE DEF t, last
  <2>6. QED BY <2>1, <2>3, <2>4, <2>5
<1>4. /\ DOMAIN stamped \subseteq {"timestamp", "peerlist"}
      /\ Get(stamped, "timestamp", 0) = ts
      /\ Get(stamped, "peerlist", <<>>) = IF DOMAIN peerList # {} THEN peerList ELSE <<>>
  <2> DEFINE stamp == IF ts > 0 THEN [timestamp |-> ts] ELSE <<>>
  <2>1. DOMAIN stamp \subseteq {"timestamp"} BY ZenonT(20), SMT
  <2>2. DOMAIN IfAny("peerlist", peerList) \subseteq {"peerlist"} BY DEF IfAny
  <2>3. DOMAIN stamped = DOMAIN stamp \union DOMAIN IfAny("peerlist", peerList)
    BY DEF TimestampAndList, Join
  <2>4. /\ Get(stamped, "timestamp", 0) = ts
        /\ Get(stamped, "peerlist", <<>>) = IF DOMAIN peerList # {} THEN peerList ELSE <<>>
    BY GetTimestampAndList
  <2> HIDE DEF stamp, stamped
  <2>5. QED BY <2>1, <2>2, <2>3, <2>4
<1> HIDE DEF h, stamped, last
<1>5. \A name, default : Get(body, name, default) =
          IF name \in DOMAIN stamped THEN stamped[name] ELSE Get(last, name, default)
  BY GetJoin
<1> HIDE DEF body
<1>6. /\ DOMAIN h \subseteq DOMAIN els
      /\ \A name \in DOMAIN h : els[name] = h[name]
      /\ \A name, default : Get(els, name, default) =
             IF name \in DOMAIN h THEN h[name] ELSE Get(body, name, default)
  BY GetJoin
<1> HIDE DEF els
<1>7. /\ els["type"] = type /\ els["status"] = AsNumber(status)
      /\ ResponseHeader \subseteq DOMAIN els
  BY <1>1, <1>6 DEF ResponseHeader
<1>8. Get(els, "timestamp", 0) = ts
  <2>1. Get(els, "timestamp", 0) = Get(body, "timestamp", 0) BY <1>1, <1>6
  <2>2. Get(last, "timestamp", 0) = 0 BY <1>3
  <2>3. QED BY <1>4, <1>5, <2>1, <2>2 DEF Get
<1>9. Get(els, "peerlist", <<>>) = IF DOMAIN peerList # {} THEN peerList ELSE <<>>
  <2>1. Get(els, "peerlist", <<>>) = Get(body, "peerlist", <<>>) BY <1>1, <1>6
  <2>2. Get(last, "peerlist", <<>>) = <<>> BY <1>3
  <2>3. Get(body, "peerlist", <<>>) = Get(stamped, "peerlist", <<>>) BY <1>5, <2>2 DEF Get
  <2>4. QED BY <1>4, <2>1, <2>3
<1>10. Get(els, "task", <<>>) = IF DOMAIN taskMap # {} THEN taskMap ELSE <<>>
  <2>1. Get(els, "task", <<>>) = Get(last, "task", <<>>) BY <1>1, <1>4, <1>5, <1>6
  <2>2. QED BY <1>3, <2>1
<1>11. Get(els, "history", <<>>) = IF DOMAIN history # {} THEN history ELSE <<>>
  <2>1. Get(els, "history", <<>>) = Get(last, "history", <<>>) BY <1>1, <1>4, <1>5, <1>6
  <2>2. QED BY <1>3, <2>1
<1> HIDE DEF doc
<1>12. /\ Child(doc, "timestamp", 0) = Get(els, "timestamp", 0)
       /\ Child(doc, "peerlist", <<>>) = Get(els, "peerlist", <<>>)
       /\ Child(doc, "task", <<>>) = Get(els, "task", <<>>)
       /\ Child(doc, "history", <<>>) = Get(els, "history", <<>>)
  BY <1>2, ChildIsGet
<1>13. QED BY <1>2, <1>7, <1>8, <1>9, <1>10, <1>11, <1>12 DEF ResponseHolds, doc

\* What a peer finds in the coordinator's answer.
LEMMA OnlineElements ==
    ASSUME NEW ts \in Nat, NEW peerList
    PROVE  LET doc == RespondOnlineXML(ts, peerList)
           IN  /\ doc.root = "Response" /\ ResponseHeader \subseteq DOMAIN doc.els
               /\ doc.els["type"] = CoordinatorRESP_TYPE.GET_ONLINE_RESP /\ doc.els["status"] = 1
               /\ Child(doc, "timestamp", 0) = ts
               /\ Child(doc, "peerlist", <<>>) = IF DOMAIN peerList # {} THEN peerList ELSE <<>>
               /\ Child(doc, "task", <<>>) = <<>> /\ Child(doc, "history", <<>>) = <<>>
<1> DEFINE type == CoordinatorRESP_TYPE.GET_ONLINE_RESP
           h == [type |-> type, status |-> 1, frompeer |-> 0]
           stamped == TimestampAndList(ts, peerList)
           els == Join(h, stamped)
           doc == RespondOnlineXML(ts, peerList)
<1>1. DOMAIN h = {"type", "frompeer", "status"} /\ h["type"] = type /\ h["status"] = 1
  OBVIOUS
<1>2. doc.root = "Response" /\ doc.els = els BY DEF RespondOnlineXML
<1>3. /\ Get(stamped, "timestamp", 0) = ts
      /\ Get(stamped, "peerlist", <<>>) = IF DOMAIN peerList # {} THEN peerList ELSE <<>>
      /\ \A name, default : name \notin {"timestamp", "peerlist"} => Get(stamped, name, default) = default
  BY GetTimestampAndList
<1> HIDE DEF h, stamped, type
<1>4. /\ DOMAIN h \subseteq DOMAIN els
      /\ \A name \in DOMAIN h : els[name] = h[name]
      /\ \A name, default : Get(els, name, default) =
             IF name \in DOMAIN h THEN h[name] ELSE Get(stamped, name, default)
  BY GetJoin
<1> HIDE DEF els
<1>5. els["type"] = type /\ els["status"] = 1 /\ ResponseHeader \subseteq DOMAIN els
  BY <1>1, <1>4 DEF ResponseHeader
<1>6. /\ Get(els, "timestamp", 0) = ts
      /\ Get(els, "peerlist", <<>>) = IF DOMAIN peerList # {} THEN peerList ELSE <<>>
      /\ Get(els, "task", <<>>) = <<>> /\ Get(els, "history", <<>>) = <<>>
  BY <1>1, <1>3, <1>4
<1> HIDE DEF doc
<1>7. /\ Child(doc, "timestamp", 0) = Get(els, "timestamp", 0)
      /\ Child(doc, "peerlist", <<>>) = Get(els, "peerlist", <<>>)
      /\ Child(doc, "task", <<>>) = Get(els, "task", <<>>)
      /\ Child(doc, "history", <<>>) = Get(els, "history", <<>>)
  BY <1>2, ChildIsGet
<1>8. QED BY <1>2, <1>5, <1>6, <1>7 DEF doc, type

-----------------------------------------------------------------------------
\* Reading what was written

\* An empty sequence is written as no element and read as an empty sequence.
LEMMA EmptyIsEmpty ==
    ASSUME NEW S, NEW s \in Seq(S)
    PROVE  (IF DOMAIN s # {} THEN s ELSE <<>>) = s
<1>1. CASE DOMAIN s = {}
  <2>1. Len(s) \in Nat /\ DOMAIN s = 1 .. Len(s) BY LenProperties
  <2>2. Len(s) = 0 BY <1>1, <2>1
  <2>3. s = <<>> BY <2>2, EmptySeq
  <2>4. QED BY <2>3
<1>2. CASE DOMAIN s # {}
  BY <1>2
<1>3. QED BY <1>1, <1>2

\* No lines.
LEMMA NoLines == <<>> \in Seq(STRING)
OBVIOUS

\* The coordinator reads the request of a peer.
LEMMA CoordinatorReads ==
    ASSUME NEW type, NEW from, NEW port
    PROVE  ProcessMessages(Coordinator, RequestXML(type, from, port, <<>>, <<>>)) =
               CoordinatorHandleRequests([m_reqType |-> type, m_fromPeerId |-> from, m_listenPort |-> port])
<1> DEFINE doc == RequestXML(type, from, port, <<>>, <<>>)
<1>1. /\ Has(doc, "Request", RequestHeader)
      /\ doc.els["type"] = type /\ doc.els["frompeer"] = from /\ doc.els["listenport"] = port
  BY RequestElements
<1> HIDE DEF doc
<1>2. QED BY <1>1 DEF ProcessMessages, CoordinatorParseRequest, doc

\* What is read of a request.
ReadOfRequest(type, from, port, taskMap, lines) ==
    [m_reqType |-> type, m_fromPeerId |-> from, m_listenPort |-> port,
     m_taskId |-> TaskIdOf(GetTaskMap(taskMap)), m_taskMap |-> GetTaskMap(taskMap),
     m_resultList |-> GetResult(lines)]

\* A peer reads the request of a peer.
LEMMA PeerReadsRequest ==
    ASSUME NEW to, to # Coordinator, NEW type, NEW from, NEW port, NEW taskMap,
           DOMAIN taskMap # {}, NEW lines \in Seq(STRING)
    PROVE  ProcessMessages(to, RequestXML(type, from, port, taskMap, lines)) =
               HandleRequests(to, ReadOfRequest(type, from, port, taskMap, lines))
<1> DEFINE doc == RequestXML(type, from, port, taskMap, lines)
<1>1. /\ Has(doc, "Request", RequestHeader)
      /\ doc.els["type"] = type /\ doc.els["frompeer"] = from /\ doc.els["listenport"] = port
      /\ Child(doc, "task", <<>>) = taskMap
      /\ Child(doc, "result", <<>>) = lines
  BY RequestElements, EmptyIsEmpty
<1> HIDE DEF doc
<1>2. ProcessMessages(to, doc) = HandleRequests(to, ParseRequestMessage(doc))
  BY <1>1 DEF ProcessMessages
<1>3. QED BY <1>1, <1>2 DEF ParseRequestMessage, ReadOfRequest, doc

\* What is read of a response.
ReadOfResponse(type, status, ts, peerList, taskMap, history) ==
    [m_respType |-> type, m_status |-> AsNumber(status) # 0, m_timestamp |-> atoi(ts),
     m_peerList |-> peerList, m_taskId |-> TaskIdOf(GetTaskMap(taskMap)), m_sysHistory |-> history]

\* A peer reads the response of a peer.
LEMMA PeerReadsResponse ==
    ASSUME NEW to, to # Coordinator, NEW type, NEW status, NEW from, NEW ts \in Nat,
           NEW S, NEW peerList \in Seq(S), NEW taskMap, DOMAIN taskMap # {}, NEW history,
           DOMAIN history # {} \/ history = <<>>
    PROVE  ProcessMessages(to, ResponseXML(type, status, from, ts, peerList, taskMap, history)) =
               HandleResponses(to, ReadOfResponse(type, status, ts, peerList, taskMap, history))
<1> DEFINE doc == ResponseXML(type, status, from, ts, peerList, taskMap, history)
<1>1. ResponseHolds(doc, type, status, ts, peerList, taskMap, history)
  BY ResponseElements
<1>2. (IF DOMAIN peerList # {} THEN peerList ELSE <<>>) = peerList
  BY EmptyIsEmpty
<1> HIDE DEF doc
<1>3. ProcessMessages(to, doc) = HandleResponses(to, ParseResponseMessage(doc))
  BY <1>1 DEF ResponseHolds, ProcessMessages, Has
<1>4. Child(doc, "peerlist", <<>>) = peerList /\ Child(doc, "task", <<>>) = taskMap
      /\ Child(doc, "history", <<>>) = history
  BY <1>1, <1>2 DEF ResponseHolds
<1>5. ParseResponseMessage(doc) = ReadOfResponse(type, status, ts, peerList, taskMap, history)
  BY <1>1, <1>4 DEF ResponseHolds, ParseResponseMessage, ReadOfResponse
<1>6. QED BY <1>3, <1>5 DEF doc

\* A peer reads the answer of the coordinator.
LEMMA PeerReadsOnline ==
    ASSUME NEW to, to # Coordinator, NEW ts \in Nat, NEW S, NEW peerList \in Seq(S)
    PROVE  ProcessMessages(to, RespondOnlineXML(ts, peerList)) =
               HandleResponses(to,
                   [m_respType |-> CoordinatorRESP_TYPE.GET_ONLINE_RESP, m_status |-> 1 # 0,
                    m_timestamp |-> atoi(ts), m_peerList |-> peerList,
                    m_taskId |-> TaskIdOf(GetTaskMap(<<>>)), m_sysHistory |-> <<>>])
<1> DEFINE doc == RespondOnlineXML(ts, peerList)
<1>1. /\ doc.root = "Response" /\ ResponseHeader \subseteq DOMAIN doc.els
      /\ doc.els["type"] = CoordinatorRESP_TYPE.GET_ONLINE_RESP /\ doc.els["status"] = 1
      /\ Child(doc, "timestamp", 0) = ts
      /\ Child(doc, "peerlist", <<>>) = IF DOMAIN peerList # {} THEN peerList ELSE <<>>
      /\ Child(doc, "task", <<>>) = <<>> /\ Child(doc, "history", <<>>) = <<>>
  BY OnlineElements
<1>2. (IF DOMAIN peerList # {} THEN peerList ELSE <<>>) = peerList
  BY EmptyIsEmpty
<1> HIDE DEF doc
<1>3. ProcessMessages(to, doc) = HandleResponses(to, ParseResponseMessage(doc))
  BY <1>1 DEF ProcessMessages, Has
<1>4. Child(doc, "peerlist", <<>>) = peerList
  BY <1>1, <1>2
<1>5. ParseResponseMessage(doc) =
          [m_respType |-> CoordinatorRESP_TYPE.GET_ONLINE_RESP, m_status |-> 1 # 0,
           m_timestamp |-> atoi(ts), m_peerList |-> peerList,
           m_taskId |-> TaskIdOf(GetTaskMap(<<>>)), m_sysHistory |-> <<>>]
  BY <1>1, <1>4 DEF ParseResponseMessage
<1>6. QED BY <1>3, <1>5 DEF doc

-----------------------------------------------------------------------------
\* The kinds of messages: their documents and what is meant by them

OnlineDoc(p) == RequestXML(REQ_TYPE.GET_ONLINE, p, PortOf(p), <<>>, <<>>)
OfflineDoc(p) == RequestXML(REQ_TYPE.GET_OFFLINE, p, PortOf(p), <<>>, <<>>)
TaskRequestDoc(p, t, param) ==
    RequestXML(REQ_TYPE.TASK_REQUEST, p, PortOf(p), [taskid |-> t, taskParam |-> param], <<>>)
ExecuteDoc(p, t) == RequestXML(REQ_TYPE.TASK_EXECUTE, p, PortOf(p), [taskid |-> t], <<>>)
CancelDoc(p, t) == RequestXML(REQ_TYPE.TASK_CANCEL, p, PortOf(p), [taskid |-> t], <<>>)
ResultDoc(w, t, param, lines) ==
    RequestXML(REQ_TYPE.TASK_RESULT, w, PortOf(w), [taskid |-> t, status |-> 1, taskParam |-> param],
               lines)
ResultCall(t, param, lines) == << <<"HandleTaskResult", t, TRUE, param, GetResult(lines)>> >>
ResponseCalls(l, t, history) ==
    AsRead(l) \o << <<"HandleTaskRequestResponse", t, TRUE, history>> >>
ResponseDoc(w, l, t, history) ==
    ResponseXML(RESP_TYPE.TASK_REQUEST_RESP, TRUE, w, l.ts, l.peers, [taskid |-> t], history)
ExecuteResponseDoc(w, status, ts, t) ==
    ResponseXML(RESP_TYPE.TASK_EXECUTE_RESP, status, w, ts, <<>>, [taskid |-> t], <<>>)

\* The coordinator takes a peer online that says it is.
LEMMA OnlineRead ==
    ASSUME NEW p
    PROVE  ProcessMessages(Coordinator, OnlineDoc(p)) = << <<"HandlePeerOnline", p, PortOf(p)>> >>
BY CoordinatorReads DEF OnlineDoc, CoordinatorHandleRequests, REQ_TYPE, CoordinatorREQ_TYPE

\* And offline one that says so.
LEMMA OfflineRead ==
    ASSUME NEW p
    PROVE  ProcessMessages(Coordinator, OfflineDoc(p)) = << <<"HandlePeerOffline", p>> >>
BY CoordinatorReads DEF OfflineDoc, CoordinatorHandleRequests, REQ_TYPE, CoordinatorREQ_TYPE

\* Text that is not blank is read as it is written.
LEMMA PcDataKept == ASSUME NEW text, ~Blank(text) PROVE PcData(text) = text
BY DEF PcData

\* The two handlers that are given the parameter.
LEMMA RequestHandled ==
    ASSUME NEW p, NEW m, m.m_reqType = REQ_TYPE.TASK_REQUEST
    PROVE  HandleRequests(p, m) =
               << <<"HandleTaskRequest", m.m_fromPeerId, m.m_listenPort, m.m_taskId,
                    ParamOf(m.m_taskMap)>> >>
BY DEF HandleRequests, REQ_TYPE

LEMMA ResultHandled ==
    ASSUME NEW p, NEW m, m.m_reqType = REQ_TYPE.TASK_RESULT, m.m_taskId \in m_taskList[p]
    PROVE  HandleRequests(p, m) =
               << <<"HandleTaskResult", m.m_taskId, m.m_taskMap["status"] # 0,
                    ParamOf(m.m_taskMap), m.m_resultList>> >>
BY DEF HandleRequests, REQ_TYPE

\* A worker is asked for the task and the parameter its owner wrote.
LEMMA TaskRequestRead ==
    ASSUME NEW to, to # Coordinator, NEW p, NEW t, NEW param, ~Blank(param)
    PROVE  ProcessMessages(to, TaskRequestDoc(p, t, param)) =
               << <<"HandleTaskRequest", p, PortOf(p), t, param>> >>
<1> DEFINE taskMap == [taskid |-> t, taskParam |-> param]
           read == GetTaskMap(taskMap)
           none == <<>>
<1>1. DOMAIN taskMap = {"taskid", "taskParam"} OBVIOUS
<1>2. /\ DOMAIN read = {"taskid", "taskParam"} /\ read["taskid"] = t /\ read["taskParam"] = param
  BY PcDataKept DEF GetTaskMap
<1> HIDE DEF read, taskMap
<1> DEFINE m == ReadOfRequest(REQ_TYPE.TASK_REQUEST, p, PortOf(p), taskMap, none)
<1>3. none \in Seq(STRING) BY NoLines
<1>4. DOMAIN taskMap # {} BY <1>1
<1> HIDE DEF none
<1>5. ProcessMessages(to, RequestXML(REQ_TYPE.TASK_REQUEST, p, PortOf(p), taskMap, none)) =
          HandleRequests(to, m)
  BY <1>3, <1>4, PeerReadsRequest
<1>6. TaskIdOf(read) = t BY <1>2 DEF TaskIdOf
<1>7. ParamOf(read) = param BY <1>2 DEF ParamOf
<1>8. HandleRequests(to, m) = << <<"HandleTaskRequest", p, PortOf(p), t, param>> >>
  <2>1. /\ m.m_reqType = REQ_TYPE.TASK_REQUEST /\ m.m_fromPeerId = p /\ m.m_listenPort = PortOf(p)
        /\ m.m_taskId = t /\ m.m_taskMap = read
    BY <1>6 DEF read, ReadOfRequest
  <2> HIDE DEF m
  <2>3. ParamOf(m.m_taskMap) = param BY <1>7, <2>1
  <2>5. HandleRequests(to, m) =
            << <<"HandleTaskRequest", m.m_fromPeerId, m.m_listenPort, m.m_taskId,
                 ParamOf(m.m_taskMap)>> >>
    BY <2>1, RequestHandled
  <2>6. QED BY <2>1, <2>3, <2>5
<1>9. QED BY <1>5, <1>8 DEF TaskRequestDoc, taskMap, none

\* What a task element says that holds an id only.
LEMMA TaskIdRead ==
    ASSUME NEW t
    PROVE  DOMAIN [taskid |-> t] # {} /\ TaskIdOf(GetTaskMap([taskid |-> t])) = t
<1> DEFINE read == GetTaskMap([taskid |-> t])
<1>1. DOMAIN [taskid |-> t] = {"taskid"} OBVIOUS
<1>2. DOMAIN read = {"taskid"} /\ read["taskid"] = t BY DEF GetTaskMap
<1> HIDE DEF read
<1>3. TaskIdOf(read) = t BY <1>2 DEF TaskIdOf
<1>4. QED BY <1>1, <1>3 DEF read

\* A worker is told to execute the task of that owner.
LEMMA ExecuteRead ==
    ASSUME NEW to, to # Coordinator, NEW p, NEW t
    PROVE  ProcessMessages(to, ExecuteDoc(p, t)) = << <<"HandleTaskExecute", p, t>> >>
<1> DEFINE taskMap == [taskid |-> t]
           none == <<>>
           m == ReadOfRequest(REQ_TYPE.TASK_EXECUTE, p, PortOf(p), taskMap, none)
<1>1. DOMAIN taskMap # {} /\ TaskIdOf(GetTaskMap(taskMap)) = t BY TaskIdRead
<1>2. none \in Seq(STRING) BY NoLines
<1> HIDE DEF taskMap, none
<1>3. ProcessMessages(to, RequestXML(REQ_TYPE.TASK_EXECUTE, p, PortOf(p), taskMap, none)) =
          HandleRequests(to, m)
  BY <1>1, <1>2, PeerReadsRequest
<1>4. HandleRequests(to, m) = << <<"HandleTaskExecute", p, t>> >>
  <2>1. m.m_reqType = REQ_TYPE.TASK_EXECUTE /\ m.m_fromPeerId = p /\ m.m_taskId = t
    BY <1>1 DEF ReadOfRequest
  <2> HIDE DEF m
  <2>2. QED BY <2>1 DEF HandleRequests, REQ_TYPE
<1>5. QED BY <1>3, <1>4 DEF ExecuteDoc, taskMap, none

\* Or to cancel it.
LEMMA CancelRead ==
    ASSUME NEW to, to # Coordinator, NEW p, NEW t
    PROVE  ProcessMessages(to, CancelDoc(p, t)) = << <<"HandleTaskCancel", p, t>> >>
<1> DEFINE taskMap == [taskid |-> t]
           none == <<>>
           m == ReadOfRequest(REQ_TYPE.TASK_CANCEL, p, PortOf(p), taskMap, none)
<1>1. DOMAIN taskMap # {} /\ TaskIdOf(GetTaskMap(taskMap)) = t BY TaskIdRead
<1>2. none \in Seq(STRING) BY NoLines
<1> HIDE DEF taskMap, none
<1>3. ProcessMessages(to, RequestXML(REQ_TYPE.TASK_CANCEL, p, PortOf(p), taskMap, none)) =
          HandleRequests(to, m)
  BY <1>1, <1>2, PeerReadsRequest
<1>4. HandleRequests(to, m) = << <<"HandleTaskCancel", p, t>> >>
  <2>1. m.m_reqType = REQ_TYPE.TASK_CANCEL /\ m.m_fromPeerId = p /\ m.m_taskId = t
    BY <1>1 DEF ReadOfRequest
  <2> HIDE DEF m
  <2>2. QED BY <2>1 DEF HandleRequests, REQ_TYPE
<1>5. QED BY <1>3, <1>4 DEF CancelDoc, taskMap, none

\* An owner that has the task takes the result of the parameter the worker
\* names, with each line as it is read.
LEMMA ResultRead ==
    ASSUME NEW to, to # Coordinator, NEW w, NEW t \in m_taskList[to], NEW param, ~Blank(param),
           NEW lines \in Seq(STRING)
    PROVE  ProcessMessages(to, ResultDoc(w, t, param, lines)) = ResultCall(t, param, lines)
<1> DEFINE taskMap == [taskid |-> t, status |-> 1, taskParam |-> param]
           read == GetTaskMap(taskMap)
<1>1. DOMAIN taskMap = {"taskid", "status", "taskParam"} OBVIOUS
<1>2. /\ DOMAIN read = {"taskid", "status", "taskParam"}
      /\ read["taskid"] = t /\ read["status"] = 1 /\ read["taskParam"] = param
  BY PcDataKept DEF GetTaskMap
<1> HIDE DEF read, taskMap
<1> DEFINE m == ReadOfRequest(REQ_TYPE.TASK_RESULT, w, PortOf(w), taskMap, lines)
<1>4. DOMAIN taskMap # {} BY <1>1
<1>5. ProcessMessages(to, RequestXML(REQ_TYPE.TASK_RESULT, w, PortOf(w), taskMap, lines)) =
          HandleRequests(to, m)
  BY <1>4, PeerReadsRequest
<1>6. TaskIdOf(read) = t BY <1>2 DEF TaskIdOf
<1>7. ParamOf(read) = param BY <1>2 DEF ParamOf
<1>8. HandleRequests(to, m) = << <<"HandleTaskResult", t, TRUE, param, GetResult(lines)>> >>
  <2>1. /\ m.m_reqType = REQ_TYPE.TASK_RESULT /\ m.m_taskId = t /\ m.m_taskMap = read
        /\ m.m_resultList = GetResult(lines)
    BY <1>6 DEF read, ReadOfRequest
  <2> HIDE DEF m
  <2>2. HandleRequests(to, m) =
            << <<"HandleTaskResult", m.m_taskId, m.m_taskMap["status"] # 0,
                 ParamOf(m.m_taskMap), m.m_resultList>> >>
    BY <2>1, ResultHandled
  <2>3. (m.m_taskMap["status"] # 0) = TRUE BY <1>2, <2>1
  <2>4. ParamOf(m.m_taskMap) = param BY <1>7, <2>1
  <2>5. HandleRequests(to, m) =
            << <<"HandleTaskResult", m.m_taskId, TRUE, ParamOf(m.m_taskMap), m.m_resultList>> >>
    BY <2>2, <2>3
  <2>6. QED BY <2>1, <2>4, <2>5
<1>9. QED BY <1>5, <1>8 DEF ResultDoc, ResultCall, taskMap

\* What a response to a task's request is for a peer that has the task.
LEMMA TaskResponseHandled ==
    ASSUME NEW p, NEW m, m.m_respType = RESP_TYPE.TASK_REQUEST_RESP, m.m_taskId \in m_taskList[p]
    PROVE  HandleResponses(p, m) =
               HandlePeerList(m)
               \o << <<"HandleTaskRequestResponse", m.m_taskId, m.m_status, m.m_sysHistory>> >>
BY DEF HandleResponses, RESP_TYPE

\* And to its execution.
LEMMA ExecuteResponseHandled ==
    ASSUME NEW p, NEW m, m.m_respType = RESP_TYPE.TASK_EXECUTE_RESP, m.m_taskId \in m_taskList[p]
    PROVE  HandleResponses(p, m) =
               HandlePeerList(m) \o << <<"HandleTaskExecuteResponse", m.m_taskId, m.m_status>> >>
BY DEF HandleResponses, RESP_TYPE

\* The coordinator's answer.
LEMMA OnlineHandled ==
    ASSUME NEW p, NEW m, m.m_respType = CoordinatorRESP_TYPE.GET_ONLINE_RESP
    PROVE  HandleResponses(p, m) =
               HandlePeerList(m) \o << <<"HandleOnlineResp", m.m_peerList, m.m_timestamp>> >>
BY DEF HandleResponses, RESP_TYPE, CoordinatorRESP_TYPE

\* A list is taken with its timestamp, at most the largest int, or not at all.
LEMMA ListRead ==
    ASSUME NEW l, l.ts \in Nat, l.peers # <<>>,
           NEW m, m.m_timestamp = atoi(l.ts), m.m_peerList = l.peers
    PROVE  HandlePeerList(m) = AsRead(l)
<1>1. atoi(l.ts) > 0 <=> l.ts > 0
  BY MessagesConstants DEF atoi
<1>2. QED BY <1>1 DEF HandlePeerList, AsRead

\* An owner that has the task is told of the response, after its list.
LEMMA ResponseRead ==
    ASSUME NEW to, to # Coordinator, NEW w, NEW t \in m_taskList[to],
           NEW l \in PeerLists, NEW history, DOMAIN history # {}
    PROVE  ProcessMessages(to, ResponseDoc(w, l, t, history)) = ResponseCalls(l, t, history)
<1> DEFINE taskMap == [taskid |-> t]
           yes == TRUE
           m == ReadOfResponse(RESP_TYPE.TASK_REQUEST_RESP, yes, l.ts, l.peers, taskMap, history)
<1>1. DOMAIN taskMap # {} /\ TaskIdOf(GetTaskMap(taskMap)) = t BY TaskIdRead
<1>2. DOMAIN history # {} \/ history = <<>> OBVIOUS
<1>12. l.ts \in Nat /\ l.peers \in Seq(Peer) /\ l.peers # <<>> BY ConstantFacts
<1>4. (AsNumber(yes) # 0) = TRUE BY DEF AsNumber
<1> HIDE DEF taskMap, yes
<1>3. ProcessMessages(to, ResponseXML(RESP_TYPE.TASK_REQUEST_RESP, yes, w, l.ts, l.peers, taskMap,
                                      history)) =
          HandleResponses(to, m)
  BY <1>1, <1>2, <1>12, PeerReadsResponse
<1>5. /\ m.m_respType = RESP_TYPE.TASK_REQUEST_RESP /\ m.m_timestamp = atoi(l.ts)
      /\ m.m_peerList = l.peers /\ m.m_taskId = t /\ m.m_sysHistory = history
  BY <1>1 DEF ReadOfResponse
<1>6. m.m_status = TRUE BY <1>4 DEF ReadOfResponse
<1> HIDE DEF m
<1>7. HandleResponses(to, m) =
          HandlePeerList(m)
          \o << <<"HandleTaskRequestResponse", m.m_taskId, m.m_status, m.m_sysHistory>> >>
  BY <1>5, TaskResponseHandled
<1>8. HandlePeerList(m) = AsRead(l)
  BY <1>5, <1>12, ListRead
<1>9. HandleResponses(to, m) = AsRead(l) \o << <<"HandleTaskRequestResponse", t, TRUE, history>> >>
  BY <1>5, <1>6, <1>7, <1>8
<1>10. QED BY <1>3, <1>9 DEF ResponseDoc, ResponseCalls, taskMap, yes

\* And of the response to the execution, without a list whatever the timestamp is.
LEMMA ExecuteResponseRead ==
    ASSUME NEW to, to # Coordinator, NEW w, NEW t \in m_taskList[to], NEW ts \in Nat,
           NEW status \in BOOLEAN
    PROVE  ProcessMessages(to, ExecuteResponseDoc(w, status, ts, t)) =
               << <<"HandleTaskExecuteResponse", t, status>> >>
<1> DEFINE taskMap == [taskid |-> t]
           none == <<>>
           m == ReadOfResponse(RESP_TYPE.TASK_EXECUTE_RESP, status, ts, none, taskMap, none)
<1>1. DOMAIN taskMap # {} /\ TaskIdOf(GetTaskMap(taskMap)) = t BY TaskIdRead
<1>3. none \in Seq({}) OBVIOUS
<1>12. none = <<>> OBVIOUS
<1>13. DOMAIN none # {} \/ none = <<>> BY <1>12
<1> HIDE DEF taskMap, none
<1>4. ProcessMessages(to, ResponseXML(RESP_TYPE.TASK_EXECUTE_RESP, status, w, ts, none, taskMap, none)) =
          HandleResponses(to, m)
  BY <1>1, <1>3, <1>13, PeerReadsResponse
<1>5. (AsNumber(status) # 0) = status BY DEF AsNumber
<1>6. /\ m.m_respType = RESP_TYPE.TASK_EXECUTE_RESP /\ m.m_peerList = <<>> /\ m.m_taskId = t
  BY <1>1, <1>12 DEF ReadOfResponse
<1>7. m.m_status = status BY <1>5 DEF ReadOfResponse
<1> HIDE DEF m
<1>8. HandleResponses(to, m) =
          HandlePeerList(m) \o << <<"HandleTaskExecuteResponse", m.m_taskId, m.m_status>> >>
  BY <1>6, ExecuteResponseHandled
<1>9. HandlePeerList(m) = <<>> BY <1>6 DEF HandlePeerList
<1>10. HandlePeerList(m) \o << <<"HandleTaskExecuteResponse", t, status>> >> =
           << <<"HandleTaskExecuteResponse", t, status>> >>
  BY <1>9
<1>11. QED BY <1>4, <1>6, <1>7, <1>8, <1>10 DEF ExecuteResponseDoc, taskMap, none

\* A peer that went online is told of the coordinator's list.
LEMMA OnlineResponseRead ==
    ASSUME NEW to, to # Coordinator,
           NEW S, NEW l, l.ts \in Nat, l.peers \in Seq(S), l.peers # <<>>
    PROVE  ProcessMessages(to, RespondOnlineXML(l.ts, l.peers)) =
               AsRead(l) \o << <<"HandleOnlineResp", l.peers, atoi(l.ts)>> >>
<1> DEFINE m == [m_respType |-> CoordinatorRESP_TYPE.GET_ONLINE_RESP, m_status |-> 1 # 0,
                 m_timestamp |-> atoi(l.ts), m_peerList |-> l.peers,
                 m_taskId |-> TaskIdOf(GetTaskMap(<<>>)), m_sysHistory |-> <<>>]
<1>1. ProcessMessages(to, RespondOnlineXML(l.ts, l.peers)) = HandleResponses(to, m)
  BY PeerReadsOnline
<1>2. /\ m.m_respType = CoordinatorRESP_TYPE.GET_ONLINE_RESP /\ m.m_timestamp = atoi(l.ts)
      /\ m.m_peerList = l.peers
  OBVIOUS
<1> HIDE DEF m
<1>3. HandleResponses(to, m) =
          HandlePeerList(m) \o << <<"HandleOnlineResp", m.m_peerList, m.m_timestamp>> >>
  BY <1>2, OnlineHandled
<1>4. HandlePeerList(m) = AsRead(l)
  BY <1>2, ListRead
<1>5. QED BY <1>1, <1>2, <1>3, <1>4

-----------------------------------------------------------------------------
\* What is on its way.  x is a document with its receiver and what is meant by it,
\* nd the PeerNode it goes over.

Means(x, to, doc, meant) == x.to = to /\ x.doc = doc /\ x.meant = meant

IsOnline(nd, x) ==
    /\ nd.from \in Owner
    /\ Means(x, Coordinator, OnlineDoc(nd.from), << <<"HandlePeerOnline", nd.from, PortOf(nd.from)>> >>)

IsOffline(nd, x) ==
    /\ nd.from \in Owner
    /\ Means(x, Coordinator, OfflineDoc(nd.from), << <<"HandlePeerOffline", nd.from>> >>)

IsOnlineResponse(nd, x) ==
    /\ nd.from \in Owner
    /\ \E l \in PeerLists :
           Means(x, nd.from, RespondOnlineXML(l.ts, l.peers),
                 AsRead(l) \o << <<"HandleOnlineResp", l.peers, atoi(l.ts)>> >>)

IsTaskRequest(nd, x) ==
    Means(x, nd.to, TaskRequestDoc(nd.from, nd.task, m_paramList[nd.param]),
          << <<"HandleTaskRequest", nd.from, PortOf(nd.from), nd.task, m_paramList[nd.param]>> >>)

IsExecute(nd, x) ==
    Means(x, nd.to, ExecuteDoc(nd.from, nd.task), << <<"HandleTaskExecute", nd.from, nd.task>> >>)

IsCancel(nd, x) ==
    Means(x, nd.to, CancelDoc(nd.from, nd.task), << <<"HandleTaskCancel", nd.from, nd.task>> >>)

History(handledTasks) == [workload |-> 0, totalexecuted |-> handledTasks, totalfailure |-> 0]

IsResponse(nd, x) ==
    \E l \in PeerLists, handledTasks \in 0 .. 1 :
        Means(x, nd.from, ResponseDoc(nd.to, l, nd.task, History(handledTasks)),
              ResponseCalls(l, nd.task, History(handledTasks)))

IsExecuteResponse(nd, x) ==
    \E ts \in 0 .. 1, status \in BOOLEAN :
        Means(x, nd.from, ExecuteResponseDoc(nd.to, status, ts, nd.task),
              << <<"HandleTaskExecuteResponse", nd.task, status>> >>)

IsResult(nd, x) ==
    \E lines \in ResultLists :
        Means(x, nd.from, ResultDoc(nd.to, nd.task, m_paramList[nd.param], lines),
              ResultCall(nd.task, m_paramList[nd.param], lines))

OfTaskNode(nd, x) ==
    /\ nd.task # 0
    /\ \/ IsTaskRequest(nd, x) \/ IsExecute(nd, x) \/ IsCancel(nd, x)
       \/ IsResponse(nd, x) \/ IsExecuteResponse(nd, x) \/ IsResult(nd, x)

Letter(nd, x) ==
    IsOnline(nd, x) \/ IsOffline(nd, x) \/ IsOnlineResponse(nd, x) \/ OfTaskNode(nd, x)

-----------------------------------------------------------------------------
\* The invariant

PeerNode == [from : Nat, to : Peer \union {Coordinator, 0}, task : Nat, param : Nat]
Job == [owner : Owner, taskId : TaskId, param : STRING, node : Node, running : BOOLEAN]

TypeInv ==
    /\ m_taskList \in [Owner -> SUBSET TaskId]
    /\ DOMAIN m_jobList = Worker
    /\ numNodes \in 0 .. MaxNodes
    /\ node \in [Node -> PeerNode]
    /\ wire = [n \in Node |-> wire[n]]

\* A PeerNode that was made for a task belongs to its owner and never changes.
NodeInv ==
    \A n \in Node :
        node[n].task # 0 => /\ n <= numNodes
                            /\ node[n].from \in Owner /\ node[n].to \in Worker
                            /\ node[n].task \in m_taskList[node[n].from]
                            /\ node[n].param \in DOMAIN m_paramList

DocumentInv == \A n \in Node : Quiet(n) \/ Letter(node[n], wire[n])

\* The jobs worker w makes: each is what its PeerNode was made for.
JobsOf(w) ==
    {job \in Job :
        /\ node[job.node].task # 0 /\ node[job.node].to = w
        /\ job.owner = node[job.node].from /\ job.taskId = node[job.node].task
        /\ job.param = m_paramList[node[job.node].param]}

JobInv == \A w \in Worker : m_jobList[w] \in Seq(JobsOf(w))

ResultInv ==
    \A r \in results :
        /\ r.node \in Node /\ node[r.node].task # 0
        /\ r.owner = node[r.node].from /\ r.task = node[r.node].task /\ r.index = node[r.node].param

MessageInv == TypeInv /\ NodeInv /\ DocumentInv /\ JobInv /\ ResultInv

\* Every letter is understood.
LEMMA LetterUnderstood ==
    ASSUME TypeInv, NodeInv, NEW n \in Node, Letter(node[n], wire[n])
    PROVE  ProcessMessages(wire[n].to, wire[n].doc) = wire[n].meant
<1> DEFINE nd == node[n]
           x == wire[n]
           Goal == ProcessMessages(x.to, x.doc) = x.meant
<1>1. nd.task # 0 => /\ nd.from \in Owner /\ nd.to \in Worker
                     /\ nd.task \in m_taskList[nd.from] /\ nd.param \in DOMAIN m_paramList
  BY DEF NodeInv
<1>2. Letter(nd, x) OBVIOUS
<1> HIDE DEF nd, x
<1>3. ASSUME IsOnline(nd, x) PROVE Goal
  BY <1>3, OnlineRead DEF IsOnline, Means
<1>4. ASSUME IsOffline(nd, x) PROVE Goal
  BY <1>4, OfflineRead DEF IsOffline, Means
<1>5. ASSUME IsOnlineResponse(nd, x) PROVE Goal
  <2>1. nd.from \in Owner BY <1>5 DEF IsOnlineResponse
  <2>2. PICK l \in PeerLists :
            Means(x, nd.from, RespondOnlineXML(l.ts, l.peers),
                  AsRead(l) \o << <<"HandleOnlineResp", l.peers, atoi(l.ts)>> >>)
    BY <1>5 DEF IsOnlineResponse
  <2>3. l.ts \in Nat /\ l.peers \in Seq(Peer) /\ l.peers # <<>> /\ nd.from # Coordinator
    BY <2>1, ConstantFacts
  <2>4. ProcessMessages(nd.from, RespondOnlineXML(l.ts, l.peers)) =
            AsRead(l) \o << <<"HandleOnlineResp", l.peers, atoi(l.ts)>> >>
    BY <2>3, OnlineResponseRead
  <2>5. QED BY <2>2, <2>4 DEF Means
<1>6. ASSUME OfTaskNode(nd, x) PROVE Goal
  <2>1. /\ nd.from \in Owner /\ nd.to \in Worker
        /\ nd.task \in m_taskList[nd.from] /\ nd.param \in DOMAIN m_paramList
    BY <1>1, <1>6 DEF OfTaskNode
  <2>2. nd.from # Coordinator /\ nd.to # Coordinator /\ ~Blank(m_paramList[nd.param])
    BY <2>1, ConstantFacts
  <2>3. ASSUME IsTaskRequest(nd, x) PROVE Goal
    BY <2>2, <2>3, TaskRequestRead DEF IsTaskRequest, Means
  <2>4. ASSUME IsExecute(nd, x) PROVE Goal
    BY <2>2, <2>4, ExecuteRead DEF IsExecute, Means
  <2>5. ASSUME IsCancel(nd, x) PROVE Goal
    BY <2>2, <2>5, CancelRead DEF IsCancel, Means
  <2>6. ASSUME IsResponse(nd, x) PROVE Goal
    <3>1. PICK l \in PeerLists : \E handledTasks \in 0 .. 1 :
              Means(x, nd.from, ResponseDoc(nd.to, l, nd.task, History(handledTasks)),
                    ResponseCalls(l, nd.task, History(handledTasks)))
      BY <2>6 DEF IsResponse
    <3>2. PICK h \in 0 .. 1 :
              Means(x, nd.from, ResponseDoc(nd.to, l, nd.task, History(h)),
                    ResponseCalls(l, nd.task, History(h)))
      BY <3>1
    <3> DEFINE hist == History(h)
    <3>4. DOMAIN hist # {} BY DEF History
    <3> HIDE DEF hist
    <3>5. ProcessMessages(nd.from, ResponseDoc(nd.to, l, nd.task, hist)) =
              ResponseCalls(l, nd.task, hist)
      BY <2>1, <2>2, <3>4, ResponseRead
    <3>6. QED BY <3>2, <3>5 DEF Means, hist
  <2>7. ASSUME IsExecuteResponse(nd, x) PROVE Goal
    <3>1. PICK ts \in 0 .. 1, status \in BOOLEAN :
              Means(x, nd.from, ExecuteResponseDoc(nd.to, status, ts, nd.task),
                    << <<"HandleTaskExecuteResponse", nd.task, status>> >>)
      BY <2>7 DEF IsExecuteResponse
    <3>2. ts \in Nat OBVIOUS
    <3>3. ProcessMessages(nd.from, ExecuteResponseDoc(nd.to, status, ts, nd.task)) =
              << <<"HandleTaskExecuteResponse", nd.task, status>> >>
      BY <2>1, <2>2, <3>2, ExecuteResponseRead
    <3>4. QED BY <3>1, <3>3 DEF Means
  <2>8. ASSUME IsResult(nd, x) PROVE Goal
    <3>1. PICK lines \in ResultLists :
              Means(x, nd.from, ResultDoc(nd.to, nd.task, m_paramList[nd.param], lines),
                    ResultCall(nd.task, m_paramList[nd.param], lines))
      BY <2>8 DEF IsResult
    <3>2. lines \in Seq(STRING) BY ConstantFacts
    <3>3. ProcessMessages(nd.from, ResultDoc(nd.to, nd.task, m_paramList[nd.param], lines)) =
              ResultCall(nd.task, m_paramList[nd.param], lines)
      BY <2>1, <2>2, <3>2, ResultRead
    <3>4. QED BY <3>1, <3>3 DEF Means
  <2>9. QED BY <1>6, <2>3, <2>4, <2>5, <2>6, <2>7, <2>8 DEF OfTaskNode
<1>7. Goal BY <1>2, <1>3, <1>4, <1>5, <1>6 DEF Letter
<1>8. QED BY <1>7 DEF x

-----------------------------------------------------------------------------
\* The handler that a letter reaches

\* The last of at most two calls.
LEMMA LastCall ==
    ASSUME NEW x, NEW y
    PROVE  /\ <<x>> # <<>> /\ Last(<<x>>) = x
           /\ <<>> \o <<x>> # <<>> /\ Last(<<>> \o <<x>>) = x
           /\ <<y>> \o <<x>> # <<>> /\ Last(<<y>> \o <<x>>) = x
BY DEF Last

\* A list, if it is taken, comes before the response it is in.
LEMMA LastAfterList ==
    ASSUME NEW l, NEW x
    PROVE  AsRead(l) \o <<x>> # <<>> /\ Last(AsRead(l) \o <<x>>) = x
<1>1. CASE l.ts > 0
  <2> DEFINE y == <<"HandlePeerList", l.peers, atoi(l.ts)>>
  <2>1. AsRead(l) = <<y>> BY <1>1 DEF AsRead
  <2> HIDE DEF y
  <2>2. QED BY <2>1, LastCall
<1>2. CASE ~(l.ts > 0)
  <2>1. AsRead(l) = <<>> BY <1>2 DEF AsRead
  <2>2. QED BY <2>1, LastCall
<1>3. QED BY <1>1, <1>2

\* The last call, by the letter it comes from.
LastCallOf(nd, x, call) ==
    \/ call[1] \in {"HandlePeerOffline", "HandleOnlineResp", "HandleTaskRequestResponse",
                    "HandleTaskExecuteResponse"}
    \/ call[1] = "HandlePeerOnline" /\ IsOnline(nd, x)
    \/ /\ call = <<"HandleTaskRequest", nd.from, PortOf(nd.from), nd.task, m_paramList[nd.param]>>
       /\ nd.task # 0 /\ IsTaskRequest(nd, x)
    \/ /\ call = <<"HandleTaskExecute", nd.from, nd.task>>
       /\ nd.task # 0 /\ IsExecute(nd, x)
    \/ /\ call = <<"HandleTaskCancel", nd.from, nd.task>>
       /\ nd.task # 0 /\ IsCancel(nd, x)
    \/ /\ call[1] = "HandleTaskResult" /\ call[2] = nd.task /\ call[4] = m_paramList[nd.param]
       /\ nd.task # 0 /\ IsResult(nd, x)

\* Every letter has a last call, and it is that one.
LEMMA CallOfLetter ==
    ASSUME NEW nd, NEW x, Letter(nd, x)
    PROVE  x.meant # <<>> /\ LastCallOf(nd, x, Last(x.meant))
<1> DEFINE call == Last(x.meant)
           Goal == x.meant # <<>> /\ LastCallOf(nd, x, call)
<1>1. ASSUME NEW c, x.meant = <<c>> PROVE x.meant # <<>> /\ call = c
  BY <1>1, LastCall
<1>2. ASSUME NEW c, NEW l, x.meant = AsRead(l) \o <<c>> PROVE x.meant # <<>> /\ call = c
  BY <1>2, LastAfterList
<1> HIDE DEF call
<1>3. ASSUME IsOnline(nd, x) PROVE Goal
  <2> DEFINE c == <<"HandlePeerOnline", nd.from, PortOf(nd.from)>>
  <2>1. x.meant = <<c>> BY <1>3 DEF IsOnline, Means
  <2>2. c[1] = "HandlePeerOnline" OBVIOUS
  <2> HIDE DEF c
  <2>3. QED BY <1>1, <1>3, <2>1, <2>2 DEF LastCallOf
<1>4. ASSUME IsOffline(nd, x) PROVE Goal
  <2> DEFINE c == <<"HandlePeerOffline", nd.from>>
  <2>1. x.meant = <<c>> BY <1>4 DEF IsOffline, Means
  <2>2. c[1] = "HandlePeerOffline" OBVIOUS
  <2> HIDE DEF c
  <2>3. QED BY <1>1, <2>1, <2>2 DEF LastCallOf
<1>5. ASSUME IsOnlineResponse(nd, x) PROVE Goal
  <2>1. PICK l \in PeerLists :
            x.meant = AsRead(l) \o << <<"HandleOnlineResp", l.peers, atoi(l.ts)>> >>
    BY <1>5 DEF IsOnlineResponse, Means
  <2> DEFINE c == <<"HandleOnlineResp", l.peers, atoi(l.ts)>>
  <2>2. c[1] = "HandleOnlineResp" OBVIOUS
  <2>3. x.meant = AsRead(l) \o <<c>> BY <2>1
  <2> HIDE DEF c
  <2>4. QED BY <1>2, <2>2, <2>3 DEF LastCallOf
<1>6. ASSUME nd.task # 0, IsTaskRequest(nd, x) PROVE Goal
  <2> DEFINE c == <<"HandleTaskRequest", nd.from, PortOf(nd.from), nd.task, m_paramList[nd.param]>>
  <2>1. x.meant = <<c>> BY <1>6 DEF IsTaskRequest, Means
  <2> HIDE DEF c
  <2>2. call = c /\ x.meant # <<>> BY <1>1, <2>1
  <2>3. QED BY <1>6, <2>2 DEF c, LastCallOf
<1>7. ASSUME nd.task # 0, IsExecute(nd, x) PROVE Goal
  <2> DEFINE c == <<"HandleTaskExecute", nd.from, nd.task>>
  <2>1. x.meant = <<c>> BY <1>7 DEF IsExecute, Means
  <2> HIDE DEF c
  <2>2. call = c /\ x.meant # <<>> BY <1>1, <2>1
  <2>3. QED BY <1>7, <2>2 DEF c, LastCallOf
<1>8. ASSUME nd.task # 0, IsCancel(nd, x) PROVE Goal
  <2> DEFINE c == <<"HandleTaskCancel", nd.from, nd.task>>
  <2>1. x.meant = <<c>> BY <1>8 DEF IsCancel, Means
  <2> HIDE DEF c
  <2>2. call = c /\ x.meant # <<>> BY <1>1, <2>1
  <2>3. QED BY <1>8, <2>2 DEF c, LastCallOf
<1>9. ASSUME IsResponse(nd, x) PROVE Goal
  <2>1. PICK l \in PeerLists, h \in 0 .. 1 :
            x.meant = ResponseCalls(l, nd.task, History(h))
    BY <1>9 DEF IsResponse, Means
  <2> DEFINE c == <<"HandleTaskRequestResponse", nd.task, TRUE, History(h)>>
  <2>2. c[1] = "HandleTaskRequestResponse" OBVIOUS
  <2>3. x.meant = AsRead(l) \o <<c>> BY <2>1 DEF ResponseCalls
  <2> HIDE DEF c
  <2>4. QED BY <1>2, <2>2, <2>3 DEF LastCallOf
<1>10. ASSUME IsExecuteResponse(nd, x) PROVE Goal
  <2>1. PICK ts \in 0 .. 1, status \in BOOLEAN :
            x.meant = << <<"HandleTaskExecuteResponse", nd.task, status>> >>
    BY <1>10 DEF IsExecuteResponse, Means
  <2> DEFINE c == <<"HandleTaskExecuteResponse", nd.task, status>>
  <2>2. c[1] = "HandleTaskExecuteResponse" OBVIOUS
  <2>3. x.meant = <<c>> BY <2>1
  <2> HIDE DEF c
  <2>4. QED BY <1>1, <2>2, <2>3 DEF LastCallOf
<1>11. ASSUME nd.task # 0, IsResult(nd, x) PROVE Goal
  <2>1. PICK lines \in ResultLists : x.meant = ResultCall(nd.task, m_paramList[nd.param], lines)
    BY <1>11 DEF IsResult, Means
  <2> DEFINE c == <<"HandleTaskResult", nd.task, TRUE, m_paramList[nd.param], GetResult(lines)>>
  <2>2. c[1] = "HandleTaskResult" /\ c[2] = nd.task /\ c[4] = m_paramList[nd.param] OBVIOUS
  <2>3. x.meant = <<c>> BY <2>1 DEF ResultCall
  <2> HIDE DEF c
  <2>4. call = c /\ x.meant # <<>> BY <1>1, <2>3
  <2>5. QED BY <1>11, <2>2, <2>4 DEF LastCallOf
<1> HIDE DEF Goal
<1>12. Goal
  BY <1>3, <1>4, <1>5, <1>6, <1>7, <1>8, <1>9, <1>10, <1>11 DEF Letter, OfTaskNode
<1>13. QED BY <1>12 DEF Goal, call

\* The handler that is called is the one of the letter, with what is meant.
LEMMA Handled ==
    ASSUME TypeInv, NodeInv, DocumentInv, NEW n \in Node, NEW h, Handles(n, h)
    PROVE  LET call == Last(wire[n].meant)
           IN  /\ call[1] = h
               /\ LastCallOf(node[n], wire[n], call)
               /\ Arg(n, 1) = call[2] /\ Arg(n, 2) = call[3] /\ Arg(n, 3) = call[4] /\ Arg(n, 4) = call[5]
<1>1. ~Quiet(n) BY DEF Handles
<1>2. Letter(node[n], wire[n]) BY <1>1 DEF DocumentInv
<1>3. ProcessMessages(wire[n].to, wire[n].doc) = wire[n].meant BY <1>2, LetterUnderstood
<1>4. LastCallOf(node[n], wire[n], Last(wire[n].meant)) BY <1>2, CallOfLetter
<1>5. Last(wire[n].meant)[1] = h BY <1>3 DEF Handles
<1> DEFINE call == Last(wire[n].meant)
<1>6. \A i : Arg(n, i) = call[i + 1] BY <1>3 DEF Arg
<1> HIDE DEF call
<1>7. Arg(n, 1) = call[2] /\ Arg(n, 2) = call[3] /\ Arg(n, 3) = call[4] /\ Arg(n, 4) = call[5]
  <2>1. 1 + 1 = 2 /\ 2 + 1 = 3 /\ 3 + 1 = 4 /\ 4 + 1 = 5 OBVIOUS
  <2>2. Arg(n, 1) = call[1 + 1] /\ Arg(n, 2) = call[2 + 1] /\ Arg(n, 3) = call[3 + 1]
        /\ Arg(n, 4) = call[4 + 1]
    BY <1>6
  <2>3. QED BY <2>1, <2>2
<1>8. QED BY <1>4, <1>5, <1>7 DEF call

\* The three requests that are about jobs.
LEMMA RequestsHandled ==
    ASSUME TypeInv, NodeInv, DocumentInv, NEW n \in Node
    PROVE  /\ Handles(n, "HandleTaskRequest") =>
                  /\ node[n].task # 0
                  /\ Arg(n, 1) = node[n].from /\ Arg(n, 3) = node[n].task
                  /\ Arg(n, 4) = m_paramList[node[n].param]
           /\ Handles(n, "HandleTaskExecute") =>
                  node[n].task # 0 /\ Arg(n, 1) = node[n].from /\ Arg(n, 2) = node[n].task
           /\ Handles(n, "HandleTaskCancel") =>
                  node[n].task # 0 /\ Arg(n, 1) = node[n].from /\ Arg(n, 2) = node[n].task
<1> DEFINE nd == node[n]
           call == Last(wire[n].meant)
<1>1. ASSUME NEW h, Handles(n, h)
      PROVE  /\ call[1] = h /\ LastCallOf(nd, wire[n], call)
             /\ Arg(n, 1) = call[2] /\ Arg(n, 2) = call[3] /\ Arg(n, 3) = call[4] /\ Arg(n, 4) = call[5]
  BY <1>1, Handled
<1> DEFINE x == wire[n]
<1> HIDE DEF nd, call, x
<1>2. ASSUME LastCallOf(nd, x, call), call[1] = "HandleTaskRequest"
      PROVE  call = <<"HandleTaskRequest", nd.from, PortOf(nd.from), nd.task, m_paramList[nd.param]>>
             /\ nd.task # 0
  BY <1>2 DEF LastCallOf
<1>3. ASSUME LastCallOf(nd, x, call), call[1] = "HandleTaskExecute"
      PROVE  call = <<"HandleTaskExecute", nd.from, nd.task>> /\ nd.task # 0
  BY <1>3 DEF LastCallOf
<1>4. ASSUME LastCallOf(nd, x, call), call[1] = "HandleTaskCancel"
      PROVE  call = <<"HandleTaskCancel", nd.from, nd.task>> /\ nd.task # 0
  BY <1>4 DEF LastCallOf
<1>5. Handles(n, "HandleTaskRequest") =>
          nd.task # 0 /\ Arg(n, 1) = nd.from /\ Arg(n, 3) = nd.task /\ Arg(n, 4) = m_paramList[nd.param]
  BY <1>1, <1>2 DEF x
<1>6. Handles(n, "HandleTaskExecute") => nd.task # 0 /\ Arg(n, 1) = nd.from /\ Arg(n, 2) = nd.task
  BY <1>1, <1>3 DEF x
<1>7. Handles(n, "HandleTaskCancel") => nd.task # 0 /\ Arg(n, 1) = nd.from /\ Arg(n, 2) = nd.task
  BY <1>1, <1>4 DEF x
<1>8. QED BY <1>5, <1>6, <1>7 DEF nd

\* The result, at the peer that asked, and the online message.
LEMMA AnswersHandled ==
    ASSUME TypeInv, NodeInv, DocumentInv, NEW n \in Node
    PROVE  /\ Handles(n, "HandleTaskResult") =>
                  /\ node[n].task # 0 /\ wire[n].to = node[n].from
                  /\ Arg(n, 1) = node[n].task /\ Arg(n, 3) = m_paramList[node[n].param]
           /\ Handles(n, "HandlePeerOnline") => node[n].from \in Owner
<1> DEFINE nd == node[n]
           call == Last(wire[n].meant)
<1>1. ASSUME NEW h, Handles(n, h)
      PROVE  /\ call[1] = h /\ LastCallOf(nd, wire[n], call)
             /\ Arg(n, 1) = call[2] /\ Arg(n, 3) = call[4]
  BY <1>1, Handled
<1> DEFINE x == wire[n]
<1> HIDE DEF nd, call, x
<1>2. ASSUME LastCallOf(nd, x, call), call[1] = "HandleTaskResult"
      PROVE  /\ call[2] = nd.task /\ call[4] = m_paramList[nd.param]
             /\ nd.task # 0 /\ x.to = nd.from
  <2>1. call[2] = nd.task /\ call[4] = m_paramList[nd.param] /\ nd.task # 0 /\ IsResult(nd, x)
    BY <1>2 DEF LastCallOf
  <2>2. QED BY <2>1 DEF IsResult, Means
<1>3. ASSUME LastCallOf(nd, x, call), call[1] = "HandlePeerOnline"
      PROVE  nd.from \in Owner
  <2>1. IsOnline(nd, x) BY <1>3 DEF LastCallOf
  <2>2. QED BY <2>1 DEF IsOnline
<1>4. Handles(n, "HandleTaskResult") =>
          nd.task # 0 /\ x.to = nd.from /\ Arg(n, 1) = nd.task /\ Arg(n, 3) = m_paramList[nd.param]
  BY <1>1, <1>2 DEF x
<1>5. Handles(n, "HandlePeerOnline") => nd.from \in Owner
  BY <1>1, <1>3 DEF x
<1>6. QED BY <1>4, <1>5 DEF nd, x

-----------------------------------------------------------------------------
\* Steps

\* A new PeerNode is a new element of Node, which has no jobs; what is sent over
\* it is on its way.
LEMMA NewNode ==
    ASSUME TypeInv, NodeInv, NEW purpose \in PeerNode, NEW doc, NEW meant,
           Connects(purpose, doc, meant)
    PROVE  \E n \in Node :
               /\ n = numNodes + 1 /\ numNodes' = n /\ node[n].task = 0
               /\ node' \in [Node -> PeerNode] /\ wire' = [k \in Node |-> wire'[k]]
               /\ node'[n] = purpose
               /\ Means(wire'[n], purpose.to, doc, meant)
               /\ \A k \in Node \ {n} : node'[k] = node[k] /\ wire'[k] = wire[k]
<1>1. /\ numNodes \in 0 .. MaxNodes /\ MaxNodes \in Nat
      /\ node \in [Node -> PeerNode] /\ wire = [k \in Node |-> wire[k]]
  BY ConstantFacts DEF TypeInv
<1>2. /\ numNodes < MaxNodes /\ numNodes' = numNodes + 1
      /\ node' = [node EXCEPT ![numNodes'] = purpose]
      /\ wire' = [wire EXCEPT ![numNodes'] = [to |-> purpose.to, doc |-> doc, meant |-> meant]]
  BY DEF Connects
<1> DEFINE n == numNodes + 1
<1>3. n \in Node /\ n > numNodes BY <1>1, <1>2 DEF Node
<1>4. node[n].task = 0
  <2>1. numNodes \in Nat /\ n \in Nat BY <1>1
  <2>2. ~(n <= numNodes) BY <2>1
  <2>3. QED BY <1>3, <2>2 DEF NodeInv
<1>5. node' = [node EXCEPT ![n] = purpose]
      /\ wire' = [wire EXCEPT ![n] = [to |-> purpose.to, doc |-> doc, meant |-> meant]]
  BY <1>2
<1>6. numNodes' = n BY <1>2
<1> HIDE DEF n
<1>7. node' \in [Node -> PeerNode] BY <1>1, <1>3, <1>5
<1>8. wire' = [k \in Node |-> wire'[k]] BY <1>1, <1>3, <1>5
<1>9. node'[n] = purpose BY <1>1, <1>3, <1>5
<1>10. wire'[n] = [to |-> purpose.to, doc |-> doc, meant |-> meant] BY <1>1, <1>3, <1>5
<1>11. Means(wire'[n], purpose.to, doc, meant) BY <1>10 DEF Means
<1>12. \A k \in Node \ {n} : node'[k] = node[k] /\ wire'[k] = wire[k] BY <1>1, <1>5
<1>13. QED BY <1>3, <1>4, <1>6, <1>7, <1>8, <1>9, <1>11, <1>12 DEF n

\* What every step keeps: the PeerNodes that were made for a task.
Kept == \A n \in Node : node[n].task # 0 => node'[n] = node[n]

\* The steps that make a PeerNode.
LEMMA NewNodeStep ==
    ASSUME TypeInv, NodeInv, NEW purpose \in PeerNode, NEW doc, NEW meant,
           Connects(purpose, doc, meant), UNCHANGED <<m_taskList, m_jobList, results>>,
           purpose.task # 0 => /\ purpose.from \in Owner /\ purpose.to \in Worker
                               /\ purpose.task \in m_taskList[purpose.from]
                               /\ purpose.param \in DOMAIN m_paramList
    PROVE  TypeInv' /\ NodeInv' /\ Kept
<1>1. PICK n \in Node :
          /\ n = numNodes + 1 /\ numNodes' = n /\ node[n].task = 0
          /\ node' \in [Node -> PeerNode] /\ wire' = [k \in Node |-> wire'[k]]
          /\ node'[n] = purpose
          /\ \A k \in Node \ {n} : node'[k] = node[k]
  BY NewNode
<1>2. Kept BY <1>1 DEF Kept
<1>3. TypeInv'
  <2>1. numNodes' \in 0 .. MaxNodes BY <1>1, ConstantFacts DEF Node
  <2>2. QED BY <1>1, <2>1 DEF TypeInv
<1>4. numNodes \in Nat BY DEF TypeInv
<1>5. ASSUME NEW k \in Node, node'[k].task # 0
      PROVE  /\ k <= numNodes' /\ node'[k].from \in Owner /\ node'[k].to \in Worker
             /\ node'[k].task \in m_taskList'[node'[k].from]
             /\ node'[k].param \in DOMAIN m_paramList
  <2>1. CASE k = n
    BY <1>1, <1>4, <1>5, <2>1
  <2>2. CASE k # n
    <3>1. node'[k] = node[k] BY <1>1, <2>2
    <3>2. /\ k <= numNodes /\ node[k].from \in Owner /\ node[k].to \in Worker
          /\ node[k].task \in m_taskList[node[k].from] /\ node[k].param \in DOMAIN m_paramList
      BY <1>5, <3>1 DEF NodeInv
    <3>3. k <= numNodes' BY <1>1, <1>4, <3>2 DEF Node
    <3>4. QED BY <3>1, <3>2, <3>3
  <2>3. QED BY <2>1, <2>2
<1>6. NodeInv' BY <1>5 DEF NodeInv
<1>7. QED BY <1>2, <1>3, <1>6

\* The steps that leave the PeerNodes alone.
LEMMA OldNodesStep ==
    ASSUME TypeInv, NodeInv, UNCHANGED <<m_taskList, numNodes, node>>,
           DOMAIN m_jobList' = Worker, wire' = [k \in Node |-> wire'[k]]
    PROVE  TypeInv' /\ NodeInv' /\ Kept
<1>1. TypeInv' BY DEF TypeInv
<1>2. NodeInv' BY DEF NodeInv
<1>3. Kept BY DEF Kept
<1>4. QED BY <1>1, <1>2, <1>3

\* The purposes of the new PeerNodes.
LEMMA Purposes ==
    ASSUME NEW p \in Owner
    PROVE  /\ [from |-> p, to |-> Coordinator, task |-> 0, param |-> 0] \in PeerNode
           /\ \A q \in Worker, t \in TaskId, i \in DOMAIN m_paramList :
                  [from |-> p, to |-> q, task |-> t, param |-> i] \in PeerNode
<1>1. p \in Nat BY ConstantFacts
<1>2. [from |-> p, to |-> Coordinator, task |-> 0, param |-> 0] \in PeerNode
  BY <1>1 DEF PeerNode
<1>3. ASSUME NEW q \in Worker, NEW t \in TaskId, NEW i \in DOMAIN m_paramList
      PROVE  [from |-> p, to |-> q, task |-> t, param |-> i] \in PeerNode
  <2>1. DOMAIN m_paramList \subseteq Nat
    <3>1. m_paramList \in Seq(STRING) BY MessagesConstants
    <3>2. DOMAIN m_paramList = 1 .. Len(m_paramList) /\ Len(m_paramList) \in Nat BY <3>1, LenProperties
    <3>3. QED BY <3>2
  <2>2. q \in Peer /\ t \in Nat /\ i \in Nat BY <2>1, ConstantFacts DEF TaskId
  <2>3. QED BY <1>1, <2>2 DEF PeerNode
<1>4. QED BY <1>2, <1>3

\* Types and PeerNodes.
LEMMA NodesStep ==
    ASSUME TypeInv, NodeInv, Next
    PROVE  TypeInv' /\ NodeInv' /\ Kept
<1> DEFINE Goal == TypeInv' /\ NodeInv' /\ Kept
<1> HIDE DEF Goal
<1>0. /\ DOMAIN m_jobList = Worker /\ wire = [k \in Node |-> wire[k]]
      /\ m_taskList \in [Owner -> SUBSET TaskId]
  BY DEF TypeInv
<1>1. ASSUME NEW p \in Owner, AddTask(p) PROVE Goal
  <2>1. /\ Cardinality(m_taskList[p]) < MaxTasks
        /\ m_taskList' = [m_taskList EXCEPT ![p] = @ \union {Cardinality(@) + 1}]
        /\ UNCHANGED <<m_jobList, results, numNodes, node, wire>>
    BY <1>1 DEF AddTask
  <2>2. Cardinality(m_taskList[p]) + 1 \in TaskId
    <3>1. IsFiniteSet(TaskId) BY FS_Interval, ConstantFacts DEF TaskId
    <3>2. IsFiniteSet(m_taskList[p]) BY <1>0, <3>1, FS_Subset
    <3>3. Cardinality(m_taskList[p]) \in Nat BY <3>2, FS_CardinalityType
    <3>4. QED BY <2>1, <3>3, ConstantFacts DEF TaskId
  <2>3. m_taskList' \in [Owner -> SUBSET TaskId] BY <1>0, <2>1, <2>2
  <2>4. \A o \in Owner : m_taskList[o] \subseteq m_taskList'[o] BY <1>0, <2>1
  <2>5. TypeInv' BY <2>1, <2>3 DEF TypeInv
  <2>6. NodeInv' BY <2>1, <2>4 DEF NodeInv
  <2>7. Kept BY <2>1 DEF Kept
  <2>8. QED BY <2>5, <2>6, <2>7 DEF Goal
<1>2. ASSUME NEW p \in Owner, SendOnlineMessage(p) \/ SendOfflineMessage(p) PROVE Goal
  <2> DEFINE purpose == [from |-> p, to |-> Coordinator, task |-> 0, param |-> 0]
  <2>1. PICK doc, meant : Connects(purpose, doc, meant)
    BY <1>2 DEF SendOnlineMessage, SendOfflineMessage
  <2>2. UNCHANGED <<m_taskList, m_jobList, results>>
    BY <1>2 DEF SendOnlineMessage, SendOfflineMessage
  <2>3. purpose \in PeerNode /\ purpose.task = 0 BY Purposes
  <2> HIDE DEF purpose
  <2>4. QED BY <2>1, <2>2, <2>3, NewNodeStep DEF Goal
<1>3. ASSUME NEW p \in Owner, NEW q \in Worker \ {p}, NEW t \in TaskId, NEW i \in DOMAIN m_paramList,
             TaskRequest(p, q, t, i)
      PROVE  Goal
  <2> DEFINE purpose == [from |-> p, to |-> q, task |-> t, param |-> i]
  <2>1. PICK doc, meant : Connects(purpose, doc, meant)
    BY <1>3 DEF TaskRequest
  <2>2. UNCHANGED <<m_taskList, m_jobList, results>> /\ t \in m_taskList[p]
    BY <1>3 DEF TaskRequest
  <2>3. purpose \in PeerNode BY Purposes
  <2>4. /\ purpose.from \in Owner /\ purpose.to \in Worker
        /\ purpose.task \in m_taskList[purpose.from] /\ purpose.param \in DOMAIN m_paramList
    BY <2>2
  <2> HIDE DEF purpose
  <2>5. QED BY <2>1, <2>2, <2>3, <2>4, NewNodeStep DEF Goal
<1>4. ASSUME NEW n \in Node, NodeStep(n) PROVE Goal
  <2>1. UNCHANGED <<m_taskList, numNodes, node>>
    BY <1>4 DEF NodeStep, TaskExecute, TaskCancel, HandleTaskRequest, HandleTaskExecute,
                HandleTaskCancel, HandleTaskResult, HandlePeerOnline, HandleOther
  <2>2. DOMAIN m_jobList' = Worker
    BY <1>0, <1>4 DEF NodeStep, TaskExecute, TaskCancel, HandleTaskRequest, HandleTaskExecute,
                      HandleTaskCancel, HandleTaskResult, HandlePeerOnline, HandleOther
  <2>3. \E x : wire' = [wire EXCEPT ![n] = x]
    BY <1>4 DEF NodeStep, TaskExecute, TaskCancel, HandleTaskRequest, HandleTaskExecute,
                HandleTaskCancel, HandleTaskResult, HandlePeerOnline, HandleOther, SendsTo, Received,
                TaskResponse, TaskExecuteResponse
  <2>4. wire' = [k \in Node |-> wire'[k]] BY <1>0, <2>3
  <2>5. QED BY <2>1, <2>2, <2>4, OldNodesStep DEF Goal
<1>5. ASSUME NEW w \in Worker, NEW j \in DOMAIN m_jobList[w], HandleJobExecution(w, j) PROVE Goal
  <2>1. UNCHANGED <<m_taskList, numNodes, node>> BY <1>5 DEF HandleJobExecution
  <2>2. DOMAIN m_jobList' = Worker BY <1>0, <1>5 DEF HandleJobExecution
  <2>3. \E n, x : wire' = [wire EXCEPT ![n] = x]
    BY <1>5 DEF HandleJobExecution, TaskExecuteResult, SendsTo
  <2>4. wire' = [k \in Node |-> wire'[k]] BY <1>0, <2>3
  <2>5. QED BY <2>1, <2>2, <2>4, OldNodesStep DEF Goal
<1>6. Goal
  BY <1>1, <1>2, <1>3, <1>4, <1>5 DEF Next, OwnerStep
<1>7. QED BY <1>6 DEF Goal

\* A job of a worker is one in the next state, too.
LEMMA JobsKept ==
    ASSUME Kept
    PROVE  \A w \in Worker : JobsOf(w) \subseteq JobsOf(w)'
<1>1. ASSUME NEW w \in Worker, NEW job \in JobsOf(w) PROVE job \in JobsOf(w)'
  <2>1. job \in Job /\ node[job.node].task # 0 BY DEF JobsOf
  <2>2. job.node \in Node BY <2>1 DEF Job
  <2>3. node'[job.node] = node[job.node] BY <2>1, <2>2 DEF Kept
  <2>4. QED BY <2>1, <2>3 DEF JobsOf
<1>2. QED BY <1>1

\* The jobs of which some are started are the same jobs.
LEMMA StartedJobs ==
    ASSUME NEW w, NEW s \in Seq(JobsOf(w)), NEW found
    PROVE  Started(s, found) \in Seq(JobsOf(w))
<1> DEFINE S == JobsOf(w)
           r == [j \in DOMAIN s |-> [s[j] EXCEPT !.running = @ \/ j \in found]]
<1>1. Len(s) \in Nat /\ DOMAIN s = 1 .. Len(s) /\ s \in [1 .. Len(s) -> S] BY LenProperties
<1>2. ASSUME NEW j \in DOMAIN s PROVE r[j] \in S
  <2>1. s[j] \in S BY <1>1
  <2>2. r[j] = [s[j] EXCEPT !.running = s[j].running \/ j \in found] OBVIOUS
  <2>3. s[j] \in Job BY <2>1 DEF JobsOf
  <2>4. (s[j].running \/ j \in found) \in BOOLEAN OBVIOUS
  <2>5. PICK b \in BOOLEAN : b = (s[j].running \/ j \in found) BY <2>4
  <2>6. r[j] = [s[j] EXCEPT !.running = b] BY <2>2, <2>5
  <2> HIDE DEF r
  <2>7. r[j] \in Job /\ r[j].node = s[j].node /\ r[j].owner = s[j].owner
        /\ r[j].taskId = s[j].taskId /\ r[j].param = s[j].param
    BY <2>3, <2>6 DEF Job
  <2>8. QED BY <2>1, <2>7 DEF JobsOf
<1>3. DOMAIN r = 1 .. Len(s) BY <1>1
<1> HIDE DEF r
<1>4. r \in [1 .. Len(s) -> S]
  <2>1. r = [j \in 1 .. Len(s) |-> r[j]] BY <1>1 DEF r
  <2>2. QED BY <1>1, <1>2, <2>1
<1>5. QED BY <1>1, <1>4, SeqDef DEF Started, r

\* The jobs are those of the requests.
LEMMA JobsStep ==
    ASSUME TypeInv, NodeInv, DocumentInv, JobInv, Kept, Next
    PROVE  JobInv'
<1>0. DOMAIN m_jobList = Worker /\ \A w \in Worker : m_jobList[w] \in Seq(JobsOf(w))
  BY DEF TypeInv, JobInv
<1> DEFINE Goal == \A w \in Worker : m_jobList'[w] \in Seq(JobsOf(w))
<1>1. ASSUME Goal PROVE JobInv'
  <2>1. \A w \in Worker : JobsOf(w) \subseteq JobsOf(w)' BY JobsKept
  <2>2. ASSUME NEW w \in Worker PROVE m_jobList'[w] \in Seq(JobsOf(w)')
    <3>1. JobsOf(w) \subseteq JobsOf(w)' /\ m_jobList'[w] \in Seq(JobsOf(w)) BY <1>1, <2>1
    <3>2. QED BY <3>1, SeqMonotonic
  <2>3. QED BY <2>2 DEF JobInv
<1>2. ASSUME m_jobList' = m_jobList PROVE Goal BY <1>0, <1>2
<1>3. ASSUME NEW p \in Owner, OwnerStep(p) PROVE Goal
  <2>1. m_jobList' = m_jobList
    BY <1>3 DEF OwnerStep, AddTask, SendOnlineMessage, SendOfflineMessage, TaskRequest
  <2>2. QED BY <1>2, <2>1
<1>4. ASSUME NEW n \in Node, HandleTaskRequest(n) PROVE Goal
  <2> DEFINE nd == node[n]
             job == [owner |-> Arg(n, 1), taskId |-> Arg(n, 3), param |-> Arg(n, 4), node |-> n,
                     running |-> FALSE]
  <2>1. m_jobList' = [m_jobList EXCEPT ![nd.to] = Append(@, job)] /\ Handles(n, "HandleTaskRequest")
    BY <1>4 DEF HandleTaskRequest
  <2>2. /\ nd.task # 0 /\ Arg(n, 1) = nd.from /\ Arg(n, 3) = nd.task
        /\ Arg(n, 4) = m_paramList[nd.param]
    BY <2>1, RequestsHandled
  <2>3. /\ nd.from \in Owner /\ nd.to \in Worker /\ nd.task \in m_taskList[nd.from]
        /\ nd.param \in DOMAIN m_paramList
    BY <2>2 DEF NodeInv
  <2>4. nd.task \in TaskId /\ m_paramList[nd.param] \in STRING
    BY <2>3, ConstantFacts DEF TypeInv
  <2>5. job.node = n /\ job.owner = nd.from /\ job.taskId = nd.task /\ job.param = m_paramList[nd.param]
    BY <2>2
  <2>6. job \in Job BY <2>2, <2>3, <2>4 DEF Job
  <2>7. job \in JobsOf(nd.to) BY <2>2, <2>5, <2>6 DEF JobsOf
  <2> HIDE DEF job, nd
  <2>8. Append(m_jobList[nd.to], job) \in Seq(JobsOf(nd.to))
    BY <1>0, <2>3, <2>7, AppendProperties
  <2>9. QED BY <1>0, <2>1, <2>3, <2>8
<1>5. ASSUME NEW n \in Node, HandleTaskExecute(n) PROVE Goal
  <2> DEFINE w == node[n].to
             found == {j \in DOMAIN m_jobList[w] : IsJob(m_jobList[w][j], n, Arg(n, 1), Arg(n, 2))}
             started == Started(m_jobList[w], found)
  <2>1. Handles(n, "HandleTaskExecute") BY <1>5 DEF HandleTaskExecute
  <2>2. w \in Worker BY <2>1, RequestsHandled DEF NodeInv
  <2>3. m_jobList' = [m_jobList EXCEPT ![w] = started]
    <3>1. m_jobList' = [m_jobList EXCEPT ![w] = Started(@, found)]
      BY <1>5 DEF HandleTaskExecute
    <3> HIDE DEF found, w
    <3>2. QED BY <1>0, <2>2, <3>1
  <2> HIDE DEF found, w
  <2>4. started \in Seq(JobsOf(w)) BY <1>0, <2>2, StartedJobs
  <2> HIDE DEF started
  <2>5. QED BY <1>0, <2>2, <2>3, <2>4
<1>6. ASSUME NEW n \in Node, HandleTaskCancel(n) PROVE Goal
  <2> DEFINE w == node[n].to
             found == {j \in DOMAIN m_jobList[w] : OfTask(m_jobList[w][j], Arg(n, 1), Arg(n, 2))}
  <2>1. /\ Handles(n, "HandleTaskCancel")
        /\ m_jobList' = IF found = {} THEN m_jobList
                        ELSE [m_jobList EXCEPT ![w] = RemoveAt(@, Min(found))]
    BY <1>6 DEF HandleTaskCancel
  <2>2. w \in Worker BY <2>1, RequestsHandled DEF NodeInv
  <2>3. found \subseteq DOMAIN m_jobList[w] OBVIOUS
  <2> HIDE DEF found, w
  <2>4. CASE found = {} BY <1>2, <2>1, <2>4
  <2>5. CASE found # {}
    <3>1. m_jobList[w] \in Seq(JobsOf(w)) BY <1>0, <2>2
    <3>2. DOMAIN m_jobList[w] = 1 .. Len(m_jobList[w]) /\ Len(m_jobList[w]) \in Nat
      BY <3>1, LenProperties
    <3>3. found \subseteq Nat BY <2>3, <3>2
    <3>4. Min(found) \in found BY <2>5, <3>3, MinOfNat
    <3>5. Min(found) \in 1 .. Len(m_jobList[w]) BY <2>3, <3>2, <3>4
    <3>6. RemoveAt(m_jobList[w], Min(found)) \in Seq(JobsOf(w)) BY <3>1, <3>5, RemoveAtFacts
    <3>7. QED BY <1>0, <2>1, <2>2, <2>5, <3>6
  <2>6. QED BY <2>4, <2>5
<1>7. ASSUME NEW w \in Worker, NEW j \in DOMAIN m_jobList[w], HandleJobExecution(w, j) PROVE Goal
  <2> DEFINE s == m_jobList[w]
             ended == [s EXCEPT ![j].running = FALSE]
  <2>1. m_jobList' = [m_jobList EXCEPT ![w] = ended] BY <1>7 DEF HandleJobExecution
  <2>2. s \in Seq(JobsOf(w)) BY <1>0
  <2>3. Len(s) \in Nat /\ DOMAIN s = 1 .. Len(s) /\ s \in [1 .. Len(s) -> JobsOf(w)]
    BY <2>2, LenProperties
  <2>4. [s[j] EXCEPT !.running = FALSE] \in JobsOf(w)
    <3>1. s[j] \in JobsOf(w) BY <2>3
    <3>2. s[j] \in Job BY <3>1 DEF JobsOf
    <3> DEFINE r == [s[j] EXCEPT !.running = FALSE]
    <3>3. r \in Job /\ r.node = s[j].node /\ r.owner = s[j].owner
          /\ r.taskId = s[j].taskId /\ r.param = s[j].param
      BY <3>2 DEF Job
    <3> HIDE DEF r, s
    <3>4. r \in JobsOf(w) BY <3>1, <3>3 DEF JobsOf
    <3>5. QED BY <3>4 DEF r, s
  <2>5. ended \in [1 .. Len(s) -> JobsOf(w)] BY <2>3, <2>4
  <2>6. ended \in Seq(JobsOf(w)) BY <2>3, <2>5, SeqDef
  <2> HIDE DEF ended
  <2>7. QED BY <1>0, <2>1, <2>6
<1>8. ASSUME NEW n \in Node, NodeStep(n) PROVE Goal
  <2>1. CASE TaskExecute(n) \/ TaskCancel(n) \/ HandleTaskResult(n) \/ HandlePeerOnline(n) \/ HandleOther(n)
    <3>1. m_jobList' = m_jobList
      BY <2>1 DEF TaskExecute, TaskCancel, HandleTaskResult, HandlePeerOnline, HandleOther
    <3>2. QED BY <1>2, <3>1
  <2>2. QED BY <1>4, <1>5, <1>6, <1>8, <2>1 DEF NodeStep
<1> HIDE DEF Goal
<1>9. Goal BY <1>3, <1>7, <1>8 DEF Next
<1>10. QED BY <1>1, <1>9

\* A parameter's text is found at the parameter.
LEMMA IndexOfParam ==
    ASSUME NEW i \in DOMAIN m_paramList
    PROVE  IndexOf(m_paramList[i]) = i
<1> DEFINE c == CHOOSE k \in DOMAIN m_paramList : m_paramList[k] = m_paramList[i]
<1>1. c \in DOMAIN m_paramList /\ m_paramList[c] = m_paramList[i]
  OBVIOUS
<1>2. IndexOf(m_paramList[i]) = c BY DEF IndexOf
<1> HIDE DEF c
<1>3. c = i BY <1>1, ConstantFacts
<1>4. QED BY <1>2, <1>3

\* The results.
LEMMA ResultsStep ==
    ASSUME TypeInv, NodeInv, DocumentInv, ResultInv, Kept, Next
    PROVE  ResultInv'
<1>1. CASE results' = results
  <2>1. ASSUME NEW r \in results
        PROVE  /\ r.node \in Node /\ node'[r.node].task # 0
               /\ r.owner = node'[r.node].from /\ r.task = node'[r.node].task
               /\ r.index = node'[r.node].param
    <3>1. /\ r.node \in Node /\ node[r.node].task # 0
          /\ r.owner = node[r.node].from /\ r.task = node[r.node].task /\ r.index = node[r.node].param
      BY DEF ResultInv
    <3>2. node'[r.node] = node[r.node] BY <3>1 DEF Kept
    <3>3. QED BY <3>1, <3>2
  <2>2. QED BY <1>1, <2>1 DEF ResultInv
<1>2. ASSUME NEW n \in Node, HandleTaskResult(n) PROVE ResultInv'
  <2> DEFINE new == [owner |-> wire[n].to, task |-> Arg(n, 1), index |-> IndexOf(Arg(n, 3)), node |-> n]
  <2>1. Handles(n, "HandleTaskResult") /\ results' = results \union {new} /\ node' = node
    BY <1>2 DEF HandleTaskResult
  <2>2. /\ node[n].task # 0 /\ wire[n].to = node[n].from /\ Arg(n, 1) = node[n].task
        /\ Arg(n, 3) = m_paramList[node[n].param]
    BY <2>1, AnswersHandled
  <2>3. node[n].param \in DOMAIN m_paramList BY <2>2 DEF NodeInv
  <2>4. IndexOf(Arg(n, 3)) = node[n].param BY <2>2, <2>3, IndexOfParam
  <2>5. /\ new.node = n /\ new.owner = node[n].from /\ new.task = node[n].task
        /\ new.index = node[n].param
    BY <2>2, <2>4
  <2> HIDE DEF new
  <2>6. QED BY <2>1, <2>2, <2>5 DEF ResultInv
<1>3. CASE results' # results
  <2>1. ASSUME NEW n \in Node, NodeStep(n) PROVE HandleTaskResult(n)
    BY <1>3, <2>1 DEF NodeStep, TaskExecute, TaskCancel, HandleTaskRequest, HandleTaskExecute,
                      HandleTaskCancel, HandlePeerOnline, HandleOther
  <2>2. ASSUME NEW p \in Owner, OwnerStep(p) PROVE FALSE
    BY <1>3, <2>2 DEF OwnerStep, AddTask, SendOnlineMessage, SendOfflineMessage, TaskRequest
  <2>3. ASSUME NEW w \in Worker, NEW j \in DOMAIN m_jobList[w], HandleJobExecution(w, j) PROVE FALSE
    BY <1>3, <2>3 DEF HandleJobExecution
  <2>4. QED BY <1>2, <2>1, <2>2, <2>3 DEF Next
<1>4. QED BY <1>1, <1>3

\* One PeerNode's document changes.
LEMMA OneLetter ==
    ASSUME DocumentInv, NEW n \in Node,
           \A k \in Node \ {n} : node'[k] = node[k] /\ wire'[k] = wire[k],
           wire'[n].to = 0 \/ Letter(node'[n], wire'[n])
    PROVE  DocumentInv'
<1>1. ASSUME NEW k \in Node PROVE wire'[k].to = 0 \/ Letter(node'[k], wire'[k])
  <2>1. CASE k = n BY <2>1
  <2>2. CASE k # n
    <3>1. node'[k] = node[k] /\ wire'[k] = wire[k] BY <2>2
    <3>2. wire[k].to = 0 \/ Letter(node[k], wire[k]) BY DEF DocumentInv, Quiet
    <3>3. QED BY <3>1, <3>2
  <2>3. QED BY <2>1, <2>2
<1>2. QED BY <1>1 DEF DocumentInv, Quiet

\* And over an old PeerNode nothing else does.
LEMMA OneLetterSent ==
    ASSUME TypeInv, DocumentInv, NEW n \in Node, node' = node,
           \E x : wire' = [wire EXCEPT ![n] = x],
           wire'[n].to = 0 \/ Letter(node[n], wire'[n])
    PROVE  DocumentInv'
<1>1. wire = [k \in Node |-> wire[k]] BY DEF TypeInv
<1>2. \A k \in Node \ {n} : node'[k] = node[k] /\ wire'[k] = wire[k] BY <1>1
<1>3. wire'[n].to = 0 \/ Letter(node'[n], wire'[n]) OBVIOUS
<1>4. QED BY <1>2, <1>3, OneLetter

\* What is sent is on its way.
LEMMA Sent ==
    ASSUME TypeInv, NEW n \in Node, NEW to, NEW doc, NEW meant, SendsTo(n, to, doc, meant)
    PROVE  Means(wire'[n], to, doc, meant) /\ \E x : wire' = [wire EXCEPT ![n] = x]
<1>1. wire = [k \in Node |-> wire[k]] BY DEF TypeInv
<1> DEFINE x == [to |-> to, doc |-> doc, meant |-> meant]
<1>2. wire' = [wire EXCEPT ![n] = x] BY DEF SendsTo
<1>3. x.to = to /\ x.doc = doc /\ x.meant = meant OBVIOUS
<1> HIDE DEF x
<1>4. wire'[n] = x BY <1>1, <1>2
<1>5. QED BY <1>2, <1>3, <1>4 DEF Means

\* What PeerNodes are made for.
LEMMA DocumentOfNewNode ==
    ASSUME TypeInv, NodeInv, DocumentInv, NEW p \in Owner, OwnerStep(p)
    PROVE  DocumentInv'
<1> DEFINE online == [from |-> p, to |-> Coordinator, task |-> 0, param |-> 0]
<1>1. ASSUME NEW purpose \in PeerNode, NEW doc, NEW meant, Connects(purpose, doc, meant),
             \A x : Means(x, purpose.to, doc, meant) => Letter(purpose, x)
      PROVE  DocumentInv'
  <2>1. PICK n \in Node :
            /\ node'[n] = purpose /\ Means(wire'[n], purpose.to, doc, meant)
            /\ \A k \in Node \ {n} : node'[k] = node[k] /\ wire'[k] = wire[k]
    BY <1>1, NewNode
  <2>2. Letter(node'[n], wire'[n]) BY <1>1, <2>1
  <2>3. QED BY <2>1, <2>2, OneLetter
<1>2. online \in PeerNode /\ online.from = p /\ online.to = Coordinator BY Purposes
<1>3. CASE AddTask(p)
  BY <1>3 DEF AddTask, DocumentInv, Quiet
<1>4. CASE SendOnlineMessage(p)
  <2>1. Connects(online, OnlineDoc(p), << <<"HandlePeerOnline", p, PortOf(p)>> >>)
    BY <1>4 DEF SendOnlineMessage, OnlineDoc
  <2> HIDE DEF online
  <2>2. \A x : Means(x, online.to, OnlineDoc(p), << <<"HandlePeerOnline", p, PortOf(p)>> >>) =>
                   Letter(online, x)
    BY <1>2 DEF Letter, IsOnline
  <2>3. QED BY <1>1, <1>2, <2>1, <2>2
<1>5. CASE SendOfflineMessage(p)
  <2>1. Connects(online, OfflineDoc(p), << <<"HandlePeerOffline", p>> >>)
    BY <1>5 DEF SendOfflineMessage, OfflineDoc
  <2> HIDE DEF online
  <2>2. \A x : Means(x, online.to, OfflineDoc(p), << <<"HandlePeerOffline", p>> >>) => Letter(online, x)
    BY <1>2 DEF Letter, IsOffline
  <2>3. QED BY <1>1, <1>2, <2>1, <2>2
<1>6. ASSUME NEW q \in Worker \ {p}, NEW t \in TaskId, NEW i \in DOMAIN m_paramList,
             TaskRequest(p, q, t, i)
      PROVE  DocumentInv'
  <2> DEFINE nd == [from |-> p, to |-> q, task |-> t, param |-> i]
             doc == TaskRequestDoc(p, t, m_paramList[i])
             meant == << <<"HandleTaskRequest", p, PortOf(p), t, m_paramList[i]>> >>
  <2>1. Connects(nd, doc, meant) BY <1>6 DEF TaskRequest, TaskRequestDoc
  <2>2. nd \in PeerNode BY Purposes
  <2>3. nd.from = p /\ nd.to = q /\ nd.task = t /\ nd.param = i /\ nd.task # 0 BY DEF TaskId
  <2> HIDE DEF nd
  <2>4. ASSUME NEW x, Means(x, nd.to, doc, meant) PROVE Letter(nd, x)
    <3>1. IsTaskRequest(nd, x) BY <2>3, <2>4 DEF IsTaskRequest
    <3>2. QED BY <2>3, <3>1 DEF Letter, OfTaskNode
  <2> HIDE DEF doc, meant
  <2>5. QED BY <1>1, <2>1, <2>2, <2>4
<1>7. QED BY <1>3, <1>4, <1>5, <1>6 DEF OwnerStep

\* The responses of a worker to its PeerNode's owner.
LEMMA ResponseLetters ==
    ASSUME TypeInv, NEW n \in Node, node[n].task # 0
    PROVE  /\ TaskResponse(n, node[n].task) =>
                  /\ Letter(node[n], wire'[n])
                  /\ \E x : wire' = [wire EXCEPT ![n] = x]
           /\ \A status \in BOOLEAN : TaskExecuteResponse(n, node[n].task, status) =>
                  /\ Letter(node[n], wire'[n])
                  /\ \E x : wire' = [wire EXCEPT ![n] = x]
<1> DEFINE nd == node[n]
           Good == Letter(nd, wire'[n]) /\ \E x : wire' = [wire EXCEPT ![n] = x]
<1>1. ASSUME TaskResponse(n, nd.task) PROVE Good
  <2>1. PICK l \in PeerLists, h \in 0 .. 1 :
            SendsTo(n, nd.from, ResponseDoc(nd.to, l, nd.task, History(h)),
                    ResponseCalls(l, nd.task, History(h)))
    BY <1>1 DEF TaskResponse, ListsWith, ResponseDoc, ResponseCalls, History
  <2>2. Means(wire'[n], nd.from, ResponseDoc(nd.to, l, nd.task, History(h)),
              ResponseCalls(l, nd.task, History(h)))
        /\ \E x : wire' = [wire EXCEPT ![n] = x]
    BY <2>1, Sent
  <2>3. IsResponse(nd, wire'[n]) BY <2>2 DEF IsResponse
  <2>4. QED BY <2>2, <2>3 DEF Letter, OfTaskNode
<1>2. ASSUME NEW status \in BOOLEAN, TaskExecuteResponse(n, nd.task, status) PROVE Good
  <2>1. PICK ts \in 0 .. 1 :
            SendsTo(n, nd.from, ExecuteResponseDoc(nd.to, status, ts, nd.task),
                    << <<"HandleTaskExecuteResponse", nd.task, status>> >>)
    BY <1>2 DEF TaskExecuteResponse, ExecuteResponseDoc
  <2>2. Means(wire'[n], nd.from, ExecuteResponseDoc(nd.to, status, ts, nd.task),
              << <<"HandleTaskExecuteResponse", nd.task, status>> >>)
        /\ \E x : wire' = [wire EXCEPT ![n] = x]
    BY <2>1, Sent
  <2>3. IsExecuteResponse(nd, wire'[n]) BY <2>2 DEF IsExecuteResponse
  <2>4. QED BY <2>2, <2>3 DEF Letter, OfTaskNode
<1>3. QED BY <1>1, <1>2

\* What the jobs' threads send.
LEMMA ResultLetters ==
    ASSUME TypeInv, NodeInv, JobInv, NEW w \in Worker, NEW j \in DOMAIN m_jobList[w],
           HandleJobExecution(w, j)
    PROVE  \E n \in Node : /\ node' = node
                           /\ Letter(node[n], wire'[n])
                           /\ \E x : wire' = [wire EXCEPT ![n] = x]
<1> DEFINE job == m_jobList[w][j]
           n == job.node
           nd == node[n]
<1>1. job \in JobsOf(w)
  <2>1. m_jobList[w] \in Seq(JobsOf(w)) BY DEF JobInv
  <2>2. j \in 1 .. Len(m_jobList[w]) BY <2>1, LenProperties
  <2>3. QED BY <2>1, <2>2, ElementOfSeq
<1>2. /\ n \in Node /\ nd.task # 0 /\ job.taskId = nd.task /\ job.param = m_paramList[nd.param]
  BY <1>1 DEF JobsOf, Job
<1>3. node' = node BY DEF HandleJobExecution
<1>4. PICK lines \in ResultLists : TaskExecuteResult(n, job, lines) BY DEF HandleJobExecution
<1> HIDE DEF n, job
<1>5. SendsTo(n, nd.from, ResultDoc(nd.to, nd.task, m_paramList[nd.param], lines),
              ResultCall(nd.task, m_paramList[nd.param], lines))
  BY <1>2, <1>4 DEF TaskExecuteResult, ResultDoc, ResultCall
<1>6. Means(wire'[n], nd.from, ResultDoc(nd.to, nd.task, m_paramList[nd.param], lines),
            ResultCall(nd.task, m_paramList[nd.param], lines))
      /\ \E x : wire' = [wire EXCEPT ![n] = x]
  BY <1>2, <1>5, Sent
<1>7. IsResult(nd, wire'[n]) BY <1>6 DEF IsResult
<1>8. Letter(nd, wire'[n]) BY <1>2, <1>7 DEF Letter, OfTaskNode
<1>9. QED BY <1>2, <1>3, <1>6, <1>8

\* What is on its way is a letter of its PeerNode.
LEMMA DocumentStep ==
    ASSUME TypeInv, NodeInv, DocumentInv, JobInv, Next
    PROVE  DocumentInv'
<1>1. ASSUME NEW p \in Owner, OwnerStep(p) PROVE DocumentInv'
  BY <1>1, DocumentOfNewNode
<1>2. ASSUME NEW n \in Node, TaskExecute(n) PROVE DocumentInv'
  <2> DEFINE nd == node[n]
             meant == << <<"HandleTaskExecute", nd.from, nd.task>> >>
  <2>1. nd.task # 0 /\ SendsTo(n, nd.to, ExecuteDoc(nd.from, nd.task), meant) /\ node' = node
    BY <1>2 DEF TaskExecute, ExecuteDoc
  <2>2. Means(wire'[n], nd.to, ExecuteDoc(nd.from, nd.task), meant)
        /\ \E x : wire' = [wire EXCEPT ![n] = x]
    BY <2>1, Sent
  <2>3. IsExecute(nd, wire'[n]) BY <2>2 DEF IsExecute
  <2>4. Letter(nd, wire'[n]) BY <2>1, <2>3 DEF Letter, OfTaskNode
  <2>5. QED BY <2>1, <2>2, <2>4, OneLetterSent
<1>3. ASSUME NEW n \in Node, TaskCancel(n) PROVE DocumentInv'
  <2> DEFINE nd == node[n]
             meant == << <<"HandleTaskCancel", nd.from, nd.task>> >>
  <2>1. nd.task # 0 /\ SendsTo(n, nd.to, CancelDoc(nd.from, nd.task), meant) /\ node' = node
    BY <1>3 DEF TaskCancel, CancelDoc
  <2>2. Means(wire'[n], nd.to, CancelDoc(nd.from, nd.task), meant)
        /\ \E x : wire' = [wire EXCEPT ![n] = x]
    BY <2>1, Sent
  <2>3. IsCancel(nd, wire'[n]) BY <2>2 DEF IsCancel
  <2>4. Letter(nd, wire'[n]) BY <2>1, <2>3 DEF Letter, OfTaskNode
  <2>5. QED BY <2>1, <2>2, <2>4, OneLetterSent
<1>4. ASSUME NEW n \in Node, HandleTaskRequest(n) PROVE DocumentInv'
  <2>1. Handles(n, "HandleTaskRequest") /\ TaskResponse(n, Arg(n, 3)) /\ node' = node
    BY <1>4 DEF HandleTaskRequest
  <2>2. node[n].task # 0 /\ Arg(n, 3) = node[n].task BY <2>1, RequestsHandled
  <2>3. TaskResponse(n, node[n].task) BY <2>1, <2>2
  <2>4. Letter(node[n], wire'[n]) /\ \E x : wire' = [wire EXCEPT ![n] = x]
    BY <2>2, <2>3, ResponseLetters
  <2>5. QED BY <2>1, <2>4, OneLetterSent
<1>5. ASSUME NEW n \in Node, HandleTaskExecute(n) PROVE DocumentInv'
  <2>1. /\ Handles(n, "HandleTaskExecute") /\ node' = node
        /\ \E status \in BOOLEAN : TaskExecuteResponse(n, Arg(n, 2), status)
    BY <1>5 DEF HandleTaskExecute
  <2>2. node[n].task # 0 /\ Arg(n, 2) = node[n].task BY <2>1, RequestsHandled
  <2>3. PICK status \in BOOLEAN : TaskExecuteResponse(n, Arg(n, 2), status) BY <2>1
  <2>4. TaskExecuteResponse(n, node[n].task, status) BY <2>2, <2>3
  <2>5. Letter(node[n], wire'[n]) /\ \E x : wire' = [wire EXCEPT ![n] = x]
    BY <2>2, <2>4, ResponseLetters
  <2>6. QED BY <2>1, <2>5, OneLetterSent
<1>6. ASSUME NEW n \in Node, HandleTaskCancel(n) \/ HandleTaskResult(n) \/ HandleOther(n)
      PROVE  DocumentInv'
  <2>1. wire' = [wire EXCEPT ![n] = Nothing] /\ node' = node
    BY <1>6 DEF HandleTaskCancel, HandleTaskResult, HandleOther, Received
  <2>2. wire = [k \in Node |-> wire[k]] BY DEF TypeInv
  <2>3. wire'[n].to = 0 BY <2>1, <2>2 DEF Nothing
  <2>4. QED BY <2>1, <2>3, OneLetterSent
<1>7. ASSUME NEW n \in Node, HandlePeerOnline(n) PROVE DocumentInv'
  <2> DEFINE nd == node[n]
  <2>1. Handles(n, "HandlePeerOnline") /\ node' = node BY <1>7 DEF HandlePeerOnline
  <2>2. nd.from \in Owner BY <2>1, AnswersHandled
  <2>3. PICK l \in PeerLists :
            SendsTo(n, nd.from, RespondOnlineXML(l.ts, l.peers),
                    AsRead(l) \o << <<"HandleOnlineResp", l.peers, atoi(l.ts)>> >>)
    BY <1>7 DEF HandlePeerOnline, ListsWith
  <2>4. Means(wire'[n], nd.from, RespondOnlineXML(l.ts, l.peers),
              AsRead(l) \o << <<"HandleOnlineResp", l.peers, atoi(l.ts)>> >>)
        /\ \E x : wire' = [wire EXCEPT ![n] = x]
    BY <2>3, Sent
  <2>5. IsOnlineResponse(nd, wire'[n]) BY <2>2, <2>4 DEF IsOnlineResponse
  <2>6. Letter(nd, wire'[n]) BY <2>5 DEF Letter
  <2>7. QED BY <2>1, <2>4, <2>6, OneLetterSent
<1>8. ASSUME NEW w \in Worker, NEW j \in DOMAIN m_jobList[w], HandleJobExecution(w, j)
      PROVE  DocumentInv'
  <2>1. PICK n \in Node : /\ node' = node /\ Letter(node[n], wire'[n])
                          /\ \E x : wire' = [wire EXCEPT ![n] = x]
    BY <1>8, ResultLetters
  <2>2. QED BY <2>1, OneLetterSent
<1>9. ASSUME NEW n \in Node, NodeStep(n) PROVE DocumentInv'
  BY <1>2, <1>3, <1>4, <1>5, <1>6, <1>7, <1>9 DEF NodeStep
<1>10. QED BY <1>1, <1>8, <1>9 DEF Next

-----------------------------------------------------------------------------
\* The theorems

\* Nothing has been sent.
LEMMA MessageInvInit == Init => MessageInv
<1> SUFFICES ASSUME Init PROVE MessageInv
  OBVIOUS
<1>1. TypeInv
  <2>1. NoNode \in PeerNode BY DEF NoNode, PeerNode
  <2>2. 0 \in 0 .. MaxNodes BY ConstantFacts
  <2> HIDE DEF NoNode
  <2>3. m_taskList \in [Owner -> SUBSET TaskId] BY DEF Init
  <2>4. DOMAIN m_jobList = Worker /\ wire = [n \in Node |-> wire[n]] BY DEF Init
  <2>5. QED BY <2>1, <2>2, <2>3, <2>4 DEF TypeInv, Init
<1>2. \A n \in Node : node[n].task = 0 BY DEF Init, NoNode
<1>3. NodeInv BY <1>2 DEF NodeInv
<1>4. DocumentInv BY DEF Init, DocumentInv, Quiet, Nothing
<1>5. JobInv
  <2>1. \A w \in Worker : m_jobList[w] = <<>> BY DEF Init
  <2>2. ASSUME NEW S PROVE <<>> \in Seq(S) OBVIOUS
  <2>3. QED BY <2>1, <2>2 DEF JobInv
<1>6. ResultInv BY DEF Init, ResultInv
<1>7. QED BY <1>1, <1>3, <1>4, <1>5, <1>6 DEF MessageInv

\* Every step keeps it.
LEMMA MessageInvStep == MessageInv /\ [Next]_vars => MessageInv'
<1>1. CASE MessageInv /\ Next
  <2>1. TypeInv /\ NodeInv /\ DocumentInv /\ JobInv /\ ResultInv BY <1>1 DEF MessageInv
  <2>2. TypeInv' /\ NodeInv' /\ Kept BY <1>1, <2>1, NodesStep
  <2>3. DocumentInv' BY <1>1, <2>1, DocumentStep
  <2>4. JobInv' BY <1>1, <2>1, <2>2, JobsStep
  <2>5. ResultInv' BY <1>1, <2>1, <2>2, ResultsStep
  <2>6. QED BY <2>2, <2>3, <2>4, <2>5 DEF MessageInv
<1>2. CASE MessageInv /\ UNCHANGED vars
  BY <1>2 DEF vars, MessageInv, TypeInv, NodeInv, DocumentInv, Quiet, JobInv, JobsOf, ResultInv
<1>3. QED BY <1>1, <1>2

\* Documents and jobs are always those of their PeerNodes.
LEMMA MessageInvAlways == Spec => []MessageInv
BY MessageInvInit, MessageInvStep, PTL DEF Spec

\* Whatever the owners, tasks, parameters, lists and results are, each program
\* makes of every document what the other meant by it.
THEOREM DocumentsAreUnderstood == Spec => []UnderstoodAsMeant
<1>1. MessageInv => UnderstoodAsMeant
  <2> SUFFICES ASSUME MessageInv, NEW n \in Node, ~Quiet(n)
               PROVE  ProcessMessages(wire[n].to, wire[n].doc) = wire[n].meant
    BY DEF UnderstoodAsMeant
  <2>1. TypeInv /\ NodeInv /\ DocumentInv BY DEF MessageInv
  <2>2. Letter(node[n], wire[n]) BY <2>1 DEF DocumentInv
  <2>3. QED BY <2>1, <2>2, LetterUnderstood
<1>2. QED BY <1>1, MessageInvAlways, PTL

\* Every result is stored for the task and the parameter its PeerNode was made for.
THEOREM ResultsAreStoredRight == Spec => []ResultsAreOfTheirParam
<1>1. MessageInv => ResultsAreOfTheirParam
  BY DEF MessageInv, ResultInv, ResultsAreOfTheirParam
<1>2. QED BY <1>1, MessageInvAlways, PTL

\* A cancel removes only jobs of the task of the owner that cancels.
THEOREM CancelsHitTheirTask == Spec => CancelHitsItsTask
<1> DEFINE A == \A n \in Node : HandleTaskCancel(n) =>
               \A w \in Worker : \A job \in ToSet(m_jobList[w]) \ ToSet(m_jobList'[w]) :
                   node[job.node].from = node[n].from /\ node[job.node].task = node[n].task
<1>1. ASSUME MessageInv PROVE A
  <2>1. TypeInv /\ NodeInv /\ DocumentInv /\ JobInv BY <1>1 DEF MessageInv
  <2>2. ASSUME NEW n \in Node, HandleTaskCancel(n), NEW w \in Worker,
               NEW job \in ToSet(m_jobList[w]) \ ToSet(m_jobList'[w])
        PROVE  node[job.node].from = node[n].from /\ node[job.node].task = node[n].task
    <3> DEFINE at == node[n].to
               found == {j \in DOMAIN m_jobList[at] : OfTask(m_jobList[at][j], Arg(n, 1), Arg(n, 2))}
    <3>1. /\ Handles(n, "HandleTaskCancel")
          /\ m_jobList' = IF found = {} THEN m_jobList
                          ELSE [m_jobList EXCEPT ![at] = RemoveAt(@, Min(found))]
      BY <2>2 DEF HandleTaskCancel
    <3>2. Arg(n, 1) = node[n].from /\ Arg(n, 2) = node[n].task /\ node[n].task # 0
      BY <2>1, <3>1, RequestsHandled
    <3>3. at \in Worker BY <2>1, <3>2 DEF NodeInv
    <3>4. DOMAIN m_jobList = Worker /\ m_jobList[at] \in Seq(JobsOf(at))
      BY <2>1, <3>3 DEF TypeInv, JobInv
    <3>5. DOMAIN m_jobList[at] = 1 .. Len(m_jobList[at]) BY <3>4, LenProperties
    <3>6. found \subseteq 1 .. Len(m_jobList[at]) BY <3>5
    <3>7. \A j \in found : /\ m_jobList[at][j].owner = Arg(n, 1)
                           /\ m_jobList[at][j].taskId = Arg(n, 2)
      BY DEF OfTask
    <3>8. job \in ToSet(m_jobList[w]) /\ job \notin ToSet(m_jobList'[w]) BY <2>2
    <3> HIDE DEF found, at
    <3>9. found # {} BY <3>1, <3>8
    <3>10. w = at BY <3>1, <3>4, <3>8, <3>9
    <3> DEFINE i == Min(found)
               s == m_jobList[at]
    <3>11. i \in found BY <3>6, <3>9, MinOfNat
    <3>12. m_jobList'[at] = RemoveAt(s, i) BY <3>1, <3>3, <3>4, <3>9
    <3>13. ToSet(s) \subseteq ToSet(RemoveAt(s, i)) \union {s[i]}
      BY <3>4, <3>6, <3>11, RemoveAtOnce
    <3>14. job = s[i] BY <3>8, <3>10, <3>12, <3>13
    <3>15. s[i] \in JobsOf(at) BY <3>4, <3>6, <3>11, ElementOfSeq
    <3>16. s[i].owner = node[s[i].node].from /\ s[i].taskId = node[s[i].node].task
      BY <3>15 DEF JobsOf
    <3>17. s[i].owner = Arg(n, 1) /\ s[i].taskId = Arg(n, 2) BY <3>7, <3>11
    <3> HIDE DEF i, s
    <3>18. QED BY <3>2, <3>14, <3>16, <3>17
  <2>3. QED BY <2>2
<1>2. MessageInv => A BY <1>1
<1>3. MessageInv => [A]_vars BY <1>2
<1>4. QED BY <1>3, MessageInvAlways, PTL DEF CancelHitsItsTask
=============================================================================
