------------------------- MODULE MessageQueueProofs -------------------------
(***************************************************************************)
(* Theorems about MessageQueue, for every set of messages and every bound. *)
(*                                                                         *)
(* The queue's invariant put = got \o m_messageList is inductive together  *)
(* with the type invariant, and it is what the refinement needs: the       *)
(* message GetMessage takes is then the next one the channel owes.         *)
(***************************************************************************)
EXTENDS MessageQueue, SequenceTheorems, TLAPS

QueueInv == TypeOK /\ NothingLostOrReordered

\* A queue's front is the first posted message that was not yet handed out.
LEMMA FrontIsNext ==
    ASSUME NEW S, NEW g \in Seq(S), NEW l \in Seq(S), l # <<>>
    PROVE  /\ Head(l) = (g \o l)[Len(g) + 1]
           /\ Len(g) < Len(g \o l)
           /\ Append(g, Head(l)) \o Tail(l) = g \o l
<1>1. Len(l) \in Nat /\ Len(l) > 0 /\ Len(g) \in Nat
  BY EmptySeq, LenProperties
<1>2. Head(l) = l[1] /\ Head(l) \in S /\ Tail(l) \in Seq(S)
  BY HeadTailProperties
<1>3. Len(g \o l) = Len(g) + Len(l) /\ (g \o l)[Len(g) + 1] = l[1]
  BY <1>1, ConcatProperties
<1>4. Append(g, Head(l)) \o Tail(l) = g \o l
  <2>1. Append(g, Head(l)) = g \o <<Head(l)>>
    BY <1>2, AppendIsConcat
  <2>2. l = <<Head(l)>> \o Tail(l)
    BY <1>1, <1>2
  <2> QED
    BY <1>2, <2>1, <2>2, ConcatAssociative
<1> QED
  BY <1>1, <1>2, <1>3, <1>4

\* Every step of the queue, its consumer and its producers keeps QueueInv.
LEMMA StepKeepsQueueInv == QueueInv /\ [Next]_vars => QueueInv'
<1> SUFFICES ASSUME QueueInv, [Next]_vars
             PROVE  QueueInv'
  OBVIOUS
<1> USE DEF QueueInv, TypeOK, Location, NothingLostOrReordered
<1>1. CASE CheckStop
  BY <1>1 DEF CheckStop
<1>2. CASE GetMessage
  BY <1>2, FrontIsNext, HeadTailProperties, AppendProperties DEF GetMessage
<1>3. CASE GetNothing \/ WaitForFull \/ ProcessMessage \/ Stop \/ SpuriousWake
  BY <1>3 DEF GetNothing, WaitForFull, ProcessMessage, Stop, SpuriousWake
<1>4. ASSUME NEW m \in Message, PutMessage(m)
      PROVE  QueueInv'
  <2>1. m_messageList' = Append(m_messageList, m) /\ put' = Append(put, m) /\ got' = got
    BY <1>4 DEF PutMessage
  <2>2. Append(got \o m_messageList, m) = got \o Append(m_messageList, m)
    <3>1. got \o m_messageList \in Seq(Message) /\ <<m>> \in Seq(Message)
      BY ConcatProperties
    <3>2. /\ Append(got \o m_messageList, m) = (got \o m_messageList) \o <<m>>
          /\ Append(m_messageList, m) = m_messageList \o <<m>>
      BY <3>1, AppendIsConcat
    <3>3. (got \o m_messageList) \o <<m>> = got \o (m_messageList \o <<m>>)
      BY <3>1, ConcatAssociative
    <3> QED
      BY <3>2, <3>3
  <2> QED
    BY <1>4, <2>1, <2>2, AppendProperties DEF PutMessage
<1>5. CASE UNCHANGED vars
  BY <1>5 DEF vars
<1> QED
  BY <1>1, <1>2, <1>3, <1>4, <1>5 DEF Next, Consumer

\* The type invariant, and MessageQueue.cpp's promise: put = got \o queue.
THEOREM QueueIsFifo == Spec => [](TypeOK /\ NothingLostOrReordered)
<1>1. Init => QueueInv
  BY EmptySeq, ConcatEmptySeq DEF Init, QueueInv, TypeOK, Location, NothingLostOrReordered
<1>2. QueueInv => TypeOK /\ NothingLostOrReordered
  BY DEF QueueInv
<1> QED
  BY <1>1, <1>2, StepKeepsQueueInv, PTL DEF Spec

\* The variables of the queue and of its threads keep their types: the consumer
\* never handles a message nobody put.
THEOREM QueueTypeCorrect == Spec => []TypeOK
BY QueueIsFifo, PTL

\* The queue with its consumer implements the abstract FIFO channel: posting is
\* Send, GetMessage is Receive, and every other step is invisible.
THEOREM QueueImplementsFifo == Spec => ImplementsFifo
<1>1. Init => Fifo!Init
  BY DEF Init, Fifo!Init
<1>2. QueueInv /\ [Next]_vars => [Fifo!Next]_<<put, got>>
  <2> SUFFICES ASSUME QueueInv, [Next]_vars
               PROVE  [Fifo!Next]_<<put, got>>
    OBVIOUS
  <2>1. CASE GetMessage
    <3>1. /\ Len(got) < Len(put)
          /\ got' = Append(got, put[Len(got) + 1])
          /\ put' = put
      BY <2>1, FrontIsNext DEF GetMessage, QueueInv, TypeOK, NothingLostOrReordered
    <3> QED
      BY <3>1 DEF Fifo!Next, Fifo!Receive
  <2>2. ASSUME NEW m \in Message, PutMessage(m)
        PROVE  [Fifo!Next]_<<put, got>>
    BY <2>2 DEF PutMessage, Fifo!Next, Fifo!Send
  <2>3. CASE \/ CheckStop \/ GetNothing \/ WaitForFull \/ ProcessMessage
             \/ Stop \/ SpuriousWake \/ UNCHANGED vars
    BY <2>3 DEF CheckStop, GetNothing, WaitForFull, ProcessMessage, Stop,
                SpuriousWake, vars
  <2> QED
    BY <2>1, <2>2, <2>3 DEF Next, Consumer
<1>3. Init => QueueInv
  BY EmptySeq, ConcatEmptySeq DEF Init, QueueInv, TypeOK, Location, NothingLostOrReordered
<1> QED
  BY <1>1, <1>2, <1>3, StepKeepsQueueInv, PTL DEF Spec, ImplementsFifo, Fifo!Spec

\* A stopped task's thread takes at most one more message, whatever is queued and
\* posted: it may be about to call GetMessage, and then it reads the flag.
THEOREM StopEndsWork == Spec => StopLetsOneMore
<1> SUFFICES ASSUME NEW k \in 0 .. MaxPuts
             PROVE  Spec => [](m_bStop /\ Len(got) = k => [](Len(got) <= k + 1))
  BY DEF StopLetsOneMore
<1> DEFINE Counted == Len(got) \in Nat
           Stopped == /\ m_bStop
                      /\ Len(got) <= k + 1
                      /\ pc = "get" => Len(got) <= k
<1>1. m_bStop /\ Len(got) = k /\ Counted => Stopped
  BY MaxPutsAssumption
<1>2. Stopped /\ Counted /\ Counted' /\ TypeOK /\ [Next]_vars => Stopped'
  <2> SUFFICES ASSUME Stopped, Counted, TypeOK, [Next]_vars
               PROVE  Stopped'
    OBVIOUS
  <2>1. CASE GetMessage
    <3>1. Len(got') = Len(got) + 1
      BY <2>1, HeadTailProperties, AppendProperties DEF GetMessage, TypeOK
    <3> QED
      BY <2>1, <3>1 DEF GetMessage
  <2>2. CASE CheckStop \/ GetNothing \/ WaitForFull \/ ProcessMessage \/ SpuriousWake
    BY <2>2 DEF CheckStop, GetNothing, WaitForFull, ProcessMessage, SpuriousWake
  <2>3. CASE Stop \/ (\E m \in Message : PutMessage(m)) \/ UNCHANGED vars
    BY <2>3 DEF Stop, PutMessage, vars
  <2> QED
    BY <2>1, <2>2, <2>3 DEF Next, Consumer
<1>3. TypeOK => Counted
  BY LenProperties DEF TypeOK
<1>4. Stopped => Len(got) <= k + 1
  OBVIOUS
<1> QED
  BY <1>1, <1>2, <1>3, <1>4, QueueTypeCorrect, PTL DEF Spec
=============================================================================
