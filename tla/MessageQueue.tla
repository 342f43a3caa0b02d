---------------------------- MODULE MessageQueue ----------------------------
(***************************************************************************)
(* MapReduce/src/MessageQueue.cpp, and the loop of the one thread that     *)
(* consumes each queue: Peer::run, Task::run (and Coordinator::run of the  *)
(* coordinator's own copy of the class).                                   *)
(*                                                                         *)
(* GetMessage and WaitForFull take the queue's lock separately, and        *)
(* WaitForFull waits without testing anything, so a PutMessage may fall    *)
(* between the two: its notification reaches nobody.  The steps below are  *)
(* the critical sections of the code, interleaved as the lock permits.     *)
(*                                                                         *)
(* m_bStop is Task's flag.  Peer::run loops for ever: its behaviours are   *)
(* those in which Stop never happens.                                      *)
(***************************************************************************)
EXTENDS Naturals, Sequences

CONSTANTS Message,   \* the messages producers post
          MaxPuts    \* bound: how many messages are posted in a behaviour

ASSUME MaxPutsAssumption == MaxPuts \in Nat

VARIABLES m_messageList,  \* the queue
          pc,             \* where the consumer thread is in its loop
          m_bStop,        \* Task::m_bStop
          put,            \* history: every message posted, in order
          got             \* history: every message GetMessage returned, in order

vars == <<m_messageList, pc, m_bStop, put, got>>

\* "check": at the loop condition; "get": about to call GetMessage; "wait":
\* GetMessage returned NULL, WaitForFull not yet called; "blocked": inside
\* m_cond.wait; "process": in ProcessMessages; "done": run() has returned.
Location == {"check", "get", "wait", "blocked", "process", "done"}

Init ==
    /\ m_messageList = <<>>
    /\ pc = "check"
    /\ m_bStop = FALSE
    /\ put = <<>>
    /\ got = <<>>

\* Fault: the loop forgets its flag.
CheckStop_Ignored ==
    /\ pc = "check"
    /\ pc' = "get"
    /\ UNCHANGED <<m_messageList, m_bStop, put, got>>

\* while (!m_bStop)
CheckStop ==
    /\ pc = "check"
    /\ pc' = IF m_bStop THEN "done" ELSE "get"
    /\ UNCHANGED <<m_messageList, m_bStop, put, got>>

\* Fault: front() is returned and the last element erased.
GetMessage_PopsBack ==
    /\ pc = "get"
    /\ m_messageList # <<>>
    /\ got' = Append(got, Head(m_messageList))
    /\ m_messageList' = SubSeq(m_messageList, 1, Len(m_messageList) - 1)
    /\ pc' = "process"
    /\ UNCHANGED <<m_bStop, put>>

GetMessage ==
    /\ pc = "get"
    /\ m_messageList # <<>>
    /\ got' = Append(got, Head(m_messageList))
    /\ m_messageList' = Tail(m_messageList)
    /\ pc' = "process"
    /\ UNCHANGED <<m_bStop, put>>

\* Fault: the loop does not test for NULL and processes it.
GetNothing_Unchecked ==
    /\ pc = "get"
    /\ m_messageList = <<>>
    /\ got' = Append(got, "NULL")
    /\ pc' = "process"
    /\ UNCHANGED <<m_messageList, m_bStop, put>>

GetNothing ==
    /\ pc = "get"
    /\ m_messageList = <<>>
    /\ pc' = "wait"
    /\ UNCHANGED <<m_messageList, m_bStop, put, got>>

WaitForFull ==
    /\ pc = "wait"
    /\ pc' = "blocked"
    /\ UNCHANGED <<m_messageList, m_bStop, put, got>>

ProcessMessage ==
    /\ pc = "process"
    /\ pc' = "check"
    /\ UNCHANGED <<m_messageList, m_bStop, put, got>>

\* Fault: the message is put at the front.
PutMessage_AtFront(m) ==
    /\ Len(put) < MaxPuts
    /\ m_messageList' = <<m>> \o m_messageList
    /\ put' = Append(put, m)
    /\ pc' = IF pc = "blocked" THEN "check" ELSE pc
    /\ UNCHANGED <<m_bStop, got>>

\* Fault: nobody is notified.
PutMessage_Silent(m) ==
    /\ Len(put) < MaxPuts
    /\ m_messageList' = Append(m_messageList, m)
    /\ put' = Append(put, m)
    /\ UNCHANGED <<pc, m_bStop, got>>

\* push_back and notify_all in one critical section.  The woken thread has
\* only to leave the wait before it goes back to its loop condition.
PutMessage(m) ==
    /\ Len(put) < MaxPuts
    /\ m_messageList' = Append(m_messageList, m)
    /\ put' = Append(put, m)
    /\ pc' = IF pc = "blocked" THEN "check" ELSE pc
    /\ UNCHANGED <<m_bStop, got>>

\* Task::Stop, from TaskCancel in the task thread or in the main thread: the
\* flag is set and nobody is notified.
Stop ==
    /\ m_bStop' = TRUE
    /\ UNCHANGED <<m_messageList, pc, put, got>>

\* boost::condition may wake a waiter for no reason; nothing says it ever does.
SpuriousWake ==
    /\ pc = "blocked"
    /\ pc' = "check"
    /\ UNCHANGED <<m_messageList, m_bStop, put, got>>

Consumer == CheckStop \/ GetMessage \/ GetNothing \/ WaitForFull \/ ProcessMessage

Next ==
    \/ Consumer
    \/ \E m \in Message : PutMessage(m)
    \/ Stop
    \/ SpuriousWake

\* The consumer is a thread of its own that the operating system schedules.
Spec == Init /\ [][Next]_vars /\ WF_vars(Consumer)

-----------------------------------------------------------------------------

\* The variables range over what the code can put in them.
TypeOK ==
    /\ m_messageList \in Seq(Message)
    /\ pc \in Location
    /\ m_bStop \in BOOLEAN
    /\ put \in Seq(Message)
    /\ got \in Seq(Message)

\* GetMessage and PutMessage, interleaved in any way, neither lose nor repeat
\* nor reorder a message: what was handed out followed by what is still queued
\* is what was posted.
NothingLostOrReordered == put = got \o m_messageList

Fifo == INSTANCE FifoChannel WITH sent <- put, received <- got

\* The queue with its consumer implements the FIFO channel.
ImplementsFifo == Fifo!Spec

\* From the moment the task is stopped its thread takes at most one more message,
\* however many are queued, posted later or wake it: it reads the flag once per
\* message, so the flag may be set between that reading and GetMessage.
StopLetsOneMore ==
    \A k \in 0 .. MaxPuts : [](m_bStop /\ Len(got) = k => [](Len(got) <= k + 1))

\* The wait ended without a PutMessage, by a spurious wake-up, when k messages
\* had been posted.
WokenByNothing(k) == pc # "blocked" /\ Len(put) = k

\* A thread that blocked while messages were queued (the notification fell
\* between GetMessage and WaitForFull) is rescued by the next PutMessage, and
\* then drains everything, the stranded messages and the new one.
NextPutRescues ==
    \A k \in 0 .. MaxPuts :
        [](pc = "blocked" /\ Len(put) = k =>
               \/ <>WokenByNothing(k)
               \/ [](Len(put) > k => <>(Len(got) > k \/ m_bStop)))

\* A task's thread that is inside the wait when the task is stopped ends as
\* soon as one more message arrives for the task.
NextPutEndsStopped ==
    \A k \in 0 .. MaxPuts :
        [](m_bStop /\ pc = "blocked" /\ Len(put) = k =>
               \/ <>WokenByNothing(k)
               \/ [](Len(put) > k => <>(pc = "done")))

\* What the loop says of itself: "if empty wait for queue to get full".
WaitsOnlyWhenEmpty == pc = "blocked" => m_messageList = <<>>

=============================================================================
