---------------------------- MODULE FifoChannel ----------------------------
(***************************************************************************)
(* What a thread that posts to another thread's MessageQueue counts on:    *)
(* every message is delivered at most once, and in the order in which the  *)
(* messages were posted.  Nothing is said about when: MessageQueue states  *)
(* that separately, because the code's waiting does not deliver promptly.  *)
(***************************************************************************)
EXTENDS Naturals, Sequences

CONSTANT Message

VARIABLES sent,     \* every message posted so far, in order
          received  \* every message handed to the consumer so far, in order

Init == /\ sent = <<>>
        /\ received = <<>>

Send(m) == /\ sent' = Append(sent, m)
           /\ UNCHANGED received

Receive == /\ Len(received) < Len(sent)
           /\ received' = Append(received, sent[Len(received) + 1])
           /\ UNCHANGED sent

Next == Receive \/ \E m \in Message : Send(m)

Spec == Init /\ [][Next]_<<sent, received>>
=============================================================================
