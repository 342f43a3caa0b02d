--------------------------- MODULE MCTaskProtocol ---------------------------
(* TaskProtocol on small instances for TLC. *)
EXTENDS TaskProtocol

CONSTANTS A, B, C  \* model values: workers

\* The order of the peer list decides when AskPeers wraps around.
MeFirst == {<<Me, A, B>>}
MeLast  == {<<A, B, Me>>}
OnlyA   == {<<A, Me>>}
Three   == {<<Me, A, B, C>>}

\* A peer comes online, or quits.  The owner is first, last or alone.
MaybeB  == {<<Me, A>>, <<Me, A, B>>}
MaybeC  == {<<A, B, Me>>, <<A, B, Me, C>>}
MaybeA  == {<<A, Me>>, <<Me>>}

AllNew  == {[w \in Worker |-> 0]}
AllBusy == {[w \in Worker |-> 2]}
NewOrBusy == [Worker -> {0, 2}]
AnyPast == [Worker -> {0, 1, 2}]
=============================================================================
