----------------------------- MODULE MCMessages -----------------------------
(* Messages on a small instance for TLC. *)
EXTENDS Messages

\* A list without a timestamp, as a peer has before it was answered, and lists
\* before and after the tick count exceeds an int.
MCPeerLists == {[peers |-> <<1>>, ts |-> 0], [peers |-> <<2, 3>>, ts |-> 2],
                [peers |-> <<1, 2, 3>>, ts |-> 4]}

MCParams == <<"a", "b">>
MCResults == {<<>>, <<"x", " ", "">>}
=============================================================================
