---------------------------- MODULE AbstractTask ----------------------------
(***************************************************************************)
(* What a distributed task promises, whoever refuses or dies: every        *)
(* parameter is open, or given to a peer that was told to execute it, or   *)
(* has its result; only a parameter that is given gets a result, one       *)
(* only, and every result that is counted is one.  A task that is given up *)
(* may still tell one peer to execute, whose answer its thread was waiting *)
(* for; it takes no result any more.                                       *)
(***************************************************************************)
EXTENDS Naturals

CONSTANT Param

VARIABLES params,  \* the parameters of the task
          given,   \* those a peer was told to execute
          done,    \* those with a result
          count,   \* how many results were counted
          life     \* "on", "last" (given up, one message to come) or "over"

Init == /\ params \subseteq Param
        /\ given = {} /\ done = {} /\ count = 0
        /\ life = "on"

Give(p) == /\ p \in params \ (given \union done)
           /\ life \in {"on", "last"}
           /\ life' = IF life = "on" THEN "on" ELSE "over"
           /\ given' = given \union {p}
           /\ UNCHANGED <<params, done, count>>

\* The peer refused or died.
TakeBack(p) == /\ life = "on"
               /\ p \in given
               /\ given' = given \ {p}
               /\ UNCHANGED <<params, done, count, life>>

Finish(p) == /\ life = "on"
             /\ p \in given
             /\ given' = given \ {p}
             /\ done' = done \union {p}
             /\ count' = count + 1
             /\ UNCHANGED <<params, life>>

GiveUp == /\ life = "on"
          /\ life' \in {"last", "over"}
          /\ given' = {}
          /\ UNCHANGED <<params, done, count>>

End == /\ life = "last"
       /\ life' = "over"
       /\ UNCHANGED <<params, given, done, count>>

Next == GiveUp \/ End \/ \E p \in Param : Give(p) \/ TakeBack(p) \/ Finish(p)

Spec == Init /\ [][Next]_<<params, given, done, count, life>>
=============================================================================
