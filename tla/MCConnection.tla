---------------------------- MODULE MCConnection ----------------------------
EXTENDS Connection

CONSTANTS u1, u2

\* TASK_EXECUTE_RESP and TASK_RESULT, which a worker may send in one breath.
MCSent == <<"Response", "Request">>
=============================================================================
