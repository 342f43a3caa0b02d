---------------------------- MODULE Eligibility ----------------------------
(***************************************************************************)
(* Task::CalculatePeerEligibility, in tenths: the code's doubles are       *)
(* multiples of 0.1 for every history a WorkHistory can report.            *)
(***************************************************************************)
EXTENDS Integers

HighThreshold   == 20   \* Task::m_highThreshold, 2.0
MediumThreshold == 10   \* Task::m_mediumThreshold, 1.0

\* The work load a peer reports is always zero (IncrementWorkLoad is never
\* called) and it never reports a failure, so totalFail and iWload contribute
\* nothing and what is left is the number of jobs the peer has handled.
PeerEligibility(totalExec) ==
    IF totalExec = 0 THEN MediumThreshold + 1 ELSE 10 * totalExec
=============================================================================
