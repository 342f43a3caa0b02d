---------------------------- MODULE MCMembership ----------------------------
(* Membership on small instances for TLC. *)
EXTENDS Membership, TLC

CONSTANTS p1, p2, p3, c1, c2

OneCoordinator == <<c1>>
WithBackup == <<c1, c2>>

PeerSymmetry == Permutations(Peer)
=============================================================================
