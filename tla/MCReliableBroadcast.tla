------------------------- MODULE MCReliableBroadcast -------------------------
(* Instances of ReliableBroadcast for TLC.                                 *)
EXTENDS ReliableBroadcast, TLC

\* The nodes other than the leader are interchangeable.
Symmetry == Permutations(Nodes \ {Leader})
=============================================================================
