--------------------------- MODULE MCBdtViewChange ---------------------------
(* Instances of BdtViewChange for TLC.                                     *)
EXTENDS BdtViewChange, TLC

\* The replicas other than the leader are interchangeable.
Symmetry == Permutations(Nodes \ {Leader})
=============================================================================
