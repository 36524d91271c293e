----------------------------- MODULE MCSpeedMvba -----------------------------
(* Instances of SpeedMvba for TLC.                                         *)
EXTENDS SpeedMvba, TLC

Symmetry == Permutations(Nodes)
=============================================================================
