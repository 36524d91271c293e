------------------------------- MODULE Quorums -------------------------------
(***************************************************************************)
(* The fault model every protocol of the code base is parameterised by:    *)
(* N nodes, of which at most f may fail, with N >= 3f + 1 (the "N" and     *)
(* "f" parameters of hsfastpath, twovalueagreement, Bdt, ...).             *)
(***************************************************************************)
EXTENDS Integers, FiniteSets

CONSTANTS
    Nodes,  \* the parties, range(N) in the code
    F       \* f, the number of faulty parties tolerated

N == Cardinality(Nodes)

ASSUME FaultAssumption ==
    /\ IsFiniteSet(Nodes)
    /\ F \in Nat
    /\ N >= 3 * F + 1

\* The sets of at least N - f parties that the protocols wait for.
Quorum == {Q \in SUBSET Nodes : Cardinality(Q) >= N - F}
=============================================================================
