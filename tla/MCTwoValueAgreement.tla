------------------------- MODULE MCTwoValueAgreement -------------------------
(* Instances of TwoValueAgreement for TLC.                                 *)
EXTENDS TwoValueAgreement, TLC

Symmetry == Permutations(Nodes)

\* Bound: processes die only in agreements whose inputs are equal.
CrashesWithEqualInputs ==
    crashed # {} => Cardinality({proposal[p] : p \in Nodes} \ {None}) <= 1

\* How far a node's main loop is.
PhaseOf(p) ==
    CASE pc[p] = "input" -> 0
      [] pc[p] = "bin" -> 1
      [] pc[p] = "aux" -> 2
      [] pc[p] = "conf" -> 3
      [] pc[p] = "coin" -> 4

\* Bound, for nodes 0 .. 6: nodes with lower numbers are ahead, phase by phase, all
\* bin values come first, at most 2f nodes decide, and processes die after a node
\* has stopped; what they sent is lost to all that have not decided.
InOrder ==
    /\ \A p, q \in Nodes : p < q =>
          /\ 5 * round[q] + PhaseOf(q) <= 5 * round[p] + PhaseOf(p)
          /\ intValues[q][0] \subseteq intValues[p][0]
          /\ q \in crashed => p \in crashed
    /\ \A p, q \in Nodes : PhaseOf(p) > 1 => intValues[q][0] # {}
    /\ Cardinality({p \in Nodes : decision[p] # None}) <= 2 * F
    /\ crashed # {} => stopped # {}
    /\ \A p \in crashed : cut[p] = {q \in Nodes : decision[q] = None}
=============================================================================
