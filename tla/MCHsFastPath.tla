---------------------------- MODULE MCHsFastPath ----------------------------
(* Instances of HsFastPath for TLC.                                        *)
EXTENDS HsFastPath, TLC

\* The replicas other than the leader are interchangeable.
Symmetry == Permutations(Nodes \ {Leader})

\* Bound: replicas do not crash.  To the others, one that crashes is one whose
\* timer fires: it sends no more votes.
OnlyLeaderCrashes == \A p \in Nodes \ {Leader} : phase'[p] # "crashed"

\* Votes that can no longer count are dropped at once.  That they are dropped
\* changes nothing else, and neither helps nor hinders any other step.
UselessVotes ==
    {m \in voteMsgs :
        \/ m.slot < slotCur[Leader]
        \/ Cardinality(voters[m.slot]) = VotesNeeded}
UselessVotesFirst ==
    \/ UselessVotes = {}
    \/ phase[Leader] # "wait"
    \/ \E m \in UselessVotes : voteMsgs' = voteMsgs \ {m}

\* When the leader has come to its end the replicas have no effect on each other:
\* they go on one after the other.
Active == {p \in Nodes : phase[p] \in {"enter", "wait"}}
OneByOne ==
    \/ Leader \in Active
    \/ Active = {}
    \/ LET q == CHOOSE p \in Active : TRUE
       IN  \A p \in Nodes \ {q} :
              /\ phase'[p] = phase[p] /\ slotCur'[p] = slotCur[p]
              /\ handled'[p] = handled[p] /\ decides'[p] = decides[p]
=============================================================================
