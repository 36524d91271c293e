----------------------------- MODULE TwoValueSpec -----------------------------
(***************************************************************************)
(* What twovalueagreement promises to the node that runs it: nodes propose *)
(* integers, and every decision is the same proposed value.  A node may    *)
(* decide before it proposes: the receive loop of the agreement runs while *)
(* input() still blocks.                                                   *)
(***************************************************************************)
EXTENDS Integers

CONSTANTS
    Nodes,   \* the parties
    Values,  \* the integers that may be proposed
    None     \* no value yet

VARIABLES
    proposal,  \* what input() returned at each node
    decision   \* what each node gave to decide()

specVars == <<proposal, decision>>

TypeOK ==
    /\ proposal \in [Nodes -> Values \cup {None}]
    /\ decision \in [Nodes -> Values \cup {None}]

Init ==
    /\ proposal = [p \in Nodes |-> None]
    /\ decision = [p \in Nodes |-> None]

Propose(p, v) ==
    /\ proposal[p] = None
    /\ proposal' = [proposal EXCEPT ![p] = v]
    /\ UNCHANGED decision

MayDecide(p, v) ==
    /\ decision[p] = None
    /\ \E q \in Nodes : proposal[q] = v
    /\ \A q \in Nodes : decision[q] \in {v, None}

Decide(p, v) ==
    /\ MayDecide(p, v)
    /\ decision' = [decision EXCEPT ![p] = v]
    /\ UNCHANGED proposal

Next == \E p \in Nodes, v \in Values : Propose(p, v) \/ Decide(p, v)

Spec == Init /\ [][Next]_specVars
=============================================================================
