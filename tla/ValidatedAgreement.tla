-------------------------- MODULE ValidatedAgreement --------------------------
(***************************************************************************)
(* validatedagreement: Dumbo's multi-valued agreement.  Every node         *)
(* broadcasts its value with a CBC, then, with a second CBC, the list of   *)
(* the CBCs it delivered so far (its commit).  Leaders are then tried in a *)
(* fixed order: nodes vote on whether they delivered the leader's CBC, and *)
(* a biased agreement on what they saw in N - f ballots decides whether    *)
(* the leader's value is the output.  This is one iteration of that loop;  *)
(* of the lists, the entry of its leader is kept.  The agreement is what   *)
(* BinaryAgreement promises.                                               *)
(***************************************************************************)
EXTENDS Quorums

CONSTANTS
    VaMaxCrash,  \* bound: how many processes crash
    None

VARIABLES
    vaLeader,     \* pi[r]
    vaPhase,      \* where each node is
    vaFinal,      \* whether the leader has broadcast its CBC_FINAL
    vaDelivered,  \* nodes with is_cbc_delivered[a] = 1
    vaCommit,     \* the leader's entry in the list each node commits
    vaCommitted,  \* nodes that broadcast the CBC_FINAL of their commit
    vaSeen,       \* the nodes in commit_values when each node voted
    vaVote,       \* the bit of each node's ballot
    vaDropped,    \* the ballots each node has thrown away
    vaInput,      \* what each node gave to the biased agreement
    vaAba,        \* what the agreement decides
    vaHolds,      \* nodes whose cbc_outputs[a] is filled
    vaCrashed     \* processes that died

vaBallotVars == <<vaVote, vaDropped, vaInput, vaAba, vaHolds>>
vaVars == <<vaLeader, vaPhase, vaFinal, vaDelivered, vaCommit, vaCommitted,
            vaSeen, vaBallotVars, vaCrashed>>

Bits == {0, 1}

VaInit ==
    /\ vaLeader \in Nodes
    /\ vaPhase = [p \in Nodes |-> "cbc"]
    /\ vaFinal = FALSE
    /\ vaDelivered = {}
    /\ vaCommit = [p \in Nodes |-> None]
    /\ vaCommitted = {}
    /\ vaSeen = [p \in Nodes |-> {}]
    /\ vaVote = [p \in Nodes |-> None]
    /\ vaDropped = [p \in Nodes |-> {}]
    /\ vaInput = [p \in Nodes |-> None]
    /\ vaAba = None
    /\ vaHolds = {}
    /\ vaCrashed = {}
-----------------------------------------------------------------------------
At(p, phase) == p \notin vaCrashed /\ vaPhase[p] = phase
GoTo(p, phase) == vaPhase' = [vaPhase EXCEPT ![p] = phase]

\* The leader has N - f CBC_ECHOs for its value.
LeaderEchoed == vaLeader \notin vaCrashed /\ ~ vaFinal

LeaderFinal ==
    /\ LeaderEchoed
    /\ vaFinal' = TRUE
    /\ UNCHANGED <<vaLeader, vaPhase, vaDelivered, vaCommit, vaCommitted, vaSeen,
                   vaBallotVars, vaCrashed>>

\* CBC_FINAL of the leader: delivered unless a ballot brought the value before.
CbcArrives(p) == p \notin vaCrashed /\ vaFinal /\ p \notin vaHolds

DeliverCbc(p) ==
    /\ CbcArrives(p)
    /\ vaHolds' = vaHolds \cup {p}
    /\ vaDelivered' = vaDelivered \cup {p}
    /\ UNCHANGED <<vaLeader, vaPhase, vaFinal, vaCommit, vaCommitted, vaSeen, vaVote,
                   vaDropped, vaInput, vaAba, vaCrashed>>

\* wait_cbc_signal: N - f CBCs are delivered, the leader's among them or not.
CbcsDelivered(p) ==
    /\ At(p, "cbc")
    /\ Cardinality(Nodes \ {vaLeader}) + (IF p \in vaDelivered THEN 1 ELSE 0) >= N - F

CommitList(p) ==
    /\ CbcsDelivered(p)
    /\ vaCommit' = [vaCommit EXCEPT ![p] = IF p \in vaDelivered THEN 1 ELSE 0]
    /\ GoTo(p, "commit")
    /\ UNCHANGED <<vaLeader, vaFinal, vaDelivered, vaCommitted, vaSeen, vaBallotVars,
                   vaCrashed>>

\* The node's commit has N - f CBC_ECHOs.
ListEchoed(p) == p \notin vaCrashed /\ vaCommit[p] # None /\ p \notin vaCommitted

CommitFinal(p) ==
    /\ ListEchoed(p)
    /\ vaCommitted' = vaCommitted \cup {p}
    /\ UNCHANGED <<vaLeader, vaPhase, vaFinal, vaDelivered, vaCommit, vaSeen,
                   vaBallotVars, vaCrashed>>

CommitsNeeded == N - F

\* wait_commit_signal: enough commits are delivered, and the node votes at once.
\* More may be delivered before it does, or later: at any time before they are
\* needed.
ListsDelivered(p, seen) == At(p, "commit") /\ Cardinality(seen) = CommitsNeeded

CastBallot(p, seen) ==
    /\ ListsDelivered(p, seen)
    /\ vaSeen' = [vaSeen EXCEPT ![p] = seen]
    /\ vaVote' = [vaVote EXCEPT ![p] = IF p \in vaDelivered THEN 1 ELSE 0]
    /\ GoTo(p, "ballot")
    /\ UNCHANGED <<vaLeader, vaFinal, vaDelivered, vaCommit, vaCommitted, vaDropped,
                   vaInput, vaAba, vaHolds, vaCrashed>>

\* A ballot with bit 0 is lost if its sender's commit is not there yet, or does
\* not say 0.
BallotTooEarly(p, q) ==
    /\ At(p, "ballot") /\ vaVote[q] = 0 /\ q \notin vaDropped[p]
    /\ q \in vaSeen[p] => vaCommit[q] # 0

DropBallot(p, q) ==
    /\ BallotTooEarly(p, q)
    /\ vaDropped' = [vaDropped EXCEPT ![p] = @ \cup {q}]
    /\ UNCHANGED <<vaLeader, vaPhase, vaFinal, vaDelivered, vaCommit, vaCommitted,
                   vaSeen, vaVote, vaInput, vaAba, vaHolds, vaCrashed>>

Countable(p) ==
    {q \in Nodes :
        vaVote[q] = 1 \/ (vaVote[q] = 0 /\ q \in vaCommitted /\ vaCommit[q] = 0)}

\* Mutation of BallotsSay: 1 only if all the ballots say so.
BallotsSayAll(Q) == IF \A q \in Q : vaVote[q] = 1 THEN 1 ELSE 0

BallotsSay(Q) == IF \E q \in Q : vaVote[q] = 1 THEN 1 ELSE 0

\* Mutation of BallotsNeeded: the ballots of all nodes are waited for.
BallotsNeededAll == N

BallotsNeeded == N - F

\* N - f ballots are counted; one with bit 1 brings the leader's value.
BallotsIn(p, Q) ==
    /\ At(p, "ballot")
    /\ Q \subseteq Countable(p) \ vaDropped[p]
    /\ Cardinality(Q) = BallotsNeeded

CountBallots(p, Q) ==
    /\ BallotsIn(p, Q)
    /\ vaInput' = [vaInput EXCEPT ![p] = BallotsSay(Q)]
    /\ vaHolds' = IF \E q \in Q : vaVote[q] = 1 THEN vaHolds \cup {p} ELSE vaHolds
    /\ GoTo(p, "aba")
    /\ vaSeen' = [vaSeen EXCEPT ![p] = {}]
    /\ vaDropped' = [vaDropped EXCEPT ![p] = {}]
    /\ UNCHANGED <<vaLeader, vaFinal, vaDelivered, vaCommit, vaCommitted, vaVote,
                   vaAba, vaCrashed>>

\* The biased agreement decides a bit that N - f nodes' inputs contain.
AbaMayDecide(b) ==
    /\ vaAba = None
    /\ {q \in Nodes : vaInput[q] # None} \in Quorum
    /\ \E q \in Nodes : vaInput[q] = b

AbaDecides(b) ==
    /\ AbaMayDecide(b)
    /\ vaAba' = b
    /\ UNCHANGED <<vaLeader, vaPhase, vaFinal, vaDelivered, vaCommit, vaCommitted,
                   vaSeen, vaVote, vaDropped, vaInput, vaHolds, vaCrashed>>

\* 0: the next leader's turn; 1: cbc_outputs[a].get() returns the value.
OutputIn(p) == At(p, "aba") /\ (vaAba = 0 \/ (vaAba = 1 /\ p \in vaHolds))

EndIteration(p) ==
    /\ OutputIn(p)
    /\ GoTo(p, IF vaAba = 0 THEN "next" ELSE "decided")
    /\ UNCHANGED <<vaLeader, vaFinal, vaDelivered, vaCommit, vaCommitted, vaSeen,
                   vaBallotVars, vaCrashed>>

\* A process dies after its broadcasts are out; what it sent still arrives.
\* Nobody waits for it once its ballots are counted.
VaCrash(p) ==
    /\ Cardinality(vaCrashed) < VaMaxCrash
    /\ p \in vaCommitted \ vaCrashed
    /\ vaPhase[p] \in {"commit", "ballot"}
    /\ p = vaLeader => vaFinal
    /\ vaCrashed' = vaCrashed \cup {p}
    /\ UNCHANGED <<vaLeader, vaPhase, vaFinal, vaDelivered, vaCommit, vaCommitted,
                   vaSeen, vaBallotVars>>

VaProgress ==
    \/ LeaderFinal
    \/ \E p \in Nodes :
          \/ DeliverCbc(p)
          \/ CommitList(p)
          \/ CommitFinal(p)
          \/ \E q \in Nodes : DropBallot(p, q)
          \/ \E seen \in SUBSET vaCommitted : CastBallot(p, seen)
          \/ \E Q \in Quorum : CountBallots(p, Q)
          \/ EndIteration(p)
    \/ \E b \in Bits : AbaDecides(b)

VaNext == VaProgress \/ \E p \in Nodes : VaCrash(p)

VaSpec == VaInit /\ [][VaNext]_vaVars
-----------------------------------------------------------------------------
(***************************************************************************)
(* Properties.                                                             *)
(***************************************************************************)
\* What the commits are for: a leader that f + 1 commit lists name is the one
\* whose value is output, since every N - f ballots contain a 1 for it.
CommittedLeaderWins ==
    Cardinality({q \in Nodes : vaCommit[q] = 1}) >= F + 1
        => \A p \in Nodes : vaInput[p] # 0

\* No process can do anything any more, but crash.
VaSettled ==
    /\ ~ LeaderEchoed
    /\ \A p \in Nodes :
          /\ ~ CbcArrives(p) /\ ~ CbcsDelivered(p) /\ ~ ListEchoed(p) /\ ~ OutputIn(p)
          /\ \A q \in Nodes : ~ BallotTooEarly(p, q)
          /\ \A seen \in SUBSET vaCommitted : ~ ListsDelivered(p, seen)
          /\ \A Q \in Quorum : ~ BallotsIn(p, Q)
    /\ \A b \in Bits : ~ AbaMayDecide(b)

\* "will finally writes the decided value into decide channel": when no
\* process can do anything any more, every live node has ended the iteration,
\* although a node that only saw ballots with 0 has to wait for the leader's
\* value (line 392); unless a process died and a node has thrown a ballot away
\* (line 337), which then does not come to N - f ballots.
IterationEnds ==
    VaSettled =>
        \/ \A p \in Nodes : p \in vaCrashed \/ vaPhase[p] \in {"next", "decided"}
        \/ vaCrashed # {} /\ \E p \in Nodes : At(p, "ballot") /\ vaDropped[p] # {}
=============================================================================
