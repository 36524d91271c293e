-------------------------------- MODULE NwAbc --------------------------------
(***************************************************************************)
(* nwatomicbroadcast: the broadcasts of Dumbo-NG.  The leader proposes a   *)
(* transaction per round, every node votes for it, and N - f votes go out  *)
(* with the proposal of the next round, on which a node outputs the round  *)
(* before.  When the leader's buffer is empty it proposes 0, on which all  *)
(* stop.  The receiving greenlet and the deciding one share queues, of     *)
(* which Sigmas[r] and sts[r] hold one item.  Links keep the order of the  *)
(* PROPOSALs, or, with socket_client_ng, send the latest first.            *)
(***************************************************************************)
EXTENDS Quorums

CONSTANTS
    NwPriority, \* whether PROPOSALs may overtake each other
    NwMaxTx,    \* bound: the transactions in the leader's buffer
    NwMaxCrash  \* bound: how many processes crash

VARIABLES
    nwLeader,    \* leader
    nwSupply,    \* the transactions input() returns before it raises
    nwProposed,  \* the last round proposed; round nwSupply + 1 proposes 0
    nwGot,       \* the rounds of which each node has handled a PROPOSAL
    nwAgain,     \* nodes that got the PROPOSAL of 0 a second time
    nwSlot,      \* s
    nwVoters,    \* voters[r] at the leader
    nwStopped,   \* nodes with stop = 1
    nwDeaf,      \* nodes whose handel_messages died on a full queue
    nwCrashed    \* processes that died

nwVars == <<nwLeader, nwSupply, nwProposed, nwGot, nwAgain, nwSlot, nwVoters, nwStopped,
            nwDeaf, nwCrashed>>

NwRounds == 1 .. NwMaxTx + 1

NwInit ==
    /\ nwLeader \in Nodes
    /\ nwSupply \in 1 .. NwMaxTx
    /\ nwProposed = 1
    /\ nwGot = [p \in Nodes |-> {}]
    /\ nwAgain = {}
    /\ nwSlot = [p \in Nodes |-> 1]
    /\ nwVoters = [r \in NwRounds |-> {}]
    /\ nwStopped = {}
    /\ nwDeaf = {}
    /\ nwCrashed = {}
-----------------------------------------------------------------------------
NwLive(p) == p \notin nwCrashed
Hears(p) == NwLive(p) /\ p \notin nwDeaf \cup nwStopped

Empty(r) == r = nwSupply + 1  \* the round whose transaction is 0

ProposalArrives(p, r) ==
    /\ Hears(p) /\ NwLive(nwLeader)
    /\ r \in 1 .. nwProposed /\ r \notin nwGot[p]
    /\ NwPriority \/ 1 .. r - 1 \subseteq nwGot[p]

\* PROPOSAL: the transaction, and the signatures for the round before.
GetProposal(p, r) ==
    /\ ProposalArrives(p, r)
    /\ nwGot' = [nwGot EXCEPT ![p] = @ \cup {r}]
    /\ UNCHANGED <<nwLeader, nwSupply, nwProposed, nwAgain, nwSlot, nwVoters, nwStopped,
                   nwDeaf, nwCrashed>>

EmptyArrivesAgain(p) ==
    /\ Hears(p) /\ NwLive(nwLeader)
    /\ nwSupply + 1 \in nwGot[p] /\ p \notin nwAgain

\* The leader broadcasts a PROPOSAL of 0 twice.  If the signatures of the first
\* are still in Sigmas, the queue is full, and the greenlet ends.
GetEmptyAgain(p) ==
    /\ EmptyArrivesAgain(p)
    /\ nwAgain' = nwAgain \cup {p}
    /\ nwDeaf' = nwDeaf \cup {p}
    /\ UNCHANGED <<nwLeader, nwSupply, nwProposed, nwGot, nwSlot, nwVoters, nwStopped,
                   nwCrashed>>

RoundArrived(p) == NwLive(p) /\ p \notin nwStopped /\ nwSlot[p] \in nwGot[p]

\* decide_output: with the proposal of round s in, round s - 1 is output, and s
\* is voted for, or, when its transaction is 0, everything stops.
Decide(p) ==
    LET s == nwSlot[p] IN
    /\ RoundArrived(p)
    /\ IF Empty(s)
       THEN nwStopped' = nwStopped \cup {p} /\ UNCHANGED nwSlot
       ELSE nwSlot' = [nwSlot EXCEPT ![p] = s + 1] /\ UNCHANGED nwStopped
    /\ UNCHANGED <<nwLeader, nwSupply, nwProposed, nwGot, nwAgain, nwVoters, nwDeaf,
                   nwCrashed>>

\* Mutation of VotesNeeded: the votes of all nodes are awaited.
VotesNeededAll == N

\* Mutation of VotesNeeded: f + 1 votes are enough.
VotesNeededFew == F + 1

VotesNeeded == N - F

VoteArrives(q, r) ==
    /\ Hears(nwLeader) /\ NwLive(q)
    /\ r < nwSlot[q] /\ q \notin nwVoters[r]
    /\ Cardinality(nwVoters[r]) < VotesNeeded

\* VOTE of q for round r at the leader; with the N - f th, the next PROPOSAL.
CountVote(q, r) ==
    LET voters == nwVoters[r] \cup {q} IN
    /\ VoteArrives(q, r)
    /\ nwVoters' = [nwVoters EXCEPT ![r] = voters]
    /\ nwProposed' = IF Cardinality(voters) = VotesNeeded THEN r + 1 ELSE nwProposed
    /\ UNCHANGED <<nwLeader, nwSupply, nwGot, nwAgain, nwSlot, nwStopped, nwDeaf,
                   nwCrashed>>

\* A process dies, and what it sent is lost where it has not been handled.
NwCrash(p) ==
    /\ NwLive(p)
    /\ Cardinality(nwCrashed) < NwMaxCrash
    /\ nwCrashed' = nwCrashed \cup {p}
    /\ UNCHANGED <<nwLeader, nwSupply, nwProposed, nwGot, nwAgain, nwSlot, nwVoters,
                   nwStopped, nwDeaf>>

NwProgress ==
    \E p \in Nodes :
        \/ \E r \in NwRounds : GetProposal(p, r) \/ CountVote(p, r)
        \/ GetEmptyAgain(p)
        \/ Decide(p)

NwNext == NwProgress \/ \E p \in Nodes : NwCrash(p)

NwSpec == NwInit /\ [][NwNext]_nwVars
-----------------------------------------------------------------------------
(***************************************************************************)
(* Properties.                                                             *)
(***************************************************************************)
\* A round a node has output was voted for by N - f nodes, at most one ahead
\* of any of these, so that it survives the crash of its leader, in whatever
\* order the PROPOSALs come.
NwOutputHeld ==
    \A p \in Nodes : {q \in Nodes : nwSlot[q] >= nwSlot[p] - 1} \in Quorum

\* Nothing is left to be handled.
NwSettled ==
    \A p \in Nodes :
        /\ ~ RoundArrived(p) /\ ~ EmptyArrivesAgain(p)
        /\ \A r \in NwRounds : ~ ProposalArrives(p, r) /\ ~ VoteArrives(p, r)

\* While the leader lives, in the end every live node has output all the
\* rounds there are, in spite of the PROPOSAL of 0 that comes twice and ends a
\* greenlet; and what is output on the way is held.
NwDelivers ==
    /\ NwOutputHeld
    /\ NwSettled /\ NwLive(nwLeader) =>
          \A p \in Nodes : NwLive(p) => p \in nwStopped /\ nwSlot[p] = nwSupply + 1
=============================================================================
