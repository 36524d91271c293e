------------------------------ MODULE SpeedMvba ------------------------------
(***************************************************************************)
(* speedmvba (smvba_e_cp) with its strong provable broadcasts (spbc_ec_cp).*)
(* In each round every node broadcasts its message with an SPBC; a node    *)
(* that delivered N - f of them kills its SPBCs and elects a leader, a     *)
(* hash of the round.  A node that delivered the leader's message halts    *)
(* with it; the others prevote and vote on whether they hold its first     *)
(* certificate (s1).  Of the SPBCs of a round only the elected node's is   *)
(* followed step by step; of the others it matters that they were started. *)
(***************************************************************************)
EXTENDS Quorums

CONSTANTS
    MvRounds,     \* bound: 0 .. the last round entered
    MvElections,  \* bound: the rounds that are followed up to their votes
    None

VARIABLES
    mvLeader,    \* the node elected in each round
    mvRound,     \* r
    mvPhase,     \* where the main loop of each node is
    mvMsg,       \* what each node broadcast with its SPBC of a round
    mvSpbc,      \* how far the elected node's SPBC is: what it broadcast
    mvSigned,    \* nodes that handled the elected node's READY, per round
    mvS1,        \* nodes with is_s1_delivered[r][Leader]
    mvDelivered, \* nodes with is_spbc_delivered[r][Leader]
    mvPrevote,   \* each node's prevote of a round
    mvVote,      \* each node's vote of a round
    mvDecision   \* what decide() was called with, in which round and why

mvSpbcVars == <<mvMsg, mvSpbc, mvSigned, mvS1, mvDelivered>>
mvVoteVars == <<mvPrevote, mvVote>>
mvVars == <<mvLeader, mvRound, mvPhase, mvSpbcVars, mvVoteVars, mvDecision>>

\* The input of a node is the node itself: inputs differ.
MvInit ==
    /\ mvLeader \in [MvRounds -> Nodes]
    /\ mvRound = [p \in Nodes |-> 0]
    /\ mvPhase = [p \in Nodes |-> "input"]
    /\ mvMsg = [r \in MvRounds |-> [p \in Nodes |-> None]]
    /\ mvSpbc = [r \in MvRounds |-> "SEND"]
    /\ mvSigned = [r \in MvRounds |-> {}]
    /\ mvS1 = [r \in MvRounds |-> {}]
    /\ mvDelivered = [r \in MvRounds |-> {}]
    /\ mvPrevote = [r \in MvRounds |-> [p \in Nodes |-> None]]
    /\ mvVote = [r \in MvRounds |-> [p \in Nodes |-> None]]
    /\ mvDecision = [p \in Nodes |-> None]
-----------------------------------------------------------------------------
\* The SPBCs of the round run from before the input until the election.
SpbcRuns(p, r) ==
    /\ r \in MvElections
    /\ mvRound[p] = r
    /\ mvPhase[p] \in {"input", "spbc"}

\* The greenlets that record s1 are spawned once input() has returned, and end
\* at once when nothing was output yet (the unbound out): only what was output
\* before is recorded, and nothing is after round 0, which has no such wait.
MvInput(p) ==
    /\ mvPhase[p] = "input"
    /\ mvPhase' = [mvPhase EXCEPT ![p] = "spbc"]
    /\ mvMsg' = [mvMsg EXCEPT ![0][p] = p]
    /\ mvS1' = [mvS1 EXCEPT ![0] = IF p \in mvSigned[0] THEN @ \cup {p} ELSE @]
    /\ UNCHANGED <<mvLeader, mvRound, mvSpbc, mvSigned, mvDelivered, mvVoteVars,
                   mvDecision>>

\* The elected node has N - f ECHOs, from nodes that have come to the round.
SpbcReady(r) ==
    /\ SpbcRuns(mvLeader[r], r)
    /\ mvMsg[r][mvLeader[r]] # None
    /\ mvSpbc[r] = "SEND"
    /\ {q \in Nodes : mvRound[q] >= r} \in Quorum
    /\ mvSpbc' = [mvSpbc EXCEPT ![r] = "READY"]
    /\ UNCHANGED <<mvLeader, mvRound, mvPhase, mvMsg, mvSigned, mvS1, mvDelivered,
                   mvVoteVars, mvDecision>>

\* SPBC_READY: the node signs FINAL and outputs s1.
SpbcSign(p, r) ==
    /\ SpbcRuns(p, r)
    /\ mvSpbc[r] # "SEND"
    /\ p \notin mvSigned[r]
    /\ mvSigned' = [mvSigned EXCEPT ![r] = @ \cup {p}]
    /\ UNCHANGED <<mvLeader, mvRound, mvPhase, mvMsg, mvSpbc, mvS1, mvDelivered,
                   mvVoteVars, mvDecision>>

FinalThreshold == N - F

SpbcDone(r) ==
    /\ SpbcRuns(mvLeader[r], r)
    /\ mvSpbc[r] = "READY"
    /\ Cardinality(mvSigned[r]) >= FinalThreshold
    /\ mvSpbc' = [mvSpbc EXCEPT ![r] = "DONE"]
    /\ UNCHANGED <<mvLeader, mvRound, mvPhase, mvMsg, mvSigned, mvS1, mvDelivered,
                   mvVoteVars, mvDecision>>

\* SPBC_DONE follows SPBC_READY on the leader's link; the output is recorded
\* by a greenlet that is spawned after input() too.
SpbcDeliver(p, r) ==
    /\ SpbcRuns(p, r)
    /\ mvPhase[p] = "spbc"
    /\ mvSpbc[r] = "DONE"
    /\ p \in mvSigned[r] \ mvDelivered[r]
    /\ mvDelivered' = [mvDelivered EXCEPT ![r] = @ \cup {p}]
    /\ UNCHANGED <<mvLeader, mvRound, mvPhase, mvMsg, mvSpbc, mvSigned, mvS1,
                   mvVoteVars, mvDecision>>
-----------------------------------------------------------------------------
Decided(p, v, r, why) ==
    /\ mvPhase' = [mvPhase EXCEPT ![p] = "halted"]
    /\ mvDecision' = [mvDecision EXCEPT ![p] = [value |-> v, round |-> r, why |-> why]]

\* N - f SPBCs of the round are delivered, and the leader's among them or not.
EnoughSpbcs(p, r) ==
    LET others == {q \in Nodes \ {mvLeader[r]} : mvMsg[r][q] # None} IN
    /\ r \in MvElections
    /\ Cardinality(others) + (IF p \in mvDelivered[r] THEN 1 ELSE 0) >= N - F

ElectAndHalt(p) ==
    LET r == mvRound[p] IN
    /\ mvPhase[p] = "spbc"
    /\ EnoughSpbcs(p, r)
    /\ p \in mvDelivered[r]
    /\ Decided(p, mvMsg[r][mvLeader[r]], r, "shortcut")
    /\ UNCHANGED <<mvLeader, mvRound, mvSpbcVars, mvVoteVars>>

ElectAndPrevote(p) ==
    LET r == mvRound[p] IN
    /\ mvPhase[p] = "spbc"
    /\ EnoughSpbcs(p, r)
    /\ p \notin mvDelivered[r]
    /\ mvPhase' = [mvPhase EXCEPT ![p] = "voting"]
    /\ mvPrevote' = [mvPrevote EXCEPT ![r][p] = IF p \in mvS1[r] THEN "yes" ELSE "no"]
    /\ UNCHANGED <<mvLeader, mvRound, mvSpbcVars, mvVote, mvDecision>>

With(ballots, b) == {q \in Nodes : ballots[q] = b}

\* A node votes once: yes on the first yes prevote it handles, no on N - f no.
CastVote(p, b) ==
    LET r == mvRound[p] IN
    /\ mvPhase[p] = "voting"
    /\ mvVote[r][p] = None
    /\ \/ b = "yes" /\ With(mvPrevote[r], "yes") # {}
       \/ b = "no" /\ With(mvPrevote[r], "no") \in Quorum
    /\ mvVote' = [mvVote EXCEPT ![r][p] = b]
    /\ UNCHANGED <<mvLeader, mvRound, mvPhase, mvSpbcVars, mvPrevote, mvDecision>>

HaltOnVotes(p) ==
    LET r == mvRound[p] IN
    /\ mvPhase[p] = "voting"
    /\ With(mvVote[r], "yes") \in Quorum
    /\ Decided(p, mvMsg[r][mvLeader[r]], r, "votes")
    /\ UNCHANGED <<mvLeader, mvRound, mvSpbcVars, mvVoteVars>>

NextRound(p, m) ==
    LET r == mvRound[p] + 1 IN
    /\ r \in MvRounds
    /\ mvRound' = [mvRound EXCEPT ![p] = r]
    /\ mvPhase' = [mvPhase EXCEPT ![p] = "spbc"]
    /\ mvMsg' = [mvMsg EXCEPT ![r][p] = m]
    /\ UNCHANGED <<mvLeader, mvSpbc, mvSigned, mvS1, mvDelivered, mvVoteVars,
                   mvDecision>>

\* N - f no votes: the node broadcasts its own input again.
NextOnNo(p) ==
    /\ mvPhase[p] = "voting"
    /\ With(mvVote[mvRound[p]], "no") \in Quorum
    /\ NextRound(p, p)

\* Mutation of BothMsg: the node goes on with its own input.
BothMsgOwn(p) == p

BothMsg(p) == mvMsg[mvRound[p]][mvLeader[mvRound[p]]]

\* A yes and a no vote: the node broadcasts what the yes vote carries.  (A
\* prevote in between resets vote_yes_msg; then the node waits for another
\* yes vote.)
NextOnBoth(p) ==
    /\ mvPhase[p] = "voting"
    /\ \A b \in {"yes", "no"} : With(mvVote[mvRound[p]], b) # {}
    /\ NextRound(p, BothMsg(p))

\* A HALT of another node: the node decides as that one did, and sends HALT.
HandleHalt(p, q) ==
    /\ p # q
    /\ mvPhase[p] # "halted"
    /\ mvPhase[q] = "halted"
    /\ Decided(p, mvDecision[q].value, mvRound[p], "halt")
    /\ UNCHANGED <<mvLeader, mvRound, mvSpbcVars, mvVoteVars>>

MvNext ==
    \/ \E r \in MvRounds : SpbcReady(r) \/ SpbcDone(r)
    \/ \E p \in Nodes :
          \/ MvInput(p)
          \/ \E r \in MvRounds : SpbcSign(p, r) \/ SpbcDeliver(p, r)
          \/ ElectAndHalt(p)
          \/ ElectAndPrevote(p)
          \/ \E b \in {"yes", "no"} : CastVote(p, b)
          \/ HaltOnVotes(p)
          \/ NextOnNo(p)
          \/ NextOnBoth(p)
          \/ \E q \in Nodes : HandleHalt(p, q)

MvSpec == MvInit /\ [][MvNext]_mvVars
-----------------------------------------------------------------------------
(***************************************************************************)
(* Properties.                                                             *)
(***************************************************************************)
\* What N - f yes votes decided is carried on: every node that leaves the round
\* without deciding broadcasts that value in the next.
VotedValueCarried ==
    \A p, q \in Nodes :
        /\ mvDecision[p] # None
        /\ mvDecision[p].why = "votes"
        /\ mvDecision[p].round + 1 \in MvRounds
        => mvMsg[mvDecision[p].round + 1][q] \in {mvDecision[p].value, None}

\* A node halts without votes only if N - f nodes signed the leader's message,
\* so that no N - f others can lack its first certificate.
HaltIsCertified ==
    \A p \in Nodes :
        mvDecision[p] # None /\ mvDecision[p].why = "shortcut"
            => mvSigned[mvDecision[p].round] \in Quorum

\* Either way of halting leaves enough behind for the rounds that follow.
HaltsLeaveTheirMark == VotedValueCarried /\ HaltIsCertified

\* "Multi-valued Byzantine consensus": no two nodes decide differently.
MvAgreement ==
    \A p, q \in Nodes :
        mvDecision[p] # None /\ mvDecision[q] # None
            => mvDecision[p].value = mvDecision[q].value
=============================================================================
