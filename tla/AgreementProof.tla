---------------------------- MODULE AgreementProof ----------------------------
(***************************************************************************)
(* Safety of the agreements, and where they can come to rest, for every    *)
(* number of nodes, rounds and crashes: of each component an inductive     *)
(* invariant, which is then one of the suite, in whose behaviours one      *)
(* component runs.                                                         *)
(***************************************************************************)
EXTENDS MCAgreement, QuorumLemmas

(***************************************************************************)
(* ValidatedAgreement.  A node that has the leader in its commit list had  *)
(* delivered the leader's value before, and so votes 1; an input of 0      *)
(* rests on N - f votes of 0, so that at most f lists name the leader.     *)
(***************************************************************************)
VaTypeOK ==
    /\ vaPhase \in [Nodes -> {"cbc", "commit", "ballot", "aba", "next", "decided"}]
    /\ vaCommit \in [Nodes -> {0, 1, None}]
    /\ vaVote \in [Nodes -> {0, 1, None}]
    /\ vaInput \in [Nodes -> {0, 1, None}]

\* A node votes after it has committed its list, and knows what it committed.
VotesHonourLists ==
    \A p \in Nodes :
        /\ vaPhase[p] \in {"cbc", "commit"} => vaVote[p] = None
        /\ vaPhase[p] = "commit" => vaCommit[p] # None
        /\ vaCommit[p] = 1 => p \in vaDelivered
        /\ vaVote[p] = 0 => vaCommit[p] = 0

ZeroVotes == {q \in Nodes : vaVote[q] = 0}

\* An input of 0 rests on a quorum of ballots with 0.
ZeroHasQuorum == (\E p \in Nodes : vaInput[p] = 0) => ZeroVotes \in Quorum

VaInv == VaTypeOK /\ VotesHonourLists /\ ZeroHasQuorum

\* Quorums are the same sets in ValidatedAgreement and here.
LEMMA VaNumbers ==
    /\ Va!Quorum = Quorum
    /\ \A S : Va!Cardinality(S) = Cardinality(S)
    /\ Va!N = N
    /\ Va!BallotsNeeded = N - F
    /\ Va!CommitsNeeded = N - F
<1>1. \A S : Va!Cardinality(S) = Cardinality(S)
    BY DEF Va!Cardinality, Cardinality
<1>2. Va!N = N
    BY <1>1 DEF Va!N, N
<1> QED
    BY <1>1, <1>2 DEF Va!Quorum, Quorum, Va!BallotsNeeded, Va!CommitsNeeded

\* Votes of 0 are not taken back.
LEMMA ZeroVotesStay ==
    ASSUME ZeroHasQuorum, ZeroVotes \subseteq ZeroVotes', vaInput' = vaInput
    PROVE  ZeroHasQuorum'
BY QuorumSuperset DEF ZeroHasQuorum, ZeroVotes

\* A set-valued function to which one node was added at one round.
LEMMA AddedNode ==
    ASSUME NEW S, NEW f \in [S -> SUBSET Nodes], NEW x \in S, NEW p \in Nodes
    PROVE  [f EXCEPT ![x] = @ \cup {p}] \in [S -> SUBSET Nodes]
<1>1. f[x] \cup {p} \in SUBSET Nodes
    OBVIOUS
<1> QED
    BY <1>1

\* Nothing is voted before the first CBC returns.
LEMMA VaInitInv == Va!VaInit => VaInv
BY AgreementsAssumption
DEF Va!VaInit, VaInv, VaTypeOK, VotesHonourLists, ZeroHasQuorum

\* A node commits to the leader only if it delivered the leader's value.
LEMMA CommitListKeeps ==
    ASSUME VaInv, NEW p \in Nodes, Va!CommitList(p)
    PROVE  VaInv'
<1> USE DEF VaInv
<1>1. /\ vaPhase[p] = "cbc"
      /\ vaPhase' = [vaPhase EXCEPT ![p] = "commit"]
      /\ vaCommit' = [vaCommit EXCEPT ![p] = IF p \in vaDelivered THEN 1 ELSE 0]
      /\ UNCHANGED <<vaDelivered, vaVote, vaInput>>
    BY DEF Va!CommitList, Va!CbcsDelivered, Va!At, Va!GoTo, Va!vaBallotVars
<1>2. VaTypeOK'
    BY <1>1 DEF VaTypeOK
<1>3. VotesHonourLists'
    BY <1>1, AgreementsAssumption DEF VaTypeOK, VotesHonourLists
<1>4. ZeroHasQuorum'
    BY <1>1, ZeroVotesStay DEF ZeroVotes
<1> QED
    BY <1>2, <1>3, <1>4

\* The ballot is read after the list was committed, so it is no lower than the list.
LEMMA CastBallotKeeps ==
    ASSUME VaInv, NEW p \in Nodes, NEW seen, Va!CastBallot(p, seen)
    PROVE  VaInv'
<1> USE DEF VaInv
<1>1. /\ vaPhase[p] = "commit"
      /\ vaPhase' = [vaPhase EXCEPT ![p] = "ballot"]
      /\ vaVote' = [vaVote EXCEPT ![p] = IF p \in vaDelivered THEN 1 ELSE 0]
      /\ UNCHANGED <<vaDelivered, vaCommit, vaInput>>
    BY DEF Va!CastBallot, Va!ListsDelivered, Va!At, Va!GoTo
<1>2. VaTypeOK'
    BY <1>1 DEF VaTypeOK
<1>3. p \notin vaDelivered => vaCommit[p] = 0
    BY <1>1 DEF VaTypeOK, VotesHonourLists
<1>4. VotesHonourLists'
    BY <1>1, <1>3, AgreementsAssumption DEF VaTypeOK, VotesHonourLists
<1>5. ZeroVotes \subseteq ZeroVotes'
    BY <1>1, AgreementsAssumption DEF VaTypeOK, VotesHonourLists, ZeroVotes
<1>6. ZeroHasQuorum'
    BY <1>1, <1>5, ZeroVotesStay
<1> QED
    BY <1>2, <1>4, <1>6

\* An input is 0 only if all of N - f ballots are.
LEMMA CountBallotsKeeps ==
    ASSUME VaInv, NEW p \in Nodes, NEW Q \in Va!Quorum, Va!CountBallots(p, Q)
    PROVE  VaInv'
<1> USE DEF VaInv
<1>1. /\ vaPhase[p] = "ballot"
      /\ vaPhase' = [vaPhase EXCEPT ![p] = "aba"]
      /\ vaInput' = [vaInput EXCEPT ![p] = Va!BallotsSay(Q)]
      /\ UNCHANGED <<vaDelivered, vaCommit, vaVote>>
    BY DEF Va!CountBallots, Va!BallotsIn, Va!At, Va!GoTo
<1>2. Va!BallotsSay(Q) \in {0, 1}
    BY DEF Va!BallotsSay
<1>3. VaTypeOK'
    BY <1>1, <1>2 DEF VaTypeOK
<1>4. VotesHonourLists'
    BY <1>1 DEF VaTypeOK, VotesHonourLists
<1>5. Va!BallotsSay(Q) = 0 => ZeroVotes \in Quorum
    <2> SUFFICES ASSUME Va!BallotsSay(Q) = 0
                 PROVE  ZeroVotes \in Quorum
        OBVIOUS
    <2>1. \A q \in Q : vaVote[q] # 1
        BY DEF Va!BallotsSay
    <2>2. Q \in Quorum /\ Q \subseteq Va!Countable(p)
        BY VaNumbers DEF Va!CountBallots, Va!BallotsIn
    <2>3. Q \subseteq ZeroVotes
        BY <2>1, <2>2 DEF Va!Countable, ZeroVotes
    <2> QED
        BY <2>2, <2>3, QuorumSuperset DEF ZeroVotes
<1>6. ZeroHasQuorum'
    BY <1>1, <1>5, AgreementsAssumption DEF ZeroHasQuorum, ZeroVotes, VaTypeOK
<1> QED
    BY <1>3, <1>4, <1>6

\* The other steps leave votes, lists and inputs alone.
LEMMA VaOthersKeep ==
    ASSUME VaInv, NEW p \in Nodes,
           \/ UNCHANGED Va!vaVars
           \/ Va!LeaderFinal
           \/ Va!DeliverCbc(p)
           \/ Va!CommitFinal(p)
           \/ \E q \in Nodes : Va!DropBallot(p, q)
           \/ Va!EndIteration(p)
           \/ \E b \in Va!Bits : Va!AbaDecides(b)
           \/ Va!VaCrash(p)
    PROVE  VaInv'
<1> USE DEF VaInv
<1>1. /\ UNCHANGED <<vaCommit, vaVote, vaInput>>
      /\ vaDelivered \subseteq vaDelivered'
      /\ \/ UNCHANGED vaPhase
         \/ /\ vaPhase[p] = "aba"
            /\ \E phase \in {"next", "decided"} : vaPhase' = [vaPhase EXCEPT ![p] = phase]
    BY DEF Va!vaVars, Va!vaBallotVars, Va!LeaderFinal, Va!DeliverCbc, Va!CommitFinal,
           Va!DropBallot, Va!EndIteration, Va!OutputIn, Va!AbaDecides, Va!VaCrash, Va!At,
           Va!GoTo
<1>2. VaTypeOK'
    BY <1>1 DEF VaTypeOK
<1>3. VotesHonourLists'
    BY <1>1 DEF VaTypeOK, VotesHonourLists
<1>4. ZeroHasQuorum'
    BY <1>1, ZeroVotesStay DEF ZeroVotes
<1> QED
    BY <1>2, <1>3, <1>4

\* Every step of an iteration keeps the invariant.
LEMMA VaStepInv == VaInv /\ [Va!VaNext]_Va!vaVars => VaInv'
<1> SUFFICES ASSUME VaInv, [Va!VaNext]_Va!vaVars
             PROVE  VaInv'
    OBVIOUS
<1>1. ASSUME NEW p \in Nodes, NEW seen \in SUBSET vaCommitted, Va!CastBallot(p, seen)
      PROVE  VaInv'
    BY <1>1, CastBallotKeeps
<1>2. ASSUME NEW p \in Nodes, NEW Q \in Va!Quorum, Va!CountBallots(p, Q)
      PROVE  VaInv'
    BY <1>2, CountBallotsKeeps
<1>3. ASSUME NEW p \in Nodes, Va!CommitList(p)
      PROVE  VaInv'
    BY <1>3, CommitListKeeps
<1>4. PICK n : n \in Nodes
    BY FaultNumbers, NodeSets, FS_EmptySet DEF N
<1> QED
    BY <1>1, <1>2, <1>3, <1>4, VaOthersKeep DEF Va!VaNext, Va!VaProgress

\* f + 1 lists that name the leader meet the quorum behind any input of 0.
LEMMA VaInvWins == VaInv => Va!CommittedLeaderWins
<1> SUFFICES ASSUME VaInv, Cardinality({q \in Nodes : vaCommit[q] = 1}) >= F + 1,
                    NEW p \in Nodes, vaInput[p] = 0
             PROVE  FALSE
    BY VaNumbers DEF Va!CommittedLeaderWins
<1>1. ZeroVotes \in Quorum
    BY DEF VaInv, ZeroHasQuorum
<1>2. \E q \in Nodes : q \in {x \in Nodes : vaCommit[x] = 1} /\ q \in ZeroVotes
    BY <1>1, MajorityMeets
<1> QED
    BY <1>2 DEF ZeroVotes, VaInv, VotesHonourLists

(***************************************************************************)
(* The end of an iteration: what a node that waits already has.            *)
(***************************************************************************)
VaSetsOK ==
    /\ vaLeader \in Nodes
    /\ vaDelivered \in SUBSET Nodes /\ vaCommitted \in SUBSET Nodes
    /\ vaHolds \in SUBSET Nodes /\ vaCrashed \in SUBSET Nodes
    /\ vaSeen \in [Nodes -> SUBSET Nodes] /\ vaDropped \in [Nodes -> SUBSET Nodes]
    /\ vaAba \in {0, 1, None}

\* At most f processes die, the leader only after its certificate is out.
FewVaCrashed == Cardinality(vaCrashed) <= F /\ (vaLeader \in vaCrashed => vaFinal)

\* What a node has by the time it is in a phase.
PhasesReached ==
    \A p \in Nodes :
        /\ vaPhase[p] = "cbc" /\ p \in vaHolds => p \in vaDelivered
        /\ vaPhase[p] # "cbc" => vaCommit[p] # None
        /\ vaPhase[p] \notin {"cbc", "commit"} => vaVote[p] # None
        /\ vaPhase[p] \notin {"cbc", "commit", "ballot"} => vaInput[p] # None

\* A node that counts ballots has seen N - f commits, and dropped no ballot of those.
SeenNotDropped ==
    \A p \in Nodes :
        /\ vaPhase[p] \in {"cbc", "commit"} => vaDropped[p] = {}
        /\ vaPhase[p] = "ballot" =>
              /\ Cardinality(vaSeen[p]) = N - F
              /\ vaSeen[p] \subseteq vaCommitted
              /\ vaSeen[p] \cap vaDropped[p] = {}

VaWaits == VaSetsOK /\ FewVaCrashed /\ PhasesReached /\ SeenNotDropped

\* Nobody has anything, and nobody waits for anything, at first.
LEMMA VaInitWaits == Va!VaInit => VaWaits
<1>1. Cardinality({}) = 0 /\ F \in Nat
    BY FS_EmptySet, FaultNumbers
<1> QED
    BY <1>1, AgreementsAssumption
    DEF Va!VaInit, VaWaits, VaSetsOK, FewVaCrashed, PhasesReached, SeenNotDropped

\* A node goes to the next phase with what it waited for.
LEMMA VaStepWaits == VaInv /\ VaWaits /\ [Va!VaNext]_Va!vaVars => VaWaits'
<1> SUFFICES ASSUME VaInv, VaWaits, [Va!VaNext]_Va!vaVars
             PROVE  VaWaits'
    OBVIOUS
<1>0. VaTypeOK /\ VaSetsOK
    BY DEF VaInv, VaWaits
<1>1. ASSUME NEW p \in Nodes, Va!DeliverCbc(p) \/ Va!CommitFinal(p) \/ Va!EndIteration(p)
      PROVE  VaWaits'
    <2>1. /\ UNCHANGED <<vaLeader, vaFinal, vaCommit, vaVote, vaInput, vaSeen, vaDropped, vaAba, vaCrashed>>
          /\ \/ vaHolds' = vaHolds \cup {p} /\ vaDelivered' = vaDelivered \cup {p}
             \/ UNCHANGED <<vaHolds, vaDelivered>>
          /\ vaCommitted \subseteq vaCommitted' /\ vaCommitted' \subseteq vaCommitted \cup {p}
          /\ \/ UNCHANGED vaPhase
             \/ /\ vaPhase[p] = "aba"
                /\ \E phase \in {"next", "decided"} : vaPhase' = [vaPhase EXCEPT ![p] = phase]
        BY <1>1 DEF Va!DeliverCbc, Va!CommitFinal, Va!EndIteration, Va!OutputIn, Va!At, Va!GoTo,
                    Va!vaBallotVars
    <2>2. VaSetsOK'
        BY <1>0, <2>1 DEF VaSetsOK
    <2>3. FewVaCrashed'
        BY <2>1 DEF VaWaits, FewVaCrashed
    <2>4. PhasesReached'
        BY <1>0, <2>1 DEF VaWaits, PhasesReached, VaTypeOK
    <2>5. SeenNotDropped'
        BY <1>0, <2>1 DEF VaWaits, SeenNotDropped, VaTypeOK
    <2> QED
        BY <2>2, <2>3, <2>4, <2>5 DEF VaWaits
<1>2. ASSUME Va!LeaderFinal \/ UNCHANGED Va!vaVars \/ \E b \in Va!Bits : Va!AbaDecides(b)
      PROVE  VaWaits'
    <2>1. /\ UNCHANGED <<vaLeader, vaPhase, vaDelivered, vaCommit, vaCommitted, vaSeen, vaVote, vaDropped,
                         vaInput, vaHolds, vaCrashed>>
          /\ vaFinal => vaFinal'
          /\ vaAba' \in {0, 1, vaAba}
        BY <1>2 DEF Va!LeaderFinal, Va!vaVars, Va!vaBallotVars, Va!AbaDecides, Va!Bits
    <2> QED
        BY <2>1 DEF VaWaits, VaSetsOK, FewVaCrashed, PhasesReached, SeenNotDropped
<1>3. ASSUME NEW p \in Nodes, Va!CommitList(p)
      PROVE  VaWaits'
    <2>1. /\ vaPhase[p] = "cbc"
          /\ vaPhase' = [vaPhase EXCEPT ![p] = "commit"]
          /\ vaCommit' = [vaCommit EXCEPT ![p] = IF p \in vaDelivered THEN 1 ELSE 0]
          /\ UNCHANGED <<vaLeader, vaFinal, vaDelivered, vaCommitted, vaSeen, vaVote, vaDropped,
                         vaInput, vaAba, vaHolds, vaCrashed>>
        BY <1>3 DEF Va!CommitList, Va!CbcsDelivered, Va!At, Va!GoTo, Va!vaBallotVars
    <2>2. VaSetsOK' /\ FewVaCrashed'
        BY <2>1 DEF VaWaits, VaSetsOK, FewVaCrashed
    <2>3. PhasesReached'
        BY <1>0, <2>1, AgreementsAssumption DEF VaWaits, PhasesReached, VaTypeOK
    <2>4. SeenNotDropped'
        BY <1>0, <2>1 DEF VaWaits, SeenNotDropped, VaTypeOK
    <2> QED
        BY <2>2, <2>3, <2>4 DEF VaWaits
<1>4. ASSUME NEW p \in Nodes, NEW seen \in SUBSET vaCommitted, Va!CastBallot(p, seen)
      PROVE  VaWaits'
    <2>1. /\ vaPhase[p] = "commit" /\ Cardinality(seen) = N - F
          /\ vaPhase' = [vaPhase EXCEPT ![p] = "ballot"]
          /\ vaSeen' = [vaSeen EXCEPT ![p] = seen]
          /\ vaVote' = [vaVote EXCEPT ![p] = IF p \in vaDelivered THEN 1 ELSE 0]
          /\ UNCHANGED <<vaLeader, vaFinal, vaDelivered, vaCommit, vaCommitted, vaDropped,
                         vaInput, vaAba, vaHolds, vaCrashed>>
        BY <1>4, VaNumbers DEF Va!CastBallot, Va!ListsDelivered, Va!At, Va!GoTo
    <2>2. VaSetsOK' /\ FewVaCrashed'
        BY <1>0, <2>1 DEF VaWaits, VaSetsOK, FewVaCrashed
    <2>3. PhasesReached'
        BY <1>0, <2>1, AgreementsAssumption DEF VaWaits, PhasesReached, VaTypeOK
    <2>4. SeenNotDropped'
        BY <1>0, <2>1 DEF VaWaits, SeenNotDropped, VaTypeOK, VaSetsOK
    <2> QED
        BY <2>2, <2>3, <2>4 DEF VaWaits
<1>5. ASSUME NEW p \in Nodes, NEW q \in Nodes, Va!DropBallot(p, q)
      PROVE  VaWaits'
    <2>1. /\ vaPhase[p] = "ballot" /\ q \notin vaSeen[p]
          /\ vaDropped' = [vaDropped EXCEPT ![p] = @ \cup {q}]
          /\ UNCHANGED <<vaLeader, vaPhase, vaFinal, vaDelivered, vaCommit, vaCommitted, vaSeen, vaVote,
                         vaInput, vaAba, vaHolds, vaCrashed>>
        BY <1>5 DEF Va!DropBallot, Va!BallotTooEarly, Va!At, VaInv, VotesHonourLists
    <2>2. VaSetsOK' /\ FewVaCrashed' /\ PhasesReached'
        BY <1>0, <2>1, AddedNode DEF VaWaits, VaSetsOK, FewVaCrashed, PhasesReached
    <2>3. SeenNotDropped'
        BY <1>0, <2>1 DEF VaWaits, SeenNotDropped, VaTypeOK, VaSetsOK
    <2> QED
        BY <2>2, <2>3 DEF VaWaits
<1>6. ASSUME NEW p \in Nodes, NEW Q \in Va!Quorum, Va!CountBallots(p, Q)
      PROVE  VaWaits'
    <2>1. /\ vaPhase[p] = "ballot"
          /\ vaPhase' = [vaPhase EXCEPT ![p] = "aba"]
          /\ vaInput' = [vaInput EXCEPT ![p] = Va!BallotsSay(Q)]
          /\ vaHolds' \in {vaHolds, vaHolds \cup {p}}
          /\ vaSeen' = [vaSeen EXCEPT ![p] = {}]
          /\ vaDropped' = [vaDropped EXCEPT ![p] = {}]
          /\ UNCHANGED <<vaLeader, vaFinal, vaDelivered, vaCommit, vaCommitted, vaVote,
                         vaAba, vaCrashed>>
        BY <1>6 DEF Va!CountBallots, Va!BallotsIn, Va!At, Va!GoTo
    <2>2. Va!BallotsSay(Q) \in {0, 1}
        BY DEF Va!BallotsSay
    <2>3. VaSetsOK' /\ FewVaCrashed'
        BY <1>0, <2>1 DEF VaWaits, VaSetsOK, FewVaCrashed
    <2>4. PhasesReached'
        <3> SUFFICES ASSUME NEW q \in Nodes
                     PROVE  /\ vaPhase'[q] = "cbc" /\ q \in vaHolds' => q \in vaDelivered
                            /\ vaPhase'[q] # "cbc" => vaCommit[q] # None
                            /\ vaPhase'[q] \notin {"cbc", "commit"} => vaVote[q] # None
                            /\ vaPhase'[q] \notin {"cbc", "commit", "ballot"} => vaInput'[q] # None
            BY <2>1 DEF PhasesReached
        <3>1. CASE q = p
            BY <1>0, <2>1, <2>2, <3>1, AgreementsAssumption DEF VaWaits, PhasesReached, VaTypeOK
        <3>2. CASE q # p
            BY <1>0, <2>1, <3>2 DEF VaWaits, PhasesReached, VaTypeOK
        <3> QED
            BY <3>1, <3>2
    <2>5. SeenNotDropped'
        BY <1>0, <2>1 DEF VaWaits, SeenNotDropped, VaTypeOK, VaSetsOK
    <2> QED
        BY <2>3, <2>4, <2>5 DEF VaWaits
<1>7. ASSUME NEW p \in Nodes, Va!VaCrash(p)
      PROVE  VaWaits'
    <2>1. /\ Cardinality(vaCrashed) < VaMaxCrash
          /\ p = vaLeader => vaFinal
          /\ vaCrashed' = vaCrashed \cup {p}
          /\ UNCHANGED <<vaLeader, vaPhase, vaFinal, vaDelivered, vaCommit, vaCommitted, vaSeen,
                         vaVote, vaDropped, vaInput, vaAba, vaHolds>>
        BY <1>7, VaNumbers DEF Va!VaCrash, Va!vaBallotVars
    <2>2. vaCrashed' \in SUBSET Nodes /\ Cardinality(vaCrashed') <= F
        BY <1>0, <2>1, OneMoreNode, AgreementsAssumption DEF VaSetsOK
    <2> QED
        BY <1>0, <2>1, <2>2 DEF VaWaits, VaSetsOK, FewVaCrashed, PhasesReached, SeenNotDropped
<1>8. PICK n : n \in Nodes
    BY FaultNumbers, NodeSets, FS_EmptySet DEF N
<1> QED
    BY <1>1, <1>2, <1>3, <1>4, <1>5, <1>6, <1>7 DEF Va!VaNext, Va!VaProgress

\* When nothing is left to do, the certificate and the lists of all live nodes
\* have come to all, so that no live node waits before it counts ballots; N - f
\* of these it can count, unless it dropped one and a process is dead.
LEMMA VaSettledEnds == VaInv /\ VaWaits => Va!IterationEnds
<1> SUFFICES ASSUME VaInv, VaWaits, Va!VaSettled,
                    \A p \in Nodes : ~ (vaCrashed # {} /\ Va!At(p, "ballot") /\ vaDropped[p] # {}),
                    NEW p \in Nodes, p \notin vaCrashed
             PROVE  vaPhase[p] \in {"next", "decided"}
    BY DEF Va!IterationEnds
<1>0. VaTypeOK /\ VaSetsOK
    BY DEF VaInv, VaWaits
<1> DEFINE Live == Nodes \ vaCrashed
<1>1. Live \in Quorum
    BY <1>0, LiveNodes DEF VaWaits, VaSetsOK, FewVaCrashed
<1>2. PICK L : L \in SUBSET Live /\ Cardinality(L) = N - F
    <2>1. IsFiniteSet(Live) /\ Cardinality(Live) \in Nat /\ Cardinality(Live) >= N - F
        BY <1>1, NodeSets DEF Quorum
    <2>2. N - F \in 0 .. Cardinality(Live)
        BY <2>1, FaultNumbers
    <2> QED
        BY <2>1, <2>2, SubsetOfSize
<1>3. L \in Va!Quorum
    BY <1>2, VaNumbers, FaultNumbers DEF Quorum
<1>4. Live \subseteq vaHolds
    BY DEF VaWaits, FewVaCrashed, Va!VaSettled, Va!LeaderEchoed, Va!CbcArrives
<1>5. ASSUME NEW q \in Live
      PROVE  vaPhase[q] # "cbc"
    <2> SUFFICES ASSUME vaPhase[q] = "cbc"
                 PROVE  FALSE
        OBVIOUS
    <2>1. q \in vaDelivered
        BY <1>4 DEF VaWaits, PhasesReached
    <2>2. Va!Cardinality(Nodes \ {vaLeader}) = N - 1
        BY <1>0, VaNumbers, FaultAssumption, FS_RemoveElement DEF VaSetsOK, N
    <2>3. Va!Cardinality(Nodes \ {vaLeader}) + 1 >= Va!N - F
        BY <2>2, VaNumbers, FaultNumbers
    <2> QED
        BY <2>1, <2>3 DEF Va!VaSettled, Va!CbcsDelivered, Va!At
<1>6. Live \subseteq vaCommitted
    BY <1>5 DEF VaWaits, PhasesReached, Va!VaSettled, Va!ListEchoed
<1>7. ASSUME NEW q \in Live
      PROVE  vaPhase[q] # "commit"
    <2>1. L \in SUBSET vaCommitted /\ Va!Cardinality(L) = Va!CommitsNeeded
        BY <1>2, <1>6, VaNumbers
    <2> QED
        BY <2>1 DEF Va!VaSettled, Va!ListsDelivered, Va!At
<1>8. Live \subseteq Va!Countable(p)
    BY <1>0, <1>5, <1>6, <1>7
    DEF VaWaits, PhasesReached, VaTypeOK, VaInv, VotesHonourLists, Va!Countable
<1>9. ASSUME NEW q \in Live
      PROVE  vaPhase[q] # "ballot"
    <2> SUFFICES ASSUME vaPhase[q] = "ballot"
                 PROVE  FALSE
        OBVIOUS
    <2>1. Live \subseteq Va!Countable(q)
        BY <1>8 DEF Va!Countable
    <2>2. CASE vaDropped[q] = {}
        <3>1. L \subseteq Va!Countable(q) \ vaDropped[q] /\ Va!Cardinality(L) = Va!BallotsNeeded
            BY <1>2, <2>1, <2>2, VaNumbers
        <3> QED
            BY <1>3, <3>1 DEF Va!VaSettled, Va!BallotsIn, Va!At
    <2>3. CASE vaCrashed = {}
        <3>1. /\ vaSeen[q] \in SUBSET Nodes /\ Cardinality(vaSeen[q]) = N - F
              /\ vaSeen[q] \cap vaDropped[q] = {}
            BY <1>0 DEF VaWaits, VaSetsOK, SeenNotDropped
        <3>2. vaSeen[q] \in Va!Quorum
            BY <3>1, VaNumbers, FaultNumbers DEF Quorum
        <3>3. /\ vaSeen[q] \subseteq Va!Countable(q) \ vaDropped[q]
              /\ Va!Cardinality(vaSeen[q]) = Va!BallotsNeeded
            BY <2>1, <2>3, <3>1, VaNumbers
        <3> QED
            BY <3>2, <3>3 DEF Va!VaSettled, Va!BallotsIn, Va!At
    <2> QED
        BY <2>2, <2>3 DEF Va!At
<1>10. Live \subseteq {q \in Nodes : vaInput[q] # None}
    BY <1>0, <1>5, <1>7, <1>9 DEF VaWaits, PhasesReached
<1>11. vaAba \in {0, 1}
    <2>1. {q \in Nodes : vaInput[q] # None} \in Va!Quorum
        BY <1>1, <1>10, QuorumSuperset, VaNumbers
    <2>2. vaInput[p] \in {0, 1}
        BY <1>0, <1>10 DEF VaTypeOK
    <2> QED
        BY <1>0, <2>1, <2>2 DEF VaSetsOK, Va!VaSettled, Va!AbaMayDecide, Va!Bits
<1>12. vaPhase[p] # "aba"
    BY <1>4, <1>11 DEF Va!VaSettled, Va!OutputIn, Va!At
<1> QED
    BY <1>0, <1>5, <1>7, <1>9, <1>12 DEF VaTypeOK
-----------------------------------------------------------------------------
(***************************************************************************)
(* SpeedMvba.  Messages and votes of a round are sent once.  A node that   *)
(* goes on to the next round with anything but the elected value saw N - f *)
(* no votes, which N - f yes votes exclude; and what is delivered was      *)
(* signed by N - f nodes, none of which takes its signature back.          *)
(***************************************************************************)
MvDecisions == [value : Nodes \cup {None}, round : MvRounds, why : {"shortcut", "votes", "halt"}]

MvTypeOK ==
    /\ mvLeader \in [MvRounds -> Nodes]
    /\ mvRound \in [Nodes -> MvRounds]
    /\ mvPhase \in [Nodes -> {"input", "spbc", "voting", "halted"}]
    /\ mvMsg \in [MvRounds -> [Nodes -> Nodes \cup {None}]]
    /\ mvSpbc \in [MvRounds -> {"SEND", "READY", "DONE"}]
    /\ mvSigned \in [MvRounds -> SUBSET Nodes]
    /\ mvS1 \in [MvRounds -> SUBSET Nodes]
    /\ mvDelivered \in [MvRounds -> SUBSET Nodes]
    /\ mvPrevote \in [MvRounds -> [Nodes -> {"yes", "no", None}]]
    /\ mvVote \in [MvRounds -> [Nodes -> {"yes", "no", None}]]
    /\ mvDecision \in [Nodes -> MvDecisions \cup {None}]

\* A node broadcasts once in a round.
MessageOnce ==
    \A p \in Nodes :
        /\ mvPhase[p] = "input" => mvRound[p] = 0 /\ mvMsg[0][p] = None
        /\ \A r \in MvRounds : r > mvRound[p] => mvMsg[r][p] = None

\* From the elected message over the signatures to the output.
BroadcastFlows ==
    \A r \in MvRounds :
        /\ mvSpbc[r] # "SEND" => mvMsg[r][mvLeader[r]] # None
        /\ mvSigned[r] # {} => mvSpbc[r] # "SEND"
        /\ mvS1[r] \subseteq mvSigned[r]
        /\ mvSpbc[r] = "DONE" => mvSigned[r] \in Quorum
        /\ mvDelivered[r] # {} => mvSpbc[r] = "DONE"

\* A yes vote follows from a yes prevote, and that from the first certificate.
VotesFlow ==
    \A r \in MvRounds, p \in Nodes :
        /\ mvPrevote[r][p] = "yes" => p \in mvS1[r]
        /\ mvVote[r][p] = "yes" => \E q \in Nodes : mvPrevote[r][q] = "yes"

Votes(r, b) == {q \in Nodes : mvVote[r][q] = b}
Elected(r) == mvMsg[r][mvLeader[r]]

\* The next round continues with the elected message, or after N - f no votes.
NextMessages ==
    \A r \in MvRounds, p \in Nodes :
        r + 1 \in MvRounds /\ mvMsg[r + 1][p] # None =>
            \/ Votes(r, "no") \in Quorum
            \/ Elected(r) # None /\ mvMsg[r + 1][p] = Elected(r)

HaltedDecided == \A p \in Nodes : mvPhase[p] = "halted" => mvDecision[p] \in MvDecisions

\* What each kind of decision rests on.
DecisionsBacked ==
    \A p \in Nodes : mvDecision[p] # None =>
        LET d == mvDecision[p] IN
        /\ d.why = "votes" =>
              Votes(d.round, "yes") \in Quorum /\ d.value = Elected(d.round) /\ d.value # None
        /\ d.why = "shortcut" => mvSigned[d.round] \in Quorum

MvInv ==
    /\ MvTypeOK
    /\ MessageOnce
    /\ BroadcastFlows
    /\ VotesFlow
    /\ NextMessages
    /\ HaltedDecided
    /\ DecisionsBacked

\* Quorums are the same sets in SpeedMvba and here.
LEMMA MvNumbers ==
    /\ Mv!N = N
    /\ Mv!Quorum = Quorum
    /\ \A S : Mv!Cardinality(S) = Cardinality(S)
<1>1. \A S : Mv!Cardinality(S) = Cardinality(S)
    BY DEF Mv!Cardinality, Cardinality
<1>2. Mv!N = N
    BY <1>1 DEF Mv!N, N
<1> QED
    BY <1>1, <1>2 DEF Mv!Quorum, Quorum

\* Nothing is sent, signed or voted at the start.
LEMMA MvInitInv == Mv!MvInit => MvInv
<1> SUFFICES ASSUME Mv!MvInit
             PROVE  MvInv
    OBVIOUS
<1> USE AgreementsAssumption DEF Mv!MvInit
<1>1. MvTypeOK
    BY DEF MvTypeOK
<1>2. MessageOnce
    BY DEF MessageOnce
<1>3. BroadcastFlows
    BY DEF BroadcastFlows
<1>4. VotesFlow
    BY DEF VotesFlow
<1>5. NextMessages
    BY DEF NextMessages
<1>6. HaltedDecided /\ DecisionsBacked
    BY DEF HaltedDecided, DecisionsBacked
<1> QED
    BY <1>1, <1>2, <1>3, <1>4, <1>5, <1>6 DEF MvInv

\* The messages and votes of a round stay as they are, and so what is backed by
\* them.
LEMMA BackingStays ==
    ASSUME MvTypeOK, DecisionsBacked, mvLeader' = mvLeader, mvDecision' = mvDecision,
           \A r \in MvRounds, p \in Nodes :
               /\ mvMsg[r][p] # None => mvMsg'[r][p] = mvMsg[r][p]
               /\ mvVote[r][p] = "yes" => mvVote'[r][p] = "yes",
           \A r \in MvRounds : mvSigned[r] \subseteq mvSigned'[r] /\ mvSigned'[r] \subseteq Nodes
    PROVE  DecisionsBacked'
<1> SUFFICES ASSUME NEW p \in Nodes, mvDecision[p] # None
             PROVE  LET d == mvDecision[p] IN
                    /\ d.why = "votes" =>
                          /\ Votes(d.round, "yes")' \in Quorum
                          /\ d.value = Elected(d.round)' /\ d.value # None
                    /\ d.why = "shortcut" => mvSigned'[d.round] \in Quorum
    BY DEF DecisionsBacked, Votes, Elected
<1> DEFINE d == mvDecision[p]
<1>1. d.round \in MvRounds /\ mvLeader[d.round] \in Nodes
    BY DEF MvTypeOK, MvDecisions
<1>2. d.why = "votes" => /\ Votes(d.round, "yes") \in Quorum
                         /\ d.value = Elected(d.round) /\ d.value # None
    BY DEF DecisionsBacked
<1>3. d.why = "shortcut" => mvSigned[d.round] \in Quorum
    BY DEF DecisionsBacked
<1>4. Votes(d.round, "yes") \subseteq Votes(d.round, "yes")' /\ Votes(d.round, "yes")' \subseteq Nodes
    BY <1>1 DEF Votes
<1>5. d.value = Elected(d.round) /\ d.value # None => d.value = Elected(d.round)'
    BY <1>1 DEF Elected
<1>6. d.why = "votes" => Votes(d.round, "yes")' \in Quorum
    BY <1>2, <1>4, QuorumSuperset
<1>7. d.why = "shortcut" => mvSigned'[d.round] \in Quorum
    BY <1>1, <1>3, QuorumSuperset
<1> QED
    BY <1>2, <1>5, <1>6, <1>7

\* The steps of the elected node's broadcast.
LEMMA BroadcastKeeps ==
    ASSUME MvInv, NEW p \in Nodes, NEW r \in MvRounds,
           \/ Mv!SpbcReady(r)
           \/ Mv!SpbcSign(p, r)
           \/ Mv!SpbcDone(r)
           \/ Mv!SpbcDeliver(p, r)
    PROVE  MvInv'
<1> USE DEF MvInv
<1>1. /\ UNCHANGED <<mvLeader, mvRound, mvPhase, mvMsg, mvS1, mvPrevote, mvVote, mvDecision>>
      /\ \/ /\ mvSpbc[r] = "SEND" /\ mvMsg[r][mvLeader[r]] # None
            /\ mvSpbc' = [mvSpbc EXCEPT ![r] = "READY"]
            /\ UNCHANGED <<mvSigned, mvDelivered>>
         \/ /\ mvSpbc[r] # "SEND"
            /\ mvSigned' = [mvSigned EXCEPT ![r] = @ \cup {p}]
            /\ UNCHANGED <<mvSpbc, mvDelivered>>
         \/ /\ mvSpbc[r] = "READY" /\ Cardinality(mvSigned[r]) >= N - F
            /\ mvSpbc' = [mvSpbc EXCEPT ![r] = "DONE"]
            /\ UNCHANGED <<mvSigned, mvDelivered>>
         \/ /\ mvSpbc[r] = "DONE"
            /\ mvDelivered' = [mvDelivered EXCEPT ![r] = @ \cup {p}]
            /\ UNCHANGED <<mvSpbc, mvSigned>>
    BY MvNumbers DEF Mv!SpbcReady, Mv!SpbcSign, Mv!SpbcDone, Mv!SpbcDeliver,
                     Mv!FinalThreshold, Mv!mvVoteVars
<1>2. MvTypeOK'
    <2>1. mvSpbc' \in [MvRounds -> {"SEND", "READY", "DONE"}]
        BY <1>1 DEF MvTypeOK
    <2>2. mvSigned \in [MvRounds -> SUBSET Nodes] /\ mvDelivered \in [MvRounds -> SUBSET Nodes]
        BY DEF MvTypeOK
    <2>3. mvSigned' \in [MvRounds -> SUBSET Nodes] /\ mvDelivered' \in [MvRounds -> SUBSET Nodes]
        BY <1>1, <2>2, AddedNode
    <2> QED
        BY <1>1, <2>1, <2>2, <2>3 DEF MvTypeOK
<1>3. MessageOnce' /\ VotesFlow' /\ NextMessages' /\ HaltedDecided'
    BY <1>1 DEF MessageOnce, VotesFlow, NextMessages, HaltedDecided, Votes, Elected
<1>4. \A s \in MvRounds : mvSigned[s] \subseteq mvSigned'[s] /\ mvSigned'[s] \subseteq Nodes
    <2>1. mvSigned \in [MvRounds -> SUBSET Nodes] /\ mvSigned' \in [MvRounds -> SUBSET Nodes]
        BY <1>2 DEF MvTypeOK
    <2>2. mvSigned' = mvSigned \/ mvSigned' = [mvSigned EXCEPT ![r] = @ \cup {p}]
        BY <1>1
    <2> QED
        BY <2>1, <2>2
<1>5. BroadcastFlows'
    <2> SUFFICES ASSUME NEW s \in MvRounds
                 PROVE  /\ mvSpbc'[s] # "SEND" => mvMsg[s][mvLeader[s]] # None
                        /\ mvSigned'[s] # {} => mvSpbc'[s] # "SEND"
                        /\ mvS1[s] \subseteq mvSigned'[s]
                        /\ mvSpbc'[s] = "DONE" => mvSigned'[s] \in Quorum
                        /\ mvDelivered'[s] # {} => mvSpbc'[s] = "DONE"
        BY <1>1 DEF BroadcastFlows
    <2>1. mvSpbc[s] = "DONE" => mvSigned'[s] \in Quorum
        BY <1>4, QuorumSuperset DEF BroadcastFlows
    <2>2. mvSigned[r] \in SUBSET Nodes
        BY DEF MvTypeOK
    <2>3. mvSpbc'[s] = "DONE" => mvSigned'[s] \in Quorum
        BY <1>1, <2>1, <2>2 DEF MvTypeOK, Quorum
    <2> QED
        BY <1>1, <1>4, <2>3 DEF MvTypeOK, BroadcastFlows
<1>6. DecisionsBacked'
    BY <1>1, <1>4, BackingStays
<1> QED
    BY <1>2, <1>3, <1>5, <1>6

\* input(): the node's first message, and its first certificate if it signed.
LEMMA InputKeeps ==
    ASSUME MvInv, NEW p \in Nodes, Mv!MvInput(p)
    PROVE  MvInv'
<1> USE DEF MvInv
<1>1. /\ mvPhase[p] = "input" /\ mvRound[p] = 0 /\ mvMsg[0][p] = None
      /\ mvPhase' = [mvPhase EXCEPT ![p] = "spbc"]
      /\ mvMsg' = [mvMsg EXCEPT ![0][p] = p]
      /\ mvS1' = [mvS1 EXCEPT ![0] = IF p \in mvSigned[0] THEN @ \cup {p} ELSE @]
      /\ UNCHANGED <<mvLeader, mvRound, mvSpbc, mvSigned, mvDelivered, mvPrevote, mvVote,
                     mvDecision>>
    BY DEF Mv!MvInput, Mv!mvVoteVars, MessageOnce
<1>2. \A r \in MvRounds, q \in Nodes :
          mvMsg'[r][q] = IF r = 0 /\ q = p THEN p ELSE mvMsg[r][q]
    BY <1>1 DEF MvTypeOK
<1>3. MvTypeOK'
    <2>1. mvMsg' \in [MvRounds -> [Nodes -> Nodes \cup {None}]]
        BY <1>1 DEF MvTypeOK
    <2>2. mvS1' \in [MvRounds -> SUBSET Nodes]
        BY <1>1, AddedNode, AgreementsAssumption DEF MvTypeOK
    <2> QED
        BY <1>1, <2>1, <2>2 DEF MvTypeOK
<1>4. MessageOnce'
    BY <1>1, <1>2, AgreementsAssumption DEF MessageOnce, MvTypeOK
<1>5. \A r \in MvRounds, q \in Nodes :
          mvMsg[r][q] # None => mvMsg'[r][q] = mvMsg[r][q]
    BY <1>1, <1>2
<1>6. BroadcastFlows'
    <2>1. \A r \in MvRounds : mvS1'[r] \subseteq mvSigned[r]
        BY <1>1 DEF BroadcastFlows, MvTypeOK
    <2>2. \A r \in MvRounds : mvLeader[r] \in Nodes
        BY DEF MvTypeOK
    <2> QED
        BY <1>1, <1>5, <2>1, <2>2 DEF BroadcastFlows
<1>7. VotesFlow'
    <2>1. \A r \in MvRounds : mvS1[r] \subseteq mvS1'[r]
        BY <1>1 DEF MvTypeOK
    <2> QED
        BY <1>1, <2>1 DEF VotesFlow
<1>8. NextMessages'
    <2> SUFFICES ASSUME NEW r \in MvRounds, NEW q \in Nodes,
                        r + 1 \in MvRounds, mvMsg'[r + 1][q] # None
                 PROVE  \/ Votes(r, "no") \in Quorum
                        \/ Elected(r)' # None /\ mvMsg'[r + 1][q] = Elected(r)'
        BY <1>1 DEF NextMessages, Votes
    <2>1. r \in Nat /\ r + 1 # 0
        BY AgreementsAssumption
    <2>2. mvMsg'[r + 1][q] = mvMsg[r + 1][q]
        BY <1>2, <2>1
    <2>3. Elected(r) # None => Elected(r)' = Elected(r)
        BY <1>1, <1>5 DEF Elected, MvTypeOK
    <2> QED
        BY <2>2, <2>3 DEF NextMessages
<1>9. HaltedDecided'
    BY <1>1 DEF HaltedDecided, MvTypeOK
<1>10. DecisionsBacked'
    BY <1>1, <1>5, BackingStays DEF MvTypeOK
<1> QED
    BY <1>3, <1>4, <1>6, <1>7, <1>8, <1>9, <1>10

\* The election without the elected output, and the prevote.
LEMMA ElectAndPrevoteKeeps ==
    ASSUME MvInv, NEW p \in Nodes, Mv!ElectAndPrevote(p)
    PROVE  MvInv'
<1> USE DEF MvInv
<1> DEFINE r == mvRound[p]
           b == IF p \in mvS1[r] THEN "yes" ELSE "no"
<1>1. /\ mvPhase[p] = "spbc"
      /\ mvPhase' = [mvPhase EXCEPT ![p] = "voting"]
      /\ mvPrevote' = [mvPrevote EXCEPT ![r][p] = b]
      /\ UNCHANGED <<mvLeader, mvRound, mvMsg, mvSpbc, mvSigned, mvS1, mvDelivered, mvVote,
                     mvDecision>>
    BY DEF Mv!ElectAndPrevote, Mv!mvSpbcVars
<1>2. r \in MvRounds /\ b \in {"yes", "no"}
    BY DEF MvTypeOK
<1>3. MvTypeOK'
    <2>1. mvPrevote' \in [MvRounds -> [Nodes -> {"yes", "no", None}]]
        BY <1>1, <1>2 DEF MvTypeOK
    <2> QED
        BY <1>1, <2>1 DEF MvTypeOK
<1>4. MessageOnce' /\ BroadcastFlows' /\ NextMessages' /\ HaltedDecided'
    BY <1>1 DEF MessageOnce, BroadcastFlows, NextMessages, HaltedDecided, Votes, Elected, MvTypeOK
<1>5. VotesFlow'
    <2> SUFFICES ASSUME NEW s \in MvRounds, NEW q \in Nodes
                 PROVE  /\ mvPrevote'[s][q] = "yes" => q \in mvS1[s]
                        /\ mvVote[s][q] = "yes" => \E n \in Nodes : mvPrevote'[s][n] = "yes"
        BY <1>1 DEF VotesFlow
    <2>1. \A n \in Nodes : mvPrevote'[s][n] = IF s = r /\ n = p THEN b ELSE mvPrevote[s][n]
        BY <1>1, <1>2 DEF MvTypeOK
    <2>2. \A n \in Nodes : mvPrevote[s][n] = "yes" => n \in mvS1[s]
        BY DEF VotesFlow
    <2> QED
        BY <2>1, <2>2 DEF VotesFlow
<1>6. DecisionsBacked'
    BY <1>1, BackingStays DEF MvTypeOK
<1> QED
    BY <1>3, <1>4, <1>5, <1>6

\* A node votes once in a round.
LEMMA CastVoteKeeps ==
    ASSUME MvInv, NEW p \in Nodes, NEW b \in {"yes", "no"}, Mv!CastVote(p, b)
    PROVE  MvInv'
<1> USE DEF MvInv
<1> DEFINE r == mvRound[p]
<1>1. /\ mvVote[r][p] = None
      /\ b = "yes" => \E q \in Nodes : mvPrevote[r][q] = "yes"
      /\ mvVote' = [mvVote EXCEPT ![r][p] = b]
      /\ UNCHANGED <<mvLeader, mvRound, mvPhase, mvMsg, mvSpbc, mvSigned, mvS1, mvDelivered,
                     mvPrevote, mvDecision>>
    BY DEF Mv!CastVote, Mv!mvSpbcVars, Mv!With
<1>2. r \in MvRounds
    BY DEF MvTypeOK
<1>3. MvTypeOK'
    <2>1. mvVote' \in [MvRounds -> [Nodes -> {"yes", "no", None}]]
        BY <1>1, <1>2 DEF MvTypeOK
    <2> QED
        BY <1>1, <2>1 DEF MvTypeOK
<1>4. \A s \in MvRounds, q \in Nodes :
          mvVote'[s][q] = IF s = r /\ q = p THEN b ELSE mvVote[s][q]
    BY <1>1, <1>2 DEF MvTypeOK
<1>5. \A s \in MvRounds, c \in {"yes", "no"} :
          Votes(s, c) \subseteq Votes(s, c)' /\ Votes(s, c)' \subseteq Nodes
    BY <1>1, <1>4, AgreementsAssumption DEF Votes
<1>6. MessageOnce' /\ BroadcastFlows' /\ HaltedDecided'
    BY <1>1 DEF MessageOnce, BroadcastFlows, HaltedDecided
<1>7. VotesFlow'
    BY <1>1, <1>4 DEF VotesFlow
<1>8. NextMessages'
    <2>1. \A s \in MvRounds : Votes(s, "no") \in Quorum => Votes(s, "no")' \in Quorum
        BY <1>5, QuorumSuperset
    <2> QED
        BY <1>1, <2>1 DEF NextMessages, Elected
<1>9. DecisionsBacked'
    BY <1>1, <1>4, BackingStays, AgreementsAssumption DEF MvTypeOK
<1> QED
    BY <1>3, <1>6, <1>7, <1>8, <1>9

\* The three ways to halt: with the elected output, which N - f nodes signed,
\* on N - f yes votes, or as another node did.
LEMMA HaltKeeps ==
    ASSUME MvInv, NEW p \in Nodes,
           \/ Mv!ElectAndHalt(p)
           \/ Mv!HaltOnVotes(p)
           \/ \E q \in Nodes : Mv!HandleHalt(p, q)
    PROVE  MvInv'
<1> USE DEF MvInv
<1> DEFINE r == mvRound[p]
           Backed(d) ==
               /\ d \in MvDecisions
               /\ d.why = "votes" => /\ Votes(d.round, "yes") \in Quorum
                                     /\ d.value = Elected(d.round) /\ d.value # None
               /\ d.why = "shortcut" => mvSigned[d.round] \in Quorum
<1>1. UNCHANGED <<mvLeader, mvRound, mvMsg, mvSpbc, mvSigned, mvS1, mvDelivered, mvPrevote,
                  mvVote>>
    BY DEF Mv!ElectAndHalt, Mv!HaltOnVotes, Mv!HandleHalt, Mv!mvSpbcVars, Mv!mvVoteVars
<1>2. r \in MvRounds /\ mvLeader[r] \in Nodes /\ Elected(r) \in Nodes \cup {None}
    BY DEF MvTypeOK, Elected
<1>3. PICK d : /\ Backed(d)
               /\ mvPhase' = [mvPhase EXCEPT ![p] = "halted"]
               /\ mvDecision' = [mvDecision EXCEPT ![p] = d]
    <2>1. CASE Mv!ElectAndHalt(p)
        <3> DEFINE d == [value |-> Elected(r), round |-> r, why |-> "shortcut"]
        <3>1. mvSigned[r] \in Quorum
            BY <1>2, <2>1 DEF Mv!ElectAndHalt, BroadcastFlows
        <3>2. Backed(d)
            BY <1>2, <3>1 DEF MvDecisions
        <3>3. /\ mvPhase' = [mvPhase EXCEPT ![p] = "halted"]
              /\ mvDecision' = [mvDecision EXCEPT ![p] = d]
            BY <2>1 DEF Mv!ElectAndHalt, Mv!Decided, Elected
        <3> QED
            BY <3>2, <3>3
    <2>2. CASE Mv!HaltOnVotes(p)
        <3> DEFINE d == [value |-> Elected(r), round |-> r, why |-> "votes"]
        <3>1. Votes(r, "yes") \in Quorum
            BY <2>2, MvNumbers DEF Mv!HaltOnVotes, Mv!With, Votes
        <3>2. PICK q \in Nodes : mvVote[r][q] = "yes"
            BY <3>1, ThreeQuorumsMeet DEF Votes
        <3>3. Elected(r) # None
            BY <1>2, <3>2 DEF VotesFlow, BroadcastFlows, Elected
        <3>4. Backed(d)
            BY <1>2, <3>1, <3>3 DEF MvDecisions
        <3>5. /\ mvPhase' = [mvPhase EXCEPT ![p] = "halted"]
              /\ mvDecision' = [mvDecision EXCEPT ![p] = d]
            BY <2>2 DEF Mv!HaltOnVotes, Mv!Decided, Elected
        <3> QED
            BY <3>4, <3>5
    <2>3. ASSUME NEW q \in Nodes, Mv!HandleHalt(p, q)
          PROVE  \E d : /\ Backed(d)
                        /\ mvPhase' = [mvPhase EXCEPT ![p] = "halted"]
                        /\ mvDecision' = [mvDecision EXCEPT ![p] = d]
        <3> DEFINE d == [value |-> mvDecision[q].value, round |-> r, why |-> "halt"]
        <3>1. mvDecision[q] \in MvDecisions
            BY <2>3 DEF Mv!HandleHalt, HaltedDecided, MvTypeOK
        <3>2. Backed(d)
            BY <1>2, <3>1 DEF MvDecisions
        <3>3. /\ mvPhase' = [mvPhase EXCEPT ![p] = "halted"]
              /\ mvDecision' = [mvDecision EXCEPT ![p] = d]
            BY <2>3 DEF Mv!HandleHalt, Mv!Decided
        <3> QED
            BY <3>2, <3>3
    <2> QED
        BY <2>1, <2>2, <2>3
<1>4. MvTypeOK'
    <2>1. mvDecision' \in [Nodes -> MvDecisions \cup {None}]
        BY <1>3 DEF MvTypeOK
    <2>2. mvPhase' \in [Nodes -> {"input", "spbc", "voting", "halted"}]
        BY <1>3 DEF MvTypeOK
    <2> QED
        BY <1>1, <2>1, <2>2 DEF MvTypeOK
<1>5. \A q \in Nodes : mvDecision'[q] = IF q = p THEN d ELSE mvDecision[q]
    BY <1>3 DEF MvTypeOK
<1>6. MessageOnce' /\ BroadcastFlows' /\ VotesFlow' /\ NextMessages'
    BY <1>1, <1>3 DEF MessageOnce, BroadcastFlows, VotesFlow, NextMessages, Votes, Elected, MvTypeOK
<1>7. HaltedDecided'
    <2>1. \A q \in Nodes \ {p} : mvPhase'[q] = mvPhase[q]
        BY <1>3 DEF MvTypeOK
    <2> QED
        BY <1>3, <1>5, <2>1 DEF HaltedDecided
<1>8. DecisionsBacked'
    <2>1. \A s : Votes(s, "yes")' = Votes(s, "yes") /\ Elected(s)' = Elected(s)
        BY <1>1 DEF Votes, Elected
    <2>2. \A q \in Nodes : mvDecision[q] # None => Backed(mvDecision[q])
        BY DEF DecisionsBacked, MvTypeOK
    <2>3. \A q \in Nodes : mvDecision'[q] # None => Backed(mvDecision'[q])
        BY <1>3, <1>5, <2>2
    <2> QED
        BY <1>1, <2>1, <2>3 DEF DecisionsBacked
<1> QED
    BY <1>4, <1>6, <1>7, <1>8

\* The next round is entered with the elected message of this one, or after
\* N - f no votes.
LEMMA NextRoundKeeps ==
    ASSUME MvInv, NEW p \in Nodes, Mv!NextOnNo(p) \/ Mv!NextOnBoth(p)
    PROVE  MvInv'
<1> USE DEF MvInv
<1> DEFINE r == mvRound[p]
<1>1. PICK m \in Nodes :
          /\ \/ Votes(r, "no") \in Quorum
             \/ Elected(r) # None /\ m = Elected(r)
          /\ r + 1 \in MvRounds
          /\ mvRound' = [mvRound EXCEPT ![p] = r + 1]
          /\ mvPhase' = [mvPhase EXCEPT ![p] = "spbc"]
          /\ mvMsg' = [mvMsg EXCEPT ![r + 1][p] = m]
          /\ UNCHANGED <<mvLeader, mvSpbc, mvSigned, mvS1, mvDelivered, mvPrevote, mvVote,
                         mvDecision>>
    <2>1. CASE Mv!NextOnNo(p)
        BY <2>1, MvNumbers DEF Mv!NextOnNo, Mv!NextRound, Mv!With, Votes, Mv!mvVoteVars
    <2>2. CASE Mv!NextOnBoth(p)
        <3>1. \E q \in Nodes : mvVote[r][q] = "yes"
            BY <2>2 DEF Mv!NextOnBoth, Mv!With
        <3>2. r \in MvRounds /\ mvLeader[r] \in Nodes
            BY DEF MvTypeOK
        <3>3. Elected(r) # None /\ Elected(r) \in Nodes
            BY <3>1, <3>2 DEF VotesFlow, BroadcastFlows, Elected, MvTypeOK
        <3>4. Mv!NextRound(p, Elected(r))
            BY <2>2 DEF Mv!NextOnBoth, Mv!BothMsg, Elected
        <3> QED
            BY <3>3, <3>4 DEF Mv!NextRound, Mv!mvVoteVars
    <2> QED
        BY <2>1, <2>2
<1>2. r \in MvRounds /\ r \in Nat /\ r + 1 \in Nat
    <2>1. r \in MvRounds
        BY DEF MvTypeOK
    <2>2. \A s \in MvRounds : s \in Nat /\ s + 1 \in Nat
        BY AgreementsAssumption
    <2> QED
        BY <2>1, <2>2
<1>3. \A s \in MvRounds, q \in Nodes :
          mvMsg'[s][q] = IF s = r + 1 /\ q = p THEN m ELSE mvMsg[s][q]
    BY <1>1 DEF MvTypeOK
<1>4. mvMsg[r + 1][p] = None
    BY <1>1, <1>2 DEF MessageOnce
<1>5. \A s \in MvRounds, q \in Nodes :
          mvMsg[s][q] # None => mvMsg'[s][q] = mvMsg[s][q]
    BY <1>3, <1>4
<1>6. MvTypeOK'
    <2>1. mvMsg' \in [MvRounds -> [Nodes -> Nodes \cup {None}]]
        BY <1>1 DEF MvTypeOK
    <2>2. mvRound' \in [Nodes -> MvRounds]
        BY <1>1 DEF MvTypeOK
    <2> QED
        BY <1>1, <2>1, <2>2 DEF MvTypeOK
<1>7. MessageOnce'
    <2> SUFFICES ASSUME NEW q \in Nodes
                 PROVE  /\ mvPhase'[q] = "input" => mvRound'[q] = 0 /\ mvMsg'[0][q] = None
                        /\ \A s \in MvRounds : s > mvRound'[q] => mvMsg'[s][q] = None
        BY DEF MessageOnce
    <2>1. CASE q = p
        <3>1. mvPhase'[q] = "spbc" /\ mvRound'[q] = r + 1
            BY <1>1, <2>1 DEF MvTypeOK
        <3>2. ASSUME NEW s \in MvRounds, s > r + 1
              PROVE  mvMsg'[s][q] = None
            BY <1>2, <1>3, <2>1, <3>2, AgreementsAssumption DEF MessageOnce
        <3> QED
            BY <3>1, <3>2
    <2>2. CASE q # p
        BY <1>1, <1>3, <2>2, AgreementsAssumption DEF MessageOnce, MvTypeOK
    <2> QED
        BY <2>1, <2>2
<1>8. BroadcastFlows'
    <2>1. \A s \in MvRounds : mvLeader[s] \in Nodes
        BY DEF MvTypeOK
    <2> QED
        BY <1>1, <1>5, <2>1 DEF BroadcastFlows
<1>9. VotesFlow'
    BY <1>1 DEF VotesFlow
<1>10. NextMessages'
    <2> SUFFICES ASSUME NEW s \in MvRounds, NEW q \in Nodes,
                        s + 1 \in MvRounds, mvMsg'[s + 1][q] # None
                 PROVE  \/ Votes(s, "no") \in Quorum
                        \/ Elected(s)' # None /\ mvMsg'[s + 1][q] = Elected(s)'
        BY <1>1 DEF NextMessages, Votes
    <2>1. Elected(s) # None => Elected(s)' = Elected(s)
        BY <1>1, <1>5 DEF Elected, MvTypeOK
    <2>2. CASE s = r /\ q = p
        <3>1. mvMsg'[s + 1][q] = m
            BY <1>3, <2>2
        <3> QED
            BY <1>1, <2>1, <2>2, <3>1
    <2>3. CASE ~ (s = r /\ q = p)
        <3>1. s \in Nat /\ ~ (s + 1 = r + 1 /\ q = p)
            BY <1>2, <2>3, AgreementsAssumption
        <3>2. mvMsg'[s + 1][q] = mvMsg[s + 1][q]
            BY <1>3, <3>1
        <3> QED
            BY <2>1, <3>2 DEF NextMessages
    <2> QED
        BY <2>2, <2>3
<1>11. HaltedDecided'
    BY <1>1 DEF HaltedDecided, MvTypeOK
<1>12. DecisionsBacked'
    BY <1>1, <1>5, BackingStays DEF MvTypeOK
<1> QED
    BY <1>6, <1>7, <1>8, <1>9, <1>10, <1>11, <1>12

\* Every step of speedmvba keeps the invariant.
LEMMA MvStepInv == MvInv /\ [Mv!MvNext]_Mv!mvVars => MvInv'
<1> SUFFICES ASSUME MvInv, [Mv!MvNext]_Mv!mvVars
             PROVE  MvInv'
    OBVIOUS
<1>1. CASE UNCHANGED Mv!mvVars
    <2>1. UNCHANGED <<mvLeader, mvRound, mvPhase, mvMsg, mvSpbc, mvSigned, mvS1, mvDelivered,
                      mvPrevote, mvVote, mvDecision>>
        BY <1>1 DEF Mv!mvVars, Mv!mvSpbcVars, Mv!mvVoteVars
    <2>2. MvTypeOK' /\ MessageOnce'
        BY <2>1 DEF MvInv, MvTypeOK, MessageOnce
    <2>3. BroadcastFlows' /\ VotesFlow'
        BY <2>1 DEF MvInv, BroadcastFlows, VotesFlow
    <2>4. NextMessages' /\ HaltedDecided'
        BY <2>1 DEF MvInv, NextMessages, HaltedDecided, Votes, Elected
    <2>5. DecisionsBacked'
        BY <2>1 DEF MvInv, DecisionsBacked, Votes, Elected
    <2> QED
        BY <2>2, <2>3, <2>4, <2>5 DEF MvInv
<1>2. PICK n : n \in Nodes
    BY FaultNumbers, NodeSets, FS_EmptySet DEF N
<1>3. ASSUME NEW r \in MvRounds, Mv!SpbcReady(r) \/ Mv!SpbcDone(r)
      PROVE  MvInv'
    BY <1>2, <1>3, BroadcastKeeps
<1>4. ASSUME NEW p \in Nodes,
             \/ Mv!MvInput(p)
             \/ \E r \in MvRounds : Mv!SpbcSign(p, r) \/ Mv!SpbcDeliver(p, r)
             \/ Mv!ElectAndHalt(p)
             \/ Mv!ElectAndPrevote(p)
             \/ \E b \in {"yes", "no"} : Mv!CastVote(p, b)
             \/ Mv!HaltOnVotes(p)
             \/ Mv!NextOnNo(p)
             \/ Mv!NextOnBoth(p)
             \/ \E q \in Nodes : Mv!HandleHalt(p, q)
      PROVE  MvInv'
    BY <1>4, InputKeeps, BroadcastKeeps, ElectAndPrevoteKeeps, CastVoteKeeps, HaltKeeps,
       NextRoundKeeps
<1> QED
    BY <1>1, <1>3, <1>4 DEF Mv!MvNext

\* N - f yes votes and N - f no votes exclude each other.
LEMMA MvInvHalts == MvInv => Mv!HaltsLeaveTheirMark
<1> SUFFICES ASSUME MvInv
             PROVE  Mv!HaltsLeaveTheirMark
    OBVIOUS
<1> USE DEF MvInv
<1>1. Mv!VotedValueCarried
    <2> SUFFICES ASSUME NEW p \in Nodes, NEW q \in Nodes,
                        mvDecision[p] # None,
                        mvDecision[p].why = "votes",
                        mvDecision[p].round + 1 \in MvRounds,
                        mvMsg[mvDecision[p].round + 1][q] # None
                 PROVE  mvMsg[mvDecision[p].round + 1][q] = mvDecision[p].value
        BY DEF Mv!VotedValueCarried
    <2> DEFINE r == mvDecision[p].round
    <2>1. r \in MvRounds
        BY DEF MvTypeOK, MvDecisions
    <2>2. Votes(r, "yes") \in Quorum /\ mvDecision[p].value = Elected(r)
        BY DEF DecisionsBacked
    <2>3. Votes(r, "no") \notin Quorum
        <3> SUFFICES ASSUME Votes(r, "no") \in Quorum PROVE FALSE
            OBVIOUS
        <3>1. \E n \in Nodes : n \in Votes(r, "yes") /\ n \in Votes(r, "no")
            BY <2>2, ThreeQuorumsMeet
        <3> QED
            BY <3>1 DEF Votes
    <2> QED
        BY <2>1, <2>2, <2>3 DEF NextMessages
<1>2. Mv!HaltIsCertified
    BY MvNumbers DEF Mv!HaltIsCertified, DecisionsBacked
<1> QED
    BY <1>1, <1>2 DEF Mv!HaltsLeaveTheirMark
-----------------------------------------------------------------------------
(***************************************************************************)
(* BinaryAgreement.  What a node takes to the next round was a CONF, and   *)
(* so the EST of more than f nodes; at most one single value is confirmed  *)
(* in a round, since a node sends one CONF and two quorums meet.  If it is *)
(* the coin, it is decided, and it is the only estimate of the next round. *)
(* An only estimate stays the only one in all later rounds, whatever the   *)
(* coins; and no value comes into play that f + 1 nodes did not input.     *)
(***************************************************************************)
BaCoins == 0 .. Ba!BaLast

BaTypeOK ==
    /\ Ba!BaLast \in Nat /\ Ba!BaInputs \subseteq {0, 1}
    /\ baInput \in [Nodes -> {0, 1, None}]
    /\ baRound \in [Nodes -> Ba!BaRounds]
    /\ baPc \in [Nodes -> {"input", "bin", "aux", "conf", "coin"}]
    /\ baEst \in [Ba!BaRounds -> [Nodes -> SUBSET {0, 1}]]
    /\ baBin \in [Ba!BaRounds -> [Nodes -> SUBSET {0, 1}]]
    /\ baConf \in [Ba!BaRounds -> [Nodes -> SUBSET {0, 1}]]
    /\ baValues \in [Nodes -> SUBSET {0, 1}]
    /\ baCoin \in [BaCoins -> {0, 1}]
    /\ baDecision \in [Nodes -> {0, 1, None}]

\* A node has no input before its first round.
InputOnce == \A p \in Nodes : baPc[p] = "input" => baInput[p] = None /\ baRound[p] = 0

\* A node sends one CONF in a round.
ConfirmOnce ==
    \A p \in Nodes, r \in Ba!BaRounds :
        \/ r > baRound[p]
        \/ r = baRound[p] /\ baPc[p] \in {"input", "bin", "aux"}
        => baConf[r][p] = {}

\* More than f nodes sent the value in the round.
Backed(r, v) == Cardinality(Ba!EstSenders(r, v)) >= F + 1

BinsBacked ==
    \A p \in Nodes, r \in Ba!BaRounds :
        /\ baConf[r][p] \subseteq baBin[r][p]
        /\ \A v \in baBin[r][p] : Backed(r, v)

\* A quorum confirmed the single value.
Single(r, v) == {q \in Nodes : baConf[r][q] = {v}} \in Quorum

ValuesConfirmed ==
    \A p \in Nodes : baPc[p] = "coin" =>
        /\ \A v \in baValues[p] : \E q \in Nodes : v \in baConf[baRound[p]][q]
        /\ \A v \in {0, 1} : baValues[p] = {v} => Single(baRound[p], v)

\* An estimate of the next round is the coin, or was confirmed.
EstimatesFollow ==
    \A r \in BaCoins, p \in Nodes : \A v \in baEst[r + 1][p] :
        v = baCoin[r] \/ Single(r, v)

Only(r, v) == \A p \in Nodes : baEst[r][p] \subseteq {v}

\* An only estimate stays the only one.
OnlyStays ==
    \A r, s \in Ba!BaRounds, v \in {0, 1} : r <= s /\ Only(r, v) => Only(s, v)

BaInputsOf(v) == {q \in Nodes : baInput[q] = v}

\* A value with f inputs or less is sent only by those who have it as input.
InputsBehind ==
    \A v \in {0, 1} :
        \/ Cardinality(BaInputsOf(v)) >= F + 1
        \/ /\ Ba!EstSenders(0, v) \subseteq BaInputsOf(v)
           /\ \A r \in Ba!BaRounds \ {0} : Ba!EstSenders(r, v) = {}

\* A decision is the coin of an earlier round, confirmed as the single value.
DecidedOnCoin ==
    \A p \in Nodes : baDecision[p] # None =>
        \E r \in BaCoins :
            r < baRound[p] /\ baDecision[p] = baCoin[r] /\ Single(r, baCoin[r])

BaInv ==
    /\ BaTypeOK
    /\ InputOnce
    /\ ConfirmOnce
    /\ BinsBacked
    /\ ValuesConfirmed
    /\ EstimatesFollow
    /\ OnlyStays
    /\ InputsBehind
    /\ DecidedOnCoin

\* Quorums are the same sets in BinaryAgreement and here.
LEMMA BaNumbers ==
    /\ Ba!N = N
    /\ Ba!Quorum = Quorum
    /\ \A S : Ba!Cardinality(S) = Cardinality(S)
<1>1. \A S : Ba!Cardinality(S) = Cardinality(S)
    BY DEF Ba!Cardinality, Cardinality
<1>2. Ba!N = N
    BY <1>1 DEF Ba!N, N
<1> QED
    BY <1>1, <1>2 DEF Ba!Quorum, Quorum

\* The rounds are 0 .. BaLast + 1, and all but the last have a coin.
LEMMA BaRoundNumbers ==
    ASSUME BaTypeOK
    PROVE  /\ Ba!BaLast \in Nat
           /\ Ba!BaRounds = 0 .. Ba!BaLast + 1
           /\ 0 \in Ba!BaRounds
           /\ \A r \in Ba!BaRounds : r \in Nat
           /\ \A r \in BaCoins : r \in Nat /\ r \in Ba!BaRounds /\ r + 1 \in Ba!BaRounds
           /\ \A r \in Ba!BaRounds : r <= Ba!BaLast => r \in BaCoins
           /\ \A r \in Ba!BaRounds \ {0} : r - 1 \in BaCoins /\ (r - 1) + 1 = r
BY DEF BaTypeOK, BaCoins, Ba!BaRounds

\* One single value is confirmed in a round.
LEMMA SingleOnce ==
    ASSUME NEW r, NEW v, NEW w, Single(r, v), Single(r, w)
    PROVE  v = w
<1>1. \E q \in Nodes : /\ q \in {x \in Nodes : baConf[r][x] = {v}}
                       /\ q \in {x \in Nodes : baConf[r][x] = {w}}
    BY ThreeQuorumsMeet DEF Single
<1> QED
    BY <1>1

\* A value more than f nodes sent was sent by some node.
LEMMA BackedSent ==
    ASSUME NEW r, NEW v, Backed(r, v)
    PROVE  \E q \in Nodes : v \in baEst[r][q]
<1>1. Ba!EstSenders(r, v) # {}
    BY FaultNumbers, FS_EmptySet DEF Backed
<1> QED
    BY <1>1 DEF Ba!EstSenders

\* A value with 2f + 1 ESTs was the input of f + 1 nodes, in whatever round it is.
LEMMA BackedHasInputs ==
    ASSUME BaInv, NEW r \in Ba!BaRounds, NEW v \in {0, 1}, Backed(r, v)
    PROVE  Cardinality(BaInputsOf(v)) >= F + 1
<1>1. CASE /\ Ba!EstSenders(0, v) \subseteq BaInputsOf(v)
           /\ \A x \in Ba!BaRounds \ {0} : Ba!EstSenders(x, v) = {}
    <2>1. r = 0
        BY <1>1, BackedSent DEF Ba!EstSenders
    <2>2. BaInputsOf(v) \in SUBSET Nodes
        BY DEF BaInputsOf
    <2>3. Cardinality(Ba!EstSenders(0, v)) <= Cardinality(BaInputsOf(v))
        BY <1>1, <2>2, NodeSets
    <2>4. Cardinality(Ba!EstSenders(0, v)) \in Nat /\ Cardinality(BaInputsOf(v)) \in Nat
        BY <1>1, <2>2, NodeSets
    <2> QED
        BY <2>1, <2>3, <2>4, FaultNumbers DEF Backed
<1> QED
    BY <1>1 DEF BaInv, InputsBehind

\* What a node takes on from the CONF phase of a round.
LEMMA ValuesBacked ==
    ASSUME BaInv, NEW p \in Nodes, baPc[p] = "coin", NEW v \in baValues[p]
    PROVE  v \in {0, 1} /\ Backed(baRound[p], v)
<1>1. v \in {0, 1} /\ baRound[p] \in Ba!BaRounds
    BY DEF BaInv, BaTypeOK
<1>2. PICK q \in Nodes : v \in baConf[baRound[p]][q]
    BY DEF BaInv, ValuesConfirmed
<1> QED
    BY <1>1, <1>2 DEF BaInv, BinsBacked

EstimateAdded(p, r, v) == baEst' = [baEst EXCEPT ![r][p] = @ \cup {v}]

\* What EstimateAdded leaves of every other estimate.
LEMMA EstimateAddedAt ==
    ASSUME BaTypeOK, NEW p \in Nodes, NEW r \in Ba!BaRounds, NEW v \in {0, 1},
           EstimateAdded(p, r, v)
    PROVE  /\ baEst' \in [Ba!BaRounds -> [Nodes -> SUBSET {0, 1}]]
           /\ \A s \in Ba!BaRounds, q \in Nodes :
                 baEst'[s][q] = IF s = r /\ q = p THEN baEst[s][q] \cup {v} ELSE baEst[s][q]
<1> DEFINE f == [baEst[r] EXCEPT ![p] = @ \cup {v}]
<1>1. baEst \in [Ba!BaRounds -> [Nodes -> SUBSET {0, 1}]]
    BY DEF BaTypeOK
<1>2. baEst[r] \in [Nodes -> SUBSET {0, 1}] /\ baEst[r][p] \cup {v} \in SUBSET {0, 1}
    BY <1>1
<1>3. f \in [Nodes -> SUBSET {0, 1}]
    BY <1>2
<1>4. \A q \in Nodes : f[q] = IF q = p THEN baEst[r][q] \cup {v} ELSE baEst[r][q]
    BY <1>2
<1>5. baEst' = [baEst EXCEPT ![r] = f]
    BY DEF EstimateAdded
<1> HIDE DEF f
<1> QED
    BY <1>1, <1>3, <1>4, <1>5

\* A value that may be the estimate of the round.
Follows(r, v) == r # 0 => v = baCoin[r - 1] \/ Single(r - 1, v)

\* Which values are confirmed depends on the CONFs alone.
LEMMA SingleSame ==
    ASSUME UNCHANGED baConf
    PROVE  \A r, v : Single(r, v)' <=> Single(r, v)
BY DEF Single

\* What an unchanged CONF and coin leave of the parts about them.
LEMMA ConfirmedSame ==
    ASSUME BaInv, UNCHANGED <<baScope, baConf, baCoin, baValues, baDecision>>,
           \A p \in Nodes : baPc'[p] = "coin" => baPc[p] = "coin" /\ baRound'[p] = baRound[p],
           \A p \in Nodes : baDecision[p] # None => baRound'[p] >= baRound[p],
           \A p \in Nodes : baRound'[p] \in Nat
    PROVE  ValuesConfirmed' /\ DecidedOnCoin'
<1>1. UNCHANGED BaCoins
    BY DEF BaCoins, Ba!BaLast
<1>2. ValuesConfirmed'
    <2> SUFFICES ASSUME NEW p \in Nodes, baPc'[p] = "coin"
                 PROVE  /\ \A v \in baValues[p] : \E q \in Nodes : v \in baConf[baRound[p]][q]
                        /\ \A v \in {0, 1} : baValues[p] = {v} => Single(baRound[p], v)
        BY DEF ValuesConfirmed, Single
    <2> QED
        BY DEF BaInv, ValuesConfirmed
<1>3. DecidedOnCoin'
    <2> SUFFICES ASSUME NEW p \in Nodes, baDecision[p] # None
                 PROVE  \E r \in BaCoins :
                          r < baRound'[p] /\ baDecision[p] = baCoin[r] /\ Single(r, baCoin[r])
        BY <1>1 DEF DecidedOnCoin, Single
    <2>1. PICK r \in BaCoins :
              r < baRound[p] /\ baDecision[p] = baCoin[r] /\ Single(r, baCoin[r])
        BY DEF BaInv, DecidedOnCoin
    <2>2. BaTypeOK
        BY DEF BaInv
    <2>3. r \in Nat /\ baRound[p] \in Nat
        BY <2>2, BaRoundNumbers DEF BaTypeOK
    <2>4. r < baRound'[p]
        BY <2>1, <2>3
    <2> QED
        BY <2>1, <2>4
<1> QED
    BY <1>2, <1>3

\* A new estimate is harmless if it is the input of its node in round 0, or one
\* that more than f nodes input, that any only estimate before it equals, and
\* that follows from the round before.
LEMMA EstimateKeeps ==
    ASSUME BaInv, NEW p \in Nodes, NEW r \in Ba!BaRounds, NEW v \in {0, 1},
           EstimateAdded(p, r, v),
           UNCHANGED <<baScope, baBin, baConf, baCoin>>,
           \A u \in {0, 1} : BaInputsOf(u) \subseteq BaInputsOf(u)',
           \A s \in Ba!BaRounds, u \in {0, 1} : s < r /\ Only(s, u) => v = u,
           Follows(r, v),
           Cardinality(BaInputsOf(v)) >= F + 1 \/ (r = 0 /\ baInput'[p] = v)
    PROVE  BinsBacked' /\ EstimatesFollow' /\ OnlyStays' /\ InputsBehind'
<1>0. BaTypeOK
    BY DEF BaInv
<1>1. \A s \in Ba!BaRounds, q \in Nodes :
          baEst'[s][q] = IF s = r /\ q = p THEN baEst[s][q] \cup {v} ELSE baEst[s][q]
    BY <1>0, EstimateAddedAt DEF EstimateAdded
<1> USE DEF BaInv
<1>1a. ASSUME NEW t \in Ba!BaRounds, NEW q \in Nodes, NEW u, u \in baEst'[t][q]
       PROVE  u \in baEst[t][q] \/ (t = r /\ u = v)
    <2>1. baEst'[t][q] = IF t = r /\ q = p THEN baEst[t][q] \cup {v} ELSE baEst[t][q]
        BY <1>1
    <2>2. CASE t = r /\ q = p
        BY <1>1a, <2>1, <2>2
    <2>3. CASE ~ (t = r /\ q = p)
        <3>1. baEst'[t][q] = baEst[t][q]
            BY <2>1, <2>3
        <3> QED
            BY <1>1a, <3>1
    <2> QED
        BY <2>2, <2>3
<1>2. UNCHANGED Ba!BaRounds /\ UNCHANGED BaCoins
    BY DEF Ba!BaRounds, BaCoins, Ba!BaLast
<1>3. BinsBacked'
    <2>1. ASSUME NEW s \in Ba!BaRounds, NEW u \in {0, 1}, Backed(s, u)
          PROVE  Backed(s, u)'
        <3>1. Ba!EstSenders(s, u) \subseteq Ba!EstSenders(s, u)' /\ Ba!EstSenders(s, u)' \in SUBSET Nodes
            BY <1>1 DEF Ba!EstSenders
        <3>2. /\ Cardinality(Ba!EstSenders(s, u)) <= Cardinality(Ba!EstSenders(s, u)')
              /\ Cardinality(Ba!EstSenders(s, u)) \in Nat
              /\ Cardinality(Ba!EstSenders(s, u)') \in Nat
            BY <3>1, NodeSets
        <3> QED
            BY <2>1, <3>2, FaultNumbers DEF Backed
    <2>2. \A q \in Nodes, s \in Ba!BaRounds : baBin[s][q] \subseteq {0, 1}
        BY DEF BaTypeOK
    <2> QED
        BY <1>2, <2>1, <2>2 DEF BinsBacked
<1>4. EstimatesFollow'
    <2>0. ASSUME NEW s, NEW u
          PROVE  Single(s, u)' <=> Single(s, u)
        BY DEF Single
    <2> SUFFICES ASSUME NEW s \in BaCoins, NEW q \in Nodes, NEW u \in baEst'[s + 1][q]
                 PROVE  u = baCoin[s] \/ Single(s, u)
        BY <1>2, <2>0 DEF EstimatesFollow
    <2>1. s \in Nat /\ s + 1 \in Ba!BaRounds /\ (s + 1) - 1 = s /\ s + 1 # 0
        BY BaRoundNumbers
    <2>2. u \in baEst[s + 1][q] \/ (s + 1 = r /\ u = v)
        BY <1>1a, <2>1
    <2>3. CASE u \in baEst[s + 1][q]
        BY <2>3 DEF EstimatesFollow
    <2>4. CASE s + 1 = r /\ u = v
        <3>1. s = r - 1 /\ r # 0
            BY <2>1, <2>4
        <3>2. v = baCoin[s] \/ Single(s, v)
            BY <3>1 DEF Follows
        <3> QED
            BY <2>4, <3>2
    <2> QED
        BY <2>2, <2>3, <2>4
<1>5. OnlyStays'
    <2> SUFFICES ASSUME NEW x \in Ba!BaRounds, NEW s \in Ba!BaRounds, NEW u \in {0, 1},
                        x <= s, Only(x, u)', NEW q \in Nodes
                 PROVE  baEst'[s][q] \subseteq {u}
        BY <1>2 DEF OnlyStays, Only
    <2>1. Only(x, u)
        BY <1>1 DEF Only
    <2>2. baEst[s][q] \subseteq {u}
        BY <2>1 DEF OnlyStays, Only
    <2>3. CASE s = r /\ x < r
        BY <1>1, <2>1, <2>2, <2>3
    <2>4. CASE s = r /\ ~ x < r
        <3>1. x = s
            BY <2>4, BaRoundNumbers
        <3> QED
            BY <3>1 DEF Only
    <2>5. CASE s # r
        BY <1>1, <2>2, <2>5
    <2> QED
        BY <2>3, <2>4, <2>5
<1>6. InputsBehind'
    <2> SUFFICES ASSUME NEW u \in {0, 1},
                        ~ Cardinality(BaInputsOf(u)') >= F + 1
                 PROVE  /\ Ba!EstSenders(0, u)' \subseteq BaInputsOf(u)'
                        /\ \A s \in Ba!BaRounds \ {0} : Ba!EstSenders(s, u)' = {}
        BY <1>2 DEF InputsBehind
    <2>1. ~ Cardinality(BaInputsOf(u)) >= F + 1
        <3>1. BaInputsOf(u)' \in SUBSET Nodes /\ BaInputsOf(u) \subseteq BaInputsOf(u)'
            BY DEF BaInputsOf
        <3>2. /\ Cardinality(BaInputsOf(u)) <= Cardinality(BaInputsOf(u)')
              /\ Cardinality(BaInputsOf(u)) \in Nat
              /\ Cardinality(BaInputsOf(u)') \in Nat
            BY <3>1, NodeSets
        <3> QED
            BY <3>2, FaultNumbers
    <2>2. /\ Ba!EstSenders(0, u) \subseteq BaInputsOf(u)
          /\ \A s \in Ba!BaRounds \ {0} : Ba!EstSenders(s, u) = {}
        BY <2>1 DEF InputsBehind
    <2>3. u = v => r = 0 /\ p \in BaInputsOf(u)'
        BY <2>1 DEF BaInputsOf
    <2>4. \A s \in Ba!BaRounds :
              Ba!EstSenders(s, u)' \subseteq
                  Ba!EstSenders(s, u) \cup (IF s = r /\ u = v THEN {p} ELSE {})
        BY <1>1 DEF Ba!EstSenders
    <2>5. 0 \in Ba!BaRounds
        BY BaRoundNumbers
    <2> QED
        BY <2>2, <2>3, <2>4, <2>5
<1> QED
    BY <1>3, <1>4, <1>5, <1>6

\* No estimate, no confirmation and no decision at the start.
LEMMA BaInitInv == Ba!BaInit => BaInv
<1> SUFFICES ASSUME Ba!BaInit
             PROVE  BaInv
    OBVIOUS
<1> USE DEF Ba!BaInit
<1>1. Ba!BaLast \in Nat /\ Ba!BaInputs \subseteq {0, 1}
    <2>1. /\ baScope \in BaScopes
          /\ BaMixedLast \in Nat /\ BaEqualLast \in Nat
        BY AgreementsAssumption
    <2> QED
        BY <2>1 DEF BaScopes, Ba!BaLast, Ba!BaInputs
<1>2. 0 \in Ba!BaRounds
    BY <1>1 DEF Ba!BaRounds
<1>3. BaTypeOK
    BY <1>1, <1>2 DEF BaTypeOK, BaCoins, Ba!BaBits
<1>4. \A r \in BaCoins : r + 1 \in Ba!BaRounds
    BY <1>3, BaRoundNumbers
<1>5. \A r \in Ba!BaRounds, q \in Nodes : baEst[r][q] = {} /\ baBin[r][q] = {} /\ baConf[r][q] = {}
    OBVIOUS
<1>6. InputOnce /\ ConfirmOnce /\ BinsBacked /\ ValuesConfirmed /\ DecidedOnCoin
    BY <1>5 DEF InputOnce, ConfirmOnce, BinsBacked, ValuesConfirmed, DecidedOnCoin
<1>7. EstimatesFollow /\ OnlyStays
    BY <1>4, <1>5 DEF EstimatesFollow, OnlyStays, Only
<1>8. InputsBehind
    BY <1>2, <1>5 DEF InputsBehind, Ba!EstSenders
<1> QED
    BY <1>3, <1>6, <1>7, <1>8 DEF BaInv

\* The first estimate of a node is its input.
LEMMA ProposeKeeps ==
    ASSUME BaInv, NEW p \in Nodes, NEW v \in {0, 1}, Ba!BaPropose(p, v)
    PROVE  BaInv'
<1> USE DEF BaInv
<1>1. /\ baPc[p] = "input" /\ baInput[p] = None /\ baRound[p] = 0
      /\ baInput' = [baInput EXCEPT ![p] = v]
      /\ baRound' = [baRound EXCEPT ![p] = 0]
      /\ baPc' = [baPc EXCEPT ![p] = "bin"]
      /\ EstimateAdded(p, 0, v)
      /\ UNCHANGED <<baScope, baBin, baConf, baValues, baCoin, baDecision>>
    BY DEF Ba!BaPropose, Ba!InputDue, Ba!StartRound, EstimateAdded, InputOnce
<1>2. BaTypeOK /\ 0 \in Ba!BaRounds /\ \A r \in BaCoins : r \in Nat
    BY BaRoundNumbers
<1>3. UNCHANGED Ba!BaRounds /\ UNCHANGED BaCoins /\ UNCHANGED Ba!BaLast
      /\ UNCHANGED Ba!BaInputs
    BY <1>1 DEF Ba!BaRounds, BaCoins, Ba!BaLast, Ba!BaInputs
<1>4. BaTypeOK'
    <2>1. baEst' \in [Ba!BaRounds -> [Nodes -> SUBSET {0, 1}]]
        BY <1>1, <1>2, EstimateAddedAt DEF EstimateAdded
    <2> QED
        BY <1>1, <1>2, <1>3, <2>1 DEF BaTypeOK
<1>5. InputOnce' /\ ConfirmOnce'
    <2>1. InputOnce'
        BY <1>1 DEF InputOnce, BaTypeOK
    <2>2. ConfirmOnce'
        BY <1>1, <1>3 DEF ConfirmOnce, BaTypeOK
    <2> QED
        BY <2>1, <2>2
<1>6. ValuesConfirmed' /\ DecidedOnCoin'
    <2>1. \A q \in Nodes : baPc'[q] = "coin" => baPc[q] = "coin" /\ baRound'[q] = baRound[q]
        BY <1>1 DEF BaTypeOK
    <2>2. \A q \in Nodes : baRound'[q] = baRound[q] /\ baRound[q] \in Nat
        BY <1>1, <1>2, BaRoundNumbers DEF BaTypeOK
    <2>3. \A q \in Nodes : baRound'[q] >= baRound[q] /\ baRound'[q] \in Nat
        BY <2>2
    <2> QED
        BY <1>1, <2>1, <2>3, ConfirmedSame
<1>7. BinsBacked' /\ EstimatesFollow' /\ OnlyStays' /\ InputsBehind'
    <2>1. \A u \in {0, 1} : BaInputsOf(u) \subseteq BaInputsOf(u)'
        <3>1. \A q \in Nodes : baInput[q] # None => baInput'[q] = baInput[q]
            BY <1>1 DEF BaTypeOK
        <3> QED
            BY <3>1, AgreementsAssumption DEF BaInputsOf
    <2>2. \A s \in Ba!BaRounds, u \in {0, 1} : ~ s < 0
        BY BaRoundNumbers
    <2>3. baInput'[p] = v /\ Follows(0, v)
        BY <1>1 DEF BaTypeOK, Follows
    <2> QED
        BY <1>1, <1>2, <2>1, <2>2, <2>3, EstimateKeeps DEF EstimateAdded
<1> QED
    BY <1>4, <1>5, <1>6, <1>7

\* A relayed estimate already had f + 1 senders, so inputs were behind it.
LEMMA RelayKeeps ==
    ASSUME BaInv, NEW p \in Nodes, NEW r \in BaCoins, NEW v \in {0, 1}, Ba!Relay(p, r, v)
    PROVE  BaInv'
<1> USE DEF BaInv
<1>1. /\ EstimateAdded(p, r, v)
      /\ UNCHANGED <<baScope, baInput, baRound, baPc, baBin, baConf, baValues, baCoin,
                     baDecision>>
    BY DEF Ba!Relay, EstimateAdded
<1>2. BaTypeOK /\ r \in Ba!BaRounds /\ r \in Nat
      /\ (r # 0 => r - 1 \in BaCoins /\ (r - 1) + 1 = r)
    BY BaRoundNumbers
<1>3. Backed(r, v)
    BY BaNumbers DEF Ba!Relay, Ba!RelayDue, Backed, Ba!RelayThreshold
<1>4. PICK from \in Nodes : v \in baEst[r][from]
    BY <1>3, BackedSent
<1>5. UNCHANGED Ba!BaRounds /\ UNCHANGED BaCoins /\ UNCHANGED Ba!BaLast
      /\ UNCHANGED Ba!BaInputs
    BY <1>1 DEF Ba!BaRounds, BaCoins, Ba!BaLast, Ba!BaInputs
<1>6. BaTypeOK'
    <2>1. baEst' \in [Ba!BaRounds -> [Nodes -> SUBSET {0, 1}]]
        BY <1>1, <1>2, EstimateAddedAt DEF EstimateAdded
    <2> QED
        BY <1>1, <1>5, <2>1 DEF BaTypeOK
<1>7. InputOnce' /\ ConfirmOnce' /\ ValuesConfirmed' /\ DecidedOnCoin'
    <2>1. InputOnce' /\ ConfirmOnce'
        BY <1>1, <1>5 DEF InputOnce, ConfirmOnce
    <2>2. \A q \in Nodes : baRound[q] \in Nat
        BY <1>2, BaRoundNumbers DEF BaTypeOK
    <2>3. \A q \in Nodes : baRound'[q] \in Nat /\ baRound'[q] >= baRound[q]
        BY <1>1, <2>2
    <2> QED
        BY <1>1, <2>1, <2>3, ConfirmedSame
<1>8. BinsBacked' /\ EstimatesFollow' /\ OnlyStays' /\ InputsBehind'
    <2>1. \A u \in {0, 1} : BaInputsOf(u) \subseteq BaInputsOf(u)'
        BY <1>1 DEF BaInputsOf
    <2>2. ASSUME NEW s \in Ba!BaRounds, NEW u \in {0, 1}, s < r, Only(s, u)
          PROVE  v = u
        <3>1. s <= r
            BY <1>2, <2>2, BaRoundNumbers
        <3>2. Only(r, u)
            BY <1>2, <2>2, <3>1 DEF OnlyStays
        <3> QED
            BY <1>4, <3>2 DEF Only
    <2>3. Follows(r, v)
        BY <1>2, <1>4 DEF EstimatesFollow, Follows
    <2>4. Cardinality(BaInputsOf(v)) >= F + 1
        BY <1>2, <1>3, BackedHasInputs
    <2>5. \A s \in Ba!BaRounds, u \in {0, 1} : s < r /\ Only(s, u) => v = u
        BY <2>2
    <2> QED
        BY <1>1, <1>2, <2>1, <2>3, <2>4, <2>5, EstimateKeeps DEF EstimateAdded
<1> QED
    BY <1>6, <1>7, <1>8

\* Where no estimate and no input is added and CONFs only stay.
LEMMA EstimatesSame ==
    ASSUME BaInv, UNCHANGED <<baScope, baInput, baEst, baCoin>>,
           \A r \in Ba!BaRounds, v \in {0, 1} : Single(r, v) => Single(r, v)'
    PROVE  EstimatesFollow' /\ OnlyStays' /\ InputsBehind'
<1>1. UNCHANGED Ba!BaRounds /\ UNCHANGED BaCoins
    BY DEF Ba!BaRounds, BaCoins, Ba!BaLast
<1>2. BaTypeOK
    BY DEF BaInv
<1>3. EstimatesFollow'
    <2> SUFFICES ASSUME NEW s \in BaCoins, NEW q \in Nodes, NEW u \in baEst[s + 1][q]
                 PROVE  u = baCoin[s] \/ Single(s, u)'
        BY <1>1 DEF EstimatesFollow
    <2>1. s \in Ba!BaRounds /\ s + 1 \in Ba!BaRounds
        BY <1>2, BaRoundNumbers
    <2>2. u \in {0, 1}
        <3>1. \A t \in Ba!BaRounds : baEst[t][q] \in SUBSET {0, 1}
            BY <1>2 DEF BaTypeOK
        <3> QED
            BY <2>1, <3>1
    <2>3. u = baCoin[s] \/ Single(s, u)
        BY DEF BaInv, EstimatesFollow
    <2> QED
        BY <2>1, <2>2, <2>3
<1>4. OnlyStays' /\ InputsBehind'
    BY <1>1 DEF BaInv, OnlyStays, Only, InputsBehind, Ba!EstSenders, BaInputsOf
<1> QED
    BY <1>3, <1>4

\* What a new bin value leaves of every other one.
LEMMA BinAddedAt ==
    ASSUME BaTypeOK, NEW p \in Nodes, NEW r \in Ba!BaRounds, NEW v \in {0, 1},
           baBin' = [baBin EXCEPT ![r][p] = @ \cup {v}]
    PROVE  /\ baBin' \in [Ba!BaRounds -> [Nodes -> SUBSET {0, 1}]]
           /\ \A s \in Ba!BaRounds, q \in Nodes :
                 baBin'[s][q] = IF s = r /\ q = p THEN baBin[s][q] \cup {v} ELSE baBin[s][q]
<1> DEFINE f == [baBin[r] EXCEPT ![p] = @ \cup {v}]
<1>1. baBin[r] \in [Nodes -> SUBSET {0, 1}]
    BY DEF BaTypeOK
<1>2. baBin[r][p] \cup {v} \in SUBSET {0, 1}
    BY <1>1
<1>3. f \in [Nodes -> SUBSET {0, 1}]
    BY <1>1, <1>2
<1>4. \A q \in Nodes : f[q] = IF q = p THEN baBin[r][q] \cup {v} ELSE baBin[r][q]
    BY <1>1
<1>5. baBin' = [baBin EXCEPT ![r] = f] /\ baBin \in [Ba!BaRounds -> [Nodes -> SUBSET {0, 1}]]
    BY DEF BaTypeOK
<1> HIDE DEF f
<1> QED
    BY <1>3, <1>4, <1>5

\* A value enters the bin values only with 2f + 1 senders of its EST.
LEMMA BinKeeps ==
    ASSUME BaInv, NEW p \in Nodes, NEW r \in BaCoins, NEW v \in {0, 1}, Ba!AddBin(p, r, v)
    PROVE  BaInv'
<1>1. /\ baBin' = [baBin EXCEPT ![r][p] = @ \cup {v}]
      /\ UNCHANGED <<baScope, baInput, baRound, baPc, baEst, baConf, baValues, baCoin,
                     baDecision>>
      /\ Ba!Cardinality(Ba!EstSenders(r, v)) >= 2 * F + 1
    BY DEF Ba!AddBin, Ba!BinDue
<1>2. BaTypeOK
    BY DEF BaInv
<1>3. r \in Ba!BaRounds /\ \A q \in Nodes : baRound[q] \in Nat
    BY <1>2, BaRoundNumbers DEF BaTypeOK
<1>4. Backed(r, v)
    <2>1. Cardinality(Ba!EstSenders(r, v)) \in Nat
        <3>1. Ba!EstSenders(r, v) \in SUBSET Nodes
            BY DEF Ba!EstSenders
        <3> QED
            BY <3>1, NodeSets
    <2>2. Cardinality(Ba!EstSenders(r, v)) >= 2 * F + 1
        BY <1>1, BaNumbers
    <2> QED
        BY <2>1, <2>2, FaultNumbers DEF Backed
<1>5. UNCHANGED Ba!BaRounds /\ UNCHANGED BaCoins /\ UNCHANGED Ba!BaLast
      /\ UNCHANGED Ba!BaInputs
    BY <1>1 DEF Ba!BaRounds, BaCoins, Ba!BaLast, Ba!BaInputs
<1>6. /\ baBin' \in [Ba!BaRounds -> [Nodes -> SUBSET {0, 1}]]
      /\ \A s \in Ba!BaRounds, q \in Nodes :
            baBin'[s][q] = IF s = r /\ q = p THEN baBin[s][q] \cup {v} ELSE baBin[s][q]
    BY <1>1, <1>2, <1>3, BinAddedAt
<1>7. BaTypeOK'
    BY <1>1, <1>2, <1>5, <1>6 DEF BaTypeOK
<1>8. BinsBacked'
    <2> SUFFICES ASSUME NEW q \in Nodes, NEW s \in Ba!BaRounds
                 PROVE  /\ baConf[s][q] \subseteq baBin'[s][q]
                        /\ \A u \in baBin'[s][q] : Backed(s, u)
        BY <1>1, <1>5 DEF BinsBacked, Backed, Ba!EstSenders
    <2>1. /\ baConf[s][q] \subseteq baBin[s][q]
          /\ \A u \in baBin[s][q] : Backed(s, u)
        BY DEF BaInv, BinsBacked
    <2>2. baBin'[s][q] = baBin[s][q] \/ (s = r /\ baBin'[s][q] = baBin[s][q] \cup {v})
        BY <1>6
    <2> QED
        BY <1>4, <2>1, <2>2
<1>9. InputOnce' /\ ConfirmOnce'
    BY <1>1, <1>5 DEF BaInv, InputOnce, ConfirmOnce
<1>10. ValuesConfirmed' /\ DecidedOnCoin'
    <2>1. \A q \in Nodes : baRound'[q] \in Nat /\ baRound'[q] >= baRound[q]
        BY <1>1, <1>3
    <2> QED
        BY <1>1, <2>1, ConfirmedSame
<1>11. EstimatesFollow' /\ OnlyStays' /\ InputsBehind'
    <2>1. \A s \in Ba!BaRounds, u \in {0, 1} : Single(s, u) => Single(s, u)'
        BY <1>1, SingleSame
    <2> QED
        BY <1>1, <2>1, EstimatesSame
<1> QED
    BY <1>7, <1>8, <1>9, <1>10, <1>11 DEF BaInv

\* AUX only moves the sender on.
LEMMA SendAuxKeeps ==
    ASSUME BaInv, NEW p \in Nodes, Ba!BaSendAux(p)
    PROVE  BaInv'
<1>1. /\ baPc[p] = "bin" /\ baPc' = [baPc EXCEPT ![p] = "aux"]
      /\ UNCHANGED <<baScope, baInput, baRound, baEst, baBin, baConf, baValues, baCoin,
                     baDecision>>
    BY DEF Ba!BaSendAux, Ba!AuxDue
<1>2. BaTypeOK
    BY DEF BaInv
<1>3. \A q \in Nodes : baRound[q] \in Nat
    BY <1>2, BaRoundNumbers DEF BaTypeOK
<1>4. UNCHANGED Ba!BaRounds /\ UNCHANGED BaCoins /\ UNCHANGED Ba!BaLast
      /\ UNCHANGED Ba!BaInputs
    BY <1>1 DEF Ba!BaRounds, BaCoins, Ba!BaLast, Ba!BaInputs
<1>5. BaTypeOK'
    BY <1>1, <1>2, <1>4 DEF BaTypeOK
<1>6. InputOnce' /\ ConfirmOnce'
    BY <1>1, <1>2, <1>4 DEF BaInv, InputOnce, ConfirmOnce, BaTypeOK
<1>7. BinsBacked'
    BY <1>1, <1>4 DEF BaInv, BinsBacked, Backed, Ba!EstSenders
<1>8. ValuesConfirmed' /\ DecidedOnCoin'
    <2>1. \A q \in Nodes : baRound'[q] \in Nat /\ baRound'[q] >= baRound[q]
        BY <1>1, <1>3
    <2>2. \A q \in Nodes : baPc'[q] = "coin" => baPc[q] = "coin" /\ baRound'[q] = baRound[q]
        BY <1>1, <1>2 DEF BaTypeOK
    <2> QED
        BY <1>1, <2>1, <2>2, ConfirmedSame
<1>9. EstimatesFollow' /\ OnlyStays' /\ InputsBehind'
    <2>1. \A s \in Ba!BaRounds, u \in {0, 1} : Single(s, u) => Single(s, u)'
        BY <1>1, SingleSame
    <2> QED
        BY <1>1, <2>1, EstimatesSame
<1> QED
    BY <1>5, <1>6, <1>7, <1>8, <1>9 DEF BaInv

\* A CONF carries the bin values of its sender.
LEMMA SendConfKeeps ==
    ASSUME BaInv, NEW p \in Nodes, Ba!BaSendConf(p)
    PROVE  BaInv'
<1> DEFINE r == baRound[p]
<1>1. /\ baPc[p] = "aux" /\ baPc' = [baPc EXCEPT ![p] = "conf"]
      /\ baConf' = [baConf EXCEPT ![r][p] = baBin[r][p]]
      /\ UNCHANGED <<baScope, baInput, baRound, baEst, baBin, baValues, baCoin, baDecision>>
    BY DEF Ba!BaSendConf, Ba!ConfDue
<1>2. BaTypeOK
    BY DEF BaInv
<1>3. r \in Ba!BaRounds /\ \A q \in Nodes : baRound[q] \in Nat
    BY <1>2, BaRoundNumbers DEF BaTypeOK
<1>4. UNCHANGED Ba!BaRounds /\ UNCHANGED BaCoins /\ UNCHANGED Ba!BaLast
      /\ UNCHANGED Ba!BaInputs
    BY <1>1 DEF Ba!BaRounds, BaCoins, Ba!BaLast, Ba!BaInputs
<1>5. /\ baConf' \in [Ba!BaRounds -> [Nodes -> SUBSET {0, 1}]]
      /\ \A s \in Ba!BaRounds, q \in Nodes :
            baConf'[s][q] = IF s = r /\ q = p THEN baBin[s][q] ELSE baConf[s][q]
    BY <1>1, <1>2, <1>3 DEF BaTypeOK
<1>6. baConf[r][p] = {}
    BY <1>1, <1>3 DEF BaInv, ConfirmOnce
<1>7. \A s \in Ba!BaRounds, q \in Nodes : baConf[s][q] # {} => baConf'[s][q] = baConf[s][q]
    BY <1>5, <1>6
<1>8. ASSUME NEW s \in Ba!BaRounds, NEW u \in {0, 1}, Single(s, u)
      PROVE  Single(s, u)'
    <2> DEFINE S == {q \in Nodes : baConf[s][q] = {u}}
               T == {q \in Nodes : baConf'[s][q] = {u}}
    <2>1. S \subseteq T /\ T \in SUBSET Nodes
        BY <1>7
    <2>2. S \in Quorum
        BY <1>8 DEF Single
    <2> HIDE DEF S, T
    <2>3. T \in Quorum
        BY <2>1, <2>2, QuorumSuperset
    <2> QED
        BY <2>3 DEF Single, T
<1>9. BaTypeOK'
    BY <1>1, <1>2, <1>4, <1>5 DEF BaTypeOK
<1>10. InputOnce'
    BY <1>1, <1>2 DEF BaInv, InputOnce, BaTypeOK
<1>11. ConfirmOnce'
    <2> SUFFICES ASSUME NEW q \in Nodes, NEW s \in Ba!BaRounds,
                        \/ s > baRound[q]
                        \/ s = baRound[q] /\ baPc'[q] \in {"input", "bin", "aux"}
                 PROVE  baConf'[s][q] = {}
        BY <1>1, <1>4 DEF ConfirmOnce
    <2>1. ~ (s = r /\ q = p)
        BY <1>1, <1>2, <1>3 DEF BaTypeOK
    <2>2. baConf'[s][q] = baConf[s][q]
        BY <1>5, <2>1
    <2>3. baPc'[q] \in {"input", "bin", "aux"} /\ q # p => baPc[q] \in {"input", "bin", "aux"}
        BY <1>1, <1>2 DEF BaTypeOK
    <2>4. baConf[s][q] = {}
        BY <2>1, <2>3 DEF BaInv, ConfirmOnce
    <2> QED
        BY <2>2, <2>4
<1>12. BinsBacked'
    <2>1. \A q \in Nodes, s \in Ba!BaRounds : baConf'[s][q] \subseteq baBin[s][q]
        BY <1>5 DEF BaInv, BinsBacked
    <2> QED
        BY <1>1, <1>4, <2>1 DEF BaInv, BinsBacked, Backed, Ba!EstSenders
<1>13. ValuesConfirmed' /\ DecidedOnCoin'
    <2>1. ASSUME NEW q \in Nodes, baPc'[q] = "coin"
          PROVE  /\ \A v \in baValues[q] : \E x \in Nodes : v \in baConf'[baRound[q]][x]
                 /\ \A v \in {0, 1} : baValues[q] = {v} => Single(baRound[q], v)'
        <3>1. baPc[q] = "coin" /\ baRound[q] \in Ba!BaRounds
            BY <1>1, <1>2, <2>1 DEF BaTypeOK
        <3>2. /\ \A v \in baValues[q] : \E x \in Nodes : v \in baConf[baRound[q]][x]
              /\ \A v \in {0, 1} : baValues[q] = {v} => Single(baRound[q], v)
            BY <3>1 DEF BaInv, ValuesConfirmed
        <3>3. \A v \in {0, 1} : Single(baRound[q], v) => Single(baRound[q], v)'
            BY <1>1, <1>8, <3>1 DEF Single
        <3> QED
            BY <1>7, <3>1, <3>2, <3>3
    <2>2. ValuesConfirmed'
        BY <1>1, <2>1 DEF ValuesConfirmed, Single
    <2>3. DecidedOnCoin'
        <3> SUFFICES ASSUME NEW q \in Nodes, baDecision[q] # None
                     PROVE  \E t \in BaCoins : /\ t < baRound[q] /\ baDecision[q] = baCoin[t]
                                               /\ Single(t, baCoin[t])'
            BY <1>1, <1>4 DEF DecidedOnCoin, Single
        <3>1. PICK t \in BaCoins :
                  t < baRound[q] /\ baDecision[q] = baCoin[t] /\ Single(t, baCoin[t])
            BY DEF BaInv, DecidedOnCoin
        <3>2. t \in Ba!BaRounds /\ baCoin[t] \in {0, 1}
            BY <1>2, BaRoundNumbers DEF BaTypeOK
        <3>3. Single(t, baCoin[t])'
            BY <1>1, <1>8, <3>1, <3>2 DEF Single
        <3> QED
            BY <3>1, <3>3
    <2> QED
        BY <2>2, <2>3
<1>14. EstimatesFollow' /\ OnlyStays' /\ InputsBehind'
    <2>1. \A s \in Ba!BaRounds, u \in {0, 1} : Single(s, u) => Single(s, u)'
        BY <1>8
    <2> QED
        BY <1>1, <2>1, EstimatesSame
<1> QED
    BY <1>9, <1>10, <1>11, <1>12, <1>13, <1>14 DEF BaInv

\* What ends the CONF phase: one value N - f nodes confirmed, or both values,
\* each of which some node confirmed.
LEMMA ConfirmsWhat ==
    ASSUME BaTypeOK, NEW p \in Nodes, NEW r \in Ba!BaRounds, NEW Q \in SUBSET Nodes,
           Cardinality(Q) = N - F, NEW vs \in SUBSET {0, 1}, Ba!Confirms(p, r, Q, vs)
    PROVE  /\ \A v \in vs : \E q \in Nodes : v \in baConf[r][q]
           /\ \A v \in {0, 1} : vs = {v} => Single(r, v)
<1>1. Q \in Quorum /\ Q # {}
    <2>1. Cardinality(Q) \in Nat
        BY NodeSets
    <2> QED
        BY <2>1, FaultNumbers, FS_EmptySet DEF Quorum
<1>2. \A q \in Q : baConf[r][q] # {} /\ baConf[r][q] \in SUBSET {0, 1}
    BY DEF Ba!Confirms, BaTypeOK
<1>3. CASE \E v \in {0, 1} : \A q \in Q : baConf[r][q] = {v}
    <2>1. \A q \in Q : baConf[r][q] = vs
        BY <1>3 DEF Ba!Confirms, Ba!BaBits
    <2>2. \A v \in vs : \E q \in Nodes : v \in baConf[r][q]
        BY <1>1, <2>1
    <2>3. ASSUME NEW v \in {0, 1}, vs = {v}
          PROVE  Single(r, v)
        <3> DEFINE S == {q \in Nodes : baConf[r][q] = {v}}
        <3>1. Q \subseteq S /\ S \in SUBSET Nodes
            BY <2>1, <2>3
        <3> HIDE DEF S
        <3>2. S \in Quorum
            BY <1>1, <3>1, QuorumSuperset
        <3> QED
            BY <3>2 DEF S, Single
    <2> QED
        BY <2>2, <2>3
<1>4. CASE ~ \E v \in {0, 1} : \A q \in Q : baConf[r][q] = {v}
    <2>1. vs = {0, 1}
        BY <1>4 DEF Ba!Confirms, Ba!BaBits
    <2>2. ASSUME NEW v \in {0, 1}
          PROVE  \E q \in Nodes : v \in baConf[r][q]
        <3>1. PICK w \in {0, 1} : w # v
            OBVIOUS
        <3>2. PICK q \in Q : baConf[r][q] # {w}
            BY <1>4
        <3>3. v \in baConf[r][q]
            BY <1>2, <3>1, <3>2
        <3> QED
            BY <3>3
    <2> QED
        BY <2>1, <2>2
<1> QED
    BY <1>3, <1>4

\* The values a node leaves CONF with were confirmed by a quorum within them.
LEMMA EndConfKeeps ==
    ASSUME BaInv, NEW p \in Nodes, NEW vs \in SUBSET {0, 1}, Ba!BaEndConf(p, vs)
    PROVE  BaInv'
<1> DEFINE r == baRound[p]
<1>1. /\ baPc[p] = "conf" /\ baPc' = [baPc EXCEPT ![p] = "coin"]
      /\ baValues' = [baValues EXCEPT ![p] = vs]
      /\ UNCHANGED <<baScope, baInput, baRound, baEst, baBin, baConf, baCoin, baDecision>>
    BY DEF Ba!BaEndConf, Ba!ConfsIn
<1>2. BaTypeOK
    BY DEF BaInv
<1>3. r \in Ba!BaRounds /\ \A q \in Nodes : baRound[q] \in Nat
    BY <1>2, BaRoundNumbers DEF BaTypeOK
<1>4. UNCHANGED Ba!BaRounds /\ UNCHANGED BaCoins /\ UNCHANGED Ba!BaLast
      /\ UNCHANGED Ba!BaInputs
    BY <1>1 DEF Ba!BaRounds, BaCoins, Ba!BaLast, Ba!BaInputs
<1>5. PICK Q \in SUBSET Nodes : Cardinality(Q) = N - F /\ Ba!Confirms(p, r, Q, vs)
    BY BaNumbers DEF Ba!BaEndConf, Ba!ConfsIn
<1>6. /\ \A v \in vs : \E q \in Nodes : v \in baConf[r][q]
      /\ \A v \in {0, 1} : vs = {v} => Single(r, v)
    BY <1>2, <1>3, <1>5, ConfirmsWhat
<1>7. BaTypeOK'
    BY <1>1, <1>2, <1>4 DEF BaTypeOK
<1>8. InputOnce' /\ ConfirmOnce'
    BY <1>1, <1>2, <1>4 DEF BaInv, InputOnce, ConfirmOnce, BaTypeOK
<1>9. BinsBacked'
    BY <1>1, <1>4 DEF BaInv, BinsBacked, Backed, Ba!EstSenders
<1>10. ValuesConfirmed'
    <2> SUFFICES ASSUME NEW q \in Nodes, baPc'[q] = "coin"
                 PROVE  /\ \A v \in baValues'[q] : \E x \in Nodes : v \in baConf[baRound[q]][x]
                        /\ \A v \in {0, 1} : baValues'[q] = {v} => Single(baRound[q], v)
        BY <1>1 DEF ValuesConfirmed, Single
    <2>1. CASE q = p
        BY <1>1, <1>2, <1>6, <2>1 DEF BaTypeOK
    <2>2. CASE q # p
        BY <1>1, <1>2, <2>2 DEF BaTypeOK, BaInv, ValuesConfirmed
    <2> QED
        BY <2>1, <2>2
<1>11. DecidedOnCoin'
    BY <1>1, <1>4 DEF BaInv, DecidedOnCoin, Single
<1>12. EstimatesFollow' /\ OnlyStays' /\ InputsBehind'
    <2>1. \A s \in Ba!BaRounds, u \in {0, 1} : Single(s, u) => Single(s, u)'
        BY <1>1, SingleSame
    <2> QED
        BY <1>1, <2>1, EstimatesSame
<1> QED
    BY <1>7, <1>8, <1>9, <1>10, <1>11, <1>12 DEF BaInv

\* The next round begins with a value of this one, the coin unless it is the
\* only value; a decision is the only value, and the coin.
LEMMA StartKeeps ==
    ASSUME BaInv, NEW p \in Nodes, baPc[p] = "coin", baRound[p] <= Ba!BaLast,
           NEW v \in baValues[p],
           v = baCoin[baRound[p]] \/ baValues[p] = {v},
           Ba!StartRound(p, baRound[p] + 1, v),
           UNCHANGED <<baScope, baInput, baBin, baConf, baValues, baCoin>>,
           \/ UNCHANGED baDecision
           \/ /\ baValues[p] = {baCoin[baRound[p]]}
              /\ baDecision' = [baDecision EXCEPT ![p] = baCoin[baRound[p]]]
    PROVE  BaInv'
<1> DEFINE r == baRound[p]
<1>1. BaTypeOK
    BY DEF BaInv
<1>2. /\ r \in Ba!BaRounds /\ r \in Nat /\ r \in BaCoins
      /\ r + 1 \in Ba!BaRounds /\ r + 1 \in Nat /\ r + 1 # 0 /\ (r + 1) - 1 = r
      /\ \A q \in Nodes : baRound[q] \in Nat /\ baRound[q] \in Ba!BaRounds
    BY <1>1, BaRoundNumbers DEF BaTypeOK
<1>3. v \in {0, 1} /\ Backed(r, v)
    BY ValuesBacked
<1>4. /\ baRound' = [baRound EXCEPT ![p] = r + 1]
      /\ baPc' = [baPc EXCEPT ![p] = "bin"]
      /\ EstimateAdded(p, r + 1, v)
    BY DEF Ba!StartRound, EstimateAdded
<1>5. UNCHANGED Ba!BaRounds /\ UNCHANGED BaCoins /\ UNCHANGED Ba!BaLast
      /\ UNCHANGED Ba!BaInputs
    BY DEF Ba!BaRounds, BaCoins, Ba!BaLast, Ba!BaInputs
<1>6. baCoin[r] \in {0, 1}
    BY <1>1, <1>2 DEF BaTypeOK
<1>7. BaTypeOK'
    <2>1. baEst' \in [Ba!BaRounds -> [Nodes -> SUBSET {0, 1}]]
        BY <1>1, <1>2, <1>3, <1>4, EstimateAddedAt DEF EstimateAdded
    <2>2. baDecision' \in [Nodes -> {0, 1, None}]
        BY <1>1, <1>6 DEF BaTypeOK
    <2> QED
        BY <1>1, <1>2, <1>4, <1>5, <2>1, <2>2 DEF BaTypeOK
<1>8. InputOnce'
    BY <1>1, <1>4 DEF BaInv, InputOnce, BaTypeOK
<1>9. ConfirmOnce'
    <2> SUFFICES ASSUME NEW q \in Nodes, NEW s \in Ba!BaRounds,
                        \/ s > baRound'[q]
                        \/ s = baRound'[q] /\ baPc'[q] \in {"input", "bin", "aux"}
                 PROVE  baConf[s][q] = {}
        BY <1>5 DEF ConfirmOnce
    <2>1. CASE q = p
        <3>1. baRound'[q] = r + 1 /\ s \in Nat
            BY <1>1, <1>4, <2>1, BaRoundNumbers DEF BaTypeOK
        <3>2. s > r
            BY <1>2, <3>1
        <3> QED
            BY <2>1, <3>2 DEF BaInv, ConfirmOnce
    <2>2. CASE q # p
        <3>1. baRound'[q] = baRound[q] /\ baPc'[q] = baPc[q]
            BY <1>1, <1>4, <2>2 DEF BaTypeOK
        <3> QED
            BY <3>1 DEF BaInv, ConfirmOnce
    <2> QED
        BY <2>1, <2>2
<1>10. ValuesConfirmed'
    <2> SUFFICES ASSUME NEW q \in Nodes, baPc'[q] = "coin"
                 PROVE  /\ \A u \in baValues[q] : \E x \in Nodes : u \in baConf[baRound'[q]][x]
                        /\ \A u \in {0, 1} : baValues[q] = {u} => Single(baRound'[q], u)
        BY DEF ValuesConfirmed, Single
    <2>1. baPc[q] = "coin" /\ baRound'[q] = baRound[q]
        BY <1>1, <1>4 DEF BaTypeOK
    <2> QED
        BY <2>1 DEF BaInv, ValuesConfirmed
<1>11. DecidedOnCoin'
    <2> SUFFICES ASSUME NEW q \in Nodes, baDecision'[q] # None
                 PROVE  \E t \in BaCoins : /\ t < baRound'[q] /\ baDecision'[q] = baCoin[t]
                                           /\ Single(t, baCoin[t])
        BY <1>5 DEF DecidedOnCoin, Single
    <2>1. CASE baDecision'[q] = baDecision[q]
        <3>1. PICK t \in BaCoins : /\ t < baRound[q] /\ baDecision[q] = baCoin[t]
                                   /\ Single(t, baCoin[t])
            BY <2>1 DEF BaInv, DecidedOnCoin
        <3>2. t \in Nat
            BY <1>1, BaRoundNumbers
        <3>3. t < baRound'[q]
            BY <1>1, <1>2, <1>4, <3>1, <3>2 DEF BaTypeOK
        <3> QED
            BY <2>1, <3>1, <3>3
    <2>2. CASE baDecision'[q] # baDecision[q]
        <3>1. q = p /\ baDecision'[q] = baCoin[r] /\ baValues[p] = {baCoin[r]}
            BY <1>1, <2>2 DEF BaTypeOK
        <3>2. Single(r, baCoin[r])
            BY <1>6, <3>1 DEF BaInv, ValuesConfirmed
        <3>3. r < baRound'[q]
            BY <1>1, <1>2, <1>4, <3>1 DEF BaTypeOK
        <3> QED
            BY <1>2, <3>1, <3>2, <3>3
    <2> QED
        BY <2>1, <2>2
<1>12. BinsBacked' /\ EstimatesFollow' /\ OnlyStays' /\ InputsBehind'
    <2>0. PICK n \in Ba!BaRounds : n = r + 1
        BY <1>2
    <2>1. \A u \in {0, 1} : BaInputsOf(u) \subseteq BaInputsOf(u)'
        BY DEF BaInputsOf
    <2>2. ASSUME NEW s \in Ba!BaRounds, NEW u \in {0, 1}, s < n, Only(s, u)
          PROVE  v = u
        <3>1. s <= r
            BY <1>1, <1>2, <2>0, <2>2, BaRoundNumbers
        <3>2. Only(r, u)
            BY <1>2, <2>2, <3>1 DEF BaInv, OnlyStays
        <3>3. PICK q \in Nodes : v \in baEst[r][q]
            BY <1>3, BackedSent
        <3> QED
            BY <3>2, <3>3 DEF Only
    <2>3. Follows(n, v)
        <3>1. v = baCoin[r] \/ Single(r, v)
            BY <1>3 DEF BaInv, ValuesConfirmed
        <3> QED
            BY <1>2, <2>0, <3>1 DEF Follows
    <2>4. Cardinality(BaInputsOf(v)) >= F + 1
        BY <1>2, <1>3, BackedHasInputs
    <2>5. EstimateAdded(p, n, v)
        BY <1>4, <2>0 DEF EstimateAdded
    <2>6. \A s \in Ba!BaRounds, u \in {0, 1} : s < n /\ Only(s, u) => v = u
        BY <2>2
    <2> QED
        <3>1. v \in {0, 1} /\ UNCHANGED <<baScope, baBin, baConf, baCoin>>
            BY <1>3
        <3> HIDE DEF r
        <3> QED
            BY ONLY BaInv, <2>1, <2>3, <2>4, <2>5, <2>6, <3>1, EstimateKeeps DEF EstimateAdded
<1> QED
    BY <1>7, <1>8, <1>9, <1>10, <1>11, <1>12 DEF BaInv

\* AUX, coin shares and returns are not in the invariant.
LEMMA BaIgnores ==
    ASSUME BaInv,
           UNCHANGED <<baScope, baInput, baRound, baPc, baEst, baBin, baConf, baValues,
                       baCoin, baDecision>>
    PROVE  BaInv'
<1>1. BaTypeOK' /\ InputOnce' /\ ConfirmOnce' /\ BinsBacked'
    BY DEF BaInv, BaTypeOK, BaCoins, Ba!BaRounds, Ba!BaLast, Ba!BaInputs, InputOnce, ConfirmOnce,
           BinsBacked, Backed, Ba!EstSenders
<1>2. \A s \in Ba!BaRounds, u \in {0, 1} : Single(s, u) => Single(s, u)'
    BY SingleSame
<1>3. EstimatesFollow' /\ OnlyStays' /\ InputsBehind'
    BY <1>2, EstimatesSame
<1>4. BaTypeOK
    BY DEF BaInv
<1>5. \A q \in Nodes : baRound'[q] \in Nat /\ baRound'[q] >= baRound[q]
    <2>1. \A q \in Nodes : baRound[q] \in Nat
        BY <1>4, BaRoundNumbers DEF BaTypeOK
    <2> QED
        BY <2>1
<1>6. ValuesConfirmed' /\ DecidedOnCoin'
    BY <1>5, ConfirmedSame
<1> QED
    BY <1>1, <1>3, <1>6 DEF BaInv

\* With no decision the next estimate is the coin, or the only value left.
LEMMA ContinueKeeps ==
    ASSUME BaInv, NEW p \in Nodes, Ba!Continue(p)
    PROVE  BaInv'
<1>1. PICK v \in {0, 1} :
          /\ IF baValues[p] = {0, 1} THEN v = baCoin[baRound[p]] ELSE v \in baValues[p]
          /\ Ba!StartRound(p, baRound[p] + 1, v)
    BY DEF Ba!Continue, Ba!BaBits
<1>2. baValues[p] \in SUBSET {0, 1}
    BY DEF BaInv, BaTypeOK
<1>3. v \in baValues[p]
    BY <1>1
<1>4. v = baCoin[baRound[p]] \/ baValues[p] = {v}
    BY <1>1, <1>2
<1>5. /\ baPc[p] = "coin" /\ baRound[p] <= Ba!BaLast
      /\ UNCHANGED <<baScope, baInput, baBin, baConf, baValues, baCoin>>
      /\ UNCHANGED baDecision
    BY DEF Ba!Continue, Ba!CoinIn, Ba!BaRuns
<1> QED
    BY <1>1, <1>3, <1>4, <1>5, StartKeeps DEF Ba!StartRound

\* With the coin equal to the only value a node decides; the next time it quits.
LEMMA DecideOrQuitKeeps ==
    ASSUME BaInv, NEW p \in Nodes, Ba!DecideOrQuit(p)
    PROVE  BaInv'
<1> DEFINE c == baCoin[baRound[p]]
<1>1. /\ baPc[p] = "coin" /\ baRound[p] <= Ba!BaLast /\ baValues[p] = {c}
      /\ UNCHANGED <<baScope, baInput, baBin, baConf, baValues, baCoin>>
    BY DEF Ba!DecideOrQuit, Ba!CoinIn, Ba!BaRuns
<1>2. CASE baDecision[p] = None
    <2>1. PICK v \in baValues[p] : v = c
        BY <1>1
    <2>2. /\ baDecision' = [baDecision EXCEPT ![p] = c]
          /\ Ba!StartRound(p, baRound[p] + 1, v)
        BY <1>2, <2>1 DEF Ba!DecideOrQuit
    <2> QED
        BY <1>1, <2>1, <2>2, StartKeeps DEF Ba!StartRound
<1>3. CASE baDecision[p] # None
    BY <1>3, BaIgnores DEF Ba!DecideOrQuit
<1> QED
    BY <1>2, <1>3

\* Every step of the binary agreement keeps the invariant.
LEMMA BaStepInv == BaInv /\ [Ba!BaNext]_Ba!baVars => BaInv'
<1> SUFFICES ASSUME BaInv, [Ba!BaNext]_Ba!baVars
             PROVE  BaInv'
    OBVIOUS
<1>1. CASE UNCHANGED Ba!baVars
    BY <1>1, BaIgnores DEF Ba!baVars
<1>2. ASSUME NEW p \in Nodes, NEW r \in 0 .. Ba!BaLast, NEW v \in Ba!BaBits,
             Ba!Relay(p, r, v) \/ Ba!AddBin(p, r, v)
      PROVE  BaInv'
    BY <1>2, RelayKeeps, BinKeeps DEF BaCoins, Ba!BaBits
<1>3. ASSUME NEW p \in Nodes, Ba!BaMain(p)
      PROVE  BaInv'
    <2>1. Ba!BaInputs \subseteq {0, 1}
        BY DEF BaInv, BaTypeOK
    <2>2. CASE \E v \in Ba!BaInputs : Ba!BaPropose(p, v)
        BY <2>1, <2>2, ProposeKeeps
    <2>3. CASE Ba!BaSendAux(p) \/ Ba!BaSendConf(p)
        BY <2>3, SendAuxKeeps, SendConfKeeps
    <2>4. CASE \E vs \in SUBSET Ba!BaBits : Ba!BaEndConf(p, vs)
        BY <2>4, EndConfKeeps DEF Ba!BaBits
    <2>5. CASE Ba!Continue(p) \/ Ba!DecideOrQuit(p)
        BY <2>5, ContinueKeeps, DecideOrQuitKeeps
    <2> QED
        BY <1>3, <2>2, <2>3, <2>4, <2>5 DEF Ba!BaMain
<1> QED
    BY <1>1, <1>2, <1>3 DEF Ba!BaNext, Ba!BaReceive

\* After a round that confirmed the coin as the single value there is only this.
LEMMA SingleCoinOnly ==
    ASSUME BaInv, NEW s \in BaCoins, Single(s, baCoin[s]), NEW t \in Ba!BaRounds, s < t
    PROVE  Only(t, baCoin[s])
<1>0. BaTypeOK
    BY DEF BaInv
<1>1. PICK d \in {0, 1} : d = baCoin[s]
    BY <1>0 DEF BaTypeOK
<1>2. s \in Nat /\ t \in Nat /\ s + 1 \in Ba!BaRounds
    BY <1>0, BaRoundNumbers
<1>3. Only(s + 1, d)
    BY <1>1, SingleOnce DEF BaInv, EstimatesFollow, Only
<1>4. s + 1 <= t
    BY <1>2
<1> QED
    BY <1>1, <1>2, <1>3, <1>4 DEF BaInv, OnlyStays

\* After a decision there is only its value.
LEMMA BaInvAgrees == BaInv => Ba!BaAgreement
<1> SUFFICES ASSUME BaInv
             PROVE  Ba!BaAgreement
    OBVIOUS
<1>1. BaTypeOK
    BY DEF BaInv
<1>2. ASSUME NEW s \in BaCoins, NEW d \in {0, 1}, Single(s, d), d = baCoin[s],
             NEW t \in Ba!BaRounds, s < t
      PROVE  Only(t, d)
    BY <1>2, SingleCoinOnly
<1>3. ASSUME NEW s \in Ba!BaRounds, NEW d \in {0, 1}, Single(s, d)
      PROVE  Backed(s, d)
    <2>1. PICK q \in Nodes : baConf[s][q] = {d}
        <3>1. \E q \in Nodes : q \in {x \in Nodes : baConf[s][x] = {d}}
            BY <1>3, ThreeQuorumsMeet DEF Single
        <3> QED
            BY <3>1
    <2> QED
        BY <2>1 DEF BaInv, BinsBacked
<1>4. ASSUME NEW s \in BaCoins, NEW d \in {0, 1}, Single(s, d), d = baCoin[s],
             NEW t \in BaCoins, NEW e \in {0, 1}, Single(t, e), s < t
      PROVE  e = d
    <2>1. t \in Ba!BaRounds
        BY <1>1, BaRoundNumbers
    <2>2. Only(t, d)
        BY <1>2, <1>4, <2>1
    <2>3. Backed(t, e)
        BY <1>3, <1>4, <2>1
    <2>4. \E q \in Nodes : e \in baEst[t][q]
        BY <2>3, BackedSent
    <2> QED
        BY <2>2, <2>4 DEF Only
<1> SUFFICES ASSUME NEW p \in Nodes, baDecision[p] # None
             PROVE  /\ Cardinality(BaInputsOf(baDecision[p])) >= F + 1
                    /\ \A q \in Nodes :
                          /\ baDecision[q] \in {baDecision[p], None}
                          /\ baRound[p] = baRound[q] /\ baPc[q] # "input"
                                => baEst[baRound[q]][q] \subseteq {baDecision[p]}
    BY BaNumbers DEF Ba!BaAgreement, BaInputsOf
<1>5. PICK s \in BaCoins :
          s < baRound[p] /\ baDecision[p] = baCoin[s] /\ Single(s, baCoin[s])
    BY DEF BaInv, DecidedOnCoin
<1>6. PICK d \in {0, 1} : d = baCoin[s]
    BY <1>1 DEF BaTypeOK
<1>7. s \in Nat /\ s \in Ba!BaRounds /\ Single(s, d) /\ baDecision[p] = d
    BY <1>1, <1>5, <1>6, BaRoundNumbers
<1>8. Cardinality(BaInputsOf(d)) >= F + 1
    BY <1>3, <1>7, BackedHasInputs
<1>9. ASSUME NEW q \in Nodes, baDecision[q] # None
      PROVE  baDecision[q] = d
    <2>1. PICK t \in BaCoins :
              t < baRound[q] /\ baDecision[q] = baCoin[t] /\ Single(t, baCoin[t])
        BY <1>9 DEF BaInv, DecidedOnCoin
    <2>2. PICK e \in {0, 1} : e = baCoin[t]
        BY <1>1 DEF BaTypeOK
    <2>3. t \in Nat /\ Single(t, e)
        BY <1>1, <2>1, <2>2, BaRoundNumbers
    <2>4. s < t \/ t < s \/ s = t
        BY <1>7, <2>3
    <2>5. CASE s < t
        BY <1>4, <1>6, <1>7, <2>1, <2>2, <2>3, <2>5
    <2>6. CASE t < s
        BY <1>4, <1>6, <1>7, <2>1, <2>2, <2>3, <2>6
    <2>7. CASE s = t
        BY <1>6, <2>1, <2>7
    <2> QED
        BY <2>4, <2>5, <2>6, <2>7
<1>10. ASSUME NEW q \in Nodes, baRound[p] = baRound[q]
       PROVE  baEst[baRound[q]][q] \subseteq {d}
    <2>1. PICK t \in Ba!BaRounds : t = baRound[q]
        BY <1>1 DEF BaTypeOK
    <2>2. Only(t, d)
        BY <1>2, <1>5, <1>6, <1>7, <1>10, <2>1
    <2> QED
        BY <2>1, <2>2 DEF Only
<1> QED
    BY <1>7, <1>8, <1>9, <1>10

(***************************************************************************)
(* What a node in the binary agreement waits for.                          *)
(***************************************************************************)
BaSetsOK ==
    /\ baAux \in [Ba!BaRounds -> [Nodes -> {0, 1, None}]]
    /\ baShared \in [Ba!BaRounds -> SUBSET Nodes]
    /\ baQuit \in SUBSET Nodes

\* The node has come to one of the phases in the round, or to a later round.
Reached(p, r, phases) == r < baRound[p] \/ (r = baRound[p] /\ baPc[p] \in phases)

\* What a node has sent by then.
DoneBy(p) ==
    \A r \in Ba!BaRounds :
        /\ Reached(p, r, {"bin", "aux", "conf", "coin"}) => baEst[r][p] # {}
        /\ Reached(p, r, {"aux", "conf", "coin"}) => baAux[r][p] \in baBin[r][p]
        /\ Reached(p, r, {"conf", "coin"}) => baConf[r][p] # {}
        /\ Reached(p, r, {"coin"}) => p \in baShared[r]

StepsDone == \A p \in Nodes : DoneBy(p)

\* A bin value has 2f + 1 ESTs.
BinsSent ==
    \A p \in Nodes, r \in Ba!BaRounds : \A v \in baBin[r][p] :
        Cardinality(Ba!EstSenders(r, v)) >= 2 * F + 1

ValuesThere == \A p \in Nodes : baPc[p] = "coin" => baValues[p] # {}

\* Nobody leaves a round in which the coin is the only estimate without a decision.
CoinDecides ==
    \A p \in Nodes, r \in BaCoins :
        r < baRound[p] /\ Only(r, baCoin[r]) => baDecision[p] # None

QuitOnCoin ==
    \A p \in baQuit :
        /\ baPc[p] = "coin" /\ baRound[p] \in BaCoins
        /\ baDecision[p] # None /\ baDecision[p] = baCoin[baRound[p]]

BaWaits ==
    /\ BaSetsOK
    /\ StepsDone
    /\ BinsSent
    /\ ValuesThere
    /\ CoinDecides
    /\ QuitOnCoin

\* Nothing is sent, and nobody has quit, at first.
LEMMA BaInitWaits == Ba!BaInit => BaWaits
<1> SUFFICES ASSUME Ba!BaInit
             PROVE  BaWaits
    OBVIOUS
<1>1. BaTypeOK
    BY BaInitInv DEF BaInv
<1>2. \A r \in Ba!BaRounds : r \in Nat /\ ~ r < 0
    BY <1>1, BaRoundNumbers
<1>3. BaSetsOK /\ ValuesThere /\ QuitOnCoin
    BY DEF Ba!BaInit, BaSetsOK, ValuesThere, QuitOnCoin
<1>4. StepsDone
    BY <1>2 DEF Ba!BaInit, StepsDone, DoneBy, Reached
<1>5. BinsSent
    BY DEF Ba!BaInit, BinsSent
<1>6. CoinDecides
    BY <1>1, <1>2, BaRoundNumbers DEF Ba!BaInit, CoinDecides
<1> QED
    BY <1>3, <1>4, <1>5, <1>6 DEF BaWaits

\* Messages stay sent.
SentStays ==
    /\ UNCHANGED <<baScope, baCoin>>
    /\ \A r \in Ba!BaRounds, p \in Nodes :
          /\ baEst[r][p] \subseteq baEst'[r][p]
          /\ baBin[r][p] \subseteq baBin'[r][p]
          /\ baAux[r][p] \in baBin[r][p] => baAux'[r][p] \in baBin'[r][p]
          /\ baConf[r][p] # {} => baConf'[r][p] # {}
    /\ \A r \in Ba!BaRounds : baShared[r] \subseteq baShared'[r]

\* What a node had sent it has sent, if it stays where it is.
LEMMA DoneStays ==
    ASSUME SentStays, NEW p \in Nodes, DoneBy(p), baRound'[p] = baRound[p], baPc'[p] = baPc[p]
    PROVE  DoneBy(p)'
<1>1. UNCHANGED Ba!BaRounds
    BY DEF SentStays, Ba!BaRounds, Ba!BaLast
<1>2. \A r, phases : Reached(p, r, phases)' <=> Reached(p, r, phases)
    BY DEF Reached
<1> QED
    BY <1>1, <1>2 DEF SentStays, DoneBy

\* Bin values keep their ESTs.
LEMMA BinsSentStays ==
    ASSUME SentStays, BinsSent, BaTypeOK',
           \A p \in Nodes, r \in Ba!BaRounds : \A v \in baBin'[r][p] :
               v \in baBin[r][p] \/ Cardinality(Ba!EstSenders(r, v)) >= 2 * F + 1
    PROVE  BinsSent'
<1>1. UNCHANGED Ba!BaRounds
    BY DEF SentStays, Ba!BaRounds, Ba!BaLast
<1> SUFFICES ASSUME NEW p \in Nodes, NEW r \in Ba!BaRounds, NEW v \in baBin'[r][p]
             PROVE  Cardinality(Ba!EstSenders(r, v)') >= 2 * F + 1
    BY <1>1 DEF BinsSent
<1>2. Cardinality(Ba!EstSenders(r, v)) >= 2 * F + 1
    BY DEF BinsSent
<1>3. Ba!EstSenders(r, v) \subseteq Ba!EstSenders(r, v)' /\ Ba!EstSenders(r, v)' \in SUBSET Nodes
    BY DEF Ba!EstSenders, SentStays
<1>4. /\ Cardinality(Ba!EstSenders(r, v)) <= Cardinality(Ba!EstSenders(r, v)')
      /\ Cardinality(Ba!EstSenders(r, v)) \in Nat /\ Cardinality(Ba!EstSenders(r, v)') \in Nat
    BY <1>3, NodeSets
<1> QED
    BY <1>2, <1>4, FaultNumbers

\* An only estimate was the only one before.
LEMMA CoinDecidesStays ==
    ASSUME SentStays, CoinDecides,
           \A p \in Nodes : baDecision[p] # None => baDecision'[p] # None,
           \A p \in Nodes, r \in BaCoins :
               r < baRound'[p] /\ Only(r, baCoin[r]) => r < baRound[p] \/ baDecision'[p] # None,
           BaTypeOK
    PROVE  CoinDecides'
<1>1. UNCHANGED BaCoins
    BY DEF SentStays, BaCoins, Ba!BaLast
<1>2. \A r \in BaCoins : r \in Ba!BaRounds
    BY BaRoundNumbers
<1>3. \A r \in BaCoins : Only(r, baCoin[r])' => Only(r, baCoin[r])
    BY <1>2 DEF Only, SentStays
<1> QED
    BY <1>1, <1>3 DEF CoinDecides, SentStays

\* A node's input and a relayed value are ESTs more.
LEMMA EstKeepsWaits ==
    ASSUME BaInv, BaInv', BaWaits, NEW p \in Nodes, NEW r \in Ba!BaRounds, NEW v \in {0, 1},
           EstimateAdded(p, r, v),
           UNCHANGED <<baScope, baBin, baAux, baConf, baValues, baShared, baCoin, baDecision,
                       baQuit>>,
           \/ UNCHANGED <<baRound, baPc>>
           \/ /\ baPc[p] = "input" /\ baRound[p] = 0 /\ r = 0
              /\ baRound' = [baRound EXCEPT ![p] = 0]
              /\ baPc' = [baPc EXCEPT ![p] = "bin"]
    PROVE  BaWaits'
<1> USE DEF BaWaits
<1>0. BaTypeOK /\ BaTypeOK' /\ \A s \in Ba!BaRounds : s \in Nat /\ ~ s < 0
    BY BaRoundNumbers DEF BaInv
<1>1. UNCHANGED Ba!BaRounds /\ UNCHANGED BaCoins
    BY DEF Ba!BaRounds, BaCoins, Ba!BaLast
<1>2. \A s \in Ba!BaRounds, q \in Nodes :
          baEst'[s][q] = IF s = r /\ q = p THEN baEst[s][q] \cup {v} ELSE baEst[s][q]
    BY <1>0, EstimateAddedAt DEF EstimateAdded
<1>3. SentStays
    BY <1>2 DEF SentStays
<1>4. baRound' = baRound
    BY <1>0 DEF BaTypeOK
<1>5. BaSetsOK'
    BY <1>1 DEF BaSetsOK
<1>6. StepsDone'
    <2> SUFFICES ASSUME NEW q \in Nodes
                 PROVE  DoneBy(q)'
        BY DEF StepsDone
    <2>1. CASE baPc'[q] = baPc[q]
        BY <1>3, <1>4, <2>1, DoneStays DEF StepsDone
    <2>2. CASE baPc'[q] # baPc[q]
        <3>1. q = p /\ r = 0 /\ baRound'[q] = 0 /\ baPc'[q] = "bin"
            BY <1>0, <2>2 DEF BaTypeOK
        <3>2. \A s \in Ba!BaRounds : \A phases : Reached(q, s, phases)' => s = 0 /\ "bin" \in phases
            BY <1>0, <3>1 DEF Reached
        <3>3. v \in baEst'[0][q]
            BY <1>2, <3>1
        <3> QED
            BY <1>1, <3>2, <3>3 DEF DoneBy
    <2> QED
        BY <2>1, <2>2
<1>7. BinsSent'
    BY <1>0, <1>3, BinsSentStays
<1>8. ValuesThere' /\ QuitOnCoin'
    <2>1. \A q \in Nodes : baPc'[q] = "coin" => baPc[q] = "coin"
        BY <1>0 DEF BaTypeOK
    <2>2. \A q \in Nodes : baPc[q] = "coin" => baPc'[q] = "coin"
        BY <1>0 DEF BaTypeOK
    <2>3. baQuit \subseteq Nodes
        BY DEF BaSetsOK
    <2>4. ValuesThere'
        BY <2>1 DEF ValuesThere
    <2>5. QuitOnCoin'
        BY <1>1, <1>4, <2>2, <2>3 DEF QuitOnCoin
    <2> QED
        BY <2>4, <2>5
<1>9. CoinDecides'
    BY <1>0, <1>3, <1>4, CoinDecidesStays
<1> QED
    BY <1>5, <1>6, <1>7, <1>8, <1>9

\* A bin value has its ESTs.
LEMMA BinKeepsWaits ==
    ASSUME BaInv, BaInv', BaWaits, NEW p \in Nodes, NEW r \in BaCoins, NEW v \in {0, 1},
           Ba!AddBin(p, r, v)
    PROVE  BaWaits'
<1> USE DEF BaWaits
<1>0. BaTypeOK /\ BaTypeOK' /\ r \in Ba!BaRounds
    BY BaRoundNumbers DEF BaInv
<1>1. /\ baBin' = [baBin EXCEPT ![r][p] = @ \cup {v}]
      /\ UNCHANGED <<baScope, baInput, baRound, baPc, baEst, baAux, baConf, baValues, baShared,
                     baCoin, baDecision, baQuit>>
      /\ Cardinality(Ba!EstSenders(r, v)) >= 2 * F + 1
    BY BaNumbers DEF Ba!AddBin, Ba!BinDue
<1>2. UNCHANGED Ba!BaRounds /\ UNCHANGED BaCoins
    BY <1>1 DEF Ba!BaRounds, BaCoins, Ba!BaLast
<1>3. \A s \in Ba!BaRounds, q \in Nodes :
          baBin'[s][q] = IF s = r /\ q = p THEN baBin[s][q] \cup {v} ELSE baBin[s][q]
    BY <1>0, <1>1, BinAddedAt
<1>4. SentStays
    BY <1>1, <1>3 DEF SentStays
<1>5. BaSetsOK' /\ ValuesThere' /\ QuitOnCoin'
    BY <1>1, <1>2 DEF BaSetsOK, ValuesThere, QuitOnCoin
<1>6. StepsDone'
    BY <1>1, <1>4, DoneStays DEF StepsDone
<1>7. BinsSent'
    <2>1. ASSUME NEW q \in Nodes, NEW s \in Ba!BaRounds, NEW w \in baBin'[s][q]
          PROVE  w \in baBin[s][q] \/ Cardinality(Ba!EstSenders(s, w)) >= 2 * F + 1
        <3>1. CASE s = r /\ q = p
            BY <1>1, <1>3, <2>1, <3>1
        <3>2. CASE ~ (s = r /\ q = p)
            BY <1>3, <2>1, <3>2
        <3> QED
            BY <3>1, <3>2
    <2> QED
        BY <1>0, <1>4, <2>1, BinsSentStays
<1>8. CoinDecides'
    BY <1>0, <1>1, <1>4, CoinDecidesStays
<1> QED
    BY <1>5, <1>6, <1>7, <1>8

\* A node goes on within its round: with its AUX, its CONF, or its share.
LEMMA PhaseKeepsWaits ==
    ASSUME BaInv, BaInv', BaWaits, NEW p \in Nodes,
           \/ Ba!BaSendAux(p)
           \/ Ba!BaSendConf(p)
           \/ \E vs \in SUBSET {0, 1} : vs # {} /\ Ba!BaEndConf(p, vs)
    PROVE  BaWaits'
<1> USE DEF BaWaits
<1> DEFINE r == baRound[p]
<1>0. /\ BaTypeOK /\ BaTypeOK' /\ r \in Ba!BaRounds
      /\ \A s \in Ba!BaRounds : s \in Nat
    BY BaRoundNumbers DEF BaInv, BaTypeOK
<1>1. /\ UNCHANGED <<baScope, baInput, baRound, baEst, baBin, baCoin, baDecision, baQuit>>
      /\ baPc[p] # "coin"
      /\ \/ /\ baPc[p] = "bin" /\ baPc' = [baPc EXCEPT ![p] = "aux"]
            /\ baBin[r][p] # {}
            /\ baAux' = [baAux EXCEPT ![r][p] = IF 0 \in baBin[r][p] THEN 0 ELSE 1]
            /\ UNCHANGED <<baConf, baValues, baShared>>
         \/ /\ baPc[p] = "aux" /\ baPc' = [baPc EXCEPT ![p] = "conf"]
            /\ baConf' = [baConf EXCEPT ![r][p] = baBin[r][p]]
            /\ UNCHANGED <<baAux, baValues, baShared>>
         \/ /\ baPc[p] = "conf" /\ baPc' = [baPc EXCEPT ![p] = "coin"]
            /\ \E vs \in SUBSET {0, 1} : vs # {} /\ baValues' = [baValues EXCEPT ![p] = vs]
            /\ baShared' = [baShared EXCEPT ![r] = @ \cup {p}]
            /\ UNCHANGED <<baAux, baConf>>
    BY DEF Ba!BaSendAux, Ba!BaSendConf, Ba!BaEndConf, Ba!AuxDue, Ba!ConfDue, Ba!ConfsIn
<1>2. UNCHANGED Ba!BaRounds /\ UNCHANGED BaCoins
    BY <1>1 DEF Ba!BaRounds, BaCoins, Ba!BaLast
<1>3. baPc[p] = "bin" =>
          /\ baAux' \in [Ba!BaRounds -> [Nodes -> {0, 1, None}]]
          /\ \A s \in Ba!BaRounds, q \in Nodes :
                baAux'[s][q] = IF s = r /\ q = p THEN IF 0 \in baBin[r][p] THEN 0 ELSE 1
                                                 ELSE baAux[s][q]
    <2> SUFFICES ASSUME baPc[p] = "bin"
                 PROVE  /\ baAux' \in [Ba!BaRounds -> [Nodes -> {0, 1, None}]]
                        /\ \A s \in Ba!BaRounds, q \in Nodes :
                              baAux'[s][q] = IF s = r /\ q = p THEN IF 0 \in baBin[r][p] THEN 0 ELSE 1
                                                               ELSE baAux[s][q]
        OBVIOUS
    <2>1. PICK w \in {0, 1} : w = IF 0 \in baBin[r][p] THEN 0 ELSE 1
        OBVIOUS
    <2>2. baAux' = [baAux EXCEPT ![r][p] = w]
        BY <1>1, <2>1
    <2>3. baAux \in [Ba!BaRounds -> [Nodes -> {0, 1, None}]]
        BY DEF BaSetsOK
    <2> QED
        BY <1>0, <2>1, <2>2, <2>3
<1>4. baPc[p] = "bin" => baAux'[r][p] \in baBin[r][p]
    <2>1. baBin[r][p] \in SUBSET {0, 1}
        BY <1>0 DEF BaTypeOK
    <2> QED
        BY <1>0, <1>1, <1>3, <2>1
<1>5. baPc[p] = "aux" =>
          \A s \in Ba!BaRounds, q \in Nodes :
              baConf'[s][q] = IF s = r /\ q = p THEN baBin[r][p] ELSE baConf[s][q]
    BY <1>0, <1>1 DEF BaTypeOK
<1>6. baPc[p] = "aux" => baBin[r][p] # {}
    BY <1>0 DEF StepsDone, DoneBy, Reached
<1>7. baPc[p] = "conf" =>
          /\ baShared' \in [Ba!BaRounds -> SUBSET Nodes]
          /\ \A s \in Ba!BaRounds : baShared[s] \subseteq baShared'[s]
          /\ p \in baShared'[r]
    <2>1. baPc[p] = "conf" => baShared' = [baShared EXCEPT ![r] = @ \cup {p}]
        BY <1>1
    <2>2. baShared[r] \cup {p} \in SUBSET Nodes
        BY <1>0 DEF BaSetsOK
    <2> QED
        BY <1>0, <2>1, <2>2 DEF BaSetsOK
<1>8. SentStays
    <2>1. \A s \in Ba!BaRounds, q \in Nodes :
              baAux[s][q] \in baBin[s][q] => baAux'[s][q] \in baBin[s][q]
        BY <1>1, <1>3, <1>4
    <2>2. \A s \in Ba!BaRounds, q \in Nodes : baConf[s][q] # {} => baConf'[s][q] # {}
        BY <1>1, <1>5, <1>6
    <2>3. \A s \in Ba!BaRounds : baShared[s] \subseteq baShared'[s]
        BY <1>1, <1>7
    <2> QED
        BY <1>1, <2>1, <2>2, <2>3 DEF SentStays
<1>9. BaSetsOK'
    BY <1>1, <1>2, <1>3, <1>7 DEF BaSetsOK
<1>10. StepsDone'
    <2> SUFFICES ASSUME NEW q \in Nodes
                 PROVE  DoneBy(q)'
        BY DEF StepsDone
    <2>1. CASE q # p
        <3>1. baPc'[q] = baPc[q] /\ baRound'[q] = baRound[q]
            BY <1>0, <1>1, <2>1 DEF BaTypeOK
        <3> QED
            BY <1>8, <3>1, DoneStays DEF StepsDone
    <2>2. CASE q = p
        <3> SUFFICES ASSUME NEW s \in Ba!BaRounds
                     PROVE  /\ Reached(p, s, {"bin", "aux", "conf", "coin"})' => baEst'[s][p] # {}
                            /\ Reached(p, s, {"aux", "conf", "coin"})' => baAux'[s][p] \in baBin'[s][p]
                            /\ Reached(p, s, {"conf", "coin"})' => baConf'[s][p] # {}
                            /\ Reached(p, s, {"coin"})' => p \in baShared'[s]
            BY <1>2, <2>2 DEF DoneBy
        <3>0. DoneBy(p)
            BY DEF StepsDone
        <3>1. CASE s < r
            <4>1. \A phases : Reached(p, s, phases)
                BY <3>1 DEF Reached
            <4> QED
                BY <1>8, <3>0, <4>1 DEF DoneBy, SentStays
        <3>2. CASE s = r
            <4>1. \A phases : Reached(p, s, phases) <=> baPc[p] \in phases
                BY <1>0, <3>2 DEF Reached
            <4>2. \A phases : Reached(p, s, phases)' <=> baPc'[p] \in phases
                BY <1>0, <1>1, <3>2 DEF Reached
            <4>3. baPc[p] \in {"bin", "aux", "conf"} /\
                  baPc'[p] = IF baPc[p] = "bin" THEN "aux" ELSE IF baPc[p] = "aux" THEN "conf" ELSE "coin"
                BY <1>0, <1>1 DEF BaTypeOK
            <4>4. /\ baEst[s][p] # {}
                  /\ baPc[p] # "bin" => baAux[s][p] \in baBin[s][p]
                  /\ baPc[p] = "conf" => baConf[s][p] # {}
                BY <3>0, <4>1, <4>3 DEF DoneBy
            <4>5. /\ baEst'[s][p] # {}
                  /\ baAux'[s][p] \in baBin'[s][p]
                  /\ baPc[p] # "bin" => baConf'[s][p] # {}
                  /\ baPc[p] = "conf" => p \in baShared'[s]
                BY <1>1, <1>4, <1>5, <1>6, <1>7, <1>8, <3>2, <4>3, <4>4 DEF SentStays
            <4> QED
                BY <4>2, <4>3, <4>5
        <3>3. CASE s > r
            <4>1. \A phases : ~ Reached(p, s, phases)'
                BY <1>0, <1>1, <3>3 DEF Reached
            <4> QED
                BY <4>1
        <3> QED
            BY <1>0, <3>1, <3>2, <3>3
    <2> QED
        BY <2>1, <2>2
<1>11. BinsSent'
    BY <1>0, <1>1, <1>8, BinsSentStays
<1>12. ValuesThere'
    <2> SUFFICES ASSUME NEW q \in Nodes, baPc'[q] = "coin"
                 PROVE  baValues'[q] # {}
        BY DEF ValuesThere
    <2>1. CASE q = p
        BY <1>0, <1>1, <2>1 DEF BaTypeOK
    <2>2. CASE q # p
        <3>1. baPc[q] = "coin" /\ baValues'[q] = baValues[q]
            BY <1>0, <1>1, <2>2 DEF BaTypeOK
        <3> QED
            BY <3>1 DEF ValuesThere
    <2> QED
        BY <2>1, <2>2
<1>13. QuitOnCoin'
    <2>1. p \notin baQuit
        BY <1>1 DEF QuitOnCoin
    <2>2. \A q \in baQuit : baPc'[q] = baPc[q]
        BY <1>0, <1>1, <2>1 DEF BaTypeOK, BaSetsOK
    <2> QED
        BY <1>1, <1>2, <2>2 DEF QuitOnCoin
<1>14. CoinDecides'
    BY <1>0, <1>1, <1>8, CoinDecidesStays
<1> QED
    BY <1>9, <1>10, <1>11, <1>12, <1>13, <1>14

\* N - f nodes are some.
LEMMA QuorumNotEmpty ==
    ASSUME NEW Q, Cardinality(Q) = N - F
    PROVE  Q # {}
<1>1. N - F # 0
    BY FaultNumbers
<1>2. Cardinality({}) = 0
    BY FS_EmptySet
<1> QED
    BY <1>1, <1>2

\* The values a node has in the coin phase that are not the coin were sent.
LEMMA OtherValueSent ==
    ASSUME BaInv, NEW p \in Nodes, baPc[p] = "coin", Only(baRound[p], baCoin[baRound[p]])
    PROVE  baValues[p] \subseteq {baCoin[baRound[p]]}
<1> SUFFICES ASSUME NEW v \in baValues[p]
             PROVE  v = baCoin[baRound[p]]
    OBVIOUS
<1>1. Backed(baRound[p], v)
    BY ValuesBacked
<1>2. PICK q \in Nodes : v \in baEst[baRound[p]][q]
    BY <1>1, BackedSent
<1> QED
    BY <1>2 DEF Only

\* The next round: with a decision, if the coin was the only estimate.
LEMMA StartKeepsWaits ==
    ASSUME BaInv, BaInv', BaWaits, NEW p \in Nodes, baPc[p] = "coin", baRound[p] <= Ba!BaLast,
           NEW v \in {0, 1},
           Ba!StartRound(p, baRound[p] + 1, v),
           UNCHANGED <<baScope, baBin, baAux, baConf, baValues, baShared, baCoin, baQuit>>,
           p \notin baQuit,
           \/ baValues[p] # {baCoin[baRound[p]]} /\ UNCHANGED baDecision
           \/ baDecision' = [baDecision EXCEPT ![p] = baCoin[baRound[p]]]
    PROVE  BaWaits'
<1> USE DEF BaWaits
<1> DEFINE r == baRound[p]
<1>0. /\ BaTypeOK /\ BaTypeOK' /\ r \in Ba!BaRounds /\ r \in Nat /\ r \in BaCoins
      /\ r + 1 \in Ba!BaRounds /\ \A s \in Ba!BaRounds : s \in Nat
      /\ \A s \in BaCoins : s \in Ba!BaRounds
    BY BaRoundNumbers DEF BaInv, BaTypeOK
<1>1. UNCHANGED Ba!BaRounds /\ UNCHANGED BaCoins
    BY DEF Ba!BaRounds, BaCoins, Ba!BaLast
<1>2. /\ baRound' = [baRound EXCEPT ![p] = r + 1]
      /\ baPc' = [baPc EXCEPT ![p] = "bin"]
      /\ EstimateAdded(p, r + 1, v)
    BY DEF Ba!StartRound, EstimateAdded
<1>3. \A s \in Ba!BaRounds, q \in Nodes :
          baEst'[s][q] = IF s = r + 1 /\ q = p THEN baEst[s][q] \cup {v} ELSE baEst[s][q]
    <2>1. PICK n \in Ba!BaRounds : n = r + 1
        BY <1>0
    <2>2. EstimateAdded(p, n, v)
        BY <1>2, <2>1 DEF EstimateAdded
    <2>3. \A s \in Ba!BaRounds, q \in Nodes :
              baEst'[s][q] = IF s = n /\ q = p THEN baEst[s][q] \cup {v} ELSE baEst[s][q]
        <3>1. BaTypeOK
            BY <1>0
        <3> QED
            BY <2>1, <2>2, <3>1, EstimateAddedAt DEF EstimateAdded
    <2> QED
        BY <2>1, <2>3
<1>4. SentStays
    BY <1>3 DEF SentStays
<1>5. \A q \in Nodes : q # p => baRound'[q] = baRound[q] /\ baPc'[q] = baPc[q]
    BY <1>0, <1>2 DEF BaTypeOK
<1>6. baRound'[p] = r + 1 /\ baPc'[p] = "bin"
    BY <1>0, <1>2 DEF BaTypeOK
<1>7. BaSetsOK'
    BY <1>1 DEF BaSetsOK
<1>8. StepsDone'
    <2> SUFFICES ASSUME NEW q \in Nodes
                 PROVE  DoneBy(q)'
        BY DEF StepsDone
    <2>1. CASE q # p
        BY <1>4, <1>5, <2>1, DoneStays DEF StepsDone
    <2>2. CASE q = p
        <3> SUFFICES ASSUME NEW s \in Ba!BaRounds
                     PROVE  /\ Reached(p, s, {"bin", "aux", "conf", "coin"})' => baEst'[s][p] # {}
                            /\ Reached(p, s, {"aux", "conf", "coin"})' => baAux'[s][p] \in baBin'[s][p]
                            /\ Reached(p, s, {"conf", "coin"})' => baConf'[s][p] # {}
                            /\ Reached(p, s, {"coin"})' => p \in baShared'[s]
            BY <1>1, <2>2 DEF DoneBy
        <3>0. DoneBy(p) /\ s \in Nat
            BY <1>0 DEF StepsDone
        <3>1. CASE s <= r
            <4>1. \A phases : "coin" \in phases => Reached(p, s, phases)
                BY <1>0, <3>0, <3>1 DEF Reached
            <4>2. /\ baEst[s][p] # {} /\ baAux[s][p] \in baBin[s][p]
                  /\ baConf[s][p] # {} /\ p \in baShared[s]
                BY <3>0, <4>1 DEF DoneBy
            <4> QED
                BY <1>4, <4>2 DEF SentStays
        <3>2. CASE s > r
            <4>1. \A phases : Reached(p, s, phases)' => s = r + 1 /\ "bin" \in phases
                BY <1>0, <1>6, <3>0, <3>2 DEF Reached
            <4>2. v \in baEst'[r + 1][p]
                BY <1>0, <1>3
            <4> QED
                BY <4>1, <4>2
        <3> QED
            BY <1>0, <3>0, <3>1, <3>2
    <2> QED
        BY <2>1, <2>2
<1>9. BinsSent'
    BY <1>0, <1>4, BinsSentStays
<1>10. ValuesThere'
    BY <1>5, <1>6 DEF ValuesThere
<1>11. QuitOnCoin'
    <2>1. \A q \in baQuit : /\ q \in Nodes /\ q # p
        BY DEF BaSetsOK
    <2>2. \A q \in baQuit : baDecision'[q] = baDecision[q]
        BY <1>0, <2>1 DEF BaTypeOK
    <2> QED
        BY <1>1, <1>5, <2>1, <2>2 DEF QuitOnCoin
<1>12. CoinDecides'
    <2>0. baCoin[r] \in {0, 1}
        BY <1>0 DEF BaTypeOK
    <2>1. \A q \in Nodes : baDecision[q] # None => baDecision'[q] # None
        BY <1>0, <2>0, AgreementsAssumption DEF BaTypeOK
    <2>2. ASSUME NEW q \in Nodes, NEW s \in BaCoins, s < baRound'[q], Only(s, baCoin[s])
          PROVE  s < baRound[q] \/ baDecision'[q] # None
        <3>1. CASE q # p
            BY <1>5, <2>2, <3>1
        <3>2. CASE q = p /\ s # r
            <4>1. s \in Nat /\ s < r + 1
                BY <1>0, <1>6, <2>2, <3>2
            <4> QED
                BY <1>0, <3>2, <4>1
        <3>3. CASE q = p /\ s = r
            <4>1. baValues[p] \subseteq {baCoin[r]}
                BY <2>2, <3>3, OtherValueSent
            <4>2. baValues[p] = {baCoin[r]}
                BY <4>1 DEF ValuesThere
            <4>3. baDecision'[p] = baCoin[r]
                BY <1>0, <4>2 DEF BaTypeOK
            <4> QED
                BY <2>0, <3>3, <4>3, AgreementsAssumption
        <3> QED
            BY <3>1, <3>2, <3>3
    <2> QED
        BY <1>0, <1>4, <2>1, <2>2, CoinDecidesStays
<1> QED
    BY <1>7, <1>8, <1>9, <1>10, <1>11, <1>12

\* A node quits on the coin that it has decided before.
LEMMA QuitKeepsWaits ==
    ASSUME BaInv, BaInv', BaWaits, NEW p \in Nodes, Ba!DecideOrQuit(p), baDecision[p] # None
    PROVE  BaWaits'
<1> USE DEF BaWaits
<1> DEFINE r == baRound[p]
<1>0. BaTypeOK /\ BaTypeOK' /\ r \in BaCoins /\ r \in Ba!BaRounds
    BY BaRoundNumbers DEF BaInv, BaTypeOK, Ba!DecideOrQuit, Ba!CoinIn, Ba!BaRuns
<1>1. /\ UNCHANGED <<baScope, baInput, baRound, baPc, baEst, baBin, baAux, baConf, baValues, baShared,
                     baCoin, baDecision>>
      /\ baPc[p] = "coin" /\ baValues[p] = {baCoin[r]}
      /\ baQuit' = baQuit \cup {p}
    BY DEF Ba!DecideOrQuit, Ba!CoinIn
<1>2. UNCHANGED Ba!BaRounds /\ UNCHANGED BaCoins
    BY <1>1 DEF Ba!BaRounds, BaCoins, Ba!BaLast
<1>3. SentStays
    BY <1>1 DEF SentStays
<1>4. baDecision[p] = baCoin[r]
    <2>1. PICK t \in BaCoins : t < r /\ baDecision[p] = baCoin[t] /\ Single(t, baCoin[t])
        BY DEF BaInv, DecidedOnCoin
    <2>2. Only(r, baCoin[t])
        BY <1>0, <2>1, SingleCoinOnly
    <2>3. Backed(r, baCoin[r])
        BY <1>1, ValuesBacked
    <2>4. PICK q \in Nodes : baCoin[r] \in baEst[r][q]
        BY <2>3, BackedSent
    <2> QED
        BY <2>1, <2>2, <2>4 DEF Only
<1>5. BaSetsOK' /\ ValuesThere'
    BY <1>1, <1>2 DEF BaSetsOK, ValuesThere
<1>6. StepsDone'
    BY <1>1, <1>3, DoneStays DEF StepsDone
<1>7. BinsSent'
    BY <1>0, <1>1, <1>3, BinsSentStays
<1>8. QuitOnCoin'
    BY <1>0, <1>1, <1>2, <1>4 DEF QuitOnCoin
<1>9. CoinDecides'
    BY <1>0, <1>1, <1>3, CoinDecidesStays
<1> QED
    BY <1>5, <1>6, <1>7, <1>8, <1>9

\* Every step keeps what waiting nodes have.
LEMMA BaStepWaits == BaInv /\ BaWaits /\ [Ba!BaNext]_Ba!baVars => BaWaits'
<1> SUFFICES ASSUME BaInv, BaWaits, [Ba!BaNext]_Ba!baVars
             PROVE  BaWaits'
    OBVIOUS
<1>0. BaInv' /\ BaTypeOK /\ Ba!BaInputs \subseteq {0, 1} /\ \A r \in BaCoins : r \in Ba!BaRounds
    BY BaStepInv, BaRoundNumbers DEF BaInv, BaTypeOK
<1>1. CASE UNCHANGED Ba!baVars
    <2>1. /\ UNCHANGED <<baScope, baInput, baRound, baPc, baEst, baBin, baAux, baConf, baValues,
                          baShared, baCoin, baDecision, baQuit>>
          /\ UNCHANGED Ba!BaRounds /\ UNCHANGED BaCoins
        BY <1>1 DEF Ba!baVars, BaCoins, Ba!BaRounds, Ba!BaLast
    <2>2. SentStays
        BY <2>1 DEF SentStays
    <2>3. BaSetsOK' /\ ValuesThere' /\ QuitOnCoin'
        BY <2>1 DEF BaWaits, BaSetsOK, ValuesThere, QuitOnCoin
    <2>4. StepsDone'
        BY <2>1, <2>2, DoneStays DEF BaWaits, StepsDone
    <2>5. BinsSent'
        BY <2>1 DEF BaWaits, BinsSent, Ba!EstSenders
    <2>6. CoinDecides'
        BY <2>1 DEF BaWaits, CoinDecides, Only
    <2> QED
        BY <2>3, <2>4, <2>5, <2>6 DEF BaWaits
<1>2. ASSUME NEW p \in Nodes, NEW r \in 0 .. Ba!BaLast, NEW v \in Ba!BaBits,
             Ba!Relay(p, r, v) \/ Ba!AddBin(p, r, v)
      PROVE  BaWaits'
    <2>1. r \in BaCoins /\ r \in Ba!BaRounds /\ v \in {0, 1}
        BY <1>0 DEF BaCoins, Ba!BaBits
    <2>2. CASE Ba!Relay(p, r, v)
        BY <1>0, <2>1, <2>2, EstKeepsWaits DEF Ba!Relay, EstimateAdded
    <2>3. CASE Ba!AddBin(p, r, v)
        BY <1>0, <2>1, <2>3, BinKeepsWaits
    <2> QED
        BY <1>2, <2>2, <2>3
<1>3. ASSUME NEW p \in Nodes, Ba!BaMain(p)
      PROVE  BaWaits'
    <2>1. ASSUME NEW v \in Ba!BaInputs, Ba!BaPropose(p, v)
          PROVE  BaWaits'
        <3>1. 0 \in Ba!BaRounds /\ v \in {0, 1} /\ baPc[p] = "input" /\ baRound[p] = 0
            BY <1>0, <2>1, BaRoundNumbers DEF Ba!BaPropose, Ba!InputDue, BaInv, InputOnce
        <3> QED
            BY <1>0, <2>1, <3>1, EstKeepsWaits DEF Ba!BaPropose, Ba!StartRound, EstimateAdded
    <2>2. CASE Ba!BaSendAux(p) \/ Ba!BaSendConf(p)
        BY <1>0, <2>2, PhaseKeepsWaits
    <2>3. ASSUME NEW vs \in SUBSET Ba!BaBits, Ba!BaEndConf(p, vs)
          PROVE  BaWaits'
        <3>1. PICK Q \in SUBSET Nodes : Cardinality(Q) = N - F /\ Ba!Confirms(p, baRound[p], Q, vs)
            BY <2>3, BaNumbers DEF Ba!BaEndConf, Ba!ConfsIn
        <3>2. Q # {}
            BY <3>1, QuorumNotEmpty
        <3>3. vs # {}
            BY <3>1, <3>2 DEF Ba!Confirms, Ba!BaBits
        <3> QED
            BY <1>0, <2>3, <3>3, PhaseKeepsWaits DEF Ba!BaBits
    <2>4. CASE Ba!Continue(p)
        <3>1. PICK v \in {0, 1} : Ba!StartRound(p, baRound[p] + 1, v)
            BY <2>4 DEF Ba!Continue, Ba!BaBits
        <3> QED
            BY <1>0, <2>4, <3>1, StartKeepsWaits DEF Ba!Continue, Ba!CoinIn, Ba!BaRuns
    <2>5. CASE Ba!DecideOrQuit(p) /\ baDecision[p] = None
        <3>1. baCoin[baRound[p]] \in {0, 1}
            BY <1>0, <2>5, BaRoundNumbers
            DEF BaTypeOK, Ba!DecideOrQuit, Ba!CoinIn, Ba!BaRuns
        <3>2. PICK v \in {0, 1} : v = baCoin[baRound[p]]
            BY <3>1
        <3> QED
            BY <1>0, <2>5, <3>2, StartKeepsWaits DEF Ba!DecideOrQuit, Ba!CoinIn, Ba!BaRuns
    <2>6. CASE Ba!DecideOrQuit(p) /\ baDecision[p] # None
        BY <1>0, <2>6, QuitKeepsWaits
    <2> QED
        BY <1>3, <2>1, <2>2, <2>3, <2>4, <2>5, <2>6 DEF Ba!BaMain
<1> QED
    BY <1>1, <1>2, <1>3 DEF Ba!BaNext, Ba!BaReceive

\* Of two values that all nodes chose from, more than f nodes chose one.
LEMMA OneValueBacked ==
    ASSUME NEW A \in SUBSET Nodes, NEW B \in SUBSET Nodes, A \cup B = Nodes
    PROVE  Cardinality(A) >= F + 1 \/ Cardinality(B) >= F + 1
<1>1. IsFiniteSet(A) /\ IsFiniteSet(B) /\ Cardinality(A) \in Nat /\ Cardinality(B) \in Nat
      /\ Cardinality(A \cap B) \in Nat
    BY NodeSets
<1>2. N = Cardinality(A) + Cardinality(B) - Cardinality(A \cap B)
    BY <1>1, FS_Union DEF N
<1> QED
    BY <1>1, <1>2, FaultNumbers

\* When nothing is left to do: in the earliest round of a node that runs, all
\* nodes sent the EST, and those that run relayed all that f + 1 sent and have
\* all bin values of others; so their AUX and CONF are within these, and
\* N - f of them let the node go on.  A node that quit before this round did so on
\* a coin that was the only estimate, and everybody who left that round decided.
LEMMA BaSettledDecided == BaInv /\ BaWaits => Ba!OnlyDecidedWait
<1> SUFFICES ASSUME BaInv, BaWaits, Ba!BaSettled,
                    NEW p \in Nodes, Ba!BaRuns(p), baDecision[p] = None
             PROVE  FALSE
    BY DEF Ba!OnlyDecidedWait
<1> USE DEF BaWaits
<1>0. /\ BaTypeOK /\ \A s \in Ba!BaRounds : s \in Nat
      /\ \A q \in Nodes : baRound[q] \in Nat /\ baRound[q] \in Ba!BaRounds
      /\ \A s \in BaCoins : s \in Ba!BaRounds
    BY BaRoundNumbers DEF BaInv, BaTypeOK
<1>1. PICK x \in Nodes : Ba!BaRuns(x) /\ \A q \in Nodes : Ba!BaRuns(q) => baRound[x] <= baRound[q]
    <2> DEFINE R == {baRound[q] : q \in {y \in Nodes : Ba!BaRuns(y)}}
    <2>1. R \in SUBSET Nat /\ R # {}
        BY <1>0
    <2>2. PICK n \in R : \A m \in R : n <= m
        BY <2>1, LeastNumber
    <2>3. PICK y \in Nodes : Ba!BaRuns(y) /\ n = baRound[y]
        BY <2>2
    <2> QED
        BY <2>2, <2>3
<1>2. PICK u : u = baRound[x]
    OBVIOUS
<1>3. u \in Nat /\ u \in Ba!BaRounds /\ u \in BaCoins /\ u <= baRound[p]
    BY <1>0, <1>1, <1>2, BaRoundNumbers DEF Ba!BaRuns
<1>4. ASSUME NEW q \in Nodes
      PROVE  baPc[q] # "input"
    BY DEF Ba!BaSettled, Ba!InputDue
<1>5. ASSUME NEW q \in Nodes, ~ Ba!BaRuns(q)
      PROVE  Reached(q, u, {"coin"})
    <2>1. CASE q \notin baQuit
        <3>1. ~ baRound[q] <= Ba!BaLast
            BY <1>5, <2>1 DEF Ba!BaRuns
        <3>2. u <= Ba!BaLast /\ Ba!BaLast \in Nat
            BY <1>0, <1>1, <1>2 DEF Ba!BaRuns, BaTypeOK
        <3> QED
            BY <1>0, <1>3, <3>1, <3>2 DEF Reached
    <2>2. CASE q \in baQuit
        <3>1. /\ baPc[q] = "coin" /\ baRound[q] \in BaCoins
              /\ baDecision[q] # None /\ baDecision[q] = baCoin[baRound[q]]
            BY <2>2 DEF QuitOnCoin
        <3>2. PICK t \in BaCoins : t < baRound[q] /\ baDecision[q] = baCoin[t] /\ Single(t, baCoin[t])
            BY <3>1 DEF BaInv, DecidedOnCoin
        <3>3. Only(baRound[q], baCoin[baRound[q]])
            BY <1>0, <3>1, <3>2, SingleCoinOnly
        <3>4. ~ baRound[q] < baRound[p]
            BY <3>1, <3>3 DEF CoinDecides
        <3>5. u <= baRound[q]
            BY <1>0, <1>3, <3>4
        <3> QED
            BY <1>0, <1>3, <3>1, <3>5 DEF Reached
    <2> QED
        BY <2>1, <2>2
<1>6. ASSUME NEW q \in Nodes
      PROVE  Reached(q, u, {"bin", "aux", "conf", "coin"})
    <2>1. CASE Ba!BaRuns(q)
        <3>1. u <= baRound[q] /\ baPc[q] \in {"bin", "aux", "conf", "coin"}
            BY <1>0, <1>1, <1>2, <1>4, <2>1 DEF BaTypeOK
        <3> QED
            BY <1>0, <1>3, <3>1 DEF Reached
    <2>2. CASE ~ Ba!BaRuns(q)
        BY <1>5, <2>2 DEF Reached
    <2> QED
        BY <2>1, <2>2
<1>7. ASSUME NEW z \in Nodes, Ba!BaRuns(z), NEW v \in {0, 1},
             Cardinality(Ba!EstSenders(u, v)) >= F + 1
      PROVE  v \in baEst[u][z]
    <2>1. u \in 0 .. Ba!BaLast /\ v \in Ba!BaBits
        BY <1>3 DEF BaCoins, Ba!BaBits
    <2> QED
        BY <1>7, <2>1, BaNumbers DEF Ba!BaSettled, Ba!RelayDue, Ba!RelayThreshold
<1>8. ASSUME NEW z \in Nodes, Ba!BaRuns(z), NEW v \in {0, 1},
             Cardinality(Ba!EstSenders(u, v)) >= 2 * F + 1
      PROVE  v \in baBin[u][z]
    <2>1. u \in 0 .. Ba!BaLast /\ v \in Ba!BaBits
        BY <1>3 DEF BaCoins, Ba!BaBits
    <2>2. Cardinality(Ba!EstSenders(u, v)) \in Nat
        <3>1. Ba!EstSenders(u, v) \in SUBSET Nodes
            BY DEF Ba!EstSenders
        <3> QED
            BY <3>1, NodeSets
    <2>3. v \in baEst[u][z]
        BY <1>7, <1>8, <2>2, FaultNumbers
    <2> QED
        BY <1>8, <2>1, <2>3, BaNumbers DEF Ba!BaSettled, Ba!BinDue
<1>9. ASSUME NEW z \in Nodes, Ba!BaRuns(z), NEW q \in Nodes
      PROVE  baBin[u][q] \subseteq baBin[u][z]
    <2> SUFFICES ASSUME NEW v \in baBin[u][q]
                 PROVE  v \in baBin[u][z]
        OBVIOUS
    <2>1. v \in {0, 1}
        BY <1>0, <1>3 DEF BaTypeOK
    <2>2. Cardinality(Ba!EstSenders(u, v)) >= 2 * F + 1
        BY <1>3 DEF BinsSent
    <2> QED
        BY <1>8, <1>9, <2>1, <2>2
<1>10. ASSUME NEW z \in Nodes, Ba!BaRuns(z), baRound[z] = u
       PROVE  baBin[u][z] # {}
    <2> SUFFICES ASSUME baBin[u][z] = {}
                 PROVE  FALSE
        OBVIOUS
    <2>1. \A q \in Nodes : baBin[u][q] = {}
        BY <1>9, <1>10
    <2>2. \A q \in Nodes : ~ Reached(q, u, {"aux", "conf", "coin"})
        BY <1>3, <2>1 DEF StepsDone, DoneBy
    <2>3. \A q \in Nodes : Ba!BaRuns(q)
        BY <1>5, <2>2 DEF Reached
    <2>4. \A q \in Nodes : baEst[u][q] # {} /\ baEst[u][q] \in SUBSET {0, 1}
        BY <1>0, <1>3, <1>6 DEF StepsDone, DoneBy, BaTypeOK
    <2>5. PICK v \in {0, 1} : Cardinality(Ba!EstSenders(u, v)) >= F + 1
        <3>1. Ba!EstSenders(u, 0) \cup Ba!EstSenders(u, 1) = Nodes
            BY <2>4 DEF Ba!EstSenders
        <3>2. Ba!EstSenders(u, 0) \in SUBSET Nodes /\ Ba!EstSenders(u, 1) \in SUBSET Nodes
            BY DEF Ba!EstSenders
        <3> QED
            BY <3>1, <3>2, OneValueBacked
    <2>6. Ba!EstSenders(u, v) = Nodes
        BY <1>7, <2>3, <2>5 DEF Ba!EstSenders
    <2>7. Cardinality(Ba!EstSenders(u, v)) >= 2 * F + 1
        BY <2>6, FaultNumbers DEF N
    <2> QED
        BY <1>8, <1>10, <2>7
<1>11. ASSUME NEW q \in Nodes
       PROVE  Reached(q, u, {"aux", "conf", "coin"})
    <2>1. CASE Ba!BaRuns(q) /\ baRound[q] = u
        <3>1. baPc[q] # "bin"
            BY <1>10, <2>1 DEF Ba!BaSettled, Ba!AuxDue
        <3> QED
            BY <1>0, <1>4, <2>1, <3>1 DEF Reached, BaTypeOK
    <2>2. CASE Ba!BaRuns(q) /\ baRound[q] # u
        BY <1>0, <1>1, <1>2, <1>3, <2>2 DEF Reached
    <2>3. CASE ~ Ba!BaRuns(q)
        BY <1>5, <2>3 DEF Reached
    <2> QED
        BY <2>1, <2>2, <2>3
<1>12. ASSUME NEW q \in Nodes
       PROVE  Reached(q, u, {"conf", "coin"})
    <2>1. CASE Ba!BaRuns(q) /\ baRound[q] = u
        <3>1. \A y \in Nodes : baAux[u][y] \in baBin[u][q]
            BY <1>3, <1>9, <1>11, <2>1 DEF StepsDone, DoneBy
        <3>2. {y \in Nodes : baAux[u][y] \in baBin[u][q]} \in Ba!Quorum
            BY <3>1, BaNumbers, FaultNumbers
        <3>3. baPc[q] # "aux"
            BY <2>1, <3>2 DEF Ba!BaSettled, Ba!ConfDue
        <3> QED
            BY <1>0, <1>11, <2>1, <3>3 DEF Reached
    <2>2. CASE Ba!BaRuns(q) /\ baRound[q] # u
        BY <1>0, <1>1, <1>2, <1>3, <2>2 DEF Reached
    <2>3. CASE ~ Ba!BaRuns(q)
        BY <1>5, <2>3 DEF Reached
    <2> QED
        BY <2>1, <2>2, <2>3
<1>13. \A q \in Nodes : baConf[u][q] # {} /\ baConf[u][q] \subseteq baBin[u][q]
                        /\ baConf[u][q] \in SUBSET {0, 1}
    BY <1>0, <1>3, <1>12 DEF StepsDone, DoneBy, BaInv, BinsBacked, BaTypeOK
<1>14. ASSUME NEW q \in Nodes
       PROVE  Reached(q, u, {"coin"})
    <2>1. CASE Ba!BaRuns(q) /\ baRound[q] = u
        <3>1. PICK Q \in SUBSET Nodes : Cardinality(Q) = N - F
            <4>1. N - F \in 0 .. Cardinality(Nodes)
                BY FaultNumbers DEF N
            <4> QED
                BY <4>1, FaultAssumption, SubsetOfSize
        <3>2. Q # {}
            BY <3>1, QuorumNotEmpty
        <3>3. \A y \in Q : baConf[u][y] # {} /\ baConf[u][y] \subseteq baBin[u][q]
            BY <1>9, <1>13, <2>1
        <3>4. \E vs \in SUBSET {0, 1} : Ba!Confirms(q, u, Q, vs)
            <4>1. CASE \E v \in {0, 1} : \A y \in Q : baConf[u][y] = {v}
                <5>1. PICK v \in {0, 1} : \A y \in Q : baConf[u][y] = {v}
                    BY <4>1
                <5>2. Ba!Confirms(q, u, Q, {v})
                    BY <3>3, <5>1 DEF Ba!Confirms, Ba!BaBits
                <5>3. {v} \in SUBSET {0, 1}
                    OBVIOUS
                <5> QED
                    BY <5>2, <5>3
            <4>2. CASE ~ \E v \in {0, 1} : \A y \in Q : baConf[u][y] = {v}
                <5>1. Ba!Confirms(q, u, Q, {0, 1})
                    BY <3>3, <4>2 DEF Ba!Confirms, Ba!BaBits
                <5> QED
                    BY <5>1
            <4> QED
                BY <4>1, <4>2
        <3>5. baPc[q] # "conf"
            BY <2>1, <3>1, <3>4, BaNumbers DEF Ba!BaSettled, Ba!ConfsIn, Ba!BaBits
        <3> QED
            BY <1>0, <1>12, <2>1, <3>5 DEF Reached
    <2>2. CASE Ba!BaRuns(q) /\ baRound[q] # u
        BY <1>0, <1>1, <1>2, <1>3, <2>2 DEF Reached
    <2>3. CASE ~ Ba!BaRuns(q)
        BY <1>5, <2>3
    <2> QED
        BY <2>1, <2>2, <2>3
<1>15. baShared[u] = Nodes
    BY <1>3, <1>14 DEF StepsDone, DoneBy, BaSetsOK
<1>16. Ba!CoinShown(u)
    BY <1>15, BaNumbers, FaultNumbers DEF Ba!CoinShown, N
<1>17. baPc[x] = "coin"
    BY <1>0, <1>2, <1>14 DEF Reached
<1> QED
    BY <1>1, <1>2, <1>16, <1>17 DEF Ba!BaSettled, Ba!CoinIn
-----------------------------------------------------------------------------
(***************************************************************************)
(* Recast.  A lock stands for 2f + 1 fragments stored, f + 1 of them at    *)
(* live nodes, and the start of a recast without one for N - f nodes that  *)
(* returned: more than f of those that are up answer, and the node that    *)
(* recasts decodes by the last of these.                                   *)
(***************************************************************************)
RcTypeOK ==
    /\ pdLeader \in Nodes
    /\ pdHeld \in [Nodes -> 0 .. 2]
    /\ pdStored \in SUBSET Nodes /\ pdLocked \in SUBSET Nodes /\ pdUp \in SUBSET Nodes
    /\ rcStar \in BOOLEAN
    /\ rcWatch \in pdUp
    /\ rcIn \in SUBSET Nodes
    /\ rcCount \in [Nodes -> 0 .. 3]
    /\ rcOut \in {None, "value", "raised"}

\* STORED follows STORE, and LOCK follows 2f + 1 STORED.
LockBacked ==
    /\ \A p \in pdStored : pdHeld[p] > 0
    /\ (\E p \in Nodes : pdHeld[p] = 2) => Cardinality(pdStored) >= 2 * F + 1

RcReturned == {p \in Nodes : Rc!Returned(p)}

\* What the start of the recast tells.
RecastBacked ==
    /\ rcStar /\ rcIn # {} => pdHeld[pdLeader] = 2
    /\ ~ rcStar /\ rcIn # {} => rcIn \subseteq RcReturned /\ Cardinality(RcReturned) >= N - F

\* The nodes whose second RCLOCK was counted.
LockedTwice == {q \in Nodes : rcCount[q] = 3}

\* Without a value not enough was counted; only an empty fragment raises.
NotEnough ==
    /\ rcOut = None /\ rcStar => Cardinality(Rc!Commit) <= F
    /\ rcOut = None /\ ~ rcStar => Cardinality(LockedTwice) <= F
    /\ rcOut = "raised" => ~ rcStar /\ pdHeld[pdLeader] = 0

RcInv ==
    /\ RcTypeOK
    /\ Cardinality(Nodes \ pdUp) <= F
    /\ LockBacked
    /\ RecastBacked
    /\ NotEnough

\* Numbers of nodes are the same in Recast and here.
LEMMA RcNumbers == Rc!N = N /\ \A S : Rc!Cardinality(S) = Cardinality(S)
<1>1. \A S : Rc!Cardinality(S) = Cardinality(S)
    BY DEF Rc!Cardinality, Cardinality
<1> QED
    BY <1>1 DEF Rc!N, N

\* Nothing is dispersed and nobody recasts at first.
LEMMA RcInitInv == Rc!RcInit => RcInv
<1> SUFFICES ASSUME Rc!RcInit PROVE RcInv
    OBVIOUS
<1>1. Cardinality(Nodes \ pdUp) <= F
    <2>1. Nodes \ pdUp = {}
        BY DEF Rc!RcInit, Rc!PdInit
    <2> QED
        BY <2>1, FS_EmptySet, FaultNumbers
<1>2. RcTypeOK /\ LockBacked /\ RecastBacked
    BY DEF Rc!RcInit, Rc!PdInit, RcTypeOK, LockBacked, RecastBacked
<1>3. NotEnough
    <2>1. Rc!Commit = {} /\ LockedTwice = {}
        BY DEF Rc!RcInit, Rc!Commit, LockedTwice
    <2> QED
        BY <2>1, FS_EmptySet, FaultNumbers, AgreementsAssumption DEF Rc!RcInit, NotEnough
<1> QED
    BY <1>1, <1>2, <1>3 DEF RcInv

\* A node that returned from the dispersal has returned for good.
LEMMA ReturnedStays ==
    ASSUME RcTypeOK, pdLeader' = pdLeader, pdLocked \subseteq pdLocked', pdLocked' \in SUBSET Nodes,
           \A p \in Nodes : pdHeld[p] = 2 => pdHeld'[p] = 2
    PROVE  RcReturned \subseteq RcReturned'
<1>1. /\ Cardinality(pdLocked) <= Cardinality(pdLocked')
      /\ Cardinality(pdLocked) \in Nat /\ Cardinality(pdLocked') \in Nat
    BY NodeSets
<1>2. Rc!DoneSent => Rc!DoneSent'
    BY <1>1, RcNumbers, FaultNumbers DEF Rc!DoneSent
<1> QED
    BY <1>2 DEF RcReturned, Rc!Returned

\* The dispersal goes on: more is stored and locked, and a node may crash.
LEMMA DisperseKeeps ==
    ASSUME RcInv, rcOut = None, Rc!Disperse
    PROVE  RcInv'
<1>0. RcTypeOK
    BY DEF RcInv
<1>1. /\ UNCHANGED <<rcStar, rcWatch, rcIn, rcCount, rcOut>>
      /\ rcWatch \in pdUp'
    BY DEF Rc!Disperse
<1>2. PICK p \in Nodes : \/ Rc!HandleStore(p)
                         \/ Rc!HandleStored(p)
                         \/ Rc!HandleLock(p)
                         \/ Rc!HandleLocked(p)
                         \/ \E lost \in SUBSET (Nodes \ {p}) : Rc!PdCrash(p, lost)
    BY DEF Rc!Disperse, Rc!PdStep
<1>3. NotEnough'
    <2>1. Rc!Commit' = Rc!Commit /\ LockedTwice' = LockedTwice
        BY <1>1 DEF Rc!Commit, LockedTwice
    <2> QED
        BY <1>1, <2>1, AgreementsAssumption DEF RcInv, NotEnough
<1>4. /\ pdLeader' = pdLeader
      /\ pdStored' \in {pdStored, pdStored \cup {p}}
      /\ pdLocked' \in {pdLocked, pdLocked \cup {p}}
      /\ pdUp' \in {pdUp, pdUp \ {p}}
      /\ \/ pdHeld' = pdHeld
         \/ pdHeld' = [pdHeld EXCEPT ![p] = 1] /\ pdHeld[p] = 0
         \/ pdHeld' = [pdHeld EXCEPT ![p] = 2] /\ pdHeld[p] = 1
    BY <1>2 DEF Rc!HandleStore, Rc!HandleStored, Rc!HandleLock, Rc!HandleLocked, Rc!PdCrash
<1>5. RcTypeOK'
    <2>1. pdHeld' \in [Nodes -> 0 .. 2]
        BY <1>0, <1>4 DEF RcTypeOK
    <2> QED
        BY <1>0, <1>1, <1>4, <2>1 DEF RcTypeOK
<1>6. \A q \in Nodes : /\ pdHeld[q] > 0 => pdHeld'[q] > 0
                       /\ pdHeld[q] = 2 => pdHeld'[q] = 2
    BY <1>0, <1>4 DEF RcTypeOK
<1>7. Cardinality(Nodes \ pdUp') <= F
    <2>1. CASE pdUp' = pdUp
        BY <2>1 DEF RcInv
    <2>2. CASE pdUp' # pdUp
        <3>1. Cardinality(Nodes \ pdUp) < PdMaxCrash /\ pdUp' = pdUp \ {p}
            BY <1>2, <2>2, RcNumbers
            DEF Rc!HandleStore, Rc!HandleStored, Rc!HandleLock, Rc!HandleLocked, Rc!PdCrash
        <3>2. Nodes \ pdUp' = (Nodes \ pdUp) \cup {p}
            BY <3>1
        <3> QED
            BY <3>1, <3>2, OneMoreNode, AgreementsAssumption
    <2> QED
        BY <2>1, <2>2
<1>8. LockBacked'
    <2>1. \A q \in pdStored' : pdHeld'[q] > 0
        <3>1. pdStored' = pdStored \/ (pdStored' = pdStored \cup {p} /\ pdHeld[p] > 0)
            BY <1>2 DEF Rc!HandleStore, Rc!HandleStored, Rc!HandleLock, Rc!HandleLocked, Rc!PdCrash
        <3> QED
            BY <1>0, <1>6, <3>1 DEF RcInv, LockBacked, RcTypeOK
    <2>2. ASSUME NEW q \in Nodes, pdHeld'[q] = 2
          PROVE  Cardinality(pdStored) >= 2 * F + 1
        <3>1. (\E n \in Nodes : pdHeld[n] = 2) \/ Rc!LockSent
            <4>1. CASE pdHeld[q] = 2
                BY <4>1
            <4>2. CASE pdHeld[q] # 2
                BY <1>0, <1>2, <2>2, <4>2
                DEF RcTypeOK, Rc!HandleStore, Rc!HandleStored, Rc!HandleLock, Rc!HandleLocked, Rc!PdCrash
            <4> QED
                BY <4>1, <4>2
        <3> QED
            BY <3>1, RcNumbers DEF RcInv, LockBacked, Rc!LockSent, Rc!StoredNeeded
    <2>3. /\ Cardinality(pdStored) <= Cardinality(pdStored')
          /\ Cardinality(pdStored) \in Nat /\ Cardinality(pdStored') \in Nat
        <3>1. pdStored \subseteq pdStored' /\ pdStored' \in SUBSET Nodes
            BY <1>4, <1>5 DEF RcTypeOK
        <3> QED
            BY <3>1, NodeSets
    <2> QED
        BY <2>1, <2>2, <2>3, FaultNumbers DEF LockBacked
<1>9. RecastBacked'
    <2>1. RcReturned \subseteq RcReturned' /\ RcReturned' \in SUBSET Nodes
        <3>1. pdLocked \subseteq pdLocked' /\ pdLocked' \in SUBSET Nodes
            BY <1>4, <1>5 DEF RcTypeOK
        <3>2. RcReturned' \in SUBSET Nodes
            BY DEF RcReturned
        <3> QED
            BY <1>0, <1>4, <1>6, <3>1, <3>2, ReturnedStays
    <2>2. /\ Cardinality(RcReturned) <= Cardinality(RcReturned')
          /\ Cardinality(RcReturned) \in Nat /\ Cardinality(RcReturned') \in Nat
        BY <2>1, NodeSets
    <2>3. Cardinality(RcReturned) >= N - F => Cardinality(RcReturned') >= N - F
        BY <2>2, FaultNumbers
    <2>4. pdHeld[pdLeader] = 2 => pdHeld'[pdLeader'] = 2
        BY <1>0, <1>4, <1>6 DEF RcTypeOK
    <2> QED
        BY <1>1, <2>1, <2>3, <2>4 DEF RcInv, RecastBacked
<1> QED
    BY <1>3, <1>5, <1>7, <1>8, <1>9 DEF RcInv

\* A node starts the recast.
LEMMA StartRecastKeeps ==
    ASSUME RcInv, NEW p \in Nodes, Rc!StartRecast(p) \/ Rc!VabaDecides(p)
    PROVE  RcInv'
<1>0. RcTypeOK
    BY DEF RcInv
<1>1. /\ rcIn' = rcIn \cup {p}
      /\ UNCHANGED <<pdLeader, pdHeld, pdStored, pdLocked, pdUp, rcStar, rcWatch, rcCount, rcOut>>
    BY DEF Rc!StartRecast, Rc!VabaDecides, Rc!pdVars
<1>2. Rc!Commit' = Rc!Commit /\ LockedTwice' = LockedTwice /\ RcReturned' = RcReturned
    BY <1>1 DEF Rc!Commit, LockedTwice, RcReturned, Rc!Returned, Rc!DoneSent
<1>3. RecastBacked'
    <2>1. CASE Rc!VabaDecides(p)
        BY <1>1, <2>1 DEF RecastBacked, Rc!VabaDecides, Rc!VabaOut
    <2>2. CASE Rc!StartRecast(p)
        <3>1. /\ ~ rcStar /\ p \in RcReturned
              /\ rcIn # {} \/ Cardinality({q \in pdUp : Rc!Returned(q)}) >= N - F
            BY <2>2, RcNumbers DEF Rc!StartRecast, Rc!RecastDue, RcReturned
        <3>2. rcIn = {} => Cardinality(RcReturned) >= N - F
            <4>1. {q \in pdUp : Rc!Returned(q)} \subseteq RcReturned /\ RcReturned \in SUBSET Nodes
                BY <1>0 DEF RcReturned, RcTypeOK
            <4>2. /\ Cardinality({q \in pdUp : Rc!Returned(q)}) <= Cardinality(RcReturned)
                  /\ Cardinality({q \in pdUp : Rc!Returned(q)}) \in Nat /\ Cardinality(RcReturned) \in Nat
                BY <4>1, NodeSets
            <4> QED
                BY <3>1, <4>2, FaultNumbers
        <3> QED
            BY <1>1, <1>2, <3>1, <3>2 DEF RcInv, RecastBacked
    <2> QED
        BY <2>1, <2>2
<1> QED
    BY <1>0, <1>1, <1>2, <1>3 DEF RcInv, RcTypeOK, LockBacked, NotEnough

\* The node that recasts counts an RCLOCK or an RCSTORE.
LEMMA CountKeeps ==
    ASSUME RcInv, rcOut = None, NEW q \in Nodes, Rc!HandleRcLock(q) \/ Rc!HandleRcStore(q)
    PROVE  RcInv'
<1>0. RcTypeOK
    BY DEF RcInv
<1>1. /\ rcCount' = [rcCount EXCEPT ![q] = @ + 1]
      /\ UNCHANGED <<pdLeader, pdHeld, pdStored, pdLocked, pdUp, rcStar, rcWatch, rcIn>>
      /\ rcCount[q] \in 0 .. 2
      /\ q \in rcIn
    BY DEF Rc!HandleRcLock, Rc!HandleRcStore, Rc!Counts, Rc!RcLockIn, Rc!RcStoreIn, Rc!NextOf, Rc!pdVars
<1>2. \A n \in Nodes : rcCount'[n] = IF n = q THEN rcCount[n] + 1 ELSE rcCount[n]
    BY <1>0, <1>1 DEF RcTypeOK
<1>3. RcReturned' = RcReturned
    BY <1>1 DEF RcReturned, Rc!Returned, Rc!DoneSent
<1>4. RcTypeOK'
    <2>1. rcOut' \in {None, "value", "raised"}
        BY DEF Rc!HandleRcLock, Rc!HandleRcStore, Rc!Decode
    <2> QED
        BY <1>0, <1>1, <2>1 DEF RcTypeOK
<1>5. LockBacked' /\ RecastBacked'
    BY <1>1, <1>3 DEF RcInv, LockBacked, RecastBacked
<1>6. ASSUME rcOut' = "raised"
      PROVE  ~ rcStar /\ pdHeld[pdLeader] = 0
    <2>1. pdHeld[q] = 0 /\ ~ rcStar
        BY <1>0, <1>6, AgreementsAssumption
        DEF RcTypeOK, Rc!HandleRcLock, Rc!HandleRcStore, Rc!Decode, Rc!RcStoreIn
    <2>2. Rc!Returned(q)
        BY <1>1, <2>1 DEF RcInv, RecastBacked, RcReturned
    <2>3. q = pdLeader
        BY <2>1, <2>2 DEF Rc!Returned
    <2> QED
        BY <2>1, <2>3
<1>7. IsFiniteSet(Rc!Commit) /\ Cardinality(Rc!Commit) \in Nat /\ Rc!Commit \in SUBSET Nodes
    <2>1. Rc!Commit \in SUBSET Nodes
        BY DEF Rc!Commit
    <2> QED
        BY <2>1, NodeSets
<1>8. ASSUME rcOut' = None, rcStar
      PROVE  Cardinality(Rc!Commit') <= F
    <2>1. Cardinality(Rc!Commit) <= F
        BY <1>8 DEF RcInv, NotEnough
    <2>2. CASE Rc!HandleRcLock(q)
        <3>1. rcCount[q] = 0
            BY <1>8, <2>2 DEF Rc!HandleRcLock, Rc!RcLockIn, Rc!NextOf
        <3>2. Rc!Commit' = Rc!Commit
            BY <1>0, <1>2, <3>1 DEF Rc!Commit, RcTypeOK
        <3> QED
            BY <2>1, <3>2
    <2>3. CASE Rc!HandleRcStore(q)
        <3>1. rcCount[q] = 1 /\ pdHeld[q] # 0
            BY <1>0, <1>8, <2>3 DEF Rc!HandleRcStore, Rc!RcStoreIn, Rc!NextOf, RcTypeOK
        <3>2. Rc!Commit' = Rc!Commit \cup {q}
            BY <1>0, <1>2, <3>1 DEF Rc!Commit, RcTypeOK
        <3>3. Cardinality(Rc!Commit \cup {q}) # F + 1
            BY <1>8, <2>3, <3>1, RcNumbers, AgreementsAssumption DEF Rc!HandleRcStore, Rc!Decode
        <3>4. Cardinality(Rc!Commit \cup {q}) \in {Cardinality(Rc!Commit), Cardinality(Rc!Commit) + 1}
            BY <1>7, FS_AddElement
        <3> QED
            BY <1>7, <2>1, <3>2, <3>3, <3>4, FaultNumbers
    <2> QED
        BY <2>2, <2>3
<1>9. ASSUME rcOut' = None, ~ rcStar
      PROVE  Cardinality(LockedTwice') <= F
    <2>1. Cardinality(LockedTwice) <= F
        BY <1>9 DEF RcInv, NotEnough
    <2>2. CASE rcCount[q] # 2
        <3>1. LockedTwice' = LockedTwice
            BY <1>0, <1>1, <1>2, <2>2 DEF LockedTwice, RcTypeOK
        <3> QED
            BY <2>1, <3>1
    <2>3. CASE rcCount[q] = 2
        <3>1. Rc!HandleRcLock(q)
            BY <2>3 DEF Rc!HandleRcStore, Rc!RcStoreIn, Rc!NextOf
        <3>2. ~ (Cardinality(Rc!Commit) >= F + 1)
            BY <1>9, <3>1, RcNumbers, AgreementsAssumption DEF Rc!HandleRcLock, Rc!Decode
        <3>3. LockedTwice' \subseteq Rc!Commit
            BY <1>0, <1>2, <2>3 DEF LockedTwice, Rc!Commit, RcTypeOK
        <3>4. Cardinality(LockedTwice') <= Cardinality(Rc!Commit) /\ Cardinality(LockedTwice') \in Nat
            BY <1>7, <3>3, NodeSets
        <3> QED
            BY <1>7, <3>2, <3>4, FaultNumbers
    <2> QED
        BY <2>2, <2>3
<1>10. NotEnough'
    BY <1>1, <1>6, <1>8, <1>9 DEF NotEnough
<1> QED
    BY <1>1, <1>4, <1>5, <1>10 DEF RcInv

\* The invariant is kept.
LEMMA RcStepInv == RcInv /\ [Rc!RcNext]_Rc!rcVars => RcInv'
<1> SUFFICES ASSUME RcInv, [Rc!RcNext]_Rc!rcVars
             PROVE  RcInv'
    OBVIOUS
<1>1. CASE UNCHANGED Rc!rcVars
    <2>1. UNCHANGED <<pdLeader, pdHeld, pdStored, pdLocked, pdUp, rcStar, rcWatch, rcIn, rcCount, rcOut>>
        BY <1>1 DEF Rc!rcVars, Rc!pdVars
    <2>2. Rc!Commit' = Rc!Commit /\ LockedTwice' = LockedTwice /\ RcReturned' = RcReturned
        BY <2>1 DEF Rc!Commit, LockedTwice, RcReturned, Rc!Returned, Rc!DoneSent
    <2> QED
        BY <2>1, <2>2 DEF RcInv, RcTypeOK, LockBacked, RecastBacked, NotEnough
<1> QED
    BY <1>1, DisperseKeeps, StartRecastKeeps, CountKeeps DEF Rc!RcNext, Rc!RcStep

\* Of a set with at least 2f + 1 nodes, f + 1 are up.
LEMMA EnoughUp ==
    ASSUME RcInv, NEW S \in SUBSET Nodes, Cardinality(S) >= 2 * F + 1,
           NEW T \in SUBSET Nodes, S \cap pdUp \subseteq T
    PROVE  Cardinality(T) >= F + 1
<1>1. pdUp \in Quorum
    <2>1. Nodes \ (Nodes \ pdUp) = pdUp
        BY DEF RcInv, RcTypeOK
    <2>2. Nodes \ (Nodes \ pdUp) \in Quorum
        BY LiveNodes DEF RcInv
    <2> QED
        BY <2>1, <2>2
<1>2. Cardinality(S \cap pdUp) >= Cardinality(S) - F
    BY <1>1, MeetQuorum
<1>3. /\ Cardinality(S \cap pdUp) <= Cardinality(T)
      /\ Cardinality(S \cap pdUp) \in Nat /\ Cardinality(T) \in Nat /\ Cardinality(S) \in Nat
    BY NodeSets
<1> QED
    BY <1>2, <1>3, FaultNumbers

\* When nothing is left to do, f + 1 have answered with all that they send.
LEMMA RcSettledRecovers == RcInv => Rc!RcRecovers
<1> SUFFICES ASSUME RcInv, rcOut = None, rcIn \cap pdUp # {}, rcStar \/ Rc!Returned(rcWatch), Rc!RcSettled
             PROVE  FALSE
    BY DEF Rc!RcRecovers, RcInv, RcTypeOK, NotEnough
<1>0. RcTypeOK /\ rcIn # {}
    BY DEF RcInv
<1>1. \A p \in Nodes : ~ Rc!RecastDue(p) /\ ~ Rc!VabaOut(p) /\ ~ Rc!RcLockIn(p) /\ ~ Rc!RcStoreIn(p)
    BY DEF Rc!RcSettled
<1>2. \A q \in pdUp : Rc!Arrives(q, rcWatch)
    BY <1>0 DEF RcTypeOK, Rc!Arrives
<1>3. CASE rcStar
    <2>1. pdUp \subseteq rcIn
        BY <1>0, <1>1, <1>3 DEF RcInv, RecastBacked, RcTypeOK, Rc!VabaOut
    <2>2. ASSUME NEW q \in pdStored \cap pdUp
          PROVE  q \in Rc!Commit
        <3>1. q \in Nodes /\ pdHeld[q] > 0 /\ rcCount[q] \in 0 .. 3
            BY <1>0 DEF RcInv, LockBacked, RcTypeOK
        <3>2. rcCount[q] # 0 /\ rcCount[q] # 1
            BY <1>0, <1>1, <1>2, <2>1, <3>1 DEF RcTypeOK, Rc!RcLockIn, Rc!RcStoreIn, Rc!NextOf
        <3> QED
            BY <3>1, <3>2 DEF Rc!Commit
    <2>3. Cardinality(pdStored) >= 2 * F + 1
        BY <1>0, <1>3 DEF RcInv, LockBacked, RecastBacked, RcTypeOK
    <2>4. Rc!Commit \in SUBSET Nodes /\ Cardinality(Rc!Commit) \in Nat
        <3>1. Rc!Commit \in SUBSET Nodes
            BY DEF Rc!Commit
        <3> QED
            BY <3>1, NodeSets
    <2>5. Cardinality(Rc!Commit) >= F + 1
        BY <1>0, <2>2, <2>3, <2>4, EnoughUp DEF RcTypeOK
    <2> QED
        BY <1>3, <2>4, <2>5, FaultNumbers DEF RcInv, NotEnough
<1>4. CASE ~ rcStar
    <2>1. RcReturned \cap pdUp \subseteq rcIn /\ rcWatch \in rcIn
        BY <1>0, <1>1, <1>4 DEF RcTypeOK, RcReturned, Rc!RecastDue
    <2>2. ASSUME NEW q \in RcReturned \cap pdUp
          PROVE  q \in LockedTwice
        <3>1. q \in Nodes /\ rcCount[q] \in 0 .. 3 /\ q \in rcIn
            BY <1>0, <2>1 DEF RcTypeOK, RcReturned
        <3>2. rcCount[q] # 0 /\ rcCount[q] # 1 /\ rcCount[q] # 2
            BY <1>1, <1>2, <1>4, <2>1, <3>1 DEF Rc!RcLockIn, Rc!RcStoreIn, Rc!NextOf
        <3> QED
            BY <3>1, <3>2 DEF LockedTwice
    <2>3. RcReturned \in SUBSET Nodes /\ Cardinality(RcReturned) >= 2 * F + 1
        <3>1. RcReturned \in SUBSET Nodes
            BY DEF RcReturned
        <3>2. Cardinality(RcReturned) >= N - F /\ Cardinality(RcReturned) \in Nat
            BY <1>0, <1>4, <3>1, NodeSets DEF RcInv, RecastBacked
        <3> QED
            BY <3>1, <3>2, FaultNumbers
    <2>4. LockedTwice \in SUBSET Nodes /\ Cardinality(LockedTwice) \in Nat
        <3>1. LockedTwice \in SUBSET Nodes
            BY DEF LockedTwice
        <3> QED
            BY <3>1, NodeSets
    <2>5. Cardinality(LockedTwice) >= F + 1
        BY <2>2, <2>3, <2>4, EnoughUp
    <2> QED
        BY <1>4, <2>4, <2>5, FaultNumbers DEF RcInv, NotEnough
<1> QED
    BY <1>3, <1>4
-----------------------------------------------------------------------------
(***************************************************************************)
(* DumboMvba.  Whoever is past quitPD has heard a FINISH that some node    *)
(* broadcast, and the nodes that are up are N - f: in each later phase     *)
(* they wait for no more than each other.                                  *)
(***************************************************************************)
DmTypeOK ==
    /\ dmPhase \in [Nodes -> 0 .. 4]
    /\ dmReady \in SUBSET Nodes
    /\ dmFinish \in SUBSET Nodes
    /\ dmUp \in SUBSET Nodes

\* A leader without its lock has the 2f + 1 others that its dispersal returned on.
BareAlone == dmBare # {} => N - 1 >= 2 * F + 1 /\ \E x \in Nodes : dmBare = {x}

QuitByFinish == (\E p \in Nodes : dmPhase[p] >= Dm!InElection) => dmFinish # {}

DmInv ==
    /\ DmTypeOK
    /\ Cardinality(Nodes \ dmUp) <= F
    /\ BareAlone
    /\ QuitByFinish

\* Numbers of nodes are the same in DumboMvba and here.
LEMMA DmNumbers == Dm!N = N /\ \A S : Dm!Cardinality(S) = Cardinality(S)
<1>1. \A S : Dm!Cardinality(S) = Cardinality(S)
    BY DEF Dm!Cardinality, Cardinality
<1> QED
    BY <1>1 DEF Dm!N, N

\* The nodes that are up are N - f of those that any of them hears.
LEMMA DmHeard ==
    ASSUME DmInv, NEW p \in Nodes, NEW S \in SUBSET Nodes, dmUp \subseteq S
    PROVE  /\ dmUp \in Quorum
           /\ dmUp \subseteq Dm!Heard(p, S)
           /\ Dm!Heard(p, S) \in Quorum
           /\ Cardinality(Dm!Heard(p, S)) >= N - F
           /\ Cardinality(Dm!Heard(p, S)) >= F + 1
<1>1. dmUp \in Quorum
    <2>1. Nodes \ (Nodes \ dmUp) = dmUp
        BY DEF DmInv, DmTypeOK
    <2>2. Nodes \ (Nodes \ dmUp) \in Quorum
        BY LiveNodes DEF DmInv
    <2> QED
        BY <2>1, <2>2
<1>2. dmUp \subseteq Dm!Heard(p, S) /\ Dm!Heard(p, S) \in SUBSET Nodes
    BY DEF Dm!Heard
<1>3. Dm!Heard(p, S) \in Quorum
    BY <1>1, <1>2, QuorumSuperset
<1>4. Cardinality(Dm!Heard(p, S)) >= N - F /\ Cardinality(Dm!Heard(p, S)) \in Nat
    BY <1>3, NodeSets DEF Quorum
<1> QED
    BY <1>1, <1>2, <1>3, <1>4, FaultNumbers

\* All nodes wait for their dispersals at first.
LEMMA DmInitInv == Dm!DmInit => DmInv
<1> SUFFICES ASSUME Dm!DmInit PROVE DmInv
    OBVIOUS
<1>1. Cardinality(Nodes \ dmUp) <= F
    <2>1. Nodes \ dmUp = {}
        BY DEF Dm!DmInit
    <2> QED
        BY <2>1, FS_EmptySet, FaultNumbers
<1>2. DmTypeOK
    BY DEF Dm!DmInit, DmTypeOK, Dm!InPds
<1>3. BareAlone
    BY DmNumbers DEF Dm!DmInit, BareAlone
<1>4. QuitByFinish
    BY DEF Dm!DmInit, QuitByFinish, Dm!InPds, Dm!InElection
<1> QED
    BY <1>1, <1>2, <1>3, <1>4 DEF DmInv

\* A node goes on with what it waited for.
LEMMA DmStepInv == DmInv /\ [Dm!DmNext]_Dm!dmVars => DmInv'
<1> SUFFICES ASSUME DmInv, [Dm!DmNext]_Dm!dmVars
             PROVE  DmInv'
    OBVIOUS
<1>0. DmTypeOK
    BY DEF DmInv
<1>1. ASSUME NEW p \in Nodes, NEW phase \in 1 .. 4,
             dmPhase' = [dmPhase EXCEPT ![p] = phase],
             phase >= 2 => dmFinish # {},
             UNCHANGED <<dmBare, dmReady, dmFinish, dmUp>>
      PROVE  DmInv'
    <2>1. DmTypeOK'
        BY <1>0, <1>1 DEF DmTypeOK
    <2>2. QuitByFinish'
        <3>1. \A q \in Nodes : dmPhase'[q] = IF q = p THEN phase ELSE dmPhase[q]
            BY <1>0, <1>1 DEF DmTypeOK
        <3> QED
            BY <1>1, <3>1 DEF DmInv, QuitByFinish, Dm!InElection
    <2> QED
        BY <1>1, <2>1, <2>2 DEF DmInv, BareAlone
<1>2. ASSUME NEW p \in Nodes, Dm!StartQuit(p) \/ Dm!EndQuit(p) \/ Dm!Prepare(p) \/ Dm!AbaDecides(p)
      PROVE  DmInv'
    <2> DEFINE To(phase) == dmPhase' = [dmPhase EXCEPT ![p] = phase]
    <2>1. UNCHANGED <<dmBare, dmReady, dmFinish, dmUp>>
        BY <1>2 DEF Dm!StartQuit, Dm!EndQuit, Dm!Prepare, Dm!AbaDecides, Dm!dmQuit, Dm!dmFaults
    <2>2. To(1) \/ To(2) \/ To(3) \/ To(4)
        BY <1>2 DEF Dm!StartQuit, Dm!EndQuit, Dm!Prepare, Dm!AbaDecides, Dm!DmGoTo,
                    Dm!InQuit, Dm!InElection, Dm!InAba, Dm!InRecast
    <2>3. To(1) \/ dmFinish # {}
        BY <1>2 DEF Dm!StartQuit, Dm!EndQuit, Dm!Prepare, Dm!AbaDecides, Dm!FinishIn, Dm!LockIn, Dm!AbaIn,
                    Dm!Heard, Dm!DmAt, Dm!DmGoTo, Dm!InQuit, Dm!InElection, Dm!InAba, DmInv, QuitByFinish
    <2>4. PICK phase \in 1 .. 4 : To(phase) /\ (phase >= 2 => dmFinish # {})
        <3> HIDE DEF To
        <3> QED
            BY <2>2, <2>3
    <2> QED
        BY <1>1, <2>1, <2>4
<1>3. ASSUME NEW p \in Nodes, Dm!SendReady(p) \/ Dm!SendFinish(p)
      PROVE  DmInv'
    <2>1. /\ UNCHANGED <<dmPhase, dmBare, dmUp>>
          /\ dmReady' \in {dmReady, dmReady \cup {p}}
          /\ dmFinish' \in {dmFinish, dmFinish \cup {p}}
        BY <1>3 DEF Dm!SendReady, Dm!SendFinish, Dm!dmFaults
    <2>2. DmTypeOK'
        BY <1>0, <2>1 DEF DmTypeOK
    <2> QED
        BY <2>1, <2>2 DEF DmInv, BareAlone, QuitByFinish
<1>4. ASSUME NEW p \in Nodes, NEW lost \in SUBSET (Nodes \ {p}), Dm!DmCrash(p, lost)
      PROVE  DmInv'
    <2>1. /\ dmUp' = dmUp \ {p} /\ p \in dmUp /\ UNCHANGED <<dmPhase, dmBare, dmReady, dmFinish>>
          /\ Cardinality(Nodes \ dmUp) < DmMaxCrash
        BY <1>4, DmNumbers DEF Dm!DmCrash, Dm!dmQuit
    <2>2. Nodes \ dmUp' = (Nodes \ dmUp) \cup {p}
        BY <2>1
    <2>3. Cardinality(Nodes \ dmUp') <= F
        BY <2>1, <2>2, OneMoreNode, AgreementsAssumption
    <2>4. DmTypeOK'
        BY <1>0, <2>1 DEF DmTypeOK
    <2> QED
        BY <2>1, <2>3, <2>4 DEF DmInv, BareAlone, QuitByFinish
<1>5. CASE UNCHANGED Dm!dmVars
    <2>1. UNCHANGED <<dmPhase, dmBare, dmReady, dmFinish, dmUp>>
        BY <1>5 DEF Dm!dmVars, Dm!dmQuit, Dm!dmFaults
    <2> QED
        BY <2>1 DEF DmInv, DmTypeOK, BareAlone, QuitByFinish
<1> QED
    BY <1>2, <1>3, <1>4, <1>5 DEF Dm!DmNext, Dm!DmStep

\* When nothing is left to do, no live node waits in any phase before the recast.
LEMMA DmSettledAtRecast == DmInv => Dm!DmComesToRecast
<1> SUFFICES ASSUME DmInv, Dm!DmSettled,
                    dmUp = Nodes \/ (dmUp \subseteq Dm!Past(Dm!InQuit) /\ dmFinish \cap dmUp # {})
             PROVE  dmUp \subseteq Dm!Past(Dm!InRecast)
    BY DEF Dm!DmComesToRecast
<1>0. DmTypeOK
    BY DEF DmInv
<1>1. \A phase : Dm!Past(phase) \in SUBSET Nodes
    BY DEF Dm!Past
<1>2. \A p \in dmUp : dmPhase[p] >= 1
    BY <1>0 DEF DmTypeOK, Dm!DmSettled, Dm!PdsDue, Dm!PdsMayReturn, Dm!DmAt, Dm!InPds, Dm!Past, Dm!InQuit
<1>3. ASSUME NEW p \in dmUp
      PROVE  dmPhase[p] # 1
    <2> SUFFICES ASSUME dmPhase[p] = 1
                 PROVE  FALSE
        OBVIOUS
    <2>1. dmFinish \cap dmUp = {}
        BY <1>0 DEF DmTypeOK, Dm!DmSettled, Dm!FinishIn, Dm!Heard, Dm!DmAt, Dm!InQuit
    <2>2. dmUp = Nodes /\ dmFinish = {}
        BY <1>0, <2>1 DEF DmTypeOK
    <2>3. \A q \in Nodes : dmPhase[q] = 1
        BY <1>0, <1>2, <2>2 DEF DmInv, QuitByFinish, Dm!InElection, DmTypeOK
    <2>4. dmUp \subseteq Dm!Past(1)
        BY <2>2, <2>3 DEF Dm!Past
    <2>5. \A q \in Nodes : Cardinality(Dm!Heard(q, Dm!Past(1))) >= N - F
        BY <1>1, <2>4, DmHeard
    <2>6. Nodes \subseteq dmReady
        BY <2>2, <2>3, <2>5, DmNumbers DEF Dm!DmSettled, Dm!ReadyDue, Dm!DmAt, Dm!InQuit
    <2>7. Cardinality(Dm!Heard(p, dmReady)) >= F + 1
        BY <1>0, <2>2, <2>6, DmHeard DEF DmTypeOK
    <2> QED
        BY <2>2, <2>3, <2>7, DmNumbers DEF Dm!DmSettled, Dm!FinishDue, Dm!DmAt, Dm!InQuit
<1>4. dmUp \subseteq Dm!Past(2)
    BY <1>0, <1>2, <1>3 DEF DmTypeOK, Dm!Past
<1>5. ASSUME NEW p \in dmUp
      PROVE  dmPhase[p] # 2
    <2> SUFFICES ASSUME dmPhase[p] = 2
                 PROVE  FALSE
        OBVIOUS
    <2>0. p \in Nodes
        BY <1>0 DEF DmTypeOK
    <2>1. PICK heard : heard = Dm!Heard(p, Dm!Past(2))
        OBVIOUS
    <2>2. heard \in SUBSET Nodes /\ Cardinality(heard) >= N - F /\ Cardinality(heard) >= F + 1 /\ dmUp \subseteq heard
        BY <1>1, <1>4, <2>0, <2>1, DmHeard DEF Quorum
    <2>3. heard \ dmBare # {}
        <3>1. CASE dmBare = {}
            BY <2>2, <3>1
        <3>2. ASSUME NEW x \in Nodes, dmBare = {x}, N - 1 >= 2 * F + 1, heard \subseteq {x}
              PROVE  FALSE
            <4>1. Cardinality(heard) <= Cardinality({x}) /\ Cardinality({x}) = 1 /\ Cardinality(heard) \in Nat
                BY <3>2, NodeSets, FS_Singleton
            <4> QED
                BY <2>2, <3>2, <4>1, FaultNumbers
        <3> QED
            BY <3>1, <3>2 DEF DmInv, BareAlone
    <2> QED
        BY <2>0, <2>1, <2>2, <2>3, DmNumbers DEF Dm!DmSettled, Dm!LockIn, Dm!DmAt, Dm!InElection
<1>6. dmUp \subseteq Dm!Past(3)
    BY <1>0, <1>4, <1>5 DEF DmTypeOK, Dm!Past
<1>7. ASSUME NEW p \in dmUp
      PROVE  dmPhase[p] # 3
    <2>1. p \in Nodes
        BY <1>0 DEF DmTypeOK
    <2>2. Cardinality(Dm!Heard(p, Dm!Past(3))) >= N - F
        BY <1>1, <1>6, <2>1, DmHeard
    <2> QED
        BY <2>1, <2>2, DmNumbers DEF Dm!DmSettled, Dm!AbaIn, Dm!DmAt, Dm!InAba
<1> QED
    BY <1>0, <1>6, <1>7 DEF DmTypeOK, Dm!Past, Dm!InRecast
-----------------------------------------------------------------------------
(***************************************************************************)
(* DumboRound.  A quorum that is in one round can go on: too few have sent *)
(* shares, so that a node of it has not decided, and the coins kept that   *)
(* node from going further in its agreement than those that quit it; the   *)
(* node that is furthest behind has heard what it waits for.               *)
(***************************************************************************)
DrTypeOK ==
    /\ drMuted \in SUBSET Nodes
    /\ drCoin \in [Dr!DrSids -> [0 .. Dr!DrLast -> {0, 1}]]
    /\ drRound \in [Nodes -> 0 .. DrRounds]
    /\ drSent \in [Dr!DrSids -> [Nodes -> Nat]]
    /\ drState \in [Nodes -> {"open", "decided", "quit"}]
    /\ drShared \in [Dr!DrSids -> SUBSET Nodes]

\* Round r of an agreement ends with the broadcasts up to this one.
BaEnd(r) == 3 * (r + 1)

\* What the broadcasts of q in round k tell, by where q is: a node that went
\* past the coin of a round undecided did not see 1, one that quit did.
DrProgress(q, k) ==
    /\ drState[q] = "open" =>
          \A r \in 1 .. Dr!DrLast : drSent[k][q] > BaEnd(r) => drCoin[k][r] = 0
    /\ drState[q] = "decided" => drSent[k][q] > BaEnd(0)
    /\ drState[q] = "quit" =>
          \E r \in 1 .. Dr!DrLast : drSent[k][q] = BaEnd(r) /\ drCoin[k][r] = 1

DrReached(q) ==
    /\ \A k \in Dr!DrSids : k > drRound[q] => drSent[k][q] = 0
    /\ drRound[q] \in Dr!DrSids => DrProgress(q, drRound[q])

DrInv ==
    /\ DrTypeOK
    /\ \A k \in Dr!DrSids : drCoin[k][Dr!DrLast] = 1
    /\ \A q \in Nodes : DrReached(q)

\* Numbers and quorums are the same in DumboRound and here.
LEMMA DrNumbers ==
    /\ Dr!N = N
    /\ Dr!Quorum = Quorum
    /\ Dr!BaNeeded = Quorum
    /\ \A S : Dr!Cardinality(S) = Cardinality(S)
    /\ Dr!DrSids \subseteq Nat
    /\ \A k \in 0 .. DrRounds : k \in Dr!DrSids <=> k # DrRounds
    /\ \A k \in Dr!DrSids : k + 1 \in 0 .. DrRounds
    /\ DrBaRounds \in Nat /\ Dr!DrLast = DrBaRounds - 1 /\ Dr!DrLast \in Nat /\ Dr!DrLast >= 1
<1>1. \A S : Dr!Cardinality(S) = Cardinality(S)
    BY DEF Dr!Cardinality, Cardinality
<1>2. Dr!N = N
    BY <1>1 DEF Dr!N, N
<1>3. Dr!Quorum = Quorum
    BY <1>1, <1>2 DEF Dr!Quorum, Quorum
<1> QED
    BY <1>1, <1>2, <1>3, AgreementsAssumption DEF Dr!BaNeeded, Dr!DrSids, Dr!DrLast

\* Nobody has broadcast anything at first.
LEMMA DrInitInv == Dr!DrInit => DrInv
<1> SUFFICES ASSUME Dr!DrInit PROVE DrInv
    OBVIOUS
<1>1. DrTypeOK
    <2>1. 0 \in 0 .. DrRounds
        BY AgreementsAssumption
    <2> QED
        BY <2>1 DEF Dr!DrInit, DrTypeOK
<1>2. \A k \in Dr!DrSids : drCoin[k][Dr!DrLast] = 1
    BY DEF Dr!DrInit
<1>3. ASSUME NEW q \in Nodes
      PROVE  DrReached(q)
    <2>1. drState[q] = "open" /\ \A k \in Dr!DrSids : drSent[k][q] = 0
        BY DEF Dr!DrInit
    <2>2. \A r \in 1 .. Dr!DrLast : ~ (0 > BaEnd(r))
        BY DrNumbers DEF BaEnd
    <2> QED
        BY <2>1, <2>2 DEF DrReached, DrProgress
<1> QED
    BY <1>1, <1>2, <1>3 DEF DrInv

\* One more broadcast of p.
LEMMA BroadcastsStep ==
    ASSUME DrTypeOK, NEW p \in Nodes, NEW k \in Dr!DrSids, Dr!Broadcasts(p, k)
    PROVE  /\ drSent' \in [Dr!DrSids -> [Nodes -> Nat]]
           /\ \A j \in Dr!DrSids, q \in Nodes :
                  drSent'[j][q] = IF j = k /\ q = p THEN drSent[j][q] + 1 ELSE drSent[j][q]
<1> DEFINE f == [drSent[k] EXCEPT ![p] = @ + 1]
<1>1. drSent' = [drSent EXCEPT ![k] = f]
    BY DEF Dr!Broadcasts
<1>2. /\ f \in [Nodes -> Nat]
      /\ \A q \in Nodes : f[q] = IF q = p THEN drSent[k][q] + 1 ELSE drSent[k][q]
    BY DEF DrTypeOK
<1> HIDE DEF f
<1>3. /\ drSent' \in [Dr!DrSids -> [Nodes -> Nat]]
      /\ \A j \in Dr!DrSids : drSent'[j] = IF j = k THEN f ELSE drSent[j]
    BY <1>1, <1>2 DEF DrTypeOK
<1> QED
    BY <1>2, <1>3

\* A broadcast of p keeps what is known, if it does so for p itself.
LEMMA DrBroadcastKeeps ==
    ASSUME DrInv, NEW p \in Nodes, NEW k \in Dr!DrSids, Dr!Broadcasts(p, k), drRound[p] = k,
           UNCHANGED <<drMuted, drCoin, drRound, drShared>>,
           drState' \in [Nodes -> {"open", "decided", "quit"}],
           \A q \in Nodes \ {p} : drState'[q] = drState[q],
           DrProgress(p, k)'
    PROVE  DrInv'
<1>0. DrTypeOK
    BY DEF DrInv
<1>1. /\ drSent' \in [Dr!DrSids -> [Nodes -> Nat]]
      /\ \A j \in Dr!DrSids, q \in Nodes :
             drSent'[j][q] = IF j = k /\ q = p THEN drSent[j][q] + 1 ELSE drSent[j][q]
    BY <1>0, BroadcastsStep
<1>2. DrTypeOK'
    BY <1>0, <1>1 DEF DrTypeOK
<1>3. ASSUME NEW q \in Nodes
      PROVE  DrReached(q)'
    <2>1. CASE q = p
        <3>1. \A j \in Dr!DrSids : j > k => drSent'[j][q] = 0
            <4>1. \A j \in Dr!DrSids : j > k => j # k
                BY DrNumbers
            <4> QED
                BY <1>1, <2>1, <4>1 DEF DrInv, DrReached
        <3> QED
            BY <2>1, <3>1 DEF DrReached
    <2>2. CASE q # p
        <3>1. \A j \in Dr!DrSids : drSent'[j][q] = drSent[j][q]
            BY <1>1, <2>2
        <3>2. DrReached(q)
            BY DEF DrInv
        <3> QED
            BY <2>2, <3>1, <3>2 DEF DrReached, DrProgress
    <2> QED
        BY <2>1, <2>2
<1> QED
    BY <1>2, <1>3 DEF DrInv

LEMMA EnterBaKeeps ==
    ASSUME DrInv, NEW p \in Nodes, NEW k \in Dr!DrSids, Dr!EnterBa(p, k)
    PROVE  DrInv'
<1>0. DrTypeOK
    BY DEF DrInv
<1>1. /\ drRound[p] = k /\ drSent[k][p] = 0 /\ Dr!Broadcasts(p, k)
      /\ UNCHANGED <<drMuted, drCoin, drRound, drState, drShared>>
    BY DEF Dr!EnterBa, Dr!BallotsIn, Dr!Handles
<1>2. drSent'[k][p] = 1
    BY <1>0, <1>1, BroadcastsStep
<1>3. DrProgress(p, k)
    BY <1>1 DEF DrInv, DrReached
<1>4. drState[p] = "open"
    <2>1. \A r \in 1 .. Dr!DrLast : BaEnd(r) # 0 /\ BaEnd(0) # 0
        BY DrNumbers DEF BaEnd
    <2>2. ~ (drSent[k][p] > BaEnd(0))
        BY <1>1 DEF BaEnd
    <2> QED
        BY <1>0, <1>1, <1>3, <2>1, <2>2 DEF DrProgress, DrTypeOK
<1>5. DrProgress(p, k)'
    <2>1. \A r \in 1 .. Dr!DrLast : ~ (1 > BaEnd(r))
        BY DrNumbers DEF BaEnd
    <2> QED
        BY <1>1, <1>2, <1>4, <2>1 DEF DrProgress
<1> QED
    BY <1>0, <1>1, <1>5, DrBroadcastKeeps DEF DrTypeOK

LEMMA NextBroadcastKeeps ==
    ASSUME DrInv, NEW p \in Nodes, NEW k \in Dr!DrSids, Dr!NextBroadcast(p, k)
    PROVE  DrInv'
<1>0. DrTypeOK
    BY DEF DrInv
<1> DEFINE m == drSent[k][p]
<1>1. /\ drRound[p] = k /\ m % 3 # 0 /\ Dr!Broadcasts(p, k) /\ drState[p] # "quit"
      /\ UNCHANGED <<drMuted, drCoin, drRound, drState, drShared>>
    BY DEF Dr!NextBroadcast, Dr!BroadcastDue, Dr!Handles
<1>2. drSent'[k][p] = m + 1 /\ m \in Nat
    BY <1>0, <1>1, BroadcastsStep DEF DrTypeOK
<1>3. DrProgress(p, k)
    BY <1>1 DEF DrInv, DrReached
<1>4. DrProgress(p, k)'
    <2>1. \A r \in 1 .. Dr!DrLast : m + 1 > BaEnd(r) => m > BaEnd(r)
        <3> SUFFICES ASSUME NEW r \in 1 .. Dr!DrLast, m + 1 > BaEnd(r)
                     PROVE  m > BaEnd(r)
            OBVIOUS
        <3>1. r \in Nat /\ BaEnd(r) = 3 * (r + 1) /\ (3 * (r + 1)) % 3 = 0
            BY DrNumbers DEF BaEnd
        <3>2. m # BaEnd(r)
            BY <1>1, <3>1
        <3> QED
            BY <1>2, <3>1, <3>2
    <2>2. m > BaEnd(0) => m + 1 > BaEnd(0)
        BY <1>2 DEF BaEnd
    <2> HIDE DEF m
    <2>3. drState'[p] = drState[p] /\ drCoin' = drCoin /\ drState[p] # "quit"
        BY <1>1
    <2>4. /\ drState[p] = "open" => \A r \in 1 .. Dr!DrLast : m > BaEnd(r) => drCoin[k][r] = 0
          /\ drState[p] = "decided" => m > BaEnd(0)
        BY <1>3 DEF DrProgress, m
    <2> QED
        BY <1>2, <2>1, <2>2, <2>3, <2>4 DEF DrProgress, BaEnd
<1> QED
    BY <1>0, <1>1, <1>4, DrBroadcastKeeps DEF DrTypeOK

LEMMA EndBaRoundKeeps ==
    ASSUME DrInv, NEW p \in Nodes, NEW k \in Dr!DrSids, NEW one \in BOOLEAN,
           Dr!EndBaRound(p, k, one)
    PROVE  DrInv'
<1>0. DrTypeOK
    BY DEF DrInv
<1>1. PICK m \in Nat : m = drSent[k][p]
    BY <1>0 DEF DrTypeOK
<1>2. PICK r : r = (m \div 3) - 1
    OBVIOUS
<1>3. /\ drRound[p] = k /\ drState[p] # "quit"
      /\ m > 0 /\ m % 3 = 0 /\ m \div 3 <= DrBaRounds
      /\ r > 0 \/ drState[p] # "open" => one
      /\ UNCHANGED <<drMuted, drCoin, drRound, drShared>>
    BY <1>1, <1>2 DEF Dr!EndBaRound, Dr!BaRoundOver, Dr!Handles
<1>4. r \in 0 .. Dr!DrLast /\ r \in Nat /\ m = BaEnd(r)
    BY <1>2, <1>3, DrNumbers DEF BaEnd
<1>5. drCoin[k][r] \in {0, 1}
    BY <1>0, <1>4 DEF DrTypeOK
<1>6. DrProgress(p, k)
    BY <1>3 DEF DrInv, DrReached
<1>7. CASE one /\ drCoin[k][r] = 1 /\ drState[p] = "decided"
    <2>1. drState' = [drState EXCEPT ![p] = "quit"] /\ drSent' = drSent
        BY <1>1, <1>2, <1>7 DEF Dr!EndBaRound
    <2>2. DrTypeOK'
        BY <1>0, <1>3, <2>1 DEF DrTypeOK
    <2>3. drState'[p] = "quit" /\ \A q \in Nodes \ {p} : drState'[q] = drState[q]
        BY <1>0, <2>1 DEF DrTypeOK
    <2>4. r \in 1 .. Dr!DrLast
        <3>1. m > BaEnd(0)
            BY <1>1, <1>6, <1>7 DEF DrProgress
        <3>2. r # 0
            BY <1>4, <3>1 DEF BaEnd
        <3> QED
            BY <1>4, <3>2, DrNumbers
    <2>5. DrProgress(p, k)'
        <3>1. drSent'[k][p] = BaEnd(r)' /\ drCoin'[k][r] = 1
            BY <1>1, <1>3, <1>4, <1>7, <2>1 DEF BaEnd
        <3> QED
            BY <2>3, <2>4, <3>1 DEF DrProgress
    <2>6. \A q \in Nodes : DrReached(q)'
        <3> SUFFICES ASSUME NEW q \in Nodes
                     PROVE  DrReached(q)'
            OBVIOUS
        <3>1. DrReached(q)
            BY DEF DrInv
        <3>2. CASE q = p
            BY <1>3, <2>1, <2>5, <3>1, <3>2 DEF DrReached
        <3>3. CASE q # p
            BY <1>3, <2>1, <2>3, <3>1, <3>3 DEF DrReached, DrProgress, BaEnd
        <3> QED
            BY <3>2, <3>3
    <2> QED
        BY <1>3, <2>2, <2>6 DEF DrInv
<1>8. CASE ~ (one /\ drCoin[k][r] = 1 /\ drState[p] = "decided")
    <2>1. /\ Dr!Broadcasts(p, k)
          /\ drState' = [drState EXCEPT ![p] = IF one /\ drCoin[k][r] = 1 THEN "decided" ELSE @]
        BY <1>1, <1>2, <1>8 DEF Dr!EndBaRound
    <2>2. drSent'[k][p] = m + 1
        BY <1>0, <1>1, <2>1, BroadcastsStep
    <2>3. /\ drState' \in [Nodes -> {"open", "decided", "quit"}]
          /\ drState'[p] = IF one /\ drCoin[k][r] = 1 THEN "decided" ELSE drState[p]
          /\ \A q \in Nodes \ {p} : drState'[q] = drState[q]
        BY <1>0, <2>1 DEF DrTypeOK
    <2>4. m + 1 > BaEnd(0)
        BY <1>4 DEF BaEnd
    <2>5. ASSUME drState'[p] = "open", NEW x \in 1 .. Dr!DrLast, m + 1 > BaEnd(x)
          PROVE  drCoin[k][x] = 0
        <3>1. drState[p] = "open" /\ ~ (one /\ drCoin[k][r] = 1)
            BY <2>3, <2>5
        <3>2. x \in Nat /\ x >= 1
            BY DrNumbers
        <3>3. CASE x = r
            <4>1. one
                BY <1>3, <3>2, <3>3
            <4> QED
                BY <1>5, <3>1, <3>3, <4>1
        <3>4. CASE x # r
            <4>1. m > BaEnd(x)
                BY <1>4, <2>5, <3>2, <3>4 DEF BaEnd
            <4> QED
                BY <1>1, <1>6, <3>1, <4>1 DEF DrProgress
        <3> QED
            BY <3>3, <3>4
    <2>6. DrProgress(p, k)'
        <3>1. drState'[p] # "quit" /\ drCoin' = drCoin
            BY <1>3, <2>3
        <3> QED
            BY <2>2, <2>4, <2>5, <3>1 DEF DrProgress, BaEnd
    <2> QED
        BY <1>3, <2>1, <2>3, <2>6, DrBroadcastKeeps
<1> QED
    BY <1>7, <1>8

LEMMA ShareOrLeaveKeeps ==
    ASSUME DrInv, NEW p \in Nodes, NEW k \in Dr!DrSids, Dr!Share(p, k) \/ Dr!Leave(p, k)
    PROVE  DrInv'
<1>0. DrTypeOK
    BY DEF DrInv
<1>1. CASE Dr!Share(p, k)
    <2>1. /\ drShared' = [drShared EXCEPT ![k] = @ \cup {p}]
          /\ UNCHANGED <<drMuted, drCoin, drRound, drSent, drState>>
        BY <1>1 DEF Dr!Share
    <2>2. DrTypeOK'
        BY <1>0, <2>1, AddedNode DEF DrTypeOK
    <2> QED
        BY <2>1, <2>2 DEF DrInv, DrReached, DrProgress
<1>2. CASE Dr!Leave(p, k)
    <2>1. /\ drRound[p] = k
          /\ drRound' = [drRound EXCEPT ![p] = k + 1]
          /\ drState' = [drState EXCEPT ![p] = "open"]
          /\ UNCHANGED <<drMuted, drCoin, drSent, drShared>>
        BY <1>2 DEF Dr!Leave, Dr!SharesIn, Dr!Handles
    <2>2. k + 1 \in 0 .. DrRounds /\ k \in Nat
        BY DrNumbers
    <2>3. DrTypeOK'
        BY <1>0, <2>1, <2>2 DEF DrTypeOK
    <2>4. /\ drRound'[p] = k + 1 /\ drState'[p] = "open"
          /\ \A q \in Nodes \ {p} : drRound'[q] = drRound[q] /\ drState'[q] = drState[q]
        BY <1>0, <2>1 DEF DrTypeOK
    <2>5. ASSUME NEW q \in Nodes
          PROVE  DrReached(q)'
        <3>1. DrReached(q)
            BY DEF DrInv
        <3>2. CASE q # p
            BY <2>1, <2>4, <3>1, <3>2 DEF DrReached, DrProgress
        <3>3. CASE q = p
            <4>1. \A j \in Dr!DrSids : j > k => drSent[j][p] = 0
                BY <2>1, <3>1, <3>3 DEF DrReached
            <4>2. \A j \in Dr!DrSids : j > k + 1 => j > k
                BY <2>2, DrNumbers
            <4>3. ASSUME k + 1 \in Dr!DrSids
                  PROVE  DrProgress(p, k + 1)'
                <5>1. drSent'[k + 1][p] = 0
                    BY <2>1, <2>2, <4>1, <4>3
                <5>2. \A r \in 1 .. Dr!DrLast : ~ (0 > BaEnd(r))
                    BY DrNumbers DEF BaEnd
                <5> QED
                    BY <2>4, <5>1, <5>2 DEF DrProgress, BaEnd
            <4> QED
                BY <2>1, <2>4, <3>3, <4>1, <4>2, <4>3 DEF DrReached
        <3> QED
            BY <3>2, <3>3
    <2> QED
        BY <2>1, <2>3, <2>5 DEF DrInv
<1> QED
    BY <1>1, <1>2

\* The invariant is kept.
LEMMA DrStepInv == DrInv /\ [Dr!DrNext]_Dr!drVars => DrInv'
<1> SUFFICES ASSUME DrInv, [Dr!DrNext]_Dr!drVars
             PROVE  DrInv'
    OBVIOUS
<1>1. CASE UNCHANGED Dr!drVars
    BY <1>1 DEF Dr!drVars, DrInv, DrTypeOK, DrReached, DrProgress
<1> QED
    BY <1>1, EnterBaKeeps, NextBroadcastKeeps, EndBaRoundKeeps, ShareOrLeaveKeeps DEF Dr!DrNext
-----------------------------------------------------------------------------
\* A quorum Q in one round, where nothing is left to do.
LEMMA QuorumGoesOn ==
    ASSUME DrInv, Dr!DrSettled, NEW k \in Dr!DrSids, NEW Q \in Quorum,
           \A q \in Q : q \notin drMuted /\ drRound[q] = k
    PROVE  FALSE
<1>0. DrTypeOK /\ Q \in SUBSET Nodes
    BY DEF DrInv, Quorum
<1>1. \A q \in Q : Dr!Handles(q, k) /\ DrProgress(q, k)
    BY <1>0 DEF Dr!Handles, DrInv, DrReached
<1>2. \A q \in Q : drSent[k][q] \in Nat /\ drSent[k][q] # 0
    <2>1. Q \subseteq Dr!Entered(k) /\ Dr!Entered(k) \in SUBSET Nodes
        <3>1. k >= k
            BY DrNumbers
        <3> QED
            BY <1>0, <3>1 DEF Dr!Entered
    <2>2. Dr!Entered(k) \in Dr!Quorum
        BY <2>1, QuorumSuperset, DrNumbers
    <2> QED
        BY <1>0, <1>1, <2>2 DEF Dr!DrSettled, Dr!BallotsIn, DrTypeOK
<1>3. Cardinality(drShared[k]) <= F
    <2> SUFFICES ASSUME ~ (Cardinality(drShared[k]) <= F)
                 PROVE  FALSE
        OBVIOUS
    <2>1. drShared[k] \in SUBSET Nodes
        BY <1>0 DEF DrTypeOK
    <2>2. Cardinality(drShared[k]) >= F + 1
        BY <2>1, NodeSets, FaultNumbers
    <2>3. PICK q \in Nodes : q \in drShared[k] /\ q \in Q
        BY <2>1, <2>2, MajorityMeets
    <2> QED
        BY <1>1, <2>2, <2>3, DrNumbers DEF Dr!DrSettled, Dr!SharesIn
<1>4. PICK open \in Q : drState[open] = "open"
    <2> SUFFICES ASSUME \A q \in Q : drState[q] # "open"
                 PROVE  FALSE
        OBVIOUS
    <2>1. Q \subseteq drShared[k] /\ drShared[k] \in SUBSET Nodes
        BY <1>0, <1>1 DEF Dr!DrSettled, Dr!ShareDue, DrTypeOK
    <2>2. /\ Cardinality(Q) <= Cardinality(drShared[k]) /\ Cardinality(Q) >= N - F
          /\ Cardinality(Q) \in Nat /\ Cardinality(drShared[k]) \in Nat
        BY <2>1, NodeSets DEF Quorum
    <2> QED
        BY <1>3, <2>2, FaultNumbers
<1> DEFINE Going == {q \in Q : drState[q] # "quit"}
<1>5. PICK p \in Going : \A q \in Going : drSent[k][p] <= drSent[k][q]
    <2>1. PICK S : S = {drSent[k][q] : q \in Going}
        OBVIOUS
    <2>2. S \in SUBSET Nat /\ S # {}
        BY <1>2, <1>4, <2>1
    <2>3. PICK n \in S : \A x \in S : n <= x
        BY <2>2, LeastNumber
    <2> QED
        BY <2>1, <2>3
<1>6. PICK m \in Nat : m = drSent[k][p] /\ m > 0
    BY <1>2, <1>5
<1>7. m <= drSent[k][open] /\ drSent[k][open] \in Nat
    BY <1>2, <1>4, <1>5, <1>6
<1>8. \A r \in 1 .. Dr!DrLast : drCoin[k][r] = 1 => m <= BaEnd(r)
    <2> SUFFICES ASSUME NEW r \in 1 .. Dr!DrLast, drCoin[k][r] = 1
                 PROVE  m <= BaEnd(r)
        OBVIOUS
    <2>1. ~ (drSent[k][open] > BaEnd(r))
        BY <1>1, <1>4 DEF DrProgress
    <2>2. BaEnd(r) \in Nat
        BY DrNumbers DEF BaEnd
    <2> QED
        BY <1>7, <2>1, <2>2
<1>9. Q \subseteq Dr!Made(k, m)
    <2> SUFFICES ASSUME NEW q \in Q
                 PROVE  drSent[k][q] >= m
        BY <1>0 DEF Dr!Made
    <2>1. CASE drState[q] # "quit"
        BY <1>2, <1>5, <1>6, <2>1
    <2>2. CASE drState[q] = "quit"
        <3>1. PICK r \in 1 .. Dr!DrLast : drSent[k][q] = BaEnd(r) /\ drCoin[k][r] = 1
            BY <1>1, <2>2 DEF DrProgress
        <3>2. m <= BaEnd(r)
            BY <1>8, <3>1
        <3>3. drSent[k][q] \in Nat
            BY <1>2
        <3> QED
            BY <3>1, <3>2, <3>3
    <2> QED
        BY <2>1, <2>2
<1>10. Dr!Heard(k, m)
    BY <1>9, DrNumbers DEF Dr!Heard
<1>11. m <= 3 * DrBaRounds
    <2>1. Dr!DrLast \in 1 .. Dr!DrLast /\ BaEnd(Dr!DrLast) = 3 * DrBaRounds
        BY DrNumbers DEF BaEnd
    <2> QED
        BY <1>8, <2>1 DEF DrInv
<1>12. m % 3 # 0 \/ m \div 3 <= DrBaRounds
    BY <1>6, <1>11, DrNumbers
<1> QED
    BY <1>0, <1>1, <1>5, <1>6, <1>10, <1>12 DEF Dr!DrSettled, Dr!BroadcastDue, Dr!BaRoundOver

\* If not more than f nodes are mute or ahead of the last one, it is with a quorum.
LEMMA DrSettledLeft == DrInv => Dr!DrStuckOnlyByLeaving
<1> SUFFICES ASSUME DrInv, Dr!DrSettled, NEW p0 \in Nodes \ drMuted, drRound[p0] # DrRounds,
                    \A k \in Dr!DrSids, p \in Nodes \ drMuted :
                        drRound[p] = k => ~ (Cardinality(drMuted \cup {q \in Nodes : drRound[q] > k}) > F)
             PROVE  FALSE
    BY DrNumbers DEF Dr!DrStuckOnlyByLeaving
<1>0. DrTypeOK
    BY DEF DrInv
<1>1. PICK S : S = {drRound[q] : q \in Nodes \ drMuted}
    OBVIOUS
<1>2. S \in SUBSET (0 .. DrRounds) /\ drRound[p0] \in S
    BY <1>0, <1>1 DEF DrTypeOK
<1>3. DrRounds \in Nat /\ S \in SUBSET Nat /\ S # {}
    BY <1>2, AgreementsAssumption
<1>4. PICK k \in S : \A x \in S : k <= x
    BY <1>3, LeastNumber
<1>5. k \in Dr!DrSids
    <2>1. k \in 0 .. DrRounds /\ k <= drRound[p0] /\ drRound[p0] \in 0 .. DrRounds
        BY <1>2, <1>4
    <2>2. k # DrRounds
        BY <1>3, <2>1
    <2> QED
        BY <2>1, <2>2, DrNumbers
<1>6. PICK A \in SUBSET Nodes : A = drMuted \cup {q \in Nodes : drRound[q] > k}
    BY <1>0 DEF DrTypeOK
<1>7. Cardinality(A) <= F
    <2>1. ~ (Cardinality(A) > F)
        BY <1>1, <1>4, <1>5, <1>6
    <2> QED
        BY <2>1, NodeSets, FaultNumbers
<1>8. Nodes \ A \in Quorum
    BY <1>7, LiveNodes
<1>9. ASSUME NEW q \in Nodes \ A
      PROVE  q \notin drMuted /\ drRound[q] = k
    <2>1. q \notin drMuted /\ ~ (drRound[q] > k)
        BY <1>6
    <2>2. k <= drRound[q]
        BY <1>1, <1>4, <2>1
    <2>3. drRound[q] \in Nat /\ k \in Nat
        BY <1>0, <1>3, <1>4 DEF DrTypeOK
    <2> QED
        BY <2>1, <2>2, <2>3
<1> QED
    BY <1>5, <1>8, <1>9, QuorumGoesOn
-----------------------------------------------------------------------------
(***************************************************************************)
(* HoneyBadgerSubset.  What a node that returned from the slow broadcast   *)
(* heard of, f + 1 live nodes say to all the others, which is what makes   *)
(* every live node READY; and with N > 3f either input of the agreement    *)
(* comes from f + 1.                                                       *)
(***************************************************************************)
HbTypeOK ==
    /\ hbSlow \in Nodes
    /\ hbEcho \in SUBSET Nodes /\ hbReady \in SUBSET Nodes /\ hbGot \in SUBSET Nodes
    /\ hbOthers \in SUBSET Nodes /\ hbCrashed \in SUBSET Nodes
    /\ hbIn \in [Nodes -> {0, 1, None}]
    /\ hbDecided \in {0, 1, None}

\* The first READY rests on N - f ECHOs, a value on 2f + 1 READYs.
ReadyBacked ==
    /\ hbReady # {} => Cardinality(hbEcho) >= N - F
    /\ hbGot # {} => Cardinality(hbReady) >= 2 * F + 1

HbInputs(v) == {p \in Nodes : hbIn[p] = v}

\* Where inputs come from, and what is decided.
InputsBacked ==
    /\ \A p \in Nodes : hbIn[p] = 1 => p \in hbGot
    /\ \A p \in hbGot : hbIn[p] # None
    /\ F > 0 => \A p \in hbOthers : hbIn[p] # None
    /\ hbDecided # None => Cardinality(HbInputs(hbDecided)) >= F + 1

HbInv ==
    /\ HbTypeOK
    /\ Cardinality(hbCrashed) <= F
    /\ ReadyBacked
    /\ InputsBacked

\* Numbers and quorums are the same in HoneyBadgerSubset and here.
LEMMA HbNumbers ==
    /\ Hb!N = N
    /\ Hb!Quorum = Quorum
    /\ Hb!OnesNeeded = N - F
    /\ \A S : Hb!Cardinality(S) = Cardinality(S)
<1>1. \A S : Hb!Cardinality(S) = Cardinality(S)
    BY DEF Hb!Cardinality, Cardinality
<1>2. Hb!N = N
    BY <1>1 DEF Hb!N, N
<1> QED
    BY <1>1, <1>2 DEF Hb!Quorum, Quorum, Hb!OnesNeeded

\* A node hears all live senders, and nobody who did not send.
LEMMA HbHeard ==
    ASSUME hbCrashed \in SUBSET Nodes, Cardinality(hbCrashed) <= F,
           NEW p \in Nodes, NEW S \in SUBSET Nodes
    PROVE  /\ Hb!Heard(p, S) \in Nat /\ Cardinality(S) \in Nat
           /\ Cardinality(S \ hbCrashed) \in Nat
           /\ Cardinality(S \ hbCrashed) <= Hb!Heard(p, S)
           /\ Hb!Heard(p, S) <= Cardinality(S)
           /\ Cardinality(S) - F <= Cardinality(S \ hbCrashed)
<1>1. Nodes \ hbCrashed \in Quorum
    BY LiveNodes
<1>2. S \cap (Nodes \ hbCrashed) = S \ hbCrashed
    OBVIOUS
<1>3. Cardinality(S \cap (Nodes \ hbCrashed)) >= Cardinality(S) - F
    BY <1>1, MeetQuorum
<1>4. /\ Cardinality(S) \in Nat /\ Cardinality(S \ hbCrashed) \in Nat
      /\ Cardinality(S \ hbCrashed) <= Cardinality(S)
    BY NodeSets
<1>5. Cardinality(S) - F <= Cardinality(S \ hbCrashed)
    BY <1>2, <1>3, <1>4, FaultNumbers
<1>6. Hb!Heard(p, S) \in {Cardinality(S), Cardinality(S \ hbCrashed)}
    BY HbNumbers DEF Hb!Heard
<1> QED
    BY <1>4, <1>5, <1>6

\* Nobody has anything at first.
LEMMA HbInitInv == Hb!HbInit => HbInv
<1> SUFFICES ASSUME Hb!HbInit PROVE HbInv
    OBVIOUS
<1>1. Cardinality(hbCrashed) <= F
    BY FS_EmptySet, FaultNumbers DEF Hb!HbInit
<1>2. HbTypeOK /\ ReadyBacked /\ InputsBacked
    BY AgreementsAssumption DEF Hb!HbInit, HbTypeOK, ReadyBacked, InputsBacked
<1> QED
    BY <1>1, <1>2 DEF HbInv

\* An input that a node had not given yet adds to those given.
LEMMA HbInputsStay ==
    ASSUME HbTypeOK, NEW p \in Nodes, NEW v,
           hbIn' = hbIn \/ (hbIn[p] = None /\ hbIn' = [hbIn EXCEPT ![p] = v]),
           hbDecided' = hbDecided, hbDecided # None,
           Cardinality(HbInputs(hbDecided)) >= F + 1
    PROVE  Cardinality(HbInputs(hbDecided))' >= F + 1
<1>1. HbInputs(hbDecided) \subseteq HbInputs(hbDecided)' /\ HbInputs(hbDecided)' \in SUBSET Nodes
    BY DEF HbInputs, HbTypeOK
<1>2. /\ Cardinality(HbInputs(hbDecided)) <= Cardinality(HbInputs(hbDecided)')
      /\ Cardinality(HbInputs(hbDecided)) \in Nat /\ Cardinality(HbInputs(hbDecided)') \in Nat
    BY <1>1, NodeSets
<1> QED
    BY <1>2, FaultNumbers

\* Adding to those who sent does not take from what rests on them.
LEMMA ReadyBackedGrows ==
    ASSUME HbInv, hbEcho' \in SUBSET Nodes, hbReady' \in SUBSET Nodes,
           hbEcho \subseteq hbEcho', hbReady \subseteq hbReady',
           hbReady' # {} => hbReady # {} \/ Cardinality(hbEcho) >= N - F,
           hbGot' # {} => hbGot # {} \/ Cardinality(hbReady) >= 2 * F + 1
    PROVE  ReadyBacked'
<1>1. /\ Cardinality(hbEcho) <= Cardinality(hbEcho') /\ Cardinality(hbReady) <= Cardinality(hbReady')
      /\ Cardinality(hbEcho) \in Nat /\ Cardinality(hbReady) \in Nat
      /\ Cardinality(hbEcho') \in Nat /\ Cardinality(hbReady') \in Nat
    BY NodeSets
<1> QED
    BY <1>1, FaultNumbers DEF HbInv, ReadyBacked

\* Each step adds to what was sent, put in or decided on enough of it.
LEMMA HbStepInv == HbInv /\ [Hb!HbNext]_Hb!hbVars => HbInv'
<1> SUFFICES ASSUME HbInv, [Hb!HbNext]_Hb!hbVars
             PROVE  HbInv'
    OBVIOUS
<1>0. HbTypeOK /\ hbCrashed \in SUBSET Nodes /\ Cardinality(hbCrashed) <= F
    BY DEF HbInv, HbTypeOK
<1>1. ASSUME NEW p \in Nodes, Hb!Echo(p)
      PROVE  HbInv'
    <2>1. /\ hbEcho' = hbEcho \cup {p}
          /\ UNCHANGED <<hbSlow, hbReady, hbGot, hbOthers, hbIn, hbDecided, hbCrashed>>
        BY <1>1 DEF Hb!Echo
    <2>2. HbTypeOK' /\ InputsBacked'
        BY <1>0, <2>1 DEF HbInv, HbTypeOK, InputsBacked, HbInputs
    <2>3. ReadyBacked'
        BY <1>0, <2>1, ReadyBackedGrows DEF HbTypeOK
    <2> QED
        BY <1>0, <2>1, <2>2, <2>3 DEF HbInv
<1>2. ASSUME NEW p \in Nodes, Hb!Ready(p)
      PROVE  HbInv'
    <2>1. /\ hbReady' = hbReady \cup {p}
          /\ UNCHANGED <<hbSlow, hbEcho, hbGot, hbOthers, hbIn, hbDecided, hbCrashed>>
          /\ Hb!Heard(p, hbEcho) >= N - F \/ Hb!Heard(p, hbReady) >= F + 1
        BY <1>2, HbNumbers DEF Hb!Ready, Hb!ReadyDue
    <2>2. HbTypeOK' /\ InputsBacked'
        BY <1>0, <2>1 DEF HbInv, HbTypeOK, InputsBacked, HbInputs
    <2>3. hbReady # {} \/ Cardinality(hbEcho) >= N - F
        <3>1. CASE Hb!Heard(p, hbEcho) >= N - F
            <4>1. Hb!Heard(p, hbEcho) <= Cardinality(hbEcho) /\ Hb!Heard(p, hbEcho) \in Nat /\ Cardinality(hbEcho) \in Nat
                BY <1>0, HbHeard DEF HbTypeOK
            <4> QED
                BY <3>1, <4>1, FaultNumbers
        <3>2. CASE Hb!Heard(p, hbReady) >= F + 1
            <4>1. Hb!Heard(p, hbReady) <= Cardinality(hbReady) /\ Hb!Heard(p, hbReady) \in Nat /\ Cardinality(hbReady) \in Nat
                BY <1>0, HbHeard DEF HbTypeOK
            <4>2. Cardinality(hbReady) # 0
                BY <3>2, <4>1, FaultNumbers
            <4> QED
                BY <4>2, FS_EmptySet
        <3> QED
            BY <2>1, <3>1, <3>2
    <2>4. ReadyBacked'
        BY <1>0, <2>1, <2>3, ReadyBackedGrows DEF HbTypeOK
    <2> QED
        BY <1>0, <2>1, <2>2, <2>4 DEF HbInv
<1>3. ASSUME NEW p \in Nodes, Hb!GetValue(p)
      PROVE  HbInv'
    <2>1. /\ hbGot' = hbGot \cup {p}
          /\ hbIn' = [hbIn EXCEPT ![p] = IF @ = None THEN 1 ELSE @]
          /\ UNCHANGED <<hbSlow, hbEcho, hbReady, hbOthers, hbDecided, hbCrashed>>
          /\ Hb!Heard(p, hbReady) >= 2 * F + 1
        BY <1>3, HbNumbers DEF Hb!GetValue, Hb!ValueIn
    <2>2. \A q \in Nodes : hbIn'[q] = IF q = p /\ hbIn[p] = None THEN 1 ELSE hbIn[q]
        BY <1>0, <2>1 DEF HbTypeOK
    <2>3. HbTypeOK'
        BY <1>0, <2>1 DEF HbTypeOK
    <2>4. ReadyBacked'
        <3>1. /\ Hb!Heard(p, hbReady) <= Cardinality(hbReady)
              /\ Hb!Heard(p, hbReady) \in Nat /\ Cardinality(hbReady) \in Nat
            BY <1>0, HbHeard DEF HbTypeOK
        <3>2. Cardinality(hbReady) >= 2 * F + 1
            BY <2>1, <3>1, FaultNumbers
        <3> QED
            BY <1>0, <2>1, <3>2, ReadyBackedGrows DEF HbTypeOK
    <2>5. hbIn' = hbIn \/ (hbIn[p] = None /\ hbIn' = [hbIn EXCEPT ![p] = 1])
        <3>1. CASE hbIn[p] = None
            BY <2>1, <3>1
        <3>2. CASE hbIn[p] # None
            BY <1>0, <2>1, <3>2 DEF HbTypeOK
        <3> QED
            BY <3>1, <3>2
    <2>6. hbDecided # None => Cardinality(HbInputs(hbDecided))' >= F + 1
        BY <1>0, <2>1, <2>5, HbInputsStay DEF HbInv, InputsBacked
    <2>7. InputsBacked'
        <3>1. 1 # None
            BY AgreementsAssumption
        <3>2. \A q \in hbOthers : hbIn[q] # None => hbIn'[q] # None
            BY <1>0, <2>2, <3>1 DEF HbTypeOK
        <3>3. \A q \in Nodes : hbIn'[q] = 1 => q \in hbGot'
            BY <2>1, <2>2 DEF HbInv, InputsBacked
        <3>4. \A q \in hbGot' : hbIn'[q] # None
            BY <1>0, <2>1, <2>2, <3>1 DEF HbInv, InputsBacked, HbTypeOK
        <3> QED
            BY <2>1, <2>6, <3>2, <3>3, <3>4 DEF HbInv, InputsBacked
    <2> QED
        BY <1>0, <2>1, <2>3, <2>4, <2>7 DEF HbInv
<1>4. ASSUME NEW p \in Nodes, Hb!OthersOutput(p)
      PROVE  HbInv'
    <2>1. /\ hbOthers' = hbOthers \cup {p}
          /\ hbIn' = [hbIn EXCEPT ![p] = IF @ = None /\ N - 1 >= N - F THEN 0 ELSE @]
          /\ UNCHANGED <<hbSlow, hbEcho, hbReady, hbGot, hbDecided, hbCrashed>>
        BY <1>4, HbNumbers DEF Hb!OthersOutput, Hb!OthersIn
    <2>2. F > 0 <=> N - 1 >= N - F
        BY FaultNumbers
    <2>3. \A q \in Nodes : hbIn'[q] = IF q = p /\ hbIn[p] = None /\ F > 0 THEN 0 ELSE hbIn[q]
        BY <1>0, <2>1, <2>2 DEF HbTypeOK
    <2>4. HbTypeOK'
        BY <1>0, <2>1 DEF HbTypeOK
    <2>5. ReadyBacked'
        BY <2>1 DEF HbInv, ReadyBacked
    <2>6. hbIn' = hbIn \/ (hbIn[p] = None /\ hbIn' = [hbIn EXCEPT ![p] = 0])
        <3>1. CASE hbIn[p] = None /\ N - 1 >= N - F
            BY <2>1, <3>1
        <3>2. CASE ~ (hbIn[p] = None /\ N - 1 >= N - F)
            <4>1. hbIn' = [hbIn EXCEPT ![p] = hbIn[p]]
                BY <2>1, <3>2
            <4> QED
                BY <1>0, <4>1 DEF HbTypeOK
        <3> QED
            BY <3>1, <3>2
    <2>7. hbDecided # None => Cardinality(HbInputs(hbDecided))' >= F + 1
        BY <1>0, <2>1, <2>6, HbInputsStay DEF HbInv, InputsBacked
    <2>8. InputsBacked'
        <3>1. 0 # None
            BY AgreementsAssumption
        <3>2. \A q \in Nodes : hbIn'[q] = 1 => q \in hbGot
            BY <2>3 DEF HbInv, InputsBacked
        <3>3. \A q \in hbGot : hbIn'[q] # None
            BY <1>0, <2>3, <3>1 DEF HbInv, InputsBacked, HbTypeOK
        <3>4. F > 0 => \A q \in hbOthers' : hbIn'[q] # None
            BY <1>0, <2>1, <2>3, <3>1 DEF HbInv, InputsBacked, HbTypeOK
        <3> QED
            BY <2>1, <2>7, <3>2, <3>3, <3>4 DEF InputsBacked
    <2> QED
        BY <1>0, <2>1, <2>4, <2>5, <2>8 DEF HbInv
<1>5. ASSUME NEW v \in {0, 1}, Hb!AbaDecides(v)
      PROVE  HbInv'
    <2>1. /\ hbDecided' = v
          /\ UNCHANGED <<hbSlow, hbEcho, hbReady, hbGot, hbOthers, hbIn, hbCrashed>>
          /\ Cardinality(HbInputs(v)) >= F + 1
        BY <1>5, HbNumbers DEF Hb!AbaDecides, Hb!MayDecide, HbInputs
    <2>2. HbTypeOK' /\ ReadyBacked'
        BY <1>0, <2>1 DEF HbInv, HbTypeOK, ReadyBacked
    <2>3. Cardinality(HbInputs(hbDecided))' >= F + 1
        BY <2>1 DEF HbInputs
    <2>4. InputsBacked'
        BY <2>1, <2>3 DEF HbInv, InputsBacked
    <2> QED
        BY <1>0, <2>1, <2>2, <2>4 DEF HbInv
<1>6. ASSUME NEW p \in Nodes, Hb!HbCrash(p)
      PROVE  HbInv'
    <2>1. /\ hbCrashed' = hbCrashed \cup {p}
          /\ Cardinality(hbCrashed) < HbMaxCrash
          /\ UNCHANGED <<hbSlow, hbEcho, hbReady, hbGot, hbOthers, hbIn, hbDecided>>
        BY <1>6, HbNumbers DEF Hb!HbCrash
    <2>2. hbCrashed' \in SUBSET Nodes /\ Cardinality(hbCrashed') <= F
        BY <1>0, <2>1, OneMoreNode, AgreementsAssumption
    <2> QED
        BY <2>1, <2>2 DEF HbInv, HbTypeOK, ReadyBacked, InputsBacked, HbInputs
<1>7. ASSUME UNCHANGED <<hbSlow, hbEcho, hbReady, hbGot, hbOthers, hbIn, hbDecided, hbCrashed>>
      PROVE  HbInv'
    BY <1>7 DEF HbInv, HbTypeOK, ReadyBacked, InputsBacked, HbInputs
<1>8. ASSUME NEW p \in Nodes, Hb!ReturnSubset(p)
      PROVE  HbInv'
    BY <1>7, <1>8 DEF Hb!ReturnSubset
<1>9. CASE UNCHANGED Hb!hbVars
    BY <1>7, <1>9 DEF Hb!hbVars
<1> QED
    BY <1>1, <1>2, <1>3, <1>4, <1>5, <1>6, <1>8, <1>9 DEF Hb!HbNext, Hb!HbProgress

\* Once a live node has the value and nothing is left to do, all have it.
LEMMA HbValueSpreads ==
    ASSUME HbInv, Hb!HbSettled, hbGot # {}, NEW p \in Nodes, p \notin hbCrashed
    PROVE  p \in hbGot
<1>0. HbTypeOK /\ hbCrashed \in SUBSET Nodes /\ Cardinality(hbCrashed) <= F
    BY DEF HbInv, HbTypeOK
<1>1. Cardinality(hbReady) >= 2 * F + 1 /\ Cardinality(hbReady) \in Nat
    BY <1>0, NodeSets DEF HbInv, ReadyBacked, HbTypeOK
<1>2. Cardinality(hbEcho) >= N - F /\ Cardinality(hbEcho) \in Nat
    <2>1. hbReady # {}
        BY <1>1, FS_EmptySet, FaultNumbers
    <2> QED
        BY <1>0, <2>1, NodeSets DEF HbInv, ReadyBacked, HbTypeOK
<1>3. ASSUME NEW q \in Nodes, q \notin hbCrashed
      PROVE  q \in hbReady
    <2>1. /\ Cardinality(hbReady) - F <= Cardinality(hbReady \ hbCrashed)
          /\ Cardinality(hbReady \ hbCrashed) <= Hb!Heard(q, hbReady)
          /\ Hb!Heard(q, hbReady) \in Nat /\ Cardinality(hbReady \ hbCrashed) \in Nat
        BY <1>0, HbHeard DEF HbTypeOK
    <2>2. Hb!Heard(q, hbReady) >= F + 1
        BY <1>1, <2>1, FaultNumbers
    <2> QED
        BY <1>3, <2>2 DEF Hb!HbSettled, Hb!ReadyDue, Hb!HbLive
<1>4. Hb!Heard(p, hbReady) >= 2 * F + 1
    <2>1. /\ Cardinality(hbReady \ hbCrashed) <= Hb!Heard(p, hbReady)
          /\ Hb!Heard(p, hbReady) \in Nat /\ Cardinality(hbReady \ hbCrashed) \in Nat
        BY <1>0, HbHeard DEF HbTypeOK
    <2>2. hbReady \ hbCrashed = Nodes \ hbCrashed
        BY <1>0, <1>3 DEF HbTypeOK
    <2>3. Cardinality(Nodes \ hbCrashed) >= N - F
        BY <1>0, LiveNodes DEF Quorum
    <2> QED
        BY <2>1, <2>2, <2>3, FaultNumbers
<1>5. Hb!Heard(p, hbEcho) >= N - 2 * F
    <2>1. /\ Cardinality(hbEcho) - F <= Cardinality(hbEcho \ hbCrashed)
          /\ Cardinality(hbEcho \ hbCrashed) <= Hb!Heard(p, hbEcho)
          /\ Hb!Heard(p, hbEcho) \in Nat /\ Cardinality(hbEcho \ hbCrashed) \in Nat
        BY <1>0, HbHeard DEF HbTypeOK
    <2> QED
        BY <1>2, <2>1, FaultNumbers
<1> QED
    BY <1>3, <1>4, <1>5, HbNumbers DEF Hb!HbSettled, Hb!ValueIn, Hb!HbLive

\* Without faults to tolerate, the broadcast ends by itself.
LEMMA HbNoFaults ==
    ASSUME HbInv, Hb!HbSettled, F = 0
    PROVE  hbCrashed = {} /\ hbGot # {}
<1>0. HbTypeOK /\ hbCrashed \in SUBSET Nodes /\ Cardinality(hbCrashed) <= F
    BY DEF HbInv, HbTypeOK
<1>1. hbCrashed = {}
    <2>1. Cardinality(hbCrashed) = 0 /\ IsFiniteSet(hbCrashed)
        BY <1>0, NodeSets
    <2> QED
        BY <2>1, FS_EmptySet
<1>2. hbSlow \in Nodes
    BY <1>0 DEF HbTypeOK
<1>3. hbGot # {}
    <2> SUFFICES ASSUME hbGot = {}
                 PROVE  FALSE
        OBVIOUS
    <2>1. hbEcho = Nodes
        BY <1>0, <1>1, <1>2 DEF HbTypeOK, Hb!HbSettled, Hb!EchoDue, Hb!HbLive
    <2>2. \A q \in Nodes, S \in SUBSET Nodes : Hb!Heard(q, S) = Cardinality(S)
        BY <1>1, HbNumbers DEF Hb!Heard
    <2>3. \A q \in Nodes : Hb!Heard(q, hbEcho) = N
        BY <2>1, <2>2 DEF N
    <2>4. hbReady = Nodes
        <3>1. \A q \in Nodes : Hb!Heard(q, hbEcho) >= N - F
            BY <2>3, FaultNumbers
        <3>2. \A q \in Nodes : q \in hbReady
            BY <1>1, <3>1, HbNumbers DEF Hb!HbSettled, Hb!ReadyDue, Hb!HbLive
        <3> QED
            BY <1>0, <3>2 DEF HbTypeOK
    <2>5. Hb!Heard(hbSlow, hbReady) = N
        BY <1>2, <2>2, <2>4 DEF N
    <2>6. Hb!Heard(hbSlow, hbReady) >= 2 * F + 1 /\ Hb!Heard(hbSlow, hbEcho) >= N - 2 * F
        BY <1>2, <2>3, <2>5, FaultNumbers
    <2> QED
        BY <1>1, <1>2, <2>4, <2>6, HbNumbers DEF Hb!HbSettled, Hb!ValueIn, Hb!HbLive
<1> QED
    BY <1>1, <1>3

\* When nothing is left to do, all live nodes gave the agreement an input, which
\* decides; and if it decides 1, a live node has the value, and so all have.
LEMMA HbSettledReturned == HbInv => Hb!HoneyBadgerReturns
<1> SUFFICES ASSUME HbInv, Hb!HbSettled, NEW p \in Nodes, p \notin hbCrashed, p \notin hbReturned
             PROVE  FALSE
    BY DEF Hb!HoneyBadgerReturns, Hb!HbLive
<1>0. HbTypeOK /\ hbCrashed \in SUBSET Nodes /\ Cardinality(hbCrashed) <= F
    BY DEF HbInv, HbTypeOK
<1> DEFINE Live == Nodes \ hbCrashed
<1>1. Live \in Quorum
    BY <1>0, LiveNodes
<1>2. \A q \in Live : q \in hbOthers
    BY DEF Hb!HbSettled, Hb!OthersIn, Hb!HbLive
<1>3. \A q \in Live : hbIn[q] \in {0, 1}
    <2>1. CASE F > 0
        BY <1>0, <1>2, <2>1 DEF HbInv, InputsBacked, HbTypeOK
    <2>2. CASE F = 0
        BY <1>0, <2>2, HbNoFaults, HbValueSpreads DEF HbInv, InputsBacked, HbTypeOK
    <2> QED
        BY <2>1, <2>2, FaultNumbers
<1>4. hbDecided # None
    <2> SUFFICES ASSUME hbDecided = None
                 PROVE  FALSE
        OBVIOUS
    <2>1. {q \in Nodes : Hb!HbLive(q) /\ hbIn[q] # None} = Live
        BY <1>3, AgreementsAssumption DEF Hb!HbLive
    <2>2. \A v \in {0, 1} : ~ (Cardinality(HbInputs(v)) >= F + 1)
        BY <1>1, <2>1, HbNumbers DEF Hb!HbSettled, Hb!MayDecide, HbInputs
    <2>3. HbInputs(0) \in SUBSET Nodes /\ HbInputs(1) \in SUBSET Nodes /\ Live \subseteq HbInputs(0) \cup HbInputs(1)
        BY <1>3 DEF HbInputs
    <2>4. PICK A, B : A = HbInputs(0) /\ B = HbInputs(1)
        OBVIOUS
    <2>5. /\ IsFiniteSet(A) /\ IsFiniteSet(B)
          /\ Cardinality(A) \in Nat /\ Cardinality(B) \in Nat /\ Cardinality(A \cap B) \in Nat
        BY <2>3, <2>4, NodeSets
    <2>6. Cardinality(A \cup B) = Cardinality(A) + Cardinality(B) - Cardinality(A \cap B)
        BY <2>5, FS_Union
    <2>7. Cardinality(A \cup B) >= N - F
        BY <1>1, <2>3, <2>4, QuorumSuperset DEF Quorum
    <2>8. Cardinality(A) <= F /\ Cardinality(B) <= F
        BY <2>2, <2>4, <2>5, FaultNumbers
    <2> QED
        BY <2>5, <2>6, <2>7, <2>8, FaultNumbers
<1>5. hbDecided = 1 /\ p \notin hbGot
    BY <1>0, <1>2, <1>4 DEF Hb!HbSettled, Hb!SubsetIn, Hb!HbLive, HbTypeOK
<1>6. Cardinality(HbInputs(1)) >= F + 1 /\ HbInputs(1) \in SUBSET Nodes
    BY <1>4, <1>5 DEF HbInv, InputsBacked, HbInputs
<1>7. \E q \in Nodes : q \in HbInputs(1)
    BY <1>6, <1>1, MajorityMeets
<1>8. hbGot # {}
    BY <1>7 DEF HbInputs, HbInv, InputsBacked
<1> QED
    BY <1>5, <1>8, HbValueSpreads
-----------------------------------------------------------------------------
(***************************************************************************)
(* EpochDrivers.  A node that is past an epoch has left in it all that the *)
(* others need: its VIEW_CHANGE, its input to the agreement, its part of   *)
(* the subset and its shares.  The nodes that run are N - f, and those of  *)
(* them that are in the earliest epoch find that much in it.               *)
(***************************************************************************)
EdSlots == (0 .. 2) \cup {None}

EdTypeOK ==
    /\ edKind \in {"bdt", "rotating", "speedy"}
    /\ edTip \in 1 .. 2
    /\ edEpoch \in [Nodes -> Ed!EdIds]
    /\ edWhere \in [Nodes -> {"fast", "vc", "acs", "gone", "dead"}]
    /\ edSlot \in [Ed!EdIds -> [Nodes -> EdSlots]]
    /\ edInput \in [Ed!EdIds -> [Nodes -> EdSlots]]
    /\ edDecision \in [Ed!EdIds -> EdSlots]
    /\ edStarted \in [Ed!EdIds -> SUBSET Nodes]
    /\ edShared \in [Ed!EdIds -> SUBSET Nodes]
    /\ edLost \in SUBSET Nodes

\* What q left in an epoch that it ended.
EdEnded(q, e) ==
    /\ edKind # "speedy" => edSlot[e][q] # None
    /\ edKind = "bdt" => /\ edDecision[e] # None
                         /\ edDecision[e] \in {0, 1} => q \in edStarted[e] /\ q \in edShared[e]
    /\ edKind = "speedy" => q \in edStarted[e] /\ q \in edShared[e]

\* What q has done in its own epoch.
EdPresent(q, e) ==
    /\ edKind # "speedy" /\ edWhere[q] # "fast" => edSlot[e][q] # None
    /\ edWhere[q] = "acs" => /\ q \in edStarted[e]
                             /\ edKind = "bdt" => edDecision[e] \in {0, 1}

EdReached(q) ==
    /\ edKind = "rotating" => edWhere[q] # "acs"
    /\ edKind = "speedy" => edWhere[q] # "vc"
    /\ \A e \in Ed!EdIds : e < edEpoch[q] => EdEnded(q, e)
    /\ EdPresent(q, edEpoch[q])

EdInv ==
    /\ EdTypeOK
    /\ \A q \in edLost : ~ Ed!Runs(q)
    /\ \A q \in Nodes : Ed!Runs(q) => EdReached(q)

\* Numbers and quorums are the same in EpochDrivers and here.
LEMMA EdNumbers ==
    /\ Ed!N = N
    /\ Ed!Quorum = Quorum
    /\ \A S : Ed!Cardinality(S) = Cardinality(S)
    /\ Ed!EdIds \subseteq Nat
    /\ 0 \in Ed!EdIds
    /\ None \notin 0 .. 2
    /\ \A x, y \in Ed!EdIds : x <= y => x = y \/ x < y
<1>1. \A S : Ed!Cardinality(S) = Cardinality(S)
    BY DEF Ed!Cardinality, Cardinality
<1>2. Ed!N = N
    BY <1>1 DEF Ed!N, N
<1>3. Ed!EdIds \subseteq Nat /\ 0 \in Ed!EdIds
    BY AgreementsAssumption DEF Ed!EdIds
<1>4. None \notin 0 .. 2
    <2>1. 0 .. 2 = {0, 1, 2}
        OBVIOUS
    <2> QED
        BY <2>1, AgreementsAssumption
<1>5. \A x, y \in Ed!EdIds : x <= y => x = y \/ x < y
    BY <1>3
<1> QED
    BY <1>1, <1>2, <1>3, <1>4, <1>5 DEF Ed!Quorum, Quorum

\* All nodes are in their first epoch at first.
LEMMA EdInitInv == Ed!EdInit => EdInv
<1> SUFFICES ASSUME Ed!EdInit PROVE EdInv
    OBVIOUS
<1>1. EdTypeOK
    BY EdNumbers DEF Ed!EdInit, EdTypeOK, EdSlots
<1>2. ASSUME NEW q \in Nodes, Ed!Runs(q)
      PROVE  EdReached(q)
    <2>1. edWhere[q] = "fast" /\ edEpoch[q] = 0
        BY <1>2 DEF Ed!EdInit, Ed!Runs
    <2>2. \A e \in Ed!EdIds : ~ (e < 0)
        BY EdNumbers
    <2> QED
        BY <2>1, <2>2 DEF EdReached, EdPresent
<1>3. edLost = {}
    BY DEF Ed!EdInit
<1> QED
    BY <1>1, <1>2, <1>3 DEF EdInv

-----------------------------------------------------------------------------
\* What is known of an epoch is not taken back.
EdGrows ==
    /\ edKind' = edKind
    /\ \A x \in Ed!EdIds :
          /\ \A q \in Nodes : edSlot[x][q] # None => edSlot'[x][q] # None
          /\ edStarted[x] \subseteq edStarted'[x]
          /\ edShared[x] \subseteq edShared'[x]
          /\ edDecision[x] # None => edDecision'[x] = edDecision[x]

LEMMA EdEndedStays ==
    ASSUME EdTypeOK, EdGrows, NEW q \in Nodes, NEW e \in Ed!EdIds, EdEnded(q, e)
    PROVE  EdEnded(q, e)'
BY DEF EdGrows, EdEnded

LEMMA EdReachedStays ==
    ASSUME EdTypeOK, EdGrows, NEW q \in Nodes, EdReached(q),
           edEpoch'[q] = edEpoch[q], edWhere'[q] = edWhere[q]
    PROVE  EdReached(q)'
<1>1. edEpoch[q] \in Ed!EdIds /\ edKind' = edKind
    BY DEF EdTypeOK, EdGrows
<1>2. \A e \in Ed!EdIds : e < edEpoch[q] => EdEnded(q, e)'
    BY EdEndedStays DEF EdReached
<1>3. PICK x \in Ed!EdIds : x = edEpoch[q]
    BY <1>1
<1>4. EdPresent(q, x)'
    <2>1. EdPresent(q, x)
        BY <1>3 DEF EdReached
    <2>2. edDecision[x] \in {0, 1} => edDecision'[x] = edDecision[x]
        BY EdNumbers DEF EdGrows
    <2> QED
        BY <1>1, <2>1, <2>2 DEF EdGrows, EdPresent
<1> QED
    BY <1>1, <1>2, <1>3, <1>4 DEF EdReached

\* A step of p that leaves everybody else where it is.
LEMMA EdStepOf ==
    ASSUME EdInv, NEW p \in Nodes, EdTypeOK', EdGrows,
           \A q \in Nodes \ {p} : edEpoch'[q] = edEpoch[q] /\ edWhere'[q] = edWhere[q],
           edLost' = edLost \/ (edLost' = edLost \cup {p} /\ edWhere'[p] = "gone"),
           Ed!Runs(p),
           edWhere'[p] # "gone" => EdReached(p)'
    PROVE  EdInv'
<1>1. \A q \in Nodes \ {p} : Ed!Runs(q)' <=> Ed!Runs(q)
    BY DEF Ed!Runs
<1>2. p \notin edLost
    BY DEF EdInv
<1>3. \A q \in edLost' : ~ Ed!Runs(q)'
    <2> SUFFICES ASSUME NEW q \in edLost'
                 PROVE  ~ Ed!Runs(q)'
        OBVIOUS
    <2>1. CASE q = p
        BY <1>2, <2>1 DEF Ed!Runs
    <2>2. CASE q # p
        BY <1>1, <2>2 DEF EdInv, EdTypeOK
    <2> QED
        BY <2>1, <2>2
<1>4. ASSUME NEW q \in Nodes, Ed!Runs(q)'
      PROVE  EdReached(q)'
    <2>1. CASE q = p
        BY <1>4, <2>1 DEF Ed!Runs
    <2>2. CASE q # p
        BY <1>1, <1>4, <2>2, EdReachedStays DEF EdInv
    <2> QED
        BY <2>1, <2>2
<1> QED
    BY <1>3, <1>4 DEF EdInv

\* A node ends its epoch and goes on to the next one, or stops.
LEMMA NextEpochMoves ==
    ASSUME EdTypeOK, NEW p \in Nodes, NEW e \in Ed!EdIds, Ed!NextEpoch(p, e)
    PROVE  /\ edEpoch' \in [Nodes -> Ed!EdIds]
           /\ edWhere' \in [Nodes -> {"fast", "vc", "acs", "gone", "dead"}]
           /\ edLost' \in SUBSET Nodes
           /\ \A q \in Nodes \ {p} : edEpoch'[q] = edEpoch[q] /\ edWhere'[q] = edWhere[q]
           /\ edLost' = edLost \/ (edLost' = edLost \cup {p} /\ edWhere'[p] = "gone")
           /\ edWhere'[p] = "gone" \/ (edWhere'[p] = "fast" /\ edEpoch'[p] = e + 1)
<1>1. CASE e + 1 < EdEpochs
    <2>1. /\ edEpoch' = [edEpoch EXCEPT ![p] = e + 1]
          /\ edWhere' = [edWhere EXCEPT ![p] = "fast"]
          /\ edLost' = edLost
        BY <1>1 DEF Ed!NextEpoch
    <2>2. e + 1 \in Ed!EdIds
        BY <1>1, AgreementsAssumption DEF Ed!EdIds
    <2> QED
        BY <2>1, <2>2 DEF EdTypeOK
<1>2. CASE ~ (e + 1 < EdEpochs)
    <2>1. /\ edEpoch' = edEpoch
          /\ edWhere' = [edWhere EXCEPT ![p] = "gone"]
          /\ edLost' \in {edLost, edLost \cup {p}}
        BY <1>2 DEF Ed!NextEpoch, Ed!Exit, Ed!Stop
    <2> QED
        BY <2>1 DEF EdTypeOK
<1> QED
    BY <1>1, <1>2

LEMMA NextEpochReached ==
    ASSUME EdTypeOK, EdTypeOK', EdGrows, NEW p \in Nodes, NEW e \in Ed!EdIds, EdReached(p),
           edEpoch[p] = e, EdEnded(p, e)',
           edWhere'[p] = "fast", edEpoch'[p] = e + 1
    PROVE  EdReached(p)'
<1>1. \A x \in Ed!EdIds : x < e + 1 => x < e \/ x = e
    BY EdNumbers
<1>2. \A x \in Ed!EdIds : x < e => EdEnded(p, x)'
    BY EdEndedStays DEF EdReached
<1>3. \A x \in Ed!EdIds : x < e + 1 => EdEnded(p, x)'
    BY <1>1, <1>2
<1>4. EdPresent(p, e + 1)'
    BY DEF EdPresent
<1> QED
    BY <1>3, <1>4 DEF EdReached

\* A step of p into the next epoch.
LEMMA EdEndOf ==
    ASSUME EdInv, NEW p \in Nodes, NEW e \in Ed!EdIds, Ed!NextEpoch(p, e), EdGrows,
           Ed!Runs(p), edEpoch[p] = e, EdEnded(p, e)',
           edTip' = edTip, edSlot' = edSlot, edInput' = edInput,
           edDecision' \in [Ed!EdIds -> EdSlots],
           edStarted' = edStarted, edShared' = edShared
    PROVE  EdInv'
<1>1. EdTypeOK /\ EdReached(p)
    BY DEF EdInv
<1>2. EdTypeOK'
    BY <1>1, NextEpochMoves DEF EdTypeOK, EdGrows
<1>3. edWhere'[p] # "gone" => EdReached(p)'
    BY <1>1, <1>2, NextEpochMoves, NextEpochReached
<1> QED
    BY <1>1, <1>2, <1>3, NextEpochMoves, EdStepOf
-----------------------------------------------------------------------------
LEMMA SendVcKeeps ==
    ASSUME EdInv, NEW p \in Nodes, NEW e \in Ed!EdIds, NEW slot \in 0 .. 2, Ed!SendVc(p, e, slot)
    PROVE  EdInv'
<1>0. EdTypeOK
    BY DEF EdInv
<1>1. /\ edKind # "speedy" /\ edEpoch[p] = e /\ edWhere[p] = "fast"
      /\ UNCHANGED <<edKind, edTip, edInput, edDecision, edStarted, edShared>>
      /\ edEpoch' = edEpoch
    BY DEF Ed!SendVc, Ed!VcDue, Ed!In, Ed!Exit
<1>2. Ed!Runs(p) /\ EdReached(p)
    BY <1>1 DEF EdInv, Ed!Runs
<1>3. \/ /\ edWhere' = [edWhere EXCEPT ![p] = "gone"]
         /\ edSlot' = edSlot
         /\ edLost' \in {edLost, edLost \cup {p}}
      \/ /\ edWhere' = [edWhere EXCEPT ![p] = "vc"]
         /\ edSlot' = [edSlot EXCEPT ![e][p] = slot]
         /\ edLost' = edLost
    BY DEF Ed!SendVc, Ed!Exit, Ed!Stop
<1>4. CASE /\ edWhere' = [edWhere EXCEPT ![p] = "gone"]
           /\ edSlot' = edSlot
           /\ edLost' \in {edLost, edLost \cup {p}}
    <2>1. EdGrows
        BY <1>1, <1>4 DEF EdGrows
    <2>2. EdTypeOK'
        BY <1>0, <1>1, <1>4 DEF EdTypeOK
    <2>3. edWhere'[p] = "gone" /\ \A q \in Nodes \ {p} : edWhere'[q] = edWhere[q]
        BY <1>0, <1>4 DEF EdTypeOK
    <2> QED
        BY <1>1, <1>2, <1>4, <2>1, <2>2, <2>3, EdStepOf
<1>5. CASE /\ edWhere' = [edWhere EXCEPT ![p] = "vc"]
           /\ edSlot' = [edSlot EXCEPT ![e][p] = slot]
           /\ edLost' = edLost
    <2> DEFINE f == [edSlot[e] EXCEPT ![p] = slot]
    <2>1. slot \in EdSlots /\ slot # None
        BY EdNumbers DEF EdSlots
    <2>2. edSlot' = [edSlot EXCEPT ![e] = f]
        BY <1>5
    <2>3. f \in [Nodes -> EdSlots] /\ \A q \in Nodes : f[q] = IF q = p THEN slot ELSE edSlot[e][q]
        BY <1>0, <2>1 DEF EdTypeOK
    <2> HIDE DEF f
    <2>4. /\ edSlot' \in [Ed!EdIds -> [Nodes -> EdSlots]]
          /\ \A x \in Ed!EdIds : edSlot'[x] = IF x = e THEN f ELSE edSlot[x]
        BY <1>0, <2>2, <2>3 DEF EdTypeOK
    <2>5. EdGrows
        BY <1>1, <2>1, <2>3, <2>4 DEF EdGrows
    <2>6. EdTypeOK'
        BY <1>0, <1>1, <1>5, <2>4 DEF EdTypeOK
    <2>7. edWhere'[p] = "vc" /\ \A q \in Nodes \ {p} : edWhere'[q] = edWhere[q]
        BY <1>0, <1>5 DEF EdTypeOK
    <2>8. EdReached(p)'
        <3>1. \A x \in Ed!EdIds : x < e => EdEnded(p, x)'
            BY <1>0, <1>1, <1>2, <2>5, EdEndedStays DEF EdReached
        <3>2. EdPresent(p, e)'
            BY <2>1, <2>3, <2>4, <2>7 DEF EdPresent
        <3> QED
            BY <1>1, <2>7, <3>1, <3>2 DEF EdReached
    <2> QED
        BY <1>1, <1>2, <1>5, <2>5, <2>6, <2>7, <2>8, EdStepOf
<1> QED
    BY <1>3, <1>4, <1>5

LEMMA CollectVcKeeps ==
    ASSUME EdInv, NEW p \in Nodes, NEW e \in Ed!EdIds, NEW Q \in SUBSET Nodes, Ed!CollectVc(p, e, Q)
    PROVE  EdInv'
<1>0. EdTypeOK
    BY DEF EdInv
<1>1. UNCHANGED <<edKind, edTip, edEpoch, edWhere, edSlot, edDecision, edStarted, edShared, edLost>>
    BY DEF Ed!CollectVc
<1>2. edInput' \in [Ed!EdIds -> [Nodes -> EdSlots]]
    <2>1. PICK top \in Q : edInput' = [edInput EXCEPT ![e][p] = edSlot[e][top]]
        BY DEF Ed!CollectVc
    <2>2. PICK v \in EdSlots : v = edSlot[e][top]
        BY <1>0 DEF EdTypeOK
    <2> DEFINE f == [edInput[e] EXCEPT ![p] = v]
    <2>3. edInput' = [edInput EXCEPT ![e] = f]
        BY <2>1, <2>2
    <2>4. f \in [Nodes -> EdSlots]
        BY <1>0, <2>2 DEF EdTypeOK
    <2> HIDE DEF f
    <2> QED
        BY <1>0, <2>3, <2>4 DEF EdTypeOK
<1>3. EdTypeOK'
    BY <1>0, <1>1, <1>2 DEF EdTypeOK
<1>4. \A q \in Nodes : (Ed!Runs(q)' <=> Ed!Runs(q)) /\ (EdReached(q)' <=> EdReached(q))
    BY <1>1 DEF Ed!Runs, EdReached, EdEnded, EdPresent
<1> QED
    BY <1>0, <1>1, <1>3, <1>4 DEF EdInv, EdTypeOK

LEMMA EndAgreementKeeps ==
    ASSUME EdInv, NEW p \in Nodes, NEW e \in Ed!EdIds, NEW v \in 0 .. 2, Ed!EndAgreement(p, e, v)
    PROVE  EdInv'
<1>0. EdTypeOK
    BY DEF EdInv
<1>1. /\ edKind = "bdt" /\ edEpoch[p] = e /\ edWhere[p] = "vc"
      /\ edDecision[e] # None => v = edDecision[e]
      /\ edDecision' = [edDecision EXCEPT ![e] = v]
      /\ UNCHANGED <<edKind, edTip, edSlot, edInput, edShared>>
    BY DEF Ed!EndAgreement, Ed!AgreementOut, Ed!In
<1>2. Ed!Runs(p) /\ EdReached(p)
    BY <1>1 DEF EdInv, Ed!Runs
<1>3. v # None /\ edSlot[e][p] # None
    BY <1>1, <1>2, EdNumbers DEF EdReached, EdPresent
<1>4. edDecision' \in [Ed!EdIds -> EdSlots] /\ edDecision'[e] = v
    BY <1>0, <1>1 DEF EdTypeOK, EdSlots
<1>5. \A x \in Ed!EdIds : edDecision[x] # None => edDecision'[x] = edDecision[x]
    BY <1>0, <1>1 DEF EdTypeOK
<1>6. CASE v > 1
    <2>1. Ed!NextEpoch(p, e) /\ edStarted' = edStarted
        BY <1>6 DEF Ed!EndAgreement
    <2>2. EdGrows
        BY <1>1, <1>5, <2>1 DEF EdGrows
    <2>3. EdEnded(p, e)'
        BY <1>1, <1>3, <1>4, <1>6 DEF EdEnded
    <2> QED
        BY <1>1, <1>2, <1>4, <2>1, <2>2, <2>3, EdEndOf
<1>7. CASE ~ (v > 1)
    <2>1. /\ edWhere' = [edWhere EXCEPT ![p] = "acs"]
          /\ edStarted' = [edStarted EXCEPT ![e] = @ \cup {p}]
          /\ UNCHANGED <<edEpoch, edLost>>
        BY <1>7 DEF Ed!EndAgreement
    <2>2. /\ edStarted' \in [Ed!EdIds -> SUBSET Nodes]
          /\ \A x \in Ed!EdIds : edStarted'[x] = IF x = e THEN edStarted[x] \cup {p} ELSE edStarted[x]
        BY <1>0, <2>1, AddedNode DEF EdTypeOK
    <2>3. EdGrows
        BY <1>1, <1>5, <2>2 DEF EdGrows
    <2>4. EdTypeOK'
        BY <1>0, <1>1, <1>4, <2>1, <2>2 DEF EdTypeOK
    <2>5. edWhere'[p] = "acs" /\ \A q \in Nodes \ {p} : edWhere'[q] = edWhere[q]
        BY <1>0, <2>1 DEF EdTypeOK
    <2>6. EdReached(p)'
        <3>1. \A x \in Ed!EdIds : x < e => EdEnded(p, x)'
            BY <1>0, <1>1, <1>2, <2>3, EdEndedStays DEF EdReached
        <3>2. EdPresent(p, e)'
            BY <1>1, <1>3, <1>4, <1>7, <2>2, <2>5 DEF EdPresent
        <3> QED
            BY <1>1, <2>1, <2>5, <3>1, <3>2 DEF EdReached
    <2> QED
        BY <1>2, <2>1, <2>3, <2>4, <2>5, <2>6, EdStepOf
<1> QED
    BY <1>6, <1>7

LEMMA EndMvbaKeeps ==
    ASSUME EdInv, NEW p \in Nodes, NEW e \in Ed!EdIds, Ed!EndMvba(p, e)
    PROVE  EdInv'
<1>0. EdTypeOK
    BY DEF EdInv
<1>1. /\ edKind = "speedy" /\ edEpoch[p] = e /\ edWhere[p] = "fast"
      /\ edWhere' = [edWhere EXCEPT ![p] = "acs"]
      /\ edStarted' = [edStarted EXCEPT ![e] = @ \cup {p}]
      /\ UNCHANGED <<edKind, edTip, edEpoch, edSlot, edInput, edDecision, edShared, edLost>>
    BY DEF Ed!EndMvba, Ed!MvbaOut, Ed!In
<1>2. Ed!Runs(p) /\ EdReached(p)
    BY <1>1 DEF EdInv, Ed!Runs
<1>3. /\ edStarted' \in [Ed!EdIds -> SUBSET Nodes]
      /\ \A x \in Ed!EdIds : edStarted'[x] = IF x = e THEN edStarted[x] \cup {p} ELSE edStarted[x]
    BY <1>0, <1>1, AddedNode DEF EdTypeOK
<1>4. EdGrows
    BY <1>1, <1>3 DEF EdGrows
<1>5. EdTypeOK'
    BY <1>0, <1>1, <1>3 DEF EdTypeOK
<1>6. edWhere'[p] = "acs" /\ \A q \in Nodes \ {p} : edWhere'[q] = edWhere[q]
    BY <1>0, <1>1 DEF EdTypeOK
<1>7. EdReached(p)'
    <2>1. \A x \in Ed!EdIds : x < e => EdEnded(p, x)'
        BY <1>0, <1>1, <1>2, <1>4, EdEndedStays DEF EdReached
    <2>2. EdPresent(p, e)'
        BY <1>1, <1>3, <1>6 DEF EdPresent
    <2> QED
        BY <1>1, <1>6, <2>1, <2>2 DEF EdReached
<1> QED
    BY <1>1, <1>2, <1>4, <1>5, <1>6, <1>7, EdStepOf

LEMMA EndSubsetKeeps ==
    ASSUME EdInv, NEW p \in Nodes, NEW e \in Ed!EdIds, Ed!EndSubset(p, e)
    PROVE  EdInv'
<1>0. EdTypeOK
    BY DEF EdInv
<1>1. /\ edEpoch[p] = e /\ edWhere[p] = "acs"
      /\ edShared' = [edShared EXCEPT ![e] = @ \cup {p}]
      /\ UNCHANGED <<edKind, edTip, edEpoch, edWhere, edSlot, edInput, edDecision, edStarted, edLost>>
    BY DEF Ed!EndSubset, Ed!SubsetOut, Ed!In
<1>2. Ed!Runs(p) /\ EdReached(p)
    BY <1>1 DEF EdInv, Ed!Runs
<1>3. /\ edShared' \in [Ed!EdIds -> SUBSET Nodes]
      /\ \A x \in Ed!EdIds : edShared[x] \subseteq edShared'[x]
    BY <1>0, <1>1, AddedNode DEF EdTypeOK
<1>4. EdGrows
    BY <1>1, <1>3 DEF EdGrows
<1>5. EdTypeOK'
    BY <1>0, <1>1, <1>3 DEF EdTypeOK
<1>6. EdReached(p)'
    BY <1>0, <1>1, <1>2, <1>4, EdReachedStays
<1> QED
    BY <1>1, <1>2, <1>4, <1>5, <1>6, EdStepOf

LEMMA EndFallbackKeeps ==
    ASSUME EdInv, NEW p \in Nodes, NEW e \in Ed!EdIds, Ed!EndFallback(p, e) \/ Ed!EndRotating(p, e)
    PROVE  EdInv'
<1>0. EdTypeOK
    BY DEF EdInv
<1>1. /\ edEpoch[p] = e
      /\ \/ edWhere[p] = "acs" /\ p \in edShared[e]
         \/ edWhere[p] = "vc" /\ edKind = "rotating"
      /\ Ed!NextEpoch(p, e)
      /\ UNCHANGED <<edKind, edTip, edSlot, edInput, edDecision, edStarted, edShared>>
    BY DEF Ed!EndFallback, Ed!SharesIn, Ed!EndRotating, Ed!RotationDue, Ed!In
<1>2. Ed!Runs(p) /\ EdReached(p)
    BY <1>1 DEF EdInv, Ed!Runs
<1>3. EdGrows
    BY <1>1 DEF EdGrows
<1>4. EdEnded(p, e)
    <2>1. EdPresent(p, e)
        BY <1>1, <1>2 DEF EdReached
    <2>2. edDecision[e] \in {0, 1} => edDecision[e] # None
        BY EdNumbers
    <2> QED
        BY <1>1, <1>2, <2>1, <2>2 DEF EdEnded, EdPresent, EdReached
<1>5. EdEnded(p, e)'
    BY <1>0, <1>3, <1>4, EdEndedStays
<1>6. edDecision' \in [Ed!EdIds -> EdSlots]
    BY <1>0, <1>1 DEF EdTypeOK
<1> QED
    BY <1>1, <1>2, <1>3, <1>5, <1>6, EdEndOf

\* The invariant is kept.
LEMMA EdStepInv == EdInv /\ [Ed!EdNext]_Ed!edVars => EdInv'
<1> SUFFICES ASSUME EdInv, [Ed!EdNext]_Ed!edVars
             PROVE  EdInv'
    OBVIOUS
<1>1. CASE UNCHANGED Ed!edVars
    BY <1>1 DEF Ed!edVars, EdInv, EdTypeOK, Ed!Runs, EdReached, EdEnded, EdPresent
<1> QED
    BY <1>1, SendVcKeeps, CollectVcKeeps, EndAgreementKeeps, EndMvbaKeeps, EndSubsetKeeps,
       EndFallbackKeeps DEF Ed!EdNext
-----------------------------------------------------------------------------
\* The nodes that run, if no more than f have stopped, and their earliest epoch.
EdRunning == {q \in Nodes : Ed!Runs(q)}

LEMMA EarliestEpoch ==
    ASSUME EdInv, ~ (Cardinality(Ed!EdStopped) > F)
    PROVE  /\ EdRunning \in Quorum
           /\ \E p \in EdRunning : \A q \in EdRunning : edEpoch[p] <= edEpoch[q]
<1>1. Ed!EdStopped \in SUBSET Nodes /\ EdRunning = Nodes \ Ed!EdStopped
    BY DEF Ed!EdStopped, EdRunning
<1>2. Cardinality(Ed!EdStopped) <= F
    BY <1>1, NodeSets, FaultNumbers
<1>3. EdRunning \in Quorum
    BY <1>1, <1>2, LiveNodes
<1>4. PICK S : S = {edEpoch[q] : q \in EdRunning}
    OBVIOUS
<1>5. S \in SUBSET Nat
    BY <1>4, EdNumbers DEF EdInv, EdTypeOK, EdRunning
<1>6. S # {}
    BY <1>3, <1>4, ThreeQuorumsMeet
<1>7. PICK n \in S : \A m \in S : n <= m
    BY <1>5, <1>6, LeastNumber
<1> QED
    BY <1>3, <1>4, <1>7

\* In a settled state the nodes in the earliest epoch have left the fast path,
LEMMA LeftFast ==
    ASSUME EdInv, Ed!EdSettled, edKind # "speedy", NEW e \in Ed!EdIds,
           \A q \in EdRunning : e <= edEpoch[q], NEW q \in EdRunning
    PROVE  edSlot[e][q] # None
<1>0. EdTypeOK /\ q \in Nodes /\ Ed!Runs(q) /\ EdReached(q)
    BY DEF EdInv, EdRunning
<1>1. CASE e < edEpoch[q]
    BY <1>0, <1>1 DEF EdReached, EdEnded
<1>2. CASE e = edEpoch[q]
    <2>1. edWhere[q] # "fast"
        <3> SUFFICES ASSUME edWhere[q] = "fast"
                     PROVE  FALSE
            OBVIOUS
        <3>1. edTip \in 0 .. 2 /\ edTip <= edTip /\ ~ (edTip < edTip - 1)
            BY <1>0 DEF EdTypeOK
        <3>2. Ed!VcDue(q, e, edTip)
            BY <1>2, <3>1 DEF Ed!VcDue, Ed!In, Ed!Returns
        <3> QED
            BY <1>0, <3>1, <3>2 DEF Ed!EdSettled
    <2> QED
        BY <1>0, <1>2, <2>1 DEF EdReached, EdPresent
<1>3. edEpoch[q] \in Ed!EdIds
    BY <1>0 DEF EdTypeOK
<1>4. e = edEpoch[q] \/ e < edEpoch[q]
    BY <1>3, EdNumbers
<1> QED
    BY <1>1, <1>2, <1>4

\* ... nobody who runs is cut off, and those who run are enough for a quorum.
LEMMA RunningTakePart ==
    ASSUME EdInv, EdRunning \in Quorum, NEW e \in Ed!EdIds,
           \A q \in EdRunning : e <= edEpoch[q],
           NEW S \in SUBSET Nodes, EdRunning \subseteq S
    PROVE  /\ S \ edLost \in Quorum
           /\ Cardinality(S \ edLost) >= F + 1
           /\ edKind # "speedy" => Ed!TakePart(S, e)
<1>1. EdRunning \cap edLost = {}
    BY DEF EdInv, EdRunning
<1>2. S \ edLost \in Quorum
    BY <1>1, QuorumSuperset
<1>3. Cardinality(S \ edLost) >= F + 1
    <2>1. Cardinality(S \ edLost) >= N - F /\ Cardinality(S \ edLost) \in Nat
        BY <1>2, NodeSets DEF Quorum
    <2> QED
        BY <2>1, FaultNumbers
<1>4. ASSUME edKind # "speedy"
      PROVE  Ed!TakePart(S, e)
    <2> DEFINE T == {q \in S : Ed!Handles(q, e) \/ (edWhere[q] = "gone" /\ q \notin edLost)}
    <2>1. \A q \in EdRunning : edEpoch[q] >= e
        BY EdNumbers DEF EdInv, EdTypeOK, EdRunning
    <2>2. EdRunning \subseteq T /\ T \in SUBSET Nodes
        BY <1>4, <2>1 DEF Ed!Handles, EdRunning
    <2>3. T \in Ed!Quorum
        BY <2>2, QuorumSuperset, EdNumbers
    <2> QED
        BY <2>3 DEF Ed!TakePart
<1> QED
    BY <1>2, <1>3, <1>4

\* Where all running nodes gave their shares, nobody waits.
LEMMA SharesEnough ==
    ASSUME EdInv, Ed!EdSettled, EdRunning \in Quorum, NEW p \in EdRunning,
           \A q \in EdRunning : edEpoch[p] <= edEpoch[q],
           \A q \in EdRunning : q \in edShared[edEpoch[p]],
           edWhere[p] = "acs"
    PROVE  FALSE
<1>1. p \in Nodes /\ edEpoch[p] \in Ed!EdIds /\ edShared[edEpoch[p]] \in SUBSET Nodes
    BY DEF EdInv, EdTypeOK, EdRunning
<1>2. Cardinality(edShared[edEpoch[p]] \ edLost) >= F + 1
    BY <1>1, RunningTakePart
<1>3. Ed!SharesIn(p, edEpoch[p])
    BY <1>2, EdNumbers DEF Ed!SharesIn, Ed!In
<1> QED
    BY <1>1, <1>3 DEF Ed!EdSettled

\* Of the nodes in the earliest epoch of Bdt one waits in an agreement.
LEMMA BdtServed ==
    ASSUME EdInv, Ed!EdSettled, EdRunning \in Quorum, edKind = "bdt", NEW p \in EdRunning,
           \A q \in EdRunning : edEpoch[p] <= edEpoch[q]
    PROVE  \E q \in EdRunning :
               edEpoch[q] = edEpoch[p] /\ Ed!WaitsInAgreement(q, edEpoch[p])
<1> DEFINE e == edEpoch[p]
<1> SUFFICES ASSUME \A q \in EdRunning : e = edEpoch[q] => ~ Ed!WaitsInAgreement(q, e)
             PROVE  FALSE
    OBVIOUS
<1>0. /\ EdTypeOK /\ p \in Nodes /\ e \in Ed!EdIds
      /\ EdRunning \in SUBSET Nodes
      /\ \A q \in EdRunning : EdReached(q) /\ Ed!Runs(q) /\ q \notin edLost
    BY DEF EdInv, EdTypeOK, EdRunning
<1>1. \A q \in EdRunning : edSlot[e][q] # None
    BY <1>0, LeftFast
<1>2. \A q \in EdRunning : e = edEpoch[q] \/ e < edEpoch[q]
    <2>1. \A q \in EdRunning : edEpoch[q] \in Ed!EdIds
        BY <1>0 DEF EdTypeOK
    <2> QED
        BY <1>0, <2>1, EdNumbers
<1>3. \A q \in EdRunning : Ed!Handles(q, e)
    BY <1>0, <1>2, EdNumbers DEF Ed!Handles, EdTypeOK
<1>4. PICK Q \in SUBSET EdRunning : Cardinality(Q) = N - F
    <2>1. IsFiniteSet(EdRunning) /\ Cardinality(EdRunning) \in Nat /\ Cardinality(EdRunning) >= N - F
        BY NodeSets DEF Quorum
    <2>2. N - F \in 0 .. Cardinality(EdRunning)
        BY <2>1, FaultNumbers
    <2> QED
        BY <2>1, <2>2, SubsetOfSize
<1>5. \A q \in EdRunning : edInput[e][q] # None
    <2>1. Q \subseteq Ed!VcSenders(e) /\ Q \in SUBSET Nodes
        BY <1>0, <1>1, <1>4 DEF Ed!VcSenders
    <2>2. \A q \in EdRunning : edInput[e][q] = None => Ed!VcsIn(q, e, Q)
        BY <1>3, <1>4, <2>1, EdNumbers DEF Ed!VcsIn
    <2> QED
        BY <1>0, <2>1, <2>2 DEF Ed!EdSettled
<1>6. \A q \in EdRunning : ~ Ed!In(q, e, "vc")
    <2> SUFFICES ASSUME NEW q \in EdRunning, Ed!In(q, e, "vc")
                 PROVE  FALSE
        OBVIOUS
    <2> DEFINE S == {n \in Nodes : edInput[e][n] # None}
    <2>1. Ed!TakePart(S, e)
        <3>1. EdRunning \subseteq S /\ S \in SUBSET Nodes
            BY <1>0, <1>5
        <3> HIDE DEF S
        <3> QED
            BY <1>0, <3>1, RunningTakePart
    <2>2. PICK v \in 0 .. 2 : IF edDecision[e] = None THEN v = edInput[e][q] ELSE v = edDecision[e]
        BY <1>0, <1>5 DEF EdTypeOK, EdSlots
    <2>3. Ed!AgreementOut(q, e, v)
        BY <1>0, <2>1, <2>2 DEF Ed!AgreementOut
    <2>4. Ed!AgreementMayBlock(e)
        BY <1>0, <2>3 DEF Ed!EdSettled
    <2>5. Ed!WaitsInAgreement(q, e) /\ e = edEpoch[q]
        BY <2>3, <2>4 DEF Ed!WaitsInAgreement, Ed!In
    <2> QED
        BY <2>5
<1>7. \A q \in EdRunning : e = edEpoch[q] => edWhere[q] = "acs"
    <2>1. \A q \in EdRunning : e = edEpoch[q] => edWhere[q] # "fast"
        <3> SUFFICES ASSUME NEW q \in EdRunning, e = edEpoch[q], edWhere[q] = "fast"
                     PROVE  FALSE
            OBVIOUS
        <3>1. edTip \in 0 .. 2 /\ edTip <= edTip /\ ~ (edTip < edTip - 1)
            BY <1>0 DEF EdTypeOK
        <3>2. Ed!VcDue(q, e, edTip)
            BY <3>1 DEF Ed!VcDue, Ed!In, Ed!Returns
        <3> QED
            BY <1>0, <3>1, <3>2 DEF Ed!EdSettled
    <2> QED
        BY <1>0, <1>6, <2>1 DEF EdTypeOK, Ed!Runs, Ed!In
<1>8. edDecision[e] \in {0, 1}
    BY <1>0, <1>7 DEF EdReached, EdPresent
<1>9. \A q \in EdRunning : q \in edStarted[e]
    BY <1>0, <1>2, <1>7, <1>8 DEF EdReached, EdPresent, EdEnded
<1>10. \A q \in EdRunning : q \in edShared[e]
    <2>1. Ed!TakePart(edStarted[e], e)
        BY <1>0, <1>9, RunningTakePart DEF EdTypeOK
    <2>2. \A q \in EdRunning : e = edEpoch[q] => q \in edShared[e]
        <3> SUFFICES ASSUME NEW q \in EdRunning, e = edEpoch[q], q \notin edShared[e]
                     PROVE  FALSE
            OBVIOUS
        <3>1. Ed!SubsetOut(q, e)
            BY <1>7, <2>1 DEF Ed!SubsetOut, Ed!In
        <3>2. Ed!EdStopped = {}
            BY <3>1 DEF Ed!WaitsInAgreement
        <3>3. edStarted[e] = Nodes
            BY <1>0, <1>9, <3>2 DEF EdTypeOK, EdRunning, Ed!EdStopped
        <3>4. ~ Ed!SubsetMayBlock(e)
            BY <3>2, <3>3 DEF Ed!SubsetMayBlock
        <3> QED
            BY <1>0, <3>1, <3>4 DEF Ed!EdSettled
    <2> QED
        BY <1>0, <1>2, <1>8, <2>2 DEF EdReached, EdEnded
<1> QED
    BY <1>7, <1>10, SharesEnough

LEMMA RotatingServed ==
    ASSUME EdInv, Ed!EdSettled, EdRunning \in Quorum, edKind = "rotating", NEW p \in EdRunning,
           \A q \in EdRunning : edEpoch[p] <= edEpoch[q]
    PROVE  FALSE
<1> DEFINE e == edEpoch[p]
<1>0. /\ EdTypeOK /\ p \in Nodes /\ e \in Ed!EdIds
      /\ EdRunning \in SUBSET Nodes
      /\ \A q \in EdRunning : EdReached(q) /\ Ed!Runs(q) /\ q \notin edLost
    BY DEF EdInv, EdTypeOK, EdRunning
<1>1. \A q \in EdRunning : edSlot[e][q] # None
    BY <1>0, LeftFast
<1>2. Ed!VcSenders(e) \in Ed!Quorum
    <2>1. EdRunning \subseteq Ed!VcSenders(e) /\ Ed!VcSenders(e) \in SUBSET Nodes
        BY <1>0, <1>1 DEF Ed!VcSenders
    <2> QED
        BY <2>1, QuorumSuperset, EdNumbers
<1>3. edWhere[p] # "fast"
    <2> SUFFICES ASSUME edWhere[p] = "fast"
                 PROVE  FALSE
        OBVIOUS
    <2>1. edTip \in 0 .. 2 /\ edTip <= edTip /\ ~ (edTip < edTip - 1)
        BY <1>0 DEF EdTypeOK
    <2>2. Ed!VcDue(p, e, edTip)
        BY <2>1 DEF Ed!VcDue, Ed!In, Ed!Returns
    <2> QED
        BY <1>0, <2>1, <2>2 DEF Ed!EdSettled
<1>4. edWhere[p] = "vc"
    BY <1>0, <1>3 DEF EdTypeOK, EdReached, Ed!Runs
<1> QED
    BY <1>0, <1>2, <1>4 DEF Ed!EdSettled, Ed!RotationDue, Ed!In

\* ... and one of those of SpeedyDumbo in speedmvba.
LEMMA SpeedyServed ==
    ASSUME EdInv, Ed!EdSettled, EdRunning \in Quorum, edKind = "speedy", NEW p \in EdRunning,
           \A q \in EdRunning : edEpoch[p] <= edEpoch[q]
    PROVE  \E q \in EdRunning :
               edEpoch[q] = edEpoch[p] /\ Ed!WaitsInAgreement(q, edEpoch[p])
<1> DEFINE e == edEpoch[p]
<1> SUFFICES ASSUME \A q \in EdRunning : e = edEpoch[q] => ~ Ed!WaitsInAgreement(q, e)
             PROVE  FALSE
    OBVIOUS
<1>0. /\ EdTypeOK /\ p \in Nodes /\ e \in Ed!EdIds
      /\ EdRunning \in SUBSET Nodes
      /\ \A q \in EdRunning : EdReached(q) /\ Ed!Runs(q) /\ q \notin edLost
    BY DEF EdInv, EdTypeOK, EdRunning
<1>1. \A q \in EdRunning : e = edEpoch[q] \/ e < edEpoch[q]
    <2>1. \A q \in EdRunning : edEpoch[q] \in Ed!EdIds
        BY <1>0 DEF EdTypeOK
    <2> QED
        BY <1>0, <2>1, EdNumbers
<1>2. \A q \in EdRunning : e = edEpoch[q] => edWhere[q] # "fast"
    <2> SUFFICES ASSUME NEW q \in EdRunning, e = edEpoch[q], edWhere[q] = "fast"
                 PROVE  FALSE
        OBVIOUS
    <2>1. Ed!MvbaOut(q, e)
        <3>1. CASE \E n \in EdRunning : e < edEpoch[n]
            <4>1. edStarted[e] \ edLost # {}
                BY <1>0, <3>1 DEF EdReached, EdEnded
            <4> QED
                BY <4>1 DEF Ed!MvbaOut, Ed!In
        <3>2. CASE \A n \in EdRunning : e = edEpoch[n]
            <4>1. EdRunning \subseteq {n \in Nodes : Ed!Handles(n, e)}
                BY <1>0, <3>2 DEF Ed!Handles
            <4>2. {n \in Nodes : Ed!Handles(n, e)} \in Ed!Quorum
                BY <4>1, QuorumSuperset, EdNumbers
            <4> QED
                BY <4>2 DEF Ed!MvbaOut, Ed!In
        <3> QED
            BY <1>1, <3>1, <3>2
    <2>2. Ed!MvbaMayBlock(e)
        BY <1>0, <2>1 DEF Ed!EdSettled
    <2>3. Ed!WaitsInAgreement(q, e)
        BY <2>1, <2>2 DEF Ed!WaitsInAgreement
    <2> QED
        BY <2>3
<1>3. \A q \in EdRunning : e = edEpoch[q] => edWhere[q] = "acs"
    BY <1>0, <1>2 DEF EdTypeOK, EdReached, Ed!Runs
<1>4. \A q \in EdRunning : q \in edShared[e]
    <2>1. \A q \in EdRunning : e = edEpoch[q] => q \in edShared[e]
        BY <1>0, <1>3 DEF Ed!EdSettled, Ed!SubsetOut, Ed!SubsetMayBlock, Ed!In
    <2> QED
        BY <1>0, <1>1, <2>1 DEF EdReached, EdEnded
<1> QED
    BY <1>3, <1>4, SharesEnough

\* Of the nodes that run, one in the earliest epoch waits in an agreement.
LEMMA EdSettledServed == EdInv => Ed!LaggardsWaitInAgreements
<1> SUFFICES ASSUME EdInv, Ed!EdSettled, Cardinality(Ed!EdStopped) <= F
             PROVE  \E p \in Nodes :
                        /\ Ed!Runs(p)
                        /\ \A q \in Nodes : Ed!Runs(q) => edEpoch[p] <= edEpoch[q]
                        /\ Ed!WaitsInAgreement(p, edEpoch[p])
    BY EdNumbers DEF Ed!LaggardsWaitInAgreements
<1>1. Ed!EdStopped \in SUBSET Nodes
    BY DEF Ed!EdStopped
<1>2. ~ (Cardinality(Ed!EdStopped) > F)
    BY <1>1, NodeSets, FaultNumbers
<1>3. EdRunning \in Quorum
    BY <1>2, EarliestEpoch
<1>4. PICK p \in EdRunning : \A q \in EdRunning : edEpoch[p] <= edEpoch[q]
    BY <1>2, EarliestEpoch
<1>5. PICK q \in EdRunning : edEpoch[q] = edEpoch[p] /\ Ed!WaitsInAgreement(q, edEpoch[p])
    BY <1>3, <1>4, BdtServed, RotatingServed, SpeedyServed DEF EdInv, EdTypeOK
<1>6. q \in Nodes /\ Ed!Runs(q) /\ \A n \in Nodes : Ed!Runs(n) => n \in EdRunning
    BY DEF EdRunning
<1> QED
    BY <1>4, <1>5, <1>6
-----------------------------------------------------------------------------
(***************************************************************************)
(* The theorems: of each component's specification, and of the suite, of   *)
(* which a behaviour is one of one component.                              *)
(***************************************************************************)
\* No two nodes decide differently in binaryagreement, an only estimate stays,
\* and what is decided was input by f + 1 nodes: for all numbers of nodes,
\* rounds and all coins.
THEOREM BinaryAgreementSafe == Ba!BaSpec => []Ba!BaAgreement
<1>1. BaInv => Ba!BaAgreement
    BY BaInvAgrees
<1> QED
    BY <1>1, BaInitInv, BaStepInv, PTL DEF Ba!BaSpec

\* When a binary agreement has come to rest, only nodes that have decided still wait.
THEOREM BinaryAgreementEnds == Ba!BaSpec => []Ba!OnlyDecidedWait
<1>1. BaInv /\ BaWaits => Ba!OnlyDecidedWait
    BY BaSettledDecided
<1>2. BaInv /\ BaWaits /\ [Ba!BaNext]_Ba!baVars => (BaInv /\ BaWaits)'
    BY BaStepInv, BaStepWaits
<1>3. Ba!BaInit => BaInv /\ BaWaits
    BY BaInitInv, BaInitWaits
<1> QED
    BY <1>1, <1>2, <1>3, PTL DEF Ba!BaSpec

\* When f + 1 nodes of validatedagreement have the leader in their commit list,
\* no node gives the agreement on it an input of 0.
THEOREM ValidatedAgreementSafe == Va!VaSpec => []Va!CommittedLeaderWins
<1> QED
    BY VaInitInv, VaStepInv, VaInvWins, PTL DEF Va!VaSpec

\* When an iteration of validatedagreement has come to rest, all live nodes are
\* at its end; or a process is dead, and a live node waits for ballots of which it
\* has thrown one away.
THEOREM ValidatedAgreementEnds == Va!VaSpec => []Va!IterationEnds
<1>1. VaInv /\ VaWaits => Va!IterationEnds
    BY VaSettledEnds
<1>2. VaInv /\ VaWaits /\ [Va!VaNext]_Va!vaVars => (VaInv /\ VaWaits)'
    BY VaStepInv, VaStepWaits
<1>3. Va!VaInit => VaInv /\ VaWaits
    BY VaInitInv, VaInitWaits
<1> QED
    BY <1>1, <1>2, <1>3, PTL DEF Va!VaSpec

\* What a node of speedmvba halted with is certified, and carried by the
\* messages of the next round.
THEOREM SpeedMvbaHalts == Mv!MvSpec => []Mv!HaltsLeaveTheirMark
<1> QED
    BY MvInitInv, MvStepInv, MvInvHalts, PTL DEF Mv!MvSpec

\* A dispersed value is recovered by every live node when the recast has come
\* to rest, unless the leader of a dumbo_mvba lacks its own fragment.  There are
\* 3f + 1 nodes, without which the f + 1 fragments the recast decodes from are
\* not the N - 2f the dispersal has cut the value into.
THEOREM RecastEnds ==
    ASSUME N = 3 * F + 1
    PROVE  Rc!RcSpec => []Rc!RcRecovers
<1> QED
    BY RcInitInv, RcStepInv, RcSettledRecovers, PTL DEF Rc!RcSpec

\* When a dumbo_mvba has come to rest, and all are up or one has announced that
\* it is past the dispersals, every live node is at the recast.
THEOREM DumboMvbaEnds == Dm!DmSpec => []Dm!DmComesToRecast
<1> QED
    BY DmInitInv, DmStepInv, DmSettledAtRecast, PTL DEF Dm!DmSpec

\* When the rounds of Dumbo have come to rest unfinished, more than f nodes are
\* missing in a round in which a node waits.
THEOREM DumboRoundEnds == Dr!DrSpec => []Dr!DrStuckOnlyByLeaving
<1> QED
    BY DrInitInv, DrStepInv, DrSettledLeft, PTL DEF Dr!DrSpec

\* When the common subset of HoneyBadger has come to rest, every live node has it.
THEOREM HoneyBadgerEnds == Hb!HbSpec => []Hb!HoneyBadgerReturns
<1> QED
    BY HbInitInv, HbStepInv, HbSettledReturned, PTL DEF Hb!HbSpec

\* When the epochs of BDT, RotatingHotStuff or sMVBA have come to rest, more
\* than f processes have stopped, or a node waits in an agreement that N - f
\* nodes take part in and that has not decided.
THEOREM EpochDriversEnd == Ed!EdSpec => []Ed!LaggardsWaitInAgreements
<1> QED
    BY EdInitInv, EdStepInv, EdSettledServed, PTL DEF Ed!EdSpec

\* The invariant of the component the behaviour is of.
SuiteInv ==
    /\ running = "Ba" => BaInv /\ BaWaits
    /\ running = "Va" => VaInv /\ VaWaits
    /\ running = "Mv" => MvInv
    /\ running = "Rc" => RcInv
    /\ running = "Dm" => DmInv
    /\ running = "Dr" => DrInv
    /\ running = "Hb" => HbInv
    /\ running = "Ed" => EdInv

\* Only the chosen component moves, and its invariant is kept.
LEMMA SuiteKeepsInv == Spec => []SuiteInv
<1>1. Init => SuiteInv
    BY BaInitInv, BaInitWaits, VaInitInv, VaInitWaits, MvInitInv,
       RcInitInv, DmInitInv, DrInitInv, HbInitInv, EdInitInv DEF Init, SuiteInv
<1>2. SuiteInv /\ [Next]_vars => SuiteInv'
    <2> SUFFICES ASSUME SuiteInv, [Next]_vars
                 PROVE  SuiteInv'
        OBVIOUS
    <2>1. UNCHANGED running
        BY DEF Next, vars
    <2>2. running = "Ba" => [Ba!BaNext]_Ba!baVars
        BY DEF Next, vars, BaState, Ba!baVars
    <2>3. running = "Va" => [Va!VaNext]_Va!vaVars
        BY DEF Next, vars, VaState, Va!vaVars, Va!vaBallotVars
    <2>4. running = "Mv" => [Mv!MvNext]_Mv!mvVars
        BY DEF Next, vars, MvState, Mv!mvVars, Mv!mvSpbcVars, Mv!mvVoteVars
    <2>5. running = "Rc" => [Rc!RcNext]_Rc!rcVars
        BY DEF Next, vars, RcState, Rc!rcVars, Rc!pdVars
    <2>6. running = "Dm" => [Dm!DmNext]_Dm!dmVars
        BY DEF Next, vars, DmState, Dm!dmVars, Dm!dmQuit, Dm!dmFaults
    <2>7. running = "Dr" => [Dr!DrNext]_Dr!drVars
        BY DEF Next, vars, DrState, Dr!drVars
    <2>8. running = "Hb" => [Hb!HbNext]_Hb!hbVars
        BY DEF Next, vars, HbState, Hb!hbVars
    <2>9. running = "Ed" => [Ed!EdNext]_Ed!edVars
        BY DEF Next, vars, EdState, Ed!edVars
    <2> QED
        BY <2>1, <2>2, <2>3, <2>4, <2>5, <2>6, <2>7, <2>8, <2>9, BaStepInv, BaStepWaits,
           VaStepInv, VaStepWaits, MvStepInv, RcStepInv, DmStepInv, DrStepInv, HbStepInv,
           EdStepInv DEF SuiteInv
<1> QED
    BY <1>1, <1>2, PTL DEF Spec

\* As above, of the specification that is run.
THEOREM DecisionsAgree == Spec => []BaAgreement
<1>1. SuiteInv => BaAgreement
    BY BaInvAgrees DEF SuiteInv, BaAgreement
<1> QED
    BY <1>1, SuiteKeepsInv, PTL

\* As above, of the specification that is run.
THEOREM WaitersDecided == Spec => []OnlyDecidedWait
<1>1. SuiteInv => OnlyDecidedWait
    BY BaSettledDecided DEF SuiteInv, OnlyDecidedWait
<1> QED
    BY <1>1, SuiteKeepsInv, PTL

\* As above, of the specification that is run.
THEOREM CommittedLeadersWin == Spec => []CommittedLeaderWins
<1>1. SuiteInv => CommittedLeaderWins
    BY VaInvWins DEF SuiteInv, CommittedLeaderWins
<1> QED
    BY <1>1, SuiteKeepsInv, PTL

\* As above, of the specification that is run.
THEOREM IterationsEnd == Spec => []IterationEnds
<1>1. SuiteInv => IterationEnds
    BY VaSettledEnds DEF SuiteInv, IterationEnds
<1> QED
    BY <1>1, SuiteKeepsInv, PTL

\* As above, of the specification that is run.
THEOREM HaltsMarked == Spec => []HaltsLeaveTheirMark
<1>1. SuiteInv => HaltsLeaveTheirMark
    BY MvInvHalts DEF SuiteInv, HaltsLeaveTheirMark
<1> QED
    BY <1>1, SuiteKeepsInv, PTL

\* As above, of the specification that is run.
THEOREM ValuesRecovered ==
    ASSUME N = 3 * F + 1
    PROVE  Spec => []RcRecovers
<1>1. SuiteInv => RcRecovers
    BY RcSettledRecovers DEF SuiteInv, RcRecovers
<1> QED
    BY <1>1, SuiteKeepsInv, PTL

\* As above, of the specification that is run.
THEOREM RecastReached == Spec => []DmComesToRecast
<1>1. SuiteInv => DmComesToRecast
    BY DmSettledAtRecast DEF SuiteInv, DmComesToRecast
<1> QED
    BY <1>1, SuiteKeepsInv, PTL

\* As above, of the specification that is run.
THEOREM RoundsStuckByLeaving == Spec => []DrStuckOnlyByLeaving
<1>1. SuiteInv => DrStuckOnlyByLeaving
    BY DrSettledLeft DEF SuiteInv, DrStuckOnlyByLeaving
<1> QED
    BY <1>1, SuiteKeepsInv, PTL

\* As above, of the specification that is run.
THEOREM SubsetsReturned == Spec => []HoneyBadgerReturns
<1>1. SuiteInv => HoneyBadgerReturns
    BY HbSettledReturned DEF SuiteInv, HoneyBadgerReturns
<1> QED
    BY <1>1, SuiteKeepsInv, PTL

\* As above, of the specification that is run.
THEOREM LaggardsHeldByAgreements == Spec => []LaggardsWaitInAgreements
<1>1. SuiteInv => LaggardsWaitInAgreements
    BY EdSettledServed DEF SuiteInv, LaggardsWaitInAgreements
<1> QED
    BY <1>1, SuiteKeepsInv, PTL
=============================================================================
