-------------------------- MODULE DisseminationProof -------------------------
(***************************************************************************)
(* Inductive invariants of the components of MCDissemination, and the      *)
(* theorems that follow from them.  That a component does not stop too     *)
(* early is a statement about the states in which no guard of it holds.    *)
(***************************************************************************)
EXTENDS MCDissemination, QuorumLemmas, SequenceTheorems

(***************************************************************************)
(* NwAbc.  A round is proposed when N - f nodes have voted for the round   *)
(* before, who are past it; no node is further than the round proposed.    *)
(* On a FIFO link a node whose greenlet ended has all PROPOSALs; the round *)
(* proposed last misses votes, and the N - f live nodes give them.         *)
(***************************************************************************)
NwTypeOK ==
    /\ nwProposed \in 1 .. NwMaxTx + 2
    /\ nwGot \in [Nodes -> SUBSET Nat]
    /\ nwSlot \in [Nodes -> Nat \ {0}]
    /\ nwVoters \in [Nw!NwRounds -> SUBSET Nodes]
    /\ nwStopped \subseteq Nodes

SlotsProposed ==
    \A p \in Nodes : nwGot[p] \subseteq 1 .. nwProposed /\ nwSlot[p] <= nwProposed + 1

VotersPast == \A r \in Nw!NwRounds : \A q \in nwVoters[r] : r < nwSlot[q]

RoundsVoted == \A r \in Nw!NwRounds : r < nwProposed => nwVoters[r] \in Quorum

VotesOpen == \A r \in Nw!NwRounds : r >= nwProposed => Cardinality(nwVoters[r]) < N - F

\* The round of 0 is the last; who stopped or whose greenlet ended has it.
EmptyLast ==
    /\ nwLeader \in Nodes /\ nwSupply \in 1 .. NwMaxTx
    /\ \A p \in Nodes : nwSlot[p] <= nwSupply + 1
    /\ \A p \in nwDeaf : nwSupply + 1 \in nwGot[p]
    /\ \A p \in nwStopped : nwSlot[p] = nwSupply + 1 /\ nwSupply + 1 \in nwGot[p]

ArrivedInOrder == ~ NwPriority => \A p \in Nodes : \E k \in Nat : nwGot[p] = 1 .. k

FewNwCrashed == nwCrashed \in SUBSET Nodes /\ Cardinality(nwCrashed) <= F

NwInv ==
    /\ NwTypeOK
    /\ SlotsProposed
    /\ VotersPast
    /\ RoundsVoted
    /\ VotesOpen
    /\ EmptyLast
    /\ ArrivedInOrder
    /\ FewNwCrashed

\* The component's N, quorums and cardinalities are those of the suite.
LEMMA NwNumbers ==
    /\ Nw!N = N
    /\ Nw!Quorum = Quorum
    /\ \A S : Nw!Cardinality(S) = Cardinality(S)
    /\ Nw!NwRounds = 1 .. NwMaxTx + 1 /\ NwMaxTx \in Nat
<1>1. \A S : Nw!Cardinality(S) = Cardinality(S)
    BY DEF Nw!Cardinality, Cardinality
<1>2. Nw!N = N
    BY <1>1 DEF Nw!N, N
<1> QED
    BY <1>1, <1>2, DisseminationAssumption DEF Nw!Quorum, Quorum, Nw!NwRounds

\* The invariant holds at the start.
LEMMA NwInitInv == Nw!NwInit => NwInv
<1> SUFFICES ASSUME Nw!NwInit
             PROVE  NwInv
    OBVIOUS
<1> USE DEF Nw!NwInit
<1>1. NwTypeOK /\ SlotsProposed /\ VotersPast /\ RoundsVoted
    BY NwNumbers DEF NwTypeOK, SlotsProposed, VotersPast, RoundsVoted
<1>2. VotesOpen
    BY FS_EmptySet, FaultNumbers DEF VotesOpen
<1>3. EmptyLast
    BY NwNumbers DEF EmptyLast
<1>4. ArrivedInOrder
    <2>1. {} = 1 .. 0 /\ 0 \in Nat
        OBVIOUS
    <2> QED
        BY <2>1 DEF ArrivedInOrder
<1>5. FewNwCrashed
    BY FS_EmptySet, FaultNumbers DEF FewNwCrashed
<1> QED
    BY <1>1, <1>2, <1>3, <1>4, <1>5 DEF NwInv

\* The last vote for a round is one for the round proposed.
LEMMA VoteCountedOnce ==
    ASSUME NwInv, NEW q \in Nodes, NEW r \in Nw!NwRounds, Nw!CountVote(q, r)
    PROVE  NwInv'
<1> DEFINE voters == nwVoters[r] \cup {q}
<1> USE DEF NwInv
<1>1. /\ r < nwSlot[q] /\ Cardinality(nwVoters[r]) < N - F
      /\ nwVoters' = [nwVoters EXCEPT ![r] = voters]
      /\ nwProposed' = IF Cardinality(voters) = N - F THEN r + 1 ELSE nwProposed
      /\ UNCHANGED <<nwLeader, nwSupply, nwGot, nwSlot, nwStopped, nwDeaf, nwCrashed>>
    BY NwNumbers DEF Nw!CountVote, Nw!VoteArrives, Nw!VotesNeeded
<1>2. r \in Nat /\ r >= 1 /\ r <= NwMaxTx + 1 /\ nwProposed \in Nat /\ NwMaxTx \in Nat
    BY NwNumbers DEF NwTypeOK
<1>3. voters \in SUBSET Nodes
    BY DEF NwTypeOK
<1>4. r = nwProposed
    <2>1. nwVoters[r] \notin Quorum
        BY <1>1, FaultNumbers, NodeSets DEF Quorum, NwTypeOK
    <2>2. r >= nwProposed
        BY <1>2, <2>1 DEF RoundsVoted
    <2>3. nwSlot[q] <= nwProposed + 1 /\ nwSlot[q] \in Nat
        BY DEF SlotsProposed, NwTypeOK
    <2> QED
        BY <1>1, <1>2, <2>2, <2>3
<1>5. NwTypeOK'
    BY <1>1, <1>2, <1>3 DEF NwTypeOK
<1>6. nwProposed <= nwProposed'
    BY <1>1, <1>2, <1>4
<1>7. SlotsProposed'
    BY <1>1, <1>2, <1>4, <1>6 DEF SlotsProposed, NwTypeOK
<1>8. VotersPast'
    BY <1>1 DEF VotersPast, NwTypeOK
<1>9. RoundsVoted'
    <2> SUFFICES ASSUME NEW t \in Nw!NwRounds, t < nwProposed'
                 PROVE  nwVoters'[t] \in Quorum
        BY DEF RoundsVoted
    <2>1. CASE t = r
        <3>1. Cardinality(voters) = N - F
            BY <1>1, <1>2, <1>4, <2>1
        <3> QED
            BY <1>1, <1>3, <2>1, <3>1, FaultNumbers DEF Quorum, NwTypeOK
    <2>2. CASE t # r
        <3>1. t < nwProposed
            BY <1>1, <1>2, <1>4, <2>2, NwNumbers
        <3> QED
            BY <1>1, <2>2, <3>1 DEF RoundsVoted, NwTypeOK
    <2> QED
        BY <2>1, <2>2
<1>10. VotesOpen'
    <2> SUFFICES ASSUME NEW t \in Nw!NwRounds, t >= nwProposed'
                 PROVE  Cardinality(nwVoters'[t]) < N - F
        BY DEF VotesOpen
    <2>1. t \in Nat
        BY NwNumbers
    <2>2. CASE t = r
        <3>1. Cardinality(voters) # N - F
            BY <1>1, <1>2, <2>1, <2>2
        <3>2. Cardinality(voters) <= Cardinality(nwVoters[r]) + 1
            <4>1. nwVoters[r] \in SUBSET Nodes
                BY DEF NwTypeOK
            <4> QED
                BY <4>1, FS_AddElement, NodeSets
        <3>3. Cardinality(voters) \in Nat /\ Cardinality(nwVoters[r]) \in Nat
            BY <1>3, NodeSets DEF NwTypeOK
        <3> QED
            BY <1>1, <2>2, <3>1, <3>2, <3>3, FaultNumbers DEF NwTypeOK
    <2>3. CASE t # r
        BY <1>1, <1>2, <1>6, <2>1, <2>3 DEF VotesOpen, NwTypeOK
    <2> QED
        BY <2>2, <2>3
<1>11. EmptyLast' /\ ArrivedInOrder' /\ FewNwCrashed'
    BY <1>1 DEF EmptyLast, ArrivedInOrder, FewNwCrashed
<1> QED
    BY <1>5, <1>7, <1>8, <1>9, <1>10, <1>11

\* On a FIFO link a PROPOSAL that arrives is the next.
LEMMA ProposalTaken ==
    ASSUME NwInv, NEW p \in Nodes, NEW r \in Nw!NwRounds, Nw!GetProposal(p, r)
    PROVE  NwInv'
<1> USE DEF NwInv
<1>1. /\ r \in 1 .. nwProposed /\ r \notin nwGot[p]
      /\ NwPriority \/ 1 .. r - 1 \subseteq nwGot[p]
      /\ nwGot' = [nwGot EXCEPT ![p] = @ \cup {r}]
      /\ UNCHANGED <<nwLeader, nwSupply, nwProposed, nwSlot, nwVoters, nwStopped, nwDeaf,
                     nwCrashed>>
    BY DEF Nw!GetProposal, Nw!ProposalArrives
<1>2. NwTypeOK' /\ SlotsProposed' /\ VotersPast' /\ RoundsVoted' /\ VotesOpen'
    BY <1>1 DEF NwTypeOK, SlotsProposed, VotersPast, RoundsVoted, VotesOpen
<1>3. EmptyLast' /\ FewNwCrashed'
    BY <1>1 DEF EmptyLast, FewNwCrashed, NwTypeOK
<1>4. ArrivedInOrder'
    <2> SUFFICES ASSUME ~ NwPriority, NEW q \in Nodes
                 PROVE  \E k \in Nat : nwGot'[q] = 1 .. k
        BY DEF ArrivedInOrder
    <2>1. PICK k \in Nat : nwGot[q] = 1 .. k
        BY DEF ArrivedInOrder
    <2>2. CASE q = p
        <3>1. r \in Nat /\ r >= 1
            BY NwNumbers
        <3>2. r = k + 1
            BY <1>1, <2>1, <2>2, <3>1
        <3>3. nwGot'[p] = (1 .. k) \cup {k + 1}
            BY <1>1, <2>1, <2>2, <3>2 DEF NwTypeOK
        <3>4. (1 .. k) \cup {k + 1} = 1 .. k + 1 /\ k + 1 \in Nat
            OBVIOUS
        <3> QED
            BY <2>2, <3>3, <3>4
    <2>3. CASE q # p
        BY <1>1, <2>1, <2>3 DEF NwTypeOK
    <2> QED
        BY <2>2, <2>3
<1> QED
    BY <1>2, <1>3, <1>4

\* At most NwMaxCrash nodes crash, which is no more than f.
LEMMA NwCrashKeeps ==
    ASSUME NwInv, NEW p \in Nodes, Nw!NwCrash(p)
    PROVE  NwInv'
<1> USE DEF NwInv
<1>1. /\ Cardinality(nwCrashed) < NwMaxCrash
      /\ nwCrashed' = nwCrashed \cup {p}
      /\ UNCHANGED <<nwLeader, nwSupply, nwProposed, nwGot, nwSlot, nwVoters, nwStopped, nwDeaf>>
    BY NwNumbers DEF Nw!NwCrash
<1>2. FewNwCrashed'
    BY <1>1, OneMoreNode, DisseminationAssumption DEF FewNwCrashed
<1>3. EmptyLast' /\ ArrivedInOrder'
    BY <1>1 DEF EmptyLast, ArrivedInOrder
<1>4. NwTypeOK' /\ SlotsProposed' /\ VotersPast' /\ RoundsVoted' /\ VotesOpen'
    BY <1>1 DEF NwTypeOK, SlotsProposed, VotersPast, RoundsVoted, VotesOpen
<1> QED
    BY <1>2, <1>3, <1>4

\* The invariant is inductive.
LEMMA NwStepInv == NwInv /\ [Nw!NwNext]_Nw!nwVars => NwInv'
<1> SUFFICES ASSUME NwInv, [Nw!NwNext]_Nw!nwVars
             PROVE  NwInv'
    OBVIOUS
<1> USE DEF NwInv
<1>1. ASSUME NEW p \in Nodes, NEW r \in Nw!NwRounds, Nw!GetProposal(p, r)
      PROVE  NwInv'
    BY <1>1, ProposalTaken
<1>2. ASSUME NEW p \in Nodes, NEW r \in Nw!NwRounds, Nw!CountVote(p, r)
      PROVE  NwInv'
    BY <1>2, VoteCountedOnce
<1>3. ASSUME NEW p \in Nodes, Nw!Decide(p)
      PROVE  NwInv'
    <2>1. /\ nwSlot[p] \in nwGot[p]
          /\ \/ nwSlot[p] = nwSupply + 1 /\ nwStopped' = nwStopped \cup {p} /\ UNCHANGED nwSlot
             \/ /\ p \notin nwStopped /\ nwSlot[p] # nwSupply + 1
                /\ nwSlot' = [nwSlot EXCEPT ![p] = nwSlot[p] + 1]
                /\ UNCHANGED nwStopped
          /\ UNCHANGED <<nwLeader, nwSupply, nwProposed, nwGot, nwVoters, nwDeaf, nwCrashed>>
        BY <1>3 DEF Nw!Decide, Nw!RoundArrived, Nw!Empty
    <2>2. nwProposed \in Nat /\ \A q \in Nodes : nwSlot[q] \in Nat \ {0}
        BY DEF NwTypeOK
    <2>3. nwSlot[p] <= nwProposed
        BY <2>1, <2>2 DEF SlotsProposed
    <2>4. \A q \in Nodes : nwSlot'[q] >= nwSlot[q] /\ nwSlot'[q] <= nwProposed + 1
                               /\ nwSlot'[q] \in Nat \ {0}
        BY <2>1, <2>2, <2>3 DEF NwTypeOK, SlotsProposed
    <2>5. NwTypeOK'
        BY <2>1, <2>4 DEF NwTypeOK
    <2>6. VotersPast'
        <3> SUFFICES ASSUME NEW r \in Nw!NwRounds, NEW q \in nwVoters[r]
                     PROVE  r < nwSlot'[q]
            BY <2>1 DEF VotersPast
        <3>1. q \in Nodes /\ r < nwSlot[q] /\ r \in Nat
            BY NwNumbers DEF NwTypeOK, VotersPast
        <3> QED
            BY <2>2, <2>4, <3>1
    <2>7. EmptyLast'
        <3>1. nwSupply \in Nat
            BY NwNumbers DEF EmptyLast
        <3>2. \A q \in Nodes : nwSlot'[q] <= nwSupply + 1
            BY <2>1, <2>2, <3>1 DEF EmptyLast, NwTypeOK
        <3>3. \A q \in nwStopped' : nwSlot'[q] = nwSupply + 1 /\ nwSupply + 1 \in nwGot[q]
            BY <2>1 DEF EmptyLast, NwTypeOK
        <3> QED
            BY <2>1, <3>2, <3>3 DEF EmptyLast
    <2>8. VotesOpen' /\ ArrivedInOrder' /\ FewNwCrashed'
        BY <2>1 DEF VotesOpen, ArrivedInOrder, FewNwCrashed
    <2> QED
        BY <2>1, <2>4, <2>5, <2>6, <2>7, <2>8 DEF SlotsProposed, RoundsVoted
<1>4. ASSUME NEW p \in Nodes, Nw!GetEmptyAgain(p)
      PROVE  NwInv'
    BY <1>4 DEF Nw!GetEmptyAgain, Nw!EmptyArrivesAgain, NwTypeOK, SlotsProposed, VotersPast,
        RoundsVoted, VotesOpen, EmptyLast, ArrivedInOrder, FewNwCrashed
<1>5. ASSUME NEW p \in Nodes, Nw!NwCrash(p)
      PROVE  NwInv'
    BY <1>5, NwCrashKeeps
<1>6. CASE UNCHANGED Nw!nwVars
    BY <1>6 DEF Nw!nwVars, NwTypeOK, SlotsProposed, VotersPast, RoundsVoted, VotesOpen,
        EmptyLast, ArrivedInOrder, FewNwCrashed
<1> QED
    BY <1>1, <1>2, <1>3, <1>4, <1>5, <1>6 DEF Nw!NwNext, Nw!NwProgress

\* The voters of the last round but one are past it.
LEMMA NwInvHeld == NwInv => Nw!NwOutputHeld
<1> SUFFICES ASSUME NwInv, NEW p \in Nodes
             PROVE  {q \in Nodes : nwSlot[q] >= nwSlot[p] - 1} \in Quorum
    BY NwNumbers DEF Nw!NwOutputHeld
<1> USE DEF NwInv
<1>1. nwProposed \in 1 .. NwMaxTx + 2 /\ NwMaxTx \in Nat /\ \A q \in Nodes : nwSlot[q] \in Nat \ {0}
    BY NwNumbers DEF NwTypeOK
<1>2. nwSlot[p] - 1 <= nwProposed
    BY <1>1 DEF SlotsProposed
<1>3. CASE nwProposed = 1
    <2>1. {q \in Nodes : nwSlot[q] >= nwSlot[p] - 1} = Nodes
        BY <1>1, <1>2, <1>3
    <2> QED
        BY <2>1, FaultNumbers
<1>4. CASE nwProposed > 1
    <2>1. PICK r \in Nw!NwRounds : r = nwProposed - 1
        BY <1>1, <1>4, NwNumbers
    <2>2. nwVoters[r] \in Quorum
        BY <1>1, <2>1 DEF RoundsVoted
    <2>3. \A q \in nwVoters[r] : q \in Nodes /\ nwSlot[q] >= nwSlot[p] - 1
        BY <1>1, <1>2, <2>1 DEF VotersPast, NwTypeOK
    <2> QED
        BY <2>2, <2>3, QuorumSuperset
<1> QED
    BY <1>1, <1>3, <1>4

\* The round of 0 is the last that is proposed: it has no voters.
LEMMA ProposedBounded ==
    ASSUME NwInv
    PROVE  nwProposed <= nwSupply + 1
<1> USE DEF NwInv
<1>1. nwProposed \in 1 .. NwMaxTx + 2 /\ NwMaxTx \in Nat /\ nwSupply \in 1 .. NwMaxTx
    BY NwNumbers DEF NwTypeOK, EmptyLast
<1> SUFFICES ASSUME nwSupply + 1 < nwProposed
             PROVE  FALSE
    BY <1>1
<1>2. nwSupply + 1 \in Nw!NwRounds
    BY <1>1, NwNumbers
<1>3. nwVoters[nwSupply + 1] \in Quorum
    BY <1>2 DEF RoundsVoted
<1>4. PICK q \in Nodes : q \in nwVoters[nwSupply + 1]
    BY <1>3, ThreeQuorumsMeet
<1>5. nwSupply + 1 < nwSlot[q] /\ nwSlot[q] \in Nat /\ nwSlot[q] <= nwSupply + 1
    BY <1>2, <1>4 DEF VotersPast, NwTypeOK, EmptyLast
<1> QED
    BY <1>1, <1>5

\* On a FIFO link a node that handles messages has, in the end, all PROPOSALs,
\* and so has one that stopped handling them.
LEMMA AllArrived ==
    ASSUME NwInv, ~ NwPriority, Nw!NwSettled, Nw!NwLive(nwLeader),
           NEW p \in Nodes, Nw!NwLive(p)
    PROVE  \/ nwProposed = nwSupply + 1 /\ p \in nwStopped /\ nwSlot[p] = nwSupply + 1
           \/ nwProposed <= nwSupply /\ Nw!Hears(p) /\ nwSlot[p] = nwProposed + 1
<1> USE DEF NwInv
<1>1. /\ nwProposed \in 1 .. NwMaxTx + 2 /\ NwMaxTx \in Nat /\ nwSupply \in 1 .. NwMaxTx
      /\ nwSlot[p] \in Nat \ {0} /\ nwSlot[p] <= nwProposed + 1 /\ nwSlot[p] <= nwSupply + 1
      /\ nwGot[p] \subseteq 1 .. nwProposed
    BY NwNumbers DEF NwTypeOK, SlotsProposed, EmptyLast
<1>2. PICK k \in Nat : nwGot[p] = 1 .. k
    BY DEF ArrivedInOrder
<1>3. nwProposed <= nwSupply + 1
    BY ProposedBounded
<1>4. ~ Nw!Hears(p) => nwSupply + 1 \in nwGot[p]
    BY DEF Nw!Hears, EmptyLast
<1>5. k = nwProposed
    <2>1. k <= nwProposed
        <3>1. k = 0 \/ k \in nwGot[p]
            BY <1>2
        <3> QED
            BY <1>1, <1>2, <3>1
    <2>2. CASE Nw!Hears(p)
        <3> SUFFICES ASSUME k < nwProposed PROVE FALSE
            BY <1>1, <2>1
        <3>1. k + 1 \in 1 .. nwProposed /\ k + 1 \notin nwGot[p] /\ 1 .. (k + 1) - 1 \subseteq nwGot[p]
            BY <1>1, <1>2
        <3>2. k + 1 \in Nw!NwRounds
            BY <1>1, <1>3, NwNumbers
        <3> QED
            BY <2>2, <3>1, <3>2 DEF Nw!NwSettled, Nw!ProposalArrives
    <2>3. CASE ~ Nw!Hears(p)
        BY <1>1, <1>2, <1>3, <1>4, <2>1, <2>3
    <2> QED
        BY <2>2, <2>3
<1>6. p \in nwStopped \/ nwSlot[p] = nwProposed + 1
    BY <1>1, <1>2, <1>5 DEF Nw!NwSettled, Nw!RoundArrived
<1>7. CASE nwProposed = nwSupply + 1
    BY <1>1, <1>6, <1>7 DEF EmptyLast
<1>8. CASE nwProposed <= nwSupply
    <2>1. nwSupply + 1 \notin nwGot[p]
        BY <1>1, <1>8
    <2> QED
        BY <1>4, <1>6, <1>8, <2>1 DEF EmptyLast
<1> QED
    BY <1>1, <1>3, <1>7, <1>8

\* If not all rounds were proposed, all live nodes have voted, and they are
\* enough for the next.
LEMMA NwInvDelivers ==
    ASSUME ~ NwPriority
    PROVE  NwInv => (Nw!NwSettled /\ Nw!NwLive(nwLeader) =>
               \A p \in Nodes : Nw!NwLive(p) => p \in nwStopped /\ nwSlot[p] = nwSupply + 1)
<1> SUFFICES ASSUME NwInv, Nw!NwSettled, Nw!NwLive(nwLeader), NEW p \in Nodes, Nw!NwLive(p),
                    ~ (p \in nwStopped /\ nwSlot[p] = nwSupply + 1)
             PROVE  FALSE
    OBVIOUS
<1>1. /\ nwProposed \in 1 .. NwMaxTx + 2 /\ NwMaxTx \in Nat /\ nwSupply \in 1 .. NwMaxTx
      /\ nwLeader \in Nodes
    BY NwNumbers DEF NwInv, NwTypeOK, EmptyLast
<1>2. nwProposed <= nwSupply
    BY AllArrived
<1>3. \A q \in Nodes : Nw!NwLive(q) => Nw!Hears(q) /\ nwSlot[q] = nwProposed + 1
    <2> SUFFICES ASSUME NEW q \in Nodes, Nw!NwLive(q)
                 PROVE  Nw!Hears(q) /\ nwSlot[q] = nwProposed + 1
        OBVIOUS
    <2>1. nwProposed # nwSupply + 1
        BY <1>1, <1>2
    <2> QED
        BY <2>1, AllArrived
<1>4. nwProposed \in Nw!NwRounds /\ nwProposed < nwProposed + 1 /\ nwProposed >= nwProposed
    BY <1>1, <1>2, NwNumbers
<1>5. Cardinality(nwVoters[nwProposed]) < N - F
    BY <1>4 DEF NwInv, VotesOpen
<1>6. \A q \in Nodes : Nw!NwLive(q) => q \in nwVoters[nwProposed]
    BY <1>1, <1>3, <1>4, <1>5, NwNumbers DEF Nw!NwSettled, Nw!VoteArrives, Nw!VotesNeeded
<1>7. nwVoters[nwProposed] \in SUBSET Nodes
    BY <1>4 DEF NwInv, NwTypeOK
<1>8. Nodes \ nwCrashed \in Quorum
    BY LiveNodes DEF NwInv, FewNwCrashed
<1>9. nwVoters[nwProposed] \in Quorum
    BY <1>6, <1>7, <1>8, QuorumSuperset DEF Nw!NwLive
<1>10. Cardinality(nwVoters[nwProposed]) \in Nat /\ Cardinality(nwVoters[nwProposed]) >= N - F
    BY <1>7, <1>9, NodeSets DEF Quorum
<1> QED
    BY <1>5, <1>10, FaultNumbers
-----------------------------------------------------------------------------
(***************************************************************************)
(* DumboNg.  The source's broadcast grows on the votes of N - f nodes that *)
(* output the round before; outputs are not taken back, so they hold it    *)
(* when an epoch is cut there.  Cuts are made once and in order.           *)
(***************************************************************************)
Views == [Nodes -> 0 .. NgMaxRound]

NgTypeOK ==
    /\ ngSource \in Nodes
    /\ ngGrown \in Views
    /\ ngOut \in [Nodes -> Nat]
    /\ ngEpoch \in [Nodes -> Nat]
    /\ ngCuts \in [Ng!NgEpochs -> Views \cup {None}]

\* Who holds round s of the source's broadcast.
Holders(s) == {p \in Nodes : ngOut[p] >= s}

GrownHeld == Holders(ngGrown[ngSource] - 1) \in Quorum

OutBehind == \A p \in Nodes : ngOut[p] <= ngGrown[ngSource]

CutsBehind ==
    \A e \in Ng!NgEpochs : ngCuts[e] # None => ngCuts[e][ngSource] <= ngGrown[ngSource]

\* An epoch is cut after the one before.
CutsInOrder ==
    /\ \A p \in Nodes : ngEpoch[p] \in Ng!NgEpochs => ngCuts[ngEpoch[p]] # None
    /\ \A e \in Ng!NgEpochs \ {0} : ngCuts[e] # None => ngCuts[e - 1] # None

CutsAdvance ==
    \A e \in Ng!NgEpochs \ {0} : ngCuts[e] # None =>
        Cardinality({i \in Nodes : ngCuts[e][i] > ngCuts[e - 1][i]}) >= N - F

NgInv ==
    /\ NgTypeOK
    /\ GrownHeld
    /\ OutBehind
    /\ CutsBehind
    /\ CutsInOrder
    /\ CutsAdvance

\* Quorums are the same sets in DumboNg and here.
LEMMA NgNumbers ==
    /\ Ng!N = N
    /\ Ng!Quorum = Quorum
    /\ \A S : Ng!Cardinality(S) = Cardinality(S)
<1>1. \A S : Ng!Cardinality(S) = Cardinality(S)
    BY DEF Ng!Cardinality, Cardinality
<1>2. Ng!N = N
    BY <1>1 DEF Ng!N, N
<1> QED
    BY <1>1, <1>2 DEF Ng!Quorum, Quorum

\* What N - f nodes hold, N - f nodes hold later on.
LEMMA HoldersStay ==
    ASSUME NgTypeOK, NgTypeOK', NEW s \in Int, NEW t \in Int, t <= s,
           Holders(s) \in Quorum, \A p \in Nodes : ngOut'[p] >= ngOut[p]
    PROVE  Holders(t)' \in Quorum
<1> DEFINE A == Holders(s)
           B == Holders(t)'
<1>1. A \subseteq B
    BY DEF Holders, NgTypeOK
<1>2. B \in SUBSET Nodes
    BY DEF Holders
<1> HIDE DEF A, B
<1> QED
    BY <1>1, <1>2, QuorumSuperset DEF A, B

\* Epochs are numbers without gaps.
LEMMA NgEpochNumbers ==
    /\ \A e \in Ng!NgEpochs : e \in Nat
    /\ \A e \in Nat : e + 1 \in Ng!NgEpochs => e \in Ng!NgEpochs
<1> DEFINE last == (NgMaxRound * N) \div (N - F)
<1>1. N - F \in Nat \ {0} /\ NgMaxRound \in Nat /\ N \in Nat
    BY FaultNumbers, DisseminationAssumption
<1>2. NgMaxRound * N \in Nat
    BY <1>1
<1>3. last \in Int
    BY <1>1, <1>2
<1>4. Ng!NgEpochs = 0 .. last
    BY NgNumbers DEF Ng!NgEpochs
<1> HIDE DEF last
<1> QED
    BY <1>3, <1>4

\* No broadcast has grown and nothing is cut at the start.
LEMMA NgInitInv == Ng!NgInit => NgInv
<1> SUFFICES ASSUME Ng!NgInit
             PROVE  NgInv
    OBVIOUS
<1> USE DEF Ng!NgInit
<1>1. 0 \in 0 .. NgMaxRound
    BY DisseminationAssumption
<1>2. [i \in Nodes |-> 0] \in Views
    BY <1>1 DEF Views
<1>3. NgTypeOK
    BY <1>2 DEF NgTypeOK
<1>4. GrownHeld
    <2>1. Holders(ngGrown[ngSource] - 1) = Nodes
        BY DEF Holders
    <2> QED
        BY <2>1, FaultNumbers DEF GrownHeld
<1>5. OutBehind /\ CutsBehind
    BY DEF OutBehind, CutsBehind
<1>6. \A e \in Ng!NgEpochs : ngCuts[e] # None <=> e = 0
    BY <1>2, DisseminationAssumption DEF Views
<1>7. CutsInOrder /\ CutsAdvance
    BY <1>6 DEF CutsInOrder, CutsAdvance
<1> QED
    BY <1>3, <1>4, <1>5, <1>7 DEF NgInv

\* The source's broadcast grows by a round only when N - f nodes hold the last one.
LEMMA GrowKeeps ==
    ASSUME NgInv, NEW i \in Nodes, Ng!Grow(i)
    PROVE  NgInv'
<1> USE DEF NgInv
<1>1. /\ ngGrown[i] < NgMaxRound
      /\ i = ngSource => Holders(ngGrown[i]) \in Quorum
      /\ ngGrown' = [ngGrown EXCEPT ![i] = @ + 1]
      /\ UNCHANGED <<ngSource, ngOut, ngEpoch, ngCuts>>
    BY NgNumbers DEF Ng!Grow, Ng!GrowDue, Holders
<1>2. \A j \in Nodes : ngGrown[j] \in 0 .. NgMaxRound
    BY DEF NgTypeOK, Views
<1>3. ngGrown[i] + 1 \in 0 .. NgMaxRound /\ NgMaxRound \in Nat
    BY <1>1, <1>2, DisseminationAssumption
<1>4. NgTypeOK'
    BY <1>1, <1>3 DEF NgTypeOK, Views, Ng!NgEpochs
<1>5. /\ ngSource \in Nodes /\ ngGrown[ngSource] \in Int
      /\ ngGrown'[ngSource] = IF i = ngSource THEN ngGrown[i] + 1 ELSE ngGrown[ngSource]
    BY <1>1, <1>2 DEF NgTypeOK, Views
<1>6. GrownHeld'
    <2>1. CASE i = ngSource
        <3>1. ngGrown'[ngSource] - 1 = ngGrown[i]
            BY <1>5, <2>1
        <3> QED
            BY <1>1, <2>1, <3>1 DEF GrownHeld, Holders
    <2>2. CASE i # ngSource
        BY <1>1, <1>5, <2>2 DEF GrownHeld, Holders
    <2> QED
        BY <2>1, <2>2
<1>7. OutBehind'
    BY <1>1, <1>5 DEF OutBehind, NgTypeOK
<1>8. CutsBehind'
    <2> SUFFICES ASSUME NEW e \in Ng!NgEpochs, ngCuts[e] # None
                 PROVE  ngCuts[e][ngSource] <= ngGrown'[ngSource]
        BY <1>1 DEF CutsBehind
    <2>1. ngCuts[e] \in Views
        BY DEF NgTypeOK
    <2>2. ngCuts[e][ngSource] \in Int
        BY <1>5, <2>1, DisseminationAssumption DEF Views
    <2> QED
        BY <1>5, <2>2 DEF CutsBehind
<1>9. CutsInOrder' /\ CutsAdvance'
    BY <1>1 DEF CutsInOrder, CutsAdvance
<1> QED
    BY <1>4, <1>6, <1>7, <1>8, <1>9

\* What a node has output of the source never passes what the source has sent.
LEMMA OutputKeeps ==
    ASSUME NgInv, NEW p \in Nodes, Ng!Output(p)
    PROVE  NgInv'
<1> USE DEF NgInv
<1>1. /\ ngOut[p] < ngGrown[ngSource]
      /\ ngOut' = [ngOut EXCEPT ![p] = @ + 1]
      /\ UNCHANGED <<ngSource, ngGrown, ngEpoch, ngCuts>>
    BY DEF Ng!Output, Ng!OutputDue
<1>2. NgTypeOK'
    BY <1>1 DEF NgTypeOK
<1>3. ngGrown[ngSource] \in Int /\ ngGrown[ngSource] - 1 \in Int
    <2>1. ngGrown[ngSource] \in 0 .. NgMaxRound
        BY DEF NgTypeOK, Views
    <2> QED
        BY <2>1, DisseminationAssumption
<1>4. GrownHeld'
    <2>1. \A q \in Nodes : ngOut'[q] >= ngOut[q]
        BY <1>1 DEF NgTypeOK
    <2>2. PICK s \in Int : s = ngGrown[ngSource] - 1
        BY <1>3
    <2>3. Holders(s) \in Quorum
        BY <2>2 DEF GrownHeld
    <2>4. Holders(s)' \in Quorum
        BY <1>2, <2>1, <2>3, HoldersStay DEF Holders
    <2> QED
        BY <1>1, <2>2, <2>4 DEF GrownHeld, Holders
<1>5. OutBehind'
    BY <1>1, <1>3 DEF OutBehind, NgTypeOK
<1>6. CutsBehind' /\ CutsInOrder' /\ CutsAdvance'
    BY <1>1 DEF CutsBehind, CutsInOrder, CutsAdvance
<1> QED
    BY <1>2, <1>4, <1>5, <1>6

\* A cut is of views that nodes reached, none ahead of its broadcast.
LEMMA CutKeeps ==
    ASSUME NgInv, NEW p \in Nodes, Ng!Cut(p)
    PROVE  NgInv'
<1> USE DEF NgInv
<1> DEFINE prev == ngEpoch[p]
           next == ngEpoch[p] + 1
<1>1. /\ next \in Ng!NgEpochs /\ ngCuts[next] = None
      /\ UNCHANGED <<ngSource, ngGrown, ngOut, ngEpoch>>
    BY DEF Ng!Cut, Ng!CutDue, Ng!NextCut
<1>2. PICK view \in Views :
          /\ \A i \in Nodes : view[i] \in ngCuts[prev][i] .. Ng!CurView(p)[i]
          /\ Cardinality({i \in Nodes : view[i] > ngCuts[prev][i]}) >= N - F
          /\ ngCuts' = [ngCuts EXCEPT ![next] = view]
    BY NgNumbers DEF Ng!Cut, Ng!CutDue, Ng!NextCut, Ng!Reached, Ng!PrevView, Ng!Advances, Views
<1>3. /\ prev \in Nat /\ prev \in Ng!NgEpochs /\ next # prev /\ next - 1 = prev /\ next # 0
      /\ \A e \in Ng!NgEpochs : e \in Nat
      /\ \A e \in Ng!NgEpochs \ {0} : e - 1 \in Ng!NgEpochs /\ e - 1 # e
    <2>1. prev \in Nat
        BY DEF NgTypeOK
    <2>2. prev \in Ng!NgEpochs
        BY <1>1, <2>1, NgEpochNumbers
    <2>3. ASSUME NEW e \in Ng!NgEpochs \ {0}
          PROVE  e - 1 \in Ng!NgEpochs /\ e - 1 # e
        <3>1. e \in Nat /\ e - 1 \in Nat /\ (e - 1) + 1 = e
            BY <2>3, NgEpochNumbers
        <3>2. e - 1 \in Ng!NgEpochs
            BY <3>1, NgEpochNumbers
        <3> QED
            BY <3>1, <3>2
    <2> QED
        BY <2>1, <2>2, <2>3, NgEpochNumbers
<1>4. view # None /\ view[ngSource] <= ngGrown[ngSource]
    <2>1. view[ngSource] \in ngCuts[prev][ngSource] .. ngOut[p] /\ view[ngSource] \in 0 .. NgMaxRound
        BY <1>2 DEF NgTypeOK, Ng!CurView, Views
    <2>2. ngOut[p] <= ngGrown[ngSource] /\ ngOut[p] \in Int /\ ngGrown[ngSource] \in 0 .. NgMaxRound
        BY DEF OutBehind, NgTypeOK, Views
    <2>3. view # None
        BY <1>2, DisseminationAssumption DEF Views
    <2> QED
        BY <2>1, <2>2, <2>3, DisseminationAssumption
<1>5. /\ ngCuts' \in [Ng!NgEpochs -> Views \cup {None}]
      /\ \A e \in Ng!NgEpochs : ngCuts'[e] = IF e = next THEN view ELSE ngCuts[e]
    BY <1>1, <1>2 DEF NgTypeOK
<1> HIDE DEF prev, next
<1>6. NgTypeOK' /\ GrownHeld' /\ OutBehind'
    BY <1>1, <1>5 DEF NgTypeOK, GrownHeld, Holders, OutBehind
<1>7. CutsBehind'
    BY <1>1, <1>4, <1>5 DEF CutsBehind
<1>8. CutsInOrder'
    <2>1. \A q \in Nodes : ngEpoch[q] \in Ng!NgEpochs => ngCuts'[ngEpoch[q]] # None
        BY <1>4, <1>5 DEF CutsInOrder
    <2>2. ASSUME NEW e \in Ng!NgEpochs \ {0}, ngCuts'[e] # None
          PROVE  ngCuts'[e - 1] # None
        <3>1. e - 1 \in Ng!NgEpochs
            BY <1>3
        <3>2. CASE e = next
            <4>1. ngCuts[prev] # None
                BY <1>3 DEF CutsInOrder, prev
            <4> QED
                BY <1>3, <1>5, <3>1, <3>2, <4>1
        <3>3. CASE e # next
            BY <1>4, <1>5, <2>2, <3>1, <3>3 DEF CutsInOrder
        <3> QED
            BY <3>2, <3>3
    <2> QED
        BY <1>1, <2>1, <2>2 DEF CutsInOrder
<1>9. CutsAdvance'
    <2> SUFFICES ASSUME NEW e \in Ng!NgEpochs \ {0}, ngCuts'[e] # None
                 PROVE  Cardinality({i \in Nodes : ngCuts'[e][i] > ngCuts'[e - 1][i]}) >= N - F
        BY <1>1 DEF CutsAdvance
    <2>1. e - 1 \in Ng!NgEpochs
        BY <1>3
    <2>2. CASE e = next
        <3>1. ngCuts'[e] = view /\ ngCuts'[e - 1] = ngCuts[prev]
            BY <1>3, <1>5, <2>1, <2>2
        <3> QED
            BY <1>2, <3>1
    <2>3. CASE e # next
        <3>1. ngCuts'[e] = ngCuts[e]
            BY <1>5, <2>3
        <3>2. e - 1 # next
            BY <1>1, <2>3, <2>1, <3>1 DEF CutsInOrder
        <3>3. ngCuts'[e - 1] = ngCuts[e - 1]
            BY <1>5, <2>1, <3>2
        <3> QED
            BY <3>1, <3>3 DEF CutsAdvance
    <2> QED
        BY <2>2, <2>3
<1> QED
    BY <1>6, <1>7, <1>8, <1>9

\* A node goes to an epoch that was cut.
LEMMA NextEpochKeeps ==
    ASSUME NgInv, NEW p \in Nodes, Ng!NextEpoch(p)
    PROVE  NgInv'
<1> USE DEF NgInv
<1>1. /\ ngEpoch[p] + 1 \in Ng!NgEpochs /\ ngCuts[ngEpoch[p] + 1] # None
      /\ ngEpoch' = [ngEpoch EXCEPT ![p] = ngEpoch[p] + 1]
      /\ UNCHANGED <<ngSource, ngGrown, ngOut, ngCuts>>
    BY DEF Ng!NextEpoch, Ng!EpochDue, Ng!NextCut
<1>2. NgTypeOK' /\ GrownHeld' /\ OutBehind' /\ CutsBehind' /\ CutsAdvance'
    BY <1>1 DEF NgTypeOK, GrownHeld, Holders, OutBehind, CutsBehind, CutsAdvance
<1>3. CutsInOrder'
    BY <1>1 DEF CutsInOrder, NgTypeOK
<1> QED
    BY <1>2, <1>3

\* Every step of Dumbo-NG's epochs keeps the invariant.
LEMMA NgStepInv == NgInv /\ [Ng!NgNext]_Ng!ngVars => NgInv'
<1> SUFFICES ASSUME NgInv, [Ng!NgNext]_Ng!ngVars
             PROVE  NgInv'
    OBVIOUS
<1>1. CASE UNCHANGED <<ngSource, ngGrown, ngOut, ngEpoch, ngCuts>>
    BY <1>1 DEF NgInv, NgTypeOK, GrownHeld, Holders, OutBehind, CutsBehind, CutsInOrder,
                CutsAdvance
<1>2. CASE Ng!NgProgress
    <2> PICK p \in Nodes : \/ Ng!Grow(p) \/ Ng!Output(p) \/ Ng!StartVaba(p)
                           \/ Ng!Cut(p) \/ Ng!NextEpoch(p)
        BY <1>2 DEF Ng!NgProgress
    <2> QED
        BY <1>1, GrowKeeps, OutputKeeps, CutKeeps, NextEpochKeeps DEF Ng!StartVaba
<1> QED
    BY <1>1, <1>2 DEF Ng!NgNext, Ng!ngVars, Ng!SourceDies

\* The cut is not past what N - f nodes are known to hold.
LEMMA NgInvHeld == NgInv => Ng!CutHeld
<1> SUFFICES ASSUME NgInv, NEW e \in Ng!NgEpochs \ {0}, ngCuts[e] # None
             PROVE  /\ Holders(ngCuts[e][ngSource] - 1) \in Quorum
                    /\ Cardinality({i \in Nodes : ngCuts[e][i] > ngCuts[e - 1][i]}) >= N - F
    BY NgNumbers DEF Ng!CutHeld, Holders
<1> USE DEF NgInv
<1>1. ngCuts[e][ngSource] <= ngGrown[ngSource]
    BY DEF CutsBehind
<1>2. ngCuts[e][ngSource] \in 0 .. NgMaxRound /\ ngGrown[ngSource] \in 0 .. NgMaxRound
    BY DEF NgTypeOK, Views
<1>3. ngCuts[e][ngSource] \in Int /\ ngGrown[ngSource] \in Int
    BY <1>2, DisseminationAssumption
<1> DEFINE A == Holders(ngGrown[ngSource] - 1)
           B == Holders(ngCuts[e][ngSource] - 1)
<1>4. A \subseteq B /\ B \in SUBSET Nodes
    BY <1>1, <1>3 DEF Holders, NgTypeOK
<1>5. A \in Quorum
    BY DEF GrownHeld
<1> HIDE DEF A, B
<1>6. B \in Quorum
    BY <1>4, <1>5, QuorumSuperset
<1> QED
    BY <1>6 DEF B, CutsAdvance
-----------------------------------------------------------------------------
(***************************************************************************)
(* What the waits of DumboNg rest on: cuts never go back and never pass    *)
(* what is broadcast, and each takes N - f more rounds, so that there is   *)
(* room for the next epoch while N - f broadcasts go on.                   *)
(***************************************************************************)
EpochsCut == \A p \in Nodes : ngEpoch[p] \in Ng!NgEpochs

CutsBroadcast ==
    \A e \in Ng!NgEpochs : ngCuts[e] # None => \A i \in Nodes : ngCuts[e][i] <= ngGrown[i]

CutsGrow ==
    \A e \in Ng!NgEpochs \ {0} : ngCuts[e] # None =>
        \A i \in Nodes : ngCuts[e - 1][i] <= ngCuts[e][i]

NgWaitInv == ngRunning \in SUBSET Nodes /\ EpochsCut /\ CutsBroadcast /\ CutsGrow

\* The rounds a view takes in, of all broadcasts.
Rounds(view) == {x \in Nodes \X (1 .. NgMaxRound) : x[2] <= view[x[1]]}

\* The epochs start with 0 and end with the last there is room for.
LEMMA NgEpochRange ==
    /\ NgMaxRound \in Nat /\ N - F \in Nat \ {0} /\ NgMaxRound * N \in Nat
    /\ (NgMaxRound * N) \div (N - F) \in Nat
    /\ Ng!NgEpochs = 0 .. (NgMaxRound * N) \div (N - F)
<1>1. N - F \in Nat \ {0} /\ NgMaxRound \in Nat /\ N \in Nat
    BY FaultNumbers, DisseminationAssumption
<1>2. NgMaxRound * N \in Nat
    BY <1>1
<1>3. (NgMaxRound * N) \div (N - F) \in Nat
    <2>1. ASSUME NEW c \in Nat, NEW k \in Nat \ {0}
          PROVE  c \div k \in Nat
        BY <2>1
    <2> QED
        BY <1>1, <1>2, <2>1
<1> QED
    BY <1>1, <1>2, <1>3, NgNumbers DEF Ng!NgEpochs

\* A number whose multiple fits in another is at most their quotient.
LEMMA FitsInQuotient ==
    ASSUME NEW a \in Nat, NEW c \in Nat, NEW k \in Nat \ {0}, a * k <= c
    PROVE  a <= c \div k
<1>1. PICK q \in Nat : q = c \div k /\ c < q * k + k
    OBVIOUS
<1> SUFFICES ASSUME a > q
             PROVE  FALSE
    BY <1>1
<1>2. a * k = q * k + (a - q) * k
    OBVIOUS
<1>3. (a - q) * k >= k
    OBVIOUS
<1>4. a * k \in Int /\ q * k \in Int /\ (a - q) * k \in Int
    OBVIOUS
<1> QED
    BY <1>1, <1>2, <1>3, <1>4

\* Nothing is cut or run.
LEMMA NgWaitInit == Ng!NgInit => NgWaitInv
<1> SUFFICES ASSUME Ng!NgInit
             PROVE  NgWaitInv
    OBVIOUS
<1> USE DEF Ng!NgInit
<1>1. 0 \in Ng!NgEpochs
    BY NgEpochRange
<1>2. \A e \in Ng!NgEpochs \ {0} : ngCuts[e] = None
    OBVIOUS
<1> QED
    BY <1>1, <1>2 DEF NgWaitInv, EpochsCut, CutsBroadcast, CutsGrow

\* The broadcasts grow under the cuts.
LEMMA GrowWaits ==
    ASSUME NgInv, NgWaitInv, NEW i \in Nodes, Ng!Grow(i)
    PROVE  NgWaitInv'
<1> USE DEF NgWaitInv
<1>1. /\ ngGrown' = [ngGrown EXCEPT ![i] = @ + 1]
      /\ UNCHANGED <<ngEpoch, ngRunning, ngCuts>>
    BY DEF Ng!Grow
<1>2. \A j \in Nodes : ngGrown[j] \in Int /\ ngGrown'[j] >= ngGrown[j] /\ ngGrown'[j] \in Int
    <2>1. \A j \in Nodes : ngGrown[j] \in Int
        BY DisseminationAssumption DEF NgInv, NgTypeOK, Views
    <2> QED
        BY <1>1, <2>1 DEF NgInv, NgTypeOK, Views
<1>3. \A e \in Ng!NgEpochs : ngCuts[e] # None => \A j \in Nodes : ngCuts[e][j] \in Int
    BY DisseminationAssumption DEF NgInv, NgTypeOK, Views
<1>4. CutsBroadcast'
    <2> SUFFICES ASSUME NEW e \in Ng!NgEpochs, ngCuts[e] # None, NEW j \in Nodes
                 PROVE  ngCuts[e][j] <= ngGrown'[j]
        BY <1>1 DEF CutsBroadcast
    <2> QED
        BY <1>2, <1>3 DEF CutsBroadcast
<1> QED
    BY <1>1, <1>4 DEF EpochsCut, CutsGrow

\* A cut is between the one before and what is broadcast.
LEMMA CutWaits ==
    ASSUME NgInv, NgWaitInv, NEW p \in Nodes, Ng!Cut(p)
    PROVE  NgWaitInv'
<1> USE DEF NgInv, NgWaitInv
<1>1. PICK prev, next : prev = ngEpoch[p] /\ next = prev + 1
    OBVIOUS
<1>2. /\ next \in Ng!NgEpochs /\ ngCuts[next] = None
      /\ UNCHANGED <<ngGrown, ngEpoch, ngRunning>>
    BY <1>1 DEF Ng!Cut, Ng!CutDue, Ng!NextCut
<1>3. PICK view \in Views :
          /\ \A i \in Nodes : view[i] \in ngCuts[prev][i] .. Ng!CurView(p)[i]
          /\ ngCuts' = [ngCuts EXCEPT ![next] = view]
    BY <1>1 DEF Ng!Cut, Ng!CutDue, Ng!NextCut, Ng!Reached, Ng!PrevView, Views
<1>4. prev \in Nat /\ prev \in Ng!NgEpochs /\ next - 1 = prev
    BY <1>1, NgEpochRange DEF EpochsCut
<1>5. ngCuts[prev] # None
    BY <1>1, <1>4 DEF CutsInOrder
<1>6. \A i \in Nodes : ngCuts[prev][i] \in Int /\ ngGrown[i] \in Int
    BY <1>4, <1>5, DisseminationAssumption DEF NgTypeOK, Views
<1>7. \A i \in Nodes : Ng!CurView(p)[i] \in Int /\ Ng!CurView(p)[i] <= ngGrown[i]
    BY <1>6 DEF Ng!CurView, OutBehind, NgTypeOK
<1>8. \A i \in Nodes : /\ view[i] \in Int /\ ngCuts[prev][i] <= view[i]
                       /\ view[i] <= ngGrown[i]
    <2> TAKE i \in Nodes
    <2>1. PICK a \in Int, b \in Int, g \in Int :
              a = ngCuts[prev][i] /\ b = Ng!CurView(p)[i] /\ g = ngGrown[i] /\ b <= g
        BY <1>6, <1>7
    <2>2. view[i] \in a .. b
        BY <1>3, <2>1
    <2> QED
        BY <2>1, <2>2
<1>9. \A e \in Ng!NgEpochs : ngCuts'[e] = IF e = next THEN view ELSE ngCuts[e]
    BY <1>2, <1>3 DEF NgTypeOK
<1>10. CutsBroadcast'
    BY <1>2, <1>8, <1>9 DEF CutsBroadcast
<1>11. CutsGrow'
    <2> SUFFICES ASSUME NEW e \in Ng!NgEpochs \ {0}, ngCuts'[e] # None, NEW i \in Nodes
                 PROVE  ngCuts'[e - 1][i] <= ngCuts'[e][i]
        BY DEF CutsGrow
    <2>1. e \in Nat /\ e - 1 \in Ng!NgEpochs
        BY NgEpochRange
    <2>2. CASE e = next
        <3>1. ngCuts'[e - 1] = ngCuts[prev] /\ ngCuts'[e] = view
            BY <1>4, <1>9, <2>1, <2>2
        <3> QED
            BY <1>8, <3>1
    <2>3. CASE e # next
        <3>1. ngCuts'[e] = ngCuts[e]
            BY <1>9, <2>3
        <3>2. e - 1 # next
            BY <1>2, <2>1, <2>3, <3>1 DEF CutsInOrder
        <3>3. ngCuts'[e - 1] = ngCuts[e - 1]
            BY <1>9, <2>1, <3>2
        <3> QED
            BY <3>1, <3>3 DEF CutsGrow
    <2> QED
        BY <2>2, <2>3
<1> QED
    BY <1>2, <1>10, <1>11 DEF EpochsCut

\* The invariant is inductive with the other.
LEMMA NgWaitStep == NgInv /\ NgWaitInv /\ [Ng!NgNext]_Ng!ngVars => NgWaitInv'
<1> SUFFICES ASSUME NgInv, NgWaitInv, [Ng!NgNext]_Ng!ngVars
             PROVE  NgWaitInv'
    OBVIOUS
<1>1. ASSUME UNCHANGED <<ngGrown, ngEpoch, ngCuts>>, ngRunning' \in SUBSET Nodes
      PROVE  NgWaitInv'
    BY <1>1 DEF NgWaitInv, EpochsCut, CutsBroadcast, CutsGrow
<1>2. ngRunning \in SUBSET Nodes
    BY DEF NgWaitInv
<1>3. ASSUME NEW p \in Nodes, Ng!Output(p) \/ Ng!StartVaba(p)
      PROVE  NgWaitInv'
    BY <1>1, <1>2, <1>3 DEF Ng!Output, Ng!StartVaba
<1>4. ASSUME NEW p \in Nodes, Ng!NextEpoch(p)
      PROVE  NgWaitInv'
    <2>1. /\ ngEpoch[p] + 1 \in Ng!NgEpochs
          /\ ngEpoch' = [ngEpoch EXCEPT ![p] = ngEpoch[p] + 1]
          /\ ngRunning' = ngRunning \ {p}
          /\ UNCHANGED <<ngGrown, ngCuts>>
        BY <1>4 DEF Ng!NextEpoch, Ng!EpochDue, Ng!NextCut
    <2>2. EpochsCut'
        BY <2>1 DEF NgWaitInv, EpochsCut, NgInv, NgTypeOK
    <2> QED
        BY <1>2, <2>1, <2>2 DEF NgWaitInv, CutsBroadcast, CutsGrow
<1>5. CASE Ng!SourceDies \/ UNCHANGED Ng!ngVars
    BY <1>1, <1>2, <1>5 DEF Ng!SourceDies, Ng!ngVars
<1> QED
    BY <1>3, <1>4, <1>5, GrowWaits, CutWaits DEF Ng!NgNext, Ng!NgProgress
-----------------------------------------------------------------------------
\* There are no cuts after an epoch that is not cut.
LEMMA NoCutsAfter ==
    ASSUME NgInv, NEW d \in Ng!NgEpochs, NEW e \in Ng!NgEpochs, d <= e, ngCuts[e] # None
    PROVE  ngCuts[d] # None
<1> USE DEF NgInv
<1>1. PICK T : T = {x \in Ng!NgEpochs : d <= x /\ ngCuts[x] # None}
    OBVIOUS
<1>2. T \in SUBSET Nat /\ e \in T /\ d \in Nat
    BY <1>1, NgEpochRange
<1>3. PICK t \in T : \A x \in T : t <= x
    BY <1>2, LeastNumber
<1>4. t \in Nat /\ t \in Ng!NgEpochs /\ d <= t /\ ngCuts[t] # None
    BY <1>1, <1>2, <1>3
<1>5. t = d
    <2> SUFFICES ASSUME t # d
                 PROVE  FALSE
        OBVIOUS
    <2>1. t \in Ng!NgEpochs \ {0} /\ t - 1 \in Ng!NgEpochs /\ d <= t - 1 /\ t - 1 < t
        BY <1>2, <1>4, NgEpochRange
    <2>2. ngCuts[t - 1] # None
        BY <1>4, <2>1 DEF CutsInOrder
    <2> QED
        BY <1>1, <1>3, <1>4, <2>1, <2>2
<1> QED
    BY <1>4, <1>5

\* Of cuts made, a later one is nowhere behind an earlier one.
LEMMA CutsOrdered ==
    ASSUME NgInv, NgWaitInv, NEW d \in Ng!NgEpochs, NEW e \in Ng!NgEpochs, d <= e,
           ngCuts[e] # None, NEW i \in Nodes
    PROVE  ngCuts[d][i] <= ngCuts[e][i]
<1> USE DEF NgInv, NgWaitInv
<1>1. PICK S : S = {x \in Ng!NgEpochs :
                       d <= x /\ ngCuts[x] # None /\ ~ (ngCuts[d][i] <= ngCuts[x][i])}
    OBVIOUS
<1>2. S \in SUBSET Nat
    BY <1>1, NgEpochRange
<1> SUFFICES ASSUME S # {}
             PROVE  FALSE
    BY <1>1
<1>3. PICK m \in S : \A x \in S : m <= x
    BY <1>2, LeastNumber
<1>4. m \in Ng!NgEpochs /\ m \in Nat /\ d \in Nat /\ d <= m /\ ngCuts[m] # None
    BY <1>1, <1>2, NgEpochRange
<1>5. ngCuts[m][i] \in Int
    BY <1>4, DisseminationAssumption DEF NgTypeOK, Views
<1>6. m # d
    BY <1>1, <1>5
<1>7. m \in Ng!NgEpochs \ {0} /\ m - 1 \in Ng!NgEpochs /\ d <= m - 1 /\ m - 1 < m
    BY <1>4, <1>6, NgEpochRange
<1>8. ngCuts[m - 1] # None /\ ngCuts[m - 1][i] <= ngCuts[m][i]
    BY <1>4, <1>7 DEF CutsInOrder, CutsGrow
<1>9. m - 1 \notin S
    BY <1>3, <1>4, <1>7
<1>10. ngCuts[d][i] <= ngCuts[m - 1][i]
    BY <1>1, <1>7, <1>8, <1>9
<1>11. ngCuts[d] # None
    BY NoCutsAfter
<1>12. ngCuts[d][i] \in Int /\ ngCuts[m - 1][i] \in Int
    BY <1>7, <1>8, <1>11, DisseminationAssumption DEF NgTypeOK, Views
<1>13. ngCuts[d][i] <= ngCuts[m][i]
    BY <1>5, <1>8, <1>10, <1>12
<1> QED
    BY <1>1, <1>13

\* A view that goes on in N - f broadcasts takes in N - f rounds more.
LEMMA RoundsTaken ==
    ASSUME NEW u \in Views, NEW v \in Views, \A i \in Nodes : u[i] <= v[i],
           Cardinality({i \in Nodes : v[i] > u[i]}) >= N - F
    PROVE  /\ Cardinality(Rounds(u)) \in Nat /\ Cardinality(Rounds(v)) \in Nat
           /\ Cardinality(Rounds(v)) >= Cardinality(Rounds(u)) + (N - F)
           /\ Cardinality(Rounds(v)) <= NgMaxRound * N
<1>1. NgMaxRound \in Nat /\ \A i \in Nodes : u[i] \in 0 .. NgMaxRound /\ v[i] \in 0 .. NgMaxRound
    BY DisseminationAssumption DEF Views
<1>2. /\ IsFiniteSet(Nodes \X (1 .. NgMaxRound))
      /\ Cardinality(Nodes \X (1 .. NgMaxRound)) = NgMaxRound * N
    <2>1. IsFiniteSet(1 .. NgMaxRound) /\ Cardinality(1 .. NgMaxRound) = NgMaxRound
        BY <1>1, FS_Interval
    <2>2. /\ IsFiniteSet(Nodes \X (1 .. NgMaxRound))
          /\ Cardinality(Nodes \X (1 .. NgMaxRound)) = N * NgMaxRound
        BY <2>1, FaultAssumption, FS_Product DEF N
    <2>3. N * NgMaxRound = NgMaxRound * N
        BY <1>1, FaultNumbers
    <2> QED
        BY <2>2, <2>3
<1>3. PICK A, B, D : A = Rounds(u) /\ B = Rounds(v) /\ D = {i \in Nodes : v[i] > u[i]}
    OBVIOUS
<1>4. B \subseteq Nodes \X (1 .. NgMaxRound) /\ A \subseteq B
    <2>1. \A x \in Nodes \X (1 .. NgMaxRound) : x[2] <= u[x[1]] => x[2] <= v[x[1]]
        <3> TAKE x \in Nodes \X (1 .. NgMaxRound)
        <3>1. x[1] \in Nodes /\ x[2] \in Int
            BY <1>1
        <3>2. u[x[1]] \in Int /\ v[x[1]] \in Int /\ u[x[1]] <= v[x[1]]
            BY <1>1, <3>1
        <3> QED
            BY <3>1, <3>2
    <2> QED
        BY <1>3, <2>1 DEF Rounds
<1>5. /\ IsFiniteSet(A) /\ IsFiniteSet(B) /\ IsFiniteSet(B \ A)
      /\ Cardinality(B) <= NgMaxRound * N
    BY <1>2, <1>4, FS_Subset
<1>6. Cardinality(B \ A) >= Cardinality(D)
    <2>1. PICK f : f = [i \in D |-> <<i, v[i]>>]
        OBVIOUS
    <2>2. ASSUME NEW i \in D
          PROVE  f[i] \in B \ A
        <3>1. i \in Nodes /\ v[i] > u[i]
            BY <1>3, <2>2
        <3>2. v[i] \in 1 .. NgMaxRound /\ u[i] \in Int /\ v[i] \in Int
            BY <1>1, <3>1
        <3>3. <<i, v[i]>> \in B
            BY <1>3, <3>1, <3>2 DEF Rounds
        <3>4. <<i, v[i]>> \notin A
            BY <1>3, <3>1, <3>2 DEF Rounds
        <3> QED
            BY <2>1, <3>3, <3>4
    <2>3. f \in [D -> B \ A]
        BY <2>1, <2>2
    <2>4. \A i, j \in D : f[i] = f[j] => i = j
        BY <2>1
    <2>5. f \in Injection(D, B \ A)
        BY <2>3, <2>4 DEF Injection, IsInjective
    <2> QED
        BY <1>5, <2>5, FS_Injection
<1>7. Cardinality(B) = Cardinality(A) + Cardinality(B \ A)
    <2>1. A \cup (B \ A) = B /\ A \cap (B \ A) = {}
        BY <1>4
    <2>2. Cardinality(A \cap (B \ A)) = 0
        BY <2>1, FS_EmptySet
    <2>3. Cardinality(A) \in Nat /\ Cardinality(B \ A) \in Nat
        BY <1>5, FS_CardinalityType
    <2>4. Cardinality(A \cup (B \ A))
          = Cardinality(A) + Cardinality(B \ A) - Cardinality(A \cap (B \ A))
        BY <1>5, FS_Union
    <2>5. Cardinality(A \cup (B \ A)) = Cardinality(B)
        BY <2>1
    <2> QED
        BY <2>2, <2>3, <2>4, <2>5
<1>8. /\ Cardinality(A) \in Nat /\ Cardinality(B) \in Nat /\ Cardinality(B \ A) \in Nat
      /\ Cardinality(D) \in Nat
    <2>1. D \in SUBSET Nodes
        BY <1>3
    <2> QED
        BY <1>5, <2>1, NodeSets, FS_CardinalityType
<1>9. Cardinality(D) >= N - F
    BY <1>3
<1> QED
    BY <1>3, <1>5, <1>6, <1>7, <1>8, <1>9, FaultNumbers

\* The cut of epoch e takes in e times N - f rounds.
LEMMA CutsTakeRounds ==
    ASSUME NgInv, NgWaitInv, NEW k \in Nat \ {0}, k = N - F,
           NEW e \in Ng!NgEpochs, ngCuts[e] # None
    PROVE  Cardinality(Rounds(ngCuts[e])) \in Nat /\ e * k <= Cardinality(Rounds(ngCuts[e]))
<1> USE DEF NgInv, NgWaitInv
<1>0. ASSUME NEW v \in Views
      PROVE  Cardinality(Rounds(v)) \in Nat
    <2>1. IsFiniteSet(Nodes \X (1 .. NgMaxRound))
        <3>1. 1 \in Int /\ NgMaxRound \in Int
            BY DisseminationAssumption
        <3>2. IsFiniteSet(1 .. NgMaxRound)
            BY <3>1, FS_Interval
        <3> QED
            BY <3>2, FaultAssumption, FS_Product
    <2>2. Rounds(v) \subseteq Nodes \X (1 .. NgMaxRound)
        BY DEF Rounds
    <2> QED
        BY <2>1, <2>2, FS_Subset, FS_CardinalityType
<1>1. PICK S : S = {x \in Ng!NgEpochs :
                       ngCuts[x] # None /\ ~ (x * k <= Cardinality(Rounds(ngCuts[x])))}
    OBVIOUS
<1>2. S \in SUBSET Nat
    BY <1>1, NgEpochRange
<1>3. ngCuts[e] \in Views
    BY DEF NgTypeOK
<1> SUFFICES ASSUME S # {}
             PROVE  FALSE
    BY <1>0, <1>1, <1>3
<1>4. PICK m \in S : \A x \in S : m <= x
    BY <1>2, LeastNumber
<1>5. m \in Ng!NgEpochs /\ m \in Nat /\ ngCuts[m] # None /\ ngCuts[m] \in Views
    BY <1>1, <1>2 DEF NgTypeOK
<1>6. PICK c \in Nat : c = Cardinality(Rounds(ngCuts[m]))
    BY <1>0, <1>5
<1>7. ~ (m * k <= c)
    BY <1>1, <1>6
<1>8. m # 0
    BY <1>6, <1>7
<1>9. m \in Ng!NgEpochs \ {0} /\ m - 1 \in Ng!NgEpochs /\ m - 1 \in Nat /\ m - 1 < m
    BY <1>5, <1>8, NgEpochRange
<1>10. ngCuts[m - 1] # None
    BY <1>5, <1>9 DEF CutsInOrder
<1>11. ngCuts[m - 1] \in Views
    BY <1>9, <1>10 DEF NgTypeOK
<1>12. PICK b \in Nat : b = Cardinality(Rounds(ngCuts[m - 1]))
    BY <1>0, <1>11
<1>13. (m - 1) * k <= b
    BY <1>1, <1>4, <1>5, <1>6, <1>9, <1>10, <1>12
<1>14. c >= b + k
    <2>1. \A i \in Nodes : ngCuts[m - 1][i] <= ngCuts[m][i]
        BY <1>5, <1>9 DEF CutsGrow
    <2>2. Cardinality({i \in Nodes : ngCuts[m][i] > ngCuts[m - 1][i]}) >= N - F
        BY <1>5, <1>9 DEF CutsAdvance
    <2> QED
        BY <1>5, <1>6, <1>11, <1>12, <2>1, <2>2, RoundsTaken
<1>15. m * k = (m - 1) * k + k
    BY <1>5, <1>6
<1>16. m * k \in Int /\ (m - 1) * k \in Int
    BY <1>5, <1>6
<1> QED
    BY <1>6, <1>7, <1>12, <1>13, <1>14, <1>15, <1>16
-----------------------------------------------------------------------------
\* When nothing is left to do every broadcast of a live node is at its end,
\* and known.
LEMMA NgSettledViews ==
    ASSUME NgInv, NgWaitInv, Ng!NgSettled, NEW p \in Nodes, Ng!Alive(p),
           ~ (ngDead /\ \E q \in Nodes \ {ngSource} : ngOut[q] < Ng!PrevView(q)[ngSource])
    PROVE  /\ Ng!CurView(p) \in Views
           /\ Ng!PrevView(p) \in Views
           /\ \A i \in Nodes : Ng!PrevView(p)[i] <= Ng!CurView(p)[i]
           /\ \A i \in Nodes : Ng!Alive(i) => Ng!CurView(p)[i] = ngGrown[i]
<1> USE DEF NgInv, NgWaitInv
<1>1. NgMaxRound \in Nat /\ ngSource \in Nodes /\ \A i \in Nodes : ngGrown[i] \in 0 .. NgMaxRound
    BY DisseminationAssumption DEF NgTypeOK, Views
<1>2. ngEpoch[p] \in Ng!NgEpochs
    BY DEF EpochsCut
<1>3. Ng!PrevView(p) # None /\ Ng!PrevView(p) \in Views
    BY <1>2 DEF Ng!PrevView, CutsInOrder, NgTypeOK
<1>4. ngOut[p] \in 0 .. NgMaxRound
    BY <1>1 DEF OutBehind, NgTypeOK
<1>5. Ng!CurView(p) \in Views
    BY <1>1, <1>4 DEF Ng!CurView, Views
<1>6. ~ ngDead => ngOut[p] = ngGrown[ngSource]
    BY <1>1, <1>4 DEF OutBehind, Ng!NgSettled, Ng!OutputDue
<1>7. \A i \in Nodes : Ng!Alive(i) => Ng!CurView(p)[i] = ngGrown[i]
    BY <1>6 DEF Ng!Alive, Ng!CurView
<1>8. ASSUME NEW i \in Nodes
      PROVE  Ng!PrevView(p)[i] <= Ng!CurView(p)[i]
    <2>1. Ng!PrevView(p)[i] <= ngGrown[i]
        BY <1>2, <1>3 DEF CutsBroadcast, Ng!PrevView
    <2>2. CASE Ng!Alive(i)
        BY <1>7, <2>1, <2>2
    <2>3. CASE ~ Ng!Alive(i)
        <3>1. ngDead /\ i = ngSource /\ p \in Nodes \ {ngSource}
            BY <2>3 DEF Ng!Alive
        <3>2. ~ (ngOut[p] < Ng!PrevView(p)[ngSource])
            BY <3>1
        <3>3. Ng!CurView(p)[i] = ngOut[p]
            BY <3>1 DEF Ng!CurView
        <3>4. ngOut[p] \in Int /\ Ng!PrevView(p)[ngSource] \in Int
            BY <1>1, <1>3, <1>4 DEF Views
        <3> QED
            BY <3>1, <3>2, <3>3, <3>4
    <2> QED
        BY <2>2, <2>3
<1> QED
    BY <1>3, <1>5, <1>7, <1>8

\* So the nodes of the earliest epoch left the wait for progress, no node is
\* ahead of them, and their agreement can cut.
LEMMA EpochsDoGoOn == NgInv /\ NgWaitInv => Ng!EpochsGoOn
<1> DEFINE Going(p) == {i \in Nodes : Ng!Alive(i) /\ ngGrown[i] > Ng!PrevView(p)[i]}
<1> SUFFICES ASSUME NgInv, NgWaitInv, Ng!NgSettled,
                    NEW o \in Nodes, Ng!Alive(o), ~ (Cardinality(Going(o)) < N - F),
                    ~ (ngDead /\ \E q \in Nodes \ {ngSource} :
                                     ngOut[q] < Ng!PrevView(q)[ngSource])
             PROVE  FALSE
    BY NgNumbers DEF Ng!EpochsGoOn
<1> USE DEF NgInv, NgWaitInv
<1>1. \A p \in Nodes : Ng!Alive(p) =>
          /\ Ng!CurView(p) \in Views
          /\ Ng!PrevView(p) \in Views
          /\ \A i \in Nodes : Ng!PrevView(p)[i] <= Ng!CurView(p)[i]
          /\ \A i \in Nodes : Ng!Alive(i) => Ng!CurView(p)[i] = ngGrown[i]
    BY NgSettledViews
<1>2. PICK E : E = {ngEpoch[q] : q \in {x \in Nodes : Ng!Alive(x)}}
    OBVIOUS
<1>3. E \in SUBSET Nat /\ E # {}
    BY <1>2 DEF NgTypeOK
<1>4. PICK e \in E : \A x \in E : e <= x
    BY <1>3, LeastNumber
<1>5. PICK p \in Nodes : Ng!Alive(p) /\ ngEpoch[p] = e
    BY <1>2
<1>6. e \in Ng!NgEpochs /\ e \in Nat /\ ngCuts[e] # None
    BY <1>5, NgEpochRange DEF EpochsCut, CutsInOrder
<1>7. Going(o) \in SUBSET Nodes /\ Cardinality(Going(o)) >= N - F
    <2>1. Going(o) \in SUBSET Nodes
        OBVIOUS
    <2>2. Cardinality(Going(o)) \in Nat
        BY <2>1, NodeSets
    <2> QED
        BY <2>1, <2>2, FaultNumbers
<1>8. ASSUME NEW q \in Nodes, Ng!Alive(q), ngEpoch[q] = e
      PROVE  /\ \A i \in Going(o) : Ng!CurView(q)[i] > Ng!PrevView(q)[i]
             /\ Ng!Advances(q, Ng!CurView(q))
             /\ q \in ngRunning
    <2>1. ASSUME NEW i \in Going(o)
          PROVE  Ng!CurView(q)[i] > Ng!PrevView(q)[i]
        <3>1. i \in Nodes /\ Ng!Alive(i) /\ ngGrown[i] > Ng!PrevView(o)[i]
            BY <2>1
        <3>2. Ng!PrevView(q)[i] <= Ng!PrevView(o)[i]
            <4>1. ngEpoch[o] \in Ng!NgEpochs /\ ngCuts[ngEpoch[o]] # None /\ e <= ngEpoch[o]
                BY <1>2, <1>4 DEF EpochsCut, CutsInOrder
            <4> QED
                BY <1>6, <1>8, <3>1, <4>1, CutsOrdered DEF Ng!PrevView
        <3>3. /\ Ng!PrevView(q)[i] \in Int /\ Ng!PrevView(o)[i] \in Int
              /\ ngGrown[i] \in Int /\ Ng!CurView(q)[i] = ngGrown[i]
            BY <1>1, <1>8, <3>1, DisseminationAssumption DEF Views, NgTypeOK
        <3> QED
            BY <3>1, <3>2, <3>3
    <2>2. PICK D : D = {i \in Nodes : Ng!CurView(q)[i] > Ng!PrevView(q)[i]}
        OBVIOUS
    <2>3. D \in SUBSET Nodes /\ Going(o) \in SUBSET D
        BY <1>7, <2>1, <2>2
    <2>4. Cardinality(D) >= N - F
        BY <1>7, <2>3, NodeSets, FaultNumbers
    <2>5. Ng!Advances(q, Ng!CurView(q))
        BY <2>2, <2>4, NgNumbers DEF Ng!Advances
    <2>6. \A i \in Nodes : Ng!CurView(q)[i] >= Ng!PrevView(q)[i]
        BY <1>1, <1>8, DisseminationAssumption DEF Views
    <2>7. q \in ngRunning
        BY <1>8, <2>5, <2>6 DEF Ng!NgSettled, Ng!VabaDue
    <2> QED
        BY <2>1, <2>5, <2>7
<1> HIDE DEF Going
<1>9. e + 1 \in Ng!NgEpochs
    <2>1. PICK u \in Views, v \in Views : u = ngCuts[e] /\ v = Ng!CurView(p)
        BY <1>1, <1>5 DEF Ng!PrevView
    <2>2. Cardinality({i \in Nodes : v[i] > u[i]}) >= N - F
        BY <1>5, <1>8, <2>1, NgNumbers DEF Ng!Advances, Ng!PrevView
    <2>3. \A i \in Nodes : u[i] <= v[i]
        BY <1>1, <1>5, <2>1 DEF Ng!PrevView
    <2>4. PICK k \in Nat \ {0}, a \in Nat, b \in Nat, c \in Nat :
              /\ k = N - F /\ a = Cardinality(Rounds(u)) /\ b = Cardinality(Rounds(v))
              /\ c = NgMaxRound * N
              /\ b >= a + k /\ b <= c
        BY <2>2, <2>3, RoundsTaken, NgEpochRange
    <2>5. e * k <= a
        <3>1. k = N - F
            BY <2>4
        <3>2. e * k <= Cardinality(Rounds(ngCuts[e]))
            BY <1>6, <3>1, CutsTakeRounds
        <3> QED
            BY <2>1, <2>4, <3>2
    <2>6. PICK d \in Nat : d = e + 1
        BY <1>6
    <2>7. d * k <= c
        <3>1. \A x, y \in Nat : (x + 1) * y = x * y + y /\ x * y \in Int
            OBVIOUS
        <3>2. d * k = e * k + k /\ e * k \in Int
            BY <1>6, <2>6, <3>1
        <3> QED
            BY <2>4, <2>5, <3>2
    <2>8. d <= c \div k
        BY <2>7, FitsInQuotient
    <2> QED
        BY <2>4, <2>6, <2>8, NgEpochRange
<1>10. ngCuts[e + 1] = None
    BY <1>5, <1>8, <1>9 DEF Ng!NgSettled, Ng!EpochDue, Ng!NextCut
<1>11. \A q \in Nodes : Ng!Alive(q) => ngEpoch[q] = e
    <2> SUFFICES ASSUME NEW q \in Nodes, Ng!Alive(q), ngEpoch[q] # e
                 PROVE  FALSE
        OBVIOUS
    <2>1. /\ ngEpoch[q] \in Nat /\ e <= ngEpoch[q]
          /\ ngEpoch[q] \in Ng!NgEpochs /\ ngCuts[ngEpoch[q]] # None
        BY <1>2, <1>4 DEF NgTypeOK, EpochsCut, CutsInOrder
    <2>2. e + 1 <= ngEpoch[q]
        BY <1>6, <2>1
    <2> QED
        BY <1>9, <1>10, <2>1, <2>2, NoCutsAfter
<1>12. PICK Cutting : Cutting = {q \in ngRunning : ngEpoch[q] = ngEpoch[p]}
    OBVIOUS
<1>13. Cutting \in Quorum
    <2>1. \A q \in Nodes : Ng!Alive(q) => q \in Cutting
        BY <1>5, <1>8, <1>11, <1>12
    <2>2. Going(o) \subseteq Cutting /\ Cutting \in SUBSET Nodes
        BY <2>1, <1>12 DEF Going
    <2>3. Going(o) \in Quorum
        BY <1>7 DEF Quorum
    <2> QED
        BY <2>2, <2>3, QuorumSuperset
<1>14. Ng!CurView(p) \in Ng!Reached(p)
    <2>1. \A i \in Nodes : Ng!CurView(p)[i] \in Ng!PrevView(p)[i] .. Ng!CurView(p)[i]
        <3> TAKE i \in Nodes
        <3>1. PICK a \in Int, b \in Int :
                  a = Ng!PrevView(p)[i] /\ b = Ng!CurView(p)[i] /\ a <= b
            BY <1>1, <1>5, DisseminationAssumption DEF Views
        <3> QED
            BY <3>1
    <2> QED
        BY <1>1, <1>5, <2>1 DEF Ng!Reached, Views
<1>15. Ng!CutDue(p)
    BY <1>5, <1>8, <1>9, <1>10, <1>12, <1>13, NgNumbers DEF Ng!CutDue, Ng!NextCut
<1> QED
    BY <1>5, <1>8, <1>14, <1>15 DEF Ng!NgSettled
-----------------------------------------------------------------------------
(***************************************************************************)
(* DispersedLedger.  A decided block was echoed by N - f nodes, each with  *)
(* its chunk; those that live to the end of the round return it, and no    *)
(* chunk comes to a node after its end.                                    *)
(***************************************************************************)
DlTypeOK ==
    /\ dlChunk \subseteq Nodes /\ dlEchoes \subseteq dlChunk
    /\ dlUp \subseteq Nodes /\ dlGot \subseteq Nodes
    /\ dlReturns \subseteq Nodes /\ dlEnded \subseteq Nodes
    /\ dlDecided \in {TRUE, FALSE, None}

\* The block was decided because it was output, and so echoed.
DecidedEchoed ==
    /\ dlOut # {} => dlEchoes \in Quorum
    /\ dlDecided = TRUE => dlOut # {}

EndedReturned ==
    /\ dlDecided = None => dlEnded = {}
    /\ dlDecided = TRUE => dlEnded \cap dlChunk \subseteq dlReturns

FewDown == dlUp \in Quorum

GotEnough == Cardinality(dlGot) <= N - 2 * F

DlInv == DlTypeOK /\ DecidedEchoed /\ EndedReturned /\ FewDown /\ GotEnough

\* Cardinalities are the same in DispersedLedger and here.
LEMMA DlNumbers ==
    /\ Dl!N = N
    /\ \A S : Dl!Cardinality(S) = Cardinality(S)
<1>1. \A S : Dl!Cardinality(S) = Cardinality(S)
    BY DEF Dl!Cardinality, Cardinality
<1> QED
    BY <1>1 DEF Dl!N, N

\* No echo, no decision and no RETURN at the start.
LEMMA DlInitInv == Dl!DlInit => DlInv
<1> SUFFICES ASSUME Dl!DlInit
             PROVE  DlInv
    OBVIOUS
<1> USE DEF Dl!DlInit
<1>1. GotEnough
    BY FS_EmptySet, FaultNumbers DEF GotEnough
<1>2. FewDown
    BY FaultNumbers DEF FewDown
<1>3. DlTypeOK /\ DecidedEchoed /\ EndedReturned
    BY DisseminationAssumption DEF DlTypeOK, DecidedEchoed, EndedReturned
<1> QED
    BY <1>1, <1>2, <1>3 DEF DlInv

\* A crash leaves N - f nodes.
LEMMA CrashLeavesQuorum ==
    ASSUME NEW up \in SUBSET Nodes, NEW p \in up, NEW most \in 0 .. F,
           Cardinality(Nodes \ up) < most
    PROVE  up \ {p} \in Quorum
<1>1. IsFiniteSet(Nodes) /\ IsFiniteSet(up) /\ Cardinality(up) \in Nat
    BY FaultAssumption, NodeSets
<1>2. Cardinality(Nodes \ up) = N - Cardinality(up)
    <2>1. Nodes \cap up = up
        OBVIOUS
    <2> QED
        BY <1>1, <2>1, FS_Difference DEF N
<1>3. Cardinality(up \ {p}) = Cardinality(up) - 1
    BY <1>1, FS_RemoveElement
<1> QED
    BY <1>1, <1>2, <1>3, FaultNumbers DEF Quorum

\* Every step of the dispersal and the retrieval keeps the invariant.
LEMMA DlStepInv == DlInv /\ [Dl!DlNext]_Dl!dlVars => DlInv'
<1> SUFFICES ASSUME DlInv, [Dl!DlNext]_Dl!dlVars
             PROVE  DlInv'
    OBVIOUS
<1> USE DEF DlInv
<1> USE DEF Dl!dlCast, Dl!dlCbc, Dl!dlRound, Dl!dlFaults
<1>1. CASE UNCHANGED Dl!dlVars
    BY <1>1 DEF Dl!dlVars, DlTypeOK, DecidedEchoed, EndedReturned, FewDown, GotEnough
<1>2. ASSUME NEW in \in BOOLEAN, Dl!VabaDecides(in)
      PROVE  DlInv'
    BY <1>2, DisseminationAssumption DEF Dl!VabaDecides, DlTypeOK, DecidedEchoed, EndedReturned,
             FewDown, GotEnough
<1>3. ASSUME NEW p \in Nodes, Dl!HandleSend(p)
      PROVE  DlInv'
    BY <1>3 DEF Dl!HandleSend, Dl!Runs, DlTypeOK, DecidedEchoed, EndedReturned, FewDown,
        GotEnough
<1>4. ASSUME NEW p \in Nodes, Dl!HandleEcho(p)
      PROVE  DlInv'
    <2>1. /\ p \in dlChunk /\ dlEchoes' = dlEchoes \cup {p}
          /\ UNCHANGED <<dlChunk, dlOut, dlDecided, dlEnded, dlReturns, dlGot, dlUp>>
        BY <1>4 DEF Dl!HandleEcho
    <2>2. dlEchoes \in Quorum => dlEchoes' \in Quorum
        <3>1. dlEchoes \subseteq dlEchoes' /\ dlEchoes' \in SUBSET Nodes
            BY <2>1 DEF DlTypeOK
        <3> QED
            BY <3>1, QuorumSuperset
    <2> QED
        BY <2>1, <2>2 DEF DlTypeOK, DecidedEchoed, EndedReturned, FewDown, GotEnough
<1>5. ASSUME NEW p \in Nodes, Dl!HandleFinal(p)
      PROVE  DlInv'
    <2>1. /\ Cardinality(dlEchoes) >= N - F /\ dlOut' = dlOut \cup {p}
          /\ UNCHANGED <<dlChunk, dlEchoes, dlDecided, dlEnded, dlReturns, dlGot, dlUp>>
        BY <1>5, DlNumbers DEF Dl!HandleFinal, Dl!EchoThreshold
    <2>2. dlEchoes \in Quorum
        BY <2>1 DEF DlTypeOK, Quorum
    <2> QED
        BY <2>1, <2>2 DEF DlTypeOK, DecidedEchoed, EndedReturned, FewDown, GotEnough
<1>6. ASSUME NEW p \in Nodes, Dl!EndRound(p)
      PROVE  DlInv'
    <2>1. /\ dlDecided # None /\ dlEnded' = dlEnded \cup {p}
          /\ dlReturns' = IF dlDecided /\ p \in dlChunk THEN dlReturns \cup {p} ELSE dlReturns
          /\ UNCHANGED <<dlChunk, dlEchoes, dlOut, dlDecided, dlGot, dlUp>>
        BY <1>6 DEF Dl!EndRound
    <2> QED
        BY <2>1 DEF DlTypeOK, DecidedEchoed, EndedReturned, FewDown, GotEnough
<1>7. ASSUME NEW p \in Nodes, Dl!HandleReturn(p)
      PROVE  DlInv'
    <2>1. /\ Cardinality(dlGot) < N - 2 * F /\ p \notin dlGot /\ dlGot' = dlGot \cup {p}
          /\ UNCHANGED <<dlChunk, dlEchoes, dlOut, dlDecided, dlEnded, dlReturns, dlUp>>
        BY <1>7, DlNumbers DEF Dl!HandleReturn
    <2>2. IsFiniteSet(dlGot) /\ Cardinality(dlGot) \in Nat
        BY NodeSets DEF DlTypeOK
    <2>3. Cardinality(dlGot') = Cardinality(dlGot) + 1
        BY <2>1, <2>2, FS_AddElement
    <2>4. GotEnough'
        BY <2>1, <2>2, <2>3, FaultNumbers DEF GotEnough
    <2> QED
        BY <2>1, <2>4 DEF DlTypeOK, DecidedEchoed, EndedReturned, FewDown
<1>8. ASSUME NEW p \in Nodes, NEW lost, Dl!DlCrash(p, lost)
      PROVE  DlInv'
    <2>1. /\ p \in dlUp /\ Cardinality(Nodes \ dlUp) < DlMaxCrash /\ dlUp' = dlUp \ {p}
          /\ UNCHANGED <<dlChunk, dlEchoes, dlOut, dlDecided, dlEnded, dlReturns, dlGot>>
        BY <1>8, DlNumbers DEF Dl!DlCrash
    <2>2. FewDown'
        BY <2>1, CrashLeavesQuorum, DisseminationAssumption DEF DlTypeOK, FewDown
    <2> QED
        BY <2>1, <2>2 DEF DlTypeOK, DecidedEchoed, EndedReturned, GotEnough
<1> QED
    BY <1>1, <1>2, <1>3, <1>4, <1>5, <1>6, <1>7, <1>8 DEF Dl!DlNext

\* N - f echoes leave N - 2f chunks when f nodes crashed.
LEMMA DlInvRetrieved == DlInv => Dl!DlRetrieved
<1> SUFFICES ASSUME DlInv, dlDecided = TRUE, dlUp \subseteq dlEnded,
                    dlReturns \cap dlUp \subseteq dlGot
             PROVE  Cardinality(dlGot) = N - 2 * F
    BY DlNumbers DEF Dl!DlRetrieved
<1> USE DEF DlInv
<1>1. dlEchoes \cap dlUp \subseteq dlGot /\ dlGot \in SUBSET Nodes
    BY DEF DlTypeOK, EndedReturned
<1>2. dlEchoes \in Quorum /\ dlUp \in Quorum
    BY DEF DecidedEchoed, FewDown
<1>3. Cardinality(dlEchoes \cap dlUp) >= Cardinality(dlEchoes) - F
    BY <1>2, MeetQuorum DEF Quorum
<1>4. Cardinality(dlEchoes) >= N - F /\ Cardinality(dlEchoes) \in Nat
    BY <1>2, NodeSets DEF Quorum
<1>5. Cardinality(dlGot) >= Cardinality(dlEchoes \cap dlUp) /\ Cardinality(dlGot) \in Nat
      /\ Cardinality(dlEchoes \cap dlUp) \in Nat
    BY <1>1, NodeSets
<1> QED
    BY <1>3, <1>4, <1>5, FaultNumbers DEF GotEnough
-----------------------------------------------------------------------------
(***************************************************************************)
(* DumboCommonSubset.  Whoever proved its broadcast holds its value, and   *)
(* of a PB so do N - f nodes; f or fewer crash, so the N - f live nodes    *)
(* prove theirs and a vector is chosen.                                    *)
(***************************************************************************)
CsTypeOK ==
    /\ csBroadcast \in {"prbc", "pb"}
    /\ csHas \in [Nodes -> SUBSET Nodes]
    /\ csVal \subseteq Nodes

FewCsCrashed == csCrashed \in SUBSET Nodes /\ Cardinality(csCrashed) <= F

ValsHeld ==
    \A q \in csVal : q \in csHas[q] /\ (csBroadcast = "pb" => Cs!Holders(q) \in Quorum)

VectorProved == csVector = None \/ csVector \subseteq csVal

CsInv == CsTypeOK /\ FewCsCrashed /\ ValsHeld /\ VectorProved

LEMMA CsNumbers ==
    /\ Cs!N = N
    /\ Cs!Quorum = Quorum
    /\ \A S : Cs!Cardinality(S) = Cardinality(S)
<1>1. \A S : Cs!Cardinality(S) = Cardinality(S)
    BY DEF Cs!Cardinality, Cardinality
<1>2. Cs!N = N
    BY <1>1 DEF Cs!N, N
<1> QED
    BY <1>1, <1>2 DEF Cs!Quorum, Quorum

\* Nothing is proved at the start.
LEMMA CsInitInv == Cs!CsInit => CsInv
<1>1. Cardinality({}) = 0
    BY FS_EmptySet
<1> QED
    BY <1>1, FaultNumbers DEF Cs!CsInit, CsInv, CsTypeOK, FewCsCrashed, ValsHeld, VectorProved

\* The invariant is inductive.
LEMMA CsStepInv == CsInv /\ [Cs!CsNext]_Cs!csVars => CsInv'
<1> SUFFICES ASSUME CsInv, [Cs!CsNext]_Cs!csVars
             PROVE  CsInv'
    OBVIOUS
<1> USE DEF CsInv
<1>1. ASSUME NEW p \in Nodes, NEW q \in Nodes, Cs!GetValue(p, q)
      PROVE  CsInv'
    <2>1. /\ csHas' = [csHas EXCEPT ![p] = @ \cup {q}]
          /\ UNCHANGED <<csBroadcast, csVal, csVector, csReturned, csCrashed>>
        BY <1>1 DEF Cs!GetValue
    <2>2. CsTypeOK'
        BY <2>1 DEF CsTypeOK
    <2>3. \A s \in Nodes : csHas[s] \subseteq csHas'[s]
        BY <2>1 DEF CsTypeOK
    <2>4. ValsHeld'
        <3> SUFFICES ASSUME NEW v \in csVal
                     PROVE  v \in csHas'[v] /\ (csBroadcast = "pb" => Cs!Holders(v)' \in Quorum)
            BY <2>1 DEF ValsHeld
        <3>1. v \in Nodes /\ v \in csHas'[v]
            BY <2>3 DEF ValsHeld, CsTypeOK
        <3>2. Cs!Holders(v) \subseteq Cs!Holders(v)' /\ Cs!Holders(v)' \in SUBSET Nodes
            BY <2>3 DEF Cs!Holders
        <3> QED
            BY <3>1, <3>2, QuorumSuperset DEF ValsHeld
    <2> QED
        BY <2>1, <2>2, <2>4 DEF FewCsCrashed, VectorProved
<1>2. ASSUME NEW q \in Nodes, Cs!Propose(q)
      PROVE  CsInv'
    BY <1>2, CsNumbers DEF Cs!Propose, Cs!ProofIn, Cs!PbProved, Cs!PrbcProved, Cs!Holders,
        CsTypeOK, FewCsCrashed, ValsHeld, VectorProved
<1>3. ASSUME NEW p \in Nodes, Cs!ReturnSubset(p)
      PROVE  CsInv'
    BY <1>3 DEF Cs!ReturnSubset, Cs!Holders, CsTypeOK, FewCsCrashed, ValsHeld, VectorProved
<1>4. ASSUME NEW vector \in SUBSET Nodes, Cs!VabaDecides(vector)
      PROVE  CsInv'
    BY <1>4 DEF Cs!VabaDecides, Cs!ValsIn, Cs!Holders, CsTypeOK, FewCsCrashed, ValsHeld,
        VectorProved
<1>5. ASSUME NEW p \in Nodes, Cs!CsCrash(p)
      PROVE  CsInv'
    <2>1. csCrashed' \in SUBSET Nodes /\ Cardinality(csCrashed') <= F
        BY <1>5, CsNumbers, OneMoreNode, DisseminationAssumption DEF Cs!CsCrash, FewCsCrashed
    <2> QED
        BY <1>5, <2>1 DEF Cs!CsCrash, Cs!Holders, CsTypeOK, FewCsCrashed, ValsHeld, VectorProved
<1>6. CASE UNCHANGED Cs!csVars
    BY <1>6 DEF Cs!csVars, Cs!Holders, CsTypeOK, FewCsCrashed, ValsHeld, VectorProved
<1> QED
    BY <1>1, <1>2, <1>3, <1>4, <1>5, <1>6 DEF Cs!CsNext, Cs!CsProgress

\* When all is handled the live nodes proved their broadcasts, a vector is
\* there, and of a PRBC, whose values spread, every node holds all of it.
LEMMA CsInvReturned == CsInv => Cs!SubsetReturned
<1> SUFFICES ASSUME CsInv, Cs!CsSettled, NEW p \in Nodes, p \notin csCrashed, p \notin csReturned
             PROVE  /\ csBroadcast = "pb" /\ csVector # None
                    /\ csVector \ csHas[p] \subseteq csCrashed
                    /\ \A q \in csVector : Cs!Holders(q) \in Quorum
    BY CsNumbers DEF Cs!SubsetReturned, Cs!CsLive
<1> USE DEF CsInv
<1>1. PICK Up : Up = Nodes \ csCrashed
    OBVIOUS
<1>2. Up \in Quorum /\ Up \in SUBSET Nodes
    BY <1>1, LiveNodes DEF FewCsCrashed
<1>3. \A q \in Up : q \in csHas[q]
    BY <1>1 DEF Cs!CsSettled, Cs!ValueIn, Cs!CsLive
<1>4. \A q \in Up : Up \subseteq Cs!Holders(q)
    <2> TAKE q \in Up
    <2>1. \A s \in Up : q \in csHas[s]
        BY <1>1, <1>3 DEF Cs!CsSettled, Cs!ValueIn, Cs!CsLive
    <2> QED
        BY <1>1, <2>1 DEF Cs!Holders
<1>5. Up \subseteq csVal
    <2> SUFFICES ASSUME NEW q \in Up, q \notin csVal
                 PROVE  FALSE
        OBVIOUS
    <2>1. Cs!Holders(q) \in Quorum
        <3>1. Cs!Holders(q) \in SUBSET Nodes /\ Up \subseteq Cs!Holders(q)
            BY <1>4 DEF Cs!Holders
        <3> QED
            BY <1>2, <3>1, QuorumSuperset
    <2> QED
        BY <1>1, <1>3, <2>1, CsNumbers
            DEF Cs!CsSettled, Cs!ProofIn, Cs!PbProved, Cs!PrbcProved, Cs!CsLive
<1>6. csVector # None
    <2>1. IsFiniteSet(Up) /\ Cardinality(Up) \in Nat /\ Cardinality(Up) >= N - F
        BY <1>2, NodeSets DEF Quorum
    <2>2. PICK k \in 0 .. Cardinality(Up) : k = N - F
        BY <2>1, FaultNumbers
    <2>3. PICK vector \in SUBSET Up : Cardinality(vector) = k
        BY <2>1, SubsetOfSize
    <2>4. vector \in SUBSET Nodes /\ vector \subseteq csVal
        BY <1>2, <1>5
    <2> QED
        BY <2>2, <2>3, <2>4, CsNumbers, NgNumbers
            DEF Cs!CsSettled, Cs!ValsIn, Cs!ValsNeeded
<1>7. csVector \subseteq csVal /\ csVal \in SUBSET Nodes
    BY <1>6 DEF VectorProved, CsTypeOK
<1>8. PICK q \in csVector : q \notin csHas[p]
    BY <1>6 DEF Cs!CsSettled, Cs!SubsetIn, Cs!CsLive
<1>9. csBroadcast # "prbc"
    <2>1. q \in Nodes /\ q \in csHas[q]
        BY <1>7, <1>8 DEF ValsHeld
    <2>2. Cs!Holders(q) # {}
        BY <2>1 DEF Cs!Holders
    <2> QED
        BY <1>8, <2>1, <2>2 DEF Cs!CsSettled, Cs!ValueIn, Cs!CsLive
<1>10. csBroadcast = "pb"
    BY <1>9 DEF CsTypeOK
<1>11. csVector \ csHas[p] \subseteq csCrashed
    <2> SUFFICES ASSUME NEW v \in csVector, v \notin csHas[p], v \notin csCrashed
                 PROVE  FALSE
        OBVIOUS
    <2>1. v \in Up
        BY <1>1, <1>7
    <2>2. p \in Cs!Holders(v)
        BY <1>1, <1>4, <2>1
    <2> QED
        BY <2>2 DEF Cs!Holders
<1> QED
    BY <1>6, <1>7, <1>10, <1>11 DEF ValsHeld
-----------------------------------------------------------------------------
(***************************************************************************)
(* SpeedMvbaE.  What is halted with, unless it is an output of round 0, is *)
(* the value of the node elected first, after a quorum signed it or voted  *)
(* yes, or what the node elected second broadcast; and that is its own     *)
(* value only after a quorum voted, and so prevoted, no.                   *)
(***************************************************************************)
MePhases == {"spbc", "voting", "again", "skipped", "halted"}

MeHalts == [value : Nodes \cup {None}, stale : BOOLEAN]

MeTypeOK ==
    /\ meLeader \in Nodes \X Nodes
    /\ mePhase \in [Nodes -> MePhases]
    /\ meSigned \subseteq Nodes
    /\ mePrevote \in [Nodes -> {"yes", "no", None}]
    /\ meVote \in [Nodes -> {"yes", "no", None}]
    /\ meSetUp \subseteq Nodes
    /\ meMsg \in Nodes \cup {None}
    /\ meHalt \in [Nodes -> MeHalts \cup {None}]

Prevoted(b) == {q \in Nodes : mePrevote[q] = b}
Voted(b) == {q \in Nodes : meVote[q] = b}

\* What a node has done in its phase.
PhasesFit ==
    \A p \in Nodes :
        /\ mePhase[p] = "spbc" => mePrevote[p] = None
        /\ mePhase[p] \in {"spbc", "voting"} => p \notin meSetUp

DoneSigned == meSpbc = "DONE" => meSigned \in Quorum

NoVotesBacked == \A q \in Nodes : meVote[q] = "no" => Prevoted("no") \in Quorum

SecondMessage ==
    meLeader[2] \in meSetUp =>
        \/ meMsg = meLeader[1]
        \/ meMsg = meLeader[2] /\ Voted("no") \in Quorum

\* Where a HALT that is not stale is from.
HaltFrom(h) ==
    h.stale = FALSE =>
        \/ /\ h.value = meLeader[1]
           /\ meSigned \in Quorum \/ Voted("yes") \in Quorum
        \/ h.value = meMsg /\ meLeader[2] \in meSetUp

HaltsFrom == \A p \in Nodes : meHalt[p] # None => HaltFrom(meHalt[p])

MeInv ==
    /\ MeTypeOK
    /\ PhasesFit
    /\ DoneSigned
    /\ NoVotesBacked
    /\ SecondMessage
    /\ HaltsFrom

\* Quorums, and the sets of those who voted, are the same in SpeedMvbaE and here.
LEMMA MeNumbers ==
    /\ Me!Quorum = Quorum
    /\ \A b : Me!MeWith(mePrevote, b) = Prevoted(b)
    /\ \A b : Me!MeWith(meVote, b) = Voted(b)
<1>1. \A S : Me!Cardinality(S) = Cardinality(S)
    BY DEF Me!Cardinality, Cardinality
<1>2. Me!N = N
    BY <1>1 DEF Me!N, N
<1> QED
    BY <1>1, <1>2 DEF Me!Quorum, Quorum, Me!MeWith, Prevoted, Voted

\* Nothing is signed, voted or halted at the start.
LEMMA MeInitInv == Me!MeInit => MeInv
<1> SUFFICES ASSUME Me!MeInit
             PROVE  MeInv
    OBVIOUS
<1> USE DEF Me!MeInit
<1>1. MeTypeOK
    BY DEF MeTypeOK, MePhases
<1>2. PhasesFit /\ DoneSigned /\ NoVotesBacked /\ SecondMessage /\ HaltsFrom
    BY DisseminationAssumption
    DEF PhasesFit, DoneSigned, NoVotesBacked, SecondMessage, HaltsFrom
<1> QED
    BY <1>1, <1>2 DEF MeInv

\* A node halts with a HALT that is stale or accounted for.
LEMMA SendHaltKeeps ==
    ASSUME MeInv, NEW p \in Nodes, NEW h \in MeHalts, Me!SendHalt(p, h), HaltFrom(h)
    PROVE  MeInv'
<1>1. /\ mePhase' = [mePhase EXCEPT ![p] = "halted"]
      /\ meHalt' = [meHalt EXCEPT ![p] = h]
      /\ UNCHANGED <<meLeader, meSpbc, meSigned, mePrevote, meVote, meSetUp, meMsg>>
    BY DEF Me!SendHalt, Me!meSpbcVars, Me!meVoteVars, Me!meAgainVars
<1>2. MeTypeOK'
    BY <1>1 DEF MeInv, MeTypeOK, MePhases
<1>3. PhasesFit'
    BY <1>1 DEF MeInv, PhasesFit, MeTypeOK
<1>4. DoneSigned' /\ NoVotesBacked' /\ SecondMessage'
    BY <1>1 DEF MeInv, DoneSigned, NoVotesBacked, SecondMessage, Prevoted, Voted
<1>5. HaltsFrom'
    <2> SUFFICES ASSUME NEW q \in Nodes, meHalt'[q] # None
                 PROVE  HaltFrom(meHalt'[q])
        BY <1>1 DEF HaltsFrom, HaltFrom, Voted
    <2>1. CASE q = p
        BY <1>1, <2>1 DEF MeInv, MeTypeOK
    <2>2. CASE q # p
        BY <1>1, <2>2 DEF MeInv, MeTypeOK, HaltsFrom
    <2> QED
        BY <2>1, <2>2
<1> QED
    BY <1>2, <1>3, <1>4, <1>5 DEF MeInv

\* Round 1 starts with the elected message, or with the node's own after N - f no votes.
LEMMA EnterKeeps ==
    ASSUME MeInv, NEW p \in Nodes, NEW m \in Nodes, mePhase[p] = "voting",
           m = meLeader[1] \/ (m = p /\ Voted("no") \in Quorum),
           Me!EnterRound1(p, m)
    PROVE  MeInv'
<1>1. /\ mePhase' = [mePhase EXCEPT ![p] = "again"]
      /\ meSetUp' = meSetUp \cup {p}
      /\ meMsg' = IF p = meLeader[2] THEN m ELSE meMsg
      /\ UNCHANGED <<meLeader, meSpbc, meSigned, mePrevote, meVote, meHalt>>
    BY DEF Me!EnterRound1, Me!meSpbcVars, Me!meVoteVars
<1>2. MeTypeOK'
    BY <1>1 DEF MeInv, MeTypeOK, MePhases
<1>3. PhasesFit'
    BY <1>1 DEF MeInv, PhasesFit, MeTypeOK
<1>4. DoneSigned' /\ NoVotesBacked'
    BY <1>1 DEF MeInv, DoneSigned, NoVotesBacked, Prevoted
<1>5. p \notin meSetUp
    BY DEF MeInv, PhasesFit
<1>6. SecondMessage'
    BY <1>1 DEF MeInv, SecondMessage, Voted
<1>7. HaltsFrom'
    BY <1>1, <1>5 DEF MeInv, HaltsFrom, HaltFrom, Voted
<1> QED
    BY <1>2, <1>3, <1>4, <1>6, <1>7 DEF MeInv

\* One more signature of the broadcast of round 0.
LEMMA SignKeeps ==
    ASSUME MeInv, NEW p \in Nodes, Me!MeSign(p)
    PROVE  MeInv'
<1>1. /\ meSigned' = meSigned \cup {p}
      /\ UNCHANGED <<meLeader, mePhase, meSpbc, mePrevote, meVote, meSetUp, meMsg, meHalt>>
    BY DEF Me!MeSign, Me!SignDue, Me!meVoteVars, Me!meAgainVars
<1>2. meSigned' \in SUBSET Nodes /\ meSigned \subseteq meSigned'
    BY <1>1 DEF MeInv, MeTypeOK
<1>3. meSigned \in Quorum => meSigned' \in Quorum
    BY <1>2, QuorumSuperset
<1>4. MeTypeOK' /\ PhasesFit' /\ NoVotesBacked' /\ SecondMessage'
    BY <1>1, <1>2 DEF MeInv, MeTypeOK, PhasesFit, NoVotesBacked, SecondMessage, Prevoted, Voted
<1>5. DoneSigned'
    BY <1>1, <1>3 DEF MeInv, DoneSigned
<1>6. HaltsFrom'
    <2> SUFFICES ASSUME NEW q \in Nodes, meHalt[q] # None
                 PROVE  HaltFrom(meHalt[q])'
        BY <1>1 DEF HaltsFrom
    <2> QED
        BY <1>1, <1>3 DEF MeInv, HaltsFrom, HaltFrom, Voted
<1> QED
    BY <1>4, <1>5, <1>6 DEF MeInv

\* A node prevotes once, when the election ends its wait.
LEMMA PrevoteKeeps ==
    ASSUME MeInv, NEW p \in Nodes, Me!MePrevote(p)
    PROVE  MeInv'
<1>1. PICK b \in {"yes", "no"} :
          /\ mePhase[p] = "spbc"
          /\ mePhase' = [mePhase EXCEPT ![p] = "voting"]
          /\ mePrevote' = [mePrevote EXCEPT ![p] = b]
          /\ UNCHANGED <<meLeader, meSpbc, meSigned, meVote, meSetUp, meMsg, meHalt>>
    BY DEF Me!MePrevote, Me!PrevoteDue, Me!meSpbcVars, Me!meAgainVars
<1>2. MeTypeOK'
    BY <1>1 DEF MeInv, MeTypeOK, MePhases
<1>3. PhasesFit'
    BY <1>1 DEF MeInv, PhasesFit, MeTypeOK
<1>4. DoneSigned' /\ SecondMessage'
    BY <1>1 DEF MeInv, DoneSigned, SecondMessage, Voted
<1>5. HaltsFrom'
    BY <1>1 DEF MeInv, HaltsFrom, HaltFrom, Voted
<1>6. NoVotesBacked'
    <2>1. mePrevote[p] = None
        BY <1>1 DEF MeInv, PhasesFit
    <2>2. Prevoted("no") \subseteq Prevoted("no")'
        BY <1>1, <2>1, DisseminationAssumption DEF MeInv, MeTypeOK, Prevoted
    <2>3. Prevoted("no")' \in SUBSET Nodes
        BY DEF Prevoted
    <2>4. Prevoted("no") \in Quorum => Prevoted("no")' \in Quorum
        BY <2>2, <2>3, QuorumSuperset
    <2> QED
        BY <1>1, <2>4 DEF MeInv, NoVotesBacked
<1> QED
    BY <1>2, <1>3, <1>4, <1>5, <1>6 DEF MeInv

\* A no vote rests on N - f no prevotes.
LEMMA VoteKeeps ==
    ASSUME MeInv, NEW p \in Nodes, NEW b \in {"yes", "no"}, Me!MeVote(p, b)
    PROVE  MeInv'
<1>1. /\ meVote[p] = None
      /\ b = "no" => Prevoted("no") \in Quorum
      /\ meVote' = [meVote EXCEPT ![p] = b]
      /\ UNCHANGED <<meLeader, mePhase, meSpbc, meSigned, mePrevote, meSetUp, meMsg, meHalt>>
    BY MeNumbers DEF Me!MeVote, Me!VoteDue, Me!meSpbcVars, Me!meAgainVars
<1>2. MeTypeOK' /\ PhasesFit' /\ DoneSigned'
    BY <1>1 DEF MeInv, MeTypeOK, PhasesFit, DoneSigned
<1>3. NoVotesBacked'
    BY <1>1 DEF MeInv, NoVotesBacked, Prevoted, MeTypeOK
<1>4. ASSUME NEW c \in {"yes", "no"}, Voted(c) \in Quorum
      PROVE  Voted(c)' \in Quorum
    <2>1. Voted(c) \subseteq Voted(c)' /\ Voted(c)' \in SUBSET Nodes
        BY <1>1, DisseminationAssumption DEF MeInv, MeTypeOK, Voted
    <2> QED
        BY <1>4, <2>1, QuorumSuperset
<1>5. SecondMessage'
    BY <1>1, <1>4 DEF MeInv, SecondMessage
<1>6. HaltsFrom'
    <2> SUFFICES ASSUME NEW q \in Nodes, meHalt[q] # None
                 PROVE  HaltFrom(meHalt[q])'
        BY <1>1 DEF HaltsFrom
    <2>1. Voted("yes") \in Quorum => Voted("yes")' \in Quorum
        BY <1>4
    <2> QED
        BY <1>1, <2>1 DEF MeInv, HaltsFrom, HaltFrom
<1> QED
    BY <1>2, <1>3, <1>5, <1>6 DEF MeInv

\* The steps that change where the broadcast is, who lost a vote or who skips.
LEMMA MeOthersKeep ==
    ASSUME MeInv, NEW p \in Nodes,
           Me!MeReady \/ Me!MeDone \/ Me!LoseYes(p) \/ Me!Skip(p)
    PROVE  MeInv'
<1>1. /\ UNCHANGED <<meLeader, meSigned, mePrevote, meVote, meSetUp, meMsg, meHalt>>
      /\ UNCHANGED mePhase \/ mePhase' = [mePhase EXCEPT ![p] = "skipped"]
      /\ meSpbc' = "DONE" => meSpbc = "DONE" \/ meSigned \in Quorum
    BY MeNumbers
    DEF Me!MeReady, Me!ReadyDue, Me!MeDone, Me!DoneDue, Me!LoseYes, Me!Skip, Me!SkipDue,
        Me!meSpbcVars, Me!meVoteVars, Me!meAgainVars
<1>2. MeTypeOK' /\ DoneSigned'
    BY <1>1 DEF MeInv, MeTypeOK, MePhases, DoneSigned
<1>3. PhasesFit'
    BY <1>1 DEF MeInv, PhasesFit, MeTypeOK
<1>4. NoVotesBacked' /\ SecondMessage' /\ HaltsFrom'
    BY <1>1 DEF MeInv, NoVotesBacked, SecondMessage, HaltsFrom, HaltFrom, Prevoted, Voted
<1> QED
    BY <1>2, <1>3, <1>4 DEF MeInv

\* Every step of smvba_e keeps the invariant.
LEMMA MeStepInv == MeInv /\ [Me!MeNext]_Me!meVars => MeInv'
<1> SUFFICES ASSUME MeInv, [Me!MeNext]_Me!meVars
             PROVE  MeInv'
    OBVIOUS
<1>1. CASE UNCHANGED Me!meVars
    BY <1>1 DEF Me!meVars, Me!meSpbcVars, Me!meVoteVars, Me!meAgainVars, MeInv, MeTypeOK,
                PhasesFit, DoneSigned, NoVotesBacked, SecondMessage, HaltsFrom, HaltFrom,
                Prevoted, Voted
<1>2. meLeader[1] \in Nodes /\ meLeader[2] \in Nodes
    BY DEF MeInv, MeTypeOK
<1>3. Me!FirstHalt \in MeHalts /\ Me!StaleHalt \in MeHalts
    BY <1>2 DEF Me!FirstHalt, Me!StaleHalt, MeHalts
<1>4. HaltFrom(Me!StaleHalt)
    BY DEF HaltFrom, Me!StaleHalt
<1>5. ASSUME meSigned \in Quorum \/ Voted("yes") \in Quorum
      PROVE  HaltFrom(Me!FirstHalt)
    BY <1>5 DEF HaltFrom, Me!FirstHalt
<1>6. ASSUME NEW p \in Nodes, Me!Shortcut(p) \/ Me!VotesHalt(p)
      PROVE  MeInv'
    <2>1. meSigned \in Quorum \/ Voted("yes") \in Quorum
        BY <1>6, MeNumbers
        DEF Me!Shortcut, Me!VotesHalt, Me!VotesIn, Me!Deliverable, MeInv, DoneSigned
    <2> QED
        BY <1>3, <1>5, <1>6, <2>1, SendHaltKeeps DEF Me!Shortcut, Me!VotesHalt, Me!VotesIn
<1>7. ASSUME NEW p \in Nodes, Me!NextAfterNo(p) \/ Me!NextAfterBoth(p)
      PROVE  MeInv'
    BY <1>2, <1>7, MeNumbers, EnterKeeps DEF Me!NextAfterNo, Me!NosIn, Me!NextAfterBoth,
        Me!BothIn, Me!YesValue
<1>8. ASSUME NEW p \in Nodes, NEW q \in Nodes, Me!ElectAgain(p, q)
      PROVE  MeInv'
    <2>1. CASE q = meLeader[2]
        <3> DEFINE h == [value |-> meMsg, stale |-> FALSE]
        <3>1. h \in MeHalts /\ HaltFrom(h)
            BY <1>8, <2>1 DEF Me!ElectAgain, Me!SetUpsIn, MeInv, MeTypeOK, MeHalts, HaltFrom
        <3>2. Me!SendHalt(p, h)
            BY <1>8, <2>1 DEF Me!ElectAgain, Me!SetUpsIn, Me!HaltWith
        <3> QED
            BY <3>1, <3>2, SendHaltKeeps
    <2>2. CASE q # meLeader[2]
        BY <1>3, <1>4, <1>8, <2>2, SendHaltKeeps DEF Me!ElectAgain, Me!SetUpsIn, Me!HaltWith
    <2> QED
        BY <2>1, <2>2
<1>9. ASSUME NEW p \in Nodes, Me!ElectOnOld(p)
      PROVE  MeInv'
    BY <1>3, <1>4, <1>9, SendHaltKeeps DEF Me!ElectOnOld
<1>10. ASSUME NEW p \in Nodes, NEW q \in Nodes, Me!ReceiveHalt(p, q)
       PROVE  MeInv'
    <2>1. meHalt[q] \in MeHalts /\ HaltFrom(meHalt[q])
        BY <1>10 DEF Me!ReceiveHalt, Me!HaltIn, MeInv, MeTypeOK, HaltsFrom
    <2> QED
        BY <1>10, <2>1, SendHaltKeeps DEF Me!ReceiveHalt, Me!HaltIn
<1>11. ASSUME NEW p \in Nodes, Me!MeSure(p)
       PROVE  MeInv'
    BY <1>6, <1>7, <1>8, <1>10, <1>11, SignKeeps, PrevoteKeeps, VoteKeeps, MeOthersKeep
    DEF Me!MeSure
<1> QED
    BY <1>1, <1>9, <1>11 DEF Me!MeNext

\* Values differ only if a quorum prevoted no and a quorum signed.
LEMMA MeInvAgrees == MeInv => Me!MeAgreeUnlessStale
<1> SUFFICES ASSUME MeInv, NEW p \in Nodes, NEW q \in Nodes,
                    meHalt[p] # None, meHalt[q] # None,
                    meHalt[p].value # meHalt[q].value,
                    ~ meHalt[p].stale, ~ meHalt[q].stale
             PROVE  Prevoted("no") \cap meSigned # {}
    BY MeNumbers DEF Me!MeAgreeUnlessStale
<1> USE DEF MeInv
<1>1. meHalt[p] \in MeHalts /\ meHalt[q] \in MeHalts
    BY DEF MeTypeOK
<1>2. meHalt[p].stale = FALSE /\ meHalt[q].stale = FALSE
    BY <1>1 DEF MeHalts
<1>3. HaltFrom(meHalt[p]) /\ HaltFrom(meHalt[q])
    BY DEF HaltsFrom
<1>4. /\ meSigned \in Quorum \/ Voted("yes") \in Quorum
      /\ meLeader[2] \in meSetUp /\ meMsg # meLeader[1]
    BY <1>2, <1>3 DEF HaltFrom
<1>5. Voted("no") \in Quorum
    BY <1>4 DEF SecondMessage
<1>6. Prevoted("no") \in Quorum
    <2>1. \E n \in Nodes : n \in Voted("no")
        BY <1>5, ThreeQuorumsMeet
    <2> QED
        BY <2>1 DEF NoVotesBacked, Voted
<1>7. meSigned \in Quorum
    <2> SUFFICES ASSUME Voted("yes") \in Quorum
                 PROVE  FALSE
        BY <1>4
    <2>1. \E n \in Nodes : n \in Voted("yes") /\ n \in Voted("no")
        BY <1>5, ThreeQuorumsMeet
    <2> QED
        BY <2>1 DEF Voted
<1>8. \E n \in Nodes : n \in Prevoted("no") /\ n \in meSigned
    BY <1>6, <1>7, ThreeQuorumsMeet
<1> QED
    BY <1>8
-----------------------------------------------------------------------------
(***************************************************************************)
(* What the waits of SpeedMvbaE rest on: a node that left the votes has    *)
(* seen enough of them for the others, and one in round 1 has broadcast.   *)
(***************************************************************************)
HaltedSent == \A p \in Nodes : mePhase[p] = "halted" <=> meHalt[p] # None

VotersPrevoted ==
    \A p \in Nodes : mePhase[p] \in {"voting", "again", "skipped"} => mePrevote[p] # None

AgainSetUp == \A p \in Nodes : mePhase[p] = "again" => p \in meSetUp

SpbcGoesOn == meSpbc \in {"SEND", "READY", "DONE"}

VotesDecide == Voted("no") \in Quorum \/ (Voted("no") # {} /\ Voted("yes") # {})

LeftVoting == \A p \in Nodes : mePhase[p] \in {"again", "skipped"} => VotesDecide

MeWaitInv ==
    HaltedSent /\ VotersPrevoted /\ AgainSetUp /\ SpbcGoesOn /\ LeftVoting

\* No HALT is None.
LEMMA HaltsAreSome == None \notin MeHalts
BY DisseminationAssumption DEF MeHalts

\* The sets of nodes in a phase are counted as here.
LEMMA MeCounts ==
    /\ \A S : Me!Cardinality(S) = Cardinality(S)
    /\ \A b : Me!MeWith(mePhase, b) = {q \in Nodes : mePhase[q] = b}
<1>1. \A S : Me!Cardinality(S) = Cardinality(S)
    BY DEF Me!Cardinality, Cardinality
<1> QED
    BY <1>1 DEF Me!MeWith

\* All nodes wait for the election.
LEMMA MeWaitInit == Me!MeInit => MeWaitInv
BY DEF Me!MeInit, MeWaitInv, HaltedSent, VotersPrevoted, AgainSetUp, SpbcGoesOn, LeftVoting

\* A node that halts broadcasts a HALT.
LEMMA SendHaltWaits ==
    ASSUME MeInv, MeWaitInv, NEW p \in Nodes, NEW h \in MeHalts, Me!SendHalt(p, h)
    PROVE  MeWaitInv'
<1> USE DEF MeWaitInv
<1>1. /\ mePhase' = [mePhase EXCEPT ![p] = "halted"]
      /\ meHalt' = [meHalt EXCEPT ![p] = h]
      /\ UNCHANGED <<meLeader, meSpbc, meSigned, mePrevote, meVote, meSetUp, meMsg>>
    BY DEF Me!SendHalt, Me!meSpbcVars, Me!meVoteVars, Me!meAgainVars
<1>2. \A q \in Nodes : /\ mePhase'[q] = IF q = p THEN "halted" ELSE mePhase[q]
                       /\ meHalt'[q] = IF q = p THEN h ELSE meHalt[q]
    BY <1>1 DEF MeInv, MeTypeOK
<1>3. HaltedSent'
    BY <1>2, HaltsAreSome DEF HaltedSent
<1>4. VotersPrevoted' /\ AgainSetUp' /\ SpbcGoesOn'
    BY <1>1, <1>2 DEF VotersPrevoted, AgainSetUp, SpbcGoesOn
<1>5. LeftVoting'
    BY <1>1, <1>2 DEF LeftVoting, VotesDecide, Voted
<1> QED
    BY <1>3, <1>4, <1>5

\* A node leaves the votes when they are enough for all.
LEMMA LeaveWaits ==
    ASSUME MeInv, MeWaitInv, NEW p \in Nodes, NEW m \in {"again", "skipped"},
           mePhase[p] = "voting", VotesDecide,
           mePhase' = [mePhase EXCEPT ![p] = m],
           meSetUp' = IF m = "again" THEN meSetUp \cup {p} ELSE meSetUp,
           UNCHANGED <<meSpbc, mePrevote, meVote, meHalt>>
    PROVE  MeWaitInv'
<1> USE DEF MeWaitInv
<1>1. \A q \in Nodes : mePhase'[q] = IF q = p THEN m ELSE mePhase[q]
    BY DEF MeInv, MeTypeOK
<1>2. HaltedSent'
    BY <1>1 DEF HaltedSent
<1>3. VotersPrevoted' /\ AgainSetUp' /\ SpbcGoesOn'
    BY <1>1 DEF VotersPrevoted, AgainSetUp, SpbcGoesOn
<1>4. LeftVoting'
    BY <1>1 DEF LeftVoting, VotesDecide, Voted
<1> QED
    BY <1>2, <1>3, <1>4

\* A node prevotes when it leaves the wait for the election.
LEMMA PrevoteWaits ==
    ASSUME MeInv, MeWaitInv, NEW p \in Nodes, Me!MePrevote(p)
    PROVE  MeWaitInv'
<1> USE DEF MeWaitInv
<1>1. PICK b \in {"yes", "no"} :
          /\ mePhase[p] = "spbc"
          /\ mePhase' = [mePhase EXCEPT ![p] = "voting"]
          /\ mePrevote' = [mePrevote EXCEPT ![p] = b]
          /\ UNCHANGED <<meSpbc, meVote, meSetUp, meHalt>>
    BY DEF Me!MePrevote, Me!PrevoteDue, Me!meSpbcVars, Me!meAgainVars
<1>2. \A q \in Nodes : /\ mePhase'[q] = IF q = p THEN "voting" ELSE mePhase[q]
                       /\ mePrevote'[q] = IF q = p THEN b ELSE mePrevote[q]
    BY <1>1 DEF MeInv, MeTypeOK
<1>3. HaltedSent'
    BY <1>1, <1>2 DEF HaltedSent
<1>4. VotersPrevoted' /\ AgainSetUp' /\ SpbcGoesOn'
    BY <1>1, <1>2, DisseminationAssumption DEF VotersPrevoted, AgainSetUp, SpbcGoesOn
<1>5. LeftVoting'
    BY <1>1, <1>2 DEF LeftVoting, VotesDecide, Voted
<1> QED
    BY <1>3, <1>4, <1>5

\* Votes are added, never changed.
LEMMA VoteWaits ==
    ASSUME MeInv, MeWaitInv, NEW p \in Nodes, NEW b \in {"yes", "no"}, Me!MeVote(p, b)
    PROVE  MeWaitInv'
<1> USE DEF MeWaitInv
<1>1. /\ meVote[p] = None
      /\ meVote' = [meVote EXCEPT ![p] = b]
      /\ UNCHANGED <<mePhase, meSpbc, mePrevote, meSetUp, meHalt>>
    BY DEF Me!MeVote, Me!VoteDue, Me!meSpbcVars, Me!meAgainVars
<1>2. ASSUME NEW c \in {"yes", "no"}
      PROVE  Voted(c) \subseteq Voted(c)' /\ Voted(c)' \in SUBSET Nodes
    BY <1>1, DisseminationAssumption DEF MeInv, MeTypeOK, Voted
<1>3. VotesDecide => VotesDecide'
    <2>1. Voted("no") \in Quorum => Voted("no")' \in Quorum
        BY <1>2, QuorumSuperset
    <2> QED
        BY <1>2, <2>1 DEF VotesDecide
<1> QED
    BY <1>1, <1>3 DEF HaltedSent, VotersPrevoted, AgainSetUp, SpbcGoesOn, LeftVoting

\* The steps that change none of it.
LEMMA OthersWait ==
    ASSUME MeWaitInv, UNCHANGED <<mePhase, mePrevote, meVote, meSetUp, meHalt>>,
           meSpbc' \in {"SEND", "READY", "DONE"}
    PROVE  MeWaitInv'
BY DEF MeWaitInv, HaltedSent, VotersPrevoted, AgainSetUp, SpbcGoesOn, LeftVoting, VotesDecide,
    Voted

\* The invariant is inductive with the other.
LEMMA MeWaitStep == MeInv /\ MeWaitInv /\ [Me!MeNext]_Me!meVars => MeWaitInv'
<1> SUFFICES ASSUME MeInv, MeWaitInv, [Me!MeNext]_Me!meVars
             PROVE  MeWaitInv'
    OBVIOUS
<1>1. meLeader[1] \in Nodes /\ meLeader[2] \in Nodes /\ meMsg \in Nodes \cup {None}
    BY DEF MeInv, MeTypeOK
<1>2. Me!FirstHalt \in MeHalts /\ Me!StaleHalt \in MeHalts /\ \A q : Me!HaltWith(q) \in MeHalts
    BY <1>1 DEF Me!FirstHalt, Me!StaleHalt, Me!HaltWith, MeHalts
<1>3. ASSUME NEW p \in Nodes, NEW q \in Nodes,
             \/ Me!Shortcut(p) \/ Me!VotesHalt(p) \/ Me!ElectOnOld(p)
             \/ Me!ElectAgain(p, q) \/ Me!ReceiveHalt(p, q)
      PROVE  MeWaitInv'
    <2>1. meHalt[q] # None => meHalt[q] \in MeHalts
        BY DEF MeInv, MeTypeOK
    <2> QED
        BY <1>2, <1>3, <2>1, SendHaltWaits DEF Me!Shortcut, Me!VotesHalt, Me!ElectOnOld,
            Me!ElectAgain, Me!ReceiveHalt, Me!HaltIn
<1>4. ASSUME NEW p \in Nodes, Me!NextAfterNo(p) \/ Me!NextAfterBoth(p)
      PROVE  MeWaitInv'
    <2>1. mePhase[p] = "voting"
        BY <1>4 DEF Me!NextAfterNo, Me!NosIn, Me!NextAfterBoth, Me!BothIn
    <2>2. /\ mePhase' = [mePhase EXCEPT ![p] = "again"]
          /\ meSetUp' = meSetUp \cup {p}
          /\ UNCHANGED <<meSpbc, mePrevote, meVote, meHalt>>
        BY <1>4 DEF Me!NextAfterNo, Me!NextAfterBoth, Me!EnterRound1, Me!meSpbcVars,
            Me!meVoteVars
    <2>3. VotesDecide
        <3>1. CASE Me!NosIn(p)
            BY <3>1, MeNumbers DEF Me!NosIn, VotesDecide
        <3>2. CASE Me!BothIn(p)
            <4>1. Voted("no") # {} /\ Cardinality(Voted("yes")) >= Me!YesNeeded(p)
                BY <3>2, MeNumbers, MeCounts DEF Me!BothIn
            <4>2. Cardinality(Voted("yes")) # 0
                BY <4>1 DEF Me!YesNeeded
            <4>3. Voted("yes") # {}
                BY <4>2, FS_EmptySet
            <4> QED
                BY <4>1, <4>3 DEF VotesDecide
        <3> QED
            BY <1>4, <3>1, <3>2 DEF Me!NextAfterNo, Me!NextAfterBoth
    <2> QED
        BY <2>1, <2>2, <2>3, LeaveWaits
<1>5. ASSUME NEW p \in Nodes, Me!Skip(p)
      PROVE  MeWaitInv'
    <2>1. mePhase[p] = "voting" /\ VotesDecide
        BY <1>5, MeNumbers DEF Me!Skip, Me!SkipDue, VotesDecide
    <2> QED
        BY <1>5, <2>1, LeaveWaits DEF Me!Skip, Me!meSpbcVars, Me!meVoteVars, Me!meAgainVars
<1>6. ASSUME NEW p \in Nodes, Me!MeReady \/ Me!MeDone \/ Me!MeSign(p) \/ Me!LoseYes(p)
      PROVE  MeWaitInv'
    <2>1. meSpbc \in {"SEND", "READY", "DONE"}
        BY DEF MeWaitInv, SpbcGoesOn
    <2> QED
        BY <1>6, <2>1, OthersWait DEF Me!MeReady, Me!MeDone, Me!MeSign, Me!LoseYes,
            Me!meSpbcVars, Me!meVoteVars, Me!meAgainVars
<1>7. CASE UNCHANGED Me!meVars
    <2>1. meSpbc \in {"SEND", "READY", "DONE"}
        BY DEF MeWaitInv, SpbcGoesOn
    <2> QED
        BY <1>7, <2>1, OthersWait DEF Me!meVars, Me!meSpbcVars, Me!meVoteVars, Me!meAgainVars
<1> QED
    BY <1>3, <1>4, <1>5, <1>6, <1>7, PrevoteWaits, VoteWaits DEF Me!MeNext, Me!MeSure

\* When nothing is left to do and a node has not halted, none has, and all
\* are past the votes.
LEMMA SettledLeft ==
    ASSUME MeInv, MeWaitInv, Me!MeSettled, NEW s \in Nodes, mePhase[s] # "halted"
    PROVE  \A p \in Nodes : mePhase[p] \in {"again", "skipped"}
<1> USE DEF MeInv, MeWaitInv
<1>1. \A p \in Nodes : mePhase[p] \in {"voting", "again", "skipped"} /\ mePrevote[p] # None
    <2> TAKE p \in Nodes
    <2>1. meHalt[p] = None
        BY DEF Me!MeSettled, Me!HaltIn
    <2>2. mePhase[p] # "halted" /\ mePhase[p] # "spbc" /\ mePhase[p] \in MePhases
        BY <2>1 DEF HaltedSent, Me!MeSettled, Me!PrevoteDue, MeTypeOK
    <2>3. mePhase[p] \in {"voting", "again", "skipped"}
        BY <2>2 DEF MePhases
    <2> QED
        BY <2>3 DEF VotersPrevoted
<1> SUFFICES ASSUME NEW p \in Nodes, mePhase[p] = "voting"
             PROVE  FALSE
    BY <1>1
<1>2. Voted("yes") \notin Quorum /\ Voted("no") \notin Quorum
    BY MeNumbers DEF Me!MeSettled, Me!VotesIn, Me!NosIn
<1>3. Voted("no") = {} \/ Voted("yes") = {}
    <2> SUFFICES ASSUME Voted("no") # {}, Voted("yes") # {}
                 PROVE  FALSE
        OBVIOUS
    <2>1. CASE p \in meLost
        BY <2>1, MeNumbers DEF Me!MeSettled, Me!SkipDue
    <2>2. CASE p \notin meLost
        <3>1. Voted("yes") \in SUBSET Nodes
            BY DEF Voted
        <3>2. IsFiniteSet(Voted("yes")) /\ Cardinality(Voted("yes")) \in Nat
            BY <3>1, NodeSets
        <3>3. Cardinality(Voted("yes")) # 0
            BY <3>2, FS_EmptySet
        <3>4. ~ Me!BothIn(p)
            BY DEF Me!MeSettled
        <3> QED
            BY <2>2, <3>2, <3>3, <3>4, MeNumbers, MeCounts DEF Me!BothIn, Me!YesNeeded
    <2> QED
        BY <2>1, <2>2
<1>4. \A q \in Nodes : mePhase[q] = "voting"
    BY <1>1, <1>2, <1>3 DEF LeftVoting, VotesDecide
<1>5. \A q \in Nodes : meVote[q] # None
    <2> SUFFICES ASSUME NEW q \in Nodes, meVote[q] = None
                 PROVE  FALSE
        OBVIOUS
    <2>1. Prevoted("yes") = {} /\ Prevoted("no") \notin Quorum
        BY <1>4, MeNumbers DEF Me!MeSettled, Me!VoteDue
    <2>2. Prevoted("no") = Nodes
        BY <1>1, <2>1 DEF Prevoted, MeTypeOK
    <2> QED
        BY <2>1, <2>2, FaultNumbers
<1>6. Voted("yes") = Nodes \/ Voted("no") = Nodes
    BY <1>3, <1>5 DEF Voted, MeTypeOK
<1> QED
    BY <1>2, <1>6, FaultNumbers

\* Then those who did not skip broadcast in round 1, and go on unless more
\* than f skipped.
LEMMA MeHalting == MeInv /\ MeWaitInv => Me!MeHaltsUnlessSkipped
<1> SUFFICES ASSUME MeInv, MeWaitInv, Me!MeSettled, NEW s \in Nodes, mePhase[s] # "halted"
             PROVE  Cardinality({q \in Nodes : mePhase[q] = "skipped"}) > F
    BY MeCounts DEF Me!MeHaltsUnlessSkipped
<1>1. PICK Skipped : Skipped = {q \in Nodes : mePhase[q] = "skipped"}
    OBVIOUS
<1>2. Skipped \in SUBSET Nodes /\ Cardinality(Skipped) \in Nat
    BY <1>1, NodeSets
<1> SUFFICES ASSUME Cardinality(Skipped) <= F
             PROVE  FALSE
    BY <1>1, <1>2, FaultNumbers
<1>3. Nodes \ Skipped \in Quorum
    BY <1>2, LiveNodes
<1>4. Nodes \ Skipped \subseteq meSetUp
    BY <1>1, SettledLeft DEF MeWaitInv, AgainSetUp
<1>5. meSetUp \in Quorum
    <2>1. meSetUp \in SUBSET Nodes
        BY DEF MeInv, MeTypeOK
    <2> QED
        BY <1>3, <1>4, <2>1, QuorumSuperset
<1>6. PICK p \in Nodes : p \in Nodes \ Skipped
    BY <1>3, ThreeQuorumsMeet
<1>7. mePhase[p] = "again" /\ p \in meSetUp
    BY <1>1, <1>4, <1>6, SettledLeft
<1> QED
    BY <1>5, <1>7, MeNumbers DEF Me!MeSettled, Me!SetUpsIn
-----------------------------------------------------------------------------
(***************************************************************************)
(* SuperFallback.  The leader proposes a slot on the votes of all nodes,   *)
(* so every node is in the last slot proposed or the next one; a leader    *)
(* that leaves its fast path has made the block of the last proposed slot  *)
(* its tip.  It goes on to Bolt with 2f + 1 votes for it, which are N - f  *)
(* when N = 3f + 1: this is where the proof needs it.                      *)
(***************************************************************************)
SfModes ==
    {"fast", "raised", "done", "timeout", "bolt", "end", "hangs", "stats", "failed"}

SfTypeOK ==
    /\ sfRun \in {"sufallback", "superfast"}
    /\ sfLeader \in Nodes /\ sfLeader \notin sfMuted
    /\ sfSlot \in [Nodes -> Nat]
    /\ sfProposed \in Nat
    /\ sfVoters \in [1 .. Sf!SfLast -> SUBSET Nodes]
    /\ sfQueued \subseteq Nodes
    /\ sfMode \in [Nodes -> SfModes]
    /\ sfFirst \in Nat

\* Who voted in a slot reached it, and who has an item has not left its slot.
SlotsReached ==
    /\ \A p \in Nodes, s \in 1 .. Sf!SfLast : <<p, s>> \in sfVotes => s <= sfSlot[p]
    /\ \A s \in 1 .. Sf!SfLast : \A p \in sfVoters[s] : s <= sfSlot[p]
    /\ \A p \in sfQueued : sfSlot[p] <= sfProposed

SlotsNear ==
    \A p \in Nodes :
        /\ sfSlot[p] <= sfProposed + 1
        /\ sfRun = "sufallback" => sfProposed <= sfSlot[p]

LeaderInFast ==
    sfMode[sfLeader] = "fast" =>
        /\ sfSlot[sfLeader] \in 1 .. Sf!SfLast
        /\ sfProposed = IF sfLeader \in sfQueued THEN sfSlot[sfLeader] ELSE sfSlot[sfLeader] - 1

LeaderLeft ==
    sfRun = "sufallback" /\ sfMode[sfLeader] \in {"timeout", "bolt", "end"} =>
        /\ sfSlot[sfLeader] \in 1 .. Sf!SfLast
        /\ sfProposed = sfSlot[sfLeader] - 1

InSlot(s) == {p \in Nodes : s <= sfSlot[p]}

TipHeld ==
    sfRun = "sufallback" /\ sfMode[sfLeader] \in {"bolt", "end"} =>
        InSlot(sfSlot[sfLeader]) \in Quorum

FirstIsTip ==
    /\ \A p \in Nodes :
          /\ sfMode[p] = "bolt" => sfRun = "sufallback"
          /\ sfMode[p] = "stats" => sfRun = "superfast"
    /\ sfFirst > 0 =>
          /\ sfRun = "sufallback" /\ sfMode[sfLeader] \in {"bolt", "end"}
          /\ sfFirst = sfSlot[sfLeader] - 1

SfInv ==
    /\ SfTypeOK
    /\ SlotsReached
    /\ SlotsNear
    /\ LeaderInFast
    /\ LeaderLeft
    /\ TipHeld
    /\ FirstIsTip

\* Quorums are the same sets in SuperFallback and here.
LEMMA SfNumbers ==
    /\ Sf!N = N
    /\ Sf!Quorum = Quorum
    /\ \A S : Sf!Cardinality(S) = Cardinality(S)
    /\ Sf!SfLast \in Nat /\ Sf!SfLast = SfSlots + 1 /\ 1 \in 1 .. Sf!SfLast
<1>1. \A S : Sf!Cardinality(S) = Cardinality(S)
    BY DEF Sf!Cardinality, Cardinality
<1>2. Sf!N = N
    BY <1>1 DEF Sf!N, N
<1>3. Sf!SfLast \in Nat /\ Sf!SfLast = SfSlots + 1 /\ 1 \in 1 .. Sf!SfLast
    BY DisseminationAssumption DEF Sf!SfLast
<1> QED
    BY <1>1, <1>2, <1>3 DEF Sf!Quorum, Quorum

\* All nodes are on the fast path at slot 1, with no votes counted.
LEMMA SfInitInv == Sf!SfInit => SfInv
<1> SUFFICES ASSUME Sf!SfInit
             PROVE  SfInv
    OBVIOUS
<1> USE DEF Sf!SfInit
<1>1. SfTypeOK
    <2>1. sfLeader \notin sfMuted
        OBVIOUS
    <2>2. sfVoters \in [1 .. Sf!SfLast -> SUBSET Nodes]
        OBVIOUS
    <2> QED
        BY <2>1, <2>2 DEF SfTypeOK, SfModes
<1>2. SlotsReached
    <2>1. \A s \in 1 .. Sf!SfLast : \A p \in sfVoters[s] : s <= sfSlot[p]
        BY SfNumbers
    <2>2. \A p \in Nodes, s \in 1 .. Sf!SfLast : <<p, s>> \in sfVotes => s <= sfSlot[p]
        OBVIOUS
    <2> QED
        BY <2>1, <2>2 DEF SlotsReached
<1>3. SlotsNear
    BY DEF SlotsNear
<1>4. LeaderInFast
    BY <1>1, SfNumbers DEF LeaderInFast, SfTypeOK
<1>5. LeaderLeft /\ TipHeld /\ FirstIsTip
    BY DEF LeaderLeft, TipHeld, FirstIsTip
<1> QED
    BY <1>1, <1>2, <1>3, <1>4, <1>5 DEF SfInv

\* A node leaves its fast path, or goes on after it.
LEMMA ModeKeeps ==
    ASSUME SfInv, NEW p \in Nodes, NEW m \in SfModes, m # "fast",
           sfMode' = [sfMode EXCEPT ![p] = m],
           UNCHANGED <<sfRun, sfLeader, sfMuted, sfSlot, sfVotes, sfVoters, sfQueued, sfProposed,
                       sfFirst>>,
           m = "bolt" => sfRun = "sufallback",
           m = "stats" => sfRun = "superfast",
           p = sfLeader /\ sfRun = "sufallback" /\ m \in {"timeout", "bolt", "end"} =>
               sfSlot[p] \in 1 .. Sf!SfLast /\ sfProposed = sfSlot[p] - 1,
           p = sfLeader /\ sfRun = "sufallback" /\ m \in {"bolt", "end"} =>
               InSlot(sfSlot[p]) \in Quorum,
           p = sfLeader /\ sfFirst > 0 => m \in {"bolt", "end"}
    PROVE  SfInv'
<1> USE DEF SfInv
<1>1. SfTypeOK'
    BY DEF SfTypeOK
<1>2. SlotsReached' /\ SlotsNear'
    BY DEF SlotsReached, SlotsNear
<1>3. sfMode'[p] = m /\ \A q \in Nodes : q # p => sfMode'[q] = sfMode[q]
    BY DEF SfTypeOK
<1>4. sfLeader \in Nodes
    BY DEF SfTypeOK
<1>5. LeaderInFast' /\ LeaderLeft'
    BY <1>3, <1>4 DEF LeaderInFast, LeaderLeft
<1>6. TipHeld'
    BY <1>3, <1>4 DEF TipHeld, InSlot
<1>7. FirstIsTip'
    BY <1>3, <1>4 DEF FirstIsTip
<1> QED
    BY <1>1, <1>2, <1>5, <1>6, <1>7

\* The 2f + 1 votes the leader needs are those of N - f nodes that reached its
\* slot.
LEMMA CertifiedHeld ==
    ASSUME N = 3 * F + 1, SfInv, sfSlot[sfLeader] \in 1 .. Sf!SfLast, Sf!Certified
    PROVE  InSlot(sfSlot[sfLeader]) \in Quorum
<1> DEFINE voters == sfVoters[sfSlot[sfLeader]]
<1>1. voters \in SUBSET Nodes
    BY DEF SfInv, SfTypeOK
<1>2. Cardinality(voters) >= 2 * F + 1
    BY SfNumbers DEF Sf!Certified
<1>3. voters \in Quorum
    BY <1>1, <1>2, FaultNumbers DEF Quorum
<1>4. voters \subseteq InSlot(sfSlot[sfLeader]) /\ InSlot(sfSlot[sfLeader]) \in SUBSET Nodes
    BY <1>1 DEF SfInv, SlotsReached, InSlot
<1> QED
    BY <1>3, <1>4, QuorumSuperset

\* Time-outs, ends of waits and exceptions move a node on, but change no chain.
LEMMA SfModesKeep ==
    ASSUME N = 3 * F + 1, SfInv, NEW p \in Nodes,
           \/ Sf!TimeOut(p) \/ Sf!Resume(p) \/ Sf!UnpackFails(p)
           \/ Sf!BoltRaises(p) \/ Sf!BoltEnds(p) \/ Sf!SendStats(p) \/ Sf!StatsFail(p)
           \/ p = sfLeader /\ Sf!AllStats
    PROVE  SfInv'
<1> USE DEF SfInv, Sf!sfConst, Sf!sfPath
<1>1. CASE Sf!TimeOut(p)
    <2>1. /\ sfMode[p] = "fast" /\ p \notin sfQueued
          /\ sfMode' = [sfMode EXCEPT ![p] = "timeout"]
          /\ UNCHANGED <<sfRun, sfLeader, sfMuted, sfSlot, sfVotes, sfVoters, sfQueued,
                         sfProposed, sfFirst>>
        BY <1>1 DEF Sf!TimeOut, Sf!TimeOutDue, Sf!InFast
    <2>2. p = sfLeader => sfSlot[p] \in 1 .. Sf!SfLast /\ sfProposed = sfSlot[p] - 1
        BY <2>1 DEF LeaderInFast
    <2>3. ~ (p = sfLeader /\ sfFirst > 0)
        BY <2>1 DEF FirstIsTip
    <2> QED
        BY <2>1, <2>2, <2>3, ModeKeeps DEF SfModes
<1>2. CASE Sf!Resume(p)
    <2>1. PICK m \in {"end", "bolt"} :
              /\ sfRun = "sufallback" /\ sfMode[p] = "timeout"
              /\ p = sfLeader => Sf!Certified /\ m = "bolt"
              /\ sfMode' = [sfMode EXCEPT ![p] = m]
              /\ UNCHANGED <<sfRun, sfLeader, sfMuted, sfSlot, sfVotes, sfVoters, sfQueued,
                             sfProposed, sfFirst>>
        BY <1>2 DEF Sf!Resume, Sf!ResumeDue, SfTypeOK
    <2>2. p = sfLeader => sfSlot[p] \in 1 .. Sf!SfLast /\ sfProposed = sfSlot[p] - 1
        BY <2>1 DEF LeaderLeft
    <2>3. p = sfLeader => InSlot(sfSlot[p]) \in Quorum
        BY <2>1, <2>2, CertifiedHeld
    <2> QED
        BY <2>1, <2>2, <2>3, ModeKeeps DEF SfModes
<1>3. CASE Sf!UnpackFails(p)
    <2>1. /\ sfMode[p] = "done"
          /\ sfMode' = [sfMode EXCEPT ![p] = "hangs"]
          /\ UNCHANGED <<sfRun, sfLeader, sfMuted, sfSlot, sfVotes, sfVoters, sfQueued,
                         sfProposed, sfFirst>>
        BY <1>3 DEF Sf!UnpackFails, Sf!UnpackDue
    <2>2. ~ (p = sfLeader /\ sfFirst > 0)
        BY <2>1 DEF FirstIsTip
    <2> QED
        BY <2>1, <2>2, ModeKeeps DEF SfModes
<1>4. CASE Sf!BoltRaises(p) \/ Sf!BoltEnds(p)
    <2>1. /\ sfMode[p] = "bolt"
          /\ sfMode' = [sfMode EXCEPT ![p] = "end"]
          /\ UNCHANGED <<sfRun, sfLeader, sfMuted, sfSlot, sfVotes, sfVoters, sfQueued,
                         sfProposed, sfFirst>>
        BY <1>4 DEF Sf!BoltRaises, Sf!BoltRaiseDue, Sf!BoltEnds, Sf!BoltEndDue
    <2>2. p = sfLeader /\ sfRun = "sufallback" =>
              /\ sfSlot[p] \in 1 .. Sf!SfLast /\ sfProposed = sfSlot[p] - 1
              /\ InSlot(sfSlot[p]) \in Quorum
        BY <2>1 DEF LeaderLeft, TipHeld
    <2> QED
        BY <2>1, <2>2, ModeKeeps DEF SfModes
<1>5. CASE Sf!SendStats(p) \/ Sf!StatsFail(p)
    <2>1. PICK m \in {"stats", "end", "failed"} :
              /\ sfRun = "superfast"
              /\ sfMode' = [sfMode EXCEPT ![p] = m]
              /\ UNCHANGED <<sfRun, sfLeader, sfMuted, sfSlot, sfVotes, sfVoters, sfQueued,
                             sfProposed, sfFirst>>
        BY <1>5 DEF Sf!SendStats, Sf!StatsFail, Sf!NoNumbers, Sf!StatsDue
    <2>2. ~ (sfFirst > 0)
        BY <2>1 DEF FirstIsTip
    <2> QED
        BY <2>1, <2>2, ModeKeeps DEF SfModes
<1>6. CASE p = sfLeader /\ Sf!AllStats
    <2>1. /\ sfMode[p] = "stats"
          /\ sfMode' = [sfMode EXCEPT ![p] = "end"]
          /\ UNCHANGED <<sfRun, sfLeader, sfMuted, sfSlot, sfVotes, sfVoters, sfQueued,
                         sfProposed, sfFirst>>
        BY <1>6 DEF Sf!AllStats, Sf!AllStatsIn
    <2>2. sfRun = "superfast" /\ ~ (sfFirst > 0)
        BY <2>1 DEF FirstIsTip
    <2> QED
        BY <2>1, <2>2, ModeKeeps DEF SfModes
<1> QED
    BY <1>1, <1>2, <1>3, <1>4, <1>5, <1>6

\* A vote is counted for a slot its node reached; the vote of the last node
\* makes the leader propose the slot, which then all nodes have reached.
LEMMA VoteCounted ==
    ASSUME SfInv, NEW p \in Nodes, NEW s \in 1 .. Sf!SfLast, Sf!HandleVote(p, s)
    PROVE  SfInv'
<1> USE DEF SfInv
<1> DEFINE voters == sfVoters[s] \cup {p}
<1>1. /\ sfMode[sfLeader] = "fast" /\ <<p, s>> \in sfVotes
      /\ sfVotes' = sfVotes \ {<<p, s>>}
      /\ UNCHANGED <<sfRun, sfLeader, sfMuted, sfSlot, sfMode, sfFirst>>
      /\ \/ UNCHANGED <<sfVoters, sfProposed, sfQueued>>
         \/ /\ s = sfSlot[sfLeader]
            /\ sfVoters' = [sfVoters EXCEPT ![s] = voters]
            /\ UNCHANGED <<sfProposed, sfQueued>>
         \/ /\ s = sfSlot[sfLeader] /\ Cardinality(voters) = Sf!AllVotes /\ sfProposed < s
            /\ sfVoters' = [sfVoters EXCEPT ![s] = voters]
            /\ sfProposed' = s /\ sfQueued' = sfQueued \cup {sfLeader}
    BY SfNumbers DEF Sf!HandleVote, Sf!VoteIn, Sf!InFast, Sf!sfConst
<1>2. s \in Nat /\ \A q \in Nodes : sfSlot[q] \in Nat
    BY SfNumbers DEF SfTypeOK
<1>3. sfVoters[s] \in SUBSET Nodes /\ \A q \in voters : q \in Nodes /\ s <= sfSlot[q]
    BY <1>1 DEF SfTypeOK, SlotsReached
<1>4. /\ sfVoters' \in [1 .. Sf!SfLast -> SUBSET Nodes]
      /\ \A t \in 1 .. Sf!SfLast : \A q \in sfVoters'[t] : t <= sfSlot[q]
    <2>1. CASE UNCHANGED sfVoters
        BY <2>1 DEF SfTypeOK, SlotsReached
    <2>2. CASE sfVoters' = [sfVoters EXCEPT ![s] = voters]
        BY <1>3, <2>2 DEF SfTypeOK, SlotsReached
    <2> QED
        BY <1>1, <2>1, <2>2
<1>5. \A t \in 1 .. Sf!SfLast, q \in Nodes : <<q, t>> \in sfVotes' => t <= sfSlot[q]
    BY <1>1 DEF SlotsReached
<1>6. TipHeld' /\ FirstIsTip'
    BY <1>1 DEF TipHeld, FirstIsTip, InSlot
<1>7. CASE UNCHANGED <<sfProposed, sfQueued>>
    <2>1. SfTypeOK' /\ SlotsNear' /\ LeaderInFast' /\ LeaderLeft'
        BY <1>1, <1>4, <1>7 DEF SfTypeOK, SlotsNear, LeaderInFast, LeaderLeft
    <2>2. SlotsReached'
        BY <1>1, <1>4, <1>5, <1>7 DEF SlotsReached
    <2> QED
        BY <1>6, <2>1, <2>2
<1>8. CASE /\ s = sfSlot[sfLeader] /\ Cardinality(voters) = Sf!AllVotes /\ sfProposed < s
           /\ sfProposed' = s /\ sfQueued' = sfQueued \cup {sfLeader}
    <2>1. sfLeader \in Nodes /\ sfProposed \in Nat
        BY DEF SfTypeOK
    <2>2. SfTypeOK'
        BY <1>1, <1>2, <1>4, <1>8, <2>1 DEF SfTypeOK
    <2>3. SlotsReached'
        <3>1. ASSUME NEW q \in sfQueued'
              PROVE  sfSlot[q] <= sfProposed'
            <4>1. CASE q = sfLeader
                BY <1>2, <1>8, <4>1
            <4>2. CASE q \in sfQueued
                <5>1. sfSlot[q] <= sfProposed /\ q \in Nodes
                    BY <4>2 DEF SlotsReached, SfTypeOK
                <5> QED
                    BY <1>2, <1>8, <2>1, <5>1
            <4> QED
                BY <1>8, <4>1, <4>2
        <3> QED
            BY <1>1, <1>4, <1>5, <3>1 DEF SlotsReached
    <2>4. SlotsNear'
        <3> SUFFICES ASSUME NEW q \in Nodes
                     PROVE  /\ sfSlot[q] <= s + 1
                            /\ sfRun = "sufallback" => s <= sfSlot[q]
            BY <1>1, <1>8 DEF SlotsNear
        <3>1. sfSlot[q] <= s + 1
            BY <1>2, <1>8, <2>1 DEF SlotsNear
        <3>2. ASSUME sfRun = "sufallback"
              PROVE  s <= sfSlot[q]
            <4>1. Cardinality(voters) = N
                BY <1>8, <3>2, SfNumbers DEF Sf!AllVotes
            <4>2. voters \subseteq Nodes
                BY <1>3
            <4>3. voters = Nodes
                BY <4>1, <4>2, FaultAssumption, FS_Subset DEF N
            <4> QED
                BY <1>3, <4>3
        <3> QED
            BY <3>1, <3>2
    <2>5. LeaderInFast' /\ LeaderLeft'
        BY <1>1, <1>8 DEF LeaderInFast, LeaderLeft
    <2> QED
        BY <1>6, <2>2, <2>3, <2>4, <2>5
<1> QED
    BY <1>1, <1>7, <1>8

\* Only a PROPOSE that was sent is queued, at a node other than the leader.
LEMMA ProposeTaken ==
    ASSUME SfInv, NEW p \in Nodes, Sf!HandlePropose(p)
    PROVE  SfInv'
<1> USE DEF SfInv
<1>1. /\ p # sfLeader /\ sfSlot[p] <= sfProposed
      /\ sfQueued' = sfQueued \cup {p}
      /\ UNCHANGED <<sfRun, sfLeader, sfMuted, sfSlot, sfVotes, sfVoters, sfProposed, sfMode,
                     sfFirst>>
    BY DEF Sf!HandlePropose, Sf!ProposeIn, Sf!sfConst
<1>2. SfTypeOK' /\ SlotsReached'
    BY <1>1 DEF SfTypeOK, SlotsReached
<1>3. SlotsNear' /\ LeaderInFast' /\ LeaderLeft' /\ TipHeld' /\ FirstIsTip'
    BY <1>1 DEF SlotsNear, LeaderInFast, LeaderLeft, TipHeld, FirstIsTip, InSlot
<1> QED
    BY <1>2, <1>3

\* The node is past a slot that was proposed, and votes in the next one.
LEMMA SlotDone ==
    ASSUME SfInv, NEW p \in Nodes, Sf!OneSlot(p)
    PROVE  SfInv'
<1> USE DEF SfInv
<1> DEFINE s == sfSlot[p]
<1>1. /\ sfMode[p] = "fast" /\ p \in sfQueued
      /\ sfQueued' = sfQueued \ {p}
      /\ UNCHANGED <<sfRun, sfLeader, sfMuted, sfProposed, sfFirst>>
    BY DEF Sf!OneSlot, Sf!SlotDue, Sf!InFast, Sf!sfConst
<1>2. sfLeader \in Nodes /\ s \in Nat /\ sfProposed \in Nat /\ s <= sfProposed
      /\ \A q \in Nodes : sfSlot[q] \in Nat
    BY <1>1 DEF SfTypeOK, SlotsReached
<1>3. sfFirst > 0 => p # sfLeader
    BY <1>1 DEF FirstIsTip
<1>4. CASE sfMode' = [sfMode EXCEPT ![p] = "raised"] /\ UNCHANGED <<sfSlot, sfVotes, sfVoters>>
    <2>1. SfTypeOK'
        BY <1>1, <1>4 DEF SfTypeOK, SfModes
    <2>2. SlotsReached' /\ SlotsNear'
        BY <1>1, <1>4 DEF SlotsReached, SlotsNear
    <2>3. sfMode'[p] = "raised" /\ \A q \in Nodes : q # p => sfMode'[q] = sfMode[q]
        BY <1>4 DEF SfTypeOK
    <2>4. LeaderInFast' /\ LeaderLeft'
        BY <1>1, <1>2, <1>4, <2>3 DEF LeaderInFast, LeaderLeft
    <2>5. TipHeld' /\ FirstIsTip'
        BY <1>1, <1>2, <1>3, <1>4, <2>3 DEF TipHeld, FirstIsTip, InSlot
    <2> QED
        BY <2>1, <2>2, <2>4, <2>5
<1>5. CASE /\ sfSlot' = [sfSlot EXCEPT ![p] = s + 1]
           /\ sfMode' = [sfMode EXCEPT ![p] = IF s = Sf!SfLast THEN "done" ELSE "fast"]
           /\ \/ UNCHANGED <<sfVotes, sfVoters>>
              \/ /\ s # Sf!SfLast
                 /\ sfVotes' = sfVotes \cup {<<p, s + 1>>} /\ UNCHANGED sfVoters
              \/ /\ s # Sf!SfLast /\ p = sfLeader
                 /\ UNCHANGED sfVotes
                 /\ \/ sfVoters' = [sfVoters EXCEPT ![s + 1] = @ \cup {p}]
                    \/ sfVoters' = [sfVoters EXCEPT ![s + 1] = @]
    <2>1. /\ sfSlot'[p] = s + 1 /\ \A q \in Nodes : q # p => sfSlot'[q] = sfSlot[q]
          /\ \A q \in Nodes : sfSlot'[q] \in Nat /\ sfSlot[q] <= sfSlot'[q]
        BY <1>2, <1>5 DEF SfTypeOK
    <2>2. /\ sfMode'[p] \in {"done", "fast"} /\ (sfMode'[p] = "fast" => s # Sf!SfLast)
          /\ \A q \in Nodes : q # p => sfMode'[q] = sfMode[q]
        BY <1>5 DEF SfTypeOK
    <2>3. /\ sfVoters' \in [1 .. Sf!SfLast -> SUBSET Nodes]
          /\ \A t \in 1 .. Sf!SfLast : \A q \in sfVoters'[t] :
                 q \in sfVoters[t] \/ (t = s + 1 /\ q = p)
        BY <1>5 DEF SfTypeOK
    <2>4. SfTypeOK'
        BY <1>1, <1>5, <2>1, <2>3 DEF SfTypeOK, SfModes
    <2>5. SlotsReached'
        <3>1. ASSUME NEW t \in 1 .. Sf!SfLast, NEW q \in Nodes,
                     <<q, t>> \in sfVotes' \/ q \in sfVoters'[t]
              PROVE  t <= sfSlot'[q]
            <4>1. CASE q = p /\ t = s + 1
                BY <1>2, <2>1, <4>1
            <4>2. CASE <<q, t>> \in sfVotes \/ q \in sfVoters[t]
                <5>1. t <= sfSlot[q] /\ t \in Nat
                    BY <4>2, SfNumbers DEF SlotsReached
                <5> QED
                    BY <1>2, <2>1, <5>1
            <4> QED
                BY <1>5, <2>3, <3>1, <4>1, <4>2
        <3>2. \A q \in sfQueued' : sfSlot'[q] <= sfProposed
            BY <1>1, <2>1 DEF SlotsReached, SfTypeOK
        <3>3. \A t \in 1 .. Sf!SfLast : \A q \in sfVoters'[t] : q \in Nodes
            BY <2>3
        <3> QED
            BY <1>1, <3>1, <3>2, <3>3 DEF SlotsReached
    <2>6. SlotsNear'
        <3>1. \A q \in Nodes : sfSlot'[q] <= sfProposed + 1
            BY <1>2, <2>1 DEF SlotsNear
        <3>2. sfRun = "sufallback" => \A q \in Nodes : sfProposed <= sfSlot'[q]
            BY <1>2, <2>1 DEF SlotsNear
        <3> QED
            BY <1>1, <3>1, <3>2 DEF SlotsNear
    <2>7. LeaderInFast' /\ LeaderLeft'
        <3>1. CASE p = sfLeader
            <4>1. s \in 1 .. Sf!SfLast /\ sfProposed = s
                BY <1>1, <3>1 DEF LeaderInFast
            <4>2. s # Sf!SfLast => s + 1 \in 1 .. Sf!SfLast
                BY <4>1, SfNumbers
            <4>3. p \notin sfQueued' /\ (s + 1) - 1 = s
                BY <1>1, <1>2
            <4> QED
                BY <1>1, <2>1, <2>2, <3>1, <4>1, <4>2, <4>3 DEF LeaderInFast, LeaderLeft
        <3>2. CASE p # sfLeader
            BY <1>1, <1>2, <2>1, <2>2, <3>2 DEF LeaderInFast, LeaderLeft
        <3> QED
            BY <3>1, <3>2
    <2>8. TipHeld'
        <3> SUFFICES ASSUME sfRun = "sufallback", sfMode'[sfLeader] \in {"bolt", "end"}
                     PROVE  InSlot(sfSlot[sfLeader])' \in Quorum
            BY <1>1 DEF TipHeld, InSlot
        <3>1. p # sfLeader
            BY <2>2
        <3>2. InSlot(sfSlot[sfLeader]) \in Quorum
            BY <1>2, <2>2, <3>1 DEF TipHeld
        <3>3. InSlot(sfSlot[sfLeader]) \subseteq InSlot(sfSlot[sfLeader])'
              /\ InSlot(sfSlot[sfLeader])' \in SUBSET Nodes
            BY <1>1, <1>2, <2>1, <3>1 DEF InSlot
        <3> QED
            BY <3>2, <3>3, QuorumSuperset
    <2>9. FirstIsTip'
        BY <1>1, <1>2, <1>3, <2>1, <2>2 DEF FirstIsTip
    <2> QED
        BY <2>4, <2>5, <2>6, <2>7, <2>8, <2>9
<1> QED
    BY <1>4, <1>5 DEF Sf!OneSlot, Sf!SlotDue

\* Bolt starts from the leader's tip.
LEMMA BoltKeeps ==
    ASSUME SfInv,
           Sf!BoltFirst \/ \E p \in Nodes : Sf!BoltSlot1(p) \/ Sf!BoltSlot2(p)
    PROVE  SfInv'
<1> USE DEF SfInv, Sf!sfConst, Sf!sfPath
<1>1. CASE Sf!BoltFirst
    <2>1. /\ sfMode[sfLeader] = "bolt" /\ sfFirst' = sfSlot[sfLeader] - 1
          /\ sfSlot[sfLeader] - 1 > 0
          /\ UNCHANGED <<sfRun, sfLeader, sfMuted, sfSlot, sfVotes, sfVoters, sfQueued,
                         sfProposed, sfMode>>
        BY <1>1 DEF Sf!BoltFirst, Sf!FirstDue, Sf!Tip
    <2>2. sfSlot[sfLeader] \in Nat /\ sfRun = "sufallback"
        BY <2>1 DEF SfTypeOK, FirstIsTip
    <2>3. SfTypeOK' /\ SlotsReached' /\ SlotsNear' /\ LeaderInFast' /\ LeaderLeft' /\ TipHeld'
        BY <2>1, <2>2 DEF SfTypeOK, SlotsReached, SlotsNear, LeaderInFast, LeaderLeft, TipHeld,
                          InSlot
    <2>4. FirstIsTip'
        BY <2>1, <2>2 DEF FirstIsTip
    <2> QED
        BY <2>3, <2>4
<1>2. ASSUME NEW p \in Nodes, Sf!BoltSlot1(p) \/ Sf!BoltSlot2(p)
      PROVE  SfInv'
    <2>1. UNCHANGED <<sfRun, sfLeader, sfMuted, sfSlot, sfVotes, sfVoters, sfQueued, sfProposed,
                      sfMode, sfFirst>>
        BY <1>2 DEF Sf!BoltSlot1, Sf!BoltSlot1Due, Sf!BoltSlot2, Sf!BoltSlot2Due
    <2> QED
        BY <2>1 DEF SfTypeOK, SlotsReached, SlotsNear, LeaderInFast, LeaderLeft, TipHeld,
                    FirstIsTip, InSlot
<1> QED
    BY <1>1, <1>2

\* Every step of BDT+ keeps the invariant.
LEMMA SfStepInv ==
    ASSUME N = 3 * F + 1
    PROVE  SfInv /\ [Sf!SfNext]_Sf!sfVars => SfInv'
<1> SUFFICES ASSUME SfInv, [Sf!SfNext]_Sf!sfVars
             PROVE  SfInv'
    OBVIOUS
<1>1. ASSUME NEW p \in Nodes, NEW s \in 1 .. Sf!SfLast, Sf!HandleVote(p, s)
      PROVE  SfInv'
    BY <1>1, VoteCounted
<1>2. ASSUME NEW p \in Nodes, Sf!HandlePropose(p)
      PROVE  SfInv'
    BY <1>2, ProposeTaken
<1>3. ASSUME NEW p \in Nodes, Sf!OneSlot(p)
      PROVE  SfInv'
    BY <1>3, SlotDone
<1>4. ASSUME NEW p \in Nodes,
             \/ Sf!TimeOut(p) \/ Sf!Resume(p) \/ Sf!UnpackFails(p)
             \/ Sf!BoltRaises(p) \/ Sf!BoltEnds(p) \/ Sf!SendStats(p) \/ Sf!StatsFail(p)
      PROVE  SfInv'
    BY <1>4, SfModesKeep
<1>5. CASE Sf!AllStats
    <2>1. sfLeader \in Nodes
        BY DEF SfInv, SfTypeOK
    <2> QED
        BY <1>5, <2>1, SfModesKeep
<1>6. CASE Sf!BoltFirst \/ \E p \in Nodes : Sf!BoltSlot1(p) \/ Sf!BoltSlot2(p)
    BY <1>6, BoltKeeps
<1>7. CASE UNCHANGED Sf!sfVars
    BY <1>7 DEF Sf!sfVars, Sf!sfConst, Sf!sfPath, SfInv, SfTypeOK, SlotsReached, SlotsNear,
                LeaderInFast, LeaderLeft, TipHeld, FirstIsTip, InSlot
<1> QED
    BY <1>1, <1>2, <1>3, <1>4, <1>5, <1>6, <1>7 DEF Sf!SfNext

\* Every node is in the leader's last slot or the one before; N - f nodes are
\* in the leader's.
LEMMA SfInvKeepsFixed == SfInv => Sf!FallbackKeepsFixed
<1> SUFFICES ASSUME SfInv, sfFirst > 0
             PROVE  /\ \A p \in Nodes : Sf!Tip(p) <= sfFirst /\ Sf!Tip(p) >= sfFirst - 1
                    /\ {p \in Nodes : Sf!Tip(p) = sfFirst} \in Quorum
    BY SfNumbers DEF Sf!FallbackKeepsFixed
<1> USE DEF SfInv
<1>1. /\ sfRun = "sufallback" /\ sfMode[sfLeader] \in {"bolt", "end"}
      /\ sfFirst = sfSlot[sfLeader] - 1
    BY DEF FirstIsTip
<1>2. sfLeader \in Nodes /\ sfProposed \in Nat /\ \A p \in Nodes : sfSlot[p] \in Nat
    BY DEF SfTypeOK
<1>3. sfProposed = sfFirst
    BY <1>1 DEF LeaderLeft
<1>4. \A p \in Nodes : sfFirst <= sfSlot[p] /\ sfSlot[p] <= sfFirst + 1
    BY <1>1, <1>3 DEF SlotsNear
<1>5. InSlot(sfSlot[sfLeader]) \in Quorum
    BY <1>1 DEF TipHeld
<1>6. InSlot(sfSlot[sfLeader]) = {p \in Nodes : Sf!Tip(p) = sfFirst}
    BY <1>1, <1>2, <1>3, <1>4 DEF InSlot, Sf!Tip
<1> QED
    BY <1>2, <1>3, <1>4, <1>5, <1>6 DEF Sf!Tip
-----------------------------------------------------------------------------
(***************************************************************************)
(* What the waits of SuperFallback rest on, for all numbers of nodes: how  *)
(* each node came to the mode it is in.                                    *)
(***************************************************************************)
WaitTypeOK ==
    /\ sfRun \in {"sufallback", "superfast"}
    /\ sfLeader \in Nodes
    /\ sfSupply \in {0, SfSlots}
    /\ sfSlot \in [Nodes -> Nat \ {0}]
    /\ sfMode \in [Nodes -> SfModes]
    /\ sfFirst \in Nat
    /\ sfBolt \in [Nodes -> 1 .. 3]
    /\ sfStats \subseteq Nodes

\* Where each mode is entered, and in which run.
ModesFit ==
    \A p \in Nodes :
        /\ sfMode[p] = "fast" => sfSlot[p] <= Sf!SfLast
        /\ sfMode[p] \in {"done", "hangs"} => sfSlot[p] = Sf!SfLast + 1
        /\ sfMode[p] = "raised" => sfSupply = 0 /\ sfSupply < SfStatFrom
        /\ sfMode[p] \in {"bolt", "hangs"} => sfRun = "sufallback"
        /\ sfMode[p] = "stats" => p = sfLeader /\ sfRun = "superfast"
        /\ sfMode[p] = "failed" => sfRun = "superfast" /\ Sf!HasFixed(p)

\* Too few transactions for the statistics leave none to gather.
FewTransactions ==
    sfSupply < SfStatFrom => \A p \in Nodes : sfSlot[p] - 1 <= SfStatFrom

\* The leader of Bolt opens it before anyone is in its second slot.
BoltOpened == \A p \in Nodes : sfBolt[p] > 1 => sfFirst > 0

StatsSent ==
    \A p \in Nodes :
        sfRun = "superfast" /\ sfMode[p] \in {"stats", "end"} /\ Sf!HasFixed(p) => p \in sfStats

SfWaitInv == WaitTypeOK /\ ModesFit /\ FewTransactions /\ BoltOpened /\ StatsSent

\* All nodes are in the first slot of the fast path.
LEMMA SfWaitInit == Sf!SfInit => SfWaitInv
<1> SUFFICES ASSUME Sf!SfInit
             PROVE  SfWaitInv
    OBVIOUS
<1> USE DEF Sf!SfInit
<1>1. WaitTypeOK
    BY DEF WaitTypeOK, SfModes
<1>2. ModesFit
    BY SfNumbers DEF ModesFit
<1>3. FewTransactions /\ BoltOpened /\ StatsSent
    BY DisseminationAssumption DEF FewTransactions, BoltOpened, StatsSent
<1> QED
    BY <1>1, <1>2, <1>3 DEF SfWaitInv

\* Steps that move no node: votes, proposals, Bolt's first message.
LEMMA QuietWaitKeeps ==
    ASSUME SfWaitInv, UNCHANGED <<sfRun, sfLeader, sfSupply, sfSlot, sfMode, sfBolt, sfStats>>,
           sfFirst' \in Nat, sfFirst > 0 => sfFirst' > 0
    PROVE  SfWaitInv'
BY DEF SfWaitInv, WaitTypeOK, ModesFit, FewTransactions, BoltOpened, StatsSent, Sf!HasFixed,
    Sf!Tip

\* A node goes to another mode where it is.
LEMMA WaitModeKeeps ==
    ASSUME SfWaitInv, NEW p \in Nodes, NEW m \in SfModes \ {"fast", "stats"},
           UNCHANGED <<sfRun, sfLeader, sfSupply, sfSlot, sfFirst, sfBolt, sfStats>>,
           sfMode' = [sfMode EXCEPT ![p] = m],
           m \in {"done", "hangs"} => sfSlot[p] = Sf!SfLast + 1,
           m = "raised" => sfSupply = 0 /\ sfSupply < SfStatFrom,
           m \in {"bolt", "hangs"} => sfRun = "sufallback",
           m = "failed" => sfRun = "superfast" /\ Sf!HasFixed(p),
           m = "end" => sfRun = "sufallback" \/ sfMode[p] = "stats"
    PROVE  SfWaitInv'
<1> USE DEF SfWaitInv
<1>1. \A q \in Nodes : sfMode'[q] = IF q = p THEN m ELSE sfMode[q]
    BY DEF WaitTypeOK
<1>2. WaitTypeOK'
    BY DEF WaitTypeOK
<1>3. ModesFit'
    BY <1>1 DEF ModesFit, Sf!HasFixed, Sf!Tip
<1>4. FewTransactions' /\ BoltOpened'
    BY DEF FewTransactions, BoltOpened
<1>5. StatsSent'
    BY <1>1 DEF StatsSent, Sf!HasFixed, Sf!Tip
<1> QED
    BY <1>2, <1>3, <1>4, <1>5

\* A slot ends: the statistics are divided, or the node goes on to the next.
LEMMA WaitSlotKeeps ==
    ASSUME SfWaitInv, NEW p \in Nodes, Sf!OneSlot(p)
    PROVE  SfWaitInv'
<1> USE DEF SfWaitInv
<1>1. /\ sfMode[p] = "fast" /\ sfSlot[p] \in Nat \ {0} /\ sfSlot[p] <= SfSlots + 1
      /\ SfSlots \in Nat /\ SfStatFrom \in Nat /\ sfSupply \in {0, SfSlots}
    BY SfNumbers, DisseminationAssumption
        DEF Sf!OneSlot, Sf!SlotDue, Sf!InFast, ModesFit, WaitTypeOK
<1>2. UNCHANGED <<sfRun, sfLeader, sfSupply, sfFirst, sfBolt, sfStats>>
    BY DEF Sf!OneSlot, Sf!sfConst
<1>3. CASE Sf!DivideByZero(sfSlot[p])
    <2>1. sfMode' = [sfMode EXCEPT ![p] = "raised"] /\ UNCHANGED sfSlot
        BY <1>3 DEF Sf!OneSlot
    <2>2. sfSupply = 0 /\ sfSupply < SfStatFrom
        BY <1>1, <1>3 DEF Sf!DivideByZero
    <2> QED
        BY <1>2, <2>1, <2>2, WaitModeKeeps DEF SfModes
<1>4. CASE ~ Sf!DivideByZero(sfSlot[p])
    <2> DEFINE t == sfSlot[p] + 1
               m == IF sfSlot[p] = Sf!SfLast THEN "done" ELSE "fast"
    <2>1. sfSlot' = [sfSlot EXCEPT ![p] = t] /\ sfMode' = [sfMode EXCEPT ![p] = m]
        BY <1>4 DEF Sf!OneSlot
    <2>2. /\ t \in Nat \ {0} /\ m \in {"done", "fast"}
          /\ m = "fast" => t <= Sf!SfLast
          /\ m = "done" => t = Sf!SfLast + 1
          /\ sfSupply < SfStatFrom => t - 1 <= SfStatFrom
        BY <1>1, <1>4, SfNumbers DEF Sf!DivideByZero
    <2> HIDE DEF t, m
    <2>3. \A q \in Nodes : /\ sfSlot'[q] = IF q = p THEN t ELSE sfSlot[q]
                           /\ sfMode'[q] = IF q = p THEN m ELSE sfMode[q]
        BY <2>1 DEF WaitTypeOK
    <2>4. WaitTypeOK'
        BY <1>2, <2>1, <2>2 DEF WaitTypeOK, SfModes
    <2>5. ModesFit'
        BY <1>2, <2>2, <2>3 DEF ModesFit, Sf!HasFixed, Sf!Tip
    <2>6. FewTransactions' /\ BoltOpened'
        BY <1>2, <2>2, <2>3 DEF FewTransactions, BoltOpened
    <2>7. StatsSent'
        BY <1>2, <2>2, <2>3 DEF StatsSent, Sf!HasFixed, Sf!Tip
    <2> QED
        BY <2>4, <2>5, <2>6, <2>7
<1> QED
    BY <1>3, <1>4

\* A node of Superfast ends, with its statistics sent if it has any.
LEMMA SendStatsKeeps ==
    ASSUME SfWaitInv, NEW p \in Nodes, Sf!SendStats(p)
    PROVE  SfWaitInv'
<1> USE DEF SfWaitInv
<1> DEFINE m == IF p = sfLeader THEN "stats" ELSE "end"
<1>1. /\ sfRun = "superfast"
      /\ sfMode' = [sfMode EXCEPT ![p] = m]
      /\ UNCHANGED <<sfRun, sfLeader, sfSupply, sfSlot, sfFirst, sfBolt>>
      /\ sfStats \subseteq sfStats' /\ sfStats' \subseteq sfStats \cup {p}
      /\ Sf!HasFixed(p) => p \in sfStats'
    BY DEF Sf!SendStats, Sf!StatsDue, Sf!sfConst, Sf!sfPath
<1>2. m \in {"stats", "end"} /\ (m = "stats" => p = sfLeader)
    OBVIOUS
<1> HIDE DEF m
<1>3. \A q \in Nodes : sfMode'[q] = IF q = p THEN m ELSE sfMode[q]
    BY <1>1 DEF WaitTypeOK
<1>4. WaitTypeOK'
    BY <1>1, <1>2 DEF WaitTypeOK, SfModes
<1>5. ModesFit'
    BY <1>1, <1>2, <1>3 DEF ModesFit, Sf!HasFixed, Sf!Tip
<1>6. FewTransactions' /\ BoltOpened'
    BY <1>1 DEF FewTransactions, BoltOpened
<1>7. StatsSent'
    BY <1>1, <1>3 DEF StatsSent, Sf!HasFixed, Sf!Tip
<1> QED
    BY <1>4, <1>5, <1>6, <1>7

\* Bolt's slots are entered after its leader's first message.
LEMMA BoltSlotsKeep ==
    ASSUME SfWaitInv, NEW p \in Nodes, Sf!BoltSlot1(p) \/ Sf!BoltSlot2(p)
    PROVE  SfWaitInv'
<1> USE DEF SfWaitInv
<1>1. PICK b \in {2, 3} :
          /\ sfBolt' = [sfBolt EXCEPT ![p] = b] /\ (sfFirst > 0 \/ sfBolt[p] = 2)
          /\ UNCHANGED <<sfRun, sfLeader, sfSupply, sfSlot, sfMode, sfFirst, sfStats>>
    BY DEF Sf!BoltSlot1, Sf!BoltSlot1Due, Sf!BoltSlot2, Sf!BoltSlot2Due, Sf!sfConst, Sf!sfPath
<1>2. sfFirst > 0
    BY <1>1 DEF BoltOpened
<1>3. WaitTypeOK' /\ BoltOpened'
    BY <1>1, <1>2 DEF WaitTypeOK, BoltOpened
<1>4. ModesFit' /\ FewTransactions' /\ StatsSent'
    BY <1>1 DEF ModesFit, FewTransactions, StatsSent, Sf!HasFixed, Sf!Tip
<1> QED
    BY <1>3, <1>4

\* A node of Superfast fails on what a time-out gave it for statistics.
LEMMA StatsFailKeeps ==
    ASSUME SfWaitInv, NEW p \in Nodes, Sf!StatsFail(p)
    PROVE  SfWaitInv'
<1>1. /\ sfRun = "superfast" /\ Sf!HasFixed(p)
      /\ sfMode' = [sfMode EXCEPT ![p] = "failed"]
      /\ UNCHANGED <<sfRun, sfLeader, sfSupply, sfSlot, sfFirst, sfBolt, sfStats>>
    BY DEF Sf!StatsFail, Sf!NoNumbers, Sf!StatsDue, Sf!sfConst, Sf!sfPath
<1>2. "failed" \in SfModes \ {"fast", "stats"}
    BY DEF SfModes
<1> QED
    BY <1>1, <1>2, WaitModeKeeps

\* The invariant is inductive.
LEMMA SfWaitStep == SfWaitInv /\ [Sf!SfNext]_Sf!sfVars => SfWaitInv'
<1> SUFFICES ASSUME SfWaitInv, [Sf!SfNext]_Sf!sfVars
             PROVE  SfWaitInv'
    OBVIOUS
<1>1. ASSUME NEW p \in Nodes, NEW s \in 1 .. Sf!SfLast, Sf!HandleVote(p, s)
      PROVE  SfWaitInv'
    <2>1. sfFirst \in Nat
        BY DEF SfWaitInv, WaitTypeOK
    <2> QED
        BY <1>1, <2>1, QuietWaitKeeps DEF Sf!HandleVote, Sf!sfConst
<1>2. ASSUME NEW p \in Nodes, Sf!HandlePropose(p)
      PROVE  SfWaitInv'
    <2>1. sfFirst \in Nat
        BY DEF SfWaitInv, WaitTypeOK
    <2> QED
        BY <1>2, <2>1, QuietWaitKeeps DEF Sf!HandlePropose, Sf!sfConst
<1>3. CASE Sf!BoltFirst
    <2>1. sfSlot[sfLeader] \in Nat \ {0}
        BY DEF SfWaitInv, WaitTypeOK
    <2>2. sfFirst' \in Nat /\ sfFirst' > 0
        BY <1>3, <2>1 DEF Sf!BoltFirst, Sf!FirstDue, Sf!Tip
    <2> QED
        BY <1>3, <2>2, QuietWaitKeeps DEF Sf!BoltFirst, Sf!sfConst, Sf!sfPath
<1>4. ASSUME NEW p \in Nodes, Sf!TimeOut(p) \/ Sf!Resume(p) \/ Sf!UnpackFails(p)
      PROVE  SfWaitInv'
    <2>1. PICK m \in {"timeout", "end", "bolt", "hangs"} :
              /\ sfMode' = [sfMode EXCEPT ![p] = m]
              /\ m # "timeout" => sfRun = "sufallback"
              /\ m = "hangs" => sfMode[p] = "done"
              /\ UNCHANGED <<sfRun, sfLeader, sfSupply, sfSlot, sfFirst, sfBolt, sfStats>>
        BY <1>4 DEF Sf!TimeOut, Sf!Resume, Sf!ResumeDue, Sf!UnpackFails, Sf!UnpackDue,
            Sf!sfConst, Sf!sfPath
    <2>2. m = "hangs" => sfSlot[p] = Sf!SfLast + 1
        BY <2>1 DEF SfWaitInv, ModesFit
    <2>3. m \in SfModes \ {"fast", "stats"}
        BY DEF SfModes
    <2> QED
        BY <2>1, <2>2, <2>3, WaitModeKeeps
<1>5. ASSUME NEW p \in Nodes, Sf!BoltRaises(p) \/ Sf!BoltEnds(p)
      PROVE  SfWaitInv'
    <2>1. /\ sfMode' = [sfMode EXCEPT ![p] = "end"] /\ sfMode[p] = "bolt"
          /\ UNCHANGED <<sfRun, sfLeader, sfSupply, sfSlot, sfFirst, sfBolt, sfStats>>
        BY <1>5 DEF Sf!BoltRaises, Sf!BoltRaiseDue, Sf!BoltEnds, Sf!BoltEndDue, Sf!sfConst,
            Sf!sfPath
    <2>2. sfRun = "sufallback"
        BY <2>1 DEF SfWaitInv, ModesFit
    <2>3. "end" \in SfModes \ {"fast", "stats"}
        BY DEF SfModes
    <2> QED
        BY <2>1, <2>2, <2>3, WaitModeKeeps
<1>6. CASE Sf!AllStats
    <2>1. /\ sfMode' = [sfMode EXCEPT ![sfLeader] = "end"] /\ sfMode[sfLeader] = "stats"
          /\ UNCHANGED <<sfRun, sfLeader, sfSupply, sfSlot, sfFirst, sfBolt, sfStats>>
        BY <1>6 DEF Sf!AllStats, Sf!AllStatsIn, Sf!sfConst, Sf!sfPath
    <2>2. "end" \in SfModes \ {"fast", "stats"} /\ sfLeader \in Nodes
        BY DEF SfModes, SfWaitInv, WaitTypeOK
    <2> QED
        BY <2>1, <2>2, WaitModeKeeps
<1>7. CASE UNCHANGED Sf!sfVars
    BY <1>7, QuietWaitKeeps DEF Sf!sfVars, Sf!sfConst, Sf!sfPath, SfWaitInv, WaitTypeOK
<1> QED
    BY <1>1, <1>2, <1>3, <1>4, <1>5, <1>6, <1>7, WaitSlotKeeps, SendStatsKeeps, StatsFailKeeps,
        BoltSlotsKeep
        DEF Sf!SfNext

\* The leader of Bolt does not wait in it: it opens, raises or ends.
LEMMA LeaderOpens ==
    ASSUME SfWaitInv, Sf!SfSettled
    PROVE  sfMode[sfLeader] # "bolt"
<1> SUFFICES ASSUME sfMode[sfLeader] = "bolt"
             PROVE  FALSE
    OBVIOUS
<1>1. /\ sfLeader \in Nodes /\ sfFirst \in Nat /\ sfSlot[sfLeader] \in Nat \ {0}
      /\ sfBolt[sfLeader] \in 1 .. 3
    BY DEF SfWaitInv, WaitTypeOK
<1>2. sfFirst = 0
    BY <1>1 DEF Sf!SfSettled, Sf!BoltEndDue
<1>3. Sf!Tip(sfLeader) = 0
    BY <1>1, <1>2 DEF Sf!SfSettled, Sf!FirstDue, Sf!Tip
<1>4. sfBolt[sfLeader] = 1
    BY <1>1, <1>2 DEF SfWaitInv, BoltOpened
<1> QED
    BY <1>1, <1>3, <1>4 DEF Sf!SfSettled, Sf!BoltRaiseDue

\* A leader of Superfast that waits for statistics misses some for ever.
LEMMA StatsMissing ==
    ASSUME SfWaitInv, Sf!SfSettled, sfRun = "superfast", sfMode[sfLeader] = "stats"
    PROVE  \E q \in Nodes : sfMode[q] = "failed" \/ ~ Sf!HasFixed(q)
<1> SUFFICES ASSUME \A q \in Nodes : sfMode[q] # "failed" /\ Sf!HasFixed(q)
             PROVE  FALSE
    OBVIOUS
<1> USE DEF SfWaitInv
<1>1. ASSUME NEW q \in Nodes
      PROVE  q \in sfStats
    <2>1. sfMode[q] # "fast"
        BY <1>1 DEF Sf!SfSettled, Sf!SlotDue, Sf!TimeOutDue, Sf!InFast, Sf!Mute, Sf!MuteIn
    <2>2. sfMode[q] \notin {"done", "timeout", "bolt", "hangs"}
        BY <1>1 DEF Sf!SfSettled, Sf!StatsDue, ModesFit
    <2>3. sfMode[q] # "raised"
        <3>1. sfSlot[q] \in Nat /\ SfStatFrom \in Nat
            BY <1>1, DisseminationAssumption DEF WaitTypeOK
        <3>2. sfSlot[q] - 1 - 1 >= SfStatFrom
            BY <1>1 DEF Sf!HasFixed, Sf!Tip
        <3> QED
            BY <1>1, <3>1, <3>2 DEF ModesFit, FewTransactions
    <2>4. sfMode[q] \in {"stats", "end"}
        BY <2>1, <2>2, <2>3 DEF WaitTypeOK, SfModes
    <2> QED
        BY <1>1, <2>4 DEF StatsSent
<1> QED
    BY <1>1 DEF Sf!SfSettled, Sf!AllStatsIn, WaitTypeOK

\* Of every node that still waits it is known why.
LEMMA SfWaitsExplained == SfWaitInv => Sf!WaitsExplained
<1> SUFFICES ASSUME SfWaitInv, Sf!SfSettled, NEW p \in Nodes
             PROVE  \/ sfMode[p] = "end" \/ Sf!Mute(p)
                    \/ sfMode[p] = "raised" /\ sfSupply = 0
                    \/ sfMode[p] = "hangs" /\ sfSlot[p] = Sf!SfLast + 1
                    \/ p = sfLeader /\ sfMode[p] = "timeout" /\ ~ Sf!Certified
                    \/ sfMode[p] = "failed" /\ Sf!HasFixed(p)
                    \/ /\ p = sfLeader /\ sfMode[p] = "stats"
                       /\ \E q \in Nodes : sfMode[q] = "failed" \/ ~ Sf!HasFixed(q)
    BY DEF Sf!WaitsExplained
<1> USE DEF SfWaitInv
<1>1. sfMode[p] \in SfModes /\ sfRun \in {"sufallback", "superfast"}
    BY DEF WaitTypeOK
<1>2. CASE sfMode[p] = "fast"
    BY <1>2 DEF Sf!SfSettled, Sf!SlotDue, Sf!TimeOutDue, Sf!InFast
<1>3. CASE sfMode[p] \in {"raised", "hangs", "failed"}
    BY <1>3 DEF ModesFit
<1>4. CASE sfMode[p] \in {"done", "timeout"}
    BY <1>1, <1>4 DEF Sf!SfSettled, Sf!UnpackDue, Sf!ResumeDue, Sf!StatsDue
<1>5. CASE sfMode[p] = "bolt"
    <2>1. p # sfLeader
        BY <1>5, LeaderOpens
    <2> QED
        BY <1>5, <2>1 DEF Sf!SfSettled, Sf!BoltEndDue
<1>6. CASE sfMode[p] = "stats"
    <2>1. p = sfLeader /\ sfRun = "superfast"
        BY <1>6 DEF ModesFit
    <2> QED
        BY <1>6, <2>1, StatsMissing
<1> QED
    BY <1>1, <1>2, <1>3, <1>4, <1>5, <1>6 DEF SfModes
-----------------------------------------------------------------------------
(***************************************************************************)
(* Bolt.  The leader sends one DECIDE per slot, but for a second one in    *)
(* the slot in which its handler dies, its last; so the batches of all     *)
(* slots but the last one decided are the same everywhere.  The DECIDE of  *)
(* a slot was voted for by all nodes, or by N - f nodes, that have the     *)
(* slot before.  N = 3f + 1 is needed because the certificates of 2f + 1   *)
(* votes are those that bolt takes for the votes of N - f nodes.           *)
(***************************************************************************)
Batches == {"new", "old", "first", "again"}
Decides == [slot : Nat, batch : Batches, sigma : Nat]

BkTypeOK ==
    /\ bkLeader \in Nodes /\ bkHolds \subseteq Nodes /\ bkOkers \subseteq Nodes
    /\ bkSlot \in [Nodes -> Nat \ {0}]
    /\ bkChain \in [Nodes -> Seq(Batches)]
    /\ bkNotar \in [Nodes -> Nat] /\ bkFixed \in [Nodes -> Nat]
    /\ bkVotes \subseteq Nodes \X Seq(Batches)
    /\ bkVoters \subseteq Nodes
    /\ bkFlag \in {None, 0, 1}
    /\ bkSent \in Seq(Decides)
    /\ bkItem \in [Nodes -> Decides \cup {None}]

\* The slots the leader has sent DECIDE in.
SlotsSent == IF bkItem[bkLeader] = None THEN bkSlot[bkLeader] - 1 ELSE bkSlot[bkLeader]

SentOnce ==
    /\ Len(bkSent) \in {SlotsSent, SlotsSent + 1}
    /\ Len(bkSent) = SlotsSent + 1 =>
          bkLeader \in bkDeaf /\ bkSent[Len(bkSent)].slot = SlotsSent
    /\ \A i \in 1 .. SlotsSent : bkSent[i].slot = i

\* Once its handler is dead the leader sends nothing.
DeafQuiet ==
    bkLeader \in bkDeaf =>
        bkItem[bkLeader] # None \/ bkLate \/ bkVoters = {} \/ bkSlot[bkLeader] = 1

\* The DECIDEs sent.
Sent == {bkSent[i] : i \in DOMAIN bkSent}

ItemsSent == \A p \in Nodes : bkItem[p] # None => bkItem[p] \in Sent /\ bkItem[p].slot = bkSlot[p]

ChainsSent ==
    \A p \in Nodes :
        /\ Len(bkChain[p]) = bkSlot[p] - 1
        /\ \A k \in 1 .. Len(bkChain[p]) :
              \E item \in Sent : item.slot = k /\ item.batch = bkChain[p][k]

\* The certificate of slot 1, and whose transactions it decides.
Opens(item) ==
    item.sigma \in {0, F + 1, 2 * F + 1} /\ (bkHolds \in Quorum => item.batch = "old")

OpenedOnce ==
    /\ \A item \in Sent : item.slot = 1 => Opens(item)
    /\ bkHolds # {} /\ bkSent # << >> => Cardinality(bkOkers) >= N - F

\* Who has the block of slot k.
Having(k) == {q \in Nodes : Len(bkChain[q]) >= k}

VotersHave ==
    /\ \A v \in bkVotes : Len(v[2]) > 0 /\ Len(v[2]) <= Len(bkChain[v[1]])
    /\ bkVoters \subseteq Having(bkSlot[bkLeader] - 1)
    /\ bkFlag # None => Cardinality(bkVoters) >= N - F
    /\ bkFlag = 1 => Cardinality(bkVoters) = N

BackedBy(sigma, k) ==
    \/ sigma = 2 * F + 1 /\ Having(k) \in Quorum
    \/ sigma = N /\ Having(k) = Nodes

SentBacked == \A item \in Sent : item.slot > 1 => BackedBy(item.sigma, item.slot - 1)

NotarizedLast == \A p \in Nodes : bkNotar[p] > 0 => bkNotar[p] = bkSlot[p] - 2

FixedHad ==
    \A p \in Nodes : bkFixed[p] > 0 =>
        Having(bkFixed[p]) = Nodes \/ Having(bkFixed[p] + 1) \in Quorum

BkInv ==
    /\ BkTypeOK
    /\ SentOnce
    /\ DeafQuiet
    /\ ItemsSent
    /\ ChainsSent
    /\ OpenedOnce
    /\ VotersHave
    /\ SentBacked
    /\ NotarizedLast
    /\ FixedHad

\* The component's operators are those of the suite.
LEMMA BkNumbers ==
    /\ Bk!N = N
    /\ Bk!Quorum = Quorum
    /\ \A S : Bk!Cardinality(S) = Cardinality(S)
<1>1. \A S : Bk!Cardinality(S) = Cardinality(S)
    BY DEF Bk!Cardinality, Cardinality
<1>2. Bk!N = N
    BY <1>1 DEF Bk!N, N
<1> QED
    BY <1>1, <1>2 DEF Bk!Quorum, Quorum

\* A DECIDE sent is one more.
LEMMA SentGrows ==
    ASSUME bkSent \in Seq(Decides), NEW item \in Decides, bkSent' = Append(bkSent, item)
    PROVE  /\ bkSent' \in Seq(Decides)
           /\ Len(bkSent') = Len(bkSent) + 1 /\ Len(bkSent) \in Nat
           /\ \A i \in 1 .. Len(bkSent) : bkSent'[i] = bkSent[i]
           /\ bkSent'[Len(bkSent) + 1] = item
           /\ Sent' = Sent \cup {item}
<1>1. /\ bkSent' \in Seq(Decides)
      /\ Len(bkSent') = Len(bkSent) + 1 /\ Len(bkSent) \in Nat
      /\ \A i \in 1 .. Len(bkSent) : bkSent'[i] = bkSent[i]
      /\ bkSent'[Len(bkSent) + 1] = item
    BY AppendProperties
<1>2. DOMAIN bkSent = 1 .. Len(bkSent) /\ DOMAIN bkSent' = 1 .. Len(bkSent) + 1
    BY <1>1, LenProperties
<1>3. Sent' = Sent \cup {item}
    BY <1>1, <1>2 DEF Sent
<1> QED
    BY <1>1, <1>3

\* The invariant holds at the start: no slot is decided, or, with no OKs to
\* wait for, slot 1.
LEMMA BkInitInv == ASSUME Bk!BkInit PROVE BkInv
<1> DEFINE item == [slot |-> 1, batch |-> "new", sigma |-> 0]
<1>1. /\ bkLeader \in Nodes /\ bkHolds \subseteq Nodes /\ bkOkers = {}
      /\ bkSlot = [p \in Nodes |-> 1] /\ bkChain = [p \in Nodes |-> << >>]
      /\ bkNotar = [p \in Nodes |-> 0] /\ bkFixed = [p \in Nodes |-> 0]
      /\ bkVotes = {} /\ bkVoters = {} /\ bkFlag = None /\ bkDeaf = {}
      /\ bkSent = IF bkHolds = {} THEN <<item>> ELSE << >>
      /\ bkItem = [p \in Nodes |-> IF p = bkLeader /\ bkHolds = {} THEN item ELSE None]
    BY DEF Bk!BkInit, Bk!NewBatch
<1>2. item \in Decides /\ item.slot = 1 /\ item.sigma = 0 /\ item # None
    BY DisseminationAssumption DEF Decides, Batches
<1>3. BkTypeOK
    <2>1. bkSent \in Seq(Decides) /\ bkItem \in [Nodes -> Decides \cup {None}]
        BY <1>1, <1>2
    <2>2. bkChain \in [Nodes -> Seq(Batches)]
        BY <1>1
    <2> QED
        BY <1>1, <2>1, <2>2 DEF BkTypeOK
<1>4. SentOnce
    <2>1. CASE bkHolds = {}
        <3>1. SlotsSent = 1 /\ Len(bkSent) = 1 /\ bkSent[1] = item
            BY <1>1, <1>2, <2>1 DEF SlotsSent
        <3> QED
            BY <1>2, <3>1 DEF SentOnce
    <2>2. CASE bkHolds # {}
        <3>1. SlotsSent = 0 /\ Len(bkSent) = 0
            BY <1>1, <2>2 DEF SlotsSent
        <3> QED
            BY <3>1 DEF SentOnce
    <2> QED
        BY <2>1, <2>2
<1>5. \A x \in Sent : bkHolds = {} /\ x = item
    BY <1>1 DEF Sent
<1>6. bkHolds = {} => Sent = {item}
    BY <1>1 DEF Sent
<1>7. DeafQuiet /\ ItemsSent /\ ChainsSent
    BY <1>1, <1>2, <1>6 DEF DeafQuiet, ItemsSent, ChainsSent
<1>8. OpenedOnce
    <2>1. {} \notin Quorum
        BY FaultNumbers, FS_EmptySet DEF Quorum
    <2> QED
        BY <1>1, <1>2, <1>5, <2>1 DEF OpenedOnce, Opens
<1>9. VotersHave /\ SentBacked /\ NotarizedLast /\ FixedHad
    BY <1>1, <1>2, <1>5, DisseminationAssumption
    DEF VotersHave, SentBacked, NotarizedLast, FixedHad
<1> QED
    BY <1>3, <1>4, <1>7, <1>8, <1>9 DEF BkInv

\* The leader sends the DECIDE of its slot, or a second one, at which its
\* handler dies.
LEMMA SendKeeps ==
    ASSUME BkInv, NEW item \in Decides,
           item.slot = bkSlot[bkLeader],
           bkSent' = Append(bkSent, item),
           Len(bkSent) = SlotsSent,
           \/ /\ bkItem[bkLeader] = None
              /\ bkItem' = [bkItem EXCEPT ![bkLeader] = item] /\ UNCHANGED bkDeaf
           \/ /\ bkItem[bkLeader] # None
              /\ bkDeaf' = bkDeaf \cup {bkLeader} /\ UNCHANGED bkItem,
           UNCHANGED <<bkLeader, bkHolds, bkSlot, bkChain, bkNotar, bkFixed>>,
           item.slot = 1 => Opens(item),
           item.slot > 1 => BackedBy(item.sigma, item.slot - 1),
           bkHolds # {} => Cardinality(bkOkers') >= N - F,
           bkOkers' \subseteq Nodes, bkVoters' \subseteq Nodes, bkFlag' \in {None, 0, 1},
           bkVotes' \subseteq bkVotes,
           VotersHave'
    PROVE  BkInv'
<1> USE DEF BkInv
<1>1. /\ bkSent' \in Seq(Decides)
      /\ Len(bkSent') = Len(bkSent) + 1 /\ Len(bkSent) \in Nat
      /\ \A i \in 1 .. Len(bkSent) : bkSent'[i] = bkSent[i]
      /\ bkSent'[Len(bkSent) + 1] = item
      /\ Sent' = Sent \cup {item}
    BY SentGrows DEF BkTypeOK
<1>2. bkLeader \in Nodes /\ bkSlot[bkLeader] \in Nat \ {0} /\ item # None
    BY DisseminationAssumption DEF BkTypeOK, Decides, Batches
<1>3. BkTypeOK'
    BY <1>1 DEF BkTypeOK
<1>4. /\ bkItem'[bkLeader] # None
      /\ \A p \in Nodes : p # bkLeader => bkItem'[p] = bkItem[p]
      /\ bkItem'[bkLeader] \in {item, bkItem[bkLeader]}
    BY <1>2 DEF BkTypeOK
<1>5. SlotsSent' = bkSlot[bkLeader]
    BY <1>4 DEF SlotsSent
<1>6. SentOnce'
    <2>1. CASE bkItem[bkLeader] = None
        <3>1. SlotsSent = bkSlot[bkLeader] - 1
            BY <2>1 DEF SlotsSent
        <3>2. Len(bkSent') = SlotsSent'
            BY <1>1, <1>2, <1>5, <3>1
        <3>3. \A i \in 1 .. SlotsSent' : bkSent'[i].slot = i
            <4> SUFFICES ASSUME NEW i \in 1 .. bkSlot[bkLeader]
                         PROVE  bkSent'[i].slot = i
                BY <1>5
            <4>1. CASE i = bkSlot[bkLeader]
                BY <1>1, <1>2, <3>1, <4>1
            <4>2. CASE i \in 1 .. SlotsSent
                BY <1>1, <4>2 DEF SentOnce
            <4> QED
                BY <1>2, <3>1, <4>1, <4>2
        <3> QED
            BY <1>1, <1>2, <1>5, <3>2, <3>3 DEF SentOnce
    <2>2. CASE bkItem[bkLeader] # None
        <3>1. SlotsSent = bkSlot[bkLeader] /\ bkLeader \in bkDeaf'
            BY <2>2 DEF SlotsSent
        <3>2. Len(bkSent') = SlotsSent' + 1 /\ bkSent'[Len(bkSent')].slot = SlotsSent'
            BY <1>1, <1>5, <3>1
        <3>3. \A i \in 1 .. SlotsSent' : bkSent'[i].slot = i
            BY <1>1, <1>5, <3>1 DEF SentOnce
        <3> QED
            BY <3>1, <3>2, <3>3 DEF SentOnce
    <2> QED
        BY <2>1, <2>2
<1>7. DeafQuiet'
    BY <1>4 DEF DeafQuiet
<1>8. ItemsSent'
    BY <1>1, <1>2, <1>4 DEF ItemsSent
<1>9. ChainsSent' /\ SentBacked'
    BY <1>1 DEF ChainsSent, SentBacked, BackedBy, Having
<1>10. OpenedOnce'
    BY <1>1 DEF OpenedOnce, Opens
<1>11. NotarizedLast' /\ FixedHad'
    BY DEF NotarizedLast, FixedHad, Having
<1> QED
    BY <1>3, <1>6, <1>7, <1>8, <1>9, <1>10, <1>11

\* A step that sends and takes nothing.
LEMMA QuietKeeps ==
    ASSUME BkInv,
           UNCHANGED <<bkLeader, bkHolds, bkSlot, bkChain, bkNotar, bkFixed, bkSent, bkItem>>,
           bkOkers \subseteq bkOkers', bkOkers' \subseteq Nodes,
           bkVoters' \subseteq Nodes, bkFlag' \in {None, 0, 1}, bkVotes' \subseteq bkVotes,
           bkDeaf \subseteq bkDeaf',
           VotersHave', DeafQuiet'
    PROVE  BkInv'
<1> USE DEF BkInv
<1>1. BkTypeOK'
    BY DEF BkTypeOK
<1>2. SentOnce' /\ ItemsSent' /\ ChainsSent'
    BY DEF SentOnce, SlotsSent, ItemsSent, ChainsSent, Sent
<1>3. OpenedOnce'
    <2>1. Cardinality(bkOkers) <= Cardinality(bkOkers')
          /\ Cardinality(bkOkers) \in Nat /\ Cardinality(bkOkers') \in Nat
        BY NodeSets
    <2>2. bkHolds # {} /\ bkSent # << >> => Cardinality(bkOkers') >= N - F
        BY <2>1, FaultNumbers DEF OpenedOnce
    <2> QED
        BY <2>2 DEF OpenedOnce, Opens, Sent
<1>4. SentBacked' /\ NotarizedLast' /\ FixedHad'
    BY DEF SentBacked, BackedBy, NotarizedLast, FixedHad, Having, Sent
<1> QED
    BY <1>1, <1>2, <1>3, <1>4

\* A leader whose handler is alive has sent one DECIDE per slot.
LEMMA ListeningSent ==
    ASSUME BkInv, bkLeader \notin bkDeaf
    PROVE  Len(bkSent) = SlotsSent
    BY DEF BkInv, SentOnce

\* An OK: of N - f of them, f + 1 hold the same transactions if N - f nodes do.
LEMMA OkCounted ==
    ASSUME N = 3 * F + 1, BkInv, NEW p \in Nodes, Bk!HandleOk(p)
    PROVE  BkInv'
<1> DEFINE okers == bkOkers \cup {p}
<1> USE DEF BkInv
<1>1. /\ bkLeader \notin bkDeaf /\ bkSlot[bkLeader] = 1 /\ bkHolds # {}
      /\ bkOkers' = okers
      /\ UNCHANGED <<bkLeader, bkHolds, bkSlot, bkChain, bkNotar, bkFixed, bkVotes, bkVoters,
                     bkFlag, bkLate>>
    BY DEF Bk!HandleOk, Bk!Listens, Bk!bkConst, Bk!bkNode, Bk!bkLead
<1>2. okers \in SUBSET Nodes /\ bkHolds \in SUBSET Nodes /\ Cardinality(okers) \in Nat
    BY NodeSets DEF BkTypeOK
<1>3. VotersHave'
    BY <1>1 DEF VotersHave, Having
<1>4. CASE Cardinality(okers) < N - F
    <2>1. UNCHANGED <<bkSent, bkItem, bkDeaf>>
        BY <1>4, BkNumbers DEF Bk!HandleOk, Bk!OksNeeded
    <2>2. DeafQuiet'
        BY <1>1, <2>1 DEF DeafQuiet
    <2> QED
        BY <1>1, <1>2, <1>3, <2>1, <2>2, QuietKeeps DEF BkTypeOK
<1>5. CASE Cardinality(okers) >= N - F
    <2>1. PICK item :
              /\ item = IF Cardinality(okers \cap bkHolds) >= F + 1
                        THEN [slot |-> 1, batch |-> "old", sigma |-> F + 1]
                        ELSE [slot |-> 1, batch |-> "new", sigma |-> N - F]
              /\ Bk!Send(item)
        <3>1. ~ (Cardinality(okers) < N - F)
            BY <1>2, <1>5, FaultNumbers
        <3> QED
            BY <3>1, BkNumbers DEF Bk!HandleOk, Bk!OksNeeded
    <2>2. item \in Decides /\ item.slot = 1
        BY <2>1, FaultNumbers DEF Decides, Batches
    <2>3. Opens(item)
        <3>1. bkHolds \in Quorum => item.batch = "old"
            BY <1>2, <1>5, <2>1, QuorumsMeet DEF Quorum
        <3>2. item.sigma \in {0, F + 1, 2 * F + 1}
            BY <2>1, FaultNumbers
        <3> QED
            BY <3>1, <3>2 DEF Opens
    <2>4. /\ bkSent' = Append(bkSent, item)
          /\ \/ /\ bkItem[bkLeader] = None
                /\ bkItem' = [bkItem EXCEPT ![bkLeader] = item] /\ UNCHANGED bkDeaf
             \/ /\ bkItem[bkLeader] # None
                /\ bkDeaf' = bkDeaf \cup {bkLeader} /\ UNCHANGED bkItem
        BY <2>1 DEF Bk!Send, Bk!Put
    <2>5. ~ (item.slot > 1)
        BY <2>2
    <2> QED
        BY <1>1, <1>2, <1>3, <1>5, <2>2, <2>3, <2>4, <2>5, ListeningSent, SendKeeps DEF BkTypeOK
<1> QED
    BY <1>2, <1>4, <1>5, FaultNumbers

\* Nodes that have a slot and are N - f, or all, back its certificate.
LEMMA VotersBack ==
    ASSUME N = 3 * F + 1, NEW voters \in SUBSET Nodes, NEW k, voters \subseteq Having(k),
           Cardinality(voters) >= N - F,
           NEW sigma, sigma = N - F \/ (sigma = N /\ Cardinality(voters) = N)
    PROVE  BackedBy(sigma, k)
<1>1. CASE sigma = N - F
    <2>1. voters \in Quorum
        BY DEF Quorum
    <2>2. Having(k) \in Quorum
        BY <2>1, QuorumSuperset DEF Having
    <2> QED
        BY <1>1, <2>2, FaultNumbers DEF BackedBy
<1>2. CASE sigma = N /\ Cardinality(voters) = N
    <2>1. voters = Nodes
        BY <1>2, FaultAssumption, FS_Subset DEF N
    <2> QED
        BY <1>2, <2>1 DEF BackedBy, Having
<1> QED
    BY <1>1, <1>2

\* A vote for the leader's tip comes from a node that has it; with the N - f th
\* or the last, or once flag is set, the leader sends DECIDE.
LEMMA BoltVoteCounted ==
    ASSUME N = 3 * F + 1, BkInv, NEW p \in Nodes, NEW chain, Bk!HandleVote(p, chain)
    PROVE  BkInv'
<1> USE DEF BkInv
<1>1. /\ bkLeader \notin bkDeaf /\ <<p, chain>> \in bkVotes
      /\ bkVotes' = bkVotes \ {<<p, chain>>}
      /\ UNCHANGED <<bkLeader, bkHolds, bkOkers, bkSlot, bkChain, bkNotar, bkFixed, bkLate>>
    BY DEF Bk!HandleVote, Bk!Listens, Bk!bkConst, Bk!bkNode
<1>2. bkLeader \in Nodes /\ bkSlot[bkLeader] \in Nat \ {0} /\ bkVoters \in SUBSET Nodes
    BY DEF BkTypeOK
<1>3. Len(chain) > 0 /\ Len(chain) <= Len(bkChain[p])
    BY <1>1 DEF VotersHave
<1>4. CASE chain # bkChain[bkLeader]
    <2>1. UNCHANGED <<bkVoters, bkFlag, bkSent, bkItem, bkDeaf>>
        BY <1>4 DEF Bk!HandleVote
    <2>2. VotersHave' /\ DeafQuiet'
        BY <1>1, <2>1 DEF VotersHave, Having, DeafQuiet
    <2> QED
        BY <1>1, <2>1, <2>2, QuietKeeps DEF BkTypeOK
<1>5. CASE chain = bkChain[bkLeader]
    <2>1. PICK voters \in SUBSET Nodes : voters = bkVoters \cup {p}
        BY <1>2
    <2>2. PICK flag :
              /\ flag = IF Bk!SuperFast(voters) /\ ~ Bk!SentIn(bkSlot[bkLeader]) THEN 1
                        ELSE IF Cardinality(voters) >= N - F /\ bkLate
                                    /\ ~ Bk!SentIn(bkSlot[bkLeader]) THEN 0
                        ELSE bkFlag
              /\ bkVoters' = voters /\ bkFlag' = flag
              /\ IF flag = None
                 THEN UNCHANGED <<bkSent, bkItem, bkDeaf>>
                 ELSE Bk!Send(Bk!DecideOf(bkSlot[bkLeader],
                                          IF flag = 1 THEN Cardinality(voters) ELSE N - F))
        BY <1>5, <2>1, BkNumbers DEF Bk!HandleVote
    <2>3. /\ Cardinality(bkVoters) <= Cardinality(voters) /\ Cardinality(voters) <= N
          /\ Cardinality(bkVoters) \in Nat /\ Cardinality(voters) \in Nat
        BY <1>2, <2>1, NodeSets
    <2>4. /\ flag \in {None, 0, 1}
          /\ flag # None => Cardinality(voters) >= N - F
          /\ flag = 1 => Cardinality(voters) = N
        <3>1. CASE flag = bkFlag
            BY <2>3, <3>1, FaultNumbers DEF VotersHave, BkTypeOK
        <3>2. CASE flag = 1 /\ Bk!SuperFast(voters)
            BY <3>2, BkNumbers, FaultNumbers DEF Bk!SuperFast
        <3>3. CASE flag = 0 /\ Cardinality(voters) >= N - F
            BY <3>3
        <3> QED
            BY <2>2, <3>1, <3>2, <3>3
    <2>5. bkSlot[bkLeader] > 1 /\ Len(chain) = bkSlot[bkLeader] - 1
        BY <1>2, <1>3, <1>5 DEF ChainsSent
    <2>6. voters \subseteq Having(bkSlot[bkLeader] - 1)
        BY <1>3, <2>1, <2>5 DEF VotersHave, Having
    <2>7. VotersHave'
        BY <1>1, <2>2, <2>4, <2>6 DEF VotersHave, Having
    <2>8. CASE flag = None
        <3>1. UNCHANGED <<bkSent, bkItem, bkDeaf>> /\ DeafQuiet'
            BY <1>1, <2>2, <2>8 DEF DeafQuiet
        <3> QED
            BY <1>1, <2>2, <2>4, <2>7, <3>1, QuietKeeps DEF BkTypeOK
    <2>9. CASE flag # None
        <3>1. PICK sigma \in Nat : sigma = IF flag = 1 THEN Cardinality(voters) ELSE N - F
            BY <2>3, FaultNumbers
        <3>2. PICK item : item = Bk!DecideOf(bkSlot[bkLeader], sigma) /\ Bk!Send(item)
            BY <2>2, <2>9, <3>1
        <3>3. item \in Decides /\ item.slot = bkSlot[bkLeader] /\ item.sigma = sigma
            BY <1>2, <3>2 DEF Bk!DecideOf, Decides, Batches
        <3>4. BackedBy(item.sigma, item.slot - 1)
            BY <2>4, <2>6, <2>9, <3>1, <3>3, VotersBack
        <3>5. /\ bkSent' = Append(bkSent, item)
              /\ \/ /\ bkItem[bkLeader] = None
                    /\ bkItem' = [bkItem EXCEPT ![bkLeader] = item] /\ UNCHANGED bkDeaf
                 \/ /\ bkItem[bkLeader] # None
                    /\ bkDeaf' = bkDeaf \cup {bkLeader} /\ UNCHANGED bkItem
            BY <3>2 DEF Bk!Send, Bk!Put
        <3>6. Len(bkSent) = SlotsSent
            BY <1>1, ListeningSent
        <3>7. bkHolds # {} => Cardinality(bkOkers) >= N - F
            <4>1. SlotsSent > 0
                BY <1>2, <2>5 DEF SlotsSent
            <4>2. bkSent # << >>
                BY <3>6, <4>1
            <4> QED
                BY <4>2 DEF OpenedOnce
        <3>8. ~ (item.slot = 1)
            BY <2>5, <3>3
        <3> QED
            BY <1>1, <2>2, <2>4, <2>7, <3>3, <3>4, <3>5, <3>6, <3>7, <3>8,
                SendKeeps DEF BkTypeOK
    <2> QED
        BY <2>8, <2>9
<1> QED
    BY <1>4, <1>5

\* TIMEOUT1: the leader sends nothing if it has, or if its handler is dead.
LEMMA SuperTimerKeeps ==
    ASSUME N = 3 * F + 1, BkInv, Bk!SuperTimer
    PROVE  BkInv'
<1> USE DEF BkInv
<1>1. /\ ~ bkLate /\ bkSlot[bkLeader] > 1 /\ bkLate' = TRUE
      /\ UNCHANGED <<bkLeader, bkHolds, bkOkers, bkSlot, bkChain, bkNotar, bkFixed, bkVotes,
                     bkVoters, bkFlag>>
    BY DEF Bk!SuperTimer, Bk!bkConst, Bk!bkNode
<1>2. bkLeader \in Nodes /\ bkSlot[bkLeader] \in Nat \ {0} /\ bkVoters \in SUBSET Nodes
    BY DEF BkTypeOK
<1>3. VotersHave'
    BY <1>1 DEF VotersHave, Having
<1>4. CASE UNCHANGED <<bkSent, bkItem, bkDeaf>>
    <2>1. DeafQuiet'
        BY <1>1 DEF DeafQuiet
    <2> QED
        BY <1>1, <1>3, <1>4, <2>1, QuietKeeps DEF BkTypeOK
<1>5. CASE /\ Cardinality(bkVoters) >= N - F /\ ~ Bk!SentIn(bkSlot[bkLeader])
           /\ Bk!Send(Bk!DecideOf(bkSlot[bkLeader], N - F))
    <2>1. PICK item : item = Bk!DecideOf(bkSlot[bkLeader], N - F) /\ Bk!Send(item)
        BY <1>5
    <2>2. item \in Decides /\ item.slot = bkSlot[bkLeader] /\ item.sigma = N - F
        BY <1>2, <2>1, FaultNumbers DEF Bk!DecideOf, Decides, Batches
    <2>3. bkItem[bkLeader] = None
        BY <1>2, <1>5 DEF ItemsSent, Sent, Bk!SentIn
    <2>4. bkVoters # {}
        BY <1>5, FaultNumbers, FS_EmptySet
    <2>5. bkLeader \notin bkDeaf
        BY <1>1, <2>3, <2>4 DEF DeafQuiet
    <2>6. Len(bkSent) = SlotsSent
        BY <2>5, ListeningSent
    <2>7. BackedBy(item.sigma, item.slot - 1)
        BY <1>2, <1>5, <2>2, VotersBack DEF VotersHave
    <2>8. bkHolds # {} => Cardinality(bkOkers) >= N - F
        <3>1. SlotsSent > 0
            BY <1>1, <1>2 DEF SlotsSent
        <3>2. bkSent # << >>
            BY <2>6, <3>1
        <3> QED
            BY <3>2 DEF OpenedOnce
    <2>9. /\ bkSent' = Append(bkSent, item)
          /\ bkItem' = [bkItem EXCEPT ![bkLeader] = item] /\ UNCHANGED bkDeaf
        BY <2>1, <2>3 DEF Bk!Send, Bk!Put
    <2>10. ~ (item.slot = 1)
        BY <1>1, <2>2
    <2> QED
        BY <1>1, <1>3, <2>2, <2>3, <2>6, <2>7, <2>8, <2>9, <2>10, SendKeeps DEF BkTypeOK
<1> QED
    BY <1>4, <1>5, BkNumbers DEF Bk!SuperTimer

\* A node takes the DECIDE of its slot; TIMEOUT2 ends a handler.
LEMMA DecideQueued ==
    ASSUME BkInv, NEW p \in Nodes, Bk!HandleDecide(p) \/ Bk!SlotTimer(p)
    PROVE  BkInv'
<1> USE DEF BkInv
<1>1. /\ UNCHANGED <<bkLeader, bkHolds, bkOkers, bkSlot, bkChain, bkNotar, bkFixed, bkVotes,
                     bkVoters, bkFlag, bkLate, bkSent>>
      /\ bkLeader \in Nodes
    BY DEF Bk!HandleDecide, Bk!SlotTimer, Bk!bkConst, Bk!bkNode, Bk!bkLead, BkTypeOK
<1>2. VotersHave'
    BY <1>1 DEF VotersHave, Having
<1>3. CASE UNCHANGED bkItem /\ bkDeaf' = bkDeaf /\ p # bkLeader
    <2>1. DeafQuiet'
        BY <1>1, <1>3 DEF DeafQuiet
    <2> QED
        BY <1>1, <1>2, <1>3, <2>1, QuietKeeps DEF BkTypeOK
<1>4. CASE UNCHANGED bkItem /\ bkDeaf' = bkDeaf \cup {p} /\ p # bkLeader
    <2>1. DeafQuiet'
        BY <1>1, <1>4 DEF DeafQuiet
    <2> QED
        BY <1>1, <1>2, <1>4, <2>1, QuietKeeps DEF BkTypeOK
<1>5. CASE Bk!SlotTimer(p)
    <2>1. /\ UNCHANGED bkItem /\ bkDeaf' = bkDeaf \cup {p}
          /\ p = bkLeader /\ bkSlot[p] > 1 => bkLate
        BY <1>5 DEF Bk!SlotTimer
    <2>2. bkSlot[p] \in Nat \ {0}
        BY DEF BkTypeOK
    <2>3. DeafQuiet'
        BY <1>1, <2>1, <2>2 DEF DeafQuiet
    <2> QED
        BY <1>1, <1>2, <2>1, <2>3, QuietKeeps DEF BkTypeOK
<1>6. CASE \E item \in Sent :
              /\ p # bkLeader /\ item.slot = bkSlot[p]
              /\ bkItem' = [bkItem EXCEPT ![p] = item] /\ UNCHANGED bkDeaf
    <2>1. PICK item \in Sent :
              /\ p # bkLeader /\ item.slot = bkSlot[p]
              /\ bkItem' = [bkItem EXCEPT ![p] = item] /\ UNCHANGED bkDeaf
        BY <1>6
    <2>2. item \in Decides
        BY <2>1 DEF Sent, BkTypeOK
    <2>3. bkItem'[p] = item /\ \A q \in Nodes : q # p => bkItem'[q] = bkItem[q]
        BY <2>1 DEF BkTypeOK
    <2>4. BkTypeOK'
        BY <1>1, <2>1, <2>2 DEF BkTypeOK
    <2>5. SentOnce' /\ DeafQuiet'
        BY <1>1, <2>1, <2>3 DEF SentOnce, SlotsSent, DeafQuiet
    <2>6. ItemsSent'
        BY <1>1, <2>1, <2>3 DEF ItemsSent, Sent
    <2>7. ChainsSent' /\ OpenedOnce'
        BY <1>1 DEF ChainsSent, Sent, OpenedOnce, Opens
    <2>8. Sent' = Sent /\ \A k : Having(k)' = Having(k)
        BY <1>1 DEF Sent, Having
    <2>9. SentBacked' /\ NotarizedLast' /\ FixedHad'
        BY <1>1, <2>8 DEF SentBacked, BackedBy, NotarizedLast, FixedHad
    <2> QED
        BY <1>2, <2>4, <2>5, <2>6, <2>7, <2>9
<1>7. CASE Bk!HandleDecide(p)
    <2>1. PICK next \in DOMAIN bkSent :
              /\ p # bkLeader
              /\ IF bkSent[next].slot = bkSlot[p] THEN Bk!Put(p, bkSent[next])
                 ELSE UNCHANGED <<bkItem, bkDeaf>>
        BY <1>7 DEF Bk!HandleDecide
    <2>2. PICK item \in Sent : item = bkSent[next]
        BY DEF Sent
    <2> QED
        BY <1>3, <1>4, <1>6, <2>1, <2>2 DEF Bk!Put
<1> QED
    BY <1>5, <1>7

\* one_slot: the item of the slot is taken, and every node has the slot before
\* it that voted for it.
LEMMA BoltSlotDone ==
    ASSUME BkInv, NEW p \in Nodes, Bk!OneSlot(p)
    PROVE  BkInv'
<1> USE DEF BkInv
<1>1. PICK item \in Sent : item = bkItem[p] /\ item.slot = bkSlot[p] /\ item # None
    BY DEF Bk!OneSlot, ItemsSent
<1>2. PICK s \in Nat \ {0} : s = bkSlot[p]
    BY DEF BkTypeOK
<1>3. item \in Decides /\ bkLeader \in Nodes
    BY DEF Sent, BkTypeOK
<1>4. bkChain[p] \in Seq(Batches) /\ Len(bkChain[p]) = s - 1
    BY <1>2 DEF BkTypeOK, ChainsSent
<1>5. Bk!Pending(p, item)
    <2>1. CASE s = 1
        BY <1>1, <1>2, <2>1 DEF Bk!Pending, OpenedOnce, Opens
    <2>2. CASE s > 1
        <3>1. bkChain[p] # << >>
            BY <1>4, <2>2
        <3> QED
            BY <1>1, <1>2, <2>2, <3>1 DEF Bk!Pending
    <2> QED
        BY <1>2, <2>1, <2>2
<1>6. PICK chain \in Seq(Batches) : chain = Append(bkChain[p], item.batch)
    BY <1>3, <1>4, AppendProperties DEF Decides
<1>7. /\ bkItem' = [bkItem EXCEPT ![p] = None]
      /\ bkSlot' = [bkSlot EXCEPT ![p] = s + 1]
      /\ bkChain' = [bkChain EXCEPT ![p] = chain]
      /\ bkFixed' = [bkFixed EXCEPT ![p] =
                        IF s > 1 /\ item.sigma # 2 * F + 1 THEN s - 1
                        ELSE IF s > 1 /\ bkNotar[p] > 0 THEN bkNotar[p] ELSE @]
      /\ bkNotar' = [bkNotar EXCEPT ![p] = IF s > 1 /\ item.sigma = 2 * F + 1 THEN s - 1 ELSE 0]
      /\ bkVotes' \subseteq bkVotes \cup {<<p, chain>>}
      /\ IF p = bkLeader THEN bkVoters' = {} /\ bkFlag' = None /\ bkLate' = FALSE
         ELSE UNCHANGED <<bkVoters, bkFlag, bkLate>>
      /\ UNCHANGED <<bkLeader, bkHolds, bkOkers, bkSent, bkDeaf>>
    BY <1>1, <1>2, <1>5, <1>6 DEF Bk!OneSlot, Bk!ByAll, Bk!bkConst, Bk!bkLead
<1>8. /\ bkSlot'[p] = s + 1 /\ \A q \in Nodes : q # p => bkSlot'[q] = bkSlot[q]
      /\ bkItem'[p] = None /\ \A q \in Nodes : q # p => bkItem'[q] = bkItem[q]
      /\ bkChain'[p] = chain /\ \A q \in Nodes : q # p => bkChain'[q] = bkChain[q]
    BY <1>7 DEF BkTypeOK
<1>9. /\ Len(chain) = s
      /\ \A k \in 1 .. s - 1 : chain[k] = bkChain[p][k]
      /\ chain[s] = item.batch
    BY <1>2, <1>3, <1>4, <1>6, AppendProperties DEF Decides
<1>10. \A k \in Int : Having(k) \subseteq Having(k)' /\ Having(k)' \in SUBSET Nodes
    <2>1. ASSUME NEW q \in Nodes
          PROVE  /\ Len(bkChain[q]) \in Nat /\ Len(bkChain'[q]) \in Nat
                 /\ Len(bkChain[q]) <= Len(bkChain'[q])
        <3>1. bkChain[q] \in Seq(Batches)
            BY DEF BkTypeOK
        <3>2. Len(bkChain[q]) \in Nat
            BY <3>1
        <3>3. CASE q = p
            BY <1>2, <1>4, <1>8, <1>9, <3>3
        <3>4. CASE q # p
            BY <1>8, <3>2, <3>4
        <3> QED
            BY <3>3, <3>4
    <2> QED
        BY <2>1 DEF Having
<1>11. \A k \in Int : (Having(k) \in Quorum => Having(k)' \in Quorum)
                          /\ (Having(k) = Nodes => Having(k)' = Nodes)
    <2> TAKE k \in Int
    <2>1. ASSUME Having(k) \in Quorum PROVE Having(k)' \in Quorum
        BY <1>10, <2>1, QuorumSuperset
    <2> QED
        BY <1>10, <2>1
<1>12. BkTypeOK'
    <2>1. bkVotes' \subseteq Nodes \X Seq(Batches)
        BY <1>7 DEF BkTypeOK
    <2>2. bkVoters' \subseteq Nodes /\ bkFlag' \in {None, 0, 1}
        BY <1>7 DEF BkTypeOK
    <2>3. bkFixed' \in [Nodes -> Nat] /\ bkNotar' \in [Nodes -> Nat]
        BY <1>2, <1>7 DEF BkTypeOK
    <2>4. bkSlot' \in [Nodes -> Nat \ {0}] /\ bkChain' \in [Nodes -> Seq(Batches)]
          /\ bkItem' \in [Nodes -> Decides \cup {None}]
        BY <1>2, <1>7 DEF BkTypeOK
    <2> QED
        BY <1>7, <2>1, <2>2, <2>3, <2>4 DEF BkTypeOK
<1>13. SentOnce'
    <2>1. SlotsSent' = SlotsSent
        BY <1>1, <1>2, <1>3, <1>7, <1>8 DEF SlotsSent
    <2> QED
        BY <1>7, <2>1 DEF SentOnce
<1>14. DeafQuiet'
    BY <1>3, <1>7, <1>8 DEF DeafQuiet
<1>15. ItemsSent'
    BY <1>7, <1>8 DEF ItemsSent, Sent
<1>16. ChainsSent'
    <2>1. ASSUME NEW q \in Nodes, NEW k \in 1 .. Len(bkChain'[q])
          PROVE  \E x \in Sent : x.slot = k /\ x.batch = bkChain'[q][k]
        <3>1. CASE q # p
            BY <1>8, <2>1, <3>1 DEF ChainsSent
        <3>2. CASE q = p /\ k = s
            BY <1>1, <1>2, <1>8, <1>9, <3>2
        <3>3. CASE q = p /\ k \in 1 .. s - 1
            BY <1>4, <1>8, <1>9, <3>3 DEF ChainsSent
        <3> QED
            BY <1>2, <1>8, <1>9, <2>1, <3>1, <3>2, <3>3
    <2>2. \A q \in Nodes : Len(bkChain'[q]) = bkSlot'[q] - 1
        BY <1>2, <1>8, <1>9 DEF ChainsSent
    <2>3. Sent' = Sent
        BY <1>7 DEF Sent
    <2> QED
        BY <2>1, <2>2, <2>3 DEF ChainsSent
<1>17. OpenedOnce'
    BY <1>7 DEF OpenedOnce, Opens, Sent
<1>18. VotersHave'
    <2>1. \A v \in bkVotes' : Len(v[2]) > 0 /\ Len(v[2]) <= Len(bkChain'[v[1]])
        <3> SUFFICES ASSUME NEW v \in bkVotes'
                     PROVE  Len(v[2]) > 0 /\ Len(v[2]) <= Len(bkChain'[v[1]])
            OBVIOUS
        <3>1. CASE v = <<p, chain>>
            BY <1>2, <1>8, <1>9, <3>1
        <3>2. CASE v \in bkVotes
            <4>1. Len(v[2]) > 0 /\ Len(v[2]) <= Len(bkChain[v[1]])
                BY <3>2 DEF VotersHave
            <4>2. v[1] \in Nodes /\ v[2] \in Seq(Batches)
                BY <3>2 DEF BkTypeOK
            <4>3. Len(v[2]) \in Nat
                BY <4>2
            <4>4. CASE v[1] = p
                BY <1>2, <1>4, <1>8, <1>9, <4>1, <4>3, <4>4
            <4> QED
                BY <1>8, <4>1, <4>2, <4>4
        <3> QED
            BY <1>7, <3>1, <3>2
    <2>2. CASE p = bkLeader
        BY <1>7, <2>1, <2>2, DisseminationAssumption DEF VotersHave
    <2>3. CASE p # bkLeader
        <3>1. bkSlot'[bkLeader] = bkSlot[bkLeader] /\ bkSlot[bkLeader] - 1 \in Int
            BY <1>3, <1>8, <2>3 DEF BkTypeOK
        <3>2. bkVoters \subseteq Having(bkSlot[bkLeader] - 1)'
            BY <1>10, <3>1, <1>7, <1>3 DEF VotersHave, Having
        <3> QED
            BY <1>7, <2>1, <2>3, <3>1, <3>2 DEF VotersHave, Having
    <2> QED
        BY <2>2, <2>3
<1>19. SentBacked'
    <2> SUFFICES ASSUME NEW x \in Sent, x.slot > 1
                 PROVE  BackedBy(x.sigma, x.slot - 1)'
        BY <1>7 DEF SentBacked, Sent, BackedBy, Having
    <2>1. x.slot - 1 \in Int
        <3>1. x \in Decides
            BY DEF Sent, BkTypeOK
        <3> QED
            BY <3>1 DEF Decides
    <2>2. BackedBy(x.sigma, x.slot - 1)
        BY DEF SentBacked
    <2> QED
        BY <1>11, <2>1, <2>2 DEF BackedBy
<1>20. NotarizedLast'
    BY <1>2, <1>7, <1>8 DEF NotarizedLast, BkTypeOK
<1>21. FixedHad'
    <2>1. ASSUME NEW q \in Nodes, NEW k \in Nat, k = bkFixed[q], k > 0
          PROVE  Having(k)' = Nodes \/ Having(k + 1)' \in Quorum
        BY <1>11, <2>1 DEF FixedHad
    <2>2. ASSUME s > 1
          PROVE  BackedBy(item.sigma, s - 1)
        BY <1>1, <1>2, <2>2 DEF SentBacked
    <2>3. ASSUME s > 1, item.sigma # 2 * F + 1
          PROVE  Having(s - 1)' = Nodes
        BY <1>2, <1>11, <2>2, <2>3 DEF BackedBy
    <2>4. ASSUME s > 1, bkNotar[p] > 0
          PROVE  bkNotar[p] = s - 2 /\ Having(s - 1)' \in Quorum
        <3>1. Having(s - 1) \in Quorum
            BY <2>2, <2>4, FaultNumbers DEF BackedBy
        <3> QED
            BY <1>2, <1>11, <2>4, <3>1 DEF NotarizedLast
    <2> SUFFICES ASSUME NEW q \in Nodes, NEW k \in Nat, k = bkFixed'[q], k > 0
                 PROVE  Having(k)' = Nodes \/ Having(k + 1)' \in Quorum
        BY <1>12 DEF FixedHad, BkTypeOK, Having
    <2>5. CASE k = bkFixed[q]
        BY <2>1, <2>5
    <2>6. CASE q = p /\ s > 1 /\ item.sigma # 2 * F + 1 /\ k = s - 1
        BY <2>3, <2>6
    <2>7. CASE q = p /\ s > 1 /\ bkNotar[p] > 0 /\ k = bkNotar[p]
        <3>1. k + 1 = s - 1
            BY <1>2, <2>4, <2>7
        <3> QED
            BY <2>4, <2>7, <3>1
    <2> QED
        BY <1>7, <2>5, <2>6, <2>7 DEF BkTypeOK
<1> QED
    BY <1>12, <1>13, <1>14, <1>15, <1>16, <1>17, <1>18, <1>19, <1>20, <1>21

\* The invariant is inductive.
LEMMA BkStepInv ==
    ASSUME N = 3 * F + 1
    PROVE  BkInv /\ [Bk!BkNext]_Bk!bkVars => BkInv'
<1> SUFFICES ASSUME BkInv, [Bk!BkNext]_Bk!bkVars
             PROVE  BkInv'
    OBVIOUS
<1>1. CASE Bk!SuperTimer
    BY <1>1, SuperTimerKeeps
<1>2. ASSUME NEW p \in Nodes, Bk!HandleOk(p)
      PROVE  BkInv'
    BY <1>2, OkCounted
<1>3. ASSUME NEW p \in Nodes, NEW chain, Bk!HandleVote(p, chain)
      PROVE  BkInv'
    BY <1>3, BoltVoteCounted
<1>4. ASSUME NEW p \in Nodes, Bk!HandleDecide(p) \/ Bk!SlotTimer(p)
      PROVE  BkInv'
    BY <1>4, DecideQueued
<1>5. ASSUME NEW p \in Nodes, Bk!OneSlot(p)
      PROVE  BkInv'
    BY <1>5, BoltSlotDone
<1>6. CASE UNCHANGED Bk!bkVars
    <2>1. /\ UNCHANGED <<bkLeader, bkHolds, bkSlot, bkChain, bkNotar, bkFixed, bkSent, bkItem>>
          /\ UNCHANGED <<bkOkers, bkVotes, bkVoters, bkFlag, bkLate, bkDeaf>>
        BY <1>6 DEF Bk!bkVars, Bk!bkConst, Bk!bkNode, Bk!bkLead
    <2>2. VotersHave' /\ DeafQuiet'
        BY <2>1 DEF BkInv, VotersHave, Having, DeafQuiet
    <2> QED
        BY <2>1, <2>2, QuietKeeps DEF BkInv, BkTypeOK
<1> QED
    BY <1>1, <1>2, <1>3, <1>4, <1>5, <1>6 DEF Bk!BkNext

\* A DECIDE of a slot before the last is the only one.
LEMMA OneDecide ==
    ASSUME BkInv, NEW x \in Sent
    PROVE  /\ SlotsSent \in Nat /\ x.slot \in Nat /\ x.slot <= SlotsSent
           /\ x.slot < SlotsSent => x = bkSent[x.slot]
<1> USE DEF BkInv
<1>1. PICK i \in DOMAIN bkSent : x = bkSent[i]
    BY DEF Sent
<1>2. x \in Decides /\ x.slot \in Nat
    <2>1. x \in Decides
        BY DEF Sent, BkTypeOK
    <2> QED
        BY <2>1 DEF Decides
<1>3. SlotsSent \in Nat
    BY DEF SlotsSent, BkTypeOK
<1>4. i \in 1 .. Len(bkSent) /\ Len(bkSent) \in Nat
    BY <1>1, LenProperties DEF BkTypeOK
<1>5. CASE i \in 1 .. SlotsSent
    BY <1>1, <1>2, <1>3, <1>5 DEF SentOnce
<1>6. CASE i = Len(bkSent) /\ Len(bkSent) = SlotsSent + 1
    BY <1>1, <1>2, <1>3, <1>6 DEF SentOnce
<1> QED
    BY <1>3, <1>4, <1>5, <1>6 DEF SentOnce

\* All but the last block of a chain are those of the only DECIDEs.
LEMMA ChainOfDecides ==
    ASSUME BkInv, NEW p \in Nodes, NEW k \in 1 .. Len(bkChain[p]) - 1
    PROVE  bkChain[p][k] = bkSent[k].batch
<1> USE DEF BkInv
<1>1. bkChain[p] \in Seq(Batches) /\ Len(bkChain[p]) \in Nat
    BY DEF BkTypeOK
<1>2. k \in 1 .. Len(bkChain[p]) /\ Len(bkChain[p]) \in 1 .. Len(bkChain[p])
    BY <1>1
<1>3. PICK x \in Sent : x.slot = Len(bkChain[p])
    BY <1>2 DEF ChainsSent
<1>4. PICK y \in Sent : y.slot = k /\ y.batch = bkChain[p][k]
    BY <1>2 DEF ChainsSent
<1>5. k < SlotsSent
    BY <1>1, <1>3, OneDecide
<1> QED
    BY <1>4, <1>5, OneDecide

\* So of two chains of notarized blocks one is a prefix of the other.
LEMMA ChainsComparable ==
    ASSUME BkInv, NEW p \in Nodes, NEW q \in Nodes, Len(bkChain[p]) <= Len(bkChain[q])
    PROVE  Bk!IsPrefix(Bk!Notarized(p), Bk!Notarized(q))
<1> USE DEF BkInv
<1>1. PICK c \in Seq(Batches) : c = bkChain[p]
    BY DEF BkTypeOK
<1>2. PICK d \in Seq(Batches) : d = bkChain[q]
    BY DEF BkTypeOK
<1>3. Len(c) \in Nat /\ Len(d) \in Nat /\ Len(c) <= Len(d)
    BY <1>1, <1>2, LenProperties
<1>4. PICK m \in Nat, n \in Nat :
          /\ (Len(c) = 0 /\ m = 0) \/ (Len(c) > 0 /\ m = Len(c) - 1)
          /\ (Len(d) = 0 /\ n = 0) \/ (Len(d) > 0 /\ n = Len(d) - 1)
    <2>1. ASSUME NEW k \in Nat
          PROVE  \E m \in Nat : (k = 0 /\ m = 0) \/ (k > 0 /\ m = k - 1)
        <3>1. CASE k = 0
            BY <3>1
        <3>2. CASE k > 0
            <4>1. k - 1 \in Nat
                BY <3>2
            <4> QED
                BY <3>2, <4>1
        <3> QED
            BY <3>1, <3>2
    <2> QED
        BY <1>3, <2>1
<1>5. m <= n /\ m <= Len(c) /\ n <= Len(d)
    BY <1>3, <1>4
<1>6. PICK a : a = SubSeq(c, 1, Len(c) - 1)
    OBVIOUS
<1>7. PICK b : b = SubSeq(d, 1, Len(d) - 1)
    OBVIOUS
<1>8. a \in Seq(Batches) /\ Len(a) = m /\ \A k \in 1 .. m : a[k] = c[k]
    <2>1. \A k \in 1 .. Len(c) - 1 : c[k] \in Batches
        BY <1>1, ElementOfSeq
    <2> QED
        BY <1>3, <1>4, <1>6, <2>1, SubSeqProperties
<1>9. b \in Seq(Batches) /\ Len(b) = n /\ \A k \in 1 .. n : b[k] = d[k]
    <2>1. \A k \in 1 .. Len(d) - 1 : d[k] \in Batches
        BY <1>2, ElementOfSeq
    <2> QED
        BY <1>3, <1>4, <1>7, <2>1, SubSeqProperties
<1>10. \A k \in 1 .. m : a[k] = b[k]
    <2> TAKE k \in 1 .. m
    <2>1. k \in 1 .. Len(c) - 1 /\ k \in 1 .. Len(d) - 1 /\ k \in 1 .. n
        BY <1>3, <1>4, <1>5
    <2>2. c[k] = bkSent[k].batch /\ d[k] = bkSent[k].batch
        BY <1>1, <1>2, <2>1, ChainOfDecides
    <2> QED
        BY <1>8, <1>9, <2>1, <2>2
<1>11. SubSeq(a, 1, m) = SubSeq(b, 1, m)
    <2>1. \A k \in 1 .. m : a[k] \in Batches /\ b[k] \in Batches
        BY <1>5, <1>8, <1>9, ElementOfSeq
    <2>2. /\ SubSeq(a, 1, m) \in Seq(Batches) /\ SubSeq(b, 1, m) \in Seq(Batches)
          /\ Len(SubSeq(a, 1, m)) = m /\ Len(SubSeq(b, 1, m)) = m
          /\ \A k \in 1 .. m : SubSeq(a, 1, m)[k] = a[k] /\ SubSeq(b, 1, m)[k] = b[k]
        BY <2>1, SubSeqProperties
    <2> QED
        BY <1>10, <2>2, SeqEqual
<1> QED
    BY <1>1, <1>2, <1>5, <1>6, <1>7, <1>8, <1>9, <1>11 DEF Bk!IsPrefix, Bk!Notarized

\* What bolt promises follows.
LEMMA BkInvKeepsChain == BkInv => Bk!BoltKeepsChain
<1> SUFFICES ASSUME BkInv
             PROVE  Bk!BoltOneChain /\ Bk!BoltFixedHeld
    BY DEF Bk!BoltKeepsChain
<1>1. \A p \in Nodes : bkChain[p] \in Seq(Batches) /\ Len(bkChain[p]) \in Nat
    BY DEF BkInv, BkTypeOK
<1>2. ASSUME NEW p \in Nodes, NEW q \in Nodes
      PROVE  \/ Bk!IsPrefix(Bk!Notarized(p), Bk!Notarized(q))
             \/ Bk!IsPrefix(Bk!Notarized(q), Bk!Notarized(p))
    <2>1. Len(bkChain[p]) <= Len(bkChain[q]) \/ Len(bkChain[q]) <= Len(bkChain[p])
        BY <1>1
    <2> QED
        BY <2>1, ChainsComparable
<1>3. ASSUME NEW p \in Nodes, bkHolds \in Quorum, bkChain[p] # << >>
      PROVE  bkChain[p][1] = "old"
    <2>1. 1 \in 1 .. Len(bkChain[p])
        BY <1>1, <1>3
    <2>2. PICK x \in Sent : x.slot = 1 /\ x.batch = bkChain[p][1]
        BY <2>1 DEF BkInv, ChainsSent
    <2> QED
        BY <1>3, <2>2 DEF BkInv, OpenedOnce, Opens
<1>4. Bk!BoltOneChain
    BY <1>2, <1>3, BkNumbers DEF Bk!BoltOneChain
<1>5. ASSUME NEW p \in Nodes, bkFixed[p] > 0
      PROVE  \/ \A q \in Nodes : Len(bkChain[q]) >= bkFixed[p]
             \/ {q \in Nodes : Len(bkChain[q]) > bkFixed[p]} \in Quorum
    <2>1. bkFixed[p] \in Nat
        BY DEF BkInv, BkTypeOK
    <2>2. Having(bkFixed[p]) = Nodes \/ Having(bkFixed[p] + 1) \in Quorum
        BY <1>5 DEF BkInv, FixedHad
    <2>3. CASE Having(bkFixed[p]) = Nodes
        BY <2>3 DEF Having
    <2>4. CASE Having(bkFixed[p] + 1) \in Quorum
        <3>1. Having(bkFixed[p] + 1) = {q \in Nodes : Len(bkChain[q]) > bkFixed[p]}
            BY <1>1, <2>1 DEF Having
        <3> QED
            BY <2>4, <3>1
    <2> QED
        BY <2>2, <2>3, <2>4
<1>6. Bk!BoltFixedHeld
    BY <1>5, BkNumbers DEF Bk!BoltFixedHeld
<1> QED
    BY <1>4, <1>6
-----------------------------------------------------------------------------
(***************************************************************************)
(* The theorems: of each component's specification, and of the suite, of   *)
(* which a behaviour is one of one component.                              *)
(***************************************************************************)
\* Of Dumbo-NG's broadcast: of the round any node waits for, N - f nodes wait
\* for at least the one before.
THEOREM BroadcastSafe == Nw!NwSpec => []Nw!NwOutputHeld
<1> QED
    BY NwInitInv, NwStepInv, NwInvHeld, PTL DEF Nw!NwSpec

\* Of Dumbo-NG: all but the last block a cut names of the source are held by
\* N - f nodes, and each cut advances N - f broadcasts.
THEOREM DumboNgSafe == Ng!NgSpec => []Ng!CutHeld
<1> QED
    BY NgInitInv, NgStepInv, NgInvHeld, PTL DEF Ng!NgSpec

\* Of Dumbo-NG: when nothing is left to do, the broadcasts of N - f nodes do
\* not all go on past the last cut, unless the dead source left a live node
\* without a block that a cut counts on.
THEOREM DumboNgGoesOn == Ng!NgSpec => []Ng!EpochsGoOn
<1>1. Ng!NgInit => NgInv /\ NgWaitInv
    BY NgInitInv, NgWaitInit
<1>2. (NgInv /\ NgWaitInv) /\ [Ng!NgNext]_Ng!ngVars => (NgInv /\ NgWaitInv)'
    BY NgStepInv, NgWaitStep
<1>3. NgInv /\ NgWaitInv => Ng!EpochsGoOn
    BY EpochsDoGoOn
<1> QED
    BY <1>1, <1>2, <1>3, PTL DEF Ng!NgSpec

\* Of the common subsets of Dumbo and speedy Dumbo: when nothing is left to do
\* every live node of Dumbo has returned, and one of speedy Dumbo that has not
\* misses values of dead nodes only, each of which N - f nodes hold.
THEOREM CommonSubsetEnds == Cs!CsSpec => []Cs!SubsetReturned
<1> QED
    BY CsInitInv, CsStepInv, CsInvReturned, PTL DEF Cs!CsSpec

\* Of DispersedLedger's retrieval: a decided block is decoded at every live
\* node, for all numbers of nodes and up to f crashes.
THEOREM LedgerSafe == Dl!DlSpec => []Dl!DlRetrieved
<1> QED
    BY DlInitInv, DlStepInv, DlInvRetrieved, PTL DEF Dl!DlSpec

\* Of smvba_e: nodes that halt agree, unless one of them halted on an output of
\* the round before or some node signed although it had prevoted no.
THEOREM SpeedMvbaEAgrees == Me!MeSpec => []Me!MeAgreeUnlessStale
<1> QED
    BY MeInitInv, MeStepInv, MeInvAgrees, PTL DEF Me!MeSpec

\* Of smvba_e: when nothing is left to do every node has halted, or more than
\* f nodes ran into the exception that skips their set up of round 1.
THEOREM SpeedMvbaEHalts == Me!MeSpec => []Me!MeHaltsUnlessSkipped
<1>1. Me!MeInit => MeInv /\ MeWaitInv
    BY MeInitInv, MeWaitInit
<1>2. (MeInv /\ MeWaitInv) /\ [Me!MeNext]_Me!meVars => (MeInv /\ MeWaitInv)'
    BY MeStepInv, MeWaitStep
<1>3. MeInv /\ MeWaitInv => Me!MeHaltsUnlessSkipped
    BY MeHalting
<1> QED
    BY <1>1, <1>2, <1>3, PTL DEF Me!MeSpec

\* Of sufallback and Superfast, for all numbers of nodes: a node whose wait has
\* not ended is mute, divided by zero, returned from a whole fast path, or is
\* the leader with too few votes or statistics.
THEOREM SuperFallbackWaits == Sf!SfSpec => []Sf!WaitsExplained
<1> QED
    BY SfWaitInit, SfWaitStep, SfWaitsExplained, PTL DEF Sf!SfSpec

\* Of sufallback: no time-out of the fast path of BDT+ loses a fixed block,
\* when there are 3f + 1 nodes.
THEOREM SuperFallbackSafe ==
    ASSUME N = 3 * F + 1
    PROVE  Sf!SfSpec => []Sf!FallbackKeepsFixed
<1>1. SfInv /\ [Sf!SfNext]_Sf!sfVars => SfInv'
    BY SfStepInv
<1> QED
    BY <1>1, SfInitInv, SfInvKeepsFixed, PTL DEF Sf!SfSpec

\* Of bolt: the notarized blocks form one chain, which begins with what the
\* last leader left open if N - f nodes hold it, and no fixed block is lost,
\* when there are 3f + 1 nodes.
THEOREM BoltSafe ==
    ASSUME N = 3 * F + 1
    PROVE  Bk!BkSpec => []Bk!BoltKeepsChain
<1>1. BkInv /\ [Bk!BkNext]_Bk!bkVars => BkInv'
    BY BkStepInv
<1> QED
    BY <1>1, BkInitInv, BkInvKeepsChain, PTL DEF Bk!BkSpec

\* The invariant of the component the behaviour is of.
SuiteInv ==
    /\ running = "Nw" => NwInv
    /\ running = "Ng" => NgInv /\ NgWaitInv
    /\ running = "Dl" => DlInv
    /\ running = "Cs" => CsInv
    /\ running = "Me" => MeInv /\ MeWaitInv
    /\ running = "Sf" => SfWaitInv

\* A step of the suite is one of the component that is running.
LEMMA SuiteSteps ==
    ASSUME [Next]_vars
    PROVE  /\ UNCHANGED running
           /\ running = "Nw" => [Nw!NwNext]_Nw!nwVars
           /\ running = "Ng" => [Ng!NgNext]_Ng!ngVars
           /\ running = "Dl" => [Dl!DlNext]_Dl!dlVars
           /\ running = "Cs" => [Cs!CsNext]_Cs!csVars
           /\ running = "Me" => [Me!MeNext]_Me!meVars
           /\ running = "Sf" => [Sf!SfNext]_Sf!sfVars
           /\ running = "Bk" => [Bk!BkNext]_Bk!bkVars
<1>1. UNCHANGED running
    BY DEF Next, vars
<1>2. running = "Ng" => [Ng!NgNext]_Ng!ngVars
    BY DEF Next, vars, NgState, Ng!ngVars
<1>3. running = "Dl" => [Dl!DlNext]_Dl!dlVars
    BY DEF Next, vars, DlState, Dl!dlVars, Dl!dlCast, Dl!dlCbc, Dl!dlRound, Dl!dlFaults
<1>4. running = "Me" => [Me!MeNext]_Me!meVars
    BY DEF Next, vars, MeState, Me!meVars, Me!meSpbcVars, Me!meVoteVars, Me!meAgainVars
<1>5. running = "Sf" => [Sf!SfNext]_Sf!sfVars
    BY DEF Next, vars, SfState, Sf!sfVars, Sf!sfConst, Sf!sfPath
<1>6. running = "Nw" => [Nw!NwNext]_Nw!nwVars
    BY DEF Next, vars, NwState, Nw!nwVars
<1>7. running = "Bk" => [Bk!BkNext]_Bk!bkVars
    BY DEF Next, vars, BkState, Bk!bkVars, Bk!bkConst, Bk!bkNode, Bk!bkLead
<1>8. running = "Cs" => [Cs!CsNext]_Cs!csVars
    BY DEF Next, vars, CsState, Cs!csVars
<1> QED
    BY <1>1, <1>2, <1>3, <1>4, <1>5, <1>6, <1>7, <1>8

\* The invariants are inductive in the suite.
LEMMA SuiteKeepsInv == Spec => []SuiteInv
<1>1. Init => SuiteInv
    BY NwInitInv, NgInitInv, NgWaitInit, DlInitInv, CsInitInv, MeInitInv, MeWaitInit, SfWaitInit
        DEF Init, SuiteInv
<1>2. SuiteInv /\ [Next]_vars => SuiteInv'
    BY SuiteSteps, NwStepInv, NgStepInv, NgWaitStep, DlStepInv, CsStepInv, MeStepInv, MeWaitStep,
        SfWaitStep DEF SuiteInv
<1> QED
    BY <1>1, <1>2, PTL DEF Spec

\* Of Dumbo-NG's broadcast as it is run, on FIFO links: when nothing is left to
\* be handled, the leader lives and f or fewer crashed, every live node has
\* output all rounds, although the PROPOSAL of 0 comes twice.
THEOREM BroadcastDelivers ==
    ASSUME ~ NwPriority
    PROVE  Spec => []NwDelivers
<1>1. SuiteInv => NwDelivers
    BY NwInvHeld, NwInvDelivers DEF SuiteInv, NwDelivers, Nw!NwDelivers
<1> QED
    BY <1>1, SuiteKeepsInv, PTL

\* As DumboNgSafe, of the specification that is run.
THEOREM CutsHeld == Spec => []CutHeld
<1>1. SuiteInv => CutHeld
    BY NgInvHeld DEF SuiteInv, CutHeld
<1> QED
    BY <1>1, SuiteKeepsInv, PTL

\* As DumboNgGoesOn, of the specification that is run.
THEOREM EpochsContinue == Spec => []EpochsGoOn
<1>1. SuiteInv => EpochsGoOn
    BY EpochsDoGoOn DEF SuiteInv, EpochsGoOn
<1> QED
    BY <1>1, SuiteKeepsInv, PTL

\* As CommonSubsetEnds, of the specification that is run.
THEOREM VectorsReturned == Spec => []SubsetReturned
<1>1. SuiteInv => SubsetReturned
    BY CsInvReturned DEF SuiteInv, SubsetReturned
<1> QED
    BY <1>1, SuiteKeepsInv, PTL

\* As LedgerSafe, of the specification that is run.
THEOREM BlocksRetrieved == Spec => []DlRetrieved
<1>1. SuiteInv => DlRetrieved
    BY DlInvRetrieved DEF SuiteInv, DlRetrieved
<1> QED
    BY <1>1, SuiteKeepsInv, PTL

\* As SpeedMvbaEAgrees, of the specification that is run.
THEOREM RoundsAgree == Spec => []MeAgreeUnlessStale
<1>1. SuiteInv => MeAgreeUnlessStale
    BY MeInvAgrees DEF SuiteInv, MeAgreeUnlessStale
<1> QED
    BY <1>1, SuiteKeepsInv, PTL

\* As SpeedMvbaEHalts, of the specification that is run.
THEOREM RoundsHalt == Spec => []MeHaltsUnlessSkipped
<1>1. SuiteInv => MeHaltsUnlessSkipped
    BY MeHalting DEF SuiteInv, MeHaltsUnlessSkipped
<1> QED
    BY <1>1, SuiteKeepsInv, PTL

\* As SuperFallbackWaits, of the specification that is run.
THEOREM WaitsEnd == Spec => []WaitsExplained
<1>1. SuiteInv => WaitsExplained
    BY SfWaitsExplained DEF SuiteInv, WaitsExplained
<1> QED
    BY <1>1, SuiteKeepsInv, PTL

\* As SuperFallbackSafe, of the specification that is run.
THEOREM FixedKept ==
    ASSUME N = 3 * F + 1
    PROVE  Spec => []FallbackKeepsFixed
<1> DEFINE Kept == running = "Sf" => SfInv
<1>1. Init => Kept
    BY SfInitInv DEF Init
<1>2. Kept /\ [Next]_vars => Kept'
    BY SuiteSteps, SfStepInv
<1>3. Kept => FallbackKeepsFixed
    BY SfInvKeepsFixed DEF FallbackKeepsFixed
<1> HIDE DEF Kept
<1> QED
    BY <1>1, <1>2, <1>3, PTL DEF Spec

\* As BoltSafe, of the specification that is run.
THEOREM ChainKept ==
    ASSUME N = 3 * F + 1
    PROVE  Spec => []BoltKeepsChain
<1> DEFINE Kept == running = "Bk" => BkInv
<1>1. Init => Kept
    BY BkInitInv DEF Init
<1>2. Kept /\ [Next]_vars => Kept'
    BY SuiteSteps, BkStepInv
<1>3. Kept => BoltKeepsChain
    BY BkInvKeepsChain DEF BoltKeepsChain
<1> HIDE DEF Kept
<1> QED
    BY <1>1, <1>2, <1>3, PTL DEF Spec
=============================================================================
