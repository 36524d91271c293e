--------------------------- MODULE HsFastPathProof ---------------------------
(***************************************************************************)
(* The fast path keeps its chain and implements FastPathSpec, for every    *)
(* number of nodes and slots: inductive invariant and proofs.  The idea of *)
(* the invariant: the DECIDEs that the leader has sent are the chain, and  *)
(* all that a node holds is read off that chain at the node's slot.        *)
(***************************************************************************)
EXTENDS HsFastPath, QuorumLemmas, SequenceTheorems

\* The tip of a node in slot s, and the block of slot s, on the leader's chain.
Tip(s) ==
    IF s = 1 THEN << >>
    ELSE HeaderHash(s - 1, decideSent[s - 1].hash, decideSent[s - 1].batch)
BlockAt(s) ==
    [slot |-> s, hash |-> decideSent[s].hash, batch |-> decideSent[s].batch]

Known(s) == \A r \in Slots : r < s => decideSent[r] # None

\* A DECIDE extends the one before it and is certified by a quorum that had
\* reached its slot.
DecidesChained ==
    \A s \in Slots : decideSent[s] # None =>
        /\ Known(s)
        /\ decideSent[s].hash = Tip(s)
        /\ decideSent[s].sigma \in Quorum
        /\ \A q \in decideSent[s].sigma : slotCur[q] >= s

\* The hash of a DECIDE commits to all batches before it.
HashesCommit ==
    \A s \in Slots : decideSent[s] # None =>
        /\ Len(decideSent[s].hash) = s - 1
        /\ \A i \in 1 .. s - 1 : decideSent[s].hash[i] = <<i, decideSent[i].batch>>

\* What a node holds is the chain up to its slot.
OnChain ==
    \A p \in Nodes :
        /\ Known(slotCur[p])
        /\ hashPrev[p] = Tip(slotCur[p])
        /\ pending[p] = IF slotCur[p] = 1 THEN None ELSE BlockAt(slotCur[p] - 1)

BlocksRotate ==
    \A p \in Nodes : phase[p] \notin {"raised", "crashed"} =>
        /\ notarized[p] = IF slotCur[p] <= 2 THEN None ELSE BlockAt(slotCur[p] - 2)
        /\ fixed[p] = IF slotCur[p] <= 3 THEN None ELSE BlockAt(slotCur[p] - 3)

OutputsCertified ==
    \A p \in Nodes : output[p] # None =>
        /\ slotCur[p] > 2
        /\ output[p].block = BlockAt(slotCur[p] - 2)
        /\ output[p].certified = decideSent[slotCur[p] - 1].hash
        /\ output[p].sigma = decideSent[slotCur[p] - 1].sigma

\* The statistics have counted a transaction iff one is in a block that the
\* node fixed.
StatisticsCount ==
    \A p \in Nodes : phase[p] \in {"enter", "wait"} =>
        (epochTx[p] = 0 <=>
            \A k \in Slots : StatFrom <= k /\ k <= slotCur[p] - 3
                                 => decideSent[k].batch # "Tx")

\* A queued DECIDE is the one of the node's slot.
QueuesCurrent ==
    \A p \in Nodes : decides[p] # None =>
        /\ slotCur[p] \in Slots
        /\ decideSent[slotCur[p]] # None
        /\ decides[p] = decideSent[slotCur[p]]
        /\ p # Leader => handled[p] >= slotCur[p]
        /\ p = Leader => Cardinality(voters[slotCur[p]]) >= N - F

\* Nobody votes for a slot that it has not reached.
VotesReached ==
    /\ \A m \in voteMsgs : slotCur[m.sender] >= m.slot
    /\ \A s \in Slots : \A q \in voters[s] : slotCur[q] >= s

PhasesInSlots ==
    \A p \in Nodes :
        /\ phase[p] = "enter" => slotCur[p] = 1
        /\ phase[p] = "wait" => slotCur[p] \in Slots

HfInv ==
    /\ TypeOK
    /\ DecidesChained
    /\ HashesCommit
    /\ OnChain
    /\ BlocksRotate
    /\ OutputsCertified
    /\ StatisticsCount
    /\ QueuesCurrent
    /\ VotesReached
    /\ PhasesInSlots
-----------------------------------------------------------------------------
(***************************************************************************)
(* Facts about the chain of DECIDEs.                                       *)
(***************************************************************************)
LEMMA Constants ==
    /\ SlotsNum \in Nat
    /\ LastSlot \in Nat \ {0, 1}
    /\ Slots = 1 .. LastSlot
    /\ StatFrom \in Nat \ {0}
    /\ None \notin Batches
    /\ Leader \in Nodes
BY FastPathAssumption DEF LastSlot, Slots, Batches

\* The block of a decided slot is a block.
LEMMA BlockIsBlock ==
    ASSUME TypeOK, NEW s \in Slots, decideSent[s] # None
    PROVE  /\ decideSent[s] \in Items
           /\ BlockAt(s) \in Blocks
           /\ BlockAt(s) # None
           /\ BlockAt(s).slot = s
           /\ BlockAt(s).batch = decideSent[s].batch
<1>1. decideSent[s] \in Items
    BY DEF TypeOK
<1>2. BlockAt(s) \in Blocks
    BY <1>1 DEF Items, Blocks, BlockAt
<1> QED
    BY <1>1, <1>2, NoneAssumption DEF BlockAt

\* A hash is a sequence, and hashing a block lengthens it by one.
LEMMA HashExtends ==
    ASSUME NEW h \in Hashes, NEW s \in Slots, NEW b \in Batches
    PROVE  /\ HeaderHash(s, h, b) \in Hashes
           /\ Len(HeaderHash(s, h, b)) = Len(h) + 1
           /\ HeaderHash(s, h, b)[Len(h) + 1] = <<s, b>>
           /\ \A i \in 1 .. Len(h) : HeaderHash(s, h, b)[i] = h[i]
BY DEF Hashes, HeaderHash

\* The tip of a slot commits to the batches of all slots before it.
LEMMA TipCommits ==
    ASSUME TypeOK, HashesCommit, NEW s \in 1 .. LastSlot + 1, Known(s)
    PROVE  /\ Tip(s) \in Hashes
           /\ Len(Tip(s)) = s - 1
           /\ \A i \in 1 .. s - 1 : Tip(s)[i] = <<i, decideSent[i].batch>>
<1>1. CASE s = 1
    BY <1>1 DEF Tip, Hashes
<1>2. CASE s # 1
    <2> DEFINE h == decideSent[s - 1].hash
               b == decideSent[s - 1].batch
    <2>1. s - 1 \in Slots /\ s - 1 < s
        BY <1>2, Constants
    <2>2. decideSent[s - 1] # None
        BY <2>1 DEF Known
    <2>3. decideSent[s - 1] \in Items
        BY <2>1, <2>2, BlockIsBlock
    <2>4. h \in Hashes /\ b \in Batches
        BY <2>3 DEF Items
    <2>5. /\ Len(h) = s - 2
          /\ \A i \in 1 .. s - 2 : h[i] = <<i, decideSent[i].batch>>
        <3> DEFINE r == s - 1
        <3>1. r \in Slots /\ decideSent[r] # None /\ r - 1 = s - 2
            BY <2>1, <2>2, Constants
        <3> HIDE DEF r
        <3>2. /\ Len(decideSent[r].hash) = r - 1
              /\ \A i \in 1 .. r - 1 : decideSent[r].hash[i] = <<i, decideSent[i].batch>>
            BY <3>1 DEF HashesCommit
        <3> QED
            BY <3>1, <3>2 DEF r
    <2>6. Tip(s) = HeaderHash(s - 1, h, b)
        BY <1>2 DEF Tip
    <2>7. /\ HeaderHash(s - 1, h, b) \in Hashes
          /\ Len(HeaderHash(s - 1, h, b)) = s - 1
          /\ HeaderHash(s - 1, h, b)[s - 1] = <<s - 1, b>>
          /\ \A i \in 1 .. s - 2 : HeaderHash(s - 1, h, b)[i] = h[i]
        <3> HIDE DEF h, b
        <3>1. Len(h) + 1 = s - 1
            BY <2>5, <2>1, Constants
        <3> QED
            BY <2>1, <2>4, <2>5, <3>1, HashExtends
    <2>8. ASSUME NEW i \in 1 .. s - 1
          PROVE  Tip(s)[i] = <<i, decideSent[i].batch>>
        <3>1. CASE i = s - 1
            BY <3>1, <2>6, <2>7
        <3>2. CASE i # s - 1
            <4>1. i \in 1 .. s - 2
                BY <3>2, Constants
            <4> QED
                BY <4>1, <2>5, <2>6, <2>7
        <3> QED
            BY <3>1, <3>2
    <2> QED
        BY <2>6, <2>7, <2>8
<1> QED
    BY <1>1, <1>2

\* The chain is only extended: a DECIDE that was sent stays what it is.
ChainGrows ==
    \A s \in Slots : decideSent[s] # None => decideSent'[s] = decideSent[s]

\* What is known of the chain stays the same when it grows.
LEMMA KnownStays ==
    ASSUME ChainGrows, NEW s \in 1 .. LastSlot + 1, Known(s)
    PROVE  /\ Known(s)'
           /\ Tip(s)' = Tip(s)
           /\ \A r \in Slots : r < s => /\ decideSent'[r] = decideSent[r]
                                        /\ BlockAt(r)' = BlockAt(r)
<1>1. \A r \in Slots : r < s => decideSent[r] # None /\ decideSent'[r] = decideSent[r]
    BY DEF Known, ChainGrows
<1>2. Known(s)'
    BY <1>1 DEF Known
<1>3. Tip(s)' = Tip(s)
    <2>1. s # 1 => s - 1 \in Slots /\ s - 1 < s
        BY Constants
    <2> QED
        BY <1>1, <2>1 DEF Tip
<1> QED
    BY <1>1, <1>2, <1>3 DEF BlockAt
-----------------------------------------------------------------------------
(***************************************************************************)
(* The invariant holds initially.                                          *)
(***************************************************************************)
LEMMA FirstSlot == Known(1) /\ Tip(1) = << >> /\ 1 \in 1 .. LastSlot + 1
BY Constants DEF Known, Tip

LEMMA InitType == Init => TypeOK
<1> SUFFICES ASSUME Init PROVE TypeOK
    OBVIOUS
<1>1. /\ 1 \in 1 .. LastSlot + 1
      /\ 0 \in 0 .. LastSlot
      /\ LastSlot \in 0 .. LastSlot
    BY Constants
<1>2. << >> \in Hashes
    BY DEF Hashes
<1>3. buffer \in [Nodes -> Nat]
    BY FastPathAssumption DEF Init
<1>4. \A p \in Nodes : "enter" \in Phases
    BY DEF Phases
<1> QED
    BY <1>1, <1>2, <1>3, <1>4 DEF Init, TypeOK

LEMMA InitHolds == Init => HfInv
<1> SUFFICES ASSUME Init PROVE HfInv
    OBVIOUS
<1>1. TypeOK
    BY InitType
<1>2. DecidesChained /\ HashesCommit
    BY DEF Init, DecidesChained, HashesCommit
<1>3. OnChain
    BY FirstSlot DEF Init, OnChain
<1>4. BlocksRotate
    BY DEF Init, BlocksRotate
<1>5. OutputsCertified
    BY DEF Init, OutputsCertified
<1>6. StatisticsCount
    BY Constants DEF Init, StatisticsCount
<1>7. QueuesCurrent
    BY DEF Init, QueuesCurrent
<1>8. VotesReached
    BY DEF Init, VotesReached
<1>9. PhasesInSlots
    BY DEF Init, PhasesInSlots
<1> QED
    BY <1>1, <1>2, <1>3, <1>4, <1>5, <1>6, <1>7, <1>8, <1>9 DEF HfInv
-----------------------------------------------------------------------------
(***************************************************************************)
(* Every step keeps the types.                                             *)
(***************************************************************************)
LEMMA BatchIsBatch ==
    ASSUME NEW s \in Slots PROVE NextBatch(s) \in Batches
BY DEF NextBatch, Batches

LEMMA VoteIsVote ==
    ASSUME NEW p \in Nodes, NEW s \in Slots, NEW h \in Hashes
    PROVE  /\ Vote(p, s, h) \in Votes
           /\ Vote(p, s, h).sender = p
           /\ Vote(p, s, h).slot = s
           /\ Vote(p, s, h).hash = h
BY DEF Vote, Votes

\* A batch in the buffer is only taken when there is one.
LEMMA CountVoteType ==
    ASSUME HfInv, NEW m \in voteMsgs, CountVote(m)
    PROVE  TypeOK'
<1> USE DEF HfInv
<1> DEFINE s       == m.slot
           signers == voters[s] \cup {m.sender}
           item    == [hash |-> hashPrev[Leader], sigma |-> signers,
                       batch |-> NextBatch(s)]
<1>1. m \in Votes /\ s \in Slots /\ m.sender \in Nodes
    BY DEF TypeOK, Votes
<1>2. signers \in SUBSET Nodes
    BY <1>1 DEF TypeOK
<1>3. item \in Items
    <2>1. NextBatch(s) \in Batches
        BY <1>1, BatchIsBatch
    <2>2. hashPrev[Leader] \in Hashes
        BY Constants DEF TypeOK
    <2> QED
        BY <1>2, <2>1, <2>2 DEF Items
<1>4. voters' = [voters EXCEPT ![s] = signers] /\ voteMsgs' = voteMsgs \ {m}
    BY DEF CountVote
<1>5. /\ decideSent' \in [Slots -> Items \cup {None}]
      /\ decides' \in [Nodes -> Items \cup {None}]
      /\ buffer' \in [Nodes -> Nat]
    <2>1. CASE Cardinality(signers) = VotesNeeded /\ decideSent[s] = None
        <3>1. /\ decideSent' = [decideSent EXCEPT ![s] = item]
              /\ decides' = [decides EXCEPT ![Leader] = item]
              /\ buffer' = IF item.batch = "Tx"
                           THEN [buffer EXCEPT ![Leader] = @ - 1] ELSE buffer
            BY <2>1 DEF CountVote
        <3>2. item.batch = "Tx" => buffer[Leader] # 0
            BY DEF NextBatch
        <3> HIDE DEF item
        <3>3. buffer' \in [Nodes -> Nat]
            BY <3>1, <3>2, Constants DEF TypeOK
        <3> QED
            BY <3>1, <3>3, <1>3, <1>1, Constants DEF TypeOK
    <2>2. CASE ~ (Cardinality(signers) = VotesNeeded /\ decideSent[s] = None)
        <3>1. UNCHANGED <<decideSent, decides, buffer>>
            BY <2>2 DEF CountVote
        <3> QED
            BY <3>1 DEF TypeOK
    <2> QED
        BY <2>1, <2>2
<1>6. voters' \in [Slots -> SUBSET Nodes] /\ voteMsgs' \in SUBSET Votes
    <2> HIDE DEF signers, s
    <2> QED
        BY <1>1, <1>2, <1>4 DEF TypeOK
<1>7. UNCHANGED <<nodeVars, phase, handled, reach>>
    BY DEF CountVote
<1> QED
    BY <1>5, <1>6, <1>7 DEF TypeOK, nodeVars

\* What the node holds when its main greenlet wakes with the DECIDE of its slot.
LEMMA Waking ==
    ASSUME HfInv, NEW p \in Nodes, phase[p] = "wait", decides[p] # None
    PROVE  /\ slotCur[p] \in Slots
           /\ decideSent[slotCur[p]] # None
           /\ decides[p] = decideSent[slotCur[p]]
           /\ decides[p] \in Items
           /\ pending[p] = IF slotCur[p] = 1 THEN None ELSE BlockAt(slotCur[p] - 1)
           /\ NewNotarized(p) =
                 IF slotCur[p] = 1 THEN None ELSE BlockAt(slotCur[p] - 1)
           /\ NewFixed(p) =
                 IF slotCur[p] <= 2 THEN None ELSE BlockAt(slotCur[p] - 2)
           /\ slotCur[p] > 2 => BlockAt(slotCur[p] - 2) \in Blocks \ {None}
           /\ slotCur[p] # 1 => BlockAt(slotCur[p] - 1) \in Blocks \ {None}
           /\ (pending[p] = None) <=> (slotCur[p] = 1)
           /\ NewNotarized(p) \in Blocks \cup {None}
           /\ NewFixed(p) \in Blocks \cup {None}
<1> DEFINE s == slotCur[p]
<1> USE DEF HfInv
<1>1. /\ s \in Slots
      /\ decideSent[s] # None
      /\ decides[p] = decideSent[s]
    BY DEF QueuesCurrent
<1>2. decides[p] \in Items
    BY DEF TypeOK
<1>3. /\ pending[p] = IF s = 1 THEN None ELSE BlockAt(s - 1)
      /\ notarized[p] = IF s <= 2 THEN None ELSE BlockAt(s - 2)
      /\ fixed[p] = IF s <= 3 THEN None ELSE BlockAt(s - 3)
      /\ Known(s)
    BY DEF OnChain, BlocksRotate
<1> HIDE DEF s
<1>4. s # 1 => s - 1 \in Slots /\ s - 1 < s
    BY <1>1, Constants
<1>5. s > 2 => s - 2 \in Slots /\ s - 2 < s
    BY <1>1, Constants
<1>6. s # 1 => BlockAt(s - 1) \in Blocks \ {None}
    BY <1>3, <1>4, BlockIsBlock DEF Known
<1>7. s > 2 => BlockAt(s - 2) \in Blocks \ {None}
    BY <1>3, <1>5, BlockIsBlock DEF Known
<1>8. s \in Nat /\ s >= 1
    BY <1>1, Constants
<1>9. NewNotarized(p) = IF s = 1 THEN None ELSE BlockAt(s - 1)
    BY <1>3, <1>6, <1>8 DEF NewNotarized
<1>10. NewFixed(p) = IF s <= 2 THEN None ELSE BlockAt(s - 2)
    BY <1>3, <1>6, <1>7, <1>8 DEF NewFixed
<1>11. pending[p] = None <=> s = 1
    BY <1>3, <1>6
<1>12. NewNotarized(p) \in Blocks \cup {None} /\ NewFixed(p) \in Blocks \cup {None}
    BY <1>6, <1>7, <1>8, <1>9, <1>10
<1> QED
    BY <1>1, <1>2, <1>3, <1>6, <1>7, <1>9, <1>10, <1>11, <1>12 DEF s

\* The statistics count a natural number of batches.
LEMMA EpochTxType ==
    ASSUME TypeOK, NEW p \in Nodes
    PROVE  NewEpochTx(p) \in Nat
BY DEF NewEpochTx, TypeOK

LEMMA AdvanceType ==
    ASSUME HfInv, NEW p \in Nodes, Advance(p)
    PROVE  TypeOK'
<1> DEFINE d    == decides[p]
           s    == slotCur[p]
           hash == HeaderHash(s, d.hash, d.batch)
<1>1. TypeOK /\ phase[p] = "wait" /\ d # None
    BY DEF HfInv, Advance
<1>2. s \in Slots /\ d \in Items /\ pending[p] \in Blocks \cup {None}
    BY <1>1, Waking DEF TypeOK
<1>3. d.hash \in Hashes /\ d.batch \in Batches /\ d.sigma \in SUBSET Nodes
    BY <1>2 DEF Items
<1>4. hash \in Hashes
    BY <1>2, <1>3, HashExtends
<1>5. NewNotarized(p) \in Blocks \cup {None} /\ NewFixed(p) \in Blocks \cup {None}
    BY <1>1, Waking
<1>6. NewEpochTx(p) \in Nat
    BY <1>1, EpochTxType
<1>7. [slot |-> s, hash |-> d.hash, batch |-> d.batch] \in Blocks
    BY <1>2, <1>3 DEF Blocks
<1>8. pending[p] # None =>
          [block |-> pending[p], certified |-> d.hash,
           sigma |-> d.sigma, txcnt |-> NewEpochTx(p)] \in Outputs
    BY <1>2, <1>3, <1>6 DEF Outputs
<1>9. s + 1 \in 1 .. LastSlot + 1 /\ (s < LastSlot => s + 1 \in Slots)
    BY <1>2, Constants
<1>10. slotCur' = [slotCur EXCEPT ![p] = s + 1] /\ hashPrev' = [hashPrev EXCEPT ![p] = hash]
    BY DEF Advance
<1>11. /\ pending' = [pending EXCEPT ![p] =
                         [slot |-> s, hash |-> d.hash, batch |-> d.batch]]
       /\ notarized' = [notarized EXCEPT ![p] = NewNotarized(p)]
       /\ fixed' = [fixed EXCEPT ![p] = NewFixed(p)]
       /\ epochTx' = [epochTx EXCEPT ![p] = NewEpochTx(p)]
       /\ decides' = [decides EXCEPT ![p] = None]
       /\ output' = [output EXCEPT ![p] =
               IF pending[p] = None THEN @
               ELSE [block |-> pending[p], certified |-> d.hash,
                     sigma |-> d.sigma, txcnt |-> NewEpochTx(p)]]
    BY DEF Advance
<1>12. /\ slotCur' \in [Nodes -> 1 .. LastSlot + 1]
       /\ hashPrev' \in [Nodes -> Hashes]
       /\ decides' \in [Nodes -> Items \cup {None}]
    <2> HIDE DEF hash, s
    <2> QED
        BY <1>1, <1>4, <1>9, <1>10, <1>11 DEF TypeOK
<1>13. output' \in [Nodes -> Outputs \cup {None}]
    BY <1>1, <1>8, <1>11 DEF TypeOK
<1>14. /\ pending' \in [Nodes -> Blocks \cup {None}]
       /\ notarized' \in [Nodes -> Blocks \cup {None}]
       /\ fixed' \in [Nodes -> Blocks \cup {None}]
       /\ epochTx' \in [Nodes -> Nat]
    BY <1>1, <1>5, <1>6, <1>7, <1>11 DEF TypeOK
<1>15. voteMsgs' \in SUBSET Votes /\ phase' \in [Nodes -> Phases]
    <2>1. CASE s < LastSlot
        <3>1. voteMsgs' = voteMsgs \cup {Vote(p, s + 1, hash)} /\ phase' = phase
            BY <2>1 DEF Advance
        <3>2. Vote(p, s + 1, hash) \in Votes
            BY <2>1, <1>4, <1>9, VoteIsVote
        <3> QED
            BY <3>1, <3>2, <1>1 DEF TypeOK
    <2>2. CASE ~ (s < LastSlot)
        <3>1. voteMsgs' = voteMsgs /\ phase' = [phase EXCEPT ![p] = "left"]
            BY <2>2 DEF Advance
        <3> QED
            BY <3>1, <1>1 DEF TypeOK, Phases
    <2> QED
        BY <2>1, <2>2
<1>16. UNCHANGED <<voters, decideSent, handled, reach, buffer>>
    BY DEF Advance
<1> QED
    BY <1>1, <1>12, <1>13, <1>14, <1>15, <1>16 DEF TypeOK

LEMMA RaiseType ==
    ASSUME HfInv, NEW p \in Nodes, RaiseInStatistics(p)
    PROVE  TypeOK'
<1>1. TypeOK /\ phase[p] = "wait" /\ decides[p] # None
    BY DEF HfInv, RaiseInStatistics
<1>2. NewNotarized(p) \in Blocks \cup {None} /\ NewFixed(p) \in Blocks \cup {None}
    BY <1>1, Waking
<1>3. /\ notarized' = [notarized EXCEPT ![p] = NewNotarized(p)]
      /\ fixed' = [fixed EXCEPT ![p] = NewFixed(p)]
      /\ decides' = [decides EXCEPT ![p] = None]
      /\ phase' = [phase EXCEPT ![p] = "raised"]
      /\ UNCHANGED <<slotCur, hashPrev, pending, output, epochTx, netVars>>
    BY DEF RaiseInStatistics
<1>4. /\ notarized' \in [Nodes -> Blocks \cup {None}]
      /\ fixed' \in [Nodes -> Blocks \cup {None}]
      /\ decides' \in [Nodes -> Items \cup {None}]
      /\ phase' \in [Nodes -> Phases]
    BY <1>1, <1>2, <1>3 DEF TypeOK, Phases
<1> QED
    BY <1>1, <1>3, <1>4 DEF TypeOK, netVars

\* The connections of a leader that crashes deliver a prefix of what it sent.
LEMMA SentSlots == Sent \in 0 .. LastSlot
<1>1. IsFiniteSet(Slots) /\ Cardinality(Slots) = LastSlot
    BY Constants, FS_Interval
<1>2. Cardinality({s \in Slots : decideSent[s] # None}) <= Cardinality(Slots)
      /\ Cardinality({s \in Slots : decideSent[s] # None}) \in Nat
    BY <1>1, FS_Subset, FS_CardinalityType
<1> QED
    BY <1>1, <1>2, Constants DEF Sent

LEMMA CrashType ==
    ASSUME TypeOK, NEW p \in Nodes, Crash(p)
    PROVE  TypeOK'
<1>1. phase' = [phase EXCEPT ![p] = "crashed"]
    BY DEF Crash
<1>2. reach' \in [Nodes -> 0 .. LastSlot]
    <2>1. CASE p = Leader
        <3>1. reach' \in [Nodes -> 0 .. Sent]
            BY <2>1 DEF Crash
        <3>2. \A i \in 0 .. Sent : i \in 0 .. LastSlot
            BY SentSlots, Constants
        <3> QED
            BY <3>1, <3>2
    <2>2. CASE p # Leader
        BY <2>2 DEF Crash, TypeOK
    <2> QED
        BY <2>1, <2>2
<1>3. UNCHANGED <<nodeVars, decides, voters, voteMsgs, decideSent, handled, buffer>>
    BY DEF Crash
<1> QED
    BY <1>1, <1>2, <1>3 DEF TypeOK, nodeVars, Phases
-----------------------------------------------------------------------------
(***************************************************************************)
(* Steps that move no node along the chain and send no DECIDE.             *)
(***************************************************************************)
Quiet ==
    /\ UNCHANGED <<nodeVars, decideSent>>
    /\ \A p \in Nodes :
           /\ phase'[p] = "enter" => phase[p] = "enter"
           /\ phase'[p] = "wait" => phase[p] \in {"enter", "wait"}
           /\ phase'[p] \notin {"raised", "crashed"} =>
                  phase[p] \notin {"raised", "crashed"}

LEMMA QuietKeeps ==
    ASSUME HfInv, Quiet
    PROVE  /\ DecidesChained' /\ HashesCommit' /\ OnChain' /\ BlocksRotate'
           /\ OutputsCertified' /\ StatisticsCount' /\ PhasesInSlots'
<1> USE DEF HfInv
<1>1. /\ slotCur' = slotCur /\ decideSent' = decideSent /\ hashPrev' = hashPrev
      /\ pending' = pending /\ notarized' = notarized /\ fixed' = fixed
      /\ output' = output /\ epochTx' = epochTx
    BY DEF Quiet, nodeVars
<1>2. DecidesChained'
    BY <1>1 DEF DecidesChained, Known, Tip
<1>3. HashesCommit'
    BY <1>1 DEF HashesCommit
<1>4. OnChain'
    BY <1>1 DEF OnChain, Known, Tip, BlockAt
<1>5. BlocksRotate'
    BY <1>1 DEF BlocksRotate, BlockAt, Quiet
<1>6. OutputsCertified'
    BY <1>1 DEF OutputsCertified, BlockAt
<1>7. StatisticsCount'
    <2>1. \A p \in Nodes : phase'[p] \in {"enter", "wait"} => phase[p] \in {"enter", "wait"}
        BY DEF Quiet
    <2> QED
        BY <1>1, <2>1 DEF StatisticsCount
<1>8. PhasesInSlots'
    BY <1>1, Constants DEF PhasesInSlots, Quiet
<1> QED
    BY <1>2, <1>3, <1>4, <1>5, <1>6, <1>7, <1>8

LEMMA EnterKeeps ==
    ASSUME HfInv, NEW p \in Nodes, Enter(p)
    PROVE  HfInv'
<1>1. TypeOK /\ phase[p] = "enter" /\ slotCur[p] = 1 /\ hashPrev[p] \in Hashes /\ 1 \in Slots
    BY Constants DEF HfInv, Enter, PhasesInSlots, TypeOK
<1>2. /\ UNCHANGED <<nodeVars, decides, voters, decideSent, handled, reach, buffer>>
      /\ phase' = [phase EXCEPT ![p] = "wait"]
      /\ voteMsgs' = voteMsgs \cup {Vote(p, slotCur[p], hashPrev[p])}
    BY DEF Enter
<1>3. Quiet
    BY <1>1, <1>2 DEF Quiet, TypeOK
<1>4. Vote(p, slotCur[p], hashPrev[p]) \in Votes
    BY <1>1, VoteIsVote
<1>5. TypeOK'
    <2>1. phase' \in [Nodes -> Phases] /\ voteMsgs' \in SUBSET Votes
        BY <1>1, <1>2, <1>4 DEF TypeOK, Phases
    <2> QED
        BY <1>1, <1>2, <2>1 DEF TypeOK, nodeVars
<1>6. QueuesCurrent'
    BY <1>2 DEF HfInv, QueuesCurrent, nodeVars
<1>7. VotesReached'
    <2>1. slotCur[Vote(p, slotCur[p], hashPrev[p]).sender]
              >= Vote(p, slotCur[p], hashPrev[p]).slot
        BY <1>1 DEF Vote
    <2> QED
        BY <1>2, <2>1 DEF HfInv, VotesReached, nodeVars
<1> QED
    BY <1>3, <1>5, <1>6, <1>7, QuietKeeps DEF HfInv

LEMMA DropVoteKeeps ==
    ASSUME HfInv, NEW m \in voteMsgs, DropVote(m)
    PROVE  HfInv'
<1>1. /\ UNCHANGED <<nodeVars, decides, phase, voters, decideSent, handled, reach, buffer>>
      /\ voteMsgs' = voteMsgs \ {m}
    BY DEF DropVote
<1>2. Quiet
    BY <1>1 DEF Quiet
<1>3. TypeOK'
    BY <1>1 DEF HfInv, TypeOK, nodeVars
<1>4. QueuesCurrent'
    BY <1>1 DEF HfInv, QueuesCurrent, nodeVars
<1>5. VotesReached'
    BY <1>1 DEF HfInv, VotesReached, nodeVars
<1> QED
    BY <1>2, <1>3, <1>4, <1>5, QuietKeeps DEF HfInv

\* A DECIDE reaches its node: taken into the queue or dropped.
LEMMA DecideKeeps ==
    ASSUME HfInv, NEW p \in Nodes, NEW s \in Slots,
           AcceptDecide(p, s) \/ DropDecide(p, s)
    PROVE  HfInv'
<1>1. Arrives(p, s) /\ TypeOK
    BY DEF AcceptDecide, DropDecide, HfInv
<1>2. /\ UNCHANGED <<nodeVars, phase, voters, voteMsgs, decideSent, reach, buffer>>
      /\ handled' = [handled EXCEPT ![p] = s]
    BY DEF AcceptDecide, DropDecide
<1>3. Quiet
    BY <1>2 DEF Quiet
<1>4. s = handled[p] + 1 /\ handled[p] \in 0 .. LastSlot /\ s \in 0 .. LastSlot
    BY <1>1, Constants DEF Arrives, TypeOK
<1>5. decideSent[s] \in Items /\ decideSent[s] # None /\ p # Leader
    BY <1>1 DEF Arrives, TypeOK
<1>6. /\ decides' \in [Nodes -> Items \cup {None}]
      /\ \A q \in Nodes : decides'[q] = decides[q]
             \/ (q = p /\ slotCur[p] = s /\ decides'[q] = decideSent[s])
    BY <1>1, <1>5 DEF AcceptDecide, DropDecide, Accepts, TypeOK
<1>7. TypeOK'
    <2>1. handled' \in [Nodes -> 0 .. LastSlot]
        BY <1>1, <1>2, <1>4 DEF TypeOK
    <2> QED
        BY <1>1, <1>2, <1>6, <2>1 DEF TypeOK, nodeVars
<1>8. \A q \in Nodes : handled'[q] >= handled[q] /\ (q = p => handled'[q] = s)
    BY <1>1, <1>2, <1>4 DEF TypeOK
<1>9. QueuesCurrent'
    <2> SUFFICES ASSUME NEW q \in Nodes, decides'[q] # None
                 PROVE  /\ slotCur[q] \in Slots
                        /\ decideSent[slotCur[q]] # None
                        /\ decides'[q] = decideSent[slotCur[q]]
                        /\ q # Leader => handled'[q] >= slotCur[q]
                        /\ q = Leader => Cardinality(voters[slotCur[q]]) >= N - F
        BY <1>2 DEF QueuesCurrent, nodeVars
    <2>1. CASE decides'[q] = decides[q]
        <3>1. /\ slotCur[q] \in Slots
              /\ decideSent[slotCur[q]] # None
              /\ decides'[q] = decideSent[slotCur[q]]
              /\ q # Leader => handled[q] >= slotCur[q]
              /\ q = Leader => Cardinality(voters[slotCur[q]]) >= N - F
            BY <2>1 DEF HfInv, QueuesCurrent
        <3>2. handled'[q] >= handled[q] /\ handled[q] \in Int /\ handled'[q] \in Int
              /\ slotCur[q] \in Int
            BY <1>1, <1>7, <1>8, Constants DEF TypeOK
        <3> QED
            BY <3>1, <3>2
    <2>2. CASE q = p /\ slotCur[p] = s /\ decides'[q] = decideSent[s]
        BY <2>2, <1>5, <1>8, Constants
    <2> QED
        BY <2>1, <2>2, <1>6
<1>10. VotesReached'
    BY <1>2 DEF HfInv, VotesReached, nodeVars
<1> QED
    BY <1>3, <1>7, <1>9, <1>10, QuietKeeps DEF HfInv

\* A timer fires or the process dies.
LEMMA StopKeeps ==
    ASSUME HfInv, NEW p \in Nodes, SlotTimeout(p) \/ Crash(p)
    PROVE  HfInv'
<1>1. /\ UNCHANGED <<nodeVars, decides, voters, voteMsgs, decideSent, handled, buffer>>
      /\ \/ phase' = [phase EXCEPT ![p] = "timeout"] /\ phase[p] = "wait"
         \/ phase' = [phase EXCEPT ![p] = "crashed"]
    BY DEF SlotTimeout, Crash, netVars
<1>2. TypeOK
    BY DEF HfInv
<1>3. Quiet
    BY <1>1, <1>2 DEF Quiet, TypeOK
<1>4. TypeOK'
    <2>1. CASE SlotTimeout(p)
        BY <2>1, <1>2 DEF SlotTimeout, TypeOK, nodeVars, netVars, Phases
    <2>2. CASE Crash(p)
        BY <2>2, <1>2, CrashType
    <2> QED
        BY <2>1, <2>2
<1>5. QueuesCurrent'
    BY <1>1 DEF HfInv, QueuesCurrent, nodeVars
<1>6. VotesReached'
    BY <1>1 DEF HfInv, VotesReached, nodeVars
<1> QED
    BY <1>3, <1>4, <1>5, <1>6, QuietKeeps DEF HfInv

\* The main greenlet dies in the statistics: the node holds new blocks, but
\* is no longer in the slot.
LEMMA RaiseKeeps ==
    ASSUME HfInv, NEW p \in Nodes, RaiseInStatistics(p)
    PROVE  HfInv'
<1> USE DEF HfInv
<1>1. /\ phase[p] = "wait"
      /\ notarized' = [notarized EXCEPT ![p] = NewNotarized(p)]
      /\ fixed' = [fixed EXCEPT ![p] = NewFixed(p)]
      /\ decides' = [decides EXCEPT ![p] = None]
      /\ phase' = [phase EXCEPT ![p] = "raised"]
      /\ slotCur' = slotCur /\ hashPrev' = hashPrev /\ pending' = pending
      /\ output' = output /\ epochTx' = epochTx
      /\ UNCHANGED <<voters, voteMsgs, decideSent, handled, reach, buffer>>
    BY DEF RaiseInStatistics, netVars
<1>2. /\ phase'[p] = "raised"
      /\ \A q \in Nodes \ {p} : /\ phase'[q] = phase[q]
                                /\ notarized'[q] = notarized[q]
                                /\ fixed'[q] = fixed[q]
                                /\ decides'[q] = decides[q]
      /\ decides'[p] = None
    BY <1>1 DEF TypeOK
<1>3. TypeOK'
    BY RaiseType
<1>4. DecidesChained' /\ HashesCommit'
    BY <1>1 DEF DecidesChained, HashesCommit, Known, Tip
<1>5. OnChain'
    BY <1>1 DEF OnChain, Known, Tip, BlockAt
<1>6. BlocksRotate'
    BY <1>1, <1>2 DEF BlocksRotate, BlockAt
<1>7. OutputsCertified'
    BY <1>1 DEF OutputsCertified, BlockAt
<1>8. StatisticsCount'
    <2>1. \A q \in Nodes : phase'[q] \in {"enter", "wait"} => phase[q] \in {"enter", "wait"}
        BY <1>2
    <2> QED
        BY <1>1, <2>1 DEF StatisticsCount
<1>9. QueuesCurrent'
    BY <1>1, <1>2 DEF QueuesCurrent
<1>10. VotesReached'
    BY <1>1 DEF VotesReached
<1>11. PhasesInSlots'
    BY <1>1, <1>2 DEF PhasesInSlots
<1> QED
    BY <1>3, <1>4, <1>5, <1>6, <1>7, <1>8, <1>9, <1>10, <1>11
-----------------------------------------------------------------------------
(***************************************************************************)
(* A vote is counted; the N - f th one extends the chain.                  *)
(***************************************************************************)

\* The vote's slot is the leader's, and its signers have reached it.
LEMMA VoteFacts ==
    ASSUME HfInv, NEW m \in voteMsgs, CountVote(m)
    PROVE  /\ m.slot \in Slots
           /\ m.slot = slotCur[Leader]
           /\ m.sender \in Nodes
           /\ voters[m.slot] \cup {m.sender} \in SUBSET Nodes
           /\ Cardinality(voters[m.slot]) < N - F
           /\ voters' = [voters EXCEPT ![m.slot] = @ \cup {m.sender}]
           /\ voteMsgs' = voteMsgs \ {m}
           /\ phase' = phase /\ handled' = handled
           /\ UNCHANGED nodeVars
           /\ \A q \in voters[m.slot] \cup {m.sender} : slotCur[q] >= m.slot
           /\ Known(m.slot)
           /\ hashPrev[Leader] = Tip(m.slot)
           /\ decides[Leader] = None
<1>1. m \in Votes /\ m.slot \in Slots /\ m.sender \in Nodes
    BY DEF HfInv, TypeOK, Votes
<1>2. Counts(m) /\ m.slot = slotCur[Leader] /\ Cardinality(voters[m.slot]) < N - F
    BY DEF CountVote, Counts, VotesNeeded
<1>3. voters[m.slot] \cup {m.sender} \in SUBSET Nodes
    BY <1>1 DEF HfInv, TypeOK
<1>4. \A q \in voters[m.slot] \cup {m.sender} : slotCur[q] >= m.slot
    BY <1>1 DEF HfInv, VotesReached
<1>5. Known(m.slot) /\ hashPrev[Leader] = Tip(m.slot)
    BY <1>2, Constants DEF HfInv, OnChain
<1>6. decides[Leader] = None
    <2>1. Cardinality(voters[m.slot]) \in Nat
        BY <1>1, NodeSets DEF HfInv, TypeOK
    <2>2. ~ (Cardinality(voters[m.slot]) >= N - F)
        BY <1>2, <2>1, FaultNumbers
    <2> QED
        BY <1>2, <2>2, Constants DEF HfInv, QueuesCurrent
<1>7. /\ voters' = [voters EXCEPT ![m.slot] = @ \cup {m.sender}]
      /\ voteMsgs' = voteMsgs \ {m}
      /\ phase' = phase /\ handled' = handled /\ UNCHANGED nodeVars
    BY DEF CountVote
<1> QED
    BY <1>1, <1>2, <1>3, <1>4, <1>5, <1>6, <1>7

LEMMA CountKeepsVotes ==
    ASSUME HfInv, NEW m \in voteMsgs, CountVote(m)
    PROVE  VotesReached'
<1>1. /\ m.slot \in Slots
      /\ voters' = [voters EXCEPT ![m.slot] = @ \cup {m.sender}]
      /\ voteMsgs' = voteMsgs \ {m}
      /\ slotCur' = slotCur
      /\ \A q \in voters[m.slot] \cup {m.sender} : slotCur[q] >= m.slot
    BY VoteFacts DEF nodeVars
<1>2. \A s \in Slots : \A q \in voters'[s] : slotCur[q] >= s
    BY <1>1 DEF HfInv, TypeOK, VotesReached
<1> QED
    BY <1>1, <1>2 DEF HfInv, VotesReached

\* The vote that sends no DECIDE.
LEMMA CountOnlyKeeps ==
    ASSUME HfInv, NEW m \in voteMsgs, CountVote(m),
           UNCHANGED <<decideSent, decides, buffer>>
    PROVE  HfInv'
<1>1. Quiet
    BY VoteFacts DEF Quiet
<1>2. QueuesCurrent'
    <2> SUFFICES ASSUME NEW q \in Nodes, decides[q] # None
                 PROVE  /\ slotCur[q] \in Slots
                        /\ decideSent[slotCur[q]] # None
                        /\ decides[q] = decideSent[slotCur[q]]
                        /\ q # Leader => handled[q] >= slotCur[q]
                        /\ q # Leader
        BY VoteFacts DEF QueuesCurrent, nodeVars
    <2> QED
        BY VoteFacts DEF HfInv, QueuesCurrent
<1> QED
    BY <1>1, <1>2, QuietKeeps, CountKeepsVotes, CountVoteType DEF HfInv

\* The vote that makes the leader send the DECIDE of its slot.
Decides(m) ==
    LET signers == voters[m.slot] \cup {m.sender}
    IN  /\ Cardinality(signers) = N - F
        /\ decideSent[m.slot] = None
        /\ decideSent' = [decideSent EXCEPT ![m.slot] =
               [hash |-> Tip(m.slot), sigma |-> signers, batch |-> NextBatch(m.slot)]]
        /\ decides' = [decides EXCEPT ![Leader] = decideSent'[m.slot]]

LEMMA CountDecides ==
    ASSUME HfInv, NEW m \in voteMsgs, CountVote(m)
    PROVE  UNCHANGED <<decideSent, decides, buffer>> \/ Decides(m)
<1> DEFINE signers == voters[m.slot] \cup {m.sender}
           item    == [hash |-> hashPrev[Leader], sigma |-> signers,
                       batch |-> NextBatch(m.slot)]
<1>1. CASE Cardinality(signers) = VotesNeeded /\ decideSent[m.slot] = None
    <2>1. /\ decideSent' = [decideSent EXCEPT ![m.slot] = item]
          /\ decides' = [decides EXCEPT ![Leader] = item]
        BY <1>1 DEF CountVote
    <2>2. m.slot \in Slots /\ hashPrev[Leader] = Tip(m.slot)
        BY VoteFacts
    <2>3. decideSent'[m.slot] = item
        <3> HIDE DEF item
        <3> QED
            BY <2>1, <2>2 DEF HfInv, TypeOK
    <2> QED
        BY <1>1, <2>1, <2>2, <2>3 DEF Decides, VotesNeeded
<1>2. CASE ~ (Cardinality(signers) = VotesNeeded /\ decideSent[m.slot] = None)
    BY <1>2 DEF CountVote
<1> QED
    BY <1>1, <1>2

\* What holds of the chain once the DECIDE of slot s is on it.
LEMMA DecideExtends ==
    ASSUME HfInv, NEW m \in voteMsgs, CountVote(m), Decides(m)
    PROVE  /\ ChainGrows
           /\ decideSent'[m.slot] =
                  [hash |-> Tip(m.slot), sigma |-> voters[m.slot] \cup {m.sender},
                   batch |-> NextBatch(m.slot)]
           /\ \A r \in Slots : decideSent'[r] # None =>
                  r = m.slot \/ decideSent[r] # None
           /\ decideSent'[m.slot] # None
<1>1. m.slot \in Slots
    BY VoteFacts
<1> DEFINE item == [hash |-> Tip(m.slot), sigma |-> voters[m.slot] \cup {m.sender},
                    batch |-> NextBatch(m.slot)]
<1>2. decideSent' = [decideSent EXCEPT ![m.slot] = item] /\ decideSent[m.slot] = None
    BY DEF Decides
<1>3. item \in Items
    <2>1. Tip(m.slot) \in Hashes
        BY VoteFacts, Constants DEF HfInv, TypeOK
    <2> QED
        BY <1>1, <2>1, VoteFacts, BatchIsBatch DEF Items
<1>4. item # None
    BY <1>3, NoneAssumption
<1> HIDE DEF item
<1>5. /\ decideSent'[m.slot] = item
      /\ \A r \in Slots : r # m.slot => decideSent'[r] = decideSent[r]
    BY <1>1, <1>2 DEF HfInv, TypeOK
<1> QED
    BY <1>2, <1>4, <1>5 DEF ChainGrows, item

LEMMA DecideKeepsChain ==
    ASSUME HfInv, NEW m \in voteMsgs, CountVote(m), Decides(m)
    PROVE  DecidesChained' /\ HashesCommit'
<1> DEFINE s == m.slot
<1>1. /\ s \in Slots /\ s \in 1 .. LastSlot + 1
      /\ Known(s)
      /\ slotCur' = slotCur
      /\ voters[s] \cup {m.sender} \in SUBSET Nodes
      /\ \A q \in voters[s] \cup {m.sender} : slotCur[q] >= s
    BY VoteFacts, Constants DEF nodeVars
<1>2. /\ ChainGrows
      /\ decideSent'[s] =
             [hash |-> Tip(s), sigma |-> voters[s] \cup {m.sender},
              batch |-> NextBatch(s)]
      /\ \A r \in Slots : decideSent'[r] # None => r = s \/ decideSent[r] # None
    BY DecideExtends
<1>3. Cardinality(voters[s] \cup {m.sender}) >= N - F
    BY FaultNumbers DEF Decides
<1>4. voters[s] \cup {m.sender} \in Quorum
    BY <1>1, <1>3 DEF Quorum
<1>5. Tip(s)' = Tip(s) /\ Known(s)'
    <2> HIDE DEF s
    <2> QED
        BY <1>1, <1>2, KnownStays
<1>6. ASSUME NEW r \in Slots, decideSent[r] # None
      PROVE  /\ Known(r)'
             /\ decideSent'[r] = decideSent[r]
             /\ decideSent'[r].hash = Tip(r)'
             /\ decideSent[r].sigma \in Quorum
             /\ \A q \in decideSent[r].sigma : slotCur[q] >= r
             /\ Len(decideSent[r].hash) = r - 1
             /\ \A i \in 1 .. r - 1 : decideSent[r].hash[i] = <<i, decideSent'[i].batch>>
    <2>1. Known(r) /\ r \in 1 .. LastSlot + 1
        BY <1>6, Constants DEF HfInv, DecidesChained
    <2>2. /\ Known(r)' /\ Tip(r)' = Tip(r)
          /\ \A i \in Slots : i < r => decideSent'[i] = decideSent[i]
        BY <1>2, <2>1, KnownStays
    <2>3. \A i \in 1 .. r - 1 : i \in Slots /\ i < r
        BY Constants
    <2> QED
        BY <1>2, <1>6, <2>2, <2>3 DEF HfInv, DecidesChained, HashesCommit, ChainGrows
<1>7. DecidesChained'
    <2> SUFFICES ASSUME NEW r \in Slots, decideSent'[r] # None
                 PROVE  /\ Known(r)'
                        /\ decideSent'[r].hash = Tip(r)'
                        /\ decideSent'[r].sigma \in Quorum
                        /\ \A q \in decideSent'[r].sigma : slotCur[q] >= r
        BY <1>1 DEF DecidesChained
    <2>1. CASE r = s
        BY <2>1, <1>1, <1>2, <1>4, <1>5
    <2>2. CASE decideSent[r] # None
        BY <2>2, <1>6
    <2> QED
        BY <1>2, <2>1, <2>2
<1>8. HashesCommit'
    <2> SUFFICES ASSUME NEW r \in Slots, decideSent'[r] # None
                 PROVE  /\ Len(decideSent'[r].hash) = r - 1
                        /\ \A i \in 1 .. r - 1 :
                               decideSent'[r].hash[i] = <<i, decideSent'[i].batch>>
        BY DEF HashesCommit
    <2>1. CASE r = s
        <3> HIDE DEF s
        <3>1. /\ Len(Tip(s)) = s - 1
              /\ \A i \in 1 .. s - 1 : Tip(s)[i] = <<i, decideSent[i].batch>>
            BY <1>1, TipCommits DEF HfInv
        <3>2. \A i \in 1 .. s - 1 : decideSent'[i] = decideSent[i]
            <4>1. \A i \in 1 .. s - 1 : i \in Slots /\ i < s
                BY <1>1, Constants
            <4> QED
                BY <4>1, <1>1, <1>2, KnownStays
        <3> QED
            BY <2>1, <3>1, <3>2, <1>2
    <2>2. CASE decideSent[r] # None
        BY <2>2, <1>6
    <2> QED
        BY <1>2, <2>1, <2>2
<1> QED
    BY <1>7, <1>8

\* A node's slot, and the slots that its blocks are read off.
LEMMA SlotsBehind ==
    ASSUME TypeOK, OnChain, NEW p \in Nodes
    PROVE  /\ slotCur[p] \in 1 .. LastSlot + 1
           /\ Known(slotCur[p])
           /\ slotCur[p] # 1 => slotCur[p] - 1 \in Slots /\ slotCur[p] - 1 < slotCur[p]
           /\ slotCur[p] > 2 => slotCur[p] - 2 \in Slots /\ slotCur[p] - 2 < slotCur[p]
           /\ slotCur[p] > 3 => slotCur[p] - 3 \in Slots /\ slotCur[p] - 3 < slotCur[p]
<1>1. slotCur[p] \in 1 .. LastSlot + 1 /\ Known(slotCur[p])
    BY DEF TypeOK, OnChain
<1> QED
    BY <1>1, Constants

\* The nodes' part of the invariant survives the growth of the chain.
LEMMA NodesKeepUp ==
    ASSUME HfInv, ChainGrows, UNCHANGED <<nodeVars, phase>>
    PROVE  OnChain' /\ BlocksRotate' /\ OutputsCertified' /\ StatisticsCount'
<1>1. /\ slotCur' = slotCur /\ hashPrev' = hashPrev /\ pending' = pending
      /\ notarized' = notarized /\ fixed' = fixed /\ output' = output
      /\ epochTx' = epochTx /\ phase' = phase
    BY DEF nodeVars
<1>2. ASSUME NEW p \in Nodes
      PROVE  /\ Known(slotCur[p])'
             /\ Tip(slotCur[p])' = Tip(slotCur[p])
             /\ slotCur[p] # 1 =>
                    /\ BlockAt(slotCur[p] - 1)' = BlockAt(slotCur[p] - 1)
                    /\ decideSent'[slotCur[p] - 1] = decideSent[slotCur[p] - 1]
             /\ slotCur[p] > 2 => BlockAt(slotCur[p] - 2)' = BlockAt(slotCur[p] - 2)
             /\ slotCur[p] > 3 => BlockAt(slotCur[p] - 3)' = BlockAt(slotCur[p] - 3)
             /\ \A k \in Slots : k < slotCur[p] => decideSent'[k] = decideSent[k]
    <2> DEFINE s == slotCur[p]
    <2>1. /\ s \in 1 .. LastSlot + 1
          /\ Known(s)
          /\ s # 1 => s - 1 \in Slots /\ s - 1 < s
          /\ s > 2 => s - 2 \in Slots /\ s - 2 < s
          /\ s > 3 => s - 3 \in Slots /\ s - 3 < s
        BY SlotsBehind DEF HfInv
    <2> HIDE DEF s
    <2>2. /\ Known(s)'
          /\ Tip(s)' = Tip(s)
          /\ \A r \in Slots : r < s => /\ decideSent'[r] = decideSent[r]
                                       /\ BlockAt(r)' = BlockAt(r)
        <3>1. s' = s
            BY <1>1 DEF s
        <3> QED
            BY <2>1, <3>1, KnownStays
    <2>3. s' = s
        BY <1>1 DEF s
    <2> QED
        BY <2>1, <2>2, <2>3 DEF s, BlockAt, Known, Tip
<1>3. OnChain'
    BY <1>1, <1>2 DEF HfInv, OnChain, Known, Tip, BlockAt
<1>4. \A p \in Nodes : slotCur[p] \in Nat
    BY Constants DEF HfInv, TypeOK
<1>5. BlocksRotate'
    <2> SUFFICES ASSUME NEW p \in Nodes, phase[p] \notin {"raised", "crashed"}
                 PROVE  /\ notarized[p] = IF slotCur[p] <= 2 THEN None
                                          ELSE BlockAt(slotCur[p] - 2)'
                        /\ fixed[p] = IF slotCur[p] <= 3 THEN None
                                      ELSE BlockAt(slotCur[p] - 3)'
        BY <1>1 DEF BlocksRotate, BlockAt
    <2>1. /\ slotCur[p] > 2 => BlockAt(slotCur[p] - 2)' = BlockAt(slotCur[p] - 2)
          /\ slotCur[p] > 3 => BlockAt(slotCur[p] - 3)' = BlockAt(slotCur[p] - 3)
        BY <1>2
    <2>2. /\ notarized[p] = IF slotCur[p] <= 2 THEN None ELSE BlockAt(slotCur[p] - 2)
          /\ fixed[p] = IF slotCur[p] <= 3 THEN None ELSE BlockAt(slotCur[p] - 3)
        BY DEF HfInv, BlocksRotate
    <2> QED
        BY <1>4, <2>1, <2>2
<1>6. OutputsCertified'
    <2> SUFFICES ASSUME NEW p \in Nodes, output[p] # None
                 PROVE  /\ slotCur[p] > 2
                        /\ output[p].block = BlockAt(slotCur[p] - 2)'
                        /\ output[p].certified = decideSent'[slotCur[p] - 1].hash
                        /\ output[p].sigma = decideSent'[slotCur[p] - 1].sigma
        BY <1>1 DEF OutputsCertified, BlockAt
    <2>1. /\ slotCur[p] > 2
          /\ output[p].block = BlockAt(slotCur[p] - 2)
          /\ output[p].certified = decideSent[slotCur[p] - 1].hash
          /\ output[p].sigma = decideSent[slotCur[p] - 1].sigma
        BY DEF HfInv, OutputsCertified
    <2>2. slotCur[p] # 1
        BY <2>1, <1>4
    <2> QED
        BY <2>1, <2>2, <1>2
<1>7. StatisticsCount'
    <2> SUFFICES ASSUME NEW p \in Nodes, phase[p] \in {"enter", "wait"}
                 PROVE  epochTx[p] = 0 <=>
                            \A k \in Slots : StatFrom <= k /\ k <= slotCur[p] - 3
                                => decideSent'[k].batch # "Tx"
        BY <1>1 DEF StatisticsCount
    <2>1. \A k \in Slots : k <= slotCur[p] - 3 => decideSent'[k] = decideSent[k]
        BY <1>2, <1>4, Constants
    <2>2. epochTx[p] = 0 <=>
              \A k \in Slots : StatFrom <= k /\ k <= slotCur[p] - 3
                  => decideSent[k].batch # "Tx"
        BY DEF HfInv, StatisticsCount
    <2> QED
        BY <2>1, <2>2
<1> QED
    BY <1>3, <1>5, <1>6, <1>7

LEMMA CountVoteKeeps ==
    ASSUME HfInv, NEW m \in voteMsgs, CountVote(m)
    PROVE  HfInv'
<1>1. CASE UNCHANGED <<decideSent, decides, buffer>>
    BY <1>1, CountOnlyKeeps
<1>2. CASE Decides(m)
    <2>1. ChainGrows /\ UNCHANGED <<nodeVars, phase>>
        BY <1>2, DecideExtends, VoteFacts
    <2>2. OnChain' /\ BlocksRotate' /\ OutputsCertified' /\ StatisticsCount'
        BY <2>1, NodesKeepUp
    <2>3. DecidesChained' /\ HashesCommit'
        BY <1>2, DecideKeepsChain
    <2>4. PhasesInSlots'
        BY <2>1 DEF HfInv, PhasesInSlots, nodeVars
    <2>5. QueuesCurrent'
        <3>1. /\ m.slot \in Slots /\ m.slot = slotCur[Leader]
              /\ decideSent'[m.slot] # None
              /\ \A s \in Slots : decideSent[s] # None => decideSent'[s] = decideSent[s]
              /\ slotCur' = slotCur /\ handled' = handled
            BY <1>2, DecideExtends, VoteFacts DEF nodeVars, ChainGrows
        <3>2. decides' = [decides EXCEPT ![Leader] = decideSent'[m.slot]]
            BY <1>2 DEF Decides
        <3>3. Cardinality(voters'[m.slot]) >= N - F
            <4>1. voters'[m.slot] = voters[m.slot] \cup {m.sender}
                BY VoteFacts DEF HfInv, TypeOK
            <4> QED
                BY <1>2, <4>1, FaultNumbers DEF Decides
        <3>4. decides'[Leader] = decideSent'[m.slot]
            BY <3>2, Constants DEF HfInv, TypeOK
        <3>5. \A q \in Nodes \ {Leader} : decides'[q] = decides[q]
            BY <3>2 DEF HfInv, TypeOK
        <3> SUFFICES ASSUME NEW q \in Nodes, decides'[q] # None
                     PROVE  /\ slotCur[q] \in Slots
                            /\ decideSent'[slotCur[q]] # None
                            /\ decides'[q] = decideSent'[slotCur[q]]
                            /\ q # Leader => handled[q] >= slotCur[q]
                            /\ q = Leader => Cardinality(voters'[slotCur[q]]) >= N - F
            BY <3>1 DEF QueuesCurrent
        <3>6. CASE q = Leader
            BY <3>1, <3>3, <3>4, <3>6
        <3>7. CASE q # Leader
            BY <3>1, <3>5, <3>7 DEF HfInv, QueuesCurrent
        <3> QED
            BY <3>6, <3>7
    <2> QED
        BY <2>2, <2>3, <2>4, <2>5, CountVoteType, CountKeepsVotes DEF HfInv
<1> QED
    BY <1>1, <1>2, CountDecides
-----------------------------------------------------------------------------
(***************************************************************************)
(* A node moves to its next slot.                                          *)
(***************************************************************************)

\* The statistics divide by zero exactly when no transaction was fixed yet.
LEMMA CountedWhen ==
    ASSUME HfInv, NEW p \in Nodes, phase[p] = "wait", decides[p] # None
    PROVE  /\ Counted(p) <=> slotCur[p] - 2 >= StatFrom
           /\ Counted(p) => /\ slotCur[p] - 2 \in Slots
                            /\ NewFixed(p).batch = decideSent[slotCur[p] - 2].batch
<1> DEFINE s == slotCur[p]
<1>1. /\ s \in Slots
      /\ NewFixed(p) = IF s <= 2 THEN None ELSE BlockAt(s - 2)
      /\ s > 2 => BlockAt(s - 2) \in Blocks \ {None}
      /\ pending[p] = None <=> s = 1
    BY Waking
<1>2. s > 2 => s - 2 \in Slots
    BY <1>1, Constants
<1>3. s > 2 => BlockAt(s - 2).slot = s - 2 /\ BlockAt(s - 2).batch = decideSent[s - 2].batch
    BY DEF BlockAt
<1> HIDE DEF s
<1>4. CASE s > 2
    <2>1. NewFixed(p) = BlockAt(s - 2) /\ pending[p] # None
        BY <1>1, <1>4, Constants
    <2> QED
        BY <1>1, <1>2, <1>3, <1>4, <2>1 DEF Counted, s
<1>5. CASE ~ (s > 2)
    <2>1. NewFixed(p) = None /\ ~ (s - 2 >= StatFrom)
        BY <1>1, <1>5, Constants
    <2> QED
        BY <2>1 DEF Counted, s
<1> QED
    BY <1>4, <1>5

LEMMA StatisticsStep ==
    ASSUME HfInv, NEW p \in Nodes, phase[p] = "wait", decides[p] # None
    PROVE  NewEpochTx(p) = 0 <=>
               \A k \in Slots : StatFrom <= k /\ k <= slotCur[p] - 2
                                    => decideSent[k].batch # "Tx"
<1> DEFINE s == slotCur[p]
<1>1. s \in Slots /\ epochTx[p] \in Nat
    BY Waking DEF HfInv, TypeOK
<1>2. epochTx[p] = 0 <=>
          \A k \in Slots : StatFrom <= k /\ k <= s - 3 => decideSent[k].batch # "Tx"
    BY DEF HfInv, StatisticsCount
<1>3. /\ Counted(p) <=> s - 2 >= StatFrom
      /\ Counted(p) => /\ s - 2 \in Slots
                       /\ NewFixed(p).batch = decideSent[s - 2].batch
    BY CountedWhen
<1> HIDE DEF s
<1>4. CASE Counted(p)
    <2>1. NewEpochTx(p) = IF decideSent[s - 2].batch = "Tx" THEN epochTx[p] + 1 ELSE epochTx[p]
        BY <1>3, <1>4 DEF NewEpochTx
    <2>2. \A k \in Slots : StatFrom <= k /\ k <= s - 2 <=>
                           (StatFrom <= k /\ k <= s - 3) \/ k = s - 2
        BY <1>1, <1>3, <1>4, Constants
    <2> QED
        BY <1>1, <1>2, <1>3, <1>4, <2>1, <2>2 DEF s
<1>5. CASE ~ Counted(p)
    <2>1. NewEpochTx(p) = epochTx[p]
        BY <1>5 DEF NewEpochTx
    <2>2. \A k \in Slots : ~ (StatFrom <= k /\ k <= s - 2) /\ ~ (StatFrom <= k /\ k <= s - 3)
        BY <1>1, <1>3, <1>5, Constants
    <2> QED
        BY <1>2, <2>1, <2>2 DEF s
<1> QED
    BY <1>4, <1>5

\* The node moves to the slot after the one it woke in.
LEMMA AdvanceMoves ==
    ASSUME HfInv, NEW p \in Nodes, Advance(p)
    PROVE  /\ slotCur[p] \in Slots
           /\ slotCur'[p] = slotCur[p] + 1
           /\ decides'[p] = None
           /\ phase'[p] = "wait" => slotCur[p] < LastSlot
           /\ phase'[p] # "enter"
<1>1. phase[p] = "wait" /\ decides[p] # None /\ TypeOK
    BY DEF Advance, HfInv
<1>2. slotCur[p] \in Slots
    BY <1>1, Waking
<1>3. slotCur'[p] = slotCur[p] + 1 /\ decides'[p] = None
    BY <1>1 DEF Advance, TypeOK
<1>4. (phase'[p] = "wait" => slotCur[p] < LastSlot) /\ phase'[p] # "enter"
    BY <1>1 DEF Advance, TypeOK
<1> QED
    BY <1>2, <1>3, <1>4

\* Its tip is the leader's in its new slot.
LEMMA AdvanceTip ==
    ASSUME HfInv, NEW p \in Nodes, Advance(p)
    PROVE  Known(slotCur'[p]) /\ hashPrev'[p] = Tip(slotCur'[p])
<1> DEFINE s == slotCur[p]
<1>1. phase[p] = "wait" /\ decides[p] # None /\ TypeOK
    BY DEF Advance, HfInv
<1>2. s \in Slots /\ decideSent[s] # None /\ decides[p] = decideSent[s]
    BY <1>1, Waking
<1>3. slotCur'[p] = s + 1
    BY AdvanceMoves
<1>4. hashPrev'[p] = HeaderHash(s, decides[p].hash, decides[p].batch)
    BY <1>1 DEF Advance, TypeOK
<1>5. Known(s)
    BY DEF HfInv, OnChain
<1> HIDE DEF s
<1>6. Known(s + 1)
    <2>1. \A r \in Slots : r < s + 1 => r < s \/ r = s
        BY <1>2, Constants
    <2> QED
        BY <1>2, <1>5, <2>1 DEF Known
<1>7. Tip(s + 1) = HeaderHash(s, decideSent[s].hash, decideSent[s].batch)
    <2> DEFINE t == s + 1
    <2>1. t # 1 /\ t - 1 = s
        BY <1>2, Constants
    <2> HIDE DEF t
    <2>2. Tip(t) = HeaderHash(t - 1, decideSent[t - 1].hash, decideSent[t - 1].batch)
        BY <2>1 DEF Tip
    <2>3. Tip(t) = HeaderHash(s, decideSent[s].hash, decideSent[s].batch)
        BY <2>1, <2>2
    <2> QED
        BY <2>3 DEF t
<1> QED
    BY <1>2, <1>3, <1>4, <1>6, <1>7

\* Its blocks move up by one: pending, notarized, fixed.
LEMMA AdvanceBlocks ==
    ASSUME HfInv, NEW p \in Nodes, Advance(p)
    PROVE  /\ pending'[p] = BlockAt(slotCur[p])
           /\ notarized'[p] = IF slotCur[p] = 1 THEN None ELSE BlockAt(slotCur[p] - 1)
           /\ fixed'[p] = IF slotCur[p] <= 2 THEN None ELSE BlockAt(slotCur[p] - 2)
           /\ epochTx'[p] = NewEpochTx(p)
<1>1. phase[p] = "wait" /\ decides[p] # None /\ TypeOK
    BY DEF Advance, HfInv
<1>2. /\ decides[p] = decideSent[slotCur[p]]
      /\ NewNotarized(p) = IF slotCur[p] = 1 THEN None ELSE BlockAt(slotCur[p] - 1)
      /\ NewFixed(p) = IF slotCur[p] <= 2 THEN None ELSE BlockAt(slotCur[p] - 2)
    BY <1>1, Waking
<1>3. pending'[p] = BlockAt(slotCur[p])
    BY <1>1, <1>2 DEF Advance, TypeOK, BlockAt
<1>4. notarized'[p] = NewNotarized(p) /\ fixed'[p] = NewFixed(p)
      /\ epochTx'[p] = NewEpochTx(p)
    BY <1>1 DEF Advance, TypeOK
<1> QED
    BY <1>2, <1>3, <1>4

\* From the second slot on it outputs its pending block as notarized.
LEMMA AdvanceOutput ==
    ASSUME HfInv, NEW p \in Nodes, Advance(p)
    PROVE  /\ slotCur[p] = 1 => output'[p] = None
           /\ slotCur[p] # 1 =>
                  /\ output'[p].block = BlockAt(slotCur[p] - 1)
                  /\ output'[p].certified = decideSent[slotCur[p]].hash
                  /\ output'[p].sigma = decideSent[slotCur[p]].sigma
<1>1. phase[p] = "wait" /\ decides[p] # None /\ TypeOK
    BY DEF Advance, HfInv
<1>2. /\ decides[p] = decideSent[slotCur[p]]
      /\ pending[p] = IF slotCur[p] = 1 THEN None ELSE BlockAt(slotCur[p] - 1)
      /\ (pending[p] = None) <=> (slotCur[p] = 1)
    BY <1>1, Waking
<1>3. output' = [output EXCEPT ![p] = IF pending[p] = None THEN @
          ELSE [block |-> pending[p], certified |-> decides[p].hash,
                sigma |-> decides[p].sigma, txcnt |-> NewEpochTx(p)]]
    BY DEF Advance
<1>4. pending[p] = None => output'[p] = output[p]
    BY <1>1, <1>3 DEF TypeOK
<1>5. pending[p] # None =>
          output'[p] = [block |-> pending[p], certified |-> decides[p].hash,
                        sigma |-> decides[p].sigma, txcnt |-> NewEpochTx(p)]
    BY <1>1, <1>3 DEF TypeOK
<1>6. slotCur[p] = 1 => output[p] = None
    BY DEF HfInv, OutputsCertified
<1> QED
    BY <1>2, <1>4, <1>5, <1>6

LEMMA AdvanceOthers ==
    ASSUME HfInv, NEW p \in Nodes, Advance(p), NEW q \in Nodes, q # p
    PROVE  /\ slotCur'[q] = slotCur[q] /\ hashPrev'[q] = hashPrev[q]
           /\ pending'[q] = pending[q] /\ notarized'[q] = notarized[q]
           /\ fixed'[q] = fixed[q] /\ output'[q] = output[q]
           /\ epochTx'[q] = epochTx[q] /\ decides'[q] = decides[q]
           /\ phase'[q] = phase[q]
BY DEF Advance, HfInv, TypeOK

LEMMA AdvanceChain ==
    ASSUME HfInv, NEW p \in Nodes, Advance(p)
    PROVE  /\ DecidesChained' /\ HashesCommit'
           /\ \A q \in Nodes : slotCur'[q] >= slotCur[q] /\ slotCur[q] \in Nat
                                   /\ slotCur'[q] \in Nat
<1>1. decideSent' = decideSent
    BY DEF Advance
<1>2. \A q \in Nodes : slotCur'[q] >= slotCur[q] /\ slotCur[q] \in Nat /\ slotCur'[q] \in Nat
    <2> TAKE q \in Nodes
    <2>1. slotCur[q] \in Nat
        BY Constants DEF HfInv, TypeOK
    <2>2. CASE q = p
        BY <2>1, <2>2, AdvanceMoves
    <2>3. CASE q # p
        BY <2>1, <2>3, AdvanceOthers
    <2> QED
        BY <2>2, <2>3
<1>3. HashesCommit'
    BY <1>1 DEF HfInv, HashesCommit
<1>4. DecidesChained'
    <2> SUFFICES ASSUME NEW s \in Slots, decideSent[s] # None
                 PROVE  /\ Known(s)
                        /\ decideSent[s].hash = Tip(s)
                        /\ decideSent[s].sigma \in Quorum
                        /\ \A q \in decideSent[s].sigma : slotCur'[q] >= s
        BY <1>1 DEF DecidesChained, Known, Tip
    <2>1. /\ Known(s)
          /\ decideSent[s].hash = Tip(s)
          /\ decideSent[s].sigma \in Quorum
          /\ \A q \in decideSent[s].sigma : slotCur[q] >= s
        BY DEF HfInv, DecidesChained
    <2>2. s \in Nat /\ decideSent[s].sigma \in SUBSET Nodes
        BY <2>1, Constants DEF Quorum
    <2> QED
        BY <2>1, <2>2, <1>2
<1> QED
    BY <1>2, <1>3, <1>4

\* The advancing node's part of the invariant, in its new slot.
LEMMA AdvanceSelf ==
    ASSUME HfInv, NEW p \in Nodes, Advance(p)
    PROVE  LET s == slotCur'[p]
           IN  /\ s > 1 /\ s \in Nat
               /\ pending'[p] = BlockAt(s - 1)
               /\ notarized'[p] = IF s <= 2 THEN None ELSE BlockAt(s - 2)
               /\ fixed'[p] = IF s <= 3 THEN None ELSE BlockAt(s - 3)
               /\ output'[p] # None =>
                      /\ s > 2
                      /\ output'[p].block = BlockAt(s - 2)
                      /\ output'[p].certified = decideSent[s - 1].hash
                      /\ output'[p].sigma = decideSent[s - 1].sigma
               /\ epochTx'[p] = 0 <=>
                      \A k \in Slots : StatFrom <= k /\ k <= s - 3
                                           => decideSent[k].batch # "Tx"
<1> DEFINE r == slotCur[p]
           s == slotCur'[p]
<1>1. /\ r \in Slots /\ s = r + 1
      /\ pending'[p] = BlockAt(r)
      /\ notarized'[p] = IF r = 1 THEN None ELSE BlockAt(r - 1)
      /\ fixed'[p] = IF r <= 2 THEN None ELSE BlockAt(r - 2)
      /\ epochTx'[p] = NewEpochTx(p)
    BY AdvanceMoves, AdvanceBlocks
<1>2. phase[p] = "wait" /\ decides[p] # None
    BY DEF Advance
<1>3. NewEpochTx(p) = 0 <=>
          \A k \in Slots : StatFrom <= k /\ k <= r - 2 => decideSent[k].batch # "Tx"
    BY <1>2, StatisticsStep
<1>4. /\ r = 1 => output'[p] = None
      /\ r # 1 => /\ output'[p].block = BlockAt(r - 1)
                  /\ output'[p].certified = decideSent[r].hash
                  /\ output'[p].sigma = decideSent[r].sigma
    BY AdvanceOutput
<1> HIDE DEF r, s
<1>5. /\ s > 1 /\ s \in Nat /\ r \in Nat
      /\ s - 1 = r /\ s - 2 = r - 1 /\ s - 3 = r - 2
      /\ (s <= 2 <=> r = 1) /\ (s <= 3 <=> r <= 2) /\ (s > 2 <=> r # 1)
    BY <1>1, Constants
<1>6. pending'[p] = BlockAt(s - 1)
    BY <1>1, <1>5
<1>7. /\ notarized'[p] = IF s <= 2 THEN None ELSE BlockAt(s - 2)
      /\ fixed'[p] = IF s <= 3 THEN None ELSE BlockAt(s - 3)
    BY <1>1, <1>5
<1>8. output'[p] # None =>
          /\ s > 2
          /\ output'[p].block = BlockAt(s - 2)
          /\ output'[p].certified = decideSent[s - 1].hash
          /\ output'[p].sigma = decideSent[s - 1].sigma
    BY <1>4, <1>5
<1>9. epochTx'[p] = 0 <=>
          \A k \in Slots : StatFrom <= k /\ k <= s - 3 => decideSent[k].batch # "Tx"
    BY <1>1, <1>3, <1>5
<1> QED
    BY <1>5, <1>6, <1>7, <1>8, <1>9 DEF s

LEMMA AdvanceNodes ==
    ASSUME HfInv, NEW p \in Nodes, Advance(p)
    PROVE  OnChain' /\ BlocksRotate' /\ OutputsCertified' /\ StatisticsCount'
<1>1. decideSent' = decideSent
    BY DEF Advance
<1>2. OnChain'
    <2> SUFFICES ASSUME NEW q \in Nodes
                 PROVE  /\ Known(slotCur'[q])
                        /\ hashPrev'[q] = Tip(slotCur'[q])
                        /\ pending'[q] = IF slotCur'[q] = 1 THEN None
                                         ELSE BlockAt(slotCur'[q] - 1)
        BY <1>1 DEF OnChain, Known, Tip, BlockAt
    <2>1. CASE q = p
        <3>1. /\ slotCur'[p] > 1 /\ slotCur'[p] \in Nat
              /\ pending'[p] = BlockAt(slotCur'[p] - 1)
            BY AdvanceSelf
        <3> QED
            BY <2>1, <3>1, AdvanceTip
    <2>2. CASE q # p
        BY <2>2, AdvanceOthers DEF HfInv, OnChain
    <2> QED
        BY <2>1, <2>2
<1>3. BlocksRotate'
    <2> SUFFICES ASSUME NEW q \in Nodes, phase'[q] \notin {"raised", "crashed"}
                 PROVE  /\ notarized'[q] = IF slotCur'[q] <= 2 THEN None
                                           ELSE BlockAt(slotCur'[q] - 2)
                        /\ fixed'[q] = IF slotCur'[q] <= 3 THEN None
                                       ELSE BlockAt(slotCur'[q] - 3)
        BY <1>1 DEF BlocksRotate, BlockAt
    <2>1. CASE q = p
        BY <2>1, AdvanceSelf
    <2>2. CASE q # p
        BY <2>2, AdvanceOthers DEF HfInv, BlocksRotate
    <2> QED
        BY <2>1, <2>2
<1>4. OutputsCertified'
    <2> SUFFICES ASSUME NEW q \in Nodes, output'[q] # None
                 PROVE  /\ slotCur'[q] > 2
                        /\ output'[q].block = BlockAt(slotCur'[q] - 2)
                        /\ output'[q].certified = decideSent[slotCur'[q] - 1].hash
                        /\ output'[q].sigma = decideSent[slotCur'[q] - 1].sigma
        BY <1>1 DEF OutputsCertified, BlockAt
    <2>1. CASE q = p
        BY <2>1, AdvanceSelf
    <2>2. CASE q # p
        BY <2>2, AdvanceOthers DEF HfInv, OutputsCertified
    <2> QED
        BY <2>1, <2>2
<1>5. StatisticsCount'
    <2> SUFFICES ASSUME NEW q \in Nodes, phase'[q] \in {"enter", "wait"}
                 PROVE  epochTx'[q] = 0 <=>
                            \A k \in Slots : StatFrom <= k /\ k <= slotCur'[q] - 3
                                => decideSent[k].batch # "Tx"
        BY <1>1 DEF StatisticsCount
    <2>1. CASE q = p
        BY <2>1, AdvanceSelf
    <2>2. CASE q # p
        BY <2>2, AdvanceOthers DEF HfInv, StatisticsCount
    <2> QED
        BY <2>1, <2>2
<1> QED
    BY <1>2, <1>3, <1>4, <1>5

LEMMA AdvanceKeeps ==
    ASSUME HfInv, NEW p \in Nodes, Advance(p)
    PROVE  HfInv'
<1>1. TypeOK'
    BY AdvanceType
<1>2. /\ decideSent' = decideSent /\ voters' = voters /\ handled' = handled
      /\ voteMsgs' \subseteq voteMsgs \cup
             {Vote(p, slotCur[p] + 1, HeaderHash(slotCur[p], decides[p].hash, decides[p].batch))}
    BY DEF Advance
<1>3. QueuesCurrent'
    <2> SUFFICES ASSUME NEW q \in Nodes, decides'[q] # None
                 PROVE  /\ slotCur'[q] \in Slots
                        /\ decideSent[slotCur'[q]] # None
                        /\ decides'[q] = decideSent[slotCur'[q]]
                        /\ q # Leader => handled[q] >= slotCur'[q]
                        /\ q = Leader => Cardinality(voters[slotCur'[q]]) >= N - F
        BY <1>2 DEF QueuesCurrent
    <2>1. q # p
        BY AdvanceMoves
    <2> QED
        BY <2>1, AdvanceOthers DEF HfInv, QueuesCurrent
<1>4. VotesReached'
    <2>1. \A q \in Nodes : slotCur'[q] >= slotCur[q] /\ slotCur[q] \in Nat
                               /\ slotCur'[q] \in Nat
        BY AdvanceChain
    <2>2. ASSUME NEW m \in voteMsgs'
          PROVE  slotCur'[m.sender] >= m.slot
        <3>1. CASE m \in voteMsgs
            <4>1. m.sender \in Nodes /\ m.slot \in Nat /\ slotCur[m.sender] >= m.slot
                BY <3>1, Constants DEF HfInv, TypeOK, Votes, VotesReached
            <4> QED
                BY <4>1, <2>1
        <3>2. CASE m \notin voteMsgs
            <4>1. m.sender = p /\ m.slot = slotCur[p] + 1
                BY <3>2, <1>2 DEF Vote
            <4> QED
                BY <4>1, AdvanceMoves, Constants
        <3> QED
            BY <3>1, <3>2
    <2>3. ASSUME NEW s \in Slots, NEW q \in voters[s]
          PROVE  slotCur'[q] >= s
        <3>1. q \in Nodes /\ slotCur[q] >= s /\ s \in Nat
            BY Constants DEF HfInv, TypeOK, VotesReached
        <3> QED
            BY <3>1, <2>1
    <2> QED
        BY <1>2, <2>2, <2>3 DEF VotesReached
<1>5. PhasesInSlots'
    <2> SUFFICES ASSUME NEW q \in Nodes
                 PROVE  /\ phase'[q] = "enter" => slotCur'[q] = 1
                        /\ phase'[q] = "wait" => slotCur'[q] \in Slots
        BY DEF PhasesInSlots
    <2>1. CASE q = p
        BY <2>1, AdvanceMoves, Constants
    <2>2. CASE q # p
        BY <2>2, AdvanceOthers DEF HfInv, PhasesInSlots
    <2> QED
        BY <2>1, <2>2
<1> QED
    BY <1>1, <1>3, <1>4, <1>5, AdvanceChain, AdvanceNodes DEF HfInv
-----------------------------------------------------------------------------
LEMMA StepKeeps == HfInv /\ [Next]_fpVars => HfInv'
<1> SUFFICES ASSUME HfInv, [Next]_fpVars
             PROVE  HfInv'
    OBVIOUS
<1>1. CASE HandleVote
    <2> PICK m \in voteMsgs : DropVote(m) \/ CountVote(m)
        BY <1>1 DEF HandleVote
    <2> QED
        BY DropVoteKeeps, CountVoteKeeps
<1>2. ASSUME NEW p \in Nodes, Step(p)
      PROVE  HfInv'
    <2>1. CASE Enter(p)
        BY <2>1, EnterKeeps
    <2>2. CASE \E s \in Slots : AcceptDecide(p, s) \/ DropDecide(p, s)
        BY <2>2, DecideKeeps
    <2>3. CASE Advance(p)
        BY <2>3, AdvanceKeeps
    <2>4. CASE RaiseInStatistics(p)
        BY <2>4, RaiseKeeps
    <2>5. CASE SlotTimeout(p)
        BY <2>5, StopKeeps
    <2> QED
        BY <1>2, <2>1, <2>2, <2>3, <2>4, <2>5 DEF Step
<1>3. ASSUME NEW p \in Nodes, Crash(p)
      PROVE  HfInv'
    BY <1>3, StopKeeps
<1>4. CASE UNCHANGED fpVars
    <2>1. /\ UNCHANGED <<nodeVars, decides, phase, voters, voteMsgs, decideSent>>
          /\ UNCHANGED <<handled, reach, buffer>>
        BY <1>4 DEF fpVars, netVars
    <2>2. Quiet
        BY <2>1 DEF Quiet
    <2>3. TypeOK'
        BY <2>1 DEF HfInv, TypeOK, nodeVars
    <2>4. QueuesCurrent' /\ VotesReached'
        BY <2>1 DEF HfInv, QueuesCurrent, VotesReached, nodeVars
    <2> QED
        BY <2>2, <2>3, <2>4, QuietKeeps DEF HfInv
<1> QED
    BY <1>1, <1>2, <1>3, <1>4 DEF Next

\* HfInv holds in every reachable state.
THEOREM HfInvariant == Spec => []HfInv
<1> QED
    BY InitHolds, StepKeeps, PTL DEF Spec
-----------------------------------------------------------------------------
(***************************************************************************)
(* The properties.                                                         *)
(***************************************************************************)
\* Every variable keeps its type, in every reachable state.
THEOREM FastPathTypes == Spec => []TypeOK
<1>1. HfInv => TypeOK
    BY DEF HfInv
<1> QED
    BY <1>1, HfInvariant, PTL

\* No two nodes' chains ever fork (hash_prev of one_slot).
THEOREM ChainsNeverFork == Spec => []ChainPrefix
<1>1. ASSUME HfInv PROVE ChainPrefix
    <2> SUFFICES ASSUME NEW p \in Nodes, NEW q \in Nodes,
                        Len(hashPrev[p]) <= Len(hashPrev[q])
                 PROVE  hashPrev[p] = SubSeq(hashPrev[q], 1, Len(hashPrev[p]))
        BY DEF ChainPrefix
    <2> DEFINE n == Len(hashPrev[p])
               t == SubSeq(hashPrev[q], 1, n)
               P == Slots \X Batches
    <2>1. ASSUME NEW r \in Nodes
          PROVE  /\ hashPrev[r] \in Seq(P)
                 /\ Len(hashPrev[r]) \in Nat
                 /\ \A i \in 1 .. Len(hashPrev[r]) :
                        /\ hashPrev[r][i] = <<i, decideSent[i].batch>>
                        /\ hashPrev[r][i] \in P
        <3>1. /\ slotCur[r] \in 1 .. LastSlot + 1 /\ Known(slotCur[r])
              /\ hashPrev[r] = Tip(slotCur[r])
            BY <1>1 DEF HfInv, OnChain, TypeOK
        <3>2. /\ Tip(slotCur[r]) \in Hashes
              /\ Len(Tip(slotCur[r])) = slotCur[r] - 1
              /\ \A i \in 1 .. slotCur[r] - 1 :
                     Tip(slotCur[r])[i] = <<i, decideSent[i].batch>>
            BY <1>1, <3>1, TipCommits DEF HfInv
        <3>3. hashPrev[r] \in Seq(P)
            BY <3>1, <3>2 DEF Hashes
        <3>4. \A i \in 1 .. Len(hashPrev[r]) : hashPrev[r][i] \in P
            BY <3>3
        <3> QED
            BY <3>1, <3>2, <3>3, <3>4, Constants
    <2>2. n \in Nat /\ Len(hashPrev[q]) \in Nat /\ n <= Len(hashPrev[q])
        BY <2>1
    <2>3. \A i \in 1 .. n : hashPrev[q][i] \in P
        BY <2>1, <2>2
    <2> HIDE DEF n, P
    <2>4. t \in Seq(P) /\ Len(t) = n /\ \A i \in 1 .. n : t[i] = hashPrev[q][i]
        <3>1. /\ t \in Seq(P)
              /\ Len(t) = IF 1 <= n THEN n - 1 + 1 ELSE 0
              /\ \A i \in 1 .. n - 1 + 1 : t[i] = hashPrev[q][1 + i - 1]
            BY <2>2, <2>3, SubSeqProperties
        <3> HIDE DEF t
        <3> QED
            BY <2>2, <3>1
    <2> HIDE DEF t
    <2>5. \A i \in 1 .. n : hashPrev[p][i] = t[i]
        <3>1. \A i \in 1 .. n : hashPrev[p][i] = <<i, decideSent[i].batch>>
            BY <2>1 DEF n
        <3>2. \A i \in 1 .. n : i \in 1 .. Len(hashPrev[q])
            BY <2>2
        <3>3. \A i \in 1 .. n : hashPrev[q][i] = <<i, decideSent[i].batch>>
            BY <2>1, <3>2
        <3> QED
            BY <2>4, <3>1, <3>3
    <2>6. hashPrev[p] \in Seq(P) /\ Len(hashPrev[p]) = n
        BY <2>1 DEF n
    <2> QED
        BY <2>4, <2>5, <2>6, SeqEqual DEF t, n
<1> QED
    BY <1>1, HfInvariant, PTL

\* A block that is output as notarized was made pending by a quorum of nodes.
THEOREM NotarizedIsSupported == Spec => []NotarizedSupport
<1>1. ASSUME HfInv PROVE NotarizedSupport
    <2> SUFFICES ASSUME NEW p \in Nodes, output[p] # None
                 PROVE  {q \in Nodes : slotCur[q] > output[p].block.slot} \in Quorum
        BY DEF NotarizedSupport
    <2> DEFINE s == slotCur[p]
    <2>1. s > 2 /\ output[p].block = BlockAt(s - 2)
        BY <1>1 DEF HfInv, OutputsCertified
    <2>2. s - 1 \in Slots /\ s - 1 < s /\ Known(s) /\ s \in Nat
        BY <1>1, <2>1, SlotsBehind, Constants DEF HfInv
    <2>3. output[p].block.slot = s - 2
        BY <2>1 DEF BlockAt
    <2>4. /\ decideSent[s - 1].sigma \in Quorum
          /\ \A q \in decideSent[s - 1].sigma : slotCur[q] >= s - 1
        BY <1>1, <2>2 DEF HfInv, DecidesChained, Known
    <2>5. \A q \in Nodes : slotCur[q] \in Nat
        BY <1>1, Constants DEF HfInv, TypeOK
    <2>6. decideSent[s - 1].sigma \subseteq {q \in Nodes : slotCur[q] > s - 2}
        BY <2>2, <2>4, <2>5 DEF Quorum
    <2> QED
        BY <2>3, <2>4, <2>6, QuorumSuperset
<1> QED
    BY <1>1, HfInvariant, PTL

\* The certificate that comes with a notarized block is one for that block.
THEOREM CertificatesVerify == Spec => []CertificateVerifies
<1>1. ASSUME HfInv PROVE CertificateVerifies
    <2> SUFFICES ASSUME NEW p \in Nodes, output[p] # None
                 PROVE  /\ output[p].sigma \in Quorum
                        /\ output[p].certified =
                               HeaderHash(output[p].block.slot, output[p].block.hash,
                                          output[p].block.batch)
        BY DEF CertificateVerifies
    <2> DEFINE s == slotCur[p]
               r == s - 2
    <2>1. /\ s > 2 /\ output[p].block = BlockAt(r)
          /\ output[p].certified = decideSent[s - 1].hash
          /\ output[p].sigma = decideSent[s - 1].sigma
        BY <1>1 DEF HfInv, OutputsCertified
    <2>2. s - 1 \in Slots /\ s - 1 < s /\ Known(s) /\ s \in Nat
        BY <1>1, <2>1, SlotsBehind, Constants DEF HfInv
    <2>3. decideSent[s - 1].sigma \in Quorum /\ decideSent[s - 1].hash = Tip(s - 1)
        BY <1>1, <2>2 DEF HfInv, DecidesChained, Known
    <2>4. Tip(s - 1) = HeaderHash(r, decideSent[r].hash, decideSent[r].batch)
        <3> DEFINE t == s - 1
        <3>1. t # 1 /\ t - 1 = r
            BY <2>1, <2>2
        <3> HIDE DEF t, r
        <3>2. Tip(t) = HeaderHash(t - 1, decideSent[t - 1].hash, decideSent[t - 1].batch)
            BY <3>1 DEF Tip
        <3>3. Tip(t) = HeaderHash(r, decideSent[r].hash, decideSent[r].batch)
            BY <3>1, <3>2
        <3> QED
            BY <3>3 DEF t
    <2> HIDE DEF r
    <2>5. /\ output[p].block.slot = r /\ output[p].block.hash = decideSent[r].hash
          /\ output[p].block.batch = decideSent[r].batch
        BY <2>1 DEF BlockAt
    <2> QED
        BY <2>1, <2>3, <2>4, <2>5
<1> QED
    BY <1>1, HfInvariant, PTL

\* No put_nowait finds decides[slot] full.
THEOREM DecidesHaveRoom == Spec => []DecidesNeverFull
<1>1. ASSUME HfInv PROVE DecidesNeverFull
    <2>1. ASSUME NEW p \in Nodes, NEW s \in Slots, Arrives(p, s), Accepts(p, s),
                 decides[p] # None
          PROVE  FALSE
        <3>1. s = handled[p] + 1 /\ s = slotCur[p] /\ p # Leader /\ handled[p] \in Nat
            BY <1>1, <2>1, Constants DEF Arrives, Accepts, HfInv, TypeOK
        <3>2. handled[p] >= slotCur[p]
            BY <1>1, <2>1, <3>1 DEF HfInv, QueuesCurrent
        <3> QED
            BY <3>1, <3>2
    <2>2. ASSUME NEW m \in voteMsgs, Counts(m), decides[Leader] # None
          PROVE  FALSE
        <3>1. /\ m.slot = slotCur[Leader] /\ m.slot \in Slots
              /\ Cardinality(voters[m.slot]) < N - F
            BY <1>1, <2>2 DEF Counts, VotesNeeded, HfInv, TypeOK, Votes
        <3>2. Cardinality(voters[m.slot]) >= N - F
            BY <1>1, <2>2, <3>1, Constants DEF HfInv, QueuesCurrent
        <3>3. Cardinality(voters[m.slot]) \in Nat
            BY <1>1, <3>1, NodeSets DEF HfInv, TypeOK
        <3> QED
            BY <3>1, <3>2, <3>3, FaultNumbers
    <2> QED
        BY <2>1, <2>2 DEF DecidesNeverFull
<1> QED
    BY <1>1, HfInvariant, PTL

\* What a step does to a node's fixed block: nothing, or it fixes the block
\* that it held as notarized.
LEMMA FixedSteps ==
    ASSUME HfInv, [Next]_fpVars, NEW p \in Nodes, fixed'[p] # fixed[p]
    PROVE  /\ phase[p] = "wait" /\ decides[p] # None
           /\ fixed'[p] = NewFixed(p)
<1>1. ASSUME UNCHANGED fixed PROVE FALSE
    BY <1>1
<1>2. ASSUME NEW q \in Nodes, Advance(q) \/ RaiseInStatistics(q)
      PROVE  q = p /\ phase[p] = "wait" /\ decides[p] # None /\ fixed'[p] = NewFixed(p)
    <2>1. /\ fixed' = [fixed EXCEPT ![q] = NewFixed(q)]
          /\ phase[q] = "wait" /\ decides[q] # None
        BY <1>2 DEF Advance, RaiseInStatistics
    <2>2. q = p
        BY <2>1 DEF HfInv, TypeOK
    <2> QED
        BY <2>1, <2>2 DEF HfInv, TypeOK
<1>3. CASE HandleVote
    <2>1. UNCHANGED fixed
        BY <1>3 DEF HandleVote, DropVote, CountVote, nodeVars
    <2> QED
        BY <1>1, <2>1
<1>4. ASSUME NEW q \in Nodes, Step(q) \/ Crash(q)
      PROVE  (Advance(q) \/ RaiseInStatistics(q)) \/ UNCHANGED fixed
    BY <1>4 DEF Step, Enter, AcceptDecide, DropDecide, SlotTimeout, Crash, nodeVars
<1>5. CASE UNCHANGED fpVars
    BY <1>5, <1>1 DEF fpVars, nodeVars
<1> QED
    BY <1>1, <1>2, <1>3, <1>4, <1>5 DEF Next

\* A fixed block is final, and the next one extends it.
THEOREM FixedOnlyAdvances == Spec => FixedAdvances
<1> DEFINE A == \A p \in Nodes : fixed'[p] # fixed[p] =>
                   /\ fixed[p] # None =>
                          fixed'[p].hash = HeaderHash(fixed[p].slot, fixed[p].hash,
                                                      fixed[p].batch)
                   /\ fixed'[p].slot + 2 = slotCur[p]
<1>1. ASSUME HfInv, [Next]_fpVars PROVE A
    <2> SUFFICES ASSUME NEW p \in Nodes, fixed'[p] # fixed[p]
                 PROVE  /\ fixed[p] # None =>
                               fixed'[p].hash = HeaderHash(fixed[p].slot, fixed[p].hash,
                                                           fixed[p].batch)
                        /\ fixed'[p].slot + 2 = slotCur[p]
        OBVIOUS
    <2> DEFINE s == slotCur[p]
               r == s - 2
    <2>1. phase[p] = "wait" /\ decides[p] # None /\ fixed'[p] = NewFixed(p)
        BY <1>1, FixedSteps
    <2>2. /\ s \in Slots
          /\ NewFixed(p) = IF s <= 2 THEN None ELSE BlockAt(r)
          /\ fixed[p] = IF s <= 3 THEN None ELSE BlockAt(s - 3)
        BY <1>1, <2>1, Waking DEF HfInv, BlocksRotate
    <2>3. s > 2 /\ s \in Nat
        BY <1>1, <2>1, <2>2, Constants
    <2>4. fixed'[p] = BlockAt(r) /\ r + 2 = s
        BY <2>1, <2>2, <2>3
    <2>5. fixed'[p].slot = r /\ fixed'[p].hash = decideSent[r].hash
        BY <2>4 DEF BlockAt
    <2>6. ASSUME fixed[p] # None
          PROVE  decideSent[r].hash = HeaderHash(fixed[p].slot, fixed[p].hash, fixed[p].batch)
        <3> DEFINE t == s - 3
        <3>1. s > 3 /\ fixed[p] = BlockAt(t) /\ r # 1 /\ r - 1 = t
            BY <2>2, <2>3, <2>6
        <3>2. r \in Slots /\ r < s /\ Known(s)
            BY <1>1, <2>2, <2>3, Constants DEF HfInv, OnChain
        <3>3. decideSent[r].hash = Tip(r)
            BY <1>1, <3>2 DEF HfInv, DecidesChained, Known
        <3> HIDE DEF r, t
        <3>4. Tip(r) = HeaderHash(r - 1, decideSent[r - 1].hash, decideSent[r - 1].batch)
            BY <3>1 DEF Tip
        <3>5. Tip(r) = HeaderHash(t, decideSent[t].hash, decideSent[t].batch)
            BY <3>1, <3>4
        <3>6. /\ fixed[p].slot = t /\ fixed[p].hash = decideSent[t].hash
              /\ fixed[p].batch = decideSent[t].batch
            BY <3>1 DEF BlockAt
        <3> QED
            BY <3>3, <3>5, <3>6
    <2> QED
        BY <2>4, <2>5, <2>6
<1>2. A <=> \A p \in Nodes : fixed'[p] # fixed[p] =>
                /\ fixed[p] # None =>
                       fixed'[p].hash = HeaderHash(fixed[p].slot, fixed[p].hash,
                                                   fixed[p].batch)
                /\ fixed'[p].slot + 2 = slotCur[p]
    OBVIOUS
<1> HIDE DEF A
<1>3. HfInv /\ [Next]_fpVars => [A]_fpVars
    BY <1>1
<1>4. Spec => [][A]_fpVars
    BY <1>3, HfInvariant, PTL DEF Spec
<1> QED
    BY <1>4 DEF FixedAdvances, A

\* A node raises in one step only.
LEMMA RaisedSteps ==
    ASSUME HfInv, [Next]_fpVars, NEW p \in Nodes,
           phase[p] # "raised", phase'[p] = "raised"
    PROVE  RaiseInStatistics(p)
<1>1. ASSUME UNCHANGED phase PROVE FALSE
    BY <1>1
<1>2. CASE HandleVote
    BY <1>1, <1>2 DEF HandleVote, DropVote, CountVote
<1>3. CASE UNCHANGED fpVars
    BY <1>1, <1>3 DEF fpVars
<1>4. ASSUME NEW q \in Nodes, Step(q) \/ Crash(q)
      PROVE  RaiseInStatistics(p)
    <2>1. CASE RaiseInStatistics(q)
        <3>1. phase' = [phase EXCEPT ![q] = "raised"]
            BY <2>1 DEF RaiseInStatistics
        <3>2. q = p
            BY <3>1 DEF HfInv, TypeOK
        <3> QED
            BY <2>1, <3>2
    <2>2. CASE ~ RaiseInStatistics(q)
        <3>1. \/ UNCHANGED phase
              \/ \E x \in {"wait", "left", "timeout", "crashed"} :
                     phase' = [phase EXCEPT ![q] = x]
            BY <1>4, <2>2 DEF Step, Enter, AcceptDecide, DropDecide, Advance,
                              SlotTimeout, Crash
        <3> QED
            BY <1>1, <3>1 DEF HfInv, TypeOK
    <2> QED
        BY <2>1, <2>2
<1> QED
    BY <1>2, <1>3, <1>4 DEF Next

\* What a node that raised has fixed: the slots it counts are decided, and every
\* one of them has a dummy.
RaisedOnDummies ==
    \A p \in Nodes : phase[p] = "raised" =>
        /\ fixed[p] \in Blocks
        /\ \A s \in StatFrom .. fixed[p].slot :
               s \in Slots /\ decideSent[s] # None /\ decideSent[s].batch = "Dummy"

\* No step changes a DECIDE that was sent.
LEMMA ChainOnlyGrows ==
    ASSUME HfInv, [Next]_fpVars
    PROVE  ChainGrows
<1>1. ASSUME NEW m \in voteMsgs, CountVote(m)
      PROVE  ChainGrows
    <2>1. CASE UNCHANGED <<decideSent, decides, buffer>>
        BY <2>1 DEF ChainGrows
    <2>2. CASE Decides(m)
        <3>1. m.slot \in Slots
            BY <1>1, VoteFacts
        <3> QED
            BY <2>2, <3>1 DEF Decides, ChainGrows, HfInv, TypeOK
    <2> QED
        BY <1>1, <2>1, <2>2, CountDecides
<1>2. CASE HandleVote
    BY <1>1, <1>2 DEF HandleVote, DropVote, ChainGrows
<1>3. CASE UNCHANGED fpVars
    BY <1>3 DEF fpVars, netVars, ChainGrows
<1>4. ASSUME NEW p \in Nodes, Step(p) \/ Crash(p)
      PROVE  UNCHANGED decideSent
    BY <1>4 DEF Step, Enter, AcceptDecide, DropDecide, Advance, RaiseInStatistics,
                SlotTimeout, Crash, netVars
<1> QED
    BY <1>2, <1>3, <1>4 DEF Next, ChainGrows

\* A node that divides by zero counts dummies only.
LEMMA RaisesOnDummies ==
    ASSUME HfInv, NEW p \in Nodes, RaiseInStatistics(p)
    PROVE  /\ fixed'[p] \in Blocks
           /\ \A s \in StatFrom .. fixed'[p].slot :
                  s \in Slots /\ decideSent[s] # None /\ decideSent[s].batch = "Dummy"
<1> DEFINE c == slotCur[p]
<1>1. /\ phase[p] = "wait" /\ decides[p] # None
      /\ Counted(p) /\ NewEpochTx(p) = 0
      /\ fixed' = [fixed EXCEPT ![p] = NewFixed(p)]
    BY DEF RaiseInStatistics, DivisionByZero
<1>2. /\ c \in Slots
      /\ NewFixed(p) = IF c <= 2 THEN None ELSE BlockAt(c - 2)
      /\ c > 2 => BlockAt(c - 2) \in Blocks \ {None}
    BY <1>1, Waking
<1>3. fixed'[p] = NewFixed(p) /\ NewFixed(p) # None
    BY <1>1 DEF HfInv, TypeOK, Counted
<1>4. \A k \in Slots : StatFrom <= k /\ k <= c - 2 => decideSent[k].batch # "Tx"
    BY <1>1, StatisticsStep
<1>5. Known(c)
    BY DEF HfInv, OnChain
<1> HIDE DEF c
<1>6. fixed'[p] = BlockAt(c - 2) /\ fixed'[p] \in Blocks /\ c > 2
    BY <1>2, <1>3, Constants
<1>7. fixed'[p].slot = c - 2
    BY <1>6 DEF BlockAt
<1>8. ASSUME NEW s \in StatFrom .. c - 2
      PROVE  s \in Slots /\ decideSent[s] # None /\ decideSent[s].batch = "Dummy"
    <2>1. s \in Slots /\ s < c /\ StatFrom <= s
        BY <1>2, <1>6, Constants
    <2>2. decideSent[s] # None /\ decideSent[s].batch # "Tx"
        BY <1>4, <1>5, <2>1 DEF Known
    <2>3. decideSent[s].batch \in {"Tx", "Dummy"}
        BY <2>1, <2>2 DEF HfInv, TypeOK, Items, Batches
    <2> QED
        BY <2>1, <2>2, <2>3
<1> QED
    BY <1>6, <1>7, <1>8

\* A main greenlet dies in the statistics only at a node that has fixed blocks
\* to count and none of them has a transaction: with FastPathEnds this is what
\* FastPathReturns promises, crashes included, but for the fairness.
THEOREM RaisesOnlyOnDummies ==
    Spec => [](\A p \in Nodes : phase[p] = "raised" =>
                   fixed[p] # None /\ OnlyDummiesFixed(p))
<1> DEFINE Only == \A p \in Nodes : phase[p] = "raised" =>
                       fixed[p] # None /\ OnlyDummiesFixed(p)
<1>1. Init => RaisedOnDummies
    BY DEF Init, RaisedOnDummies
<1>2. ASSUME HfInv, RaisedOnDummies, [Next]_fpVars
      PROVE  RaisedOnDummies'
    <2> SUFFICES ASSUME NEW p \in Nodes, phase'[p] = "raised"
                 PROVE  /\ fixed'[p] \in Blocks
                        /\ \A s \in StatFrom .. fixed'[p].slot :
                               /\ s \in Slots /\ decideSent'[s] # None
                               /\ decideSent'[s].batch = "Dummy"
        BY DEF RaisedOnDummies
    <2>1. ChainGrows
        BY <1>2, ChainOnlyGrows
    <2>2. CASE phase[p] = "raised"
        <3>1. fixed'[p] = fixed[p]
            BY <1>2, <2>2, FixedSteps
        <3> QED
            BY <1>2, <2>1, <2>2, <3>1 DEF RaisedOnDummies, ChainGrows
    <2>3. CASE phase[p] # "raised"
        <3>1. RaiseInStatistics(p)
            BY <1>2, <2>3, RaisedSteps
        <3>2. decideSent' = decideSent
            BY <3>1 DEF RaiseInStatistics, netVars
        <3> QED
            BY <1>2, <3>1, <3>2, RaisesOnDummies
    <2> QED
        BY <2>2, <2>3
<1>3. RaisedOnDummies => Only
    BY NoneAssumption DEF RaisedOnDummies, OnlyDummiesFixed
<1> HIDE DEF Only
<1>4. Spec => []Only
    BY <1>1, <1>2, <1>3, HfInvariant, PTL DEF Spec
<1> QED
    BY <1>4 DEF Only
-----------------------------------------------------------------------------
(***************************************************************************)
(* The fast path ends.  What a node and its messages may still do is a     *)
(* finite set of tokens, and every step takes one of them for good, so no  *)
(* behaviour has more steps than there are tokens.  A timer or a first     *)
(* vote is due as long as a node is in the fast path: this is all of       *)
(* FastPathReturns but the fairness that has the steps taken.              *)
(***************************************************************************)
\* p has not voted in slot s yet; its vote in slot s is on its way.
Unsent(p, s) == slotCur[p] < s \/ (slotCur[p] = s /\ phase[p] = "enter")
OnItsWay(p, s) == \E m \in voteMsgs : m.sender = p /\ m.slot = s

Kinds == {"process", "start", "running", "slot", "vote", "decide"}

Remains(kind, p, s) ==
    \/ kind = "process" /\ phase[p] # "crashed"
    \/ kind = "start" /\ phase[p] = "enter"
    \/ kind = "running" /\ phase[p] \in {"enter", "wait"}
    \/ kind = "slot" /\ slotCur[p] <= s
    \/ kind = "vote" /\ (Unsent(p, s) \/ OnItsWay(p, s))
    \/ kind = "decide" /\ handled[p] < s

Todo == {t \in Kinds \X (Nodes \X Slots) : Remains(t[1], t[2][1], t[2][2])}

\* There is one vote of a node in a slot on its way, and none before it started.
VotesOnce ==
    /\ \A m1, m2 \in voteMsgs : m1.sender = m2.sender /\ m1.slot = m2.slot => m1 = m2
    /\ \A m \in voteMsgs : phase[m.sender] # "enter"

EndInv == HfInv /\ VotesOnce

\* Nothing is added, and one token goes.
LEMMA TokenGoes ==
    ASSUME \A k \in Kinds, p \in Nodes, s \in Slots : Remains(k, p, s)' => Remains(k, p, s),
           NEW k \in Kinds, NEW p \in Nodes, NEW s \in Slots,
           Remains(k, p, s), ~ Remains(k, p, s)'
    PROVE  Todo' \subseteq Todo /\ Todo' # Todo
<1>1. Todo' \subseteq Todo
    BY DEF Todo
<1>2. <<k, <<p, s>>>> \in Todo /\ <<k, <<p, s>>>> \notin Todo'
    BY DEF Todo
<1> QED
    BY <1>1, <1>2

LEMMA FirstIsSlot == 1 \in Slots
BY Constants

LEMMA EnterEnds ==
    ASSUME EndInv, NEW p \in Nodes, Enter(p)
    PROVE  VotesOnce' /\ Todo' \subseteq Todo /\ Todo' # Todo
<1> USE DEF EndInv
<1>1. /\ phase[p] = "enter" /\ phase' = [phase EXCEPT ![p] = "wait"]
      /\ voteMsgs' = voteMsgs \cup {Vote(p, slotCur[p], hashPrev[p])}
      /\ slotCur' = slotCur /\ handled' = handled
      /\ TypeOK
    BY DEF Enter, nodeVars, HfInv
<1>2. \A m \in voteMsgs : m.sender # p
    BY <1>1 DEF VotesOnce
<1>3. Vote(p, slotCur[p], hashPrev[p]).sender = p /\ Vote(p, slotCur[p], hashPrev[p]).slot = slotCur[p]
    BY DEF Vote
<1>4. \A q \in Nodes : phase'[q] = IF q = p THEN "wait" ELSE phase[q]
    BY <1>1 DEF TypeOK
<1>5. VotesOnce'
    <2>1. \A m \in voteMsgs : m.sender \in Nodes
        BY <1>1 DEF TypeOK, Votes
    <2> QED
        BY <1>1, <1>2, <1>3, <1>4, <2>1 DEF VotesOnce
<1>6. ASSUME NEW k \in Kinds, NEW q \in Nodes, NEW s \in Slots, Remains(k, q, s)'
      PROVE  Remains(k, q, s)
    BY <1>1, <1>3, <1>4, <1>6 DEF Remains, Unsent, OnItsWay
<1>7. Remains("start", p, 1) /\ ~ Remains("start", p, 1)'
    BY <1>1, <1>4 DEF Remains
<1> QED
    BY <1>5, <1>6, <1>7, FirstIsSlot, TokenGoes DEF Kinds

LEMMA VoteEnds ==
    ASSUME EndInv, NEW m \in voteMsgs, DropVote(m) \/ CountVote(m)
    PROVE  VotesOnce' /\ Todo' \subseteq Todo /\ Todo' # Todo
<1> USE DEF EndInv
<1>1. /\ voteMsgs' = voteMsgs \ {m}
      /\ slotCur' = slotCur /\ handled' = handled /\ phase' = phase
      /\ TypeOK
    BY DEF DropVote, CountVote, nodeVars, HfInv
<1>2. VotesOnce'
    BY <1>1 DEF VotesOnce
<1>3. ASSUME NEW k \in Kinds, NEW q \in Nodes, NEW s \in Slots, Remains(k, q, s)'
      PROVE  Remains(k, q, s)
    BY <1>1, <1>3 DEF Remains, Unsent, OnItsWay
<1>4. m.sender \in Nodes /\ m.slot \in Slots /\ phase[m.sender] # "enter"
    BY <1>1 DEF TypeOK, Votes, VotesOnce
<1>5. ~ slotCur[m.sender] < m.slot
    <2>1. slotCur[m.sender] \in Int /\ m.slot \in Int
        BY <1>1, <1>4, Constants DEF TypeOK
    <2>2. slotCur[m.sender] >= m.slot
        BY DEF HfInv, VotesReached
    <2> QED
        BY <2>1, <2>2
<1>6. Remains("vote", m.sender, m.slot) /\ ~ Remains("vote", m.sender, m.slot)'
    BY <1>1, <1>4, <1>5 DEF Remains, Unsent, OnItsWay, VotesOnce
<1> QED
    BY <1>2, <1>3, <1>4, <1>6, TokenGoes DEF Kinds

LEMMA DecideEnds ==
    ASSUME EndInv, NEW p \in Nodes, NEW r \in Slots, AcceptDecide(p, r) \/ DropDecide(p, r)
    PROVE  VotesOnce' /\ Todo' \subseteq Todo /\ Todo' # Todo
<1> USE DEF EndInv
<1>1. /\ voteMsgs' = voteMsgs /\ slotCur' = slotCur /\ phase' = phase
      /\ handled' = [handled EXCEPT ![p] = r] /\ r = handled[p] + 1
      /\ TypeOK
    BY DEF AcceptDecide, DropDecide, Arrives, nodeVars, HfInv
<1>2. VotesOnce'
    BY <1>1 DEF VotesOnce
<1>3. /\ \A q \in Nodes : handled'[q] = IF q = p THEN r ELSE handled[q]
      /\ \A q \in Nodes : handled[q] \in Int
    BY <1>1, Constants DEF TypeOK
<1>4. ASSUME NEW k \in Kinds, NEW q \in Nodes, NEW s \in Slots, Remains(k, q, s)'
      PROVE  Remains(k, q, s)
    <2>1. s \in Int
        BY Constants
    <2> QED
        BY <1>1, <1>3, <1>4, <2>1 DEF Remains, Unsent, OnItsWay
<1>5. Remains("decide", p, r) /\ ~ Remains("decide", p, r)'
    BY <1>1, <1>3 DEF Remains
<1> QED
    BY <1>2, <1>4, <1>5, TokenGoes DEF Kinds

LEMMA AdvanceEnds ==
    ASSUME EndInv, NEW p \in Nodes, Advance(p)
    PROVE  VotesOnce' /\ Todo' \subseteq Todo /\ Todo' # Todo
<1> USE DEF EndInv
<1> DEFINE n == slotCur[p] + 1
           hash == HeaderHash(slotCur[p], decides[p].hash, decides[p].batch)
<1>1. /\ phase[p] = "wait" /\ handled' = handled
      /\ slotCur' = [slotCur EXCEPT ![p] = n]
      /\ IF slotCur[p] < LastSlot
         THEN voteMsgs' = voteMsgs \cup {Vote(p, n, hash)} /\ phase' = phase
         ELSE phase' = [phase EXCEPT ![p] = "left"] /\ voteMsgs' = voteMsgs
      /\ TypeOK
    BY DEF Advance, HfInv
<1>2. /\ slotCur[p] \in Slots /\ slotCur[p] \in Int
      /\ \A q \in Nodes : slotCur[q] \in Int
      /\ \A s \in Slots : s \in Int
    BY <1>1, Constants DEF HfInv, PhasesInSlots, TypeOK
<1>3. \A q \in Nodes : slotCur'[q] = IF q = p THEN n ELSE slotCur[q]
    BY <1>1 DEF TypeOK
<1>4. \A q \in Nodes : phase'[q] = phase[q] \/ (q = p /\ phase'[q] = "left")
    BY <1>1 DEF TypeOK
<1>5. Vote(p, n, hash).sender = p /\ Vote(p, n, hash).slot = n
    BY DEF Vote
<1>6. \A m \in voteMsgs : m.sender \in Nodes /\ m.slot \in Slots /\ (m.sender = p => m.slot # n)
    BY <1>1, <1>2 DEF HfInv, VotesReached, TypeOK, Votes
<1>7. voteMsgs' = voteMsgs \/ voteMsgs' = voteMsgs \cup {Vote(p, n, hash)}
    BY <1>1
<1> HIDE DEF hash
<1>8. VotesOnce'
    BY <1>1, <1>4, <1>5, <1>6, <1>7 DEF VotesOnce
<1>9. ASSUME NEW k \in Kinds, NEW q \in Nodes, NEW s \in Slots, Remains(k, q, s)'
      PROVE  Remains(k, q, s)
    <2>1. Unsent(q, s)' => Unsent(q, s)
        BY <1>1, <1>2, <1>3, <1>4 DEF Unsent
    <2>2. OnItsWay(q, s)' => OnItsWay(q, s) \/ Unsent(q, s)
        BY <1>2, <1>5, <1>7 DEF OnItsWay, Unsent
    <2> QED
        BY <1>1, <1>2, <1>3, <1>4, <1>9, <2>1, <2>2 DEF Remains
<1>10. PICK c \in Slots : c = slotCur[p]
    BY <1>2
<1>11. Remains("slot", p, c) /\ ~ Remains("slot", p, c)'
    BY <1>2, <1>3, <1>10 DEF Remains
<1> QED
    BY <1>8, <1>9, <1>10, <1>11, TokenGoes DEF Kinds

\* The fast path of a node stops, or its process does.
LEMMA StopEnds ==
    ASSUME EndInv, NEW p \in Nodes, SlotTimeout(p) \/ RaiseInStatistics(p) \/ Crash(p)
    PROVE  VotesOnce' /\ Todo' \subseteq Todo /\ Todo' # Todo
<1> USE DEF EndInv
<1>1. /\ voteMsgs' = voteMsgs /\ slotCur' = slotCur /\ handled' = handled
      /\ \/ phase[p] = "wait" /\ phase' = [phase EXCEPT ![p] = "timeout"]
         \/ phase[p] = "wait" /\ phase' = [phase EXCEPT ![p] = "raised"]
         \/ phase[p] # "crashed" /\ phase' = [phase EXCEPT ![p] = "crashed"]
      /\ TypeOK
    <2>1. CASE SlotTimeout(p)
        BY <2>1 DEF SlotTimeout, nodeVars, netVars, HfInv
    <2>2. CASE RaiseInStatistics(p)
        BY <2>2 DEF RaiseInStatistics, netVars, HfInv
    <2>3. CASE Crash(p)
        BY <2>3 DEF Crash, nodeVars, HfInv
    <2> QED
        BY <2>1, <2>2, <2>3
<1>2. /\ \A q \in Nodes : phase'[q] = phase[q] \/ (q = p /\ phase'[q] \in {"timeout", "raised", "crashed"})
      /\ phase'[p] \in {"timeout", "raised", "crashed"}
      /\ phase[p] = "wait" \/ (phase[p] # "crashed" /\ phase'[p] = "crashed")
    BY <1>1 DEF TypeOK
<1>3. VotesOnce'
    <2>1. \A m \in voteMsgs : m.sender \in Nodes
        BY <1>1 DEF TypeOK, Votes
    <2> QED
        BY <1>1, <1>2, <2>1 DEF VotesOnce
<1>4. ASSUME NEW k \in Kinds, NEW q \in Nodes, NEW s \in Slots, Remains(k, q, s)'
      PROVE  Remains(k, q, s)
    BY <1>1, <1>2, <1>4 DEF Remains, Unsent, OnItsWay
<1>5. \/ Remains("running", p, 1) /\ ~ Remains("running", p, 1)'
      \/ Remains("process", p, 1) /\ ~ Remains("process", p, 1)'
    BY <1>2 DEF Remains
<1> QED
    BY <1>3, <1>4, <1>5, FirstIsSlot, TokenGoes DEF Kinds

LEMMA EndsStep ==
    ASSUME EndInv, [Next]_fpVars
    PROVE  EndInv' /\ (fpVars' = fpVars \/ (Todo' \subseteq Todo /\ Todo' # Todo))
<1>1. HfInv'
    BY StepKeeps DEF EndInv
<1>2. CASE HandleVote
    BY <1>1, <1>2, VoteEnds DEF HandleVote, EndInv
<1>3. ASSUME NEW p \in Nodes, Step(p) \/ Crash(p)
      PROVE  VotesOnce' /\ Todo' \subseteq Todo /\ Todo' # Todo
    BY <1>3, EnterEnds, DecideEnds, AdvanceEnds, StopEnds DEF Step
<1>4. CASE UNCHANGED fpVars
    BY <1>1, <1>4 DEF EndInv, VotesOnce, fpVars, netVars
<1> QED
    BY <1>1, <1>2, <1>3, <1>4 DEF Next, EndInv

LEMMA TodoIsFinite == IsFiniteSet(Todo)
<1>1. IsFiniteSet(Kinds)
    <2>1. Kinds = {"process", "start", "running", "slot"} \cup {"vote", "decide"}
        BY DEF Kinds
    <2>2. {"vote", "decide"} = {"vote", "decide", "vote", "decide"}
        OBVIOUS
    <2>3. IsFiniteSet({"process", "start", "running", "slot"})
        BY FourAreFinite
    <2>4. IsFiniteSet({"vote", "decide", "vote", "decide"})
        BY FourAreFinite
    <2> QED
        BY <2>1, <2>2, <2>3, <2>4, FS_Union
<1>2. IsFiniteSet(Nodes) /\ IsFiniteSet(Slots)
    BY FaultAssumption, Constants, FS_Interval
<1>3. IsFiniteSet(Nodes \X Slots)
    BY <1>2, FS_Product
<1>4. IsFiniteSet(Kinds \X (Nodes \X Slots))
    BY <1>1, <1>3, FS_Product
<1>5. Todo \subseteq Kinds \X (Nodes \X Slots)
    BY DEF Todo
<1> QED
    BY <1>4, <1>5, FS_Subset

\* hsfastpath comes to an end at every node (":return tuple" of its docstring):
\* each step takes something for good from a finite set of what is left to do,
\* so that only finitely many follow, whatever is dropped, times out or crashes.
THEOREM FastPathEnds ==
    Spec => []IsFiniteSet(Todo) /\ [][Todo' \in (SUBSET Todo) \ {Todo}]_fpVars
<1> DEFINE A == Todo' \in (SUBSET Todo) \ {Todo}
<1>1. Init => EndInv
    BY InitHolds DEF EndInv, VotesOnce, Init
<1>2. EndInv /\ [Next]_fpVars => EndInv' /\ [A]_fpVars
    BY EndsStep
<1>3. IsFiniteSet(Todo)
    BY TodoIsFinite
<1> HIDE DEF A
<1>4. Spec => []IsFiniteSet(Todo) /\ [][A]_fpVars
    BY <1>1, <1>2, <1>3, PTL DEF Spec
<1> QED
    BY <1>4 DEF A
=============================================================================
