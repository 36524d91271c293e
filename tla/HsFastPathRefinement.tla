------------------------- MODULE HsFastPathRefinement -------------------------
(***************************************************************************)
(* The fast path implements FastPathSpec for every number of nodes and     *)
(* slots: each of its steps is, seen through StatusBar and BatchBar, a     *)
(* step of the specification or a stutter.  What the view change is proved *)
(* about (BdtViewChangeProof) is thereby what the messages achieve.        *)
(***************************************************************************)
EXTENDS HsFastPathProof

LEMMA StatusOf ==
    ASSUME TypeOK, NEW p \in Nodes
    PROVE  /\ phase[p] \in {"enter", "wait"} => StatusBar[p] = "running"
           /\ phase[p] \in {"left", "timeout"} => StatusBar[p] = "returned"
           /\ phase[p] = "raised" => StatusBar[p] = "raised"
           /\ phase[p] = "crashed" => StatusBar[p] = "crashed"
           /\ StatusBar[p] = "crashed" => phase[p] = "crashed"
BY DEF TypeOK, Phases, StatusBar

LEMMA BatchOf ==
    ASSUME TypeOK, NEW s \in Slots
    PROVE  /\ decideSent[s] = None => BatchBar[s] = None
           /\ decideSent[s] # None => /\ BatchBar[s] = decideSent[s].batch
                                      /\ BatchBar[s] # None
<1>1. decideSent[s] # None => decideSent[s].batch \in Batches
    BY BlockIsBlock DEF Items
<1> QED
    BY <1>1, Constants DEF BatchBar

\* The two modules name the same constants.
LEMMA SameCardinality == \A S : Promise!Cardinality(S) = Cardinality(S)
BY DEF Promise!Cardinality, Cardinality

LEMMA SameConstants ==
    /\ Promise!Slots = Slots
    /\ Promise!LastSlot = LastSlot
    /\ Promise!Quorum = Quorum
<1>1. Promise!Slots = Slots /\ Promise!LastSlot = LastSlot
    BY DEF Promise!Slots, Promise!LastSlot, Slots, LastSlot
<1>2. Promise!N = N
    BY SameCardinality DEF Promise!N, N
<1>3. Promise!Quorum = Quorum
    BY <1>2, SameCardinality DEF Promise!Quorum, Quorum
<1> QED
    BY <1>1, <1>3

LEMMA RefinesInit == Init => Promise!FastInit
<1> SUFFICES ASSUME Init PROVE Promise!FastInit
    OBVIOUS
<1>1. StatusBar = [p \in Nodes |-> "running"]
    BY DEF Init, StatusBar
<1>2. BatchBar = [s \in Slots |-> None]
    BY DEF Init, BatchBar
<1> QED
    BY <1>1, <1>2, SameConstants DEF Init, Promise!FastInit

\* A step that keeps the statuses, the chain, the slots and the buffers.
Unseen == UNCHANGED <<slotCur, decideSent, StatusBar, buffer>>

LEMMA UnseenStutters ==
    ASSUME Unseen
    PROVE  UNCHANGED Promise!fastVars
<1>1. BatchBar' = BatchBar
    BY DEF Unseen, BatchBar
<1> QED
    BY <1>1 DEF Unseen, Promise!fastVars

\* The statistics fail in the code exactly when they do in the specification.
LEMMA SameDivision ==
    ASSUME HfInv, NEW p \in Nodes, phase[p] = "wait", decides[p] # None
    PROVE  DivisionByZero(p) <=> Promise!DivisionByZero(p)
<1>1. Counted(p) <=> slotCur[p] - 2 >= StatFrom
    BY CountedWhen
<1>2. NewEpochTx(p) = 0 <=>
          \A k \in Slots : StatFrom <= k /\ k <= slotCur[p] - 2
                               => decideSent[k].batch # "Tx"
    BY StatisticsStep
<1>3. /\ slotCur[p] \in Slots
      /\ \A k \in Slots : k <= slotCur[p] - 2 => decideSent[k] # None
    <2>1. slotCur[p] \in Slots
        BY Waking
    <2> QED
        BY <2>1, Constants DEF HfInv, OnChain, Known
<1>4. \A k \in Slots : k <= slotCur[p] - 2 => BatchBar[k] = decideSent[k].batch
    BY <1>3, BatchOf DEF HfInv
<1>5. Promise!TxUpTo(slotCur[p] - 2) = {} <=>
          \A k \in Slots : StatFrom <= k /\ k <= slotCur[p] - 2
                               => decideSent[k].batch # "Tx"
    BY <1>4, SameConstants DEF Promise!TxUpTo
<1> QED
    BY <1>1, <1>2, <1>5 DEF DivisionByZero, Promise!DivisionByZero
-----------------------------------------------------------------------------
(***************************************************************************)
(* The steps.                                                              *)
(***************************************************************************)
\* Messages that are sent, dropped or queued are not seen.
LEMMA QuietRefines ==
    ASSUME HfInv,
           \/ \E p \in Nodes : Enter(p)
           \/ \E p \in Nodes, s \in Slots : AcceptDecide(p, s) \/ DropDecide(p, s)
           \/ \E m \in voteMsgs : DropVote(m)
    PROVE  Unseen
<1>1. CASE \E p \in Nodes : Enter(p)
    <2> PICK p \in Nodes : Enter(p)
        BY <1>1
    <2>1. /\ phase[p] = "enter" /\ phase' = [phase EXCEPT ![p] = "wait"]
          /\ UNCHANGED <<slotCur, decideSent, buffer>>
        BY DEF Enter, nodeVars
    <2>2. \A q \in Nodes : phase'[q] = phase[q]
                               \/ (phase[q] = "enter" /\ phase'[q] = "wait")
        BY <2>1 DEF HfInv, TypeOK
    <2>3. StatusBar' = StatusBar
        BY <2>2 DEF StatusBar
    <2> QED
        BY <2>1, <2>3 DEF Unseen
<1>2. CASE \E p \in Nodes, s \in Slots : AcceptDecide(p, s) \/ DropDecide(p, s)
    <2>1. UNCHANGED <<slotCur, decideSent, buffer, phase>>
        BY <1>2 DEF AcceptDecide, DropDecide, nodeVars
    <2> QED
        BY <2>1 DEF Unseen, StatusBar
<1>3. CASE \E m \in voteMsgs : DropVote(m)
    <2>1. UNCHANGED <<slotCur, decideSent, buffer, phase>>
        BY <1>3 DEF DropVote, nodeVars
    <2> QED
        BY <2>1 DEF Unseen, StatusBar
<1> QED
    BY <1>1, <1>2, <1>3

\* The vote that completes a quorum decides the slot.
LEMMA CountVoteRefines ==
    ASSUME HfInv, NEW m \in voteMsgs, CountVote(m)
    PROVE  Unseen \/ \E s \in Promise!Slots : Promise!DecideSlot(s)
<1> DEFINE s == m.slot
           signers == voters[s] \cup {m.sender}
<1>1. /\ s \in Slots /\ s = slotCur[Leader]
      /\ signers \in SUBSET Nodes
      /\ \A q \in signers : slotCur[q] >= s
      /\ phase' = phase /\ slotCur' = slotCur
    BY VoteFacts DEF nodeVars
<1>2. StatusBar' = StatusBar
    BY <1>1 DEF StatusBar
<1>3. CASE UNCHANGED <<decideSent, decides, buffer>>
    BY <1>1, <1>2, <1>3 DEF Unseen
<1>4. CASE Decides(m)
    <2>1. /\ Cardinality(signers) = N - F
          /\ decideSent[s] = None
          /\ decideSent'[s].batch = NextBatch(s)
          /\ decideSent'[s] # None
          /\ decideSent' = [decideSent EXCEPT ![s] = decideSent'[s]]
        <3>1. Cardinality(signers) = N - F /\ decideSent[s] = None
            BY <1>4 DEF Decides
        <3> DEFINE item == [hash |-> Tip(s), sigma |-> signers, batch |-> NextBatch(s)]
        <3>3. decideSent' = [decideSent EXCEPT ![s] = item] /\ decideSent'[s] = item
            BY <1>4, DecideExtends DEF Decides
        <3>2. item.batch = NextBatch(s) /\ decideSent'[s] # None
            BY <1>4, DecideExtends
        <3> HIDE DEF item
        <3>4. decideSent' = [decideSent EXCEPT ![s] = decideSent'[s]]
            BY <3>3
        <3> QED
            BY <3>1, <3>2, <3>3, <3>4
    <2>2. buffer' = IF NextBatch(s) = "Tx" THEN [buffer EXCEPT ![Leader] = @ - 1] ELSE buffer
        BY <2>1 DEF CountVote, VotesNeeded
    <2>3. StatusBar[Leader] = "running"
        <3>1. phase[Leader] = "wait"
            BY DEF CountVote
        <3> QED
            BY <3>1, StatusOf, Constants DEF HfInv
    <2>4. ~ Promise!Decided(s)
        BY <1>1, <2>1, BatchOf DEF HfInv, Promise!Decided
    <2>5. {q \in Nodes : slotCur[q] >= s} \in Quorum
        <3>1. signers \in Quorum
            BY <1>1, <2>1, FaultNumbers DEF Quorum
        <3>2. signers \subseteq {q \in Nodes : slotCur[q] >= s}
            BY <1>1
        <3> HIDE DEF signers, s
        <3> QED
            BY <3>1, <3>2, QuorumSuperset
    <2>6. BatchBar' = [BatchBar EXCEPT ![s] = NextBatch(s)]
        <3> DEFINE d == decideSent'[s]
                   b == NextBatch(s)
        <3>1. d.batch = b /\ d # None /\ decideSent' = [decideSent EXCEPT ![s] = d]
            BY <2>1
        <3>2. \A r \in Slots : decideSent'[r] = IF r = s THEN d ELSE decideSent[r]
            <4> HIDE DEF d
            <4> QED
                BY <1>1, <3>1 DEF HfInv, TypeOK
        <3> HIDE DEF d, b, s
        <3>3. BatchBar' = [r \in Slots |-> IF r = s THEN b ELSE
                  IF decideSent[r] = None THEN None ELSE decideSent[r].batch]
            BY <3>1, <3>2 DEF BatchBar
        <3>4. BatchBar' = [BatchBar EXCEPT ![s] = b]
            BY <3>3 DEF BatchBar
        <3> QED
            BY <3>4 DEF b
    <2>7. Promise!DecideSlot(s)
        <3>1. CASE s > SlotsNum \/ buffer[Leader] = 0
            <4>1. NextBatch(s) = "Dummy"
                BY <3>1 DEF NextBatch
            <4> HIDE DEF s, signers
            <4> QED
                BY <1>1, <1>2, <2>2, <2>3, <2>4, <2>5, <2>6, <3>1, <4>1, SameConstants
                DEF Promise!DecideSlot, Promise!VotesIn
        <3>2. CASE ~ (s > SlotsNum \/ buffer[Leader] = 0)
            <4>1. NextBatch(s) = "Tx"
                BY <3>2 DEF NextBatch
            <4> HIDE DEF s, signers
            <4> QED
                BY <1>1, <1>2, <2>2, <2>3, <2>4, <2>5, <2>6, <3>2, <4>1, SameConstants
                DEF Promise!DecideSlot, Promise!VotesIn
        <3> QED
            BY <3>1, <3>2
    <2> QED
        BY <1>1, <2>7, SameConstants
<1> QED
    BY <1>3, <1>4, CountDecides

LEMMA AdvanceRefines ==
    ASSUME HfInv, NEW p \in Nodes, Advance(p)
    PROVE  Promise!AdvanceSlot(p)
<1>1. /\ phase[p] = "wait" /\ decides[p] # None /\ ~ DivisionByZero(p)
      /\ slotCur' = [slotCur EXCEPT ![p] = @ + 1]
      /\ UNCHANGED <<decideSent, buffer>>
    BY DEF Advance
<1>2. slotCur[p] \in Slots /\ decideSent[slotCur[p]] # None
    BY <1>1, Waking
<1>3. Promise!Decided(slotCur[p])
    BY <1>2, BatchOf, SameConstants DEF HfInv, Promise!Decided
<1>4. ~ Promise!DivisionByZero(p)
    BY <1>1, SameDivision
<1>5. StatusBar[p] = "running"
    BY <1>1, StatusOf DEF HfInv
<1>6. phase' = [phase EXCEPT ![p] = IF slotCur[p] = LastSlot THEN "left" ELSE "wait"]
    <2>1. slotCur[p] = LastSlot <=> ~ (slotCur[p] < LastSlot)
        BY <1>2, Constants
    <2> QED
        BY <1>1, <2>1 DEF Advance, HfInv, TypeOK
<1>7. StatusBar' = [StatusBar EXCEPT ![p] =
                        IF slotCur[p] = LastSlot THEN "returned" ELSE @]
    <2>1. \A q \in Nodes : phase'[q] = IF q = p
              THEN IF slotCur[p] = LastSlot THEN "left" ELSE "wait" ELSE phase[q]
        BY <1>6 DEF HfInv, TypeOK
    <2>2. \A q \in Nodes : StatusBar'[q] = IF q = p
              THEN IF slotCur[p] = LastSlot THEN "returned" ELSE "running" ELSE StatusBar[q]
        BY <2>1 DEF StatusBar
    <2> QED
        BY <2>2, <1>5 DEF StatusBar
<1>8. BatchBar' = BatchBar
    BY <1>1 DEF BatchBar
<1> QED
    BY <1>1, <1>3, <1>4, <1>5, <1>7, <1>8, SameConstants DEF Promise!AdvanceSlot, Promise!DecideIn

\* The status of a node whose phase changes to x.
LEMMA StatusSteps ==
    ASSUME HfInv, NEW p \in Nodes, NEW x \in {"raised", "timeout", "crashed"},
           phase' = [phase EXCEPT ![p] = x]
    PROVE  StatusBar' = [StatusBar EXCEPT ![p] = IF x = "timeout" THEN "returned" ELSE x]
<1>1. \A q \in Nodes : phase'[q] = IF q = p THEN x ELSE phase[q]
    BY DEF HfInv, TypeOK
<1>2. \A q \in Nodes : StatusBar'[q] = IF q = p
          THEN IF x = "timeout" THEN "returned" ELSE x ELSE StatusBar[q]
    BY <1>1 DEF StatusBar
<1> QED
    BY <1>2 DEF StatusBar

LEMMA RaiseRefines ==
    ASSUME HfInv, NEW p \in Nodes, RaiseInStatistics(p)
    PROVE  Promise!RaiseInSlot(p)
<1>1. /\ phase[p] = "wait" /\ decides[p] # None /\ DivisionByZero(p)
      /\ phase' = [phase EXCEPT ![p] = "raised"]
      /\ UNCHANGED <<slotCur, decideSent, buffer>>
    BY DEF RaiseInStatistics, netVars
<1>2. slotCur[p] \in Slots /\ decideSent[slotCur[p]] # None
    BY <1>1, Waking
<1>3. Promise!Decided(slotCur[p])
    BY <1>2, BatchOf, SameConstants DEF HfInv, Promise!Decided
<1>4. Promise!DivisionByZero(p)
    BY <1>1, SameDivision
<1>5. StatusBar[p] = "running"
    BY <1>1, StatusOf DEF HfInv
<1>6. StatusBar' = [StatusBar EXCEPT ![p] = "raised"]
    BY <1>1, StatusSteps
<1>7. BatchBar' = BatchBar
    BY <1>1 DEF BatchBar
<1> QED
    BY <1>1, <1>3, <1>4, <1>5, <1>6, <1>7 DEF Promise!RaiseInSlot, Promise!DecideIn

LEMMA TimeoutRefines ==
    ASSUME HfInv, NEW p \in Nodes, SlotTimeout(p)
    PROVE  Promise!TimeOut(p)
<1>1. /\ phase[p] = "wait"
      /\ phase' = [phase EXCEPT ![p] = "timeout"]
      /\ UNCHANGED <<slotCur, decideSent, buffer>>
    BY DEF SlotTimeout, netVars, nodeVars
<1>2. StatusBar[p] = "running"
    BY <1>1, StatusOf DEF HfInv
<1>3. StatusBar' = [StatusBar EXCEPT ![p] = "returned"]
    BY <1>1, StatusSteps
<1>4. BatchBar' = BatchBar
    BY <1>1 DEF BatchBar
<1> QED
    BY <1>1, <1>2, <1>3, <1>4 DEF Promise!TimeOut, Promise!TimerRuns

LEMMA CrashRefines ==
    ASSUME HfInv, NEW p \in Nodes, Crash(p)
    PROVE  Promise!CrashNode(p)
<1>1. /\ phase[p] # "crashed"
      /\ Cardinality({q \in Nodes : phase[q] = "crashed"}) < F
      /\ phase' = [phase EXCEPT ![p] = "crashed"]
      /\ UNCHANGED <<slotCur, decideSent, buffer>>
    BY DEF Crash, nodeVars
<1>2. \A q \in Nodes : StatusBar[q] = "crashed" <=> phase[q] = "crashed"
    BY StatusOf DEF HfInv
<1>3. {q \in Nodes : StatusBar[q] = "crashed"} = {q \in Nodes : phase[q] = "crashed"}
    BY <1>2
<1>4. Promise!Cardinality({q \in Nodes : StatusBar[q] = "crashed"}) < F
    BY <1>1, <1>3, SameCardinality
<1>5. StatusBar' = [StatusBar EXCEPT ![p] = "crashed"]
    BY <1>1, StatusSteps
<1>6. BatchBar' = BatchBar
    BY <1>1 DEF BatchBar
<1> QED
    BY <1>1, <1>2, <1>4, <1>5, <1>6 DEF Promise!CrashNode
-----------------------------------------------------------------------------
LEMMA StepRefines ==
    HfInv /\ [Next]_fpVars => [Promise!FastNext]_Promise!fastVars
<1> SUFFICES ASSUME HfInv, [Next]_fpVars
             PROVE  Promise!FastNext \/ UNCHANGED Promise!fastVars
    OBVIOUS
<1>1. CASE HandleVote
    <2> PICK m \in voteMsgs : DropVote(m) \/ CountVote(m)
        BY <1>1 DEF HandleVote
    <2>1. CASE DropVote(m)
        BY <2>1, QuietRefines, UnseenStutters
    <2>2. CASE CountVote(m)
        <3>1. Unseen \/ \E s \in Promise!Slots : Promise!DecideSlot(s)
            BY <2>2, CountVoteRefines
        <3> QED
            BY <3>1, UnseenStutters DEF Promise!FastNext
    <2> QED
        BY <2>1, <2>2
<1>2. ASSUME NEW p \in Nodes, Step(p)
      PROVE  Promise!FastMove(p) \/ UNCHANGED Promise!fastVars
    <2>1. CASE Enter(p)
        BY <2>1, QuietRefines, UnseenStutters
    <2>2. CASE \E s \in Slots : AcceptDecide(p, s) \/ DropDecide(p, s)
        BY <2>2, QuietRefines, UnseenStutters
    <2>3. CASE Advance(p)
        BY <2>3, AdvanceRefines DEF Promise!FastMove
    <2>4. CASE RaiseInStatistics(p)
        BY <2>4, RaiseRefines DEF Promise!FastMove
    <2>5. CASE SlotTimeout(p)
        BY <2>5, TimeoutRefines DEF Promise!FastMove
    <2> QED
        BY <1>2, <2>1, <2>2, <2>3, <2>4, <2>5 DEF Step
<1>3. ASSUME NEW p \in Nodes, Crash(p)
      PROVE  Promise!CrashNode(p)
    BY <1>3, CrashRefines
<1>4. CASE UNCHANGED fpVars
    <2>1. UNCHANGED <<slotCur, decideSent, phase, buffer>>
        BY <1>4 DEF fpVars, netVars, nodeVars
    <2>2. Unseen
        BY <2>1 DEF Unseen, StatusBar
    <2> QED
        BY <2>2, UnseenStutters
<1> QED
    BY <1>1, <1>2, <1>3, <1>4 DEF Next, Promise!FastNext

\* The protocol of VOTE and DECIDE messages implements the abstract chain.
THEOREM FastPathImplements == Spec => ImplementsPromise
<1> QED
    BY RefinesInit, StepRefines, HfInvariant, PTL
    DEF Spec, ImplementsPromise, Promise!FastSpec
=============================================================================
