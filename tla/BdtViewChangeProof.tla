-------------------------- MODULE BdtViewChangeProof --------------------------
(***************************************************************************)
(* The view change of an epoch is safe for every number of nodes, slots    *)
(* and transactions: inductive invariant and proofs.  The argument: a      *)
(* decided slot was reached by a quorum; the first nodes that start the    *)
(* view change do so with their fast path stopped, and they are a quorum   *)
(* before any other node may start it; and every three quorums have a node *)
(* in common, so among any N - f VIEW_CHANGEs there is one of a stopped    *)
(* node that reached the slot.                                             *)
(***************************************************************************)
EXTENDS BdtViewChange, QuorumLemmas

\* Every slot before a node's own is decided, and so is the slot in which a
\* node raised.
DecidedBelow ==
    /\ \A p \in Nodes, s \in Slots : s < slotCur[p] => Decided(s)
    /\ \A p \in Nodes : status[p] = "raised" => Decided(slotCur[p])

\* A decided slot was reached by a quorum.
Reached(s) == {q \in Nodes : slotCur[q] >= s}
DecidedReached == \A s \in Slots : Decided(s) => Reached(s) \in Quorum

\* A node sends one VIEW_CHANGE, when it leaves the fast path.
SentOnce ==
    \A p \in Nodes :
        /\ run[p] = "fast" => ~ VcSent(p)
        /\ run[p] \in {"vc", "synced", "fallback"} => VcSent(p)

\* A VIEW_CHANGE is never ahead of its sender.
SentNotarized == \A p \in Nodes : VcSent(p) => vcSlot[p] <= NotarizedSlot(p)

\* The fast path of p is over and its VIEW_CHANGE is its last word.
Frozen(p) ==
    /\ VcSent(p)
    /\ status[p] # "running"
    /\ vcSlot[p] = NotarizedSlot(p)

\* A node that sent its VIEW_CHANGE with its fast path running did so because
\* a quorum of others had sent theirs.
FrozenQuorum ==
    \A p \in Nodes : VcSent(p) /\ ~ Frozen(p) =>
        \E Q \in Quorum : \A q \in Q : Frozen(q)

InputIsMax ==
    \A p \in Nodes : proposal[p] # None =>
        \E Q \in Quorum : IsMaxSlot(Q, proposal[p]) /\ \A q \in Q : VcSent(q)

DecisionProposed ==
    \A p \in Nodes : decision[p] # None =>
        \E q \in Nodes : proposal[q] = decision[p]

OneDecision ==
    \A p, q \in Nodes : decision[p] # None /\ decision[q] # None => decision[p] = decision[q]

Crashed == {q \in Nodes : status[q] = "crashed"}
FewCrashed == Cardinality(Crashed) <= F

VcInv ==
    /\ BdtTypeOK
    /\ DecidedBelow
    /\ DecidedReached
    /\ SentOnce
    /\ SentNotarized
    /\ FrozenQuorum
    /\ InputIsMax
    /\ DecisionProposed
    /\ OneDecision
    /\ FewCrashed
-----------------------------------------------------------------------------
\* The numbers of the module are natural numbers and None is none of them.
LEMMA Constants ==
    /\ SlotsNum \in Nat
    /\ LastSlot \in Nat
    /\ Slots = 1 .. LastSlot
    /\ VcSlots = 0 .. LastSlot
    /\ VcSlots \subseteq Nat
    /\ None \notin VcSlots
    /\ None \notin Batches
    /\ Leader \in Nodes
BY FastPathAssumption, ViewChangeAssumption DEF LastSlot, Slots, VcSlots, Batches

\* The batches counted by the statistics are finitely many.
LEMMA TxUpToCount == ASSUME NEW s PROVE Cardinality(TxUpTo(s)) \in Nat
<1>1. IsFiniteSet(Slots)
    BY Constants, FS_Interval
<1>2. TxUpTo(s) \in SUBSET Slots
    BY DEF TxUpTo
<1> QED
    BY <1>1, <1>2, FS_Subset, FS_CardinalityType

LEMMA VcInit == BdtInit => VcInv
<1> SUFFICES ASSUME BdtInit PROVE VcInv
    OBVIOUS
<1> USE DEF BdtInit, FastInit
<1>1. BdtTypeOK
    <2>1. slotCur \in [Nodes -> 1 .. LastSlot + 1]
        BY Constants
    <2>2. batch \in [Slots -> Batches \cup {None}]
        OBVIOUS
    <2>3. status \in [Nodes -> Statuses] /\ run \in [Nodes -> Runs]
        BY DEF Statuses, Runs
    <2>4. buffer \in [Nodes -> Nat] /\ txcnt \in [Nodes -> Nat]
        BY FastPathAssumption, ViewChangeAssumption
    <2>5. vcSlot \in [Nodes -> VcSlots \cup {None}] /\ Agreement!TypeOK
        BY DEF Agreement!Init, Agreement!TypeOK
    <2> QED
        BY <2>1, <2>2, <2>3, <2>4, <2>5 DEF BdtTypeOK, FastTypeOK
<1>2. DecidedBelow /\ DecidedReached
    BY Constants DEF DecidedBelow, DecidedReached, Decided
<1>3. SentOnce /\ SentNotarized /\ FrozenQuorum
    BY DEF SentOnce, SentNotarized, FrozenQuorum, VcSent
<1>4. InputIsMax /\ DecisionProposed /\ OneDecision
    BY DEF InputIsMax, DecisionProposed, OneDecision, Agreement!Init
<1>5. FewCrashed
    <2>1. Crashed = {}
        BY DEF Crashed
    <2> QED
        BY <2>1, FS_EmptySet, FaultNumbers DEF FewCrashed
<1> QED
    BY <1>1, <1>2, <1>3, <1>4, <1>5 DEF VcInv
-----------------------------------------------------------------------------
(***************************************************************************)
(* What each step leaves alone.  A step of the fast path keeps all that    *)
(* the view change has sent; a step of the view change keeps the chain.    *)
(***************************************************************************)
FastPathSteps ==
    \/ \E s \in Slots : DecideSlot(s)
    \/ \E p \in Nodes : FastMove(p) \/ CrashNode(p)

FastNodes == <<slotCur, batch, status>>

LEMMA NextCases ==
    ASSUME BdtNext
    PROVE  \/ FastPathSteps /\ UNCHANGED vcVars
           \/ \E p \in Nodes : EpochStep(p)
BY DEF BdtNext, LeaderStep, FastStep, FastPathSteps

LEMMA EpochStepKeepsChain ==
    ASSUME NEW p \in Nodes, EpochStep(p)
    PROVE  UNCHANGED FastNodes
BY DEF EpochStep, SendViewChange, RaiseInAverage, CollectViewChanges, Agree,
       Synchronize, StartFallback, FastNodes, fastVars

LEMMA StutterKeepsInv ==
    ASSUME VcInv, UNCHANGED bdtVars
    PROVE  VcInv'
BY DEF VcInv, bdtVars, vcVars, fastVars, BdtTypeOK, FastTypeOK, DecidedBelow,
       DecidedReached, Reached, Decided, SentOnce, SentNotarized, FrozenQuorum,
       Frozen, VcSent,
       NotarizedSlot, InputIsMax, IsMaxSlot, DecisionProposed, OneDecision,
       FewCrashed, Crashed, Agreement!TypeOK
-----------------------------------------------------------------------------
(***************************************************************************)
(* Type correctness.                                                       *)
(***************************************************************************)
LEMMA FastTypeStep ==
    ASSUME FastTypeOK, FastPathSteps
    PROVE  FastTypeOK'
<1> USE Constants DEF FastTypeOK
<1>1. ASSUME NEW s \in Slots, DecideSlot(s) PROVE FastTypeOK'
    <2>1. batch' \in [Slots -> Batches \cup {None}]
        BY <1>1 DEF DecideSlot, VotesIn, Batches
    <2>2. buffer' \in [Nodes -> Nat]
        <3>1. buffer[Leader] \in Nat /\ (buffer[Leader] # 0 => buffer[Leader] - 1 \in Nat)
            OBVIOUS
        <3> QED
            BY <1>1, <3>1 DEF DecideSlot
    <2> QED
        BY <1>1, <2>1, <2>2 DEF DecideSlot
<1>2. ASSUME NEW p \in Nodes, AdvanceSlot(p) PROVE FastTypeOK'
    <2>1. slotCur[p] \in 1 .. LastSlot
        BY <1>2 DEF AdvanceSlot, DecideIn, Decided
    <2> QED
        BY <1>2, <2>1 DEF AdvanceSlot, Statuses
<1>3. ASSUME NEW p \in Nodes, RaiseInSlot(p) \/ TimeOut(p) \/ CrashNode(p) PROVE FastTypeOK'
    BY <1>3 DEF RaiseInSlot, TimeOut, CrashNode, Statuses
<1> QED
    BY <1>1, <1>2, <1>3 DEF FastPathSteps, FastMove

LEMMA TypeStep ==
    ASSUME BdtTypeOK, BdtNext
    PROVE  BdtTypeOK'
<1> USE DEF BdtTypeOK, Agreement!TypeOK
<1>1. CASE FastPathSteps /\ UNCHANGED vcVars
    BY <1>1, FastTypeStep DEF vcVars
<1>2. ASSUME NEW p \in Nodes, SendViewChange(p) PROVE BdtTypeOK'
    <2>1. NotarizedSlot(p) \in VcSlots
        BY Constants DEF NotarizedSlot, FastTypeOK
    <2>2. EpochTx(p) \in Nat
        BY TxUpToCount DEF EpochTx
    <2> QED
        BY <1>2, <2>1, <2>2 DEF SendViewChange, Runs, fastVars, FastTypeOK
<1>3. ASSUME NEW p \in Nodes, RaiseInAverage(p) \/ Synchronize(p) PROVE BdtTypeOK'
    BY <1>3 DEF RaiseInAverage, Synchronize, Runs, fastVars, FastTypeOK
<1>4. ASSUME NEW p \in Nodes, NEW Q \in SUBSET Senders, CollectViewChanges(p, Q)
      PROVE  BdtTypeOK'
    BY <1>4 DEF CollectViewChanges, Agreement!Propose, fastVars, FastTypeOK
<1>5. ASSUME NEW p \in Nodes, Agree(p) PROVE BdtTypeOK'
    BY <1>5 DEF Agree, Agreement!Decide, fastVars, FastTypeOK
<1>6. ASSUME NEW p \in Nodes, StartFallback(p) PROVE BdtTypeOK'
    BY <1>6 DEF StartFallback, Runs, FastTypeOK
<1> QED
    BY <1>1, <1>2, <1>3, <1>4, <1>5, <1>6, NextCases DEF EpochStep
-----------------------------------------------------------------------------
(***************************************************************************)
(* The chain: what is decided and who reached it.                          *)
(***************************************************************************)
LEMMA SlotsOnlyGrow ==
    ASSUME FastTypeOK, FastPathSteps
    PROVE  /\ \A q \in Nodes : slotCur'[q] >= slotCur[q]
           /\ \A q \in Nodes : status[q] # "running" => slotCur'[q] = slotCur[q]
           /\ \A q \in Nodes : status[q] # "running" => status'[q] # "running"
           /\ \A s \in Slots : Decided(s) => Decided(s)'
<1> USE Constants DEF FastTypeOK
<1>1. ASSUME NEW s \in Slots, DecideSlot(s)
      PROVE  batch'[s] # None /\ \A r \in Slots \ {s} : batch'[r] = batch[r]
    BY <1>1 DEF DecideSlot, VotesIn, Batches
<1>2. CASE \E s \in Slots : DecideSlot(s)
    <2>1. PICK s \in Slots : DecideSlot(s)
        BY <1>2
    <2>2. UNCHANGED <<slotCur, status>>
        BY <2>1 DEF DecideSlot
    <2>3. \A r \in Slots : Decided(r) => Decided(r)'
        BY <1>1, <2>1 DEF Decided
    <2> QED
        BY <2>2, <2>3
<1>3. ASSUME NEW p \in Nodes, FastMove(p) \/ CrashNode(p)
      PROVE  /\ \A q \in Nodes : slotCur'[q] >= slotCur[q]
             /\ \A q \in Nodes : status[q] # "running" => slotCur'[q] = slotCur[q]
             /\ \A q \in Nodes : status[q] # "running" => status'[q] # "running"
             /\ batch' = batch
    BY <1>3 DEF FastMove, AdvanceSlot, RaiseInSlot, TimeOut, DecideIn, TimerRuns, CrashNode
<1> QED
    BY <1>2, <1>3 DEF FastPathSteps, Decided

LEMMA ReachedGrows ==
    ASSUME FastTypeOK, FastTypeOK', NEW s \in Slots,
           \A q \in Nodes : slotCur'[q] >= slotCur[q],
           Reached(s) \in Quorum
    PROVE  Reached(s)' \in Quorum
<1>1. Reached(s) \subseteq Reached(s)' /\ Reached(s)' \in SUBSET Nodes
    BY Constants DEF Reached, FastTypeOK
<1> QED
    BY <1>1, QuorumSuperset

LEMMA ChainStep ==
    ASSUME BdtTypeOK, DecidedBelow, DecidedReached, BdtNext
    PROVE  DecidedBelow' /\ DecidedReached'
<1> USE Constants DEF BdtTypeOK
<1>t. FastTypeOK /\ FastTypeOK'
    BY TypeStep
<1>1. ASSUME NEW p \in Nodes, EpochStep(p) PROVE DecidedBelow' /\ DecidedReached'
    BY <1>1, EpochStepKeepsChain
    DEF FastNodes, DecidedBelow, DecidedReached, Reached, Decided
<1>2. ASSUME NEW s \in Slots, DecideSlot(s) PROVE DecidedBelow' /\ DecidedReached'
    <2>1. DecidedBelow'
        BY <1>2, <1>t, SlotsOnlyGrow DEF DecidedBelow, DecideSlot, FastPathSteps, Decided
    <2>2. slotCur' = slotCur /\ Reached(s) \in Quorum
        BY <1>2 DEF DecideSlot, VotesIn, Reached
    <2>3. \A r \in Slots \ {s} : Decided(r)' => Decided(r)
        BY <1>2, <1>t DEF DecideSlot, Decided, FastTypeOK
    <2> QED
        BY <2>1, <2>2, <2>3 DEF DecidedReached, Reached
<1>3. ASSUME NEW p \in Nodes, FastMove(p) \/ CrashNode(p)
      PROVE  DecidedBelow' /\ DecidedReached'
    <2>1. batch' = batch
        BY <1>3 DEF FastMove, AdvanceSlot, RaiseInSlot, TimeOut, CrashNode
    <2>2. DecidedReached'
        BY <1>3, <1>t, <2>1, SlotsOnlyGrow, ReachedGrows
        DEF DecidedReached, FastPathSteps, Decided
    <2>3. CASE AdvanceSlot(p)
        BY <1>t, <2>1, <2>2, <2>3 DEF AdvanceSlot, DecideIn, DecidedBelow, Decided, FastTypeOK
    <2>4. CASE RaiseInSlot(p) \/ TimeOut(p) \/ CrashNode(p)
        BY <1>t, <2>1, <2>2, <2>4
        DEF RaiseInSlot, DecideIn, TimeOut, TimerRuns, CrashNode, DecidedBelow, Decided, FastTypeOK
    <2> QED
        BY <1>3, <2>3, <2>4 DEF FastMove
<1> QED
    BY <1>1, <1>2, <1>3, NextCases DEF FastPathSteps
-----------------------------------------------------------------------------
(***************************************************************************)
(* The VIEW_CHANGE messages.                                               *)
(***************************************************************************)
LEMMA NotarizedGrows ==
    ASSUME FastTypeOK, FastTypeOK', NEW p \in Nodes, slotCur'[p] >= slotCur[p]
    PROVE  NotarizedSlot(p)' >= NotarizedSlot(p)
BY Constants DEF NotarizedSlot, FastTypeOK

\* The fast path of a frozen node stays where it is.
LEMMA FrozenStays ==
    ASSUME BdtTypeOK, BdtNext, NEW q \in Nodes, Frozen(q)
    PROVE  Frozen(q)'
<1> USE DEF Frozen, VcSent, NotarizedSlot
<1>1. CASE FastPathSteps /\ UNCHANGED vcVars
    BY <1>1, SlotsOnlyGrow DEF BdtTypeOK, vcVars
<1>2. ASSUME NEW p \in Nodes, EpochStep(p) PROVE Frozen(q)'
    <2>1. vcSlot'[q] = vcSlot[q]
        BY <1>2 DEF EpochStep, SendViewChange, RaiseInAverage, CollectViewChanges,
                    Agree, Synchronize, StartFallback, BdtTypeOK
    <2> QED
        BY <1>2, <2>1, EpochStepKeepsChain DEF FastNodes
<1> QED
    BY <1>1, <1>2, NextCases

\* What has been sent is not changed.
LEMMA SentStays ==
    ASSUME BdtTypeOK, SentOnce, BdtNext, NEW q \in Nodes, VcSent(q)
    PROVE  vcSlot'[q] = vcSlot[q] /\ VcSent(q)'
<1> USE DEF VcSent
<1>1. CASE UNCHANGED vcVars
    BY <1>1 DEF vcVars
<1>2. ASSUME NEW p \in Nodes, EpochStep(p) PROVE vcSlot'[q] = vcSlot[q]
    BY <1>2 DEF EpochStep, SendViewChange, RaiseInAverage, CollectViewChanges,
                Agree, Synchronize, StartFallback, LeavesFastPath, BdtTypeOK, SentOnce
<1> QED
    BY <1>1, <1>2, NextCases

\* A node that has an input collected VIEW_CHANGEs from a quorum.
LEMMA InputQuorum ==
    ASSUME BdtTypeOK, InputIsMax, NEW p \in Nodes, proposal[p] # None
    PROVE  \E Q \in Quorum : \A q \in Q : VcSent(q)
BY DEF InputIsMax

\* Once some quorum has sent, some quorum has sent and is frozen.
LEMMA SomeFrozenQuorum ==
    ASSUME FrozenQuorum, NEW Q \in Quorum, \A q \in Q : VcSent(q)
    PROVE  \E R \in Quorum : \A q \in R : Frozen(q)
BY DEF FrozenQuorum, Quorum

LEMMA SentStep ==
    ASSUME VcInv, BdtNext
    PROVE  SentOnce' /\ SentNotarized' /\ FrozenQuorum'
<1> USE Constants DEF VcInv
<1>t. BdtTypeOK /\ BdtTypeOK' /\ FastTypeOK /\ FastTypeOK'
    BY TypeStep DEF BdtTypeOK
<1>f. ASSUME NEW Q \in Quorum, \A q \in Q : Frozen(q)
      PROVE  \E R \in Quorum : \A q \in R : Frozen(q)'
    BY <1>f, FrozenStays DEF Quorum
<1>1. CASE FastPathSteps /\ UNCHANGED vcVars
    <2>1. \A q \in Nodes : VcSent(q)' = VcSent(q) /\ vcSlot'[q] = vcSlot[q] /\ run'[q] = run[q]
        BY <1>1 DEF vcVars, VcSent
    <2>2. \A q \in Nodes : NotarizedSlot(q)' >= NotarizedSlot(q)
        BY <1>1, <1>t, SlotsOnlyGrow, NotarizedGrows
    <2>3. SentNotarized'
        <3> SUFFICES ASSUME NEW q \in Nodes, VcSent(q) PROVE vcSlot[q] <= NotarizedSlot(q)'
            BY <2>1 DEF SentNotarized
        <3>1. vcSlot[q] \in VcSlots /\ vcSlot[q] <= NotarizedSlot(q)
            BY <1>t DEF SentNotarized, BdtTypeOK, VcSent
        <3>2. NotarizedSlot(q) \in Int /\ NotarizedSlot(q)' \in Int
            BY <1>t DEF NotarizedSlot, FastTypeOK
        <3> QED
            BY <2>2, <3>1, <3>2
    <2>4. FrozenQuorum'
        <3> SUFFICES ASSUME NEW p \in Nodes, VcSent(p)', ~ Frozen(p)'
                     PROVE  \E R \in Quorum : \A q \in R : Frozen(q)'
            BY DEF FrozenQuorum
        <3>1. VcSent(p) /\ ~ Frozen(p)
            BY <2>1, FrozenStays
        <3> QED
            BY <1>f, <3>1 DEF FrozenQuorum
    <2> QED
        BY <2>1, <2>3, <2>4 DEF SentOnce
<1>2. ASSUME NEW p \in Nodes, SendViewChange(p)
      PROVE  SentOnce' /\ SentNotarized' /\ FrozenQuorum'
    <2>1. EpochStep(p) /\ UNCHANGED <<slotCur, status>>
        BY <1>2 DEF EpochStep, SendViewChange, fastVars
    <2>2. \A q \in Nodes \ {p} : vcSlot'[q] = vcSlot[q] /\ run'[q] = run[q]
        BY <1>2, <1>t DEF SendViewChange, BdtTypeOK
    <2>3. run'[p] = "vc" /\ vcSlot'[p] = NotarizedSlot(p) /\ VcReady(p) /\ Alive(p)
        BY <1>2, <1>t DEF SendViewChange, LeavesFastPath, BdtTypeOK
    <2>4. \A q \in Nodes : NotarizedSlot(q)' = NotarizedSlot(q) /\ NotarizedSlot(q) \in VcSlots
        BY <1>t, <2>1 DEF NotarizedSlot, FastTypeOK
    <2>5. SentOnce' /\ SentNotarized'
        BY <2>2, <2>3, <2>4 DEF SentOnce, SentNotarized, VcSent
    <2>6. FrozenQuorum'
        <3> SUFFICES ASSUME NEW q \in Nodes, VcSent(q)', ~ Frozen(q)'
                     PROVE  \E R \in Quorum : \A r \in R : Frozen(r)'
            BY DEF FrozenQuorum
        <3>1. CASE q # p
            <4>1. VcSent(q) /\ ~ Frozen(q)
                BY <2>1, <2>2, <2>4, <3>1 DEF Frozen, VcSent
            <4> QED
                BY <1>f, <4>1 DEF FrozenQuorum
        <3>2. CASE q = p
            <4>1. proposal[p] # None
                BY <2>1, <2>3, <2>4, <3>2 DEF Frozen, VcSent, VcReady
            <4>2. \E R \in Quorum : \A r \in R : Frozen(r)
                BY <1>t, <4>1, InputQuorum, SomeFrozenQuorum
            <4> QED
                BY <1>f, <4>2
        <3> QED
            BY <3>1, <3>2
    <2> QED
        BY <2>5, <2>6
<1>3. ASSUME NEW p \in Nodes, EpochStep(p), ~ SendViewChange(p)
      PROVE  SentOnce' /\ SentNotarized' /\ FrozenQuorum'
    <2>1. vcSlot' = vcSlot
        BY <1>3 DEF EpochStep, RaiseInAverage, CollectViewChanges, Agree,
                    Synchronize, StartFallback
    <2>2. \A q \in Nodes :
              /\ run'[q] = "fast" => run[q] = "fast"
              /\ run'[q] \in {"vc", "synced", "fallback"} =>
                     run[q] \in {"vc", "synced", "fallback"}
        BY <1>3, <1>t DEF EpochStep, RaiseInAverage, CollectViewChanges, Agree,
                    Synchronize, StartFallback, OutputIn, BdtTypeOK
    <2>3. UNCHANGED <<slotCur, batch, status>>
        BY <1>3, EpochStepKeepsChain DEF FastNodes
    <2> QED
        BY <2>1, <2>2, <2>3 DEF SentOnce, SentNotarized, FrozenQuorum, Frozen, VcSent,
                                NotarizedSlot
<1> QED
    BY <1>1, <1>2, <1>3, NextCases
-----------------------------------------------------------------------------
(***************************************************************************)
(* The agreement's inputs and outputs.                                     *)
(***************************************************************************)
LEMMA InputStep ==
    ASSUME VcInv, BdtNext
    PROVE  InputIsMax' /\ DecisionProposed'
<1> USE Constants DEF VcInv
<1>t. BdtTypeOK /\ Agreement!TypeOK
    BY DEF BdtTypeOK
<1>1. ASSUME NEW Q \in Quorum, NEW v, IsMaxSlot(Q, v), \A q \in Q : VcSent(q)
      PROVE  IsMaxSlot(Q, v)' /\ \A q \in Q : VcSent(q)'
    <2>1. \A q \in Q : vcSlot'[q] = vcSlot[q] /\ VcSent(q)'
        BY <1>t, <1>1, SentStays DEF Quorum
    <2> QED
        BY <1>1, <2>1 DEF IsMaxSlot
<1>2. ASSUME NEW p \in Nodes, proposal'[p] = proposal[p], proposal[p] # None
      PROVE  \E Q \in Quorum : IsMaxSlot(Q, proposal[p])' /\ \A q \in Q : VcSent(q)'
    <2>1. PICK Q \in Quorum : IsMaxSlot(Q, proposal[p]) /\ \A q \in Q : VcSent(q)
        BY <1>2 DEF InputIsMax
    <2>2. \A q \in Q : vcSlot'[q] = vcSlot[q] /\ VcSent(q)'
        BY <1>t, <2>1, SentStays DEF Quorum
    <2> QED
        BY <1>2, <2>1, <2>2 DEF IsMaxSlot
<1>3. CASE UNCHANGED <<proposal, decision>>
    BY <1>2, <1>3 DEF InputIsMax, DecisionProposed
<1>4. ASSUME NEW p \in Nodes, NEW Q \in SUBSET Senders, CollectViewChanges(p, Q)
      PROVE  InputIsMax' /\ DecisionProposed'
    <2>1. PICK v \in VcSlots : IsMaxSlot(Q, v) /\ Agreement!Propose(p, v)
        BY <1>4 DEF CollectViewChanges
    <2>2. /\ proposal' = [proposal EXCEPT ![p] = v]
          /\ proposal[p] = None
          /\ UNCHANGED <<decision, vcSlot>>
        BY <1>4, <2>1 DEF Agreement!Propose, CollectViewChanges
    <2>3. Q \in Quorum /\ \A q \in Q : VcSent(q)
        BY <1>4, FaultNumbers DEF CollectViewChanges, ViewChangesIn, Senders, Quorum
    <2>4. IsMaxSlot(Q, v)' /\ \A q \in Q : VcSent(q)'
        BY <2>1, <2>2, <2>3 DEF IsMaxSlot, VcSent
    <2>5. InputIsMax'
        <3> SUFFICES ASSUME NEW q \in Nodes, proposal'[q] # None
                     PROVE  \E R \in Quorum :
                                IsMaxSlot(R, proposal[q])' /\ \A r \in R : VcSent(r)'
            BY DEF InputIsMax
        <3>1. CASE q = p
            BY <1>t, <2>2, <2>3, <2>4, <3>1 DEF IsMaxSlot, Agreement!TypeOK
        <3>2. CASE q # p
            BY <1>2, <1>t, <2>2, <3>2 DEF Agreement!TypeOK
        <3> QED
            BY <3>1, <3>2
    <2>6. DecisionProposed'
        <3>1. ASSUME NEW q \in Nodes, NEW r \in Nodes, proposal[r] = decision[q],
                     decision[q] # None
              PROVE  proposal'[r] = decision[q]
            BY <1>t, <2>2, <3>1 DEF Agreement!TypeOK
        <3> QED
            BY <2>2, <3>1 DEF DecisionProposed
    <2> QED
        BY <2>5, <2>6
<1>5. ASSUME NEW p \in Nodes, Agree(p) PROVE InputIsMax' /\ DecisionProposed'
    <2>1. PICK v \in VcSlots : Agreement!Decide(p, v)
        BY <1>5 DEF Agree
    <2>2. /\ decision' = [decision EXCEPT ![p] = v]
          /\ UNCHANGED proposal
          /\ \E q \in Nodes : proposal[q] = v
        BY <2>1 DEF Agreement!Decide, Agreement!MayDecide
    <2>3. InputIsMax'
        BY <1>2, <2>2 DEF InputIsMax
    <2>4. DecisionProposed'
        BY <1>t, <2>2 DEF DecisionProposed, Agreement!TypeOK
    <2> QED
        BY <2>3, <2>4
<1>6. ASSUME NEW p \in Nodes,
             SendViewChange(p) \/ RaiseInAverage(p) \/ Synchronize(p) \/ StartFallback(p)
      PROVE  UNCHANGED <<proposal, decision>>
    BY <1>6 DEF SendViewChange, RaiseInAverage, Synchronize, StartFallback
<1>7. UNCHANGED vcVars => UNCHANGED <<proposal, decision>>
    BY DEF vcVars
<1> QED
    BY <1>3, <1>4, <1>5, <1>6, <1>7, NextCases DEF EpochStep

\* Whoever decides takes the value that was decided before.
LEMMA OneDecisionStep ==
    ASSUME VcInv, BdtNext
    PROVE  OneDecision'
<1> USE Constants DEF VcInv
<1>1. ASSUME NEW p \in Nodes, Agree(p) PROVE OneDecision'
    <2>1. PICK v \in VcSlots : Agreement!Decide(p, v)
        BY <1>1 DEF Agree
    <2>2. /\ decision' = [decision EXCEPT ![p] = v]
          /\ \A q \in Nodes : decision[q] \in {v, None}
        BY <2>1 DEF Agreement!Decide, Agreement!MayDecide
    <2>3. \A q \in Nodes : decision'[q] \in {v, None}
        BY <2>2 DEF BdtTypeOK, Agreement!TypeOK
    <2> QED
        BY <2>3 DEF OneDecision
<1>2. ASSUME NEW p \in Nodes, EpochStep(p), ~ Agree(p) PROVE decision' = decision
    BY <1>2 DEF EpochStep, SendViewChange, RaiseInAverage, CollectViewChanges,
                Agreement!Propose, Synchronize, StartFallback
<1>3. UNCHANGED vcVars => decision' = decision
    BY DEF vcVars
<1>4. decision' = decision => OneDecision'
    BY DEF OneDecision
<1> QED
    BY <1>1, <1>2, <1>3, <1>4, NextCases

\* At most f nodes crash.
LEMMA FewCrashedStep ==
    ASSUME VcInv, BdtNext
    PROVE  FewCrashed'
<1> USE DEF VcInv
<1>t. FastTypeOK
    BY DEF BdtTypeOK
<1>1. ASSUME NEW p \in Nodes, CrashNode(p) PROVE FewCrashed'
    <2>1. Cardinality(Crashed) < F /\ Crashed \in SUBSET Nodes
        BY <1>1 DEF CrashNode, Crashed
    <2>2. Crashed' = Crashed \cup {p}
        BY <1>1, <1>t DEF CrashNode, Crashed, FastTypeOK
    <2>3. F \in 0 .. F
        BY FaultNumbers
    <2>4. Cardinality(Crashed \cup {p}) <= F
        BY <2>1, <2>3, OneMoreNode
    <2> QED
        BY <2>2, <2>4 DEF FewCrashed
<1>2. ASSUME Crashed' = Crashed PROVE FewCrashed'
    BY <1>2 DEF FewCrashed
<1>3. ASSUME NEW p \in Nodes, FastMove(p) PROVE Crashed' = Crashed
    <2>1. /\ status[p] = "running"
          /\ \A q \in Nodes \ {p} : status'[q] = status[q]
          /\ status'[p] \in {"running", "returned", "raised"}
        BY <1>3, <1>t
        DEF FastMove, AdvanceSlot, RaiseInSlot, TimeOut, DecideIn, TimerRuns, FastTypeOK
    <2> QED
        BY <2>1 DEF Crashed
<1>4. ASSUME NEW s \in Slots, DecideSlot(s) PROVE Crashed' = Crashed
    BY <1>4 DEF DecideSlot, Crashed
<1>5. ASSUME NEW p \in Nodes, EpochStep(p) PROVE Crashed' = Crashed
    BY <1>5, EpochStepKeepsChain DEF FastNodes, Crashed
<1> QED
    BY <1>1, <1>2, <1>3, <1>4, <1>5, NextCases DEF FastPathSteps

\* VcInv is an invariant of the epoch.
THEOREM VcInvariant == BdtSpec => []VcInv
<1>1. VcInv /\ [BdtNext]_bdtVars => VcInv'
    <2>1. ASSUME VcInv, BdtNext PROVE VcInv'
        BY <2>1, TypeStep, ChainStep, SentStep, InputStep, OneDecisionStep, FewCrashedStep
        DEF VcInv
    <2> QED
        BY <2>1, StutterKeepsInv
<1> QED
    BY <1>1, VcInit, PTL DEF BdtSpec

\* Type correctness of the view change, for every number of nodes and slots.
THEOREM TypeCorrect == BdtSpec => []BdtTypeOK
BY VcInvariant, PTL DEF VcInv
-----------------------------------------------------------------------------
(***************************************************************************)
(* What the invariant says of the inputs of the agreement.                 *)
(***************************************************************************)
\* Whoever has collected VIEW_CHANGEs learnt of every decided slot, up to two.
LEMMA DecidedCovered ==
    ASSUME VcInv, NEW s \in Slots, Decided(s), NEW q \in Nodes, proposal[q] # None
    PROVE  s - 2 <= proposal[q]
<1> USE Constants DEF VcInv
<1>1. PICK Q \in Quorum : IsMaxSlot(Q, proposal[q]) /\ \A r \in Q : VcSent(r)
    BY DEF InputIsMax
<1>2. PICK R \in Quorum : \A r \in R : Frozen(r)
    BY <1>1, SomeFrozenQuorum
<1>3. Reached(s) \in Quorum
    BY DEF DecidedReached
<1>4. PICK r \in Nodes : r \in Q /\ r \in R /\ r \in Reached(s)
    BY <1>1, <1>2, <1>3, ThreeQuorumsMeet
<1>5. vcSlot[r] = NotarizedSlot(r) /\ vcSlot[r] <= proposal[q]
    BY <1>1, <1>2, <1>4 DEF Frozen, IsMaxSlot
<1>6. slotCur[r] \in 1 .. LastSlot + 1 /\ slotCur[r] >= s
    BY <1>4 DEF Reached, BdtTypeOK, FastTypeOK
<1>7. proposal[q] \in VcSlots
    BY DEF BdtTypeOK, Agreement!TypeOK
<1> QED
    BY <1>5, <1>6, <1>7 DEF NotarizedSlot

\* An input is the slot of a block that was notarized somewhere, and so the
\* slot after it was decided.
LEMMA InputDecided ==
    ASSUME VcInv, NEW q \in Nodes, proposal[q] # None, proposal[q] # 0
    PROVE  proposal[q] + 1 \in Slots /\ Decided(proposal[q] + 1)
<1> USE Constants DEF VcInv
<1>1. PICK Q \in Quorum : IsMaxSlot(Q, proposal[q]) /\ \A r \in Q : VcSent(r)
    BY DEF InputIsMax
<1>2. PICK r \in Nodes : VcSent(r) /\ vcSlot[r] = proposal[q]
    BY <1>1 DEF IsMaxSlot, Quorum
<1>3. slotCur[r] \in 1 .. LastSlot + 1 /\ proposal[q] \in VcSlots
    BY DEF BdtTypeOK, FastTypeOK, Agreement!TypeOK
<1>4. proposal[q] <= NotarizedSlot(r)
    BY <1>2 DEF SentNotarized
<1>5. proposal[q] + 1 \in Slots /\ proposal[q] + 1 < slotCur[r]
    BY <1>3, <1>4 DEF NotarizedSlot
<1> QED
    BY <1>5 DEF DecidedBelow

\* The agreement, which can only tell two adjacent values apart, is never given
\* others, whatever VIEW_CHANGEs each node collects.
THEOREM InputsAreAdjacent == BdtSpec => []InputsAdjacent
<1>1. ASSUME VcInv PROVE InputsAdjacent
    <2> SUFFICES ASSUME NEW p \in Nodes, NEW q \in Nodes,
                        proposal[p] # None, proposal[q] # None
                 PROVE  proposal[p] - proposal[q] \in {-1, 0, 1}
        BY DEF InputsAdjacent
    <2>1. proposal[p] \in VcSlots /\ proposal[q] \in VcSlots
        BY <1>1, Constants DEF VcInv, BdtTypeOK, Agreement!TypeOK
    <2>2. proposal[p] - 1 <= proposal[q]
        BY <1>1, <2>1, InputDecided, DecidedCovered, Constants
    <2>3. proposal[q] - 1 <= proposal[p]
        BY <1>1, <2>1, InputDecided, DecidedCovered, Constants
    <2> QED
        BY <2>1, <2>2, <2>3, Constants
<1> QED
    BY <1>1, VcInvariant, PTL

\* A fixed block is within every input of the agreement, whichever VIEW_CHANGEs
\* the input was taken from.
LEMMA FixedCovered ==
    ASSUME VcInv, NEW p \in Nodes, NEW q \in Nodes, proposal[q] # None
    PROVE  FixedSlot(p) <= proposal[q]
<1>1. slotCur[p] \in 1 .. LastSlot + 1 /\ proposal[q] \in VcSlots
    BY Constants DEF VcInv, BdtTypeOK, FastTypeOK, Agreement!TypeOK
<1>2. CASE FixedSlot(p) = 0
    BY <1>1, <1>2, Constants
<1>3. CASE FixedSlot(p) # 0
    <2>1. FixedSlot(p) + 2 \in Slots /\ Decided(FixedSlot(p) + 2)
        BY <1>1, <1>3, Constants DEF FixedSlot, VcInv, DecidedBelow, Decided
    <2>2. FixedSlot(p) \in Int
        BY <1>1 DEF FixedSlot
    <2>3. \A s \in Slots : Decided(s) => s - 2 <= proposal[q]
        BY DecidedCovered
    <2> QED
        BY <1>1, <2>1, <2>2, <2>3, Constants
<1> QED
    BY <1>2, <1>3

\* The epoch delivers every block that a fast path fixed but the last, and if it
\* delivers none because no block was notarized, none was fixed.
THEOREM OneFixedLostAtMost == BdtSpec => []AtMostOneFixedLost
<1>1. ASSUME VcInv PROVE AtMostOneFixedLost
    <2> SUFFICES ASSUME NEW p \in Nodes, NEW q \in Nodes, decision[q] # None
                 PROVE  /\ FixedSlot(p) <= DeliveredSlots(q) + 1
                        /\ decision[q] = 0 => FixedSlot(p) = 0
        BY DEF AtMostOneFixedLost
    <2>1. PICK r \in Nodes : proposal[r] = decision[q]
        BY <1>1 DEF VcInv, DecisionProposed
    <2>2. FixedSlot(p) <= decision[q]
        BY <1>1, <2>1, FixedCovered
    <2>3. decision[q] \in VcSlots /\ slotCur[p] \in 1 .. LastSlot + 1
        BY <1>1 DEF VcInv, BdtTypeOK, FastTypeOK, Agreement!TypeOK
    <2>4. FixedSlot(p) \in Nat /\ decision[q] \in Nat
        BY <2>3, Constants DEF FixedSlot
    <2> QED
        BY <2>2, <2>4 DEF DeliveredSlots
<1> QED
    BY <1>1, VcInvariant, PTL

\* The block at the agreed slot is held by a quorum, so it can be fetched.
THEOREM AgreedBlockIsHeld == BdtSpec => []AgreedBlockHeld
<1>1. ASSUME VcInv PROVE AgreedBlockHeld
    <2> SUFFICES ASSUME NEW p \in Nodes, decision[p] # None
                 PROVE  {q \in Nodes : slotCur[q] > decision[p]} \in Quorum
        BY DEF AgreedBlockHeld
    <2>1. PICK r \in Nodes : proposal[r] = decision[p]
        BY <1>1 DEF VcInv, DecisionProposed
    <2>2. /\ decision[p] \in VcSlots
          /\ \A q \in Nodes : slotCur[q] \in 1 .. LastSlot + 1
        BY <1>1 DEF VcInv, BdtTypeOK, FastTypeOK, Agreement!TypeOK
    <2>3. CASE decision[p] = 0
        <3>1. {q \in Nodes : slotCur[q] > decision[p]} = Nodes
            BY <2>2, <2>3, Constants
        <3> QED
            BY <3>1, FaultNumbers
    <2>4. CASE decision[p] # 0
        <3>1. Reached(decision[p] + 1) \in Quorum
            BY <1>1, <2>1, <2>4, InputDecided DEF VcInv, DecidedReached
        <3>2. Reached(decision[p] + 1) = {q \in Nodes : slotCur[q] > decision[p]}
            BY <2>2, Constants DEF Reached
        <3> QED
            BY <3>1, <3>2
    <2> QED
        BY <2>3, <2>4
<1> QED
    BY <1>1, VcInvariant, PTL
-----------------------------------------------------------------------------
(***************************************************************************)
(* An epoch in which nothing is left to do.                                *)
(***************************************************************************)
\* Enough VIEW_CHANGEs contain N - f of them, one with the greatest slot.
LEMMA ViewChangesEnough ==
    ASSUME BdtTypeOK, NEW A \in Quorum, \A q \in A : VcSent(q)
    PROVE  \E Q \in SUBSET Senders :
               /\ Cardinality(Q) = N - F
               /\ \E v \in VcSlots : IsMaxSlot(Q, v)
<1> USE Constants
<1>1. /\ IsFiniteSet(A)
      /\ Cardinality(A) \in Nat
      /\ Cardinality(A) >= N - F
      /\ A \in SUBSET Senders
    BY NodeSets DEF Quorum, Senders
<1>2. N - F \in 0 .. Cardinality(A)
    BY <1>1, FaultNumbers
<1>3. PICK Q \in SUBSET A : Cardinality(Q) = N - F
    BY <1>1, <1>2, SubsetOfSize
<1>4. PICK S : S = {vcSlot[q] : q \in Q}
    OBVIOUS
<1>5. S \in SUBSET (0 .. LastSlot)
    BY <1>1, <1>4 DEF BdtTypeOK, Senders, VcSent
<1>6. S # {}
    <2>1. Cardinality(Q) # 0
        BY <1>3, FaultNumbers
    <2>2. Q # {}
        BY <2>1, FS_EmptySet
    <2> QED
        BY <1>4, <2>2
<1>7. PICK v \in S : \A w \in S : w <= v
    BY <1>5, <1>6, GreatestNumber
<1>8. v \in VcSlots /\ IsMaxSlot(Q, v)
    BY <1>4, <1>5, <1>7 DEF IsMaxSlot
<1> QED
    BY <1>1, <1>3, <1>8

\* Once every live node has proposed, the agreement has a value to end with.
LEMMA SomeDecision ==
    ASSUME VcInv, NEW p \in Nodes, proposal[p] # None, decision[p] = None
    PROVE  \E v \in VcSlots : Agreement!MayDecide(p, v)
<1> USE Constants DEF VcInv
<1>t. Agreement!TypeOK
    BY DEF BdtTypeOK
<1>1. CASE \A q \in Nodes : decision[q] = None
    <2>1. proposal[p] \in VcSlots
        BY <1>t DEF Agreement!TypeOK
    <2>2. Agreement!MayDecide(p, proposal[p])
        BY <1>1 DEF Agreement!MayDecide
    <2> QED
        BY <2>1, <2>2
<1>2. CASE \E q \in Nodes : decision[q] # None
    <2>1. PICK q \in Nodes : decision[q] # None
        BY <1>2
    <2>2. decision[q] \in VcSlots
        BY <1>t, <2>1 DEF Agreement!TypeOK
    <2>3. \E r \in Nodes : proposal[r] = decision[q]
        BY <2>1 DEF DecisionProposed
    <2>4. \A r \in Nodes : decision[r] \in {decision[q], None}
        BY <2>1 DEF OneDecision
    <2>5. Agreement!MayDecide(p, decision[q])
        BY <2>3, <2>4 DEF Agreement!MayDecide
    <2> QED
        BY <2>2, <2>5
<1> QED
    BY <1>1, <1>2

\* When nothing is left to do and at most f nodes crashed or raised, the fast
\* path of every other has returned, so N - f of them sent their VIEW_CHANGE;
\* hence every process that is not gone, also one that raised in its fast path,
\* has an input and a decision, unless the agreement is not owed to it.
LEMMA SettledEnds ==
    ASSUME VcInv, Settled, Cardinality(Stopped) <= F, NEW p \in Nodes \ Down
    PROVE  run[p] \in {"synced", "fallback"} \/ WaitsForAgreement(p)
<1> USE DEF VcInv
<1>t. BdtTypeOK /\ FastTypeOK
    BY DEF BdtTypeOK
<1>1. PICK L : L = Nodes \ Stopped
    OBVIOUS
<1>2. L \in Quorum
    <2>1. Stopped \in SUBSET Nodes
        BY DEF Stopped
    <2> QED
        BY <1>1, <2>1, LiveNodes
<1>3. \A q \in L : q \in Nodes /\ Alive(q) /\ status[q] = "returned"
    <2> SUFFICES ASSUME NEW q \in L PROVE q \in Nodes /\ Alive(q) /\ status[q] = "returned"
        OBVIOUS
    <2>1. q \in Nodes /\ status[q] # "crashed" /\ run[q] # "raised" /\ status[q] # "raised"
        BY <1>1 DEF Stopped, Down
    <2>2. status[q] # "running"
        BY <2>1 DEF Settled, TimerRuns
    <2>3. status[q] \in Statuses
        BY <1>t, <2>1 DEF FastTypeOK
    <2> QED
        BY <2>1, <2>2, <2>3 DEF Alive, Statuses
<1>4. \A q \in L : VcSent(q)
    <2> SUFFICES ASSUME NEW q \in L PROVE VcSent(q)
        OBVIOUS
    <2>1. q \in Nodes /\ Alive(q) /\ status[q] = "returned"
        BY <1>3
    <2>2. run[q] # "fast"
        BY <2>1 DEF Settled, LeavesFastPath, VcReady
    <2>3. run[q] \in Runs /\ run[q] # "raised"
        BY <1>t, <2>1 DEF BdtTypeOK, Alive
    <2> QED
        BY <2>1, <2>2, <2>3 DEF SentOnce, Runs
<1>5. \A q \in Nodes \ Down : Alive(q) /\ proposal[q] # None
    <2> SUFFICES ASSUME NEW q \in Nodes \ Down PROVE Alive(q) /\ proposal[q] # None
        OBVIOUS
    <2>1. PICK Q \in SUBSET Senders : Cardinality(Q) = N - F /\ \E v \in VcSlots : IsMaxSlot(Q, v)
        BY <1>t, <1>2, <1>4, ViewChangesEnough
    <2>2. ~ ViewChangesIn(q, Q)
        BY <2>1 DEF Settled
    <2>3. Alive(q)
        BY DEF Alive, Down
    <2> QED
        BY <2>1, <2>2, <2>3 DEF ViewChangesIn
<1>6. run[p] \in {"vc", "synced", "fallback"}
    <2>1. Alive(p) /\ proposal[p] # None /\ run[p] \in Runs
        BY <1>t, <1>5 DEF BdtTypeOK
    <2>2. run[p] # "fast"
        BY <2>1 DEF Settled, LeavesFastPath, VcReady
    <2> QED
        BY <2>1, <2>2 DEF Alive, Runs
<1>7. CASE decision[p] # None
    BY <1>5, <1>6, <1>7 DEF Settled, OutputIn
<1>8. CASE decision[p] = None
    <2>1. PICK v \in VcSlots : Agreement!MayDecide(p, v)
        BY <1>5, <1>8, SomeDecision
    <2>2. {q \in Nodes : proposal[q] # None} \in Quorum
        <3>1. L \subseteq {q \in Nodes : proposal[q] # None}
            BY <1>1, <1>5 DEF Stopped
        <3> QED
            BY <1>2, <3>1, QuorumSuperset
    <2>3. AgreementEnds(p, v) /\ ~ AgreementOwed(p, v)
        BY <1>5, <2>1, <2>2 DEF AgreementEnds, Settled
    <2>4. PICK r \in Nodes : proposal[r] = v
        BY <2>1 DEF Agreement!MayDecide
    <2>5. CASE \E q \in Nodes : proposal[q] \notin {None, v}
        BY <1>5, <1>6, <2>4, <2>5, Constants DEF WaitsForAgreement
    <2>6. CASE ~ (Down = {} \/ \A q \in Nodes : decision[q] = None)
        BY <1>5, <1>6, <2>6 DEF WaitsForAgreement
    <2> QED
        BY <2>3, <2>5, <2>6 DEF AgreementOwed
<1> QED
    BY <1>7, <1>8

\* An epoch gets stuck in its agreement only: whatever messages were sent, when
\* nothing is left to do and at most f nodes crashed or raised, every process
\* that is not gone has ended the epoch, or has its input to an agreement whose
\* inputs differ, or in which a node decided while a process is gone.
THEOREM EpochsEnd == BdtSpec => []StuckOnlyInAgreement
<1>1. ASSUME VcInv PROVE StuckOnlyInAgreement
    BY <1>1, SettledEnds DEF StuckOnlyInAgreement
<1> QED
    BY <1>1, VcInvariant, PTL
-----------------------------------------------------------------------------
(***************************************************************************)
(* The epoch ends.  What the nodes may still do is a finite set of tokens, *)
(* and every step, also a crash, takes one of them for good.  So an epoch  *)
(* comes to a state in which nothing is left to do, which is what          *)
(* StuckOnlyInAgreement is about.                                          *)
(***************************************************************************)
Kinds == {"process", "running", "slot", "batch", "view", "epoch", "input", "output"}

Remains(kind, p, s) ==
    \/ kind = "process" /\ status[p] # "crashed"
    \/ kind = "running" /\ status[p] = "running"
    \/ kind = "slot" /\ slotCur[p] <= s
    \/ kind = "batch" /\ batch[s] = None
    \/ kind = "view" /\ run[p] = "fast"
    \/ kind = "epoch" /\ run[p] \in {"fast", "vc"}
    \/ kind = "input" /\ proposal[p] = None
    \/ kind = "output" /\ decision[p] = None

Todo == {t \in Kinds \X (Nodes \X Slots) : Remains(t[1], t[2][1], t[2][2])}

\* Nothing is added, and one token goes.
LEMMA TokenGoes ==
    ASSUME \A k \in Kinds, p \in Nodes, s \in Slots : Remains(k, p, s)' => Remains(k, p, s),
           NEW k \in Kinds, NEW p \in Nodes, NEW s \in Slots,
           Remains(k, p, s), ~ Remains(k, p, s)'
    PROVE  Todo' \subseteq Todo /\ Todo' # Todo
<1>1. Todo' \subseteq Todo
    BY DEF Todo
<1>2. <<k, <<p, s>>>> \in Todo /\ <<k, <<p, s>>>> \notin Todo'
    BY DEF Todo
<1> QED
    BY <1>1, <1>2

LEMMA FirstIsSlot == 1 \in Slots
BY FastPathAssumption DEF Slots, LastSlot

\* A node's fast path moves, or its process crashes.
LEMMA FastEnds ==
    ASSUME BdtTypeOK, NEW p \in Nodes, FastStep(p) \/ (CrashNode(p) /\ UNCHANGED vcVars)
    PROVE  Todo' \subseteq Todo /\ Todo' # Todo
<1>1. /\ batch' = batch /\ run' = run /\ proposal' = proposal /\ decision' = decision
      /\ slotCur \in [Nodes -> 1 .. LastSlot + 1] /\ status \in [Nodes -> Statuses]
    <2>1. CASE FastStep(p)
        BY <2>1 DEF FastStep, FastMove, AdvanceSlot, RaiseInSlot, TimeOut, vcVars, BdtTypeOK, FastTypeOK
    <2>2. CASE CrashNode(p) /\ UNCHANGED vcVars
        BY <2>2 DEF CrashNode, vcVars, BdtTypeOK, FastTypeOK
    <2> QED
        BY <2>1, <2>2
<1>2. \A q \in Nodes : slotCur[q] \in Int /\ \A s \in Slots : s \in Int
    BY <1>1, Constants
<1>3. CASE AdvanceSlot(p)
    <2>1. /\ slotCur' = [slotCur EXCEPT ![p] = @ + 1]
          /\ status[p] = "running" /\ slotCur[p] \in Slots
          /\ \A q \in Nodes : status'[q] = status[q] \/ (status[q] = "running" /\ status'[q] = "returned")
        BY <1>1, <1>3 DEF AdvanceSlot, DecideIn, Decided
    <2>2. \A q \in Nodes : slotCur'[q] = IF q = p THEN slotCur[p] + 1 ELSE slotCur[q]
        BY <1>1, <2>1
    <2>3. ASSUME NEW k \in Kinds, NEW q \in Nodes, NEW s \in Slots, Remains(k, q, s)'
          PROVE  Remains(k, q, s)
        BY <1>1, <1>2, <2>1, <2>2, <2>3 DEF Remains
    <2>4. PICK c \in Slots : c = slotCur[p]
        BY <2>1
    <2>5. Remains("slot", p, c) /\ ~ Remains("slot", p, c)'
        BY <1>2, <2>2, <2>4 DEF Remains
    <2> QED
        BY <2>3, <2>5, TokenGoes DEF Kinds
<1>4. CASE RaiseInSlot(p) \/ TimeOut(p) \/ CrashNode(p)
    <2>1. /\ slotCur' = slotCur
          /\ \A q \in Nodes : q # p => status'[q] = status[q]
          /\ status'[p] # "running"
          /\ status[p] = "running" \/ (status[p] # "crashed" /\ status'[p] = "crashed")
        BY <1>1, <1>4 DEF RaiseInSlot, TimeOut, CrashNode, DecideIn, TimerRuns
    <2>2. ASSUME NEW k \in Kinds, NEW q \in Nodes, NEW s \in Slots, Remains(k, q, s)'
          PROVE  Remains(k, q, s)
        BY <1>1, <2>1, <2>2 DEF Remains
    <2>3. \/ Remains("running", p, 1) /\ ~ Remains("running", p, 1)'
          \/ Remains("process", p, 1) /\ ~ Remains("process", p, 1)'
        BY <2>1 DEF Remains
    <2> QED
        BY <2>2, <2>3, FirstIsSlot, TokenGoes DEF Kinds
<1> QED
    BY <1>3, <1>4 DEF FastStep, FastMove

LEMMA LeaderEnds ==
    ASSUME BdtTypeOK, LeaderStep
    PROVE  Todo' \subseteq Todo /\ Todo' # Todo
<1>1. PICK c \in Slots : DecideSlot(c)
    BY DEF LeaderStep
<1>2. /\ slotCur' = slotCur /\ status' = status
      /\ run' = run /\ proposal' = proposal /\ decision' = decision
      /\ batch \in [Slots -> Batches \cup {None}]
    BY <1>1 DEF LeaderStep, DecideSlot, vcVars, BdtTypeOK, FastTypeOK
<1>3. batch[c] = None /\ \E b \in Batches : batch' = [batch EXCEPT ![c] = b]
    BY <1>1 DEF DecideSlot, VotesIn, Decided, Batches
<1>4. batch'[c] # None /\ \A s \in Slots : batch'[s] = None => batch[s] = None
    BY <1>2, <1>3, Constants
<1>5. ASSUME NEW k \in Kinds, NEW q \in Nodes, NEW s \in Slots, Remains(k, q, s)'
      PROVE  Remains(k, q, s)
    BY <1>2, <1>4, <1>5 DEF Remains
<1>6. Remains("batch", Leader, c) /\ ~ Remains("batch", Leader, c)'
    BY <1>3, <1>4 DEF Remains
<1> QED
    BY <1>5, <1>6, TokenGoes, Constants DEF Kinds

\* A step of _run_epoch or of one of its greenlets.
LEMMA EpochEnds ==
    ASSUME BdtTypeOK, NEW p \in Nodes, EpochStep(p)
    PROVE  Todo' \subseteq Todo /\ Todo' # Todo
<1>1. /\ slotCur' = slotCur /\ status' = status /\ batch' = batch
      /\ run \in [Nodes -> Runs]
      /\ proposal \in [Nodes -> VcSlots \cup {None}]
      /\ decision \in [Nodes -> VcSlots \cup {None}]
    <2>1. slotCur' = slotCur /\ status' = status /\ batch' = batch
        BY DEF EpochStep, SendViewChange, RaiseInAverage, CollectViewChanges, Agree, Synchronize,
               StartFallback, fastVars
    <2> QED
        BY <2>1 DEF BdtTypeOK, Agreement!TypeOK
<1>2. CASE SendViewChange(p) \/ RaiseInAverage(p) \/ Synchronize(p) \/ StartFallback(p)
    <2>1. /\ proposal' = proposal /\ decision' = decision
          /\ \A q \in Nodes : q # p => run'[q] = run[q]
          /\ \/ run[p] = "fast" /\ run'[p] \in {"vc", "raised"}
             \/ run[p] = "vc" /\ run'[p] \in {"synced", "raised", "fallback"}
        BY <1>1, <1>2 DEF SendViewChange, RaiseInAverage, Synchronize, StartFallback, LeavesFastPath,
                          OutputIn
    <2>2. ASSUME NEW k \in Kinds, NEW q \in Nodes, NEW s \in Slots, Remains(k, q, s)'
          PROVE  Remains(k, q, s)
        BY <1>1, <2>1, <2>2 DEF Remains
    <2>3. \/ Remains("view", p, 1) /\ ~ Remains("view", p, 1)'
          \/ Remains("epoch", p, 1) /\ ~ Remains("epoch", p, 1)'
        BY <2>1 DEF Remains
    <2> QED
        BY <2>2, <2>3, FirstIsSlot, TokenGoes DEF Kinds
<1>3. CASE \E Q \in SUBSET Senders : CollectViewChanges(p, Q)
    <2>1. /\ run' = run /\ decision' = decision
          /\ proposal[p] = None
          /\ \E v \in VcSlots : proposal' = [proposal EXCEPT ![p] = v]
        BY <1>3 DEF CollectViewChanges, ViewChangesIn, Agreement!Propose
    <2>2. proposal'[p] # None /\ \A q \in Nodes : q # p => proposal'[q] = proposal[q]
        BY <1>1, <2>1, Constants
    <2>3. ASSUME NEW k \in Kinds, NEW q \in Nodes, NEW s \in Slots, Remains(k, q, s)'
          PROVE  Remains(k, q, s)
        BY <1>1, <2>1, <2>2, <2>3 DEF Remains
    <2>4. Remains("input", p, 1) /\ ~ Remains("input", p, 1)'
        BY <2>1, <2>2 DEF Remains
    <2> QED
        BY <2>3, <2>4, FirstIsSlot, TokenGoes DEF Kinds
<1>4. CASE Agree(p)
    <2>1. /\ run' = run /\ proposal' = proposal
          /\ decision[p] = None
          /\ \E v \in VcSlots : decision' = [decision EXCEPT ![p] = v]
        BY <1>4 DEF Agree, AgreementEnds, Agreement!Decide, Agreement!MayDecide
    <2>2. decision'[p] # None /\ \A q \in Nodes : q # p => decision'[q] = decision[q]
        BY <1>1, <2>1, Constants
    <2>3. ASSUME NEW k \in Kinds, NEW q \in Nodes, NEW s \in Slots, Remains(k, q, s)'
          PROVE  Remains(k, q, s)
        BY <1>1, <2>1, <2>2, <2>3 DEF Remains
    <2>4. Remains("output", p, 1) /\ ~ Remains("output", p, 1)'
        BY <2>1, <2>2 DEF Remains
    <2> QED
        BY <2>3, <2>4, FirstIsSlot, TokenGoes DEF Kinds
<1> QED
    BY <1>2, <1>3, <1>4 DEF EpochStep

LEMMA TodoIsFinite == IsFiniteSet(Todo)
<1>1. IsFiniteSet(Kinds)
    BY EightAreFinite DEF Kinds
<1>2. IsFiniteSet(Nodes) /\ IsFiniteSet(Slots)
    BY FaultAssumption, Constants, FS_Interval
<1>3. IsFiniteSet(Nodes \X Slots)
    BY <1>2, FS_Product
<1>4. IsFiniteSet(Kinds \X (Nodes \X Slots))
    BY <1>1, <1>3, FS_Product
<1>5. Todo \subseteq Kinds \X (Nodes \X Slots)
    BY DEF Todo
<1> QED
    BY <1>4, <1>5, FS_Subset

\* "Every step consumes something": an epoch has finitely many steps, whatever
\* crashes, is late or raises, and so comes to a state that StuckOnlyInAgreement
\* is about.
THEOREM EpochStepsConsume ==
    BdtSpec => []IsFiniteSet(Todo) /\ [][Todo' \in (SUBSET Todo) \ {Todo}]_bdtVars
<1> DEFINE A == Todo' \in (SUBSET Todo) \ {Todo}
<1>1. BdtTypeOK /\ [BdtNext]_bdtVars => [A]_bdtVars
    BY FastEnds, LeaderEnds, EpochEnds DEF BdtNext
<1>2. IsFiniteSet(Todo)
    BY TodoIsFinite
<1> HIDE DEF A
<1>3. BdtSpec => []IsFiniteSet(Todo) /\ [][A]_bdtVars
    BY <1>1, <1>2, TypeCorrect, PTL DEF BdtSpec
<1> QED
    BY <1>3 DEF A
=============================================================================
