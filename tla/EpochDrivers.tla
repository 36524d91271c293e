----------------------------- MODULE EpochDrivers -----------------------------
(***************************************************************************)
(* The epochs of a node, one after the other: run_bft and _run_epoch of    *)
(* class Bdt ("bdt") and of class RotatingLeaderHotstuff ("rotating"),     *)
(* run_bft and _run_round of SpeedyDumbo ("speedy").  Messages carry their *)
(* epoch and are queued for it.  The greenlets of an epoch of Bdt are not  *)
(* killed when the node goes on to the next one, so that they serve the    *)
(* nodes that are behind until run_bft returns and the launcher stops the  *)
(* process; those of SpeedyDumbo are killed, after the node has sent a     *)
(* HALT that is enough for the others.  What happens inside an epoch is    *)
(* BdtViewChange and SpeedMvbaE; here the fast path is the slot it         *)
(* returns, and the agreements and the common subset may output what they  *)
(* promise if N - f nodes take part, but are not always sure to.           *)
(***************************************************************************)
EXTENDS Quorums

CONSTANTS
    EdEpochs,  \* K
    None

VARIABLES
    edKind,      \* which driver runs
    edTip,       \* the last slot notarized in an epoch
    edEpoch,     \* self.epoch
    edWhere,     \* where _run_epoch is at each node
    edSlot,      \* the slot of the VIEW_CHANGE of each node, per epoch
    edInput,     \* tcvba_input of each node, per epoch
    edDecision,  \* what the two-value agreement of each epoch decided
    edStarted,   \* nodes that gave a value to the common subset, per epoch;
                 \* speedy: that got the subset, and have sent HALT
    edShared,    \* nodes that broadcast decryption shares, per epoch
    edPaid,      \* nodes whose self.txcnt is not 0
    edLost       \* nodes whose client was stopped before it had sent all

edVars == <<edKind, edTip, edEpoch, edWhere, edSlot, edInput, edDecision,
            edStarted, edShared, edPaid, edLost>>

EdIds == 0 .. EdEpochs - 1

\* At most f nodes are muted, or die at once.  Bounds: no node dies later on;
\* slot 2 is the last one, and all epochs get equally far.
EdInit ==
    /\ edKind \in {"bdt", "rotating", "speedy"}
    /\ edTip \in 1 .. 2 /\ (edKind = "speedy" => edTip = 1)
    /\ edEpoch = [p \in Nodes |-> 0]
    /\ \E dead \in SUBSET Nodes :
          /\ Cardinality(dead) <= F
          /\ edWhere = [p \in Nodes |-> IF p \in dead THEN "dead" ELSE "fast"]
    /\ edSlot = [e \in EdIds |-> [p \in Nodes |-> None]]
    /\ edInput = [e \in EdIds |-> [p \in Nodes |-> None]]
    /\ edDecision = [e \in EdIds |-> None]
    /\ edStarted = [e \in EdIds |-> {}]
    /\ edShared = [e \in EdIds |-> {}]
    /\ edPaid = {}
    /\ edLost = {}
-----------------------------------------------------------------------------
\* "gone": run_bft returned or raised, and the process stopped.
Runs(p) == edWhere[p] \notin {"gone", "dead"}

In(p, e, where) == edEpoch[p] = e /\ edWhere[p] = where

\* Mutation of Handles: recv_t.kill(), which is commented out, is called.
HandlesUntilKilled(p, e) == Runs(p) /\ edEpoch[p] = e

\* The node has entered the epoch, and its broadcast_receiver_loop hands out
\* the messages of the epoch, early ones from _per_epoch_recv.  SpeedyDumbo
\* kills it at the end of the epoch.
Handles(p, e) ==
    Runs(p) /\ IF edKind = "speedy" THEN edEpoch[p] = e ELSE edEpoch[p] >= e

\* What is in the queue of a client that is terminated is not sent.
Stop(p, sent) ==
    edLost' = IF sent THEN edLost ELSE edLost \cup {p}

Exit(p) ==
    /\ edWhere' = [edWhere EXCEPT ![p] = "gone"]
    /\ \E sent \in BOOLEAN : Stop(p, sent)
    /\ UNCHANGED edEpoch

\* self.epoch += 1, and the loop breaks at K.
NextEpoch(p, e) ==
    IF e + 1 < EdEpochs
    THEN /\ edEpoch' = [edEpoch EXCEPT ![p] = e + 1]
         /\ edWhere' = [edWhere EXCEPT ![p] = "fast"]
         /\ UNCHANGED edLost
    ELSE Exit(p)

\* The slot of latest_notarization: N - f nodes are at the tip or just behind.
Returns(p, e, slot) ==
    /\ slot <= edTip
    /\ slot < edTip - 1 =>
          Cardinality({q \in Nodes \ {p} :
              edSlot[e][q] # None /\ edSlot[e][q] < edTip - 1}) < F

\* The fast path returned, by its timer at the latest, or ("bdt") the handler
\* has N - f VIEW_CHANGEs.  Averaging over no transactions raises, if all the
\* node has is the block of slot 1.
VcDue(p, e, slot) == edKind # "speedy" /\ In(p, e, "fast") /\ Returns(p, e, slot)

SendVc(p, e, slot) ==
    /\ VcDue(p, e, slot)
    /\ IF slot = 1 /\ p \notin edPaid
       THEN Exit(p) /\ UNCHANGED <<edSlot, edPaid>>
       ELSE /\ edWhere' = [edWhere EXCEPT ![p] = "vc"]
            /\ edSlot' = [edSlot EXCEPT ![e][p] = slot]
            /\ edPaid' = IF slot > 0 THEN edPaid \cup {p} ELSE edPaid
            /\ UNCHANGED <<edEpoch, edLost>>
    /\ UNCHANGED <<edKind, edTip, edInput, edDecision, edStarted, edShared>>

VcSenders(e) == {q \in Nodes \ edLost : edSlot[e][q] # None}

\* handle_viewchange_msg of Bdt: the greatest slot of N - f VIEW_CHANGEs, be
\* the node still in the epoch or not.
VcsIn(p, e, Q) ==
    /\ edKind = "bdt" /\ Handles(p, e) /\ edInput[e][p] = None
    /\ Q \subseteq VcSenders(e) /\ Cardinality(Q) = N - F

CollectVc(p, e, Q) ==
    /\ VcsIn(p, e, Q)
    /\ \E top \in Q :
          /\ \A q \in Q : edSlot[e][q] <= edSlot[e][top]
          /\ edInput' = [edInput EXCEPT ![e][p] = edSlot[e][top]]
    /\ UNCHANGED <<edKind, edTip, edEpoch, edWhere, edSlot, edDecision, edStarted,
                   edShared, edPaid, edLost>>

\* N - f nodes that take part, some of which may have stopped after they did.
TakePart(S, e) ==
    {q \in S : Handles(q, e) \/ (edWhere[q] = "gone" /\ q \notin edLost)} \in Quorum

\* tcvba_output.get() may return: slots beyond the first are delivered, or a transaction
\* is given to the common subset.
AgreementOut(p, e, v) ==
    /\ edKind = "bdt" /\ In(p, e, "vc")
    /\ TakePart({q \in Nodes : edInput[e][q] # None}, e)
    /\ IF edDecision[e] = None THEN \E q \in Nodes : edInput[e][q] = v
       ELSE v = edDecision[e]

EndAgreement(p, e, v) ==
    /\ AgreementOut(p, e, v)
    /\ edDecision' = [edDecision EXCEPT ![e] = v]
    /\ IF v > 1
       THEN NextEpoch(p, e) /\ UNCHANGED edStarted
       ELSE /\ edWhere' = [edWhere EXCEPT ![p] = "acs"]
            /\ edStarted' = [edStarted EXCEPT ![e] = @ \cup {p}]
            /\ UNCHANGED <<edEpoch, edLost>>
    /\ UNCHANGED <<edKind, edTip, edSlot, edInput, edShared, edPaid>>

\* SpeedyDumbo: speedmvba may output the subset, by its N - f participants or by
\* the HALT of a node that may have left.
MvbaOut(p, e) ==
    /\ edKind = "speedy" /\ In(p, e, "fast")
    /\ \/ {q \in Nodes : Handles(q, e)} \in Quorum
       \/ edStarted[e] \ edLost # {}

EndMvba(p, e) ==
    /\ MvbaOut(p, e)
    /\ edWhere' = [edWhere EXCEPT ![p] = "acs"]
    /\ edStarted' = [edStarted EXCEPT ![e] = @ \cup {p}]
    /\ UNCHANGED <<edKind, edTip, edEpoch, edSlot, edInput, edDecision, edShared,
                   edPaid, edLost>>

\* honeybadger_block: the common subset is there, and the shares are sent,
SubsetOut(p, e) ==
    /\ In(p, e, "acs") /\ p \notin edShared[e]
    /\ edKind = "bdt" => TakePart(edStarted[e], e)

EndSubset(p, e) ==
    /\ SubsetOut(p, e)
    /\ edShared' = [edShared EXCEPT ![e] = @ \cup {p}]
    /\ UNCHANGED <<edKind, edTip, edEpoch, edWhere, edSlot, edInput, edDecision,
                   edStarted, edPaid, edLost>>

\* ... and f + 1 shares decrypt the block.
SharesIn(p, e) ==
    /\ In(p, e, "acs") /\ p \in edShared[e]
    /\ Cardinality(edShared[e] \ edLost) >= F + 1

EndFallback(p, e) ==
    /\ SharesIn(p, e)
    /\ edPaid' = edPaid \cup {p}
    /\ NextEpoch(p, e)
    /\ UNCHANGED <<edKind, edTip, edSlot, edInput, edDecision, edStarted, edShared>>

\* RotatingLeaderHotstuff: N - f VIEW_CHANGEs end the epoch.  The NEW_VIEW its
\* handler sends to the next leader is read by nobody.
RotationDue(p, e) ==
    /\ edKind = "rotating" /\ In(p, e, "vc")
    /\ VcSenders(e) \in Quorum

EndRotating(p, e) ==
    /\ RotationDue(p, e)
    /\ NextEpoch(p, e)
    /\ UNCHANGED <<edKind, edTip, edSlot, edInput, edDecision, edStarted, edShared,
                   edPaid>>

EdStopped == {p \in Nodes : ~ Runs(p)}

\* Bound: a behaviour ends when more than f processes have stopped.
EdNext ==
    /\ Cardinality(EdStopped) <= F
    /\ \E p \in Nodes, e \in EdIds :
          \/ \E slot \in 0 .. 2 : SendVc(p, e, slot) \/ EndAgreement(p, e, slot)
          \/ \E Q \in SUBSET Nodes : CollectVc(p, e, Q)
          \/ EndMvba(p, e)
          \/ EndSubset(p, e)
          \/ EndFallback(p, e)
          \/ EndRotating(p, e)

EdSpec == EdInit /\ [][EdNext]_edVars
-----------------------------------------------------------------------------
(***************************************************************************)
(* Properties.                                                             *)
(***************************************************************************)
\* The two-value agreement may block if its inputs differ, or if a node decided
\* and another is not there (TwoValueAgreement, EveryNodeDecides).
AgreementMayBlock(e) ==
    \/ \E q, r \in Nodes :
          /\ None \notin {edInput[e][q], edInput[e][r]}
          /\ edInput[e][q] # edInput[e][r]
    \/ edDecision[e] # None /\ \E q \in Nodes : ~ Handles(q, e)

\* speedmvba is sure to output once a node has halted (SpeedMvbaE), and its
\* subset is if no process has stopped (DumboCommonSubset, SubsetReturned); so
\* is the one of Bdt if all have started it (ValidatedAgreement, IterationEnds).
MvbaMayBlock(e) == edStarted[e] = {} \/ EdStopped # {}
SubsetMayBlock(e) == edKind = "bdt" /\ (edStarted[e] # Nodes \/ EdStopped # {})

\* No process has anything left to do that is sure to come.
EdSettled ==
    \A p \in Nodes, e \in EdIds :
        /\ \A slot \in 0 .. 2 :
              /\ ~ VcDue(p, e, slot)
              /\ AgreementOut(p, e, slot) => AgreementMayBlock(e)
        /\ \A Q \in SUBSET Nodes : ~ VcsIn(p, e, Q)
        /\ MvbaOut(p, e) => MvbaMayBlock(e)
        /\ SubsetOut(p, e) => SubsetMayBlock(e)
        /\ ~ SharesIn(p, e) /\ ~ RotationDue(p, e)

\* p has N - f participants in an agreement or a subset of its epoch that may
\* block: the inputs differ, a process has stopped, or nobody has halted.
WaitsInAgreement(p, e) ==
    \/ \E v \in 0 .. 2 : AgreementOut(p, e, v) /\ AgreementMayBlock(e)
    \/ MvbaOut(p, e) /\ MvbaMayBlock(e)
    \/ edKind = "bdt" /\ SubsetOut(p, e) /\ EdStopped # {}

\* Unlike in Dumbo (DumboRound), a node that is behind is not left alone by
\* those that go on: as long as no more than f processes have stopped (muted,
\* dead, by an exception or at the end of their K epochs), nobody waits for ever
\* for VIEW_CHANGEs, inputs, a HALT or shares of nodes that have left the epoch.
\* All waiting goes back to a node in the earliest epoch, with N - f others in an
\* agreement of that epoch that may block.
LaggardsWaitInAgreements ==
    EdSettled /\ Cardinality(EdStopped) <= F =>
        \E p \in Nodes :
            /\ Runs(p)
            /\ \A q \in Nodes : Runs(q) => edEpoch[p] <= edEpoch[q]
            /\ WaitsInAgreement(p, edEpoch[p])
=============================================================================
