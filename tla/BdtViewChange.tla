---------------------------- MODULE BdtViewChange ----------------------------
(***************************************************************************)
(* One epoch of class Bdt (_run_epoch): the fast path, then the view       *)
(* change.  A node whose fast path has returned, or that has collected     *)
(* N - f VIEW_CHANGE messages, broadcasts the last block its fast path     *)
(* output; the greatest slot among N - f such messages is its input to     *)
(* twovalueagreement, whose output fixes the slots the epoch delivers, or  *)
(* sends the epoch to the asynchronous fallback.  The fast path of a node  *)
(* is not stopped when the node sends its VIEW_CHANGE.  The fast path is   *)
(* FastPathSpec, which HsFastPath implements; the check of a notarization  *)
(* always succeeds (HsFastPath, CertificateVerifies), so a VIEW_CHANGE is  *)
(* the slot of the block it carries.                                       *)
(***************************************************************************)
EXTENDS FastPathSpec

CONSTANT TxCounts  \* values self.txcnt may have when the epoch begins

ASSUME ViewChangeAssumption == TxCounts \subseteq Nat /\ None \notin 0 .. LastSlot

VARIABLES
    run,       \* where _run_epoch is at each node
    vcSlot,    \* the slot each node put in its VIEW_CHANGE, 0 for no block
    proposal,  \* what handle_viewchange_msg put in tcvba_input
    decision,  \* what the agreement put in tcvba_output
    txcnt      \* self.txcnt, the transactions delivered so far

vcVars  == <<run, vcSlot, proposal, decision, txcnt>>
bdtVars == <<fastVars, vcVars>>

\* "fast": waiting for vc_ready; "vc": VIEW_CHANGE sent, waiting for
\* tcvba_output; "synced": some fast slots are delivered; "fallback": the
\* asynchronous common subset is started; "raised": an exception ended run_bft.
Runs == {"fast", "vc", "synced", "fallback", "raised"}

VcSlots == 0 .. LastSlot

Agreement == INSTANCE TwoValueSpec WITH Values <- VcSlots

BdtTypeOK ==
    /\ FastTypeOK
    /\ run \in [Nodes -> Runs]
    /\ vcSlot \in [Nodes -> VcSlots \cup {None}]
    /\ Agreement!TypeOK
    /\ txcnt \in [Nodes -> Nat]
-----------------------------------------------------------------------------
BdtInit ==
    /\ FastInit
    /\ run = [p \in Nodes |-> "fast"]
    /\ vcSlot = [p \in Nodes |-> None]
    /\ Agreement!Init
    /\ \E n \in TxCounts : txcnt = [p \in Nodes |-> n]

Alive(p) == status[p] # "crashed" /\ run[p] # "raised"

\* The messages of a node whose run_bft ended may still be delivered.
VcSent(p) == vcSlot[p] # None
Senders == {p \in Nodes : VcSent(p)}

\* vc_ready: the fast path returned, or the view-change handler did.
VcReady(p) == status[p] = "returned" \/ proposal[p] # None

\* epoch_txcnt as the fast path last output it, in batches.
EpochTx(p) == Cardinality(TxUpTo(FixedSlot(p)))

\* txdelay is averaged over self.txcnt + epoch_txcnt transactions.
NoTxToAverage(p) == NotarizedSlot(p) > 0 /\ txcnt[p] + EpochTx(p) = 0

\* vc_ready.wait() returns.
LeavesFastPath(p) == Alive(p) /\ run[p] = "fast" /\ VcReady(p)

SendViewChange(p) ==
    /\ LeavesFastPath(p)
    /\ ~ NoTxToAverage(p)
    /\ run' = [run EXCEPT ![p] = "vc"]
    /\ vcSlot' = [vcSlot EXCEPT ![p] = NotarizedSlot(p)]
    /\ txcnt' = [txcnt EXCEPT ![p] =
                    IF NotarizedSlot(p) = 0 THEN @ ELSE @ + EpochTx(p)]
    /\ UNCHANGED <<fastVars, proposal, decision>>

\* ZeroDivisionError, which the handler of AssertionError lets through: the
\* node ends before it sends its VIEW_CHANGE.
RaiseInAverage(p) ==
    /\ LeavesFastPath(p)
    /\ NoTxToAverage(p)
    /\ run' = [run EXCEPT ![p] = "raised"]
    /\ UNCHANGED <<fastVars, vcSlot, proposal, decision, txcnt>>

\* Mutations of IsMaxSlot: the smallest slot; the slot of the last message.
IsMinSlot(Q, v) ==
    /\ \E q \in Q : v = vcSlot[q]
    /\ \A q \in Q : v <= vcSlot[q]
IsSomeSlot(Q, v) == \E q \in Q : v = vcSlot[q]

\* v is viewchange_max_slot over the messages of the nodes in Q.
IsMaxSlot(Q, v) ==
    /\ \E q \in Q : v = vcSlot[q]
    /\ \A q \in Q : vcSlot[q] <= v

\* handle_viewchange_msg has received N - f valid messages, those of Q,
\* a set of Senders, and puts their maximum in tcvba_input, once.
ViewChangesIn(p, Q) ==
    /\ Alive(p)
    /\ proposal[p] = None
    /\ Cardinality(Q) = N - F
    /\ \E v \in VcSlots : IsMaxSlot(Q, v)

CollectViewChanges(p, Q) ==
    /\ ViewChangesIn(p, Q)
    /\ \E v \in VcSlots :
          /\ IsMaxSlot(Q, v)
          /\ Agreement!Propose(p, v)
    /\ UNCHANGED <<fastVars, run, vcSlot, txcnt>>

\* The agreement may decide at p; it needs N - f participants.
AgreementEnds(p, v) ==
    /\ Alive(p)
    /\ {q \in Nodes : proposal[q] # None} \in Quorum
    /\ Agreement!MayDecide(p, v)

Agree(p) ==
    /\ \E v \in VcSlots : AgreementEnds(p, v) /\ Agreement!Decide(p, v)
    /\ UNCHANGED <<fastVars, run, vcSlot, txcnt>>

\* tcvba_output.get() returns.
OutputIn(p) == Alive(p) /\ run[p] = "vc" /\ decision[p] # None

DeliveredSlots(p) == IF decision[p] > 0 THEN decision[p] - 1 ELSE 0

\* Some slots are delivered by the fast path.
Synchronize(p) ==
    /\ OutputIn(p)
    /\ DeliveredSlots(p) > 0
    /\ run' = [run EXCEPT ![p] = "synced"]
    /\ UNCHANGED <<fastVars, vcSlot, proposal, decision, txcnt>>

\* ... or none is, and the node takes a transaction for the fallback; an empty
\* buffer raises queue.Empty, which the handler of IndexError lets through.
StartFallback(p) ==
    /\ OutputIn(p)
    /\ DeliveredSlots(p) = 0
    /\ IF buffer[p] = 0
       THEN /\ run' = [run EXCEPT ![p] = "raised"]
            /\ UNCHANGED buffer
       ELSE /\ run' = [run EXCEPT ![p] = "fallback"]
            /\ buffer' = [buffer EXCEPT ![p] = @ - 1]
    /\ UNCHANGED <<slotCur, batch, status, vcSlot, proposal, decision, txcnt>>
-----------------------------------------------------------------------------
\* The greenlets of the fast path run as long as the process does.
FastStep(p) == run[p] # "raised" /\ FastMove(p) /\ UNCHANGED vcVars
LeaderStep ==
    /\ run[Leader] # "raised"
    /\ \E s \in Slots : DecideSlot(s)
    /\ UNCHANGED vcVars

EpochStep(p) ==
    \/ SendViewChange(p)
    \/ RaiseInAverage(p)
    \/ \E Q \in SUBSET Senders : CollectViewChanges(p, Q)
    \/ Agree(p)
    \/ Synchronize(p)
    \/ StartFallback(p)

BdtNext ==
    \/ LeaderStep
    \/ \E p \in Nodes :
          \/ FastStep(p)
          \/ CrashNode(p) /\ UNCHANGED vcVars
          \/ EpochStep(p)

BdtSpec == BdtInit /\ [][BdtNext]_bdtVars
-----------------------------------------------------------------------------
(***************************************************************************)
(* Properties.                                                             *)
(***************************************************************************)
\* The inputs of the agreement are at most one apart, which twovalueagreement
\* asserts of the values it compares (abs(vals[0] - vals[1]) == 1), although
\* nodes collect different VIEW_CHANGEs and their fast paths may still run.
InputsAdjacent ==
    \A p, q \in Nodes : proposal[p] # None /\ proposal[q] # None =>
        proposal[p] - proposal[q] \in {-1, 0, 1}

\* The view change costs an epoch at most the last block that some node's fast
\* path fixed (delivered), also if it is fixed after the output: the epoch
\* delivers one slot less than the agreement's output, and every fixed block but
\* the last is within; if the output is no block at all, none was fixed.
AtMostOneFixedLost ==
    \A p, q \in Nodes : decision[q] # None =>
        /\ FixedSlot(p) <= DeliveredSlots(q) + 1
        /\ decision[q] = 0 => FixedSlot(p) = 0

\* The block at the agreed slot can be fetched: whatever slot is decided, at
\* least N - f nodes hold that block or are beyond it (_recovery needs it).
AgreedBlockHeld ==
    \A p \in Nodes : decision[p] # None =>
        {q \in Nodes : slotCur[q] > decision[p]} \in Quorum

\* The processes that are gone.
Down == {p \in Nodes : status[p] = "crashed" \/ run[p] = "raised"}

\* The agreement is sure to decide only if its inputs are equal, and then unless
\* a process is gone and another has decided, and so may have stopped
\* (TwoValueAgreement, EqualInputsDecide and the two runs of EveryNodeDecides).
AgreementOwed(p, v) ==
    /\ AgreementEnds(p, v)
    /\ \A q \in Nodes : proposal[q] \in {None, v}
    /\ Down = {} \/ \A q \in Nodes : decision[q] = None

\* No process has anything left to do that is sure to come, but crash.
Settled ==
    /\ run[Leader] # "raised" => \A s \in Slots : ~ VotesIn(s)
    /\ \A p \in Nodes :
          /\ run[p] # "raised" => ~ TimerRuns(p) /\ ~ DecideIn(p)
          /\ ~ LeavesFastPath(p)
          /\ \A Q \in SUBSET Senders : ~ ViewChangesIn(p, Q)
          /\ \A v \in VcSlots : ~ AgreementOwed(p, v)
          /\ ~ OutputIn(p)

\* Nodes that crashed, or at which an exception ended the fast path or run_bft.
Stopped == {p \in Nodes : p \in Down \/ status[p] = "raised"}

\* p has its input and waits for an agreement that may block.
WaitsForAgreement(p) ==
    /\ run[p] = "vc"
    /\ proposal[p] # None
    /\ \/ \E q \in Nodes : proposal[q] \notin {None, proposal[p]}
       \/ Down # {} /\ \E q \in Nodes : decision[q] # None

\* The epoch gets stuck in the agreement only: as long as no more than f nodes
\* crashed or raised, one that raised in its fast path or whose DECIDEs were
\* lost is carried along, and when nothing is left to do every process that is
\* not gone has ended the epoch or waits for an agreement that may block.
\* (Every step consumes something, so the epoch always reaches such a state.)
StuckOnlyInAgreement ==
    Settled /\ Cardinality(Stopped) <= F =>
        \A p \in Nodes \ Down :
            run[p] \in {"synced", "fallback"} \/ WaitsForAgreement(p)

\* "Get the returned notarization of the fast path, which contains the
\* combined Signature for the tip of chain": a node that has one sends it.
NotarizationSent ==
    \A p \in Nodes : ~ (run[p] = "raised" /\ vcSlot[p] = None)

\* "except IndexError as e: tx_to_send.append("Dummy")": a node whose buffer
\* is empty goes on to the fallback with a dummy transaction.
FallbackWithDummy ==
    \A p \in Nodes : ~ (run[p] = "raised" /\ vcSlot[p] # None)
=============================================================================
