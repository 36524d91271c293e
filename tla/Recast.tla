-------------------------------- MODULE Recast --------------------------------
(***************************************************************************)
(* recastsubprotocol: once a leader is decided on, its value is put        *)
(* together again from the fragments the nodes hold.  In dumbo_mvba a node *)
(* comes here after its dispersals returned, and decodes on RCLOCK only;   *)
(* in smvbastar it comes when the agreement on locks decides, waits for    *)
(* its fragment, and decodes on RCSTORE too.  The recast is followed at    *)
(* one node, rcWatch.                                                      *)
(***************************************************************************)
EXTENDS ProvableDispersal

CONSTANT None

VARIABLES
    rcStar,   \* whether it is smvbastar that runs
    rcWatch,  \* the node whose recastsubprotocol is followed
    rcIn,     \* nodes that have started the recast
    rcCount,  \* how many recast messages of each node rcWatch has handled
    rcOut     \* None, the "value" returned, or "raised"

rcVars == <<pdVars, rcStar, rcWatch, rcIn, rcCount, rcOut>>

RcInit ==
    /\ PdInit
    /\ rcStar \in BOOLEAN
    /\ rcWatch \in Nodes
    /\ rcIn = {}
    /\ rcCount = [p \in Nodes |-> 0]
    /\ rcOut = None
-----------------------------------------------------------------------------
\* The dispersal goes on: in smvbastar it is never killed.  rcWatch stays up, and
\* nobody but the leader and rcWatch needs what another node sends.
Disperse ==
    /\ PdStep
    /\ rcWatch \in pdUp'
    /\ pdLeader \in pdUp' => pdLost' \subseteq {pdLeader, rcWatch}
    /\ UNCHANGED <<rcStar, rcWatch, rcIn, rcCount, rcOut>>

\* dumbo_mvba: p waited for the dispersal and the agreement decided its leader.
\* It takes N - f nodes that got so far.
RecastDue(p) ==
    /\ ~ rcStar
    /\ p \in pdUp \ rcIn /\ Returned(p)
    /\ rcIn # {} \/ Cardinality({q \in pdUp : Returned(q)}) >= N - F

StartRecast(p) ==
    /\ RecastDue(p)
    /\ rcIn' = rcIn \cup {p}
    /\ UNCHANGED <<pdVars, rcStar, rcWatch, rcCount, rcOut>>

\* smvbastar: speedmvba decides the leader's lock, which it can only know from
\* a leader that has its own LOCK.
VabaOut(p) == rcStar /\ p \in pdUp \ rcIn /\ pdHeld[pdLeader] = 2

VabaDecides(p) ==
    /\ VabaOut(p)
    /\ rcIn' = rcIn \cup {p}
    /\ UNCHANGED <<pdVars, rcStar, rcWatch, rcCount, rcOut>>

\* commit[roothash]
Commit == {q \in Nodes : rcCount[q] >= 2}

\* rcWatch may handle the next message of q: RCLOCK, RCSTORE, and in dumbo_mvba
\* the RCLOCK that is broadcast once more on the first one heard of.
NextOf(q, count) ==
    /\ rcWatch \in rcIn /\ rcOut = None
    /\ q \in rcIn /\ Arrives(q, rcWatch)
    /\ rcCount[q] = count

Counts(q) ==
    /\ rcCount' = [rcCount EXCEPT ![q] = @ + 1]
    /\ UNCHANGED <<pdVars, rcStar, rcWatch, rcIn>>

Decode(enough) == rcOut' = IF enough THEN "value" ELSE None

\* Mutation of RcLockIn: RCLOCK is not broadcast once more.
RcLockInOnce(q) == NextOf(q, 0)

\* RCLOCK.  In smvbastar rclocksend is set from the start, so no echo follows.
RcLockIn(q) ==
    \/ NextOf(q, 0)
    \/ NextOf(q, 2) /\ ~ rcStar /\ (q = rcWatch => \E r \in Nodes : rcCount[r] > 0)

HandleRcLock(q) ==
    /\ RcLockIn(q)
    /\ Counts(q)
    /\ Decode(Cardinality(Commit) >= F + 1)

\* RCSTORE.  In smvbastar getstore() waits for the fragment.  In dumbo_mvba a
\* leader that returned without its own STORE sends 0, which cannot be unpacked.
RcStoreIn(q) == NextOf(q, 1) /\ (rcStar => pdHeld[q] > 0)

HandleRcStore(q) ==
    /\ RcStoreIn(q)
    /\ Counts(q)
    /\ IF pdHeld[q] = 0
       THEN rcOut' = "raised"
       ELSE Decode(rcStar /\ Cardinality(Commit \cup {q}) = F + 1)

RcStep(p) == StartRecast(p) \/ VabaDecides(p) \/ HandleRcLock(p) \/ HandleRcStore(p)

\* Bound: what follows the return of rcWatch is left out.
RcNext == rcOut = None /\ (Disperse \/ \E p \in Nodes : RcStep(p))

RcSpec == RcInit /\ [][RcNext]_rcVars
-----------------------------------------------------------------------------
(***************************************************************************)
(* Properties.                                                             *)
(***************************************************************************)
\* The recast is over, or nobody can do anything for it, though the dispersal
\* may still go on.
RcSettled ==
    rcOut = None =>
        \A p \in Nodes :
            ~ RecastDue(p) /\ ~ VabaOut(p) /\ ~ RcLockIn(p) /\ ~ RcStoreIn(p)

\* A value whose recast has started is recovered at every live node that joins
\* it, and in smvbastar at every live node, although a node may crash and the
\* fragments, locks and echoes come in any order; unless, in dumbo_mvba, the
\* leader left the dispersal without its own fragment and everybody raises.
RcRecovers ==
    (rcOut # "value" /\ rcIn \cap pdUp # {} /\ (rcStar \/ Returned(rcWatch)) /\ RcSettled)
        => rcOut = "raised" /\ ~ rcStar /\ pdHeld[pdLeader] = 0
=============================================================================
