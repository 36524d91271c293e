------------------------------ MODULE DumboMvba ------------------------------
(***************************************************************************)
(* dumbo_mvba: a node waits for all N dispersals to return, then an        *)
(* exchange of DONE, READY and FINISH (quitPD) lets it kill them, a coin   *)
(* elects a leader, RCBALLOTPREPARE tells whether its lock is known and a  *)
(* binary agreement whether its value is recast.  ProvableDispersal and    *)
(* Recast model the dispersal and the recast themselves.                   *)
(***************************************************************************)
EXTENDS Quorums

CONSTANT DmMaxCrash

VARIABLES
    dmPhase,   \* how far dumbo_mvba is
    dmBare,    \* the elected leader, if it has no lock of its own
    dmReady,   \* nodes whose quitPD has broadcast READY
    dmFinish,  \* nodes whose quitPD has broadcast FINISH
    dmUp,      \* nodes that have not crashed
    dmLost     \* nodes the messages under way of a crashed node do not reach

dmQuit == <<dmReady, dmFinish>>
dmFaults == <<dmUp, dmLost>>
dmVars == <<dmPhase, dmBare, dmQuit, dmFaults>>

\* The phases: waiting for the dispersals, quitPD, the coin and RCprepare, the
\* binary agreement, the recast.
InPds == 0
InQuit == 1
InElection == 2
InAba == 3
InRecast == 4

\* A leader's dispersal returns without its own lock on the 2f + 1 LOCKED of others.
DmInit ==
    /\ dmPhase = [p \in Nodes |-> InPds]
    /\ dmBare \in {{}} \cup {{p} : p \in Nodes}
    /\ dmBare # {} => N - 1 >= 2 * F + 1
    /\ dmReady = {}
    /\ dmFinish = {}
    /\ dmUp = Nodes
    /\ dmLost = {}
-----------------------------------------------------------------------------
DmAt(p, phase) == p \in dmUp /\ dmPhase[p] = phase
DmGoTo(p, phase) == dmPhase' = [dmPhase EXCEPT ![p] = phase]
Past(phase) == {p \in Nodes : dmPhase[p] >= phase}

\* The nodes of S whose messages p has or will have.
Heard(p, S) == {q \in S : q \in dmUp \/ p \notin dmLost}

\* wait_for_pd_to_continue: the dispersals of all N leaders have returned, and
\* DONE goes to every node.  They may have returned when a node crashes, and
\* are sure to only while none has.
PdsMayReturn(p) == DmAt(p, InPds)
PdsDue(p) == PdsMayReturn(p) /\ dmUp = Nodes

StartQuit(p) ==
    /\ PdsMayReturn(p)
    /\ DmGoTo(p, InQuit)
    /\ UNCHANGED <<dmBare, dmQuit, dmFaults>>

\* quitPD: N - f DONE, then READY.
ReadyDue(p) ==
    /\ DmAt(p, InQuit) /\ p \notin dmReady
    /\ Cardinality(Heard(p, Past(InQuit))) >= N - F

SendReady(p) ==
    /\ ReadyDue(p)
    /\ dmReady' = dmReady \cup {p}
    /\ UNCHANGED <<dmPhase, dmBare, dmFinish, dmFaults>>

\* quitPD: f + 1 READY, then FINISH.
FinishDue(p) ==
    /\ DmAt(p, InQuit) /\ p \notin dmFinish
    /\ Cardinality(Heard(p, dmReady)) >= F + 1

SendFinish(p) ==
    /\ FinishDue(p)
    /\ dmFinish' = dmFinish \cup {p}
    /\ UNCHANGED <<dmPhase, dmBare, dmReady, dmFaults>>

\* quitPD: FINISH ends it.  A node that has not sent its own passes it on, but
\* not serialized, so that it never leaves the node.
FinishIn(p) == DmAt(p, InQuit) /\ Heard(p, dmFinish) # {}

EndQuit(p) ==
    /\ FinishIn(p)
    /\ DmGoTo(p, InElection)
    /\ UNCHANGED <<dmBare, dmQuit, dmFaults>>

\* Mutation of LockIn: the lock of the node itself decides.
LockInAlone(p) ==
    /\ DmAt(p, InElection) /\ p \notin dmBare
    /\ Cardinality(Heard(p, Past(InElection))) >= F + 1

\* The coin takes f + 1 shares.  RCprepare ends with the first lock that comes:
\* as all dispersals returned, only the leader may be without one, so that the
\* 2f + 1 empty ballots for the other outcome never come.
LockIn(p) ==
    LET heard == Heard(p, Past(InElection)) IN
    /\ DmAt(p, InElection)
    /\ Cardinality(heard) >= F + 1
    /\ heard \ dmBare # {}

Prepare(p) ==
    /\ LockIn(p)
    /\ DmGoTo(p, InAba)
    /\ UNCHANGED <<dmBare, dmQuit, dmFaults>>

\* The binary agreement, all of whose inputs are 1, needs N - f nodes.
AbaIn(p) == DmAt(p, InAba) /\ Cardinality(Heard(p, Past(InAba))) >= N - F

AbaDecides(p) ==
    /\ AbaIn(p)
    /\ DmGoTo(p, InRecast)
    /\ UNCHANGED <<dmBare, dmQuit, dmFaults>>

\* A node stops; what it sent may be lost on the way to some nodes.
DmCrash(p, lost) ==
    /\ p \in dmUp /\ Cardinality(Nodes \ dmUp) < DmMaxCrash
    /\ dmUp' = dmUp \ {p}
    /\ dmLost' = lost
    /\ UNCHANGED <<dmPhase, dmBare, dmQuit>>

DmStep(p) ==
    \/ StartQuit(p)
    \/ SendReady(p)
    \/ SendFinish(p)
    \/ EndQuit(p)
    \/ Prepare(p)
    \/ AbaDecides(p)

DmNext ==
    \E p \in Nodes :
        \/ DmStep(p)
        \/ \E lost \in SUBSET (Nodes \ {p}) : DmCrash(p, lost)

DmSpec == DmInit /\ [][DmNext]_dmVars
-----------------------------------------------------------------------------
(***************************************************************************)
(* Properties.                                                             *)
(***************************************************************************)
\* No node can do anything any more.
DmSettled ==
    \A p \in Nodes :
        /\ ~ PdsDue(p) /\ ~ ReadyDue(p) /\ ~ FinishDue(p) /\ ~ FinishIn(p)
        /\ ~ LockIn(p) /\ ~ AbaIn(p)

\* Without a crash, or once every live node is past the dispersals and one has
\* broadcast FINISH of its own, every live node comes to the recast, although
\* nodes leave quitPD without READY and the leader may have no lock.
DmComesToRecast ==
    DmSettled /\ (dmUp = Nodes \/ (dmUp \subseteq Past(InQuit) /\ dmFinish \cap dmUp # {}))
        => dmUp \subseteq Past(InRecast)
=============================================================================
