---------------------------- MODULE MCAgreement -----------------------------
(***************************************************************************)
(* The agreement protocols and what is built on them, each checked by TLC  *)
(* on its own: a behaviour is one of one of the components, and the others *)
(* have no state.                                                          *)
(***************************************************************************)
EXTENDS Quorums, TLC

CONSTANTS
    BaMixedLast, \* bound: the last coin used of agreements with any inputs
    BaEqualLast, \* bound: ... and of those with equal ones
    VaMaxCrash, MvRounds, MvElections, PdMaxCrash, DmMaxCrash, DrRounds, DrBaRounds,
    HbMaxCrash, EdEpochs, None

ASSUME AgreementsAssumption ==
    /\ BaMixedLast \in Nat /\ BaEqualLast \in Nat
    /\ {VaMaxCrash, PdMaxCrash, DmMaxCrash, HbMaxCrash} \subseteq 0 .. F
    /\ 0 \in MvRounds /\ MvRounds \subseteq Nat
    /\ DrRounds \in Nat /\ DrBaRounds \in Nat \ {0, 1}
    /\ EdEpochs \in Nat \ {0}
    /\ None \notin Nodes \cup {0, 1, 2} /\ None \notin {"yes", "no", "value", "raised"}

VARIABLES
    running, \* the component this behaviour is of
    baScope, baInput, baRound, baPc, baEst, baBin, baAux, baConf, baValues,
    baShared, baCoin, baDecision, baQuit,
    vaLeader, vaPhase, vaFinal, vaDelivered, vaCommit, vaCommitted, vaSeen,
    vaVote, vaDropped, vaInput, vaAba, vaHolds, vaCrashed,
    mvLeader, mvRound, mvPhase, mvMsg, mvSpbc, mvSigned, mvS1, mvDelivered,
    mvPrevote, mvVote, mvDecision,
    pdLeader, pdHeld, pdStored, pdLocked, pdUp, pdLost, rcStar, rcWatch,
    rcIn, rcCount, rcOut,
    dmPhase, dmBare, dmReady, dmFinish, dmUp, dmLost,
    drMuted, drCoin, drRound, drSent, drState, drShared,
    hbSlow, hbEcho, hbReady, hbGot, hbOthers, hbIn, hbDecided, hbReturned,
    hbCrashed, hbCut,
    edKind, edTip, edEpoch, edWhere, edSlot, edInput, edDecision, edStarted,
    edShared, edPaid, edLost

\* Inputs that are equal allow for more rounds.
BaScopes == {<<BaMixedLast, {0, 1}>>, <<BaEqualLast, {0}>>, <<BaEqualLast, {1}>>}

Ba == INSTANCE BinaryAgreement
Va == INSTANCE ValidatedAgreement
Mv == INSTANCE SpeedMvba
Rc == INSTANCE Recast
Dm == INSTANCE DumboMvba
Dr == INSTANCE DumboRound
Hb == INSTANCE HoneyBadgerSubset
Ed == INSTANCE EpochDrivers

BaState == <<baScope, baInput, baRound, baPc, baEst, baBin, baAux, baConf,
             baValues, baShared, baCoin, baDecision, baQuit>>
VaState == <<vaLeader, vaPhase, vaFinal, vaDelivered, vaCommit, vaCommitted,
             vaSeen, vaVote, vaDropped, vaInput, vaAba, vaHolds, vaCrashed>>
MvState == <<mvLeader, mvRound, mvPhase, mvMsg, mvSpbc, mvSigned, mvS1,
             mvDelivered, mvPrevote, mvVote, mvDecision>>
RcState == <<pdLeader, pdHeld, pdStored, pdLocked, pdUp, pdLost, rcStar,
             rcWatch, rcIn, rcCount, rcOut>>
DmState == <<dmPhase, dmBare, dmReady, dmFinish, dmUp, dmLost>>
DrState == <<drMuted, drCoin, drRound, drSent, drState, drShared>>
HbState == <<hbSlow, hbEcho, hbReady, hbGot, hbOthers, hbIn, hbDecided,
             hbReturned, hbCrashed, hbCut>>
EdState == <<edKind, edTip, edEpoch, edWhere, edSlot, edInput, edDecision,
             edStarted, edShared, edPaid, edLost>>

\* The variables of a component that is not running hold nothing.
BaIdle == baScope = None /\ baInput = None /\ baRound = None /\
          baPc = None /\ baEst = None /\ baBin = None /\ baAux = None /\
          baConf = None /\ baValues = None /\ baShared = None /\
          baCoin = None /\ baDecision = None /\ baQuit = None
VaIdle == vaLeader = None /\ vaPhase = None /\ vaFinal = None /\
          vaDelivered = None /\ vaCommit = None /\ vaCommitted = None /\
          vaSeen = None /\ vaVote = None /\ vaDropped = None /\
          vaInput = None /\ vaAba = None /\ vaHolds = None /\
          vaCrashed = None
MvIdle == mvLeader = None /\ mvRound = None /\ mvPhase = None /\
          mvMsg = None /\ mvSpbc = None /\ mvSigned = None /\ mvS1 = None /\
          mvDelivered = None /\ mvPrevote = None /\ mvVote = None /\
          mvDecision = None
RcIdle == pdLeader = None /\ pdHeld = None /\ pdStored = None /\
          pdLocked = None /\ pdUp = None /\ pdLost = None /\
          rcStar = None /\ rcWatch = None /\ rcIn = None /\
          rcCount = None /\ rcOut = None
DmIdle == dmPhase = None /\ dmBare = None /\ dmReady = None /\
          dmFinish = None /\ dmUp = None /\ dmLost = None
DrIdle == drMuted = None /\ drCoin = None /\ drRound = None /\
          drSent = None /\ drState = None /\ drShared = None
HbIdle == hbSlow = None /\ hbEcho = None /\ hbReady = None /\
          hbGot = None /\ hbOthers = None /\ hbIn = None /\
          hbDecided = None /\ hbReturned = None /\ hbCrashed = None /\
          hbCut = None
EdIdle == edKind = None /\ edTip = None /\ edEpoch = None /\
          edWhere = None /\ edSlot = None /\ edInput = None /\
          edDecision = None /\ edStarted = None /\ edShared = None /\
          edPaid = None /\ edLost = None

Init ==
    /\ running \in {"Ba", "Va", "Mv", "Rc", "Dm", "Dr", "Hb", "Ed"}
    /\ IF running = "Ba" THEN Ba!BaInit ELSE BaIdle
    /\ IF running = "Va" THEN Va!VaInit ELSE VaIdle
    /\ IF running = "Mv" THEN Mv!MvInit ELSE MvIdle
    /\ IF running = "Rc" THEN Rc!RcInit ELSE RcIdle
    /\ IF running = "Dm" THEN Dm!DmInit ELSE DmIdle
    /\ IF running = "Dr" THEN Dr!DrInit ELSE DrIdle
    /\ IF running = "Hb" THEN Hb!HbInit ELSE HbIdle
    /\ IF running = "Ed" THEN Ed!EdInit ELSE EdIdle

Next ==
    \/ /\ running = "Ba" /\ Ba!BaNext
       /\ UNCHANGED <<running, VaState, MvState, RcState, DmState, DrState,
                      HbState, EdState>>
    \/ /\ running = "Va" /\ Va!VaNext
       /\ UNCHANGED <<running, BaState, MvState, RcState, DmState, DrState,
                      HbState, EdState>>
    \/ /\ running = "Mv" /\ Mv!MvNext
       /\ UNCHANGED <<running, BaState, VaState, RcState, DmState, DrState,
                      HbState, EdState>>
    \/ /\ running = "Rc" /\ Rc!RcNext
       /\ UNCHANGED <<running, BaState, VaState, MvState, DmState, DrState,
                      HbState, EdState>>
    \/ /\ running = "Dm" /\ Dm!DmNext
       /\ UNCHANGED <<running, BaState, VaState, MvState, RcState, DrState,
                      HbState, EdState>>
    \/ /\ running = "Dr" /\ Dr!DrNext
       /\ UNCHANGED <<running, BaState, VaState, MvState, RcState, DmState,
                      HbState, EdState>>
    \/ /\ running = "Hb" /\ Hb!HbNext
       /\ UNCHANGED <<running, BaState, VaState, MvState, RcState, DmState,
                      DrState, EdState>>
    \/ /\ running = "Ed" /\ Ed!EdNext
       /\ UNCHANGED <<running, BaState, VaState, MvState, RcState, DmState,
                      DrState, HbState>>

vars == <<running, BaState, VaState, MvState, RcState, DmState, DrState, HbState,
          EdState>>

Spec == Init /\ [][Next]_vars

Symmetry == Permutations(Nodes)

(***************************************************************************)
(* Three constraints on the order of steps.  Each fixes when a step is     *)
(* taken that has no effect on the others there, and so keeps every state  *)
(* in which nothing is left to do, up to the variable named last.          *)
(***************************************************************************)
\* validatedagreement: ballots are thrown away only when nothing is left to do
\* but to count them.  A node that does so earlier and then counts others could
\* have kept them as well.
DropsLast ==
    running = "Va" /\ (\E p \in Nodes : vaPhase[p] = "ballot" /\ vaDropped'[p] # vaDropped[p]
                                          /\ vaPhase'[p] = "ballot") =>
        /\ ~ Va!LeaderEchoed
        /\ \A p \in Nodes :
              /\ ~ Va!CbcArrives(p) /\ ~ Va!CbcsDelivered(p)
              /\ ~ Va!ListEchoed(p) /\ ~ Va!OutputIn(p)
              /\ \A seen \in SUBSET vaCommitted : ~ Va!ListsDelivered(p, seen)
        /\ \A b \in Va!Bits : ~ Va!AbaMayDecide(b)

\* A certificate that comes after the node has voted is delivered at once: it only
\* fills cbc_outputs, read when the agreement has decided (vaDelivered).
LateCertificatesFirst ==
    running = "Va" =>
        LET late == {p \in Nodes : vaVote[p] # None /\ Va!CbcArrives(p)}
        IN  late = {} \/ late \cap (vaDelivered' \ vaDelivered) # {}

\* Recast: STORED beyond the 2f + 1 that make the lock is handled at once, as the
\* leader does not look at it (pdStored).
UselessStoredFirst ==
    running = "Rc" /\ Rc!LockSent /\ ~ Rc!Returned(pdLeader) =>
        LET useless == {p \in Nodes \ pdStored : pdHeld[p] > 0 /\ Rc!Arrives(p, pdLeader)}
        IN  useless = {} \/ useless \cap pdStored' # {}

-----------------------------------------------------------------------------
\* No two nodes decide differently, whatever the coins, and nothing is
\* decided that f + 1 nodes did not input.
BaAgreement == running = "Ba" => Ba!BaAgreement

\* Only a node that has decided may wait for ever in a binary agreement.
OnlyDecidedWait == running = "Ba" => Ba!OnlyDecidedWait

\* The leader f + 1 commits name is the one whose value is output.
CommittedLeaderWins == running = "Va" => Va!CommittedLeaderWins

\* The iteration ends at every live node.
IterationEnds == running = "Va" => Va!IterationEnds

\* What N - f votes decided is carried to the next round, and who halts
\* without votes has a leader N - f nodes signed for.
HaltsLeaveTheirMark == running = "Mv" => Mv!HaltsLeaveTheirMark

\* A value whose recast has started is recovered.
RcRecovers == running = "Rc" => Rc!RcRecovers

\* Every live node comes to the recast.
DmComesToRecast == running = "Dm" => Dm!DmComesToRecast

\* A round of Dumbo is stuck only if more than f nodes have left it.
DrStuckOnlyByLeaving == running = "Dr" => Dr!DrStuckOnlyByLeaving

\* Nodes that are behind wait for agreements, not for nodes that went on.
LaggardsWaitInAgreements == running = "Ed" => Ed!LaggardsWaitInAgreements

\* No crash keeps a node of HoneyBadger from its subset.
HoneyBadgerReturns == running = "Hb" => Hb!HoneyBadgerReturns
=============================================================================
