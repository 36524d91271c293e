-------------------------- MODULE MCDissemination ---------------------------
(***************************************************************************)
(* The components that disseminate blocks and order them on a fast path,   *)
(* each checked by TLC on its own: a behaviour is one of one of the        *)
(* components, and the others have no state.                               *)
(***************************************************************************)
EXTENDS Quorums, TLC

CONSTANTS
    NwPriority, NwMaxTx, NwMaxCrash, NgMaxRound, NgMaxCrash, DlMaxCrash,
    CsMaxCrash, SfSlots, SfStatFrom, SfMuteFrom, BkSlots, None

ASSUME DisseminationAssumption ==
    /\ NwMaxTx \in Nat \ {0}
    /\ NwMaxCrash \in 0 .. F
    /\ NgMaxRound \in Nat
    /\ DlMaxCrash \in 0 .. F
    /\ CsMaxCrash \in 0 .. F
    /\ SfSlots \in Nat \ {0} /\ SfMuteFrom \in Nat /\ SfStatFrom \in Nat
    /\ None \notin BOOLEAN /\ None \notin {"yes", "no"}
    /\ None \notin [Nodes -> 0 .. NgMaxRound]
    /\ None \notin {0, 1}
    /\ None \notin [value : Nodes \cup {None}, stale : BOOLEAN]
    /\ None \notin [slot : Nat, batch : {"new", "old", "first", "again"}, sigma : Nat]

VARIABLES
    running, \* the component this behaviour is of
    nwLeader, nwSupply, nwProposed, nwGot, nwAgain, nwSlot, nwVoters,
    nwStopped, nwDeaf, nwCrashed,
    ngSource, ngDead, ngGrown, ngOut, ngEpoch, ngRunning, ngCuts,
    dlLeader, dlWatch, dlChunk, dlEchoes, dlOut, dlDecided, dlEnded,
    dlReturns, dlGot, dlUp, dlLost,
    csBroadcast, csHas, csVal, csVector, csReturned, csCrashed,
    sfRun, sfLeader, sfMuted, sfSupply, sfSlot, sfVotes, sfVoters, sfQueued,
    sfProposed, sfMode, sfFirst, sfBolt, sfBoltVotes, sfStats,
    bkLeader, bkHolds, bkOkers, bkSlot, bkChain, bkNotar, bkFixed, bkVotes,
    bkVoters, bkFlag, bkLate, bkSent, bkHandled, bkItem, bkDeaf,
    meLeader, mePhase, meSpbc, meSigned, mePrevote, meVote, meLost, meSetUp,
    meMsg, meHalt

Nw == INSTANCE NwAbc
Ng == INSTANCE DumboNg
Dl == INSTANCE DispersedLedger
Cs == INSTANCE DumboCommonSubset
Sf == INSTANCE SuperFallback
Bk == INSTANCE Bolt
Me == INSTANCE SpeedMvbaE

Components == {"Nw", "Ng", "Dl", "Cs", "Sf", "Bk", "Me"}

NwState == <<nwLeader, nwSupply, nwProposed, nwGot, nwAgain, nwSlot,
             nwVoters, nwStopped, nwDeaf, nwCrashed>>
NgState == <<ngSource, ngDead, ngGrown, ngOut, ngEpoch, ngRunning, ngCuts>>
DlState == <<dlLeader, dlWatch, dlChunk, dlEchoes, dlOut, dlDecided,
             dlEnded, dlReturns, dlGot, dlUp, dlLost>>
CsState == <<csBroadcast, csHas, csVal, csVector, csReturned, csCrashed>>
SfState == <<sfRun, sfLeader, sfMuted, sfSupply, sfSlot, sfVotes, sfVoters,
             sfQueued, sfProposed, sfMode, sfFirst, sfBolt, sfBoltVotes,
             sfStats>>
BkState == <<bkLeader, bkHolds, bkOkers, bkSlot, bkChain, bkNotar, bkFixed,
             bkVotes, bkVoters, bkFlag, bkLate, bkSent, bkHandled, bkItem,
             bkDeaf>>
MeState == <<meLeader, mePhase, meSpbc, meSigned, mePrevote, meVote, meLost,
             meSetUp, meMsg, meHalt>>

\* The variables of a component that is not running hold nothing.
NwIdle == nwLeader = None /\ nwSupply = None /\ nwProposed = None /\
          nwGot = None /\ nwAgain = None /\ nwSlot = None /\
          nwVoters = None /\ nwStopped = None /\ nwDeaf = None /\
          nwCrashed = None
NgIdle == ngSource = None /\ ngDead = None /\ ngGrown = None /\
          ngOut = None /\ ngEpoch = None /\ ngRunning = None /\
          ngCuts = None
DlIdle == dlLeader = None /\ dlWatch = None /\ dlChunk = None /\
          dlEchoes = None /\ dlOut = None /\ dlDecided = None /\
          dlEnded = None /\ dlReturns = None /\ dlGot = None /\
          dlUp = None /\ dlLost = None
CsIdle == csBroadcast = None /\ csHas = None /\ csVal = None /\
          csVector = None /\ csReturned = None /\ csCrashed = None
SfIdle == sfRun = None /\ sfLeader = None /\ sfMuted = None /\
          sfSupply = None /\ sfSlot = None /\ sfVotes = None /\
          sfVoters = None /\ sfQueued = None /\ sfProposed = None /\
          sfMode = None /\ sfFirst = None /\ sfBolt = None /\
          sfBoltVotes = None /\ sfStats = None
BkIdle == bkLeader = None /\ bkHolds = None /\ bkOkers = None /\
          bkSlot = None /\ bkChain = None /\ bkNotar = None /\
          bkFixed = None /\ bkVotes = None /\ bkVoters = None /\
          bkFlag = None /\ bkLate = None /\ bkSent = None /\
          bkHandled = None /\ bkItem = None /\ bkDeaf = None
MeIdle == meLeader = None /\ mePhase = None /\ meSpbc = None /\
          meSigned = None /\ mePrevote = None /\ meVote = None /\
          meLost = None /\ meSetUp = None /\ meMsg = None /\ meHalt = None

Init ==
    /\ running \in Components
    /\ IF running = "Nw" THEN Nw!NwInit ELSE NwIdle
    /\ IF running = "Ng" THEN Ng!NgInit ELSE NgIdle
    /\ IF running = "Dl" THEN Dl!DlInit ELSE DlIdle
    /\ IF running = "Cs" THEN Cs!CsInit ELSE CsIdle
    /\ IF running = "Sf" THEN Sf!SfInit ELSE SfIdle
    /\ IF running = "Bk" THEN Bk!BkInit ELSE BkIdle
    /\ IF running = "Me" THEN Me!MeInit ELSE MeIdle

Next ==
    \/ /\ running = "Nw" /\ Nw!NwNext
       /\ UNCHANGED <<running, NgState, DlState, CsState, SfState, BkState,
                      MeState>>
    \/ /\ running = "Ng" /\ Ng!NgNext
       /\ UNCHANGED <<running, NwState, DlState, CsState, SfState, BkState,
                      MeState>>
    \/ /\ running = "Dl" /\ Dl!DlNext
       /\ UNCHANGED <<running, NwState, NgState, CsState, SfState, BkState,
                      MeState>>
    \/ /\ running = "Cs" /\ Cs!CsNext
       /\ UNCHANGED <<running, NwState, NgState, DlState, SfState, BkState,
                      MeState>>
    \/ /\ running = "Sf" /\ Sf!SfNext
       /\ UNCHANGED <<running, NwState, NgState, DlState, CsState, BkState,
                      MeState>>
    \/ /\ running = "Bk" /\ Bk!BkNext
       /\ UNCHANGED <<running, NwState, NgState, DlState, CsState, SfState,
                      MeState>>
    \/ /\ running = "Me" /\ Me!MeNext
       /\ UNCHANGED <<running, NwState, NgState, DlState, CsState, SfState,
                      BkState>>

vars == <<running, NwState, NgState, DlState, CsState, SfState, BkState, MeState>>

Spec == Init /\ [][Next]_vars

Symmetry == Permutations(Nodes)

-----------------------------------------------------------------------------
\* With a live leader every round is output in the end, and a round that is
\* output survives its leader.
NwDelivers == running = "Nw" => Nw!NwDelivers

\* N - f nodes hold the block at which an epoch cuts the source.
CutHeld == running = "Ng" => Ng!CutHeld

\* The epochs go on, unless a cut needs a block the dead source kept from a
\* node.
EpochsGoOn == running = "Ng" => Ng!EpochsGoOn

\* A decided block is decoded at every live node.
DlRetrieved == running = "Dl" => Dl!DlRetrieved

\* No crash keeps a node of Dumbo from its subset.
SubsetReturned == running = "Cs" => Cs!SubsetReturned

\* No time-out of a fast path of BDT+ loses a fixed block.
FallbackKeepsFixed == running = "Sf" => Sf!FallbackKeepsFixed

\* The wait for the fast path of BDT+ or its view change ends but for the
\* reasons the component lists.
WaitsExplained == running = "Sf" => Sf!WaitsExplained

\* The notarized blocks of bolt form one chain, from which no fixed block is
\* lost.
BoltKeepsChain == running = "Bk" => Bk!BoltKeepsChain

\* Nodes of DispersedLedger disagree on a round only for the reasons the
\* component lists.
MeAgreeUnlessStale == running = "Me" => Me!MeAgreeUnlessStale

\* A node of DispersedLedger waits for ever only after more than f nodes ran
\* into the exception.
MeHaltsUnlessSkipped == running = "Me" => Me!MeHaltsUnlessSkipped
=============================================================================
