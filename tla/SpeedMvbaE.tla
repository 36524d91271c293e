------------------------------ MODULE SpeedMvbaE -----------------------------
(***************************************************************************)
(* speedmvba (smvba_e) with its strong provable broadcasts (spbc_ec), as   *)
(* DispersedLedger and speedmvbacommonsubset run it.  Unlike smvba_e_cp it *)
(* kills no SPBC at the election, keeps one list of outputs for all rounds *)
(* and decides only on a HALT it receives, its own included.  Followed is  *)
(* the SPBC of the node elected in round 0; with N = 3f + 1 a node that    *)
(* prevotes has delivered all the others, so that in round 1 it has an     *)
(* output of the node elected there, the one of round 0.                   *)
(***************************************************************************)
EXTENDS Quorums

CONSTANT None

VARIABLES
    meLeader,    \* the nodes elected in rounds 0 and 1, as a pair
    mePhase,     \* where each node is: "spbc", "voting" in round 0, "again"
                 \* in round 1, "skipped" past its set up, "halted"
    meSpbc,      \* how far the SPBC of the node elected first is
    meSigned,    \* nodes that handled its READY: those with is_s1_delivered
    mePrevote,   \* each node's prevote of round 0
    meVote,      \* each node's vote of round 0
    meLost,      \* nodes whose vote_yes_msg a prevote set back to 0
    meSetUp,     \* nodes that broadcast with an SPBC of round 1
    meMsg,       \* what the node elected in round 1 broadcasts there
    meHalt       \* the HALT each node broadcast: the leader's message it has

meSpbcVars == <<meSpbc, meSigned>>
meVoteVars == <<mePrevote, meVote>>
meAgainVars == <<meSetUp, meMsg>>
meVars == <<meLeader, mePhase, meSpbcVars, meVoteVars, meLost, meAgainVars, meHalt>>

\* Bound: the two rounds elect different nodes.  Inputs are the nodes.
MeInit ==
    /\ meLeader \in {l \in Nodes \X Nodes : l[1] # l[2]}
    /\ mePhase = [p \in Nodes |-> "spbc"]
    /\ meSpbc = "SEND"
    /\ meSigned = {}
    /\ mePrevote = [p \in Nodes |-> None]
    /\ meVote = [p \in Nodes |-> None]
    /\ meLost = {}
    /\ meSetUp = {} /\ meMsg = None
    /\ meHalt = [p \in Nodes |-> None]
-----------------------------------------------------------------------------
(***************************************************************************)
(* The SPBC of the node elected in round 0, which goes on to the end.      *)
(***************************************************************************)
ReadyDue == meSpbc = "SEND"

MeReady ==
    /\ ReadyDue
    /\ meSpbc' = "READY"
    /\ UNCHANGED <<meLeader, mePhase, meSigned, meVoteVars, meLost, meAgainVars, meHalt>>

SignDue(p) == meSpbc # "SEND" /\ p \notin meSigned

MeSign(p) ==
    /\ SignDue(p)
    /\ meSigned' = meSigned \cup {p}
    /\ UNCHANGED <<meLeader, mePhase, meSpbc, meVoteVars, meLost, meAgainVars, meHalt>>

DoneDue == meSpbc = "READY" /\ meSigned \in Quorum

MeDone ==
    /\ DoneDue
    /\ meSpbc' = "DONE"
    /\ UNCHANGED <<meLeader, mePhase, meSigned, meVoteVars, meLost, meAgainVars, meHalt>>

\* DONE follows READY on the leader's link.
Deliverable(p) == meSpbc = "DONE" /\ p \in meSigned
-----------------------------------------------------------------------------
(***************************************************************************)
(* Round 0: the election, the prevotes and the votes.                      *)
(***************************************************************************)
\* The node broadcasts a HALT.  It decides on the first one it receives, its
\* own or another: what two nodes decide are HALTs.
SendHalt(p, halt) ==
    /\ mePhase' = [mePhase EXCEPT ![p] = "halted"]
    /\ meHalt' = [meHalt EXCEPT ![p] = halt]
    /\ meLost' = meLost \ {p}
    /\ UNCHANGED <<meLeader, meSpbcVars, meVoteVars, meAgainVars>>

FirstHalt == [value |-> meLeader[1], stale |-> FALSE]

Shortcut(p) == mePhase[p] = "spbc" /\ Deliverable(p) /\ SendHalt(p, FirstHalt)

PrevoteDue(p) == mePhase[p] = "spbc"

MePrevote(p) ==
    /\ PrevoteDue(p)
    /\ mePhase' = [mePhase EXCEPT ![p] = "voting"]
    /\ mePrevote' = [mePrevote EXCEPT ![p] = IF p \in meSigned THEN "yes" ELSE "no"]
    /\ UNCHANGED <<meLeader, meSpbcVars, meVote, meLost, meAgainVars, meHalt>>

MeWith(ballots, b) == {q \in Nodes : ballots[q] = b}

VoteDue(p, b) ==
    /\ mePhase[p] = "voting" /\ meVote[p] = None
    /\ \/ b = "yes" /\ MeWith(mePrevote, "yes") # {}
       \/ b = "no" /\ MeWith(mePrevote, "no") \in Quorum

MeVote(p, b) ==
    /\ VoteDue(p, b)
    /\ meVote' = [meVote EXCEPT ![p] = b]
    /\ UNCHANGED <<meLeader, mePhase, meSpbcVars, mePrevote, meLost, meAgainVars, meHalt>>

\* A prevote handled before the node votes, after a yes vote of a node whose
\* own prevote was no.
LoseYes(p) ==
    /\ mePhase[p] = "voting" /\ meVote[p] = None
    /\ \E q \in MeWith(meVote, "yes") \cap MeWith(mePrevote, "no") :
          \E x \in Nodes \ {q} : mePrevote[x] # None
    /\ meLost' = meLost \cup {p}
    /\ UNCHANGED <<meLeader, mePhase, meSpbcVars, meVoteVars, meAgainVars, meHalt>>

VotesIn(p) == mePhase[p] = "voting" /\ MeWith(meVote, "yes") \in Quorum

VotesHalt(p) == VotesIn(p) /\ SendHalt(p, FirstHalt)

EnterRound1(p, m) ==
    /\ mePhase' = [mePhase EXCEPT ![p] = "again"]
    /\ meLost' = meLost \ {p}
    /\ meSetUp' = meSetUp \cup {p}
    /\ meMsg' = IF p = meLeader[2] THEN m ELSE meMsg
    /\ UNCHANGED <<meLeader, meSpbcVars, meVoteVars, meHalt>>

NosIn(p) == mePhase[p] = "voting" /\ MeWith(meVote, "no") \in Quorum

NextAfterNo(p) == NosIn(p) /\ EnterRound1(p, p)

\* Mutation of YesNeeded: f + 1 yes votes are needed, all of them after a loss.
YesNeededMore(p) == IF p \in meLost THEN N ELSE F + 1

YesNeeded(p) == IF p \in meLost THEN 2 ELSE 1

\* Mutation of YesValue: the node goes on with its own input.
YesValueOwn(p) == p

\* vote_yes_msg[0]
YesValue(p) == meLeader[1]

\* With a yes and a no vote the value of the yes vote is carried on, if
\* vote_yes_msg is one.
BothIn(p) ==
    /\ mePhase[p] = "voting"
    /\ MeWith(meVote, "no") # {}
    /\ Cardinality(MeWith(meVote, "yes")) >= YesNeeded(p)

NextAfterBoth(p) == BothIn(p) /\ EnterRound1(p, YesValue(p))

\* ... and if it is 0, vote_yes_msg[0] raises after r was incremented: the vote
\* loop goes on, in round 1, without its broadcasts.
SkipDue(p) ==
    /\ mePhase[p] = "voting" /\ p \in meLost
    /\ \A b \in {"yes", "no"} : MeWith(meVote, b) # {}

Skip(p) ==
    /\ SkipDue(p)
    /\ mePhase' = [mePhase EXCEPT ![p] = "skipped"]
    /\ meLost' = meLost \ {p}
    /\ UNCHANGED <<meLeader, meSpbcVars, meVoteVars, meAgainVars, meHalt>>
-----------------------------------------------------------------------------
(***************************************************************************)
(* Round 1, and the HALTs.  All flags of round 0 still count, so that one  *)
(* more delivery sets the signal of the round, and the elected node has    *)
(* been delivered: every node halts.                                       *)
(***************************************************************************)
\* The output of the elected node is the one of round 0 ...
StaleHalt == [value |-> meLeader[2], stale |-> TRUE]

\* ... unless the broadcast that sets the signal is its own of round 1.
HaltWith(q) ==
    IF q = meLeader[2] THEN [value |-> meMsg, stale |-> FALSE] ELSE StaleHalt

SetUpsIn(p, q) == mePhase[p] = "again" /\ q \in meSetUp /\ meSetUp \in Quorum

ElectAgain(p, q) == SetUpsIn(p, q) /\ SendHalt(p, HaltWith(q))

\* The broadcast of round 0 sets the signal of round 1.
ElectOnOld(p) == mePhase[p] = "again" /\ Deliverable(p) /\ SendHalt(p, StaleHalt)

\* A HALT of another node decides, and is sent on.
HaltIn(p, q) == mePhase[p] # "halted" /\ meHalt[q] # None

ReceiveHalt(p, q) == HaltIn(p, q) /\ SendHalt(p, meHalt[q])

\* All but ElectOnOld.
MeSure(p) ==
    \/ MeReady
    \/ MeDone
    \/ MeSign(p)
    \/ Shortcut(p)
    \/ MePrevote(p)
    \/ \E b \in {"yes", "no"} : MeVote(p, b)
    \/ LoseYes(p)
    \/ VotesHalt(p)
    \/ NextAfterNo(p)
    \/ NextAfterBoth(p)
    \/ Skip(p)
    \/ \E q \in Nodes : ElectAgain(p, q) \/ ReceiveHalt(p, q)

MeNext == \E p \in Nodes : MeSure(p) \/ ElectOnOld(p)

MeSpec == MeInit /\ [][MeNext]_meVars
-----------------------------------------------------------------------------
(***************************************************************************)
(* Properties.                                                             *)
(***************************************************************************)
\* Two nodes halt with different values only because of what smvba_e keeps
\* running and what it keeps: a node signed the elected broadcast after it had
\* prevoted no, or a node halted in round 1 with an output of round 0.
MeAgreeUnlessStale ==
    \A p, q \in Nodes :
        \/ None \in {meHalt[p], meHalt[q]}
        \/ meHalt[p].value = meHalt[q].value
        \/ meHalt[p].stale \/ meHalt[q].stale
        \/ MeWith(mePrevote, "no") \cap meSigned # {}

\* No process can do anything any more but ElectOnOld, which a node cannot count
\* on: the broadcast of round 0 may be delivered while it votes, and set the
\* signal of the round that is over.  (LoseYes is due only to nodes that may vote.)
MeSettled ==
    /\ ~ ReadyDue /\ ~ DoneDue
    /\ \A p \in Nodes :
          /\ ~ SignDue(p) /\ ~ PrevoteDue(p)
          /\ \A b \in {"yes", "no"} : ~ VoteDue(p, b)
          /\ ~ VotesIn(p) /\ ~ NosIn(p) /\ ~ BothIn(p) /\ ~ SkipDue(p)
          /\ \A q \in Nodes : ~ SetUpsIn(p, q) /\ ~ HaltIn(p, q)

\* Only exceptions make nodes wait for ever: with at most f nodes that skipped
\* the set up of round 1 everyone halts.
MeHaltsUnlessSkipped ==
    MeSettled =>
        \/ \A p \in Nodes : mePhase[p] = "halted"
        \/ Cardinality(MeWith(mePhase, "skipped")) > F
=============================================================================
