------------------------------ MODULE DumboRound ------------------------------
(***************************************************************************)
(* The rounds of Dumbo: run_bft, the biased binary agreement of the leader *)
(* whose value is taken (baisedbinaryagreement), and honeybadger_block,    *)
(* which exchanges decryption shares and returns with f + 1 of them.  A    *)
(* node that returns kills the loop that hands out the round's messages    *)
(* and goes on to the next round.  What comes before the agreement is one  *)
(* step.  Of the agreement, it matters how many of its broadcasts a node   *)
(* has made: EST, AUX and CONF of round 0, of round 1, and so on.          *)
(***************************************************************************)
EXTENDS Quorums

CONSTANTS
    DrRounds,   \* K: how many rounds of Dumbo are run
    DrBaRounds  \* bound: rounds of an agreement, the coin of the last is 1

VARIABLES
    drMuted,  \* the nodes that sleep if mute is set: f of them, or none
    drCoin,   \* the cheap coins, bits of a hash of the session
    drRound,  \* round of each node
    drSent,   \* the broadcasts of the agreement of each round made by each node
    drState,  \* where the node is in its agreement
    drShared  \* nodes that broadcast their decryption shares, per round

drVars == <<drMuted, drCoin, drRound, drSent, drState, drShared>>

DrSids == 0 .. DrRounds - 1
DrLast == DrBaRounds - 1

\* Bound: no node comes out of round 0 of an agreement with 0 alone, so that
\* from round 1 on all estimates are the coin of round 0, which is 1.
DrInit ==
    /\ drMuted \in {S \in SUBSET Nodes : Cardinality(S) \in {0, F}}
    /\ drCoin \in {c \in [DrSids -> [0 .. DrLast -> {0, 1}]] :
                      \A k \in DrSids : c[k][0] = 1 /\ c[k][DrLast] = 1}
    /\ drRound = [p \in Nodes |-> 0]
    /\ drSent = [k \in DrSids |-> [p \in Nodes |-> 0]]
    /\ drState = [p \in Nodes |-> "open"]
    /\ drShared = [k \in DrSids |-> {}]
-----------------------------------------------------------------------------
\* The node is in round k and its broadcast_receiver_loop runs.
Handles(p, k) == p \notin drMuted /\ drRound[p] = k

Entered(k) == {q \in Nodes \ drMuted : drRound[q] >= k}

Made(k, m) == {q \in Nodes : drSent[k][q] >= m}

Broadcasts(p, k) == drSent' = [drSent EXCEPT ![k][p] = @ + 1]

\* PRBCs, CBCs and ballots take N - f nodes that came to the round; then the
\* agreement starts with an EST.
BallotsIn(p, k) == Handles(p, k) /\ drSent[k][p] = 0 /\ Entered(k) \in Quorum

EnterBa(p, k) ==
    /\ BallotsIn(p, k)
    /\ Broadcasts(p, k)
    /\ UNCHANGED <<drMuted, drCoin, drRound, drState, drShared>>

\* Mutation of BaNeeded: all nodes are waited for.
BaNeededAll == {Nodes}

\* 2f + 1 ESTs, N - f AUXs, N - f CONFs.
BaNeeded == Quorum

Heard(k, m) == \E Q \in BaNeeded : Q \subseteq Made(k, m)

\* AUX follows the ESTs, and CONF the AUXs.
BroadcastDue(p, k) ==
    LET m == drSent[k][p] IN
    /\ Handles(p, k) /\ drState[p] # "quit"
    /\ m % 3 # 0 /\ Heard(k, m)

NextBroadcast(p, k) ==
    /\ BroadcastDue(p, k)
    /\ Broadcasts(p, k)
    /\ UNCHANGED <<drMuted, drCoin, drRound, drState, drShared>>

\* set_new_estimate, after the CONFs of a round: one is whether values = {1},
\* which from round 1 on they are.
BaRoundOver(p, k) ==
    LET m == drSent[k][p] IN
    /\ Handles(p, k) /\ drState[p] # "quit"
    /\ m > 0 /\ m % 3 = 0 /\ m \div 3 <= DrBaRounds
    /\ Heard(k, m)

EndBaRound(p, k, one) ==
    LET r    == (drSent[k][p] \div 3) - 1
        coin == drCoin[k][r]
    IN
    /\ BaRoundOver(p, k)
    /\ r > 0 \/ drState[p] # "open" => one
    /\ IF one /\ coin = 1 /\ drState[p] = "decided"
       THEN drState' = [drState EXCEPT ![p] = "quit"] /\ UNCHANGED drSent
       ELSE /\ Broadcasts(p, k)
            /\ drState' = [drState EXCEPT ![p] = IF one /\ coin = 1 THEN "decided" ELSE @]
    /\ UNCHANGED <<drMuted, drCoin, drRound, drShared>>

\* The common subset is there: the node broadcasts its shares.
ShareDue(p, k) == Handles(p, k) /\ drState[p] # "open" /\ p \notin drShared[k]

Share(p, k) ==
    /\ ShareDue(p, k)
    /\ drShared' = [drShared EXCEPT ![k] = @ \cup {p}]
    /\ UNCHANGED <<drMuted, drCoin, drRound, drSent, drState>>

\* f + 1 shares are in: the receiver loop is killed, and the next round begins.
SharesIn(p, k) ==
    /\ Handles(p, k) /\ p \in drShared[k]
    /\ Cardinality(drShared[k]) >= F + 1

Leave(p, k) ==
    /\ SharesIn(p, k)
    /\ drRound' = [drRound EXCEPT ![p] = k + 1]
    /\ drState' = [drState EXCEPT ![p] = "open"]
    /\ UNCHANGED <<drMuted, drCoin, drSent, drShared>>

DrNext ==
    \E p \in Nodes, k \in DrSids :
        \/ EnterBa(p, k)
        \/ NextBroadcast(p, k)
        \/ \E one \in BOOLEAN : EndBaRound(p, k, one)
        \/ Share(p, k)
        \/ Leave(p, k)

DrSpec == DrInit /\ [][DrNext]_drVars
-----------------------------------------------------------------------------
(***************************************************************************)
(* Properties.                                                             *)
(***************************************************************************)
\* No node can do anything any more.
DrSettled ==
    \A p \in Nodes, k \in DrSids :
        /\ ~ BallotsIn(p, k) /\ ~ BroadcastDue(p, k) /\ ~ BaRoundOver(p, k)
        /\ ~ ShareDue(p, k) /\ ~ SharesIn(p, k)

\* "It takes an input vi and will finally write the decided value into decide
\* channel": unless nodes are killed out of it.  When nothing can happen any
\* more, all nodes have run their rounds, or more than f nodes left the round
\* of one they, or the coins, still kept waiting: it is stuck, and with it all
\* the others, even if none is mute.
DrStuckOnlyByLeaving ==
    DrSettled =>
        \/ \A p \in Nodes \ drMuted : drRound[p] = DrRounds
        \/ \E k \in DrSids, p \in Nodes \ drMuted :
              /\ drRound[p] = k
              /\ Cardinality(drMuted \cup {q \in Nodes : drRound[q] > k}) > F
=============================================================================
