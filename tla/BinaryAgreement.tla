--------------------------- MODULE BinaryAgreement ---------------------------
(***************************************************************************)
(* binaryagreement: binary agreement from [MMR14] with a CONF phase, on    *)
(* the coin of commoncoin.  As in TwoValueAgreement a greenlet relays EST  *)
(* and collects bin values while the main loop runs the rounds; unlike     *)
(* there, CONFs count when they carry a subset of the bin values, and      *)
(* there is no FINISH: a node that meets its decided value a second time   *)
(* quits.  Messages are kept by their senders; a node may act on any of    *)
(* those sent to it.                                                       *)
(***************************************************************************)
EXTENDS Quorums

CONSTANTS
    BaScopes,  \* bounds: pairs of the last round whose coin is used and the
               \* set of inputs, one of which a behaviour keeps to
    None

VARIABLES
    baScope,     \* the bound of this behaviour
    baInput,     \* vi
    baRound,     \* r
    baPc,        \* where the main loop blocks
    baEst,       \* est_sent: the values sent as ('EST', r, v)
    baBin,       \* bin_values[r]
    baAux,       \* the value of the node's ('AUX', r, w)
    baConf,      \* the values of the node's ('CONF', r, values)
    baValues,    \* values, after the CONF phase
    baShared,    \* the nodes that broadcast their share of coin(r)
    baCoin,      \* the bit f + 1 shares of a round combine to
    baDecision,  \* already_decided
    baQuit       \* nodes that returned, with the receive loop killed

baVars == <<baScope, baInput, baRound, baPc, baEst, baBin, baAux, baConf, baValues,
            baShared, baCoin, baDecision, baQuit>>

BaLast == baScope[1]
BaInputs == baScope[2]
BaRounds == 0 .. BaLast + 1
BaBits == {0, 1}

BaInit ==
    /\ baScope \in BaScopes
    /\ baInput = [p \in Nodes |-> None]
    /\ baRound = [p \in Nodes |-> 0]
    /\ baPc = [p \in Nodes |-> "input"]
    /\ baEst = [r \in BaRounds |-> [p \in Nodes |-> {}]]
    /\ baBin = [r \in BaRounds |-> [p \in Nodes |-> {}]]
    /\ baAux = [r \in BaRounds |-> [p \in Nodes |-> None]]
    /\ baConf = [r \in BaRounds |-> [p \in Nodes |-> {}]]
    /\ baValues = [p \in Nodes |-> {}]
    /\ baShared = [r \in BaRounds |-> {}]
    /\ baCoin \in [0 .. BaLast -> BaBits]
    /\ baDecision = [p \in Nodes |-> None]
    /\ baQuit = {}
-----------------------------------------------------------------------------
BaRuns(p) == p \notin baQuit /\ baRound[p] <= BaLast

EstSenders(r, v) == {q \in Nodes : v \in baEst[r][q]}

\* The head of the loop: the estimate is sent unless it was relayed before.
StartRound(p, r, v) ==
    /\ baRound' = [baRound EXCEPT ![p] = r]
    /\ baPc' = [baPc EXCEPT ![p] = "bin"]
    /\ baEst' = [baEst EXCEPT ![r][p] = @ \cup {v}]

\* input() returns.
InputDue(p) == baPc[p] = "input"

BaPropose(p, v) ==
    /\ InputDue(p)
    /\ baInput' = [baInput EXCEPT ![p] = v]
    /\ StartRound(p, 0, v)
    /\ UNCHANGED <<baScope, baBin, baAux, baConf, baValues, baShared, baCoin, baDecision,
                   baQuit>>

\* Mutation of RelayThreshold: one EST is enough.
RelayThresholdOne == 1

\* Mutation of RelayThreshold: relayed only when it becomes a bin value.
RelayThresholdHigh == 2 * F + 1

RelayThreshold == F + 1

RelayDue(p, r, v) ==
    /\ BaRuns(p)
    /\ v \notin baEst[r][p]
    /\ Cardinality(EstSenders(r, v)) >= RelayThreshold

Relay(p, r, v) ==
    /\ RelayDue(p, r, v)
    /\ baEst' = [baEst EXCEPT ![r][p] = @ \cup {v}]
    /\ UNCHANGED <<baScope, baInput, baRound, baPc, baBin, baAux, baConf, baValues, baShared,
                   baCoin, baDecision, baQuit>>

\* By the time 2f + 1 ESTs are in, the node has relayed the value itself.
BinDue(p, r, v) ==
    /\ BaRuns(p)
    /\ v \in baEst[r][p] \ baBin[r][p]
    /\ Cardinality(EstSenders(r, v)) >= 2 * F + 1

AddBin(p, r, v) ==
    /\ BinDue(p, r, v)
    /\ baBin' = [baBin EXCEPT ![r][p] = @ \cup {v}]
    /\ UNCHANGED <<baScope, baInput, baRound, baPc, baEst, baAux, baConf, baValues, baShared,
                   baCoin, baDecision, baQuit>>

\* next(iter(bin_values[r])): 0 if it is there.
AuxDue(p) == BaRuns(p) /\ baPc[p] = "bin" /\ baBin[baRound[p]][p] # {}

BaSendAux(p) ==
    LET r == baRound[p] IN
    /\ AuxDue(p)
    /\ baAux' = [baAux EXCEPT ![r][p] = IF 0 \in baBin[r][p] THEN 0 ELSE 1]
    /\ baPc' = [baPc EXCEPT ![p] = "aux"]
    /\ UNCHANGED <<baScope, baInput, baRound, baEst, baBin, baConf, baValues, baShared, baCoin,
                   baDecision, baQuit>>

\* N - f AUX for bin values; what is sent are the bin values of this moment.
ConfDue(p) ==
    LET r == baRound[p] IN
    /\ BaRuns(p) /\ baPc[p] = "aux"
    /\ {q \in Nodes : baAux[r][q] \in baBin[r][p]} \in Quorum

BaSendConf(p) ==
    LET r == baRound[p] IN
    /\ ConfDue(p)
    /\ baConf' = [baConf EXCEPT ![r][p] = baBin[r][p]]
    /\ baPc' = [baPc EXCEPT ![p] = "conf"]
    /\ UNCHANGED <<baScope, baInput, baRound, baEst, baBin, baAux, baValues, baShared, baCoin,
                   baDecision, baQuit>>

\* N - f CONFs within the bin values: the one value all of them carry, or both.
Confirms(p, r, Q, vs) ==
    /\ \A q \in Q : baConf[r][q] # {} /\ baConf[r][q] \subseteq baBin[r][p]
    /\ IF \E v \in BaBits : \A q \in Q : baConf[r][q] = {v}
       THEN \A q \in Q : baConf[r][q] = vs
       ELSE vs = BaBits

ConfsIn(p, vs) ==
    /\ BaRuns(p) /\ baPc[p] = "conf"
    /\ \E Q \in SUBSET Nodes : Cardinality(Q) = N - F /\ Confirms(p, baRound[p], Q, vs)

BaEndConf(p, vs) ==
    LET r == baRound[p] IN
    /\ ConfsIn(p, vs)
    /\ baValues' = [baValues EXCEPT ![p] = vs]
    /\ baShared' = [baShared EXCEPT ![r] = @ \cup {p}]
    /\ baPc' = [baPc EXCEPT ![p] = "coin"]
    /\ UNCHANGED <<baScope, baInput, baRound, baEst, baBin, baAux, baConf, baCoin, baDecision,
                   baQuit>>

\* commoncoin: f + 1 shares of the round combine; getCoin returns the bit.
CoinShown(r) == Cardinality(baShared[r]) >= F + 1

CoinIn(p) == BaRuns(p) /\ baPc[p] = "coin" /\ CoinShown(baRound[p])

\* set_new_estimate, with a single value that is not the coin, or with both.
Continue(p) ==
    LET r == baRound[p] IN
    /\ CoinIn(p)
    /\ baValues[p] # {baCoin[r]}
    /\ \E v \in BaBits :
          /\ IF baValues[p] = BaBits THEN v = baCoin[r] ELSE v \in baValues[p]
          /\ StartRound(p, r + 1, v)
    /\ UNCHANGED <<baScope, baInput, baBin, baAux, baConf, baValues, baShared, baCoin,
                   baDecision, baQuit>>

\* ... with the coin as the single value: decide, and quit the second time.
DecideOrQuit(p) ==
    LET r == baRound[p] IN
    /\ CoinIn(p)
    /\ baValues[p] = {baCoin[r]}
    /\ IF baDecision[p] = None
       THEN /\ baDecision' = [baDecision EXCEPT ![p] = baCoin[r]]
            /\ StartRound(p, r + 1, baCoin[r])
            /\ UNCHANGED baQuit
       ELSE /\ baQuit' = baQuit \cup {p}
            /\ UNCHANGED <<baDecision, baRound, baPc, baEst>>
    /\ UNCHANGED <<baScope, baInput, baBin, baAux, baConf, baValues, baShared, baCoin>>

BaReceive(p) ==
    \E r \in 0 .. BaLast, v \in BaBits : Relay(p, r, v) \/ AddBin(p, r, v)

BaMain(p) ==
    \/ \E v \in BaInputs : BaPropose(p, v)
    \/ BaSendAux(p)
    \/ BaSendConf(p)
    \/ \E vs \in SUBSET BaBits : BaEndConf(p, vs)
    \/ Continue(p)
    \/ DecideOrQuit(p)

BaNext == \E p \in Nodes : BaReceive(p) \/ BaMain(p)

BaSpec == BaInit /\ [][BaNext]_baVars
-----------------------------------------------------------------------------
(***************************************************************************)
(* Properties.                                                             *)
(***************************************************************************)
\* No two nodes decide differently, a node in the round of one that has decided
\* sent no other value as its estimate, and what is decided was the
\* input of f + 1 nodes: with N - f inputs of 1, which is what
\* validatedagreement counts on, the agreement cannot decide 0.
BaAgreement ==
    \A p \in Nodes : baDecision[p] # None =>
        /\ Cardinality({q \in Nodes : baInput[q] = baDecision[p]}) >= F + 1
        /\ \A q \in Nodes :
              /\ baDecision[q] \in {baDecision[p], None}
              /\ baRound[p] = baRound[q] /\ baPc[q] # "input"
                    => baEst[baRound[q]][q] \subseteq {baDecision[p]}

\* No process can do anything any more.
BaSettled ==
    \A p \in Nodes :
        /\ ~ InputDue(p) /\ ~ AuxDue(p) /\ ~ ConfDue(p) /\ ~ CoinIn(p)
        /\ \A r \in 0 .. BaLast, v \in BaBits : ~ RelayDue(p, r, v) /\ ~ BinDue(p, r, v)
        /\ \A vs \in SUBSET BaBits : ~ ConfsIn(p, vs)

\* "An abandoned party is a party who has decided but no enough peers to help
\* him end the loop" (lines 303-305): when nothing can happen any more, a node that
\* still runs has decided, in spite of CONFs that carry bin values of different
\* moments and of nodes that quit.
OnlyDecidedWait ==
    BaSettled => \A p \in Nodes : BaRuns(p) => baDecision[p] # None
=============================================================================
