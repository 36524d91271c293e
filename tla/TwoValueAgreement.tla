-------------------------- MODULE TwoValueAgreement --------------------------
(***************************************************************************)
(* twovalueagreement: binary agreement from [MMR14] on two adjacent        *)
(* integers, with a CONF phase and a common coin.  Each node is a receive  *)
(* greenlet (recv), which relays EST and collects bin values, and a main   *)
(* loop, which runs rounds EST - AUX - CONF - coin and sends FINISH.       *)
(* Messages are kept by their senders: a message counted by a node is one  *)
(* that was sent, and a node may count any subset of those sent to it,     *)
(* which is asynchronous and unordered delivery.  A process may crash, and *)
(* then its messages may be lost on some of its connections.               *)
(***************************************************************************)
EXTENDS Quorums

CONSTANTS
    Values,    \* two adjacent integers
    Inputs,    \* those of them that nodes may have as input
    MaxRound,  \* bound: the last round whose coin is used
    MaxCrash,  \* bound: how many processes crash, at most F
    None

ASSUME AgreementAssumption ==
    /\ \E v \in Values : v \in Nat /\ Values = {v, v + 1}
    /\ Inputs \subseteq Values
    /\ MaxRound \in Nat
    /\ MaxCrash \in 0 .. F
    /\ None \notin Values

Rounds == 0 .. MaxRound + 1
CoinRounds == 0 .. MaxRound

VARIABLES
    proposal,   \* vi
    decision,   \* what decide() was called with and FINISH was sent with
    round,      \* r of main_loop
    pc,         \* where main_loop blocks
    estSent,    \* values v for which the node sent ('EST', r, v)
    intValues,  \* int_values[r]
    aux,        \* the value of the node's ('AUX', r, w)
    conf,       \* the values of the node's ('CONF', r, values)
    values,     \* values, after the CONF phase
    shared,     \* the nodes that broadcast their share of coin(r)
    coin,       \* the value coin(r) returns, the same at every node
    stopped,    \* nodes that returned, with both greenlets killed
    crashed,    \* processes that died
    cut         \* nodes that the messages of a dead process no longer reach

loopVars   == <<round, pc, aux, conf, values, shared>>
endVars    == <<stopped, crashed, cut>>
tvaVars    == <<proposal, loopVars, estSent, intValues, coin, decision, endVars>>

Pcs == {"input", "bin", "aux", "conf", "coin"}

TypeOK ==
    /\ proposal \in [Nodes -> Values \cup {None}]
    /\ decision \in [Nodes -> Values \cup {None}]
    /\ round \in [Nodes -> Rounds]
    /\ pc \in [Nodes -> Pcs]
    /\ estSent \in [Nodes -> [Rounds -> SUBSET Values]]
    /\ intValues \in [Nodes -> [Rounds -> SUBSET Values]]
    /\ aux \in [Nodes -> [Rounds -> Values \cup {None}]]
    /\ conf \in [Nodes -> [Rounds -> SUBSET Values]]
    /\ values \in [Nodes -> SUBSET Values]
    /\ shared \in [Rounds -> SUBSET Nodes]
    /\ coin \in [Rounds -> {0, 1}]
    /\ stopped \in SUBSET Nodes
    /\ crashed \in SUBSET Nodes
    /\ cut \in [Nodes -> SUBSET Nodes]

Init ==
    /\ proposal = [p \in Nodes |-> None]
    /\ decision = [p \in Nodes |-> None]
    /\ round = [p \in Nodes |-> 0]
    /\ pc = [p \in Nodes |-> "input"]
    /\ estSent = [p \in Nodes |-> [r \in Rounds |-> {}]]
    /\ intValues = [p \in Nodes |-> [r \in Rounds |-> {}]]
    /\ aux = [p \in Nodes |-> [r \in Rounds |-> None]]
    /\ conf = [p \in Nodes |-> [r \in Rounds |-> {}]]
    /\ values = [p \in Nodes |-> {}]
    /\ shared = [r \in Rounds |-> {}]
    /\ coin \in [Rounds -> {0, 1}]
    /\ stopped = {}
    /\ crashed = {}
    /\ cut = [p \in Nodes |-> {}]
-----------------------------------------------------------------------------
Runs(p) == p \notin crashed /\ p \notin stopped

\* The nodes whose messages still reach p, and those whose message of round r
\* p counts, by kind.
Reaching(p) == {q \in Nodes : p \notin cut[q]}

\* Mutation of EstSenders: the node's own EST is not delivered back to it.
EstSendersOthers(p, r, v) == {q \in Reaching(p) \ {p} : v \in estSent[q][r]}

EstSenders(p, r, v) == {q \in Reaching(p) : v \in estSent[q][r]}
AuxSenders(p, r, vs) == {q \in Reaching(p) : aux[q][r] \in vs}

\* Mutation of ConfSenders: a CONF with fewer values counts as well.
ConfSendersSubset(p, r, vs) ==
    {q \in Reaching(p) : conf[q][r] # {} /\ conf[q][r] \subseteq vs}

ConfSenders(p, r, vs) == {q \in Reaching(p) : conf[q][r] = vs}

\* Mutation of EnterRound: the estimate is never updated.
EnterRoundWithInput(p, r, v) ==
    /\ round' = [round EXCEPT ![p] = r]
    /\ pc' = [pc EXCEPT ![p] = "bin"]
    /\ estSent' = [estSent EXCEPT ![p][r] =
                      @ \cup {IF r = 0 THEN v ELSE proposal[p]}]

\* The main loop enters round r with estimate v; a value that the node has
\* relayed in that round is not sent again.
EnterRound(p, r, v) ==
    /\ round' = [round EXCEPT ![p] = r]
    /\ pc' = [pc EXCEPT ![p] = "bin"]
    /\ estSent' = [estSent EXCEPT ![p][r] = @ \cup {v}]

InputDue(p) == Runs(p) /\ pc[p] = "input"

Input(p, v) ==
    /\ InputDue(p)
    /\ proposal' = [proposal EXCEPT ![p] = v]
    /\ EnterRound(p, 0, v)
    /\ UNCHANGED <<intValues, aux, conf, values, shared, coin, decision, endVars>>

\* recv: an EST from f + 1 nodes is relayed, in any round, even before input.
\* The relay is sent with -2, which the client delivers to the sender too, and
\* so the node's own relay is counted.
RelayDue(p, r, v) ==
    /\ Runs(p)
    /\ v \notin estSent[p][r]
    /\ Cardinality(EstSenders(p, r, v)) >= F + 1

RelayEst(p, r, v) ==
    /\ RelayDue(p, r, v)
    /\ estSent' = [estSent EXCEPT ![p][r] = @ \cup {v}]
    /\ UNCHANGED <<proposal, loopVars, intValues, coin, decision, endVars>>

\* recv: an EST from 2f + 1 nodes; by then the node has sent its own.
IntValueDue(p, r, v) ==
    /\ Runs(p)
    /\ v \in estSent[p][r]
    /\ v \notin intValues[p][r]
    /\ Cardinality(EstSenders(p, r, v)) >= 2 * F + 1

AddIntValue(p, r, v) ==
    /\ IntValueDue(p, r, v)
    /\ intValues' = [intValues EXCEPT ![p][r] = @ \cup {v}]
    /\ UNCHANGED <<proposal, loopVars, estSent, coin, decision, endVars>>

\* main_loop: the first bin value, or either when there are two, is sent as AUX.
AuxDue(p, w) == Runs(p) /\ pc[p] = "bin" /\ w \in intValues[p][round[p]]

SendAux(p, w) ==
    /\ AuxDue(p, w)
    /\ aux' = [aux EXCEPT ![p][round[p]] = w]
    /\ pc' = [pc EXCEPT ![p] = "aux"]
    /\ UNCHANGED <<proposal, round, conf, values, shared, estSent, intValues,
                   coin, decision, endVars>>

\* main_loop: AUX for bin values from N - f nodes; the bin values are sent.
ConfDue(p) ==
    /\ Runs(p)
    /\ pc[p] = "aux"
    /\ AuxSenders(p, round[p], intValues[p][round[p]]) \in Quorum

SendConf(p) ==
    /\ ConfDue(p)
    /\ conf' = [conf EXCEPT ![p][round[p]] = intValues[p][round[p]]]
    /\ pc' = [pc EXCEPT ![p] = "conf"]
    /\ UNCHANGED <<proposal, round, aux, values, shared, estSent, intValues,
                   coin, decision, endVars>>

\* main_loop: N - f CONFs that carry exactly the node's current bin values;
\* getCoin broadcasts the node's share.
ConfsIn(p) ==
    /\ Runs(p)
    /\ pc[p] = "conf"
    /\ ConfSenders(p, round[p], intValues[p][round[p]]) \in Quorum

EndConf(p) ==
    /\ ConfsIn(p)
    /\ values' = [values EXCEPT ![p] = intValues[p][round[p]]]
    /\ shared' = [shared EXCEPT ![round[p]] = @ \cup {p}]
    /\ pc' = [pc EXCEPT ![p] = "coin"]
    /\ UNCHANGED <<proposal, round, aux, conf, estSent, intValues, coin,
                   decision, endVars>>

\* Mutation of NextEst: the coin itself, as for the values 0 and 1.
NextEstCoin(vs, s) == s

\* The estimate for the next round: the single value, or the one of the two
\* whose parity the coin shows.
NextEst(vs, s) ==
    CHOOSE v \in vs : vs = {v} \/ v % 2 = s

\* coin(r) returns once f + 1 shares are in; a single value whose parity the
\* coin shows is decided and sent with FINISH.
CoinIn(p) ==
    /\ Runs(p)
    /\ pc[p] = "coin"
    /\ Cardinality(shared[round[p]] \cap Reaching(p)) >= F + 1

UseCoin(p) ==
    LET r == round[p]
        v == NextEst(values[p], coin[r])
    IN  /\ CoinIn(p)
        /\ decision' = [decision EXCEPT ![p] =
               IF @ = None /\ values[p] = {v} /\ v % 2 = coin[r] THEN v ELSE @]
        /\ EnterRound(p, r + 1, v)
        /\ UNCHANGED <<proposal, aux, conf, values, shared, intValues, coin, endVars>>

\* recv: a FINISH from f + 1 nodes makes the node decide and send its own.
FinishSenders(p) == {q \in Reaching(p) : decision[q] # None}

\* Mutation of AdoptFinish: the node decides its own input.
AdoptFinishOwn(p, v) ==
    /\ Runs(p)
    /\ decision[p] = None
    /\ proposal[p] = v
    /\ Cardinality(FinishSenders(p)) >= F + 1
    /\ decision' = [decision EXCEPT ![p] = v]
    /\ UNCHANGED <<proposal, loopVars, estSent, intValues, coin, endVars>>

FinishesIn(p) ==
    Runs(p) /\ decision[p] = None /\ Cardinality(FinishSenders(p)) >= F + 1

AdoptFinish(p, v) ==
    /\ FinishesIn(p)
    /\ \E q \in FinishSenders(p) : decision[q] = v
    /\ decision' = [decision EXCEPT ![p] = v]
    /\ UNCHANGED <<proposal, loopVars, estSent, intValues, coin, endVars>>

\* finish_cnt reaches 2f + 1, which sets finish_signal, and input() has
\* returned: both greenlets are killed.  The node's own FINISH is counted
\* twice: when it is sent, and when -2 delivers it back to the sender.
StopDue(p) ==
    /\ Runs(p)
    /\ pc[p] # "input"
    /\ decision[p] # None
    /\ Cardinality(FinishSenders(p)) + 1 >= 2 * F + 1

Stop(p) ==
    /\ StopDue(p)
    /\ stopped' = stopped \cup {p}
    /\ UNCHANGED <<proposal, loopVars, estSent, intValues, coin, decision, crashed, cut>>

\* A process dies, and what it sent may be lost on some connections.
Crash(p) ==
    /\ p \notin crashed
    /\ Cardinality(crashed) < MaxCrash
    /\ crashed' = crashed \cup {p}
    /\ \E lost \in SUBSET (Nodes \ {p}) : cut' = [cut EXCEPT ![p] = lost]
    /\ UNCHANGED <<proposal, loopVars, estSent, intValues, coin, decision, stopped>>

\* Past round MaxRound nothing but FINISH is exchanged any more (bound).
Receive(p) ==
    \/ \E r \in CoinRounds, v \in Values : RelayEst(p, r, v) \/ AddIntValue(p, r, v)
    \/ \E v \in Values : AdoptFinish(p, v)

MainLoop(p) ==
    \/ \E v \in Inputs : Input(p, v)
    \/ \E w \in Values : SendAux(p, w)
    \/ SendConf(p)
    \/ EndConf(p)
    \/ UseCoin(p)
    \/ Stop(p)

Progress == \E p \in Nodes : Receive(p) \/ MainLoop(p)

Next == Progress \/ \E p \in Nodes : Crash(p)

Spec == Init /\ [][Next]_tvaVars
-----------------------------------------------------------------------------
(***************************************************************************)
(* Properties.                                                             *)
(***************************************************************************)
\* The nodes that pass the CONF phase of a round pass it with the same values,
\* so with the common coin they all enter the next round with one estimate.
SameValues ==
    \A p, q \in Nodes :
        pc[p] = "coin" /\ pc[q] = "coin" /\ round[p] = round[q]
            => values[p] = values[q]

\* From round 1 on a single value is ever estimated in a round, which is why a
\* value that was not decided cannot come back.
OneEstimate ==
    \A p, q \in Nodes, r \in Rounds \ {0} :
        \A v \in estSent[p][r], w \in estSent[q][r] : v = w

\* The agreement keeps its promises: decisions are equal, which is also the
\* assert of recv on the FINISHs it collects (len(finish_value) == 1), and they
\* were proposed.
Promise == INSTANCE TwoValueSpec
ImplementsPromise == Promise!Spec

\* No process can do anything any more.
Settled ==
    \A p \in Nodes :
        /\ ~ InputDue(p) /\ ~ ConfDue(p) /\ ~ ConfsIn(p) /\ ~ CoinIn(p)
        /\ ~ FinishesIn(p) /\ ~ StopDue(p)
        /\ \A v \in Values :
              /\ ~ AuxDue(p, v)
              /\ \A r \in CoinRounds : ~ RelayDue(p, r, v) /\ ~ IntValueDue(p, r, v)

\* The node is dead, has decided, or has used its last coin.
Done(p) == p \in crashed \/ decision[p] # None \/ round[p] > MaxRound

\* "It takes an input vi and will finally write the decided value into decide
\* channel" (lines 13-14): when no process can do anything any more, every live
\* node has decided.  It does not hold, for either of two reasons: CONFs that do
\* not match the bin values of those who wait for them, if inputs differ; and
\* nodes that stop on 2f FINISHs, their own counted twice, of which f may be
\* of processes that died and not reach anybody else.
EveryNodeDecides == Settled => \A p \in Nodes : Done(p)

\* What is left of it: with equal inputs every live node decides, whatever died
\* and is lost on its connections, unless a process died and another stopped.
EqualInputsDecide ==
    Settled /\ (\A p, q \in Nodes : proposal[p] # None /\ proposal[q] # None => proposal[p] = proposal[q])
        => (\A p \in Nodes : Done(p)) \/ (crashed # {} /\ stopped # {})
=============================================================================
