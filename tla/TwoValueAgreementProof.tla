------------------------ MODULE TwoValueAgreementProof ------------------------
(***************************************************************************)
(* The two-value agreement is safe for every number of nodes and rounds:   *)
(* inductive invariant and proofs.  The argument: in a round at most one   *)
(* set of values is confirmed by a quorum, since two quorums meet and a    *)
(* node sends one CONF; with the common coin it determines the only        *)
(* estimate of the next round; and once a single value is confirmed, it is *)
(* the only estimate of all later rounds.  The last section shows that it  *)
(* ends too, with equal inputs.                                            *)
(***************************************************************************)
EXTENDS TwoValueAgreement, QuorumLemmas

\* A set of values was confirmed in a round.
Confirmed(r, S) == S # {} /\ {q \in Nodes : conf[q][r] = S} \in Quorum

\* A node has no proposal before input() returned, and then is in round 0.
InputFirst ==
    \A p \in Nodes :
        /\ pc[p] = "input" => proposal[p] = None /\ round[p] = 0
        /\ proposal[p] = None => pc[p] = "input"

\* A node past the first wait of its round has a bin value of it, and bin
\* values are collected in rounds within the bound.
BinFirst ==
    \A p \in Nodes :
        /\ pc[p] \in {"aux", "conf", "coin"} => intValues[p][round[p]] # {}
        /\ \A r \in Rounds : intValues[p][r] # {} => r \in CoinRounds

\* A node sends one CONF in a round.
ConfOnce ==
    \A p \in Nodes, r \in Rounds :
        \/ r > round[p]
        \/ r = round[p] /\ pc[p] \in {"input", "bin", "aux"}
        => conf[p][r] = {}

\* A value comes from an EST into the bin values and from there into a CONF.
ValuesFlow ==
    \A p \in Nodes, r \in Rounds :
        /\ intValues[p][r] \subseteq estSent[p][r]
        /\ conf[p][r] \subseteq intValues[p][r]

\* What a node takes into the coin was confirmed, and so was something in
\* every round that a node left.
CoinConfirmed ==
    \A p \in Nodes :
        /\ pc[p] = "coin" => Confirmed(round[p], values[p])
        /\ \A r \in Rounds : r < round[p] => \E S \in SUBSET Values : Confirmed(r, S)

\* An estimate of a later round comes from what was confirmed before it.
Follows(r, v) == \E S \in SUBSET Values : Confirmed(r, S) /\ v = NextEst(S, coin[r])

EstimatesNext ==
    \A p \in Nodes, r \in CoinRounds : \A v \in estSent[p][r + 1] :
        /\ Follows(r, v)
        /\ \E q \in Nodes : round[q] >= r + 1

\* A single confirmed value is the only estimate of all later rounds.
Locked ==
    \A r \in Rounds, v \in Values : Confirmed(r, {v}) =>
        \A p \in Nodes, s \in Rounds : s > r => estSent[p][s] \subseteq {v}

EstimatesProposed ==
    \A p \in Nodes, r \in Rounds : \A v \in estSent[p][r] :
        \E q \in Nodes : proposal[q] = v

DecisionsConfirmed ==
    \A p \in Nodes : decision[p] # None =>
        \E r \in CoinRounds : Confirmed(r, {decision[p]})

TvaInv ==
    /\ TypeOK
    /\ InputFirst
    /\ BinFirst
    /\ ConfOnce
    /\ ValuesFlow
    /\ CoinConfirmed
    /\ EstimatesNext
    /\ Locked
    /\ EstimatesProposed
    /\ DecisionsConfirmed
-----------------------------------------------------------------------------
(***************************************************************************)
(* Facts about rounds, values and what is confirmed.                       *)
(***************************************************************************)
LEMMA Constants ==
    /\ MaxRound \in Nat
    /\ Rounds = 0 .. MaxRound + 1
    /\ CoinRounds = 0 .. MaxRound
    /\ \A r \in Rounds : r \in Nat
    /\ \A r \in CoinRounds : r \in Rounds /\ r + 1 \in Rounds /\ r \in Nat
    /\ \A r \in Rounds \ {0} : r - 1 \in CoinRounds /\ (r - 1) + 1 = r
    /\ 0 \in Rounds
    /\ None \notin Values
    /\ Inputs \subseteq Values
BY AgreementAssumption DEF Rounds, CoinRounds

\* The next estimate is one of the values, the only one if there is one.
LEMMA NextEstValue ==
    ASSUME NEW S \in SUBSET Values, S # {}, NEW s \in {0, 1}
    PROVE  /\ NextEst(S, s) \in S
           /\ \A v : S = {v} => NextEst(S, s) = v
<1>1. PICK a \in Values : a \in Nat /\ Values = {a, a + 1}
    BY AgreementAssumption
<1>2. a % 2 = s \/ (a + 1) % 2 = s
    BY <1>1
<1>3. S = {a} \/ S = {a + 1} \/ S = {a, a + 1}
    BY <1>1
<1>4. \E v \in S : S = {v} \/ v % 2 = s
    BY <1>2, <1>3
<1>5. NextEst(S, s) \in S
    BY <1>4 DEF NextEst
<1> QED
    BY <1>5

\* A node confirms one set of values in a round, and two quorums meet.
LEMMA ConfirmedOnce ==
    ASSUME NEW r, NEW S, NEW T, Confirmed(r, S), Confirmed(r, T)
    PROVE  S = T
<1> DEFINE A == {q \in Nodes : conf[q][r] = S}
           B == {q \in Nodes : conf[q][r] = T}
<1>1. A \in Quorum /\ B \in Quorum
    BY DEF Confirmed
<1>2. PICK q \in Nodes : q \in A /\ q \in B
    <2> HIDE DEF A, B
    <2> QED
        BY <1>1, ThreeQuorumsMeet
<1> QED
    BY <1>2

LEMMA ConfirmedByOne ==
    ASSUME NEW r, NEW S, Confirmed(r, S)
    PROVE  \E q \in Nodes : conf[q][r] = S
<1> DEFINE A == {q \in Nodes : conf[q][r] = S}
<1>1. A \in Quorum
    BY DEF Confirmed
<1>2. PICK q \in Nodes : q \in A
    <2> HIDE DEF A
    <2> QED
        BY <1>1, ThreeQuorumsMeet
<1> QED
    BY <1>2

\* What is confirmed was estimated by one node.
LEMMA ConfirmedEstimated ==
    ASSUME ValuesFlow, NEW r \in Rounds, NEW S, Confirmed(r, S)
    PROVE  \E q \in Nodes : S \subseteq estSent[q][r]
<1>1. PICK q \in Nodes : conf[q][r] = S
    BY ConfirmedByOne
<1> QED
    BY <1>1 DEF ValuesFlow

\* Once a single value is confirmed, nothing else ever is.
LEMMA LockHolds ==
    ASSUME TvaInv, NEW x \in Rounds, NEW y \in Rounds, x <= y,
           NEW v \in Values, NEW S, Confirmed(x, {v}), Confirmed(y, S)
    PROVE  S = {v}
<1>1. CASE x = y
    BY <1>1, ConfirmedOnce
<1>2. CASE x # y
    <2>1. y > x
        BY <1>2, Constants
    <2>2. PICK q \in Nodes : S \subseteq estSent[q][y]
        BY ConfirmedEstimated DEF TvaInv
    <2>3. estSent[q][y] \subseteq {v}
        BY <2>1 DEF TvaInv, Locked
    <2> QED
        BY <2>2, <2>3 DEF Confirmed
<1> QED
    BY <1>1, <1>2

\* What is confirmed stays confirmed, and so does what follows from it.
ConfirmedStays ==
    \A r \in Rounds : \A S \in SUBSET Values : Confirmed(r, S) => Confirmed(r, S)'

LEMMA FollowsStays ==
    ASSUME ConfirmedStays, coin' = coin, NEW r \in Rounds, NEW v, Follows(r, v)
    PROVE  Follows(r, v)'
<1>1. PICK S \in SUBSET Values : Confirmed(r, S) /\ v = NextEst(S, coin[r])
    BY DEF Follows
<1>2. Confirmed(r, S)' /\ v = NextEst(S, coin'[r])
    BY <1>1 DEF ConfirmedStays
<1> QED
    BY <1>2 DEF Follows

LEMMA SameConfirmed ==
    ASSUME conf' = conf
    PROVE  /\ ConfirmedStays
           /\ \A r, S : Confirmed(r, S)' <=> Confirmed(r, S)
BY DEF ConfirmedStays, Confirmed

\* Adding an EST to those that a node sent.
LEMMA EstSentStep ==
    ASSUME TypeOK, NEW p \in Nodes, NEW r \in Rounds, NEW v \in Values,
           estSent' = [estSent EXCEPT ![p][r] = @ \cup {v}]
    PROVE  /\ estSent' \in [Nodes -> [Rounds -> SUBSET Values]]
           /\ \A q \in Nodes, x \in Rounds :
                  estSent'[q][x] = IF q = p /\ x = r THEN estSent[q][x] \cup {v}
                                                     ELSE estSent[q][x]
<1> DEFINE f == [estSent[p] EXCEPT ![r] = @ \cup {v}]
<1>1. estSent \in [Nodes -> [Rounds -> SUBSET Values]]
    BY DEF TypeOK
<1>2. estSent' = [estSent EXCEPT ![p] = f]
    OBVIOUS
<1>3. f \in [Rounds -> SUBSET Values]
    BY <1>1
<1>4. \A x \in Rounds : f[x] = IF x = r THEN estSent[p][x] \cup {v} ELSE estSent[p][x]
    BY <1>1
<1> HIDE DEF f
<1>5. estSent' \in [Nodes -> [Rounds -> SUBSET Values]]
    BY <1>1, <1>2, <1>3
<1>6. \A q \in Nodes : estSent'[q] = IF q = p THEN f ELSE estSent[q]
    BY <1>1, <1>2
<1> QED
    BY <1>4, <1>5, <1>6
-----------------------------------------------------------------------------
\* What a new estimate v of round r must satisfy to keep the invariant.
Justified(r, v) ==
    /\ \E q \in Nodes : proposal'[q] = v
    /\ r # 0 => /\ Follows(r - 1, v)
                /\ \E q \in Nodes : round'[q] >= r
    /\ \A x \in Rounds, w \in Values : x < r /\ Confirmed(x, {w}) => w = v

LEMMA EstimateKeeps ==
    ASSUME TvaInv, NEW p \in Nodes, NEW r \in Rounds, NEW v \in Values,
           estSent' = [estSent EXCEPT ![p][r] = @ \cup {v}],
           UNCHANGED <<conf, intValues, coin>>,
           \A q \in Nodes : round[q] \in Nat /\ round'[q] \in Nat /\ round'[q] >= round[q],
           \A q \in Nodes : proposal[q] # None => proposal'[q] = proposal[q],
           Justified(r, v)
    PROVE  ValuesFlow' /\ EstimatesNext' /\ Locked' /\ EstimatesProposed'
<1> USE DEF TvaInv
<1>1. \A q \in Nodes, x \in Rounds :
          /\ estSent[q][x] \subseteq estSent'[q][x]
          /\ \A w \in estSent'[q][x] : w \in estSent[q][x] \/ (x = r /\ w = v)
    BY EstSentStep
<1>2. ValuesFlow'
    BY <1>1 DEF ValuesFlow
<1>3. EstimatesNext'
    <2> SUFFICES ASSUME NEW q \in Nodes, NEW x \in CoinRounds, NEW w \in estSent'[q][x + 1]
                 PROVE  Follows(x, w)' /\ \E n \in Nodes : round'[n] >= x + 1
        BY DEF EstimatesNext
    <2>1. x + 1 \in Rounds /\ x \in Nat /\ x \in Rounds
        BY Constants
    <2>2. Follows(x, w) /\ \E n \in Nodes : round'[n] >= x + 1
        <3>1. CASE w \in estSent[q][x + 1]
            <4>1. Follows(x, w) /\ \E n \in Nodes : round[n] >= x + 1
                BY <3>1 DEF EstimatesNext
            <4> QED
                BY <2>1, <4>1
        <3>2. CASE x + 1 = r /\ w = v
            <4>1. r # 0 /\ r - 1 = x
                BY <2>1, <3>2
            <4> QED
                BY <3>2, <4>1 DEF Justified
        <3> QED
            BY <1>1, <2>1, <3>1, <3>2
    <2> QED
        BY <2>1, <2>2, FollowsStays, SameConfirmed
<1>4. Locked'
    <2> SUFFICES ASSUME NEW x \in Rounds, NEW w \in Values, Confirmed(x, {w}),
                        NEW q \in Nodes, NEW y \in Rounds, y > x, NEW u \in estSent'[q][y]
                 PROVE  u = w
        BY SameConfirmed DEF Locked
    <2>1. CASE u \in estSent[q][y]
        BY <2>1 DEF Locked
    <2>2. CASE y = r /\ u = v
        <3>1. x < r
            BY <2>2, Constants
        <3> QED
            BY <2>2, <3>1 DEF Justified
    <2> QED
        BY <1>1, <2>1, <2>2
<1>5. EstimatesProposed'
    <2> SUFFICES ASSUME NEW q \in Nodes, NEW y \in Rounds, NEW u \in estSent'[q][y]
                 PROVE  \E n \in Nodes : proposal'[n] = u
        BY DEF EstimatesProposed
    <2>1. CASE u \in estSent[q][y]
        <3>1. PICK n \in Nodes : proposal[n] = u
            BY <2>1 DEF EstimatesProposed
        <3>2. u # None
            <4>1. u \in Values
                BY <2>1 DEF TypeOK
            <4> QED
                BY <4>1, Constants
        <3> QED
            BY <3>1, <3>2
    <2>2. CASE u = v
        BY <2>2 DEF Justified
    <2> QED
        BY <1>1, <2>1, <2>2
<1> QED
    BY <1>2, <1>3, <1>4, <1>5
-----------------------------------------------------------------------------
\* The invariant holds initially.
LEMMA InitHolds == Init => TvaInv
<1> SUFFICES ASSUME Init PROVE TvaInv
    OBVIOUS
<1> USE DEF Init
<1>1. TypeOK
    BY Constants DEF TypeOK, Pcs
<1>2. InputFirst /\ BinFirst /\ ConfOnce
    BY Constants DEF InputFirst, BinFirst, ConfOnce
<1>3. ValuesFlow
    BY DEF ValuesFlow
<1>4. CoinConfirmed
    BY Constants DEF CoinConfirmed
<1>5. EstimatesNext /\ EstimatesProposed
    BY Constants DEF EstimatesNext, EstimatesProposed
<1>6. Locked
    BY DEF Locked
<1>7. DecisionsConfirmed
    BY DEF DecisionsConfirmed
<1> QED
    BY <1>1, <1>2, <1>3, <1>4, <1>5, <1>6, <1>7 DEF TvaInv
-----------------------------------------------------------------------------
(***************************************************************************)
(* Steps that send no EST and no CONF.                                     *)
(***************************************************************************)

\* What survives because rounds, estimates, bin values and CONFs are unchanged.
LEMMA QuietKeeps ==
    ASSUME TvaInv, UNCHANGED <<proposal, round, estSent, conf, coin>>
    PROVE  EstimatesNext' /\ Locked' /\ EstimatesProposed'
<1> USE DEF TvaInv
<1>1. EstimatesNext'
    <2> SUFFICES ASSUME NEW q \in Nodes, NEW x \in CoinRounds, NEW w \in estSent[q][x + 1]
                 PROVE  Follows(x, w)' /\ \E n \in Nodes : round[n] >= x + 1
        BY DEF EstimatesNext
    <2>1. Follows(x, w) /\ \E n \in Nodes : round[n] >= x + 1
        BY DEF EstimatesNext
    <2> QED
        BY <2>1, FollowsStays, SameConfirmed, Constants
<1>2. Locked'
    BY SameConfirmed DEF Locked
<1>3. EstimatesProposed'
    BY DEF EstimatesProposed
<1> QED
    BY <1>1, <1>2, <1>3

LEMMA AddIntValueKeeps ==
    ASSUME TvaInv, NEW p \in Nodes, NEW r \in CoinRounds, NEW v \in Values,
           AddIntValue(p, r, v)
    PROVE  TvaInv'
<1> USE DEF TvaInv
<1>1. /\ v \in estSent[p][r]
      /\ intValues' = [intValues EXCEPT ![p][r] = @ \cup {v}]
      /\ UNCHANGED <<proposal, loopVars, estSent, coin, decision, endVars>>
    BY DEF AddIntValue, IntValueDue
<1>2. UNCHANGED <<round, pc, aux, conf, values, shared, stopped, crashed, cut>>
    BY <1>1 DEF loopVars, endVars
<1>3. /\ intValues' \in [Nodes -> [Rounds -> SUBSET Values]]
      /\ \A q \in Nodes, x \in Rounds :
             intValues'[q][x] = IF q = p /\ x = r THEN intValues[q][x] \cup {v}
                                                  ELSE intValues[q][x]
    <2> DEFINE f == [intValues[p] EXCEPT ![r] = @ \cup {v}]
    <2>1. intValues \in [Nodes -> [Rounds -> SUBSET Values]] /\ r \in Rounds
        BY Constants DEF TypeOK
    <2>2. intValues' = [intValues EXCEPT ![p] = f]
        BY <1>1
    <2>3. f \in [Rounds -> SUBSET Values]
        BY <2>1
    <2>4. \A x \in Rounds : f[x] = IF x = r THEN intValues[p][x] \cup {v} ELSE intValues[p][x]
        BY <2>1
    <2> HIDE DEF f
    <2>5. \A q \in Nodes : intValues'[q] = IF q = p THEN f ELSE intValues[q]
        BY <2>1, <2>2
    <2> QED
        BY <2>1, <2>2, <2>3, <2>4, <2>5
<1>4. TypeOK'
    BY <1>1, <1>2, <1>3 DEF TypeOK
<1>5. InputFirst' /\ ConfOnce'
    BY <1>1, <1>2 DEF InputFirst, ConfOnce
<1>6. BinFirst'
    <2>1. \A q \in Nodes : round[q] \in Rounds
        BY DEF TypeOK
    <2> QED
        BY <1>2, <1>3, <2>1 DEF BinFirst
<1>7. ValuesFlow'
    BY <1>1, <1>2, <1>3 DEF ValuesFlow
<1>8. CoinConfirmed'
    BY <1>2, SameConfirmed DEF CoinConfirmed
<1>9. DecisionsConfirmed'
    BY <1>1, <1>2, SameConfirmed DEF DecisionsConfirmed
<1> QED
    BY <1>1, <1>2, <1>4, <1>5, <1>6, <1>7, <1>8, <1>9, QuietKeeps

LEMMA SendAuxKeeps ==
    ASSUME TvaInv, NEW p \in Nodes, NEW w \in Values, SendAux(p, w)
    PROVE  TvaInv'
<1> USE DEF TvaInv
<1>1. /\ pc[p] = "bin"
      /\ w \in intValues[p][round[p]]
      /\ aux' = [aux EXCEPT ![p][round[p]] = w]
      /\ pc' = [pc EXCEPT ![p] = "aux"]
      /\ UNCHANGED <<proposal, round, conf, values, shared, estSent, intValues,
                     coin, decision, stopped, crashed, cut>>
    BY DEF SendAux, AuxDue, endVars
<1>2. /\ pc'[p] = "aux"
      /\ \A q \in Nodes \ {p} : pc'[q] = pc[q]
    BY <1>1 DEF TypeOK
<1>3. TypeOK'
    <2>1. aux' \in [Nodes -> [Rounds -> Values \cup {None}]]
        BY <1>1 DEF TypeOK
    <2>2. pc' \in [Nodes -> Pcs]
        BY <1>1 DEF TypeOK, Pcs
    <2> QED
        BY <1>1, <2>1, <2>2 DEF TypeOK
<1>4. InputFirst' /\ ConfOnce'
    BY <1>1, <1>2 DEF InputFirst, ConfOnce
<1>5. BinFirst'
    BY <1>1, <1>2 DEF BinFirst
<1>6. ValuesFlow'
    BY <1>1 DEF ValuesFlow
<1>7. CoinConfirmed'
    <2>1. \A q \in Nodes : pc'[q] = "coin" => pc[q] = "coin"
        BY <1>2
    <2> QED
        BY <1>1, <2>1, SameConfirmed DEF CoinConfirmed
<1>8. DecisionsConfirmed'
    BY <1>1, SameConfirmed DEF DecisionsConfirmed
<1> QED
    BY <1>1, <1>3, <1>4, <1>5, <1>6, <1>7, <1>8, QuietKeeps

\* A node goes to the coin with values that a quorum confirmed.
LEMMA EndConfKeeps ==
    ASSUME TvaInv, NEW p \in Nodes, EndConf(p)
    PROVE  TvaInv'
<1> USE DEF TvaInv
<1> DEFINE vs == intValues[p][round[p]]
<1>1. /\ pc[p] = "conf"
      /\ ConfSenders(p, round[p], vs) \in Quorum
      /\ values' = [values EXCEPT ![p] = vs]
      /\ shared' = [shared EXCEPT ![round[p]] = @ \cup {p}]
      /\ pc' = [pc EXCEPT ![p] = "coin"]
      /\ UNCHANGED <<proposal, round, aux, conf, estSent, intValues, coin,
                     decision, stopped, crashed, cut>>
    BY DEF EndConf, ConfsIn, endVars
<1>2. vs # {} /\ round[p] \in Rounds /\ vs \in SUBSET Values
    BY <1>1 DEF BinFirst, TypeOK
<1>3. Confirmed(round[p], vs)
    <2> DEFINE A == {q \in Nodes : conf[q][round[p]] = vs}
    <2>1. ConfSenders(p, round[p], vs) \subseteq A /\ A \in SUBSET Nodes
        BY DEF ConfSenders, Reaching
    <2>2. A \in Quorum
        <3> HIDE DEF A, vs
        <3> QED
            BY <1>1, <2>1, QuorumSuperset
    <2> QED
        BY <1>2, <2>2 DEF Confirmed
<1>4. /\ pc'[p] = "coin" /\ values'[p] = vs
      /\ \A q \in Nodes \ {p} : pc'[q] = pc[q] /\ values'[q] = values[q]
    BY <1>1 DEF TypeOK
<1>5. TypeOK'
    <2> HIDE DEF vs
    <2>1. values' \in [Nodes -> SUBSET Values] /\ pc' \in [Nodes -> Pcs]
          /\ shared' \in [Rounds -> SUBSET Nodes]
        BY <1>1, <1>2 DEF TypeOK, Pcs
    <2> QED
        BY <1>1, <2>1 DEF TypeOK
<1>6. InputFirst' /\ ConfOnce'
    BY <1>1, <1>4 DEF InputFirst, ConfOnce
<1>7. BinFirst'
    BY <1>1, <1>2, <1>4 DEF BinFirst
<1>8. ValuesFlow'
    BY <1>1 DEF ValuesFlow
<1>9. CoinConfirmed'
    <2> HIDE DEF vs
    <2> SUFFICES ASSUME NEW q \in Nodes
                 PROVE  /\ pc'[q] = "coin" => Confirmed(round[q], values'[q])
                        /\ \A r \in Rounds : r < round[q] =>
                               \E S \in SUBSET Values : Confirmed(r, S)
        BY <1>1, SameConfirmed DEF CoinConfirmed
    <2>1. CASE q = p
        BY <1>3, <1>4, <2>1 DEF CoinConfirmed
    <2>2. CASE q # p
        BY <1>4, <2>2 DEF CoinConfirmed
    <2> QED
        BY <2>1, <2>2
<1>10. DecisionsConfirmed'
    BY <1>1, SameConfirmed DEF DecisionsConfirmed
<1> QED
    BY <1>1, <1>5, <1>6, <1>7, <1>8, <1>9, <1>10, QuietKeeps

\* A process dies, or the agreement of a node ends.
LEMMA EndKeeps ==
    ASSUME TvaInv, NEW p \in Nodes, Stop(p) \/ Crash(p)
    PROVE  TvaInv'
<1> USE DEF TvaInv
<1>1. /\ UNCHANGED <<proposal, round, pc, aux, conf, values, shared, estSent,
                     intValues, coin, decision>>
      /\ stopped' \in SUBSET Nodes /\ crashed' \in SUBSET Nodes
      /\ cut' \in [Nodes -> SUBSET Nodes]
    <2>1. CASE Stop(p)
        BY <2>1 DEF Stop, StopDue, TypeOK, loopVars
    <2>2. CASE Crash(p)
        <3>1. PICK lost \in SUBSET Nodes : cut' = [cut EXCEPT ![p] = lost]
            BY <2>2 DEF Crash
        <3>2. cut' \in [Nodes -> SUBSET Nodes]
            BY <3>1 DEF TypeOK
        <3> QED
            BY <2>2, <3>2 DEF Crash, TypeOK, loopVars
    <2> QED
        BY <2>1, <2>2
<1>2. TypeOK'
    BY <1>1 DEF TypeOK
<1>3. InputFirst' /\ BinFirst' /\ ConfOnce' /\ ValuesFlow'
    BY <1>1 DEF InputFirst, BinFirst, ConfOnce, ValuesFlow
<1>4. CoinConfirmed' /\ DecisionsConfirmed'
    BY <1>1, SameConfirmed DEF CoinConfirmed, DecisionsConfirmed
<1> QED
    BY <1>1, <1>2, <1>3, <1>4, QuietKeeps

\* A FINISH that is adopted was sent by a node that decided.
LEMMA AdoptFinishKeeps ==
    ASSUME TvaInv, NEW p \in Nodes, NEW v \in Values, AdoptFinish(p, v)
    PROVE  TvaInv'
<1> USE DEF TvaInv
<1>1. /\ \E q \in Nodes : decision[q] = v
      /\ decision' = [decision EXCEPT ![p] = v]
      /\ UNCHANGED <<proposal, round, pc, aux, conf, values, shared, estSent,
                     intValues, coin, stopped, crashed, cut>>
    BY DEF AdoptFinish, FinishesIn, FinishSenders, Reaching, loopVars, endVars
<1>2. TypeOK'
    <2>1. decision' \in [Nodes -> Values \cup {None}]
        BY <1>1 DEF TypeOK
    <2> QED
        BY <1>1, <2>1 DEF TypeOK
<1>3. InputFirst' /\ BinFirst' /\ ConfOnce' /\ ValuesFlow'
    BY <1>1 DEF InputFirst, BinFirst, ConfOnce, ValuesFlow
<1>4. CoinConfirmed'
    BY <1>1, SameConfirmed DEF CoinConfirmed
<1>5. DecisionsConfirmed'
    <2> SUFFICES ASSUME NEW q \in Nodes, decision'[q] # None
                 PROVE  \E r \in CoinRounds : Confirmed(r, {decision'[q]})
        BY <1>1, SameConfirmed DEF DecisionsConfirmed
    <2>1. \E n \in Nodes : decision[n] = decision'[q]
        BY <1>1 DEF TypeOK
    <2> QED
        BY <2>1 DEF DecisionsConfirmed
<1> QED
    BY <1>1, <1>2, <1>3, <1>4, <1>5, QuietKeeps
-----------------------------------------------------------------------------
(***************************************************************************)
(* A CONF is sent.                                                         *)
(***************************************************************************)
LEMMA SendConfFacts ==
    ASSUME TvaInv, NEW p \in Nodes, SendConf(p)
    PROVE  /\ round[p] \in CoinRounds /\ round[p] \in Rounds
           /\ intValues[p][round[p]] # {} /\ intValues[p][round[p]] \in SUBSET Values
           /\ pc[p] = "aux" /\ pc'[p] = "conf"
           /\ \A q \in Nodes \ {p} : pc'[q] = pc[q]
           /\ pc' \in [Nodes -> Pcs]
           /\ conf[p][round[p]] = {}
           /\ conf' \in [Nodes -> [Rounds -> SUBSET Values]]
           /\ \A q \in Nodes, r \in Rounds :
                  conf'[q][r] = IF q = p /\ r = round[p] THEN intValues[p][r] ELSE conf[q][r]
           /\ UNCHANGED <<proposal, round, aux, values, shared, estSent, intValues,
                          coin, decision, stopped, crashed, cut>>
<1> USE DEF TvaInv
<1> DEFINE x == round[p]
           vs == intValues[p][x]
           f  == [conf[p] EXCEPT ![x] = vs]
<1>1. /\ pc[p] = "aux"
      /\ conf' = [conf EXCEPT ![p] = f]
      /\ pc' = [pc EXCEPT ![p] = "conf"]
      /\ UNCHANGED <<proposal, round, aux, values, shared, estSent, intValues,
                     coin, decision, stopped, crashed, cut>>
    BY DEF SendConf, ConfDue, endVars
<1>2. x \in Rounds /\ vs \in SUBSET Values
    BY DEF TypeOK
<1>3. vs # {} /\ x \in CoinRounds /\ conf[p][x] = {}
    BY <1>1, <1>2 DEF BinFirst, ConfOnce
<1>4. pc'[p] = "conf" /\ (\A q \in Nodes \ {p} : pc'[q] = pc[q]) /\ pc' \in [Nodes -> Pcs]
    BY <1>1 DEF TypeOK, Pcs
<1> HIDE DEF vs
<1>5. f \in [Rounds -> SUBSET Values] /\ \A r \in Rounds : f[r] = IF r = x THEN vs ELSE conf[p][r]
    BY <1>2 DEF TypeOK
<1> HIDE DEF f
<1>6. conf' \in [Nodes -> [Rounds -> SUBSET Values]]
    BY <1>1, <1>5 DEF TypeOK
<1>7. \A q \in Nodes : conf'[q] = IF q = p THEN f ELSE conf[q]
    BY <1>1 DEF TypeOK
<1>8. \A q \in Nodes, r \in Rounds :
          conf'[q][r] = IF q = p /\ r = x THEN vs ELSE conf[q][r]
    BY <1>5, <1>7
<1> QED
    BY <1>1, <1>2, <1>3, <1>4, <1>6, <1>8 DEF vs

LEMMA SendConfConfirms ==
    ASSUME TvaInv, NEW p \in Nodes, SendConf(p)
    PROVE  ConfirmedStays
<1> SUFFICES ASSUME NEW r \in Rounds, NEW S \in SUBSET Values, Confirmed(r, S)
             PROVE  Confirmed(r, S)'
    BY DEF ConfirmedStays
<1> DEFINE A == {q \in Nodes : conf[q][r] = S}
           B == {q \in Nodes : conf'[q][r] = S}
<1>1. S # {} /\ A \in Quorum
    BY DEF Confirmed
<1>2. ASSUME NEW q \in A PROVE q \in B
    <2>1. q \in Nodes /\ conf[q][r] = S
        OBVIOUS
    <2>2. ~ (q = p /\ r = round[p])
        BY <1>1, <2>1, SendConfFacts
    <2> QED
        BY <2>1, <2>2, SendConfFacts
<1>3. B \in Quorum
    <2>1. A \subseteq B /\ B \in SUBSET Nodes
        BY <1>2
    <2> HIDE DEF A, B
    <2> QED
        BY <1>1, <2>1, QuorumSuperset
<1> QED
    BY <1>1, <1>3 DEF Confirmed

\* A single value that becomes confirmed was already confirmed if anybody has
\* an estimate of a later round.
LEMMA SendConfLocked ==
    ASSUME TvaInv, NEW p \in Nodes, SendConf(p)
    PROVE  Locked'
<1> USE DEF TvaInv
<1> SUFFICES ASSUME NEW r \in Rounds, NEW v \in Values, Confirmed(r, {v})',
                    NEW q \in Nodes, NEW s \in Rounds, s > r, NEW u \in estSent[q][s]
             PROVE  u = v
    BY SendConfFacts DEF Locked
<1>1. s \in Nat /\ r \in Nat /\ s # 0 /\ s - 1 \in CoinRounds /\ (s - 1) + 1 = s
    BY Constants
<1>2. PICK n \in Nodes : round[n] >= s
    <2> DEFINE x == s - 1
    <2>1. x \in CoinRounds /\ x + 1 = s
        BY <1>1
    <2> HIDE DEF x
    <2>2. u \in estSent[q][x + 1]
        BY <2>1
    <2>3. \E n \in Nodes : round[n] >= x + 1
        BY <2>1, <2>2 DEF EstimatesNext
    <2> QED
        BY <2>1, <2>3
<1>3. round[n] \in Nat
    BY Constants DEF TypeOK
<1>4. PICK S \in SUBSET Values : Confirmed(r, S)
    BY <1>1, <1>2, <1>3 DEF CoinConfirmed
<1>5. Confirmed(r, S)'
    BY <1>4, SendConfConfirms DEF ConfirmedStays
<1>6. S = {v}
    <2> DEFINE A == {m \in Nodes : conf'[m][r] = S}
               B == {m \in Nodes : conf'[m][r] = {v}}
    <2>1. A \in Quorum /\ B \in Quorum
        BY <1>5 DEF Confirmed
    <2>2. PICK m \in Nodes : m \in A /\ m \in B
        <3> HIDE DEF A, B
        <3> QED
            BY <2>1, ThreeQuorumsMeet
    <2> QED
        BY <2>2
<1> QED
    BY <1>4, <1>6 DEF Locked

LEMMA SendConfKeeps ==
    ASSUME TvaInv, NEW p \in Nodes, SendConf(p)
    PROVE  TvaInv'
<1> USE DEF TvaInv
<1>1. UNCHANGED <<proposal, round, aux, values, shared, estSent, intValues,
                  coin, decision, stopped, crashed, cut>>
    BY SendConfFacts
<1>2. /\ pc[p] = "aux" /\ pc'[p] = "conf"
      /\ \A q \in Nodes \ {p} : pc'[q] = pc[q]
    BY SendConfFacts
<1>3. TypeOK'
    BY SendConfFacts DEF TypeOK
<1>4. InputFirst'
    BY <1>1, <1>2 DEF InputFirst
<1>5. BinFirst'
    BY <1>1, <1>2 DEF BinFirst
<1>6. ConfOnce'
    <2> SUFFICES ASSUME NEW q \in Nodes, NEW r \in Rounds,
                        \/ r > round[q]
                        \/ r = round[q] /\ pc'[q] \in {"input", "bin", "aux"}
                 PROVE  conf'[q][r] = {}
        BY <1>1 DEF ConfOnce
    <2>1. ~ (q = p /\ r = round[p])
        <3>1. round[p] \in Nat
            BY Constants DEF TypeOK
        <3> QED
            BY <1>2, <3>1
    <2>2. conf'[q][r] = conf[q][r]
        BY <2>1, SendConfFacts
    <2> QED
        BY <1>2, <2>1, <2>2 DEF ConfOnce
<1>7. ValuesFlow'
    <2>1. \A q \in Nodes, r \in Rounds : conf'[q][r] \subseteq intValues[q][r]
        BY SendConfFacts DEF ValuesFlow
    <2> QED
        BY <1>1, <2>1 DEF ValuesFlow
<1>8. CoinConfirmed'
    <2> SUFFICES ASSUME NEW q \in Nodes
                 PROVE  /\ pc'[q] = "coin" => Confirmed(round[q], values[q])'
                        /\ \A r \in Rounds : r < round[q] =>
                               \E S \in SUBSET Values : Confirmed(r, S)'
        BY <1>1 DEF CoinConfirmed
    <2>1. round[q] \in Rounds /\ values[q] \in SUBSET Values
        BY DEF TypeOK
    <2>2. pc'[q] = "coin" => Confirmed(round[q], values[q])
        BY <1>2 DEF CoinConfirmed
    <2>3. \A r \in Rounds : r < round[q] => \E S \in SUBSET Values : Confirmed(r, S)
        BY DEF CoinConfirmed
    <2>4. Confirmed(round[q], values[q]) => Confirmed(round[q], values[q])'
        <3>1. ASSUME NEW r \in Rounds, NEW S \in SUBSET Values, Confirmed(r, S)
              PROVE  S # {} /\ {n \in Nodes : conf'[n][r] = S} \in Quorum
            BY <3>1, SendConfConfirms DEF ConfirmedStays, Confirmed
        <3> QED
            BY <1>1, <2>1, <3>1 DEF Confirmed
    <2> QED
        BY <2>2, <2>3, <2>4, SendConfConfirms DEF ConfirmedStays
<1>9. EstimatesNext'
    <2> SUFFICES ASSUME NEW q \in Nodes, NEW x \in CoinRounds, NEW w \in estSent[q][x + 1]
                 PROVE  Follows(x, w)' /\ \E n \in Nodes : round[n] >= x + 1
        BY <1>1 DEF EstimatesNext
    <2>1. Follows(x, w) /\ \E n \in Nodes : round[n] >= x + 1
        BY DEF EstimatesNext
    <2> QED
        BY <1>1, <2>1, FollowsStays, SendConfConfirms, Constants
<1>10. EstimatesProposed'
    BY <1>1 DEF EstimatesProposed
<1>11. DecisionsConfirmed'
    <2> SUFFICES ASSUME NEW q \in Nodes, decision[q] # None
                 PROVE  \E r \in CoinRounds : Confirmed(r, {decision[q]})'
        BY <1>1 DEF DecisionsConfirmed, Confirmed
    <2>1. PICK r \in CoinRounds : Confirmed(r, {decision[q]})
        BY DEF DecisionsConfirmed
    <2>2. {decision[q]} \in SUBSET Values /\ r \in Rounds
        BY Constants DEF TypeOK
    <2>3. ASSUME NEW S \in SUBSET Values, Confirmed(r, S)
          PROVE  S # {} /\ {n \in Nodes : conf'[n][r] = S} \in Quorum
        BY <2>2, <2>3, SendConfConfirms DEF ConfirmedStays, Confirmed
    <2> QED
        BY <1>1, <2>1, <2>2, <2>3 DEF Confirmed
<1> QED
    BY <1>3, <1>4, <1>5, <1>6, <1>7, <1>8, <1>9, <1>10, <1>11, SendConfLocked
-----------------------------------------------------------------------------
(***************************************************************************)
(* An EST is sent.                                                         *)
(***************************************************************************)

\* A set with at least f + 1 nodes is not empty.
LEMMA SomeSender ==
    ASSUME NEW A \in SUBSET Nodes, Cardinality(A) >= F + 1
    PROVE  \E q \in Nodes : q \in A
<1>1. Nodes \in Quorum
    BY FaultNumbers
<1> QED
    BY <1>1, MajorityMeets

LEMMA RelayEstKeeps ==
    ASSUME TvaInv, NEW p \in Nodes, NEW r \in CoinRounds, NEW v \in Values, RelayEst(p, r, v)
    PROVE  TvaInv'
<1> USE DEF TvaInv
<1>1. /\ estSent' = [estSent EXCEPT ![p][r] = @ \cup {v}]
      /\ UNCHANGED <<proposal, round, pc, aux, conf, values, shared, intValues,
                     coin, decision, stopped, crashed, cut>>
      /\ Cardinality(EstSenders(p, r, v)) >= F + 1
    BY DEF RelayEst, RelayDue, loopVars, endVars
<1>2. r \in Rounds
    BY Constants
<1>3. PICK n \in Nodes : v \in estSent[n][r]
    <2>1. EstSenders(p, r, v) \in SUBSET Nodes
        BY DEF EstSenders, Reaching
    <2>2. \E q \in Nodes : q \in EstSenders(p, r, v)
        BY <1>1, <2>1, SomeSender
    <2> QED
        BY <2>2 DEF EstSenders
<1>4. Justified(r, v)
    <2>1. \E q \in Nodes : proposal'[q] = v
        BY <1>1, <1>2, <1>3 DEF EstimatesProposed
    <2>2. ASSUME r # 0
          PROVE  Follows(r - 1, v) /\ \E q \in Nodes : round'[q] >= r
        <3> DEFINE x == r - 1
        <3>1. x \in CoinRounds /\ x + 1 = r
            BY <1>2, <2>2, Constants
        <3> HIDE DEF x
        <3>2. v \in estSent[n][x + 1]
            BY <1>3, <3>1
        <3>3. Follows(x, v) /\ \E q \in Nodes : round[q] >= x + 1
            BY <3>1, <3>2 DEF EstimatesNext
        <3> QED
            BY <1>1, <3>1, <3>3 DEF x
    <2>3. \A x \in Rounds, w \in Values : x < r /\ Confirmed(x, {w}) => w = v
        BY <1>2, <1>3, Constants DEF Locked
    <2> QED
        BY <2>1, <2>2, <2>3 DEF Justified
<1>5. \A q \in Nodes : round[q] \in Nat /\ round'[q] \in Nat /\ round'[q] >= round[q]
    BY <1>1, Constants DEF TypeOK
<1>6. ValuesFlow' /\ EstimatesNext' /\ Locked' /\ EstimatesProposed'
    BY <1>1, <1>2, <1>4, <1>5, EstimateKeeps
<1>7. TypeOK'
    <2>1. estSent' \in [Nodes -> [Rounds -> SUBSET Values]]
        BY <1>1, <1>2, EstSentStep
    <2> QED
        BY <1>1, <2>1 DEF TypeOK
<1>8. InputFirst' /\ BinFirst' /\ ConfOnce'
    BY <1>1 DEF InputFirst, BinFirst, ConfOnce
<1>9. CoinConfirmed' /\ DecisionsConfirmed'
    BY <1>1, SameConfirmed DEF CoinConfirmed, DecisionsConfirmed
<1> QED
    BY <1>6, <1>7, <1>8, <1>9

LEMMA InputKeeps ==
    ASSUME TvaInv, NEW p \in Nodes, NEW v \in Inputs, Input(p, v)
    PROVE  TvaInv'
<1> USE DEF TvaInv
<1>1. /\ pc[p] = "input"
      /\ proposal' = [proposal EXCEPT ![p] = v]
      /\ round' = [round EXCEPT ![p] = 0]
      /\ pc' = [pc EXCEPT ![p] = "bin"]
      /\ estSent' = [estSent EXCEPT ![p][0] = @ \cup {v}]
      /\ UNCHANGED <<aux, conf, values, shared, intValues, coin, decision,
                     stopped, crashed, cut>>
    BY DEF Input, InputDue, EnterRound, endVars
<1>2. v \in Values /\ 0 \in Rounds /\ v # None
    BY Constants
<1>3. proposal[p] = None /\ round[p] = 0
    BY <1>1 DEF InputFirst
<1>4. round' = round
    BY <1>1, <1>3 DEF TypeOK
<1>5. /\ proposal'[p] = v /\ pc'[p] = "bin"
      /\ \A q \in Nodes \ {p} : proposal'[q] = proposal[q] /\ pc'[q] = pc[q]
    BY <1>1 DEF TypeOK
<1>6. Justified(0, v)
    <2>1. \A x \in Rounds : ~ (x < 0)
        BY Constants
    <2> QED
        BY <1>5, <2>1 DEF Justified
<1>7. \A q \in Nodes : round[q] \in Nat /\ round'[q] \in Nat /\ round'[q] >= round[q]
    BY <1>4, Constants DEF TypeOK
<1>8. \A q \in Nodes : proposal[q] # None => proposal'[q] = proposal[q]
    BY <1>3, <1>5
<1>9. ValuesFlow' /\ EstimatesNext' /\ Locked' /\ EstimatesProposed'
    BY <1>1, <1>2, <1>6, <1>7, <1>8, EstimateKeeps
<1>10. TypeOK'
    <2>1. estSent' \in [Nodes -> [Rounds -> SUBSET Values]]
        BY <1>1, <1>2, EstSentStep
    <2>2. proposal' \in [Nodes -> Values \cup {None}] /\ pc' \in [Nodes -> Pcs]
        BY <1>1, <1>2 DEF TypeOK, Pcs
    <2> QED
        BY <1>1, <1>4, <2>1, <2>2 DEF TypeOK
<1>11. InputFirst'
    BY <1>2, <1>4, <1>5 DEF InputFirst
<1>12. BinFirst'
    BY <1>1, <1>4, <1>5 DEF BinFirst
<1>13. ConfOnce'
    BY <1>1, <1>4, <1>5 DEF ConfOnce
<1>14. CoinConfirmed'
    <2>1. \A q \in Nodes : pc'[q] = "coin" => pc[q] = "coin"
        BY <1>5
    <2> QED
        BY <1>1, <1>4, <2>1, SameConfirmed DEF CoinConfirmed
<1>15. DecisionsConfirmed'
    BY <1>1, SameConfirmed DEF DecisionsConfirmed
<1> QED
    BY <1>9, <1>10, <1>11, <1>12, <1>13, <1>14, <1>15

\* What a node does with the coin.
LEMMA UseCoinFacts ==
    ASSUME TvaInv, NEW p \in Nodes, UseCoin(p)
    PROVE  LET r == round[p]
               v == NextEst(values[p], coin[r])
           IN  /\ r \in CoinRounds /\ r \in Rounds /\ r + 1 \in Rounds /\ r \in Nat
               /\ Confirmed(r, values[p])
               /\ values[p] \in SUBSET Values
               /\ v \in values[p] /\ v \in Values
               /\ \A w : values[p] = {w} => v = w
               /\ pc[p] = "coin"
               /\ round' = [round EXCEPT ![p] = r + 1]
               /\ pc' = [pc EXCEPT ![p] = "bin"]
               /\ estSent' = [estSent EXCEPT ![p][r + 1] = @ \cup {v}]
               /\ decision' = [decision EXCEPT ![p] =
                      IF @ = None /\ values[p] = {v} /\ v % 2 = coin[r] THEN v ELSE @]
               /\ UNCHANGED <<proposal, aux, conf, values, shared, intValues, coin,
                              stopped, crashed, cut>>
<1> USE DEF TvaInv
<1> DEFINE r == round[p]
           v == NextEst(values[p], coin[r])
<1>1. /\ pc[p] = "coin"
      /\ round' = [round EXCEPT ![p] = r + 1]
      /\ pc' = [pc EXCEPT ![p] = "bin"]
      /\ estSent' = [estSent EXCEPT ![p][r + 1] = @ \cup {v}]
      /\ decision' = [decision EXCEPT ![p] =
             IF @ = None /\ values[p] = {v} /\ v % 2 = coin[r] THEN v ELSE @]
      /\ UNCHANGED <<proposal, aux, conf, values, shared, intValues, coin,
                     stopped, crashed, cut>>
    BY DEF UseCoin, CoinIn, EnterRound, endVars
<1>2. r \in Rounds /\ values[p] \in SUBSET Values
    BY DEF TypeOK
<1>3. coin[r] \in {0, 1}
    BY <1>2 DEF TypeOK
<1>4. r \in CoinRounds /\ Confirmed(r, values[p])
    BY <1>1, <1>2 DEF BinFirst, CoinConfirmed
<1>5. r + 1 \in Rounds /\ r \in Nat
    BY <1>4, Constants
<1>6. v \in values[p] /\ \A w : values[p] = {w} => v = w
    <2>1. values[p] # {}
        BY <1>4 DEF Confirmed
    <2> QED
        BY <1>2, <1>3, <2>1, NextEstValue
<1> HIDE DEF v
<1> QED
    BY <1>1, <1>2, <1>4, <1>5, <1>6 DEF v

LEMMA UseCoinJustified ==
    ASSUME TvaInv, NEW p \in Nodes, UseCoin(p)
    PROVE  Justified(round[p] + 1, NextEst(values[p], coin[round[p]]))
<1> USE DEF TvaInv
<1> DEFINE r == round[p]
           v == NextEst(values[p], coin[r])
<1>1. /\ r \in Rounds /\ r \in Nat
      /\ Confirmed(r, values[p]) /\ values[p] \in SUBSET Values
      /\ v \in values[p] /\ \A w : values[p] = {w} => v = w
      /\ round' = [round EXCEPT ![p] = r + 1]
      /\ proposal' = proposal
    BY UseCoinFacts
<1>2. \E q \in Nodes : proposal'[q] = v
    <2>1. PICK n \in Nodes : values[p] \subseteq estSent[n][r]
        BY <1>1, ConfirmedEstimated
    <2>2. v \in estSent[n][r]
        BY <1>1, <2>1
    <2> QED
        BY <1>1, <2>2 DEF EstimatesProposed
<1>3. Follows(r, v)
    BY <1>1 DEF Follows
<1>4. round'[p] = r + 1
    BY <1>1 DEF TypeOK
<1>5. ASSUME NEW x \in Rounds, NEW w \in Values, x < r + 1, Confirmed(x, {w})
      PROVE  w = v
    <2>1. x <= r
        BY <1>1, <1>5, Constants
    <2>2. values[p] = {w}
        BY <1>1, <1>5, <2>1, LockHolds
    <2> QED
        BY <1>1, <2>2
<1> HIDE DEF v
<1>6. r + 1 # 0 /\ (r + 1) - 1 = r /\ \E q \in Nodes : round'[q] >= r + 1
    BY <1>1, <1>4
<1>7. Justified(r + 1, v)
    BY <1>2, <1>3, <1>5, <1>6 DEF Justified
<1> QED
    BY <1>7 DEF v

LEMMA UseCoinKeeps ==
    ASSUME TvaInv, NEW p \in Nodes, UseCoin(p)
    PROVE  TvaInv'
<1> USE DEF TvaInv
<1> DEFINE r == round[p]
           v == NextEst(values[p], coin[r])
<1>1. /\ r \in CoinRounds /\ r \in Rounds /\ r + 1 \in Rounds /\ r \in Nat
      /\ Confirmed(r, values[p])
      /\ v \in Values /\ v \in values[p]
      /\ pc[p] = "coin"
      /\ round' = [round EXCEPT ![p] = r + 1]
      /\ pc' = [pc EXCEPT ![p] = "bin"]
      /\ estSent' = [estSent EXCEPT ![p][r + 1] = @ \cup {v}]
      /\ decision' = [decision EXCEPT ![p] =
             IF @ = None /\ values[p] = {v} /\ v % 2 = coin[r] THEN v ELSE @]
      /\ UNCHANGED <<proposal, aux, conf, values, shared, intValues, coin,
                     stopped, crashed, cut>>
    BY UseCoinFacts
<1>2. Justified(r + 1, v)
    BY UseCoinJustified
<1> HIDE DEF v
<1>3. /\ round'[p] = r + 1 /\ pc'[p] = "bin"
      /\ \A q \in Nodes \ {p} : round'[q] = round[q] /\ pc'[q] = pc[q]
      /\ \A q \in Nodes : decision'[q] = decision[q] \/ values[p] = {decision'[q]}
    BY <1>1 DEF TypeOK
<1>4. \A q \in Nodes : round[q] \in Nat /\ round'[q] \in Nat /\ round'[q] >= round[q]
    BY <1>1, <1>3, Constants DEF TypeOK
<1>5. ValuesFlow' /\ EstimatesNext' /\ Locked' /\ EstimatesProposed'
    <2> DEFINE x == r + 1
    <2>1. x \in Rounds /\ estSent' = [estSent EXCEPT ![p][x] = @ \cup {v}] /\ Justified(x, v)
        BY <1>1, <1>2
    <2> HIDE DEF x, r
    <2> QED
        BY <1>1, <1>4, <2>1, EstimateKeeps
<1>6. TypeOK'
    <2>1. estSent' \in [Nodes -> [Rounds -> SUBSET Values]]
        <3> DEFINE x == r + 1
        <3>1. /\ x \in Rounds /\ v \in Values /\ TypeOK
              /\ estSent' = [estSent EXCEPT ![p][x] = @ \cup {v}]
            BY <1>1
        <3> HIDE DEF x, r
        <3> QED
            BY <3>1, EstSentStep
    <2>2. decision' \in [Nodes -> Values \cup {None}]
        BY <1>1 DEF TypeOK
    <2>3. round' \in [Nodes -> Rounds] /\ pc' \in [Nodes -> Pcs]
        BY <1>1 DEF TypeOK, Pcs
    <2> QED
        BY <1>1, <2>1, <2>2, <2>3 DEF TypeOK
<1>7. InputFirst'
    <2>1. proposal[p] # None
        BY <1>1 DEF InputFirst
    <2> QED
        BY <1>1, <1>3, <2>1 DEF InputFirst
<1>8. BinFirst'
    BY <1>1, <1>3 DEF BinFirst
<1>9. ConfOnce'
    <2> SUFFICES ASSUME NEW q \in Nodes, NEW x \in Rounds,
                        \/ x > round'[q]
                        \/ x = round'[q] /\ pc'[q] \in {"input", "bin", "aux"}
                 PROVE  conf[q][x] = {}
        BY <1>1 DEF ConfOnce
    <2>1. CASE q = p
        <3>1. x > r
            BY <1>1, <1>3, <2>1, Constants
        <3> QED
            BY <2>1, <3>1 DEF ConfOnce
    <2>2. CASE q # p
        BY <1>3, <2>2 DEF ConfOnce
    <2> QED
        BY <2>1, <2>2
<1>10. CoinConfirmed'
    <2> SUFFICES ASSUME NEW q \in Nodes
                 PROVE  /\ pc'[q] = "coin" => Confirmed(round'[q], values[q])
                        /\ \A x \in Rounds : x < round'[q] =>
                               \E S \in SUBSET Values : Confirmed(x, S)
        BY <1>1, SameConfirmed DEF CoinConfirmed
    <2>1. CASE q = p
        <3>1. values[p] \in SUBSET Values
            BY DEF TypeOK
        <3>2. \A x \in Rounds : x < r => \E S \in SUBSET Values : Confirmed(x, S)
            BY DEF CoinConfirmed
        <3>3. \A x \in Rounds : x < r + 1 => x < r \/ x = r
            BY <1>1, Constants
        <3> QED
            BY <1>1, <1>3, <2>1, <3>1, <3>2, <3>3
    <2>2. CASE q # p
        BY <1>3, <2>2 DEF CoinConfirmed
    <2> QED
        BY <2>1, <2>2
<1>11. DecisionsConfirmed'
    <2> SUFFICES ASSUME NEW q \in Nodes, decision'[q] # None
                 PROVE  \E x \in CoinRounds : Confirmed(x, {decision'[q]})
        BY <1>1, SameConfirmed DEF DecisionsConfirmed
    <2>1. CASE decision'[q] = decision[q]
        BY <2>1 DEF DecisionsConfirmed
    <2>2. CASE values[p] = {decision'[q]}
        BY <1>1, <2>2
    <2> QED
        BY <1>3, <2>1, <2>2
<1> QED
    BY <1>5, <1>6, <1>7, <1>8, <1>9, <1>10, <1>11
-----------------------------------------------------------------------------
LEMMA StepKeeps == TvaInv /\ [Next]_tvaVars => TvaInv'
<1> SUFFICES ASSUME TvaInv, [Next]_tvaVars
             PROVE  TvaInv'
    OBVIOUS
<1>1. ASSUME NEW p \in Nodes, Receive(p)
      PROVE  TvaInv'
    <2>1. CASE \E r \in CoinRounds, v \in Values : RelayEst(p, r, v) \/ AddIntValue(p, r, v)
        BY <2>1, RelayEstKeeps, AddIntValueKeeps
    <2>2. CASE \E v \in Values : AdoptFinish(p, v)
        BY <2>2, AdoptFinishKeeps
    <2> QED
        BY <1>1, <2>1, <2>2 DEF Receive
<1>2. ASSUME NEW p \in Nodes, MainLoop(p)
      PROVE  TvaInv'
    <2>1. CASE \E v \in Inputs : Input(p, v)
        BY <2>1, InputKeeps
    <2>2. CASE \E w \in Values : SendAux(p, w)
        BY <2>2, SendAuxKeeps
    <2>3. CASE SendConf(p)
        BY <2>3, SendConfKeeps
    <2>4. CASE EndConf(p)
        BY <2>4, EndConfKeeps
    <2>5. CASE UseCoin(p)
        BY <2>5, UseCoinKeeps
    <2>6. CASE Stop(p)
        BY <2>6, EndKeeps
    <2> QED
        BY <1>2, <2>1, <2>2, <2>3, <2>4, <2>5, <2>6 DEF MainLoop
<1>3. ASSUME NEW p \in Nodes, Crash(p)
      PROVE  TvaInv'
    BY <1>3, EndKeeps
<1>4. CASE UNCHANGED tvaVars
    <2>1. UNCHANGED <<proposal, round, pc, aux, conf, values, shared, estSent,
                      intValues, coin, decision, stopped, crashed, cut>>
        BY <1>4 DEF tvaVars, loopVars, endVars
    <2>2. TypeOK' /\ InputFirst' /\ BinFirst' /\ ConfOnce' /\ ValuesFlow'
        BY <2>1 DEF TvaInv, TypeOK, InputFirst, BinFirst, ConfOnce, ValuesFlow
    <2>3. CoinConfirmed' /\ DecisionsConfirmed'
        BY <2>1, SameConfirmed DEF TvaInv, CoinConfirmed, DecisionsConfirmed
    <2> QED
        BY <2>1, <2>2, <2>3, QuietKeeps DEF TvaInv
<1> QED
    BY <1>1, <1>2, <1>3, <1>4 DEF Next, Progress

\* TvaInv holds in every reachable state.
THEOREM TvaInvariant == Spec => []TvaInv
<1> QED
    BY InitHolds, StepKeeps, PTL DEF Spec

\* Every variable keeps its type, in every reachable state.
THEOREM AgreementTypes == Spec => []TypeOK
<1>1. TvaInv => TypeOK
    BY DEF TvaInv
<1> QED
    BY <1>1, TvaInvariant, PTL

\* All nodes that take the coin of a round take it with the same values.
THEOREM CoinValuesAgree == Spec => []SameValues
<1>1. TvaInv => SameValues
    BY ConfirmedOnce DEF TvaInv, CoinConfirmed, SameValues
<1> QED
    BY <1>1, TvaInvariant, PTL

\* After round 0 only one value is estimated in a round.
THEOREM SingleEstimate == Spec => []OneEstimate
<1>1. ASSUME TvaInv PROVE OneEstimate
    <2> SUFFICES ASSUME NEW p \in Nodes, NEW q \in Nodes, NEW r \in Rounds \ {0},
                        NEW v \in estSent[p][r], NEW w \in estSent[q][r]
                 PROVE  v = w
        BY DEF OneEstimate
    <2> DEFINE x == r - 1
    <2>1. x \in CoinRounds /\ x + 1 = r
        BY Constants
    <2> HIDE DEF x
    <2>2. v \in estSent[p][x + 1] /\ w \in estSent[q][x + 1]
        BY <2>1
    <2>3. Follows(x, v) /\ Follows(x, w)
        BY <1>1, <2>1, <2>2 DEF TvaInv, EstimatesNext
    <2> QED
        BY <2>3, ConfirmedOnce DEF Follows
<1> QED
    BY <1>1, TvaInvariant, PTL
-----------------------------------------------------------------------------
(***************************************************************************)
(* The agreement implements TwoValueSpec.                                  *)
(***************************************************************************)

\* What was confirmed alone is what everybody decides, and it was proposed.
LEMMA DecisionsEqual ==
    ASSUME TvaInv, NEW r \in Rounds, NEW v \in Values, Confirmed(r, {v})
    PROVE  /\ \A q \in Nodes : decision[q] \in {v, None}
           /\ \E q \in Nodes : proposal[q] = v
<1>1. ASSUME NEW q \in Nodes, decision[q] # None
      PROVE  decision[q] = v
    <2>1. PICK x \in CoinRounds : Confirmed(x, {decision[q]})
        BY <1>1 DEF TvaInv, DecisionsConfirmed
    <2>2. x \in Rounds /\ decision[q] \in Values
        BY <1>1, Constants DEF TvaInv, TypeOK
    <2>3. CASE x <= r
        <3>1. {v} = {decision[q]}
            BY <2>1, <2>2, <2>3, LockHolds
        <3> QED
            BY <3>1
    <2>4. CASE ~ (x <= r)
        <3>1. r <= x
            BY <2>2, <2>4, Constants
        <3>2. {decision[q]} = {v}
            BY <2>1, <2>2, <3>1, LockHolds
        <3> QED
            BY <3>2
    <2> QED
        BY <2>3, <2>4
<1>2. PICK n \in Nodes : {v} \subseteq estSent[n][r]
    BY ConfirmedEstimated DEF TvaInv
<1>3. \E q \in Nodes : proposal[q] = v
    BY <1>2 DEF TvaInv, EstimatesProposed
<1> QED
    BY <1>1, <1>3

LEMMA RefinesInit == Init => Promise!Init
BY DEF Init, Promise!Init

LEMMA StepRefines == TvaInv /\ [Next]_tvaVars => [Promise!Next]_Promise!specVars
<1> SUFFICES ASSUME TvaInv, [Next]_tvaVars
             PROVE  Promise!Next \/ UNCHANGED <<proposal, decision>>
    BY DEF Promise!specVars
<1>1. ASSUME NEW p \in Nodes, NEW v \in Inputs, Input(p, v)
      PROVE  Promise!Propose(p, v) /\ v \in Values
    <2>1. proposal[p] = None
        BY <1>1 DEF Input, InputDue, TvaInv, InputFirst
    <2> QED
        BY <1>1, <2>1, Constants DEF Input, InputDue, Promise!Propose
<1>2. ASSUME NEW p \in Nodes, UseCoin(p)
      PROVE  (\E v \in Values : Promise!Decide(p, v)) \/ UNCHANGED <<proposal, decision>>
    <2> DEFINE r == round[p]
               v == NextEst(values[p], coin[r])
    <2>1. /\ r \in Rounds /\ Confirmed(r, values[p]) /\ v \in Values
          /\ proposal' = proposal
          /\ decision' = [decision EXCEPT ![p] =
                 IF @ = None /\ values[p] = {v} /\ v % 2 = coin[r] THEN v ELSE @]
        BY <1>2, UseCoinFacts
    <2> HIDE DEF v
    <2>2. CASE decision[p] = None /\ values[p] = {v} /\ v % 2 = coin[r]
        <3>1. decision' = [decision EXCEPT ![p] = v]
            BY <2>1, <2>2
        <3>2. /\ \A q \in Nodes : decision[q] \in {v, None}
              /\ \E q \in Nodes : proposal[q] = v
            BY <2>1, <2>2, DecisionsEqual
        <3> QED
            BY <2>1, <2>2, <3>1, <3>2 DEF Promise!Decide, Promise!MayDecide
    <2>3. CASE ~ (decision[p] = None /\ values[p] = {v} /\ v % 2 = coin[r])
        <3>1. decision' = [decision EXCEPT ![p] = decision[p]]
            BY <2>1, <2>3
        <3> QED
            BY <2>1, <3>1 DEF TvaInv, TypeOK
    <2> QED
        BY <2>2, <2>3
<1>3. ASSUME NEW p \in Nodes, NEW v \in Values, AdoptFinish(p, v)
      PROVE  Promise!Decide(p, v)
    <2>1. /\ decision[p] = None
          /\ decision' = [decision EXCEPT ![p] = v]
          /\ proposal' = proposal
        BY <1>3 DEF AdoptFinish, FinishesIn
    <2>2. PICK q \in Nodes : decision[q] = v
        BY <1>3 DEF AdoptFinish, FinishesIn, FinishSenders, Reaching
    <2>3. PICK r \in CoinRounds : Confirmed(r, {v})
        BY <2>2, Constants DEF TvaInv, DecisionsConfirmed
    <2>4. /\ \A n \in Nodes : decision[n] \in {v, None}
          /\ \E n \in Nodes : proposal[n] = v
        BY <2>3, DecisionsEqual, Constants
    <2> QED
        BY <2>1, <2>4 DEF Promise!Decide, Promise!MayDecide
<1>4. ASSUME NEW p \in Nodes, Receive(p)
      PROVE  Promise!Next \/ UNCHANGED <<proposal, decision>>
    <2>1. CASE \E r \in CoinRounds, v \in Values : RelayEst(p, r, v) \/ AddIntValue(p, r, v)
        BY <2>1 DEF RelayEst, RelayDue, AddIntValue, IntValueDue
    <2>2. CASE \E v \in Values : AdoptFinish(p, v)
        BY <2>2, <1>3 DEF Promise!Next
    <2> QED
        BY <1>4, <2>1, <2>2 DEF Receive
<1>5. ASSUME NEW p \in Nodes, MainLoop(p)
      PROVE  Promise!Next \/ UNCHANGED <<proposal, decision>>
    <2>1. CASE \E v \in Inputs : Input(p, v)
        BY <2>1, <1>1 DEF Promise!Next
    <2>2. CASE (\E w \in Values : SendAux(p, w)) \/ SendConf(p) \/ EndConf(p) \/ Stop(p)
        BY <2>2 DEF SendAux, AuxDue, SendConf, ConfDue, EndConf, ConfsIn, Stop, StopDue
    <2>3. CASE UseCoin(p)
        BY <2>3, <1>2 DEF Promise!Next
    <2> QED
        BY <1>5, <2>1, <2>2, <2>3 DEF MainLoop
<1>6. ASSUME NEW p \in Nodes, Crash(p)
      PROVE  UNCHANGED <<proposal, decision>>
    BY <1>6 DEF Crash
<1>7. CASE UNCHANGED tvaVars
    BY <1>7 DEF tvaVars
<1> QED
    BY <1>4, <1>5, <1>6, <1>7 DEF Next, Progress

\* Decisions are equal and proposed, whatever crashes and however slow.
THEOREM AgreementImplements == Spec => ImplementsPromise
<1> QED
    BY RefinesInit, StepRefines, TvaInvariant, PTL
    DEF Spec, ImplementsPromise, Promise!Spec
-----------------------------------------------------------------------------
(***************************************************************************)
(* With equal inputs every live node decides.  The argument: once nothing  *)
(* can happen, in the earliest round that a live node is in all the live   *)
(* ones, which are a quorum and reach everybody, have sent all of the      *)
(* round, so that none of them waits in it; a node that stopped would mean *)
(* FINISHs enough for all others.                                          *)
(***************************************************************************)
\* The node is past round r, or in it and in one of the phases.
Reached(p, r, phases) == r < round[p] \/ (r = round[p] /\ pc[p] \in phases)

\* What a node has sent by the time it waits for the answers.
SentBefore(p, r) ==
    /\ Reached(p, r, {"bin", "aux", "conf", "coin"}) => estSent[p][r] # {}
    /\ Reached(p, r, {"aux", "conf", "coin"}) => aux[p][r] \in intValues[p][r]
    /\ Reached(p, r, {"conf", "coin"}) => conf[p][r] # {}
    /\ Reached(p, r, {"coin"}) => p \in shared[r]

TvaSent == \A p \in Nodes, r \in Rounds : SentBefore(p, r)

Deciders == {q \in Nodes : decision[q] # None}

\* Who stopped had 2f FINISHs, and only those of the dead are lost.
TvaEnds ==
    /\ stopped \subseteq Deciders
    /\ stopped # {} => Cardinality(Deciders) >= 2 * F
    /\ Cardinality(crashed) <= F
    /\ \A q \in Nodes : cut[q] # {} => q \in crashed

WaitInv == TvaInv /\ TvaSent /\ TvaEnds

LEMMA InitWaits == Init => TvaSent /\ TvaEnds
<1> SUFFICES ASSUME Init PROVE TvaSent /\ TvaEnds
    OBVIOUS
<1>1. TvaSent
    BY Constants DEF Init, TvaSent, SentBefore, Reached
<1>2. Cardinality(crashed) = 0
    BY FS_EmptySet DEF Init
<1> QED
    BY <1>1, <1>2, FaultNumbers DEF Init, TvaEnds, Deciders

\* A step that moves no main loop.
LEMMA ReceiveSent ==
    ASSUME TypeOK, TvaSent, UNCHANGED <<round, pc, aux, conf, shared>>,
           \A q \in Nodes, x \in Rounds : /\ estSent[q][x] \subseteq estSent'[q][x]
                                          /\ intValues[q][x] \subseteq intValues'[q][x]
    PROVE  TvaSent'
<1> SUFFICES ASSUME NEW q \in Nodes, NEW x \in Rounds
             PROVE  SentBefore(q, x)'
    BY DEF TvaSent
<1>1. SentBefore(q, x)
    BY DEF TvaSent
<1> QED
    BY <1>1 DEF SentBefore, Reached

LEMMA AddIntGrows ==
    ASSUME TypeOK, NEW p \in Nodes, NEW r \in Rounds, NEW v,
           intValues' = [intValues EXCEPT ![p][r] = @ \cup {v}]
    PROVE  \A q \in Nodes, x \in Rounds : intValues[q][x] \subseteq intValues'[q][x]
<1> DEFINE f == [intValues[p] EXCEPT ![r] = @ \cup {v}]
<1>1. \A x \in Rounds : intValues[p][x] \subseteq f[x]
    BY DEF TypeOK
<1>2. intValues' = [intValues EXCEPT ![p] = f]
    OBVIOUS
<1> HIDE DEF f
<1>3. \A q \in Nodes : intValues'[q] = IF q = p THEN f ELSE intValues[q]
    BY <1>2 DEF TypeOK
<1> QED
    BY <1>1, <1>3

LEMMA InputSent ==
    ASSUME TvaInv, TvaSent, NEW p \in Nodes, NEW v \in Inputs, Input(p, v)
    PROVE  TvaSent'
<1>1. /\ pc[p] = "input" /\ round[p] = 0
      /\ round' = [round EXCEPT ![p] = 0]
      /\ pc' = [pc EXCEPT ![p] = "bin"]
      /\ estSent' = [estSent EXCEPT ![p][0] = @ \cup {v}]
      /\ UNCHANGED <<intValues, aux, conf, shared>>
    BY DEF Input, InputDue, EnterRound, TvaInv, InputFirst
<1>2. /\ TypeOK /\ 0 \in Rounds /\ v \in Values
      /\ \A r \in Rounds : r \in Nat
    BY Constants DEF TvaInv
<1>3. \A q \in Nodes, x \in Rounds :
          estSent'[q][x] = IF q = p /\ x = 0 THEN estSent[q][x] \cup {v} ELSE estSent[q][x]
    BY <1>1, <1>2, EstSentStep
<1>4. /\ round'[p] = 0 /\ pc'[p] = "bin"
      /\ \A q \in Nodes \ {p} : round'[q] = round[q] /\ pc'[q] = pc[q]
    BY <1>1, <1>2 DEF TypeOK
<1> SUFFICES ASSUME NEW q \in Nodes, NEW x \in Rounds
             PROVE  SentBefore(q, x)'
    BY DEF TvaSent
<1>5. SentBefore(q, x) /\ x \in Nat
    BY <1>2 DEF TvaSent
<1>6. CASE q = p
    <2>1. ~ (x < round'[q]) /\ (x = round'[q] => x = 0)
        BY <1>4, <1>5, <1>6
    <2> QED
        BY <1>3, <1>4, <1>6, <2>1 DEF SentBefore, Reached
<1>7. CASE q # p
    BY <1>1, <1>3, <1>4, <1>5, <1>7 DEF SentBefore, Reached
<1> QED
    BY <1>6, <1>7

LEMMA SendAuxSent ==
    ASSUME TvaInv, TvaSent, NEW p \in Nodes, NEW w \in Values, SendAux(p, w)
    PROVE  TvaSent'
<1> PICK r \in Rounds : r = round[p]
    BY DEF TvaInv, TypeOK
<1>1. /\ pc[p] = "bin"
      /\ w \in intValues[p][r]
      /\ aux' = [aux EXCEPT ![p][r] = w]
      /\ pc' = [pc EXCEPT ![p] = "aux"]
      /\ UNCHANGED <<round, conf, shared, estSent, intValues>>
    BY DEF SendAux, AuxDue
<1>2. /\ pc'[p] = "aux"
      /\ \A q \in Nodes \ {p} : pc'[q] = pc[q]
      /\ \A q \in Nodes, x \in Rounds :
             aux'[q][x] = IF q = p /\ x = r THEN w ELSE aux[q][x]
    BY <1>1 DEF TvaInv, TypeOK
<1>3. \A q \in Nodes : round[q] \in Nat
    BY Constants DEF TvaInv, TypeOK
<1> SUFFICES ASSUME NEW q \in Nodes, NEW x \in Rounds
             PROVE  SentBefore(q, x)'
    BY DEF TvaSent
<1>5. SentBefore(q, x) /\ x \in Nat
    BY Constants DEF TvaSent
<1>6. CASE q = p /\ x = r
    BY <1>1, <1>2, <1>3, <1>5, <1>6 DEF SentBefore, Reached
<1>7. CASE ~ (q = p /\ x = r)
    BY <1>1, <1>2, <1>5, <1>7 DEF SentBefore, Reached
<1> QED
    BY <1>6, <1>7

LEMMA SendConfSent ==
    ASSUME TvaInv, TvaSent, NEW p \in Nodes, SendConf(p)
    PROVE  TvaSent'
<1> PICK r \in Rounds : r = round[p]
    BY DEF TvaInv, TypeOK
<1>1. /\ pc[p] = "aux"
      /\ conf' = [conf EXCEPT ![p][r] = intValues[p][r]]
      /\ pc' = [pc EXCEPT ![p] = "conf"]
      /\ UNCHANGED <<round, aux, shared, estSent, intValues>>
    BY DEF SendConf, ConfDue
<1>2. /\ pc'[p] = "conf"
      /\ \A q \in Nodes \ {p} : pc'[q] = pc[q]
      /\ \A q \in Nodes, x \in Rounds :
             conf'[q][x] = IF q = p /\ x = r THEN intValues[p][r] ELSE conf[q][x]
    BY <1>1 DEF TvaInv, TypeOK
<1>3. intValues[p][r] # {}
    BY <1>1 DEF TvaInv, BinFirst
<1>4. \A q \in Nodes : round[q] \in Nat
    BY Constants DEF TvaInv, TypeOK
<1> SUFFICES ASSUME NEW q \in Nodes, NEW x \in Rounds
             PROVE  SentBefore(q, x)'
    BY DEF TvaSent
<1>5. SentBefore(q, x) /\ x \in Nat
    BY Constants DEF TvaSent
<1>6. CASE q = p /\ x = r
    BY <1>1, <1>2, <1>3, <1>4, <1>5, <1>6 DEF SentBefore, Reached
<1>7. CASE ~ (q = p /\ x = r)
    BY <1>1, <1>2, <1>5, <1>7 DEF SentBefore, Reached
<1> QED
    BY <1>6, <1>7

LEMMA EndConfSent ==
    ASSUME TvaInv, TvaSent, NEW p \in Nodes, EndConf(p)
    PROVE  TvaSent'
<1> PICK r \in Rounds : r = round[p]
    BY DEF TvaInv, TypeOK
<1>1. /\ pc[p] = "conf"
      /\ shared' = [shared EXCEPT ![r] = @ \cup {p}]
      /\ pc' = [pc EXCEPT ![p] = "coin"]
      /\ UNCHANGED <<round, aux, conf, estSent, intValues>>
    BY DEF EndConf, ConfsIn
<1>2. /\ pc'[p] = "coin"
      /\ \A q \in Nodes \ {p} : pc'[q] = pc[q]
      /\ \A x \in Rounds : shared[x] \subseteq shared'[x]
      /\ p \in shared'[r]
    BY <1>1 DEF TvaInv, TypeOK
<1>4. \A q \in Nodes : round[q] \in Nat
    BY Constants DEF TvaInv, TypeOK
<1> SUFFICES ASSUME NEW q \in Nodes, NEW x \in Rounds
             PROVE  SentBefore(q, x)'
    BY DEF TvaSent
<1>5. SentBefore(q, x) /\ x \in Nat
    BY Constants DEF TvaSent
<1>6. CASE q = p /\ x = r
    BY <1>1, <1>2, <1>4, <1>5, <1>6 DEF SentBefore, Reached
<1>7. CASE ~ (q = p /\ x = r)
    BY <1>1, <1>2, <1>5, <1>7 DEF SentBefore, Reached
<1> QED
    BY <1>6, <1>7

LEMMA UseCoinSent ==
    ASSUME TvaInv, TvaSent, NEW p \in Nodes, UseCoin(p)
    PROVE  TvaSent'
<1> PICK r \in Rounds : r = round[p]
    BY DEF TvaInv, TypeOK
<1> PICK v : v = NextEst(values[p], coin[r])
    OBVIOUS
<1>1. /\ r \in CoinRounds /\ v \in Values /\ pc[p] = "coin"
      /\ round' = [round EXCEPT ![p] = r + 1]
      /\ pc' = [pc EXCEPT ![p] = "bin"]
      /\ estSent' = [estSent EXCEPT ![p][r + 1] = @ \cup {v}]
      /\ UNCHANGED <<aux, conf, shared, intValues>>
    BY UseCoinFacts
<1> PICK s \in Rounds : s = r + 1
    BY <1>1, Constants
<1>2. /\ round'[p] = s /\ pc'[p] = "bin"
      /\ \A q \in Nodes \ {p} : round'[q] = round[q] /\ pc'[q] = pc[q]
    BY <1>1 DEF TvaInv, TypeOK
<1>3. \A q \in Nodes, x \in Rounds :
          estSent'[q][x] = IF q = p /\ x = s THEN estSent[q][x] \cup {v} ELSE estSent[q][x]
    <2> DEFINE y == r + 1
    <2>1. y \in Rounds /\ y = s
        BY <1>1, Constants
    <2>3. estSent' = [estSent EXCEPT ![p][y] = @ \cup {v}]
        BY <1>1
    <2>4. v \in Values /\ TypeOK
        BY <1>1 DEF TvaInv
    <2> HIDE DEF y
    <2>2. \A q \in Nodes, x \in Rounds :
              estSent'[q][x] = IF q = p /\ x = y THEN estSent[q][x] \cup {v} ELSE estSent[q][x]
        BY <2>1, <2>3, <2>4, EstSentStep
    <2> QED
        BY <2>1, <2>2
<1> SUFFICES ASSUME NEW q \in Nodes, NEW x \in Rounds
             PROVE  SentBefore(q, x)'
    BY DEF TvaSent
<1>5. SentBefore(q, x) /\ x \in Nat /\ r \in Nat /\ s \in Nat
    BY Constants DEF TvaSent
<1>6. CASE q = p /\ x = s
    <2>1. ~ (x < round'[q]) /\ pc'[q] = "bin"
        BY <1>2, <1>5, <1>6
    <2>2. estSent'[q][x] # {}
        BY <1>3, <1>6
    <2> QED
        BY <2>1, <2>2 DEF SentBefore, Reached
<1>7. CASE q = p /\ x # s
    <2>1. x < s => x < r \/ x = r
        BY <1>5
    <2> QED
        BY <1>1, <1>2, <1>3, <1>5, <1>7, <2>1 DEF SentBefore, Reached
<1>8. CASE q # p
    BY <1>1, <1>2, <1>3, <1>5, <1>8 DEF SentBefore, Reached
<1> QED
    BY <1>6, <1>7, <1>8

\* Decisions are not taken back.
LEMMA DecidersGrow ==
    ASSUME TvaEnds, \A q \in Nodes : decision[q] # None => decision'[q] # None,
           UNCHANGED <<stopped, crashed, cut>>
    PROVE  TvaEnds'
<1>1. Deciders \subseteq Deciders' /\ Deciders' \in SUBSET Nodes
    BY DEF Deciders
<1>2. /\ Cardinality(Deciders) <= Cardinality(Deciders')
      /\ Cardinality(Deciders) \in Nat /\ Cardinality(Deciders') \in Nat
    BY <1>1, NodeSets
<1>3. stopped' # {} => Cardinality(Deciders') >= 2 * F
    BY <1>2, FaultNumbers DEF TvaEnds
<1> QED
    BY <1>1, <1>3 DEF TvaEnds

LEMMA StopEnds ==
    ASSUME TvaEnds, NEW p \in Nodes, Stop(p)
    PROVE  TvaEnds'
<1>1. /\ decision[p] # None /\ Cardinality(FinishSenders(p)) + 1 >= 2 * F + 1
      /\ stopped' = stopped \cup {p}
      /\ UNCHANGED <<decision, crashed, cut>>
    BY DEF Stop, StopDue
<1>2. FinishSenders(p) \in SUBSET Deciders /\ Deciders \in SUBSET Nodes
    BY DEF FinishSenders, Deciders, Reaching
<1>3. /\ Cardinality(FinishSenders(p)) <= Cardinality(Deciders)
      /\ Cardinality(FinishSenders(p)) \in Nat /\ Cardinality(Deciders) \in Nat
    BY <1>2, NodeSets
<1>4. Cardinality(Deciders) >= 2 * F
    BY <1>1, <1>3, FaultNumbers
<1>5. Deciders' = Deciders
    BY <1>1 DEF Deciders
<1>6. p \in Deciders
    BY <1>1 DEF Deciders
<1> QED
    BY <1>1, <1>4, <1>5, <1>6 DEF TvaEnds

LEMMA CrashEnds ==
    ASSUME TypeOK, TvaEnds, NEW p \in Nodes, Crash(p)
    PROVE  TvaEnds'
<1>1. /\ Cardinality(crashed) < MaxCrash
      /\ crashed' = crashed \cup {p}
      /\ \E lost \in SUBSET (Nodes \ {p}) : cut' = [cut EXCEPT ![p] = lost]
      /\ UNCHANGED <<decision, stopped>>
    BY DEF Crash
<1>2. Cardinality(crashed') <= F
    BY <1>1, OneMoreNode, AgreementAssumption DEF TypeOK
<1>3. \A q \in Nodes : cut'[q] # {} => q \in crashed'
    BY <1>1 DEF TypeOK, TvaEnds
<1>4. Deciders' = Deciders
    BY <1>1 DEF Deciders
<1> QED
    BY <1>1, <1>2, <1>3, <1>4 DEF TvaEnds

LEMMA StepWaits == WaitInv /\ [Next]_tvaVars => WaitInv'
<1> SUFFICES ASSUME WaitInv, [Next]_tvaVars
             PROVE  WaitInv'
    OBVIOUS
<1> USE DEF WaitInv
<1>0. TypeOK /\ TvaInv'
    BY StepKeeps DEF TvaInv
<1>1. ASSUME NEW p \in Nodes, NEW r \in CoinRounds, NEW v \in Values, RelayEst(p, r, v)
      PROVE  TvaSent' /\ TvaEnds'
    <2>1. /\ estSent' = [estSent EXCEPT ![p][r] = @ \cup {v}] /\ r \in Rounds
          /\ UNCHANGED <<round, pc, aux, conf, shared, intValues, decision, stopped, crashed, cut>>
        BY <1>1, Constants DEF RelayEst, loopVars, endVars
    <2>2. \A q \in Nodes, x \in Rounds : estSent[q][x] \subseteq estSent'[q][x]
        BY <1>0, <2>1, EstSentStep
    <2> QED
        BY <1>0, <2>1, <2>2, ReceiveSent, DecidersGrow
<1>2. ASSUME NEW p \in Nodes, NEW r \in CoinRounds, NEW v \in Values, AddIntValue(p, r, v)
      PROVE  TvaSent' /\ TvaEnds'
    <2>1. /\ intValues' = [intValues EXCEPT ![p][r] = @ \cup {v}] /\ r \in Rounds
          /\ UNCHANGED <<round, pc, aux, conf, shared, estSent, decision, stopped, crashed, cut>>
        BY <1>2, Constants DEF AddIntValue, loopVars, endVars
    <2>2. \A q \in Nodes, x \in Rounds : intValues[q][x] \subseteq intValues'[q][x]
        BY <1>0, <2>1, AddIntGrows
    <2> QED
        BY <1>0, <2>1, <2>2, ReceiveSent, DecidersGrow
<1>3. ASSUME NEW p \in Nodes, NEW v \in Values, AdoptFinish(p, v)
      PROVE  TvaSent' /\ TvaEnds'
    <2>1. /\ decision' = [decision EXCEPT ![p] = v]
          /\ UNCHANGED <<round, pc, aux, conf, shared, estSent, intValues, stopped, crashed, cut>>
        BY <1>3 DEF AdoptFinish, loopVars, endVars
    <2>2. \A q \in Nodes : decision[q] # None => decision'[q] # None
        BY <1>0, <2>1, Constants DEF TypeOK
    <2> QED
        BY <1>0, <2>1, <2>2, ReceiveSent, DecidersGrow
<1>4. ASSUME NEW p \in Nodes, Stop(p) \/ Crash(p)
      PROVE  TvaSent' /\ TvaEnds'
    <2>1. UNCHANGED <<round, pc, aux, conf, shared, estSent, intValues>>
        BY <1>4 DEF Stop, Crash, loopVars
    <2> QED
        BY <1>0, <1>4, <2>1, ReceiveSent, StopEnds, CrashEnds
<1>5. ASSUME NEW p \in Nodes, UseCoin(p)
      PROVE  TvaEnds'
    <2>1. /\ UNCHANGED <<stopped, crashed, cut>>
          /\ \A q \in Nodes : decision[q] # None => decision'[q] # None
        <3>1. decision' = [decision EXCEPT ![p] =
                  IF decision[p] = None /\ values[p] = {NextEst(values[p], coin[round[p]])}
                        /\ NextEst(values[p], coin[round[p]]) % 2 = coin[round[p]]
                  THEN NextEst(values[p], coin[round[p]]) ELSE decision[p]]
            BY <1>5 DEF UseCoin
        <3>2. NextEst(values[p], coin[round[p]]) \in Values
            BY <1>5, UseCoinFacts
        <3>3. PICK w \in Values \cup {None} :
                  decision' = [decision EXCEPT ![p] = w] /\ (decision[p] # None => w # None)
            BY <1>0, <3>1, <3>2, Constants DEF TypeOK
        <3>4. UNCHANGED <<stopped, crashed, cut>>
            BY <1>5 DEF UseCoin, endVars
        <3> QED
            BY <1>0, <3>3, <3>4 DEF TypeOK
    <2> QED
        BY <2>1, DecidersGrow
<1>6. ASSUME NEW p \in Nodes, \/ \E v \in Inputs : Input(p, v)
                              \/ \E w \in Values : SendAux(p, w)
                              \/ SendConf(p) \/ EndConf(p)
      PROVE  TvaSent' /\ TvaEnds'
    <2>1. TvaSent'
        BY <1>6, InputSent, SendAuxSent, SendConfSent, EndConfSent
    <2>2. UNCHANGED <<decision, stopped, crashed, cut>>
        BY <1>6 DEF Input, SendAux, SendConf, EndConf, endVars
    <2> QED
        BY <2>1, <2>2, DecidersGrow
<1>7. CASE UNCHANGED tvaVars
    <2>1. UNCHANGED <<round, pc, aux, conf, shared, estSent, intValues, decision, stopped,
                      crashed, cut>>
        BY <1>7 DEF tvaVars, loopVars, endVars
    <2> QED
        BY <1>0, <2>1, ReceiveSent, DecidersGrow
<1>8. ASSUME NEW p \in Nodes, UseCoin(p)
      PROVE  TvaSent'
    BY <1>8, UseCoinSent
<1> QED
    BY <1>0, <1>1, <1>2, <1>3, <1>4, <1>5, <1>6, <1>7, <1>8
    DEF Next, Progress, Receive, MainLoop
-----------------------------------------------------------------------------
\* If all is settled and a node has not decided, nobody stopped, unless a
\* process died.
LEMMA NobodyStopped ==
    ASSUME WaitInv, Settled, crashed = {} \/ stopped = {},
           NEW p \in Nodes, p \notin crashed, decision[p] = None
    PROVE  stopped = {}
<1> SUFFICES ASSUME crashed = {}, stopped # {}
             PROVE  FALSE
    OBVIOUS
<1>1. Reaching(p) = Nodes
    BY DEF WaitInv, TvaEnds, Reaching
<1>2. FinishSenders(p) = Deciders
    BY <1>1 DEF FinishSenders, Deciders
<1>3. Runs(p)
    BY DEF Runs, WaitInv, TvaEnds, Deciders
<1>4. ~ (Cardinality(Deciders) >= F + 1)
    BY <1>2, <1>3 DEF Settled, FinishesIn
<1>5. Cardinality(Deciders) >= 2 * F
    BY DEF WaitInv, TvaEnds
<1>6. Cardinality(Deciders) # 0
    <2>1. Deciders # {} /\ IsFiniteSet(Deciders)
        BY NodeSets DEF WaitInv, TvaEnds, Deciders
    <2> QED
        BY <2>1, FS_EmptySet
<1>7. Cardinality(Deciders) \in Nat
    BY NodeSets DEF Deciders
<1> QED
    BY <1>4, <1>5, <1>6, <1>7, FaultNumbers

LEMMA SettledDecided == WaitInv => EqualInputsDecide
<1> SUFFICES ASSUME WaitInv, Settled,
                    \A p, q \in Nodes : proposal[p] # None /\ proposal[q] # None => proposal[p] = proposal[q],
                    crashed = {} \/ stopped = {},
                    NEW p0 \in Nodes, ~ Done(p0)
             PROVE  FALSE
    BY DEF EqualInputsDecide
<1> DEFINE L == Nodes \ crashed
<1>1. /\ TvaInv /\ TvaSent /\ TvaEnds /\ TypeOK
      /\ p0 \in L /\ decision[p0] = None /\ ~ (round[p0] > MaxRound)
    BY DEF Done, WaitInv, TvaInv
<1>2. stopped = {}
    BY <1>1, NobodyStopped
\* The live nodes run, have their input and reach everybody.
<1>3. \A q \in L : Runs(q) /\ pc[q] # "input" /\ \A n \in Nodes : q \in Reaching(n)
    BY <1>1, <1>2 DEF Runs, Settled, InputDue, Reaching, TvaEnds
<1>4. L \in Quorum /\ L \in SUBSET Nodes /\ Cardinality(L) >= 2 * F + 1
    <2>1. L \in Quorum
        BY <1>1, LiveNodes DEF TypeOK, TvaEnds
    <2>2. Cardinality(L) \in Nat
        BY NodeSets
    <2> QED
        BY <2>1, <2>2, FaultNumbers DEF Quorum
<1>5. \A S \in SUBSET Nodes : L \subseteq S =>
          S \in Quorum /\ Cardinality(S) >= 2 * F + 1 /\ Cardinality(S) >= F + 1
    <2> SUFFICES ASSUME NEW S \in SUBSET Nodes, L \subseteq S
                 PROVE  S \in Quorum /\ Cardinality(S) >= 2 * F + 1 /\ Cardinality(S) >= F + 1
        OBVIOUS
    <2>1. Cardinality(L) <= Cardinality(S) /\ Cardinality(L) \in Nat /\ Cardinality(S) \in Nat
        BY NodeSets
    <2> QED
        BY <1>4, <2>1, QuorumSuperset, FaultNumbers
<1> HIDE DEF L
\* The only value, and the earliest round a live node is in.
<1> PICK v : v = proposal[p0]
    OBVIOUS
<1>6. v # None /\ v \in Values
    BY <1>1, <1>3 DEF TvaInv, InputFirst, TypeOK
<1>7. \A q \in Nodes, r \in Rounds : estSent[q][r] \subseteq {v} /\ intValues[q][r] \subseteq {v}
                                     /\ conf[q][r] \subseteq {v}
    <2> SUFFICES ASSUME NEW q \in Nodes, NEW r \in Rounds, NEW w \in estSent[q][r]
                 PROVE  w = v
        BY <1>1 DEF TvaInv, ValuesFlow
    <2>1. PICK n \in Nodes : proposal[n] = w
        BY <1>1 DEF TvaInv, EstimatesProposed
    <2>2. w # None
        BY <1>1, Constants DEF TypeOK
    <2> QED
        BY <1>6, <2>1, <2>2
<1>8. PICK p \in L : \A q \in L : round[p] <= round[q]
    <2> DEFINE R == {round[q] : q \in L}
    <2>1. R \in SUBSET Nat /\ R # {}
        BY <1>1, <1>4, Constants DEF TypeOK
    <2> HIDE DEF R
    <2>2. PICK u \in R : \A x \in R : u <= x
        BY <2>1, LeastNumber
    <2> QED
        BY <2>2 DEF R
<1> PICK u : u = round[p]
    OBVIOUS
<1>9. p \in Nodes /\ u \in CoinRounds /\ u \in Rounds /\ u \in Nat
    <2>1. round[p0] \in Nat /\ round[p] \in Nat /\ round[p] <= round[p0]
        BY <1>1, <1>4, <1>8, Constants DEF TypeOK
    <2> QED
        BY <1>1, <1>4, <2>1, Constants
<1>10. \A q \in L : q \in Nodes /\ round[q] \in Nat /\ u <= round[q] /\ pc[q] \in Pcs
                    /\ (round[q] = u \/ u < round[q])
    BY <1>1, <1>4, <1>8, <1>9, Constants DEF TypeOK
<1>11. \A q \in L : SentBefore(q, u)
    BY <1>1, <1>9, <1>10 DEF TvaSent
\* Estimates.
<1>12. \A q \in L : estSent[q][u] = {v}
    BY <1>3, <1>7, <1>9, <1>10, <1>11 DEF SentBefore, Reached, Pcs
<1>13. \A q \in L : intValues[q][u] = {v}
    <2> SUFFICES ASSUME NEW q \in L
                 PROVE  v \in intValues[q][u]
        BY <1>7, <1>9, <1>10
    <2>1. L \subseteq EstSenders(q, u, v) /\ EstSenders(q, u, v) \in SUBSET Nodes
        BY <1>3, <1>4, <1>10, <1>12 DEF EstSenders, Reaching
    <2>2. ~ IntValueDue(q, u, v)
        BY <1>6, <1>9, <1>10 DEF Settled
    <2> QED
        BY <1>3, <1>5, <1>12, <2>1, <2>2 DEF IntValueDue
\* AUX.
<1>14. \A q \in L : round[q] = u => pc[q] # "bin"
    BY <1>3, <1>6, <1>10, <1>13 DEF Settled, AuxDue
<1>15. \A q \in L : aux[q][u] \in {v}
    BY <1>3, <1>10, <1>11, <1>13, <1>14 DEF SentBefore, Reached, Pcs
<1>16. \A q \in L : round[q] = u => pc[q] # "aux"
    <2> SUFFICES ASSUME NEW q \in L, round[q] = u, pc[q] = "aux"
                 PROVE  FALSE
        OBVIOUS
    <2>1. L \subseteq AuxSenders(q, u, {v}) /\ AuxSenders(q, u, {v}) \in SUBSET Nodes
        BY <1>3, <1>4, <1>10, <1>15 DEF AuxSenders, Reaching
    <2>2. AuxSenders(q, u, {v}) \in Quorum
        BY <1>5, <2>1
    <2> QED
        BY <1>3, <1>10, <1>13, <2>2 DEF Settled, ConfDue
\* CONF.
<1>17. \A q \in L : conf[q][u] = {v}
    BY <1>3, <1>7, <1>9, <1>10, <1>11, <1>14, <1>16 DEF SentBefore, Reached, Pcs
<1>18. \A q \in L : round[q] = u => pc[q] # "conf"
    <2> SUFFICES ASSUME NEW q \in L, round[q] = u, pc[q] = "conf"
                 PROVE  FALSE
        OBVIOUS
    <2>1. L \subseteq ConfSenders(q, u, {v}) /\ ConfSenders(q, u, {v}) \in SUBSET Nodes
        BY <1>3, <1>4, <1>10, <1>17 DEF ConfSenders, Reaching
    <2>2. ConfSenders(q, u, {v}) \in Quorum
        BY <1>5, <2>1
    <2> QED
        BY <1>3, <1>10, <1>13, <2>2 DEF Settled, ConfsIn
\* The coin.
<1>19. \A q \in L : q \in shared[u]
    BY <1>3, <1>10, <1>11, <1>14, <1>16, <1>18 DEF SentBefore, Reached, Pcs
<1>20. L \subseteq shared[u] \cap Reaching(p) /\ shared[u] \cap Reaching(p) \in SUBSET Nodes
    BY <1>3, <1>9, <1>19 DEF Reaching
<1>21. Cardinality(shared[u] \cap Reaching(p)) >= F + 1
    BY <1>5, <1>20
<1>22. pc[p] = "coin"
    BY <1>3, <1>10, <1>14, <1>16, <1>18 DEF Pcs
<1> QED
    BY <1>3, <1>9, <1>21, <1>22 DEF Settled, CoinIn

\* With equal inputs every live node decides when the agreement has come to rest,
\* unless a process died and another stopped on FINISHs not all of which the
\* others get.
THEOREM EqualInputsEnd == Spec => []EqualInputsDecide
<1>1. Init => WaitInv
    BY InitHolds, InitWaits DEF WaitInv
<1> QED
    BY <1>1, StepWaits, SettledDecided, PTL DEF Spec
-----------------------------------------------------------------------------
(***************************************************************************)
(* The agreement comes to rest.  The phases of the rounds that a node is   *)
(* not past, the values it has not relayed or added, its decision and its  *)
(* life are a finite set of tokens; each step takes one of them for good.  *)
(***************************************************************************)
Kinds == {"loop", "est", "bin", "decision", "greenlets", "process"}

PhaseOf(p) ==
    CASE pc[p] = "input" -> 0
      [] pc[p] = "bin" -> 1
      [] pc[p] = "aux" -> 2
      [] pc[p] = "conf" -> 3
      [] pc[p] = "coin" -> 4

Phases == 0 .. 4

\* A mark is a value, for "est" and "bin", or a phase, for "loop".
Marks == Values \cup Phases

Remains(kind, p, r, m) ==
    \/ kind = "loop" /\ m \in Phases /\ (round[p] < r \/ (round[p] = r /\ PhaseOf(p) <= m))
    \/ kind = "est" /\ m \in Values /\ m \notin estSent[p][r]
    \/ kind = "bin" /\ m \in Values /\ m \notin intValues[p][r]
    \/ kind = "decision" /\ decision[p] = None
    \/ kind = "greenlets" /\ p \notin stopped
    \/ kind = "process" /\ p \notin crashed

Todo == {t \in Kinds \X (Nodes \X (Rounds \X Marks)) :
            Remains(t[1], t[2][1], t[2][2][1], t[2][2][2])}

\* Nothing is added, and one token goes.
LEMMA TokenGoes ==
    ASSUME \A k \in Kinds, p \in Nodes, r \in Rounds, m \in Marks :
               Remains(k, p, r, m)' => Remains(k, p, r, m),
           NEW k \in Kinds, NEW p \in Nodes, NEW r \in Rounds, NEW m \in Marks,
           Remains(k, p, r, m), ~ Remains(k, p, r, m)'
    PROVE  Todo' \subseteq Todo /\ Todo' # Todo
<1>1. Todo' \subseteq Todo
    BY DEF Todo
<1>2. <<k, <<p, <<r, m>>>>>> \in Todo /\ <<k, <<p, <<r, m>>>>>> \notin Todo'
    BY DEF Todo
<1> QED
    BY <1>1, <1>2

LEMMA FirstRound == 0 \in Rounds /\ 0 \in Marks /\ 0 \in Phases
BY AgreementAssumption DEF Rounds, Marks, Phases

\* recv: each of these adds a value or a decision.
LEMMA ReceiveConsumes ==
    ASSUME TypeOK, NEW p \in Nodes, Receive(p)
    PROVE  Todo' \subseteq Todo /\ Todo' # Todo
<1> USE DEF TypeOK
<1>1. /\ round' = round /\ pc' = pc /\ stopped' = stopped /\ crashed' = crashed
    BY DEF Receive, RelayEst, AddIntValue, AdoptFinish, loopVars, endVars
<1>2. \A q \in Nodes : PhaseOf(q)' = PhaseOf(q)
    BY <1>1 DEF PhaseOf
<1>3. ASSUME NEW r \in CoinRounds, NEW v \in Values, RelayEst(p, r, v)
      PROVE  Todo' \subseteq Todo /\ Todo' # Todo
    <2>1. /\ intValues' = intValues /\ decision' = decision /\ v \notin estSent[p][r]
          /\ estSent' = [estSent EXCEPT ![p][r] = @ \cup {v}]
          /\ r \in Rounds /\ v \in Marks
        BY <1>3, Constants DEF RelayEst, RelayDue, Marks
    <2>2. /\ \A q \in Nodes, s \in Rounds : estSent[q][s] \subseteq estSent'[q][s]
          /\ v \in estSent'[p][r]
        BY <2>1
    <2>3. ASSUME NEW k \in Kinds, NEW q \in Nodes, NEW s \in Rounds, NEW m \in Marks,
                 Remains(k, q, s, m)'
          PROVE  Remains(k, q, s, m)
        BY <1>1, <1>2, <2>1, <2>2, <2>3 DEF Remains
    <2>4. Remains("est", p, r, v) /\ ~ Remains("est", p, r, v)'
        BY <2>1, <2>2 DEF Remains
    <2> QED
        BY <2>1, <2>3, <2>4, TokenGoes DEF Kinds
<1>4. ASSUME NEW r \in CoinRounds, NEW v \in Values, AddIntValue(p, r, v)
      PROVE  Todo' \subseteq Todo /\ Todo' # Todo
    <2>1. /\ estSent' = estSent /\ decision' = decision /\ v \notin intValues[p][r]
          /\ intValues' = [intValues EXCEPT ![p][r] = @ \cup {v}]
          /\ r \in Rounds /\ v \in Marks
        BY <1>4, Constants DEF AddIntValue, IntValueDue, Marks
    <2>2. /\ \A q \in Nodes, s \in Rounds : intValues[q][s] \subseteq intValues'[q][s]
          /\ v \in intValues'[p][r]
        BY <2>1
    <2>3. ASSUME NEW k \in Kinds, NEW q \in Nodes, NEW s \in Rounds, NEW m \in Marks,
                 Remains(k, q, s, m)'
          PROVE  Remains(k, q, s, m)
        BY <1>1, <1>2, <2>1, <2>2, <2>3 DEF Remains
    <2>4. Remains("bin", p, r, v) /\ ~ Remains("bin", p, r, v)'
        BY <2>1, <2>2 DEF Remains
    <2> QED
        BY <2>1, <2>3, <2>4, TokenGoes DEF Kinds
<1>5. ASSUME NEW v \in Values, AdoptFinish(p, v)
      PROVE  Todo' \subseteq Todo /\ Todo' # Todo
    <2>1. /\ estSent' = estSent /\ intValues' = intValues
          /\ decision[p] = None /\ decision' = [decision EXCEPT ![p] = v]
        BY <1>5 DEF AdoptFinish, FinishesIn
    <2>2. decision'[p] # None /\ \A q \in Nodes : q # p => decision'[q] = decision[q]
        BY <2>1, AgreementAssumption
    <2>3. ASSUME NEW k \in Kinds, NEW q \in Nodes, NEW s \in Rounds, NEW m \in Marks,
                 Remains(k, q, s, m)'
          PROVE  Remains(k, q, s, m)
        BY <1>1, <1>2, <2>1, <2>2, <2>3 DEF Remains
    <2>4. Remains("decision", p, 0, 0) /\ ~ Remains("decision", p, 0, 0)'
        BY <2>1, <2>2 DEF Remains
    <2> QED
        BY <2>3, <2>4, FirstRound, TokenGoes DEF Kinds
<1> QED
    BY <1>3, <1>4, <1>5 DEF Receive

\* main_loop: each step is to the next phase, or the next round.
LEMMA LoopConsumes ==
    ASSUME TvaInv, NEW p \in Nodes,
           \/ \E v \in Inputs : Input(p, v)
           \/ \E w \in Values : SendAux(p, w)
           \/ SendConf(p) \/ EndConf(p) \/ UseCoin(p)
    PROVE  Todo' \subseteq Todo /\ Todo' # Todo
<1> USE DEF TypeOK
<1>1. /\ stopped' = stopped /\ crashed' = crashed /\ intValues' = intValues
      /\ \A q \in Nodes : decision[q] # None => decision'[q] = decision[q]
      /\ \A q \in Nodes, s \in Rounds : estSent[q][s] \subseteq estSent'[q][s]
    <2>1. CASE \E v \in Inputs : Input(p, v)
        <3>1. /\ stopped' = stopped /\ crashed' = crashed /\ intValues' = intValues /\ decision' = decision
              /\ \E v \in Inputs : estSent' = [estSent EXCEPT ![p][0] = @ \cup {v}]
            BY <2>1 DEF Input, EnterRound, endVars
        <3> QED
            BY <3>1, Constants DEF TvaInv
    <2>2. CASE (\E w \in Values : SendAux(p, w)) \/ SendConf(p) \/ EndConf(p)
        BY <2>2 DEF SendAux, SendConf, EndConf, endVars
    <2>3. CASE UseCoin(p)
        <3> DEFINE v == NextEst(values[p], coin[round[p]])
                   n == round[p] + 1
        <3>1. /\ stopped' = stopped /\ crashed' = crashed /\ intValues' = intValues
              /\ decision' = [decision EXCEPT ![p] =
                     IF @ = None /\ values[p] = {v} /\ v % 2 = coin[round[p]] THEN v ELSE @]
              /\ estSent' = [estSent EXCEPT ![p][n] = @ \cup {v}]
            BY <2>3 DEF UseCoin, EnterRound, endVars
        <3> HIDE DEF v, n
        <3>2. \A q \in Nodes : decision[q] # None => decision'[q] = decision[q]
            BY <3>1 DEF TvaInv
        <3>3. \A q \in Nodes, s \in Rounds : estSent[q][s] \subseteq estSent'[q][s]
            BY <3>1 DEF TvaInv
        <3> QED
            BY <3>1, <3>2, <3>3
    <2> QED
        BY <2>1, <2>2, <2>3
<1>2. round \in [Nodes -> Rounds] /\ pc \in [Nodes -> Pcs]
    BY DEF TvaInv
<1>3. /\ \A q \in Nodes : q # p => round'[q] = round[q] /\ pc'[q] = pc[q]
      /\ \/ round'[p] = round[p] /\ <<pc[p], pc'[p]>> \in
                {<<"input", "bin">>, <<"bin", "aux">>, <<"aux", "conf">>, <<"conf", "coin">>}
         \/ round'[p] = round[p] + 1 /\ pc[p] = "coin"
    <2>1. CASE \E v \in Inputs : Input(p, v)
        BY <1>2, <2>1 DEF Input, InputDue, EnterRound, TvaInv, InputFirst
    <2>2. CASE \E w \in Values : SendAux(p, w)
        BY <1>2, <2>2 DEF SendAux, AuxDue
    <2>3. CASE SendConf(p)
        BY <1>2, <2>3 DEF SendConf, ConfDue
    <2>4. CASE EndConf(p)
        BY <1>2, <2>4 DEF EndConf, ConfsIn
    <2>5. CASE UseCoin(p)
        BY <1>2, <2>5 DEF UseCoin, CoinIn, EnterRound
    <2> QED
        BY <2>1, <2>2, <2>3, <2>4, <2>5
<1>4. /\ \A q \in Nodes : q # p => round'[q] = round[q] /\ PhaseOf(q)' = PhaseOf(q)
      /\ \/ round'[p] = round[p] /\ PhaseOf(p)' = PhaseOf(p) + 1
         \/ round'[p] = round[p] + 1
      /\ PhaseOf(p) \in Phases
    BY <1>2, <1>3 DEF PhaseOf, Phases, Pcs
<1>5. /\ \A q \in Nodes : round[q] \in Int
      /\ \A r \in Rounds : r \in Int
      /\ \A m \in Phases : m \in Int
    BY <1>2, Constants DEF Phases
<1>6. ASSUME NEW k \in Kinds, NEW q \in Nodes, NEW s \in Rounds, NEW m \in Marks,
             Remains(k, q, s, m)'
      PROVE  Remains(k, q, s, m)
    <2>1. CASE k = "loop"
        <3>1. m \in Phases /\ (round'[q] < s \/ (round'[q] = s /\ PhaseOf(q)' <= m))
            BY <1>6, <2>1 DEF Remains
        <3>2. round[q] < s \/ (round[q] = s /\ PhaseOf(q) <= m)
            BY <1>4, <1>5, <3>1 DEF Phases
        <3> QED
            BY <2>1, <3>1, <3>2 DEF Remains
    <2>2. CASE k # "loop"
        BY <1>1, <1>6, <2>2 DEF Remains
    <2> QED
        BY <2>1, <2>2
<1>7. PICK r \in Rounds, m \in Phases : r = round[p] /\ m = PhaseOf(p)
    BY <1>2, <1>4
<1>8. Remains("loop", p, r, m) /\ ~ Remains("loop", p, r, m)'
    <2>1. Remains("loop", p, r, m)
        BY <1>5, <1>7 DEF Remains
    <2>2. ~ (round'[p] < r) /\ ~ (round'[p] = r /\ PhaseOf(p)' <= m)
        BY <1>4, <1>5, <1>7
    <2> QED
        BY <2>1, <2>2 DEF Remains
<1> QED
    BY <1>6, <1>8, TokenGoes DEF Kinds, Marks

\* A node stops, or its process dies.
LEMMA EndConsumes ==
    ASSUME TypeOK, NEW p \in Nodes, Stop(p) \/ Crash(p)
    PROVE  Todo' \subseteq Todo /\ Todo' # Todo
<1>1. /\ round' = round /\ pc' = pc /\ estSent' = estSent /\ intValues' = intValues
      /\ decision' = decision
      /\ stopped \subseteq stopped' /\ crashed \subseteq crashed'
      /\ (p \notin stopped /\ p \in stopped') \/ (p \notin crashed /\ p \in crashed')
    BY DEF Stop, StopDue, Runs, Crash, loopVars
<1>2. \A q \in Nodes : PhaseOf(q)' = PhaseOf(q)
    BY <1>1 DEF PhaseOf
<1>3. ASSUME NEW k \in Kinds, NEW q \in Nodes, NEW s \in Rounds, NEW m \in Marks,
             Remains(k, q, s, m)'
      PROVE  Remains(k, q, s, m)
    BY <1>1, <1>2, <1>3 DEF Remains
<1>4. \/ Remains("greenlets", p, 0, 0) /\ ~ Remains("greenlets", p, 0, 0)'
      \/ Remains("process", p, 0, 0) /\ ~ Remains("process", p, 0, 0)'
    BY <1>1 DEF Remains
<1> QED
    BY <1>3, <1>4, FirstRound, TokenGoes DEF Kinds

LEMMA TodoIsFinite == IsFiniteSet(Todo)
<1>1. IsFiniteSet(Kinds)
    <2>1. Kinds = {"loop", "est", "bin", "decision", "greenlets", "process", "process", "process"}
        BY DEF Kinds
    <2> QED
        BY <2>1, EightAreFinite
<1>2. IsFiniteSet(Marks)
    <2>1. PICK v \in Values : Values = {v, v + 1}
        BY AgreementAssumption
    <2>2. Values = {v, v + 1, v, v}
        BY <2>1
    <2>3. IsFiniteSet(Values)
        <3>1. IsFiniteSet({v, v + 1, v, v})
            BY FourAreFinite
        <3> QED
            BY <2>2, <3>1
    <2>4. IsFiniteSet(Phases)
        <3>1. Phases = {0, 1, 2, 3, 4, 4, 4, 4}
            BY DEF Phases
        <3>2. IsFiniteSet({0, 1, 2, 3, 4, 4, 4, 4})
            BY EightAreFinite
        <3> QED
            BY <3>1, <3>2
    <2> QED
        BY <2>3, <2>4, FS_Union DEF Marks
<1>3. IsFiniteSet(Rounds)
    BY Constants, FS_Interval
<1>4. IsFiniteSet(Rounds \X Marks)
    BY <1>2, <1>3, FS_Product
<1>5. IsFiniteSet(Nodes \X (Rounds \X Marks))
    BY <1>4, FaultAssumption, FS_Product
<1>6. IsFiniteSet(Kinds \X (Nodes \X (Rounds \X Marks)))
    BY <1>1, <1>5, FS_Product
<1>7. Todo \subseteq Kinds \X (Nodes \X (Rounds \X Marks))
    BY DEF Todo
<1> QED
    BY <1>6, <1>7, FS_Subset

\* In the rounds up to MaxRound the agreement has finitely many steps, whatever
\* crashes and is late: each takes something for good from a finite set.  It
\* comes to a state that is Settled, the one that EqualInputsDecide is about.
THEOREM AgreementConsumes ==
    Spec => []IsFiniteSet(Todo) /\ [][Todo' \in (SUBSET Todo) \ {Todo}]_tvaVars
<1> DEFINE A == Todo' \in (SUBSET Todo) \ {Todo}
<1>1. ASSUME TvaInv, Next PROVE A
    <2>1. ASSUME NEW p \in Nodes, Receive(p) \/ MainLoop(p) \/ Crash(p) PROVE A
        <3>1. TypeOK
            BY <1>1 DEF TvaInv
        <3>2. CASE Receive(p) \/ Crash(p) \/ Stop(p)
            BY <3>1, <3>2, ReceiveConsumes, EndConsumes
        <3>3. CASE MainLoop(p) /\ ~ Stop(p)
            BY <1>1, <3>3, LoopConsumes DEF MainLoop
        <3> QED
            BY <2>1, <3>2, <3>3
    <2> QED
        BY <1>1, <2>1 DEF Next, Progress
<1>2. IsFiniteSet(Todo)
    BY TodoIsFinite
<1> HIDE DEF A
<1>3. TvaInv /\ [Next]_tvaVars => [A]_tvaVars
    BY <1>1
<1>4. Spec => []IsFiniteSet(Todo) /\ [][A]_tvaVars
    BY <1>2, <1>3, TvaInvariant, PTL DEF Spec
<1> QED
    BY <1>4 DEF A
=============================================================================
