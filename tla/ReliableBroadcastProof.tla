------------------------ MODULE ReliableBroadcastProof ------------------------
(***************************************************************************)
(* The reliable broadcast is total and valid for every number of nodes:    *)
(* inductive invariant and proofs.  The argument: the first READY rests on *)
(* ECHOs of a quorum that had not said READY; N - 2f of them live, and on  *)
(* FIFO links their ECHOs are handled before their READYs; so when a node  *)
(* handles the last READY of the live nodes it has all it needs, and no    *)
(* ECHO needs to make it return.                                           *)
(***************************************************************************)
EXTENDS ReliableBroadcast, QuorumLemmas

RbTypeOK ==
    /\ valSent \in BOOLEAN
    /\ fromLeader \in SUBSET Nodes
    /\ readySent \in SUBSET Nodes
    /\ late \in SUBSET fromLeader
    /\ late \in SUBSET readySent
    /\ echoSenders \in [Nodes -> SUBSET fromLeader]
    /\ readySenders \in [Nodes -> SUBSET readySent]
    /\ returned \in SUBSET Nodes
    /\ crashed \in SUBSET Nodes

\* Nodes whose ECHO is ahead of their READY on every link.
EchoedFirst == fromLeader \ late

ValFirst ==
    /\ fromLeader # {} => valSent
    /\ readySent # {} => fromLeader # {}

\* Every READY rests on the ECHOs of a quorum that echoed first.
ReadyBacked == readySent # {} => EchoedFirst \in Quorum

\* Nobody keeps its READY back, and a node returns on a quorum of them.
ReadySaid ==
    /\ \A p \in Nodes : Runs(p) /\ Cardinality(readySenders[p]) >= F + 1
                            => p \in readySent
    /\ \A p \in Nodes : Runs(p) /\ Cardinality(echoSenders[p]) >= N - F
                            => p \in readySent
    /\ returned \subseteq readySent
    /\ returned # {} => readySent \in Quorum

\* A node that has the READYs and has not returned lacks ECHOs, for which it is
\* not enough to be behind those READYs.
TooFewEchoes ==
    \A p \in Nodes : Runs(p) /\ Cardinality(readySenders[p]) >= N - F
        => Cardinality(readySenders[p] \cap EchoedFirst) < K

\* An ECHO that was sent first was handled before the READY behind it.
EchoBeforeReady ==
    \A p \in Nodes : readySenders[p] \cap EchoedFirst \subseteq echoSenders[p]

RbInv ==
    /\ RbTypeOK
    /\ ValFirst
    /\ ReadyBacked
    /\ ReadySaid
    /\ TooFewEchoes
    /\ EchoBeforeReady
    /\ Cardinality(crashed) <= F
-----------------------------------------------------------------------------
LEMMA Numbers ==
    /\ N \in Nat /\ F \in Nat /\ N >= 3 * F + 1
    /\ K \in Nat /\ K >= 1 /\ K = N - 2 * F
    /\ MaxCrash <= F /\ MaxCrash \in Nat
    /\ Cardinality({}) = 0 /\ Cardinality({}) < K /\ Cardinality({}) < F + 1
    /\ Cardinality({}) < N - F
<1>1. N \in Nat /\ F \in Nat /\ N >= 3 * F + 1
    BY FaultNumbers
<1>2. MaxCrash \in Nat /\ MaxCrash <= F
    BY <1>1, BroadcastAssumption
<1>3. Cardinality({}) = 0
    BY FS_EmptySet
<1> QED
    BY <1>1, <1>2, <1>3 DEF K

LEMMA RbInitHolds == RbInit => RbInv
<1> SUFFICES ASSUME RbInit PROVE RbInv
    OBVIOUS
<1>1. RbTypeOK /\ ValFirst /\ ReadyBacked /\ EchoBeforeReady
    BY DEF RbInit, RbTypeOK, ValFirst, ReadyBacked, EchoBeforeReady
<1>2. ReadySaid /\ TooFewEchoes
    <2>1. \A p \in Nodes : echoSenders[p] = {} /\ readySenders[p] = {}
        BY DEF RbInit
    <2> QED
        BY <2>1, Numbers DEF RbInit, ReadySaid, TooFewEchoes
<1>3. Cardinality(crashed) <= F
    BY Numbers DEF RbInit
<1> QED
    BY <1>1, <1>2, <1>3 DEF RbInv

\* Dying or sending VAL disturbs nothing that the invariant says of others.
LEMMA ForgetKeeps ==
    ASSUME RbInv, NEW p \in Nodes, Forget(p),
           UNCHANGED <<fromLeader, late>>, readySent \subseteq readySent',
           \A q \in Nodes : Runs(q)' => Runs(q) /\ q # p
    PROVE  /\ echoSenders' \in [Nodes -> SUBSET fromLeader]
           /\ readySenders' \in [Nodes -> SUBSET readySent']
           /\ \A q \in Nodes : q # p => /\ echoSenders'[q] = echoSenders[q]
                                        /\ readySenders'[q] = readySenders[q]
           /\ TooFewEchoes' /\ EchoBeforeReady'
<1>t. RbTypeOK /\ TooFewEchoes /\ EchoBeforeReady
    BY DEF RbInv
<1>1. /\ echoSenders' \in [Nodes -> SUBSET fromLeader]
      /\ readySenders' \in [Nodes -> SUBSET readySent']
      /\ readySenders'[p] = {}
      /\ \A q \in Nodes : q # p => /\ echoSenders'[q] = echoSenders[q]
                                   /\ readySenders'[q] = readySenders[q]
    BY <1>t DEF Forget, RbTypeOK
<1>2. EchoedFirst' = EchoedFirst
    BY DEF EchoedFirst
<1>3. TooFewEchoes'
    BY <1>t, <1>1, <1>2 DEF TooFewEchoes
<1>4. EchoBeforeReady'
    BY <1>t, <1>1, <1>2 DEF EchoBeforeReady
<1> QED
    BY <1>1, <1>3, <1>4

LEMMA SendValKeeps == ASSUME RbInv, SendVal PROVE RbInv'
<1>1. RbTypeOK' /\ ValFirst'
    BY DEF RbInv, SendVal, RbTypeOK, ValFirst
<1>2. ReadyBacked' /\ ReadySaid' /\ TooFewEchoes' /\ EchoBeforeReady'
    BY DEF RbInv, SendVal, ReadyBacked, ReadySaid, TooFewEchoes, EchoBeforeReady,
           EchoedFirst, Runs
<1> QED
    BY <1>1, <1>2 DEF RbInv, SendVal

LEMMA CrashKeeps == ASSUME RbInv, NEW p \in Nodes, Crash(p) PROVE RbInv'
<1>t. RbTypeOK /\ ReadySaid
    BY DEF RbInv
<1>1. /\ crashed' = crashed \cup {p}
      /\ UNCHANGED <<valSent, fromLeader, readySent, late, returned>>
      /\ Forget(p)
    BY DEF Crash
<1>2. \A q \in Nodes : Runs(q)' => Runs(q) /\ q # p
    BY <1>1 DEF Runs
<1>3. crashed' \in SUBSET Nodes
    BY <1>1, <1>t DEF RbTypeOK
<1>4. /\ echoSenders' \in [Nodes -> SUBSET fromLeader]
      /\ readySenders' \in [Nodes -> SUBSET readySent']
      /\ \A q \in Nodes : q # p => /\ echoSenders'[q] = echoSenders[q]
                                   /\ readySenders'[q] = readySenders[q]
      /\ TooFewEchoes' /\ EchoBeforeReady'
    BY <1>1, <1>2, <1>3, <1>t, ForgetKeeps DEF RbTypeOK
<1>5. RbTypeOK'
    BY <1>1, <1>3, <1>4, <1>t DEF RbTypeOK
<1>6. ReadySaid'
    BY <1>1, <1>2, <1>4, <1>t DEF ReadySaid
<1>7. ValFirst' /\ ReadyBacked'
    BY <1>1 DEF RbInv, ValFirst, ReadyBacked, EchoedFirst
<1>8. Cardinality(crashed') <= F
    <2>1. IsFiniteSet(crashed) /\ Cardinality(crashed) \in Nat
        BY <1>t, NodeSets DEF RbTypeOK
    <2>2. Cardinality(crashed \cup {p}) = Cardinality(crashed) + 1
        BY <2>1, FS_AddElement DEF Crash
    <2> QED
        BY <1>1, <2>1, <2>2, Numbers DEF Crash
<1> QED
    BY <1>4, <1>5, <1>6, <1>7, <1>8 DEF RbInv

LEMMA HandleValKeeps == ASSUME RbInv, NEW p \in Nodes, HandleVal(p) PROVE RbInv'
<1>t. RbTypeOK /\ EchoBeforeReady /\ TooFewEchoes /\ ReadySaid /\ ReadyBacked
    BY DEF RbInv
<1>1. /\ fromLeader' = fromLeader \cup {p}
      /\ late' = IF p \in readySent THEN late \cup {p} ELSE late
      /\ UNCHANGED <<valSent, readySent, echoSenders, readySenders, returned, crashed>>
      /\ valSent /\ p \notin fromLeader
    BY DEF HandleVal, ValArrives
<1>2. RbTypeOK' /\ ValFirst'
    BY <1>1, <1>t DEF RbInv, RbTypeOK, ValFirst
<1>3. /\ EchoedFirst \subseteq EchoedFirst'
      /\ EchoedFirst' \in SUBSET Nodes
      /\ \A q \in readySent : q \in EchoedFirst' => q \in EchoedFirst
    BY <1>1, <1>t DEF EchoedFirst, RbTypeOK
<1>4. ReadyBacked'
    BY <1>1, <1>3, <1>t, QuorumSuperset DEF ReadyBacked
<1>5. \A q \in Nodes : readySenders'[q] \cap EchoedFirst' = readySenders[q] \cap EchoedFirst
    BY <1>1, <1>3, <1>t DEF RbTypeOK
<1>6. TooFewEchoes'
    BY <1>1, <1>5, <1>t DEF TooFewEchoes, Runs
<1>7. EchoBeforeReady'
    BY <1>1, <1>5, <1>t DEF EchoBeforeReady
<1>8. ReadySaid'
    BY <1>1, <1>t DEF ReadySaid, Runs
<1> QED
    BY <1>1, <1>2, <1>4, <1>6, <1>7, <1>8 DEF RbInv

LEMMA HandleEchoKeeps ==
    ASSUME RbInv, NEW p \in Nodes, NEW q \in Nodes, HandleEcho(p, q)
    PROVE  RbInv'
<1> DEFINE echoes == echoSenders[p] \cup {q}
           enough == Cardinality(echoes) >= N - F
<1>t. RbTypeOK /\ EchoBeforeReady /\ TooFewEchoes /\ ReadySaid /\ ReadyBacked
    BY DEF RbInv
<1>1. /\ echoSenders' = [echoSenders EXCEPT ![p] = echoes]
      /\ ReadyUpon(p, enough)
      /\ UNCHANGED <<valSent, fromLeader, late, readySenders, returned, crashed>>
      /\ Runs(p) /\ q \in fromLeader
    BY DEF HandleEcho, EchoArrives, LinkUp, EchoThreshold
<1>2. /\ echoes \in SUBSET fromLeader
      /\ \A r \in Nodes : echoSenders[r] \subseteq echoSenders'[r]
      /\ \A r \in Nodes : r # p => echoSenders'[r] = echoSenders[r]
      /\ echoSenders'[p] = echoes
    BY <1>1, <1>t DEF RbTypeOK
<1>3. /\ readySent' \in SUBSET Nodes
      /\ readySent \subseteq readySent'
      /\ enough => p \in readySent'
      /\ ~ enough => readySent' = readySent
    BY <1>1, <1>t DEF ReadyUpon, RbTypeOK
<1>4. EchoedFirst' = EchoedFirst
    BY <1>1 DEF EchoedFirst
<1> HIDE DEF echoes
<1>5. RbTypeOK' /\ ValFirst'
    BY <1>1, <1>2, <1>3, <1>t DEF RbInv, RbTypeOK, ValFirst
<1>6. ReadyBacked'
    <2>1. CASE readySent # {}
        BY <2>1, <1>4, <1>t DEF ReadyBacked
    <2>2. CASE readySent = {} /\ enough
        <3>1. EchoedFirst = fromLeader /\ fromLeader \in SUBSET Nodes
            BY <2>2, <1>t DEF EchoedFirst, RbTypeOK
        <3>2. echoes \in Quorum
            BY <2>2, <1>2, <3>1 DEF Quorum
        <3> QED
            BY <3>1, <3>2, <1>2, <1>4, QuorumSuperset DEF ReadyBacked
    <2>3. CASE readySent = {} /\ ~ enough
        BY <2>3, <1>3 DEF ReadyBacked
    <2> QED
        BY <2>1, <2>2, <2>3
<1>7. ReadySaid'
    <2>1. \A r \in Nodes : Runs(r)' /\ Cardinality(readySenders'[r]) >= F + 1
                             => r \in readySent'
        BY <1>1, <1>3, <1>t DEF ReadySaid, Runs
    <2>2. \A r \in Nodes : Runs(r)' /\ Cardinality(echoSenders'[r]) >= N - F
                             => r \in readySent'
        BY <1>1, <1>2, <1>3, <1>t DEF ReadySaid, Runs
    <2>3. returned' \subseteq readySent' /\ (returned' # {} => readySent' \in Quorum)
        BY <1>1, <1>3, <1>t, QuorumSuperset DEF ReadySaid
    <2> QED
        BY <2>1, <2>2, <2>3 DEF ReadySaid
<1>8. TooFewEchoes'
    BY <1>1, <1>4, <1>t DEF TooFewEchoes, Runs
<1>9. EchoBeforeReady'
    BY <1>1, <1>2, <1>4, <1>t DEF EchoBeforeReady
<1> QED
    BY <1>1, <1>5, <1>6, <1>7, <1>8, <1>9 DEF RbInv

LEMMA HandleReadyKeeps ==
    ASSUME RbInv, NEW p \in Nodes, NEW q \in Nodes, HandleReady(p, q)
    PROVE  RbInv'
<1> DEFINE ready == readySenders[p] \cup {q}
           enough == Cardinality(ready) >= F + 1
<1>t. RbTypeOK /\ EchoBeforeReady /\ TooFewEchoes /\ ReadySaid /\ ReadyBacked
    BY DEF RbInv
<1>1. /\ ReadyUpon(p, enough)
      /\ UNCHANGED <<valSent, fromLeader, late, crashed>>
      /\ Runs(p) /\ q \in readySent
      /\ q \in fromLeader => q \in late \/ q \in echoSenders[p]
    BY DEF HandleReady, ReadyArrives, LinkUp, ReadyThreshold
<1>2. IF CanOutput(p, ready)
      THEN returned' = returned \cup {p} /\ Forget(p)
      ELSE /\ readySenders' = [readySenders EXCEPT ![p] = ready]
           /\ UNCHANGED <<echoSenders, returned>>
    BY DEF HandleReady
<1>3. /\ readySent' \in SUBSET Nodes
      /\ readySent \subseteq readySent'
      /\ enough => p \in readySent'
    BY <1>1, <1>t DEF ReadyUpon, RbTypeOK
<1>4. EchoedFirst' = EchoedFirst
    BY <1>1 DEF EchoedFirst
<1>5. /\ ready \in SUBSET readySent
      /\ ready \in SUBSET Nodes
      /\ Cardinality(ready) \in Nat
      /\ ready \cap EchoedFirst \subseteq echoSenders[p]
      /\ echoSenders[p] \in SUBSET Nodes
    <2>1. ready \in SUBSET readySent /\ ready \in SUBSET Nodes
        BY <1>1, <1>t DEF RbTypeOK
    <2>2. ready \cap EchoedFirst \subseteq echoSenders[p]
        BY <1>1, <1>t DEF EchoBeforeReady, EchoedFirst
    <2> QED
        BY <2>1, <2>2, <1>t, NodeSets DEF RbTypeOK
<1> HIDE DEF ready
<1>6. ReadyBacked' /\ ValFirst'
    BY <1>1, <1>4, <1>t DEF RbInv, ReadyBacked, ValFirst
<1>7. CASE CanOutput(p, ready)
    <2>1. returned' = returned \cup {p} /\ Forget(p)
        BY <1>2, <1>7
    <2>2. \A r \in Nodes : Runs(r)' => Runs(r) /\ r # p
        BY <1>1, <2>1 DEF Runs
    <2>3. /\ echoSenders' \in [Nodes -> SUBSET fromLeader]
          /\ readySenders' \in [Nodes -> SUBSET readySent']
          /\ \A r \in Nodes : r # p => /\ echoSenders'[r] = echoSenders[r]
                                       /\ readySenders'[r] = readySenders[r]
          /\ TooFewEchoes' /\ EchoBeforeReady'
        BY <1>1, <1>3, <2>1, <2>2, ForgetKeeps
    <2>4. RbTypeOK'
        BY <1>1, <1>3, <2>1, <2>3, <1>t DEF RbTypeOK
    <2>5. Cardinality(ready) >= N - F /\ enough
        BY <1>5, <1>7, Numbers DEF CanOutput, OutputThreshold
    <2>6. ready \in Quorum
        BY <1>5, <2>5 DEF Quorum
    <2>7. readySent' \in Quorum
        BY <1>3, <1>5, <2>6, QuorumSuperset
    <2>8. ReadySaid'
        BY <1>3, <2>1, <2>2, <2>3, <2>5, <2>7, <1>t DEF ReadySaid
    <2> QED
        BY <1>1, <1>6, <2>3, <2>4, <2>8 DEF RbInv
<1>8. CASE ~ CanOutput(p, ready)
    <2>1. /\ readySenders' = [readySenders EXCEPT ![p] = ready]
          /\ UNCHANGED <<echoSenders, returned>>
        BY <1>2, <1>8
    <2>2. /\ readySenders'[p] = ready
          /\ \A r \in Nodes : r # p => readySenders'[r] = readySenders[r]
        BY <2>1, <1>t DEF RbTypeOK
    <2>3. RbTypeOK'
        BY <1>1, <1>3, <1>5, <2>1, <1>t DEF RbTypeOK
    <2>4. ReadySaid'
        <3>1. \A r \in Nodes : Runs(r)' /\ Cardinality(readySenders'[r]) >= F + 1
                                 => r \in readySent'
            BY <1>1, <1>3, <2>1, <2>2, <1>t DEF ReadySaid, Runs
        <3>2. \A r \in Nodes : Runs(r)' /\ Cardinality(echoSenders'[r]) >= N - F
                                 => r \in readySent'
            BY <1>1, <1>3, <2>1, <1>t DEF ReadySaid, Runs
        <3>3. returned' \subseteq readySent' /\ (returned' # {} => readySent' \in Quorum)
            BY <1>3, <2>1, <1>t, QuorumSuperset DEF ReadySaid
        <3> QED
            BY <3>1, <3>2, <3>3 DEF ReadySaid
    <2>5. Cardinality(ready) >= N - F => Cardinality(ready \cap EchoedFirst) < K
        <3>1. /\ Cardinality(ready \cap EchoedFirst) <= Cardinality(echoSenders[p])
              /\ Cardinality(ready \cap EchoedFirst) \in Nat
              /\ Cardinality(echoSenders[p]) \in Nat
            BY <1>5, NodeSets
        <3> QED
            BY <1>8, <3>1, Numbers DEF CanOutput, OutputThreshold
    <2>6. TooFewEchoes'
        BY <1>1, <1>4, <2>1, <2>2, <2>5, <1>t DEF TooFewEchoes, Runs
    <2>7. EchoBeforeReady'
        BY <1>4, <1>5, <2>1, <2>2, <1>t DEF EchoBeforeReady
    <2> QED
        BY <1>1, <1>6, <2>3, <2>4, <2>6, <2>7 DEF RbInv
<1> QED
    BY <1>7, <1>8

LEMMA RbStepKeeps == RbInv /\ [RbNext]_rbVars => RbInv'
<1> SUFFICES ASSUME RbInv, [RbNext]_rbVars PROVE RbInv'
    OBVIOUS
<1>1. CASE UNCHANGED rbVars
    BY <1>1 DEF rbVars, RbInv, RbTypeOK, ValFirst, ReadyBacked, ReadySaid,
                TooFewEchoes, EchoBeforeReady, EchoedFirst, Runs
<1>2. CASE RbNext
    BY <1>2, SendValKeeps, HandleValKeeps, HandleEchoKeeps, HandleReadyKeeps,
       CrashKeeps DEF RbNext
<1> QED
    BY <1>1, <1>2

\* The invariant holds in every reachable state.
THEOREM RbInvariant == RbSpec => []RbInv
<1> QED
    BY RbInitHolds, RbStepKeeps, PTL DEF RbSpec
-----------------------------------------------------------------------------
(***************************************************************************)
(* When all messages are in.                                               *)
(***************************************************************************)
LEMMA LiveQuorum == ASSUME RbInv PROVE Live \in Quorum
<1>1. crashed \in SUBSET Nodes /\ Cardinality(crashed) <= F
    BY DEF RbInv, RbTypeOK
<1>2. /\ IsFiniteSet(Nodes) /\ IsFiniteSet(crashed)
      /\ Cardinality(crashed) \in Nat
    BY <1>1, FaultAssumption, NodeSets
<1>3. Cardinality(Nodes \ crashed) = Cardinality(Nodes) - Cardinality(Nodes \cap crashed)
    BY <1>2, FS_Difference
<1>4. Nodes \cap crashed = crashed
    BY <1>1
<1>5. Cardinality(Nodes) - Cardinality(crashed) >= N - F
    BY <1>1, <1>2, Numbers DEF N
<1>6. Cardinality(Live) >= N - F
    BY <1>3, <1>4, <1>5 DEF Live
<1> QED
    BY <1>6 DEF Live, Quorum

\* A running node has then handled all that live nodes sent.
LEMMA AllHandled ==
    ASSUME RbInv, Settled, NEW p \in Nodes, Runs(p), NEW q \in Live
    PROVE  /\ valSent /\ Leader \in Live => p \in fromLeader
           /\ q \in fromLeader => q \in echoSenders[p]
           /\ q \in readySent => q \in readySenders[p]
<1>1. valSent /\ Leader \in Live => p \in fromLeader
    BY DEF Settled, ValArrives, Live
<1>2. q \in fromLeader \/ q \in readySent => valSent
    BY DEF RbInv, ValFirst
<1>3. q \in fromLeader \/ q \in readySent => LinkUp(p, q)
    BY <1>1, <1>2 DEF LinkUp, Live
<1>4. q \in Nodes /\ ~ EchoArrives(p, q) /\ ~ ReadyArrives(p, q)
    BY DEF Settled, Live
<1>5. q \in readySent /\ q \notin readySenders[p] => q \in echoSenders[p] \/ q \notin fromLeader \/ q \in late
    BY <1>3, <1>4 DEF EchoArrives
<1>6. q \in readySent => q \in readySenders[p]
    BY <1>3, <1>4, <1>5 DEF ReadyArrives
<1>7. late \subseteq readySent
    BY DEF RbInv, RbTypeOK
<1>8. q \in fromLeader => q \in echoSenders[p]
    BY <1>3, <1>4, <1>6, <1>7 DEF EchoArrives
<1> QED
    BY <1>1, <1>6, <1>8

\* Once a running node has the READYs of all live nodes it cannot be running.
LEMMA NoneLeft ==
    ASSUME RbInv, Settled, Live \subseteq readySent
    PROVE  Live \subseteq returned
<1> SUFFICES ASSUME NEW p \in Live, p \notin returned PROVE FALSE
    OBVIOUS
<1>1. p \in Nodes /\ Runs(p)
    BY DEF Live, Runs
<1>2. Live \subseteq readySenders[p]
    BY <1>1, AllHandled
<1>3. Live \in Quorum /\ EchoedFirst \in Quorum
    BY LiveQuorum DEF RbInv, ReadyBacked
<1>4. readySenders[p] \in SUBSET Nodes
    BY <1>1 DEF RbInv, RbTypeOK
<1>5. Cardinality(readySenders[p]) >= N - F
    BY <1>2, <1>3, <1>4, QuorumSuperset DEF Quorum
<1>6. Cardinality(Live \cap EchoedFirst) >= Cardinality(Live) - F
    BY <1>3, MeetQuorum DEF Quorum
<1>7. /\ Cardinality(Live \cap EchoedFirst) <= Cardinality(readySenders[p] \cap EchoedFirst)
      /\ Cardinality(Live \cap EchoedFirst) \in Nat
      /\ Cardinality(readySenders[p] \cap EchoedFirst) \in Nat
      /\ Cardinality(Live) \in Nat
    BY <1>2, <1>3, <1>4, NodeSets DEF Quorum
<1>8. Cardinality(readySenders[p] \cap EchoedFirst) >= K
    BY <1>3, <1>6, <1>7, Numbers DEF Quorum
<1>9. Cardinality(readySenders[p] \cap EchoedFirst) < K
    BY <1>1, <1>5 DEF RbInv, TooFewEchoes
<1> QED
    BY <1>7, <1>8, <1>9, Numbers

\* A returned node had READYs of a quorum, more than f of them of live nodes,
\* and those make every live node say READY.
LEMMA ReturnedReachesAll ==
    ASSUME RbInv, Settled, returned # {}
    PROVE  Live \subseteq returned
<1>1. readySent \in Quorum /\ Live \in Quorum
    BY LiveQuorum DEF RbInv, ReadySaid
<1>2. Cardinality(readySent \cap Live) >= F + 1
    BY <1>1, QuorumsMeet
<1>3. ASSUME NEW p \in Live, p \notin readySent PROVE FALSE
    <2>1. p \in Nodes /\ Runs(p)
        BY <1>3 DEF Live, Runs, RbInv, ReadySaid
    <2>2. readySent \cap Live \subseteq readySenders[p]
        BY <2>1, AllHandled
    <2>3. readySenders[p] \in SUBSET Nodes
        BY <2>1 DEF RbInv, RbTypeOK
    <2>4. Cardinality(readySenders[p]) >= F + 1
        <3>1. /\ Cardinality(readySent \cap Live) <= Cardinality(readySenders[p])
              /\ Cardinality(readySent \cap Live) \in Nat
              /\ Cardinality(readySenders[p]) \in Nat
            BY <2>2, <2>3, NodeSets
        <3> QED
            BY <1>2, <3>1, Numbers
    <2> QED
        BY <1>3, <2>1, <2>4 DEF RbInv, ReadySaid
<1> QED
    BY <1>3, NoneLeft

\* Totality, for every number of nodes and crashes up to f.
THEOREM BroadcastTotal == RbSpec => []Totality
<1>1. RbInv => Totality
    BY ReturnedReachesAll DEF Totality
<1> QED
    BY <1>1, RbInvariant, PTL

\* Validity, likewise: with the leader alive all live nodes echo, and so all
\* say READY.
THEOREM BroadcastValid == RbSpec => []Validity
<1>1. ASSUME RbInv, Settled, valSent, Leader \in Live
      PROVE  Live \subseteq returned
    <2>1. CASE returned # {}
        BY <1>1, <2>1, ReturnedReachesAll
    <2>2. CASE returned = {}
        <3>1. \A p \in Live : p \in Nodes /\ Runs(p)
            BY <2>2 DEF Live, Runs
        <3>2. Live \subseteq fromLeader
            BY <1>1, <3>1, AllHandled
        <3>3. ASSUME NEW p \in Live PROVE p \in readySent
            <4>1. Live \subseteq echoSenders[p]
                BY <1>1, <3>1, <3>2, AllHandled
            <4>2. echoSenders[p] \in SUBSET Nodes
                BY <1>1, <3>1 DEF RbInv, RbTypeOK
            <4>3. echoSenders[p] \in Quorum
                BY <1>1, <4>1, <4>2, LiveQuorum, QuorumSuperset
            <4> QED
                BY <1>1, <3>1, <4>3 DEF RbInv, ReadySaid, Quorum
        <3> QED
            BY <1>1, <3>3, NoneLeft
    <2> QED
        BY <2>1, <2>2
<1>2. RbInv => Validity
    BY <1>1 DEF Validity
<1> QED
    BY <1>2, RbInvariant, PTL
-----------------------------------------------------------------------------
(***************************************************************************)
(* The broadcast settles.  What is left to send, to handle and to return   *)
(* is a finite set of tokens, and every step takes one of them for good.   *)
(***************************************************************************)
Kinds == {"send", "val", "echo", "ready", "greenlet", "process"}

\* The token for what p has to do, about q where it is a message.
Remains(kind, p, q) ==
    \/ kind = "send" /\ ~ valSent
    \/ kind = "val" /\ p \notin fromLeader
    \/ kind = "echo" /\ Runs(p) /\ q \notin echoSenders[p]
    \/ kind = "ready" /\ Runs(p) /\ q \notin readySenders[p]
    \/ kind = "greenlet" /\ p \notin returned
    \/ kind = "process" /\ p \notin crashed

Todo == {t \in Kinds \X (Nodes \X Nodes) : Remains(t[1], t[2][1], t[2][2])}

\* Nothing is added, and one token goes.
LEMMA TokenGoes ==
    ASSUME \A k \in Kinds, p \in Nodes, q \in Nodes : Remains(k, p, q)' => Remains(k, p, q),
           NEW k \in Kinds, NEW p \in Nodes, NEW q \in Nodes,
           Remains(k, p, q), ~ Remains(k, p, q)'
    PROVE  Todo' \subseteq Todo /\ Todo' # Todo
<1>1. Todo' \subseteq Todo
    BY DEF Todo
<1>2. <<k, <<p, q>>>> \in Todo /\ <<k, <<p, q>>>> \notin Todo'
    BY DEF Todo
<1> QED
    BY <1>1, <1>2

\* The leader's VALs: they are sent once, and each is handled once.
LEMMA ValConsumes ==
    ASSUME RbTypeOK, SendVal \/ \E p \in Nodes : HandleVal(p)
    PROVE  Todo' \subseteq Todo /\ Todo' # Todo
<1>1. /\ echoSenders' = echoSenders /\ readySenders' = readySenders
      /\ returned' = returned /\ crashed' = crashed
      /\ \A p \in Nodes : Runs(p)' <=> Runs(p)
    BY DEF SendVal, HandleVal, Runs
<1>2. CASE SendVal
    <2>1. fromLeader' = fromLeader /\ ~ valSent /\ valSent'
        BY <1>2 DEF SendVal
    <2>2. ASSUME NEW k \in Kinds, NEW p \in Nodes, NEW q \in Nodes, Remains(k, p, q)'
          PROVE  Remains(k, p, q)
        BY <1>1, <2>1, <2>2 DEF Remains
    <2>3. Remains("send", Leader, Leader) /\ ~ Remains("send", Leader, Leader)'
        BY <2>1 DEF Remains
    <2> QED
        BY <2>2, <2>3, TokenGoes, BroadcastAssumption DEF Kinds
<1>3. CASE \E p \in Nodes : HandleVal(p)
    <2>1. PICK p \in Nodes : HandleVal(p)
        BY <1>3
    <2>2. valSent' = valSent /\ p \notin fromLeader /\ fromLeader' = fromLeader \cup {p}
        BY <2>1 DEF HandleVal, ValArrives
    <2>3. ASSUME NEW k \in Kinds, NEW r \in Nodes, NEW q \in Nodes, Remains(k, r, q)'
          PROVE  Remains(k, r, q)
        BY <1>1, <2>2, <2>3 DEF Remains
    <2>4. Remains("val", p, p) /\ ~ Remains("val", p, p)'
        BY <2>2 DEF Remains
    <2> QED
        BY <2>3, <2>4, TokenGoes DEF Kinds
<1> QED
    BY <1>2, <1>3

\* Each ECHO and READY is handled once; a node that returned handles no more.
LEMMA MessageConsumes ==
    ASSUME RbTypeOK, NEW p \in Nodes, NEW q \in Nodes, HandleEcho(p, q) \/ HandleReady(p, q)
    PROVE  Todo' \subseteq Todo /\ Todo' # Todo
<1>1. /\ valSent' = valSent /\ fromLeader' = fromLeader /\ crashed' = crashed
      /\ Runs(p)
      /\ echoSenders \in [Nodes -> SUBSET fromLeader]
      /\ readySenders \in [Nodes -> SUBSET readySent]
    BY DEF HandleEcho, HandleReady, EchoArrives, ReadyArrives, LinkUp, RbTypeOK
<1>2. CASE returned' = returned
    <2>1. \A r \in Nodes : Runs(r)' <=> Runs(r)
        BY <1>1, <1>2 DEF Runs
    <2>2. CASE HandleEcho(p, q)
        <3>1. /\ readySenders' = readySenders /\ q \notin echoSenders[p]
              /\ echoSenders' = [echoSenders EXCEPT ![p] = echoSenders[p] \cup {q}]
            BY <2>2 DEF HandleEcho, EchoArrives
        <3>2. \A r \in Nodes : echoSenders'[r] = IF r = p THEN echoSenders[p] \cup {q} ELSE echoSenders[r]
            BY <1>1, <3>1
        <3>3. ASSUME NEW k \in Kinds, NEW r \in Nodes, NEW s \in Nodes, Remains(k, r, s)'
              PROVE  Remains(k, r, s)
            BY <1>1, <1>2, <2>1, <3>1, <3>2, <3>3 DEF Remains
        <3>4. Remains("echo", p, q) /\ ~ Remains("echo", p, q)'
            BY <1>1, <3>1, <3>2 DEF Remains
        <3> QED
            BY <3>3, <3>4, TokenGoes DEF Kinds
    <2>3. CASE HandleReady(p, q)
        <3>1. /\ echoSenders' = echoSenders /\ q \notin readySenders[p]
              /\ readySenders' = [readySenders EXCEPT ![p] = readySenders[p] \cup {q}]
            BY <1>1, <1>2, <2>3 DEF HandleReady, ReadyArrives, Runs
        <3>2. \A r \in Nodes : readySenders'[r] = IF r = p THEN readySenders[p] \cup {q} ELSE readySenders[r]
            BY <1>1, <3>1
        <3>3. ASSUME NEW k \in Kinds, NEW r \in Nodes, NEW s \in Nodes, Remains(k, r, s)'
              PROVE  Remains(k, r, s)
            BY <1>1, <1>2, <2>1, <3>1, <3>2, <3>3 DEF Remains
        <3>4. Remains("ready", p, q) /\ ~ Remains("ready", p, q)'
            BY <1>1, <3>1, <3>2 DEF Remains
        <3> QED
            BY <3>3, <3>4, TokenGoes DEF Kinds
    <2> QED
        BY <2>2, <2>3
<1>3. CASE returned' # returned
    <2>1. returned' = returned \cup {p} /\ Forget(p) /\ p \notin returned
        BY <1>1, <1>3 DEF HandleEcho, HandleReady, Runs
    <2>2. \A r \in Nodes : r # p => /\ echoSenders'[r] = echoSenders[r]
                                    /\ readySenders'[r] = readySenders[r]
                                    /\ Runs(r)' <=> Runs(r)
        BY <1>1, <2>1 DEF Forget, Runs
    <2>3. ~ Runs(p)'
        BY <2>1 DEF Runs
    <2>4. ASSUME NEW k \in Kinds, NEW r \in Nodes, NEW s \in Nodes, Remains(k, r, s)'
          PROVE  Remains(k, r, s)
        BY <1>1, <2>1, <2>2, <2>3, <2>4 DEF Remains
    <2>5. Remains("greenlet", p, p) /\ ~ Remains("greenlet", p, p)'
        BY <2>1 DEF Remains
    <2> QED
        BY <2>4, <2>5, TokenGoes DEF Kinds
<1> QED
    BY <1>2, <1>3

LEMMA CrashConsumes ==
    ASSUME RbTypeOK, NEW p \in Nodes, Crash(p)
    PROVE  Todo' \subseteq Todo /\ Todo' # Todo
<1>1. /\ valSent' = valSent /\ fromLeader' = fromLeader /\ returned' = returned
      /\ p \notin crashed /\ crashed' = crashed \cup {p}
      /\ Forget(p)
      /\ echoSenders \in [Nodes -> SUBSET fromLeader]
      /\ readySenders \in [Nodes -> SUBSET readySent]
    BY DEF Crash, RbTypeOK
<1>2. \A r \in Nodes : r # p => /\ echoSenders'[r] = echoSenders[r]
                                /\ readySenders'[r] = readySenders[r]
                                /\ Runs(r)' <=> Runs(r)
    BY <1>1 DEF Forget, Runs
<1>3. ~ Runs(p)'
    BY <1>1 DEF Runs
<1>4. ASSUME NEW k \in Kinds, NEW r \in Nodes, NEW s \in Nodes, Remains(k, r, s)'
      PROVE  Remains(k, r, s)
    BY <1>1, <1>2, <1>3, <1>4 DEF Remains
<1>5. Remains("process", p, p) /\ ~ Remains("process", p, p)'
    BY <1>1 DEF Remains
<1> QED
    BY <1>4, <1>5, TokenGoes DEF Kinds

LEMMA TodoIsFinite == IsFiniteSet(Todo)
<1>1. IsFiniteSet(Kinds)
    <2>1. Kinds = {"send", "val", "echo", "ready", "greenlet", "process", "process", "process"}
        BY DEF Kinds
    <2> QED
        BY <2>1, EightAreFinite
<1>2. IsFiniteSet(Nodes \X Nodes)
    BY FaultAssumption, FS_Product
<1>3. IsFiniteSet(Kinds \X (Nodes \X Nodes))
    BY <1>1, <1>2, FS_Product
<1>4. Todo \subseteq Kinds \X (Nodes \X Nodes)
    BY DEF Todo
<1> QED
    BY <1>3, <1>4, FS_Subset

\* A broadcast has finitely many steps, whatever crashes and is late: each takes
\* something for good from a finite set.  It comes to a state that is Settled,
\* the one that Totality and Validity are about.
THEOREM BroadcastConsumes ==
    RbSpec => []IsFiniteSet(Todo) /\ [][Todo' \in (SUBSET Todo) \ {Todo}]_rbVars
<1> DEFINE A == Todo' \in (SUBSET Todo) \ {Todo}
<1>1. RbInv /\ [RbNext]_rbVars => [A]_rbVars
    BY ValConsumes, MessageConsumes, CrashConsumes DEF RbNext, RbInv
<1>2. IsFiniteSet(Todo)
    BY TodoIsFinite
<1> HIDE DEF A
<1>3. RbSpec => []IsFiniteSet(Todo) /\ [][A]_rbVars
    BY <1>1, <1>2, RbInvariant, PTL DEF RbSpec
<1> QED
    BY <1>3 DEF A
=============================================================================
