-------------------------- MODULE ReliableBroadcast --------------------------
(***************************************************************************)
(* provablereliablebroadcast: the broadcast of one node's input in Dumbo's *)
(* common subset.  The leader sends each node its stripe (VAL); a node     *)
(* echoes its stripe, says READY after N - f ECHOs or f + 1 READYs, and    *)
(* returns when a READY arrives, it has N - f READYs, and the ECHOs give   *)
(* it the N - 2f stripes that decoding takes.  An ECHO that completes the  *)
(* stripes does not make it return.  Links are FIFO.  A process may crash, *)
(* and then the rest of what it sent is lost: a message that arrives after *)
(* its sender crashed is taken to arrive just before.                      *)
(***************************************************************************)
EXTENDS Quorums

CONSTANTS
    Leader,   \* leader, the node whose input is broadcast
    MaxCrash  \* bound: how many processes crash, at most F

ASSUME BroadcastAssumption ==
    /\ Leader \in Nodes
    /\ MaxCrash \in 0 .. F

K == N - 2 * F  \* stripes needed to decode

\* Mutation of EchoThreshold: > instead of >=.
EchoThresholdStrict == N - F + 1

EchoThreshold == N - F

\* Mutation of ReadyThreshold: READYs are not amplified before N - f are in.
ReadyThresholdHigh == N - F

ReadyThreshold == F + 1
OutputThreshold == N - F

VARIABLES
    valSent,       \* whether the leader has sent its VALs
    fromLeader,    \* nodes that handled their VAL, and so sent ECHO
    readySent,     \* nodes that sent READY
    late,          \* nodes that sent READY before ECHO
    echoSenders,   \* whose ECHO each node has handled
    readySenders,  \* whose READY each node has handled
    returned,      \* nodes that returned the value and its proof
    crashed        \* processes that died

rbVars == <<valSent, fromLeader, readySent, late, echoSenders, readySenders,
            returned, crashed>>

RbInit ==
    /\ valSent = FALSE
    /\ fromLeader = {}
    /\ readySent = {}
    /\ late = {}
    /\ echoSenders = [p \in Nodes |-> {}]
    /\ readySenders = [p \in Nodes |-> {}]
    /\ returned = {}
    /\ crashed = {}
-----------------------------------------------------------------------------
Runs(p) == p \notin crashed /\ p \notin returned

Live == Nodes \ crashed

\* The leader's input is there: it sends every node, itself too, its stripe.
SendVal ==
    /\ Runs(Leader)
    /\ ~ valSent
    /\ valSent' = TRUE
    /\ UNCHANGED <<fromLeader, readySent, late, echoSenders, readySenders,
                   returned, crashed>>

\* The next message on the link from q to p is VAL, ECHO or READY.
ValArrives(p) ==
    /\ Runs(p)
    /\ Leader \notin crashed
    /\ valSent
    /\ p \notin fromLeader

LinkUp(p, q) ==
    /\ Runs(p)
    /\ q \notin crashed
    /\ q = Leader => p \in fromLeader

EchoArrives(p, q) ==
    /\ LinkUp(p, q)
    /\ q \in fromLeader
    /\ q \notin echoSenders[p]
    /\ q \in late => q \in readySenders[p]

ReadyArrives(p, q) ==
    /\ LinkUp(p, q)
    /\ q \in readySent
    /\ q \notin readySenders[p]
    /\ q \in fromLeader => q \in late \/ q \in echoSenders[p]

HandleVal(p) ==
    /\ ValArrives(p)
    /\ fromLeader' = fromLeader \cup {p}
    /\ late' = IF p \in readySent THEN late \cup {p} ELSE late
    /\ UNCHANGED <<valSent, readySent, echoSenders, readySenders, returned, crashed>>

\* readySent: a node says READY once, when there are enough messages for it.
ReadyUpon(p, enough) ==
    readySent' = IF enough THEN readySent \cup {p} ELSE readySent

HandleEcho(p, q) ==
    LET echoes == echoSenders[p] \cup {q} IN
    /\ EchoArrives(p, q)
    /\ echoSenders' = [echoSenders EXCEPT ![p] = echoes]
    /\ ReadyUpon(p, Cardinality(echoes) >= EchoThreshold)
    /\ UNCHANGED <<valSent, fromLeader, late, readySenders, returned, crashed>>

CanOutput(p, ready) ==
    /\ Cardinality(ready) >= OutputThreshold
    /\ Cardinality(echoSenders[p]) >= K

\* What a greenlet collected is gone when it returns or dies.
Forget(p) ==
    /\ echoSenders' = [echoSenders EXCEPT ![p] = {}]
    /\ readySenders' = [readySenders EXCEPT ![p] = {}]

HandleReady(p, q) ==
    LET ready == readySenders[p] \cup {q} IN
    /\ ReadyArrives(p, q)
    /\ ReadyUpon(p, Cardinality(ready) >= ReadyThreshold)
    /\ IF CanOutput(p, ready)
       THEN returned' = returned \cup {p} /\ Forget(p)
       ELSE /\ readySenders' = [readySenders EXCEPT ![p] = ready]
            /\ UNCHANGED <<echoSenders, returned>>
    /\ UNCHANGED <<valSent, fromLeader, late, crashed>>

Crash(p) ==
    /\ p \notin crashed
    /\ Cardinality(crashed) < MaxCrash
    /\ crashed' = crashed \cup {p}
    /\ Forget(p)
    /\ UNCHANGED <<valSent, fromLeader, readySent, late, returned>>

RbNext ==
    \/ SendVal
    \/ \E p \in Nodes :
          \/ HandleVal(p)
          \/ \E q \in Nodes : HandleEcho(p, q) \/ HandleReady(p, q)
          \/ Crash(p)

RbSpec == RbInit /\ [][RbNext]_rbVars
-----------------------------------------------------------------------------
(***************************************************************************)
(* Properties.                                                             *)
(***************************************************************************)
\* No message is under way any more: no handler of a live node has work.
Settled ==
    \A p \in Nodes :
        /\ ~ ValArrives(p)
        /\ \A q \in Nodes : ~ EchoArrives(p, q) /\ ~ ReadyArrives(p, q)

\* If a node returned, even one that died since, every live node returns once
\* all messages are in, although no ECHO makes a node return (lines 164-165
\* are commented out): READYs that overtake the ECHOs are too few to matter.
Totality == Settled /\ returned # {} => Live \subseteq returned

\* If the leader lives and had its input, every live node returns.
Validity == Settled /\ valSent /\ Leader \in Live => Live \subseteq returned
=============================================================================
