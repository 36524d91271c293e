-------------------------- MODULE HoneyBadgerSubset --------------------------
(***************************************************************************)
(* The common subset of HoneyBadger (commonsubset): one reliable broadcast *)
(* and one binary agreement per node.  A node gives an agreement 1 when    *)
(* the broadcast has returned, and 0 when N - f other agreements output 1; *)
(* it waits for the values of those that output 1.  A broadcast returns at *)
(* 2f + 1 READYs and N - 2f ECHOs, after which the node takes no part in   *)
(* it.  The broadcast of one node is slow, because the node is or because  *)
(* it dies; those of the others go well (bound).  The agreement is what    *)
(* BinaryAgreement promises.                                               *)
(***************************************************************************)
EXTENDS Quorums

CONSTANTS
    HbMaxCrash,  \* bound: how many processes crash, at most 1
    None

VARIABLES
    hbSlow,      \* the leader whose broadcast is slow
    hbEcho,      \* nodes that broadcast ECHO in it
    hbReady,     \* nodes that broadcast READY in it
    hbGot,       \* nodes that returned from it
    hbOthers,    \* nodes where the agreements on the others have output 1
    hbIn,        \* aba_in: what each node put in the agreement on it
    hbDecided,   \* what that agreement decided
    hbReturned,  \* nodes that returned from commonsubset
    hbCrashed,   \* processes that died
    hbCut        \* nodes a process that died had not yet sent to

hbVars == <<hbSlow, hbEcho, hbReady, hbGot, hbOthers, hbIn, hbDecided, hbReturned,
            hbCrashed, hbCut>>

HbInit ==
    /\ hbSlow \in Nodes
    /\ hbEcho = {} /\ hbReady = {} /\ hbGot = {}
    /\ hbOthers = {}
    /\ hbIn = [p \in Nodes |-> None]
    /\ hbDecided = None
    /\ hbReturned = {}
    /\ hbCrashed = {} /\ hbCut = {}
-----------------------------------------------------------------------------
HbLive(p) == p \notin hbCrashed

\* How many of the senders p hears.
Heard(p, senders) ==
    Cardinality(IF p \in hbCut THEN senders \ hbCrashed ELSE senders)

\* VAL from the leader; a node that has returned does not echo it.
EchoDue(p) == HbLive(p) /\ HbLive(hbSlow) /\ p \notin hbEcho \cup hbGot

Echo(p) ==
    /\ EchoDue(p)
    /\ hbEcho' = hbEcho \cup {p}
    /\ UNCHANGED <<hbSlow, hbReady, hbGot, hbOthers, hbIn, hbDecided, hbReturned,
                   hbCrashed, hbCut>>

\* N - f ECHOs, or f + 1 READYs.
ReadyDue(p) ==
    /\ HbLive(p) /\ p \notin hbReady
    /\ Heard(p, hbEcho) >= N - F \/ Heard(p, hbReady) >= F + 1

Ready(p) ==
    /\ ReadyDue(p)
    /\ hbReady' = hbReady \cup {p}
    /\ UNCHANGED <<hbSlow, hbEcho, hbGot, hbOthers, hbIn, hbDecided, hbReturned,
                   hbCrashed, hbCut>>

\* _recv_rbc: the value is decoded, and the agreement given 1.
ValueIn(p) ==
    /\ HbLive(p) /\ p \in hbReady \ hbGot
    /\ Heard(p, hbReady) >= 2 * F + 1 /\ Heard(p, hbEcho) >= N - 2 * F

GetValue(p) ==
    /\ ValueIn(p)
    /\ hbGot' = hbGot \cup {p}
    /\ hbIn' = [hbIn EXCEPT ![p] = IF @ = None THEN 1 ELSE @]
    /\ UNCHANGED <<hbSlow, hbEcho, hbReady, hbOthers, hbDecided, hbReturned,
                   hbCrashed, hbCut>>

\* Mutation of OnesNeeded: all agreements are waited for.
OnesNeededAll == N

OnesNeeded == N - F

\* _recv_aba: the agreements on the N - 1 others have output 1, which gives 0
\* to the one that has no input yet.
OthersIn(p) == HbLive(p) /\ p \notin hbOthers

OthersOutput(p) ==
    /\ OthersIn(p)
    /\ hbOthers' = hbOthers \cup {p}
    /\ hbIn' = [hbIn EXCEPT ![p] = IF @ = None /\ N - 1 >= OnesNeeded THEN 0 ELSE @]
    /\ UNCHANGED <<hbSlow, hbEcho, hbReady, hbGot, hbDecided, hbReturned, hbCrashed,
                   hbCut>>

\* N - f nodes take part, and f + 1 put in what is decided.
MayDecide(v) ==
    /\ hbDecided = None
    /\ {p \in Nodes : HbLive(p) /\ hbIn[p] # None} \in Quorum
    /\ Cardinality({p \in Nodes : hbIn[p] = v}) >= F + 1

AbaDecides(v) ==
    /\ MayDecide(v)
    /\ hbDecided' = v
    /\ UNCHANGED <<hbSlow, hbEcho, hbReady, hbGot, hbOthers, hbIn, hbReturned,
                   hbCrashed, hbCut>>

\* r_threads[j] is joined, or killed.
SubsetIn(p) ==
    /\ HbLive(p) /\ p \in hbOthers \ hbReturned
    /\ hbDecided # None
    /\ hbDecided = 1 => p \in hbGot

ReturnSubset(p) ==
    /\ SubsetIn(p)
    /\ hbReturned' = hbReturned \cup {p}
    /\ UNCHANGED <<hbSlow, hbEcho, hbReady, hbGot, hbOthers, hbIn, hbDecided,
                   hbCrashed, hbCut>>

\* The process may die while it sends to one node after the other.
HbCrash(p) ==
    /\ Cardinality(hbCrashed) < HbMaxCrash
    /\ HbLive(p)
    /\ hbCrashed' = hbCrashed \cup {p}
    /\ \E cut \in SUBSET (Nodes \ {p}) : hbCut' = cut
    /\ UNCHANGED <<hbSlow, hbEcho, hbReady, hbGot, hbOthers, hbIn, hbDecided,
                   hbReturned>>

HbProgress ==
    \/ \E p \in Nodes : \/ Echo(p) \/ Ready(p) \/ GetValue(p)
                        \/ OthersOutput(p) \/ ReturnSubset(p)
    \/ \E v \in {0, 1} : AbaDecides(v)

HbNext == HbProgress \/ \E p \in Nodes : HbCrash(p)

HbSpec == HbInit /\ [][HbNext]_hbVars
-----------------------------------------------------------------------------
(***************************************************************************)
(* Properties.                                                             *)
(***************************************************************************)
\* No process can do anything any more.
HbSettled ==
    /\ \A p \in Nodes :
          /\ ~ EchoDue(p) /\ ~ ReadyDue(p) /\ ~ ValueIn(p)
          /\ ~ OthersIn(p) /\ ~ SubsetIn(p)
    /\ \A v \in {0, 1} : ~ MayDecide(v)

\* No crash keeps a node from its subset: an agreement that never gets a 1
\* gets a 0, and if one node had the value and 1 is decided, all get it, also
\* from nodes that returned from the broadcast and left it.
HoneyBadgerReturns ==
    HbSettled => \A p \in Nodes : HbLive(p) => p \in hbReturned
=============================================================================
