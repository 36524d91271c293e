-------------------------- MODULE ProvableDispersal --------------------------
(***************************************************************************)
(* provabledispersalbroadcast: the leader disperses the fragments of its   *)
(* value, gathers 2f + 1 STORED into a lock, and 2f + 1 LOCKED into a      *)
(* proof that it is done.  Links are FIFO, the one to oneself included.    *)
(***************************************************************************)
EXTENDS Quorums

CONSTANT PdMaxCrash

VARIABLES
    pdLeader,  \* leader
    pdHeld,    \* what a node has handled: 0 nothing, 1 STORE, 2 also LOCK
    pdStored,  \* stored[roothash] at the leader
    pdLocked,  \* locked[roothash] at the leader
    pdUp,      \* nodes that have not crashed
    pdLost     \* nodes the messages under way of a crashed node do not reach

pdVars == <<pdLeader, pdHeld, pdStored, pdLocked, pdUp, pdLost>>

PdInit ==
    /\ pdLeader \in Nodes
    /\ pdHeld = [p \in Nodes |-> 0]
    /\ pdStored = {}
    /\ pdLocked = {}
    /\ pdUp = Nodes
    /\ pdLost = {}
-----------------------------------------------------------------------------
\* Whether what p sent still arrives at q.
Arrives(p, q) == q \in pdUp /\ (p \in pdUp \/ q \notin pdLost)

StoredNeeded == 2 * F + 1

LockSent == Cardinality(pdStored) >= StoredNeeded
DoneSent == Cardinality(pdLocked) >= 2 * F + 1

\* The greenlet has returned: at the leader with DONE, even if its own STORE or
\* LOCK is still under way, elsewhere with STORE and LOCK.
Returned(p) == IF p = pdLeader THEN DoneSent ELSE pdHeld[p] = 2

\* STORE: the fragment is kept and STORED sent to the leader.
HandleStore(p) ==
    /\ Arrives(pdLeader, p) /\ ~ Returned(p)
    /\ pdHeld[p] = 0
    /\ pdHeld' = [pdHeld EXCEPT ![p] = 1]
    /\ UNCHANGED <<pdLeader, pdStored, pdLocked, pdUp, pdLost>>

\* STORED: once from each node; with 2f + 1 the leader broadcasts LOCK.
HandleStored(p) ==
    /\ Arrives(p, pdLeader) /\ ~ Returned(pdLeader)
    /\ pdHeld[p] > 0 /\ p \notin pdStored
    /\ pdStored' = pdStored \cup {p}
    /\ UNCHANGED <<pdLeader, pdHeld, pdLocked, pdUp, pdLost>>

\* LOCK: follows STORE on the link; LOCKED is sent to the leader.
HandleLock(p) ==
    /\ Arrives(pdLeader, p) /\ ~ Returned(p)
    /\ LockSent /\ pdHeld[p] = 1
    /\ pdHeld' = [pdHeld EXCEPT ![p] = 2]
    /\ UNCHANGED <<pdLeader, pdStored, pdLocked, pdUp, pdLost>>

\* LOCKED: with 2f + 1 of them the leader is done.
HandleLocked(p) ==
    /\ Arrives(p, pdLeader) /\ ~ Returned(pdLeader)
    /\ pdHeld[p] = 2 /\ p \notin pdLocked
    /\ pdLocked' = pdLocked \cup {p}
    /\ UNCHANGED <<pdLeader, pdHeld, pdStored, pdUp, pdLost>>

\* A node stops; what it sent may be lost on the way to some nodes.
PdCrash(p, lost) ==
    /\ p \in pdUp /\ Cardinality(Nodes \ pdUp) < PdMaxCrash
    /\ pdUp' = pdUp \ {p}
    /\ pdLost' = lost
    /\ UNCHANGED <<pdLeader, pdHeld, pdStored, pdLocked>>

PdStep ==
    \E p \in Nodes :
        \/ HandleStore(p)
        \/ HandleStored(p)
        \/ HandleLock(p)
        \/ HandleLocked(p)
        \/ \E lost \in SUBSET (Nodes \ {p}) : PdCrash(p, lost)
=============================================================================
