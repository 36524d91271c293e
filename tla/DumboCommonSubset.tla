-------------------------- MODULE DumboCommonSubset --------------------------
(***************************************************************************)
(* The common subset of Dumbo (dumbocommonsubset, the values spread by     *)
(* PRBC) and of speedy Dumbo (speedydumbocommonsubset, the values spread   *)
(* by provablebroadcast): when the broadcast of its own value is proved, a *)
(* node gives the proof to validatedcommonsubset, which agrees on a vector *)
(* of N - f proofs; the node then waits for the values the vector names.   *)
(* PRBC is what ReliableBroadcast promises, the multi-valued agreement     *)
(* inside what ValidatedAgreement promises.                                *)
(***************************************************************************)
EXTENDS Quorums

CONSTANTS
    CsMaxCrash,  \* bound: how many processes crash
    None

VARIABLES
    csBroadcast,  \* the broadcast in use: "prbc" or "pb"
    csHas,        \* prbc_values, pb_values: whose value each node holds
    csVal,        \* nodes that sent ('VACS_VAL', proof), their broadcast proved
    csVector,     \* the nodes of the vector vaba_output has
    csReturned,   \* nodes that returned the subset
    csCrashed     \* processes that died

csVars == <<csBroadcast, csHas, csVal, csVector, csReturned, csCrashed>>

CsInit ==
    /\ csBroadcast \in {"prbc", "pb"}
    /\ csHas = [p \in Nodes |-> {}]
    /\ csVal = {}
    /\ csVector = None
    /\ csReturned = {}
    /\ csCrashed = {}
-----------------------------------------------------------------------------
CsLive(p) == p \notin csCrashed

Holders(q) == {p \in Nodes : q \in csHas[p]}

\* PB_SEND: the leader of a PB outputs its value and sends it, and a node takes
\* it at once; the sending ends when the leader dies.  A PRBC that one node
\* returned from goes on without its leader.
ValueIn(p, q) ==
    /\ CsLive(p) /\ q \notin csHas[p]
    /\ \/ CsLive(q) /\ (csBroadcast = "pb" => p = q \/ q \in csHas[q])
       \/ csBroadcast = "prbc" /\ Holders(q) # {}

GetValue(p, q) ==
    /\ ValueIn(p, q)
    /\ csHas' = [csHas EXCEPT ![p] = @ \cup {q}]
    /\ UNCHANGED <<csBroadcast, csVal, csVector, csReturned, csCrashed>>

\* The leader of a PB has its N - f PB_ECHOs.
PbProved(q) == q \in csHas[q] /\ Holders(q) \in Quorum

\* The leader of a PRBC has returned from it.
PrbcProved(q) == q \in csHas[q]

ProofIn(q) ==
    /\ CsLive(q) /\ q \notin csVal
    /\ IF csBroadcast = "pb" THEN PbProved(q) ELSE PrbcProved(q)

Propose(q) ==
    /\ ProofIn(q)
    /\ csVal' = csVal \cup {q}
    /\ UNCHANGED <<csBroadcast, csHas, csVector, csReturned, csCrashed>>

\* Mutation of ValsNeeded: the VALs of all nodes are awaited.
ValsNeededAll == N

ValsNeeded == N - F

\* The first N - f VALs to reach a node, whatever they are, are its vector, and
\* the multi-valued agreement outputs the vector some node put in.
ValsIn(vector) ==
    /\ csVector = None
    /\ vector \subseteq csVal
    /\ Cardinality(vector) = ValsNeeded

VabaDecides(vector) ==
    /\ ValsIn(vector)
    /\ csVector' = vector
    /\ UNCHANGED <<csBroadcast, csHas, csVal, csReturned, csCrashed>>

\* join: the values of the vector are all there.
SubsetIn(p) ==
    /\ CsLive(p) /\ p \notin csReturned
    /\ csVector # None /\ csVector \subseteq csHas[p]

ReturnSubset(p) ==
    /\ SubsetIn(p)
    /\ csReturned' = csReturned \cup {p}
    /\ UNCHANGED <<csBroadcast, csHas, csVal, csVector, csCrashed>>

\* A PB leader may die between two of its sends.
CsCrash(p) ==
    /\ Cardinality(csCrashed) < CsMaxCrash
    /\ CsLive(p)
    /\ csCrashed' = csCrashed \cup {p}
    /\ UNCHANGED <<csBroadcast, csHas, csVal, csVector, csReturned>>

CsProgress ==
    \/ \E p \in Nodes, q \in Nodes : GetValue(p, q)
    \/ \E p \in Nodes : Propose(p) \/ ReturnSubset(p)
    \/ \E vector \in SUBSET Nodes : VabaDecides(vector)

CsNext == CsProgress \/ \E p \in Nodes : CsCrash(p)

CsSpec == CsInit /\ [][CsNext]_csVars
-----------------------------------------------------------------------------
(***************************************************************************)
(* Properties.                                                             *)
(***************************************************************************)
\* No process can do anything any more.
CsSettled ==
    /\ \A p \in Nodes : ~ ProofIn(p) /\ ~ SubsetIn(p) /\ \A q \in Nodes : ~ ValueIn(p, q)
    /\ \A vector \in SUBSET Nodes : ~ ValsIn(vector)

\* No crash keeps a node of Dumbo from its subset.  In speedy Dumbo a node is
\* left waiting (lines 57-60, "It is possible never wait the delivered pb
\* value") only for values of nodes that died after their proofs were chosen,
\* and each of them misses at most f nodes: the others have echoed it.
SubsetReturned ==
    CsSettled =>
        \A p \in Nodes : CsLive(p) /\ p \notin csReturned =>
            /\ csBroadcast = "pb" /\ csVector # None
            /\ csVector \ csHas[p] \subseteq csCrashed
            /\ \A q \in csVector : Holders(q) \in Quorum
=============================================================================
