---------------------------- MODULE DispersedLedger ----------------------------
(***************************************************************************)
(* dispersedledger: a round of BM, in which every node disperses a block   *)
(* with provablecbc and speedmvba decides N - f of the blocks, and the     *)
(* retrieval by RECOVER, a process of its own.  The block of one leader is *)
(* followed, and its retrieval at one node, dlWatch.                       *)
(***************************************************************************)
EXTENDS Quorums

CONSTANTS DlMaxCrash, None

VARIABLES
    dlLeader,   \* the node whose block is followed
    dlWatch,    \* the node whose retrieval is followed
    dlChunk,    \* nodes that hold their chunk of the block, and have echoed it
    dlEchoes,   \* cbc_echo_sshares at the leader
    dlOut,      \* nodes at which provablecbc has returned
    dlDecided,  \* whether the decided list has the block; None before
    dlEnded,    \* nodes that ended the round
    dlReturns,  \* those of them whose RETURN has their chunk
    dlGot,      \* re_instances at dlWatch
    dlUp,       \* nodes that have not crashed
    dlLost      \* nodes the messages under way of a crashed node do not reach

dlCast == <<dlLeader, dlWatch>>
dlCbc == <<dlChunk, dlEchoes, dlOut>>
dlRound == <<dlDecided, dlEnded, dlReturns>>
dlFaults == <<dlUp, dlLost>>
dlVars == <<dlCast, dlCbc, dlRound, dlGot, dlFaults>>

DlInit ==
    /\ dlLeader \in Nodes
    /\ dlWatch \in Nodes
    /\ dlChunk = {}
    /\ dlEchoes = {}
    /\ dlOut = {}
    /\ dlDecided = None
    /\ dlEnded = {}
    /\ dlReturns = {}
    /\ dlGot = {}
    /\ dlUp = Nodes
    /\ dlLost = {}
-----------------------------------------------------------------------------
\* Whether what p sent still arrives at q.
Comes(p, q) == q \in dlUp /\ (p \in dlUp \/ q \notin dlLost)

\* provablecbc runs at p until it returns or the end of the round kills it.
Runs(p) == p \notin dlOut \cup dlEnded

\* CBC_SEND: the chunk is handed to get_pcbc_chunk and echoed.
HandleSend(p) ==
    /\ Runs(p) /\ Comes(dlLeader, p)
    /\ p \notin dlChunk
    /\ dlChunk' = dlChunk \cup {p}
    /\ UNCHANGED <<dlCast, dlEchoes, dlOut, dlRound, dlGot, dlFaults>>

\* CBC_ECHO, at the leader.
HandleEcho(p) ==
    /\ Runs(dlLeader) /\ Comes(p, dlLeader)
    /\ p \in dlChunk \ dlEchoes
    /\ dlEchoes' = dlEchoes \cup {p}
    /\ UNCHANGED <<dlCast, dlChunk, dlOut, dlRound, dlGot, dlFaults>>

\* Mutation of EchoThreshold: N - 2f, the number of chunks decoding takes.
EchoThresholdLess == N - 2 * F

EchoThreshold == N - F

\* CBC_FINAL, sent once EchoThreshold echoes are in: provablecbc returns, with
\* an empty chunk if the node has none.
HandleFinal(p) ==
    /\ Runs(p) /\ Comes(dlLeader, p)
    /\ Cardinality(dlEchoes) >= EchoThreshold
    /\ dlOut' = dlOut \cup {p}
    /\ UNCHANGED <<dlCast, dlChunk, dlEchoes, dlRound, dlGot, dlFaults>>

\* speedmvba decides the outputs some node had when it had N - f of them.
VabaDecides(in) ==
    /\ dlDecided = None
    /\ in => dlOut # {}
    /\ dlDecided' = in
    /\ UNCHANGED <<dlCast, dlCbc, dlEnded, dlReturns, dlGot, dlFaults>>

\* The end of _run_BC_MVBA_round: all threads of the round are killed, and
\* RETURN takes what chunks of decided blocks the node has by now to all.
EndRound(p) ==
    /\ dlDecided # None
    /\ p \in dlUp \ dlEnded
    /\ dlEnded' = dlEnded \cup {p}
    /\ dlReturns' = IF dlDecided /\ p \in dlChunk THEN dlReturns \cup {p} ELSE dlReturns
    /\ UNCHANGED <<dlCast, dlCbc, dlDecided, dlGot, dlFaults>>

\* _recover: with N - 2f chunks the block is decoded, later ones are skipped.
HandleReturn(p) ==
    /\ Cardinality(dlGot) < N - 2 * F
    /\ p \in dlReturns \ dlGot /\ Comes(p, dlWatch)
    /\ dlGot' = dlGot \cup {p}
    /\ UNCHANGED <<dlCast, dlCbc, dlRound, dlFaults>>

\* A node stops; what it sent may be lost on the way to some nodes.
DlCrash(p, lost) ==
    /\ p \in dlUp /\ Cardinality(Nodes \ dlUp) < DlMaxCrash
    /\ dlUp' = dlUp \ {p}
    /\ dlLost' = lost
    /\ UNCHANGED <<dlCast, dlCbc, dlRound, dlGot>>

DlNext ==
    \/ \E in \in BOOLEAN : VabaDecides(in)
    \/ \E p \in Nodes :
          \/ HandleSend(p)
          \/ HandleEcho(p)
          \/ HandleFinal(p)
          \/ EndRound(p)
          \/ HandleReturn(p)
          \/ \E lost \in SUBSET (Nodes \ {p}) : DlCrash(p, lost)

DlSpec == DlInit /\ [][DlNext]_dlVars
-----------------------------------------------------------------------------
(***************************************************************************)
(* Properties.                                                             *)
(***************************************************************************)
\* A block the agreement decided is decoded at every live node once all live
\* nodes ended the round and their chunks are in, although a chunk that comes
\* after the end of the round is never sent and f nodes may crash.
DlRetrieved ==
    (/\ dlDecided = TRUE
     /\ dlUp \subseteq dlEnded
     /\ dlWatch \in dlUp
     /\ dlReturns \cap dlUp \subseteq dlGot) => Cardinality(dlGot) = N - 2 * F
=============================================================================
