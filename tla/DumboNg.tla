------------------------------- MODULE DumboNg -------------------------------
(***************************************************************************)
(* Dumbo_NG_k_s: every node broadcasts its transactions without waiting    *)
(* (NwAbc), track_progress keeps how far each broadcast has come           *)
(* (cur_view), and an agreement per epoch cuts the broadcasts at a view    *)
(* that N - f of them have grown to since the last cut (prev_view).  A     *)
(* node behind the cut marks the blocks it misses with "catch"; nothing    *)
(* fetches them.  One node, the source, may die.  How far its broadcast    *)
(* was output is kept per node (output_list).  What the others broadcast   *)
(* reaches every node in the end, and at any time before it is needed, and *)
(* track_progress takes what is in output_list in the same way: a cur_view *)
(* is any view up to what was output.  The agreement is what SpeedMvba     *)
(* promises.                                                               *)
(***************************************************************************)
EXTENDS Quorums

CONSTANTS
    NgMaxRound,  \* bound: the rounds of each broadcast
    NgMaxCrash,  \* bound: 1 if the source may die
    None

VARIABLES
    ngSource,   \* the node that may die
    ngDead,     \* whether it did
    ngGrown,    \* the last round with N - f signatures of each broadcast
    ngOut,      \* the source's rounds each node has put in output_list
    ngEpoch,    \* epoch of each node
    ngRunning,  \* nodes that have left the wait for progress and run the VABA
    ngCuts      \* the view each epoch started from, prev_view

ngVars == <<ngSource, ngDead, ngGrown, ngOut, ngEpoch, ngRunning, ngCuts>>

\* An epoch takes a round of N - f broadcasts, so there are no more than these.
NgEpochs == 0 .. (NgMaxRound * N) \div (N - F)

NgInit ==
    /\ ngSource \in Nodes
    /\ ngDead = FALSE
    /\ ngGrown = [i \in Nodes |-> 0]
    /\ ngOut = [p \in Nodes |-> 0]
    /\ ngEpoch = [p \in Nodes |-> 0]
    /\ ngRunning = {}
    /\ ngCuts = [e \in NgEpochs |-> IF e = 0 THEN [i \in Nodes |-> 0] ELSE None]
-----------------------------------------------------------------------------
Alive(p) == ~ (ngDead /\ p = ngSource)

\* nwatomicbroadcast: N - f nodes voted for the next round, which they do when
\* they have output the round before it, be it tracked or not.
GrowDue(i) ==
    /\ Alive(i)
    /\ ngGrown[i] < NgMaxRound
    /\ i = ngSource => {p \in Nodes : ngOut[p] >= ngGrown[i]} \in Quorum

Grow(i) ==
    /\ GrowDue(i)
    /\ ngGrown' = [ngGrown EXCEPT ![i] = @ + 1]
    /\ UNCHANGED <<ngSource, ngDead, ngOut, ngEpoch, ngRunning, ngCuts>>

\* decide_output: the source's next PROPOSAL certifies the round before it.
OutputDue(p) == ~ ngDead /\ ngOut[p] < ngGrown[ngSource]

Output(p) ==
    /\ OutputDue(p)
    /\ ngOut' = [ngOut EXCEPT ![p] = @ + 1]
    /\ UNCHANGED <<ngSource, ngDead, ngGrown, ngEpoch, ngRunning, ngCuts>>

PrevView(p) == ngCuts[ngEpoch[p]]

\* The node's cur_view when track_progress has emptied output_list, and the
\* node has caught up with the other broadcasts.
CurView(p) == [i \in Nodes |-> IF i = ngSource THEN ngOut[p] ELSE ngGrown[i]]

\* What the node's cur_view may be when it is past prev_view.
Reached(p) ==
    {view \in [Nodes -> 0 .. NgMaxRound] :
        \A i \in Nodes : view[i] \in PrevView(p)[i] .. CurView(p)[i]}

\* Mutation of Advances: all broadcasts have to grow.
AdvancesAll(p, view) == \A i \in Nodes : view[i] > PrevView(p)[i]

\* Mutation of Advances: a cut may leave f more broadcasts where they are.
AdvancesLess(p, view) ==
    Cardinality({i \in Nodes : view[i] > PrevView(p)[i]}) >= N - 2 * F

Advances(p, view) ==
    Cardinality({i \in Nodes : view[i] > PrevView(p)[i]}) >= N - F

\* The wait ends: no broadcast is behind the last cut, and N - f are past it.
VabaDue(p) ==
    /\ Alive(p) /\ p \notin ngRunning
    /\ \A i \in Nodes : CurView(p)[i] >= PrevView(p)[i]
    /\ Advances(p, CurView(p))

StartVaba(p) ==
    /\ VabaDue(p)
    /\ ngRunning' = ngRunning \cup {p}
    /\ UNCHANGED <<ngSource, ngDead, ngGrown, ngOut, ngEpoch, ngCuts>>

\* The agreement of an epoch outputs the view of a node that runs it.
NextCut(p) == ngEpoch[p] + 1

CutDue(p) ==
    /\ p \in ngRunning
    /\ NextCut(p) \in NgEpochs /\ ngCuts[NextCut(p)] = None
    /\ {q \in ngRunning : ngEpoch[q] = ngEpoch[p]} \in Quorum

Cut(p) ==
    /\ CutDue(p)
    /\ \E view \in Reached(p) :
          Advances(p, view) /\ ngCuts' = [ngCuts EXCEPT ![NextCut(p)] = view]
    /\ UNCHANGED <<ngSource, ngDead, ngGrown, ngOut, ngEpoch, ngRunning>>

\* vaba_output: the cut becomes prev_view, and the next epoch begins.
EpochDue(p) ==
    /\ Alive(p) /\ p \in ngRunning
    /\ NextCut(p) \in NgEpochs /\ ngCuts[NextCut(p)] # None

NextEpoch(p) ==
    /\ EpochDue(p)
    /\ ngEpoch' = [ngEpoch EXCEPT ![p] = NextCut(p)]
    /\ ngRunning' = ngRunning \ {p}
    /\ UNCHANGED <<ngSource, ngDead, ngGrown, ngOut, ngCuts>>

SourceDies ==
    /\ NgMaxCrash = 1
    /\ ~ ngDead
    /\ ngDead' = TRUE
    /\ UNCHANGED <<ngSource, ngGrown, ngOut, ngEpoch, ngRunning, ngCuts>>

NgProgress ==
    \E p \in Nodes :
        \/ Grow(p)
        \/ Output(p)
        \/ StartVaba(p)
        \/ Cut(p)
        \/ NextEpoch(p)

NgNext == NgProgress \/ SourceDies

NgSpec == NgInit /\ [][NgNext]_ngVars
-----------------------------------------------------------------------------
(***************************************************************************)
(* Properties.                                                             *)
(***************************************************************************)
\* Every cut is one N - f nodes can hold: the block of the source at which it
\* is cut was voted for by N - f nodes, so f + 1 live nodes have it although
\* nothing fetches it for the others; and it leaves out at most f broadcasts.
CutHeld ==
    \A e \in NgEpochs \ {0} : ngCuts[e] # None =>
        /\ {p \in Nodes : ngOut[p] >= ngCuts[e][ngSource] - 1} \in Quorum
        /\ Cardinality({i \in Nodes : ngCuts[e][i] > ngCuts[e - 1][i]}) >= N - F

\* No node can do anything any more, up to NgMaxRound.
NgSettled ==
    \A p \in Nodes :
        /\ ~ GrowDue(p) /\ ~ OutputDue(p) /\ ~ VabaDue(p) /\ ~ EpochDue(p)
        /\ CutDue(p) => \A view \in Reached(p) : ~ Advances(p, view)

\* The epochs go on as long as the broadcasts of N - f nodes grow, unless the
\* source died and left a node without a block that a cut counts on: that node
\* waits for ever (lines 404-420 and "TODO: ADD PULLING BLOCK"), and with it,
\* since f nodes are dead, all.
EpochsGoOn ==
    NgSettled =>
    \/ \A p \in Nodes : Alive(p) =>
          Cardinality({i \in Nodes : Alive(i) /\ ngGrown[i] > PrevView(p)[i]}) < N - F
    \/ ngDead /\ \E p \in Nodes \ {ngSource} : ngOut[p] < PrevView(p)[ngSource]
=============================================================================
