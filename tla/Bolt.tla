--------------------------------- MODULE Bolt ---------------------------------
(***************************************************************************)
(* bolt: the fast path of ngbdt.  In a slot the leader waits TIMEOUT1 for  *)
(* the votes of all N nodes, on which the voted block is fixed at once;    *)
(* after that N - f votes are enough, and a block is fixed with the one    *)
(* that follows it.  In slot 1 of an epoch with k > 0, N - f OKs bring the *)
(* leader the transactions the last leader left open, of which f + 1 equal *)
(* ones are proposed again.  At the leader a DECIDE may come from the      *)
(* handler of a vote or from handle_vote, a timer.  Links are FIFO.        *)
(***************************************************************************)
EXTENDS Quorums, Sequences, SequencesExt

CONSTANTS
    BkSlots,  \* SLOTS_NUM + 2
    None

VARIABLES
    bkLeader,  \* leader
    bkHolds,   \* nodes with ok_tx # 0; if there are none, k = 0
    bkOkers,   \* okers[1]
    bkSlot,    \* slot_cur
    bkChain,   \* the batches of the node's blocks, up to pending_block
    bkNotar,   \* the slot of notraized_block, 0 for none
    bkFixed,   \* the slot of the last fixed_block
    bkVotes,   \* VOTEs in flight: <<sender, the chain voted for>>
    bkVoters,  \* voters[slot_cur] at the leader
    bkFlag,    \* flag at the leader
    bkLate,    \* whether TIMEOUT1 has passed in the leader's slot
    bkSent,    \* the DECIDEs the leader has sent, in their order
    bkHandled, \* how many of them each node has handled
    bkItem,    \* decides[slot_cur], a queue of capacity 1
    bkDeaf     \* nodes whose handle_messages ended, by Full or the slot's timer

bkConst == <<bkLeader, bkHolds>>
bkNode == <<bkSlot, bkChain, bkNotar, bkFixed>>
bkLead == <<bkVoters, bkFlag, bkLate>>
bkVars == <<bkConst, bkOkers, bkNode, bkVotes, bkLead, bkSent, bkHandled, bkItem, bkDeaf>>

NewBatch == [slot |-> 1, batch |-> "new", sigma |-> 0]

BkInit ==
    /\ bkLeader \in Nodes
    /\ bkHolds \in SUBSET Nodes
    /\ bkOkers = {}
    /\ bkSlot = [p \in Nodes |-> 1]
    /\ bkChain = [p \in Nodes |-> << >>]
    /\ bkNotar = [p \in Nodes |-> 0]
    /\ bkFixed = [p \in Nodes |-> 0]
    /\ bkVotes = {}
    /\ bkVoters = {}
    /\ bkFlag = None
    /\ bkLate = FALSE
    /\ bkSent = IF bkHolds = {} THEN <<NewBatch>> ELSE << >>
    /\ bkHandled = [p \in Nodes |-> 0]
    /\ bkItem = [p \in Nodes |->
                    IF p = bkLeader /\ bkHolds = {} THEN NewBatch ELSE None]
    /\ bkDeaf = {}
-----------------------------------------------------------------------------
Listens(p) == p \notin bkDeaf

\* put_nowait on a queue of capacity 1: the handler dies if there is an item.
Put(p, item) ==
    IF bkItem[p] = None
    THEN bkItem' = [bkItem EXCEPT ![p] = item] /\ UNCHANGED bkDeaf
    ELSE bkDeaf' = bkDeaf \cup {p} /\ UNCHANGED bkItem

\* send(-2, ('DECIDE', ...)), then decides[slot_cur].put_nowait(...).
Send(item) == bkSent' = Append(bkSent, item) /\ Put(bkLeader, item)

\* Mutation of OksNeeded: f + 1 OKs are waited for.
OksNeededLess == F + 1

OksNeeded == N - F

\* OK: when N - f are in, f + 1 with the same transactions decide the batch.
HandleOk(p) ==
    LET okers == bkOkers \cup {p} IN
    /\ Listens(bkLeader)
    /\ bkHolds # {} /\ p \notin bkOkers
    /\ bkSlot[bkLeader] = 1 /\ Cardinality(bkOkers) < OksNeeded
    /\ bkOkers' = okers
    /\ IF Cardinality(okers) < OksNeeded
       THEN UNCHANGED <<bkSent, bkItem, bkDeaf>>
       ELSE IF Cardinality(okers \cap bkHolds) >= F + 1
       THEN Send([slot |-> 1, batch |-> "old", sigma |-> F + 1])
       ELSE Send([slot |-> 1, batch |-> "new", sigma |-> OksNeeded])
    /\ UNCHANGED <<bkConst, bkNode, bkVotes, bkLead, bkHandled>>

\* get_input: each DECIDE of a slot takes another transaction.
SentIn(s) == \E i \in DOMAIN bkSent : bkSent[i].slot = s
DecideOf(s, sigma) ==
    [slot |-> s, batch |-> IF SentIn(s) THEN "again" ELSE "first", sigma |-> sigma]

SuperFast(voters) == ~ bkLate /\ Cardinality(voters) = N

\* VOTE for the leader's tip.  flag is only reset by the next slot, so that a
\* vote handled after DECIDE was sent in this slot makes the leader send again.
HandleVote(p, chain) ==
    LET s      == bkSlot[bkLeader]
        voters == bkVoters \cup {p}
        free   == ~ SentIn(s)
        flag   == IF SuperFast(voters) /\ free THEN 1
                  ELSE IF Cardinality(voters) >= N - F /\ bkLate /\ free THEN 0
                  ELSE bkFlag
    IN  /\ Listens(bkLeader)
        /\ <<p, chain>> \in bkVotes
        /\ bkVotes' = bkVotes \ {<<p, chain>>}
        /\ IF chain = bkChain[bkLeader]
           THEN /\ bkVoters' = voters
                /\ bkFlag' = flag
                /\ IF flag = None
                   THEN UNCHANGED <<bkSent, bkItem, bkDeaf>>
                   ELSE Send(DecideOf(s, IF flag = 1 THEN Cardinality(voters) ELSE N - F))
           ELSE UNCHANGED <<bkVoters, bkFlag, bkSent, bkItem, bkDeaf>>
        /\ UNCHANGED <<bkConst, bkOkers, bkNode, bkLate, bkHandled>>

\* TIMEOUT1 passes, and handle_vote decides if vote_thresh[slot_cur] is set.
SuperTimer ==
    LET s == bkSlot[bkLeader] IN
    /\ ~ bkLate /\ s > 1 /\ s <= BkSlots
    /\ bkLate' = TRUE
    /\ IF Cardinality(bkVoters) >= N - F /\ ~ SentIn(s)
       THEN Send(DecideOf(s, N - F))
       ELSE UNCHANGED <<bkSent, bkItem, bkDeaf>>
    /\ UNCHANGED <<bkConst, bkOkers, bkNode, bkVotes, bkVoters, bkFlag, bkHandled>>

\* DECIDE: taken by a node whose slot_cur is the DECIDE's, if it listens.
HandleDecide(p) ==
    LET next == bkHandled[p] + 1 IN
    /\ Listens(p) /\ p # bkLeader
    /\ next \in DOMAIN bkSent
    /\ bkHandled' = [bkHandled EXCEPT ![p] = next]
    /\ IF bkSent[next].slot = bkSlot[p]
       THEN Put(p, bkSent[next])
       ELSE UNCHANGED <<bkItem, bkDeaf>>
    /\ UNCHANGED <<bkConst, bkOkers, bkNode, bkVotes, bkLead, bkSent>>

\* What is taken for the votes of all nodes: not exactly 2f + 1 of them.
ByAll(item) == item.sigma # 2 * F + 1

\* Whether there is a pending block after the item: the batch of slot 1 is only
\* taken with no OKs, f + 1 or 2f + 1 of them.
Pending(p, item) ==
    IF item.slot = 1 THEN item.sigma \in {0, F + 1, 2 * F + 1} ELSE bkChain[p] # << >>

\* one_slot: the block of the slot before is notarized, and fixed if all voted
\* for it, else the notarized block is fixed; then the node votes.  A handler
\* that died left msg_noncritical_signal clear, and one_slot waits for it.
OneSlot(p) ==
    LET s     == bkSlot[p]
        item  == bkItem[p]
        kept  == s > 1 /\ Pending(p, item)
        chain == IF Pending(p, item) THEN Append(bkChain[p], item.batch) ELSE bkChain[p]
    IN  /\ Listens(p) /\ item # None
        /\ bkItem' = [bkItem EXCEPT ![p] = None]
        /\ bkSlot' = [bkSlot EXCEPT ![p] = s + 1]
        /\ bkChain' = [bkChain EXCEPT ![p] = chain]
        /\ bkFixed' = [bkFixed EXCEPT ![p] =
                          IF kept /\ ByAll(item) THEN s - 1
                          ELSE IF kept /\ bkNotar[p] > 0 THEN bkNotar[p] ELSE @]
        /\ bkNotar' = [bkNotar EXCEPT ![p] = IF kept /\ ~ ByAll(item) THEN s - 1 ELSE 0]
        /\ bkVotes' = IF s < BkSlots THEN bkVotes \cup {<<p, chain>>} ELSE bkVotes
        /\ IF p = bkLeader
           THEN bkVoters' = {} /\ bkFlag' = None /\ bkLate' = FALSE
           ELSE UNCHANGED bkLead
        /\ UNCHANGED <<bkConst, bkOkers, bkSent, bkHandled, bkDeaf>>

\* TIMEOUT2, which is longer than TIMEOUT1, passes while one_slot waits for its
\* item: handle_messages is killed and the node leaves the fast path.
SlotTimer(p) ==
    /\ Listens(p) /\ bkItem[p] = None /\ bkSlot[p] <= BkSlots
    /\ p = bkLeader /\ bkSlot[p] > 1 => bkLate
    /\ bkDeaf' = bkDeaf \cup {p}
    /\ UNCHANGED <<bkConst, bkOkers, bkNode, bkVotes, bkLead, bkSent, bkHandled, bkItem>>

BkNext ==
    \/ SuperTimer
    \/ \E p \in Nodes :
          \/ HandleOk(p)
          \/ \E chain \in {bkChain[q] : q \in Nodes} : HandleVote(p, chain)
          \/ HandleDecide(p)
          \/ OneSlot(p)
          \/ SlotTimer(p)

BkSpec == BkInit /\ [][BkNext]_bkVars
-----------------------------------------------------------------------------
(***************************************************************************)
(* Properties.                                                             *)
(***************************************************************************)
\* The blocks a node has notarized: all of its chain but the pending block.
Notarized(p) == SubSeq(bkChain[p], 1, Len(bkChain[p]) - 1)

\* Although the leader may send two DECIDEs with different transactions for a
\* slot, the blocks the nodes notarize form one chain, and every chain starts
\* with the transactions the last leader left open if N - f nodes hold them.
BoltOneChain ==
    \A p, q \in Nodes :
        /\ \/ IsPrefix(Notarized(p), Notarized(q))
           \/ IsPrefix(Notarized(q), Notarized(p))
        /\ bkHolds \in Quorum /\ bkChain[p] # << >> => bkChain[p][1] = "old"

\* A fixed block is never lost: every node holds it, or N - f nodes hold it
\* with a certificate.
BoltFixedHeld ==
    \A p \in Nodes : bkFixed[p] > 0 =>
        \/ \A q \in Nodes : Len(bkChain[q]) >= bkFixed[p]
        \/ {q \in Nodes : Len(bkChain[q]) > bkFixed[p]} \in Quorum

\* What bolt promises: one chain, from which nothing fixed is lost.
BoltKeepsChain == BoltOneChain /\ BoltFixedHeld
=============================================================================
