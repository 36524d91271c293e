------------------------------ MODULE HsFastPath ------------------------------
(***************************************************************************)
(* hsfastpath: the optimistic path of one BDT epoch.  A fixed leader runs  *)
(* slots 1, 2, ..., SLOTS_NUM + 2.  In a slot every node votes for its tip *)
(* (hash_prev); N - f votes let the leader send DECIDE, which carries the  *)
(* votes (a certificate of the block of the previous slot) and the next    *)
(* batch.  Each node is two greenlets: the main one runs one_slot and      *)
(* blocks on decides[slot_cur]; handle_messages consumes the network.      *)
(* Nodes may crash, messages are delayed arbitrarily, and each link is a   *)
(* FIFO connection that a crash of its sender may cut.                     *)
(***************************************************************************)
EXTENDS Quorums, Sequences

CONSTANTS
    Leader,    \* leader = e % N
    SlotsNum,  \* SLOTS_NUM
    StatFrom,  \* first slot whose fixed block enters the statistics (8 in the code)
    TxSupply,  \* transactions a node's buffer may hold at the start
    None       \* Python's None

ASSUME FastPathAssumption ==
    /\ Leader \in Nodes
    /\ SlotsNum \in Nat
    /\ StatFrom \in Nat \ {0}
    /\ TxSupply \subseteq Nat
    /\ None \notin {"Tx", "Dummy"}

LastSlot == SlotsNum + 2
Slots == 1 .. LastSlot
Batches == {"Tx", "Dummy"}

\* A hash is the sequence of (slot, batch) pairs it commits to, so it is
\* injective; hash_genesis is the empty one.
Hashes == Seq(Slots \X Batches)
HeaderHash(slot, hash, batch) == Append(hash, <<slot, batch>>)

VARIABLES
    slotCur,     \* slot_cur of each node
    hashPrev,    \* hash_prev
    pending,     \* pending_block
    notarized,   \* notraized_block
    fixed,       \* fixed_block
    output,      \* the last pair given to output_notraized_block
    epochTx,     \* epoch_txcnt, in batches: the statistics' denominator
    decides,     \* decides[slot_cur], a queue of capacity 1: None or its item
    phase,       \* where the node's greenlets are
    voters,      \* the leader's voters[slot], as the set of signers
    voteMsgs,    \* VOTE messages in flight to the leader
    decideSent,  \* the DECIDE the leader sent for each slot (decide_sent)
    handled,     \* how many DECIDEs each node's handler consumed
    reach,       \* how many DECIDEs of the leader reach each node
    buffer       \* transactions left in each node's transaction_buffer

nodeVars == <<slotCur, hashPrev, pending, notarized, fixed, output, epochTx>>
netVars  == <<voters, voteMsgs, decideSent, handled, reach, buffer>>
fpVars   == <<nodeVars, netVars, decides, phase>>

\* "enter": not started; "wait": blocked in one_slot; "left": all slots done;
\* "timeout": the slot's timer fired; "raised": an exception ended the main
\* greenlet; "crashed": the process is gone.
Phases == {"enter", "wait", "left", "timeout", "raised", "crashed"}

Items  == [hash : Hashes, sigma : SUBSET Nodes, batch : Batches]
Blocks == [slot : Slots, hash : Hashes, batch : Batches]
Votes  == [slot : Slots, sender : Nodes, hash : Hashes]
\* What output_notraized_block receives: the block, the hash that the
\* certificate signs, the signers, and the statistics.
Outputs == [block : Blocks, certified : Hashes, sigma : SUBSET Nodes,
            txcnt : Nat]

ASSUME NoneAssumption == None \notin Items \cup Blocks \cup Outputs

TypeOK ==
    /\ slotCur \in [Nodes -> 1 .. LastSlot + 1]
    /\ hashPrev \in [Nodes -> Hashes]
    /\ pending \in [Nodes -> Blocks \cup {None}]
    /\ notarized \in [Nodes -> Blocks \cup {None}]
    /\ fixed \in [Nodes -> Blocks \cup {None}]
    /\ output \in [Nodes -> Outputs \cup {None}]
    /\ epochTx \in [Nodes -> Nat]
    /\ decides \in [Nodes -> Items \cup {None}]
    /\ phase \in [Nodes -> Phases]
    /\ voters \in [Slots -> SUBSET Nodes]
    /\ voteMsgs \in SUBSET Votes
    /\ decideSent \in [Slots -> Items \cup {None}]
    /\ handled \in [Nodes -> 0 .. LastSlot]
    /\ reach \in [Nodes -> 0 .. LastSlot]
    /\ buffer \in [Nodes -> Nat]
-----------------------------------------------------------------------------
Init ==
    /\ slotCur = [p \in Nodes |-> 1]
    /\ hashPrev = [p \in Nodes |-> << >>]
    /\ pending = [p \in Nodes |-> None]
    /\ notarized = [p \in Nodes |-> None]
    /\ fixed = [p \in Nodes |-> None]
    /\ output = [p \in Nodes |-> None]
    /\ epochTx = [p \in Nodes |-> 0]
    /\ decides = [p \in Nodes |-> None]
    /\ phase = [p \in Nodes |-> "enter"]
    /\ voters = [s \in Slots |-> {}]
    /\ voteMsgs = {}
    /\ decideSent = [s \in Slots |-> None]
    /\ handled = [p \in Nodes |-> 0]
    /\ reach = [p \in Nodes |-> LastSlot]
    /\ \E n \in TxSupply : buffer = [p \in Nodes |-> n]

Vote(p, slot, hash) == [slot |-> slot, sender |-> p, hash |-> hash]

\* The node enters the epoch: one_slot sends the first VOTE and blocks.
Enter(p) ==
    /\ phase[p] = "enter"
    /\ phase' = [phase EXCEPT ![p] = "wait"]
    /\ voteMsgs' = voteMsgs \cup {Vote(p, slotCur[p], hashPrev[p])}
    /\ UNCHANGED <<nodeVars, decides, voters, decideSent, handled, reach, buffer>>

\* Mutations of NextBatch: get_input is taken to succeed on an empty buffer;
\* the last slot with transactions is off by one.
NextBatchUnchecked(slot) == IF slot > SlotsNum THEN "Dummy" ELSE "Tx"
NextBatchShort(slot) ==
    IF slot >= SlotsNum \/ buffer[Leader] = 0 THEN "Dummy" ELSE "Tx"

\* The batch of a DECIDE: dummies in the last two slots, and whenever
\* get_input raises because the leader's buffer is empty.
NextBatch(slot) ==
    IF slot > SlotsNum \/ buffer[Leader] = 0 THEN "Dummy" ELSE "Tx"

\* Mutation of VotesNeeded: one honest vote instead of a quorum.
VotesNeededWeak == F + 1

VotesNeeded == N - F

\* Mutation of Counts: votes that come after the decision still count.
CountsLate(m) ==
    /\ m.slot = slotCur[Leader]
    /\ m.hash = hashPrev[Leader]
    /\ m.sender \notin voters[m.slot]

\* A vote counts if it is for the current slot and the leader's tip, is the
\* sender's first, and fewer than N - f are in; any other is dropped for good.
Counts(m) ==
    /\ m.slot = slotCur[Leader]
    /\ m.hash = hashPrev[Leader]
    /\ Cardinality(voters[m.slot]) < VotesNeeded
    /\ m.sender \notin voters[m.slot]

DropVote(m) ==
    /\ phase[Leader] = "wait"
    /\ ~ Counts(m)
    /\ voteMsgs' = voteMsgs \ {m}
    /\ UNCHANGED <<nodeVars, decides, phase, voters, decideSent, handled, reach, buffer>>

\* The N - f th vote makes the leader send DECIDE and put it in its own queue.
CountVote(m) ==
    LET s       == m.slot
        signers == voters[s] \cup {m.sender}
        item    == [hash |-> hashPrev[Leader], sigma |-> signers,
                    batch |-> NextBatch(s)]
    IN  /\ phase[Leader] = "wait"
        /\ Counts(m)
        /\ voteMsgs' = voteMsgs \ {m}
        /\ voters' = [voters EXCEPT ![s] = signers]
        /\ IF Cardinality(signers) = VotesNeeded /\ decideSent[s] = None
           THEN /\ decideSent' = [decideSent EXCEPT ![s] = item]
                /\ decides' = [decides EXCEPT ![Leader] = item]
                /\ buffer' = IF item.batch = "Tx"
                             THEN [buffer EXCEPT ![Leader] = @ - 1] ELSE buffer
           ELSE UNCHANGED <<decideSent, decides, buffer>>
        /\ UNCHANGED <<nodeVars, phase, handled, reach>>

\* The next DECIDE of the leader's connection to p reaches p's handler.
Arrives(p, s) ==
    /\ p # Leader
    /\ phase[p] = "wait"
    /\ s = handled[p] + 1
    /\ s <= reach[p]
    /\ s \in Slots
    /\ decideSent[s] # None

\* Mutation of Accepts: the slot of the DECIDE is not checked.
AcceptsAnySlot(p, s) == Cardinality(decideSent[s].sigma) >= N - F

\* A DECIDE is taken only by a node whose main greenlet is in that slot: one
\* that arrives while the previous DECIDE is still queued is dropped for good.
Accepts(p, s) ==
    /\ s = slotCur[p]
    /\ Cardinality(decideSent[s].sigma) >= VotesNeeded

AcceptDecide(p, s) ==
    /\ Arrives(p, s)
    /\ Accepts(p, s)
    /\ handled' = [handled EXCEPT ![p] = s]
    /\ decides' = [decides EXCEPT ![p] = decideSent[s]]
    /\ UNCHANGED <<nodeVars, phase, voters, voteMsgs, decideSent, reach, buffer>>

DropDecide(p, s) ==
    /\ Arrives(p, s)
    /\ ~ Accepts(p, s)
    /\ handled' = [handled EXCEPT ![p] = s]
    /\ UNCHANGED <<nodeVars, decides, phase, voters, voteMsgs, decideSent, reach, buffer>>
-----------------------------------------------------------------------------
(***************************************************************************)
(* The critical block of one_slot, run when the main greenlet wakes with   *)
(* the item of its slot.                                                   *)
(***************************************************************************)
NewNotarized(p) == IF pending[p] = None THEN notarized[p] ELSE pending[p]

\* Mutation of NewFixed: a block is fixed as soon as it is notarized.
NewFixedEarly(p) ==
    IF pending[p] # None /\ notarized[p] # None THEN pending[p] ELSE fixed[p]

NewFixed(p) ==
    IF pending[p] # None /\ notarized[p] # None THEN notarized[p] ELSE fixed[p]

\* The fixed block enters the statistics from slot StatFrom on, and
\* weighted_delay is divided by the number of transactions counted so far.
Counted(p) ==
    /\ pending[p] # None
    /\ NewFixed(p) # None
    /\ NewFixed(p).slot >= StatFrom
NewEpochTx(p) ==
    IF Counted(p) /\ NewFixed(p).batch = "Tx" THEN epochTx[p] + 1 ELSE epochTx[p]
DivisionByZero(p) == Counted(p) /\ NewEpochTx(p) = 0

Advance(p) ==
    LET d    == decides[p]
        s    == slotCur[p]
        hash == HeaderHash(s, d.hash, d.batch)
    IN  /\ phase[p] = "wait"
        /\ d # None
        /\ ~ DivisionByZero(p)
        /\ notarized' = [notarized EXCEPT ![p] = NewNotarized(p)]
        /\ fixed' = [fixed EXCEPT ![p] = NewFixed(p)]
        /\ epochTx' = [epochTx EXCEPT ![p] = NewEpochTx(p)]
        /\ output' = [output EXCEPT ![p] =
               IF pending[p] = None THEN @
               ELSE [block |-> pending[p], certified |-> d.hash,
                     sigma |-> d.sigma, txcnt |-> NewEpochTx(p)]]
        /\ pending' = [pending EXCEPT ![p] =
               [slot |-> s, hash |-> d.hash, batch |-> d.batch]]
        /\ hashPrev' = [hashPrev EXCEPT ![p] = hash]
        /\ slotCur' = [slotCur EXCEPT ![p] = s + 1]
        /\ decides' = [decides EXCEPT ![p] = None]
        /\ IF s < LastSlot
           THEN /\ voteMsgs' = voteMsgs \cup {Vote(p, s + 1, hash)}
                /\ UNCHANGED phase
           ELSE /\ phase' = [phase EXCEPT ![p] = "left"]
                /\ UNCHANGED voteMsgs
        /\ UNCHANGED <<voters, decideSent, handled, reach, buffer>>

\* ZeroDivisionError in the statistics: the main greenlet dies inside the
\* critical block, before the output and before the slot advances.
RaiseInStatistics(p) ==
    /\ phase[p] = "wait"
    /\ decides[p] # None
    /\ DivisionByZero(p)
    /\ notarized' = [notarized EXCEPT ![p] = NewNotarized(p)]
    /\ fixed' = [fixed EXCEPT ![p] = NewFixed(p)]
    /\ decides' = [decides EXCEPT ![p] = None]
    /\ phase' = [phase EXCEPT ![p] = "raised"]
    /\ UNCHANGED <<slotCur, hashPrev, pending, output, epochTx, netVars>>

\* Mutation of SlotTimeout: only the first slot has a timer.
SlotTimeoutOnce(p) ==
    /\ phase[p] = "wait"
    /\ slotCur[p] = 1
    /\ phase' = [phase EXCEPT ![p] = "timeout"]
    /\ UNCHANGED <<nodeVars, netVars, decides>>

\* The slot's timer fires while the main greenlet is blocked: the receive
\* greenlet is killed and the loop is left.
SlotTimeout(p) ==
    /\ phase[p] = "wait"
    /\ phase' = [phase EXCEPT ![p] = "timeout"]
    /\ UNCHANGED <<nodeVars, netVars, decides>>

\* A process dies; if it is the leader, each of its connections delivers
\* only some prefix of what was queued on it.
Sent == Cardinality({s \in Slots : decideSent[s] # None})

Crash(p) ==
    /\ phase[p] # "crashed"
    /\ Cardinality({q \in Nodes : phase[q] = "crashed"}) < F
    /\ phase' = [phase EXCEPT ![p] = "crashed"]
    /\ IF p = Leader
       THEN reach' \in {r \in [Nodes -> 0 .. Sent] :
                            \A q \in Nodes : r[q] >= handled[q] /\ r[Leader] = 0}
       ELSE UNCHANGED reach
    /\ UNCHANGED <<nodeVars, decides, voters, voteMsgs, decideSent, handled, buffer>>

Step(p) ==
    \/ Enter(p)
    \/ \E s \in Slots : AcceptDecide(p, s) \/ DropDecide(p, s)
    \/ Advance(p)
    \/ RaiseInStatistics(p)
    \/ SlotTimeout(p)

HandleVote == \E m \in voteMsgs : DropVote(m) \/ CountVote(m)

Next == HandleVote \/ \E p \in Nodes : Step(p) \/ Crash(p)

Spec == Init /\ [][Next]_fpVars

\* As long as some greenlet can run, one does, and timers fire; nothing makes
\* a process crash.
Progress == HandleVote \/ \E p \in Nodes : Step(p)
FairSpec == Spec /\ WF_fpVars(Progress)
-----------------------------------------------------------------------------
(***************************************************************************)
(* The fast path implements FastPathSpec.                                  *)
(***************************************************************************)
BatchBar == [s \in Slots |->
    IF decideSent[s] = None THEN None ELSE decideSent[s].batch]
StatusBar == [p \in Nodes |->
    CASE phase[p] \in {"enter", "wait"}   -> "running"
      [] phase[p] \in {"left", "timeout"} -> "returned"
      [] OTHER                            -> phase[p]]

Promise == INSTANCE FastPathSpec WITH batch <- BatchBar, status <- StatusBar
-----------------------------------------------------------------------------
(***************************************************************************)
(* Properties.                                                             *)
(***************************************************************************)
\* The chains of two nodes never fork: the tip of the one that is behind is
\* the other's at that slot (hash_prev of one_slot).
ChainPrefix ==
    \A p, q \in Nodes :
        Len(hashPrev[p]) <= Len(hashPrev[q]) =>
            hashPrev[p] = SubSeq(hashPrev[q], 1, Len(hashPrev[p]))

\* When a node outputs the block of slot k as notarized, at least N - f nodes
\* hold the block of slot k as their pending block or have moved past it, so
\* at least N - f nodes have output the block of slot k - 1: what the view
\* change relies on to find a block that is at most one slot behind.
NotarizedSupport ==
    \A p \in Nodes : output[p] # None =>
        {q \in Nodes : slotCur[q] > output[p].block.slot} \in Quorum

\* The certificate a node outputs is one for the block it outputs it with: it
\* has N - f signers and they signed that block's header, as the check that
\* bdt.py has commented out (hash(header) == notarized_block_hash) says.
CertificateVerifies ==
    \A p \in Nodes : output[p] # None =>
        /\ output[p].sigma \in Quorum
        /\ output[p].certified =
               HeaderHash(output[p].block.slot, output[p].block.hash,
                          output[p].block.batch)

\* The network protocol keeps the promises the view change is built on: votes
\* and DECIDEs that are dropped or lost never break the chain's rules.
ImplementsPromise == Promise!FastSpec

\* A put_nowait on decides[slot], whose capacity is 1, never finds it full,
\* which would end the handler with its signal cleared and hang the node.
DecidesNeverFull ==
    /\ \A p \in Nodes, s \in Slots :
           Arrives(p, s) /\ Accepts(p, s) => decides[p] = None
    /\ \A m \in voteMsgs :
           phase[Leader] = "wait" /\ Counts(m) => decides[Leader] = None

\* A fixed block is final: in a step a node's fixed block only advances, and
\* to the block that was notarized right after it.
FixedAdvances ==
    [][\A p \in Nodes : fixed'[p] # fixed[p] =>
          /\ fixed[p] # None =>
                 fixed'[p].hash = HeaderHash(fixed[p].slot, fixed[p].hash, fixed[p].batch)
          /\ fixed'[p].slot + 2 = slotCur[p]]_fpVars

\* Every batch from slot StatFrom up to the node's fixed block is a dummy.
OnlyDummiesFixed(p) ==
    \A s \in StatFrom .. fixed[p].slot : decideSent[s].batch = "Dummy"

\* The function returns at every node that does not crash, whatever votes and
\* DECIDEs are dropped (":return tuple" of the docstring), but for one case: a
\* node that fixed blocks to count, none of which has a transaction, divides by
\* zero (line 260), and its main greenlet dies.
FastPathReturns ==
    <>(\A p \in Nodes :
          \/ phase[p] \in {"left", "timeout", "crashed"}
          \/ phase[p] = "raised" /\ OnlyDummiesFixed(p))
=============================================================================
