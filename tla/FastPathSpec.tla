----------------------------- MODULE FastPathSpec -----------------------------
(***************************************************************************)
(* What the fast path of an epoch promises to the view change, without its *)
(* messages: one chain, whose next slot is decided only when N - f nodes   *)
(* have reached it; nodes follow the chain at their own pace, stop for     *)
(* good when a timer fires, and may crash.  What a node holds (pending,    *)
(* notarized and fixed block) is determined by the slot it is in.          *)
(***************************************************************************)
EXTENDS Quorums

CONSTANTS
    Leader,    \* the node that leads the epoch
    SlotsNum,  \* SLOTS_NUM
    StatFrom,  \* first slot whose fixed block enters the statistics
    TxSupply,  \* transactions a node's buffer may hold at the start
    None       \* no batch

ASSUME FastPathAssumption ==
    /\ Leader \in Nodes
    /\ SlotsNum \in Nat
    /\ StatFrom \in Nat \ {0}
    /\ TxSupply \subseteq Nat
    /\ None \notin {"Tx", "Dummy"}

LastSlot == SlotsNum + 2
Slots == 1 .. LastSlot
Batches == {"Tx", "Dummy"}

VARIABLES
    slotCur,  \* the slot each node is in
    batch,    \* the batch decided in each slot, None if none yet
    status,   \* "running", "returned", "raised" or "crashed"
    buffer    \* transactions left in each node's buffer

fastVars == <<slotCur, batch, status, buffer>>

Statuses == {"running", "returned", "raised", "crashed"}

FastTypeOK ==
    /\ slotCur \in [Nodes -> 1 .. LastSlot + 1]
    /\ batch \in [Slots -> Batches \cup {None}]
    /\ status \in [Nodes -> Statuses]
    /\ buffer \in [Nodes -> Nat]

FastInit ==
    /\ slotCur = [p \in Nodes |-> 1]
    /\ batch = [s \in Slots |-> None]
    /\ status = [p \in Nodes |-> "running"]
    /\ \E n \in TxSupply : buffer = [p \in Nodes |-> n]

\* At slot s a node has notarized the block of slot s - 2 and fixed that of
\* slot s - 3 (s - 2 if it raised while entering slot s + 1); 0 is no block.
\* (Mutations of NotarizedSlot: no check that there is one; the pending block.)
NotarizedSlotRaw(p) == slotCur[p] - 2
NotarizedSlotPending(p) == slotCur[p] - 1

NotarizedSlot(p) == IF slotCur[p] > 2 THEN slotCur[p] - 2 ELSE 0
FixedSlot(p) ==
    LET lag == IF status[p] = "raised" THEN 2 ELSE 3
    IN  IF slotCur[p] > lag THEN slotCur[p] - lag ELSE 0

\* The batches counted by the statistics once the block of slot s is fixed.
TxUpTo(s) == {k \in Slots : StatFrom <= k /\ k <= s /\ batch[k] = "Tx"}

\* The statistics divide by the batches counted: the node in slot s is about
\* to fix the block of slot s - 2 with none.
DivisionByZero(p) ==
    /\ slotCur[p] - 2 >= StatFrom
    /\ TxUpTo(slotCur[p] - 2) = {}

Decided(s) == s \in Slots /\ batch[s] # None

\* The leader, in slot s, has the votes of N - f nodes that reached slot s.
VotesIn(s) ==
    /\ status[Leader] = "running"
    /\ slotCur[Leader] = s
    /\ ~ Decided(s)
    /\ {q \in Nodes : slotCur[q] >= s} \in Quorum

DecideSlot(s) ==
    /\ VotesIn(s)
    /\ IF s > SlotsNum \/ buffer[Leader] = 0
       THEN /\ batch' = [batch EXCEPT ![s] = "Dummy"]
            /\ UNCHANGED buffer
       ELSE /\ batch' = [batch EXCEPT ![s] = "Tx"]
            /\ buffer' = [buffer EXCEPT ![Leader] = @ - 1]
    /\ UNCHANGED <<slotCur, status>>

\* The DECIDE of p's slot has arrived.
DecideIn(p) == status[p] = "running" /\ Decided(slotCur[p])

AdvanceSlot(p) ==
    /\ DecideIn(p)
    /\ ~ DivisionByZero(p)
    /\ slotCur' = [slotCur EXCEPT ![p] = @ + 1]
    /\ status' = [status EXCEPT ![p] =
                     IF slotCur[p] = LastSlot THEN "returned" ELSE @]
    /\ UNCHANGED <<batch, buffer>>

RaiseInSlot(p) ==
    /\ DecideIn(p)
    /\ DivisionByZero(p)
    /\ status' = [status EXCEPT ![p] = "raised"]
    /\ UNCHANGED <<slotCur, batch, buffer>>

\* Mutation of TimerRuns: only the first slot has a timer.
FirstTimerRuns(p) == status[p] = "running" /\ slotCur[p] = 1

\* Every slot that p waits in has a timer.
TimerRuns(p) == status[p] = "running"

TimeOut(p) ==
    /\ TimerRuns(p)
    /\ status' = [status EXCEPT ![p] = "returned"]
    /\ UNCHANGED <<slotCur, batch, buffer>>

CrashNode(p) ==
    /\ status[p] # "crashed"
    /\ Cardinality({q \in Nodes : status[q] = "crashed"}) < F
    /\ status' = [status EXCEPT ![p] = "crashed"]
    /\ UNCHANGED <<slotCur, batch, buffer>>

FastMove(p) == AdvanceSlot(p) \/ RaiseInSlot(p) \/ TimeOut(p)

FastNext ==
    \/ \E s \in Slots : DecideSlot(s)
    \/ \E p \in Nodes : FastMove(p) \/ CrashNode(p)

FastSpec == FastInit /\ [][FastNext]_fastVars
=============================================================================
