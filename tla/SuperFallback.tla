---------------------------- MODULE SuperFallback ----------------------------
(***************************************************************************)
(* sufallback: BDT+'s epoch.  sufastpath (superfastpath_cp) is a fast path *)
(* whose slots take the votes of all N nodes and fix the block before; when *)
(* the timer of a slot fires, the node goes over to Bolt (hsfastpath of    *)
(* bdtplus), where N - f votes are enough and whose first certificate is   *)
(* made of the votes the leader holds for its own tip.  Superfast runs the *)
(* fast path alone (superfastpath, N - 1 votes, the leader does not vote)  *)
(* and gathers statistics at the leader.  As the leader makes one batch    *)
(* per slot, a chain is known by the slot of its tip.  In the experiment   *)
(* the code is built for, f nodes stop at some slot.                       *)
(***************************************************************************)
EXTENDS Quorums

CONSTANTS
    SfSlots,     \* SLOTS_NUM
    SfStatFrom,  \* first slot whose block enters the statistics (8 in the code)
    SfMuteFrom   \* first slot the muted nodes do nothing in (20 in the code)

VARIABLES
    sfRun,       \* "sufallback" or "superfast"
    sfLeader,    \* leader
    sfMuted,     \* muted_nodes
    sfSupply,    \* transactions in the leader's buffer
    sfSlot,      \* slot_cur of sufastpath
    sfVotes,     \* VOTEs in flight: <<sender, slot>>
    sfVoters,    \* voters[slot] at the leader
    sfQueued,    \* nodes with an item in decides[slot_cur]
    sfProposed,  \* the last slot whose PROPOSE was sent
    sfMode,      \* what the main greenlet of a node does
    sfFirst,     \* hash_p of Bolt's first DECIDE: the leader's tip, 0 if unsent
    sfBolt,      \* slot_cur of Bolt
    sfBoltVotes, \* nodes that voted in Bolt's slot 2
    sfStats      \* nodes whose VIEW_CHANGE statistics were sent to the leader

sfPath == <<sfSlot, sfVotes, sfVoters, sfQueued, sfProposed>>
sfConst == <<sfRun, sfLeader, sfMuted, sfSupply>>
sfVars == <<sfConst, sfPath, sfMode, sfFirst, sfBolt, sfBoltVotes, sfStats>>

SfLast == SfSlots + 1

SfInit ==
    /\ sfRun \in {"sufallback", "superfast"}
    /\ sfLeader \in Nodes
    /\ sfMuted \in {M \in SUBSET (Nodes \ {sfLeader}) : Cardinality(M) = F}
    /\ sfSupply \in {0, SfSlots}
    /\ sfSlot = [p \in Nodes |-> 1]
    /\ sfVotes = {<<p, 1>> : p \in Nodes \ {sfLeader}}
    /\ sfVoters = [s \in 1 .. SfLast |->
                      IF s = 1 /\ sfRun = "sufallback" THEN {sfLeader} ELSE {}]
    /\ sfQueued = {}
    /\ sfProposed = 0
    /\ sfMode = [p \in Nodes |-> "fast"]
    /\ sfFirst = 0
    /\ sfBolt = [p \in Nodes |-> 1]
    /\ sfBoltVotes = {}
    /\ sfStats = {}
-----------------------------------------------------------------------------
(***************************************************************************)
(* sufastpath.                                                             *)
(***************************************************************************)
InFast(p) == sfMode[p] = "fast"
MuteIn(p, s) == sfRun = "sufallback" /\ p \in sfMuted /\ s >= SfMuteFrom
Mute(p) == MuteIn(p, sfSlot[p])

AllVotes == IF sfRun = "superfast" THEN N - 1 ELSE N

\* A vote for another slot than the leader's is dropped; the last vote makes
\* the leader propose.  The leader's own vote is never the last.
VoteIn(p, s) == InFast(sfLeader) /\ <<p, s>> \in sfVotes

HandleVote(p, s) ==
    LET voters == sfVoters[s] \cup {p} IN
    /\ VoteIn(p, s)
    /\ sfVotes' = sfVotes \ {<<p, s>>}
    /\ IF s = sfSlot[sfLeader] /\ Cardinality(sfVoters[s]) < AllVotes
       THEN /\ sfVoters' = [sfVoters EXCEPT ![s] = voters]
            /\ IF Cardinality(voters) = AllVotes /\ sfProposed < s
               THEN /\ sfProposed' = s
                    /\ sfQueued' = sfQueued \cup {sfLeader}
               ELSE UNCHANGED <<sfProposed, sfQueued>>
       ELSE UNCHANGED <<sfVoters, sfProposed, sfQueued>>
    /\ UNCHANGED <<sfConst, sfSlot, sfMode, sfFirst, sfBolt, sfBoltVotes, sfStats>>

ProposeIn(p) ==
    /\ InFast(p) /\ p # sfLeader
    /\ sfSlot[p] <= sfProposed /\ p \notin sfQueued

HandlePropose(p) ==
    /\ ProposeIn(p)
    /\ sfQueued' = sfQueued \cup {p}
    /\ UNCHANGED <<sfConst, sfSlot, sfVotes, sfVoters, sfProposed, sfMode, sfFirst, sfBolt,
                   sfBoltVotes, sfStats>>

\* Mutation of DivideByZero: the transactions are counted after the division.
DivideByZeroAlways(s) == s - 1 >= SfStatFrom

\* The statistics divide by the transactions of the blocks fixed so far.
DivideByZero(s) == s - 1 >= SfStatFrom /\ sfSupply < SfStatFrom

\* one_slot: the block of the slot becomes pending_block, the one before is
\* fixed, and the node votes in the next slot unless it is mute there.
SlotDue(p) == InFast(p) /\ ~ Mute(p) /\ p \in sfQueued

OneSlot(p) ==
    LET s == sfSlot[p] IN
    /\ SlotDue(p)
    /\ sfQueued' = sfQueued \ {p}
    /\ IF DivideByZero(s)
       THEN sfMode' = [sfMode EXCEPT ![p] = "raised"] /\ UNCHANGED <<sfSlot, sfVotes, sfVoters>>
       ELSE /\ sfSlot' = [sfSlot EXCEPT ![p] = s + 1]
            /\ sfMode' = [sfMode EXCEPT ![p] = IF s = SfLast THEN "done" ELSE "fast"]
            /\ IF s = SfLast \/ MuteIn(p, s + 1)
               THEN UNCHANGED <<sfVotes, sfVoters>>
               ELSE IF p # sfLeader
               THEN sfVotes' = sfVotes \cup {<<p, s + 1>>} /\ UNCHANGED sfVoters
               ELSE /\ sfVoters' = [sfVoters EXCEPT ![s + 1] =
                                       IF sfRun = "sufallback" THEN @ \cup {p} ELSE @]
                    /\ UNCHANGED sfVotes
    /\ UNCHANGED <<sfConst, sfProposed, sfFirst, sfBolt, sfBoltVotes, sfStats>>

\* The timer fires while one_slot waits for decides[slot_cur].
TimeOutDue(p) == InFast(p) /\ ~ Mute(p) /\ p \notin sfQueued

TimeOut(p) ==
    /\ TimeOutDue(p)
    /\ sfMode' = [sfMode EXCEPT ![p] = "timeout"]
    /\ UNCHANGED <<sfConst, sfPath, sfFirst, sfBolt, sfBoltVotes, sfStats>>
-----------------------------------------------------------------------------
(***************************************************************************)
(* _run_epoch of sufallback, and Bolt's first two slots.                   *)
(***************************************************************************)
Tip(p) == sfSlot[p] - 1  \* the slot of pending_block, 0 for none

\* Mutation of Certified: f + 1 votes are enough for the leader to go on.
CertifiedWeak == Cardinality(sfVoters[sfSlot[sfLeader]]) >= F + 1

Certified == Cardinality(sfVoters[sfSlot[sfLeader]]) >= 2 * F + 1

\* wait_for_sufastpath: the five values of a time-out are unpacked; a leader
\* with too few votes never sets vc1_ready.  Only some ids run Bolt.
ResumeDue(p) ==
    /\ sfRun = "sufallback"
    /\ sfMode[p] = "timeout"
    /\ p = sfLeader => Certified

Resume(p) ==
    /\ ResumeDue(p)
    /\ sfMode' = [sfMode EXCEPT ![p] = IF p \in sfMuted THEN "end" ELSE "bolt"]
    /\ UNCHANGED <<sfConst, sfPath, sfFirst, sfBolt, sfBoltVotes, sfStats>>

\* ... but three values are what a fast path without time-out returns: the
\* greenlet raises, and vc1_ready is never set.
UnpackDue(p) == sfRun = "sufallback" /\ sfMode[p] = "done"

UnpackFails(p) ==
    /\ UnpackDue(p)
    /\ sfMode' = [sfMode EXCEPT ![p] = "hangs"]
    /\ UNCHANGED <<sfConst, sfPath, sfFirst, sfBolt, sfBoltVotes, sfStats>>

\* Bolt's leader sends DECIDE for slot 1 at once: su_vote certifies su_hash.
FirstDue == sfMode[sfLeader] = "bolt" /\ sfFirst = 0 /\ Tip(sfLeader) > 0

BoltFirst ==
    /\ FirstDue
    /\ sfFirst' = Tip(sfLeader)
    /\ UNCHANGED <<sfConst, sfPath, sfMode, sfBolt, sfBoltVotes, sfStats>>

\* DECIDE of slot 1: pending_block, from the super fast path, is notarized,
\* whatever its slot; then the node votes in slot 2.
BoltSlot1Due(p) == sfMode[p] = "bolt" /\ sfBolt[p] = 1 /\ sfFirst > 0 /\ Tip(p) > 0

BoltSlot1(p) ==
    /\ BoltSlot1Due(p)
    /\ sfBolt' = [sfBolt EXCEPT ![p] = 2]
    /\ sfBoltVotes' = sfBoltVotes \cup {p}
    /\ UNCHANGED <<sfConst, sfPath, sfMode, sfFirst, sfStats>>

\* A node that timed out in the first slot has 0 for pending_block, not None:
\* indexing it raises, at the leader once its DECIDE is out.
BoltRaiseDue(p) ==
    /\ sfMode[p] = "bolt" /\ sfBolt[p] = 1
    /\ Tip(p) = 0
    /\ p = sfLeader \/ sfFirst > 0 \/ sfMode[sfLeader] = "end"

BoltRaises(p) ==
    /\ BoltRaiseDue(p)
    /\ sfMode' = [sfMode EXCEPT ![p] = "end"]
    /\ UNCHANGED <<sfConst, sfPath, sfFirst, sfBolt, sfBoltVotes, sfStats>>

\* Slot 2, with N - f votes, fixes the block.
BoltSlot2Due(p) == sfMode[p] = "bolt" /\ sfBolt[p] = 2 /\ sfBoltVotes \in Quorum

BoltSlot2(p) ==
    /\ BoltSlot2Due(p)
    /\ sfBolt' = [sfBolt EXCEPT ![p] = 3]
    /\ UNCHANGED <<sfConst, sfPath, sfMode, sfFirst, sfBoltVotes, sfStats>>

\* Bolt's timer fires, or the slots modelled here are done.
BoltEndDue(p) == sfMode[p] = "bolt" /\ (p = sfLeader => sfFirst > 0)

BoltEnds(p) ==
    /\ BoltEndDue(p)
    /\ sfMode' = [sfMode EXCEPT ![p] = "end"]
    /\ UNCHANGED <<sfConst, sfPath, sfFirst, sfBolt, sfBoltVotes, sfStats>>
-----------------------------------------------------------------------------
(***************************************************************************)
(* _run_epoch of Superfast.                                                *)
(***************************************************************************)
\* fast_blocks is not empty: a block the statistics count was output.
HasFixed(p) == Tip(p) - 1 >= SfStatFrom

\* The fast path is over: with its statistics, or with a hash, a block and votes
\* in their place when a timer fired.
StatsDue(p) == sfRun = "superfast" /\ sfMode[p] \in {"done", "timeout"}

\* Those are logged with %d and %f, which raises, unless no block is fixed.
NoNumbers(p) == StatsDue(p) /\ sfMode[p] = "timeout" /\ HasFixed(p)

StatsFail(p) ==
    /\ NoNumbers(p)
    /\ sfMode' = [sfMode EXCEPT ![p] = "failed"]
    /\ UNCHANGED <<sfConst, sfPath, sfFirst, sfBolt, sfBoltVotes, sfStats>>

\* Otherwise the node sends what statistics it has, waits five seconds and
\* ends; the leader waits for those of all N nodes first.
SendStats(p) ==
    /\ StatsDue(p) /\ ~ NoNumbers(p)
    /\ sfStats' = IF HasFixed(p) THEN sfStats \cup {p} ELSE sfStats
    /\ sfMode' = [sfMode EXCEPT ![p] = IF p = sfLeader THEN "stats" ELSE "end"]
    /\ UNCHANGED <<sfConst, sfPath, sfFirst, sfBolt, sfBoltVotes>>

AllStatsIn == sfMode[sfLeader] = "stats" /\ sfStats = Nodes

AllStats ==
    /\ AllStatsIn
    /\ sfMode' = [sfMode EXCEPT ![sfLeader] = "end"]
    /\ UNCHANGED <<sfConst, sfPath, sfFirst, sfBolt, sfBoltVotes, sfStats>>

SfNext ==
    \/ \E p \in Nodes :
          \/ \E s \in 1 .. SfLast : HandleVote(p, s)
          \/ HandlePropose(p)
          \/ OneSlot(p)
          \/ TimeOut(p)
          \/ Resume(p)
          \/ UnpackFails(p)
          \/ BoltSlot1(p)
          \/ BoltRaises(p)
          \/ BoltSlot2(p)
          \/ BoltEnds(p)
          \/ StatsFail(p)
          \/ SendStats(p)
    \/ BoltFirst
    \/ AllStats

SfSpec == SfInit /\ [][SfNext]_sfVars
-----------------------------------------------------------------------------
(***************************************************************************)
(* Properties.                                                             *)
(***************************************************************************)
\* No time-out loses a block: what a node has fixed on N votes is below the
\* block Bolt starts from, which N - f nodes hold; and as a node that missed
\* the leader's last PROPOSE is one block short of it, Bolt's second slot
\* leaves at most f nodes without a block (_recovery is empty).
FallbackKeepsFixed ==
    sfFirst > 0 =>
        /\ \A p \in Nodes : Tip(p) <= sfFirst /\ Tip(p) >= sfFirst - 1
        /\ {p \in Nodes : Tip(p) = sfFirst} \in Quorum

\* Nothing is left to handle, and no timer to fire.
SfSettled ==
    /\ \A p \in Nodes :
          /\ \A s \in 1 .. SfLast : ~ VoteIn(p, s)
          /\ ~ ProposeIn(p) /\ ~ SlotDue(p) /\ ~ TimeOutDue(p)
          /\ ~ ResumeDue(p) /\ ~ UnpackDue(p) /\ ~ StatsDue(p)
          /\ ~ BoltSlot1Due(p) /\ ~ BoltRaiseDue(p) /\ ~ BoltSlot2Due(p) /\ ~ BoltEndDue(p)
    /\ ~ FirstDue /\ ~ AllStatsIn

\* "Wait either view_change handler done or fast_path done": the wait ends for
\* every node but a mute one, one whose statistics divided by zero, one whose
\* fast path succeeded with all its slots, and a leader with too few votes.  In
\* Superfast a time-out after a fixed block ends a node by an exception, and
\* the leader then waits for statistics for ever, as it does when a node has
\* fixed nothing.
WaitsExplained ==
    SfSettled =>
        \A p \in Nodes :
          \/ sfMode[p] = "end" \/ Mute(p)
          \/ sfMode[p] = "raised" /\ sfSupply = 0
          \/ sfMode[p] = "hangs" /\ sfSlot[p] = SfLast + 1
          \/ p = sfLeader /\ sfMode[p] = "timeout" /\ ~ Certified
          \/ sfMode[p] = "failed" /\ HasFixed(p)
          \/ /\ p = sfLeader /\ sfMode[p] = "stats"
             /\ \E q \in Nodes : sfMode[q] = "failed" \/ ~ HasFixed(q)
=============================================================================
