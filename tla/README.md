# BDT: models, checks and proofs

This directory holds TLA+ models of the consensus protocols of this repository,
the TLC configurations that check them on small instances, and TLAPS proofs for
every number of nodes, slots and rounds. The core is
**BDT** (bolt-dumbo transformer, `src/bdtbft/core/`): an optimistic fast path, a view
change through a two-value agreement, and an asynchronous fallback. Its fast
path, view change, agreement and reliable broadcast are modelled, checked and
proved. The protocols around it (the multi-valued agreements and common subsets
of the fallback, the drivers that run epochs and rounds, BDT+, Dumbo-NG,
Dumbo-MVBA, DispersedLedger) are modelled and model-checked too. Of the 40 properties
that the runs find to hold, 39 are theorems: all those on safety, and all but one of
those that say when a node may wait for ever. The last, `FastPathReturns`, is a
liveness property under fairness.

Run a model with `tlc -config <cfg> <MC module>` and a proof with
`tlapm <module>`; `PROJECT.json` lists runs, theorems, the source lines behind
every definition, and the hazards that the properties are aimed at.

## 1. The system

Each of N nodes is one process; `f` of them may fail, N >= 3f + 1. A process runs
gevent greenlets, which switch only when they block, and exchanges pickled
messages with the others through separate network processes over TCP.
`send(-1, m)` is a broadcast to all nodes, `send(-2, m)` claims to leave out the
sender (see *Network* below), `send(j, m)` goes to node j.

| Component | State it keeps | Operations | What is hard | What makes it correct |
|---|---|---|---|---|
| `hsfastpath` (fast path) | `slot_cur`, `hash_prev`, `pending_block`, `notraized_block`, `fixed_block`, `voters`, `decide_sent`, `decides` (queues of capacity 1), statistics | `handle_messages` (VOTE, DECIDE), `one_slot`, the slot timers | votes and DECIDEs that arrive early are dropped for good; timers race DECIDEs; the leader dies between two sends of a DECIDE; two greenlets share the slot | one chain; a notarized block is held by N - f; certificates match blocks; fixed blocks are final; returns always |
| `Bdt._run_epoch` (epoch, view change) | `latest_notarization`, `viewchange_counter`, `viewchange_max_slot`, `txcnt`, the queues of its subprotocols | `fastpath_output`, VIEW_CHANGE send and handling, agreement, choice of fallback | nodes use different N - f VIEW_CHANGEs; the fast path keeps running while the view change goes on; averages over zero transactions | inputs of the agreement at most one apart; no more than the last fixed block is left undelivered; the agreed block can be fetched; a node waits for ever in the agreement only |
| `Bdt.run_bft`, `RotatingLeaderHotstuff.run_bft` (epochs) | `epoch`, receive queues per epoch, `transaction_buffer`, `txcnt` | next epoch, routing of messages of other epochs, end of the process | greenlets of past epochs keep running and are needed by nodes that are behind; the process stops with messages unsent | until more than f have stopped, a node that is behind waits for ever in agreements only, not for those that left |
| `twovalueagreement` | `est_values`, `int_values`, `aux_values`, `conf_values`, `finish_cnt`, round | EST, AUX, CONF, FINISH, coin, two greenlets | the receive loop changes bin values while the main loop is between phases; inputs are any two adjacent integers | decisions equal and proposed; a value that did not survive never returns |
| `provablereliablebroadcast`, `reliablebroadcast` | stripes, echo and ready senders | VAL, ECHO, READY | PRBC tries to return only when a READY arrives; a sender dies in the middle of a broadcast | all live nodes return or none |
| `consistentbroadcast`, `provablebroadcast` | leader's signature shares | SEND, ECHO, FINAL | a leader dies while it sends the certificate | a certificate is for one value; N - f hold it |
| `binaryagreement`, `baisedbinaryagreement`, `haltingtwovalueagreement` | as `twovalueagreement`, on bits; `already_decided` | EST, AUX, CONF, coin, quit | values of a node stem from different moments; a node that decided quits | agreement; what is decided has f + 1 inputs; nobody waits for ever |
| `commoncoin` | shares per round, a queue of outputs | share, combine | coins asked for before shares arrive | same value at all nodes |
| `commonsubset`, `dumbocommonsubset`, `speedydumbocommonsubset`, `validatedcommonsubset`, `speedmvbacommonsubset` | outcome of each broadcast and vote | wait, vote, gather | values of dead nodes that only some received; zeros given in time | every live node gets its subset |
| `validatedagreement` | proposals, commits, ballots, order of leaders | CBC, commit, ballot, biased agreement | ballots without a commit are dropped | a leader f + 1 commits name wins; the iteration ends |
| `smvba_e`, `smvba_e_cp`, `spbc_ec`, `spbc_ec_cp` | outputs and first certificates per round, prevotes, votes | strong broadcast, election, prevote, vote, HALT | an elected broadcast is half way when nodes vote on it | agreement |
| `honeybadger`, `honeybadger_block`, `dumbo`, `speedydumbo_s` | round, receive queues, shares | one ACS per round, decryption, next round | a node that leaves a round stops helping it | nobody is left behind in a round |
| `bdtplus` (`Superfast`, `sufallback`, `superfastpath*`) | as BDT, all nodes vote; statistics | all-vote slot, time-out, Bolt from the leader's tip | nodes time out with different tips; waits that nothing ends | no time-out loses a fixed block; waits end |
| `dumbong` (`nwabc`, `ng_k_s`) | queues of capacity 1 per round, voters; `cur_view`, `prev_view`, `catch` | propose, vote, output; wait, cut, next epoch | proposals sent twice after an input error; missing blocks nobody fetches | output rounds are held by N - f; epochs go on |
| `ngbdt` (`bolt`) | as the fast path; `flag`, `okers`, two thresholds | OK, vote, DECIDE by handler or by timer, fix | two DECIDEs in a slot; transactions carried over from the last leader | one chain; nothing fixed is lost |
| `dumbomvba`, `dumbomvbastar` | fragments, locks, shares of STORED and LOCKED | disperse, quit, elect, recast | nodes kill dispersals others need; a leader without its own fragment | all come to the recast; it recovers the value |
| `dispersedledger` | chunks, echoes, RETURNs | disperse, decide, retrieve | a chunk that is late is never sent | a decided block can be retrieved |
| `network` | a queue and a socket per peer | send, receive | a dead peer, prioritised sends | FIFO per link until it breaks |
| `crypto` | keys | sign, verify, combine | - | - |

**How they interact.** In an epoch, `_run_epoch` starts the fast path, which hands
every newly notarized block to `fastpath_output` (a callback that overwrites
`latest_notarized_block` and `latest_notarization`). The epoch waits for either
the return of the fast path or N - f VIEW_CHANGEs collected by another greenlet,
broadcasts its own, and blocks on the output of `twovalueagreement`, whose input
is put by the greenlet that collects VIEW_CHANGEs. The output decides between
going on with the delivered slots and the fallback (a common subset, then
`honeybadger_block`'s exchange of decryption shares).

The fallback of BDT and Dumbo is `dumbocommonsubset`: PRBC spreads the values,
`validatedcommonsubset` agrees on a vector of proofs by `validatedagreement`, which
itself uses `consistentbroadcast` and a biased binary agreement. Speedy Dumbo has
`provablebroadcast` and `smvba_e` instead, DispersedLedger `provablecbc` and `smvba_e`,
Dumbo-NG `nwabc` and `smvba_e_cp` (or `smvbastar`). The drivers (`run_bft`) start all of
these as greenlets with queues per epoch and message tag, and differ in one
thing that matters: Dumbo kills the receiving loop of a round when it returns,
speedy Dumbo does so after a HALT, BDT does not at all.

**Network.** `socket_client` keeps one connection per peer and one queue: messages
of a link arrive in order until the connection breaks, and then the rest is lost
(a failed send ends the sender greenlet). It documents `-2` as "all but me", but
compares a node number with the operating system's process id, so a `-2`
broadcast also reaches its sender. Two places rely on this by accident: the relay
of an EST in `twovalueagreement` (line 76 records the *sender* once more instead of
the node itself) and the count of FINISH.

## 2. Modules

| Module | What it models |
|---|---|
| `Quorums` | the nodes, f, and the sets of N - f nodes |
| `HsFastPath` | `hsfastpath.py`, with its messages |
| `FastPathSpec` | what the fast path promises to the view change, without messages |
| `BdtViewChange` | one epoch of `bdt.py`: fast path (as `FastPathSpec`), VIEW_CHANGE, agreement (as `TwoValueSpec`), choice of fallback |
| `TwoValueSpec` | what the agreement promises |
| `TwoValueAgreement` | `twovalueagreement.py`, both greenlets |
| `ReliableBroadcast` | `provablereliablebroadcast.py` (PRBC), one broadcast |
| `EpochDrivers` | the epochs of BDT (`bdt.py`), of rotating HotStuff and of speedy Dumbo, one after the other |
| `DumboRound` | the rounds of Dumbo: the last agreement, the shares, and leaving |
| `BinaryAgreement` | `binaryagreement.py` with `commoncoin.py` |
| `ValidatedAgreement` | one iteration of `validatedagreement.py`, with `consistentbroadcast.py` |
| `SpeedMvba`, `SpeedMvbaE` | `smvba_e_cp.py` and `smvba_e.py`, each with its strong broadcast |
| `DumboCommonSubset` | `dumbocommonsubset.py` and `speedydumbocommonsubset.py`, with `validatedcommonsubset.py` and `provablebroadcast.py` |
| `HoneyBadgerSubset` | `commonsubset.py` with `reliablebroadcast.py` |
| `SuperFallback` | BDT+: `sufallback.py`, `Superfast.py`, `superfastpath_cp.py` and the `hsfastpath.py` of bdtplus |
| `Bolt` | `bolt.py` |
| `NwAbc`, `DumboNg` | Dumbo-NG: `nwabc.py`, one broadcast; `ng_k_s.py`, the epochs over all of them |
| `ProvableDispersal`, `Recast` | the dispersal of a value and its recast, in Dumbo-MVBA and Dumbo-MVBA* |
| `DumboMvba` | `dumbomvba.py` between the two |
| `DispersedLedger` | `PCBC.py`, `bc_mvba.py`, `recover.py` |
| `QuorumLemmas` | lemmas on quorums, shared by the proofs |
| `BdtViewChangeProof`, `HsFastPathProof`, `HsFastPathRefinement`, `TwoValueAgreementProof`, `ReliableBroadcastProof` | theorems on the components they are named for |
| `AgreementProof` | theorems on `BinaryAgreement`, `ValidatedAgreement`, `SpeedMvba`, `Recast`, `DumboMvba`, `DumboRound`, `HoneyBadgerSubset`, `EpochDrivers`, and `MCAgreement` |
| `DisseminationProof` | theorems on `NwAbc`, `DumboNg`, `DispersedLedger`, `DumboCommonSubset`, `SpeedMvbaE`, `SuperFallback`, `Bolt`, and `MCDissemination` |
| `MCHsFastPath`, `MCBdtViewChange`, `MCTwoValueAgreement`, `MCReliableBroadcast`, `MCSpeedMvba` | instances for TLC (symmetry) |
| `MCDissemination`, `MCAgreement` | instances for TLC of several components side by side |

The modules compose through the two abstract specifications:

    HsFastPath --implements--> FastPathSpec <--EXTENDS-- BdtViewChange
    TwoValueAgreement --implements--> TwoValueSpec <--INSTANCE-- BdtViewChange

so what is checked and proved of the view change holds of what the messages of
both protocols achieve, not of an assumption about them.

The other modules compose by what one promises to the next, stated there as the
guard of a step and checked where it is implemented:

    BinaryAgreement (BaAgreement) --> ValidatedAgreement, HoneyBadgerSubset, DumboMvba
    ValidatedAgreement, ReliableBroadcast --> DumboCommonSubset
    SpeedMvba --> DumboNg, Recast     SpeedMvbaE --> DispersedLedger, EpochDrivers
    NwAbc (NwDelivers) --> DumboNg    ProvableDispersal --EXTENDS--> Recast --> DumboMvba
    HsFastPath, TwoValueSpec, common subset --> EpochDrivers

Where the promise is not kept (the disagreement of speedmvba below) the composed
module shows what holds as long as it is.

**Fault model.** Processes crash and links delay messages without bound; timers
may fire at any time. Nodes do not lie: signatures and hashes are idealised
(a hash is the sequence of slots and batches it commits to; a certificate is the
set of its signers), and the checks that would only fail on forged messages are
not modelled as failing. At most f processes crash. Where the code's own experiments
let f nodes fall silent (`mute`), that is what the model does.

### HsFastPath

State corresponds to the nonlocal variables of `hsfastpath` (same names in camel
case). `handle_messages` is `CountVote`, `DropVote`, `AcceptDecide` and
`DropDecide`; `one_slot` is `Enter` (first vote) and `Advance` (the critical
block and the next vote), or `RaiseInStatistics` when the weighted delay is
divided by zero; the timers are `SlotTimeout`. `FastPathReturns` says that a fast path
returns unless its main greenlet dies in that division, and that it dies only where all
batches counted so far, those of the fixed blocks, are dummies. Details that matter:

* A VOTE or DECIDE of another slot than `slot_cur` is *dropped*, not kept. The
  main greenlet may not have woken yet from the previous decision, so a fast
  sender's message can be dropped by a slow receiver, and nothing resends it.
* Each slot starts two timers of the same length. The outer one is started
  first and fires first; its handler kills the receive greenlet and leaves the
  loop, so the inner one never takes effect.
* The code between `msg_noncritical_signal.clear()` and `set()`, and likewise for
  `slot_noncritical_signal`, does not block, so a handler or critical block is
  one action.
* A crash of the leader cuts each of its connections after some prefix of what
  it sent (`reach`).
* Batches are `"Tx"` or `"Dummy"`, and `epochTx` counts batches with transactions;
  payloads and delays are left out.

### BdtViewChange

`run` is where `_run_epoch` is. `SendViewChange` is lines 428-452, from
`vc_ready.wait()` on; `RaiseInAverage` is the division of line 442 by zero;
`CollectViewChanges` is `handle_viewchange_msg` over any N - f of the messages sent;
`Synchronize` and `StartFallback` are the two ways to go on after
`tcvba_output.get()`. The fast path of a node is **not** stopped by its view change,
so slots may still be decided, notarized and fixed after VIEW_CHANGEs were sent
(`FastStep` stays enabled); this is what most of the proof is about. A node's
VIEW_CHANGE carries the slot of `latest_notarized_block` at the time it is sent,
0 for none.

`AgreementEnds` is when the agreement *may* decide at a node, once N - f nodes have given an
input. It is not bound to: with inputs one apart, or when a decided node stops and another
process dies, `twovalueagreement` may block (Findings, `agreement_conf` and `agreement_finish`).
What `EqualInputsDecide` promises is `AgreementOwed`: the inputs are equal, and no process is gone
or no node has decided. `StuckOnlyInAgreement` counts only that as still to come (`Settled`), and
says that a node which waits for ever then waits in an agreement that may block
(`WaitsForAgreement`), as long as no more than f nodes crashed or raised. A node that raised
in its fast path is among those that must be carried along.

The epoch delivers one slot less than the agreement's output, and none for an output of 0
(`DeliveredSlots`). So a block that is fixed, and was handed to `fastpath_output`, may not be
delivered: the leader, in slot 4, has fixed block 1; the others timed out in slot 3 with
block 1 notarized; the output is 1, the epoch delivers 0 slots. `AtMostOneFixedLost` says that this
is the most that can happen: the last fixed block, and only that one. What follows in an
epoch is `EpochDrivers`.

### TwoValueAgreement

A message is kept by its sender (`estSent`, `aux`, `conf`, `decision` for FINISH), and
a receiver may act on any subset of what was sent to it: delays and reordering
need no further state. `recv` is `RelayEst`, `AddIntValue` (2f + 1 EST) and
`AdoptFinish`; `main_loop` is `Input`, `SendAux`, `SendConf`, `EndConf` and
`UseCoin`, where each waits as the code does for its condition on the *current* bin
values, which `recv` may extend between two phases. The coin is a bit per round,
the same at all nodes, returned once f + 1 nodes asked for it. `Stop` counts a
node's own FINISH twice, when it is sent and when `-2` delivers it back; a node may
therefore stop on the FINISHs of 2f nodes. With f = 1 this does no harm: a node that
decided by itself has sent all of its round, and one that adopted a decision heard two
others, one of them live, so that f + 1 live FINISHs reach everybody. With f >= 2 those
heard may die and leave too few (see Findings, `agreement_finish`). `EqualInputsDecide` is what holds: with
equal inputs a node waits for ever only if another stopped and a process died. A
crash may make any of the messages of the dead process lost on any link (`cut`).

### ReliableBroadcast

`SendVal` is the leader's part; `HandleVal`, `HandleEcho` and `HandleReady` are the
three branches of the receive loop, each with the ECHO or READY it broadcasts and,
for READY, the return, after which the greenlet handles nothing more (`Runs`). As
every node sends at most one ECHO and one READY, the messages are given by who
sent what; `late` keeps the only thing that the FIFO order of a link adds, whether a
node sent READY before ECHO, so that a message is handled only after those sent
before it on its link. What matters here is that the code does *not* try to
return when an ECHO arrives (lines 164-165 are commented out), while a READY that is
handled does not come again.

A process that crashes loses what its connections have not delivered. In the model
nothing of a crashed process is handled any more. This loses no behaviour: a
process that died between two sends, part of whose messages arrive, is one that
does nothing more and dies when the last of them has arrived. A crash can thus
leave any prefix of what the process sent at each other node.

### EpochDrivers and DumboRound

These ask one question of the drivers: is a node that is behind left alone by
those that go on? `edWhere` and `edEpoch` are where `_run_epoch` of a node is. `SendVc`,
`CollectVc`, `EndAgreement`, `EndSubset` and `EndFallback` are the parts of a Bdt epoch,
`EndRotating` ends one of rotating HotStuff, `EndMvba` and the last two are speedy
Dumbo's. `Handles` says whether a node still serves the messages of an epoch: in Bdt,
where `recv_t.kill()` is commented out (bdt.py:604), also of epochs it has left; in
speedy Dumbo only of its own, but it has sent a HALT. `Exit` is the end of `run_bft`,
by the last epoch or by an exception, after which the launcher terminates the
network client, with messages unsent (`edLost`). As in `BdtViewChange`, the agreements and common subsets
may output with N - f participants but are not sure to: `AgreementMayBlock` (inputs differ, or
a node decided and another is not there), `MvbaMayBlock` (nobody has halted, and the exception of
`smvba_e.py:474` may skip the set-up of a round; or a process stopped, whose value speedy
Dumbo's subset may wait for), `SubsetMayBlock` (a process stopped, and a ballot may be dropped; or
not all have started it). `LaggardsWaitInAgreements` says that all waiting goes back to one of these,
at a node in the earliest epoch of those that run. Bounds: a process is dead from the
start or not at all, all epochs get equally far, two epochs.

In Dumbo a node kills the loop of a round when it has f + 1 decryption shares
(`Leave`). The biased agreement of the leader it took may then still need it: a node
that decided takes part until the coin shows its value again, and others may not
have decided. `DumboRound` counts a node's EST, AUX and CONF in one number (`drSent`),
as each waits for N - f of the kind before. It shows that Dumbo gets stuck even if
no node is mute (three leave, one cannot finish), and that this is the *only* way.

### BinaryAgreement

Two greenlets, as in `TwoValueAgreement`, and the shares of the coin. Unlike there a
CONF counts when its set is *within* the bin values, so the deadlock found in
`twovalueagreement` is absent. There is no FINISH; the second half of `DecideOrQuit` is
AbandonedNodeError, after which the node serves nobody. So a node may stay in the loop
for ever, but only when it has decided: `OnlyDecidedWait`. It does not say how many may,
and these can be more than f, the number that the comment at line 306 names: two of four
nodes decide in one round and quit in the next, the other two decide in that round and
wait in the one after.
`baScope` bounds a behaviour of `MCAgreement` to one coin with any inputs, or two with
equal ones.

### ValidatedAgreement

One iteration of the loop over leaders. Of every list (what a node delivered, what
it committed to) only the entry of the leader is kept. `LeaderFinal`, `DeliverCbc`,
`CommitList` and `CommitFinal` are the two consistent broadcasts; a ballot with bit 0
whose sender's commit has not come is thrown away for good (`DropBallot`), as
validatedagreement.py:337 does. A node votes when N - f commits are in, its own
perhaps not yet out, so its ballot may well arrive before its commit. With all
nodes up there are ballots to spare; with one process dead (`VaCrash`, after it
committed), a node that dropped a ballot of a live one never has N - f and waits
for ever. `IterationEnds` says that this is the only way. Processes die with their broadcasts complete; a leader that dies between two sends
of its certificate, and the wait of line 392 that this would prolong, is not
modelled.

### SpeedMvba and SpeedMvbaE

The two files differ where it matters. In `smvba_e_cp` the election kills all strong
broadcasts of the round, and `get_spbc_s1` (lines 299-311) returns at once, so a first
certificate that arrives later is never recorded: a node can vote no although it
signed, and another halt with the value that was voted down (`speedmvba_disagree`). What
does hold are the two halves of the argument that the code relies on
(`HaltsLeaveTheirMark`). In `smvba_e` nothing is killed and nothing is reset: outputs of
round 0 count in round 1 (`ElectOnOld`), signatures are given after a no vote, and a
late prevote turns `vote_yes_msg` into 0, so that line 474 raises after `r += 1`
(`Skip`). `MeAgreeUnlessStale` says that these are all the ways to disagree,
`MeHaltsUnlessSkipped` that the last one is the only way to wait for ever. The
elected node's broadcast is modelled step by step; of the others it matters that a
node delivered N - f.

### DumboCommonSubset and HoneyBadgerSubset

`csBroadcast` is the broadcast in use: PRBC, which completes at all live nodes or none
(`ReliableBroadcastProof`), or speedy Dumbo's provable broadcast, where a proof says
only that N - f nodes echoed. A node then may wait for ever for a value whose
sender died ("there shall be a help function", lines 57-60); `SubsetReturned` says
that a value that a live node misses is of a dead one, and that at most f nodes miss it.
Different values may be missed by different nodes, so that with f >= 2 more than f live
nodes may not return. In `HoneyBadgerSubset` one reliable broadcast is slow or dies at
any point, while the N - 1 others and their agreements are one step (`OthersOutput`,
a bound); the agreement on the slow one must get an input from every node in time.

### SuperFallback and Bolt

`sfRun` chooses between `sufallback` (votes of all N, time-out, Bolt) and `Superfast`
(votes of N - 1, statistics to the leader). After a time-out `Superfast` gets a hash, a block and
votes where it expects statistics; if a block was fixed it formats them with `%d` and `%f`
(`Superfast.py:338`), and the `TypeError` ends the node before it sends its VIEW_CHANGE (`StatsFail`).
The leader then waits for ever for N of these, which `WaitsExplained` names. A chain is known by the slot of its
tip, as the leader makes one batch per slot. `TimeOut` is the timer of a slot; `Resume`
is `wait_for_sufastpath`, which ends for nobody who returned fewer than five values
and for no leader with too few votes; `BoltFirst` sends the leader's tip with the
votes it holds. Of Bolt's fast path only the first two slots are followed.

`Bolt` is ngbdt's fast path: OKs of slot 1, votes of N or, after TIMEOUT1, of N - f,
DECIDE by the handler or by `handle_vote`. `bkFlag` is only reset by the next slot, so the
leader may send two DECIDEs for a slot with different transactions; the second
reaches a full queue of capacity 1 and ends the handler (`bkDeaf`). One chain is kept
nevertheless (`BoltKeepsChain`).

### NwAbc and DumboNg

`NwAbc` follows the broadcast of one leader: `nwGot` are the PROPOSALs handled, in the order
of the link, `nwSlot` the round `decide_output` waits for. When the buffer is empty the
leader proposes 0 twice (nwabc.py:137) and the second copy ends the receiving greenlet
(`GetEmptyAgain`), after everything it needs was received. That needs FIFO: with
`NwPriority = TRUE`, the priority queues of `socket_client_ng` (which no launcher uses),
`NwDelivers` fails.

`DumboNg` has K broadcasts and the epochs that cut them. One of them, the source's,
is followed at every node: `ngOut` is what the node has put in `output_list`, and its `cur_view`,
which `track_progress` fills from there, is any view up to that (`Reached`). The source may die. A node behind the cut waits
until its own broadcast catches up (lines 404-420, "TODO: ADD PULLING BLOCK"): `EpochsGoOn`
says that only this stops the epochs, and `CutHeld` that the missing block exists at
f + 1 live nodes, i.e. that pulling it would work.

### ProvableDispersal, Recast, DumboMvba, DispersedLedger

`pdHeld` is what a node has handled of STORE and LOCK; the leader collects 2f + 1 STORED
and LOCKED. `Recast` EXTENDS it and follows one node that puts the value together, in
both versions: `dumbo_mvba` enters when its dispersals returned, decodes on RCLOCK,
echoes the first RCLOCK; `smvbastar` enters when the agreement decides the lock, waits for its
fragment, decodes on RCSTORE too. A leader that returned without its own STORE
sends 0, which nobody can unpack. `DumboMvba` is what is in between: all N dispersals
awaited (so that a crash before that may stop the protocol: `PdsMayReturn`, `PdsDue`), DONE, READY and FINISH of
`quitPD`, election, RCprepare. A FINISH passed on is not serialized and never leaves
the node; `DmComesToRecast` says that those sent directly suffice.

`DispersedLedger` follows the block of one leader from its echoes to the retrieval at
one node: a chunk that is not there when the round ends is never sent (`EndRound`),
and N - f echoes still leave N - 2f chunks to decode from.

## 3. What is checked

| Run | Properties | Bounds | What it shows |
|---|---|---|---|
| `fastpath_safe` | `TypeOK`, `ChainPrefix`, `NotarizedSupport`, `CertificateVerifies`, `DecidesNeverFull`, `FixedAdvances`, `ImplementsPromise` | N = 4, f = 1, 3 slots, buffer 0 or 1, statistics from slot 1 | one chain, certified and supported by a quorum; fixed blocks final; refinement of `FastPathSpec` |
| `fastpath_live` | `FastPathReturns` | N = 4, f = 1, 3 slots, buffer 0 or 1, statistics from slot 1, only the leader crashes | the fast path returns at every live node, but where only dummies were fixed and it divides by zero |
| `viewchange_safe` | `BdtTypeOK`, `InputsAdjacent`, `AtMostOneFixedLost`, `AgreedBlockHeld`, `StuckOnlyInAgreement` | N = 4, f = 1, 3 slots, buffer and `txcnt` 0 or 1, statistics from slot 1 | inputs one apart at most, only the last fixed block may be undelivered, agreed block held, only an agreement that may block holds a node up |
| `viewchange_average` | `NotarizationSent` (violated) | 3 slots, statistics from slot 8, as in the code | ZeroDivisionError instead of a VIEW_CHANGE |
| `viewchange_fallback` | `FallbackWithDummy` (violated) | 3 slots, one transaction | `queue.Empty` is not `IndexError` |
| `agreement_safe` | `TypeOK`, `SameValues`, `OneEstimate`, `EqualInputsDecide`, `ImplementsPromise` | N = 4, f = 1, mixed inputs, or equal ones and one crash; round 0 and the start of round 1 | agreement and validity across the coin; with equal inputs all decide |
| `agreement_finish` | `EveryNodeDecides` (violated) | N = 7, f = 2, equal inputs, 2 crashes, nodes in order of their numbers (`InOrder`) | a node stops one FINISH too early |
| `agreement_conf` | `EveryNodeDecides` (violated) | N = 4, mixed inputs, no crash | the CONF phase may deadlock |
| `broadcast_total` | `Totality`, `Validity` | N = 4, f = 1, one crash of any node | all live nodes return or none |
| `dissemination` | `NwDelivers` | 3 transactions or fewer, one crash | output rounds are held by N - f; all rounds are output while the leader lives |
| | `CutHeld`, `EpochsGoOn` | 2 rounds per broadcast, the source may die | a cut's blocks exist; only a block nobody pulls stops the epochs |
| | `DlRetrieved` | one block, one crash | a decided block is decoded |
| | `SubsetReturned` | one crash | Dumbo's subset always returns; speedy Dumbo's but for values of the dead |
| | `FallbackKeepsFixed`, `WaitsExplained` | 2 slots and the tip, f mute nodes from slot 3 | no time-out loses a block; all waits that never end are named |
| | `BoltKeepsChain` | 3 slots | one chain, nothing fixed is lost |
| | `MeAgreeUnlessStale`, `MeHaltsUnlessSkipped` | two rounds, different leaders | `smvba_e` disagrees or stalls only for the reasons named |
| `agreements` | `BaAgreement`, `OnlyDecidedWait` | one coin with any inputs (`BaMixedLast`), two with equal ones (`BaEqualLast`) | agreement; f + 1 inputs behind a decision; who waits for ever has decided |
| | `CommittedLeaderWins`, `IterationEnds` | one iteration, one crash | a leader f + 1 commit to wins; only a dropped ballot and a crash stall it |
| | `HaltsLeaveTheirMark` | rounds 0 and 1, votes of round 0 | what N - f votes decided is carried on; a short cut has N - f signatures |
| | `RcRecovers`, `DmComesToRecast` | one crash, leaders with and without a lock | the recast is reached and recovers the value |
| | `DrStuckOnlyByLeaving` | one round of Dumbo, 3 of its agreement, f mute or none | a round is stuck only when more than f have left it |
| | `HoneyBadgerReturns` | one slow broadcast, one crash | every live node returns |
| | `LaggardsWaitInAgreements` | 2 epochs, up to f dead, three drivers | before more than f have stopped, nodes that are behind wait in agreements that may block, and for nothing that those ahead keep from them |
| `speedmvba_disagree` | `MvAgreement` (violated) | rounds 0 and 1, votes of both | two nodes decide differently |

**Components side by side.** In the runs `dissemination` and `agreements`, `running` picks
one component for the whole behaviour; the variables of the others hold `None`. Each
property is one of the component it names (`Nw!NwDelivers`), and holds trivially in
the behaviours of others. All of these have N = 4, f = 1 and symmetry over all nodes.

**Why the bounds suffice to be interesting.** With N = 4 a quorum is 3, any two
quorums share two nodes, and there is room for one crash together with one node
that is merely behind. Three slots is the least number in which a block goes
through all of pending, notarized and fixed (at slots k + 1, k + 2 and k + 3). The
statistics start at slot 8 in the code; starting at 1 brings the division within
reach of three slots. In the agreement, one full round with both values, then the
entry to the next with the estimates the coin leaves, is what the safety of all
later rounds rests on; that it then holds for any number of rounds is proved. With
mixed inputs `agreement_safe` has no crash (`CrashesWithEqualInputs`): for agreement
and validity a crashed process is one that takes no more steps and whose messages
are not counted. `agreement_finish` takes seven nodes, as the surplus FINISH does no harm
with f = 1, and `InOrder` keeps it small: it leaves out interleavings, and a violation
found among the others is one all the same.

`fastpath_live` reaches both ends of a fast path: with a buffer of 1 nodes return with a fixed
block, with an empty one they raise. Temporal properties allow no symmetry. In its place are three
action constraints (`MCHsFastPath`), none of which removes a way to get stuck: replicas do not crash
(to the others that is a timer that fires), votes that can no longer count are dropped
at once (`UselessVotesFirst`), and after the end of the leader, when the replicas have no effect on
each other, they go on one after the other (`OneByOne`). `Progress` is never enabled without a step
that the constraints allow. `agreements` has three constraints of the same kind (`MCAgreement`): ballots
that are thrown away are so at the end (`DropsLast`), and a certificate that comes after the vote
(`LateCertificatesFirst`) or a STORED after the lock (`UselessStoredFirst`) is handled at once. When each of these
is done has no effect on any other step, so that every state at rest is kept.

Symmetry is over the nodes that are interchangeable (all but the leader), and is not used
under fairness.

Two epochs are what it takes to have a node behind the others; a second
round of speedmvba is where a decision of the first can be contradicted; two rounds
of a Dumbo-NG broadcast let a cut name a block its source died with; three slots of
bolt bring a block from voted to fixed by its successor; three transactions fill
the queues of capacity 1 behind which the second PROPOSAL of 0 arrives.

**Fairness.** `FastPathReturns` assumes weak fairness of `Progress` as a whole: as
long as some handler, main greenlet or timer can do something, something is done.
gevent's loop gives at least that much. It does not assume that a particular
message is delivered or greenlet scheduled. Crashes are not in `Progress`.
Other progress is stated as invariants: in a state in which no step is left that is sure to
come, every live node is done, or is one of those the property names. A crash is never sure to
come, nor is an output of an agreement that may block (`AgreementOwed`, `AgreementMayBlock` and their
like). They need no fairness beyond that the system takes some step, since every step consumes something (a
message, a slot, a round, all bounded; proved of four components, see section 4). They name these states not by ENABLED, which
the proof system does not handle, but by the guards of the actions, which are operators
of their own: `Settled`, `BaSettled`, `NwSettled`, `NgSettled`, `CsSettled` and so on, a
conjunct for each action but a crash. So they can be proved as well as checked.

**Deadlock checking** is off: an epoch, a fast path and an agreement all end.

### Findings

* *`smvba_e_cp.py:301`, `speedmvba_disagree`.* `get_spbc_s1` returns as soon as it starts, and
  the election kills the broadcasts. A node that signed the elected leader's message
  and whose first certificate was not recorded votes no; N - f such votes lead to
  the next round and another leader, while a node that delivered the message before
  the election has halted with it. Two nodes decide differently, with no failure.
  (In `smvba_e.py`, used by DispersedLedger and speedy Dumbo, certificates are recorded
  late instead of never, which `MeAgreeUnlessStale` describes.)

* *`bdt.py:442`, `viewchange_average`.* Before sending its VIEW_CHANGE a node averages
  delays over `self.txcnt + epoch_txcnt`. Both are 0 in a first epoch that notarized
  a block but fixed none from slot 8 on, and the `ZeroDivisionError` ends `run_bft`.
* *`bdt.py:484`, `viewchange_fallback`.* The handler for an empty buffer names
  `IndexError`; gevent's queue raises `Empty`. The dummy is never used.
* *`twovalueagreement.py:210`, `agreement_conf`.* A node sends CONF once per round, with
  its bin values of that moment, but waits for N - f CONFs *equal* to its current
  ones. If two of four nodes send CONF before and two after their second bin value
  arrived, every node ends up with both and only two CONFs match: all wait for
  ever, with no failure. (With equal inputs this cannot happen: `EqualInputsDecide`.)
* *`twovalueagreement.py:123`, `agreement_finish`.* A node counts its own FINISH twice, so
  that it stops on those of 2f nodes. With f = 2, all inputs equal: a node that adopts
  the decision before its AUX stops; f of the 2f nodes that it heard die before
  their FINISHs reach the others. These see f FINISHs, less than f + 1, and
  N - f - 1 AUXs, and wait for ever.

The division inside the fast path (`hsfastpath.py:260`) is `RaiseInStatistics`; a node
that raises there keeps its process, and depends on the view change of the others: its fast path
never returns (`FastPathReturns` has this as its only exception), and `StuckOnlyInAgreement` says that
N - f VIEW_CHANGEs of the others give it its input.

`bdt.py:461` inherits the two findings on the agreement. Nodes that collected the VIEW_CHANGEs of
different quorums do give it inputs one apart, and then an epoch may wait for ever with no
failure: `StuckOnlyInAgreement` and `LaggardsWaitInAgreements` say that this is where, and only there.

Other divergences are stated inside properties that hold, as the exact condition
under which a promise is kept: dropped ballots (`IterationEnds`), Dumbo's rounds
(`DrStuckOnlyByLeaving`), blocks nobody pulls (`EpochsGoOn`), values of dead senders
(`SubsetReturned`), waits of BDT+ and the exception of `Superfast.py:338` (`WaitsExplained`), the exception of `smvba_e.py:474`
(`MeHaltsUnlessSkipped`), a leader without its own fragment (`RcRecovers`).

## 4. What is proved

All proofs are for arbitrary `Nodes`, `F`, `SlotsNum`, `StatFrom`, `TxSupply` and
`MaxRound`, and for arbitrary rounds, epochs, slots and transactions of the other
components (`BaMixedLast`, `BaEqualLast`, `DrRounds`, `DrBaRounds`, `EdEpochs`, `NwMaxTx`,
`NgMaxRound`, `SfSlots`, `BkSlots`), under the assumptions
`FaultAssumption` (N >= 3f + 1, finite), `FastPathAssumption`, `NoneAssumption`,
`ViewChangeAssumption`, `AgreementAssumption`, `BroadcastAssumption`, `AgreementsAssumption` and
`DisseminationAssumption`, which TLC evaluates in the runs. The last two say that the
bounds are natural numbers, that no more than f processes crash (`VaMaxCrash`, `CsMaxCrash`
and their like), and that `None` is none of the values it stands beside.

Two kinds of invariant are proved below, besides refinements and that components come to rest. Safety follows from an inductive invariant by
meeting quorums. That nobody waits for ever needs more: what each node has *sent*, that
a message that makes one node go on can make all others, and that the live nodes are
enough by themselves. The argument then takes the node that is furthest behind (in the
least round, epoch or phase), and shows that some action of it has its guard satisfied.

**Quorums.** `ThreeQuorumsMeet`: any three sets of N - f nodes have a node in common.

**Fast path** (`HsFastPathProof`). The inductive invariant `HfInv` says that the
DECIDEs the leader has sent *are* the chain: each extends the one before
(`DecidesChained`) and its hash commits to all of them (`HashesCommit`). All that a
node holds is read off this chain at its slot: tip and pending block (`OnChain`),
notarized and fixed block (`BlocksRotate`, until it raises), what it output
(`OutputsCertified`), what its statistics counted (`StatisticsCount`), and what is
queued (`QueuesCurrent`). `VotesReached` says that nobody votes ahead of itself. The
invariants that TLC checks do not suffice on their own: `ChainPrefix`, for one, says
nothing about messages in flight, from which the next tips are made. From `HfInv`
follow type correctness (`FastPathTypes`), `ChainsNeverFork`, `NotarizedIsSupported`,
`CertificatesVerify`, `DecidesHaveRoom` (the bounded queue never overflows) and the
action property `FixedOnlyAdvances`.

**Coming to rest** (`FastPathEnds`, `EpochStepsConsume`, `BroadcastConsumes`,
`AgreementConsumes`). For each of these components `Todo` is the set of what may still happen,
as tokens of a kind, a node and a slot, peer or round: a message not handled, a slot or a
phase of a round not passed, a value not relayed, a process not dead. The theorems say
that `Todo` is finite and that every step, crashes included, makes it strictly smaller,
so that no behaviour has more steps than there are tokens. For the fast path this needs
an invariant of its own, `VotesOnce`: a vote on its way is the only one of its node in its
slot, so that receiving it takes a token that no later step gives back. The agreement is
bounded by `MaxRound`, beyond which the models do not go. With the fairness that *some* step is
taken as long as one can be, these components come to the states in which `StuckOnlyInAgreement`,
`Totality`, `Validity` and `EqualInputsDecide` speak. `RaisesOnlyOnDummies` says where a fast path that
came to rest has raised: the sum of the statistics is at least the number of batches with
transactions up to the fixed block, so it is 0 only if there are none.

**Refinement** (`HsFastPathRefinement`). `FastPathImplements`: seen through `StatusBar` (the
phases) and `BatchBar` (the DECIDEs), each step is a step of `FastPathSpec` or a
stutter. Receiving, counting and dropping messages stutter; the vote that completes
a quorum is `DecideSlot`, for which `VotesReached` gives the quorum of nodes that
reached the slot.

**View change** (`BdtViewChangeProof`). The difficulty is that fast paths run on
while VIEW_CHANGEs are collected. `VcInv` keeps that a decided slot was reached by a
quorum (`DecidedReached`), that a VIEW_CHANGE is never ahead of its sender, and,
decisively, `FrozenQuorum`: a node whose fast path still runs sends its VIEW_CHANGE
only after a full quorum of nodes sent theirs *with their fast path stopped*. A slot
that is decided, now or later, was reached by a quorum; the VIEW_CHANGEs behind an
input come from a second one; the frozen nodes are a third. The node they share
has stopped, and its VIEW_CHANGE speaks for the slot it reached. This gives
`InputsAreAdjacent` and `AgreedBlockIsHeld`, and that no input is below a fixed slot (the lemma
`FixedCovered`), from which `OneFixedLostAtMost` counts what the epoch delivers. `EpochsEnd`
(`StuckOnlyInAgreement`) adds that at
most f nodes crash (`FewCrashed`): if nothing is left to do, every live fast path is over, so
all live nodes have sent their VIEW_CHANGE, N - f of them have a greatest slot
(`ViewChangesEnough`, for which `QuorumLemmas` has subsets of a given size and greatest
elements), and every live node has an input. It has a decision too, unless the inputs differ
or a node decided while another is gone.

**Agreement** (`TwoValueAgreementProof`). `TvaInv` says that a set that passes the CONF
phase was sent by a quorum (`CoinConfirmed`); since a node sends one CONF in a round
and two quorums meet, there is at most one such set (`CoinValuesAgree`). With the
common coin it determines the only estimate of the next round (`EstimatesNext`,
`SingleEstimate`), and if it holds a single value, that value is the only one
estimated in *all* later rounds (`Locked`). `Locked` is a state invariant over all pairs
of rounds, so no induction over rounds is needed. `AgreementImplements`: every step
refines `TwoValueSpec`, i.e. decisions are equal and were proposed. `EqualInputsEnd`
(`EqualInputsDecide`): if a node stopped and no process died, the FINISHs it heard reach everybody
and all decide. If none stopped, take the earliest round in which a live node still is: the
live nodes, which are a quorum, have sent all of it and reach everybody (`TvaSent`). With
equal inputs there is one value to collect, so all CONFs are the same and the node goes on.

**Broadcast** (`ReliableBroadcastProof`). `BroadcastTotal` and `BroadcastValid`, for up to
f crashes. The danger is a node that has handled its last READY without enough
stripes to decode, since no ECHO makes it return. `RbInv` says why there is none:
the first READY rests on ECHOs of a quorum, none of which had said READY before
(`ReadyBacked`); on a FIFO link the ECHO of such a node is handled before its READY
(`EchoBeforeReady`); and a node with a quorum of READYs that has not returned holds
READYs of fewer than N - 2f of them (`TooFewEchoes`). At least N - 2f of the quorum
are live, so the READYs of all live nodes always suffice. That all live nodes say
READY follows from amplification: the quorum of READYs behind a return holds more
than f live ones (`ReadySaid`).

**Binary agreement** (`AgreementProof`, `DecisionsAgree`). `BaInv` is about all rounds at
once, so that again no induction over rounds is needed. A value in bin values or a
CONF was sent by more than f nodes (`BinsBacked`). What a node leaves CONF with was
confirmed, and a single value by a quorum (`ValuesConfirmed`); a node sends one CONF in a
round (`ConfirmOnce`), so a round confirms at most one single value. Estimates of the next round
are that value or the coin (`EstimatesFollow`), a decision is both (`DecidedOnCoin`),
and an only estimate stays the only one in all later rounds (`OnlyStays`). A value that
f nodes or fewer have as input is sent by none but these, in round 0 only (`InputsBehind`).

`WaitersDecided` (`OnlyDecidedWait`) needs what was *sent*, in `BaWaits`: a node past a phase of a round
has done what the phase stands for (`StepsDone`), a bin value has its 2f + 1 ESTs
(`BinsSent`), nobody leaves a round whose only estimate is the coin without a decision
(`CoinDecides`), and a node quits in such a round (`QuitOnCoin`). When nothing is left
to do, take the least round in which a node still runs. All nodes sent an EST in it, so
some value has f + 1, is relayed by all that run, and becomes a bin value; the ones that
run have all bin values of the others, so their AUX, CONF and shares let each other go
on. If too few of them run, somebody quit in an earlier round, on a coin that was the
only estimate, and everybody who left that round has decided.

**Validated agreement** (`CommittedLeadersWin`). `VaInv`: a node that has the leader in
its commit list had delivered its value, and so votes 1 (`VotesHonourLists`); an input
of 0 rests on N - f ballots of 0 (`ZeroHasQuorum`). f + 1 nodes meet them. Dropped
ballots and crashes do not matter to this. They do to `IterationsEnd` (`IterationEnds`), for which `VaWaits`
says that at most f nodes are down (`FewVaCrashed`), that a node has sent what its phase
stands for (`PhasesReached`), and that a ballot is dropped only without the commit it
needs (`SeenNotDropped`): phase by phase, the live nodes alone are N - f.

**Speedy MVBA** (`HaltsMarked` of `smvba_e_cp`, `RoundsAgree` of `smvba_e`). `MvInv` follows the
elected message from its signatures to the output (`BroadcastFlows`) and the votes from
the prevotes (`VotesFlow`); a next round with anything but that message rests on
N - f no votes (`NextMessages`). That decisions still differ (`speedmvba_disagree`) is no
contradiction: a node that signed may vote no. For `smvba_e`, `MeInv` keeps what every HALT
that is not stale comes from (`HaltsFrom`), and that N - f no prevotes are behind a
no vote (`NoVotesBacked`): if such HALTs differ, a quorum signed and a quorum
prevoted no, and a node did both. `RoundsHalt` (`MeHaltsUnlessSkipped`) adds `MeWaitInv`: a node
that votes has prevoted (`VotersPrevoted`), one that is in round 1 has set it up (`AgainSetUp`),
and who halted has sent its HALT (`HaltedSent`). What let one node leave the votes
(`LeftVoting`) lets every node that votes leave them; if nobody halts and at most f nodes
raised, N - f have set round 1 up, and elect again.

**Recast and Dumbo-MVBA** (`ValuesRecovered`, for N = 3f + 1, and `RecastReached`). `RcInv`: a lock rests on 2f + 1 nodes
that stored (`LockBacked`); a recast starts with such a lock or, in `dumbo_mvba`, when N - f nodes
returned from the dispersal (`RecastBacked`), so f + 1 of the nodes that are up answer; and as long
as there is no value, fewer were counted (`NotEnough`), or what was counted is the empty fragment
of the leader. `DmInv`: the nodes that are up are at least N - f, at most one
leader has no lock (`BareAlone`), and whoever is past `quitPD` rests on a FINISH that some node
broadcast itself (`QuitByFinish`). In each later phase these nodes wait for no more than each other.

**Drivers** (`RoundsStuckByLeaving`, `LaggardsHeldByAgreements`). What a node did in a round or epoch can be read
off where it is. In BDT, rotating HotStuff and speedy Dumbo a node that is past an epoch has
left in it all that the others need (`EdEnded`); so in the earliest epoch of those that run, N - f
of them unless more than f stopped, somebody has all it waits for but an output that may fail to come. In Dumbo a node that left a round has not, which
is why the property names those who left. A quorum that is in one round can go on: a node of it that
has not decided is held back by no coin that others quit on (`DrProgress`), and the
node that is furthest behind finds the broadcasts it waits for.

**HoneyBadger's subset** (`SubsetsReturned`). `HbInv`: the first READY rests on N - f ECHOs, and a
value on 2f + 1 READYs (`ReadyBacked`). Of these f + 1 are from live nodes, which reach all, so
that if one node has the slow value then all live ones get it. Inputs of 1 are from nodes with
the value and a decision is the input of f + 1 (`InputsBacked`); as N > 3f one of
the two bits is the input of f + 1 live nodes, so the agreement may decide.

**Dumbo's common subsets** (`VectorsReturned`). `CsInv`: at most f nodes are dead (`FewCsCrashed`),
a value that is proved is held by its sender and, with the provable broadcast, by N - f nodes
(`ValsHeld`), and a vector names proved values (`VectorProved`). The live nodes prove their
broadcasts, and are N - f, which is enough for a vector; with PRBC its values then spread to
every live node, and with the provable broadcast those of live senders do.

**Dumbo-NG** (`BroadcastSafe`, `BroadcastDelivers`, `CutsHeld`). `NwInv`: the voters of a round are
past it (`VotersPast`), and all rounds before the one proposed have N - f voters (`RoundsVoted`),
so N - f nodes hold a round that is output. That all rounds are output, `BroadcastDelivers`, has
the hypothesis that links are FIFO (`~ NwPriority`), which is what the launchers use: a
node has received a prefix of what was proposed (`ArrivedInOrder`), and the copy of the
empty proposal that ends its receiving greenlet is the last message (`EmptyLast`). When
nothing is left to handle, live nodes have voted for the last round, as
no more than f are down (`FewNwCrashed`) it has N - f votes, and the next was proposed.
`DumboNg` has this as the guard of the source's next round; from it `NgInv` has that all
the source has sent but for the last round is held by a quorum (`GrownHeld`), and that
outputs and cuts stay behind what was sent (`OutBehind`, `CutsBehind`). `EpochsContinue`
(`EpochsGoOn`) adds `NgWaitInv`: no view of a cut is behind the one before (`CutsGrow`) or ahead of what
was broadcast (`CutsBroadcast`). Since a cut advances N - f broadcasts, it takes N - f rounds
out of those there are (`CutsTakeRounds`), and the earliest epoch of a live node has room for
another. Its live nodes, N - f of them, are all ready for the agreement and nobody is ahead of
them, so a cut is due as soon as N - f broadcasts of live nodes have grown.

**DispersedLedger** (`BlocksRetrieved`). `DlInv`: a decision rests on N - f echoes
(`DecidedEchoed`), a node that had its chunk when the round ended returned it
(`EndedReturned`), at most f nodes are down (`FewDown`), and no more than N - 2f chunks
are kept (`GotEnough`). Of N - f nodes that echoed, N - 2f are up.

**BDT+** (`FixedKept`). As the leader proposes a slot on the votes of all, every node is in the last
proposed slot or the next (`SlotsReached`, `SlotsNear`). A leader that times out has made
the last proposed block its tip (`LeaderInFast`, `LeaderLeft`); it starts Bolt only with a quorum
in that slot (`TipHeld`), from its tip (`FirstIsTip`). `WaitsEnd` (`WaitsExplained`) needs how
each mode of a node is entered (`ModesFit`): who hangs is past the last slot, who raised had no
transaction (`FewTransactions`). The leader opened Bolt before anyone came to its second slot
(`BoltOpened`), and whoever ended the fast path of `Superfast` with a fixed block has sent its
statistics, unless it timed out and the exception ended it (`StatsSent`). It holds for all N >= 3f + 1.

**Bolt** (`ChainKept`). The leader sends one DECIDE in a slot, or a second one in the slot
in which its handler died, which is its last (`SentOnce`, `DeafQuiet`). So chains, which
are made of what was sent (`ItemsSent`, `ChainsSent`), differ at most in their last block,
which is not notarized (`NotarizedLast`). Voters have the block they vote for (`VotersHave`), so the
certificate of a DECIDE stands for N - f nodes, or all, that have the block before (`SentBacked`),
and a fixed block for as many (`FixedHad`). Slot 1 opens with what the previous leader left
if a quorum holds it (`OpenedOnce`).

`FixedKept`, `ChainKept` and `ValuesRecovered` have the hypothesis N = 3f + 1. It is what the code is
written for: the fallback of BDT+ counts 2f + 1 votes, and bolt accepts
certificates of exactly 2f + 1 shares, where both mean N - f nodes; the recast decodes with f + 1
fragments (`rebroadcast.py:17`) what was encoded with N - 2f (`provabledispersal.py:52`). With N > 3f + 1 these
numbers are smaller than a quorum, and the models (where a quorum is N - f) do not
promise what the invariants need. All other theorems are for N >= 3f + 1.

Each of these is proved of the component's own specification (in `AgreementProof` and
`DisseminationProof`, under names such as `BinaryAgreementSafe`, `BinaryAgreementEnds`,
`RecastEnds`, `EpochDriversEnd`, `DumboNgGoesOn`, `CommonSubsetEnds`) and of that of the run,
where `running` picks the component. The inductive invariants were checked by TLC on the
instances of the runs before they were proved.

**Only model-checked.** `FastPathReturns`, which is liveness under fairness and out of the
proof system's reach: what `FastPathEnds` lacks of it is the step from `WF` of `Progress`, which
needs ENABLED and an induction over the tokens. Every other property of a passing run is
a theorem. Two limits remain. That an invariant over states at rest says something of
every behaviour needs that the component comes to rest; it is proved for the four above,
and for the components of `AgreementProof` and `DisseminationProof` it is argued under *Fairness*
and not proved. And the components that stand for another protocol by a
guard (see section 2) are proved with that guard as it is.

## 5. Not modelled, and why

* Lying nodes: the models have crashes and asynchrony only.
* Signature, hash and coin computations, erasure codes, payloads, delays: idealised
  or abstracted; no property depends on them. The common coin's queues.
* The contents of delivered blocks. `EpochDrivers` counts slots and epochs; that all
  nodes deliver the same transactions in the same order rests on `ChainPrefix` and on
  the agreements, and is not stated as a property of its own. The lost transaction of
  a slot that is never notarized (`hsfastpath.py:153`) is visible in `buffer` of
  `HsFastPath`, but the repository promises nothing about it.
* `twovaluepillaragreement.py`: only a local experiment runs it. Read closely, it
  has waits that N - f nodes may never satisfy (f + 1 AUX of -1 in a later round) and
  assertions that end its main loop (`len(values) == 2` in round 0).
* HoneyBadger's driver: `honeybadger.py:312-315` calls `honeybadger_block` with keywords
  it does not take, so no round gets past that call. Its common subset is modelled.
* `haltingtwovalueagreement`, `hsfastpath_3`, `superfastpath_3`, `ng_old`, `ng_k_s_cp`, `nwabc_old`, `dumbox`,
  `mvbacommonsubset`: earlier versions, or code that nothing runs.
* Iterations of `validatedagreement` and `dumbo_mvba` after the first, rounds of
  speedmvba after the second, overlapping rounds of DispersedLedger.
* Launchers, key generation, cryptography, logging.

## 6. Plan

1. *Done.* `HsFastPath`, `FastPathSpec`, `BdtViewChange`, `TwoValueAgreement`, `ReliableBroadcast` with
   runs, refinements and proofs.
2. *Done.* The agreements, common subsets, drivers, BDT+, Dumbo-NG, bolt, Dumbo-MVBA and
   DispersedLedger, with runs.
3. *Done.* Proofs of the properties of these runs: safety, by quorum arguments on
   `QuorumLemmas`, and who may wait for ever, by the guards of the actions.
4. An abstract broadcast that `ReliableBroadcast` and HoneyBadger's variant implement,
   and an abstract agreement for `BinaryAgreement`, in place of the guards that stand
   for them in the composed modules.
5. `Todo` sets, as of the four components of section 4, for those of `AgreementProof` and
   `DisseminationProof`.
6. The order of delivered slots across epochs on top of `EpochDrivers`; two-value pillar
   agreement; crashes between two sends in `ValidatedAgreement`.
