------------------------------- MODULE MCFork -------------------------------
(***************************************************************************)
(* The experimental fork chain, one part per behaviour: a node with its    *)
(* log and index, two nodes that sync, and the explorer of the Core fork.  *)
(* The last two run on x1 to x8 and leave the node in its initial state.   *)
(*                                                                         *)
(* The node knows two branches from block a1: a keeps the easiest target,  *)
(* b finds a block early, leaves the bootstrap phase and outworks a with   *)
(* fewer blocks; x, y, z and w are refused: a double spend, too large a    *)
(* reward, a stale target and a time before the median.                    *)
(***************************************************************************)
EXTENDS ForkChain, TLC

CONSTANTS a1, a2, a3, a4, b2, b3, b4, x, y, z, w, t1, t2, t3, t4, n1, n2, NotSyncing

VARIABLES part, x1, x2, x3, x4, x5, x6, x7, x8

Block(prev, time, target, rank, txs, reward) ==
    [prev |-> prev, time |-> time, target |-> target, rank |-> rank, txs |-> txs,
     reward |-> reward, sound |-> TRUE]

MCHeader ==
    [b \in Blocks |->
        CASE b = a1 -> Block(Inherited, 2, 28, 5, <<>>, 4)
          [] b = a2 -> Block(a1, 6, 28, 6, <<>>, 4)
          [] b = b2 -> Block(a1, 4, 14, 1, <<>>, 4)
          [] b = a3 -> Block(a2, 10, 28, 7, <<>>, 2)
          [] b = b3 -> Block(b2, 8, 14, 4, <<>>, 2)
          [] b = a4 -> Block(a3, 14, 28, 3, <<t1>>, 3)
          [] b = b4 -> Block(b3, 7, 7, 2, <<t1, t2>>, 3)
          [] b = x -> Block(a3, 14, 28, 8, <<t1, t3>>, 2)
          [] b = y -> Block(b3, 7, 7, 9, <<t1>>, 4)
          [] b = z -> Block(b3, 7, 14, 10, <<>>, 2)
          [] OTHER -> Block(b3, 3, 7, 11, <<>>, 2)]

Transaction(inputs, outputs, rank) ==
    [inputs |-> inputs, outputs |-> outputs, rank |-> rank, sound |-> TRUE]

\* t2 spends t1, t3 conflicts with t1, t4 exists on branch a only.
MCTx ==
    [t \in Txs |->
        CASE t = t1 -> Transaction({<<a1, 1>>}, <<2, 1>>, 2)
          [] t = t2 -> Transaction({<<t1, 1>>}, <<2>>, 1)
          [] t = t3 -> Transaction({<<a1, 1>>}, <<4>>, 3)
          [] OTHER -> Transaction({<<a2, 1>>}, <<1>>, 4)]

-----------------------------------------------------------------------------
(* ForkSync: a light branch a1, a2, a3 and a short one a1, b2 with the same *)
(* work.                                                                    *)

SyncBlocks == {a1, a2, a3, b2}

Sync == INSTANCE ForkSync
    WITH Blocks <- SyncBlocks,
         Header <- [b \in SyncBlocks |-> [MCHeader[b] EXCEPT !.reward = 4]],
         Txs <- {}, Tx <- <<>>, Nodes <- {n1, n2},
         Peers <- (n1 :> {n2}) @@ (n2 :> {n1}),
         ActivationHeight <- 9, HalvingInterval <- 9, MaxFuture <- 2,
         Clocks <- {5, 8}, MaxLost <- 1, Idle <- NotSyncing,
         stored <- x1, tip <- x2, sync <- x3, now <- x4, lost <- x5

-----------------------------------------------------------------------------
(* ForkExplorer: two branches, F1 A2 A3 and F1 B2 B3 B4, that spend the     *)
(* same outputs; a node with and without a transaction index, of another    *)
(* experiment and of another replay.                                        *)

Out(a, v) == [address |-> a, value |-> v, script |-> 22]
Coinbase(id, a) == [id |-> id, coinbase |-> TRUE, ins |-> << <<0, 0>> >>, outs |-> <<Out(a, 50)>>]
Pay(id, ins, outs) == [id |-> id, coinbase |-> FALSE, ins |-> ins, outs |-> outs]
BelowFork == 1 :> Pay(1, <<>>, <<Out("a", 5)>>)
Both == Pay(21, << <<10, 1>> >>, <<Out("b", 30), Out("a", 20)>>)
Blk(h, p, n, txs) == [hash |-> h, parent |-> p, height |-> n, bytes |-> 300, txs |-> txs]
ForkTree ==
    [F1 |-> Blk("F1", "I", 1, <<Coinbase(10, "a")>>),
     A2 |-> Blk("A2", "F1", 2, <<Coinbase(11, "b"),
               Pay(20, << <<1, 1>> >>, <<Out("b", 3), Out(None, 1)>>)>>),
     A3 |-> Blk("A3", "A2", 3, <<Coinbase(12, "a"), Both>>),
     B2 |-> Blk("B2", "F1", 2, <<Coinbase(13, "b"), Both,
               Pay(22, << <<1, 1>>, <<21, 1>> >>, <<Out("a", 34)>>)>>),
     B3 |-> Blk("B3", "B2", 3, <<Coinbase(14, "a")>>),
     B4 |-> Blk("B4", "B3", 4, <<Coinbase(15, "b")>>)]
IndexLimits == [blockBytes |-> 4000, scriptBytes |-> 100, inputs |-> 4, blocks |-> 4, txs |-> 20,
             outputs |-> 20, addresses |-> 3, retained |-> 100000, work |-> 1000]
Manifest ==
    LET m == [patch |-> "current", revision |-> 3, first |-> "F1", firstHeight |-> 1,
              replayHash |-> "F1", replayParent |-> 1, metadata |-> "experiment",
              interval |-> 2016, activation |-> <<>>]
    IN  [m EXCEPT !.activation = <<m.patch, m.revision, m.first, m.firstHeight, m.replayHash,
                                   m.replayParent, m.metadata>>]
Setup == [chain |-> "pohw", pruned |-> FALSE, metadata |-> "experiment", txindex |-> TRUE,
          manifest |-> Manifest]
SomeSetups == {Setup, [Setup EXCEPT !.txindex = FALSE], [Setup EXCEPT !.metadata = "other"],
             [Setup EXCEPT !.manifest.replayHash = "B2"]}
SomeAsks(r) ==
    {[kind |-> "status"], [kind |-> "height", height |-> 2], [kind |-> "height", height |-> 4],
     [kind |-> "block", hash |-> "B2"], [kind |-> "txs", hash |-> "A2", cursor |-> 1, limit |-> 1],
     [kind |-> "page", cursor |-> None, limit |-> 2], [kind |-> "page", cursor |-> "A3", limit |-> 3],
     [kind |-> "stats"],
          [kind |-> "utxos", address |-> "b", cursor |-> 0, limit |-> 2],
          [kind |-> "transactions", address |-> "a", cursor |-> 1, limit |-> 2],
      [kind |-> "summary", address |-> "a"], [kind |-> "detail", txid |-> 21]}
Explorer == INSTANCE ForkExplorer
    WITH InheritedTip <- "I", Limits <- IndexLimits, AddressTextBytes <- 42,
         Requests <- {1}, Asks <- SomeAsks, Blocks <- ForkTree,
         InheritedTxs <- BelowFork, Setups <- SomeSetups, InitialTips <- {"A2"},
         WithIndex <- TRUE,
         node <- x1, tip <- x2, best <- x3, located <- x4, txindex <- x5, snapshot <- x6,
         gate <- x7, req <- x8

-----------------------------------------------------------------------------

after5 == <<x6, x7, x8>>
slots == <<x1, x2, x3, x4, x5, after5>>
allVars == <<part, vars, slots>>
No5 == x6 = 0 /\ x7 = 0 /\ x8 = 0
NoSlots == x1 = 0 /\ x2 = 0 /\ x3 = 0 /\ x4 = 0 /\ x5 = 0 /\ No5

MCInit ==
    /\ Init
    /\ \/ part = "node" /\ NoSlots
       \/ part = "sync" /\ Sync!Init /\ No5
       \/ part = "explorer" /\ Explorer!Init

MCNext ==
    /\ \/ part = "node" /\ Next /\ UNCHANGED slots
       \/ part = "sync" /\ Sync!Next /\ UNCHANGED <<vars, after5>>
       \/ part = "explorer" /\ Explorer!Next /\ UNCHANGED vars
    /\ UNCHANGED part

MCSpec == MCInit /\ [][MCNext]_allVars

-----------------------------------------------------------------------------
\* A completed sync leaves a node with its peer's tip or a better one, and no
\* node trades its tip for a worse one (sync_from_peer).
TipsImprove == [][part = "sync" => Sync!CatchesUp /\ Sync!Improves]_allVars

\* What the explorer answers describes one branch (require_same_tip).
AnswersDescribeOneBranch == part = "explorer" => Explorer!AnswersDescribeOneBranch
=============================================================================
