------------------------------ MODULE ForkChain ------------------------------
(***************************************************************************)
(* ForkChainStore of one fork-chain node                                   *)
(* (crates/p2pool-node/src/fork_chain.rs): the block log, the blocks       *)
(* replayed from it, the active tip with the index and the explorer built  *)
(* from it, and the mempool.                                               *)
(*                                                                         *)
(* Every request runs under the store's write lock, so a submission is one *)
(* step; what it can be interrupted by is a crash or a failed write inside *)
(* append_record.  A record is written, then its newline, then both are    *)
(* synced.  The file is the sequence of its terminated lines and the tail  *)
(* after the last newline.                                                 *)
(***************************************************************************)
EXTENDS ForkConsensus

CONSTANTS
    MaxMempool,    \* MAX_MEMPOOL_TRANSACTIONS
    Clocks,        \* values the host's clock takes
    None, Cut, Junk,
    MaxCrashes, MaxFailedWrites  \* bounds

ASSUME StoreAssumption ==
    /\ {MaxMempool, MaxCrashes, MaxFailedWrites} \subseteq Nat
    /\ Clocks \subseteq Nat /\ Clocks # {}
    /\ {None, Cut, Junk} \cap (Blocks \cup {Inherited}) = {}

VARIABLES
    lines, tail,     \* fork-blocks.ndjson
    up,              \* the node runs
    blocks,          \* ForkChainStore::blocks
    activeTip, activeByHeight, explorer,
    mempool,
    acked,           \* blocks whose submission was answered "accepted"
    now,
    crashes, failedWrites

file == <<lines, tail>>
memory == <<blocks, activeTip, activeByHeight, explorer, mempool>>
vars == <<file, up, memory, acked, now, crashes, failedWrites>>

-----------------------------------------------------------------------------
(* The indexes that are rebuilt when the active tip changes.               *)

ActiveIndex(tip) == [h \in FirstHeight..Height(tip) |-> Branch(tip)[h - FirstHeight + 1]]

\* rebuild_explorer_index: all outputs of the active blocks, then the
\* outputs their transactions spend.
ExplorerIndex(index) ==
    [outputs |-> UNION {{CoinbaseOutput(index[h], Header[index[h]], h)}
                        \cup UNION {OutputsOf(t, h) : t \in ToSet(Header[index[h]].txs)} :
                        h \in DOMAIN index},
     spends |-> UNION {UNION {Tx[t].inputs : t \in ToSet(Header[index[h]].txs)} :
                       h \in DOMAIN index}]

\* Mutant: a new tip at the height of the old one leaves the explorer as it was.
MutSetActiveTip(tip) ==
    /\ activeTip' = tip
    /\ activeByHeight' = ActiveIndex(tip)
    /\ explorer' = IF Height(tip) = Height(activeTip)
                   THEN explorer ELSE ExplorerIndex(ActiveIndex(tip))

SetActiveTip(tip) ==
    /\ activeTip' = tip
    /\ activeByHeight' = ActiveIndex(tip)
    /\ explorer' = ExplorerIndex(ActiveIndex(tip))

\* Mutant: what the new branch confirms leaves the mempool, the rest stays.
MutRevalidateMempool(tip) == mempool \ BranchState(tip).txids

\* Mutant: transactions come back from the blocks of the branch that was left.
MutKeepAll(tip) == mempool \cup (BranchState(activeTip).txids \ BranchState(tip).txids)

RevalidateMempool(tip) ==
    IF TransactionsActive(Height(tip) + 1)
    THEN ToSet(SelectValid(mempool, Height(tip) + 1, BranchState(tip)).txs)
    ELSE {}

\* mining_template: what a miner is given to work on.
MiningTemplate ==
    LET height == Height(activeTip) + 1
        time == Larger(now, MedianTimePast(activeTip) + 1)
        valid == SelectValid(mempool, height, BranchState(activeTip)).txs
        body == SubSeq(valid, 1, Smaller(Len(valid), MaxBlockTxs - 1))
        fees == SelectValid(ToSet(body), height, BranchState(activeTip)).fees
    IN  [prev |-> activeTip, time |-> time, txs |-> body, sound |-> TRUE,
         target |-> NextDifficulty(activeTip, PhaseOf(activeTip), height, time).target,
         reward |-> BlockSubsidy(height) + fees]

-----------------------------------------------------------------------------
(* The log.                                                                *)

\* Bytes appended behind an unterminated tail run into it.
AppendLine(b) == /\ lines' = Append(lines, IF tail = None THEN b ELSE Junk)
                 /\ tail' = None

AppendPart(part) == /\ lines' = lines
                    /\ tail' = IF tail = None THEN part ELSE Junk

\* append_record does not return Ok: the record is missing, cut short, lacks
\* its newline, or is written in full and only the sync failed.
AppendStops(b) ==
    \/ UNCHANGED file
    \/ AppendPart(Cut)
    \/ AppendPart(b)
    \/ AppendLine(b)

\* repair_truncated_block_log_tail.
Repair ==
    CASE tail = Cut -> <<lines, None>>
      [] tail \in Blocks -> <<Append(lines, tail), None>>
      [] OTHER -> <<lines, tail>>

\* read_bounded_line also returns an unterminated last line.
ReplayLines(repaired) ==
    IF repaired[2] = None THEN repaired[1] ELSE Append(repaired[1], repaired[2])

\* Mutant: replay applies the limit on future times again.
MutReplays(records) ==
    \A i \in DOMAIN records :
        LET before == {records[j] : j \in 1..(i - 1)}
        IN  /\ records[i] \in Blocks \ before
            /\ BlockValid(before, records[i], now)

\* replay_block_log raises no error; the limit on future times does not apply.
Replays(records) ==
    \A i \in DOMAIN records :
        LET before == {records[j] : j \in 1..(i - 1)}
        IN  /\ records[i] \in Blocks \ before
            /\ ParentKnown(before, Header[records[i]])
            /\ records[i] \in ConsensusValid

-----------------------------------------------------------------------------
Init ==
    /\ lines = <<>> /\ tail = None
    /\ up = TRUE
    /\ blocks = {}
    /\ activeTip = Inherited
    /\ activeByHeight = ActiveIndex(Inherited)
    /\ explorer = ExplorerIndex(ActiveIndex(Inherited))
    /\ mempool = {}
    /\ acked = {}
    /\ now \in Clocks
    /\ crashes = 0 /\ failedWrites = 0

Acceptable(b) == b \notin blocks /\ BlockValid(blocks, b, now)

\* Mutant: a block that does not become the tip is not logged.
MutSubmitBlock(b) ==
    /\ up /\ Acceptable(b)
    /\ IF ConsiderActiveTip(activeTip, b) = b THEN AppendLine(b) ELSE UNCHANGED file
    /\ blocks' = blocks \cup {b}
    /\ IF ConsiderActiveTip(activeTip, b) = b
       THEN SetActiveTip(b) /\ mempool' = RevalidateMempool(b)
       ELSE UNCHANGED <<activeTip, activeByHeight, explorer, mempool>>
    /\ acked' = acked \cup {b}
    /\ UNCHANGED <<up, now, crashes, failedWrites>>

\* A block that is known, or not valid, changes nothing.
SubmitBlock(b) ==
    /\ up /\ Acceptable(b)
    /\ AppendLine(b)
    /\ blocks' = blocks \cup {b}
    /\ IF ConsiderActiveTip(activeTip, b) = b
       THEN SetActiveTip(b) /\ mempool' = RevalidateMempool(b)
       ELSE UNCHANGED <<activeTip, activeByHeight, explorer, mempool>>
    /\ acked' = acked \cup {b}
    /\ UNCHANGED <<up, now, crashes, failedWrites>>

\* The submission answers with an error and the node goes on.
WriteFails(b) ==
    /\ up /\ Acceptable(b)
    /\ failedWrites < MaxFailedWrites
    /\ AppendStops(b)
    /\ failedWrites' = failedWrites + 1
    /\ UNCHANGED <<up, memory, acked, now, crashes>>

SubmitTransaction(t) ==
    /\ up
    /\ t \notin mempool
    /\ Cardinality(mempool) < MaxMempool
    /\ \A u \in mempool : Tx[t].inputs \cap Tx[u].inputs = {}
    /\ TransactionValid(t, Height(activeTip) + 1, BranchState(activeTip))
    /\ mempool' = mempool \cup {t}
    /\ UNCHANGED <<file, up, blocks, activeTip, activeByHeight, explorer, acked, now,
                   crashes, failedWrites>>

\* The process dies, perhaps while it appends a record.
Crash ==
    /\ up
    /\ crashes < MaxCrashes
    /\ \/ UNCHANGED file
       \/ \E b \in Blocks : Acceptable(b) /\ AppendStops(b)
    /\ up' = FALSE
    /\ blocks' = {}
    /\ SetActiveTip(Inherited)
    /\ mempool' = {}
    /\ crashes' = crashes + 1
    /\ UNCHANGED <<acked, now, failedWrites>>

\* open_with_transaction_upgrade; it fails when the log does not replay.
Open ==
    LET repaired == Repair
        records == ReplayLines(repaired)
    IN  /\ ~up
        /\ Replays(records)
        /\ lines' = repaired[1] /\ tail' = repaired[2]
        /\ up' = TRUE
        /\ blocks' = ToSet(records)
        /\ SetActiveTip(FoldLeft(ConsiderActiveTip, Inherited, records))
        /\ UNCHANGED <<mempool, acked, now, crashes, failedWrites>>

\* The host's clock moves, backwards too.
ClockMoves ==
    /\ now' \in Clocks \ {now}
    /\ UNCHANGED <<file, up, memory, acked, crashes, failedWrites>>

Next ==
    \/ \E b \in Blocks : SubmitBlock(b)
    \/ \E b \in Blocks : WriteFails(b)
    \/ \E t \in Txs : SubmitTransaction(t)
    \/ Crash
    \/ Open
    \/ ClockMoves

Spec == Init /\ [][Next]_vars

-----------------------------------------------------------------------------
(* Properties.                                                             *)

\* The types of ForkChainStore; the height index covers exactly the heights
\* from the first fork block to the tip.
TypeOK ==
    /\ lines \in Seq(Blocks \cup {Junk})
    /\ tail \in Blocks \cup {None, Cut, Junk}
    /\ up \in BOOLEAN
    /\ blocks \subseteq Blocks /\ acked \subseteq Blocks
    /\ activeTip \in blocks \cup {Inherited}
    /\ DOMAIN activeByHeight = FirstHeight..Height(activeTip)
    /\ mempool \subseteq Txs /\ Cardinality(mempool) <= MaxMempool
    /\ now \in Clocks
    /\ crashes \in 0..MaxCrashes /\ failedWrites \in 0..MaxFailedWrites

\* The active tip is the best stored block: it depends on which blocks are
\* stored, not on the order they came in (consider_active_tip, replay_block_log).
TipIsBest ==
    IF blocks = {} THEN activeTip = Inherited
    ELSE activeTip \in blocks /\ \A b \in blocks \ {activeTip} : Better(activeTip, b)

\* What the explorer serves as unspent is what validation treats as unspent
\* on the active branch (rebuild_explorer_index against branch_state).
ExplorerIsBranchState ==
    {o \in explorer.outputs : o.point \notin explorer.spends} = BranchState(activeTip).utxos

\* Along any stored branch a transaction output is created before it is
\* spent, is spent once, and a transaction appears once.
SpentOnce ==
    \A b \in blocks :
        LET txs == FlattenSeq([i \in DOMAIN Chain[b] |-> Header[Chain[b][i]].txs])
            made(i) == {<<c, 1>> : c \in ToSet(Chain[b])}
                       \cup UNION {{<<txs[j], k>> : k \in DOMAIN Tx[txs[j]].outputs} : j \in 1..(i - 1)}
        IN  \A i \in DOMAIN txs :
                /\ Tx[txs[i]].inputs \subseteq made(i)
                /\ \A j \in 1..(i - 1) :
                       txs[i] # txs[j] /\ Tx[txs[i]].inputs \cap Tx[txs[j]].inputs = {}

\* The unspent outputs of a stored branch are worth at most the subsidies of
\* its blocks: fees move value and create none (validate_coinbase_reward).
NoInflation ==
    \A b \in blocks :
        SumAmounts(BranchState(b).utxos)
            <= SumOf([i \in 1..Len(Chain[b]) |-> BlockSubsidy(FirstHeight + i - 1)])

\* The block that a miner builds from mining_template is accepted by this
\* node, whatever was reorganised before; and every pending transaction that
\* fits is in it.  Its time runs ahead of the clock only when half of the
\* window does, and then it has to wait.
TemplateIsValid ==
    up => /\ Len(MiningTemplate.txs) = Smaller(Cardinality(mempool), MaxBlockTxs - 1)
          /\ InTime(MiningTemplate, now) => ContextValid(Inherited, MiningTemplate)

\* The handoff to Bitcoin's difficulty is never undone on a branch, an epoch
\* has exactly Interval blocks and keeps one target (next_difficulty).
HandoffIsFinal ==
    \A b \in blocks :
        LET parent == Header[b].prev
            phase == Phase[b]
        IN  /\ PhaseOf(parent).bitcoin => phase.bitcoin
            /\ phase.bitcoin => Height(b) - phase.epochHeight \in 0..(Interval - 1)
            /\ PhaseOf(parent).bitcoin /\ phase # PhaseOf(parent) =>
                   phase.epochHeight = PhaseOf(parent).epochHeight + Interval
            /\ PhaseOf(parent).bitcoin /\ phase = PhaseOf(parent) =>
                   Header[parent].target = Header[b].target

\* Median time past never falls along a branch, although block times may.
MedianTimeGrows ==
    \A b \in blocks : MedianTimePast(Header[b].prev) <= MedianTimePast(b)

\* While no write failed, the log replays after a crash at any point,
\* whatever the clock shows then (docs/fork-chain-node.md, Recovery).
LogReplays == failedWrites = 0 => Replays(ReplayLines(Repair))

\* A block whose submission was answered "accepted" is stored again after
\* every restart.
AcceptedSurvives == up => acked \subseteq blocks

\* The chain a node follows: the best tip, one handoff, growing median times.
ChainSound == TipIsBest /\ HandoffIsFinal /\ MedianTimeGrows

\* The coins of the chain: nothing spent twice, created or shown wrong.
LedgerSound == ExplorerIsBranchState /\ SpentOnce /\ NoInflation

\* What a restart finds: a log that replays, with every accepted block.
RestartSound == LogReplays /\ AcceptedSurvives
=============================================================================
