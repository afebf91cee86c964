---------------------------- MODULE ForkConsensus ----------------------------
(***************************************************************************)
(* Consensus rules of the experimental fork chain                          *)
(* (crates/p2pool-node/src/fork_chain.rs): difficulty with its bootstrap   *)
(* phase and its handoff to Bitcoin's retarget, median time past, the      *)
(* outputs a branch leaves unspent, the validity of a transaction and of a *)
(* block, and the choice between two tips.                                 *)
(*                                                                         *)
(* A block hash, a transaction id and the fields behind them are constants *)
(* (a hash fixes its content).  "sound" stands for the checks that look at *)
(* nothing else: sizes, versions, Merkle root and witness commitment, the  *)
(* BIP34 height, signatures, and the hash being below the header's target. *)
(***************************************************************************)
EXTENDS Integers, FiniteSets, Sequences, SequencesExt

CONSTANTS
    Blocks, Header,          \* Header[b]: prev, time, target, rank, txs, reward, sound
    Txs, Tx,                 \* Tx[t]: inputs, outputs (amounts), rank, sound
    Inherited,               \* the tip of the inherited chain
    FirstHeight, LaunchTime,
    ActivationHeight,        \* of the transaction upgrade
    Maturity, MaxBlockTxs,
    Subsidy, HalvingInterval,
    MedianWindow, MaxFuture,
    PowLimit, WorkRange,     \* easiest target; number of hash values
    Mantissa, Base,          \* a compact target has a mantissa below Mantissa
    Spacing, Interval,       \* target spacing; blocks of a retarget epoch
    HandoffWork              \* work of a block that ends the bootstrap phase

ASSUME ForkAssumption ==
    /\ Inherited \notin Blocks
    /\ \A b \in Blocks : Header[b].prev \in Blocks \cup {Inherited}
    /\ {FirstHeight, ActivationHeight, Maturity, MaxBlockTxs, Interval,
        HalvingInterval, MedianWindow, PowLimit, Mantissa, Spacing} \subseteq Nat \ {0}
    /\ {LaunchTime, Subsidy, MaxFuture, WorkRange, HandoffWork} \subseteq Nat
    /\ Base \in Nat \ {0, 1}

ASSUME HashesIdentify ==
    /\ \A b, c \in Blocks : Header[b].rank = Header[c].rank => b = c
    /\ \A t, u \in Txs : Tx[t].rank = Tx[u].rank => t = u

Larger(i, j) == IF i >= j THEN i ELSE j
Smaller(i, j) == IF i <= j THEN i ELSE j

\* The fork blocks from the first one to b.
Chain[b \in Blocks] ==
    IF Header[b].prev = Inherited THEN <<b>> ELSE Append(Chain[Header[b].prev], b)

Branch(tip) == IF tip = Inherited THEN <<>> ELSE Chain[tip]
Height(tip) == FirstHeight + Len(Branch(tip)) - 1

-----------------------------------------------------------------------------
(* Difficulty.                                                             *)

\* to_compact_lossy: the low digits that do not fit the mantissa are lost.
Compact(target) ==
    LET shift == CHOOSE e \in 0..target :
                     /\ target \div (Base ^ e) < Mantissa
                     /\ \A d \in 0..(e - 1) : target \div (Base ^ d) >= Mantissa
    IN  (target \div (Base ^ shift)) * (Base ^ shift)

WorkOf(target) == WorkRange \div (target + 1)

NextWorkRequired(previous, actual, timespan) ==
    LET clamped == Smaller(Larger(actual, timespan \div 4), timespan * 4)
    IN  Compact(Smaller(PowLimit, (previous * clamped) \div timespan))

Bootstrap == [bitcoin |-> FALSE, epochHeight |-> 0, epochTime |-> 0]
BitcoinEpoch(height, time) == [bitcoin |-> TRUE, epochHeight |-> height, epochTime |-> time]

PhaseAfterBootstrapBlock(target, height, time) ==
    IF WorkOf(target) >= HandoffWork THEN BitcoinEpoch(height, time) ELSE Bootstrap

Required(target, phase) == [target |-> target, phase |-> phase]

BootstrapStep(parent, height, time) ==
    LET target == NextWorkRequired(Header[parent].target,
                                   Larger(time - Header[parent].time, 0), Spacing)
    IN  Required(target, PhaseAfterBootstrapBlock(target, height, time))

Retarget(parent, phase, height, time) ==
    Required(NextWorkRequired(Header[parent].target,
                              Larger(Header[parent].time - phase.epochTime, 0),
                              Interval * Spacing),
             BitcoinEpoch(height, time))

\* Mutant: every block is retargeted like a bootstrap block.
MutNextDifficulty(parent, phase, height, time) ==
    IF parent = Inherited
    THEN Required(PowLimit, PhaseAfterBootstrapBlock(PowLimit, height, time))
    ELSE BootstrapStep(parent, height, time)

\* What the child of a block (with that block's phase) must satisfy.
NextDifficulty(parent, phase, height, time) ==
    CASE parent = Inherited ->
            Required(PowLimit, PhaseAfterBootstrapBlock(PowLimit, height, time))
      [] parent # Inherited /\ ~phase.bitcoin ->
            BootstrapStep(parent, height, time)
      [] parent # Inherited /\ phase.bitcoin /\ height - phase.epochHeight < Interval ->
            Required(Header[parent].target, phase)
      [] OTHER ->
            Retarget(parent, phase, height, time)

\* BlockNode::difficulty_phase and BlockNode::cumulative_work.
Phase[b \in Blocks] ==
    LET parent == Header[b].prev
    IN  NextDifficulty(parent, IF parent = Inherited THEN Bootstrap ELSE Phase[parent],
                       Height(b), Header[b].time).phase

PhaseOf(tip) == IF tip = Inherited THEN Bootstrap ELSE Phase[tip]

CumulativeWork[b \in Blocks] ==
    LET parent == Header[b].prev
    IN  (IF parent = Inherited THEN 0 ELSE CumulativeWork[parent]) + WorkOf(Header[b].target)

\* The launch time less one stays in the window for ever: at most
\* MedianWindow - 1 block times are taken.
MedianTimePast(tip) ==
    LET chain == Branch(tip)
        count == Smaller(Len(chain), MedianWindow - 1)
        times == <<LaunchTime - 1>>
                 \o [i \in 1..count |-> Header[chain[Len(chain) + 1 - i]].time]
        middle == Len(times) \div 2
    IN  CHOOSE m \in {times[i] : i \in DOMAIN times} :
            /\ Cardinality({i \in DOMAIN times : times[i] < m}) <= middle
            /\ Cardinality({i \in DOMAIN times : times[i] <= m}) > middle

-----------------------------------------------------------------------------
(* Transactions.  An output is known by its transaction id (the block hash *)
(* for a coinbase) and its index.                                          *)

Output(txid, index, amount, height, coinbase) ==
    [point |-> <<txid, index>>, amount |-> amount, height |-> height, coinbase |-> coinbase]

OutputsOf(t, height) ==
    {Output(t, i, Tx[t].outputs[i], height, FALSE) : i \in DOMAIN Tx[t].outputs}

CoinbaseOutput(hash, header, height) == Output(hash, 1, header.reward, height, TRUE)

SumOf(amounts) == FoldLeft(+, 0, amounts)
SumAmounts(outputs) == FoldSet(LAMBDA o, sum : o.amount + sum, 0, outputs)

\* Mutant: the outputs a transaction spends stay in the state.
MutApplyTransaction(state, t, height) ==
    [state EXCEPT !.utxos = @ \cup OutputsOf(t, height), !.txids = @ \cup {t}]

\* validate_and_apply_transaction, once the transaction is known to be valid.
ApplyTransaction(state, t, height) ==
    [state EXCEPT !.utxos = {o \in @ : o.point \notin Tx[t].inputs} \cup OutputsOf(t, height),
                  !.txids = @ \cup {t}]

ApplyCoinbase(state, hash, header, height) ==
    [state EXCEPT !.utxos = @ \cup {CoinbaseOutput(hash, header, height)},
                  !.txids = @ \cup {hash}]

\* branch_state: what the blocks up to b leave unspent, and their transactions.
BranchStateOf[b \in Blocks] ==
    LET parent == Header[b].prev
        before == IF parent = Inherited THEN [utxos |-> {}, txids |-> {}]
                                        ELSE BranchStateOf[parent]
    IN  FoldLeft(LAMBDA state, t : ApplyTransaction(state, t, Height(b)),
                 ApplyCoinbase(before, b, Header[b], Height(b)), Header[b].txs)

BranchState(tip) ==
    IF tip = Inherited THEN [utxos |-> {}, txids |-> {}] ELSE BranchStateOf[tip]

TransactionsActive(height) == height >= ActivationHeight

Spent(state, t) == {o \in state.utxos : o.point \in Tx[t].inputs}
Fee(state, t) == SumAmounts(Spent(state, t)) - SumOf(Tx[t].outputs)

TransactionValid(t, height, state) ==
    /\ TransactionsActive(height)
    /\ Tx[t].sound
    /\ t \notin state.txids
    /\ Tx[t].inputs = {o.point : o \in Spent(state, t)}
    /\ \A o \in Spent(state, t) : o.coinbase => height - o.height >= Maturity
    /\ Fee(state, t) >= 0

\* Mutant: a fee is counted for every output of a transaction.
MutApplyBody(txs, height, state) ==
    FoldLeft(LAMBDA acc, t :
                 IF acc.ok /\ TransactionValid(t, height, acc.state)
                 THEN [ok |-> TRUE,
                       fees |-> acc.fees + Len(Tx[t].outputs) * Fee(acc.state, t),
                       state |-> ApplyTransaction(acc.state, t, height)]
                 ELSE [acc EXCEPT !.ok = FALSE],
             [ok |-> TRUE, fees |-> 0, state |-> state], txs)

\* The transactions of a block, each against what the ones before it left.
ApplyBody(txs, height, state) ==
    FoldLeft(LAMBDA acc, t :
                 IF acc.ok /\ TransactionValid(t, height, acc.state)
                 THEN [ok |-> TRUE, fees |-> acc.fees + Fee(acc.state, t),
                       state |-> ApplyTransaction(acc.state, t, height)]
                 ELSE [acc EXCEPT !.ok = FALSE],
             [ok |-> TRUE, fees |-> 0, state |-> state], txs)

\* The transactions of a set that can follow one another, in txid order.
SelectValid(txs, height, state) ==
    FoldLeft(LAMBDA acc, t :
                 IF TransactionValid(t, height, acc.state)
                 THEN [txs |-> Append(acc.txs, t), fees |-> acc.fees + Fee(acc.state, t),
                       state |-> ApplyTransaction(acc.state, t, height)]
                 ELSE acc,
             [txs |-> <<>>, fees |-> 0, state |-> state],
             SetToSortSeq(txs, LAMBDA t, u : Tx[t].rank < Tx[u].rank))

-----------------------------------------------------------------------------
(* Blocks.                                                                 *)

BlockSubsidy(height) == Subsidy \div (2 ^ (height \div HalvingInterval))

BodyValid(hash, header, height) ==
    LET body == ApplyBody(header.txs, height,
                          ApplyCoinbase(BranchState(header.prev), hash, header, height))
    IN  IF TransactionsActive(height)
        THEN /\ Len(header.txs) + 1 <= MaxBlockTxs
             /\ body.ok
             /\ header.reward <= BlockSubsidy(height) + body.fees
        ELSE /\ header.txs = <<>>
             /\ header.reward <= BlockSubsidy(height)

\* Mutant: the time is not compared with the median time past.
MutContextValid(hash, header) ==
    LET height == Height(header.prev) + 1
    IN  /\ header.sound
        /\ header.target = NextDifficulty(header.prev, PhaseOf(header.prev),
                                          height, header.time).target
        /\ BodyValid(hash, header, height)

\* What validate_block checks that depends on the branch alone.
ContextValid(hash, header) ==
    LET height == Height(header.prev) + 1
    IN  /\ header.sound
        /\ header.target = NextDifficulty(header.prev, PhaseOf(header.prev),
                                          height, header.time).target
        /\ header.time > MedianTimePast(header.prev)
        /\ BodyValid(hash, header, height)

ParentKnown(stored, header) == header.prev \in stored \cup {Inherited}

\* The blocks that are valid where they stand.
ConsensusValid == {b \in Blocks : ContextValid(b, Header[b])}

InTime(header, now) == header.time <= now + MaxFuture

\* validate_block by a node that stores "stored" and whose clock shows now.
BlockValid(stored, b, now) ==
    /\ ParentKnown(stored, Header[b])
    /\ InTime(Header[b], now)
    /\ b \in ConsensusValid

Better(b, c) ==
    \/ CumulativeWork[b] > CumulativeWork[c]
    \/ CumulativeWork[b] = CumulativeWork[c] /\ Header[b].rank < Header[c].rank

\* Mutant: of two branches with the same work the later one to arrive wins.
MutConsiderActiveTip(tip, candidate) ==
    IF tip = Inherited \/ CumulativeWork[candidate] >= CumulativeWork[tip]
    THEN candidate ELSE tip

\* active_tip = None is written Inherited.
ConsiderActiveTip(tip, candidate) ==
    IF tip = Inherited \/ Better(candidate, tip) THEN candidate ELSE tip
=============================================================================
