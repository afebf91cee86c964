---------------------------- MODULE ForkExplorer ----------------------------
(***************************************************************************)
(* The explorer client of an Experiment 1 Bitcoin Core node                *)
(* (p2pool-node/src/fork_explorer.rs).  A request makes one RPC after the  *)
(* other and the node may change its tip between two of them; the requests *)
(* of several connections run concurrently and share the published address *)
(* index and the gate of the refreshers.  The node is external: it has a   *)
(* tree of blocks, moves its tip to a longer branch, and learns headers    *)
(* and fills its transaction index at its own pace.  All blocks have the   *)
(* same work, so that a branch with more work is a longer one.             *)
(***************************************************************************)
EXTENDS Integers, Sequences, FiniteSets, SequencesExt

-----------------------------------------------------------------------------
(***************************************************************************)
(* The bounded index of addresses over the fork's active chain             *)
(* (p2pool-node/src/fork_address_index.rs), as operators on the value of   *)
(* an index.  A block is [hash, parent, height, bytes, txs]; a transaction *)
(* is [id, coinbase, ins, outs] with outpoints <<txid, vout>> as inputs    *)
(* and [address, value, script] as outputs, where script is the length of  *)
(* the script and address is None for a script without an address.         *)
(***************************************************************************)
CONSTANTS
    FirstHeight,      \* fork_point.first_fork_height
    InheritedTip,     \* fork_point.inherited_tip_hash
    Limits,           \* ForkAddressIndexLimits
    AddressTextBytes, \* the length of an address
    None

SumOf(S, f(_)) == MapThenSumSet(f, S)

-----------------------------------------------------------------------------
(* The value of an index *)

EmptyEntry ==
    [txids |-> {}, funded |-> 0, fundedTotal |-> 0, spent |-> 0, spentTotal |-> 0,
     inherited |-> 0, inheritedTotal |-> 0, balance |-> 0,
     first |-> None, last |-> None, transactions |-> <<>>, utxos |-> {}]

NewIndex ==
    [tip |-> None, tipHeight |-> FirstHeight - 1, blocks |-> 0, txs |-> 0,
     outputs |-> 0, retained |-> 0, work |-> 0, sound |-> TRUE,
     created |-> [o \in {} |-> None], spends |-> [o \in {} |-> None],
     addresses |-> [a \in {} |-> EmptyEntry]]

EntryOf(index, a) ==
    IF a \in DOMAIN index.addresses THEN index.addresses[a] ELSE EmptyEntry

-----------------------------------------------------------------------------
(* What a block adds to the budgets *)

Chunks(bytes, chunk) == (bytes + chunk - 1) \div chunk
ScriptWork(o) == Chunks(o.script, 32)

IndexedOutputBytes(o) == 128 + 36 + 8 + o.script
SpendBytes == 128 + 36 + 64 + 16
AddressBytes == 128 + 256 + AddressTextBytes
UtxoBytes(o) == 128 + 36 + 76 + 128 + 76 + 64 + 2 * o.script + 16 + 16 + 4 + 1
RelationBytes == 2 * 128 + 2 * 64 + 64 + 32 + 2

\* The inputs that spend something: none of a coinbase.
Inputs(tx) == IF tx.coinbase THEN <<>> ELSE tx.ins

Related(tx, previous) ==
    ({previous[o].output.address : o \in ToSet(Inputs(tx))}
        \cup {tx.outs[v].address : v \in DOMAIN tx.outs}) \ {None}

TransactionBytes(index, tx, previous) ==
    LET outs == DOMAIN tx.outs
        Out(v) == tx.outs[v]
    IN  Len(Inputs(tx)) * SpendBytes
        + SumOf(outs, LAMBDA v : IndexedOutputBytes(Out(v)))
        + SumOf({v \in outs : Out(v).address # None}, LAMBDA v : UtxoBytes(Out(v)))
        + RelationBytes * Cardinality({a \in Related(tx, previous) :
                              tx.id \notin EntryOf(index, a).txids})

TransactionWork(tx, previous) ==
    LET ins == Inputs(tx)
    IN  Len(tx.ins) + Len(tx.outs)
        + SumOf(DOMAIN ins, LAMBDA i : ScriptWork(previous[ins[i]].output))
        + SumOf(DOMAIN tx.outs, LAMBDA v : ScriptWork(tx.outs[v]))
        + Cardinality(Related(tx, previous))

\* preflight_block: the counters after the block.
Admission(index, block, previous) ==
    LET txs == DOMAIN block.txs
        fresh == UNION {Related(block.txs[t], previous) : t \in txs}
                    \ DOMAIN index.addresses
    IN  [blocks |-> index.blocks + 1,
         txs |-> index.txs + Len(block.txs),
         outputs |-> index.outputs + SumOf(txs, LAMBDA t : Len(block.txs[t].outs)),
         addresses |-> Cardinality(DOMAIN index.addresses) + Cardinality(fresh),
         retained |-> index.retained + AddressBytes * Cardinality(fresh)
            + SumOf(txs, LAMBDA t : TransactionBytes(index, block.txs[t], previous)),
         work |-> index.work + Chunks(block.bytes, 4096) + Len(block.txs)
            + SumOf(txs, LAMBDA t : TransactionWork(block.txs[t], previous))]

\* preflight_block: the conditions.  Spent entries are never refunded.
Preflight(index, block, previous) ==
    LET spent == FlattenSeq([t \in DOMAIN block.txs |-> Inputs(block.txs[t])])
        outs == UNION {{<<block.txs[t].id, v>> : v \in DOMAIN block.txs[t].outs} :
                          t \in DOMAIN block.txs}
        scripts == {previous[o].output.script : o \in ToSet(spent) \cap DOMAIN previous}
            \cup UNION {{o.script : o \in ToSet(block.txs[t].outs)} : t \in DOMAIN block.txs}
    IN  /\ block.bytes <= Limits.blockBytes
        /\ IsInjective(spent)
        /\ ToSet(spent) \cap DOMAIN index.spends = {}
        /\ ToSet(spent) \subseteq DOMAIN previous
        /\ \A s \in scripts : s <= Limits.scriptBytes
        /\ outs \cap DOMAIN index.created = {}
        /\ \A s, t \in DOMAIN block.txs : block.txs[s].id = block.txs[t].id => s = t
        /\ LET next == Admission(index, block, previous)
           IN  \A limit \in {"blocks", "txs", "outputs", "addresses", "retained", "work"} :
                  next[limit] <= Limits[limit]

-----------------------------------------------------------------------------
(* append_transaction and append_block *)

\* update_height_range
Seen(entry, height) ==
    [entry EXCEPT !.first = IF @ = None \/ height < @ THEN height ELSE @,
                  !.last = IF @ = None \/ height > @ THEN height ELSE @]

TransactionRef(tx, block, position, fee) ==
    [txid |-> tx.id, block |-> block.hash, height |-> block.height,
     position |-> position, coinbase |-> tx.coinbase, fee |-> fee,
     total |-> SumOf(DOMAIN tx.outs, LAMBDA v : tx.outs[v].value)]

\* The entry of one of the transaction's addresses after it.  Spending an
\* inherited output does not touch the balance, which counts fork outputs.
Credit(entry, a, tx, block, previous, ref) ==
    LET From(i) == previous[Inputs(tx)[i]]
        mine == {i \in DOMAIN Inputs(tx) : From(i).output.address = a}
        inherited == {i \in mine : From(i).inherited}
        spent == mine \ inherited
        funded == {v \in DOMAIN tx.outs : tx.outs[v].address = a}
        Value(i) == From(i).output.value
        In(v) == tx.outs[v].value
    IN  Seen([entry EXCEPT
            !.inherited = @ + Cardinality(inherited),
            !.inheritedTotal = @ + SumOf(inherited, Value),
            !.spent = @ + Cardinality(spent),
            !.spentTotal = @ + SumOf(spent, Value),
            !.funded = @ + Cardinality(funded),
            !.fundedTotal = @ + SumOf(funded, In),
            !.balance = @ - SumOf(spent, Value) + SumOf(funded, In),
            !.utxos = (@ \ {u \in @ : \E i \in spent : u.outpoint = Inputs(tx)[i]})
                \cup {[outpoint |-> <<tx.id, v>>, value |-> In(v), height |-> block.height,
                       coinbase |-> tx.coinbase] : v \in funded},
            !.txids = @ \cup {tx.id},
            !.transactions = IF tx.id \in entry.txids THEN @ ELSE Append(@, ref)],
            block.height)

\* The checked subtractions and lookups: an error abandons the whole index.
Accounted(index, tx, previous) ==
    LET ins == Inputs(tx)
        Value(i) == previous[ins[i]].output.value
    IN  /\ ~tx.coinbase => SumOf(DOMAIN ins, Value)
                              >= SumOf(DOMAIN tx.outs, LAMBDA v : tx.outs[v].value)
        /\ \A i \in DOMAIN ins :
              LET from == previous[ins[i]]
              IN  ~from.inherited /\ from.output.address # None =>
                    \E u \in EntryOf(index, from.output.address).utxos : u.outpoint = ins[i]

AppendTransaction(index, block, t, previous) ==
    LET tx == block.txs[t]
        ins == Inputs(tx)
        related == Related(tx, previous)
        fee == IF tx.coinbase THEN None
               ELSE SumOf(DOMAIN ins, LAMBDA i : previous[ins[i]].output.value)
                    - SumOf(DOMAIN tx.outs, LAMBDA v : tx.outs[v].value)
        ref == TransactionRef(tx, block, t, fee)
        SpentBy(o) == [txid |-> tx.id, vin |-> CHOOSE i \in DOMAIN ins : ins[i] = o,
                       height |-> block.height]
    IN  IF ~Accounted(index, tx, previous) THEN [index EXCEPT !.sound = FALSE]
        ELSE [index EXCEPT
                !.spends = [o \in ToSet(ins) |-> SpentBy(o)] @@ @,
                !.created = [o \in {<<tx.id, v>> : v \in DOMAIN tx.outs} |-> tx.outs[o[2]]]
                                @@ @,
                !.addresses = [a \in related |->
                                 Credit(EntryOf(index, a), a, tx, block, previous, ref)] @@ @]

\* append_block: its conditions, and the index after it.
Appendable(index, height, block, previous) ==
    /\ height = index.tipHeight + 1
    /\ block.parent = IF index.tip = None THEN InheritedTip ELSE index.tip
    /\ Preflight(index, block, previous)

AppendBlock(index, height, block, previous) ==
    LET next == Admission(index, block, previous)
        filled == FoldLeft(LAMBDA i, t : AppendTransaction(i, block, t, previous),
                           index, [t \in DOMAIN block.txs |-> t])
    IN  [filled EXCEPT !.blocks = next.blocks, !.txs = next.txs, !.outputs = next.outputs,
                       !.retained = next.retained, !.work = next.work,
                       !.tip = block.hash, !.tipHeight = height]

-----------------------------------------------------------------------------
(* The queries.  A page is the items from the cursor on and the next cursor. *)

Page(items, cursor, limit) ==
    LET part == SubSeq(items, cursor + 1, Min({cursor + limit, Len(items)}))
        next == cursor + Len(part)
    IN  [total |-> Len(items), items |-> part,
         next |-> IF next < Len(items) THEN next ELSE None]

AddressSummary(index, a) ==
    LET e == EntryOf(index, a)
    IN  [transactions |-> Cardinality(e.txids), funded |-> e.funded,
         fundedTotal |-> e.fundedTotal, spent |-> e.spent, spentTotal |-> e.spentTotal,
         inherited |-> e.inherited, inheritedTotal |-> e.inheritedTotal,
         balance |-> e.balance, first |-> e.first, last |-> e.last]

AddressTransactions(index, a, cursor, limit) ==
    Page(Reverse(EntryOf(index, a).transactions), cursor, limit)

\* ForkUtxoOrderKey: newest first, then by transaction and output.
UtxoBefore(u, w) ==
    \/ u.height > w.height
    \/ u.height = w.height /\ u.outpoint[1] < w.outpoint[1]
    \/ u.height = w.height /\ u.outpoint[1] = w.outpoint[1] /\ u.outpoint[2] <= w.outpoint[2]

AddressUtxos(index, a, cursor, limit) ==
    Page(SetToSortSeq(EntryOf(index, a).utxos, UtxoBefore), cursor, limit)

Spend(index, outpoint) ==
    IF outpoint \in DOMAIN index.spends THEN index.spends[outpoint] ELSE None

Stats(index) ==
    [tip |-> index.tip, height |-> index.tipHeight, blocks |-> index.blocks,
     txs |-> index.txs, outputs |-> index.outputs,
     addresses |-> Cardinality(DOMAIN index.addresses)]

-----------------------------------------------------------------------------
CONSTANTS
    Requests,        \* connections that ask
    Asks(_),         \* what each may ask
    Blocks,          \* the node's blocks of the fork: hash -> block
    InheritedTxs,    \* transactions below the fork: txid -> transaction
    Setups,          \* a node's configuration with the manifest of the client
    InitialTips,
    WithIndex        \* whether address_index_limits were given

VARIABLES
    node,       \* the setup, constant in a behaviour
    tip,        \* hash of the active tip
    best,       \* hash of the best header
    located,    \* the transaction index: txid -> block hash
    txindex,    \* the tip the transaction index has reached
    snapshot,   \* the published address index
    gate,       \* the request that holds the refresh gate
    req         \* what each request has read and where it is

vars == <<node, tip, best, located, txindex, snapshot, gate, req>>
core == <<node, tip, best, located, txindex>>

-----------------------------------------------------------------------------
(* The node *)

Height(h) == IF h = InheritedTip THEN FirstHeight - 1 ELSE Blocks[h].height

\* The branch of a block by height.
Branch[h \in DOMAIN Blocks] ==
    (Blocks[h].height :> h) @@ IF Blocks[h].parent = InheritedTip
                               THEN (FirstHeight - 1) :> InheritedTip
                               ELSE Branch[Blocks[h].parent]

TxIds(h) == {Blocks[h].txs[t].id : t \in DOMAIN Blocks[h].txs}
OnBranch(h, hash) == \E height \in DOMAIN Branch[h] : Branch[h][height] = hash

\* The transaction index keeps the entries of blocks that left the chain.
Locations(known, h) ==
    LET on == {Branch[h][i] : i \in DOMAIN Branch[h]} \ {InheritedTip}
    IN  [id \in UNION {TxIds(b) : b \in on} |-> CHOOSE b \in on : id \in TxIds(b)] @@ known

RawTransaction(id) ==
    IF id \in DOMAIN InheritedTxs THEN InheritedTxs[id]
    ELSE LET b == CHOOSE h \in DOMAIN Blocks : id \in TxIds(h)
         IN  Blocks[b].txs[CHOOSE t \in DOMAIN Blocks[b].txs : Blocks[b].txs[t].id = id]

Announce(h) ==
    /\ Height(h) > Height(best)
    /\ best' = h
    /\ UNCHANGED <<node, tip, located, txindex, snapshot, gate, req>>

\* The tip follows the best header, at once or by a block of its branch.
Connect(h) ==
    /\ Height(h) > Height(tip) /\ OnBranch(best, h)
    /\ tip' = h
    /\ UNCHANGED <<node, best, located, txindex, snapshot, gate, req>>

SyncTxIndex ==
    /\ txindex # tip
    /\ txindex' = tip
    /\ located' = Locations(located, tip)
    /\ UNCHANGED <<node, tip, best, snapshot, gate, req>>

-----------------------------------------------------------------------------
(* Requests.  Go gives fields of a request their new values. *)

Idle == [pc |-> "idle", ask |-> None, chain |-> None, step |-> 0, seen |-> <<>>,
         index |-> None, then |-> "idle", reply |-> None]

Go(r, fields) == req' = [req EXCEPT ![r] = fields @@ @]

Release(r) == gate' = IF gate = r THEN None ELSE gate

\* An error ends the request and gives back the gate it may hold.
Fail(r) ==
    /\ req' = [req EXCEPT ![r] = Idle]
    /\ Release(r)
    /\ UNCHANGED <<snapshot, core>>

Answer(r, reply) == Go(r, [pc |-> "done", reply |-> reply])

\* Any RPC may fail, and a request may give up waiting.
RpcError(r) == req[r].pc \notin {"idle", "done"} /\ Fail(r)

Ask(r, ask) ==
    /\ req[r].pc = "idle"
    /\ Go(r, [pc |-> "info", ask |-> ask])
    /\ UNCHANGED <<snapshot, gate, core>>

Finish(r) ==
    /\ req[r].pc = "done"
    /\ Go(r, Idle)
    /\ UNCHANGED <<snapshot, gate, core>>

-----------------------------------------------------------------------------
(* The manifest, read once when the client is made (from_manifest) *)

\* The identifier of a manifest: the hash of the rest of it.
ActivationId(m) == <<m.patch, m.revision, m.first, m.firstHeight, m.replayHash,
                     m.replayParent, m.metadata>>

ManifestLoads(m) ==
    /\ m.patch = "current" /\ m.activation = ActivationId(m)
    /\ m.revision = 3
    /\ m.firstHeight = FirstHeight
    /\ m.interval > 0

-----------------------------------------------------------------------------
(* validate_chain *)

Profile == node.manifest

\* validate_runtime_metadata
MetadataValid == node.metadata = Profile.metadata

Synchronized ==
    /\ node.chain = "pohw"
    /\ ~node.pruned
    /\ Height(tip) = Height(best)
    /\ Height(tip) >= FirstHeight

\* getblockchaininfo
ReadInfo(r) ==
    /\ req[r].pc = "info"
    /\ IF Synchronized /\ MetadataValid
       THEN /\ Go(r, [pc |-> "indexes",
                      chain |-> [blocks |-> Height(tip), headers |-> Height(best),
                                 tip |-> None]])
            /\ UNCHANGED <<snapshot, gate, core>>
       ELSE Fail(r)

\* getindexinfo
ReadIndexes(r) ==
    /\ req[r].pc = "indexes"
    /\ IF node.txindex /\ txindex = tip /\ Height(txindex) = req[r].chain.blocks
       THEN Go(r, [pc |-> "hash", step |-> 1]) /\ UNCHANGED <<snapshot, gate, core>>
       ELSE Fail(r)

\* The checkpoints and the tip are read by height, one call each.
CheckpointHeights(blocks) ==
    <<FirstHeight - 1, FirstHeight, Profile.replayParent, blocks>>

CheckpointMatches(step, hash) ==
    \/ step = 1 /\ hash = InheritedTip
    \/ step = 2 /\ hash = Profile.first
    \/ step = 3 /\ hash = Profile.replayHash
    \/ step = 4

ReadHash(r) ==
    LET q == req[r]
        height == CheckpointHeights(q.chain.blocks)[q.step]
    IN  /\ q.pc = "hash"
        /\ IF /\ height <= Height(tip)
              /\ q.step = 3 => q.chain.blocks >= Profile.replayParent
              /\ CheckpointMatches(q.step, Branch[tip][height])
           THEN /\ Go(r, IF q.step < 4 THEN [step |-> q.step + 1]
                         ELSE [pc |-> q.ask.kind, step |-> 0,
                               chain |-> [q.chain EXCEPT !.tip = Branch[tip][height]]])
                /\ UNCHANGED <<snapshot, gate, core>>
           ELSE Fail(r)

-----------------------------------------------------------------------------
(* require_same_tip: two calls.  `then' is what the request does after it. *)

MutRequireSameTip(then) == [pc |-> then, then |-> then]
RequireSameTip(then) == [pc |-> "same info", then |-> then]

SameTipInfo(q) ==
    /\ node.chain = "pohw"
    /\ Height(tip) = q.chain.blocks
    /\ Height(best) = q.chain.headers

ReadSameInfo(r) ==
    /\ req[r].pc = "same info"
    /\ IF SameTipInfo(req[r])
       THEN Go(r, [pc |-> "same hash", step |-> Height(tip)])
            /\ UNCHANGED <<snapshot, gate, core>>
       ELSE Fail(r)

ReadSameHash(r) ==
    LET q == req[r]
    IN  /\ q.pc = "same hash"
        /\ IF q.step <= Height(tip) /\ Branch[tip][q.step] = q.chain.tip
           THEN /\ Go(r, [pc |-> q.then, step |-> 0])
                /\ UNCHANGED <<snapshot, gate, core>>
           ELSE Fail(r)

\* The response leaves once the tip was found unchanged.
Respond(r) ==
    /\ req[r].pc = "respond"
    /\ Go(r, [pc |-> "done"])
    /\ UNCHANGED <<snapshot, gate, core>>

-----------------------------------------------------------------------------
(* Requests about blocks and transactions *)

Assembled(r, reply) == Go(r, RequireSameTip("respond") @@ [reply |-> reply])

Status(r) ==
    LET chain == req[r].chain
    IN  /\ req[r].pc = "status"
        /\ Assembled(r, [tip |-> chain.tip, height |-> chain.blocks,
                         active |-> chain.blocks - (FirstHeight - 1)])
        /\ UNCHANGED <<snapshot, gate, core>>

\* An answer without require_same_tip: nothing at that height.
ActiveBlockHash(r) ==
    LET q == req[r]
        h == q.ask.height
    IN  /\ q.pc = "height"
        /\ \/ /\ h > q.chain.blocks \/ h < FirstHeight
              /\ Answer(r, None)
           \/ /\ h \in FirstHeight..q.chain.blocks /\ h <= Height(tip)
              /\ Assembled(r, Branch[tip][h])
        /\ UNCHANGED <<snapshot, gate, core>>

\* A block is known when its branch was announced.
Known(h) == h \in DOMAIN Blocks /\ Height(h) <= Height(best)

BlockSummary(h, active) ==
    [hash |-> h, parent |-> Blocks[h].parent, height |-> Blocks[h].height,
     active |-> active, transactions |-> Len(Blocks[h].txs)]

\* A header the node does not have, or one below the fork, is not found.
NotFound(r, h) ==
    /\ ~Known(h)
    /\ Answer(r, None)

Summary(r) ==
    LET h == req[r].ask.hash
    IN  /\ req[r].pc = "block"
        /\ \/ NotFound(r, h)
           \/ /\ Known(h) /\ Height(h) <= Height(tip)
              /\ Assembled(r, BlockSummary(h, Branch[tip][Height(h)] = h))
        /\ UNCHANGED <<snapshot, gate, core>>

TransactionPage(h, ask) ==
    Page([t \in DOMAIN Blocks[h].txs |-> Blocks[h].txs[t].id], ask.cursor, ask.limit)

BlockTransactions(r) ==
    LET h == req[r].ask.hash
    IN  /\ req[r].pc = "txs"
        /\ \/ NotFound(r, h)
           \/ /\ Known(h) /\ Height(h) <= Height(tip)
              /\ Assembled(r, [active |-> Branch[tip][Height(h)] = h,
                               page |-> TransactionPage(h, req[r].ask)])
        /\ UNCHANGED <<snapshot, gate, core>>

\* block_page: from the cursor's height down; the hash of a height and whether
\* it is active are two calls.
PageStart(q) == IF q.ask.cursor = None THEN q.chain.blocks ELSE Height(q.ask.cursor)
PageHeight(q) == PageStart(q) - (Len(q.seen) - (q.step % 2))
PageFull(q) == PageHeight(q) < FirstHeight \/ Len(q.seen) = q.ask.limit

BlockPage(r) ==
    LET q == req[r]
        h == PageHeight(q)
    IN  /\ q.pc = "page"
        /\ q.ask.cursor # None => Known(q.ask.cursor)
        /\ \/ /\ q.step % 2 = 0 /\ ~PageFull(q) /\ h <= Height(tip)
              /\ Go(r, [seen |-> Append(q.seen, [hash |-> Branch[tip][h], active |-> FALSE]),
                        step |-> q.step + 1])
           \/ /\ q.step % 2 = 1 /\ Height(Last(q.seen).hash) <= Height(tip)
              /\ Go(r, [seen |-> Front(q.seen) \o
                           <<[hash |-> Last(q.seen).hash,
                              active |-> Branch[tip][Height(Last(q.seen).hash)]
                                            = Last(q.seen).hash]>>,
                        step |-> q.step + 1])
           \/ /\ q.step % 2 = 0 /\ PageFull(q) /\ h <= Height(tip)
              /\ Assembled(r, [tip |-> q.chain.blocks,
                               total |-> q.chain.blocks - FirstHeight + 1, items |-> q.seen,
                               next |-> IF h >= FirstHeight THEN Branch[tip][h] ELSE None])
        /\ UNCHANGED <<snapshot, gate, core>>

\* transaction_detail: where the transaction index has it, whether that block
\* is active, and from the address index who spends its outputs.
Detail(r) ==
    LET q == req[r]
        id == q.ask.txid
    IN  /\ q.pc = "detail"
        /\ \/ /\ id \notin DOMAIN located
              /\ Answer(r, None)
           \/ /\ id \in DOMAIN located
              /\ Go(r, [pc |-> "detail active", seen |-> <<located[id]>>])
        /\ UNCHANGED <<snapshot, gate, core>>

DetailActive(r) ==
    LET q == req[r]
        h == q.seen[1]
        active == Branch[tip][Height(h)] = h
    IN  /\ q.pc = "detail active" /\ Height(h) <= Height(tip)
        /\ IF active /\ WithIndex
           THEN Go(r, [pc |-> "snapshot"])
           ELSE Assembled(r, [block |-> h, active |-> active, spends |-> None])
        /\ UNCHANGED <<snapshot, gate, core>>

-----------------------------------------------------------------------------
(* Requests about addresses: with_address_index and refresh_address_index *)

AddressIndexMatchesTip(index, chain) ==
    index # None /\ index.tipHeight = chain.blocks /\ index.tip = chain.tip

AddressKinds == {"summary", "transactions", "utxos", "stats"}

WithAddressIndex(r) ==
    /\ req[r].pc \in AddressKinds
    /\ IF WithIndex THEN Go(r, [pc |-> "snapshot"]) /\ UNCHANGED <<snapshot, gate, core>>
                    ELSE Fail(r)

ReadSnapshot(r) ==
    /\ req[r].pc = "snapshot"
    /\ IF AddressIndexMatchesTip(snapshot, req[r].chain)
       THEN Go(r, [pc |-> "query", index |-> snapshot])
       ELSE Go(r, [pc |-> "gate"])
    /\ UNCHANGED <<snapshot, gate, core>>

\* One refresher at a time; another may have published while it waited.
Refresh(r) ==
    /\ req[r].pc = "gate" /\ gate = None
    /\ IF AddressIndexMatchesTip(snapshot, req[r].chain)
       THEN Go(r, [pc |-> "query", index |-> snapshot]) /\ UNCHANGED gate
       ELSE gate' = r /\ Go(r, [pc |-> "extend", index |-> snapshot])
    /\ UNCHANGED <<snapshot, core>>

\* can_extend: the published tip is still on the active chain at its height.
CanExtend(index, chain) ==
    /\ index # None
    /\ index.tipHeight < chain.blocks
    /\ index.tipHeight <= Height(tip)
    /\ Branch[tip][index.tipHeight] = index.tip

Extend(r) ==
    LET q == req[r]
    IN  /\ q.pc = "extend"
        /\ Go(r, [pc |-> "build",
                  index |-> IF CanExtend(q.index, q.chain) THEN q.index ELSE NewIndex])
        /\ UNCHANGED <<snapshot, gate, core>>

\* resolve_block_previous_outputs: an output the index and the earlier
\* transactions of the block do not have is an inherited one.
Resolve(index, block) ==
    LET OutputsOf(t) == {<<block.txs[t].id, v>> : v \in DOMAIN block.txs[t].outs}
        From(t, o) ==
            IF o \in DOMAIN index.created
            THEN [output |-> index.created[o], inherited |-> FALSE]
            ELSE [output |-> RawTransaction(o[1]).outs[o[2]],
                  inherited |-> \A s \in 1..(t - 1) : o \notin OutputsOf(s)]
        Spender(o) == CHOOSE t \in DOMAIN block.txs : o \in ToSet(Inputs(block.txs[t]))
    IN  [o \in UNION {ToSet(Inputs(block.txs[t])) : t \in DOMAIN block.txs} |->
            From(Spender(o), o)]

Resolvable(block) ==
    /\ \A t \in DOMAIN block.txs : Len(block.txs[t].ins) <= Limits.inputs
    /\ IsInjective(FlattenSeq([t \in DOMAIN block.txs |-> Inputs(block.txs[t])]))

IndexBlock(r) ==
    LET q == req[r]
        height == q.index.tipHeight + 1
        block == Blocks[Branch[tip][height]]
        previous == Resolve(q.index, block)
        next == AppendBlock(q.index, height, block, previous)
    IN  /\ q.pc = "build"
        /\ \/ /\ height > q.chain.blocks
              /\ Go(r, RequireSameTip("publish"))
              /\ UNCHANGED <<snapshot, gate, core>>
           \/ /\ height <= q.chain.blocks /\ height <= Height(tip)
              /\ IF /\ Resolvable(block)
                    /\ Appendable(q.index, height, block, previous)
                    /\ next.sound
                 THEN Go(r, [index |-> next]) /\ UNCHANGED <<snapshot, gate, core>>
                 ELSE Fail(r)

Publish(r) ==
    /\ req[r].pc = "publish"
    /\ snapshot' = req[r].index
    /\ gate' = None
    /\ Go(r, [pc |-> "query"])
    /\ UNCHANGED core

OutputSpends(index, id) ==
    [v \in DOMAIN RawTransaction(id).outs |-> Spend(index, <<id, v>>)]

\* The query runs on the snapshot; transaction_detail checks the tip once more.
Query(r) ==
    LET q == req[r]
        i == q.index
        reply ==
            CASE q.ask.kind = "summary" -> AddressSummary(i, q.ask.address)
              [] q.ask.kind = "transactions" ->
                    AddressTransactions(i, q.ask.address, q.ask.cursor, q.ask.limit)
              [] q.ask.kind = "utxos" ->
                    AddressUtxos(i, q.ask.address, q.ask.cursor, q.ask.limit)
              [] q.ask.kind = "stats" -> Stats(i)
              [] q.ask.kind = "detail" -> [block |-> q.seen[1], active |-> TRUE,
                                           spends |-> OutputSpends(i, q.ask.txid)]
    IN  /\ q.pc = "query"
        /\ Go(r, RequireSameTip(IF q.ask.kind = "detail" THEN "again" ELSE "respond")
                    @@ [reply |-> reply, index |-> None])
        /\ UNCHANGED <<snapshot, gate, core>>

Again(r) ==
    /\ req[r].pc = "again"
    /\ Go(r, RequireSameTip("respond"))
    /\ UNCHANGED <<snapshot, gate, core>>

-----------------------------------------------------------------------------

Init ==
    /\ node \in {n \in Setups : ManifestLoads(n.manifest)}
    /\ tip \in InitialTips
    /\ best = tip /\ txindex = tip
    /\ located = Locations([id \in {} |-> None], tip)
    /\ snapshot = None /\ gate = None
    /\ req = [r \in Requests |-> Idle]

Step(r) ==
    \/ \E ask \in Asks(r) : Ask(r, ask)
    \/ RpcError(r) \/ Finish(r)
    \/ ReadInfo(r) \/ ReadIndexes(r) \/ ReadHash(r)
    \/ ReadSameInfo(r) \/ ReadSameHash(r) \/ Respond(r)
    \/ Status(r) \/ ActiveBlockHash(r) \/ Summary(r) \/ BlockTransactions(r)
    \/ BlockPage(r) \/ Detail(r) \/ DetailActive(r)
    \/ WithAddressIndex(r) \/ ReadSnapshot(r) \/ Refresh(r) \/ Extend(r)
    \/ IndexBlock(r) \/ Publish(r) \/ Query(r) \/ Again(r)

Next ==
    \/ \E h \in DOMAIN Blocks : Announce(h) \/ Connect(h)
    \/ SyncTxIndex
    \/ \E r \in Requests : Step(r)

Spec == Init /\ [][Next]_vars

-----------------------------------------------------------------------------
(* What an answer means, from the branch of one tip *)

ForkBlocks(h) == {Branch[h][i] : i \in DOMAIN Branch[h]} \ {InheritedTip}
BranchTxs(h) == {<<b, t>> \in ForkBlocks(h) \X (1..9) : t \in DOMAIN Blocks[b].txs}
TxAt(p) == Blocks[p[1]].txs[p[2]]
CreatedOn(h) == UNION {{<<TxAt(p).id, v>> : v \in DOMAIN TxAt(p).outs} : p \in BranchTxs(h)}
SpentOn(h) == UNION {ToSet(Inputs(TxAt(p))) : p \in BranchTxs(h)}
OutputAt(o) == RawTransaction(o[1]).outs[o[2]]
Owned(S, a) == {o \in S : OutputAt(o).address = a}
Worth(S) == SumOf(S, LAMBDA o : OutputAt(o).value)

Touches(p, a) ==
    \/ \E o \in ToSet(Inputs(TxAt(p))) : OutputAt(o).address = a
    \/ \E v \in DOMAIN TxAt(p).outs : TxAt(p).outs[v].address = a
Touching(h, a) == {p \in BranchTxs(h) : Touches(p, a)}
HeightsOf(S) == {Blocks[p[1]].height : p \in S}
NewerFirst(p, q) ==
    \/ Blocks[p[1]].height > Blocks[q[1]].height
    \/ Blocks[p[1]].height = Blocks[q[1]].height /\ p[2] >= q[2]

SpenderOf(h, o) ==
    IF o \notin SpentOn(h) THEN None
    ELSE LET p == CHOOSE p \in BranchTxs(h) : o \in ToSet(Inputs(TxAt(p)))
         IN  [txid |-> TxAt(p).id, height |-> Blocks[p[1]].height,
              vin |-> CHOOSE i \in DOMAIN TxAt(p).ins : TxAt(p).ins[i] = o]

SummaryOn(h, a) ==
    LET funded == Owned(CreatedOn(h), a)
        spent == funded \cap SpentOn(h)
        inherited == Owned(SpentOn(h) \ CreatedOn(h), a)
        heights == HeightsOf(Touching(h, a))
    IN  [transactions |-> Cardinality(Touching(h, a)),
         funded |-> Cardinality(funded), fundedTotal |-> Worth(funded),
         spent |-> Cardinality(spent), spentTotal |-> Worth(spent),
         inherited |-> Cardinality(inherited), inheritedTotal |-> Worth(inherited),
         balance |-> Worth(funded \ spent),
         first |-> IF heights = {} THEN None ELSE Min(heights),
         last |-> IF heights = {} THEN None ELSE Max(heights)]

IdsOf(items) == [i \in DOMAIN items |-> items[i].txid]
OutpointsOf(items) == [i \in DOMAIN items |-> items[i].outpoint]

Describes(reply, ask, chain) ==
    LET h == chain.tip
    IN  CASE ask.kind = "status" -> reply.tip = h /\ reply.height = Height(h)
          [] ask.kind = "height" -> reply = Branch[h][ask.height]
          [] ask.kind = "block" -> reply = BlockSummary(ask.hash, OnBranch(h, ask.hash))
          [] ask.kind = "txs" -> reply.active = OnBranch(h, ask.hash)
          [] ask.kind = "page" ->
                /\ \A i \in DOMAIN reply.items :
                      reply.items[i].active /\ OnBranch(h, reply.items[i].hash)
                /\ \A i \in 2..Len(reply.items) :
                      Blocks[reply.items[i - 1].hash].parent = reply.items[i].hash
                /\ reply.next # None => OnBranch(h, reply.next)
          [] ask.kind = "detail" ->
                /\ reply.active = OnBranch(h, reply.block)
                /\ reply.spends # None =>
                      \A v \in DOMAIN reply.spends :
                         reply.spends[v] = SpenderOf(h, <<ask.txid, v>>)
          [] ask.kind = "summary" -> reply = SummaryOn(h, ask.address)
          [] ask.kind = "transactions" ->
                LET all == SetToSortSeq(Touching(h, ask.address), NewerFirst)
                IN  IdsOf(reply.items) =
                       Page([i \in DOMAIN all |-> TxAt(all[i]).id],
                            ask.cursor, ask.limit).items
          [] ask.kind = "utxos" ->
                /\ reply.total = Cardinality(Owned(CreatedOn(h) \ SpentOn(h), ask.address))
                /\ ToSet(OutpointsOf(reply.items))
                      \subseteq Owned(CreatedOn(h) \ SpentOn(h), ask.address)
          [] ask.kind = "stats" ->
                reply.tip = h /\ reply.outputs = Cardinality(CreatedOn(h))

\* Every answer that found something describes one branch, that of the tip the
\* request validated first, however the node's tip moved between its calls and
\* whichever request built the address index it was answered from: the active
\* flags, page chains, spends, histories and balances are those recomputed from
\* the blocks of that branch (require_same_tip, refresh_address_index).
AnswersDescribeOneBranch ==
    \A r \in Requests :
        LET q == req[r]
        IN  q.pc = "done" /\ q.reply # None => Describes(q.reply, q.ask, q.chain)
=============================================================================
