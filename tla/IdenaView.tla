----------------------------- MODULE IdenaView -----------------------------
(***************************************************************************)
(* What the program reads from a local Idena node.  The node answers one   *)
(* call at a time from the head it has then, and the chain grows or is     *)
(* reorganised between two calls.  Three clients read it:                  *)
(*   capture   the consensus identity snapshot                             *)
(*             (idena-lite-indexer/src/consensus_identity_snapshot.rs),    *)
(*   snapshot  the score snapshot (snapshot_builder.rs),                   *)
(*   anchor    the Idena anchor of new work (idena_anchor_verifier.rs).    *)
(* One client runs in a behaviour.  Every call is a step of its own; a     *)
(* call may also fail, which ends the client.                              *)
(***************************************************************************)
EXTENDS ConsensusIdentity, FiniteSetsExt

CONSTANTS
    Miners,           \* miner ids, numbers
    Statuses,         \* identity states that occur
    Attempts,         \* *_STABILITY_ATTEMPTS
    Confirmations,    \* finality_confirmations of the capture and of the policy
    MaxAge,           \* max_anchor_age_blocks
    ActivationHeight, \* activation_idena_height
    EpochLength,      \* time between two validations
    StartHeight, MaxHeight, MaxReorg, MaxReorgs, MaxChanges,
    TimeoutBlocks,    \* blocks that fit into the timeouts of one anchor request
    Delegatee,        \* the pool each owner delegates to, or None
    Score,            \* the replayed reward score of each owner
    None

VARIABLES
    chain,     \* the blocks of the node, by height
    minted,    \* block hashes used so far
    reorgs,    \* reorganisations so far
    client,    \* which client runs
    file,      \* the registrations the capture or the miner was given
    pc,        \* the call the client makes next
    view,      \* what it has read
    result,    \* what it produced
    issued     \* the anchors given to work templates

vars == <<chain, minted, reorgs, client, file, pc, view, result, issued>>
world == <<chain, minted, reorgs>>

-----------------------------------------------------------------------------
(* The chain: external, as its RPC shows it. *)

Top == Last(chain)
OwnerOf(m) == 10 - m
Owners == {OwnerOf(m) : m \in Miners}

NextValidation(epoch) == (epoch + 1) * EpochLength

\* The records a miner's owner has in the registry contract, oldest first.
Registration(m, anchor) ==
    [miner |-> m, owner |-> OwnerOf(m), key |-> 10 * m + anchor.sequence,
     signed |-> TRUE, owned |-> TRUE, anchor |-> anchor]

AnchorFor(m, sequence, height, time, epoch) ==
    [sequence |-> sequence, block |-> height, time |-> time, epoch |-> epoch,
     commitment |-> <<"registration", m, OwnerOf(m), 10 * m + sequence>>]

Changes == {[kind |-> "none"]}
    \cup {[kind |-> "status", owner |-> o, status |-> s] : o \in Owners, s \in Statuses}
    \cup {[kind |-> "register", miner |-> m] : m \in Miners}

Child(parent, hash, change) ==
    LET height == parent.height + 1
        time == parent.time + 1
        epoch == IF time >= NextValidation(parent.epoch) THEN parent.epoch + 1
                                                         ELSE parent.epoch
    IN  [height |-> height, hash |-> hash, parent |-> parent.hash, time |-> time,
         epoch |-> epoch,
         identities |-> IF change.kind = "status"
                        THEN [parent.identities EXCEPT ![change.owner] = change.status]
                        ELSE parent.identities,
         registry |->
            IF change.kind = "register"
            THEN [parent.registry EXCEPT ![change.miner] =
                    Append(@, AnchorFor(change.miner, Len(@) + 1, height, time, epoch))]
            ELSE parent.registry]

Genesis ==
    [height |-> 1, hash |-> 0, parent |-> 0, time |-> 1, epoch |-> 0,
     identities |-> [o \in Owners |-> "Human"],
     registry |-> [m \in Miners |-> <<AnchorFor(m, 1, 1, 1, 0)>>]]

\* BlockResponse; the identity root stands for the identities it commits to.
BlockData(b) == [height |-> b.height, hash |-> b.hash, parent |-> b.parent,
                 time |-> b.time, identityRoot |-> b.identities]

Registered(b) == {m \in Miners : b.registry[m] # <<>>}

Changed == Cardinality({i \in 2..Len(chain) :
              \/ chain[i].identities # chain[i - 1].identities
              \/ chain[i].registry # chain[i - 1].registry})

Mine(change) ==
    /\ Len(chain) < MaxHeight
    /\ change.kind # "none" => Changed < MaxChanges
    /\ client = "anchor" /\ pc # "start" => view.grown < TimeoutBlocks
    /\ chain' = Append(chain, Child(Top, minted + 1, change))
    /\ minted' = minted + 1
    /\ view' = IF client = "anchor" /\ pc # "start"
               THEN [view EXCEPT !.grown = @ + 1] ELSE view
    /\ UNCHANGED <<reorgs, client, file, pc, result, issued>>

\* The last blocks are replaced by as many others.
Reorg(depth, change) ==
    /\ reorgs < MaxReorgs
    /\ depth < Len(chain)
    /\ LET kept == SubSeq(chain, 1, Len(chain) - depth)
           first == Child(Last(kept), minted + 1, change)
       IN  chain' = FoldLeft(
               LAMBDA c, i : Append(c, Child(Last(c), minted + i, [kind |-> "none"])),
               Append(kept, first), [i \in 1..(depth - 1) |-> i + 1])
    /\ minted' = minted + depth
    /\ reorgs' = reorgs + 1
    /\ UNCHANGED <<client, file, pc, view, result, issued>>

-----------------------------------------------------------------------------
(* The clients.  Goto leaves the world alone. *)

Goto(here, there) == pc = here /\ pc' = there /\ UNCHANGED <<world, client, file, issued>>

NoView == [attempt |-> 1, grown |-> 0, index |-> 1, height |-> 0, block |-> None,
           epoch |-> None, identities |-> None, count |-> 0, miners |-> <<>>,
           records |-> <<>>, deployed |-> FALSE, owner |-> 0, sequence |-> 0, chain |-> <<>>]

Fail == pc' = "failed" /\ UNCHANGED <<world, client, file, view, result, issued>>

\* A node that is syncing, a clock that is off, an RPC error or a timeout.
CallFails == pc \notin {"start", "done", "failed"} /\ Fail

\* The registrations are exported some time before they are used.
ExportRegistrations ==
    /\ client # "snapshot" /\ pc = "start"
    /\ file' = [m \in Registered(Top) |-> Registration(m, Last(Top.registry[m]))]
    /\ UNCHANGED <<world, client, pc, view, result, issued>>

\* One attempt after another; every one starts with the sync state.
ReadSync(first) ==
    /\ Goto("start", first)
    /\ view' = [NoView EXCEPT !.attempt = view.attempt, !.height = Len(chain)]
    /\ UNCHANGED result

BeginCapture == client = "capture" /\ file # None /\ ReadSync("block")

BeginSnapshot == client = "snapshot" /\ ReadSync("block")

\* read_block and read_snapshot_block at the height just read
ReadBlock ==
    /\ Goto("block", IF client = "capture" THEN "epoch" ELSE "identities")
    /\ view' = [view EXCEPT !.block = BlockData(chain[view.height])]
    /\ UNCHANGED result

EpochNow == [epoch |-> Top.epoch, nextValidation |-> NextValidation(Top.epoch)]

ReadEpoch ==
    /\ Goto("epoch", "identities")
    /\ view' = [view EXCEPT !.epoch = EpochNow]
    /\ UNCHANGED result

ReadIdentities ==
    /\ Goto("identities", IF client = "capture" THEN "count" ELSE "resync")
    /\ view' = [view EXCEPT !.identities = Top.identities]
    /\ UNCHANGED result

-----------------------------------------------------------------------------
(* read_registry: the count, the index and the records of every miner. *)

ReadCount ==
    /\ Goto("count", "miners")
    /\ view' = [view EXCEPT !.count = Cardinality(Registered(Top))]
    /\ UNCHANGED result

\* An index that differs from the count or from the file ends the capture.
ReadMiners ==
    /\ pc = "miners"
    /\ LET miners == Sorted(Registered(Top))
       IN  IF view.count = Len(miners) /\ DOMAIN file = Registered(Top)
           THEN /\ Goto("miners", IF miners = <<>> THEN "resync" ELSE "owner")
                /\ view' = [view EXCEPT !.miners = miners]
                /\ UNCHANGED result
           ELSE Fail

ReadOwner ==
    /\ pc = "owner"
    /\ IF OwnerOf(view.miners[view.index]) = file[view.miners[view.index]].owner
       THEN /\ Goto("owner", "sequence")
            /\ view' = [view EXCEPT !.owner = OwnerOf(view.miners[view.index])]
            /\ UNCHANGED result
       ELSE Fail

ReadSequence ==
    /\ pc = "sequence"
    /\ LET sequence == Len(Top.registry[view.miners[view.index]])
       IN  IF sequence > 0
           THEN /\ Goto("sequence", "record")
                /\ view' = [view EXCEPT !.sequence = sequence]
                /\ UNCHANGED result
           ELSE Fail

\* The record may be gone again when it is read: an empty answer.
ReadRecord ==
    /\ pc = "record"
    /\ LET m == view.miners[view.index]
           anchors == Top.registry[m]
       IN  IF view.sequence <= Len(anchors)
           THEN /\ Goto("record", IF view.index < Len(view.miners) THEN "owner" ELSE "resync")
                /\ view' = [view EXCEPT
                      !.records = Append(@, [owner |-> view.owner,
                                             sequence |-> view.sequence,
                                             line |-> [miner |-> m,
                                                       anchor |-> anchors[view.sequence]],
                                             registration |-> file[m]]),
                      !.index = @ + 1]
                /\ UNCHANGED result
           ELSE Fail

-----------------------------------------------------------------------------
(* The second look at the head. *)

Again == IF view.attempt < Attempts
         THEN /\ Goto(pc, "start")
              /\ view' = [NoView EXCEPT !.attempt = view.attempt + 1]
              /\ UNCHANGED result
         ELSE Fail

RereadSync ==
    /\ pc = "resync"
    /\ IF Len(chain) = view.height
       THEN Goto("resync", "reblock") /\ UNCHANGED <<view, result>>
       ELSE Again

\* same_block and same_snapshot_head
MutSameBlock(a, b) == a.height = b.height
SameBlock(a, b) == a = b

\* effective_idena_address: an eligible identity counts for its pool.
EffectiveAddress(identities, o) ==
    IF Eligible(identities[o]) /\ Delegatee[o] # None THEN Delegatee[o] ELSE o

\* status_rank and stronger_status
StatusRank(s) == CASE s = "Human" -> 3 [] s = "Verified" -> 2 [] s = "Newbie" -> 1
                   [] OTHER -> 0

StrongestStatus(identities, merged) ==
    LET best == CHOOSE o \in merged : \A p \in merged :
                    \/ StatusRank(identities[p]) < StatusRank(identities[o])
                    \/ StatusRank(identities[p]) = StatusRank(identities[o]) /\ o <= p
    IN  identities[best]

\* snapshot_from_rpc: one leaf for every effective address.
SnapshotLeaves(identities) ==
    [a \in {EffectiveAddress(identities, o) : o \in DOMAIN identities} |->
        LET merged == {o \in DOMAIN identities : EffectiveAddress(identities, o) = a}
        IN  [status |-> StrongestStatus(identities, merged),
             score |-> MapThenSumSet(LAMBDA o : Score[o], merged)]]

SnapshotOf(v) == [block |-> v.block, leaves |-> SnapshotLeaves(v.identities)]

RereadBlock ==
    /\ pc = "reblock"
    /\ LET same == SameBlock(view.block, BlockData(chain[view.height]))
       IN  CASE client = "capture" -> Goto("reblock", "reepoch")
                                      /\ view' = [view EXCEPT !.grown = IF same THEN 0 ELSE 1]
                                      /\ UNCHANGED result
             [] client # "capture" /\ same -> Goto("reblock", "done")
                                              /\ result' = SnapshotOf(view)
                                              /\ UNCHANGED view
             [] OTHER -> Again

RereadEpoch ==
    /\ pc = "reepoch"
    /\ IF view.grown = 0 /\ view.epoch = EpochNow
       THEN Goto("reepoch", "wait") /\ UNCHANGED <<view, result>>
       ELSE Again

-----------------------------------------------------------------------------
(* The confirmations of the capture. *)

TargetHeight == view.height + Confirmations

WaitForHeight ==
    /\ Len(chain) >= TargetHeight
    /\ Goto("wait", "chain")
    /\ UNCHANGED <<view, result>>

ReadChain ==
    /\ pc = "chain"
    /\ LET height == view.height + Len(view.chain)
           read == [view EXCEPT !.chain = Append(@, BlockData(chain[height]))]
       IN  IF height <= Len(chain)
           THEN /\ Goto("chain", IF height = TargetHeight THEN "finish" ELSE "chain")
                /\ view' = read
                /\ UNCHANGED result
           ELSE Fail

InputOf(v) ==
    [block |-> v.block, chain |-> v.chain, confirmations |-> Confirmations,
     epoch |-> v.epoch.epoch, nextValidation |-> v.epoch.nextValidation,
     identities |-> v.identities, count |-> v.count, miners |-> v.miners,
     records |-> v.records]

\* The input is written only when it is valid.
FinishCapture ==
    /\ pc = "finish"
    /\ IF view.chain[1] = view.block /\ InputValid(InputOf(view))
       THEN /\ Goto("finish", "done")
            /\ result' = InputOf(view)
            /\ view' = NoView
       ELSE Fail

-----------------------------------------------------------------------------
(* fresh_finalized_anchor.  The deployment of the registry is verified once. *)

DeploymentHeight == 1

FinalizedHeight(current) == current - Confirmations

VerifyDeployment ==
    /\ client = "anchor" /\ pc = "start" /\ ~view.deployed
    /\ IF DeploymentHeight < ActivationHeight
          /\ DeploymentHeight <= FinalizedHeight(Len(chain))
       THEN /\ view' = [view EXCEPT !.deployed = TRUE]
            /\ UNCHANGED <<world, client, file, pc, result, issued>>
       ELSE Fail

\* The calls of verify_registration, with validate_registry_anchor.
RecordVerifies(r) ==
    /\ r.anchor.block >= ActivationHeight
    /\ RegistrationValid(r)
    /\ r.anchor.sequence <= Len(Top.registry[r.miner])
    /\ Top.registry[r.miner][r.anchor.sequence] = r.anchor

IdentityEligible(r) == Eligible(Top.identities[r.owner])

VerifyRecord ==
    /\ client = "anchor" /\ pc = "start" /\ view.deployed /\ file # None
    /\ \E m \in DOMAIN file :
          IF RecordVerifies(file[m])
          THEN /\ Goto("start", "eligible")
               /\ view' = [NoView EXCEPT !.deployed = TRUE, !.owner = m]
               /\ UNCHANGED result
          ELSE Fail

VerifyEligible ==
    /\ pc = "eligible"
    /\ IF IdentityEligible(file[view.owner])
       THEN Goto("eligible", "height") /\ UNCHANGED <<view, result>>
       ELSE Fail

ReadHeight ==
    /\ pc = "height"
    /\ IF FinalizedHeight(Len(chain)) > 0
       THEN /\ Goto("height", "anchor")
            /\ view' = [view EXCEPT !.height = Len(chain)]
            /\ UNCHANGED result
       ELSE Fail

\* validate_finalized_block_anchor and validate_live_block_anchor
AnchorFinal(anchor, current) ==
    /\ anchor.height > 0
    /\ anchor.height <= FinalizedHeight(current)
    /\ anchor.height >= ActivationHeight

AnchorLive(anchor, current) ==
    AnchorFinal(anchor, current) /\ FinalizedHeight(current) - anchor.height <= MaxAge

\* Only a final registration gets an anchor.
MutAnchorable(r, anchor, current) == AnchorLive(anchor, current)
Anchorable(r, anchor, current) ==
    AnchorLive(anchor, current) /\ r.anchor.block <= FinalizedHeight(current)

ReadAnchor ==
    /\ pc = "anchor"
    /\ LET block == chain[FinalizedHeight(view.height)]
           anchor == [height |-> block.height, hash |-> block.hash]
           r == file[view.owner]
       IN  IF Anchorable(r, anchor, view.height)
           THEN /\ pc' = "start"
                /\ issued' = issued \cup {[registration |-> r, anchor |-> anchor]}
                /\ view' = [NoView EXCEPT !.deployed = TRUE]
                /\ UNCHANGED <<world, client, file, result>>
           ELSE Fail

\* verify_template, with every call answered from the present head.
TemplateVerifies(r, anchor, fresh) ==
    /\ RecordVerifies(r)
    /\ fresh => IdentityEligible(r)
    /\ IF fresh THEN AnchorLive(anchor, Len(chain)) ELSE AnchorFinal(anchor, Len(chain))
    /\ anchor.height >= r.anchor.block
    /\ chain[anchor.height].hash = anchor.hash

-----------------------------------------------------------------------------
Init ==
    /\ chain = FoldLeft(LAMBDA c, i : Append(c, Child(Last(c), i, [kind |-> "none"])),
                        <<Genesis>>, [i \in 1..(StartHeight - 1) |-> i])
    /\ minted = StartHeight - 1
    /\ reorgs = 0
    /\ client \in {"capture", "snapshot", "anchor"}
    /\ file = None
    /\ pc = "start"
    /\ view = NoView
    /\ result = None
    /\ issued = {}

Next ==
    \/ \E change \in Changes : Mine(change)
    \/ \E depth \in 1..MaxReorg, change \in Changes : Reorg(depth, change)
    \/ CallFails \/ ExportRegistrations
    \/ BeginCapture \/ BeginSnapshot \/ ReadBlock \/ ReadEpoch \/ ReadIdentities
    \/ ReadCount \/ ReadMiners \/ ReadOwner \/ ReadSequence \/ ReadRecord
    \/ RereadSync \/ RereadBlock \/ RereadEpoch
    \/ WaitForHeight \/ ReadChain \/ FinishCapture
    \/ VerifyDeployment \/ VerifyRecord \/ VerifyEligible \/ ReadHeight \/ ReadAnchor

Spec == Init /\ [][Next]_vars

-----------------------------------------------------------------------------
\* The registry records of a block, in the order of the miners.
RecordsAt(b) ==
    LET miners == Sorted(Registered(b))
    IN  [k \in 1..Len(miners) |->
            LET anchor == Last(b.registry[miners[k]])
            IN  [owner |-> OwnerOf(miners[k]), sequence |-> anchor.sequence,
                 line |-> [miner |-> miners[k], anchor |-> anchor],
                 registration |-> Registration(miners[k], anchor)]]

\* A capture or a snapshot takes many calls and still describes one block: the
\* identities, the epoch and the registry records are those of the block it
\* names, and the bundle of a capture holds exactly the owners that block has
\* as eligible (stable_capture, build_current_snapshot, build_bundle).
CapturesOneBlock ==
    pc = "done" =>
        IF client = "snapshot"
        THEN result.leaves = SnapshotLeaves(result.block.identityRoot)
        ELSE LET b == chain[result.block.height]
                 eligible == {OwnerOf(m) : m \in {n \in Registered(b) :
                                                    Eligible(b.identities[OwnerOf(n)])}}
             IN  /\ result.identities = b.identities
                 /\ result.epoch = b.epoch
                 /\ result.records = RecordsAt(b)
                 /\ Bundled(result) <=> eligible # {}
                 /\ eligible # {} =>
                      {e.leaf.owner : e \in Range(BundleOf(result).entries)} = eligible

\* While reorganisations stay below the confirmations, what was issued stays
\* true: the block of a capture remains on the chain, and work anchored by
\* fresh_finalized_anchor passes the historical verification of every later
\* node (wait_for_height, fresh_finalized_anchor, verify_template).
IssuedStaysFinal ==
    /\ client = "capture" /\ pc = "done" =>
          result.block = BlockData(chain[result.block.height])
    /\ \A work \in issued : TemplateVerifies(work.registration, work.anchor, FALSE)

\* A proof authorizes one leaf at one place of the tree: no entry of the bundle
\* passes at another index or with the siblings of another entry, and none of
\* them fails at its own (validate_membership).
PolicyFor(b) ==
    [fork |-> "fork", height |-> b.height, time |-> b.time,
     nextValidation |-> b.nextValidation, root |-> b.root, count |-> b.count,
     activation |-> 1, expiryHeight |-> 1, expiryMtp |-> b.nextValidation,
     maxDepth |-> MaxDepth, requireShareWork |-> TRUE]

MembershipIsExact ==
    client = "capture" /\ pc = "done" /\ Bundled(result) =>
        LET b == BundleOf(result)
            p == PolicyFor(b)
        IN  \A i, j \in 1..b.count, index \in 0..(2^MaxDepth) :
               MembershipValid([Unsigned(p, b.entries[i], None)
                                   EXCEPT !.index = index,
                                          !.siblings = b.entries[j].siblings], p)
               <=> i = j /\ index = b.entries[i].index

\* What a node takes from its Idena node: one block, exact membership, final anchors.
ViewSound == CapturesOneBlock /\ MembershipIsExact /\ IssuedStaysFinal
=============================================================================
