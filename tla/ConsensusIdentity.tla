------------------------- MODULE ConsensusIdentity -------------------------
(***************************************************************************)
(* Which identities may author a block of the successor chain              *)
(* (pohw-core/src/consensus_identity.rs): the snapshot input and the       *)
(* bundle computed from it, the policy and its activation manifest, and    *)
(* the authorization (P2IA1) a miner signs into a coinbase.  Encodings are *)
(* canonical, so a hash or a script is the record it encodes; a signature  *)
(* is the key and the term it signs.                                       *)
(***************************************************************************)
EXTENDS Integers, Sequences, SequencesExt, FiniteSets

-----------------------------------------------------------------------------
(***************************************************************************)
(* The hash trees of the program: transactions of a block, leaves of a     *)
(* score snapshot, authorizations of a consensus identity policy.  A hash  *)
(* is the term it was computed from, so two hashes are equal exactly when  *)
(* their preimages are.                                                    *)
(***************************************************************************)
Hash2(l, r) == <<"node", l, r>>

\* A level of odd length pairs its last node with itself.
NextLevel(level) ==
    [i \in 1..((Len(level) + 1) \div 2) |->
        Hash2(level[2 * i - 1], level[IF 2 * i <= Len(level) THEN 2 * i ELSE Len(level)])]

Level(leaves, k) == FoldLeft(LAMBDA level, i : NextLevel(level), leaves,
                             [i \in 1..k |-> i])

\* How often the loops over the levels run.
Height(leaves) ==
    CHOOSE k \in 0..Len(leaves) :
        /\ Len(Level(leaves, k)) = 1
        /\ \A j \in 0..(k - 1) : Len(Level(leaves, j)) > 1

MerkleRoot(leaves) == Level(leaves, Height(leaves))[1]

-----------------------------------------------------------------------------
(* Stratum: the branches a miner folds over its own coinbase. *)

\* coinbase_merkle_branches: the level begins with a placeholder for the
\* coinbase, whose sibling is the second node of every level.
MutCoinbaseBranches(txids) ==
    LET leaves == <<"coinbase">> \o txids
    IN  [k \in 1..Height(leaves) |-> Last(Level(leaves, k - 1))]
CoinbaseBranches(txids) ==
    LET leaves == <<"coinbase">> \o txids
    IN  [k \in 1..Height(leaves) |-> Level(leaves, k - 1)[2]]

FoldBranches(coinbase, branches) == FoldLeft(Hash2, coinbase, branches)

-----------------------------------------------------------------------------
(* Authorization proofs.  Indexes count from zero, as in the code. *)

\* build_authorization_root_and_proofs, for one leaf.
Siblings(leaves, index) ==
    [k \in 1..Height(leaves) |->
        LET level == Level(leaves, k - 1)
            at == index \div 2^(k - 1)
            sibling == IF at % 2 = 1 THEN at - 1
                       ELSE IF at + 1 < Len(level) THEN at + 1 ELSE at
        IN  level[sibling + 1]]

\* required_merkle_proof_depth: the shifts that bring count - 1 to zero.
RequiredDepth(count) ==
    CHOOSE d \in 0..count :
        /\ (count - 1) \div 2^d = 0
        /\ \A e \in 0..(d - 1) : (count - 1) \div 2^e # 0

\* The fold of a proof, with the bits of the index choosing the sides.
FoldProof(leaf, index, siblings) ==
    FoldLeft(LAMBDA hash, k : IF (index \div 2^(k - 1)) % 2 = 0
                              THEN Hash2(hash, siblings[k])
                              ELSE Hash2(siblings[k], hash),
             leaf, [k \in 1..Len(siblings) |-> k])

\* The index is used up by the fold.
ProofReaches(leaf, index, siblings, root) ==
    /\ index \div 2^Len(siblings) = 0
    /\ FoldProof(leaf, index, siblings) = root

-----------------------------------------------------------------------------
CONSTANTS
    MinConfirmations,     \* MIN_CONSENSUS_IDENTITY_FINALITY_CONFIRMATIONS
    MaxConfirmations,     \* MAX_CONSENSUS_IDENTITY_FINALITY_CONFIRMATIONS
    MaxSnapshotSeconds,   \* MAX_CONSENSUS_IDENTITY_SNAPSHOT_SECONDS
    MaxMiners,            \* MAX_CHECKPOINT_MINERS
    MaxDepth              \* MAX_CONSENSUS_IDENTITY_PROOF_DEPTH

\* IdenaStatus::is_block_eligible
Eligible(status) == status \in {"Newbie", "Verified", "Human"}

Sorted(S) == SetToSortSeq(S, <)

-----------------------------------------------------------------------------
(* Registrations, leaves and the snapshot input. *)

\* MinerRegistration::registry_commitment_hash
Commitment(r) == <<"registration", r.miner, r.owner, r.key>>

\* verify_mining_signature, verify_idena_ownership_signature and
\* require_registry_anchor of a registration.
RegistrationValid(r) == r.signed /\ r.owned /\ r.anchor.commitment = Commitment(r)

\* ConsensusIdentityLeafV1::from_registration
LeafOf(r, status) ==
    [owner |-> r.owner, status |-> status, key |-> r.key,
     commitment |-> r.anchor.commitment, sequence |-> r.anchor.sequence,
     block |-> r.anchor.block, epoch |-> r.anchor.epoch]

LeafValid(leaf) == Eligible(leaf.status) /\ leaf.sequence > 0 /\ leaf.block > 0

LeafMatches(leaf, r) == leaf = LeafOf(r, leaf.status)

LeafHash(leaf) == <<"leaf", leaf>>

\* The blocks of ConsensusIdentitySnapshotInputV1: the capture block and its
\* confirmations, linked, and before the next validation.
ChainValid(input) ==
    LET chain == input.chain
    IN  /\ input.confirmations \in MinConfirmations..MaxConfirmations
        /\ input.nextValidation > input.block.time
        /\ input.nextValidation - input.block.time <= MaxSnapshotSeconds
        /\ Len(chain) = input.confirmations + 1
        /\ chain[1] = input.block
        /\ \A i \in 1..Len(chain) : chain[i].time < input.nextValidation
        /\ \A i \in 2..Len(chain) :
              /\ chain[i].height = chain[i - 1].height + 1
              /\ chain[i].parent = chain[i - 1].hash
              /\ chain[i].time >= chain[i - 1].time

\* The registry part: the records cover the contract's index, and each one is
\* the latest record of its owner, already present at the capture block.
RegistryValid(input) ==
    /\ input.count <= MaxMiners
    /\ input.count = Len(input.miners)
    /\ Len(input.records) = input.count
    /\ \A i \in 1..input.count :
          LET record == input.records[i]
              r == record.registration
          IN  /\ r.miner = input.miners[i]
              /\ i > 1 => input.miners[i - 1] < r.miner
              /\ \A j \in 1..(i - 1) :
                    /\ input.records[j].owner # record.owner
                    /\ input.records[j].registration.key # r.key
              /\ r.owner = record.owner
              /\ RegistrationValid(r)
              /\ r.anchor.sequence = record.sequence
              /\ r.anchor.block <= input.block.height
              /\ r.anchor.time <= input.block.time
              /\ record.line = [miner |-> r.miner, anchor |-> r.anchor]
              /\ record.owner \in DOMAIN input.identities

\* ConsensusIdentitySnapshotInputV1::validate
InputValid(input) ==
    ChainValid(input) /\ DOMAIN input.identities # {} /\ RegistryValid(input)

-----------------------------------------------------------------------------
(* The bundle: the eligible leaves in the order of their owners. *)

EligibleRecords(input) ==
    {i \in 1..Len(input.records) : Eligible(input.identities[input.records[i].owner])}

\* The leaves of build_bundle.
Leaves(input) ==
    LET RecordOf(o) == CHOOSE i \in EligibleRecords(input) : input.records[i].owner = o
        owners == Sorted({input.records[i].owner : i \in EligibleRecords(input)})
    IN  [k \in 1..Len(owners) |->
            LeafOf(input.records[RecordOf(owners[k])].registration,
                   input.identities[owners[k]])]

\* build_authorization_root_and_proofs refuses an empty, oversized or
\* unordered set, and a key used twice.
Authorizable(leaves) ==
    /\ Len(leaves) \in 1..2^MaxDepth
    /\ \A i \in 1..Len(leaves) :
          /\ LeafValid(leaves[i])
          /\ i > 1 => leaves[i - 1].owner < leaves[i].owner
          /\ \A j \in 1..(i - 1) : leaves[j].key # leaves[i].key

LeafHashes(leaves) == [i \in 1..Len(leaves) |-> LeafHash(leaves[i])]

\* build_bundle
BundleOf(input) ==
    LET leaves == Leaves(input)
        hashes == LeafHashes(leaves)
    IN  [source |-> input, height |-> input.block.height, time |-> input.block.time,
         hash |-> input.block.hash, finality |-> Last(input.chain).height,
         confirmations |-> input.confirmations,
         nextValidation |-> input.nextValidation,
         root |-> MerkleRoot(hashes), count |-> Len(leaves),
         entries |-> [i \in 1..Len(leaves) |->
                        [leaf |-> leaves[i], index |-> i - 1,
                         siblings |-> Siblings(hashes, i - 1)]]]

\* ConsensusIdentitySnapshotBundleV1::validate
BundleValid(b) ==
    /\ b.confirmations \in MinConfirmations..MaxConfirmations
    /\ b.height + b.confirmations = b.finality
    /\ b.nextValidation > b.time /\ b.nextValidation - b.time <= MaxSnapshotSeconds
    /\ b.count = Len(b.entries) /\ b.count \in 1..MaxMiners
    /\ \A i \in 1..b.count :
          LET e == b.entries[i]
          IN  /\ LeafValid(e.leaf)
              /\ i > 1 => b.entries[i - 1].leaf.owner < e.leaf.owner
              /\ \A j \in 1..(i - 1) : b.entries[j].leaf.key # e.leaf.key
              /\ e.index = i - 1
              /\ Len(e.siblings) = RequiredDepth(b.count)
              /\ ProofReaches(LeafHash(e.leaf), e.index, e.siblings, b.root)

\* The whole of build_bundle succeeds.
Bundled(input) ==
    InputValid(input) /\ Authorizable(Leaves(input)) /\ BundleValid(BundleOf(input))

-----------------------------------------------------------------------------
(* Policy and activation manifest. *)

\* ConsensusIdentityPolicyV1::validate
PolicyValid(p) ==
    /\ p.height > 0
    /\ p.time > 0 /\ p.nextValidation > p.time
    /\ p.nextValidation - p.time <= MaxSnapshotSeconds
    /\ p.count \in 1..2^MaxDepth
    /\ p.activation > 0 /\ p.expiryHeight >= p.activation
    /\ p.expiryMtp > p.time /\ p.expiryMtp <= p.nextValidation
    /\ p.maxDepth <= MaxDepth
    /\ RequiredDepth(p.count) <= p.maxDepth
    /\ p.requireShareWork

PolicyHash(p) == <<"policy", p>>

\* validate_height and validate_block_window
HeightInWindow(p, height) == height >= p.activation /\ height <= p.expiryHeight

BlockInWindow(p, height, mtp) ==
    HeightInWindow(p, height) /\ mtp >= p.time /\ mtp < p.expiryMtp

\* ConsensusIdentityActivationManifestV1: validate, validate_for_launch and
\* validate_policy.  The activation id commits to every other field.
ActivationId(m) ==
    <<"activation", m.launch, m.predecessor, m.parentHeight, m.parentHash, m.policyHash>>

ManifestValid(m) == m.parentHeight > 0 /\ m.fresh /\ m.activationId = ActivationId(m)

Launchable(m) == ManifestValid(m) /\ m.launch

ManifestMatches(m, p) ==
    /\ ManifestValid(m) /\ PolicyValid(p)
    /\ m.policyHash = PolicyHash(p)
    /\ m.predecessor = p.fork
    /\ m.parentHeight + 1 = p.activation

-----------------------------------------------------------------------------
(* The authorization of one block. *)

\* validate_membership
MutMembershipValid(a, p) ==
    /\ PolicyValid(p) /\ LeafValid(a.leaf)
    /\ a.policyHash = PolicyHash(p)
    /\ Len(a.siblings) <= p.maxDepth
    /\ Len(a.siblings) = RequiredDepth(p.count)
    /\ ProofReaches(LeafHash(a.leaf), a.index, a.siblings, p.root)
MembershipValid(a, p) ==
    /\ PolicyValid(p) /\ LeafValid(a.leaf)
    /\ a.policyHash = PolicyHash(p)
    /\ Len(a.siblings) <= p.maxDepth
    /\ a.index < p.count
    /\ Len(a.siblings) = RequiredDepth(p.count)
    /\ ProofReaches(LeafHash(a.leaf), a.index, a.siblings, p.root)

\* ConsensusIdentityAuthorizationV1::unsigned
Unsigned(p, entry, none) ==
    [policyHash |-> PolicyHash(p), leaf |-> entry.leaf, index |-> entry.index,
     siblings |-> entry.siblings, signature |-> none]

TransactionSetHash(txids) == <<"txset", txids>>

\* coinbase_outputs_hash leaves the authorization itself out.
CoinbaseOutputsHash(outputs) ==
    <<"outputs", SelectSeq(outputs, LAMBDA o : o.kind # "P2IA1")>>

\* signing_hash; the median time is checked but not part of the message.
Signable(p, context) == BlockInWindow(p, context.height, context.mtp)

SigningHash(a, p, context) ==
    <<"authorize", context.activationId, PolicyHash(p), LeafHash(a.leaf), context.previous,
      context.height, context.version, context.bits, context.txset, context.outputs>>

\* sign: only with the key of the leaf.
MaySign(a, p, context, key) ==
    MembershipValid(a, p) /\ key = a.leaf.key /\ Signable(p, context)

Signed(a, p, context, key) ==
    [a EXCEPT !.signature = [key |-> key, over |-> SigningHash(a, p, context)]]

\* verify
AuthorizationVerifies(a, p, context) ==
    /\ MembershipValid(a, p)
    /\ Signable(p, context)
    /\ a.signature = [key |-> a.leaf.key, over |-> SigningHash(a, p, context)]
=============================================================================
