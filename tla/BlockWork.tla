----------------------------- MODULE BlockWork -----------------------------
(***************************************************************************)
(* From a block template of Bitcoin Core to a submitted block              *)
(* (p2pool-node/src/mining_adapter.rs): the coinbase with its payouts and  *)
(* commitments, the job handed to the miners, the header and the share a   *)
(* submission is turned into, the candidate kept in a file, and the manual *)
(* submission of such a file by a node that may have been restarted with   *)
(* another configuration.  A block hash stands for the height and the      *)
(* median time it gives its child.                                         *)
(***************************************************************************)
EXTENDS ConsensusIdentity

-----------------------------------------------------------------------------
(***************************************************************************)
(* The signed objects of mining: work templates, shares and the share-work *)
(* commitment (P2SW1) inside a coinbase (pohw-core/src/sharechain.rs,      *)
(* share_work.rs), and the payout commitment (POHW1) of commitment.rs.     *)
(* Every hash is over a canonical encoding of all the fields listed, so a  *)
(* hash is the tuple of those fields; a signature is the key and what it   *)
(* signs.  A header is [version, previous, root, time, bits, nonce]; the   *)
(* value of its hash, which only proof of work looks at, is its nonce.     *)
(***************************************************************************)
CONSTANTS
    None,             \* an absent optional field
    MaxTarget         \* max_share_target_bytes

Sign(key, message) == [key |-> key, over |-> message]

\* verify_mining_signature
SignatureOf(key, message, signature) == signature = Sign(key, message)

\* The first 76 bytes of a header.
Prefix(header) ==
    [version |-> header.version, previous |-> header.previous, root |-> header.root,
     time |-> header.time, bits |-> header.bits]

HeaderHash(header) == <<"header", header>>
HashValue(header) == header.nonce

\* validate_share_target_hex
TargetValid(target) == target > 0 /\ target <= MaxTarget

\* share_score_from_target: the difficulty of the target.
ShareScore(target) == MaxTarget \div target

-----------------------------------------------------------------------------
(* Registrations *)

\* validate_registry_anchor
RegistryAnchorValid(r) ==
    \/ r.version = 1 /\ r.anchor = None
    \/ r.version = 2 /\ r.anchor # None /\ r.anchor.commitment = Commitment(r)

RegistrationHash(r) ==
    <<"registration", r.version, r.miner, r.owner, r.script, r.claim, r.key, r.anchor>>

\* attach_registry_anchor
AnchorAttachable(r, anchor) == anchor.commitment = Commitment(r)
WithAnchor(r, anchor) == [r EXCEPT !.version = 2, !.anchor = anchor]

RegistrationVerifies(r) ==
    RegistryAnchorValid(r) /\ SignatureOf(r.key, RegistrationHash(r), r.signature)

\* verify_idena_ownership_signature: the address the signature recovers to.
OwnershipVerifies(r) == r.ownership = Sign(r.owner, RegistrationHash(r))

-----------------------------------------------------------------------------
(* BitcoinWorkTemplate: version 1 is bound to nothing, version 2 to a share  *)
(* target and version 3 to an Idena anchor as well.                          *)

TemplateHash(version, prefix, target, anchor, policyHash) ==
    CASE version = 1 -> <<"template1", prefix>>
      [] version = 2 -> <<"template2", prefix, target>>
      [] version = 3 -> <<"template3", prefix, target, anchor, policyHash>>

\* from_bitcoin_header_hex_with_share_target(_and_idena_anchor)
UnsignedTemplate(miner, header, target, anchor, policyHash, created) ==
    LET version == IF anchor = None THEN 2 ELSE 3
    IN  [version |-> version, miner |-> miner, prefix |-> Prefix(header),
         target |-> target, anchor |-> anchor, policyHash |-> policyHash,
         created |-> created,
         hash |-> TemplateHash(version, Prefix(header), target, anchor, policyHash)]

TemplateSigningHash(t) ==
    <<"work template", t.version, t.miner, t.prefix, t.hash, t.target, t.anchor,
      t.policyHash, t.created>>

SignedTemplate(t, key) == t @@ [signature |-> Sign(key, TemplateSigningHash(t))]

\* verify_template_hash: the fields a version may and must carry.
TemplateHashVerifies(t) ==
    /\ t.version = 1 => t.target = None /\ t.anchor = None /\ t.policyHash = None
    /\ t.version = 2 => t.target # None /\ t.anchor = None /\ t.policyHash = None
    /\ t.version = 3 => t.target # None /\ t.anchor # None /\ t.policyHash # None
    /\ t.target # None => TargetValid(t.target)
    /\ t.hash = TemplateHash(t.version, t.prefix, t.target, t.anchor, t.policyHash)

TemplateVerifies(t, key) ==
    /\ TemplateHashVerifies(t)
    /\ SignatureOf(key, TemplateSigningHash(t), t.signature)

AssignedTargetVerifies(t, target) ==
    TemplateHashVerifies(t) /\ (t.version = 1 \/ t.target = target)

-----------------------------------------------------------------------------
(* ShareWorkBindingV1.  The coinbase and its branches are the evidence, not  *)
(* part of what is committed to.                                             *)

BindingHash(b) ==
    <<"share work", b.policyHash, b.miner, b.target, b.parent, b.snapshot, b.snapshotRoot,
      b.anchor, b.anchorPolicyHash>>

BindingOutput(b) == [kind |-> "P2SW1", amount |-> 0, data |-> BindingHash(b)]

\* ShareWorkBindingPolicyV1::commitment_hash and verify_policy
BindingPolicyHash(policy) == <<"share work policy", policy>>
BindingPolicyVerifies(b, policy) == b.policyHash = BindingPolicyHash(policy)

\* ShareWorkActivationManifestV1: the id commits to the other fields, and a
\* launch needs a manifest that says so.
ShareWorkActivationId(m) ==
    <<"share work activation", m.launch, m.fork, m.policyHash, m.parentHeight>>
ShareWorkManifestValid(m) == m.activationId = ShareWorkActivationId(m)
ShareWorkLaunchable(m) == ShareWorkManifestValid(m) /\ m.launch

\* The identifier of a coinbase; its witness is not part of it.
TxidOf(coinbase) == <<"coinbase", coinbase.height, coinbase.extranonce, coinbase.outputs>>

\* verify_header_commitment
HeaderCommits(b, header) ==
    LET committed == {i \in 1..Len(b.coinbase.outputs) :
                        b.coinbase.outputs[i].kind = "P2SW1"}
    IN  /\ TargetValid(b.target)
        /\ Cardinality(committed) = 1
        /\ \A i \in committed : b.coinbase.outputs[i] = BindingOutput(b)
        /\ FoldBranches(TxidOf(b.coinbase), b.branches) = header.root

-----------------------------------------------------------------------------
(* Share *)

ShareSigningHash(s) ==
    <<"share", s.miner, s.header, s.template, s.nonce, s.hash, s.target, s.snapshot,
      s.snapshotRoot, s.score, s.parent, s.binding>>

SignedShare(s, key) == s @@ [signature |-> Sign(key, ShareSigningHash(s))]

\* verify_nonce_binding and verify_work_score
WorkVerifies(s) ==
    /\ s.nonce = s.header.nonce
    /\ s.hash = HeaderHash(s.header)
    /\ TargetValid(s.target)
    /\ HashValue(s.header) <= s.target
    /\ s.score = ShareScore(s.target)

\* verify_bitcoin_header_binding, for a share whose template is not known.
LegacyHeaderBinding(s) ==
    \/ s.template = TemplateHash(1, Prefix(s.header), None, None, None)
    \/ s.template = TemplateHash(2, Prefix(s.header), s.target, None, None)

\* verify_present_work_binding_fields
BindingFieldsVerify(s) ==
    s.binding # None =>
        /\ s.binding.miner = s.miner
        /\ s.binding.target = s.target
        /\ s.binding.parent = s.parent
        /\ s.binding.snapshot = s.snapshot
        /\ s.binding.snapshotRoot = s.snapshotRoot
        /\ HeaderCommits(s.binding, s.header)

\* verify_present_work_binding_for_template
BindingVerifies(s, t) ==
    /\ BindingFieldsVerify(s)
    /\ s.binding # None =>
          /\ t.anchor # None /\ s.binding.anchor = t.anchor
          /\ t.policyHash # None /\ s.binding.anchorPolicyHash = t.policyHash

\* verify_required_work_binding
RequiredBindingVerifies(s, t, policy) ==
    /\ BindingVerifies(s, t)
    /\ s.binding # None /\ BindingPolicyVerifies(s.binding, policy)

\* verify_mining_signature, without the template
ShareVerifies(s, key) ==
    /\ s.score > 0
    /\ LegacyHeaderBinding(s)
    /\ WorkVerifies(s)
    /\ BindingFieldsVerify(s)
    /\ SignatureOf(key, ShareSigningHash(s), s.signature)

\* verify_mining_signature_for_template
ShareVerifiesForTemplate(s, t, key) ==
    /\ s.score > 0
    /\ TemplateHashVerifies(t)
    /\ s.template = t.hash
    /\ Prefix(s.header) = t.prefix
    /\ AssignedTargetVerifies(t, s.target)
    /\ WorkVerifies(s)
    /\ BindingVerifies(s, t)
    /\ SignatureOf(key, ShareSigningHash(s), s.signature)

-----------------------------------------------------------------------------
(* commitment.rs: the payout commitment of a block. *)

PayoutCommitmentOutput(c) == [kind |-> "POHW1", amount |-> 0, data |-> <<"POHW1", c>>]

\* validate_commitment_identity, against a leaf of the snapshot.
CommitmentIdentityValid(c, leaf) == c.owner = leaf.owner /\ Eligible(leaf.status)

\* validate_pohw_commitment; the state root is compared when one is expected.
CommitmentValid(c, leaf, expected) ==
    /\ CommitmentIdentityValid(c, leaf)
    /\ c.snapshot = expected.snapshot
    /\ c.scoreRoot = expected.scoreRoot
    /\ c.proofRoot = expected.proofRoot
    /\ c.tip = expected.tip
    /\ expected.stateRoot # None => c.stateRoot = expected.stateRoot
    /\ c.payoutRoot = expected.payoutRoot
    /\ c.vaultEpoch = expected.vaultEpoch
    /\ c.vaultKey = expected.vaultKey

-----------------------------------------------------------------------------
CONSTANTS
    Miner,                  \* the miner of the node
    ShareTarget, BlockTarget,   \* hash values a share and a block may reach
    ChainPolicy, Activation,    \* the identity policy Core enforces
    Configurations,         \* what the node may be started with
    StaticSchedule,         \* the schedule of a static configuration
    TxSets,                 \* what a template may contain
    Values,                 \* the coinbase values of the templates
    Extranonces, Nonces,
    Anchors,                \* the Idena anchors a template may be bound to
    MaxHeight, MaxTip, MaxFiles \* bounds: blocks, share tips and stored candidates

VARIABLES
    material,     \* the newest template of Core
    required,     \* whether Core enforces P2IA1
    tip,          \* default_parent_share_hash
    config,       \* the configuration the node runs with
    job,          \* the active job, or None
    files,        \* the candidates written to disk
    submitted     \* the last block given to Core and its candidate, or None

vars == <<material, required, tip, config, job, files, submitted>>

AnchorPolicyHash == "anchor policy"

-----------------------------------------------------------------------------
(* Templates of Core. *)

Requirement ==
    [policyHash |-> PolicyHash(ChainPolicy), activationId |-> Activation.activationId,
     root |-> ChainPolicy.root, expiryHeight |-> ChainPolicy.expiryHeight,
     expiryMtp |-> ChainPolicy.expiryMtp]

\* getblocktemplate on top of the previous block.
Material(previous, txs, value) ==
    [previous |-> previous, height |-> previous.height + 1, version |-> 1,
     bits |-> BlockTarget, time |-> previous.mtp + 1, txs |-> txs, value |-> value]

Txids(txs) == [i \in 1..Len(txs) |-> <<"tx", txs[i].id>>]

WitnessUsed(txs) == \E i \in 1..Len(txs) : txs[i].witness

-----------------------------------------------------------------------------
(* The outputs of the coinbase. *)

Output(kind, amount, data) == [kind |-> kind, amount |-> amount, data |-> data]

ScheduleRoot(schedule) == <<"payouts", schedule>>

\* The dynamic schedule is computed for the value of the template.
ScheduleOf(c, m) ==
    IF c.payout = "static" THEN StaticSchedule
    ELSE [direct |-> <<m.value \div 2>>, vault |-> m.value - m.value \div 2]

OutputTotal(outputs) == FoldLeft(LAMBDA sum, o : sum + o.amount, 0, outputs)

ScheduleOutputs(s) ==
    [i \in 1..Len(s.direct) |-> Output("direct", s.direct[i], i)]
        \o (IF s.vault > 0 THEN <<Output("vault", s.vault, None)>> ELSE <<>>)

\* coinbase_split_for_pohw_payouts refuses a schedule for another value.
PayoutsFit(c, m) ==
    c.payout # "none" =>
        /\ OutputTotal(ScheduleOutputs(ScheduleOf(c, m))) > 0
        /\ OutputTotal(ScheduleOutputs(ScheduleOf(c, m))) = m.value

PayoutOutputs(c, m) ==
    IF c.payout = "none" THEN <<Output("bare", 0, None)>>
    ELSE Append(ScheduleOutputs(ScheduleOf(c, m)),
                PayoutCommitmentOutput([payoutRoot |-> ScheduleRoot(ScheduleOf(c, m))]))

\* The order of coinbase_split_for_extranonces and coinbase_split_for_pohw_payouts.
BaseOutputs(c, m, binding) ==
    PayoutOutputs(c, m)
        \o (IF binding = None THEN <<>> ELSE <<BindingOutput(binding)>>)
        \o (IF c.marker THEN <<Output("marker", 0, None)>> ELSE <<>>)
        \o (IF WitnessUsed(m.txs) THEN <<Output("witness", 0, m.txs)>> ELSE <<>>)

\* What the authorization of a block signs.
Context(activationId, m, txids, outputs) ==
    [activationId |-> activationId, previous |-> m.previous, height |-> m.height,
     version |-> m.version, bits |-> m.bits, mtp |-> m.previous.mtp,
     txset |-> TransactionSetHash(txids), outputs |-> CoinbaseOutputsHash(outputs)]

\* append_consensus_identity_output: both or neither, and the local policy is
\* the one Core enforces.
IdentityFits(c, m, needed, outputs) ==
    /\ (c.identity # None) = needed
    /\ needed =>
          LET local == c.identity
              bound == {i \in 1..Len(outputs) : outputs[i].kind = "P2SW1"}
          IN  /\ MembershipValid(local.authorization, local.policy)
              /\ PolicyHash(local.policy) = Requirement.policyHash
              /\ local.activation.activationId = Requirement.activationId
              /\ local.policy.root = Requirement.root
              /\ local.policy.expiryHeight = Requirement.expiryHeight
              /\ local.policy.expiryMtp = Requirement.expiryMtp
              /\ BlockInWindow(local.policy, m.height, m.previous.mtp)
              /\ Cardinality(bound) = 1
              /\ \A i \in bound : outputs[i].amount = 0
              /\ \A i \in 1..Len(outputs) : outputs[i].kind # "P2IA1"
              /\ MaySign(local.authorization, local.policy,
                         Context(local.activation.activationId, m, Txids(m.txs), outputs),
                         c.key)

AppendIdentity(c, m, outputs) ==
    IF c.identity = None THEN outputs
    ELSE Append(outputs,
            Output("P2IA1", 0,
                Signed(c.identity.authorization, c.identity.policy,
                       Context(c.identity.activation.activationId, m, Txids(m.txs), outputs),
                       c.key)))

CoinbaseOutputs(c, m, binding) == AppendIdentity(c, m, BaseOutputs(c, m, binding))

-----------------------------------------------------------------------------
(* Jobs *)

\* prepare_share_work_binding_seed and build_share_work_binding
Binding(c, parent, anchor) ==
    IF c.policy = None THEN None
    ELSE [policyHash |-> BindingPolicyHash(c.policy), miner |-> Miner,
          target |-> ShareTarget, parent |-> parent, snapshot |-> c.snapshot,
          snapshotRoot |-> c.snapshot, anchor |-> anchor,
          anchorPolicyHash |-> AnchorPolicyHash, coinbase |-> None, branches |-> <<>>]

\* build_static_active_job and build_dynamic_active_job, with
\* build_stratum_job_from_parts
JobOf(c, m, parent, anchor) ==
    LET binding == Binding(c, parent, anchor)
    IN  [version |-> m.version, previous |-> m.previous, time |-> m.time, bits |-> m.bits,
         height |-> m.height, txs |-> m.txs, reserved |-> WitnessUsed(m.txs),
         outputs |-> CoinbaseOutputs(c, m, binding),
         branches |-> CoinbaseBranches(Txids(m.txs)), binding |-> binding]

\* StratumJob::validate
JobValid(j) == j.txs # <<>> => j.branches = CoinbaseBranches(Txids(j.txs))

\* The conditions under which a refresh of the job succeeds.
Buildable(c, m, needed, binding) ==
    /\ ShareTarget >= m.bits
    /\ PayoutsFit(c, m)
    /\ IdentityFits(c, m, needed, BaseOutputs(c, m, binding))

-----------------------------------------------------------------------------
(* Candidates *)

\* coinbase_tx_hex_from_submit
CoinbaseOf(j, extranonce) ==
    [height |-> j.height, extranonce |-> extranonce, outputs |-> j.outputs,
     reserved |-> j.reserved]

\* build_header_hex_from_submit; the time is the job's.
HeaderOf(j, extranonce, nonce) ==
    [version |-> j.version, previous |-> j.previous,
     root |-> FoldBranches(TxidOf(CoinbaseOf(j, extranonce)), j.branches),
     time |-> j.time, bits |-> j.bits, nonce |-> nonce]

\* complete_block_hex
BlockOf(j, extranonce, nonce) ==
    [header |-> HeaderOf(j, extranonce, nonce),
     coinbase |-> CoinbaseOf(j, extranonce), txs |-> j.txs]

\* build_stratum_block_candidate
CandidateOf(j, extranonce, nonce) ==
    LET header == HeaderOf(j, extranonce, nonce)
    IN  [header |-> header, hash |-> HeaderHash(header), target |-> header.bits,
         meets |-> HashValue(header) <= header.bits,
         coinbase |-> CoinbaseOf(j, extranonce),
         block |-> BlockOf(j, extranonce, nonce), publication |-> None]

MerkleRootVerifies(block) ==
    block.header.root = MerkleRoot(<<TxidOf(block.coinbase)>> \o Txids(block.txs))

\* Block::check_witness_commitment
WitnessVerifies(block) ==
    (WitnessUsed(block.txs) \/ block.coinbase.reserved) =>
        /\ block.coinbase.reserved
        /\ \E i \in 1..Len(block.coinbase.outputs) :
              /\ block.coinbase.outputs[i].kind = "witness"
              /\ block.coinbase.outputs[i] = Output("witness", 0, block.txs)

\* validate_stratum_candidate_header
CandidateHeaderVerifies(d) ==
    /\ d.hash = HeaderHash(d.header)
    /\ d.target = d.header.bits
    /\ d.meets = (HashValue(d.header) <= d.target)

\* validate_candidate_block_hex
MutBlockVerifies(d) ==
    /\ d.block.header = d.header
    /\ MerkleRootVerifies(d.block)
    /\ WitnessVerifies(d.block)
BlockVerifies(d) ==
    /\ d.block.header = d.header
    /\ MerkleRootVerifies(d.block)
    /\ WitnessVerifies(d.block)
    /\ d.block.coinbase = d.coinbase

\* block_hex_for_stratum_candidate_submission
Submittable(d) ==
    CandidateHeaderVerifies(d) /\ d.meets /\ BlockVerifies(d)

\* validate_candidate_publication_binding, with the registered key.
PublicationVerifies(d, key) ==
    LET t == d.publication.template
        s == d.publication.share
    IN  /\ CandidateHeaderVerifies(d)
        /\ s.template = t.hash /\ s.miner = t.miner
        /\ s.header = d.header /\ s.hash = d.hash
        /\ TemplateVerifies(t, key)
        /\ ShareVerifiesForTemplate(s, t, key)
        /\ t.policyHash = AnchorPolicyHash

-----------------------------------------------------------------------------
(* The template and the share of a submission, as accept_submit builds them. *)

BoundTo(j, coinbase) ==
    IF j.binding = None THEN None
    ELSE [j.binding EXCEPT !.coinbase = coinbase, !.branches = j.branches]

TemplateOf(c, j, header, anchor) ==
    SignedTemplate(
        UnsignedTemplate(Miner, header, ShareTarget,
                         IF j.binding = None THEN anchor ELSE j.binding.anchor,
                         AnchorPolicyHash, 1), c.key)

ShareOf(c, j, extranonce, nonce, parent, anchor) ==
    LET header == HeaderOf(j, extranonce, nonce)
    IN  SignedShare(
            [miner |-> Miner, header |-> header,
             template |-> TemplateOf(c, j, header, anchor).hash, nonce |-> nonce,
             hash |-> HeaderHash(header), target |-> ShareTarget,
             snapshot |-> IF j.binding = None THEN c.snapshot ELSE j.binding.snapshot,
             snapshotRoot |-> IF j.binding = None THEN c.snapshot
                              ELSE j.binding.snapshotRoot,
             score |-> ShareScore(ShareTarget),
             parent |-> IF j.binding = None THEN parent ELSE j.binding.parent,
             binding |-> BoundTo(j, CoinbaseOf(j, extranonce))], c.key)

Submission(d) == [block |-> d.block, of |-> d]

-----------------------------------------------------------------------------
Init ==
    /\ required \in BOOLEAN
    /\ config \in Configurations
    /\ \E txs \in TxSets, value \in Values :
          material = Material([height |-> 1, mtp |-> 1], txs, value)
    /\ tip = 0
    /\ job = None
    /\ files = {}
    /\ submitted = None

\* Core finds a block and serves a template on top of it.
NewMaterial ==
    /\ material.height < MaxHeight
    /\ \E txs \in TxSets, value \in Values, mtp \in {material.previous.mtp, material.time} :
          material' = Material([height |-> material.height, mtp |-> mtp], txs, value)
    /\ UNCHANGED <<required, tip, config, job, files, submitted>>

\* Another miner's share moves the tip new shares build on.
ShareTipMoves ==
    /\ tip < MaxTip
    /\ tip' = tip + 1
    /\ UNCHANGED <<material, required, config, job, files, submitted>>

\* refresh_active_job
RefreshJob ==
    \E anchor \in Anchors :
        LET binding == Binding(config, tip, anchor)
        IN  /\ Buildable(config, material, required, binding)
            /\ job' = JobOf(config, material, tip, anchor)
            /\ JobValid(job')
            /\ UNCHANGED <<material, required, tip, config, files, submitted>>

\* A submission that reaches the block target: accept_submit signs the share,
\* attaches it and stores the candidate before it is submitted.
SolveBlock ==
    /\ job # None /\ Cardinality(files) < MaxFiles
    /\ \E extranonce \in Extranonces, nonce \in Nonces, anchor \in Anchors :
          LET d == CandidateOf(job, extranonce, nonce)
              t == TemplateOf(config, job, d.header, anchor)
              s == ShareOf(config, job, extranonce, nonce, tip, anchor)
              whole == [d EXCEPT !.publication = [template |-> t, share |-> s]]
          IN  /\ HashValue(d.header) <= ShareTarget /\ d.meets
              /\ job.binding # None => job.binding.parent = tip
              /\ TemplateVerifies(t, config.key)
              /\ ShareVerifiesForTemplate(s, t, config.key)
              /\ config.policy # None => RequiredBindingVerifies(s, t, config.policy)
              /\ PublicationVerifies(whole, config.key)
              /\ files' = files \cup {whole}
              /\ submitted' = IF Submittable(whole) THEN Submission(whole) ELSE submitted
    /\ UNCHANGED <<material, required, tip, config, job>>

\* The operator restarts the node with another configuration.
Restart ==
    /\ files # {}
    /\ config' \in Configurations \ {config}
    /\ job' = None
    /\ UNCHANGED <<material, required, tip, files, submitted>>

\* submit-stratum-block-candidate: the checks of the file, and those of the
\* publication against the registration of the node.  One part of the file
\* may come from another one: files are edited and mixed up by hand.
SubmitFile ==
    /\ \E d, e \in files, part \in {"header", "hash", "coinbase", "block", "publication"} :
          LET file == [d EXCEPT ![part] = e[part]]
          IN  /\ Submittable(file)
              /\ file.publication # None /\ PublicationVerifies(file, config.key)
              /\ submitted' = Submission(file)
    /\ UNCHANGED <<material, required, tip, config, job, files>>

Next == NewMaterial \/ ShareTipMoves \/ RefreshJob \/ SolveBlock \/ Restart
            \/ SubmitFile

Spec == Init /\ [][Next]_vars

-----------------------------------------------------------------------------
(* Properties *)

\* What Core requires of a block, read from the block alone.
CoreAccepts(block, needed) ==
    LET header == block.header
        outputs == block.coinbase.outputs
        Of(kind) == {i \in 1..Len(outputs) : outputs[i].kind = kind}
        m == [previous |-> header.previous, height |-> block.coinbase.height,
              version |-> header.version, bits |-> header.bits]
    IN  /\ MerkleRootVerifies(block) /\ WitnessVerifies(block)
        /\ block.coinbase.height = header.previous.height + 1
        /\ needed =>
              /\ Cardinality(Of("P2SW1")) = 1 /\ Cardinality(Of("P2IA1")) = 1
              /\ \A i \in Of("P2IA1") :
                    AuthorizationVerifies(outputs[i].data, ChainPolicy,
                        Context(Activation.activationId, m, Txids(block.txs), outputs))

\* No work on a served job is lost: whatever extranonce and nonce a miner
\* finds, the header carries the root of the whole block, Core's own rules
\* for the coinbase and the authorization hold of it, and the share built
\* from it passes every check of the nodes that receive it
\* (build_stratum_job_from_parts, accept_submit).
JobsYieldBlocks ==
    job # None =>
        \A extranonce \in Extranonces, nonce \in Nonces, anchor \in Anchors :
            nonce <= ShareTarget =>
                LET d == CandidateOf(job, extranonce, nonce)
                    t == TemplateOf(config, job, d.header, anchor)
                    s == ShareOf(config, job, extranonce, nonce, tip, anchor)
                IN  /\ CoreAccepts(d.block, required)
                    /\ TemplateVerifies(t, config.key)
                    /\ ShareVerifiesForTemplate(s, t, config.key)
                    /\ config.policy # None => RequiredBindingVerifies(s, t, config.policy)
                    /\ d.meets => Submittable(d)

\* A block that was submitted is the block its candidate describes: the same
\* header and coinbase, whose identifier the payout confirmation looks for,
\* and the share published for it commits to that very coinbase, also when
\* the candidate came from a file (validate_candidate_block_hex,
\* validate_candidate_publication_binding).
SubmittedIsTheCandidate ==
    submitted # None =>
        LET block == submitted.block
            d == submitted.of
            s == d.publication.share
        IN  /\ block.header = d.header
            /\ TxidOf(block.coinbase) = TxidOf(d.coinbase)
            /\ HashValue(block.header) <= block.header.bits
            /\ s.header = block.header
            /\ s.binding # None => TxidOf(s.binding.coinbase) = TxidOf(block.coinbase)

\* The work and the blocks of the adapter keep both promises above.
WorkSound == JobsYieldBlocks /\ SubmittedIsTheCandidate
=============================================================================
