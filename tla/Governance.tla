------------------------------ MODULE Governance ------------------------------
(***************************************************************************)
(* The per-proposal governance engine                                      *)
(* (crates/governance-core/src/lifecycle.rs): identity metrics and stake,  *)
(* the bonded review round that collects evidence for a change, the        *)
(* proposal that claims the round, its vote, challenges and execution, and *)
(* the settlement of every bond on every way out.                          *)
(*                                                                         *)
(* Every operation of GovernanceEngine that changes state is an action; a  *)
(* call that returns an error changes nothing (with_atomic_state), except  *)
(* where an action says so.  Documents are records of the fields the       *)
(* engine reads; the checks of their form are the field valid.  A          *)
(* commitment root is the set of CIDs it commits to.                       *)
(***************************************************************************)
EXTENDS GovernanceMath, SequencesExt

CONSTANTS
    Identities, Genesis,
    GenesisMetrics,         \* [root, epoch] of the first metrics snapshot
    Leaf(_, _),             \* the leaf of an identity under a metrics root, or None
    MetricsClaims(_),       \* metrics attestations that operators submit at a block
    Changes(_, _),          \* changes an identity opens a review round for at a block
    Submissions(_, _),      \* attestations submitted for a change with some evidence
    ChangeMetrics(_),       \* metrics snapshots a change may migrate to, or None
    Bonds, VoteChoices(_, _),
    Deposits(_, _), Withdrawals(_, _),  \* of an identity at a block
    EpochOf(_),             \* the Idena epoch of a block
    Parameters,             \* GovernanceParameterSetV1
    WaiverCid, None,
    MaxBlock,               \* bound: the last block
    MaxStake,               \* bound: the stake of one identity
    QuietRounds             \* bound: with more rounds, nothing is withdrawn

\* valid_gate_parameters
GateParametersValid(gate) ==
    /\ gate.turnout \in 1..BasisPoints /\ gate.yes \in 1..BasisPoints
    /\ gate.verifiedYes \in 0..gate.yesIdentities /\ gate.yesIdentities > 0
    /\ gate.owners \in 1..gate.attestations /\ gate.families \in 1..gate.attestations
    /\ gate.criticalOwners \in 2..gate.owners
    /\ gate.platforms \in 1..gate.builders /\ gate.providers >= 2

\* validate_governance_parameters
GovernanceParametersValid(p) ==
    /\ p.activationDelay > 0 /\ p.unbondingDelay > p.activationDelay
    /\ \A n \in {p.review, p.voting, p.challenge, p.timelock, p.window,
                 p.metricsAttestations} : n > 0
    /\ GateParametersValid(p.normal) /\ GateParametersValid(p.critical)
    /\ \A bps \in {p.rejectedReturn, p.expiredSlash, p.proposalSlash, p.reviewerSlash,
                   p.builderSlash, p.dataSlash, p.stakeSlash} : bps \in 0..BasisPoints

ASSUME GovernanceAssumption ==
    /\ GovernanceParametersValid(Parameters)
    /\ {MaxBlock, MaxStake, QuietRounds} \subseteq Nat

VARIABLES
    block,          \* the clock of the call
    canonical,      \* canonical_ecosystem_cid
    metrics,        \* metrics_root and metrics_epoch
    registered,     \* registered_metrics
    certifications, \* metrics_certifications, per snapshot
    stakes,         \* stakes; an absent position is EmptyPosition
    rounds,         \* review_rounds
    active,         \* active_review_candidates
    proposals,
    refunds, burned,
    moves,          \* events: the proposals that changed the reference
    holdings        \* what was attached to calls less what withdraw_refund paid

vars == <<block, canonical, metrics, registered, certifications, stakes, rounds,
          active, proposals, refunds, burned, moves, holdings>>

EmptyPosition == [pending |-> <<>>, active |-> 0, scheduled |-> <<>>, unbonding |-> <<>>]

Init ==
    /\ block = 0
    /\ canonical = Genesis /\ metrics = GenesisMetrics
    /\ registered = [i \in Identities |-> None]
    /\ certifications = <<>>
    /\ stakes = [i \in Identities |-> EmptyPosition]
    /\ rounds = <<>> /\ active = <<>> /\ proposals = <<>>
    /\ refunds = [i \in Identities |-> 0] /\ burned = 0
    /\ moves = <<>> /\ holdings = 0

Epoch == EpochOf(block)

-----------------------------------------------------------------------------
(* Identity metrics *)

Eligible(i) ==
    /\ registered[i] # None
    /\ registered[i].epoch = metrics.epoch /\ StatusBps(registered[i].status) # 0

RegisterIdentityMetrics(i) ==
    LET leaf == Leaf(i, metrics)
    IN  /\ leaf # None
        /\ leaf.epoch = metrics.epoch /\ StatusBps(leaf.status) # 0
        /\ registered' = [registered EXCEPT ![i] = leaf]
        /\ UNCHANGED <<block, canonical, metrics, certifications, stakes, rounds,
                       active, proposals, refunds, burned, moves, holdings>>

Certification(m) ==
    IF m \in DOMAIN certifications THEN certifications[m]
    ELSE [attested |-> <<>>, finalized |-> None]

\* The operators that attested a descriptor of a snapshot.
Attesters(record, d) == {i \in DOMAIN record.attested : record.attested[i] = d}

\* identity_metrics_certification_passes
Certified(m) ==
    LET record == Certification(m)
    IN  /\ record.finalized # None
        /\ Cardinality(Attesters(record, record.finalized)) >= Parameters.metricsAttestations

SubmitIdentityMetricsAttestation(claim) ==
    LET record == Certification(claim.metrics)
        attested == (claim.operator :> claim.descriptor) @@ record.attested
        count == Cardinality(Attesters(record, claim.descriptor)) + 1
    IN  /\ Eligible(claim.operator)
        /\ claim.valid
        /\ claim.operator \notin DOMAIN record.attested
        /\ record.finalized \in {None, claim.descriptor}
        /\ certifications' =
               (claim.metrics :>
                    [attested |-> attested,
                     finalized |-> IF record.finalized = None
                                        /\ count >= Parameters.metricsAttestations
                                   THEN claim.descriptor ELSE record.finalized])
               @@ certifications
        /\ UNCHANGED <<block, canonical, metrics, registered, stakes, rounds, active,
                       proposals, refunds, burned, moves, holdings>>

-----------------------------------------------------------------------------
(* Stake *)

Atoms(lots) == FoldSeq(LAMBDA lot, sum : lot.atoms + sum, 0, lots)

\* sync_position: due lots become active, started withdrawals become unbonding.
SyncPosition(p, e) ==
    LET starting == SelectSeq(p.scheduled, LAMBDA w : w.start <= e)
    IN  [pending |-> SelectSeq(p.pending, LAMBDA lot : lot.epoch > e),
         active |-> p.active + Atoms(SelectSeq(p.pending, LAMBDA lot : lot.epoch <= e))
                        - Atoms(starting),
         scheduled |-> SelectSeq(p.scheduled, LAMBDA w : w.start > e),
         unbonding |-> p.unbonding \o starting]

\* checked_sub refuses to synchronise a position that would go below zero.
Syncs(p, e) == SyncPosition(p, e).active >= 0

Synced == [i \in Identities |-> SyncPosition(stakes[i], Epoch)]
AllSync == \A i \in Identities : Syncs(stakes[i], Epoch)

\* stake_position, and the synchronisation a refused submission leaves behind.
StakePosition(i) ==
    /\ Syncs(stakes[i], Epoch)
    /\ stakes' = [stakes EXCEPT ![i] = SyncPosition(@, Epoch)]
    /\ UNCHANGED <<block, canonical, metrics, registered, certifications, rounds,
                   active, proposals, refunds, burned, moves, holdings>>

Quiet == Cardinality(DOMAIN rounds) <= QuietRounds

StakeOf(p) == p.active + Atoms(p.pending) + Atoms(p.unbonding)

RegisterStake(i, atoms) ==
    LET lot == [atoms |-> atoms, epoch |-> Epoch + Parameters.activationDelay]
    IN  /\ atoms > 0
        /\ StakeOf(stakes[i]) + atoms <= MaxStake
        /\ Syncs(stakes[i], Epoch)
        /\ stakes' = [stakes EXCEPT ![i] =
               [SyncPosition(@, Epoch) EXCEPT !.pending = Append(@, lot)]]
        /\ holdings' = holdings + atoms
        /\ UNCHANGED <<block, canonical, metrics, registered, certifications, rounds,
                       active, proposals, refunds, burned, moves>>

ScheduleWithdrawal(i, atoms) ==
    LET p == SyncPosition(stakes[i], Epoch)
        withdrawal == [atoms |-> atoms, start |-> Epoch + 1,
                       release |-> Epoch + 1 + Parameters.unbondingDelay]
    IN  /\ Quiet
        /\ atoms > 0
        /\ Syncs(stakes[i], Epoch)
        /\ p.active - Atoms(p.scheduled) >= atoms
        /\ stakes' = [stakes EXCEPT ![i] = [p EXCEPT !.scheduled = Append(@, withdrawal)]]
        /\ UNCHANGED <<block, canonical, metrics, registered, certifications, rounds,
                       active, proposals, refunds, burned, moves, holdings>>

\* Bound: the first block ends when everyone has registered and staked, and the
\* metrics are certified.
Prepared ==
    /\ \A i \in Identities : registered[i] # None /\ stakes[i] # EmptyPosition
    /\ Certified(metrics)

Tick ==
    /\ block < MaxBlock
    /\ block = 0 => Prepared
    /\ block' = block + 1
    /\ UNCHANGED <<canonical, metrics, registered, certifications, stakes, rounds,
                   active, proposals, refunds, burned, moves, holdings>>

\* Mutant: an attestation stays unsettled although a challenge settled it.
MutUnsettled(p) == p.evidence

\* The evidence of a proposal that no settlement has paid back or slashed yet.
Unsettled(p) == p.evidence \ p.settled

Unclaimed == {"Open", "AvailabilityOpen", "Frozen"}

\* Mutant: what a proposal holds is not looked at.
MutHasUnsettledSlashableAction(i) ==
    \E r \in DOMAIN rounds :
        /\ rounds[r].state \in Unclaimed /\ ~rounds[r].settled
        /\ r.opener = i \/ \E a \in rounds[r].evidence : a.owner = i

\* has_unsettled_slashable_action: a claimed round's evidence is reserved by the
\* proposal that holds its copy.
HasUnsettledSlashableAction(i) ==
    \/ \E r \in DOMAIN rounds :
           /\ rounds[r].state \in Unclaimed
           /\ ~rounds[r].settled
           /\ r.opener = i \/ \E a \in rounds[r].evidence : a.owner = i
    \/ \E r \in DOMAIN proposals :
           \/ ~proposals[r].bondSettled /\ r.opener = i
           \/ \E a \in Unsettled(proposals[r]) : a.owner = i

FinalizeUnbonding(i) ==
    LET p == SyncPosition(stakes[i], Epoch)
        released == Atoms(SelectSeq(p.unbonding, LAMBDA w : w.release <= Epoch))
    IN  /\ ~HasUnsettledSlashableAction(i)
        /\ Syncs(stakes[i], Epoch)
        /\ released > 0
        /\ stakes' = [stakes EXCEPT ![i] = [p EXCEPT
               !.unbonding = SelectSeq(@, LAMBDA w : w.release > Epoch)]]
        /\ refunds' = [refunds EXCEPT ![i] = @ + released]
        /\ UNCHANGED <<block, canonical, metrics, registered, certifications, rounds,
                       active, proposals, burned, moves, holdings>>

\* Takes atoms from the lots of a sequence, first to last, dropping empty ones.
TakeFrom(lots, atoms) ==
    LET before(n) == Atoms(SubSeq(lots, 1, n - 1))
        taken(n) == Min({lots[n].atoms, Max({0, atoms - before(n)})})
    IN  SelectSeq([n \in DOMAIN lots |-> [lots[n] EXCEPT !.atoms = @ - taken(n)]],
                  LAMBDA lot : lot.atoms > 0)

\* Mutant: withdrawals stay as they were scheduled.
MutCutToActive(scheduled, left) == scheduled

\* Scheduled withdrawals are cut from the last to what is still active.
CutToActive(scheduled, left) ==
    Reverse(TakeFrom(Reverse(scheduled), Max({0, Atoms(scheduled) - left})))

\* slash_governance_stake: unbonding, pending, then active stake is taken.
SlashedPosition(p) ==
    LET slash == ApplyBps(StakeOf(p), Parameters.stakeSlash)
        afterUnbonding == Max({0, slash - Atoms(p.unbonding)})
        activeLeft == p.active - Max({0, afterUnbonding - Atoms(p.pending)})
    IN  [pending |-> TakeFrom(p.pending, afterUnbonding),
         active |-> activeLeft,
         scheduled |-> CutToActive(p.scheduled, activeLeft),
         unbonding |-> TakeFrom(p.unbonding, slash)]

-----------------------------------------------------------------------------
(* Review rounds *)

Risk(change) == IF change.risk = "Normal" THEN Parameters.normal ELSE Parameters.critical
OnlyRounds ==
    UNCHANGED <<block, canonical, metrics, registered, certifications, active,
                proposals, refunds, burned, moves>>

\* The manifests, sources, patch, toolchain and pin set of a change belong
\* together, and its risk class follows from its scope evidence.
ChangeValid(change) == change.valid /\ change.parent = canonical

NewRound(bond) ==
    [state |-> "Open", end |-> block + Parameters.review,
     deadline |-> block + 2 * Parameters.review, bond |-> bond, settled |-> FALSE,
     evidence |-> {}, required |-> {}, roots |-> <<None, None, None>>, waiver |-> None]

OpenReviewRound(i, change, bond) ==
    LET r == [change |-> change, opener |-> i, block |-> block]
    IN  /\ ChangeValid(change)
        /\ Eligible(i)
        /\ bond >= Parameters.minimumBond
        /\ change \notin DOMAIN active
        /\ r \notin DOMAIN rounds
        /\ rounds' = (r :> NewRound(bond)) @@ rounds
        /\ active' = (change :> r) @@ active
        /\ holdings' = holdings + bond
        /\ UNCHANGED <<block, canonical, metrics, registered, certifications, stakes,
                       proposals, refunds, burned, moves>>

OfClass(evidence, class) == {a \in evidence : a.class = class}
Owners(evidence) == {a.owner : a \in evidence}
UnresolvedOwners(evidence) == Owners({a \in OfClass(evidence, "Agent") : a.critical > 0})

\* What every submission of evidence requires of the one who submits it.
MayAttest(a) ==
    /\ a.valid
    /\ registered[a.owner] # None /\ registered[a.owner].epoch = metrics.epoch
    /\ Synced[a.owner].active >= Parameters.minimumStake
    /\ a.bond >= Parameters.minimumEvidenceBond

AddEvidence(r, a, required) ==
    /\ AllSync
    /\ \A b \in rounds[r].evidence : b.cid # a.cid
    /\ rounds' = [rounds EXCEPT ![r].evidence = @ \cup {a}, ![r].required = @ \cup required]
    /\ stakes' = Synced
    /\ holdings' = holdings + a.bond
    /\ OnlyRounds

\* require_review_round_submission, and the two attestations an owner may file.
SubmissionOpen(r, a) ==
    /\ rounds[r].state = "Open" /\ block < rounds[r].end
    /\ Cardinality({b \in OfClass(rounds[r].evidence, a.class) : b.owner = a.owner}) < 2

Approves(a) == a.approve /\ a.passed

SubmitAgentAttestation(r, a) ==
    /\ MayAttest(a) /\ SubmissionOpen(r, a)
    /\ Approves(a) => \A b \in OfClass(rounds[r].evidence, "Agent") :
           Approves(b) /\ b.owner = a.owner => b.family = a.family
    /\ AddEvidence(r, a, {a.cid})

SubmitBuildAttestation(r, a) ==
    /\ MayAttest(a) /\ SubmissionOpen(r, a)
    /\ AddEvidence(r, a, {a.cid})

\* A provider promises the data until the last block at which a proposal that
\* claims the round in time could still be executed.
LatestExecutionExpiry(r) ==
    rounds[r].deadline + Parameters.review + Parameters.voting
        + 2 * Parameters.challenge + Parameters.timelock + Parameters.window

SubmitDataAvailabilityAttestation(r, a) ==
    /\ MayAttest(a)
    /\ rounds[r].state = "AvailabilityOpen" /\ block <= rounds[r].deadline
    /\ a.expires >= LatestExecutionExpiry(r)
    /\ \A b \in OfClass(rounds[r].evidence, "Availability") :
           b.provider # a.provider /\ b.owner # a.owner
    /\ AddEvidence(r, a, {})

\* A provider is complete when it verified all the round requires.
Providers(evidence, required) ==
    Owners({a \in OfClass(evidence, "Availability") : a.available /\ required \subseteq a.verified})

\* review_evidence_commitments and review_availability_commitment
Root(evidence, class) == {a.cid : a \in OfClass(evidence, class)}

\* freeze_review_round, first call: the evidence is closed and data availability
\* opens.  An empty class has no commitment, so the call fails.
FreezeEvidence(r) ==
    LET evidence == rounds[r].evidence
    IN  /\ rounds[r].state = "Open"
        /\ block \in rounds[r].end..rounds[r].deadline
        /\ r.change.parent = canonical
        /\ Root(evidence, "Agent") # {} /\ Root(evidence, "Builder") # {}
        /\ rounds' = [rounds EXCEPT
               ![r].state = "AvailabilityOpen",
               ![r].roots = <<Root(evidence, "Agent"), Root(evidence, "Builder"), None>>]
        /\ OnlyRounds /\ UNCHANGED <<stakes, holdings>>

\* freeze_review_round, second call.
FreezeReviewRound(r) ==
    LET evidence == rounds[r].evidence
    IN  /\ rounds[r].state = "AvailabilityOpen"
        /\ block <= rounds[r].deadline
        /\ r.change.parent = canonical
        /\ Cardinality(Providers(evidence, rounds[r].required)) >= Risk(r.change).providers
        /\ rounds' = [rounds EXCEPT ![r].state = "Frozen",
                                    ![r].roots[3] = Root(evidence, "Availability")]
        /\ OnlyRounds /\ UNCHANGED <<stakes, holdings>>

\* The opener excuses corroborated findings of a critical change; the waiver
\* itself must then be available too.
RegisterCriticalFindingWaiver(r) ==
    LET waiver == [cid |-> WaiverCid, root |-> rounds[r].roots[1],
                   owners |-> Cardinality(UnresolvedOwners(rounds[r].evidence))]
    IN  /\ rounds[r].state = "AvailabilityOpen"
        /\ block <= rounds[r].deadline
        /\ r.change.risk # "Normal"
        /\ rounds[r].waiver = None
        /\ waiver.owners >= Risk(r.change).criticalOwners
        /\ rounds' = [rounds EXCEPT ![r].waiver = waiver, ![r].required = @ \cup {WaiverCid}]
        /\ OnlyRounds /\ UNCHANGED <<stakes, holdings>>

\* What the evidence of a set pays back to an identity.
BondsOf(evidence, i) ==
    MapThenSumSet(LAMBDA a : a.bond, {a \in evidence : a.owner = i})

\* Mutant: the candidate stays reserved.
MutWithout(f, key) == f

Without(f, key) == [k \in DOMAIN f \ {key} |-> f[k]]

ExpireReviewRound(r) ==
    LET round == rounds[r]
        stale == r.change.parent # canonical
        fee == IF stale THEN Min({Parameters.staleFee, round.bond})
               ELSE IF Cardinality(UnresolvedOwners(round.evidence))
                           >= Risk(r.change).criticalOwners THEN 0
               ELSE ApplyBps(round.bond, Parameters.expiredSlash)
    IN  /\ round.state \in Unclaimed
        /\ stale \/ block > round.deadline
        /\ rounds' = [rounds EXCEPT ![r].state = "Expired", ![r].settled = TRUE]
        /\ active' = Without(active, r.change)
        /\ refunds' = [i \in Identities |-> refunds[i] + BondsOf(round.evidence, i)
                          + IF i = r.opener THEN round.bond - fee ELSE 0]
        /\ burned' = burned + fee
        /\ UNCHANGED <<block, canonical, metrics, registered, certifications, stakes,
                       proposals, moves, holdings>>

-----------------------------------------------------------------------------
(* Proposals *)

\* build_voter_snapshot
VoterSnapshot(e) ==
    LET voters == {i \in Identities :
                       /\ Synced[i].active >= Parameters.minimumStake
                       /\ registered[i] # None /\ registered[i].epoch = e
                       /\ StatusBps(registered[i].status) # 0}
    IN  [i \in voters |->
            [status |-> registered[i].status,
             weight |-> EffectiveVoteWeight(Synced[i].active, registered[i].status,
                                            registered[i].trust)]]

WeightOf(snapshot, voters) == MapThenSumSet(LAMBDA i : snapshot[i].weight, voters)

\* acceptance_evidence: builders count by the artifact digest most of them agree
\* on, providers by how long they promise the data.
BuildGroup(valid) ==
    LET group(d) == {a \in valid : a.digest = d}
        platforms(d) == Cardinality({a.platform : a \in group(d)})
        better(d, e) ==
            \/ Cardinality(Owners(group(d))) > Cardinality(Owners(group(e)))
            \/ /\ Cardinality(Owners(group(d))) = Cardinality(Owners(group(e)))
               /\ platforms(d) >= platforms(e)
        digests == {a.digest : a \in valid}
        best == CHOOSE d \in digests : \A e \in digests : better(d, e)
    IN  IF digests = {} THEN [owners |-> 0, platforms |-> 0]
        ELSE [owners |-> Cardinality(Owners(group(best))), platforms |-> platforms(best)]

ReviewGatesPass(r, p) ==
    LET gate == Risk(r.change)
        valid == p.evidence \ p.invalid
        approved == {a \in OfClass(valid, "Agent") : Approves(a)}
        unresolved == IF r.change.risk # "Normal" /\ p.waiver # None THEN 0
                      ELSE Cardinality(UnresolvedOwners(valid))
        build == BuildGroup({a \in OfClass(valid, "Builder") : a.passed})
    IN  /\ Cardinality(approved) >= gate.attestations
        /\ Cardinality({a.family : a \in approved}) >= gate.families
        /\ Cardinality(Owners(approved)) >= gate.owners
        /\ unresolved < gate.criticalOwners
        /\ build.owners >= gate.builders /\ build.platforms >= gate.platforms
        /\ Cardinality(Providers({a \in OfClass(valid, "Availability") :
                                      a.expires >= p.expires}, p.required)) >= gate.providers

\* evaluate_gates: stake turnout and approval, identities, and the evidence.
GatesAccept(r, p) ==
    LET gate == Risk(r.change)
        yes == {i \in DOMAIN p.votes : p.votes[i] = "Yes"}
    IN  /\ RatioBps(p.weights.Yes + p.weights.No + p.weights.Abstain, p.total) >= gate.turnout
        /\ RatioBps(p.weights.Yes, p.weights.Yes + p.weights.No) >= gate.yes
        /\ Cardinality(yes) >= gate.yesIdentities
        /\ Cardinality({i \in yes : VerifiedOrHuman(p.snapshot[i].status)}) >= gate.verifiedYes
        /\ ReviewGatesPass(r, p)

\* validate_proposal_content: the schedule of a content is checked against its
\* own creation block only.
Schedule(creation) ==
    LET votingEnd == creation + Parameters.review + Parameters.voting
    IN  [creation |-> creation, epoch |-> EpochOf(creation),
         votingStart |-> creation + Parameters.review, votingEnd |-> votingEnd,
         challengeEnd |-> votingEnd + Parameters.challenge]

NewProposal(r, creation, to) ==
    LET round == rounds[r]
        schedule == Schedule(creation)
        snapshot == VoterSnapshot(metrics.epoch)
    IN  [state |-> "Draft", creation |-> schedule.creation, epoch |-> schedule.epoch,
         votingStart |-> schedule.votingStart, votingEnd |-> schedule.votingEnd,
         metrics |-> to, bond |-> round.bond, bondSettled |-> FALSE,
         evidence |-> round.evidence, settled |-> {}, invalid |-> {},
         required |-> round.required, waiver |-> round.waiver, roots |-> round.roots,
         snapshot |-> snapshot, total |-> WeightOf(snapshot, DOMAIN snapshot),
         votes |-> <<>>, weights |-> [Yes |-> 0, No |-> 0, Abstain |-> 0],
         challenge |-> None, latestFinalize |-> schedule.challengeEnd,
         challengeEnd |-> schedule.challengeEnd,
         notBefore |-> schedule.challengeEnd + Parameters.timelock,
         expires |-> schedule.challengeEnd + Parameters.timelock + Parameters.window]

\* verify_attestation_roots
AttestationRootsMatch(p) ==
    p.roots = <<Root(p.evidence, "Agent"), Root(p.evidence, "Builder"),
                Root(p.evidence, "Availability")>>

CreateProposalDraft(r, creation, to) ==
    LET p == NewProposal(r, creation, to)
        round == rounds[r]
    IN  /\ AllSync
        /\ r.change.parent = canonical
        /\ registered[r.opener] # None /\ registered[r.opener].epoch = metrics.epoch
        /\ Certified(metrics)
        /\ to # None => /\ r.change.risk = "Migration" /\ to.epoch > metrics.epoch
                        /\ Certified(to)
        /\ round.state = "Frozen" /\ block <= round.deadline
        /\ Cardinality(UnresolvedOwners(round.evidence)) >= Risk(r.change).criticalOwners
               => round.waiver # None
        /\ r \notin DOMAIN proposals
        /\ AttestationRootsMatch(p)
        /\ ReviewGatesPass(r, p)
        /\ stakes' = Synced
        /\ rounds' = [rounds EXCEPT ![r].state = "Claimed"]
        /\ proposals' = (r :> p) @@ proposals
        /\ UNCHANGED <<block, canonical, metrics, registered, certifications, active,
                       refunds, burned, moves, holdings>>

OnlyProposals ==
    UNCHANGED <<block, canonical, metrics, registered, certifications, stakes, rounds,
                active, refunds, burned, moves, holdings>>

\* Mutant: the parent is not compared with the canonical reference.
MutFresh(r) == TRUE

Fresh(r) == r.change.parent = canonical

OpenReview(r) ==
    LET p == proposals[r]
    IN  /\ Fresh(r) /\ p.state = "Draft"
        /\ block >= p.creation /\ block < p.votingStart
        /\ proposals' = [proposals EXCEPT ![r].state = "ReviewOpen"]
        /\ OnlyProposals

OpenVoting(r) ==
    LET p == proposals[r]
    IN  /\ Fresh(r) /\ p.state = "ReviewOpen"
        /\ block >= p.votingStart /\ block < p.votingEnd
        /\ Epoch = p.epoch
        /\ AttestationRootsMatch(p)
        /\ proposals' = [proposals EXCEPT ![r].state = "VotingOpen"]
        /\ OnlyProposals

\* subtract_vote_weight and add_vote_weight: a vote replaces the earlier one.
Recast(p, i, choice) ==
    LET weight == p.snapshot[i].weight
        withdrawn == IF i \in DOMAIN p.votes
                     THEN [p.weights EXCEPT ![p.votes[i]] = @ - weight] ELSE p.weights
    IN  [withdrawn EXCEPT ![choice] = @ + weight]

\* A voter may change their vote until the voting ends.
CastVote(r, i, choice) ==
    LET p == proposals[r]
    IN  /\ p.state = "VotingOpen" /\ Fresh(r)
        /\ block >= p.votingStart /\ block < p.votingEnd
        /\ i \in DOMAIN p.snapshot
        /\ proposals' = [proposals EXCEPT
               ![r].weights = Recast(p, i, choice),
               ![r].votes = (i :> choice) @@ @]
        /\ OnlyProposals

-----------------------------------------------------------------------------
(* Settlement *)

\* Every way out settles the proposal's bond once, keeping a fee, pays back the
\* unsettled evidence (refund_unsettled_attestations) and frees the candidate
\* (release_review_candidate_for_proposal).
Settle(r, p, to, fee, burnedSoFar, refundsSoFar) ==
    LET kept == IF p.bondSettled THEN 0 ELSE fee
        back == IF p.bondSettled THEN 0 ELSE p.bond - fee
    IN  /\ proposals' = [proposals EXCEPT
               ![r] = [p EXCEPT !.state = to, !.bondSettled = TRUE, !.settled = p.evidence]]
        /\ refunds' = [i \in Identities |-> refundsSoFar[i]
               + BondsOf(Unsettled(p), i) + IF i = r.opener THEN back ELSE 0]
        /\ burned' = burnedSoFar + kept
        /\ active' = Without(active, r.change)

\* finalize_voting reopens the schedule from the block of the call.
FinalizedVoting(p) ==
    LET challengeEnd == block + Parameters.challenge
    IN  [p EXCEPT !.challengeEnd = challengeEnd,
                  !.notBefore = challengeEnd + Parameters.timelock,
                  !.expires = challengeEnd + Parameters.timelock + Parameters.window]

FinalizeVoting(r) ==
    LET p == FinalizedVoting(proposals[r])
    IN  /\ Fresh(r) /\ p.state = "VotingOpen"
        /\ block \in p.votingEnd..p.latestFinalize
        /\ \/ /\ GatesAccept(r, p)
              /\ proposals' = [proposals EXCEPT
                     ![r] = [p EXCEPT !.state = "AcceptedPendingChallenge"]]
              /\ UNCHANGED <<refunds, burned, active>>
           \/ /\ ~GatesAccept(r, p)
              /\ Settle(r, p, "Rejected",
                        p.bond - ApplyBps(p.bond, Parameters.rejectedReturn), burned, refunds)
        /\ UNCHANGED <<block, canonical, metrics, registered, certifications, stakes,
                       rounds, moves, holdings>>

SubmitObjectiveChallenge(r, a) ==
    LET p == proposals[r]
    IN  /\ p.state = "AcceptedPendingChallenge"
        /\ block < p.challengeEnd
        /\ a.resultFalse    \* the bytes under the attested CID say the check failed
        /\ a \notin p.invalid \cup p.settled
        /\ proposals' = [proposals EXCEPT ![r].challenge = a, ![r].state = "Challenged"]
        /\ OnlyProposals

SlashBps(a) ==
    CASE a.class = "Agent" -> Parameters.reviewerSlash
      [] a.class = "Builder" -> Parameters.builderSlash
      [] a.class = "Availability" -> Parameters.dataSlash

\* The attestation claimed success where the committed result says failure.
ChallengeSucceeds(a) ==
    IF a.class = "Availability" THEN a.available ELSE a.passed

\* resolve_objective_challenge: a refuted attestation is slashed with the stake
\* of its author; the proposal falls with a fraudulent proposer, and otherwise
\* when the gates fail without the attestation.
ResolveObjectiveChallenge(r) ==
    LET a == proposals[r].challenge
        bondSlash == ApplyBps(a.bond, SlashBps(a))
        position == SlashedPosition(stakes[a.owner])
        stakeSlash == StakeOf(stakes[a.owner]) - StakeOf(position)
        p == [proposals[r] EXCEPT !.challenge = None, !.invalid = @ \cup {a},
                                  !.settled = @ \cup {a}]
        slashed == burned + bondSlash + stakeSlash
        repaid == [refunds EXCEPT ![a.owner] = @ + a.bond - bondSlash]
    IN  /\ proposals[r].state = "Challenged"
        /\ \/ /\ ~ChallengeSucceeds(a)
              /\ proposals' = [proposals EXCEPT ![r].challenge = None,
                                                ![r].state = "AcceptedPendingChallenge"]
              /\ UNCHANGED <<stakes, refunds, burned, active>>
           \/ /\ ChallengeSucceeds(a)
              /\ stakes' = [stakes EXCEPT ![a.owner] = position]
              /\ \/ /\ a.owner = r.opener
                    /\ Settle(r, p, "Rejected", ApplyBps(p.bond, Parameters.proposalSlash),
                              slashed, repaid)
                 \/ /\ a.owner # r.opener /\ GatesAccept(r, p)
                    /\ proposals' = [proposals EXCEPT
                           ![r] = [p EXCEPT !.state = "AcceptedPendingChallenge"]]
                    /\ refunds' = repaid /\ burned' = slashed /\ UNCHANGED active
                 \/ /\ a.owner # r.opener /\ ~GatesAccept(r, p)
                    /\ Settle(r, p, "Expired", 0, slashed, repaid)
        /\ UNCHANGED <<block, canonical, metrics, registered, certifications, rounds,
                       moves, holdings>>

CloseChallengePeriod(r) ==
    /\ proposals[r].state = "AcceptedPendingChallenge"
    /\ block >= proposals[r].challengeEnd
    /\ proposals' = [proposals EXCEPT ![r].state = "AcceptedPendingExecution"]
    /\ OnlyProposals

\* live_data_availability_provider_count
LiveProviders(p) ==
    Cardinality(Providers({a \in OfClass(p.evidence \ p.invalid, "Availability") :
                               a.expires >= block}, p.required))

\* Executing a migration replaces the metrics and forgets every registration.
ExecuteProposal(r) ==
    LET p == proposals[r]
    IN  /\ p.state = "AcceptedPendingExecution" /\ Fresh(r)
        /\ block \in p.notBefore..p.expires
        /\ LiveProviders(p) >= Risk(r.change).providers
        /\ canonical' = r.change.candidate
        /\ metrics' = IF p.metrics = None THEN metrics ELSE p.metrics
        /\ registered' = IF p.metrics = None THEN registered
                         ELSE [i \in Identities |-> None]
        /\ moves' = Append(moves, r)
        /\ Settle(r, p, "Executed", 0, burned, refunds)
        /\ UNCHANGED <<block, certifications, stakes, rounds, holdings>>

OnlySettlement ==
    UNCHANGED <<block, canonical, metrics, registered, certifications, stakes, rounds,
                moves, holdings>>

\* expire_proposal, which a late execute_proposal also calls.
ExpireProposal(r) ==
    LET p == proposals[r]
    IN  /\ \/ p.state = "Draft" /\ block > p.votingStart
           \/ p.state = "ReviewOpen" /\ block >= p.votingEnd
           \/ p.state = "AcceptedPendingExecution" /\ block > p.expires
        /\ Settle(r, p, "Expired", ApplyBps(p.bond, Parameters.expiredSlash), burned, refunds)
        /\ OnlySettlement

Terminal == {"Rejected", "Executed", "Stale", "Expired"}

\* mark_stale, which open_review, open_voting, finalize_voting and
\* execute_proposal also call for a proposal whose parent is not canonical.
MarkStale(r) ==
    LET p == proposals[r]
    IN  /\ ~Fresh(r)
        /\ p.state \notin Terminal
        /\ Settle(r, p, "Stale", Min({Parameters.staleFee, p.bond}), burned, refunds)
        /\ OnlySettlement

WithdrawRefund(i) ==
    /\ Quiet
    /\ refunds[i] > 0
    /\ refunds' = [refunds EXCEPT ![i] = 0]
    /\ holdings' = holdings - refunds[i]
    /\ UNCHANGED <<block, canonical, metrics, registered, certifications, stakes,
                   rounds, active, proposals, burned, moves>>

-----------------------------------------------------------------------------
IdentityStep(i) ==
    \/ RegisterIdentityMetrics(i)
    \/ StakePosition(i)
    \/ \E atoms \in Deposits(i, block) : RegisterStake(i, atoms)
    \/ \E atoms \in Withdrawals(i, block) : ScheduleWithdrawal(i, atoms)
    \/ FinalizeUnbonding(i)
    \/ \E change \in Changes(i, block), bond \in Bonds : OpenReviewRound(i, change, bond)
    \/ WithdrawRefund(i)

RoundStep(r) ==
    \/ \E a \in Submissions(r.change, rounds[r].evidence) :
           \/ a.class = "Agent" /\ SubmitAgentAttestation(r, a)
           \/ a.class = "Builder" /\ SubmitBuildAttestation(r, a)
           \/ /\ a.class = "Availability"
              /\ SubmitDataAvailabilityAttestation(r, [a EXCEPT !.verified = rounds[r].required])
    \/ FreezeEvidence(r)
    \/ FreezeReviewRound(r)
    \/ RegisterCriticalFindingWaiver(r)
    \/ ExpireReviewRound(r)
    \/ \E to \in ChangeMetrics(r.change) : CreateProposalDraft(r, block, to)

ProposalStep(r) ==
    \/ OpenReview(r)
    \/ OpenVoting(r)
    \/ \E i \in Identities : \E choice \in VoteChoices(i, r.change) : CastVote(r, i, choice)
    \/ FinalizeVoting(r)
    \/ \E a \in proposals[r].evidence : SubmitObjectiveChallenge(r, a)
    \/ ResolveObjectiveChallenge(r)
    \/ CloseChallengePeriod(r)
    \/ ExecuteProposal(r)
    \/ ExpireProposal(r)
    \/ MarkStale(r)

Next ==
    \/ Tick
    \/ \E i \in Identities : IdentityStep(i)
    \/ \E claim \in MetricsClaims(block) : SubmitIdentityMetricsAttestation(claim)
    \/ \E r \in DOMAIN rounds : RoundStep(r)
    \/ \E r \in DOMAIN proposals : ProposalStep(r)

Spec == Init /\ [][Next]_vars

-----------------------------------------------------------------------------
(* Properties *)

Outstanding(r) ==
    IF r \in DOMAIN proposals
    THEN (IF proposals[r].bondSettled THEN 0 ELSE proposals[r].bond)
         + MapThenSumSet(LAMBDA a : a.bond, proposals[r].evidence \ proposals[r].settled)
    ELSE IF rounds[r].settled THEN 0
    ELSE rounds[r].bond + MapThenSumSet(LAMBDA a : a.bond, rounds[r].evidence)

\* The engine holds what it owes: everything attached and not yet withdrawn is
\* stake, a bond that is not settled, a refund to collect, or burned.  The copy
\* of the evidence a proposal takes from its round is never settled twice, and a
\* slash takes from a bond and a stake exactly what it burns.
AtomsConserved ==
    holdings = burned + MapThenSumSet(LAMBDA i : refunds[i] + StakeOf(stakes[i]), Identities)
                 + MapThenSumSet(Outstanding, DOMAIN rounds)

\* Withdrawals never exceed the active stake they will be taken from, whatever
\* slash came between, so sync_position (which every submission of evidence runs
\* over all positions) cannot fail and lock everyone out.
WithdrawalsCovered ==
    \A i \in Identities : Atoms(stakes[i].scheduled) <= stakes[i].active

\* An unsettled bond or attestation of an identity.
AtStake(i) ==
    \E r \in DOMAIN rounds :
        /\ Outstanding(r) > 0
        /\ \/ r.opener = i
           \/ \E a \in IF r \in DOMAIN proposals THEN proposals[r].evidence \ proposals[r].settled
                       ELSE rounds[r].evidence : a.owner = i

\* Stake leaves the engine only when it can no longer be slashed: an identity
\* with a bond or attestation at stake loses stake to a slash alone.
ReservedStakeStays ==
    [][\A i \in Identities :
        AtStake(i) /\ StakeOf(stakes'[i]) < StakeOf(stakes[i])
            => burned' - burned >= StakeOf(stakes[i]) - StakeOf(stakes'[i])]_vars

\* One review at a time per candidate: the index that refuses a second round
\* holds exactly the rounds that are unclaimed or whose proposal is undecided.
OneReviewPerCandidate ==
    /\ \A change \in DOMAIN active : active[change].change = change
    /\ \A r \in DOMAIN rounds :
           (r.change \in DOMAIN active /\ active[r.change] = r) <=>
               \/ rounds[r].state \in Unclaimed
               \/ rounds[r].state = "Claimed" /\ proposals[r].state \notin Terminal

\* What moves the reference passed every gate on evidence that still stands: the
\* votes as last cast, without the attestations a challenge refuted, and enough
\* providers that still promise the data.
ExecutedOnStandingEvidence ==
    [][canonical' # canonical =>
        LET r == moves'[Len(moves')]
            p == proposals[r]
            chose(c) == WeightOf(p.snapshot, {i \in DOMAIN p.votes : p.votes[i] = c})
        IN  /\ GatesAccept(r, [p EXCEPT !.weights = [c \in DOMAIN p.weights |-> chose(c)]])
            /\ block >= p.challengeEnd + Parameters.timelock]_vars

\* The engine implements what governance promises about the canonical reference.
Reference == INSTANCE CanonicalReference WITH
    Parent <- LAMBDA r : r.change.parent,
    Candidate <- LAMBDA r : r.change.candidate,
    accepted <- {r \in DOMAIN proposals : proposals[r].state \in
                    {"AcceptedPendingChallenge", "Challenged", "AcceptedPendingExecution"}},
    closed <- {r \in DOMAIN proposals : proposals[r].state \in Terminal}

ImplementsReference == Reference!Spec

\* The accounts of the engine and its index of reviews.
AccountsSound == AtomsConserved /\ WithdrawalsCovered /\ OneReviewPerCandidate

\* What stands behind an execution and a bond is not taken away.
EvidenceStands == ReservedStakeStays /\ ExecutedOnStandingEvidence
==============================================================================
