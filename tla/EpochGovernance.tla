--------------------------- MODULE EpochGovernance ---------------------------
(***************************************************************************)
(* The epoch-batched governance engine                                     *)
(* (crates/governance-core/src/epoch_governance.rs): one proposal slot per *)
(* identity and epoch, evidence attached before the ballot opens, one      *)
(* commit and reveal ballot over the frozen proposal set, the decision,    *)
(* the grace period with its objective challenges, and the execution that  *)
(* moves the canonical reference.                                          *)
(*                                                                         *)
(* Every handler of EpochGovernanceEngine that changes state is an action; *)
(* a call that returns an error changes nothing, except the execution of a *)
(* stale proposal.  Documents are records of the fields the engine reads;  *)
(* the checks of their form (CIDs, digests, lengths) are the field valid.  *)
(* A ballot commitment is the tuple that is hashed.                        *)
(***************************************************************************)
EXTENDS GovernanceMath, SequencesExt

CONSTANTS
    Identities, Cids, Genesis,
    Snapshots(_),           \* voting-power claims submitted during an epoch
    Contents(_, _),         \* contents an identity proposes in an epoch
    Reverts,                \* risk and form of the revert proposals
    AiClaims(_), BuildClaims(_), AvailabilityClaims(_), Reviewers(_),
                            \* evidence that is submitted for a content
    VoteChoices(_),         \* what a voter may choose
    Bonds,                  \* bonds attached to a proposal
    Parameters,             \* EpochGovernanceParameterSetV1
    None,
    MaxIdleBlock, MaxBlock, \* bounds: the last block before and after an execution
    EpochStarts             \* bound: the blocks at which an epoch begins or is anchored

\* validate_gate
GateValid(gate) ==
    /\ gate.turnout \in 1..BasisPoints /\ gate.yes \in 1..BasisPoints
    /\ gate.owners \in 1..gate.attestations /\ gate.families \in 1..gate.attestations
    /\ gate.criticalOwners \in 2..gate.owners
    /\ gate.platforms \in 1..gate.builders /\ gate.providers >= 2
    /\ gate.verifiedYes \in 0..gate.yesIdentities
    /\ gate.yesIdentities \in 1..gate.participants

\* EpochGovernanceParameterSetV1::validate
ParametersValid(p) ==
    /\ p.cutoff < p.commitStart /\ p.commitStart < p.commitEnd /\ p.commitEnd < p.revealEnd
    /\ p.normal.grace > 0 /\ p.critical.grace >= p.normal.grace
    /\ p.window > 0 /\ p.maxProposals > 0 /\ p.burnBps \in 0..BasisPoints
    /\ GateValid(p.normal.gate) /\ GateValid(p.critical.gate)

ASSUME EpochGovernanceAssumption ==
    /\ ParametersValid(Parameters)
    /\ {Parameters.cutoff, Parameters.commitStart, Parameters.commitEnd, Parameters.revealEnd,
        Parameters.normal.grace, Parameters.critical.grace} \subseteq Nat
    /\ Genesis \in Cids /\ None \notin Nat
    /\ {MaxIdleBlock, MaxBlock} \subseteq Nat /\ EpochStarts \subseteq Nat

VARIABLES
    clock,          \* [epoch, block] of the call
    canonical,      \* canonical_ecosystem_cid
    epochs,         \* the anchored epochs
    slots,          \* proposal_slots
    proposals,      \* proposal id -> ProposalRecord
    votingPower,    \* voting_power, as the set of registered claims
    refunds, treasury, burned,
    history,        \* canonical_history
    paid            \* what claim_refund has handed out

vars == <<clock, canonical, epochs, slots, proposals, votingPower, refunds,
          treasury, burned, history, paid>>

Init ==
    /\ clock = [epoch |-> 1, block |-> 0]
    /\ canonical = Genesis
    /\ epochs = <<>>
    /\ slots = {} /\ proposals = <<>> /\ votingPower = {}
    /\ refunds = [a \in Identities |-> 0]
    /\ treasury = 0 /\ burned = 0 /\ history = <<>> /\ paid = 0

\* A map after an insertion.
Put(f, key, value) == [k \in {key} \cup DOMAIN f |-> IF k = key THEN value ELSE f[k]]

\* Blocks pass; an Idena epoch ends when it ends.
Tick ==
    /\ clock.block < IF history = <<>> THEN MaxIdleBlock ELSE MaxBlock
    /\ \E passed \in {0} \cup {n \in {1} : clock.block + 1 \in EpochStarts} :
           clock' = [epoch |-> clock.epoch + passed, block |-> clock.block + 1]
    /\ UNCHANGED <<canonical, epochs, slots, proposals, votingPower, refunds,
                   treasury, burned, history, paid>>

-----------------------------------------------------------------------------
(* Epochs, voting power and proposals *)

Anchored == clock.epoch \in DOMAIN epochs
Current == epochs[clock.epoch]
Before(offset) == clock.block < Current.anchor + offset
Since(offset) == clock.block >= Current.anchor + offset

\* anchor_governance_epoch; anchoring an epoch twice changes nothing.
AnchorGovernanceEpoch ==
    /\ ~Anchored
    /\ clock.block \in EpochStarts
    /\ epochs' = Put(epochs, clock.epoch,
                     [anchor |-> clock.block, frozen |-> FALSE, ordered |-> <<>>,
                      weight |-> 0, commitments |-> <<>>, finalized |-> FALSE])
    /\ UNCHANGED <<clock, canonical, slots, proposals, votingPower, refunds,
                   treasury, burned, history, paid>>

\* What register_voting_power_snapshot recomputes of a claim.
SnapshotValid(s) ==
    /\ s.valid /\ s.reported <= s.finalized
    /\ s.trust = FlipTrustBps(s.finalized, s.reported)
    /\ StatusBps(s.status) # 0
    /\ s.stake >= Parameters.minimumStake
    /\ s.weight = EffectiveVoteWeight(s.stake, s.status, s.trust) /\ s.weight # 0

Registered(e) == {s \in votingPower : s.epoch = e}
SnapshotOf(e, a) == CHOOSE s \in Registered(e) : s.voter = a
HasPower(e, a) == \E s \in Registered(e) : s.voter = a

RegisterVotingPower(s) ==
    /\ ~(s.epoch \in DOMAIN epochs /\ epochs[s.epoch].frozen)
    /\ SnapshotValid(s)
    /\ ~HasPower(s.epoch, s.voter)
    /\ votingPower' = votingPower \cup {s}
    /\ UNCHANGED <<clock, canonical, epochs, slots, proposals, refunds, treasury,
                   burned, history, paid>>

Risk(content) == IF content.critical THEN Parameters.critical ELSE Parameters.normal

\* validate_proposal_content
ContentValid(content) ==
    /\ content.valid /\ content.size <= Risk(content).maxSize
    /\ content.waiver => content.critical
    /\ content.parent # content.candidate

NewProposal(content, bond) ==
    [state |-> IF content.reverts = None THEN "Submitted" ELSE "RevertProposed",
     bond |-> bond, settled |-> FALSE,
     ai |-> None, waiver |-> None, manual |-> {}, build |-> None, availability |-> None,
     decision |-> None, challenge |-> None, notBefore |-> 0, expires |-> 0]

CreateProposal(caller, content, bond) ==
    LET id == [epoch |-> clock.epoch, proposer |-> caller, content |-> content]
    IN  /\ Anchored /\ Before(Parameters.cutoff) /\ ~Current.frozen
        /\ HasPower(clock.epoch, caller)
        /\ <<clock.epoch, caller>> \notin slots
        /\ ContentValid(content)
        /\ content.parent = canonical
        /\ bond >= Risk(content).bond
        /\ id \notin DOMAIN proposals
        /\ slots' = slots \cup {<<clock.epoch, caller>>}
        /\ proposals' = Put(proposals, id, NewProposal(content, bond))
        /\ UNCHANGED <<clock, canonical, epochs, votingPower, refunds, treasury,
                       burned, history, paid>>

\* create_revert_proposal: only the execution that made the current reference
\* can be reverted, to what preceded it.
CreateRevertProposal(caller, form, index, bond) ==
    /\ history[index].new = canonical
    /\ CreateProposal(caller,
           [form EXCEPT !.reverts = index, !.parent = canonical,
                        !.candidate = history[index].previous], bond)

Credit(balances, a, amount) == [balances EXCEPT ![a] = @ + amount]

CancelProposal(id) ==
    LET p == proposals[id]
        refund == IF p.bond > Parameters.cancellationFee
                  THEN p.bond - Parameters.cancellationFee ELSE 0
    IN  /\ Anchored /\ Before(Parameters.cutoff)
        /\ id.epoch = clock.epoch
        /\ p.state \in {"Submitted", "ReviewOpen", "RevertProposed"}
        /\ proposals' = [proposals EXCEPT ![id].state = "CancelledBeforeCutoff",
                                          ![id].settled = TRUE]
        /\ refunds' = Credit(refunds, id.proposer, refund)
        /\ treasury' = treasury + (p.bond - refund)
        /\ UNCHANGED <<clock, canonical, epochs, slots, votingPower, burned, history, paid>>

-----------------------------------------------------------------------------
(* Evidence, attached until the ballot opens *)

\* Mutant: evidence is taken as long as the epoch lasts.
MutEvidenceOpen(id) == Anchored /\ id.epoch = clock.epoch

EvidenceOpen(id) == Anchored /\ Before(Parameters.commitStart) /\ id.epoch = clock.epoch

OnlyProposals ==
    UNCHANGED <<clock, canonical, epochs, slots, votingPower, refunds, treasury,
                burned, history, paid>>

\* The counts of an aggregate AI-review claim that can occur together.
AiClaimValid(claim) ==
    /\ claim.owners >= 1 /\ claim.families >= 1
    /\ claim.attestations \in claim.owners..(2 * claim.owners)
    /\ claim.families <= claim.owners

AttachAiReviewRoot(id, claim) ==
    /\ AiClaimValid(claim)
    /\ EvidenceOpen(id)
    /\ proposals[id].state \in
           {"Submitted", "ReviewOpen", "ProposalSetFrozen", "RevertProposed"}
    /\ proposals' = [proposals EXCEPT
           ![id].ai = claim,
           ![id].state = IF @ = "Submitted" THEN "ReviewOpen" ELSE @]
    /\ OnlyProposals

\* attach_content_addressed_critical_finding_waiver_for_simulation: the waiver
\* names the review root and count it excuses.
AttachCriticalFindingWaiver(id, waiver) ==
    LET ai == proposals[id].ai
    IN  /\ EvidenceOpen(id)
        /\ ai # None
        /\ id.content.critical /\ id.content.waiver
        /\ proposals[id].waiver = None
        /\ waiver.root = ai.root /\ waiver.unresolved = ai.unresolved
        /\ waiver.unresolved >= Parameters.critical.gate.criticalOwners
        /\ proposals' = [proposals EXCEPT ![id].waiver = waiver]
        /\ OnlyProposals

AttachManualReview(id, reviewer) ==
    /\ EvidenceOpen(id)
    /\ reviewer \notin proposals[id].manual
    /\ proposals' = [proposals EXCEPT ![id].manual = @ \cup {reviewer}]
    /\ OnlyProposals

AttachBuildRoot(id, claim) ==
    /\ claim.builders >= 1 /\ claim.platforms \in 1..claim.builders
    /\ EvidenceOpen(id)
    /\ proposals[id].state # "CancelledBeforeCutoff"
    /\ proposals' = [proposals EXCEPT ![id].build = claim]
    /\ OnlyProposals

AttachDataAvailabilityRoot(id, claim) ==
    /\ claim.providers >= 1
    /\ EvidenceOpen(id)
    /\ claim.validUntil >= Current.anchor + Parameters.revealEnd
                             + Risk(id.content).grace + Parameters.window
    /\ proposals[id].state # "CancelledBeforeCutoff"
    /\ proposals' = [proposals EXCEPT ![id].availability = claim]
    /\ OnlyProposals

-----------------------------------------------------------------------------
(* The frozen set and the ballot *)

CurrentRegisteredWeight(e) == MapThenSumSet(LAMBDA s : s.weight, Registered(e))

FreezeEpochProposalSet ==
    LET ids == {id \in DOMAIN proposals : id.epoch = clock.epoch
                    /\ proposals[id].state # "CancelledBeforeCutoff"}
    IN  /\ Anchored /\ Since(Parameters.cutoff) /\ Before(Parameters.commitStart)
        /\ ~Current.frozen
        /\ Cardinality(ids) <= Parameters.maxProposals
        /\ epochs' = [epochs EXCEPT ![clock.epoch].frozen = TRUE,
                          ![clock.epoch].ordered = SetToSeq(ids),
                          ![clock.epoch].weight = CurrentRegisteredWeight(clock.epoch)]
        /\ proposals' = [id \in DOMAIN proposals |->
               IF id \in ids THEN [proposals[id] EXCEPT !.state = "ProposalSetFrozen"]
               ELSE proposals[id]]
        /\ UNCHANGED <<clock, canonical, slots, votingPower, refunds, treasury,
                       burned, history, paid>>

\* The states of the frozen proposals advance with the first ballot of a phase.
Advance(from, to) ==
    [id \in DOMAIN proposals |->
        IF id \in ToSet(Current.ordered) /\ proposals[id].state \in from
        THEN [proposals[id] EXCEPT !.state = to] ELSE proposals[id]]

\* The preimage of ballot_commitment: any digest may be committed, and only one
\* of this voter, set and choices can be opened.
Commitment(voter, choices) == <<clock.epoch, voter, Current.ordered, choices>>

CommitEpochBallot(voter, choices) ==
    /\ HasPower(clock.epoch, voter)
    /\ Anchored /\ Current.frozen
    /\ Since(Parameters.commitStart) /\ Before(Parameters.commitEnd)
    /\ voter \notin DOMAIN Current.commitments
    /\ proposals' = Advance({"ProposalSetFrozen"}, "VotingCommit")
    /\ epochs' = [epochs EXCEPT ![clock.epoch].commitments =
           Put(@, voter, [commitment |-> Commitment(voter, choices), revealed |-> None])]
    /\ UNCHANGED <<clock, canonical, slots, votingPower, refunds, treasury, burned,
                   history, paid>>

\* validate_ballot_choices
ChoicesValid(choices) == Len(choices) = Len(Current.ordered)

RevealEpochBallot(voter, choices) ==
    /\ Anchored /\ Since(Parameters.commitEnd) /\ Before(Parameters.revealEnd)
    /\ ChoicesValid(choices)
    /\ Current.frozen
    /\ voter \in DOMAIN Current.commitments
    /\ Current.commitments[voter].revealed = None
    /\ Current.commitments[voter].commitment = Commitment(voter, choices)
    /\ proposals' = Advance({"VotingCommit", "ProposalSetFrozen"}, "VotingReveal")
    /\ epochs' = [epochs EXCEPT ![clock.epoch].commitments[voter].revealed = choices]
    /\ UNCHANGED <<clock, canonical, slots, votingPower, refunds, treasury, burned,
                   history, paid>>

-----------------------------------------------------------------------------
(* The decision *)

\* Tally::add over the revealed ballots, for the proposal at one place of the
\* frozen order.
Tally(e, place) ==
    LET revealed == {a \in DOMAIN epochs[e].commitments :
                         epochs[e].commitments[a].revealed # None}
        chose(c) == {a \in revealed : epochs[e].commitments[a].revealed[place] = c}
        weigh(as) == SumFunction([a \in as |-> SnapshotOf(e, a).weight])
    IN  [yes |-> weigh(chose("Yes")), no |-> weigh(chose("No")),
         abstain |-> weigh(chose("Abstain")),
         participants |-> Cardinality(revealed),
         yesIdentities |-> Cardinality(chose("Yes")),
         verifiedYes |-> Cardinality({a \in chose("Yes") :
                             VerifiedOrHuman(SnapshotOf(e, a).status)})]

ProposalEvidenceReady(id, until) ==
    LET p == proposals[id]
        gate == Risk(id.content).gate
    IN  /\ p.ai # None /\ p.build # None /\ p.availability # None
        /\ p.ai.attestations >= gate.attestations /\ p.ai.families >= gate.families
        /\ p.ai.owners >= gate.owners
        /\ \/ p.ai.unresolved < gate.criticalOwners
           \/ id.content.critical /\ p.waiver # None
        /\ p.build.builders >= gate.builders /\ p.build.platforms >= gate.platforms
        /\ p.build.matching
        /\ p.availability.providers >= gate.providers
        /\ p.availability.validUntil >= until

\* The decision finalize_epoch_voting takes at a block for one proposal.
DecisionAt(id, place, block) ==
    LET tally == Tally(id.epoch, place)
        gate == Risk(id.content).gate
        graceEnd == block + Risk(id.content).grace
        quorum == /\ RatioBps(tally.yes + tally.no + tally.abstain,
                              epochs[id.epoch].weight) >= gate.turnout
                  /\ tally.participants >= gate.participants
        approved == /\ RatioBps(tally.yes, tally.yes + tally.no) >= gate.yes
                    /\ tally.yesIdentities >= gate.yesIdentities
                    /\ tally.verifiedYes >= gate.verifiedYes
        state == IF ~ProposalEvidenceReady(id, graceEnd + Parameters.window) THEN "Expired"
                 ELSE IF ~quorum THEN "NoQuorum"
                 ELSE IF approved THEN "AcceptedPendingGrace" ELSE "Rejected"
    IN  [state |-> state, tally |-> tally, finalizedAt |-> block,
         graceEnd |-> IF state = "AcceptedPendingGrace" THEN graceEnd ELSE None]

\* Mutant: an accepted proposal may be executed from the decision on.
MutDecided(p, decision) ==
    [p EXCEPT !.state = decision.state, !.decision = decision,
              !.settled = @ \/ decision.state # "AcceptedPendingGrace",
              !.notBefore = decision.finalizedAt,
              !.expires = decision.finalizedAt + Parameters.window]

Decided(p, decision) ==
    [p EXCEPT !.state = decision.state, !.decision = decision,
              !.settled = @ \/ decision.state # "AcceptedPendingGrace",
              !.notBefore = IF decision.graceEnd = None THEN @ ELSE decision.graceEnd,
              !.expires = IF decision.graceEnd = None THEN @
                          ELSE decision.graceEnd + Parameters.window]

\* Mutant: what is burned goes to the treasury as well.
MutRejectedSettlement(bond) ==
    [refund |-> 0, burned |-> ApplyBps(bond, Parameters.burnBps), treasury |-> bond]

\* settle_rejected_bond, and settle_no_quorum_like_bond: what a bond pays to
\* its proposer, to the treasury and to no one.
RejectedSettlement(bond) ==
    LET burn == ApplyBps(bond, Parameters.burnBps)
    IN  [refund |-> 0, burned |-> burn, treasury |-> bond - burn]
NoQuorumSettlement(bond) ==
    LET fee == Min({bond, Parameters.noQuorumFee})
    IN  [refund |-> bond - fee, burned |-> 0, treasury |-> fee]

\* The settlement of a proposal whose state becomes to; nothing when settled.
Settlement(p, to) ==
    IF p.settled \/ to = "AcceptedPendingGrace"
    THEN [refund |-> 0, burned |-> 0, treasury |-> 0]
    ELSE IF to = "Rejected" THEN RejectedSettlement(p.bond)
    ELSE NoQuorumSettlement(p.bond)

FinalizeEpochVoting ==
    LET place(id) == CHOOSE n \in 1..Len(Current.ordered) : Current.ordered[n] = id
        ids == ToSet(Current.ordered)
        decision(id) == DecisionAt(id, place(id), clock.block)
        pays(id) == Settlement(proposals[id], decision(id).state)
    IN  /\ Anchored /\ Since(Parameters.revealEnd) /\ ~Current.finalized /\ Current.frozen
        /\ proposals' = [id \in DOMAIN proposals |->
               IF id \in ids THEN Decided(proposals[id], decision(id)) ELSE proposals[id]]
        /\ refunds' = [a \in Identities |-> refunds[a] +
               MapThenSumSet(LAMBDA id : pays(id).refund, {id \in ids : id.proposer = a})]
        /\ treasury' = treasury + MapThenSumSet(LAMBDA id : pays(id).treasury, ids)
        /\ burned' = burned + MapThenSumSet(LAMBDA id : pays(id).burned, ids)
        /\ epochs' = [epochs EXCEPT ![clock.epoch].finalized = TRUE]
        /\ UNCHANGED <<clock, canonical, slots, votingPower, history, paid>>

-----------------------------------------------------------------------------
(* Grace, challenges and execution *)

EnterExecutionReadyState(id) ==
    LET p == proposals[id]
    IN  /\ p.state = "AcceptedPendingGrace" /\ p.challenge = None
        /\ clock.block \in p.notBefore..p.expires
        /\ proposals' = [proposals EXCEPT ![id].state = "AcceptedPendingExecution"]
        /\ OnlyProposals

\* The challenge carries manifest bytes; whether they are the candidate's is
\* looked at only when it is resolved.
OpenObjectiveChallenge(id, bytes) ==
    /\ proposals[id].state = "AcceptedPendingGrace"
    /\ clock.block < proposals[id].notBefore
    /\ proposals[id].challenge = None
    /\ proposals' = [proposals EXCEPT ![id].challenge = bytes, ![id].state = "Challenged"]
    /\ OnlyProposals

\* A challenge is upheld when the candidate's bytes do not have the digest the
\* proposal declares; other bytes make the call fail and stay pending.
ResolveObjectiveChallenge(id) ==
    LET upheld == ~id.content.digestMatches
        pays == Settlement(proposals[id], "Rejected")
    IN  /\ proposals[id].state = "Challenged"
        /\ proposals[id].challenge = id.content.candidate
        /\ proposals' = [proposals EXCEPT
               ![id].challenge = None,
               ![id].state = IF upheld THEN "Rejected" ELSE "AcceptedPendingGrace",
               ![id].settled = @ \/ upheld]
        /\ burned' = IF upheld THEN burned + pays.burned ELSE burned
        /\ treasury' = IF upheld THEN treasury + pays.treasury ELSE treasury
        /\ UNCHANGED <<clock, canonical, epochs, slots, votingPower, refunds, history, paid>>

Executable(id) ==
    /\ proposals[id].state = "AcceptedPendingExecution"
    /\ clock.block \in proposals[id].notBefore..proposals[id].expires
    /\ proposals[id].challenge = None

\* Mutant: the parent is not compared with the canonical reference.
MutParentIsCanonical(id) == TRUE

ParentIsCanonical(id) == id.content.parent = canonical

ExecuteProposal(id) ==
    LET p == proposals[id]
    IN  /\ Executable(id)
        /\ ParentIsCanonical(id)
        /\ canonical' = id.content.candidate
        /\ history' = Append(history, [previous |-> canonical, new |-> id.content.candidate,
                                       proposal |-> id, reverts |-> id.content.reverts])
        /\ proposals' = [proposals EXCEPT
               ![id].state = IF id.content.reverts = None THEN "Executed" ELSE "Reverted",
               ![id].settled = TRUE]
        /\ refunds' = IF p.settled THEN refunds ELSE Credit(refunds, id.proposer, p.bond)
        /\ UNCHANGED <<clock, epochs, slots, votingPower, treasury, burned, paid>>

\* execute_proposal on a proposal whose parent is no longer canonical: the call
\* fails and leaves the proposal stale and its bond settled.
ExecuteStaleProposal(id) ==
    LET pays == Settlement(proposals[id], "Stale")
    IN  /\ Executable(id)
        /\ ~ParentIsCanonical(id)
        /\ proposals' = [proposals EXCEPT ![id].state = "Stale", ![id].settled = TRUE]
        /\ refunds' = Credit(refunds, id.proposer, pays.refund)
        /\ treasury' = treasury + pays.treasury
        /\ UNCHANGED <<clock, canonical, epochs, slots, votingPower, burned, history, paid>>

ClaimRefund(a) ==
    /\ refunds[a] > 0
    /\ refunds' = [refunds EXCEPT ![a] = 0]
    /\ paid' = paid + refunds[a]
    /\ UNCHANGED <<clock, canonical, epochs, slots, proposals, votingPower, treasury,
                   burned, history>>

-----------------------------------------------------------------------------
\* The ballots a voter fills in: one choice per frozen proposal.
Ballots(a) == IF Anchored THEN [1..Len(Current.ordered) -> VoteChoices(a)] ELSE {}

ProposalStep(id) ==
    \/ CancelProposal(id)
    \/ \E claim \in AiClaims(id.content) :
           \/ AttachAiReviewRoot(id, claim)
           \/ AttachCriticalFindingWaiver(id, [root |-> claim.root,
                                               unresolved |-> claim.unresolved])
    \/ \E reviewer \in Reviewers(id.content) : AttachManualReview(id, reviewer)
    \/ \E claim \in BuildClaims(id.content) : AttachBuildRoot(id, claim)
    \/ \E claim \in AvailabilityClaims(id.content) : AttachDataAvailabilityRoot(id, claim)
    \/ EnterExecutionReadyState(id)
    \/ \E bytes \in Cids : OpenObjectiveChallenge(id, bytes)
    \/ ResolveObjectiveChallenge(id)
    \/ ExecuteProposal(id)
    \/ ExecuteStaleProposal(id)

Next ==
    \/ Tick
    \/ AnchorGovernanceEpoch
    \/ \E s \in Snapshots(clock.epoch) : RegisterVotingPower(s)
    \/ \E a \in Identities, bond \in Bonds : \E content \in Contents(clock.epoch, a) :
           CreateProposal(a, content, bond)
    \/ \E a \in Identities, form \in Reverts, index \in DOMAIN history, bond \in Bonds :
           CreateRevertProposal(a, form, index, bond)
    \/ \E id \in DOMAIN proposals : ProposalStep(id)
    \/ FreezeEpochProposalSet
    \/ \E a \in Identities : \E choices \in Ballots(a) :
           CommitEpochBallot(a, choices) \/ RevealEpochBallot(a, choices)
    \/ FinalizeEpochVoting
    \/ \E a \in Identities : ClaimRefund(a)

Spec == Init /\ [][Next]_vars

-----------------------------------------------------------------------------
(* Properties *)

Proposals == DOMAIN proposals

\* Every atom attached to a proposal is in exactly one place: still bonded,
\* owed to the proposer, in the treasury, burned, or paid out.  No order of
\* cancellation, decision, challenge, stale execution and claim settles a bond
\* twice or forgets it.
BondsConserved ==
    MapThenSumSet(LAMBDA id : proposals[id].bond, Proposals) =
        MapThenSumSet(LAMBDA id : proposals[id].bond,
                      {id \in Proposals : ~proposals[id].settled})
        + MapThenSumSet(LAMBDA a : refunds[a], Identities) + treasury + burned + paid

\* A decision stays reproducible: recomputed later from the frozen weights, the
\* revealed ballots and the attached evidence, finalize_epoch_voting would
\* decide the same at the same block.
DecisionsReproducible ==
    \A id \in Proposals :
        proposals[id].decision # None =>
            \E place \in 1..Len(epochs[id.epoch].ordered) :
                /\ epochs[id.epoch].ordered[place] = id
                /\ proposals[id].decision = DecisionAt(id, place, proposals[id].decision.finalizedAt)

\* The reference moves only after the grace period of an accepted decision, and
\* only through a proposal that no unresolved challenge holds.
ExecutionAfterGrace ==
    [][canonical' # canonical =>
        \E id \in Proposals :
            /\ id.content.candidate = canonical'
            /\ proposals[id].decision # None
            /\ proposals[id].decision.state = "AcceptedPendingGrace"
            /\ clock.block >= proposals[id].decision.finalizedAt + Risk(id.content).grace
            /\ proposals[id].challenge = None]_vars

\* A waiver excuses the findings of the review it names: a decided proposal is
\* excused by a waiver of the very review root it carries.
WaiverCoversReview ==
    \A id \in Proposals :
        proposals[id].decision # None /\ proposals[id].waiver # None =>
            proposals[id].waiver.root = proposals[id].ai.root

AcceptedStates == {"AcceptedPendingGrace", "Challenged", "AcceptedPendingExecution"}
ClosedStates == {"CancelledBeforeCutoff", "Rejected", "NoQuorum", "Expired", "Stale",
                 "Executed", "Reverted"}

\* The engine implements what governance promises about the canonical reference.
Reference == INSTANCE CanonicalReference WITH
    Parent <- LAMBDA id : id.content.parent,
    Candidate <- LAMBDA id : id.content.candidate,
    moves <- [n \in DOMAIN history |-> history[n].proposal],
    accepted <- {id \in Proposals : proposals[id].state \in AcceptedStates},
    closed <- {id \in Proposals : proposals[id].state \in ClosedStates}

ImplementsReference == Reference!Spec

\* The bonds and the decisions of the engine.
EpochSound == BondsConserved /\ DecisionsReproducible
==============================================================================
