------------------------ MODULE EpochGovernanceProofs ------------------------
(***************************************************************************)
(* Machine-checked proofs about EpochGovernance, for every set of          *)
(* identities, contents, claims and parameters and any number of blocks.   *)
(***************************************************************************)
EXTENDS EpochGovernance, FiniteSetTheorems, TLAPS

OpenStates == {"Submitted", "ReviewOpen", "RevertProposed"}
BallotStates == {"ProposalSetFrozen", "VotingCommit", "VotingReveal"}

Fields == {"state", "bond", "settled", "ai", "waiver", "manual", "build",
           "availability", "decision", "challenge", "notBefore", "expires"}
EpochFields == {"anchor", "frozen", "ordered", "weight", "commitments", "finalized"}

Types ==
    /\ clock.block \in Nat
    /\ IsFiniteSet(Proposals)
    /\ \A id \in Proposals : DOMAIN proposals[id] = Fields /\ id.epoch \in DOMAIN epochs
    /\ \A e \in DOMAIN epochs :
          /\ DOMAIN epochs[e] = EpochFields /\ epochs[e].anchor \in Nat
          /\ epochs[e].frozen \in BOOLEAN /\ epochs[e].finalized \in BOOLEAN
          /\ epochs[e].ordered \in Seq(Proposals)
    /\ history \in Seq(Range(history))

\* A proposal of an epoch that is not frozen is still open or cancelled, and a
\* frozen one is in the ballot until the epoch is decided.
StageInv ==
    /\ \A id \in Proposals : ~epochs[id.epoch].frozen =>
          proposals[id].state \in OpenStates \cup {"CancelledBeforeCutoff"}
    /\ \A e \in DOMAIN epochs : \A id \in ToSet(epochs[e].ordered) :
          /\ id.epoch = e /\ epochs[e].frozen
          /\ ~epochs[e].finalized => proposals[id].state \in BallotStates

\* An accepted proposal carries the decision that accepted it, and the block
\* from which that decision lets it run.
Granted(id, p) == \E tally : \E block \in Nat :
    LET graceEnd == block + Risk(id.content).grace
    IN  /\ p.decision = [state |-> "AcceptedPendingGrace", tally |-> tally,
                         finalizedAt |-> block, graceEnd |-> graceEnd]
        /\ p.notBefore = graceEnd

AcceptedInv == \A id \in Proposals :
    proposals[id].state \in AcceptedStates =>
        epochs[id.epoch].finalized /\ Granted(id, proposals[id])

\* Epochs are decided when their ballot is over, and their decisions are those
\* of the state as it is.
Reproduced(id) ==
    \E place \in 1..Len(epochs[id.epoch].ordered) :
        /\ epochs[id.epoch].ordered[place] = id
        /\ proposals[id].decision = DecisionAt(id, place, proposals[id].decision.finalizedAt)

DecidedInv ==
    /\ \A e \in DOMAIN epochs : epochs[e].finalized =>
          epochs[e].frozen /\ clock.block >= epochs[e].anchor + Parameters.revealEnd
    /\ \A id \in Proposals : proposals[id].decision # None =>
          epochs[id.epoch].finalized /\ Reproduced(id)

IInv == Types /\ StageInv /\ AcceptedInv /\ DecidedInv

\* None stands for a decision that was not taken.
NoneIsNoDecision ==
    \A s, t, b, g : None # [state |-> s, tally |-> t, finalizedAt |-> b, graceEnd |-> g]

-----------------------------------------------------------------------------

LEMMA ParametersAre ==
    /\ Parameters.cutoff \in Nat /\ Parameters.commitStart \in Nat
    /\ Parameters.commitEnd \in Nat /\ Parameters.revealEnd \in Nat
    /\ Parameters.cutoff < Parameters.commitStart
    /\ Parameters.commitStart < Parameters.commitEnd
    /\ Parameters.commitEnd < Parameters.revealEnd
    /\ None \notin Nat
    /\ \A content : Risk(content).grace \in Nat
BY EpochGovernanceAssumption DEF ParametersValid, Risk

\* A decision depends on the ballots, the frozen weights and the evidence only.
LEMMA TallyStable ==
    ASSUME NEW e, epochs'[e].commitments = epochs[e].commitments,
           Registered(e)' = Registered(e), NEW place
    PROVE  Tally(e, place)' = Tally(e, place)
BY DEF Tally, SnapshotOf

SameEvidence(p, q) ==
    /\ q.ai = p.ai /\ q.waiver = p.waiver /\ q.build = p.build
    /\ q.availability = p.availability

LEMMA DecisionStable ==
    ASSUME NEW id, epochs'[id.epoch].commitments = epochs[id.epoch].commitments,
           epochs'[id.epoch].weight = epochs[id.epoch].weight,
           Registered(id.epoch)' = Registered(id.epoch),
           SameEvidence(proposals[id], proposals'[id]),
           NEW place, NEW block
    PROVE  DecisionAt(id, place, block)' = DecisionAt(id, place, block)
<1>1. Tally(id.epoch, place)' = Tally(id.epoch, place)
  BY TallyStable
<1>2. \A until : ProposalEvidenceReady(id, until)' = ProposalEvidenceReady(id, until)
  BY DEF SameEvidence, ProposalEvidenceReady
<1> QED BY <1>1, <1>2 DEF DecisionAt

\* The frozen order lists proposals of the set it was made from.
LEMMA OrderIsOfSet ==
    ASSUME NEW S, IsFiniteSet(S)
    PROVE  SetToSeq(S) \in Seq(S)
<1>1. PICK f \in [1..Cardinality(S) -> S] : f \in Bijection(1..Cardinality(S), S)
  BY FS_NatBijection, FS_CardinalityType DEF ExistsBijection, Bijection, Injection
<1>2. IsInjective(f)
  BY <1>1 DEF Bijection, Injection, IsInjective
<1>3. SetToSeq(S) \in [1..Cardinality(S) -> S]
  BY <1>1, <1>2 DEF SetToSeq
<1> QED BY <1>3, FS_CardinalityType

LEMMA InitHolds == Init => IInv
<1> SUFFICES ASSUME Init PROVE IInv
  OBVIOUS
<1>1. Proposals = {} /\ DOMAIN epochs = {} /\ clock.block = 0
  BY DEF Init, Proposals
<1>2. history \in Seq(Range(history))
  BY DEF Init
<1> QED BY <1>1, <1>2, FS_EmptySet DEF IInv, Types, StageInv, AcceptedInv, DecidedInv

\* The initial state is that of a reference nothing has moved.
LEMMA InitMaps == Init => Reference!Init
<1> SUFFICES ASSUME Init PROVE Reference!Init
  OBVIOUS
<1>1. Proposals = {} /\ history = <<>> /\ canonical = Genesis
  BY DEF Init, Proposals
<1>2. [n \in DOMAIN history |-> history[n].proposal] = <<>>
  BY <1>1
<1> QED BY <1>1, <1>2 DEF Reference!Init

-----------------------------------------------------------------------------
(* What a step may do *)

\* What a step may do to the state of one proposal.
Advances(p, q) ==
    /\ p.state \in ClosedStates => q.state \in ClosedStates
    /\ p.state \in AcceptedStates => q.state \in AcceptedStates \cup ClosedStates

\* A step that leaves the reference alone and reopens nothing maps to a step
\* that decides.
LEMMA Decides ==
    ASSUME UNCHANGED <<canonical, history>>, Proposals \subseteq Proposals',
           \A id \in Proposals : Advances(proposals[id], proposals'[id])
    PROVE  Reference!Next
<1>1. Reference!Decide
  BY DEF Reference!Decide, Advances, AcceptedStates, ClosedStates
<1> QED BY <1>1 DEF Reference!Next

\* What ExecutionAfterGrace says of a step.
Waits ==
    canonical' # canonical =>
        \E id \in Proposals :
            /\ id.content.candidate = canonical'
            /\ proposals[id].decision # None
            /\ proposals[id].decision.state = "AcceptedPendingGrace"
            /\ clock.block >= proposals[id].decision.finalizedAt + Risk(id.content).grace
            /\ proposals[id].challenge = None

Sound == IInv' /\ Reference!Next /\ (NoneIsNoDecision => Waits)

\* The effect of a call that changes one proposal and no epoch.
LEMMA OneProposal ==
    ASSUME IInv, NEW id \in Proposals, NEW q, DOMAIN q = Fields,
           proposals' = [proposals EXCEPT ![id] = q],
           UNCHANGED <<clock, epochs, votingPower>>,
           history' \in Seq(Range(history')),
           epochs[id.epoch].frozen
               \/ q.state \in OpenStates \cup {"CancelledBeforeCutoff"},
           proposals[id].state \in BallotStates => q.state \in BallotStates,
           q.state \in AcceptedStates => epochs[id.epoch].finalized /\ Granted(id, q),
           q.decision = proposals[id].decision,
           proposals[id].decision # None => SameEvidence(proposals[id], q)
    PROVE  IInv'
<1>1. /\ Proposals' = Proposals /\ proposals'[id] = q
      /\ \A i \in Proposals \ {id} : proposals'[i] = proposals[i]
  BY DEF Proposals
<1>2. Types'
  BY <1>1 DEF IInv, Types
<1>3. \A e \in DOMAIN epochs : \A i \in ToSet(epochs[e].ordered) : i \in Proposals
  BY DEF IInv, Types, ToSet
<1>4. StageInv'
  BY <1>1, <1>3 DEF IInv, StageInv
<1>5. AcceptedInv'
  <2> SUFFICES ASSUME NEW i \in Proposals, proposals'[i].state \in AcceptedStates
               PROVE  epochs[i.epoch].finalized /\ Granted(i, proposals[i])'
    BY <1>1 DEF AcceptedInv
  <2>1. epochs[i.epoch].finalized /\ Granted(i, proposals'[i])
    BY <1>1 DEF IInv, AcceptedInv
  <2> QED BY <2>1, Zenon DEF Granted
<1>6. DecidedInv'
  <2> SUFFICES ASSUME NEW i \in Proposals, proposals'[i].decision # None
               PROVE  epochs[i.epoch].finalized /\ Reproduced(i)'
    BY <1>1 DEF IInv, DecidedInv
  <2>1. /\ proposals'[i].decision = proposals[i].decision
        /\ SameEvidence(proposals[i], proposals'[i])
    BY <1>1 DEF SameEvidence
  <2>2. epochs[i.epoch].finalized /\ Reproduced(i)
    BY <2>1 DEF IInv, DecidedInv
  <2>3. \A place, block : DecisionAt(i, place, block)' = DecisionAt(i, place, block)
    BY <2>1, DecisionStable DEF Registered
  <2> QED BY <2>1, <2>2, <2>3 DEF Reproduced
<1> QED BY <1>2, <1>4, <1>5, <1>6 DEF IInv

-----------------------------------------------------------------------------
(* One call on one proposal *)

\* Evidence is attached before the ballot opens, so before the decision.
LEMMA EvidencePrecedesDecision ==
    ASSUME IInv, NEW id \in Proposals, EvidenceOpen(id)
    PROVE  proposals[id].decision = None /\ proposals[id].state \notin AcceptedStates
<1> DEFINE a == epochs[id.epoch].anchor
<1>1. a \in Nat /\ clock.block \in Nat /\ clock.block < a + Parameters.commitStart
  BY DEF EvidenceOpen, Anchored, Before, Current, IInv, Types
<1>2. ~(clock.block >= a + Parameters.revealEnd)
  BY <1>1, ParametersAre
<1> QED BY <1>2 DEF IInv, DecidedInv, AcceptedInv, Types

\* A call that changes one proposal and leaves the reference alone.
LEMMA QuietCall ==
    ASSUME IInv, NEW id \in Proposals, NEW q, DOMAIN q = Fields,
           proposals' = [proposals EXCEPT ![id] = q],
           UNCHANGED <<clock, epochs, votingPower, canonical, history>>,
           epochs[id.epoch].frozen
               \/ q.state \in OpenStates \cup {"CancelledBeforeCutoff"},
           proposals[id].state \in BallotStates => q.state \in BallotStates,
           q.state \in AcceptedStates => epochs[id.epoch].finalized /\ Granted(id, q),
           q.decision = proposals[id].decision,
           proposals[id].decision # None => SameEvidence(proposals[id], q),
           Advances(proposals[id], q)
    PROVE  Sound
<1>1. IInv'
  BY OneProposal, Zenon DEF IInv, Types
<1>2. \A i \in Proposals : Advances(proposals[i], proposals'[i])
  BY DEF Advances, Proposals
<1>3. Proposals' = Proposals
  BY DEF Proposals
<1> QED BY <1>1, <1>2, <1>3, Decides DEF Sound, Waits

LEMMA Attached ==
    ASSUME IInv, NEW id \in Proposals, EvidenceOpen(id), OnlyProposals,
           NEW q, DOMAIN q = Fields, proposals' = [proposals EXCEPT ![id] = q],
           q.decision = proposals[id].decision,
           \/ q.state = proposals[id].state
           \/ proposals[id].state = "Submitted" /\ q.state = "ReviewOpen"
    PROVE  Sound
<1>1. proposals[id].decision = None /\ proposals[id].state \notin AcceptedStates
  BY EvidencePrecedesDecision
<1>2. q.state \notin AcceptedStates
  BY <1>1 DEF AcceptedStates
<1>3. /\ proposals[id].state \in BallotStates => q.state \in BallotStates
      /\ proposals[id].state \in ClosedStates => q.state \in ClosedStates
  BY DEF BallotStates, ClosedStates
<1>4. epochs[id.epoch].frozen \/ q.state \in OpenStates \cup {"CancelledBeforeCutoff"}
  BY DEF IInv, StageInv, OpenStates
<1> QED BY <1>1, <1>2, <1>3, <1>4, QuietCall, Zenon DEF OnlyProposals, Advances

\* A review opens the review of a submitted proposal.
LEMMA AttachAiSound ==
    ASSUME IInv, NEW id \in Proposals, NEW claim, AttachAiReviewRoot(id, claim)
    PROVE  Sound
<1> DEFINE p == proposals[id]
<1>1. DOMAIN p = Fields
  BY DEF IInv, Types
<1>2. PICK q : q = [p EXCEPT !.ai = claim,
                             !.state = IF p.state = "Submitted" THEN "ReviewOpen" ELSE p.state]
  OBVIOUS
<1>3. proposals' = [proposals EXCEPT ![id] = q]
  BY <1>1, <1>2, Zenon DEF AttachAiReviewRoot, Proposals, Fields
<1>4. /\ DOMAIN q = Fields /\ q.decision = p.decision
      /\ q.state = p.state \/ (p.state = "Submitted" /\ q.state = "ReviewOpen")
  BY <1>1, <1>2 DEF Fields
<1> QED BY <1>3, <1>4, Attached, Zenon DEF AttachAiReviewRoot

\* A waiver is evidence.
LEMMA AttachWaiverSound ==
    ASSUME IInv, NEW id \in Proposals, NEW waiver, AttachCriticalFindingWaiver(id, waiver)
    PROVE  Sound
<1> DEFINE p == proposals[id]
<1>1. DOMAIN p = Fields
  BY DEF IInv, Types
<1>2. PICK q : q = [p EXCEPT !.waiver = waiver]
  BY Zenon
<1>3. proposals' = [proposals EXCEPT ![id] = q]
  BY <1>1, <1>2 DEF AttachCriticalFindingWaiver, Proposals, Fields
<1>4. DOMAIN q = Fields /\ q.decision = p.decision /\ q.state = p.state
  BY <1>1, <1>2 DEF Fields
<1> QED BY <1>3, <1>4, Attached, Zenon DEF AttachCriticalFindingWaiver

\* A manual review is evidence.
LEMMA AttachManualSound ==
    ASSUME IInv, NEW id \in Proposals, NEW reviewer, AttachManualReview(id, reviewer)
    PROVE  Sound
<1> DEFINE p == proposals[id]
<1>1. DOMAIN p = Fields
  BY DEF IInv, Types
<1>2. PICK q : q = [p EXCEPT !.manual = p.manual \cup {reviewer}]
  BY Zenon
<1>3. proposals' = [proposals EXCEPT ![id] = q]
  BY <1>1, <1>2 DEF AttachManualReview, Proposals, Fields
<1>4. DOMAIN q = Fields /\ q.decision = p.decision /\ q.state = p.state
  BY <1>1, <1>2 DEF Fields
<1> QED BY <1>3, <1>4, Attached, Zenon DEF AttachManualReview

\* A build root is evidence.
LEMMA AttachBuildSound ==
    ASSUME IInv, NEW id \in Proposals, NEW claim, AttachBuildRoot(id, claim)
    PROVE  Sound
<1> DEFINE p == proposals[id]
<1>1. DOMAIN p = Fields
  BY DEF IInv, Types
<1>2. PICK q : q = [p EXCEPT !.build = claim]
  BY Zenon
<1>3. proposals' = [proposals EXCEPT ![id] = q]
  BY <1>1, <1>2 DEF AttachBuildRoot, Proposals, Fields
<1>4. DOMAIN q = Fields /\ q.decision = p.decision /\ q.state = p.state
  BY <1>1, <1>2 DEF Fields
<1> QED BY <1>3, <1>4, Attached, Zenon DEF AttachBuildRoot

\* An availability root is evidence.
LEMMA AttachAvailabilitySound ==
    ASSUME IInv, NEW id \in Proposals, NEW claim, AttachDataAvailabilityRoot(id, claim)
    PROVE  Sound
<1> DEFINE p == proposals[id]
<1>1. DOMAIN p = Fields
  BY DEF IInv, Types
<1>2. PICK q : q = [p EXCEPT !.availability = claim]
  BY ZenonT(30)
<1>3. proposals' = [proposals EXCEPT ![id] = q]
  BY <1>1, <1>2 DEF AttachDataAvailabilityRoot, Proposals, Fields
<1>4. DOMAIN q = Fields /\ q.decision = p.decision /\ q.state = p.state
  BY <1>1, <1>2 DEF Fields
<1> QED BY <1>3, <1>4, Attached, Zenon DEF AttachDataAvailabilityRoot

\* A proposal is cancelled while it is open.
LEMMA CancelSound ==
    ASSUME IInv, NEW id \in Proposals, CancelProposal(id)
    PROVE  Sound
<1> DEFINE p == proposals[id]
<1>1. DOMAIN p = Fields
  BY DEF IInv, Types
<1>2. PICK q : q = [p EXCEPT !.state = "CancelledBeforeCutoff", !.settled = TRUE]
  OBVIOUS
<1>3. proposals' = [proposals EXCEPT ![id] = q]
  BY <1>1, <1>2, Zenon DEF CancelProposal, Proposals, Fields
<1>4. /\ DOMAIN q = Fields /\ q.decision = p.decision /\ SameEvidence(p, q)
      /\ q.state = "CancelledBeforeCutoff"
  BY <1>1, <1>2 DEF SameEvidence, Fields
<1>5. p.state \notin BallotStates /\ p.state \notin AcceptedStates
  BY DEF CancelProposal, BallotStates, AcceptedStates
<1>6. q.state \in ClosedStates /\ q.state \notin AcceptedStates
  BY <1>4 DEF ClosedStates, AcceptedStates
<1> QED BY <1>3, <1>4, <1>5, <1>6, QuietCall, Zenon DEF CancelProposal, Advances

\* After its grace period an accepted proposal becomes ready.
LEMMA ReadySound ==
    ASSUME IInv, NEW id \in Proposals, EnterExecutionReadyState(id)
    PROVE  Sound
<1> DEFINE p == proposals[id]
<1>1. DOMAIN p = Fields
  BY DEF IInv, Types
<1>2. PICK q : q = [p EXCEPT !.state = "AcceptedPendingExecution"]
  BY Zenon
<1>3. proposals' = [proposals EXCEPT ![id] = q]
  BY <1>1, <1>2 DEF EnterExecutionReadyState, Proposals, Fields
<1>4. /\ DOMAIN q = Fields /\ q.decision = p.decision /\ SameEvidence(p, q)
      /\ q.state = "AcceptedPendingExecution" /\ q.notBefore = p.notBefore
  BY <1>1, <1>2 DEF SameEvidence, Fields
<1>5. p.state \in AcceptedStates /\ p.state \notin BallotStates /\ Granted(id, p)
  BY DEF EnterExecutionReadyState, IInv, AcceptedInv, AcceptedStates, BallotStates
<1>6. epochs[id.epoch].frozen /\ epochs[id.epoch].finalized
  BY <1>5 DEF IInv, Types, AcceptedInv, DecidedInv
<1>7. Granted(id, q)
  BY <1>4, <1>5, Zenon DEF Granted
<1>8. q.state \in AcceptedStates \cup ClosedStates /\ p.state \notin ClosedStates
  BY <1>4, <1>5 DEF AcceptedStates, ClosedStates
<1> QED BY <1>3, <1>4, <1>5, <1>6, <1>7, <1>8, QuietCall, Zenon
       DEF EnterExecutionReadyState, OnlyProposals, Advances

\* A challenged proposal stays accepted.
LEMMA ChallengeSound ==
    ASSUME IInv, NEW id \in Proposals, NEW bytes, OpenObjectiveChallenge(id, bytes)
    PROVE  Sound
<1> DEFINE p == proposals[id]
<1>1. DOMAIN p = Fields
  BY DEF IInv, Types
<1>2. PICK q : q = [p EXCEPT !.challenge = bytes, !.state = "Challenged"]
  OBVIOUS
<1>3. proposals' = [proposals EXCEPT ![id] = q]
  BY <1>1, <1>2, Zenon DEF OpenObjectiveChallenge, Proposals, Fields
<1>4. /\ DOMAIN q = Fields /\ q.decision = p.decision /\ SameEvidence(p, q)
      /\ q.state = "Challenged" /\ q.notBefore = p.notBefore
  BY <1>1, <1>2 DEF SameEvidence, Fields
<1>5. p.state \in AcceptedStates /\ p.state \notin BallotStates /\ Granted(id, p)
  BY DEF OpenObjectiveChallenge, IInv, AcceptedInv, AcceptedStates, BallotStates
<1>6. epochs[id.epoch].frozen /\ epochs[id.epoch].finalized
  BY <1>5 DEF IInv, Types, AcceptedInv, DecidedInv
<1>7. Granted(id, q)
  BY <1>4, <1>5, Zenon DEF Granted
<1>8. q.state \in AcceptedStates \cup ClosedStates /\ p.state \notin ClosedStates
  BY <1>4, <1>5 DEF AcceptedStates, ClosedStates
<1> QED BY <1>3, <1>4, <1>5, <1>6, <1>7, <1>8, QuietCall, Zenon
       DEF OpenObjectiveChallenge, OnlyProposals, Advances

\* A resolved challenge rejects the proposal or returns it to its grace period.
LEMMA ResolveSound ==
    ASSUME IInv, NEW id \in Proposals, ResolveObjectiveChallenge(id)
    PROVE  Sound
<1> DEFINE p == proposals[id]
<1>1. DOMAIN p = Fields
  BY DEF IInv, Types
<1>2. PICK q : q = [p EXCEPT
                 !.challenge = None,
                 !.state = IF ~id.content.digestMatches THEN "Rejected"
                           ELSE "AcceptedPendingGrace",
                 !.settled = p.settled \/ ~id.content.digestMatches]
  OBVIOUS
<1>3. proposals' = [proposals EXCEPT ![id] = q]
  BY <1>1, <1>2, Zenon DEF ResolveObjectiveChallenge, Proposals, Fields
<1>4. /\ DOMAIN q = Fields /\ q.decision = p.decision /\ SameEvidence(p, q)
      /\ q.state \in {"Rejected", "AcceptedPendingGrace"} /\ q.notBefore = p.notBefore
  BY <1>1, <1>2 DEF SameEvidence, Fields
<1>5. p.state \in AcceptedStates /\ p.state \notin BallotStates /\ Granted(id, p)
  BY DEF ResolveObjectiveChallenge, IInv, AcceptedInv, AcceptedStates, BallotStates
<1>6. epochs[id.epoch].frozen /\ epochs[id.epoch].finalized
  BY <1>5 DEF IInv, Types, AcceptedInv, DecidedInv
<1>7. Granted(id, q)
  BY <1>4, <1>5, Zenon DEF Granted
<1>8. q.state \in AcceptedStates \cup ClosedStates /\ p.state \notin ClosedStates
  BY <1>4, <1>5 DEF AcceptedStates, ClosedStates
<1> QED BY <1>3, <1>4, <1>5, <1>6, <1>7, <1>8, QuietCall, Zenon
       DEF ResolveObjectiveChallenge, OnlyProposals, Advances

\* A stale proposal is closed.
LEMMA StaleSound ==
    ASSUME IInv, NEW id \in Proposals, ExecuteStaleProposal(id)
    PROVE  Sound
<1> DEFINE p == proposals[id]
<1>1. DOMAIN p = Fields
  BY DEF IInv, Types
<1>2. PICK q : q = [p EXCEPT !.state = "Stale", !.settled = TRUE]
  OBVIOUS
<1>3. proposals' = [proposals EXCEPT ![id] = q]
  BY <1>1, <1>2, Zenon DEF ExecuteStaleProposal, Proposals, Fields
<1>4. /\ DOMAIN q = Fields /\ q.decision = p.decision /\ SameEvidence(p, q)
      /\ q.state = "Stale" /\ q.notBefore = p.notBefore
  BY <1>1, <1>2 DEF SameEvidence, Fields
<1>5. p.state \in AcceptedStates /\ p.state \notin BallotStates /\ Granted(id, p)
  BY DEF ExecuteStaleProposal, Executable, IInv, AcceptedInv, AcceptedStates, BallotStates
<1>6. epochs[id.epoch].frozen /\ epochs[id.epoch].finalized
  BY <1>5 DEF IInv, Types, AcceptedInv, DecidedInv
<1>7. Granted(id, q)
  BY <1>4, <1>5, Zenon DEF Granted
<1>8. q.state \in AcceptedStates \cup ClosedStates /\ p.state \notin ClosedStates
  BY <1>4, <1>5 DEF AcceptedStates, ClosedStates
<1> QED BY <1>3, <1>4, <1>5, <1>6, <1>7, <1>8, QuietCall, Zenon
       DEF ExecuteStaleProposal, OnlyProposals, Advances

-----------------------------------------------------------------------------
(* The execution *)

LEMMA HistoryGrows ==
    ASSUME NEW s, s \in Seq(Range(s)), NEW h
    PROVE  /\ Append(s, h) \in Seq(Range(Append(s, h)))
           /\ [n \in DOMAIN Append(s, h) |-> Append(s, h)[n].proposal]
                  = Append([n \in DOMAIN s |-> s[n].proposal], h.proposal)
<1> DEFINE T == Range(s) \cup {h}
           t == Append(s, h)
           m == [n \in DOMAIN s |-> s[n].proposal]
           M == {x.proposal : x \in T}
<1>1. s \in Seq(T) /\ h \in T
  OBVIOUS
<1>2. t \in Seq(T) /\ Len(t) = Len(s) + 1 /\ Len(s) \in Nat /\ DOMAIN t = 1..Len(t)
  BY <1>1
<1>3. \A n \in 1..Len(t) : t[n] = IF n = Len(s) + 1 THEN h ELSE s[n]
  BY <1>1, <1>2
<1>4. t \in Seq(Range(t))
  <2> HIDE DEF t, T
  <2>1. \A n \in 1..Len(t) : t[n] \in Range(t)
    BY <1>2 DEF Range
  <2>2. t = [n \in 1..Len(t) |-> t[n]]
    BY <1>2
  <2> QED BY <2>1, <2>2, <1>2
<1>5. m \in Seq(M) /\ Len(m) = Len(s)
  <2>1. \A n \in 1..Len(s) : s[n] \in T
    BY <1>1
  <2>2. DOMAIN s = 1..Len(s) /\ Len(s) \in Nat
    BY <1>1
  <2>3. \A n \in 1..Len(s) : s[n].proposal \in M
    BY <2>1
  <2> HIDE DEF M, T
  <2> QED BY <2>2, <2>3
<1>6. [n \in 1..Len(t) |-> t[n].proposal] = Append(m, h.proposal)
  <2>1. h.proposal \in M
    OBVIOUS
  <2>2. Append(m, h.proposal) \in Seq(M) /\ Len(Append(m, h.proposal)) = Len(s) + 1
    BY <2>1, <1>5
  <2>3. \A n \in 1..Len(s) + 1 :
            Append(m, h.proposal)[n] = IF n = Len(s) + 1 THEN h.proposal ELSE s[n].proposal
    BY <2>1, <1>1, <1>5
  <2> HIDE DEF M, T, t, m
  <2> QED BY <2>2, <2>3, <1>2, <1>3
<1> QED BY <1>2, <1>4, <1>6

\* The reference moves when a proposal made against it runs, after its grace
\* period and with no challenge pending.
LEMMA ExecuteSound ==
    ASSUME IInv, NEW id \in Proposals, ExecuteProposal(id)
    PROVE  Sound
<1> DEFINE p == proposals[id]
           h == [previous |-> canonical, new |-> id.content.candidate,
                 proposal |-> id, reverts |-> id.content.reverts]
<1>1. DOMAIN p = Fields
  BY DEF IInv, Types
<1>2. PICK q : q = [p EXCEPT !.state = IF id.content.reverts = None THEN "Executed"
                                       ELSE "Reverted",
                             !.settled = TRUE]
  OBVIOUS
<1>3. proposals' = [proposals EXCEPT ![id] = q]
  BY <1>1, <1>2, Zenon DEF ExecuteProposal, Proposals, Fields
<1>4. /\ DOMAIN q = Fields /\ q.decision = p.decision /\ SameEvidence(p, q)
      /\ q.state \in {"Executed", "Reverted"}
  BY <1>1, <1>2 DEF SameEvidence, Fields
<1>5. p.state \in AcceptedStates /\ p.state \notin BallotStates /\ Granted(id, p)
  BY DEF ExecuteProposal, Executable, IInv, AcceptedInv, AcceptedStates, BallotStates
<1>6. epochs[id.epoch].frozen /\ epochs[id.epoch].finalized
  BY <1>5 DEF IInv, Types, AcceptedInv, DecidedInv
<1>7. q.state \in ClosedStates /\ q.state \notin AcceptedStates
  BY <1>4 DEF AcceptedStates, ClosedStates
<1>8. /\ history' \in Seq(Range(history'))
      /\ [n \in DOMAIN history' |-> history'[n].proposal]
             = Append([n \in DOMAIN history |-> history[n].proposal], id)
  <2>1. history' = Append(history, h) /\ h.proposal = id
    BY DEF ExecuteProposal
  <2>2. history \in Seq(Range(history))
    BY DEF IInv, Types
  <2> HIDE DEF h
  <2> QED BY <2>1, <2>2, HistoryGrows
<1>9. IInv'
  BY <1>3, <1>4, <1>5, <1>6, <1>7, <1>8, OneProposal, ZenonT(30) DEF ExecuteProposal
<1>10. ASSUME NoneIsNoDecision PROVE Waits
  <2>1. clock.block >= p.notBefore /\ p.challenge = None
        /\ canonical' = id.content.candidate
    BY DEF ExecuteProposal, Executable
  <2>2. PICK tally : \E block \in Nat :
          LET graceEnd == block + Risk(id.content).grace
          IN  /\ p.decision = [state |-> "AcceptedPendingGrace", tally |-> tally,
                               finalizedAt |-> block, graceEnd |-> graceEnd]
              /\ p.notBefore = graceEnd
    BY <1>5, Zenon DEF Granted
  <2>3. p.decision # None
    BY <2>2, <1>10 DEF NoneIsNoDecision
  <2>4. /\ p.decision.state = "AcceptedPendingGrace"
        /\ clock.block >= p.decision.finalizedAt + Risk(id.content).grace
    BY <2>1, <2>2
  <2> QED BY <2>1, <2>3, <2>4 DEF Waits
<1>11. Reference!Next
  <2>1. /\ Proposals' = Proposals /\ proposals'[id] = q
        /\ \A i \in Proposals \ {id} : proposals'[i] = proposals[i]
    BY <1>3 DEF Proposals
  <2>2. id.content.parent = canonical /\ canonical' = id.content.candidate
    BY DEF ExecuteProposal, ParentIsCanonical
  <2>3. {i \in Proposals' : proposals'[i].state \in AcceptedStates}
           = {i \in Proposals : proposals[i].state \in AcceptedStates} \ {id}
    BY <2>1, <1>7
  <2>4. {i \in Proposals' : proposals'[i].state \in ClosedStates}
           = {i \in Proposals : proposals[i].state \in ClosedStates} \cup {id}
    BY <2>1, <1>7
  <2>5. id \in {i \in Proposals : proposals[i].state \in AcceptedStates}
    BY <1>5
  <2>6. Reference!Execute
    BY <2>2, <2>3, <2>4, <2>5, <1>8, Zenon DEF Reference!Execute
  <2> QED BY <2>6 DEF Reference!Next
<1> QED BY <1>9, <1>10, <1>11 DEF Sound

-----------------------------------------------------------------------------
(* Time, epochs, voting power and new proposals *)

\* What was decided stays, and is still what the state would decide.
LEMMA DecisionKept ==
    ASSUME IInv, NEW id \in Proposals, proposals[id].decision # None,
           proposals'[id].decision = proposals[id].decision,
           SameEvidence(proposals[id], proposals'[id]),
           epochs'[id.epoch] = epochs[id.epoch],
           Registered(id.epoch)' = Registered(id.epoch)
    PROVE  epochs'[id.epoch].finalized /\ Reproduced(id)'
<1>1. epochs[id.epoch].finalized /\ Reproduced(id)
  BY DEF IInv, DecidedInv
<1>2. \A place, block : DecisionAt(id, place, block)' = DecisionAt(id, place, block)
  BY DecisionStable
<1> QED BY <1>1, <1>2 DEF Reproduced

LEMMA OrderedAreProposals ==
    ASSUME IInv, NEW e \in DOMAIN epochs, NEW id \in ToSet(epochs[e].ordered)
    PROVE  id \in Proposals
BY DEF IInv, Types, ToSet

\* A step that leaves the proposals, the reference and the history alone.
LEMMA Aside ==
    ASSUME IInv, UNCHANGED <<proposals, canonical, history>>,
           clock'.block \in Nat, clock'.block >= clock.block,
           DOMAIN epochs \subseteq DOMAIN epochs',
           \A e \in DOMAIN epochs : epochs'[e] = epochs[e],
           \A e \in DOMAIN epochs' \ DOMAIN epochs :
              epochs'[e] = [anchor |-> clock.block, frozen |-> FALSE, ordered |-> <<>>,
                            weight |-> 0, commitments |-> <<>>, finalized |-> FALSE],
           \A e \in DOMAIN epochs : epochs[e].frozen => Registered(e)' = Registered(e)
    PROVE  Sound
<1>1. Proposals' = Proposals
  BY DEF Proposals
<1>2. \A e \in DOMAIN epochs' \ DOMAIN epochs :
          /\ DOMAIN epochs'[e] = EpochFields /\ epochs'[e].anchor \in Nat
          /\ epochs'[e].frozen = FALSE /\ epochs'[e].finalized = FALSE
          /\ epochs'[e].ordered = <<>>
  BY DEF IInv, Types, EpochFields
<1>3. Types'
  <2>1. ASSUME NEW e \in DOMAIN epochs'
        PROVE  /\ DOMAIN epochs'[e] = EpochFields /\ epochs'[e].anchor \in Nat
               /\ epochs'[e].frozen \in BOOLEAN /\ epochs'[e].finalized \in BOOLEAN
               /\ epochs'[e].ordered \in Seq(Proposals)
    <3>1. CASE e \in DOMAIN epochs
      BY <3>1 DEF IInv, Types
    <3>2. CASE e \notin DOMAIN epochs
      <4>1. <<>> \in Seq(Proposals)
        OBVIOUS
      <4>2. /\ DOMAIN epochs'[e] = EpochFields /\ epochs'[e].anchor \in Nat
            /\ epochs'[e].frozen = FALSE /\ epochs'[e].finalized = FALSE
            /\ epochs'[e].ordered = <<>>
        BY <3>2, <1>2
      <4> QED BY <4>1, <4>2, ZenonT(30)
    <3> QED BY <3>1, <3>2
  <2>2. \A id \in Proposals : DOMAIN proposals'[id] = Fields /\ id.epoch \in DOMAIN epochs'
    BY DEF IInv, Types
  <2>3. IsFiniteSet(Proposals) /\ history' \in Seq(Range(history'))
    BY DEF IInv, Types
  <2> QED BY <2>1, <2>2, <2>3, <1>1 DEF Types
<1>4. StageInv'
  <2>1. \A id \in Proposals : epochs'[id.epoch] = epochs[id.epoch]
    BY DEF IInv, Types
  <2>2. \A e \in DOMAIN epochs' \ DOMAIN epochs : ToSet(epochs'[e].ordered) = {}
    BY <1>2 DEF ToSet
  <2>3. \A e \in DOMAIN epochs' : \A id \in ToSet(epochs'[e].ordered) :
            /\ id.epoch = e /\ epochs'[e].frozen
            /\ ~epochs'[e].finalized => proposals'[id].state \in BallotStates
    BY <2>2 DEF IInv, StageInv
  <2> QED BY <2>1, <2>3, <1>1 DEF IInv, StageInv
<1>5. AcceptedInv'
  <2>1. \A id \in Proposals : proposals[id].state \in AcceptedStates =>
            epochs'[id.epoch].finalized /\ Granted(id, proposals[id])
    BY DEF IInv, Types, AcceptedInv
  <2> QED BY <2>1, <1>1, ZenonT(30) DEF AcceptedInv, Granted
<1>6. DecidedInv'
  <2>1. \A e \in DOMAIN epochs' : epochs'[e].finalized =>
            epochs'[e].frozen /\ clock'.block >= epochs'[e].anchor + Parameters.revealEnd
    BY <1>2, ParametersAre DEF IInv, Types, DecidedInv
  <2>2. ASSUME NEW id \in Proposals, proposals[id].decision # None
        PROVE  epochs'[id.epoch].finalized /\ Reproduced(id)'
    <3>1. id.epoch \in DOMAIN epochs /\ epochs[id.epoch].frozen
      BY <2>2 DEF IInv, Types, DecidedInv
    <3> QED BY <2>2, <3>1, DecisionKept DEF SameEvidence
  <2> QED BY <2>1, <2>2, <1>1 DEF DecidedInv
<1>7. \A id \in Proposals : Advances(proposals[id], proposals'[id])
  BY DEF Advances
<1> QED BY <1>1, <1>3, <1>4, <1>5, <1>6, <1>7, Decides DEF IInv, Sound, Waits

LEMMA StutterSound ==
    ASSUME IInv, UNCHANGED vars
    PROVE  Sound
BY Aside DEF vars, Registered, IInv, Types

LEMMA TickSound ==
    ASSUME IInv, Tick
    PROVE  Sound
<1>1. clock'.block = clock.block + 1 /\ clock.block \in Nat
  BY DEF Tick, IInv, Types
<1> QED BY <1>1, Aside DEF Tick, Registered

LEMMA ClaimSound ==
    ASSUME IInv, NEW a, ClaimRefund(a)
    PROVE  Sound
BY Aside DEF ClaimRefund, Registered, IInv, Types

\* A new epoch has no proposals.
LEMMA AnchorSound ==
    ASSUME IInv, AnchorGovernanceEpoch
    PROVE  Sound
<1>1. /\ DOMAIN epochs' = {clock.epoch} \cup DOMAIN epochs /\ clock.epoch \notin DOMAIN epochs
      /\ \A e \in DOMAIN epochs : epochs'[e] = epochs[e]
      /\ epochs'[clock.epoch] =
            [anchor |-> clock.block, frozen |-> FALSE, ordered |-> <<>>,
             weight |-> 0, commitments |-> <<>>, finalized |-> FALSE]
  <2>1. PICK r : r = [anchor |-> clock.block, frozen |-> FALSE, ordered |-> <<>>,
                      weight |-> 0, commitments |-> <<>>, finalized |-> FALSE]
    BY Zenon
  <2>2. epochs' = Put(epochs, clock.epoch, r) /\ clock.epoch \notin DOMAIN epochs
    BY <2>1 DEF AnchorGovernanceEpoch, Anchored
  <2>3. /\ DOMAIN epochs' = {clock.epoch} \cup DOMAIN epochs
        /\ \A e \in DOMAIN epochs : epochs'[e] = epochs[e]
        /\ epochs'[clock.epoch] = r
    BY <2>2 DEF Put
  <2> QED BY <2>1, <2>2, <2>3, Zenon
<1>2. /\ UNCHANGED <<proposals, canonical, history, clock, votingPower>>
      /\ clock.block \in Nat
  BY DEF AnchorGovernanceEpoch, IInv, Types
<1>3. \A e : Registered(e)' = Registered(e)
  BY <1>2 DEF Registered
<1>4. \A e \in DOMAIN epochs' \ DOMAIN epochs : e = clock.epoch
  BY <1>1
<1>5. /\ clock'.block \in Nat /\ clock'.block >= clock.block
      /\ DOMAIN epochs \subseteq DOMAIN epochs'
  BY <1>1, <1>2
<1> QED BY <1>1, <1>2, <1>3, <1>4, <1>5, Aside, Zenon

\* The voting power of a frozen epoch no longer changes.
LEMMA RegisterSound ==
    ASSUME IInv, NEW s, RegisterVotingPower(s)
    PROVE  Sound
<1>1. \A e \in DOMAIN epochs : epochs[e].frozen => Registered(e)' = Registered(e)
  BY DEF RegisterVotingPower, Registered
<1> QED BY <1>1, Aside DEF RegisterVotingPower, IInv, Types

\* A new proposal is open, undecided, and of an epoch that is not frozen.
LEMMA CreateSound ==
    ASSUME IInv, NEW a, NEW content, NEW bond, CreateProposal(a, content, bond)
    PROVE  Sound
<1>1. PICK id : id = [epoch |-> clock.epoch, proposer |-> a, content |-> content]
  BY Zenon
<1>2. PICK q : q = NewProposal(content, bond)
  OBVIOUS
<1>3. /\ id \notin Proposals /\ proposals' = Put(proposals, id, q)
      /\ id.epoch \in DOMAIN epochs /\ ~epochs[id.epoch].frozen
      /\ UNCHANGED <<clock, canonical, epochs, votingPower, history>>
  <2>1. id.epoch = clock.epoch
    BY <1>1
  <2>2. /\ id \notin Proposals /\ proposals' = Put(proposals, id, q)
        /\ UNCHANGED <<clock, canonical, epochs, votingPower, history>>
    BY <1>1, <1>2 DEF CreateProposal, Proposals
  <2>3. clock.epoch \in DOMAIN epochs /\ ~epochs[clock.epoch].frozen
    BY DEF CreateProposal, Anchored, Current
  <2> QED BY <2>1, <2>2, <2>3
<1>4. /\ Proposals' = {id} \cup Proposals /\ proposals'[id] = q
      /\ \A i \in Proposals : proposals'[i] = proposals[i]
  BY <1>3 DEF Proposals, Put
<1>5. DOMAIN q = Fields /\ q.decision = None /\ q.state \in {"Submitted", "RevertProposed"}
  BY <1>2 DEF NewProposal, Fields
<1>6. Types'
  <2>1. IsFiniteSet(Proposals')
    BY <1>4, FS_AddElement DEF IInv, Types
  <2>2. \A i \in Proposals' : DOMAIN proposals'[i] = Fields /\ i.epoch \in DOMAIN epochs'
    BY <1>3, <1>4, <1>5 DEF IInv, Types
  <2>3. \A e \in DOMAIN epochs : epochs[e].ordered \in Seq(Proposals')
    BY <1>4 DEF IInv, Types
  <2> QED BY <2>1, <2>2, <2>3, <1>3 DEF IInv, Types
<1>7. StageInv'
  <2>1. \A e \in DOMAIN epochs : \A i \in ToSet(epochs[e].ordered) : proposals'[i] = proposals[i]
    BY <1>4, OrderedAreProposals
  <2> QED BY <2>1, <1>3, <1>4, <1>5 DEF IInv, StageInv, OpenStates
<1>8. AcceptedInv'
  <2> SUFFICES ASSUME NEW i \in Proposals', proposals'[i].state \in AcceptedStates
               PROVE  epochs[i.epoch].finalized /\ Granted(i, proposals[i])'
    BY <1>3 DEF AcceptedInv
  <2>1. q.state \notin AcceptedStates
    BY <1>5 DEF AcceptedStates
  <2>2. i \in Proposals /\ proposals'[i] = proposals[i]
    BY <2>1, <1>4
  <2>3. epochs[i.epoch].finalized /\ Granted(i, proposals[i])
    BY <2>2 DEF IInv, AcceptedInv
  <2> QED BY <2>2, <2>3, Zenon DEF Granted
<1>9. DecidedInv'
  <2>1. ASSUME NEW i \in Proposals, proposals[i].decision # None
        PROVE  epochs'[i.epoch].finalized /\ Reproduced(i)'
    BY <2>1, <1>3, <1>4, DecisionKept DEF SameEvidence, Registered
  <2> QED BY <2>1, <1>3, <1>4, <1>5 DEF IInv, DecidedInv
<1>10. \A i \in Proposals : Advances(proposals[i], proposals'[i])
  BY <1>4 DEF Advances
<1> QED BY <1>3, <1>4, <1>6, <1>7, <1>8, <1>9, <1>10, Decides DEF IInv, Sound, Waits

-----------------------------------------------------------------------------
(* The frozen set, the ballot and the decision of one epoch *)

\* The effect of a call that changes one epoch that is not decided, and
\* proposals of that epoch.
LEMMA OneEpoch ==
    ASSUME IInv, NEW c \in DOMAIN epochs, ~epochs[c].finalized,
           UNCHANGED <<clock, canonical, votingPower, history>>,
           DOMAIN epochs' = DOMAIN epochs,
           \A e \in DOMAIN epochs \ {c} : epochs'[e] = epochs[e],
           DOMAIN epochs'[c] = EpochFields, epochs'[c].anchor = epochs[c].anchor,
           epochs'[c].frozen = TRUE, epochs'[c].finalized \in BOOLEAN,
           epochs'[c].ordered \in Seq(Proposals),
           epochs'[c].finalized => clock.block >= epochs[c].anchor + Parameters.revealEnd,
           Proposals' = Proposals,
           \A id \in Proposals : id.epoch # c => proposals'[id] = proposals[id],
           \A id \in Proposals : id.epoch = c =>
              /\ DOMAIN proposals'[id] = Fields /\ Advances(proposals[id], proposals'[id])
              /\ proposals'[id].decision # None => epochs'[c].finalized /\ Reproduced(id)'
              /\ proposals'[id].state \in AcceptedStates =>
                    epochs'[c].finalized /\ Granted(id, proposals'[id]),
           \A id \in ToSet(epochs'[c].ordered) :
              /\ id.epoch = c
              /\ ~epochs'[c].finalized => proposals'[id].state \in BallotStates
    PROVE  Sound
<1>1. Types'
  <2>1. \A id \in Proposals : DOMAIN proposals'[id] = Fields /\ id.epoch \in DOMAIN epochs
    BY Zenon DEF IInv, Types
  <2>2. \A e \in DOMAIN epochs :
            /\ DOMAIN epochs'[e] = EpochFields /\ epochs'[e].anchor \in Nat
            /\ epochs'[e].frozen \in BOOLEAN /\ epochs'[e].finalized \in BOOLEAN
            /\ epochs'[e].ordered \in Seq(Proposals)
    BY ZenonT(30) DEF IInv, Types
  <2>3. clock.block \in Nat /\ IsFiniteSet(Proposals) /\ history \in Seq(Range(history))
    BY DEF IInv, Types
  <2> QED BY <2>1, <2>2, <2>3 DEF Types
<1>2. StageInv'
  <2>1. ASSUME NEW id \in Proposals, ~epochs'[id.epoch].frozen
        PROVE  proposals'[id].state \in OpenStates \cup {"CancelledBeforeCutoff"}
    <3>1. id.epoch \in DOMAIN epochs \ {c}
      BY <2>1 DEF IInv, Types
    <3> QED BY <2>1, <3>1 DEF IInv, StageInv
  <2>2. ASSUME NEW e \in DOMAIN epochs, NEW id \in ToSet(epochs'[e].ordered)
        PROVE  /\ id.epoch = e /\ epochs'[e].frozen
               /\ ~epochs'[e].finalized => proposals'[id].state \in BallotStates
    <3>1. CASE e = c
      BY <2>2, <3>1
    <3>2. CASE e # c
      <4>1. id \in ToSet(epochs[e].ordered) /\ epochs'[e] = epochs[e]
        BY <2>2, <3>2
      <4>2. id \in Proposals /\ id.epoch = e
        BY <4>1, OrderedAreProposals DEF IInv, StageInv
      <4> QED BY <3>2, <4>1, <4>2 DEF IInv, StageInv
    <3> QED BY <3>1, <3>2
  <2> QED BY <2>1, <2>2 DEF StageInv
<1>3. AcceptedInv'
  <2> SUFFICES ASSUME NEW id \in Proposals, proposals'[id].state \in AcceptedStates
               PROVE  epochs'[id.epoch].finalized /\ Granted(id, proposals[id])'
    BY DEF AcceptedInv
  <2>1. epochs'[id.epoch].finalized /\ Granted(id, proposals'[id])
    <3>1. CASE id.epoch = c
      BY <3>1
    <3>2. CASE id.epoch # c
      BY <3>2 DEF IInv, Types, AcceptedInv
    <3> QED BY <3>1, <3>2
  <2> QED BY <2>1, ZenonT(30) DEF Granted
<1>4. DecidedInv'
  <2>1. ASSUME NEW e \in DOMAIN epochs, epochs'[e].finalized
        PROVE  epochs'[e].frozen /\ clock'.block >= epochs'[e].anchor + Parameters.revealEnd
    BY <2>1 DEF IInv, DecidedInv
  <2>2. ASSUME NEW id \in Proposals, proposals'[id].decision # None
        PROVE  epochs'[id.epoch].finalized /\ Reproduced(id)'
    <3>1. CASE id.epoch = c
      BY <2>2, <3>1
    <3>2. CASE id.epoch # c
      <4>1. proposals'[id] = proposals[id] /\ epochs'[id.epoch] = epochs[id.epoch]
        BY <3>2 DEF IInv, Types
      <4>2. Registered(id.epoch)' = Registered(id.epoch)
        BY DEF Registered
      <4> QED BY <2>2, <4>1, <4>2, DecisionKept DEF SameEvidence
    <3> QED BY <3>1, <3>2
  <2> QED BY <2>1, <2>2 DEF DecidedInv
<1>5. \A id \in Proposals : Advances(proposals[id], proposals'[id])
  BY DEF Advances
<1> QED BY <1>1, <1>2, <1>3, <1>4, <1>5, Decides DEF IInv, Sound, Waits

\* Nothing of an epoch without a decision is accepted.
LEMMA Undecided ==
    ASSUME IInv, NEW c \in DOMAIN epochs, ~epochs[c].finalized,
           NEW id \in Proposals, id.epoch = c
    PROVE  proposals[id].decision = None /\ proposals[id].state \notin AcceptedStates
BY DEF IInv, DecidedInv, AcceptedInv

\* The proposals of an epoch are frozen once, all that are open.
LEMMA FreezeSound ==
    ASSUME IInv, FreezeEpochProposalSet
    PROVE  Sound
<1>1. PICK c : c = clock.epoch
  OBVIOUS
<1>2. PICK ids : ids = {id \in Proposals : id.epoch = c
                           /\ proposals[id].state # "CancelledBeforeCutoff"}
  BY ZenonT(30)
<1>3. PICK w : w = CurrentRegisteredWeight(c)
  OBVIOUS
<1>4. /\ c \in DOMAIN epochs /\ ~epochs[c].frozen
      /\ epochs' = [epochs EXCEPT ![c].frozen = TRUE, ![c].ordered = SetToSeq(ids),
                                  ![c].weight = w]
      /\ proposals' = [id \in Proposals |->
            IF id \in ids THEN [proposals[id] EXCEPT !.state = "ProposalSetFrozen"]
            ELSE proposals[id]]
      /\ UNCHANGED <<clock, canonical, votingPower, history>>
  BY <1>1, <1>2, <1>3 DEF FreezeEpochProposalSet, Anchored, Current, Proposals
<1>5. /\ DOMAIN epochs[c] = EpochFields /\ epochs[c].finalized \in BOOLEAN
      /\ ~epochs[c].finalized
  BY <1>4 DEF IInv, Types, DecidedInv
<1>6. SetToSeq(ids) \in Seq(ids) /\ ids \subseteq Proposals
  BY <1>2, FS_Subset, OrderIsOfSet DEF IInv, Types
<1>7. /\ DOMAIN epochs' = DOMAIN epochs
      /\ \A e \in DOMAIN epochs \ {c} : epochs'[e] = epochs[e]
      /\ DOMAIN epochs'[c] = EpochFields /\ epochs'[c].anchor = epochs[c].anchor
      /\ epochs'[c].frozen = TRUE /\ epochs'[c].finalized = epochs[c].finalized
      /\ epochs'[c].ordered = SetToSeq(ids)
  BY <1>4, <1>5, ZenonT(30) DEF EpochFields
<1>8. /\ Proposals' = Proposals
      /\ \A id \in Proposals \ ids : proposals'[id] = proposals[id]
  BY <1>4, <1>6 DEF Proposals
<1>9. \A id \in ids : DOMAIN proposals'[id] = Fields
          /\ proposals'[id].state = "ProposalSetFrozen"
          /\ proposals'[id].decision = proposals[id].decision
  BY <1>4, <1>6 DEF IInv, Types, Fields
<1>10. ASSUME NEW id \in Proposals, id.epoch = c
       PROVE  /\ DOMAIN proposals'[id] = Fields /\ Advances(proposals[id], proposals'[id])
              /\ proposals'[id].decision = None
              /\ proposals'[id].state \notin AcceptedStates
  <2>1. proposals[id].decision = None /\ proposals[id].state \notin AcceptedStates
    BY <1>4, <1>5, <1>10, Undecided
  <2>2. CASE id \in ids
    <3>1. proposals[id].state \in OpenStates
      BY <1>2, <1>4, <1>10, <2>2 DEF IInv, StageInv
    <3> QED BY <1>9, <2>1, <2>2, <3>1 DEF Advances, OpenStates, ClosedStates, AcceptedStates
  <2>3. CASE id \notin ids
    BY <1>8, <1>10, <2>1, <2>3 DEF Advances, IInv, Types
  <2> QED BY <2>2, <2>3
<1>11. \A id \in ToSet(epochs'[c].ordered) : id \in ids
  BY <1>6, <1>7 DEF ToSet
<1>12. \A id \in ids : id.epoch = c /\ proposals'[id].state \in BallotStates
  BY <1>2, <1>9 DEF BallotStates
<1>13. epochs'[c].ordered \in Seq(Proposals)
  BY <1>6, <1>7
<1>14. \A id \in Proposals : id.epoch # c => proposals'[id] = proposals[id]
  BY <1>2, <1>8
<1>15. \A id \in Proposals : id.epoch = c =>
           /\ DOMAIN proposals'[id] = Fields /\ Advances(proposals[id], proposals'[id])
           /\ proposals'[id].decision # None => epochs'[c].finalized /\ Reproduced(id)'
           /\ proposals'[id].state \in AcceptedStates =>
                 epochs'[c].finalized /\ Granted(id, proposals'[id])
  BY <1>10
<1>16. \A id \in ToSet(epochs'[c].ordered) :
           /\ id.epoch = c
           /\ ~epochs'[c].finalized => proposals'[id].state \in BallotStates
  BY <1>11, <1>12
<1>17. epochs'[c].finalized \in BOOLEAN /\ ~epochs'[c].finalized
  BY <1>5, <1>7
<1> QED BY <1>4, <1>5, <1>7, <1>8, <1>13, <1>14, <1>15, <1>16, <1>17, OneEpoch, ZenonT(30)

\* A ballot moves the frozen proposals from one ballot state to the next.
LEMMA BallotSound ==
    ASSUME IInv, NEW c, c = clock.epoch, c \in DOMAIN epochs, epochs[c].frozen,
           clock.block < epochs[c].anchor + Parameters.revealEnd,
           NEW from, from \subseteq BallotStates, NEW to \in BallotStates,
           proposals' = Advance(from, to),
           UNCHANGED <<clock, canonical, votingPower, history>>,
           DOMAIN epochs' = DOMAIN epochs,
           \A e \in DOMAIN epochs \ {c} : epochs'[e] = epochs[e],
           DOMAIN epochs'[c] = EpochFields,
           epochs'[c].anchor = epochs[c].anchor, epochs'[c].frozen = epochs[c].frozen,
           epochs'[c].finalized = epochs[c].finalized,
           epochs'[c].ordered = epochs[c].ordered
    PROVE  Sound
<1>1. /\ epochs[c].anchor \in Nat /\ epochs[c].frozen \in BOOLEAN
      /\ epochs[c].finalized \in BOOLEAN /\ epochs[c].ordered \in Seq(Proposals)
  BY DEF IInv, Types
<1>2. ~epochs[c].finalized
  <2>1. ~(clock.block >= epochs[c].anchor + Parameters.revealEnd)
    BY <1>1, ParametersAre DEF IInv, Types
  <2> QED BY <2>1 DEF IInv, DecidedInv
<1>3. PICK ids : ids = ToSet(epochs[c].ordered)
  OBVIOUS
<1>4. /\ ids \subseteq Proposals
      /\ \A id \in ids : id.epoch = c /\ proposals[id].state \in BallotStates
  BY <1>2, <1>3, OrderedAreProposals DEF IInv, StageInv
<1>5. proposals' = [id \in Proposals |->
          IF id \in ids /\ proposals[id].state \in from
          THEN [proposals[id] EXCEPT !.state = to] ELSE proposals[id]]
  BY <1>3 DEF Advance, Current, Proposals
<1>6. Proposals' = Proposals /\ \A id \in Proposals \ ids : proposals'[id] = proposals[id]
  BY <1>5 DEF Proposals
<1>7. \A id \in ids : DOMAIN proposals'[id] = Fields
          /\ proposals'[id].state \in BallotStates
          /\ proposals'[id].decision = proposals[id].decision
  <2> SUFFICES ASSUME NEW id \in ids
               PROVE  /\ DOMAIN proposals'[id] = Fields
                      /\ proposals'[id].state \in BallotStates
                      /\ proposals'[id].decision = proposals[id].decision
    OBVIOUS
  <2>1. id \in Proposals /\ DOMAIN proposals[id] = Fields /\ proposals[id].state \in BallotStates
    BY <1>4 DEF IInv, Types
  <2>2. CASE proposals[id].state \in from
    <3>1. proposals'[id] = [proposals[id] EXCEPT !.state = to]
      BY <1>5, <2>1, <2>2
    <3> QED BY <2>1, <3>1 DEF Fields
  <2>3. CASE proposals[id].state \notin from
    BY <1>5, <2>1, <2>3
  <2> QED BY <2>2, <2>3
<1>8. ASSUME NEW id \in Proposals, id.epoch = c
      PROVE  /\ DOMAIN proposals'[id] = Fields /\ Advances(proposals[id], proposals'[id])
             /\ proposals'[id].decision = None
             /\ proposals'[id].state \notin AcceptedStates
  <2>1. proposals[id].decision = None /\ proposals[id].state \notin AcceptedStates
    BY <1>2, <1>8, Undecided
  <2>2. CASE id \in ids
    <3>1. proposals[id].state \notin ClosedStates /\ proposals'[id].state \notin AcceptedStates
      BY <1>4, <1>7, <2>2 DEF BallotStates, ClosedStates, AcceptedStates
    <3> QED BY <1>7, <2>1, <2>2, <3>1 DEF Advances
  <2>3. CASE id \notin ids
    BY <1>6, <2>1, <2>3 DEF Advances, IInv, Types
  <2> QED BY <2>2, <2>3
<1>9. \A id \in Proposals : id.epoch # c => proposals'[id] = proposals[id]
  BY <1>4, <1>6
<1>10. \A id \in Proposals : id.epoch = c =>
           /\ DOMAIN proposals'[id] = Fields /\ Advances(proposals[id], proposals'[id])
           /\ proposals'[id].decision # None => epochs'[c].finalized /\ Reproduced(id)'
           /\ proposals'[id].state \in AcceptedStates =>
                 epochs'[c].finalized /\ Granted(id, proposals'[id])
  BY <1>8
<1>11. \A id \in ToSet(epochs'[c].ordered) :
           /\ id.epoch = c
           /\ ~epochs'[c].finalized => proposals'[id].state \in BallotStates
  BY <1>3, <1>4, <1>7
<1>12. /\ epochs'[c].frozen = TRUE /\ epochs'[c].finalized \in BOOLEAN
       /\ ~epochs'[c].finalized /\ epochs'[c].ordered \in Seq(Proposals)
  BY <1>1, <1>2
<1> QED BY <1>2, <1>6, <1>9, <1>10, <1>11, <1>12, OneEpoch

\* A commitment is made while the epoch is open, so before its decision.
LEMMA CommitSound ==
    ASSUME IInv, NEW a, NEW choices, CommitEpochBallot(a, choices)
    PROVE  Sound
<1>1. PICK c : c = clock.epoch
  OBVIOUS
<1>2. PICK made : made = Put(epochs[c].commitments, a,
                             [commitment |-> Commitment(a, choices), revealed |-> None])
  OBVIOUS
<1>3. /\ c \in DOMAIN epochs /\ epochs[c].frozen
      /\ clock.block < epochs[c].anchor + Parameters.commitEnd
      /\ proposals' = Advance({"ProposalSetFrozen"}, "VotingCommit")
      /\ epochs' = [epochs EXCEPT ![c].commitments = made]
      /\ UNCHANGED <<clock, canonical, votingPower, history>>
  BY <1>1, <1>2 DEF CommitEpochBallot, Anchored, Current, Before
<1>4. clock.block < epochs[c].anchor + Parameters.revealEnd
  <2>1. epochs[c].anchor \in Nat /\ clock.block \in Nat
    BY <1>3 DEF IInv, Types
  <2> QED BY <1>3, <2>1, ParametersAre
<1>5. DOMAIN epochs[c] = EpochFields
  BY <1>3 DEF IInv, Types
<1>6. /\ DOMAIN epochs' = DOMAIN epochs
      /\ \A e \in DOMAIN epochs \ {c} : epochs'[e] = epochs[e]
      /\ DOMAIN epochs'[c] = EpochFields
      /\ epochs'[c].anchor = epochs[c].anchor /\ epochs'[c].frozen = epochs[c].frozen
      /\ epochs'[c].finalized = epochs[c].finalized
      /\ epochs'[c].ordered = epochs[c].ordered
  BY <1>3, <1>5, Zenon DEF EpochFields
<1>7. {"ProposalSetFrozen"} \subseteq BallotStates /\ "VotingCommit" \in BallotStates
  BY DEF BallotStates
<1> QED BY <1>1, <1>3, <1>4, <1>6, <1>7, BallotSound

\* A commitment is opened before the decision as well.
LEMMA RevealSound ==
    ASSUME IInv, NEW a, NEW choices, RevealEpochBallot(a, choices)
    PROVE  Sound
<1>1. PICK c : c = clock.epoch
  OBVIOUS
<1>2. /\ c \in DOMAIN epochs /\ epochs[c].frozen
      /\ clock.block < epochs[c].anchor + Parameters.revealEnd
      /\ proposals' = Advance({"VotingCommit", "ProposalSetFrozen"}, "VotingReveal")
      /\ epochs' = [epochs EXCEPT ![c].commitments[a].revealed = choices]
      /\ UNCHANGED <<clock, canonical, votingPower, history>>
  BY <1>1 DEF RevealEpochBallot, Anchored, Current, Before
<1>3. DOMAIN epochs[c] = EpochFields
  BY <1>2 DEF IInv, Types
<1>4. /\ DOMAIN epochs' = DOMAIN epochs
      /\ \A e \in DOMAIN epochs \ {c} : epochs'[e] = epochs[e]
      /\ DOMAIN epochs'[c] = EpochFields
      /\ epochs'[c].anchor = epochs[c].anchor /\ epochs'[c].frozen = epochs[c].frozen
      /\ epochs'[c].finalized = epochs[c].finalized
      /\ epochs'[c].ordered = epochs[c].ordered
  BY <1>2, <1>3, Zenon DEF EpochFields
<1>5. {"VotingCommit", "ProposalSetFrozen"} \subseteq BallotStates
      /\ "VotingReveal" \in BallotStates
  BY DEF BallotStates
<1> QED BY <1>1, <1>2, <1>4, <1>5, BallotSound

\* What finalize_epoch_voting records.
LEMMA DecisionShape ==
    ASSUME NEW id, NEW place, NEW block \in Nat, NEW d, d = DecisionAt(id, place, block)
    PROVE  /\ d.state \in {"Expired", "NoQuorum", "AcceptedPendingGrace", "Rejected"}
           /\ d.finalizedAt = block
           /\ d.state = "AcceptedPendingGrace" => \E tally :
                 d = [state |-> "AcceptedPendingGrace", tally |-> tally,
                      finalizedAt |-> block, graceEnd |-> block + Risk(id.content).grace]
<1>1. PICK tally, state : 
          /\ state \in {"Expired", "NoQuorum", "AcceptedPendingGrace", "Rejected"}
          /\ d = [state |-> state, tally |-> tally, finalizedAt |-> block,
                  graceEnd |-> IF state = "AcceptedPendingGrace"
                               THEN block + Risk(id.content).grace ELSE None]
  BY DEF DecisionAt
<1>2. d.state = state /\ d.finalizedAt = block
  BY <1>1
<1> QED BY <1>1, <1>2, Zenon

LEMMA DecidedShape ==
    ASSUME NEW id, NEW p, DOMAIN p = Fields, NEW place, NEW block \in Nat,
           NEW d, d = DecisionAt(id, place, block), NEW q, q = Decided(p, d)
    PROVE  /\ DOMAIN q = Fields /\ q.state = d.state /\ q.decision = d /\ SameEvidence(p, q)
           /\ d.state = "AcceptedPendingGrace" => Granted(id, q)
<1>1. /\ DOMAIN q = Fields /\ q.state = d.state /\ q.decision = d /\ SameEvidence(p, q)
      /\ d.graceEnd # None => q.notBefore = d.graceEnd
  BY DEF Decided, Fields, SameEvidence
<1>2. ASSUME d.state = "AcceptedPendingGrace"
      PROVE  Granted(id, q)
  <2>1. PICK tally : d = [state |-> "AcceptedPendingGrace", tally |-> tally,
                          finalizedAt |-> block,
                          graceEnd |-> block + Risk(id.content).grace]
    BY <1>2, DecisionShape
  <2>2. block + Risk(id.content).grace \in Nat
    BY ParametersAre
  <2>3. d.graceEnd = block + Risk(id.content).grace /\ d.graceEnd # None
    BY <2>1, <2>2, ParametersAre
  <2> QED BY <1>1, <2>1, <2>3, Zenon DEF Granted
<1> QED BY <1>1, <1>2

\* The decision of an epoch is recorded with what it was computed from.
LEMMA FinalizeSound ==
    ASSUME IInv, FinalizeEpochVoting
    PROVE  Sound
<1>1. PICK c : c = clock.epoch
  OBVIOUS
<1>2. PICK ids : ids = ToSet(epochs[c].ordered)
  OBVIOUS
<1>3. PICK place : place = [id \in ids |->
          CHOOSE n \in 1..Len(epochs[c].ordered) : epochs[c].ordered[n] = id]
  BY Zenon
<1>4. PICK block : block = clock.block
  OBVIOUS
<1>5. PICK decision : decision = [id \in ids |-> DecisionAt(id, place[id], block)]
  BY ZenonT(30)
<1>6. /\ c \in DOMAIN epochs /\ epochs[c].frozen /\ ~epochs[c].finalized
      /\ clock.block >= epochs[c].anchor + Parameters.revealEnd
      /\ epochs' = [epochs EXCEPT ![c].finalized = TRUE]
      /\ UNCHANGED <<clock, canonical, votingPower, history>>
  BY <1>1 DEF FinalizeEpochVoting, Anchored, Current, Since
<1>7. proposals' = [id \in Proposals |->
          IF id \in ids THEN Decided(proposals[id], decision[id]) ELSE proposals[id]]
  <2>1. proposals' = [id \in Proposals |->
            IF id \in ToSet(Current.ordered)
            THEN Decided(proposals[id],
                     DecisionAt(id, CHOOSE n \in 1..Len(Current.ordered) :
                                        Current.ordered[n] = id, clock.block))
            ELSE proposals[id]]
    BY DEF FinalizeEpochVoting, Proposals
  <2>2. \A id \in ids : decision[id] =
            DecisionAt(id, CHOOSE n \in 1..Len(Current.ordered) :
                               Current.ordered[n] = id, clock.block)
    BY <1>1, <1>3, <1>4, <1>5 DEF Current
  <2>3. ids = ToSet(Current.ordered)
    BY <1>1, <1>2 DEF Current
  <2> QED BY <2>1, <2>2, <2>3
<1>8. /\ DOMAIN epochs[c] = EpochFields /\ epochs[c].ordered \in Seq(Proposals)
      /\ epochs[c].frozen \in BOOLEAN /\ block \in Nat
  BY <1>4, <1>6 DEF IInv, Types
<1>9. /\ DOMAIN epochs' = DOMAIN epochs
      /\ \A e \in DOMAIN epochs \ {c} : epochs'[e] = epochs[e]
      /\ DOMAIN epochs'[c] = EpochFields /\ epochs'[c].anchor = epochs[c].anchor
      /\ epochs'[c].frozen = epochs[c].frozen /\ epochs'[c].finalized = TRUE
      /\ epochs'[c].ordered = epochs[c].ordered
      /\ epochs'[c].commitments = epochs[c].commitments
      /\ epochs'[c].weight = epochs[c].weight
  BY <1>6, <1>8, Zenon DEF EpochFields
<1>10. /\ ids \subseteq Proposals
       /\ \A id \in ids : id.epoch = c /\ proposals[id].state \in BallotStates
  BY <1>2, <1>6, OrderedAreProposals DEF IInv, StageInv
<1>11. Proposals' = Proposals /\ \A id \in Proposals \ ids : proposals'[id] = proposals[id]
  BY <1>7 DEF Proposals
<1>12. \A id \in ids : place[id] \in 1..Len(epochs[c].ordered)
                       /\ epochs[c].ordered[place[id]] = id
  <2> SUFFICES ASSUME NEW id \in ids
               PROVE  place[id] \in 1..Len(epochs[c].ordered)
                      /\ epochs[c].ordered[place[id]] = id
    OBVIOUS
  <2>1. \E n \in 1..Len(epochs[c].ordered) : epochs[c].ordered[n] = id
    BY <1>2, <1>8 DEF ToSet
  <2>2. place[id] = CHOOSE n \in 1..Len(epochs[c].ordered) : epochs[c].ordered[n] = id
    BY <1>3
  <2> QED BY <2>1, <2>2
<1>13. ASSUME NEW id \in ids
       PROVE  /\ DOMAIN proposals'[id] = Fields
              /\ Advances(proposals[id], proposals'[id])
              /\ Reproduced(id)'
              /\ proposals'[id].state \in AcceptedStates => Granted(id, proposals'[id])
  <2>1. id \in Proposals /\ DOMAIN proposals[id] = Fields /\ id.epoch = c
    BY <1>10, <1>13 DEF IInv, Types
  <2>2. decision[id] = DecisionAt(id, place[id], block)
    BY <1>5, <1>13
  <2>3. proposals'[id] = Decided(proposals[id], decision[id])
    BY <1>7, <1>13, <2>1
  <2>4. /\ DOMAIN proposals'[id] = Fields /\ proposals'[id].state = decision[id].state
        /\ proposals'[id].decision = decision[id]
        /\ SameEvidence(proposals[id], proposals'[id])
        /\ decision[id].state = "AcceptedPendingGrace" => Granted(id, proposals'[id])
    BY <1>8, <2>1, <2>2, <2>3, DecidedShape
  <2>5. /\ decision[id].state \in {"Expired", "NoQuorum", "AcceptedPendingGrace", "Rejected"}
        /\ decision[id].finalizedAt = block
    BY <1>8, <2>2, DecisionShape
  <2>6. DecisionAt(id, place[id], block)' = DecisionAt(id, place[id], block)
    <3>1. Registered(id.epoch)' = Registered(id.epoch)
      BY <1>6 DEF Registered
    <3> QED BY <1>9, <2>1, <2>4, <3>1, DecisionStable
  <2>7. Reproduced(id)'
    BY <1>9, <1>12, <1>13, <2>1, <2>2, <2>4, <2>5, <2>6 DEF Reproduced
  <2>8. proposals[id].state \notin ClosedStates /\ proposals[id].state \notin AcceptedStates
    BY <1>10, <1>13 DEF BallotStates, ClosedStates, AcceptedStates
  <2>9. proposals'[id].state \in AcceptedStates => decision[id].state = "AcceptedPendingGrace"
    BY <2>4, <2>5 DEF AcceptedStates
  <2> QED BY <2>4, <2>7, <2>8, <2>9 DEF Advances
<1>14. ASSUME NEW id \in Proposals, id.epoch = c, id \notin ids
       PROVE  /\ DOMAIN proposals'[id] = Fields
              /\ Advances(proposals[id], proposals'[id])
              /\ proposals'[id].decision = None
              /\ proposals'[id].state \notin AcceptedStates
  <2>1. proposals[id].decision = None /\ proposals[id].state \notin AcceptedStates
    BY <1>6, <1>14, Undecided
  <2> QED BY <1>11, <1>14, <2>1 DEF Advances, IInv, Types
<1>15. \A id \in Proposals : id.epoch = c =>
           /\ DOMAIN proposals'[id] = Fields /\ Advances(proposals[id], proposals'[id])
           /\ proposals'[id].decision # None => epochs'[c].finalized /\ Reproduced(id)'
           /\ proposals'[id].state \in AcceptedStates =>
                 epochs'[c].finalized /\ Granted(id, proposals'[id])
  BY <1>9, <1>13, <1>14
<1>16. \A id \in ToSet(epochs'[c].ordered) :
           /\ id.epoch = c
           /\ ~epochs'[c].finalized => proposals'[id].state \in BallotStates
  BY <1>2, <1>9, <1>10
<1>17. \A id \in Proposals : id.epoch # c => proposals'[id] = proposals[id]
  BY <1>10, <1>11
<1>18. /\ epochs'[c].frozen = TRUE /\ epochs'[c].finalized \in BOOLEAN
       /\ epochs'[c].ordered \in Seq(Proposals)
  BY <1>6, <1>8, <1>9, Zenon
<1> QED BY <1>6, <1>9, <1>11, <1>15, <1>16, <1>17, <1>18, OneEpoch, Zenon

-----------------------------------------------------------------------------
(* The engine *)

\* A revert is a proposal.
LEMMA RevertSound ==
    ASSUME IInv, NEW a, NEW form, NEW index, NEW bond,
           CreateRevertProposal(a, form, index, bond)
    PROVE  Sound
BY CreateSound DEF CreateRevertProposal

LEMMA ProposalStepSound ==
    ASSUME IInv, NEW id \in Proposals, ProposalStep(id)
    PROVE  Sound
BY CancelSound, AttachAiSound, AttachWaiverSound, AttachManualSound, AttachBuildSound,
   AttachAvailabilitySound, ReadySound, ChallengeSound, ResolveSound, ExecuteSound,
   StaleSound, ZenonT(30)
   DEF ProposalStep

LEMMA StepSound ==
    ASSUME IInv, [Next]_vars
    PROVE  Sound
<1>1. CASE UNCHANGED vars
  BY <1>1, StutterSound
<1>2. CASE Tick \/ AnchorGovernanceEpoch
  BY <1>2, TickSound, AnchorSound
<1>3. CASE \E s \in Snapshots(clock.epoch) : RegisterVotingPower(s)
  BY <1>3, RegisterSound
<1>4. CASE \E a \in Identities, bond \in Bonds : \E content \in Contents(clock.epoch, a) :
               CreateProposal(a, content, bond)
  BY <1>4, CreateSound
<1>5. CASE \E a \in Identities, form \in Reverts, index \in DOMAIN history, bond \in Bonds :
               CreateRevertProposal(a, form, index, bond)
  BY <1>5, RevertSound
<1>6. CASE \E id \in DOMAIN proposals : ProposalStep(id)
  BY <1>6, ProposalStepSound DEF Proposals
<1>7. CASE FreezeEpochProposalSet
  BY <1>7, FreezeSound
<1>8. CASE \E a \in Identities : \E choices \in Ballots(a) :
               CommitEpochBallot(a, choices) \/ RevealEpochBallot(a, choices)
  BY <1>8, CommitSound, RevealSound
<1>9. CASE FinalizeEpochVoting
  BY <1>9, FinalizeSound
<1>10. CASE \E a \in Identities : ClaimRefund(a)
  BY <1>10, ClaimSound
<1> QED BY <1>1, <1>2, <1>3, <1>4, <1>5, <1>6, <1>7, <1>8, <1>9, <1>10 DEF Next

\* The invariant of every reachable state.
THEOREM EngineInvariant == Spec => []IInv
<1>1. IInv /\ [Next]_vars => IInv'
  BY StepSound DEF Sound
<1> QED BY <1>1, InitHolds, PTL DEF Spec

\* Whatever the order of calls, the epoch engine does to the canonical reference
\* only what CanonicalReference allows: it moves when an accepted proposal made
\* against it runs, each proposal runs at most once, what is closed stays closed
\* (execute_proposal, finalize_epoch_voting and resolve_objective_challenge).
THEOREM EngineImplements == Spec => ImplementsReference
<1>1. IInv /\ [Next]_vars => IInv' /\ Reference!Next
  BY StepSound DEF Sound
<1> QED BY <1>1, InitHolds, InitMaps, PTL DEF Spec, ImplementsReference, Reference!Spec

\* A recorded decision is the one that finalize_epoch_voting would compute again
\* from the frozen weights, the opened ballots and the evidence: none of them
\* changes after the decision.
THEOREM DecisionsReproduce == Spec => []DecisionsReproducible
<1>1. IInv => DecisionsReproducible
  BY DEF IInv, DecidedInv, Reproduced, DecisionsReproducible
<1> QED BY <1>1, EngineInvariant, PTL

\* The reference moves only after the grace period of an accepted decision,
\* through a proposal that no unresolved challenge holds.
THEOREM ExecutionWaits ==
    ASSUME NoneIsNoDecision
    PROVE  Spec => ExecutionAfterGrace
<1>1. IInv /\ [Next]_vars => IInv' /\ Waits
  BY StepSound DEF Sound
<1> QED BY <1>1, InitHolds, PTL DEF Spec, ExecutionAfterGrace, Waits
==============================================================================
