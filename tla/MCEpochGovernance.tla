-------------------------- MODULE MCEpochGovernance --------------------------
(* Two voters, one of them not verified, two epochs; a normal and a critical *)
(* change of the first reference, and reverts.                               *)
EXTENDS EpochGovernance

CONSTANTS v1, v2, genesis, next1, next2,
    LaterReviews    \* reviews that may replace the first one

MCIdentities == {v1, v2}
MCCids == {genesis, next1, next2}

Claim(e, a, status, weight) ==
    [epoch |-> e, voter |-> a, status |-> status, finalized |-> 0, reported |-> 0,
     stake |-> 9, trust |-> FlipTrustBps(0, 0), weight |-> weight, valid |-> TRUE]

MCSnapshots(e) ==
    IF e = 1 THEN {Claim(1, v1, "Human", 2), Claim(1, v2, "Newbie", 1), Claim(1, v2, "Newbie", 2)}
    ELSE {Claim(2, v1, "Human", 2)}

Change(critical, candidate, matches) ==
    [reverts |-> None, parent |-> genesis, candidate |-> candidate, critical |-> critical,
     waiver |-> critical, size |-> 1, digestMatches |-> matches, valid |-> TRUE]

MCContents(e, a) ==
    IF e > 1 THEN {}
    ELSE {IF a = v1 THEN Change(FALSE, next1, TRUE) ELSE Change(TRUE, next2, FALSE)}
MCReverts == {[Change(FALSE, genesis, TRUE) EXCEPT !.reverts = 1]}

Review(root, unresolved) ==
    [root |-> root, attestations |-> 2, owners |-> 2, families |-> 1, unresolved |-> unresolved]
MCAiClaims(content) ==
    IF content.critical THEN {Review(2, 2)} \cup {Review(n, 2) : n \in LaterReviews}
    ELSE {Review(1, 0)}
MCBuildClaims(content) == {[builders |-> 1, platforms |-> 1, matching |-> TRUE]}
MCAvailabilityClaims(content) ==
    {[providers |-> 2, validUntil |-> IF content.critical THEN 6 ELSE 12]}
MCReviewers(content) == IF content.reverts = None THEN {} ELSE {v1}

MCVoteChoices(a) == IF a = v1 THEN {"Yes", "No"} ELSE {"Abstain"}

Gate(participants) ==
    [turnout |-> 8, yes |-> 12, participants |-> participants, yesIdentities |-> 1,
     verifiedYes |-> 1, attestations |-> 2, owners |-> 2, families |-> 1,
     criticalOwners |-> 2, builders |-> 1, platforms |-> 1, providers |-> 2]

MCParameters ==
    [cutoff |-> 1, commitStart |-> 2, commitEnd |-> 3, revealEnd |-> 4, window |-> 1,
     minimumStake |-> 4, maxProposals |-> 2, burnBps |-> 10, noQuorumFee |-> 1,
     cancellationFee |-> 1,
     normal |-> [grace |-> 1, bond |-> 2, maxSize |-> 1, gate |-> Gate(1)],
     critical |-> [grace |-> 1, bond |-> 3, maxSize |-> 1, gate |-> Gate(2)]]
==============================================================================
