----------------------------- MODULE MCGovernance -----------------------------
(* Two identities that review each other's change: a normal one, and one that *)
(* migrates the identity metrics and carries findings to be waived.           *)
EXTENDS Governance

CONSTANTS v1, v2, genesis, next1, next2

MCIdentities == {v1, v2}
Snapshot(n) == [root |-> n, epoch |-> n]
MCLeaf(i, m) ==
    IF m.epoch = 0 \/ i = v1
    THEN [epoch |-> m.epoch, status |-> IF i = v1 THEN "Human" ELSE "Newbie",
          trust |-> FlipTrustBps(0, 0)]
    ELSE None
Attest(i, n, d) == [operator |-> i, metrics |-> Snapshot(n), descriptor |-> d, valid |-> TRUE]
MCGenesisMetrics == Snapshot(0)
MCMetricsClaims(n) == IF n > 0 THEN {} ELSE {Attest(v1, 0, 1), Attest(v2, 0, 2), Attest(v2, 1, 1)}

Change(risk, candidate) ==
    [parent |-> genesis, candidate |-> candidate, risk |-> risk, valid |-> TRUE]
MCChanges(i, n) ==
    IF n # 1 THEN {}
    ELSE {IF i = v1 THEN Change("Normal", next1) ELSE Change("Migration", next2)}

Evidence(cid, class, i, resultFalse) ==
    [cid |-> IF i = v1 THEN cid ELSE cid + 1, class |-> class, owner |-> i, bond |-> 2, valid |-> TRUE, resultFalse |-> resultFalse]
Review(change, i) ==
    [approve |-> TRUE, passed |-> TRUE, family |-> 1,
     critical |-> IF change.risk = "Normal" THEN 0 ELSE 1]
    @@ Evidence(1, "Agent", i, i = v1 /\ change.risk = "Normal")
Build(change, i) ==
    [passed |-> i = v1 \/ change.risk = "Normal", digest |-> 1, platform |-> 1]
    @@ Evidence(3, "Builder", i, i = v2)
Probe(change, i) ==
    [available |-> TRUE, provider |-> i, expires |-> 12, verified |-> {}]
    @@ Evidence(5, "Availability", i, i = v2 /\ change.risk = "Normal")

(* Evidence arrives in a fixed order, and stops anywhere. *)
Order(change) ==
    <<Review(change, v1), Review(change, v2), Build(change, v1), Build(change, v2)>>
MCSubmissions(change, evidence) ==
    LET probes == Cardinality(OfClass(evidence, "Availability"))
        filed == Cardinality(evidence) - probes
    IN  {Order(change)[filed + 1] : n \in {1} \cap 1..(4 - filed)}
            \cup {Probe(change, i) : i \in IF probes = 0 THEN {v1} ELSE {v2}}
MCChangeMetrics(change) == IF change.risk = "Normal" THEN {None} ELSE {Snapshot(1)}

MCDeposits(i, n) == IF n = 0 THEN {4} ELSE {}
MCWithdrawals(i, n) == IF i = v2 /\ n \in {4, 5} THEN {4} ELSE {}
MCVoteChoices(i, change) ==
    IF change.risk # "Normal" THEN IF i = v1 THEN {"Yes"} ELSE {}
    ELSE IF i = v1 THEN {"Yes", "No"} ELSE {"Abstain"}
MCEpochOf(n) == CASE n = 0 -> 0 [] n \in 1..4 -> 1 [] n = 5 -> 2 [] n = 6 -> 3 [] OTHER -> 4

Gate ==
    [turnout |-> 8, yes |-> 12, yesIdentities |-> 1, verifiedYes |-> 1, attestations |-> 2,
     families |-> 1, owners |-> 2, criticalOwners |-> 2, builders |-> 1, platforms |-> 1,
     providers |-> 2]
MCParameters ==
    [activationDelay |-> 1, unbondingDelay |-> 2, review |-> 1, voting |-> 1, challenge |-> 1,
     timelock |-> 1, window |-> 1, metricsAttestations |-> 1, normal |-> Gate,
     critical |-> Gate, minimumBond |-> 2, minimumEvidenceBond |-> 1, minimumStake |-> 1,
     rejectedReturn |-> 10, staleFee |-> 1, expiredSlash |-> 10, proposalSlash |-> 10,
     reviewerSlash |-> 20, builderSlash |-> 20, dataSlash |-> 10, stakeSlash |-> 10]
==============================================================================
