----------------------------- MODULE Readiness -----------------------------
(***************************************************************************)
(* The documents of a governed change and the deployment readiness gate:   *)
(* ecosystem manifests and the transition between two of them              *)
(* (manifest.rs), the scope evidence that names what changes, the pinset,  *)
(* the attestations of builders, auditors, rehearsal operators and         *)
(* availability providers with their detached signatures (attestation.rs), *)
(* the release manifest (release.rs) and the evaluation of the evidence    *)
(* (readiness.rs), driven by the commands of governance-cli.               *)
(*                                                                         *)
(* A document carries its CID in the field cid; a value whose address is   *)
(* not spelled in lower case also has the CID of its normalised form,      *)
(* which is what the verifier rebuilds.  Names are ordered numbers.        *)
(***************************************************************************)
EXTENDS Integers, FiniteSets, FiniteSetsExt, Sequences, SequencesExt

CONSTANTS None,
          Ecosystems, EcosystemPatches,  \* manifests an author may write
          SourcePatches,                 \* verified repository patches, with their risk
          ScopeCid(_),                   \* the CID of scope evidence
          Receipts, Builds, Audits, Rehearsals, Providers,
          Releases,
          RequiredThrough                \* requiredAvailabilityThroughBlock

VARIABLES published,  \* the manifests packaged so far
          scope,      \* the packaged scope evidence, or None
          pinset,     \* the packaged pinset manifest, or None
          evidence,   \* the lists of the readiness input
          reports,    \* the evidence of every report written
          released    \* the release manifests packaged

vars == <<published, scope, pinset, evidence, reports, released>>

Increasing(s) == \A i \in 1..(Len(s) - 1) : s[i] < s[i + 1]

Column(s, Field(_)) == [i \in 1..Len(s) |-> Field(s[i])]

-----------------------------------------------------------------------------
(* Manifests *)

\* validate_ecosystem_manifest
EcosystemValid(m) ==
    LET artifacts == {<<i, j>> \in (1..Len(m.repositories)) \X (1..3) :
                        j <= Len(m.repositories[i].artifacts)}
    IN  /\ m.repositories # <<>>
        /\ Increasing(Column(m.repositories, LAMBDA r : r.name))
        /\ \A a, b \in artifacts :
              a # b => m.repositories[a[1]].artifacts[a[2]].name
                         # m.repositories[b[1]].artifacts[b[2]].name

\* validate_ecosystem_patch_manifest
EcosystemPatchValid(p) ==
    /\ p.parent # p.candidate
    /\ p.patches # <<>>
    /\ Increasing(Column(p.patches, LAMBDA r : r.repository))
    /\ \A i \in 1..Len(p.patches) : p.patches[i].base # p.patches[i].candidate

SourceOf(m) ==
    [n \in {m.repositories[i].name : i \in 1..Len(m.repositories)} |->
        m.repositories[CHOOSE i \in 1..Len(m.repositories) : m.repositories[i].name = n].source]

\* The repositories whose source differs, in their order.
ChangedRepositories(parent, candidate) ==
    SetToSortSeq({n \in DOMAIN SourceOf(parent) :
                    SourceOf(candidate)[n] # SourceOf(parent)[n]}, <)

\* verify_ecosystem_transition
MutTransitionValid(parent, candidate, patch) ==
    /\ candidate.parent = parent.cid
    /\ patch.parent = parent.cid /\ patch.candidate = candidate.cid
    /\ DOMAIN SourceOf(parent) = DOMAIN SourceOf(candidate)
    /\ LET changed == ChangedRepositories(parent, candidate)
       IN  \A i \in 1..Min({Len(changed), Len(patch.patches)}) :
             /\ patch.patches[i].repository = changed[i]
             /\ patch.patches[i].base = SourceOf(parent)[changed[i]]
             /\ patch.patches[i].candidate = SourceOf(candidate)[changed[i]]
TransitionValid(parent, candidate, patch) ==
    /\ candidate.parent = parent.cid
    /\ patch.parent = parent.cid /\ patch.candidate = candidate.cid
    /\ DOMAIN SourceOf(parent) = DOMAIN SourceOf(candidate)
    /\ LET changed == ChangedRepositories(parent, candidate)
       IN  /\ Len(changed) = Len(patch.patches)
           /\ \A i \in 1..Len(changed) :
                /\ patch.patches[i].repository = changed[i]
                /\ patch.patches[i].base = SourceOf(parent)[changed[i]]
                /\ patch.patches[i].candidate = SourceOf(candidate)[changed[i]]

\* required_pinset_cids
RequiredPinset(candidate, patch) ==
    {candidate.cid, patch.cid, candidate.parameters}
    \cup {candidate.repositories[i].source : i \in 1..Len(candidate.repositories)}
    \cup UNION {{candidate.repositories[i].artifacts[j].cid :
                    j \in 1..Len(candidate.repositories[i].artifacts)} :
                i \in 1..Len(candidate.repositories)}
    \cup {patch.patches[i].patch : i \in 1..Len(patch.patches)}

-----------------------------------------------------------------------------
(* Scope evidence *)

RiskRank(risk) ==
    CASE risk = "normal" -> 0 [] risk = "critical" -> 1
      [] risk = "migration" -> 2 [] risk = "consensus" -> 3

\* max_scope_risk over the changed paths of the affected repositories.
ScopeRisk(patches) ==
    CHOOSE r \in {"normal", "critical", "migration", "consensus"} :
        /\ r = "normal" \/ \E p \in patches : p.risk = r
        /\ \A p \in patches : RiskRank(p.risk) <= RiskRank(r)

\* The verified source patch an entry of the aggregate patch stands for.
Matching(entry) ==
    {s \in SourcePatches : /\ s.repository = entry.repository
                           /\ s.base = entry.base /\ s.candidate = entry.candidate
                           /\ s.patch = entry.patch}

\* The evidence scope_package_command builds.
ScopeOf(patch) ==
    [cid |-> ScopeCid(patch), parent |-> patch.parent, candidate |-> patch.candidate,
     patch |-> patch.cid, repositories |-> patch.patches,
     risk |-> ScopeRisk(UNION {Matching(patch.patches[i]) : i \in 1..Len(patch.patches)})]

\* scope_required_content
ScopeContent(s) ==
    {s.cid, s.parent, s.candidate, s.patch}
    \cup UNION {{s.repositories[i].base, s.repositories[i].candidate,
                 s.repositories[i].patch} : i \in 1..Len(s.repositories)}

ExpectedSources(s) ==
    [i \in 1..Len(s.repositories) |->
        [repository |-> s.repositories[i].repository, cid |-> s.repositories[i].candidate]]

-----------------------------------------------------------------------------
(* Attestations *)

\* validate_commands: passed tests need every command to have succeeded.
CommandsValid(v) == v.exits # {} /\ (v.passed => v.exits = {0})

\* core_artifact_set_digest: the core artifacts, by name.
CoreDigest(artifacts) == {a \in ToSet(artifacts) : a.core}

\* validate_build
BuildWellFormed(v) ==
    /\ v.sources # <<>> /\ Increasing(Column(v.sources, LAMBDA s : s.repository))
    /\ CommandsValid(v)
    /\ v.artifacts # <<>> /\ Increasing(Column(v.artifacts, LAMBDA a : a.name))
    /\ CoreDigest(v.artifacts) # {} /\ v.digest = CoreDigest(v.artifacts)

\* validate_external_audit
AuditWellFormed(v) ==
    /\ v.sources # <<>> /\ Increasing(Column(v.sources, LAMBDA s : s.repository))
    /\ v.pass => v.findings = 0

\* migration_rehearsal_digest
RehearsalDigest(v) ==
    [parent |-> v.parent, candidate |-> v.candidate, scope |-> v.scope,
     observed |-> v.observed, restored |-> v.restored,
     blocks |-> v.blocks, snapshot |-> v.snapshot]

\* validate_migration_rehearsal
RehearsalWellFormed(v) ==
    /\ v.observed = v.candidate /\ v.restored = v.parent
    /\ Increasing(v.blocks)
    /\ v.digest = RehearsalDigest(v)

\* validate_availability
AvailabilityWellFormed(v) ==
    /\ v.candidate \in v.verified /\ v.probe \in v.verified
    /\ v.observedAt < v.expires

\* validate_source_commit_receipt
ReceiptWellFormed(v) == v.packaged <= v.tracked

\* attestation_authentication_request: what a signature is made over.
Request(kind, v) ==
    [kind |-> kind, cid |-> v.normalCid, candidate |-> v.candidate, identity |-> v.address]

\* verify_attestation_authentication; receipts on chain are not accepted yet.
Authenticates(envelope, kind, v) ==
    /\ envelope # None
    /\ envelope.request = Request(kind, v)
    /\ envelope.proof = "signature" /\ v.intent = "detached"
    /\ envelope.signer = v.address

-----------------------------------------------------------------------------
(* Readiness *)

Critical(s) == s.risk # "normal"

Thresholds(s) ==
    [builders |-> IF Critical(s) THEN 3 ELSE 2, platforms |-> IF Critical(s) THEN 2 ELSE 1,
     providers |-> IF Critical(s) THEN 3 ELSE 2, audits |-> IF Critical(s) THEN 2 ELSE 1,
     rehearsals |-> IF s.risk \in {"migration", "consensus"} THEN 2 ELSE 0]

\* The first check an item fails, or "ok".
FirstFailure(checks) ==
    LET failed == {k \in 1..Len(checks) : ~checks[k][2]}
    IN  IF failed = {} THEN "ok" ELSE checks[Min(failed)][1]

\* The codes of the items of a list, other than "ok".
Codes(list, Code(_)) == {Code(i) : i \in 1..Len(list)} \ {"ok"}

\* validate_evidence_cid: one CID may be listed once, in all the lists.
DuplicateCids(e) ==
    LET cids == Column(e.receipts \o e.builds \o e.audits \o e.rehearsals \o e.availability,
                       LAMBDA item : item.cid)
    IN  Cardinality(ToSet(cids)) # Len(cids)

\* The content every provider has to hold.
RequiredContent(e) ==
    ScopeContent(e.scope)
    \cup {item.cid : item \in ToSet(e.receipts)}
    \cup UNION {{item.cid} \cup item.value.content
                    : item \in ToSet(e.builds) \cup ToSet(e.audits) \cup ToSet(e.rehearsals)}
    \cup UNION {{s.cid : s \in ToSet(item.value.sources)}
                    : item \in ToSet(e.builds) \cup ToSet(e.audits)}
    \cup UNION {{a.cid : a \in ToSet(item.value.artifacts)} : item \in ToSet(e.builds)}
    \cup {item.value.pinset : item \in ToSet(e.availability)}

ReceiptFailure(e, i) ==
    LET r == e.receipts[i]
        expected == {s \in ToSet(ExpectedSources(e.scope)) : s.repository = r.value.repository}
        Named(j) == /\ e.receipts[j].cid = e.receipts[j].value.cid
                    /\ e.receipts[j].value.repository = r.value.repository
    IN  FirstFailure(<<
            <<"source-commit.content-cid-mismatch", r.cid = r.value.cid>>,
            <<"source-commit.unexpected-repository", expected # {}>>,
            <<"source-commit.duplicate-repository", \A j \in 1..(i - 1) : ~Named(j)>>,
            <<"source-commit.source-cid-mismatch",
              \A s \in expected : r.value.source = s.cid>> >>)

ReceiptFailures(e) ==
    Codes(e.receipts, LAMBDA i : ReceiptFailure(e, i))
    \cup IF \A s \in ToSet(ExpectedSources(e.scope)) :
              \E i \in 1..Len(e.receipts) :
                 /\ e.receipts[i].cid = e.receipts[i].value.cid
                 /\ e.receipts[i].value.repository = s.repository
         THEN {} ELSE {"source-commit.missing-repository"}

BuildFailure(e, i) ==
    LET b == e.builds[i]
    IN  FirstFailure(<<
            <<"build.content-cid-mismatch", b.cid = b.value.normalCid>>,
            <<"build.candidate-mismatch", b.value.candidate = e.scope.candidate>>,
            <<"build.scope-mismatch", b.value.scope = e.scope.cid>>,
            <<"build.source-set-mismatch", b.value.sources = ExpectedSources(e.scope)>>,
            <<"build.tests-failed", b.value.passed>>,
            <<"build.unauthenticated-identity",
              Authenticates(b.authentication, "build", b.value)>> >>)

\* Items that count are grouped by their digest; the group with most owners,
\* then most platforms, is selected.
OwnersOf(values) == {v.identity : v \in values}
PlatformsOf(values) == {v.platform : v \in values}

SelectedGroup(values) ==
    LET groups == {{v \in values : v.digest = d} : d \in {w.digest : w \in values}}
        Score(g) == 257 * Cardinality(OwnersOf(g)) + Cardinality(PlatformsOf(g))
    IN  IF groups = {} THEN {}
        ELSE CHOOSE g \in groups : \A h \in groups : Score(h) <= Score(g)

CountedBuilds(e) == {e.builds[i].value : i \in {j \in 1..Len(e.builds) : BuildFailure(e, j) = "ok"}}

BuildFailures(e) ==
    LET counted == {i \in 1..Len(e.builds) : BuildFailure(e, i) = "ok"}
        Value(i) == e.builds[i].value
        selected == SelectedGroup(CountedBuilds(e))
    IN  Codes(e.builds, LAMBDA i : BuildFailure(e, i))
        \cup (IF e.builds = <<>> THEN {"build.none"} ELSE {})
        \cup (IF \E i, j \in counted : /\ i # j /\ Value(i).digest = Value(j).digest
                                       /\ Value(i).identity = Value(j).identity
              THEN {"build.duplicate-owner"} ELSE {})
        \cup (IF Cardinality({Value(i).digest : i \in counted}) > 1
              THEN {"build.conflicting-core-digests"} ELSE {})
        \cup (IF Cardinality(OwnersOf(selected)) < Thresholds(e.scope).builders
              THEN {"build.insufficient-independent-builders"} ELSE {})
        \cup (IF Cardinality(PlatformsOf(selected)) < Thresholds(e.scope).platforms
              THEN {"build.insufficient-platform-diversity"} ELSE {})

\* The checks of an audit up to its signature.
AuditChecked(e, i) ==
    LET a == e.audits[i]
    IN  FirstFailure(<<
            <<"audit.content-cid-mismatch", a.cid = a.value.normalCid>>,
            <<"audit.candidate-mismatch", a.value.candidate = e.scope.candidate>>,
            <<"audit.scope-mismatch", a.value.scope = e.scope.cid>>,
            <<"audit.source-set-mismatch", a.value.sources = ExpectedSources(e.scope)>>,
            <<"audit.unresolved-severe-finding", a.value.pass /\ a.value.findings = 0>>,
            <<"audit.unauthenticated-identity",
              Authenticates(a.authentication, "audit", a.value)>> >>)

\* Two items before which the same owner, or another owner of the same
\* organisation or provider, was seen.
OwnerSeen(list, i, checked) ==
    \E j \in checked : j < i /\ list[j].value.identity = list[i].value.identity

GroupSeen(list, i, checked) ==
    \E j \in checked : /\ j < i /\ ~OwnerSeen(list, j, checked)
                       /\ list[j].value.group = list[i].value.group

MutAuditFailure(e, i) ==
    LET checked == {j \in 1..Len(e.audits) : AuditChecked(e, j) = "ok"}
    IN  FirstFailure(<<
            <<AuditChecked(e, i), i \in checked>>,
            <<"audit.duplicate-owner", ~OwnerSeen(e.audits, i, checked)>>,
            <<"audit.duplicate-organization", ~GroupSeen(e.audits, i, checked)>> >>)
AuditFailure(e, i) ==
    LET checked == {j \in 1..Len(e.audits) : AuditChecked(e, j) = "ok"}
    IN  FirstFailure(<<
            <<AuditChecked(e, i), i \in checked>>,
            <<"audit.duplicate-owner", ~OwnerSeen(e.audits, i, checked)>>,
            <<"audit.duplicate-organization", ~GroupSeen(e.audits, i, checked)>>,
            <<"audit.builder-owner-overlap",
              \A b \in CountedBuilds(e) : b.identity # e.audits[i].value.identity>> >>)

AuditFailures(e) ==
    Codes(e.audits, LAMBDA i : AuditFailure(e, i))
    \cup (IF e.audits = <<>> THEN {"audit.none"} ELSE {})
    \cup (IF Cardinality({i \in 1..Len(e.audits) : AuditFailure(e, i) = "ok"})
               < Thresholds(e.scope).audits
          THEN {"audit.insufficient-independent-audits"} ELSE {})

RehearsalChecked(e, i) ==
    LET r == e.rehearsals[i]
    IN  FirstFailure(<<
            <<"migration-rehearsal.content-cid-mismatch", r.cid = r.value.normalCid>>,
            <<"migration-rehearsal.transition-mismatch",
              r.value.parent = e.scope.parent /\ r.value.candidate = e.scope.candidate>>,
            <<"migration-rehearsal.scope-mismatch", r.value.scope = e.scope.cid>>,
            <<"migration-rehearsal.tests-failed", r.value.passed>>,
            <<"migration-rehearsal.unauthenticated-identity",
              Authenticates(r.authentication, "rehearsal", r.value)>> >>)

RehearsalFailure(e, i) ==
    LET checked == {j \in 1..Len(e.rehearsals) : RehearsalChecked(e, j) = "ok"}
    IN  FirstFailure(<<
            <<RehearsalChecked(e, i), i \in checked>>,
            <<"migration-rehearsal.duplicate-owner", ~OwnerSeen(e.rehearsals, i, checked)>> >>)

RehearsalFailures(e) ==
    LET counted == {e.rehearsals[i].value :
                        i \in {j \in 1..Len(e.rehearsals) : RehearsalFailure(e, j) = "ok"}}
        selected == SelectedGroup(counted)
        needed == Thresholds(e.scope).rehearsals
    IN  Codes(e.rehearsals, LAMBDA i : RehearsalFailure(e, i))
        \cup (IF needed > 0 /\ e.rehearsals = <<>> THEN {"migration-rehearsal.none"} ELSE {})
        \cup (IF Cardinality({v.digest : v \in counted}) > 1
              THEN {"migration-rehearsal.conflicting-digests"} ELSE {})
        \cup (IF Cardinality(OwnersOf(selected)) < needed
              THEN {"migration-rehearsal.insufficient-independent-operators"} ELSE {})
        \cup (IF Cardinality(PlatformsOf(selected)) < needed
              THEN {"migration-rehearsal.insufficient-platform-diversity"} ELSE {})

AvailabilityChecked(e, i) ==
    LET a == e.availability[i]
    IN  FirstFailure(<<
            <<"availability.content-cid-mismatch", a.cid = a.value.normalCid>>,
            <<"availability.candidate-mismatch", a.value.candidate = e.scope.candidate>>,
            <<"availability.unavailable", a.value.available>>,
            <<"availability.expires-too-early", a.value.expires >= RequiredThrough>>,
            <<"availability.incomplete-content-coverage",
              RequiredContent(e) \cup {a.value.probe} \subseteq a.value.verified>>,
            <<"availability.unauthenticated-identity",
              Authenticates(a.authentication, "availability", a.value)>> >>)

AvailabilityFailure(e, i) ==
    LET checked == {j \in 1..Len(e.availability) : AvailabilityChecked(e, j) = "ok"}
        auditors == {e.audits[j].value.identity :
                        j \in {k \in 1..Len(e.audits) : AuditChecked(e, k) = "ok"}}
    IN  FirstFailure(<<
            <<AvailabilityChecked(e, i), i \in checked>>,
            <<"availability.duplicate-owner", ~OwnerSeen(e.availability, i, checked)>>,
            <<"availability.duplicate-provider", ~GroupSeen(e.availability, i, checked)>>,
            <<"audit.availability-owner-overlap",
              e.availability[i].value.identity \notin auditors>> >>)

AvailabilityFailures(e) ==
    Codes(e.availability, LAMBDA i : AvailabilityFailure(e, i))
    \cup (IF e.availability = <<>> THEN {"availability.none"} ELSE {})
    \cup (IF Cardinality({item.value.pinset : item \in ToSet(e.availability)}) # 1
          THEN {"availability.pinset-mismatch"} ELSE {})
    \cup (IF Cardinality({i \in 1..Len(e.availability) : AvailabilityFailure(e, i) = "ok"})
               < Thresholds(e.scope).providers
          THEN {"availability.insufficient-independent-providers"} ELSE {})

\* A malformed attestation fails the whole evaluation.
WellFormed(e) ==
    /\ \A item \in ToSet(e.receipts) : ReceiptWellFormed(item.value)
    /\ \A item \in ToSet(e.builds) : BuildWellFormed(item.value)
    /\ \A item \in ToSet(e.audits) : AuditWellFormed(item.value)
    /\ \A item \in ToSet(e.rehearsals) : RehearsalWellFormed(item.value)
    /\ \A item \in ToSet(e.availability) : AvailabilityWellFormed(item.value)

\* evaluate_deployment_readiness_evidence
FailureCodes(e) ==
    (IF DuplicateCids(e) THEN {"duplicate-attestation-cid"} ELSE {})
    \cup ReceiptFailures(e) \cup BuildFailures(e) \cup AuditFailures(e)
    \cup RehearsalFailures(e) \cup AvailabilityFailures(e)

Ready(e) == WellFormed(e) /\ FailureCodes(e) = {}

-----------------------------------------------------------------------------
(* Release manifests *)

\* validate_release_manifest
ReleaseValid(r) ==
    /\ r.builders >= 2 /\ r.platforms \in 1..r.builders
    /\ Len(r.attestations) >= r.builders /\ Increasing(r.attestations)
    /\ r.artifacts # <<>> /\ Increasing(Column(r.artifacts, LAMBDA a : a.name))
    /\ \A i, j \in 1..Len(r.artifacts) :
          i # j => r.artifacts[i].cid # r.artifacts[j].cid
    /\ \A a \in ToSet(r.artifacts) : a.builders >= r.builders

-----------------------------------------------------------------------------
(* The commands *)

NoEvidence(s) ==
    [scope |-> s, receipts |-> <<>>, builds |-> <<>>, audits |-> <<>>,
     rehearsals |-> <<>>, availability |-> <<>>]

Init ==
    /\ published = {} /\ scope = None /\ pinset = None
    /\ evidence = None /\ reports = {} /\ released = {}

\* ecosystem_package_command and ecosystem_patch_package_command
PackageManifest ==
    /\ \E m \in Ecosystems \cup EcosystemPatches :
          /\ m \notin published
          /\ IF m \in Ecosystems THEN EcosystemValid(m) ELSE EcosystemPatchValid(m)
          /\ published' = published \cup {m}
    /\ UNCHANGED <<scope, pinset, evidence, reports, released>>

\* The three archives a command reads and verifies.
Transition(patch) ==
    \E parent, candidate \in published \cap Ecosystems : TransitionValid(parent, candidate, patch)

\* scope_package_command
PackageScope ==
    /\ scope = None
    /\ \E patch \in published \cap EcosystemPatches :
          /\ Transition(patch)
          /\ \A i \in 1..Len(patch.patches) : Matching(patch.patches[i]) # {}
          /\ scope' = ScopeOf(patch)
          /\ evidence' = NoEvidence(ScopeOf(patch))
    /\ UNCHANGED <<published, pinset, reports, released>>

\* pinset_package_command
PackagePinset ==
    /\ pinset = None
    /\ \E patch \in published \cap EcosystemPatches :
          /\ Transition(patch)
          /\ \E candidate \in published \cap Ecosystems :
                /\ candidate.cid = patch.candidate
                /\ pinset' = RequiredPinset(candidate, patch)
    /\ UNCHANGED <<published, scope, evidence, reports, released>>

\* An attestation is packaged, signed and listed in the readiness input.
List(field, item) ==
    /\ scope # None
    /\ evidence' = [evidence EXCEPT ![field] = Append(@, item)]
    /\ UNCHANGED <<published, scope, pinset, reports, released>>

ListReceipt == \E r \in Receipts : ReceiptWellFormed(r.value) /\ List("receipts", r)
ListBuild == \E b \in Builds : BuildWellFormed(b.value) /\ List("builds", b)
ListAudit == \E a \in Audits : AuditWellFormed(a.value) /\ List("audits", a)
ListRehearsal == \E r \in Rehearsals : RehearsalWellFormed(r.value) /\ List("rehearsals", r)

\* A provider retrieves the pinset and what the evidence names so far.
ProbeAvailability ==
    /\ pinset # None /\ scope # None
    /\ \E p \in Providers :
          LET value == [p.value EXCEPT
                !.verified = @ \cup pinset \cup RequiredContent(evidence)
                               \cup {p.value.probe, p.value.pinset}]
              item == [p EXCEPT !.value = value]
          IN  AvailabilityWellFormed(value) /\ List("availability", item)

\* deployment_readiness_verify_command: a report is written when ready.
VerifyReadiness ==
    /\ scope # None /\ evidence \notin reports
    /\ Ready(evidence)
    /\ reports' = reports \cup {evidence}
    /\ UNCHANGED <<published, scope, pinset, evidence, released>>

\* release_package_command
PackageRelease ==
    /\ \E r \in Releases : /\ r \notin released /\ ReleaseValid(r)
                           /\ released' = released \cup {r}
    /\ UNCHANGED <<published, scope, pinset, evidence, reports>>

Next ==
    \/ PackageManifest \/ PackageScope \/ PackagePinset
    \/ ListReceipt \/ ListBuild \/ ListAudit \/ ListRehearsal \/ ProbeAvailability
    \/ VerifyReadiness \/ PackageRelease

Spec == Init /\ [][Next]_vars

-----------------------------------------------------------------------------
(* Properties *)

\* A written report rests on independent evidence: the builders are distinct
\* identities with one artifact set, the auditors are distinct identities of
\* distinct organisations none of which built, and the providers are distinct
\* identities none of which audited, each holding every document of the others.
\* The evaluation compares the fields of four lists with each other
\* (evaluate_deployment_readiness_evidence).
ReadyIsIndependent ==
    \A e \in reports :
        LET Addresses(list) == {item.value.address : item \in ToSet(list)}
            needed == Thresholds(e.scope)
        IN  /\ Cardinality(Addresses(e.builds)) >= needed.builders
            /\ Cardinality({b.value.digest : b \in ToSet(e.builds)}) = 1
            /\ Cardinality(Addresses(e.audits)) >= needed.audits
            /\ Cardinality({a.value.group : a \in ToSet(e.audits)}) >= needed.audits
            /\ Addresses(e.audits) \cap Addresses(e.builds) = {}
            /\ Cardinality(Addresses(e.availability)) >= needed.providers
            /\ Addresses(e.availability) \cap Addresses(e.audits) = {}
            /\ \A p \in ToSet(e.availability) :
                  \A item \in ToSet(e.receipts \o e.builds \o e.audits \o e.rehearsals) :
                     item.cid \in p.value.verified

\* The evidence of a report covers the whole transition: the source receipts
\* are exactly the sources of the candidate that differ from the parent, for
\* the two manifests of the scope (verify_ecosystem_transition,
\* scope_package_command and the receipt checks of the evaluation).
ReadyCoversTransition ==
    \A e \in reports :
        \A parent, candidate \in published \cap Ecosystems :
            parent.cid = e.scope.parent /\ candidate.cid = e.scope.candidate =>
                {<<r.value.repository, r.value.source>> : r \in ToSet(e.receipts)}
                  = {<<n, SourceOf(candidate)[n]>> :
                        n \in ToSet(ChangedRepositories(parent, candidate))}

\* A ready report rests on independent evidence of the whole transition.
ReadySound == ReadyIsIndependent /\ ReadyCoversTransition
=============================================================================
