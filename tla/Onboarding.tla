----------------------------- MODULE Onboarding -----------------------------
(***************************************************************************)
(* pohw-agent: the join of an experiment from a local source build (main,  *)
(* bootstrap, config, files), the child processes of the node (node) and   *)
(* the onboarding wizard (wizard), with the registration command of        *)
(* p2pool-node it runs.  `disk' is the agent's data directory, `agent' the *)
(* join in progress, `wiz' the WizardState under its mutex, `op' the one   *)
(* operation that holds `busy', `procs' the children that run, `orphans'   *)
(* those an agent that died left behind, and `world' what the agent only   *)
(* observes.  A join (element of Joins) is one invocation of join-source.  *)
(***************************************************************************)
EXTENDS Naturals, Sequences, FiniteSets, FiniteSetsExt

CONSTANTS Joins,        \* the invocations of join-source tried
          Registrations,\* [miner, identity] pairs a user enters
          Requests,     \* HTTP requests the browser sends to the wizard
          Endpoints,    \* endpoint -> the addresses it resolves to
          Worlds,       \* what the agent may observe
          MaxAttempts,  \* bound on the completed registration commands
          MaxStarts,    \* bound on the starts of the agent
          None, Torn

VARIABLES disk, agent, wiz, op, procs, orphans, world, attempts, starts
vars == <<disk, agent, wiz, op, procs, orphans, world, attempts, starts>>

Miners == {r.miner : r \in Registrations}
Written(file) == file # None /\ file # Torn
-----------------------------------------------------------------------------
(* bootstrap.rs: endpoints and the join manifest *)

\* is_public_ip, on the first three octets of an IPv4 address.
IsPublicIp(ip) ==
    ~ \/ ip[1] \in {0, 10, 127}
      \/ ip[1] = 100 /\ ip[2] \in 64..127
      \/ ip[1] = 169 /\ ip[2] = 254
      \/ ip[1] = 172 /\ ip[2] \in 16..31
      \/ ip[1] = 192 /\ ip[2] = 168
      \/ ip[1] = 192 /\ <<ip[2], ip[3]>> \in {<<0, 0>>, <<0, 2>>, <<88, 99>>}
      \/ ip[1] = 198 /\ (ip[2] \in {18, 19} \/ <<ip[2], ip[3]>> = <<51, 100>>)
      \/ ip[1] = 203 /\ <<ip[2], ip[3]>> = <<0, 113>>
      \/ ip[1] >= 224

\* validate_peer_list; the list is sorted and without duplicates when
\* join_source has built it.
PeerListValid(peers, private) ==
    /\ Cardinality(peers) \in 1..32
    /\ \A e \in peers : Endpoints[e].literal /\ ~private
                           => \A ip \in Endpoints[e].ips : IsPublicIp(ip)

\* The digests, identifiers, CIDs and URLs of the manifest.
SourceWellFormed(source) == source.wellFormed
\* SourceJoinManifestV1::validate
ManifestValid(m, private) ==
    /\ SourceWellFormed(m.source) /\ m.noValue /\ ~m.handoffArmed
    /\ PeerListValid(m.gossip, private) /\ PeerListValid(m.fork, private)
    /\ m.phase = "mining" => m.pin # None
    /\ m.pin # None => m.pin.height > 0 /\ m.pin.voters > 0

\* resolve_peer_endpoints: every endpoint must give a permitted address.
Permitted(e, private) == {ip \in Endpoints[e].ips : private \/ IsPublicIp(ip)}
Resolves(peers, private) ==
    world.resolver /\ \A e \in peers : Permitted(e, private) # {}
Resolved(peers, private) == UNION {Permitted(e, private) : e \in peers}
-----------------------------------------------------------------------------
(* main.rs: what a join inspects *)

\* build_cyclonedx_sbom: the locked packages, and the edges between them.
SbomBuilds(m) ==
    /\ \A p \in m.packages : ~p.external => p.inside
    /\ \A p, q \in m.packages : p.id = q.id => p = q
    /\ m.graph # None
    /\ UNION {{e[1], e[2]} : e \in m.graph} \cup m.members \subseteq {p.id : p \in m.packages}
Sbom(m) == [components |-> {[id |-> p.id, application |-> p.id \in m.members,
                             external |-> p.external] : p \in m.packages},
            dependencies |-> m.graph \cup {<<"source", w>> : w \in m.members}]

\* inspect_source_tree: a clean worktree whose tracked files are exactly the
\* packaged ones.
SourceInspected(tree) ==
    /\ tree.regular /\ ~tree.dirty /\ tree.ignored = {}
    /\ tree.packaged = tree.tracked
    /\ SbomBuilds(tree.metadata)

\* The checks of join_source on the activation, the build and the data
\* directory.
ExperimentMatches(j) ==
    IF j.separate THEN ~j.canonicalId
    ELSE j.trackedManifest /\ j.canonicalId /\ j.canonicalActivation
BuildDeclared(j) == j.buildOutside /\ j.binariesInside
PrepareDatadir(j) == j.datadirOutside

\* mining_snapshot_evidence of p2pool-node and its validation by the driver.
EvidenceFor(j, miner) ==
    /\ j.minVoters > 0
    /\ world.snapshot.ambiguous = FALSE /\ world.snapshot.age \in 0..1
    /\ world.snapshot.pin.voters >= j.minVoters
    /\ miner # None => \E q \in disk.log : /\ q.reg.miner = miner
                                            /\ q.reg.identity \in world.snapshot.eligible

\* The snapshot options of a join, and the manifest it writes.
SnapshotOptions(j) ==
    IF j.phase = "mining" THEN j.minVoters > 0 /\ EvidenceFor(j, None)
    ELSE j.minVoters = 0
JoinManifest(j) ==
    [source |-> [tree |-> j.tree.id, sbom |-> Sbom(j.tree.metadata),
                 artifact |-> world.binary, wellFormed |-> TRUE],
     activation |-> j.activation, phase |-> j.phase, noValue |-> TRUE,
     handoffArmed |-> FALSE, gossip |-> j.gossip, fork |-> j.fork,
     pin |-> IF j.phase = "mining" THEN world.snapshot.pin ELSE None]
Config(j, m) ==
    [source |-> m.source, tools |-> j.tools, manifest |-> m, private |-> j.private]

Joinable(j) ==
    /\ SourceInspected(j.tree) /\ ExperimentMatches(j) /\ BuildDeclared(j)
    /\ PrepareDatadir(j) /\ SnapshotOptions(j)
    /\ ManifestValid(JoinManifest(j), j.private)

\* install_or_update_join_manifest: only the peers, the phase and the
\* snapshot of an installed manifest may change.
MutSameOrigin(m, installed) == m.source = installed.source
SameOrigin(m, installed) ==
    m.source = installed.source /\ m.activation = installed.activation
\* install_or_verify_config
SameBuild(c, installed) == c.source = installed.source /\ c.tools = installed.tools
-----------------------------------------------------------------------------
(* node.rs: the persisted registration *)

\* NodeDriver: every command first rehashes the binary.
BinaryUnchanged == world.binary = agent.manifest.source.artifact

\* verify_persisted_registration: the receipt against the signed envelope.
ReceiptMatches(d) == d.public.reg = d.envelope.reg /\ d.public.envelope = d.envelope
\* derive_xonly_pubkey of the three key files.
LocalKeysMatch(d) == d.keys[d.public.reg.miner] = "ready"
\* existing_registration: the public receipt, its signed envelope, the
\* replayed registration and the local keys must all agree.
PersistedValid(d) ==
    /\ Written(d.message) /\ Written(d.envelope)
    /\ d.envelope.reg = d.message
    /\ ReceiptMatches(d) /\ LocalKeysMatch(d)
Replayed(d) == [reg |-> d.public.reg, anchored |-> FALSE] \in d.log

\* install_private_if_absent
Installs(file, bytes) == file = None \/ file = bytes

\* apply_registration, for a registration without a registry anchor.
Appendable(r) ==
    \A q \in disk.log : q.reg.miner = r.miner => q = [reg |-> r, anchored |-> FALSE]

\* complete_registration: the files it writes once the command has answered.
MutCompletionSteps == <<"public", "message", "envelope", "deliver">>
CompletionSteps == <<"message", "envelope", "deliver", "public">>
\* launch_services, for each launch phase.
LaunchSteps(phase) ==
    <<"peers">>
    \o (IF phase = "registration" THEN <<>> ELSE <<"match">>)
    \o <<"gossip">>
    \o (IF phase = "registration" THEN <<>> ELSE <<"fork", "ready">>)
    \o (IF phase = "mining" THEN <<"evidence", "password", "adapter">> ELSE <<>>)
    \o <<"settle">>
-----------------------------------------------------------------------------
Idle == [kind |-> "none", steps |-> <<>>, reg |-> None, envelope |-> None, spawned |-> {}]
Fresh == [busy |-> FALSE, pending |-> None, registration |-> None, children |-> {}]
Down == [pc |-> "down", join |-> None, manifest |-> None]

Init ==
    /\ disk = [manifest |-> None, activation |-> None, sbom |-> None, config |-> None,
               keys |-> [m \in Miners |-> "none"], message |-> None, envelope |-> None,
               public |-> None, password |-> None, log |-> {}]
    /\ agent = Down /\ wiz = Fresh /\ op = Idle
    /\ procs = {} /\ orphans = {}
    /\ world \in Worlds
    /\ attempts = 0 /\ starts = 0

\* The join ends with an error, or goes on with the next file.
Refused == agent' = Down
Reached(pc) == agent' = [agent EXCEPT !.pc = pc]

\* join_source up to the first file it installs.
JoinSource(j) ==
    /\ agent = Down /\ starts < MaxStarts
    /\ Joinable(j)
    /\ starts' = starts + 1
    /\ agent' = [pc |-> "manifest", join |-> j, manifest |-> JoinManifest(j)]
    /\ UNCHANGED <<disk, wiz, op, procs, orphans, world, attempts>>

InstallManifest ==
    /\ agent.pc = "manifest"
    /\ IF disk.manifest = None \/ (/\ ManifestValid(disk.manifest, agent.join.private)
                                   /\ SameOrigin(agent.manifest, disk.manifest))
       THEN disk' = [disk EXCEPT !.manifest = agent.manifest] /\ Reached("activation")
       ELSE Refused /\ UNCHANGED disk
    /\ UNCHANGED <<wiz, op, procs, orphans, world, attempts, starts>>

InstallActivation ==
    /\ agent.pc = "activation"
    /\ IF Installs(disk.activation, agent.join.activation)
       THEN disk' = [disk EXCEPT !.activation = agent.join.activation] /\ Reached("sbom")
       ELSE Refused /\ UNCHANGED disk
    /\ UNCHANGED <<wiz, op, procs, orphans, world, attempts, starts>>

InstallSbom ==
    /\ agent.pc = "sbom"
    /\ IF Installs(disk.sbom, agent.manifest.source.sbom)
       THEN disk' = [disk EXCEPT !.sbom = agent.manifest.source.sbom] /\ Reached("config")
       ELSE Refused /\ UNCHANGED disk
    /\ UNCHANGED <<wiz, op, procs, orphans, world, attempts, starts>>

\* install_or_verify_config: an existing config is replaced atomically, the
\* first one is created and then written.
InstallConfig ==
    /\ agent.pc \in {"config", "write"}
    /\ LET new == Config(agent.join, agent.manifest) IN
       CASE agent.pc = "write" ->
                disk' = [disk EXCEPT !.config = new] /\ Reached("wizard")
         [] agent.pc = "config" /\ disk.config = None ->
                disk' = [disk EXCEPT !.config = Torn] /\ Reached("write")
         [] agent.pc = "config" /\ disk.config = Torn -> Refused /\ UNCHANGED disk
         [] OTHER -> IF SameBuild(new, disk.config)
                     THEN disk' = [disk EXCEPT !.config = new] /\ Reached("wizard")
                     ELSE Refused /\ UNCHANGED disk
    /\ UNCHANGED <<wiz, op, procs, orphans, world, attempts, starts>>

\* wizard::run
StartWizard ==
    /\ agent.pc = "wizard"
    /\ IF disk.public = None \/ (BinaryUnchanged /\ PersistedValid(disk) /\ Replayed(disk))
       THEN /\ Reached("up")
            /\ wiz' = [Fresh EXCEPT !.registration =
                         IF disk.public = None THEN None ELSE disk.public.reg]
       ELSE Refused /\ UNCHANGED wiz
    /\ UNCHANGED <<disk, op, procs, orphans, world, attempts, starts>>
-----------------------------------------------------------------------------
(* wizard.rs: requests *)

\* read_request and the checks of route_request before the route is known.
Readable(q) == q.complete /\ q.withinLimits /\ q.headersValid
\* api_request_authorized: the token of the page, and the page's own origin
\* when the browser names one.
ApiAuthorized(q) == q.csrf /\ q.origin \in {"own", "absent"}
\* route_request: the request reaches the handler of `route'.
Routed(route) ==
    \E q \in Requests :
        /\ q.route = route /\ Readable(q) /\ q.host
        /\ route # "callback" => ApiAuthorized(q)
        /\ route \in {"prepare", "start", "stop"} => q.json

Up == agent.pc = "up"
Free == ~wiz.busy
Finished == op' = Idle
\* One step of the operation is done; more follow.
StepIs(kind, step) == Up /\ op.kind = kind /\ op.steps # <<>> /\ op.steps[1] = step
Next1(o) == [o EXCEPT !.steps = Tail(@)]

\* prepare_registration, up to the command it runs.
PrepareRegistration(r) ==
    /\ Up /\ Routed("prepare")
    /\ Free /\ wiz.children = {} /\ wiz.registration = None
    /\ wiz' = [wiz EXCEPT !.busy = TRUE]
    /\ op' = [Idle EXCEPT !.kind = "prepare", !.reg = r]
    /\ UNCHANGED <<disk, agent, procs, orphans, world, attempts, starts>>

\* read_or_create_keypair_from_file, three times: a key file that was created
\* and not written is refused for ever.
KeysReadable(m) == disk.keys[m] # "torn"
\* prepare-miner-registration without a signature: the challenge.
PrepareAnswers ==
    /\ Up /\ op.kind = "prepare"
    /\ IF BinaryUnchanged /\ KeysReadable(op.reg.miner)
       THEN /\ disk' = [disk EXCEPT !.keys[op.reg.miner] = "ready"]
            /\ wiz' = [wiz EXCEPT !.busy = FALSE,
                                  !.pending = [reg |-> op.reg, live |-> TRUE]]
       ELSE UNCHANGED disk /\ wiz' = [wiz EXCEPT !.busy = FALSE]
    /\ Finished
    /\ UNCHANGED <<agent, procs, orphans, world, attempts, starts>>
\* The command exceeds its time limit while it writes a key file.
PrepareTimesOut ==
    /\ Up /\ op.kind = "prepare" /\ BinaryUnchanged
    /\ disk.keys[op.reg.miner] = "none"
    /\ disk' = [disk EXCEPT !.keys[op.reg.miner] = "torn"]
    /\ wiz' = [wiz EXCEPT !.busy = FALSE] /\ Finished
    /\ UNCHANGED <<agent, procs, orphans, world, attempts, starts>>

\* CALLBACK_VALIDITY elapses.
PendingExpires ==
    /\ wiz.pending # None /\ wiz.pending.live
    /\ wiz' = [wiz EXCEPT !.pending.live = FALSE]
    /\ UNCHANGED <<disk, agent, op, procs, orphans, world, attempts, starts>>

\* handle_callback with the token of the pending challenge; an expired one is
\* forgotten, any other token changes nothing.
HandleCallback ==
    /\ Up /\ Routed("callback")
    /\ Free /\ wiz.registration = None /\ wiz.pending # None
    /\ IF wiz.pending.live
       THEN /\ wiz' = [wiz EXCEPT !.busy = TRUE]
            /\ op' = [Idle EXCEPT !.kind = "command", !.reg = wiz.pending.reg]
       ELSE wiz' = [wiz EXCEPT !.pending = None] /\ UNCHANGED op
    /\ UNCHANGED <<disk, agent, procs, orphans, world, attempts, starts>>

CallbackFails == wiz' = [wiz EXCEPT !.busy = FALSE] /\ Finished

\* prepare-miner-registration with the signature: the registration is signed,
\* put in a new envelope and appended to the log.
CommandAnswers ==
    /\ Up /\ op.kind = "command" /\ attempts < MaxAttempts
    /\ BinaryUnchanged /\ KeysReadable(op.reg.miner) /\ Appendable(op.reg)
    /\ attempts' = attempts + 1
    /\ disk' = [disk EXCEPT !.keys[op.reg.miner] = "ready",
                            !.log = @ \cup {[reg |-> op.reg, anchored |-> FALSE]}]
    /\ op' = [op EXCEPT !.kind = "complete", !.steps = CompletionSteps,
                        !.envelope = [reg |-> op.reg, nonce |-> attempts']]
    /\ UNCHANGED <<agent, wiz, procs, orphans, world, starts>>
\* It fails, or is killed before or after the append.
CommandFails(appended) ==
    /\ Up /\ op.kind = "command"
    /\ IF appended
       THEN /\ BinaryUnchanged /\ KeysReadable(op.reg.miner) /\ Appendable(op.reg)
            /\ disk' = [disk EXCEPT !.log = @ \cup {[reg |-> op.reg, anchored |-> FALSE]}]
       ELSE UNCHANGED disk
    /\ CallbackFails
    /\ UNCHANGED <<agent, procs, orphans, world, attempts, starts>>

\* install_attempt of the message and of the envelope.
InstallAttempt(step, file, bytes) ==
    /\ StepIs("complete", step)
    /\ IF Installs(disk[file], bytes)
       THEN disk' = [disk EXCEPT ![file] = bytes] /\ op' = Next1(op) /\ UNCHANGED wiz
       ELSE CallbackFails /\ UNCHANGED disk
    /\ UNCHANGED <<agent, procs, orphans, world, attempts, starts>>
\* The peers are resolved; a delivery that fails is only recorded.
Deliver ==
    /\ StepIs("complete", "deliver")
    /\ IF Resolves(agent.manifest.gossip, agent.join.private)
       THEN op' = Next1(op) /\ UNCHANGED wiz
       ELSE CallbackFails
    /\ UNCHANGED <<disk, agent, procs, orphans, world, attempts, starts>>
InstallPublic ==
    /\ StepIs("complete", "public")
    /\ disk' = [disk EXCEPT !.public = [reg |-> op.reg, envelope |-> op.envelope]]
    /\ op' = Next1(op)
    /\ UNCHANGED <<agent, wiz, procs, orphans, world, attempts, starts>>
CompleteRegistration ==
    /\ Up /\ op.kind = "complete" /\ op.steps = <<>>
    /\ wiz' = [wiz EXCEPT !.busy = FALSE, !.pending = None, !.registration = op.reg]
    /\ Finished
    /\ UNCHANGED <<disk, agent, procs, orphans, world, attempts, starts>>
-----------------------------------------------------------------------------
(* wizard.rs: the services *)

\* start_services, up to launch_services.
StartServices ==
    /\ Up /\ Routed("start")
    /\ Free /\ wiz.children = {} /\ wiz.registration # None
    /\ wiz' = [wiz EXCEPT !.busy = TRUE]
    /\ op' = [Idle EXCEPT !.kind = "launch", !.reg = wiz.registration,
                          !.steps = LaunchSteps(agent.manifest.phase)]
    /\ UNCHANGED <<disk, agent, procs, orphans, world, attempts, starts>>

\* A launch that fails drops the children it has spawned, which kills them.
MutLaunchFails == wiz' = [wiz EXCEPT !.busy = FALSE] /\ Finished /\ UNCHANGED procs
LaunchFails == wiz' = [wiz EXCEPT !.busy = FALSE] /\ Finished /\ procs' = procs \ op.spawned
LaunchStep(step, ok) ==
    /\ StepIs("launch", step)
    /\ IF ok THEN op' = Next1(op) /\ UNCHANGED <<wiz, procs>> ELSE LaunchFails
    /\ UNCHANGED <<disk, agent, orphans, world, attempts, starts>>
Spawn(step, ok) ==
    /\ StepIs("launch", step)
    /\ IF ok /\ BinaryUnchanged
       THEN /\ procs' = procs \cup {step}
            /\ op' = [Next1(op) EXCEPT !.spawned = @ \cup {step}]
            /\ UNCHANGED wiz
       ELSE LaunchFails
    /\ UNCHANGED <<disk, agent, orphans, world, attempts, starts>>

\* add_gossip_peers
AddGossipPeers ==
    LaunchStep("peers", BinaryUnchanged /\ Resolves(agent.manifest.gossip, agent.join.private))
\* matching_fork_peers: some RPC peer serves the pinned activation.
MatchingForkPeers ==
    LaunchStep("match",
        /\ Resolves(agent.manifest.fork, agent.join.private)
        /\ BinaryUnchanged
        /\ \E ip \in Resolved(agent.manifest.fork, agent.join.private) :
              world.serves[ip] = agent.manifest.activation)
SpawnGossip == Spawn("gossip", TRUE)
SpawnForkNode == Spawn("fork", TRUE)
\* wait_for_local_fork: whichever fork node holds the local RPC port answers;
\* with none, the wait ends at its deadline.
WaitForLocalFork(ready) ==
    /\ StepIs("launch", "ready")
    /\ ready => BinaryUnchanged /\ "fork" \in procs \cup orphans
    /\ LaunchStep("ready", ready)
\* mining_snapshot_evidence and snapshot_recheck_matches
SnapshotRecheckMatches(expected, current) ==
    /\ current.id = expected.id /\ current.height = expected.height
    /\ current.voters >= expected.voters
CheckEvidence ==
    LaunchStep("evidence",
        /\ BinaryUnchanged
        /\ EvidenceFor(agent.join, op.reg.miner)
        /\ SnapshotRecheckMatches(agent.manifest.pin, world.snapshot.pin))
\* read_or_create_password: created, then written; a password file that was
\* only created is refused for ever.
ReadOrCreatePassword ==
    /\ StepIs("launch", "password")
    /\ CASE disk.password = None ->
                /\ disk' = [disk EXCEPT !.password = Torn]
                /\ op' = [op EXCEPT !.steps = <<"write">> \o Tail(@)]
                /\ UNCHANGED <<wiz, procs>>
         [] disk.password = Torn -> LaunchFails /\ UNCHANGED disk
         [] OTHER -> op' = Next1(op) /\ UNCHANGED <<disk, wiz, procs>>
    /\ UNCHANGED <<agent, orphans, world, attempts, starts>>
WritePassword ==
    /\ StepIs("launch", "write")
    /\ disk' = [disk EXCEPT !.password = "ready"] /\ op' = Next1(op)
    /\ UNCHANGED <<agent, wiz, procs, orphans, world, attempts, starts>>
SpawnMiningAdapter ==
    Spawn("adapter", agent.manifest.phase = "mining" /\ agent.join.stratumPrivate)
\* 400 ms later every child must still run.
Settle ==
    /\ StepIs("launch", "settle")
    /\ IF op.spawned \subseteq procs
       THEN /\ wiz' = [wiz EXCEPT !.busy = FALSE, !.children = op.spawned]
            /\ Finished /\ UNCHANGED procs
       ELSE LaunchFails
    /\ UNCHANGED <<disk, agent, orphans, world, attempts, starts>>

\* stop_children
StopChildren == wiz' = [wiz EXCEPT !.children = {}] /\ procs' = procs \ wiz.children
StopServices ==
    /\ Up /\ Routed("stop") /\ Free /\ wiz.children # {}
    /\ StopChildren
    /\ UNCHANGED <<disk, agent, op, orphans, world, attempts, starts>>
\* build_view of GET /api/state: one child that has exited stops the others.
CurrentView ==
    /\ Up /\ Routed("state")
    /\ wiz.children # {} /\ ~ wiz.children \subseteq procs
    /\ StopChildren
    /\ UNCHANGED <<disk, agent, op, orphans, world, attempts, starts>>

ChildExits(p) ==
    /\ p \in procs /\ procs' = procs \ {p}
    /\ UNCHANGED <<disk, agent, wiz, op, orphans, world, attempts, starts>>
OrphanStopped(p) ==
    /\ p \in orphans /\ orphans' = orphans \ {p}
    /\ UNCHANGED <<disk, agent, wiz, op, procs, world, attempts, starts>>

\* Ctrl-C: run stops its children, and the operation in progress is dropped
\* with the children it has spawned.
Interrupt ==
    /\ Up
    /\ procs' = {} /\ UNCHANGED orphans
    /\ agent' = Down /\ wiz' = Fresh /\ op' = Idle
    /\ UNCHANGED <<disk, world, attempts, starts>>
\* The agent dies without its handler; its children run on.
Crash ==
    /\ agent # Down
    /\ orphans' = orphans \cup procs /\ procs' = {}
    /\ agent' = Down /\ wiz' = Fresh /\ op' = Idle
    /\ UNCHANGED <<disk, world, attempts, starts>>

\* The binary is rebuilt, names resolve or not, a new snapshot or more votes.
Observe(w) ==
    /\ w # world /\ world' = w
    /\ UNCHANGED <<disk, agent, wiz, op, procs, orphans, attempts, starts>>
\* The miner's registration gains a registry anchor in the replayed state.
Anchored(q) ==
    /\ q \in disk.log /\ ~q.anchored
    /\ disk' = [disk EXCEPT !.log = (@ \ {q}) \cup {[q EXCEPT !.anchored = TRUE]}]
    /\ UNCHANGED <<agent, wiz, op, procs, orphans, world, attempts, starts>>

Next ==
    \/ \E j \in Joins : JoinSource(j)
    \/ InstallManifest \/ InstallActivation \/ InstallSbom \/ InstallConfig \/ StartWizard
    \/ \E r \in Registrations : PrepareRegistration(r)
    \/ PrepareAnswers \/ PrepareTimesOut \/ PendingExpires
    \/ HandleCallback \/ CommandAnswers \/ \E b \in BOOLEAN : CommandFails(b)
    \/ InstallAttempt("message", "message", op.reg)
    \/ InstallAttempt("envelope", "envelope", op.envelope)
    \/ Deliver \/ InstallPublic \/ CompleteRegistration
    \/ StartServices \/ AddGossipPeers \/ MatchingForkPeers \/ SpawnGossip \/ SpawnForkNode
    \/ \E ready \in BOOLEAN : WaitForLocalFork(ready)
    \/ CheckEvidence \/ ReadOrCreatePassword \/ WritePassword
    \/ SpawnMiningAdapter \/ Settle
    \/ StopServices \/ CurrentView
    \/ \E p \in procs : ChildExits(p)
    \/ \E p \in orphans : OrphanStopped(p)
    \/ Interrupt \/ Crash
    \/ \E w \in Worlds : Observe(w)
    \/ \E q \in disk.log : Anchored(q)

Spec == Init /\ [][Next]_vars
-----------------------------------------------------------------------------
\* The receipt of a join stays one receipt: whichever joins run, with whatever
\* arguments, and wherever they are interrupted, the installed manifest, the
\* installed activation and the agent config name one source build and one
\* activation, and a wizard only runs with a config that names the installed
\* manifest (join_source, install_or_update_join_manifest,
\* install_or_verify_config).
ReceiptConsistent ==
    /\ disk.activation # None => disk.activation = disk.manifest.activation
    /\ disk.sbom # None => disk.sbom = disk.manifest.source.sbom
    /\ Written(disk.config) => disk.config.source = disk.manifest.source
    /\ Up => disk.config.manifest = disk.manifest

\* The public registration receipt is written last: whenever it exists, at any
\* step of any operation and after any crash, the message, the envelope and
\* the keys that existing_registration demands on the next start are there and
\* agree with it, the registration is in the log, and the wizard shows no
\* registration that is not on disk (complete_registration,
\* existing_registration).
RegisteredIsDurable ==
    /\ disk.public # None => /\ PersistedValid(disk)
                             /\ \E q \in disk.log : q.reg = disk.public.reg
    /\ wiz.registration # None => /\ disk.public # None
                                  /\ wiz.registration = disk.public.reg

\* Unless the agent dies, no child outlives it or is forgotten by it: every
\* child that runs is one the wizard lists or one the launch in progress has
\* spawned, whatever fails in a launch and whenever Ctrl-C comes
\* (launch_services, ManagedChild::drop, stop_children, run).
NoStrayChildren == procs \subseteq wiz.children \cup op.spawned

\* The agent and its wizard keep the three promises above.
OnboardingSound == ReceiptConsistent /\ RegisteredIsDurable /\ NoStrayChildren
=============================================================================
