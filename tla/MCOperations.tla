---------------------------- MODULE MCOperations ----------------------------
(***************************************************************************)
(* The tools around a node, one part per behaviour: the evidence of a      *)
(* release, source packages, the pin store, the onboarding agent, and the  *)
(* dashboard and explorer server.  Each of the other parts runs its module *)
(* on the first of x1, x2, ... and leaves the rest at 0.                   *)
(***************************************************************************)
EXTENDS Readiness, TLC

CONSTANTS q1, q2, h1, Torn

VARIABLES part, x1, x2, x3, x4, x5, x6, x7, x8, x9, x10

after9 == <<x10>>
after7 == <<x8, x9, after9>>
slots == <<x1, x2, x3, x4, x5, x6, x7, after7>>
allVars == <<part, vars, slots>>

No9 == x10 = 0
No7 == x8 = 0 /\ x9 = 0 /\ No9
NoSlots == x1 = 0 /\ x2 = 0 /\ x3 = 0 /\ x4 = 0 /\ x5 = 0 /\ x6 = 0 /\ x7 = 0 /\ No7
NoReadiness ==
    /\ published = 0 /\ scope = 0 /\ pinset = 0 /\ evidence = 0 /\ reports = 0
    /\ released = 0

-----------------------------------------------------------------------------
(* Readiness *)

\* Two repositories; "e2" changes both, "e3" changes the second with a
\* consensus risk.
Repository(name, source) == [name |-> name, source |-> source, artifacts |-> <<>>]
Manifest(cid, parent, s1, s2) ==
    [cid |-> cid, parent |-> parent, parameters |-> "params",
     repositories |-> <<Repository(1, s1), Repository(2, s2)>>]
MCEcosystems ==
    {Manifest("e1", "e0", "s1", "s2"), Manifest("e2", "e1", "s1x", "s2x"),
     Manifest("e3", "e1", "s1", "s2y")}

Change(repository, base, candidate, patch) ==
    [repository |-> repository, base |-> base, candidate |-> candidate, patch |-> patch]
First == Change(1, "s1", "s1x", "d1")
Both == <<First, Change(2, "s2", "s2x", "d2")>>
Second == <<Change(2, "s2", "s2y", "d3")>>
MCEcosystemPatches ==
    {[cid |-> "p2", parent |-> "e1", candidate |-> "e2", patches |-> Both],
     [cid |-> "p2half", parent |-> "e1", candidate |-> "e2", patches |-> <<First>>],
     [cid |-> "p3", parent |-> "e1", candidate |-> "e3", patches |-> Second]}
MCSourcePatches ==
    {[repository |-> c.repository, base |-> c.base, candidate |-> c.candidate,
      patch |-> c.patch, risk |-> IF c.patch = "d3" THEN "consensus" ELSE "normal"] :
        c \in ToSet(Both) \cup ToSet(Second)}
MCScopeCid(patch) ==
    CASE patch.cid = "p2" -> "x2" [] patch.cid = "p2half" -> "x2half" [] patch.cid = "p3" -> "x3"

Sources(patches) ==
    [i \in 1..Len(patches) |-> [repository |-> patches[i].repository, cid |-> patches[i].candidate]]

\* id orders the items of a pool.
Item(id, kind, value) ==
    [id |-> id, cid |-> value.cid, value |-> value,
     authentication |-> [request |-> Request(kind, value), proof |-> "signature",
                         signer |-> value.address]]
Receipt(id, repository, source) ==
    [id |-> id, cid |-> "r" \o source,
     value |-> [cid |-> "r" \o source, repository |-> repository, source |-> source,
                candidate |-> "", packaged |-> 1, tracked |-> 2]]
MCReceipts == {Receipt(1, 1, "s1x"), Receipt(2, 2, "s2x"), Receipt(3, 2, "s2y")}

Build(cid, who, platform, candidate, scopeCid, patches, binary) ==
    LET artifacts == <<[name |-> 1, cid |-> binary, core |-> TRUE],
                       [name |-> 2, cid |-> cid \o "log", core |-> FALSE]>>
    IN  [cid |-> cid, normalCid |-> cid, identity |-> who, address |-> who,
         platform |-> platform, candidate |-> candidate, scope |-> scopeCid,
         sources |-> Sources(patches), exits |-> {0}, passed |-> TRUE,
         artifacts |-> artifacts, digest |-> CoreDigest(artifacts),
         content |-> {"toolchain"}, intent |-> "detached"]
MCBuilds ==
    {Item(1, "build", Build("b1", "A", "linux", "e2", "x2", Both, "bin")),
     Item(2, "build", Build("b2", "B", "linux", "e2", "x2", Both, "bin")),
     Item(1, "build", Build("b1h", "A", "linux", "e2", "x2half", <<First>>, "bin")),
     Item(2, "build", Build("b2h", "B", "linux", "e2", "x2half", <<First>>, "bin")),
     Item(1, "build", Build("b3", "A", "linux", "e3", "x3", Second, "bin3")),
     Item(2, "build", Build("b4", "B", "macos", "e3", "x3", Second, "bin3")),
     Item(3, "build", Build("b5", "C", "linux", "e3", "x3", Second, "bin3")),
     Item(4, "build", Build("b6", "C", "linux", "e3", "x3", Second, "bin4"))}

Audit(cid, who, group, candidate, scopeCid, patches) ==
    [cid |-> cid, normalCid |-> cid, identity |-> who, address |-> who, group |-> group,
     candidate |-> candidate, scope |-> scopeCid, sources |-> Sources(patches),
     pass |-> TRUE, findings |-> 0, content |-> {cid \o "report"}, intent |-> "detached"]
MCAudits ==
    {Item(1, "audit", Audit("a1", "B", "org1", "e2", "x2", Both)),
     Item(2, "audit", Audit("a2", "D", "org2", "e2", "x2", Both)),
     Item(1, "audit", Audit("a1h", "D", "org2", "e2", "x2half", <<First>>)),
     Item(1, "audit", Audit("a3", "D", "org2", "e3", "x3", Second)),
     Item(2, "audit", Audit("a4", "E", "org2", "e3", "x3", Second)),
     Item(3, "audit", Audit("a5", "F", "org3", "e3", "x3", Second))}

Rehearsal(cid, who, platform, snapshot) ==
    LET bare == [cid |-> cid, normalCid |-> cid, identity |-> who, address |-> who,
                 platform |-> platform, parent |-> "e1", candidate |-> "e3", scope |-> "x3",
                 observed |-> "e3", restored |-> "e1", blocks |-> <<1, 2, 3>>,
                 snapshot |-> snapshot, passed |-> TRUE, content |-> {snapshot},
                 intent |-> "detached"]
    IN  bare @@ [digest |-> RehearsalDigest(bare)]
MCRehearsals ==
    {Item(1, "rehearsal", Rehearsal("m1", "A", "linux", "snap")),
     Item(2, "rehearsal", Rehearsal("m2", "B", "macos", "snap"))}

Provider(cid, who, group, candidate, expires) ==
    [cid |-> cid, normalCid |-> cid, identity |-> who, address |-> who, group |-> group,
     candidate |-> candidate, available |-> TRUE, observedAt |-> 1, expires |-> expires,
     probe |-> cid \o "probe", pinset |-> "pinset", verified |-> {}, intent |-> "detached"]
MCProviders ==
    {Item(1, "availability", Provider("v1", "G", "net1", "e2", 9)),
     Item(2, "availability", Provider("v2", "D", "net2", "e2", 9)),
     Item(3, "availability", Provider("v3", "H", "net3", "e2", 9)),
     Item(1, "availability", Provider("v4", "G", "net1", "e3", 9)),
     Item(2, "availability", Provider("v5", "H", "net2", "e3", 9)),
     Item(3, "availability", Provider("v6", "A", "net3", "e3", 9))}

MCReleases ==
    {[builders |-> 2, platforms |-> 1, attestations |-> <<1, 2>>,
      artifacts |-> <<[name |-> 1, cid |-> "bin", builders |-> 2]>>]}

\* Every list in the order of its pool, and every kind after the one it rests on.
Ordered ==
  part = "readiness" =>
    /\ released # {} => evidence = None
    /\ scope # None => Ecosystems \subseteq published
    /\ pinset # None => scope # None
    /\ evidence # None =>
        /\ \A list \in {evidence.receipts, evidence.builds, evidence.audits,
                        evidence.rehearsals, evidence.availability} :
              Increasing(Column(list, LAMBDA item : item.id))
        /\ \A item \in ToSet(evidence.builds) \cup ToSet(evidence.audits) :
              item.value.scope = scope.cid
        /\ \A item \in ToSet(evidence.availability) : item.value.candidate = scope.candidate
        /\ \A item \in ToSet(evidence.receipts) :
              \E c \in ToSet(scope.repositories) : c.candidate = item.value.source
        /\ evidence.receipts # <<>> => pinset # None
        /\ evidence.builds # <<>> => Len(evidence.receipts) = Len(scope.repositories)
        /\ evidence.audits # <<>> => Len(evidence.builds) >= 2
        /\ evidence.rehearsals # <<>> => evidence.audits # <<>> /\ scope.risk = "consensus"
        /\ evidence.availability # <<>> =>
              /\ evidence.audits # <<>>
              /\ Critical(scope) => Len(evidence.builds) >= 3 /\ Len(evidence.audits) >= 2
                                      /\ evidence.rehearsals # <<>>

-----------------------------------------------------------------------------
(* SourceTree *)

File(i) == [kind |-> "file", inode |-> i, to |-> <<>>]
Link(p) == [kind |-> "link", inode |-> 0, to |-> p]
Data(bytes, x) == [bytes |-> bytes, executable |-> x]
\* 1 a plain file, 2 a directory, 3 a skipped root directory, 4 a control path,
\* 5 an archive, 6 the first file in another case.
PlainTree == [names |-> (<<1>> :> File(1)) @@ (<<2, 1>> :> File(2)) @@ (<<3, 1>> :> File(3)) @@ (<<5>> :> File(4)),
              inodes |-> <<Data(<<"a">>, FALSE), Data(<<"a", "b">>, TRUE), Data(<<"s">>, FALSE), Data(<<"b">>, FALSE)>>]
LinkTree == [names |-> (<<1>> :> Link(<<2, 1>>)) @@ (<<2, 1>> :> File(1)) @@ (<<4>> :> File(2)) @@ (<<5>> :> File(3)),
             inodes |-> <<Data(<<"a", "b">>, TRUE), Data(<<"a">>, FALSE), Data(<<"b">>, FALSE)>>]
SomeTrees == {PlainTree, LinkTree}
SomeContents == {<<"b", "s">>, <<"b", "b">>}
SomeNewPaths == {<<1>>, <<2, 3>>, <<6>>}
ArtifactAt == (<<5>> :> <<"b">>)
WithoutCase(p) == IF p = <<6>> THEN <<1>> ELSE p
Source == INSTANCE SourceTree
    WITH Trees <- SomeTrees, Contents <- SomeContents, NewPaths <- SomeNewPaths,
         Skipped <- {<<3>>}, Vcs <- {}, Control <- {<<4>>}, Forbidden <- {},
         Binary <- {<<5>>}, Unsafe <- {}, Exclusions <- ArtifactAt,
         Portable <- WithoutCase, Secret <- "s", Migration <- {<<2, 3>>},
         Documentation <- {<<1>>}, Consensus <- {}, MaxFileSize <- 2, MaxTreeSize <- 4,
         MaxFiles <- 3, MaxEdits <- 2, MaxCheckouts <- 1,
         names <- x1, inodes <- x2, walk <- x3, packages <- x4, output <- x5,
         edits <- x6, checkouts <- x7

\* Bound: the checkout and the walk share nothing, so one of them moves at a time.
Apart == part = "source" => (x5 # Source!Empty => x3 = Source!Idle)

-----------------------------------------------------------------------------
(* PinStore: two processes, three archives, one of them of another content. *)

Pins == INSTANCE PinStore
    WITH Processes <- {q1, q2},
         Archives <- {[cid |-> "x", bytes |-> "xbytes", root |-> "x"],
                      [cid |-> "y", bytes |-> "ybytes", root |-> "y"],
                      [cid |-> "y", bytes |-> "other", root |-> "z"]},
         Ecosystems <- {None, "e"}, Providers <- {h1}, Gateways <- <<"g1", "g2">>,
         MaxCrashes <- 2, MaxPins <- 3,
         cars <- x1, digests <- x2, pinset <- x3, tmp <- x4, proc <- x5, kubo <- x6,
         asked <- x7, fetched <- x8, crashes <- x9, pins <- x10

-----------------------------------------------------------------------------
(* Onboarding *)

Pkg(id, external) == [id |-> id, external |-> external, inside |-> ~external]
Metadata == [packages |-> {Pkg("node", FALSE), Pkg("lib", TRUE)}, members |-> {"node"},
             graph |-> {<<"node", "lib">>}]
CleanTree == [id |-> 1, regular |-> TRUE, dirty |-> FALSE, ignored |-> {}, packaged |-> {"a"},
         tracked |-> {"a"}, metadata |-> Metadata]
Join == [tree |-> CleanTree, activation |-> 1, tools |-> 1, separate |-> FALSE, canonicalId |-> TRUE,
         trackedManifest |-> TRUE, canonicalActivation |-> TRUE, buildOutside |-> TRUE,
         binariesInside |-> TRUE, datadirOutside |-> TRUE, phase |-> "registration",
         minVoters |-> 0, private |-> FALSE, gossip |-> {"g"}, fork |-> {"f"},
         stratumPrivate |-> TRUE]
Mining == [Join EXCEPT !.phase = "mining", !.minVoters = 1]
Separate == [Join EXCEPT !.separate = TRUE, !.canonicalId = FALSE, !.activation = 2]
SomeJoins == {Join, Mining, Separate, [Mining EXCEPT !.tools = 2],
            [Join EXCEPT !.tree.dirty = TRUE], [Join EXCEPT !.tree.tracked = {"a", "b"}],
            [Join EXCEPT !.tree.metadata.graph = None], [Join EXCEPT !.gossip = {"l"}],
            [Join EXCEPT !.gossip = {"l"}, !.private = TRUE],
            [Join EXCEPT !.canonicalActivation = FALSE], [Join EXCEPT !.minVoters = 1],
            [Mining EXCEPT !.minVoters = 3]}
SomeEndpoints == [e \in {"g", "f", "l"} |->
    CASE e = "g" -> [literal |-> FALSE, ips |-> {<<8, 8, 8>>, <<10, 0, 0>>}]
      [] e = "f" -> [literal |-> TRUE, ips |-> {<<9, 9, 9>>}]
      [] e = "l" -> [literal |-> TRUE, ips |-> {<<192, 168, 1>>}]]
SomeRegistrations == {[miner |-> "m1", identity |-> "i1"], [miner |-> "m1", identity |-> "i2"]}
Snapshot(id, voters) ==
    [pin |-> [id |-> id, height |-> id, voters |-> voters], ambiguous |-> FALSE, age |-> 0,
     eligible |-> {"i1"}]
World == [resolver |-> TRUE, binary |-> 1, snapshot |-> Snapshot(1, 1),
          serves |-> [ip \in {<<8, 8, 8>>, <<10, 0, 0>>, <<9, 9, 9>>, <<192, 168, 1>>} |-> 1]]
SomeWorlds == {World, [World EXCEPT !.resolver = FALSE], [World EXCEPT !.binary = 2],
             [World EXCEPT !.snapshot = Snapshot(2, 1)]}
Http(route) == [route |-> route, complete |-> TRUE, withinLimits |-> TRUE,
                   headersValid |-> TRUE, host |-> TRUE, csrf |-> TRUE, origin |-> "own",
                   json |-> TRUE]
HttpRequests == {Http(r) : r \in {"prepare", "callback", "start", "stop", "state"}}
              \cup {[Http("start") EXCEPT !.csrf = FALSE]}
Agent == INSTANCE Onboarding
    WITH Joins <- SomeJoins, Registrations <- SomeRegistrations, Requests <- HttpRequests,
         Endpoints <- SomeEndpoints, Worlds <- SomeWorlds, MaxAttempts <- 2, MaxStarts <- 2,
         disk <- x1, agent <- x2, wiz <- x3, op <- x4, procs <- x5, orphans <- x6,
         world <- x7, attempts <- x8, starts <- x9

-----------------------------------------------------------------------------
(* DashboardServer: every route once, and a crawl of the share pages.       *)

NoSelector == [miner |-> None, owner |-> None, identity |-> None]
Account(owner, identity, unpaid, hashrate, idena) ==
    [owner |-> owner, identity |-> identity, unpaid |-> unpaid, hashrate |-> hashrate,
     idena |-> idena, owned |-> TRUE]
ScoreLeaves == (11 :> [eligible |-> TRUE, score |-> 3]) @@ (12 :> [eligible |-> TRUE, score |-> 1])
            @@ (13 :> [eligible |-> FALSE, score |-> 5])
Accounts3(a, b, c) == <<Account(21, 11, a, 2, 0), Account(22, 12, b, 1, 0), Account(23, 13, c, 3, 0)>>
Server == [loopback |-> TRUE, allowRemote |-> FALSE, token |-> "t", public |-> TRUE,
           origins |-> {"o"}, selector |-> [NoSelector EXCEPT !.miner = 2], fork |-> "ok",
           index |-> TRUE, bitcoin |-> TRUE, idena |-> TRUE,
           accounts |-> Accounts3(5, 0, 1), leaves |-> ScoreLeaves, snapshotAge |-> 1, voters |-> 2,
           directory |-> [latest |-> TRUE, invalid |-> 0, skipped |-> 0]]
SomeSetups ==
    {Server,
     [Server EXCEPT !.public = FALSE, !.selector = [NoSelector EXCEPT !.owner = 21]],
     [Server EXCEPT !.selector = [NoSelector EXCEPT !.identity = 13], !.fork = "noIndex",
                    !.directory = [latest |-> FALSE, invalid |-> 1, skipped |-> 0]],
     [Server EXCEPT !.token = None, !.fork = None, !.index = FALSE, !.bitcoin = FALSE,
                    !.directory = None, !.leaves = None, !.selector = NoSelector],
     [Server EXCEPT !.loopback = FALSE, !.snapshotAge = 3],
     [Server EXCEPT !.accounts = [Accounts3(0, 0, 9) EXCEPT ![1].owned = FALSE]],
     [Server EXCEPT !.accounts = Accounts3(0, 9, 0), !.selector = [NoSelector EXCEPT !.miner = 1]]}
SharesOf == [s \in 1..5 |->
    [parent |-> CASE s = 1 -> 0 [] s = 2 -> 1 [] s = 3 -> 1 [] s = 4 -> 5 [] s = 5 -> 2,
     miner |-> 1 + (s % 2), time |-> IF s = 2 THEN None ELSE 3 * s]]
ExplorerRoutes ==
    {"overview", "governance", "forkBlocks", "forkBlock", "forkHeight",
     "forkTransactions", "forkTransaction", "forkAddress", "bitcoinBlocks",
     "bitcoinTransaction", "bitcoinOutspends", "bitcoinHeight", "bitcoinBlock",
     "bitcoinBlockTransactions", "bitcoinAddress", "shares", "share", "idena", "apiOther"}
Get(route) == [method |-> "GET", route |-> route, target |-> "none", origin |-> None, token |-> "t",
               targetValid |-> TRUE, pathValid |-> TRUE, queryValid |-> TRUE, share |-> 2,
               crawls |-> FALSE]
SomeRequests ==
    {Get(r) : r \in ExplorerRoutes \cup {"health", "other", "dashboard"}}
    \cup {[Get(r) EXCEPT !.token = None] : r \in {"dashboard", "overview", "proxy"}}
    \cup {[Get("proxy") EXCEPT !.target = t] : t \in {"dashboard", "share", "health"}}
    \cup {[Get("shares") EXCEPT !.queryValid = FALSE], [Get("share") EXCEPT !.pathValid = FALSE],
          [Get("share") EXCEPT !.share = 4], [Get("other") EXCEPT !.targetValid = FALSE],
          [Get("dashboard") EXCEPT !.method = "OPTIONS", !.token = None],
          [Get("dashboard") EXCEPT !.method = "POST"],
          [Get("health") EXCEPT !.origin = "o"], [Get("health") EXCEPT !.origin = "x"]}
CrawlRequests == {[Get("shares") EXCEPT !.crawls = TRUE, !.token = None], Get("share")}
Routes == INSTANCE DashboardServer
    WITH DirectLimit <- 2, MinDirect <- 2, Buckets <- 3, Day <- 4, Conns <- {1},
         Ips <- {1}, Requests <- SomeRequests, Setups <- SomeSetups, Share <- SharesOf,
         Stored0 <- {1, 2}, MaxConns <- 2, MaxPerIp <- 1, MaxPublic <- 1, MaxReplays <- 1,
         MaxIndex <- 1, PageLimit <- 2, Subsidy <- 10, Fees <- 1, Now <- 13,
         MaxShareAge <- 8, MaxSnapshotAge <- 2, MinVoters <- 2, MaxRequests <- 1,
         config <- x1, stored <- x2, conn <- x3, byIp <- x4, publicPermits <- x5,
         replaySlots <- x6, indexSlots <- x7, crawl <- x8, opened <- x9
Crawl == INSTANCE DashboardServer
    WITH DirectLimit <- 2, MinDirect <- 2, Buckets <- 3, Day <- 4, Conns <- {1, 2},
         Ips <- {1, 2}, Requests <- CrawlRequests, Setups <- {Server}, Share <- SharesOf,
         Stored0 <- {1, 2, 4}, MaxConns <- 2, MaxPerIp <- 1, MaxPublic <- 1, MaxReplays <- 1,
         MaxIndex <- 1, PageLimit <- 2, Subsidy <- 10, Fees <- 1, Now <- 13,
         MaxShareAge <- 8, MaxSnapshotAge <- 2, MinVoters <- 2, MaxRequests <- 5,
         config <- x1, stored <- x2, conn <- x3, byIp <- x4, publicPermits <- x5,
         replaySlots <- x6, indexSlots <- x7, crawl <- x8, opened <- x9

-----------------------------------------------------------------------------

MCInit ==
    \/ part = "readiness" /\ Init /\ NoSlots
    \/ /\ NoReadiness
       /\ \/ part = "source" /\ Source!Init /\ No7
          \/ part = "pins" /\ Pins!Init
          \/ part = "agent" /\ Agent!Init /\ No9
          \/ part = "routes" /\ Routes!Init /\ No9
          \/ part = "crawl" /\ Crawl!Init /\ No9

MCNext ==
    /\ \/ part = "readiness" /\ Next /\ UNCHANGED slots
       \/ part = "source" /\ Source!Next /\ UNCHANGED <<vars, after7>>
       \/ part = "pins" /\ Pins!Next /\ UNCHANGED vars
       \/ part = "agent" /\ Agent!Next /\ UNCHANGED <<vars, after9>>
       \/ part = "routes" /\ Routes!Next /\ UNCHANGED <<vars, after9>>
       \/ part = "crawl" /\ Crawl!Next /\ UNCHANGED <<vars, after9>>
    /\ UNCHANGED part

MCSpec == MCInit /\ [][MCNext]_allVars

-----------------------------------------------------------------------------
\* A ready report rests on independent evidence of the whole transition
\* (readiness.rs).
ReadyHolds == part = "readiness" => ReadySound

\* A checkout packages to the manifest it came from, and a scope names what its
\* patch touches (source.rs).
PackagesSound == part = "source" => Source!PackagesSound

\* A CID of the pinset has its verified archive on disk (ipfs.rs).
PinnedHaveBytes == part = "pins" => Pins!PinnedHaveBytes

\* The agent's receipt, registration and children stay consistent (node.rs,
\* wizard.rs).
OnboardingSound == part = "agent" => Agent!OnboardingSound

\* The dashboard shows private data to the token only, its cutoff separates the
\* payouts, its windows nest and a crawl covers the resolved shares.
AnswersSound ==
    (part = "routes" => Routes!AnswersSound) /\ (part = "crawl" => Crawl!AnswersSound)
=============================================================================
