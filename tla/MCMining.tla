------------------------------ MODULE MCMining ------------------------------
(***************************************************************************)
(* A mining node and what it talks to, one part per behaviour: the Stratum  *)
(* adapter, the work and blocks it builds, what it reads from its Idena and *)
(* its Bitcoin node, the gossip server, the peer book, and a sync.          *)
(* The parts share nothing, so they take turns with the variables: every    *)
(* part runs its module on the first of x1, x2, ... and leaves the rest at 0. *)
(***************************************************************************)
EXTENDS Integers, Sequences, FiniteSets, TLC

CONSTANTS c1, c2, i1, i2, p1, p2, None

VARIABLES part, x1, x2, x3, x4, x5, x6, x7, x8, x9, x10, x11, x12, x13

after9 == <<x10, x11, x12, x13>>
after8 == <<x9, after9>>
after7 == <<x8, after8>>
after3 == <<x4, x5, x6, x7, after7>>
vars == <<part, x1, x2, x3, after3>>

No9 == x10 = 0 /\ x11 = 0 /\ x12 = 0 /\ x13 = 0
No8 == x9 = 0 /\ No9
No7 == x8 = 0 /\ No8
No3 == x4 = 0 /\ x5 = 0 /\ x6 = 0 /\ x7 = 0 /\ No7

-----------------------------------------------------------------------------
(* Stratum: an adapter without anchors, an anchored one and one whose jobs  *)
(* are bound to the share parent.                                           *)

Plain == [requireAdmission |-> FALSE, anchored |-> FALSE, bound |-> FALSE,
          shareTarget |-> FALSE, append |-> TRUE, fork |-> FALSE, refresh |-> TRUE,
          rpc |-> TRUE, identity |-> FALSE, autoSubmit |-> FALSE, schedule |-> FALSE,
          dynamic |-> FALSE, payoutDir |-> FALSE]
Anchored == [Plain EXCEPT !.anchored = TRUE, !.requireAdmission = TRUE]
Bound == [Anchored EXCEPT !.bound = TRUE, !.shareTarget = TRUE, !.autoSubmit = TRUE,
                          !.identity = TRUE]
Adapter == INSTANCE Stratum
    WITH Conns <- {c1, c2}, Nonces <- {1, 2}, Quality <- <<"share", "block">>,
         Configs <- {Plain, Anchored, Bound}, Easy <- {2}, MaxUpdates <- 1,
         MaxSubmitted <- 2, MaxShares <- 2, MaxEvents <- 2,
         config <- x1, running <- x2, template <- x3, eligible <- x4, log <- x5,
         tip <- x6, checkpoint <- x7, active <- x8, refresh <- x9, conn <- x10,
         anchorLock <- x11, blockLock <- x12, events <- x13

\* Bounds: an anchored adapter starts with both miners at work and sees one
\* event, the plain one has one miner.
Ready ==
    \A c \in {c1, c2} :
        /\ x10[c].subscribed /\ x10[c].authorized
        /\ x10[c].told # None /\ x10[c].at # "subscribe"
Handshakes ==
    part = "adapter" /\ x1.anchored =>
        IF Ready THEN Ready' \/ ~x2'
        ELSE UNCHANGED <<x1, x2, x3, x4, x5, x6, x7, x8, x9, x13>>
Few ==
    part = "adapter" =>
        /\ ~x1.anchored => ~x10[c2].open
        /\ x1.bound => x9["loop"] = None
        /\ x1.anchored => x13 <= 1
MCSymmetry == Permutations({c1, c2})

-----------------------------------------------------------------------------
(* BlockWork: blocks of no, two and four transactions; adapters without a   *)
(* payout, with a static schedule, and with identity policies.              *)

LeafFor(o, k) == [owner |-> o, status |-> "Human", key |-> k, commitment |-> o,
                  sequence |-> 1, block |-> 1, epoch |-> 1]
TheLeaves == <<LeafFor(1, "k1"), LeafFor(2, "k2"), LeafFor(3, "k3")>>
Identity == INSTANCE ConsensusIdentity
    WITH MinConfirmations <- 2, MaxConfirmations <- 3, MaxSnapshotSeconds <- 100,
         MaxMiners <- 3, MaxDepth <- 2
PolicyTo(expiry) ==
    [height |-> 1, time |-> 1, nextValidation |-> 4, count |-> 3, activation |-> 2,
     expiryHeight |-> 4, expiryMtp |-> expiry, maxDepth |-> 2, requireShareWork |-> TRUE,
     root |-> Identity!MerkleRoot(Identity!LeafHashes(TheLeaves)), fork |-> "fork"]
ThePolicy == PolicyTo(2)
TheActivation == [activationId |-> <<"activation", Identity!PolicyHash(ThePolicy)>>]
Proof(policy, i) ==
    [policy |-> policy, activation |-> TheActivation,
     authorization |-> Identity!Unsigned(policy, [leaf |-> TheLeaves[i], index |-> i - 1,
         siblings |-> Identity!Siblings(Identity!LeafHashes(TheLeaves), i - 1)], None)]
Start(payout, policy, identity, key) ==
    [payout |-> payout, policy |-> policy, identity |-> identity, key |-> key,
     marker |-> policy # None, snapshot |-> "snapshot"]
Tx(id, witness) == [id |-> id, witness |-> witness]
Work == INSTANCE BlockWork
    WITH Miner <- "miner", ShareTarget <- 2, BlockTarget <- 1, MaxTarget <- 4,
         ChainPolicy <- ThePolicy, Activation <- TheActivation,
         Configurations <-
            {Start("none", None, None, "k1"), Start("static", None, None, "k1"),
             Start("dynamic", "p1", None, "k2"),
             Start("dynamic", "p1", Proof(ThePolicy, 1), "k1"),
             Start("static", "p1", Proof(PolicyTo(3), 1), "k1")},
         StaticSchedule <- [direct |-> <<3>>, vault |-> 2],
         TxSets <- {<<>>, <<Tx(1, TRUE), Tx(2, FALSE)>>, [i \in 1..4 |-> Tx(i, FALSE)]},
         Values <- {5, 6}, Extranonces <- {1, 2}, Nonces <- {1, 2}, Anchors <- {1},
         MaxHeight <- 3, MaxTip <- 1, MaxFiles <- 2,
         MinConfirmations <- 2, MaxConfirmations <- 3, MaxSnapshotSeconds <- 100,
         MaxMiners <- 3, MaxDepth <- 2,
         material <- x1, required <- x2, tip <- x3, config <- x4, job <- x5,
         files <- x6, submitted <- x7

\* Bound: once a candidate is stored, only jobs, restarts and files change.
Calm ==
    part = "work" =>
        /\ x6' # {} => UNCHANGED <<x1, x3>> /\ x1.height = 2
        /\ Cardinality(x6) = 2 => x5' = None \/ UNCHANGED <<x5, x6>>

-----------------------------------------------------------------------------
(* IdenaView: three miners, one of whose owners delegates; heights 2 to 5   *)
(* and one reorganisation.                                                  *)

Idena == INSTANCE IdenaView
    WITH MinConfirmations <- 2, MaxConfirmations <- 3, MaxSnapshotSeconds <- 100,
         MaxMiners <- 3, MaxDepth <- 2, Miners <- {1, 2, 3},
         Statuses <- {"Newbie", "Suspended"}, Attempts <- 2, Confirmations <- 2,
         MaxAge <- 2, ActivationHeight <- 2, EpochLength <- 5, StartHeight <- 2,
         MaxHeight <- 5, MaxReorg <- 1, MaxReorgs <- 1, MaxChanges <- 1,
         TimeoutBlocks <- 1,
         Delegatee <- [o \in 7..9 |-> IF o = 9 THEN 8 ELSE None],
         Score <- [o \in 7..9 |-> o],
         chain <- x1, minted <- x2, reorgs <- x3, client <- x4, file <- x5, pc <- x6,
         view <- x7, result <- x8, issued <- x9

-----------------------------------------------------------------------------
(* CoreView: a branch of four blocks whose times are not in order, and a    *)
(* heavier one of two.                                                      *)

Out(script, amount) == [script |-> script, amount |-> amount]
Commit == Out("c", 0)
B(parent, height, work, time, merkle, outputs) ==
    [parent |-> parent, height |-> height, work |-> work, time |-> time, merkle |-> merkle,
     target |-> 1, outputs |-> outputs]
Tree ==
    ("g" :> B("g", 0, 0, 0, 9, <<>>))
    @@ ("a1" :> B("g", 1, 1, 2, 1, <<Commit, Out("m", 3), Out("m", 3), Out("v", 4)>>))
    @@ ("a2" :> B("a1", 2, 2, 1, 2, <<Commit, Out("m", 3), Out("v", 4)>>))
    @@ ("a3" :> B("a2", 3, 3, 1, 1, <<Out("m", 3), Out("m", 3), Out("v", 4)>>))
    @@ ("a4" :> B("a3", 4, 4, 2, 1, <<>>))
    @@ ("b1" :> B("g", 1, 1, 1, 1, <<>>))
    @@ ("b2" :> B("b1", 2, 5, 2, 2, <<>>))
Fields == {"activation", "heights", "mtp", "root", "count"}
Setup == [chain |-> "pohw", initialBlockDownload |-> FALSE, verified |-> TRUE,
          profile |-> [pinned |-> TRUE, enforced |-> FALSE, fields |-> {}],
          required |-> FALSE, metadata |-> {}, expiryHeight |-> 2, expiryMtp |-> 2,
          transactions |-> {[txid |-> 1, data |-> 1]}]
Accepts(mutable, root, unverified) ==
    [mutableTime |-> mutable, drift |-> 1, expectedRoot |-> root,
     allowUnverified |-> unverified]
Core == INSTANCE CoreView
    WITH Block <- Tree, Genesis <- "g", Tips <- {"a2"}, MaxJobs <- 1, MaxTime <- 2,
         MaxTarget <- 3, Checkpoint <- "a1", Launches <- {2}, Window <- 3,
         MinConfirmations <- 2, Version <- 1,
         Setups <- {[Setup EXCEPT !.chain = "main", !.profile = None],
                    [Setup EXCEPT !.chain = "pohw2", !.profile.enforced = TRUE,
                                  !.required = TRUE, !.profile.fields = Fields,
                                  !.metadata = Fields]},
         Policies <- {Accepts(TRUE, None, TRUE), Accepts(FALSE, None, TRUE),
                      Accepts(TRUE, 1, FALSE)},
         Payouts <- {[schedule |-> [root |-> 1, direct |-> <<Out("m", 3), Out("m", 3)>>,
                                    vault |-> 4],
                      commitment |-> [root |-> 1, script |-> "c", vaultScript |-> "v"]]},
         core <- x1, jobs <- x2, call <- x3

-----------------------------------------------------------------------------
(* GossipServer: two connections from two addresses in two groups, and a    *)
(* book of two entries for four peers, two of them seeds.                   *)

Server == INSTANCE GossipServer
    WITH Ips <- {i1, i2}, PeerIds <- {p1, p2},
         IpGroup <- (i1 :> "g1") @@ (i2 :> "g2"),
         MaxEnvelopes <- 1, MaxReads <- 1, Window <- 2, MaxInvalid <- 2, BanSeconds <- 2,
         MaxPerGroup <- 1, Conns <- {c1, c2}, MaxConnections <- 2,
         MaxConnectionsPerIp <- 1, Addrs <- {1}, AddrIp <- <<i1>>, Seeds <- {}, Self <- 1,
         MaxBook <- 2, MaxRound <- 1, MaxTime <- 2, InvalidBound <- 2, MaxPassed <- 3,
         MaxFailures <- 2,
         now <- x1, policy <- x2, limiter <- x3, conn <- x4, passed <- x5, book <- x6,
         dialled <- x7, seeded <- x8
Book == INSTANCE GossipServer
    WITH Ips <- {i1, i2}, PeerIds <- {p1, p2},
         IpGroup <- (i1 :> "g1") @@ (i2 :> "g2"),
         MaxEnvelopes <- 1, MaxReads <- 1, Window <- 2, MaxInvalid <- 2, BanSeconds <- 2,
         MaxPerGroup <- 1, Conns <- {c1}, MaxConnections <- 2,
         MaxConnectionsPerIp <- 1, Addrs <- 1..4, AddrIp <- <<i1, i1, i2, i2>>,
         Seeds <- {2, 4}, Self <- 1, MaxBook <- 2, MaxRound <- 1, MaxTime <- 1,
         InvalidBound <- 1, MaxPassed <- 3, MaxFailures <- 2,
         now <- x1, policy <- x2, limiter <- x3, conn <- x4, passed <- x5, book <- x6,
         dialled <- x7, seeded <- x8

-----------------------------------------------------------------------------
(* GossipSync: a registration, a template and two shares, a checkpoint of    *)
(* the second, and a fresh template and share on top.                        *)

M(kind, template, parent, created) ==
    [kind |-> kind, miner |-> 1, template |-> template, parent |-> parent,
     created |-> created, miners |-> {}, round |-> 0]
History ==
    <<M("registration", 0, 0, 0), M("template", 0, 0, 0), M("share", 2, 0, 0),
      M("share", 2, 3, 0),
      [M("checkpoint", 0, 4, 0) EXCEPT !.miner = 0, !.miners = {1}, !.round = 1],
      M("template", 0, 0, 2), M("share", 6, 4, 2)>>
Sync == INSTANCE GossipSync
    WITH Message <- History, Genesis <- <<1, 2, 3, 4>>, Direct <- {6, 7}, Miners <- {1, 2},
         MaxAge <- 1, InventoryLimit <- 3, MaxParentDepth <- 2, MaxExtraParents <- 8,
         MaxRegistrations <- 5, MaxTemplates <- 2, MaxTime <- 2, MaxLost <- 1,
         MaxLapses <- 1,
         log <- x1, peerLog <- x2, now <- x3, eligible <- x4, final <- x5,
         peerFinal <- x6, sync <- x7, late <- x8, lost <- x9

-----------------------------------------------------------------------------

Init ==
    \/ part = "adapter" /\ Adapter!Init
    \/ part = "work" /\ Work!Init /\ No7
    \/ part = "idena" /\ Idena!Init /\ No9
    \/ part = "core" /\ Core!Init /\ No3
    \/ part = "server" /\ Server!Init /\ No8
    \/ part = "book" /\ Book!Init /\ No8
    \/ part = "sync" /\ Sync!Init /\ No9

Next ==
    /\ \/ part = "adapter" /\ Adapter!Next
       \/ part = "work" /\ Work!Next /\ UNCHANGED after7
       \/ part = "idena" /\ Idena!Next /\ UNCHANGED after9
       \/ part = "core" /\ Core!Next /\ UNCHANGED after3
       \/ part = "server" /\ (Server!Tick \/ Server!ServerNext) /\ UNCHANGED after8
       \/ part = "book" /\ (Book!Tick \/ Book!BookNext) /\ UNCHANGED after8
       \/ part = "sync" /\ Sync!Next /\ UNCHANGED after9
    /\ UNCHANGED part

Spec == Init /\ [][Next]_vars

-----------------------------------------------------------------------------
\* The adapter's own shares form a chain, its miners have the active job, and
\* a solution is credited once (mining_adapter.rs).
AdapterSound == part = "adapter" => Adapter!AdapterSound

\* Whatever a miner finds for a served job is a block Core accepts, and what is
\* submitted is the stored candidate (mining_adapter.rs).
WorkSound == part = "work" => Work!WorkSound

\* A capture describes one block, its membership is exact, and anchors stay
\* final (consensus_identity_snapshot.rs,
\* idena_anchor_verifier.rs).
ViewSound == part = "idena" => Idena!ViewSound

\* The launch block is the first of its time, an admitted share is work on the
\* served job, and a confirmed payout pays the schedule (bitcoin_rpc.rs, main.rs).
CoreSound == part = "core" => Core!CoreSound

\* The limits of the gossip server hold, and seeds stay in the book
\* (p2p_node.rs).
ServerSound == (part = "server" => Server!ServerSound) /\ (part = "book" => Book!ServerSound)

\* A sync appends old messages only as a finalized checkpoint's history, parents
\* first (p2p_node.rs).
SyncSound == part = "sync" => Sync!SyncSound
=============================================================================
