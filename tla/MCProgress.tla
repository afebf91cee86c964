----------------------------- MODULE MCProgress -----------------------------
(***************************************************************************)
(* What must eventually happen, one part per behaviour: the voting of the  *)
(* miner registry, the sync of two fork-chain nodes, a key generation, a   *)
(* gossip sync, the share log under redelivery and under polling, and the  *)
(* publication of found blocks.                                            *)
(* All but the registry run on x1 to x11 and leave it in its initial state. *)
(***************************************************************************)
EXTENDS MinerRegistry, TLC

CONSTANTS Cut, NL, Junk

VARIABLES part, x1, x2, x3, x4, x5, x6, x7, x8, x9, x10, x11

-----------------------------------------------------------------------------
(* ForkSync: two blocks on a1, of which b2 has more work and a2 a time that *)
(* the first clock refuses.                                                 *)

Block(prev, time, target, rank) ==
    [prev |-> prev, time |-> time, target |-> target, rank |-> rank, txs |-> <<>>,
     reward |-> 4, sound |-> TRUE]
ForkNodes == {"n1", "n2"}
ForkBlocks == {"a1", "a2", "b2"}
ForkHeader ==
    [a1 |-> Block("I", 2, 28, 5), a2 |-> Block("a1", 6, 28, 6), b2 |-> Block("a1", 4, 14, 1)]
Fork == INSTANCE ForkSync
    WITH Blocks <- ForkBlocks, Header <- ForkHeader,
         Txs <- {}, Tx <- <<>>, Inherited <- "I", Nodes <- ForkNodes,
         Peers <- [n1 |-> {"n2"}, n2 |-> {"n1"}], Idle <- None,
         FirstHeight <- 1, LaunchTime <- 1, ActivationHeight <- 9, Maturity <- 2,
         MaxBlockTxs <- 3, Subsidy <- 4, HalvingInterval <- 9, MedianWindow <- 3,
         MaxFuture <- 2, PowLimit <- 28, WorkRange <- 64, Mantissa <- 8, Base <- 2,
         Spacing <- 4, Interval <- 2, HandoffWork <- 4, Clocks <- {3, 8}, MaxLost <- 1,
         stored <- x1, tip <- x2, sync <- x3, now <- x4, lost <- x5

-----------------------------------------------------------------------------
(* FrostDkg: two signers that crash.                                        *)

Signers == {"s1", "s2"}
Dkg == INSTANCE FrostDkg
    WITH MaxCrashes <- 2, disk <- x1, up <- x2, crashes <- x3, torn <- x4

-----------------------------------------------------------------------------
(* GossipSync: a registration, a template and two shares, a checkpoint of   *)
(* the second, and a fresh template.                                        *)

Msg(kind, template, parent, created) ==
    [kind |-> kind, miner |-> 1, template |-> template, parent |-> parent,
     created |-> created, miners |-> {}, round |-> 0]
Checkpoint == [kind |-> "checkpoint", miner |-> 0, template |-> 0, parent |-> 4,
               created |-> 0, miners |-> {1}, round |-> 1]
GossipMessage ==
    <<Msg("registration", 0, 0, 0), Msg("template", 0, 0, 0), Msg("share", 2, 0, 0),
      Msg("share", 2, 3, 0), Checkpoint, Msg("template", 0, 0, 2)>>
Gossip == INSTANCE GossipSync
    WITH Message <- GossipMessage,
         Genesis <- <<1, 2, 3, 4>>, Direct <- {6}, Miners <- {1}, MaxAge <- 1,
         InventoryLimit <- 3, MaxParentDepth <- 2, MaxExtraParents <- 8,
         MaxRegistrations <- 5, MaxTemplates <- 2, MaxTime <- 2, MaxLost <- 1,
         MaxLapses <- 1,
         log <- x1, peerLog <- x2, now <- x3, eligible <- x4, final <- x5,
         peerFinal <- x6, sync <- x7, late <- x8, lost <- x9

-----------------------------------------------------------------------------
(* ShareLog: appends of two processes, where message 2 needs message 1; and *)
(* one appender with a reader that polls.                                   *)

Appended == INSTANCE ShareLog
    WITH Messages <- {"1", "2"},
         Needs <- [m \in {"1", "2"} |-> IF m = "2" THEN {"1"} ELSE {}],
         Guarded <- {}, Processes <- {"p", "q"}, Readers <- {}, FailPoints <- {"cut"},
         MaxFailures <- 2,
         log <- x1, envelopes <- x2, lock <- x3, pc <- x4, msg <- x5, cache <- x6,
         index <- x7, reading <- x8, cutting <- x9, failures <- x10
Polled == INSTANCE ShareLog
    WITH Messages <- {"1", "2"}, Needs <- [m \in {"1", "2"} |-> {}], Guarded <- {},
         Processes <- {"p"}, Readers <- {"r"}, FailPoints <- {"cut"}, MaxFailures <- 1,
         log <- x1, envelopes <- x2, lock <- x3, pc <- x4, msg <- x5, cache <- x6,
         index <- x7, reading <- x8, cutting <- x9, failures <- x10

-----------------------------------------------------------------------------
(* Publication: two candidates, of which consensus refuses one.             *)

Candidates == {"c1", "c2"}
Publisher == INSTANCE Publication
    WITH Invalid <- {"c2"}, FileOrder <- [c1 |-> 1, c2 |-> 2], Guarded <- {},
         MaxJournal <- 1, MaxFaults <- 2, MaxReorgs <- 1,
         config <- x1, up <- x2, found <- x3, current <- x4, journal <- x5, core <- x6,
         connected <- x7, published <- x8, job <- x9, faults <- x10, reorgs <- x11

-----------------------------------------------------------------------------

after9 == <<x10, x11>>
after5 == <<x6, x7, x8, x9, after9>>
slots == <<x1, x2, x3, x4, x5, after5>>
allVars == <<part, vars, slots>>
No9 == x10 = 0 /\ x11 = 0
No5 == x6 = 0 /\ x7 = 0 /\ x8 = 0 /\ x9 = 0 /\ No9

MCInit ==
    /\ Init
    /\ \/ part = "registry" /\ x1 = 0 /\ x2 = 0 /\ x3 = 0 /\ x4 = 0 /\ x5 = 0 /\ No5
       \/ part = "fork" /\ Fork!Init /\ No5
       \/ part = "dkg" /\ Dkg!Init /\ x5 = 0 /\ No5
       \/ part = "gossip" /\ Gossip!Init /\ No9
       \/ part = "appended" /\ Appended!Init /\ x11 = 0
       \/ part = "polled" /\ Polled!Init /\ x11 = 0
       \/ part = "publisher" /\ Publisher!Init

MCNext ==
    /\ \/ part = "registry" /\ Cooperate /\ UNCHANGED slots
       \/ /\ \/ part = "fork" /\ Fork!Next /\ UNCHANGED after5
             \/ part = "dkg" /\ Dkg!Next /\ UNCHANGED <<x5, after5>>
             \/ part = "gossip" /\ Gossip!Next /\ UNCHANGED after9
             \/ part = "appended" /\ Appended!Next /\ UNCHANGED x11
             \/ part = "polled" /\ Polled!Next /\ UNCHANGED x11
             \/ part = "publisher" /\ Publisher!Next
          /\ UNCHANGED vars
    /\ UNCHANGED part

-----------------------------------------------------------------------------
\* The fairness each component's own specification assumes.  A behaviour stays
\* in its part, so a condition on the steps of several parts is the condition
\* on each.
MCSpec ==
    /\ MCInit /\ [][MCNext]_allVars
    /\ WF_allVars(/\ \/ part = "registry" /\ AdvanceBlock /\ UNCHANGED slots
                     \/ /\ \/ part = "fork" /\ Fork!Tick /\ UNCHANGED after5
                           \/ part = "gossip" /\ Gossip!SyncStep /\ UNCHANGED after9
                           \/ part = "appended" /\ Appended!ClearStaleLock /\ UNCHANGED x11
                           \/ part = "polled" /\ Polled!ClearStaleLock /\ UNCHANGED x11
                           \/ part = "publisher" /\ Publisher!JobStep
                        /\ UNCHANGED vars
                  /\ UNCHANGED part)
    /\ \A a \in Identities :
          /\ WF_allVars(/\ part = "registry" /\ CompleteRegistration(a, "eligible")
                        /\ UNCHANGED <<part, slots>>)
          /\ WF_allVars(part = "registry" /\ CastVote(a) /\ UNCHANGED <<part, slots>>)
          /\ WF_allVars(/\ part = "registry" /\ CompleteVote(a, "eligible")
                        /\ UNCHANGED <<part, slots>>)
          /\ WF_allVars(/\ part = "registry" /\ ClearStrandedVote(a)
                        /\ UNCHANGED <<part, slots>>)
    /\ \A n \in ForkNodes :
          WF_allVars(part = "fork" /\ Fork!SyncStep(n) /\ UNCHANGED <<part, vars, after5>>)
    /\ \A s \in Signers :
          /\ WF_allVars(part = "dkg" /\ Dkg!Start(s) /\ UNCHANGED <<part, vars, x5, after5>>)
          /\ WF_allVars(/\ part = "dkg" /\ \E p \in Signers \ {s} : Dkg!Submit(s, p)
                        /\ UNCHANGED <<part, vars, x5, after5>>)
    /\ WF_allVars(/\ \/ /\ part = "gossip" /\ \E c \in Gossip!Ids : Gossip!Observe(c)
                        /\ UNCHANGED after9
                     \/ part = "appended" /\ Appended!Step("p") /\ UNCHANGED x11
                     \/ part = "polled" /\ Polled!Step("p") /\ UNCHANGED x11
                  /\ UNCHANGED <<part, vars>>)
    /\ WF_allVars(/\ \/ part = "appended" /\ Appended!Step("q") /\ UNCHANGED x11
                     \/ part = "polled" /\ Polled!ReadStep("r") /\ UNCHANGED x11
                  /\ UNCHANGED <<part, vars>>)
    /\ SF_allVars(/\ \/ part = "fork" /\ Fork!AskStatus("n1", "n2") /\ UNCHANGED after5
                     \/ /\ part = "appended" /\ \E p \in {"p", "q"} : Appended!Begin(p, "1")
                        /\ UNCHANGED x11
                     \/ part = "publisher" /\ Publisher!BeginRecovery
                  /\ UNCHANGED <<part, vars>>)
    /\ SF_allVars(/\ \/ part = "fork" /\ Fork!AskStatus("n2", "n1") /\ UNCHANGED after5
                     \/ /\ part = "appended" /\ \E p \in {"p", "q"} : Appended!Begin(p, "2")
                        /\ UNCHANGED x11
                  /\ UNCHANGED <<part, vars>>)

-----------------------------------------------------------------------------
\* Fork-chain nodes that keep asking each other end up on one tip, and a gossip
\* sync fetches what the node would accept and each finalized checkpoint
\* (fork_chain.rs, p2p_node.rs).
NodesConverge ==
    /\ <>[](part = "fork" => Fork!Agree)
    /\ []<>(part = "gossip" => Gossip!Supplied)
    /\ \A c \in Gossip!Checkpoints :
          part = "gossip" /\ Gossip!Final(c) ~> part = "gossip" /\ Gossip!Applied(c)

\* What was begun ends: a key generation unless a crash fell between two writes
\* of one handler (frost_signer_daemon.rs), the envelope of a logged message and
\* the removal of a torn tail (local_node.rs), and the publication of a block
\* that stays on the active chain (mining_adapter.rs).
BegunIsCompleted ==
    /\ [](part = "dkg" => ~Dkg!Torn) => (part = "dkg" ~> part = "dkg" /\ Dkg!Completed)
    /\ \A m \in {"1", "2"} :
          (part = "appended" /\ Appended!Logged(m)) ~> (part = "appended" /\ Appended!Enveloped(m))
    /\ (part = "polled" /\ Polled!OnlyTorn) ~> (part = "polled" /\ Polled!Served)
    /\ \A c \in Candidates \ {"c2"} :
          <>[](part = "publisher" /\ Publisher!Active(c))
              => <>[](part = "publisher" /\ Publisher!Settled(c))
=============================================================================
