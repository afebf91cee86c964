------------------------------- MODULE MCNode -------------------------------
(***************************************************************************)
(* What a node keeps, one part per behaviour: the publication of found     *)
(* blocks, the share log under appends of two processes, and the files of  *)
(* a datadir; then its vault: the key generation of three signers that do  *)
(* not crash and of two that do, the signing of plans, the claims and      *)
(* spend plans, and the confirmation of payouts.                           *)
(* All but the publication run on x1 to x10 and leave it in its first      *)
(* initial state.                                                          *)
(***************************************************************************)
EXTENDS Publication, Sequences

CONSTANTS
    c1, c2, c3, Cut, NL, Junk, s1, s2, s3,
    LogReaders, LogFailures   \* Readers and FailPoints of the share log

VARIABLES part, x1, x2, x3, x4, x5, x6, x7, x8, x9, x10

MCFileOrder == [c \in Candidates |-> CASE c = c1 -> 1 [] c = c2 -> 2 [] OTHER -> 3]

\* Message 2 needs message 1, 3 needs none.
Appended == INSTANCE ShareLog
    WITH Messages <- {"1", "2", "3"},
         Needs <- [m \in {"1", "2", "3"} |-> IF m = "2" THEN {"1"} ELSE {}],
         Guarded <- {}, Processes <- {"p", "q"}, Readers <- LogReaders, FailPoints <- LogFailures,
         MaxFailures <- 2,
         log <- x1, envelopes <- x2, lock <- x3, pc <- x4, msg <- x5, cache <- x6,
         index <- x7, reading <- x8, cutting <- x9, failures <- x10

\* A registration without and with a registry anchor, an anchored and an
\* unbound template.
Message(id, kind, anchor, seq, bound) ==
    [id |-> id, kind |-> kind, miner |-> "m", template |-> None, anchor |-> anchor,
     seq |-> seq, binding |-> None, targetBound |-> bound, size |-> 1]
Anchored == Message("r1", "registration", "x", 1, FALSE)
Template == Message("t", "template", "x", 0, TRUE)
Envelope(message, peer, network) ==
    [message |-> message, peer |-> peer, network |-> network]
Datadir == INSTANCE NodeStore
    WITH Processes <- {"p", "q"},
         Messages <- {Message("r0", "registration", None, 0, FALSE), Anchored, Template,
                      Message("u", "template", None, 0, FALSE)},
         Envelopes <- {Envelope(Anchored, "k", "n"), Envelope(Anchored, "k", None),
                       Envelope(Anchored, "l", "n"), Envelope(Template, "k", "n")},
         Networks <- {"n"}, AnchorPolicies <- {"x"},
         WorkPolicies <- {[id |-> "w", network |-> "n", experiment |-> "x"]},
         MaxEnvelopes <- 2, MaxPerPeer <- 1, MaxLogSize <- 3, MaxRecord <- 1,
         network <- x1, anchor <- x2, work <- x3, templates <- x4, log <- x5,
         envelopes <- x6, indexed <- x7, replay <- x8, cache <- x9, reading <- x10

-----------------------------------------------------------------------------
(* The vault *)

Three == INSTANCE FrostDkg
    WITH Signers <- {s1, s2, s3}, MaxCrashes <- 0,
         disk <- x1, up <- x2, crashes <- x3, torn <- x4
Two == INSTANCE FrostDkg
    WITH Signers <- {s1, s2}, MaxCrashes <- 2,
         disk <- x1, up <- x2, crashes <- x3, torn <- x4

Heartbeat(signer, age, eligible) ==
    [signer |-> signer, age |-> age, eligible |-> eligible]
SomeHeartbeats ==
    {Heartbeat(1, 0, TRUE), Heartbeat(2, 5, TRUE), Heartbeat(2, 9, TRUE),
     Heartbeat(3, 6, TRUE), Heartbeat(4, -1, TRUE), Heartbeat(5, 0, FALSE)}
Signing == INSTANCE VaultSigning
    WITH Heartbeats <- SomeHeartbeats, MaxAge <- 5, Plans <- {"p", "q"},
         MaxNonces <- 2, MaxCrashes <- 1,
         allowed <- x1, pending <- x2, drawn <- x3, job <- x4, commitments <- x5,
         shares <- x6, signed <- x7, approvals <- x8, crashes <- x9

Payout(accounts, reward) == [accounts |-> accounts, reward |-> reward]
SomePayouts == {Payout(<<<<1, 1>>, <<1, 1>>, <<1, 1>>>>, 100000),
                Payout(<<<<1, 0>>, <<1, 1>>, <<1, 0>>>>, 70000)}
Request(id, owner, amount, nonce, expiry, kind) ==
    [id |-> id, owner |-> owner, amount |-> amount, nonce |-> nonce,
     expiry |-> expiry, kind |-> kind, maxRate |-> 2, scriptValid |-> TRUE,
     signed |-> TRUE]
SomeRequests == {Request(1, 3, 10000, 1, 0, "p2tr"), Request(2, 3, 10200, 2, 1, "p2wpkh"),
                 Request(3, 2, 11000, 1, 1, "p2tr")}
Utxo(id, amount, confirmations) ==
    [id |-> id, amount |-> amount, confirmations |-> confirmations, key |-> "k1"]
VaultOutputs == {Utxo(1, 21100, 100), Utxo(2, 21200, 120)}
SomeRotations == {[inputs |-> VaultOutputs, fee |-> 500]}
Claims == INSTANCE VaultClaims
    WITH Confirmed <- SomePayouts, Owners <- {1, 2, 3}, Requests <- SomeRequests,
         VaultUtxos <- VaultOutputs, FeeRates <- {2}, Rotations <- SomeRotations,
         DirectLimit <- 1, MaxHeight <- 1, MaxCredited <- 110000, MaxPlans <- 2,
         ledger <- x1, requests <- x2, batches <- x3, bestHeight <- x4, utxos <- x5,
         plans <- x6, approved <- x7, credited <- x8, last <- x9

OneRequest == {Request(1, 2, 10000, 1, 0, "p2tr")}
OneShare == << [kind |-> "share", miner |-> 1] >>
Confirmation == INSTANCE PayoutConfirmation
    WITH Miners <- {1, 2}, Rewards <- {50000}, DirectLimit <- 1, MinConf <- 2,
         Days <- {1, 2}, WithdrawalRequests <- OneRequest, Genesis <- OneShare,
         MaxShares <- 2, MaxFound <- 2, MaxHeight <- 3, MaxReorgs <- 1,
         log <- x1, day <- x2, job <- x3, chain <- x4, candidates <- x5, records <- x6,
         answers <- x7, reorgs <- x8

-----------------------------------------------------------------------------

after8 == <<x9, x10>>
after4 == <<x5, x6, x7, x8, after8>>
slots == <<x1, x2, x3, x4, after4>>
allVars == <<part, vars, slots>>
No8 == x9 = 0 /\ x10 = 0
No4 == x5 = 0 /\ x6 = 0 /\ x7 = 0 /\ x8 = 0 /\ No8

MCInit ==
    /\ Init
    /\ \/ part = "publication" /\ x1 = 0 /\ x2 = 0 /\ x3 = 0 /\ x4 = 0 /\ No4
       \/ /\ config = [fork |-> FALSE, anchored |-> FALSE]
          /\ \/ part = "appended" /\ Appended!Init
             \/ part = "datadir" /\ Datadir!Init
             \/ part = "three" /\ Three!Init /\ No4
             \/ part = "two" /\ Two!Init /\ No4
             \/ part = "signing" /\ Signing!Init /\ x10 = 0
             \/ part = "claims" /\ Claims!Init /\ x10 = 0
             \/ part = "confirmation" /\ Confirmation!Init /\ No8

MCNext ==
    /\ \/ part = "publication" /\ Next /\ UNCHANGED slots
       \/ /\ \/ part = "appended" /\ Appended!Next
             \/ part = "datadir" /\ Datadir!Next
             \/ part = "three" /\ Three!Next /\ UNCHANGED after4
             \/ part = "two" /\ Two!Next /\ UNCHANGED after4
             \/ part = "signing" /\ Signing!Next /\ UNCHANGED x10
             \/ part = "claims" /\ Claims!Next /\ UNCHANGED x10
             \/ part = "confirmation" /\ Confirmation!Next /\ UNCHANGED after8
          /\ UNCHANGED vars
    /\ UNCHANGED part

MCSpec == MCInit /\ [][MCNext]_allVars

-----------------------------------------------------------------------------
\* The log replays from the start, and a current cache entry is that replay
\* (local_node.rs).
LogSound == part = "appended" => Appended!LogSound

\* A record that was completely written stays (local_node.rs).
AppendOnly == [][part = "appended" => Appended!RecordsKept]_allVars

\* The files of a datadir agree with its bindings and with each other
\* (local_node.rs).
StoreSound == part = "datadir" => Datadir!StoreSound

\* The log replays from the start, whatever write failed (local_node.rs).
LogReplays == part = "appended" => Appended!LogReplays

\* A transcript is the same at every signer and means a key package at each
\* (frost_signer_daemon.rs).
TranscriptsSound ==
    /\ part = "three" => Three!TranscriptsSound
    /\ part = "two" => Two!TranscriptsSound

\* A nonce signs once, and a signed transaction has a threshold of shares over
\* one set of commitments (real_frost_sign_spend_plan).
SigningSound == part = "signing" => Signing!SigningSound

\* Credited sats are in balances or reserved, a schedule gives out exactly the
\* reward, and an approved plan's requests stay reserved, each in one batch
\* (ledger.rs, payout.rs, vault.rs).
ClaimsSound == part = "claims" => Claims!ClaimsSound

\* A confirmed payout log replays and credits what the coinbases paid to the
\* vault (local_node.rs).
PayoutsSound == part = "confirmation" => Confirmation!PayoutsSound

\* A withdrawal request that its owner's confirmed balance covers is accepted
\* (README.md).
FundedRequestAccepted == part = "confirmation" => Confirmation!FundedRequestAccepted
=============================================================================
