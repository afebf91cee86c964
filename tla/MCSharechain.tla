---------------------------- MODULE MCSharechain ----------------------------
(***************************************************************************)
(* A small instance of Sharechain, with an Idena anchor policy bound:      *)
(*                                                                         *)
(*      0 <- 3 <- 5 <- 2 <- 7      3 <- 4 <- 1      3 <- 8      0 <- 6     *)
(*                                                                         *)
(* Shares 3, 4, 5, 6 and 8 are mined before the handoff, on templates      *)
(* anchored to Idena blocks 1 and 2; 1, 2 and 7 after it, and may arrive   *)
(* before their parents.  The branches of 2 and 1 have the same score, so  *)
(* the smaller hash wins; 7 overflows the score; 6 is a second root and    *)
(* reuses the work of 3; 8 reuses the anchor of its parent.  A second      *)
(* registration of a miner is recorded in block 2.                         *)
(*                                                                         *)
(* Two more parts run the contract that finalizes the checkpoints, on x1   *)
(* to x16: three identities that compete for one place, with payments and  *)
(* refunds, and three that vote on two tips over two rounds.               *)
(***************************************************************************)
EXTENDS Sharechain, TLC

CONSTANTS a1, a2, a3, m1, m2, m3, t1, t2, None

VARIABLES part, x1, x2, x3, x4, x5, x6, x7, x8, x9, x10, x11, x12, x13, x14, x15, x16

TreeShares == 1..8
TreeParent == <<4, 5, 0, 3, 3, 0, 2, 3>>
TreeMinerOf == <<"m1", "m2", "m1", "m2", "m1", "m2", "m1", "m2">>
TreeWorkOf == <<11, 12, 13, 14, 15, 13, 17, 18>>
TreeTemplateOf == <<"t3", "t3", "t1", "t2", "t2", "t1", "t3", "t1">>
TreeDelta == <<1, 2, 1, 2, 1, 3, 1, 1>>
TreeRegBlock == <<1, 2>> @@ (0 :> 0)
TreeAnchorOf == [t1 |-> 1, t2 |-> 2, t3 |-> 2]

-----------------------------------------------------------------------------
(* The registry *)

Registration == INSTANCE MinerRegistry
    WITH Identities <- {"a1", "a2", "a3"}, MinerIds <- {"m1", "m2"},
         Commitments <- {"c1", "c2"}, Tips <- {"t1"}, Metas <- {"x1"},
         Amounts <- {0, 1, 2}, MaxAmount <- 2, MinBurn <- 1, MaxMiners <- 1,
         RecordRoom <- 8, MinInterval <- 2, MaxBlock <- 1, MaxRound <- 0,
         MaxSequence <- 2, MaxCalls <- 2,
         block <- x1, minerOf <- x2, ownerOf <- x3, records <- x4, count <- x5,
         registered <- x6, pending <- x7, pendingMiner <- x8, escrow <- x9, vote <- x10,
         candidate <- x11, voter <- x12, supporters <- x13, final <- x14,
         regCalls <- x15, voteCalls <- x16
Voting == INSTANCE MinerRegistry
    WITH Identities <- {a1, a2, a3}, MinerIds <- {m1, m2, m3}, Commitments <- {"c1"},
         Tips <- {t1, t2}, Metas <- {"x1"}, Amounts <- {1}, MaxAmount <- 2, MinBurn <- 1,
         MaxMiners <- 3, RecordRoom <- 8, MinInterval <- 2, MaxBlock <- 3, MaxRound <- 2,
         MaxSequence <- 1, MaxCalls <- 1,
         block <- x1, minerOf <- x2, ownerOf <- x3, records <- x4, count <- x5,
         registered <- x6, pending <- x7, pendingMiner <- x8, escrow <- x9, vote <- x10,
         candidate <- x11, voter <- x12, supporters <- x13, final <- x14,
         regCalls <- x15, voteCalls <- x16

\* Nothing distinguishes one voting identity, miner id or tip from another.
MCSymmetry ==
    Permutations({a1, a2, a3}) \cup Permutations({m1, m2, m3}) \cup Permutations({t1, t2})

-----------------------------------------------------------------------------

slots == <<x1, x2, x3, x4, x5, x6, x7, x8, x9, x10, x11, x12, x13, x14, x15, x16>>
allVars == <<part, vars, slots>>
NoSlots ==
    /\ x1 = 0 /\ x2 = 0 /\ x3 = 0 /\ x4 = 0 /\ x5 = 0 /\ x6 = 0 /\ x7 = 0 /\ x8 = 0
    /\ x9 = 0 /\ x10 = 0 /\ x11 = 0 /\ x12 = 0 /\ x13 = 0 /\ x14 = 0 /\ x15 = 0 /\ x16 = 0

\* The registry parts leave the sharechain in its initial state.
MCInit ==
    /\ Init
    /\ \/ part = "sharechain" /\ NoSlots
       \/ part = "registration" /\ Registration!Init
       \/ part = "voting" /\ Voting!Init

MCNext ==
    /\ \/ part = "sharechain" /\ Next /\ UNCHANGED slots
       \/ part = "registration" /\ Registration!Next /\ UNCHANGED vars
       \/ part = "voting" /\ Voting!Next /\ UNCHANGED vars
    /\ UNCHANGED part

MCSpec == MCInit /\ [][MCNext]_allVars

\* The contract holds what it owes, and the keys that index each other agree
\* (idena-pohw-miner-registry).
RegistrationSound == part = "registration" => Registration!RegistrationSound

\* A round is finalized by two thirds on one tip each, and rounds chain.
FinalitySound == part = "voting" => Voting!FinalitySound
=============================================================================
