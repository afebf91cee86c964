---------------------------- MODULE MinerRegistry ----------------------------
(***************************************************************************)
(* The ownerless miner registry on Idena                                   *)
(* (contracts/idena-pohw-miner-registry/assembly/index.ts): registration   *)
(* with an escrowed payment, rotation of a miner's key commitment, and     *)
(* voting on sharechain checkpoints.                                       *)
(*                                                                         *)
(* Registering and voting take two transactions' worth of steps: a call    *)
(* that records a pending entry and asks the runtime for the caller's      *)
(* identity, and a callback that finishes it.  Between the two anything    *)
(* may happen: other calls, other callbacks, a cancellation, even a second *)
(* request whose identity read is answered by the first one's callback.    *)
(* A failed assertion reverts the whole call, so it is no step, except     *)
(* that a reverted callback is gone.                                       *)
(***************************************************************************)
EXTENDS Integers, FiniteSets, Sequences

CONSTANTS
    None,             \* an absent storage key, and the all-zero hash
    Identities,       \* Idena addresses
    MinerIds,
    Commitments,      \* hashes of miner key sets
    Tips,             \* share tips a checkpoint may name
    Metas,            \* height and cumulative score claimed for a tip
    Amounts,          \* payments attached to a call
    MaxAmount,        \* the largest payment (u128::MAX in the code)
    MinBurn,          \* minimum registration burn
    MaxMiners,        \* MAX_CHECKPOINT_MINERS
    RecordRoom,       \* miner ids that fit in a stored checkpoint record
    MinInterval,      \* CHECKPOINT_MIN_INTERVAL_BLOCKS
    MaxBlock,         \* bound: the last Idena block
    MaxRound,         \* bound: the last checkpoint round
    MaxSequence,      \* bound: registration records of one identity
    MaxCalls          \* bound: outstanding callbacks of one identity

Results == {"eligible", "ineligible", "unavailable"}
DeploymentBlock == 0

Rounds == 1..MaxRound

PendingEntry ==
    [miner : MinerIds, commitment : Commitments, payment : 0..MaxAmount]
VoteEntry ==
    [round : Rounds, tip : Tips, meta : Metas, parent : Tips \cup {None}]
FinalEntry ==
    [tip : Tips, meta : Metas, parent : Tips \cup {None}, block : Nat,
     registered : SUBSET MinerIds, supporters : SUBSET MinerIds]

ASSUME NoneAssumption ==
    None \notin Identities \cup MinerIds \cup Tips \cup Metas
                  \cup PendingEntry \cup VoteEntry

ASSUME RegistryBounds ==
    /\ MaxAmount \in Nat
    /\ Amounts \subseteq 0..MaxAmount
    /\ MinBurn \in Nat \ {0}
    /\ {MaxMiners, RecordRoom, MinInterval, MaxBlock, MaxRound, MaxSequence,
        MaxCalls} \subseteq Nat

ASSUME RegistryFinite == IsFiniteSet(Identities) /\ IsFiniteSet(MinerIds)

VARIABLES
    block,         \* the current Idena block
    minerOf,       \* identity:<a>:miner
    ownerOf,       \* miner-owner:<m>
    records,       \* miner:<a>:<sequence>, by sequence
    count,         \* registry:registered-count
    registered,    \* registry:registered-miners
    pending,       \* pending:identity:<a>
    pendingMiner,  \* pending:miner:<m>
    escrow,        \* the coins the contract holds
    vote,          \* pending:checkpoint:<a>
    candidate,     \* checkpoint:candidate:<r>:<t>
    voter,         \* checkpoint:voter:<r>:<m>
    supporters,    \* checkpoint:supporters:<r>:<t>
    final,         \* checkpoint:final:<r>, up to checkpoint:latest-round
    regCalls,      \* registration callbacks the runtime still owes
    voteCalls      \* vote callbacks the runtime still owes

regVars == <<minerOf, ownerOf, records, count, registered>>
pendingVars == <<pending, pendingMiner, escrow, regCalls>>
roundVars == <<candidate, voter, supporters, final>>
vars == <<block, regVars, pendingVars, vote, voteCalls, roundVars>>

-----------------------------------------------------------------------------
Init ==
    /\ block = DeploymentBlock
    /\ minerOf = [a \in Identities |-> None]
    /\ ownerOf = [m \in MinerIds |-> None]
    /\ records = [a \in Identities |-> <<>>]
    /\ count = 0
    /\ registered = {}
    /\ pending = [a \in Identities |-> None]
    /\ pendingMiner = [m \in MinerIds |-> None]
    /\ escrow = 0
    /\ vote = [a \in Identities |-> None]
    /\ candidate = [r \in Rounds |-> [t \in Tips |-> None]]
    /\ voter = [r \in Rounds |-> [m \in MinerIds |-> None]]
    /\ supporters = [r \in Rounds |-> [t \in Tips |-> {}]]
    /\ final = <<>>
    /\ regCalls = [a \in Identities |-> 0]
    /\ voteCalls = [a \in Identities |-> 0]

AdvanceBlock ==
    /\ block < MaxBlock
    /\ block' = block + 1
    /\ UNCHANGED <<regVars, pendingVars, vote, voteCalls, roundVars>>

-----------------------------------------------------------------------------
(* Registration.                                                           *)

RegisterMiner(a, m, c, payment) ==
    /\ minerOf[a] = None
    /\ pending[a] = None
    /\ ownerOf[m] = None
    /\ pendingMiner[m] = None
    /\ count < MaxMiners
    /\ payment >= MinBurn
    /\ regCalls[a] < MaxCalls
    /\ pending' = [pending EXCEPT ![a] =
                     [miner |-> m, commitment |-> c, payment |-> payment]]
    /\ pendingMiner' = [pendingMiner EXCEPT ![m] = a]
    /\ escrow' = escrow + payment
    /\ regCalls' = [regCalls EXCEPT ![a] = @ + 1]
    /\ UNCHANGED <<block, regVars, vote, voteCalls, roundVars>>

\* Mutant: the reservation of the miner id outlives the request.
MutKeepReservation(a) ==
    /\ pending' = [pending EXCEPT ![a] = None]
    /\ UNCHANGED pendingMiner

ClearPending(a) ==
    LET m == pending[a].miner
    IN  /\ pending' = [pending EXCEPT ![a] = None]
        /\ pendingMiner' = [pendingMiner EXCEPT ![m] =
                              IF @ = a THEN None ELSE @]

\* Mutant: the payment is paid out and stays on record.
MutRefundTwice(a) ==
    /\ escrow' = escrow - pending[a].payment
    /\ UNCHANGED <<pending, pendingMiner>>

\* The payment leaves the contract, back to the caller or burnt.
Release(a) ==
    /\ escrow' = escrow - pending[a].payment
    /\ ClearPending(a)

RegistrationConflict(a) ==
    LET m == pending[a].miner
    IN  minerOf[a] # None \/ pendingMiner[m] # a \/ ownerOf[m] # None

CompleteRegistration(a, result) ==
    /\ regCalls[a] > 0
    /\ regCalls' = [regCalls EXCEPT ![a] = @ - 1]
    /\ IF pending[a] = None
       THEN UNCHANGED <<regVars, pending, pendingMiner, escrow>>
       ELSE /\ Release(a)
            /\ IF \/ result # "eligible"
                  \/ RegistrationConflict(a)
                  \/ count >= MaxMiners
               THEN UNCHANGED regVars
               ELSE LET m == pending[a].miner
                        line == [commitment |-> pending[a].commitment,
                                 block |-> block]
                    IN  /\ minerOf' = [minerOf EXCEPT ![a] = m]
                        /\ ownerOf' = [ownerOf EXCEPT ![m] = a]
                        /\ records' = [records EXCEPT ![a] = <<line>>]
                        /\ count' = count + 1
                        /\ registered' = registered \cup {m}
    /\ UNCHANGED <<block, vote, voteCalls, roundVars>>

CancelRegistration(a) ==
    /\ pending[a] # None
    /\ Release(a)
    /\ UNCHANGED <<block, regVars, regCalls, vote, voteCalls, roundVars>>

\* The payment of a rotation is burnt in the same call.
RotateCommitment(a, c, payment) ==
    /\ minerOf[a] # None
    /\ Len(records[a]) < MaxSequence
    /\ records[a][Len(records[a])].commitment # c
    /\ payment >= MinBurn
    /\ records' = [records EXCEPT ![a] =
                     Append(@, [commitment |-> c, block |-> block])]
    /\ UNCHANGED <<block, minerOf, ownerOf, count, registered, pendingVars,
                   vote, voteCalls, roundVars>>

-----------------------------------------------------------------------------
(* Checkpoint votes.                                                       *)

LatestRound == Len(final)

ExpectedParent == IF final = <<>> THEN None ELSE final[LatestRound].tip

EarliestBlock ==
    IF final = <<>> THEN DeploymentBlock + 1
                    ELSE final[LatestRound].block + MinInterval

\* validateOpenCheckpointVote
OpenVote(v) ==
    /\ v.round = LatestRound + 1
    /\ v.round \in Rounds
    /\ v.parent = ExpectedParent
    /\ block >= EarliestBlock
    /\ candidate[v.round][v.tip] \in {None, v.meta}

\* A vote on a finalized round changes nothing, so only open ones are steps.
VoteCheckpoint(a, t, meta) ==
    LET v == [round |-> LatestRound + 1, tip |-> t, meta |-> meta,
              parent |-> ExpectedParent]
    IN  /\ minerOf[a] # None
        /\ vote[a] = None
        /\ OpenVote(v)
        /\ voteCalls[a] < MaxCalls
        /\ vote' = [vote EXCEPT ![a] = v]
        /\ voteCalls' = [voteCalls EXCEPT ![a] = @ + 1]
        /\ UNCHANGED <<block, regVars, pendingVars, roundVars>>

\* Mutant: the quotient is rounded down.
MutThreshold(n) == (2 * n) \div 3

CheckpointThreshold(n) == (2 * n + 2) \div 3

\* The supporters of a tip once miner m has moved to it.
SupportersWith(v, m) == supporters[v.round][v.tip] \cup {m}

\* Mutant: the threshold itself is not enough.
MutQuorum(S) == Cardinality(S) > CheckpointThreshold(count)

Quorum(S) == Cardinality(S) >= CheckpointThreshold(count)

\* The record lists both sets of miners; setString bounds its length.
RecordFits(S) ==
    Cardinality(S) + Cardinality(registered) <= RecordRoom

CheckpointRecord(v, S) ==
    [tip |-> v.tip, meta |-> v.meta, parent |-> v.parent, block |-> block,
     registered |-> registered, supporters |-> S]

\* Mutant: the support for the earlier tip is not withdrawn.
MutMoveVote(v, m) ==
    LET r == v.round
        S == SupportersWith(v, m)
    IN  IF voter[r][m] = v.tip
        THEN UNCHANGED roundVars
        ELSE /\ candidate' = [candidate EXCEPT ![r][v.tip] = v.meta]
             /\ voter' = [voter EXCEPT ![r][m] = v.tip]
             /\ supporters' = [supporters EXCEPT ![r][v.tip] = S]
             /\ final' = IF Quorum(S)
                         THEN Append(final, CheckpointRecord(v, S))
                         ELSE final

\* applyCheckpointVote: a vote moves from an earlier tip of the round.
MoveVote(v, m) ==
    LET r == v.round
        S == SupportersWith(v, m)
    IN  IF voter[r][m] = v.tip
        THEN UNCHANGED roundVars
        ELSE /\ candidate' = [candidate EXCEPT ![r][v.tip] = v.meta]
             /\ voter' = [voter EXCEPT ![r][m] = v.tip]
             /\ supporters' = [supporters EXCEPT ![r] =
                  [t \in Tips |-> IF t = v.tip THEN S ELSE @[t] \ {m}]]
             /\ final' = IF Quorum(S)
                         THEN Append(final, CheckpointRecord(v, S))
                         ELSE final

\* Mutant: a vote is not validated again when the callback arrives.
MutStaleVote(a) == FALSE

\* The call is reverted: the vote no longer fits the round, or the
\* checkpoint record it would complete does not fit in storage.
VoteReverts(a) ==
    LET v == vote[a]
        S == SupportersWith(v, minerOf[a])
    IN  \/ ~OpenVote(v)
        \/ voter[v.round][minerOf[a]] # v.tip /\ Quorum(S) /\ ~RecordFits(S)

CompleteVote(a, result) ==
    /\ voteCalls[a] > 0
    /\ voteCalls' = [voteCalls EXCEPT ![a] = @ - 1]
    /\ \/ /\ vote[a] = None
          /\ UNCHANGED <<vote, roundVars>>
       \/ /\ vote[a] # None
          /\ result # "eligible"
          /\ vote' = [vote EXCEPT ![a] = None]
          /\ UNCHANGED roundVars
       \/ /\ vote[a] # None
          /\ result = "eligible"
          /\ VoteReverts(a)
          /\ UNCHANGED <<vote, roundVars>>
       \/ /\ vote[a] # None
          /\ result = "eligible"
          /\ ~VoteReverts(a)
          /\ vote' = [vote EXCEPT ![a] = None]
          /\ MoveVote(vote[a], minerOf[a])
    /\ UNCHANGED <<block, regVars, pendingVars>>

CancelVote(a) ==
    /\ vote[a] # None
    /\ vote' = [vote EXCEPT ![a] = None]
    /\ UNCHANGED <<block, regVars, pendingVars, voteCalls, roundVars>>

-----------------------------------------------------------------------------
Next ==
    \/ AdvanceBlock
    \/ \E a \in Identities :
          \/ \E m \in MinerIds, c \in Commitments, p \in Amounts :
                RegisterMiner(a, m, c, p)
          \/ \E result \in Results : CompleteRegistration(a, result)
          \/ CancelRegistration(a)
          \/ \E c \in Commitments, p \in Amounts : RotateCommitment(a, c, p)
          \/ \E t \in Tips, meta \in Metas : VoteCheckpoint(a, t, meta)
          \/ \E result \in Results : CompleteVote(a, result)
          \/ CancelVote(a)

Spec == Init /\ [][Next]_vars

-----------------------------------------------------------------------------
(* Properties.                                                             *)

\* The types of the contract's storage keys and of the runtime's callbacks.
TypeOK ==
    /\ block \in Nat
    /\ minerOf \in [Identities -> MinerIds \cup {None}]
    /\ ownerOf \in [MinerIds -> Identities \cup {None}]
    /\ records \in
          [Identities -> Seq([commitment : Commitments, block : Nat])]
    /\ count \in Nat
    /\ registered \subseteq MinerIds
    /\ pending \in [Identities -> PendingEntry \cup {None}]
    /\ pendingMiner \in [MinerIds -> Identities \cup {None}]
    /\ escrow \in Nat
    /\ vote \in [Identities -> VoteEntry \cup {None}]
    /\ candidate \in [Rounds -> [Tips -> Metas \cup {None}]]
    /\ voter \in [Rounds -> [MinerIds -> Tips \cup {None}]]
    /\ supporters \in [Rounds -> [Tips -> SUBSET MinerIds]]
    /\ final \in Seq(FinalEntry)
    /\ Len(final) <= MaxRound
    /\ regCalls \in [Identities -> Nat]
    /\ voteCalls \in [Identities -> Nat]

\* The coins owed to callers with a pending registration, as a number of
\* units, one per coin.
Owed == Cardinality({u \in Identities \X (1..MaxAmount) :
                        /\ pending[u[1]] # None
                        /\ u[2] <= pending[u[1]].payment})

\* However requests, callbacks and cancellations interleave, the contract
\* holds exactly the payments of the pending registrations: none is paid out
\* twice, none is stuck.
EscrowIsOwed == escrow = Owed

\* The storage keys that index each other agree: a miner id has one owner
\* and an identity one miner, a reserved id belongs to the one request that
\* reserved it and is not owned yet, and the stored count and list are those
\* of the owned ids, within the limit.
IndexesAgree ==
    /\ \A a \in Identities, m \in MinerIds :
          /\ minerOf[a] = m <=> ownerOf[m] = a
          /\ (pending[a] # None /\ pending[a].miner = m)
                <=> pendingMiner[m] = a
    /\ \A a \in Identities : pending[a] # None => ~RegistrationConflict(a)
    /\ registered = {m \in MinerIds : ownerOf[m] # None}
    /\ count = Cardinality(registered)
    /\ count <= MaxMiners

\* A miner supports at most one tip of a round, the one it moved to last.
OneTipPerMiner ==
    \A r \in Rounds, t \in Tips :
        supporters[r][t] = {m \in MinerIds : voter[r][m] = t}

\* A finalized checkpoint has the support of two thirds of the miners that
\* were registered then, its record is exactly the support recorded for the
\* tip of its round, and no later vote changes that.
FinalizedByQuorum ==
    \A r \in 1..Len(final) :
        /\ final[r].supporters \subseteq final[r].registered
        /\ 3 * Cardinality(final[r].supporters)
              >= 2 * Cardinality(final[r].registered)
        /\ final[r].supporters = supporters[r][final[r].tip]

\* Each round names its predecessor's tip as its parent and comes at least
\* MinInterval blocks later, although votes are checked when they are cast
\* and counted when a callback arrives.
RoundsChain ==
    \A r \in 1..Len(final) :
        IF r = 1
        THEN final[r].parent = None /\ final[r].block > DeploymentBlock
        ELSE /\ final[r].parent = final[r - 1].tip
             /\ final[r].block >= final[r - 1].block + MinInterval

\* Registration and its escrow stay consistent.
RegistrationSound == EscrowIsOwed /\ IndexesAgree

\* Checkpoint finality: the three promises above.
FinalitySound == OneTipPerMiner /\ FinalizedByQuorum /\ RoundsChain

-----------------------------------------------------------------------------
(* Liveness, when every miner votes for the one tip on offer, is eligible, *)
(* and withdraws a vote only when its callback is gone.                    *)

CastVote(a) == \E t \in Tips, meta \in Metas : VoteCheckpoint(a, t, meta)

ClearStrandedVote(a) == voteCalls[a] = 0 /\ CancelVote(a)

Cooperate ==
    \/ AdvanceBlock
    \/ \E a \in Identities :
          \/ \E m \in MinerIds, c \in Commitments, p \in Amounts :
                RegisterMiner(a, m, c, p)
          \/ CompleteRegistration(a, "eligible")
          \/ CastVote(a)
          \/ CompleteVote(a, "eligible")
          \/ ClearStrandedVote(a)

\* Blocks keep coming, the runtime delivers the callbacks it owes, and the
\* miners keep voting and clear stranded votes.
FairSpec ==
    /\ Init
    /\ [][Cooperate]_vars
    /\ WF_vars(AdvanceBlock)
    /\ \A a \in Identities :
          /\ WF_vars(CompleteRegistration(a, "eligible"))
          /\ WF_vars(CastVote(a))
          /\ WF_vars(CompleteVote(a, "eligible"))
          /\ WF_vars(ClearStrandedVote(a))

\* Once a miner is registered, the round it may vote in is finalized: a
\* candidate finalizes automatically at ceil(2 * registered_count / 3)
\* support.
RoundFinalizes == count > 0 ~> final # <<>>
=============================================================================
