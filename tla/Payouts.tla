------------------------------ MODULE Payouts ------------------------------
(***************************************************************************)
(* The arithmetic of rewards and claims: the split of a block reward into  *)
(* direct outputs and vault allocations (payout.rs), the claim ledger      *)
(* (ledger.rs) and the withdrawal batch with its fees (withdrawal.rs).     *)
(* Identifiers are numbers, compared as the code compares the strings; a   *)
(* list the code sorts by identifier is a function of the identifier.      *)
(***************************************************************************)
EXTENDS Integers, FiniteSets, FiniteSetsExt, Functions

MIN_DIRECT_PAYOUT_SATS == 10000
MIN_WITHDRAWAL_REQUEST_SATS == 10000
P2WPKH_DUST_SATS == 546
P2TR_DUST_SATS == 330

SumOver(S, f(_)) == MapThenSumSet(f, S)

-----------------------------------------------------------------------------
(* payout.rs.  Accounts are a function from miners to records with the     *)
(* miner's claim owner, unpaid claim and its two scores.                   *)

\* add_component: the whole shares of the pool, then one more sat for the
\* largest remainders, ties to the smaller miner id.
WithRemainders(pool, whole, rest) ==
    LET Before(m) == {n \in DOMAIN rest :
                        rest[n] > rest[m] \/ (rest[n] = rest[m] /\ n < m)}
        left == pool - SumFunction(whole)
        favoured == {m \in DOMAIN rest : Cardinality(Before(m)) < left}
    IN  [m \in DOMAIN whole |-> whole[m] + IF m \in favoured THEN 1 ELSE 0]

Divided(pool, score, total) ==
    WithRemainders(pool, [m \in DOMAIN score |-> (score[m] * pool) \div total],
                         [m \in DOMAIN score |-> (score[m] * pool) % total])

AddComponent(pool, score) == Divided(pool, score, SumFunction(score))

HashPool(reward) == reward \div 2
IdenaPool(reward) == reward - HashPool(reward)

\* A component with a pool and no score fails the whole schedule.
Payable(accounts, reward) ==
    /\ HashPool(reward) > 0 => \E m \in DOMAIN accounts : accounts[m].hashrate > 0
    /\ IdenaPool(reward) > 0 => \E m \in DOMAIN accounts : accounts[m].idena > 0

\* reward_deltas; a pool of zero adds nothing.
Component(pool, score) ==
    IF pool = 0 THEN [m \in DOMAIN score |-> 0] ELSE AddComponent(pool, score)

Added(f, g) == [m \in DOMAIN f |-> f[m] + g[m]]

RewardDeltas(accounts, reward) ==
    Added(Component(HashPool(reward), [m \in DOMAIN accounts |-> accounts[m].hashrate]),
          Component(IdenaPool(reward), [m \in DOMAIN accounts |-> accounts[m].idena]))

\* build_payout_schedule: the best ranked accounts above the minimum are paid
\* directly, every other delta becomes a vault allocation.
Precedes(accounts, delta, n, m) ==
    LET Rank(i) == accounts[i].unpaid + delta[i]
    IN  \/ Rank(n) > Rank(m)
        \/ Rank(n) = Rank(m) /\ delta[n] > delta[m]
        \/ Rank(n) = Rank(m) /\ delta[n] = delta[m] /\ n < m

Selected(accounts, delta, candidates, limit) ==
    {m \in candidates :
        Cardinality({n \in candidates : Precedes(accounts, delta, n, m)}) < limit}

Allocated(delta, selected, reward) ==
    LET paid == {m \in DOMAIN delta : delta[m] > 0}
    IN  [direct |-> [m \in paid \cap selected |-> delta[m]],
         vault |-> [m \in paid \ selected |-> delta[m]],
         vaultOutput |-> reward - SumFunctionOnSet(delta, selected)]

Scheduled(accounts, delta, reward, limit, minimum) ==
    Allocated(delta,
              Selected(accounts, delta, {m \in DOMAIN delta : delta[m] >= minimum}, limit),
              reward)

BuildPayoutSchedule(accounts, reward, limit, minimum) ==
    Scheduled(accounts, RewardDeltas(accounts, reward), reward, limit, minimum)

\* PayoutSchedule::validate; one entry per miner is the shape of the record.
ScheduleValid(schedule) ==
    /\ \A m \in DOMAIN schedule.direct : schedule.direct[m] > 0
    /\ \A m \in DOMAIN schedule.vault : schedule.vault[m] > 0
    /\ DOMAIN schedule.direct \cap DOMAIN schedule.vault = {}
    /\ schedule.vaultOutput = SumFunction(schedule.vault)

-----------------------------------------------------------------------------
(* withdrawal.rs *)

DustThreshold(kind) == IF kind = "p2wpkh" THEN P2WPKH_DUST_SATS ELSE P2TR_DUST_SATS

\* validate_destination_script_policy, for a script of its declared kind.
DestinationValid(r, net) == r.scriptValid /\ net >= DustThreshold(r.kind)

\* WithdrawalRequest::validate
RequestValid(r, height) ==
    /\ height <= r.expiry
    /\ r.amount >= MIN_WITHDRAWAL_REQUEST_SATS
    /\ DestinationValid(r, r.amount)
    /\ r.signed

DivCeil(a, b) == (a + b - 1) \div b

EstimateBatchVsize(inputs, p2wpkh, p2tr) ==
    DivCeil(21 + 115 * inputs + 62 * p2wpkh + 86 * p2tr, 2)

EstimateFeeSats(vsize, rate) == vsize * rate

\* The fee of one of the requests, in the order of the request ids: the even
\* share, and one more sat for the first ones while a remainder is left.
FeeShare(requests, total, r) ==
    LET n == Cardinality(requests)
        position == Cardinality({q \in requests : q.id < r.id})
    IN  total \div n + IF position < total % n THEN 1 ELSE 0

BatchFee(requests, inputs, rate) ==
    LET p2wpkh == Cardinality({r \in requests : r.kind = "p2wpkh"})
    IN  EstimateFeeSats(
            EstimateBatchVsize(inputs, p2wpkh, Cardinality(requests) - p2wpkh), rate)

NetValid(r, fee) == r.amount > fee /\ DestinationValid(r, r.amount - fee)

\* build_withdrawal_batch: its conditions, and the batch.
Batchable(requests, inputs, rate, height) ==
    /\ requests # {} /\ inputs > 0
    /\ \A q, r \in requests : q.id = r.id => q = r
    /\ \A r \in requests :
          /\ RequestValid(r, height)
          /\ rate <= r.maxRate
          /\ NetValid(r, FeeShare(requests, BatchFee(requests, inputs, rate), r))

BatchOutput(r, fee) ==
    [id |-> r.id, kind |-> r.kind, gross |-> r.amount, fee |-> fee, net |-> r.amount - fee]

BatchOf(requests, inputs, rate, fee) ==
    [inputs |-> inputs, rate |-> rate, fee |-> fee,
     outputs |-> {BatchOutput(r, FeeShare(requests, fee, r)) : r \in requests}]

BuildWithdrawalBatch(requests, inputs, rate) ==
    BatchOf(requests, inputs, rate, BatchFee(requests, inputs, rate))

-----------------------------------------------------------------------------
(* ledger.rs.  Reserved withdrawals are kept by request id. *)

EmptyLedger(owners) ==
    [balances |-> [o \in owners |-> 0], pending |-> [id \in {} |-> 0],
     nonces |-> [o \in owners |-> 0]]

\* apply_payout_schedule: every vault allocation is added to its miner's owner.
ApplyPayoutSchedule(ledger, schedule, owner) ==
    [ledger EXCEPT !.balances =
        [o \in DOMAIN @ |->
            @[o] + SumFunctionOnSet(schedule.vault,
                                    {m \in DOMAIN schedule.vault : owner[m] = o})]]

\* reserve_withdrawal: its conditions, and the ledger after it.
Reservable(ledger, r, fee, height) ==
    /\ RequestValid(r, height)
    /\ r.amount <= ledger.balances[r.owner]
    /\ r.id \notin DOMAIN ledger.pending
    /\ fee < r.amount
    /\ DestinationValid(r, r.amount - fee)
    /\ r.nonce > ledger.nonces[r.owner]

MutReserved(ledger, r, fee) == [ledger EXCEPT !.balances[r.owner] = @ - r.amount]
Reserved(ledger, r, fee) ==
    [balances |-> [ledger.balances EXCEPT ![r.owner] = @ - r.amount],
     pending |-> [id \in DOMAIN ledger.pending \cup {r.id} |->
                    IF id = r.id
                    THEN [owner |-> r.owner, gross |-> r.amount, fee |-> fee,
                          net |-> r.amount - fee]
                    ELSE ledger.pending[id]],
     nonces |-> [ledger.nonces EXCEPT ![r.owner] = r.nonce]]
=============================================================================
