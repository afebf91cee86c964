---------------------------- MODULE VaultClaims ----------------------------
(***************************************************************************)
(* Claims on the vault, from the confirmed payout that credits them to the *)
(* spend plan the signers accept: the withdrawal part of a                 *)
(* SharechainReplayState, the spend plans built from it (main.rs,          *)
(* vault.rs, vault_tx.rs) and the policy check every signer repeats before *)
(* it signs.  The replay state here is one a caller credits before it      *)
(* applies withdrawal messages, as the library's tests do; what a running  *)
(* node does with its log is the subject of PayoutConfirmation.            *)
(***************************************************************************)
EXTENDS Payouts, SequencesExt

CONSTANTS
    Confirmed,     \* payouts that may be confirmed: [accounts, reward]
    Owners,        \* claim owners
    Requests,      \* withdrawal requests that may arrive
    VaultUtxos,    \* vault outputs: [id, amount, confirmations, key]
    FeeRates,      \* fee rates a batch may be built with
    Rotations,     \* rotation plans that may be built: [inputs, fee]
    DirectLimit,   \* outputs paid directly in a coinbase
    MaxHeight,     \* bound on the share height and on --current-height
    MaxCredited,   \* bound on the sats credited
    MaxPlans,      \* bound on spend plans built
    None           \* an optional field that is absent

CurrentEpoch == [id |-> 1, key |-> "k1"]
NextEpoch == [id |-> 2, key |-> "k2"]
MIN_VAULT_INPUT_CONFIRMATIONS == 100

VARIABLES
    ledger,       \* the ClaimLedger
    requests,     \* withdrawal requests accepted by replay
    batches,      \* withdrawal batches accepted by replay
    bestHeight,   \* height of the best share
    utxos,        \* vault outputs Bitcoin Core still reports unspent
    plans,        \* spend plan files
    approved,     \* plans some signer's policy check accepted
    credited,     \* sats credited to vault claims so far
    last          \* the latest confirmed payout and its schedule

claimVars == <<ledger, requests, batches, bestHeight, utxos, plans, approved,
               credited, last>>

\* Every miner here registered its own claim owner key.
Owner(m) == m

Init ==
    /\ ledger = EmptyLedger(Owners)
    /\ requests = {} /\ batches = {}
    /\ bestHeight = 0
    /\ utxos = VaultUtxos
    /\ plans = {} /\ approved = {}
    /\ credited = 0
    /\ last = None

-----------------------------------------------------------------------------
(* Replay *)

\* apply_confirmed_payout_schedule, for the schedule the accounts determine;
\* the unpaid balance of an account is the owner's claim.
Credits(accounts, c, schedule) ==
    /\ Payable(accounts, c.reward)
    /\ ScheduleValid(schedule)
    /\ ledger' = ApplyPayoutSchedule(ledger, schedule, [m \in DOMAIN accounts |-> Owner(m)])
    /\ credited' = credited + schedule.vaultOutput
    /\ last' = [accounts |-> accounts, reward |-> c.reward, schedule |-> schedule]

ApplyConfirmedPayout(c) ==
    /\ credited + c.reward <= MaxCredited
    /\ \E accounts \in {[m \in DOMAIN c.accounts |->
                             [hashrate |-> c.accounts[m][1], idena |-> c.accounts[m][2],
                              unpaid |-> ledger.balances[Owner(m)]]]} :
          Credits(accounts, c, BuildPayoutSchedule(accounts, c.reward, DirectLimit,
                                                   MIN_DIRECT_PAYOUT_SATS))
    /\ UNCHANGED <<requests, batches, bestHeight, utxos, plans, approved>>

\* apply_withdrawal_request: validity at height 0, the balance at arrival, and
\* no second request under the id.
ApplyWithdrawalRequest(r) ==
    /\ RequestValid(r, 0)
    /\ r.amount <= ledger.balances[r.owner]
    /\ \A q \in requests : q.id # r.id
    /\ requests' = requests \cup {r}
    /\ UNCHANGED <<ledger, batches, bestHeight, utxos, plans, approved, credited, last>>

InIdOrder(rs) == SetToSortSeq(rs, LAMBDA q, r : q.id < r.id)

Output(batch, r) == CHOOSE o \in batch.outputs : o.id = r.id

\* claim_ledger_after_withdrawal_batch: the requests are reserved one after
\* the other in the order of their ids, and one refusal refuses the batch.
RECURSIVE LedgersAlong(_, _, _)
LedgersAlong(before, batch, order) ==
    IF order = <<>> THEN <<before>>
    ELSE <<before>> \o LedgersAlong(
            Reserved(before, Head(order), Output(batch, Head(order)).fee),
            batch, Tail(order))

Covered(batch, rs, height) ==
    LET order == InIdOrder(rs)
        ledgers == LedgersAlong(ledger, batch, order)
    IN  \A i \in 1..Len(order) :
            Reservable(ledgers[i], order[i], Output(batch, order[i]).fee, height)

LedgerAfter(batch, rs) == Last(LedgersAlong(ledger, batch, InIdOrder(rs)))

\* apply_withdrawal_batch, at height 0: a batch built from known requests that
\* replay has not seen; a batch it has seen changes nothing.
Reserves(rs, batch) ==
    /\ batch \notin batches
    /\ Batchable(rs, batch.inputs, batch.rate, 0)
    /\ Covered(batch, rs, 0)
    /\ ledger' = LedgerAfter(batch, rs)
    /\ batches' = batches \cup {batch}

\* A batch another node built arrives.
ApplyWithdrawalBatch(rs, inputs, rate) ==
    /\ rs # {}
    /\ \E batch \in {BuildWithdrawalBatch(rs, inputs, rate)} : Reserves(rs, batch)
    /\ UNCHANGED <<requests, bestHeight, utxos, plans, approved, credited, last>>

\* withdrawal_batch_is_reserved: the deterministic batch, in replay, with all
\* of its requests unexpired and pending exactly as it says.
BatchIsReserved(batch, height) ==
    LET rs == {r \in requests : \E o \in batch.outputs : o.id = r.id}
    IN  /\ Cardinality(rs) = Cardinality(batch.outputs)
        /\ Batchable(rs, batch.inputs, batch.rate, height)
        /\ batch = BuildWithdrawalBatch(rs, batch.inputs, batch.rate)
        /\ batch \in batches
        /\ \A r \in rs :
              LET o == Output(batch, r) IN
              /\ r.id \in DOMAIN ledger.pending
              /\ ledger.pending[r.id] =
                    [owner |-> r.owner, gross |-> o.gross, fee |-> o.fee, net |-> o.net]

\* The best share's height grows as shares arrive.
ShareArrives ==
    /\ bestHeight < MaxHeight
    /\ bestHeight' = bestHeight + 1
    /\ UNCHANGED <<ledger, requests, batches, utxos, plans, approved, credited, last>>

-----------------------------------------------------------------------------
(* Spend plans *)

TotalOf(ins) == SumOver(ins, LAMBDA u : u.amount)
NetTotal(batch) == SumOver(batch.outputs, LAMBDA o : o.net)
GrossTotal(batch) == SumOver(batch.outputs, LAMBDA o : o.gross)

\* Bitcoin Core's gettxout: unspent, deep enough, and locked to the vault key.
VaultInputValid(u, key) ==
    /\ u \in utxos
    /\ u.confirmations >= MIN_VAULT_INPUT_CONFIRMATIONS
    /\ u.key = key

\* validate_withdrawal_batch: the batch was made for these inputs and this
\* fee, and its outputs pay the fee between them.
BatchFitsPlan(p) ==
    /\ p.batch.inputs = Cardinality(p.inputs)
    /\ p.batch.fee = p.fee
    /\ SumOver(p.batch.outputs, LAMBDA o : o.fee) = p.fee

\* VaultSpendPlan::validate_against_epoch and validate.
PlanValid(p, epoch) ==
    /\ p.epoch = epoch
    /\ p.inputs # {}
    /\ \A u \in p.inputs :
          /\ u.key = epoch.key /\ u.amount > 0
          /\ u.confirmations >= MIN_VAULT_INPUT_CONFIRMATIONS
    /\ p.batch # None \/ p.remainder # None
    /\ p.batch # None => BatchFitsPlan(p)
    /\ p.remainder # None =>
          \/ p.remainder.kind = "change" /\ p.remainder.epoch = epoch
          \/ /\ p.remainder.kind = "rotation"
             /\ p.remainder.epoch.id > epoch.id /\ p.remainder.epoch.key # epoch.key
    /\ TotalOf(p.inputs) =
          p.fee + (IF p.batch = None THEN 0 ELSE NetTotal(p.batch))
                + (IF p.remainder = None THEN 0 ELSE p.remainder.amount)

\* build_vault_psbt: the outputs of the transaction, the withdrawals and the
\* remainder; a withdrawal below the dust limit of its kind has none.
VaultTransaction(p) ==
    [inputs |-> p.inputs,
     outputs |->
        (IF p.batch = None THEN {}
         ELSE {[to |-> o.id, amount |-> o.net] : o \in p.batch.outputs})
        \cup (IF p.remainder = None THEN {}
              ELSE {[to |-> p.remainder.epoch, amount |-> p.remainder.amount]})]

TransactionBuilds(p) ==
    p.batch # None => \A o \in p.batch.outputs : o.net >= DustThreshold(o.kind)

\* build_verified_withdrawal_spend_plan: what the inputs do not pay out goes
\* back to the vault, unless that would be dust.
WithdrawalPlan(batch, ins) ==
    LET change == TotalOf(ins) - GrossTotal(batch)
    IN  [epoch |-> CurrentEpoch, inputs |-> ins, batch |-> batch, fee |-> batch.fee,
         remainder |-> IF change = 0 THEN None
                       ELSE [kind |-> "change", epoch |-> CurrentEpoch,
                             amount |-> change]]

CanBuildPlan(rs, ins, batch, height) ==
    /\ rs \subseteq requests
    /\ TotalOf(ins) >= GrossTotal(batch)
    /\ TotalOf(ins) - GrossTotal(batch) \notin 1..(P2TR_DUST_SATS - 1)
    /\ Batchable(rs, Cardinality(ins), batch.rate, height)
    /\ \/ BatchIsReserved(batch, height)
       \/ batch \notin batches /\ Covered(batch, rs, height)
    /\ PlanValid(WithdrawalPlan(batch, ins), CurrentEpoch)
    /\ TransactionBuilds(WithdrawalPlan(batch, ins))

\* BuildWithdrawalSpendPlan: the inputs come from files and may be spent by
\* now; the batch is published, through a local log that must accept it, or
\* left for later, and the plan file is written.
BuildWithdrawalSpendPlan(rs, ins, rate, height) ==
    /\ Cardinality(plans) < MaxPlans
    /\ rs # {} /\ ins # {}
    /\ height >= bestHeight
    /\ \E batch \in {BuildWithdrawalBatch(rs, Cardinality(ins), rate)} :
          /\ CanBuildPlan(rs, ins, batch, height)
          /\ \/ Reserves(rs, batch)
             \/ UNCHANGED <<ledger, batches>>
          /\ plans' = plans \cup {WithdrawalPlan(batch, ins)}
    /\ UNCHANGED <<requests, bestHeight, utxos, approved, credited, last>>

\* BuildValidatedVaultRotation: everything but the fee moves to the next key.
BuildVaultRotation(ins, fee) ==
    LET plan == [epoch |-> CurrentEpoch, inputs |-> ins, batch |-> None, fee |-> fee,
                 remainder |-> [kind |-> "rotation", epoch |-> NextEpoch,
                                amount |-> TotalOf(ins) - fee]]
    IN  /\ Cardinality(plans) < MaxPlans
        /\ ins # {}
        /\ \A u \in ins : VaultInputValid(u, CurrentEpoch.key)
        /\ TotalOf(ins) > fee
        /\ PlanValid(plan, CurrentEpoch)
        /\ plans' = plans \cup {plan}
        /\ UNCHANGED <<ledger, requests, batches, bestHeight, utxos, approved,
                       credited, last>>

\* validate_real_frost_signing_policy at one signer.
MutSigningPolicy(p, height) ==
    /\ \A u \in p.inputs : VaultInputValid(u, p.epoch.key)
    /\ PlanValid(p, CurrentEpoch)
SigningPolicy(p, height) ==
    /\ \A u \in p.inputs : VaultInputValid(u, p.epoch.key)
    /\ TransactionBuilds(p)
    /\ p.batch # None => height >= bestHeight /\ BatchIsReserved(p.batch, height)
    /\ PlanValid(p, CurrentEpoch)
    /\ p.remainder # None =>
          (p.remainder.kind = "rotation" => p.remainder.epoch = NextEpoch)

ApprovePlan(p, height) ==
    /\ SigningPolicy(p, height)
    /\ approved' = approved \cup {p}
    /\ UNCHANGED <<ledger, requests, batches, bestHeight, utxos, plans, credited, last>>

\* The transaction of an approved plan is mined.
SpendPlan(p) ==
    /\ p.inputs \subseteq utxos
    /\ utxos' = utxos \ p.inputs
    /\ UNCHANGED <<ledger, requests, batches, bestHeight, plans, approved, credited, last>>

Next ==
    \/ \E c \in Confirmed : ApplyConfirmedPayout(c)
    \/ \E r \in Requests : ApplyWithdrawalRequest(r)
    \/ ShareArrives
    \/ \E rs \in SUBSET requests, n \in 1..Cardinality(VaultUtxos), rate \in FeeRates :
          ApplyWithdrawalBatch(rs, n, rate)
    \/ \E rs \in SUBSET requests, ins \in SUBSET VaultUtxos, rate \in FeeRates,
          height \in 0..MaxHeight : BuildWithdrawalSpendPlan(rs, ins, rate, height)
    \/ \E r \in Rotations : BuildVaultRotation(r.inputs, r.fee)
    \/ \E p \in plans, height \in 0..MaxHeight : ApprovePlan(p, height)
    \/ \E p \in approved : SpendPlan(p)

Spec == Init /\ [][Next]_claimVars

-----------------------------------------------------------------------------
(* Properties *)

PendingTotal == SumOver(DOMAIN ledger.pending, LAMBDA id : ledger.pending[id].gross)

\* Every sat credited to a vault claim is in a balance or in a reserved
\* withdrawal, whatever requests and batches arrive in whatever order: nothing
\* is reserved twice, overdrawn or lost.
ClaimsConserved ==
    /\ credited = SumOver(Owners, LAMBDA o : ledger.balances[o]) + PendingTotal
    /\ \A o \in Owners : ledger.balances[o] >= 0

\* A plan the signing policy accepted pays, for good, exactly what the ledger
\* holds reserved, its transaction gives out the inputs but for the fee, and
\* two plans that pay one request pay it in one batch.
ApprovedIsReserved ==
    /\ \A p \in approved :
          TotalOf(p.inputs) = p.fee + TotalOf(VaultTransaction(p).outputs)
    /\ \A p \in approved : p.batch # None =>
          \A o \in p.batch.outputs :
              /\ o.id \in DOMAIN ledger.pending
              /\ ledger.pending[o.id].net = o.net /\ ledger.pending[o.id].fee = o.fee
    /\ \A p, q \in approved :
          /\ p.batch # None /\ q.batch # None /\ p.batch # q.batch
          => \A o \in p.batch.outputs, t \in q.batch.outputs : o.id # t.id

\* The schedule of a confirmed payout gives out exactly the reward, half of it
\* by hashrate and half by Idena score, each miner less than one sat away from
\* the exact share of each half.
ScheduleIsExact ==
    last # None =>
        LET accounts == last.accounts
            Paid(m) == IF m \in DOMAIN last.schedule.direct THEN last.schedule.direct[m]
                       ELSE IF m \in DOMAIN last.schedule.vault THEN last.schedule.vault[m]
                       ELSE 0
            hTotal == SumOver(DOMAIN accounts, LAMBDA m : accounts[m].hashrate)
            iTotal == SumOver(DOMAIN accounts, LAMBDA m : accounts[m].idena)
            \* the exact share, times the two totals
            Exact(m) == HashPool(last.reward) * accounts[m].hashrate * iTotal
                        + IdenaPool(last.reward) * accounts[m].idena * hTotal
        IN  /\ SumOver(DOMAIN accounts, Paid) = last.reward
            /\ \A m \in DOMAIN accounts :
                  /\ hTotal * iTotal * (Paid(m) - 2) < Exact(m)
                  /\ Exact(m) < hTotal * iTotal * (Paid(m) + 2)

\* The claims ledger, the schedules and the spend plans balance.
ClaimsSound == ClaimsConserved /\ ScheduleIsExact /\ ApprovedIsReserved
=============================================================================
