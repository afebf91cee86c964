------------------------- MODULE PayoutConfirmation -------------------------
(***************************************************************************)
(* Crediting a mined block at a running node: the payout job built from    *)
(* the log and the confirmed payouts (mining_adapter.rs), the evidence and *)
(* the messages left when the block is found, the confirmer that waits for *)
(* the block's depth (main.rs, bitcoin_rpc.rs) and the confirmed payout    *)
(* log with its replay (local_node.rs).  Withdrawal requests arrive at the *)
(* same node and are answered by its replay of the log.                    *)
(***************************************************************************)
EXTENDS Payouts, SequencesExt

CONSTANTS
    Miners,        \* registered miners, one claim owner key each
    Rewards,       \* coinbase values a template may have
    DirectLimit,   \* outputs paid directly in a coinbase
    MinConf,       \* confirmations the confirmer waits for
    Days,          \* snapshot days
    WithdrawalRequests,
    Genesis,       \* shares already in the log
    MaxShares,     \* bound on shares in the log
    MaxFound,      \* bound on blocks this node finds
    MaxHeight,     \* bound on the Bitcoin chain
    MaxReorgs,     \* bound on reorganisations
    None           \* no job, no pool block

VARIABLES
    log,           \* the sharechain log
    day,           \* day of the latest verified snapshot
    job,           \* the current Stratum job
    chain,         \* Bitcoin's active chain: a pool block or None per height
    candidates,    \* payout evidence directories
    records,       \* the confirmed payout log, in append order
    answers,       \* withdrawal requests the node answered
    reorgs

vars == <<log, day, job, chain, candidates, records, answers, reorgs>>

Owner(m) == m

Init ==
    /\ log = Genesis /\ day = Min(Days)
    /\ job = None
    /\ chain = <<>>
    /\ candidates = {} /\ records = <<>> /\ answers = {}
    /\ reorgs = 0

-----------------------------------------------------------------------------
(* Replay *)

Of(messages, kind) == SelectSeq(messages, LAMBDA m : m.kind = kind)

\* The best tip of a single branch: the number of its shares.
Tip(messages) == Len(Of(messages, "share"))

Hashrate(messages, m) ==
    Len(SelectSeq(messages, LAMBDA x : x.kind = "share" /\ x.miner = m))

\* accounting_state_root hashes the branch, the proposed schedules and the
\* ledger; commitments are not part of it.
AccountingStateRoot(messages, ledger) ==
    [branch |-> Of(messages, "share"), schedules |-> ToSet(Of(messages, "schedule")),
     ledger |-> ledger]

\* participant_accounts with the scores of the snapshot.
Accounts(messages, ledger, snapshot) ==
    [m \in Miners |-> [hashrate |-> Hashrate(messages, m), idena |-> snapshot,
                       unpaid |-> ledger.balances[Owner(m)]]]

Schedule(accounts, reward) ==
    BuildPayoutSchedule(accounts, reward, DirectLimit, MIN_DIRECT_PAYOUT_SATS)

\* canonical_confirmed_payout_records: by height, and no two records share a
\* height, a block or a payout root.
CanonicalOrder(rs) ==
    SetToSortSeq(ToSet(rs), LAMBDA a, b : a.height < b.height)

NoConflict(rs) ==
    \A a, b \in ToSet(rs) :
        a # b => a.height # b.height /\ a.schedule # b.schedule

\* The log prefixes at which a replay has the commitment's tip and root.
PrefixesFor(r, ledger) ==
    {n \in 1..Len(log) :
        LET prefix == SubSeq(log, 1, n) IN
        Tip(prefix) = r.tip /\ r.tip > 0 /\ AccountingStateRoot(prefix, ledger) = r.root}

\* One record of the replay: the earliest prefix that matches the commitment,
\* the published commitment, the schedule the accounts there determine.
RecordApplies(r, ledger) ==
    /\ PrefixesFor(r, ledger) # {}
    /\ \E i \in 1..Len(log) : log[i] = [kind |-> "commitment", of |-> r.root]
    /\ LET accounts == Accounts(SubSeq(log, 1, Min(PrefixesFor(r, ledger))), ledger,
                                r.snapshot)
       IN  Payable(accounts, r.reward) /\ r.schedule = Schedule(accounts, r.reward)

OwnersIn(schedule) == [m \in DOMAIN schedule.vault |-> Owner(m)]

\* replay_state_with_confirmed_payout_records: the ledgers along the records.
RECURSIVE LedgersAlong(_, _)
LedgersAlong(before, order) ==
    IF order = <<>> THEN <<before>>
    ELSE <<before>> \o LedgersAlong(
            ApplyPayoutSchedule(before, Head(order).schedule, OwnersIn(Head(order).schedule)),
            Tail(order))

\* The replay succeeds with the snapshots at hand.
Replays(rs, snapshots) ==
    /\ NoConflict(rs)
    /\ LET order == CanonicalOrder(rs)
           ledgers == LedgersAlong(EmptyLedger(Miners), order)
       IN  \A i \in 1..Len(order) :
              order[i].snapshot \in snapshots /\ RecordApplies(order[i], ledgers[i])

ConfirmedLedger == Last(LedgersAlong(EmptyLedger(Miners), CanonicalOrder(records)))

-----------------------------------------------------------------------------
(* The log and the snapshots *)

ShareArrives(m) ==
    /\ Tip(log) < MaxShares
    /\ log' = Append(log, [kind |-> "share", miner |-> m])
    /\ UNCHANGED <<day, job, chain, candidates, records, answers, reorgs>>

\* A newer snapshot verifies and gathers its voters.
SnapshotArrives ==
    /\ day < Max(Days)
    /\ day' = day + 1
    /\ UNCHANGED <<log, job, chain, candidates, records, answers, reorgs>>

\* apply_withdrawal_request in the replay of the log alone, whose ledger no
\* message credits.
RequestAccepted(r) ==
    /\ RequestValid(r, 0)
    /\ r.amount <= EmptyLedger(Miners).balances[r.owner]

WithdrawalRequestArrives(r) ==
    /\ \A a \in answers : a.request # r
    /\ answers' = answers \cup
          {[request |-> r, accepted |-> RequestAccepted(r),
            funded |-> r.amount <= ConfirmedLedger.balances[r.owner]]}
    /\ log' = IF RequestAccepted(r)
              THEN Append(log, [kind |-> "request", request |-> r]) ELSE log
    /\ UNCHANGED <<day, job, chain, candidates, records, reorgs>>

-----------------------------------------------------------------------------
(* Mining *)

\* build_dynamic_pohw_stratum_job_from_template on the active chain's tip;
\* without any share the node's own miner counts as one.
BuildJob(self, reward) ==
    LET ledger == ConfirmedLedger
        accounts == [Accounts(log, ledger, day) EXCEPT
                        ![self].hashrate = IF Tip(log) = 0 THEN 1 ELSE @]
    IN  /\ Len(chain) < MaxHeight
        /\ Replays(records, Days)
        /\ Payable(accounts, reward)
        /\ job' = [height |-> Len(chain) + 1, tip |-> Tip(log), reward |-> reward,
                   root |-> AccountingStateRoot(log, ledger), snapshot |-> day,
                   schedule |-> Schedule(accounts, reward)]
        /\ UNCHANGED <<log, day, chain, candidates, records, answers, reorgs>>

\* The job is solved: the evidence is preserved, the schedule and the
\* commitment are published, and the block is submitted.
BlockFound ==
    /\ job # None /\ Cardinality(candidates) < MaxFound
    /\ job.height = Len(chain) + 1
    /\ candidates' = candidates \cup {job}
    /\ log' = log \o << [kind |-> "schedule", of |-> job.schedule],
                        [kind |-> "commitment", of |-> job.root] >>
    /\ chain' = Append(chain, job)
    /\ job' = None
    /\ UNCHANGED <<day, records, answers, reorgs>>

\* Bitcoin: another miner's block, and a block that loses its place before it
\* is as deep as the confirmer asks.
OtherBlock ==
    /\ Len(chain) < MaxHeight
    /\ chain' = Append(chain, None)
    /\ UNCHANGED <<log, day, job, candidates, records, answers, reorgs>>

Reorg ==
    /\ MinConf > 1 /\ chain # <<>>
    /\ reorgs < MaxReorgs
    /\ reorgs' = reorgs + 1
    /\ chain' = Append(Front(chain), None)
    /\ UNCHANGED <<log, day, job, candidates, records, answers>>

-----------------------------------------------------------------------------
(* The confirmer *)

\* confirm_coinbase_payout: in the active chain and deep enough; the coinbase
\* pays what the schedule of the evidence says.
MutDeep(c) == Len(chain) - c.height + 1 >= MinConf
Deep(c) ==
    /\ c.height <= Len(chain) /\ chain[c.height] = c
    /\ Len(chain) - c.height + 1 >= MinConf

\* append_confirmed_payout_record validates the whole log with the new record,
\* against the snapshots in the directory of the candidate's snapshot file: its
\* evidence directory, or one in which the operator keeps every snapshot.
MutAppendable(c, snapshots) == RecordApplies(c, ConfirmedLedger)
Appendable(c, snapshots) == Replays(Append(records, c), snapshots)

ConfirmPayout(c, snapshots) ==
    /\ Deep(c)
    /\ c \notin ToSet(records)
    /\ Appendable(c, snapshots)
    /\ records' = Append(records, c)
    /\ UNCHANGED <<log, day, job, chain, candidates, answers, reorgs>>

Next ==
    \/ \E m \in Miners : ShareArrives(m)
    \/ SnapshotArrives
    \/ \E r \in WithdrawalRequests : WithdrawalRequestArrives(r)
    \/ \E reward \in Rewards : BuildJob(Min(Miners), reward)
    \/ BlockFound
    \/ OtherBlock
    \/ Reorg
    \/ \E c \in candidates : \E snapshots \in {{c.snapshot}, Days} :
          ConfirmPayout(c, snapshots)

Spec == Init /\ [][Next]_vars

-----------------------------------------------------------------------------
(* Properties *)

\* Whatever arrives later, and in whatever order blocks are confirmed, the
\* confirmed payout log replays: a node never blocks itself with a record it
\* appended.
RecordsReplay == Replays(records, Days)

\* The ledger credits every recorded block of the active chain exactly once:
\* what its coinbase paid to the vault is what claims may draw on.
CreditsMatchVault ==
    LET paid == SumOver(ToSet(records), LAMBDA r : r.schedule.vaultOutput)
    IN  /\ paid = SumOver(Miners, LAMBDA m : ConfirmedLedger.balances[m])
        /\ \A r \in ToSet(records) : chain[r.height] = r

\* "Failure to preserve or publish this evidence fails closed instead of
\* submitting an unaccountable block": a block of this node that is deep enough
\* is recorded or can be, by an operator who has every snapshot.
SubmittedIsAccountable ==
    \A c \in candidates :
        Deep(c) => c \in ToSet(records) \/ Appendable(c, Days)

\* "Replay accepts a withdrawal request only after the claim owner key already
\* has enough confirmed local vault-claim balance": with that balance it does.
FundedRequestAccepted ==
    \A a \in answers : a.funded /\ RequestValid(a.request, 0) => a.accepted

\* The confirmed payouts replay, and credit what the vault received.
PayoutsSound == RecordsReplay /\ CreditsMatchVault
=============================================================================
