------------------------------ MODULE CoreView ------------------------------
(***************************************************************************)
(* What the node concludes from several answers of a Bitcoin Core whose    *)
(* chain moves between the calls: the fork point (prepare_fork_activation  *)
(* in main.rs, fork.rs), the mining job (mining_job_template_if_ready),    *)
(* the admission of templates and shares and the confirmation of a         *)
(* coinbase payout (bitcoin_rpc.rs).  One operation runs at a time; the    *)
(* operations share nothing but the jobs.                                  *)
(*                                                                         *)
(* A block is named by its hash.  A header Core knows never changes, so    *)
(* getblockheader of a hash just read adds no step.  Bits and target are   *)
(* one number, a larger one the easier target.                             *)
(***************************************************************************)
EXTENDS Integers, Sequences, FiniteSets, FiniteSetsExt, TLC

CONSTANTS
    Block,             \* hash |-> parent, height, work, header fields, coinbase
    Genesis,
    Tips,              \* the tips Core may have when the node starts
    MaxJobs,
    MaxTime,
    MaxTarget,
    Setups,            \* what getblockchaininfo says besides the heights
    Checkpoint,        \* the pinned block of the PoHW chains
    Policies,          \* BitcoinWorkTemplateValidationPolicy values
    Launches,          \* launch timestamps asked for
    Window,            \* timestamp_search_window_blocks
    Payouts,           \* [schedule, commitment] pairs to confirm
    MinConfirmations,
    Version,
    None

VARIABLES
    core,              \* Core: its setup, active tip, clock and known blocks
    jobs,              \* header prefixes of the jobs handed out
    call               \* the operation under way, or the last one

vars == <<core, jobs, call>>

Hashes == DOMAIN Block
IdentityFields == {"activation", "heights", "mtp", "root", "count"}
MERKLE_ZERO == 0

-----------------------------------------------------------------------------
(* One call at a time.  `seen' is the tips Core had while it ran. *)

Free == call.step \in {"idle", "done", "failed"}
At(op, step) == call.op = op /\ call.step = step
Failed(op) == [op |-> op, step |-> "failed", seen |-> {}]
Begin(op, step, fields) ==
    /\ Free
    /\ call' = IF step = "failed" THEN Failed(op)
               ELSE fields @@ [op |-> op, step |-> step, seen |-> {core.tip}]
    /\ UNCHANGED <<core, jobs>>
Go(step, fields) ==
    /\ call' = fields @@ [call EXCEPT !.step = step]
    /\ UNCHANGED <<core, jobs>>
Fail ==
    /\ call' = Failed(call.op)
    /\ UNCHANGED <<core, jobs>>

-----------------------------------------------------------------------------
(* Bitcoin Core *)

RECURSIVE Branch(_)
Branch(b) == IF b = Genesis THEN {b} ELSE {b} \cup Branch(Block[b].parent)

ActiveAt(h) == CHOOSE b \in Branch(core.tip) : Block[b].height = h
Active(b) == b \in Branch(core.tip)
TipHeight == Block[core.tip].height

\* The target Core asks of a block on `tip' eases while none is found.
TargetAt(tip, time) ==
    Min({MaxTarget, Block[tip].target + (time - Block[tip].time)})

\* getblockchaininfo
ChainInfo == [blocks |-> TipHeight,
              headers |-> Max({Block[b].height : b \in core.known})] @@ core.setup

\* getblocktemplate
BlockTemplate ==
    LET mintime == Block[core.tip].time + 1
        curtime == Max({mintime, core.now})
    IN  [prev |-> core.tip, version |-> Version, height |-> TipHeight + 1,
         mintime |-> mintime, curtime |-> curtime,
         target |-> TargetAt(core.tip, curtime)]

\* Another branch of more work becomes active; a header may be known before.
MoveTip ==
    /\ \E b \in core.known :
          /\ Block[b].work > Block[core.tip].work
          /\ core' = [core EXCEPT !.tip = b]
          /\ call' = IF Free THEN call ELSE [call EXCEPT !.seen = @ \cup {b}]
    /\ UNCHANGED jobs

LearnHeader ==
    /\ \E b \in Hashes \ core.known :
          /\ Block[b].parent \in core.known
          /\ Block[b].time <= core.now
          /\ core' = [core EXCEPT !.known = @ \cup {b}]
    /\ UNCHANGED <<jobs, call>>

Tick ==
    /\ core.now < MaxTime
    /\ core' = [core EXCEPT !.now = @ + 1]
    /\ UNCHANGED <<jobs, call>>

-----------------------------------------------------------------------------
(* prepare_fork_activation *)

\* find_first_mainnet_block_at_or_after_timestamp reads the tip first, then
\* bisects the heights as if the timestamps were sorted.
ReadLaunchTip ==
    /\ Free
    /\ ChainInfo.headers >= ChainInfo.blocks
    /\ \E launch \in Launches :
          IF Block[core.tip].time < launch
          THEN Begin("activation", "failed", [launch |-> launch])
          ELSE Begin("activation", "search",
                     [launch |-> launch, tipHeight |-> TipHeight,
                      low |-> 0, high |-> TipHeight])

Readable(h) == h <= TipHeight
TimeAt(h) == Block[ActiveAt(h)].time

Bisect ==
    /\ At("activation", "search")
    /\ call.low < call.high
    /\ LET mid == call.low + (call.high - call.low) \div 2
       IN  IF ~Readable(mid) THEN Fail
           ELSE IF TimeAt(mid) >= call.launch THEN Go("search", [high |-> mid])
           ELSE Go("search", [low |-> mid + 1])

MutWindowStart(candidate) == Max({0, candidate - Window + 1})
WindowStart(candidate) == Max({0, candidate - Window})
WindowEnd(candidate) == Min({candidate + Window, call.tipHeight})

OpenWindow ==
    /\ At("activation", "search")
    /\ call.low = call.high
    /\ Go("window", [start |-> WindowStart(call.low), end |-> WindowEnd(call.low),
                     at |-> WindowStart(call.low)])

ScanWindow ==
    /\ At("activation", "window")
    /\ IF call.at > call.end \/ ~Readable(call.at) THEN Fail
       ELSE IF TimeAt(call.at) >= call.launch THEN Go("back", [selected |-> ActiveAt(call.at)])
       ELSE Go("window", [at |-> call.at + 1])

\* The blocks before the selected one, while they are not before the launch.
WalkBack ==
    /\ At("activation", "back")
    /\ LET previous == Block[call.selected].height - 1
       IN  IF previous < 0 THEN Go("parent", <<>>)
           ELSE IF previous < call.start \/ ~Readable(previous) THEN Fail
           ELSE IF TimeAt(previous) < call.launch THEN Go("parent", <<>>)
           ELSE Go("back", [selected |-> ActiveAt(previous)])

\* select_fork_point over the two blocks, ForkActivationManifest::new
ForkPoint(inherited, launchBlock, launch) ==
    [inherited |-> inherited, firstForkHeight |-> Block[inherited].height + 1,
     launchBlock |-> launchBlock, launch |-> launch]
ManifestValid(m) ==
    /\ Block[m.inherited].time < m.launch
    /\ Block[m.launchBlock].time >= m.launch
    /\ Block[m.launchBlock].height = m.firstForkHeight

ReadParent ==
    /\ At("activation", "parent")
    /\ LET parent == Block[call.selected].height - 1
       IN  IF parent < 0 \/ ~Readable(parent) THEN Fail
           ELSE LET m == ForkPoint(ActiveAt(parent), call.selected, call.launch)
                IN  IF ManifestValid(m) THEN Go("done", [manifest |-> m]) ELSE Fail

-----------------------------------------------------------------------------
(* mining_job_template_if_ready *)

IsPohwRpcChain(chain) == chain \in {"pohw", "pohw2"}

\* ensure_bitcoin_mining_ready; the profile's pinned constants are one answer.
EnsureBitcoinMiningReady(info) ==
    /\ info.chain = "main" \/ IsPohwRpcChain(info.chain)
    /\ ~info.initialBlockDownload
    /\ info.headers = info.blocks
    /\ info.chain = "main" => info.verified
    /\ IsPohwRpcChain(info.chain) =>
          /\ info.profile # None
          /\ info.blocks >= Block[Checkpoint].height
          /\ info.profile.pinned
          /\ info.chain = "pohw" => ~info.profile.enforced /\ info.profile.fields = {}
          /\ info.chain = "pohw2" =>
                info.profile.enforced /\ info.profile.fields = IdentityFields

FetchReadiness ==
    /\ Free
    /\ IF ~EnsureBitcoinMiningReady(ChainInfo) THEN Begin("job", "failed", <<>>)
       ELSE Begin("job", IF IsPohwRpcChain(core.setup.chain) THEN "checkpoint" ELSE "template",
                  <<>>)

FetchCheckpoint ==
    /\ At("job", "checkpoint")
    /\ IF Readable(Block[Checkpoint].height) /\ ActiveAt(Block[Checkpoint].height) = Checkpoint
       THEN Go("template", <<>>)
       ELSE Fail

\* normalize_consensus_identity_requirement: all of the metadata or none, and
\* an authorization that has not expired.
IdentityRequirementValid(template, setup) ==
    IF setup.required
    THEN /\ setup.metadata = IdentityFields
         /\ template.height <= setup.expiryHeight
         /\ template.mintime - 1 < setup.expiryMtp
    ELSE setup.metadata = {}

\* mining_job_template_from_getblocktemplate; every transaction has the txid
\* its data has.
JobTemplateValid(template, setup) ==
    /\ \A tx \in setup.transactions : tx.txid = tx.data
    /\ IdentityRequirementValid(template, setup)

FetchJobTemplate ==
    /\ At("job", "template")
    /\ IF ~JobTemplateValid(BlockTemplate, core.setup) THEN Fail
       ELSE /\ Cardinality(jobs) < MaxJobs
            /\ \E root \in {Block[b].merkle : b \in Hashes} :
                  jobs' = jobs \cup {[prev |-> core.tip, version |-> Version, merkle |-> root,
                                      time |-> BlockTemplate.curtime,
                                      target |-> BlockTemplate.target]}
            /\ call' = [call EXCEPT !.step = "done"]
            /\ UNCHANGED core

-----------------------------------------------------------------------------
(* The admission of work templates and shares *)

HeaderPrefix(b) == [prev |-> Block[b].parent, version |-> Version, merkle |-> Block[b].merkle,
                    time |-> Block[b].time, target |-> Block[b].target]

\* A share solves a job, or is the work of a block of Core; a share on the
\* header of a block with another nonce has another work hash.
Shares == {[prefix |-> j, work |-> None] : j \in jobs}
          \cup UNION {{[prefix |-> HeaderPrefix(b), work |-> w] : w \in {b, None}} :
                        b \in core.known \ {Genesis}}

\* A target that differs must be of an earlier time and not easier.
BitsValid(prefix, template, policy, timeDependent) ==
    \/ prefix.target = template.target
    \/ /\ timeDependent
       /\ policy.mutableTime
       /\ prefix.time <= template.curtime
       /\ prefix.target <= template.target

\* validate_template_time
TimeValid(time, template, policy) ==
    IF policy.mutableTime
    THEN time \in template.mintime .. template.curtime + policy.drift
    ELSE time = template.curtime

\* validate_template_merkle_root
MerkleRootValid(root, policy) ==
    /\ root # MERKLE_ZERO
    /\ IF policy.expectedRoot # None THEN root = policy.expectedRoot
                                     ELSE policy.allowUnverified

\* validate_bitcoin_work_template_against_getblocktemplate_with_bits_policy
CurrentValid(prefix, template, policy, timeDependent) ==
    /\ prefix.version = template.version
    /\ prefix.prev = template.prev
    /\ BitsValid(prefix, template, policy, timeDependent)
    /\ TimeValid(prefix.time, template, policy)
    /\ MerkleRootValid(prefix.merkle, policy)

\* detect_pohw_time_dependent_bits_admission, run at the start of the node
TimeDependentBits(policy) == policy.mutableTime /\ IsPohwRpcChain(core.setup.chain)

\* validate_bitcoin_work_template and the first call of validate_bitcoin_share
CheckCurrent(op) ==
    \E share \in Shares, policy \in Policies :
        LET timeDependent == op = "share" /\ TimeDependentBits(policy)
            fields == [share |-> share, policy |-> policy, path |-> "current"]
            valid == CurrentValid(share.prefix, BlockTemplate, policy, timeDependent)
            next == IF valid THEN "done" ELSE IF op = "share" THEN "previous" ELSE "failed"
        IN  Begin(op, next, fields)

\* validate_historical_bitcoin_work_template
CheckHistorical ==
    \E share \in Shares :
        Begin("historical", "previous", [share |-> share])

Admits == call.op \in {"share", "historical"}

\* getblockheader of the previous block, then the active block at its height.
ReadPrevious ==
    /\ Admits /\ call.step = "previous"
    /\ LET previous == call.share.prefix.prev
       IN  IF Readable(Block[previous].height)
              /\ ActiveAt(Block[previous].height) = previous
           THEN Go("successor", [path |-> "historical"])
           ELSE Fail

\* The block after it, and its header against the template.
HistoricalValid(prefix, next) ==
    /\ prefix.target = Block[next].target
    /\ prefix.time = Block[next].time
    /\ prefix.merkle = Block[next].merkle

ReadSuccessor ==
    /\ Admits /\ call.step = "successor"
    /\ LET height == Block[call.share.prefix.prev].height + 1
       IN  IF Readable(height) /\ HistoricalValid(call.share.prefix, ActiveAt(height))
           THEN Go(IF call.op = "share" THEN "work" ELSE "done", <<>>)
           ELSE Fail

\* The end of validate_bitcoin_share: a stale share must be the active block.
MutWorkActive(work, height) == Readable(height)
WorkActive(work, height) == Readable(height) /\ work = ActiveAt(height)

ReadWork ==
    /\ At("share", "work")
    /\ IF WorkActive(call.share.work, Block[call.share.prefix.prev].height + 1)
       THEN Go("done", <<>>) ELSE Fail

-----------------------------------------------------------------------------
(* confirm_coinbase_payout *)

Count(outputs, o) == Cardinality({i \in DOMAIN outputs : outputs[i] = o})
MutSameOutputs(f, g) == {f[i] : i \in DOMAIN f} = {g[i] : i \in DOMAIN g}
SameOutputs(f, g) ==
    \A o \in {f[i] : i \in DOMAIN f} \cup {g[i] : i \in DOMAIN g} : Count(f, o) = Count(g, o)

\* verify_coinbase_payout_outputs
VerifyCoinbasePayoutOutputs(schedule, commitment, outputs) ==
    LET Positive(o) == o.amount > 0
        vault == IF schedule.vault > 0
                 THEN <<[script |-> commitment.vaultScript, amount |-> schedule.vault]>>
                 ELSE <<>>
    IN  /\ commitment.root = schedule.root
        /\ \E i \in DOMAIN outputs : outputs[i] = [script |-> commitment.script, amount |-> 0]
        /\ SameOutputs(schedule.direct \o vault, SelectSeq(outputs, Positive))

Confirmations(b) == IF Active(b) THEN TipHeight - Block[b].height + 1 ELSE 0

ConfirmCoinbasePayout ==
    \E b \in core.known, payout \in Payouts :
        LET valid == /\ Confirmations(b) >= MinConfirmations
                     /\ VerifyCoinbasePayoutOutputs(payout.schedule, payout.commitment,
                                                    Block[b].outputs)
        IN  Begin("confirm", IF valid THEN "done" ELSE "failed",
                  [block |-> b, payout |-> payout])

-----------------------------------------------------------------------------
Init ==
    /\ \E setup \in Setups, tip \in Tips :
          core = [setup |-> setup, tip |-> tip, now |-> 0, known |-> Branch(tip)]
    /\ jobs = {}
    /\ call = [op |-> "none", step |-> "idle", seen |-> {core.tip}]

Next ==
    \/ MoveTip
    \/ LearnHeader
    \/ Tick
    \/ ReadLaunchTip
    \/ Bisect
    \/ OpenWindow
    \/ ScanWindow
    \/ WalkBack
    \/ ReadParent
    \/ FetchReadiness
    \/ FetchCheckpoint
    \/ FetchJobTemplate
    \/ CheckCurrent("template")
    \/ CheckCurrent("share")
    \/ CheckHistorical
    \/ ReadPrevious
    \/ ReadSuccessor
    \/ ReadWork
    \/ ConfirmCoinbasePayout

Spec == Init /\ [][Next]_vars

-----------------------------------------------------------------------------
(* Properties *)

Done(op) == call.op = op /\ call.step = "done"

\* How far the timestamps of a branch are out of order around a launch time:
\* from the first block at or after it to the last one before it.
Late(b, launch) == {c \in Branch(b) : Block[c].time >= launch}
Early(b, launch) == {c \in Branch(b) : Block[c].time < launch}
Height(S) == {Block[b].height : b \in S}
Disorder(b, launch) == Max(Height(Early(b, launch))) + 1 - Min(Height(Late(b, launch)))

\* The launch block of a new activation is the first block of the chain at or
\* after the launch time and the fork point is its parent, although the search
\* bisects timestamps that are not sorted, as long as they are out of order by
\* no more than the window and the chain does not move during the search
\* (find_first_mainnet_block_at_or_after_timestamp, select_fork_point).
LaunchIsFirst ==
    Done("activation") =>
        \A t \in call.seen :
            call.seen = {t} /\ Disorder(t, call.launch) <= Window =>
                LET first == Min(Height(Late(t, call.launch)))
                IN  /\ Block[call.manifest.launchBlock].height = first
                    /\ call.manifest.inherited = Block[call.manifest.launchBlock].parent

\* A share that Core's chain admits counts work the chain asked for: it extends
\* a tip Core had during the call at a target no easier than the one Core then
\* asked for, or it is itself a block that was active during the call, however
\* the chain moved between the calls (validate_bitcoin_share).
AdmittedShareIsWork ==
    Done("share") =>
        \/ \E t \in call.seen :
              /\ call.path = "current"
              /\ call.share.prefix.prev = t
              /\ call.share.prefix.target <= TargetAt(t, Max({core.now, Block[t].time + 1}))
        \/ \E t \in call.seen : call.share.work \in Branch(t)

\* A confirmed payout pays every script what the schedule owes it, and nobody
\* else (verify_coinbase_payout_outputs).
PaidTo(outputs, script) ==
    LET Paid(i) == IF outputs[i].script = script THEN outputs[i].amount ELSE 0
    IN  MapThenSumSet(Paid, DOMAIN outputs)
ConfirmedPaysExactly ==
    Done("confirm") =>
        LET payout == call.payout
            outputs == Block[call.block].outputs
            Owed(script) == PaidTo(payout.schedule.direct, script)
                + IF script = payout.commitment.vaultScript THEN payout.schedule.vault ELSE 0
        IN  \A script \in {outputs[i].script : i \in DOMAIN outputs}
                          \cup {payout.schedule.direct[i].script :
                                    i \in DOMAIN payout.schedule.direct}
                          \cup {payout.commitment.vaultScript} :
                PaidTo(outputs, script) = Owed(script)

\* What a node takes from Bitcoin Core keeps the three promises above.
CoreSound == LaunchIsFirst /\ AdmittedShareIsWork /\ ConfirmedPaysExactly
=============================================================================
