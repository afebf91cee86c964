------------------------------ MODULE Stratum ------------------------------
(***************************************************************************)
(* The mining adapter of mining_adapter.rs up to the publication of a      *)
(* share: the Stratum connections, the job every connection works on, the  *)
(* tasks that replace it, and accept_submit with its two locks.  Every     *)
(* await of a handler separates two actions.  What happens to the messages *)
(* of a block is module Publication; here a publication succeeds or fails  *)
(* as a whole.                                                             *)
(*                                                                         *)
(* A job is what its id is a fingerprint of: the template (tip and time)   *)
(* and, with a share-work binding, the share parent it commits to.         *)
(* Shares of the local log are numbered in log order, 0 is the genesis     *)
(* parent; a share's depth stands for the work of its branch.              *)
(***************************************************************************)
EXTENDS Integers, Sequences, FiniteSets

CONSTANTS
    Conns,        \* Stratum connections
    Nonces,       \* solutions a miner may submit for a job
    Quality,      \* what a solution's hash meets: "none", "share", "block"
    Configs,      \* adapter configurations to start from
    Easy,         \* tips at which the block target is easier than the share target
    MaxUpdates,   \* capacity of the job_updates channel
    MaxSubmitted, \* MAX_SUBMITTED_KEYS_PER_JOB
    MaxShares, MaxEvents, \* bounds: on the log, on events and failures outside
    None

VARIABLES
    config,       \* the adapter's configuration
    running,      \* the adapter has not stopped
    template,     \* what the template source answers: [tip, time]
    eligible,     \* the miner's Idena identity is eligible
    log,          \* shares of the local log: [parent, depth, work]
    tip,          \* the best share
    checkpoint,   \* share tip of the latest finalized checkpoint
    active,       \* the active job
    refresh,      \* refresh_job_once of every task that runs one
    conn,         \* the connections
    anchorLock,   \* holder of idena_anchor_submission_lock
    blockLock,    \* holder of block_submission_lock
    events        \* events and failures so far

stratumVars == <<config, running, template, eligible, log, tip, checkpoint, active,
                 refresh, conn, anchorLock, blockLock, events>>

Loop == "loop"        \* refresh_job_loop
Recovery == "recovery"  \* pending_block_publication_recovery_loop
Tasks == Conns \cup {Loop}

-----------------------------------------------------------------------------

\* The checks of run_mining_adapter on its configuration.
ConfigValid(c) ==
    /\ c.requireAdmission => c.anchored
    /\ c.bound => c.anchored /\ c.shareTarget /\ c.append /\ (c.fork \/ c.refresh)
    /\ c.identity => ~c.fork /\ c.refresh /\ c.bound
    /\ c.fork => ~c.refresh /\ ~c.rpc
    /\ c.refresh \/ c.autoSubmit => c.rpc \/ c.fork
    /\ c.autoSubmit => c.append
    /\ c.dynamic => ~c.schedule /\ c.payoutDir /\ c.append /\ (c.refresh \/ c.fork)
    /\ c.schedule => c.refresh \/ c.fork

Refreshes == config.refresh \/ config.fork

Closed == [open |-> FALSE, subscribed |-> FALSE, authorized |-> FALSE, submitted |-> {},
           updates |-> <<>>, lagged |-> FALSE, told |-> None, at |-> "read",
           work |-> None, job |-> None, parent |-> None]

\* build_share_work_binding: a bound job commits to the share parent.
Job(t, parent) == [template |-> t, parent |-> IF config.bound THEN parent ELSE None]

\* prepare_share_work_binding_seed asks for an eligible registration, and
\* ensure_share_target_not_stricter_than_block_target for a fitting target.
JobBuilds(t) == (config.bound => eligible) /\ t.tip \notin Easy

Init ==
    /\ config \in {c \in Configs : ConfigValid(c)}
    /\ running = TRUE
    /\ template = [tip |-> 0, time |-> 0]
    /\ eligible = TRUE
    /\ log = <<>> /\ tip = 0 /\ checkpoint = 0
    /\ active = Job(template, 0)
    /\ refresh = [t \in Tasks |-> None]
    /\ conn = [c \in Conns |-> Closed]
    /\ anchorLock = None /\ blockLock = None
    /\ events = 0

Event == events < MaxEvents /\ events' = events + 1

-----------------------------------------------------------------------------

\* What an action leaves alone: world is outside the adapter.
world == <<config, running, template, eligible, log, tip, checkpoint, events>>
adapter == <<active, refresh, conn, anchorLock, blockLock>>
others == <<world, active, refresh, anchorLock, blockLock>>

\* The handler of t answers: it reads the next line, and its guards are gone.
Answered(t, cs) ==
    /\ conn' = [cs EXCEPT ![t].at = "read", ![t].work = None, ![t].job = None,
                          ![t].parent = None]
    /\ anchorLock' = IF anchorLock = t THEN None ELSE anchorLock
    /\ blockLock' = IF blockLock = t THEN None ELSE blockLock

\* A refresh is over: the loop waits for its next tick, a handler answers.
RefreshOver(t, cs) ==
    /\ refresh' = [refresh EXCEPT ![t] = None]
    /\ IF t = Loop THEN conn' = cs /\ UNCHANGED <<anchorLock, blockLock>>
                   ELSE Answered(t, cs)

\* refresh_job_once: fetch the template, ...
RefreshFetch(t) ==
    /\ running /\ Refreshes
    /\ refresh[t] = None
    /\ t # Loop => conn[t].at = "refresh"
    /\ refresh' = [refresh EXCEPT ![t] = [at |-> "build", template |-> template,
                                          job |-> None]]
    /\ UNCHANGED <<world, active, conn, anchorLock, blockLock>>

RefreshAt(t, stage) == running /\ refresh[t] # None /\ refresh[t].at = stage

\* ... build the job on the share parent of this moment, ...
RefreshBuild(t) ==
    /\ RefreshAt(t, "build")
    /\ IF JobBuilds(refresh[t].template)
       THEN /\ refresh' = [refresh EXCEPT
                  ![t] = [@ EXCEPT !.at = "install",
                                   !.job = Job(refresh[t].template, tip)]]
            /\ UNCHANGED <<conn, anchorLock, blockLock>>
       ELSE RefreshOver(t, conn)
    /\ UNCHANGED <<world, active>>

\* ... make it the active job, unless it is already, ...
RefreshInstall(t) ==
    /\ RefreshAt(t, "install")
    /\ IF refresh[t].job = active
       THEN RefreshOver(t, conn) /\ UNCHANGED active
       ELSE /\ active' = refresh[t].job
            /\ refresh' = [refresh EXCEPT ![t].at = "send"]
            /\ UNCHANGED <<conn, anchorLock, blockLock>>
    /\ UNCHANGED <<world>>

\* A receiver that does not keep up with the channel loses its oldest entry.
MutReceived(c, job) ==
    IF ~c.subscribed \/ Len(c.updates) >= MaxUpdates THEN c
    ELSE [c EXCEPT !.updates = Append(@, job)]
Received(c, job) ==
    IF ~c.subscribed THEN c
    ELSE IF Len(c.updates) < MaxUpdates THEN [c EXCEPT !.updates = Append(@, job)]
    ELSE [c EXCEPT !.updates = Append(Tail(@), job), !.lagged = TRUE]

\* ... and send it to the subscribers.
RefreshSend(t) ==
    /\ RefreshAt(t, "send")
    /\ RefreshOver(t, [c \in Conns |-> Received(conn[c], refresh[t].job)])
    /\ UNCHANGED <<world, active>>

-----------------------------------------------------------------------------

Reading(c) == running /\ conn[c].open /\ conn[c].at = "read"

Connect(c) ==
    /\ running /\ ~conn[c].open
    /\ conn' = [conn EXCEPT ![c] = [Closed EXCEPT !.open = TRUE]]
    /\ UNCHANGED others

\* The idle timeout, the rate window, the end of the stream.
Disconnect(c) ==
    /\ Reading(c) /\ Event
    /\ conn' = [conn EXCEPT ![c] = Closed]
    /\ UNCHANGED <<config, running, template, eligible, log, tip, checkpoint, active,
                   refresh, anchorLock, blockLock>>

\* mining.subscribe: a fresh receiver first, ...
Subscribe(c) ==
    /\ Reading(c)
    /\ conn' = [conn EXCEPT ![c].at = "subscribe", ![c].subscribed = TRUE,
                            ![c].updates = <<>>, ![c].lagged = FALSE]
    /\ UNCHANGED others

\* ... and, once the replies are written, the active job.
NotifySubscriber(c) ==
    /\ running /\ conn[c].at = "subscribe"
    /\ conn' = [conn EXCEPT ![c].at = "read", ![c].told = active]
    /\ UNCHANGED others

\* The connection takes a job update: what it remembers of submissions goes,
\* and the miner is told; a receiver that lagged asks for the active job.
JobUpdate(c) ==
    /\ Reading(c)
    /\ conn[c].lagged \/ conn[c].updates # <<>>
    /\ conn' = [conn EXCEPT ![c] =
          IF @.lagged
          THEN [@ EXCEPT !.lagged = FALSE, !.told = active, !.submitted = {}]
          ELSE [@ EXCEPT !.updates = Tail(conn[c].updates), !.told = Head(conn[c].updates),
                         !.submitted = {}]]
    /\ UNCHANGED others

\* mining.authorize, with the right password or another.
Authorize(c, result) ==
    /\ Reading(c)
    /\ conn' = [conn EXCEPT ![c].authorized = result]
    /\ UNCHANGED others

-----------------------------------------------------------------------------

\* mining.submit of a solution of the job the miner was told of, up to the
\* first lock: a duplicate, a job that is not active and a hash above the share
\* target are answered here, and one key too many closes the connection.
Work(c, n) == [job |-> conn[c].told, conn |-> c, nonce |-> n]

Submit(c, n) ==
    /\ Reading(c) /\ conn[c].authorized /\ conn[c].told # None
    /\ Work(c, n) \notin conn[c].submitted
    /\ LET remembered == conn[c].submitted \cup {Work(c, n)} IN
       conn' = [conn EXCEPT ![c] =
           IF Cardinality(@.submitted) >= MaxSubmitted THEN Closed
           ELSE IF @.told # active \/ Quality[n] = "none"
           THEN [@ EXCEPT !.submitted = remembered]
           ELSE [@ EXCEPT !.submitted = remembered, !.at = "lock", !.work = Work(c, n),
                          !.job = active]]
    /\ UNCHANGED others

At(c, stage) == running /\ conn[c].at = stage

\* The share is refused: its key stays remembered.
Refused(c) == Answered(c, conn)

IsBlock(c) == Quality[conn[c].work.nonce] = "block"

\* The Idena submission lock; then a bound job must commit to the tip.
MutAnchorLockFree(c) == TRUE
AnchorLockFree(c) == config.anchored => anchorLock = None

LockAnchor(c) ==
    /\ At(c, "lock")
    /\ AnchorLockFree(c)
    /\ IF config.bound /\ conn[c].job.parent # tip
       THEN Refused(c)
       ELSE /\ anchorLock' = IF config.anchored THEN c ELSE anchorLock
            /\ conn' = [conn EXCEPT ![c].at = "block"]
            /\ UNCHANGED blockLock
    /\ UNCHANGED <<world, active, refresh>>

\* The block submission lock, for a block that is to be submitted.
Submits(c) == IsBlock(c) /\ config.autoSubmit

LockBlock(c) ==
    /\ At(c, "block")
    /\ Submits(c) => blockLock = None
    /\ blockLock' = IF Submits(c) THEN c ELSE blockLock
    /\ conn' = [conn EXCEPT ![c].at = "anchor"]
    /\ UNCHANGED <<world, active, refresh, anchorLock>>

\* An anchored template needs a fresh finalized anchor; the share's parent is
\* the bound one, or the tip of this moment.
BuildShare(c) ==
    /\ At(c, "anchor")
    /\ IF config.anchored /\ ~config.bound /\ ~eligible
       THEN Refused(c)
       ELSE /\ conn' = [conn EXCEPT ![c].at = "verify",
                 ![c].parent = IF config.bound THEN conn[c].job.parent ELSE tip]
            /\ UNCHANGED <<anchorLock, blockLock>>
    /\ UNCHANGED <<world, active, refresh>>

\* verify_template; for a block that is submitted also the current template,
\* and for an anchored one the latest checkpoint.
VerifyShare(c) ==
    /\ At(c, "verify")
    /\ IF /\ config.anchored => eligible
          /\ Submits(c) => template.tip = conn[c].job.template.tip
          /\ IsBlock(c) /\ config.anchored => conn[c].parent = checkpoint
       THEN conn' = [conn EXCEPT ![c].at = "publish"] /\ UNCHANGED <<anchorLock, blockLock>>
       ELSE Refused(c)
    /\ UNCHANGED <<world, active, refresh>>

-----------------------------------------------------------------------------

Depth(i) == IF i = 0 THEN 0 ELSE log[i].depth

\* Branch work decides, and the share hash between equals.
NextTips(entry) ==
    {i \in {tip, Len(log) + 1} :
        \/ i = tip /\ entry.depth <= Depth(tip)
        \/ i # tip /\ entry.depth >= Depth(tip)}

\* Replay refuses a work hash that is credited already.
MutCredited(work) == FALSE
Credited(work) == \E i \in DOMAIN log : log[i].work = work

AppendShare(entry) ==
    /\ log' = Append(log, entry)
    /\ tip' \in NextTips(entry)

\* After the append: a bound adapter, and one whose block was accepted,
\* replaces the job before it answers.
AfterShare(c) ==
    IF config.bound \/ Submits(c)
    THEN conn' = [conn EXCEPT ![c].at = "refresh"] /\ UNCHANGED <<anchorLock, blockLock>>
    ELSE Answered(c, conn)

\* The block is submitted, the messages are appended and sent to the peers.
PublishShare(c) ==
    LET entry == [parent |-> conn[c].parent, depth |-> Depth(conn[c].parent) + 1,
                  work |-> conn[c].work]
    IN  /\ At(c, "publish")
        /\ Len(log) < MaxShares
        /\ IF Credited(entry.work)
           THEN /\ \/ entry \in {log[i] : i \in DOMAIN log} /\ AfterShare(c)
                   \/ entry \notin {log[i] : i \in DOMAIN log} /\ Refused(c)
                /\ UNCHANGED <<log, tip>>
           ELSE AppendShare(entry) /\ AfterShare(c)
        /\ UNCHANGED <<config, running, template, eligible, checkpoint, events, active,
                       refresh>>

\* Another process holds the log: the key is forgotten, so that the miner can
\* send the solution again.
Forget(submitted, work) == submitted \ {work}

LogBusy(c) ==
    /\ At(c, "publish") /\ Event
    /\ Answered(c, [conn EXCEPT ![c].submitted = Forget(@, conn[c].work)])
    /\ UNCHANGED <<config, running, template, eligible, log, tip, checkpoint, active,
                   refresh>>

\* A file cannot be written, or the block is not accepted.
PublishFails(c) ==
    /\ At(c, "publish") /\ Event
    /\ Refused(c)
    /\ UNCHANGED <<config, running, template, eligible, log, tip, checkpoint, active,
                   refresh>>

-----------------------------------------------------------------------------

NewTemplate ==
    /\ Event
    /\ template' \in {[template EXCEPT !.tip = @ + 1], [template EXCEPT !.time = @ + 1]}
    /\ UNCHANGED <<config, running, eligible, log, tip, checkpoint, adapter>>

\* A share of a peer arrives, on the tip or beside it.
PeerShare(parent) ==
    /\ Event
    /\ AppendShare([parent |-> parent, depth |-> Depth(parent) + 1, work |-> None])
    /\ UNCHANGED <<config, running, template, eligible, checkpoint, adapter>>

\* The Idena registry finalizes the current tip.
CheckpointFinal ==
    /\ Event
    /\ config.anchored /\ checkpoint # tip
    /\ checkpoint' = tip
    /\ UNCHANGED <<config, running, template, eligible, log, tip, adapter>>

IdentityLapses ==
    /\ Event
    /\ config.anchored /\ eligible
    /\ eligible' = FALSE
    /\ UNCHANGED <<config, running, template, log, tip, checkpoint, adapter>>

\* monitor_current_miner_eligibility ends the adapter: every connection is
\* aborted at the await it is in, and its guards with it.
StopAdapter ==
    /\ running /\ ~eligible
    /\ running' = FALSE
    /\ conn' = [c \in Conns |-> Closed]
    /\ refresh' = [t \in Tasks |-> None]
    /\ anchorLock' = None /\ blockLock' = None
    /\ UNCHANGED <<config, template, eligible, log, tip, checkpoint, events, active>>

\* recover_pending_block_publications holds the block lock for a pass.
RecoveryBegins ==
    /\ running /\ config.autoSubmit
    /\ Event
    /\ blockLock = None
    /\ blockLock' = Recovery
    /\ UNCHANGED <<config, running, template, eligible, log, tip, checkpoint, active,
                   refresh, conn, anchorLock>>

RecoveryEnds ==
    /\ blockLock = Recovery
    /\ blockLock' = None
    /\ UNCHANGED <<world, active, refresh, conn, anchorLock>>

-----------------------------------------------------------------------------

Handler(c) ==
    \/ NotifySubscriber(c)
    \/ LockAnchor(c) \/ LockBlock(c) \/ BuildShare(c) \/ VerifyShare(c)
    \/ PublishShare(c) \/ LogBusy(c) \/ PublishFails(c)

Miner(c) ==
    \/ Connect(c) \/ Disconnect(c) \/ Subscribe(c)
    \/ \E result \in BOOLEAN : Authorize(c, result)
    \/ \E n \in Nonces : Submit(c, n)

Next ==
    \/ \E c \in Conns : Miner(c) \/ Handler(c) \/ JobUpdate(c)
    \/ \E t \in Tasks :
          RefreshFetch(t) \/ RefreshBuild(t) \/ RefreshInstall(t) \/ RefreshSend(t)
    \/ NewTemplate \/ CheckpointFinal \/ IdentityLapses
    \/ \E parent \in 0..Len(log) : PeerShare(parent)
    \/ StopAdapter
    \/ RecoveryBegins \/ RecoveryEnds

Spec == Init /\ [][Next]_stratumVars

-----------------------------------------------------------------------------

\* An anchored adapter never competes with itself: however the submissions of
\* its connections interleave with shares of peers and job refreshes, no two
\* of its shares have the same parent.
OwnSharesChain ==
    config.anchored =>
        \A i, j \in DOMAIN log :
            /\ i # j /\ log[i].work # None /\ log[j].work # None
            => log[i].parent # log[j].parent

\* A subscribed miner that has no update waiting was last told of the active
\* job, however the subscription raced with refreshes.  With two tasks that
\* refresh, the later job may be sent first, so this is about the loop alone.
MinersHaveTheJob ==
    ~config.bound /\ ~config.autoSubmit =>
        \A c \in Conns :
            \/ conn[c].at = "subscribe" \/ ~conn[c].subscribed
            \/ conn[c].lagged \/ conn[c].updates # <<>>
            \/ \E t \in Tasks : refresh[t] # None /\ refresh[t].at = "send"
            \/ conn[c].told = active

\* A solution earns one share, though the connection forgets its submissions
\* with every job update and an unbound share takes a new parent each time.
WorkCreditedOnce ==
    \A i, j \in DOMAIN log : log[i].work # None /\ log[i].work = log[j].work => i = j

\* The Stratum adapter keeps the three promises above.
AdapterSound == OwnSharesChain /\ MinersHaveTheJob /\ WorkCreditedOnce
=============================================================================
