----------------------------- MODULE Publication -----------------------------
(***************************************************************************)
(* A Stratum adapter that finds blocks                                     *)
(* (crates/p2pool-node/src/mining_adapter.rs): the journal written before  *)
(* a block is submitted, the submission, the publication of the signed     *)
(* template, the payout evidence and the share in the sharechain log, and  *)
(* the recovery of what was interrupted, at startup and every 30 seconds.  *)
(*                                                                         *)
(* The handler of a block and a recovery pass hold block_submission_lock,  *)
(* so one job runs at a time; it can fail or die after each of its steps.  *)
(* The node that receives blocks, Bitcoin Core or a fork-chain node, is    *)
(* modelled by its answers; an answer may be lost after the block was      *)
(* stored.  Shares are appended locally (config.append).                   *)
(***************************************************************************)
EXTENDS Integers, FiniteSets

CONSTANTS
    Candidates,     \* blocks that meet the target
    Invalid,        \* candidates that consensus refuses
    FileOrder,      \* order of the journal's file names
    Guarded,        \* candidates whose share is under the bootstrap limits
    MaxJournal,     \* MAX_PENDING_BLOCK_PUBLICATIONS
    None,
    MaxFaults, MaxReorgs  \* bounds

ASSUME PublicationAssumption ==
    /\ Invalid \subseteq Candidates /\ Guarded \subseteq Candidates
    /\ FileOrder \in [Candidates -> Nat]
    /\ \A c, d \in Candidates : FileOrder[c] = FileOrder[d] => c = d
    /\ {MaxJournal, MaxFaults, MaxReorgs} \subseteq Nat
    /\ None \notin Candidates

\* The messages of a publication: template, payout schedule, PoHW commitment,
\* then the share.
Parts == 4

VARIABLES
    config,     \* submits to a fork-chain node? has an Idena anchor verifier?
    up,         \* "down", "starting" (the recovery before the listener), "up"
    found,      \* candidates whose handler has begun
    current,    \* candidates that pass the current eligibility checks
    journal,    \* pending-block-publications
    core,       \* where the receiving node has each block
    connected,  \* blocks that were on its active chain at some time
    published,  \* number of messages of each publication in the log
    job,        \* what runs under block_submission_lock
    faults, reorgs

vars == <<config, up, found, current, journal, core, connected, published, job,
          faults, reorgs>>

NoJob == [mode |-> "none", at |-> "idle", block |-> None, part |-> 0, todo |-> {}]

Init ==
    /\ config \in [fork : BOOLEAN, anchored : BOOLEAN]
    /\ up = "up"
    /\ found = {} /\ current = {} /\ journal = {}
    /\ core = [c \in Candidates |-> "unknown"]
    /\ connected = {}
    /\ published = [c \in Candidates |-> 0]
    /\ job = NoJob
    /\ faults = 0 /\ reorgs = 0

-----------------------------------------------------------------------------
(* How a job goes on.                                                      *)

At(mode, stage) == job.mode \in mode /\ job.at = stage
AnyMode == {"handler", "recovery"}

\* An error ends the handler, or the whole recovery pass and with it a start.
JobFails ==
    /\ job' = NoJob
    /\ up' = IF up = "starting" THEN "down" ELSE up

FirstFile(files) == CHOOSE c \in files : \A d \in files : FileOrder[c] <= FileOrder[d]

\* Recovery goes on with the next file it listed.
NextFile(todo) ==
    IF todo = {}
    THEN /\ job' = NoJob
         /\ up' = IF up = "starting" THEN "up" ELSE up
    ELSE /\ job' = [mode |-> "recovery", at |-> "verify", block |-> FirstFile(todo),
                    part |-> 0, todo |-> todo \ {FirstFile(todo)}]
         /\ UNCHANGED up

Goto(stage) == job' = [job EXCEPT !.at = stage, !.part = 0] /\ UNCHANGED up

\* The job is through with its block.
BlockDone == IF job.mode = "handler" THEN JobFails ELSE NextFile(job.todo)

Fault == faults < MaxFaults /\ faults' = faults + 1

-----------------------------------------------------------------------------
(* accept_submit, from the point where the candidate is authorized.        *)

\* Mutant: the block is submitted without a journal entry.
MutFindBlock(c) ==
    /\ up = "up" /\ job = NoJob
    /\ c \notin found \/ c \in current
    /\ found' = found \cup {c}
    /\ current' = current \cup {c}
    /\ job' = [NoJob EXCEPT !.mode = "handler", !.at = "submit", !.block = c]
    /\ UNCHANGED <<config, up, journal, core, connected, published, faults, reorgs>>

\* A miner may send a solution again while its job is current.
FindBlock(c) ==
    /\ up = "up" /\ job = NoJob
    /\ c \notin found \/ c \in current
    /\ found' = found \cup {c}
    /\ current' = current \cup {c}
    /\ job' = [NoJob EXCEPT !.mode = "handler", !.at = "journal", !.block = c]
    /\ UNCHANGED <<config, up, journal, core, connected, published, faults, reorgs>>

\* Mutant: the limit lets one file too many in.
MutRoom == Cardinality(journal) <= MaxJournal

Room == Cardinality(journal) < MaxJournal

\* persist_pending_block_publication
PersistPending ==
    /\ At({"handler"}, "journal")
    /\ IF job.block \in journal \/ Room
       THEN journal' = journal \cup {job.block} /\ Goto("submit")
       ELSE UNCHANGED journal /\ JobFails
    /\ UNCHANGED <<config, found, current, core, connected, published, faults, reorgs>>

\* The file cannot be written, or synced once it is there.
PersistFails ==
    /\ At({"handler"}, "journal") /\ Fault
    /\ journal' \in {journal} \cup (IF Room THEN {journal \cup {job.block}} ELSE {})
    /\ JobFails
    /\ UNCHANGED <<config, found, current, core, connected, published, reorgs>>

-----------------------------------------------------------------------------
(* maybe_submit_block_candidate, in the handler and in recovery.           *)

\* verify_current_candidate_submission_authorization
Authorized == config.anchored => job.block \in current

SubmitUnauthorized ==
    /\ At(AnyMode, "submit") /\ ~Authorized
    /\ BlockDone
    /\ UNCHANGED <<config, found, current, journal, core, connected, published, faults, reorgs>>

StoreBlock(c, place) ==
    /\ core' = [core EXCEPT ![c] = place]
    /\ connected' = IF place = "active" THEN connected \cup {c} ELSE connected

\* "accepted" or "duplicate".  Core gives them for a block that it connects
\* or connected before, a fork-chain node for a block of any branch.
SubmitSucceeds ==
    /\ At(AnyMode, "submit") /\ Authorized
    /\ job.block \notin Invalid
    /\ \E place \in IF core[job.block] # "unknown" THEN {core[job.block]}
                     ELSE IF config.fork THEN {"active", "aside"} ELSE {"active"} :
          /\ place = "aside" => config.fork
          /\ StoreBlock(job.block, place)
    /\ Goto("publish")
    /\ UNCHANGED <<config, found, current, journal, published, faults, reorgs>>

\* Mutant: an inconclusive answer counts as success.
MutSubmitAmbiguous ==
    /\ At(AnyMode, "submit") /\ Authorized
    /\ ~config.fork /\ job.block \notin Invalid
    /\ core[job.block] \in {"unknown", "aside"}
    /\ core' = [core EXCEPT ![job.block] = "aside"]
    /\ Goto("publish")
    /\ UNCHANGED <<config, found, current, journal, connected, published, faults, reorgs>>

\* "inconclusive" or "duplicate-inconclusive": Core has the block and never
\* connected it.
SubmitAmbiguous ==
    /\ At(AnyMode, "submit") /\ Authorized
    /\ ~config.fork /\ job.block \notin Invalid
    /\ core[job.block] \in {"unknown", "aside"}
    /\ core' = [core EXCEPT ![job.block] = "aside"]
    /\ BlockDone
    /\ UNCHANGED <<config, found, current, journal, connected, published, faults, reorgs>>

\* The call fails, before or after the node stored the block.
SubmitUnanswered ==
    /\ At(AnyMode, "submit") /\ Authorized /\ Fault
    /\ \/ UNCHANGED <<core, connected>>
       \/ /\ job.block \notin Invalid /\ core[job.block] = "unknown"
          /\ \E place \in {"active", "aside"} : StoreBlock(job.block, place)
    /\ BlockDone
    /\ UNCHANGED <<config, found, current, journal, published, reorgs>>

\* Core's "rejected" removes the file.  A fork-chain node answers with an
\* error, which is no rejection.
SubmitRejected ==
    /\ At(AnyMode, "submit") /\ Authorized
    /\ job.block \in Invalid
    /\ IF config.fork THEN BlockDone ELSE Goto("remove")
    /\ UNCHANGED <<config, found, current, journal, core, connected, published, faults, reorgs>>

-----------------------------------------------------------------------------
(* publish_candidate_publication and remove_pending_block_publication.     *)

\* The datadir refuses to validate a logged share again while the bootstrap
\* limits are active.
Refused(c, part) ==
    config.anchored /\ part = Parts /\ c \in Guarded /\ published[c] >= part

\* publish_sharechain_message of the next message; one that is logged already
\* is a duplicate.  The share moves the tip, and with it the current job and
\* the parent that a candidate must have.
PublishNext ==
    LET part == job.part + 1
    IN  /\ At(AnyMode, "publish")
        /\ IF Refused(job.block, part)
           THEN JobFails /\ UNCHANGED <<published, current>>
           ELSE /\ published' = [published EXCEPT ![job.block] = IF @ < part THEN part ELSE @]
                /\ current' = IF part = Parts THEN {} ELSE current
                /\ job' = [job EXCEPT !.at = IF part = Parts THEN "remove" ELSE "publish",
                                      !.part = part]
                /\ UNCHANGED up
        /\ UNCHANGED <<config, found, journal, core, connected, faults, reorgs>>

\* A replay, a validation, an append or a peer fails.
PublishFails ==
    /\ At(AnyMode, "publish") /\ Fault
    /\ JobFails
    /\ UNCHANGED <<config, found, current, journal, core, connected, published, reorgs>>

RemovePending ==
    /\ At(AnyMode, "remove")
    /\ journal' = journal \ {job.block}
    /\ BlockDone
    /\ UNCHANGED <<config, found, current, core, connected, published, faults, reorgs>>

\* The file cannot be removed, or its directory not synced afterwards.
RemoveFails ==
    /\ At(AnyMode, "remove") /\ Fault
    /\ journal' \in {journal, journal \ {job.block}}
    /\ JobFails
    /\ UNCHANGED <<config, found, current, core, connected, published, reorgs>>

-----------------------------------------------------------------------------
(* recover_pending_block_publications.                                     *)

\* The 30-second loop, or a process that starts.
BeginRecovery ==
    /\ job = NoJob
    /\ journal # {} \/ up = "down"
    /\ LET mode == IF up = "down" THEN "starting" ELSE up
       IN  IF journal = {}
           THEN up' = "up" /\ UNCHANGED job
           ELSE /\ up' = mode
                /\ job' = [mode |-> "recovery", at |-> "verify", block |-> FirstFile(journal),
                           part |-> 0, todo |-> journal \ {FirstFile(journal)}]
    /\ UNCHANGED <<config, found, current, journal, core, connected, published, faults, reorgs>>

\* Mutant: the active chain is not asked first.
MutBlockIsAccepted(c) == FALSE

\* candidate_block_is_accepted: Core has it on the active chain, or a
\* fork-chain node knows it.
BlockIsAccepted(c) == core[c] = "active" \/ (config.fork /\ core[c] # "unknown")

\* verify_recoverable_candidate_publication: the historical proofs hold.
VerifyRecoverable ==
    /\ At({"recovery"}, "verify")
    /\ Goto(IF BlockIsAccepted(job.block) THEN "publish" ELSE "submit")
    /\ UNCHANGED <<config, found, current, journal, core, connected, published, faults, reorgs>>

\* The proofs cannot be checked now: the pass ends.  Or the receiving node
\* does not say whether the block is active: it is submitted again.
VerifyFails ==
    /\ At({"recovery"}, "verify") /\ Fault
    /\ JobFails \/ Goto("submit")
    /\ UNCHANGED <<config, found, current, journal, core, connected, published, reorgs>>

-----------------------------------------------------------------------------
(* The environment.                                                        *)

Crash ==
    /\ up # "down" /\ Fault
    /\ up' = "down" /\ job' = NoJob
    /\ UNCHANGED <<config, found, current, journal, core, connected, published, reorgs>>

\* Another share or checkpoint becomes active, or an anchor grows old.
EligibilityPasses ==
    /\ current # {}
    /\ current' = {}
    /\ UNCHANGED <<config, up, found, journal, core, connected, published, job, faults, reorgs>>

\* The receiving node connects or disconnects a block it has.
CoreReorganises(c) ==
    /\ reorgs < MaxReorgs
    /\ reorgs' = reorgs + 1
    /\ core[c] # "unknown"
    /\ StoreBlock(c, IF core[c] = "active" THEN "disconnected" ELSE "active")
    /\ UNCHANGED <<config, up, found, current, journal, published, job, faults>>

JobStep ==
    \/ PersistPending
    \/ SubmitUnauthorized \/ SubmitSucceeds \/ SubmitAmbiguous \/ SubmitRejected
    \/ PublishNext \/ RemovePending
    \/ VerifyRecoverable

Next ==
    \/ \E c \in Candidates : FindBlock(c) \/ CoreReorganises(c)
    \/ JobStep
    \/ PersistFails \/ SubmitUnanswered \/ PublishFails \/ RemoveFails \/ VerifyFails
    \/ BeginRecovery
    \/ Crash
    \/ EligibilityPasses

\* A job goes on, a pass begins every 30 seconds, and a supervisor restarts
\* the adapter.
Spec == Init /\ [][Next]_vars /\ WF_vars(JobStep) /\ SF_vars(BeginRecovery)

-----------------------------------------------------------------------------
(* Properties.                                                             *)

\* The journal never holds more files than persist_pending_block_publication
\* allows, and knows only blocks that were found.
TypeOK ==
    /\ config \in [fork : BOOLEAN, anchored : BOOLEAN]
    /\ up \in {"down", "starting", "up"}
    /\ current \subseteq found /\ found \subseteq Candidates
    /\ journal \subseteq found /\ Cardinality(journal) <= MaxJournal
    /\ core \in [Candidates -> {"unknown", "active", "aside", "disconnected"}]
    /\ connected \subseteq Candidates
    /\ published \in [Candidates -> 0..Parts]
    /\ job.block \in Candidates \cup {None} /\ job.todo \subseteq Candidates
    /\ faults \in 0..MaxFaults /\ reorgs \in 0..MaxReorgs

\* A block that the receiving node has stays in the journal until all its
\* messages are logged: whatever fails or dies, recovery still knows of it.
StoredIsJournaled ==
    \A c \in Candidates : core[c] # "unknown" /\ published[c] < Parts => c \in journal

\* With Bitcoin Core, nothing of a block is published that was never on the
\* active chain: an inconclusive or lost answer is no acceptance.
PublishedWasConnected ==
    ~config.fork => \A c \in Candidates : published[c] > 0 => c \in connected

\* The startup and 30-second recovery finish the publication of a block that
\* stays on the active chain and remove its file, whatever failed before, even
\* when the candidate is no longer eligible and other files make no progress.
Active(c) == core[c] = "active"
Settled(c) == published[c] = Parts /\ c \notin journal
AcceptedIsPublished == \A c \in Candidates : <>[]Active(c) => <>[]Settled(c)

\* A found block is journaled before it is stored and connected before it is
\* published.
PublicationSound == StoredIsJournaled /\ PublishedWasConnected
=============================================================================
