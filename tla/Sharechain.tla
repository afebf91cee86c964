------------------------------ MODULE Sharechain ------------------------------
(***************************************************************************)
(* The replay state of the sharechain (SharechainReplayState in            *)
(* crates/pohw-core/src/sharechain_state.rs): miner registrations, work    *)
(* templates, the tree of shares, the active branch with its accounting,   *)
(* and the finalized checkpoints that freeze it.                           *)
(*                                                                         *)
(* A share's hash commits to all of its fields, so the fields are constant *)
(* functions of the hash.  Hashes are positive naturals, because the code  *)
(* breaks score ties by comparing them; 0 is the all-zero parent hash.     *)
(*                                                                         *)
(* An error leaves no trace: every caller of apply_message drops the state *)
(* object on error and rebuilds it from the message log.  An error found   *)
(* before anything was written is therefore no step at all; the one found  *)
(* half-way (a score overflow while descendants are resolved) is DropState.*)
(***************************************************************************)
EXTENDS Integers, FiniteSets, Sequences

CONSTANTS
    Miners,           \* miner ids
    Shares,           \* share hashes
    Templates,        \* hashes of Bitcoin work templates
    Parent,           \* parent_share_hash of a share
    MinerOf,          \* miner_id of a share
    WorkOf,           \* work_hash (the Bitcoin header hash) of a share
    TemplateOf,       \* bitcoin_template_hash of a share
    Delta,            \* hashrate_score_delta of a share
    MaxScore,         \* the largest Score (u128::MAX in the code)
    MaxSeq,           \* bound: the largest registry sequence considered
    Blocks,           \* Idena block heights at which a round may finalize
    MinInterval,      \* CHECKPOINT_MIN_INTERVAL_BLOCKS
    AnchorPolicy,     \* whether the node bound an Idena anchor policy
    RegBlock,         \* Idena block of the registration with a sequence
    AnchorOf,         \* height of the Idena block a template is anchored to
    Bootstrap         \* templates mined before the handoff version bit

Root == 0             \* ZERO_SHARE_PARENT_HASH
NoTip == 0            \* best_share_tip = None
NoReg == -1           \* no registration of this miner
NoAuthor == "no author"

ASSUME ShareAssumption ==
    /\ Shares \subseteq Nat \ {0}
    /\ IsFiniteSet(Shares)
    /\ Parent \in [Shares -> Nat]
    /\ MinerOf \in [Shares -> Miners]
    /\ TemplateOf \in [Shares -> Templates]
    /\ MaxScore \in Nat \ {0}
    /\ Delta \in [Shares -> 1..MaxScore]

\* A hash commits to the parent hash, so parents cannot form a cycle.
ASSUME AcyclicAssumption ==
    \A C \in SUBSET Shares : C # {} => \E c \in C : Parent[c] \notin C

ASSUME CheckpointAssumption ==
    /\ Blocks \subseteq Nat \ {0}
    /\ MinInterval \in Nat \ {0}

ASSUME RegistrationAssumption ==
    /\ MaxSeq \in Nat
    /\ NoAuthor \notin Miners

ASSUME AnchorAssumption ==
    /\ AnchorPolicy \in BOOLEAN
    /\ RegBlock \in [0..MaxSeq -> Nat]
    /\ AnchorOf \in [Templates -> Nat]
    /\ Bootstrap \subseteq Templates

VARIABLES
    reg,          \* registrations: NoReg, 0 (legacy) or a registry sequence
    accepted,     \* accepted_bitcoin_work_template_prefixes
    templates,    \* bitcoin_work_templates: who published each template
    stored,       \* shares: the hashes present in the share map
    score,        \* cumulative_score of a share, 0 for None
    height,       \* height of a share, 0 while unresolved
    best,         \* best_share_tip
    active,       \* active_share_hashes
    total,        \* active_share_score_total
    hashrate,     \* hashrate_scores by miner
    checkpoints,  \* sharechain_checkpoints, in round order
    frontier      \* the queue of resolve_share_and_descendants

treeVars == <<stored, score, height, frontier>>
activeVars == <<best, active, total, hashrate>>
inputVars == <<reg, accepted, templates>>
vars == <<reg, accepted, templates, stored, score, height, best, active,
          total, hashrate, checkpoints, frontier>>

-----------------------------------------------------------------------------
(* The branch of a share and the work on it.                               *)

\* The walk from s towards the root through stored shares: the smallest
\* set that holds s and, with a share, its parent when that is stored.
Branch(S, s) ==
    {a \in S : \A C \in SUBSET S :
                  (s \in C /\ \A c \in C : Parent[c] \in S => Parent[c] \in C)
                     => a \in C}

\* The sum of the score deltas of a set of shares, as the number of units
\* of work in it.
Work(A) == Cardinality({u \in A \X (1..MaxScore) : u[2] <= Delta[u[1]]})

MinedBy(A, m) == {a \in A : MinerOf[a] = m}

Children(s) == {c \in stored : Parent[c] = s}

Resolved == {s \in stored : score[s] > 0}

-----------------------------------------------------------------------------
Init ==
    /\ reg = [m \in Miners |-> NoReg]
    /\ accepted = {}
    /\ templates = [t \in Templates |-> NoAuthor]
    /\ stored = {}
    /\ score = [s \in Shares |-> 0]
    /\ height = [s \in Shares |-> 0]
    /\ best = NoTip
    /\ active = {}
    /\ total = 0
    /\ hashrate = [m \in Miners |-> 0]
    /\ checkpoints = <<>>
    /\ frontier = {}

Idle == frontier = {}

Registered == {m \in Miners : reg[m] # NoReg}

\* A first registration, or the upgrade of one: to an anchored one, or to
\* one with a larger registry sequence.  A bound policy refuses a legacy one.
ApplyRegistration(m, k) ==
    /\ Idle
    /\ k > reg[m]
    /\ AnchorPolicy => k >= 1
    /\ reg' = [reg EXCEPT ![m] = k]
    /\ UNCHANGED <<accepted, templates, treeVars, activeVars, checkpoints>>

AcceptTemplate(t) ==
    /\ Idle
    /\ accepted' = accepted \cup {t}
    /\ UNCHANGED <<reg, templates, treeVars, activeVars, checkpoints>>

\* An anchor must not predate the miner's current registration.
AnchoredAfterRegistration(t, m) == AnchorOf[t] >= RegBlock[reg[m]]

\* The first publisher of a template hash keeps it; another one conflicts.
ApplyTemplate(t, m) ==
    /\ Idle
    /\ m \in Registered
    /\ t \in accepted
    /\ AnchorPolicy => AnchoredAfterRegistration(t, m)
    /\ templates[t] = NoAuthor
    /\ templates' = [templates EXCEPT ![t] = m]
    /\ UNCHANGED <<reg, accepted, treeVars, activeVars, checkpoints>>

UniqueRoot(s) ==
    Parent[s] = Root => \A r \in stored : Parent[r] # Root

\* Mutant: two miners may anchor to the same block along one branch.
MutAnchorMayRepeat(s) ==
    /\ AnchoredAfterRegistration(TemplateOf[s], MinerOf[s])
    /\ TemplateOf[s] \in Bootstrap =>
          /\ \A r \in MinedBy(stored, MinerOf[s]) :
                AnchorOf[TemplateOf[r]] # AnchorOf[TemplateOf[s]]
          /\ Parent[s] # Root =>
                /\ Parent[s] \in stored
                /\ AnchorOf[TemplateOf[s]] >= AnchorOf[TemplateOf[Parent[s]]]

\* While the bootstrap limits are active a miner uses an Idena block at most
\* once, parents come first, and anchors increase along a branch.
AnchoredShare(s) ==
    /\ AnchoredAfterRegistration(TemplateOf[s], MinerOf[s])
    /\ TemplateOf[s] \in Bootstrap =>
          /\ \A r \in MinedBy(stored, MinerOf[s]) :
                AnchorOf[TemplateOf[r]] # AnchorOf[TemplateOf[s]]
          /\ Parent[s] # Root =>
                /\ Parent[s] \in stored
                /\ AnchorOf[TemplateOf[s]] > AnchorOf[TemplateOf[Parent[s]]]

\* The share enters the map unresolved and starts the walk over descendants.
ApplyShare(s) ==
    /\ Idle
    /\ s \notin stored
    /\ MinerOf[s] \in Registered
    /\ templates[TemplateOf[s]] # NoAuthor
    /\ AnchorPolicy => AnchoredShare(s)
    /\ \A r \in stored : WorkOf[r] # WorkOf[s]
    /\ UniqueRoot(s)
    /\ stored' = stored \cup {s}
    /\ frontier' = {s}
    /\ UNCHANGED <<inputVars, score, height, activeVars, checkpoints>>

\* Mutant: on a tie the share resolved last wins.
MutLastWins(x, y) == score'[x] >= score[y]

Better(x, y) == score'[x] > score[y] \/ (score'[x] = score[y] /\ x < y)

ExtendActiveBranch(s) ==
    /\ active' = active \cup {s}
    /\ total' = total + Delta[s]
    /\ hashrate' = [hashrate EXCEPT ![MinerOf[s]] = @ + Delta[s]]
    /\ best' = s

RebuildActiveBranch(s) ==
    /\ active' = Branch(stored, s)
    /\ total' = Work(active')
    /\ hashrate' = [m \in Miners |-> Work(MinedBy(active', m))]
    /\ best' = s

\* Mutant: every better share is counted on top of the active branch.
MutNoReorg(s) ==
    IF checkpoints = <<>> /\ (best = NoTip \/ Better(s, best))
    THEN ExtendActiveBranch(s)
    ELSE UNCHANGED activeVars

\* Mutant: heavier work moves the tip after a checkpoint, too.
MutIgnoreCheckpoint(s) ==
    IF best = NoTip \/ Better(s, best)
    THEN RebuildActiveBranch(s)
    ELSE UNCHANGED activeVars

\* After the first checkpoint new work waits for a later round.
ConsiderResolvedShare(s) ==
    IF checkpoints = <<>> /\ (best = NoTip \/ Better(s, best))
    THEN IF best # NoTip /\ Parent[s] = best /\ best \in active
         THEN ExtendActiveBranch(s)
         ELSE RebuildActiveBranch(s)
    ELSE UNCHANGED activeVars

\* Mutant: a share's score is counted from the best tip.
MutTipScore(s) == IF best = NoTip THEN 0 ELSE score[best]

ParentScore(s) == IF Parent[s] = Root THEN 0 ELSE score[Parent[s]]
ParentHeight(s) == IF Parent[s] = Root THEN 0 ELSE height[Parent[s]]

Resolvable(s) == Parent[s] = Root \/ Parent[s] \in Resolved

\* Mutant: the addition is not checked for overflow.
MutUncheckedAdd(s) ==
    /\ Resolvable(s)
    /\ score' = [score EXCEPT ![s] = ParentScore(s) + Delta[s]]
    /\ height' = [height EXCEPT ![s] = ParentHeight(s) + 1]
    /\ ConsiderResolvedShare(s)
    /\ frontier' = (frontier \ {s}) \cup Children(s)
    /\ UNCHANGED <<inputVars, stored, checkpoints>>

\* One round of the loop on a share whose parent is resolved.  The order in
\* which the queue is served is left open.
ResolveShare(s) ==
    /\ Resolvable(s)
    /\ ParentScore(s) + Delta[s] <= MaxScore
    /\ score' = [score EXCEPT ![s] = ParentScore(s) + Delta[s]]
    /\ height' = [height EXCEPT ![s] = ParentHeight(s) + 1]
    /\ ConsiderResolvedShare(s)
    /\ frontier' = (frontier \ {s}) \cup Children(s)
    /\ UNCHANGED <<inputVars, stored, checkpoints>>

\* One round of the loop on a share whose parent is missing or unresolved.
SkipShare(s) ==
    /\ ~Resolvable(s)
    /\ frontier' = frontier \ {s}
    /\ UNCHANGED <<inputVars, stored, score, height, activeVars, checkpoints>>

\* checked_add fails: the caller drops the object and starts a new one.
DropState(s) ==
    /\ Resolvable(s)
    /\ ParentScore(s) + Delta[s] > MaxScore
    /\ reg' = [m \in Miners |-> NoReg]
    /\ accepted' = {}
    /\ templates' = [t \in Templates |-> NoAuthor]
    /\ stored' = {}
    /\ score' = [t \in Shares |-> 0]
    /\ height' = [t \in Shares |-> 0]
    /\ best' = NoTip
    /\ active' = {}
    /\ total' = 0
    /\ hashrate' = [m \in Miners |-> 0]
    /\ checkpoints' = <<>>
    /\ frontier' = {}

Latest == checkpoints[Len(checkpoints)]

\* Mutant: the next tip need not descend from the previous one.
MutAnyTip(tip, block) ==
    /\ Idle
    /\ \A m \in Registered : reg[m] >= 1
    /\ tip \in Resolved
    /\ checkpoints # <<>> => block >= Latest.block + MinInterval
    /\ checkpoints' = Append(checkpoints, [tip |-> tip, block |-> block])
    /\ RebuildActiveBranch(tip)
    /\ UNCHANGED <<inputVars, treeVars>>

\* A certificate for the next round.  Its round, parent tip, registered set,
\* share height and score must equal the local ones, so only the tip and the
\* finalization block are free.
ApplyCheckpoint(tip, block) ==
    /\ Idle
    /\ \A m \in Registered : reg[m] >= 1
    /\ tip \in Resolved
    /\ checkpoints # <<>> =>
          /\ block >= Latest.block + MinInterval
          /\ Latest.tip \in Branch(stored, tip)
    /\ checkpoints' = Append(checkpoints, [tip |-> tip, block |-> block])
    /\ RebuildActiveBranch(tip)
    /\ UNCHANGED <<inputVars, treeVars>>

Next ==
    \/ \E m \in Miners, k \in 0..MaxSeq : ApplyRegistration(m, k)
    \/ \E t \in Templates : AcceptTemplate(t)
    \/ \E t \in Templates, m \in Miners : ApplyTemplate(t, m)
    \/ \E s \in Shares : ApplyShare(s)
    \/ \E s \in frontier : ResolveShare(s)
    \/ \E s \in frontier : SkipShare(s)
    \/ \E s \in frontier : DropState(s)
    \/ \E tip \in Shares, block \in Blocks : ApplyCheckpoint(tip, block)

Spec == Init /\ [][Next]_vars

-----------------------------------------------------------------------------
(* Properties.                                                             *)

\* The types of the maps of SharechainReplayState; no score leaves its width.
TypeOK ==
    /\ reg \in [Miners -> -1..MaxSeq]
    /\ accepted \subseteq Templates
    /\ templates \in [Templates -> Miners \cup {NoAuthor}]
    /\ stored \subseteq Shares
    /\ score \in [Shares -> 0..MaxScore]
    /\ height \in [Shares -> Nat]
    /\ best \in Shares \cup {NoTip}
    /\ active \subseteq stored
    /\ total \in Nat
    /\ hashrate \in [Miners -> Nat]
    /\ checkpoints \in Seq([tip : Shares, block : Blocks])
    /\ frontier \subseteq stored

\* The active set is exactly the branch of the best tip, down to the root,
\* and the total and every miner's hashrate score are the work on it, however
\* the branch was built: extended share by share or rebuilt on a reorg.
BranchAccounting ==
    /\ best = NoTip => active = {}
    /\ best # NoTip => best \in Resolved /\ active = Branch(stored, best)
    /\ total = Work(active)
    /\ \A m \in Miners : hashrate[m] = Work(MinedBy(active, m))

\* A resolved share's score is all the work on its branch, although it was
\* computed incrementally and possibly long after the share arrived.
ScoreIsBranchWork ==
    \A s \in Resolved : score[s] = Work(Branch(stored, s))

\* The shares from which the walk reaches the root.
Connected ==
    {s \in stored : \E r \in Branch(stored, s) : Parent[r] = Root}

Heavier(a, b) ==
    LET wa == Work(Branch(stored, a))
        wb == Work(Branch(stored, b))
    IN  wa > wb \/ (wa = wb /\ a < b)

\* The outcome is a function of the set of shares received, not of the order
\* they came in: whenever no message is being applied, exactly the shares
\* connected to the root are resolved, late parents included, and until a
\* checkpoint exists the tip is the connected share with the most work on its
\* branch, the smallest hash winning a tie.
OrderIndependent ==
    Idle =>
        /\ Resolved = Connected
        /\ checkpoints = <<>> =>
              /\ best = NoTip <=> Connected = {}
              /\ \A s \in Connected \ {best} : Heavier(best, s)

\* Once a checkpoint exists only the latest finalized tip and its branch
\* count for payouts: heavier work found later stays pending.
OnlyFinalizedWorkCounts ==
    checkpoints # <<>> => best = Latest.tip /\ total = score[best]

\* Finalized tips lie on one branch, in round order.
CheckpointsNest ==
    \A i, j \in 1..Len(checkpoints) :
        i < j => checkpoints[i].tip \in Branch(stored, checkpoints[j].tip)

\* What is finalized stays in the active branch whatever is applied later.
FinalizedBranchKept ==
    [][checkpoints # <<>> /\ checkpoints' # <<>>
          => Branch(stored, Latest.tip) \subseteq active']_vars

\* Under a bound anchor policy the anchors strictly increase from the root
\* on every branch mined before the handoff, so no Idena block is used twice
\* on a branch, by one miner or by two.
BootstrapAnchorsIncrease ==
    AnchorPolicy =>
        \A s \in stored :
            (\A a \in Branch(stored, s) : TemplateOf[a] \in Bootstrap)
                => \A a \in Branch(stored, s) \ {s} :
                      AnchorOf[TemplateOf[a]] < AnchorOf[TemplateOf[s]]

\* The accounting of the active branch, and the scores it rests on.
AccountingSound == BranchAccounting /\ ScoreIsBranchWork

\* What checkpoints finalize.
CheckpointsSound == OnlyFinalizedWorkCounts /\ CheckpointsNest
=============================================================================
