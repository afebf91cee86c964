----------------------------- MODULE GossipSync -----------------------------
(***************************************************************************)
(* A node that pulls messages from a peer (sync_gossip_from_peer and       *)
(* fetch_append_gossip_envelope_and_missing_parents of p2p_node.rs), while *)
(* both also receive live envelopes.                                       *)
(*                                                                         *)
(* An envelope older than the limit, or of a miner who is no longer        *)
(* eligible, is accepted only as part of the history of a checkpoint the   *)
(* node has verified with its own Idena node.  The peer offers what it has *)
(* newest first; the node fetches missing registrations, templates and     *)
(* parents before the message that needs them.                             *)
(***************************************************************************)
EXTENDS Integers, Sequences, FiniteSets, SequencesExt

CONSTANTS
    Message,          \* the messages: kind, miner, template, parent, created, ...
    Genesis,          \* what the peer's log holds when the node joins
    Direct,           \* messages the node receives live from elsewhere
    Miners,
    MaxAge,           \* max_age_seconds
    InventoryLimit,
    MaxParentDepth,   \* MAX_SHARE_PARENT_FETCH_DEPTH
    MaxExtraParents,  \* MAX_EXTRA_SHARE_PARENT_FETCHES_PER_SYNC
    MaxRegistrations, MaxTemplates,   \* fetches per sync
    MaxTime,          \* bound on the clock
    MaxLost,          \* bound on requests that fail
    MaxLapses,        \* bound on identities that lose their eligibility
    None

Ids == DOMAIN Message
Root == 0             \* ZERO_SHARE_PARENT_HASH

VARIABLES
    log, peerLog,     \* the messages of the node and of its peer, in log order
    now,
    eligible,         \* miners whose identity is eligible at present
    final,            \* finalized checkpoints, as the node's own Idena node reports
    peerFinal,        \* and as the peer's does
    sync,             \* the running sync
    late,             \* messages accepted though old or no longer eligible
    lost

vars == <<log, peerLog, now, eligible, final, peerFinal, sync, late, lost>>

Init ==
    /\ log = <<>> /\ peerLog = Genesis
    /\ now = 0 /\ eligible = Miners /\ final = {} /\ peerFinal = {}
    /\ sync = None /\ late = {} /\ lost = 0

-----------------------------------------------------------------------------
(* What a log holds *)

Has(l, m) == m \in ToSet(l)

OfKind(l, kind) == {m \in ToSet(l) : Message[m].kind = kind}

Registered(l) == {Message[m].miner : m \in OfKind(l, "registration")}

\* The share and its ancestors, as far as the log has them.
Ancestry(l, s) ==
    LET Up[m \in Ids \cup {Root}] ==
            IF ~Has(l, m) THEN {} ELSE {m} \cup Up[Message[m].parent]
    IN  Up[s]

Resolved(l, s) == \E m \in Ancestry(l, s) : Message[m].parent = Root

-----------------------------------------------------------------------------
(* Admission and replay of one message *)

\* verify_at
Fresh(m) == now - Message[m].created <= MaxAge

\* verify_durable_at: signed, and not from the future.
Authentic(m) == Message[m].created <= now

\* A live message needs a miner whose identity is eligible now.
Eligible(m, historical) == historical \/ Message[m].miner \in eligible

AdmitsTemplate(l, m, historical) ==
    Message[m].miner \in Registered(l) /\ Eligible(m, historical)

AdmitsShare(l, m, historical) ==
    /\ Message[m].miner \in Registered(l) /\ Has(l, Message[m].template)
    /\ Eligible(m, historical)

AdmitsCheckpoint(l, m, finalized) ==
    m \in finalized /\ Message[m].miners \subseteq Registered(l)

\* admit_gossip_bitcoin_material
Admits(l, m, finalized, historical) ==
    /\ Authentic(m)
    /\ CASE Message[m].kind = "registration" -> Eligible(m, historical)
         [] Message[m].kind = "template" -> AdmitsTemplate(l, m, historical)
         [] Message[m].kind = "share" -> AdmitsShare(l, m, historical)
         [] OTHER -> AdmitsCheckpoint(l, m, finalized)

\* apply_sharechain_checkpoint: the next round, exactly the registered miners,
\* a tip that descends from the one before.
CheckpointApplies(l, m) ==
    /\ Message[m].round = Cardinality(OfKind(l, "checkpoint")) + 1
    /\ Registered(l) = Message[m].miners
    /\ Resolved(l, Message[m].parent)
    /\ \A c \in OfKind(l, "checkpoint") : Message[c].parent \in Ancestry(l, Message[m].parent)

Applies(l, m) ==
    CASE Message[m].kind = "checkpoint" -> CheckpointApplies(l, m)
      [] Message[m].kind = "share" ->
            Message[m].parent = Root => \A s \in OfKind(l, "share") : Message[s].parent # Root
      [] OTHER -> TRUE

\* append_live_gossip_envelope_after_template_admission
LiveAccepts(l, m, finalized) ==
    Fresh(m) /\ Admits(l, m, finalized, FALSE) /\ (Has(l, m) \/ Applies(l, m))

\* append_..._with_authorization, under a checkpoint
HistoricalAccepts(l, m) == Admits(l, m, final, TRUE) /\ (Has(l, m) \/ Applies(l, m))

Accepts(l, m, authorized) ==
    IF authorized THEN HistoricalAccepts(l, m) ELSE LiveAccepts(l, m, final)

Appended(l, m) == IF Has(l, m) THEN l ELSE Append(l, m)

-----------------------------------------------------------------------------
(* Live traffic, the clock, the identity chain *)

Submit(m) ==
    /\ ~Has(log, m) /\ LiveAccepts(log, m, final)
    /\ log' = Append(log, m)
    /\ UNCHANGED <<peerLog, now, eligible, final, peerFinal, sync, late, lost>>

SubmitToPeer(m) ==
    /\ ~Has(peerLog, m) /\ LiveAccepts(peerLog, m, peerFinal)
    /\ peerLog' = Append(peerLog, m)
    /\ UNCHANGED <<log, now, eligible, final, peerFinal, sync, late, lost>>

Tick ==
    /\ now < MaxTime
    /\ now' = now + 1
    /\ UNCHANGED <<log, peerLog, eligible, final, peerFinal, sync, late, lost>>

LoseEligibility(w) ==
    /\ w \in eligible /\ Cardinality(Miners \ eligible) < MaxLapses
    /\ eligible' = eligible \ {w}
    /\ UNCHANGED <<log, peerLog, now, final, peerFinal, sync, late, lost>>

\* The contract finalizes a checkpoint of the peer's branch; the node's own
\* Idena node may lag.
Finalize(c) ==
    /\ Message[c].kind = "checkpoint" /\ c \notin peerFinal
    /\ Message[c].created <= now
    /\ Resolved(peerLog, Message[c].parent) /\ Registered(peerLog) = Message[c].miners
    /\ peerFinal' = peerFinal \cup {c}
    /\ UNCHANGED <<log, peerLog, now, eligible, final, sync, late, lost>>

Observe(c) ==
    /\ c \in peerFinal \ final
    /\ final' = final \cup {c}
    /\ UNCHANGED <<log, peerLog, now, eligible, peerFinal, sync, late, lost>>

-----------------------------------------------------------------------------
(* Dependencies *)

ShareParent(m) ==
    IF Message[m].kind \in {"share", "checkpoint"} THEN Message[m].parent ELSE Root

MinerDependencies(m) ==
    CASE Message[m].kind = "registration" -> {}
      [] Message[m].kind = "checkpoint" -> Message[m].miners
      [] OTHER -> {Message[m].miner}

-----------------------------------------------------------------------------
(* One sync *)

Clamp(n, low, high) == IF n < low THEN low ELSE IF n > high THEN high ELSE n

\* The peer's inventory, newest first, without what the node knows.
MutOffered == SelectSeq(peerLog, LAMBDA m : ~Has(log, m))
Offered == SelectSeq(Reverse(peerLog), LAMBDA m : ~Has(log, m))

Fetch(m, depth, authorized) ==
    [fetch |-> TRUE, message |-> m, depth |-> depth, authorized |-> authorized]
AppendAfterParent(m, authorized) ==
    [fetch |-> FALSE, message |-> m, depth |-> 0, authorized |-> authorized]

\* The inventory, and the budgets that depend on its size.
StartSync ==
    /\ sync = None /\ Offered # <<>>
    /\ LET offers == SubSeq(Offered, 1, Clamp(Len(Offered), 0, InventoryLimit))
       IN  sync' = [offers |-> offers, pending |-> <<>>, attempted |-> {},
                    known |-> ToSet(log),
                    parents |-> Clamp(4 * Len(offers), MaxParentDepth, MaxExtraParents),
                    registrations |-> MaxRegistrations,
                    templates |-> Clamp(2 * Len(offers), 1, MaxTemplates)]
    /\ UNCHANGED <<log, peerLog, now, eligible, final, peerFinal, late, lost>>

\* A message fetched and appended as a dependency: the state of a fetch is
\* the log, the budgets, what was accepted late, and whether it still goes on.
Take(state, m, authorized) ==
    IF state.ok /\ Accepts(state.log, m, authorized)
    THEN [state EXCEPT !.log = Appended(@, m),
                       !.known = @ \cup {m},
                       !.late = @ \cup IF Fresh(m) /\ Admits(state.log, m, final, FALSE)
                                       THEN {} ELSE {m} \ ToSet(state.log)]
    ELSE [state EXCEPT !.ok = FALSE]

RegistrationOf(w) == CHOOSE r \in Ids : Message[r].kind = "registration" /\ Message[r].miner = w

\* What the peer returns to a request by hash, by template, by miner.
PullEnvelope(m) == Has(peerLog, m)
PullTemplate(t) == Has(peerLog, t)
PullRegistration(w) == w \in Registered(peerLog)

\* fetch_append_missing_miner_registrations
FetchRegistration(state, w, authorized) ==
    IF ~state.ok \/ w \in Registered(state.log) THEN state
    ELSE IF state.registrations = 0 \/ ~PullRegistration(w) THEN [state EXCEPT !.ok = FALSE]
    ELSE Take([state EXCEPT !.registrations = @ - 1], RegistrationOf(w), authorized)

FetchRegistrations(state, m, authorized) ==
    FoldSeq(LAMBDA w, s : FetchRegistration(s, w, authorized), state,
            SetToSortSeq(MinerDependencies(m), LAMBDA v, w : v > w))

\* fetch_append_missing_bitcoin_work_template
FetchTemplate(state, m, authorized) ==
    LET t == Message[m].template
    IN  IF ~state.ok \/ Message[m].kind # "share" \/ Has(state.log, t) THEN state
        ELSE IF state.templates = 0 \/ ~PullTemplate(t) THEN [state EXCEPT !.ok = FALSE]
        ELSE Take(FetchRegistrations([state EXCEPT !.templates = @ - 1], t, authorized),
                  t, authorized)

\* checkpoint_replay_authorization: a finalized checkpoint authorizes its
\* history; a checkpoint that is not final stops the fetch.
MutAuthorization(m, inherited) == Message[m].kind = "checkpoint" \/ inherited
Authorization(m, inherited) ==
    IF Message[m].kind = "checkpoint" THEN m \in final ELSE inherited

State0 ==
    [log |-> log, known |-> sync.known, registrations |-> sync.registrations,
     templates |-> sync.templates, late |-> late, ok |-> TRUE]

Becomes(s, state) ==
    /\ sync' = s
    /\ log' = state.log /\ late' = state.late
    /\ UNCHANGED <<peerLog, now, eligible, final, peerFinal, lost>>

\* The next offer, with an authorization of its own.
NextOffer ==
    /\ sync # None /\ sync.pending = <<>> /\ sync.offers # <<>>
    /\ Becomes([sync EXCEPT !.offers = Tail(@),
                            !.pending = <<Fetch(Head(sync.offers), 0, FALSE)>>], State0)

Top == Last(sync.pending)

Popped == [sync EXCEPT !.pending = Front(@)]

Running(fetch) == sync # None /\ sync.pending # <<>> /\ Top.fetch = fetch

Available(item) ==
    IF item.depth = 0 THEN item.message \in sync.known ELSE Has(log, item.message)

\* An attempt without authorization does not stand for one with it.
MutAttempt == <<Top.message, TRUE>>
Attempt == <<Top.message, Top.authorized>>

\* Nothing to fetch, or a limit reached.
SkipFetch ==
    /\ Running(TRUE)
    /\ \/ Available(Top) \/ Attempt \in sync.attempted
       \/ Top.depth > 0 /\ sync.parents = 0
    /\ Becomes([Popped EXCEPT !.attempted =
                    IF Available(Top) THEN @ ELSE @ \cup {Attempt}], State0)

Spent ==
    [Popped EXCEPT !.attempted = @ \cup {Attempt},
                   !.parents = IF Top.depth > 0 THEN @ - 1 ELSE @]

Proceeds ==
    /\ Running(TRUE) /\ ~Available(Top) /\ Attempt \notin sync.attempted
    /\ Top.depth > 0 => sync.parents > 0

\* A message that is where it belongs, and a checkpoint that is final.
Fetchable(item, authorized) ==
    /\ PullEnvelope(item.message)
    /\ item.depth > 0 => Message[item.message].kind = "share"
    /\ Message[item.message].kind = "checkpoint" => authorized

\* The dependencies are taken, then either the message itself, or it waits for
\* its parent.
FetchMessage ==
    /\ Proceeds
    /\ \E m \in {Top.message}, authorized \in {Authorization(Top.message, Top.authorized)} :
       \E known \in {FetchRegistrations([State0 EXCEPT !.ok = Fetchable(Top, authorized)],
                                       m, authorized)} :
       \E ready \in {FetchTemplate(known, m, authorized)} :
       \E waits \in {ShareParent(m) # Root /\ ~Has(ready.log, ShareParent(m))} :
       \E state \in {IF ready.ok /\ ~waits THEN Take(ready, m, authorized) ELSE ready} :
          Becomes([Spent EXCEPT
                     !.known = state.known,
                     !.registrations = state.registrations, !.templates = state.templates,
                     !.pending = IF ready.ok /\ waits /\ Top.depth < MaxParentDepth
                                 THEN @ \o <<AppendAfterParent(m, authorized),
                                             Fetch(ShareParent(m), Top.depth + 1, authorized)>>
                                 ELSE @],
                  state)

\* The request gets no answer; the item is dropped.
LoseFetch ==
    /\ Proceeds /\ lost < MaxLost
    /\ sync' = Spent /\ lost' = lost + 1
    /\ UNCHANGED <<log, peerLog, now, eligible, final, peerFinal, late>>

\* The child of a parent that was fetched, or was not accepted.
MutAppendChild ==
    /\ Running(FALSE)
    /\ \E state \in {Take(State0, Top.message, TRUE)} :
          Becomes([Popped EXCEPT !.known = state.known], state)
AppendChild ==
    /\ Running(FALSE)
    /\ \E state \in {IF Has(log, ShareParent(Top.message))
                     THEN Take(State0, Top.message, Top.authorized) ELSE State0} :
          Becomes([Popped EXCEPT !.known = state.known], state)

EndSync ==
    /\ sync # None /\ sync.pending = <<>> /\ sync.offers = <<>>
    /\ sync' = None
    /\ UNCHANGED <<log, peerLog, now, eligible, final, peerFinal, late, lost>>

SyncStep ==
    StartSync \/ NextOffer \/ SkipFetch \/ FetchMessage \/ AppendChild \/ EndSync

Next ==
    \/ \E m \in Direct : Submit(m)
    \/ \E m \in Ids : SubmitToPeer(m) \/ Finalize(m) \/ Observe(m)
    \/ Tick
    \/ \E w \in Miners : LoseEligibility(w)
    \/ SyncStep
    \/ LoseFetch

\* The peer loop starts a round on every tick of its timer and a task runs to
\* its end; the node's Idena node follows its chain.
Spec ==
    /\ Init /\ [][Next]_vars
    /\ WF_vars(SyncStep)
    /\ WF_vars(\E c \in Ids : Observe(c))

-----------------------------------------------------------------------------
\* The messages a checkpoint commits to: its registrations, its ancestry and
\* the templates of its ancestry.
History(c) ==
    LET shares == Ancestry(peerLog, Message[c].parent)
    IN  {c} \cup shares \cup {Message[s].template : s \in shares}
          \cup {RegistrationOf(w) : w \in Message[c].miners \cup {Message[s].miner : s \in shares}}

\* What the node accepts although it is too old or its miner not eligible any
\* more belongs to the history of a finalized checkpoint, whatever else the
\* same sync fetched (idena-miner-registry.md, "only that checkpoint's exact
\* hash-linked share and template dependencies may replay").
LateIsCheckpointed == \A m \in late : \E c \in final : m \in History(c)

\* A share the node did not receive live has its parent in the log before it.
FetchedInOrder ==
    \A k \in DOMAIN log :
        log[k] \in late /\ ShareParent(log[k]) # Root
            => \E j \in 1..(k - 1) : log[j] = ShareParent(log[k])

\* Again and again nothing is missing of what the peer has and the node would
\* append live with its parent already there, however many requests were lost.
Supplied ==
    \A m \in Ids :
        \/ Has(log, m) \/ ~Has(peerLog, m) \/ ~LiveAccepts(log, m, final)
        \/ ShareParent(m) # Root /\ ~Has(log, ShareParent(m))
Spreads == []<>Supplied

\* A finalized checkpoint of the peer, whose registrations and ancestry the
\* node fetches first, is eventually applied by the node.
Checkpoints == {c \in Ids : Message[c].kind = "checkpoint"}
Final(c) == Has(peerLog, c) /\ c \in final
Applied(c) == Has(log, c)
CheckpointReplayed == \A c \in Checkpoints : Final(c) ~> Applied(c)

\* A sync appends old messages only as a finalized checkpoint's history, parents first.
SyncSound == LateIsCheckpointed /\ FetchedInOrder
=============================================================================
