------------------------------ MODULE NodeStore ------------------------------
(***************************************************************************)
(* The bindings of a P2Pool datadir and the logs they govern               *)
(* (crates/p2pool-node/src/local_node.rs).  A datadir is bound to a gossip *)
(* network, to an Idena anchor policy and to a share-work policy, each at  *)
(* most once; the accepted-template log, the sharechain log and the gossip *)
(* envelope log only take what the bindings allow.                         *)
(*                                                                         *)
(* Several processes work on one datadir.  What runs under the append lock *)
(* is one step here; ShareLog has the lock and the torn writes.  The       *)
(* envelope cache of a process is filled by threads that hold no lock.     *)
(*                                                                         *)
(* A message is a record: its kind, the miner it is about, the template a  *)
(* share was mined on, the anchor policy and the work policy it satisfies, *)
(* whether its template binds the share target, and its size.              *)
(***************************************************************************)
EXTENDS Integers, FiniteSets, Sequences, SequencesExt

CONSTANTS
    None,
    Processes,      \* processes on the datadir
    Messages,       \* sharechain messages
    Envelopes,      \* gossip envelopes: message, peer, network
    Networks,       \* network ids
    AnchorPolicies,
    WorkPolicies,   \* records: id, network, experiment
    MaxEnvelopes,   \* MAX_PERSISTED_GOSSIP_ENVELOPES
    MaxPerPeer,     \* MAX_PERSISTED_GOSSIP_ENVELOPES_PER_PEER
    MaxLogSize,     \* MAX_PERSISTED_SHARECHAIN_LOG_BYTES
    MaxRecord       \* MAX_PERSISTED_GOSSIP_RECORD_BYTES

VARIABLES
    network,    \* the network id file: None, a network or "torn"
    anchor,     \* the bound Idena anchor policy
    work,       \* the bound share-work policy
    templates,  \* the accepted-template log
    log,        \* the sharechain log
    envelopes,  \* the gossip envelope log
    indexed,    \* the index file has been written
    replay,     \* per process its ReplayCacheEntry, or None
    cache,      \* per process its GossipEnvelopeCacheEntry, or None
    reading     \* per process the envelopes a thread has read and not stored

bindings == <<network, anchor, work>>
logs == <<templates, log, envelopes, indexed>>
caches == <<replay, cache, reading>>
vars == <<bindings, logs, caches>>

-----------------------------------------------------------------------------
(* The replay state: accepted templates and messages applied so far.       *)

Replayed(accepted, applied) == [accepted |-> accepted, applied |-> applied]

OfKind(st, kind) == {m \in ToSet(st.applied) : m.kind = kind}

\* The registration of a miner is the last one applied.
Registrations(st, miner) ==
    SelectSeq(st.applied, LAMBDA m : m.kind = "registration" /\ m.miner = miner)
Registration(st, miner) == Last(Registrations(st, miner))
Registered(st, miner) == Registrations(st, miner) # <<>>

TemplateOf(st, share) == {t \in OfKind(st, "template") : t.id = share.template}

\* Only a registration that adds or renews a registry anchor may follow.
RegistrationUpgrade(old, new) ==
    /\ new.anchor # None
    /\ old.anchor # None => old.anchor = new.anchor /\ new.seq > old.seq

\* validate_idena_anchor_policy
AnchorPolicyHolds(st, m, policy) ==
    /\ m.kind \in {"registration", "template", "share", "checkpoint"}
          => m.anchor = policy
    /\ m.kind = "template" =>
          /\ Registered(st, m.miner)
          /\ Registration(st, m.miner).anchor = policy
    /\ m.kind = "share" => TemplateOf(st, m) # {}

\* validate_share_work_binding_policy
WorkPolicyHolds(st, m, policy) ==
    m.kind = "share" => TemplateOf(st, m) # {} /\ m.binding = policy.id

BoundPoliciesHold(st, m, anchorPolicy, workPolicy) ==
    /\ anchorPolicy # None => AnchorPolicyHolds(st, m, anchorPolicy)
    /\ workPolicy # None => WorkPolicyHolds(st, m, workPolicy)

\* validate_target_bound_message
TargetBound(st, m) ==
    /\ m.kind = "template" => m.targetBound
    /\ m.kind = "share" =>
          TemplateOf(st, m) # {} /\ \A t \in TemplateOf(st, m) : t.targetBound

\* apply_message succeeds; a duplicate changes nothing.
Applicable(st, m) ==
    \/ m \in ToSet(st.applied)
    \/ /\ m.kind = "registration" /\ Registered(st, m.miner)
             => RegistrationUpgrade(Registration(st, m.miner), m)
       /\ m.kind \in {"template", "share", "vote"} => Registered(st, m.miner)
       /\ m.kind = "template" => m.id \in ToSet(st.accepted)
       /\ m.kind = "share" => TemplateOf(st, m) # {}

Apply(st, m) ==
    IF m \in ToSet(st.applied) THEN st ELSE [st EXCEPT !.applied = Append(@, m)]

\* Messages replay one after the other onto a state.
Replays(st, messages, anchorPolicy, workPolicy) ==
    \A i \in 1..Len(messages) :
        LET before == Replayed(st.accepted,
                               st.applied \o SubSeq(messages, 1, i - 1))
        IN  /\ BoundPoliciesHold(before, messages[i], anchorPolicy, workPolicy)
            /\ Applicable(before, messages[i])

-----------------------------------------------------------------------------
(* The replay cache: a replay state and how many templates its stamp of the  *)
(* template log stands for.  Both logs only grow.                          *)

\* build_replay_cache_entry_with_policy
Built == [accepted |-> templates, applied |-> log, seen |-> Len(templates)]

\* refresh_replay_cache_entry: what was appended since the stamps, templates
\* first.
Refreshed(st) ==
    [accepted |-> st.accepted \o SubSeq(templates, st.seen + 1, Len(templates)),
     applied |-> log,
     seen |-> Len(templates)]

\* The entry append_message_locked works on, and whether loading it fails.
Loaded(p) == IF replay[p] = None THEN Built ELSE Refreshed(replay[p])
Loadable(p) ==
    IF replay[p] = None
    THEN Replays(Replayed(templates, <<>>), log, anchor, work)
    ELSE LET st == replay[p]
         IN  Replays(Replayed(Refreshed(st).accepted, st.applied),
                     SubSeq(log, Len(st.applied) + 1, Len(log)), anchor, work)

-----------------------------------------------------------------------------
Init ==
    /\ network = None /\ anchor = None /\ work = None
    /\ templates = <<>> /\ log = <<>> /\ envelopes = <<>>
    /\ indexed = FALSE
    /\ replay = [p \in Processes |-> None]
    /\ cache = [p \in Processes |-> None]
    /\ reading = [p \in Processes |-> None]

\* gossip_network_id: every reader of the file fails on a torn one.
NetworkReadable == network # "torn"

(* Binding.                                                                *)


Unused == templates = <<>> /\ log = <<>> /\ envelopes = <<>> /\ ~indexed

\* initialize_gossip_network: the file is created, then written; a process
\* that dies between the two leaves it empty.
InitializeGossipNetwork(n) ==
    /\ network = None
    /\ Unused
    /\ network' \in {n, "torn"}
    /\ UNCHANGED <<anchor, work, logs, caches>>

\* audit_sharechain_with_*: one policy at a time, over the whole log.
Audited(anchorPolicy, workPolicy) ==
    Replays(Replayed(templates, <<>>), log, anchorPolicy, workPolicy)

\* bind_idena_anchor_policy; the process drops its replay cache.
BindIdenaAnchorPolicy(p, policy) ==
    /\ anchor \in {None, policy}
    /\ Audited(policy, None)
    /\ anchor' = policy
    /\ replay' = [replay EXCEPT ![p] = None]
    /\ UNCHANGED <<network, work, logs, cache, reading>>

\* bind_share_work_binding_policy: the network and the anchor policy first.
BindShareWorkPolicy(p, policy) ==
    /\ NetworkReadable
    /\ network = policy.network
    /\ anchor = policy.experiment
    /\ work \in {None, policy}
    /\ Audited(None, policy)
    /\ work' = policy
    /\ replay' = [replay EXCEPT ![p] = None]
    /\ UNCHANGED <<network, anchor, logs, cache, reading>>

-----------------------------------------------------------------------------
(* Appending.                                                              *)

\* accept_bitcoin_work_template: the policies are not consulted.  The entry
\* of this process takes the template and the stamp of now, although it may
\* have missed templates that another process accepted before.
AcceptTemplate(p, t) ==
    /\ NetworkReadable
    /\ network # None => t.targetBound
    /\ t.id \notin ToSet(templates)
    /\ t.size <= MaxRecord
    /\ templates' = Append(templates, t.id)
    /\ replay' =
          IF replay[p] = None THEN replay
          ELSE [replay EXCEPT ![p].accepted = Append(@, t.id),
                              ![p].seen = Len(templates')]
    /\ UNCHANGED <<bindings, log, envelopes, indexed, cache, reading>>

Size(messages) == FoldLeft(LAMBDA n, m : n + m.size, 0, messages)

\* Mutant: the policies in force when the entry was built are used.
MutAppendable(p, m) ==
    /\ Loadable(p)
    /\ network # None => TargetBound(Loaded(p), m)
    /\ replay[p] = None => BoundPoliciesHold(Loaded(p), m, anchor, work)
    /\ Applicable(Loaded(p), m)

\* The checks of append_message_locked, in its order.
Appendable(p, m) ==
    /\ Loadable(p)
    /\ network # None => TargetBound(Loaded(p), m)
    /\ BoundPoliciesHold(Loaded(p), m, anchor, work)
    /\ Applicable(Loaded(p), m)

\* append_message_locked: an error leaves the process without an entry.
AppendLocked(p, m) ==
    /\ Appendable(p, m)
    /\ LET st == Apply(Loaded(p), m)
       IN  /\ log' = st.applied
           /\ replay' = [replay EXCEPT ![p] = st]
    /\ indexed' = TRUE

RefuseMessage(p, m) ==
    /\ ~Appendable(p, m)
    /\ replay' = [replay EXCEPT ![p] = None]
    /\ UNCHANGED <<log, indexed>>

\* append_message, for the command line: no limits apply.
AppendMessage(p, m) ==
    /\ NetworkReadable
    /\ AppendLocked(p, m) \/ RefuseMessage(p, m)
    /\ UNCHANGED <<bindings, templates, envelopes, cache, reading>>

\* verify_gossip_network_binding
NetworkBound(e) == e.network = network

HasEnvelope(s, id) == \E i \in 1..Len(s) : s[i].message.id = id

\* Mutant: the cached envelopes are asked.
MutEnvelopeExists(p, e) ==
    IF cache[p] # None /\ cache[p].stamp = envelopes
    THEN HasEnvelope(cache[p].envelopes, e.message.id)
    ELSE HasEnvelope(envelopes, e.message.id)

\* stored_gossip_envelope_exists_locked reads the log itself.
EnvelopeExists(p, e) == HasEnvelope(envelopes, e.message.id)

\* validate_gossip_persistence_limits
WithinLimits(e) ==
    /\ Len(envelopes) < MaxEnvelopes
    /\ Len(SelectSeq(envelopes, LAMBDA x : x.peer = e.peer)) < MaxPerPeer
    /\ e.message.size <= MaxRecord
    /\ Size(log) + e.message.size <= MaxLogSize

Entry(stamp, s) == [stamp |-> stamp, envelopes |-> s]

\* append_gossip_envelope: the message, then its envelope unless it is
\* there.  The forced reads refill the cache of this process.
AppendEnvelope(p, e) ==
    /\ NetworkReadable
    /\ NetworkBound(e)
    /\ ~EnvelopeExists(p, e) => WithinLimits(e)
    /\ \/ /\ AppendLocked(p, e.message)
          /\ envelopes' = IF EnvelopeExists(p, e) THEN envelopes
                                                  ELSE Append(envelopes, e)
       \/ /\ RefuseMessage(p, e.message)
          /\ UNCHANGED envelopes
    /\ cache' = [cache EXCEPT ![p] = Entry(envelopes', envelopes')]
    /\ UNCHANGED <<bindings, templates, reading>>

\* The process dies after the message and before its envelope.
CrashBeforeEnvelope(p, e) ==
    /\ NetworkReadable
    /\ NetworkBound(e)
    /\ ~EnvelopeExists(p, e)
    /\ WithinLimits(e)
    /\ Appendable(p, e.message)
    /\ log' = Apply(Loaded(p), e.message).applied
    /\ indexed' = TRUE
    /\ replay' = [replay EXCEPT ![p] = None]
    /\ cache' = [cache EXCEPT ![p] = None]
    /\ reading' = [reading EXCEPT ![p] = None]
    /\ UNCHANGED <<bindings, templates, envelopes>>

-----------------------------------------------------------------------------
(* Reading without the lock.                                               *)

\* sharechain_index: the index file is written even for an empty log.
ReadIndex ==
    /\ ~indexed
    /\ Replays(Replayed(templates, <<>>), log, anchor, work)
    /\ indexed' = TRUE
    /\ UNCHANGED <<bindings, templates, log, envelopes, caches>>

CacheFresh(p) == cache[p] # None /\ cache[p].stamp = envelopes

\* gossip_inventory, gossip_envelope_by_*: read_gossip_envelopes_uncached.
ReadEnvelopes(p) ==
    /\ NetworkReadable
    /\ reading[p] = None
    /\ ~CacheFresh(p)
    /\ reading' = [reading EXCEPT ![p] = Entry(envelopes, envelopes)]
    /\ UNCHANGED <<bindings, logs, replay, cache>>

\* The stamp is taken after the read and may be newer than the content.
StoreEnvelopes(p) ==
    /\ reading[p] # None
    /\ cache' = [cache EXCEPT ![p] = Entry(envelopes, reading[p].envelopes)]
    /\ reading' = [reading EXCEPT ![p] = None]
    /\ UNCHANGED <<bindings, logs, replay>>

-----------------------------------------------------------------------------
Next ==
    \/ \E n \in Networks : InitializeGossipNetwork(n)
    \/ ReadIndex
    \/ \E p \in Processes :
          \/ \E a \in AnchorPolicies : BindIdenaAnchorPolicy(p, a)
          \/ \E w \in WorkPolicies : BindShareWorkPolicy(p, w)
          \/ \E t \in {m \in Messages : m.kind = "template"} : AcceptTemplate(p, t)
          \/ \E m \in Messages : AppendMessage(p, m)
          \/ \E e \in Envelopes : AppendEnvelope(p, e) \/ CrashBeforeEnvelope(p, e)
          \/ ReadEnvelopes(p)
          \/ StoreEnvelopes(p)

Spec == Init /\ [][Next]_vars

-----------------------------------------------------------------------------
(* Properties.                                                             *)

\* Whatever the order in which processes bind policies and append, the whole
\* log replays under the policies bound now (bind_*_policy audits what is
\* there, append_message_locked reads the policies under the lock), and in a
\* datadir of a network every template and share binds the share target and
\* every envelope names the network.
StoreFollowsBindings ==
    /\ Replays(Replayed(templates, <<>>), log, anchor, work)
    /\ network # None =>
          \A i \in 1..Len(log) :
              TargetBound(Replayed(templates, SubSeq(log, 1, i)), log[i])
    /\ \A i \in 1..Len(envelopes) : envelopes[i].network = network

\* Every record of the envelope log belongs to a logged message, no message
\* has two, and neither the log nor one signing key passes its limit, although
\* readers leave stale caches behind.
EnvelopesAccounted ==
    /\ \A i, j \in 1..Len(envelopes) :
          /\ envelopes[i].message \in ToSet(log)
          /\ envelopes[i].message.id = envelopes[j].message.id => i = j
    /\ Len(envelopes) <= MaxEnvelopes
    /\ \A i \in 1..Len(envelopes) :
          Len(SelectSeq(envelopes, LAMBDA x : x.peer = envelopes[i].peer)) <= MaxPerPeer

\* An envelope cache whose stamp is the log's shows the whole log.
CacheShowsLog == \A p \in Processes : CacheFresh(p) => cache[p].envelopes = envelopes

\* The files of a node agree with its bindings and with each other.
StoreSound == StoreFollowsBindings /\ EnvelopesAccounted
=============================================================================
