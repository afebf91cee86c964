------------------------------- MODULE ShareLog -------------------------------
(***************************************************************************)
(* The datadir of a P2Pool node (crates/p2pool-node/src/local_node.rs):    *)
(* the append-only sharechain log, the lock that serialises appends, the   *)
(* replay cache of each process, the index file and the gossip envelopes.  *)
(*                                                                         *)
(* Several processes append (the gossip node, the Stratum adapter, the     *)
(* command line) and several read without the lock.  A record is written   *)
(* in pieces and its newline last, so a process that dies leaves an        *)
(* incomplete record, or a complete one without its newline.               *)
(*                                                                         *)
(* The log is a sequence of tokens: a message stands for a complete JSON   *)
(* document, Cut for an incomplete one, NL for a newline.  A file's stamp  *)
(* (length and modification time) is the content the file had.             *)
(***************************************************************************)
EXTENDS Integers, FiniteSets, Sequences, SequencesExt

CONSTANTS
    Messages,
    Needs,       \* messages that must be applied before a message
    Guarded,     \* messages the anchor policy refuses to validate twice
    Processes,   \* processes that append
    Readers,     \* threads that read without the lock
    Cut, NL, Junk, None,
    FailPoints,  \* where a write may fail: "cut", "whole"
    MaxFailures  \* bound: failed writes and crashes

Tokens == Messages \cup {Cut, NL, Junk}

VARIABLES
    log,        \* sharechain.ndjson
    envelopes,  \* messages with a record in the gossip envelope log
    lock,       \* owner of the append lock: a process, "dead" or None
    pc,         \* where each process is in append_gossip_envelope
    msg,        \* the message it is appending
    cache,      \* its ReplayCacheEntry: the log's stamp and the messages applied
    index,      \* the index file: the log's stamp and the messages it shows
    reading,    \* the content a reader has loaded, None when it is idle
    cutting,    \* readers about to cut a torn tail
    failures    \* failed writes so far

readVars == <<reading, cutting>>
vars == <<log, envelopes, lock, pc, msg, cache, index, readVars, failures>>

-----------------------------------------------------------------------------
(* Parsing.                                                                *)

AtLineStart(f, i) == i > 1 => f[i - 1] = NL
AtLineEnd(f, i) == i < Len(f) => f[i + 1] = NL

\* The last line is an incomplete document: serde_json reports Eof.
Torn(f) == f # <<>> /\ f[Len(f)] = Cut /\ AtLineStart(f, Len(f))

\* Some line holds something else than one complete document.
Unreadable(f) ==
    \E i \in 1..Len(f) :
        /\ f[i] # NL
        /\ ~(f[i] \in Messages /\ AtLineStart(f, i) /\ AtLineEnd(f, i))
        /\ ~(i = Len(f) /\ Torn(f))

Records(f) == SelectSeq(f, LAMBDA x : x \in Messages)

\* Replaying a sequence of messages raises no error.
Replays(s) ==
    \A i \in 1..Len(s) :
        LET before == {s[j] : j \in 1..(i - 1)}
        IN  Needs[s[i]] \subseteq before /\ s[i] \notin Guarded \cap before

\* set_len: a longer length than the file's fills it with zero bytes.
SetLen(f, n) == [i \in 1..n |-> IF i <= Len(f) THEN f[i] ELSE Junk]

-----------------------------------------------------------------------------
Init ==
    /\ log = <<>>
    /\ envelopes = {}
    /\ lock = None
    /\ pc = [p \in Processes |-> "idle"]
    /\ msg = [p \in Processes |-> None]
    /\ cache = [p \in Processes |-> None]
    /\ index = None
    /\ reading = [r \in Readers |-> None]
    /\ cutting = {}
    /\ failures = 0

Entry(stamp, applied) == [stamp |-> stamp, applied |-> applied]

(* Appending, by a process that holds the lock.                            *)

Begin(p, m) ==
    /\ pc[p] = "idle"
    /\ lock = None
    /\ lock' = p
    /\ msg' = [msg EXCEPT ![p] = m]
    /\ pc' = [pc EXCEPT ![p] = "locked"]
    /\ UNCHANGED <<log, envelopes, cache, index, readVars, failures>>

\* The lock of a process that died is removed once it is old enough.
ClearStaleLock ==
    /\ lock = "dead"
    /\ lock' = None
    /\ UNCHANGED <<log, envelopes, pc, msg, cache, index, readVars, failures>>

\* The cache entry was taken out of the map, and an error does not put it
\* back; the lock guard is dropped.
Abort(p) ==
    /\ pc' = [pc EXCEPT ![p] = "idle"]
    /\ msg' = [msg EXCEPT ![p] = None]
    /\ cache' = [cache EXCEPT ![p] = None]
    /\ lock' = IF lock = p THEN None ELSE lock

\* The log changed in another way than by growing.
MustRebuild(p) ==
    \/ cache[p] = None
    \/ Len(log) < Len(cache[p].stamp)
    \/ Len(log) = Len(cache[p].stamp) /\ log # cache[p].stamp

NewTail(p) == SubSeq(log, Len(cache[p].stamp) + 1, Len(log))

\* read_ndjson_tail wants complete, terminated lines.
TailReadable(p) ==
    NewTail(p) = <<>> \/ (NewTail(p)[Len(NewTail(p))] = NL /\ ~Unreadable(NewTail(p)))

LoadFails(p) ==
    IF MustRebuild(p)
    THEN Unreadable(log)
    ELSE ~TailReadable(p)

\* Mutant: what other processes appended is not read.
MutLoaded(p) == IF MustRebuild(p) THEN Records(log) ELSE cache[p].applied

\* What replay or refresh leaves in the entry.
Loaded(p) ==
    IF MustRebuild(p)
    THEN Records(log)
    ELSE cache[p].applied \o Records(NewTail(p))

\* Mutant: the torn tail is skipped and stays in the file.
MutKeepTail(p) == log

\* Mutant: the line before the torn one is cut off, too.
MutCutTooMuch(p) ==
    IF MustRebuild(p) /\ Torn(log) THEN SubSeq(log, 1, Len(log) - 3) ELSE log

RepairedLog(p) == IF MustRebuild(p) /\ Torn(log) THEN Front(log) ELSE log

\* refresh or rebuild the entry; a rebuild repairs a torn tail.
Load(p) ==
    /\ pc[p] = "locked"
    /\ IF LoadFails(p) \/ ~Replays(Loaded(p))
       THEN /\ Abort(p)
            /\ UNCHANGED log
       ELSE /\ log' = RepairedLog(p)
            /\ cache' = [cache EXCEPT ![p] = Entry(log', Loaded(p))]
            /\ pc' = [pc EXCEPT ![p] = "loaded"]
            /\ UNCHANGED <<msg, lock>>
    /\ UNCHANGED <<envelopes, index, readVars, failures>>

Applied(p) == ToSet(cache[p].applied)

\* Mutant: a duplicate is an error.
MutRefuseDuplicate(p) ==
    LET m == msg[p]
    IN  /\ pc[p] = "loaded"
        /\ IF Needs[m] \subseteq Applied(p) /\ m \notin Applied(p)
           THEN /\ cache' = [cache EXCEPT ![p].applied = Append(@, m)]
                /\ pc' = [pc EXCEPT ![p] = "write"]
                /\ UNCHANGED <<msg, lock>>
           ELSE Abort(p)
        /\ UNCHANGED <<log, envelopes, index, readVars, failures>>

\* validate_bound_sharechain_policies runs before apply_message, which
\* ignores a duplicate.
Apply(p) ==
    LET m == msg[p]
    IN  /\ pc[p] = "loaded"
        /\ \/ /\ \/ ~(Needs[m] \subseteq Applied(p))
                 \/ m \in Guarded \cap Applied(p)
              /\ Abort(p)
           \/ /\ m \in Applied(p) \ Guarded
              /\ pc' = [pc EXCEPT ![p] = "synced"]
              /\ UNCHANGED <<msg, cache, lock>>
           \/ /\ m \notin Applied(p)
              /\ Needs[m] \subseteq Applied(p)
              /\ cache' = [cache EXCEPT ![p].applied = Append(@, m)]
              /\ pc' = [pc EXCEPT ![p] = "write"]
              /\ UNCHANGED <<msg, lock>>
        /\ UNCHANGED <<log, envelopes, index, readVars, failures>>

\* The pieces of a record, the last piece and the newline.
WriteCut(p) ==
    /\ pc[p] = "write"
    /\ log' = Append(log, Cut)
    /\ pc' = [pc EXCEPT ![p] = "cut"]
    /\ UNCHANGED <<envelopes, lock, msg, cache, index, readVars, failures>>

WriteWhole(p) ==
    /\ pc[p] = "cut"
    /\ log' = IF log # <<>> /\ log[Len(log)] = Cut
              THEN Append(Front(log), msg[p])
              ELSE Append(log, Junk)
    /\ pc' = [pc EXCEPT ![p] = "whole"]
    /\ UNCHANGED <<envelopes, lock, msg, cache, index, readVars, failures>>

WriteNewline(p) ==
    /\ pc[p] = "whole"
    /\ log' = Append(log, NL)
    /\ pc' = [pc EXCEPT ![p] = "synced"]
    /\ UNCHANGED <<envelopes, lock, msg, cache, index, readVars, failures>>

\* The new stamp, the index and the cache entry.
Publish(p) ==
    /\ pc[p] = "synced"
    /\ cache' = [cache EXCEPT ![p].stamp = log]
    /\ index' = Entry(log, cache[p].applied)
    /\ pc' = [pc EXCEPT ![p] = "envelope"]
    /\ UNCHANGED <<log, envelopes, lock, msg, readVars, failures>>

\* Mutant: the finished request is not cleared.
MutForgetReset(p) ==
    /\ pc[p] = "envelope"
    /\ envelopes' = envelopes \cup {msg[p]}
    /\ pc' = [pc EXCEPT ![p] = "idle"]
    /\ lock' = IF lock = p THEN None ELSE lock
    /\ UNCHANGED <<log, msg, cache, index, readVars, failures>>

\* The gossip envelope is recorded after the message, unless it is there.
StoreEnvelope(p) ==
    /\ pc[p] = "envelope"
    /\ envelopes' = envelopes \cup {msg[p]}
    /\ pc' = [pc EXCEPT ![p] = "idle"]
    /\ msg' = [msg EXCEPT ![p] = None]
    /\ lock' = IF lock = p THEN None ELSE lock
    /\ UNCHANGED <<log, cache, index, readVars, failures>>

\* A write to the log or the index fails, for want of space say: the call
\* returns an error.
WriteFails(p) ==
    /\ pc[p] \in FailPoints \cup {"synced"}
    /\ failures < MaxFailures
    /\ failures' = failures + 1
    /\ Abort(p)
    /\ UNCHANGED <<log, envelopes, index, readVars>>

\* The envelope cannot be written; the cache entry is back in the map.
EnvelopeFails(p) ==
    /\ pc[p] = "envelope"
    /\ failures < MaxFailures
    /\ failures' = failures + 1
    /\ pc' = [pc EXCEPT ![p] = "idle"]
    /\ msg' = [msg EXCEPT ![p] = None]
    /\ lock' = IF lock = p THEN None ELSE lock
    /\ UNCHANGED <<log, envelopes, cache, index, readVars>>

\* The process dies, anywhere but between pieces the run leaves out, and is
\* restarted; its lock stays behind.
Crash(p) ==
    /\ pc[p] \in FailPoints \cup {"locked", "loaded", "write", "synced",
                               "envelope"}
    /\ failures < MaxFailures
    /\ failures' = failures + 1
    /\ pc' = [pc EXCEPT ![p] = "idle"]
    /\ msg' = [msg EXCEPT ![p] = None]
    /\ cache' = [cache EXCEPT ![p] = None]
    /\ lock' = IF lock = p THEN "dead" ELSE lock
    /\ UNCHANGED <<log, envelopes, index, readVars>>

-----------------------------------------------------------------------------
(* Reading without the lock: sharechain_index with conservative repair.    *)

FreshIndex == index # None /\ index.stamp = log

\* A fresh index is returned as it is; otherwise the log is read.
Read(r) ==
    /\ reading[r] = None
    /\ ~FreshIndex
    /\ ~Unreadable(log)
    /\ reading' = [reading EXCEPT ![r] = log]
    /\ UNCHANGED <<log, envelopes, lock, pc, msg, cache, index, cutting,
                   failures>>

\* Mutant: a torn tail is always left to the next append.
MutNeverCut(r) ==
    /\ reading[r] # None
    /\ Torn(reading[r])
    /\ reading' = [reading EXCEPT ![r] = None]
    /\ UNCHANGED <<log, envelopes, lock, pc, msg, cache, index, cutting,
                   failures>>

\* The content has a torn tail.  An append lock makes this an error.
CheckLock(r) ==
    /\ reading[r] # None
    /\ Torn(reading[r])
    /\ r \notin cutting
    /\ IF lock = None
       THEN cutting' = cutting \cup {r} /\ UNCHANGED reading
       ELSE reading' = [reading EXCEPT ![r] = None] /\ UNCHANGED cutting
    /\ UNCHANGED <<log, envelopes, lock, pc, msg, cache, index, failures>>

\* The tail is quarantined and the log cut to the complete part of the
\* content.
CutTail(r) ==
    /\ r \in cutting
    /\ log' = SetLen(log, Len(reading[r]) - 1)
    /\ reading' = [reading EXCEPT ![r] = Front(reading[r])]
    /\ cutting' = cutting \ {r}
    /\ UNCHANGED <<envelopes, lock, pc, msg, cache, index, failures>>

\* The stamp is taken after the content was read.
WriteIndex(r) ==
    /\ reading[r] # None
    /\ ~Torn(reading[r])
    /\ index' = IF Replays(Records(reading[r]))
                THEN Entry(log, Records(reading[r]))
                ELSE index
    /\ reading' = [reading EXCEPT ![r] = None]
    /\ UNCHANGED <<log, envelopes, lock, pc, msg, cache, cutting, failures>>

-----------------------------------------------------------------------------
Step(p) ==
    \/ Load(p)
    \/ Apply(p)
    \/ WriteCut(p)
    \/ WriteWhole(p)
    \/ WriteNewline(p)
    \/ Publish(p)
    \/ StoreEnvelope(p)

ReadStep(r) == Read(r) \/ CheckLock(r) \/ CutTail(r) \/ WriteIndex(r)

Next ==
    \/ \E p \in Processes, m \in Messages : Begin(p, m)
    \/ ClearStaleLock
    \/ \E p \in Processes :
          Step(p) \/ WriteFails(p) \/ EnvelopeFails(p) \/ Crash(p)
    \/ \E r \in Readers : ReadStep(r)

Spec == Init /\ [][Next]_vars

\* Appends run to their end, and every message is delivered again and again
\* by peers, so that it is taken up whenever the lock is free.
RedeliverySpec ==
    /\ Spec
    /\ WF_vars(ClearStaleLock)
    /\ \A p \in Processes : WF_vars(Step(p))
    /\ \A m \in Messages : SF_vars(\E p \in Processes : Begin(p, m))

\* Appends run to their end and somebody keeps asking for the index; whether
\* anything is ever appended again is left open.
PollingSpec ==
    /\ Spec
    /\ WF_vars(ClearStaleLock)
    /\ \A p \in Processes : WF_vars(Step(p))
    /\ \A r \in Readers : WF_vars(ReadStep(r))

-----------------------------------------------------------------------------
(* Properties.                                                             *)

EntryType == [stamp : Seq(Tokens), applied : Seq(Messages)]

\* The types of the log, the lock, and each process's progress through
\* append_gossip_envelope and its cache.
TypeOK ==
    /\ log \in Seq(Tokens)
    /\ envelopes \subseteq Messages
    /\ lock \in Processes \cup {"dead", None}
    /\ pc \in [Processes -> {"idle", "locked", "loaded", "write", "cut",
                             "whole", "synced", "envelope"}]
    /\ msg \in [Processes -> Messages \cup {None}]
    /\ cache \in [Processes -> EntryType \cup {None}]
    /\ index \in EntryType \cup {None}
    /\ reading \in [Readers -> Seq(Tokens) \cup {None}]
    /\ cutting \subseteq Readers
    /\ failures \in 0..MaxFailures
    /\ \A p \in Processes : pc[p] = "idle" <=> msg[p] = None

\* The log can be replayed from the start: every line but a torn last one is
\* one message, and the messages come in an order in which each applies, none
\* of them twice.
LogReplays ==
    /\ ~Unreadable(log)
    /\ Replays(Records(log))
    /\ \A i, j \in 1..Len(Records(log)) :
          Records(log)[i] = Records(log)[j] => i = j

\* The log is append-only: a record that was completely written stays.
RecordsKept == IsPrefix(Records(log), Records(log'))
AppendOnly == [][RecordsKept]_vars

\* A cache entry whose stamp is the log's holds what a full replay would
\* give, although other processes appended and repaired the log meanwhile.
CacheIsReplay ==
    \A p \in Processes :
        pc[p] = "idle" /\ cache[p] # None /\ cache[p].stamp = log
            => cache[p].applied = Records(log)

\* While nobody appends, an index that is returned as fresh shows the whole
\* log.
FreshIndexIsCurrent ==
    lock = None /\ FreshIndex => index.applied = Records(log)

\* A message that lost its envelope to a crash gets it when it is delivered
\* again.
Logged(m) == m \in ToSet(Records(log))
Enveloped(m) == m \in envelopes
EnvelopeRestored == \A m \in Messages : Logged(m) ~> Enveloped(m)

\* The torn tail of an append that died does not lock readers out when it is
\* the log's only damage: the next append or the next reader removes it,
\* unless readers are served from the index (maybe_repair_truncated_tail).
OnlyTorn == Torn(log) /\ ~Unreadable(log)
Served == ~Torn(log) \/ FreshIndex
TornTailRepaired == OnlyTorn ~> Served

\* The log and what a process caches of it.
LogSound == LogReplays /\ CacheIsReplay
=============================================================================
