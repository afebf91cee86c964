------------------------------ MODULE FrostDkg ------------------------------
(***************************************************************************)
(* The distributed key generation of the vault signers: one                *)
(* frost_signer_daemon per signer, exchanging signed envelopes of three    *)
(* rounds (round-1 broadcast, round-2 direct, signer ack) and keeping its  *)
(* progress in files: state.json, inbox/, outbox/ and transcript.json.     *)
(*                                                                         *)
(* A round-1 package is named by the attempt that drew it, so two packages *)
(* of one signer are told apart and the group key is the function from     *)
(* signers to the packages it was derived from.  A round-2 package is a    *)
(* function of the sender's round-1 secret; its encryption is fresh every  *)
(* time, which makes every creation another envelope.                      *)
(***************************************************************************)
EXTENDS Naturals, FiniteSets, Sequences, SequencesExt

CONSTANTS
    Signers,     \* the signer ids of the epoch
    MaxCrashes   \* bound on crashes of signer processes

VARIABLES
    disk,        \* [Signers -> the files of the signer's epoch directory]
    up,          \* [Signers -> BOOLEAN]: the daemon got past its start-up
    crashes,     \* crashes so far
    torn         \* a crash fell between two file writes of one handler

dkgVars == <<disk, up, crashes, torn>>

NoKey == <<>>
All == "all"

Envelope(seq, from, to, body) == [seq |-> seq, from |-> from, to |-> to, body |-> body]

\* logical_envelope_key: what a signer may say only once.
LogicalKey(e) == <<e.seq, e.from, e.to>>

EmptyDisk == [stage |-> "none", secret |-> 0, key |-> NoKey,
              outbox |-> {}, inbox |-> {}, transcript |-> NoKey]

Init ==
    /\ disk = [s \in Signers |-> EmptyDisk]
    /\ up = [s \in Signers |-> FALSE]
    /\ crashes = 0
    /\ torn = FALSE

-----------------------------------------------------------------------------
(* Reading the envelope files. *)

Stored(d) == d.outbox \cup d.inbox

\* validate_envelope: of an envelope a signer of the epoch signed, only an
\* ack can be refused, for another key than the local finalized one.
EnvelopeValid(d, e) == e.seq = 3 /\ d.stage = "final" => e.body = d.key

\* load_all_envelopes validates every stored envelope, and fails for one.
Loads(d) == \A e \in Stored(d) : EnvelopeValid(d, e)

Round(d, seq) == {e \in Stored(d) : e.seq = seq}
Senders(d, seq) == {e.from : e \in Round(d, seq)}
Pairs(d) == {<<e.from, e.to>> : e \in Round(d, 2)}

AllPairs == {p \in Signers \X Signers : p[1] # p[2]}

HaveAllRound1(d) == Senders(d, 1) = Signers
HaveRound2ForOwnSigner(s, d) == \A t \in Signers \ {s} : <<t, s>> \in Pairs(d)
HaveCompleteTranscriptInputs(d) ==
    /\ HaveAllRound1(d)
    /\ AllPairs \subseteq Pairs(d)
    /\ Senders(d, 3) = Signers

\* The duplicate checks of validated_round1_package_bytes,
\* decrypted_round2_package_bytes_for_receiver, validated_round2_material and
\* validated_signer_ack_material: two envelopes under one logical key fail.
Unambiguous(es) == \A e, f \in es : LogicalKey(e) = LogicalKey(f) => e = f

Package(d, t) == (CHOOSE e \in Round(d, 1) : e.from = t).body

-----------------------------------------------------------------------------
(* advance(): each phase is the sequence of disks its file writes produce, *)
(* starting with the disk it finds.                                        *)

\* initialize_round1: the envelope, then the state with the secret.
MutInitializeRound1(s, d) ==
    LET package == Cardinality({e \in d.outbox : e.seq = 1}) + 1
        sent == [d EXCEPT !.outbox = @ \cup {Envelope(1, s, All, package)}]
    IN  IF d.stage \notin {"none", "round1"} THEN <<d>>
        ELSE <<d, sent, [sent EXCEPT !.stage = "round1", !.secret = package]>>
InitializeRound1(s, d) ==
    LET package == Cardinality({e \in d.outbox : e.seq = 1}) + 1
        sent == [d EXCEPT !.outbox = @ \cup {Envelope(1, s, All, package)}]
    IN  IF d.stage # "none" THEN <<d>>
        ELSE <<d, sent, [sent EXCEPT !.stage = "round1", !.secret = package]>>

CanCreateRound2(s, d) == d.stage = "round1" /\ Loads(d) /\ HaveAllRound1(d)

\* create_round2: one direct envelope per receiver in signer order, then the
\* state.
CreateRound2(s, d) ==
    LET attempt == Cardinality({e \in d.outbox : e.seq = 2}) + 1
        receivers == SetToSeq(Signers \ {s})
        Sent(n) ==
            [d EXCEPT !.outbox = @ \cup
                {Envelope(2, s, receivers[i], <<d.secret, attempt>>) : i \in 1..n}]
        last == Len(receivers)
    IN  IF CanCreateRound2(s, d) /\ Unambiguous(Round(d, 1))
        THEN [n \in 1..(last + 1) |-> Sent(n - 1)] \o
             <<[Sent(last) EXCEPT !.stage = "round2"]>>
        ELSE <<d>>

CanFinalize(s, d) == d.stage = "round2" /\ Loads(d) /\ HaveRound2ForOwnSigner(s, d)

Received(s, d) == {e \in Round(d, 2) : e.to = s}

\* frost dkg part3: every received share lies on the polynomial its sender
\* committed to in the round-1 package stored here.
SharesVerify(s, d) == \A e \in Received(s, d) : e.body[1] = Package(d, e.from)

GroupKey(s, d) == [t \in Signers |-> IF t = s THEN d.secret ELSE Package(d, t)]

\* finalize_dkg: the ack envelope, then the state with the key package.
FinalizeDkg(s, d) ==
    LET key == GroupKey(s, d)
        sent == [d EXCEPT !.outbox = @ \cup {Envelope(3, s, All, key)}]
    IN  IF /\ CanFinalize(s, d)
           /\ Unambiguous(Round(d, 1)) /\ Unambiguous(Received(s, d))
           /\ SharesVerify(s, d)
        THEN <<d, sent, [sent EXCEPT !.stage = "final", !.key = key]>>
        ELSE <<d>>

\* The inputs of a transcript are complete; real_frost_dkg_transcript
\* requires all of them once more.
MutTranscriptWithoutPairs(s, d) ==
    HaveAllRound1(d) /\ Senders(d, 3) = Signers
MutTranscriptWithoutAcks(s, d) == HaveAllRound1(d) /\ AllPairs \subseteq Pairs(d)
TranscriptReady(s, d) == HaveCompleteTranscriptInputs(d)

CanCreateTranscript(s, d) ==
    d.stage = "final" /\ d.transcript = NoKey /\ Loads(d) /\ TranscriptReady(s, d)

Transcript(d) ==
    [key |-> d.key,
     round1 |-> {<<e.from, e.body>> : e \in Round(d, 1)},
     round2 |-> {<<e.from, e.to, e.body[1]>> : e \in Round(d, 2)},
     acks |-> {<<e.from, e.body>> : e \in Round(d, 3)}]

CreateTranscript(s, d) ==
    IF CanCreateTranscript(s, d) /\ \A seq \in 1..3 : Unambiguous(Round(d, seq))
    THEN <<d, [d EXCEPT !.transcript = Transcript(d)]>>
    ELSE <<d>>

\* advance: the phases one after the other, each on what the last one left;
\* a trace has the files after each of the writes.
WithRound2(s, traces) == {t \o Tail(CreateRound2(s, Last(t))) : t \in traces}
WithKey(s, traces) == {t \o Tail(FinalizeDkg(s, Last(t))) : t \in traces}
WithTranscript(s, traces) == {t \o Tail(CreateTranscript(s, Last(t))) : t \in traces}

Advance(s, d) == WithTranscript(s, WithKey(s, WithRound2(s, {InitializeRound1(s, d)})))

\* advance returned an error: a phase that was due is still due, or the
\* stored envelopes do not load.
AdvanceFails(s, d) ==
    ~Loads(d) \/ CanCreateRound2(s, d) \/ CanFinalize(s, d) \/ CanCreateTranscript(s, d)

-----------------------------------------------------------------------------
(* The daemon.  One handler at a time runs at a signer, under its mutex. *)

\* The handler whose file writes are `trace` runs to its end.
Completes(s, trace) ==
    /\ disk' = [disk EXCEPT ![s] = Last(trace)]
    /\ UNCHANGED <<crashes, torn>>

\* The process dies after some of the writes.
CrashesIn(s, trace) ==
    /\ crashes < MaxCrashes
    /\ \E k \in 1..Len(trace) :
          /\ disk' = [disk EXCEPT ![s] = trace[k]]
          /\ torn' = (torn \/ k \notin {1, Len(trace)})
    /\ up' = [up EXCEPT ![s] = FALSE]
    /\ crashes' = crashes + 1

\* run_frost_signer: advance once; an error ends the process.
Start(s) ==
    /\ ~up[s]
    /\ \E trace \in Advance(s, disk[s]) : Completes(s, trace)
    /\ up' = [up EXCEPT ![s] = ~AdvanceFails(s, disk'[s])]

CrashInStart(s) == ~up[s] /\ \E trace \in Advance(s, disk[s]) : CrashesIn(s, trace)

\* accept_envelope: the file write of a new envelope that passes, the
\* handler's advance after it.
Acceptable(d, e) ==
    /\ e \notin Stored(d)
    /\ EnvelopeValid(d, e)
    /\ Loads(d)
    /\ \A f \in Stored(d) : LogicalKey(f) # LogicalKey(e)

Accept(p, e) ==
    {<<disk[p]>> \o t : t \in Advance(p, [disk[p] EXCEPT !.inbox = @ \cup {e}])}

\* The ticker submits its stored outbox to every peer.
Submit(s, p) ==
    /\ up[s] /\ up[p]
    /\ \E e \in disk[s].outbox :
          Acceptable(disk[p], e) /\ \E trace \in Accept(p, e) : Completes(p, trace)
    /\ UNCHANGED up

CrashInSubmit(s, p) ==
    /\ up[s] /\ up[p]
    /\ \E e \in disk[s].outbox :
          Acceptable(disk[p], e) /\ \E trace \in Accept(p, e) : CrashesIn(p, trace)

Next ==
    \/ \E s \in Signers : Start(s) \/ CrashInStart(s)
    \/ \E s \in Signers : \E p \in Signers \ {s} : Submit(s, p) \/ CrashInSubmit(s, p)

\* The ticker of a running daemon keeps firing and offers the whole outbox to
\* every peer again; a stopped daemon is started again.
Fairness ==
    /\ \A s \in Signers : WF_dkgVars(Start(s))
    /\ \A s \in Signers : \A p \in Signers \ {s} : WF_dkgVars(Submit(s, p))

Spec == Init /\ [][Next]_dkgVars /\ Fairness

-----------------------------------------------------------------------------
(* Properties. *)

\* transcript.json is the same at every signer that has one: it commits the
\* same packages, acks and group key, in whatever order the envelopes came and
\* wherever a daemon crashed.
TranscriptsAgree ==
    \A s, t \in Signers :
        disk[s].transcript # NoKey /\ disk[t].transcript # NoKey =>
            disk[s].transcript = disk[t].transcript

\* A transcript at one signer means that every signer holds its key package of
\* that group key on disk: an ack leaves a daemon only after the state that
\* backs it, crashes included.
TranscriptMeansKeyed ==
    \A s, t \in Signers :
        disk[s].transcript # NoKey =>
            disk[t].stage = "final" /\ disk[t].key = disk[s].transcript.key

\* Unless a crash falls between two writes of one handler, the ceremony ends
\* with a transcript at every signer.
Torn == torn
Completed == \A s \in Signers : disk[s].transcript # NoKey
DkgCompletes == []~Torn => <>Completed


\* A transcript is the same at every signer, and means a key at each.
TranscriptsSound == TranscriptsAgree /\ TranscriptMeansKeyed
=============================================================================
