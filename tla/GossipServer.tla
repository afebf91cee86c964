---------------------------- MODULE GossipServer ----------------------------
(***************************************************************************)
(* The server side of the gossip mesh and the peer loop beside it          *)
(* (p2p_node.rs), with the peer book both write (local_node.rs).           *)
(*                                                                         *)
(* A connection holds a guard of the connection limiter and handles one    *)
(* line at a time.  The policy is locked for the checks, released while    *)
(* the envelope is verified and appended, and locked again to record the   *)
(* result, with the time read when the line arrived.                       *)
(***************************************************************************)
EXTENDS Integers, FiniteSets, Sequences, FiniteSetsExt

-----------------------------------------------------------------------------
(***************************************************************************)
(* The limits a gossip server puts on the addresses and peer identities it *)
(* serves (peer_policy.rs): fixed windows of envelopes and read requests,  *)
(* bans after invalid envelopes that lapse with time, and the number of    *)
(* identities per address group.  A policy is a record of three maps; what *)
(* the code inserts on first use is here from the start, with a window     *)
(* that has already expired.                                               *)
(***************************************************************************)
CONSTANTS
    Ips, PeerIds,
    IpGroup,              \* ip_group_key, a function of the address
    MaxEnvelopes, MaxReads, Window, MaxInvalid, BanSeconds, MaxPerGroup,
    None

Expired == [started |-> -Window, count |-> 0]

NewPolicy ==
    [ips |-> [i \in Ips |-> [invalid |-> 0, until |-> None,
                             envelopes |-> Expired, reads |-> Expired]],
     peers |-> [p \in PeerIds |-> [invalid |-> 0, until |-> None, group |-> None,
                                   envelopes |-> Expired]],
     groups |-> [g \in {IpGroup[i] : i \in Ips} |-> {}]]

\* A record whose ban has expired loses it together with its invalid count.
Lapsed(record, now) ==
    IF record.until # None /\ now >= record.until
    THEN [record EXCEPT !.until = None, !.invalid = 0] ELSE record

Banned(record, now) == record.until # None /\ now < record.until

MutRolled(window, now) == [started |-> now, count |-> 0]
Rolled(window, now) ==
    IF now - window.started >= Window THEN [started |-> now, count |-> 0] ELSE window

Counted(window) == [window EXCEPT !.count = @ + 1]

\* max_envelopes_per_ip_window
MaxIpEnvelopes == MaxEnvelopes * MaxPerGroup

\* A check returns whether it allows the request, and the policy after it.
Verdict(allowed, policy) == [allowed |-> allowed, policy |-> policy]

CheckIpNotBanned(policy, ip, now) ==
    Verdict(~Banned(policy.ips[ip], now), [policy EXCEPT !.ips[ip] = Lapsed(@, now)])

CheckIpEnvelopeAllowed(policy, ip, now) ==
    LET record == Lapsed(policy.ips[ip], now)
        window == Rolled(record.envelopes, now)
        allowed == ~Banned(record, now) /\ window.count < MaxIpEnvelopes
    IN  Verdict(allowed,
                IF Banned(record, now) THEN policy
                ELSE [policy EXCEPT !.ips[ip] =
                        [record EXCEPT !.envelopes =
                            IF allowed THEN Counted(window) ELSE window]])

CheckIpReadRequestAllowed(policy, ip, now) ==
    LET record == Lapsed(policy.ips[ip], now)
        window == Rolled(record.reads, now)
        allowed == ~Banned(record, now) /\ window.count < MaxReads
    IN  Verdict(allowed,
                IF Banned(record, now) THEN policy
                ELSE [policy EXCEPT !.ips[ip] =
                        [record EXCEPT !.reads =
                            IF allowed THEN Counted(window) ELSE window]])

\* A peer keeps its place in its group, or moves from its former one.
MutAdmitPeer(policy, p, ip) ==
    LET group == IpGroup[ip]
        members == policy.groups[group]
        allowed == p \in members \/ Cardinality(members) < MaxPerGroup
    IN  Verdict(allowed,
                IF allowed
                THEN [policy EXCEPT !.groups[group] = @ \cup {p}, !.peers[p].group = group]
                ELSE policy)
AdmitPeer(policy, p, ip) ==
    LET group == IpGroup[ip]
        members == policy.groups[group]
        allowed == p \in members \/ Cardinality(members) < MaxPerGroup
    IN  Verdict(allowed,
                IF allowed
                THEN [policy EXCEPT
                        !.groups = [g \in DOMAIN @ |->
                            IF g = group THEN @[g] \cup {p}
                            ELSE IF g = policy.peers[p].group THEN @[g] \ {p} ELSE @[g]],
                        !.peers[p].group = group]
                ELSE policy)

CheckEnvelopeAllowed(policy, p, now) ==
    LET record == Lapsed(policy.peers[p], now)
        window == Rolled(record.envelopes, now)
        allowed == ~Banned(record, now) /\ window.count < MaxEnvelopes
    IN  Verdict(allowed,
                IF Banned(record, now) THEN policy
                ELSE [policy EXCEPT !.peers[p] =
                        [record EXCEPT !.envelopes =
                            IF allowed THEN Counted(window) ELSE window]])

WithInvalid(record, now) ==
    [record EXCEPT !.invalid = @ + 1,
                   !.until = IF record.invalid + 1 >= MaxInvalid
                             THEN now + BanSeconds ELSE @]

WithValid(record) == [record EXCEPT !.invalid = IF @ = 0 THEN 0 ELSE @ - 1]

RecordInvalidIpEnvelope(policy, ip, now) == [policy EXCEPT !.ips[ip] = WithInvalid(@, now)]
RecordValidIpEnvelope(policy, ip) == [policy EXCEPT !.ips[ip] = WithValid(@)]
RecordInvalidEnvelope(policy, p, now) == [policy EXCEPT !.peers[p] = WithInvalid(@, now)]
RecordValidEnvelope(policy, p) == [policy EXCEPT !.peers[p] = WithValid(@)]

-----------------------------------------------------------------------------
CONSTANTS
    Conns,                \* connection tasks
    MaxConnections, MaxConnectionsPerIp,
    Addrs,                \* listen addresses, numbers in their order
    AddrIp,               \* the IP of each address
    Seeds,                \* configured initial peers
    Self,                 \* advertise_addr
    MaxBook,              \* MAX_GOSSIP_PEERS
    MaxRound,             \* max_peers_per_round
    MaxTime,              \* bound on the clock
    InvalidBound,         \* bound on the invalid envelopes of an address
    MaxPassed,            \* bound on the envelopes of a peer
    MaxFailures           \* bound on the failure count of a book entry

VARIABLES
    now, policy,
    limiter,              \* open connections: in total and by IP
    conn,                 \* what each connection task is doing
    passed,               \* times at which envelopes of each peer passed the checks
    book,                 \* the gossip peer book, by address
    dialled,              \* peers of the running round whose task is not finished
    seeded                \* seeds the node has put into its book

vars == <<now, policy, limiter, conn, passed, book, dialled, seeded>>
serverVars == <<policy, limiter, conn, passed>>
bookVars == <<book, dialled, seeded>>

EmptyBook == [a \in {} |-> None]

Init ==
    /\ now = 0 /\ policy = NewPolicy
    /\ limiter = [total |-> 0, byIp |-> [i \in Ips |-> 0]]
    /\ conn = [c \in Conns |-> None]
    /\ passed = [p \in PeerIds |-> <<>>]
    /\ book = EmptyBook /\ dialled = {} /\ seeded = {}

Tick ==
    /\ now < MaxTime
    /\ now' = now + 1
    /\ UNCHANGED <<serverVars, bookVars>>

-----------------------------------------------------------------------------
(* The connection limiter *)

MutMayAcquire(ip) == limiter.total < MaxConnections
MayAcquire(ip) ==
    limiter.total < MaxConnections /\ limiter.byIp[ip] < MaxConnectionsPerIp

\* A connection over a limit is answered and closed, which changes nothing.
Accept(c, ip) ==
    /\ conn[c] = None /\ MayAcquire(ip)
    /\ limiter' = [total |-> limiter.total + 1, byIp |-> [limiter.byIp EXCEPT ![ip] = @ + 1]]
    /\ conn' = [conn EXCEPT ![c] = [ip |-> ip, peer |-> None, at |-> 0]]
    /\ UNCHANGED <<now, policy, passed, bookVars>>

\* The task ends and drops its guard.
Drop(c) ==
    /\ limiter' = [total |-> limiter.total - 1,
                   byIp |-> [limiter.byIp EXCEPT ![conn[c].ip] = @ - 1]]
    /\ conn' = [conn EXCEPT ![c] = None]

Reading(c) == conn[c] # None /\ conn[c].peer = None

\* The remote closes between frames, or the transport fails.
Close(c) ==
    /\ Reading(c)
    /\ Drop(c)
    /\ UNCHANGED <<now, policy, passed, bookVars>>

\* An oversized or broken frame or a timeout counts against the address, even
\* while it is banned.
FrameFault(c) ==
    /\ Reading(c)
    /\ policy.ips[conn[c].ip].invalid < InvalidBound
    /\ policy' = RecordInvalidIpEnvelope(policy, conn[c].ip, now)
    /\ Drop(c)
    /\ UNCHANGED <<now, passed, bookVars>>

-----------------------------------------------------------------------------
(* The peer book *)

Entry(source, at) ==
    [source |-> source, seen |-> at, success |-> None, failures |-> 0]

\* The order of peer_retention_rank, smaller addresses first among equals.
Lexicographic(x, y) ==
    \E k \in DOMAIN x : x[k] > y[k] /\ \A j \in 1..(k - 1) : x[j] = y[j]

MutRank(b, a) ==
    <<IF b[a].success # None THEN 1 ELSE 0, -b[a].failures,
      IF b[a].success # None THEN b[a].success ELSE b[a].seen, -a>>
Rank(b, a) ==
    <<IF b[a].source = "seed" THEN 1 ELSE 0, IF b[a].success # None THEN 1 ELSE 0,
      -b[a].failures, IF b[a].success # None THEN b[a].success ELSE b[a].seen, -a>>

\* sort_and_dedup_gossip_peers: the best entries up to the limit.
Retained(b) ==
    LET kept == {a \in DOMAIN b :
                    Cardinality({d \in DOMAIN b : Lexicographic(Rank(b, d), Rank(b, a))})
                        < MaxBook}
    IN  [a \in kept |-> b[a]]

Upserted(b, a, source) ==
    Retained(
        IF a \in DOMAIN b
        THEN [b EXCEPT ![a].seen = now,
                       ![a].source = IF source = "seed" THEN "seed" ELSE @]
        ELSE [d \in DOMAIN b \cup {a} |-> IF d = a THEN Entry(source, now) ELSE b[d]])

Succeeded(b, a) ==
    IF a \in DOMAIN b
    THEN Retained([b EXCEPT ![a].seen = now, ![a].success = now, ![a].failures = 0])
    ELSE b

Failed(b, a) ==
    IF a \in DOMAIN b
    THEN Retained([b EXCEPT ![a].seen = now, ![a].failures = Min({@ + 1, MaxFailures})])
    ELSE b

-----------------------------------------------------------------------------
(* One line of a connection *)

\* The ban check every line starts with.
Preflight(c) == CheckIpNotBanned(policy, conn[c].ip, now)

\* A banned address gets its refusal.
Refused(c) ==
    /\ Reading(c) /\ ~Preflight(c).allowed
    /\ policy' = Preflight(c).policy
    /\ UNCHANGED <<now, limiter, conn, passed, bookVars>>

\* An empty line, a line that does not parse, a malformed peer id.
Garbled(c) ==
    /\ Reading(c) /\ Preflight(c).allowed
    /\ policy.ips[conn[c].ip].invalid < InvalidBound
    /\ policy' = RecordInvalidIpEnvelope(Preflight(c).policy, conn[c].ip, now)
    /\ UNCHANGED <<now, limiter, conn, passed, bookVars>>

\* Inventory and fetch requests; one with malformed contents is counted too.
ReadRequest(c, wellFormed) ==
    LET check == CheckIpReadRequestAllowed(Preflight(c).policy, conn[c].ip, now)
    IN  /\ Reading(c) /\ Preflight(c).allowed
        /\ policy.ips[conn[c].ip].invalid < InvalidBound
        /\ policy' = IF check.allowed /\ ~wellFormed
                     THEN RecordInvalidIpEnvelope(check.policy, conn[c].ip, now)
                     ELSE check.policy
        /\ UNCHANGED <<now, limiter, conn, passed, bookVars>>

\* The address a remote announces is its own and enters the book.
PeerListRequest(c, a) ==
    LET check == CheckIpReadRequestAllowed(Preflight(c).policy, conn[c].ip, now)
    IN  /\ Reading(c) /\ Preflight(c).allowed /\ check.allowed
        /\ policy.ips[conn[c].ip].invalid < InvalidBound
        /\ IF AddrIp[a] = conn[c].ip
           THEN policy' = check.policy /\ book' = Upserted(book, a, "discovered")
           ELSE /\ policy' = RecordInvalidIpEnvelope(check.policy, conn[c].ip, now)
                /\ UNCHANGED book
        /\ UNCHANGED <<now, limiter, conn, passed, dialled, seeded>>

\* handle_gossip_envelope up to the append: three checks under one lock, each
\* of which keeps what the earlier ones recorded.
EnvelopeChecks(c, p) ==
    LET ip == CheckIpEnvelopeAllowed(Preflight(c).policy, conn[c].ip, now)
        admit == AdmitPeer(ip.policy, p, conn[c].ip)
        peer == CheckEnvelopeAllowed(admit.policy, p, now)
    IN  IF ~ip.allowed THEN ip ELSE IF ~admit.allowed THEN admit ELSE peer

Envelope(c, p) ==
    LET check == EnvelopeChecks(c, p)
    IN  /\ Reading(c) /\ Preflight(c).allowed
        /\ Len(passed[p]) < MaxPassed
        /\ policy' = check.policy
        /\ conn' = IF check.allowed
                   THEN [conn EXCEPT ![c].peer = p, ![c].at = now] ELSE conn
        /\ passed' = IF check.allowed
                     THEN [passed EXCEPT ![p] = Append(@, now)] ELSE passed
        /\ UNCHANGED <<now, limiter, bookVars>>

\* The append succeeded, failed for a local reason, or refused the envelope.
Appended(c, outcome) ==
    /\ conn[c] # None /\ conn[c].peer # None
    /\ policy' = LET ip == conn[c].ip
                     p == conn[c].peer
                 IN  CASE outcome = "valid" ->
                            RecordValidEnvelope(RecordValidIpEnvelope(policy, ip), p)
                       [] outcome = "busy" -> policy
                       [] OTHER ->
                            RecordInvalidEnvelope(
                                RecordInvalidIpEnvelope(policy, ip, conn[c].at),
                                p, conn[c].at)
    /\ conn' = [conn EXCEPT ![c].peer = None, ![c].at = 0]
    /\ UNCHANGED <<now, limiter, passed, bookVars>>

-----------------------------------------------------------------------------
(* The peer loop *)

\* The seeds are refreshed, then the peers of the round are the first of the
\* book in address order.
StartRound ==
    LET refreshed == FoldSet(LAMBDA a, b : Upserted(b, a, "seed"), book, Seeds)
        known == DOMAIN refreshed \ {Self}
    IN  /\ dialled = {}
        /\ book' = refreshed
        /\ seeded' = Seeds
        /\ dialled' = {a \in known : Cardinality({d \in known : d < a}) < MaxRound}
        /\ UNCHANGED <<now, serverVars>>

\* One peer's task: the addresses it returned, then the result of the sync
\* and the rebroadcast.
PeerTask(a, offered, ok) ==
    LET found == offered \ {Self, a}
        discovered == FoldSet(LAMBDA d, b : Upserted(b, d, "discovered"), book, found)
    IN  /\ a \in dialled
        /\ dialled' = dialled \ {a}
        /\ book' = IF ok THEN Succeeded(discovered, a) ELSE Failed(discovered, a)
        /\ UNCHANGED <<now, serverVars, seeded>>

-----------------------------------------------------------------------------
ServerNext ==
    \/ \E c \in Conns :
          \/ \E ip \in Ips : Accept(c, ip)
          \/ Close(c)
          \/ FrameFault(c)
          \/ Refused(c)
          \/ Garbled(c)
          \/ \E w \in BOOLEAN : ReadRequest(c, w)
          \/ \E p \in PeerIds : Envelope(c, p)
          \/ \E o \in {"valid", "busy", "invalid"} : Appended(c, o)

BookNext ==
    \/ StartRound
    \/ \E a \in Addrs, offered \in SUBSET Addrs, ok \in BOOLEAN : PeerTask(a, offered, ok)
    \/ \E c \in Conns :
          \/ \E ip \in Ips : Accept(c, ip)
          \/ Close(c)
          \/ \E a \in Addrs : PeerListRequest(c, a)

Next == Tick \/ ServerNext \/ BookNext

Spec == Init /\ [][Next]_vars

-----------------------------------------------------------------------------
\* The limiter counts exactly the open connections, in total and per address,
\* and neither count passes its limit, whichever way connections end.
ConnectionsCounted ==
    LET Open(i) == {c \in Conns : conn[c] # None /\ conn[c].ip = i}
    IN  /\ \A i \in Ips : /\ limiter.byIp[i] = Cardinality(Open(i))
                          /\ limiter.byIp[i] <= MaxConnectionsPerIp
        /\ limiter.total = Cardinality({c \in Conns : conn[c] # None})
        /\ limiter.total <= MaxConnections

\* However peers move between addresses, a group has the identities whose
\* record names it and never more than its limit.
GroupsBounded ==
    \A g \in DOMAIN policy.groups :
        /\ policy.groups[g] = {p \in PeerIds : policy.peers[p].group = g}
        /\ Cardinality(policy.groups[g]) <= MaxPerGroup

\* In no stretch of a window's length do more envelopes of one identity pass
\* the checks than two windows allow, bans, moves and concurrent lines included.
RateBounded ==
    \A p \in PeerIds : \A k \in DOMAIN passed[p] :
        k > 2 * MaxEnvelopes =>
            passed[p][k] - passed[p][k - 2 * MaxEnvelopes] >= Window

\* Discovered addresses never push a configured seed out of the book.
SeedsKept ==
    seeded \subseteq DOMAIN book \/ \A a \in DOMAIN book : book[a].source = "seed"

\* The server's limits and its peer book keep the four promises above.
ServerSound == ConnectionsCounted /\ GroupsBounded /\ RateBounded /\ SeedsKept
=============================================================================
