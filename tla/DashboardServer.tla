-------------------------- MODULE DashboardServer --------------------------
(***************************************************************************)
(* The HTTP server of the dashboard and the explorer (dashboard_api.rs,    *)
(* explorer_api.rs, bitcoin_explorer_index.rs): connections and their      *)
(* limits, the order of the checks a request passes, the stages a route    *)
(* goes through with the slots it waits for, and the pages a client crawls *)
(* while shares keep arriving.                                             *)
(*                                                                         *)
(* A request is a record of what the checks look at; a response is its     *)
(* status.  The fork explorer (ForkExplorer) and the index of Bitcoin's    *)
(* history answer with an object, with nothing, or with an error.          *)
(***************************************************************************)
EXTENDS Payouts, Sequences, SequencesExt, TLC

-----------------------------------------------------------------------------
(***************************************************************************)
(* What the dashboard of dashboard_api.rs computes from the replayed       *)
(* sharechain: the account it is about, the projected route of its next    *)
(* reward, the charts of its shares, and the state of the services it      *)
(* depends on.  Scores and times are small numbers; hash rates, odds and   *)
(* wording are left out.                                                   *)
(***************************************************************************)
CONSTANTS
    DirectLimit,      \* DIRECT_PAYOUT_LIMIT
    MinDirect,        \* MIN_DIRECT_PAYOUT_SATS
    Buckets,          \* SHARE_CHART_BUCKETS
    Day,              \* SECONDS_PER_DAY
    MaxSnapshotAge,   \* MAINNET_HANDOFF_MAX_SNAPSHOT_AGE_DAYS
    MinVoters,        \* MAINNET_HANDOFF_MIN_SNAPSHOT_VOTERS
    None

-----------------------------------------------------------------------------
(* The account *)

\* validate_account_selector: at most one of the three selectors.
SelectorValid(selector) ==
    Cardinality({k \in DOMAIN selector : selector[k] # None}) <= 1

\* select_dashboard_account; the first match in the order of the miner ids.
SelectAccount(accounts, selector) ==
    LET Match(S) == IF S = {} THEN None ELSE Min(S)
    IN  CASE selector.miner # None -> Match({selector.miner} \cap DOMAIN accounts)
          [] selector.owner # None ->
                Match({m \in DOMAIN accounts : accounts[m].owner = selector.owner})
          [] selector.identity # None ->
                Match({m \in DOMAIN accounts : accounts[m].identity = selector.identity})
          [] OTHER -> IF Cardinality(DOMAIN accounts) = 1 THEN Match(DOMAIN accounts) ELSE None

\* snapshot_scores_by_idena_address: only a leaf that may take part in a block
\* carries its score.
SnapshotScore(leaves, identity) ==
    IF identity \in DOMAIN leaves /\ leaves[identity].eligible
    THEN leaves[identity].score ELSE 0

\* The accounts with the scores of the verified snapshot; an account with a
\* score must have proved that it owns the identity.
Scored(accounts, leaves) ==
    [m \in DOMAIN accounts |->
        [accounts[m] EXCEPT !.idena =
            IF leaves = None THEN @ ELSE SnapshotScore(leaves, accounts[m].identity)]]

OwnershipProven(accounts, leaves) ==
    leaves # None =>
        \A m \in DOMAIN accounts :
            SnapshotScore(leaves, accounts[m].identity) > 0 => accounts[m].owned

\* The identity card: verified only with an eligible leaf in the snapshot.
PledgeStatus(leaves, accounts, selected) ==
    IF /\ selected # None /\ leaves # None
       /\ accounts[selected].identity \in DOMAIN leaves
       /\ leaves[accounts[selected].identity].eligible
    THEN "verified" ELSE "pending"

-----------------------------------------------------------------------------
(* projected_payout_route *)

NoRoute(claim) == [eligible |-> FALSE, rank |-> 0, cutoff |-> MinDirect, claim |-> claim]

\* The rewards of the schedule by miner, and each account's rank balance.
Delta(schedule, m) ==
    IF m \in DOMAIN schedule.direct THEN schedule.direct[m]
    ELSE IF m \in DOMAIN schedule.vault THEN schedule.vault[m] ELSE 0

RankBalance(accounts, schedule, m) == accounts[m].unpaid + Delta(schedule, m)

\* Position among all accounts, by balance, reward and miner id.
DirectRank(accounts, schedule, m) ==
    LET balance == [n \in DOMAIN accounts |-> RankBalance(accounts, schedule, n)]
        delta == [n \in DOMAIN accounts |-> Delta(schedule, n)]
    IN  1 + Cardinality({n \in DOMAIN accounts :
                \/ balance[n] > balance[m]
                \/ balance[n] = balance[m] /\ delta[n] > delta[m]
                \/ balance[n] = balance[m] /\ delta[n] = delta[m] /\ n < m})

\* The balance the last direct output ranks with, once all of them are taken.
MutDirectCutoff(accounts, schedule) ==
    IF Cardinality(DOMAIN schedule.direct) >= DirectLimit
    THEN Max({MinDirect, Max({RankBalance(accounts, schedule, m) : m \in DOMAIN schedule.direct})})
    ELSE MinDirect
DirectCutoff(accounts, schedule) ==
    IF Cardinality(DOMAIN schedule.direct) >= DirectLimit
    THEN Max({MinDirect, Min({RankBalance(accounts, schedule, m) : m \in DOMAIN schedule.direct})})
    ELSE MinDirect

ProjectedPayoutRoute(accounts, selected, reward) ==
    IF selected = None THEN NoRoute(0)
    ELSE IF ~Payable(accounts, reward) THEN NoRoute(accounts[selected].unpaid)
    ELSE LET schedule == BuildPayoutSchedule(accounts, reward, DirectLimit, MinDirect)
             eligible == selected \in DOMAIN schedule.direct
         IN  [eligible |-> eligible,
              rank |-> DirectRank(accounts, schedule, selected),
              cutoff |-> DirectCutoff(accounts, schedule),
              claim |-> accounts[selected].unpaid
                          + IF eligible THEN 0 ELSE Delta(schedule, selected)]

-----------------------------------------------------------------------------
(* Share charts.  A share has its miner, whether it is active, and the time *)
(* of its template (None when the template is not in the log).             *)

InWindow(shares, start, now) ==
    {s \in shares : s.time # None /\ s.time >= start /\ s.time <= now}

Bucket(time, start, seconds) == Min({((time - start) * Buckets) \div seconds, Buckets - 1})

\* observed_share_seconds
ObservedSeconds(shares, start, now) ==
    IF shares = {} THEN 0
    ELSE Max({now - Max({Min({s.time : s \in shares}), start}), 1})

\* dashboard_share_window: the counts of the pool and of the miner, the chart
\* of the miner's shares, and the seconds the rates are measured over.
ShareWindow(shares, miner, start, now) ==
    LET seconds == Max({now - start, 1})
        pool == InWindow(shares, start, now)
        own == {s \in pool : s.miner = miner}
        Count(S, active) == Cardinality({s \in S : s.active = active})
        At(b) == {s \in own : Bucket(s.time, start, seconds) = b}
    IN  [accepted |-> Count(own, TRUE), stale |-> Count(own, FALSE),
         poolAccepted |-> Count(pool, TRUE), poolStale |-> Count(pool, FALSE),
         userSeconds |-> ObservedSeconds(own, start, now),
         poolSeconds |-> ObservedSeconds(pool, start, now),
         chart |-> [b \in 0..(Buckets - 1) |->
                       [accepted |-> Count(At(b), TRUE), stale |-> Count(At(b), FALSE)]]]

\* dashboard_share_windows: a day, a week, and everything since the first share.
MutEarliest(shares, now) ==
    LET times == {s.time : s \in {t \in shares : t.time # None}} \cap 0..now
    IN  IF times = {} THEN now ELSE Max(times)
Earliest(shares, now) ==
    LET times == {s.time : s \in {t \in shares : t.time # None}} \cap 0..now
    IN  IF times = {} THEN now ELSE Min(times)

ShareWindows(shares, miner, now) ==
    [day |-> ShareWindow(shares, miner, now - Day, now),
     week |-> ShareWindow(shares, miner, now - 7 * Day, now),
     epoch |-> ShareWindow(shares, miner, Earliest(shares, now), now)]

-----------------------------------------------------------------------------
(* Services.  A probe ends in a result, an error or a timeout.             *)

\* bitcoin_service_status
BitcoinStatus(configured, probe) ==
    IF ~configured THEN "pending"
    ELSE CASE probe \in {"error", "timeout"} -> "warning"
           [] probe = "behind" -> "syncing"
           [] OTHER -> "connected"

\* idena_service_status
IdenaStatus(configured, probe) ==
    IF ~configured THEN "pending"
    ELSE CASE probe \in {"error", "timeout"} -> "warning"
           [] probe = "behind" -> "syncing"
           [] OTHER -> "connected"

\* snapshot_service_status: the verified files of the snapshot directory come
\* before what Idena's node says.
SnapshotStatus(directory, idena) ==
    CASE directory # None /\ directory.latest ->
            IF directory.invalid > 0 \/ directory.skipped > 0 THEN "warning" ELSE "connected"
      [] directory # None /\ (directory.invalid > 0 \/ directory.skipped > 0) -> "warning"
      [] OTHER -> IF idena = "warning" THEN "warning" ELSE "pending"

\* build_overview: the fork's state and that of its address index.
ForkOverview(fork, status, stats) ==
    CASE fork = None -> [state |-> "not_configured", addresses |-> "not_configured"]
      [] status = "error" -> [state |-> "unavailable", addresses |-> "unavailable"]
      [] OTHER -> [state |-> "connected",
                   addresses |-> CASE fork = "noIndex" -> "not_configured"
                                   [] stats = "error" -> "unavailable"
                                   [] OTHER -> "ready"]

\* bitcoin_index_overview: ready once the index has reached the inherited tip,
\* which only a connected fork tells.
HistoryState(fork, probe) ==
    IF fork # None /\ fork.state = "connected" /\ probe = "ready" THEN "ready" ELSE "syncing"

\* mainnet_handoff_participant_count
HandoffParticipants(age, eligible, voters) ==
    IF age >= 0 /\ age <= MaxSnapshotAge /\ voters >= MinVoters THEN eligible ELSE None

\* dashboard_fork_economics: the reward of the next block from the node's
\* template, or from the explorer of the fork when the node has none.
Reward(configured, probe, fork, subsidy, fees) ==
    IF configured /\ probe # "error"
    THEN IF probe \in {"timeout", "invalid"} THEN 0 ELSE subsidy + fees
    ELSE IF fork = "ok" THEN subsidy + fees ELSE 0

-----------------------------------------------------------------------------
CONSTANTS
    Conns, Ips,
    Requests,          \* the requests clients may send
    Setups,            \* server configurations to start from
    Share,             \* id -> [parent, miner, template time]; 0 is no parent
    Stored0,           \* shares in the log at the start
    MaxConns, MaxPerIp,
    MaxPublic,         \* MAX_PUBLIC_EXPLORER_REQUESTS
    MaxReplays,        \* MAX_CONCURRENT_REPLAYS
    MaxIndex,          \* MAX_CONCURRENT_INDEX_REQUESTS
    PageLimit,
    Subsidy, Fees, Now,
    MaxShareAge,       \* MAINNET_HANDOFF_MAX_SHARE_AGE_SECONDS
    MaxRequests        \* bound on the connections that are opened

VARIABLES
    config,            \* the configuration, with the accounts and the selector
    stored,            \* shares in the log
    conn,              \* the connections
    byIp,              \* ConnectionLimiterState.by_ip; total is its sum
    publicPermits, replaySlots, indexSlots,   \* permits taken
    crawl,             \* a client that follows the cursors of the share pages
    opened

vars == <<config, stored, conn, byIp, publicPermits, replaySlots, indexSlots, crawl, opened>>

Closed == [pc |-> "closed"]
NoCrawl == [cursor |-> None, pages |-> <<>>, start |-> {}, unresolved |-> FALSE, done |-> FALSE,
            busy |-> FALSE]

\* validate_dashboard_api_config
ConfigValid(c) ==
    /\ SelectorValid(c.selector)
    /\ ~c.loopback => c.allowRemote /\ c.token # None

Init ==
    /\ config \in {c \in Setups : ConfigValid(c)}
    /\ stored = Stored0
    /\ conn = [c \in Conns |-> Closed]
    /\ byIp = [i \in {} |-> 0]
    /\ publicPermits = 0 /\ replaySlots = 0 /\ indexSlots = 0
    /\ crawl = NoCrawl /\ opened = 0

-----------------------------------------------------------------------------
(* Shares as the replay shows them *)

\* Height on the resolved chain; 0 while an ancestor is missing.
RECURSIVE HeightOf(_, _)
HeightOf(s, present) ==
    IF s \notin present THEN 0
    ELSE IF Share[s].parent = 0 THEN 1
    ELSE LET parent == HeightOf(Share[s].parent, present)
         IN  IF parent = 0 THEN 0 ELSE parent + 1

\* share_summaries: highest first, then by hash.
ShareSummaries(present) ==
    SetToSortSeq(present,
        LAMBDA a, b : \/ HeightOf(a, present) > HeightOf(b, present)
                      \/ HeightOf(a, present) = HeightOf(b, present) /\ a < b)

Resolved(present) == {s \in present : HeightOf(s, present) > 0}

\* The branch of the highest share; ties go to the smaller hash.
ActiveShares(present) ==
    LET best == {s \in Resolved(present) :
                    \A t \in Resolved(present) :
                        \/ HeightOf(s, present) > HeightOf(t, present)
                        \/ HeightOf(s, present) = HeightOf(t, present) /\ s <= t}
        Up[n \in Nat] == IF n = 0 THEN best
                        ELSE Up[n - 1] \cup ({Share[s].parent : s \in Up[n - 1]} \ {0})
    IN  Up[Cardinality(present)] \cap present

\* paginate_shares: None when the cursor is not in the replay.
MutPaginateShares(shares, cursor, limit) ==
    LET start == IF cursor = None THEN 0
                 ELSE (CHOOSE i \in DOMAIN shares : shares[i] = cursor) - 1
        end == Min({start + limit, Len(shares)})
        items == SubSeq(shares, start + 1, end)
    IN  [items |-> items, next |-> IF end < Len(shares) THEN Last(items) ELSE None]
PaginateShares(shares, cursor, limit) ==
    LET start == IF cursor = None THEN 0 ELSE CHOOSE i \in DOMAIN shares : shares[i] = cursor
        end == Min({start + limit, Len(shares)})
        items == SubSeq(shares, start + 1, end)
    IN  [items |-> items, next |-> IF end < Len(shares) THEN Last(items) ELSE None]

\* A share arrives; its ancestors may come later.
StoreShare(s) ==
    /\ s \in DOMAIN Share \ stored
    /\ stored' = stored \cup {s}
    /\ UNCHANGED <<config, conn, byIp, publicPermits, replaySlots, indexSlots, crawl, opened>>

-----------------------------------------------------------------------------
(* Connections *)

Go(c, fields) == conn' = [conn EXCEPT ![c] = fields @@ @]
Respond(c, status) == Go(c, [pc |-> "write", status |-> status])

Total == SumOver(DOMAIN byIp, LAMBDA i : byIp[i])
CountOf(i) == IF i \in DOMAIN byIp THEN byIp[i] ELSE 0

\* run_dashboard_api_server: try_acquire, or the connection is dropped unread.
Accept(c, i) ==
    /\ conn[c].pc = "closed" /\ opened < MaxRequests
    /\ opened' = opened + 1
    /\ IF Total >= MaxConns \/ CountOf(i) >= MaxPerIp
       THEN UNCHANGED <<conn, byIp>>
       ELSE /\ byIp' = (i :> CountOf(i) + 1) @@ byIp
            /\ conn' = [conn EXCEPT ![c] = [pc |-> "headers", ip |-> i]]
    /\ UNCHANGED <<config, stored, publicPermits, replaySlots, indexSlots, crawl>>

\* ConnectionGuard::drop
Released(i) ==
    IF byIp[i] = 1 THEN [j \in DOMAIN byIp \ {i} |-> byIp[j]]
                   ELSE [byIp EXCEPT ![i] = @ - 1]

Close(c) == conn' = [conn EXCEPT ![c] = Closed] /\ byIp' = Released(conn[c].ip)

\* read_http_request_headers: the request, or a refusal.  Reads that stay idle
\* close the connection without an answer; slow headers get a 408.
ReadHeaders(c) ==
    /\ conn[c].pc = "headers"
    /\ \/ \E r \in Requests :
            /\ r.route = "shares" /\ r.crawls => ~crawl.busy /\ ~crawl.done
            /\ Go(c, [pc |-> "check", req |-> r, cursor |-> IF r.crawls THEN crawl.cursor ELSE None])
            /\ crawl' = IF ~r.crawls THEN crawl
                        ELSE [crawl EXCEPT !.busy = TRUE,
                                !.start = IF crawl.pages = <<>> THEN Resolved(stored) ELSE @]
            /\ UNCHANGED byIp
       \/ \E status \in {400, 408, 431} : Respond(c, status) /\ UNCHANGED <<byIp, crawl>>
       \/ Close(c) /\ UNCHANGED crawl
    /\ UNCHANGED <<config, stored, publicPermits, replaySlots, indexSlots, opened>>

\* The response is written, or the write times out; the guard goes either way.
Write(c) ==
    /\ conn[c].pc = "write"
    /\ Close(c)
    /\ UNCHANGED <<config, stored, publicPermits, replaySlots, indexSlots, crawl, opened>>

-----------------------------------------------------------------------------
(* Requests *)

\* checked_cors_origin
OriginAllowed(r) == r.origin = None \/ r.origin \in config.origins

Explorer == {"overview", "governance", "forkBlocks", "forkBlock", "forkHeight",
             "forkTransactions", "forkTransaction", "forkAddress", "bitcoinBlocks",
             "bitcoinTransaction", "bitcoinOutspends", "bitcoinHeight", "bitcoinBlock",
             "bitcoinBlockTransactions", "bitcoinAddress", "shares", "share", "idena", "apiOther"}

Proxy(r) == r.method = "GET" /\ r.route = "proxy"

MutPublicRequest(r) == r.method = "GET" /\ config.public /\ ~Proxy(r)
PublicRequest(r) ==
    r.method = "GET" /\ config.public /\ ~Proxy(r) /\ r.route \in Explorer

\* request_is_authorized, and a proxied request needs a configured token.
Authorized(r) ==
    /\ config.token # None => r.token = config.token
    /\ Proxy(r) => config.token # None

\* dashboard_proxy_target
ProxyTargetValid(r) == r.target \in Explorer \cup {"dashboard"}

Target(r) == IF Proxy(r) THEN r.target ELSE r.route

\* The stages of a route, in the order of the code: checks of the path and of
\* the query, the status of the fork for its inherited tip, a replay, calls.
LocalStages ==
    ("dashboard" :> <<"query", "probes">>)
    @@ ("overview" :> <<"query", "replay", "status", "tip">>)
    @@ ("governance" :> <<"query", "load">>)

ForkStages ==
    ("forkBlocks" :> <<"query", "page">>)
    @@ ("forkTransactions" :> <<"path", "query", "fork">>)
    @@ ("forkTransaction" :> <<"query", "path", "fork">>)

ForkAddressStages == "forkAddress" :> <<"supported", "path", "query", "fork">>

BitcoinStages ==
    ("bitcoinBlocks" :> <<"query", "status", "index">>)
    @@ ("bitcoinTransaction" :> <<"path", "query", "status", "index">>)
    @@ ("bitcoinOutspends" :> <<"path", "query", "index">>)
    @@ ("bitcoinHeight" :> <<"query", "path", "status", "index", "index">>)

BitcoinBlockStages ==
    [r \in {"bitcoinBlock", "bitcoinBlockTransactions"} |-> <<"path", "status", "query", "index">>]

BitcoinAddressStages == "bitcoinAddress" :> <<"path", "status", "query", "index">>

ShareStages ==
    ("shares" :> <<"query", "replay">>) @@ ("idena" :> <<"query", "replay", "status", "tip">>)

ObjectStages ==
    [r \in {"forkHeight", "forkBlock"} |-> <<"query", "path", "fork">>]
    @@ ("share" :> <<"query", "path", "replay">>)

RouteStages ==
    LocalStages @@ ForkStages @@ ForkAddressStages @@ BitcoinStages @@ BitcoinBlockStages
        @@ BitcoinAddressStages @@ ShareStages @@ ObjectStages

Stages(route) == IF route \in DOMAIN RouteStages THEN RouteStages[route] ELSE <<>>

\* The answer of handle_http_request when no stage has ended it.
Completed(r) ==
    CASE r.method = "OPTIONS" -> 204
      [] r.method # "GET" -> 405
      [] Target(r) \in {"other", "apiOther", "proxy"} -> 404
      [] OTHER -> 200

\* handle_http_request up to the route: origin, target, authorization, permit.
CheckRequest(c) ==
    /\ conn[c].pc = "check"
    /\ LET r == conn[c].req
       IN  CASE ~OriginAllowed(r) -> Respond(c, 403) /\ UNCHANGED publicPermits
             [] ~r.targetValid -> Respond(c, 400) /\ UNCHANGED publicPermits
             [] r.method # "OPTIONS" /\ ~PublicRequest(r) /\ ~Authorized(r) ->
                    Respond(c, 401) /\ UNCHANGED publicPermits
             [] PublicRequest(r) /\ publicPermits >= MaxPublic ->
                    Respond(c, 429) /\ UNCHANGED publicPermits
             [] Proxy(r) /\ ~ProxyTargetValid(r) -> Respond(c, 400) /\ UNCHANGED publicPermits
             [] OTHER ->
                    /\ publicPermits' = publicPermits + IF PublicRequest(r) THEN 1 ELSE 0
                    /\ Go(c, [pc |-> "stage", held |-> PublicRequest(r), answer |-> None,
                              fork |-> None, history |-> "not_configured",
                              stages |-> IF r.method = "GET" THEN Stages(Target(r)) ELSE <<>>])
    /\ crawl' = IF conn[c].req.crawls /\ conn'[c].pc = "write"
                THEN [crawl EXCEPT !.busy = FALSE] ELSE crawl
    /\ UNCHANGED <<config, stored, byIp, replaySlots, indexSlots, opened>>

Unresolved(page) == page.next # None /\ page.next \notin Resolved(page.present)

\* handle_http_request returns: the permit goes before the response is written.
\* The crawler keeps its cursor when the page failed.
Finish(c, status) ==
    /\ conn' = [conn EXCEPT ![c] = [pc |-> "write", status |-> status] @@ @]
    /\ publicPermits' = publicPermits - IF conn[c].held THEN 1 ELSE 0
    /\ crawl' = IF ~conn[c].req.crawls THEN crawl
                ELSE IF status # 200 THEN [crawl EXCEPT !.busy = FALSE]
                ELSE [crawl EXCEPT !.busy = FALSE, !.cursor = conn[c].answer.next,
                        !.pages = Append(@, conn[c].answer.items),
                        !.unresolved = @ \/ Unresolved(conn[c].answer),
                        !.done = conn[c].answer.next = None]

NextStage(c, fields) ==
    /\ Go(c, [stages |-> Tail(conn[c].stages)] @@ fields)
    /\ UNCHANGED <<publicPermits, crawl>>

AtStage(c, stage) == conn[c].pc = "stage" /\ conn[c].stages # <<>> /\ conn[c].stages[1] = stage

Answer(c) ==
    /\ conn[c].pc = "stage" /\ conn[c].stages = <<>>
    /\ Finish(c, Completed(conn[c].req))
    /\ UNCHANGED <<config, stored, byIp, replaySlots, indexSlots, opened>>

\* Path segments, query parameters and pagination; an address needs an index.
Validate(c) ==
    /\ \/ /\ AtStage(c, "path")
          /\ IF conn[c].req.pathValid THEN NextStage(c, <<>>) ELSE Finish(c, 400)
       \/ /\ AtStage(c, "query")
          /\ IF conn[c].req.queryValid THEN NextStage(c, <<>>) ELSE Finish(c, 400)
       \/ /\ AtStage(c, "supported")
          /\ IF config.fork = "noIndex" THEN Finish(c, 501) ELSE NextStage(c, <<>>)
    /\ UNCHANGED <<config, stored, byIp, replaySlots, indexSlots, opened>>

-----------------------------------------------------------------------------
(* Stages *)

\* The fork explorer: an object, nothing, or an error.
CallFork(c) ==
    /\ AtStage(c, "fork")
    /\ \/ config.fork # None /\ NextStage(c, <<>>)
       \/ Finish(c, 404)
       \/ config.fork # None /\ Finish(c, 503)
    /\ UNCHANGED <<config, stored, byIp, replaySlots, indexSlots, opened>>

\* fork_block_page answers without a client, too.
ForkPage(c) ==
    /\ AtStage(c, "page")
    /\ NextStage(c, <<>>) \/ (config.fork # None /\ Finish(c, 503))
    /\ UNCHANGED <<config, stored, byIp, replaySlots, indexSlots, opened>>

\* The status of the fork, for the overview and for the inherited tip; its
\* failure only leaves the relation to the fork unknown.
ForkStatus(c) ==
    /\ AtStage(c, "status")
    /\ \E status, stats \in {"ok", "error"} :
          NextStage(c, [fork |-> ForkOverview(config.fork, status, stats)])
    /\ UNCHANGED <<config, stored, byIp, replaySlots, indexSlots, opened>>

\* load_dashboard of the governance state.
LoadGovernance(c) ==
    /\ AtStage(c, "load")
    /\ NextStage(c, <<>>) \/ Finish(c, 503)
    /\ UNCHANGED <<config, stored, byIp, replaySlots, indexSlots, opened>>

\* run_replay_work: a slot within the queue's time, or the request fails.
AcquireReplay(c) ==
    /\ AtStage(c, "replay")
    /\ \/ /\ replaySlots < MaxReplays
          /\ replaySlots' = replaySlots + 1
          /\ Go(c, [pc |-> "replaying"]) /\ UNCHANGED <<publicPermits, crawl>>
       \/ replaySlots >= MaxReplays /\ Finish(c, 503) /\ UNCHANGED replaySlots
    /\ UNCHANGED <<config, stored, byIp, indexSlots, opened>>

\* build_overview: the miners of recent active shares whose identity is eligible,
\* counted for the handoff only under a fresh snapshot with enough voters.
RecentActive(present) ==
    {config.accounts[Share[s].miner].identity :
        s \in {t \in ActiveShares(present) :
                Share[t].time # None /\ Share[t].time >= Now - MaxShareAge}}

Overview(present) ==
    IF config.leaves = None THEN [eligible |-> None, participants |-> None]
    ELSE LET eligible == Cardinality({i \in RecentActive(present) \cap DOMAIN config.leaves :
                                        config.leaves[i].eligible})
         IN  [eligible |-> eligible,
              participants |-> HandoffParticipants(config.snapshotAge, eligible, config.voters)]

\* The blocking worker reads the log, and gives the slot back when it ends.
Replay(c) ==
    /\ conn[c].pc = "replaying"
    /\ replaySlots' = replaySlots - 1
    /\ LET r == conn[c].req
           page == PaginateShares(ShareSummaries(stored), conn[c].cursor, PageLimit)
       IN  \/ Finish(c, 503)
           \/ /\ Target(r) = "share" /\ r.share \notin stored
              /\ Finish(c, 404)
           \/ /\ Target(r) = "share" => r.share \in stored
              /\ Target(r) = "shares" /\ conn[c].cursor # None => conn[c].cursor \in stored
              /\ NextStage(c, [pc |-> "stage",
                               answer |-> CASE Target(r) = "shares" -> [present |-> stored] @@ page
                                            [] Target(r) \in {"overview", "idena"} ->
                                                  Overview(stored)
                                            [] OTHER -> None])
    /\ UNCHANGED <<config, stored, byIp, indexSlots, opened>>

\* acquire_request_slot of the index client, and its HTTP request; the tip for
\* the overview may fail without failing the request.
AcquireIndex(c) ==
    /\ AtStage(c, "index") \/ AtStage(c, "tip")
    /\ \/ /\ ~config.index
          /\ IF AtStage(c, "tip") THEN NextStage(c, <<>>) ELSE Finish(c, 404)
          /\ UNCHANGED indexSlots
       \/ /\ config.index /\ indexSlots < MaxIndex
          /\ indexSlots' = indexSlots + 1
          /\ Go(c, [pc |-> "indexing"]) /\ UNCHANGED <<publicPermits, crawl>>
       \/ /\ config.index /\ indexSlots >= MaxIndex
          /\ IF AtStage(c, "tip") THEN NextStage(c, <<>>) ELSE Finish(c, 503)
          /\ UNCHANGED indexSlots
    /\ UNCHANGED <<config, stored, byIp, replaySlots, opened>>

CallIndex(c) ==
    /\ conn[c].pc = "indexing"
    /\ indexSlots' = indexSlots - 1
    /\ \/ \E probe \in {"ready", "syncing"} :
             NextStage(c, [pc |-> "stage", history |-> HistoryState(conn[c].fork, probe)])
       \/ /\ conn[c].stages[1] = "tip"
          /\ NextStage(c, [pc |-> "stage", history |-> "unavailable"])
       \/ conn[c].stages[1] = "index" /\ \E status \in {404, 503} : Finish(c, status)
    /\ UNCHANGED <<config, stored, byIp, replaySlots, opened>>

\* build_dashboard_snapshot: the probes end by their timeout at the latest; the
\* replay that follows runs in the request's own task, without a slot.
BuildDashboard(c) ==
    /\ AtStage(c, "probes")
    /\ \/ Finish(c, 503)
       \/ \E bitcoin \in {"ok", "behind", "error", "timeout"},
             idena \in {"ok", "behind", "error", "timeout"},
             template \in {"ok", "invalid", "error", "timeout"} :
            LET scored == Scored(config.accounts, config.leaves)
                selected == SelectAccount(scored, config.selector)
                shares == {[miner |-> Share[s].miner, time |-> Share[s].time, id |-> s,
                            active |-> s \in ActiveShares(stored)] : s \in stored}
            IN  /\ OwnershipProven(config.accounts, config.leaves)
                /\ NextStage(c, [answer |->
                     [route |-> ProjectedPayoutRoute(scored, selected,
                                   Reward(config.bitcoin, template, config.fork, Subsidy, Fees)),
                      reward |-> Reward(config.bitcoin, template, config.fork, Subsidy, Fees),
                      selected |-> selected,
                      pledge |-> PledgeStatus(config.leaves, scored, selected),
                      windows |-> ShareWindows(shares, selected, Now),
                      services |-> <<BitcoinStatus(config.bitcoin, bitcoin),
                                     IdenaStatus(config.idena, idena),
                                     SnapshotStatus(config.directory,
                                                    IdenaStatus(config.idena, idena))>>]])
    /\ UNCHANGED <<config, stored, byIp, replaySlots, indexSlots, opened>>

Serve(c) ==
    \/ ReadHeaders(c) \/ CheckRequest(c) \/ Validate(c) \/ CallFork(c)
    \/ ForkPage(c) \/ ForkStatus(c) \/ LoadGovernance(c)
    \/ AcquireReplay(c) \/ Replay(c) \/ AcquireIndex(c) \/ CallIndex(c)
    \/ BuildDashboard(c) \/ Answer(c) \/ Write(c)

Next ==
    \/ \E s \in DOMAIN Share : StoreShare(s)
    \/ \E c \in Conns, i \in Ips : Accept(c, i)
    \/ \E c \in Conns : Serve(c)

Spec == Init /\ [][Next]_vars

-----------------------------------------------------------------------------
(* Properties *)

\* A client that follows the cursors of the share pages to the end, all of
\* them of shares on the resolved chain, has been shown every share that was
\* resolved when it began, and each exactly once, whatever arrived meanwhile.
CrawlCoversResolved ==
    crawl.done /\ ~crawl.unresolved =>
        LET listed == FlattenSeq(crawl.pages)
        IN  \A s \in crawl.start : Cardinality({i \in DOMAIN listed : listed[i] = s}) = 1

\* The dashboard's cutoff separates: among the accounts whose reward reaches
\* the minimum, the selected one is paid directly only with a balance of at
\* least the cutoff, and goes to the vault only with at most that.
CutoffSeparates ==
    \A c \in Conns :
        conn[c].pc = "write" /\ conn[c].status = 200 /\ Target(conn[c].req) = "dashboard" =>
            LET a == conn[c].answer
                scored == Scored(config.accounts, config.leaves)
            IN  a.selected # None /\ Payable(scored, a.reward) =>
                    LET schedule == BuildPayoutSchedule(scored, a.reward, DirectLimit, MinDirect)
                        balance == RankBalance(scored, schedule, a.selected)
                    IN  IF a.route.eligible THEN balance >= a.route.cutoff
                        ELSE Delta(schedule, a.selected) >= MinDirect
                                => balance <= a.route.cutoff

\* Every share the charts of a day or of a week count is also counted since the
\* first share: the epoch's window never misses one (dashboard_share_windows).
WindowsNest ==
    \A c \in Conns :
        conn[c].pc = "write" /\ conn[c].status = 200 /\ Target(conn[c].req) = "dashboard" =>
            LET w == conn[c].answer.windows
            IN  \A k \in {"accepted", "stale", "poolAccepted", "poolStale"} :
                    w.day[k] <= w.week[k] /\ w.week[k] <= w.epoch[k]

\* The dashboard, and the explorer unless it is public, answer only requests
\* that carry the configured token, whether asked directly or by the proxy.
PrivateAnswersAuthorized ==
    \A c \in Conns :
        conn[c].pc = "write" /\ conn[c].status = 200 /\ config.token # None =>
            conn[c].req.token = config.token
                \/ (config.public /\ conn[c].req.route \in Explorer)

\* The answers of the dashboard keep the four promises above.
AnswersSound == CrawlCoversResolved /\ CutoffSeparates /\ WindowsNest /\ PrivateAnswersAuthorized
=============================================================================
