------------------------------- MODULE ForkSync -------------------------------
(***************************************************************************)
(* Fork-chain nodes that exchange blocks (broadcast_block, peer_sync_loop  *)
(* and sync_from_peer of crates/p2pool-node/src/fork_chain.rs).            *)
(*                                                                         *)
(* A miner, or a peer that announces it, submits a block to a node.  An    *)
(* announcement is sent once and may be late or lost, so it is a request   *)
(* like any other and nothing is promised about it.  Besides, each node    *)
(* asks its peers in turn for their tip height, searches the last common   *)
(* block of the two active chains by bisection and downloads what follows. *)
(* The two chains change during the search.                                *)
(* A store is the set of its blocks and its tip (module ForkChain shows    *)
(* that a restart restores both).                                          *)
(***************************************************************************)
EXTENDS ForkConsensus

CONSTANTS
    Nodes,
    Peers,          \* Peers[n]: the peers node n is configured with
    Idle,
    Clocks,
    MaxLost         \* bound: syncs that fail in the network

VARIABLES
    stored, tip,    \* of each node
    sync,           \* the sync each node is running
    now, lost

vars == <<stored, tip, sync, now, lost>>

\* active_block_hash; Inherited where the active chain has no block.
ActiveHash(n, height) ==
    LET chain == Branch(tip[n])
    IN  IF height \in FirstHeight..Height(tip[n])
        THEN chain[height - FirstHeight + 1] ELSE Inherited

Floor == FirstHeight - 1

Init ==
    /\ stored = [n \in Nodes |-> {}]
    /\ tip = [n \in Nodes |-> Inherited]
    /\ sync = [n \in Nodes |-> Idle]
    /\ now \in Clocks /\ \A c \in Clocks : now <= c
    /\ lost = 0

-----------------------------------------------------------------------------
(* Blocks that arrive in requests.                                         *)

Insert(n, b) ==
    /\ stored' = [stored EXCEPT ![n] = @ \cup {b}]
    /\ tip' = [tip EXCEPT ![n] = ConsiderActiveTip(@, b)]

Accepts(n, b) == b \notin stored[n] /\ BlockValid(stored[n], b, now)

\* A request from a miner or from a peer; a known or invalid block changes
\* nothing.
SubmitBlock(n, b) ==
    /\ Accepts(n, b)
    /\ Insert(n, b)
    /\ UNCHANGED <<sync, now, lost>>

-----------------------------------------------------------------------------
(* One pass of sync_from_peer.                                             *)

Session(stage, m, reached, low, high, mine) ==
    [stage |-> stage, peer |-> m, reached |-> reached, seen |-> tip[m],
     low |-> low, high |-> high, mine |-> mine]

\* remote = client.status()
AskStatus(n, m) ==
    /\ sync[n] = Idle
    /\ sync' = [sync EXCEPT ![n] = Session("status", m, Height(tip[m]), Floor, Floor, Inherited)]
    /\ UNCHANGED <<stored, tip, now, lost>>

\* Mutant: the search starts from the node's own height.
MutReadLocal(n) ==
    /\ sync[n] # Idle /\ sync[n].stage = "status"
    /\ sync' = [sync EXCEPT ![n].stage = "search", ![n].high = Height(tip[n])]
    /\ UNCHANGED <<stored, tip, now, lost>>

\* local = store.status()
ReadLocal(n) ==
    /\ sync[n] # Idle /\ sync[n].stage = "status"
    /\ sync' = [sync EXCEPT ![n].stage = "search",
                            ![n].high = Smaller(Height(tip[n]), sync[n].reached)]
    /\ UNCHANGED <<stored, tip, now, lost>>

Middle(s) == s.low + (s.high - s.low + 1) \div 2

\* The local hash is read before the peer is asked for its own.
ReadHash(n) ==
    /\ sync[n] # Idle /\ sync[n].stage = "search"
    /\ sync[n].low < sync[n].high
    /\ sync' = [sync EXCEPT ![n].stage = "compare",
                            ![n].mine = ActiveHash(n, Middle(sync[n]))]
    /\ UNCHANGED <<stored, tip, now, lost>>

\* Mutant: a height that differs stays in the range.
MutBisect(s, theirs) ==
    IF s.mine # Inherited /\ s.mine = theirs
    THEN [s EXCEPT !.stage = "search", !.mine = Inherited, !.low = Middle(s)]
    ELSE [s EXCEPT !.stage = "search", !.mine = Inherited, !.high = Middle(s)]

Bisect(s, theirs) ==
    IF s.mine # Inherited /\ s.mine = theirs
    THEN [s EXCEPT !.stage = "search", !.mine = Inherited, !.low = Middle(s)]
    ELSE [s EXCEPT !.stage = "search", !.mine = Inherited, !.high = Middle(s) - 1]

CompareHash(n) ==
    /\ sync[n] # Idle /\ sync[n].stage = "compare"
    /\ sync' = [sync EXCEPT ![n] = Bisect(@, ActiveHash(@.peer, Middle(@)))]
    /\ UNCHANGED <<stored, tip, now, lost>>

\* Mutant: the last height is left out.
MutDownloaded(s) == s.low + 1 >= s.reached

\* for height in (low + 1)..=remote.tip_height
Downloaded(s) == s.low >= s.reached

Searched(n) == sync[n] # Idle /\ sync[n].stage = "search" /\ sync[n].low >= sync[n].high

\* The next block is fetched and submitted; a block the peer no longer has,
\* or that is refused, ends the sync.
Download(n) ==
    LET b == ActiveHash(sync[n].peer, sync[n].low + 1)
    IN  /\ Searched(n) /\ ~Downloaded(sync[n])
        /\ IF b # Inherited /\ Accepts(n, b) THEN Insert(n, b) ELSE UNCHANGED <<stored, tip>>
        /\ sync' = [sync EXCEPT ![n] =
                       IF b # Inherited /\ (b \in stored[n] \/ Accepts(n, b))
                       THEN [@ EXCEPT !.low = @ + 1, !.high = sync[n].low + 1] ELSE Idle]
        /\ UNCHANGED <<now, lost>>

Complete(n) ==
    /\ Searched(n) /\ Downloaded(sync[n])
    /\ sync' = [sync EXCEPT ![n] = Idle]
    /\ UNCHANGED <<stored, tip, now, lost>>

\* A call to the peer fails, or the node restarts.
SyncFails(n) ==
    /\ sync[n] # Idle
    /\ lost < MaxLost
    /\ lost' = lost + 1
    /\ sync' = [sync EXCEPT ![n] = Idle]
    /\ UNCHANGED <<stored, tip, now>>

Tick ==
    /\ now' \in {c \in Clocks : c > now}
    /\ UNCHANGED <<stored, tip, sync, lost>>

SyncStep(n) == ReadLocal(n) \/ ReadHash(n) \/ CompareHash(n) \/ Download(n) \/ Complete(n)

Next ==
    \/ \E n \in Nodes, b \in Blocks : SubmitBlock(n, b)
    \/ \E n \in Nodes : \E m \in Peers[n] : AskStatus(n, m)
    \/ \E n \in Nodes : SyncStep(n) \/ SyncFails(n)
    \/ Tick

\* The sync loop of every node keeps turning over its peers, and time passes.
Spec ==
    /\ Init /\ [][Next]_vars
    /\ \A n \in Nodes : WF_vars(SyncStep(n))
    /\ \A n \in Nodes : \A m \in Peers[n] : SF_vars(AskStatus(n, m))
    /\ WF_vars(Tick)

-----------------------------------------------------------------------------
(* Properties.                                                             *)

\* The range of a bisection stays between the inherited tip and the height
\* the peer reported (sync_from_peer).
TypeOK ==
    /\ stored \in [Nodes -> SUBSET Blocks]
    /\ \A n \in Nodes : tip[n] \in stored[n] \cup {Inherited}
    /\ \A n \in Nodes : sync[n] # Idle =>
           /\ sync[n].peer \in Peers[n]
           /\ sync[n].low \in Floor..Larger(sync[n].reached, Floor)
           /\ sync[n].high \in Floor..Larger(sync[n].reached, Floor)
    /\ now \in Clocks /\ lost \in 0..MaxLost

\* A sync that completes while the peer kept its tip leaves the node with
\* that tip or a better one, although the node's own chain may have been
\* reorganised during the search (sync_from_peer).
CatchesUp ==
    \A n \in Nodes :
        Complete(n) /\ sync[n].seen = tip[sync[n].peer] /\ sync[n].seen # Inherited =>
            tip[n] # Inherited /\ ~Better(sync[n].seen, tip[n])
CompletedSyncCatchesUp == [][CatchesUp]_vars

\* A node that restarts, syncs or is reorganised never trades its tip for a
\* worse one.
Improves ==
    \A n \in Nodes : tip'[n] # tip[n] => tip[n] = Inherited \/ Better(tip'[n], tip[n])
TipOnlyImproves == [][Improves]_vars

\* Across nodes the active tip converges (docs/fork-chain-node.md): whatever
\* announcements are lost, all nodes end up with one tip.
Agree == \A n, m \in Nodes : tip[n] = tip[m]
Converges == <>[]Agree

=============================================================================
