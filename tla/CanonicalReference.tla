-------------------------- MODULE CanonicalReference --------------------------
(***************************************************************************)
(* What code governance promises about the canonical reference: it moves   *)
(* only when an accepted proposal made against the current reference runs, *)
(* each proposal is accepted at most once and runs at most once, what is   *)
(* closed stays closed, and every move is appended to the history.         *)
(*                                                                         *)
(* Both engines of crates/governance-core, the per-proposal lifecycle      *)
(* (module Governance) and the epoch-batched one (module EpochGovernance), *)
(* are shown to implement this specification.                              *)
(***************************************************************************)
EXTENDS Sequences

CONSTANTS
    Parent(_),          \* the reference a proposal was made against
    Candidate(_),       \* the reference it proposes
    Genesis

VARIABLES
    canonical,  \* the canonical reference
    moves,      \* the proposals that moved it, in order
    accepted,   \* accepted, neither executed nor closed
    closed      \* rejected, expired, stale, cancelled or executed

Init ==
    /\ canonical = Genesis /\ moves = <<>>
    /\ accepted = {} /\ closed = {}

\* A step may decide several proposals: it accepts some and closes others; what
\* is closed stays closed, and what is accepted stays so until it is closed.
Decide ==
    /\ closed \subseteq closed'
    /\ accepted' \cap closed' = {}
    /\ accepted \subseteq accepted' \cup closed'
    /\ UNCHANGED <<canonical, moves>>

Execute ==
    \E p \in accepted :
        /\ Parent(p) = canonical
        /\ canonical' = Candidate(p)
        /\ moves' = Append(moves, p)
        /\ accepted' = accepted \ {p}
        /\ closed' = closed \cup {p}

Next == Decide \/ Execute

Spec == Init /\ [][Next]_<<canonical, moves, accepted, closed>>
==============================================================================
