-------------------------- MODULE SharechainProofs --------------------------
(***************************************************************************)
(* Machine-checked proofs about Sharechain, for every set of miners,       *)
(* shares and templates.                                                   *)
(***************************************************************************)
EXTENDS Sharechain, FiniteSetTheorems, TLAPS

ClosedIn(C, S) == \A c \in C : Parent[c] \in S => Parent[c] \in C

-----------------------------------------------------------------------------
(* The walk of rebuild_active_branch and share_descends_from.              *)

\* The walk contains its start and goes on to the parent while that is stored.
LEMMA BranchClosed ==
    ASSUME NEW S, NEW s \in S
    PROVE  /\ Branch(S, s) \subseteq S
           /\ s \in Branch(S, s)
           /\ ClosedIn(Branch(S, s), S)
BY DEF Branch, ClosedIn

\* The walk visits nothing else.
LEMMA BranchLeast ==
    ASSUME NEW S, NEW s, NEW C \in SUBSET S, s \in C, ClosedIn(C, S)
    PROVE  Branch(S, s) \subseteq C
BY DEF Branch, ClosedIn

\* From a share whose parent is stored the walk continues with the parent's.
LEMMA BranchExtend ==
    ASSUME NEW S, NEW s \in S, Parent[s] \in S
    PROVE  Branch(S, s) = {s} \cup Branch(S, Parent[s])
<1> DEFINE p == Parent[s]
<1>1. Branch(S, s) \subseteq {s} \cup Branch(S, p)
  <2>1. /\ Branch(S, p) \subseteq S
        /\ p \in Branch(S, p)
        /\ ClosedIn(Branch(S, p), S)
    BY BranchClosed
  <2>2. ClosedIn({s} \cup Branch(S, p), S)
    BY <2>1 DEF ClosedIn
  <2>3. {s} \cup Branch(S, p) \in SUBSET S
    BY <2>1
  <2> HIDE DEF p
  <2> QED BY <2>2, <2>3, BranchLeast
<1>2. Branch(S, p) \subseteq Branch(S, s)
  <2>1. /\ Branch(S, s) \subseteq S
        /\ s \in Branch(S, s)
        /\ ClosedIn(Branch(S, s), S)
    BY BranchClosed
  <2>2. p \in Branch(S, s)
    BY <2>1 DEF ClosedIn
  <2> HIDE DEF p
  <2> QED BY <2>1, <2>2, BranchLeast
<1>3. s \in Branch(S, s)
  BY BranchClosed
<1> QED BY <1>1, <1>2, <1>3

\* From a share whose parent is not stored the walk stops at once.
LEMMA BranchStop ==
    ASSUME NEW S, NEW s \in S, Parent[s] \notin S
    PROVE  Branch(S, s) = {s}
<1>1. ClosedIn({s}, S) /\ {s} \in SUBSET S
  BY DEF ClosedIn
<1> QED BY <1>1, BranchLeast, BranchClosed

\* The walk from a share on a branch stays on that branch.
LEMMA BranchTransitive ==
    ASSUME NEW S, NEW s \in S, NEW t \in Branch(S, s)
    PROVE  Branch(S, t) \subseteq Branch(S, s)
<1>1. Branch(S, s) \in SUBSET S /\ ClosedIn(Branch(S, s), S)
  BY BranchClosed
<1> QED BY <1>1, BranchLeast

\* A new share does not change the branches it is no parent of.
LEMMA BranchGrow ==
    ASSUME NEW S, NEW s \in S, NEW x,
           \A a \in Branch(S, s) : Parent[a] # x
    PROVE  Branch(S \cup {x}, s) = Branch(S, s)
<1> DEFINE T == S \cup {x}
<1>1. /\ Branch(S, s) \subseteq S
      /\ s \in Branch(S, s)
      /\ ClosedIn(Branch(S, s), S)
  BY BranchClosed
<1>2. Branch(T, s) \subseteq Branch(S, s)
  <2>1. ClosedIn(Branch(S, s), T)
    BY <1>1 DEF ClosedIn
  <2>2. Branch(S, s) \in SUBSET T
    BY <1>1
  <2> HIDE DEF T
  <2> QED BY <1>1, <2>1, <2>2, BranchLeast
<1>3. Branch(S, s) \subseteq Branch(T, s)
  <2>1. /\ Branch(T, s) \subseteq T
        /\ s \in Branch(T, s)
        /\ ClosedIn(Branch(T, s), T)
    BY BranchClosed
  <2>2. ClosedIn(Branch(T, s) \cap S, S)
    BY <2>1 DEF ClosedIn
  <2> QED BY <2>1, <2>2, BranchLeast
<1> QED BY <1>2, <1>3

-----------------------------------------------------------------------------
(* The work on a set of shares.                                            *)

Units(A) == {u \in A \X (1..MaxScore) : u[2] <= Delta[u[1]]}

LEMMA WorkOfUnits == \A A : Work(A) = Cardinality(Units(A))
BY DEF Work, Units

LEMMA UnitsFinite ==
    ASSUME NEW A \in SUBSET Shares
    PROVE  IsFiniteSet(Units(A)) /\ Cardinality(Units(A)) \in Nat
<1>1. IsFiniteSet(A)
  BY FS_Subset, ShareAssumption
<1>2. IsFiniteSet(1..MaxScore)
  BY FS_Interval, ShareAssumption
<1>3. IsFiniteSet(A \X (1..MaxScore))
  BY <1>1, <1>2, FS_Product
<1>4. Units(A) \in SUBSET (A \X (1..MaxScore))
  BY DEF Units
<1>5. IsFiniteSet(Units(A))
  BY <1>3, <1>4, FS_Subset
<1> QED BY <1>5, FS_CardinalityType

\* One share is worth its own delta.
LEMMA UnitsOfOne ==
    ASSUME NEW s \in Shares
    PROVE  Cardinality(Units({s})) = Delta[s]
<1> DEFINE f == [i \in 1..Delta[s] |-> <<s, i>>]
<1>1. Delta[s] \in 1..MaxScore /\ MaxScore \in Nat
  BY ShareAssumption
<1>2. f \in Bijection(1..Delta[s], Units({s}))
  <2>1. f \in [1..Delta[s] -> Units({s})]
    BY <1>1 DEF Units
  <2>2. \A i, j \in 1..Delta[s] : f[i] = f[j] => i = j
    OBVIOUS
  <2>3. \A u \in Units({s}) : \E i \in 1..Delta[s] : f[i] = u
    <3> SUFFICES ASSUME NEW u \in Units({s})
                 PROVE  \E i \in 1..Delta[s] : f[i] = u
      OBVIOUS
    <3>1. u = <<s, u[2]>> /\ u[2] \in 1..Delta[s]
      BY <1>1 DEF Units
    <3> QED BY <3>1
  <2> QED BY <2>1, <2>2, <2>3 DEF Bijection, Injection, IsInjective, Surjection
<1>3. IsFiniteSet(1..Delta[s]) /\ Cardinality(1..Delta[s]) = Delta[s]
  BY <1>1, FS_Interval
<1> HIDE DEF f
<1>4. ExistsBijection(1..Delta[s], Units({s}))
  BY <1>2 DEF ExistsBijection
<1> QED BY <1>3, <1>4, FS_Bijection

LEMMA WorkEmpty == Work({}) = 0
<1>1. Units({}) = {}
  BY DEF Units
<1> QED BY <1>1, WorkOfUnits, FS_EmptySet

\* A share that is not yet in the set adds its delta, once.
LEMMA WorkAdd ==
    ASSUME NEW A \in SUBSET Shares, NEW s \in Shares, s \notin A
    PROVE  Work({s} \cup A) = Work(A) + Delta[s] /\ Work(A) \in Nat
<1>1. Units({s} \cup A) = Units(A) \cup Units({s})
  BY DEF Units
<1>2. Units(A) \cap Units({s}) = {}
  BY DEF Units
<1>3. /\ IsFiniteSet(Units(A)) /\ Cardinality(Units(A)) \in Nat
      /\ IsFiniteSet(Units({s}))
  BY UnitsFinite
<1>4. Cardinality(Units(A) \cup Units({s}))
         = Cardinality(Units(A)) + Cardinality(Units({s}))
              - Cardinality(Units(A) \cap Units({s}))
  BY <1>3, FS_Union
<1>5. Cardinality(Units(A) \cap Units({s})) = 0
  BY <1>2, FS_EmptySet
<1>6. Cardinality(Units({s})) = Delta[s] /\ Delta[s] \in Nat
  BY UnitsOfOne, ShareAssumption
<1>7. /\ Work({s} \cup A) = Cardinality(Units({s} \cup A))
      /\ Work(A) = Cardinality(Units(A))
  BY WorkOfUnits
<1>8. Work({s} \cup A) = Cardinality(Units(A) \cup Units({s}))
  BY <1>1, <1>7
<1> QED BY <1>3, <1>4, <1>5, <1>6, <1>7, <1>8

-----------------------------------------------------------------------------
(* Type correctness.                                                       *)

LEMMA UpdateType ==
    ASSUME NEW D, NEW R, NEW f \in [D -> R], NEW x \in D, NEW v \in R
    PROVE  [f EXCEPT ![x] = v] \in [D -> R]
OBVIOUS

LEMMA WorkType ==
    ASSUME NEW A \in SUBSET Shares
    PROVE  Work(A) \in Nat
BY UnitsFinite, WorkOfUnits

LEMMA RebuildType ==
    ASSUME TypeOK, NEW s \in stored, RebuildActiveBranch(s)
    PROVE  /\ best' \in Shares
           /\ active' \subseteq stored
           /\ total' \in Nat
           /\ hashrate' \in [Miners -> Nat]
<1>1. active' \subseteq stored /\ stored \subseteq Shares
  BY DEF RebuildActiveBranch, Branch, TypeOK
<1>2. total' \in Nat
  BY <1>1, WorkType DEF RebuildActiveBranch
<1>3. \A m \in Miners : Work(MinedBy(active', m)) \in Nat
  BY <1>1, WorkType DEF MinedBy
<1> QED BY <1>1, <1>2, <1>3 DEF RebuildActiveBranch, TypeOK

LEMMA ConsiderType ==
    ASSUME TypeOK, NEW s \in stored, ConsiderResolvedShare(s)
    PROVE  /\ best' \in Shares \cup {NoTip}
           /\ active' \subseteq stored
           /\ total' \in Nat
           /\ hashrate' \in [Miners -> Nat]
<1>1. CASE RebuildActiveBranch(s)
  BY <1>1, RebuildType
<1>2. CASE ExtendActiveBranch(s)
  <2>1. s \in Shares /\ MinerOf[s] \in Miners /\ Delta[s] \in Nat
    BY ShareAssumption DEF TypeOK
  <2>2. total' \in Nat /\ hashrate' \in [Miners -> Nat]
    <3>1. hashrate \in [Miners -> Nat] /\ total \in Nat
      BY DEF TypeOK
    <3>2. hashrate[MinerOf[s]] + Delta[s] \in Nat /\ total + Delta[s] \in Nat
      BY <2>1, <3>1
    <3>3. /\ hashrate' = [hashrate EXCEPT ![MinerOf[s]] =
                             hashrate[MinerOf[s]] + Delta[s]]
          /\ total' = total + Delta[s]
      BY <1>2 DEF ExtendActiveBranch
    <3> QED BY <2>1, <3>1, <3>2, <3>3, UpdateType
  <2> QED BY <1>2, <2>1, <2>2 DEF ExtendActiveBranch, TypeOK
<1>3. CASE UNCHANGED activeVars
  BY <1>3 DEF activeVars, TypeOK
<1>4. \/ RebuildActiveBranch(s)
      \/ ExtendActiveBranch(s)
      \/ UNCHANGED activeVars
  BY Zenon DEF ConsiderResolvedShare
<1> QED BY <1>1, <1>2, <1>3, <1>4

LEMMA TypeInductive == TypeOK /\ [Next]_vars => TypeOK'
<1> SUFFICES ASSUME TypeOK, [Next]_vars PROVE TypeOK'
  OBVIOUS
<1> USE ShareAssumption, RegistrationAssumption
<1>1. ASSUME NEW m \in Miners, NEW k \in 0..MaxSeq, ApplyRegistration(m, k)
      PROVE  TypeOK'
  <2>1. k \in -1..MaxSeq
    OBVIOUS
  <2>2. reg' \in [Miners -> -1..MaxSeq]
    BY <1>1, <2>1 DEF ApplyRegistration, TypeOK
  <2> QED BY <1>1, <2>2 DEF ApplyRegistration, TypeOK, treeVars, activeVars
<1>2. ASSUME NEW t \in Templates, AcceptTemplate(t)
      PROVE  TypeOK'
  BY <1>2 DEF AcceptTemplate, TypeOK, treeVars, activeVars
<1>3. ASSUME NEW t \in Templates, NEW m \in Miners, ApplyTemplate(t, m)
      PROVE  TypeOK'
  BY <1>3 DEF ApplyTemplate, TypeOK, treeVars, activeVars
<1>4. ASSUME NEW s \in Shares, ApplyShare(s)
      PROVE  TypeOK'
  BY <1>4 DEF ApplyShare, TypeOK, inputVars, activeVars
<1>5. ASSUME NEW s \in frontier, ResolveShare(s)
      PROVE  TypeOK'
  <2>1. s \in stored /\ s \in Shares
    BY DEF TypeOK
  <2>2. ParentScore(s) \in Nat /\ ParentHeight(s) \in Nat
    BY <1>5, <2>1 DEF ResolveShare, Resolvable, Resolved, ParentScore,
                      ParentHeight, TypeOK
  <2>3. score' \in [Shares -> 0..MaxScore] /\ height' \in [Shares -> Nat]
    <3>1. Delta[s] \in Nat
      BY <2>1
    <3>2. ParentScore(s) + Delta[s] \in 0..MaxScore
      BY <1>5, <2>2, <3>1 DEF ResolveShare
    <3>3. score' = [score EXCEPT ![s] = ParentScore(s) + Delta[s]]
      BY <1>5 DEF ResolveShare
    <3>4. score \in [Shares -> 0..MaxScore]
      BY DEF TypeOK
    <3>5. score' \in [Shares -> 0..MaxScore]
      BY <2>1, <3>2, <3>3, <3>4, UpdateType
    <3>6. height' \in [Shares -> Nat]
      <4>1. height' = [height EXCEPT ![s] = ParentHeight(s) + 1]
        BY <1>5 DEF ResolveShare
      <4>2. height \in [Shares -> Nat]
        BY DEF TypeOK
      <4>3. ParentHeight(s) + 1 \in Nat
        BY <2>2
      <4> QED BY <2>1, <4>1, <4>2, <4>3, UpdateType
    <3> QED BY <3>5, <3>6
  <2>4. frontier' \subseteq stored
    BY <1>5 DEF ResolveShare, Children, TypeOK
  <2>5. /\ best' \in Shares \cup {NoTip}
        /\ active' \subseteq stored
        /\ total' \in Nat
        /\ hashrate' \in [Miners -> Nat]
    BY <1>5, <2>1, ConsiderType DEF ResolveShare
  <2> QED BY <1>5, <2>3, <2>4, <2>5 DEF ResolveShare, TypeOK, inputVars
<1>6. ASSUME NEW s \in frontier, SkipShare(s)
      PROVE  TypeOK'
  BY <1>6 DEF SkipShare, TypeOK, inputVars, activeVars
<1>7. ASSUME NEW s \in frontier, DropState(s)
      PROVE  TypeOK'
  BY <1>7 DEF DropState, TypeOK, NoReg, NoTip
<1>8. ASSUME NEW tip \in Shares, NEW block \in Blocks,
             ApplyCheckpoint(tip, block)
      PROVE  TypeOK'
  <2>1. tip \in stored
    BY <1>8 DEF ApplyCheckpoint, Resolved
  <2>2. /\ best' \in Shares
        /\ active' \subseteq stored
        /\ total' \in Nat
        /\ hashrate' \in [Miners -> Nat]
    BY <1>8, <2>1, RebuildType DEF ApplyCheckpoint
  <2>3. checkpoints' \in Seq([tip : Shares, block : Blocks])
    BY <1>8 DEF ApplyCheckpoint, TypeOK
  <2> QED BY <1>8, <2>2, <2>3 DEF ApplyCheckpoint, TypeOK, inputVars, treeVars
<1>9. CASE UNCHANGED vars
  BY <1>9 DEF vars, TypeOK
<1> QED BY <1>1, <1>2, <1>3, <1>4, <1>5, <1>6, <1>7, <1>8, <1>9 DEF Next

\* Every reachable replay state is well typed; in particular no score ever
\* exceeds MaxScore, although scores are sums over branches of any length.
THEOREM TypeCorrect == Spec => []TypeOK
<1>1. Init => TypeOK
  BY ShareAssumption, RegistrationAssumption DEF Init, TypeOK, NoReg, NoTip
<1> QED BY <1>1, TypeInductive, PTL DEF Spec

-----------------------------------------------------------------------------
(* The inductive invariant.                                                *)

\* How far the walk over descendants has come: a resolved share's score is
\* its parent's plus its delta, shares in the queue are unresolved, and a
\* share that could be resolved is resolved unless it is still in the queue.
Resolution ==
    /\ \A s \in Shares : score[s] > 0 =>
          /\ s \in stored
          /\ Resolvable(s)
          /\ score[s] = ParentScore(s) + Delta[s]
    /\ \A s \in frontier : score[s] = 0
    /\ \A s \in stored \ frontier : Resolvable(s) => score[s] > 0

\* The tip is best among the resolved shares, by the scores they carry.
BestIsHeaviest ==
    checkpoints = <<>> =>
        \A s \in Resolved \ {best} :
            best # NoTip /\ (score[best] > score[s]
                              \/ (score[best] = score[s] /\ best < s))

LatestIsBest == checkpoints # <<>> => best = Latest.tip

TreeInv ==
    /\ Resolution
    /\ BranchAccounting
    /\ ScoreIsBranchWork
    /\ BestIsHeaviest
    /\ LatestIsBest
    /\ CheckpointsNest

IInv == TypeOK /\ TreeInv

\* The branch of a resolved share consists of resolved shares.
LEMMA ResolvedBranch ==
    ASSUME TypeOK, Resolution, NEW s \in Resolved
    PROVE  Branch(stored, s) \subseteq Resolved
<1>1. Resolved \in SUBSET stored
  BY DEF Resolved
<1>2. ClosedIn(Resolved, stored)
  BY ShareAssumption
     DEF ClosedIn, Resolution, Resolvable, Resolved, Root, TypeOK
<1> QED BY <1>1, <1>2, BranchLeast

\* What the walk from a share about to be resolved will find.
LEMMA ResolvableBranch ==
    ASSUME TypeOK, Resolution, NEW s \in frontier, Resolvable(s)
    PROVE  /\ Parent[s] = Root => Branch(stored, s) = {s}
           /\ Parent[s] # Root =>
                 /\ Parent[s] \in Resolved
                 /\ Branch(stored, s) = {s} \cup Branch(stored, Parent[s])
                 /\ s \notin Branch(stored, Parent[s])
<1>1. s \in stored /\ s \notin Resolved /\ Root \notin stored
  BY ShareAssumption DEF TypeOK, Resolution, Resolved, Root
<1>2. CASE Parent[s] = Root
  BY <1>1, <1>2, BranchStop
<1>3. CASE Parent[s] # Root
  <2>1. Parent[s] \in Resolved /\ Parent[s] \in stored
    BY <1>3 DEF Resolvable, Resolved
  <2>2. Branch(stored, s) = {s} \cup Branch(stored, Parent[s])
    BY <1>1, <2>1, BranchExtend
  <2>3. Branch(stored, Parent[s]) \subseteq Resolved
    BY <2>1, ResolvedBranch
  <2> QED BY <1>1, <1>3, <2>1, <2>2, <2>3
<1> QED BY <1>2, <1>3

LEMMA LastInRange ==
    ASSUME NEW R, NEW q \in Seq(R), q # <<>>
    PROVE  q[Len(q)] \in R
OBVIOUS

\* Every finalized tip is resolved.
LEMMA TipsResolved ==
    ASSUME IInv, NEW j \in 1..Len(checkpoints)
    PROVE  checkpoints[j].tip \in Resolved
<1>1. checkpoints # <<>> /\ Len(checkpoints) \in Nat
  BY DEF IInv, TreeInv, TypeOK
<1>2. best = Latest.tip /\ best \in Shares
  <2>1. checkpoints \in Seq([tip : Shares, block : Blocks])
    BY DEF IInv, TreeInv, TypeOK
  <2>2. Latest \in [tip : Shares, block : Blocks]
    BY <1>1, <2>1, LastInRange DEF Latest
  <2> QED BY <1>1, <2>2 DEF IInv, TreeInv, LatestIsBest
<1>3. best \in Resolved
  BY <1>2, ShareAssumption DEF IInv, TreeInv, BranchAccounting, NoTip
<1>4. CASE j = Len(checkpoints)
  BY <1>2, <1>3, <1>4 DEF Latest
<1>5. CASE j < Len(checkpoints)
  <2>1. checkpoints[j].tip \in Branch(stored, best)
    BY <1>2, <1>5 DEF IInv, TreeInv, CheckpointsNest, Latest
  <2> QED BY <1>3, <2>1, ResolvedBranch DEF IInv, TreeInv
<1> QED BY <1>1, <1>4, <1>5

\* Registrations and templates, and a stutter, touch none of it.
LEMMA FrameStep ==
    ASSUME IInv,
           UNCHANGED <<stored, score, frontier, best, active, total, hashrate,
                       checkpoints>>
    PROVE  TreeInv'
<1>1. Resolution'
  BY DEF IInv, TreeInv, Resolution, Resolvable, ParentScore, Resolved
<1>2. BranchAccounting'
  BY DEF IInv, TreeInv, BranchAccounting, Resolved
<1>3. ScoreIsBranchWork' /\ BestIsHeaviest'
  BY DEF IInv, TreeInv, ScoreIsBranchWork, BestIsHeaviest, Resolved
<1>4. LatestIsBest' /\ CheckpointsNest'
  BY DEF IInv, TreeInv, LatestIsBest, CheckpointsNest, Latest
<1> QED BY <1>1, <1>2, <1>3, <1>4 DEF TreeInv

\* A stored but unresolved share changes no branch and no accounting.
LEMMA ApplyShareStep ==
    ASSUME IInv, NEW x \in Shares, ApplyShare(x)
    PROVE  TreeInv'
<1>1. /\ x \notin stored /\ x # Root
      /\ stored' = stored \cup {x}
      /\ frontier = {} /\ frontier' = {x}
      /\ UNCHANGED <<score, best, active, total, hashrate, checkpoints>>
  BY ShareAssumption DEF ApplyShare, Idle, activeVars, Root
<1>2. score[x] = 0
  BY <1>1 DEF IInv, TreeInv, TypeOK, Resolution
<1>3. Resolved' = Resolved
  BY <1>1, <1>2 DEF Resolved
<1>4. \A s : Resolvable(s)' <=> Resolvable(s)
  BY <1>3 DEF Resolvable
<1>5. \A s \in Resolved : Branch(stored', s) = Branch(stored, s)
  <2> SUFFICES ASSUME NEW s \in Resolved
               PROVE  Branch(stored \cup {x}, s) = Branch(stored, s)
    BY <1>1
  <2>1. Branch(stored, s) \subseteq Resolved
    BY ResolvedBranch DEF IInv, TreeInv
  <2>2. \A a \in Branch(stored, s) : Parent[a] # x
    BY <1>1, <2>1 DEF IInv, TreeInv, Resolution, Resolvable, Resolved, TypeOK
  <2> QED BY <2>2, BranchGrow DEF Resolved
<1>6. Resolution'
  BY <1>1, <1>2, <1>4 DEF IInv, TreeInv, Resolution, ParentScore
<1>7. BranchAccounting'
  BY <1>1, <1>3, <1>5 DEF IInv, TreeInv, BranchAccounting
<1>8. ScoreIsBranchWork' /\ BestIsHeaviest'
  BY <1>1, <1>3, <1>5 DEF IInv, TreeInv, ScoreIsBranchWork, BestIsHeaviest
<1>9. LatestIsBest'
  BY <1>1 DEF IInv, TreeInv, LatestIsBest, Latest
<1>10. CheckpointsNest'
  BY <1>1, <1>5, TipsResolved DEF IInv, TreeInv, CheckpointsNest
<1> QED BY <1>6, <1>7, <1>8, <1>9, <1>10 DEF TreeInv

\* A share in the queue that cannot be resolved just leaves the queue.
LEMMA SkipShareStep ==
    ASSUME IInv, NEW s \in frontier, SkipShare(s)
    PROVE  TreeInv'
<1>1. /\ ~Resolvable(s)
      /\ frontier' = frontier \ {s}
      /\ UNCHANGED <<stored, score, best, active, total, hashrate,
                     checkpoints>>
  BY DEF SkipShare, activeVars
<1>2. Resolution'
  BY <1>1 DEF IInv, TreeInv, Resolution, Resolvable, ParentScore, Resolved
<1>3. BranchAccounting'
  BY <1>1 DEF IInv, TreeInv, BranchAccounting, Resolved
<1>4. ScoreIsBranchWork' /\ BestIsHeaviest'
  BY <1>1 DEF IInv, TreeInv, ScoreIsBranchWork, BestIsHeaviest, Resolved
<1>5. LatestIsBest' /\ CheckpointsNest'
  BY <1>1 DEF IInv, TreeInv, LatestIsBest, CheckpointsNest, Latest
<1> QED BY <1>2, <1>3, <1>4, <1>5 DEF TreeInv

\* The new object starts empty.
LEMMA EmptyState ==
    ASSUME stored = {}, score = [t \in Shares |-> 0], frontier = {},
           best = NoTip, active = {}, total = 0,
           hashrate = [m \in Miners |-> 0], checkpoints = <<>>
    PROVE  TreeInv
<1>1. Resolution /\ ScoreIsBranchWork /\ BestIsHeaviest
  BY DEF Resolution, ScoreIsBranchWork, BestIsHeaviest, Resolved
<1>2. \A m : MinedBy({}, m) = {}
  BY DEF MinedBy
<1>3. BranchAccounting
  BY <1>2, WorkEmpty DEF BranchAccounting
<1>4. LatestIsBest /\ CheckpointsNest
  BY DEF LatestIsBest, CheckpointsNest
<1> QED BY <1>1, <1>3, <1>4 DEF TreeInv

\* Rebuilding the active branch on a resolved tip restores the accounting.
LEMMA RebuildAccounting ==
    ASSUME NEW s \in Shares, UNCHANGED stored, RebuildActiveBranch(s),
           s \in Resolved'
    PROVE  BranchAccounting' /\ best' = s
BY ShareAssumption DEF RebuildActiveBranch, BranchAccounting, NoTip

\* The next checkpoint moves the active branch to a descendant.
LEMMA ApplyCheckpointStep ==
    ASSUME IInv, NEW tip \in Shares, NEW block \in Blocks,
           ApplyCheckpoint(tip, block)
    PROVE  TreeInv'
<1> DEFINE n == Len(checkpoints)
           new == [tip |-> tip, block |-> block]
<1>1. /\ tip \in Resolved
      /\ checkpoints # <<>> => Latest.tip \in Branch(stored, tip)
      /\ checkpoints' = Append(checkpoints, new)
      /\ RebuildActiveBranch(tip)
      /\ UNCHANGED <<stored, score, frontier>>
  BY DEF ApplyCheckpoint, treeVars
<1>2. Resolved' = Resolved
  BY <1>1 DEF Resolved
<1>3. /\ n \in Nat
      /\ Len(checkpoints') = n + 1
      /\ checkpoints' # <<>>
      /\ checkpoints'[n + 1] = new
      /\ \A i \in 1..n : checkpoints'[i] = checkpoints[i]
  BY <1>1 DEF IInv, TreeInv, TypeOK
<1>4. Resolution'
  BY <1>1 DEF IInv, TreeInv, Resolution, Resolvable, ParentScore, Resolved
<1>5. BranchAccounting' /\ best' = tip
  BY <1>1, <1>2, RebuildAccounting
<1>6. ScoreIsBranchWork'
  BY <1>1, <1>2 DEF IInv, TreeInv, ScoreIsBranchWork
<1>7. BestIsHeaviest'
  BY <1>3 DEF BestIsHeaviest
<1>8. LatestIsBest'
  BY <1>3, <1>5 DEF LatestIsBest, Latest
<1>9. CheckpointsNest'
  <2> SUFFICES ASSUME NEW i \in 1..(n + 1), NEW j \in 1..(n + 1), i < j
               PROVE  checkpoints'[i].tip
                         \in Branch(stored, checkpoints'[j].tip)
    BY <1>1, <1>3 DEF CheckpointsNest
  <2>1. CASE j <= n
    BY <1>3, <2>1 DEF IInv, TreeInv, CheckpointsNest
  <2>2. CASE j = n + 1
    <3>1. i \in 1..n /\ checkpoints'[i] = checkpoints[i]
      BY <1>3, <2>2
    <3>2. checkpoints'[j].tip = tip
      BY <1>3, <2>2
    <3>3. checkpoints # <<>> /\ n \in 1..n
      BY <1>3, <3>1 DEF IInv, TreeInv, TypeOK
    <3>4. checkpoints[i].tip \in Branch(stored, Latest.tip)
      <4>1. CASE i < n
        BY <3>1, <3>3, <4>1 DEF IInv, TreeInv, CheckpointsNest, Latest
      <4>2. CASE i = n
        <5>1. checkpoints[n].tip \in stored
          BY <3>3, TipsResolved DEF Resolved
        <5> QED BY <4>2, <5>1, BranchClosed DEF Latest
      <4> QED BY <1>3, <3>1, <4>1, <4>2
    <3>5. Branch(stored, Latest.tip) \subseteq Branch(stored, tip)
      BY <1>1, <3>3, BranchTransitive DEF Resolved
    <3> QED BY <3>1, <3>2, <3>4, <3>5
  <2> QED BY <1>3, <2>1, <2>2
<1> QED BY <1>4, <1>5, <1>6, <1>7, <1>8, <1>9 DEF TreeInv

\* Counting one more share on top of the active branch gives the same as
\* rebuilding it: this is what the fast path relies on.
LEMMA ExtendAccounting ==
    ASSUME IInv, NEW s \in frontier, Resolvable(s), UNCHANGED stored,
           best # NoTip, Parent[s] = best,
           ExtendActiveBranch(s), s \in Resolved'
    PROVE  BranchAccounting' /\ best' = s
<1>1. /\ s \in Shares /\ s # NoTip /\ best # Root
      /\ Delta[s] \in Nat /\ MinerOf[s] \in Miners
  BY ShareAssumption DEF IInv, TreeInv, TypeOK, NoTip, Root
<1>2. /\ active = Branch(stored, best)
      /\ total = Work(active)
      /\ \A m \in Miners : hashrate[m] = Work(MinedBy(active, m))
  BY DEF IInv, TreeInv, BranchAccounting
<1>3. /\ Branch(stored, s) = {s} \cup active
      /\ s \notin active
  BY <1>1, <1>2, ResolvableBranch DEF IInv, TreeInv
<1>4. active \in SUBSET Shares
  BY DEF IInv, TreeInv, TypeOK
<1>5. /\ active' = {s} \cup active
      /\ total' = total + Delta[s]
      /\ hashrate' = [hashrate EXCEPT ![MinerOf[s]] =
                         hashrate[MinerOf[s]] + Delta[s]]
      /\ best' = s
  BY DEF ExtendActiveBranch
<1>6. total' = Work(active')
  BY <1>1, <1>2, <1>3, <1>4, <1>5, WorkAdd
<1>7. \A m \in Miners : hashrate'[m] = Work(MinedBy(active', m))
  <2> SUFFICES ASSUME NEW m \in Miners
               PROVE  hashrate'[m] = Work(MinedBy(active', m))
    OBVIOUS
  <2>1. hashrate \in [Miners -> Nat]
    BY DEF IInv, TreeInv, TypeOK
  <2>2. CASE m = MinerOf[s]
    <3>1. MinedBy(active', m) = {s} \cup MinedBy(active, m)
      BY <1>5, <2>2 DEF MinedBy
    <3>2. s \notin MinedBy(active, m) /\ MinedBy(active, m) \in SUBSET Shares
      BY <1>3, <1>4 DEF MinedBy
    <3>3. Work({s} \cup MinedBy(active, m))
             = Work(MinedBy(active, m)) + Delta[s]
      BY <1>1, <3>2, WorkAdd
    <3>4. hashrate'[m] = hashrate[m] + Delta[s]
      BY <1>5, <2>1, <2>2
    <3> QED BY <1>2, <3>1, <3>3, <3>4
  <2>3. CASE m # MinerOf[s]
    <3>1. MinedBy(active', m) = MinedBy(active, m)
      BY <1>5, <2>3 DEF MinedBy
    <3>2. hashrate'[m] = hashrate[m]
      BY <1>5, <2>1, <2>3
    <3> QED BY <1>2, <3>1, <3>2
  <2> QED BY <2>2, <2>3
<1> QED BY <1>1, <1>3, <1>5, <1>6, <1>7 DEF BranchAccounting

\* Resolving a share gives it its branch's work and keeps the tip heaviest.
LEMMA ResolveShareStep ==
    ASSUME IInv, NEW s \in frontier, ResolveShare(s)
    PROVE  TreeInv'
<1> DEFINE new == ParentScore(s) + Delta[s]
<1>1. /\ Resolvable(s)
      /\ score' = [score EXCEPT ![s] = new]
      /\ ConsiderResolvedShare(s)
      /\ frontier' = (frontier \ {s}) \cup Children(s)
      /\ UNCHANGED <<stored, checkpoints>>
  BY DEF ResolveShare
<1>2. /\ s \in stored /\ s \in Shares /\ s # Root /\ s # NoTip
      /\ s \notin Resolved
      /\ stored \subseteq Shares /\ frontier \subseteq stored
      /\ score \in [Shares -> Nat]
      /\ Delta[s] \in Nat /\ Delta[s] > 0
  BY ShareAssumption DEF IInv, TreeInv, TypeOK, Resolution, Resolved, Root, NoTip
<1>3. ParentScore(s) \in Nat
  BY <1>1, <1>2 DEF ParentScore, Resolvable, Resolved
<1>4. /\ score'[s] = new /\ new \in Nat /\ new > 0
      /\ \A t \in Shares \ {s} : score'[t] = score[t]
  BY <1>1, <1>2, <1>3
<1> HIDE DEF new
<1>5. Resolved' = Resolved \cup {s}
  BY <1>1, <1>2, <1>4 DEF Resolved
<1>6. \A t \in Shares : score[t] > 0 => Parent[t] # s
  BY <1>2 DEF IInv, TreeInv, Resolution, Resolvable
<1>7. Parent[s] # s
  BY <1>1, <1>2 DEF Resolvable
<1>8. Resolution'
  <2>1. ASSUME NEW t \in Shares, score'[t] > 0
        PROVE  /\ t \in stored' /\ Resolvable(t)'
               /\ score'[t] = ParentScore(t)' + Delta[t]
    <3>1. CASE t = s
      <4>1. ParentScore(s)' = ParentScore(s)
        BY <1>1, <1>2, <1>4, <1>7 DEF ParentScore, Resolvable, Resolved
      <4>2. Resolvable(s)'
        BY <1>1, <1>5 DEF Resolvable
      <4> QED BY <1>1, <1>2, <1>4, <3>1, <4>1, <4>2 DEF new
    <3>2. CASE t # s
      <4>1. /\ score[t] > 0 /\ score'[t] = score[t]
            /\ t \in stored /\ Resolvable(t)
            /\ score[t] = ParentScore(t) + Delta[t]
        BY <1>4, <2>1, <3>2 DEF IInv, TreeInv, Resolution
      <4>2. ParentScore(t)' = ParentScore(t)
        BY <1>2, <1>4, <1>6, <4>1 DEF ParentScore, Resolvable, Resolved
      <4>3. Resolvable(t)'
        BY <1>5, <4>1 DEF Resolvable
      <4> QED BY <1>1, <4>1, <4>2, <4>3
    <3> QED BY <3>1, <3>2
  <2>2. ASSUME NEW t \in frontier'
        PROVE  score'[t] = 0
    <3>1. CASE t \in frontier \ {s}
      BY <1>2, <1>4, <3>1 DEF IInv, TreeInv, Resolution
    <3>2. CASE t \in Children(s)
      <4>1. t \in Shares /\ Parent[t] = s /\ t # s
        BY <1>2, <1>7, <3>2 DEF Children
      <4>2. ~(score[t] > 0)
        BY <1>6, <4>1
      <4> QED BY <1>2, <1>4, <4>1, <4>2
    <3> QED BY <1>1, <2>2, <3>1, <3>2
  <2>3. ASSUME NEW t \in stored' \ frontier', Resolvable(t)'
        PROVE  score'[t] > 0
    <3>1. CASE t = s
      BY <1>4, <3>1
    <3>2. CASE t # s
      <4>1. t \in stored /\ t \notin frontier /\ Parent[t] # s
        BY <1>1, <2>3, <3>2 DEF Children
      <4>2. Resolvable(t)
        BY <1>5, <2>3, <4>1 DEF Resolvable
      <4> QED BY <1>2, <1>4, <3>2, <4>1, <4>2 DEF IInv, TreeInv, Resolution
    <3> QED BY <3>1, <3>2
  <2> QED BY <2>1, <2>2, <2>3 DEF Resolution
<1>9. ScoreIsBranchWork'
  <2>1. new = Work(Branch(stored, s))
    <3>1. CASE Parent[s] = Root
      <4>1. Branch(stored, s) = {s} \cup {}
        BY <1>1, <3>1, ResolvableBranch DEF IInv, TreeInv
      <4>2. Work({s} \cup {}) = Work({}) + Delta[s]
        BY <1>2, WorkAdd
      <4> QED BY <1>2, <3>1, <4>1, <4>2, WorkEmpty DEF new, ParentScore
    <3>2. CASE Parent[s] # Root
      <4> DEFINE B == Branch(stored, Parent[s])
      <4>1. /\ Parent[s] \in Resolved
            /\ Branch(stored, s) = {s} \cup B
            /\ s \notin B
        BY <1>1, <3>2, ResolvableBranch DEF IInv, TreeInv
      <4>2. B \in SUBSET Shares
        BY <1>2 DEF Branch
      <4>3. Work({s} \cup B) = Work(B) + Delta[s]
        BY <1>2, <4>1, <4>2, WorkAdd
      <4>4. score[Parent[s]] = Work(B)
        BY <4>1 DEF IInv, TreeInv, ScoreIsBranchWork
      <4> QED BY <3>2, <4>1, <4>3, <4>4 DEF new, ParentScore
    <3> QED BY <3>1, <3>2
  <2>2. ASSUME NEW t \in Resolved', t # s
        PROVE  score'[t] = Work(Branch(stored, t))
    BY <1>2, <1>4, <1>5, <2>2 DEF IInv, TreeInv, ScoreIsBranchWork, Resolved
  <2> QED BY <1>1, <1>4, <2>1, <2>2 DEF ScoreIsBranchWork
<1>10. s \in Resolved' /\ UNCHANGED stored
  BY <1>1, <1>5
<1> DEFINE better == checkpoints = <<>> /\ (best = NoTip \/ Better(s, best))
<1>11. CASE better
  <2>1. BranchAccounting' /\ best' = s
    <3>1. CASE best # NoTip /\ Parent[s] = best /\ best \in active
      <4>1. ExtendActiveBranch(s)
        BY <1>1, <1>11, <3>1, Zenon DEF ConsiderResolvedShare
      <4> QED BY <1>1, <1>10, <3>1, <4>1, ExtendAccounting
    <3>2. CASE ~(best # NoTip /\ Parent[s] = best /\ best \in active)
      <4>1. RebuildActiveBranch(s)
        BY <1>1, <1>11, <3>2, Zenon DEF ConsiderResolvedShare
      <4> QED BY <1>2, <1>10, <4>1, RebuildAccounting
    <3> QED BY <3>1, <3>2
  <2>2. BestIsHeaviest'
    <3> SUFFICES ASSUME NEW t \in Resolved, t # s
                 PROVE  score'[s] > score'[t]
                           \/ (score'[s] = score'[t] /\ s < t)
      BY <1>2, <1>5, <2>1 DEF BestIsHeaviest
    <3>1. /\ t \in Shares /\ t \in Nat /\ s \in Nat /\ t # NoTip
          /\ score'[t] = score[t] /\ score[t] \in Nat
      BY <1>2, <1>4, ShareAssumption DEF Resolved, NoTip
    <3>2. best # NoTip /\ best \in Resolved
      BY <1>11, <3>1 DEF IInv, TreeInv, BestIsHeaviest, BranchAccounting
    <3>3. Better(s, best) /\ best \in Nat /\ score[best] \in Nat
      BY <1>2, <1>11, <3>2, ShareAssumption DEF Resolved
    <3>4. t # best => score[best] > score[t]
                        \/ (score[best] = score[t] /\ best < t)
      BY <1>11, <3>2 DEF IInv, TreeInv, BestIsHeaviest
    <3> QED BY <1>4, <3>1, <3>3, <3>4 DEF Better
  <2>3. LatestIsBest' /\ CheckpointsNest'
    BY <1>1, <1>11 DEF LatestIsBest, CheckpointsNest
  <2> QED BY <1>8, <1>9, <2>1, <2>2, <2>3 DEF TreeInv
<1>12. CASE ~better
  <2>1. UNCHANGED <<best, active, total, hashrate>>
    <3>1. UNCHANGED activeVars
      BY <1>1, <1>12, Zenon DEF ConsiderResolvedShare
    <3> QED BY <3>1 DEF activeVars
  <2>2. BranchAccounting'
    BY <1>1, <1>5, <2>1 DEF IInv, TreeInv, BranchAccounting
  <2>3. BestIsHeaviest'
    <3> SUFFICES ASSUME checkpoints = <<>>, NEW t \in Resolved', t # best
                 PROVE  best # NoTip /\ (score'[best] > score'[t]
                           \/ (score'[best] = score'[t] /\ best < t))
      BY <1>1, <2>1 DEF BestIsHeaviest
    <3>1. best # NoTip /\ ~Better(s, best)
      BY <1>12
    <3>2. best \in Resolved /\ best # s
      BY <1>2, <3>1 DEF IInv, TreeInv, BranchAccounting
    <3>3. /\ best \in Nat /\ s \in Nat /\ score[best] \in Nat
          /\ score'[best] = score[best]
      BY <1>2, <1>4, <3>2, ShareAssumption DEF Resolved
    <3>4. CASE t = s
      BY <1>4, <3>1, <3>2, <3>3, <3>4 DEF Better
    <3>5. CASE t # s
      <4>1. t \in Resolved /\ score'[t] = score[t]
        BY <1>2, <1>4, <1>5, <3>5 DEF Resolved
      <4> QED BY <3>1, <3>3, <4>1 DEF IInv, TreeInv, BestIsHeaviest
    <3> QED BY <3>4, <3>5
  <2>4. LatestIsBest' /\ CheckpointsNest'
    BY <1>1, <2>1 DEF IInv, TreeInv, LatestIsBest, CheckpointsNest, Latest
  <2> QED BY <1>8, <1>9, <2>2, <2>3, <2>4 DEF TreeInv
<1> QED BY <1>11, <1>12

LEMMA InitInv == Init => IInv
<1> SUFFICES ASSUME Init PROVE IInv
  OBVIOUS
<1>1. TypeOK
  BY ShareAssumption, RegistrationAssumption DEF Init, TypeOK, NoReg, NoTip
<1> QED BY <1>1, EmptyState DEF Init, IInv

LEMMA NextInv == IInv /\ [Next]_vars => IInv'
<1> SUFFICES ASSUME IInv, [Next]_vars PROVE IInv'
  OBVIOUS
<1>1. TypeOK'
  BY TypeInductive DEF IInv
<1>2. ASSUME NEW m \in Miners, NEW k \in 0..MaxSeq, ApplyRegistration(m, k)
      PROVE  TreeInv'
  BY <1>2, FrameStep DEF ApplyRegistration, treeVars, activeVars
<1>3. ASSUME NEW t \in Templates, AcceptTemplate(t)
      PROVE  TreeInv'
  BY <1>3, FrameStep DEF AcceptTemplate, treeVars, activeVars
<1>4. ASSUME NEW t \in Templates, NEW m \in Miners, ApplyTemplate(t, m)
      PROVE  TreeInv'
  BY <1>4, FrameStep DEF ApplyTemplate, treeVars, activeVars
<1>5. ASSUME NEW s \in Shares, ApplyShare(s)
      PROVE  TreeInv'
  BY <1>5, ApplyShareStep
<1>6. ASSUME NEW s \in frontier, ResolveShare(s)
      PROVE  TreeInv'
  BY <1>6, ResolveShareStep
<1>7. ASSUME NEW s \in frontier, SkipShare(s)
      PROVE  TreeInv'
  BY <1>7, SkipShareStep
<1>8. ASSUME NEW s \in frontier, DropState(s)
      PROVE  TreeInv'
  <2>1. (Resolution /\ ScoreIsBranchWork /\ BestIsHeaviest)'
    BY <1>8
       DEF DropState, Resolution, ScoreIsBranchWork, BestIsHeaviest, Resolved
  <2>2. \A m : MinedBy({}, m) = {}
    BY DEF MinedBy
  <2>3. BranchAccounting'
    BY <1>8, <2>2, WorkEmpty DEF DropState, BranchAccounting
  <2>4. (LatestIsBest /\ CheckpointsNest)'
    BY <1>8 DEF DropState, LatestIsBest, CheckpointsNest
  <2> QED BY <2>1, <2>3, <2>4 DEF TreeInv
<1>9. ASSUME NEW tip \in Shares, NEW block \in Blocks,
             ApplyCheckpoint(tip, block)
      PROVE  TreeInv'
  BY <1>9, ApplyCheckpointStep
<1>10. ASSUME UNCHANGED vars
       PROVE  TreeInv'
  BY <1>10, FrameStep DEF vars
<1>11. TreeInv'
  BY <1>2, <1>3, <1>4, <1>5, <1>6, <1>7, <1>8, <1>9, <1>10 DEF Next
<1> QED BY <1>1, <1>11 DEF IInv

LEMMA Invariance == Spec => []IInv
BY InitInv, NextInv, PTL DEF Spec

-----------------------------------------------------------------------------
(* The results.                                                            *)

\* For every tree of shares and every order of arrival, the active set is the
\* branch of the tip and the payout accounting is exactly the work on it.
THEOREM AccountingCorrect == Spec => []BranchAccounting
<1>1. IInv => BranchAccounting
  BY DEF IInv, TreeInv
<1> QED BY <1>1, Invariance, PTL

\* Incrementally computed scores are sums over whole branches.
THEOREM ScoresCorrect == Spec => []ScoreIsBranchWork
<1>1. IInv => ScoreIsBranchWork
  BY DEF IInv, TreeInv
<1> QED BY <1>1, Invariance, PTL

\* The walk has one end.
LEMMA OneEnd ==
    ASSUME NEW S, NEW s \in S,
           NEW c \in Branch(S, s), Parent[c] \notin S,
           NEW r \in Branch(S, s), Parent[r] \notin S
    PROVE  r = c
<1> DEFINE X == {a \in Branch(S, s) : c \in Branch(S, a)}
<1>1. /\ Branch(S, s) \subseteq S
      /\ s \in Branch(S, s)
      /\ ClosedIn(Branch(S, s), S)
  BY BranchClosed
<1>2. X \in SUBSET S /\ s \in X
  BY <1>1
<1>3. ClosedIn(X, S)
  <2> SUFFICES ASSUME NEW a \in X, Parent[a] \in S
               PROVE  Parent[a] \in X
    BY DEF ClosedIn
  <2>1. Parent[a] \in Branch(S, s)
    BY <1>1 DEF ClosedIn
  <2>2. Branch(S, a) = {a} \cup Branch(S, Parent[a])
    BY <1>1, BranchExtend
  <2> QED BY <2>1, <2>2
<1>4. r \in X
  <2> HIDE DEF X
  <2> QED BY <1>2, <1>3, BranchLeast
<1>5. Branch(S, r) = {r}
  BY <1>1, BranchStop
<1> QED BY <1>4, <1>5

\* Resolved shares are the ones connected to the root.
LEMMA ResolvedIsConnected ==
    ASSUME IInv, Idle
    PROVE  Resolved = Connected
<1>1. stored \subseteq Shares /\ Root \notin stored
  BY ShareAssumption DEF IInv, TypeOK, Root
<1>2. ASSUME NEW s \in Resolved
      PROVE  s \in Connected
  <2> DEFINE B == Branch(stored, s)
  <2>1. B \subseteq stored /\ s \in B /\ ClosedIn(B, stored)
    BY <1>2, BranchClosed DEF Resolved
  <2>2. B \subseteq Resolved
    BY <1>2, ResolvedBranch DEF IInv, TreeInv
  <2>3. PICK c \in B : Parent[c] \notin B
    BY <1>1, <2>1, AcyclicAssumption
  <2>4. Parent[c] = Root
    BY <1>1, <2>1, <2>2, <2>3
       DEF IInv, TreeInv, Resolution, Resolvable, Resolved, ClosedIn
  <2> QED BY <1>2, <2>4 DEF Connected, Resolved
<1>3. ASSUME NEW s \in Connected
      PROVE  s \in Resolved
  <2> DEFINE B == Branch(stored, s)
             D == B \ Resolved
  <2>1. s \in stored
    BY DEF Connected
  <2>2. PICK r \in B : Parent[r] = Root
    BY DEF Connected
  <2>3. B \subseteq stored /\ s \in B /\ ClosedIn(B, stored)
    BY <2>1, BranchClosed
  <2> SUFFICES ASSUME s \notin Resolved PROVE FALSE
    OBVIOUS
  <2>4. D \in SUBSET Shares /\ D # {}
    BY <1>1, <2>3
  <2>5. PICK c \in D : Parent[c] \notin D
    BY <2>4, AcyclicAssumption
  <2>6. ~Resolvable(c)
    BY <2>3, <2>5 DEF IInv, TreeInv, Resolution, Idle, Resolved
  <2>7. Parent[c] # Root /\ Parent[c] \notin stored
    BY <2>3, <2>5, <2>6 DEF Resolvable, ClosedIn
  <2>8. r = c
    BY <1>1, <2>1, <2>2, <2>5, <2>7, OneEnd
  <2> QED BY <2>2, <2>7, <2>8
<1> QED BY <1>2, <1>3

\* For every tree of shares and every order of arrival the outcome depends
\* only on which shares were received.
THEOREM ArrivalOrderIrrelevant == Spec => []OrderIndependent
<1>1. IInv => OrderIndependent
  <2> SUFFICES ASSUME IInv, Idle
               PROVE  /\ Resolved = Connected
                      /\ checkpoints = <<>> =>
                            /\ best = NoTip <=> Connected = {}
                            /\ \A s \in Connected \ {best} : Heavier(best, s)
    BY DEF OrderIndependent
  <2>1. Resolved = Connected
    BY ResolvedIsConnected
  <2>2. ASSUME checkpoints = <<>>
        PROVE  best = NoTip <=> Connected = {}
    BY <2>1, <2>2, ShareAssumption
       DEF IInv, TypeOK, TreeInv, BranchAccounting, BestIsHeaviest, Resolved,
           NoTip
  <2>3. ASSUME checkpoints = <<>>, NEW s \in Connected \ {best}
        PROVE  Heavier(best, s)
    <3>1. s \in Resolved /\ best # NoTip
      BY <2>1, <2>3 DEF IInv, TreeInv, BestIsHeaviest
    <3>2. best \in Resolved
      BY <3>1 DEF IInv, TreeInv, BranchAccounting
    <3>3. /\ score[s] = Work(Branch(stored, s))
          /\ score[best] = Work(Branch(stored, best))
      BY <3>1, <3>2 DEF IInv, TreeInv, ScoreIsBranchWork
    <3>4. score[best] > score[s] \/ (score[best] = score[s] /\ best < s)
      BY <2>3, <3>1 DEF IInv, TreeInv, BestIsHeaviest
    <3> QED BY <3>3, <3>4 DEF Heavier
  <2> QED BY <2>1, <2>2, <2>3
<1> QED BY <1>1, Invariance, PTL

\* After it, exactly the latest finalized branch counts.
THEOREM FinalizedOnly == Spec => []OnlyFinalizedWorkCounts
<1>1. IInv => OnlyFinalizedWorkCounts
  <2> SUFFICES ASSUME IInv, checkpoints # <<>>
               PROVE  best = Latest.tip /\ total = score[best]
    BY DEF OnlyFinalizedWorkCounts
  <2>1. Len(checkpoints) \in 1..Len(checkpoints)
    BY DEF IInv, TreeInv, TypeOK
  <2>2. best = Latest.tip /\ best \in Resolved
    BY <2>1, TipsResolved DEF IInv, TreeInv, LatestIsBest, Latest
  <2>3. best # NoTip
    BY <2>2, ShareAssumption DEF IInv, TreeInv, TypeOK, Resolved, NoTip
  <2> QED BY <2>2, <2>3 DEF IInv, TreeInv, BranchAccounting, ScoreIsBranchWork
<1> QED BY <1>1, Invariance, PTL

\* Finalized tips lie on one branch, in round order.
THEOREM CheckpointsOnOneBranch == Spec => []CheckpointsNest
<1>1. IInv => CheckpointsNest
  BY DEF IInv, TreeInv
<1> QED BY <1>1, Invariance, PTL

\* No message removes finalized work from the active branch.
THEOREM FinalityKept == Spec => FinalizedBranchKept
<1> DEFINE Kept == checkpoints # <<>> /\ checkpoints' # <<>>
                      => Branch(stored, Latest.tip) \subseteq active'
<1>1. IInv /\ [Next]_vars => [Kept]_vars
  <2> SUFFICES ASSUME IInv, Next, checkpoints # <<>>, checkpoints' # <<>>
               PROVE  Branch(stored, Latest.tip) \subseteq active'
    OBVIOUS
  <2>1. Len(checkpoints) \in 1..Len(checkpoints)
    BY DEF IInv, TypeOK
  <2>2. best = Latest.tip /\ best \in Resolved
    BY <2>1, TipsResolved DEF IInv, TreeInv, LatestIsBest, Latest
  <2>3. active = Branch(stored, Latest.tip)
    BY <2>2, ShareAssumption
       DEF IInv, TreeInv, TypeOK, BranchAccounting, Resolved, NoTip
  <2>4. ASSUME NEW tip \in Shares, NEW block \in Blocks,
               ApplyCheckpoint(tip, block)
        PROVE  active \subseteq active'
    <3>1. /\ active' = Branch(stored, tip) /\ tip \in stored
          /\ Latest.tip \in Branch(stored, tip)
      BY <2>4 DEF ApplyCheckpoint, RebuildActiveBranch, Resolved
    <3> QED BY <2>3, <3>1, BranchTransitive
  <2>5. ASSUME NEW s \in frontier, ResolveShare(s)
        PROVE  active' = active
    <3>1. UNCHANGED activeVars
      BY <2>5, Zenon DEF ResolveShare, ConsiderResolvedShare
    <3> QED BY <3>1 DEF activeVars
  <2>6. ASSUME NEW s \in frontier, DropState(s)
        PROVE  FALSE
    BY <2>6 DEF DropState
  <2>7. ASSUME \/ \E m \in Miners, k \in 0..MaxSeq : ApplyRegistration(m, k)
               \/ \E t \in Templates : AcceptTemplate(t)
               \/ \E t \in Templates, m \in Miners : ApplyTemplate(t, m)
               \/ \E s \in Shares : ApplyShare(s)
               \/ \E s \in frontier : SkipShare(s)
        PROVE  active' = active
    BY <2>7 DEF ApplyRegistration, AcceptTemplate, ApplyTemplate, ApplyShare,
                SkipShare, activeVars
  <2> QED BY <2>3, <2>4, <2>5, <2>6, <2>7 DEF Next
<1> QED BY <1>1, Invariance, PTL DEF Spec, FinalizedBranchKept

\* The accounting of the active branch is a function of the branch.
THEOREM AccountingHolds == Spec => []AccountingSound
BY AccountingCorrect, ScoresCorrect, PTL DEF AccountingSound

\* A checkpoint fixes what counts, and checkpoints never leave their branch.
THEOREM CheckpointsHold == Spec => []CheckpointsSound
BY FinalizedOnly, CheckpointsOnOneBranch, PTL DEF CheckpointsSound
=============================================================================
