------------------------- MODULE VaultSigningProofs -------------------------
(***************************************************************************)
(* Machine-checked proofs about VaultSigning, for every set of heartbeats  *)
(* and plans and any number of nonces and crashes.                         *)
(***************************************************************************)
EXTENDS VaultSigning, FiniteSetTheorems, TLAPS

Commitment == [signer : Signers, plan : Plans, serial : Nat]

Share == [signer : Signers, plan : Plans, serial : Nat, set : SUBSET Commitment]

Output == [kind : {"commitment"}, value : Commitment] \cup [kind : {"share"}, value : Share]

JobType == [at : 1..2, pending : SUBSET Commitment, output : Output]

Types ==
    /\ pending \in [Signers -> SUBSET Commitment]
    /\ drawn \in [Signers -> Nat]
    /\ job \in [Signers -> {None} \cup JobType]
    /\ commitments \in SUBSET Commitment /\ IsFiniteSet(commitments)
    /\ shares \in SUBSET Share

\* The nonces a signer may still use: its own, each drawn once, none of them
\* in a published share.
Unused(s, nonces) ==
    /\ \A c \in nonces : c.signer = s /\ c.serial <= drawn[s]
    /\ \A c, d \in nonces : c.serial = d.serial => c = d
    /\ \A c \in nonces, x \in shares : x.signer = s => x.serial # c.serial

NoncesInv == \A s \in Signers : Unused(s, pending[s])

\* A share is of a nonce that was drawn and of a plan its signer accepted.
ShareInv(x) ==
    /\ x.serial <= drawn[x.signer]
    /\ [signer |-> x.signer, plan |-> x.plan] \in approvals

SharesInv == \A x \in shares : ShareInv(x)

\* A staged share is the first of its nonce, and that nonce is gone from the
\* state the command writes before it publishes the share.
StagedShare(s, j) ==
    LET x == j.output.value
    IN  /\ x.signer = s /\ ShareInv(x)
        /\ \A c \in j.pending : c.serial # x.serial
        /\ \A y \in shares : y.signer = s => y.serial # x.serial

JobInv(s, j) ==
    /\ Unused(s, j.pending)
    /\ j.at = 2 => pending[s] = j.pending
    /\ j.output.kind = "share" => StagedShare(s, j)

JobsInv == \A s \in Signers : job[s] # None => JobInv(s, job[s])

IInv == Types /\ NoncesInv /\ SharesInv /\ JobsInv /\ NonceSignsOnce /\ SignedByThreshold

-----------------------------------------------------------------------------

\* The two steps of a command, in the order main.rs runs them.
LEMMA StepOrder ==
    /\ Len(Steps) = 2 /\ Steps[1] = "write" /\ Steps[2] = "publish"
BY DEF Steps

\* A fresh epoch has no nonces, no files and no running command.
LEMMA InitHolds == Init => IInv
BY FS_EmptySet
   DEF Init, IInv, Types, NoncesInv, Unused, SharesInv, JobsInv, NonceSignsOnce,
       SignedByThreshold

\* Claims of different signers are as many as their signers.
LEMMA OneClaimPerSigner ==
    ASSUME NEW p, NEW set \in SUBSET Commitment, IsFiniteSet(set), CommitmentsValid(set, p)
    PROVE  Cardinality({c.signer : c \in set}) = Cardinality(set)
<1> DEFINE f == [c \in set |-> c.signer]
           names == {c.signer : c \in set}
<1>1. f \in Bijection(set, names)
  <2>1. f \in [set -> names]
    OBVIOUS
  <2>2. \A c, d \in set : f[c] = f[d] => c = d
    BY DEF CommitmentsValid
  <2>3. \A n \in names : \E c \in set : f[c] = n
    OBVIOUS
  <2> HIDE DEF f, names
  <2> QED BY <2>1, <2>2, <2>3 DEF Bijection, Injection, Surjection, IsInjective
<1> HIDE DEF f, names
<1>2. ExistsBijection(set, names)
  BY <1>1 DEF ExistsBijection
<1>3. Cardinality(names) = Cardinality(set)
  BY <1>2, FS_Bijection
<1> QED BY <1>3 DEF names

\* A policy that changes its mind changes nothing that was signed or staged.
LEMMA PolicyKeeps ==
    ASSUME IInv, NEW s \in Signers, NEW p \in Plans, PolicyChanges(s, p)
    PROVE  IInv'
<1>1. UNCHANGED <<pending, drawn, job, commitments, shares, signed, approvals>>
  BY DEF PolicyChanges
<1>2. JobsInv'
  BY <1>1 DEF IInv, JobsInv, JobInv, Unused, StagedShare, ShareInv
<1> QED BY <1>1, <1>2 DEF IInv, Types, NoncesInv, Unused, SharesInv, ShareInv,
           NonceSignsOnce, SignedByThreshold

\* A new nonce has a serial that no nonce and no share has.
LEMMA CreateKeeps ==
    ASSUME IInv, NEW s \in Signers, NEW p \in Plans, FrostCreateCommitments(s, p)
    PROVE  IInv'
<1>0. PICK c \in Commitment : c = [signer |-> s, plan |-> p, serial |-> drawn[s] + 1]
  <2>1. drawn[s] + 1 \in Nat
    BY DEF IInv, Types
  <2>2. [signer |-> s, plan |-> p, serial |-> drawn[s] + 1] \in Commitment
    BY <2>1 DEF Commitment
  <2> QED BY <2>2
<1>2. PICK j \in JobType : j = [at |-> 1, pending |-> pending[s] \cup {c},
                               output |-> [kind |-> "commitment", value |-> c]]
  <2>1. pending[s] \cup {c} \in SUBSET Commitment
    BY DEF IInv, Types
  <2>2. [kind |-> "commitment", value |-> c] \in Output
    BY DEF Output
  <2>3. [at |-> 1, pending |-> pending[s] \cup {c},
         output |-> [kind |-> "commitment", value |-> c]] \in JobType
    BY <2>1, <2>2 DEF JobType
  <2> QED BY <2>3
<1>1. /\ job' = [job EXCEPT ![s] = j]
      /\ drawn' = [drawn EXCEPT ![s] = @ + 1]
      /\ approvals' = approvals \cup {[signer |-> s, plan |-> p]}
      /\ UNCHANGED <<pending, commitments, shares, signed>>
  BY <1>0, <1>2 DEF FrostCreateCommitments, Staged
<1>3. Types'
  BY <1>1, <1>2 DEF IInv, Types
<1>4. \A t \in Signers : drawn[t] <= drawn'[t]
  BY <1>1 DEF IInv, Types
<1>5. \A x \in shares : ShareInv(x)'
  <2> SUFFICES ASSUME NEW x \in shares PROVE ShareInv(x)'
    OBVIOUS
  <2>1. x.signer \in Signers /\ x.serial \in Nat /\ ShareInv(x)
    BY DEF IInv, Types, SharesInv, Share
  <2>2. drawn[x.signer] \in Nat /\ drawn'[x.signer] \in Nat
    BY <2>1, <1>3 DEF IInv, Types
  <2> QED BY <2>1, <2>2, <1>1, <1>4 DEF ShareInv
<1>6. \A t \in Signers : Unused(t, pending[t])'
  BY <1>1, <1>3, <1>4 DEF IInv, Types, NoncesInv, Unused, Commitment
<1>7. Unused(s, j.pending)'
  <2>1. \A d \in pending[s] : d \in Commitment /\ d.signer = s /\ d.serial <= drawn[s]
    BY DEF IInv, Types, NoncesInv, Unused
  <2>2. drawn'[s] = drawn[s] + 1 /\ drawn[s] \in Nat
    BY <1>1 DEF IInv, Types
  <2>3. \A x \in shares : x.signer = s => x.serial <= drawn[s] /\ x.serial \in Nat
    BY DEF IInv, Types, SharesInv, ShareInv, Share
  <2>4. \A d \in pending[s] \cup {c} : d.signer = s /\ d.serial <= drawn'[s]
    BY <1>0, <2>1, <2>2 DEF Commitment
  <2>5. \A d, e \in pending[s] \cup {c} : d.serial = e.serial => d = e
    BY <1>0, <2>1, <2>2 DEF IInv, NoncesInv, Unused, Commitment
  <2>6. \A d \in pending[s] \cup {c}, x \in shares : x.signer = s => x.serial # d.serial
    BY <1>0, <2>2, <2>3 DEF IInv, NoncesInv, Unused
  <2> QED BY <2>4, <2>5, <2>6, <1>1, <1>2 DEF Unused
<1>8. JobsInv'
  <2> SUFFICES ASSUME NEW t \in Signers, job'[t] # None
               PROVE  JobInv(t, job[t])'
    BY DEF JobsInv
  <2>1. CASE t = s
    BY <2>1, <1>1, <1>2, <1>7 DEF IInv, Types, JobInv
  <2>2. CASE t # s
    <3>1. job'[t] = job[t] /\ job[t] \in JobType /\ JobInv(t, job[t])
      BY <2>2, <1>1 DEF IInv, Types, JobsInv
    <3> QED BY <3>1, <1>1, <1>3, <1>4 DEF IInv, Types, JobInv, Unused, StagedShare,
               ShareInv, JobType, Output, Commitment, Share
  <2> QED BY <2>1, <2>2
<1>9. NonceSignsOnce' /\ SignedByThreshold'
  BY <1>1 DEF IInv, NonceSignsOnce, SignedByThreshold
<1> QED BY <1>1, <1>3, <1>5, <1>6, <1>8, <1>9 DEF IInv, NoncesInv, SharesInv

\* Signing takes a nonce out of the state it is about to write; the share it
\* stages is the only one of that nonce.
LEMMA SignKeeps ==
    ASSUME IInv, NEW s \in Signers, NEW p \in Plans, NEW set \in SetsFor(p),
           FrostSignShares(s, p, set)
    PROVE  IInv'
<1>1. PICK c \in set :
          /\ c.signer = s
          /\ c \in pending[s]
          /\ Staged(s, p, NonceUsed(pending[s], c),
                    [kind |-> "share",
                     value |-> [signer |-> s, plan |-> p, serial |-> c.serial,
                                set |-> set]])
  BY DEF FrostSignShares
<1>2. c \in Commitment /\ c.serial \in Nat /\ set \in SUBSET Commitment
  BY DEF IInv, Types, SetsFor, Commitment
<1>3. PICK x \in Share : x = [signer |-> s, plan |-> p, serial |-> c.serial, set |-> set]
  <2>1. [signer |-> s, plan |-> p, serial |-> c.serial, set |-> set] \in Share
    BY <1>2 DEF Share
  <2> QED BY <2>1
<1>4. PICK j \in JobType : j = [at |-> 1, pending |-> pending[s] \ {c},
                               output |-> [kind |-> "share", value |-> x]]
  <2>1. pending[s] \ {c} \in SUBSET Commitment
    BY DEF IInv, Types
  <2>2. [kind |-> "share", value |-> x] \in Output
    BY DEF Output
  <2>3. [at |-> 1, pending |-> pending[s] \ {c},
         output |-> [kind |-> "share", value |-> x]] \in JobType
    BY <2>1, <2>2 DEF JobType
  <2> QED BY <2>3
<1>5. /\ job' = [job EXCEPT ![s] = j]
      /\ approvals' = approvals \cup {[signer |-> s, plan |-> p]}
      /\ UNCHANGED <<pending, drawn, commitments, shares, signed>>
  BY <1>1, <1>3, <1>4 DEF FrostSignShares, Staged, NonceUsed
<1>6. Types'
  BY <1>5 DEF IInv, Types
<1>7. NoncesInv' /\ NonceSignsOnce' /\ SignedByThreshold'
  BY <1>5 DEF IInv, NoncesInv, Unused, NonceSignsOnce, SignedByThreshold
<1>8. SharesInv'
  BY <1>5 DEF IInv, SharesInv, ShareInv
<1>9. Unused(s, pending[s])
  BY DEF IInv, NoncesInv
<1>10. JobInv(s, j)'
  <2>1. Unused(s, j.pending)'
    BY <1>4, <1>5, <1>9 DEF Unused
  <2>2. ShareInv(x)'
    BY <1>1, <1>3, <1>5, <1>9 DEF Unused, ShareInv
  <2>3. \A d \in j.pending : d.serial # x.serial
    BY <1>1, <1>3, <1>4, <1>9 DEF Unused
  <2>4. \A y \in shares : y.signer = s => y.serial # x.serial
    BY <1>1, <1>3, <1>9 DEF Unused
  <2> QED BY <2>1, <2>2, <2>3, <2>4, <1>3, <1>4, <1>5 DEF JobInv, StagedShare
<1>11. JobsInv'
  <2> SUFFICES ASSUME NEW t \in Signers, job'[t] # None
               PROVE  JobInv(t, job[t])'
    BY DEF JobsInv
  <2>1. CASE t = s
    BY <2>1, <1>5, <1>10 DEF IInv, Types
  <2>2. CASE t # s
    <3>1. job'[t] = job[t] /\ JobInv(t, job[t])
      BY <2>2, <1>5 DEF IInv, Types, JobsInv
    <3> QED BY <3>1, <1>5 DEF JobInv, Unused, StagedShare, ShareInv
  <2> QED BY <2>1, <2>2
<1> QED BY <1>6, <1>7, <1>8, <1>11 DEF IInv

\* The state a command writes has the nonces it may still use, without the one
\* its staged share spends.
LEMMA WriteKeeps ==
    ASSUME IInv, NEW s \in Signers, WriteState(s)
    PROVE  IInv'
<1> DEFINE i == job[s]
<1>1. i \in JobType /\ JobInv(s, i)
  BY DEF WriteState, IInv, Types, JobsInv
<1>2. i.at = 1
  BY <1>1, StepOrder DEF WriteState, JobType
<1>3. PICK j \in JobType : j = [at |-> 2, pending |-> i.pending, output |-> i.output]
  <2>1. [at |-> 2, pending |-> i.pending, output |-> i.output] \in JobType
    BY <1>1 DEF JobType
  <2> QED BY <2>1
<1>4. /\ job' = [job EXCEPT ![s] = j]
      /\ pending' = [pending EXCEPT ![s] = j.pending]
      /\ UNCHANGED <<drawn, commitments, shares, signed, approvals>>
      /\ j.at = 2 /\ j.pending = i.pending /\ j.output = i.output
  <2>1. [i EXCEPT !.at = i.at + 1] = j
    BY <1>1, <1>2, <1>3 DEF JobType
  <2>2. job' = [job EXCEPT ![s] = [i EXCEPT !.at = i.at + 1]]
    BY <1>2, StepOrder DEF WriteState, Done
  <2>3. j.at = 2 /\ j.pending = i.pending /\ j.output = i.output
    BY <1>3
  <2> QED BY <2>1, <2>2, <2>3 DEF WriteState
<1>5. Types'
  BY <1>4 DEF IInv, Types, JobType
<1>6. SharesInv' /\ NonceSignsOnce' /\ SignedByThreshold'
  BY <1>4 DEF IInv, SharesInv, ShareInv, NonceSignsOnce, SignedByThreshold
<1>7. Unused(s, j.pending)'
  BY <1>1, <1>4 DEF JobInv, Unused
<1>8. NoncesInv'
  <2> SUFFICES ASSUME NEW t \in Signers PROVE Unused(t, pending[t])'
    BY DEF NoncesInv
  <2>1. CASE t = s
    BY <2>1, <1>4, <1>7 DEF IInv, Types
  <2>2. CASE t # s
    BY <2>2, <1>4 DEF IInv, Types, NoncesInv, Unused
  <2> QED BY <2>1, <2>2
<1>9. JobsInv'
  <2> SUFFICES ASSUME NEW t \in Signers, job'[t] # None
               PROVE  JobInv(t, job[t])'
    BY DEF JobsInv
  <2>1. CASE t = s
    <3>1. job'[s] = j /\ pending'[s] = j.pending
      BY <1>4 DEF IInv, Types
    <3>2. j.output.kind = "share" => StagedShare(s, j)'
      BY <1>1, <1>4 DEF JobInv, StagedShare, ShareInv
    <3> QED BY <2>1, <3>1, <3>2, <1>7 DEF JobInv
  <2>2. CASE t # s
    <3>1. job'[t] = job[t] /\ pending'[t] = pending[t] /\ JobInv(t, job[t])
      BY <2>2, <1>4 DEF IInv, Types, JobsInv
    <3> QED BY <3>1, <1>4 DEF JobInv, Unused, StagedShare, ShareInv
  <2> QED BY <2>1, <2>2
<1> QED BY <1>5, <1>6, <1>8, <1>9 DEF IInv

\* A published share is the first of its nonce, which the state file no longer
\* holds; a published commitment changes no share.
LEMMA PublishKeeps ==
    ASSUME IInv, NEW s \in Signers, PublishOutput(s)
    PROVE  IInv'
<1> DEFINE i == job[s]
<1>1. i \in JobType /\ JobInv(s, i)
  BY DEF PublishOutput, IInv, Types, JobsInv
<1>2. i.at = 2
  BY <1>1, StepOrder DEF PublishOutput, JobType
<1>3. /\ job' = [job EXCEPT ![s] = None]
      /\ UNCHANGED <<pending, drawn, signed, approvals>>
  BY <1>2, StepOrder DEF PublishOutput, Done
<1>4. pending[s] = i.pending
  BY <1>1, <1>2 DEF JobInv
<1>5. SignedByThreshold'
  BY <1>3 DEF IInv, SignedByThreshold
<1>6. CASE i.output.kind = "commitment"
  <2>1. commitments' = commitments \cup {i.output.value} /\ shares' = shares
    BY <1>6 DEF PublishOutput
  <2>2. i.output.value \in Commitment
    BY <1>1, <1>6 DEF JobType, Output
  <2>3. IsFiniteSet(commitments')
    BY <2>1, FS_AddElement DEF IInv, Types
  <2>4. Types'
    BY <1>3, <2>1, <2>2, <2>3 DEF IInv, Types
  <2>5. NoncesInv' /\ SharesInv' /\ NonceSignsOnce'
    BY <1>3, <2>1 DEF IInv, NoncesInv, Unused, SharesInv, ShareInv, NonceSignsOnce
  <2>6. JobsInv'
    BY <1>3, <2>1 DEF IInv, Types, JobsInv, JobInv, Unused, StagedShare, ShareInv
  <2> QED BY <2>4, <2>5, <2>6, <1>5 DEF IInv
<1>7. CASE i.output.kind = "share"
  <2>1. PICK x \in Share : x = i.output.value
    BY <1>1, <1>7 DEF JobType, Output
  <2>2. shares' = shares \cup {x} /\ commitments' = commitments
    BY <1>7, <2>1 DEF PublishOutput
  <2>3. /\ x.signer = s /\ ShareInv(x)
        /\ \A c \in pending[s] : c.serial # x.serial
        /\ \A y \in shares : y.signer = s => y.serial # x.serial
    BY <1>1, <1>4, <1>7, <2>1 DEF JobInv, StagedShare
  <2>4. Types'
    BY <1>3, <2>2 DEF IInv, Types
  <2>5. SharesInv' /\ NonceSignsOnce'
    BY <1>3, <2>2, <2>3 DEF IInv, SharesInv, ShareInv, NonceSignsOnce
  <2>6. NoncesInv'
    BY <1>3, <2>2, <2>3 DEF IInv, NoncesInv, Unused
  <2>7. JobsInv'
    <3> SUFFICES ASSUME NEW t \in Signers, job'[t] # None
                 PROVE  JobInv(t, job[t])'
      BY DEF JobsInv
    <3>1. t # s /\ job'[t] = job[t] /\ JobInv(t, job[t])
      BY <1>3 DEF IInv, Types, JobsInv
    <3> QED BY <3>1, <1>3, <2>2, <2>3 DEF JobInv, Unused, StagedShare, ShareInv
  <2> QED BY <2>4, <2>5, <2>6, <2>7, <1>5 DEF IInv
<1> QED BY <1>1, <1>6, <1>7 DEF JobType, Output

\* A command that is cut short leaves its nonce where the last write left it.
LEMMA CrashKeeps ==
    ASSUME IInv, NEW s \in Signers, Crash(s)
    PROVE  IInv'
<1>1. /\ job' = [job EXCEPT ![s] = None]
      /\ UNCHANGED <<pending, drawn, commitments, shares, signed, approvals>>
  BY DEF Crash
<1>2. JobsInv'
  BY <1>1 DEF IInv, Types, JobsInv, JobInv, Unused, StagedShare, ShareInv
<1> QED BY <1>1, <1>2 DEF IInv, Types, NoncesInv, Unused, SharesInv, ShareInv,
           NonceSignsOnce, SignedByThreshold

\* An aggregate takes one share of every signer of the commitments, computed
\* over those commitments.
LEMMA AggregateKeeps ==
    ASSUME IInv, NEW p \in Plans, NEW set \in SetsFor(p),
           NEW ss \in SUBSET {x \in shares : x.plan = p},
           FrostAggregateTransaction(p, set, ss)
    PROVE  IInv'
<1>1. set \in SUBSET Commitment /\ IsFiniteSet(set)
  BY FS_Subset DEF SetsFor, IInv, Types
<1>2. Cardinality({x.signer : x \in ss}) >= Threshold
  BY <1>1, OneClaimPerSigner DEF FrostAggregateTransaction, SharesMatch
<1>3. \A x, y \in ss : x.set = y.set
  BY DEF FrostAggregateTransaction, ShareVerifies
<1>4. \A x \in ss : [signer |-> x.signer, plan |-> p] \in approvals
  <2> SUFFICES ASSUME NEW x \in ss PROVE [signer |-> x.signer, plan |-> p] \in approvals
    OBVIOUS
  <2>1. x.plan = p /\ [signer |-> x.signer, plan |-> x.plan] \in approvals
    BY DEF IInv, SharesInv, ShareInv
  <2> QED BY <2>1
<1>5. /\ signed' = signed \cup {[plan |-> p, shares |-> ss]}
      /\ UNCHANGED <<pending, drawn, job, commitments, shares, approvals>>
  BY DEF FrostAggregateTransaction
<1>6. SignedByThreshold'
  <2> DEFINE Good(t) == /\ Cardinality({x.signer : x \in t.shares}) >= Threshold
                        /\ \A x, y \in t.shares : x.set = y.set
                        /\ \A x \in t.shares :
                              [signer |-> x.signer, plan |-> t.plan] \in approvals
  <2>1. PICK t : t = [plan |-> p, shares |-> ss]
    OBVIOUS
  <2>2. t.plan = p /\ t.shares = ss
    BY <2>1
  <2>3. Good(t)
    BY <2>2, <1>2, <1>3, <1>4
  <2>4. \A u \in signed : Good(u)
    BY DEF IInv, SignedByThreshold
  <2>5. \A u \in signed' : Good(u)
    <3> HIDE DEF Good
    <3> QED BY <2>1, <2>3, <2>4, <1>5
  <2> QED BY <2>5, <1>5 DEF SignedByThreshold
<1>7. JobsInv'
  BY <1>5 DEF IInv, JobsInv, JobInv, Unused, StagedShare, ShareInv
<1> QED BY <1>5, <1>6, <1>7 DEF IInv, Types, NoncesInv, Unused, SharesInv, ShareInv,
           NonceSignsOnce

\* For every set of signers, plans, nonces and crashes: no nonce of a signer is
\* in two published shares, and an aggregated transaction carries shares of a
\* threshold of signers whose policy accepted the plan (vault_frost.rs signing,
\* with the write-then-publish order of the commands in main.rs).
THEOREM SigningHolds == Spec => []SigningSound
<1>1. IInv /\ [Next]_signingVars => IInv'
  <2> SUFFICES ASSUME IInv, [Next]_signingVars PROVE IInv'
    OBVIOUS
  <2>1. CASE UNCHANGED signingVars
    <3>1. UNCHANGED <<pending, drawn, job, commitments, shares, signed, approvals>>
      BY <2>1 DEF signingVars
    <3>2. JobsInv'
      BY <3>1 DEF IInv, JobsInv, JobInv, Unused, StagedShare, ShareInv
    <3> QED BY <3>1, <3>2 DEF IInv, Types, NoncesInv, Unused, SharesInv, ShareInv,
               NonceSignsOnce, SignedByThreshold
  <2>2. CASE Next
    BY <2>2, PolicyKeeps, CreateKeeps, SignKeeps, WriteKeeps, PublishKeeps, CrashKeeps,
       AggregateKeeps DEF Next
  <2> QED BY <2>1, <2>2
<1>2. IInv => SigningSound
  BY DEF IInv, SigningSound
<1> QED BY InitHolds, <1>1, <1>2, PTL DEF Spec
=============================================================================
