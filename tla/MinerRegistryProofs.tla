------------------------- MODULE MinerRegistryProofs -------------------------
(***************************************************************************)
(* Machine-checked proofs about MinerRegistry, for every finite set of     *)
(* identities and miner ids, every set of tips, and any payments, limits   *)
(* and number of outstanding callbacks.                                    *)
(***************************************************************************)
EXTENDS MinerRegistry, FiniteSetTheorems, TLAPS

RegTypes ==
    /\ block \in Nat
    /\ minerOf \in [Identities -> MinerIds \cup {None}]
    /\ ownerOf \in [MinerIds -> Identities \cup {None}]
    /\ records \in
          [Identities -> Seq([commitment : Commitments, block : Nat])]
    /\ count \in Nat
    /\ registered \subseteq MinerIds
    /\ pending \in [Identities -> PendingEntry \cup {None}]
    /\ pendingMiner \in [MinerIds -> Identities \cup {None}]
    /\ escrow \in Nat
    /\ regCalls \in [Identities -> Nat]

VoteTypes ==
    /\ vote \in [Identities -> VoteEntry \cup {None}]
    /\ candidate \in [Rounds -> [Tips -> Metas \cup {None}]]
    /\ voter \in [Rounds -> [MinerIds -> Tips \cup {None}]]
    /\ supporters \in [Rounds -> [Tips -> SUBSET MinerIds]]
    /\ final \in Seq(FinalEntry)
    /\ Len(final) <= MaxRound
    /\ voteCalls \in [Identities -> Nat]

\* The parts of IndexesAgree, one index at a time.
Ownership ==
    \A a \in Identities, m \in MinerIds : minerOf[a] = m <=> ownerOf[m] = a

Reservation ==
    \A a \in Identities, m \in MinerIds :
        (pending[a] # None /\ pending[a].miner = m) <=> pendingMiner[m] = a

Undisputed ==
    \A a \in Identities :
        pending[a] # None => minerOf[a] = None /\ ownerOf[pending[a].miner] = None

Listed ==
    /\ registered = {m \in MinerIds : ownerOf[m] # None}
    /\ count = Cardinality(registered)
    /\ count <= MaxMiners

\* What is owed for the requests in f, one unit per coin.
Units(f) == {u \in Identities \X (1..MaxAmount) :
                f[u[1]] # None /\ u[2] <= f[u[1]].payment}

RegInv ==
    /\ RegTypes
    /\ Ownership
    /\ Reservation
    /\ Undisputed
    /\ Listed
    /\ escrow = Cardinality(Units(pending))

\* Only registered miners have votes pending or counted: an identity that is
\* registered stays so, whatever happens between a vote and its callback.
VotersRegistered ==
    /\ \A a \in Identities : vote[a] # None => minerOf[a] # None
    /\ \A r \in Rounds, t \in Tips : supporters[r][t] \subseteq registered

VoteInv == VoteTypes /\ VotersRegistered /\ FinalitySound

IInv == RegInv /\ VoteInv

-----------------------------------------------------------------------------
(* Lemmas about the operators.                                             *)

\* RegInv is TypeOK's registration half and RegistrationSound.
LEMMA RegInvSound == RegInv => RegistrationSound
<1> SUFFICES ASSUME RegInv PROVE RegistrationSound
  OBVIOUS
<1>1. EscrowIsOwed
  BY DEF RegInv, EscrowIsOwed, Owed, Units
<1>2. \A a \in Identities : pending[a] # None => ~RegistrationConflict(a)
  <2> SUFFICES ASSUME NEW a \in Identities, pending[a] # None
               PROVE  ~RegistrationConflict(a)
    OBVIOUS
  <2>1. pending[a].miner \in MinerIds
    BY DEF RegInv, RegTypes, PendingEntry
  <2> QED BY <2>1 DEF RegInv, Reservation, Undisputed, RegistrationConflict
<1> QED BY <1>1, <1>2 DEF RegInv, Ownership, Reservation, Listed, RegistrationSound,
           IndexesAgree

\* The units of one payment are as many as its coins.
LEMMA OnePayment ==
    ASSUME NEW a, NEW p \in Nat
    PROVE  IsFiniteSet({a} \X (1..p)) /\ Cardinality({a} \X (1..p)) = p
<1>1. IsFiniteSet({a}) /\ Cardinality({a}) = 1
  BY FS_Singleton
<1>2. IsFiniteSet(1..p) /\ Cardinality(1..p) = p
  BY FS_Interval
<1>3. /\ IsFiniteSet({a} \X (1..p))
      /\ Cardinality({a} \X (1..p)) = Cardinality({a}) * Cardinality(1..p)
  BY <1>1, <1>2, FS_Product
<1> QED BY <1>1, <1>2, <1>3

\* What is owed is finite.
LEMMA UnitsFinite ==
    ASSUME NEW f
    PROVE  IsFiniteSet(Units(f)) /\ Cardinality(Units(f)) \in Nat
<1>1. IsFiniteSet(1..MaxAmount)
  BY RegistryBounds, FS_Interval
<1>2. IsFiniteSet(Identities \X (1..MaxAmount))
  BY <1>1, RegistryFinite, FS_Product
<1>3. Units(f) \in SUBSET (Identities \X (1..MaxAmount))
  BY DEF Units
<1>4. IsFiniteSet(Units(f))
  BY <1>2, <1>3, FS_Subset
<1> QED BY <1>4, FS_CardinalityType

\* A request adds its payment to what is owed, and its end takes it away.
LEMMA OnePending ==
    ASSUME NEW f, NEW g, NEW a \in Identities,
           f \in [Identities -> PendingEntry \cup {None}],
           g \in [Identities -> PendingEntry \cup {None}],
           f[a] = None, g[a] # None,
           \A b \in Identities \ {a} : f[b] = g[b]
    PROVE  Cardinality(Units(g)) = Cardinality(Units(f)) + g[a].payment
<1>1. PICK p \in 0..MaxAmount : p = g[a].payment
  BY DEF PendingEntry
<1>2. p \in Nat /\ 1..p \subseteq 1..MaxAmount
  BY <1>1, RegistryBounds
<1>3. PICK T : T = {a} \X (1..p)
  OBVIOUS
<1>4. IsFiniteSet(T) /\ Cardinality(T) = p
  BY <1>2, <1>3, OnePayment
<1>5. Units(g) = Units(f) \cup T
  <2>1. \A u \in Units(g) : u \in Units(f) \cup T
    BY <1>1, <1>2, <1>3, RegistryBounds DEF Units
  <2>2. \A u \in Units(f) : u \in Units(g)
    BY DEF Units
  <2>3. \A u \in T : u \in Units(g)
    <3> SUFFICES ASSUME NEW u \in T PROVE u \in Units(g)
      OBVIOUS
    <3>1. u \in Identities \X (1..MaxAmount) /\ u[1] = a /\ u[2] \in 1..p
      BY <1>2, <1>3
    <3>2. u[2] <= p
      BY <3>1, <1>2
    <3> QED BY <3>1, <3>2, <1>1 DEF Units
  <2> QED BY <2>1, <2>2, <2>3
<1>6. Units(f) \cap T = {}
  BY <1>3 DEF Units
<1>7. IsFiniteSet(Units(f)) /\ Cardinality(Units(f)) \in Nat
  BY UnitsFinite
<1>8. Cardinality(Units(f) \cup T) = Cardinality(Units(f)) + Cardinality(T)
        - Cardinality(Units(f) \cap T)
  BY <1>4, <1>7, FS_Union
<1>9. Cardinality(Units(f) \cap T) = 0
  BY <1>6, FS_EmptySet
<1> QED BY <1>1, <1>2, <1>4, <1>5, <1>7, <1>8, <1>9

\* A quorum is two thirds of the registered miners, rounded up.
LEMMA QuorumIsTwoThirds ==
    ASSUME NEW n \in Nat, NEW k \in Nat, k >= CheckpointThreshold(n)
    PROVE  3 * k >= 2 * n
BY DEF CheckpointThreshold

-----------------------------------------------------------------------------
(* What a step leaves alone.                                               *)

\* Votes and blocks do not touch a registration.
LEMMA RegFrame ==
    ASSUME RegInv, block' \in Nat, UNCHANGED <<regVars, pendingVars>>
    PROVE  RegInv'
<1>1. UNCHANGED <<minerOf, ownerOf, records, count, registered, pending, pendingMiner,
                  escrow, regCalls>>
  BY DEF regVars, pendingVars
<1>2. RegTypes'
  BY <1>1 DEF RegInv, RegTypes
<1>3. (escrow = Cardinality(Units(pending)))'
  BY <1>1 DEF RegInv
<1> QED BY <1>1, <1>2, <1>3 DEF RegInv, Ownership, Reservation, Undisputed, Listed

\* A step that counts no vote keeps the votes sound as long as no miner loses
\* its registration and a pending vote is a registered miner's.
LEMMA VoteFrame ==
    ASSUME VoteInv, UNCHANGED roundVars,
           vote' \in [Identities -> VoteEntry \cup {None}],
           voteCalls' \in [Identities -> Nat],
           \A a \in Identities : vote'[a] # None => minerOf'[a] # None,
           registered \subseteq registered'
    PROVE  VoteInv'
<1>1. UNCHANGED <<candidate, voter, supporters, final>>
  BY DEF roundVars
<1>2. VoteTypes'
  BY <1>1 DEF VoteInv, VoteTypes
<1>3. VotersRegistered'
  BY <1>1 DEF VoteInv, VotersRegistered
<1>4. FinalitySound'
  BY <1>1 DEF VoteInv, FinalitySound, OneTipPerMiner, FinalizedByQuorum, RoundsChain
<1> QED BY <1>2, <1>3, <1>4 DEF VoteInv

\* Nothing is registered, owed or voted on at first.
LEMMA InitHolds == Init => IInv
<1> SUFFICES ASSUME Init PROVE IInv
  OBVIOUS
<1>1. RegTypes /\ VoteTypes
  BY RegistryBounds DEF Init, RegTypes, VoteTypes, DeploymentBlock
<1>2. Ownership /\ Reservation /\ Undisputed
  BY NoneAssumption DEF Init, Ownership, Reservation, Undisputed
<1>3. Listed
  <2>1. registered = {m \in MinerIds : ownerOf[m] # None}
    BY DEF Init
  <2>2. count = Cardinality(registered) /\ count <= MaxMiners
    BY FS_EmptySet, RegistryBounds DEF Init
  <2> QED BY <2>1, <2>2 DEF Listed
<1>4. escrow = Cardinality(Units(pending))
  <2>1. Units(pending) = {}
    BY DEF Init, Units
  <2> QED BY <2>1, FS_EmptySet DEF Init
<1>5. VotersRegistered /\ FinalitySound
  BY NoneAssumption DEF Init, VotersRegistered, FinalitySound, OneTipPerMiner,
     FinalizedByQuorum, RoundsChain
<1> QED BY <1>1, <1>2, <1>3, <1>4, <1>5 DEF IInv, RegInv, VoteInv
-----------------------------------------------------------------------------
(* Registration.                                                           *)

\* A request reserves a free miner id and adds its payment to the escrow.
LEMMA RegisterKeeps ==
    ASSUME IInv, NEW a \in Identities, NEW m \in MinerIds, NEW c \in Commitments,
           NEW p \in Amounts, RegisterMiner(a, m, c, p)
    PROVE  IInv'
<1>1. p \in 0..MaxAmount /\ p \in Nat
  BY RegistryBounds
<1>2. PICK e \in PendingEntry : e = [miner |-> m, commitment |-> c, payment |-> p]
  BY <1>1 DEF PendingEntry
<1>3. e # None /\ a # None /\ e.miner = m /\ e.payment = p
  BY <1>2, NoneAssumption
<1>4. /\ pending' = [pending EXCEPT ![a] = e]
      /\ pendingMiner' = [pendingMiner EXCEPT ![m] = a]
      /\ escrow' = escrow + p
      /\ regCalls' = [regCalls EXCEPT ![a] = @ + 1]
      /\ UNCHANGED <<block, minerOf, ownerOf, records, count, registered, vote, voteCalls,
                     roundVars>>
      /\ minerOf[a] = None /\ pending[a] = None /\ ownerOf[m] = None
      /\ pendingMiner[m] = None
  BY <1>2 DEF RegisterMiner, regVars
<1>5. RegTypes'
  <2>1. pending' \in [Identities -> PendingEntry \cup {None}]
    BY <1>4 DEF IInv, RegInv, RegTypes
  <2>2. /\ pendingMiner' \in [MinerIds -> Identities \cup {None}]
        /\ regCalls' \in [Identities -> Nat]
    BY <1>4 DEF IInv, RegInv, RegTypes
  <2>3. escrow' \in Nat
    BY <1>1, <1>4 DEF IInv, RegInv, RegTypes
  <2> QED BY <2>1, <2>2, <2>3, <1>4 DEF IInv, RegInv, RegTypes
<1>6. Ownership' /\ Listed'
  BY <1>4 DEF IInv, RegInv, Ownership, Listed
<1>7. Reservation'
  <2> SUFFICES ASSUME NEW b \in Identities, NEW n \in MinerIds
               PROVE  (pending'[b] # None /\ pending'[b].miner = n) <=> pendingMiner'[n] = b
    BY DEF Reservation
  <2>1. (pending[b] # None /\ pending[b].miner = n) <=> pendingMiner[n] = b
    BY DEF IInv, RegInv, Reservation
  <2>2. /\ pending'[b] = IF b = a THEN e ELSE pending[b]
        /\ pendingMiner'[n] = IF n = m THEN a ELSE pendingMiner[n]
    BY <1>4 DEF IInv, RegInv, RegTypes
  <2>3. b # None
    BY NoneAssumption
  <2> QED BY <2>1, <2>2, <2>3, <1>3, <1>4
<1>8. Undisputed'
  BY <1>3, <1>4 DEF IInv, RegInv, RegTypes, Undisputed
<1>9. (escrow = Cardinality(Units(pending)))'
  <2>1. /\ pending \in [Identities -> PendingEntry \cup {None}]
        /\ pending' \in [Identities -> PendingEntry \cup {None}]
        /\ pending'[a] # None /\ pending'[a].payment = p
        /\ \A b \in Identities \ {a} : pending[b] = pending'[b]
    BY <1>3, <1>4, <1>5 DEF IInv, RegInv, RegTypes
  <2>2. pending[a] = None
    BY <1>4
  <2>3. Cardinality(Units(pending')) = Cardinality(Units(pending)) + pending'[a].payment
    BY <2>1, <2>2, OnePending
  <2> QED BY <2>1, <2>3, <1>4 DEF IInv, RegInv
<1>10. VoteInv'
  BY <1>4, VoteFrame DEF IInv, VoteInv, VoteTypes, VotersRegistered
<1> QED BY <1>5, <1>6, <1>7, <1>8, <1>9, <1>10 DEF IInv, RegInv

\* A request ends with its payment leaving the escrow and its reservation gone.
LEMMA ReleaseEnds ==
    ASSUME RegInv, NEW a \in Identities, pending[a] # None, Release(a)
    PROVE  /\ pending' \in [Identities -> PendingEntry \cup {None}]
           /\ pendingMiner' \in [MinerIds -> Identities \cup {None}]
           /\ escrow' \in Nat
           /\ pending'[a] = None
           /\ \A b \in Identities \ {a} : pending'[b] = pending[b]
           /\ Reservation'
           /\ (escrow = Cardinality(Units(pending)))'
<1>1. PICK m \in MinerIds : m = pending[a].miner
  BY DEF RegInv, RegTypes, PendingEntry
<1>2. pendingMiner[m] = a
  BY <1>1 DEF RegInv, Reservation
<1>3. /\ pending' = [pending EXCEPT ![a] = None]
      /\ pendingMiner' = [pendingMiner EXCEPT ![m] = None]
      /\ escrow' = escrow - pending[a].payment
  BY <1>1, <1>2 DEF Release, ClearPending, RegInv, RegTypes
<1>4. /\ pending' \in [Identities -> PendingEntry \cup {None}]
      /\ pendingMiner' \in [MinerIds -> Identities \cup {None}]
      /\ pending'[a] = None
      /\ \A b \in Identities \ {a} : pending'[b] = pending[b]
  BY <1>3 DEF RegInv, RegTypes
<1>5. Reservation'
  <2> SUFFICES ASSUME NEW b \in Identities, NEW n \in MinerIds
               PROVE  (pending'[b] # None /\ pending'[b].miner = n) <=> pendingMiner'[n] = b
    BY DEF Reservation
  <2>1. (pending[b] # None /\ pending[b].miner = n) <=> pendingMiner[n] = b
    BY DEF RegInv, Reservation
  <2>2. /\ pending'[b] = IF b = a THEN None ELSE pending[b]
        /\ pendingMiner'[n] = IF n = m THEN None ELSE pendingMiner[n]
    BY <1>3 DEF RegInv, RegTypes
  <2>3. b # None
    BY NoneAssumption
  <2> QED BY <2>1, <2>2, <2>3, <1>1, <1>2
<1>6. Cardinality(Units(pending)) = Cardinality(Units(pending')) + pending[a].payment
  <2>1. pending \in [Identities -> PendingEntry \cup {None}]
    BY DEF RegInv, RegTypes
  <2> QED BY <2>1, <1>4, OnePending
<1>7. pending[a].payment \in Nat
  BY RegistryBounds DEF RegInv, RegTypes, PendingEntry
<1>8. Cardinality(Units(pending')) \in Nat
  BY UnitsFinite
<1>9. escrow' = Cardinality(Units(pending'))
  BY <1>3, <1>6, <1>7, <1>8 DEF RegInv
<1> QED BY <1>4, <1>5, <1>8, <1>9

\* A cancellation refunds the request.
LEMMA CancelRegistrationKeeps ==
    ASSUME IInv, NEW a \in Identities, CancelRegistration(a)
    PROVE  IInv'
<1>1. /\ pending[a] # None /\ Release(a)
      /\ UNCHANGED <<block, minerOf, ownerOf, records, count, registered, regCalls, vote,
                     voteCalls, roundVars>>
  BY DEF CancelRegistration, regVars
<1>2. /\ RegTypes' /\ Reservation' /\ (escrow = Cardinality(Units(pending)))'
      /\ pending'[a] = None
      /\ \A b \in Identities \ {a} : pending'[b] = pending[b]
  BY <1>1, ReleaseEnds DEF IInv, RegInv, RegTypes
<1>3. Ownership' /\ Listed'
  BY <1>1 DEF IInv, RegInv, Ownership, Listed
<1>4. Undisputed'
  BY <1>1, <1>2 DEF IInv, RegInv, Undisputed
<1>5. VoteInv'
  BY <1>1, VoteFrame DEF IInv, VoteInv, VoteTypes, VotersRegistered
<1> QED BY <1>2, <1>3, <1>4, <1>5 DEF IInv, RegInv

\* A callback ends the request, and registers the miner only when its id and
\* its place are still free.
LEMMA CompleteRegistrationKeeps ==
    ASSUME IInv, NEW a \in Identities, NEW result \in Results,
           CompleteRegistration(a, result)
    PROVE  IInv'
<1>1. /\ regCalls' = [regCalls EXCEPT ![a] = @ - 1] /\ regCalls[a] > 0
      /\ UNCHANGED <<block, vote, voteCalls, roundVars>>
  BY DEF CompleteRegistration
<1>2. regCalls' \in [Identities -> Nat] /\ block' \in Nat
  BY <1>1 DEF IInv, RegInv, RegTypes
<1>3. CASE pending[a] = None
  <2>1. UNCHANGED <<minerOf, ownerOf, records, count, registered, pending, pendingMiner,
                    escrow>>
    BY <1>3 DEF CompleteRegistration, regVars
  <2>2. RegTypes'
    BY <2>1, <1>2 DEF IInv, RegInv, RegTypes
  <2>3. (escrow = Cardinality(Units(pending)))'
    BY <2>1 DEF IInv, RegInv
  <2>4. VoteInv'
    BY <2>1, <1>1, VoteFrame DEF IInv, VoteInv, VoteTypes, VotersRegistered
  <2> QED BY <2>1, <2>2, <2>3, <2>4
          DEF IInv, RegInv, Ownership, Reservation, Undisputed, Listed
<1>4. CASE pending[a] # None
  <2>1. Release(a)
    BY <1>4 DEF CompleteRegistration
  <2>2. /\ pending' \in [Identities -> PendingEntry \cup {None}]
        /\ pendingMiner' \in [MinerIds -> Identities \cup {None}]
        /\ escrow' \in Nat
        /\ pending'[a] = None
        /\ \A b \in Identities \ {a} : pending'[b] = pending[b]
        /\ Reservation'
        /\ (escrow = Cardinality(Units(pending)))'
    BY <2>1, <1>4, ReleaseEnds DEF IInv
  <2>3. CASE UNCHANGED regVars
    <3>1. UNCHANGED <<minerOf, ownerOf, records, count, registered>>
      BY <2>3 DEF regVars
    <3>2. RegTypes'
      BY <3>1, <2>2, <1>2 DEF IInv, RegInv, RegTypes
    <3>3. Ownership' /\ Listed'
      BY <3>1 DEF IInv, RegInv, Ownership, Listed
    <3>4. Undisputed'
      BY <3>1, <2>2 DEF IInv, RegInv, Undisputed
    <3>5. VoteInv'
      BY <3>1, <1>1, VoteFrame DEF IInv, VoteInv, VoteTypes, VotersRegistered
    <3> QED BY <3>2, <3>3, <3>4, <3>5, <2>2 DEF IInv, RegInv
  <2>4. CASE ~UNCHANGED regVars
    <3>1. PICK m \in MinerIds : m = pending[a].miner
      BY <1>4 DEF IInv, RegInv, RegTypes, PendingEntry
    <3>2. PICK line \in [commitment : Commitments, block : Nat] :
              line = [commitment |-> pending[a].commitment, block |-> block]
      BY <1>4 DEF IInv, RegInv, RegTypes, PendingEntry
    <3>3. /\ minerOf' = [minerOf EXCEPT ![a] = m]
          /\ ownerOf' = [ownerOf EXCEPT ![m] = a]
          /\ records' = [records EXCEPT ![a] = <<line>>]
          /\ count' = count + 1
          /\ registered' = registered \cup {m}
          /\ ~(count >= MaxMiners)
      BY <3>1, <3>2, <1>4, <2>4 DEF CompleteRegistration
    <3>4. minerOf[a] = None /\ ownerOf[m] = None /\ a # None /\ m # None
      BY <3>1, <1>4, NoneAssumption DEF IInv, RegInv, Undisputed
    <3>5. RegTypes'
      <4>1. records' \in [Identities -> Seq([commitment : Commitments, block : Nat])]
        <5>1. <<line>> \in Seq([commitment : Commitments, block : Nat])
          OBVIOUS
        <5> QED BY <5>1, <3>3 DEF IInv, RegInv, RegTypes
      <4>2. /\ minerOf' \in [Identities -> MinerIds \cup {None}]
            /\ ownerOf' \in [MinerIds -> Identities \cup {None}]
        BY <3>3 DEF IInv, RegInv, RegTypes
      <4>3. count' \in Nat /\ registered' \subseteq MinerIds
        BY <3>3 DEF IInv, RegInv, RegTypes
      <4> QED BY <4>1, <4>2, <4>3, <2>2, <1>2 DEF RegTypes
    <3>6. Ownership'
      <4> SUFFICES ASSUME NEW b \in Identities, NEW n \in MinerIds
                   PROVE  minerOf'[b] = n <=> ownerOf'[n] = b
        BY DEF Ownership
      <4>1. minerOf[b] = n <=> ownerOf[n] = b
        BY DEF IInv, RegInv, Ownership
      <4>2. /\ minerOf'[b] = IF b = a THEN m ELSE minerOf[b]
            /\ ownerOf'[n] = IF n = m THEN a ELSE ownerOf[n]
        BY <3>3 DEF IInv, RegInv, RegTypes
      <4>3. b # None /\ n # None
        BY NoneAssumption
      <4> QED BY <4>1, <4>2, <4>3, <3>4
    <3>7. Undisputed'
      <4> SUFFICES ASSUME NEW b \in Identities, pending'[b] # None
                   PROVE  minerOf'[b] = None /\ ownerOf'[pending'[b].miner] = None
        BY DEF Undisputed
      <4>1. b # a /\ pending[b] # None /\ pending'[b] = pending[b]
        BY <2>2
      <4>2. PICK n \in MinerIds : n = pending[b].miner
        BY <4>1 DEF IInv, RegInv, RegTypes, PendingEntry
      <4>3. pendingMiner[n] = b /\ pendingMiner[m] = a
        BY <4>1, <4>2, <3>1, <1>4 DEF IInv, RegInv, Reservation
      <4>4. n # m /\ minerOf[b] = None /\ ownerOf[n] = None
        BY <4>1, <4>2, <4>3 DEF IInv, RegInv, Undisputed
      <4> QED BY <4>1, <4>2, <4>4, <3>3 DEF IInv, RegInv, RegTypes
    <3>8. Listed'
      <4>1. registered' = {n \in MinerIds : ownerOf'[n] # None}
        BY <3>3, <3>4 DEF IInv, RegInv, RegTypes, Listed
      <4>2. m \notin registered /\ IsFiniteSet(registered)
        BY <3>4, RegistryFinite, FS_Subset DEF IInv, RegInv, RegTypes, Listed
      <4>3. Cardinality(registered') = Cardinality(registered) + 1
        BY <4>2, <3>3, FS_AddElement
      <4>4. count' = Cardinality(registered')
        BY <4>3, <3>3 DEF IInv, RegInv, Listed
      <4>5. count' <= MaxMiners
        BY <3>3, RegistryBounds DEF IInv, RegInv, RegTypes
      <4> QED BY <4>1, <4>4, <4>5 DEF Listed
    <3>9. VoteInv'
      <4>1. \A b \in Identities : vote'[b] # None => minerOf'[b] # None
        BY <3>3, <3>4, <1>1 DEF IInv, RegInv, RegTypes, VoteInv, VotersRegistered
      <4>2. registered \subseteq registered'
        BY <3>3
      <4> QED BY <4>1, <4>2, <1>1, VoteFrame DEF IInv, VoteInv, VoteTypes
    <3> QED BY <3>5, <3>6, <3>7, <3>8, <3>9, <2>2 DEF IInv, RegInv
  <2> QED BY <2>3, <2>4
<1> QED BY <1>3, <1>4

\* A rotation only adds a record.
LEMMA RotateKeeps ==
    ASSUME IInv, NEW a \in Identities, NEW c \in Commitments, NEW p \in Amounts,
           RotateCommitment(a, c, p)
    PROVE  IInv'
<1>1. PICK line \in [commitment : Commitments, block : Nat] :
          line = [commitment |-> c, block |-> block]
  BY DEF IInv, RegInv, RegTypes
<1>2. /\ records' = [records EXCEPT ![a] = Append(@, line)]
      /\ UNCHANGED <<block, minerOf, ownerOf, count, registered, pending, pendingMiner,
                     escrow, regCalls, vote, voteCalls, roundVars>>
  BY <1>1 DEF RotateCommitment, pendingVars
<1>3. records' \in [Identities -> Seq([commitment : Commitments, block : Nat])]
  <2>1. PICK L : L = [commitment : Commitments, block : Nat]
    OBVIOUS
  <2>2. records \in [Identities -> Seq(L)] /\ line \in L
    BY <2>1 DEF IInv, RegInv, RegTypes
  <2>3. Append(records[a], line) \in Seq(L)
    BY <2>2
  <2>4. records' \in [Identities -> Seq(L)]
    BY <2>2, <2>3, <1>2
  <2> QED BY <2>1, <2>4
<1>4. RegTypes'
  BY <1>2, <1>3 DEF IInv, RegInv, RegTypes
<1>5. (escrow = Cardinality(Units(pending)))'
  BY <1>2 DEF IInv, RegInv
<1>6. VoteInv'
  BY <1>2, VoteFrame DEF IInv, VoteInv, VoteTypes, VotersRegistered
<1>7. Ownership' /\ Listed'
  BY <1>2 DEF IInv, RegInv, Ownership, Listed
<1>8. Reservation' /\ Undisputed'
  BY <1>2 DEF IInv, RegInv, Reservation, Undisputed
<1> QED BY <1>4, <1>5, <1>6, <1>7, <1>8 DEF IInv, RegInv

-----------------------------------------------------------------------------
(* Checkpoint votes.                                                       *)

\* A block changes neither half.
LEMMA AdvanceKeeps ==
    ASSUME IInv, AdvanceBlock
    PROVE  IInv'
<1>1. block' \in Nat
  BY DEF AdvanceBlock, IInv, RegInv, RegTypes
<1>2. UNCHANGED <<regVars, pendingVars, vote, voteCalls, roundVars>>
  BY DEF AdvanceBlock
<1>3. RegInv'
  BY <1>1, <1>2, RegFrame DEF IInv
<1>4. VoteInv'
  BY <1>2, VoteFrame DEF IInv, VoteInv, VoteTypes, VotersRegistered, regVars
<1> QED BY <1>3, <1>4 DEF IInv

\* A vote is recorded for a registered miner.
LEMMA VoteKeeps ==
    ASSUME IInv, NEW a \in Identities, NEW t \in Tips, NEW meta \in Metas,
           VoteCheckpoint(a, t, meta)
    PROVE  IInv'
<1>1. PICK v : v = [round |-> LatestRound + 1, tip |-> t, meta |-> meta,
                    parent |-> ExpectedParent]
  OBVIOUS
<1>2. /\ minerOf[a] # None /\ OpenVote(v)
      /\ vote' = [vote EXCEPT ![a] = v]
      /\ voteCalls' = [voteCalls EXCEPT ![a] = @ + 1]
      /\ UNCHANGED <<block, regVars, pendingVars, roundVars>>
  BY <1>1 DEF VoteCheckpoint
<1>3. LatestRound + 1 \in Rounds
  BY <1>1, <1>2 DEF OpenVote
<1>4. ExpectedParent \in Tips \cup {None}
  <2>1. CASE final = <<>>
    BY <2>1 DEF ExpectedParent
  <2>2. CASE final # <<>>
    <3>1. final \in Seq(FinalEntry) /\ Len(final) \in 1..Len(final)
      BY <2>2 DEF IInv, VoteInv, VoteTypes
    <3>2. final[Len(final)] \in FinalEntry
      BY <3>1
    <3> QED BY <2>2, <3>2 DEF ExpectedParent, LatestRound, FinalEntry
  <2> QED BY <2>1, <2>2
<1>5. v \in VoteEntry
  BY <1>1, <1>3, <1>4 DEF VoteEntry
<1>6. vote' \in [Identities -> VoteEntry \cup {None}] /\ voteCalls' \in [Identities -> Nat]
  BY <1>2, <1>5 DEF IInv, VoteInv, VoteTypes
<1>7. \A b \in Identities : vote'[b] # None => minerOf'[b] # None
  BY <1>2 DEF IInv, VoteInv, VoteTypes, VotersRegistered, regVars
<1>8. RegInv'
  BY <1>2, RegFrame DEF IInv, RegInv, RegTypes
<1>9. VoteInv'
  BY <1>2, <1>6, <1>7, VoteFrame DEF IInv, regVars
<1> QED BY <1>8, <1>9 DEF IInv

\* A vote may be withdrawn at any time.
LEMMA CancelVoteKeeps ==
    ASSUME IInv, NEW a \in Identities, CancelVote(a)
    PROVE  IInv'
<1>1. /\ vote' = [vote EXCEPT ![a] = None]
      /\ UNCHANGED <<block, regVars, pendingVars, voteCalls, roundVars>>
  BY DEF CancelVote
<1>2. RegInv'
  BY <1>1, RegFrame DEF IInv, RegInv, RegTypes
<1>3. VoteInv'
  BY <1>1, VoteFrame DEF IInv, VoteInv, VoteTypes, VotersRegistered, regVars
<1> QED BY <1>2, <1>3 DEF IInv

\* A vote that is counted moves its miner to one tip of the open round, and
\* completes the round only with two thirds of the registered miners.
LEMMA MoveVoteSound ==
    ASSUME IInv, NEW v \in VoteEntry, NEW m \in registered,
           OpenVote(v), MoveVote(v, m),
           UNCHANGED registered,
           vote' \in [Identities -> VoteEntry \cup {None}],
           voteCalls' \in [Identities -> Nat],
           \A a \in Identities : vote'[a] # None => minerOf'[a] # None
    PROVE  VoteInv'
<1> DEFINE r == v.round
           S == supporters[r][v.tip] \cup {m}
           e == CheckpointRecord(v, S)
<1>1. /\ r \in Rounds /\ r = Len(final) + 1 /\ v.tip \in Tips /\ v.meta \in Metas
      /\ v.parent = ExpectedParent /\ v.parent \in Tips \cup {None}
      /\ block >= EarliestBlock
      /\ m \in MinerIds /\ v.tip # None
  BY NoneAssumption DEF OpenVote, LatestRound, VoteEntry, IInv, RegInv, RegTypes
<1>2. CASE voter[r][m] = v.tip
  <2>1. UNCHANGED roundVars
    BY <1>2 DEF MoveVote
  <2> QED BY <2>1, VoteFrame DEF IInv
<1>3. CASE voter[r][m] # v.tip
  <2>1. /\ candidate' = [candidate EXCEPT ![r][v.tip] = v.meta]
        /\ voter' = [voter EXCEPT ![r][m] = v.tip]
        /\ supporters' = [supporters EXCEPT ![r] =
             [t \in Tips |-> IF t = v.tip THEN S ELSE @[t] \ {m}]]
        /\ final' = IF Quorum(S) THEN Append(final, e) ELSE final
    BY <1>3 DEF MoveVote, SupportersWith
  <2>2. S \subseteq registered /\ S \subseteq MinerIds /\ registered \subseteq MinerIds
    BY <1>1 DEF IInv, RegInv, RegTypes, VoteInv, VotersRegistered
  <2>3. \A q \in Rounds, t \in Tips :
            supporters'[q][t] = IF q # r THEN supporters[q][t]
                                ELSE IF t = v.tip THEN S ELSE supporters[q][t] \ {m}
    BY <2>1, <1>1 DEF IInv, VoteInv, VoteTypes
  <2>4. \A q \in Rounds, n \in MinerIds :
            voter'[q][n] = IF q = r /\ n = m THEN v.tip ELSE voter[q][n]
    BY <2>1, <1>1 DEF IInv, VoteInv, VoteTypes
  <2>5. e \in FinalEntry
    BY <1>1, <2>2 DEF CheckpointRecord, FinalEntry, IInv, RegInv, RegTypes
  <2>6. /\ final \in Seq(FinalEntry) /\ final' \in Seq(FinalEntry)
        /\ Len(final) \in Nat /\ Len(final') <= MaxRound
        /\ \A q \in 1..Len(final) : q \in 1..Len(final') /\ final'[q] = final[q]
        /\ \A q \in 1..Len(final') :
              q \notin 1..Len(final) => q = r /\ final'[q] = e /\ Quorum(S)
    <3>1. final \in Seq(FinalEntry) /\ Len(final) \in Nat /\ Len(final) <= MaxRound
      BY DEF IInv, VoteInv, VoteTypes
    <3>2. r <= MaxRound
      BY <1>1, RegistryBounds DEF Rounds
    <3>3. CASE Quorum(S)
      <4>1. final' = Append(final, e)
        BY <3>3, <2>1
      <4> HIDE DEF e, S
      <4> QED BY <4>1, <3>1, <3>2, <3>3, <1>1, <2>5
    <3>4. CASE ~Quorum(S)
      <4>1. final' = final
        BY <3>4, <2>1
      <4> HIDE DEF e, S
      <4> QED BY <4>1, <3>1
    <3> QED BY <3>3, <3>4
  <2>7. VoteTypes'
    <3>1. candidate' \in [Rounds -> [Tips -> Metas \cup {None}]]
      BY <2>1, <1>1 DEF IInv, VoteInv, VoteTypes
    <3>2. voter' \in [Rounds -> [MinerIds -> Tips \cup {None}]]
      BY <2>1, <1>1 DEF IInv, VoteInv, VoteTypes
    <3>3. supporters' \in [Rounds -> [Tips -> SUBSET MinerIds]]
      <4>1. [t \in Tips |-> IF t = v.tip THEN S ELSE supporters[r][t] \ {m}]
                \in [Tips -> SUBSET MinerIds]
        BY <1>1, <2>2 DEF IInv, VoteInv, VoteTypes
      <4> QED BY <4>1, <2>1, <1>1 DEF IInv, VoteInv, VoteTypes
    <3> HIDE DEF r, S, e
    <3> QED BY <3>1, <3>2, <3>3, <2>6 DEF VoteTypes
  <2>8. VotersRegistered'
    <3>1. \A q \in Rounds, t \in Tips : supporters[q][t] \subseteq registered
      BY DEF IInv, VoteInv, VotersRegistered
    <3>2. \A q \in Rounds, t \in Tips : supporters'[q][t] \subseteq registered
      <4> SUFFICES ASSUME NEW q \in Rounds, NEW t \in Tips
                   PROVE  supporters'[q][t] \subseteq registered
        OBVIOUS
      <4>1. \/ supporters'[q][t] = supporters[q][t]
            \/ supporters'[q][t] = S
            \/ supporters'[q][t] = supporters[q][t] \ {m}
        BY <2>3
      <4>2. supporters[q][t] \subseteq registered
        BY <3>1
      <4> HIDE DEF S
      <4> QED BY <4>1, <4>2, <2>2
    <3> QED BY <3>2 DEF VotersRegistered
  <2>9. OneTipPerMiner'
    <3> SUFFICES ASSUME NEW q \in Rounds, NEW t \in Tips
                 PROVE  supporters'[q][t] = {n \in MinerIds : voter'[q][n] = t}
      BY DEF OneTipPerMiner
    <3>1. supporters[q][t] = {n \in MinerIds : voter[q][n] = t}
      BY DEF IInv, VoteInv, FinalitySound, OneTipPerMiner
    <3>2. CASE q # r
      <4>1. supporters'[q][t] = supporters[q][t]
        BY <3>2, <2>3
      <4>2. \A n \in MinerIds : voter'[q][n] = voter[q][n]
        BY <3>2, <2>4
      <4> QED BY <4>1, <4>2, <3>1
    <3>3. CASE q = r /\ t = v.tip
      <4>1. supporters'[q][t] = supporters[q][t] \cup {m}
        BY <3>3, <2>3
      <4> QED BY <4>1, <3>1, <3>3, <2>4, <1>1
    <3>4. CASE q = r /\ t # v.tip
      <4>1. supporters'[q][t] = supporters[q][t] \ {m}
        BY <3>4, <2>3
      <4> QED BY <4>1, <3>1, <3>4, <2>4, <1>1
    <3> QED BY <3>2, <3>3, <3>4
  <2>10. FinalizedByQuorum'
    <3> SUFFICES ASSUME NEW q \in 1..Len(final')
                 PROVE  /\ final'[q].supporters \subseteq final'[q].registered
                        /\ 3 * Cardinality(final'[q].supporters)
                              >= 2 * Cardinality(final'[q].registered)
                        /\ final'[q].supporters = supporters'[q][final'[q].tip]
      BY DEF FinalizedByQuorum
    <3>1. CASE q \in 1..Len(final)
      <4>1. /\ final[q].supporters \subseteq final[q].registered
            /\ 3 * Cardinality(final[q].supporters) >= 2 * Cardinality(final[q].registered)
            /\ final[q].supporters = supporters[q][final[q].tip]
        BY <3>1 DEF IInv, VoteInv, FinalitySound, FinalizedByQuorum
      <4>2. q \in Rounds /\ q # r /\ final[q].tip \in Tips
        <5>1. Len(final) <= MaxRound /\ MaxRound \in Nat
          BY RegistryBounds DEF IInv, VoteInv, VoteTypes
        <5>2. final[q] \in FinalEntry
          BY <3>1, <2>6
        <5> HIDE DEF r, S, e
        <5>3. q \in Rounds /\ q # r
          BY <5>1, <3>1, <1>1, <2>6, SMTT(30) DEF Rounds
        <5> QED BY <5>2, <5>3 DEF FinalEntry
      <4>3. supporters'[q][final[q].tip] = supporters[q][final[q].tip]
        BY <4>2, <2>3
      <4> QED BY <4>1, <4>3, <3>1, <2>6
    <3>2. CASE q \notin 1..Len(final)
      <4>1. /\ q = r /\ final'[q] = e /\ Quorum(S)
            /\ e.supporters = S /\ e.registered = registered /\ e.tip = v.tip
        BY <3>2, <2>6 DEF CheckpointRecord
      <4>2. Cardinality(S) >= CheckpointThreshold(Cardinality(registered))
        BY <4>1 DEF Quorum, IInv, RegInv, Listed
      <4>3. IsFiniteSet(registered) /\ IsFiniteSet(S)
        BY <2>2, RegistryFinite, FS_Subset
      <4>4. Cardinality(registered) \in Nat /\ Cardinality(S) \in Nat
        BY <4>3, FS_CardinalityType
      <4>5. 3 * Cardinality(S) >= 2 * Cardinality(registered)
        BY <4>2, <4>4, QuorumIsTwoThirds
      <4>6. supporters'[r][v.tip] = S
        BY <1>1, <2>3
      <4> HIDE DEF S, e
      <4> QED BY <4>1, <4>5, <4>6, <2>2
    <3> QED BY <3>1, <3>2
  <2>11. RoundsChain'
    <3> SUFFICES ASSUME NEW q \in 1..Len(final')
                 PROVE  IF q = 1
                        THEN final'[q].parent = None /\ final'[q].block > DeploymentBlock
                        ELSE /\ final'[q].parent = final'[q - 1].tip
                             /\ final'[q].block >= final'[q - 1].block + MinInterval
      BY DEF RoundsChain
    <3>1. CASE q \in 1..Len(final)
      <4>1. q = 1 \/ q - 1 \in 1..Len(final)
        BY <3>1, <2>6
      <4> QED BY <4>1, <3>1, <2>6 DEF IInv, VoteInv, FinalitySound, RoundsChain
    <3>2. CASE q \notin 1..Len(final)
      <4>1. q = r /\ final'[q] = e /\ e.parent = ExpectedParent /\ e.block = block
        BY <3>2, <2>6, <1>1 DEF CheckpointRecord
      <4> HIDE DEF r, S, e
      <4>2. CASE final = <<>>
        <5>0. q = 1
          BY <4>1, <4>2, <1>1
        <5>1. q = 1 /\ ExpectedParent = None /\ EarliestBlock = DeploymentBlock + 1
          BY <5>0, <4>2 DEF ExpectedParent, EarliestBlock
        <5>2. block \in Nat /\ block >= DeploymentBlock + 1
          BY <5>1, <1>1 DEF IInv, RegInv, RegTypes
        <5> QED BY <5>1, <5>2, <4>1 DEF DeploymentBlock
      <4>3. CASE final # <<>>
        <5>1. /\ q - 1 = Len(final) /\ q # 1 /\ q - 1 \in 1..Len(final)
              /\ ExpectedParent = final[q - 1].tip
              /\ EarliestBlock = final[q - 1].block + MinInterval
          BY <4>1, <4>3, <1>1, <2>6 DEF ExpectedParent, EarliestBlock, LatestRound
        <5>2. final'[q - 1] = final[q - 1]
          BY <5>1, <2>6
        <5> QED BY <5>1, <5>2, <4>1, <1>1
      <4> QED BY <4>2, <4>3
    <3> QED BY <3>1, <3>2
  <2> QED BY <2>7, <2>8, <2>9, <2>10, <2>11 DEF VoteInv, FinalitySound
<1> QED BY <1>2, <1>3

\* The callback of a vote counts it, drops it, or is reverted.
LEMMA CompleteVoteKeeps ==
    ASSUME IInv, NEW a \in Identities, NEW result \in Results, CompleteVote(a, result)
    PROVE  IInv'
<1>1. /\ voteCalls' = [voteCalls EXCEPT ![a] = @ - 1] /\ voteCalls[a] > 0
      /\ UNCHANGED <<block, regVars, pendingVars>>
  BY DEF CompleteVote
<1>2. voteCalls' \in [Identities -> Nat]
  BY <1>1 DEF IInv, VoteInv, VoteTypes
<1>3. RegInv'
  BY <1>1, RegFrame DEF IInv, RegInv, RegTypes
<1>4. UNCHANGED <<minerOf, registered>>
  BY <1>1 DEF regVars
<1>5. vote' = vote \/ vote' = [vote EXCEPT ![a] = None]
  BY DEF CompleteVote
<1>6. /\ vote' \in [Identities -> VoteEntry \cup {None}]
      /\ \A b \in Identities : vote'[b] # None => minerOf'[b] # None
  BY <1>4, <1>5 DEF IInv, VoteInv, VoteTypes, VotersRegistered
<1>7. CASE UNCHANGED roundVars
  <2>1. VoteInv'
    BY <1>2, <1>4, <1>6, <1>7, VoteFrame DEF IInv
  <2> QED BY <2>1, <1>3 DEF IInv
<1>8. CASE ~UNCHANGED roundVars
  <2>1. vote[a] # None /\ ~VoteReverts(a) /\ MoveVote(vote[a], minerOf[a])
    BY <1>8 DEF CompleteVote
  <2>2. vote[a] \in VoteEntry /\ OpenVote(vote[a])
    BY <2>1 DEF VoteReverts, IInv, VoteInv, VoteTypes
  <2>3. minerOf[a] \in registered
    <3>1. minerOf[a] \in MinerIds
      BY <2>1 DEF IInv, RegInv, RegTypes, VoteInv, VotersRegistered
    <3>2. ownerOf[minerOf[a]] = a /\ a # None
      BY <3>1, NoneAssumption DEF IInv, RegInv, Ownership
    <3> QED BY <3>1, <3>2 DEF IInv, RegInv, Listed
  <2>4. VoteInv'
    BY <2>1, <2>2, <2>3, <1>2, <1>4, <1>6, MoveVoteSound
  <2> QED BY <2>4, <1>3 DEF IInv
<1> QED BY <1>7, <1>8

-----------------------------------------------------------------------------
(* The theorems.                                                           *)

\* The inductive invariant holds in every reachable state of the contract.
THEOREM RegistryInvariant == Spec => []IInv
<1>1. IInv /\ [Next]_vars => IInv'
  <2> SUFFICES ASSUME IInv, [Next]_vars PROVE IInv'
    OBVIOUS
  <2>1. CASE UNCHANGED vars
    <3>1. UNCHANGED <<block, regVars, pendingVars, vote, voteCalls, roundVars>>
      BY <2>1 DEF vars
    <3>2. RegInv'
      BY <3>1, RegFrame DEF IInv, RegInv, RegTypes
    <3>3. VoteInv'
      BY <3>1, VoteFrame DEF IInv, VoteInv, VoteTypes, VotersRegistered, regVars
    <3> QED BY <3>2, <3>3 DEF IInv
  <2>2. CASE Next
    BY <2>2, AdvanceKeeps, RegisterKeeps, CompleteRegistrationKeeps,
       CancelRegistrationKeeps, RotateKeeps, VoteKeeps, CompleteVoteKeeps, CancelVoteKeeps
       DEF Next
  <2> QED BY <2>1, <2>2
<1> QED BY InitHolds, <1>1, PTL DEF Spec

\* The storage keys of the contract keep their types (index.ts).
THEOREM RegistryTypes == Spec => []TypeOK
<1>1. IInv => TypeOK
  BY DEF IInv, RegInv, RegTypes, VoteInv, VoteTypes, TypeOK
<1> QED BY <1>1, RegistryInvariant, PTL

\* However registrations, callbacks, cancellations and rotations of any number
\* of identities interleave, the contract holds exactly the payments it owes,
\* every index agrees with the one it mirrors, and the count is the number of
\* registered miners, within the limit (registerMiner, completeRegistration,
\* cancelRegistration in index.ts).
THEOREM RegistrationHolds == Spec => []RegistrationSound
<1>1. IInv => RegistrationSound
  BY RegInvSound DEF IInv
<1> QED BY <1>1, RegistryInvariant, PTL

\* However votes, late or reverted callbacks and withdrawals interleave, a miner
\* supports one tip of a round, a finalized checkpoint has two thirds of the
\* miners registered then, on record for good, and every round names its
\* predecessor and keeps its distance to it (voteCheckpoint,
\* completeCheckpointVote, applyCheckpointVote in index.ts).
THEOREM FinalityHolds == Spec => []FinalitySound
<1>1. IInv => FinalitySound
  BY DEF IInv, VoteInv
<1> QED BY <1>1, RegistryInvariant, PTL
==============================================================================
