---------------------------- MODULE StratumProofs ----------------------------
(***************************************************************************)
(* Machine-checked proofs about Stratum, for every set of connections,     *)
(* solutions and configurations, and any number of shares and events.      *)
(***************************************************************************)
EXTENDS Stratum, SequenceTheorems, TLAPS

Templates == [tip : Nat, time : Nat]

Jobs == [template : Templates, parent : Nat \cup {None}]

Works == [job : Jobs, conn : Conns, nonce : Nonces] \cup {None}

Entry == [parent : Nat, depth : Nat, work : Works]

Refresh == [at : {"build", "install", "send"}, template : Templates, job : Jobs \cup {None}]

Fields == {"open", "subscribed", "authorized", "submitted", "updates", "lagged", "told", "at",
           "work", "job", "parent"}

\* None, the tasks and the connections are different things, and the channel
\* of job updates has a place.
StratumConstants ==
    /\ None \notin Conns \cup Jobs \cup Refresh
    /\ Loop \notin Conns
    /\ MaxUpdates \in Nat \ {0}

Types ==
    /\ ConfigValid(config)
    /\ log \in Seq(Entry)
    /\ tip \in 0..Len(log)
    /\ \A i \in 1..Len(log) : log[i].parent \in 0..Len(log)
    /\ template \in Templates
    /\ active \in Jobs
    /\ refresh \in [Tasks -> Refresh \cup {None}]
    /\ \A t \in Tasks : refresh[t] # None /\ refresh[t].at # "build" => refresh[t].job \in Jobs
    /\ DOMAIN conn = Conns

\* No share of the adapter itself has parent q.
Untaken(q) == \A i \in 1..Len(log) : log[i].work # None => log[i].parent # q

\* A share of the adapter lies above its parent, so that the tip has left it.
OwnBelowTip ==
    \A i \in 1..Len(log) : log[i].work # None => Depth(log[i].parent) < Depth(tip)

\* The loop is the only task that refreshes.
Alone == ~config.bound /\ ~config.autoSubmit

Sending == refresh[Loop] # None /\ refresh[Loop].at = "send"

\* The stages at which an anchored adapter holds the anchor lock for a share.
Locked == {"block", "anchor", "verify", "publish"}

ConnTypes(k) ==
    /\ DOMAIN k = Fields
    /\ k.updates \in Seq(Jobs)
    /\ k.told \in Jobs \cup {None}
    /\ k.work \in Works

\* A share is built by the holder of the anchor lock, on a parent that no other
\* share of the adapter has.
ConnShare(c, k) ==
    /\ config.anchored /\ k.at \in Locked => anchorLock = c
    /\ config.bound /\ k.at \in {"block", "anchor"} =>
          k.job.parent \in 0..Len(log) /\ Untaken(k.job.parent)
    /\ k.at \in {"verify", "publish"} =>
          k.parent \in 0..Len(log) /\ (config.anchored => Untaken(k.parent))

\* The newest update that waits is the active job, and a connection without
\* one was told of it, unless the loop is about to send it.
ConnJob(c, k) ==
    Alone =>
        /\ k.at # "refresh" /\ refresh[c] = None
        /\ k.subscribed /\ k.updates # <<>> /\ ~Sending => k.updates[Len(k.updates)] = active
        /\ \/ k.at = "subscribe" \/ ~k.subscribed \/ k.lagged \/ k.updates # <<>>
           \/ Sending \/ k.told = active

ConnInv(c) == ConnTypes(conn[c]) /\ ConnShare(c, conn[c]) /\ ConnJob(c, conn[c])

ConnsInv == \A c \in Conns : ConnInv(c)

\* What the loop is about to send is the active job.
SendsActive == Alone /\ Sending => refresh[Loop].job = active

LogInv == OwnBelowTip /\ OwnSharesChain /\ WorkCreditedOnce

IInv == Types /\ LogInv /\ ConnsInv /\ SendsActive

-----------------------------------------------------------------------------
(* Lemmas about the operators.                                             *)

\* The inductive invariant gives the promises of the adapter.
LEMMA InvSound == IInv => AdapterSound
<1> SUFFICES ASSUME IInv PROVE MinersHaveTheJob
  BY DEF IInv, LogInv, AdapterSound
<1>1. Loop \in Tasks
  BY DEF Tasks
<1> QED BY <1>1 DEF IInv, ConnsInv, ConnInv, ConnJob, Alone, Sending, MinersHaveTheJob

\* A job on a known template and share parent is a job.
LEMMA JobTyped ==
    ASSUME NEW t \in Templates, NEW q \in Nat
    PROVE  Job(t, q) \in Jobs
BY DEF Job, Jobs

\* A stored share has a depth.
LEMMA DepthTyped ==
    ASSUME Types, NEW i \in 0..Len(log)
    PROVE  Depth(i) \in Nat
<1>1. CASE i = 0
  BY <1>1 DEF Depth
<1>2. CASE i # 0
  <2>1. i \in 1..Len(log) /\ log \in Seq(Entry)
    BY <1>2 DEF Types
  <2>2. log[i] \in Entry
    BY <2>1
  <2> QED BY <1>2, <2>2 DEF Depth, Entry
<1> QED BY <1>1, <1>2

\* The tip is a free parent.
LEMMA TipUntaken ==
    ASSUME Types, OwnBelowTip
    PROVE  Untaken(tip)
<1> SUFFICES ASSUME NEW i \in 1..Len(log), log[i].work # None, log[i].parent = tip
             PROVE  FALSE
  BY DEF Untaken
<1>1. Depth(tip) < Depth(tip)
  BY DEF OwnBelowTip
<1>2. Depth(tip) \in Nat
  BY DepthTyped DEF Types
<1> QED BY <1>1, <1>2

\* The last of the jobs that wait stays the last when the first is taken.
LEMMA TailLast ==
    ASSUME NEW u \in Seq(Jobs), u # <<>>
    PROVE  /\ Tail(u) \in Seq(Jobs) /\ Head(u) \in Jobs
           /\ Tail(u) = <<>> => Head(u) = u[Len(u)]
           /\ Tail(u) # <<>> => Tail(u)[Len(Tail(u))] = u[Len(u)]
<1>1. PICK v : v = Tail(u)
  OBVIOUS
<1>2. /\ v \in Seq(Jobs) /\ Head(u) \in Jobs /\ Len(v) = Len(u) - 1
      /\ \A i \in 1..Len(v) : v[i] = u[i + 1]
  BY <1>1, HeadTailProperties
<1>3. Head(u) = u[1] /\ Len(u) \in Nat \ {0}
  BY EmptySeq
<1>4. CASE v = <<>>
  <2>1. Len(v) = 0
    BY <1>4, EmptySeq
  <2>2. Len(u) = 1
    BY <1>2, <1>3, <2>1
  <2> QED BY <1>1, <1>2, <1>3, <1>4, <2>2
<1>5. CASE v # <<>>
  <2>1. Len(v) \in Nat \ {0}
    BY <1>2, <1>5, EmptySeq
  <2>2. v[Len(v)] = u[Len(u)]
    BY <1>2, <1>3, <2>1
  <2> QED BY <1>1, <1>2, <1>5, <2>2
<1> QED BY <1>4, <1>5

\* A closed connection promises nothing.
LEMMA ClosedHolds ==
    ASSUME NEW c, NEW k, k = Closed \/ k = [Closed EXCEPT !.open = TRUE],
           Alone => refresh[c] = None
    PROVE  ConnTypes(k) /\ ConnShare(c, k) /\ ConnJob(c, k)
<1>1. /\ DOMAIN k = Fields /\ k.updates = <<>> /\ k.told = None /\ k.work = None
      /\ k.at = "read" /\ k.subscribed = FALSE
  BY DEF Closed, Fields
<1>2. ConnTypes(k)
  BY <1>1 DEF ConnTypes, Works
<1>3. ConnShare(c, k)
  BY <1>1 DEF ConnShare, Locked
<1>4. ConnJob(c, k)
  BY <1>1 DEF ConnJob
<1> QED BY <1>2, <1>3, <1>4

\* What one more share changes: depths stay, and the tip is at least as deep as
\* before and as the share.
LEMMA OneMoreShare ==
    ASSUME Types, NEW e \in Entry, e.parent \in 0..Len(log),
           e.depth = Depth(e.parent) + 1, AppendShare(e)
    PROVE  /\ log' \in Seq(Entry) /\ Len(log') = Len(log) + 1
           /\ \A i \in 1..Len(log) : log'[i] = log[i]
           /\ log'[Len(log) + 1] = e
           /\ tip' \in 0..Len(log')
           /\ \A i \in 0..Len(log) : Depth(i)' = Depth(i) /\ Depth(i) \in Nat
           /\ Depth(tip)' \in Nat
           /\ Depth(tip)' >= Depth(tip) /\ Depth(tip)' >= e.depth
<1>1. log' = Append(log, e) /\ log \in Seq(Entry) /\ tip \in 0..Len(log) /\ Len(log) \in Nat
  BY DEF AppendShare, Types
<1>2. /\ log' \in Seq(Entry) /\ Len(log') = Len(log) + 1
      /\ \A i \in 1..Len(log) : log'[i] = log[i]
      /\ log'[Len(log) + 1] = e
  BY <1>1
<1>3. \A i \in 0..Len(log) : Depth(i) \in Nat
  BY DepthTyped
<1>4. \A i \in 0..Len(log) : (IF i = 0 THEN 0 ELSE log'[i].depth) = Depth(i)
  BY <1>1, <1>2 DEF Depth
<1>5. tip' \in NextTips(e)
  BY DEF AppendShare
<1>6. \/ tip' = tip /\ e.depth <= Depth(tip)
      \/ tip' = Len(log) + 1 /\ e.depth >= Depth(tip)
  BY <1>1, <1>5 DEF NextTips
<1>7. tip' \in 0..Len(log')
  BY <1>1, <1>2, <1>6
<1>8. e.depth \in Nat /\ Depth(tip) \in Nat
  BY <1>1, <1>3 DEF Entry
<1>9. (IF tip' = 0 THEN 0 ELSE log'[tip'].depth) =
          IF tip' = tip THEN Depth(tip) ELSE e.depth
  BY <1>1, <1>2, <1>4, <1>6
<1> QED BY <1>1, <1>2, <1>3, <1>4, <1>6, <1>7, <1>8, <1>9 DEF Depth

-----------------------------------------------------------------------------
(* Steps in general.                                                       *)

\* A step of one connection that leaves the log, the jobs and the configuration
\* alone, and the lock of every other connection.
LEMMA OneConnection ==
    ASSUME IInv, NEW c \in Conns, NEW k,
           conn' = [conn EXCEPT ![c] = k],
           UNCHANGED <<config, log, tip, template, active, refresh>>,
           \A q \in Conns \ {c} : anchorLock = q => anchorLock' = q,
           ConnTypes(k), ConnShare(c, k)', ConnJob(c, k)
    PROVE  IInv'
<1>1. /\ DOMAIN conn' = Conns /\ conn'[c] = k
      /\ \A q \in Conns \ {c} : conn'[q] = conn[q]
  BY DEF IInv, Types
<1>2. Types'
  BY <1>1 DEF IInv, Types, ConfigValid
<1>3. LogInv'
  BY DEF IInv, LogInv, OwnBelowTip, OwnSharesChain, WorkCreditedOnce, Depth
<1>4. SendsActive'
  BY DEF IInv, SendsActive, Alone, Sending
<1>5. ConnsInv'
  <2> SUFFICES ASSUME NEW q \in Conns PROVE ConnInv(q)'
    BY DEF ConnsInv
  <2>1. CASE q = c
    BY <2>1, <1>1 DEF ConnInv, ConnTypes, ConnShare, ConnJob, Alone, Sending
  <2>2. CASE q # c
    <3>1. conn'[q] = conn[q] /\ ConnInv(q) /\ (anchorLock = q => anchorLock' = q)
      BY <2>2, <1>1 DEF IInv, ConnsInv
    <3>2. ConnTypes(conn[q])' /\ ConnJob(q, conn[q])'
      BY <3>1 DEF ConnInv, ConnTypes, ConnJob, Alone, Sending
    <3>3. ConnShare(q, conn[q])'
      BY <3>1 DEF ConnInv, ConnShare, Untaken
    <3> QED BY <3>2, <3>3 DEF ConnInv
  <2> QED BY <2>1, <2>2
<1> QED BY <1>2, <1>3, <1>4, <1>5 DEF IInv

\* A connection that is not building a share promises nothing about one.
LEMMA NoShare ==
    ASSUME NEW c, NEW k, k.at \notin Locked
    PROVE  ConnShare(c, k)'
BY DEF ConnShare, Locked

\* What is not the adapter's: the template, checkpoints, eligibility, the
\* block lock.
LEMMA Outside ==
    ASSUME IInv, template' \in Templates,
           UNCHANGED <<config, log, tip, active, refresh, conn, anchorLock>>
    PROVE  IInv'
<1>1. Types'
  BY DEF IInv, Types, ConfigValid
<1>2. LogInv'
  BY DEF IInv, LogInv, OwnBelowTip, OwnSharesChain, WorkCreditedOnce, Depth
<1>3. SendsActive'
  BY DEF IInv, SendsActive, Alone, Sending
<1>4. ConnsInv'
  BY DEF IInv, ConnsInv, ConnInv, ConnTypes, ConnShare, ConnJob, Untaken, Alone, Sending
<1> QED BY <1>1, <1>2, <1>3, <1>4 DEF IInv

\* The adapter starts on an empty log, with one job and no connection.
LEMMA InitHolds == StratumConstants /\ Init => IInv
<1> SUFFICES ASSUME StratumConstants, Init PROVE IInv
  OBVIOUS
<1>1. template \in Templates /\ log = <<>> /\ Len(log) = 0 /\ tip = 0
  BY DEF Init, Templates
<1>2. active \in Jobs
  BY <1>1, JobTyped DEF Init
<1>3. \A t \in Tasks : refresh[t] = None
  BY DEF Init
<1>4. Types
  BY <1>1, <1>2, <1>3 DEF Init, Types
<1>5. LogInv
  BY <1>1 DEF LogInv, OwnBelowTip, OwnSharesChain, WorkCreditedOnce
<1>6. \A c \in Conns : conn[c] = Closed /\ refresh[c] = None
  BY <1>3 DEF Init, Tasks
<1>7. ConnsInv
  BY <1>6, ClosedHolds DEF ConnsInv, ConnInv
<1>8. SendsActive
  BY <1>3 DEF SendsActive, Sending, Tasks
<1> QED BY <1>4, <1>5, <1>7, <1>8 DEF IInv

-----------------------------------------------------------------------------
(* Miners.                                                                 *)

\* A connection opens or closes.
LEMMA OpenCloseKeeps ==
    ASSUME IInv, NEW c \in Conns, Connect(c) \/ Disconnect(c)
    PROVE  IInv'
<1>1. PICK k : /\ k = Closed \/ k = [Closed EXCEPT !.open = TRUE]
               /\ conn' = [conn EXCEPT ![c] = k]
  BY DEF Connect, Disconnect
<1>2. UNCHANGED <<config, log, tip, template, active, refresh, anchorLock>>
  BY DEF Connect, Disconnect, others, world
<1>3. Alone => refresh[c] = None
  BY DEF IInv, ConnsInv, ConnInv, ConnJob
<1>4. ConnTypes(k) /\ ConnJob(c, k)
  BY <1>1, <1>3, ClosedHolds
<1>5. k.at = "read"
  BY <1>1 DEF Closed
<1>6. ConnShare(c, k)'
  BY <1>5, NoShare DEF Locked
<1> QED BY <1>1, <1>2, <1>4, <1>6, OneConnection

\* A subscription starts with an empty receiver, and ends with the active job.
LEMMA SubscribeKeeps ==
    ASSUME IInv, NEW c \in Conns, Subscribe(c) \/ NotifySubscriber(c)
    PROVE  IInv'
<1>1. UNCHANGED <<config, log, tip, template, active, refresh, anchorLock>>
  BY DEF Subscribe, NotifySubscriber, others, world
<1>2. ConnInv(c) /\ active \in Jobs /\ DOMAIN conn = Conns
  BY DEF IInv, Types, ConnsInv
<1>3. CASE Subscribe(c)
  <2>1. PICK k : k = [conn[c] EXCEPT !.at = "subscribe", !.subscribed = TRUE,
                                     !.updates = <<>>, !.lagged = FALSE]
    OBVIOUS
  <2>2. conn' = [conn EXCEPT ![c] = k]
    BY <2>1, <1>2, <1>3 DEF Subscribe
  <2>3. /\ DOMAIN k = Fields /\ k.at = "subscribe" /\ k.updates = <<>>
        /\ k.told = conn[c].told /\ k.work = conn[c].work
    BY <2>1, <1>2 DEF ConnInv, ConnTypes, Fields
  <2>4. ConnTypes(k)
    BY <2>3, <1>2 DEF ConnInv, ConnTypes
  <2>5. ConnJob(c, k)
    BY <2>3, <1>2 DEF ConnInv, ConnJob
  <2>6. ConnShare(c, k)'
    BY <2>3, NoShare DEF Locked
  <2> QED BY <2>2, <2>4, <2>5, <2>6, <1>1, OneConnection
<1>4. CASE NotifySubscriber(c)
  <2>1. PICK k : k = [conn[c] EXCEPT !.at = "read", !.told = active]
    OBVIOUS
  <2>2. conn' = [conn EXCEPT ![c] = k]
    BY <2>1, <1>2, <1>4 DEF NotifySubscriber
  <2>3. /\ DOMAIN k = Fields /\ k.at = "read" /\ k.updates = conn[c].updates
        /\ k.told = active /\ k.work = conn[c].work /\ k.subscribed = conn[c].subscribed
    BY <2>1, <1>2 DEF ConnInv, ConnTypes, Fields
  <2>4. ConnTypes(k)
    BY <2>3, <1>2 DEF ConnInv, ConnTypes
  <2>5. ConnJob(c, k)
    BY <2>3, <1>2 DEF ConnInv, ConnJob
  <2>6. ConnShare(c, k)'
    BY <2>3, NoShare DEF Locked
  <2> QED BY <2>2, <2>4, <2>5, <2>6, <1>1, OneConnection
<1> QED BY <1>3, <1>4

\* An update is told to the miner; the last one that waits is the active job.
LEMMA JobUpdateKeeps ==
    ASSUME IInv, NEW c \in Conns, JobUpdate(c)
    PROVE  IInv'
<1> DEFINE o == conn[c]
<1>1. UNCHANGED <<config, log, tip, template, active, refresh, anchorLock>>
  BY DEF JobUpdate, others, world
<1>2. ConnInv(c) /\ active \in Jobs /\ DOMAIN conn = Conns
  BY DEF IInv, Types, ConnsInv
<1>3. o.at = "read" /\ (o.lagged \/ o.updates # <<>>)
  BY DEF JobUpdate, Reading
<1>4. CASE o.lagged
  <2>1. PICK k : k = [o EXCEPT !.lagged = FALSE, !.told = active, !.submitted = {}]
    OBVIOUS
  <2>2. conn' = [conn EXCEPT ![c] = k]
    BY <2>1, <1>2, <1>4 DEF JobUpdate
  <2>3. /\ DOMAIN k = Fields /\ k.at = "read" /\ k.updates = o.updates
        /\ k.told = active /\ k.work = o.work /\ k.subscribed = o.subscribed
    BY <2>1, <1>2, <1>3 DEF ConnInv, ConnTypes, Fields
  <2>4. ConnTypes(k)
    BY <2>3, <1>2 DEF ConnInv, ConnTypes
  <2>5. ConnJob(c, k)
    BY <2>3, <1>2 DEF ConnInv, ConnJob
  <2>6. ConnShare(c, k)'
    BY <2>3, NoShare DEF Locked
  <2> QED BY <2>2, <2>4, <2>5, <2>6, <1>1, OneConnection
<1>5. CASE ~o.lagged
  <2>1. PICK k : k = [o EXCEPT !.updates = Tail(o.updates), !.told = Head(o.updates),
                               !.submitted = {}]
    OBVIOUS
  <2>2. conn' = [conn EXCEPT ![c] = k]
    BY <2>1, <1>2, <1>5 DEF JobUpdate
  <2>3. /\ DOMAIN k = Fields /\ k.at = "read" /\ k.updates = Tail(o.updates)
        /\ k.told = Head(o.updates) /\ k.work = o.work /\ k.subscribed = o.subscribed
    BY <2>1, <1>2, <1>3 DEF ConnInv, ConnTypes, Fields
  <2>4. PICK u \in Seq(Jobs) : u = o.updates /\ u # <<>>
    BY <1>2, <1>3, <1>5 DEF ConnInv, ConnTypes
  <2>5. /\ Tail(u) \in Seq(Jobs) /\ Head(u) \in Jobs
        /\ Tail(u) = <<>> => Head(u) = u[Len(u)]
        /\ Tail(u) # <<>> => Tail(u)[Len(Tail(u))] = u[Len(u)]
    BY <2>4, TailLast
  <2>6. ConnTypes(k)
    BY <2>3, <2>4, <2>5, <1>2 DEF ConnInv, ConnTypes
  <2>7. ConnJob(c, k)
    BY <2>3, <2>4, <2>5, <1>2, <1>3 DEF ConnInv, ConnJob
  <2>8. ConnShare(c, k)'
    BY <2>3, NoShare DEF Locked
  <2> QED BY <2>2, <2>6, <2>7, <2>8, <1>1, OneConnection
<1> QED BY <1>4, <1>5

\* Authorization is nobody else's concern.
LEMMA AuthorizeKeeps ==
    ASSUME IInv, NEW c \in Conns, NEW result, Authorize(c, result)
    PROVE  IInv'
<1>1. UNCHANGED <<config, log, tip, template, active, refresh, anchorLock>>
  BY DEF Authorize, others, world
<1>2. ConnInv(c) /\ DOMAIN conn = Conns /\ conn[c].at = "read"
  BY DEF IInv, Types, ConnsInv, Authorize, Reading
<1>3. PICK k : k = [conn[c] EXCEPT !.authorized = result]
  OBVIOUS
<1>4. conn' = [conn EXCEPT ![c] = k]
  BY <1>2, <1>3 DEF Authorize
<1>5. /\ DOMAIN k = Fields /\ k.at = "read" /\ k.updates = conn[c].updates
      /\ k.told = conn[c].told /\ k.work = conn[c].work /\ k.lagged = conn[c].lagged
      /\ k.subscribed = conn[c].subscribed
  BY <1>2, <1>3 DEF ConnInv, ConnTypes, Fields
<1>6. ConnTypes(k)
  BY <1>5, <1>2 DEF ConnInv, ConnTypes
<1>7. ConnJob(c, k)
  BY <1>5, <1>2 DEF ConnInv, ConnJob
<1>8. ConnShare(c, k)'
  BY <1>5, NoShare DEF Locked
<1> QED BY <1>1, <1>4, <1>6, <1>7, <1>8, OneConnection

-----------------------------------------------------------------------------
(* The way of a share.                                                     *)

\* A connection goes to another stage with a work of its own; what it was told
\* and what waits for it stay.
LEMMA StageKeeps ==
    ASSUME IInv, NEW c \in Conns, NEW k,
           conn' = [conn EXCEPT ![c] = k],
           UNCHANGED <<config, log, tip, template, active, refresh>>,
           \A q \in Conns \ {c} : anchorLock = q => anchorLock' = q,
           DOMAIN k = Fields, k.work \in Works, conn[c].at # "subscribe",
           k.updates = conn[c].updates, k.told = conn[c].told,
           k.subscribed = conn[c].subscribed, k.lagged = conn[c].lagged,
           Alone => k.at # "refresh",
           ConnShare(c, k)'
    PROVE  IInv'
<1>1. ConnInv(c)
  BY DEF IInv, ConnsInv
<1>2. ConnTypes(k)
  BY <1>1 DEF ConnInv, ConnTypes
<1>3. ConnJob(c, k)
  BY <1>1 DEF ConnInv, ConnJob
<1> QED BY <1>2, <1>3, OneConnection

\* The stages and works of a connection.
LEMMA Stage ==
    ASSUME IInv, NEW c \in Conns
    PROVE  /\ DOMAIN conn = Conns /\ DOMAIN conn[c] = Fields
           /\ conn[c].work \in Works /\ conn[c].told \in Jobs \cup {None}
           /\ ConnShare(c, conn[c]) /\ ConnJob(c, conn[c])
           /\ None \in Works
BY DEF IInv, Types, ConnsInv, ConnInv, ConnTypes, Works

\* A submission: the work it is about to lock for is work of its job.
LEMMA SubmitKeeps ==
    ASSUME IInv, NEW c \in Conns, NEW n \in Nonces, Submit(c, n)
    PROVE  IInv'
<1> DEFINE o == conn[c]
           r == o.submitted \cup {Work(c, n)}
<1>1. UNCHANGED <<config, log, tip, template, active, refresh, anchorLock>>
  BY DEF Submit, others, world
<1>2. /\ o.at = "read" /\ o.told # None
      /\ conn' = [conn EXCEPT ![c] =
             IF Cardinality(o.submitted) >= MaxSubmitted THEN Closed
             ELSE IF o.told # active \/ Quality[n] = "none"
             THEN [o EXCEPT !.submitted = r]
             ELSE [o EXCEPT !.submitted = r, !.at = "lock", !.work = Work(c, n),
                            !.job = active]]
  BY Stage DEF Submit, Reading
<1>3. Work(c, n) \in Works
  BY <1>2, Stage DEF Work, Works
<1>4. CASE Cardinality(o.submitted) >= MaxSubmitted
  <2>1. conn' = [conn EXCEPT ![c] = Closed]
    BY <1>2, <1>4
  <2>2. Alone => refresh[c] = None
    BY Stage DEF ConnJob
  <2>3. ConnTypes(Closed) /\ ConnJob(c, Closed) /\ Closed.at = "read"
    BY <2>2, ClosedHolds DEF Closed
  <2>4. ConnShare(c, Closed)'
    BY <2>3, NoShare DEF Locked
  <2> QED BY <2>1, <2>3, <2>4, <1>1, OneConnection
<1>5. CASE ~(Cardinality(o.submitted) >= MaxSubmitted)
  <2>1. PICK k : /\ conn' = [conn EXCEPT ![c] = k]
                 /\ \/ k = [o EXCEPT !.submitted = r]
                    \/ k = [o EXCEPT !.submitted = r, !.at = "lock", !.work = Work(c, n),
                                     !.job = active]
    BY <1>2, <1>5
  <2>2. /\ DOMAIN k = Fields /\ k.work \in {o.work, Work(c, n)} /\ k.at \in {"read", "lock"}
        /\ k.updates = o.updates /\ k.told = o.told
        /\ k.subscribed = o.subscribed /\ k.lagged = o.lagged
    BY <2>1, <1>2, Stage, Zenon DEF Fields
  <2>3. ConnShare(c, k)'
    BY <2>2, NoShare DEF Locked
  <2> QED BY <2>1, <2>2, <2>3, <1>1, <1>2, <1>3, Stage, StageKeeps
<1> QED BY <1>4, <1>5

\* A handler that answers gives up its locks and keeps what waits for it.
LEMMA AnsweredKeeps ==
    ASSUME StratumConstants, IInv, NEW c \in Conns, NEW cs,
           cs = conn \/ \E s : cs = [conn EXCEPT ![c] = [conn[c] EXCEPT !.submitted = s]],
           Answered(c, cs), conn[c].at # "subscribe",
           UNCHANGED <<config, log, tip, template, active, refresh>>
    PROVE  IInv'
<1>1. DOMAIN cs = Conns /\ DOMAIN cs[c] = Fields
  BY Stage, Zenon
<1>2. /\ cs[c].updates = conn[c].updates /\ cs[c].told = conn[c].told
      /\ cs[c].subscribed = conn[c].subscribed /\ cs[c].lagged = conn[c].lagged
  BY Stage, Zenon DEF Fields
<1>3. \A k : [cs EXCEPT ![c] = k] = [conn EXCEPT ![c] = k]
  BY Stage
<1>4. PICK k : k = [cs[c] EXCEPT !.at = "read", !.work = None, !.job = None, !.parent = None]
  OBVIOUS
<1>5. conn' = [cs EXCEPT ![c] = k]
  BY <1>1, <1>4 DEF Answered
<1>6. conn' = [conn EXCEPT ![c] = k]
  BY <1>3, <1>5
<1>7. /\ DOMAIN k = Fields /\ k.work = None /\ k.at = "read"
      /\ k.updates = conn[c].updates /\ k.told = conn[c].told
      /\ k.subscribed = conn[c].subscribed /\ k.lagged = conn[c].lagged
  BY <1>1, <1>2, <1>4, Zenon DEF Fields
<1>8. \A q \in Conns \ {c} : anchorLock = q => anchorLock' = q
  BY DEF Answered
<1>9. ConnShare(c, k)'
  BY <1>7, NoShare DEF Locked
<1> QED BY <1>6, <1>7, <1>8, <1>9, Stage, StageKeeps

\* The anchor lock: a bound job that does not commit to the tip is refused, so
\* that the parent of the share to come is free.
LEMMA LockAnchorKeeps ==
    ASSUME StratumConstants, IInv, NEW c \in Conns, LockAnchor(c)
    PROVE  IInv'
<1>1. UNCHANGED <<config, log, tip, template, active, refresh>> /\ conn[c].at = "lock"
  BY DEF LockAnchor, world, At
<1>2. CASE config.bound /\ conn[c].job.parent # tip
  <2>1. Answered(c, conn)
    BY <1>2 DEF LockAnchor, Refused
  <2> QED BY <1>1, <2>1, AnsweredKeeps
<1>3. CASE ~(config.bound /\ conn[c].job.parent # tip)
  <2>1. PICK k : k = [conn[c] EXCEPT !.at = "block"]
    OBVIOUS
  <2>2. /\ conn' = [conn EXCEPT ![c] = k]
        /\ anchorLock' = IF config.anchored THEN c ELSE anchorLock
        /\ config.anchored => anchorLock = None
    BY <1>3, <2>1, Stage DEF LockAnchor, AnchorLockFree
  <2>3. /\ DOMAIN k = Fields /\ k.work = conn[c].work /\ k.at = "block"
        /\ k.updates = conn[c].updates /\ k.told = conn[c].told /\ k.job = conn[c].job
        /\ k.subscribed = conn[c].subscribed /\ k.lagged = conn[c].lagged
    BY <2>1, Stage, Zenon DEF Fields
  <2>4. \A q \in Conns \ {c} : anchorLock = q => anchorLock' = q
    BY <2>2 DEF StratumConstants
  <2>5. config.bound => config.anchored /\ Untaken(tip) /\ tip \in 0..Len(log)
    BY TipUntaken DEF IInv, LogInv, Types, ConfigValid
  <2>6. ConnShare(c, k)'
    BY <1>1, <1>3, <2>2, <2>3, <2>5 DEF ConnShare, Untaken
  <2> QED BY <1>1, <2>2, <2>3, <2>4, <2>6, Stage, StageKeeps
<1> QED BY <1>2, <1>3

\* The block lock guards the node's RPC, not the share.
LEMMA LockBlockKeeps ==
    ASSUME IInv, NEW c \in Conns, LockBlock(c)
    PROVE  IInv'
<1>1. /\ UNCHANGED <<config, log, tip, template, active, refresh, anchorLock>>
      /\ conn[c].at = "block"
  BY DEF LockBlock, world, At
<1>2. PICK k : k = [conn[c] EXCEPT !.at = "anchor"]
  OBVIOUS
<1>3. conn' = [conn EXCEPT ![c] = k]
  BY <1>2, Stage DEF LockBlock
<1>4. /\ DOMAIN k = Fields /\ k.work = conn[c].work /\ k.at = "anchor"
      /\ k.updates = conn[c].updates /\ k.told = conn[c].told /\ k.job = conn[c].job
      /\ k.subscribed = conn[c].subscribed /\ k.lagged = conn[c].lagged
  BY <1>2, Stage, Zenon DEF Fields
<1>5. ConnShare(c, k)'
  BY <1>1, <1>4, Stage DEF ConnShare, Untaken, Locked
<1> QED BY <1>1, <1>3, <1>4, <1>5, Stage, StageKeeps

\* A share is built on the parent its job commits to, or on the tip; both are
\* free.
LEMMA BuildShareKeeps ==
    ASSUME StratumConstants, IInv, NEW c \in Conns, BuildShare(c)
    PROVE  IInv'
<1>1. UNCHANGED <<config, log, tip, template, active, refresh>> /\ conn[c].at = "anchor"
  BY DEF BuildShare, world, At
<1>2. CASE config.anchored /\ ~config.bound /\ ~eligible
  <2>1. Answered(c, conn)
    BY <1>2 DEF BuildShare, Refused
  <2> QED BY <1>1, <2>1, AnsweredKeeps
<1>3. CASE ~(config.anchored /\ ~config.bound /\ ~eligible)
  <2>1. PICK p : p = IF config.bound THEN conn[c].job.parent ELSE tip
    OBVIOUS
  <2>2. PICK k : k = [conn[c] EXCEPT !.at = "verify", !.parent = p]
    OBVIOUS
  <2>3. conn' = [conn EXCEPT ![c] = k] /\ anchorLock' = anchorLock
    BY <1>3, <2>1, <2>2, Stage DEF BuildShare
  <2>4. /\ DOMAIN k = Fields /\ k.work = conn[c].work /\ k.at = "verify" /\ k.parent = p
        /\ k.updates = conn[c].updates /\ k.told = conn[c].told
        /\ k.subscribed = conn[c].subscribed /\ k.lagged = conn[c].lagged
    BY <2>2, Stage, Zenon DEF Fields
  <2>5. p \in 0..Len(log) /\ Untaken(p)
    BY <1>1, <2>1, Stage, TipUntaken DEF ConnShare, IInv, LogInv, Types
  <2>6. config.anchored => anchorLock = c
    BY <1>1, Stage DEF ConnShare, Locked
  <2>7. ConnShare(c, k)'
    BY <1>1, <2>3, <2>4, <2>5, <2>6 DEF ConnShare, Untaken
  <2> QED BY <1>1, <2>3, <2>4, <2>7, Stage, StageKeeps
<1> QED BY <1>2, <1>3

\* Verification changes only whether the share goes on.
LEMMA VerifyShareKeeps ==
    ASSUME StratumConstants, IInv, NEW c \in Conns, VerifyShare(c)
    PROVE  IInv'
<1>1. UNCHANGED <<config, log, tip, template, active, refresh>> /\ conn[c].at = "verify"
  BY DEF VerifyShare, world, At
<1>2. CASE Answered(c, conn)
  BY <1>1, <1>2, AnsweredKeeps
<1>3. CASE conn' = [conn EXCEPT ![c].at = "publish"] /\ UNCHANGED <<anchorLock, blockLock>>
  <2>1. PICK k : k = [conn[c] EXCEPT !.at = "publish"]
    OBVIOUS
  <2>2. conn' = [conn EXCEPT ![c] = k] /\ anchorLock' = anchorLock
    BY <1>3, <2>1, Stage
  <2>3. /\ DOMAIN k = Fields /\ k.work = conn[c].work /\ k.at = "publish"
        /\ k.updates = conn[c].updates /\ k.told = conn[c].told /\ k.parent = conn[c].parent
        /\ k.subscribed = conn[c].subscribed /\ k.lagged = conn[c].lagged
    BY <2>1, Stage, Zenon DEF Fields
  <2>4. ConnShare(c, k)'
    BY <1>1, <2>2, <2>3, Stage DEF ConnShare, Untaken, Locked
  <2> QED BY <1>1, <2>2, <2>3, <2>4, Stage, StageKeeps
<1> QED BY <1>2, <1>3 DEF VerifyShare, Refused

\* A share that is not logged is refused; a busy log forgets its key.
LEMMA PublishFailsKeeps ==
    ASSUME StratumConstants, IInv, NEW c \in Conns, LogBusy(c) \/ PublishFails(c)
    PROVE  IInv'
<1>1. UNCHANGED <<config, log, tip, template, active, refresh>> /\ conn[c].at = "publish"
  BY DEF LogBusy, PublishFails, At
<1>2. CASE LogBusy(c)
  <2>1. PICK s : s = Forget(conn[c].submitted, conn[c].work)
    OBVIOUS
  <2>2. PICK cs : cs = [conn EXCEPT ![c] = [conn[c] EXCEPT !.submitted = s]]
    OBVIOUS
  <2>3. cs = [conn EXCEPT ![c].submitted = Forget(@, conn[c].work)]
    BY <2>1, <2>2, Stage
  <2>4. Answered(c, cs)
    BY <2>3, <1>2 DEF LogBusy
  <2> QED BY <1>1, <2>2, <2>4, AnsweredKeeps
<1>3. CASE PublishFails(c)
  BY <1>1, <1>3, AnsweredKeeps DEF PublishFails, Refused
<1> QED BY <1>2, <1>3

\* The log grows by a share that is a peer's, or is not credited yet and, with
\* an anchor, on a free parent.
LEMMA LogGrows ==
    ASSUME IInv, NEW e \in Entry, e.parent \in 0..Len(log),
           e.depth = Depth(e.parent) + 1, AppendShare(e), config' = config,
           e.work # None => ~Credited(e.work) /\ (config.anchored => Untaken(e.parent))
    PROVE  LogInv'
<1> DEFINE new == Len(log) + 1
<1>1. Types /\ OwnBelowTip /\ OwnSharesChain /\ WorkCreditedOnce
  BY DEF IInv, LogInv
<1>2. /\ log' \in Seq(Entry) /\ Len(log) \in Nat /\ Len(log') = new
      /\ \A i \in 1..Len(log) : log'[i] = log[i]
      /\ log'[new] = e
      /\ \A i \in 0..Len(log) : Depth(i)' = Depth(i) /\ Depth(i) \in Nat
      /\ Depth(tip)' \in Nat /\ Depth(tip) \in Nat
      /\ Depth(tip)' >= Depth(tip) /\ Depth(tip)' >= e.depth
  <2>1. Len(log) \in Nat /\ Depth(tip) \in Nat
    BY <1>1, DepthTyped DEF Types
  <2>2. /\ log' \in Seq(Entry) /\ Len(log') = Len(log) + 1
        /\ \A i \in 1..Len(log) : log'[i] = log[i]
        /\ log'[Len(log) + 1] = e
    BY <1>1, OneMoreShare
  <2>3. /\ \A i \in 0..Len(log) : Depth(i)' = Depth(i) /\ Depth(i) \in Nat
        /\ Depth(tip)' \in Nat
        /\ Depth(tip)' >= Depth(tip) /\ Depth(tip)' >= e.depth
    BY <1>1, OneMoreShare
  <2> QED BY <2>1, <2>2, <2>3
<1>3. /\ DOMAIN log = 1..Len(log) /\ DOMAIN log' = 1..new
      /\ \A i \in 1..Len(log) : log[i].parent \in 0..Len(log)
  BY <1>1, <1>2 DEF Types
<1> HIDE DEF new
<1>4. \A i \in 1..new : i \in 1..Len(log) \/ i = new
  BY <1>2 DEF new
<1>5. OwnBelowTip'
  <2> SUFFICES ASSUME NEW i \in 1..new, NEW p, p = log'[i].parent, log'[i].work # None
               PROVE  Depth(p)' < Depth(tip)'
    BY <1>2 DEF OwnBelowTip, Depth
  <2>1. CASE i \in 1..Len(log)
    <3>1. p = log[i].parent /\ log[i].work # None
      BY <1>2, <2>1
    <3>2. Depth(p) < Depth(tip) /\ p \in 0..Len(log)
      BY <1>1, <1>3, <2>1, <3>1 DEF OwnBelowTip
    <3>3. Depth(p)' = Depth(p) /\ Depth(p) \in Nat
      BY <1>2, <3>2
    <3> QED BY <1>2, <3>2, <3>3
  <2>2. CASE i = new
    <3>1. p = e.parent /\ Depth(p) + 1 = e.depth /\ p \in 0..Len(log)
      BY <1>2, <2>2
    <3>2. Depth(p)' = Depth(p) /\ Depth(p) \in Nat
      BY <1>2, <3>1
    <3> QED BY <1>2, <3>1, <3>2
  <2> QED BY <1>4, <2>1, <2>2
<1>6. OwnSharesChain'
  <2> SUFFICES ASSUME config.anchored, NEW i \in 1..new, NEW j \in 1..new, i # j,
                      log'[i].work # None, log'[j].work # None
               PROVE  log'[i].parent # log'[j].parent
    BY <1>3 DEF OwnSharesChain
  <2>1. CASE i \in 1..Len(log) /\ j \in 1..Len(log)
    BY <1>1, <1>2, <1>3, <2>1 DEF OwnSharesChain
  <2>2. CASE i \in 1..Len(log) /\ j = new
    BY <1>2, <2>2 DEF Untaken
  <2>3. CASE i = new /\ j \in 1..Len(log)
    BY <1>2, <2>3 DEF Untaken
  <2> QED BY <1>4, <2>1, <2>2, <2>3
<1>7. WorkCreditedOnce'
  <2> SUFFICES ASSUME NEW i \in 1..new, NEW j \in 1..new,
                      log'[i].work # None, log'[i].work = log'[j].work
               PROVE  i = j
    BY <1>3 DEF WorkCreditedOnce
  <2>1. CASE i \in 1..Len(log) /\ j \in 1..Len(log)
    BY <1>1, <1>2, <1>3, <2>1 DEF WorkCreditedOnce
  <2>2. CASE i \in 1..Len(log) /\ j = new
    BY <1>2, <1>3, <2>2 DEF Credited
  <2>3. CASE i = new /\ j \in 1..Len(log)
    BY <1>2, <1>3, <2>3 DEF Credited
  <2> QED BY <1>4, <2>1, <2>2, <2>3
<1> QED BY <1>5, <1>6, <1>7 DEF LogInv

\* A share that enters the log leaves the shares that are being built alone: a
\* peer's takes no parent from them, and with an anchor the adapter's own comes
\* from the one holder of the lock.
LEMMA BuiltStays ==
    ASSUME IInv, NEW e \in Entry, e.parent \in 0..Len(log),
           e.depth = Depth(e.parent) + 1, AppendShare(e), config' = config,
           NEW q \in Conns, NEW k, ConnShare(q, k), anchorLock = q => anchorLock' = q,
           e.work # None /\ config.anchored => k.at \notin Locked
    PROVE  ConnShare(q, k)'
<1>1. /\ Len(log) \in Nat /\ Len(log') = Len(log) + 1
      /\ \A i \in 1..Len(log) : log'[i] = log[i]
      /\ log'[Len(log) + 1] = e
  BY OneMoreShare DEF IInv, Types
<1>2. config.bound => config.anchored
  BY DEF IInv, Types, ConfigValid
<1>3. ASSUME NEW p, Untaken(p), e.work = None PROVE Untaken(p)'
  <2> SUFFICES ASSUME NEW i \in 1..Len(log) + 1, log'[i].work # None
               PROVE  log'[i].parent # p
    BY <1>1 DEF Untaken
  <2>1. CASE i \in 1..Len(log)
    BY <1>1, <1>3, <2>1 DEF Untaken
  <2>2. CASE i = Len(log) + 1
    BY <1>1, <1>3, <2>2
  <2> QED BY <1>1, <2>1, <2>2
<1>4. \A p \in 0..Len(log) : p \in 0..Len(log')
  BY <1>1
<1>5. config'.anchored /\ k.at \in Locked => anchorLock' = q
  BY DEF ConnShare
<1>6. config'.bound /\ k.at \in {"block", "anchor"} =>
          k.job.parent \in 0..Len(log') /\ Untaken(k.job.parent)'
  BY <1>2, <1>3, <1>4 DEF ConnShare, Locked
<1>7. k.at \in {"verify", "publish"} =>
          k.parent \in 0..Len(log') /\ (config'.anchored => Untaken(k.parent)')
  BY <1>3, <1>4 DEF ConnShare, Locked
<1> QED BY <1>5, <1>6, <1>7 DEF ConnShare

\* After the append the connection answers, or refreshes the job first.
LEMMA AfterShareShape ==
    ASSUME IInv, NEW c \in Conns, AfterShare(c) \/ Refused(c)
    PROVE  /\ \A q \in Conns \ {c} : anchorLock = q => anchorLock' = q
           /\ \E k : /\ conn' = [conn EXCEPT ![c] = k]
                     /\ DOMAIN k = Fields /\ k.work \in Works
                     /\ k.updates = conn[c].updates /\ k.told = conn[c].told
                     /\ k.subscribed = conn[c].subscribed /\ k.lagged = conn[c].lagged
                     /\ k.at \in {"read", "refresh"} /\ (Alone => k.at # "refresh")
<1>1. CASE Answered(c, conn)
  <2>1. PICK k : k = [conn[c] EXCEPT !.at = "read", !.work = None, !.job = None,
                                     !.parent = None]
    OBVIOUS
  <2>2. conn' = [conn EXCEPT ![c] = k]
    BY <1>1, <2>1, Stage DEF Answered
  <2>3. /\ DOMAIN k = Fields /\ k.work = None /\ k.at = "read"
        /\ k.updates = conn[c].updates /\ k.told = conn[c].told
        /\ k.subscribed = conn[c].subscribed /\ k.lagged = conn[c].lagged
    BY <2>1, Stage, Zenon DEF Fields
  <2>4. \A q \in Conns \ {c} : anchorLock = q => anchorLock' = q
    BY <1>1 DEF Answered
  <2> QED BY <2>2, <2>3, <2>4, Stage
<1>2. CASE /\ config.bound \/ Submits(c)
           /\ conn' = [conn EXCEPT ![c].at = "refresh"] /\ UNCHANGED <<anchorLock, blockLock>>
  <2>1. PICK k : k = [conn[c] EXCEPT !.at = "refresh"]
    OBVIOUS
  <2>2. conn' = [conn EXCEPT ![c] = k]
    BY <1>2, <2>1, Stage
  <2>3. /\ DOMAIN k = Fields /\ k.work = conn[c].work /\ k.at = "refresh"
        /\ k.updates = conn[c].updates /\ k.told = conn[c].told
        /\ k.subscribed = conn[c].subscribed /\ k.lagged = conn[c].lagged
    BY <2>1, Stage, Zenon DEF Fields
  <2>4. ~Alone
    BY <1>2 DEF Alone, Submits
  <2> QED BY <1>2, <2>2, <2>3, <2>4, Stage
<1> QED BY <1>1, <1>2 DEF AfterShare, Refused

\* A share of the adapter enters the log once, on a parent of its own.
LEMMA PublishShareKeeps ==
    ASSUME IInv, NEW c \in Conns, PublishShare(c)
    PROVE  IInv'
<1>1. PICK e : e = [parent |-> conn[c].parent, depth |-> Depth(conn[c].parent) + 1,
                    work |-> conn[c].work]
  OBVIOUS
<1>2. /\ conn[c].at = "publish" /\ UNCHANGED <<config, template, active, refresh>>
      /\ AfterShare(c) \/ Refused(c)
      /\ \/ UNCHANGED <<log, tip>>
         \/ ~Credited(e.work) /\ AppendShare(e)
  BY <1>1 DEF PublishShare, At
<1>3. PICK k : /\ conn' = [conn EXCEPT ![c] = k]
               /\ DOMAIN k = Fields /\ k.work \in Works
               /\ k.updates = conn[c].updates /\ k.told = conn[c].told
               /\ k.subscribed = conn[c].subscribed /\ k.lagged = conn[c].lagged
               /\ k.at \in {"read", "refresh"} /\ (Alone => k.at # "refresh")
  BY <1>2, AfterShareShape
<1>4. \A q \in Conns \ {c} : anchorLock = q => anchorLock' = q
  BY <1>2, AfterShareShape
<1>5. ConnShare(c, k)'
  BY <1>3, NoShare DEF Locked
<1>6. CASE UNCHANGED <<log, tip>>
  BY <1>2, <1>3, <1>4, <1>5, <1>6, StageKeeps
<1>7. CASE ~Credited(e.work) /\ AppendShare(e)
  <2>1. /\ conn[c].parent \in 0..Len(log) /\ (config.anchored => Untaken(conn[c].parent))
        /\ config.anchored => anchorLock = c
        /\ Len(log) \in Nat
    <3>1. Len(log) \in Nat
      BY DEF IInv, Types
    <3>2. ConnShare(c, conn[c])
      BY Stage
    <3> QED BY <1>2, <3>1, <3>2 DEF ConnShare, Locked
  <2>2. Depth(conn[c].parent) \in Nat /\ conn[c].parent \in Nat
    BY <2>1, DepthTyped DEF IInv
  <2>3. /\ e \in Entry /\ e.parent \in 0..Len(log) /\ e.depth = Depth(e.parent) + 1
        /\ e.parent = conn[c].parent
    BY <1>1, <2>1, <2>2, Stage DEF Entry
  <2>4. LogInv'
    BY <1>2, <1>7, <2>1, <2>3, LogGrows
  <2>5. /\ log' \in Seq(Entry) /\ Len(log') = Len(log) + 1
        /\ \A i \in 1..Len(log) : log'[i] = log[i]
        /\ log'[Len(log) + 1] = e /\ tip' \in 0..Len(log')
    BY <1>7, <2>3, OneMoreShare DEF IInv
  <2>6. \A i \in 1..Len(log') : log'[i].parent \in 0..Len(log')
    <3> SUFFICES ASSUME NEW i \in 1..Len(log') PROVE log'[i].parent \in 0..Len(log')
      OBVIOUS
    <3>1. CASE i \in 1..Len(log)
      <4>1. log[i].parent \in 0..Len(log)
        BY <3>1 DEF IInv, Types
      <4> QED BY <2>1, <2>5, <3>1, <4>1
    <3>2. CASE i = Len(log) + 1
      BY <2>1, <2>3, <2>5, <3>2
    <3> QED BY <2>1, <2>5, <3>1, <3>2
  <2>7. Types'
    BY <1>2, <1>3, <2>5, <2>6 DEF IInv, Types, ConfigValid
  <2>8. SendsActive'
    BY <1>2 DEF IInv, SendsActive, Alone, Sending
  <2>9. ConnsInv'
    <3> SUFFICES ASSUME NEW q \in Conns PROVE ConnInv(q)'
      BY DEF ConnsInv
    <3>1. CASE q = c
      <4>1. conn'[q] = k
        BY <1>3, <3>1, Stage
      <4>2. ConnTypes(k)
        BY <1>3, Stage DEF ConnTypes, IInv, ConnsInv, ConnInv
      <4>3. ConnJob(q, k)'
        BY <1>2, <1>3, <3>1, Stage DEF ConnJob, Alone, Sending
      <4> QED BY <1>5, <3>1, <4>1, <4>2, <4>3 DEF ConnInv, ConnTypes, ConnShare, ConnJob, Untaken
    <3>2. CASE q # c
      <4>1. PICK o : o = conn[q]
        OBVIOUS
      <4>2. conn'[q] = o /\ ConnTypes(o) /\ ConnShare(q, o) /\ ConnJob(q, o)
        BY <1>3, <3>2, <4>1, Stage DEF IInv, ConnsInv, ConnInv
      <4>3. config.anchored => o.at \notin Locked
        BY <2>1, <3>2, <4>2 DEF ConnShare
      <4>4. ConnShare(q, o)'
        BY <1>2, <1>4, <1>7, <2>3, <3>2, <4>2, <4>3, BuiltStays
      <4>5. ConnJob(q, o)'
        BY <1>2, <4>2 DEF ConnJob, Alone, Sending
      <4> QED BY <4>2, <4>4, <4>5 DEF ConnInv, ConnTypes, ConnShare, ConnJob
    <3> QED BY <3>1, <3>2
  <2> QED BY <2>4, <2>7, <2>8, <2>9 DEF IInv
<1> QED BY <1>2, <1>6, <1>7

\* A share of a peer credits no work of the adapter.
LEMMA PeerShareKeeps ==
    ASSUME IInv, NEW p \in 0..Len(log), PeerShare(p)
    PROVE  IInv'
<1>1. PICK e : e = [parent |-> p, depth |-> Depth(p) + 1, work |-> None]
  OBVIOUS
<1>2. /\ UNCHANGED <<config, template, active, refresh, conn, anchorLock>>
      /\ AppendShare(e)
  BY <1>1 DEF PeerShare, adapter
<1>3. Len(log) \in Nat /\ Depth(p) \in Nat /\ p \in Nat
  BY DepthTyped DEF IInv, Types
<1>4. e \in Entry /\ e.parent \in 0..Len(log) /\ e.depth = Depth(e.parent) + 1 /\ e.work = None
  BY <1>1, <1>3 DEF Entry, Works
<1>5. LogInv'
  BY <1>2, <1>4, LogGrows
<1>6. /\ log' \in Seq(Entry) /\ Len(log') = Len(log) + 1
      /\ \A i \in 1..Len(log) : log'[i] = log[i]
      /\ log'[Len(log) + 1] = e /\ tip' \in 0..Len(log')
  BY <1>2, <1>4, OneMoreShare DEF IInv
<1>7. \A i \in 1..Len(log') : log'[i].parent \in 0..Len(log')
  <2> SUFFICES ASSUME NEW i \in 1..Len(log') PROVE log'[i].parent \in 0..Len(log')
    OBVIOUS
  <2>1. CASE i \in 1..Len(log)
    <3>1. log[i].parent \in 0..Len(log)
      BY <2>1 DEF IInv, Types
    <3> QED BY <1>3, <1>6, <2>1, <3>1
  <2>2. CASE i = Len(log) + 1
    BY <1>3, <1>4, <1>6, <2>2
  <2> QED BY <1>3, <1>6, <2>1, <2>2
<1>8. Types'
  BY <1>2, <1>6, <1>7 DEF IInv, Types, ConfigValid
<1>9. SendsActive'
  BY <1>2 DEF IInv, SendsActive, Alone, Sending
<1>10. ConnsInv'
  <2> SUFFICES ASSUME NEW q \in Conns PROVE ConnInv(q)'
    BY DEF ConnsInv
  <2>1. PICK o : o = conn[q]
    OBVIOUS
  <2>2. conn'[q] = o /\ ConnTypes(o) /\ ConnShare(q, o) /\ ConnJob(q, o)
    BY <1>2, <2>1 DEF IInv, ConnsInv, ConnInv
  <2>3. ConnShare(q, o)'
    BY <1>2, <1>4, <2>2, BuiltStays
  <2>4. ConnJob(q, o)'
    BY <1>2, <2>2 DEF ConnJob, Alone, Sending
  <2> QED BY <2>2, <2>3, <2>4 DEF ConnInv, ConnTypes, ConnShare, ConnJob
<1> QED BY <1>5, <1>8, <1>9, <1>10 DEF IInv

-----------------------------------------------------------------------------
(* Job refreshes.                                                          *)

\* What a connection knows of the active job when the loop is not sending.
Informed(k) ==
    /\ k.subscribed /\ k.updates # <<>> => k.updates[Len(k.updates)] = active
    /\ k.at = "subscribe" \/ ~k.subscribed \/ k.lagged \/ k.updates # <<>> \/ k.told = active

\* Alone, only the loop refreshes.
LEMMA LoopRefreshes ==
    ASSUME IInv, Alone, NEW t \in Tasks, refresh[t] # None \/ conn[t].at = "refresh"
    PROVE  t = Loop
BY DEF IInv, ConnsInv, ConnInv, ConnJob, Tasks

\* A refresh that goes on changes nothing a connection sees.
LEMMA RefreshStep ==
    ASSUME StratumConstants, IInv, NEW t \in Tasks, NEW r \in Refresh,
           refresh' = [refresh EXCEPT ![t] = r],
           UNCHANGED <<config, log, tip, template, active, conn, anchorLock>>,
           r.at # "build" => r.job \in Jobs,
           Alone => t = Loop /\ ~Sending /\ r.at # "send"
    PROVE  IInv'
<1>1. /\ refresh' \in [Tasks -> Refresh \cup {None}] /\ refresh'[t] = r
      /\ \A q \in Tasks \ {t} : refresh'[q] = refresh[q]
  BY DEF IInv, Types
<1>2. \A q \in Tasks : refresh'[q] # None /\ refresh'[q].at # "build" => refresh'[q].job \in Jobs
  BY <1>1 DEF IInv, Types
<1>3. Types'
  BY <1>1, <1>2 DEF IInv, Types, ConfigValid
<1>4. LogInv'
  BY DEF IInv, LogInv, OwnBelowTip, OwnSharesChain, WorkCreditedOnce, Depth
<1>5. Alone' = Alone /\ (Alone => ~Sending /\ ~Sending')
  BY <1>1 DEF Alone, Sending
<1>6. SendsActive'
  BY <1>5 DEF SendsActive
<1>7. ConnsInv'
  <2> SUFFICES ASSUME NEW q \in Conns PROVE ConnInv(q)'
    BY DEF ConnsInv
  <2>1. PICK o : o = conn[q]
    OBVIOUS
  <2>2. conn'[q] = o /\ ConnTypes(o) /\ ConnShare(q, o) /\ ConnJob(q, o)
    BY <2>1 DEF IInv, ConnsInv, ConnInv
  <2>3. ConnShare(q, o)'
    BY <2>2 DEF ConnShare, Untaken
  <2>4. ConnJob(q, o)'
    <3> SUFFICES ASSUME Alone PROVE ConnJob(q, o)'
      BY <1>5 DEF ConnJob
    <3>1. refresh'[q] = None
      BY <1>1, <2>2 DEF ConnJob, Tasks, StratumConstants
    <3> QED BY <1>5, <2>2, <3>1 DEF ConnJob
  <2> QED BY <2>2, <2>3, <2>4 DEF ConnInv, ConnTypes, ConnShare, ConnJob
<1> QED BY <1>3, <1>4, <1>6, <1>7 DEF IInv

\* A refresh ends: the loop waits for its next tick, a handler answers.  Every
\* connection keeps its stage, and alone it is informed of the active job.
LEMMA RefreshEnds ==
    ASSUME StratumConstants, IInv, NEW t \in Tasks, refresh[t] # None,
           NEW cs, DOMAIN cs = Conns, RefreshOver(t, cs),
           \A q \in Conns :
               /\ DOMAIN cs[q] = Fields /\ cs[q].updates \in Seq(Jobs)
               /\ cs[q].at = conn[q].at /\ cs[q].work = conn[q].work
               /\ cs[q].job = conn[q].job /\ cs[q].parent = conn[q].parent
               /\ cs[q].told = conn[q].told,
           Alone => \A q \in Conns : Informed(cs[q]),
           UNCHANGED <<config, log, tip, template, active>>
    PROVE  IInv'
<1>1. /\ refresh' \in [Tasks -> Refresh \cup {None}] /\ refresh'[t] = None
      /\ \A q \in Tasks \ {t} : refresh'[q] = refresh[q]
  BY DEF IInv, Types, RefreshOver
<1>2. \A q \in Tasks : refresh'[q] # None /\ refresh'[q].at # "build" => refresh'[q].job \in Jobs
  BY <1>1 DEF IInv, Types
<1>3. DOMAIN conn' = Conns
  BY DEF RefreshOver, Answered
<1>4. Types'
  BY <1>1, <1>2, <1>3 DEF IInv, Types, ConfigValid
<1>5. LogInv'
  BY DEF IInv, LogInv, OwnBelowTip, OwnSharesChain, WorkCreditedOnce, Depth
<1>6. Alone' = Alone /\ (Alone => t = Loop /\ ~Sending')
  BY <1>1, LoopRefreshes DEF Alone, Sending
<1>7. SendsActive'
  BY <1>6 DEF SendsActive
<1>8. \A q \in Conns : q # t => (anchorLock = q => anchorLock' = q) /\ conn'[q] = cs[q]
  BY DEF RefreshOver, Answered
<1>9. ASSUME NEW q \in Conns, q # t PROVE ConnInv(q)'
  <2>1. PICK k : k = cs[q]
    OBVIOUS
  <2>2. conn'[q] = k /\ ConnTypes(conn[q]) /\ ConnShare(q, conn[q]) /\ ConnJob(q, conn[q])
    BY <1>8, <1>9, <2>1 DEF IInv, ConnsInv, ConnInv
  <2>3. ConnTypes(k)
    BY <2>1, <2>2 DEF ConnTypes
  <2>4. ConnShare(q, k)
    BY <2>1, <2>2 DEF ConnShare
  <2>5. ConnShare(q, k)'
    BY <1>8, <1>9, <2>4 DEF ConnShare, Untaken
  <2>6. ConnJob(q, k)'
    <3> SUFFICES ASSUME Alone PROVE ConnJob(q, k)'
      BY <1>6 DEF ConnJob
    <3>1. refresh'[q] = None /\ k.at # "refresh"
      BY <1>1, <1>9, <2>1, <2>2 DEF ConnJob, Tasks
    <3>2. Informed(k) /\ active' = active
      BY <2>1
    <3> QED BY <1>6, <3>1, <3>2 DEF ConnJob, Informed
  <2> QED BY <2>2, <2>3, <2>5, <2>6 DEF ConnInv, ConnTypes, ConnShare, ConnJob
<1>10. ASSUME t \in Conns PROVE ConnInv(t)'
  <2>1. Answered(t, cs) /\ ~Alone
    BY <1>6, <1>10 DEF RefreshOver, StratumConstants
  <2>2. PICK k : k = [cs[t] EXCEPT !.at = "read", !.work = None, !.job = None, !.parent = None]
    OBVIOUS
  <2>3. conn'[t] = k
    BY <1>10, <2>1, <2>2 DEF Answered
  <2>4. /\ DOMAIN k = Fields /\ k.work = None /\ k.at = "read"
        /\ k.updates = cs[t].updates /\ k.told = cs[t].told
    BY <1>10, <2>2, Zenon DEF Fields
  <2>5. ConnTypes(k)
    BY <1>10, <2>4, Stage DEF ConnTypes
  <2>6. ConnShare(t, k)'
    BY <2>4, NoShare DEF Locked
  <2>7. ConnJob(t, k)'
    BY <1>6, <2>1 DEF ConnJob
  <2> QED BY <2>3, <2>5, <2>6, <2>7 DEF ConnInv, ConnTypes, ConnShare, ConnJob
<1>11. ConnsInv'
  BY <1>9, <1>10 DEF ConnsInv
<1> QED BY <1>4, <1>5, <1>7, <1>11 DEF IInv

\* The same for a refresh that sends nothing.
LEMMA RefreshEndsQuietly ==
    ASSUME StratumConstants, IInv, NEW t \in Tasks, refresh[t] # None, refresh[t].at # "send",
           RefreshOver(t, conn), UNCHANGED <<config, log, tip, template, active>>
    PROVE  IInv'
<1>1. PICK cs : cs = conn
  OBVIOUS
<1>2. RefreshOver(t, cs) /\ DOMAIN cs = Conns
  BY <1>1, Stage DEF IInv, Types
<1>3. \A q \in Conns :
          /\ DOMAIN cs[q] = Fields /\ cs[q].updates \in Seq(Jobs)
          /\ cs[q].at = conn[q].at /\ cs[q].work = conn[q].work
          /\ cs[q].job = conn[q].job /\ cs[q].parent = conn[q].parent
          /\ cs[q].told = conn[q].told
  BY <1>1 DEF IInv, ConnsInv, ConnInv, ConnTypes
<1>4. ASSUME Alone PROVE \A q \in Conns : Informed(cs[q])
  <2>1. ~Sending
    BY <1>4, LoopRefreshes DEF Sending
  <2> QED BY <1>1, <1>4, <2>1 DEF IInv, ConnsInv, ConnInv, ConnJob, Informed
<1> QED BY <1>2, <1>3, <1>4, RefreshEnds

\* Fetching the template and building the job.
LEMMA RefreshBuildKeeps ==
    ASSUME StratumConstants, IInv, NEW t \in Tasks, RefreshFetch(t) \/ RefreshBuild(t)
    PROVE  IInv'
<1>1. UNCHANGED <<config, log, tip, template, active>> /\ template \in Templates
  BY DEF RefreshFetch, RefreshBuild, world, IInv, Types
<1>2. CASE RefreshFetch(t)
  <2>1. PICK r : r = [at |-> "build", template |-> template, job |-> None]
    OBVIOUS
  <2>2. /\ refresh' = [refresh EXCEPT ![t] = r] /\ UNCHANGED <<conn, anchorLock>>
        /\ refresh[t] = None /\ (t # Loop => conn[t].at = "refresh")
    BY <1>2, <2>1 DEF RefreshFetch
  <2>3. r \in Refresh /\ r.at = "build"
    BY <1>1, <2>1 DEF Refresh
  <2>4. Alone => t = Loop /\ ~Sending
    BY <2>2, LoopRefreshes DEF Sending
  <2> QED BY <1>1, <2>2, <2>3, <2>4, RefreshStep
<1>3. CASE RefreshBuild(t)
  <2>1. /\ refresh[t] # None /\ refresh[t].at = "build" /\ refresh[t] \in Refresh
        /\ DOMAIN refresh = Tasks
    BY <1>3 DEF RefreshBuild, RefreshAt, IInv, Types
  <2>2. CASE JobBuilds(refresh[t].template)
    <3>1. PICK j : j = Job(refresh[t].template, tip)
      OBVIOUS
    <3>2. PICK r : r = [refresh[t] EXCEPT !.at = "install", !.job = j]
      OBVIOUS
    <3>3. refresh' = [refresh EXCEPT ![t] = r] /\ UNCHANGED <<conn, anchorLock>>
      BY <1>3, <2>1, <2>2, <3>1, <3>2 DEF RefreshBuild
    <3>4. tip \in Nat /\ refresh[t].template \in Templates
      BY <2>1 DEF IInv, Types, Refresh
    <3>5. j \in Jobs
      BY <3>1, <3>4, JobTyped
    <3>6. r \in Refresh /\ r.at = "install" /\ r.job = j
      BY <2>1, <3>2, <3>5 DEF Refresh
    <3>7. Alone => t = Loop /\ ~Sending
      BY <2>1, LoopRefreshes DEF Sending
    <3> QED BY <1>1, <3>3, <3>5, <3>6, <3>7, RefreshStep
  <2>3. CASE ~JobBuilds(refresh[t].template)
    <3>1. RefreshOver(t, conn)
      BY <1>3, <2>3 DEF RefreshBuild
    <3> QED BY <1>1, <2>1, <3>1, RefreshEndsQuietly
  <2> QED BY <2>2, <2>3
<1> QED BY <1>2, <1>3

\* The active job changes before the subscribers hear of it.
LEMMA RefreshInstallKeeps ==
    ASSUME StratumConstants, IInv, NEW t \in Tasks, RefreshInstall(t)
    PROVE  IInv'
<1>1. /\ UNCHANGED <<config, log, tip, template>>
      /\ refresh[t] # None /\ refresh[t].at = "install" /\ refresh[t] \in Refresh
      /\ refresh[t].job \in Jobs /\ DOMAIN refresh = Tasks
  BY DEF RefreshInstall, RefreshAt, world, IInv, Types
<1>2. CASE refresh[t].job = active
  <2>1. RefreshOver(t, conn) /\ UNCHANGED active
    BY <1>2 DEF RefreshInstall
  <2> QED BY <1>1, <2>1, RefreshEndsQuietly
<1>3. CASE refresh[t].job # active
  <2>1. PICK r : r = [refresh[t] EXCEPT !.at = "send"]
    OBVIOUS
  <2>2. /\ refresh' = [refresh EXCEPT ![t] = r] /\ UNCHANGED <<conn, anchorLock>>
        /\ active' = refresh[t].job
    BY <1>1, <1>3, <2>1 DEF RefreshInstall
  <2>3. r \in Refresh /\ r.at = "send" /\ r.job = refresh[t].job /\ r # None
    BY <1>1, <2>1 DEF Refresh, StratumConstants
  <2>4. /\ refresh' \in [Tasks -> Refresh \cup {None}] /\ refresh'[t] = r
        /\ \A q \in Tasks \ {t} : refresh'[q] = refresh[q]
    BY <2>2, <2>3 DEF IInv, Types
  <2>5. \A q \in Tasks :
            refresh'[q] # None /\ refresh'[q].at # "build" => refresh'[q].job \in Jobs
    BY <1>1, <2>3, <2>4 DEF IInv, Types
  <2>6. Types'
    BY <1>1, <2>2, <2>4, <2>5 DEF IInv, Types, ConfigValid
  <2>7. LogInv'
    BY <1>1 DEF IInv, LogInv, OwnBelowTip, OwnSharesChain, WorkCreditedOnce, Depth
  <2>8. Alone' = Alone /\ (Alone => t = Loop /\ Sending')
    BY <1>1, <2>3, <2>4, LoopRefreshes DEF Alone, Sending
  <2>9. SendsActive'
    BY <2>2, <2>3, <2>4, <2>8 DEF SendsActive
  <2>10. ConnsInv'
    <3> SUFFICES ASSUME NEW q \in Conns PROVE ConnInv(q)'
      BY DEF ConnsInv
    <3>1. PICK o : o = conn[q]
      OBVIOUS
    <3>2. conn'[q] = o /\ ConnTypes(o) /\ ConnShare(q, o) /\ ConnJob(q, o)
      BY <2>2, <3>1 DEF IInv, ConnsInv, ConnInv
    <3>3. ConnShare(q, o)'
      BY <1>1, <2>2, <3>2 DEF ConnShare, Untaken
    <3>4. ConnJob(q, o)'
      <4> SUFFICES ASSUME Alone PROVE ConnJob(q, o)'
        BY <2>8 DEF ConnJob
      <4>1. refresh'[q] = None
        BY <2>4, <2>8, <3>2 DEF ConnJob, Tasks, StratumConstants
      <4> QED BY <2>8, <3>2, <4>1 DEF ConnJob
    <3> QED BY <3>2, <3>3, <3>4 DEF ConnInv, ConnTypes, ConnShare, ConnJob
  <2> QED BY <2>6, <2>7, <2>9, <2>10 DEF IInv
<1> QED BY <1>2, <1>3

\* A subscriber that receives a job has it as its last update.
LEMMA ReceivedLast ==
    ASSUME StratumConstants, NEW k, ConnTypes(k), NEW j \in Jobs, NEW r, r = Received(k, j)
    PROVE  /\ ConnTypes(r) /\ r.at = k.at /\ r.work = k.work /\ r.job = k.job
           /\ r.parent = k.parent /\ r.told = k.told /\ r.subscribed = k.subscribed
           /\ k.subscribed => r.updates # <<>> /\ r.updates[Len(r.updates)] = j
<1>1. PICK u \in Seq(Jobs) : u = k.updates
  BY DEF ConnTypes
<1>2. CASE ~k.subscribed
  BY <1>2 DEF Received
<1>3. CASE k.subscribed /\ Len(u) < MaxUpdates
  <2>1. PICK v : v = Append(u, j)
    OBVIOUS
  <2>2. v \in Seq(Jobs) /\ v # <<>> /\ v[Len(v)] = j
    BY <2>1, AppendProperties
  <2>3. r = [k EXCEPT !.updates = v]
    BY <1>1, <1>3, <2>1 DEF Received
  <2>4. /\ DOMAIN r = Fields /\ r.updates = v /\ r.at = k.at /\ r.work = k.work /\ r.job = k.job
        /\ r.parent = k.parent /\ r.told = k.told /\ r.subscribed = k.subscribed
    BY <2>3, Zenon DEF ConnTypes, Fields
  <2> QED BY <2>2, <2>4 DEF ConnTypes
<1>4. CASE k.subscribed /\ ~(Len(u) < MaxUpdates)
  <2>1. u # <<>>
    BY <1>4, EmptySeq DEF StratumConstants
  <2>2. PICK w \in Seq(Jobs) : w = Tail(u)
    BY <2>1, HeadTailProperties
  <2>3. PICK v : v = Append(w, j)
    OBVIOUS
  <2>4. v \in Seq(Jobs) /\ v # <<>> /\ v[Len(v)] = j
    BY <2>3, AppendProperties
  <2>5. r = [k EXCEPT !.updates = v, !.lagged = TRUE]
    BY <1>1, <1>4, <2>2, <2>3 DEF Received
  <2>6. /\ DOMAIN r = Fields /\ r.updates = v /\ r.at = k.at /\ r.work = k.work /\ r.job = k.job
        /\ r.parent = k.parent /\ r.told = k.told /\ r.subscribed = k.subscribed
    BY <2>5, Zenon DEF ConnTypes, Fields
  <2> QED BY <2>4, <2>6 DEF ConnTypes
<1> QED BY <1>2, <1>3, <1>4

\* The loop sends the active job to every subscriber.
LEMMA RefreshSendKeeps ==
    ASSUME StratumConstants, IInv, NEW t \in Tasks, RefreshSend(t)
    PROVE  IInv'
<1>1. /\ UNCHANGED <<config, log, tip, template, active>>
      /\ refresh[t] # None /\ refresh[t].at = "send" /\ refresh[t].job \in Jobs
  BY DEF RefreshSend, RefreshAt, world, IInv, Types
<1>2. PICK j \in Jobs : j = refresh[t].job
  BY <1>1
<1>3. PICK cs : cs = [c \in Conns |-> Received(conn[c], j)]
  OBVIOUS
<1>4. RefreshOver(t, cs) /\ DOMAIN cs = Conns
  BY <1>2, <1>3 DEF RefreshSend
<1>5. ASSUME NEW q \in Conns
      PROVE  /\ ConnTypes(cs[q]) /\ cs[q].at = conn[q].at /\ cs[q].work = conn[q].work
             /\ cs[q].job = conn[q].job /\ cs[q].parent = conn[q].parent
             /\ cs[q].told = conn[q].told /\ cs[q].subscribed = conn[q].subscribed
             /\ conn[q].subscribed =>
                   cs[q].updates # <<>> /\ cs[q].updates[Len(cs[q].updates)] = j
  <2>1. PICK k : k = conn[q]
    OBVIOUS
  <2>2. ConnTypes(k)
    BY <2>1 DEF IInv, ConnsInv, ConnInv
  <2>3. PICK r : r = Received(k, j)
    OBVIOUS
  <2>4. cs[q] = r
    BY <1>3, <2>1, <2>3
  <2> QED BY <2>1, <2>2, <2>3, <2>4, ReceivedLast, SMTT(30)
<1>6. ASSUME Alone PROVE \A q \in Conns : Informed(cs[q])
  <2>1. j = active
    BY <1>1, <1>2, <1>6, LoopRefreshes DEF IInv, SendsActive, Sending
  <2> QED BY <1>5, <2>1 DEF Informed
<1>7. \A q \in Conns :
          /\ DOMAIN cs[q] = Fields /\ cs[q].updates \in Seq(Jobs)
          /\ cs[q].at = conn[q].at /\ cs[q].work = conn[q].work
          /\ cs[q].job = conn[q].job /\ cs[q].parent = conn[q].parent
          /\ cs[q].told = conn[q].told
  BY <1>5 DEF ConnTypes
<1> QED BY <1>1, <1>4, <1>6, <1>7, RefreshEnds, SMTT(30)

-----------------------------------------------------------------------------
(* The adapter.                                                            *)

\* A stop closes every connection and ends every refresh.
LEMMA StopKeeps ==
    ASSUME StratumConstants, IInv, StopAdapter
    PROVE  IInv'
<1>1. /\ UNCHANGED <<config, log, tip, template, active>>
      /\ conn' = [c \in Conns |-> Closed] /\ refresh' = [t \in Tasks |-> None]
  BY DEF StopAdapter
<1>2. Types'
  BY <1>1 DEF IInv, Types, ConfigValid
<1>3. LogInv'
  BY <1>1 DEF IInv, LogInv, OwnBelowTip, OwnSharesChain, WorkCreditedOnce, Depth
<1>4. ~Sending' /\ SendsActive'
  BY <1>1 DEF SendsActive, Sending, Tasks
<1>5. ConnsInv'
  <2> SUFFICES ASSUME NEW q \in Conns PROVE ConnInv(q)'
    BY DEF ConnsInv
  <2>1. PICK k : k = Closed
    OBVIOUS
  <2>2. conn'[q] = k /\ refresh'[q] = None
    BY <1>1, <2>1 DEF Tasks
  <2>3. /\ DOMAIN k = Fields /\ k.updates = <<>> /\ k.told = None /\ k.work = None
        /\ k.at = "read" /\ k.subscribed = FALSE
    BY <2>1 DEF Closed, Fields
  <2>4. ConnTypes(k)
    <3>1. None \in Works /\ <<>> \in Seq(Jobs)
      BY EmptySeq DEF Works
    <3> QED BY <2>3, <3>1 DEF ConnTypes
  <2>5. ConnShare(q, k)'
    BY <2>3, NoShare DEF Locked
  <2>6. ConnJob(q, k)'
    BY <2>2, <2>3 DEF ConnJob
  <2> QED BY <2>2, <2>4, <2>5, <2>6 DEF ConnInv, ConnTypes, ConnShare, ConnJob
<1> QED BY <1>2, <1>3, <1>4, <1>5 DEF IInv

\* Every step keeps the inductive invariant.
LEMMA NextHolds == StratumConstants /\ IInv /\ [Next]_stratumVars => IInv'
<1> SUFFICES ASSUME StratumConstants, IInv, [Next]_stratumVars PROVE IInv'
  OBVIOUS
<1>1. ASSUME NEW c \in Conns, Miner(c) PROVE IInv'
  BY <1>1, OpenCloseKeeps, SubscribeKeeps, AuthorizeKeeps, SubmitKeeps DEF Miner
<1>2. ASSUME NEW c \in Conns, Handler(c) PROVE IInv'
  BY <1>2, SubscribeKeeps, LockAnchorKeeps, LockBlockKeeps, BuildShareKeeps,
     VerifyShareKeeps, PublishShareKeeps, PublishFailsKeeps DEF Handler
<1>3. ASSUME NEW c \in Conns, JobUpdate(c) PROVE IInv'
  BY <1>3, JobUpdateKeeps
<1>4. ASSUME NEW t \in Tasks,
             RefreshFetch(t) \/ RefreshBuild(t) \/ RefreshInstall(t) \/ RefreshSend(t)
      PROVE  IInv'
  BY <1>4, RefreshBuildKeeps, RefreshInstallKeeps, RefreshSendKeeps
<1>5. CASE NewTemplate
  <2>1. template \in Templates
    BY DEF IInv, Types
  <2>2. template' \in Templates
    BY <1>5, <2>1 DEF NewTemplate, Templates
  <2> QED BY <1>5, <2>2, Outside DEF NewTemplate, adapter
<1>6. CASE CheckpointFinal \/ IdentityLapses \/ RecoveryBegins \/ RecoveryEnds
  <2>1. template' \in Templates
        /\ UNCHANGED <<config, log, tip, active, refresh, conn, anchorLock>>
    BY <1>6 DEF CheckpointFinal, IdentityLapses, RecoveryBegins, RecoveryEnds, adapter, world,
                IInv, Types
  <2> QED BY <2>1, Outside
<1>7. ASSUME NEW p \in 0..Len(log), PeerShare(p) PROVE IInv'
  BY <1>7, PeerShareKeeps
<1>8. CASE StopAdapter
  BY <1>8, StopKeeps
<1>9. CASE UNCHANGED stratumVars
  <2>1. template' \in Templates
        /\ UNCHANGED <<config, log, tip, active, refresh, conn, anchorLock>>
    BY <1>9 DEF stratumVars, IInv, Types
  <2> QED BY <2>1, Outside
<1> QED BY <1>1, <1>2, <1>3, <1>4, <1>5, <1>6, <1>7, <1>8, <1>9 DEF Next

\* Whatever the number of connections, solutions, shares of peers and job
\* refreshes, and however the handlers of accept_submit interleave at their
\* awaits: an anchored adapter never logs two shares on one parent, a solution
\* is credited once, and a subscribed miner without an update waiting was told
\* of the active job when the refresh loop is the only task that replaces it.
THEOREM AdapterHolds ==
    ASSUME StratumConstants
    PROVE  Spec => []AdapterSound
<1>1. Init => IInv
  BY InitHolds
<1>2. IInv /\ [Next]_stratumVars => IInv'
  BY NextHolds
<1>3. IInv => AdapterSound
  BY InvSound
<1> QED BY <1>1, <1>2, <1>3, PTL DEF Spec
==============================================================================
