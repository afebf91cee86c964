--------------------------- MODULE PinStoreProofs ---------------------------
(***************************************************************************)
(* Machine-checked proofs about PinStore, for every set of processes,      *)
(* archives, ecosystems, providers and gateways and any number of crashes. *)
(***************************************************************************)
EXTENDS PinStore, WellFoundedInduction, TLAPS

Stored == [ecosystem : Ecosystems \cup {None}, cids : SUBSET Cids]

\* The stages of a command, each with the ones that follow it.
AfterKubo == {"external"}
AfterRename == {"kubo"} \cup AfterKubo
Renaming == {"tmpBytes", "rename"}
AfterRead == {"tmp"} \cup Renaming
AfterDigest == {"pinset"} \cup AfterRead \cup AfterRename
AfterCar == {"digest", "digestBytes"} \cup AfterDigest
Stages == {"car", "carBytes"} \cup AfterCar

Job == [pc : Stages, archive : Archives, ecosystem : Ecosystems, read : Stored \cup {None}]

\* What the constants stand for: an absent file, an unfinished one and the
\* bytes of an archive are different things.
FilesDiffer ==
    /\ Partial # None
    /\ \A a \in Archives : a.bytes # None /\ a.bytes # Partial
    /\ \A e, cs : [ecosystem |-> e, cids |-> cs] # None

Types ==
    /\ DOMAIN cars = Cids /\ DOMAIN digests = Cids
    /\ pinset \in Stored \cup {None}
    /\ proc \in [Processes -> {Idle} \cup Job]
    /\ DOMAIN fetched = Cids
    /\ kubo \subseteq Cids

\* Both files of a CID hold one archive that verifies to it.
Good(cid) ==
    \E a \in Archives : /\ CarVerifies(a) /\ a.cid = cid
                        /\ cars[cid] = a.bytes /\ digests[cid] = a.bytes

\* What a process has established at its stage, for the archive it pins.
JobInv(p) ==
    LET pc == proc[p].pc
        a == proc[p].archive
    IN  /\ pc \in Stages => CarVerifies(a)
        /\ pc = "carBytes" => cars[a.cid] = Partial
        /\ pc \in AfterCar => cars[a.cid] = a.bytes
        /\ pc = "digestBytes" => digests[a.cid] = Partial
        /\ pc \in AfterDigest => digests[a.cid] = a.bytes
        /\ pc \in AfterRead => proc[p].read \in Stored /\ \A c \in proc[p].read.cids : Good(c)
        /\ pc \in Renaming => tmp # None
        /\ pc = "rename" => tmp = proc[p].read
        /\ pc \in AfterKubo => a.cid \in kubo

JobsInv == \A p \in Processes : JobInv(p)

\* A file that is being written has one writer: create_new succeeds once.
OneWriter ==
    \A p, q \in Processes :
        p # q =>
            /\ proc[p].pc = "carBytes" /\ proc[q].pc = "carBytes"
                  => proc[p].archive.cid # proc[q].archive.cid
            /\ proc[p].pc = "digestBytes" /\ proc[q].pc = "digestBytes"
                  => proc[p].archive.cid # proc[q].archive.cid
            /\ ~(proc[p].pc \in Renaming /\ proc[q].pc \in Renaming)

IInv == Types /\ JobsInv /\ OneWriter /\ PinnedHaveBytes

-----------------------------------------------------------------------------
(* Steps in general.                                                       *)

\* A step never changes a file whose content was written.
Settle ==
    /\ DOMAIN cars' = Cids /\ DOMAIN digests' = Cids
    /\ \A c \in Cids : /\ cars[c] # None /\ cars[c] # Partial => cars'[c] = cars[c]
                       /\ digests[c] # None /\ digests[c] # Partial
                             => digests'[c] = digests[c]

\* The files process q is writing are its own in this step.
LeftAlone(q) ==
    /\ proc[q].pc = "carBytes" =>
          cars'[proc[q].archive.cid] = cars[proc[q].archive.cid]
    /\ proc[q].pc = "digestBytes" =>
          digests'[proc[q].archive.cid] = digests[proc[q].archive.cid]
    /\ proc[q].pc \in Renaming => tmp' = tmp

\* The archive a job pins.
LEMMA JobShape ==
    ASSUME Types, NEW p \in Processes, proc[p].pc # "idle"
    PROVE  /\ proc[p] \in Job /\ proc[p].archive \in Archives
           /\ proc[p].archive.cid \in Cids /\ proc[p].pc \in Stages
<1>1. proc[p] \in Job
  BY DEF Types, Idle
<1>2. proc[p].archive \in Archives /\ proc[p].pc \in Stages
  BY <1>1 DEF Job
<1> QED BY <1>1, <1>2 DEF Cids

\* A job that goes on keeps its archive, its ecosystem and what it read.
LEMMA GotoShape ==
    ASSUME Types, NEW p \in Processes, proc[p].pc # "idle", NEW pc \in Stages, Goto(p, pc)
    PROVE  \E j \in Job : /\ proc' = [proc EXCEPT ![p] = j] /\ j.pc = pc
                          /\ j.archive = proc[p].archive /\ j.read = proc[p].read
                          /\ j.ecosystem = proc[p].ecosystem
<1>1. proc[p] \in Job
  BY JobShape
<1>2. PICK j : j = [proc[p] EXCEPT !.pc = pc]
  OBVIOUS
<1>3. /\ j \in Job /\ j.pc = pc /\ j.archive = proc[p].archive /\ j.read = proc[p].read
      /\ j.ecosystem = proc[p].ecosystem
  BY <1>1, <1>2 DEF Job
<1>4. proc' = [proc EXCEPT ![p] = j]
  BY <1>2 DEF Goto
<1> QED BY <1>3, <1>4

\* What is good stays good.
LEMMA GoodStays ==
    ASSUME FilesDiffer, Settle, NEW c \in Cids, Good(c)
    PROVE  Good(c)'
BY DEF Good, FilesDiffer, Settle

\* A process that does not move keeps what it has established.
LEMMA OtherJob ==
    ASSUME IInv, FilesDiffer, Settle, NEW q \in Processes, proc'[q] = proc[q],
           LeftAlone(q), kubo \subseteq kubo'
    PROVE  JobInv(q)'
<1>1. CASE proc[q].pc = "idle"
  BY <1>1 DEF JobInv, Stages, AfterCar, AfterDigest, AfterRead, AfterRename, AfterKubo,
     Renaming
<1>2. CASE proc[q].pc # "idle"
  <2>1. JobInv(q) /\ Types
    BY DEF IInv, JobsInv
  <2>2. PICK a \in Archives : a = proc[q].archive /\ a.cid \in Cids
    BY <2>1, <1>2, JobShape
  <2>3. a.bytes # None /\ a.bytes # Partial
    BY DEF FilesDiffer
  <2>4. /\ proc[q].pc = "carBytes" => cars'[a.cid] = Partial
        /\ proc[q].pc \in AfterCar => cars'[a.cid] = a.bytes
    BY <2>1, <2>2, <2>3 DEF JobInv, Settle, LeftAlone
  <2>5. /\ proc[q].pc = "digestBytes" => digests'[a.cid] = Partial
        /\ proc[q].pc \in AfterDigest => digests'[a.cid] = a.bytes
    BY <2>1, <2>2, <2>3 DEF JobInv, Settle, LeftAlone
  <2>6. proc[q].pc \in AfterRead =>
            proc[q].read \in Stored /\ \A c \in proc[q].read.cids : Good(c)'
    <3> SUFFICES ASSUME proc[q].pc \in AfterRead
                 PROVE  /\ proc[q].read \in Stored
                        /\ \A c \in proc[q].read.cids : Good(c)'
      OBVIOUS
    <3>1. proc[q].read \in Stored /\ \A c \in proc[q].read.cids : c \in Cids /\ Good(c)
      BY <2>1 DEF JobInv, Stored
    <3> QED BY <3>1, GoodStays
  <2>7. /\ proc[q].pc \in Renaming => tmp' # None
        /\ proc[q].pc = "rename" => tmp' = proc[q].read
        /\ proc[q].pc \in AfterKubo => a.cid \in kubo'
        /\ proc[q].pc \in Stages => CarVerifies(a)
    BY <2>1, <2>2 DEF JobInv, LeftAlone, Renaming
  <2> QED BY <2>2, <2>4, <2>5, <2>6, <2>7 DEF JobInv
<1> QED BY <1>1, <1>2

\* Pinned archives stay pinned while the pinset and the public record stay.
LEMMA PinsStay ==
    ASSUME IInv, FilesDiffer, Settle, UNCHANGED <<pinset, kubo, asked, fetched>>
    PROVE  PinnedHaveBytes'
<1>1. pinset # None => \A c \in pinset.cids : Good(c)'
  <2> SUFFICES ASSUME pinset # None, NEW c \in pinset.cids PROVE Good(c)'
    OBVIOUS
  <2>1. c \in Cids
    BY DEF IInv, Types, Stored
  <2>2. Good(c)
    BY DEF IInv, PinnedHaveBytes, Good
  <2> QED BY <2>1, <2>2, GoodStays
<1>2. \A c \in kubo : cars'[c] # None /\ cars'[c] # Partial
  BY DEF IInv, Types, PinnedHaveBytes, Settle
<1> QED BY <1>1, <1>2 DEF IInv, PinnedHaveBytes, Good

\* The step of one process: what has to be shown of it.
LEMMA OneProcess ==
    ASSUME IInv, FilesDiffer, Settle, NEW p \in Processes, NEW j \in {Idle} \cup Job,
           proc' = [proc EXCEPT ![p] = j],
           \A q \in Processes \ {p} :
              /\ LeftAlone(q)
              /\ j.pc = "carBytes" /\ proc[q].pc = "carBytes"
                    => j.archive.cid # proc[q].archive.cid
              /\ j.pc = "digestBytes" /\ proc[q].pc = "digestBytes"
                    => j.archive.cid # proc[q].archive.cid
              /\ ~(j.pc \in Renaming /\ proc[q].pc \in Renaming),
           JobInv(p)',
           kubo \subseteq kubo', kubo' \subseteq Cids, pinset' \in Stored \cup {None},
           DOMAIN fetched' = Cids, PinnedHaveBytes'
    PROVE  IInv'
<1>1. /\ proc \in [Processes -> {Idle} \cup Job]
      /\ proc'[p] = j /\ \A q \in Processes \ {p} : proc'[q] = proc[q]
  BY DEF IInv, Types
<1>2. Types'
  BY <1>1 DEF Types, Settle
<1>3. JobsInv'
  <2> SUFFICES ASSUME NEW q \in Processes PROVE JobInv(q)'
    BY DEF JobsInv
  <2>1. CASE q = p
    BY <2>1
  <2>2. CASE q # p
    BY <2>2, <1>1, OtherJob
  <2> QED BY <2>1, <2>2
<1>4. OneWriter'
  <2> SUFFICES ASSUME NEW q \in Processes, NEW r \in Processes, q # r
               PROVE  /\ proc'[q].pc = "carBytes" /\ proc'[r].pc = "carBytes"
                            => proc'[q].archive.cid # proc'[r].archive.cid
                      /\ proc'[q].pc = "digestBytes" /\ proc'[r].pc = "digestBytes"
                            => proc'[q].archive.cid # proc'[r].archive.cid
                      /\ ~(proc'[q].pc \in Renaming /\ proc'[r].pc \in Renaming)
    BY DEF OneWriter
  <2>1. CASE q # p /\ r # p
    BY <2>1, <1>1 DEF IInv, OneWriter
  <2>2. CASE q = p
    BY <2>2, <1>1
  <2>3. CASE r = p
    BY <2>3, <1>1
  <2> QED BY <2>1, <2>2, <2>3
<1> QED BY <1>2, <1>3, <1>4 DEF IInv

\* Nothing is written and every process is idle at first.
LEMMA InitHolds == Init => IInv
<1> SUFFICES ASSUME Init PROVE IInv
  OBVIOUS
<1>1. \A p \in Processes : proc[p] = Idle /\ proc[p].pc = "idle"
  BY DEF Init, Idle
<1>2. Types
  BY DEF Init, Types
<1>3. JobsInv /\ OneWriter
  BY <1>1 DEF JobsInv, JobInv, OneWriter, Stages, AfterCar, AfterDigest, AfterRead,
     AfterRename, AfterKubo, Renaming
<1>4. PinnedHaveBytes
  BY DEF Init, PinnedHaveBytes
<1> QED BY <1>2, <1>3, <1>4 DEF IInv

-----------------------------------------------------------------------------
(* Steps that write no file.                                               *)

\* A command that ends, by itself, by an error or by a crash.
LEMMA BailKeeps ==
    ASSUME IInv, FilesDiffer, NEW p \in Processes, Bail(p), UNCHANGED <<local, public>>
    PROVE  IInv'
<1>1. /\ proc' = [proc EXCEPT ![p] = Idle] /\ Idle.pc = "idle"
      /\ UNCHANGED <<cars, digests, pinset, tmp, kubo, asked, fetched>>
  BY DEF Bail, Idle, local, public
<1>2. Settle
  BY <1>1 DEF Settle, IInv, Types
<1>3. PinnedHaveBytes'
  BY <1>1, <1>2, PinsStay
<1>4. \A q \in Processes : LeftAlone(q)
  BY <1>1 DEF LeftAlone
<1>5. proc'[p].pc = "idle"
  BY <1>1 DEF IInv, Types
<1>6. JobInv(p)'
  BY <1>5 DEF JobInv, Stages, AfterCar, AfterDigest, AfterRead, AfterRename, AfterKubo,
     Renaming
<1>7. Idle.pc \notin Renaming
  BY <1>1 DEF Renaming
<1> QED BY <1>1, <1>2, <1>3, <1>4, <1>6, <1>7, OneProcess DEF IInv, Types

\* A command starts on an archive that verifies.
LEMMA StartKeeps ==
    ASSUME IInv, FilesDiffer, NEW p \in Processes, StartPin(p)
    PROVE  IInv'
<1>1. PICK a \in Archives, e \in Ecosystems :
          /\ CarVerifies(a)
          /\ proc' = [proc EXCEPT ![p] =
                [pc |-> "car", archive |-> a, ecosystem |-> e, read |-> None]]
  BY DEF StartPin
<1>2. PICK j \in Job : j = [pc |-> "car", archive |-> a, ecosystem |-> e, read |-> None]
  BY DEF Job, Stages
<1>3. j.pc = "car" /\ j.archive = a
  BY <1>2
<1>4. /\ proc' = [proc EXCEPT ![p] = j] /\ proc'[p] = j
      /\ UNCHANGED <<cars, digests, pinset, tmp, kubo, asked, fetched>>
  BY <1>1, <1>2 DEF StartPin, local, public, IInv, Types
<1>5. Settle
  BY <1>4 DEF Settle, IInv, Types
<1>6. PinnedHaveBytes'
  BY <1>4, <1>5, PinsStay
<1>7. \A q \in Processes : LeftAlone(q)
  BY <1>4 DEF LeftAlone
<1>8. JobInv(p)'
  BY <1>1, <1>3, <1>4 DEF JobInv, Stages, AfterCar, AfterDigest, AfterRead, AfterRename,
     AfterKubo, Renaming
<1>9. j.pc \notin Renaming
  BY <1>3 DEF Renaming
<1> QED BY <1>3, <1>4, <1>5, <1>6, <1>7, <1>8, <1>9, OneProcess DEF IInv, Types

\* A process that goes on without touching a file.
LEMMA GotoKeeps ==
    ASSUME IInv, FilesDiffer, NEW p \in Processes, proc[p].pc # "idle",
           NEW pc \in Stages \ (Renaming \cup {"carBytes", "digestBytes"}), Goto(p, pc),
           UNCHANGED <<local, public>>,
           LET a == proc[p].archive
           IN  /\ pc \in AfterCar => cars[a.cid] = a.bytes
               /\ pc \in AfterDigest => digests[a.cid] = a.bytes
               /\ pc \in AfterRead => proc[p].read \in Stored
                                      /\ \A c \in proc[p].read.cids : Good(c)
               /\ pc \in AfterKubo => a.cid \in kubo
    PROVE  IInv'
<1>1. PICK j \in Job : /\ proc' = [proc EXCEPT ![p] = j] /\ j.pc = pc
                       /\ j.archive = proc[p].archive /\ j.read = proc[p].read
  BY GotoShape DEF IInv
<1>2. /\ UNCHANGED <<cars, digests, pinset, tmp, kubo, asked, fetched>>
      /\ proc'[p] = j
  BY <1>1 DEF local, public, IInv, Types
<1>3. Settle
  BY <1>2 DEF Settle, IInv, Types
<1>4. PinnedHaveBytes'
  BY <1>2, <1>3, PinsStay
<1>5. \A q \in Processes : LeftAlone(q)
  BY <1>2 DEF LeftAlone
<1>6. CarVerifies(proc[p].archive)
  BY JobShape DEF IInv, JobsInv, JobInv
<1>7. JobInv(p)'
  BY <1>1, <1>2, <1>6 DEF JobInv, Good, Renaming
<1> QED BY <1>1, <1>2, <1>3, <1>4, <1>5, <1>7, OneProcess DEF IInv, Types

\* The pinset a process goes on with has good archives only, the new one included.
LEMMA ReadPinsetKeeps ==
    ASSUME IInv, FilesDiffer, NEW p \in Processes, ReadPinset(p)
    PROVE  IInv'
<1>1. proc[p].pc = "pinset" /\ UNCHANGED <<local, public>>
  BY DEF ReadPinset, At
<1>2. CASE Bail(p)
  BY <1>1, <1>2, BailKeeps
<1>3. CASE ~Bail(p)
  <2> DEFINE stored == IF pinset = None THEN [ecosystem |-> None, cids |-> {}] ELSE pinset
             a == proc[p].archive
  <2>1. PICK bound : bound = Bound(stored, proc[p].ecosystem)
    OBVIOUS
  <2>2. proc' = [proc EXCEPT ![p].pc = "tmp",
                     ![p].read = [bound EXCEPT !.cids = @ \cup {a.cid}]]
    BY <1>3, <2>1 DEF ReadPinset
  <2>3. proc[p] \in Job /\ a \in Archives /\ a.cid \in Cids
    BY <1>1, JobShape DEF IInv
  <2>4. stored \in Stored
    BY DEF IInv, Types, Stored
  <2>5. bound \in Stored /\ bound.cids = stored.cids
    BY <2>1, <2>3, <2>4 DEF Bound, Stored, Job
  <2>6. PICK read \in Stored : /\ read = [bound EXCEPT !.cids = @ \cup {a.cid}]
                               /\ read.cids = stored.cids \cup {a.cid}
    <3>1. PICK read : read = [bound EXCEPT !.cids = @ \cup {a.cid}]
      OBVIOUS
    <3>2. PICK cs : cs = stored.cids \cup {a.cid}
      OBVIOUS
    <3>3. cs \in SUBSET Cids /\ read = [bound EXCEPT !.cids = cs]
      BY <2>3, <2>4, <2>5, <3>1, <3>2 DEF Stored
    <3> HIDE DEF a, stored
    <3>4. read \in Stored /\ read.cids = cs
      BY <2>5, <3>3 DEF Stored
    <3> QED BY <3>1, <3>2, <3>4
  <2>7. PICK j \in Job : /\ j = [proc[p] EXCEPT !.pc = "tmp", !.read = read]
                         /\ j.pc = "tmp" /\ j.archive = a /\ j.read = read
    <3>1. "tmp" \in Stages
      BY DEF Stages, AfterCar, AfterDigest, AfterRead
    <3>2. PICK j : j = [proc[p] EXCEPT !.pc = "tmp", !.read = read]
      OBVIOUS
    <3>3. proc[p] \in Job /\ read \in Stored \cup {None}
      BY <2>3
    <3> HIDE DEF stored
    <3>4. j \in Job
      BY <3>1, <3>2, <3>3 DEF Job
    <3>5. j.pc = "tmp" /\ j.archive = proc[p].archive /\ j.read = read
      BY <3>2, <3>3 DEF Job
    <3> QED BY <3>2, <3>4, <3>5
  <2>8. proc' = [proc EXCEPT ![p] = j] /\ proc'[p] = j
    BY <2>2, <2>6, <2>7 DEF IInv, Types
  <2>9. \A c \in stored.cids : Good(c)
    BY DEF IInv, PinnedHaveBytes, Good
  <2>10. /\ CarVerifies(a) /\ cars[a.cid] = a.bytes /\ digests[a.cid] = a.bytes
    BY <1>1 DEF IInv, JobsInv, JobInv, Stages, AfterCar, AfterDigest
  <2>11. Good(a.cid)
    BY <2>3, <2>10 DEF Good
  <2>12. UNCHANGED <<cars, digests, pinset, tmp, kubo, asked, fetched>>
    BY <1>1 DEF local, public
  <2>13. Settle
    BY <2>12 DEF Settle, IInv, Types
  <2>14. PinnedHaveBytes'
    BY <2>12, <2>13, PinsStay
  <2>15. \A q \in Processes : LeftAlone(q)
    BY <2>12 DEF LeftAlone
  <2>16. \A c \in read.cids : Good(c)'
    <3> SUFFICES ASSUME NEW c \in read.cids PROVE Good(c)'
      OBVIOUS
    <3>1. Good(c) /\ c \in Cids
      BY <2>6, <2>9, <2>11 DEF Stored
    <3> QED BY <3>1, <2>13, GoodStays
  <2>17. JobInv(p)'
    BY <2>7, <2>8, <2>10, <2>12, <2>16 DEF JobInv, Renaming, AfterKubo
  <2>18. j.pc \notin Renaming
    BY <2>7 DEF Renaming
  <2> QED BY <2>7, <2>8, <2>12, <2>13, <2>14, <2>15, <2>17, <2>18, OneProcess
          DEF IInv, Types
<1> QED BY <1>2, <1>3

-----------------------------------------------------------------------------
(* Steps that write a file.                                                *)

\* The archive of a CID: compared if it exists, else created.
LEMMA WriteCarKeeps ==
    ASSUME IInv, FilesDiffer, NEW p \in Processes, WriteCar(p)
    PROVE  IInv'
<1> DEFINE a == proc[p].archive
<1>1. proc[p].pc = "car" /\ UNCHANGED <<digests, pinset, tmp, kubo, asked, fetched>>
  BY DEF WriteCar, At, public
<1>2. proc[p] \in Job /\ a \in Archives /\ a.cid \in Cids /\ CarVerifies(a)
  BY <1>1, JobShape DEF IInv, JobsInv, JobInv
<1>3. CASE Bail(p) /\ UNCHANGED cars
  BY <1>1, <1>3, BailKeeps DEF local, public
<1>4. CASE Goto(p, "digest") /\ cars[a.cid] = a.bytes /\ UNCHANGED cars
  <2>1. "digest" \in Stages \ (Renaming \cup {"carBytes", "digestBytes"})
    BY DEF Stages, Renaming, AfterCar
  <2>2. "digest" \notin AfterDigest /\ "digest" \notin AfterRead /\ "digest" \notin AfterKubo
    BY DEF AfterDigest, AfterRead, AfterRename, AfterKubo, Renaming
  <2>3. UNCHANGED <<local, public>> /\ proc[p].pc # "idle"
    BY <1>1, <1>4 DEF local, public
  <2> QED BY <2>1, <2>2, <2>3, <1>4, GotoKeeps
<1>5. CASE cars[a.cid] = None /\ cars' = [cars EXCEPT ![a.cid] = Partial]
           /\ Goto(p, "carBytes")
  <2>1. "carBytes" \in Stages
    BY DEF Stages
  <2>2. PICK j \in Job : /\ proc' = [proc EXCEPT ![p] = j] /\ j.pc = "carBytes"
                         /\ j.archive = a
    BY <1>1, <1>5, <2>1, GotoShape DEF IInv
  <2>3. Settle
    BY <1>1, <1>2, <1>5 DEF Settle, IInv, Types
  <2>4. PinnedHaveBytes'
    BY <1>1, <2>3, PinsStay
  <2>5. \A q \in Processes : proc[q].pc = "carBytes" => proc[q].archive.cid # a.cid
    BY <1>5 DEF IInv, JobsInv, JobInv, FilesDiffer
  <2>6. \A q \in Processes : LeftAlone(q)
    BY <1>1, <1>2, <1>5, <2>5 DEF LeftAlone, IInv, Types
  <2>7. proc'[p] = j /\ cars'[a.cid] = Partial
    BY <1>2, <1>5, <2>2 DEF IInv, Types
  <2>8. JobInv(p)'
    BY <2>2, <2>7, <1>2 DEF JobInv, AfterCar, AfterDigest, AfterRead, AfterRename, AfterKubo,
       Renaming
  <2>9. j.pc \notin Renaming
    BY <2>2 DEF Renaming
  <2> QED BY <1>1, <2>2, <2>3, <2>4, <2>5, <2>6, <2>8, <2>9, OneProcess DEF IInv, Types
<1> QED BY <1>3, <1>4, <1>5 DEF WriteCar, SameBytes

\* The bytes of an archive are written by the process that created its file.
LEMMA WriteCarBytesKeeps ==
    ASSUME IInv, FilesDiffer, NEW p \in Processes, WriteCarBytes(p)
    PROVE  IInv'
<1> DEFINE a == proc[p].archive
<1>1. /\ proc[p].pc = "carBytes" /\ Goto(p, "digest")
      /\ cars' = [cars EXCEPT ![a.cid] = a.bytes]
      /\ UNCHANGED <<digests, pinset, tmp, kubo, asked, fetched>>
  BY DEF WriteCarBytes, At, public
<1>2. /\ proc[p] \in Job /\ a \in Archives /\ a.cid \in Cids /\ CarVerifies(a)
      /\ cars[a.cid] = Partial
  BY <1>1, JobShape DEF IInv, JobsInv, JobInv
<1>3. "digest" \in Stages
  BY DEF Stages, AfterCar
<1>4. PICK j \in Job : /\ proc' = [proc EXCEPT ![p] = j] /\ j.pc = "digest" /\ j.archive = a
  BY <1>1, <1>3, GotoShape DEF IInv
<1>5. Settle
  BY <1>1, <1>2 DEF Settle, IInv, Types
<1>6. PinnedHaveBytes'
  BY <1>1, <1>5, PinsStay
<1>7. \A q \in Processes \ {p} : LeftAlone(q)
  <2>1. \A q \in Processes \ {p} : proc[q].pc = "carBytes" => proc[q].archive.cid # a.cid
    BY <1>1 DEF IInv, OneWriter
  <2> QED BY <2>1, <1>1, <1>2 DEF LeftAlone, IInv, Types
<1>8. proc'[p] = j /\ cars'[a.cid] = a.bytes
  BY <1>1, <1>2, <1>4 DEF IInv, Types
<1>9. JobInv(p)'
  BY <1>2, <1>4, <1>8 DEF JobInv, AfterDigest, AfterRead, AfterRename, AfterKubo, Renaming
<1>10. j.pc \notin Renaming
  BY <1>4 DEF Renaming
<1> QED BY <1>1, <1>4, <1>5, <1>6, <1>7, <1>9, <1>10, OneProcess DEF IInv, Types

\* The checksum file, the same way.
LEMMA WriteDigestKeeps ==
    ASSUME IInv, FilesDiffer, NEW p \in Processes, WriteDigest(p)
    PROVE  IInv'
<1> DEFINE a == proc[p].archive
<1>1. proc[p].pc = "digest" /\ UNCHANGED <<cars, pinset, tmp, kubo, asked, fetched>>
  BY DEF WriteDigest, At, public
<1>2. /\ proc[p] \in Job /\ a \in Archives /\ a.cid \in Cids /\ CarVerifies(a)
      /\ cars[a.cid] = a.bytes
  BY <1>1, JobShape DEF IInv, JobsInv, JobInv, AfterCar
<1>3. CASE Bail(p) /\ UNCHANGED digests
  BY <1>1, <1>3, BailKeeps DEF local, public
<1>4. CASE Goto(p, "pinset") /\ digests[a.cid] = a.bytes /\ UNCHANGED digests
  <2>1. "pinset" \in Stages \ (Renaming \cup {"carBytes", "digestBytes"})
    BY DEF Stages, Renaming, AfterCar, AfterDigest
  <2>2. "pinset" \notin AfterRead /\ "pinset" \notin AfterKubo
    BY DEF AfterRead, AfterKubo, Renaming
  <2>3. UNCHANGED <<local, public>> /\ proc[p].pc # "idle"
    BY <1>1, <1>4 DEF local, public
  <2> QED BY <2>1, <2>2, <2>3, <1>2, <1>4, GotoKeeps
<1>5. CASE digests[a.cid] = None /\ digests' = [digests EXCEPT ![a.cid] = Partial]
           /\ Goto(p, "digestBytes")
  <2>1. "digestBytes" \in Stages
    BY DEF Stages, AfterCar
  <2>2. PICK j \in Job : /\ proc' = [proc EXCEPT ![p] = j] /\ j.pc = "digestBytes"
                         /\ j.archive = a
    BY <1>1, <1>5, <2>1, GotoShape DEF IInv
  <2>3. Settle
    BY <1>1, <1>2, <1>5 DEF Settle, IInv, Types
  <2>4. PinnedHaveBytes'
    BY <1>1, <2>3, PinsStay
  <2>5. \A q \in Processes : proc[q].pc = "digestBytes" => proc[q].archive.cid # a.cid
    BY <1>5 DEF IInv, JobsInv, JobInv, FilesDiffer
  <2>6. \A q \in Processes : LeftAlone(q)
    BY <1>1, <1>2, <1>5, <2>5 DEF LeftAlone, IInv, Types
  <2>7. proc'[p] = j /\ digests'[a.cid] = Partial
    BY <1>2, <1>5, <2>2 DEF IInv, Types
  <2>8. JobInv(p)'
    BY <2>2, <2>7, <1>1, <1>2 DEF JobInv, AfterDigest, AfterRead, AfterRename, AfterKubo,
       Renaming
  <2>9. j.pc \notin Renaming
    BY <2>2 DEF Renaming
  <2> QED BY <1>1, <2>2, <2>3, <2>4, <2>5, <2>6, <2>8, <2>9, OneProcess DEF IInv, Types
<1> QED BY <1>3, <1>4, <1>5 DEF WriteDigest, SameBytes

\* The checksum is written by the process that created its file.
LEMMA WriteDigestBytesKeeps ==
    ASSUME IInv, FilesDiffer, NEW p \in Processes, WriteDigestBytes(p)
    PROVE  IInv'
<1> DEFINE a == proc[p].archive
<1>1. /\ proc[p].pc = "digestBytes" /\ Goto(p, "pinset")
      /\ digests' = [digests EXCEPT ![a.cid] = a.bytes]
      /\ UNCHANGED <<cars, pinset, tmp, kubo, asked, fetched>>
  BY DEF WriteDigestBytes, At, public
<1>2. /\ proc[p] \in Job /\ a \in Archives /\ a.cid \in Cids /\ CarVerifies(a)
      /\ cars[a.cid] = a.bytes /\ digests[a.cid] = Partial
  BY <1>1, JobShape DEF IInv, JobsInv, JobInv, AfterCar
<1>3. "pinset" \in Stages
  BY DEF Stages, AfterCar, AfterDigest
<1>4. PICK j \in Job : /\ proc' = [proc EXCEPT ![p] = j] /\ j.pc = "pinset" /\ j.archive = a
  BY <1>1, <1>3, GotoShape DEF IInv
<1>5. Settle
  BY <1>1, <1>2 DEF Settle, IInv, Types
<1>6. PinnedHaveBytes'
  BY <1>1, <1>5, PinsStay
<1>7. \A q \in Processes \ {p} : LeftAlone(q)
  <2>1. \A q \in Processes \ {p} : proc[q].pc = "digestBytes" => proc[q].archive.cid # a.cid
    BY <1>1 DEF IInv, OneWriter
  <2> QED BY <2>1, <1>1, <1>2 DEF LeftAlone, IInv, Types
<1>8. proc'[p] = j /\ digests'[a.cid] = a.bytes
  BY <1>1, <1>2, <1>4 DEF IInv, Types
<1>9. JobInv(p)'
  BY <1>1, <1>2, <1>4, <1>8 DEF JobInv, AfterRead, AfterKubo, Renaming
<1>10. j.pc \notin Renaming
  BY <1>4 DEF Renaming
<1> QED BY <1>1, <1>4, <1>5, <1>6, <1>7, <1>9, <1>10, OneProcess DEF IInv, Types

-----------------------------------------------------------------------------
(* The pinset file and what follows it.                                    *)

\* The temporary file is created by one process, and by none while it exists.
LEMMA CreateTemporaryKeeps ==
    ASSUME IInv, FilesDiffer, NEW p \in Processes, CreateTemporary(p)
    PROVE  IInv'
<1>1. proc[p].pc = "tmp" /\ UNCHANGED <<cars, digests, pinset, kubo, asked, fetched>>
  BY DEF CreateTemporary, At, public
<1>2. CASE Bail(p) /\ UNCHANGED tmp
  BY <1>1, <1>2, BailKeeps DEF local, public
<1>3. CASE ~(Bail(p) /\ UNCHANGED tmp)
  <2>1. tmp = None /\ tmp' # None /\ Goto(p, "tmpBytes")
    BY <1>3 DEF CreateTemporary, FilesDiffer
  <2>2. "tmpBytes" \in Stages
    BY DEF Stages, AfterCar, AfterDigest, AfterRead, Renaming
  <2>3. PICK j \in Job : /\ proc' = [proc EXCEPT ![p] = j] /\ j.pc = "tmpBytes"
                         /\ j.archive = proc[p].archive /\ j.read = proc[p].read
    BY <1>1, <2>1, <2>2, GotoShape DEF IInv
  <2>4. Settle
    BY <1>1 DEF Settle, IInv, Types
  <2>5. PinnedHaveBytes'
    BY <1>1, <2>4, PinsStay
  <2>6. \A q \in Processes : proc[q].pc \notin Renaming
    BY <2>1 DEF IInv, JobsInv, JobInv
  <2>7. \A q \in Processes : LeftAlone(q)
    BY <1>1, <2>6 DEF LeftAlone
  <2>8. proc'[p] = j /\ JobInv(p)
    BY <2>3 DEF IInv, Types, JobsInv
  <2>9. JobInv(p)'
    BY <2>1, <2>3, <2>8, <1>1 DEF JobInv, Good, Stages, AfterCar, AfterDigest, AfterRead,
       AfterRename, AfterKubo, Renaming
  <2> QED BY <1>1, <2>3, <2>4, <2>5, <2>6, <2>7, <2>9, OneProcess DEF IInv, Types
<1> QED BY <1>2, <1>3

\* The temporary file gets the pinset its creator computed.
LEMMA WriteTemporaryKeeps ==
    ASSUME IInv, FilesDiffer, NEW p \in Processes, WriteTemporary(p)
    PROVE  IInv'
<1>1. /\ proc[p].pc = "tmpBytes" /\ tmp' = proc[p].read /\ Goto(p, "rename")
      /\ UNCHANGED <<cars, digests, pinset, kubo, asked, fetched>>
  BY DEF WriteTemporary, At, public
<1>2. "rename" \in Stages /\ "tmpBytes" \in Renaming
  BY DEF Stages, AfterCar, AfterDigest, AfterRead, Renaming
<1>3. PICK j \in Job : /\ proc' = [proc EXCEPT ![p] = j] /\ j.pc = "rename"
                       /\ j.archive = proc[p].archive /\ j.read = proc[p].read
  BY <1>1, <1>2, GotoShape DEF IInv
<1>4. Settle
  BY <1>1 DEF Settle, IInv, Types
<1>5. PinnedHaveBytes'
  BY <1>1, <1>4, PinsStay
<1>6. \A q \in Processes \ {p} : proc[q].pc \notin Renaming
  BY <1>1, <1>2 DEF IInv, OneWriter
<1>7. \A q \in Processes \ {p} : LeftAlone(q)
  BY <1>1, <1>6 DEF LeftAlone
<1>8. proc'[p] = j /\ JobInv(p)
  BY <1>3 DEF IInv, Types, JobsInv
<1>9. proc[p].read \in Stored /\ proc[p].read # None
  BY <1>1, <1>8 DEF JobInv, AfterRead, Renaming, Stored, FilesDiffer
<1>10. JobInv(p)'
  BY <1>1, <1>3, <1>8, <1>9, SMTT(30)
     DEF JobInv, Good, Stages, AfterCar, AfterDigest, AfterRead, AfterRename, AfterKubo,
         Renaming
<1> QED BY <1>1, <1>3, <1>4, <1>5, <1>6, <1>7, <1>10, OneProcess DEF IInv, Types

\* The rename makes a pinset of good archives the stored one.
LEMMA RenameKeeps ==
    ASSUME IInv, FilesDiffer, NEW p \in Processes, Rename(p)
    PROVE  IInv'
<1>1. /\ proc[p].pc = "rename" /\ pinset' = tmp /\ tmp' = None /\ Goto(p, "kubo")
      /\ UNCHANGED <<cars, digests, kubo, asked, fetched>>
  BY DEF Rename, At, public
<1>2. "kubo" \in Stages /\ "rename" \in Renaming
  BY DEF Stages, AfterCar, AfterDigest, AfterRename, Renaming
<1>3. PICK j \in Job : /\ proc' = [proc EXCEPT ![p] = j] /\ j.pc = "kubo"
                       /\ j.archive = proc[p].archive /\ j.read = proc[p].read
  BY <1>1, <1>2, GotoShape DEF IInv
<1>4. Settle
  BY <1>1 DEF Settle, IInv, Types
<1>5. proc'[p] = j /\ JobInv(p)
  BY <1>3 DEF IInv, Types, JobsInv
<1>6. pinset' \in Stored /\ \A c \in pinset'.cids : Good(c)
  BY <1>1, <1>5 DEF JobInv, AfterRead, Renaming
<1>7. PinnedHaveBytes'
  BY <1>1, <1>6 DEF IInv, PinnedHaveBytes, Good
<1>8. \A q \in Processes \ {p} : proc[q].pc \notin Renaming
  BY <1>1, <1>2 DEF IInv, OneWriter
<1>9. \A q \in Processes \ {p} : LeftAlone(q)
  BY <1>1, <1>8 DEF LeftAlone
<1>10. JobInv(p)'
  BY <1>1, <1>3, <1>5 DEF JobInv, Good, Stages, AfterCar, AfterDigest, AfterRead,
     AfterRename, AfterKubo, Renaming
<1> QED BY <1>1, <1>3, <1>4, <1>6, <1>7, <1>8, <1>9, <1>10, OneProcess DEF IInv, Types

\* The public node confirms a CID whose archive is stored.
LEMMA ImportKeeps ==
    ASSUME IInv, FilesDiffer, NEW p \in Processes, ImportToKubo(p)
    PROVE  IInv'
<1> DEFINE a == proc[p].archive
<1>1. proc[p].pc = "kubo" /\ UNCHANGED <<local, asked, fetched>>
  BY DEF ImportToKubo, At
<1>2. CASE Bail(p) /\ UNCHANGED kubo
  BY <1>1, <1>2, BailKeeps DEF public
<1>3. CASE kubo' = kubo \cup {a.cid} /\ Goto(p, "external")
  <2>1. "external" \in Stages
    BY DEF Stages, AfterCar, AfterDigest, AfterRename, AfterKubo
  <2>2. PICK j \in Job : /\ proc' = [proc EXCEPT ![p] = j] /\ j.pc = "external"
                         /\ j.archive = a /\ j.read = proc[p].read
    BY <1>1, <1>3, <2>1, GotoShape DEF IInv
  <2>3. a \in Archives /\ a.cid \in Cids
    BY <1>1, JobShape DEF IInv
  <2>4. proc'[p] = j /\ JobInv(p)
    BY <2>2 DEF IInv, Types, JobsInv
  <2>5. /\ CarVerifies(a) /\ cars[a.cid] = a.bytes /\ digests[a.cid] = a.bytes
        /\ a.bytes # None /\ a.bytes # Partial
    BY <1>1, <2>3, <2>4 DEF JobInv, Stages, AfterCar, AfterDigest, AfterRename, FilesDiffer
  <2>6. UNCHANGED <<cars, digests, pinset, tmp, asked, fetched>>
    BY <1>1 DEF local
  <2>7. Settle
    BY <2>6 DEF Settle, IInv, Types
  <2>8. PinnedHaveBytes'
    BY <1>3, <2>5, <2>6 DEF IInv, PinnedHaveBytes
  <2>9. \A q \in Processes : LeftAlone(q)
    BY <2>6 DEF LeftAlone
  <2>10. JobInv(p)'
    BY <1>3, <2>2, <2>4, <2>5, <2>6, SMTT(30)
       DEF JobInv, Stages, AfterCar, AfterDigest, AfterRead, AfterRename, AfterKubo, Renaming
  <2>11. j.pc \notin Renaming
    BY <2>2 DEF Renaming
  <2> QED BY <1>3, <2>2, <2>3, <2>6, <2>7, <2>8, <2>9, <2>10, <2>11, OneProcess
          DEF IInv, Types
<1> QED BY <1>2, <1>3 DEF ImportToKubo

\* A provider is asked only for CIDs the public node confirmed.
LEMMA RequestKeeps ==
    ASSUME IInv, FilesDiffer, NEW p \in Processes, RequestExternalPin(p)
    PROVE  IInv'
<1>1. PICK provider \in Providers :
          /\ asked' = asked \cup {<<provider, proc[p].archive.cid>>}
          /\ Goto(p, "external") \/ Bail(p)
  BY DEF RequestExternalPin
<1>2. /\ proc[p].pc = "external"
      /\ UNCHANGED <<cars, digests, pinset, tmp, kubo, fetched>>
  BY DEF RequestExternalPin, At, local
<1>3. JobInv(p)
  BY DEF IInv, JobsInv
<1>4. proc[p].archive.cid \in kubo
  BY <1>2, <1>3 DEF JobInv, AfterKubo
<1>5. PinnedHaveBytes'
  BY <1>1, <1>2, <1>4, SMTT(30) DEF IInv, PinnedHaveBytes
<1>6. Settle
  BY <1>2 DEF Settle, IInv, Types
<1>7. \A q \in Processes : LeftAlone(q)
  BY <1>2 DEF LeftAlone
<1>8. PICK j \in {Idle} \cup Job :
          /\ proc' = [proc EXCEPT ![p] = j]
          /\ \/ j.pc = "idle"
             \/ j.pc = "external" /\ j.archive = proc[p].archive
  <2>1. "external" \in Stages
    BY DEF Stages, AfterCar, AfterDigest, AfterRename, AfterKubo
  <2>2. CASE Goto(p, "external")
    BY <2>1, <2>2, <1>2, GotoShape DEF IInv
  <2>3. CASE Bail(p)
    <3>1. Idle.pc = "idle"
      BY DEF Idle
    <3> QED BY <3>1, <2>3 DEF Bail
  <2> QED BY <2>2, <2>3, <1>1
<1>9. proc'[p] = j
  BY <1>8 DEF IInv, Types
<1>10. JobInv(p)'
  BY <1>2, <1>3, <1>8, <1>9, SMTT(30)
     DEF JobInv, Stages, AfterCar, AfterDigest, AfterRead, AfterRename, AfterKubo, Renaming
<1>11. j.pc \notin Renaming /\ j.pc # "carBytes" /\ j.pc # "digestBytes"
  BY <1>8 DEF Renaming
<1> QED BY <1>2, <1>5, <1>6, <1>7, <1>8, <1>10, <1>11, OneProcess DEF IInv, Types

\* A set of numbers that is not empty has a smallest one.
LEMMA SmallestNat ==
    ASSUME NEW S \in SUBSET Nat, S # {}
    PROVE  \E i \in S : \A j \in S : i <= j
<1>1. \E i \in S : \A j \in S : <<j, i>> \notin OpToRel(<, Nat)
  BY NatLessThanWellFounded, WFMin
<1>2. \A i, j \in Nat : <<j, i>> \notin OpToRel(<, Nat) => i <= j
  BY DEF OpToRel
<1> QED BY <1>1, <1>2

\* What is fetched verified to the CID asked for.
LEMMA FetchKeeps ==
    ASSUME IInv, FilesDiffer, NEW cid \in Cids, Fetch(cid)
    PROVE  IInv'
<1>1. PICK answers \in [1..Len(Gateways) -> Archives \cup {None}] :
          /\ FetchCar(cid, answers) # None
          /\ fetched' = [fetched EXCEPT ![cid] = FetchCar(cid, answers)]
  BY DEF Fetch
<1>2. UNCHANGED <<cars, digests, pinset, tmp, proc, kubo, asked>>
  BY DEF Fetch, local
<1>3. FetchCar(cid, answers).root = cid
  <2> DEFINE accepted == {i \in 1..Len(Gateways) : Accepts(answers[i], cid)}
             first == CHOOSE i \in accepted : \A j \in accepted : i <= j
  <2>1. accepted # {} /\ FetchCar(cid, answers) = answers[first]
    BY <1>1 DEF FetchCar
  <2>2. \A S \in SUBSET Nat : S # {} => \E i \in S : \A j \in S : i <= j
    BY SmallestNat
  <2>3. accepted \in SUBSET Nat
    OBVIOUS
  <2>4. first \in accepted
    BY <2>1, <2>2, <2>3
  <2> QED BY <2>1, <2>4 DEF Accepts
<1>4. PinnedHaveBytes'
  BY <1>1, <1>2, <1>3 DEF IInv, Types, PinnedHaveBytes
<1>5. Types' /\ OneWriter'
  BY <1>1, <1>2 DEF IInv, Types, OneWriter
<1>6. JobsInv'
  BY <1>2 DEF IInv, JobsInv, JobInv, Good
<1> QED BY <1>4, <1>5, <1>6 DEF IInv

-----------------------------------------------------------------------------
(* The theorem.                                                            *)

\* However commands of any number of processes interleave over one directory
\* and wherever they die: every pinned CID has an archive that verifies to it
\* and its checksum on disk, the public node confirmed only stored archives,
\* providers were asked only for confirmed CIDs, and a fetched archive verifies
\* to its CID (pin_locally, pin_command and fetch_car_from_gateways in ipfs.rs).
THEOREM PinsHold == ASSUME FilesDiffer PROVE Spec => []PinnedHaveBytes
<1>1. IInv /\ [Next]_vars => IInv'
  <2> SUFFICES ASSUME IInv, [Next]_vars PROVE IInv'
    OBVIOUS
  <2>1. CASE UNCHANGED vars
    <3>1. UNCHANGED <<cars, digests, pinset, tmp, proc, kubo, asked, fetched>>
      BY <2>1 DEF vars
    <3>2. JobsInv'
      BY <3>1 DEF IInv, JobsInv, JobInv, Good
    <3> QED BY <3>1, <3>2 DEF IInv, Types, OneWriter, PinnedHaveBytes
  <2>2. ASSUME NEW p \in Processes, SkipKubo(p) \/ FinishPin(p) \/ Crash(p) PROVE IInv'
    BY <2>2, BailKeeps DEF SkipKubo, FinishPin, Crash
  <2>3. CASE Next
    BY <2>2, <2>3, StartKeeps, WriteCarKeeps, WriteCarBytesKeeps, WriteDigestKeeps,
       WriteDigestBytesKeeps, ReadPinsetKeeps, CreateTemporaryKeeps, WriteTemporaryKeeps,
       RenameKeeps, ImportKeeps, RequestKeeps, FetchKeeps DEF Next
  <2> QED BY <2>1, <2>3
<1>2. IInv => PinnedHaveBytes
  BY DEF IInv
<1> QED BY InitHolds, <1>1, <1>2, PTL DEF Spec
==============================================================================
