-------------------------- MODULE PublicationProofs --------------------------
(***************************************************************************)
(* Machine-checked proofs about Publication, for every set of candidates,  *)
(* every size of the journal and any number of faults and reorganisations. *)
(***************************************************************************)
EXTENDS Publication, WellFoundedInduction, TLAPS

Stages == {"idle", "journal", "submit", "publish", "remove", "verify"}

JobType ==
    [mode : {"none"} \cup AnyMode, at : Stages, block : Candidates \cup {None},
     part : 0..Parts, todo : SUBSET Candidates]

Types ==
    /\ config \in [fork : BOOLEAN, anchored : BOOLEAN]
    /\ journal \in SUBSET Candidates
    /\ core \in [Candidates -> {"unknown", "active", "aside", "disconnected"}]
    /\ connected \in SUBSET Candidates
    /\ published \in [Candidates -> 0..Parts]
    /\ job \in JobType

\* The receiving node stores no invalid block and remembers what it connected.
NodeInv ==
    /\ \A c \in Invalid : core[c] = "unknown"
    /\ \A c \in Candidates : core[c] \in {"active", "disconnected"} => c \in connected

\* Past the journal stage the job's block has its file, and so have the files
\* that a recovery pass has still to read.
FilesInv ==
    /\ job.at # "idle" => job.block \in Candidates
    /\ job.at \in {"submit", "publish", "remove", "verify"} => job.block \in journal
    /\ job.todo \subseteq journal
    /\ job.block \notin job.todo

\* A block is published once it was accepted, from the first message on, and
\* a file is removed when it is published or the block was refused.
StageInv ==
    /\ job.at = "publish" => job.part < Parts /\ job.part <= published[job.block]
    /\ job.at = "publish" /\ ~config.fork => job.block \in connected
    /\ job.at = "remove" =>
          published[job.block] = Parts \/ core[job.block] = "unknown"

IInv ==
    /\ Types /\ NodeInv /\ FilesInv /\ StageInv
    /\ StoredIsJournaled /\ PublishedWasConnected

-----------------------------------------------------------------------------
(* How a job goes on.                                                      *)

\* The first file of a nonempty list is one of its files.
LEMMA FirstFileIn ==
    ASSUME NEW files \in SUBSET Candidates, files # {}
    PROVE  FirstFile(files) \in files
<1> DEFINE R == OpToRel(<, Nat)
           T == {FileOrder[c] : c \in files}
<1>1. T \subseteq Nat /\ T # {}
  BY PublicationAssumption
<1>2. \E x \in T : \A y \in T : ~ (<<y, x>> \in R)
  <2>1. IsWellFoundedOn(R, Nat)
    BY NatLessThanWellFounded
  <2> HIDE DEF R, T
  <2> QED BY <1>1, <2>1, WFMin
<1>3. \A x, y \in Nat : ~ (<<y, x>> \in R) => x <= y
  BY DEF OpToRel
<1>4. \E c \in files : \A d \in files : FileOrder[c] <= FileOrder[d]
  BY <1>1, <1>2, <1>3
<1> QED BY <1>4 DEF FirstFile

\* A job stays a job when its stage and its message number change.
LEMMA StageType ==
    ASSUME NEW stage \in Stages, NEW part \in 0..Parts, job \in JobType
    PROVE  [job EXCEPT !.at = stage, !.part = part] \in JobType
BY DEF JobType

\* An error leaves no job.
LEMMA FailsKeeps ==
    ASSUME JobFails
    PROVE  job' = NoJob
BY DEF JobFails

\* A pass goes on with one of the files it listed.
LEMMA NextFileKeeps ==
    ASSUME NEW todo \in SUBSET Candidates, NextFile(todo)
    PROVE  \/ job' = NoJob
           \/ \E c \in todo : job' = [mode |-> "recovery", at |-> "verify", block |-> c,
                                      part |-> 0, todo |-> todo \ {c}]
<1>1. CASE todo = {}
  BY <1>1 DEF NextFile
<1>2. CASE todo # {}
  BY <1>2, FirstFileIn DEF NextFile
<1> QED BY <1>1, <1>2

Ends ==
    \/ job' = NoJob
    \/ \E c \in job.todo : job' = [mode |-> "recovery", at |-> "verify", block |-> c,
                                   part |-> 0, todo |-> job.todo \ {c}]

\* A job that is through with its block stops or turns to the next file.
LEMMA DoneKeeps ==
    ASSUME Types, BlockDone
    PROVE  Ends
BY FailsKeeps, NextFileKeeps DEF BlockDone, Types, JobType, Ends

\* What is known of jobs holds after a job ended, whatever else the step did
\* as long as it kept the files the job had still to read.
LEMMA EndsKeeps ==
    ASSUME IInv, Ends, job.todo \subseteq journal'
    PROVE  /\ job' \in JobType
           /\ FilesInv' /\ StageInv'
<1> USE DEF IInv, Types, JobType, AnyMode, Stages, Parts
<1>1. CASE job' = NoJob
  BY <1>1 DEF NoJob, FilesInv, StageInv
<1>2. ASSUME NEW c \in job.todo,
             job' = [mode |-> "recovery", at |-> "verify", block |-> c,
                     part |-> 0, todo |-> job.todo \ {c}]
      PROVE  /\ job' \in JobType
             /\ FilesInv' /\ StageInv'
  BY <1>2 DEF FilesInv, StageInv
<1> QED BY <1>1, <1>2 DEF Ends

-----------------------------------------------------------------------------
(* Induction.                                                              *)

\* A fresh data directory has no files, no blocks and no messages.
LEMMA InitHolds == Init => IInv
BY PublicationAssumption
   DEF Init, IInv, Types, NodeInv, FilesInv, StageInv, StoredIsJournaled,
       PublishedWasConnected, NoJob, JobType, AnyMode, Stages, Parts

\* A step that ends the job and keeps the files, the node and the log.
LEMMA EndingStep ==
    ASSUME IInv, Ends, UNCHANGED <<config, journal, core, connected, published>>
    PROVE  IInv'
<1>1. /\ job' \in JobType
      /\ FilesInv' /\ StageInv'
  BY EndsKeeps DEF IInv, FilesInv
<1> QED BY <1>1 DEF IInv, Types, NodeInv, StoredIsJournaled, PublishedWasConnected

\* A step that only takes the job to another stage.
LEMMA MovingStep ==
    ASSUME IInv, UNCHANGED <<config, journal, core, connected, published>>,
           NEW stage \in {"submit", "publish", "remove"}, Goto(stage),
           job.at \in {"submit", "verify"},
           stage = "publish" => config.fork \/ job.block \in connected,
           stage = "remove" => core[job.block] = "unknown"
    PROVE  IInv'
<1> USE DEF IInv, Types, JobType, Stages, AnyMode, Parts
<1>1. job' = [job EXCEPT !.at = stage, !.part = 0]
  BY DEF Goto
<1>2. job' \in JobType
  BY <1>1, stage \in Stages, job \in JobType, 0 \in 0..Parts
<1>3. FilesInv'
  BY <1>1 DEF FilesInv
<1>4. StageInv'
  BY <1>1 DEF FilesInv, StageInv
<1> QED BY <1>2, <1>3, <1>4 DEF NodeInv, StoredIsJournaled, PublishedWasConnected

\* The node stores the job's block, or moves a block it has.
LEMMA StoringStep ==
    ASSUME IInv, NEW c \in Candidates \ Invalid,
           NEW place \in {"active", "aside", "disconnected"}, StoreBlock(c, place),
           place = "disconnected" => c \in connected,
           core[c] # "unknown" \/ c \in journal,
           UNCHANGED <<config, journal, published>>
    PROVE  /\ core' \in [Candidates -> {"unknown", "active", "aside", "disconnected"}]
           /\ connected' \in SUBSET Candidates /\ connected \subseteq connected'
           /\ NodeInv' /\ StoredIsJournaled' /\ PublishedWasConnected'
<1>1. /\ core' = [core EXCEPT ![c] = place]
      /\ connected' = IF place = "active" THEN connected \cup {c} ELSE connected
  BY DEF StoreBlock
<1>2. /\ core' \in [Candidates -> {"unknown", "active", "aside", "disconnected"}]
      /\ connected' \in SUBSET Candidates /\ connected \subseteq connected'
  BY <1>1 DEF IInv, Types
<1>3. NodeInv'
  BY <1>1, PublicationAssumption DEF IInv, Types, NodeInv
<1>4. StoredIsJournaled'
  BY <1>1 DEF IInv, Types, StoredIsJournaled
<1>5. PublishedWasConnected'
  BY <1>2 DEF IInv, Types, PublishedWasConnected
<1> QED BY <1>2, <1>3, <1>4, <1>5

\* Every step keeps the inductive invariant.
LEMMA StepHolds == IInv /\ [Next]_vars => IInv'
<1> SUFFICES ASSUME IInv, [Next]_vars
             PROVE  IInv'
  OBVIOUS
<1>1. ASSUME NEW c \in Candidates, FindBlock(c)
      PROVE  IInv'
  <2>1. /\ job' = [NoJob EXCEPT !.mode = "handler", !.at = "journal", !.block = c]
        /\ UNCHANGED <<config, journal, core, connected, published>>
    BY <1>1 DEF FindBlock
  <2>2. job' = [mode |-> "handler", at |-> "journal", block |-> c, part |-> 0, todo |-> {}]
    BY <2>1 DEF NoJob
  <2>3. job' \in JobType /\ FilesInv' /\ StageInv'
    BY <2>2 DEF JobType, AnyMode, Stages, Parts, FilesInv, StageInv
  <2> QED BY <2>1, <2>3 DEF IInv, Types, NodeInv, StoredIsJournaled, PublishedWasConnected
<1>2. ASSUME NEW c \in Candidates, CoreReorganises(c)
      PROVE  IInv'
  <2> DEFINE place == IF core[c] = "active" THEN "disconnected" ELSE "active"
  <2>1. /\ core[c] # "unknown" /\ StoreBlock(c, place)
        /\ UNCHANGED <<config, journal, published, job>>
    BY <1>2 DEF CoreReorganises
  <2>2. c \notin Invalid /\ (place = "disconnected" => c \in connected)
    BY <2>1 DEF IInv, NodeInv
  <2>3. /\ core' \in [Candidates -> {"unknown", "active", "aside", "disconnected"}]
        /\ connected' \in SUBSET Candidates /\ connected \subseteq connected'
        /\ NodeInv' /\ StoredIsJournaled' /\ PublishedWasConnected'
    BY <2>1, <2>2, StoringStep
  <2>4. StageInv'
    BY <2>1, <2>3 DEF StoreBlock, IInv, Types, StageInv, FilesInv
  <2> QED BY <2>1, <2>3, <2>4 DEF IInv, Types, FilesInv
<1>3. CASE PersistPending
  <2>1. job.at = "journal" /\ UNCHANGED <<config, core, connected, published>>
    BY <1>3 DEF PersistPending, At
  <2>2. CASE UNCHANGED journal /\ JobFails
    BY <2>1, <2>2, EndingStep DEF JobFails, Ends
  <2>3. CASE journal' = journal \cup {job.block} /\ Goto("submit")
    <3>1. job' = [job EXCEPT !.at = "submit", !.part = 0]
      BY <2>3 DEF Goto
    <3>2. job' \in JobType
      BY <3>1, StageType DEF IInv, Types, Stages, Parts
    <3>3. job.block \in Candidates
      BY <2>1 DEF IInv, FilesInv
    <3>4. FilesInv' /\ StageInv'
      BY <2>3, <3>1, <3>3 DEF IInv, Types, JobType, FilesInv, StageInv
    <3> QED BY <2>1, <2>3, <3>2, <3>3, <3>4
            DEF IInv, Types, NodeInv, StoredIsJournaled, PublishedWasConnected
  <2> QED BY <1>3, <2>2, <2>3 DEF PersistPending
<1>4. CASE PersistFails
  <2>1. /\ job.at = "journal" /\ Ends
        /\ journal \subseteq journal' /\ journal' \subseteq journal \cup {job.block}
        /\ UNCHANGED <<config, core, connected, published>>
    BY <1>4 DEF PersistFails, At, JobFails, Ends
  <2>2. job.block \in Candidates /\ job.todo \subseteq journal'
    BY <2>1 DEF IInv, FilesInv
  <2>3. job' \in JobType /\ FilesInv' /\ StageInv'
    BY <2>1, <2>2, EndsKeeps
  <2> QED BY <2>1, <2>2, <2>3
          DEF IInv, Types, NodeInv, StoredIsJournaled, PublishedWasConnected
<1>5. CASE SubmitUnauthorized
  BY <1>5, DoneKeeps, EndingStep DEF SubmitUnauthorized, IInv
<1>6. CASE SubmitSucceeds
  <2>1. /\ job.at = "submit" /\ job.block \notin Invalid /\ Goto("publish")
        /\ UNCHANGED <<config, journal, published>>
    BY <1>6 DEF SubmitSucceeds, At
  <2>2. job.block \in Candidates /\ job.block \in journal
    BY <2>1 DEF IInv, FilesInv
  <2>3. PICK place \in {"active", "aside", "disconnected"} :
            /\ StoreBlock(job.block, place)
            /\ place = "aside" => config.fork
            /\ place = "disconnected" => core[job.block] = "disconnected"
    BY <1>6, <2>2 DEF SubmitSucceeds, IInv, Types
  <2>4. /\ core' \in [Candidates -> {"unknown", "active", "aside", "disconnected"}]
        /\ connected' \in SUBSET Candidates /\ connected \subseteq connected'
        /\ NodeInv' /\ StoredIsJournaled' /\ PublishedWasConnected'
    BY <2>1, <2>2, <2>3, StoringStep DEF IInv, NodeInv
  <2>5. config.fork \/ job.block \in connected'
    BY <2>2, <2>3 DEF StoreBlock, IInv, NodeInv, Types
  <2>6. job' = [job EXCEPT !.at = "publish", !.part = 0]
    BY <2>1 DEF Goto
  <2>7. job' \in JobType
    BY <2>6, StageType DEF IInv, Types, Stages, Parts
  <2>9. FilesInv'
    BY <2>1, <2>2, <2>6 DEF IInv, Types, JobType, FilesInv
  <2>8. StageInv'
    BY <2>1, <2>2, <2>5, <2>6 DEF IInv, Types, JobType, Parts, StageInv
  <2> QED BY <2>1, <2>4, <2>7, <2>8, <2>9 DEF IInv, Types
<1>7. CASE SubmitAmbiguous
  <2>1. /\ job.at = "submit" /\ job.block \notin Invalid /\ BlockDone
        /\ core' = [core EXCEPT ![job.block] = "aside"]
        /\ UNCHANGED <<config, journal, connected, published>>
    BY <1>7 DEF SubmitAmbiguous, At
  <2>2. job.block \in Candidates /\ job.block \in journal /\ job.todo \subseteq journal'
    BY <2>1 DEF IInv, FilesInv
  <2>3. NodeInv' /\ StoredIsJournaled' /\ PublishedWasConnected'
    BY <2>1, <2>2, StoringStep DEF StoreBlock
  <2>4. job' \in JobType /\ FilesInv' /\ StageInv'
    BY <2>1, <2>2, DoneKeeps, EndsKeeps DEF IInv
  <2> QED BY <2>1, <2>2, <2>3, <2>4 DEF IInv, Types
<1>8. CASE SubmitUnanswered
  <2>1. /\ job.at = "submit" /\ BlockDone /\ UNCHANGED <<config, journal, published>>
    BY <1>8 DEF SubmitUnanswered, At
  <2>2. job.block \in Candidates /\ job.block \in journal /\ job.todo \subseteq journal'
    BY <2>1 DEF IInv, FilesInv
  <2>3. CASE UNCHANGED <<core, connected>>
    BY <2>1, <2>3, DoneKeeps, EndingStep DEF IInv
  <2>4. ASSUME job.block \notin Invalid,
               NEW place \in {"active", "aside"}, StoreBlock(job.block, place)
        PROVE  IInv'
    <3>1. /\ core' \in [Candidates -> {"unknown", "active", "aside", "disconnected"}]
          /\ connected' \in SUBSET Candidates
          /\ NodeInv' /\ StoredIsJournaled' /\ PublishedWasConnected'
      BY <2>1, <2>2, <2>4, StoringStep
    <3>2. job' \in JobType /\ FilesInv' /\ StageInv'
      BY <2>1, <2>2, DoneKeeps, EndsKeeps DEF IInv
    <3> QED BY <2>1, <3>1, <3>2 DEF IInv, Types
  <2> QED BY <1>8, <2>3, <2>4 DEF SubmitUnanswered
<1>9. CASE SubmitRejected
  <2>1. /\ job.at = "submit" /\ job.block \in Invalid
        /\ BlockDone \/ Goto("remove")
        /\ UNCHANGED <<config, journal, core, connected, published>>
    BY <1>9 DEF SubmitRejected, At
  <2>2. core[job.block] = "unknown"
    BY <2>1 DEF IInv, NodeInv
  <2>3. CASE BlockDone
    BY <2>1, <2>3, DoneKeeps, EndingStep DEF IInv
  <2>4. CASE Goto("remove")
    BY <2>1, <2>2, <2>4, MovingStep
  <2> QED BY <2>1, <2>3, <2>4
<1>10. CASE PublishNext
  <2> DEFINE part == job.part + 1
  <2>1. job.at = "publish" /\ UNCHANGED <<config, journal, core, connected>>
    BY <1>10 DEF PublishNext, At
  <2>2. /\ job.block \in Candidates /\ job.block \in journal
        /\ part \in 1..Parts /\ part <= published[job.block] + 1
        /\ ~config.fork => job.block \in connected
    BY <2>1 DEF IInv, Types, JobType, FilesInv, StageInv, Parts
  <2>3. CASE JobFails /\ UNCHANGED published
    BY <2>1, <2>3, EndingStep DEF JobFails, Ends
  <2>4. CASE /\ published' = [published EXCEPT ![job.block] = IF @ < part THEN part ELSE @]
             /\ job' = [job EXCEPT !.at = IF part = Parts THEN "remove" ELSE "publish",
                                   !.part = part]
    <3>1. /\ published' \in [Candidates -> 0..Parts]
          /\ published'[job.block] >= part
          /\ \A c \in Candidates : published'[c] >= published[c]
          /\ \A c \in Candidates \ {job.block} : published'[c] = published[c]
      BY <2>2, <2>4 DEF IInv, Types, Parts
    <3>2. job' \in JobType
      <4>1. (IF part = Parts THEN "remove" ELSE "publish") \in Stages /\ part \in 0..Parts
        BY <2>2 DEF Stages, Parts
      <4> QED BY <2>4, <4>1, StageType DEF IInv, Types
    <3>6. FilesInv'
      BY <2>1, <2>2, <2>4 DEF IInv, Types, JobType, FilesInv
    <3>3. StageInv'
      BY <2>1, <2>2, <2>4, <3>1 DEF IInv, Types, JobType, Stages, Parts, StageInv
    <3>4. StoredIsJournaled'
      BY <2>1, <2>2, <3>1 DEF IInv, Types, Parts, StoredIsJournaled
    <3>5. PublishedWasConnected'
      BY <2>1, <2>2, <3>1 DEF IInv, Types, PublishedWasConnected
    <3> QED BY <2>1, <3>1, <3>2, <3>3, <3>4, <3>5, <3>6 DEF IInv, Types, NodeInv
  <2> QED BY <1>10, <2>3, <2>4 DEF PublishNext
<1>11. CASE PublishFails
  BY <1>11, EndingStep DEF PublishFails, JobFails, Ends
<1>12. CASE RemovePending \/ RemoveFails
  <2>1. /\ job.at = "remove"
        /\ journal' \in {journal, journal \ {job.block}}
        /\ BlockDone \/ JobFails
        /\ UNCHANGED <<config, core, connected, published>>
    BY <1>12 DEF RemovePending, RemoveFails, At
  <2>2. Ends
    BY <2>1, DoneKeeps DEF IInv, JobFails, Ends
  <2>3. /\ job.todo \subseteq journal'
        /\ published[job.block] = Parts \/ core[job.block] = "unknown"
    BY <2>1 DEF IInv, FilesInv, StageInv
  <2>4. job' \in JobType /\ FilesInv' /\ StageInv'
    BY <2>2, <2>3, EndsKeeps
  <2>5. StoredIsJournaled'
    BY <2>1, <2>3 DEF IInv, Types, Parts, StoredIsJournaled
  <2> QED BY <2>1, <2>4, <2>5 DEF IInv, Types, NodeInv, PublishedWasConnected
<1>13. CASE BeginRecovery
  <2>1. UNCHANGED <<config, journal, core, connected, published>>
    BY <1>13 DEF BeginRecovery
  <2>2. CASE UNCHANGED job
    BY <2>1, <2>2 DEF IInv, Types, NodeInv, FilesInv, StageInv, StoredIsJournaled,
                      PublishedWasConnected
  <2>3. CASE /\ journal # {}
             /\ job' = [mode |-> "recovery", at |-> "verify", block |-> FirstFile(journal),
                        part |-> 0, todo |-> journal \ {FirstFile(journal)}]
    <3>1. FirstFile(journal) \in journal /\ journal \subseteq Candidates
      BY <2>3, FirstFileIn DEF IInv, Types
    <3>2. job' \in JobType /\ FilesInv' /\ StageInv'
      BY <2>1, <2>3, <3>1 DEF JobType, AnyMode, Stages, Parts, FilesInv, StageInv
    <3> QED BY <2>1, <3>2 DEF IInv, Types, NodeInv, StoredIsJournaled, PublishedWasConnected
  <2> QED BY <1>13, <2>2, <2>3 DEF BeginRecovery
<1>14. CASE VerifyRecoverable
  <2> DEFINE stage == IF BlockIsAccepted(job.block) THEN "publish" ELSE "submit"
  <2>1. /\ job.at = "verify" /\ Goto(stage)
        /\ UNCHANGED <<config, journal, core, connected, published>>
    BY <1>14 DEF VerifyRecoverable, At
  <2>2. stage = "publish" => config.fork \/ job.block \in connected
    BY <2>1 DEF BlockIsAccepted, IInv, FilesInv, NodeInv
  <2>3. stage \in {"submit", "publish", "remove"} /\ stage # "remove"
    OBVIOUS
  <2> HIDE DEF stage
  <2> QED BY <2>1, <2>2, <2>3, MovingStep
<1>15. CASE VerifyFails
  <2>1. /\ job.at = "verify" /\ (JobFails \/ Goto("submit"))
        /\ UNCHANGED <<config, journal, core, connected, published>>
    BY <1>15 DEF VerifyFails, At
  <2>2. CASE JobFails
    BY <2>1, <2>2, EndingStep DEF JobFails, Ends
  <2>3. CASE Goto("submit")
    BY <2>1, <2>3, MovingStep
  <2> QED BY <2>1, <2>2, <2>3
<1>16. CASE Crash
  BY <1>16, EndingStep DEF Crash, Ends
<1>17. CASE EligibilityPasses \/ UNCHANGED vars
  BY <1>17 DEF EligibilityPasses, vars, IInv, Types, NodeInv, FilesInv, StageInv,
               StoredIsJournaled, PublishedWasConnected
<1> QED
  BY <1>1, <1>2, <1>3, <1>4, <1>5, <1>6, <1>7, <1>8, <1>9, <1>10, <1>11, <1>12,
     <1>13, <1>14, <1>15, <1>16, <1>17 DEF Next, JobStep

-----------------------------------------------------------------------------
(* Theorems.                                                               *)

\* The inductive invariant holds in every state of the adapter.
THEOREM Invariance == Spec => []IInv
BY InitHolds, StepHolds, PTL DEF Spec

\* Whatever fails or dies between the journal entry, the submission, the
\* messages and the removal of the entry, a block that the receiving node has
\* is in the journal until its publication is complete.
THEOREM NothingForgotten == Spec => []StoredIsJournaled
<1>1. IInv => StoredIsJournaled
  BY DEF IInv
<1> QED BY <1>1, Invariance, PTL

\* With Bitcoin Core no message of a block is logged unless the block was on
\* the active chain, although answers are lost and may be inconclusive.
THEOREM OnlyConnectedPublished == Spec => []PublishedWasConnected
<1>1. IInv => PublishedWasConnected
  BY DEF IInv
<1> QED BY <1>1, Invariance, PTL

\* Journal first, submit, then publish: both orders hold at every moment.
THEOREM PublicationHolds == Spec => []PublicationSound
BY NothingForgotten, OnlyConnectedPublished, PTL DEF PublicationSound
=============================================================================
