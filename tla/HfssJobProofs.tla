---------------------------- MODULE HfssJobProofs ----------------------------
(* What a job leaves behind, for any Builder, any descendants of a worker, *)
(* any number of failing writes, and both containments.                    *)
EXTENDS HfssJob, ProcessSupervisorProofs

-----------------------------------------------------------------------------
(* The store on its own: publication is atomic and a receipt lasts, for    *)
(* any writers and files.                                                  *)

PublicationInv == StoreInv /\ ReceiptsVerify

\* Initially there is nothing to read and nobody has a receipt.
LEMMA PublicationInit == StoreInit => PublicationInv
  BY StoreAssumption
  DEF StoreAssumption, StoreInit, PublicationInv, StoreInv, StoreTypeOK, ReceiptsVerify,
      FileStates, Steps

\* A temporary belongs to its writer: opening, filling or dropping one touches no
\* final path.
LEMMA TemporaryKeeps ==
  ASSUME PublicationInv, NEW w \in Writers,
         \/ \E c \in Contents : OpenTemporary(w, c)
         \/ FillTemporary(w) \/ Discard(w) \/ LoseWriter(w)
  PROVE  PublicationInv'
<1> USE StoreAssumption
    DEF StoreAssumption, PublicationInv, StoreInv, StoreTypeOK, ReceiptsVerify,
        FileStates, Steps
<1>1. CASE \E c \in Contents : OpenTemporary(w, c)
  BY <1>1 DEF OpenTemporary
<1>2. CASE FillTemporary(w)
  BY <1>2 DEF FillTemporary
<1>3. CASE Discard(w)
  BY <1>3 DEF Discard
<1>4. CASE LoseWriter(w)
  BY <1>4 DEF LoseWriter
<1>5. QED
  BY <1>1, <1>2, <1>3, <1>4

\* The link makes an absent path whole and leaves a whole one alone; the receipt
\* comes after it.
LEMMA PublicationKeeps ==
  ASSUME PublicationInv, NEW w \in Writers, Publish(w) \/ RemoveTemporary(w)
  PROVE  PublicationInv'
<1> USE StoreAssumption
    DEF StoreAssumption, PublicationInv, StoreInv, StoreTypeOK, ReceiptsVerify,
        FileStates, Steps
<1>1. CASE Publish(w)
  <2>1. target[w] \in Contents /\ temp[w] = "whole"
    BY <1>1 DEF Publish
  <2>2. disk' = [disk EXCEPT ![target[w]] = "whole"]
    BY <1>1, <2>1 DEF Publish
  <2>3. QED
    BY <1>1, <2>1, <2>2 DEF Publish
<1>2. CASE RemoveTemporary(w)
  BY <1>2 DEF RemoveTemporary
<1>3. QED
  BY <1>1, <1>2

\* Every step of every writer.
LEMMA StoreStep ==
  ASSUME PublicationInv, StoreNext \/ UNCHANGED storeVars
  PROVE  PublicationInv'
<1>1. CASE UNCHANGED storeVars
  BY <1>1 DEF PublicationInv, StoreInv, StoreTypeOK, ReceiptsVerify, storeVars
<1>2. CASE StoreNext
  <2>1. PICK w \in Writers : \/ \E c \in Contents : OpenTemporary(w, c)
                             \/ Advance(w) \/ Discard(w) \/ LoseWriter(w)
    BY <1>2 DEF StoreNext
  <2>2. CASE Publish(w) \/ RemoveTemporary(w)
    BY <2>2, PublicationKeeps
  <2>3. CASE \/ \E c \in Contents : OpenTemporary(w, c)
             \/ FillTemporary(w) \/ Discard(w) \/ LoseWriter(w)
    BY <2>3, TemporaryKeeps
  <2>4. QED
    BY <2>1, <2>2, <2>3 DEF Advance
<1>3. QED
  BY <1>1, <1>2

\* The invariant of publication.
LEMMA Publication == StoreSpec => []PublicationInv
<1>1. PublicationInv /\ [StoreNext]_storeVars => PublicationInv'
  BY StoreStep
<1>2. QED
  BY <1>1, PublicationInit, PTL DEF StoreSpec

\* A temporary is whole before it is linked and its path is whole before a
\* receipt is given, for any number of writers (ArtifactStore.write_immutable).
THEOREM PublicationTheorem == StoreSpec => []StoreInv
  BY Publication, PTL DEF PublicationInv

\* No reader finds a torn file, and no receipt ever stops verifying, whatever
\* writers race for one path or are lost (ArtifactStore.verify).
THEOREM ReceiptTheorem == StoreSpec => []ReceiptsVerify
  BY Publication, PTL DEF PublicationInv

-----------------------------------------------------------------------------
(* What the job adds to the store and to the supervisor.                   *)

\* The work of the job is done and nothing of it runs.
Whole == work = "extracted" /\ verdict = "RESULT" /\ ~Runs

\* An unknown outcome is told everywhere, if the disk let it be.
Told(answered) ==
    verdict = "UNKNOWN" /\ faults = 0 =>
        answered = "UNKNOWN" /\ journal = "unknown" /\ lock = "QUARANTINED"

\* Until the license is taken nothing was done.
Fresh ==
    at \in {"preflight", "copying", "waiting"} =>
        /\ lock \in {"FREE", "RIVAL"} /\ ~Runs /\ verdict = "NONE"

\* What the adapter answers, from the place where it is.
Answered ==
    /\ pc \in {"closing", "done"} => verdict # "NONE"
    /\ at \in {"preflight", "copying", "waiting", "invoking", "supervising", "doubting"}
          => fault = "none"
    /\ at \notin {"returned", "freezing", "frozen", "done", "lost"} => outcome = "none"
    /\ at = "doubting" => verdict = "UNKNOWN"
    /\ at = "closing" => Told(fault)
    /\ at \in {"returned", "freezing", "frozen", "done"} => Told(outcome)
    /\ fault # "SUCCESS"
    /\ at = "closing" /\ fault = "none" => Whole
    /\ outcome = "SUCCESS" => Whole
    /\ op = "SUCCEEDED" => outcome = "SUCCESS"

\* Something runs only under the license.
Covered ==
    Runs => \/ at \in {"supervising", "doubting"} \/ lock = "QUARANTINED"
            \/ at = "lost" \/ faults > 0

\* A frozen file is a file of a success, and its last version.
Kept ==
    /\ \A w \in Writers : step[w] = "idle" => target[w] = NoContent
    /\ \A f \in NativeFiles : frozen[f] > 0 => outcome = "SUCCESS" /\ frozen[f] = version[f]

JobShape == Fresh /\ Answered /\ Covered /\ Kept /\ BuiltAsAttested

JobIInv == AnswerInv /\ PublicationInv /\ JobInv /\ JobShape

-----------------------------------------------------------------------------
(* Every step of the job is a step of the store, or none.                  *)

LEMMA JobIsStoreStep ==
  ASSUME HfssNext
  PROVE  StoreNext \/ UNCHANGED storeVars
<1> USE JobAssumption DEF JobAssumption
<1>1. CASE Adapter
  BY <1>1 DEF Adapter
<1>2. CASE Freeze
  <2>1. CASE FreezeValue
    BY <2>1 DEF FreezeValue, StoreNext
  <2>2. ASSUME NEW f \in NativeFiles, OpenNative(f)
        PROVE  StoreNext
    BY <2>2 DEF OpenNative, StoreNext
  <2>3. ASSUME NEW f \in NativeFiles, CloseNative(f)
        PROVE  StoreNext
    BY <2>3 DEF CloseNative, StoreNext, Advance
  <2>4. CASE FreezeAdvances
    BY <2>4 DEF FreezeAdvances, StoreNext, Advance
  <2>5. CASE AllFrozen
    BY <2>5 DEF AllFrozen
  <2>6. CASE UNCHANGED storeVars
    BY <2>6
  <2>7. QED
    BY <1>2, <2>1, <2>2, <2>3, <2>4, <2>5, <2>6 DEF Freeze
<1>3. CASE Supervise
  BY <1>3 DEF Supervise
<1>4. CASE Tree
  BY <1>4 DEF Tree, WorkerEnds, WorkerStep, LateWrite
<1>5. CASE Surroundings
  <2>1. CASE PublishEvidence \/ Advance("operator")
    BY <2>1 DEF PublishEvidence, StoreNext
  <2>2. CASE AgentLost
    BY <2>2 DEF AgentLost, StoreNext
  <2>3. QED
    BY <1>5, <2>1, <2>2 DEF Surroundings
<1>6. QED
  BY <1>1, <1>2, <1>3, <1>4, <1>5 DEF HfssNext

\* The supervisor is started anew for every stage and otherwise takes its own steps.
LEMMA JobKeepsAnswer ==
  ASSUME AnswerInv, HfssNext \/ UNCHANGED allVars
  PROVE  AnswerInv'
<1>1. CASE Invoke
  BY <1>1 DEF Invoke, AnswerInv, SupervisorInv, SupervisorTypeOK, KnownMeansGone, Runs,
              LeaderStates, Reasons, Verdicts, clockVars
<1>2. CASE ReadAnswer
  BY <1>2 DEF ReadAnswer, AnswerInv, SupervisorInv, SupervisorTypeOK, KnownMeansGone, Runs,
              LeaderStates, Reasons, Verdicts, treeVars
<1>3. CASE ParentStep \/ Interrupt \/ InterruptEarly \/ HostLost
  BY <1>3, ParentKeeps
<1>4. CASE TreeStep \/ Clock \/ UNCHANGED vars
  BY <1>4, TreeKeeps
<1>5. CASE Adapter
  BY <1>5, <1>1, <1>2, <1>4 DEF Adapter
<1>6. CASE Freeze
  BY <1>6, <1>4 DEF Freeze
<1>7. CASE Supervise
  BY <1>7, <1>3, <1>4 DEF Supervise
<1>8. CASE Tree
  BY <1>8, <1>4 DEF Tree, TreeStep, WorkerEnds, WorkerStep, LateWrite
<1>9. CASE Surroundings
  BY <1>9, <1>3, <1>4 DEF Surroundings, AgentLost
<1>10. QED
  BY <1>5, <1>6, <1>7, <1>8, <1>9, <1>4 DEF HfssNext, allVars

-----------------------------------------------------------------------------
(* The rest of the invariant, group by group.                              *)

\* The adapter, up to its answer.
LEMMA AdapterKeeps ==
  ASSUME JobIInv, Adapter, AnswerInv', PublicationInv'
  PROVE  (JobInv /\ JobShape)'
<1> USE JobAssumption
    DEF JobAssumption, JobIInv, JobInv, JobTypeOK, JobShape, Fresh, Answered, Told, Covered,
        Kept, BuiltAsAttested, Whole, Stages, failWith, diskFails
<1>0. SupervisorTypeOK' /\ StoreTypeOK'
  BY DEF AnswerInv, SupervisorInv, PublicationInv, StoreInv
<1>1. CASE /\ \/ Preflight \/ VerifySnapshot
              \/ \E f \in SourceFiles : CopySource(f)
           /\ UNCHANGED <<vars, storeVars, workerVars, lock, freezeVars, op>>
  <2> USE DEF vars, treeVars, parentVars, clockVars, storeVars, workerVars, freezeVars,
              builderVars, Runs
  <2>1. CASE Preflight
    BY <1>0, <1>1, <2>1 DEF Preflight
  <2>2. CASE VerifySnapshot
    BY <1>0, <1>1, <2>2 DEF VerifySnapshot
  <2>3. CASE \E f \in SourceFiles : CopySource(f)
    BY <1>0, <1>1, <2>3 DEF CopySource, adapterVars
  <2>4. QED
    BY <1>1, <2>1, <2>2, <2>3
<1>2. CASE AcquireLicense /\ UNCHANGED <<vars, storeVars, workerVars, freezeVars, op>>
  BY <1>0, <1>2 DEF AcquireLicense, vars, treeVars, parentVars, clockVars,
     storeVars, workerVars, freezeVars, builderVars, Runs
<1>3. CASE Invoke /\ UNCHANGED <<storeVars, freezeVars, op>>
  BY <1>0, <1>3 DEF Invoke, clockVars, storeVars, freezeVars, builderVars, Runs
<1>4. CASE ReadAnswer /\ UNCHANGED <<storeVars, freezeVars, op>>
  BY <1>0, <1>4 DEF ReadAnswer, treeVars, storeVars, workerVars, freezeVars, builderVars, Runs,
     Believed, Goal, NextStage, AnswerInv, KnownMeansGone
<1>5. CASE /\ Quarantine
           /\ UNCHANGED <<vars, storeVars, builderVars, workerVars, freezeVars, op>>
  BY <1>0, <1>5 DEF Quarantine, vars, treeVars, parentVars, clockVars,
     storeVars, workerVars, freezeVars, builderVars, Runs
<1>6. CASE /\ Return
           /\ UNCHANGED <<vars, storeVars, builderVars, workerVars, freezeVars, op>>
  BY <1>0, <1>6 DEF Return, vars, treeVars, parentVars, clockVars,
     storeVars, workerVars, freezeVars, builderVars, Runs
<1>7. QED
  BY <1>1, <1>2, <1>3, <1>4, <1>5, <1>6 DEF Adapter

\* The freezing of a success.
LEMMA FreezeKeeps ==
  ASSUME JobIInv, Freeze, AnswerInv', PublicationInv'
  PROVE  (JobInv /\ JobShape)'
<1> USE JobAssumption, StoreAssumption
    DEF JobAssumption, StoreAssumption, JobIInv, JobInv, JobTypeOK, JobShape, Fresh, Answered,
        Told, Covered, Kept, BuiltAsAttested, Whole, Stages, diskFails, StoreTypeOK
<1>0. SupervisorTypeOK' /\ StoreTypeOK' /\ StoreTypeOK
  BY DEF AnswerInv, SupervisorInv, PublicationInv, StoreInv
<1>1. CASE /\ RaiseUnconfirmed \/ CommitReceipt \/ FreezeFails
           /\ UNCHANGED <<vars, storeVars, builderVars, workerVars, lock, freezeVars>>
  <2> USE DEF vars, treeVars, parentVars, clockVars, storeVars, workerVars, freezeVars,
              builderVars, Runs
  <2>1. CASE RaiseUnconfirmed
    BY <1>0, <1>1, <2>1 DEF RaiseUnconfirmed
  <2>2. CASE CommitReceipt
    BY <1>0, <1>1, <2>2 DEF CommitReceipt
  <2>3. CASE FreezeFails
    BY <1>0, <1>1, <2>3 DEF FreezeFails
  <2>4. QED
    BY <1>1, <2>1, <2>2, <2>3
<1>2. CASE /\ \/ FreezeValue \/ AllFrozen \/ FreezeAdvances
              \/ \E f \in NativeFiles : OpenNative(f) \/ CloseNative(f)
           /\ UNCHANGED <<vars, builderVars, workerVars, lock, op>>
  <2> USE DEF vars, treeVars, parentVars, clockVars, workerVars, freezeVars, adapterVars,
              builderVars, Runs
  <2>1. CASE FreezeValue
    BY <1>0, <1>2, <2>1 DEF FreezeValue, OpenTemporary
  <2>2. CASE AllFrozen
    BY <1>0, <1>2, <2>2 DEF AllFrozen, storeVars
  <2>3. CASE FreezeAdvances
    BY <1>0, <1>2, <2>3 DEF FreezeAdvances, FillTemporary, RemoveTemporary, Publish
  <2>4. ASSUME NEW f \in NativeFiles, OpenNative(f)
        PROVE  (JobInv /\ JobShape)'
    BY <1>0, <1>2, <2>4 DEF OpenNative, OpenTemporary
  <2>5. ASSUME NEW f \in NativeFiles, CloseNative(f)
        PROVE  (JobInv /\ JobShape)'
    BY <1>0, <1>2, <2>5 DEF CloseNative, Publish, Discard
  <2>6. QED
    BY <1>2, <2>1, <2>2, <2>3, <2>4, <2>5
<1>3. QED
  BY <1>1, <1>2 DEF Freeze

\* The supervisor answers, and does nothing else.
LEMMA SuperviseKeeps ==
  ASSUME JobIInv, Supervise, AnswerInv', PublicationInv'
  PROVE  (JobInv /\ JobShape)'
<1> USE DEF JobIInv, JobInv, JobTypeOK, JobShape, Fresh, Answered, Told, Covered, Kept,
            BuiltAsAttested, Whole, jobVars, builderVars, workerVars, adapterVars,
            freezeVars, storeVars, Supervise
<1>0. SupervisorTypeOK' /\ StoreTypeOK'
  BY DEF AnswerInv, SupervisorInv, PublicationInv, StoreInv
<1>1. (pc \in {"closing", "done"} => verdict # "NONE")'
  <2>1. CASE ParentStep
    BY <2>1 DEF ParentStep, Start, Contain, ContainFails, PollExit, PollCancelled, PollOverdue,
                PollSilent, stopFor, Drain, Terminate, Verify, Stopped, Close
  <2>2. CASE Interrupt \/ InterruptEarly
    BY <2>2 DEF Interrupt, InterruptEarly, stopFor
  <2>3. CASE Clock
    BY <2>3 DEF Clock, treeVars, parentVars
  <2>4. QED
    BY <2>1, <2>2, <2>3
<1>2. at = "supervising" /\ UNCHANGED <<storeVars, jobVars>>
  OBVIOUS
<1>3. QED
  BY <1>0, <1>1, <1>2

\* What does not run writes nothing and starts nothing.
LEMMA TreeStepKeeps ==
  ASSUME JobIInv, Tree, AnswerInv', PublicationInv'
  PROVE  (JobInv /\ JobShape)'
<1> USE DEF JobIInv, JobInv, JobTypeOK, JobShape, Fresh, Answered, Told, Covered, Kept,
            BuiltAsAttested, Whole, jobVars, builderVars, workerVars, adapterVars,
            freezeVars, storeVars, Runs
<1>0. SupervisorTypeOK' /\ StoreTypeOK'
  BY DEF AnswerInv, SupervisorInv, PublicationInv, StoreInv
<1>1. CASE /\ Beat \/ \E k \in Descendants : Spawn(k) \/ KidEnds(k)
           /\ UNCHANGED <<storeVars, jobVars>>
  BY <1>0, <1>1 DEF Beat, Spawn, KidEnds, treeVars, parentVars, clockVars
<1>2. CASE WorkerEnds
  BY <1>0, <1>2 DEF WorkerEnds, LeaderEnds, parentVars, clockVars
<1>3. CASE WorkerStep
  <2> USE DEF WorkerStep, vars, treeVars, parentVars, clockVars, Works
  <2>1. leader = "running" => \A f \in NativeFiles : ~(frozen[f] > 0)
    OBVIOUS
  <2>2. ASSUME NEW f \in NativeFiles, write(f)
        PROVE  version' \in [NativeFiles -> Nat]
    BY <2>2 DEF write
  <2>3. {"project", "touchstone"} = NativeFiles
    BY DEF NativeFiles
  <2>4. CASE Build
    BY <1>0, <1>3, <2>1, <2>2, <2>3, <2>4 DEF Build
  <2>5. CASE Solve
    BY <1>0, <1>3, <2>1, <2>2, <2>3, <2>5 DEF Solve
  <2>6. CASE Extract
    BY <1>0, <1>3, <2>1, <2>2, <2>3, <2>6 DEF Extract
  <2>7. CASE Respond
    BY <1>0, <1>3, <2>7 DEF Respond
  <2>8. QED
    BY <1>3, <2>4, <2>5, <2>6, <2>7
<1>4. ASSUME NEW f \in NativeFiles, LateWrite(f)
      PROVE  (JobInv /\ JobShape)'
  BY <1>0, <1>4 DEF LateWrite, write, vars, treeVars, parentVars, clockVars
<1>5. QED
  BY <1>1, <1>2, <1>3, <1>4 DEF Tree

\* Leases, operators, editors and rivals do not reach into the job.
LEMMA SurroundingsKeep ==
  ASSUME JobIInv, Surroundings, AnswerInv', PublicationInv'
  PROVE  (JobInv /\ JobShape)'
<1> USE JobAssumption, StoreAssumption
    DEF JobAssumption, StoreAssumption, JobIInv, JobInv, JobTypeOK, JobShape, Fresh, Answered,
        Told, Covered, Kept, BuiltAsAttested, Whole, StoreTypeOK, vars, treeVars, parentVars,
        clockVars, builderVars, workerVars, adapterVars, freezeVars, Runs
<1>0. SupervisorTypeOK' /\ StoreTypeOK' /\ StoreTypeOK
  BY DEF AnswerInv, SupervisorInv, PublicationInv, StoreInv
<1>1. CASE /\ LeaseLapses \/ Settle
           /\ UNCHANGED <<vars, storeVars, builderVars, workerVars, adapterVars, lock, freezeVars>>
  BY <1>0, <1>1 DEF LeaseLapses, Settle, storeVars
<1>2. CASE /\ PublishEvidence \/ Advance("operator")
           /\ UNCHANGED <<vars, jobVars>>
  BY <1>0, <1>2 DEF PublishEvidence, Advance, OpenTemporary, FillTemporary, Publish,
     RemoveTemporary, jobVars
<1>3. CASE /\ RivalEnters \/ RivalLeaves
           /\ UNCHANGED <<vars, storeVars, builderVars, workerVars, adapterVars, freezeVars, op>>
  BY <1>0, <1>3 DEF RivalEnters, RivalLeaves, storeVars
<1>4. CASE /\ \E f \in SourceFiles : EditSource(f)
           /\ UNCHANGED <<vars, storeVars, composite, copied, snapshot, builtFrom, workerVars,
                          adapterVars, lock, freezeVars, op>>
  BY <1>0, <1>4 DEF EditSource, storeVars
<1>5. CASE AgentLost /\ UNCHANGED <<builderVars, workerVars, lock, freezeVars, op>>
  <2>1. JobTypeOK' /\ Kept'
    BY <1>0, <1>5 DEF AgentLost, HostLost, LoseWriter, storeVars
  <2>2. QED
    BY <1>0, <1>5, <2>1 DEF AgentLost, HostLost, LoseWriter, storeVars
<1>6. QED
  BY <1>1, <1>2, <1>3, <1>4, <1>5 DEF Surroundings

\* Initially the job is refused or taken on, and nothing else is decided.
LEMMA JobInit == HfssInit => JobIInv
<1> SUFFICES ASSUME HfssInit PROVE JobIInv
  OBVIOUS
<1>1. AnswerInv /\ PublicationInv
  BY AnswerInit, PublicationInit DEF HfssInit
<1>2. SupervisorTypeOK /\ StoreTypeOK
  BY <1>1 DEF AnswerInv, SupervisorInv, PublicationInv, StoreInv
<1>3. JobInv /\ JobShape
  BY <1>2, JobAssumption
     DEF HfssInit, Init, StoreInit, JobInv, JobTypeOK, JobShape, Fresh, Answered, Told, Covered,
         Kept, BuiltAsAttested, Whole, Stages, Runs, JobAssumption, NativeFiles
<1>4. QED
  BY <1>1, <1>3 DEF JobIInv

\* A step outside the job.
LEMMA JobStutters ==
  ASSUME JobIInv, UNCHANGED allVars
  PROVE  (JobInv /\ JobShape)'
  BY DEF JobIInv, JobInv, JobTypeOK, JobShape, Fresh, Answered, Told, Covered, Kept,
         BuiltAsAttested, Whole, SupervisorTypeOK, StoreTypeOK, Runs, allVars, vars, treeVars,
         parentVars, clockVars, storeVars, jobVars, builderVars, workerVars, adapterVars, freezeVars

\* The invariant of a job.
LEMMA JobInduction == HfssSpec => []JobIInv
<1>1. JobIInv /\ [HfssNext]_allVars => JobIInv'
  <2> SUFFICES ASSUME JobIInv, [HfssNext]_allVars PROVE JobIInv'
    OBVIOUS
  <2>1. AnswerInv'
    BY JobKeepsAnswer DEF JobIInv
  <2>2. PublicationInv'
    BY StoreStep, JobIsStoreStep DEF JobIInv, allVars
  <2>3. (JobInv /\ JobShape)'
    BY <2>1, <2>2, AdapterKeeps, FreezeKeeps, SuperviseKeeps, TreeStepKeeps, SurroundingsKeep,
       JobStutters DEF HfssNext
  <2>4. QED
    BY <2>1, <2>2, <2>3 DEF JobIInv
<1>2. QED
  BY <1>1, JobInit, PTL DEF HfssSpec

-----------------------------------------------------------------------------
(* What it means.                                                          *)

\* The adapter works only under the license, a success response stands for the
\* work of its stage, only a success is frozen (GuardedHFSSAdapter.run, main).
THEOREM JobTheorem == HfssSpec => []JobInv
  BY JobInduction, PTL DEF JobIInv

\* Edits of the Builder during verification and copying never reach a composite
\* job's project (JsonSubprocessHFSSBackend.preflight).
THEOREM AttestedTheorem == HfssSpec => []BuiltAsAttested
  BY JobInduction, PTL DEF JobIInv, JobShape

\* A success, of the adapter or in the ledger, is the whole work of workers that
\* are gone (JsonSubprocessHFSSBackend._invoke).
THEOREM SuccessTheorem == HfssSpec => []SuccessIsWhole
<1>1. JobIInv => SuccessIsWhole
  BY DEF JobIInv, JobShape, Answered, Whole, SuccessIsWhole
<1>2. QED
  BY <1>1, JobInduction, PTL

\* The license covers the worker's process tree as long as the agent lives and
\* the disk takes the quarantine marker (GuardedHFSSAdapter.run).
THEOREM CoverTheorem == HfssSpec => []LicenseCoversTree
<1>1. JobIInv => LicenseCoversTree
  BY DEF JobIInv, JobInv, JobShape, Covered, LicenseCoversTree
<1>2. QED
  BY <1>1, JobInduction, PTL

\* An unverified tree is reported, journalled and quarantined.
THEOREM UnknownTheorem == HfssSpec => []UnknownIsTold
<1>1. JobIInv => UnknownIsTold
  BY DEF JobIInv, JobShape, Answered, Told, UnknownIsTold
<1>2. QED
  BY <1>1, JobInduction, PTL

\* What was frozen of the worker's files is what it left, for good.
THEOREM FrozenTheorem == HfssSpec => []FrozenIsFinal
<1>1. JobIInv => FrozenIsFinal
  BY DEF JobIInv, JobShape, Kept, FrozenIsFinal
<1>2. QED
  BY <1>1, JobInduction, PTL

\* Thread and operator of a job publish like any writers, so that their receipts
\* verify for ever.
THEOREM JobReceiptTheorem == HfssSpec => []ReceiptsVerify
  BY JobInduction, PTL DEF JobIInv, PublicationInv

\* The receipt and the operator's decision exclude one another.
THEOREM SettledOnceTheorem == HfssSpec => SettledOnce
<1>1. [HfssNext]_allVars => [op \notin {"RUNNING", "UNKNOWN"} => op' = op]_op
  BY DEF HfssNext, allVars, jobVars, Adapter, Freeze, Supervise, Tree, Surroundings,
     RaiseUnconfirmed, CommitReceipt, FreezeFails, LeaseLapses, Settle, WorkerEnds, WorkerStep,
     LateWrite
<1>2. QED
  BY <1>1, PTL DEF HfssSpec, SettledOnce
=============================================================================
