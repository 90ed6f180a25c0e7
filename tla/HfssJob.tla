------------------------------- MODULE HfssJob -------------------------------
(***************************************************************************)
(* One HFSS job, from the provider call to the receipt: the adapter        *)
(* (hfss/guarded_adapter.py), the JSON worker protocol                     *)
(* (hfss/worker_backend.py), the worker (hfss/pyaedt_worker.py) in its     *)
(* supervised process tree, and the freezing of what it left behind        *)
(* (HarnessCore.execute, harness/artifacts.py).                            *)
(*                                                                         *)
(* Around the job: an editor of the Builder sources, a rival for the       *)
(* license, a disk whose writes may fail, the lease of the operation, an   *)
(* operator who settles it, and the loss of the agent's process.           *)
(***************************************************************************)
EXTENDS ProcessSupervisor, ArtifactStore

CONSTANTS SourceFiles,   \* the Builder's attested source files
          MaxFaults,     \* failing disk writes of the adapter
          MaxLateWrites  \* writes of a lingering AEDT process

NativeFiles == {"project", "touchstone"}

ASSUME JobAssumption ==
    /\ MaxFaults \in Nat /\ MaxLateWrites \in Nat
    /\ {"thread", "operator"} \subseteq Writers
    /\ {"result", "evidence"} \cup NativeFiles \subseteq Contents

VARIABLES
    composite,  \* config.builder_attestation is not None
    edited,     \* source files that differ from the attestation
    copied,     \* source files copied to the snapshot
    snapshot,   \* those of them that were edited when copied
    builtFrom,  \* edited files the project was built from
    at,         \* where the adapter is
    stage,      \* the worker stage it invoked
    work,       \* how far the project in the workspace has come
    version,    \* writes to each provider file
    lateWrites,
    answer,     \* the response file of the stage
    exitCode,   \* the worker's exit code
    lock,       \* the license lock: FREE, OURS, RIVAL or QUARANTINED
    fault,      \* the exception the adapter carries
    outcome,    \* the HFSSResult it returned
    journal,    \* run_journal.json: status
    faults,     \* failed disk writes so far
    before,     \* source.stat() of the file being frozen
    frozen,     \* the version that was frozen of each provider file
    op          \* operations.status

builderVars == <<composite, edited, copied, snapshot, builtFrom>>
workerVars  == <<work, version, lateWrites, answer, exitCode>>
adapterVars == <<at, stage, fault, outcome, journal, faults>>
freezeVars  == <<before, frozen>>
jobVars == <<builderVars, workerVars, adapterVars, lock, freezeVars, op>>
allVars == <<vars, storeVars, jobVars>>

Stages == {"none", "composite", "build", "solve", "extract"}

\* What a stage's worker does, and what was done when it is through.
Goal(s) == CASE s = "build" -> "built" [] s = "solve" -> "solved" [] OTHER -> "extracted"
NextStage(s) == CASE s = "build" -> "solve" [] s = "solve" -> "extract" [] OTHER -> "none"

-----------------------------------------------------------------------------
(* GuardedHFSSAdapter.run up to the license.                               *)

\* An exception leaves the license with the block and becomes an HFSSResult.
failWith(f) == at' = "closing" /\ fault' = f
\* A journal write (or any other disk write of the adapter) fails.
diskFails == faults < MaxFaults /\ faults' = faults + 1

\* The Builder sources are compared with the attestation.
Preflight ==
    /\ at = "preflight"
    /\ \/ ~composite /\ at' = "waiting" /\ UNCHANGED fault
       \/ composite /\ edited = {} /\ at' = "copying" /\ UNCHANGED fault
       \/ composite /\ edited # {} /\ failWith("FAILED")
    /\ UNCHANGED <<builderVars, stage, outcome, journal, faults>>

\* They are copied one by one, while anyone may go on editing them.
CopySource(f) ==
    /\ at = "copying"
    /\ f \notin copied
    /\ copied' = copied \cup {f}
    /\ snapshot' = IF f \in edited THEN snapshot \cup {f} ELSE snapshot
    /\ UNCHANGED <<composite, edited, builtFrom, adapterVars>>

\* The finished copy is compared again; from here on nobody edits it.
VerifySnapshot ==
    /\ at = "copying" /\ copied = SourceFiles
    /\ IF snapshot = {} THEN at' = "waiting" /\ UNCHANGED fault ELSE failWith("FAILED")
    /\ UNCHANGED <<builderVars, stage, outcome, journal, faults>>

\* lock.acquire; a foreign, quarantined or never released lock ends the wait.
AcquireLicense ==
    /\ at = "waiting"
    /\ \/ /\ lock = "FREE"
          /\ lock' = "OURS"
          /\ at' = "invoking"
          /\ stage' = IF composite THEN "composite" ELSE "build"
          /\ journal' = "running"
          /\ UNCHANGED fault
       \/ /\ lock # "FREE"
          /\ failWith("FAILED")
          /\ journal' = "running"
          /\ UNCHANGED <<lock, stage>>
    /\ UNCHANGED <<builderVars, outcome, faults>>

-----------------------------------------------------------------------------
(* JsonSubprocessHFSSBackend._invoke.                                      *)

\* A fresh request, response and heartbeat path; SupervisedProcessRunner.run.
Invoke ==
    /\ at = "invoking"
    /\ at' = "supervising"
    /\ answer' = "none" /\ exitCode' = "none"
    /\ leader' = "collected" /\ kids' = {} /\ spawned' = {} /\ doomed' = FALSE
    /\ contained' = FALSE /\ pc' = "idle" /\ reason' = "none" /\ verdict' = "NONE"
    /\ UNCHANGED <<clockVars, builderVars, work, version, lateWrites, stage, fault, outcome,
                   journal, faults, lock>>

\* Bug: the response is read without a look at the exit code or the supervisor.
BelievedResponse == answer = "success" /\ verdict # "UNKNOWN"
\* A clean exit and a success response; anything else is an HFSSStageError.
Believed == verdict = "RESULT" /\ exitCode = "zero" /\ answer = "success"

\* What the supervisor's answer and the response file mean to the adapter; the
\* conversion of the S-parameters may refuse them, and so may the journal.  The
\* deadlines were local to the supervision; a set cancel_event stays set.
ReadAnswer ==
    /\ at = "supervising" /\ pc = "done"
    /\ \/ /\ Believed
          /\ IF NextStage(stage) = "none"
             THEN at' = "closing" /\ UNCHANGED stage
             ELSE at' = "invoking" /\ stage' = NextStage(stage)
          /\ UNCHANGED <<fault, faults>>
       \/ /\ Believed
          /\ \/ NextStage(stage) = "none" /\ UNCHANGED faults
             \/ diskFails
          /\ failWith("FAILED")
          /\ UNCHANGED stage
       \/ /\ ~Believed /\ verdict # "UNKNOWN"
          /\ failWith("FAILED")
          /\ UNCHANGED <<stage, faults>>
       \/ /\ ~Believed /\ verdict = "UNKNOWN"
          /\ at' = "doubting"
          /\ UNCHANGED <<stage, fault, faults>>
    /\ overdue' = FALSE /\ silent' = FALSE /\ reason' = "none"
    /\ UNCHANGED <<treeVars, contained, pc, verdict, cancel, builderVars, workerVars,
                   outcome, journal, lock>>

\* Bug: an unknown process outcome is reported without the durable marker.
ReportOnly ==
    /\ at = "doubting"
    /\ journal' = "unknown"
    /\ failWith("UNKNOWN")
    /\ UNCHANGED <<stage, outcome, faults, lock>>

\* except HFSSProcessOutcomeUnknown: the lock becomes a quarantine marker, then the
\* journal says so.  A failing write of either replaces the exception.
Quarantine ==
    /\ at = "doubting"
    /\ \/ /\ lock' = "QUARANTINED" /\ journal' = "unknown"
          /\ failWith("UNKNOWN")
          /\ UNCHANGED faults
       \/ /\ lock' \in {"OURS", "QUARANTINED"} /\ UNCHANGED journal
          /\ failWith("FAILED")
          /\ diskFails
    /\ UNCHANGED <<stage, outcome>>

\* finally: backend.close, and the with-block's release unless quarantined; then
\* the HFSSResult.  Only the journal of a success can still make it a failure.
Return ==
    /\ at = "closing"
    /\ at' = "returned"
    /\ lock' = IF lock = "OURS" THEN "FREE" ELSE lock
    /\ \/ /\ fault = "none"
          /\ outcome' = "SUCCESS" /\ journal' = "completed"
          /\ UNCHANGED faults
       \/ /\ fault = "none" /\ diskFails
          /\ outcome' = "FAILED" /\ journal' \in {journal, "failed"}
       \/ /\ fault # "none"
          /\ outcome' = fault
          /\ journal' = IF fault = "UNKNOWN" THEN "unknown" ELSE "failed"
          /\ UNCHANGED faults
       \/ /\ fault # "none" /\ diskFails
          /\ outcome' = fault
          /\ UNCHANGED journal
    /\ UNCHANGED <<stage, fault>>

-----------------------------------------------------------------------------
(* The worker's program, in the leader of the supervised tree.             *)

Works == leader = "running" /\ answer = "none"
write(f) == version' = [version EXCEPT ![f] = @ + 1]

\* Bug: the worker imports the Builder from the source root.
BuildFromRoot ==
    /\ Works /\ stage \in {"composite", "build"}
    /\ work = "none"
    /\ composite => snapshot = {}
    /\ builtFrom' = edited
    /\ work' = "built"
    /\ write("project")
    /\ UNCHANGED <<lateWrites, answer, exitCode>>

\* _build: the attestation is verified once more, an existing project refused.
Build ==
    /\ Works /\ stage \in {"composite", "build"}
    /\ work = "none"
    /\ composite => snapshot = {}
    /\ builtFrom' = IF composite THEN snapshot ELSE edited
    /\ work' = "built"
    /\ write("project")
    /\ UNCHANGED <<lateWrites, answer, exitCode>>

\* _solve: the exact design and setup, analyze_setup, save_project.
Solve ==
    /\ Works /\ stage \in {"composite", "solve"}
    /\ work = "built"
    /\ work' = "solved"
    /\ write("project")
    /\ UNCHANGED <<builtFrom, lateWrites, answer, exitCode>>

\* _extract: the frequency grid, both traces, the Touchstone file.
Extract ==
    /\ Works /\ stage \in {"composite", "extract"}
    /\ work = "solved"
    /\ work' = "extracted"
    /\ write("touchstone")
    /\ UNCHANGED <<builtFrom, lateWrites, answer, exitCode>>

\* Bug: the response is written before the work is done.
RespondEarly ==
    /\ Works
    /\ work # "none"
    /\ answer' \in {"error", "success"}
    /\ UNCHANGED <<builtFrom, work, version, lateWrites, exitCode>>

\* main: the response is written in one replace, success only at the end.
Respond ==
    /\ Works
    /\ answer' \in {"error"} \cup (IF work = Goal(stage) THEN {"success"} ELSE {})
    /\ UNCHANGED <<builtFrom, work, version, lateWrites, exitCode>>

WorkerStep == /\ Build \/ Solve \/ Extract \/ Respond
              /\ UNCHANGED <<vars, storeVars, composite, edited, copied, snapshot,
                             adapterVars, lock, freezeVars, op>>

\* The leader ends: with 0 only after a success response, and even then a killed
\* or crashed interpreter may end otherwise.
WorkerEnds ==
    /\ LeaderEnds
    /\ exitCode' \in {"nonzero"} \cup (IF answer = "success" THEN {"zero"} ELSE {})
    /\ UNCHANGED <<storeVars, builderVars, work, version, lateWrites, answer,
                   adapterVars, lock, freezeVars, op>>

\* An AEDT process that is still there writes a file that exists.
LateWrite(f) ==
    /\ kids # {} /\ at # "lost"  \* a lost agent reads no file
    /\ version[f] > 0
    /\ lateWrites < MaxLateWrites
    /\ lateWrites' = lateWrites + 1
    /\ write(f)
    /\ UNCHANGED <<vars, storeVars, builderVars, work, answer, exitCode, adapterVars,
                   lock, freezeVars, op>>

-----------------------------------------------------------------------------
(* HarnessCore.execute around the provider.                                *)

\* A real result that is no success is raised: the operation is UNKNOWN.
RaiseUnconfirmed ==
    /\ at = "returned" /\ outcome # "SUCCESS"
    /\ op' = IF op = "RUNNING" THEN "UNKNOWN" ELSE op
    /\ at' = "done"
    /\ UNCHANGED <<stage, fault, outcome, journal, faults>>

\* complete_operation: only the running attempt gets its receipt.
CommitReceipt ==
    /\ at = "frozen"
    /\ op' = IF op = "RUNNING" THEN "SUCCEEDED" ELSE op
    /\ at' = "done"
    /\ UNCHANGED <<stage, fault, outcome, journal, faults>>

\* The value is frozen first, then each native file: stat, copy, stat, link.
FreezeValue ==
    /\ at = "returned" /\ outcome = "SUCCESS"
    /\ OpenTemporary("thread", "result")
    /\ at' = "freezing"
    /\ UNCHANGED <<stage, fault, outcome, journal, faults, freezeVars>>

OpenNative(f) ==
    /\ at = "freezing" /\ step["thread"] = "idle"
    /\ frozen[f] = 0
    /\ OpenTemporary("thread", f)
    /\ before' = version[f]
    /\ UNCHANGED <<adapterVars, frozen>>

CloseNative(f) ==
    /\ at = "freezing" /\ target["thread"] = f
    /\ \/ version[f] = before /\ Publish("thread") /\ frozen' = [frozen EXCEPT ![f] = before]
       \/ version[f] # before /\ Discard("thread") /\ UNCHANGED frozen
    /\ UNCHANGED <<adapterVars, before>>

AllFrozen ==
    /\ at = "freezing" /\ step["thread"] = "idle"
    /\ \A f \in NativeFiles : frozen[f] > 0
    /\ at' = "frozen"
    /\ UNCHANGED <<storeVars, stage, fault, outcome, journal, faults, freezeVars>>

FreezeAdvances ==
    /\ at = "freezing"
    /\ FillTemporary("thread") \/ RemoveTemporary("thread")
           \/ (target["thread"] = "result" /\ Publish("thread"))
    /\ UNCHANGED <<adapterVars, freezeVars>>

\* Whatever fails after the provider returned: the operation is UNKNOWN.
FreezeFails ==
    /\ at = "freezing"
    /\ \/ step["thread"] = "refused" /\ UNCHANGED faults
       \/ step["thread"] # "refused" /\ diskFails
    /\ op' = IF op = "RUNNING" THEN "UNKNOWN" ELSE op
    /\ at' = "done"
    /\ UNCHANGED <<stage, fault, outcome, journal>>

-----------------------------------------------------------------------------
(* Around the job.                                                         *)

\* Another owner finds the lease of the operation expired; before the provider
\* returns nothing looks at the operation, so that is early enough.
LeaseLapses == /\ op = "RUNNING"
               /\ at \in {"returned", "freezing", "frozen", "lost"}
               /\ op' = "UNKNOWN"

\* reconcile_unknown: evidence, for a confirmed success also the result (the same
\* bytes, perhaps, that the thread is publishing), then the decision.  As a bound,
\* a lost agent is settled here only if it was lost while it published.
OperatorMeets == at = "lost" => step["thread"] = "lost"

PublishEvidence ==
    /\ op = "UNKNOWN" /\ OperatorMeets
    /\ OpenTemporary("operator", IF receipts["operator"] = {} THEN "evidence" ELSE "result")
    /\ "result" \notin receipts["operator"]

Settle ==
    /\ op = "UNKNOWN"
    /\ step["operator"] = "idle"
    /\ "evidence" \in receipts["operator"]
    /\ op' = IF "result" \in receipts["operator"] THEN "CONFIRMED_SUCCEEDED"
                                                  ELSE "CONFIRMED_FAILED"

\* Edits after the build touch nothing that is read again.
EditSource(f) == /\ composite /\ work = "none"
                 /\ at \in {"preflight", "copying", "waiting", "supervising"}
                 /\ edited' = (edited \ {f}) \cup ({f} \ edited)

\* Another process takes the license and gives it back.  Who gets it after this
\* job, and from a lost process, is LicenseLock's matter.
RivalEnters == /\ lock = "FREE" /\ at \in {"preflight", "copying", "waiting"}
               /\ lock' = "RIVAL"
RivalLeaves == /\ lock = "RIVAL" /\ at \in {"preflight", "copying", "waiting"}
               /\ lock' = "FREE"

\* The agent's process is lost.
AgentLost ==
    /\ at \notin {"done", "lost"}
    /\ at' = "lost"
    /\ IF at = "supervising" /\ pc \notin {"idle", "done"}
       THEN HostLost ELSE UNCHANGED vars
    /\ IF at = "freezing" THEN LoseWriter("thread") ELSE UNCHANGED storeVars
    /\ UNCHANGED <<stage, fault, outcome, journal, faults>>

-----------------------------------------------------------------------------
HfssInit ==
    /\ Init /\ StoreInit
    /\ composite \in BOOLEAN
    /\ edited = {}
    /\ copied = {} /\ snapshot = {} /\ builtFrom = {}
    /\ at = "preflight" /\ stage = "none"
    /\ work = "none" /\ version = [f \in NativeFiles |-> 0] /\ lateWrites = 0
    /\ answer = "none" /\ exitCode = "none"
    /\ lock = "FREE"
    /\ fault = "none" /\ outcome = "none" /\ journal = "created" /\ faults = 0
    /\ before = 0 /\ frozen = [f \in NativeFiles |-> 0]
    /\ op = "RUNNING"

\* The steps of the thread that runs the job, outside the supervisor.
Adapter ==
    \/ /\ \/ Preflight \/ VerifySnapshot
          \/ \E f \in SourceFiles : CopySource(f)
       /\ UNCHANGED <<vars, storeVars, workerVars, lock, freezeVars, op>>
    \/ AcquireLicense /\ UNCHANGED <<vars, storeVars, workerVars, freezeVars, op>>
    \/ Invoke         /\ UNCHANGED <<storeVars, freezeVars, op>>
    \/ ReadAnswer     /\ UNCHANGED <<storeVars, freezeVars, op>>
    \/ /\ Quarantine \/ Return
       /\ UNCHANGED <<vars, storeVars, builderVars, workerVars, freezeVars, op>>

Freeze ==
    \/ /\ RaiseUnconfirmed \/ CommitReceipt \/ FreezeFails
       /\ UNCHANGED <<vars, storeVars, builderVars, workerVars, lock, freezeVars>>
    \/ /\ \/ FreezeValue \/ AllFrozen \/ FreezeAdvances
          \/ \E f \in NativeFiles : OpenNative(f) \/ CloseNative(f)
       /\ UNCHANGED <<vars, builderVars, workerVars, lock, op>>

Supervise == /\ at = "supervising"
             /\ ParentStep \/ Interrupt \/ InterruptEarly \/ Clock
             /\ UNCHANGED <<storeVars, jobVars>>

Tree == \/ /\ Beat \/ \E k \in Descendants : Spawn(k) \/ KidEnds(k)
           /\ UNCHANGED <<storeVars, jobVars>>
        \/ WorkerEnds \/ WorkerStep
        \/ \E f \in NativeFiles : LateWrite(f)

Surroundings ==
    \/ /\ LeaseLapses \/ Settle
       /\ UNCHANGED <<vars, storeVars, builderVars, workerVars, adapterVars, lock, freezeVars>>
    \/ /\ PublishEvidence \/ Advance("operator")
       /\ UNCHANGED <<vars, jobVars>>
    \/ /\ RivalEnters \/ RivalLeaves
       /\ UNCHANGED <<vars, storeVars, builderVars, workerVars, adapterVars, freezeVars, op>>
    \/ /\ \E f \in SourceFiles : EditSource(f)
       /\ UNCHANGED <<vars, storeVars, composite, copied, snapshot, builtFrom, workerVars,
                      adapterVars, lock, freezeVars, op>>
    \/ AgentLost /\ UNCHANGED <<builderVars, workerVars, lock, freezeVars, op>>

HfssNext == Adapter \/ Freeze \/ Supervise \/ Tree \/ Surroundings

HfssSpec == HfssInit /\ [][HfssNext]_allVars

\* The thread runs on, the deadline passes, a delivered kill is carried out, and
\* the lease of a lost process lapses.
JobFairness ==
    /\ WF_allVars(Adapter)
    /\ WF_allVars(Freeze)
    /\ WF_allVars(at = "supervising" /\ ParentStep /\ UNCHANGED <<storeVars, jobVars>>)
    /\ WF_allVars(/\ at = "supervising" /\ pc = "polling" /\ TimeoutPasses
                  /\ UNCHANGED <<treeVars, parentVars, storeVars, jobVars>>)
    /\ WF_allVars(doomed /\ WorkerEnds)
    /\ \A k \in Descendants : WF_allVars(doomed /\ KidEnds(k) /\ UNCHANGED <<storeVars, jobVars>>)
    /\ WF_allVars(/\ at = "lost" /\ LeaseLapses
                  /\ UNCHANGED <<vars, storeVars, builderVars, workerVars, adapterVars,
                                 lock, freezeVars>>)

LiveHfssSpec == HfssSpec /\ JobFairness

-----------------------------------------------------------------------------
(* Properties.                                                             *)

JobTypeOK ==
    /\ SupervisorTypeOK /\ StoreTypeOK
    /\ composite \in BOOLEAN
    /\ edited \cup copied \cup snapshot \cup builtFrom \subseteq SourceFiles
    /\ at \in {"preflight", "copying", "waiting", "invoking", "supervising", "doubting",
               "closing", "returned", "freezing", "frozen", "done", "lost"}
    /\ stage \in Stages
    /\ version \in [NativeFiles -> Nat] /\ frozen \in [NativeFiles -> Nat]
    /\ before \in Nat /\ faults \in Nat /\ lateWrites \in Nat
    /\ op \in {"RUNNING", "UNKNOWN", "SUCCEEDED", "CONFIRMED_SUCCEEDED", "CONFIRMED_FAILED"}
    /\ work \in {"none", "built", "solved", "extracted"}
    /\ answer \in {"none", "error", "success"} /\ exitCode \in {"none", "zero", "nonzero"}
    /\ lock \in {"FREE", "OURS", "RIVAL", "QUARANTINED"}
    /\ {fault, outcome} \subseteq {"none", "SUCCESS", "FAILED", "UNKNOWN"}
    /\ journal \in {"created", "running", "completed", "failed", "unknown"}

\* Where the adapter is fits what it holds: it works only under the license, and
\* a success response stands for the whole work of its stage (run, main).
JobInv ==
    /\ JobTypeOK
    /\ at \in {"invoking", "supervising", "doubting"} => lock = "OURS"
    /\ lock = "OURS" => at \in {"invoking", "supervising", "doubting", "closing", "lost"}
    /\ pc \notin {"idle", "done", "lost"} => at = "supervising"
    /\ at = "supervising" /\ answer = "success" => work = Goal(stage)
    /\ \A f \in NativeFiles : frozen[f] > 0 => f \in receipts["thread"] \/ target["thread"] = f
    /\ at \in {"freezing", "frozen"} => outcome = "SUCCESS"

\* A composite job's project is made from the attested Builder and nothing else,
\* whoever edits the sources while they are verified and copied
\* (JsonSubprocessHFSSBackend.preflight, _execute).
BuiltAsAttested == composite => builtFrom = {}

\* A success is the complete build, solve and export of this job, by workers whose
\* trees are gone; a crash after the response, a stale exit code or a verdict that
\* races the response never makes one (_invoke, GuardedHFSSAdapter.run).
SuccessIsWhole ==
    outcome = "SUCCESS" \/ op = "SUCCEEDED" => /\ work = "extracted"
                                              /\ verdict = "RESULT" /\ ~Runs

\* While anything of the worker's tree may run, the license is not given to another
\* process: it is held or quarantined.  The exceptions are a lost agent and a disk
\* that refuses the quarantine marker, whose error replaces the unknown outcome.
LicenseCoversTree ==
    Runs => lock \in {"OURS", "QUARANTINED"} \/ at = "lost" \/ faults > 0

\* An unverified process tree is reported, journalled and quarantined as such,
\* unless a disk write failed (except HFSSProcessOutcomeUnknown, except Exception).
UnknownIsTold ==
    verdict = "UNKNOWN" /\ at = "done" /\ faults = 0 =>
        outcome = "UNKNOWN" /\ journal = "unknown" /\ lock = "QUARANTINED"

\* Frozen provider files are the last versions: nothing writes them any more.
FrozenIsFinal == \A f \in NativeFiles : frozen[f] > 0 => frozen[f] = version[f]

\* The receipt of the thread and the decision of the operator exclude one another,
\* however late either comes.
SettledOnce ==
    [][op \notin {"RUNNING", "UNKNOWN"} => op' = op]_op

\* Every job ends, with its operation settled or UNKNOWN.
JobEnds == <>(op # "RUNNING" /\ at \in {"done", "lost"})

=============================================================================
