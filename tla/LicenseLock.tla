---------------------------- MODULE LicenseLock ----------------------------
(***************************************************************************)
(* The file that serializes access to one HFSS license slot                *)
(* (harness/license_lock.py), its holders (the with-block of               *)
(* hfss/guarded_adapter.py) and the operator who archives a quarantine     *)
(* (harness/lock_reconciliation.py).  Every read, create, replace and      *)
(* unlink of the path is a step of its own: the file system orders them,   *)
(* nothing makes two of them atomic.  A process is one owner pid.          *)
(***************************************************************************)
EXTENDS Naturals

CONSTANTS Procs, Nobody,
          Mortal,    \* processes that may be lost
          Fallible   \* processes whose quarantine marker may fail to be written

ASSUME LockAssumption == /\ Nobody \notin Procs
                         /\ Mortal \subseteq Procs
                         /\ Fallible \subseteq Procs

VARIABLES
    path,      \* the lock file
    pc,        \* where each process is in acquire, the with-block and release
    saw,       \* what _reclaim_stale_lock read first
    residual,  \* processes whose AEDT tree was not verified empty
    operator,  \* where reconcile_quarantined_lock is
    incident,  \* the process whose quarantine it clears
    temporary, \* the incidents whose reconciliation left its temporary file
    archive    \* [Procs -> the archived marker of its quarantine]

lockVars     == <<path, pc, saw, residual>>
operatorVars == <<operator, incident, temporary, archive>>
lockAndOperator == <<lockVars, operatorVars>>

Marks == {"EMPTY", "ACTIVE", "QUARANTINED", "RECONCILED"}
Files == [by : Procs, mark : Marks] \cup {[by |-> Nobody, mark |-> "ABSENT"]}

File(p, m) == [by |-> p, mark |-> m]
Absent     == [by |-> Nobody, mark |-> "ABSENT"]

Phases == {"idle", "creating", "suspecting", "unlinking", "held", "uncertain",
           "quarantining", "exiting", "releasing", "dead"}

goTo(p, next) == pc' = [pc EXCEPT ![p] = next]

-----------------------------------------------------------------------------
(* acquire, with its reclamation of a lost owner's file.                   *)

\* Bug: the file is opened without O_EXCL.
CreateOver(p) ==
    /\ pc[p] = "idle" /\ p \notin residual
    /\ path' = File(p, "EMPTY")
    /\ goTo(p, "creating")
    /\ UNCHANGED <<saw, residual, operatorVars>>

Create(p) ==
    /\ pc[p] = "idle" /\ p \notin residual
    /\ path = Absent
    /\ path' = File(p, "EMPTY")
    /\ goTo(p, "creating")
    /\ UNCHANGED <<saw, residual, operatorVars>>

\* The payload goes to the file p created, wherever the path leads now.
WritePayload(p) ==
    /\ pc[p] = "creating"
    /\ path' = IF path = File(p, "EMPTY") THEN File(p, "ACTIVE") ELSE path
    /\ goTo(p, "held")
    /\ UNCHANGED <<saw, residual, operatorVars>>

\* Bug: the owner's pid is not probed.
SuspectAnyone(p) ==
    /\ pc[p] = "idle" /\ p \notin residual
    /\ path.mark \in {"ACTIVE", "RECONCILED"}
    /\ saw' = [saw EXCEPT ![p] = path]
    /\ goTo(p, "suspecting")
    /\ UNCHANGED <<path, residual, operatorVars>>

\* An unreadable file and a quarantine are never reclaimed.
Suspect(p) ==
    /\ pc[p] = "idle" /\ p \notin residual
    /\ path.mark \in {"ACTIVE", "RECONCILED"}
    /\ pc[path.by] = "dead"
    /\ saw' = [saw EXCEPT ![p] = path]
    /\ goTo(p, "suspecting")
    /\ UNCHANGED <<path, residual, operatorVars>>

\* Bug: the second read never compares equal.
ReadDiffers(p) ==
    /\ pc[p] = "suspecting"
    /\ goTo(p, "idle")
    /\ UNCHANGED <<path, saw, residual, operatorVars>>

ReadAgain(p) ==
    /\ pc[p] = "suspecting"
    /\ goTo(p, IF path = saw[p] THEN "unlinking" ELSE "idle")
    /\ UNCHANGED <<path, saw, residual, operatorVars>>

UnlinkStale(p) ==
    /\ pc[p] = "unlinking"
    /\ path' = Absent
    /\ goTo(p, "idle")
    /\ UNCHANGED <<saw, residual, operatorVars>>

-----------------------------------------------------------------------------
(* The with-block: work, quarantine, release.                              *)

WorkEnds(p) ==
    /\ pc[p] = "held"
    /\ goTo(p, "exiting")
    /\ UNCHANGED <<path, saw, residual, operatorVars>>

\* HFSSProcessOutcomeUnknown: descendants of the worker may still run.
WorkUncertain(p) ==
    /\ pc[p] = "held"
    /\ archive[p] = Absent
    /\ residual' = residual \cup {p}
    /\ goTo(p, "uncertain")
    /\ UNCHANGED <<path, saw, operatorVars>>

CheckToken(p) ==
    /\ pc[p] = "uncertain"
    /\ goTo(p, IF path.by = p THEN "quarantining" ELSE "exiting")
    /\ UNCHANGED <<path, saw, residual, operatorVars>>

\* Bug: the lock does not remember that it is quarantined.
QuarantineForgotten(p) ==
    /\ pc[p] = "quarantining"
    /\ path' = File(p, "QUARANTINED")
    /\ goTo(p, "exiting")
    /\ UNCHANGED <<saw, residual, operatorVars>>

Quarantine(p) ==
    /\ pc[p] = "quarantining"
    /\ path' = File(p, "QUARANTINED")
    /\ goTo(p, "idle")
    /\ UNCHANGED <<saw, residual, operatorVars>>

\* The temporary cannot be written or replaced: the with-block releases.
QuarantineFails(p) ==
    /\ pc[p] = "quarantining"
    /\ p \in Fallible
    /\ goTo(p, "exiting")
    /\ UNCHANGED <<path, saw, residual, operatorVars>>

ReleaseReads(p) ==
    /\ pc[p] = "exiting"
    /\ goTo(p, IF path.by = p THEN "releasing" ELSE "idle")
    /\ UNCHANGED <<path, saw, residual, operatorVars>>

ReleaseUnlinks(p) ==
    /\ pc[p] = "releasing"
    /\ path' = Absent
    /\ goTo(p, "idle")
    /\ UNCHANGED <<saw, residual, operatorVars>>

\* The process is lost; the kill-on-close Job takes its workers with it.
Crash(p) ==
    /\ p \in Mortal
    /\ pc[p] # "dead"
    /\ goTo(p, "dead")
    /\ UNCHANGED <<path, saw, residual, operatorVars>>

-----------------------------------------------------------------------------
(* reconcile_quarantined_lock.                                             *)

\* Accepted evidence attests that p's process tree is empty and names the
\* exact marker; a marker already RECONCILED for p resumes an earlier call.
Accept(p) ==
    /\ operator = "idle"
    /\ archive[p] = Absent
    /\ path \in {File(p, "QUARANTINED"), File(p, "RECONCILED")}
    /\ operator' = "accepted"
    /\ incident' = p
    /\ residual' = residual \ {p}
    /\ UNCHANGED <<path, pc, saw, temporary, archive>>

\* O_EXCL on a name derived from the reconciliation: a leftover refuses it.
Prepare ==
    /\ operator = "accepted"
    /\ operator' = IF incident \in temporary THEN "idle" ELSE "prepared"
    /\ temporary' = temporary \cup {incident}
    /\ UNCHANGED <<lockVars, incident, archive>>

MarkReconciled ==
    /\ operator = "prepared"
    /\ path' = File(incident, "RECONCILED")
    /\ temporary' = temporary \ {incident}
    /\ operator' = "marked"
    /\ UNCHANGED <<pc, saw, residual, incident, archive>>

\* Whatever the path leads to now is moved to the archive.
Archive ==
    /\ operator = "marked"
    /\ archive' = [archive EXCEPT ![incident] = path]
    /\ path' = Absent
    /\ operator' = "idle"
    /\ UNCHANGED <<pc, saw, residual, incident, temporary>>

OperatorInterrupted ==
    /\ operator # "idle"
    /\ operator' = "idle"
    /\ UNCHANGED <<lockVars, incident, temporary, archive>>

-----------------------------------------------------------------------------
Init ==
    /\ path = Absent
    /\ pc = [p \in Procs |-> "idle"]
    /\ saw = [p \in Procs |-> Absent]
    /\ residual = {}
    /\ operator = "idle"
    /\ incident = Nobody
    /\ temporary = {}
    /\ archive = [p \in Procs |-> Absent]

AcquireStep(p) == Create(p) \/ WritePayload(p)
ReclaimStep(p) == Suspect(p) \/ ReadAgain(p) \/ UnlinkStale(p)
HolderStep(p)  == \/ WorkEnds(p) \/ WorkUncertain(p)
                  \/ CheckToken(p) \/ Quarantine(p) \/ QuarantineFails(p)
                  \/ ReleaseReads(p) \/ ReleaseUnlinks(p)
OperatorStep   == \/ \E p \in Procs : Accept(p)
                  \/ Prepare \/ MarkReconciled \/ Archive \/ OperatorInterrupted

Next ==
    \/ \E p \in Procs : AcquireStep(p) \/ ReclaimStep(p) \/ HolderStep(p) \/ Crash(p)
    \/ OperatorStep

Spec == Init /\ [][Next]_lockAndOperator

\* A live process polls for the lock until it has it or its timeout passes,
\* works for a bounded time and leaves; nothing is assumed of the operator.
LockFairness ==
    \A p \in Procs : /\ WF_lockAndOperator(ReclaimStep(p))
                     /\ WF_lockAndOperator(AcquireStep(p))
                     /\ WF_lockAndOperator(HolderStep(p))

LiveSpec == Spec /\ LockFairness

-----------------------------------------------------------------------------
(* Properties.                                                             *)

LockTypeOK ==
    /\ path \in Files
    /\ pc \in [Procs -> Phases]
    /\ saw \in [Procs -> Files]
    /\ residual \subseteq Procs
    /\ operator \in {"idle", "accepted", "prepared", "marked"}
    /\ incident \in Procs \cup {Nobody}
    /\ operator # "idle" => incident \in Procs
    /\ temporary \subseteq Procs
    /\ archive \in [Procs -> Files]

NoLoss == \A p \in Procs : pc[p] # "dead"

\* Who may be where, given what the path leads to, before any process is lost.
\* Nobody suspects a live owner, so only the holder and the operator touch an
\* existing file.
Undisturbed ==
    /\ \A p \in Procs : pc[p] \notin {"dead", "suspecting", "unlinking"}
    /\ \A p \in Procs : pc[p] = "creating" => path = File(p, "EMPTY")
    /\ \A p \in Procs : pc[p] \in {"held", "uncertain", "quarantining", "exiting",
                                   "releasing"} => path = File(p, "ACTIVE")
    /\ \A p \in residual \ Fallible :
          \/ pc[p] \in {"uncertain", "quarantining"}
          \/ pc[p] = "idle" /\ path = File(p, "QUARANTINED")
    /\ operator \in {"accepted", "prepared"} =>
          /\ incident \in Procs \ residual
          /\ path \in {File(incident, "QUARANTINED"), File(incident, "RECONCILED")}
    /\ operator = "marked" => path = File(incident, "RECONCILED")

LockInv == LockTypeOK /\ (NoLoss => Undisturbed)

\* p is in its with-block; or descendants of its worker may still run.
Works(p)       == pc[p] \in {"held", "uncertain", "quarantining"}
UsesLicense(p) == Works(p) \/ p \in residual \ Fallible

\* As long as no process is lost AEDT is used by one process at a time, counting
\* those whose worker tree nobody has verified to be gone (but not one whose
\* quarantine marker can fail to be written), across the operator's interrupted
\* and repeated calls (FileLicenseLock, reconcile_quarantined_lock).
LicenseSerialized ==
    NoLoss => \A p, q \in Procs : UsesLicense(p) /\ UsesLicense(q) => p = q

\* docs/DECISIONS.md:48 says "a per-AEDT-version atomic file lock surrounds
\* build/solve/extract for one candidate": never two with-blocks at a time.
OneHolder == \A p, q \in Procs : Works(p) /\ Works(q) => p = q

\* As long as no process is lost a quarantine marker gives way only to the
\* operator's RECONCILED marker.
QuarantineIsKept ==
    [][NoLoss /\ path.mark = "QUARANTINED" => path' \in {path, File(path.by, "RECONCILED")}
      ]_lockAndOperator

\* An ACTIVE file whose owner is lost does not block the slot for ever.
StaleLockIsReclaimed ==
    \A p \in Procs : path = File(p, "ACTIVE") /\ pc[p] = "dead"
        ~> path # File(p, "ACTIVE") \/ \A q \in Procs : pc[q] = "dead" \/ q \in residual

=============================================================================
