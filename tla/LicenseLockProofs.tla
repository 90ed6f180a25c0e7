------------------------- MODULE LicenseLockProofs -------------------------
(* What the lock file guarantees as long as no process is lost.            *)
EXTENDS LicenseLock, TLAPS

\* The inductive invariant holds initially and is kept by every step.
LEMMA LockInduction ==
  /\ Init => LockInv
  /\ LockInv /\ [Next]_lockAndOperator => LockInv'
<1> USE DEF LockInv, LockTypeOK, NoLoss, Undisturbed, Files, File, Absent, Marks, Phases, goTo,
            lockVars, operatorVars
<1>1. Init => LockInv
  BY DEF Init
<1>2. ASSUME LockInv, [Next]_lockAndOperator PROVE LockInv'
  <2> USE <1>2, LockAssumption DEF LockAssumption
  <2>1. ASSUME NEW p \in Procs, Create(p) PROVE LockInv'
    BY <2>1 DEF Create
  <2>2. ASSUME NEW p \in Procs, WritePayload(p) PROVE LockInv'
    BY <2>2 DEF WritePayload
  <2>3. ASSUME NEW p \in Procs, ReclaimStep(p) PROVE LockInv'
    BY <2>3 DEF ReclaimStep, Suspect, ReadAgain, UnlinkStale
  <2>4. ASSUME NEW p \in Procs, WorkEnds(p) PROVE LockInv'
    BY <2>4 DEF WorkEnds
  <2>5. ASSUME NEW p \in Procs, WorkUncertain(p) PROVE LockInv'
    BY <2>5 DEF WorkUncertain
  <2>6. ASSUME NEW p \in Procs, CheckToken(p) PROVE LockInv'
    BY <2>6 DEF CheckToken
  <2>7. ASSUME NEW p \in Procs, Quarantine(p) PROVE LockInv'
    BY <2>7 DEF Quarantine
  <2>8. ASSUME NEW p \in Procs, ReleaseReads(p) PROVE LockInv'
    BY <2>8 DEF ReleaseReads
  <2>9. ASSUME NEW p \in Procs, ReleaseUnlinks(p) PROVE LockInv'
    BY <2>9 DEF ReleaseUnlinks
  <2>10. ASSUME NEW p \in Procs, QuarantineFails(p) \/ Crash(p) PROVE LockInv'
    BY <2>10 DEF QuarantineFails, Crash
  <2>11. ASSUME NEW p \in Procs, Accept(p) PROVE LockInv'
    BY <2>11 DEF Accept
  <2>12. ASSUME Prepare PROVE LockInv'
    BY <2>12 DEF Prepare
  <2>13. ASSUME MarkReconciled PROVE LockInv'
    <3>1. LockTypeOK'
      BY <2>13 DEF MarkReconciled
    <3>2. ASSUME NoLoss PROVE Undisturbed'
      <4>1. /\ path.mark \in {"QUARANTINED", "RECONCILED"}
            /\ incident \in Procs \ residual
            /\ path.by = incident
        BY <2>13, <3>2 DEF MarkReconciled
      <4>2. \A p \in Procs : pc[p] = "idle"
        BY <3>2, <4>1
      <4>3. residual \subseteq Fallible
        BY <3>2, <4>1, <4>2
      <4>4. QED
        BY <2>13, <3>2, <4>1, <4>2, <4>3 DEF MarkReconciled
    <3>3. QED
      BY <2>13, <3>1, <3>2 DEF MarkReconciled
  <2>14. ASSUME Archive PROVE LockInv'
    BY <2>14 DEF Archive
  <2>15. ASSUME OperatorInterrupted PROVE LockInv'
    BY <2>15 DEF OperatorInterrupted
  <2>16. ASSUME UNCHANGED lockAndOperator PROVE LockInv'
    BY <2>16 DEF lockAndOperator
  <2>17. QED
    BY <2>1, <2>2, <2>3, <2>4, <2>5, <2>6, <2>7, <2>8, <2>9, <2>10, <2>11, <2>12,
       <2>13, <2>14, <2>15, <2>16
    DEF Next, AcquireStep, HolderStep, OperatorStep
<1>3. QED
  BY <1>1, <1>2

\* Until a process is lost the path tells who may be where: in its with-block,
\* polling, or reconciling (FileLicenseLock.acquire, release).
THEOREM LockTheorem == Spec => []LockInv
  BY LockInduction, PTL DEF Spec

\* Until a process is lost the license is used by one process at a time, however many contend and however the operator is interrupted.
THEOREM LicenseTheorem == Spec => []LicenseSerialized
<1>1. LockInv => LicenseSerialized
  BY DEF LockInv, LockTypeOK, NoLoss, Undisturbed, LicenseSerialized, UsesLicense, Works, File
<1>2. QED
  BY <1>1, LockInduction, PTL DEF Spec

\* Until a process is lost a quarantine is cleared by no one but the operator.
THEOREM QuarantineTheorem == Spec => QuarantineIsKept
<1>1. LockInv /\ [Next]_lockAndOperator =>
        [NoLoss /\ path.mark = "QUARANTINED" => path' \in {path, File(path.by, "RECONCILED")}
        ]_lockAndOperator
  <2> SUFFICES ASSUME LockInv, NoLoss, Next, path.mark = "QUARANTINED"
               PROVE  path' \in {path, File(path.by, "RECONCILED")}
    OBVIOUS
  <2> USE DEF LockInv, LockTypeOK, NoLoss, Undisturbed, File, Files, Absent, goTo, lockVars,
              operatorVars
  <2>1. ASSUME NEW p \in Procs, AcquireStep(p) PROVE path' = path
    BY <2>1 DEF AcquireStep, Create, WritePayload
  <2>2. ASSUME NEW p \in Procs, ReclaimStep(p) \/ Crash(p) PROVE path' = path
    BY <2>2 DEF ReclaimStep, Suspect, ReadAgain, UnlinkStale, Crash
  <2>3. ASSUME NEW p \in Procs, HolderStep(p) PROVE path' = path
    BY <2>3 DEF HolderStep, WorkEnds, WorkUncertain, CheckToken, Quarantine,
                QuarantineFails, ReleaseReads, ReleaseUnlinks
  <2>4. ASSUME OperatorStep PROVE path' \in {path, File(path.by, "RECONCILED")}
    BY <2>4 DEF OperatorStep, Accept, Prepare, MarkReconciled, Archive,
                OperatorInterrupted
  <2>5. QED
    BY <2>1, <2>2, <2>3, <2>4 DEF Next
<1>2. QED
  BY <1>1, LockInduction, PTL DEF Spec, QuarantineIsKept

=============================================================================
