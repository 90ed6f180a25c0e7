--------------------------- MODULE RunStoreProofs ---------------------------
(* Proofs about RunStore, for every set of owners, requests, grants, results *)
(* and states, every cost, budget and launch ceiling.                        *)
EXTENDS RunStoreRefinement, FiniteSetTheorems, SequenceTheorems, TLAPS

-----------------------------------------------------------------------------
(* The control invariant.                                                    *)

\* Init establishes the control invariant.
LEMMA InitControlInv == Init => ControlInv
<1> SUFFICES ASSUME Init PROVE ControlInv
  OBVIOUS
<1>1. TypeOK
  <2>1. checkpoints \in Seq(States)
    BY EmptySeq DEF Init
  <2>2. QED
    BY <2>1 DEF Init, TypeOK, RunStatuses, OpStatuses, Resolutions
<1>2. LedgerShape /\ RunShape
  BY DEF Init, LedgerShape, RunShape
<1>3. UnknownHoldsRun /\ CompletedIsSettled
  BY DEF Init, UnknownHoldsRun, CompletedIsSettled
<1>4. VerdictHasOneSource /\ ReceiptMatchesVerdict
  BY DEF Init, VerdictHasOneSource, ReceiptMatchesVerdict
<1>5. QED
  BY <1>1, <1>2, <1>3, <1>4 DEF ControlInv

\* Steps that leave the operation ledger alone.
LEMMA RunStepControlInv ==
  ASSUME ControlInv,
         \/ RegistrationStep
         \/ \E h \in Owners : InvocationStep(h)
         \/ MarkWaitingReconciliation
         \/ \E e \in EventIds, p \in Payloads : AppendEvent(e, p)
         \/ RunLeaseLapses
         \/ \E g \in Grants : GrantLapses(g)
  PROVE  ControlInv'
<1> USE RunStoreAssumption
    DEF ControlInv, TypeOK, LedgerShape, RunShape, UnknownHoldsRun,
        CompletedIsSettled, VerdictHasOneSource, ReceiptMatchesVerdict,
        RunStatuses, OpStatuses, Resolutions, Unresolved, opVars
<1>1. ASSUME NEW G \in SUBSET Grants, RegisterRun(G) PROVE ControlInv'
  BY <1>1 DEF RegisterRun
<1>2. ASSUME NEW g \in Grants, RevokeApproval(g) PROVE ControlInv'
  BY <1>2 DEF RevokeApproval, runVars
<1>3. ASSUME NEW h \in Owners, ClaimRunInvocation(h) PROVE ControlInv'
  BY <1>3 DEF ClaimRunInvocation, grantVars
<1>4. ASSUME NEW h \in Owners, NEW f \in Fences, HeartbeatRunInvocation(h, f)
      PROVE ControlInv'
  BY <1>4 DEF HeartbeatRunInvocation, grantVars
<1>5. ASSUME NEW h \in Owners, NEW f \in Fences, ReleaseRunInvocation(h, f)
      PROVE ControlInv'
  BY <1>5 DEF ReleaseRunInvocation, grantVars
<1>6. ASSUME MarkWaitingReconciliation PROVE ControlInv'
  BY <1>6 DEF MarkWaitingReconciliation, LeaveActive, grantVars
<1>7. ASSUME NEW e \in EventIds, NEW p \in Payloads, AppendEvent(e, p)
      PROVE ControlInv'
  BY <1>7 DEF AppendEvent, runVars, grantVars
<1>8. ASSUME RunLeaseLapses PROVE ControlInv'
  BY <1>8 DEF RunLeaseLapses, grantVars
<1>9. ASSUME NEW g \in Grants, GrantLapses(g) PROVE ControlInv'
  BY <1>9 DEF GrantLapses, runVars
<1>10. QED
  BY <1>1, <1>2, <1>3, <1>4, <1>5, <1>6, <1>7, <1>8, <1>9
  DEF RegistrationStep, InvocationStep
\* Steps of one operation: admission, end of the attempt, adjudication.
LEMMA OperationStepControlInv ==
  ASSUME ControlInv, NEW r \in Requests, OperationStep(r)
  PROVE  ControlInv'
<1> USE RunStoreAssumption
    DEF RunStoreAssumption, ControlInv, TypeOK, LedgerShape, RunShape,
        UnknownHoldsRun, CompletedIsSettled, VerdictHasOneSource,
        ReceiptMatchesVerdict, RunStatuses, OpStatuses, Resolutions, Unresolved
<1>1. ASSUME NEW h \in Owners, NEW f \in Fences, AcquireOperation(r, h, f)
      PROVE ControlInv'
  <2>1. status[r] = "NONE"
    BY <1>1 DEF AcquireOperation, Matching, Admitted
  <2>2. QED
    BY <1>1, <2>1 DEF AcquireOperation, runVars, grantVars
<1>2. ASSUME NEW h \in Owners, NEW v \in Results, CompleteOperation(r, h, v)
      PROVE ControlInv'
  <2>1. v # NoResult
    OBVIOUS
  <2>2. QED
    BY <1>2, <2>1 DEF CompleteOperation, EndAttempt, runVars, grantVars
<1>3. ASSUME NEW h \in Owners, NEW ambiguous \in BOOLEAN,
             FailOperation(r, h, ambiguous)
      PROVE ControlInv'
  <2>1. CASE ambiguous
    <3>1. EndAttempt(r, h, "UNKNOWN") /\ UNCHANGED result
      BY <1>3, <2>1 DEF FailOperation
    <3>2. runStatus \in {"ACTIVE", "WAITING_RECONCILIATION"}
      BY <3>1 DEF EndAttempt
    <3>3. \/ runStatus = "ACTIVE" /\ LeaveActive("WAITING_RECONCILIATION")
          \/ runStatus = "WAITING_RECONCILIATION" /\ UNCHANGED runVars
      BY <1>3, <2>1, <3>2 DEF FailOperation
    <3>4. /\ runStatus' = "WAITING_RECONCILIATION"
          /\ owner' = NoOwner /\ leaseLive' = FALSE /\ fence' = fence
      BY <3>3 DEF LeaveActive, runVars
    <3>5. TypeOK'
      BY <3>1, <3>4 DEF EndAttempt, grantVars
    <3>6. LedgerShape' /\ RunShape'
      BY <3>1, <3>4 DEF EndAttempt, grantVars
    <3>7. UnknownHoldsRun' /\ CompletedIsSettled'
      BY <3>4
    <3>8. VerdictHasOneSource' /\ ReceiptMatchesVerdict'
      BY <3>1 DEF EndAttempt
    <3>9. QED
      BY <3>5, <3>6, <3>7, <3>8
  <2>2. CASE ~ambiguous
    BY <1>3, <2>2 DEF FailOperation, EndAttempt, runVars, grantVars
  <2>3. QED
    BY <2>1, <2>2
<1>4. ASSUME NEW h \in Owners, HeartbeatOperation(r, h) PROVE ControlInv'
  BY <1>4 DEF HeartbeatOperation, runVars, grantVars
<1>5. ASSUME NEW g \in ReconcileGrants, NEW v \in Results \cup {NoResult},
             ReconcileOperation(r, g, v)
      PROVE ControlInv'
  BY <1>5 DEF ReconcileOperation, grantVars
<1>6. QED
  BY <1>1, <1>2, <1>3, <1>4, <1>5 DEF OperationStep

\* Steps that expire leases or append to the checkpoint history.
LEMMA HistoryStepControlInv ==
  ASSUME ControlInv,
         \/ ExpireStaleOperations
         \/ \E r \in Requests : OperationLeaseLapses(r)
         \/ \E h \in Owners, f \in Fences, s \in States :
               \/ SaveCheckpoint(h, f, Len(checkpoints), s)
               \/ CompleteRun(h, f, Len(checkpoints), s)
  PROVE  ControlInv'
<1> USE RunStoreAssumption
    DEF ControlInv, TypeOK, LedgerShape, RunShape, UnknownHoldsRun,
        CompletedIsSettled, VerdictHasOneSource, ReceiptMatchesVerdict,
        RunStatuses, OpStatuses, Resolutions, Unresolved
<1>1. ASSUME ExpireStaleOperations PROVE ControlInv'
  <2>1. CASE runStatus = "ACTIVE"
    BY <1>1, <2>1 DEF ExpireStaleOperations, Stale, LeaveActive, grantVars
  <2>2. CASE runStatus # "ACTIVE"
    BY <1>1, <2>2 DEF ExpireStaleOperations, Stale, runVars, grantVars
  <2>3. QED
    BY <2>1, <2>2
<1>2. ASSUME NEW r \in Requests, OperationLeaseLapses(r) PROVE ControlInv'
  BY <1>2 DEF OperationLeaseLapses, runVars, grantVars
<1>3. ASSUME NEW h \in Owners, NEW f \in Fences, NEW s \in States,
             SaveCheckpoint(h, f, Len(checkpoints), s)
      PROVE ControlInv'
  BY <1>3 DEF SaveCheckpoint, runVars, grantVars, opVars
<1>4. ASSUME NEW h \in Owners, NEW f \in Fences, NEW s \in States,
             CompleteRun(h, f, Len(checkpoints), s)
      PROVE ControlInv'
  <2>1. checkpoints' \in Seq(States) /\ checkpoints' # << >>
    <3>1. CASE IsLatest(s)
      BY <1>4, <3>1 DEF CompleteRun, IsLatest
    <3>2. CASE ~IsLatest(s)
      BY <1>4, <3>2, AppendProperties DEF CompleteRun
    <3>3. QED
      BY <3>1, <3>2
  <2>2. QED
    BY <1>4, <2>1 DEF CompleteRun, LeaveActive, grantVars, opVars
<1>5. QED
  BY <1>1, <1>2, <1>3, <1>4

\* The control invariant is kept by every step.
LEMMA ControlStep == ControlInv /\ [Next]_vars => ControlInv'
<1> SUFFICES ASSUME ControlInv, [Next]_vars PROVE ControlInv'
  OBVIOUS
<1>1. CASE Next
  BY <1>1, RunStepControlInv, OperationStepControlInv, HistoryStepControlInv
  DEF Next, LifecycleStep, TimeStep
<1>2. CASE UNCHANGED vars
  BY <1>2 DEF vars, runVars, grantVars, opVars, ControlInv, TypeOK, LedgerShape,
              RunShape, UnknownHoldsRun, CompletedIsSettled, Unresolved,
              VerdictHasOneSource, ReceiptMatchesVerdict
<1>3. QED
  BY <1>1, <1>2

\* The control invariant, and with it type correctness, holds of every
\* behaviour of the store, whatever its callers do.
THEOREM ControlInvariant == Spec => []ControlInv
  BY InitControlInv, ControlStep, PTL DEF Spec

\* As long as an outcome is unknown the Run is held, whichever of several lost
\* outcomes is reconciled first (reconcile_operation, expire_stale_operations).
THEOREM UnknownTheorem == Spec => []UnknownHoldsRun
  BY ControlInvariant, PTL DEF ControlInv

\* No interleaving completes a Run with an operation still open
\* (save_checkpoint).
THEOREM CompletedTheorem == Spec => []CompletedIsSettled
  BY ControlInvariant, PTL DEF ControlInv

\* A verdict comes from its executor or from the operator, never from both,
\* however late the one answers (complete_operation, reconcile_operation).
THEOREM SourceTheorem == Spec => []VerdictHasOneSource
  BY ControlInvariant, PTL DEF ControlInv

\* There is a receipt exactly for what succeeded (complete_operation).
THEOREM ReceiptVerdictTheorem == Spec => []ReceiptMatchesVerdict
  BY ControlInvariant, PTL DEF ControlInv

-----------------------------------------------------------------------------
(* Budget, launches and identity: what an admission may add.                 *)

\* A row, once admitted, stays; only an admission adds one.
LEMMA AdmissionStep ==
  ASSUME ControlInv, [Next]_vars
  PROVE  \/ Admitted' = Admitted
         \/ \E r \in Requests, h \in Owners, f \in Fences :
              AcquireOperation(r, h, f) /\ Admitted' = Admitted \cup {r}
<1> USE DEF Admitted, ControlInv, TypeOK, OpStatuses
<1>1. ASSUME NEW r \in Requests, NEW h \in Owners, NEW f \in Fences,
             AcquireOperation(r, h, f)
      PROVE  Admitted' = Admitted \cup {r}
  BY <1>1 DEF AcquireOperation
<1>2. ASSUME NEW r \in Requests, NEW h \in Owners, NEW s, s # "NONE",
             EndAttempt(r, h, s)
      PROVE  Admitted' = Admitted
  BY <1>2 DEF EndAttempt
<1>3. ASSUME NEW r \in Requests, NEW g, NEW v, ReconcileOperation(r, g, v)
      PROVE  Admitted' = Admitted
  BY <1>3 DEF ReconcileOperation
<1>4. ASSUME ExpireStaleOperations PROVE Admitted' = Admitted
  BY <1>4 DEF ExpireStaleOperations, Stale
<1>5. ASSUME UNCHANGED status PROVE Admitted' = Admitted
  BY <1>5
<1>6. ASSUME NEW r \in Requests, OperationStep(r)
      PROVE  \/ Admitted' = Admitted
             \/ \E h \in Owners, f \in Fences :
                  AcquireOperation(r, h, f) /\ Admitted' = Admitted \cup {r}
  BY <1>1, <1>2, <1>3, <1>5, <1>6
  DEF OperationStep, CompleteOperation, FailOperation, HeartbeatOperation
<1>7. ASSUME RegistrationStep \/ \E h \in Owners : InvocationStep(h)
      PROVE  UNCHANGED status
  BY <1>7 DEF RegistrationStep, InvocationStep, RegisterRun, RevokeApproval,
              ClaimRunInvocation, HeartbeatRunInvocation, ReleaseRunInvocation, opVars
<1>8. ASSUME LifecycleStep PROVE ExpireStaleOperations \/ UNCHANGED status
  BY <1>8 DEF LifecycleStep, SaveCheckpoint, CompleteRun, MarkWaitingReconciliation,
              AppendEvent, opVars
<1>9. ASSUME TimeStep PROVE UNCHANGED status
  BY <1>9 DEF TimeStep, RunLeaseLapses, OperationLeaseLapses, GrantLapses, opVars
<1>10. CASE UNCHANGED vars
  BY <1>5, <1>10 DEF vars, opVars
<1>11. QED
  BY <1>4, <1>5, <1>6, <1>7, <1>8, <1>9, <1>10 DEF Next

\* The reservations that count are exactly those of the admitted rows.
LEMMA SpentUnitsOfAdmitted ==
  ControlInv => SpentUnits = UNION {UnitsOf(r) : r \in Admitted}
  BY DEF ControlInv, LedgerShape, SpentUnits, Admitted

\* A reservation holds exactly the authoritative cost of its operation.
LEMMA UnitsCardinality ==
  ASSUME NEW r \in Requests
  PROVE  IsFiniteSet(UnitsOf(r)) /\ Cardinality(UnitsOf(r)) = Cost[r]
<1> DEFINE n == Cost[r]
           f == [k \in 1..n |-> <<r, k>>]
<1>1. n \in Nat
  BY RunStoreAssumption DEF RunStoreAssumption
<1>2. IsFiniteSet(1..n) /\ Cardinality(1..n) = n
  BY <1>1, FS_Interval
<1>3. f \in Bijection(1..n, UnitsOf(r))
  BY DEF UnitsOf, Bijection, Injection, Surjection, IsInjective
<1>4. QED
  BY <1>2, <1>3, FS_Bijection DEF ExistsBijection

\* The units are countable, and the inductive form of BudgetRespected.
BudgetInv == IsFiniteSet(SpentUnits) /\ BudgetRespected

\* Every step keeps the reserved units finite and within the limit.
LEMMA BudgetStep == ControlInv /\ ControlInv' /\ BudgetInv /\ [Next]_vars => BudgetInv'
<1> SUFFICES ASSUME ControlInv, ControlInv', BudgetInv, [Next]_vars PROVE BudgetInv'
  OBVIOUS
<1>1. SpentUnits = UNION {UnitsOf(r) : r \in Admitted}
  BY SpentUnitsOfAdmitted
<1>2. SpentUnits' = UNION {UnitsOf(r) : r \in Admitted'}
  BY DEF ControlInv, LedgerShape, SpentUnits, Admitted, UnitsOf
<1>3. CASE Admitted' = Admitted
  BY <1>1, <1>2, <1>3 DEF BudgetInv, BudgetRespected
<1>4. ASSUME NEW r \in Requests, NEW h \in Owners, NEW f \in Fences,
             AcquireOperation(r, h, f), Admitted' = Admitted \cup {r}
      PROVE  BudgetInv'
  <2>1. SpentUnits' = SpentUnits \cup UnitsOf(r)
    BY <1>1, <1>2, <1>4
  <2>2. IsFiniteSet(UnitsOf(r)) /\ Cardinality(UnitsOf(r)) = Cost[r]
    BY UnitsCardinality
  <2>3. IsFiniteSet(SpentUnits \cap UnitsOf(r))
    BY FS_Intersection DEF BudgetInv
  <2>4. /\ IsFiniteSet(SpentUnits')
        /\ Cardinality(SpentUnits') = Cardinality(SpentUnits) + Cost[r]
                                       - Cardinality(SpentUnits \cap UnitsOf(r))
    BY <2>1, <2>2, FS_Union DEF BudgetInv
  <2>5. /\ Cardinality(SpentUnits) \in Nat
        /\ Cardinality(SpentUnits \cap UnitsOf(r)) \in Nat
    BY <2>3, FS_CardinalityType DEF BudgetInv
  <2>6. Cardinality(SpentUnits) + Cost[r] <= BudgetLimit
    BY <1>4 DEF AcquireOperation, FitsBudget
  <2>7. QED
    BY <2>4, <2>5, <2>6, RunStoreAssumption
    DEF RunStoreAssumption, BudgetInv, BudgetRespected
<1>5. QED
  BY <1>3, <1>4, AdmissionStep

\* The budget holds for every cost table and every interleaving.
THEOREM BudgetTheorem == Spec => []BudgetRespected
<1>1. Init => BudgetInv
  <2> SUFFICES ASSUME Init PROVE BudgetInv
    OBVIOUS
  <2>1. SpentUnits = {}
    BY DEF Init, SpentUnits
  <2>2. QED
    BY <2>1, FS_EmptySet, RunStoreAssumption
    DEF BudgetInv, BudgetRespected, RunStoreAssumption
<1>2. BudgetInv => BudgetRespected
  BY DEF BudgetInv
<1>3. QED
  BY <1>1, <1>2, BudgetStep, ControlInvariant, PTL DEF Spec

\* The launch ceiling of the execution policy holds in every interleaving.
THEOREM LaunchTheorem == Spec => []LaunchCeiling
<1>1. Init => LaunchCeiling
  <2> SUFFICES ASSUME Init PROVE LaunchCeiling
    OBVIOUS
  <2>1. Launched = {}
    BY DEF Init, Launched, Admitted
  <2>2. QED
    BY <2>1, FS_EmptySet, RunStoreAssumption DEF LaunchCeiling, RunStoreAssumption
<1>2. ControlInv /\ LaunchCeiling /\ [Next]_vars => LaunchCeiling'
  <2> SUFFICES ASSUME ControlInv, LaunchCeiling, [Next]_vars PROVE LaunchCeiling'
    OBVIOUS
  <2>1. CASE Admitted' = Admitted
    BY <2>1 DEF LaunchCeiling, Launched
  <2>2. ASSUME NEW r \in Requests, NEW h \in Owners, NEW f \in Fences,
               AcquireOperation(r, h, f), Admitted' = Admitted \cup {r}
        PROVE  LaunchCeiling'
    <3>1. CASE r \notin Physical
      <4>1. Launched' = Launched
        BY <2>2, <3>1 DEF Launched
      <4>2. QED
        BY <4>1 DEF LaunchCeiling
    <3>2. CASE r \in Physical
      <4>1. Launched' = Launched \cup {r}
        BY <2>2, <3>2 DEF Launched
      <4>2. IsFiniteSet(Launched)
        BY FS_Subset, RunStoreAssumption DEF Launched, Admitted, RunStoreAssumption
      <4>3. Cardinality(Launched) \in Nat
        BY <4>2, FS_CardinalityType
      <4>4. Cardinality(Launched') <= Cardinality(Launched) + 1
        <5>1. Cardinality(Launched \cup {r}) =
                IF r \in Launched THEN Cardinality(Launched) ELSE Cardinality(Launched) + 1
          BY <4>2, FS_AddElement
        <5>2. QED
          BY <4>1, <4>3, <5>1
      <4>5. Cardinality(Launched) < MaxLaunches
        BY <2>2, <3>2 DEF AcquireOperation, LaunchAllowed
      <4>6. IsFiniteSet(Launched')
        BY <4>1, <4>2, FS_AddElement
      <4>7. Cardinality(Launched') \in Nat
        BY <4>6, FS_CardinalityType
      <4>8. QED
        BY <4>3, <4>4, <4>5, <4>7, RunStoreAssumption
        DEF LaunchCeiling, RunStoreAssumption
    <3>3. QED
      BY <3>1, <3>2
  <2>3. QED
    BY <2>1, <2>2, AdmissionStep
<1>3. QED
  BY <1>1, <1>2, ControlInvariant, PTL DEF Spec

\* Two requests for one action are never both admitted.
THEOREM IdentityTheorem == Spec => []OneOperationPerAction
<1>1. Init => OneOperationPerAction
  BY DEF Init, OneOperationPerAction, Admitted
<1>2. ControlInv /\ OneOperationPerAction /\ [Next]_vars => OneOperationPerAction'
  <2> SUFFICES ASSUME ControlInv, OneOperationPerAction, [Next]_vars
               PROVE  OneOperationPerAction'
    OBVIOUS
  <2>1. CASE Admitted' = Admitted
    BY <2>1 DEF OneOperationPerAction
  <2>2. ASSUME NEW r \in Requests, NEW h \in Owners, NEW f \in Fences,
               AcquireOperation(r, h, f), Admitted' = Admitted \cup {r}
        PROVE  OneOperationPerAction'
    <3>1. \A q \in Admitted : IdemKey[q] # IdemKey[r] /\ SemKey[q] # SemKey[r]
      BY <2>2 DEF AcquireOperation, Matching
    <3>2. QED
      BY <2>2, <3>1 DEF OneOperationPerAction
  <2>3. QED
    BY <2>1, <2>2, AdmissionStep
<1>3. QED
  BY <1>1, <1>2, ControlInvariant, PTL DEF Spec

\* No outcome of an action returns its units.
THEOREM NoRefundTheorem == Spec => NoRefund
<1>1. ControlInv /\ ControlInv' /\ [Next]_vars => SpentUnits \subseteq SpentUnits'
  <2> SUFFICES ASSUME ControlInv, ControlInv', [Next]_vars
               PROVE  SpentUnits \subseteq SpentUnits'
    OBVIOUS
  <2>1. SpentUnits = UNION {UnitsOf(r) : r \in Admitted}
    BY SpentUnitsOfAdmitted
  <2>2. SpentUnits' = UNION {UnitsOf(r) : r \in Admitted'}
    BY DEF ControlInv, LedgerShape, SpentUnits, Admitted, UnitsOf
  <2>3. Admitted \subseteq Admitted'
    BY AdmissionStep
  <2>4. QED
    BY <2>1, <2>2, <2>3
<1>2. QED
  BY <1>1, ControlInvariant, PTL DEF Spec, NoRefund

-----------------------------------------------------------------------------
(* What a step may never do.                                                 *)

\* No step touches the row of a settled operation.
LEMMA SettledStep ==
  ControlInv /\ [Next]_vars =>
    \A r \in Requests : status[r] \in {"SUCCEEDED", "FAILED"} =>
      status'[r] = status[r] /\ result'[r] = result[r] /\ recon'[r] = recon[r]
<1> DEFINE Kept(r) == /\ status'[r] = status[r]
                      /\ result'[r] = result[r]
                      /\ recon'[r] = recon[r]
           Keeps == \A r \in Requests : status[r] \in {"SUCCEEDED", "FAILED"} => Kept(r)
<1>1. ControlInv /\ [Next]_vars => Keeps
  <2> SUFFICES ASSUME ControlInv, [Next]_vars PROVE Keeps
    OBVIOUS
  <2> USE DEF ControlInv, TypeOK
  <2>1. ASSUME UNCHANGED <<status, result, recon>> PROVE Keeps
    BY <2>1
  <2>2. ASSUME NEW r \in Requests, OperationStep(r) PROVE Keeps
    <3>1. ASSUME NEW h \in Owners, NEW f \in Fences, AcquireOperation(r, h, f)
          PROVE  Keeps
      BY <3>1 DEF AcquireOperation, Matching, Admitted
    <3>2. ASSUME NEW h \in Owners, NEW v \in Results, CompleteOperation(r, h, v)
          PROVE  Keeps
      BY <3>2 DEF CompleteOperation, EndAttempt
    <3>3. ASSUME NEW h \in Owners, NEW b \in BOOLEAN, FailOperation(r, h, b)
          PROVE  Keeps
      BY <3>3 DEF FailOperation, EndAttempt
    <3>4. ASSUME NEW g \in ReconcileGrants, NEW v \in Results \cup {NoResult},
                 ReconcileOperation(r, g, v)
          PROVE  Keeps
      BY <3>4 DEF ReconcileOperation
    <3>5. ASSUME NEW h \in Owners, HeartbeatOperation(r, h) PROVE Keeps
      BY <2>1, <3>5 DEF HeartbeatOperation
    <3>6. QED
      BY <2>2, <3>1, <3>2, <3>3, <3>4, <3>5 DEF OperationStep
  <2>3. ASSUME ExpireStaleOperations PROVE Keeps
    BY <2>3 DEF ExpireStaleOperations, Stale
  <2>4. ASSUME RegistrationStep \/ \E h \in Owners : InvocationStep(h)
        PROVE  UNCHANGED <<status, result, recon>>
    BY <2>4 DEF RegistrationStep, InvocationStep, RegisterRun, RevokeApproval, opVars,
                ClaimRunInvocation, HeartbeatRunInvocation, ReleaseRunInvocation
  <2>5. ASSUME LifecycleStep
        PROVE  ExpireStaleOperations \/ UNCHANGED <<status, result, recon>>
    BY <2>5 DEF LifecycleStep, SaveCheckpoint, CompleteRun, opVars,
                MarkWaitingReconciliation, AppendEvent
  <2>6. ASSUME TimeStep PROVE UNCHANGED <<status, result, recon>>
    BY <2>6 DEF TimeStep, RunLeaseLapses, OperationLeaseLapses, GrantLapses, opVars
  <2>7. CASE UNCHANGED vars
    BY <2>1, <2>7 DEF vars, opVars
  <2>8. QED
    BY <2>1, <2>2, <2>3, <2>4, <2>5, <2>6, <2>7 DEF Next
<1>2. QED
  BY <1>1 DEF Keeps, Kept

\* A settled operation is never rewritten by a late or second decision.
THEOREM SettledTheorem == Spec => SettledIsFinal
<1> DEFINE Keeps == \A r \in Requests : status[r] \in {"SUCCEEDED", "FAILED"} =>
                      /\ status'[r] = status[r]
                      /\ result'[r] = result[r]
                      /\ recon'[r] = recon[r]
<1>1. ControlInv /\ [Next]_vars => Keeps
  BY SettledStep
<1>2. QED
  BY <1>1, ControlInvariant, PTL DEF Spec, SettledIsFinal

\* A completed Run is immutable whatever its former owners still call.
THEOREM FrozenTheorem == Spec => CompletedIsFrozen
<1> DEFINE Rows == <<runVars, granted, revoked, opVars, checkpoints, events>>
<1>1. ControlInv /\ [Next]_vars => (runStatus = "COMPLETED" => UNCHANGED Rows)
  <2> SUFFICES ASSUME ControlInv, [Next]_vars, runStatus = "COMPLETED"
               PROVE  UNCHANGED Rows
    OBVIOUS
  <2>1. /\ owner = NoOwner
        /\ ~leaseLive
        /\ \A r \in Requests : status[r] \notin {"RUNNING", "UNKNOWN"} /\ ~opLive[r]
    BY DEF ControlInv, CompletedIsSettled, RunShape, LedgerShape, Unresolved
  <2>2. ~RegistrationStep
    BY DEF RegistrationStep, RegisterRun, RevokeApproval
  <2>3. ASSUME NEW h \in Owners PROVE ~InvocationStep(h)
    BY <2>1, RunStoreAssumption
    DEF InvocationStep, ClaimRunInvocation, HeartbeatRunInvocation,
        ReleaseRunInvocation, RunStoreAssumption
  <2>4. ASSUME NEW r \in Requests PROVE ~OperationStep(r)
    BY <2>1 DEF OperationStep, AcquireOperation, CompleteOperation, FailOperation,
                EndAttempt, HeartbeatOperation, ReconcileOperation
  <2>5. ~LifecycleStep
    BY <2>1 DEF LifecycleStep, SaveCheckpoint, CompleteRun, AppendEvent, Stale,
                MarkWaitingReconciliation, ExpireStaleOperations
  <2>6. ASSUME TimeStep PROVE UNCHANGED Rows
    BY <2>1, <2>6 DEF TimeStep, RunLeaseLapses, OperationLeaseLapses, GrantLapses
  <2>7. QED
    BY <2>2, <2>3, <2>4, <2>5, <2>6 DEF Next, vars, grantVars
<1>2. QED
  BY <1>1, ControlInvariant, PTL DEF Spec, CompletedIsFrozen

\* A held Run becomes ACTIVE by the reconciliation of its last unknown outcome.
THEOREM ReactivationTheorem == Spec => OnlyReconciliationReactivates
<1> DEFINE Reactivated == /\ runStatus' = "ACTIVE"
                          /\ Unresolved' = {}
                          /\ \E r \in Requests : status[r] = "UNKNOWN" /\ recon'[r] # "NONE"
<1>1. ControlInv /\ [Next]_vars =>
        (runStatus = "WAITING_RECONCILIATION" /\ runStatus' # runStatus => Reactivated)
  <2> SUFFICES ASSUME ControlInv, [Next]_vars,
                      runStatus = "WAITING_RECONCILIATION", runStatus' # runStatus
               PROVE  Reactivated
    OBVIOUS
  <2>1. ~RegistrationStep
    BY DEF RegistrationStep, RegisterRun, RevokeApproval, runVars
  <2>2. ASSUME NEW h \in Owners PROVE ~InvocationStep(h)
    BY DEF InvocationStep, ClaimRunInvocation, HeartbeatRunInvocation,
           ReleaseRunInvocation
  <2>3. ~LifecycleStep
    BY DEF LifecycleStep, SaveCheckpoint, CompleteRun, AppendEvent, runVars,
           MarkWaitingReconciliation, ExpireStaleOperations
  <2>4. ~TimeStep
    BY DEF TimeStep, RunLeaseLapses, OperationLeaseLapses, GrantLapses, runVars
  <2>5. ASSUME NEW r \in Requests, OperationStep(r) PROVE Reactivated
    <3>1. \A h \in Owners, f \in Fences : ~AcquireOperation(r, h, f)
      BY DEF AcquireOperation
    <3>2. \A h \in Owners : ~HeartbeatOperation(r, h)
      BY DEF HeartbeatOperation, runVars
    <3>3. \A h \in Owners, v \in Results : ~CompleteOperation(r, h, v)
      BY DEF CompleteOperation, EndAttempt, runVars
    <3>4. \A h \in Owners, b \in BOOLEAN : ~FailOperation(r, h, b)
      BY DEF FailOperation, EndAttempt, runVars
    <3>5. PICK g \in ReconcileGrants, v \in Results \cup {NoResult} :
                 ReconcileOperation(r, g, v)
      BY <2>5, <3>1, <3>2, <3>3, <3>4 DEF OperationStep
    <3>6. /\ status[r] = "UNKNOWN"
          /\ runStatus' = "ACTIVE"
          /\ Unresolved \ {r} = {}
          /\ status'[r] \in {"FAILED", "SUCCEEDED"}
          /\ \A q \in Requests : q # r => status'[q] = status[q]
          /\ recon'[r] # "NONE"
      BY <3>5 DEF ReconcileOperation, ControlInv, TypeOK
    <3>7. Unresolved' = {}
      BY <3>6 DEF Unresolved
    <3>8. QED
      BY <3>6, <3>7
  <2>6. QED
    BY <2>1, <2>2, <2>3, <2>4, <2>5 DEF Next, vars, runVars
<1>2. QED
  BY <1>1, ControlInvariant, PTL DEF Spec, OnlyReconciliationReactivates

\* A saved state is never saved again as a later revision.
THEOREM HistoryTheorem == Spec => []HistoryNeverReplayed
<1>1. Init => HistoryNeverReplayed
  BY DEF Init, HistoryNeverReplayed
<1>2. ControlInv /\ HistoryNeverReplayed /\ [Next]_vars => HistoryNeverReplayed'
  <2> SUFFICES ASSUME ControlInv, HistoryNeverReplayed, [Next]_vars
               PROVE  HistoryNeverReplayed'
    OBVIOUS
  <2>1. ASSUME NEW s \in States, ~HasCheckpoint(s), checkpoints' = Append(checkpoints, s)
        PROVE  HistoryNeverReplayed'
    <3>1. checkpoints \in Seq(States)
      BY DEF ControlInv, TypeOK
    <3>2. \A i \in DOMAIN checkpoints : checkpoints[i] # s
      BY <2>1 DEF HasCheckpoint, Range
    <3>3. /\ Len(checkpoints) \in Nat
          /\ DOMAIN checkpoints = 1..Len(checkpoints)
          /\ DOMAIN checkpoints' = 1..(Len(checkpoints) + 1)
          /\ \A i \in 1..Len(checkpoints) : checkpoints'[i] = checkpoints[i]
          /\ checkpoints'[Len(checkpoints) + 1] = s
      BY <2>1, <3>1, AppendProperties, LenProperties
    <3>4. QED
      BY <3>2, <3>3 DEF HistoryNeverReplayed
  <2>2. CASE UNCHANGED checkpoints
    BY <2>2 DEF HistoryNeverReplayed
  <2>3. CASE LifecycleStep
    BY <2>1, <2>2, <2>3 DEF LifecycleStep, SaveCheckpoint, CompleteRun, IsLatest,
                MarkWaitingReconciliation, AppendEvent, ExpireStaleOperations
  <2>4. CASE RegistrationStep \/ TimeStep \/ \E h \in Owners : InvocationStep(h)
    BY <2>2, <2>4 DEF RegistrationStep, RegisterRun, RevokeApproval, TimeStep,
                RunLeaseLapses, OperationLeaseLapses, GrantLapses, InvocationStep,
                ClaimRunInvocation, HeartbeatRunInvocation, ReleaseRunInvocation
  <2>5. ASSUME NEW r \in Requests, OperationStep(r) PROVE HistoryNeverReplayed'
    BY <2>2, <2>5 DEF OperationStep, AcquireOperation, CompleteOperation, EndAttempt,
                FailOperation, HeartbeatOperation, ReconcileOperation
  <2>6. CASE UNCHANGED vars
    BY <2>2, <2>6 DEF vars
  <2>7. QED
    BY <2>3, <2>4, <2>5, <2>6 DEF Next
<1>3. QED
  BY <1>1, <1>2, ControlInvariant, PTL DEF Spec

-----------------------------------------------------------------------------
(* The tables of the Run implement the ledger of actions.                    *)

\* What the rows say of their actions, and that they say it of all of them.
RowsRead ==
    /\ ledgerOf = [m \in Meanings |-> ledgerOf[m]]
    /\ \A r \in Requests : SemKey[r] \in Meanings
    /\ \A r \in Admitted : ledgerOf[SemKey[r]] = Knows(r)
    /\ \A m \in Meanings : (\A r \in Admitted : SemKey[r] # m) => ledgerOf[m] = Ledger!Absent
    /\ \A r \in Requests :
         /\ status[r] = "RUNNING" => Knows(r) = Ledger!Started
         /\ status[r] = "UNKNOWN" => Knows(r) = Ledger!Lost
         /\ status[r] = "FAILED"  => Knows(r) = Ledger!Failed
         /\ status[r] = "SUCCEEDED" => Knows(r) = Ledger!Succeeded(result[r])

StoreFacts == ControlInv /\ OneOperationPerAction

\* An action has one row at most, so that the choice of the row is no choice.
LEMMA Reading == StoreFacts => RowsRead
<1> SUFFICES ASSUME StoreFacts PROVE RowsRead
  OBVIOUS
<1> USE DEF StoreFacts
<1>1. ledgerOf = [m \in Meanings |-> ledgerOf[m]]
  BY DEF ledgerOf
<1>2. \A r \in Requests : SemKey[r] \in Meanings
  BY RefinementAssumption DEF RefinementAssumption, Meanings, Range
<1>3. ASSUME NEW r \in Admitted PROVE ledgerOf[SemKey[r]] = Knows(r)
  <2>1. r \in Requests /\ RowOf(SemKey[r], r)
    BY <1>3 DEF RowOf, Admitted
  <2>2. \A q \in Requests : RowOf(SemKey[r], q) => q = r
    BY <1>3 DEF RowOf, Admitted, OneOperationPerAction
  <2>3. (CHOOSE q \in Requests : RowOf(SemKey[r], q)) = r
    BY <2>1, <2>2
  <2>4. ledgerOf[SemKey[r]] = IF \E q \in Requests : RowOf(SemKey[r], q)
                              THEN Knows(CHOOSE q \in Requests : RowOf(SemKey[r], q))
                              ELSE [is |-> "absent", value |-> NoResult]
    BY <1>2, <2>1 DEF ledgerOf
  <2>5. QED
    BY <2>1, <2>3, <2>4
<1>4. ASSUME NEW m \in Meanings, \A r \in Admitted : SemKey[r] # m
      PROVE  ledgerOf[m] = Ledger!Absent
  BY <1>4 DEF ledgerOf, RowOf, Admitted, Ledger!Absent
<1>5. ASSUME NEW r \in Requests
      PROVE  /\ status[r] = "RUNNING" => Knows(r) = Ledger!Started
             /\ status[r] = "UNKNOWN" => Knows(r) = Ledger!Lost
             /\ status[r] = "FAILED"  => Knows(r) = Ledger!Failed
             /\ status[r] = "SUCCEEDED" => Knows(r) = Ledger!Succeeded(result[r])
  <2>1. status[r] # "SUCCEEDED" => result[r] = NoResult
    BY DEF ControlInv, ReceiptMatchesVerdict
  <2>2. QED
    BY <2>1 DEF Knows, Ledger!Started, Ledger!Lost, Ledger!Failed, Ledger!Succeeded
<1>6. QED
  BY <1>1, <1>2, <1>3, <1>4, <1>5 DEF RowsRead

\* The gate follows the status, and an action is pending while its row is open.
StatusRead ==
    /\ runStatus = "ABSENT" => gateOf = "unregistered"
    /\ runStatus = "ACTIVE" => gateOf = "open"
    /\ runStatus = "WAITING_RECONCILIATION" => gateOf = "held"
    /\ runStatus = "COMPLETED" => gateOf = "closed"
    /\ \A m \in Meanings : Ledger!Pending(m) <=> \E r \in Unresolved : SemKey[r] = m

\* What an ACTIVE, held or completed Run and its open rows are to the ledger.
LEMMA ReadingStatus == StoreFacts => StatusRead
<1> SUFFICES ASSUME StoreFacts PROVE StatusRead
  OBVIOUS
<1>1. RowsRead
  BY Reading
<1>2. /\ runStatus = "ABSENT" => gateOf = "unregistered"
      /\ runStatus = "ACTIVE" => gateOf = "open"
      /\ runStatus = "WAITING_RECONCILIATION" => gateOf = "held"
      /\ runStatus = "COMPLETED" => gateOf = "closed"
  BY DEF gateOf
<1> USE DEF Ledger!Pending, Ledger!Absent, Ledger!Started, Ledger!Lost, Ledger!Failed,
            Ledger!Succeeded
<1>3. ASSUME NEW m \in Meanings, NEW r \in Unresolved, SemKey[r] = m
      PROVE  Ledger!Pending(m)
  BY <1>1, <1>3 DEF Unresolved, Admitted, RowsRead
<1>4. ASSUME NEW m \in Meanings, Ledger!Pending(m)
      PROVE  \E r \in Unresolved : SemKey[r] = m
  <2>1. PICK r \in Admitted : SemKey[r] = m
    BY <1>1, <1>4 DEF RowsRead
  <2>2. r \in Requests /\ status[r] \in OpStatuses \ {"NONE"}
    BY <2>1 DEF Admitted, StoreFacts, ControlInv, TypeOK
  <2>3. status[r] \notin {"FAILED", "SUCCEEDED"}
    BY <1>1, <1>4, <2>1, <2>2 DEF RowsRead
  <2>4. QED
    BY <2>1, <2>2, <2>3 DEF OpStatuses, Unresolved
<1>5. QED
  BY <1>2, <1>3, <1>4 DEF StatusRead

\* The same of the state a step leads to.
LEMMA ReadingNext == StoreFacts' => RowsRead' /\ StatusRead'
  BY Reading, ReadingStatus, PTL

\* What a change of one row does to the ledger.
LEMMA OneRow ==
  ASSUME RowsRead, RowsRead', NEW r \in Requests,
         Admitted' = Admitted \cup {r},
         \A q \in Requests \ {r} : status'[q] = status[q] /\ result'[q] = result[q]
  PROVE  ledgerOf' = [ledgerOf EXCEPT ![SemKey[r]] = Knows(r)']
<1> DEFINE Changed == [ledgerOf EXCEPT ![SemKey[r]] = Knows(r)']
<1>1. \A q \in Requests \ {r} : Knows(q)' = Knows(q)
  BY DEF Knows
<1>2. Admitted \subseteq Requests /\ r \in Admitted'
  BY DEF Admitted
<1>3. ASSUME NEW m \in Meanings PROVE ledgerOf'[m] = Changed[m]
  <2>1. CASE m = SemKey[r]
    BY <1>2, <2>1 DEF RowsRead
  <2>2. ASSUME m # SemKey[r], NEW q \in Admitted, SemKey[q] = m
        PROVE  ledgerOf'[m] = Changed[m]
    <3>1. ledgerOf[m] = Knows(q) /\ ledgerOf'[m] = Knows(q)'
      BY <2>2 DEF RowsRead
    <3>2. Knows(q)' = Knows(q)
      BY <1>1, <1>2, <2>2
    <3>3. QED
      BY <2>2, <3>1, <3>2 DEF RowsRead
  <2>3. CASE m # SemKey[r] /\ \A q \in Admitted : SemKey[q] # m
    BY <1>2, <2>3 DEF RowsRead, Ledger!Absent
  <2>4. QED
    BY <2>1, <2>2, <2>3
<1>4. QED
  BY <1>3 DEF RowsRead

-----------------------------------------------------------------------------
(* Each transaction of the store, as a step of the ledger.                 *)

\* A new row starts an action of which nothing was known.
LEMMA AcquireStarts ==
  ASSUME RowsRead, RowsRead', StatusRead, StatusRead', ControlInv,
         NEW r \in Requests, NEW h \in Owners, NEW f \in Fences, AcquireOperation(r, h, f)
  PROVE  SemKey[r] \in Meanings /\ Ledger!Moves(SemKey[r])
<1>1. /\ Admitted' = Admitted \cup {r}
      /\ status'[r] = "RUNNING" /\ runStatus = "ACTIVE" /\ UNCHANGED runStatus
      /\ \A q \in Requests \ {r} : status'[q] = status[q] /\ result'[q] = result[q]
  BY DEF AcquireOperation, Admitted, ControlInv, TypeOK, runVars
<1>2. ledgerOf' = [ledgerOf EXCEPT ![SemKey[r]] = Knows(r)']
  BY <1>1, OneRow
<1>3. Knows(r)' = Ledger!Started
  BY <1>1 DEF RowsRead, Ledger!Started
<1>4. \A q \in Admitted : SemKey[q] # SemKey[r]
  BY DEF AcquireOperation, Matching
<1>5. ledgerOf[SemKey[r]] = Ledger!Absent /\ SemKey[r] \in Meanings
  BY <1>4 DEF RowsRead
<1>6. gateOf = "open" /\ gateOf' = "open"
  BY <1>1 DEF StatusRead
<1>7. QED
  BY <1>2, <1>3, <1>5, <1>6 DEF Ledger!Moves, Ledger!Start

\* A receipt or a known failure settles a started action.
LEMMA EndSettles ==
  ASSUME RowsRead, RowsRead', ControlInv, ControlInv', gateOf' = gateOf,
         NEW r \in Requests, NEW h \in Owners, NEW s \in {"SUCCEEDED", "FAILED"},
         EndAttempt(r, h, s),
         \A q \in Requests \ {r} : result'[q] = result[q]
  PROVE  SemKey[r] \in Meanings /\ Ledger!Moves(SemKey[r])
<1>1. /\ Admitted' = Admitted \cup {r} /\ r \in Admitted
      /\ status[r] = "RUNNING" /\ status'[r] = s
      /\ \A q \in Requests \ {r} : status'[q] = status[q] /\ result'[q] = result[q]
  BY DEF EndAttempt, Admitted, ControlInv, TypeOK
<1>2. ledgerOf' = [ledgerOf EXCEPT ![SemKey[r]] = Knows(r)']
  BY <1>1, OneRow
<1>3. result'[r] \in Results \cup {NoResult} /\ (s = "SUCCEEDED" => result'[r] # NoResult)
  BY <1>1 DEF ControlInv, TypeOK, ReceiptMatchesVerdict
<1>4. Knows(r)' \in Ledger!Verdicts
  BY <1>1, <1>3 DEF RowsRead, Ledger!Verdicts, Ledger!Failed, Ledger!Succeeded
<1>5. ledgerOf[SemKey[r]] = Ledger!Started /\ SemKey[r] \in Meanings
  BY <1>1 DEF RowsRead
<1>6. QED
  BY <1>2, <1>4, <1>5 DEF Ledger!Moves, Ledger!Settle, Ledger!Pending

\* Lost attempts are lost actions, and the Run is held.
LEMMA LossHolds ==
  ASSUME RowsRead, RowsRead', StatusRead', ControlInv,
         NEW S \in SUBSET Requests, S # {}, \A r \in S : status[r] = "RUNNING",
         \A r \in Requests : status'[r] = IF r \in S THEN "UNKNOWN" ELSE status[r],
         UNCHANGED result, runStatus' = "WAITING_RECONCILIATION"
  PROVE  \E L \in SUBSET {m \in Meanings : ledgerOf[m] = Ledger!Started} : Ledger!Lose(L)
<1> DEFINE L == {SemKey[r] : r \in S}
<1>1. Admitted' = Admitted /\ S \subseteq Admitted /\ Admitted \subseteq Requests
  BY DEF Admitted
<1>2. \A r \in S : SemKey[r] \in Meanings /\ ledgerOf[SemKey[r]] = Ledger!Started
  BY <1>1 DEF RowsRead
<1>3. \A r \in S : ledgerOf'[SemKey[r]] = Ledger!Lost
  BY <1>1 DEF RowsRead, Ledger!Lost
<1>4. ASSUME NEW m \in Meanings, m \notin L PROVE ledgerOf'[m] = ledgerOf[m]
  <2>1. ASSUME NEW q \in Admitted, SemKey[q] = m PROVE ledgerOf'[m] = ledgerOf[m]
    <3>1. q \in Requests \ S
      BY <1>1, <1>4, <2>1
    <3>2. Knows(q)' = Knows(q)
      BY <3>1 DEF Knows
    <3>3. QED
      BY <1>1, <2>1, <3>2 DEF RowsRead
  <2>2. CASE \A q \in Admitted : SemKey[q] # m
    BY <1>1, <2>2 DEF RowsRead, Ledger!Absent
  <2>3. QED
    BY <2>1, <2>2
<1>5. ledgerOf' = [m \in Meanings |-> IF m \in L THEN Ledger!Lost ELSE ledgerOf[m]]
  BY <1>2, <1>3, <1>4 DEF RowsRead
<1>6. gateOf' = "held"
  BY DEF StatusRead
<1>7. L # {} /\ L \in SUBSET {m \in Meanings : ledgerOf[m] = Ledger!Started}
  BY <1>2
<1>8. Ledger!Lose(L)
  BY <1>5, <1>6, <1>7 DEF Ledger!Lose
<1>9. QED
  BY <1>7, <1>8

\* The operator settles one lost action, and opens the Run with the last one.
LEMMA ReconcileAdjudicates ==
  ASSUME RowsRead, RowsRead', StatusRead, StatusRead', ControlInv, OneOperationPerAction,
         NEW r \in Requests, NEW g \in ReconcileGrants, NEW v \in Results \cup {NoResult},
         ReconcileOperation(r, g, v)
  PROVE  SemKey[r] \in Meanings /\ Ledger!Moves(SemKey[r])
<1>1. /\ Admitted' = Admitted \cup {r} /\ r \in Admitted
      /\ status[r] = "UNKNOWN" /\ result'[r] = v
      /\ status'[r] = (IF v = NoResult THEN "FAILED" ELSE "SUCCEEDED")
      /\ \A q \in Requests \ {r} : status'[q] = status[q] /\ result'[q] = result[q]
      /\ runStatus = "WAITING_RECONCILIATION"
      /\ runStatus' = IF Unresolved \ {r} = {} THEN "ACTIVE" ELSE runStatus
  BY DEF ReconcileOperation, Admitted, ControlInv, TypeOK
<1>2. ledgerOf' = [ledgerOf EXCEPT ![SemKey[r]] = Knows(r)']
  BY <1>1, OneRow
<1>3. Knows(r)' \in Ledger!Verdicts
  BY <1>1 DEF RowsRead, Ledger!Verdicts, Ledger!Failed, Ledger!Succeeded
<1>4. ledgerOf[SemKey[r]] = Ledger!Lost /\ SemKey[r] \in Meanings
  BY <1>1 DEF RowsRead
<1>5. (\E n \in Meanings \ {SemKey[r]} : Ledger!Pending(n)) <=> Unresolved \ {r} # {}
  <2>1. \A q \in Unresolved : q \in Admitted /\ q \in Requests
    BY DEF Unresolved, Admitted
  <2>2. \A q \in Unresolved : SemKey[q] = SemKey[r] <=> q = r
    BY <1>1, <2>1 DEF OneOperationPerAction
  <2>3. \A q \in Unresolved : SemKey[q] \in Meanings
    BY <2>1 DEF RowsRead
  <2>4. QED
    BY <2>2, <2>3 DEF StatusRead
<1>6. gateOf = "held" /\ gateOf' = IF \E n \in Meanings \ {SemKey[r]} : Ledger!Pending(n)
                                   THEN "held" ELSE "open"
  BY <1>1, <1>5 DEF StatusRead
<1>7. QED
  BY <1>2, <1>3, <1>4, <1>6 DEF Ledger!Moves, Ledger!Adjudicate, Ledger!Pending

-----------------------------------------------------------------------------
(* The refinement.                                                         *)

\* A transaction that changes anything the ledger sees takes one of its steps.
LEMMA RefinementStep ==
  StoreFacts /\ StoreFacts' /\ [Next]_vars => [Ledger!Next]_(Ledger!vars)
<1> SUFFICES ASSUME StoreFacts, StoreFacts', [Next]_vars, Ledger!vars' # Ledger!vars
             PROVE  Ledger!Next
  OBVIOUS
<1>1. /\ RowsRead /\ StatusRead /\ RowsRead' /\ StatusRead'
      /\ ControlInv /\ OneOperationPerAction /\ ControlInv'
  BY Reading, ReadingStatus, ReadingNext DEF StoreFacts
<1>2. UNCHANGED <<status, result>> => ledgerOf' = ledgerOf
  BY DEF ledgerOf, RowOf, Knows
<1>3. UNCHANGED runStatus => gateOf' = gateOf
  BY DEF gateOf
<1>4. ~ UNCHANGED <<status, result, runStatus>>
  BY <1>2, <1>3 DEF Ledger!vars
<1>5. ASSUME NEW m \in Meanings, Ledger!Moves(m) PROVE Ledger!Next
  BY <1>5 DEF Ledger!Next
<1>6. ASSUME \E L \in SUBSET {m \in Meanings : ledgerOf[m] = Ledger!Started} : Ledger!Lose(L)
      PROVE  Ledger!Next
  BY <1>6 DEF Ledger!Next
<1>7. ASSUME NEW r \in Requests, OperationStep(r) PROVE Ledger!Next
  <2>1. ASSUME NEW h \in Owners, NEW f \in Fences, AcquireOperation(r, h, f)
        PROVE  Ledger!Next
    BY <1>1, <1>5, <2>1, AcquireStarts
  <2>2. ASSUME NEW h \in Owners, NEW v \in Results, CompleteOperation(r, h, v)
        PROVE  Ledger!Next
    <3>1. /\ EndAttempt(r, h, "SUCCEEDED") /\ gateOf' = gateOf
          /\ \A q \in Requests \ {r} : result'[q] = result[q]
      BY <1>1, <1>3, <2>2 DEF CompleteOperation, runVars, ControlInv, TypeOK
    <3>2. QED
      BY <1>1, <1>5, <3>1, EndSettles
  <2>3. ASSUME NEW h \in Owners, FailOperation(r, h, FALSE) PROVE Ledger!Next
    <3>1. /\ EndAttempt(r, h, "FAILED") /\ gateOf' = gateOf /\ UNCHANGED result
      BY <1>3, <2>3 DEF FailOperation, runVars
    <3>2. QED
      BY <1>1, <1>5, <3>1, EndSettles
  <2>4. ASSUME NEW h \in Owners, FailOperation(r, h, TRUE) PROVE Ledger!Next
    <3>1. /\ status[r] = "RUNNING" /\ UNCHANGED result
          /\ status' = [status EXCEPT ![r] = "UNKNOWN"]
      BY <2>4 DEF FailOperation, EndAttempt
    <3>2. \A q \in Requests : status'[q] = IF q \in {r} THEN "UNKNOWN" ELSE status[q]
      BY <1>1, <3>1 DEF ControlInv, TypeOK
    <3>3. runStatus' = "WAITING_RECONCILIATION"
      BY <1>1, <3>2 DEF ControlInv, UnknownHoldsRun
    <3>4. QED
      BY <1>1, <1>6, <3>1, <3>2, <3>3, LossHolds
  <2>5. ASSUME NEW g \in ReconcileGrants, NEW v \in Results \cup {NoResult},
               ReconcileOperation(r, g, v)
        PROVE  Ledger!Next
    BY <1>1, <1>5, <2>5, ReconcileAdjudicates
  <2>6. ASSUME NEW h \in Owners, HeartbeatOperation(r, h) PROVE Ledger!Next
    BY <1>4, <2>6 DEF HeartbeatOperation, runVars
  <2>7. QED
    BY <1>7, <2>1, <2>2, <2>3, <2>4, <2>5, <2>6 DEF OperationStep
<1>8. ASSUME ExpireStaleOperations PROVE Ledger!Next
  <2>1. /\ Stale \in SUBSET Requests /\ Stale # {} /\ UNCHANGED result
        /\ \A r \in Stale : status[r] = "RUNNING"
        /\ \A r \in Requests : status'[r] = IF r \in Stale THEN "UNKNOWN" ELSE status[r]
    BY <1>8 DEF ExpireStaleOperations, Stale
  <2>2. runStatus' = "WAITING_RECONCILIATION"
    BY <1>1, <2>1 DEF ControlInv, UnknownHoldsRun
  <2>3. QED
    BY <1>1, <1>6, <2>1, <2>2, LossHolds
<1>9. ASSUME NEW G, RegisterRun(G) PROVE Ledger!Next
  <2>1. /\ runStatus = "ABSENT" /\ runStatus' = "ACTIVE" /\ UNCHANGED <<status, result>>
    BY <1>4, <1>9 DEF RegisterRun, opVars
  <2>2. QED
    BY <1>1, <1>2, <2>1 DEF StatusRead, Ledger!Next, Ledger!Open
<1>10. ASSUME MarkWaitingReconciliation PROVE Ledger!Next
  BY <1>1, <1>2, <1>10
  DEF MarkWaitingReconciliation, LeaveActive, opVars, StatusRead, Ledger!Next, Ledger!Hold
<1>11. ASSUME NEW h, NEW f, NEW n, NEW s, CompleteRun(h, f, n, s) PROVE Ledger!Next
  <2>1. /\ runStatus = "ACTIVE" /\ runStatus' = "COMPLETED" /\ UNCHANGED <<status, result>>
        /\ Unresolved = {}
    BY <1>11 DEF CompleteRun, LeaveActive, opVars
  <2>2. QED
    BY <1>1, <1>2, <2>1 DEF StatusRead, Ledger!Next, Ledger!Close
<1>12. ASSUME NEW h, NEW f, NEW n, NEW s, NEW e, NEW p,
              SaveCheckpoint(h, f, n, s) \/ AppendEvent(e, p)
       PROVE  Ledger!Next
  BY <1>4, <1>12 DEF SaveCheckpoint, AppendEvent, runVars, opVars
<1>13. ASSUME LifecycleStep PROVE Ledger!Next
  BY <1>8, <1>10, <1>11, <1>12, <1>13 DEF LifecycleStep
<1>14. ASSUME RegistrationStep PROVE Ledger!Next
  BY <1>4, <1>9, <1>14 DEF RegistrationStep, RevokeApproval, runVars, opVars
<1>15. ASSUME (\E h \in Owners : InvocationStep(h)) \/ TimeStep \/ UNCHANGED vars
       PROVE  Ledger!Next
  BY <1>4, <1>15 DEF InvocationStep, ClaimRunInvocation, HeartbeatRunInvocation,
     ReleaseRunInvocation, TimeStep, RunLeaseLapses, OperationLeaseLapses, GrantLapses,
     vars, runVars, opVars
<1>16. QED
  BY <1>7, <1>13, <1>14, <1>15 DEF Next

\* However requests, keys, owners, expiries and reconciliations interleave, an
\* action is started once, settled once, and blocks the Run while its outcome is
\* lost: the tables implement the ledger (acquire_operation, reconcile_operation).
THEOREM LedgerTheorem == Spec => ImplementsActionLedger
<1>1. Init => Ledger!Init
  BY RefinementAssumption
  DEF Init, Ledger!Init, Ledger!Absent, ledgerOf, gateOf, RowOf, Meanings, Range
<1>2. Spec => []StoreFacts
  BY ControlInvariant, IdentityTheorem, PTL DEF StoreFacts
<1>3. QED
  BY <1>1, <1>2, RefinementStep, PTL DEF Spec, ImplementsActionLedger, Ledger!Spec
=============================================================================
