------------------------------ MODULE RunStore ------------------------------
(***************************************************************************)
(* The transactional control plane of one optimization Run                 *)
(* (harness/run_store.py).  Every public method of class RunStore is one   *)
(* BEGIN IMMEDIATE transaction, so it is one action here; a method that    *)
(* raises, or that finds its work already done, leaves every table as it   *)
(* was and is a stuttering step.  The callers are arbitrary: any owner     *)
(* token may present any fence the Run ever issued, in any order.          *)
(*                                                                         *)
(* Wall-clock comparisons (lease_expires_at <= now, expires_at <= now) are *)
(* abstracted to booleans that the environment may flip at any moment.     *)
(***************************************************************************)
EXTENDS Naturals, FiniteSets, Sequences, Functions

CONSTANTS
    Owners,         \* owner tokens, one per HarnessCore instance
    NoOwner,        \* SQL NULL in invocation_owner_token
    Requests,       \* canonical OperationRequests of the Run
    IdemKey,        \* [Requests -> caller idempotency keys]
    SemKey,         \* [Requests -> semantic operation keys]
    Cost,           \* [Requests -> authoritative operation cost]
    Physical,       \* requests of kind hfss under the real_hfss policy: ambiguous
    Ambiguous,      \* requests with ambiguity_on_exception
    Grants,         \* approval grants that may be registered
    NoGrant,        \* a request that needs no approval
    GrantOf,        \* [Requests -> Grants \cup {NoGrant}]
    RealGrants,     \* grants of scope real_hfss
    Authorization,  \* the grant a real manifest binds, or NoGrant
    ReconcileGrants,\* grants of scope reconcile_unknown
    ExpiringGrants, \* grants with an expires_at
    Results,        \* canonical results (their digests)
    NoResult,
    States,         \* canonical checkpoint states (their digests)
    EventIds,       \* ids of audit events
    Payloads,       \* their canonical payloads
    NoPayload,
    BudgetLimit,
    MaxLaunches,    \* ExecutionPolicy.max_hfss_solve_launches
    MaxFence        \* bound on invocation_fence, for model checking only

ASSUME RunStoreAssumption ==
    /\ NoOwner \notin Owners
    /\ NoResult \notin Results
    /\ NoPayload \notin Payloads
    /\ NoGrant \notin Grants
    /\ IsFiniteSet(Requests)
    /\ Cost \in [Requests -> Nat]
    /\ Physical \subseteq Ambiguous
    /\ Ambiguous \subseteq Requests
    /\ GrantOf \in [Requests -> Grants \cup {NoGrant}]
    /\ RealGrants \subseteq Grants
    /\ Authorization \in RealGrants \cup {NoGrant}
    /\ ReconcileGrants \subseteq Grants
    /\ ExpiringGrants \subseteq Grants
    /\ BudgetLimit \in Nat
    /\ MaxLaunches \in Nat
    /\ MaxFence \in Nat

VARIABLES
    runStatus,   \* runs.status; "ABSENT" before the row exists
    owner,       \* runs.invocation_owner_token
    fence,       \* runs.invocation_fence
    leaseLive,   \* runs.invocation_lease_expires_at > now
    granted,     \* rows of approvals
    revoked,     \* those with revoked_at
    lapsed,      \* grants whose expires_at has passed
    status,      \* operations.status; "NONE" before the row exists
    holder,      \* attempts.owner_token of the operation's only attempt
    attempt,     \* attempts.status
    opLive,      \* operations.lease_expires_at > now
    reservation, \* budget_reservations.status
    result,      \* operations.result_sha256
    recon,       \* reconciliations.resolution
    checkpoints, \* the append-only revisions: revision i is checkpoints[i]
    events       \* payloads of the append-only event ledger

runVars  == <<runStatus, owner, fence, leaseLive>>
grantVars == <<granted, revoked, lapsed>>
opVars   == <<status, holder, attempt, opLive, reservation, result, recon>>
vars     == <<runVars, grantVars, opVars, checkpoints, events>>

RunStatuses == {"ABSENT", "ACTIVE", "WAITING_RECONCILIATION", "COMPLETED"}
OpStatuses  == {"NONE", "RUNNING", "SUCCEEDED", "FAILED", "UNKNOWN"}
Resolutions == {"NONE", "CONFIRMED_SUCCEEDED", "CONFIRMED_FAILED"}

-----------------------------------------------------------------------------
(* What the transactions read.                                             *)

\* The operation rows of the Run, and those that are real solve launches.
Admitted == {r \in Requests : status[r] # "NONE"}
Launched == Physical \cap Admitted

\* Bug: a new caller key makes a new action.
MatchingCallerKey(r) == {q \in Admitted : IdemKey[q] = IdemKey[r]}
\* Bug: a caller key may be reused for another action.
MatchingMeaning(r) == {q \in Admitted : SemKey[q] = SemKey[r]}

\* The rows the admission query selects: same idempotency or semantic key.
Matching(r) == {q \in Admitted : \/ IdemKey[q] = IdemKey[r]
                                 \/ SemKey[q] = SemKey[r]}

\* SUM(units) over reservations that are not RELEASED, one element a unit.
UnitsOf(r)    == {r} \X (1..Cost[r])
SpentUnits    == UNION {UnitsOf(r) : r \in {q \in Requests :
                                   reservation[q] \notin {"NONE", "RELEASED"}}}

\* Bug: the limit is checked before the new reservation is added.
BudgetNotSpent(r) == Cardinality(SpentUnits) <= BudgetLimit
FitsBudget(r)     == Cardinality(SpentUnits) + Cost[r] <= BudgetLimit

\* Bug: only launches still running are counted.
RunningLaunchAllowed(r) ==
    r \in Physical => Cardinality({q \in Physical : status[q] = "RUNNING"}) < MaxLaunches
LaunchAllowed(r) == r \in Physical => Cardinality(Launched) < MaxLaunches

\* Bug: lost outcomes are not counted as unresolved.
InFlight      == {r \in Requests : status[r] = "RUNNING"}
Unresolved    == {r \in Requests : status[r] \in {"RUNNING", "UNKNOWN"}}
GrantValid(g) == g \in granted \ (revoked \cup lapsed)
FenceAdmits(h, f) == owner # NoOwner => owner = h /\ fence = f

\* Bug: a digest is compared with the latest revision only.
HasLatestOnly(s)  == checkpoints # << >> /\ checkpoints[Len(checkpoints)] = s
HasCheckpoint(s)  == s \in Range(checkpoints)
IsLatest(s)       == checkpoints # << >> /\ checkpoints[Len(checkpoints)] = s

-----------------------------------------------------------------------------
(* Registration and approvals.                                             *)

\* A real Run is registered with its bound real_hfss grant and no other.
BindsAuthorization(G) ==
    Authorization # NoGrant => G \cap RealGrants = {Authorization}

RegisterRun(G) ==
    /\ runStatus \in {"ABSENT", "ACTIVE"}
    /\ BindsAuthorization(G)
    /\ runStatus' = "ACTIVE"
    /\ granted' = granted \cup G
    /\ UNCHANGED <<owner, fence, leaseLive, revoked, lapsed, opVars,
                   checkpoints, events>>

RevokeApproval(g) ==
    /\ runStatus \in {"ACTIVE", "WAITING_RECONCILIATION"}
    /\ g \in granted \ revoked
    /\ revoked' = revoked \cup {g}
    /\ UNCHANGED <<runVars, granted, lapsed, opVars, checkpoints, events>>

-----------------------------------------------------------------------------
(* The Run invocation: owner token, fence and heartbeated lease.           *)

\* Bug: a lost owner keeps the Run for ever.
ClaimFreeRun(h) ==
    /\ runStatus = "ACTIVE"
    /\ owner \in {NoOwner, h}
    /\ owner # h => fence < MaxFence
    /\ fence' = IF owner = h THEN fence ELSE fence + 1
    /\ owner' = h
    /\ leaseLive' = TRUE
    /\ UNCHANGED <<runStatus, grantVars, opVars, checkpoints, events>>

\* Bug: taking over a lapsed lease reuses its fence.
ClaimSameFence(h) ==
    /\ runStatus = "ACTIVE"
    /\ owner \in {NoOwner, h} \/ ~leaseLive
    /\ owner = NoOwner => fence < MaxFence
    /\ fence' = IF owner # NoOwner THEN fence ELSE fence + 1
    /\ owner' = h
    /\ leaseLive' = TRUE
    /\ UNCHANGED <<runStatus, grantVars, opVars, checkpoints, events>>

ClaimRunInvocation(h) ==
    /\ runStatus = "ACTIVE"
    /\ owner \in {NoOwner, h} \/ ~leaseLive
    /\ owner # h => fence < MaxFence
    /\ fence' = IF owner = h THEN fence ELSE fence + 1
    /\ owner' = h
    /\ leaseLive' = TRUE
    /\ UNCHANGED <<runStatus, grantVars, opVars, checkpoints, events>>

HeartbeatRunInvocation(h, f) ==
    /\ runStatus = "ACTIVE"
    /\ owner = h /\ fence = f
    /\ leaseLive' = TRUE
    /\ UNCHANGED <<runStatus, owner, fence, grantVars, opVars, checkpoints, events>>

ReleaseRunInvocation(h, f) ==
    /\ owner = h /\ fence = f
    /\ owner' = NoOwner
    /\ leaseLive' = FALSE
    /\ UNCHANGED <<runStatus, fence, grantVars, opVars, checkpoints, events>>

\* What every transition of a Run out of ACTIVE does to its invocation.
LeaveActive(target) ==
    /\ runStatus' = target
    /\ owner' = NoOwner
    /\ leaseLive' = FALSE
    /\ UNCHANGED fence

-----------------------------------------------------------------------------
(* The operation ledger.                                                   *)

AcquireOperation(r, h, f) ==
    /\ runStatus = "ACTIVE"
    /\ FenceAdmits(h, f)
    /\ Matching(r) = {}
    /\ GrantOf[r] # NoGrant => GrantValid(GrantOf[r])
    /\ LaunchAllowed(r)
    /\ FitsBudget(r)
    /\ status' = [status EXCEPT ![r] = "RUNNING"]
    /\ attempt' = [attempt EXCEPT ![r] = "RUNNING"]
    /\ holder' = [holder EXCEPT ![r] = h]
    /\ opLive' = [opLive EXCEPT ![r] = TRUE]
    /\ reservation' = [reservation EXCEPT ![r] = "RESERVED"]
    /\ UNCHANGED <<runVars, grantVars, result, recon, checkpoints, events>>

\* Bug: an attempt that did not succeed gives its units back.
EndWithRefund(r, h, s) ==
    /\ status[r] = "RUNNING"
    /\ holder[r] = h
    /\ status' = [status EXCEPT ![r] = s]
    /\ attempt' = [attempt EXCEPT ![r] = s]
    /\ opLive' = [opLive EXCEPT ![r] = FALSE]
    /\ reservation' = [reservation EXCEPT ![r] =
                          IF s = "SUCCEEDED" THEN "CONSUMED" ELSE "RELEASED"]
    /\ UNCHANGED <<holder, recon, grantVars, checkpoints, events>>

\* Bug: the holder may end its attempt whatever became of the operation.
EndAtAnyTime(r, h, s) ==
    /\ holder[r] = h
    /\ status' = [status EXCEPT ![r] = s]
    /\ attempt' = [attempt EXCEPT ![r] = s]
    /\ opLive' = [opLive EXCEPT ![r] = FALSE]
    /\ reservation' = [reservation EXCEPT ![r] = "CONSUMED"]
    /\ UNCHANGED <<holder, recon, grantVars, checkpoints, events>>

\* Bug: the lease of an ended attempt is not cleared.
EndKeepingLease(r, h, s) ==
    /\ status[r] = "RUNNING"
    /\ holder[r] = h
    /\ status' = [status EXCEPT ![r] = s]
    /\ attempt' = [attempt EXCEPT ![r] = s]
    /\ reservation' = [reservation EXCEPT ![r] = "CONSUMED"]
    /\ UNCHANGED <<opLive, holder, recon, grantVars, checkpoints, events>>

\* The attempt of r, still held by h, ends with operation status s.
EndAttempt(r, h, s) ==
    /\ status[r] = "RUNNING"
    /\ holder[r] = h
    /\ status' = [status EXCEPT ![r] = s]
    /\ attempt' = [attempt EXCEPT ![r] = s]
    /\ opLive' = [opLive EXCEPT ![r] = FALSE]
    /\ reservation' = [reservation EXCEPT ![r] = "CONSUMED"]
    /\ UNCHANGED <<holder, recon, grantVars, checkpoints, events>>

CompleteOperation(r, h, v) ==
    /\ EndAttempt(r, h, "SUCCEEDED")
    /\ result' = [result EXCEPT ![r] = v]
    /\ UNCHANGED runVars

FailOperation(r, h, ambiguous) ==
    /\ EndAttempt(r, h, IF ambiguous THEN "UNKNOWN" ELSE "FAILED")
    /\ UNCHANGED result
    /\ IF ambiguous /\ runStatus = "ACTIVE"
       THEN LeaveActive("WAITING_RECONCILIATION")
       ELSE UNCHANGED runVars

HeartbeatOperation(r, h) ==
    /\ status[r] = "RUNNING"
    /\ holder[r] = h
    /\ opLive' = [opLive EXCEPT ![r] = TRUE]
    /\ UNCHANGED <<runVars, grantVars, status, holder, attempt, reservation,
                   result, recon, checkpoints, events>>

\* Bug: an ended operation, which has no lease, counts as stale.
WithoutLease == {r \in Requests : status[r] # "NONE" /\ ~opLive[r]}
Stale == {r \in Requests : status[r] = "RUNNING" /\ ~opLive[r]}

ExpireStaleOperations ==
    /\ Stale # {}
    /\ status'  = [r \in Requests |-> IF r \in Stale THEN "UNKNOWN" ELSE status[r]]
    /\ attempt' = [r \in Requests |-> IF r \in Stale THEN "UNKNOWN" ELSE attempt[r]]
    /\ reservation' = [r \in Requests |->
                          IF r \in Stale THEN "CONSUMED" ELSE reservation[r]]
    /\ IF runStatus = "ACTIVE"
       THEN LeaveActive("WAITING_RECONCILIATION")
       ELSE UNCHANGED runVars
    /\ UNCHANGED <<holder, opLive, result, recon, grantVars, checkpoints, events>>

\* An operator adjudicates r: v is the recovered result, NoResult a confirmed
\* failure.  The Run reactivates with its last unresolved operation.
ReconcileOperation(r, g, v) ==
    /\ status[r] = "UNKNOWN"
    /\ recon[r] = "NONE"
    /\ runStatus = "WAITING_RECONCILIATION"
    /\ g \in ReconcileGrants /\ GrantValid(g)
    /\ status' = [status EXCEPT ![r] = IF v = NoResult THEN "FAILED" ELSE "SUCCEEDED"]
    /\ result' = [result EXCEPT ![r] = v]
    /\ recon' = [recon EXCEPT ![r] = IF v = NoResult THEN "CONFIRMED_FAILED"
                                                     ELSE "CONFIRMED_SUCCEEDED"]
    /\ runStatus' = IF Unresolved \ {r} = {} THEN "ACTIVE" ELSE runStatus
    /\ UNCHANGED <<owner, fence, leaseLive, grantVars, holder, attempt, opLive,
                   reservation, checkpoints, events>>

-----------------------------------------------------------------------------
(* Checkpoints, lifecycle and audit events.                                *)

\* A new revision is appended only to the revision the writer last saw; a
\* digest equal to the latest one changes nothing, an older one is refused.
SaveCheckpoint(h, f, expected, s) ==
    /\ FenceAdmits(h, f)
    /\ expected = Len(checkpoints)
    /\ runStatus \in {"ACTIVE", "WAITING_RECONCILIATION"}
    /\ ~HasCheckpoint(s)
    /\ checkpoints' = Append(checkpoints, s)
    /\ UNCHANGED <<runVars, grantVars, opVars, events>>

CompleteRun(h, f, expected, s) ==
    /\ FenceAdmits(h, f)
    /\ expected = Len(checkpoints)
    /\ runStatus = "ACTIVE"
    /\ ~HasCheckpoint(s) \/ IsLatest(s)
    /\ Unresolved = {}
    /\ checkpoints' = IF IsLatest(s) THEN checkpoints ELSE Append(checkpoints, s)
    /\ LeaveActive("COMPLETED")
    /\ UNCHANGED <<grantVars, opVars, events>>

MarkWaitingReconciliation ==
    /\ runStatus = "ACTIVE"
    /\ LeaveActive("WAITING_RECONCILIATION")
    /\ UNCHANGED <<grantVars, opVars, checkpoints, events>>

\* append_event with a fresh id, and append_event_once.
AppendEvent(e, p) ==
    /\ runStatus \in {"ACTIVE", "WAITING_RECONCILIATION"}
    /\ events[e] = NoPayload
    /\ events' = [events EXCEPT ![e] = p]
    /\ UNCHANGED <<runVars, grantVars, opVars, checkpoints>>

-----------------------------------------------------------------------------
(* The passage of time.                                                    *)

RunLeaseLapses ==
    /\ leaseLive
    /\ leaseLive' = FALSE
    /\ UNCHANGED <<runStatus, owner, fence, grantVars, opVars, checkpoints, events>>

OperationLeaseLapses(r) ==
    /\ opLive[r]
    /\ opLive' = [opLive EXCEPT ![r] = FALSE]
    /\ UNCHANGED <<runVars, grantVars, status, holder, attempt, reservation,
                   result, recon, checkpoints, events>>

GrantLapses(g) ==
    /\ g \in ExpiringGrants \ lapsed
    /\ lapsed' = lapsed \cup {g}
    /\ UNCHANGED <<runVars, granted, revoked, opVars, checkpoints, events>>

-----------------------------------------------------------------------------
Init ==
    /\ runStatus = "ABSENT"
    /\ owner = NoOwner
    /\ fence = 0
    /\ leaseLive = FALSE
    /\ granted = {} /\ revoked = {} /\ lapsed = {}
    /\ status = [r \in Requests |-> "NONE"]
    /\ holder = [r \in Requests |-> NoOwner]
    /\ attempt = [r \in Requests |-> "NONE"]
    /\ opLive = [r \in Requests |-> FALSE]
    /\ reservation = [r \in Requests |-> "NONE"]
    /\ result = [r \in Requests |-> NoResult]
    /\ recon = [r \in Requests |-> "NONE"]
    /\ checkpoints = << >>
    /\ events = [e \in EventIds |-> NoPayload]

\* Fence 0 is a caller outside any invocation.
Fences == 0..MaxFence

RegistrationStep ==
    \/ \E G \in SUBSET Grants : RegisterRun(G)
    \/ \E g \in Grants : RevokeApproval(g)

InvocationStep(h) ==
    \/ ClaimRunInvocation(h)
    \/ \E f \in Fences : HeartbeatRunInvocation(h, f) \/ ReleaseRunInvocation(h, f)

OperationStep(r) ==
    \/ \E h \in Owners, f \in Fences : AcquireOperation(r, h, f)
    \/ \E h \in Owners, v \in Results : CompleteOperation(r, h, v)
    \/ \E h \in Owners, ambiguous \in BOOLEAN :
          /\ r \in Ambiguous => ambiguous
          /\ FailOperation(r, h, ambiguous)
    \/ \E h \in Owners : HeartbeatOperation(r, h)
    \/ \E g \in ReconcileGrants, v \in Results \cup {NoResult} :
          ReconcileOperation(r, g, v)

LifecycleStep ==
    \/ \E h \in Owners, f \in Fences, s \in States :
          \/ SaveCheckpoint(h, f, Len(checkpoints), s)
          \/ CompleteRun(h, f, Len(checkpoints), s)
    \/ MarkWaitingReconciliation
    \/ ExpireStaleOperations
    \/ \E e \in EventIds, p \in Payloads : AppendEvent(e, p)

TimeStep ==
    \/ RunLeaseLapses
    \/ \E r \in Requests : OperationLeaseLapses(r)
    \/ \E g \in Grants : GrantLapses(g)

Next ==
    \/ RegistrationStep
    \/ \E h \in Owners : InvocationStep(h)
    \/ \E r \in Requests : OperationStep(r)
    \/ LifecycleStep
    \/ TimeStep

Spec == Init /\ [][Next]_vars

-----------------------------------------------------------------------------
(* Properties.                                                             *)

TypeOK ==
    /\ runStatus \in RunStatuses
    /\ owner \in Owners \cup {NoOwner}
    /\ fence \in Nat
    /\ leaseLive \in BOOLEAN
    /\ granted \subseteq Grants /\ revoked \subseteq Grants /\ lapsed \subseteq Grants
    /\ status \in [Requests -> OpStatuses]
    /\ holder \in [Requests -> Owners \cup {NoOwner}]
    /\ attempt \in [Requests -> OpStatuses]
    /\ opLive \in [Requests -> BOOLEAN]
    /\ reservation \in [Requests -> {"NONE", "RESERVED", "CONSUMED", "RELEASED"}]
    /\ result \in [Requests -> Results \cup {NoResult}]
    /\ recon \in [Requests -> Resolutions]
    /\ checkpoints \in Seq(States)
    /\ events \in [EventIds -> Payloads \cup {NoPayload}]

\* However admissions, late completions, expiries and reconciliations
\* interleave, the units ever reserved fit the Run's budget (acquire_operation).
BudgetRespected == Cardinality(SpentUnits) <= BudgetLimit

\* No interleaving of callers authorizes more real solves than the immutable
\* execution policy allows; an authorization is never forgotten.
LaunchCeiling == Cardinality(Launched) <= MaxLaunches

\* Two requests that mean the same action, or reuse one caller key, are never
\* both admitted: a physical action has one operation row, hence one attempt.
OneOperationPerAction ==
    \A q, r \in Admitted : q # r
        => IdemKey[q] # IdemKey[r] /\ SemKey[q] # SemKey[r]

\* While any physical outcome is UNKNOWN the Run waits for reconciliation: it
\* can neither start an action, nor hand out an invocation, nor complete.
UnknownHoldsRun ==
    (\E r \in Requests : status[r] = "UNKNOWN") => runStatus = "WAITING_RECONCILIATION"

\* A completed Run has no unresolved action, no invocation owner and a
\* terminal checkpoint; whatever any caller still had in flight is settled.
CompletedIsSettled ==
    runStatus = "COMPLETED" => /\ Unresolved = {}
                               /\ owner = NoOwner
                               /\ checkpoints # << >>

\* An operation's verdict is the one its only attempt reported, or the one an
\* operator adjudicated for an attempt whose outcome was lost, never both.
VerdictHasOneSource ==
    \A r \in Requests :
        \/ recon[r] = "NONE" /\ attempt[r] = status[r]
        \/ /\ attempt[r] = "UNKNOWN"
           /\ \/ recon[r] = "CONFIRMED_SUCCEEDED" /\ status[r] = "SUCCEEDED"
              \/ recon[r] = "CONFIRMED_FAILED" /\ status[r] = "FAILED"

\* A result receipt exists exactly for a SUCCEEDED operation, so a replay
\* never reads a result that no attempt or reconciliation vouches for.
ReceiptMatchesVerdict ==
    \A r \in Requests : (status[r] = "SUCCEEDED") <=> (result[r] # NoResult)

\* A settled operation keeps its verdict, receipt and reconciliation for ever:
\* no late owner, retry, expiry or second adjudication rewrites it.
SettledIsFinal ==
    [][\A r \in Requests : status[r] \in {"SUCCEEDED", "FAILED"} =>
          /\ status'[r] = status[r]
          /\ result'[r] = result[r]
          /\ recon'[r] = recon[r]]_vars

\* Reserved budget is never given back, whatever happens to the action:
\* failure, ambiguity and both reconciliation verdicts retain the units.
NoRefund == [][SpentUnits \subseteq SpentUnits']_vars

\* Once COMPLETED, no call changes any row of the Run: late registrations,
\* heartbeats, releases, saves and events are all without effect.
CompletedIsFrozen ==
    [][runStatus = "COMPLETED" =>
          UNCHANGED <<runVars, granted, revoked, opVars, checkpoints, events>>]_vars

\* A Run leaves WAITING_RECONCILIATION only by the adjudication of its last
\* unresolved operation, and then nothing is running or unknown.
OnlyReconciliationReactivates ==
    [][runStatus = "WAITING_RECONCILIATION" /\ runStatus' # runStatus =>
          /\ runStatus' = "ACTIVE"
          /\ Unresolved' = {}
          /\ \E r \in Requests : status[r] = "UNKNOWN" /\ recon'[r] # "NONE"]_vars

\* Checkpoint history is append-only and never repeats a state.
HistoryNeverReplayed ==
    \A i, j \in DOMAIN checkpoints : checkpoints[i] = checkpoints[j] => i = j

-----------------------------------------------------------------------------
(* The inductive strengthening of the invariants above.                    *)

\* Reservations and leases follow the operation row they belong to.
LedgerShape ==
    \A r \in Requests :
        /\ status[r] = "NONE" <=> reservation[r] = "NONE"
        /\ reservation[r] # "RELEASED"
        /\ opLive[r] => status[r] = "RUNNING"

\* Only an ACTIVE Run has an invocation; an unregistered one has no rows.
RunShape ==
    /\ runStatus # "ACTIVE" => owner = NoOwner
    /\ owner = NoOwner => ~leaseLive
    /\ runStatus = "ABSENT" => \A r \in Requests : status[r] = "NONE"

\* Everything about rows and statuses that one step needs of the previous one.
ControlInv ==
    /\ TypeOK
    /\ LedgerShape
    /\ RunShape
    /\ UnknownHoldsRun
    /\ CompletedIsSettled
    /\ VerdictHasOneSource
    /\ ReceiptMatchesVerdict

=============================================================================
