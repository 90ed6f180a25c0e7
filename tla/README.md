# Verification of the HFSS optimization agent

This directory holds TLA+ models of the agent under `src/src/hfss_optimization_agent`
(called the package below; file names are relative to it), the TLC configurations
that check them on small instances, and theorems about them that TLAPS proves for
every value of their constants.

The agent searches for microwave designs that meet a specification. It drives
expensive, licensed, non-repeatable physical solves (HFSS), so almost everything
that can go wrong is about *doing things once*, *knowing whether they happened*, and
*stopping*: two callers starting one solve, a process lost during a solve, an
operator settling an outcome while the worker still answers, a loop that neither
ends nor tells the truth about what it found. That is what the models are about.

## 1. Inventory

| Part | Source | State it keeps | Operations | Interacts with |
|---|---|---|---|---|
| Control plane | `harness/run_store.py` | SQLite: one Run row (status, invocation owner, fence, lease), operations, attempts, reservations, approvals, reconciliations, checkpoints, events | register, claim/heartbeat/release invocation, acquire/complete/fail/heartbeat/expire/reconcile operation, save checkpoint, complete, hold, append event | everything; each public method is one `BEGIN IMMEDIATE` transaction |
| Harness | `harness/core.py` | per thread: the fence and Run it works for; heartbeat threads | `run_invocation`, `execute`, `record_artifact`, `reconcile_unknown` | calls the control plane, providers, artifact store |
| Workflow runner | `agent/workflow_runner.py` | none of its own | `invoke`: expire stale work, restore, run the graph from START, hold or fail the Run | harness, checkpoint store, graph |
| Closed loop | `agent/closed_loop_graph.py`, `closed_loop_policy.py`, `closed_loop_contracts.py`, `router.py` | controller record inside the State: budgets, counters, pending action, decisions | policy decision, eleven nodes | nodes, harness, event ledger |
| Workflow nodes and State | `agent/comparison_nodes.py`, `comparison_state.py`, `terminal_policy.py` | candidates, results, evaluations, comparisons, diagnoses, Best, queue | bootstrap, optimize, screen, solve, compare, promote | providers through the harness, checkpoint store |
| Checkpoint store | `harness/checkpoint.py` | a fence, a revision | save, load, complete | control plane |
| License lock | `harness/license_lock.py`, `lock_reconciliation.py`, `hfss/guarded_adapter.py` | one file per HFSS version, archives | acquire, reclaim, quarantine, release, reconcile | other processes, only through the file system |
| Process supervisor | `harness/process_supervisor.py`, `heartbeat_companion.py` | worker process, its containment, deadlines | run: start, contain, poll, drain, terminate, verify | worker tree, operating system |
| HFSS adapter and worker | `hfss/*.py` | request and response files | build, solve, extract | supervisor, lock |
| Artifacts, final manifest | `harness/artifacts.py`, `final_manifest.py`, `terminal.py`, `result_codecs.py` | content-addressed files | publish once, verify | harness |
| Campaign safety | `harness/real_hfss_safety.py`, `calibration_safety.py`, `optimization_diagnostic_safety.py`, `execution_policy.py`, `provenance.py` | authorization documents and what consumed them | gates before physical work | command line, campaigns |
| Campaigns | `evaluation/calibration_campaign.py`, `optimization_diagnostic_campaign.py`, `calibration.py` | ordered trials and receipts | fixed sequences of solves | safety, adapter |
| Evaluation | `evaluation/evaluator.py`, `comparator.py`, `rule_semantics.py`, `contract.py`, `model_alignment.py` | none | evaluate, rank, compare | nodes |
| Optimizers | `optimization/*.py` | none | build intent and objective, batch | nodes |
| Value objects | `domain/*`, `core/*`, `harness/reconciliation.py` | immutable | validation, canonical JSON | everything |
| Wiring | `cli.py`, `composition.py`, `diagnosis.py`, `__main__.py`, `harness/logging.py` | none | argument parsing, composition, reports | everything |
| Numerical models | `parameters/*`, `sparameters/*`, `llm/*` | none | | nodes |
| Test hooks | `harness/fault_injection.py` | one crash point | | harness |
| Vendored code | `src/vendor/*` | | | loaded by adapters |

What makes it hard:

* **Interleaving.** Several processes and several threads of one process drive one
  Run; heartbeats, expiry and operators act at any moment; several processes poll
  one lock file. A provider is called outside every transaction.
* **Loss.** A process can be lost between any two writes; an operation whose outcome
  is not known must neither be repeated nor forgotten.
* **Time.** Leases, deadlines, cancellations and late answers race.
* **Resumption.** Every invocation starts at START and has to find its place from
  checkpoints, receipts and events written at different moments.
* **Limits.** Seven budgets of the loop, a cost budget and a launch ceiling of the
  Run, each of which may run out at any turn.

What makes each part correct is in section 3, with the module that says it.

## 2. Plan

Done, in this order (the behaviour the whole system rests on first):

1. `RunStore`, its abstraction `ActionLedger`, the refinement, and the proofs of all.
2. `HarnessCore`, which composes threads with `RunStore` and implements it; its proofs.
3. `LicenseLock`: the serialization of the one resource outside the database.
4. `ProcessSupervisor`: what the answer of a supervised worker means.
5. `ClosedLoop`: the policy, the nodes, the runner; termination and honesty.
6. `ArtifactStore`: create-once publication by racing and lost writers.
7. `HfssJob`: one solve from the provider call to its receipt; it composes
   `ProcessSupervisor` and `ArtifactStore` with the adapter, the worker's program, the
   license and an operator.
8. `Evaluation` and `Campaign`: what is concluded from paired results, and the two
   physical campaigns with their gates, walked through by several processes.
9. `RuleEvaluation`: margins, ranks and promotion, which `ClosedLoop` now uses on
   measured responses.

Next:

10. Damaged rows and files: the decoding of checkpoints and results, and which
    component refuses what.
11. The achieved frequency margin of the evaluation.

Runs stay few: one per question. Bounds are given with each run in section 4.

## 3. The modules

Each module names in its header the files it models; how they compose:

    ActionLedger  <-implements-  RunStore  <-implements-  HarnessCore
    ProcessSupervisor, ArtifactStore  <-extends-  HfssJob
    RuleEvaluation  <-extends-  ClosedLoop          Evaluation  <-extends-  Campaign
    LicenseLock

`MC*` modules give the constants of a small instance; `*Proofs` modules hold the theorems.

### RunStore, RunStoreRefinement, ActionLedger (`harness/run_store.py`)

Each public mutating method of class `RunStore` is one action with the method's name:
they are single transactions, so this is the granularity of the code. A call that
raises or finds its work done changes no row and is a stuttering step. The callers are
arbitrary: any owner token may present any fence ever issued. Rows become functions on
requests: `status`, `holder`, `attempt`, `reservation`, `result`, `recon`, `opLive`
(lease not expired). A request has two identities, the caller's idempotency key
(`IdemKey`) and the semantic key (`SemKey`); acquisition matches an existing row by
either. Wall-clock comparisons are booleans that `RunLeaseLapses`,
`OperationLeaseLapses` and `GrantLapses` may set at any time, so every race with the
clock is explored.

`ActionLedger` is what the control plane promises without owners, leases, budgets or
attempts: an action, named by its *meaning*, starts at most once, gets one verdict, and
blocks the Run while its outcome is lost. `RunStoreRefinement` reads the rows by meaning
(`ledgerOf`, `gateOf`) and states that `RunStore` implements it.

### HarnessCore (`harness/core.py`, parts of `agent/workflow_runner.py`)

Extends `RunStore` with threads. Every step of a thread is at most one transaction of
the store; between them it may be slow, lose its lease, raise or die. `pc` names the
phases of `run_invocation` and `execute`: *entered* (recovery first), *graph*, then
*claimed*, *running*, *frozen* (value stored, receipt not yet committed), *failing* or
*doubting* (the failure is known or ambiguous), *waiting* (another owner executes),
*holding*, *leaving*. Threads with one `Token` share a `HarnessCore`. What the graph
asks for is arbitrary. `ImplementsRunStore` says that the threads only do what
`RunStore` allows, so all its theorems hold of them. The claim of a held Run gives no
fence (`EnterUnfenced`, `myFence` 0): such a thread expires stale operations like any
other, and if the Run has been reconciled when it is read again (`ReadRun`), it drives the
graph without a fence, which the store admits while the Run has no owner. The code reads
the Run right after it expired what was stale; `ReadRun` asks for nothing to be stale,
which orders the same steps. `HeardIsDurable` compares what the
graph was told with the database: an answer is the stored verdict of a settled row.

### LicenseLock (`license_lock.py`, `lock_reconciliation.py`, the with-block of `guarded_adapter.py`)

There is no transaction here: each read, exclusive create, replace and unlink of the
path is a step of its own. `path` is the file's content (its writer and its mark, EMPTY
between create and write); `saw` is what a waiter read first; `residual` are processes
whose worker tree nobody verified to be gone. The operator's reconciliation is four
steps and may be interrupted between any two, leaving its temporary file behind.

### ProcessSupervisor (`process_supervisor.py`)

The parent's control flow against an arbitrary worker tree, for both containments: the
kill-on-close Job of Windows, where the worker is created suspended, and the process
group of POSIX. `Posix` chooses; `Empty` is what `active_processes() == 0` sees. A
worker may exit leaving descendants, and the clock's three booleans race. A POSIX
descendant that leaves its group with `setsid` is not modelled: the code does not claim
to see it.

### ArtifactStore (`harness/artifacts.py`)

`write_immutable` file step by file step: an exclusive temporary of a random name,
filling it, `os.link` to the final path, removing the temporary. A final path is named by
the digest of its content, so a content stands for its path. `disk` is what a reader
finds (*absent*, *torn* or *whole*), `temp`, `target` and `step` belong to a writer,
`receipts` are what it was given back. Writers may race for one path and be lost
anywhere. That the bytes of a path that exists are compared is the guard of `Publish`:
two contents of one digest do not exist, a torn file would be refused.

### HfssJob (`guarded_adapter.py`, `worker_backend.py`, `pyaedt_worker.py`, `HarnessCore.execute`)

Extends the two modules above. `at` is where the adapter's thread is: *preflight* and
*copying* (the composite backend verifies the Builder's sources, copies them file by
file and verifies the copy), *waiting* for the license, then for every stage *invoking*
and *supervising*, *doubting* after a process outcome that is unknown, *closing*,
*returned*, *freezing*, *frozen*, *done*. A job is either composite (one worker) or staged (build, solve,
extract). The worker's program (`Build`, `Solve`, `Extract`, `Respond`) runs inside the
tree of `ProcessSupervisor`, whose exit code and verdict race the response file;
`Believed` is when the response counts. `Quarantine` and `Return` are the exception
handlers and the with-block's exit, in their order, each of whose disk writes may fail.
Freezing takes the value first and then each native file: `before` is `stat` before the
copy, and the same version is demanded after it. Around the job: someone edits the
sources (`EditSource`), a rival takes the license, AEDT outlives its worker and goes on
writing (`LateWrite`), the operation's lease lapses, an operator publishes evidence and
settles (`PublishEvidence`, `Settle`), the agent's process is lost anywhere.

`lock` is here one job's view of the license; who gets it next is `LicenseLock`'s
matter. `LicenseCoversTree` names its two exceptions: a lost agent, and a disk that
refuses the quarantine marker.

### ClosedLoop (`closed_loop_graph.py`, `closed_loop_policy.py`, `comparison_nodes.py`, `workflow_runner.py`)

`Decide` is `ClosedLoopPolicy.decide`: `Choice`, with its parts `CandidateTurn` and
`SearchTurn`, is `_choose`; `Turn` makes the last admitted turn a finalization. Each
node is one action for each checkpoint it saves (`RunOptimizer`, `EndOptimize`; `Screen`,
`Gate`; `ObserveCandidate`, `Compare`, `Promote`, `Settle`), because a process may be
lost between two saves. `loop` is the State in memory, `saved` the latest checkpoint,
`revision` its number, `decided` the `policy_decision` events, `receipts` the durable
HFSS outcomes, `held` the operation that waits for an operator. `Legal` is what the
constructors of the controller and of the State accept; a decision they refuse ends the
invocation as *raised*. `Enter` starts an invocation from START with the last
checkpoint; `fail` and `hold` are what the runner does with `WorkflowError` and
`OperationUnknownError`; any other exception is a `Crash`.

Data: a solve comes to one of `Designs`, whose S parameters (`Solves`) `RuleEvaluation`
judges by `Rules`; or its result is no success (`Failed`), or its operation was
`Rejected`. Whether the gate passes a candidate, which candidate is recommended, and
whether an answer comes at all are choices. The optimizer's candidates get fresh numbers,
which is what the providers in the package do; a repeated name would be refused by the
State's validation. Budgets and counters are exact. The seven baseline checkpoints of the
bootstrap are two steps here.

The reuse branches at the head of the nodes (a result that the State already has) are
not reachable in this model: a node is re-entered only through a repeated decision event,
which is refused (section 5).

### RuleEvaluation (`evaluation/evaluator.py`, `rule_semantics.py`, `comparator.py`)

A rule asks one parameter to stay on one side of a threshold over a band. `Points`,
`Interpolated`, `WorstMargin` and `Violation` are the evaluator's; `RuleRank` is the
tuple it sorts by (the rules of a contract are listed in its order, mandatory first, then
by name), with the comparator's strict order in `PromotionEligible`. `IsContract` and
`IsResponse` say what the contract's loader and the evaluator's own checks let through:
distinct rule names, mandatory rules, bands that are intervals, finitely many samples.
`Covers` is what makes an evaluation INVALID: fewer than two samples, or a band that
reaches beyond them. The module
also says what the rules *mean*, without points, margins or ranks (`Complies`,
`MandatoryMet`: at every frequency of the band, between the samples too).
`ClosedLoop`'s `HonestEnd` and `BestIsBest` speak in that second language, so they check
the evaluator as well as the loop. Frequencies and levels are integers;
`MCClosedLoop` has six rules on three adjoining bands whose edges lie between samples,
and five designs: all rules hold; only the mandatory ones; one mandatory rule fails only
at an edge between samples; two fail by less; the sweep is too short.

### Evaluation (`calibration.py`, `domain/contracts.py`, `optimization_diagnostic_campaign.py`)

`AssessCalibration` is the calibration report with its reasons, `IsEvidence` what the
constructor of `CalibrationEvidence` recomputes and accepts, `DiagnosticReport` the
comparison of a candidate with the baseline. A response is the numbers these take from it.

### Campaign (`calibration_campaign.py`, `optimization_diagnostic_campaign.py`, `*_safety.py`)

A campaign is a plan: two operations for each case (surrogate, solve) and one for the
evidence. `process` is where each script is. The gate reads the repository in three steps
(`CheckManifest`, `Fingerprint`, `Compose`), and `Edit` may come between any two. `Claim`,
`Reuse`, `Refuse`, `Return`, `Ambiguous`, `Fail` are the ends of one call of
`HarnessCore.execute`; `Commit` is the terminal checkpoint. `Enter` goes on without an invocation when the Run is not
ACTIVE, as the campaigns do. `ConfirmSucceeded` and `ConfirmFailed` are the operator's,
who cannot bring the native files of a solve. `OpenRealRun` is the readiness gate of a
real Run, which asks for passing evidence of a calibration. `measured` is a history
variable: what this campaign's own solves returned; `Calibrated` judges it without
`AssessCalibration`.

Left out: the operations that only record a candidate; the gate's second reading of the
contract and its refusal of damaged files; the check of a pair's frequency grid, taken
to pass; the campaigns' budgets, which pay for their plans.

## 4. Runs

All runs disable the deadlock check because the modelled systems really stop: a completed
Run, an exhausted bound on invocations, a finished supervision, a job that is done.

| Run | Question | Instance and bounds |
|---|---|---|
| `RunStoreControl` | Can interleaved admissions, retries, verdicts and late arrivals exceed the budget or the launch ceiling, repeat an action, give budget back, rewrite a verdict or leave the Run ACTIVE with an unknown outcome? Do the tables implement the ledger? | two solves and two artifact requests of one meaning, one of these under a solve's caller key; costs 1, 3, 2, 2, budget 4; one launch; 2 owners (symmetric), fences 0..2, a reconciliation grant that expires, one result, two states, one event |
| `HarnessDelivery` | Is what the graph hears durable, is the operation of a lost process resolved, even while the Run is held for another, do the threads implement the store? | two threads of two processes, one may be lost; two ambiguous actions (`HarnessFences` has one whose failure is known); fences 0..3 |
| `HarnessFences` | Is every provider called at most once per meaning? Can a thread that lost its invocation become the writer again? | three threads, two of one HarnessCore; two requests of one meaning; fences 0..3 (a thread that is lost and one that never moves again are the same to these properties) |
| `HarnessStaleWriter` | *(finding)* does a stale writer admit actions? | two threads |
| `LockSlot` | Is AEDT used by one process at a time, are quarantines durable, does the file of a lost owner give way? | three processes, one may be lost, one whose quarantine may fail to be written, one operator |
| `LockReclaimRace` | *(finding)* can two processes be in their with-blocks? | the same, with a lost owner |
| `HfssJob` | Is a success the whole work of a tree that is gone, on the attested Builder? Does the license cover the tree, is an unknown outcome told, are frozen files final, do receipt and adjudication exclude each other, does every job end? | composite or staged; one AEDT descendant in a Job; two source files; one failing disk write; one late write of AEDT; the thread and an operator as writers |
| `SupervisorGroup` | *(finding)* is a stopped worker reported as stopped? | a worker with AEDT and a companion, POSIX group |
| `ClosedLoop` | Does the search end within its budgets, with a status the measured responses support, and with the best design? | two batches of one or two candidates, 14 turns, 3 screenings, 2 candidate solves, 1 reoptimization, 1 retry, stagnation 2; five designs, six rules; two invocations |
| `ClosedLoopRejected` | *(finding)* is exhausted search a failure? | the same, with the real provider (no retry of a failed solve) |
| `ClosedLoopResume` | *(finding)* does a lost invocation go on? | the same as `ClosedLoop` |
| `Campaign` | Does a campaign's verdict rest on its own solves? Which evidence opens a real Run? Can a solve run on another builder than approved? What stops a campaign? | two processes; either campaign; every end of each call; one event: an edit, an expiry, a lost process or a lapsed lease |

`HfssJob` checks the supervisor and the artifact store inside the composition: their types
are part of `JobInv`, and a supervisor that answered before the tree is gone would break
`LicenseCoversTree`. `ControlInv` contains the invariants of a completed Run and of
receipts, and `ImplementsActionLedger` implies that only a reconciliation makes a held Run
ACTIVE; these have theorems of their own (section 6).

Why these are enough: a race needs two actors, and a takeover of a takeover three;
every budget in the instances is smaller than what the instance can ask for, and every
bound can be reached with work left over, which the broken variants kept in the modules
(marked *Bug:* beside the definitions they change) confirm: each of them makes a property
fail within these bounds. The designs differ pairwise in which rules they meet, and one
of them is worse than another although it fails in fewer rules only by count; the
readings of the campaign agree with the surrogate, tie, or contradict it, and exceed each
error limit alone. Bounds that exist only for checking: `MaxFence`
(takeovers of the invocation), `MaxInvocations` (how often a Run is resumed; a lost
invocation is one that another one follows), one interruption of a supervision, one
quarantine per process, `MaxFaults`, `MaxLateWrites`, `MaxEvents`; and an operator
settles a lost agent's operation in `HfssJob` only if it was lost while it published.

Fairness, and what the code does to justify it:

* `HarnessCore`: a live thread goes on (each phase is straight-line code, a provider call
  that returns or raises, or a wait with a timeout); the lease of a *dead* owner lapses,
  because its heartbeat died with it. Nothing is assumed of live leases, of the operator
  or of the graph. `OrphansAreResolved` allows for the callers using up the bound on
  invocations first.
* `LicenseLock`: a process that works leaves, a process that polls polls again. Nothing
  is assumed of the operator.
* `ProcessSupervisor` and `HfssJob`: the thread runs on, the deadline passes, a delivered
  kill is carried out, the lease of a lost agent's operation lapses. Nothing is assumed
  of a worker that was not killed, of AEDT or of the operator.
* `ClosedLoop`: the next node runs and an ACTIVE Run is invoked. `LoopFinishes` speaks
  only of Runs whose process lives and whose operations have outcomes.
* `Campaign`: each script's calls return or time out, and the scripts are started again.
  `EndsOrIsBlocked` names everything that may stop a campaign (`Blocked`); nothing is
  assumed of the operator.

## 5. Where the code and its documents disagree

1. `HarnessStaleWriter`. The store compares the fence only while the Run has an owner.
   After a takeover whose new owner has left, the old writer admits actions and saves
   checkpoints with its old fence. (The safety of actions does not depend on it: they
   are still started once.)
2. `LockReclaimRace`. Two waiters that read the same stale file unlink one after the
   other; the second unlink removes the first waiter's new lock.
3. `SupervisorGroup`. On POSIX a killed but uncollected leader keeps its group from
   looking empty, and it is collected only when the group looks empty: every stopped
   worker is reported as UNKNOWN.
4. `ClosedLoopRejected`. If no candidate of the first batch is solved successfully, the
   reoptimization uses the baseline's diagnosis, but the optimizer's node insists on a
   candidate's and the Run ends as FAILED. The same happens after an INVALID evaluation.
5. `ClosedLoopResume`. The event of a decision contains the checkpoint revision. A process lost
   between the event and the end of its node leaves an event that no later invocation can repeat,
   because the bootstrap saves new revisions first; the Run stays ACTIVE for ever.

Behaviours that the models have and the properties allow for, worth knowing when
reading the code:

* A Run can be held for an operation that was adjudicated in the meantime and then has
  nothing left to reconcile (`HarnessCore`, `Hold`).
* After a baseline solve of unknown outcome has been reconciled, every invocation decides
  RECONCILE again until the iteration budget is overdrawn (`ClosedLoop`, `Reconcile`;
  `NoIllegalState` says it is the only way there).
* If the quarantine marker cannot be written, the with-block releases the license over
  an unverified tree and the job is reported as FAILED (`HfssJob`, `Quarantine`). The
  ledger still says UNKNOWN: every real solve that is no success is.
* A campaign does not look at the disposition of its claim (`calibration_campaign.py:230`)
  and goes on without an invocation; the store refuses what it may not do.
* No part of a campaign calls `expire_stale_operations`, which only `workflow_runner.py:81`
  does: the operation of a lost script stays RUNNING and stops the campaign, with nothing
  an operator could reconcile (`Orphaned`). `docs/PROJECT_STATUS.md:40` describes lost
  leases as becoming UNKNOWN. The same holds of an operation that FAILED, such as a raising surrogate.
* A solve that the operator confirms as a success has no native files, which the campaign
  demands of every receipt: it is refused for ever.
* With too few comparable pairs the assessment gives a reason, but `CalibrationEvidence`
  accepts no report with too few pairs: the Run stays ACTIVE without a verdict.
* A builder edited between its fingerprint in the gate and its attestation by
  `compose_pyaedt_hfss` is used (`DriftOnlyInWindow` says that this is the only way).
* A real Run can be opened on frozen evidence of a calibration that was not completed
  (`OnlyCalibratedOpens` says that the evidence is right nevertheless).

## 6. Theorems

Each holds for all values of the constants that satisfy the module's named assumption
(`RunStoreAssumption`, `RefinementAssumption`, `HarnessAssumption`, `LockAssumption`,
`SupervisorAssumption`, `StoreAssumption`, `JobAssumption`, `LoopAssumption`,
`CampaignAssumption`), which type
the constants and otherwise say only that requests are finitely many and have a meaning, that the solves
are among the ambiguous ones, that rules and responses are such as the contract's loader
and the evaluator accept (`MeasurementAssumption`), that a job's thread and operator are writers of its
contents, and that a calibration policy and a recommendation are such as the constructors
of `CalibrationPolicy` and of the diagnostic plan accept.

**`RunStoreProofs`.** `ControlInv` is the inductive invariant: the type invariant, the
coherence of reservations and leases with their rows (`LedgerShape`), of the invocation
with the status (`RunShape`), and the four safety invariants that need one another: an
unknown outcome holds the Run, a completed Run is settled, a verdict has one source, a
receipt belongs to a success. None of them is inductive alone: that a completed Run is
settled needs that a Run with an unknown outcome is not ACTIVE, and the sources of
verdicts need that an attempt ends only with its operation. From it follow
`ControlInvariant` and its four parts (`UnknownTheorem`, `CompletedTheorem`,
`SourceTheorem`, `ReceiptVerdictTheorem`), `SettledTheorem`, `FrozenTheorem` and, with
counting arguments about finite sets of cost units, `BudgetTheorem`, `LaunchTheorem`,
`NoRefundTheorem`; `IdentityTheorem` shows that admitted operations differ in both
identities; `HistoryTheorem` and `ReactivationTheorem` that no checkpoint repeats an
earlier one and that only a reconciliation makes a held Run ACTIVE.

In the same module, `LedgerTheorem`: the tables implement `ActionLedger`. The
refinement reads a meaning's row with CHOOSE; by `OneOperationPerAction` there is at most
one, so the choice is none (`ReadingStatus`). `ReadingNext` says what a change of one
row changes in the reading, and `RefinementStep` maps each transaction to one step of the
ledger or to none.

**`HarnessCoreProofs`.** `ThreadTheorem`: in every phase a thread has the operation, value
and fence the phase needs. `RefinementTheorem`: every step of the threads is a transaction
of the store or none. `DeliveryTheorem`: no provider is called twice
for one meaning, for any number of threads, from the uniqueness of the admitted row, the
uniqueness of its executing thread, and the calls each phase may have made.
`HeardTheorem`: what the graph heard is durable, because settled rows do not change and a
thread tells only what it found settled. `LostTheorem`: an invocation that was taken over
never becomes the current one again. Owner tokens are shared by the threads of a process
and come back, so the argument is about fences: no thread is ahead of the store's
(`FenceInv`), and each new writer comes with the next one (`WriterStep`).

**`LicenseLockProofs`.** The invariant `LockInv` says, before any process is lost, who may
be where given what the path leads to (`LockTheorem`). `LicenseTheorem` and
`QuarantineTheorem` follow for any number of processes.

**`ProcessSupervisorProofs`.** `SupervisionTheorem` and `KnownTheorem` for any set of
descendants and both platforms: what the parent answers it has seen, and what is gone
cannot come back.

**`HfssJobProofs`.** First the artifact store by itself. `PublicationTheorem`: a temporary
is whole before it is linked, for any writers and contents. `ReceiptTheorem`: no final path
is ever torn and every receipt verifies.

Then the job. The inductive invariant `JobIInv` joins the supervisor's invariant and
what it answered (`AnswerInv`), the store's (`PublicationInv`), `JobInv`, and what each
place of the adapter implies for license, tree, work, journal and frozen versions
(`JobShape`). Frozen files are final because freezing starts only after an answer RESULT,
which means that the tree is gone and cannot write; a receipt and an adjudication exclude
each other because both look at the operation in the transaction that changes it. Eight
theorems follow, for any source files, descendants, writers, contents and numbers of
faults, on both platforms.

**`ClosedLoopProofs`.** `SolveBudgetTheorem`: the solver is given no more candidates than
the budget allows. The property speaks of receipts, the budget of a count in a saved
State, and between them lie four saves, a crash and an operator. The inductive invariant
`BudgetIInv` therefore says of the working State and of the saved one: every receipt of a
candidate is known to the State but the one of its pending solve (`Recorded`), every
known solve is counted but that one (`Counted`), and while it is pending the count is
below the budget. `PlacedAt` ties the pending action to the node that runs, and
`Resumable` an operation held for adjudication to the pending solve, so that a receipt
that arrives from the operator is still the one the count leaves room for.
`TurnWithinBudget` is the policy's part: it chooses a solve only below the budget.

`LoopTheorem` and `LegalStateTheorem`: the bookkeeping is coherent, and no node builds a
State that its own validation refuses, for any budgets and any loss or hold of an
invocation. A node does not look at what it relies on, such as a queue with candidates, a
current one that is not consumed or a count below its limit: the policy did, a turn
earlier. `LoopIInv` keeps that knowledge until it is used. `Grounds` says what a pending
action was decided on, and `Grounded` that it still holds where its node runs. `Sound`
adds to `LoopInv` what the names need: those that a State may know (`Named`) are numbered
by the candidates offered and the retries made, so that a new batch and a safe retry are
new, and their sums bound the counts. A crash returns to the saved State, which may have
an action pending whose node has half run; `EventInv` keeps the decision's event at an
earlier revision, so the decision is refused when it is repeated (`PendingIsRefused`) and
the node is never run on grounds that are gone. `StatusInv` ties the status of the Run to
that of the State. That the last admitted turn finalizes is `TurnGrounds`.

`BestTheorem` and `HonestTheorem`: what the search concludes. A candidate is compared
with the Best of its time only, and the comparator orders ranks, so that the invariant
`ResultIInv` has to carry what the chain of promotions has shown: Best is a valid solve
that no compared solve is ahead of, and is ahead of the baseline unless it is the
baseline (`Leads`). The pending candidate is not compared yet (`Settled`); a crash
between its solve and its promotion leaves it so for ever, which is why the invariant
needs that a repeated decision is refused: no turn is taken, nor an end found, with a
solve that was left out. A solve that a State knows is the receipt's (`Ranked`), and no
operation that has a receipt is held. `Standing` is what a node knows of the solves:
candidates are solved only after a valid baseline, a candidate's solve was unknown when
it was decided on, and a reason to finalize keeps what the policy saw (`Reasoned`).
`Promotion` is the step that needs the order: what was not ahead of the old Best is not
ahead of the new one, because the new one is ahead of the old (`AheadOrders`).
`HonestTerminal` then reads the status off: every receipt is known to the State that
finalizes (`ReceiptsKnown`), a design that holds the mandatory rules has a rank that
begins with 0, and one whose rank begins with more is not Best as long as there is one.

**`RuleEvaluationProofs`.** `EvaluationTheorem`: for any contract and any response the
verdict is what the rules mean. A rule is judged at the samples and the edges of its
band; `Judged` shows that it then holds at every frequency in between, because the
interpolated values between two neighbouring points lie between theirs
(`ValuesBetween`, from the monotonicity of rounded division). `MetAndFailed` counts: the
mandatory rules that are met and the first count of the rank add up to all of them.
`BeforeOrders` and `FirstDecides` are the order of the ranks.

**`CampaignProofs`.** `CampaignTheorem`, `VerdictTheorem`, `OpeningTheorem` and
`WindowTheorem`, for any number of processes, any measurements and predictions, every
policy that `CalibrationPolicy` accepts and any number of disturbances. `CampaignInv` says
that nothing was started behind an operation that has not succeeded, but a process in the
middle of its walk, and one that has left its invocation to another, have to fit: the
inductive invariant `CampaignIInv` adds how the Run's status limits its operations
(`HoldInv`), that a process has only succeeded operations with their native files behind
it and one process is in a call (`WalkInv`), that a native receipt of a solve is what `measured` remembers
(`MeasuredInv`), that an `evidence` operation and a verdict were made of the measured
cases (`ConclusionInv`), and where a process can be whose builder changed (`WindowInv`). A
write of one operation is a `StepWrites`, and what each part keeps under it is proved once.
The report judges ordered pairs of indices and sums over indices; `Calibrated` judges sets
of cases. `PairsCounted` is the bijection between the two, and `RankingCounted` turns the
report's ratio of agreeing pairs into a ceiling on the disagreeing ones.

Only model-checked: every liveness property, for the prover has no ENABLED; every safety
property of a passing run is stated by a theorem. What a recursive definition computes for
all inputs could not be proved (no induction over data); the modules have no recursive
operators.

## 7. Not modelled

* Wiring, command line, reports, numerical models and vendored code have no behaviour over
  time that the properties could be about. Value objects and canonical JSON appear as the
  identities they compute. SQL failures are calls without effect; disk errors are modelled
  in `HfssJob` and `LicenseLock`, elsewhere they are exceptions.
* Decoding: a damaged checkpoint, result or document is refused where it is read, before
  anything is changed. The final manifest only reads a completed Run.
* Of the evaluation, the achieved frequency margin, the ranges of violation and the lists
  of a comparison, which are reported and decide nothing; the contract's validation is the
  part that `IsContract` states.
* Of the campaigns, what section 3 names; and the fields and signatures of their
  documents, and the probes of Git and of the environment, are whether the repository is
  as it was approved. Recovered evidence need not be of the same campaign
  (`Recovered`), because its constructor compares it with itself only.
* A process count that cannot be read is one that is not zero (`ProcessSupervisor`): the
  tree is not verified either way.
* The transactions of SQLite: a step of `RunStore` is atomic because the code runs it in
  `BEGIN IMMEDIATE`. What happens between two transactions is modelled, a transaction that
  is none is not.
* Optimizers are numerical: their call is `RunOptimizer`, their intent either active or
  invalid.
