----------------------------- MODULE ClosedLoop -----------------------------
(***************************************************************************)
(* The bounded search for a passing design: the policy that decides every  *)
(* turn (agent/closed_loop_policy.py), the nodes it routes to              *)
(* (agent/closed_loop_graph.py over agent/comparison_nodes.py), and the    *)
(* invocations that run them from START, are lost, held and resumed        *)
(* (agent/workflow_runner.py).                                             *)
(*                                                                         *)
(* A solve is one of the designs of Solves, judged by RuleEvaluation.  The *)
(* optimizer's candidates are numbered as they come; a subject is a        *)
(* candidate with the number of the safe retry that made it.               *)
(***************************************************************************)
EXTENDS RuleEvaluation, FiniteSets

CONSTANTS MaxIterations, MaxOptimizerCalls, MaxScreenings, MaxHFSSCalls,
          MaxReoptimizations, MaxSafeRetries, MaxStagnation, \* ClosedLoopBudget
          RealExecution,  \* manifest.real_execution
          MaxBatch,       \* candidates in a batch of the optimizer
          Designs,        \* what may be solved
          Solves,         \* [Designs -> their S parameters]
          Rules,          \* the rules of the evaluation contract
          MaxInvocations  \* bound: how often the Run is invoked

ASSUME LoopAssumption ==
    /\ {MaxIterations, MaxOptimizerCalls, MaxScreenings, MaxHFSSCalls,
        MaxBatch, MaxInvocations} \subseteq Nat \ {0}
    /\ {MaxReoptimizations, MaxSafeRetries, MaxStagnation} \subseteq Nat
    /\ RealExecution \in BOOLEAN
    /\ DOMAIN Solves = Designs /\ {"failed", "rejected", "absent"} \cap Designs = {}

ASSUME MeasurementAssumption ==
    /\ IsContract(Rules)
    /\ \A design \in Designs : IsResponse(Solves[design])

VARIABLES
    loop,      \* the State the running invocation works on
    saved,     \* the latest checkpoint
    revision,  \* its revision
    decided,   \* the policy_decision events
    receipts,  \* [Subjects -> the durable outcome of its HFSS operation]
    held,      \* the operation without a known outcome
    run,       \* status of the Run
    graph,     \* the next node, or how the last invocation ended
    invocations,
    disturbed  \* an invocation was lost or an outcome unknown

vars == <<loop, saved, revision, decided, receipts, held, run, graph,
          invocations, disturbed>>

\* What a solve may come to: a design's S parameters or a result with
\* success = False.
Failed   == "failed"
Rejected == "rejected"  \* the operation itself is FAILED
Absent   == "absent"
Outcomes == Designs \cup {Failed}

Evaluated    == [design \in Designs |-> Evaluate(Solves[design], Rules)]
Verdict(o)   == IF o \in Designs THEN Evaluated[o].status ELSE "NONE"
TargetMet(o) == o \in Designs /\ AllRulesPass(Evaluated[o])

Nobody       == << >>
OptimizerRun == <<0>>
Surrogate    == <<1>>
Baseline     == <<0, 0>>
Ids      == (1..(MaxBatch * MaxOptimizerCalls)) \X (0..MaxSafeRetries)
Subjects == Ids \cup {Baseline}

Nodes == {"PREPARE_OPTIMIZATION", "OPTIMIZE", "SELECT_NEXT_CANDIDATE",
          "SCREEN_CANDIDATE", "RUN_CANDIDATE_HFSS", "NEXT_CANDIDATE", "REOPTIMIZE",
          "RETRY_SAFE", "RECONCILE", "FINALIZE"}
Ended == {"out", "raised", "refused"}

InitialState ==
    [status |-> "RUNNING", error |-> "none",
     sparams |-> [i \in Subjects |-> "none"], hfss |-> [i \in Subjects |-> Absent],
     best |-> Nobody, compared |-> {}, diagnosed |-> {},
     offered |-> 0, queue |-> << >>, recommended |-> Nobody,
     current |-> Nobody, gate |-> "none", consumed |-> << >>,
     objective |-> "none", prepared |-> 0,
     iterations |-> 0, optimizerCalls |-> 0, screenings |-> 0, hfssCalls |-> 0,
     reoptimizations |-> 0, retries |-> 0, stagnation |-> 0,
     pending |-> "none", reason |-> "none"]

\* What the constructors of the controller and of the State accept.
Legal(s) ==
    /\ s.iterations <= MaxIterations
    /\ s.optimizerCalls <= MaxOptimizerCalls
    /\ s.screenings <= MaxScreenings
    /\ s.hfssCalls <= MaxHFSSCalls
    /\ s.reoptimizations <= MaxReoptimizations
    /\ s.retries <= MaxSafeRetries
    /\ IsInjective(s.consumed)
    /\ IsInjective(s.queue)
    /\ s.current \notin ToSet(s.consumed)

\* \E t \in {s} has TLC evaluate s once.
save(s, next) ==
    /\ \E t \in {s} :
       IF Legal(t)
       THEN loop' = t /\ saved' = t /\ revision' = revision + 1 /\ graph' = next
       ELSE graph' = "raised" /\ UNCHANGED <<loop, saved, revision>>
    /\ UNCHANGED <<decided, receipts, held, run, invocations, disturbed>>

\* A WorkflowError reaches the runner: the Run is completed as FAILED.
fail(cause) ==
    /\ saved' = [saved EXCEPT !.status = "FAILED", !.error = cause]
    /\ revision' = revision + 1
    /\ run' = "COMPLETED"
    /\ graph' = "out" /\ loop' = saved'
    /\ UNCHANGED <<decided, receipts, held, invocations, disturbed>>

\* An OperationUnknownError does: the Run is held for the operation.
hold(operation) ==
    /\ saved' = [saved EXCEPT !.status = "WAITING", !.gate = "waiting"]
    /\ revision' = revision + 1
    /\ held' = operation
    /\ run' = "WAITING_RECONCILIATION"
    /\ graph' = "out" /\ loop' = saved'
    /\ disturbed' = TRUE
    /\ UNCHANGED <<decided, receipts, invocations>>

-----------------------------------------------------------------------------
(* ClosedLoopPolicy.                                                       *)

choice(action, reason) == [action |-> action, reason |-> reason]
finalize(reason)       == choice("FINALIZE", reason)
NextCandidate          == choice("NEXT_CANDIDATE", "candidate_done")
RetrySafe              == choice("RETRY_SAFE", "confirmed_failure")

\* Bug: a partial success is forgotten.
NoSolution(s)     == finalize("budget_exhausted")
BudgetTerminal(s) == IF Verdict(s.hfss[s.best]) = "PASS"
                     THEN finalize("core_pass_margin_incomplete")
                     ELSE finalize("budget_exhausted")

\* Bug: off by one.
HFSSBudgetPassed(s) == s.hfssCalls > MaxHFSSCalls
HFSSBudgetSpent(s) == s.hfssCalls >= MaxHFSSCalls

CandidateTurn(s) ==
    LET c == s.current
        retry == s.retries < MaxSafeRetries
    IN  CASE s.sparams[c] = "none" ->
               IF s.screenings >= MaxScreenings THEN BudgetTerminal(s)
               ELSE choice("SCREEN_CANDIDATE", "requires_screening")
          [] s.sparams[c] = "failed" -> IF retry THEN RetrySafe ELSE NextCandidate
          [] s.sparams[c] = "success" /\ s.gate = "stop" -> NextCandidate
          [] s.sparams[c] = "success" /\ s.gate # "stop" /\ s.hfss[c] = Absent ->
               IF HFSSBudgetSpent(s) THEN BudgetTerminal(s)
               ELSE choice("RUN_CANDIDATE_HFSS", "screen_passed")
          [] s.sparams[c] = "success" /\ s.gate # "stop" /\ s.hfss[c] = Failed ->
               IF ~RealExecution /\ retry THEN RetrySafe ELSE NextCandidate
          [] OTHER ->
               IF c \in s.compared /\ TargetMet(s.hfss[c])
               THEN finalize("candidate_target_met") ELSE NextCandidate

SearchTurn(s) ==
    IF s.queue # << >> THEN choice("SELECT_NEXT_CANDIDATE", "queue_available")
    ELSE IF \/ s.stagnation >= MaxStagnation
            \/ s.optimizerCalls >= MaxOptimizerCalls
    THEN BudgetTerminal(s)
    ELSE IF s.prepared = s.optimizerCalls + 1
    THEN choice("OPTIMIZE", "request_prepared")
    ELSE IF s.optimizerCalls = 0
    THEN choice("PREPARE_OPTIMIZATION", "initial_optimization_required")
    ELSE IF s.reoptimizations >= MaxReoptimizations
    THEN BudgetTerminal(s)
    ELSE choice("REOPTIMIZE", "queue_exhausted")

Choice(s) ==
    CASE s.status = "WAITING" -> choice("RECONCILE", "requires_reconciliation")
      [] s.status # "WAITING" /\ Verdict(s.hfss[Baseline]) \in {"NONE", "INVALID"} ->
           finalize("baseline_evaluation_invalid")
      [] s.status # "WAITING" /\ TargetMet(s.hfss[Baseline]) ->
           finalize("baseline_target_met")
      [] OTHER -> IF s.current # Nobody THEN CandidateTurn(s) ELSE SearchTurn(s)

\* Bug: the last turn is like every other.
AnyTurn(s) == Choice(s)
\* The last admitted turn is a finalization.
Turn(s) == IF /\ s.iterations + 1 >= MaxIterations
              /\ Choice(s).action \notin {"FINALIZE", "RECONCILE"}
           THEN BudgetTerminal(s) ELSE Choice(s)

\* A pending action is decided already.
Decide(s) == IF s.pending # "none" THEN s
             ELSE [s EXCEPT !.iterations = @ + 1,
                            !.pending = Turn(s).action, !.reason = Turn(s).reason]

-----------------------------------------------------------------------------
(* The nodes.  Every one of them but the bootstrap ends the pending action. *)

done(s) == [s EXCEPT !.pending = "none"]
within(node) == graph = node /\ run = "ACTIVE"

Init == /\ loop = InitialState /\ saved = InitialState /\ revision = 0
        /\ decided = {} /\ receipts = [i \in Subjects |-> Absent]
        /\ held = Nobody /\ run = "ACTIVE" /\ graph = "out"
        /\ invocations = 0 /\ disturbed = FALSE

BaselineSurrogate ==
    /\ within("bootstrap")
    /\ IF loop.sparams[Baseline] = "success" THEN save(loop, "baseline")
       ELSE \/ save([loop EXCEPT !.status = "RUNNING",
                                 !.sparams[Baseline] = "success"], "baseline")
            \/ fail("provider")

Solving(id) == \/ graph = "baseline" /\ id = Baseline
               \/ graph = "RUN_CANDIDATE_HFSS" /\ id = loop.current

CallHFSS(id) ==
    /\ run = "ACTIVE" /\ Solving(id) /\ receipts[id] = Absent
    /\ \E outcome \in Outcomes : receipts' = [receipts EXCEPT ![id] = outcome]
    /\ UNCHANGED <<loop, saved, revision, decided, held, run, graph, invocations,
                   disturbed>>

\* The provider raises: its operation is UNKNOWN.
HFSSUnknown(id) == run = "ACTIVE" /\ Solving(id) /\ receipts[id] = Absent /\ hold(id)

\* Evaluated, diagnosed and frozen; the first Best is the baseline.
ObserveBaseline ==
    /\ within("baseline") /\ receipts[Baseline] # Absent
    /\ IF receipts[Baseline] \in {Failed, Rejected} THEN fail("provider")
       ELSE IF loop.hfss[Baseline] # Absent THEN save(loop, "controller")
       ELSE save([loop EXCEPT !.hfss[Baseline] = receipts[Baseline],
                              !.best = Baseline], "controller")

\* The event of the decision names the revision it was taken at; an event of
\* the same name with another content is refused.
Event(s) == [turn |-> s.iterations, action |-> s.pending, revision |-> revision]
Conflict(e) == \E d \in decided : d.turn = e.turn /\ d.action = e.action /\ d # e

Controller ==
    /\ within("controller")
    /\ \E s \in {Decide(loop)} :
       \/ /\ ~Legal(s)
          /\ graph' = "raised" /\ UNCHANGED <<loop, decided>>
       \/ /\ Legal(s) /\ Conflict(Event(s))
          /\ graph' = "refused" /\ UNCHANGED <<loop, decided>>
       \/ /\ Legal(s) /\ ~Conflict(Event(s))
          /\ decided' = decided \cup {Event(s)} /\ loop' = s /\ graph' = "decided"
    /\ UNCHANGED <<saved, revision, receipts, held, run, invocations, disturbed>>

Route == within("decided") /\ save(loop, loop.pending)

\* What the optimizer is given next; the objective of an evaluation is ACTIVE
\* unless the evaluation is INVALID.
Prepared(s, evaluation) ==
    [done(s) EXCEPT !.prepared = s.optimizerCalls + 1,
                    !.objective = IF Verdict(evaluation) = "INVALID" THEN "invalid" ELSE "active"]

PrepareOptimization ==
    /\ within("PREPARE_OPTIMIZATION")
    /\ save(Prepared(loop, loop.hfss[Baseline]), "controller")

\* The latest consumed candidate that was diagnosed, or the baseline.
Evidence(s) == LET known == SelectSeq(s.consumed, LAMBDA c : c \in s.diagnosed)
               IN  IF known = << >> THEN Baseline ELSE Last(known)

Reoptimize ==
    /\ within("REOPTIMIZE")
    /\ IF loop.consumed = << >> THEN fail("no_evidence")
       ELSE save([Prepared(loop, loop.hfss[Evidence(loop)])
                    EXCEPT !.reoptimizations = @ + 1], "controller")

\* After the first call the diagnosis has to be one of a candidate.
Optimizable(s) == s.objective = "active" /\ (s.optimizerCalls = 0 \/ s.diagnosed # {})

RunOptimizer ==
    /\ within("OPTIMIZE")
    /\ \/ ~Optimizable(loop) /\ fail("no_evidence")
       \/ Optimizable(loop) /\ fail("provider")
       \/ Optimizable(loop) /\ hold(OptimizerRun)
       \/ /\ Optimizable(loop)
          /\ \E n \in 1..MaxBatch :
             LET batch == [k \in 1..n |-> <<loop.offered + k, 0>>] IN
             \E r \in ToSet(batch) :
                save([loop EXCEPT !.offered = @ + n, !.queue = batch,
                                  !.recommended = r], "optimized")

EndOptimize ==
    /\ within("optimized")
    /\ save([done(loop) EXCEPT !.optimizerCalls = @ + 1, !.gate = "none"], "controller")

\* Bug: a selected candidate stays in the queue.
WholeQueue(s, c) == s.queue
\* The candidates of a queue are distinct: that is one of the State's own checks.
Remaining(s, c) == RemoveFirst(s.queue, c)

SelectNext ==
    /\ within("SELECT_NEXT_CANDIDATE")
    /\ LET c == IF loop.recommended \in ToSet(loop.queue) THEN loop.recommended
                ELSE Head(loop.queue)
       IN  save([done(loop) EXCEPT !.current = c, !.queue = Remaining(loop, c),
                                   !.gate = "none"], "controller")

Screen ==
    /\ within("SCREEN_CANDIDATE")
    /\ \/ fail("provider")  \* the validator rejects it
       \/ \E outcome \in {"success", "failed"} :
             save([loop EXCEPT !.sparams[loop.current] = outcome], "screened")

Gate ==
    /\ within("screened")
    /\ \E gate \in {"run_hfss", "stop"} :
          /\ loop.sparams[loop.current] = "failed" => gate = "stop"
          /\ save([done(loop) EXCEPT !.gate = gate, !.screenings = @ + 1], "controller")

\* run_candidate_hfss saves four times: the result, the comparison, the Best
\* and the counts.
ObserveCandidate ==
    /\ within("RUN_CANDIDATE_HFSS") /\ receipts[loop.current] # Absent
    /\ IF receipts[loop.current] = Rejected THEN fail("provider")
       ELSE save([loop EXCEPT !.hfss[loop.current] = receipts[loop.current]], "observed")

Compare ==
    /\ within("observed") /\ loop.hfss[loop.current] # Failed
    /\ save([loop EXCEPT !.compared = @ \cup {loop.current}], "compared")

\* Bug: every candidate is compared with the baseline.
BeatsBaseline(s) ==
    PromotionEligible(Evaluated[s.hfss[Baseline]], Evaluated[s.hfss[s.current]])
BeatsBest(s) ==
    PromotionEligible(Evaluated[s.hfss[s.best]], Evaluated[s.hfss[s.current]])

Promote ==
    /\ within("compared")
    /\ save([loop EXCEPT !.diagnosed = @ \cup {loop.current},
                         !.best = IF BeatsBest(loop) THEN loop.current ELSE @],
            "promoted")

\* Stagnation counts the solves since the last promotion.
Settle ==
    /\ \/ within("promoted")
       \/ within("observed") /\ loop.hfss[loop.current] = Failed
    /\ save([done(loop) EXCEPT !.hfssCalls = @ + 1,
                               !.stagnation = IF loop.best = loop.current
                                              THEN 0 ELSE @ + 1], "controller")

Consumed(s) == [done(s) EXCEPT !.consumed = Append(@, s.current),
                               !.current = Nobody, !.gate = "none"]

ConsumeCandidate ==
    within("NEXT_CANDIDATE") /\ save(Consumed(loop), "controller")

\* The same values under a new name, before the rest of the queue.
QueueRetry ==
    /\ within("RETRY_SAFE")
    /\ LET retry == <<loop.current[1], loop.retries + 1>> IN
       save([Consumed(loop) EXCEPT !.queue = <<retry>> \o @, !.retries = @ + 1],
            "controller")

Reconcile == /\ within("RECONCILE")
             /\ save([done(loop) EXCEPT !.status = "WAITING", !.gate = "waiting"], "out")

\* The terminal status a reason stands for.
Terminal(s) ==
    CASE s.reason = "baseline_target_met"  -> "SUCCEEDED_BASELINE"
      [] s.reason = "candidate_target_met" -> "SUCCEEDED_CANDIDATE"
      [] s.reason = "core_pass_margin_incomplete" ->
           IF s.best = Baseline THEN "SUCCEEDED_BASELINE" ELSE "SUCCEEDED_CANDIDATE"
      [] s.reason = "baseline_evaluation_invalid" -> "INVALID"
      [] OTHER -> "NO_SOLUTION"

\* What the terminal reason has to be backed by.
Backed(s) ==
    /\ s.reason = "candidate_target_met" =>
         s.current # Nobody /\ Verdict(s.hfss[s.current]) = "PASS" /\ s.best = s.current
    /\ s.reason = "core_pass_margin_incomplete" => Verdict(s.hfss[s.best]) = "PASS"

Finalize ==
    /\ within("FINALIZE")
    /\ IF Backed(loop)
       THEN /\ loop' = [done(loop) EXCEPT !.status = Terminal(loop)]
            /\ saved' = loop' /\ revision' = revision + 1
            /\ run' = "COMPLETED" /\ graph' = "out"
            /\ UNCHANGED <<decided, receipts, held, invocations, disturbed>>
       ELSE fail("unbacked")

-----------------------------------------------------------------------------
(* Invocations of the Run.                                                 *)

\* An invocation first finds what the last one left without an outcome.
Enter ==
    /\ graph \in Ended /\ run = "ACTIVE" /\ invocations < MaxInvocations
    /\ invocations' = invocations + 1
    /\ IF held = Nobody
       THEN loop' = saved /\ graph' = "bootstrap" /\ UNCHANGED <<saved, revision, run>>
       ELSE /\ saved' = [saved EXCEPT !.status = "WAITING", !.gate = "waiting"]
            /\ loop' = saved' /\ revision' = revision + 1
            /\ run' = "WAITING_RECONCILIATION" /\ graph' = "out"
    /\ UNCHANGED <<decided, receipts, held, disturbed>>

\* The operation a node has under way, if it has one.
UnderWay ==
    IF \E id \in Subjects : Solving(id) /\ receipts[id] = Absent
    THEN {id \in Subjects : Solving(id)}
    ELSE CASE graph = "OPTIMIZE" /\ Optimizable(loop)  -> {OptimizerRun}
           [] graph = "SCREEN_CANDIDATE" -> {Surrogate}
           [] graph = "bootstrap" /\ loop.sparams[Baseline] = "none" -> {Surrogate}
           [] OTHER -> {}

\* The process is lost, or an exception that is no WorkflowError ends the call;
\* bounded to the losses that another invocation follows.
Crash == /\ graph \notin Ended /\ invocations < MaxInvocations
         /\ graph' = "out" /\ loop' = saved /\ disturbed' = TRUE
         /\ held' \in {Nobody} \cup UnderWay
         /\ UNCHANGED <<saved, revision, decided, receipts, run, invocations>>

\* An operator supplies the outcome of the operation the Run waits for.
OperatorReconciles ==
    /\ run = "WAITING_RECONCILIATION"
    /\ run' = "ACTIVE" /\ held' = Nobody
    /\ IF held \in Subjects
       THEN \E outcome \in Outcomes \cup {Rejected} :
               receipts' = [receipts EXCEPT ![held] = outcome]
       ELSE UNCHANGED receipts
    /\ UNCHANGED <<loop, saved, revision, decided, graph, invocations, disturbed>>

Bootstrap == BaselineSurrogate \/ CallHFSS(Baseline) \/ HFSSUnknown(Baseline)
             \/ ObserveBaseline
Decision  == Controller \/ Route
Searching == PrepareOptimization \/ Reoptimize \/ RunOptimizer \/ EndOptimize
Screening == SelectNext \/ Screen \/ Gate
Solve     == \/ \E id \in Ids : CallHFSS(id) \/ HFSSUnknown(id)
             \/ ObserveCandidate \/ Compare \/ Promote \/ Settle
Ending    == ConsumeCandidate \/ QueueRetry \/ Reconcile \/ Finalize

Proceed == Bootstrap \/ Decision \/ Searching \/ Screening \/ Solve \/ Ending \/ Enter
Next == Proceed \/ Crash \/ OperatorReconciles

\* The graph runs its next node while its process lives, and a Run that is
\* ACTIVE is invoked.
Spec == Init /\ [][Next]_vars /\ WF_vars(Proceed)

-----------------------------------------------------------------------------
\* The loop's bookkeeping is coherent whenever it is saved: an action is pending
\* exactly while its node runs or has been lost, no candidate is queued, current and
\* consumed at once, a Run that ended has a terminal State, and a prepared request
\* is the next one to make (agent/closed_loop_contracts.py, comparison_state.py).
LoopInv ==
    /\ Legal(loop) /\ Legal(saved)
    /\ graph \in Nodes \cup Ended \cup
         {"bootstrap", "baseline", "controller", "decided", "optimized",
          "screened", "observed", "compared", "promoted"}
    /\ saved.prepared <= saved.optimizerCalls + 1
    /\ ToSet(saved.queue) \cap (ToSet(saved.consumed) \cup {saved.current}) = {}
    /\ run = "COMPLETED" <=> saved.status \notin {"RUNNING", "WAITING"}
    /\ run = "WAITING_RECONCILIATION" => saved.status = "WAITING" /\ held # Nobody
    /\ graph \in Nodes => loop.pending = graph

\* A turn never leaves the State its own constructors refuse, unless the Run waits
\* for an operator: the last admitted turn always finalizes, and no node overdraws
\* a budget (agent/closed_loop_policy.py:32).
NoIllegalState == graph = "raised" => loop.status = "WAITING"

Met == [design \in Designs |-> MandatoryMet(Solves[design], Rules)]

\* Whenever the policy is asked, Best is the best of everything evaluated so far,
\* although every candidate is compared with one other only: no evaluated solve comes
\* before it in the comparator's order or meets more of the mandatory rules
\* (agent/comparison_nodes.py:936, evaluation/comparator.py:31).
BestIsBest ==
    graph = "controller" /\ loop.pending = "none" =>
       \A i \in Subjects : Verdict(loop.hfss[i]) \in {"PASS", "FAIL"} =>
          LET solved == loop.hfss[i]
              best   == loop.hfss[loop.best]
          IN  /\ ~Before(Evaluated[solved].rank, Evaluated[best].rank)
              /\ Cardinality(Met[solved]) <= Cardinality(Met[best])

\* A design that holds every mandatory rule at every frequency of its band.
Passing(o) == o \in Designs /\ Met[o] = Mandatory(Rules)

\* A final status tells the truth about the measured S parameters: NO_SOLUTION only
\* if nothing that was solved holds the mandatory rules, between the samples too, and
\* a success names a design that holds them and that no other solve comes before
\* (agent/closed_loop_graph.py:463, evaluation/evaluator.py:149).
HonestEnd ==
    /\ saved.status = "NO_SOLUTION" => \A i \in Subjects : ~Passing(receipts[i])
    /\ saved.status \in {"SUCCEEDED_BASELINE", "SUCCEEDED_CANDIDATE"} =>
         /\ Passing(receipts[saved.best])
         /\ \A i \in Subjects : Passing(receipts[i]) =>
               ~Before(Evaluated[receipts[i]].rank, Evaluated[receipts[saved.best]].rank)
         /\ saved.status = "SUCCEEDED_BASELINE" <=> saved.best = Baseline

\* No more candidates reach the solver than the budget allows, whatever is retried,
\* lost or reconciled on the way (agent/closed_loop_policy.py:106).
SolvesWithinBudget ==
    Cardinality({i \in Ids : receipts[i] # Absent}) <= MaxHFSSCalls

\* A Run whose process lives and whose operations all have outcomes ends, whatever
\* the providers answer (agent/closed_loop_policy.py:32).
LoopFinishes == []~disturbed => <>(run = "COMPLETED")

\* Exhausting the search is not a failure: docs/DECISIONS.md:280 says it ends as
\* NO_SOLUTION, "distinct from failure", so a FAILED Run has a provider or a
\* candidate to blame.
FailureHasCause == saved.status = "FAILED" => saved.error = "provider"

\* docs/ISSUE_REGISTER.md:181 says that re-entry from START reuses the evidence and
\* the bounded graph continues its decisions.
ReentryContinues == graph # "refused"

=============================================================================
