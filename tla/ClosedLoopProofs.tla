-------------------------- MODULE ClosedLoopProofs --------------------------
(* The solver's budget, the bookkeeping of the search and what it finds,   *)
(* for any number of designs, rules, candidates, retries and invocations,  *)
(* lost or held wherever they are.                                         *)
EXTENDS ClosedLoop, RuleEvaluationProofs, FiniteSetTheorems, SequenceTheorems, TLAPS

Solver == "RUN_CANDIDATE_HFSS"

Fields == {"status", "error", "sparams", "hfss", "best", "compared", "diagnosed",
           "offered", "queue", "recommended", "current", "gate", "consumed",
           "objective", "prepared", "iterations", "optimizerCalls", "screenings",
           "hfssCalls", "reoptimizations", "retries", "stagnation", "pending", "reason"}

\* A State, typed as far as solves are concerned.
IsState(s) ==
    /\ s = [field \in Fields |-> s[field]]
    /\ s.hfss = [i \in Subjects |-> s.hfss[i]]
    /\ s.hfssCalls \in Nat
    /\ s.pending \in Nodes \cup {"none"}

\* The candidates whose solve the State knows, and those the solver was given.
KnownTo(s)  == {i \in Ids : s.hfss[i] # Absent}
Given(r)    == {i \in Ids : r[i] # Absent}

\* A known solve is counted, but the one of the pending call.
Counted(s) ==
    /\ s.hfssCalls <= MaxHFSSCalls
    /\ s.pending # Solver => Cardinality(KnownTo(s)) <= s.hfssCalls
    /\ s.pending = Solver => /\ s.hfssCalls < MaxHFSSCalls
                             /\ Cardinality(KnownTo(s) \ {s.current}) <= s.hfssCalls

\* A given solve is known, but the one of the pending call.
Recorded(s, r) ==
    /\ r = [i \in Subjects |-> r[i]]
    /\ Given(r) \subseteq IF s.pending = Solver THEN KnownTo(s) \cup {s.current}
                          ELSE KnownTo(s)

\* The pending action is the one of the node that runs.
PlacedAt(node, s) ==
    /\ node \in Nodes => s.pending = node
    /\ node = "decided" => s.pending \in Nodes /\ Legal(s)
    /\ node = "optimized" => s.pending = "OPTIMIZE"
    /\ node = "screened" => s.pending = "SCREEN_CANDIDATE"
    /\ node \in {"observed", "compared", "promoted"} =>
         /\ s.pending = Solver
         /\ s.current \in Ids => s.hfss[s.current] # Absent

\* What is not saved is only a decision; a held solve is the pending one.
Resumable ==
    /\ graph # "decided" => loop = saved
    /\ held # Nobody => graph \in Ended
    /\ held \in Ids => saved.pending = Solver /\ saved.current = held

Solvable(s, r) == IsState(s) /\ Counted(s) /\ Recorded(s, r)

BudgetIInv == /\ Solvable(loop, receipts) /\ Solvable(saved, receipts)
              /\ PlacedAt(graph, loop) /\ Resumable

\* A successor that neither solves nor decides.
Follows(s, t) ==
    /\ IsState(t)
    /\ \A i \in Ids : t.hfss[i] = s.hfss[i]
    /\ t.hfssCalls = s.hfssCalls
    /\ t.pending = Solver <=> s.pending = Solver
    /\ s.pending = Solver => t.current = s.current

-----------------------------------------------------------------------------

\* There are finitely many candidates, so that solves can be counted.
LEMMA IdsFinite ==
  IsFiniteSet(Ids) /\ \A S \in SUBSET Ids : IsFiniteSet(S) /\ Cardinality(S) \in Nat
<1>1. {MaxBatch, MaxOptimizerCalls} \subseteq Nat /\ MaxSafeRetries \in Nat
  BY LoopAssumption DEF LoopAssumption
<1>2. MaxBatch * MaxOptimizerCalls \in Int
  BY <1>1
<1>3. IsFiniteSet(1..(MaxBatch * MaxOptimizerCalls)) /\ IsFiniteSet(0..MaxSafeRetries)
  BY <1>1, <1>2, FS_Interval
<1>4. IsFiniteSet(Ids)
  BY <1>3, FS_Product DEF Ids
<1>5. QED
  BY <1>4, FS_Subset, FS_CardinalityType

\* Candidates are no baseline, and what else may be held is no candidate.
LEMMA Subject ==
  /\ Ids \subseteq Subjects /\ Baseline \in Subjects /\ Baseline \notin Ids
  /\ OptimizerRun \notin Ids /\ Surrogate \notin Ids /\ Nobody \notin Ids
  /\ OptimizerRun # Nobody /\ Surrogate # Nobody /\ Nobody \notin Subjects
  BY DEF Ids, Subjects, Baseline, OptimizerRun, Surrogate, Nobody

\* The count is kept where nothing is solved or decided.
LEMMA Following ==
  ASSUME NEW s, NEW t, NEW r, Solvable(s, r), Follows(s, t)
  PROVE  Solvable(t, r)
<1>1. KnownTo(t) = KnownTo(s)
  BY DEF Follows, KnownTo
<1>2. QED
  BY <1>1 DEF Solvable, Follows, Counted, Recorded

\* A saved successor keeps the invariant, or the State refuses it.
LEMMA SaveKeeps ==
  ASSUME BudgetIInv, NEW t, NEW n, save(t, n),
         graph \notin Ended, graph = "decided" => Legal(t),
         Solvable(t, receipts), PlacedAt(n, t), n # "decided"
  PROVE  BudgetIInv'
<1>1. receipts' = receipts /\ held' = held /\ held = Nobody
  BY DEF save, BudgetIInv, Resumable
<1>2. CASE Legal(t)
  <2>1. loop' = t /\ saved' = t /\ graph' = n
    BY <1>2 DEF save
  <2>2. QED
    BY <1>1, <2>1, Subject DEF BudgetIInv, Resumable, Solvable, PlacedAt
<1>3. CASE ~Legal(t)
  <2>1. loop' = loop /\ saved' = saved /\ graph' = "raised"
    BY <1>3 DEF save
  <2>2. PlacedAt(graph', loop')
    BY <2>1 DEF PlacedAt, Nodes
  <2>3. QED
    BY <1>1, <1>3, <2>1, <2>2, Subject DEF BudgetIInv, Resumable
<1>4. QED
  BY <1>2, <1>3

\* A node that fails completes the Run with the work as it was.
LEMMA FailKeeps ==
  ASSUME BudgetIInv, NEW cause, fail(cause), graph # "decided", graph \notin Ended
  PROVE  BudgetIInv'
<1>1. /\ loop' = [saved EXCEPT !.status = "FAILED", !.error = cause]
      /\ saved' = loop' /\ graph' = "out"
      /\ receipts' = receipts /\ held' = held /\ held = Nobody
  BY DEF fail, BudgetIInv, Resumable
<1>2. Follows(saved, loop')
  BY <1>1 DEF Follows, IsState, Fields, BudgetIInv, Solvable
<1>3. Solvable(loop', receipts')
  BY <1>1, <1>2, Following DEF BudgetIInv
<1>4. QED
  BY <1>1, <1>3, Subject DEF BudgetIInv, Resumable, PlacedAt, Nodes, Ended, Solvable

\* So does a node that holds the Run for an operation it has under way.
LEMMA HoldKeeps ==
  ASSUME BudgetIInv, NEW operation, hold(operation), graph # "decided",
         operation \in Ids => loop.pending = Solver /\ loop.current = operation
  PROVE  BudgetIInv'
<1>1. /\ loop' = [saved EXCEPT !.status = "WAITING", !.gate = "waiting"]
      /\ saved' = loop' /\ graph' = "out" /\ loop = saved
      /\ receipts' = receipts /\ held' = operation
  BY DEF hold, BudgetIInv, Resumable
<1>2. Follows(saved, loop')
  BY <1>1 DEF Follows, IsState, Fields, BudgetIInv, Solvable
<1>3. Solvable(loop', receipts')
  BY <1>1, <1>2, Following DEF BudgetIInv
<1>4. loop'.pending = loop.pending /\ loop'.current = loop.current
  BY <1>1 DEF BudgetIInv, Solvable, IsState, Fields
<1>5. QED
  BY <1>1, <1>3, <1>4 DEF BudgetIInv, Resumable, PlacedAt, Nodes, Ended, Solvable

\* Saving a successor that neither solves nor decides.
LEMMA QuietSave ==
  ASSUME BudgetIInv, NEW t, NEW n, save(t, n), Follows(loop, t), PlacedAt(n, t),
         graph \notin Ended, graph # "decided", n # "decided"
  PROVE  BudgetIInv'
<1>1. Solvable(t, receipts)
  BY Following DEF BudgetIInv
<1>2. QED
  BY <1>1, SaveKeeps

\* The work with another queue, gate or counts of the search.
Edits(s, t) == /\ IsState(t)
               /\ t.hfss = s.hfss /\ t.hfssCalls = s.hfssCalls /\ t.pending = s.pending

\* Ending the action of a node that is not the solver's, and what it edits.
LEMMA NodeEnds ==
  ASSUME NEW s, NEW t, IsState(s), s.pending # Solver, Edits(done(s), t)
  PROVE  Follows(s, t) /\ t.pending = "none"
<1>1. done(s).hfss = s.hfss /\ done(s).hfssCalls = s.hfssCalls /\ done(s).pending = "none"
  BY DEF IsState, Fields, done
<1>2. QED
  BY <1>1 DEF Edits, Follows, Solver

\* A State without its pending action is a State.
LEMMA DoneIsState ==
  ASSUME NEW s, IsState(s)
  PROVE  IsState(done(s)) /\ Edits(done(s), done(s))
  BY DEF IsState, Fields, done, Nodes, Edits

\* What the nodes of the search edit.
LEMMA NodeEdits ==
  ASSUME NEW d, IsState(d), NEW a, NEW b, NEW c
  PROVE  /\ Edits(d, [d EXCEPT !.prepared = a, !.objective = b])
         /\ Edits(d, [d EXCEPT !.optimizerCalls = a, !.gate = b])
         /\ Edits(d, [d EXCEPT !.current = a, !.queue = b, !.gate = c])
         /\ Edits(d, [d EXCEPT !.gate = a, !.screenings = b])
         /\ Edits(d, [d EXCEPT !.consumed = a, !.current = b, !.gate = c])
         /\ Edits(d, [d EXCEPT !.status = a, !.gate = b])
<1>1. Edits(d, [d EXCEPT !.prepared = a, !.objective = b])
  BY DEF Edits, IsState, Fields
<1>2. Edits(d, [d EXCEPT !.optimizerCalls = a, !.gate = b])
  BY DEF Edits, IsState, Fields
<1>3. Edits(d, [d EXCEPT !.current = a, !.queue = b, !.gate = c])
  BY DEF Edits, IsState, Fields
<1>4. Edits(d, [d EXCEPT !.gate = a, !.screenings = b])
  BY DEF Edits, IsState, Fields
<1>5. Edits(d, [d EXCEPT !.consumed = a, !.current = b, !.gate = c])
  BY DEF Edits, IsState, Fields
<1>6. Edits(d, [d EXCEPT !.status = a, !.gate = b])
  BY DEF Edits, IsState, Fields
<1>7. QED
  BY <1>1, <1>2, <1>3, <1>4, <1>5, <1>6

\* The nodes of the search decide and solve nothing.
LEMMA SearchKeeps ==
  ASSUME BudgetIInv,
         \/ PrepareOptimization \/ Reoptimize \/ RunOptimizer \/ EndOptimize
         \/ SelectNext \/ Screen \/ Gate \/ ConsumeCandidate \/ QueueRetry \/ Reconcile
  PROVE  BudgetIInv'
<1> DEFINE d == done(loop)
<1>1. IsState(loop) /\ IsState(d) /\ PlacedAt(graph, loop)
  BY DoneIsState DEF BudgetIInv, Solvable
<1>2. ASSUME NEW t, NEW n \in {"controller", "out"}, save(t, n), Edits(d, t),
             graph \in (Nodes \ {Solver}) \cup {"optimized", "screened"}
      PROVE  BudgetIInv'
  <2>1. loop.pending # Solver
    BY <1>1, <1>2 DEF PlacedAt, Solver
  <2>2. Follows(loop, t) /\ t.pending = "none"
    BY <1>1, <1>2, <2>1, NodeEnds
  <2>3. PlacedAt(n, t)
    BY <1>2, <2>2 DEF PlacedAt, Nodes
  <2>4. QED
    BY <1>2, <2>2, <2>3, QuietSave DEF Nodes, Ended
<1>3. CASE PrepareOptimization
  <2>1. Edits(d, Prepared(loop, loop.hfss[Baseline]))
    BY <1>1, NodeEdits DEF Prepared
  <2>2. QED
    BY <1>2, <1>3, <2>1 DEF PrepareOptimization, within, Nodes, Solver
<1>4. CASE Reoptimize
  <2> DEFINE e == Prepared(loop, loop.hfss[Evidence(loop)])
             t == [e EXCEPT !.reoptimizations = @ + 1]
  <2>1. Edits(d, e)
    BY <1>1, NodeEdits DEF Prepared
  <2>2. Edits(d, t)
    <3> HIDE DEF e
    <3>1. QED
      BY <2>1 DEF Edits, IsState, Fields
  <2>3. QED
    BY <1>2, <1>4, <2>2, FailKeeps DEF Reoptimize, within, Nodes, Solver, Ended
<1>5. CASE RunOptimizer
  <2>1. graph = "OPTIMIZE" /\ loop.pending = "OPTIMIZE"
    BY <1>1, <1>5 DEF RunOptimizer, within, PlacedAt, Nodes
  <2>2. ASSUME NEW n, NEW batch, NEW r,
               save([loop EXCEPT !.offered = @ + n, !.queue = batch,
                                 !.recommended = r], "optimized")
        PROVE  BudgetIInv'
    <3> DEFINE t == [loop EXCEPT !.offered = @ + n, !.queue = batch,
                                 !.recommended = r]
    <3>1. Edits(loop, t) /\ t.current = loop.current
      BY <1>1 DEF Edits, IsState, Fields
    <3>2. Follows(loop, t) /\ PlacedAt("optimized", t)
      BY <2>1, <3>1 DEF Edits, Follows, PlacedAt, Nodes
    <3>3. QED
      BY <2>1, <2>2, <3>2, QuietSave DEF Ended
  <2>3. QED
    BY <1>5, <2>1, <2>2, FailKeeps, HoldKeeps, Subject DEF RunOptimizer, Ended
<1>6. CASE EndOptimize
  <2>1. Edits(d, [d EXCEPT !.optimizerCalls = @ + 1, !.gate = "none"])
    BY <1>1, NodeEdits
  <2>2. QED
    BY <1>2, <1>6, <2>1 DEF EndOptimize, within
<1>7. CASE SelectNext
  <2> DEFINE c == IF loop.recommended \in ToSet(loop.queue) THEN loop.recommended
                  ELSE Head(loop.queue)
             t == [d EXCEPT !.current = c, !.queue = Remaining(loop, c), !.gate = "none"]
  <2>1. Edits(d, t)
    BY <1>1, NodeEdits
  <2>2. save(t, "controller") /\ graph = "SELECT_NEXT_CANDIDATE"
    BY <1>7 DEF SelectNext, within
  <2>3. QED
    BY <1>2, <2>1, <2>2 DEF Nodes, Solver
<1>8. CASE Screen
  <2>1. graph = "SCREEN_CANDIDATE" /\ loop.pending = "SCREEN_CANDIDATE"
    BY <1>1, <1>8 DEF Screen, within, PlacedAt, Nodes
  <2>2. ASSUME NEW outcome,
               save([loop EXCEPT !.sparams[loop.current] = outcome], "screened")
        PROVE  BudgetIInv'
    <3> DEFINE t == [loop EXCEPT !.sparams[loop.current] = outcome]
    <3>1. Edits(loop, t) /\ t.current = loop.current
      BY <1>1 DEF Edits, IsState, Fields
    <3>2. Follows(loop, t) /\ PlacedAt("screened", t)
      BY <2>1, <3>1 DEF Edits, Follows, PlacedAt, Nodes
    <3>3. QED
      BY <2>1, <2>2, <3>2, QuietSave DEF Ended
  <2>3. QED
    BY <1>8, <2>1, <2>2, FailKeeps DEF Screen, Ended
<1>9. CASE Gate
  <2>1. PICK gate \in {"run_hfss", "stop"} :
           save([d EXCEPT !.gate = gate, !.screenings = @ + 1], "controller")
    BY <1>9 DEF Gate
  <2>2. Edits(d, [d EXCEPT !.gate = gate, !.screenings = @ + 1])
    BY <1>1, NodeEdits
  <2>3. QED
    BY <1>2, <1>9, <2>1, <2>2 DEF Gate, within
<1>10. CASE ConsumeCandidate
  <2>1. Edits(d, Consumed(loop))
    BY <1>1, NodeEdits DEF Consumed
  <2>2. QED
    BY <1>2, <1>10, <2>1 DEF ConsumeCandidate, within, Nodes, Solver
<1>11. CASE QueueRetry
  <2> DEFINE e == Consumed(loop)
  <2>1. Edits(d, e)
    BY <1>1, NodeEdits DEF Consumed
  <2>2. ASSUME NEW queue, NEW retries
        PROVE  Edits(d, [e EXCEPT !.queue = queue, !.retries = retries])
    <3> HIDE DEF e
    <3>1. QED
      BY <2>1 DEF Edits, IsState, Fields
  <2>3. QED
    BY <1>2, <1>11, <2>2 DEF QueueRetry, within, Nodes, Solver
<1>12. CASE Reconcile
  BY <1>1, <1>2, <1>12, NodeEdits DEF Reconcile, within, Nodes, Solver
<1>13. QED
  BY <1>3, <1>4, <1>5, <1>6, <1>7, <1>8, <1>9, <1>10, <1>11, <1>12

\* A solve is decided on only while the budget has one left.
LEMMA TurnWithinBudget ==
  ASSUME NEW s
  PROVE  /\ Turn(s).action \in Nodes
         /\ Turn(s).action = Solver => ~HFSSBudgetSpent(s)
<1> USE DEF choice, finalize, NextCandidate, RetrySafe, Nodes, Solver
<1>1. BudgetTerminal(s).action = "FINALIZE"
  BY DEF BudgetTerminal
<1>2. /\ CandidateTurn(s).action \in Nodes
      /\ CandidateTurn(s).action = Solver => ~HFSSBudgetSpent(s)
  BY <1>1 DEF CandidateTurn
<1>3. SearchTurn(s).action \in Nodes \ {Solver}
  BY <1>1 DEF SearchTurn
<1>4. /\ Choice(s).action \in Nodes
      /\ Choice(s).action = Solver => ~HFSSBudgetSpent(s)
  BY <1>2, <1>3 DEF Choice
<1>5. QED
  BY <1>1, <1>4 DEF Turn

\* So a decision keeps the count.
LEMMA DecisionKeeps ==
  ASSUME NEW s, NEW r, Solvable(s, r)
  PROVE  Solvable(Decide(s), r) /\ Decide(s).pending \in Nodes
<1>1. CASE s.pending # "none"
  BY <1>1 DEF Decide, Solvable, IsState
<1>2. CASE s.pending = "none"
  <2> DEFINE action == Turn(s).action
             reason == Turn(s).reason
             t == [s EXCEPT !.iterations = @ + 1, !.pending = action, !.reason = reason]
  <2>1. Decide(s) = t
    BY <1>2 DEF Decide
  <2>2. action \in Nodes /\ (action = Solver => ~HFSSBudgetSpent(s))
    BY TurnWithinBudget
  <2> HIDE DEF action, reason
  <2>3. /\ IsState(t) /\ t.hfss = s.hfss /\ t.hfssCalls = s.hfssCalls
        /\ t.pending = action /\ t.current = s.current
    BY <2>2 DEF Solvable, IsState, Fields
  <2>4. KnownTo(t) = KnownTo(s)
    BY <2>3 DEF KnownTo
  <2>5. action = Solver => s.hfssCalls < MaxHFSSCalls
    BY <2>2, LoopAssumption DEF HFSSBudgetSpent, LoopAssumption, Solvable, IsState
  <2>6. /\ IsFiniteSet(KnownTo(s)) /\ Cardinality(KnownTo(s)) \in Nat
        /\ IsFiniteSet(KnownTo(s) \ {s.current})
        /\ Cardinality(KnownTo(s) \ {s.current}) \in Nat
    BY IdsFinite DEF KnownTo
  <2>7. Cardinality(KnownTo(s) \ {s.current}) <= Cardinality(KnownTo(s))
    BY <2>6, FS_Subset
  <2>8. /\ s.hfssCalls \in Nat /\ s.hfssCalls <= MaxHFSSCalls
        /\ Cardinality(KnownTo(s)) <= s.hfssCalls
    BY <1>2 DEF Solvable, Counted, Solver, IsState
  <2>9. Counted(t)
    <3> HIDE DEF t
    <3>1. Cardinality(KnownTo(s) \ {s.current}) <= s.hfssCalls
      BY <2>6, <2>7, <2>8
    <3>2. QED
      BY <2>3, <2>4, <2>5, <2>8, <3>1 DEF Counted
  <2>10. Recorded(t, r)
    BY <1>2, <2>3, <2>4 DEF Recorded, Solvable, Solver
  <2>11. QED
    BY <2>1, <2>2, <2>3, <2>9, <2>10 DEF Solvable
<1>3. QED
  BY <1>1, <1>2

\* The controller's turn and the way to its node.
LEMMA ControllerKeeps ==
  ASSUME BudgetIInv, Controller \/ Route
  PROVE  BudgetIInv'
<1>1. CASE Controller
  <2>1. Solvable(Decide(loop), receipts) /\ Decide(loop).pending \in Nodes
    BY DecisionKeeps DEF BudgetIInv
  <2>2. /\ receipts' = receipts /\ held' = held /\ saved' = saved /\ held = Nobody
        /\ loop = saved
    BY <1>1 DEF Controller, within, BudgetIInv, Resumable, Ended
  <2>3. CASE graph' = "decided" /\ loop' = Decide(loop) /\ Legal(Decide(loop))
    <3>1. PlacedAt(graph', loop')
      BY <2>1, <2>3 DEF PlacedAt, Nodes
    <3>2. QED
      BY <2>1, <2>2, <2>3, <3>1, Subject DEF BudgetIInv, Resumable
  <2>4. CASE graph' \in {"raised", "refused"} /\ loop' = loop
    <3>1. PlacedAt(graph', loop')
      BY <2>4 DEF PlacedAt, Nodes
    <3>2. QED
      BY <2>2, <2>4, <3>1, Subject DEF BudgetIInv, Resumable
  <2>5. QED
    BY <1>1, <2>3, <2>4 DEF Controller
<1>2. CASE Route
  <2>1. graph = "decided" /\ loop.pending \in Nodes /\ Legal(loop)
    BY <1>2 DEF Route, within, BudgetIInv, PlacedAt
  <2>2. PlacedAt(loop.pending, loop)
    BY <2>1 DEF PlacedAt, Nodes
  <2>3. loop.pending # "decided" /\ graph \notin Ended
    BY <2>1 DEF Nodes, Ended
  <2>4. save(loop, loop.pending) /\ Solvable(loop, receipts)
    BY <1>2 DEF Route, BudgetIInv
  <2>5. QED
    BY <2>1, <2>2, <2>3, <2>4, SaveKeeps
<1>3. QED
  BY <1>1, <1>2

\* A receipt that becomes known is no baseline's or the pending call's.
LEMMA ReceiptKeeps ==
  ASSUME NEW s, NEW id \in Subjects, NEW r, NEW outcome, Solvable(s, r),
         id \in Ids => s.pending = Solver /\ s.current = id
  PROVE  Solvable(s, [r EXCEPT ![id] = outcome])
<1> DEFINE q == [r EXCEPT ![id] = outcome]
<1>1. q = [i \in Subjects |-> q[i]] /\ \A i \in Subjects \ {id} : q[i] = r[i]
  BY DEF Solvable, Recorded
<1>2. Given(q) \subseteq Given(r) \cup {id}
  BY <1>1, Subject DEF Given
<1> HIDE DEF q
<1>3. Recorded(s, q)
  BY <1>1, <1>2 DEF Solvable, Recorded, Given
<1>4. QED
  BY <1>3 DEF Solvable, q

\* The nodes of the bootstrap solve the baseline, which is not counted.
LEMMA BootstrapKeeps ==
  ASSUME BudgetIInv,
         \/ BaselineSurrogate \/ CallHFSS(Baseline) \/ HFSSUnknown(Baseline)
         \/ ObserveBaseline
  PROVE  BudgetIInv'
<1>1. IsState(loop)
  BY DEF BudgetIInv, Solvable
<1>2. ASSUME NEW t, NEW n \in {"baseline", "controller"}, save(t, n), Follows(loop, t),
             graph \in {"bootstrap", "baseline"}
      PROVE  BudgetIInv'
  <2>1. PlacedAt(n, t)
    BY <1>2 DEF PlacedAt, Nodes
  <2>2. QED
    BY <1>2, <2>1, QuietSave DEF Ended
<1>3. Follows(loop, loop)
  BY <1>1 DEF Follows
<1>4. CASE BaselineSurrogate
  <2> DEFINE t == [loop EXCEPT !.status = "RUNNING", !.sparams[Baseline] = "success"]
  <2>1. Follows(loop, t)
    BY <1>1 DEF Follows, IsState, Fields
  <2>2. QED
    BY <1>2, <1>3, <1>4, <2>1, FailKeeps DEF BaselineSurrogate, within, Ended
<1>5. CASE ObserveBaseline
  <2> DEFINE t == [loop EXCEPT !.hfss[Baseline] = receipts[Baseline], !.best = Baseline]
  <2>1. /\ IsState(t) /\ t.hfss = [loop.hfss EXCEPT ![Baseline] = receipts[Baseline]]
        /\ t.hfssCalls = loop.hfssCalls /\ t.pending = loop.pending
        /\ t.current = loop.current
    BY <1>1 DEF IsState, Fields
  <2>2. \A i \in Ids : t.hfss[i] = loop.hfss[i]
    BY <1>1, <2>1, Subject DEF IsState
  <2>3. Follows(loop, t)
    BY <2>1, <2>2 DEF Follows
  <2>4. QED
    BY <1>2, <1>3, <1>5, <2>3, FailKeeps DEF ObserveBaseline, within, Ended
<1>6. CASE CallHFSS(Baseline) \/ HFSSUnknown(Baseline)
  <2>1. graph \in {"baseline", Solver}
    BY <1>6 DEF CallHFSS, HFSSUnknown, Solving, Solver
  <2>2. CASE HFSSUnknown(Baseline)
    BY <2>1, <2>2, HoldKeeps, Subject DEF HFSSUnknown, Solver
  <2>3. CASE CallHFSS(Baseline)
    <3>1. PICK outcome \in Outcomes : receipts' = [receipts EXCEPT ![Baseline] = outcome]
      BY <2>3 DEF CallHFSS
    <3>2. Solvable(loop, receipts') /\ Solvable(saved, receipts')
      BY <3>1, ReceiptKeeps, Subject DEF BudgetIInv
    <3>3. UNCHANGED <<loop, saved, graph, held>>
      BY <2>3 DEF CallHFSS
    <3>4. QED
      BY <3>2, <3>3 DEF BudgetIInv, Resumable, PlacedAt, Legal
  <2>4. QED
    BY <1>6, <2>2, <2>3
<1>7. QED
  BY <1>4, <1>5, <1>6

\* The nodes of a solve: known once it was given, and counted once it is known.
LEMMA SolveKeeps ==
  ASSUME BudgetIInv, Solve
  PROVE  BudgetIInv'
<1> DEFINE c == loop.current
<1>1. IsState(loop) /\ Solvable(loop, receipts) /\ PlacedAt(graph, loop)
  BY DEF BudgetIInv, Solvable
<1>2. ASSUME NEW id \in Ids, CallHFSS(id) PROVE BudgetIInv'
  <2>1. graph = Solver /\ id = c /\ loop.pending = Solver /\ loop = saved
    BY <1>1, <1>2, Subject
    DEF CallHFSS, Solving, PlacedAt, Solver, Nodes, BudgetIInv, Resumable
  <2>2. PICK outcome \in Outcomes : receipts' = [receipts EXCEPT ![id] = outcome]
    BY <1>2 DEF CallHFSS
  <2>3. Solvable(loop, receipts')
    BY <1>1, <2>1, <2>2, ReceiptKeeps, Subject
  <2>4. UNCHANGED <<loop, saved, graph, held>>
    BY <1>2 DEF CallHFSS
  <2>5. QED
    BY <1>1, <2>1, <2>3, <2>4 DEF BudgetIInv, Resumable, PlacedAt, Legal
<1>3. ASSUME NEW id \in Ids, HFSSUnknown(id) PROVE BudgetIInv'
  <2>1. graph = Solver /\ id = c /\ loop.pending = Solver
    BY <1>1, <1>3, Subject DEF HFSSUnknown, Solving, PlacedAt, Solver, Nodes
  <2>2. QED
    BY <1>3, <2>1, HoldKeeps DEF HFSSUnknown, Solver
<1>4. CASE ObserveCandidate
  <2> DEFINE t == [loop EXCEPT !.hfss[loop.current] = receipts[loop.current]]
  <2>1. graph = Solver /\ loop.pending = Solver /\ receipts[c] # Absent
    BY <1>1, <1>4 DEF ObserveCandidate, within, PlacedAt, Solver, Nodes
  <2>2. /\ IsState(t) /\ t.hfss = [loop.hfss EXCEPT ![c] = receipts[c]]
        /\ t.hfssCalls = loop.hfssCalls /\ t.pending = Solver /\ t.current = c
    BY <1>1, <2>1 DEF IsState, Fields
  <2> HIDE DEF t
  <2>3. /\ \A i \in Ids \ {c} : t.hfss[i] = loop.hfss[i]
        /\ c \in Ids => t.hfss[c] = receipts[c]
    BY <1>1, <2>2, Subject DEF IsState
  <2>4. KnownTo(t) \ {c} = KnownTo(loop) \ {c}
    BY <2>3 DEF KnownTo
  <2>5. Counted(t) /\ Recorded(t, receipts)
    BY <1>1, <2>1, <2>2, <2>4 DEF Solvable, Counted, Recorded, KnownTo
  <2>6. PlacedAt("observed", t)
    BY <2>1, <2>2, <2>3 DEF PlacedAt, Nodes
  <2>7. ASSUME save(t, "observed") PROVE BudgetIInv'
    BY <2>1, <2>2, <2>5, <2>6, <2>7, SaveKeeps DEF Solvable, Ended, Solver
  <2>8. QED
    BY <1>4, <2>1, <2>7, FailKeeps DEF ObserveCandidate, t, Ended, Solver
<1>5. ASSUME NEW t, NEW n \in {"compared", "promoted"}, save(t, n), Edits(loop, t),
             t.current = c, graph \in {"observed", "compared"}
      PROVE  BudgetIInv'
  <2>1. Follows(loop, t) /\ PlacedAt(n, t)
    BY <1>1, <1>5 DEF Edits, Follows, PlacedAt, Nodes
  <2>2. QED
    BY <1>5, <2>1, QuietSave DEF Ended
<1>6. CASE Compare
  <2> DEFINE t == [loop EXCEPT !.compared = @ \cup {loop.current}]
  <2>1. Edits(loop, t) /\ t.current = c
    BY <1>1 DEF Edits, IsState, Fields
  <2>2. QED
    BY <1>5, <1>6, <2>1 DEF Compare, within
<1>7. CASE Promote
  <2> DEFINE best == IF BeatsBest(loop) THEN loop.current ELSE loop.best
             t == [loop EXCEPT !.diagnosed = @ \cup {loop.current}, !.best = best]
  <2>1. Edits(loop, t) /\ t.current = c
    BY <1>1 DEF Edits, IsState, Fields
  <2>2. save(t, "promoted") /\ graph = "compared"
    BY <1>7 DEF Promote, within
  <2>3. QED
    BY <1>5, <2>1, <2>2
<1>8. CASE Settle
  <2> DEFINE d == done(loop)
             n == IF loop.best = loop.current THEN 0 ELSE loop.stagnation + 1
             calls == loop.hfssCalls + 1
             t == [d EXCEPT !.hfssCalls = calls, !.stagnation = n]
  <2>1. /\ graph \in {"observed", "promoted"} /\ loop.pending = Solver
        /\ c \in Ids => loop.hfss[c] # Absent
    BY <1>1, <1>8 DEF Settle, within, PlacedAt
  <2>2. IsState(d) /\ d.hfss = loop.hfss /\ d.pending = "none"
        /\ d.hfssCalls = loop.hfssCalls /\ d.stagnation = loop.stagnation
    BY <1>1, DoneIsState DEF IsState, Fields, done
  <2>3. save(t, "controller")
    BY <1>8, <2>2 DEF Settle
  <2>4. /\ IsState(t) /\ t.hfss = loop.hfss
        /\ t.hfssCalls = calls /\ t.pending = "none"
    <3>1. calls \in Nat
      BY <1>1 DEF IsState
    <3> HIDE DEF d, n, calls
    <3>2. QED
      BY <2>2, <3>1 DEF IsState, Fields
  <2> HIDE DEF t
  <2>5. KnownTo(t) = KnownTo(loop)
    BY <2>4 DEF KnownTo
  <2>6. /\ IsFiniteSet(KnownTo(loop))
        /\ Cardinality(KnownTo(loop)) \in Nat /\ Cardinality(KnownTo(loop) \ {c}) \in Nat
    BY IdsFinite DEF KnownTo
  <2>7. Cardinality(KnownTo(loop)) <= Cardinality(KnownTo(loop) \ {c}) + 1
    BY <2>6, FS_RemoveElement
  <2>8. /\ loop.hfssCalls \in Nat /\ loop.hfssCalls < MaxHFSSCalls
        /\ Cardinality(KnownTo(loop) \ {c}) <= loop.hfssCalls
    BY <1>1, <2>1 DEF Solvable, Counted, IsState
  <2>9. Counted(t)
    <3>1. MaxHFSSCalls \in Nat
      BY LoopAssumption DEF LoopAssumption
    <3>2. loop.hfssCalls + 1 <= MaxHFSSCalls
      BY <2>8, <3>1
    <3>3. Cardinality(KnownTo(loop)) <= loop.hfssCalls + 1
      BY <2>6, <2>7, <2>8
    <3>4. QED
      BY <2>4, <2>5, <3>2, <3>3 DEF Counted, Solver
  <2>10. Recorded(t, receipts)
    BY <1>1, <2>1, <2>4, <2>5 DEF Solvable, Recorded, KnownTo, Given, Solver
  <2>11. PlacedAt("controller", t)
    BY DEF PlacedAt, Nodes
  <2>12. QED
    BY <2>1, <2>3, <2>4, <2>9, <2>10, <2>11, SaveKeeps DEF Solvable, Ended
<1>9. QED
  BY <1>2, <1>3, <1>4, <1>6, <1>7, <1>8 DEF Solve

\* Invocations that end, are lost, held or entered again lose no receipt.
LEMMA InvocationKeeps ==
  ASSUME BudgetIInv, Finalize \/ Enter \/ Crash \/ OperatorReconciles
  PROVE  BudgetIInv'
<1>1. /\ IsState(loop) /\ Solvable(loop, receipts) /\ PlacedAt(graph, loop)
      /\ IsState(saved) /\ Solvable(saved, receipts)
  BY DEF BudgetIInv, Solvable
<1>2. CASE Finalize
  <2> DEFINE d == done(loop)
             status == Terminal(loop)
             t == [d EXCEPT !.status = status]
  <2>1. graph = "FINALIZE" /\ loop.pending # Solver /\ held = Nobody
    BY <1>1, <1>2
    DEF Finalize, within, PlacedAt, Nodes, Solver, BudgetIInv, Resumable, Ended
  <2>2. CASE Backed(loop)
    <3>1. Edits(d, t)
      <4>1. IsState(d)
        BY <1>1, DoneIsState
      <4> HIDE DEF d, status
      <4>2. QED
        BY <4>1 DEF Edits, IsState, Fields
    <3>2. Follows(loop, t)
      BY <1>1, <2>1, <3>1, NodeEnds
    <3>3. /\ loop' = t /\ saved' = t /\ graph' = "out"
          /\ receipts' = receipts /\ held' = held
      BY <1>2, <2>2 DEF Finalize
    <3> HIDE DEF t
    <3>4. Solvable(t, receipts) /\ PlacedAt("out", t)
      BY <1>1, <3>2, Following DEF PlacedAt, Nodes
    <3>5. QED
      BY <2>1, <3>3, <3>4, Subject DEF BudgetIInv, Resumable
  <2>3. CASE ~Backed(loop)
    BY <1>2, <2>1, <2>3, FailKeeps DEF Finalize, Ended
  <2>4. QED
    BY <2>2, <2>3
<1>3. CASE Enter
  <2>1. CASE held = Nobody
    <3>1. /\ loop' = saved /\ saved' = saved /\ graph' = "bootstrap"
          /\ receipts' = receipts /\ held' = held
      BY <1>3, <2>1 DEF Enter
    <3>2. PlacedAt(graph', loop')
      BY <3>1 DEF PlacedAt, Nodes
    <3>3. QED
      BY <1>1, <2>1, <3>1, <3>2, Subject DEF BudgetIInv, Resumable
  <2>2. CASE held # Nobody
    <3> DEFINE t == [saved EXCEPT !.status = "WAITING", !.gate = "waiting"]
    <3>1. /\ loop' = t /\ saved' = t /\ graph' = "out"
          /\ receipts' = receipts /\ held' = held
      BY <1>3, <2>2 DEF Enter
    <3>2. Edits(saved, t) /\ t.current = saved.current
      BY <1>1 DEF Edits, IsState, Fields
    <3> HIDE DEF t
    <3>3. Solvable(t, receipts) /\ PlacedAt("out", t)
      BY <1>1, <3>2, Following DEF Edits, Follows, PlacedAt, Nodes
    <3>4. QED
      BY <3>1, <3>2, <3>3 DEF BudgetIInv, Resumable, Edits, Ended
  <2>3. QED
    BY <2>1, <2>2
<1>4. CASE Crash
  <2>1. /\ loop' = saved /\ saved' = saved /\ graph' = "out" /\ receipts' = receipts
        /\ held' \in {Nobody} \cup UnderWay
    BY <1>4 DEF Crash
  <2>2. held' \in Ids => saved.pending = Solver /\ saved.current = held'
    <3>1. SUFFICES ASSUME held' \in Ids
                   PROVE  saved.pending = Solver /\ saved.current = held'
      OBVIOUS
    <3>2. Solving(held')
      BY <2>1, <3>1, Subject DEF UnderWay
    <3>3. graph = Solver /\ held' = loop.current
      BY <3>1, <3>2, Subject DEF Solving, Solver
    <3>4. QED
      BY <1>1, <3>3 DEF PlacedAt, Nodes, Solver, BudgetIInv, Resumable
  <2>3. PlacedAt(graph', loop')
    BY <2>1 DEF PlacedAt, Nodes
  <2>4. QED
    BY <1>1, <2>1, <2>2, <2>3 DEF BudgetIInv, Resumable, Ended
<1>5. CASE OperatorReconciles
  <2>1. UNCHANGED <<loop, saved, graph>> /\ held' = Nobody
    BY <1>5 DEF OperatorReconciles
  <2>2. Solvable(saved, receipts')
    <3>1. CASE held \in Subjects
      <4>1. PICK outcome : receipts' = [receipts EXCEPT ![held] = outcome]
        BY <1>5, <3>1 DEF OperatorReconciles
      <4>2. QED
        BY <1>1, <3>1, <4>1, ReceiptKeeps DEF BudgetIInv, Resumable
    <3>2. CASE held \notin Subjects
      BY <1>1, <1>5, <3>2 DEF OperatorReconciles
    <3>3. QED
      BY <3>1, <3>2
  <2>3. Solvable(loop, receipts')
    <3>1. CASE held = Nobody
      BY <1>1, <1>5, <3>1, Subject DEF OperatorReconciles
    <3>2. CASE held # Nobody
      BY <2>2, <3>2 DEF BudgetIInv, Resumable, Ended
    <3>3. QED
      BY <3>1, <3>2
  <2>4. QED
    BY <2>1, <2>2, <2>3, Subject DEF BudgetIInv, Resumable, PlacedAt, Legal
<1>6. QED
  BY <1>2, <1>3, <1>4, <1>5

\* Nothing is given, known or counted at first.
LEMMA BudgetInit == Init => BudgetIInv
<1> SUFFICES ASSUME Init PROVE BudgetIInv
  OBVIOUS
<1>1. /\ loop = InitialState /\ saved = InitialState /\ graph = "out" /\ held = Nobody
      /\ receipts = [i \in Subjects |-> Absent]
  BY DEF Init
<1>2. IsState(InitialState)
  BY DEF InitialState, IsState, Fields
<1>3. /\ InitialState.pending = "none" /\ InitialState.hfssCalls = 0
      /\ InitialState.hfss = [i \in Subjects |-> Absent]
  BY DEF InitialState
<1>4. KnownTo(InitialState) = {} /\ Given(receipts) = {}
  BY <1>1, <1>3, Subject DEF KnownTo, Given
<1>5. MaxHFSSCalls \in Nat
  BY LoopAssumption DEF LoopAssumption
<1>6. Counted(InitialState) /\ Recorded(InitialState, receipts)
  BY <1>1, <1>3, <1>4, <1>5, FS_EmptySet DEF Counted, Recorded, Solver
<1>7. PlacedAt("out", InitialState)
  BY DEF PlacedAt, Nodes
<1>8. QED
  BY <1>1, <1>2, <1>6, <1>7, Subject DEF BudgetIInv, Solvable, Resumable

\* The inductive invariant of the budget.
LEMMA BudgetInduction == Spec => []BudgetIInv
<1>1. BudgetIInv /\ [Next]_vars => BudgetIInv'
  <2> SUFFICES ASSUME BudgetIInv, [Next]_vars PROVE BudgetIInv'
    OBVIOUS
  <2>1. CASE Next
    BY <2>1, SearchKeeps, ControllerKeeps, BootstrapKeeps, SolveKeeps, InvocationKeeps
    DEF Next, Proceed, Bootstrap, Decision, Searching, Screening, Ending
  <2>2. CASE UNCHANGED vars
    BY <2>2 DEF vars, BudgetIInv, Resumable, PlacedAt, Legal
  <2>3. QED
    BY <2>1, <2>2
<1>2. QED
  BY <1>1, BudgetInit, PTL DEF Spec

\* No more candidates reach the solver than the budget allows, for every budget,
\* batch and number of designs, and however often the Run is invoked, lost or
\* adjudicated (agent/closed_loop_policy.py:106).
THEOREM SolveBudgetTheorem == Spec => []SolvesWithinBudget
<1>1. BudgetIInv => SolvesWithinBudget
  <2> SUFFICES ASSUME BudgetIInv PROVE SolvesWithinBudget
    OBVIOUS
  <2> DEFINE K == KnownTo(loop)
             c == loop.current
  <2>1. Counted(loop) /\ Recorded(loop, receipts) /\ IsState(loop)
    BY DEF BudgetIInv, Solvable
  <2>2. /\ IsFiniteSet(K) /\ IsFiniteSet(K \ {c}) /\ IsFiniteSet((K \ {c}) \cup {c})
        /\ Cardinality(K) \in Nat /\ Cardinality(K \ {c}) \in Nat
        /\ Cardinality(Given(receipts)) \in Nat
    BY IdsFinite, FS_AddElement DEF KnownTo, Given
  <2>3. loop.hfssCalls \in Nat /\ MaxHFSSCalls \in Nat
    BY <2>1, LoopAssumption DEF IsState, LoopAssumption
  <2>4. Cardinality(Given(receipts)) <= MaxHFSSCalls
    <3>1. CASE loop.pending # Solver
      <4>1. Cardinality(Given(receipts)) <= Cardinality(K)
        BY <2>1, <2>2, <3>1, FS_Subset DEF Recorded
      <4>2. Cardinality(K) <= loop.hfssCalls /\ loop.hfssCalls <= MaxHFSSCalls
        BY <2>1, <3>1 DEF Counted
      <4>3. QED
        BY <2>2, <2>3, <4>1, <4>2
    <3>2. CASE loop.pending = Solver
      <4>1. Given(receipts) \subseteq (K \ {c}) \cup {c}
        BY <2>1, <3>2 DEF Recorded
      <4>2. /\ Cardinality(Given(receipts)) <= Cardinality((K \ {c}) \cup {c})
            /\ Cardinality((K \ {c}) \cup {c}) = Cardinality(K \ {c}) + 1
        BY <2>2, <4>1, FS_Subset, FS_AddElement
      <4>3. Cardinality(K \ {c}) <= loop.hfssCalls /\ loop.hfssCalls < MaxHFSSCalls
        BY <2>1, <3>2 DEF Counted
      <4>4. QED
        BY <2>2, <2>3, <4>2, <4>3
    <3>3. QED
      BY <3>1, <3>2
  <2>5. QED
    BY <2>4 DEF SolvesWithinBudget, Given
<1>2. QED
  BY <1>1, BudgetInduction, PTL

-----------------------------------------------------------------------------
(* The bookkeeping of the State, and that none of its checks is ever the one   *)
(* that stops a Run.                                                           *)

\* A batch more of candidates, and more calls, are more candidates.
LEMMA Batches ==
  ASSUME NEW n \in Nat, NEW m \in Nat
  PROVE  /\ MaxBatch * (n + 1) = MaxBatch * n + MaxBatch /\ MaxBatch * n \in Nat
         /\ n <= m => MaxBatch * n <= MaxBatch * m
<1>1. MaxBatch \in Nat
  BY LoopAssumption DEF LoopAssumption
<1>2. MaxBatch * (n + 1) = MaxBatch * n + MaxBatch /\ MaxBatch * n \in Nat
  BY <1>1
<1>3. ASSUME n <= m PROVE MaxBatch * n <= MaxBatch * m
  <2>1. m = n + (m - n) /\ m - n \in Nat
    BY <1>3
  <2>2. MaxBatch * m = MaxBatch * n + MaxBatch * (m - n) /\ MaxBatch * (m - n) \in Nat
    BY <1>1, <2>1
  <2>3. QED
    BY <1>2, <2>2
<1>4. QED
  BY <1>2, <1>3

\* A sequence of some names is one of more names.
LEMMA MoreNames ==
  ASSUME NEW A, NEW B, A \subseteq B, NEW q \in Seq(A)
  PROVE  q \in Seq(B)
  OBVIOUS

\* What the removal of a candidate from a queue of distinct ones leaves.
LEMMA Removed ==
  ASSUME NEW S, NEW q \in Seq(S), IsInjective(q), NEW c \in ToSet(q)
  PROVE  /\ RemoveFirst(q, c) \in Seq(S) /\ IsInjective(RemoveFirst(q, c))
         /\ ToSet(RemoveFirst(q, c)) = ToSet(q) \ {c}
<1>1. PICK k \in 1..Len(q) : q[k] = c
  BY DEF ToSet
<1>2. {i \in 1..Len(q) : q[i] = c} = {k}
  BY <1>1 DEF IsInjective
<1>3. RemoveFirst(q, c) = RemoveAt(q, k)
  <2>1. Min({k}) = k
    BY DEF Min
  <2>2. SelectInSeq(q, LAMBDA v : v = c) = k
    BY <1>2, <2>1 DEF SelectInSeq
  <2>3. QED
    BY <1>1, <2>2 DEF RemoveFirst
<1> DEFINE a == SubSeq(q, 1, k - 1)
           b == SubSeq(q, k + 1, Len(q))
           r == RemoveAt(q, k)
<1>4. a \in Seq(S) /\ Len(a) = k - 1 /\ \A i \in 1..(k - 1) : a[i] = q[i]
  <2>1. k - 1 \in Int /\ \A i \in 1..(k - 1) : q[i] \in S
    BY <1>1
  <2>2. QED
    BY <1>1, <2>1, SubSeqProperties
<1>5. /\ b \in Seq(S) /\ Len(b) = Len(q) - k
      /\ \A i \in 1..(Len(q) - k) : b[i] = q[k + i]
  <2>1. k + 1 \in Int /\ Len(q) \in Int /\ \A i \in (k + 1)..Len(q) : q[i] \in S
    BY <1>1
  <2>2. QED
    BY <1>1, <2>1, SubSeqProperties
<1>6. r = a \o b
  BY DEF RemoveAt
<1> HIDE DEF a, b, r
<1>7. /\ r \in Seq(S) /\ Len(r) = Len(q) - 1
      /\ \A i \in 1..(Len(q) - 1) : r[i] = IF i < k THEN q[i] ELSE q[i + 1]
  <2>1. Len(q) \in Nat /\ Len(r) = Len(q) - 1 /\ r \in Seq(S)
    <3>1. r \in Seq(S) /\ Len(r) = Len(a) + Len(b)
      BY <1>4, <1>5, <1>6, ConcatProperties
    <3>2. Len(q) \in Nat
      OBVIOUS
    <3>3. QED
      BY <1>1, <1>4, <1>5, <3>1, <3>2
  <2>2. \A i \in 1..(Len(q) - 1) : r[i] = IF i <= Len(a) THEN a[i] ELSE b[i - Len(a)]
    BY <1>1, <1>4, <1>5, <1>6, <2>1
  <2>3. ASSUME NEW i \in 1..(Len(q) - 1)
        PROVE  r[i] = IF i < k THEN q[i] ELSE q[i + 1]
    <3>1. CASE i < k
      BY <1>1, <1>4, <2>1, <2>2, <3>1
    <3>2. CASE ~ (i < k)
      <4>1. i - Len(a) = i + 1 - k /\ i + 1 - k \in 1..(Len(q) - k) /\ ~ (i <= Len(a))
        BY <1>1, <1>4, <2>1, <3>2
      <4>2. r[i] = b[i + 1 - k]
        BY <2>2, <4>1
      <4>3. b[i + 1 - k] = q[k + (i + 1 - k)]
        BY <1>5, <4>1
      <4>4. k + (i + 1 - k) = i + 1
        BY <1>1
      <4>5. QED
        BY <3>2, <4>2, <4>3, <4>4
    <3>3. QED
      BY <3>1, <3>2
  <2>4. QED
    BY <2>1, <2>3
<1>8. IsInjective(r)
  <2>1. Len(q) \in Nat /\ DOMAIN r = 1..(Len(q) - 1)
    BY <1>7
  <2> DEFINE at(i) == IF i < k THEN i ELSE i + 1
  <2>2. \A i \in 1..(Len(q) - 1) : at(i) \in 1..Len(q) /\ r[i] = q[at(i)]
    BY <1>1, <1>7, <2>1
  <2>3. \A i, j \in 1..(Len(q) - 1) : at(i) = at(j) => i = j
    BY <1>1, <2>1
  <2> HIDE DEF at
  <2>4. \A i, j \in 1..Len(q) : q[i] = q[j] => i = j
    BY DEF IsInjective
  <2>5. QED
    BY <2>1, <2>2, <2>3, <2>4 DEF IsInjective
<1>9. ToSet(r) = ToSet(q) \ {c}
  <2>1. ASSUME NEW x \in ToSet(r) PROVE x \in ToSet(q) /\ x # c
    <3>1. PICK i \in 1..(Len(q) - 1) : x = r[i]
      BY <1>7, <2>1 DEF ToSet
    <3>2. PICK j \in 1..Len(q) : x = q[j] /\ j # k
      BY <1>1, <1>7, <3>1
    <3>3. QED
      BY <1>1, <3>2 DEF IsInjective, ToSet
  <2>2. ASSUME NEW x \in ToSet(q), x # c PROVE x \in ToSet(r)
    <3>1. PICK j \in 1..Len(q) : x = q[j]
      BY DEF ToSet
    <3>2. \E i \in 1..(Len(q) - 1) : r[i] = x
      <4>1. j < k \/ j > k
        BY <1>1, <2>2, <3>1
      <4>2. CASE j < k
        BY <1>1, <1>7, <3>1, <4>2
      <4>3. CASE j > k
        <5>1. j - 1 \in 1..(Len(q) - 1) /\ r[j - 1] = x
          BY <1>1, <1>7, <3>1, <4>3
        <5>2. QED
          BY <5>1
      <4>4. QED
        BY <4>1, <4>2, <4>3
    <3>3. QED
      BY <1>7, <3>2 DEF ToSet
  <2>3. QED
    BY <2>1, <2>2
<1>10. QED
  BY <1>3, <1>7, <1>8, <1>9 DEF r

\* A candidate more at the end of a queue.
LEMMA OneMoreLast ==
  ASSUME NEW S, NEW q \in Seq(S), NEW c \in S, IsInjective(q), c \notin ToSet(q)
  PROVE  /\ Append(q, c) \in Seq(S) /\ IsInjective(Append(q, c))
         /\ ToSet(Append(q, c)) = ToSet(q) \cup {c}
<1> DEFINE a == Append(q, c)
<1>1. /\ a \in Seq(S) /\ Len(a) = Len(q) + 1
      /\ \A i \in 1..(Len(q) + 1) : a[i] = IF i = Len(q) + 1 THEN c ELSE q[i]
  OBVIOUS
<1> HIDE DEF a
<1>2. \A i \in 1..Len(q) : a[i] = q[i] /\ i \in 1..(Len(q) + 1) /\ q[i] # c
  BY <1>1 DEF ToSet
<1>3. a[Len(q) + 1] = c /\ Len(q) + 1 \in 1..(Len(q) + 1)
  BY <1>1
<1>4. DOMAIN a = 1..(Len(q) + 1) /\ DOMAIN q = 1..Len(q)
  BY <1>1
<1>5. ToSet(a) = ToSet(q) \cup {c}
  BY <1>1, <1>2, <1>3, <1>4 DEF ToSet
<1>6. IsInjective(a)
  BY <1>1, <1>2 DEF IsInjective
<1>7. QED
  BY <1>1, <1>5, <1>6 DEF a

\* Or at its head.
LEMMA OneMoreFirst ==
  ASSUME NEW S, NEW q \in Seq(S), NEW c \in S, IsInjective(q), c \notin ToSet(q)
  PROVE  /\ <<c>> \o q \in Seq(S) /\ IsInjective(<<c>> \o q)
         /\ ToSet(<<c>> \o q) = ToSet(q) \cup {c}
<1> DEFINE b == <<c>> \o q
<1>1. /\ b \in Seq(S) /\ Len(b) = Len(q) + 1
      /\ \A i \in 1..(Len(q) + 1) : b[i] = IF i = 1 THEN c ELSE q[i - 1]
  OBVIOUS
<1> HIDE DEF b
<1>2. \A i \in 1..Len(q) : b[i + 1] = q[i] /\ i + 1 \in 1..(Len(q) + 1) /\ q[i] # c
  BY <1>1 DEF ToSet
<1>3. b[1] = c /\ 1 \in 1..(Len(q) + 1)
  BY <1>1
<1>4. DOMAIN b = 1..(Len(q) + 1) /\ DOMAIN q = 1..Len(q)
  BY <1>1
<1>5. \A i \in 1..(Len(q) + 1) : i = 1 \/ (i - 1 \in 1..Len(q) /\ b[i] = q[i - 1])
  BY <1>1
<1>6. ToSet(b) = ToSet(q) \cup {c}
  <2>1. ToSet(b) \subseteq ToSet(q) \cup {c}
    BY <1>3, <1>4, <1>5 DEF ToSet
  <2>2. ToSet(q) \cup {c} \subseteq ToSet(b)
    BY <1>2, <1>3, <1>4 DEF ToSet
  <2>3. QED
    BY <2>1, <2>2
<1>7. IsInjective(b)
  BY <1>1, <1>2 DEF IsInjective
<1>8. QED
  BY <1>1, <1>6, <1>7 DEF b

\* The candidates of a batch are new and distinct.
LEMMA NewBatch ==
  ASSUME NEW o \in Nat, NEW n \in Nat, NEW r \in Nat
  PROVE  LET batch == [k \in 1..n |-> <<o + k, 0>>] IN
         /\ batch \in Seq((1..(o + n)) \X (0..r)) /\ IsInjective(batch)
         /\ \A c \in ToSet(batch) : c[1] > o
<1> DEFINE batch == [k \in 1..n |-> <<o + k, 0>>]
<1>1. \A k \in 1..n : batch[k] \in (1..(o + n)) \X (0..r) /\ batch[k][1] = o + k
  OBVIOUS
<1>2. DOMAIN batch = 1..n /\ batch \in Seq((1..(o + n)) \X (0..r))
  BY <1>1
<1> HIDE DEF batch
<1>3. IsInjective(batch)
  BY <1>1, <1>2 DEF IsInjective
<1>4. \A c \in ToSet(batch) : c[1] > o
  BY <1>1, <1>2 DEF ToSet
<1>5. QED
  BY <1>2, <1>3, <1>4 DEF batch

\* The names a State may know by now: the candidates offered so far, with the number
\* of the retry.
Named(s) == (1..s.offered) \X (0..s.retries)

\* What a State counts, and that it keeps to its limits.
CountsOK(s) ==
    /\ {s.iterations, s.optimizerCalls, s.screenings, s.reoptimizations, s.retries,
        s.prepared, s.offered} \subseteq Nat
    /\ Legal(s)
    /\ s.prepared <= s.optimizerCalls + 1
    /\ s.offered <= MaxBatch * (IF s.pending = "OPTIMIZE" THEN s.optimizerCalls + 1
                                ELSE s.optimizerCalls)

\* Where its candidates are, each in one place.
PlacesOK(s) ==
    /\ s.queue \in Seq(Named(s)) /\ s.consumed \in Seq(Named(s))
    /\ s.current \in Named(s) \cup {Nobody}
    /\ ToSet(s.queue) \cap (ToSet(s.consumed) \cup {s.current}) = {}

\* A search that goes on has a turn left.
TurnsOK(s) ==
    /\ s.sparams = [i \in Subjects |-> s.sparams[i]]
    /\ s.sparams[Baseline] # "success" => s.iterations = 0 /\ s.pending = "none"
    /\ s.status = "RUNNING" /\ s.pending # "FINALIZE" => s.iterations < MaxIterations

Sound(s) == CountsOK(s) /\ PlacesOK(s) /\ TurnsOK(s)

\* What a turn has seen before it chose an action.
Grounds(action, s) ==
    /\ s.sparams[Baseline] = "success"
    /\ action = "OPTIMIZE" => s.optimizerCalls < MaxOptimizerCalls
    /\ action = "REOPTIMIZE" => s.reoptimizations < MaxReoptimizations
    /\ action = "SCREEN_CANDIDATE" => s.screenings < MaxScreenings
    /\ action = "RETRY_SAFE" => s.retries < MaxSafeRetries
    /\ action \in {"SCREEN_CANDIDATE", Solver, "NEXT_CANDIDATE", "RETRY_SAFE"} =>
         s.current # Nobody

Working == Nodes \cup {"decided", "optimized", "screened", "observed", "compared", "promoted"}
Places  == Working \cup Ended \cup {"bootstrap", "baseline", "controller"}

\* A node runs on the grounds of its turn, and the optimizer's before it answered.
Grounded(node, s) ==
    /\ node \in Working => Grounds(s.pending, s)
    /\ node \in {"baseline", "controller"} => s.sparams[Baseline] = "success"
    /\ node \in Nodes \cup {"decided"} =>
          /\ s.offered <= MaxBatch * s.optimizerCalls
          /\ s.pending = "SELECT_NEXT_CANDIDATE" => s.queue # << >>

\* The decision of a pending action is on record, at an earlier revision once the
\* action is saved.
Witnessed(s, bound) ==
    \E d \in decided : /\ d.turn = s.iterations /\ d.action = s.pending
                       /\ d.revision \in Nat /\ d.revision <= bound
EventInv ==
    /\ revision \in Nat
    /\ saved.pending # "none" => Witnessed(saved, revision - 1)
    /\ graph = "decided" => Witnessed(loop, revision)

\* The status of the Run and that of its State.
StatusInv ==
    /\ graph \in Places
    /\ run \in {"ACTIVE", "WAITING_RECONCILIATION", "COMPLETED"}
    /\ run # "ACTIVE" => graph = "out"
    /\ run = "COMPLETED" <=> saved.status \notin {"RUNNING", "WAITING"}
    /\ run = "WAITING_RECONCILIATION" => saved.status = "WAITING" /\ held # Nobody
    /\ loop.status = saved.status
    /\ NoIllegalState

LoopIInv ==
    Sound(loop) /\ Sound(saved) /\ Grounded(graph, loop) /\ EventInv /\ StatusInv

-----------------------------------------------------------------------------
\* A sound successor that is saved keeps the invariant.
LEMMA SoundSave ==
  ASSUME BudgetIInv, LoopIInv, NEW t, NEW n \in Places \ {"raised", "decided"}, save(t, n),
         graph \notin Ended, Sound(t), Grounded(n, t),
         t.status = saved.status \/ t.status \in {"RUNNING", "WAITING"},
         n = "out" => t.status = "WAITING",
         \/ t.pending = "none"
         \/ t.pending = saved.pending /\ t.iterations = saved.iterations
         \/ graph = "decided" /\ t.pending = loop.pending /\ t.iterations = loop.iterations
  PROVE  LoopIInv'
<1>1. Legal(t)
  BY DEF Sound, CountsOK
<1>2. /\ loop' = t /\ saved' = t /\ graph' = n /\ revision' = revision + 1
      /\ decided' = decided /\ run' = run /\ held' = held
  BY <1>1 DEF save
<1>3. run = "ACTIVE" /\ saved.status \in {"RUNNING", "WAITING"}
  BY DEF LoopIInv, StatusInv, Ended
<1>4. EventInv'
  <2>1. revision \in Nat /\ revision' = revision + 1 /\ revision' - 1 = revision
        /\ revision' \in Nat /\ revision - 1 <= revision
    BY <1>2 DEF LoopIInv, EventInv
  <2>2. t.pending # "none" => Witnessed(t, revision)
    BY <2>1 DEF LoopIInv, EventInv, Witnessed
  <2>3. QED
    BY <1>2, <2>1, <2>2 DEF EventInv, Witnessed
<1>5. StatusInv'
  BY <1>2, <1>3 DEF StatusInv, NoIllegalState, LoopIInv
<1>6. QED
  BY <1>2, <1>4, <1>5 DEF LoopIInv, Sound, CountsOK, PlacesOK, TurnsOK, Grounded, Legal

\* The State of a Run that ended or waits, and nothing else of it, is another.
LEMMA SoundStatus ==
  ASSUME NEW s, NEW t, IsState(s), Sound(s), IsState(t),
         \A field \in Fields \ {"status", "error", "gate"} : t[field] = s[field],
         t.status # "RUNNING"
  PROVE  Sound(t)
<1>1. /\ t.iterations = s.iterations /\ t.optimizerCalls = s.optimizerCalls
      /\ t.screenings = s.screenings /\ t.hfssCalls = s.hfssCalls
      /\ t.reoptimizations = s.reoptimizations /\ t.retries = s.retries
      /\ t.prepared = s.prepared /\ t.offered = s.offered
      /\ t.queue = s.queue /\ t.consumed = s.consumed /\ t.current = s.current
      /\ t.sparams = s.sparams /\ t.pending = s.pending
  BY DEF Fields
<1>2. QED
  BY <1>1 DEF Sound, CountsOK, PlacesOK, TurnsOK, Legal, Named

\* Ending an invocation with another status of the Run and of its State.
LEMMA SoundEnd ==
  ASSUME LoopIInv, NEW t, IsState(saved), IsState(t),
         \A field \in Fields \ {"status", "error", "gate"} : t[field] = saved[field],
         loop' = t, saved' = t, graph' = "out", revision' = revision + 1,
         decided' = decided,
         \/ run' = "COMPLETED" /\ t.status = "FAILED"
         \/ run' = "WAITING_RECONCILIATION" /\ t.status = "WAITING" /\ held' # Nobody
  PROVE  LoopIInv'
<1>1. Sound(t)
  BY SoundStatus DEF LoopIInv
<1>2. t.pending = saved.pending /\ t.iterations = saved.iterations
  BY DEF Fields
<1>3. EventInv'
  <2>1. revision \in Nat /\ revision' - 1 = revision /\ revision' \in Nat
        /\ revision - 1 <= revision
    BY DEF LoopIInv, EventInv
  <2>2. t.pending # "none" => Witnessed(t, revision)
    BY <1>2, <2>1 DEF LoopIInv, EventInv, Witnessed
  <2>3. QED
    BY <2>1, <2>2 DEF EventInv, Witnessed
<1>4. StatusInv'
  BY DEF StatusInv, NoIllegalState, Places, Ended
<1>5. Grounded(graph', loop')
  BY DEF Grounded, Working, Nodes
<1>6. QED
  BY <1>1, <1>3, <1>4, <1>5
  DEF LoopIInv, Sound, CountsOK, PlacesOK, TurnsOK, Grounded, Legal

\* So end the nodes that fail or hold the Run for an operation.
LEMMA SoundFail ==
  ASSUME BudgetIInv, LoopIInv, NEW cause, fail(cause)
  PROVE  LoopIInv'
<1> DEFINE t == [saved EXCEPT !.status = "FAILED", !.error = cause]
<1>1. /\ IsState(saved) /\ IsState(t) /\ t.status = "FAILED"
      /\ \A field \in Fields \ {"status", "error", "gate"} : t[field] = saved[field]
  BY DEF BudgetIInv, Solvable, IsState, Fields
<1>2. /\ loop' = t /\ saved' = t /\ graph' = "out" /\ revision' = revision + 1
      /\ decided' = decided /\ run' = "COMPLETED"
  BY DEF fail
<1> HIDE DEF t
<1>3. QED
  BY <1>1, <1>2, SoundEnd

\* The saved State that starts to wait is the same in everything but its status.
LEMMA Waits ==
  ASSUME BudgetIInv, NEW t, t = [saved EXCEPT !.status = "WAITING", !.gate = "waiting"]
  PROVE  /\ IsState(saved) /\ IsState(t) /\ t.status = "WAITING"
         /\ \A field \in Fields \ {"status", "error", "gate"} : t[field] = saved[field]
  BY DEF BudgetIInv, Solvable, IsState, Fields

\* And so ends a node whose Run is held for an operation.
LEMMA SoundHold ==
  ASSUME BudgetIInv, LoopIInv, NEW operation, operation # Nobody, hold(operation)
  PROVE  LoopIInv'
<1> DEFINE t == [saved EXCEPT !.status = "WAITING", !.gate = "waiting"]
<1>1. /\ IsState(saved) /\ IsState(t) /\ t.status = "WAITING"
      /\ \A field \in Fields \ {"status", "error", "gate"} : t[field] = saved[field]
  BY Waits
<1>2. /\ loop' = t /\ saved' = t /\ graph' = "out" /\ revision' = revision + 1
      /\ decided' = decided /\ run' = "WAITING_RECONCILIATION" /\ held' # Nobody
  BY DEF hold
<1> HIDE DEF t
<1>3. QED
  BY <1>1, <1>2, SoundEnd

\* The decision of a pending action is refused at any later revision.
LEMMA PendingIsRefused ==
  ASSUME BudgetIInv, LoopIInv, graph = "controller", loop.pending # "none"
  PROVE  Conflict(Event(loop))
<1>1. loop = saved
  BY DEF BudgetIInv, Resumable
<1>2. PICK d \in decided : /\ d.turn = loop.iterations /\ d.action = loop.pending
                           /\ d.revision \in Nat /\ d.revision <= revision - 1
  BY <1>1 DEF LoopIInv, EventInv, Witnessed
<1>3. d.revision # revision
  BY <1>2 DEF LoopIInv, EventInv
<1>4. d # Event(loop)
  BY <1>3 DEF Event
<1>5. QED
  BY <1>2, <1>4 DEF Conflict, Event

\* What the policy has seen of the State when it chooses an action, and that its last
\* admitted turn is a finalization.
LEMMA TurnGrounds ==
  ASSUME NEW s, s.sparams[Baseline] = "success",
         {MaxOptimizerCalls, MaxScreenings, MaxReoptimizations, MaxSafeRetries} \subseteq Nat,
         {s.optimizerCalls, s.screenings, s.reoptimizations, s.retries} \subseteq Nat
  PROVE  /\ Grounds(Turn(s).action, s)
         /\ Turn(s).action = "SELECT_NEXT_CANDIDATE" => s.queue # << >>
         /\ s.status # "WAITING" /\ s.iterations + 1 >= MaxIterations
               => Turn(s).action = "FINALIZE"
<1> DEFINE Seen(action) == /\ Grounds(action, s)
                           /\ action = "SELECT_NEXT_CANDIDATE" => s.queue # << >>
<1> USE DEF choice, finalize, NextCandidate, RetrySafe, Solver
<1>1. BudgetTerminal(s).action = "FINALIZE"
  BY DEF BudgetTerminal
<1>2. Seen("FINALIZE") /\ Seen("RECONCILE")
  BY DEF Grounds
<1>3. s.current # Nobody =>
         Seen(CandidateTurn(s).action) /\ CandidateTurn(s).action # "RECONCILE"
  <2> SUFFICES ASSUME s.current # Nobody
               PROVE  Seen(CandidateTurn(s).action) /\ CandidateTurn(s).action # "RECONCILE"
    OBVIOUS
  <2>1. Seen("NEXT_CANDIDATE") /\ Seen(Solver)
    BY DEF Grounds
  <2>2. s.screenings < MaxScreenings => Seen("SCREEN_CANDIDATE")
    BY DEF Grounds
  <2>3. s.retries < MaxSafeRetries => Seen("RETRY_SAFE")
    BY DEF Grounds
  <2> HIDE DEF Seen
  <2>4. s.screenings < MaxScreenings \/ s.screenings >= MaxScreenings
    OBVIOUS
  <2>5. QED
    BY <1>1, <1>2, <2>1, <2>2, <2>3, <2>4 DEF CandidateTurn
<1>4. Seen(SearchTurn(s).action) /\ SearchTurn(s).action # "RECONCILE"
  <2>1. s.queue # << >> => Seen("SELECT_NEXT_CANDIDATE")
    BY DEF Grounds
  <2>2. s.optimizerCalls < MaxOptimizerCalls => Seen("OPTIMIZE")
    BY DEF Grounds
  <2>3. s.reoptimizations < MaxReoptimizations => Seen("REOPTIMIZE")
    BY DEF Grounds
  <2>4. Seen("PREPARE_OPTIMIZATION")
    BY DEF Grounds
  <2> HIDE DEF Seen
  <2>5. /\ s.optimizerCalls < MaxOptimizerCalls \/ s.optimizerCalls >= MaxOptimizerCalls
        /\ s.reoptimizations < MaxReoptimizations \/ s.reoptimizations >= MaxReoptimizations
    OBVIOUS
  <2>6. QED
    BY <1>1, <1>2, <2>1, <2>2, <2>3, <2>4, <2>5 DEF SearchTurn
<1> HIDE DEF Seen
<1>5. Seen(Choice(s).action) /\ (s.status # "WAITING" => Choice(s).action # "RECONCILE")
  BY <1>2, <1>3, <1>4 DEF Choice
<1>6. Seen(Turn(s).action)
  BY <1>1, <1>2, <1>5 DEF Turn
<1>7. s.status # "WAITING" /\ s.iterations + 1 >= MaxIterations => Turn(s).action = "FINALIZE"
  BY <1>1, <1>5 DEF Turn
<1>8. QED
  BY <1>6, <1>7 DEF Seen

\* What a decision changes.
LEMMA Decided ==
  ASSUME NEW s, IsState(s), s.pending = "none"
  PROVE  /\ Decide(s).iterations = s.iterations + 1 /\ Decide(s).pending = Turn(s).action
         /\ \A field \in Fields \ {"iterations", "pending", "reason"} :
               Decide(s)[field] = s[field]
<1> DEFINE action == Turn(s).action
           reason == Turn(s).reason
           t == [s EXCEPT !.iterations = @ + 1, !.pending = action, !.reason = reason]
<1>1. Decide(s) = t
  BY DEF Decide
<1> HIDE DEF action, reason
<1>2. t.iterations = s.iterations + 1 /\ t.pending = action
      /\ \A field \in Fields \ {"iterations", "pending", "reason"} : t[field] = s[field]
  BY DEF IsState, Fields
<1>3. QED
  BY <1>1, <1>2 DEF action

\* A decision of a search that goes on is one the State accepts, with the grounds that
\* its node will need.
LEMMA DecisionSound ==
  ASSUME NEW s, IsState(s), Sound(s), s.pending = "none", s.sparams[Baseline] = "success",
         s.status \in {"RUNNING", "WAITING"}
  PROVE  /\ Legal(Decide(s)) => Sound(Decide(s)) /\ Grounded("decided", Decide(s))
         /\ ~Legal(Decide(s)) => s.status = "WAITING"
         /\ Decide(s).status = s.status
<1> DEFINE t == Decide(s)
           action == Turn(s).action
<1>1. {MaxIterations, MaxOptimizerCalls, MaxScreenings, MaxReoptimizations,
       MaxSafeRetries} \subseteq Nat
  BY LoopAssumption DEF LoopAssumption
<1>2. /\ s.iterations \in Nat /\ s.optimizerCalls \in Nat /\ s.screenings \in Nat
      /\ s.reoptimizations \in Nat /\ s.retries \in Nat
  BY DEF Sound, CountsOK
<1>3. /\ Grounds(action, s)
      /\ action = "SELECT_NEXT_CANDIDATE" => s.queue # << >>
      /\ s.status # "WAITING" /\ s.iterations + 1 >= MaxIterations => action = "FINALIZE"
  BY <1>1, <1>2, TurnGrounds
<1>4. /\ t.iterations = s.iterations + 1 /\ t.pending = action
      /\ \A field \in Fields \ {"iterations", "pending", "reason"} : t[field] = s[field]
  BY Decided
<1> HIDE DEF t, action
<1>5. /\ t.optimizerCalls = s.optimizerCalls
      /\ t.screenings = s.screenings /\ t.hfssCalls = s.hfssCalls
      /\ t.reoptimizations = s.reoptimizations /\ t.retries = s.retries
      /\ t.prepared = s.prepared /\ t.offered = s.offered
      /\ t.queue = s.queue /\ t.consumed = s.consumed /\ t.current = s.current
      /\ t.sparams = s.sparams /\ t.status = s.status
  BY <1>4 DEF Fields
<1>6. s.offered \in Nat /\ s.offered <= MaxBatch * s.optimizerCalls
      /\ MaxBatch * (s.optimizerCalls + 1) = MaxBatch * s.optimizerCalls + MaxBatch
      /\ MaxBatch \in Nat /\ MaxBatch * s.optimizerCalls \in Nat
  BY <1>2, Batches, LoopAssumption DEF Sound, CountsOK, LoopAssumption
<1>7. s.status = "RUNNING" => s.iterations + 1 <= MaxIterations
  BY <1>1, <1>2 DEF Sound, TurnsOK
<1>8. ~Legal(t) => s.status = "WAITING"
  BY <1>4, <1>5, <1>7 DEF Sound, CountsOK, Legal
<1>9. ASSUME Legal(t) PROVE Sound(t)
  <2>1. CountsOK(t)
    <3>1. t.offered <= MaxBatch * (IF t.pending = "OPTIMIZE" THEN t.optimizerCalls + 1
                                   ELSE t.optimizerCalls)
      BY <1>5, <1>6
    <3>2. QED
      BY <1>2, <1>4, <1>5, <1>9, <3>1 DEF Sound, CountsOK
  <2>2. PlacesOK(t)
    BY <1>5 DEF Sound, PlacesOK, Named
  <2>3. TurnsOK(t)
    BY <1>1, <1>2, <1>3, <1>4, <1>5, <1>7 DEF Sound, TurnsOK
  <2>4. QED
    BY <2>1, <2>2, <2>3 DEF Sound
<1>10. Grounded("decided", t)
  BY <1>3, <1>4, <1>5, <1>6 DEF Grounded, Grounds, Working, Nodes
<1>11. QED
  BY <1>5, <1>8, <1>9, <1>10 DEF t

\* The fields that the bookkeeping is about.
Alike(s, t) ==
    /\ t.status = s.status /\ t.sparams = s.sparams /\ t.pending = s.pending
    /\ t.queue = s.queue /\ t.consumed = s.consumed /\ t.current = s.current
    /\ t.offered = s.offered /\ t.prepared = s.prepared
    /\ t.iterations = s.iterations /\ t.optimizerCalls = s.optimizerCalls
    /\ t.screenings = s.screenings /\ t.hfssCalls = s.hfssCalls
    /\ t.reoptimizations = s.reoptimizations /\ t.retries = s.retries

\* What the bookkeeping does not read may change.
LEMMA SoundAlike ==
  ASSUME NEW s, NEW t, Sound(s), Alike(s, t)
  PROVE  Sound(t)
  BY DEF Alike, Sound, CountsOK, PlacesOK, TurnsOK, Legal, Named

\* The turn of the controller.
LEMMA ControllerSound ==
  ASSUME BudgetIInv, LoopIInv, Controller
  PROVE  LoopIInv'
<1> DEFINE t == Decide(loop)
<1>1. /\ graph = "controller" /\ run = "ACTIVE" /\ loop = saved /\ IsState(loop)
      /\ loop.sparams[Baseline] = "success" /\ Sound(loop) /\ Sound(saved)
      /\ loop.status \in {"RUNNING", "WAITING"}
  BY DEF Controller, within, BudgetIInv, Resumable, Solvable, LoopIInv, Grounded, StatusInv
<1>2. /\ saved' = saved /\ revision' = revision /\ run' = run /\ held' = held
  BY DEF Controller
<1>3. ASSUME loop' = loop, decided' = decided, graph' \in {"raised", "refused"},
             graph' = "raised" => loop.status = "WAITING"
      PROVE  LoopIInv'
  <2>1. StatusInv'
    BY <1>1, <1>2, <1>3 DEF LoopIInv, StatusInv, NoIllegalState, Places, Ended
  <2>2. EventInv' /\ Grounded(graph', loop')
    BY <1>2, <1>3 DEF LoopIInv, EventInv, Witnessed, Grounded, Working, Nodes
  <2>3. QED
    BY <1>1, <1>2, <1>3, <2>1, <2>2
    DEF LoopIInv, Sound, CountsOK, PlacesOK, TurnsOK, Grounded, Legal
<1>4. \/ ~Legal(t) /\ graph' = "raised" /\ UNCHANGED <<loop, decided>>
      \/ Legal(t) /\ Conflict(Event(t)) /\ graph' = "refused" /\ UNCHANGED <<loop, decided>>
      \/ /\ Legal(t) /\ ~Conflict(Event(t))
         /\ decided' = decided \cup {Event(t)} /\ loop' = t /\ graph' = "decided"
  BY DEF Controller
<1>5. CASE loop.pending # "none"
  <2>1. t = loop /\ Legal(t) /\ Conflict(Event(t))
    BY <1>1, <1>5, PendingIsRefused DEF Decide, Sound, CountsOK
  <2>2. QED
    BY <1>3, <1>4, <2>1
<1>6. CASE loop.pending = "none"
  <2>1. /\ Legal(t) => Sound(t) /\ Grounded("decided", t)
        /\ ~Legal(t) => loop.status = "WAITING"
        /\ t.status = loop.status
    BY <1>1, <1>6, DecisionSound
  <2> HIDE DEF t
  <2>2. CASE graph' \in {"raised", "refused"}
    BY <1>3, <1>4, <2>1, <2>2
  <2>3. CASE loop' = t /\ graph' = "decided" /\ Legal(t) /\ decided' = decided \cup {Event(t)}
    <3>1. StatusInv'
      BY <1>1, <1>2, <2>1, <2>3
      DEF LoopIInv, StatusInv, NoIllegalState, Places, Working, Ended
    <3>2. EventInv'
      <4>1. revision \in Nat /\ saved.pending = "none"
        BY <1>1, <1>6 DEF LoopIInv, EventInv
      <4>2. Event(t) \in decided' /\ Event(t).turn = t.iterations
            /\ Event(t).action = t.pending /\ Event(t).revision = revision
        BY <2>3 DEF Event
      <4>3. revision <= revision
        BY <4>1
      <4>4. Witnessed(loop, revision)'
        BY <1>2, <2>3, <4>1, <4>2, <4>3 DEF Witnessed
      <4>5. QED
        BY <1>2, <4>1, <4>4 DEF EventInv
    <3>3. QED
      BY <1>1, <1>2, <2>1, <2>3, <3>1, <3>2
      DEF LoopIInv, Sound, CountsOK, PlacesOK, TurnsOK, Grounded, Legal
  <2>4. QED
    BY <1>4, <2>2, <2>3
<1>7. QED
  BY <1>5, <1>6

\* And the way from there to the node.
LEMMA RouteSound ==
  ASSUME BudgetIInv, LoopIInv, Route
  PROVE  LoopIInv'
<1>1. /\ graph = "decided" /\ loop.pending \in Nodes /\ save(loop, loop.pending)
      /\ Sound(loop) /\ loop.status = saved.status /\ Grounded("decided", loop)
  BY DEF Route, within, BudgetIInv, PlacedAt, LoopIInv, StatusInv
<1>2. Grounded(loop.pending, loop)
  BY <1>1 DEF Grounded, Working, Nodes
<1>3. loop.pending \in Places \ {"raised", "decided", "out"} /\ graph \notin Ended
  BY <1>1 DEF Places, Working, Nodes, Ended
<1>4. QED
  BY <1>1, <1>2, <1>3, SoundSave

\* The nodes of the bootstrap.
LEMMA BootstrapSound ==
  ASSUME BudgetIInv, LoopIInv, BaselineSurrogate \/ ObserveBaseline
  PROVE  LoopIInv'
<1>1. /\ graph \in {"bootstrap", "baseline"} /\ loop = saved /\ IsState(loop)
      /\ Sound(loop) /\ Grounded(graph, loop) /\ run = "ACTIVE"
  BY DEF BaselineSurrogate, ObserveBaseline, within, BudgetIInv, Resumable, Solvable, LoopIInv
<1>2. ASSUME NEW t, NEW n \in {"baseline", "controller"}, save(t, n), Sound(t),
             t.sparams[Baseline] = "success", t.pending = loop.pending,
             t.iterations = loop.iterations, t.status = loop.status \/ t.status = "RUNNING"
      PROVE  LoopIInv'
  <2>1. Grounded(n, t) /\ n \in Places \ {"raised", "decided", "out"} /\ graph \notin Ended
    BY <1>1, <1>2 DEF Grounded, Working, Nodes, Places, Ended
  <2>2. QED
    BY <1>1, <1>2, <2>1, SoundSave
<1>3. CASE BaselineSurrogate
  <2> DEFINE t == [loop EXCEPT !.status = "RUNNING", !.sparams[Baseline] = "success"]
  <2>1. CASE loop.sparams[Baseline] = "success"
    BY <1>1, <1>2, <1>3, <2>1 DEF BaselineSurrogate
  <2>2. CASE loop.sparams[Baseline] # "success"
    <3>1. /\ t.status = "RUNNING" /\ t.sparams = [loop.sparams EXCEPT ![Baseline] = "success"]
          /\ t.pending = loop.pending
          /\ t.queue = loop.queue /\ t.consumed = loop.consumed /\ t.current = loop.current
          /\ t.offered = loop.offered /\ t.prepared = loop.prepared
          /\ t.iterations = loop.iterations /\ t.optimizerCalls = loop.optimizerCalls
          /\ t.screenings = loop.screenings /\ t.hfssCalls = loop.hfssCalls
          /\ t.reoptimizations = loop.reoptimizations /\ t.retries = loop.retries
      BY <1>1 DEF IsState, Fields
    <3>2. /\ t.sparams = [i \in Subjects |-> t.sparams[i]]
          /\ t.sparams[Baseline] = "success"
      BY <1>1, <3>1, Subject DEF Sound, TurnsOK
    <3>3. 0 < MaxIterations
      BY LoopAssumption DEF LoopAssumption
    <3> HIDE DEF t
    <3>4. Sound(t)
      <4>1. CountsOK(t) /\ PlacesOK(t)
        BY <1>1, <3>1 DEF Sound, CountsOK, PlacesOK, Legal, Named
      <4>2. TurnsOK(t)
        BY <1>1, <2>2, <3>1, <3>2, <3>3 DEF Sound, TurnsOK
      <4>3. QED
        BY <4>1, <4>2 DEF Sound
    <3>5. \/ save(t, "baseline") \/ fail("provider")
      BY <1>3, <2>2 DEF BaselineSurrogate, t
    <3>6. QED
      BY <1>2, <3>1, <3>2, <3>4, <3>5, SoundFail
  <2>3. QED
    BY <2>1, <2>2
<1>4. CASE ObserveBaseline
  <2> DEFINE t == [loop EXCEPT !.hfss[Baseline] = receipts[Baseline], !.best = Baseline]
  <2>1. Alike(loop, t)
    BY <1>1 DEF IsState, Fields, Alike
  <2>2. loop.sparams[Baseline] = "success"
    BY <1>1, <1>4 DEF ObserveBaseline, within, Grounded
  <2>3. Sound(t)
    BY <1>1, <2>1, SoundAlike
  <2> HIDE DEF t
  <2>4. fail("provider") \/ save(loop, "controller") \/ save(t, "controller")
    BY <1>4 DEF ObserveBaseline, t
  <2>5. QED
    BY <1>1, <1>2, <2>1, <2>2, <2>3, <2>4, SoundFail DEF Alike
<1>5. QED
  BY <1>3, <1>4

\* What is known at a node of its State.
LEMMA AtNode ==
  ASSUME BudgetIInv, LoopIInv, graph \in Working \ {"decided"}
  PROVE  /\ loop = saved /\ IsState(loop) /\ Sound(loop) /\ IsState(done(loop))
         /\ PlacedAt(graph, loop) /\ Grounds(loop.pending, loop)
         /\ loop.sparams[Baseline] = "success" /\ loop.status \in {"RUNNING", "WAITING"}
         /\ graph \notin Ended /\ run = "ACTIVE"
         /\ graph \in Nodes => loop.pending = graph
         /\ graph \in Nodes => loop.offered <= MaxBatch * loop.optimizerCalls
<1>1. /\ loop = saved /\ IsState(loop) /\ Sound(loop) /\ PlacedAt(graph, loop)
      /\ Grounded(graph, loop) /\ graph \notin Ended
  BY DEF BudgetIInv, LoopIInv, Resumable, Solvable, Working, Nodes, Ended
<1>2. run = "ACTIVE" /\ loop.status \in {"RUNNING", "WAITING"}
  BY <1>1 DEF LoopIInv, StatusInv, Ended
<1>3. Grounds(loop.pending, loop) /\ loop.sparams[Baseline] = "success"
  BY <1>1 DEF Grounded, Grounds
<1>4. /\ graph \in Nodes => loop.pending = graph
      /\ graph \in Nodes => loop.offered <= MaxBatch * loop.optimizerCalls
  BY <1>1 DEF PlacedAt, Grounded
<1>5. QED
  BY <1>1, <1>2, <1>3, <1>4, DoneIsState

\* The action of a node is over.
DoneAlike(s, t) ==
    /\ t.status = s.status /\ t.sparams = s.sparams /\ t.pending = "none"
    /\ t.iterations = s.iterations /\ t.offered = s.offered

\* Saving the work of a node that is done.
LEMMA DoneSave ==
  ASSUME BudgetIInv, LoopIInv, graph \in Working \ {"decided"}, NEW t, save(t, "controller"),
         DoneAlike(loop, t), CountsOK(t), PlacesOK(t), loop.pending # "FINALIZE"
  PROVE  LoopIInv'
<1>1. TurnsOK(t)
  BY AtNode DEF DoneAlike, Sound, TurnsOK
<1>2. Grounded("controller", t)
  BY AtNode DEF DoneAlike, Grounded, Working, Nodes
<1>3. "controller" \in Places \ {"raised", "decided", "out"}
  BY DEF Places, Working, Nodes, Ended
<1>4. QED
  BY <1>1, <1>2, <1>3, AtNode, SoundSave DEF Sound, DoneAlike

\* Nodes that count or prepare, and move no candidate.
PlacesAlike(s, t) ==
    /\ t.queue = s.queue /\ t.consumed = s.consumed /\ t.current = s.current
    /\ t.retries = s.retries

\* The steps that count or prepare keep the bookkeeping.
LEMMA PreparationSound ==
  ASSUME BudgetIInv, LoopIInv, PrepareOptimization \/ Reoptimize \/ EndOptimize \/ Gate
  PROVE  LoopIInv'
<1> DEFINE d == done(loop)
<1>1. graph \in Working \ {"decided"}
  BY DEF PrepareOptimization, Reoptimize, EndOptimize, Gate, within, Working, Nodes
<1>2. /\ IsState(loop) /\ Sound(loop) /\ IsState(d) /\ Grounds(loop.pending, loop)
      /\ PlacedAt(graph, loop)
  BY <1>1, AtNode
<1>3. /\ d.pending = "none" /\ DoneAlike(loop, d) /\ PlacesAlike(loop, d)
      /\ d.prepared = loop.prepared /\ d.optimizerCalls = loop.optimizerCalls
      /\ d.screenings = loop.screenings /\ d.hfssCalls = loop.hfssCalls
      /\ d.reoptimizations = loop.reoptimizations
  BY <1>2 DEF done, IsState, Fields, DoneAlike, PlacesAlike
<1>4. /\ loop.optimizerCalls \in Nat /\ loop.reoptimizations \in Nat
      /\ loop.screenings \in Nat /\ loop.offered \in Nat /\ loop.prepared \in Nat
      /\ {MaxOptimizerCalls, MaxReoptimizations, MaxScreenings} \subseteq Nat
  BY <1>2, LoopAssumption DEF Sound, CountsOK, LoopAssumption
<1> HIDE DEF d
<1>5. ASSUME NEW t, save(t, "controller"), DoneAlike(loop, t), PlacesAlike(loop, t),
             CountsOK(t), loop.pending # "FINALIZE"
      PROVE  LoopIInv'
  <2>1. PlacesOK(t)
    BY <1>2, <1>5 DEF DoneAlike, PlacesAlike, Sound, PlacesOK, Named
  <2>2. QED
    BY <1>1, <1>5, <2>1, DoneSave
<1>6. ASSUME NEW evaluation
      PROVE  LET t == Prepared(loop, evaluation) IN
             /\ DoneAlike(loop, t) /\ PlacesAlike(loop, t) /\ IsState(t)
             /\ t.prepared = loop.optimizerCalls + 1
             /\ t.optimizerCalls = loop.optimizerCalls
             /\ t.screenings = loop.screenings /\ t.hfssCalls = loop.hfssCalls
             /\ t.reoptimizations = loop.reoptimizations
  <2> DEFINE objective == IF Verdict(evaluation) = "INVALID" THEN "invalid" ELSE "active"
             t == [d EXCEPT !.prepared = loop.optimizerCalls + 1, !.objective = objective]
  <2>1. Prepared(loop, evaluation) = t
    BY DEF Prepared, d
  <2> HIDE DEF objective
  <2>2. /\ DoneAlike(loop, t) /\ PlacesAlike(loop, t) /\ IsState(t)
        /\ t.prepared = loop.optimizerCalls + 1
        /\ t.optimizerCalls = loop.optimizerCalls
        /\ t.screenings = loop.screenings /\ t.hfssCalls = loop.hfssCalls
        /\ t.reoptimizations = loop.reoptimizations
    BY <1>2, <1>3 DEF IsState, Fields, DoneAlike, PlacesAlike
  <2>3. QED
    BY <2>1, <2>2
<1>7. CASE PrepareOptimization
  <2> DEFINE t == Prepared(loop, loop.hfss[Baseline])
  <2>1. graph = "PREPARE_OPTIMIZATION" /\ loop.pending = graph
    BY <1>2, <1>7 DEF PrepareOptimization, within, PlacedAt, Nodes
  <2>2. save(t, "controller")
    BY <1>7 DEF PrepareOptimization
  <2>3. /\ DoneAlike(loop, t) /\ PlacesAlike(loop, t)
        /\ t.prepared = loop.optimizerCalls + 1
        /\ t.optimizerCalls = loop.optimizerCalls
        /\ t.screenings = loop.screenings /\ t.hfssCalls = loop.hfssCalls
        /\ t.reoptimizations = loop.reoptimizations
    BY <1>6
  <2> HIDE DEF t
  <2>4. CountsOK(t)
    BY <1>2, <1>4, <2>1, <2>3 DEF Sound, CountsOK, Legal, DoneAlike, PlacesAlike
  <2>5. QED
    BY <1>5, <2>1, <2>2, <2>3, <2>4
<1>8. CASE Reoptimize
  <2> DEFINE e == Prepared(loop, loop.hfss[Evidence(loop)])
             t == [e EXCEPT !.reoptimizations = @ + 1]
  <2>1. graph = "REOPTIMIZE" /\ loop.pending = graph
    BY <1>2, <1>8 DEF Reoptimize, within, PlacedAt, Nodes
  <2>2. loop.reoptimizations + 1 <= MaxReoptimizations
    BY <1>2, <1>4, <2>1 DEF Grounds
  <2>3. fail("no_evidence") \/ save(t, "controller")
    BY <1>8 DEF Reoptimize
  <2>4. /\ DoneAlike(loop, e) /\ PlacesAlike(loop, e) /\ IsState(e)
        /\ e.prepared = loop.optimizerCalls + 1
        /\ e.optimizerCalls = loop.optimizerCalls
        /\ e.screenings = loop.screenings /\ e.hfssCalls = loop.hfssCalls
        /\ e.reoptimizations = loop.reoptimizations
    BY <1>6
  <2> HIDE DEF e
  <2>5. /\ DoneAlike(loop, t) /\ PlacesAlike(loop, t)
        /\ t.prepared = loop.optimizerCalls + 1
        /\ t.optimizerCalls = loop.optimizerCalls
        /\ t.screenings = loop.screenings /\ t.hfssCalls = loop.hfssCalls
        /\ t.reoptimizations = loop.reoptimizations + 1
    BY <2>4 DEF IsState, Fields, DoneAlike, PlacesAlike
  <2> HIDE DEF t
  <2>6. CountsOK(t)
    BY <1>2, <1>4, <2>1, <2>2, <2>5 DEF Sound, CountsOK, Legal, DoneAlike, PlacesAlike
  <2>7. QED
    BY <1>5, <2>1, <2>3, <2>5, <2>6, SoundFail
<1>9. CASE EndOptimize
  <2> DEFINE t == [d EXCEPT !.optimizerCalls = @ + 1, !.gate = "none"]
  <2>1. graph = "optimized" /\ loop.pending = "OPTIMIZE"
    BY <1>2, <1>9 DEF EndOptimize, within, PlacedAt
  <2>2. loop.optimizerCalls + 1 <= MaxOptimizerCalls
    BY <1>2, <1>4, <2>1 DEF Grounds
  <2>3. save(t, "controller")
    BY <1>9 DEF EndOptimize, d
  <2>4. /\ DoneAlike(loop, t) /\ PlacesAlike(loop, t) /\ t.prepared = loop.prepared
        /\ t.optimizerCalls = loop.optimizerCalls + 1
        /\ t.screenings = loop.screenings /\ t.hfssCalls = loop.hfssCalls
        /\ t.reoptimizations = loop.reoptimizations
    BY <1>2, <1>3 DEF IsState, Fields, DoneAlike, PlacesAlike
  <2> HIDE DEF t
  <2>5. loop.offered <= MaxBatch * (loop.optimizerCalls + 1)
        /\ loop.prepared <= loop.optimizerCalls + 1
    BY <1>2, <2>1 DEF Sound, CountsOK
  <2>6. t.prepared <= t.optimizerCalls + 1 /\ t.offered <= MaxBatch * t.optimizerCalls
    BY <1>4, <2>4, <2>5 DEF DoneAlike
  <2>7. CountsOK(t)
    BY <1>2, <1>4, <2>2, <2>4, <2>6 DEF Sound, CountsOK, Legal, DoneAlike, PlacesAlike
  <2>8. QED
    BY <1>5, <2>1, <2>3, <2>4, <2>7
<1>10. CASE Gate
  <2>1. graph = "screened" /\ loop.pending = "SCREEN_CANDIDATE"
    BY <1>2, <1>10 DEF Gate, within, PlacedAt
  <2>2. loop.screenings + 1 <= MaxScreenings
    BY <1>2, <1>4, <2>1 DEF Grounds
  <2>3. PICK gate \in {"run_hfss", "stop"} :
           save([d EXCEPT !.gate = gate, !.screenings = @ + 1], "controller")
    BY <1>10 DEF Gate, d
  <2> DEFINE t == [d EXCEPT !.gate = gate, !.screenings = @ + 1]
  <2>4. /\ DoneAlike(loop, t) /\ PlacesAlike(loop, t) /\ t.prepared = loop.prepared
        /\ t.optimizerCalls = loop.optimizerCalls
        /\ t.screenings = loop.screenings + 1 /\ t.hfssCalls = loop.hfssCalls
        /\ t.reoptimizations = loop.reoptimizations
    BY <1>2, <1>3 DEF IsState, Fields, DoneAlike, PlacesAlike
  <2>5. save(t, "controller")
    BY <2>3
  <2> HIDE DEF t
  <2>6. CountsOK(t)
    BY <1>2, <1>4, <2>1, <2>2, <2>4 DEF Sound, CountsOK, Legal, DoneAlike, PlacesAlike
  <2>7. QED
    BY <1>5, <2>1, <2>4, <2>5, <2>6
<1>11. QED
  BY <1>7, <1>8, <1>9, <1>10

\* Candidates have names, and the baseline and nobody are none of them.
LEMMA Names ==
  ASSUME NEW s, CountsOK(s), PlacesOK(s)
  PROVE  /\ Baseline \notin Named(s) /\ Nobody \notin Named(s)
         /\ \A c \in Named(s) : c[1] \in Nat /\ c[1] <= s.offered
                                /\ c[2] \in Nat /\ c[2] <= s.retries
         /\ ToSet(s.queue) \subseteq Named(s) /\ ToSet(s.consumed) \subseteq Named(s)
<1>1. s.offered \in Nat /\ s.retries \in Nat
  BY DEF CountsOK
<1>2. /\ Baseline \notin Named(s) /\ Nobody \notin Named(s)
      /\ \A c \in Named(s) : c[1] \in Nat /\ c[1] <= s.offered
                             /\ c[2] \in Nat /\ c[2] <= s.retries
  BY <1>1 DEF Named, Baseline, Nobody
<1>3. ToSet(s.queue) \subseteq Named(s) /\ ToSet(s.consumed) \subseteq Named(s)
  BY DEF PlacesOK, ToSet
<1>4. QED
  BY <1>2, <1>3

\* The counts that the moves of candidates leave alone.
CountsAlike(s, t) ==
    /\ t.iterations = s.iterations /\ t.optimizerCalls = s.optimizerCalls
    /\ t.screenings = s.screenings /\ t.hfssCalls = s.hfssCalls
    /\ t.reoptimizations = s.reoptimizations /\ t.prepared = s.prepared

\* A new batch replaces the queue.
LEMMA OptimizerSound ==
  ASSUME BudgetIInv, LoopIInv, RunOptimizer
  PROVE  LoopIInv'
<1>1. graph = "OPTIMIZE" /\ graph \in Working \ {"decided"} /\ graph \in Nodes
  BY DEF RunOptimizer, within, Working, Nodes
<1>2. /\ loop = saved /\ IsState(loop) /\ Sound(loop) /\ Grounds(loop.pending, loop)
      /\ loop.status \in {"RUNNING", "WAITING"} /\ loop.pending = "OPTIMIZE"
      /\ loop.offered <= MaxBatch * loop.optimizerCalls /\ graph \notin Ended
  BY <1>1, AtNode
<1>3. ASSUME NEW n \in 1..MaxBatch, NEW r,
             save([loop EXCEPT !.offered = @ + n,
                               !.queue = [k \in 1..n |-> <<loop.offered + k, 0>>],
                               !.recommended = r], "optimized")
      PROVE  LoopIInv'
  <2> DEFINE batch == [k \in 1..n |-> <<loop.offered + k, 0>>]
             t == [loop EXCEPT !.offered = @ + n, !.queue = batch, !.recommended = r]
  <2>1. /\ loop.offered \in Nat /\ loop.retries \in Nat /\ loop.optimizerCalls \in Nat
        /\ MaxBatch \in Nat /\ n \in Nat /\ n <= MaxBatch /\ MaxOptimizerCalls \in Nat
    BY <1>2, <1>3, LoopAssumption DEF Sound, CountsOK, LoopAssumption
  <2>2. /\ batch \in Seq((1..(loop.offered + n)) \X (0..loop.retries))
        /\ IsInjective(batch) /\ \A c \in ToSet(batch) : c[1] > loop.offered
    BY <2>1, NewBatch
  <2> HIDE DEF batch
  <2>3. /\ t.queue = batch /\ t.offered = loop.offered + n
        /\ t.consumed = loop.consumed /\ t.current = loop.current /\ t.retries = loop.retries
        /\ t.pending = loop.pending /\ t.status = loop.status /\ t.sparams = loop.sparams
        /\ CountsAlike(loop, t)
    BY <1>2 DEF IsState, Fields, CountsAlike
  <2>4. save(t, "optimized")
    BY <1>3 DEF batch
  <2> HIDE DEF t
  <2>5. CountsOK(t)
    <3>1. MaxBatch * (loop.optimizerCalls + 1) = MaxBatch * loop.optimizerCalls + MaxBatch
          /\ MaxBatch * loop.optimizerCalls \in Nat
      BY <2>1, Batches
    <3>2. loop.offered + n <= MaxBatch * (loop.optimizerCalls + 1)
      BY <1>2, <2>1, <3>1
    <3>3. Legal(t)
      BY <1>2, <2>2, <2>3 DEF Sound, CountsOK, Legal, CountsAlike
    <3>4. QED
      BY <1>2, <2>1, <2>3, <3>2, <3>3 DEF Sound, CountsOK, CountsAlike
  <2>6. PlacesOK(t)
    <3>1. /\ Nobody \notin Named(t) /\ Named(loop) \subseteq Named(t)
          /\ \A c \in Named(loop) : c[1] <= loop.offered /\ c[1] \in Nat
          /\ ToSet(loop.consumed) \subseteq Named(loop)
      <4>1. Named(loop) \subseteq Named(t)
        BY <2>1, <2>3 DEF Named
      <4>2. Nobody \notin Named(t)
        BY <2>1, <2>3 DEF Named, Nobody
      <4>3. QED
        BY <1>2, <4>1, <4>2, Names DEF Sound
    <3>2. batch \in Seq(Named(t))
      BY <2>2, <2>3 DEF Named
    <3>3. ToSet(batch) \subseteq Named(t)
      BY <3>2 DEF ToSet
    <3>4. \A c \in ToSet(batch) : c \notin Named(loop)
      BY <2>1, <2>2, <3>1
    <3>5. loop.consumed \in Seq(Named(t)) /\ loop.current \in Named(loop) \cup {Nobody}
      BY <1>2, <3>1, MoreNames DEF Sound, PlacesOK
    <3>6. ToSet(batch) \cap (ToSet(loop.consumed) \cup {loop.current}) = {}
      BY <3>1, <3>3, <3>4, <3>5
    <3>7. QED
      BY <2>3, <3>1, <3>2, <3>5, <3>6 DEF PlacesOK
  <2>7. TurnsOK(t)
    BY <1>2, <2>3 DEF Sound, TurnsOK, CountsAlike
  <2>8. Grounded("optimized", t)
    BY <1>2, <2>3 DEF Grounds, Grounded, Working, Nodes, CountsAlike, Solver
  <2>9. "optimized" \in Places \ {"raised", "decided", "out"}
    BY DEF Places, Working, Ended, Nodes
  <2>10. QED
    BY <1>2, <2>3, <2>4, <2>5, <2>6, <2>7, <2>8, <2>9, SoundSave DEF Sound, CountsAlike
<1>4. QED
  BY <1>3, SoundFail, SoundHold, Subject DEF RunOptimizer

\* A candidate leaves the queue to be screened.
LEMMA SelectSound ==
  ASSUME BudgetIInv, LoopIInv, SelectNext
  PROVE  LoopIInv'
<1> DEFINE d == done(loop)
           c == IF loop.recommended \in ToSet(loop.queue) THEN loop.recommended
                ELSE Head(loop.queue)
           rest == Remaining(loop, c)
           t == [d EXCEPT !.current = c, !.queue = rest, !.gate = "none"]
<1>1. graph = "SELECT_NEXT_CANDIDATE" /\ graph \in Working \ {"decided"} /\ graph \in Nodes
  BY DEF SelectNext, within, Working, Nodes
<1>2. /\ IsState(loop) /\ Sound(loop) /\ IsState(d) /\ loop.pending = graph
  BY <1>1, AtNode
<1>3. loop.queue # << >>
  BY <1>1, <1>2 DEF LoopIInv, Grounded
<1>4. save(t, "controller")
  BY DEF SelectNext
<1>5. c \in ToSet(loop.queue)
  BY <1>2, <1>3 DEF ToSet, Sound, PlacesOK
<1> HIDE DEF c
<1>6. /\ rest \in Seq(Named(loop)) /\ IsInjective(rest) /\ ToSet(rest) = ToSet(loop.queue) \ {c}
  BY <1>2, <1>5, Removed DEF Remaining, Sound, CountsOK, PlacesOK, Legal
<1> HIDE DEF rest
<1>7. /\ d.pending = "none" /\ DoneAlike(loop, d) /\ CountsAlike(loop, d)
      /\ d.consumed = loop.consumed /\ d.retries = loop.retries
  BY <1>2 DEF done, IsState, Fields, DoneAlike, CountsAlike
<1> HIDE DEF d
<1>8. /\ DoneAlike(loop, t) /\ CountsAlike(loop, t) /\ t.queue = rest /\ t.current = c
      /\ t.consumed = loop.consumed /\ t.retries = loop.retries
  BY <1>2, <1>7 DEF IsState, Fields, DoneAlike, CountsAlike
<1> HIDE DEF t
<1>9. c \in Named(loop) /\ c \notin ToSet(loop.consumed)
  BY <1>2, <1>5, Names DEF Sound, PlacesOK
<1>10. PlacesOK(t)
  <2>1. Named(t) = Named(loop)
    BY <1>8 DEF Named, DoneAlike
  <2>2. QED
    BY <1>2, <1>6, <1>8, <1>9, <2>1 DEF Sound, PlacesOK
<1>11. CountsOK(t)
  <2>1. Legal(t)
    BY <1>2, <1>6, <1>8, <1>9 DEF Sound, CountsOK, Legal, DoneAlike, CountsAlike
  <2>2. t.offered <= MaxBatch * t.optimizerCalls
    BY <1>1, <1>2, <1>8 DEF Sound, CountsOK, DoneAlike, CountsAlike
  <2>3. QED
    BY <1>2, <1>8, <2>1, <2>2 DEF Sound, CountsOK, DoneAlike, CountsAlike
<1>12. QED
  BY <1>1, <1>2, <1>4, <1>8, <1>10, <1>11, DoneSave

\* Consuming the current candidate.
LEMMA ConsumedSound ==
  ASSUME NEW s, IsState(s), Sound(s), s.current # Nobody,
         s.pending \in {"NEXT_CANDIDATE", "RETRY_SAFE"}
  PROVE  LET t == Consumed(s) IN
         /\ IsState(t) /\ DoneAlike(s, t) /\ CountsAlike(s, t) /\ t.retries = s.retries
         /\ t.queue = s.queue /\ t.current = Nobody
         /\ ToSet(t.consumed) = ToSet(s.consumed) \cup {s.current}
         /\ CountsOK(t) /\ PlacesOK(t)
<1> DEFINE d == done(s)
           consumed == Append(d.consumed, s.current)
           t == [d EXCEPT !.consumed = consumed, !.current = Nobody, !.gate = "none"]
<1>1. s.current \in Named(s) /\ s.current \notin ToSet(s.consumed)
      /\ s.consumed \in Seq(Named(s)) /\ IsInjective(s.consumed)
  BY DEF Sound, CountsOK, PlacesOK, Legal
<1>2. /\ IsState(d) /\ DoneAlike(s, d) /\ CountsAlike(s, d) /\ d.retries = s.retries
      /\ d.queue = s.queue /\ d.consumed = s.consumed /\ d.current = s.current
  BY DoneIsState DEF done, IsState, Fields, DoneAlike, CountsAlike
<1>3. /\ consumed \in Seq(Named(s)) /\ IsInjective(consumed)
      /\ ToSet(consumed) = ToSet(s.consumed) \cup {s.current}
  BY <1>1, <1>2, OneMoreLast
<1>4. Consumed(s) = t
  BY DEF Consumed
<1> HIDE DEF d, consumed
<1>5. /\ IsState(t) /\ DoneAlike(s, t) /\ CountsAlike(s, t) /\ t.retries = s.retries
      /\ t.queue = s.queue /\ t.current = Nobody /\ t.consumed = consumed
  BY <1>2 DEF IsState, Fields, DoneAlike, CountsAlike
<1> HIDE DEF t
<1>6. Nobody \notin Named(s) /\ ToSet(s.queue) \subseteq Named(s)
  BY Names DEF Sound
<1>7. PlacesOK(t)
  <2>1. Named(t) = Named(s)
    BY <1>5 DEF Named, DoneAlike
  <2>2. QED
    BY <1>3, <1>5, <1>6, <2>1 DEF Sound, PlacesOK
<1>8. CountsOK(t)
  <2>1. Nobody \notin ToSet(consumed)
    BY <1>1, <1>3, <1>6, Names DEF Sound
  <2>2. QED
    BY <1>3, <1>5, <2>1 DEF Sound, CountsOK, Legal, DoneAlike, CountsAlike
<1>9. QED
  BY <1>3, <1>4, <1>5, <1>7, <1>8

\* A candidate is consumed, and with a safe retry returns under a new name.
LEMMA ConsumeSound ==
  ASSUME BudgetIInv, LoopIInv, ConsumeCandidate \/ QueueRetry
  PROVE  LoopIInv'
<1> DEFINE e == Consumed(loop)
<1>1. /\ graph \in Working \ {"decided"} /\ graph \in Nodes
      /\ graph \in {"NEXT_CANDIDATE", "RETRY_SAFE"}
  BY DEF ConsumeCandidate, QueueRetry, within, Working, Nodes
<1>2. /\ IsState(loop) /\ Sound(loop) /\ Grounds(loop.pending, loop) /\ loop.pending = graph
      /\ loop.current # Nobody
  BY <1>1, AtNode DEF Grounds
<1>3. /\ IsState(e) /\ DoneAlike(loop, e) /\ CountsAlike(loop, e) /\ e.retries = loop.retries
      /\ e.queue = loop.queue /\ e.current = Nobody
      /\ ToSet(e.consumed) = ToSet(loop.consumed) \cup {loop.current}
      /\ CountsOK(e) /\ PlacesOK(e)
  BY <1>1, <1>2, ConsumedSound
<1>4. CASE ConsumeCandidate
  BY <1>1, <1>2, <1>3, <1>4, DoneSave DEF ConsumeCandidate
<1>5. CASE QueueRetry
  <2> DEFINE retry == <<loop.current[1], loop.retries + 1>>
             queue == <<retry>> \o e.queue
             t == [e EXCEPT !.queue = queue, !.retries = @ + 1]
  <2>1. save(t, "controller")
    BY <1>5 DEF QueueRetry
  <2>2. /\ loop.offered \in Nat /\ loop.retries \in Nat /\ MaxSafeRetries \in Nat
        /\ loop.retries < MaxSafeRetries /\ graph = "RETRY_SAFE"
    BY <1>2, <1>5, LoopAssumption
    DEF Sound, CountsOK, LoopAssumption, Grounds, QueueRetry, within
  <2> DEFINE more == (1..loop.offered) \X (0..(loop.retries + 1))
  <2>3. /\ loop.current \in Named(loop) /\ ToSet(loop.queue) \subseteq Named(loop)
        /\ ToSet(loop.consumed) \subseteq Named(loop) /\ Nobody \notin Named(loop)
        /\ loop.queue \in Seq(Named(loop)) /\ IsInjective(loop.queue)
    BY <1>2, Names DEF Sound, CountsOK, PlacesOK, Legal
  <2>4. retry \in more /\ retry \notin Named(loop) /\ Named(loop) \subseteq more
        /\ Nobody \notin more
    BY <2>2, <2>3 DEF Named, Nobody
  <2> HIDE DEF retry, more
  <2>5. /\ queue \in Seq(more) /\ IsInjective(queue)
        /\ ToSet(queue) = ToSet(loop.queue) \cup {retry}
    <3>1. loop.queue \in Seq(more)
      BY <2>3, <2>4, MoreNames
    <3>2. retry \notin ToSet(loop.queue)
      BY <2>3, <2>4
    <3>3. e.queue = loop.queue
      BY <1>3
    <3>4. /\ <<retry>> \o loop.queue \in Seq(more) /\ IsInjective(<<retry>> \o loop.queue)
          /\ ToSet(<<retry>> \o loop.queue) = ToSet(loop.queue) \cup {retry}
      BY <2>3, <2>4, <3>1, <3>2, OneMoreFirst
    <3> HIDE DEF e
    <3>5. QED
      BY <3>3, <3>4
  <2> HIDE DEF e, queue
  <2>6. /\ DoneAlike(loop, t) /\ CountsAlike(loop, t) /\ t.retries = loop.retries + 1
        /\ t.queue = queue /\ t.current = Nobody /\ t.consumed = e.consumed
    BY <1>3 DEF IsState, Fields, DoneAlike, CountsAlike
  <2> HIDE DEF t
  <2>7. PlacesOK(t)
    <3>1. Named(t) = more
      BY <2>6 DEF Named, more, DoneAlike
    <3>2. Named(e) = Named(loop)
      BY <1>3 DEF Named, DoneAlike
    <3>3. t.consumed \in Seq(Named(t))
      BY <1>3, <2>4, <2>6, <3>1, <3>2, MoreNames DEF PlacesOK
    <3>4. ToSet(e.consumed) \subseteq Named(loop)
      BY <1>3, <2>3
    <3>5. ToSet(loop.queue) \cap (ToSet(e.consumed) \cup {Nobody}) = {}
      BY <1>3 DEF PlacesOK
    <3>6. ToSet(queue) \cap (ToSet(e.consumed) \cup {Nobody}) = {}
      BY <2>4, <2>5, <3>4, <3>5
    <3>7. QED
      BY <2>5, <2>6, <3>1, <3>3, <3>6 DEF PlacesOK
  <2>8. CountsOK(t)
    <3>1. Legal(t)
      BY <1>3, <2>2, <2>5, <2>6 DEF CountsOK, Legal, DoneAlike, CountsAlike
    <3>2. loop.retries + 1 \in Nat
      BY <2>2
    <3>3. QED
      BY <1>3, <2>6, <3>1, <3>2 DEF CountsOK, DoneAlike, CountsAlike
  <2>9. QED
    BY <1>1, <1>2, <2>1, <2>6, <2>7, <2>8, DoneSave
<1>6. QED
  BY <1>4, <1>5

\* The surrogate's answer.
LEMMA ScreenSound ==
  ASSUME BudgetIInv, LoopIInv, Screen
  PROVE  LoopIInv'
<1>1. graph = "SCREEN_CANDIDATE" /\ graph \in Working \ {"decided"} /\ graph \in Nodes
  BY DEF Screen, within, Working, Nodes
<1>2. /\ loop = saved /\ IsState(loop) /\ Sound(loop) /\ Grounds(loop.pending, loop)
      /\ loop.pending = graph /\ loop.status \in {"RUNNING", "WAITING"} /\ graph \notin Ended
      /\ loop.sparams[Baseline] = "success" /\ loop.current # Nobody
  BY <1>1, AtNode DEF Grounds
<1>3. ASSUME NEW outcome, save([loop EXCEPT !.sparams[loop.current] = outcome], "screened")
      PROVE  LoopIInv'
  <2> DEFINE t == [loop EXCEPT !.sparams[loop.current] = outcome]
  <2>1. /\ t.sparams = [loop.sparams EXCEPT ![loop.current] = outcome]
        /\ t.status = loop.status /\ t.pending = loop.pending /\ t.offered = loop.offered
        /\ t.retries = loop.retries /\ CountsAlike(loop, t)
        /\ t.queue = loop.queue /\ t.consumed = loop.consumed /\ t.current = loop.current
    BY <1>2 DEF IsState, Fields, CountsAlike
  <2>2. loop.current # Baseline
    BY <1>2, Names DEF Sound, PlacesOK
  <2>3. save(t, "screened")
    BY <1>3
  <2> HIDE DEF t
  <2>4. /\ t.sparams = [i \in Subjects |-> t.sparams[i]]
        /\ t.sparams[Baseline] = "success"
    BY <1>2, <2>1, <2>2, Subject DEF Sound, TurnsOK
  <2>5. CountsOK(t) /\ PlacesOK(t)
    BY <1>2, <2>1 DEF Sound, CountsOK, PlacesOK, Legal, Named, CountsAlike
  <2>6. TurnsOK(t)
    BY <1>2, <2>1, <2>4 DEF Sound, TurnsOK, CountsAlike
  <2>7. Grounded("screened", t)
    BY <1>1, <1>2, <2>1, <2>4 DEF Grounded, Grounds, Working, Nodes, CountsAlike
  <2>8. "screened" \in Places \ {"raised", "decided", "out"}
    BY DEF Places, Working, Ended, Nodes
  <2>9. QED
    BY <1>2, <2>1, <2>3, <2>5, <2>6, <2>7, <2>8, SoundSave DEF Sound, CountsAlike
<1>4. QED
  BY <1>3, SoundFail DEF Screen

\* The nodes of a solve.
LEMMA SolveSound ==
  ASSUME BudgetIInv, LoopIInv, ObserveCandidate \/ Compare \/ Promote \/ Settle
  PROVE  LoopIInv'
<1>1. graph \in Working \ {"decided"} /\ graph \in {Solver, "observed", "compared", "promoted"}
  BY DEF ObserveCandidate, Compare, Promote, Settle, within, Working, Nodes, Solver
<1>2. /\ loop = saved /\ IsState(loop) /\ Sound(loop) /\ Grounds(loop.pending, loop)
      /\ loop.status \in {"RUNNING", "WAITING"} /\ graph \notin Ended
      /\ loop.pending = Solver /\ loop.current # Nobody
  BY <1>1, AtNode DEF Grounds, PlacedAt, Nodes, Solver
<1>3. ASSUME NEW t, NEW n \in {"observed", "compared", "promoted"}, save(t, n), Alike(loop, t)
      PROVE  LoopIInv'
  <2>1. Sound(t)
    BY <1>2, <1>3, SoundAlike
  <2>2. Grounded(n, t)
    BY <1>2, <1>3 DEF Alike, Grounded, Grounds, Working, Nodes, Solver
  <2>3. n \in Places \ {"raised", "decided", "out"}
    BY <1>3 DEF Places, Working, Ended, Nodes
  <2>4. QED
    BY <1>2, <1>3, <2>1, <2>2, <2>3, SoundSave DEF Alike
<1>4. CASE ObserveCandidate
  <2> DEFINE t == [loop EXCEPT !.hfss[loop.current] = receipts[loop.current]]
  <2>1. Alike(loop, t)
    BY <1>2 DEF IsState, Fields, Alike
  <2>2. fail("provider") \/ save(t, "observed")
    BY <1>4 DEF ObserveCandidate
  <2>3. QED
    BY <1>3, <2>1, <2>2, SoundFail
<1>5. CASE Compare
  <2> DEFINE t == [loop EXCEPT !.compared = @ \cup {loop.current}]
  <2>1. Alike(loop, t)
    BY <1>2 DEF IsState, Fields, Alike
  <2>2. QED
    BY <1>3, <1>5, <2>1 DEF Compare
<1>6. CASE Promote
  <2> DEFINE best == IF BeatsBest(loop) THEN loop.current ELSE loop.best
             t == [loop EXCEPT !.diagnosed = @ \cup {loop.current}, !.best = best]
  <2>1. save(t, "promoted")
    BY <1>6 DEF Promote
  <2> HIDE DEF best
  <2>2. Alike(loop, t)
    BY <1>2 DEF IsState, Fields, Alike
  <2>3. QED
    BY <1>3, <2>1, <2>2
<1>7. CASE Settle
  <2> DEFINE d == done(loop)
             n == IF d.best = d.current THEN 0 ELSE d.stagnation + 1
             t == [d EXCEPT !.hfssCalls = @ + 1, !.stagnation = n]
  <2>1. /\ IsState(d) /\ DoneAlike(loop, d) /\ PlacesAlike(loop, d)
        /\ d.best = loop.best /\ d.stagnation = loop.stagnation
        /\ d.prepared = loop.prepared /\ d.optimizerCalls = loop.optimizerCalls
        /\ d.screenings = loop.screenings /\ d.hfssCalls = loop.hfssCalls
        /\ d.reoptimizations = loop.reoptimizations
    BY <1>2, DoneIsState DEF done, IsState, Fields, DoneAlike, PlacesAlike
  <2>2. save(t, "controller")
    BY <1>7, <2>1 DEF Settle, PlacesAlike
  <2> HIDE DEF d, n
  <2>3. /\ DoneAlike(loop, t) /\ PlacesAlike(loop, t)
        /\ t.prepared = loop.prepared /\ t.optimizerCalls = loop.optimizerCalls
        /\ t.screenings = loop.screenings /\ t.hfssCalls = loop.hfssCalls + 1
        /\ t.reoptimizations = loop.reoptimizations
    BY <2>1 DEF IsState, Fields, DoneAlike, PlacesAlike
  <2> HIDE DEF t
  <2>4. loop.hfssCalls + 1 <= MaxHFSSCalls
    BY <1>2, LoopAssumption DEF LoopAssumption, BudgetIInv, Solvable, Counted, IsState
  <2>5. CountsOK(t)
    BY <1>2, <2>3, <2>4 DEF Sound, CountsOK, Legal, DoneAlike, PlacesAlike, Solver
  <2>6. PlacesOK(t)
    BY <1>2, <2>3 DEF Sound, PlacesOK, Named, DoneAlike, PlacesAlike
  <2>7. QED
    BY <1>1, <1>2, <2>2, <2>3, <2>5, <2>6, DoneSave DEF Solver
<1>8. QED
  BY <1>4, <1>5, <1>6, <1>7

\* Receipts are no part of the bookkeeping.
LEMMA SoundQuiet ==
  ASSUME LoopIInv, UNCHANGED <<loop, saved, revision, decided, held, run, graph>>
  PROVE  LoopIInv'
<1>1. EventInv' /\ StatusInv'
  BY DEF LoopIInv, EventInv, StatusInv, NoIllegalState, Witnessed
<1>2. QED
  BY <1>1 DEF LoopIInv, Sound, CountsOK, PlacesOK, TurnsOK, Grounded, Legal

\* A solve is called, or nobody knows what became of it.
LEMMA CallSound ==
  ASSUME BudgetIInv, LoopIInv, NEW id \in Subjects, CallHFSS(id) \/ HFSSUnknown(id)
  PROVE  LoopIInv'
<1>1. CallHFSS(id) => UNCHANGED <<loop, saved, revision, decided, held, run, graph>>
  BY DEF CallHFSS
<1>2. HFSSUnknown(id) => hold(id) /\ id # Nobody
  BY Subject DEF HFSSUnknown
<1>3. QED
  BY <1>1, <1>2, SoundQuiet, SoundHold

\* The Run waits, or has found its end.
LEMMA EndingSound ==
  ASSUME BudgetIInv, LoopIInv, Reconcile \/ Finalize
  PROVE  LoopIInv'
<1> DEFINE d == done(loop)
<1>1. graph \in Working \ {"decided"} /\ graph \in Nodes /\ graph \in {"RECONCILE", "FINALIZE"}
  BY DEF Reconcile, Finalize, within, Working, Nodes
<1>2. /\ loop = saved /\ IsState(loop) /\ Sound(loop) /\ IsState(d)
      /\ loop.pending = graph /\ graph \notin Ended
      /\ loop.sparams[Baseline] = "success"
      /\ loop.offered <= MaxBatch * loop.optimizerCalls
  BY <1>1, AtNode
<1>3. /\ d.pending = "none" /\ DoneAlike(loop, d) /\ PlacesAlike(loop, d)
      /\ CountsAlike(loop, d)
  BY <1>2 DEF done, IsState, Fields, DoneAlike, PlacesAlike, CountsAlike
<1> HIDE DEF d
<1>4. ASSUME NEW t, t.pending = "none", t.status # "RUNNING", t.sparams = loop.sparams,
             t.offered = loop.offered, PlacesAlike(loop, t), CountsAlike(loop, t)
      PROVE  Sound(t)
  <2>1. CountsOK(t)
    BY <1>1, <1>2, <1>4 DEF Sound, CountsOK, Legal, PlacesAlike, CountsAlike
  <2>2. PlacesOK(t)
    BY <1>2, <1>4 DEF Sound, PlacesOK, Named, PlacesAlike
  <2>3. TurnsOK(t)
    BY <1>2, <1>4 DEF Sound, TurnsOK
  <2>4. QED
    BY <2>1, <2>2, <2>3 DEF Sound
<1>5. CASE Reconcile
  <2> DEFINE t == [d EXCEPT !.status = "WAITING", !.gate = "waiting"]
  <2>1. /\ t.pending = "none" /\ t.status = "WAITING" /\ t.sparams = loop.sparams
        /\ t.offered = loop.offered /\ PlacesAlike(loop, t) /\ CountsAlike(loop, t)
    BY <1>2, <1>3 DEF IsState, Fields, DoneAlike, PlacesAlike, CountsAlike
  <2>2. save(t, "out")
    BY <1>5 DEF Reconcile, d
  <2> HIDE DEF t
  <2>3. Sound(t)
    BY <1>4, <2>1
  <2>4. Grounded("out", t) /\ "out" \in Places \ {"raised", "decided"}
    BY DEF Grounded, Working, Nodes, Places, Ended
  <2>5. QED
    BY <1>2, <2>1, <2>2, <2>3, <2>4, SoundSave
<1>6. CASE Finalize
  <2> DEFINE status == Terminal(loop)
             t == [d EXCEPT !.status = status]
  <2>1. status \notin {"RUNNING", "WAITING"}
    BY DEF Terminal
  <2> HIDE DEF status
  <2>2. /\ t.pending = "none" /\ t.status = status /\ t.sparams = loop.sparams
        /\ t.offered = loop.offered /\ PlacesAlike(loop, t) /\ CountsAlike(loop, t)
    BY <1>2, <1>3 DEF IsState, Fields, DoneAlike, PlacesAlike, CountsAlike
  <2>3. CASE Backed(loop)
    <3>1. /\ loop' = t /\ saved' = t /\ graph' = "out" /\ run' = "COMPLETED"
          /\ revision' = revision + 1 /\ decided' = decided /\ held' = held
      BY <1>6, <2>3 DEF Finalize, d, status
    <3> HIDE DEF t
    <3>2. Sound(t)
      BY <1>4, <2>1, <2>2
    <3>3. EventInv'
      BY <2>2, <3>1 DEF LoopIInv, EventInv
    <3>4. StatusInv'
      BY <2>1, <2>2, <3>1 DEF StatusInv, NoIllegalState, Places, Ended
    <3>5. Grounded(graph', loop')
      BY <3>1 DEF Grounded, Working, Nodes
    <3>6. QED
      BY <3>1, <3>2, <3>3, <3>4, <3>5
      DEF LoopIInv, Sound, CountsOK, PlacesOK, TurnsOK, Grounded, Legal
  <2>4. CASE ~Backed(loop)
    BY <1>6, <2>4, SoundFail DEF Finalize
  <2>5. QED
    BY <2>3, <2>4
<1>7. QED
  BY <1>5, <1>6

\* Invocations that are lost, entered again or adjudicated.
LEMMA InvocationSound ==
  ASSUME BudgetIInv, LoopIInv, Enter \/ Crash \/ OperatorReconciles
  PROVE  LoopIInv'
<1>1. ASSUME loop' = saved, saved' = saved, revision' = revision, decided' = decided,
             graph' \in {"out", "bootstrap"}, run' = "ACTIVE",
             saved.status \in {"RUNNING", "WAITING"}
      PROVE  LoopIInv'
  <2>1. StatusInv'
    BY <1>1 DEF StatusInv, NoIllegalState, Places, Ended
  <2>2. EventInv' /\ Grounded(graph', loop')
    BY <1>1 DEF LoopIInv, EventInv, Witnessed, Grounded, Working, Nodes
  <2>3. QED
    BY <1>1, <2>1, <2>2 DEF LoopIInv, Sound, CountsOK, PlacesOK, TurnsOK, Grounded, Legal
<1>2. CASE Enter
  <2>1. saved.status \in {"RUNNING", "WAITING"} /\ run = "ACTIVE"
    BY <1>2 DEF Enter, LoopIInv, StatusInv
  <2>2. CASE held = Nobody
    BY <1>1, <1>2, <2>1, <2>2 DEF Enter
  <2>3. CASE held # Nobody
    <3> DEFINE t == [saved EXCEPT !.status = "WAITING", !.gate = "waiting"]
    <3>1. /\ IsState(saved) /\ IsState(t) /\ t.status = "WAITING"
          /\ \A field \in Fields \ {"status", "error", "gate"} : t[field] = saved[field]
      BY Waits
    <3>2. /\ loop' = t /\ saved' = t /\ graph' = "out" /\ revision' = revision + 1
          /\ decided' = decided /\ run' = "WAITING_RECONCILIATION" /\ held' # Nobody
      BY <1>2, <2>3 DEF Enter
    <3> HIDE DEF t
    <3>3. QED
      BY <3>1, <3>2, SoundEnd
  <2>4. QED
    BY <2>2, <2>3
<1>3. CASE Crash
  <2>1. run = "ACTIVE" /\ saved.status \in {"RUNNING", "WAITING"}
    BY <1>3 DEF Crash, LoopIInv, StatusInv, Ended
  <2>2. QED
    BY <1>1, <1>3, <2>1 DEF Crash
<1>4. CASE OperatorReconciles
  <2>1. /\ graph = "out" /\ saved.status \in {"RUNNING", "WAITING"}
        /\ loop = saved
    BY <1>4 DEF OperatorReconciles, LoopIInv, StatusInv, BudgetIInv, Resumable
  <2>2. QED
    BY <1>1, <1>4, <2>1 DEF OperatorReconciles
<1>5. QED
  BY <1>2, <1>3, <1>4

\* At first nothing has been offered, counted or decided.
LEMMA LoopInit == Init => LoopIInv
<1> SUFFICES ASSUME Init PROVE LoopIInv
  OBVIOUS
<1> DEFINE s == InitialState
<1>1. /\ loop = s /\ saved = s /\ revision = 0 /\ graph = "out" /\ run = "ACTIVE"
  BY DEF Init
<1>2. /\ s.iterations = 0 /\ s.optimizerCalls = 0 /\ s.screenings = 0 /\ s.hfssCalls = 0
      /\ s.reoptimizations = 0 /\ s.retries = 0 /\ s.prepared = 0 /\ s.offered = 0
      /\ s.queue = << >> /\ s.consumed = << >> /\ s.current = Nobody
      /\ s.pending = "none" /\ s.status = "RUNNING"
      /\ s.sparams = [i \in Subjects |-> "none"]
  BY DEF InitialState
<1> HIDE DEF s
<1>3. /\ {MaxIterations, MaxOptimizerCalls, MaxScreenings, MaxHFSSCalls, MaxBatch}
            \subseteq Nat \ {0}
      /\ {MaxReoptimizations, MaxSafeRetries} \subseteq Nat
  BY LoopAssumption DEF LoopAssumption
<1>4. IsInjective(<< >>) /\ ToSet(<< >>) = {} /\ \A S : << >> \in Seq(S)
  BY DEF IsInjective, ToSet
<1>5. Legal(s)
  BY <1>2, <1>3, <1>4 DEF Legal
<1>6. MaxBatch * 0 = 0
  BY <1>3
<1>7. CountsOK(s)
  BY <1>2, <1>5, <1>6 DEF CountsOK
<1>8. PlacesOK(s)
  BY <1>2, <1>4 DEF PlacesOK
<1>9. s.sparams[Baseline] = "none"
  BY <1>2, Subject
<1>10. TurnsOK(s)
  BY <1>2, <1>3, <1>9 DEF TurnsOK
<1>11. Grounded("out", s)
  BY DEF Grounded, Working, Nodes
<1>12. EventInv /\ StatusInv
  BY <1>1, <1>2 DEF EventInv, StatusInv, NoIllegalState, Places, Ended
<1>13. QED
  BY <1>1, <1>7, <1>8, <1>10, <1>11, <1>12 DEF LoopIInv, Sound

\* The bookkeeping is an invariant, together with the budget.
LEMMA LoopInduction == Spec => []LoopIInv
<1>1. BudgetIInv /\ LoopIInv /\ [Next]_vars => LoopIInv'
  <2> SUFFICES ASSUME BudgetIInv, LoopIInv, [Next]_vars PROVE LoopIInv'
    OBVIOUS
  <2>1. CASE Next
    <3>1. Ids \subseteq Subjects /\ Baseline \in Subjects
      BY Subject
    <3>2. CASE Bootstrap \/ Decision
      BY <3>1, <3>2, BootstrapSound, CallSound, ControllerSound, RouteSound
      DEF Bootstrap, Decision
    <3>3. CASE Searching \/ Screening
      BY <3>3, PreparationSound, OptimizerSound, SelectSound, ScreenSound
      DEF Searching, Screening
    <3>4. CASE Solve
      BY <3>1, <3>4, CallSound, SolveSound DEF Solve
    <3>5. CASE Ending
      BY <3>5, ConsumeSound, EndingSound DEF Ending
    <3>6. CASE Enter \/ Crash \/ OperatorReconciles
      BY <3>6, InvocationSound
    <3>7. QED
      BY <2>1, <3>2, <3>3, <3>4, <3>5, <3>6 DEF Next, Proceed
  <2>2. CASE UNCHANGED vars
    BY <2>2, SoundQuiet DEF vars
  <2>3. QED
    BY <2>1, <2>2
<1>2. QED
  BY <1>1, LoopInit, BudgetInduction, PTL DEF Spec

\* The loop's bookkeeping is coherent whenever it is saved, for every budget, batch and
\* number of designs and invocations: no candidate is in two places, an action is
\* pending while its node runs, and the Run and its State end together
\* (agent/closed_loop_contracts.py, comparison_state.py).
THEOREM LoopTheorem == Spec => []LoopInv
<1>1. BudgetIInv /\ LoopIInv => LoopInv
  <2> SUFFICES ASSUME BudgetIInv, LoopIInv PROVE LoopInv
    OBVIOUS
  <2>1. Legal(loop) /\ Legal(saved) /\ saved.prepared <= saved.optimizerCalls + 1
        /\ ToSet(saved.queue) \cap (ToSet(saved.consumed) \cup {saved.current}) = {}
    BY DEF LoopIInv, Sound, CountsOK, PlacesOK
  <2>2. /\ run = "COMPLETED" <=> saved.status \notin {"RUNNING", "WAITING"}
        /\ run = "WAITING_RECONCILIATION" => saved.status = "WAITING" /\ held # Nobody
        /\ graph \in Places
    BY DEF LoopIInv, StatusInv
  <2>3. graph \in Nodes => loop.pending = graph
    BY DEF BudgetIInv, PlacedAt
  <2>4. QED
    BY <2>1, <2>2, <2>3 DEF LoopInv, Places, Working
<1>2. QED
  BY <1>1, LoopInduction, BudgetInduction, PTL

\* No turn leaves the State its constructors refuse, unless the Run waits for an
\* operator: the last admitted turn finalizes, and a turn that counts was taken below
\* the limit of its count (agent/closed_loop_policy.py:32).
THEOREM LegalStateTheorem == Spec => []NoIllegalState
<1>1. LoopIInv => NoIllegalState
  BY DEF LoopIInv, StatusInv
<1>2. QED
  BY <1>1, LoopInduction, PTL

-----------------------------------------------------------------------------
(* What the search knows of its designs, and that Best is the best of them. *)

\* A solve whose evaluation counts, and one that comes before another.
Valid(o)    == Verdict(o) \in {"PASS", "FAIL"}
Ahead(o, p) == Before(Evaluated[o].rank, Evaluated[p].rank)

\* Best is a valid solve that none of those of S is ahead of.
Leads(s, S) ==
    /\ s.best \in Subjects /\ Valid(s.hfss[s.best])
    /\ s.best # Baseline => Ahead(s.hfss[s.best], s.hfss[Baseline])
    /\ \A i \in S : Valid(s.hfss[i]) => ~Ahead(s.hfss[i], s.hfss[s.best])

\* The subjects that were compared; the pending solve may not be.
Settled(s) == IF s.pending = Solver THEN Subjects \ {s.current} ELSE Subjects

\* What a State knows of the solves, and that candidates follow a valid baseline only.
Ranked(s, r) ==
    /\ \A i \in Subjects : s.hfss[i] # Absent => s.hfss[i] = r[i] /\ r[i] \in Outcomes
    /\ Valid(s.hfss[Baseline]) => Leads(s, Settled(s))
    /\ ~Valid(s.hfss[Baseline]) => \A i \in Ids : s.hfss[i] = Absent

\* What the policy has seen when it finalizes.
Reasoned(s) ==
    /\ s.reason \in {"budget_exhausted", "baseline_target_met", "candidate_target_met",
                     "core_pass_margin_incomplete", "baseline_evaluation_invalid"}
    /\ s.reason # "baseline_evaluation_invalid" => Valid(s.hfss[Baseline])
    /\ s.reason = "baseline_target_met" => TargetMet(s.hfss[Baseline])
    /\ s.reason = "budget_exhausted" => Verdict(s.hfss[s.best]) # "PASS"

\* What is known at a node.
Standing(node, s) ==
    /\ node \in Working \cup {"controller"} => s.hfss[Baseline] # Absent
    /\ node \in Working /\ s.pending \notin {"FINALIZE", "RECONCILE"} =>
         Valid(s.hfss[Baseline])
    /\ node \in {"decided", Solver} /\ s.pending = Solver => s.hfss[s.current] = Absent
    /\ node = "compared" => s.hfss[s.current] \in Designs
    /\ node = "promoted" => Leads(s, Subjects)
    /\ node \in {"decided", "FINALIZE"} /\ s.pending = "FINALIZE" => Reasoned(s)

ResultIInv ==
    /\ receipts \in [Subjects -> Outcomes \cup {Rejected, Absent}]
    /\ Ranked(loop, receipts) /\ Ranked(saved, receipts) /\ Standing(graph, loop)
    /\ held \in Subjects => receipts[held] = Absent

-----------------------------------------------------------------------------

\* The verdict and the rank of a design, as its evaluation has them.
LEMMA ValidSolve ==
  ASSUME NEW o
  PROVE  /\ Valid(o) <=> o \in Designs /\ Evaluated[o].status # "INVALID"
         /\ Valid(o) =>
              /\ Evaluated[o].rank \in [1..(5 + Len(Rules)) -> Int]
              /\ \A k \in 1..(5 + Len(Rules)) : Evaluated[o].rank[k] >= 0
              /\ Verdict(o) = "PASS" <=> Evaluated[o].rank[1] = 0
              /\ TargetMet(o) => \A k \in 1..(5 + Len(Rules)) : Evaluated[o].rank[k] = 0
              /\ Cardinality(Met[o]) + Evaluated[o].rank[1] = Cardinality(Mandatory(Rules))
              /\ Cardinality(Met[o]) \in Nat
         /\ Passing(o) <=> Verdict(o) = "PASS"
         /\ TargetMet(o) => Valid(o)
<1>1. CASE o \notin Designs
  BY <1>1 DEF Valid, Verdict, Passing, TargetMet
<1>2. CASE o \in Designs
  <2> DEFINE e == Evaluated[o]
             m == MandatoryMet(Solves[o], Rules)
             all == Mandatory(Rules)
             n == 5 + Len(Rules)
  <2>1. e = Evaluate(Solves[o], Rules) /\ Met[o] = m
    BY <1>2 DEF Evaluated, Met
  <2>2. IsContract(Rules) /\ IsResponse(Solves[o])
    BY <1>2, MeasurementAssumption DEF MeasurementAssumption
  <2>3. Verdict(o) = e.status /\ (TargetMet(o) <=> AllRulesPass(e)) /\ (Passing(o) <=> m = all)
    BY <1>2, <2>1 DEF Verdict, TargetMet, Passing
  <2> HIDE DEF e, m, all
  <2>4. /\ e.status \in {"INVALID", "PASS", "FAIL"}
        /\ IsFiniteSet(m)
        /\ e.status = "INVALID" => m # all
        /\ e.status # "INVALID" =>
             /\ e.rank \in [1..n -> Int]
             /\ \A k \in 1..n : e.rank[k] >= 0
             /\ e.status = "PASS" <=> e.rank[1] = 0
             /\ AllRulesPass(e) => \A k \in 1..n : e.rank[k] = 0
             /\ Cardinality(m) + e.rank[1] = Cardinality(all)
             /\ e.rank[1] = 0 <=> m = all
    BY <2>1, <2>2, EvaluationTheorem DEF m, all
  <2>5. Valid(o) <=> e.status # "INVALID"
    BY <2>3, <2>4 DEF Valid
  <2>6. AllRulesPass(e) => e.status = "PASS"
    BY DEF AllRulesPass
  <2>7. Cardinality(m) \in Nat
    BY <2>4, FS_CardinalityType
  <2>8. QED
    BY <1>2, <2>1, <2>3, <2>4, <2>5, <2>6, <2>7 DEF e, m, all
<1>3. QED
  BY <1>1, <1>2

\* The comparator orders the valid solves.
LEMMA AheadOrders ==
  ASSUME NEW o, NEW p, NEW q, Valid(o), Valid(p), Valid(q)
  PROVE  /\ ~Ahead(o, o)
         /\ Ahead(o, p) /\ Ahead(p, q) => Ahead(o, q)
         /\ ~Ahead(o, p) => Evaluated[p].rank[1] <= Evaluated[o].rank[1]
         /\ TargetMet(p) => ~Ahead(o, p)
<1> DEFINE n == 5 + Len(Rules)
           a == Evaluated[o].rank
           b == Evaluated[p].rank
           c == Evaluated[q].rank
<1>1. Len(Rules) \in Nat
  BY MeasurementAssumption DEF MeasurementAssumption, IsContract
<1>2. n \in Nat \ {0} /\ 1 \in 1..n
  BY <1>1
<1>3. /\ a \in [1..n -> Int] /\ b \in [1..n -> Int] /\ c \in [1..n -> Int]
      /\ \A k \in 1..n : a[k] >= 0
      /\ TargetMet(p) => \A k \in 1..n : b[k] = 0
  BY ValidSolve
<1>4. Ahead(o, o) = Before(a, a) /\ Ahead(o, p) = Before(a, b)
      /\ Ahead(p, q) = Before(b, c) /\ Ahead(o, q) = Before(a, c)
  BY DEF Ahead
<1> HIDE DEF a, b, c, n
<1>5. ~Before(a, a) /\ (Before(a, b) /\ Before(b, c) => Before(a, c))
  BY <1>2, <1>3, BeforeOrders
<1>6. a[1] < b[1] => Before(a, b)
  BY <1>2, <1>3, FirstDecides
<1>7. TargetMet(p) => ~Before(a, b)
  BY <1>2, <1>3, FirstDecides
<1>8. a[1] \in Int /\ b[1] \in Int
  BY <1>2, <1>3
<1>9. ~Before(a, b) => b[1] <= a[1]
  BY <1>6, <1>8
<1>10. QED
  BY <1>4, <1>5, <1>7, <1>9 DEF a, b

\* A State that solves and promotes nothing is ranked as the one before.
LEMMA RankedAlike ==
  ASSUME NEW s, NEW t, NEW r, Ranked(s, r), t.hfss = s.hfss, t.best = s.best,
         s.pending = Solver => t.pending = Solver /\ t.current = s.current
  PROVE  Ranked(t, r)
<1>1. \A S, T : T \subseteq S /\ Leads(s, S) => Leads(t, T)
  BY DEF Leads
<1>2. Settled(t) \subseteq Settled(s)
  BY DEF Settled
<1>3. QED
  BY <1>1, <1>2 DEF Ranked

\* Saving a successor that is ranked.
LEMMA ResultSave ==
  ASSUME ResultIInv, BudgetIInv, NEW t, NEW n, save(t, n), graph \notin Ended,
         Ranked(t, receipts), Standing(n, t)
  PROVE  ResultIInv'
<1>1. receipts' = receipts /\ held' = held
  BY DEF save
<1>2. CASE Legal(t)
  <2>1. loop' = t /\ saved' = t /\ graph' = n
    BY <1>2 DEF save
  <2>2. QED
    BY <1>1, <2>1 DEF ResultIInv
<1>3. CASE ~Legal(t)
  <2>1. loop' = loop /\ saved' = saved /\ graph' = "raised"
    BY <1>3 DEF save
  <2>2. Standing(graph', loop')
    BY <2>1 DEF Standing, Working, Nodes, Solver
  <2>3. QED
    BY <1>1, <2>1, <2>2 DEF ResultIInv
<1>4. QED
  BY <1>2, <1>3

\* A State that was ended or made to wait is ranked as it was.
LEMMA ResultStop ==
  ASSUME ResultIInv, NEW t, loop' = t, saved' = t, graph' = "out", receipts' = receipts,
         IsState(saved), t.hfss = saved.hfss, t.best = saved.best,
         t.pending = saved.pending, t.current = saved.current,
         held' \in Subjects => receipts[held'] = Absent
  PROVE  ResultIInv'
<1>1. Ranked(t, receipts)
  BY RankedAlike DEF ResultIInv
<1>2. Standing("out", t)
  BY DEF Standing, Working, Nodes, Solver
<1>3. QED
  BY <1>1, <1>2 DEF ResultIInv

\* So end the nodes that fail, or hold the Run for an operation without a receipt.
LEMMA ResultFail ==
  ASSUME ResultIInv, BudgetIInv, NEW cause, fail(cause)
  PROVE  ResultIInv'
<1> DEFINE t == [saved EXCEPT !.status = "FAILED", !.error = cause]
<1>1. /\ IsState(saved) /\ t.hfss = saved.hfss /\ t.best = saved.best
      /\ t.pending = saved.pending /\ t.current = saved.current
  BY DEF BudgetIInv, Solvable, IsState, Fields
<1>2. /\ loop' = t /\ saved' = t /\ graph' = "out"
      /\ receipts' = receipts /\ held' = held
  BY DEF fail
<1> HIDE DEF t
<1>3. held' \in Subjects => receipts[held'] = Absent
  BY <1>2 DEF ResultIInv
<1>4. QED
  BY <1>1, <1>2, <1>3, ResultStop

\* What the saved State that starts to wait has in common with it.
LEMMA ResultWait ==
  ASSUME ResultIInv, BudgetIInv, receipts' = receipts, graph' = "out",
         saved' = [saved EXCEPT !.status = "WAITING", !.gate = "waiting"], loop' = saved',
         held' \in Subjects => receipts[held'] = Absent
  PROVE  ResultIInv'
<1> DEFINE t == [saved EXCEPT !.status = "WAITING", !.gate = "waiting"]
<1>1. /\ IsState(saved) /\ t.hfss = saved.hfss /\ t.best = saved.best
      /\ t.pending = saved.pending /\ t.current = saved.current
  BY DEF BudgetIInv, Solvable, IsState, Fields
<1>2. loop' = t /\ saved' = t
  OBVIOUS
<1> HIDE DEF t
<1>3. QED
  BY <1>1, <1>2, ResultStop

\* What a node that solves and promotes nothing leaves of the results.
Results(s, t) ==
    t.hfss = s.hfss /\ t.best = s.best /\ t.pending \in {s.pending, "none"}

\* Saving the work of such a node.
LEMMA ResultNode ==
  ASSUME ResultIInv, BudgetIInv, LoopIInv, NEW t,
         NEW n \in {"controller", "out", "optimized", "screened"}, save(t, n),
         graph \in Working \ {"decided"}, loop.pending # Solver,
         n \in {"optimized", "screened"} => loop.pending \notin {"FINALIZE", "RECONCILE"},
         Results(loop, t)
  PROVE  ResultIInv'
<1>1. Ranked(loop, receipts) /\ Standing(graph, loop) /\ graph \notin Ended
  BY AtNode DEF ResultIInv
<1>2. Ranked(t, receipts)
  BY <1>1, RankedAlike DEF Results
<1>3. t.pending # Solver
  BY DEF Results, Solver
<1>4. Standing(n, t)
  BY <1>1, <1>3 DEF Standing, Results, Working, Nodes, Solver
<1>5. QED
  BY <1>1, <1>2, <1>4, ResultSave

\* The nodes of the search, of the screening and of the ends neither solve nor promote.
LEMMA SearchResult ==
  ASSUME ResultIInv, BudgetIInv, LoopIInv,
         \/ PrepareOptimization \/ Reoptimize \/ RunOptimizer \/ EndOptimize
         \/ SelectNext \/ Screen \/ Gate \/ ConsumeCandidate \/ QueueRetry \/ Reconcile
  PROVE  ResultIInv'
<1> DEFINE d == done(loop)
<1>1. graph \in (Nodes \ {Solver, "FINALIZE"}) \cup {"optimized", "screened"}
  BY DEF PrepareOptimization, Reoptimize, RunOptimizer, EndOptimize, SelectNext, Screen,
         Gate, ConsumeCandidate, QueueRetry, Reconcile, within, Nodes, Solver
<1>2. graph \in Working \ {"decided"}
  BY <1>1 DEF Working, Nodes
<1>3. /\ IsState(loop) /\ IsState(d) /\ PlacedAt(graph, loop)
      /\ graph \in Nodes => loop.pending = graph
  BY <1>2, AtNode
<1>4. loop.pending # Solver
  BY <1>1, <1>3 DEF PlacedAt, Solver, Nodes
<1>5. d.hfss = loop.hfss /\ d.best = loop.best /\ d.pending = "none"
  BY <1>3 DEF done, IsState, Fields
<1> HIDE DEF d
<1>6. ASSUME NEW t, NEW n \in {"controller", "out"}, save(t, n), Results(d, t)
      PROVE  ResultIInv'
  <2>1. Results(loop, t)
    BY <1>5, <1>6 DEF Results
  <2>2. QED
    BY <1>2, <1>4, <1>6, <2>1, ResultNode
<1>7. ASSUME NEW e, IsState(e), Results(d, e), NEW a, NEW b, NEW c
      PROVE  /\ Results(d, [e EXCEPT !.prepared = a, !.objective = b])
             /\ Results(d, [e EXCEPT !.optimizerCalls = a, !.gate = b])
             /\ Results(d, [e EXCEPT !.current = a, !.queue = b, !.gate = c])
             /\ Results(d, [e EXCEPT !.gate = a, !.screenings = b])
             /\ Results(d, [e EXCEPT !.consumed = a, !.current = b, !.gate = c])
             /\ Results(d, [e EXCEPT !.status = a, !.gate = b])
             /\ Results(d, [e EXCEPT !.reoptimizations = a])
             /\ Results(d, [e EXCEPT !.queue = a, !.retries = b])
  <2>2. Results(d, [e EXCEPT !.prepared = a, !.objective = b])
    BY <1>7 DEF IsState, Fields, Results
  <2>3. Results(d, [e EXCEPT !.optimizerCalls = a, !.gate = b])
    BY <1>7 DEF IsState, Fields, Results
  <2>4. Results(d, [e EXCEPT !.current = a, !.queue = b, !.gate = c])
    BY <1>7 DEF IsState, Fields, Results
  <2>5. Results(d, [e EXCEPT !.gate = a, !.screenings = b])
    BY <1>7 DEF IsState, Fields, Results
  <2>6. Results(d, [e EXCEPT !.consumed = a, !.current = b, !.gate = c])
    BY <1>7 DEF IsState, Fields, Results
  <2>7. Results(d, [e EXCEPT !.status = a, !.gate = b])
    BY <1>7 DEF IsState, Fields, Results
  <2>8. Results(d, [e EXCEPT !.reoptimizations = a])
    BY <1>7 DEF IsState, Fields, Results
  <2>9. Results(d, [e EXCEPT !.queue = a, !.retries = b])
    BY <1>7 DEF IsState, Fields, Results
  <2>10. QED
    BY <2>2, <2>3, <2>4, <2>5, <2>6, <2>7, <2>8, <2>9
<1>8. IsState(d) /\ Results(d, d)
  BY <1>3 DEF Results
<1>9. CASE PrepareOptimization
  <2>1. Results(d, Prepared(loop, loop.hfss[Baseline]))
    BY <1>7, <1>8 DEF Prepared, d
  <2>2. QED
    BY <1>6, <1>9, <2>1 DEF PrepareOptimization
<1>10. CASE Reoptimize
  <2> DEFINE e == Prepared(loop, loop.hfss[Evidence(loop)])
             t == [e EXCEPT !.reoptimizations = @ + 1]
  <2>1. IsState(e)
    BY <1>3, NodeEdits DEF Prepared, Edits, d
  <2>2. Results(d, e)
    BY <1>7, <1>8 DEF Prepared, d
  <2>3. save(t, "controller") \/ fail("no_evidence")
    BY <1>10 DEF Reoptimize
  <2> HIDE DEF e
  <2>4. Results(d, t)
    BY <1>7, <2>1, <2>2
  <2>5. QED
    BY <1>6, <2>3, <2>4, ResultFail
<1>11. CASE RunOptimizer
  <2>1. graph = "OPTIMIZE" /\ loop.pending = "OPTIMIZE"
    BY <1>3, <1>11 DEF RunOptimizer, within, Nodes
  <2>2. ASSUME NEW n, NEW batch, NEW r,
               save([loop EXCEPT !.offered = @ + n, !.queue = batch,
                                 !.recommended = r], "optimized")
        PROVE  ResultIInv'
    <3> DEFINE t == [loop EXCEPT !.offered = @ + n, !.queue = batch, !.recommended = r]
    <3>1. Results(loop, t)
      BY <1>3 DEF IsState, Fields, Results
    <3>2. QED
      BY <1>2, <1>4, <2>1, <2>2, <3>1, ResultNode
  <2>3. ASSUME hold(OptimizerRun) PROVE ResultIInv'
    <3>1. /\ saved' = [saved EXCEPT !.status = "WAITING", !.gate = "waiting"]
          /\ loop' = saved' /\ graph' = "out" /\ receipts' = receipts
          /\ held' \notin Subjects
      BY <2>3 DEF hold, OptimizerRun, Subjects, Ids, Baseline
    <3>2. QED
      BY <3>1, ResultWait
  <2>4. QED
    BY <1>11, <2>2, <2>3, ResultFail DEF RunOptimizer
<1>12. CASE EndOptimize
  <2>1. Results(d, [d EXCEPT !.optimizerCalls = @ + 1, !.gate = "none"])
    BY <1>7, <1>8
  <2>2. QED
    BY <1>6, <1>12, <2>1 DEF EndOptimize, d
<1>13. CASE SelectNext
  <2> DEFINE c == IF loop.recommended \in ToSet(loop.queue) THEN loop.recommended
                  ELSE Head(loop.queue)
             t == [d EXCEPT !.current = c, !.queue = Remaining(loop, c), !.gate = "none"]
  <2>1. save(t, "controller")
    BY <1>13 DEF SelectNext, d
  <2>2. Results(d, t)
    BY <1>7, <1>8
  <2>3. QED
    BY <1>6, <2>1, <2>2
<1>14. CASE Screen
  <2>1. graph = "SCREEN_CANDIDATE" /\ loop.pending = "SCREEN_CANDIDATE"
    BY <1>3, <1>14 DEF Screen, within, Nodes
  <2>2. ASSUME NEW outcome,
               save([loop EXCEPT !.sparams[loop.current] = outcome], "screened")
        PROVE  ResultIInv'
    <3> DEFINE t == [loop EXCEPT !.sparams[loop.current] = outcome]
    <3>1. Results(loop, t)
      BY <1>3 DEF IsState, Fields, Results
    <3>2. QED
      BY <1>2, <1>4, <2>1, <2>2, <3>1, ResultNode
  <2>3. QED
    BY <1>14, <2>2, ResultFail DEF Screen
<1>15. CASE Gate
  <2>1. PICK gate \in {"run_hfss", "stop"} :
           save([d EXCEPT !.gate = gate, !.screenings = @ + 1], "controller")
    BY <1>15 DEF Gate, d
  <2>2. Results(d, [d EXCEPT !.gate = gate, !.screenings = @ + 1])
    BY <1>7, <1>8
  <2>3. QED
    BY <1>6, <2>1, <2>2
<1>16. Results(d, Consumed(loop)) /\ IsState(Consumed(loop))
  <2>1. IsState(Consumed(loop))
    BY <1>3, NodeEdits DEF Consumed, Edits, d
  <2>2. Results(d, Consumed(loop))
    BY <1>7, <1>8 DEF Consumed, d
  <2>3. QED
    BY <2>1, <2>2
<1>17. CASE ConsumeCandidate
  BY <1>6, <1>16, <1>17 DEF ConsumeCandidate
<1>18. CASE QueueRetry
  <2> DEFINE e == Consumed(loop)
             t == [e EXCEPT !.queue = <<<<loop.current[1], loop.retries + 1>>>> \o @,
                            !.retries = @ + 1]
  <2>1. save(t, "controller")
    BY <1>18 DEF QueueRetry
  <2> HIDE DEF e
  <2>2. Results(d, t)
    BY <1>7, <1>16 DEF e
  <2>3. QED
    BY <1>6, <2>1, <2>2
<1>19. CASE Reconcile
  <2>1. Results(d, [d EXCEPT !.status = "WAITING", !.gate = "waiting"])
    BY <1>7, <1>8
  <2>2. QED
    BY <1>6, <1>19, <2>1 DEF Reconcile, d
<1>20. QED
  BY <1>9, <1>10, <1>11, <1>12, <1>13, <1>14, <1>15, <1>17, <1>18, <1>19

\* What is no design, and what the names of the outcomes are apart from it.
LEMMA OutcomeNames ==
  /\ Absent \notin Outcomes /\ Rejected \notin Outcomes /\ Absent # Rejected
  /\ Failed \notin Designs
  /\ ~Valid(Absent) /\ ~Valid(Failed) /\ ~Valid(Rejected)
<1>1. {"failed", "rejected", "absent"} \cap Designs = {}
  BY LoopAssumption DEF LoopAssumption
<1>2. Absent \notin Designs /\ Rejected \notin Designs /\ Failed \notin Designs
  BY <1>1 DEF Absent, Rejected, Failed
<1>3. QED
  BY <1>2, ValidSolve DEF Outcomes, Absent, Rejected, Failed

\* The candidate whose solve is pending is one that the optimizer may have named.
LEMMA CurrentNamed ==
  ASSUME BudgetIInv, LoopIInv, graph \in {Solver, "observed", "compared", "promoted"}
  PROVE  /\ loop.pending = Solver /\ loop.current \in Ids /\ loop.current # Baseline
         /\ graph \in Working \ {"decided"} /\ graph \notin Ended
<1>1. graph \in Working \ {"decided"}
  BY DEF Working, Nodes, Solver
<1>2. /\ Sound(loop) /\ PlacedAt(graph, loop) /\ Grounds(loop.pending, loop)
      /\ graph \in Nodes => loop.pending = graph
      /\ graph \notin Ended
  BY <1>1, AtNode
<1>3. loop.pending = Solver /\ loop.current # Nobody
  BY <1>2 DEF PlacedAt, Grounds, Nodes, Solver
<1>4. loop.current \in Named(loop)
  BY <1>2, <1>3 DEF Sound, PlacesOK
<1>5. /\ MaxBatch \in Nat /\ MaxOptimizerCalls \in Nat /\ MaxSafeRetries \in Nat
      /\ loop.offered \in Nat /\ loop.retries \in Nat /\ loop.optimizerCalls \in Nat
      /\ loop.optimizerCalls <= MaxOptimizerCalls /\ loop.retries <= MaxSafeRetries
      /\ loop.offered <= MaxBatch * loop.optimizerCalls
  BY <1>2, <1>3, LoopAssumption DEF LoopAssumption, Sound, CountsOK, Legal, Solver
<1>6. MaxBatch * loop.optimizerCalls <= MaxBatch * MaxOptimizerCalls
      /\ MaxBatch * loop.optimizerCalls \in Nat /\ MaxBatch * MaxOptimizerCalls \in Nat
  BY <1>5, TimesMonotone
<1>7. Named(loop) \subseteq Ids
  BY <1>5, <1>6 DEF Named, Ids
<1>8. QED
  BY <1>1, <1>2, <1>3, <1>4, <1>7, Subject

\* The bootstrap knows one solve at most, and that is Best.
LEMMA BootstrapResult ==
  ASSUME ResultIInv, BudgetIInv, LoopIInv, BaselineSurrogate \/ ObserveBaseline
  PROVE  ResultIInv'
<1>1. /\ graph \in {"bootstrap", "baseline"} /\ IsState(loop) /\ Ranked(loop, receipts)
      /\ graph \notin Ended
  BY DEF BaselineSurrogate, ObserveBaseline, within, BudgetIInv, Solvable, ResultIInv, Ended
<1>2. CASE BaselineSurrogate
  <2> DEFINE t == [loop EXCEPT !.status = "RUNNING", !.sparams[Baseline] = "success"]
  <2>1. /\ t.hfss = loop.hfss /\ t.best = loop.best
        /\ t.pending = loop.pending /\ t.current = loop.current
    BY <1>1 DEF IsState, Fields
  <2>2. save(loop, "baseline") \/ save(t, "baseline") \/ fail("provider")
    BY <1>2 DEF BaselineSurrogate
  <2> HIDE DEF t
  <2>3. Ranked(t, receipts)
    BY <1>1, <2>1, RankedAlike
  <2>4. Standing("baseline", t) /\ Standing("baseline", loop)
    BY DEF Standing, Working, Nodes, Solver
  <2>5. QED
    BY <1>1, <2>2, <2>3, <2>4, ResultSave, ResultFail
<1>3. CASE ObserveBaseline
  <2> DEFINE solved == receipts[Baseline]
             t == [loop EXCEPT !.hfss[Baseline] = solved, !.best = Baseline]
  <2>1. solved \in Outcomes \cup {Rejected, Absent}
    BY Subject DEF ResultIInv
  <2>2. \/ fail("provider")
        \/ loop.hfss[Baseline] # Absent /\ save(loop, "controller")
        \/ /\ loop.hfss[Baseline] = Absent /\ solved \in Designs /\ save(t, "controller")
    BY <1>3, <2>1 DEF ObserveBaseline, Outcomes
  <2>3. ASSUME loop.hfss[Baseline] # Absent, save(loop, "controller") PROVE ResultIInv'
    <3>1. Standing("controller", loop)
      BY <2>3 DEF Standing, Working, Nodes, Solver
    <3>2. QED
      BY <1>1, <2>3, <3>1, ResultSave
  <2>4. ASSUME loop.hfss[Baseline] = Absent, solved \in Designs, save(t, "controller")
        PROVE  ResultIInv'
    <3> HIDE DEF solved
    <3>1. /\ t.hfss = [loop.hfss EXCEPT ![Baseline] = solved] /\ t.best = Baseline
      BY <1>1 DEF IsState, Fields
    <3> HIDE DEF t
    <3>2. /\ t.hfss[Baseline] = solved
          /\ \A i \in Ids : t.hfss[i] = loop.hfss[i]
      BY <1>1, <3>1, Subject DEF IsState
    <3>3. \A i \in Ids : t.hfss[i] = Absent
      BY <1>1, <2>4, <3>2, OutcomeNames DEF Ranked
    <3>4. \A i \in Subjects : i = Baseline \/ i \in Ids
      BY DEF Subjects
    <3>5. Valid(solved) => Leads(t, Subjects)
      BY <3>1, <3>2, <3>3, <3>4, OutcomeNames, AheadOrders, Subject DEF Leads
    <3>6. Settled(t) \subseteq Subjects
      BY DEF Settled
    <3>7. Ranked(t, receipts)
      <4>1. \A i \in Subjects : t.hfss[i] # Absent =>
               t.hfss[i] = receipts[i] /\ receipts[i] \in Outcomes
        BY <2>4, <3>2, <3>3, <3>4 DEF solved, Outcomes
      <4>2. Valid(t.hfss[Baseline]) => Leads(t, Settled(t))
        BY <3>2, <3>5, <3>6 DEF Leads
      <4>3. QED
        BY <3>3, <4>1, <4>2 DEF Ranked
    <3>8. solved # Absent
      BY <2>4, OutcomeNames DEF Outcomes
    <3>9. Standing("controller", t)
      BY <3>2, <3>8 DEF Standing, Working, Nodes, Solver
    <3>10. QED
      BY <1>1, <2>4, <3>7, <3>9, ResultSave
  <2>5. QED
    BY <2>2, <2>3, <2>4, ResultFail
<1>4. QED
  BY <1>2, <1>3

\* What the policy has seen of the solves when it goes on, solves or finalizes.
LEMMA TurnResult ==
  ASSUME NEW s
  PROVE  /\ Turn(s).action \notin {"FINALIZE", "RECONCILE"} => Valid(s.hfss[Baseline])
         /\ Turn(s).action = Solver => s.hfss[s.current] = Absent
         /\ Turn(s).action = "FINALIZE" =>
              \A t : t.reason = Turn(s).reason /\ t.hfss = s.hfss /\ t.best = s.best
                        => Reasoned(t)
<1> DEFINE baseline == s.hfss[Baseline]
           Seen(c) == /\ c.action = Solver => s.hfss[s.current] = Absent
                      /\ c.action = "FINALIZE" =>
                           /\ c.reason \in {"budget_exhausted", "candidate_target_met",
                                            "core_pass_margin_incomplete"}
                           /\ c.reason = "budget_exhausted" => Verdict(s.hfss[s.best]) # "PASS"
<1> USE DEF choice, finalize, NextCandidate, RetrySafe, Solver
<1>1. Seen(BudgetTerminal(s)) /\ BudgetTerminal(s).action = "FINALIZE"
  BY DEF BudgetTerminal
<1>2. Seen(CandidateTurn(s)) /\ CandidateTurn(s).action # "RECONCILE"
  BY <1>1 DEF CandidateTurn
<1>3. Seen(SearchTurn(s)) /\ SearchTurn(s).action # "RECONCILE"
  BY <1>1 DEF SearchTurn
<1> HIDE DEF Seen
<1>4. Valid(baseline) <=> Verdict(baseline) \notin {"NONE", "INVALID"}
  BY ValidSolve DEF Valid, Verdict
<1>5. \/ Choice(s).action = "RECONCILE"
      \/ Choice(s) = finalize("baseline_evaluation_invalid")
      \/ Choice(s) = finalize("baseline_target_met") /\ TargetMet(baseline)
      \/ Seen(Choice(s)) /\ Valid(baseline)
  BY <1>2, <1>3, <1>4 DEF Choice
<1>6. TargetMet(baseline) => Valid(baseline)
  BY ValidSolve
<1>7. \/ Turn(s).action = "RECONCILE"
      \/ Turn(s) = finalize("baseline_evaluation_invalid")
      \/ Turn(s) = finalize("baseline_target_met") /\ TargetMet(baseline)
      \/ Seen(Turn(s)) /\ Valid(baseline)
  BY <1>1, <1>5 DEF Turn
<1>8. QED
  BY <1>6, <1>7 DEF Seen, Reasoned

\* The turn of the controller, and the way to its node.
LEMMA DecisionResult ==
  ASSUME ResultIInv, BudgetIInv, LoopIInv, Controller \/ Route
  PROVE  ResultIInv'
<1>1. CASE Controller
  <2> DEFINE t == Decide(loop)
  <2>1. /\ graph = "controller" /\ IsState(loop) /\ Ranked(loop, receipts)
        /\ loop.hfss[Baseline] # Absent
    BY <1>1 DEF Controller, within, ResultIInv, BudgetIInv, Solvable, Standing
  <2>2. saved' = saved /\ receipts' = receipts /\ held' = held
    BY <1>1 DEF Controller
  <2>3. CASE loop' = loop /\ graph' \in {"raised", "refused"}
    <3>1. Standing(graph', loop')
      BY <2>3 DEF Standing, Working, Nodes, Solver
    <3>2. QED
      BY <2>2, <2>3, <3>1 DEF ResultIInv
  <2>4. CASE loop' = t /\ graph' = "decided" /\ ~Conflict(Event(t))
    <3>1. loop.pending = "none"
      BY <2>1, <2>4, PendingIsRefused DEF Decide
    <3>2. /\ t.pending = Turn(loop).action
          /\ \A field \in Fields \ {"iterations", "pending", "reason"} :
                t[field] = loop[field]
      BY <2>1, <3>1, Decided
    <3>3. t.hfss = loop.hfss /\ t.best = loop.best /\ t.current = loop.current
      BY <3>2 DEF Fields
    <3>4. t.reason = Turn(loop).reason
      <4> DEFINE action == Turn(loop).action
                 reason == Turn(loop).reason
      <4>1. t = [loop EXCEPT !.iterations = @ + 1, !.pending = action, !.reason = reason]
        BY <3>1 DEF Decide
      <4> HIDE DEF action, reason, t
      <4>2. QED
        BY <2>1, <4>1 DEF IsState, Fields, reason
    <3> HIDE DEF t
    <3>5. Ranked(t, receipts)
      BY <2>1, <3>1, <3>3, RankedAlike DEF Solver
    <3>6. Standing("decided", t)
      <4>1. /\ t.pending \notin {"FINALIZE", "RECONCILE"} => Valid(t.hfss[Baseline])
            /\ t.pending = Solver => t.hfss[t.current] = Absent
            /\ t.pending = "FINALIZE" => Reasoned(t)
        BY <3>2, <3>3, <3>4, TurnResult
      <4>2. QED
        BY <2>1, <3>3, <4>1 DEF Standing
    <3>7. QED
      BY <2>2, <2>4, <3>5, <3>6 DEF ResultIInv
  <2>5. QED
    BY <1>1, <2>3, <2>4 DEF Controller
<1>2. CASE Route
  <2>1. /\ graph = "decided" /\ loop.pending \in Nodes /\ save(loop, loop.pending)
        /\ Standing("decided", loop) /\ Ranked(loop, receipts) /\ graph \notin Ended
    BY <1>2 DEF Route, within, BudgetIInv, PlacedAt, ResultIInv, Ended
  <2>2. Standing(loop.pending, loop)
    BY <2>1 DEF Standing, Working, Nodes, Solver
  <2>3. QED
    BY <2>1, <2>2, ResultSave
<1>3. QED
  BY <1>1, <1>2

\* A receipt that becomes known is none that a State has.
LEMMA ReceiptResult ==
  ASSUME ResultIInv, NEW id \in Subjects, receipts[id] = Absent,
         NEW outcome \in Outcomes \cup {Rejected},
         receipts' = [receipts EXCEPT ![id] = outcome],
         UNCHANGED <<loop, saved, graph>>, held' \notin Subjects
  PROVE  ResultIInv'
<1>1. receipts' \in [Subjects -> Outcomes \cup {Rejected, Absent}]
  BY DEF ResultIInv
<1>2. ASSUME NEW s, Ranked(s, receipts) PROVE Ranked(s, receipts')
  <2>1. ASSUME NEW i \in Subjects, s.hfss[i] # Absent
        PROVE  s.hfss[i] = receipts'[i] /\ receipts'[i] \in Outcomes
    <3>1. s.hfss[i] = receipts[i] /\ receipts[i] \in Outcomes
      BY <1>2, <2>1 DEF Ranked
    <3>2. i # id
      BY <2>1, <3>1
    <3>3. receipts'[i] = receipts[i]
      BY <3>2 DEF ResultIInv
    <3>4. QED
      BY <3>1, <3>3
  <2>2. QED
    BY <1>2, <2>1 DEF Ranked
<1>3. Ranked(loop, receipts') /\ Ranked(saved, receipts')
  BY <1>2 DEF ResultIInv
<1>4. QED
  BY <1>1, <1>3 DEF ResultIInv, Ranked, Settled, Leads, Standing, Reasoned

\* A solve is called, or nobody knows what became of it.
LEMMA CallResult ==
  ASSUME ResultIInv, BudgetIInv, NEW id \in Subjects, CallHFSS(id) \/ HFSSUnknown(id)
  PROVE  ResultIInv'
<1>1. CASE CallHFSS(id)
  <2>1. graph \notin Ended
    BY <1>1 DEF CallHFSS, Solving, Ended
  <2>2. held' \notin Subjects
    BY <1>1, <2>1, Subject DEF CallHFSS, BudgetIInv, Resumable
  <2>3. PICK outcome \in Outcomes : receipts' = [receipts EXCEPT ![id] = outcome]
    BY <1>1 DEF CallHFSS
  <2>4. receipts[id] = Absent /\ UNCHANGED <<loop, saved, graph>>
    BY <1>1 DEF CallHFSS
  <2>5. QED
    BY <2>2, <2>3, <2>4, ReceiptResult
<1>2. CASE HFSSUnknown(id)
  <2>1. /\ saved' = [saved EXCEPT !.status = "WAITING", !.gate = "waiting"]
        /\ loop' = saved' /\ graph' = "out" /\ receipts' = receipts
        /\ held' = id /\ receipts[id] = Absent
    BY <1>2 DEF HFSSUnknown, hold
  <2>2. QED
    BY <2>1, ResultWait
<1>3. QED
  BY <1>1, <1>2

\* A promotion makes the candidate Best exactly if it is ahead of Best: either way no
\* compared solve is ahead of the new one.
LEMMA Promotion ==
  ASSUME NEW s, NEW t, Leads(s, Subjects \ {s.current}), s.current \in Subjects,
         s.current # Baseline, s.hfss[s.current] \in Designs, Valid(s.hfss[Baseline]),
         t.hfss = s.hfss, t.best = IF BeatsBest(s) THEN s.current ELSE s.best
  PROVE  Leads(t, Subjects)
<1> DEFINE c == s.hfss[s.current]
           b == s.hfss[s.best]
           z == s.hfss[Baseline]
<1>1. Valid(b) /\ s.best \in Subjects /\ (s.best # Baseline => Ahead(b, z))
      /\ \A i \in Subjects \ {s.current} : Valid(s.hfss[i]) => ~Ahead(s.hfss[i], b)
  BY DEF Leads
<1>2. BeatsBest(s) <=> Valid(c) /\ Ahead(c, b)
  <2>1. /\ Evaluated[b].status # "INVALID"
        /\ Valid(c) <=> Evaluated[c].status # "INVALID"
    BY <1>1, ValidSolve
  <2>2. QED
    BY <2>1 DEF BeatsBest, PromotionEligible, Ahead
<1>3. Valid(z)
  OBVIOUS
<1> HIDE DEF c, b, z
<1>4. CASE BeatsBest(s)
  <2>1. t.best = s.current /\ t.hfss[t.best] = c /\ t.hfss[Baseline] = z
    BY <1>4 DEF c, z
  <2>2. Valid(c) /\ Ahead(c, b)
    BY <1>2, <1>4
  <2>3. Ahead(c, z)
    <3>1. CASE s.best = Baseline
      BY <2>2, <3>1 DEF b, z
    <3>2. CASE s.best # Baseline
      BY <1>1, <1>3, <2>2, <3>2, AheadOrders
    <3>3. QED
      BY <3>1, <3>2
  <2>4. ASSUME NEW i \in Subjects, Valid(s.hfss[i]) PROVE ~Ahead(s.hfss[i], c)
    <3>1. CASE i = s.current
      BY <2>2, <3>1, AheadOrders DEF c
    <3>2. CASE i # s.current
      <4> DEFINE h == s.hfss[i]
      <4>1. Valid(h) /\ ~Ahead(h, b)
        BY <1>1, <2>4, <3>2
      <4> HIDE DEF h
      <4>2. ~Ahead(h, c)
        BY <1>1, <2>2, <4>1, AheadOrders
      <4>3. QED
        BY <4>2 DEF h
    <3>3. QED
      BY <3>1, <3>2
  <2>5. QED
    BY <2>1, <2>2, <2>3, <2>4 DEF Leads
<1>5. CASE ~BeatsBest(s)
  <2>1. t.best = s.best /\ t.hfss[t.best] = b /\ t.hfss[Baseline] = z
    BY <1>5 DEF b, z
  <2>2. Valid(c) => ~Ahead(c, b)
    BY <1>2, <1>5
  <2>3. \A i \in Subjects : Valid(s.hfss[i]) => ~Ahead(s.hfss[i], b)
    BY <1>1, <2>2 DEF c
  <2>4. QED
    BY <1>1, <2>1, <2>3 DEF Leads
<1>6. QED
  BY <1>4, <1>5

\* The nodes of a solve.
LEMMA SolveResult ==
  ASSUME ResultIInv, BudgetIInv, LoopIInv, ObserveCandidate \/ Compare \/ Promote \/ Settle
  PROVE  ResultIInv'
<1> DEFINE c == loop.current
<1>1. graph \in {Solver, "observed", "compared", "promoted"}
  BY DEF ObserveCandidate, Compare, Promote, Settle, within, Solver
<1>2. /\ loop.pending = Solver /\ c \in Ids /\ c # Baseline /\ c \in Subjects
      /\ graph \in Working \ {"decided"} /\ graph \notin Ended
  BY <1>1, CurrentNamed, Subject
<1>3. /\ IsState(loop) /\ PlacedAt(graph, loop) /\ Ranked(loop, receipts)
      /\ Standing(graph, loop)
  BY <1>2, AtNode DEF ResultIInv
<1>4. Valid(loop.hfss[Baseline]) /\ loop.hfss[Baseline] # Absent
  BY <1>2, <1>3 DEF Standing, Solver
<1>5. Leads(loop, Subjects \ {c})
  BY <1>2, <1>3, <1>4 DEF Ranked, Settled
<1>6. CASE ObserveCandidate
  <2> DEFINE solved == receipts[c]
             t == [loop EXCEPT !.hfss[c] = solved]
  <2>1. /\ graph = Solver /\ solved # Absent
        /\ \/ solved = Rejected /\ fail("provider")
           \/ solved # Rejected /\ save(t, "observed")
    BY <1>6 DEF ObserveCandidate, within, Solver
  <2>2. ASSUME solved # Rejected, save(t, "observed") PROVE ResultIInv'
    <3>1. solved \in Outcomes
      BY <1>2, <2>1, <2>2 DEF ResultIInv
    <3> HIDE DEF solved
    <3>2. /\ t.hfss = [loop.hfss EXCEPT ![c] = solved] /\ t.best = loop.best
          /\ t.pending = Solver /\ t.current = c
      BY <1>2, <1>3 DEF IsState, Fields
    <3> HIDE DEF t
    <3>3. /\ t.hfss[c] = solved
          /\ \A i \in Subjects \ {c} : t.hfss[i] = loop.hfss[i]
      BY <1>2, <1>3, <3>2 DEF IsState
    <3>4. loop.best \in Subjects \ {c}
      <4>1. loop.hfss[c] = Absent /\ loop.best \in Subjects /\ Valid(loop.hfss[loop.best])
        BY <1>2, <1>3, <1>5, <2>1 DEF Standing, Leads
      <4>2. QED
        BY <4>1, OutcomeNames
    <3>5. Leads(t, Subjects \ {c})
      BY <1>2, <1>5, <3>2, <3>3, <3>4, Subject DEF Leads
    <3>6. t.hfss[Baseline] = loop.hfss[Baseline]
      BY <1>2, <3>3, Subject
    <3>7. Ranked(t, receipts)
      <4>1. \A i \in Subjects : t.hfss[i] # Absent =>
               t.hfss[i] = receipts[i] /\ receipts[i] \in Outcomes
        BY <1>3, <3>1, <3>3 DEF Ranked, solved
      <4>2. QED
        BY <1>4, <3>2, <3>5, <3>6, <4>1 DEF Ranked, Settled
    <3>8. Standing("observed", t)
      BY <1>4, <3>6 DEF Standing, Solver
    <3>9. QED
      BY <1>2, <2>2, <3>7, <3>8, ResultSave
  <2>3. QED
    BY <2>1, <2>2, ResultFail
<1>7. CASE Compare
  <2> DEFINE t == [loop EXCEPT !.compared = @ \cup {c}]
  <2>1. graph = "observed" /\ loop.hfss[c] # Failed /\ save(t, "compared")
    BY <1>7 DEF Compare, within
  <2>2. /\ t.hfss = loop.hfss /\ t.best = loop.best
        /\ t.pending = Solver /\ t.current = c
    BY <1>2, <1>3 DEF IsState, Fields
  <2> HIDE DEF t
  <2>3. Ranked(t, receipts)
    BY <1>3, <2>2, RankedAlike
  <2>4. loop.hfss[c] \in Designs
    <3>1. loop.hfss[c] # Absent
      BY <1>2, <1>3, <2>1 DEF PlacedAt
    <3>2. loop.hfss[c] \in Outcomes
      BY <1>2, <1>3, <3>1 DEF Ranked
    <3>3. QED
      BY <2>1, <3>2 DEF Outcomes
  <2>5. Standing("compared", t)
    BY <1>4, <2>2, <2>4 DEF Standing, Solver
  <2>6. QED
    BY <1>2, <2>1, <2>3, <2>5, ResultSave
<1>8. CASE Promote
  <2> DEFINE best == IF BeatsBest(loop) THEN c ELSE loop.best
             t == [loop EXCEPT !.diagnosed = @ \cup {c}, !.best = best]
  <2>1. graph = "compared" /\ save(t, "promoted")
    BY <1>8 DEF Promote, within
  <2>2. loop.hfss[c] \in Designs
    BY <1>3, <2>1 DEF Standing
  <2> HIDE DEF best
  <2>3. /\ t.hfss = loop.hfss /\ t.best = best /\ t.pending = Solver /\ t.current = c
    BY <1>2, <1>3 DEF IsState, Fields
  <2> HIDE DEF t
  <2>4. Leads(t, Subjects)
    BY <1>2, <1>4, <1>5, <2>2, <2>3, Promotion DEF best
  <2>5. Ranked(t, receipts)
    <3>1. Leads(t, Settled(t))
      BY <2>4 DEF Leads, Settled
    <3>2. QED
      BY <1>3, <1>4, <2>3, <3>1 DEF Ranked
  <2>6. Standing("promoted", t)
    BY <1>4, <2>3, <2>4 DEF Standing, Solver
  <2>7. QED
    BY <1>2, <2>1, <2>5, <2>6, ResultSave
<1>9. CASE Settle
  <2> DEFINE d == done(loop)
             calls == d.hfssCalls + 1
             n == IF d.best = d.current THEN 0 ELSE d.stagnation + 1
             t == [d EXCEPT !.hfssCalls = calls, !.stagnation = n]
  <2>1. IsState(d) /\ d.hfss = loop.hfss /\ d.best = loop.best /\ d.pending = "none"
        /\ d.current = loop.current /\ d.hfssCalls = loop.hfssCalls
        /\ d.stagnation = loop.stagnation
    BY <1>3, DoneIsState DEF done, IsState, Fields
  <2>2. save(t, "controller")
    BY <1>9, <2>1 DEF Settle
  <2> HIDE DEF d, n, calls
  <2>3. t.hfss = loop.hfss /\ t.best = loop.best /\ t.pending = "none"
    BY <2>1 DEF IsState, Fields
  <2> HIDE DEF t
  <2>4. Leads(loop, Subjects)
    <3>1. CASE graph = "promoted"
      BY <1>3, <3>1 DEF Standing
    <3>2. CASE loop.hfss[c] = Failed
      BY <1>5, <3>2, OutcomeNames DEF Leads
    <3>3. QED
      BY <1>9, <3>1, <3>2 DEF Settle, within
  <2>5. Leads(t, Settled(t))
    BY <2>3, <2>4 DEF Leads, Settled, Solver
  <2>6. Ranked(t, receipts)
    BY <1>3, <1>4, <2>3, <2>5 DEF Ranked
  <2>7. Standing("controller", t)
    BY <1>4, <2>3 DEF Standing, Working, Nodes, Solver
  <2>8. QED
    BY <1>2, <2>2, <2>6, <2>7, ResultSave
<1>10. QED
  BY <1>6, <1>7, <1>8, <1>9

\* The Run finds its end with the results as they are.
LEMMA FinalizeResult ==
  ASSUME ResultIInv, BudgetIInv, LoopIInv, Finalize
  PROVE  ResultIInv'
<1>1. graph = "FINALIZE" /\ graph \in Working \ {"decided"} /\ graph \in Nodes
  BY DEF Finalize, within, Working, Nodes
<1>2. IsState(loop) /\ IsState(done(loop)) /\ loop.pending = "FINALIZE"
      /\ Ranked(loop, receipts)
  BY <1>1, AtNode DEF ResultIInv
<1>3. CASE Backed(loop)
  <2> DEFINE d == done(loop)
             status == Terminal(loop)
             t == [d EXCEPT !.status = status]
  <2>1. d.hfss = loop.hfss /\ d.best = loop.best
    BY <1>2 DEF done, IsState, Fields
  <2>2. /\ loop' = t /\ saved' = t /\ graph' = "out"
        /\ receipts' = receipts /\ held' = held
    BY <1>3 DEF Finalize
  <2> HIDE DEF d, status
  <2>3. t.hfss = loop.hfss /\ t.best = loop.best
    BY <1>2, <2>1 DEF IsState, Fields, d
  <2> HIDE DEF t
  <2>4. Ranked(t, receipts)
    BY <1>2, <2>3, RankedAlike DEF Solver
  <2>5. Standing("out", t)
    BY DEF Standing, Working, Nodes, Solver
  <2>6. QED
    BY <2>2, <2>4, <2>5 DEF ResultIInv
<1>4. CASE ~Backed(loop)
  BY <1>4, ResultFail DEF Finalize
<1>5. QED
  BY <1>3, <1>4

\* Invocations that are lost, entered again or adjudicated.
LEMMA InvocationResult ==
  ASSUME ResultIInv, BudgetIInv, LoopIInv, Enter \/ Crash \/ OperatorReconciles
  PROVE  ResultIInv'
<1>1. ASSUME loop' = saved, saved' = saved, receipts' = receipts,
             graph' \in {"out", "bootstrap"}, held' \in Subjects => receipts[held'] = Absent
      PROVE  ResultIInv'
  <2>1. Standing(graph', saved)
    BY <1>1 DEF Standing, Working, Nodes, Solver
  <2>2. QED
    BY <1>1, <2>1 DEF ResultIInv
<1>2. CASE Enter
  <2>1. receipts' = receipts /\ held' = held
    BY <1>2 DEF Enter
  <2>2. held' \in Subjects => receipts[held'] = Absent
    BY <2>1 DEF ResultIInv
  <2>3. CASE held = Nobody
    BY <1>1, <1>2, <2>1, <2>2, <2>3 DEF Enter
  <2>4. CASE held # Nobody
    <3>1. /\ saved' = [saved EXCEPT !.status = "WAITING", !.gate = "waiting"]
          /\ loop' = saved' /\ graph' = "out"
      BY <1>2, <2>4 DEF Enter
    <3>2. QED
      BY <2>1, <2>2, <3>1, ResultWait
  <2>5. QED
    BY <2>3, <2>4
<1>3. CASE Crash
  <2>1. /\ loop' = saved /\ saved' = saved /\ receipts' = receipts /\ graph' = "out"
        /\ held' \in {Nobody} \cup UnderWay
    BY <1>3 DEF Crash
  <2>2. ASSUME NEW id \in UnderWay, id \in Subjects PROVE receipts[id] = Absent
    <3>1. OptimizerRun \notin Subjects /\ Surrogate \notin Subjects
      BY DEF OptimizerRun, Surrogate, Subjects, Ids, Baseline
    <3>2. PICK j \in Subjects : Solving(j) /\ receipts[j] = Absent
      BY <2>2, <3>1 DEF UnderWay
    <3>3. Solving(id)
      BY <2>2, <3>1, <3>2 DEF UnderWay
    <3>4. id = j
      BY <3>2, <3>3 DEF Solving
    <3>5. QED
      BY <3>2, <3>4
  <2>3. held' \in Subjects => receipts[held'] = Absent
    BY <2>1, <2>2, Subject
  <2>4. QED
    BY <1>1, <2>1, <2>3
<1>4. CASE OperatorReconciles
  <2>1. /\ UNCHANGED <<loop, saved, graph>> /\ held' \notin Subjects
    BY <1>4, Subject DEF OperatorReconciles
  <2>2. CASE held \in Subjects
    <3>1. PICK outcome \in Outcomes \cup {Rejected} :
             receipts' = [receipts EXCEPT ![held] = outcome]
      BY <1>4, <2>2 DEF OperatorReconciles
    <3>2. receipts[held] = Absent
      BY <2>2 DEF ResultIInv
    <3>3. QED
      BY <2>1, <2>2, <3>1, <3>2, ReceiptResult
  <2>3. CASE held \notin Subjects
    <3>1. receipts' = receipts
      BY <1>4, <2>3 DEF OperatorReconciles
    <3>2. QED
      BY <2>1, <3>1 DEF ResultIInv, Ranked, Settled, Leads, Standing, Reasoned
  <2>4. QED
    BY <2>2, <2>3
<1>5. QED
  BY <1>2, <1>3, <1>4

\* At first nothing is solved.
LEMMA ResultInit == Init => ResultIInv
<1> SUFFICES ASSUME Init PROVE ResultIInv
  OBVIOUS
<1> DEFINE s == InitialState
<1>1. /\ loop = s /\ saved = s /\ graph = "out" /\ held = Nobody
      /\ receipts = [i \in Subjects |-> Absent]
  BY DEF Init
<1>2. s.hfss = [i \in Subjects |-> Absent] /\ s.pending = "none"
  BY DEF InitialState
<1> HIDE DEF s
<1>3. \A i \in Subjects : s.hfss[i] = Absent
  BY <1>2
<1>4. Ranked(s, receipts)
  BY <1>3, Subject, OutcomeNames DEF Ranked
<1>5. Standing("out", s)
  BY DEF Standing, Working, Nodes, Solver
<1>6. QED
  BY <1>1, <1>4, <1>5, Subject DEF ResultIInv

\* What is known of the results is an invariant, together with the bookkeeping.
LEMMA ResultInduction == Spec => []ResultIInv
<1>1. BudgetIInv /\ LoopIInv /\ ResultIInv /\ [Next]_vars => ResultIInv'
  <2> SUFFICES ASSUME BudgetIInv, LoopIInv, ResultIInv, [Next]_vars PROVE ResultIInv'
    OBVIOUS
  <2>1. CASE Next
    <3>1. Ids \subseteq Subjects /\ Baseline \in Subjects
      BY Subject
    <3>2. CASE Bootstrap \/ Decision
      BY <3>1, <3>2, BootstrapResult, CallResult, DecisionResult DEF Bootstrap, Decision
    <3>3. CASE Searching \/ Screening
      BY <3>3, SearchResult DEF Searching, Screening
    <3>4. CASE Solve
      BY <3>1, <3>4, CallResult, SolveResult DEF Solve
    <3>5. CASE Ending
      BY <3>5, SearchResult, FinalizeResult DEF Ending
    <3>6. CASE Enter \/ Crash \/ OperatorReconciles
      BY <3>6, InvocationResult
    <3>7. QED
      BY <2>1, <3>2, <3>3, <3>4, <3>5, <3>6 DEF Next, Proceed
  <2>2. CASE UNCHANGED vars
    BY <2>2 DEF vars, ResultIInv, Ranked, Settled, Leads, Standing, Reasoned
  <2>3. QED
    BY <2>1, <2>2
<1>2. QED
  BY <1>1, ResultInit, BudgetInduction, LoopInduction, PTL DEF Spec

\* Whenever the policy is asked, no evaluated solve comes before Best or meets more of
\* the mandatory rules, for any contract, any designs and any order in which they were
\* solved, although a candidate is compared with the Best of its time only
\* (agent/comparison_nodes.py:936, evaluation/comparator.py:31).
THEOREM BestTheorem == Spec => []BestIsBest
<1>1. ResultIInv => BestIsBest
  <2> SUFFICES ASSUME ResultIInv, graph = "controller", loop.pending = "none",
                      NEW i \in Subjects, Valid(loop.hfss[i])
               PROVE  /\ ~Ahead(loop.hfss[i], loop.hfss[loop.best])
                      /\ Cardinality(Met[loop.hfss[i]])
                           <= Cardinality(Met[loop.hfss[loop.best]])
    BY DEF BestIsBest, Valid, Ahead
  <2> DEFINE h == loop.hfss[i]
             b == loop.hfss[loop.best]
  <2>1. Ranked(loop, receipts) /\ Settled(loop) = Subjects
    BY DEF ResultIInv, Settled, Solver
  <2>2. Valid(loop.hfss[Baseline])
    <3>1. loop.hfss[i] # Absent /\ (i = Baseline \/ i \in Ids)
      BY OutcomeNames DEF Subjects
    <3>2. QED
      BY <2>1, <3>1 DEF Ranked
  <2>3. Valid(h) /\ Valid(b) /\ ~Ahead(h, b)
    BY <2>1, <2>2 DEF Ranked, Leads
  <2> HIDE DEF h, b
  <2>4. Evaluated[b].rank[1] <= Evaluated[h].rank[1]
    BY <2>3, AheadOrders
  <2> DEFINE n == 5 + Len(Rules)
  <2>5. /\ Cardinality(Met[h]) + Evaluated[h].rank[1] = Cardinality(Mandatory(Rules))
        /\ Cardinality(Met[b]) + Evaluated[b].rank[1] = Cardinality(Mandatory(Rules))
        /\ Cardinality(Met[h]) \in Nat /\ Cardinality(Met[b]) \in Nat
        /\ Evaluated[h].rank \in [1..n -> Int] /\ Evaluated[b].rank \in [1..n -> Int]
    BY <2>3, ValidSolve
  <2>6. 1 \in 1..n
    BY MeasurementAssumption DEF MeasurementAssumption, IsContract
  <2>7. Evaluated[h].rank[1] \in Int /\ Evaluated[b].rank[1] \in Int
    BY <2>5, <2>6
  <2>8. Cardinality(Met[h]) <= Cardinality(Met[b])
    <3> DEFINE x == Evaluated[h].rank[1]
               y == Evaluated[b].rank[1]
               p == Cardinality(Met[h])
               q == Cardinality(Met[b])
    <3>1. x \in Int /\ y \in Int /\ p \in Nat /\ q \in Nat /\ y <= x /\ p + x = q + y
      BY <2>4, <2>5, <2>7
    <3> HIDE DEF x, y, p, q
    <3>2. p <= q
      BY <3>1
    <3>3. QED
      BY <3>2 DEF p, q
  <2>9. QED
    BY <2>3, <2>8 DEF h, b
<1>2. QED
  BY <1>1, ResultInduction, PTL

\* HonestEnd, of a State and its receipts.
Honest(s, r) ==
    /\ s.status = "NO_SOLUTION" => \A i \in Subjects : ~Passing(r[i])
    /\ s.status \in {"SUCCEEDED_BASELINE", "SUCCEEDED_CANDIDATE"} =>
         /\ Passing(r[s.best])
         /\ \A i \in Subjects : Passing(r[i]) => ~Ahead(r[i], r[s.best])
         /\ s.status = "SUCCEEDED_BASELINE" <=> s.best = Baseline

\* When the policy finalizes, every receipt is known to the State.
LEMMA ReceiptsKnown ==
  ASSUME BudgetIInv, LoopIInv, ResultIInv, graph = "FINALIZE"
  PROVE  \A i \in Subjects : receipts[i] # Absent => loop.hfss[i] = receipts[i]
<1>1. graph \in Working \ {"decided"} /\ graph \in Nodes
  BY DEF Working, Nodes
<1>2. loop.pending = "FINALIZE" /\ loop.pending # Solver
  BY <1>1, AtNode DEF Solver
<1>3. \A i \in Ids : receipts[i] # Absent => loop.hfss[i] # Absent
  BY <1>2 DEF BudgetIInv, Solvable, Recorded, Given, KnownTo
<1>4. loop.hfss[Baseline] # Absent
  BY <1>1 DEF ResultIInv, Standing
<1>5. \A i \in Subjects : receipts[i] # Absent => loop.hfss[i] # Absent
  BY <1>3, <1>4 DEF Subjects
<1>6. QED
  BY <1>5 DEF ResultIInv, Ranked

\* A reason that is backed stands for a status that tells the truth.
LEMMA HonestTerminal ==
  ASSUME BudgetIInv, LoopIInv, ResultIInv, graph = "FINALIZE", Backed(loop),
         NEW t, t.status = Terminal(loop), t.best = loop.best
  PROVE  Honest(t, receipts)
<1> DEFINE b == loop.hfss[loop.best]
           z == loop.hfss[Baseline]
           status == Terminal(loop)
<1>1. graph \in Working \ {"decided"} /\ graph \in Nodes
  BY DEF Working, Nodes
<1>2. /\ loop.pending = "FINALIZE" /\ Sound(loop) /\ Ranked(loop, receipts)
      /\ Reasoned(loop) /\ Settled(loop) = Subjects
  BY <1>1, AtNode DEF ResultIInv, Standing, Settled, Solver
<1>3. Valid(z) => /\ loop.best \in Subjects /\ Valid(b)
                  /\ loop.best # Baseline => Ahead(b, z)
                  /\ \A i \in Subjects : Valid(loop.hfss[i]) => ~Ahead(loop.hfss[i], b)
  BY <1>2 DEF Ranked, Leads
<1>4. Valid(z) => receipts[loop.best] = b
  BY <1>2, <1>3, OutcomeNames DEF Ranked
<1>5. ASSUME NEW i \in Subjects, Passing(receipts[i])
      PROVE  loop.hfss[i] = receipts[i] /\ Verdict(receipts[i]) = "PASS"
  <2>1. receipts[i] # Absent
    BY <1>5, OutcomeNames DEF Passing, Outcomes
  <2>2. QED
    BY <1>5, <2>1, ReceiptsKnown, ValidSolve
<1>6. ASSUME NEW i \in Subjects, Passing(receipts[i]), Valid(z)
      PROVE  ~Ahead(receipts[i], b) /\ Verdict(b) = "PASS"
  <2> DEFINE h == receipts[i]
  <2>1. Valid(h) /\ Verdict(h) = "PASS" /\ ~Ahead(h, b) /\ Valid(b)
    BY <1>3, <1>5, <1>6 DEF Valid
  <2> HIDE DEF h, b
  <2>2. Evaluated[b].rank[1] <= Evaluated[h].rank[1] /\ Evaluated[h].rank[1] = 0
    BY <2>1, AheadOrders, ValidSolve
  <2>3. Evaluated[b].rank[1] \in Int /\ Evaluated[b].rank[1] >= 0
    <3> DEFINE n == 5 + Len(Rules)
    <3>1. 1 \in 1..n
      BY MeasurementAssumption DEF MeasurementAssumption, IsContract
    <3>2. /\ Evaluated[b].rank \in [1..n -> Int]
          /\ \A k \in 1..n : Evaluated[b].rank[k] >= 0
      BY <2>1, ValidSolve
    <3>3. QED
      BY <3>1, <3>2
  <2>4. Evaluated[b].rank[1] = 0
    BY <2>2, <2>3
  <2>5. QED
    BY <2>1, <2>4, ValidSolve DEF h
<1>7. loop.current # Nobody => loop.current # Baseline
  BY <1>2, Names DEF Sound, PlacesOK
<1>8. loop.reason \in {"budget_exhausted", "baseline_target_met", "candidate_target_met",
                       "core_pass_margin_incomplete", "baseline_evaluation_invalid"}
  BY <1>2 DEF Reasoned
<1>9. CASE loop.reason = "budget_exhausted"
  <2>1. Valid(z) /\ Verdict(b) # "PASS" /\ status = "NO_SOLUTION"
    BY <1>2, <1>9 DEF Reasoned, Terminal
  <2> HIDE DEF b, z
  <2>2. \A i \in Subjects : ~Passing(receipts[i])
    BY <1>6, <2>1
  <2>3. QED
    BY <2>1, <2>2 DEF Honest
<1>10. CASE loop.reason = "baseline_evaluation_invalid"
  BY <1>10 DEF Honest, Terminal
<1>11. ASSUME Valid(z), Verdict(b) = "PASS",
              status \in {"SUCCEEDED_BASELINE", "SUCCEEDED_CANDIDATE"},
              status = "SUCCEEDED_BASELINE" <=> loop.best = Baseline
       PROVE  Honest(t, receipts)
  <2>1. Passing(receipts[t.best])
    BY <1>4, <1>11, ValidSolve
  <2>2. \A i \in Subjects : Passing(receipts[i]) => ~Ahead(receipts[i], receipts[t.best])
    BY <1>4, <1>6, <1>11
  <2>3. t.status = status
    OBVIOUS
  <2> HIDE DEF b, z, status
  <2>4. QED
    BY <1>11, <2>1, <2>2, <2>3 DEF Honest
<1>12. CASE loop.reason = "baseline_target_met"
  <2>1. Valid(z) /\ TargetMet(z) /\ status = "SUCCEEDED_BASELINE"
    BY <1>2, <1>12 DEF Reasoned, Terminal
  <2>2. loop.best = Baseline
    BY <1>3, <2>1, AheadOrders
  <2>3. Verdict(z) = "PASS"
    BY <2>1 DEF TargetMet, AllRulesPass, Verdict
  <2>4. QED
    BY <1>11, <2>1, <2>2, <2>3
<1>13. CASE loop.reason = "candidate_target_met"
  <2>1. Valid(z) /\ status = "SUCCEEDED_CANDIDATE"
    BY <1>2, <1>13 DEF Reasoned, Terminal
  <2>2. /\ loop.current # Nobody /\ Verdict(loop.hfss[loop.current]) = "PASS"
        /\ loop.best = loop.current
    BY <1>13 DEF Backed
  <2>3. QED
    BY <1>7, <1>11, <2>1, <2>2
<1>14. CASE loop.reason = "core_pass_margin_incomplete"
  <2>1. Valid(z) /\ status = IF loop.best = Baseline THEN "SUCCEEDED_BASELINE"
                             ELSE "SUCCEEDED_CANDIDATE"
    BY <1>2, <1>14 DEF Reasoned, Terminal
  <2>2. Verdict(b) = "PASS"
    BY <1>14 DEF Backed
  <2>3. QED
    BY <1>11, <2>1, <2>2
<1>15. QED
  BY <1>8, <1>9, <1>10, <1>12, <1>13, <1>14

\* A Run ends once, honestly, and nothing of it changes afterwards.
LEMMA HonestStep ==
  ASSUME BudgetIInv, LoopIInv, LoopIInv', ResultIInv, Honest(saved, receipts), [Next]_vars
  PROVE  Honest(saved', receipts')
<1>1. CASE run' # "COMPLETED"
  <2>1. saved'.status \in {"RUNNING", "WAITING"}
    BY <1>1 DEF LoopIInv, StatusInv
  <2>2. QED
    BY <2>1 DEF Honest
<1>2. CASE UNCHANGED <<saved, receipts>>
  <2>1. Honest(saved', receipts') = Honest(saved, receipts)
    BY <1>2
  <2>2. QED
    BY <2>1
<1>3. CASE \E cause : fail(cause)
  <2>1. PICK cause : fail(cause)
    BY <1>3
  <2>2. saved'.status = "FAILED"
    BY <2>1 DEF fail, BudgetIInv, Solvable, IsState, Fields
  <2>3. QED
    BY <2>2 DEF Honest
<1>4. CASE Finalize /\ Backed(loop)
  <2> DEFINE d == done(loop)
             status == Terminal(loop)
             t == [d EXCEPT !.status = status]
  <2>1. graph = "FINALIZE" /\ saved' = t /\ receipts' = receipts
    BY <1>4 DEF Finalize, within
  <2>2. IsState(loop) /\ IsState(d)
    BY <2>1, AtNode DEF Working, Nodes
  <2>3. d.best = loop.best
    BY <2>2 DEF done, IsState, Fields
  <2> HIDE DEF d, status
  <2>4. t.best = loop.best /\ t.status = status
    BY <2>2, <2>3 DEF IsState, Fields
  <2> HIDE DEF t
  <2>5. Honest(t, receipts)
    BY <1>4, <2>1, <2>4, HonestTerminal DEF status
  <2>6. QED
    BY <2>1, <2>5
<1>5. CASE Next
  <2>1. \A t, n : save(t, n) => run' = run
    BY DEF save
  <2>2. run = "COMPLETED" => graph \in Ended
    BY DEF LoopIInv, StatusInv, Ended
  <2>3. CASE run = "COMPLETED"
    <3>1. FALSE
      BY <1>5, <2>2, <2>3
      DEF Next, Proceed, Bootstrap, Decision, Searching, Screening, Solve, Ending, within,
          BaselineSurrogate, CallHFSS, HFSSUnknown, ObserveBaseline, Controller, Route,
          PrepareOptimization, Reoptimize, RunOptimizer, EndOptimize, SelectNext, Screen,
          Gate, ObserveCandidate, Compare, Promote, Settle, ConsumeCandidate, QueueRetry,
          Reconcile, Finalize, Enter, Crash, OperatorReconciles
    <3>2. QED
      BY <3>1
  <2>4. CASE run # "COMPLETED"
    <3>1. CASE Bootstrap \/ Decision
      BY <1>1, <1>3, <2>1, <2>4, <3>1
      DEF Bootstrap, Decision, BaselineSurrogate, CallHFSS, HFSSUnknown, hold,
          ObserveBaseline, Controller, Route
    <3>2. CASE Searching \/ Screening
      BY <1>1, <1>3, <2>1, <2>4, <3>2
      DEF Searching, Screening, PrepareOptimization, Reoptimize, RunOptimizer, hold,
          EndOptimize, SelectNext, Screen, Gate
    <3>3. CASE Solve
      BY <1>1, <1>3, <2>1, <2>4, <3>3
      DEF Solve, CallHFSS, HFSSUnknown, hold, ObserveCandidate, Compare, Promote, Settle
    <3>4. CASE Ending
      BY <1>1, <1>3, <1>4, <2>1, <2>4, <3>4
      DEF Ending, ConsumeCandidate, QueueRetry, Reconcile, Finalize
    <3>5. CASE Enter \/ Crash \/ OperatorReconciles
      BY <1>1, <2>4, <3>5 DEF Enter, Crash, OperatorReconciles
    <3>6. QED
      BY <1>5, <3>1, <3>2, <3>3, <3>4, <3>5 DEF Next, Proceed
  <2>5. QED
    BY <2>3, <2>4
<1>6. QED
  BY <1>2, <1>5 DEF vars

\* A final status tells the truth about what was measured, for any contract and any
\* designs: NO_SOLUTION only if nothing solved holds every mandatory rule over all of
\* its band, between the samples too, and a success names a design that does and that
\* no other passing one comes before, however often the Run was lost, held or
\* adjudicated on the way (agent/closed_loop_graph.py:463, evaluation/evaluator.py:149).
THEOREM HonestTheorem == Spec => []HonestEnd
<1>1. Honest(saved, receipts) <=> HonestEnd
  BY DEF Honest, HonestEnd, Ahead
<1>2. Init => HonestEnd
  <2>1. Init => saved.status = "RUNNING"
    BY DEF Init, InitialState
  <2>2. QED
    BY <2>1 DEF HonestEnd
<1>3. Honest(saved', receipts') <=> HonestEnd'
  BY DEF Honest, HonestEnd, Ahead
<1>4. BudgetIInv /\ LoopIInv /\ LoopIInv' /\ ResultIInv /\ HonestEnd /\ [Next]_vars
        => HonestEnd'
  BY <1>1, <1>3, HonestStep
<1>5. QED
  BY <1>2, <1>4, BudgetInduction, LoopInduction, ResultInduction, PTL DEF Spec
=============================================================================
