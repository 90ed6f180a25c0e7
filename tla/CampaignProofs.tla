--------------------------- MODULE CampaignProofs ---------------------------
(* What a campaign concludes rests on its own solves: for any processes,   *)
(* any readings, any policy the code accepts, and any number of losses,    *)
(* lapses and changes of the repository.                                   *)
EXTENDS Campaign, FunctionTheorems, FiniteSetTheorems, TLAPS

Places   == {"outside", "authorizing", "authorized", "composed", "on", "calling"}
Statuses == {"none", "RUNNING", "SUCCEEDED", "FAILED", "UNKNOWN"}

ProcessOK == process \in [Processes -> [at : Places, step : Nat,
                                         builder : BOOLEAN, slipped : BOOLEAN]]

OpsOK ==
    /\ ops = [i \in Plan |-> ops[i]]
    /\ \A i \in Plan : /\ ops[i] = op(ops[i].status, ops[i].value, ops[i].native)
                       /\ ops[i].status \in Statuses /\ ops[i].native \in BOOLEAN

TypesOK ==
    /\ kind \in {"calibration", "diagnostic"}
    /\ approved \in BOOLEAN /\ expired \in BOOLEAN /\ opened \in BOOLEAN
    /\ ProcessOK /\ OpsOK
    /\ measured = [c \in Cases |-> measured[c]]

\* The hold of the Run: an owner only while it is ACTIVE, nothing open once it is
\* COMPLETED, nothing started before it is registered.
HoldInv ==
    /\ run \in {"none", "ACTIVE", "WAITING_RECONCILIATION", "COMPLETED"}
    /\ owner \in Processes \cup {Nobody} /\ lapsed \in BOOLEAN
    /\ lapsed => owner # Nobody
    /\ owner # Nobody => run = "ACTIVE"
    /\ \A p \in Processes : process[p].at \in {"composed", "on", "calling"} => run # "none"
    /\ \A i \in Plan :
          /\ ops[i] # Absent => run # "none"
          /\ ops[i].status = "RUNNING" => run # "COMPLETED"
          /\ ops[i].status = "UNKNOWN" => run = "WAITING_RECONCILIATION"

\* The operation is through: what follows it may be asked for.
Through(i) == ops[i].status = "SUCCEEDED" /\ HasNativeFiles(i, ops[i])

\* Whatever was started, and wherever a process is, everything before it is through.
Behind == \A i, j \in Plan : ops[i] # Absent /\ j < i => Through(j)

Placed(p) ==
    /\ At(p, "on") \/ Calling(p) => /\ stepOf(p) \in 1..(End + 1)
                                    /\ \A j \in Plan : j < stepOf(p) => Through(j)
    /\ Calling(p) => stepOf(p) \in Plan /\ ops[stepOf(p)].status = "RUNNING"

WalkInv ==
    /\ Behind
    /\ \A p \in Processes : Placed(p)
    /\ \A p, q \in Processes : Calling(p) /\ Calling(q) => p = q

\* A whole solve is the one that was measured.
MeasuredInv ==
    \A n \in DOMAIN CasesOf[kind] :
        ops[solveOf(n)].native =>
            /\ ops[solveOf(n)].status = "SUCCEEDED"
            /\ ops[solveOf(n)].value = measured[CasesOf[kind][n]]
            /\ measured[CasesOf[kind][n]] \in Readings[CasesOf[kind][n]]

AllWhole == \A n \in DOMAIN CasesOf[kind] : ops[solveOf(n)].native

\* What was concluded, and that its grounds stand.
ConclusionInv ==
    /\ ops[End] # Absent => Evident
    /\ run = "COMPLETED" => AllWhole
    /\ run = "COMPLETED" <=> verdict # Nothing
    /\ opened => kind = "calibration" /\ AllWhole
    /\ VerdictIsMeasured
    /\ OnlyCalibratedOpens

\* The only way to another builder is between the fingerprint and the attestation.
WindowInv ==
    /\ \A p \in Processes :
          /\ At(p, "authorized") /\ ~approved => process[p].slipped
          /\ process[p].at \in {"composed", "on", "calling"} /\ ~process[p].builder
                => process[p].slipped
    /\ DriftOnlyInWindow

CampaignIInv ==
    TypesOK /\ HoldInv /\ WalkInv /\ MeasuredInv /\ ConclusionInv /\ WindowInv

-----------------------------------------------------------------------------
(* The plan.                                                               *)

\* Where the solves of a plan are, and which cases they are of.
LEMMA PlanFacts ==
  ASSUME kind \in {"calibration", "diagnostic"}
  PROVE  /\ DOMAIN CasesOf[kind] = 1..Len(CasesOf[kind]) /\ Len(CasesOf[kind]) \in {2, 3}
         /\ Plan = 1..(2 * Len(CasesOf[kind]) + 1) /\ End = 2 * Len(CasesOf[kind]) + 1
         /\ End \in Plan /\ End - 1 \in Plan /\ ~IsSolve(End)
         /\ \A n \in DOMAIN CasesOf[kind] :
               /\ n \in Nat /\ CasesOf[kind][n] \in Cases
               /\ solveOf(n) \in Plan /\ solveOf(n) < End /\ IsSolve(solveOf(n))
               /\ caseOf(solveOf(n)) = CasesOf[kind][n]
         /\ \A m, n \in DOMAIN CasesOf[kind] :
               CasesOf[kind][m] = CasesOf[kind][n] => m = n
         /\ \A i \in Plan : IsSolve(i) => \E n \in DOMAIN CasesOf[kind] : i = solveOf(n)
<1>1. CASE kind = "calibration"
  <2>1. CasesOf[kind] = <<"baseline", "first", "second">>
    BY <1>1 DEF CasesOf
  <2>2. Len(CasesOf[kind]) = 3 /\ DOMAIN CasesOf[kind] = 1..3
    BY <2>1
  <2>3. Plan = 1..7 /\ End = 7
    BY <2>2 DEF Plan, End, Length
  <2>4. \A n \in 1..3 : (2 * n + 1) \div 2 = n /\ (2 * n) % 2 = 0
    OBVIOUS
  <2>5. ASSUME NEW n \in 1..3
        PROVE  /\ n \in Nat /\ CasesOf[kind][n] \in Cases
               /\ solveOf(n) \in 1..7 /\ solveOf(n) < 7 /\ IsSolve(solveOf(n))
               /\ caseOf(solveOf(n)) = CasesOf[kind][n]
    BY <2>1, <2>4 DEF solveOf, IsSolve, caseOf, Cases
  <2>6. \A m, n \in 1..3 : CasesOf[kind][m] = CasesOf[kind][n] => m = n
    BY <2>1
  <2>7. \A i \in 1..7 : IsSolve(i) => \E n \in 1..3 : i = solveOf(n)
    BY DEF IsSolve, solveOf
  <2>8. ~IsSolve(7)
    BY DEF IsSolve
  <2>9. QED
    BY <2>2, <2>3, <2>5, <2>6, <2>7, <2>8
<1>2. CASE kind = "diagnostic"
  <2>1. CasesOf[kind] = <<"baseline", "optimized">>
    BY <1>2 DEF CasesOf
  <2>2. Len(CasesOf[kind]) = 2 /\ DOMAIN CasesOf[kind] = 1..2
    BY <2>1
  <2>3. Plan = 1..5 /\ End = 5
    BY <2>2 DEF Plan, End, Length
  <2>4. \A n \in 1..2 : (2 * n + 1) \div 2 = n /\ (2 * n) % 2 = 0
    OBVIOUS
  <2>5. ASSUME NEW n \in 1..2
        PROVE  /\ n \in Nat /\ CasesOf[kind][n] \in Cases
               /\ solveOf(n) \in 1..5 /\ solveOf(n) < 5 /\ IsSolve(solveOf(n))
               /\ caseOf(solveOf(n)) = CasesOf[kind][n]
    BY <2>1, <2>4 DEF solveOf, IsSolve, caseOf, Cases
  <2>6. \A m, n \in 1..2 : CasesOf[kind][m] = CasesOf[kind][n] => m = n
    BY <2>1
  <2>7. \A i \in 1..5 : IsSolve(i) => \E n \in 1..2 : i = solveOf(n)
    BY DEF IsSolve, solveOf
  <2>8. ~IsSolve(5)
    BY DEF IsSolve
  <2>9. QED
    BY <2>2, <2>3, <2>5, <2>6, <2>7, <2>8
<1>3. QED
  BY <1>1, <1>2

\* The plan is fixed when the campaign is.
LEMMA KindKept ==
  ASSUME Next PROVE kind' = kind
<1> USE DEF worldVars
<1>1. ASSUME NEW p \in Processes, Step(p) \/ Crash(p) PROVE kind' = kind
  <2>1. CASE CheckManifest(p) \/ Fingerprint(p) \/ Compose(p) \/ Enter(p) \/ StayOut(p)
    BY <2>1 DEF CheckManifest, Fingerprint, Compose, Enter, StayOut
  <2>2. CASE Claim(p) \/ Reuse(p) \/ Refuse(p) \/ Return(p)
    BY <2>2 DEF Claim, Reuse, Refuse, Return
  <2>3. CASE Ambiguous(p) \/ Fail(p) \/ Commit(p) \/ Crash(p)
    BY <2>3 DEF Ambiguous, Fail, Commit, Crash
  <2>4. QED
    BY <1>1, <2>1, <2>2, <2>3 DEF Step
<1>2. ASSUME NEW i \in Plan, ConfirmSucceeded(i) \/ ConfirmFailed(i) PROVE kind' = kind
  BY <1>2 DEF ConfirmSucceeded, ConfirmFailed, settle
<1>3. CASE Edit \/ OpenRealRun \/ Expire \/ LeaseLapses
  BY <1>3 DEF Edit, OpenRealRun, Expire, LeaseLapses
<1>4. QED
  BY <1>1, <1>2, <1>3 DEF Next

-----------------------------------------------------------------------------
(* How a step moves its process.                                           *)

Alone(p) == ProcessOK' /\ \A q \in Processes : q # p => process'[q] = process[q]

Moves(p, where, step) ==
    /\ Alone(p)
    /\ process'[p].at = where /\ process'[p].step = step
    /\ process'[p].builder = process[p].builder /\ process'[p].slipped = process[p].slipped

Leaves(p) == Alone(p) /\ process'[p].at = "outside"

\* One process moves, field by field.
LEMMA OneMoves ==
  ASSUME ProcessOK, NEW p \in Processes, NEW where \in Places, NEW step \in Nat
  PROVE  /\ process' = [process EXCEPT ![p].at = where] => Moves(p, where, process[p].step)
         /\ process' = [process EXCEPT ![p].step = step] => Moves(p, process[p].at, step)
         /\ process' = [process EXCEPT ![p].at = where, ![p].step = step] => Moves(p, where, step)
         /\ process' = [process EXCEPT ![p] = outside] => Leaves(p)
<1> USE DEF ProcessOK, Moves, Leaves, Alone
<1>1. process' = [process EXCEPT ![p].at = where] => Moves(p, where, process[p].step)
  OBVIOUS
<1>2. process' = [process EXCEPT ![p].step = step] => Moves(p, process[p].at, step)
  OBVIOUS
<1>3. process' = [process EXCEPT ![p].at = where, ![p].step = step] => Moves(p, where, step)
  <2> SUFFICES ASSUME process' = [process EXCEPT ![p].at = where, ![p].step = step]
               PROVE  Moves(p, where, step)
    OBVIOUS
  <2>1. process'[p] = [process[p] EXCEPT !.at = where, !.step = step]
    OBVIOUS
  <2>2. \A q \in Processes : q # p => process'[q] = process[q]
    OBVIOUS
  <2>3. DOMAIN process' = Processes /\ process' = [q \in Processes |-> process'[q]]
    OBVIOUS
  <2>4. process'[p] \in [at : Places, step : Nat, builder : BOOLEAN, slipped : BOOLEAN]
    BY <2>1
  <2>5. QED
    BY <2>1, <2>2, <2>3, <2>4
<1>4. process' = [process EXCEPT ![p] = outside] => Leaves(p)
  BY DEF outside, Places
<1>5. QED
  BY <1>1, <1>2, <1>3, <1>4

\* Where each step takes the process that does it.
LEMMA StepMoves ==
  ASSUME ProcessOK, NEW p \in Processes
  PROVE  /\ CheckManifest(p) => Moves(p, "authorizing", stepOf(p))
         /\ Fingerprint(p) => IF approved THEN Moves(p, "authorized", stepOf(p)) ELSE Leaves(p)
         /\ Enter(p) => Moves(p, "on", 1)
         /\ Claim(p) => Moves(p, "calling", stepOf(p))
         /\ Reuse(p) => Moves(p, "on", stepOf(p) + 1)
         /\ Return(p) => Moves(p, "on", stepOf(p) + 1) \/ Leaves(p)
         /\ StayOut(p) \/ Refuse(p) \/ Ambiguous(p) \/ Fail(p) \/ Commit(p) \/ Crash(p)
               => Leaves(p)
<1>0. stepOf(p) \in Nat /\ stepOf(p) + 1 \in Nat
  BY DEF ProcessOK, stepOf
<1>1. \A where \in Places : move(p, where) => Moves(p, where, stepOf(p))
  BY OneMoves DEF move, stepOf
<1>2. leave(p) => Leaves(p)
  BY OneMoves, <1>0 DEF leave, Places
<1>3. \A where \in Places, step \in Nat :
         process' = [process EXCEPT ![p].at = where, ![p].step = step] => Moves(p, where, step)
  BY OneMoves
<1>4. process' = [process EXCEPT ![p] = outside] => Leaves(p)
  BY OneMoves, <1>0 DEF Places
<1>5. CheckManifest(p) => Moves(p, "authorizing", stepOf(p))
  BY <1>1 DEF CheckManifest, Places
<1>6. Fingerprint(p) => IF approved THEN Moves(p, "authorized", stepOf(p)) ELSE Leaves(p)
  BY <1>1, <1>4 DEF Fingerprint, Places
<1>7. Enter(p) => Moves(p, "on", 1)
  BY <1>3 DEF Enter, Places
<1>8. Claim(p) => Moves(p, "calling", stepOf(p))
  BY <1>1 DEF Claim, Places
<1>9. Reuse(p) => Moves(p, "on", stepOf(p) + 1)
  <2>1. Reuse(p) => At(p, "on") /\ process' = [process EXCEPT ![p].step = stepOf(p) + 1]
    BY DEF Reuse, Reaching
  <2>2. process' = [process EXCEPT ![p].step = stepOf(p) + 1]
           => Moves(p, process[p].at, stepOf(p) + 1)
    BY OneMoves, <1>0 DEF Places
  <2>3. QED
    BY <2>1, <2>2 DEF At
<1>10. Return(p) => Moves(p, "on", stepOf(p) + 1) \/ Leaves(p)
  BY <1>0, <1>2, <1>3 DEF Return, Places
<1>11. /\ StayOut(p) \/ Ambiguous(p) \/ Crash(p) => Leaves(p)
       /\ Refuse(p) \/ Fail(p) \/ Commit(p) => Leaves(p)
  BY <1>2, <1>4 DEF StayOut, Refuse, Ambiguous, Fail, Commit, Crash
<1>12. QED
  BY <1>5, <1>6, <1>7, <1>8, <1>9, <1>10, <1>11

\* compose_pyaedt_hfss attests the builder it finds.
LEMMA ComposeMoves ==
  ASSUME ProcessOK, approved \in BOOLEAN, NEW p \in Processes, Compose(p)
  PROVE  /\ Alone(p)
         /\ process'[p].at = "composed" /\ process'[p].builder = approved
         /\ process'[p].slipped = (process[p].slipped /\ ~approved)
<1>1. process' = [process EXCEPT ![p].at = "composed", ![p].builder = approved,
                                 ![p].slipped = @ /\ ~approved]
  BY DEF Compose
<1>2. process'[p] = [process[p] EXCEPT !.at = "composed", !.builder = approved,
                                       !.slipped = process[p].slipped /\ ~approved]
  BY <1>1 DEF ProcessOK
<1>3. \A q \in Processes : q # p => process'[q] = process[q]
  BY <1>1 DEF ProcessOK
<1>4. process' = [q \in Processes |-> process'[q]]
  BY <1>1 DEF ProcessOK
<1>5. process'[p] \in [at : Places, step : Nat, builder : BOOLEAN, slipped : BOOLEAN]
  BY <1>2 DEF ProcessOK, Places
<1>6. ProcessOK'
  BY <1>3, <1>4, <1>5 DEF ProcessOK
<1>7. QED
  BY <1>2, <1>3, <1>6 DEF Alone, ProcessOK

-----------------------------------------------------------------------------
(* The window between the gate and the attestation.                        *)

\* A process is authorized only by a repository that is as the manifest says, and
\* every later change marks it; the builder is what is found when it composes.
LEMMA WindowStep ==
  ASSUME ProcessOK, approved \in BOOLEAN, WindowInv, Next
  PROVE  WindowInv'
<1> USE DEF WindowInv, DriftOnlyInWindow, At, worldVars, historyVars
<1>1. ASSUME NEW p \in Processes, Step(p) \/ Crash(p) PROVE WindowInv'
  <2> DEFINE Past == {"composed", "on", "calling"}
  <2>1. ASSUME Leaves(p), UNCHANGED <<approved, drifted>> PROVE WindowInv'
    BY <2>1 DEF Leaves, Alone
  <2>2. ASSUME NEW where, NEW step, Moves(p, where, step), UNCHANGED approved,
               drifted' = drifted \/ drifted' = drifted \cup {process[p].slipped},
               drifted' # drifted => process[p].at \in Past /\ ~process[p].builder,
               where \in Past => process[p].at \in Past,
               where = "authorized" => approved
        PROVE  WindowInv'
    <3>1. drifted' \subseteq {TRUE}
      BY <2>2
    <3>2. QED
      BY <2>2, <3>1 DEF Moves, Alone
  <2>3. CASE CheckManifest(p)
    <3>1. Moves(p, "authorizing", stepOf(p)) /\ UNCHANGED <<approved, drifted>>
      BY <2>3, StepMoves DEF CheckManifest
    <3>2. QED
      BY <3>1, <2>2
  <2>4. CASE Fingerprint(p)
    <3>1. UNCHANGED <<approved, drifted>>
      BY <2>4 DEF Fingerprint
    <3>2. IF approved THEN Moves(p, "authorized", stepOf(p)) ELSE Leaves(p)
      BY <2>4, StepMoves
    <3>3. QED
      BY <3>1, <3>2, <2>1, <2>2
  <2>5. CASE Compose(p)
    BY <2>5, ComposeMoves DEF Compose, Alone
  <2>6. CASE Enter(p)
    <3>1. At(p, "composed") /\ UNCHANGED <<approved, drifted>>
      BY <2>6 DEF Enter
    <3>2. \E step : Moves(p, "on", step)
      BY <2>6, StepMoves
    <3>3. QED
      BY <3>1, <3>2, <2>2
  <2>7. CASE Claim(p) \/ Reuse(p)
    <3>1. At(p, "on") /\ UNCHANGED <<approved, drifted>>
      BY <2>7 DEF Claim, Reuse, Reaching
    <3>2. Moves(p, "calling", stepOf(p)) \/ Moves(p, "on", stepOf(p) + 1)
      BY <2>7, StepMoves
    <3>3. QED
      BY <3>1, <3>2, <2>2
  <2>8. CASE Return(p)
    <3>1. /\ At(p, "calling") /\ approved' = approved
          /\ \/ drifted' = drifted
             \/ drifted' = drifted \cup {process[p].slipped} /\ ~process[p].builder
      BY <2>8 DEF Return, Calling
    <3>2. Moves(p, "on", stepOf(p) + 1) \/ Leaves(p)
      BY <2>8, StepMoves
    <3>3. drifted' \subseteq {TRUE}
      BY <3>1
    <3>4. QED
      BY <3>1, <3>2, <3>3 DEF Moves, Leaves, Alone
  <2>9. CASE StayOut(p) \/ Refuse(p) \/ Ambiguous(p) \/ Fail(p) \/ Commit(p) \/ Crash(p)
    <3>1. UNCHANGED <<approved, drifted>>
      BY <2>9 DEF StayOut, Refuse, Ambiguous, Fail, Commit, Crash
    <3>2. QED
      BY <2>1, <2>9, <3>1, StepMoves
  <2>10. QED
    BY <1>1, <2>3, <2>4, <2>5, <2>6, <2>7, <2>8, <2>9 DEF Step
<1>2. ASSUME NEW i \in Plan, ConfirmSucceeded(i) \/ ConfirmFailed(i) PROVE WindowInv'
  BY <1>2 DEF ConfirmSucceeded, ConfirmFailed, settle
<1>3. CASE Edit
  BY <1>3 DEF Edit, ProcessOK
<1>4. CASE OpenRealRun \/ Expire \/ LeaseLapses
  BY <1>4 DEF OpenRealRun, Expire, LeaseLapses
<1>5. QED
  BY <1>1, <1>2, <1>3, <1>4 DEF Next

-----------------------------------------------------------------------------
(* How a step writes the operations.                                       *)

Writes(i, row) ==
    /\ OpsOK'
    /\ ops'[i] = row /\ \A j \in Plan : j # i => ops'[j] = ops[j]

\* One row is written, or its status is.
LEMMA OneRow ==
  ASSUME OpsOK, kind' = kind, NEW i \in Plan,
         NEW status \in Statuses, NEW value, NEW native \in BOOLEAN
  PROVE  /\ ops' = [ops EXCEPT ![i] = op(status, value, native)]
               => Writes(i, op(status, value, native))
         /\ ops' = [ops EXCEPT ![i].status = status]
               => Writes(i, op(status, ops[i].value, ops[i].native))
<1> USE DEF OpsOK, Writes
<1>0. Plan' = Plan
  BY DEF Plan, Length
<1> DEFINE row == op(status, value, native)
<1>1. row = op(row.status, row.value, row.native) /\ row.status \in Statuses /\ row.native \in BOOLEAN
  BY DEF op
<1>2. ops' = [ops EXCEPT ![i] = row] => Writes(i, row)
  <2> HIDE DEF row
  <2> SUFFICES ASSUME ops' = [ops EXCEPT ![i] = row] PROVE Writes(i, row)
    OBVIOUS
  <2>1. ops'[i] = row /\ \A j \in Plan : j # i => ops'[j] = ops[j]
    OBVIOUS
  <2>2. ops' = [j \in Plan |-> ops'[j]]
    OBVIOUS
  <2>3. QED
    BY <1>0, <1>1, <2>1, <2>2
<1> DEFINE same == op(status, ops[i].value, ops[i].native)
<1>3. same = op(same.status, same.value, same.native) /\ same.status \in Statuses /\ same.native \in BOOLEAN
  BY DEF op
<1>4. [ops[i] EXCEPT !.status = status] = same
  BY DEF op
<1>5. ops' = [ops EXCEPT ![i].status = status] => Writes(i, same)
  <2> HIDE DEF same
  <2> SUFFICES ASSUME ops' = [ops EXCEPT ![i].status = status] PROVE Writes(i, same)
    OBVIOUS
  <2>1. ops'[i] = same /\ \A j \in Plan : j # i => ops'[j] = ops[j]
    BY <1>4
  <2>2. ops' = [j \in Plan |-> ops'[j]]
    OBVIOUS
  <2>3. QED
    BY <1>0, <1>3, <2>1, <2>2
<1>6. QED
  BY <1>2, <1>5

\* What each step of a process writes, and what was there.
LEMMA StepWrites ==
  ASSUME OpsOK, kind' = kind, NEW p \in Processes, Placed(p)
  PROVE  LET i == stepOf(p)
         IN  /\ Claim(p) => i \in Plan /\ ops[i] = Absent /\ Writes(i, Running)
             /\ Return(p) => /\ i \in Plan /\ ops[i].status = "RUNNING"
                             /\ \E value \in Answers(i), native \in BOOLEAN :
                                   Writes(i, op("SUCCEEDED", value, native))
             /\ Ambiguous(p) => /\ i \in Plan /\ ops[i].status = "RUNNING"
                                /\ Writes(i, op("UNKNOWN", ops[i].value, ops[i].native))
             /\ Fail(p) => /\ i \in Plan /\ ops[i].status = "RUNNING"
                           /\ Writes(i, op("FAILED", ops[i].value, ops[i].native))
<1> DEFINE i == stepOf(p)
<1>1. \A status \in Statuses, value, native \in BOOLEAN :
         i \in Plan /\ ops' = [ops EXCEPT ![i] = op(status, value, native)]
            => Writes(i, op(status, value, native))
  BY OneRow
<1>2. \A status \in Statuses :
         i \in Plan /\ ops' = [ops EXCEPT ![i].status = status]
            => Writes(i, op(status, ops[i].value, ops[i].native))
  <2> SUFFICES ASSUME NEW status \in Statuses, i \in Plan,
                      ops' = [ops EXCEPT ![i].status = status]
               PROVE  Writes(i, op(status, ops[i].value, ops[i].native))
    OBVIOUS
  <2>1. ops[i].native \in BOOLEAN
    BY DEF OpsOK
  <2>2. QED
    BY <2>1, OneRow
<1>3. Claim(p) => i \in Plan /\ ops[i] = Absent /\ Writes(i, Running)
  <2>1. Claim(p) => i \in Plan /\ ops[i] = Absent /\ ops' = [ops EXCEPT ![i] = Running]
    BY DEF Claim, Reaching, stepOf
  <2>2. i \in Plan /\ ops' = [ops EXCEPT ![i] = Running] => Writes(i, Running)
    BY OneRow DEF Running, Statuses
  <2>3. QED
    BY <2>1, <2>2
<1>4. Calling(p) => i \in Plan /\ ops[i].status = "RUNNING"
  BY DEF Placed
<1>5. Return(p) => \E value \in Answers(i), native \in BOOLEAN :
                      Writes(i, op("SUCCEEDED", value, native))
  <2> SUFFICES ASSUME Return(p) PROVE \E value \in Answers(i), native \in BOOLEAN :
                                         Writes(i, op("SUCCEEDED", value, native))
    OBVIOUS
  <2>1. PICK value \in Answers(i), native \in (IF IsSolve(i) THEN BOOLEAN ELSE {FALSE}) :
               ops' = [ops EXCEPT ![i] = op("SUCCEEDED", value, native)]
    BY DEF Return
  <2>2. native \in BOOLEAN /\ i \in Plan
    BY <1>4 DEF Return
  <2>3. Writes(i, op("SUCCEEDED", value, native))
    BY <2>1, <2>2, OneRow DEF Statuses
  <2>4. QED
    BY <2>2, <2>3
<1>6. Ambiguous(p) => Writes(i, op("UNKNOWN", ops[i].value, ops[i].native))
  BY <1>2, <1>4 DEF Ambiguous, Statuses
<1>7. Fail(p) => Writes(i, op("FAILED", ops[i].value, ops[i].native))
  BY <1>2, <1>4 DEF Fail, Statuses
<1>8. (Return(p) => Calling(p)) /\ (Ambiguous(p) => Calling(p)) /\ (Fail(p) => Calling(p))
  BY DEF Return, Ambiguous, Fail
<1>9. QED
  BY <1>3, <1>4, <1>5, <1>6, <1>7, <1>8

\* What the operator's word writes: never a whole result.
LEMMA WordWrites ==
  ASSUME OpsOK, kind' = kind, NEW i \in Plan, ConfirmSucceeded(i) \/ ConfirmFailed(i)
  PROVE  /\ ops[i].status = "UNKNOWN"
         /\ \E value : \/ Writes(i, op("SUCCEEDED", value, FALSE))
                       \/ Writes(i, op("FAILED", value, FALSE))
<1>1. \A status \in Statuses : \A value : settle(i, op(status, value, FALSE))
         => Writes(i, op(status, value, FALSE))
  BY OneRow DEF settle
<1>2. QED
  BY <1>1 DEF ConfirmSucceeded, ConfirmFailed, settle, Statuses

\* Every other step leaves them alone.
LEMMA NoWrites ==
  ASSUME NEW p \in Processes,
         \/ CheckManifest(p) \/ Fingerprint(p) \/ Compose(p) \/ Enter(p) \/ StayOut(p)
         \/ Reuse(p) \/ Refuse(p) \/ Commit(p) \/ Crash(p)
         \/ Edit \/ OpenRealRun \/ Expire \/ LeaseLapses
  PROVE  ops' = ops /\ UNCHANGED measured
<1> USE DEF storeVars, historyVars
<1>1. CASE CheckManifest(p) \/ Fingerprint(p) \/ Compose(p) \/ Enter(p) \/ StayOut(p)
  BY <1>1 DEF CheckManifest, Fingerprint, Compose, Enter, StayOut
<1>2. CASE Reuse(p) \/ Refuse(p) \/ Commit(p) \/ Crash(p)
  BY <1>2 DEF Reuse, Refuse, Commit, Crash
<1>3. CASE Edit \/ OpenRealRun \/ Expire \/ LeaseLapses
  BY <1>3 DEF Edit, OpenRealRun, Expire, LeaseLapses
<1>4. QED
  BY <1>1, <1>2, <1>3

-----------------------------------------------------------------------------
(* Walking through the plan.                                               *)

\* Writing a row that has not succeeded undoes nothing, and starts nothing too
\* early if all before it is through.
LEMMA WriteKeeps ==
  ASSUME kind' = kind, Behind, NEW i \in Plan, NEW row, Writes(i, row),
         ops[i].status # "SUCCEEDED",
         ops[i] # Absent \/ \A j \in Plan : j < i => Through(j)
  PROVE  Behind' /\ \A j \in Plan : Through(j) => Through(j)' /\ ops'[j] = ops[j]
<1>1. Plan' = Plan
  BY DEF Plan, Length
<1>2. ASSUME NEW j \in Plan, Through(j) PROVE Through(j)' /\ ops'[j] = ops[j]
  <2>1. j # i
    BY <1>2 DEF Through
  <2>2. ops'[j] = ops[j]
    BY <2>1 DEF Writes
  <2>3. QED
    BY <1>2, <2>2 DEF Through, HasNativeFiles
<1>3. ASSUME NEW k \in Plan, NEW j \in Plan, ops'[k] # Absent, j < k PROVE Through(j)'
  <2>1. CASE k = i
    <3>1. Through(j)
      BY <1>3, <2>1 DEF Behind
    <3>2. QED
      BY <3>1, <1>2
  <2>2. CASE k # i
    <3>1. ops[k] # Absent
      BY <1>3, <2>2 DEF Writes
    <3>2. QED
      BY <1>3, <3>1, <1>2 DEF Behind
  <2>3. QED
    BY <2>1, <2>2
<1>4. Behind'
  BY <1>1, <1>3 DEF Behind, Absent
<1>5. QED
  BY <1>2, <1>4

\* The others stay where they are, and their ground with them.
LEMMA OthersPlaced ==
  ASSUME kind' = kind, NEW p \in Processes, Alone(p), NEW q \in Processes, q # p, Placed(q),
         \A j \in Plan : Through(j) => Through(j)',
         Calling(q) => ops'[stepOf(q)].status = "RUNNING"
  PROVE  Placed(q)'
<1>1. Plan' = Plan /\ End' = End
  BY DEF Plan, Length, End
<1>2. process'[q] = process[q]
  BY DEF Alone
<1>3. stepOf(q)' = stepOf(q) /\ At(q, "on")' = At(q, "on") /\ Calling(q)' = Calling(q)
  BY <1>2 DEF stepOf, At, Calling
<1>4. QED
  BY <1>1, <1>3 DEF Placed

\* A process that leaves the plan, or moves within it, keeps the order of the walk.
LEMMA QuietWalk ==
  ASSUME kind' = kind, WalkInv, ops' = ops, NEW p \in Processes, Alone(p),
         Placed(p)', ~Calling(p)'
  PROVE  WalkInv'
<1>1. Plan' = Plan
  BY DEF Plan, Length
<1>2. \A j \in Plan : Through(j) <=> Through(j)'
  BY DEF Through, HasNativeFiles
<1>3. Behind'
  BY <1>1, <1>2 DEF WalkInv, Behind, Absent
<1>4. ASSUME NEW q \in Processes PROVE Placed(q)'
  <2>1. CASE q = p
    BY <2>1
  <2>2. CASE q # p
    BY <2>2, <1>2, OthersPlaced DEF WalkInv, Placed
  <2>3. QED
    BY <2>1, <2>2
<1>5. \A q \in Processes : Calling(q)' => Calling(q)
  BY DEF Alone, Calling, At
<1>6. QED
  BY <1>3, <1>4, <1>5 DEF WalkInv

\* A process in a call writes the row of its call and leaves it: nobody else is in one.
LEMMA EndedCall ==
  ASSUME kind' = kind, WalkInv, NEW p \in Processes, Calling(p), Alone(p), NEW row,
         Writes(stepOf(p), row), Placed(p)', ~Calling(p)'
  PROVE  WalkInv'
<1> DEFINE i == stepOf(p)
<1>1. i \in Plan /\ ops[i].status = "RUNNING" /\ Behind
  BY DEF WalkInv, Placed
<1>2. Behind' /\ \A j \in Plan : Through(j) => Through(j)'
  BY <1>1, WriteKeeps DEF Absent, op
<1>3. \A q \in Processes : q # p => ~Calling(q)
  BY DEF WalkInv
<1>4. ASSUME NEW q \in Processes PROVE Placed(q)'
  <2>1. CASE q = p
    BY <2>1
  <2>2. CASE q # p
    BY <2>2, <1>2, <1>3, OthersPlaced DEF WalkInv
  <2>3. QED
    BY <2>1, <2>2
<1>5. \A q \in Processes : ~Calling(q)'
  BY <1>3 DEF Alone, Calling, At
<1>6. QED
  BY <1>2, <1>4, <1>5 DEF WalkInv

\* Whoever is outside of the plan is placed.
LEMMA OutsidePlaced ==
  ASSUME NEW p \in Processes, process'[p].at \notin {"on", "calling"}
  PROVE  Placed(p)' /\ ~Calling(p)'
  BY DEF Placed, At, Calling

\* A call that returns goes on to the next operation only if it is through.
LEMMA ReturnGoesOn ==
  ASSUME ProcessOK, OpsOK, kind' = kind, NEW p \in Processes, Placed(p), Return(p),
         NEW i, i = stepOf(p)
  PROVE  \/ Leaves(p)
         \/ Moves(p, "on", i + 1) /\ Through(i)'
<1>0. i \in Plan /\ i \in Nat /\ i + 1 \in Nat
  BY DEF Return, Placed, Plan
<1>1. PICK value \in Answers(i), native \in (IF IsSolve(i) THEN BOOLEAN ELSE {FALSE}) :
         LET answer == op("SUCCEEDED", value, native)
         IN  /\ ops' = [ops EXCEPT ![i] = answer]
             /\ IF HasNativeFiles(i, answer)
                THEN process' = [process EXCEPT ![p].at = "on", ![p].step = i + 1]
                ELSE leave(p)
  BY DEF Return
<1> DEFINE answer == op("SUCCEEDED", value, native)
<1>2. answer.status = "SUCCEEDED" /\ native \in BOOLEAN
  BY DEF op
<1>3. ops'[i] = answer
  BY <1>0, <1>1 DEF OpsOK
<1>4. CASE HasNativeFiles(i, answer)
  <2>1. Moves(p, "on", i + 1)
    BY <1>0, <1>1, <1>4, OneMoves DEF Places
  <2>2. Through(i)'
    BY <1>2, <1>3, <1>4 DEF Through, HasNativeFiles
  <2>3. QED
    BY <2>1, <2>2
<1>5. CASE ~HasNativeFiles(i, answer)
  BY <1>0, <1>1, <1>5, OneMoves DEF leave, Places
<1>6. QED
  BY <1>4, <1>5

\* Every step of a process keeps the order of the walk.
LEMMA StepWalk ==
  ASSUME TypesOK, WalkInv, kind' = kind, NEW p \in Processes, Step(p) \/ Crash(p)
  PROVE  WalkInv'
<1> DEFINE i == stepOf(p)
<1>0. /\ ProcessOK /\ OpsOK /\ Placed(p) /\ Behind
      /\ Plan = 1..End /\ Plan' = Plan /\ End' = End /\ End \in Nat
  BY PlanFacts DEF TypesOK, WalkInv, Plan, End, Length
<1>1. CASE \/ CheckManifest(p) \/ Fingerprint(p) \/ Compose(p) \/ StayOut(p)
           \/ Refuse(p) \/ Commit(p) \/ Crash(p)
  <2>1. ops' = ops
    BY <1>1, NoWrites
  <2>2. \/ \E where \in {"authorizing", "authorized"} : \E n : Moves(p, where, n)
        \/ Alone(p) /\ process'[p].at = "composed"
        \/ Leaves(p)
    BY <1>0, <1>1, StepMoves, ComposeMoves DEF TypesOK
  <2>3. Alone(p) /\ process'[p].at \notin {"on", "calling"}
    BY <2>2 DEF Moves, Leaves
  <2>4. QED
    BY <2>1, <2>3, QuietWalk, OutsidePlaced
<1>2. CASE Enter(p)
  <2>1. ops' = ops
    BY <1>2, NoWrites
  <2>2. Alone(p) /\ process'[p].at = "on" /\ process'[p].step = 1
    BY <1>0, <1>2, StepMoves DEF Moves
  <2>3. Placed(p)' /\ ~Calling(p)'
    BY <1>0, <2>2 DEF Placed, At, Calling, stepOf
  <2>4. QED
    BY <2>1, <2>2, <2>3, QuietWalk
<1>3. CASE Reuse(p)
  <2>1. ops' = ops /\ At(p, "on") /\ i \in Plan /\ Through(i)
    BY <1>3, NoWrites DEF Reuse, Reaching, stepOf, Through
  <2>2. Alone(p) /\ process'[p].at = "on" /\ process'[p].step = i + 1
    BY <1>0, <1>3, StepMoves DEF Moves
  <2>3. \A j \in Plan : j < i + 1 => Through(j)
    BY <1>0, <2>1 DEF Placed
  <2>4. \A j \in Plan : j < i + 1 => Through(j)'
    BY <2>1, <2>3 DEF Through, HasNativeFiles
  <2>5. Placed(p)' /\ ~Calling(p)'
    BY <1>0, <2>1, <2>2, <2>4 DEF Placed, At, Calling, stepOf
  <2>6. QED
    BY <2>1, <2>2, <2>5, QuietWalk
<1>4. CASE Claim(p)
  <2>1. i \in Plan /\ ops[i] = Absent /\ Writes(i, Running) /\ At(p, "on")
    BY <1>0, <1>4, StepWrites DEF Claim, Reaching
  <2>2. Alone(p) /\ process'[p].at = "calling" /\ process'[p].step = i
    BY <1>0, <1>4, StepMoves DEF Moves
  <2>3. ops[i].status = "none" /\ ops'[i].status = "RUNNING"
    BY <2>1 DEF Writes, Running, Absent, op
  <2>4. \A j \in Plan : j < i => Through(j)
    BY <1>0, <2>1 DEF Placed
  <2>5. Behind' /\ \A j \in Plan : Through(j) => Through(j)'
    BY <1>0, <2>1, <2>3, <2>4, WriteKeeps
  <2>6. Placed(p)'
    BY <1>0, <2>1, <2>2, <2>3, <2>4, <2>5 DEF Placed, At, Calling, stepOf
  <2>7. \A q \in Processes : ~Calling(q)
    <3>1. SUFFICES ASSUME NEW q \in Processes, Calling(q) PROVE FALSE
      OBVIOUS
    <3>2. stepOf(q) \in Plan /\ ops[stepOf(q)].status = "RUNNING"
      BY <3>1 DEF WalkInv, Placed
    <3>3. i < stepOf(q)
      BY <1>0, <2>1, <2>3, <2>4, <3>2 DEF Through
    <3>4. Through(i)
      BY <1>0, <2>1, <3>2, <3>3 DEF Behind, Absent, op
    <3>5. QED
      BY <2>3, <3>4 DEF Through
  <2>8. ASSUME NEW q \in Processes PROVE Placed(q)' /\ (Calling(q)' => q = p)
    <3>1. CASE q = p
      BY <3>1, <2>6
    <3>2. CASE q # p
      BY <3>2, <2>2, <2>5, <2>7, OthersPlaced DEF WalkInv, Alone, Calling, At
    <3>3. QED
      BY <3>1, <3>2
  <2>9. QED
    BY <2>5, <2>8 DEF WalkInv
<1>5. CASE Return(p)
  <2>1. Calling(p) /\ \E row : Writes(i, row)
    BY <1>0, <1>5, StepWrites DEF Return
  <2>2. i \in Plan /\ ops[i].status = "RUNNING"
    BY <1>0, <2>1 DEF Placed
  <2>3. \A j \in Plan : Through(j) => Through(j)'
    BY <1>0, <2>1, <2>2, WriteKeeps DEF Absent, op
  <2>4. CASE Leaves(p)
    BY <2>1, <2>4, OutsidePlaced, EndedCall DEF Leaves
  <2>0. PICK k : k = i
    OBVIOUS
  <2>5. CASE Moves(p, "on", k + 1) /\ Through(k)'
    <3>1. Alone(p) /\ process'[p].at = "on" /\ process'[p].step = k + 1
      BY <2>5 DEF Moves
    <3>2. \A j \in Plan : j < k + 1 => Through(j)'
      BY <1>0, <2>0, <2>1, <2>2, <2>3, <2>5 DEF Placed
    <3>3. Placed(p)' /\ ~Calling(p)'
      BY <1>0, <2>0, <2>2, <3>1, <3>2 DEF Placed, At, Calling, stepOf
    <3>4. QED
      BY <2>1, <3>1, <3>3, EndedCall
  <2>6. QED
    BY <1>0, <1>5, <2>0, <2>4, <2>5, ReturnGoesOn
<1>6. CASE Ambiguous(p) \/ Fail(p)
  <2>1. Calling(p) /\ \E row : Writes(i, row)
    BY <1>0, <1>6, StepWrites DEF Ambiguous, Fail
  <2>2. Leaves(p)
    BY <1>0, <1>6, StepMoves
  <2>3. QED
    BY <2>1, <2>2, OutsidePlaced, EndedCall DEF Leaves
<1>7. QED
  BY <1>1, <1>2, <1>3, <1>4, <1>5, <1>6 DEF Step

\* The operator settles an unknown row; nobody is past it or in it.
LEMMA WordWalk ==
  ASSUME TypesOK, WalkInv, kind' = kind, NEW i \in Plan, ConfirmSucceeded(i) \/ ConfirmFailed(i)
  PROVE  WalkInv'
<1>0. OpsOK /\ Behind /\ Plan' = Plan /\ End' = End
  BY DEF TypesOK, WalkInv, Plan, End, Length
<1>1. process' = process
  BY DEF ConfirmSucceeded, ConfirmFailed, settle
<1>2. ops[i].status = "UNKNOWN" /\ \E row : Writes(i, row)
  BY <1>0, WordWrites
<1>3. Behind' /\ \A j \in Plan : Through(j) => Through(j)'
  BY <1>0, <1>2, WriteKeeps DEF Absent, op
<1>4. ASSUME NEW q \in Processes PROVE Placed(q)'
  <2>1. Placed(q)
    BY DEF WalkInv
  <2>2. Calling(q) => stepOf(q) \in Plan /\ ops[stepOf(q)].status = "RUNNING"
    BY <2>1 DEF Placed
  <2>3. Calling(q) => ops'[stepOf(q)] = ops[stepOf(q)]
    BY <1>2, <2>2 DEF Writes
  <2>4. stepOf(q)' = stepOf(q) /\ At(q, "on")' = At(q, "on") /\ Calling(q)' = Calling(q)
    BY <1>1 DEF stepOf, At, Calling
  <2>5. QED
    BY <1>0, <1>3, <2>1, <2>2, <2>3, <2>4 DEF Placed
<1>5. QED
  BY <1>1, <1>3, <1>4 DEF WalkInv, Calling, At

\* Nothing of the surroundings moves a process or writes a row.
LEMMA WorldWalk ==
  ASSUME TypesOK, WalkInv, kind' = kind, ops' = ops, process' \in [Processes -> [at : Places,
                                        step : Nat, builder : BOOLEAN, slipped : BOOLEAN]],
         \A q \in Processes : process'[q].at = process[q].at /\ process'[q].step = process[q].step
  PROVE  WalkInv'
<1>1. Plan' = Plan /\ End' = End
  BY DEF Plan, End, Length
<1>2. \A j \in Plan : Through(j) <=> Through(j)'
  BY DEF Through, HasNativeFiles
<1>3. Behind'
  BY <1>1, <1>2 DEF WalkInv, Behind, Absent
<1>4. ASSUME NEW q \in Processes
      PROVE  stepOf(q)' = stepOf(q) /\ (At(q, "on")' <=> At(q, "on")) /\ (Calling(q)' <=> Calling(q))
  BY DEF stepOf, At, Calling
<1>5. \A q \in Processes : Placed(q)'
  BY <1>1, <1>2, <1>4 DEF WalkInv, Placed
<1>6. QED
  BY <1>3, <1>4, <1>5 DEF WalkInv

\* What an edit marks is not where a process is.
LEMMA WorldMoves ==
  ASSUME ProcessOK, Edit \/ OpenRealRun \/ Expire \/ LeaseLapses
  PROVE  /\ ProcessOK'
         /\ \A q \in Processes :
               process'[q].at = process[q].at /\ process'[q].step = process[q].step
<1>1. CASE Edit
  <2>1. ASSUME NEW q \in Processes
        PROVE  /\ process'[q] \in [at : Places, step : Nat, builder : BOOLEAN, slipped : BOOLEAN]
               /\ process'[q].at = process[q].at /\ process'[q].step = process[q].step
    <3>1. process'[q] = process[q] \/ process'[q] = [process[q] EXCEPT !.slipped = TRUE]
      BY <1>1 DEF Edit
    <3>2. process[q] \in [at : Places, step : Nat, builder : BOOLEAN, slipped : BOOLEAN]
      BY DEF ProcessOK
    <3>3. QED
      BY <3>1, <3>2
  <2>2. process' = [q \in Processes |-> process'[q]]
    BY <1>1 DEF Edit
  <2>3. QED
    BY <2>1, <2>2 DEF ProcessOK
<1>2. CASE OpenRealRun \/ Expire \/ LeaseLapses
  BY <1>2 DEF OpenRealRun, Expire, LeaseLapses, ProcessOK
<1>3. QED
  BY <1>1, <1>2

\* Every step keeps the order of the walk.
LEMMA WalkStep ==
  ASSUME TypesOK, WalkInv, Next
  PROVE  WalkInv'
<1>0. kind' = kind /\ ProcessOK
  BY KindKept DEF TypesOK
<1>1. ASSUME NEW p \in Processes, Step(p) \/ Crash(p) PROVE WalkInv'
  BY <1>0, <1>1, StepWalk
<1>2. ASSUME NEW i \in Plan, ConfirmSucceeded(i) \/ ConfirmFailed(i) PROVE WalkInv'
  BY <1>0, <1>2, WordWalk
<1>3. CASE Edit \/ OpenRealRun \/ Expire \/ LeaseLapses
  <2>1. ops' = ops
    BY <1>3 DEF Edit, OpenRealRun, Expire, LeaseLapses, storeVars
  <2>2. QED
    BY <1>0, <1>3, <2>1, WorldMoves, WorldWalk DEF ProcessOK
<1>4. QED
  BY <1>1, <1>2, <1>3 DEF Next

-----------------------------------------------------------------------------
(* The hold of the Run.                                                    *)

\* A step that writes nothing and leaves the Run and its owner alone.
LEMMA QuietHold ==
  ASSUME HoldInv, kind' = kind, ops' = ops, run' = run, owner' = owner,
         lapsed' \in BOOLEAN, lapsed' => owner # Nobody,
         \A p \in Processes : process'[p].at \in {"composed", "on", "calling"} => run # "none"
  PROVE  HoldInv'
<1>1. Plan' = Plan
  BY DEF Plan, Length
<1>2. QED
  BY <1>1 DEF HoldInv, Absent

\* A step that writes nothing, lets the owner go, and leaves the plan.
LEMMA LeaveHold ==
  ASSUME HoldInv, kind' = kind, run' = run, NEW p \in Processes, Leaves(p), leave(p),
         \A i \in Plan : \/ ops'[i] = ops[i]
                         \/ ops[i] # Absent /\ ops'[i].status \notin {"RUNNING", "UNKNOWN"}
  PROVE  HoldInv'
<1>1. Plan' = Plan
  BY DEF Plan, Length
<1>2. /\ owner' \in {owner, Nobody} /\ lapsed' \in BOOLEAN
      /\ (lapsed' => lapsed /\ owner' = owner)
  BY DEF leave, HoldInv
<1>3. \A q \in Processes : process'[q].at \in {"composed", "on", "calling"} => run # "none"
  BY DEF Leaves, Alone, HoldInv
<1>4. \A i \in Plan :
         /\ ops'[i] # Absent => run # "none"
         /\ ops'[i].status = "RUNNING" => run # "COMPLETED"
         /\ ops'[i].status = "UNKNOWN" => run = "WAITING_RECONCILIATION"
  BY DEF HoldInv
<1>5. QED
  BY <1>1, <1>2, <1>3, <1>4 DEF HoldInv, Absent

\* A step that writes a row of a Run that is not COMPLETED and keeps its owner.
LEMMA WriteHold ==
  ASSUME HoldInv, kind' = kind, run' = run, run \notin {"none", "COMPLETED"},
         owner' = owner, lapsed' = lapsed, NEW i \in Plan, NEW row, Writes(i, row),
         row.status # "UNKNOWN",
         \A p \in Processes : process'[p].at \in {"composed", "on", "calling"} => run # "none"
  PROVE  HoldInv'
<1>1. Plan' = Plan
  BY DEF Plan, Length
<1>2. \A j \in Plan : ops'[j] = ops[j] \/ ops'[j].status # "UNKNOWN"
  BY DEF Writes
<1>3. \A j \in Plan :
         /\ ops'[j] # Absent => run # "none"
         /\ ops'[j].status = "RUNNING" => run # "COMPLETED"
         /\ ops'[j].status = "UNKNOWN" => run = "WAITING_RECONCILIATION"
  BY <1>2 DEF HoldInv
<1>4. QED
  BY <1>1, <1>3 DEF HoldInv, Absent

\* Every step of a process keeps the hold.
LEMMA StepHold ==
  ASSUME TypesOK, HoldInv, WalkInv, kind' = kind, NEW p \in Processes, Step(p) \/ Crash(p)
  PROVE  HoldInv'
<1> DEFINE i == stepOf(p)
<1> USE DEF storeVars
<1>0. /\ ProcessOK /\ OpsOK /\ Placed(p) /\ Plan' = Plan /\ approved \in BOOLEAN
      /\ owner \in Processes \cup {Nobody} /\ lapsed \in BOOLEAN
      /\ Calling(p) => i \in Plan /\ ops[i].status = "RUNNING"
  BY DEF TypesOK, WalkInv, HoldInv, Plan, Length, Placed
<1>1. \A q \in Processes : process[q].at \in {"composed", "on", "calling"} => run # "none"
  BY DEF HoldInv
<1>2. CASE CheckManifest(p) \/ Fingerprint(p)
  <2>1. UNCHANGED storeVars
    BY <1>2 DEF CheckManifest, Fingerprint
  <2>2. Alone(p) /\ process'[p].at \in {"authorizing", "authorized", "outside"}
    BY <1>0, <1>2, StepMoves DEF Moves, Leaves
  <2>3. QED
    BY <1>0, <1>1, <2>1, <2>2, QuietHold DEF Alone, HoldInv
<1>3. CASE Compose(p)
  <2>1. /\ run' = (IF run = "none" THEN "ACTIVE" ELSE run)
        /\ UNCHANGED <<owner, lapsed, ops>>
    BY <1>3 DEF Compose
  <2>2. run' # "none" /\ (run # "none" => run' = run)
    BY <2>1
  <2>3. QED
    BY <1>0, <2>1, <2>2 DEF HoldInv, Absent
<1>4. CASE Enter(p)
  <2>1. /\ At(p, "composed") /\ UNCHANGED <<run, ops>>
        /\ \/ run = "ACTIVE" /\ owner' = p /\ lapsed' = FALSE
           \/ run # "ACTIVE" /\ owner' = owner /\ lapsed' = lapsed
    BY <1>4 DEF Enter
  <2>2. Alone(p)
    BY <1>0, <1>4, StepMoves DEF Moves
  <2>3. \A q \in Processes : process'[q].at \in {"composed", "on", "calling"} => run # "none"
    BY <1>1, <2>1, <2>2 DEF Alone, At
  <2>4. CASE run = "ACTIVE" /\ owner' = p /\ lapsed' = FALSE
    BY <1>0, <2>1, <2>3, <2>4 DEF HoldInv, Absent
  <2>5. CASE owner' = owner /\ lapsed' = lapsed
    BY <1>0, <2>1, <2>3, <2>5, QuietHold DEF HoldInv
  <2>6. QED
    BY <2>1, <2>4, <2>5
<1>5. CASE StayOut(p)
  <2>1. UNCHANGED storeVars
    BY <1>5 DEF StayOut
  <2>2. Alone(p) /\ process'[p].at = "outside"
    BY <1>0, <1>5, StepMoves DEF Leaves
  <2>3. QED
    BY <1>0, <1>1, <2>1, <2>2, QuietHold DEF Alone, HoldInv
<1>6. CASE Claim(p)
  <2>1. i \in Plan /\ Writes(i, Running)
    BY <1>0, <1>6, StepWrites
  <2>2. run = "ACTIVE" /\ UNCHANGED <<run, owner, lapsed>> /\ Running.status # "UNKNOWN"
    BY <1>6 DEF Claim, Running, op
  <2>3. QED
    BY <2>1, <2>2, WriteHold
<1>7. CASE Reuse(p)
  <2>1. At(p, "on") /\ UNCHANGED storeVars
    BY <1>7 DEF Reuse, Reaching
  <2>2. Alone(p)
    BY <1>0, <1>7, StepMoves DEF Moves
  <2>3. QED
    BY <1>0, <1>1, <2>1, <2>2, QuietHold DEF Alone, HoldInv, At
<1>8. CASE Refuse(p)
  <2>1. leave(p) /\ UNCHANGED <<run, ops>>
    BY <1>8 DEF Refuse
  <2>2. QED
    BY <1>0, <1>8, <2>1, StepMoves, LeaveHold
<1>9. CASE Return(p)
  <2>1. Calling(p) /\ run' = run /\ (UNCHANGED <<owner, lapsed>> \/ leave(p))
    BY <1>9 DEF Return
  <2>2. PICK value : \E native \in BOOLEAN : Writes(i, op("SUCCEEDED", value, native))
    BY <1>0, <1>9, StepWrites
  <2>3. PICK native \in BOOLEAN : Writes(i, op("SUCCEEDED", value, native))
    BY <2>2
  <2>4. run \notin {"none", "COMPLETED"} /\ ops[i] # Absent
    BY <1>0, <2>1 DEF HoldInv, Absent, op
  <2>5. op("SUCCEEDED", value, native).status = "SUCCEEDED"
    BY DEF op
  <2>6. CASE UNCHANGED <<owner, lapsed>>
    BY <1>0, <2>1, <2>3, <2>4, <2>5, <2>6, WriteHold
  <2>7. CASE leave(p)
    <3>1. Leaves(p)
      BY <1>0, <2>7, OneMoves DEF leave, Places
    <3>2. QED
      BY <1>0, <2>1, <2>3, <2>4, <2>5, <2>7, <3>1, LeaveHold DEF Writes
  <2>8. QED
    BY <2>1, <2>6, <2>7
<1>10. CASE Ambiguous(p)
  <2>1. Calling(p) /\ run \in {"ACTIVE", "WAITING_RECONCILIATION"}
    BY <1>0, <1>10 DEF HoldInv, Absent, op, Ambiguous
  <2>2. /\ run' = "WAITING_RECONCILIATION"
        /\ owner' = (IF run = "ACTIVE" THEN Nobody ELSE owner)
        /\ lapsed' = (lapsed /\ owner' # Nobody)
    BY <1>10, <2>1 DEF Ambiguous
  <2>3. owner' = Nobody /\ lapsed' = FALSE
    BY <2>1, <2>2 DEF HoldInv
  <2>4. QED
    BY <1>0, <2>2, <2>3 DEF HoldInv
<1>11. CASE Fail(p)
  <2>1. Calling(p) /\ run' = run /\ leave(p)
    BY <1>11 DEF Fail
  <2>2. Writes(i, op("FAILED", ops[i].value, ops[i].native))
    BY <1>0, <1>11, StepWrites
  <2>5. ops[i] # Absent
    BY <1>0, <2>1 DEF Absent, op
  <2>3. op("FAILED", ops[i].value, ops[i].native).status = "FAILED"
    BY DEF op
  <2>4. QED
    BY <1>0, <1>11, <2>1, <2>2, <2>3, <2>5, StepMoves, LeaveHold DEF Writes
<1>12. CASE Commit(p)
  <2>1. ops' = ops /\ Leaves(p)
    BY <1>0, <1>12, NoWrites, StepMoves
  <2>2. CASE leave(p) /\ run' = run
    BY <1>0, <2>1, <2>2, LeaveHold
  <2>3. CASE /\ run = "ACTIVE" /\ Unresolved = {}
             /\ run' = "COMPLETED" /\ owner' = Nobody /\ lapsed' = FALSE
    <3>1. \A j \in Plan : ops[j].status \notin {"RUNNING", "UNKNOWN"}
      BY <2>3 DEF Unresolved
    <3>2. QED
      BY <1>0, <2>1, <2>3, <3>1 DEF HoldInv
  <2>4. QED
    BY <1>12, <2>2, <2>3 DEF Commit
<1>13. CASE Crash(p)
  <2>1. ops' = ops /\ Leaves(p) /\ run' = run /\ owner' = owner
    BY <1>0, <1>13, NoWrites, StepMoves DEF Crash
  <2>2. lapsed' = (lapsed \/ owner = p)
    BY <1>13 DEF Crash
  <2>3. p # Nobody
    BY CampaignAssumption DEF CampaignAssumption
  <2>4. lapsed' \in BOOLEAN /\ (lapsed' => owner # Nobody)
    BY <2>2, <2>3 DEF HoldInv
  <2>5. QED
    BY <1>1, <2>1, <2>4, QuietHold DEF Leaves, Alone
<1>14. QED
  BY <1>2, <1>3, <1>4, <1>5, <1>6, <1>7, <1>8, <1>9, <1>10, <1>11, <1>12, <1>13 DEF Step

\* The Run is let go only when its last unknown outcome is settled.
LEMMA WordHold ==
  ASSUME TypesOK, HoldInv, kind' = kind, NEW i \in Plan, ConfirmSucceeded(i) \/ ConfirmFailed(i)
  PROVE  HoldInv'
<1>0. OpsOK /\ Plan' = Plan
  BY DEF TypesOK, Plan, Length
<1>1. ops[i].status = "UNKNOWN" /\ run = "WAITING_RECONCILIATION"
  BY <1>0, WordWrites DEF HoldInv
<1>2. PICK value : \/ Writes(i, op("SUCCEEDED", value, FALSE))
                   \/ Writes(i, op("FAILED", value, FALSE))
  BY <1>0, WordWrites
<1>3. ops'[i].status \in {"SUCCEEDED", "FAILED"} /\ \A j \in Plan : j # i => ops'[j] = ops[j]
  BY <1>2 DEF Writes, op
<1>4. /\ UNCHANGED <<owner, lapsed, process>>
      /\ run' = (IF Unresolved = {i} THEN "ACTIVE" ELSE run)
  BY <1>1 DEF ConfirmSucceeded, ConfirmFailed, settle
<1>5. ASSUME Unresolved = {i}, NEW j \in Plan PROVE ops'[j].status # "UNKNOWN"
  BY <1>3, <1>5 DEF Unresolved
<1>6. ASSUME NEW j \in Plan PROVE ops'[j].status = "UNKNOWN" => run' = "WAITING_RECONCILIATION"
  BY <1>1, <1>4, <1>5
<1>7. run' \in {"ACTIVE", "WAITING_RECONCILIATION"}
  BY <1>1, <1>4
<1>8. QED
  BY <1>0, <1>1, <1>4, <1>6, <1>7 DEF HoldInv

\* Every step keeps the hold.
LEMMA HoldStep ==
  ASSUME TypesOK, HoldInv, WalkInv, Next
  PROVE  HoldInv'
<1>0. kind' = kind /\ ProcessOK
  BY KindKept DEF TypesOK
<1>1. ASSUME NEW p \in Processes, Step(p) \/ Crash(p) PROVE HoldInv'
  BY <1>0, <1>1, StepHold
<1>2. ASSUME NEW i \in Plan, ConfirmSucceeded(i) \/ ConfirmFailed(i) PROVE HoldInv'
  BY <1>0, <1>2, WordHold
<1>3. CASE Edit \/ OpenRealRun \/ Expire \/ LeaseLapses
  <2>1. UNCHANGED <<ops, run, owner>> /\ lapsed' \in BOOLEAN /\ (lapsed' => owner # Nobody)
    <3>1. CASE Edit \/ OpenRealRun \/ Expire
      BY <3>1 DEF Edit, OpenRealRun, Expire, storeVars, HoldInv
    <3>2. CASE LeaseLapses
      BY <3>2 DEF LeaseLapses
    <3>3. QED
      BY <1>3, <3>1, <3>2
  <2>2. \A q \in Processes : process'[q].at = process[q].at
    BY <1>0, <1>3, WorldMoves
  <2>3. QED
    BY <1>0, <2>1, <2>2, QuietHold DEF HoldInv
<1>4. QED
  BY <1>1, <1>2, <1>3 DEF Next

-----------------------------------------------------------------------------
(* Types, and the solves that were measured.                               *)

\* Every step keeps the types.
LEMMA TypesStep ==
  ASSUME TypesOK, WalkInv, Next
  PROVE  TypesOK'
<1>0. kind' = kind /\ Plan' = Plan /\ ProcessOK /\ OpsOK /\ approved \in BOOLEAN
  BY KindKept DEF TypesOK, Plan, Length
<1>1. ProcessOK'
  <2>1. ASSUME NEW p \in Processes, Step(p) \/ Crash(p) PROVE ProcessOK'
    <3>1. Alone(p)
      BY <1>0, <2>1, StepMoves, ComposeMoves DEF Step, Moves, Leaves
    <3>2. QED
      BY <3>1 DEF Alone
  <2>2. ASSUME NEW i \in Plan, ConfirmSucceeded(i) \/ ConfirmFailed(i) PROVE ProcessOK'
    BY <1>0, <2>2 DEF ConfirmSucceeded, ConfirmFailed, settle, ProcessOK
  <2>3. QED
    BY <1>0, <2>1, <2>2, WorldMoves DEF Next
<1>2. OpsOK'
  <2>0. ops' = ops => OpsOK'
    BY <1>0 DEF OpsOK
  <2>1. ASSUME NEW p \in Processes, Step(p) \/ Crash(p) PROVE OpsOK'
    <3>1. ops' = ops \/ \E row : Writes(stepOf(p), row)
      BY <1>0, <2>1, StepWrites, NoWrites DEF Step, WalkInv
    <3>2. QED
      BY <2>0, <3>1 DEF Writes
  <2>2. ASSUME NEW i \in Plan, ConfirmSucceeded(i) \/ ConfirmFailed(i) PROVE OpsOK'
    BY <1>0, <2>2, WordWrites DEF Writes
  <2>3. CASE Edit \/ OpenRealRun \/ Expire \/ LeaseLapses
    BY <2>0, <2>3 DEF Edit, OpenRealRun, Expire, LeaseLapses, storeVars
  <2>4. QED
    BY <2>1, <2>2, <2>3 DEF Next
<1>3. measured' = [c \in Cases |-> measured'[c]]
  <2>0. measured' = measured => measured' = [c \in Cases |-> measured'[c]]
    BY DEF TypesOK
  <2>1. ASSUME NEW p \in Processes, Return(p)
        PROVE  measured' = [c \in Cases |-> measured'[c]]
    <3>1. measured' = measured \/ \E c, v : measured' = [measured EXCEPT ![c] = v]
      BY <2>1 DEF Return
    <3>2. QED
      BY <3>1 DEF TypesOK
  <2>2. ASSUME NEW p \in Processes, (Step(p) /\ ~Return(p)) \/ Crash(p)
        PROVE  measured' = measured
    <3>1. CASE Claim(p) \/ Ambiguous(p) \/ Fail(p)
      BY <3>1 DEF Claim, Ambiguous, Fail, historyVars
    <3>2. QED
      BY <2>2, <3>1, NoWrites DEF Step
  <2>3. ASSUME NEW i \in Plan, ConfirmSucceeded(i) \/ ConfirmFailed(i)
        PROVE  measured' = measured
    BY <2>3 DEF ConfirmSucceeded, ConfirmFailed, settle, historyVars
  <2>4. CASE Edit \/ OpenRealRun \/ Expire \/ LeaseLapses
    BY <2>0, <2>4 DEF Edit, OpenRealRun, Expire, LeaseLapses, historyVars
  <2>5. QED
    BY <2>0, <2>1, <2>2, <2>3, <2>4 DEF Next
<1>4. approved' \in BOOLEAN /\ expired' \in BOOLEAN /\ opened' \in BOOLEAN
  <2> USE DEF worldVars, TypesOK
  <2>1. ASSUME NEW p \in Processes, Step(p) \/ Crash(p) PROVE UNCHANGED <<approved, expired, opened>>
    <3>1. CASE CheckManifest(p) \/ Fingerprint(p) \/ Compose(p) \/ Enter(p) \/ StayOut(p)
      BY <3>1 DEF CheckManifest, Fingerprint, Compose, Enter, StayOut
    <3>2. CASE Claim(p) \/ Reuse(p) \/ Refuse(p) \/ Return(p)
      BY <3>2 DEF Claim, Reuse, Refuse, Return
    <3>3. CASE Ambiguous(p) \/ Fail(p) \/ Commit(p) \/ Crash(p)
      BY <3>3 DEF Ambiguous, Fail, Commit, Crash
    <3>4. QED
      BY <2>1, <3>1, <3>2, <3>3 DEF Step
  <2>2. ASSUME NEW i \in Plan, ConfirmSucceeded(i) \/ ConfirmFailed(i)
        PROVE  UNCHANGED <<approved, expired, opened>>
    BY <2>2 DEF ConfirmSucceeded, ConfirmFailed, settle
  <2>3. CASE Edit \/ OpenRealRun \/ Expire \/ LeaseLapses
    BY <2>3 DEF Edit, OpenRealRun, Expire, LeaseLapses
  <2>4. QED
    BY <2>1, <2>2, <2>3 DEF Next
<1>5. QED
  BY <1>0, <1>1, <1>2, <1>3, <1>4 DEF TypesOK

\* What a whole solve returned, and the row that says so, are never written again.
WholeKept ==
    \A n \in DOMAIN CasesOf[kind] :
        ops[solveOf(n)].native =>
            /\ ops'[solveOf(n)] = ops[solveOf(n)]
            /\ measured'[CasesOf[kind][n]] = measured[CasesOf[kind][n]]

\* A write without a measurement makes no solve whole.
LEMMA WriteMeasures ==
  ASSUME TypesOK, MeasuredInv, kind' = kind, measured' = measured, NEW i \in Plan,
         ops[i].status # "SUCCEEDED", NEW row, Writes(i, row),
         row.native = FALSE \/ row.native = ops[i].native
  PROVE  MeasuredInv' /\ WholeKept
<1>1. ASSUME NEW n \in DOMAIN CasesOf[kind]
      PROVE  /\ ops[solveOf(n)].native => ops'[solveOf(n)] = ops[solveOf(n)]
             /\ ops'[solveOf(n)].native => ops[solveOf(n)].native
  <2>1. solveOf(n) \in Plan
    BY PlanFacts DEF TypesOK
  <2>2. CASE solveOf(n) = i
    <3>1. ops[i].native = FALSE
      BY <2>1, <2>2 DEF MeasuredInv, TypesOK, OpsOK
    <3>2. ops'[i].native = FALSE
      BY <3>1 DEF Writes
    <3>3. QED
      BY <2>2, <3>1, <3>2
  <2>3. CASE solveOf(n) # i
    BY <2>1, <2>3 DEF Writes
  <2>4. QED
    BY <2>2, <2>3
<1>2. WholeKept
  BY <1>1 DEF WholeKept
<1>3. MeasuredInv'
  BY <1>1 DEF MeasuredInv, solveOf
<1>4. QED
  BY <1>2, <1>3

\* A call that returns a whole solve returns the one that is measured.
LEMMA ReturnMeasures ==
  ASSUME TypesOK, WalkInv, MeasuredInv, kind' = kind, NEW p \in Processes, Return(p)
  PROVE  MeasuredInv' /\ WholeKept
<1>0. PICK i : i = stepOf(p)
  OBVIOUS
<1>1. i \in Plan /\ ops[i].status = "RUNNING"
  BY <1>0 DEF Return, WalkInv, Placed
<1>2. PICK value \in Answers(i), native \in (IF IsSolve(i) THEN BOOLEAN ELSE {FALSE}) :
         /\ ops' = [ops EXCEPT ![i] = op("SUCCEEDED", value, native)]
         /\ measured' = IF IsSolve(i) THEN [measured EXCEPT ![caseOf(i)] = value] ELSE measured
  BY <1>0 DEF Return
<1>3. native \in BOOLEAN
  OBVIOUS
<1>4. Writes(i, op("SUCCEEDED", value, native))
  BY <1>1, <1>2, <1>3, OneRow DEF TypesOK, Statuses
<1>5. CASE ~IsSolve(i)
  <2>1. op("SUCCEEDED", value, native).native = FALSE
    BY <1>5 DEF op
  <2>2. QED
    BY <1>1, <1>2, <1>4, <1>5, <2>1, WriteMeasures
<1>6. CASE IsSolve(i)
  <2>1. PICK m \in DOMAIN CasesOf[kind] : i = solveOf(m)
    BY <1>1, <1>6, PlanFacts DEF TypesOK
  <2>2. caseOf(i) = CasesOf[kind][m] /\ CasesOf[kind][m] \in Cases
    BY <2>1, PlanFacts DEF TypesOK
  <2>3. value \in Readings[CasesOf[kind][m]]
    <3>1. i # End
      BY <1>6, PlanFacts DEF TypesOK
    <3>2. Answers(i) = Readings[caseOf(i)]
      BY <1>6, <3>1 DEF Answers
    <3>3. QED
      BY <2>2, <3>2
  <2>4. ops'[i] = op("SUCCEEDED", value, native)
    BY <1>4 DEF Writes
  <2>5. /\ measured'[CasesOf[kind][m]] = value
        /\ \A c \in Cases : c # CasesOf[kind][m] => measured'[c] = measured[c]
    BY <1>2, <1>6, <2>2 DEF TypesOK
  <2>6. ops[i].native = FALSE
    BY <1>1, <2>1 DEF MeasuredInv, TypesOK, OpsOK
  <2>7. ASSUME NEW n \in DOMAIN CasesOf[kind], n # m
        PROVE  /\ ops'[solveOf(n)] = ops[solveOf(n)]
               /\ measured'[CasesOf[kind][n]] = measured[CasesOf[kind][n]]
    <3>1. CasesOf[kind][n] # CasesOf[kind][m] /\ CasesOf[kind][n] \in Cases
      BY <2>7, PlanFacts DEF TypesOK
    <3>2. solveOf(n) \in Plan /\ solveOf(n) # i
      BY <2>1, <2>7, PlanFacts DEF TypesOK, solveOf
    <3>3. QED
      BY <1>4, <2>5, <3>1, <3>2 DEF Writes
  <2>8. WholeKept
    BY <2>1, <2>6, <2>7 DEF WholeKept
  <2>9. ASSUME NEW n \in DOMAIN CasesOf[kind], ops'[solveOf(n)].native
        PROVE  /\ ops'[solveOf(n)].status = "SUCCEEDED"
               /\ ops'[solveOf(n)].value = measured'[CasesOf[kind][n]]
               /\ measured'[CasesOf[kind][n]] \in Readings[CasesOf[kind][n]]
    <3>1. CASE n = m
      BY <2>1, <2>3, <2>4, <2>5, <3>1 DEF op
    <3>2. CASE n # m
      BY <2>7, <2>9, <3>2 DEF MeasuredInv
    <3>3. QED
      BY <3>1, <3>2
  <2>10. MeasuredInv'
    BY <2>9 DEF MeasuredInv, solveOf
  <2>11. QED
    BY <2>8, <2>10
<1>7. QED
  BY <1>5, <1>6

\* Every step keeps what was measured.
LEMMA MeasuredStep ==
  ASSUME TypesOK, WalkInv, MeasuredInv, Next
  PROVE  MeasuredInv' /\ WholeKept
<1>0. kind' = kind /\ OpsOK
  BY KindKept DEF TypesOK
<1>1. ops' = ops /\ measured' = measured => MeasuredInv' /\ WholeKept
  BY <1>0 DEF MeasuredInv, WholeKept, solveOf
<1>2. ASSUME NEW p \in Processes, Step(p) \/ Crash(p) PROVE MeasuredInv' /\ WholeKept
  <2>0. Placed(p)
    BY DEF WalkInv
  <2>1. CASE Claim(p)
    <3>1. stepOf(p) \in Plan /\ ops[stepOf(p)] = Absent /\ Writes(stepOf(p), Running)
      BY <1>0, <2>0, <2>1, StepWrites
    <3>2. ops[stepOf(p)].status # "SUCCEEDED" /\ Running.native = FALSE
      BY <3>1 DEF Absent, Running, op
    <3>3. measured' = measured
      BY <2>1 DEF Claim, historyVars
    <3>4. QED
      BY <1>0, <3>1, <3>2, <3>3, WriteMeasures
  <2>2. CASE Return(p)
    BY <1>0, <2>2, ReturnMeasures
  <2>3. CASE Ambiguous(p) \/ Fail(p)
    <3> DEFINE same(status) == op(status, ops[stepOf(p)].value, ops[stepOf(p)].native)
    <3>1. /\ stepOf(p) \in Plan /\ ops[stepOf(p)].status = "RUNNING"
          /\ Writes(stepOf(p), same("UNKNOWN")) \/ Writes(stepOf(p), same("FAILED"))
      BY <1>0, <2>0, <2>3, StepWrites
    <3>2. \A status : same(status).native = ops[stepOf(p)].native
      BY DEF op
    <3>3. measured' = measured
      BY <2>3 DEF Ambiguous, Fail, historyVars
    <3> HIDE DEF same
    <3>4. QED
      BY <1>0, <3>1, <3>2, <3>3, WriteMeasures
  <2>4. QED
    BY <1>1, <1>2, <2>1, <2>2, <2>3, NoWrites DEF Step
<1>3. ASSUME NEW i \in Plan, ConfirmSucceeded(i) \/ ConfirmFailed(i) PROVE MeasuredInv' /\ WholeKept
  <2>1. ops[i].status = "UNKNOWN"
    BY <1>0, <1>3, WordWrites
  <2>2. PICK value : \/ Writes(i, op("SUCCEEDED", value, FALSE))
                     \/ Writes(i, op("FAILED", value, FALSE))
    BY <1>0, <1>3, WordWrites
  <2>3. \A status : op(status, value, FALSE).native = FALSE
    BY DEF op
  <2>4. measured' = measured
    BY <1>3 DEF ConfirmSucceeded, ConfirmFailed, settle, historyVars
  <2>5. QED
    BY <1>0, <2>1, <2>2, <2>3, <2>4, WriteMeasures
<1>4. CASE Edit \/ OpenRealRun \/ Expire \/ LeaseLapses
  BY <1>1, <1>4 DEF Edit, OpenRealRun, Expire, LeaseLapses, storeVars, historyVars
<1>5. QED
  BY <1>2, <1>3, <1>4 DEF Next

-----------------------------------------------------------------------------
(* What the report says, said of the solves.                               *)

\* Q holds the unordered pairs of what stands at the pairs of places P of s, a
\* sequence of length N without repetitions.
Unordered(s, N, P, Q) ==
    /\ N \in Nat /\ \A m, n \in 1..N : s[m] = s[n] => m = n
    /\ P \in SUBSET ((1..N) \X (1..N)) /\ \A p \in P : p[1] < p[2]
    /\ \A t : t \in Q <=> \E p \in P : t = {s[p[1]], s[p[2]]}

\* They are as many.
LEMMA PairsCounted ==
  ASSUME NEW s, NEW N, NEW P, NEW Q, Unordered(s, N, P, Q)
  PROVE  IsFiniteSet(P) /\ Cardinality(Q) = Cardinality(P)
<1> USE DEF Unordered
<1> DEFINE f == [p \in P |-> {s[p[1]], s[p[2]]}]
<1>1. IsFiniteSet(P)
  <2>1. IsFiniteSet(1..N)
    BY FS_Interval
  <2>2. IsFiniteSet((1..N) \X (1..N))
    BY <2>1, FS_Product
  <2>3. QED
    BY <2>2, FS_Subset
<1>2. \A p \in P : f[p] \in Q
  OBVIOUS
<1>3. ASSUME NEW p \in P, NEW q \in P, f[p] = f[q] PROVE p = q
  <2>1. /\ p = <<p[1], p[2]>> /\ p[1] \in 1..N /\ p[2] \in 1..N /\ p[1] < p[2]
        /\ q = <<q[1], q[2]>> /\ q[1] \in 1..N /\ q[2] \in 1..N /\ q[1] < q[2]
    OBVIOUS
  <2>2. {s[p[1]], s[p[2]]} = {s[q[1]], s[q[2]]}
    BY <1>3
  <2>3. \/ s[p[1]] = s[q[1]] /\ s[p[2]] = s[q[2]]
        \/ s[p[1]] = s[q[2]] /\ s[p[2]] = s[q[1]]
    BY <2>2
  <2>4. \/ p[1] = q[1] /\ p[2] = q[2]
        \/ p[1] = q[2] /\ p[2] = q[1]
    BY <2>1, <2>3
  <2>5. QED
    BY <2>1, <2>4
<1>4. \A t \in Q : \E p \in P : f[p] = t
  OBVIOUS
<1>5. f \in Bijection(P, Q)
  <2>1. f \in [P -> Q]
    BY <1>2
  <2> HIDE DEF f
  <2>2. QED
    BY <1>3, <1>4, <2>1, Fun_IsBij
<1>6. ExistsBijection(P, Q)
  BY <1>5 DEF ExistsBijection
<1>7. QED
  BY <1>1, <1>6, FS_Bijection

\* Once every solve is whole, the report is made of what was measured.
LEMMA SolvesAreMeasured ==
  ASSUME TypesOK, MeasuredInv, AllWhole
  PROVE  /\ Measurements = Solved
         /\ \A n \in DOMAIN CasesOf[kind] :
               /\ measured[CasesOf[kind][n]] \in Measurement
               /\ measured[CasesOf[kind][n]] # Nothing
               /\ Predicted[CasesOf[kind][n]] \in Response
<1>1. ASSUME NEW n \in DOMAIN CasesOf[kind]
      PROVE  /\ ops[solveOf(n)].value = measured[CasesOf[kind][n]]
             /\ measured[CasesOf[kind][n]] \in Readings[CasesOf[kind][n]]
             /\ CasesOf[kind][n] \in Cases
  BY PlanFacts DEF AllWhole, MeasuredInv, TypesOK
<1>2. Measurements = Solved
  BY <1>1 DEF Measurements, Solved
<1>3. QED
  BY <1>1, <1>2, CampaignAssumption DEF CampaignAssumption

\* The pairs that the report compares are those that both models tell apart, and
\* the ones on which they do not agree are put in opposite orders.
LEMMA RankingCounted ==
  ASSUME TypesOK, MeasuredInv, AllWhole
  PROVE  /\ IsFiniteSet(Comparable(Solved)) /\ Agreeing(Solved) \subseteq Comparable(Solved)
         /\ Cardinality(Comparable(Solved)) = Cardinality(ToldApart)
         /\ Cardinality(Comparable(Solved) \ Agreeing(Solved)) = Cardinality(Opposed)
<1> DEFINE s == CasesOf[kind]
           N == Len(CasesOf[kind])
           C == Comparable(Solved)
           D == Comparable(Solved) \ Agreeing(Solved)
           pred == [n \in 1..N |-> Predicted[s[n]].worst]
           meas == [n \in 1..N |-> measured[s[n]].worst]
<1>1. /\ N \in Nat /\ DOMAIN s = 1..N /\ \A m, n \in 1..N : s[m] = s[n] => m = n
      /\ CasesMeasured = {s[n] : n \in 1..N}
  BY PlanFacts DEF TypesOK, CasesMeasured
<1>2. \A n \in 1..N : /\ pred[n] = Predicted[s[n]].worst /\ pred[n] \in Int
                      /\ meas[n] = measured[s[n]].worst /\ meas[n] \in Int
  BY <1>1, SolvesAreMeasured DEF Measurement, Response
<1>3. \A p \in (1..N) \X (1..N) :
         /\ surrogateDelta(Solved, p) = pred[p[1]] - pred[p[2]]
         /\ hfssDelta(Solved, p) = meas[p[1]] - meas[p[2]]
  BY <1>1 DEF surrogateDelta, hfssDelta, Solved
<1>4. Pairs(Solved) = {p \in (1..N) \X (1..N) : p[1] < p[2]}
  BY <1>1 DEF Pairs, Solved
<1> HIDE DEF pred, meas, s, N
<1>5. C = {p \in (1..N) \X (1..N) :
             p[1] < p[2] /\ pred[p[1]] # pred[p[2]] /\ meas[p[1]] # meas[p[2]]}
  <2>1. \A p \in (1..N) \X (1..N) :
           /\ surrogateDelta(Solved, p) # 0 <=> pred[p[1]] # pred[p[2]]
           /\ hfssDelta(Solved, p) # 0 <=> meas[p[1]] # meas[p[2]]
    BY <1>2, <1>3
  <2>2. QED
    BY <1>4, <2>1 DEF Comparable
<1>6. D = {p \in C : ~((pred[p[1]] < pred[p[2]]) <=> (meas[p[1]] < meas[p[2]]))}
  <2>1. \A p \in C : /\ surrogateDelta(Solved, p) < 0 <=> pred[p[1]] < pred[p[2]]
                     /\ hfssDelta(Solved, p) < 0 <=> meas[p[1]] < meas[p[2]]
    BY <1>2, <1>3, <1>5
  <2>2. QED
    BY <2>1 DEF Agreeing
<1>7. C \in SUBSET ((1..N) \X (1..N)) /\ (\A p \in C : p[1] < p[2]) /\ D \subseteq C
  BY <1>5
<1> DEFINE unordered(P) == {{s[p[1]], s[p[2]]} : p \in P}
<1>8. ToldApart = unordered(C)
  <2>1. ASSUME NEW t \in ToldApart PROVE t \in unordered(C)
    <3>1. PICK x \in CasesMeasured \X CasesMeasured :
                 /\ Predicted[x[1]].worst < Predicted[x[2]].worst
                 /\ measured[x[1]].worst # measured[x[2]].worst /\ t = {x[1], x[2]}
      BY <2>1 DEF ToldApart
    <3>2. PICK m \in 1..N, n \in 1..N : x[1] = s[m] /\ x[2] = s[n]
      BY <1>1, <3>1
    <3>3. pred[m] < pred[n] /\ meas[m] # meas[n]
      BY <1>2, <3>1, <3>2
    <3>4. m # n
      BY <1>2, <3>3
    <3>5. CASE m < n
      <4>1. <<m, n>> \in C
        BY <1>2, <1>5, <3>3, <3>5
      <4>2. QED
        BY <3>1, <3>2, <4>1
    <3>6. CASE n < m
      <4>1. <<n, m>> \in C
        BY <1>2, <1>5, <3>3, <3>6
      <4>2. t = {s[n], s[m]}
        BY <3>1, <3>2
      <4>3. QED
        BY <4>1, <4>2
    <3>7. QED
      BY <3>4, <3>5, <3>6
  <2>2. ASSUME NEW p \in C PROVE {s[p[1]], s[p[2]]} \in ToldApart
    <3>1. /\ p[1] \in 1..N /\ p[2] \in 1..N
          /\ pred[p[1]] # pred[p[2]] /\ meas[p[1]] # meas[p[2]]
      BY <1>5
    <3>2. s[p[1]] \in CasesMeasured /\ s[p[2]] \in CasesMeasured
      BY <1>1, <3>1
    <3>0. \/ pred[p[1]] < pred[p[2]] /\ meas[p[1]] # meas[p[2]]
          \/ pred[p[2]] < pred[p[1]] /\ meas[p[2]] # meas[p[1]]
      BY <1>2, <3>1
    <3>3. PICK m \in 1..N, n \in 1..N :
             /\ (m = p[1] /\ n = p[2]) \/ (m = p[2] /\ n = p[1])
             /\ pred[m] < pred[n] /\ meas[m] # meas[n]
      BY <3>0, <3>1
    <3>4. /\ <<s[m], s[n]>> \in CasesMeasured \X CasesMeasured
          /\ Predicted[s[m]].worst < Predicted[s[n]].worst
          /\ measured[s[m]].worst # measured[s[n]].worst
      BY <1>2, <3>2, <3>3
    <3>5. {s[m], s[n]} \in ToldApart
      BY <3>4 DEF ToldApart
    <3>6. {s[m], s[n]} = {s[p[1]], s[p[2]]}
      BY <3>3
    <3>7. QED
      BY <3>5, <3>6
  <2>3. QED
    BY <2>1, <2>2
<1>9. Opposed = unordered(D)
  <2>1. ASSUME NEW t \in Opposed PROVE t \in unordered(D)
    <3>1. PICK x \in CasesMeasured \X CasesMeasured :
                 /\ Predicted[x[1]].worst < Predicted[x[2]].worst
                 /\ measured[x[1]].worst > measured[x[2]].worst /\ t = {x[1], x[2]}
      BY <2>1 DEF Opposed
    <3>2. PICK m \in 1..N, n \in 1..N : x[1] = s[m] /\ x[2] = s[n]
      BY <1>1, <3>1
    <3>3. pred[m] < pred[n] /\ meas[m] > meas[n]
      BY <1>2, <3>1, <3>2
    <3>4. m # n
      BY <1>2, <3>3
    <3>5. CASE m < n
      <4>1. <<m, n>> \in D
        BY <1>2, <1>5, <1>6, <3>3, <3>5
      <4>2. QED
        BY <3>1, <3>2, <4>1
    <3>6. CASE n < m
      <4>1. <<n, m>> \in D
        BY <1>2, <1>5, <1>6, <3>3, <3>6
      <4>2. t = {s[n], s[m]}
        BY <3>1, <3>2
      <4>3. QED
        BY <4>1, <4>2
    <3>7. QED
      BY <3>4, <3>5, <3>6
  <2>2. ASSUME NEW p \in D PROVE {s[p[1]], s[p[2]]} \in Opposed
    <3>1. /\ p[1] \in 1..N /\ p[2] \in 1..N
          /\ pred[p[1]] # pred[p[2]] /\ meas[p[1]] # meas[p[2]]
          /\ ~((pred[p[1]] < pred[p[2]]) <=> (meas[p[1]] < meas[p[2]]))
      BY <1>5, <1>6
    <3>2. s[p[1]] \in CasesMeasured /\ s[p[2]] \in CasesMeasured
      BY <1>1, <3>1
    <3>0. \/ pred[p[1]] < pred[p[2]] /\ meas[p[1]] > meas[p[2]]
          \/ pred[p[2]] < pred[p[1]] /\ meas[p[2]] > meas[p[1]]
      BY <1>2, <3>1
    <3>3. PICK m \in 1..N, n \in 1..N :
             /\ (m = p[1] /\ n = p[2]) \/ (m = p[2] /\ n = p[1])
             /\ pred[m] < pred[n] /\ meas[m] > meas[n]
      BY <3>0, <3>1
    <3>4. /\ <<s[m], s[n]>> \in CasesMeasured \X CasesMeasured
          /\ Predicted[s[m]].worst < Predicted[s[n]].worst
          /\ measured[s[m]].worst > measured[s[n]].worst
      BY <1>2, <3>2, <3>3
    <3>5. {s[m], s[n]} \in Opposed
      BY <3>4 DEF Opposed
    <3>6. {s[m], s[n]} = {s[p[1]], s[p[2]]}
      BY <3>3
    <3>7. QED
      BY <3>5, <3>6
  <2>3. QED
    BY <2>1, <2>2
<1>10. /\ IsFiniteSet(C) /\ Cardinality(ToldApart) = Cardinality(C)
       /\ Cardinality(Opposed) = Cardinality(D)
  <2>1. D \in SUBSET ((1..N) \X (1..N)) /\ \A p \in D : p[1] < p[2]
    BY <1>7
  <2>2. /\ \A t : t \in ToldApart <=> \E p \in C : t = {s[p[1]], s[p[2]]}
        /\ \A t : t \in Opposed <=> \E p \in D : t = {s[p[1]], s[p[2]]}
    BY <1>8, <1>9
  <2> HIDE DEF C, D
  <2>3. Unordered(s, N, C, ToldApart)
    BY <1>1, <1>7, <2>2 DEF Unordered
  <2>4. Unordered(s, N, D, Opposed)
    BY <1>1, <2>1, <2>2 DEF Unordered
  <2>5. QED
    BY <2>3, <2>4, PairsCounted
<1>11. QED
  BY <1>10 DEF Agreeing

\* A calibration report that is evidence passes just when the solves calibrate.
LEMMA PassedIsCalibrated ==
  ASSUME TypesOK, MeasuredInv, AllWhole, kind = "calibration", Evident
  PROVE  Report.passed <=> Calibrated
<1> DEFINE required == Policy.minimumAgreement
           c == Cardinality(Comparable(Solved))
           a == Cardinality(Agreeing(Solved))
           o == Cardinality(Opposed)
           reasons == ExpectedReasons(Solved, Policy)
<1>1. Measurements = Solved /\ Report = AssessCalibration(Solved, Policy)
  BY SolvesAreMeasured DEF Report
<1>2. c \in Nat /\ a \in Nat /\ o \in Nat /\ o = c - a
  <2>1. IsFiniteSet(Comparable(Solved)) /\ Agreeing(Solved) \in SUBSET Comparable(Solved)
    BY RankingCounted
  <2>2. IsFiniteSet(Agreeing(Solved))
    BY <2>1, FS_Subset
  <2>3. Comparable(Solved) \cap Agreeing(Solved) = Agreeing(Solved)
    BY <2>1
  <2>4. IsFiniteSet(Comparable(Solved) \ Agreeing(Solved))
    BY <2>1, FS_Difference
  <2>5. Cardinality(Comparable(Solved) \ Agreeing(Solved)) = c - a
    BY <2>1, <2>3, FS_Difference
  <2>6. c \in Nat /\ a \in Nat
    BY <2>1, <2>2, FS_CardinalityType
  <2>7. o = Cardinality(Comparable(Solved) \ Agreeing(Solved)) /\ o \in Nat
    BY <2>4, FS_CardinalityType, RankingCounted
  <2>8. QED
    BY <2>5, <2>6, <2>7
<1>3. c = Cardinality(ToldApart)
  BY RankingCounted
<1>4. Report.pairs = c /\ Report.passed = (Report.reasons = {})
  BY <1>1 DEF AssessCalibration
<1>5. c >= Policy.minimumPairs /\ Report.reasons = reasons
  BY <1>1, <1>4 DEF Evident, IsEvidence
<1>6. Report.passed <=> reasons = {}
  BY <1>4, <1>5
<1>7. reasons = {} <=> /\ ~MeanExceeds(Solved, "complex", Policy.maxComplex)
                       /\ ~MeanExceeds(Solved, "db", Policy.maxDb)
                       /\ ~RankingBelow(Solved, required)
  BY DEF ExpectedReasons
<1>8. Len(Solved) = Cardinality(CasesMeasured)
  <2>1. CasesMeasured = {"baseline", "first", "second"}
    BY DEF CasesMeasured, CasesOf
  <2>2. Cardinality({"baseline", "first", "second"}) = 3
    <3>1. IsFiniteSet({"baseline"}) /\ Cardinality({"baseline"}) = 1
      BY FS_Singleton
    <3>2. /\ IsFiniteSet({"baseline"} \cup {"first"})
          /\ Cardinality({"baseline"} \cup {"first"}) = 2
      BY <3>1, FS_AddElement
    <3>3. Cardinality(({"baseline"} \cup {"first"}) \cup {"second"}) = 3
      BY <3>2, FS_AddElement
    <3>4. ({"baseline"} \cup {"first"}) \cup {"second"} = {"baseline", "first", "second"}
      OBVIOUS
    <3>5. QED
      BY <3>3, <3>4
  <2>3. Len(Solved) = 3
    BY PlanFacts DEF Solved, CasesOf
  <2>4. QED
    BY <2>1, <2>2, <2>3
<1>9. ~RankingBelow(Solved, required)
         <=> o * required.denominator <= (required.denominator - required.numerator) * c
  <2>1. /\ required.denominator \in Nat \ {0} /\ required.numerator \in Nat
        /\ Policy.minimumPairs \in Nat /\ Policy.minimumPairs >= 2
    BY CampaignAssumption DEF CampaignAssumption
  <2>2. Comparable(Solved) # {}
    BY <1>2, <1>5, <2>1, FS_EmptySet
  <2>3. ~RankingBelow(Solved, required)
           <=> ~(a * required.denominator < required.numerator * c)
    BY <2>2 DEF RankingBelow
  <2> HIDE DEF a, c, o, required
  <2>4. \A den, num, x, y \in Int :
           (y - x) * den <= (den - num) * y <=> ~(x * den < num * y)
    <3>1. SUFFICES ASSUME NEW den \in Int, NEW num \in Int, NEW x \in Int, NEW y \in Int
                   PROVE  (y - x) * den <= (den - num) * y <=> ~(x * den < num * y)
      OBVIOUS
    <3>2. (y - x) * den = y * den - x * den /\ (den - num) * y = y * den - num * y
      OBVIOUS
    <3>3. y * den \in Int /\ x * den \in Int /\ num * y \in Int
      OBVIOUS
    <3>4. QED
      BY <3>2, <3>3
  <2>5. QED
    BY <1>2, <2>1, <2>3, <2>4
<1>10. QED
  BY <1>3, <1>5, <1>6, <1>7, <1>8, <1>9 DEF Calibrated, MeanExceeds

\* A diagnostic report passes just when the optimized candidate is measured better.
LEMMA PassedIsObserved ==
  ASSUME TypesOK, MeasuredInv, AllWhole, kind = "diagnostic"
  PROVE  Report.passed = (measured["optimized"].worst < measured["baseline"].worst)
<1>1. Report = DiagnosticReport(Solved)
  BY SolvesAreMeasured DEF Report
<1>2. Solved[1].hfss = measured["baseline"] /\ Solved[2].hfss = measured["optimized"]
  BY PlanFacts DEF Solved, CasesOf
<1>3. QED
  BY <1>1, <1>2 DEF DiagnosticReport, ComparisonMetrics

\* So the verdict of a report that may be committed is what the solves say.
LEMMA VerdictSays ==
  ASSUME TypesOK, MeasuredInv, AllWhole, Evident
  PROVE  /\ \A c \in CasesMeasured : measured[c] # Nothing
         /\ Verdict(Report) \in TerminalStatuses
         /\ Verdict(Report) =
               IF kind = "calibration"
               THEN IF Calibrated THEN "CALIBRATION_PASSED" ELSE "CALIBRATION_FAILED"
               ELSE IF measured["optimized"].worst < measured["baseline"].worst
                    THEN "PHYSICAL_IMPROVEMENT_OBSERVED"
                    ELSE "PHYSICAL_IMPROVEMENT_NOT_OBSERVED"
<1>1. \A c \in CasesMeasured : measured[c] # Nothing
  BY SolvesAreMeasured DEF CasesMeasured
<1>2. CASE kind = "calibration"
  BY <1>1, <1>2, PassedIsCalibrated DEF Verdict, TerminalStatuses
<1>3. CASE kind = "diagnostic"
  BY <1>1, <1>3, PassedIsObserved DEF Verdict, TerminalStatuses
<1>4. QED
  BY <1>2, <1>3 DEF TypesOK

-----------------------------------------------------------------------------
(* The conclusions.                                                        *)

\* Behind started evidence, and behind the end of the plan, every solve is whole.
LEMMA EndIsWhole ==
  ASSUME TypesOK, WalkInv
  PROVE  /\ ops[End] # Absent => AllWhole
         /\ \A p \in Processes : At(p, "on") /\ stepOf(p) \in {End, End + 1} => AllWhole
         /\ \A p \in Processes : At(p, "on") /\ stepOf(p) = End + 1 => ops[End] # Absent
<1>1. (\A j \in Plan : j < End => Through(j)) => AllWhole
  BY PlanFacts DEF TypesOK, AllWhole, Through, HasNativeFiles
<1>2. End \in Plan /\ Plan \subseteq Nat
  BY PlanFacts DEF TypesOK
<1>3. ops[End] # Absent => \A j \in Plan : j < End => Through(j)
  BY <1>2 DEF WalkInv, Behind
<1>4. ASSUME NEW p \in Processes, At(p, "on"), stepOf(p) \in {End, End + 1}
      PROVE  /\ \A j \in Plan : j < End => Through(j)
             /\ stepOf(p) = End + 1 => Through(End)
  BY <1>2, <1>4 DEF WalkInv, Placed
<1>5. Through(End) => ops[End] # Absent
  BY DEF Through, Absent, op
<1>6. QED
  BY <1>1, <1>3, <1>4, <1>5

\* From then on neither the report nor what it is measured by changes.
LEMMA WholeIsFrozen ==
  ASSUME TypesOK, kind' = kind, WholeKept, AllWhole
  PROVE  /\ AllWhole' /\ (Evident' <=> Evident) /\ (Calibrated' <=> Calibrated)
         /\ CasesMeasured' = CasesMeasured
         /\ \A c \in CasesMeasured : measured'[c] = measured[c]
<1>1. /\ \A n \in DOMAIN CasesOf[kind] :
            /\ ops'[solveOf(n)] = ops[solveOf(n)]
            /\ measured'[CasesOf[kind][n]] = measured[CasesOf[kind][n]]
  BY DEF WholeKept, AllWhole
<1>2. AllWhole'
  BY <1>1 DEF AllWhole, solveOf
<1>3. Measurements' = Measurements
  BY <1>1 DEF Measurements, solveOf
<1>4. Solved' = Solved
  BY <1>1 DEF Solved
<1>5. Evident' <=> Evident
  BY <1>3 DEF Evident, Report
<1>6. CasesMeasured' = CasesMeasured /\ \A c \in CasesMeasured : measured'[c] = measured[c]
  BY <1>1 DEF CasesMeasured
<1>7. ToldApart' = ToldApart
  <2>1. \A y \in CasesMeasured \X CasesMeasured :
           measured'[y[1]] = measured[y[1]] /\ measured'[y[2]] = measured[y[2]]
    BY <1>6
  <2>2. QED
    BY <1>6, <2>1 DEF ToldApart
<1>8. Opposed' = Opposed
  <2>1. \A y \in CasesMeasured \X CasesMeasured :
           measured'[y[1]] = measured[y[1]] /\ measured'[y[2]] = measured[y[2]]
    BY <1>6
  <2>2. QED
    BY <1>6, <2>1 DEF Opposed
<1>9. Calibrated' <=> Calibrated
  BY <1>4, <1>6, <1>7, <1>8 DEF Calibrated
<1>10. QED
  BY <1>2, <1>5, <1>6, <1>9

\* A process completes the Run, at the end of the plan.
Completes(p) ==
    /\ At(p, "on") /\ stepOf(p) = End + 1
    /\ run' = "COMPLETED" /\ verdict' = Verdict(Report)

\* Nothing else brings a Run to COMPLETED, or away from it.
LEMMA RunStep ==
  ASSUME Next
  PROVE  \/ \E p \in Processes : Completes(p) /\ run = "ACTIVE"
         \/ verdict' = verdict /\ (run' = "COMPLETED" <=> run = "COMPLETED")
<1> USE DEF storeVars
<1>1. ASSUME NEW p \in Processes, Step(p) \/ Crash(p)
      PROVE  \/ Completes(p) /\ run = "ACTIVE"
             \/ verdict' = verdict /\ (run' = "COMPLETED" <=> run = "COMPLETED")
  <2>1. CASE CheckManifest(p) \/ Fingerprint(p) \/ Compose(p) \/ Enter(p) \/ StayOut(p)
    BY <2>1 DEF CheckManifest, Fingerprint, Compose, Enter, StayOut
  <2>2. CASE Claim(p) \/ Reuse(p) \/ Refuse(p) \/ Return(p)
    BY <2>2 DEF Claim, Reuse, Refuse, Return
  <2>3. CASE Ambiguous(p) \/ Fail(p) \/ Crash(p)
    BY <2>3 DEF Ambiguous, Fail, Crash
  <2>4. CASE Commit(p)
    BY <2>4 DEF Commit, Completes
  <2>5. QED
    BY <1>1, <2>1, <2>2, <2>3, <2>4 DEF Step
<1>2. ASSUME NEW i \in Plan, ConfirmSucceeded(i) \/ ConfirmFailed(i)
      PROVE  verdict' = verdict /\ (run' = "COMPLETED" <=> run = "COMPLETED")
  BY <1>2 DEF ConfirmSucceeded, ConfirmFailed, settle
<1>3. CASE Edit \/ OpenRealRun \/ Expire \/ LeaseLapses
  BY <1>3 DEF Edit, OpenRealRun, Expire, LeaseLapses
<1>4. QED
  BY <1>1, <1>2, <1>3 DEF Next

\* A real Run is opened by OpenRealRun only.
LEMMA OpenedStep ==
  ASSUME Next
  PROVE  opened' = opened \/ OpenRealRun
<1> USE DEF worldVars
<1>1. ASSUME NEW p \in Processes, Step(p) \/ Crash(p) PROVE opened' = opened
  <2>1. CASE CheckManifest(p) \/ Fingerprint(p) \/ Compose(p) \/ Enter(p) \/ StayOut(p)
    BY <2>1 DEF CheckManifest, Fingerprint, Compose, Enter, StayOut
  <2>2. CASE Claim(p) \/ Reuse(p) \/ Refuse(p) \/ Return(p)
    BY <2>2 DEF Claim, Reuse, Refuse, Return
  <2>3. CASE Ambiguous(p) \/ Fail(p) \/ Commit(p) \/ Crash(p)
    BY <2>3 DEF Ambiguous, Fail, Commit, Crash
  <2>4. QED
    BY <1>1, <2>1, <2>2, <2>3 DEF Step
<1>2. ASSUME NEW i \in Plan, ConfirmSucceeded(i) \/ ConfirmFailed(i) PROVE opened' = opened
  BY <1>2 DEF ConfirmSucceeded, ConfirmFailed, settle
<1>3. CASE Edit \/ Expire \/ LeaseLapses
  BY <1>3 DEF Edit, Expire, LeaseLapses
<1>4. QED
  BY <1>1, <1>2, <1>3 DEF Next

\* Evidence is started only when it is evident.
LEMMA EvidenceStep ==
  ASSUME TypesOK, WalkInv, MeasuredInv, ops[End] # Absent => Evident, Next
  PROVE  (ops[End] # Absent => Evident)'
<1>0. kind' = kind /\ End' = End /\ End \in Plan /\ OpsOK /\ WholeKept
  BY KindKept, PlanFacts, MeasuredStep DEF TypesOK, End, Length
<1>1. CASE ops[End] # Absent
  BY <1>0, <1>1, EndIsWhole, WholeIsFrozen
<1>2. CASE ops[End] = Absent /\ \E p \in Processes : Claim(p) /\ stepOf(p) = End
  <2>1. PICK p \in Processes : Claim(p) /\ stepOf(p) = End
    BY <1>2
  <2>2. At(p, "on") /\ Evident
    BY <2>1 DEF Claim, Reaching
  <2>3. QED
    BY <1>0, <2>1, <2>2, EndIsWhole, WholeIsFrozen
<1>3. CASE ops[End] = Absent /\ ~ \E p \in Processes : Claim(p) /\ stepOf(p) = End
  <2>1. ASSUME NEW i \in Plan, NEW row, Writes(i, row), i # End PROVE ops'[End] = ops[End]
    BY <1>0, <2>1 DEF Writes
  <2>2. ops[End].status = "none"
    BY <1>3 DEF Absent, op
  <2>3. ASSUME NEW p \in Processes, Step(p) \/ Crash(p) PROVE ops'[End] = ops[End]
    <3>1. ops' = ops \/ \E i \in Plan : \E row : Writes(i, row) /\ i # End
      <4>0. Placed(p)
        BY DEF WalkInv
      <4>1. CASE Claim(p)
        BY <1>0, <1>3, <4>0, <4>1, StepWrites
      <4>2. CASE Return(p) \/ Ambiguous(p) \/ Fail(p)
        BY <1>0, <2>2, <4>0, <4>2, StepWrites
      <4>3. QED
        BY <2>3, <4>1, <4>2, NoWrites DEF Step
    <3>2. QED
      BY <2>1, <3>1
  <2>4. ASSUME NEW i \in Plan, ConfirmSucceeded(i) \/ ConfirmFailed(i)
        PROVE  ops'[End] = ops[End]
    BY <1>0, <2>1, <2>2, <2>4, WordWrites
  <2>5. ASSUME Edit \/ OpenRealRun \/ Expire \/ LeaseLapses PROVE ops'[End] = ops[End]
    BY <2>5 DEF Edit, OpenRealRun, Expire, LeaseLapses, storeVars
  <2>6. ops'[End] = Absent
    BY <1>3, <2>3, <2>4, <2>5 DEF Next
  <2>7. QED
    BY <1>0, <2>6 DEF Absent
<1>4. QED
  BY <1>1, <1>2, <1>3

\* Every step keeps the conclusions.
LEMMA ConclusionStep ==
  ASSUME TypesOK, WalkInv, MeasuredInv, ConclusionInv, Next
  PROVE  ConclusionInv'
<1>0. kind' = kind /\ WholeKept
  BY KindKept, MeasuredStep
<1>1. (ops[End] # Absent => Evident)'
  BY EvidenceStep DEF ConclusionInv
<1>2. ASSUME AllWhole
      PROVE  /\ AllWhole' /\ (Calibrated' <=> Calibrated)
             /\ CasesMeasured' = CasesMeasured
             /\ \A c \in CasesMeasured : measured'[c] = measured[c]
  BY <1>0, <1>2, WholeIsFrozen
<1>3. /\ run' = "COMPLETED" => AllWhole'
      /\ run' = "COMPLETED" <=> verdict' # Nothing
      /\ VerdictIsMeasured'
  <2>1. CASE \E p \in Processes : Completes(p) /\ run = "ACTIVE"
    <3>1. PICK p \in Processes : Completes(p)
      BY <2>1
    <3>2. AllWhole /\ Evident
      BY <3>1, EndIsWhole DEF Completes, ConclusionInv
    <3>3. /\ \A c \in CasesMeasured : measured[c] # Nothing
          /\ verdict' = IF kind = "calibration"
               THEN IF Calibrated THEN "CALIBRATION_PASSED" ELSE "CALIBRATION_FAILED"
               ELSE IF measured["optimized"].worst < measured["baseline"].worst
                    THEN "PHYSICAL_IMPROVEMENT_OBSERVED"
                    ELSE "PHYSICAL_IMPROVEMENT_NOT_OBSERVED"
          /\ verdict' # Nothing
      BY <3>1, <3>2, VerdictSays, CampaignAssumption DEF Completes, CampaignAssumption
    <3>4. kind = "diagnostic" => "optimized" \in CasesMeasured /\ "baseline" \in CasesMeasured
      BY DEF CasesMeasured, CasesOf
    <3>5. QED
      BY <1>0, <1>2, <3>1, <3>2, <3>3, <3>4 DEF Completes, VerdictIsMeasured, AllWhole, TypesOK
  <2>2. CASE verdict' = verdict /\ (run' = "COMPLETED" <=> run = "COMPLETED")
    <3>1. kind = "diagnostic" => "optimized" \in CasesMeasured /\ "baseline" \in CasesMeasured
      BY DEF CasesMeasured, CasesOf
    <3>2. run = "COMPLETED" => AllWhole
      BY DEF ConclusionInv
    <3>3. VerdictIsMeasured'
      BY <1>0, <1>2, <2>2, <3>1, <3>2 DEF ConclusionInv, VerdictIsMeasured, AllWhole, TypesOK
    <3>4. QED
      BY <1>2, <2>2, <3>2, <3>3 DEF ConclusionInv
  <2>3. QED
    BY <2>1, <2>2, RunStep
<1>4. (opened => kind = "calibration" /\ AllWhole)' /\ OnlyCalibratedOpens'
  <2>1. CASE opened' = opened
    BY <1>0, <1>2, <2>1 DEF ConclusionInv, OnlyCalibratedOpens
  <2>2. CASE OpenRealRun
    <3>1. kind = "calibration" /\ ops[End] # Absent /\ Evident /\ Report.passed
      BY <2>2 DEF OpenRealRun, PassingEvidence, Reproducible, Absent, op
    <3>2. AllWhole
      BY <3>1, EndIsWhole
    <3>3. Calibrated /\ \A c \in CasesMeasured : measured[c] # Nothing
      BY <3>1, <3>2, PassedIsCalibrated, VerdictSays
    <3>4. QED
      BY <1>0, <1>2, <3>1, <3>2, <3>3 DEF OnlyCalibratedOpens
  <2>3. QED
    BY <2>1, <2>2, OpenedStep
<1>5. QED
  BY <1>1, <1>3, <1>4 DEF ConclusionInv

-----------------------------------------------------------------------------
(* The theorems.                                                           *)

\* Initially nothing is started, concluded or opened.
LEMMA CampaignInit == Init => CampaignIInv
<1> SUFFICES ASSUME Init PROVE CampaignIInv
  OBVIOUS
<1> USE DEF Init
<1>1. kind \in {"calibration", "diagnostic"} /\ ops = [i \in Plan |-> Absent]
  BY DEF Plan
<1>2. End \in Plan /\ \A n \in DOMAIN CasesOf[kind] : solveOf(n) \in Plan
  BY <1>1, PlanFacts
<1>3. \A i \in Plan : ops[i] = Absent /\ ops[i].status = "none" /\ ops[i].native = FALSE
  <2>1. Absent.status = "none" /\ Absent.native = FALSE
    BY DEF Absent, op
  <2>2. QED
    BY <1>1, <2>1
<1>4. \A p \in Processes : process[p] = outside /\ process[p].at = "outside"
  <2>1. outside.at = "outside"
    BY DEF outside
  <2>2. QED
    BY <2>1
<1>5. TypesOK
  <2>1. ProcessOK
    BY DEF ProcessOK, outside, Places
  <2>2. OpsOK
    <3>1. Absent = op(Absent.status, Absent.value, Absent.native)
      BY DEF Absent, op
    <3>2. \A i \in Plan : ops[i] = op(ops[i].status, ops[i].value, ops[i].native)
      BY <1>3, <3>1
    <3>3. QED
      BY <1>1, <1>3, <3>2 DEF OpsOK, Statuses
  <2>3. QED
    BY <1>1, <2>1, <2>2 DEF TypesOK
<1>6. HoldInv
  BY <1>3, <1>4 DEF HoldInv
<1>7. WalkInv
  BY <1>3, <1>4 DEF WalkInv, Behind, Placed, At, Calling
<1>8. MeasuredInv
  BY <1>2, <1>3 DEF MeasuredInv
<1>9. ConclusionInv
  <2>1. run # "COMPLETED" /\ verdict = Nothing /\ ~opened /\ ops[End] = Absent
    BY <1>2, <1>3
  <2>2. VerdictIsMeasured /\ OnlyCalibratedOpens
    BY <2>1 DEF VerdictIsMeasured, OnlyCalibratedOpens
  <2>3. QED
    BY <2>1, <2>2 DEF ConclusionInv
<1>10. WindowInv
  BY <1>4 DEF WindowInv, DriftOnlyInWindow, At
<1>11. QED
  BY <1>5, <1>6, <1>7, <1>8, <1>9, <1>10 DEF CampaignIInv

\* Every step keeps the invariant.
LEMMA CampaignInduction == CampaignIInv /\ [Next]_vars => CampaignIInv'
<1> SUFFICES ASSUME CampaignIInv, [Next]_vars PROVE CampaignIInv'
  OBVIOUS
<1>1. CASE Next
  <2> USE DEF CampaignIInv
  <2>1. TypesOK' /\ HoldInv' /\ WalkInv' /\ MeasuredInv' /\ ConclusionInv'
    <3>1. TypesOK'
      BY <1>1, TypesStep
    <3>2. HoldInv' /\ WalkInv'
      BY <1>1, HoldStep, WalkStep
    <3>3. MeasuredInv' /\ ConclusionInv'
      BY <1>1, MeasuredStep, ConclusionStep
    <3>4. QED
      BY <3>1, <3>2, <3>3
  <2>2. WindowInv'
    BY <1>1, WindowStep DEF CampaignIInv, TypesOK
  <2>3. QED
    BY <2>1, <2>2 DEF CampaignIInv
<1>2. CASE UNCHANGED vars
  <2> USE <1>2 DEF vars, storeVars, worldVars, historyVars
  <2>1. TypesOK'
    BY DEF CampaignIInv, TypesOK, ProcessOK, OpsOK, Plan, Length
  <2>2. HoldInv'
    BY DEF CampaignIInv, HoldInv, Plan, Length, Absent
  <2>3. WalkInv'
    BY WorldWalk DEF CampaignIInv, TypesOK, ProcessOK
  <2>4. MeasuredInv'
    BY DEF CampaignIInv, MeasuredInv, solveOf
  <2>5. ConclusionInv'
    <3>1. (AllWhole' <=> AllWhole) /\ (ops[End] # Absent)' = (ops[End] # Absent)
      BY DEF AllWhole, solveOf, End, Length, Absent
    <3>2. Evident' <=> Evident
      BY DEF Evident, Report, Measurements, solveOf
    <3>3. CasesMeasured' = CasesMeasured /\ Solved' = Solved
      BY DEF CasesMeasured, Solved
    <3>4. ToldApart' = ToldApart /\ Opposed' = Opposed
      BY <3>3 DEF ToldApart, Opposed
    <3>5. Calibrated' <=> Calibrated
      BY <3>3, <3>4 DEF Calibrated
    <3>6. VerdictIsMeasured' /\ OnlyCalibratedOpens'
      BY <3>3, <3>5 DEF CampaignIInv, ConclusionInv, VerdictIsMeasured, OnlyCalibratedOpens,
                        solveOf
    <3>7. QED
      BY <3>1, <3>2, <3>6 DEF CampaignIInv, ConclusionInv
  <2>6. WindowInv'
    BY DEF CampaignIInv, WindowInv, DriftOnlyInWindow, At
  <2>7. QED
    BY <2>1, <2>2, <2>3, <2>4, <2>5, <2>6 DEF CampaignIInv
<1>3. QED
  BY <1>1, <1>2

\* A campaign walks through its plan from its start, whoever walks: for any
\* processes, any readings and any number of losses, lapses and edits.
THEOREM CampaignTheorem == CampaignSpec => []CampaignInv
<1>1. CampaignIInv => CampaignInv
  <2> SUFFICES ASSUME CampaignIInv PROVE CampaignInv
    OBVIOUS
  <2>1. kind \in DOMAIN CasesOf
    BY DEF CampaignIInv, TypesOK, CasesOf
  <2>2. DOMAIN ops = Plan /\ \A i \in Plan : ops[i].status \in Statuses
    BY DEF CampaignIInv, TypesOK, OpsOK
  <2>3. \A i, j \in Plan : j < i /\ ops[i] # Absent => ops[j].status = "SUCCEEDED"
    BY DEF CampaignIInv, WalkInv, Behind, Through
  <2>4. /\ \A p, q \in Processes : Calling(p) /\ Calling(q) => p = q
        /\ \A p \in Processes : Calling(p) => ops[stepOf(p)].status = "RUNNING"
    BY DEF CampaignIInv, WalkInv, Placed
  <2>5. run = "COMPLETED" <=> verdict # Nothing
    BY DEF CampaignIInv, ConclusionInv
  <2>6. /\ approved \in BOOLEAN /\ expired \in BOOLEAN /\ opened \in BOOLEAN
        /\ run \in {"none", "ACTIVE", "WAITING_RECONCILIATION", "COMPLETED"}
        /\ owner \in Processes \cup {Nobody} /\ lapsed \in BOOLEAN
        /\ lapsed => owner # Nobody
        /\ owner # Nobody => run = "ACTIVE"
        /\ \A i \in Plan : ops[i].status = "UNKNOWN" => run = "WAITING_RECONCILIATION"
    BY DEF CampaignIInv, TypesOK, HoldInv
  <2>7. QED
    BY <2>1, <2>2, <2>3, <2>4, <2>5, <2>6 DEF CampaignInv, Statuses
<1>2. QED
  BY <1>1, CampaignInit, CampaignInduction, PTL DEF CampaignSpec

\* The verdict of a completed campaign is what its own whole solves say, under any
\* policy the code accepts.
THEOREM VerdictTheorem == CampaignSpec => []VerdictIsMeasured
<1>1. CampaignIInv => VerdictIsMeasured
  BY DEF CampaignIInv, ConclusionInv
<1>2. QED
  BY <1>1, CampaignInit, CampaignInduction, PTL DEF CampaignSpec

\* A real Run is opened only by solves that calibrate the surrogate, whether or
\* not the campaign was completed.
THEOREM OpeningTheorem == CampaignSpec => []OnlyCalibratedOpens
<1>1. CampaignIInv => OnlyCalibratedOpens
  BY DEF CampaignIInv, ConclusionInv
<1>2. QED
  BY <1>1, CampaignInit, CampaignInduction, PTL DEF CampaignSpec

\* Only a change between the fingerprint and the attestation brings a solve to
\* another builder, however many changes and processes there are.
THEOREM WindowTheorem == CampaignSpec => []DriftOnlyInWindow
<1>1. CampaignIInv => DriftOnlyInWindow
  BY DEF CampaignIInv, WindowInv
<1>2. QED
  BY <1>1, CampaignInit, CampaignInduction, PTL DEF CampaignSpec
=============================================================================
