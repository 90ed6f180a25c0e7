------------------------------ MODULE Campaign ------------------------------
(***************************************************************************)
(* The two physical campaigns: three solves that calibrate the surrogate,  *)
(* and two that compare a frozen recommendation with the baseline          *)
(* (evaluation/*_campaign.py), behind their authorization gates            *)
(* (harness/*_safety.py), and the readiness gate of a real Run, which asks *)
(* for passing calibration evidence.                                       *)
(*                                                                         *)
(* A campaign is a plan of operations, one after the other.  Processes     *)
(* (RUN_HFSS_CALIBRATION.py, RUN_HFSS_OPTIMIZATION_DIAGNOSTIC.py) walk     *)
(* through it from the start, reuse the receipts they find, and may be     *)
(* lost or overtaken.  The operations that only record a candidate are     *)
(* left out; everything a manifest binds in the repository is either as it *)
(* was when the manifest was issued, or not.                               *)
(***************************************************************************)
EXTENDS Evaluation, TLC

CONSTANTS Processes, Nobody, Nothing,
          Predicted,   \* [Cases -> the surrogate's response, a function of the candidate]
          Readings,    \* [Cases -> what a solve of it may measure]
          Policy,      \* the approved CalibrationPolicy
          MaxEvents    \* bound: changes of the repository, lost processes, lapses

Cases  == {"baseline", "first", "second", "optimized"}

\* A diagnostic plan is made only of a recommendation that predicts both gains.
Recommended ==
    LET predicted == ComparisonMetrics(Predicted["baseline"], Predicted["optimized"])
    IN  predicted.worstImproved /\ predicted.powerImproved

\* A response as a model predicts it, and as a solve measures it: with its errors.
Response    == [worst : Int, power : Int]
Measurement == [worst : Int, power : Int, complex : Int, db : Int]

TerminalStatuses == {"CALIBRATION_PASSED", "CALIBRATION_FAILED",
                     "PHYSICAL_IMPROVEMENT_OBSERVED", "PHYSICAL_IMPROVEMENT_NOT_OBSERVED"}

\* The agreement a policy asks for is any ratio between 0 and 1.
ASSUME CampaignAssumption ==
    /\ MaxEvents \in Nat
    /\ Nobody \notin Processes
    /\ Nothing \notin TerminalStatuses
    /\ \A c \in Cases : /\ Predicted[c] \in Response
                        /\ \A r \in Readings[c] : r \in Measurement /\ r # Nothing
    /\ Recommended
    /\ Policy.maxComplex \in Nat /\ Policy.maxDb \in Nat
    /\ Policy.minimumCases \in Nat /\ Policy.minimumCases >= 3
    /\ Policy.minimumPairs \in Nat /\ Policy.minimumPairs >= 2
    /\ Policy.minimumAgreement.numerator \in 0..Policy.minimumAgreement.denominator
    /\ Policy.minimumAgreement.denominator \in Nat \ {0}

VARIABLES
    kind,        \* which campaign it is
    approved,    \* the repository is as the manifest says
    expired,     \* the manifest, and with it its two grants
    run,         \* status of the Run
    owner,       \* of its invocation
    lapsed,      \* the owner's lease ran out
    ops,         \* [Plan -> the durable operation]
    verdict,     \* terminal status and evidence of the completed Run
    process,     \* [Processes -> where it is]
    opened,      \* a real Run was authorized on the calibration evidence
    measured,    \* history: [Cases -> what a solve of this campaign returned]
    drifted,     \* history: of the solves on another builder, whether it slipped in
    events

storeVars   == <<run, owner, lapsed, ops, verdict>>
worldVars   == <<kind, approved, expired, opened, events>>
historyVars == <<measured, drifted>>
vars == <<storeVars, worldVars, historyVars, process>>

CasesOf == [calibration |-> <<"baseline", "first", "second">>,
            diagnostic  |-> <<"baseline", "optimized">>]

\* Two operations for each case, and the evidence.
Length(k)  == 2 * Len(CasesOf[k]) + 1
Plan       == 1..Length(kind)
End        == Length(kind)
IsSolve(i) == i % 2 = 0
caseOf(i)  == CasesOf[kind][(i + 1) \div 2]
solveOf(n) == 2 * n

op(status, value, native) == [status |-> status, value |-> value, native |-> native]
Absent  == op("none", Nothing, FALSE)
Running == op("RUNNING", Nothing, FALSE)
Unresolved == {i \in Plan : ops[i].status \in {"RUNNING", "UNKNOWN"}}

outside == [at |-> "outside", step |-> 0, builder |-> TRUE, slipped |-> FALSE]

Init ==
    /\ kind \in {"calibration", "diagnostic"}
    /\ approved = TRUE /\ expired = FALSE
    /\ run = "none" /\ owner = Nobody /\ lapsed = FALSE
    /\ ops = [i \in 1..Length(kind) |-> Absent]
    /\ verdict = Nothing
    /\ process = [p \in Processes |-> outside]
    /\ opened = FALSE
    /\ measured = [c \in Cases |-> Nothing] /\ drifted = {}
    /\ events = 0

At(p, where)     == process[p].at = where
move(p, where)   == process' = [process EXCEPT ![p].at = where]

-----------------------------------------------------------------------------
(* The gate of a campaign.  It reads the repository several times.         *)

\* The manifest is live, and the working tree is clean and at its revision.
CheckManifest(p) ==
    /\ At(p, "outside")
    /\ ~expired /\ approved
    /\ move(p, "authorizing")
    /\ UNCHANGED <<storeVars, worldVars, historyVars>>

\* Bug: the fingerprints of the providers are not compared.
TrustManifest(p) ==
    /\ At(p, "authorizing")
    /\ move(p, "authorized")
    /\ UNCHANGED <<storeVars, worldVars, historyVars>>

\* The authority files and the providers are those of the manifest.
Fingerprint(p) ==
    /\ At(p, "authorizing")
    /\ IF approved THEN move(p, "authorized") ELSE process' = [process EXCEPT ![p] = outside]
    /\ UNCHANGED <<storeVars, worldVars, historyVars>>

\* The Run is registered with its grants and the solver is put together.
\* compose_pyaedt_hfss attests whatever builder it finds.
Compose(p) ==
    /\ At(p, "authorized")
    /\ run' = IF run = "none" THEN "ACTIVE" ELSE run
    /\ process' = [process EXCEPT ![p].at = "composed", ![p].builder = approved,
                                  ![p].slipped = @ /\ ~approved]
    /\ UNCHANGED <<owner, lapsed, ops, verdict, worldVars, historyVars>>

-----------------------------------------------------------------------------
(* The invocation, and the operations one after the other.                 *)

\* Bug: the lease of a lost owner never runs out.
EnterUnowned(p) ==
    /\ At(p, "composed")
    /\ run = "ACTIVE" => owner = Nobody
    /\ process' = [process EXCEPT ![p].at = "on", ![p].step = 1]
    /\ owner' = IF run = "ACTIVE" THEN p ELSE owner
    /\ UNCHANGED <<run, lapsed, ops, verdict, worldVars, historyVars>>

\* A Run that is not ACTIVE gives a TERMINAL claim, which the campaign does not
\* look at: it goes on without an invocation of its own.
Enter(p) ==
    /\ At(p, "composed")
    /\ run = "ACTIVE" => owner = Nobody \/ lapsed
    /\ process' = [process EXCEPT ![p].at = "on", ![p].step = 1]
    /\ IF run = "ACTIVE" THEN owner' = p /\ lapsed' = FALSE ELSE UNCHANGED <<owner, lapsed>>
    /\ UNCHANGED <<run, ops, verdict, worldVars, historyVars>>

leave(p) ==
    /\ process' = [process EXCEPT ![p] = outside]
    /\ owner' = IF owner = p THEN Nobody ELSE owner
    /\ lapsed' = (lapsed /\ owner # p)

\* The wait for another invocation times out.
StayOut(p) ==
    /\ At(p, "composed")
    /\ run = "ACTIVE" /\ owner # Nobody /\ ~lapsed
    /\ process' = [process EXCEPT ![p] = outside]
    /\ UNCHANGED <<storeVars, worldVars, historyVars>>

\* acquire_operation and save_checkpoint compare the fence while there is one.
Admitted(p)  == owner \in {Nobody, p}
Reaching(p)  == At(p, "on") /\ process[p].step \in Plan
stepOf(p)    == process[p].step

\* The three or two pairs of results, once their solves are through.
Measurements ==
    [n \in DOMAIN CasesOf[kind] |->
        [surrogate |-> Predicted[CasesOf[kind][n]],
         hfss      |-> ops[solveOf(n)].value]]

Report == IF kind = "calibration" THEN AssessCalibration(Measurements, Policy)
                                  ELSE DiagnosticReport(Measurements)

Evident == kind = "calibration" => IsEvidence(Report, Measurements, Policy)

\* A new operation.  The evidence is made before its operation is asked for,
\* and a solve needs its grant; the budget pays for every plan.
Claim(p) ==
    LET i == stepOf(p)
    IN  /\ Reaching(p)
        /\ ops[i] = Absent
        /\ Admitted(p) /\ run = "ACTIVE"
        /\ IsSolve(i) => ~expired
        /\ i = End => Evident
        /\ ops' = [ops EXCEPT ![i] = Running]
        /\ move(p, "calling")
        /\ UNCHANGED <<run, owner, lapsed, verdict, worldVars, historyVars>>

\* Exactly one project and one Touchstone file are among its frozen files.
HasNativeFiles(i, o) == IsSolve(i) => o.native

\* A receipt: verified, decoded, and used instead of a second call.
Reuse(p) ==
    LET i == stepOf(p)
    IN  /\ Reaching(p)
        /\ Admitted(p)
        /\ ops[i].status = "SUCCEEDED"
        /\ i = End => Evident
        /\ HasNativeFiles(i, ops[i])
        /\ process' = [process EXCEPT ![p].step = i + 1]
        /\ UNCHANGED <<storeVars, worldVars, historyVars>>

\* Everything else raises, and so does a wait for a RUNNING operation that takes
\* too long.
Refuse(p) ==
    LET i == stepOf(p)
    IN  /\ Reaching(p)
        /\ \/ ~Admitted(p)
           \/ i = End /\ ~Evident
           \/ ops[i].status \in {"RUNNING", "FAILED", "UNKNOWN"}
           \/ ops[i].status = "SUCCEEDED" /\ ~HasNativeFiles(i, ops[i])
           \/ ops[i] = Absent /\ (run # "ACTIVE" \/ (IsSolve(i) /\ expired))
        /\ leave(p)
        /\ UNCHANGED <<run, ops, verdict, worldVars, historyVars>>

Calling(p) == At(p, "calling")

\* The provider's answer with its files, frozen and committed.
Answers(i) == CASE IsSolve(i) -> Readings[caseOf(i)]
                [] i = End    -> {Report}
                [] OTHER      -> {Nothing}

Return(p) ==
    LET i == stepOf(p)
    IN  /\ Calling(p)
        /\ \E value \in Answers(i), native \in (IF IsSolve(i) THEN BOOLEAN ELSE {FALSE}) :
            LET answer == op("SUCCEEDED", value, native)
            IN  /\ ops' = [ops EXCEPT ![i] = answer]
                /\ measured' = IF IsSolve(i) THEN [measured EXCEPT ![caseOf(i)] = value]
                               ELSE measured
                /\ IF HasNativeFiles(i, answer)
                   THEN /\ process' = [process EXCEPT ![p].at = "on", ![p].step = i + 1]
                        /\ UNCHANGED <<owner, lapsed>>
                   ELSE leave(p)
        /\ drifted' = IF IsSolve(i) /\ ~process[p].builder
                      THEN drifted \cup {process[p].slipped} ELSE drifted
        /\ UNCHANGED <<run, verdict, worldVars>>

\* Bug: an unknown outcome does not hold the Run.
RecordUnknown(p) ==
    /\ Calling(p)
    /\ ops' = [ops EXCEPT ![stepOf(p)].status = "UNKNOWN"]
    /\ leave(p)
    /\ UNCHANGED <<run, verdict, worldVars, historyVars>>

\* A solve that is not a confirmed success, or any answer whose files cannot be
\* frozen: the outcome is unknown and the Run is held.
Ambiguous(p) ==
    /\ Calling(p)
    /\ ops' = [ops EXCEPT ![stepOf(p)].status = "UNKNOWN"]
    /\ run' = IF run = "ACTIVE" THEN "WAITING_RECONCILIATION" ELSE run
    /\ owner' = IF run = "ACTIVE" THEN Nobody ELSE owner
    /\ lapsed' = (lapsed /\ owner' # Nobody)
    /\ process' = [process EXCEPT ![p] = outside]
    /\ UNCHANGED <<verdict, worldVars, historyVars>>

\* The surrogate raises; a solve never fails this way.
Fail(p) ==
    /\ Calling(p)
    /\ stepOf(p) # End /\ ~IsSolve(stepOf(p))
    /\ ops' = [ops EXCEPT ![stepOf(p)].status = "FAILED"]
    /\ leave(p)
    /\ UNCHANGED <<run, verdict, worldVars, historyVars>>

Verdict(report) ==
    CASE kind = "calibration" ->
             IF report.passed THEN "CALIBRATION_PASSED" ELSE "CALIBRATION_FAILED"
      [] OTHER -> IF report.passed THEN "PHYSICAL_IMPROVEMENT_OBSERVED"
                  ELSE "PHYSICAL_IMPROVEMENT_NOT_OBSERVED"

\* The terminal checkpoint, on the report of this invocation.
Commit(p) ==
    /\ At(p, "on") /\ stepOf(p) = End + 1
    /\ IF Admitted(p) /\ run = "ACTIVE" /\ Unresolved = {}
       THEN /\ run' = "COMPLETED"
            /\ verdict' = Verdict(Report)
            /\ process' = [process EXCEPT ![p] = outside]
            /\ owner' = Nobody /\ lapsed' = FALSE
       ELSE leave(p) /\ UNCHANGED <<run, verdict>>
    /\ UNCHANGED <<ops, worldVars, historyVars>>

-----------------------------------------------------------------------------
(* The operator's adjudication of an unknown outcome.                      *)

settle(i, outcome) ==
    /\ ~expired
    /\ ops[i].status = "UNKNOWN"
    /\ ops' = [ops EXCEPT ![i] = outcome]
    /\ run' = IF run = "WAITING_RECONCILIATION" /\ Unresolved = {i} THEN "ACTIVE" ELSE run
    /\ UNCHANGED <<owner, lapsed, verdict, worldVars, historyVars, process>>

\* A recovered result is frozen without native files.  Recovered evidence need
\* not be of this campaign: its constructor compares it with itself only.
Recovered(i) ==
    Answers(i) \cup (IF i = End THEN {[Report EXCEPT !.passed = TRUE]} ELSE {})

\* Bug: the recovered result counts as a whole solve.
ConfirmWhole(i) ==
    /\ ops[i].status = "UNKNOWN"
    /\ \E value \in Answers(i) : settle(i, op("SUCCEEDED", value, IsSolve(i)))

ConfirmSucceeded(i) ==
    /\ ops[i].status = "UNKNOWN"
    /\ \E value \in Recovered(i) : settle(i, op("SUCCEEDED", value, FALSE))
ConfirmFailed(i) == settle(i, op("FAILED", Nothing, FALSE))

-----------------------------------------------------------------------------
(* The readiness gate of a real Run: PREPARE_REAL_HFSS_CANARY.py embeds the *)
(* frozen evidence, and the gate checks the chain from it to the sources.  *)

\* Bug: evidence that did not pass is good enough.
AnyEvidence == ops[End].status = "SUCCEEDED"

\* Its constructor accepts it, and it passed.
PassingEvidence == ops[End].status = "SUCCEEDED" /\ ops[End].value.passed

\* Its source files give the same report.
Reproducible == Evident /\ ops[End].value = Report

OpenRealRun ==
    /\ kind = "calibration" /\ ~opened
    /\ PassingEvidence
    /\ approved
    /\ Reproducible
    /\ opened' = TRUE
    /\ UNCHANGED <<storeVars, kind, approved, expired, events, historyVars, process>>

-----------------------------------------------------------------------------
(* The surroundings.                                                       *)

event == events < MaxEvents /\ events' = events + 1

\* What a process authorized is no longer what it will use.
Edit ==
    /\ event
    /\ approved' = ~approved
    /\ process' = [p \in Processes |->
                    IF At(p, "authorized") THEN [process[p] EXCEPT !.slipped = TRUE]
                    ELSE process[p]]
    /\ UNCHANGED <<storeVars, kind, expired, opened, historyVars>>

Expire ==
    /\ event
    /\ ~expired /\ expired' = TRUE
    /\ UNCHANGED <<storeVars, kind, approved, opened, historyVars, process>>

\* A process is lost: its lease runs out, its operation stays RUNNING, and no
\* part of a campaign calls expire_stale_operations.
Crash(p) ==
    /\ event
    /\ ~At(p, "outside")
    /\ process' = [process EXCEPT ![p] = outside]
    /\ lapsed' = (lapsed \/ owner = p)
    /\ UNCHANGED <<run, owner, ops, verdict, kind, approved, expired, opened, historyVars>>

\* The owner is suspended for longer than its lease.
LeaseLapses ==
    /\ event
    /\ owner # Nobody /\ ~lapsed /\ lapsed' = TRUE
    /\ UNCHANGED <<run, owner, ops, verdict, kind, approved, expired, opened, historyVars, process>>

-----------------------------------------------------------------------------
Step(p) == \/ CheckManifest(p) \/ Fingerprint(p) \/ Compose(p)
           \/ Enter(p) \/ StayOut(p) \/ Claim(p) \/ Reuse(p) \/ Refuse(p)
           \/ Return(p) \/ Ambiguous(p) \/ Fail(p) \/ Commit(p)

Next == \/ \E p \in Processes : Step(p) \/ Crash(p)
        \/ \E i \in Plan : ConfirmSucceeded(i) \/ ConfirmFailed(i)
        \/ Edit \/ OpenRealRun \/ Expire \/ LeaseLapses

CampaignSpec == Init /\ [][Next]_vars

\* Every call returns or times out, and the scripts are started again.
LiveCampaign == CampaignSpec /\ \A p \in Processes : WF_vars(Step(p))

-----------------------------------------------------------------------------
(* Properties.                                                             *)

\* Types, and what walking through a plan from its start leaves behind: behind an
\* operation that has not succeeded nothing was started, so at most one outcome
\* is open, only a process or a crash keeps one RUNNING, and an unknown one
\* holds the Run.
CampaignInv ==
    /\ kind \in DOMAIN CasesOf
    /\ approved \in BOOLEAN /\ expired \in BOOLEAN /\ opened \in BOOLEAN
    /\ run \in {"none", "ACTIVE", "WAITING_RECONCILIATION", "COMPLETED"}
    /\ owner \in Processes \cup {Nobody} /\ lapsed \in BOOLEAN
    /\ lapsed => owner # Nobody
    /\ owner # Nobody => run = "ACTIVE"
    /\ DOMAIN ops = Plan
    /\ \A i \in Plan : ops[i].status \in {"none", "RUNNING", "SUCCEEDED", "FAILED", "UNKNOWN"}
    /\ \A i, j \in Plan : j < i /\ ops[i] # Absent => ops[j].status = "SUCCEEDED"
    /\ \A p, q \in Processes : Calling(p) /\ Calling(q) => p = q
    /\ \A p \in Processes : Calling(p) => ops[stepOf(p)].status = "RUNNING"
    /\ \A i \in Plan : ops[i].status = "UNKNOWN" => run = "WAITING_RECONCILIATION"
    /\ run = "COMPLETED" <=> verdict # Nothing

\* What calibrated means, without the assessment: the errors of the solves do not
\* add up to more than the limits, both models tell enough pairs of cases apart,
\* and the share of these that they put in opposite orders is within what the
\* policy leaves to disagreement.
CasesMeasured == {CasesOf[kind][n] : n \in DOMAIN CasesOf[kind]}
Solved ==
    [n \in DOMAIN CasesOf[kind] |->
        [surrogate |-> Predicted[CasesOf[kind][n]], hfss |-> measured[CasesOf[kind][n]]]]
ToldApart ==
    {{x[1], x[2]} : x \in {y \in CasesMeasured \X CasesMeasured :
        /\ Predicted[y[1]].worst < Predicted[y[2]].worst
        /\ measured[y[1]].worst # measured[y[2]].worst}}
Opposed ==
    {{x[1], x[2]} : x \in {y \in CasesMeasured \X CasesMeasured :
        /\ Predicted[y[1]].worst < Predicted[y[2]].worst
        /\ measured[y[1]].worst > measured[y[2]].worst}}
Calibrated ==
    LET required == Policy.minimumAgreement
    IN  /\ ~ (Total(Solved, "complex") > Policy.maxComplex * Cardinality(CasesMeasured))
        /\ ~ (Total(Solved, "db") > Policy.maxDb * Cardinality(CasesMeasured))
        /\ Cardinality(ToldApart) >= Policy.minimumPairs
        /\ Cardinality(Opposed) * required.denominator
                <= (required.denominator - required.numerator) * Cardinality(ToldApart)

\* A completed campaign rests on a solve of its own for every case, never on the
\* operator's word, and its terminal status is what these solves say, however
\* often it was lost, overtaken and entered again (calibration_campaign.py:325).
VerdictIsMeasured ==
    run = "COMPLETED" =>
        /\ \A c \in CasesMeasured : measured[c] # Nothing
        /\ \A n \in DOMAIN CasesOf[kind] : ops[solveOf(n)].native
        /\ verdict = IF kind = "calibration"
                     THEN IF Calibrated THEN "CALIBRATION_PASSED" ELSE "CALIBRATION_FAILED"
                     ELSE IF measured["optimized"].worst < measured["baseline"].worst
                          THEN "PHYSICAL_IMPROVEMENT_OBSERVED"
                          ELSE "PHYSICAL_IMPROVEMENT_NOT_OBSERVED"

\* A real Run is authorized only on solves that calibrate the surrogate, even if
\* the campaign was lost between its evidence and its completion
\* (real_hfss_safety.py:309).
OnlyCalibratedOpens ==
    opened => (\A c \in CasesMeasured : measured[c] # Nothing) /\ Calibrated

\* A solve runs on another builder than the manifest names only if it was
\* changed between its fingerprint in the gate and its attestation by
\* compose_pyaedt_hfss (calibration_campaign.py:218).
DriftOnlyInWindow == drifted \subseteq {TRUE}

\* Why a campaign may stand still.  Only the first three can pass.
Orphaned(i) == ops[i].status = "RUNNING" /\ ~ \E p \in Processes : Calling(p) /\ stepOf(p) = i
Blocked ==
    \/ run = "WAITING_RECONCILIATION"
    \/ expired
    \/ ~approved
    \/ \E i \in Plan : Orphaned(i) \/ ops[i].status = "FAILED"
    \/ \E i \in Plan : ops[i].status = "SUCCEEDED" /\ ~HasNativeFiles(i, ops[i])
    \/ ops[End - 1].status = "SUCCEEDED" /\ ~Evident

\* Nothing else keeps a campaign that is started again from its end: no lost or
\* overtaken process, no stale claim, no order of two processes.
EndsOrIsBlocked == []<>(run = "COMPLETED" \/ Blocked)
=============================================================================
