----------------------------- MODULE Evaluation -----------------------------
(***************************************************************************)
(* What is concluded from paired surrogate and HFSS results: the           *)
(* calibration report (evaluation/calibration.py), what the evidence type  *)
(* accepts of it (domain/contracts.py), and the comparison of a candidate  *)
(* with the baseline (evaluation/optimization_diagnostic_campaign.py).     *)
(*                                                                         *)
(* A response is the numbers that are taken from it: its worst |S11| and   *)
(* its mean reflected power; a pair of responses adds its complex and its  *)
(* dB error.  Means are compared as sums, ratios by cross-multiplication.  *)
(***************************************************************************)
EXTENDS Integers, Sequences, FiniteSets, FiniteSetsExt

Pairs(cases) == {p \in (DOMAIN cases) \X (DOMAIN cases) : p[1] < p[2]}

surrogateDelta(cases, p) == cases[p[1]].surrogate.worst - cases[p[2]].surrogate.worst
hfssDelta(cases, p)      == cases[p[1]].hfss.worst - cases[p[2]].hfss.worst

\* A pair that one of the two models does not tell apart ranks nothing.
Comparable(cases) ==
    {p \in Pairs(cases) : surrogateDelta(cases, p) # 0 /\ hfssDelta(cases, p) # 0}

Agreeing(cases) ==
    {p \in Comparable(cases) : (surrogateDelta(cases, p) < 0) = (hfssDelta(cases, p) < 0)}

\* The errors of the cases, added up.
Total(cases, error) == MapThenSumSet(LAMBDA i : cases[i].hfss[error], DOMAIN cases)

MeanExceeds(cases, error, limit) == Total(cases, error) > limit * Len(cases)

\* The agreement of no comparable pair is 0.0.
RankingBelow(cases, least) ==
    IF Comparable(cases) = {}
    THEN least.numerator > 0
    ELSE Cardinality(Agreeing(cases)) * least.denominator
            < least.numerator * Cardinality(Comparable(cases))

\* The reasons that CalibrationEvidence recomputes.
ExpectedReasons(cases, policy) ==
    {r \in {"mean_complex_rmse_exceeded", "mean_magnitude_db_rmse_exceeded",
            "pairwise_ranking_agreement_below_threshold"} :
        CASE r = "mean_complex_rmse_exceeded" ->
                 MeanExceeds(cases, "complex", policy.maxComplex)
          [] r = "mean_magnitude_db_rmse_exceeded" ->
                 MeanExceeds(cases, "db", policy.maxDb)
          [] OTHER -> RankingBelow(cases, policy.minimumAgreement)}

AssessCalibration(cases, policy) ==
    LET reasons == ExpectedReasons(cases, policy)
                   \cup (IF Cardinality(Comparable(cases)) < policy.minimumPairs
                         THEN {"insufficient_comparable_ranking_pairs"} ELSE {})
    IN  [passed |-> reasons = {}, reasons |-> reasons,
         pairs |-> Cardinality(Comparable(cases))]

\* What CalibrationEvidence.__post_init__ asks of a report.  A report with too
\* few pairs is not evidence of a failure: it is no evidence.
IsEvidence(report, cases, policy) ==
    /\ Len(cases) >= policy.minimumCases
    /\ report.pairs >= policy.minimumPairs
    /\ report.pairs = Cardinality(Comparable(cases))
    /\ report.reasons = ExpectedReasons(cases, policy)
    /\ report.passed = (report.reasons = {})

\* _comparison_metrics of the optimized candidate against the baseline.
ComparisonMetrics(baseline, candidate) ==
    [worstImproved |-> candidate.worst < baseline.worst,
     powerImproved |-> candidate.power < baseline.power]

DiagnosticReport(cases) ==
    LET predicted == ComparisonMetrics(cases[1].surrogate, cases[2].surrogate)
        observed  == ComparisonMetrics(cases[1].hfss, cases[2].hfss)
    IN  [passed |-> observed.worstImproved, observed |-> observed,
         agreement |-> predicted.worstImproved = observed.worstImproved]
=============================================================================
