--------------------------- MODULE RuleEvaluation ---------------------------
(***************************************************************************)
(* The S-parameter rules and what is concluded from them: the evaluation   *)
(* of one solve (evaluation/evaluator.py, rule_semantics.py) and its place *)
(* in the order that promotes a candidate to Best (comparator.py).         *)
(*                                                                         *)
(* A trace is a function from the sampled frequencies to dB, a solve the   *)
(* record of its two traces, a rule [name, parameter, lo, hi, operator,    *)
(* threshold, hard].  Numbers are integers in a unit fine enough for the   *)
(* interpolated band edges; the rules are in the order in which two        *)
(* designs are compared, the mandatory ones first, then by their names.    *)
(***************************************************************************)
EXTENDS Integers, Sequences, SequencesExt, FiniteSets, FiniteSetsExt

\* What is measured: a sweep of finitely many samples.
IsTrace(trace) ==
    /\ trace \in [DOMAIN trace -> Int]
    /\ DOMAIN trace \subseteq Int /\ IsFiniteSet(DOMAIN trace) /\ DOMAIN trace # {}
IsResponse(solve) == IsTrace(solve.S11) /\ IsTrace(solve.S21)

\* What is asked: a contract has mandatory rules and names each of its rules once.
IsRule(rule) ==
    /\ rule.parameter \in {"S11", "S21"} /\ rule.operator \in {"<=", ">="}
    /\ {rule.lo, rule.hi, rule.threshold} \subseteq Int /\ rule.lo <= rule.hi
    /\ rule.hard \in BOOLEAN
IsContract(rules) ==
    /\ DOMAIN rules = 1..Len(rules) /\ Len(rules) \in Nat
    /\ \A k \in DOMAIN rules : IsRule(rules[k])
    /\ \A j, k \in DOMAIN rules : rules[j].name = rules[k].name => j = k
    /\ \E k \in DOMAIN rules : rules[k].hard

\* A sweep has two samples at least, and none of the band is outside.
Covers(trace, rule) ==
    /\ Cardinality(DOMAIN trace) >= 2
    /\ Min(DOMAIN trace) <= rule.lo /\ rule.hi <= Max(DOMAIN trace)

\* The value between two samples, linearly.
Interpolated(trace, x) ==
    LET a == Max({f \in DOMAIN trace : f <= x})
        b == Min({f \in DOMAIN trace : x <= f})
    IN  IF a = b THEN trace[a]
        ELSE trace[a] + ((trace[b] - trace[a]) * (x - a)) \div (b - a)

\* Bug: the samples of the band only.
SampledPoints(trace, rule) == {f \in DOMAIN trace : rule.lo <= f /\ f <= rule.hi}
\* A rule is judged at the samples of its band and at the band's edges.
Points(trace, rule) ==
    {rule.lo, rule.hi} \cup {f \in DOMAIN trace : rule.lo <= f /\ f <= rule.hi}

MarginToTarget(rule, observed) ==
    IF rule.operator = "<=" THEN rule.threshold - observed ELSE observed - rule.threshold

WorstMargin(trace, rule) ==
    Min({MarginToTarget(rule, Interpolated(trace, x)) : x \in Points(trace, rule)})

Violation(trace, rule) == Max({0, -WorstMargin(trace, rule)})

Part(rules, hard) == {k \in DOMAIN rules : rules[k].hard = hard}

failed(vs, part) == Cardinality({k \in part : vs[k] > 0})
worst(vs, part)  == Max({0} \cup {vs[k] : k \in part})
\* The violations added up, one element a unit.
total(vs, part)  == Cardinality({u \in part \X (1..worst(vs, part)) : u[2] <= vs[u[1]]})

\* What counts against a design, the first difference deciding.
RuleRank(vs, hard, soft) ==
    <<failed(vs, hard), worst(vs, hard), total(vs, hard),
      failed(vs, soft), total(vs, soft)>> \o vs

\* evaluate_sparameters.
Evaluate(solve, rules) ==
    LET vs   == [k \in DOMAIN rules |-> Violation(solve[rules[k].parameter], rules[k])]
        rank == RuleRank(vs, Part(rules, TRUE), Part(rules, FALSE))
    IN  IF \E k \in DOMAIN rules : ~Covers(solve[rules[k].parameter], rules[k])
        THEN [status |-> "INVALID", softFailed |-> 0, rank |-> << >>]
        ELSE [status |-> IF rank[1] = 0 THEN "PASS" ELSE "FAIL",
              softFailed |-> rank[4], rank |-> rank]

AllRulesPass(evaluation) == evaluation.status = "PASS" /\ evaluation.softFailed = 0

\* Tuples in Python's order.
Before(a, b) == \E k \in DOMAIN a : a[k] < b[k] /\ \A j \in 1..(k - 1) : a[j] = b[j]

\* Bug: the first count alone.
FewerFailures(reference, candidate) ==
    /\ "INVALID" \notin {reference.status, candidate.status}
    /\ candidate.rank[1] < reference.rank[1]
\* compare: a candidate replaces the reference only if it is strictly better.
PromotionEligible(reference, candidate) ==
    /\ "INVALID" \notin {reference.status, candidate.status}
    /\ Before(candidate.rank, reference.rank)

-----------------------------------------------------------------------------
(* What the rules mean, without points, margins and ranks.                 *)

\* A rule holds at every frequency of its band, between the samples too.
Complies(solve, rule) ==
    /\ Covers(solve[rule.parameter], rule)
    /\ \A x \in rule.lo..rule.hi :
          MarginToTarget(rule, Interpolated(solve[rule.parameter], x)) >= 0

Mandatory(rules) == {r \in ToSet(rules) : r.hard}

\* The mandatory rules that a solve meets; an unmeasured band voids them all.
MandatoryMet(solve, rules) ==
    {r \in Mandatory(rules) : /\ \A q \in ToSet(rules) : Covers(solve[q.parameter], q)
                              /\ Complies(solve, r)}
=============================================================================
