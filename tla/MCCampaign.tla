----------------------------- MODULE MCCampaign -----------------------------
(* Two processes on one campaign, for TLC.                                 *)
EXTENDS Campaign

CONSTANTS p1, p2

reading(worst, power, complex, db) ==
    [worst |-> worst, power |-> power, complex |-> complex, db |-> db]

\* The surrogate tells all four candidates apart.
MCPredicted == "baseline" :> [worst |-> 3, power |-> 3] @@ "first" :> [worst |-> 2, power |-> 2]
            @@ "second" :> [worst |-> 4, power |-> 4] @@ "optimized" :> [worst |-> 1, power |-> 1]

\* Solves in the surrogate's order, tied, or in the opposite order; the tie of
\* the first and one reading of the second exceed a mean error on their own.
MCReadings == "baseline" :> {reading(2, 2, 0, 0)}
           @@ "first" :> {reading(1, 1, 0, 0), reading(2, 2, 4, 0), reading(3, 3, 0, 0)}
           @@ "second" :> {reading(2, 2, 0, 0), reading(3, 3, 0, 0), reading(3, 3, 0, 4)}
           @@ "optimized" :> {reading(1, 1, 0, 0), reading(2, 1, 0, 0), reading(3, 3, 0, 0)}

MCPolicy == [maxComplex |-> 1, maxDb |-> 1, minimumCases |-> 3, minimumPairs |-> 2,
             minimumAgreement |-> [numerator |-> 4, denominator |-> 5]]
=============================================================================
