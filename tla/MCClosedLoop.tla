---------------------------- MODULE MCClosedLoop ----------------------------
(* Six rules on three adjoining bands, as the contract has them            *)
(* (evaluation/contract.py), and five designs for TLC.  Four units of      *)
(* frequency are one sample apart, the edges of the bands between samples.  *)
EXTENDS ClosedLoop

rule(name, parameter, lo, hi, operator, threshold, hard) ==
    [name |-> name, parameter |-> parameter, lo |-> lo, hi |-> hi,
     operator |-> operator, threshold |-> threshold, hard |-> hard]

MCRules == << rule("core_s11", "S11", 6, 14, "<=", -12, TRUE),
              rule("core_s21", "S21", 6, 14, ">=", -4, TRUE),
              rule("lower_s11", "S11", 3, 6, "<=", -12, FALSE),
              rule("lower_s21", "S21", 3, 6, ">=", -4, FALSE),
              rule("upper_s11", "S11", 14, 17, "<=", -12, FALSE),
              rule("upper_s21", "S21", 14, 17, ">=", -4, FALSE) >>

\* Samples at 0, 4, 8, 12, 16, 20.
trace(values) == [f \in {4 * k : k \in 0..(Len(values) - 1)} |-> values[f \div 4 + 1]]
design(s11, s21) == [S11 |-> trace(s11), S21 |-> trace(s21)]

Low  == <<-20, -20, -20, -20, -20, -20>>
Flat == <<0, 0, 0, 0, 0, 0>>

\* All rules hold; only the mandatory ones; one mandatory rule fails, but at an edge
\* between two samples of its band; two fail, each by less; the sweep is too short.
MCSolves == [whole  |-> design(Low, Flat),
             narrow |-> design(<<-8, -8, -20, -20, -20, -20>>, Flat),
             edge   |-> design(<<-20, -4, -12, -20, -20, -20>>, Flat),
             twice  |-> design(<<-20, -20, -20, -10, -20, -20>>,
                               <<0, 0, -6, 0, 0, 0>>),
             short  |-> design(<<-20, -20, -20, -20>>, <<0, 0, 0, 0>>)]
=============================================================================
