------------------------- MODULE RuleEvaluationProofs -------------------------
(* What the rules mean and what is computed of them is the same: a few points *)
(* stand for a band, and the first count of a rank for the rules that are met. *)
EXTENDS RuleEvaluation, FiniteSetTheorems, SequenceTheorems, WellFoundedInduction,
        TLAPS

\* A finite set of numbers has a least one: of the sets of those below one of its
\* numbers one has no smaller one in it.
LEMMA LeastExists ==
  ASSUME NEW S, S \subseteq Int, IsFiniteSet(S), S # {}
  PROVE  \E x \in S : \A y \in S : x <= y
<1> DEFINE below(x) == {y \in S : y <= x}
           T == {below(x) : x \in S}
           R == StrictSubsetOrdering(S)
<1>1. IsWellFoundedOn(R, SUBSET S)
  BY FS_StrictSubsetOrderingWellFounded, FS_FiniteSubsetsOfFinite
<1>2. T \subseteq SUBSET S /\ T # {}
  OBVIOUS
<1>3. PICK U \in T : \A V \in T : ~(<<V, U>> \in R)
  <2> HIDE DEF T, R
  <2> QED
    BY <1>1, <1>2, WFMin
<1>4. PICK x \in S : U = below(x)
  BY <1>3
<1>5. ASSUME NEW y \in S, y < x PROVE FALSE
  <2>1. below(y) \subseteq below(x) /\ x \in below(x) /\ x \notin below(y)
    <3>1. x \in Int /\ y \in Int /\ x <= x /\ ~(x <= y)
      BY <1>5
    <3>2. \A z \in S : z <= y => z <= x
      BY <1>5
    <3>3. QED
      BY <3>1, <3>2
  <2>2. <<below(y), below(x)>> \in R
    <3>1. below(y) \in SUBSET S /\ below(x) \in SUBSET S /\ below(y) # below(x)
      BY <2>1
    <3> HIDE DEF below
    <3>2. QED
      BY <2>1, <3>1 DEF StrictSubsetOrdering
  <2>3. QED
    BY <1>3, <1>4, <2>2
<1>6. QED
  BY <1>5

\* And a greatest.
LEMMA GreatestExists ==
  ASSUME NEW S, S \subseteq Int, IsFiniteSet(S), S # {}
  PROVE  \E x \in S : \A y \in S : y <= x
<1> DEFINE N == {-x : x \in S}
<1>1. IsFiniteSet(N)
  <2> DEFINE f == [x \in S |-> -x]
  <2>1. f \in Surjection(S, N)
    BY DEF Surjection
  <2>2. QED
    BY <2>1, FS_Surjection
<1>2. N \subseteq Int /\ N # {}
  OBVIOUS
<1>3. PICK z \in N : \A y \in N : z <= y
  <2> HIDE DEF N
  <2> QED
    BY <1>1, <1>2, LeastExists
<1>4. PICK x \in S : z = -x
  OBVIOUS
<1>5. ASSUME NEW y \in S PROVE y <= x
  <2>1. -y \in N
    OBVIOUS
  <2>2. -x <= -y
    BY <1>3, <1>4, <2>1
  <2>3. QED
    BY <2>2
<1>6. QED
  BY <1>5

\* What Min and Max choose.
LEMMA Extremes ==
  ASSUME NEW S, S \subseteq Int, IsFiniteSet(S), S # {}
  PROVE  /\ Min(S) \in S /\ \A y \in S : Min(S) <= y
         /\ Max(S) \in S /\ \A y \in S : y <= Max(S)
<1>1. \E x \in S : \A y \in S : x <= y
  BY LeastExists
<1>2. \E x \in S : \A y \in S : x >= y
  <2>1. PICK x \in S : \A y \in S : y <= x
    BY GreatestExists
  <2>2. \A y \in S : x >= y
    BY <2>1
  <2>3. QED
    BY <2>2
<1>3. Min(S) \in S /\ \A y \in S : Min(S) <= y
  BY <1>1 DEF Min
<1>4. Max(S) \in S /\ \A y \in S : Max(S) >= y
  BY <1>2 DEF Max
<1>5. QED
  BY <1>3, <1>4

-----------------------------------------------------------------------------
(* The order of the ranks.                                                 *)

\* Ranks of one length are ordered: none is before itself, and what is before one
\* is before all that it precedes.
LEMMA BeforeOrders ==
  ASSUME NEW n \in Nat, NEW a \in [1..n -> Int], NEW b \in [1..n -> Int],
         NEW c \in [1..n -> Int]
  PROVE  /\ ~Before(a, a)
         /\ Before(a, b) /\ Before(b, c) => Before(a, c)
<1>1. ~Before(a, a)
  BY DEF Before
<1>2. ASSUME Before(a, b), Before(b, c) PROVE Before(a, c)
  <2>1. PICK i \in 1..n : a[i] < b[i] /\ \A j \in 1..(i - 1) : a[j] = b[j]
    BY <1>2 DEF Before
  <2>2. PICK k \in 1..n : b[k] < c[k] /\ \A j \in 1..(k - 1) : b[j] = c[j]
    BY <1>2 DEF Before
  <2>3. CASE i <= k
    <3>1. a[i] < c[i]
      <4>1. CASE i = k
        BY <2>1, <2>2, <4>1
      <4>2. CASE i < k
        <5>1. b[i] = c[i]
          BY <2>2, <4>2
        <5>2. QED
          BY <2>1, <5>1
      <4>3. QED
        BY <2>3, <4>1, <4>2
    <3>2. \A j \in 1..(i - 1) : a[j] = c[j]
      BY <2>1, <2>2, <2>3
    <3>3. QED
      BY <3>1, <3>2 DEF Before
  <2>4. CASE k < i
    <3>1. a[k] = b[k]
      BY <2>1, <2>4
    <3>2. a[k] < c[k]
      BY <2>2, <3>1
    <3>3. \A j \in 1..(k - 1) : a[j] = c[j]
      BY <2>1, <2>2, <2>4
    <3>4. QED
      BY <3>2, <3>3 DEF Before
  <2>5. QED
    BY <2>3, <2>4
<1>3. QED
  BY <1>1, <1>2

\* The first count decides, where it differs.
LEMMA FirstDecides ==
  ASSUME NEW n \in Nat \ {0}, NEW a \in [1..n -> Int], NEW b \in [1..n -> Int]
  PROVE  /\ a[1] < b[1] => Before(a, b)
         /\ (\A k \in 1..n : a[k] = 0 /\ b[k] >= 0) => ~Before(b, a)
<1>1. 1 \in DOMAIN a /\ 1..(1 - 1) = {}
  OBVIOUS
<1>2. ASSUME a[1] < b[1] PROVE Before(a, b)
  BY <1>1, <1>2 DEF Before
<1>3. ASSUME \A k \in 1..n : a[k] = 0 /\ b[k] >= 0 PROVE ~Before(b, a)
  BY <1>3 DEF Before
<1>4. QED
  BY <1>2, <1>3

-----------------------------------------------------------------------------
(* Between two samples the values lie between theirs.                      *)

\* Rounding down keeps the order.
LEMMA DivMonotone ==
  ASSUME NEW n \in Int, NEW m \in Int, NEW d \in Nat \ {0}, n <= m
  PROVE  n \div d \in Int /\ n \div d <= m \div d
<1>1. n \div d \in Int /\ m \div d \in Int
  OBVIOUS
<1>2. d * (n \div d) <= n
  OBVIOUS
<1>3. m < d * (m \div d) + d
  OBVIOUS
<1>4. ASSUME NEW x \in Int, NEW y \in Int, d * x < d * y + d PROVE x <= y
  <2>1. ASSUME y < x PROVE FALSE
    <3>1. x = y + 1 + (x - y - 1) /\ x - y - 1 \in Nat
      BY <2>1
    <3>2. ASSUME NEW z \in Nat PROVE d * (y + 1 + z) >= d * y + d
      <4>1. d * (y + 1 + z) = d * y + d + d * z
        OBVIOUS
      <4>2. d * z \in Nat
        OBVIOUS
      <4>3. QED
        BY <4>1, <4>2
    <3>3. QED
      BY <1>4, <3>1, <3>2
  <2>2. QED
    BY <2>1
<1>5. QED
  BY <1>1, <1>2, <1>3, <1>4

\* A factor keeps or turns it.
LEMMA TimesMonotone ==
  ASSUME NEW D \in Int, NEW p \in Int, NEW q \in Int, p <= q
  PROVE  /\ D * p \in Int /\ D * q \in Int
         /\ D >= 0 => D * p <= D * q
         /\ D <= 0 => D * q <= D * p
<1>1. q = p + (q - p) /\ q - p \in Nat
  OBVIOUS
<1>2. ASSUME NEW z \in Nat PROVE D * (p + z) = D * p + D * z
  OBVIOUS
<1>3. ASSUME NEW z \in Nat, D >= 0 PROVE D * z >= 0
  BY <1>3
<1>4. ASSUME NEW z \in Nat, D <= 0 PROVE D * z <= 0
  <2>1. (-D) * z >= 0 /\ -D \in Nat
    BY <1>4
  <2>2. D * z = -((-D) * z)
    OBVIOUS
  <2>3. QED
    BY <2>1, <2>2
<1>5. QED
  BY <1>1, <1>2, <1>3, <1>4

\* Two samples with none between them, or twice the same.
Adjacent(trace, a, b) ==
    /\ a \in DOMAIN trace /\ b \in DOMAIN trace /\ a <= b
    /\ \A f \in DOMAIN trace : f <= a \/ b <= f

\* A frequency of the sweep lies between two adjacent samples, those that are
\* interpolated.
LEMMA Neighbours ==
  ASSUME NEW trace, IsTrace(trace), NEW x \in Int,
         Min(DOMAIN trace) <= x, x <= Max(DOMAIN trace),
         NEW a, a = Max({f \in DOMAIN trace : f <= x}),
         NEW b, b = Min({f \in DOMAIN trace : x <= f})
  PROVE  /\ Adjacent(trace, a, b) /\ a <= x /\ x <= b
         /\ \A f \in DOMAIN trace : (f <= x => f <= a) /\ (x <= f => b <= f)
<1> DEFINE D == DOMAIN trace
           L == {f \in D : f <= x}
           U == {f \in D : x <= f}
<1>1. Min(D) \in D /\ Max(D) \in D /\ D \subseteq Int
  BY Extremes DEF IsTrace
<1>2. L # {} /\ U # {} /\ L \subseteq Int /\ U \subseteq Int
  BY <1>1
<1>3. IsFiniteSet(L) /\ IsFiniteSet(U)
  BY FS_Subset DEF IsTrace
<1>4. a \in L /\ (\A f \in L : f <= a) /\ b \in U /\ (\A f \in U : b <= f)
  <2> HIDE DEF L, U
  <2>1. a = Max(L) /\ b = Min(U)
    BY DEF L, U
  <2>2. QED
    BY <1>2, <1>3, <2>1, Extremes
<1>5. a \in D /\ b \in D /\ a <= x /\ x <= b
  BY <1>4
<1>6. \A f \in D : f <= a \/ b <= f
  BY <1>1, <1>4
<1>7. \A f \in D : (f <= x => f <= a) /\ (x <= f => b <= f)
  BY <1>4
<1>8. QED
  BY <1>1, <1>5, <1>6, <1>7 DEF Adjacent

\* Between them the value is the one on their line, rounded down.
LEMMA OnTheLine ==
  ASSUME NEW trace, IsTrace(trace), NEW a, NEW b, Adjacent(trace, a, b), a < b,
         NEW x \in Int, a <= x, x <= b
  PROVE  Interpolated(trace, x)
           = trace[a] + ((trace[b] - trace[a]) * (x - a)) \div (b - a)
<1> DEFINE D == DOMAIN trace
           p == Max({f \in D : f <= x})
           q == Min({f \in D : x <= f})
<1>1. D \subseteq Int /\ a \in D /\ b \in D /\ trace[a] \in Int /\ trace[b] \in Int
  BY DEF IsTrace, Adjacent
<1>2. Min(D) <= x /\ x <= Max(D)
  <2>1. Min(D) \in D /\ Max(D) \in D /\ Min(D) <= a /\ b <= Max(D)
    BY <1>1, Extremes DEF IsTrace
  <2>2. QED
    BY <1>1, <2>1
<1>3. /\ p \in D /\ q \in D /\ p <= x /\ x <= q
      /\ \A f \in D : (f <= x => f <= p) /\ (x <= f => q <= f)
  BY <1>2, Neighbours DEF Adjacent
<1>4. \A f \in D : f <= a \/ b <= f
  BY DEF Adjacent
<1>5. Interpolated(trace, x)
        = IF p = q THEN trace[p]
          ELSE trace[p] + ((trace[q] - trace[p]) * (x - p)) \div (q - p)
  BY DEF Interpolated
<1> HIDE DEF p, q, D
<1>6. p \in Int /\ q \in Int /\ a \in Int /\ b \in Int /\ b - a \in Nat \ {0}
  BY <1>1, <1>3
<1>7. CASE x = a
  <2>1. a <= p /\ q <= a
    BY <1>1, <1>3, <1>6, <1>7
  <2>2. p = a /\ q = a
    BY <1>3, <1>6, <1>7, <2>1
  <2>3. ((trace[b] - trace[a]) * (a - a)) \div (b - a) = 0
    <3>1. ASSUME NEW n \in Int, NEW d \in Nat \ {0} PROVE (n * 0) \div d = 0
      OBVIOUS
    <3>2. a - a = 0 /\ trace[b] - trace[a] \in Int
      BY <1>1, <1>6
    <3>3. QED
      BY <1>6, <3>1, <3>2
  <2>4. QED
    BY <1>1, <1>5, <1>7, <2>2, <2>3
<1>8. CASE x = b
  <2>1. b <= p /\ q <= b
    BY <1>1, <1>3, <1>6, <1>8
  <2>2. p = b /\ q = b
    BY <1>3, <1>6, <1>8, <2>1
  <2>3. ((trace[b] - trace[a]) * (b - a)) \div (b - a) = trace[b] - trace[a]
    <3>1. ASSUME NEW n \in Int, NEW d \in Nat \ {0} PROVE (n * d) \div d = n
      OBVIOUS
    <3>2. trace[b] - trace[a] \in Int
      BY <1>1
    <3>3. QED
      BY <1>6, <3>1, <3>2
  <2>4. QED
    BY <1>1, <1>5, <1>8, <2>2, <2>3
<1>9. CASE a < x /\ x < b
  <2>1. p <= a /\ a <= p
    BY <1>1, <1>3, <1>4, <1>6, <1>9
  <2>2. q <= b /\ b <= q
    BY <1>1, <1>3, <1>4, <1>6, <1>9
  <2>3. p = a /\ q = b
    BY <1>6, <2>1, <2>2
  <2>4. QED
    BY <1>5, <1>6, <2>3
<1>10. QED
  BY <1>6, <1>7, <1>8, <1>9

\* What lies between two frequencies of one segment has its value between theirs.
LEMMA ValuesBetween ==
  ASSUME NEW trace, IsTrace(trace), NEW a, NEW b, Adjacent(trace, a, b),
         NEW p \in Int, NEW x \in Int, NEW q \in Int,
         a <= p, p <= x, x <= q, q <= b
  PROVE  LET value(y) == Interpolated(trace, y)
         IN  /\ {value(p), value(x), value(q)} \subseteq Int
             /\ \/ value(p) <= value(x) /\ value(x) <= value(q)
                \/ value(q) <= value(x) /\ value(x) <= value(p)
<1>1. /\ a \in Int /\ b \in Int /\ a <= b /\ trace[a] \in Int /\ trace[b] \in Int
      /\ a \in DOMAIN trace
  BY DEF IsTrace, Adjacent
<1>2. CASE a = b
  <2>1. p = a /\ x = a /\ q = a
    BY <1>1, <1>2
  <2>2. Interpolated(trace, a) = trace[a]
    <3> DEFINE l == Max({f \in DOMAIN trace : f <= a})
               u == Min({f \in DOMAIN trace : a <= f})
    <3>1. Min(DOMAIN trace) <= a /\ a <= Max(DOMAIN trace)
      BY <1>1, Extremes DEF IsTrace
    <3>2. /\ l \in DOMAIN trace /\ u \in DOMAIN trace /\ l <= a /\ a <= u
          /\ \A f \in DOMAIN trace : (f <= a => f <= l) /\ (a <= f => u <= f)
      BY <1>1, <3>1, Neighbours DEF Adjacent
    <3>3. Interpolated(trace, a)
            = IF l = u THEN trace[l]
              ELSE trace[l] + ((trace[u] - trace[l]) * (a - l)) \div (u - l)
      BY DEF Interpolated
    <3> HIDE DEF l, u
    <3>4. l \in Int /\ u \in Int /\ a <= l /\ u <= a
      BY <1>1, <3>2 DEF IsTrace
    <3>5. l = a /\ u = a
      BY <1>1, <3>2, <3>4
    <3>6. QED
      BY <3>3, <3>5
  <2>3. QED
    BY <1>1, <2>1, <2>2
<1>3. CASE a < b
  <2> DEFINE D == trace[b] - trace[a]
             d == b - a
             rise(y) == (D * (y - a)) \div d
  <2>1. D \in Int /\ d \in Nat \ {0} /\ p - a <= x - a /\ x - a <= q - a
        /\ p - a \in Int /\ x - a \in Int /\ q - a \in Int
    BY <1>1, <1>3
  <2>2. /\ Interpolated(trace, p) = trace[a] + rise(p)
        /\ Interpolated(trace, x) = trace[a] + rise(x)
        /\ Interpolated(trace, q) = trace[a] + rise(q)
    <3>1. a <= x /\ a <= q /\ p <= b /\ x <= b
      BY <1>1
    <3>2. QED
      BY <1>3, <3>1, OnTheLine
  <2> HIDE DEF D, d
  <2>3. D * (p - a) \in Int /\ D * (x - a) \in Int /\ D * (q - a) \in Int
    BY <2>1, TimesMonotone
  <2>4. CASE D >= 0
    <3>1. D * (p - a) <= D * (x - a) /\ D * (x - a) <= D * (q - a)
      BY <2>1, <2>4, TimesMonotone
    <3>2. /\ rise(p) \in Int /\ rise(x) \in Int /\ rise(q) \in Int
          /\ rise(p) <= rise(x) /\ rise(x) <= rise(q)
      BY <2>1, <2>3, <3>1, DivMonotone
    <3> HIDE DEF rise
    <3>3. QED
      BY <1>1, <2>2, <3>2
  <2>5. CASE D <= 0
    <3>1. D * (q - a) <= D * (x - a) /\ D * (x - a) <= D * (p - a)
      BY <2>1, <2>5, TimesMonotone
    <3>2. /\ rise(p) \in Int /\ rise(x) \in Int /\ rise(q) \in Int
          /\ rise(q) <= rise(x) /\ rise(x) <= rise(p)
      BY <2>1, <2>3, <3>1, DivMonotone
    <3> HIDE DEF rise
    <3>3. QED
      BY <1>1, <2>2, <3>2
  <2>6. QED
    BY <2>1, <2>4, <2>5
<1>4. QED
  BY <1>1, <1>2, <1>3

\* A pair is finite.
LEMMA PairFinite ==
  ASSUME NEW x, NEW y
  PROVE  IsFiniteSet({x, y})
<1>1. IsFiniteSet({x}) /\ IsFiniteSet({y}) /\ {x, y} = {x} \cup {y}
  BY FS_Singleton
<1>2. QED
  BY <1>1, FS_Union

-----------------------------------------------------------------------------
(* A rule is judged at a few points and means all of its band.             *)

\* The sweep has a value everywhere it covers.
LEMMA Measured ==
  ASSUME NEW trace, IsTrace(trace), NEW rule, IsRule(rule), Covers(trace, rule),
         NEW x \in rule.lo..rule.hi
  PROVE  /\ \E a, b : Adjacent(trace, a, b) /\ a <= x /\ x <= b
         /\ Interpolated(trace, x) \in Int
         /\ MarginToTarget(rule, Interpolated(trace, x)) \in Int
<1> DEFINE D == DOMAIN trace
<1>1. Min(D) \in Int /\ Max(D) \in Int /\ rule.lo \in Int /\ rule.hi \in Int
  BY Extremes DEF IsTrace, IsRule
<1>2. Min(D) <= x /\ x <= Max(D)
  BY <1>1 DEF Covers
<1>3. PICK a, b : Adjacent(trace, a, b) /\ a <= x /\ x <= b
  <2> DEFINE l == Max({f \in D : f <= x})
             u == Min({f \in D : x <= f})
  <2>1. x \in Int
    BY <1>1
  <2>2. Adjacent(trace, l, u) /\ l <= x /\ x <= u
    BY <1>2, <2>1, Neighbours
  <2>3. QED
    BY <2>2
<1>4. Interpolated(trace, x) \in Int
  BY <1>3, ValuesBetween
<1>5. MarginToTarget(rule, Interpolated(trace, x)) \in Int
  BY <1>4 DEF MarginToTarget, IsRule
<1>6. QED
  BY <1>3, <1>4, <1>5

\* No point is worse than the threshold exactly if no frequency of the band is.
LEMMA Judged ==
  ASSUME NEW trace, IsTrace(trace), NEW rule, IsRule(rule), Covers(trace, rule)
  PROVE  /\ WorstMargin(trace, rule) \in Int
         /\ WorstMargin(trace, rule) >= 0
              <=> \A x \in rule.lo..rule.hi :
                     MarginToTarget(rule, Interpolated(trace, x)) >= 0
<1> DEFINE D == DOMAIN trace
           P == Points(trace, rule)
           margin(x) == MarginToTarget(rule, Interpolated(trace, x))
           M == {margin(x) : x \in P}
<1>1. /\ rule.lo \in Int /\ rule.hi \in Int /\ rule.threshold \in Int
      /\ rule.lo <= rule.hi /\ D \subseteq Int
  BY DEF IsRule, IsTrace
<1>2. P \subseteq rule.lo..rule.hi /\ rule.lo \in P /\ rule.hi \in P
  BY <1>1 DEF Points
<1>3. IsFiniteSet(P)
  <2>1. IsFiniteSet({f \in D : rule.lo <= f /\ f <= rule.hi})
    BY FS_Subset DEF IsTrace
  <2>2. IsFiniteSet({rule.lo, rule.hi})
    BY PairFinite
  <2>3. QED
    BY <2>1, <2>2, FS_Union DEF Points
<1>4. \A x \in rule.lo..rule.hi : margin(x) \in Int
  BY Measured
<1>5. IsFiniteSet(M) /\ M \subseteq Int /\ M # {}
  <2> HIDE DEF P
  <2>1. \A x \in P : margin(x) \in Int
    BY <1>2, <1>4
  <2> HIDE DEF margin
  <2> DEFINE f == [x \in P |-> margin(x)]
  <2>2. f \in Surjection(P, M)
    BY DEF Surjection
  <2>3. IsFiniteSet(M)
    BY <1>3, <2>2, FS_Surjection
  <2>4. QED
    BY <1>2, <2>1, <2>3
<1>6. WorstMargin(trace, rule) = Min(M)
  BY DEF WorstMargin
<1>7. Min(M) \in M /\ \A m \in M : Min(M) <= m
  <2> HIDE DEF M
  <2> QED
    BY <1>5, Extremes
<1>8. ASSUME WorstMargin(trace, rule) >= 0, NEW x \in rule.lo..rule.hi
      PROVE  margin(x) >= 0
  <2>1. \A y \in P : margin(y) \in Int /\ margin(y) >= 0
    <3>1. \A y \in P : margin(y) \in M
      <4> HIDE DEF P, margin
      <4> QED
        OBVIOUS
    <3>2. \A m \in M : m \in Int /\ m >= 0
      <4> HIDE DEF M
      <4>1. Min(M) \in Int /\ Min(M) >= 0
        BY <1>5, <1>6, <1>7, <1>8
      <4>2. QED
        BY <1>5, <1>7, <4>1
    <3> HIDE DEF M
    <3>3. QED
      BY <3>1, <3>2
  <2>2. PICK a, b : Adjacent(trace, a, b) /\ a <= x /\ x <= b
    BY Measured
  <2> DEFINE p == IF a <= rule.lo THEN rule.lo ELSE a
             q == IF rule.hi <= b THEN rule.hi ELSE b
  <2>3. a \in D /\ b \in D /\ a \in Int /\ b \in Int /\ x \in Int
    BY <1>1, <2>2 DEF Adjacent
  <2>4. p \in P /\ q \in P /\ p \in Int /\ q \in Int
    BY <1>1, <2>2, <2>3 DEF Points
  <2>5. a <= p /\ p <= x /\ x <= q /\ q <= b
    BY <1>1, <2>2, <2>3
  <2> HIDE DEF p, q, P
  <2>6. LET value(y) == Interpolated(trace, y)
        IN  /\ {value(p), value(x), value(q)} \subseteq Int
            /\ \/ value(p) <= value(x) /\ value(x) <= value(q)
               \/ value(q) <= value(x) /\ value(x) <= value(p)
    BY <2>2, <2>3, <2>4, <2>5, ValuesBetween
  <2>7. margin(p) >= 0 /\ margin(q) >= 0
    BY <2>1, <2>4
  <2>8. QED
    BY <1>1, <2>6, <2>7 DEF MarginToTarget
<1>9. ASSUME \A x \in rule.lo..rule.hi : margin(x) >= 0
      PROVE  WorstMargin(trace, rule) >= 0
  <2>1. \A m \in M : m >= 0
    BY <1>2, <1>9
  <2>2. QED
    BY <1>6, <1>7, <2>1
<1>10. QED
  BY <1>5, <1>6, <1>7, <1>8, <1>9

\* The violation of a rule is a number, nothing exactly if the rule holds.
LEMMA ViolationMeans ==
  ASSUME NEW solve, NEW rule, IsRule(rule), IsTrace(solve[rule.parameter]),
         Covers(solve[rule.parameter], rule)
  PROVE  /\ Violation(solve[rule.parameter], rule) \in Nat
         /\ Violation(solve[rule.parameter], rule) = 0 <=> Complies(solve, rule)
<1> DEFINE w == WorstMargin(solve[rule.parameter], rule)
<1>1. w \in Int /\ (w >= 0 <=> Complies(solve, rule))
  BY Judged DEF Complies
<1> HIDE DEF w
<1>2. Max({0, -w}) \in {0, -w} /\ Max({0, -w}) >= 0 /\ Max({0, -w}) >= -w
  <2>1. IsFiniteSet({0, -w})
    BY PairFinite
  <2>2. \A y \in {0, -w} : y <= Max({0, -w})
    BY <1>1, <2>1, Extremes
  <2>3. Max({0, -w}) \in {0, -w}
    BY <1>1, <2>1, Extremes
  <2>4. Max({0, -w}) \in Int
    BY <1>1, <2>3
  <2>5. QED
    BY <1>1, <2>2, <2>3, <2>4
<1>3. Violation(solve[rule.parameter], rule) = Max({0, -w})
  BY DEF Violation, w
<1>4. QED
  BY <1>1, <1>2, <1>3

-----------------------------------------------------------------------------
(* The rank of a design.                                                   *)

\* The counts of one kind of rules.
LEMMA Counts ==
  ASSUME NEW n \in Nat, NEW vs \in [1..n -> Nat], NEW part, part \subseteq 1..n
  PROVE  /\ failed(vs, part) \in Nat /\ worst(vs, part) \in Nat /\ total(vs, part) \in Nat
         /\ failed(vs, part) = 0 <=> \A k \in part : vs[k] = 0
         /\ (\A k \in part : vs[k] = 0) => worst(vs, part) = 0 /\ total(vs, part) = 0
<1> DEFINE F == {k \in part : vs[k] > 0}
           V == {vs[k] : k \in part}
           W == {0} \cup V
           U == {u \in part \X (1..worst(vs, part)) : u[2] <= vs[u[1]]}
<1>1. IsFiniteSet(part) /\ IsFiniteSet(F)
  <2>1. IsFiniteSet(1..n)
    BY FS_Interval
  <2>2. IsFiniteSet(part)
    BY <2>1, FS_Subset
  <2>3. F \in SUBSET part
    OBVIOUS
  <2>4. QED
    BY <2>2, <2>3, FS_Subset
<1>2. IsFiniteSet(V)
  <2> DEFINE f == [k \in part |-> vs[k]]
  <2>1. f \in Surjection(part, V)
    BY DEF Surjection
  <2>2. QED
    BY <1>1, <2>1, FS_Surjection
<1>3. V \subseteq Nat
  OBVIOUS
<1>4. IsFiniteSet(W) /\ W \subseteq Int /\ W # {} /\ W \subseteq Nat
  <2>1. IsFiniteSet({0})
    BY FS_Singleton
  <2> HIDE DEF V
  <2>2. IsFiniteSet(W)
    BY <1>2, <2>1, FS_Union
  <2>3. W \subseteq Nat /\ 0 \in W
    BY <1>3
  <2> HIDE DEF W
  <2>4. QED
    BY <2>2, <2>3
<1>5. worst(vs, part) = Max(W)
  BY DEF worst
<1>6. Max(W) \in W
  <2> HIDE DEF W
  <2> QED
    BY <1>4, Extremes
<1>7. worst(vs, part) \in Nat
  BY <1>4, <1>5, <1>6
<1>8. IsFiniteSet(U)
  <2>1. IsFiniteSet(1..worst(vs, part))
    BY <1>7, FS_Interval
  <2>2. IsFiniteSet(part \X (1..worst(vs, part)))
    BY <1>1, <2>1, FS_Product
  <2>3. QED
    BY <2>2, FS_Subset
<1>9. failed(vs, part) \in Nat /\ (failed(vs, part) = 0 <=> F = {})
  BY <1>1, FS_CardinalityType, FS_EmptySet DEF failed
<1>10. F = {} <=> \A k \in part : vs[k] = 0
  <2>1. \A k \in part : vs[k] \in Nat
    OBVIOUS
  <2>2. \A k \in part : vs[k] = 0 <=> ~(vs[k] > 0)
    BY <2>1
  <2>3. QED
    BY <2>2
<1>11. total(vs, part) \in Nat
  BY <1>8, FS_CardinalityType DEF total
<1>12. ASSUME \A k \in part : vs[k] = 0 PROVE worst(vs, part) = 0 /\ total(vs, part) = 0
  <2>1. worst(vs, part) = 0
    BY <1>5, <1>6, <1>12
  <2>2. U = {}
    BY <2>1
  <2>3. QED
    BY <2>1, <2>2, FS_EmptySet DEF total
<1>13. QED
  BY <1>7, <1>9, <1>10, <1>11, <1>12

\* A rank is made of the counts and of the violations.
LEMMA RankMade ==
  ASSUME NEW n \in Nat, NEW vs \in [1..n -> Nat],
         NEW hard, NEW soft, hard \cup soft = 1..n
  PROVE  LET rank == RuleRank(vs, hard, soft)
         IN  /\ rank \in [1..(5 + n) -> Int]
             /\ \A k \in 1..(5 + n) : rank[k] >= 0
             /\ rank[1] = failed(vs, hard) /\ rank[4] = failed(vs, soft)
             /\ rank[1] = 0 /\ rank[4] = 0 => \A k \in 1..(5 + n) : rank[k] = 0
<1> DEFINE h == failed(vs, hard)  w == worst(vs, hard)  t == total(vs, hard)
           s == failed(vs, soft)  u == total(vs, soft)
           counts == <<h, w, t, s, u>>
<1>1. hard \subseteq 1..n /\ soft \subseteq 1..n
  OBVIOUS
<1>2. h \in Nat /\ w \in Nat /\ t \in Nat /\ s \in Nat /\ u \in Nat
  BY <1>1, Counts
<1>3. /\ h = 0 => (\A k \in hard : vs[k] = 0) /\ w = 0 /\ t = 0
      /\ s = 0 => (\A k \in soft : vs[k] = 0) /\ u = 0
  BY <1>1, Counts
<1>4. RuleRank(vs, hard, soft) = counts \o vs
  BY DEF RuleRank
<1> HIDE DEF h, w, t, s, u
<1>5. counts \in Seq(Nat) /\ Len(counts) = 5 /\ vs \in Seq(Nat) /\ Len(vs) = n
  BY <1>2
<1>6. /\ counts[1] = h /\ counts[2] = w /\ counts[3] = t /\ counts[4] = s
      /\ counts[5] = u
  OBVIOUS
<1> DEFINE rank == counts \o vs
<1>7. /\ rank \in Seq(Nat) /\ Len(rank) = 5 + n
      /\ \A k \in 1..(5 + n) : rank[k] = IF k <= 5 THEN counts[k] ELSE vs[k - 5]
  <2> HIDE DEF counts
  <2>1. /\ counts \o vs \in Seq(Nat) /\ Len(counts \o vs) = Len(counts) + Len(vs)
        /\ \A i \in 1..Len(counts) + Len(vs) :
              (counts \o vs)[i] = IF i <= Len(counts) THEN counts[i]
                                 ELSE vs[i - Len(counts)]
    BY <1>5, ConcatProperties
  <2>2. QED
    BY <1>5, <2>1
<1> HIDE DEF counts, rank
<1>8. rank \in [1..(5 + n) -> Int] /\ \A k \in 1..(5 + n) : rank[k] >= 0
  <2>1. rank \in [1..(5 + n) -> Nat]
    BY <1>7
  <2>2. QED
    BY <2>1
<1>9. rank[1] = h /\ rank[4] = s
  BY <1>6, <1>7
<1>10. ASSUME h = 0, s = 0, NEW k \in 1..(5 + n) PROVE rank[k] = 0
  <2>1. CASE k <= 5
    <3>1. k \in {1, 2, 3, 4, 5}
      BY <2>1
    <3>2. QED
      BY <1>3, <1>6, <1>7, <1>10, <2>1, <3>1
  <2>2. CASE k > 5
    <3>1. k - 5 \in 1..n /\ rank[k] = vs[k - 5]
      BY <1>7, <2>2
    <3>2. QED
      BY <1>3, <1>10, <3>1
  <2>3. QED
    BY <2>1, <2>2
<1>11. QED
  BY <1>4, <1>8, <1>9, <1>10 DEF rank, h, s

-----------------------------------------------------------------------------
(* What an evaluation says.                                                *)

\* The mandatory rules met are all but the ones that the rank counts first.
LEMMA MetAndFailed ==
  ASSUME NEW rules, IsContract(rules), NEW solve,
         \A k \in DOMAIN rules : Covers(solve[rules[k].parameter], rules[k]),
         NEW vs \in [1..Len(rules) -> Nat],
         \A k \in DOMAIN rules : vs[k] = 0 <=> Complies(solve, rules[k])
  PROVE  LET hard == Part(rules, TRUE)
         IN  /\ IsFiniteSet(Mandatory(rules)) /\ IsFiniteSet(MandatoryMet(solve, rules))
             /\ Cardinality(MandatoryMet(solve, rules)) + failed(vs, hard)
                  = Cardinality(Mandatory(rules))
<1> DEFINE hard == Part(rules, TRUE)
           fine == {k \in hard : vs[k] = 0}
           bad  == {k \in hard : vs[k] > 0}
           name(K) == {rules[k] : k \in K}
<1>1. /\ hard \subseteq 1..Len(rules) /\ DOMAIN rules = 1..Len(rules)
      /\ IsFiniteSet(1..Len(rules))
  BY FS_Interval DEF Part, IsContract
<1>2. IsFiniteSet(hard)
  BY <1>1, FS_Subset
<1>3. \A j, k \in hard : rules[j] = rules[k] => j = k
  BY <1>1 DEF IsContract
<1>4. ASSUME NEW K, K \subseteq hard
      PROVE  IsFiniteSet(name(K)) /\ Cardinality(name(K)) = Cardinality(K)
  <2> DEFINE f == [k \in K |-> rules[k]]
  <2>1. f \in Bijection(K, name(K))
    <3>1. \A j, k \in K : rules[j] = rules[k] => j = k
      BY <1>3, <1>4
    <3>2. f \in [K -> name(K)] /\ \A k \in K : f[k] = rules[k]
      OBVIOUS
    <3>3. \A r \in name(K) : \E k \in K : f[k] = r
      OBVIOUS
    <3> HIDE DEF f, name
    <3>4. f \in Injection(K, name(K)) /\ f \in Surjection(K, name(K))
      BY <3>1, <3>2, <3>3 DEF Injection, Surjection, IsInjective
    <3>5. QED
      BY <3>4 DEF Bijection
  <2>2. ExistsBijection(K, name(K))
    BY <2>1 DEF ExistsBijection
  <2>3. IsFiniteSet(K)
    BY <1>2, <1>4, FS_Subset
  <2> HIDE DEF name
  <2>4. QED
    BY <2>2, <2>3, FS_Bijection
<1>5. Mandatory(rules) = name(hard)
  BY DEF Mandatory, ToSet, Part, IsContract, IsRule
<1>6. MandatoryMet(solve, rules) = name(fine)
  <2>1. \A q \in ToSet(rules) : Covers(solve[q.parameter], q)
    BY DEF ToSet
  <2>2. MandatoryMet(solve, rules) = {r \in name(hard) : Complies(solve, r)}
    BY <1>5, <2>1 DEF MandatoryMet
  <2>3. \A k \in hard : vs[k] = 0 <=> Complies(solve, rules[k])
    BY <1>1
  <2> HIDE DEF hard
  <2>4. QED
    BY <2>2, <2>3
<1>7. fine \subseteq hard /\ bad \subseteq hard /\ fine \cap bad = {} /\ fine \cup bad = hard
  <2>1. \A k \in hard : vs[k] \in Nat
    BY <1>1
  <2> HIDE DEF hard
  <2>2. QED
    BY <2>1
<1>8. Cardinality(hard) = Cardinality(fine) + Cardinality(bad)
  <2> HIDE DEF hard, fine, bad
  <2>1. IsFiniteSet(fine) /\ IsFiniteSet(bad)
    <3>1. fine \in SUBSET hard /\ bad \in SUBSET hard
      BY <1>7
    <3>2. QED
      BY <1>2, <3>1, FS_Subset
  <2>2. /\ Cardinality(fine) \in Nat /\ Cardinality(bad) \in Nat
        /\ Cardinality(fine \cap bad) = 0
    BY <1>7, <2>1, FS_CardinalityType, FS_EmptySet
  <2>3. Cardinality(fine \cup bad)
          = Cardinality(fine) + Cardinality(bad) - Cardinality(fine \cap bad)
    BY <2>1, FS_Union
  <2>4. Cardinality(fine \cup bad) = Cardinality(hard)
    <3>1. fine \cup bad = hard
      BY <1>7
    <3>2. QED
      BY <3>1, Zenon
  <2>5. QED
    BY <2>2, <2>3, <2>4
<1>9. failed(vs, hard) = Cardinality(bad)
  BY DEF failed
<1> HIDE DEF hard, fine, bad, name
<1>10. QED
  BY <1>4, <1>5, <1>6, <1>7, <1>8, <1>9 DEF hard

\* The verdict of an evaluation, its rank, and what both mean.
THEOREM EvaluationTheorem ==
  ASSUME NEW rules, IsContract(rules), NEW solve, IsResponse(solve),
         NEW e, e = Evaluate(solve, rules)
  PROVE  /\ e.status \in {"INVALID", "PASS", "FAIL"}
         /\ IsFiniteSet(Mandatory(rules)) /\ IsFiniteSet(MandatoryMet(solve, rules))
         /\ e.status = "INVALID" => MandatoryMet(solve, rules) # Mandatory(rules)
         /\ e.status # "INVALID" =>
              /\ e.rank \in [1..(5 + Len(rules)) -> Int]
              /\ \A k \in 1..(5 + Len(rules)) : e.rank[k] >= 0
              /\ e.status = "PASS" <=> e.rank[1] = 0
              /\ AllRulesPass(e) => \A k \in 1..(5 + Len(rules)) : e.rank[k] = 0
              /\ Cardinality(MandatoryMet(solve, rules)) + e.rank[1]
                   = Cardinality(Mandatory(rules))
              /\ e.rank[1] = 0 <=> MandatoryMet(solve, rules) = Mandatory(rules)
<1> DEFINE response(k) == solve[rules[k].parameter]
           vs   == [k \in DOMAIN rules |-> Violation(response(k), rules[k])]
           hard == Part(rules, TRUE)
           soft == Part(rules, FALSE)
           rank == RuleRank(vs, hard, soft)
           n    == Len(rules)
<1>1. n \in Nat /\ DOMAIN rules = 1..n /\ hard \cup soft = 1..n /\ hard # {}
  BY DEF IsContract, IsRule, Part
<1>2. \A k \in DOMAIN rules : IsRule(rules[k]) /\ IsTrace(response(k))
  BY DEF IsContract, IsRule, IsResponse
<1>3. IsFiniteSet(Mandatory(rules)) /\ Mandatory(rules) # {}
  <2>1. IsFiniteSet(1..n)
    BY <1>1, FS_Interval
  <2> DEFINE f == [k \in hard |-> rules[k]]
  <2>2. hard \in SUBSET 1..n
    BY <1>1
  <2>3. IsFiniteSet(hard)
    BY <2>1, <2>2, FS_Subset
  <2>4. Mandatory(rules) = {rules[k] : k \in hard}
    BY DEF Mandatory, ToSet, Part, IsContract, IsRule
  <2>5. f \in Surjection(hard, Mandatory(rules))
    BY <2>4 DEF Surjection
  <2> HIDE DEF hard, f
  <2>6. QED
    BY <1>1, <2>3, <2>4, <2>5, FS_Surjection
<1>4. MandatoryMet(solve, rules) \in SUBSET Mandatory(rules)
  BY DEF MandatoryMet
<1>5. IsFiniteSet(MandatoryMet(solve, rules))
  BY <1>3, <1>4, FS_Subset
<1>6. CASE \E k \in DOMAIN rules : ~Covers(response(k), rules[k])
  <2>1. e = [status |-> "INVALID", softFailed |-> 0, rank |-> << >>]
    BY <1>6 DEF Evaluate
  <2>2. MandatoryMet(solve, rules) = {}
    BY <1>6 DEF MandatoryMet, ToSet
  <2>3. QED
    BY <1>3, <1>5, <2>1, <2>2
<1>7. CASE \A k \in DOMAIN rules : Covers(response(k), rules[k])
  <2>1. e = [status |-> IF rank[1] = 0 THEN "PASS" ELSE "FAIL",
             softFailed |-> rank[4], rank |-> rank]
    <3>1. ~\E k \in DOMAIN rules : ~Covers(response(k), rules[k])
      BY <1>7
    <3>2. QED
      BY <3>1 DEF Evaluate
  <2>2. \A k \in DOMAIN rules : /\ Violation(response(k), rules[k]) \in Nat
                                /\ Violation(response(k), rules[k]) = 0
                                     <=> Complies(solve, rules[k])
    BY <1>2, <1>7, ViolationMeans
  <2>3. /\ vs \in [1..n -> Nat]
        /\ \A k \in DOMAIN rules : vs[k] = 0 <=> Complies(solve, rules[k])
    BY <1>1, <2>2
  <2> HIDE DEF vs, hard, soft, n
  <2>4. /\ rank \in [1..(5 + n) -> Int] /\ \A k \in 1..(5 + n) : rank[k] >= 0
        /\ rank[1] = failed(vs, hard)
        /\ rank[1] = 0 /\ rank[4] = 0 => \A k \in 1..(5 + n) : rank[k] = 0
    BY <1>1, <2>3, RankMade
  <2>5. Cardinality(MandatoryMet(solve, rules)) + failed(vs, hard)
          = Cardinality(Mandatory(rules))
    BY <1>7, <2>3, MetAndFailed DEF hard, n
  <2> HIDE DEF rank
  <2>6. /\ e.status = IF rank[1] = 0 THEN "PASS" ELSE "FAIL"
        /\ e.rank = rank /\ e.softFailed = rank[4]
    BY <2>1
  <2>7. rank[1] \in Int /\ rank[1] >= 0
    <3>1. 1 \in 1..(5 + n)
      BY <1>1
    <3>2. QED
      BY <2>4, <3>1
  <2>8. rank[1] = 0 <=> MandatoryMet(solve, rules) = Mandatory(rules)
    <3>1. /\ Cardinality(MandatoryMet(solve, rules)) \in Nat
          /\ Cardinality(Mandatory(rules)) \in Nat
      BY <1>3, <1>5, FS_CardinalityType
    <3>2. rank[1] = 0 <=> Cardinality(MandatoryMet(solve, rules))
                            = Cardinality(Mandatory(rules))
      BY <2>4, <2>5, <2>7, <3>1
    <3>3. QED
      BY <1>3, <1>4, <3>2, FS_Subset
  <2>9. AllRulesPass(e) => \A k \in 1..(5 + n) : rank[k] = 0
    BY <2>4, <2>6 DEF AllRulesPass
  <2>10. QED
    BY <1>3, <1>5, <2>4, <2>5, <2>6, <2>8, <2>9 DEF n
<1>8. QED
  BY <1>6, <1>7
===============================================================================
