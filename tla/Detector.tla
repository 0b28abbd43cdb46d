------------------------------ MODULE Detector ------------------------------
(***************************************************************************)
(* The burst mark of a round (detect.go): a pure function of the losses of *)
(* the rounds Recent returns and of the round itself, computed on exact    *)
(* numbers.  A median may be a half and a deviation from it a half, so a   *)
(* median is kept twice over and a median of deviations four times.        *)
(***************************************************************************)
EXTENDS Integers, Sequences, FiniteSets

CONSTANT Warm   \* rounds in the window before its score is used (30)

ASSUME WarmAssumption == Warm \in Nat \ {0}

\* Sorting puts in place k the value that has fewer than k before it, and
\* with its equals at least k.
Below(s, v) == Cardinality({i \in DOMAIN s : s[i] < v})
UpTo(s, v) == Cardinality({i \in DOMAIN s : s[i] <= v})

Ascending(s) ==
  [k \in DOMAIN s |-> CHOOSE v \in {s[i] : i \in DOMAIN s} : Below(s, v) < k /\ k <= UpTo(s, v)]

\* 2 * median(s): sort, then the middle, or the mean of the two middle ones.
Median2(s) ==
  LET c == Ascending(s)
      n == Len(s)
  IN  IF n = 0 THEN 0
      ELSE IF n % 2 = 1 THEN 2 * c[n \div 2 + 1]
      ELSE c[n \div 2] + c[n \div 2 + 1]

\* 4 * the median absolute deviation.
Mad4(s) ==
  LET m == Median2(s)
  IN  Median2([i \in DOMAIN s |-> IF 2 * s[i] > m THEN 2 * s[i] - m ELSE m - 2 * s[i]])

\* robustZ returns -1 for a deviation of 0; it is negative, too, for a round
\* that lost less than the median.
Negative(x, s) == Mad4(s) = 0 \/ 2 * x < Median2(s)

\* 0.6745 * (x - median) / MAD >= 3.5
Beyond(x, s) == 13490 * (2 * x - Median2(s)) >= 35000 * Mad4(s)

\* The mark of a round that lost `loss` of `sent` probes.
CheckBurst(hist, sent, loss) ==
  /\ loss >= 2
  /\ IF Len(hist) < Warm THEN 4 * loss >= sent
     ELSE IF Negative(loss, hist) THEN 10 * loss >= sent
     ELSE Beyond(loss, hist)

-----------------------------------------------------------------------------
\* More than half of the past rounds lost nothing.
Healthy(hist) == 2 * UpTo(hist, 0) > Len(hist)

=============================================================================
