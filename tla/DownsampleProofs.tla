--------------------------- MODULE DownsampleProofs ---------------------------
(***************************************************************************)
(* What downsample_avg does with every number of rows and points.          *)
(***************************************************************************)
EXTENDS Downsample, TLAPS

(* Integer division, as far as it is needed: the quotient is the greatest  *)
(* number whose product with the divisor is not greater than the dividend. *)
LEMMA Quotient ==
    ASSUME NEW a \in Int, NEW m \in Nat \ {0}
    PROVE  /\ a \div m \in Int
           /\ (a \div m) * m <= a
           /\ a < (a \div m) * m + m
BY SMT

LEMMA Multiples ==
    ASSUME NEW a \in Int, NEW b \in Int, NEW m \in Nat \ {0}, a * m < b * m
    PROVE  a < b
BY SMT

LEMMA MultiplesNext ==
    ASSUME NEW a \in Int, NEW b \in Int, NEW m \in Nat \ {0}, a * m < b * m + m
    PROVE  a <= b
BY SMT

(* Where the limits of a point lie, with i * n and (i + 1) * n for its two *)
(* ends measured in units of 1 / m of a row.                               *)
LEMMA LimitLow ==
    ASSUME NEW n \in Nat, NEW m \in Nat \ {0}, NEW lim \in Limits(n, m), NEW i \in 0..m
    PROVE  /\ lim[i] \in Int
           /\ lim[i] * m <= i * n
           /\ i * n <= (lim[i] + 1) * m
<1>1. i * n \in Int
  OBVIOUS
<1>2. /\ Exact(i, n, m) \in Int
      /\ Exact(i, n, m) * m <= i * n
      /\ i * n < Exact(i, n, m) * m + m
  BY <1>1, Quotient DEF Exact
<1>3. lim[i] = Exact(i, n, m) \/ (lim[i] = Exact(i, n, m) - 1 /\ i * n = Exact(i, n, m) * m)
  BY DEF Limits, Limit
<1>4. CASE lim[i] = Exact(i, n, m)
  BY <1>1, <1>2, <1>4
<1>5. CASE lim[i] = Exact(i, n, m) - 1 /\ i * n = Exact(i, n, m) * m
  BY <1>1, <1>2, <1>5
<1>. QED
  BY <1>3, <1>4, <1>5

LEMMA Increasing ==
    ASSUME NEW n \in Nat, NEW m \in Nat \ {0}, n > m, NEW lim \in Limits(n, m),
           NEW i \in 0..m, NEW k \in 0..m, i < k
    PROVE  lim[i] < lim[k]
<1>1. (i + 1) * n <= k * n
  OBVIOUS
<1>2. (i + 1) * n = i * n + n
  OBVIOUS
<1>3. lim[i] \in Int /\ lim[k] \in Int /\ lim[i] * m <= i * n /\ k * n <= (lim[k] + 1) * m
  BY LimitLow
<1>4. (lim[k] + 1) * m = lim[k] * m + m
  BY <1>3
<1>5. i * n \in Int /\ k * n \in Int /\ lim[i] * m \in Int /\ lim[k] * m \in Int
  BY <1>3
<1>6. lim[i] * m + n <= lim[k] * m + m
  BY <1>1, <1>2, <1>3, <1>4, <1>5
<1>7. lim[i] * m < lim[k] * m
  BY <1>5, <1>6
<1>. QED
  BY <1>3, <1>7, Multiples

(* The first limit is 0, and the last one is the number of rows or, when   *)
(* the product was rounded down, one less: then the newest row is left out *)
(* of the chart.                                                           *)
THEOREM FirstAndLast ==
    ASSUME NEW n \in Nat, NEW m \in Nat \ {0}, n > m, NEW lim \in Limits(n, m)
    PROVE  lim[0] = 0 /\ lim[m] \in {n, n - 1}
<1>1. lim[0] = 0
  <2>1. 0 \in 0..m /\ lim[0] \in Limit(0, n, m)
    BY DEF Limits
  <2>2. lim[0] = Exact(0, n, m)
    BY <2>1 DEF Limit
  <2>3. 0 * n = 0 /\ 0 \div m = 0
    OBVIOUS
  <2>. QED
    BY <2>2, <2>3 DEF Exact
<1>2. lim[m] \in Int /\ lim[m] * m <= n * m /\ n * m <= (lim[m] + 1) * m
  <2>1. m \in 0..m /\ m * n = n * m
    OBVIOUS
  <2>. QED
    BY <2>1, LimitLow
<1>3. (lim[m] + 1) * m = lim[m] * m + m /\ n * m + m = (n + 1) * m
  BY <1>2
<1>4. lim[m] * m \in Int /\ n * m \in Int
  BY <1>2
<1>5. lim[m] * m < n * m + m /\ n * m < (lim[m] + 1) * m + m
  BY <1>2, <1>3, <1>4
<1>6. lim[m] <= n /\ n <= lim[m] + 1
  BY <1>2, <1>5, MultiplesNext
<1>. QED
  BY <1>1, <1>2, <1>6

(* No point is the average of no rows, which would be a division by 0.     *)
THEOREM NoEmptyPoint ==
    ASSUME NEW n \in Nat, NEW m \in Nat \ {0}, n > m, NEW lim \in Limits(n, m),
           NEW i \in 0..(m - 1)
    PROVE  lim[i] \in Rows(lim, i)
<1>1. i \in 0..m /\ i + 1 \in 0..m /\ i < i + 1
  OBVIOUS
<1>2. lim[i] \in Int /\ lim[i] < lim[i + 1]
  BY <1>1, LimitLow, Increasing
<1>. QED
  BY <1>2 DEF Rows

(* No row is averaged into two points.                                     *)
THEOREM RowsDisjoint ==
    ASSUME NEW n \in Nat, NEW m \in Nat \ {0}, n > m, NEW lim \in Limits(n, m),
           NEW i \in 0..(m - 1), NEW k \in 0..(m - 1), i < k
    PROVE  Rows(lim, i) \cap Rows(lim, k) = {}
<1>1. i + 1 \in 0..m /\ k \in 0..m /\ k + 1 \in 0..m
  OBVIOUS
<1>2. lim[i + 1] \in Int /\ lim[k] \in Int
  BY <1>1, LimitLow
<1>3. lim[i + 1] <= lim[k]
  BY <1>1, <1>2, Increasing
<1>. QED
  BY <1>2, <1>3 DEF Rows

(* Every row but the newest is averaged into some point.                   *)
THEOREM RowsCovered ==
    ASSUME NEW n \in Nat, NEW m \in Nat \ {0}, n > m, NEW lim \in Limits(n, m),
           NEW j \in 0..(n - 2)
    PROVE  \E i \in 0..(m - 1) : j \in Rows(lim, i)
<1> DEFINE b == (j + 1) * m - 1
           i == b \div n
<1>1. j \in Int /\ b \in Int /\ 0 <= b /\ b < n * m /\ n \in Nat \ {0}
  <2>1. j + 1 >= 1 /\ j + 1 <= n
    OBVIOUS
  <2>2. (j + 1) * m >= m /\ (j + 1) * m <= n * m
    BY <2>1
  <2>. QED
    BY <2>2
<1>2. i \in Int /\ i * n <= b /\ b < i * n + n
  BY <1>1, Quotient
<1>3. i \in 0..(m - 1)
  <2>1. 0 <= i
    <3>1. 0 * n < i * n + n
      BY <1>1, <1>2
    <3>. QED
      BY <1>1, <1>2, <3>1, MultiplesNext
  <2>2. i < m
    <3>1. i * n < m * n
      BY <1>1, <1>2
    <3>. QED
      BY <1>1, <1>2, <3>1, Multiples
  <2>. QED
    BY <1>2, <2>1, <2>2
<1>4. lim[i] <= j
  <2>0. i \in 0..m
    BY <1>3
  <2>1. lim[i] \in Int /\ lim[i] * m <= i * n
    BY <2>0, LimitLow
  <2>2. lim[i] * m < j * m + m
    BY <1>1, <1>2, <2>1
  <2>. QED
    BY <2>1, <2>2, MultiplesNext
<1>5. i + 1 \in 0..m /\ lim[i] \in Int /\ lim[i + 1] \in Int /\ j <= lim[i + 1]
  <2>1. i + 1 \in 0..m /\ i \in 0..m
    BY <1>3
  <2>2. lim[i] \in Int /\ lim[i + 1] \in Int /\ (i + 1) * n <= (lim[i + 1] + 1) * m
    BY <2>1, LimitLow
  <2>3. (i + 1) * n = i * n + n /\ (lim[i + 1] + 1) * m = lim[i + 1] * m + m
    BY <1>2, <2>2
  <2>4. j * m < lim[i + 1] * m + m
    BY <1>1, <1>2, <2>2, <2>3
  <2>. QED
    BY <1>1, <2>1, <2>2, <2>4, MultiplesNext
<1>6. CASE j < lim[i + 1]
  BY <1>1, <1>3, <1>4, <1>6 DEF Rows
<1>7. CASE j = lim[i + 1] /\ i + 1 < m
  <2>1. i + 1 \in 0..(m - 1) /\ i + 2 \in 0..m /\ (i + 1) + 1 = i + 2
    BY <1>3, <1>7
  <2>2. lim[i + 1] < lim[(i + 1) + 1]
    BY <1>5, <2>1, Increasing
  <2>3. j \in Rows(lim, i + 1)
    BY <1>1, <1>7, <2>2 DEF Rows
  <2>. QED
    BY <2>1, <2>3
<1>8. CASE j = lim[i + 1] /\ i + 1 = m
  BY <1>8, FirstAndLast
<1>. QED
  BY <1>1, <1>3, <1>5, <1>6, <1>7, <1>8
=============================================================================
