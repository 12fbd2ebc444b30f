------------------------------ MODULE Downsample ------------------------------
(***************************************************************************)
(* downsample_avg of ui/ui_trend.c: which of the n rows of a query, n > m, *)
(* are averaged into which of the m points of the chart.  Rows and points  *)
(* are numbered from 0, as in the code; the averages are left out.         *)
(*                                                                         *)
(* The limits of a point are (int)(i * step), where step is n / m in       *)
(* double precision.  Both operations round, by far less than 1 / m:       *)
(* where i * n / m is not whole its integer part comes out right, and      *)
(* where it is, the product may also come out just below it.               *)
(***************************************************************************)
EXTENDS Integers, FiniteSets

Exact(i, n, m) == (i * n) \div m

Limit(i, n, m) ==
    IF i > 0 /\ i * n = Exact(i, n, m) * m
    THEN {Exact(i, n, m), Exact(i, n, m) - 1} ELSE {Exact(i, n, m)}

(* What the limits of all points can be: the end of one point is computed  *)
(* as the start of the next one is.                                        *)
Limits(n, m) ==
    {lim \in [0..m -> -1..n] : \A i \in 0..m : lim[i] \in Limit(i, n, m)}

(* The rows averaged into point i; the code ends the loop when there are   *)
(* none, and cuts the last limit to the number of rows.                    *)
Rows(lim, i) == {j \in Int : lim[i] <= j /\ j < lim[i + 1]}
=============================================================================
