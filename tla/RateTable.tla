------------------------------ MODULE RateTable ------------------------------
(* The exchange_rates table and the two ways it is read.                     *)
(*                                                                           *)
(* The table holds at most one rate per day for USD -> PEN: sql/015 admits   *)
(* no other pair, so the target currency is left out.  A lookup carries the  *)
(* latest earlier rate forward without limit; the jobs' baseline is the      *)
(* latest rate strictly before a day and no older than a window.             *)
EXTENDS Integers, FiniteSets

CONSTANTS
    Day,        \* the calendar days, a set of integers
    Rate,       \* the positive rates a provider publishes, as integers
    NoRate      \* a day without a row, a lookup without an answer

ASSUME DayAssumption == Day \subseteq Int
ASSUME RateAssumption == Rate \subseteq Nat \ {0}
ASSUME NoRateAssumption == NoRate \notin Int /\ NoRate \notin [rate : Rate, date : Day]

RateTables == [Day -> Rate \cup {NoRate}]

Stored(table) == {d \in Day : table[d] # NoRate}

\* ORDER BY rate_date DESC LIMIT 1: the rows of S that no row of S follows.
LatestOf(S) == {d \in S : \A e \in S : e <= d}

(* A row is its rate and the day it is dated; no row is NoRate.              *)
LatestRow(table, S) ==
    IF S = {} THEN NoRate
    ELSE LET d == CHOOSE e \in LatestOf(S) : TRUE
         IN  [rate |-> table[d], date |-> d]

\* The row that prices day k: rate_date <= k, however old.
CarriedForward(table, k) == LatestRow(table, {d \in Stored(table) : d <= k})

\* Mutant: a baseline of any age.
AnyBaselineDays(table, k, window) == {d \in Stored(table) : d < k}

\* The row a new rate for day k is judged against.
BaselineDays(table, k, window) ==
    {d \in Stored(table) : d < k /\ d >= k - window}

Baseline(table, k, window) == LatestRow(table, BaselineDays(table, k, window))
=============================================================================
