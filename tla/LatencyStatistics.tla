-------------------------- MODULE LatencyStatistics --------------------------
(***************************************************************************)
(* calculate_statistics.py over the results file that the receiver of      *)
(* Experiment leaves behind, at any time: minimum, maximum, percentile     *)
(* with linear interpolation, and the library's median, of the latencies   *)
(* it has collected.  Latencies are integers, and every statistic is a     *)
(* hundred times its value, so that interpolation stays exact; the         *)
(* program's rounding of floating-point numbers is not modelled.           *)
(***************************************************************************)
EXTENDS Experiment

CONSTANT
    Percents           \* the percentiles considered, 95 and 99 among them

ASSUME StatisticsAssumption ==
    /\ Latencies \subseteq Nat
    /\ {95, 99} \subseteq Percents /\ Percents \subseteq 0 .. 100

\* The latencies of the first n rows that are analysed, in the order of the rows.
collected[n \in 0 .. Len(rows)] ==
    IF n = 0 THEN <<>>
    ELSE IF Measured(rows[n]) THEN Append(collected[n - 1], rows[n].latency)
    ELSE collected[n - 1]

latencies == collected[Len(rows)]

------------------------------------------------------------------------------
(* The statistics                                                          *)

Ascending(t) == \A i, j \in DOMAIN t : i < j => t[i] <= t[j]

\* sorted: the same values, in ascending order.
SortedValues(s) ==
    CHOOSE t \in {[i \in DOMAIN s |-> s[p[i]]] : p \in Bijection(DOMAIN s, DOMAIN s)} :
        Ascending(t)

FloorIndex(n, p) == ((n - 1) * p) \div 100

CeilIndex(n, p) == -((-(n - 1) * p) \div 100)

InterpolatedSwapped(values, p) ==   \* mutant of Interpolated: the weights swapped
    LET k == (Len(values) - 1) * p
        f == FloorIndex(Len(values), p)
        c == CeilIndex(Len(values), p)
    IN  IF f = c THEN 100 * values[f + 1]
                 ELSE values[f + 1] * (k - 100 * f) + values[c + 1] * (100 * c - k)

\* Positions count from 0 in the program and from 1 in a sequence.
Interpolated(values, p) ==
    LET k == (Len(values) - 1) * p
        f == FloorIndex(Len(values), p)
        c == CeilIndex(Len(values), p)
    IN  IF f = c THEN 100 * values[f + 1]
                 ELSE values[f + 1] * (100 * c - k) + values[c + 1] * (k - 100 * f)

percentile(s, p) ==
    LET values == SortedValues(s)
    IN  IF Len(values) = 1 THEN 100 * values[1] ELSE Interpolated(values, p)

Minimum(s) == 100 * Min(Range(s))
Maximum(s) == 100 * Max(Range(s))

\* statistics.median: the middle value, or the mean of the two in the middle.
Median(s) ==
    LET values == SortedValues(s)
        n == Len(values)
    IN  IF n % 2 = 1 THEN 100 * values[n \div 2 + 1]
                     ELSE 50 * (values[n \div 2] + values[n \div 2 + 1])

------------------------------------------------------------------------------
(* Properties                                                              *)

\* The definition the percentile is to meet, without sorting: between the two values
\* that enclose position (n - 1) * p / 100, in proportion.  A value is at position i,
\* counting from 0, if at most i values are smaller and more than i are not greater.
At(s, i) ==
    CHOOSE v \in Range(s) :
        /\ Cardinality({j \in DOMAIN s : s[j] < v}) <= i
        /\ Cardinality({j \in DOMAIN s : s[j] <= v}) > i

ReferencePercentile(s, p) ==
    LET below == ((Len(s) - 1) * p) \div 100
        part == ((Len(s) - 1) * p) % 100
        above == IF part = 0 THEN below ELSE below + 1
    IN  100 * At(s, below) + part * (At(s, above) - At(s, below))

\* The statistics of a file are what they are named for, whatever the order of the
\* rows and whatever rows without a latency lie between them: each percentile is that
\* of its definition, and minimum, median and maximum, which the program finds in other
\* ways, are the percentiles 0, 50 and 100.
StatisticsDefined ==
    Len(latencies) # 0 =>
        /\ \A p \in Percents :
              percentile(latencies, p) = ReferencePercentile(latencies, p)
        /\ Minimum(latencies) = percentile(latencies, 0)
        /\ Median(latencies) = percentile(latencies, 50)
        /\ Maximum(latencies) = percentile(latencies, 100)
==============================================================================
