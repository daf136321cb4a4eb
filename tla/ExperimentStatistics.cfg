\* Lost frames, other frames, interruptions and a second start, and the statistics of
\* the file at any time.
SPECIFICATION FairSpec

CONSTANTS
    Count = 3
    Target = 4
    MaxOther = 2
    MaxStarts = 2
    Latencies <- SmallLatencies
    NoLatency = NoLatency
    Percents <- SomePercents

INVARIANTS
    TypeOK
    RowsNumbered
    LossAccounted
    StatisticsDefined
PROPERTIES
    StopsAtTarget

\* The experiment ends.
CHECK_DEADLOCK FALSE
