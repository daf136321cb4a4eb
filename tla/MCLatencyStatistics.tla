------------------------- MODULE MCLatencyStatistics -------------------------
EXTENDS LatencyStatistics

SmallLatencies == {0, 3}
SomePercents == {0, 1, 25, 50, 75, 90, 95, 99, 100}
==============================================================================
