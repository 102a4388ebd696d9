--------------------------- MODULE MCMetricsScrape ---------------------------
(* MetricsScrape on small instances: runs of the job, volumes and what a    *)
(* volume can transfer in one tick.                                         *)
EXTENDS MetricsScrape, TLC

CONSTANTS s1, s2,         \* runs of the metrics job
          system, blank   \* volumes: one with a size, one that rounds to 0 GB

RunSymmetry == Permutations(Scrapers)

Nothing == [r |-> 0, w |-> 0]
Both == [r |-> 1, w |-> 1]
ReadOnly == [r |-> 1, w |-> 0]
WriteOnly == [r |-> 0, w |-> 1]

Always == {Both}
NothingOrBoth == {Nothing, Both}
AnyTransfer == {Nothing, Both, ReadOnly, WriteOnly}
=============================================================================
