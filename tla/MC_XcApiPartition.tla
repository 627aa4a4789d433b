------------------------- MODULE MC_XcApiPartition -------------------------
EXTENDS XcApiPartition

\* Two partitions and two cpu slots: enough to fill one partition, to place a
\* third cpu in the second one (the global store's last slot), and to reach
\* every early return of add_cpu.
MC_CpuIds == {0, 1, 2}
=============================================================================
