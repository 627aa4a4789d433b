------------------------- MODULE MC_XcApiPartitionRace -------------------------
EXTENDS XcApiPartitionRace

\* Cpu ids start at 1 so that a zeroed g_xc_cpu slot is told apart.
MC_CpuIds == {1, 2, 3}
MC_TwoCpuIds == {1, 2}
MC_OneWriter == {"bsp"}
MC_TwoWriters == {"bsp", "ap1"}
MC_Readers == {"ap1"}
====
