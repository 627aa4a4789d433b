------------------------- MODULE MC_NestedPgTblUH -------------------------
EXTENDS NestedPgTblUH

\* Slab 0 is below the uh window; slabs 1..3 are the three uh slabs.
MC_SlabIds == {0, 1, 2, 3}
MC_SlabTypes == {"VfT_PROG", "VfT_SENTINEL", "uVU_PROG"}
\* Private iotbl frames, above the 12 guest pages.
MC_IotblBase == [s \in MC_SlabIds |-> 100 + 10 * s]
\* Every placement of the 3-page region: inside one leaf table (0, 3, ...)
\* and straddling two (1, 2, 4, ...).
MC_IotblStarts == 0..9
=============================================================================
