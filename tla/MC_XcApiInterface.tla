--------------------------- MODULE MC_XcApiInterface ---------------------------
EXTENDS XcApiInterface

MC_CpuIds == {0, 1, 2}
MC_FnIds == {"PARTITIONCREATE", "PARTITIONADDCPU", "PARTITIONGETCONTEXTDESC",
             "PARTITIONSTARTCPU", "HPTGETENTRY", "HPTSETPROT", "HPTFLUSHCACHESSMP"}
\* The init slab calling the test slab, a call its row grants.
MC_InitCaller == {XMHF_HYP_SLAB_XCINIT}
MC_InitCallee == {XMHF_HYP_SLAB_XCTESTSLAB1}
\* The guest slab, whose row grants no calls.
MC_GuestCaller == {XMHF_GUEST_SLAB_XCGUESTSLAB}
====
