\* Builds and rebuilds of three uh slabs of any type, every iotbl
\* placement, and a call with an out-of-window slab id.  HALT() stops the
\* processor, so a halted state has no successor by design.
CONSTANTS
  PAE_PTRS_PER_PDPT = 2
  PAE_PTRS_PER_PDT = 2
  PAE_PTRS_PER_PT = 3
  XMHFGEEC_UHSLAB_BASE_IDX = 1
  XMHFGEEC_UHSLAB_MAX_IDX = 3
  SlabIds <- MC_SlabIds
  SlabTypes <- MC_SlabTypes
  XMHFGEEC_SLABTYPE_VfT_PROG = "VfT_PROG"
  XMHFGEEC_SLABTYPE_VfT_SENTINEL = "VfT_SENTINEL"
  IotblBase <- MC_IotblBase
  IotblStarts <- MC_IotblStarts
  IotblPages = 3
  NoMapping = nomapping
SPECIFICATION Spec
CHECK_DEADLOCK FALSE
INVARIANT TypeOK
INVARIANT TranslationMatchesReference
