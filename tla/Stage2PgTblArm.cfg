\* Four l1 slices of which three are mapped, 2 l2 and 3 l3 entries per table:
\* every table size differs, so a stride taken from the wrong one shows.
CONSTANTS
  L1_LDESC_TABLE_MAXENTRIES = 4
  L1_LDESC_TABLE_ENTRIES = 3
  L2_LDESC_TABLE_MAXENTRIES = 2
  L3_LDESC_TABLE_MAXENTRIES = 3
  HDCR_HPMN_MASK = 31
  HCPTR_RES1_MASK = 13311
  ResetValues <- MC_ResetValues
  Unknown = unknown
  Fault = fault
SPECIFICATION Spec
\* Boot code calls the three functions once each and goes on; repeating
\* them changes nothing, so every state has a successor.
INVARIANT TypeOK
INVARIANT Stage2Identity
