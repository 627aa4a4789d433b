\* Every build of gcm_gf_mult on 4-byte elements, each argument dense or
\* a monomial.
CONSTANTS
  NB = 4
  InputsA <- MC_InputsA
  InputsB <- MC_InputsB
SPECIFICATION Spec
INVARIANT GcmTypeOK
INVARIANT GfMultIsFieldProduct
\* gcm_gf_mult returns once; the caller's call is then over.
CHECK_DEADLOCK FALSE
