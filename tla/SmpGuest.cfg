\* BSP and two APs, either vendor: every cpu comes up, each AP with the
\* vector the guest sent it.  Once every cpu runs, nothing is left to do.
CONSTANTS
  Cpus <- MC_Cpus
  BSP = 0
  Vectors <- MC_Vectors
  CPU_VENDOR_AMD = amd
  CPU_VENDOR_INTEL = intel
  NoVector = novector
SPECIFICATION Spec
CHECK_DEADLOCK FALSE
INVARIANT TypeOK
PROPERTY AllCpusOperational
