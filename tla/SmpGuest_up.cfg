\* A uniprocessor platform: the only cpu is the BSP.
CONSTANTS
  Cpus <- MC_UpCpus
  BSP = 0
  Vectors <- MC_Vectors
  CPU_VENDOR_AMD = amd
  CPU_VENDOR_INTEL = intel
  NoVector = novector
SPECIFICATION Spec
CHECK_DEADLOCK FALSE
PROPERTY AllCpusOperational
