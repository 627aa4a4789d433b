\* The BSP admits cpus while an AP looks itself up.
CONSTANTS
  MAX_PRIMARY_PARTITIONS = 1
  MAX_PLATFORM_CPUS = 2
  CpuIds <- MC_CpuIds
  XC_PARTITION_PRIMARY = primary
  OtherPartitionType = other
  XC_PARTITION_INDEX_INVALID = invalid
  Garbage = garbage
  OrderedAdmission = TRUE
  SingleAdmission = TRUE
  Writers <- MC_OneWriter
  Readers <- MC_Readers
  NoResult = noresult
SPECIFICATION RaceSpec
INVARIANT RaceTypeOK
INVARIANT ReaderSeesCompleteCpu
INVARIANT ReaderFindsAdmitted
PROPERTY ImplementsAtomicAddCpu
