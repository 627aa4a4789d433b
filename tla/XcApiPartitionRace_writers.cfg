\* Two cpus admit cpus at once; nobody reads.
CONSTANTS
  MAX_PRIMARY_PARTITIONS = 1
  MAX_PLATFORM_CPUS = 2
  CpuIds <- MC_TwoCpuIds
  XC_PARTITION_PRIMARY = primary
  OtherPartitionType = other
  XC_PARTITION_INDEX_INVALID = invalid
  Garbage = garbage
  OrderedAdmission = TRUE
  SingleAdmission = TRUE
  Writers <- MC_TwoWriters
  Readers = {}
  NoResult = noresult
SPECIFICATION RaceSpec
\* Once every cpu id has been passed, the writers have nothing left to do.
CHECK_DEADLOCK FALSE
INVARIANT AdmissionsDistinct
