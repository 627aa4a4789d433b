\* create_partition and add_cpu past the store's capacity.
CONSTANTS
  MAX_PRIMARY_PARTITIONS = 2
  MAX_PLATFORM_CPUS = 2
  CpuIds <- MC_CpuIds
  XC_PARTITION_PRIMARY = primary
  OtherPartitionType = other
  XC_PARTITION_INDEX_INVALID = invalid
  Garbage = garbage
  OrderedAdmission = TRUE
  SingleAdmission = TRUE
SPECIFICATION Spec
INVARIANT WithinCapacity
