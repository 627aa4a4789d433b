\* The guest slab calls the core API: nothing checks its capabilities.
CONSTANTS
  MAX_PRIMARY_PARTITIONS = 1
  MAX_PLATFORM_CPUS = 2
  CpuIds <- MC_CpuIds
  XC_PARTITION_PRIMARY = primary
  OtherPartitionType = other
  XC_PARTITION_INDEX_INVALID = invalid
  Garbage = garbage
  OrderedAdmission = TRUE
  SingleAdmission = TRUE
  FnIds <- MC_FnIds
  Callees <- MC_InitCallee
  NoCall = nocall
  Callers <- MC_GuestCaller
SPECIFICATION GatewaySpec
CHECK_DEADLOCK FALSE
INVARIANT CallsRespectCapabilities
