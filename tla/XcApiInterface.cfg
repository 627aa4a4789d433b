\* The init slab drives the partition API through the gateway: two
\* partitions, two cpu slots, three cpuids, with setup failures.
CONSTANTS
  MAX_PRIMARY_PARTITIONS = 2
  MAX_PLATFORM_CPUS = 2
  CpuIds <- MC_CpuIds
  XC_PARTITION_PRIMARY = primary
  OtherPartitionType = other
  XC_PARTITION_INDEX_INVALID = invalid
  Garbage = garbage
  OrderedAdmission = TRUE
  SingleAdmission = TRUE
  FnIds <- MC_FnIds
  Callees <- MC_InitCallee
  NoCall = nocall
  Callers <- MC_InitCaller
SPECIFICATION GatewaySpec
\* HALT() on an unknown fn_id stops the processor for good.
CHECK_DEADLOCK FALSE
INVARIANT GatewayTypeOK
INVARIANT GetContextDescAgrees
INVARIANT MembershipConsistent
INVARIANT SnapshotIsPosition
PROPERTY AdmissionAppendOnly
