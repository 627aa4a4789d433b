--------------------------- MODULE XcApiPartition ---------------------------
(***************************************************************************)
(* The partition/CPU context manager of the XMHF core API (xcapipartition- *)
(* code.c): xc_api_partition_create, xc_api_partition_addcpu,             *)
(* xc_api_partition_getcontextdesc and xc_api_partition_startcpu, over the *)
(* static tables g_xc_primary_partition, g_xc_cpu and                      *)
(* _xc_cpupartitiontable and their hand-maintained counters.              *)
(*                                                                         *)
(* A C array T[N] is modelled as a function on 0..N: index N stands for    *)
(* the memory just past the array, which an off-by-one capacity check can *)
(* write.  The write is kept (the slot holds what was written) so that    *)
(* the rest of the behaviour can still be explored; WithinCapacity says    *)
(* whether it ever happens.                                                *)
(***************************************************************************)
EXTENDS Integers, FiniteSets, FiniteSetsExt

CONSTANTS
  MAX_PRIMARY_PARTITIONS,      \* size of g_xc_primary_partition
  MAX_PLATFORM_CPUS,           \* size of g_xc_cpu, _xc_cpupartitiontable, cputable
  CpuIds,                      \* physical cpu ids the firmware may report
  XC_PARTITION_PRIMARY,        \* the only supported partition type
  OtherPartitionType,          \* any other partitiontype argument
  XC_PARTITION_INDEX_INVALID,  \* the invalid-index sentinel (model value)
  Garbage,                     \* value of a never-written numcpus field (model value)
  OrderedAdmission,            \* callers add cpus only to created partitions
  SingleAdmission              \* callers pass each cpuid to add_cpu at most once

ASSUME MAX_PRIMARY_PARTITIONS \in Nat \ {0}
ASSUME MAX_PLATFORM_CPUS \in Nat \ {0}
ASSUME CpuIds \subseteq Nat
ASSUME OrderedAdmission \in BOOLEAN /\ SingleAdmission \in BOOLEAN

INVALID == XC_PARTITION_INDEX_INVALID

VARIABLES
  partition_current_index,         \* _partition_current_index
  xc_cpu_current_index,            \* _xc_cpu_current_index
  cpupartitiontable,               \* _xc_cpupartitiontable
  cpupartitiontable_current_index, \* _xc_cpupartitiontable_current_index
  xc_cpu,                          \* g_xc_cpu
  primary_partition,               \* g_xc_primary_partition
  hpt_shaped,   \* partitions for which xc_api_hpt_arch_establishshape ran
  srval,        \* the value the last API call returned
  addcpu_calls  \* history: every add_cpu call's cpuid and returned descriptor

vars == <<partition_current_index, xc_cpu_current_index, cpupartitiontable,
          cpupartitiontable_current_index, xc_cpu, primary_partition,
          hpt_shaped, srval, addcpu_calls>>

PartitionSlots == 0..MAX_PRIMARY_PARTITIONS
CpuSlots == 0..MAX_PLATFORM_CPUS
CputableSlots == 0..(MAX_PLATFORM_CPUS - 1)

\* Zero-initialized static storage.
CpuZero == [cpuid |-> 0, is_bsp |-> FALSE, is_quiesced |-> FALSE,
            parentpartition_index |-> 0]
CptZero == [cpuid |-> 0, partition_index |-> 0, cpu_index |-> 0]
PartitionZero == [partitionid |-> 0, partitiontype |-> 0, numcpus |-> 0,
                  cputable |-> [k \in CputableSlots |-> [cpuid |-> 0, cpu_index |-> 0]]]

\* A context_desc_t.
Desc(ci, bsp, pi, n) ==
  [cpu_index |-> ci, isbsp |-> bsp, partition_index |-> pi, numcpus |-> n]

IsValid(d) == d.cpu_index # INVALID

\* slab_retval_t is a union; a value is tagged with the member written.
RetU32(x) == [retval_u32 |-> x]
RetContextDesc(d) == [retval_context_desc |-> d]
RetBool(b) == [retval_bool |-> b]

\* The counters and tables of the cpus, which only add_cpu writes.
CpuTables == <<xc_cpu_current_index, cpupartitiontable, cpupartitiontable_current_index, xc_cpu>>
\* Every static of the context manager.
Registry == <<partition_current_index, CpuTables, primary_partition, hpt_shaped>>

Init ==
  /\ partition_current_index = 0
  /\ xc_cpu_current_index = 0
  /\ cpupartitiontable = [i \in CpuSlots |-> CptZero]
  /\ cpupartitiontable_current_index = 0
  /\ xc_cpu = [i \in CpuSlots |-> CpuZero]
  /\ primary_partition = [p \in PartitionSlots |-> PartitionZero]
  /\ hpt_shaped = {}
  /\ srval = INVALID
  /\ addcpu_calls = {}

-----------------------------------------------------------------------------
(* xc_api_partition_create                                                 *)

\* Lines 291-296: an unsupported type, or the partition store judged exhausted.
CreateRefused(partitiontype) ==
  partitiontype # XC_PARTITION_PRIMARY \/ partition_current_index > MAX_PRIMARY_PARTITIONS

\* Mutant: the counter is not advanced, so the same slot is initialized again.
PartitionCounterNoIncrement(idx) == UNCHANGED partition_current_index

\* Line 306.
PartitionCounterNext(idx) == partition_current_index' = idx + 1

\* The slot at the counter is initialized, its nested page-table shape is
\* established, and the counter is advanced; a refusal changes nothing.
xc_api_partition_create(partitiontype) ==
  LET idx == partition_current_index IN
  /\ \/ /\ CreateRefused(partitiontype)
        /\ srval' = RetU32(INVALID)
        /\ UNCHANGED <<partition_current_index, primary_partition, hpt_shaped>>
     \/ /\ ~CreateRefused(partitiontype)
        /\ primary_partition' = [primary_partition EXCEPT ![idx].partitionid = idx,
              ![idx].partitiontype = XC_PARTITION_PRIMARY, ![idx].numcpus = 0]
        /\ hpt_shaped' = hpt_shaped \cup {idx}
        /\ PartitionCounterNext(idx)
        /\ srval' = RetU32(idx)
  /\ UNCHANGED <<CpuTables, addcpu_calls>>

-----------------------------------------------------------------------------
(* xc_api_partition_addcpu                                                 *)

\* Mutant: the per-partition capacity check is dropped.
PartitionFullNever(partition_index) == FALSE

\* Line 334.
PartitionFull(partition_index) ==
  primary_partition[partition_index].numcpus >= MAX_PLATFORM_CPUS

\* The early returns, in the order the code tests them.
AddCpuRejected(partition_index) ==
  \/ ~(partition_index >= 0 /\ partition_index < MAX_PRIMARY_PARTITIONS)
  \/ xc_cpu_current_index > MAX_PLATFORM_CPUS
  \/ cpupartitiontable_current_index > MAX_PLATFORM_CPUS
  \/ PartitionFull(partition_index)

\* A new g_xc_cpu slot at the cpu counter.
NewCpu(partition_index, cpuid, is_bsp) ==
  /\ xc_cpu_current_index' = xc_cpu_current_index + 1
  /\ xc_cpu' = [xc_cpu EXCEPT ![xc_cpu_current_index] =
        [cpuid |-> cpuid, is_bsp |-> is_bsp, is_quiesced |-> FALSE,
         parentpartition_index |-> partition_index]]

\* Mutant: the table counter is not advanced.
CptCounterNoIncrement == UNCHANGED cpupartitiontable_current_index

\* Line 347.
CptCounterNext == cpupartitiontable_current_index' = cpupartitiontable_current_index + 1

\* A cpuid -> (partition, cpu index) entry at the table counter.
NewCptEntry(partition_index, cpuid) ==
  /\ cpupartitiontable' = [cpupartitiontable EXCEPT ![cpupartitiontable_current_index] =
        [cpuid |-> cpuid, partition_index |-> partition_index,
         cpu_index |-> xc_cpu_current_index]]
  /\ CptCounterNext

\* Mutant: numcpus is incremented before the member entry is written.
NewMemberSwapped(partition_index, cpuid) ==
  LET n == primary_partition[partition_index].numcpus IN
  primary_partition' = [primary_partition EXCEPT
     ![partition_index].cputable[n + 1] = [cpuid |-> cpuid, cpu_index |-> xc_cpu_current_index],
     ![partition_index].numcpus = n + 1]

\* The cpu appended to the partition's member list.
NewMember(partition_index, cpuid) ==
  LET n == primary_partition[partition_index].numcpus IN
  primary_partition' = [primary_partition EXCEPT
     ![partition_index].cputable[n] = [cpuid |-> cpuid, cpu_index |-> xc_cpu_current_index],
     ![partition_index].numcpus = n + 1]

\* Mutant: the partition's cpu count is read before it is incremented.
AdmittedDescBeforeIncrement(partition_index, is_bsp) ==
  Desc(xc_cpu_current_index, is_bsp, partition_index,
       primary_partition[partition_index].numcpus)

\* The descriptor built after the tables are written: the new cpu index and
\* the partition's cpu count as it is right after this admission.
AdmittedDesc(partition_index, is_bsp) ==
  Desc(xc_cpu_current_index, is_bsp, partition_index,
       primary_partition[partition_index].numcpus + 1)

\* setup_ok is the result of xc_api_cpustate_arch_setupbasestate.  On its
\* failure the descriptor's indices are invalidated but the tables keep
\* the new cpu.
xc_api_partition_addcpu(partition_index, cpuid, is_bsp, setup_ok) ==
  /\ \/ /\ AddCpuRejected(partition_index)
        /\ srval' = RetContextDesc(Desc(INVALID, is_bsp, INVALID, Garbage))
        /\ UNCHANGED <<CpuTables, primary_partition>>
     \/ /\ ~AddCpuRejected(partition_index)
        /\ NewCpu(partition_index, cpuid, is_bsp)
        /\ NewCptEntry(partition_index, cpuid)
        /\ NewMember(partition_index, cpuid)
        /\ LET d == AdmittedDesc(partition_index, is_bsp) IN
           srval' = RetContextDesc(IF setup_ok THEN d
                    ELSE [d EXCEPT !.cpu_index = INVALID, !.partition_index = INVALID])
  /\ addcpu_calls' = addcpu_calls \cup {[cpuid |-> cpuid, ret |-> srval'.retval_context_desc]}
  /\ UNCHANGED <<partition_current_index, hpt_shaped>>

-----------------------------------------------------------------------------
(* xc_api_partition_getcontextdesc                                         *)

\* The entries of the scanned prefix of _xc_cpupartitiontable with this cpuid.
CptMatches(cpuid) ==
  {i \in 0..(cpupartitiontable_current_index - 1) : cpupartitiontable[i].cpuid = cpuid}

\* The descriptor the lookup returns: built from the first matching entry,
\* with is_bsp from g_xc_cpu and the partition's live cpu count.
GetContextDescOf(cpuid) ==
  IF CptMatches(cpuid) = {}
  THEN Desc(INVALID, FALSE, INVALID, Garbage)
  ELSE LET e == cpupartitiontable[Min(CptMatches(cpuid))] IN
       Desc(e.cpu_index, xc_cpu[e.cpu_index].is_bsp, e.partition_index,
            primary_partition[e.partition_index].numcpus)

xc_api_partition_getcontextdesc(cpuid) ==
  /\ srval' = RetContextDesc(GetContextDescOf(cpuid))
  /\ UNCHANGED <<Registry, addcpu_calls>>

\* xc_api_partition_startcpu returns what xc_api_partition_arch_startcpu
\* returns (started); the context manager's tables are left alone.
xc_api_partition_startcpu(context_desc, started) ==
  /\ srval' = RetBool(started)
  /\ UNCHANGED <<Registry, addcpu_calls>>

-----------------------------------------------------------------------------
(* Callers.  With OrderedAdmission a caller passes add_cpu only an index   *)
(* create_partition returned, or an out-of-range one; with SingleAdmission *)
(* it passes each physical cpu id once.                                    *)

PartitionArgs ==
  IF OrderedAdmission THEN hpt_shaped \cup {MAX_PRIMARY_PARTITIONS}
                      ELSE PartitionSlots

CpuIdArgs ==
  IF SingleAdmission THEN CpuIds \ {c.cpuid : c \in addcpu_calls}
                     ELSE CpuIds

IssuedDescs == {c.ret : c \in addcpu_calls}

Next ==
  \/ \E t \in {XC_PARTITION_PRIMARY, OtherPartitionType} : xc_api_partition_create(t)
  \/ \E p \in PartitionArgs, c \in CpuIdArgs, b, ok \in BOOLEAN :
        xc_api_partition_addcpu(p, c, b, ok)
  \/ \E c \in CpuIds : xc_api_partition_getcontextdesc(c)
  \/ \E d \in IssuedDescs, ok \in BOOLEAN : xc_api_partition_startcpu(d, ok)

Spec == Init /\ [][Next]_vars

-----------------------------------------------------------------------------
(* Properties                                                              *)

CreatedPartitions == hpt_shaped \ {MAX_PRIMARY_PARTITIONS}
AllocatedCpus == 0..(xc_cpu_current_index - 1)
AdmittedCalls == {c \in addcpu_calls : IsValid(c.ret)}

\* The member list of partition p, as (cpuid, cpu index) pairs.
Members(p) ==
  {primary_partition[p].cputable[k] : k \in 0..(primary_partition[p].numcpus - 1)}

MemberRecord == [cpuid : CpuIds \cup {0}, cpu_index : CpuSlots]

TypeOK ==
  /\ partition_current_index \in 0..(MAX_PRIMARY_PARTITIONS + 1)
  /\ xc_cpu_current_index \in 0..(MAX_PLATFORM_CPUS + 1)
  /\ cpupartitiontable_current_index \in 0..(MAX_PLATFORM_CPUS + 1)
  /\ xc_cpu \in [CpuSlots -> [cpuid : CpuIds \cup {0}, is_bsp : BOOLEAN,
                              is_quiesced : BOOLEAN, parentpartition_index : PartitionSlots]]
  /\ cpupartitiontable \in [CpuSlots -> [cpuid : CpuIds \cup {0},
                              partition_index : PartitionSlots, cpu_index : CpuSlots]]
  /\ \A p \in PartitionSlots :
       /\ primary_partition[p].numcpus \in 0..MAX_PLATFORM_CPUS
       /\ primary_partition[p].cputable \in [CputableSlots -> MemberRecord]
  /\ hpt_shaped \subseteq PartitionSlots

\* Section 8 of the spec: after add_cpu(p, cpuid, is_bsp) succeeds,
\* get_context(cpuid) returns the same cpu index, partition index and
\* is_bsp -- whatever other admissions, failed admissions and partition
\* creations happened since.
GetContextDescAgrees ==
  \A c \in AdmittedCalls :
    LET d == GetContextDescOf(c.cpuid) IN
    /\ d.cpu_index = c.ret.cpu_index
    /\ d.partition_index = c.ret.partition_index
    /\ d.isbsp = c.ret.isbsp

\* The three tables add_cpu writes agree: the member list of every created
\* partition is exactly the set of allocated g_xc_cpu slots whose parent is
\* that partition, with the same cpuids.
MembershipConsistent ==
  \A p \in CreatedPartitions :
    Members(p) = {[cpuid |-> xc_cpu[ci].cpuid, cpu_index |-> ci] :
                    ci \in {i \in AllocatedCpus : xc_cpu[i].parentpartition_index = p}}

\* The cpu count add_cpu puts in a descriptor is a snapshot: it may fall
\* behind the live count, but it is never ahead of it, and it is the
\* 1-based position of that cpu in its partition's member list.
SnapshotIsPosition ==
  \A c \in AdmittedCalls :
    LET p == c.ret.partition_index
        n == c.ret.numcpus
    IN  /\ n \in 1..primary_partition[p].numcpus
        /\ primary_partition[p].cputable[n - 1].cpu_index = c.ret.cpu_index

\* Indices are never reused: no step moves a counter back, rewrites an
\* entry below a counter, or shrinks or rewrites the member list of a
\* partition create_partition has returned.
AdmissionAppendOnly ==
  [][ /\ partition_current_index' >= partition_current_index
      /\ xc_cpu_current_index' >= xc_cpu_current_index
      /\ cpupartitiontable_current_index' >= cpupartitiontable_current_index
      /\ \A i \in 0..(cpupartitiontable_current_index - 1) :
            cpupartitiontable'[i] = cpupartitiontable[i]
      /\ \A ci \in AllocatedCpus : xc_cpu'[ci] = xc_cpu[ci]
      /\ \A p \in CreatedPartitions :
            /\ primary_partition'[p].numcpus >= primary_partition[p].numcpus
            /\ \A k \in 0..(primary_partition[p].numcpus - 1) :
                  primary_partition'[p].cputable[k] = primary_partition[p].cputable[k]
    ]_vars

\* Section 8 of the spec: add_cpu and create_partition never use more than
\* the fixed capacity; the admission beyond it is refused.
WithinCapacity ==
  /\ partition_current_index <= MAX_PRIMARY_PARTITIONS
  /\ xc_cpu_current_index <= MAX_PLATFORM_CPUS
  /\ cpupartitiontable_current_index <= MAX_PLATFORM_CPUS

\* Section 4.2 of the spec: get_context fails for a cpu that was not
\* admitted; an add_cpu that returned the invalid descriptor admitted
\* nothing.
FailedAdmissionInvisible ==
  \A c \in addcpu_calls :
    ~IsValid(c.ret) => ~IsValid(GetContextDescOf(c.cpuid))

====
