------------------------- MODULE XcApiPartitionRace -------------------------
(***************************************************************************)
(* xc_api_partition_addcpu and xc_api_partition_getcontextdesc as the     *)
(* sequences of memory accesses they are, run by several cpus at once     *)
(* over the tables of XcApiPartition.  Nothing in xcapipartition-code.c   *)
(* serializes them: each "x++" on a counter is a load and a store, and the *)
(* three tables are written one after the other.                          *)
(*                                                                         *)
(* Writers call add_cpu (and create_partition, which stays atomic: it is  *)
(* called before any cpu is admitted); readers call get_context, one      *)
(* loop iteration per step.  The four early-return tests of add_cpu are   *)
(* read in one step.                                                       *)
(***************************************************************************)
EXTENDS XcApiPartition, Sequences

CONSTANTS
  Writers,        \* cpus that call add_cpu
  Readers,        \* cpus that call get_context
  NoResult        \* model value: a reader has no result yet

VARIABLES
  wpc,            \* writer -> "idle" or the add_cpu step it is at
  wloc,           \* writer -> the locals of its add_cpu call
  rpc,            \* reader -> "idle", "scan" or "fill"
  rloc,           \* reader -> the locals of its get_context call
  rres            \* reader -> what its last get_context returned

rvars == <<wpc, wloc, rpc, rloc, rres>>
allvars == <<vars, rvars>>

\* The writer's locals: the arguments, cpu_index, the value a load step
\* read, and (history) the slot each store overwrote and its old contents.
Locals == [p |-> 0, cpuid |-> 0, is_bsp |-> FALSE, cpu_index |-> 0, tmp |-> 0,
           old_cpu |-> CpuZero, cpt_slot |-> 0, old_cpt |-> CptZero,
           cpt_tmp |-> 0, mem_slot |-> 0, old_mem |-> [cpuid |-> 0, cpu_index |-> 0],
           num_tmp |-> 0]

RaceInit ==
  /\ Init
  /\ wpc = [w \in Writers |-> "idle"]
  /\ wloc = [w \in Writers |-> Locals]
  /\ rpc = [r \in Readers |-> "idle"]
  /\ rloc = [r \in Readers |-> [cpuid |-> 0, i |-> 0, pi |-> 0, ci |-> 0, before |-> {}]]
  /\ rres = [r \in Readers |-> NoResult]

-----------------------------------------------------------------------------
(* xc_api_partition_addcpu, line by line                                   *)

\* Mutant: the lookup entry is written and published before g_xc_cpu.
AddCpuStepsCptFirst ==
  <<"alloc_ld", "alloc_st", "cpt_wr", "cpt_ld", "cpt_st", "cpu_wr",
    "mem_wr", "num_ld", "num_st", "setup">>

\* Lines 337 to 365, in program order.
AddCpuSteps ==
  <<"alloc_ld", "alloc_st", "cpu_wr", "cpt_wr", "cpt_ld", "cpt_st",
    "mem_wr", "num_ld", "num_st", "setup">>

StepPos(s) == CHOOSE k \in 1..Len(AddCpuSteps) : AddCpuSteps[k] = s
\* Move writer w from step s to the step after it.
Advance(w, s) == wpc' = [wpc EXCEPT ![w] = AddCpuSteps[StepPos(s) + 1]]
\* Writer w is inside add_cpu and has executed step s.
Past(w, s) == wpc[w] # "idle" /\ StepPos(wpc[w]) > StepPos(s)

SetLoc(w, f) == wloc' = [wloc EXCEPT ![w] = f]
\* What an add_cpu step other than the last leaves alone.
Quiet == UNCHANGED <<partition_current_index, hpt_shaped, srval, addcpu_calls>>
\* The tables and counters add_cpu writes.
Tables == <<CpuTables, primary_partition>>

\* Mutant: the store half of "x++" writes back the value loaded.
StoredNoIncrement(v) == v

\* The store half of "x++" (lines 337, 347, 351): the loaded value plus one.
Stored(v) == v + 1

\* Entry and lines 317-335: the arguments and the early returns.
AddCpuBegin(w) ==
  /\ wpc[w] = "idle"
  /\ \E p \in PartitionArgs, c \in CpuIdArgs, b \in BOOLEAN :
       IF AddCpuRejected(p)
       THEN /\ srval' = RetContextDesc(Desc(INVALID, b, INVALID, Garbage))
            /\ addcpu_calls' = addcpu_calls \cup {[cpuid |-> c, ret |-> srval'.retval_context_desc]}
            /\ UNCHANGED <<wpc, wloc>>
       ELSE /\ wpc' = [wpc EXCEPT ![w] = AddCpuSteps[1]]
            /\ SetLoc(w, [Locals EXCEPT !.p = p, !.cpuid = c, !.is_bsp = b])
            /\ UNCHANGED <<srval, addcpu_calls>>
  /\ UNCHANGED <<partition_current_index, hpt_shaped, Tables>>

\* Line 337, the load half of _xc_cpu_current_index++.
AllocLoad(w) ==
  /\ wpc[w] = "alloc_ld"
  /\ SetLoc(w, [wloc[w] EXCEPT !.tmp = xc_cpu_current_index])
  /\ Advance(w, "alloc_ld")
  /\ UNCHANGED Tables /\ Quiet

\* Line 337, the store half: cpu_index is the value loaded.
AllocStore(w) ==
  /\ wpc[w] = "alloc_st"
  /\ xc_cpu_current_index' = Stored(wloc[w].tmp)
  /\ SetLoc(w, [wloc[w] EXCEPT !.cpu_index = wloc[w].tmp])
  /\ Advance(w, "alloc_st")
  /\ UNCHANGED <<cpupartitiontable, cpupartitiontable_current_index, xc_cpu,
                 primary_partition>> /\ Quiet

\* Lines 339-342.
WriteCpu(w) ==
  LET l == wloc[w] IN
  /\ wpc[w] = "cpu_wr"
  /\ xc_cpu' = [xc_cpu EXCEPT ![l.cpu_index] =
        [cpuid |-> l.cpuid, is_bsp |-> l.is_bsp, is_quiesced |-> FALSE,
         parentpartition_index |-> l.p]]
  /\ SetLoc(w, [l EXCEPT !.old_cpu = IF l.cpu_index \in CpuSlots
                                     THEN xc_cpu[l.cpu_index] ELSE CpuZero])
  /\ Advance(w, "cpu_wr")
  /\ UNCHANGED <<xc_cpu_current_index, cpupartitiontable,
                 cpupartitiontable_current_index, primary_partition>>
  /\ Quiet

\* Lines 344-346, at the table counter as it is now.
WriteCptEntry(w) ==
  LET l == wloc[w]
      k == cpupartitiontable_current_index
  IN
  /\ wpc[w] = "cpt_wr"
  /\ cpupartitiontable' = [cpupartitiontable EXCEPT ![k] =
        [cpuid |-> l.cpuid, partition_index |-> l.p, cpu_index |-> l.cpu_index]]
  /\ SetLoc(w, [l EXCEPT !.cpt_slot = k,
                         !.old_cpt = IF k \in CpuSlots THEN cpupartitiontable[k] ELSE CptZero])
  /\ Advance(w, "cpt_wr")
  /\ UNCHANGED <<xc_cpu_current_index, cpupartitiontable_current_index, xc_cpu,
                 primary_partition>>
  /\ Quiet

\* Line 347, load and store.
CptLoad(w) ==
  /\ wpc[w] = "cpt_ld"
  /\ SetLoc(w, [wloc[w] EXCEPT !.cpt_tmp = cpupartitiontable_current_index])
  /\ Advance(w, "cpt_ld")
  /\ UNCHANGED Tables /\ Quiet

CptStore(w) ==
  /\ wpc[w] = "cpt_st"
  /\ cpupartitiontable_current_index' = Stored(wloc[w].cpt_tmp)
  /\ Advance(w, "cpt_st")
  /\ UNCHANGED <<wloc, xc_cpu_current_index, cpupartitiontable, xc_cpu,
                 primary_partition>>
  /\ Quiet

\* Lines 349-350, at the partition's cpu count as it is now.
WriteMember(w) ==
  LET l == wloc[w]
      n == primary_partition[l.p].numcpus
  IN
  /\ wpc[w] = "mem_wr"
  /\ primary_partition' = [primary_partition EXCEPT ![l.p].cputable[n] =
        [cpuid |-> l.cpuid, cpu_index |-> l.cpu_index]]
  /\ SetLoc(w, [l EXCEPT !.mem_slot = n,
                         !.old_mem = IF n \in CputableSlots
                                     THEN primary_partition[l.p].cputable[n]
                                     ELSE [cpuid |-> 0, cpu_index |-> 0]])
  /\ Advance(w, "mem_wr")
  /\ UNCHANGED <<xc_cpu_current_index, cpupartitiontable,
                 cpupartitiontable_current_index, xc_cpu>>
  /\ Quiet

\* Line 351, load and store.
NumLoad(w) ==
  /\ wpc[w] = "num_ld"
  /\ SetLoc(w, [wloc[w] EXCEPT !.num_tmp = primary_partition[wloc[w].p].numcpus])
  /\ Advance(w, "num_ld")
  /\ UNCHANGED Tables /\ Quiet

NumStore(w) ==
  /\ wpc[w] = "num_st"
  /\ primary_partition' = [primary_partition EXCEPT ![wloc[w].p].numcpus = Stored(wloc[w].num_tmp)]
  /\ Advance(w, "num_st")
  /\ UNCHANGED <<wloc, xc_cpu_current_index, cpupartitiontable,
                 cpupartitiontable_current_index, xc_cpu>>
  /\ Quiet

\* Lines 355-365: the descriptor with the live count, then base-state
\* setup, whose failure invalidates the indices.
SetupBaseState(w) ==
  LET l == wloc[w]
      d == Desc(l.cpu_index, l.is_bsp, l.p, primary_partition[l.p].numcpus)
  IN
  /\ wpc[w] = "setup"
  /\ \E ok \in BOOLEAN :
       srval' = RetContextDesc(IF ok THEN d
                               ELSE [d EXCEPT !.cpu_index = INVALID, !.partition_index = INVALID])
  /\ addcpu_calls' = addcpu_calls \cup {[cpuid |-> l.cpuid, ret |-> srval'.retval_context_desc]}
  /\ wpc' = [wpc EXCEPT ![w] = "idle"]
  /\ UNCHANGED <<wloc, Tables, partition_current_index, hpt_shaped>>

AddCpuStep(w) ==
  \/ AllocLoad(w) \/ AllocStore(w) \/ WriteCpu(w) \/ WriteCptEntry(w)
  \/ CptLoad(w) \/ CptStore(w) \/ WriteMember(w) \/ NumLoad(w) \/ NumStore(w)
  \/ SetupBaseState(w)

\* A writer between calls may create a partition (atomically).
CreateStep(w) ==
  /\ wpc[w] = "idle"
  /\ \E t \in {XC_PARTITION_PRIMARY, OtherPartitionType} : xc_api_partition_create(t)
  /\ UNCHANGED rvars

WriterStep(w) ==
  \/ CreateStep(w)
  \/ /\ AddCpuBegin(w) \/ AddCpuStep(w)
     /\ UNCHANGED <<rpc, rloc, rres>>

-----------------------------------------------------------------------------
(* xc_api_partition_getcontextdesc, one loop iteration per step            *)

GetCtxBegin(r) ==
  /\ rpc[r] = "idle"
  /\ \E c \in CpuIds :
       rloc' = [rloc EXCEPT ![r] = [cpuid |-> c, i |-> 0, pi |-> 0, ci |-> 0,
                  before |-> {a.ret.cpu_index : a \in {x \in AdmittedCalls : x.cpuid = c}}]]
  /\ rpc' = [rpc EXCEPT ![r] = "scan"]
  /\ UNCHANGED rres

\* Mutant: the loop stops one entry short.
InScanShort(i) == i + 1 < cpupartitiontable_current_index

\* Line 384: the loop bound, read afresh on every iteration.
InScan(i) == i < cpupartitiontable_current_index

\* Lines 384-395: the bound is re-read on every iteration; the first entry
\* with the cpuid ends the scan, running off the end fails.
GetCtxScan(r) ==
  LET l == rloc[r] IN
  /\ rpc[r] = "scan"
  /\ IF InScan(l.i)
     THEN IF cpupartitiontable[l.i].cpuid = l.cpuid
          THEN /\ rloc' = [rloc EXCEPT ![r].pi = cpupartitiontable[l.i].partition_index,
                                       ![r].ci = cpupartitiontable[l.i].cpu_index]
               /\ rpc' = [rpc EXCEPT ![r] = "fill"]
               /\ UNCHANGED rres
          ELSE /\ rloc' = [rloc EXCEPT ![r].i = l.i + 1]
               /\ UNCHANGED <<rpc, rres>>
     ELSE /\ rres' = [rres EXCEPT ![r] = [cpuid |-> l.cpuid, before |-> l.before, seen |-> CpuZero,
                        desc |-> Desc(INVALID, FALSE, INVALID, Garbage)]]
          /\ rpc' = [rpc EXCEPT ![r] = "idle"]
          /\ UNCHANGED rloc

\* Lines 399-404: is_bsp from g_xc_cpu and the partition's live count.
GetCtxFill(r) ==
  LET l == rloc[r] IN
  /\ rpc[r] = "fill"
  /\ rres' = [rres EXCEPT ![r] = [cpuid |-> l.cpuid, before |-> l.before, seen |-> xc_cpu[l.ci],
                desc |-> Desc(l.ci, xc_cpu[l.ci].is_bsp, l.pi,
                              primary_partition[l.pi].numcpus)]]
  /\ rpc' = [rpc EXCEPT ![r] = "idle"]
  /\ UNCHANGED rloc

ReaderStep(r) ==
  /\ GetCtxBegin(r) \/ GetCtxScan(r) \/ GetCtxFill(r)
  /\ UNCHANGED <<vars, wpc, wloc>>

RaceNext == (\E w \in Writers : WriterStep(w)) \/ (\E r \in Readers : ReaderStep(r))

RaceSpec == RaceInit /\ [][RaceNext]_allvars

-----------------------------------------------------------------------------
(* Refinement: with one writer, the tables with the writer's unfinished    *)
(* add_cpu rolled back are the tables of the atomic XcApiPartition.        *)

TheWriter == CHOOSE w \in Writers : TRUE
WL == wloc[TheWriter]

AbsXcCpuIndex ==
  IF Past(TheWriter, "alloc_st") THEN WL.cpu_index ELSE xc_cpu_current_index
AbsXcCpu ==
  IF Past(TheWriter, "cpu_wr") /\ WL.cpu_index \in CpuSlots
  THEN [xc_cpu EXCEPT ![WL.cpu_index] = WL.old_cpu] ELSE xc_cpu
AbsCpt ==
  IF Past(TheWriter, "cpt_wr") /\ WL.cpt_slot \in CpuSlots
  THEN [cpupartitiontable EXCEPT ![WL.cpt_slot] = WL.old_cpt] ELSE cpupartitiontable
AbsCptIndex ==
  IF Past(TheWriter, "cpt_st") THEN WL.cpt_tmp ELSE cpupartitiontable_current_index
AbsPartitionMembers ==
  IF Past(TheWriter, "mem_wr") /\ WL.mem_slot \in CputableSlots
  THEN [primary_partition EXCEPT ![WL.p].cputable[WL.mem_slot] = WL.old_mem]
  ELSE primary_partition
AbsPartition ==
  IF Past(TheWriter, "num_st")
  THEN [AbsPartitionMembers EXCEPT ![WL.p].numcpus = WL.num_tmp]
  ELSE AbsPartitionMembers

Atomic == INSTANCE XcApiPartition WITH
  xc_cpu_current_index <- AbsXcCpuIndex,
  xc_cpu <- AbsXcCpu,
  cpupartitiontable <- AbsCpt,
  cpupartitiontable_current_index <- AbsCptIndex,
  primary_partition <- AbsPartition

-----------------------------------------------------------------------------
(* Properties                                                              *)

RaceTypeOK ==
  /\ TypeOK
  /\ wpc \in [Writers -> {"idle"} \cup {AddCpuSteps[k] : k \in 1..Len(AddCpuSteps)}]
  /\ rpc \in [Readers -> {"idle", "scan", "fill"}]
  /\ \A r \in Readers : rloc[r].i \in 0..(MAX_PLATFORM_CPUS + 1)

\* Add_cpu split into its loads and stores, run by one writer while any
\* number of cpus run get_context, implements the atomic add_cpu: every
\* step but the last leaves the registry, with the unfinished call rolled
\* back, as it was.
ImplementsAtomicAddCpu == Atomic!Spec

\* A get_context running while add_cpu is half-done that finds a cpuid in
\* the lookup table reads the g_xc_cpu slot of that very cpu, already
\* filled in: add_cpu writes g_xc_cpu before it publishes the entry.
ReaderSeesCompleteCpu ==
  \A r \in Readers :
    rres[r] # NoResult /\ IsValid(rres[r].desc) =>
      /\ rres[r].seen.cpuid = rres[r].cpuid
      /\ rres[r].seen.parentpartition_index = rres[r].desc.partition_index

\* Spec section 8, under concurrency: a get_context that starts after
\* add_cpu(cpuid) has returned a valid descriptor finds that cpu's index,
\* though another add_cpu is moving the loop bound and writing the tables.
ReaderFindsAdmitted ==
  \A r \in Readers :
    rres[r] # NoResult => \A ci \in rres[r].before : rres[r].desc.cpu_index = ci

\* Spec section 4.2: no two admitted cpus are given the same cpu index.
AdmissionsDistinct ==
  \A c1, c2 \in AdmittedCalls : c1 # c2 => c1.ret.cpu_index # c2.ret.cpu_index

====
