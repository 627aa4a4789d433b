# TLA+ models of the xmhf64 isolation core

These modules model the parts of the hypervisor that enforce isolation:
- the partition/CPU context manager;
- the capability dispatch gateway and the slab capability table;
- the x86 nested page-table builder for unverified slabs and the ARM stage-2 builder;
- the SMP bring-up handshake.

Every definition is translated from the C source under `src/`. `PROJECT.json`
maps each definition to the lines it models. The few definitions modelled from
`spec.md` instead are marked `spec_modelled`; they stand for code that is not
under `src/`.

## The system and how its parts interact

1. At boot the BSP calls the **partition/CPU context manager** through the
   **dispatch gateway** (`xcapi_interface`, in the same file). It creates the
   primary partition and admits each CPU with `add_cpu`, which returns a
   context descriptor.
2. The **page-table builder** (`gp_s2_setupmpgtbluh`) builds one nested table
   per unverified slab. It remaps the geec_prime iotbl region to the slab's
   private iotbl pages.
3. The **bring-up coordinator** (`smpg-x86.c`) then runs on every physical CPU:
   - the BSP arms SIPI interception;
   - every AP spins until the interception handler signals it, then sets
     itself up from the SIPI vector.
4. At run time any slab calls another through the gateway. The spec says the
   gateway checks the call against the **slab capability table**
   (`xmhf-hic-initdata.c`).

## Inventory

| Component | Source | Module | Status |
|---|---|---|---|
| Partition/CPU context manager | `vault/.../xcapipartition-code.c` 270-410 | `XcApiPartition`, `XcApiPartitionRace` | modelled |
| Capability dispatch gateway | `vault/.../xcapipartition-code.c` 60-266 | `XcApiInterface` | modelled |
| Slab capability table | `xmhf-hic/xmhf-hic-initdata.c` 64-138 | `SlabCapTable` | modelled (constant) |
| Nested page tables, x86 uh | `xmhf-slabs/geec_prime/gp_s2_setupmpgtbluh.c` | `NestedPgTblUH` | modelled |
| Nested page tables, ARM stage-2 | `uxmhf-rpi3/core/s2pgtbl.c` | `Stage2PgTblArm` | modelled |
| CPU bring-up | `emhf-smpguest/arch/x86/smpg-x86.c` | `SmpGuest` | modelled |
| TPM locality | `emhf-tpm/arch/x86/tpm-x86.c` | none | out of scope: a vendor switch to backends outside `src/` |
| TEE credential marshalling | `tee-cred/trunk/tze-pb*` | none | wraps tee-sdk and protobuf-c, neither in the repository |
| GCM multiply | `libtomcrypt/.../gcm_gf_mult.c` | `GcmGfMult` | modelled |
| uhcall test app | `uapp-uhcalltest.c` | none | a stateless 16-byte copy; its unchecked `uhcall_buffer_len` is a unit-test matter |
| headers, demo | `types.h`, `bcm2837.h`, `pal_demo/test.c` | none | no state |

## Modules

### `XcApiPartition`: the context manager

State:
- The variables are the C statics: `partition_current_index`,
  `xc_cpu_current_index`, `cpupartitiontable`,
  `cpupartitiontable_current_index`, `xc_cpu` and `primary_partition`.
- A C array of N elements is a function on `0..N`. The extra slot is the
  memory just past the array, so the off-by-one writes the code can make are
  visible in the model.
- `hpt_shaped` records the partitions `xc_api_hpt_arch_establishshape` was
  called for.
- `srval` is the gateway's result slot. Like the C union `slab_retval_t`, it
  is tagged with the member written (`RetU32`, `RetContextDesc`, `RetBool`).
- `addcpu_calls` is a history of every `add_cpu` call and the descriptor it
  returned.

Actions:
- There is one action per API function.
- Each action has the code's early returns as disjuncts, in code order, and
  then its writes.
- The outcomes of base-state setup and of the arch start primitive are
  nondeterministic booleans.
- A field C leaves uninitialized on a failure path is the model value
  `Garbage`.

Caller constants:
- The constants `OrderedAdmission` and `SingleAdmission` model the caller
  discipline the spec asks for:
  - `add_cpu` is called only on created partitions (or on the out-of-range
    index, to exercise the check);
  - each cpuid is admitted at most once.
- Turning each one off shows what the code does when the discipline is broken.

### `XcApiPartitionRace`: add_cpu and get_context run by several cpus

- This module EXTENDS `XcApiPartition` and keeps its tables.
- `add_cpu` is split into the memory accesses of lines 337-365, in program
  order (`AddCpuSteps`): each `x++` on a counter is a load step and a store
  step, and each table write is one step. `wpc[w]` is the step writer `w` is
  at, and `wloc[w]` holds its locals.
- The four early-return tests (lines 323-335) are read in one step,
  `AddCpuBegin`.
- `get_context` is one step per loop iteration (`GetCtxScan`). Each iteration
  re-reads `_xc_cpupartitiontable_current_index`, as the C loop condition
  does. `GetCtxFill` then reads `g_xc_cpu` and the partition.
- `create_partition` stays one step; it runs before any cpu is admitted.
- Refinement: `Atomic == INSTANCE XcApiPartition WITH ...` maps the split
  state to the atomic one.
  - The mapping undoes the unfinished writer's stores, using the slot and old
    contents each store step saves in `wloc`.
  - So every step but `SetupBaseState` is a stutter of the abstract spec, and
    `SetupBaseState` is the abstract `add_cpu`.
  - `ImplementsAtomicAddCpu` checks `Atomic!Spec`. This holds only with one
    writer, which is the spec's single-writer phase.
- Readers are not in the refinement: their steps stutter the abstract spec.
  Instead, when a reader starts, it records the cpu indices of the valid
  admissions of its cpuid that have already returned (`before`). The
  invariant `ReaderFindsAdmitted` checks that the lookup returns that index.

### `XcApiInterface`: the gateway

- This module EXTENDS `XcApiPartition` and `SlabCapTable`.
- `xcapi_interface(src, dst, fn)` has three arms:
  - the four partition arms, which call the actions above;
  - the arms whose handlers are outside `src/` (hpt, trapmask, cpustate,
    shutdown, NMI), which touch no partition state and return a value this
    model does not track;
  - the default arm, which halts.
- `last_call` records who called what, for the capability property.

### `SlabCapTable`: the capability table

- The nine rows of `_xmhfhic_init_setupdata_slab_caps` form a constant
  function.
- Each `HIC_SLAB_CALLCAP` bit is membership in a set.
- `GuestNoHypervisorCallCap` (spec section 3) is an ASSUME on the constant
  table. TLC checks it every time the gateway model loads.

### `NestedPgTblUH`: the x86 uh page-table builder

- The geometry is PAE shrunk to 2×2×3 leaves.
- The three levels are `lvl4t`, `lvl2t` and `lvl1t`. `lvl1t` is flattened
  across slabs the way the C two-dimensional array is laid out, so a write
  past a row lands in the next slab's row.
- The leaf loop is the RECURSIVE operator `FillLeaves`. It copies the code's
  double `i++`.
- The slab types and the linked position of the iotbl region are chosen in
  `Init`, because they are fixed when the image is linked.
- An out-of-window slab id halts.
- The properties compare a hardware walk (`Walk`) with a reference view
  (`ExpectedView`) taken from spec section 4.3.

### `Stage2PgTblArm`: the ARM stage-2 builder

- `s2pgtbl_initialize` writes VTCR (T0SZ=0, SL0=1) and the HDCR, HCPTR and
  HSTR values.
- `s2pgtbl_populate_tables` fills the three descriptor arrays.
- `s2pgtbl_loadpgtblbase` writes VTTBR (the base of l1, VMID 2).
- The arrays are contiguous in `.data`, so descriptor addresses are counted
  from `l1_ldesc_table[0]`, and a pointer past one array lands in the next.
- `Walk` is the hardware walk. It starts at level 1 or level 2, depending on
  SL0.
- `called` records which of the three functions has run. The boot code's
  order is not fixed by this file, so any order is explored.

### `SmpGuest`: the bring-up handshake

- There is one process per CPU: `pc` is `init`, then `spin`, then `running`.
- The SIPI interception handler is vendor code outside `src/`. It is modelled
  from the spec as two steps: store the vector, then raise the flag.
- `wakeup[c]` is the vector `postCPUwakeup` ran with.

### `GcmGfMult`: the GCM field multiply

- `gcm_gf_mult(a, b, c)` is the GCM multiply of libtomcrypt, a vendored pure
  function. The build picks one of two implementations with `LTC_FAST`, and
  the headers that decide it are not under `src/`, so the model's `build`
  ranges over all three builds:
  - `GcmGfMultBitserial`: the bit-serial loop, with `gcm_rightshift`, `mask`
    and `poly`;
  - `GcmGfMultFast`: the word loop, with a 32-bit or a 64-bit word. It
    follows the code's steps: the sixteen multiples of `a` (`Multiples`), the
    nibble loop over `b` (`NibbleLoop`), the big-endian store (`StoreH`), and
    the reduction with `gcm_shift_table` (`ReduceLoop`).
- `gcm_shift_table` is the file's 512-byte table, as written.
- The field shrinks from 16 bytes to `NB`:
  - every 16, 32, 128, 31 and 15 of the file is written in terms of `NB`;
  - a word is `NB/4` bytes on a 32-bit build and `NB/2` on a 64-bit one, as
    4 and 8 are of 16;
  - the reduction polynomial keeps its low terms, x^(8NB) + x^7 + x^2 + x + 1,
    so the table stays valid unchanged.
- Byte vectors are functions on `0..NB-1`, like the C arrays.
- `FieldProduct` is the reference. It multiplies the two polynomials as sets
  of exponents and reduces the result. It shares no step with either
  implementation.
- TLC passes operator arguments unevaluated. `SerialLoop` therefore binds
  each iteration before it recurses, so the 32 iterations are evaluated one
  at a time.

## Runs

| Run | Cfg | Expect | What it shows |
|---|---|---|---|
| `partition_capacity` | `XcApiPartition_capacity.cfg` | violation | `>` instead of `>=` at lines 295, 327 and 331: one slot past each array is used. |
| `partition_duplicate_cpuid` | `XcApiPartition_duplicate.cfg` | violation | Re-adding a cpuid makes `get_context` disagree with `add_cpu`. |
| `partition_setup_failure` | `XcApiPartition_setupfail.cfg` | violation | A failed base-state setup leaves the cpu visible. |
| `partition_race_readers` | `XcApiPartitionRace.cfg` | pass | With the BSP admitting cpus while an AP looks itself up, the split `add_cpu` implements the atomic one, a lookup never finds an entry whose `g_xc_cpu` slot is unwritten, and a lookup started after an admission returned finds that cpu. |
| `partition_race_writers` | `XcApiPartitionRace_writers.cfg` | violation | Two cpus in `add_cpu` at once both load `_xc_cpu_current_index` before either stores it, and get the same `cpu_index` (line 337). |
| `gateway_dispatch` | `XcApiInterface.cfg` | pass | Driving the partition API through `xcapi_interface` under ordered, single admission, the three tables and every issued descriptor agree, across setup failures and the capacity edge. |
| `gateway_guest_caller` | `XcApiInterface_guest.cfg` | violation | The guest slab gets partition calls served; no capability check. |
| `nested_pgtbl_uh` | `NestedPgTblUH.cfg` | pass | Every built slab's walk equals the reference for every slab type and iotbl placement. |
| `arm_stage2` | `Stage2PgTblArm.cfg` | pass | In any call order, once all three functions have run the walk is the identity on the mapped slices and faults beyond them. |
| `smp_bringup` | `SmpGuest.cfg` | pass | With 3 cpus every cpu eventually runs. |
| `gcm_gf_mult` | `GcmGfMult.cfg` | pass | On 4-byte elements, every build of `gcm_gf_mult` returns the reduced polynomial product, for every pair of arguments that are monomials or dense patterns. |
| `smp_uniprocessor` | `SmpGuest_up.cfg` | violation | With 1 cpu the BSP spins forever. |

Each property of a passing run has a mutant in `PROJECT.json`. A mutant is a
plausible bug in the modelled code, such as a dropped guard, a missing
increment, a swapped write or an off-by-one, and the property catches it.

## Bounds and why they are enough

- **Partition manager:** 2 partitions, 2 cpus and 3 cpuids.
  - This reaches both capacity checks, the failing per-partition check, and
    one more admission than fits.
  - Failed setups and re-admission attempts all happen within depth 8.
  - The gateway run checks the context manager's properties at these
    bounds, driving it through `xcapi_interface`. The violation runs call the
    API directly (`XcApiPartition!Spec`).
  - The race runs use 1 partition and 2 cpu slots. The reader run has one
    writer, one reader and 3 cpuids, so the third admission is rejected and
    the reader's scan runs past the end. The writer run has two writers and
    2 cpuids. The two-writer collision needs about 24 steps.
- **Page tables:** 3 uh slabs (ids 1-3) and 1 out-of-window id (0), which
  exercises the halt.
  - There are 12 leaves per slab.
  - The iotbl region is placed at every start from 0 to 9. This includes a
    start flush with the last leaf and starts that cross a PT and a PDT
    boundary.
  - Three slab types are used: two verified and one not.
- **ARM stage-2:** 4 l1 slots, 3 of them mapped, with 2 l2 entries and 3 l3
  entries per table.
  - The three sizes differ, so a stride or index taken from the wrong
    table's size changes the walk.
  - This includes invalid l1 slots, and table pointers that cross from one
    array into the next.
  - HDCR, HCPTR and HSTR start from three reset values.
- **GCM multiply:** 4-byte elements, the smallest width at which the
  32-bit build has more than one word.
  - Each argument is one of the 32 monomials x^k or one of 6 dense values:
    zero, one, x^31, all ones, and two patterns that fill every nibble.
  - A monomial times a dense value shifts the value across every byte and
    word boundary and through every reduction step. Dense times dense
    exercises all sixteen table multiples.
  - One and x^31 are monomials too, so there are 36 values; 36 × 36 pairs
    times 3 builds gives 3888 calls.
- **Bring-up:** 3 cpus and 2 vectors, which is enough for two APs to
  interleave with the handler's two stores. The uniprocessor run uses 1 cpu.

## Fairness

`smp_bringup` assumes weak fairness of each CPU's step and of each SIPI
handler step:
- Each physical CPU executes its own code without yielding (spec section 5).
- The guest OS on the BSP starts every AP listed in the MP table.

No other run checks liveness.

## What is not modelled, and why

- Attribute bits of page-table entries are not modelled. The properties are
  about targets and presence.
- The hpt, trapmask and cpustate handlers are not modelled. Their code is
  outside `src/`, and they do not touch the partition tables.
- `XcApiPartition` assumes a single writer, as the spec requires.
  `XcApiPartitionRace` drops that assumption. It keeps sequentially
  consistent memory: each load and store is atomic.
- The check that `add_cpu` is only called on created partitions is a caller
  obligation in the spec. `MembershipConsistent` holds under it, and no run
  breaks it.
- The TEE marshalling wrappers (`tze-pb-marshal.c`) are not modelled.
  - Between their two error tests they only call tee-sdk's encode buffer
    and protobuf-c. Neither library is in the repository, and the spec puts
    the marshalling layer out of scope.
  - One hazard is listed without a property: `TZIDecodeProtobuf` returns
    before it clears `*pb_msg` when the buffer already holds an error.
- The TPM locality code (`tpm-x86.c`) and `emhf_smpguest_arch_walk_pagetables`
  are not modelled. Each is a vendor switch that forwards to a backend
  outside `src/` and has no state of its own.
- Weak memory ordering between the SIPI handler's stores is not modelled.
  Each store is atomic, and they happen in program order. The AP's flag
  test, vector read and wakeup are one step. So the ordering hazard at
  `smpg-x86.c:60` has no property. x86 keeps stores in order and loads in
  order. The remaining risk is compiler reordering, and that depends on
  whether the VCPU fields are volatile, which is decided outside `src/`.

## Plan for later sittings

The project uses all 12 runs it may have, so each item below replaces a run.

1. A caller of `xcapi_interface` that passes another arm's argument list.
   Line 60 never checks `fn_paramsize`, and `add_cpu` then admits whatever
   cpuid the reinterpreted words spell. This is listed as a hazard with no
   property yet.
2. The TEE marshalling wrappers, with tee-sdk and protobuf-c as
   nondeterministic environments. This would check the early return that
   leaves `*pb_msg` unset.
