---------------------------- MODULE NestedPgTblUH ----------------------------
(***************************************************************************)
(* The x86 PAE nested page-table builder for unverified hypervisor (uh)    *)
(* slabs, gp_s2_setupmpgtbluh (geec_prime/gp_s2_setupmpgtbluh.c).          *)
(*                                                                         *)
(* gp_uhslabmempgtbl_lvl1t[u][k] is a two-dimensional C array, contiguous  *)
(* in memory, so it is modelled as one flat function of u * NPages + k:    *)
(* a write past the end of row u lands in row u + 1.  Page-table entries   *)
(* keep their present bit and target (table index or page frame); the     *)
(* attribute bits from gp_s2_setupmpgtbluh_getflags are left out.          *)
(***************************************************************************)
EXTENDS Integers, FiniteSets

CONSTANTS
  PAE_PTRS_PER_PDPT, PAE_PTRS_PER_PDT, PAE_PTRS_PER_PT,
  XMHFGEEC_UHSLAB_BASE_IDX, XMHFGEEC_UHSLAB_MAX_IDX,
  SlabIds,          \* slab ids gp_s2_setupmpgtbluh may be called with
  SlabTypes,        \* the slab types of xmhfgeec_slab_info_table
  XMHFGEEC_SLABTYPE_VfT_PROG, XMHFGEEC_SLABTYPE_VfT_SENTINEL,
  IotblBase,        \* slab id -> first page frame of its private iotbl
  IotblStarts,      \* where the geec_prime iotbl region may be linked
  IotblPages,       \* pages gp_s2_setupmpgtbl_getspatype classifies as iotbl
  NoMapping         \* model value: a walk that hits a non-present entry

NPages == PAE_PTRS_PER_PDPT * PAE_PTRS_PER_PDT * PAE_PTRS_PER_PT
Pages == 0..(NPages - 1)
UhIdx == 0..(XMHFGEEC_UHSLAB_MAX_IDX - XMHFGEEC_UHSLAB_BASE_IDX)
Leaves == 0..(Cardinality(UhIdx) * NPages - 1)

ASSUME XMHFGEEC_SLABTYPE_VfT_PROG \in SlabTypes
ASSUME XMHFGEEC_SLABTYPE_VfT_SENTINEL \in SlabTypes
ASSUME IotblStarts \subseteq 0..(NPages - IotblPages)
ASSUME IotblBase \in [SlabIds -> Nat]

VARIABLES
  slabtype,     \* xmhfgeec_slab_info_table[*].slabtype (fixed at build time)
  iotbl_start,  \* first page of the _SLAB_SPATYPE_GEEC_PRIME_IOTBL region
  lvl4t,        \* gp_rwdatahdr.gp_uhslabmempgtbl_lvl4t: u -> PDPT
  lvl2t,        \* gp_uhslabmempgtbl_lvl2t: u -> pdpt index -> PDT
  lvl1t,        \* gp_uhslabmempgtbl_lvl1t, flattened
  built,        \* uh slab ids whose tables gp_s2_setupmpgtbluh has built
  halted        \* the processor executed HALT()

vars == <<slabtype, iotbl_start, lvl4t, lvl2t, lvl1t, built, halted>>

Entry(present, target) == [present |-> present, target |-> target]
ZeroEntry == Entry(FALSE, 0)

Init ==
  /\ slabtype \in [SlabIds -> SlabTypes]
  /\ iotbl_start \in IotblStarts
  /\ lvl4t = [u \in UhIdx |-> [i \in 0..(PAE_PTRS_PER_PDPT - 1) |-> ZeroEntry]]
  /\ lvl2t = [u \in UhIdx |-> [i \in 0..(PAE_PTRS_PER_PDPT - 1) |->
                [j \in 0..(PAE_PTRS_PER_PDT - 1) |-> ZeroEntry]]]
  /\ lvl1t = [k \in Leaves |-> ZeroEntry]
  /\ built = {}
  /\ halted = FALSE

-----------------------------------------------------------------------------

InUhWindow(slabid) ==
  slabid >= XMHFGEEC_UHSLAB_BASE_IDX /\ slabid <= XMHFGEEC_UHSLAB_MAX_IDX

\* uhslabmempgtbl_idx
UhIndex(slabid) == slabid - XMHFGEEC_UHSLAB_BASE_IDX

\* spa_slabregion == _SLAB_SPATYPE_GEEC_PRIME_IOTBL for guest page i.
IsIotblPage(i) == i \in iotbl_start..(iotbl_start + IotblPages - 1)

\* The substitution applies to every slab type but the verified ones.
RemapsIotbl(slabid) ==
  slabtype[slabid] \notin {XMHFGEEC_SLABTYPE_VfT_PROG, XMHFGEEC_SLABTYPE_VfT_SENTINEL}

\* Mutant: the PDPT entry points one PDT too far.
PdpeTargetOffByOne(i) == i + 1

\* &gp_uhslabmempgtbl_lvl2t[u][i]: the PDT of the same index.
PdpeTarget(i) == i

\* &gp_uhslabmempgtbl_lvl1t[u][i*PTRS_PER_PDT*PTRS_PER_PT + j*PTRS_PER_PT]
PdeTarget(u, i, j) ==
  u * NPages + i * PAE_PTRS_PER_PDT * PAE_PTRS_PER_PT + j * PAE_PTRS_PER_PT

\* Mutant: the first "i++" of the iotbl branch is missing.
RECURSIVE FillLeavesOneIncrement(_, _, _, _)
FillLeavesOneIncrement(slabid, row, i, t) ==
  IF i >= NPages THEN t
  ELSE IF IsIotblPage(i) /\ RemapsIotbl(slabid)
  THEN LET b == IotblBase[slabid] IN
       FillLeavesOneIncrement(slabid, row, i + 2,
         [t EXCEPT ![row + i] = Entry(TRUE, b + 1), ![row + i + 1] = Entry(TRUE, b + 2)])
  ELSE FillLeavesOneIncrement(slabid, row, i + 1, [t EXCEPT ![row + i] = Entry(TRUE, i)])

\* The "pts" loop: page i is identity-mapped, except that an iotbl page of
\* a slab that remaps it starts three consecutive entries mapping the
\* slab's own iotbl pages, and the loop index skips past them.
RECURSIVE FillLeaves(_, _, _, _)
FillLeaves(slabid, row, i, t) ==
  IF i >= NPages THEN t
  ELSE IF IsIotblPage(i) /\ RemapsIotbl(slabid)
  THEN LET b == IotblBase[slabid] IN
       FillLeaves(slabid, row, i + 3,
         [t EXCEPT ![row + i] = Entry(TRUE, b), ![row + i + 1] = Entry(TRUE, b + 1),
                   ![row + i + 2] = Entry(TRUE, b + 2)])
  ELSE FillLeaves(slabid, row, i + 1, [t EXCEPT ![row + i] = Entry(TRUE, i)])

\* A slab id outside the uh window halts the processor before any write.
SetupHalts(slabid) ==
  /\ ~InUhWindow(slabid)
  /\ halted' = TRUE
  /\ UNCHANGED <<slabtype, iotbl_start, lvl4t, lvl2t, lvl1t, built>>

\* pdpt, pdt and pts of the slab, in that order.
SetupTables(slabid) ==
  LET u == UhIndex(slabid) IN
  /\ InUhWindow(slabid)
  /\ lvl4t' = [lvl4t EXCEPT ![u] = [i \in DOMAIN lvl4t[u] |-> Entry(TRUE, PdpeTarget(i))]]
  /\ lvl2t' = [lvl2t EXCEPT ![u] = [i \in DOMAIN lvl2t[u] |->
                 [j \in DOMAIN lvl2t[u][i] |-> Entry(TRUE, PdeTarget(u, i, j))]]]
  /\ lvl1t' = FillLeaves(slabid, u * NPages, 0, lvl1t)
  /\ built' = built \cup {slabid}
  /\ UNCHANGED <<slabtype, iotbl_start, halted>>

gp_s2_setupmpgtbluh(slabid) ==
  /\ ~halted
  /\ SetupHalts(slabid) \/ SetupTables(slabid)

Next == \E s \in SlabIds : gp_s2_setupmpgtbluh(s)

Spec == Init /\ [][Next]_vars

-----------------------------------------------------------------------------
(* Properties                                                              *)

\* The page frame a hardware walk of uh table u reaches for guest page g:
\* PDPT entry, then the PDT it points to, then the leaf it points to.
Walk(u, g) ==
  LET pdpe == lvl4t[u][g \div (PAE_PTRS_PER_PDT * PAE_PTRS_PER_PT)]
      pde  == lvl2t[u][pdpe.target][(g \div PAE_PTRS_PER_PT) % PAE_PTRS_PER_PDT]
      pte  == lvl1t[pde.target + (g % PAE_PTRS_PER_PT)]
  IN  IF pdpe.present /\ pde.present /\ pte.present THEN pte.target ELSE NoMapping

View(slabid) == [g \in Pages |-> Walk(UhIndex(slabid), g)]

\* Section 4.3 of the spec: the identity map, except that the iotbl pages
\* of a slab that is not verified map to that slab's private iotbl pages.
ExpectedView(slabid) ==
  [g \in Pages |-> IF RemapsIotbl(slabid) /\ IsIotblPage(g)
                   THEN IotblBase[slabid] + (g - iotbl_start)
                   ELSE g]

TypeOK ==
  /\ slabtype \in [SlabIds -> SlabTypes]
  /\ iotbl_start \in IotblStarts
  /\ \A u \in UhIdx : \A i \in DOMAIN lvl4t[u] :
        lvl4t[u][i] \in [present : BOOLEAN, target : DOMAIN lvl2t[u]]
  /\ \A u \in UhIdx : \A i \in DOMAIN lvl2t[u] : \A j \in DOMAIN lvl2t[u][i] :
        lvl2t[u][i][j] \in [present : BOOLEAN, target : Leaves]
  /\ \A k \in Leaves : lvl1t[k] \in [present : BOOLEAN, target : Nat]
  /\ built \subseteq {s \in SlabIds : InUhWindow(s)}
  /\ halted \in BOOLEAN

\* Section 8 of the spec: a built slab's walk covers every guest page (no
\* gaps), is the identity everywhere else, and for a slab that is not
\* verified reaches the three private iotbl pages, in order, from the three
\* iotbl guest pages -- wherever the iotbl region sits among the leaf tables.
TranslationMatchesReference ==
  \A s \in built : View(s) = ExpectedView(s)

====
