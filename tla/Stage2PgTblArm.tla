---------------------------- MODULE Stage2PgTblArm ----------------------------
(***************************************************************************)
(* The ARM stage-2 page tables of the rpi3 micro-hypervisor               *)
(* (uxmhf-rpi3/core/s2pgtbl.c): s2pgtbl_initialize, s2pgtbl_populate_     *)
(* tables and s2pgtbl_loadpgtblbase, called by the boot code in an order  *)
(* this file does not fix.                                                 *)
(*                                                                         *)
(* The three descriptor arrays are laid out one after another in .data,   *)
(* so descriptor addresses are counted in entries from l1_ldesc_table[0]: *)
(* a table pointer past the end of one array lands in the next.  A valid  *)
(* descriptor at levels 1 and 2 is a table pointer, at level 3 a page     *)
(* (the hardware reads both as 0b11).  Attribute bits are left out; VTCR  *)
(* keeps the two fields that shape the walk, T0SZ and SL0.                 *)
(***************************************************************************)
EXTENDS Integers, Bitwise

CONSTANTS
  L1_LDESC_TABLE_MAXENTRIES, L1_LDESC_TABLE_ENTRIES,
  L2_LDESC_TABLE_MAXENTRIES, L3_LDESC_TABLE_MAXENTRIES,
  HDCR_HPMN_MASK, HCPTR_RES1_MASK,
  ResetValues,    \* values HDCR, HCPTR and HSTR may hold out of reset
  Unknown,        \* model value: VTCR or VTTBR not written yet
  Fault           \* model value: a stage-2 translation fault

L2_ENTRIES == L1_LDESC_TABLE_ENTRIES * L2_LDESC_TABLE_MAXENTRIES
L3_ENTRIES == L2_ENTRIES * L3_LDESC_TABLE_MAXENTRIES
\* Entry addresses of the three arrays, in declaration order.
L1_BASE == 0
L2_BASE == L1_LDESC_TABLE_MAXENTRIES
L3_BASE == L2_BASE + L2_ENTRIES
MEM_END == L3_BASE + L3_ENTRIES
\* T0SZ = 0: the whole 32-bit IPA space, in pages, split over the levels.
IpaPages == L1_LDESC_TABLE_MAXENTRIES * L2_LDESC_TABLE_MAXENTRIES * L3_LDESC_TABLE_MAXENTRIES

VARIABLES
  l1_ldesc_table, l2_ldesc_table, l3_ldesc_table,
  vtcr,           \* [t0sz, sl0] or Unknown
  vttbr,          \* [baddr, vmid] or Unknown
  hdcr, hcptr, hstr,
  called          \* the functions that have run (history)

vars == <<l1_ldesc_table, l2_ldesc_table, l3_ldesc_table, vtcr, vttbr,
          hdcr, hcptr, hstr, called>>

Desc(valid, addr) == [valid |-> valid, addr |-> addr]
\* ldesc_make_s2_l1e_invalid; also the zeroed .data contents.
Invalid == Desc(FALSE, 0)

Init ==
  /\ l1_ldesc_table = [i \in 0..(L1_LDESC_TABLE_MAXENTRIES - 1) |-> Invalid]
  /\ l2_ldesc_table = [i \in 0..(L2_ENTRIES - 1) |-> Invalid]
  /\ l3_ldesc_table = [i \in 0..(L3_ENTRIES - 1) |-> Invalid]
  /\ vtcr = Unknown
  /\ vttbr = Unknown
  /\ hdcr \in ResetValues /\ hcptr \in ResetValues /\ hstr \in ResetValues
  /\ called = {}

-----------------------------------------------------------------------------

\* (1 << VTCR_SL0_SHIFT) & VTCR_SL0_MASK: a walk that starts at level 1.
VtcrSl0 == 1

\* VTCR is built from zero, then HDCR keeps only HPMN, HCPTR is its RES1
\* bits and HSTR is cleared.
s2pgtbl_initialize ==
  /\ vtcr' = [t0sz |-> 0, sl0 |-> VtcrSl0]
  /\ hdcr' = hdcr & HDCR_HPMN_MASK
  /\ hcptr' = HCPTR_RES1_MASK
  /\ hstr' = 0
  /\ called' = called \cup {"initialize"}
  /\ UNCHANGED <<l1_ldesc_table, l2_ldesc_table, l3_ldesc_table, vttbr>>

\* Mutant: the l1 loop's bound test is "<=".
L1MappedInclusive(i) == i <= L1_LDESC_TABLE_ENTRIES

\* The l1 loop's bound: the first L1_LDESC_TABLE_ENTRIES entries are mapped.
L1Mapped(i) == i < L1_LDESC_TABLE_ENTRIES

\* l1 entry i points to the i-th block of l2 entries, or is invalid.
L1Entry(i) ==
  IF L1Mapped(i) THEN Desc(TRUE, L2_BASE + i * L2_LDESC_TABLE_MAXENTRIES) ELSE Invalid

\* Mutant: the l3 stride is one table too far.
L2EntryNextTable(i) == Desc(TRUE, L3_BASE + (i + 1) * L3_LDESC_TABLE_MAXENTRIES)

\* l2 entry i points to the i-th block of l3 entries.
L2Entry(i) == Desc(TRUE, L3_BASE + i * L3_LDESC_TABLE_MAXENTRIES)

\* l3 entry i maps page i (i * PAGE_SIZE_4K, in a u32).
L3Entry(i) == Desc(TRUE, i % IpaPages)

s2pgtbl_populate_tables ==
  /\ l1_ldesc_table' = [i \in DOMAIN l1_ldesc_table |-> L1Entry(i)]
  /\ l2_ldesc_table' = [i \in DOMAIN l2_ldesc_table |-> L2Entry(i)]
  /\ l3_ldesc_table' = [i \in DOMAIN l3_ldesc_table |-> L3Entry(i)]
  /\ called' = called \cup {"populate_tables"}
  /\ UNCHANGED <<vtcr, vttbr, hdcr, hcptr, hstr>>

\* VTTBR: the base of l1_ldesc_table and VMID 2.
s2pgtbl_loadpgtblbase ==
  /\ vttbr' = [baddr |-> L1_BASE, vmid |-> 2]
  /\ called' = called \cup {"loadpgtblbase"}
  /\ UNCHANGED <<l1_ldesc_table, l2_ldesc_table, l3_ldesc_table, vtcr,
                 hdcr, hcptr, hstr>>

Next == s2pgtbl_initialize \/ s2pgtbl_populate_tables \/ s2pgtbl_loadpgtblbase

Spec == Init /\ [][Next]_vars

-----------------------------------------------------------------------------
(* The hardware stage-2 walk (ARMv7 LPAE, 4K granule), over the memory    *)
(* the three arrays occupy; a read outside them is a fault.               *)

ReadDesc(a) ==
  CASE a \in L1_BASE..(L2_BASE - 1) -> l1_ldesc_table[a - L1_BASE]
    [] a \in L2_BASE..(L3_BASE - 1) -> l2_ldesc_table[a - L2_BASE]
    [] a \in L3_BASE..(MEM_END - 1) -> l3_ldesc_table[a - L3_BASE]
    [] OTHER -> Invalid

\* Levels 2 and 3 from a level-2 table at address t.
WalkFrom2(t, i2, ipa) ==
  LET e2 == ReadDesc(t + i2)
      e3 == ReadDesc(e2.addr + (ipa % L3_LDESC_TABLE_MAXENTRIES))
  IN  IF e2.valid /\ e3.valid THEN e3.addr ELSE Fault

\* SL0 = 1 starts at level 1; SL0 = 0 starts at level 2 with VTTBR as the
\* base of a level-2 table covering the whole space.
Walk(ipa) ==
  IF vtcr = Unknown \/ vttbr = Unknown THEN Fault
  ELSE IF vtcr.sl0 = 1
  THEN LET e1 == ReadDesc(vttbr.baddr + ipa \div (L2_LDESC_TABLE_MAXENTRIES * L3_LDESC_TABLE_MAXENTRIES))
       IN  IF e1.valid
           THEN WalkFrom2(e1.addr, (ipa \div L3_LDESC_TABLE_MAXENTRIES) % L2_LDESC_TABLE_MAXENTRIES, ipa)
           ELSE Fault
  ELSE WalkFrom2(vttbr.baddr, ipa \div L3_LDESC_TABLE_MAXENTRIES, ipa)

-----------------------------------------------------------------------------
(* Properties                                                              *)

TypeOK ==
  /\ \A i \in DOMAIN l1_ldesc_table :
       ~l1_ldesc_table[i].valid \/ l1_ldesc_table[i].addr \in L2_BASE..(L3_BASE - 1)
  /\ \A i \in DOMAIN l2_ldesc_table :
       ~l2_ldesc_table[i].valid \/ l2_ldesc_table[i].addr \in L3_BASE..(MEM_END - 1)
  /\ \A i \in DOMAIN l3_ldesc_table : l3_ldesc_table[i].addr \in 0..(IpaPages - 1)
  /\ vtcr \in [t0sz : {0}, sl0 : 0..3] \cup {Unknown}
  /\ vttbr \in [baddr : {L1_BASE}, vmid : 0..255] \cup {Unknown}
  /\ called \subseteq {"initialize", "populate_tables", "loadpgtblbase"}

\* Once all three functions have run, in whatever order, the stage-2 walk
\* the hardware does with VTCR and VTTBR is the identity on the first
\* L1_LDESC_TABLE_ENTRIES gigabyte-sized slices and faults on every other
\* IPA: the guest sees its RAM and nothing beyond it.
Stage2Identity ==
  called = {"initialize", "populate_tables", "loadpgtblbase"} =>
    \A ipa \in 0..(IpaPages - 1) :
      Walk(ipa) = IF ipa < L3_ENTRIES THEN ipa ELSE Fault

====
