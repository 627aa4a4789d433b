----------------------------- MODULE SlabCapTable -----------------------------
(***************************************************************************)
(* The static slab capability table of the HIC, _xmhfhic_init_setupdata_   *)
(* slab_caps (xmhf-hic/xmhf-hic-initdata.c), one row per slab: privilege  *)
(* mask, call capabilities, guest descriptor and execution type.  A        *)
(* HIC_SLAB_CALLCAP(s) bit, and a guest-capability bit, is a member of a *)
(* set: the guest mask 0xFFFFFFFFFFFFFFFF is the set of bits 0..63.      *)
(***************************************************************************)
EXTENDS Integers

\* Slab ids: the row order of the table.
XMHF_HYP_SLAB_XCINIT == 0
XMHF_HYP_SLAB_XCIHUB == 1
XMHF_HYP_SLAB_XCEXHUB == 2
XMHF_HYP_SLAB_XCTESTSLAB1 == 3
XMHF_HYP_SLAB_XHHYPERDEP == 4
XMHF_HYP_SLAB_XHAPPROVEXEC == 5
XMHF_HYP_SLAB_XHSYSCALLLOG == 6
XMHF_HYP_SLAB_XHSSTEPTRACE == 7
XMHF_GUEST_SLAB_XCGUESTSLAB == 8

XMHF_HIC_MAX_SLABS == 9
Slabs == 0..(XMHF_HIC_MAX_SLABS - 1)

HIC_SLAB_X86VMXX86PC_HYPERVISOR == "hypervisor"
HIC_SLAB_X86VMXX86PC_GUEST == "guest"

Row(callcaps, guest, type) ==
  [slab_privilegemask |-> 0, slab_callcaps |-> callcaps,
   slab_guest |-> guest, slab_archtype |-> type]

NoGuest == [is_guest |-> FALSE, caps |-> {}]
HypRow(callcaps) == Row(callcaps, NoGuest, HIC_SLAB_X86VMXX86PC_HYPERVISOR)

\* _xmhfhic_init_setupdata_slab_caps
slab_caps ==
  [s \in Slabs |->
     CASE s = XMHF_HYP_SLAB_XCINIT ->
            HypRow({XMHF_HYP_SLAB_XCTESTSLAB1, XMHF_GUEST_SLAB_XCGUESTSLAB})
       [] s = XMHF_HYP_SLAB_XCIHUB ->
            HypRow({XMHF_HYP_SLAB_XHHYPERDEP, XMHF_HYP_SLAB_XHAPPROVEXEC,
                    XMHF_HYP_SLAB_XHSSTEPTRACE})
       [] s = XMHF_GUEST_SLAB_XCGUESTSLAB ->
            Row({}, [is_guest |-> TRUE, caps |-> 0..63],
                HIC_SLAB_X86VMXX86PC_GUEST)
       [] OTHER -> HypRow({})]

\* Section 3 of the spec: no call capability of a guest-type slab names a
\* hypervisor-type slab.  The table is a constant, so TLC checks this as an
\* assumption whenever a module that uses the table is loaded.
GuestNoHypervisorCallCap ==
  \A s \in Slabs :
    slab_caps[s].slab_archtype = HIC_SLAB_X86VMXX86PC_GUEST =>
      \A d \in slab_caps[s].slab_callcaps :
        slab_caps[d].slab_archtype # HIC_SLAB_X86VMXX86PC_HYPERVISOR

ASSUME GuestNoHypervisorCallCap

=============================================================================
