------------------------------- MODULE SmpGuest -------------------------------
(***************************************************************************)
(* CPU bring-up of the EMHF SMP guest component, x86 backend               *)
(* (emhf-smpguest/arch/x86/smpg-x86.c): emhf_smpguest_arch_initialize and  *)
(* emhf_smpguest_arch_postCPUwakeup, run by every physical cpu.            *)
(*                                                                         *)
(* The other side of the handshake, the SIPI interception handler that     *)
(* fills in vcpu->sipivector and sets vcpu->sipireceived when the guest    *)
(* on the BSP sends a SIPI, lives in the vendor backends outside src/ and  *)
(* is modelled from the spec (sections 4.5, 5 and 6): vector first, then   *)
(* the flag.                                                               *)
(***************************************************************************)
EXTENDS Integers, FiniteSets

CONSTANTS
  Cpus,           \* the physical cpus, one VCPU each
  BSP,            \* the boot-strap processor
  Vectors,        \* SIPI vectors a guest may send
  CPU_VENDOR_AMD, CPU_VENDOR_INTEL,
  NoVector        \* model value: no vector delivered yet

ASSUME BSP \in Cpus
ASSUME NoVector \notin Vectors

\* g_midtable_numentries: the cpus the MP table lists.
g_midtable_numentries == Cardinality(Cpus)

VARIABLES
  cpu_vendor,     \* vcpu->cpu_vendor, the same on every cpu
  pc,             \* where each cpu is in the bring-up path
  intercept,      \* the SIPI interception the BSP armed: "none", "svm", "vmx"
  sipivector,     \* vcpu->sipivector
  sipireceived,   \* vcpu->sipireceived
  sent,           \* the vector the guest sent each AP (history)
  wakeup          \* the backend postCPUwakeup ran for each cpu, with this vector

vars == <<cpu_vendor, pc, intercept, sipivector, sipireceived, sent, wakeup>>

Init ==
  /\ cpu_vendor \in {CPU_VENDOR_AMD, CPU_VENDOR_INTEL}
  /\ pc = [c \in Cpus |-> "init"]
  /\ intercept = "none"
  /\ sipivector = [c \in Cpus |-> 0]
  /\ sipireceived = [c \in Cpus |-> FALSE]
  /\ sent = [c \in Cpus |-> NoVector]
  /\ wakeup = [c \in Cpus |-> NoVector]

-----------------------------------------------------------------------------
(* emhf_smpguest_arch_initialize                                           *)

\* Mutant: the BSP branch forgets the backend initialize call.
ArmInterceptMissing == UNCHANGED intercept

\* The vendor backend that arms SIPI interception.
ArmIntercept ==
  intercept' = IF cpu_vendor = CPU_VENDOR_AMD THEN "svm" ELSE "vmx"

\* A BSP on a platform with more than one cpu arms interception and goes on.
InitializeLeader(c) ==
  /\ pc[c] = "init"
  /\ c = BSP /\ g_midtable_numentries > 1
  /\ ArmIntercept
  /\ pc' = [pc EXCEPT ![c] = "running"]
  /\ UNCHANGED <<cpu_vendor, sipivector, sipireceived, sent, wakeup>>

\* Every other cpu takes the "AP" branch and starts spinning.
InitializeFollower(c) ==
  /\ pc[c] = "init"
  /\ ~(c = BSP /\ g_midtable_numentries > 1)
  /\ pc' = [pc EXCEPT ![c] = "spin"]
  /\ UNCHANGED <<cpu_vendor, intercept, sipivector, sipireceived, sent, wakeup>>

\* Mutant: the spin loop is an "if": the cpu goes on without the signal.
SipiSeenNoWait(c) == TRUE

\* The exit test of while(!vcpu->sipireceived).
SipiSeen(c) == sipireceived[c]

\* while(!vcpu->sipireceived); then the vector is read and
\* emhf_smpguest_arch_postCPUwakeup runs the vendor backend with it.
SpinExit(c) ==
  /\ pc[c] = "spin"
  /\ SipiSeen(c)
  /\ wakeup' = [wakeup EXCEPT ![c] = sipivector[c]]
  /\ pc' = [pc EXCEPT ![c] = "running"]
  /\ UNCHANGED <<cpu_vendor, intercept, sipivector, sipireceived, sent>>

-----------------------------------------------------------------------------
(* The SIPI interception handler (spec-modelled): the guest running on the *)
(* BSP sends a SIPI to an AP; the handler stores the vector, then raises   *)
(* the flag.                                                               *)

InterceptSipiVector(ap, v) ==
  /\ intercept # "none"
  /\ pc[BSP] = "running"
  /\ ap # BSP
  /\ sent[ap] = NoVector
  /\ sipivector' = [sipivector EXCEPT ![ap] = v]
  /\ sent' = [sent EXCEPT ![ap] = v]
  /\ UNCHANGED <<cpu_vendor, pc, intercept, sipireceived, wakeup>>

InterceptSipiSignal(ap) ==
  /\ sent[ap] # NoVector
  /\ ~sipireceived[ap]
  /\ sipireceived' = [sipireceived EXCEPT ![ap] = TRUE]
  /\ UNCHANGED <<cpu_vendor, pc, intercept, sipivector, sent, wakeup>>

-----------------------------------------------------------------------------

CpuStep(c) == InitializeLeader(c) \/ InitializeFollower(c) \/ SpinExit(c)

GuestStep(ap) == (\E v \in Vectors : InterceptSipiVector(ap, v)) \/ InterceptSipiSignal(ap)

Next == \E c \in Cpus : CpuStep(c) \/ GuestStep(c)

\* Each physical cpu runs its own code and keeps running: weak fairness per
\* cpu.  The guest on the BSP starts every AP the MP table lists, and the
\* handler always completes: weak fairness of the SIPI steps.
Fairness ==
  /\ \A c \in Cpus : WF_vars(CpuStep(c))
  /\ \A c \in Cpus : WF_vars(GuestStep(c))

Spec == Init /\ [][Next]_vars /\ Fairness

-----------------------------------------------------------------------------
(* Properties                                                              *)

TypeOK ==
  /\ cpu_vendor \in {CPU_VENDOR_AMD, CPU_VENDOR_INTEL}
  /\ pc \in [Cpus -> {"init", "spin", "running"}]
  /\ intercept \in {"none", "svm", "vmx"}
  /\ sipivector \in [Cpus -> Vectors \cup {0}]
  /\ sipireceived \in [Cpus -> BOOLEAN]
  /\ sent \in [Cpus -> Vectors \cup {NoVector}]
  /\ wakeup \in [Cpus -> Vectors \cup {NoVector}]

\* Spec section 4.5: every cpu, leader and followers, reaches normal
\* operation.
AllCpusOperational ==
  \A c \in Cpus : <>(pc[c] = "running")

=============================================================================
