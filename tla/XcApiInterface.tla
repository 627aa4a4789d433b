---------------------------- MODULE XcApiInterface ----------------------------
(***************************************************************************)
(* The core API gateway, xcapi_interface (xcapipartition-code.c): one      *)
(* switch on fn_id that unmarshals the parameters and calls the handler.   *)
(* The partition handlers are those of XcApiPartition; the hpt, trapmask,  *)
(* cpustate, platform and NMI handlers live outside src/ and touch none of *)
(* the partition tables, so they are opaque here: a value-returning one    *)
(* fills srval with something this model does not track, a void one      *)
(* leaves the uninitialized srval to be returned.  The callers are slabs   *)
(* of the HIC capability table (SlabCapTable).                             *)
(***************************************************************************)
EXTENDS XcApiPartition, SlabCapTable

CONSTANTS
  FnIds,          \* fn_id values callers may pass
  Callers,        \* src_slabid values
  Callees,        \* dst_slabid values
  NoCall          \* model value: no call dispatched yet

\* The fn_id values of the switch, by the kind of their case arm.
PartitionFns == {"PARTITIONCREATE", "PARTITIONADDCPU",
                 "PARTITIONGETCONTEXTDESC", "PARTITIONSTARTCPU"}
ValueFns == {"HPTGETPROT", "HPTGETENTRY", "HPTLVL2PAGEWALK", "CPUSTATEGET"}
VoidFns == {"HPTSETPROT", "HPTSETENTRY", "HPTFLUSHCACHES", "TRAPMASKSET",
            "TRAPMASKCLEAR", "CPUSTATESET", "PLATFORMSHUTDOWN",
            "ARCHEVENTHANDLERNMIEXCEPTION"}
KnownFns == PartitionFns \cup ValueFns \cup VoidFns

VARIABLES
  halted,         \* the cpu in xcapi_interface executed HALT()
  last_call       \* [src, dst, fn] of the last call that reached a handler

gvars == <<vars, halted, last_call>>

GatewayInit ==
  /\ Init
  /\ halted = FALSE
  /\ last_call = NoCall

\* The four partition case arms, each with the parameters it unmarshals.
PartitionHandler(fn) ==
  CASE fn = "PARTITIONCREATE" ->
         \E t \in {XC_PARTITION_PRIMARY, OtherPartitionType} : xc_api_partition_create(t)
    [] fn = "PARTITIONADDCPU" ->
         \E p \in PartitionArgs, c \in CpuIdArgs, b, ok \in BOOLEAN :
           xc_api_partition_addcpu(p, c, b, ok)
    [] fn = "PARTITIONGETCONTEXTDESC" ->
         \E c \in CpuIds : xc_api_partition_getcontextdesc(c)
    [] fn = "PARTITIONSTARTCPU" ->
         \E d \in IssuedDescs, ok \in BOOLEAN : xc_api_partition_startcpu(d, ok)

\* An arm whose handler is outside src/: srval.retval_* of a getter is a
\* value untracked here, and a void arm returns srval uninitialized.
OpaqueHandler(fn) ==
  /\ srval' = Garbage
  /\ UNCHANGED <<Registry, addcpu_calls>>

\* xcapi_interface: no arm looks at src_slabid or dst_slabid; an fn_id
\* without an arm (the FLUSHCACHESSMP arm is commented out) halts.
xcapi_interface(src, dst, fn) ==
  /\ ~halted
  /\ \/ /\ fn \in PartitionFns
        /\ PartitionHandler(fn)
        /\ last_call' = [src |-> src, dst |-> dst, fn |-> fn]
        /\ UNCHANGED halted
     \/ /\ fn \in ValueFns \cup VoidFns
        /\ OpaqueHandler(fn)
        /\ last_call' = [src |-> src, dst |-> dst, fn |-> fn]
        /\ UNCHANGED halted
     \/ /\ fn \notin KnownFns
        /\ halted' = TRUE
        /\ UNCHANGED <<vars, last_call>>

GatewayNext == \E src \in Callers, dst \in Callees, fn \in FnIds :
                 xcapi_interface(src, dst, fn)

GatewaySpec == GatewayInit /\ [][GatewayNext]_gvars

-----------------------------------------------------------------------------
(* Properties                                                              *)

GatewayTypeOK ==
  /\ TypeOK
  /\ halted \in BOOLEAN
  /\ last_call \in [src : Callers, dst : Callees, fn : KnownFns] \cup {NoCall}

\* Spec sections 1 and 2: a call reaches a handler only if the callee is
\* among the caller's call capabilities in the HIC table.
CallsRespectCapabilities ==
  last_call # NoCall => last_call.dst \in slab_caps[last_call.src].slab_callcaps

====
