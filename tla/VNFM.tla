-------------------------------- MODULE VNFM --------------------------------
(***************************************************************************)
(* The ETSI NFV-SOL 003 VNF manager (etsi/nfv/vnfm.py): VNF instances, LCM *)
(* operation occurrences and the asyncio tasks that carry them out.  A     *)
(* handler runs to its end without an await; a task gives the event loop   *)
(* up at its sleep, so anything can happen to its VNF before it wakes.     *)
(* How long the sleeps last is left out: the tasks wake in any order.      *)
(***************************************************************************)
CONSTANTS
  Vnfs,   \* ids create_vnf_instance can draw (uuid4: never drawn twice)
  Ops,    \* ids of LCM operation occurrences, likewise
  NoOp    \* no occurrence: not created yet, or no instantiation behind a VNF

VnfStates   == {"UNKNOWN", "NOT_INSTANTIATED", "INSTANTIATED", "DELETED"}
Occurrences == [vnf   : Vnfs,
                kind  : {"INSTANTIATE", "TERMINATE"},
                state : {"STARTING", "PROCESSING", "COMPLETED", "FAILED"}]

ASSUME NoOpAssumption == NoOp \notin Ops /\ NoOp \notin Occurrences

VARIABLES
  instantiationState,  \* of each VNF: "UNKNOWN" before its creation, "DELETED" after
  instantiatedVnfInfo, \* the operation whose resources the VNF runs on, or NoOp
  lcm_op_occs          \* the operation occurrences, NoOp where there is none yet

vnfmVars == <<instantiationState, instantiatedVnfInfo, lcm_op_occs>>

VnfmInit ==
  /\ instantiationState = [v \in Vnfs |-> "UNKNOWN"]
  /\ instantiatedVnfInfo = [v \in Vnfs |-> NoOp]
  /\ lcm_op_occs = [o \in Ops |-> NoOp]

Registered(v) == instantiationState[v] \in {"NOT_INSTANTIATED", "INSTANTIATED"}

Is(o, kind, state) ==
  lcm_op_occs[o] # NoOp /\ lcm_op_occs[o].kind = kind /\ lcm_op_occs[o].state = state

Enter(o, state) == lcm_op_occs' = [lcm_op_occs EXCEPT ![o].state = state]

Open(o, v, kind, state) ==
  /\ lcm_op_occs[o] = NoOp
  /\ lcm_op_occs' = [lcm_op_occs EXCEPT ![o] = [vnf |-> v, kind |-> kind, state |-> state]]
------------------------------------------------------------------------------
(* The handlers; a request they reject changes nothing. *)

\* create_vnf_instance, of a VNFD in the catalog.
CreateVnfInstance(v) ==
  /\ instantiationState[v] = "UNKNOWN"
  /\ instantiationState' = [instantiationState EXCEPT ![v] = "NOT_INSTANTIATED"]
  /\ UNCHANGED <<instantiatedVnfInfo, lcm_op_occs>>

\* instantiate_vnf: the state is checked now, and set by the task much later.
InstantiateVnf(o, v) ==
  /\ instantiationState[v] = "NOT_INSTANTIATED"
  /\ Open(o, v, "INSTANTIATE", "STARTING")
  /\ UNCHANGED <<instantiationState, instantiatedVnfInfo>>

\* terminate_vnf: any registered VNF, whatever its state.
TerminateVnf(o, v) ==
  /\ Registered(v)
  /\ Open(o, v, "TERMINATE", "PROCESSING")
  /\ UNCHANGED <<instantiationState, instantiatedVnfInfo>>

\* delete_vnf_instance: operations still under way are not looked at.
DeleteVnfInstance(v) ==
  /\ instantiationState[v] = "NOT_INSTANTIATED"
  /\ instantiationState' = [instantiationState EXCEPT ![v] = "DELETED"]
  /\ UNCHANGED <<instantiatedVnfInfo, lcm_op_occs>>
------------------------------------------------------------------------------
(* The tasks *)

\* _do_instantiate up to its sleep.
StartInstantiation(o) ==
  /\ Is(o, "INSTANTIATE", "STARTING")
  /\ Enter(o, "PROCESSING")
  /\ UNCHANGED <<instantiationState, instantiatedVnfInfo>>

\* A VNF deleted in the meantime is a KeyError, which fails the operation.
FailTemporarily(o) ==   \* mutated form: a failure to be retried, which nobody retries
  /\ ~Registered(lcm_op_occs[o].vnf)
  /\ Enter(o, "FAILED_TEMP")
  /\ UNCHANGED <<instantiationState, instantiatedVnfInfo>>

Fail(o) ==
  /\ ~Registered(lcm_op_occs[o].vnf)
  /\ Enter(o, "FAILED")
  /\ UNCHANGED <<instantiationState, instantiatedVnfInfo>>

\* _do_instantiate after its sleep.
FinishInstantiation(o) ==
  /\ Is(o, "INSTANTIATE", "PROCESSING")
  /\ \/ LET v == lcm_op_occs[o].vnf IN
          /\ Registered(v)
          /\ instantiationState' = [instantiationState EXCEPT ![v] = "INSTANTIATED"]
          /\ instantiatedVnfInfo' = [instantiatedVnfInfo EXCEPT ![v] = o]
          /\ Enter(o, "COMPLETED")
     \/ Fail(o)

\* _do_terminate after its sleep.
FinishTerminationHeld(o) ==   \* mutated form: the VNF is looked up before the sleep
  /\ Is(o, "TERMINATE", "PROCESSING")
  /\ LET v == lcm_op_occs[o].vnf IN
       /\ instantiationState' = [instantiationState EXCEPT ![v] = "NOT_INSTANTIATED"]
       /\ instantiatedVnfInfo' = [instantiatedVnfInfo EXCEPT ![v] = NoOp]
       /\ Enter(o, "COMPLETED")

FinishTerminationKeepingInfo(o) ==   \* mutated form: the resources are not released
  /\ Is(o, "TERMINATE", "PROCESSING")
  /\ \/ LET v == lcm_op_occs[o].vnf IN
          /\ Registered(v)
          /\ instantiationState' = [instantiationState EXCEPT ![v] = "NOT_INSTANTIATED"]
          /\ UNCHANGED instantiatedVnfInfo
          /\ Enter(o, "COMPLETED")
     \/ Fail(o)

FinishTerminationOrRaise(o) ==   \* mutated form: the KeyError escapes the task
  /\ Is(o, "TERMINATE", "PROCESSING")
  /\ LET v == lcm_op_occs[o].vnf IN
       /\ Registered(v)
       /\ instantiationState' = [instantiationState EXCEPT ![v] = "NOT_INSTANTIATED"]
       /\ instantiatedVnfInfo' = [instantiatedVnfInfo EXCEPT ![v] = NoOp]
       /\ Enter(o, "COMPLETED")

FinishTermination(o) ==
  /\ Is(o, "TERMINATE", "PROCESSING")
  /\ \/ LET v == lcm_op_occs[o].vnf IN
          /\ Registered(v)
          /\ instantiationState' = [instantiationState EXCEPT ![v] = "NOT_INSTANTIATED"]
          /\ instantiatedVnfInfo' = [instantiatedVnfInfo EXCEPT ![v] = NoOp]
          /\ Enter(o, "COMPLETED")
     \/ Fail(o)

Task(o) == StartInstantiation(o) \/ FinishInstantiation(o) \/ FinishTermination(o)

VnfmNext ==
  \/ \E v \in Vnfs : CreateVnfInstance(v) \/ DeleteVnfInstance(v)
  \/ \E v \in Vnfs, o \in Ops : InstantiateVnf(o, v) \/ TerminateVnf(o, v)
  \/ \E o \in Ops : Task(o)

VnfmSpec == VnfmInit /\ [][VnfmNext]_vnfmVars

\* The event loop wakes every sleeping task; nothing obliges a client to call.
VnfmFairness == \A o \in Ops : WF_vnfmVars(Task(o))

VnfmFairSpec == VnfmSpec /\ VnfmFairness
------------------------------------------------------------------------------
\* Registry and operations hold the states the code gives them, no other.
VnfmTypeOK ==
  /\ instantiationState \in [Vnfs -> VnfStates]
  /\ instantiatedVnfInfo \in [Vnfs -> Ops \cup {NoOp}]
  /\ lcm_op_occs \in [Ops -> Occurrences \cup {NoOp}]

\* A VNF is INSTANTIATED exactly while it holds resources, and these come from
\* an instantiation of that very VNF that completed, in whatever order the
\* tasks of its operations woke up and whatever was deleted in between.
RunsOnOwnResources ==
  \A v \in Vnfs :
    /\ instantiationState[v] = "INSTANTIATED" <=> instantiatedVnfInfo[v] # NoOp
    /\ instantiatedVnfInfo[v] # NoOp =>
         /\ Is(instantiatedVnfInfo[v], "INSTANTIATE", "COMPLETED")
         /\ lcm_op_occs[instantiatedVnfInfo[v]].vnf = v

Completes(o) ==
  lcm_op_occs[o] # NoOp /\ lcm_op_occs[o].state = "PROCESSING"
    /\ lcm_op_occs'[o].state = "COMPLETED"

Outcome(kind) == IF kind = "INSTANTIATE" THEN "INSTANTIATED" ELSE "NOT_INSTANTIATED"

\* An operation that reports COMPLETED has put its VNF, still registered, into
\* the state it was asked for; a VNF starts or stops running in no other way,
\* is never deleted while it runs and never comes back once deleted.
OutcomesTakeEffect ==
  [][/\ \A o \in Ops : Completes(o) =>
          LET v == lcm_op_occs[o].vnf IN
            Registered(v) /\ instantiationState'[v] = Outcome(lcm_op_occs[o].kind)
     /\ \A v \in Vnfs : instantiationState'[v] # instantiationState[v] =>
          \/ instantiationState[v] = "UNKNOWN"
          \/ instantiationState[v] = "NOT_INSTANTIATED" /\ instantiationState'[v] = "DELETED"
          \/ \E o \in Ops : Completes(o) /\ lcm_op_occs[o].vnf = v]_vnfmVars

Ended(o) == lcm_op_occs[o] # NoOp /\ lcm_op_occs[o].state \in {"COMPLETED", "FAILED"}

\* Every operation the manager accepted is completed or failed in the end, also
\* when its VNF is deleted under it.
OperationsEnd ==
  \A o \in Ops : lcm_op_occs[o] # NoOp ~> Ended(o)

\* instantiate_vnf refuses with "VNF already instantiated": a VNF that runs is
\* not instantiated over.  The check is made before the task's sleep, and an
\* instantiation overtaken by another one completes all the same.
NoDoubleInstantiation ==
  [][\A o \in Ops : Completes(o) /\ lcm_op_occs[o].kind = "INSTANTIATE" =>
       instantiationState[lcm_op_occs[o].vnf] = "NOT_INSTANTIATED"]_vnfmVars
==============================================================================
