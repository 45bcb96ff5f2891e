----------------------------- MODULE Cloud_proofs ------------------------------
(***************************************************************************)
(* What the network functions run on: the VNF manager and the O-Cloud's    *)
(* books, which share no state.                                            *)
(*                                                                         *)
(* Any number of VNFs and operations: the manager's registry agrees with   *)
(* the operations it reports, whichever task wakes first.                  *)
(*                                                                         *)
(* For nodes of any number and size, any descriptors and any deployments:  *)
(* no sequence of calls overcommits a node, the books of each node balance *)
(* until something is scaled, and the gauge covers what is running.  Types *)
(* and capacity are inductive together; the books are sums over the        *)
(* deployments, whose number is not bounded here, so a section of its own  *)
(* shows what a sum becomes when one of its values changes.                *)
(***************************************************************************)
EXTENDS VNFM, OCloud, FiniteSetTheorems, WellFoundedInduction, TLAPS

-----------------------------------------------------------------------------
(* The VNF manager.                                                         *)

\* A VNF has the state its completed operations left it in.
VnfmIInv == VnfmTypeOK /\ RunsOnOwnResources

LEMMA VnfmInitInv == VnfmInit => VnfmIInv
<1> SUFFICES ASSUME VnfmInit PROVE VnfmIInv
  OBVIOUS
<1>1. VnfmTypeOK
  BY DEF VnfmInit, VnfmTypeOK, VnfStates
<1>2. RunsOnOwnResources
  BY DEF VnfmInit, RunsOnOwnResources
<1> QED
  BY <1>1, <1>2 DEF VnfmIInv

\* An occurrence that changes its operationState keeps its VNF and its kind, and
\* the others are not touched.
LEMMA Entering ==
  ASSUME VnfmTypeOK, NEW o \in Ops, lcm_op_occs[o] # NoOp,
         NEW s \in {"PROCESSING", "COMPLETED", "FAILED"}, Enter(o, s)
  PROVE  /\ lcm_op_occs' \in [Ops -> Occurrences \cup {NoOp}]
         /\ lcm_op_occs'[o] \in Occurrences
         /\ lcm_op_occs'[o].vnf = lcm_op_occs[o].vnf
         /\ lcm_op_occs'[o].kind = lcm_op_occs[o].kind
         /\ lcm_op_occs'[o].state = s
         /\ \A p \in Ops : p # o => lcm_op_occs'[p] = lcm_op_occs[p]
<1>1. lcm_op_occs[o] \in Occurrences
  BY DEF VnfmTypeOK
<1>2. lcm_op_occs' = [lcm_op_occs EXCEPT ![o] = [lcm_op_occs[o] EXCEPT !.state = s]]
  BY DEF Enter
<1>3. [lcm_op_occs[o] EXCEPT !.state = s] \in Occurrences
  BY <1>1 DEF Occurrences
<1> QED
  BY <1>1, <1>2, <1>3 DEF VnfmTypeOK, Occurrences

\* A new occurrence takes an id no VNF runs on.
LEMMA Opening ==
  ASSUME VnfmTypeOK, NEW o \in Ops, NEW v \in Vnfs,
         NEW k \in {"INSTANTIATE", "TERMINATE"}, NEW s \in {"STARTING", "PROCESSING"},
         Open(o, v, k, s)
  PROVE  /\ lcm_op_occs' \in [Ops -> Occurrences \cup {NoOp}]
         /\ lcm_op_occs[o] = NoOp
         /\ lcm_op_occs'[o].state = s
         /\ \A p \in Ops : p # o => lcm_op_occs'[p] = lcm_op_occs[p]
<1>1. [vnf |-> v, kind |-> k, state |-> s] \in Occurrences
  BY DEF Occurrences
<1> QED
  BY <1>1 DEF Open, VnfmTypeOK

LEMMA VnfmNextInv == VnfmIInv /\ [VnfmNext]_vnfmVars => VnfmIInv'
<1> SUFFICES ASSUME VnfmTypeOK, RunsOnOwnResources, [VnfmNext]_vnfmVars PROVE VnfmTypeOK' /\ RunsOnOwnResources'
  BY DEF VnfmIInv
<1> USE DEF VnfmTypeOK, VnfStates
<1>1. ASSUME NEW v \in Vnfs, CreateVnfInstance(v) PROVE VnfmTypeOK' /\ RunsOnOwnResources'
  BY <1>1 DEF CreateVnfInstance, RunsOnOwnResources, Is
<1>2. ASSUME NEW v \in Vnfs, DeleteVnfInstance(v) PROVE VnfmTypeOK' /\ RunsOnOwnResources'
  BY <1>2 DEF DeleteVnfInstance, RunsOnOwnResources, Is
<1>3. ASSUME NEW v \in Vnfs, NEW o \in Ops, InstantiateVnf(o, v) \/ TerminateVnf(o, v)
      PROVE  VnfmTypeOK' /\ RunsOnOwnResources'
  <2>1. /\ lcm_op_occs' \in [Ops -> Occurrences \cup {NoOp}] /\ lcm_op_occs[o] = NoOp
        /\ \A p \in Ops : p # o => lcm_op_occs'[p] = lcm_op_occs[p]
        /\ UNCHANGED <<instantiationState, instantiatedVnfInfo>>
    BY <1>3, Opening DEF InstantiateVnf, TerminateVnf
  <2> QED
    BY <2>1 DEF RunsOnOwnResources, Is
<1>4. ASSUME NEW o \in Ops, StartInstantiation(o) PROVE VnfmTypeOK' /\ RunsOnOwnResources'
  <2>1. lcm_op_occs[o] # NoOp /\ lcm_op_occs[o].state = "STARTING" /\ Enter(o, "PROCESSING")
    BY <1>4 DEF StartInstantiation, Is
  <2>2. /\ lcm_op_occs' \in [Ops -> Occurrences \cup {NoOp}]
        /\ \A p \in Ops : p # o => lcm_op_occs'[p] = lcm_op_occs[p]
    BY <2>1, Entering
  <2> QED
    BY <1>4, <2>1, <2>2 DEF StartInstantiation, RunsOnOwnResources, Is
<1>5. ASSUME NEW o \in Ops, FinishInstantiation(o) \/ FinishTermination(o), Fail(o)
      PROVE  VnfmTypeOK' /\ RunsOnOwnResources'
  <2>1. lcm_op_occs[o] # NoOp /\ lcm_op_occs[o].state = "PROCESSING" /\ Enter(o, "FAILED")
    BY <1>5 DEF FinishInstantiation, FinishTermination, Is, Fail
  <2>2. /\ lcm_op_occs' \in [Ops -> Occurrences \cup {NoOp}]
        /\ \A p \in Ops : p # o => lcm_op_occs'[p] = lcm_op_occs[p]
    BY <2>1, Entering
  <2> QED
    BY <1>5, <2>1, <2>2 DEF Fail, RunsOnOwnResources, Is
<1>6. ASSUME NEW o \in Ops, FinishInstantiation(o), ~Fail(o) PROVE VnfmTypeOK' /\ RunsOnOwnResources'
  <2> DEFINE v == lcm_op_occs[o].vnf
  <2>1. /\ lcm_op_occs[o] # NoOp /\ lcm_op_occs[o].kind = "INSTANTIATE"
        /\ instantiationState' = [instantiationState EXCEPT ![v] = "INSTANTIATED"]
        /\ instantiatedVnfInfo' = [instantiatedVnfInfo EXCEPT ![v] = o]
        /\ Enter(o, "COMPLETED")
    BY <1>6 DEF FinishInstantiation, Is
  <2>2. v \in Vnfs
    BY <2>1 DEF Occurrences
  <2>3. /\ lcm_op_occs' \in [Ops -> Occurrences \cup {NoOp}]
        /\ lcm_op_occs'[o] \in Occurrences /\ lcm_op_occs'[o].vnf = v
        /\ lcm_op_occs'[o].kind = "INSTANTIATE" /\ lcm_op_occs'[o].state = "COMPLETED"
        /\ \A p \in Ops : p # o => lcm_op_occs'[p] = lcm_op_occs[p]
    BY <2>1, Entering
  <2>4. lcm_op_occs[o].state = "PROCESSING"
    BY <1>6 DEF FinishInstantiation, Is
  <2> QED
    BY <2>1, <2>2, <2>3, <2>4, NoOpAssumption DEF RunsOnOwnResources, Is
<1>7. ASSUME NEW o \in Ops, FinishTermination(o), ~Fail(o) PROVE VnfmTypeOK' /\ RunsOnOwnResources'
  <2> DEFINE v == lcm_op_occs[o].vnf
  <2>1. /\ lcm_op_occs[o] # NoOp /\ lcm_op_occs[o].kind = "TERMINATE"
        /\ instantiationState' = [instantiationState EXCEPT ![v] = "NOT_INSTANTIATED"]
        /\ instantiatedVnfInfo' = [instantiatedVnfInfo EXCEPT ![v] = NoOp]
        /\ Enter(o, "COMPLETED")
    BY <1>7 DEF FinishTermination, Is
  <2>2. v \in Vnfs
    BY <2>1 DEF Occurrences
  <2>3. /\ lcm_op_occs' \in [Ops -> Occurrences \cup {NoOp}]
        /\ \A p \in Ops : p # o => lcm_op_occs'[p] = lcm_op_occs[p]
    BY <2>1, Entering
  <2> QED
    BY <2>1, <2>2, <2>3 DEF RunsOnOwnResources, Is
<1>8. CASE UNCHANGED vnfmVars
  BY <1>8 DEF vnfmVars, RunsOnOwnResources, Is
<1> QED
  BY <1>1, <1>2, <1>3, <1>4, <1>5, <1>6, <1>7, <1>8 DEF VnfmNext, Task
------------------------------------------------------------------------------
LEMMA VnfmInvariance == VnfmSpec => []VnfmIInv
  BY VnfmInitInv, VnfmNextInv, PTL DEF VnfmSpec

\* VNFM.vnf_instances and VNFM.lcm_op_occs hold what the code stores in them.
THEOREM VnfmTypesHold == VnfmSpec => []VnfmTypeOK
<1>1. VnfmIInv => VnfmTypeOK
  BY DEF VnfmIInv
<1> QED
  BY VnfmInvariance, <1>1, PTL

\* A VNF is INSTANTIATED exactly while it holds the resources of an instantiation
\* of its own that completed.
THEOREM ResourcesAreOwned == VnfmSpec => []RunsOnOwnResources
<1>1. VnfmIInv => RunsOnOwnResources
  BY DEF VnfmIInv
<1> QED
  BY VnfmInvariance, <1>1, PTL

\* Only a handler that creates or deletes, or an operation that completes, changes
\* the state of a VNF, and an operation completes only by that change.
LEMMA StepsTakeEffect ==
  ASSUME VnfmTypeOK, [VnfmNext]_vnfmVars
  PROVE  /\ \A o \in Ops : Completes(o) =>
              LET v == lcm_op_occs[o].vnf IN
                Registered(v) /\ instantiationState'[v] = Outcome(lcm_op_occs[o].kind)
         /\ \A v \in Vnfs : instantiationState'[v] # instantiationState[v] =>
              \/ instantiationState[v] = "UNKNOWN"
              \/ instantiationState[v] = "NOT_INSTANTIATED" /\ instantiationState'[v] = "DELETED"
              \/ \E o \in Ops : Completes(o) /\ lcm_op_occs[o].vnf = v
<1> DEFINE Claimed(o) == Completes(o) =>
             /\ Registered(lcm_op_occs[o].vnf)
             /\ instantiationState'[lcm_op_occs[o].vnf] = Outcome(lcm_op_occs[o].kind)
<1> DEFINE Accounted(v) == instantiationState'[v] # instantiationState[v] =>
             \/ instantiationState[v] = "UNKNOWN"
             \/ instantiationState[v] = "NOT_INSTANTIATED" /\ instantiationState'[v] = "DELETED"
             \/ \E o \in Ops : Completes(o) /\ lcm_op_occs[o].vnf = v
<1> DEFINE Goal == (\A o \in Ops : Claimed(o)) /\ (\A v \in Vnfs : Accounted(v))
<1>1. ASSUME UNCHANGED lcm_op_occs,
             \/ UNCHANGED instantiationState
             \/ \E v \in Vnfs : CreateVnfInstance(v) \/ DeleteVnfInstance(v)
      PROVE  Goal
  <2>1. \A o \in Ops : ~Completes(o)
    BY <1>1 DEF Completes
  <2>2. \A v \in Vnfs : Accounted(v)
    BY <1>1 DEF CreateVnfInstance, DeleteVnfInstance, VnfmTypeOK
  <2> QED
    BY <2>1, <2>2
<1>2. ASSUME NEW v \in Vnfs, NEW o \in Ops, InstantiateVnf(o, v) \/ TerminateVnf(o, v) PROVE Goal
  <2>1. /\ lcm_op_occs[o] = NoOp /\ UNCHANGED instantiationState
        /\ \A p \in Ops : p # o => lcm_op_occs'[p] = lcm_op_occs[p]
    BY <1>2, Opening DEF InstantiateVnf, TerminateVnf
  <2>2. \A p \in Ops : ~Completes(p)
    BY <2>1 DEF Completes
  <2> QED
    BY <2>1, <2>2
<1>3. ASSUME NEW o \in Ops, StartInstantiation(o) \/ (Fail(o) /\ Task(o)) PROVE Goal
  <2>1. PICK s \in {"PROCESSING", "FAILED"} :
          lcm_op_occs[o] # NoOp /\ Enter(o, s) /\ UNCHANGED instantiationState
    BY <1>3 DEF StartInstantiation, Task, FinishInstantiation, FinishTermination, Fail, Is
  <2>2. \A p \in Ops : ~Completes(p)
    BY <2>1, Entering DEF Completes
  <2> QED
    BY <2>1, <2>2
<1>4. ASSUME NEW o \in Ops, Task(o), ~Fail(o), ~StartInstantiation(o) PROVE Goal
  <2> DEFINE v == lcm_op_occs[o].vnf
  <2>1. /\ lcm_op_occs[o] \in Occurrences /\ lcm_op_occs[o].state = "PROCESSING"
        /\ Registered(v) /\ Enter(o, "COMPLETED")
        /\ instantiationState' = [instantiationState EXCEPT ![v] = Outcome(lcm_op_occs[o].kind)]
    BY <1>4 DEF Task, FinishInstantiation, FinishTermination, Is, Outcome, VnfmTypeOK
  <2>2. v \in Vnfs
    BY <2>1 DEF Occurrences
  <2>3. Completes(o) /\ \A p \in Ops : p # o => ~Completes(p)
    BY <2>1, Entering, NoOpAssumption DEF Completes
  <2>4. instantiationState'[v] = Outcome(lcm_op_occs[o].kind)
    BY <2>1, <2>2 DEF VnfmTypeOK
  <2>5. \A u \in Vnfs : u # v => instantiationState'[u] = instantiationState[u]
    BY <2>1, <2>2 DEF VnfmTypeOK
  <2> QED
    BY <2>1, <2>3, <2>4, <2>5
<1>5. Goal
  BY <1>1, <1>2, <1>3, <1>4 DEF VnfmNext, vnfmVars, Task, CreateVnfInstance, DeleteVnfInstance
<1> QED
  BY <1>5

\* A COMPLETED operation has taken effect, and nothing else moves a VNF.
THEOREM CompletionIsEffect == VnfmSpec => OutcomesTakeEffect
  BY VnfmTypesHold, StepsTakeEffect, PTL DEF VnfmSpec, OutcomesTakeEffect

-----------------------------------------------------------------------------
(* The O-Cloud.                                                             *)

\* Types, and capacity with them.
IInv == TypeOK /\ AccountsFit

\* What replicas need is a number of vCPUs and of GB.
LEMMA Needs ==
  ASSUME NEW e \in Descriptors, NEW k \in Nat
  PROVE  /\ RequiredCpu[e] * k \in Nat
         /\ RequiredRam[e] * k \in Nat
<1>1. RequiredCpu[e] \in Nat /\ RequiredRam[e] \in Nat
  BY OCloudAssumption
<1>2. \A a, b \in Nat : a * b \in Nat
  OBVIOUS
<1> QED
  BY <1>1, <1>2

\* Any set of created deployments has a size.
LEMMA Counts ==
  ASSUME NEW S, S \subseteq Deployments
  PROVE  Cardinality(S) \in Nat
<1>1. IsFiniteSet(S)
  BY OCloudAssumption, FS_Subset
<1> QED
  BY <1>1, FS_CardinalityType

\* A placement of the allocation loop stays within every node.
LEMMA Allocating ==
  ASSUME IInv, NEW e \in Descriptors, NEW k \in Nat, NEW p \in [Nodes -> 0..k],
         FillsInOrder(p, e, k), Allocate(p, e)
  PROVE  /\ allocated_cpu' \in [Nodes -> Int]
         /\ allocated_ram' \in [Nodes -> Int]
         /\ AccountsFit'
<1>1. ASSUME NEW n \in Nodes
      PROVE  /\ allocated_cpu[n] + RequiredCpu[e] * p[n] \in Int
             /\ allocated_ram[n] + RequiredRam[e] * p[n] \in Int
             /\ allocated_cpu[n] + RequiredCpu[e] * p[n] <= NodeCpu
             /\ allocated_ram[n] + RequiredRam[e] * p[n] <= NodeRam
  <2>1. p[n] \in Nat /\ allocated_cpu[n] \in Int /\ allocated_ram[n] \in Int
    BY DEF IInv, TypeOK
  <2>2. RequiredCpu[e] * p[n] \in Nat /\ RequiredRam[e] * p[n] \in Nat
    BY <2>1, Needs
  <2>3. CASE p[n] = 0
    <3>1. RequiredCpu[e] * 0 = 0 /\ RequiredRam[e] * 0 = 0
      BY OCloudAssumption
    <3> QED
      BY <2>1, <2>3, <3>1 DEF IInv, AccountsFit
  <2>4. CASE Fits(n, e, p[n])
    BY <2>1, <2>2, <2>4 DEF Fits
  <2> QED
    BY <2>3, <2>4 DEF FillsInOrder
<1> QED
  BY <1>1 DEF Allocate, AccountsFit

\* Nor does a release take a node beyond itself.
LEMMA Releasing ==
  ASSUME IInv, NEW e \in Descriptors, NEW p \in [Nodes -> Nat], Release(p, e)
  PROVE  /\ allocated_cpu' \in [Nodes -> Int]
         /\ allocated_ram' \in [Nodes -> Int]
         /\ AccountsFit'
<1>1. ASSUME NEW n \in Nodes
      PROVE  /\ allocated_cpu[n] - RequiredCpu[e] * p[n] \in Int
             /\ allocated_ram[n] - RequiredRam[e] * p[n] \in Int
             /\ allocated_cpu[n] - RequiredCpu[e] * p[n] <= NodeCpu
             /\ allocated_ram[n] - RequiredRam[e] * p[n] <= NodeRam
  <2>1. RequiredCpu[e] * p[n] \in Nat /\ RequiredRam[e] * p[n] \in Nat
    BY Needs
  <2> QED
    BY <2>1, OCloudAssumption DEF IInv, TypeOK, AccountsFit
<1> QED
  BY <1>1 DEF Release, AccountsFit

\* Writing the state or the replicas of a deployment leaves its type.
LEMMA RecordUpdates ==
  ASSUME NEW r \in Records
  PROVE  /\ r.descriptor \in Descriptors
         /\ r.replicas \in 1..MaxReplicas
         /\ \A k \in 1..MaxReplicas : [r EXCEPT !.replicas = k] \in Records
         /\ [r EXCEPT !.state = "TERMINATED"] \in Records
  BY DEF Records

\* Nor does a new number of replicas.
LEMMA RescaleKeepsTypes ==
  ASSUME TypeOK, NEW d \in Created, NEW k \in 1..MaxReplicas, Rescale(d, k)
  PROVE  /\ deployments' \in [Deployments -> Records \cup {NoDeployment}]
         /\ shrunk' \subseteq scaled' /\ scaled' \subseteq Deployments
         /\ UNCHANGED <<placed, current_deployments>>
<1>1. deployments[d] \in Records /\ d \in Deployments
  BY DEF TypeOK, Created
<1>2. deployments' = [deployments EXCEPT ![d] = [deployments[d] EXCEPT !.replicas = k]]
  BY DEF Rescale
<1> QED
  BY <1>1, <1>2, RecordUpdates DEF TypeOK, Rescale
------------------------------------------------------------------------------
\* Nothing is allocated at the start.
LEMMA InitInv == Init => IInv
  BY OCloudAssumption DEF Init, IInv, TypeOK, AccountsFit

\* One lemma per operation.
LEMMA DeployKeepsInv ==
  ASSUME IInv, NEW d \in Deployments, NEW e \in Descriptors, NEW k \in 1..MaxReplicas,
         DeployWorkload(d, e, k)
  PROVE  IInv'
<1>1. k \in Nat
  OBVIOUS
<1>2. PICK p \in [Nodes -> 0..k] :
        /\ FillsInOrder(p, e, k)
        /\ Allocate(p, e)
        /\ placed' = [n \in Nodes |-> [placed[n] EXCEPT ![d] = p[n]]]
  BY DEF DeployWorkload
<1>3. /\ allocated_cpu' \in [Nodes -> Int]
      /\ allocated_ram' \in [Nodes -> Int]
      /\ AccountsFit'
  BY <1>1, <1>2, Allocating
<1>4. placed' \in [Nodes -> [Deployments -> 0..MaxReplicas]]
  <2>1. \A n \in Nodes : p[n] \in 0..MaxReplicas
    BY OCloudAssumption
  <2> QED
    BY <1>2, <2>1 DEF IInv, TypeOK
<1>5. deployments' \in [Deployments -> Records \cup {NoDeployment}]
  <2>1. [descriptor |-> e, replicas |-> k, state |-> "RUNNING"] \in Records
    BY DEF Records
  <2> QED
    BY <2>1 DEF IInv, TypeOK, DeployWorkload
<1>6. current_deployments' \in Nat /\ scaled' = scaled /\ shrunk' = shrunk
  BY Counts DEF DeployWorkload, Created
<1> QED
  BY <1>3, <1>4, <1>5, <1>6 DEF IInv, TypeOK

LEMMA ScaleKeepsInv ==
  ASSUME IInv, NEW d \in Created, NEW k \in 1..MaxReplicas, ScaleUp(d, k) \/ ScaleDown(d, k)
  PROVE  IInv'
<1> DEFINE e == deployments[d].descriptor
<1>1. deployments[d] \in Records /\ e \in Descriptors /\ deployments[d].replicas \in 1..MaxReplicas
  BY RecordUpdates DEF IInv, TypeOK, Created
<1>2. /\ allocated_cpu' \in [Nodes -> Int]
      /\ allocated_ram' \in [Nodes -> Int]
      /\ AccountsFit'
  <2>1. CASE ScaleUp(d, k)
    <3> DEFINE delta == k - deployments[d].replicas
    <3>1. delta \in Nat
      BY <1>1, <2>1 DEF ScaleUp
    <3>2. PICK p \in [Nodes -> 0..delta] : FillsInOrder(p, e, delta) /\ Allocate(p, e)
      BY <2>1 DEF ScaleUp
    <3> HIDE DEF delta, e
    <3> QED
      BY <1>1, <3>1, <3>2, Allocating
  <2>2. CASE ScaleDown(d, k)
    <3> DEFINE delta == deployments[d].replicas - k
               p == [n \in Nodes |-> IF FirstListing(n, d) THEN delta ELSE 0]
    <3>1. delta \in Nat
      BY <1>1, <2>2 DEF ScaleDown
    <3>2. p \in [Nodes -> Nat]
      BY <3>1
    <3>3. Release(p, e)
      BY <2>2 DEF ScaleDown
    <3> HIDE DEF p, e
    <3> QED
      BY <1>1, <3>2, <3>3, Releasing
  <2> QED
    BY <2>1, <2>2
<1>3. Rescale(d, k)
  BY DEF ScaleUp, ScaleDown
<1> QED
  BY <1>2, <1>3, RescaleKeepsTypes DEF IInv, TypeOK

LEMMA TerminateKeepsInv ==
  ASSUME IInv, NEW d \in Created, TerminateDeployment(d)
  PROVE  IInv'
<1> DEFINE e == deployments[d].descriptor
           p == [n \in Nodes |-> placed[n][d]]
<1>1. deployments[d] \in Records /\ e \in Descriptors /\ d \in Deployments
  BY RecordUpdates DEF IInv, TypeOK, Created
<1>2. p \in [Nodes -> Nat]
  BY <1>1, OCloudAssumption DEF IInv, TypeOK
<1>3. Release(p, e)
  BY DEF TerminateDeployment
<1>4. /\ allocated_cpu' \in [Nodes -> Int]
      /\ allocated_ram' \in [Nodes -> Int]
      /\ AccountsFit'
  <2> HIDE DEF p, e
  <2> QED
    BY <1>1, <1>2, <1>3, Releasing
<1>5. placed' \in [Nodes -> [Deployments -> 0..MaxReplicas]]
  <2>1. 0 \in 0..MaxReplicas
    BY OCloudAssumption
  <2> QED
    BY <1>1, <2>1 DEF IInv, TypeOK, TerminateDeployment
<1>6. deployments' \in [Deployments -> Records \cup {NoDeployment}]
  <2>1. deployments' = [deployments EXCEPT ![d] = [deployments[d] EXCEPT !.state = "TERMINATED"]]
    BY DEF TerminateDeployment
  <2> QED
    BY <1>1, <2>1, RecordUpdates DEF IInv, TypeOK
<1>7. current_deployments' \in Nat /\ scaled' = scaled /\ shrunk' = shrunk
  BY Counts DEF TerminateDeployment, Created
<1> QED
  BY <1>4, <1>5, <1>6, <1>7 DEF IInv, TypeOK

\* And so for every step.
LEMMA NextInv == IInv /\ [Next]_vars => IInv'
<1> SUFFICES ASSUME IInv, [Next]_vars PROVE IInv'
  OBVIOUS
<1>1. CASE UNCHANGED vars
  BY <1>1 DEF vars, IInv, TypeOK, AccountsFit
<1>2. CASE Next
  BY <1>2, DeployKeepsInv, ScaleKeepsInv, TerminateKeepsInv DEF Next
<1> QED
  BY <1>1, <1>2

\* The inductive invariant holds of every behaviour of the O-Cloud.
THEOREM Invariance == Spec => []IInv
<1> QED
  BY InitInv, NextInv, PTL DEF Spec

\* TypeOK: the gauge and the books stay numbers, the lists stay lists.
THEOREM TypesHold == Spec => []TypeOK
<1>1. IInv => TypeOK
  BY DEF IInv
<1> QED
  BY <1>1, Invariance, PTL

------------------------------------------------------------------------------
(* Sums over a finite set: shown on a smallest set for which they would fail. *)

\* The library adds up a function over a set by taking One(s) out of the set s until
\* nothing is left; g holds the sums over the subsets of S on the way.
One(s) == CHOOSE x \in s : TRUE
AddsUp(g, f, S) ==
  g = [s \in SUBSET S |-> IF s = {} THEN 0 ELSE f[One(s)] + g[s \ {One(s)}]]
Adder(f, S) == CHOOSE g : AddsUp(g, f, S)
SumOver(f, S) == Adder(f, S)[S]

\* That is what SumFunction stands for.
LEMMA SumFunctionIsSum ==
  ASSUME NEW f  PROVE SumFunction(f) = SumOver(f, DOMAIN f)
  BY DEF SumFunction, SumFunctionOnSet, FoldFunctionOnSet, MapThenFoldSet, SumOver, Adder, AddsUp, One

\* Of some subsets of a finite set, one contains no other: what fails for any fails for
\* one below which it holds.
LEMMA SmallestSubset ==
  ASSUME NEW S, IsFiniteSet(S), NEW T, T \subseteq SUBSET S, T # {}
  PROVE  \E s \in T : \A t \in T : t \subseteq s => t = s
<1>1. IsWellFoundedOn(StrictSubsetOrdering(S), SUBSET S)
  BY FS_StrictSubsetOrderingWellFounded, FS_FiniteSubsetsOfFinite
<1>2. \E s \in T : \A t \in T : ~(<<t, s>> \in StrictSubsetOrdering(S))
  BY <1>1, WFMin
<1> QED
  BY <1>2 DEF StrictSubsetOrdering

\* One element is there to be taken out.
LEMMA OneOfThem ==
  ASSUME NEW s, s # {}
  PROVE  One(s) \in s /\ s \ {One(s)} \subseteq s /\ s \ {One(s)} # s
<1>1. One(s) \in s
  BY DEF One
<1> QED
  BY <1>1

\* What an adder holds.
LEMMA AdderHolds ==
  ASSUME NEW f, NEW S, NEW g, AddsUp(g, f, S)
  PROVE  /\ g[{}] = 0
         /\ \A s \in SUBSET S : s # {} => g[s] = f[One(s)] + g[s \ {One(s)}]
  BY DEF AddsUp

\* Two of them hold the same sum for a set that both know.
LEMMA AddersAgree ==
  ASSUME NEW f, NEW s, NEW u, NEW g, NEW h, IsFiniteSet(s), AddsUp(g, f, s), AddsUp(h, f, u)
  PROVE  \A t \in (SUBSET s) \cap (SUBSET u) : g[t] = h[t]
<1> DEFINE T == {t \in (SUBSET s) \cap (SUBSET u) : g[t] # h[t]}
<1> SUFFICES ASSUME T # {} PROVE FALSE
  OBVIOUS
<1>1. PICK t \in T : \A w \in T : w \subseteq t => w = t
  <2>1. T \subseteq SUBSET s
    OBVIOUS
  <2> HIDE DEF T
  <2> QED
    BY <2>1, SmallestSubset
<1>2. t # {}
  BY <1>1, AdderHolds
<1>3. t \ {One(t)} \in (SUBSET s) \cap (SUBSET u) /\ t \ {One(t)} \notin T
  BY <1>1, <1>2, OneOfThem
<1>4. g[t \ {One(t)}] = h[t \ {One(t)}]
  BY <1>3
<1>5. g[t] = f[One(t)] + g[t \ {One(t)}] /\ h[t] = f[One(t)] + h[t \ {One(t)}]
  <2>1. t \in SUBSET s /\ t \in SUBSET u
    BY <1>1
  <2> QED
    BY <1>2, <2>1, AdderHolds
<1> QED
  BY <1>1, <1>4, <1>5

\* There is one for every subset of a finite set.
LEMMA AdderExists ==
  ASSUME NEW f, NEW S, IsFiniteSet(S)
  PROVE  \A s \in SUBSET S : AddsUp(Adder(f, s), f, s)
<1> DEFINE T == {s \in SUBSET S : ~AddsUp(Adder(f, s), f, s)}
<1> SUFFICES ASSUME T # {} PROVE FALSE
  OBVIOUS
<1>1. PICK s \in T : \A t \in T : t \subseteq s => t = s
  <2>1. T \subseteq SUBSET S
    OBVIOUS
  <2> HIDE DEF T
  <2> QED
    BY <2>1, SmallestSubset
<1> DEFINE G == [t \in SUBSET s |-> IF t = {} THEN 0 ELSE f[One(t)] + SumOver(f, t \ {One(t)})]
<1>2. \A t \in SUBSET s : t # s => AddsUp(Adder(f, t), f, t) /\ IsFiniteSet(t)
  <2>1. IsFiniteSet(s)
    BY FS_Subset
  <2> QED
    BY <1>1, <2>1, FS_Subset
<1>3. ASSUME NEW t \in SUBSET s, t # s  PROVE G[t] = SumOver(f, t)
  <2>1. AddsUp(Adder(f, t), f, t) /\ IsFiniteSet(t)
    BY <1>2, <1>3
  <2>2. CASE t = {}
    BY <2>1, <2>2, AdderHolds DEF SumOver
  <2>3. CASE t # {}
    <3> DEFINE w == t \ {One(t)}
    <3>1. w \in SUBSET t /\ w \in SUBSET s /\ w # s
      BY <2>3, <1>3, OneOfThem
    <3>2. AddsUp(Adder(f, w), f, w)
      BY <1>2, <3>1
    <3>3. Adder(f, t)[w] = Adder(f, w)[w]
      BY <2>1, <3>1, <3>2, AddersAgree
    <3>4. Adder(f, t)[t] = f[One(t)] + Adder(f, t)[w]
      BY <2>1, <2>3, AdderHolds
    <3> QED
      BY <2>3, <3>3, <3>4 DEF SumOver
  <2> QED
    BY <2>2, <2>3
<1>4. \A t \in SUBSET s : t # {} => G[t \ {One(t)}] = SumOver(f, t \ {One(t)})
  <2> TAKE t \in SUBSET s
  <2> HAVE t # {}
  <2>1. t \ {One(t)} \in SUBSET s /\ t \ {One(t)} # s
    BY OneOfThem
  <2> QED
    BY <1>3, <2>1
<1>5. AddsUp(G, f, s)
  BY <1>4 DEF AddsUp
<1>6. AddsUp(Adder(f, s), f, s)
  BY <1>5 DEF Adder
<1> QED
  BY <1>1, <1>6

\* The sum over nothing, and over a set with one element taken out.
LEMMA SumSteps ==
  ASSUME NEW f, NEW S, IsFiniteSet(S)
  PROVE  /\ SumOver(f, {}) = 0
         /\ S # {} => SumOver(f, S) = f[One(S)] + SumOver(f, S \ {One(S)})
<1>1. AddsUp(Adder(f, {}), f, {}) /\ AddsUp(Adder(f, S), f, S)
  BY AdderExists
<1>2. SumOver(f, {}) = 0
  BY <1>1, AdderHolds DEF SumOver
<1>3. ASSUME S # {}  PROVE SumOver(f, S) = f[One(S)] + SumOver(f, S \ {One(S)})
  <2> DEFINE w == S \ {One(S)}
  <2>1. w \in SUBSET S /\ AddsUp(Adder(f, w), f, w)
    BY AdderExists
  <2>2. Adder(f, S)[w] = Adder(f, w)[w]
    BY <1>1, <2>1, AddersAgree
  <2>3. Adder(f, S)[S] = f[One(S)] + Adder(f, S)[w]
    BY <1>1, <1>3, AdderHolds
  <2> QED
    BY <2>2, <2>3 DEF SumOver
<1> QED
  BY <1>2, <1>3

\* A sum of integers is one.
LEMMA SumIsInteger ==
  ASSUME NEW f, NEW S, IsFiniteSet(S), \A x \in S : f[x] \in Int
  PROVE  SumOver(f, S) \in Int
<1> DEFINE T == {s \in SUBSET S : SumOver(f, s) \notin Int}
<1> SUFFICES ASSUME T # {} PROVE FALSE
  OBVIOUS
<1>1. PICK s \in T : \A t \in T : t \subseteq s => t = s
  <2>1. T \subseteq SUBSET S
    OBVIOUS
  <2> HIDE DEF T
  <2> QED
    BY <2>1, SmallestSubset
<1>2. IsFiniteSet(s)
  BY FS_Subset
<1>3. s # {}
  <2>1. SumOver(f, {}) = 0 /\ SumOver(f, s) \notin Int
    BY <1>2, SumSteps
  <2> QED
    BY <2>1
<1>4. SumOver(f, s) = f[One(s)] + SumOver(f, s \ {One(s)})
  BY <1>2, <1>3, SumSteps
<1>5. s \ {One(s)} \in SUBSET S /\ s \ {One(s)} \notin T /\ f[One(s)] \in Int
  BY <1>1, <1>3, OneOfThem
<1> QED
  BY <1>1, <1>4, <1>5

\* It does not matter which element is taken out first.
LEMMA AnyOfThem ==
  ASSUME NEW f, NEW S, IsFiniteSet(S), \A x \in S : f[x] \in Int, NEW x \in S
  PROVE  SumOver(f, S) = f[x] + SumOver(f, S \ {x})
<1> DEFINE T == {s \in SUBSET S : \E y \in s : SumOver(f, s) # f[y] + SumOver(f, s \ {y})}
<1> SUFFICES ASSUME T # {} PROVE FALSE
  OBVIOUS
<1>1. PICK s \in T : \A t \in T : t \subseteq s => t = s
  <2>1. T \subseteq SUBSET S
    OBVIOUS
  <2> HIDE DEF T
  <2> QED
    BY <2>1, SmallestSubset
<1>2. PICK y \in s : SumOver(f, s) # f[y] + SumOver(f, s \ {y})
  OBVIOUS
<1>3. PICK c : c = One(s)
  OBVIOUS
<1>4. c \in s /\ s \ {c} \in SUBSET S /\ s \ {y} \in SUBSET S /\ s \ {c} # s /\ s \ {y} # s
  BY <1>3, OneOfThem
<1>5. IsFiniteSet(s) /\ s # {}
  BY FS_Subset
<1>6. SumOver(f, s) = f[c] + SumOver(f, s \ {c})
  BY <1>3, <1>5, SumSteps
<1>7. c # y
  BY <1>2, <1>6
<1>8. SumOver(f, s \ {c}) = f[y] + SumOver(f, (s \ {c}) \ {y})
  BY <1>1, <1>4, <1>7
<1>9. SumOver(f, s \ {y}) = f[c] + SumOver(f, (s \ {y}) \ {c})
  BY <1>1, <1>4, <1>7
<1>10. (s \ {c}) \ {y} = (s \ {y}) \ {c}
  OBVIOUS
<1>11. f[c] \in Int /\ f[y] \in Int /\ SumOver(f, (s \ {y}) \ {c}) \in Int
  <2>1. IsFiniteSet((s \ {y}) \ {c})
    BY <1>5, FS_Subset
  <2> QED
    BY <1>4, <2>1, SumIsInteger
<1>12. PICK a, b, r : a = f[c] /\ b = f[y] /\ r = SumOver(f, (s \ {y}) \ {c})
  OBVIOUS
<1>13. a + (b + r) = b + (a + r)
  BY <1>11, <1>12
<1> QED
  BY <1>2, <1>6, <1>8, <1>9, <1>10, <1>12, <1>13

\* Only the values that are added up matter.
LEMMA SameValuesSameSum ==
  ASSUME NEW f, NEW g, NEW S, IsFiniteSet(S), \A x \in S : f[x] = g[x]
  PROVE  SumOver(f, S) = SumOver(g, S)
<1> DEFINE T == {s \in SUBSET S : SumOver(f, s) # SumOver(g, s)}
<1> SUFFICES ASSUME T # {} PROVE FALSE
  OBVIOUS
<1>1. PICK s \in T : \A t \in T : t \subseteq s => t = s
  <2>1. T \subseteq SUBSET S
    OBVIOUS
  <2> HIDE DEF T
  <2> QED
    BY <2>1, SmallestSubset
<1>2. IsFiniteSet(s)
  BY FS_Subset
<1>3. s # {}
  BY <1>1, <1>2, SumSteps
<1>4. SumOver(f, s) = f[One(s)] + SumOver(f, s \ {One(s)}) /\ SumOver(g, s) = g[One(s)] + SumOver(g, s \ {One(s)})
  BY <1>2, <1>3, SumSteps
<1>5. s \ {One(s)} \in SUBSET S /\ s \ {One(s)} \notin T /\ f[One(s)] = g[One(s)]
  BY <1>1, <1>3, OneOfThem
<1> QED
  BY <1>1, <1>4, <1>5

\* A sum with a value more.
LEMMA OneMore ==
  ASSUME NEW f, NEW g, NEW C, IsFiniteSet(C), NEW d, d \notin C, DOMAIN f = C, DOMAIN g = C \cup {d},
         \A c \in C : g[c] = f[c], \A c \in C \cup {d} : g[c] \in Int
  PROVE  SumFunction(f) \in Int /\ SumFunction(g) = SumFunction(f) + g[d]
<1>1. IsFiniteSet(C \cup {d}) /\ (C \cup {d}) \ {d} = C
  BY FS_AddElement
<1>2. SumOver(g, C \cup {d}) = g[d] + SumOver(g, C)
  BY <1>1, AnyOfThem
<1>3. SumOver(g, C) = SumOver(f, C)
  BY SameValuesSameSum
<1>4. SumOver(f, C) \in Int
  BY SumIsInteger
<1> QED
  BY <1>2, <1>3, <1>4, SumFunctionIsSum

\* A sum in which a value falls to zero.
LEMMA OneLess ==
  ASSUME NEW f, NEW g, NEW C, IsFiniteSet(C), NEW d \in C, DOMAIN f = C, DOMAIN g = C,
         \A c \in C \ {d} : g[c] = f[c], \A c \in C : f[c] \in Int, g[d] = 0
  PROVE  SumFunction(f) \in Int /\ SumFunction(g) = SumFunction(f) - f[d]
<1>1. IsFiniteSet(C \ {d})
  BY FS_Subset
<1>2. \A c \in C : g[c] \in Int
  OBVIOUS
<1>3. SumOver(f, C) = f[d] + SumOver(f, C \ {d})
  BY AnyOfThem
<1>4. SumOver(g, C) = g[d] + SumOver(g, C \ {d})
  BY <1>2, AnyOfThem
<1>5. SumOver(g, C \ {d}) = SumOver(f, C \ {d})
  BY <1>1, SameValuesSameSum
<1>6. SumOver(f, C \ {d}) \in Int
  BY <1>1, SumIsInteger
<1> QED
  BY <1>3, <1>4, <1>5, <1>6, SumFunctionIsSum
------------------------------------------------------------------------------
\* What the deployments that a node lists need there.
LEMMA NeedsAtNode ==
  ASSUME IInv, NEW n \in Nodes, NEW required \in [Descriptors -> Nat]
  PROVE  /\ IsFiniteSet(Created)
         /\ \A c \in Created : /\ deployments[c] \in Records /\ placed[n][c] \in Nat
                               /\ placed[n][c] * required[deployments[c].descriptor] \in Int
<1>1. IsFiniteSet(Created)
  BY OCloudAssumption, FS_Subset DEF Created
<1>2. ASSUME NEW c \in Created
      PROVE  /\ deployments[c] \in Records /\ placed[n][c] \in Nat
             /\ placed[n][c] * required[deployments[c].descriptor] \in Int
  <2>1. deployments[c] \in Records /\ placed[n][c] \in Nat
    BY DEF IInv, TypeOK, Created
  <2>2. required[deployments[c].descriptor] \in Nat
    BY <2>1 DEF Records
  <2>3. \A a, b \in Nat : a * b \in Int
    OBVIOUS
  <2> QED
    BY <2>1, <2>2, <2>3
<1> QED
  BY <1>1, <1>2

\* A deployment adds to what a node lists what its replicas there need.
LEMMA DeploymentListed ==
  ASSUME IInv, NEW n \in Nodes, NEW required \in [Descriptors -> Nat],
         NEW d \in Deployments, NEW e \in Descriptors, NEW k \in 1..MaxReplicas, NEW p \in [Nodes -> 0..k],
         deployments[d] = NoDeployment,
         deployments' = [deployments EXCEPT ![d] = [descriptor |-> e, replicas |-> k, state |-> "RUNNING"]],
         placed' = [m \in Nodes |-> [placed[m] EXCEPT ![d] = p[m]]]
  PROVE  Listed(n, required) \in Int /\ Listed(n, required)' = Listed(n, required) + required[e] * p[n]
<1>1. PICK C : C = Created
  OBVIOUS
<1>2. PICK f : f = [c \in C |-> placed[n][c] * required[deployments[c].descriptor]]
  OBVIOUS
<1>3. [descriptor |-> e, replicas |-> k, state |-> "RUNNING"] \in Records
  BY DEF Records
<1>4. Created' = C \cup {d} /\ d \notin C /\ C \subseteq Deployments
  BY <1>1, <1>3, NoDeploymentAssumption DEF IInv, TypeOK, Created
<1>5. PICK g : g = [c \in C \cup {d} |-> placed'[n][c] * required[deployments'[c].descriptor]]
  OBVIOUS
<1>6. /\ placed'[n][d] = p[n] /\ deployments'[d].descriptor = e
      /\ \A c \in C : placed'[n][c] = placed[n][c] /\ deployments'[c] = deployments[c]
  BY <1>1, <1>4 DEF IInv, TypeOK
<1>7. g[d] = required[e] * p[n] /\ g[d] \in Int
  <2>1. required[e] \in Nat /\ p[n] \in Nat
    OBVIOUS
  <2>2. \A a, b \in Nat : a * b = b * a /\ a * b \in Int
    OBVIOUS
  <2>3. g[d] = p[n] * required[e]
    BY <1>5, <1>6
  <2> QED
    BY <2>1, <2>2, <2>3
<1>8. IsFiniteSet(C) /\ \A c \in C : g[c] = f[c] /\ f[c] \in Int
  BY <1>1, <1>2, <1>5, <1>6, NeedsAtNode
<1>9. SumFunction(f) \in Int /\ SumFunction(g) = SumFunction(f) + g[d]
  BY <1>2, <1>4, <1>5, <1>7, <1>8, OneMore, SMTT(30)
<1>10. Listed(n, required) = SumFunction(f) /\ Listed(n, required)' = SumFunction(g)
  BY <1>1, <1>2, <1>4, <1>5 DEF Listed
<1> QED
  BY <1>7, <1>9, <1>10

\* A termination takes away what the node listed for it.
LEMMA DeploymentUnlisted ==
  ASSUME IInv, NEW n \in Nodes, NEW required \in [Descriptors -> Nat], NEW d \in Created,
         deployments' = [deployments EXCEPT ![d].state = "TERMINATED"],
         placed' = [m \in Nodes |-> [placed[m] EXCEPT ![d] = 0]]
  PROVE  /\ Listed(n, required) \in Int
         /\ Listed(n, required)' = Listed(n, required) - required[deployments[d].descriptor] * placed[n][d]
<1>1. PICK C : C = Created
  OBVIOUS
<1>2. PICK f : f = [c \in C |-> placed[n][c] * required[deployments[c].descriptor]]
  OBVIOUS
<1>3. deployments[d] \in Records /\ d \in Deployments /\ C \subseteq Deployments
  BY <1>1 DEF IInv, TypeOK, Created
<1>4. PICK r : r = [deployments[d] EXCEPT !.state = "TERMINATED"]
  OBVIOUS
<1>5. deployments' = [deployments EXCEPT ![d] = r] /\ r \in Records /\ r.descriptor = deployments[d].descriptor
  BY <1>3, <1>4 DEF Records
<1>6. Created' = C
  BY <1>1, <1>3, <1>5, NoDeploymentAssumption DEF IInv, TypeOK, Created
<1>7. PICK g : g = [c \in C |-> placed'[n][c] * required[deployments'[c].descriptor]]
  OBVIOUS
<1>8. /\ placed'[n][d] = 0 /\ deployments'[d].descriptor = deployments[d].descriptor
      /\ \A c \in C \ {d} : placed'[n][c] = placed[n][c] /\ deployments'[c] = deployments[c]
  BY <1>3, <1>5 DEF IInv, TypeOK
<1>9. f[d] = required[deployments[d].descriptor] * placed[n][d] /\ g[d] = 0
  <2>1. required[deployments[d].descriptor] \in Nat /\ placed[n][d] \in Nat
    BY <1>3, NeedsAtNode DEF Records
  <2>2. \A a, b \in Nat : a * b = b * a /\ 0 * a = 0
    OBVIOUS
  <2>3. /\ f[d] = placed[n][d] * required[deployments[d].descriptor]
        /\ g[d] = 0 * required[deployments[d].descriptor]
    BY <1>1, <1>2, <1>7, <1>8
  <2> QED
    BY <2>1, <2>2, <2>3
<1>10. IsFiniteSet(C) /\ (\A c \in C : f[c] \in Int) /\ (\A c \in C \ {d} : g[c] = f[c])
  BY <1>1, <1>2, <1>7, <1>8, NeedsAtNode
<1>11. SumFunction(f) \in Int /\ SumFunction(g) = SumFunction(f) - f[d]
  <2>1. d \in C /\ DOMAIN f = C /\ DOMAIN g = C /\ g[d] = 0
    BY <1>1, <1>2, <1>7, <1>9
  <2> QED
    BY <1>10, <2>1, OneLess
<1>12. Listed(n, required) = SumFunction(f) /\ Listed(n, required)' = SumFunction(g)
  BY <1>1, <1>2, <1>6, <1>7 DEF Listed
<1> QED
  BY <1>9, <1>11, <1>12

\* What a node lists needs a number of vCPUs and of GB.
LEMMA ListedIsInteger ==
  ASSUME IInv, NEW n \in Nodes, NEW required \in [Descriptors -> Nat]
  PROVE  Listed(n, required) \in Int
<1>1. PICK f : f = [c \in Created |-> placed[n][c] * required[deployments[c].descriptor]]
  OBVIOUS
<1>2. IsFiniteSet(Created) /\ \A c \in Created : f[c] \in Int
  BY <1>1, NeedsAtNode
<1> QED
  BY <1>1, <1>2, SumIsInteger, SumFunctionIsSum DEF Listed

\* A new number of replicas changes no list and no descriptor.
LEMMA RescaleKeepsLists ==
  ASSUME IInv, NEW d \in Created, NEW k \in 1..MaxReplicas, Rescale(d, k),
         NEW n \in Nodes, NEW required \in [Descriptors -> Nat]
  PROVE  Listed(n, required)' = Listed(n, required) /\ Listed(n, required) \in Int
<1>1. PICK r : r = [deployments[d] EXCEPT !.replicas = k]
  OBVIOUS
<1>2. /\ deployments[d] \in Records /\ d \in Deployments
      /\ r \in Records /\ r.descriptor = deployments[d].descriptor
      /\ deployments' = [deployments EXCEPT ![d] = r] /\ placed' = placed
  BY <1>1 DEF Rescale, IInv, TypeOK, Created, Records
<1>3. Created' = Created /\ \A c \in Created : deployments'[c].descriptor = deployments[c].descriptor
  BY <1>2, NoDeploymentAssumption DEF IInv, TypeOK, Created
<1>4. [c \in Created |-> placed[n][c] * required[deployments[c].descriptor]]'
        = [c \in Created |-> placed[n][c] * required[deployments[c].descriptor]]
  BY <1>2, <1>3
<1> QED
  BY <1>4, ListedIsInteger DEF Listed

\* Nothing is listed at the start.
LEMMA BooksInit == Init => BooksBalanceUntilScaled
<1> SUFFICES ASSUME Init, NEW n \in Nodes, NEW required PROVE Listed(n, required) = 0
  BY DEF Init, BooksBalanceUntilScaled
<1>1. PICK f : f = [d \in Created |-> placed[n][d] * required[deployments[d].descriptor]]
  OBVIOUS
<1>2. Created = {} /\ IsFiniteSet({})
  BY FS_EmptySet DEF Init, Created
<1>3. SumOver(f, {}) = 0
  BY <1>2, SumSteps
<1> QED
  BY <1>1, <1>2, <1>3, SumFunctionIsSum DEF Listed

\* Without scaling, books and lists change by the same.
LEMMA BooksNext == IInv /\ BooksBalanceUntilScaled /\ [Next]_vars => BooksBalanceUntilScaled'
<1> SUFFICES ASSUME IInv, BooksBalanceUntilScaled, [Next]_vars, scaled' = {}, NEW n \in Nodes
             PROVE  /\ allocated_cpu'[n] = Listed(n, RequiredCpu)'
                    /\ allocated_ram'[n] = Listed(n, RequiredRam)'
  BY DEF BooksBalanceUntilScaled
<1>0. RequiredCpu \in [Descriptors -> Nat] /\ RequiredRam \in [Descriptors -> Nat]
  BY OCloudAssumption
<1>1. CASE UNCHANGED vars
  BY <1>1 DEF vars, BooksBalanceUntilScaled, Listed, Created
<1>2. ASSUME NEW d \in Deployments, NEW e \in Descriptors, NEW k \in 1..MaxReplicas, DeployWorkload(d, e, k)
      PROVE  /\ allocated_cpu'[n] = Listed(n, RequiredCpu)'
             /\ allocated_ram'[n] = Listed(n, RequiredRam)'
  <2>1. PICK p \in [Nodes -> 0..k] :
          /\ Allocate(p, e)
          /\ placed' = [m \in Nodes |-> [placed[m] EXCEPT ![d] = p[m]]]
    BY <1>2 DEF DeployWorkload
  <2>2. /\ deployments[d] = NoDeployment /\ scaled = {}
        /\ deployments' = [deployments EXCEPT ![d] = [descriptor |-> e, replicas |-> k, state |-> "RUNNING"]]
    BY <1>2 DEF DeployWorkload
  <2>3. /\ Listed(n, RequiredCpu)' = Listed(n, RequiredCpu) + RequiredCpu[e] * p[n]
        /\ Listed(n, RequiredRam)' = Listed(n, RequiredRam) + RequiredRam[e] * p[n]
    BY <1>0, <2>1, <2>2, DeploymentListed
  <2> QED
    BY <2>1, <2>2, <2>3 DEF Allocate, BooksBalanceUntilScaled
<1>3. ASSUME NEW d \in Created, TerminateDeployment(d)
      PROVE  /\ allocated_cpu'[n] = Listed(n, RequiredCpu)'
             /\ allocated_ram'[n] = Listed(n, RequiredRam)'
  <2>1. /\ deployments' = [deployments EXCEPT ![d].state = "TERMINATED"] /\ scaled = {}
        /\ placed' = [m \in Nodes |-> [placed[m] EXCEPT ![d] = 0]]
    BY <1>3 DEF TerminateDeployment
  <2>2. /\ Listed(n, RequiredCpu)' = Listed(n, RequiredCpu) - RequiredCpu[deployments[d].descriptor] * placed[n][d]
        /\ Listed(n, RequiredRam)' = Listed(n, RequiredRam) - RequiredRam[deployments[d].descriptor] * placed[n][d]
    BY <1>0, <2>1, DeploymentUnlisted
  <2> QED
    BY <1>3, <2>1, <2>2 DEF TerminateDeployment, Release, BooksBalanceUntilScaled
<1>4. ~ \E d \in Created, k \in 1..MaxReplicas : ScaleUp(d, k) \/ ScaleDown(d, k)
  BY DEF ScaleUp, ScaleDown, Rescale
<1> QED
  BY <1>1, <1>2, <1>3, <1>4 DEF Next
------------------------------------------------------------------------------
\* Who is created or running after each operation, and what the gauge shows then.
LEMMA GaugeNext == IInv /\ GaugeCoversRunning /\ [Next]_vars => GaugeCoversRunning'
<1> DEFINE Up == {c \in Created : Running(c)}
<1> SUFFICES ASSUME IInv, GaugeCoversRunning, [Next]_vars
             PROVE  Cardinality(Up') <= current_deployments' /\ current_deployments' <= Cardinality(Created')
  BY DEF GaugeCoversRunning
<1>1. Created' \subseteq Deployments /\ IsFiniteSet(Created') /\ Up' \subseteq Created'
  BY OCloudAssumption, FS_Subset DEF Created
<1>2. Cardinality(Created') \in Nat /\ Cardinality(Up') \in Nat /\ Cardinality(Up') <= Cardinality(Created')
  BY <1>1, FS_Subset, FS_CardinalityType
<1>3. CASE Created' = Created /\ Up' = Up /\ UNCHANGED current_deployments
  BY <1>3 DEF GaugeCoversRunning
<1>4. CASE current_deployments' = Cardinality(Created')
  BY <1>2, <1>4
<1>5. CASE current_deployments' = Cardinality(Up')
  BY <1>2, <1>5
<1>6. CASE UNCHANGED vars
  BY <1>3, <1>6 DEF vars, Created, Running
<1>7. ASSUME NEW d \in Deployments, NEW e \in Descriptors, NEW k \in 1..MaxReplicas, DeployWorkload(d, e, k)
      PROVE  current_deployments' = Cardinality(Created')
  <2>1. [descriptor |-> e, replicas |-> k, state |-> "RUNNING"] \in Records
    BY DEF Records
  <2>2. Created' = Created \cup {d}
    BY <1>7, <2>1, NoDeploymentAssumption DEF DeployWorkload, IInv, TypeOK, Created
  <2> QED
    BY <1>7, <2>2 DEF DeployWorkload
<1>8. ASSUME NEW d \in Created, TerminateDeployment(d)
      PROVE  current_deployments' = Cardinality(Up')
  <2>1. PICK r : r = [deployments[d] EXCEPT !.state = "TERMINATED"]
    OBVIOUS
  <2>2. r \in Records /\ r.state = "TERMINATED" /\ deployments' = [deployments EXCEPT ![d] = r]
    BY <1>8, <2>1 DEF TerminateDeployment, IInv, TypeOK, Created, Records
  <2>3. Up' = {c \in Created : Running(c) /\ c # d}
    BY <2>2, NoDeploymentAssumption DEF IInv, TypeOK, Created, Running
  <2> QED
    BY <1>8, <2>3 DEF TerminateDeployment
<1>9. ASSUME NEW d \in Created, NEW k \in 1..MaxReplicas, ScaleUp(d, k) \/ ScaleDown(d, k)
      PROVE  Created' = Created /\ Up' = Up /\ UNCHANGED current_deployments
  <2>1. Rescale(d, k) /\ Running(d)
    BY <1>9 DEF ScaleUp, ScaleDown
  <2>2. PICK r : r = [deployments[d] EXCEPT !.replicas = k]
    OBVIOUS
  <2>3. /\ r \in Records /\ r.state = deployments[d].state
        /\ deployments' = [deployments EXCEPT ![d] = r] /\ UNCHANGED current_deployments
    BY <2>1, <2>2 DEF Rescale, IInv, TypeOK, Created, Records
  <2> QED
    BY <2>3, NoDeploymentAssumption DEF IInv, TypeOK, Created, Running
<1> HIDE DEF Up
<1> QED
  BY <1>3, <1>4, <1>5, <1>6, <1>7, <1>8, <1>9 DEF Next

\* As long as nothing was scaled, what a node's books say is allocated is what the
\* replicas that its list names need: create and terminate keep the two together.
THEOREM BooksAlwaysBalanceUntilScaled == Spec => []BooksBalanceUntilScaled
<1> QED
  BY BooksInit, BooksNext, Invariance, PTL DEF Spec

\* Until something is scaled down, a node's account covers what its list needs.
AccountsCoverLists ==
  shrunk = {} => \A n \in Nodes : /\ Listed(n, RequiredCpu) <= allocated_cpu[n]
                                 /\ Listed(n, RequiredRam) <= allocated_ram[n]

\* Scaling up allocates what no node lists; all else changes both by the same.
LEMMA CoverNext == IInv /\ AccountsCoverLists /\ [Next]_vars => AccountsCoverLists'
<1> SUFFICES ASSUME IInv, AccountsCoverLists, [Next]_vars, shrunk' = {}, NEW n \in Nodes
             PROVE  /\ Listed(n, RequiredCpu)' <= allocated_cpu'[n]
                    /\ Listed(n, RequiredRam)' <= allocated_ram'[n]
  BY DEF AccountsCoverLists
<1>0. /\ RequiredCpu \in [Descriptors -> Nat] /\ RequiredRam \in [Descriptors -> Nat]
      /\ allocated_cpu[n] \in Int /\ allocated_ram[n] \in Int
  BY OCloudAssumption DEF IInv, TypeOK
<1>1. CASE UNCHANGED vars
  BY <1>1 DEF vars, AccountsCoverLists, Listed, Created
<1>2. ASSUME NEW d \in Deployments, NEW e \in Descriptors, NEW k \in 1..MaxReplicas, DeployWorkload(d, e, k)
      PROVE  /\ Listed(n, RequiredCpu)' <= allocated_cpu'[n]
             /\ Listed(n, RequiredRam)' <= allocated_ram'[n]
  <2>1. PICK p \in [Nodes -> 0..k] :
          /\ Allocate(p, e)
          /\ placed' = [m \in Nodes |-> [placed[m] EXCEPT ![d] = p[m]]]
    BY <1>2 DEF DeployWorkload
  <2>2. /\ deployments[d] = NoDeployment /\ shrunk = {}
        /\ deployments' = [deployments EXCEPT ![d] = [descriptor |-> e, replicas |-> k, state |-> "RUNNING"]]
    BY <1>2 DEF DeployWorkload
  <2>3. /\ Listed(n, RequiredCpu) \in Int /\ Listed(n, RequiredRam) \in Int
        /\ Listed(n, RequiredCpu)' = Listed(n, RequiredCpu) + RequiredCpu[e] * p[n]
        /\ Listed(n, RequiredRam)' = Listed(n, RequiredRam) + RequiredRam[e] * p[n]
    BY <1>0, <2>1, <2>2, DeploymentListed
  <2>4. p[n] \in Nat
    OBVIOUS
  <2>5. RequiredCpu[e] * p[n] \in Nat /\ RequiredRam[e] * p[n] \in Nat
    BY <2>4, Needs
  <2>6. /\ allocated_cpu'[n] = allocated_cpu[n] + RequiredCpu[e] * p[n]
        /\ allocated_ram'[n] = allocated_ram[n] + RequiredRam[e] * p[n]
    BY <2>1 DEF Allocate
  <2>7. Listed(n, RequiredCpu) <= allocated_cpu[n] /\ Listed(n, RequiredRam) <= allocated_ram[n]
    BY <2>2 DEF AccountsCoverLists
  <2> QED
    BY <1>0, <2>3, <2>5, <2>6, <2>7
<1>3. ASSUME NEW d \in Created, TerminateDeployment(d)
      PROVE  /\ Listed(n, RequiredCpu)' <= allocated_cpu'[n]
             /\ Listed(n, RequiredRam)' <= allocated_ram'[n]
  <2> DEFINE e == deployments[d].descriptor
  <2>1. /\ deployments' = [deployments EXCEPT ![d].state = "TERMINATED"] /\ shrunk = {}
        /\ placed' = [m \in Nodes |-> [placed[m] EXCEPT ![d] = 0]]
    BY <1>3 DEF TerminateDeployment
  <2>2. /\ Listed(n, RequiredCpu) \in Int /\ Listed(n, RequiredRam) \in Int
        /\ Listed(n, RequiredCpu)' = Listed(n, RequiredCpu) - RequiredCpu[e] * placed[n][d]
        /\ Listed(n, RequiredRam)' = Listed(n, RequiredRam) - RequiredRam[e] * placed[n][d]
    BY <1>0, <2>1, DeploymentUnlisted
  <2>3. e \in Descriptors /\ placed[n][d] \in Nat
    BY <1>0, NeedsAtNode DEF Records
  <2>4. RequiredCpu[e] * placed[n][d] \in Nat /\ RequiredRam[e] * placed[n][d] \in Nat
    BY <2>3, Needs
  <2>5. /\ allocated_cpu'[n] = allocated_cpu[n] - RequiredCpu[e] * placed[n][d]
        /\ allocated_ram'[n] = allocated_ram[n] - RequiredRam[e] * placed[n][d]
    BY <1>3 DEF TerminateDeployment, Release
  <2>6. Listed(n, RequiredCpu) <= allocated_cpu[n] /\ Listed(n, RequiredRam) <= allocated_ram[n]
    BY <2>1 DEF AccountsCoverLists
  <2> QED
    BY <1>0, <2>2, <2>4, <2>5, <2>6
<1>4. ASSUME NEW d \in Created, NEW k \in 1..MaxReplicas, ScaleUp(d, k)
      PROVE  /\ Listed(n, RequiredCpu)' <= allocated_cpu'[n]
             /\ Listed(n, RequiredRam)' <= allocated_ram'[n]
  <2> DEFINE e == deployments[d].descriptor
             delta == k - deployments[d].replicas
  <2>1. deployments[d] \in Records /\ e \in Descriptors /\ delta \in Nat
    <3>1. deployments[d] \in Records
      BY DEF IInv, TypeOK, Created
    <3>2. e \in Descriptors /\ deployments[d].replicas \in 1..MaxReplicas
      BY <3>1, RecordUpdates
    <3> QED
      BY <1>4, <3>1, <3>2 DEF ScaleUp
  <2>2. PICK p \in [Nodes -> 0..delta] : Allocate(p, e)
    BY <1>4 DEF ScaleUp
  <2> HIDE DEF delta
  <2>3. p[n] \in Nat
    BY <2>1
  <2>4. RequiredCpu[e] * p[n] \in Nat /\ RequiredRam[e] * p[n] \in Nat
    BY <2>1, <2>3, Needs
  <2>5. /\ allocated_cpu'[n] = allocated_cpu[n] + RequiredCpu[e] * p[n]
        /\ allocated_ram'[n] = allocated_ram[n] + RequiredRam[e] * p[n]
    BY <2>2 DEF Allocate
  <2>6. Rescale(d, k) /\ shrunk = {}
    BY <1>4 DEF ScaleUp, Rescale
  <2>7. Listed(n, RequiredCpu) <= allocated_cpu[n] /\ Listed(n, RequiredRam) <= allocated_ram[n]
    BY <2>6 DEF AccountsCoverLists
  <2>8. \A required \in [Descriptors -> Nat] :
          Listed(n, required)' = Listed(n, required) /\ Listed(n, required) \in Int
    BY <2>6, RescaleKeepsLists
  <2> QED
    BY <1>0, <2>4, <2>5, <2>7, <2>8
<1>5. ~ \E d \in Created, k \in 1..MaxReplicas : ScaleDown(d, k)
  <2> SUFFICES ASSUME NEW d \in Created, NEW k \in 1..MaxReplicas, ScaleDown(d, k) PROVE FALSE
    OBVIOUS
  <2>1. deployments[d] \in Records
    BY DEF IInv, TypeOK, Created
  <2>2. deployments[d].replicas \in Int /\ k \in Int
    <3>1. deployments[d].replicas \in 1..MaxReplicas
      BY <2>1, RecordUpdates
    <3> QED
      BY <3>1
  <2>3. k < deployments[d].replicas
    BY <2>2 DEF ScaleDown
  <2> QED
    BY <2>3 DEF ScaleDown, Rescale
<1> QED
  BY <1>1, <1>2, <1>3, <1>4, <1>5 DEF Next

\* The aggregate admission check and the placement loop together never put more on a
\* node's account than the node has, through any sequence of calls, nor more replicas
\* on its list than it has room for, through any without a scale-down.
THEOREM NothingOvercommitted == Spec => []NeverOvercommitted
<1>1. Init => AccountsCoverLists
  <2> SUFFICES ASSUME Init PROVE AccountsCoverLists
    OBVIOUS
  <2>1. \A n \in Nodes : /\ Listed(n, RequiredCpu) = allocated_cpu[n]
                         /\ Listed(n, RequiredRam) = allocated_ram[n]
    BY BooksInit DEF Init, BooksBalanceUntilScaled
  <2>2. \A n \in Nodes : allocated_cpu[n] = 0 /\ allocated_ram[n] = 0
    BY DEF Init
  <2> QED
    BY <2>1, <2>2 DEF AccountsCoverLists
<1>2. IInv /\ AccountsCoverLists => NeverOvercommitted
  <2> SUFFICES ASSUME IInv, AccountsCoverLists, shrunk = {}, NEW n \in Nodes
               PROVE  Listed(n, RequiredCpu) <= NodeCpu /\ Listed(n, RequiredRam) <= NodeRam
    BY DEF IInv, NeverOvercommitted
  <2>1. /\ allocated_cpu[n] \in Int /\ allocated_ram[n] \in Int
        /\ allocated_cpu[n] <= NodeCpu /\ allocated_ram[n] <= NodeRam
    BY DEF IInv, TypeOK, AccountsFit
  <2>2. Listed(n, RequiredCpu) \in Int /\ Listed(n, RequiredRam) \in Int
    BY OCloudAssumption, ListedIsInteger
  <2>3. Listed(n, RequiredCpu) <= allocated_cpu[n] /\ Listed(n, RequiredRam) <= allocated_ram[n]
    BY DEF AccountsCoverLists
  <2> QED
    BY <2>1, <2>2, <2>3, OCloudAssumption
<1> QED
  BY <1>1, <1>2, CoverNext, Invariance, PTL DEF Spec

\* Through any sequence of calls the gauge is between what is running and what was ever
\* created.
THEOREM GaugeAlwaysCoversRunning == Spec => []GaugeCoversRunning
<1>1. Init => GaugeCoversRunning
  <2> SUFFICES ASSUME Init  PROVE GaugeCoversRunning
    OBVIOUS
  <2>1. Created = {} /\ {d \in Created : Running(d)} = {} /\ Cardinality({}) = 0
    BY FS_EmptySet DEF Init, Created
  <2> QED
    BY <2>1 DEF Init, GaugeCoversRunning
<1> QED
  BY <1>1, GaugeNext, Invariance, PTL DEF Spec
==============================================================================
