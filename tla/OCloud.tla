-------------------------------- MODULE OCloud --------------------------------
(***************************************************************************)
(* The O-Cloud's resource accounting (etsi/o2/fake_cluster.py behind the   *)
(* O2 DMS endpoints of etsi/o2/o2_dms.py): NF deployments whose replicas   *)
(* are placed on compute nodes, scaled and terminated.  Every handler runs *)
(* without an await, so the hazard is the sequence of legal calls.         *)
(***************************************************************************)
EXTENDS Integers, FiniteSets, Functions

CONSTANTS
  NodeCount,    \* compute nodes 1..NodeCount, in the order of the nodes dictionary
  NodeCpu,      \* vCPUs of a node
  NodeRam,      \* its memory in GB
  Descriptors,  \* NF deployment descriptors, never changed once created
  RequiredCpu,  \* of each descriptor, for one replica
  RequiredRam,
  Deployments,  \* ids deploy_workload can draw (uuid4: never drawn twice)
  MaxReplicas,  \* bound: replicas a client asks for
  NoDeployment

Nodes == 1..NodeCount

ASSUME OCloudAssumption ==
  /\ NodeCount \in Nat /\ NodeCpu \in Nat /\ NodeRam \in Nat /\ MaxReplicas \in Nat
  /\ RequiredCpu \in [Descriptors -> Nat \ {0}]
  /\ RequiredRam \in [Descriptors -> Nat \ {0}]
  /\ IsFiniteSet(Deployments)

Records == [descriptor : Descriptors,
            replicas   : 1..MaxReplicas,   \* and readyReplicas, until the termination
            state      : {"RUNNING", "TERMINATED"}]

ASSUME NoDeploymentAssumption == NoDeployment \notin Records

VARIABLES
  allocated_cpu,        \* of each node
  allocated_ram,
  placed,               \* how often a node's list names a deployment
  deployments,          \* by id, NoDeployment before its creation
  scaled,               \* deployments with a SCALE operation on record
  shrunk,               \* those of them with one to fewer replicas
  current_deployments   \* the capacity gauge of the deployment manager

vars == <<allocated_cpu, allocated_ram, placed, deployments, scaled, shrunk, current_deployments>>

Init ==
  /\ allocated_cpu = [n \in Nodes |-> 0]
  /\ allocated_ram = [n \in Nodes |-> 0]
  /\ placed = [n \in Nodes |-> [d \in Deployments |-> 0]]
  /\ deployments = [d \in Deployments |-> NoDeployment]
  /\ scaled = {}
  /\ shrunk = {}
  /\ current_deployments = 0

Created    == {d \in Deployments : deployments[d] # NoDeployment}
Running(d) == d \in Created /\ deployments[d].state = "RUNNING"
------------------------------------------------------------------------------
(* Placing replicas *)

\* The aggregate check: free resources are summed over the nodes, as if a
\* replica could be split.
Sufficient(e, k) ==
  /\ RequiredCpu[e] * k <= SumFunction([n \in Nodes |-> NodeCpu - allocated_cpu[n]])
  /\ RequiredRam[e] * k <= SumFunction([n \in Nodes |-> NodeRam - allocated_ram[n]])

\* Node n has room for k replicas of descriptor e.
FitsCpu(n, e, k) ==   \* mutated form: the memory is not looked at
  allocated_cpu[n] + RequiredCpu[e] * k <= NodeCpu

Fits(n, e, k) ==
  /\ allocated_cpu[n] + RequiredCpu[e] * k <= NodeCpu
  /\ allocated_ram[n] + RequiredRam[e] * k <= NodeRam

\* What the allocation loop arrives at: it fills the nodes one after the other
\* and leaves one that has room for more only when all replicas are placed.
FillsInOrder(p, e, k) ==
  /\ \A n \in Nodes : p[n] = 0 \/ Fits(n, e, p[n])
  /\ \A n \in Nodes : Fits(n, e, p[n] + 1) => SumFunctionOnSet(p, 1..n) = k
  /\ SumFunction(p) <= k

Allocate(p, e) ==
  /\ allocated_cpu' = [n \in Nodes |-> allocated_cpu[n] + RequiredCpu[e] * p[n]]
  /\ allocated_ram' = [n \in Nodes |-> allocated_ram[n] + RequiredRam[e] * p[n]]

Release(p, e) ==
  /\ allocated_cpu' = [n \in Nodes |-> allocated_cpu[n] - RequiredCpu[e] * p[n]]
  /\ allocated_ram' = [n \in Nodes |-> allocated_ram[n] - RequiredRam[e] * p[n]]
------------------------------------------------------------------------------
(* The operations; a request the O-Cloud rejects changes nothing. *)

\* deploy_workload: replicas that found no node are counted as ready all the same.
DeployCountingBefore(d, e, k) ==   \* mutated form: the gauge misses the new one
  /\ deployments[d] = NoDeployment
  /\ Sufficient(e, k)
  /\ \E p \in [Nodes -> 0..k] :
       /\ FillsInOrder(p, e, k)
       /\ Allocate(p, e)
       /\ placed' = [n \in Nodes |-> [placed[n] EXCEPT ![d] = p[n]]]
  /\ deployments' = [deployments EXCEPT ![d] =
       [descriptor |-> e, replicas |-> k, state |-> "RUNNING"]]
  /\ current_deployments' = Cardinality(Created)
  /\ UNCHANGED <<scaled, shrunk>>

DeployWorkload(d, e, k) ==
  /\ deployments[d] = NoDeployment
  /\ Sufficient(e, k)
  /\ \E p \in [Nodes -> 0..k] :
       /\ FillsInOrder(p, e, k)
       /\ Allocate(p, e)
       /\ placed' = [n \in Nodes |-> [placed[n] EXCEPT ![d] = p[n]]]
  /\ deployments' = [deployments EXCEPT ![d] =
       [descriptor |-> e, replicas |-> k, state |-> "RUNNING"]]
  /\ current_deployments' = Cardinality(Created \cup {d})
  /\ UNCHANGED <<scaled, shrunk>>

Rescale(d, k) ==
  /\ deployments' = [deployments EXCEPT ![d].replicas = k]
  /\ scaled' = scaled \cup {d}
  /\ shrunk' = IF k < deployments[d].replicas THEN shrunk \cup {d} ELSE shrunk
  /\ UNCHANGED <<placed, current_deployments>>

\* scale_deployment upwards, or to the same number: the nodes that take the new
\* replicas do not list them.
ScaleUp(d, k) ==
  LET e == deployments[d].descriptor
      delta == k - deployments[d].replicas
  IN /\ Running(d)
     /\ delta >= 0
     /\ delta > 0 => Sufficient(e, delta)
     /\ \E p \in [Nodes -> 0..delta] : FillsInOrder(p, e, delta) /\ Allocate(p, e)
     /\ Rescale(d, k)

\* The first node that lists the deployment, whose list stays as it is, gives up
\* the resources of all the replicas that go.
FirstListing(n, d) == placed[n][d] > 0 /\ \A m \in 1..n - 1 : placed[m][d] = 0

ScaleDown(d, k) ==
  LET e == deployments[d].descriptor
      delta == deployments[d].replicas - k
  IN /\ Running(d)
     /\ delta > 0
     /\ Release([n \in Nodes |-> IF FirstListing(n, d) THEN delta ELSE 0], e)
     /\ Rescale(d, k)

\* terminate_deployment: each node releases what its list names.
TerminateReleasingOne(d) ==   \* mutated form: a node that lists it releases one replica
  /\ Running(d)
  /\ Release([n \in Nodes |-> IF placed[n][d] > 0 THEN 1 ELSE 0], deployments[d].descriptor)
  /\ placed' = [n \in Nodes |-> [placed[n] EXCEPT ![d] = 0]]
  /\ deployments' = [deployments EXCEPT ![d].state = "TERMINATED"]
  /\ current_deployments' = Cardinality({c \in Created : Running(c) /\ c # d})
  /\ UNCHANGED <<scaled, shrunk>>

TerminateCountingTwice(d) ==   \* mutated form: the gauge is also decremented
  /\ Running(d)
  /\ Release([n \in Nodes |-> placed[n][d]], deployments[d].descriptor)
  /\ placed' = [n \in Nodes |-> [placed[n] EXCEPT ![d] = 0]]
  /\ deployments' = [deployments EXCEPT ![d].state = "TERMINATED"]
  /\ current_deployments' = Cardinality({c \in Created : Running(c) /\ c # d}) - 1
  /\ UNCHANGED <<scaled, shrunk>>

TerminateDeployment(d) ==
  /\ Running(d)
  /\ Release([n \in Nodes |-> placed[n][d]], deployments[d].descriptor)
  /\ placed' = [n \in Nodes |-> [placed[n] EXCEPT ![d] = 0]]
  /\ deployments' = [deployments EXCEPT ![d].state = "TERMINATED"]
  /\ current_deployments' = Cardinality({c \in Created : Running(c) /\ c # d})
  /\ UNCHANGED <<scaled, shrunk>>

Next ==
  \/ \E d \in Deployments, e \in Descriptors, k \in 1..MaxReplicas : DeployWorkload(d, e, k)
  \/ \E d \in Created, k \in 1..MaxReplicas : ScaleUp(d, k) \/ ScaleDown(d, k)
  \/ \E d \in Created : TerminateDeployment(d)

Spec == Init /\ [][Next]_vars
------------------------------------------------------------------------------
\* The accounts are integers (they can fall below zero), lists and gauge are not
\* negative.
TypeOK ==
  /\ allocated_cpu \in [Nodes -> Int]
  /\ allocated_ram \in [Nodes -> Int]
  /\ placed \in [Nodes -> [Deployments -> 0..MaxReplicas]]
  /\ deployments \in [Deployments -> Records \cup {NoDeployment}]
  /\ shrunk \subseteq scaled /\ scaled \subseteq Deployments
  /\ current_deployments \in Nat

\* What the replicas that a node lists need of it.
Listed(n, required) ==
  SumFunction([d \in Created |-> placed[n][d] * required[deployments[d].descriptor]])

AccountsFit == \A n \in Nodes : allocated_cpu[n] <= NodeCpu /\ allocated_ram[n] <= NodeRam

\* Although admission looks at the sum over the nodes only, no node's account ever
\* shows more than the node has; and until something is scaled down, through any
\* deployments, scale-ups and terminations, no node lists more replicas than it
\* has room for.  Afterwards it may: a replica released twice leaves room on the
\* account that the node does not have (AvailableWithinTotal).
NeverOvercommitted ==
  /\ AccountsFit
  /\ shrunk = {} => \A n \in Nodes : /\ Listed(n, RequiredCpu) <= NodeCpu
                                     /\ Listed(n, RequiredRam) <= NodeRam

\* As long as nothing was scaled, a node's books agree with its list: what is
\* allocated on it is what the replicas it lists need.
BooksBalanceUntilScaled ==
  scaled = {} => \A n \in Nodes : /\ allocated_cpu[n] = Listed(n, RequiredCpu)
                                  /\ allocated_ram[n] = Listed(n, RequiredRam)

\* The gauge may count deployments that were terminated, but it never shows
\* fewer than there are running, nor more than were ever created.
GaugeCoversRunning ==
  /\ Cardinality({d \in Created : Running(d)}) <= current_deployments
  /\ current_deployments <= Cardinality(Created)

\* fake_cluster.py:38: a node has its vCPUs and its memory; what O2 IMS reports
\* as available on it (357, 358) is never more than that.  A scale-down followed by a
\* termination releases the same replica twice.
AvailableWithinTotal ==
  \A n \in Nodes : NodeCpu - allocated_cpu[n] <= NodeCpu /\ NodeRam - allocated_ram[n] <= NodeRam
==============================================================================
