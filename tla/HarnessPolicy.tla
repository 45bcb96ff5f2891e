---------------------------- MODULE HarnessPolicy ----------------------------
(***************************************************************************)
(* The harness' declarative contracts: the resource taxonomy               *)
(* (harness/taxonomy.yaml), the routing rule's delivery paths              *)
(* (harness/routing-rules/contribution-1-routing-rule.yaml) and the        *)
(* guardrail rules (harness/guardrails.yaml), with the pure functions the  *)
(* runtime evaluates over them.                                            *)
(***************************************************************************)
EXTENDS Naturals

\* taxonomy.yaml: section infra_layer.
InfraIds ==
  {"host_config", "host_driver", "node_firmware", "ptp_host_stack",
   "container_platform", "performance_profile", "sriov_allocation",
   "node_feature_labels", "cluster_networking", "gitops_pipeline",
   "hub_lifecycle", "cluster_alarm"}

\* taxonomy.yaml: section service_layer.
ServiceIds ==
  {"ran_parameter", "ran_pm_counter", "cell_timing", "ran_software_version",
   "slice_intent"}

\* taxonomy.yaml: section ambiguous.
AmbiguousIds == {"ptp_boundary", "network_transport", "workload_health"}

TaxonomyIds == InfraIds \cup ServiceIds \cup AmbiguousIds

CanonicalLayer(id) ==
  CASE id \in InfraIds   -> "infra"
    [] id \in ServiceIds -> "service"
    [] OTHER             -> "ambiguous"

\* Layers an RCA can carry: the three the router knows, one it does not, and
\* no layer at all.
MissingLayer == "missing"
Layers       == {"infra", "service", "ambiguous", "unheard_of", MissingLayer}

\* An RCA can name an id outside the taxonomy, or no candidate at all.
NoCandidate == "no_candidate"
Matches     == TaxonomyIds \cup {"not_in_taxonomy", NoCandidate}

\* router._INFRA_DELIVERY_PATHS: only half of the infra ids have a path.
DeliveryPath ==
  [host_config         |-> "apply_machine_config",
   ptp_host_stack      |-> "apply_machine_config",
   host_driver         |-> "apply_kmm_module",
   node_firmware       |-> "apply_metal3_firmware",
   performance_profile |-> "apply_performance_profile",
   sriov_allocation    |-> "apply_sriov_config"]

HasDeliveryPath(id) == id \in DOMAIN DeliveryPath

\* guardrails.yaml: rules.action_allowlist.
ActionAllowlist ==
  {"apply_machine_config", "apply_kmm_module", "apply_metal3_firmware",
   "apply_performance_profile", "apply_sriov_config", "emit_smo_intent"}

\* guardrails.yaml: rules.blast_radius.
MaxNodes == 1
MaxSites == 1
MaxCells == 4

Blasts == [nodes : Nat, sites : Nat, cells : Nat]

WithinCaps(blast) ==
  /\ blast.nodes <= MaxNodes
  /\ blast.sites <= MaxSites
  /\ blast.cells <= MaxCells

\* What scenario_stubs.json holds for a fault id: the digital twin's verdict
\* ("none" when it gave no verdict), the inventory's blast radius, the O-Cloud
\* Manager's answer and the partner SMO's answer to the companion intent.
Stubs == [verdict : {"none", "allow", "deny"},
          blast   : Blasts,
          o2ims   : {"accepted", "rejected"},
          smo     : {"unanswered", "accepted", "rejected"}]
==============================================================================
