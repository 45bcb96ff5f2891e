---------------------------- MODULE MCRemediation ----------------------------
(* Fault payloads and stubs that reach every gate of the pipeline. *)
EXTENDS Remediation

CONSTANTS w1, w2

MCWalks == {w1, w2}

\* One fault per way through the pipeline.
MCRCA ==
  [ptp       |-> [match |-> "ptp_host_stack", layer |-> "infra"],
   firmware  |-> [match |-> "node_firmware", layer |-> "infra"],
   firmware2 |-> [match |-> "node_firmware", layer |-> "infra"],
   denied    |-> [match |-> "node_firmware", layer |-> "infra"],
   wide      |-> [match |-> "host_driver", layer |-> "infra"],
   pathless  |-> [match |-> "cluster_alarm", layer |-> "infra"],
   crossed   |-> [match |-> "slice_intent", layer |-> "infra"],
   disguised |-> [match |-> "host_config", layer |-> "service"],
   radio     |-> [match |-> "ran_parameter", layer |-> MissingLayer],
   boundary  |-> [match |-> "ptp_boundary", layer |-> "ambiguous"],
   stubless  |-> [match |-> "sriov_allocation", layer |-> "infra"],
   empty     |-> [match |-> NoCandidate, layer |-> MissingLayer]]

MCFaults == DOMAIN MCRCA

\* The committed scenarios: one node, one site, up to four cells.
Committed(cells, smo) ==
  [verdict |-> "allow", blast |-> [nodes |-> 1, sites |-> 1, cells |-> cells],
   o2ims |-> "accepted", smo |-> smo]

MCStub ==
  [f \in MCFaults |->
    CASE f \in {"stubless", "empty"} -> NoStub
      [] f = "firmware"  -> Committed(4, "accepted")
      [] f = "firmware2" -> Committed(4, "rejected")
      [] f = "denied"    -> [Committed(4, "accepted") EXCEPT !.verdict = "deny"]
      [] f = "wide"      -> [Committed(5, "unanswered") EXCEPT !.o2ims = "rejected"]
      [] OTHER           -> Committed(0, "unanswered")]

MCFirmwareScenarios == {"firmware", "firmware2", "denied"}
==============================================================================
