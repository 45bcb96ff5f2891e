----------------------------- MODULE Remediation -----------------------------
(***************************************************************************)
(* The closed-loop remediation pipeline: walker.walk, the taxonomy graph   *)
(* runner and the research bench, each a sequence of stages over one fault *)
(* (agents, taxonomy, router, sandbox, guardrail, actuation).  The HTTP    *)
(* walker service runs every request on its own worker thread, so walks    *)
(* interleave with each other and with the crisis-mode switch.             *)
(***************************************************************************)
EXTENDS HarnessPolicy, FiniteSets

CONSTANTS
  Walks,             \* one per request: a run of walk(), of the graph or of the bench
  Faults,            \* fault ids
  RCA,               \* the top candidate classification of each fault
  Stub,              \* the scenario stub of each fault
  FirmwareScenarios, \* the faults the bench follows with a firmware push
  NoStub,            \* a fault scenario_stubs.json does not know
  NoFault,           \* a walk that has no request yet
  NoProposal         \* a walk the router has not answered

Backends == {"walker", "graph", "bench"}

RCAs == [match : Matches, layer : Layers]

ASSUME RemediationAssumption ==
  /\ RCA \in [Faults -> RCAs]
  /\ Stub \in [Faults -> Stubs \cup {NoStub}]
  /\ FirmwareScenarios \subseteq {f \in Faults : RCA[f].match = "node_firmware"}
  /\ NoStub \notin Stubs
  /\ NoFault \notin Faults

Proposals == [layer     : {"infra", "service"},
              match     : Matches,
              action    : ActionAllowlist,
              verdict   : {"none", "allow", "deny"},
              dispatch  : {"none", "accepted", "rejected"},
              companion : {"none", "unanswered", "accepted", "rejected"}]

ASSUME NoProposalAssumption == NoProposal \notin Proposals

Stages ==
  {"idle", "received", "classified", "routed", "sandboxed", "vetting",
   "audited", "notified", "flashed", "review", "blocked", "done"}

Ended == {"review", "blocked", "done"}

\* Metal3 BMO phases: Preparing, Pushing, Rebooting, Verifying, Updated.
BmoPhases == 5

VARIABLES
  crisis,      \* guardrail._CRISIS_MODE_ACTIVE
  stage,       \* where each walk is
  backend,     \* which entry point runs it
  fault,       \* the fault it walks
  proposal,    \* the RemediationProposal it carries
  dispatches,  \* walks that issued an O2 IMS DeploymentRequest
  audits,      \* walks that produced an AuditEvent
  intents,     \* walks whose TMF921 intent was emitted to the partner SMO
  bmo          \* Metal3 phases each walk has pushed

vars == <<crisis, stage, backend, fault, proposal, dispatches, audits, intents, bmo>>

Init ==
  /\ crisis = FALSE
  /\ stage = [w \in Walks |-> "idle"]
  /\ backend = [w \in Walks |-> "walker"]
  /\ fault = [w \in Walks |-> NoFault]
  /\ proposal = [w \in Walks |-> NoProposal]
  /\ dispatches = {}
  /\ audits = {}
  /\ intents = {}
  /\ bmo = [w \in Walks |-> 0]
------------------------------------------------------------------------------
\* The fault's scenario stub, and what the gates read of it.
StubOf(w)     == Stub[fault[w]]
HasStub(w)    == StubOf(w) # NoStub
VerdictOf(w)  == IF HasStub(w) THEN StubOf(w).verdict ELSE "none"

Goto(w, s) == stage' = [stage EXCEPT ![w] = s]

\* A stage that raises ends the walk: the caller gets the exception, and what
\* earlier stages already did stays done.
Block(w) ==
  /\ Goto(w, "blocked")
  /\ UNCHANGED <<crisis, backend, fault, proposal, dispatches, audits, intents, bmo>>

\* A request arrives and the stubbed agents turn its payload into an RCA.
Receive(w) ==
  /\ stage[w] = "idle"
  /\ \E f \in Faults, b \in Backends :
       /\ fault' = [fault EXCEPT ![w] = f]
       /\ backend' = [backend EXCEPT ![w] = b]
  /\ Goto(w, "received")
  /\ UNCHANGED <<crisis, proposal, dispatches, audits, intents, bmo>>
------------------------------------------------------------------------------
(* The taxonomy graph's own nodes, in front of the shared stages. *)

Unauthorized == "unauthorized"   \* no layer: the normalization raises

\* normalize_rca_with_taxonomy: the id must be in the taxonomy, a layer the RCA
\* supplies must be the taxonomy's, and the RCA leaves with the taxonomy's.
NormalizedAsSupplied(r) ==   \* mutated form: the layer the RCA supplies wins
  IF r.match \in TaxonomyIds
    THEN IF r.layer = MissingLayer THEN CanonicalLayer(r.match) ELSE r.layer
    ELSE Unauthorized

Normalized(r) ==
  IF r.match \in TaxonomyIds /\ r.layer \in {MissingLayer, CanonicalLayer(r.match)}
    THEN CanonicalLayer(r.match)
    ELSE Unauthorized

Authorized(r) == Normalized(r) # Unauthorized

\* load_taxonomy and classify_fault.
Classify(w) ==
  /\ stage[w] = "received" /\ backend[w] = "graph"
  /\ IF Authorized(RCA[fault[w]])
       THEN /\ Goto(w, "classified")
            /\ UNCHANGED <<crisis, backend, fault, proposal, dispatches, audits, intents, bmo>>
       ELSE Block(w)

\* ambiguity_assist_boundary: whatever the resolver answers, and when it raises
\* NotImplementedError, the walk stops for review.  Any other exception of a
\* live resolver escapes.
AssistAmbiguity(w) ==
  /\ stage[w] = "classified" /\ Normalized(RCA[fault[w]]) = "ambiguous"
  /\ \/ /\ Goto(w, "review")
        /\ UNCHANGED <<crisis, backend, fault, proposal, dispatches, audits, intents, bmo>>
     \/ Block(w)
------------------------------------------------------------------------------
(* router.route *)

\* The graph routes the normalized layer, the walker and the bench the RCA's own.
RoutedLayer(w) ==
  IF backend[w] = "graph" THEN Normalized(RCA[fault[w]]) ELSE RCA[fault[w]].layer

AtRouter(w) ==
  IF backend[w] = "graph"
    THEN stage[w] = "classified" /\ RoutedLayer(w) # "ambiguous"
    ELSE stage[w] = "received"

\* _maybe_build_companion_intent with the SMO's dispatch result attached.
Companion(w) ==
  IF /\ RCA[fault[w]].match = "node_firmware"
     /\ HasStub(w)
     /\ StubOf(w).blast.nodes >= 1
    THEN StubOf(w).smo
    ELSE "none"

\* The O-Cloud Manager's envelope: accepted unless the stub overrides it.
DispatchOutcome(w) == IF HasStub(w) THEN StubOf(w).o2ims ELSE "accepted"

\* Infra: the DeploymentRequest goes out from inside the router.
RouteInfra(w) ==
  /\ AtRouter(w)
  /\ RoutedLayer(w) = "infra"
  /\ HasDeliveryPath(RCA[fault[w]].match)
  /\ proposal' = [proposal EXCEPT ![w] =
       [layer |-> "infra", match |-> RCA[fault[w]].match,
        action |-> DeliveryPath[RCA[fault[w]].match], verdict |-> "none",
        dispatch |-> DispatchOutcome(w), companion |-> Companion(w)]]
  /\ dispatches' = dispatches \cup {w}
  /\ Goto(w, "routed")
  /\ UNCHANGED <<crisis, backend, fault, audits, intents, bmo>>

RouteService(w) ==
  /\ AtRouter(w)
  /\ RoutedLayer(w) = "service"
  /\ RCA[fault[w]].match # NoCandidate
  /\ proposal' = [proposal EXCEPT ![w] =
       [layer |-> "service", match |-> RCA[fault[w]].match,
        action |-> "emit_smo_intent", verdict |-> "none",
        dispatch |-> "none", companion |-> Companion(w)]]
  /\ Goto(w, "routed")
  /\ UNCHANGED <<crisis, backend, fault, dispatches, audits, intents, bmo>>

RouteWaitsForLLM(w) ==   \* mutated form: the ambiguous path waits for an answer
  /\ AtRouter(w)
  /\ \/ RCA[fault[w]].match = NoCandidate
     \/ RoutedLayer(w) \notin {"infra", "service", "ambiguous"}
     \/ RoutedLayer(w) = "infra" /\ ~HasDeliveryPath(RCA[fault[w]].match)
  /\ Block(w)

\* No candidate, an infra id without a delivery path, an ambiguous layer (with
\* or without an LLM hint) or a layer the router does not know: route raises.
RouteRejects(w) ==
  /\ AtRouter(w)
  /\ \/ RCA[fault[w]].match = NoCandidate
     \/ RoutedLayer(w) \notin {"infra", "service"}
     \/ RoutedLayer(w) = "infra" /\ ~HasDeliveryPath(RCA[fault[w]].match)
  /\ Block(w)
------------------------------------------------------------------------------
(* walker.sandbox_simulation and guardrail.evaluate *)

AttachVerdict(w) ==
  /\ stage[w] = "routed"
  /\ VerdictOf(w) # "none"
  /\ proposal' = [proposal EXCEPT ![w].verdict = VerdictOf(w)]
  /\ Goto(w, "sandboxed")
  /\ UNCHANGED <<crisis, backend, fault, dispatches, audits, intents, bmo>>

SandboxRaises(w) ==
  /\ stage[w] = "routed"
  /\ VerdictOf(w) = "none"
  /\ Block(w)

\* evaluate reads the crisis switch once, first; the rest of it runs after.
VetIgnoringCrisis(w) ==   \* mutated form: the switch is not read
  /\ stage[w] = "sandboxed"
  /\ Goto(w, "vetting")
  /\ UNCHANGED <<crisis, backend, fault, proposal, dispatches, audits, intents, bmo>>

Vet(w) ==
  /\ stage[w] = "sandboxed"
  /\ IF crisis
       THEN Block(w)
       ELSE /\ Goto(w, "vetting")
            /\ UNCHANGED <<crisis, backend, fault, proposal, dispatches, audits, intents, bmo>>

\* The twin's verdict, the allowlist, and the blast radius of the fault's stub.
AdmissibleWithoutTwin(w) ==   \* mutated form: apply_allowed is not read
  /\ proposal[w].action \in ActionAllowlist
  /\ HasStub(w)
  /\ WithinCaps(StubOf(w).blast)

Admissible(w) ==
  /\ proposal[w].verdict = "allow"
  /\ proposal[w].action \in ActionAllowlist
  /\ HasStub(w)
  /\ WithinCaps(StubOf(w).blast)

Evaluate(w) ==
  /\ stage[w] = "vetting"
  /\ IF Admissible(w)
       THEN /\ audits' = audits \cup {w}
            /\ Goto(w, "audited")
            /\ UNCHANGED <<crisis, backend, fault, proposal, dispatches, intents, bmo>>
       ELSE Block(w)
------------------------------------------------------------------------------
(* bench.runner.run_scenario, after walk() has returned an AuditEvent *)

Actuates(w) == backend[w] = "bench" /\ fault[w] \in FirmwareScenarios

\* A walk that has nothing to actuate returns its AuditEvent to the caller.
Return(w) ==
  /\ stage[w] = "audited" /\ ~Actuates(w)
  /\ Goto(w, "done")
  /\ UNCHANGED <<crisis, backend, fault, proposal, dispatches, audits, intents, bmo>>

\* emit_intent: the partner SMO is told of the maintenance window.
EmitIntent(w) ==
  /\ stage[w] = "audited" /\ Actuates(w)
  /\ intents' = intents \cup {w}
  /\ Goto(w, "notified")
  /\ UNCHANGED <<crisis, backend, fault, proposal, dispatches, audits, bmo>>

\* apply_firmware: one phase of the Metal3 BMO sequence.
PushEarly(w) ==   \* mutated form: the push does not wait for the intent
  /\ stage[w] \in {"audited", "notified"} /\ Actuates(w) /\ bmo[w] < BmoPhases
  /\ bmo' = [bmo EXCEPT ![w] = @ + 1]
  /\ UNCHANGED <<crisis, stage, backend, fault, proposal, dispatches, audits, intents>>

PushOnceMore(w) ==   \* mutated form: the end of the sequence is off by one
  /\ stage[w] = "notified" /\ bmo[w] <= BmoPhases
  /\ bmo' = [bmo EXCEPT ![w] = @ + 1]
  /\ IF bmo[w] = BmoPhases THEN Goto(w, "flashed") ELSE UNCHANGED stage
  /\ UNCHANGED <<crisis, backend, fault, proposal, dispatches, audits, intents>>

PushPhase(w) ==
  /\ stage[w] = "notified" /\ bmo[w] < BmoPhases
  /\ bmo' = [bmo EXCEPT ![w] = @ + 1]
  /\ IF bmo[w] + 1 = BmoPhases THEN Goto(w, "flashed") ELSE UNCHANGED stage
  /\ UNCHANGED <<crisis, backend, fault, proposal, dispatches, audits, intents>>

\* simple_update and get_task_status: the Redfish task, polled to Completed.
FollowTask(w) ==
  /\ stage[w] = "flashed"
  /\ Goto(w, "done")
  /\ UNCHANGED <<crisis, backend, fault, proposal, dispatches, audits, intents, bmo>>
------------------------------------------------------------------------------
\* The kill switch: key holders set and clear it at any time.
SwitchCrisis ==
  /\ crisis' = ~crisis
  /\ UNCHANGED <<stage, backend, fault, proposal, dispatches, audits, intents, bmo>>

Advance(w) ==
  \/ Classify(w)
  \/ AssistAmbiguity(w)
  \/ RouteInfra(w)
  \/ RouteService(w)
  \/ RouteRejects(w)
  \/ AttachVerdict(w)
  \/ SandboxRaises(w)
  \/ Vet(w)
  \/ Evaluate(w)
  \/ Return(w)
  \/ EmitIntent(w)
  \/ PushPhase(w)
  \/ FollowTask(w)

Next ==
  \/ \E w \in Walks : Receive(w)
  \/ \E w \in Walks : Advance(w)
  \/ SwitchCrisis

Spec == Init /\ [][Next]_vars

\* Each walk is a thread the server runs to its end; nothing obliges a request
\* to arrive or the switch to move.
Fairness == \A w \in Walks : WF_vars(Advance(w))

FairSpec == Spec /\ Fairness
------------------------------------------------------------------------------
\* Every variable holds the kind of value the code stores in it.
TypeOK ==
  /\ crisis \in BOOLEAN
  /\ stage \in [Walks -> Stages]
  /\ backend \in [Walks -> Backends]
  /\ fault \in [Walks -> Faults \cup {NoFault}]
  /\ proposal \in [Walks -> Proposals \cup {NoProposal}]
  /\ dispatches \subseteq Walks
  /\ audits \subseteq Walks
  /\ intents \subseteq Walks
  /\ bmo \in [Walks -> 0..BmoPhases]

\* An AuditEvent exists only for a proposal that the twin allowed and whose
\* fault is known and within the blast-radius caps, however the stages of
\* other walks and the crisis switch fell in between.
AuditsPassedEveryGate ==
  \A w \in audits :
    /\ proposal[w] # NoProposal
    /\ proposal[w].verdict = "allow"
    /\ HasStub(w) /\ StubOf(w).verdict = "allow"
    /\ WithinCaps(StubOf(w).blast)

\* Behind the taxonomy graph a proposal carries the taxonomy's own layer, so a
\* fault whose id belongs to the service or the ambiguous section never reaches
\* the O-Cloud, whatever layer its RCA claims.
GraphKeepsTheBoundary ==
  \A w \in Walks : backend[w] = "graph" =>
    /\ proposal[w] # NoProposal =>
         /\ proposal[w].match \in TaxonomyIds
         /\ proposal[w].layer = CanonicalLayer(proposal[w].match)
    /\ w \in dispatches => fault[w] \in Faults /\ RCA[fault[w]].match \in InfraIds

\* A firmware phase is pushed only for an audited walk whose SMO was told of the
\* window first, and whose twin allowed the push.
FirmwareFollowsAuditAndNotice ==
  \A w \in Walks : bmo[w] > 0 =>
    /\ w \in audits
    /\ w \in intents
    /\ proposal[w] # NoProposal /\ proposal[w].verdict = "allow"

\* Every walk that starts ends: audited and returned, blocked, or left for review.
WalksEnd == \A w \in Walks : (stage[w] # "idle") ~> (stage[w] \in Ended)
------------------------------------------------------------------------------
\* What the stages amount to, seen from the gate.
StatusOf(w) ==
  CASE stage[w] \in {"idle", "received", "classified", "routed", "sandboxed"} -> "open"
    [] stage[w] = "vetting"             -> "vetting"
    [] stage[w] \in {"review", "blocked"} -> "refused"
    [] OTHER                            -> "audited"

Gate == INSTANCE RemediationGate WITH
  Passing <- {f \in Faults : /\ Stub[f] # NoStub
                             /\ Stub[f].verdict = "allow"
                             /\ WithinCaps(Stub[f].blast)},
  subject <- fault,
  status  <- [w \in Walks |-> StatusOf(w)],
  acted   <- intents \cup {w \in Walks : bmo[w] > 0}

\* The pipeline keeps the gate's promise: no vetting starts in crisis mode, no
\* audit without a pass, no intent or firmware phase without an audit.
KeepsGate == Gate!Spec

\* docs/4_dual_route_coordination_sequence.md:73 says the sandbox runs before any
\* external network dispatch; the router issues the DeploymentRequest itself.
SandboxBeforeDispatch == \A w \in dispatches : proposal[w].verdict # "none"
==============================================================================
