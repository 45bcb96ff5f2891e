------------------------- MODULE Remediation_proofs -------------------------
(***************************************************************************)
(* The gates hold for any number of walks, any faults and any stubs, not   *)
(* only for the instance of MCRemediation.                                 *)
(***************************************************************************)
EXTENDS Remediation, TLAPS

Before == {"idle", "received", "classified"}
After  == {"audited", "notified", "flashed", "done"}

\* What a walk carries at each stage.  It relates the proposal, the audit and
\* the notices to the stage, which the properties themselves do not mention.
WalkInv(w) ==
  /\ stage[w] \in Before => proposal[w] = NoProposal /\ w \notin dispatches
  /\ stage[w] \in {"routed", "sandboxed", "vetting"} \cup After => proposal[w] # NoProposal
  /\ stage[w] \in {"sandboxed", "vetting"} \cup After => proposal[w].verdict = VerdictOf(w)
  /\ w \in audits <=> stage[w] \in After
  /\ w \in audits => proposal[w].verdict = "allow" /\ HasStub(w) /\ WithinCaps(StubOf(w).blast)
  /\ w \in intents => stage[w] \in {"notified", "flashed", "done"}
  /\ stage[w] \in {"notified", "flashed"} => w \in intents
  /\ bmo[w] > 0 => w \in intents
  /\ stage[w] = "classified" => backend[w] = "graph" /\ Authorized(RCA[fault[w]])
  /\ backend[w] = "graph" /\ proposal[w] # NoProposal =>
       /\ proposal[w].match \in TaxonomyIds
       /\ proposal[w].layer = CanonicalLayer(proposal[w].match)
  /\ backend[w] = "graph" /\ w \in dispatches => RCA[fault[w]].match \in InfraIds

\* A walk has a fault from its request on and a proposal once it is routed:
\* without this the types are not inductive.
Typed ==
  /\ TypeOK
  /\ \A w \in Walks : /\ stage[w] = "idle" <=> fault[w] = NoFault
                      /\ stage[w] = "routed" => proposal[w] # NoProposal

IInv == Typed /\ \A w \in Walks : WalkInv(w)
------------------------------------------------------------------------------
(* The contracts *)

\* What the partner SMO and the O-Cloud Manager answer is one of their answers.
LEMMA Answers ==
  ASSUME NEW w \in Walks, fault[w] \in Faults
  PROVE  /\ Companion(w) \in {"none", "unanswered", "accepted", "rejected"}
         /\ DispatchOutcome(w) \in {"accepted", "rejected"}
         /\ VerdictOf(w) \in {"none", "allow", "deny"}
         /\ RCA[fault[w]].match \in Matches
         /\ RCA[fault[w]].layer \in Layers
<1>1. RCA[fault[w]] \in RCAs
  BY RemediationAssumption
<1>2. Stub[fault[w]] \in Stubs \cup {NoStub}
  BY RemediationAssumption
<1>3. StubOf(w) = NoStub \/ StubOf(w) \in Stubs
  BY <1>2 DEF StubOf
<1> QED
  BY <1>1, <1>3 DEF Companion, DispatchOutcome, VerdictOf, HasStub, Stubs, RCAs

\* Every delivery path leads to an action of the allowlist.
LEMMA PathsAllowed ==
  ASSUME NEW id, HasDeliveryPath(id)
  PROVE  DeliveryPath[id] \in ActionAllowlist /\ id \in InfraIds
  BY DEF HasDeliveryPath, DeliveryPath, ActionAllowlist, InfraIds
------------------------------------------------------------------------------
(* Types *)

LEMMA InitTyped == Init => Typed
<1>1. Init => TypeOK
  <2> SUFFICES ASSUME Init PROVE TypeOK
    OBVIOUS
  <2> USE DEF Init
  <2>1. stage \in [Walks -> Stages] /\ backend \in [Walks -> Backends]
    BY DEF Stages, Backends
  <2>2. fault \in [Walks -> Faults \cup {NoFault}] /\ proposal \in [Walks -> Proposals \cup {NoProposal}]
    OBVIOUS
  <2>3. bmo \in [Walks -> 0..BmoPhases]
    BY DEF BmoPhases
  <2>4. crisis \in BOOLEAN /\ dispatches \subseteq Walks /\ audits \subseteq Walks /\ intents \subseteq Walks
    OBVIOUS
  <2> QED
    BY <2>1, <2>2, <2>3, <2>4 DEF TypeOK
<1>2. Init => \A w \in Walks : stage[w] = "idle" /\ fault[w] = NoFault
  BY DEF Init
<1> QED
  BY <1>1, <1>2 DEF Typed

LEMMA FaultKnown ==
  ASSUME Typed, NEW w \in Walks, stage[w] # "idle"
  PROVE  fault[w] \in Faults
  BY DEF Typed, TypeOK

\* A stage that raises leaves every variable but the stage alone.
LEMMA BlockTyped ==
  ASSUME Typed, NEW w \in Walks, stage[w] # "idle", Block(w)
  PROVE  Typed'
  BY DEF Typed, TypeOK, Block, Goto, Stages

LEMMA NextTyped == Typed /\ [Next]_vars => Typed'
<1> SUFFICES ASSUME Typed, [Next]_vars PROVE Typed'
  OBVIOUS
<1> USE DEF Typed, TypeOK, Stages
<1>1. ASSUME NEW w \in Walks, Receive(w) PROVE Typed'
  BY <1>1, RemediationAssumption DEF Receive, Goto
<1>2. ASSUME NEW w \in Walks, Advance(w) PROVE Typed'
  <2>1. CASE Classify(w)
    BY <2>1, BlockTyped DEF Classify, Goto
  <2>2. CASE AssistAmbiguity(w)
    BY <2>2, BlockTyped DEF AssistAmbiguity, Goto
  <2>3. CASE RouteInfra(w)
    <3>1. fault[w] \in Faults /\ stage[w] # "idle"
      BY <2>3 DEF RouteInfra, AtRouter
    <3>2. proposal'[w] \in Proposals
      BY <2>3, <3>1, Answers, PathsAllowed DEF RouteInfra, Proposals
    <3> QED
      BY <2>3, <3>1, <3>2, NoProposalAssumption DEF RouteInfra, Goto
  <2>4. CASE RouteService(w)
    <3>1. fault[w] \in Faults /\ stage[w] # "idle"
      BY <2>4 DEF RouteService, AtRouter
    <3>2. proposal'[w] \in Proposals
      BY <2>4, <3>1, Answers DEF RouteService, Proposals, ActionAllowlist
    <3> QED
      BY <2>4, <3>1, <3>2, NoProposalAssumption DEF RouteService, Goto
  <2>5. CASE RouteRejects(w)
    BY <2>5, BlockTyped DEF RouteRejects, AtRouter
  <2>6. CASE AttachVerdict(w)
    <3>1. fault[w] \in Faults /\ proposal[w] \in Proposals
      BY <2>6 DEF AttachVerdict
    <3>2. VerdictOf(w) \in {"none", "allow", "deny"}
      BY <3>1, Answers
    <3>3. [proposal[w] EXCEPT !.verdict = VerdictOf(w)] \in Proposals
      BY <3>1, <3>2 DEF Proposals
    <3>4. proposal' = [proposal EXCEPT ![w] = [proposal[w] EXCEPT !.verdict = VerdictOf(w)]]
      BY <2>6 DEF AttachVerdict
    <3> QED
      BY <2>6, <3>3, <3>4, NoProposalAssumption DEF AttachVerdict, Goto
  <2>7. CASE SandboxRaises(w)
    BY <2>7, BlockTyped DEF SandboxRaises
  <2>8. CASE Vet(w)
    BY <2>8, BlockTyped DEF Vet, Goto
  <2>9. CASE Evaluate(w)
    BY <2>9, BlockTyped DEF Evaluate, Goto
  <2>10. CASE Return(w)
    BY <2>10 DEF Return, Goto
  <2>11. CASE EmitIntent(w)
    BY <2>11 DEF EmitIntent, Goto
  <2>12. CASE PushPhase(w)
    BY <2>12 DEF PushPhase, Goto, BmoPhases
  <2>13. CASE FollowTask(w)
    BY <2>13 DEF FollowTask, Goto
  <2> QED
    BY <1>2, <2>1, <2>2, <2>3, <2>4, <2>5, <2>6, <2>7, <2>8, <2>9, <2>10, <2>11,
       <2>12, <2>13 DEF Advance
<1>3. CASE SwitchCrisis
  BY <1>3 DEF SwitchCrisis
<1>4. CASE UNCHANGED vars
  BY <1>4 DEF vars
<1> QED
  BY <1>1, <1>2, <1>3, <1>4 DEF Next
------------------------------------------------------------------------------
(* The stages *)

\* The step leaves what walk u has and has done alone.
SameWalk(u) ==
  /\ stage'[u] = stage[u] /\ backend'[u] = backend[u] /\ fault'[u] = fault[u]
  /\ proposal'[u] = proposal[u] /\ bmo'[u] = bmo[u]
  /\ u \in dispatches' <=> u \in dispatches
  /\ u \in audits' <=> u \in audits
  /\ u \in intents' <=> u \in intents

LEMMA SameWalkKeepsInv ==
  ASSUME NEW u \in Walks, WalkInv(u), SameWalk(u)
  PROVE  WalkInv(u)'
  BY DEF WalkInv, SameWalk, VerdictOf, HasStub, StubOf

\* A walk's own steps do not touch another walk: they share only the switch.
LEMMA WalksAreApart ==
  ASSUME Typed, NEW w \in Walks, NEW u \in Walks, u # w, Receive(w) \/ Advance(w)
  PROVE  SameWalk(u)
<1> USE DEF SameWalk, Goto, Block, Typed, TypeOK
<1>1. CASE Receive(w)
  BY <1>1 DEF Receive
<1>2. CASE Classify(w) \/ AssistAmbiguity(w) \/ RouteRejects(w) \/ SandboxRaises(w)
  BY <1>2 DEF Classify, AssistAmbiguity, RouteRejects, SandboxRaises
<1>3. CASE RouteInfra(w) \/ RouteService(w)
  BY <1>3 DEF RouteInfra, RouteService
<1>4. CASE AttachVerdict(w)
  BY <1>4 DEF AttachVerdict
<1>5. CASE Vet(w) \/ Evaluate(w)
  BY <1>5 DEF Vet, Evaluate
<1>6. CASE Return(w) \/ EmitIntent(w) \/ PushPhase(w) \/ FollowTask(w)
  BY <1>6 DEF Return, EmitIntent, PushPhase, FollowTask
<1> QED
  BY <1>1, <1>2, <1>3, <1>4, <1>5, <1>6 DEF Advance

\* A walk that is blocked or left for review gives up every claim it had.
LEMMA StoppedKeepsInv ==
  ASSUME Typed, NEW w \in Walks, WalkInv(w), stage[w] \notin After \cup {"idle"},
         \/ Block(w)
         \/ /\ Goto(w, "review")
            /\ UNCHANGED <<crisis, backend, fault, proposal, dispatches, audits, intents, bmo>>
  PROVE  WalkInv(w)'
<1>1. /\ stage'[w] \in {"blocked", "review"}
      /\ UNCHANGED <<backend, fault, proposal, dispatches, audits, intents, bmo>>
  BY DEF Block, Goto, Typed, TypeOK
<1> QED
  BY <1>1 DEF WalkInv, After, Before, VerdictOf, HasStub, StubOf

LEMMA InitInv == Init => IInv
<1> SUFFICES ASSUME Init PROVE IInv
  OBVIOUS
<1>1. ASSUME NEW w \in Walks PROVE WalkInv(w)
  <2>1. /\ stage[w] = "idle" /\ backend[w] = "walker" /\ proposal[w] = NoProposal
        /\ bmo[w] = 0 /\ dispatches = {} /\ audits = {} /\ intents = {}
    BY DEF Init
  <2> QED
    BY <2>1 DEF WalkInv, Before, After
<1> QED
  BY <1>1, InitTyped DEF IInv

LEMMA RouteKeepsInv ==
  ASSUME Typed, NEW w \in Walks, WalkInv(w), RouteInfra(w) \/ RouteService(w)
  PROVE  WalkInv(w)'
<1>1. fault[w] \in Faults /\ stage[w] \in Before \ {"idle"}
  BY DEF RouteInfra, RouteService, AtRouter, Typed, TypeOK, Before
<1>2. /\ stage'[w] = "routed" /\ proposal'[w] \in Proposals
      /\ proposal'[w].match = RCA[fault[w]].match /\ proposal'[w].layer = RoutedLayer(w)
      /\ UNCHANGED <<backend, fault, audits, intents, bmo>>
  <2>1. CASE RouteInfra(w)
    BY <1>1, <2>1, Answers, PathsAllowed DEF RouteInfra, Goto, Typed, TypeOK, Proposals
  <2>2. CASE RouteService(w)
    BY <1>1, <2>2, Answers DEF RouteService, Goto, Typed, TypeOK, Proposals, ActionAllowlist
  <2> QED
    BY <2>1, <2>2
<1>3. backend[w] = "graph" => /\ RCA[fault[w]].match \in TaxonomyIds
                              /\ RoutedLayer(w) = CanonicalLayer(RCA[fault[w]].match)
  BY DEF RouteInfra, RouteService, AtRouter, WalkInv, Authorized, Normalized, RoutedLayer
<1>4. w \in dispatches' => RCA[fault[w]].match \in InfraIds
  BY <1>1, PathsAllowed DEF RouteInfra, RouteService, WalkInv
<1>5. w \notin audits /\ w \notin intents /\ ~(bmo[w] > 0)
  BY <1>1 DEF WalkInv, Before, After
<1> QED
  BY <1>2, <1>3, <1>4, <1>5, NoProposalAssumption DEF WalkInv, Before, After

LEMMA VerdictKeepsInv ==
  ASSUME Typed, NEW w \in Walks, WalkInv(w), AttachVerdict(w)
  PROVE  WalkInv(w)'
<1>1. proposal[w] \in Proposals
  BY DEF AttachVerdict, Typed, TypeOK
<1>2. /\ stage'[w] = "sandboxed"
      /\ proposal'[w] = [proposal[w] EXCEPT !.verdict = VerdictOf(w)]
      /\ UNCHANGED <<backend, fault, dispatches, audits, intents, bmo>>
  BY DEF AttachVerdict, Goto, Typed, TypeOK
<1>3. /\ proposal'[w] \in Proposals /\ proposal'[w].verdict = VerdictOf(w)
      /\ proposal'[w].match = proposal[w].match /\ proposal'[w].layer = proposal[w].layer
  <2>1. VerdictOf(w) \in {"none", "allow", "deny"}
    BY FaultKnown, Answers DEF AttachVerdict
  <2> QED
    BY <1>1, <1>2, <2>1 DEF Proposals
<1>4. w \notin audits /\ w \notin intents /\ ~(bmo[w] > 0) /\ proposal[w] # NoProposal
  BY DEF WalkInv, After, AttachVerdict
<1> QED
  BY <1>2, <1>3, <1>4, NoProposalAssumption
  DEF WalkInv, Before, After, VerdictOf, HasStub, StubOf

LEMMA EvaluateKeepsInv ==
  ASSUME Typed, NEW w \in Walks, WalkInv(w), Evaluate(w), Admissible(w)
  PROVE  WalkInv(w)'
<1>1. /\ stage[w] = "vetting" /\ stage'[w] = "audited" /\ w \in audits'
      /\ UNCHANGED <<crisis, backend, fault, proposal, dispatches, intents, bmo>>
  BY DEF Evaluate, Goto, Typed, TypeOK
<1> QED
  BY <1>1 DEF WalkInv, Before, After, Admissible, VerdictOf, HasStub, StubOf

LEMMA ActuationKeepsInv ==
  ASSUME Typed, NEW w \in Walks, WalkInv(w),
         Return(w) \/ EmitIntent(w) \/ PushPhase(w) \/ FollowTask(w)
  PROVE  WalkInv(w)'
<1> USE DEF WalkInv, Before, After, VerdictOf, HasStub, StubOf, Goto, Typed, TypeOK
<1>1. CASE Return(w)
  BY <1>1 DEF Return
<1>2. CASE EmitIntent(w)
  BY <1>2 DEF EmitIntent
<1>3. CASE PushPhase(w)
  BY <1>3 DEF PushPhase
<1>4. CASE FollowTask(w)
  BY <1>4 DEF FollowTask
<1> QED
  BY <1>1, <1>2, <1>3, <1>4

LEMMA OwnStepKeepsInv ==
  ASSUME Typed, NEW w \in Walks, WalkInv(w), Receive(w) \/ Advance(w)
  PROVE  WalkInv(w)'
<1>1. CASE Receive(w)
  <2>1. /\ stage[w] = "idle" /\ stage'[w] = "received"
        /\ UNCHANGED <<proposal, dispatches, audits, intents, bmo>>
    BY <1>1 DEF Receive, Goto, Typed, TypeOK
  <2> QED
    BY <2>1 DEF WalkInv, Before, After
<1>2. CASE Classify(w)
  <2>1. CASE Authorized(RCA[fault[w]])
    <3>1. /\ stage[w] = "received" /\ stage'[w] = "classified" /\ backend[w] = "graph"
          /\ UNCHANGED <<backend, fault, proposal, dispatches, audits, intents, bmo>>
      BY <1>2, <2>1 DEF Classify, Goto, Typed, TypeOK
    <3> QED
      BY <2>1, <3>1 DEF WalkInv, Before, After
  <2>2. CASE ~Authorized(RCA[fault[w]])
    BY <1>2, <2>2, StoppedKeepsInv DEF Classify, After
  <2> QED
    BY <2>1, <2>2
<1>3. CASE AssistAmbiguity(w) \/ RouteRejects(w) \/ SandboxRaises(w)
  BY <1>3, StoppedKeepsInv
  DEF AssistAmbiguity, RouteRejects, AtRouter, SandboxRaises, After
<1>4. CASE RouteInfra(w) \/ RouteService(w)
  BY <1>4, RouteKeepsInv
<1>5. CASE AttachVerdict(w)
  BY <1>5, VerdictKeepsInv
<1>6. CASE Vet(w)
  <2>1. CASE crisis
    BY <1>6, <2>1, StoppedKeepsInv DEF Vet, After
  <2>2. CASE ~crisis
    <3>1. /\ stage[w] = "sandboxed" /\ stage'[w] = "vetting"
          /\ UNCHANGED <<backend, fault, proposal, dispatches, audits, intents, bmo>>
      BY <1>6, <2>2 DEF Vet, Goto, Typed, TypeOK
    <3> QED
      BY <3>1 DEF WalkInv, Before, After, VerdictOf, HasStub, StubOf
  <2> QED
    BY <2>1, <2>2
<1>7. CASE Evaluate(w)
  <2>1. CASE Admissible(w)
    BY <1>7, <2>1, EvaluateKeepsInv
  <2>2. CASE ~Admissible(w)
    BY <1>7, <2>2, StoppedKeepsInv DEF Evaluate, After
  <2> QED
    BY <2>1, <2>2
<1>8. CASE Return(w) \/ EmitIntent(w) \/ PushPhase(w) \/ FollowTask(w)
  BY <1>8, ActuationKeepsInv
<1> QED
  BY <1>1, <1>2, <1>3, <1>4, <1>5, <1>6, <1>7, <1>8 DEF Advance

LEMMA NextInv == IInv /\ [Next]_vars => IInv'
<1> SUFFICES ASSUME IInv, [Next]_vars PROVE IInv'
  OBVIOUS
<1>1. Typed /\ Typed'
  BY NextTyped DEF IInv
<1>2. ASSUME NEW w \in Walks, Receive(w) \/ Advance(w), NEW u \in Walks PROVE WalkInv(u)'
  <2>1. CASE u = w
    BY <1>2, <2>1, OwnStepKeepsInv DEF IInv
  <2>2. CASE u # w
    BY <1>2, <2>2, WalksAreApart, SameWalkKeepsInv DEF IInv
  <2> QED
    BY <2>1, <2>2
<1>3. ASSUME SwitchCrisis \/ UNCHANGED vars, NEW u \in Walks PROVE WalkInv(u)'
  <2>1. SameWalk(u)
    BY <1>3 DEF SwitchCrisis, vars, SameWalk
  <2> QED
    BY <2>1, SameWalkKeepsInv DEF IInv
<1> QED
  BY <1>1, <1>2, <1>3 DEF IInv, Next
------------------------------------------------------------------------------
(* The properties *)

\* The inductive invariant holds of every behaviour of the pipeline.
THEOREM Invariance == Spec => []IInv
  BY InitInv, NextInv, PTL DEF Spec

\* Every variable holds what the code stores in it, in every reachable state.
THEOREM TypesHold == Spec => []TypeOK
<1>1. IInv => TypeOK
  BY DEF IInv, Typed
<1> QED
  BY Invariance, <1>1, PTL

\* guardrail.evaluate: no AuditEvent without the twin's consent, a known fault
\* and a blast radius within the caps.
THEOREM AuditsAreVetted == Spec => []AuditsPassedEveryGate
<1>1. IInv => AuditsPassedEveryGate
  BY DEF IInv, Typed, TypeOK, WalkInv, AuditsPassedEveryGate, VerdictOf, After
<1> QED
  BY Invariance, <1>1, PTL

\* normalize_rca_with_taxonomy and route: no RCA crosses the infra and service
\* boundary through the taxonomy graph.
THEOREM BoundaryHolds == Spec => []GraphKeepsTheBoundary
<1>1. IInv => GraphKeepsTheBoundary
  BY FaultKnown DEF IInv, WalkInv, GraphKeepsTheBoundary, Before
<1> QED
  BY Invariance, <1>1, PTL

\* bench.runner: a firmware phase comes after the audit and after the notice to
\* the partner SMO.
THEOREM FirmwareIsAnnounced == Spec => []FirmwareFollowsAuditAndNotice
<1>1. IInv => FirmwareFollowsAuditAndNotice
  BY DEF IInv, Typed, TypeOK, WalkInv, FirmwareFollowsAuditAndNotice, After
<1> QED
  BY Invariance, <1>1, PTL
------------------------------------------------------------------------------
(* The pipeline implements the gate *)

Status == [w \in Walks |-> StatusOf(w)]
Acted  == intents \cup {w \in Walks : bmo[w] > 0}

\* A step that moves no walk across the gate, nor acts, nor opens a request, nor
\* touches the switch, is a stutter of the gate.
LEMMA Inside ==
  ASSUME Typed, Typed', NEW w \in Walks, Receive(w) \/ Advance(w),
         UNCHANGED <<crisis, fault>>, StatusOf(w)' = StatusOf(w), Acted' = Acted
  PROVE  UNCHANGED Gate!gateVars
<1>1. ASSUME NEW u \in Walks PROVE StatusOf(u)' = StatusOf(u)
  BY <1>1, WalksAreApart DEF SameWalk, StatusOf
<1>2. Status' = Status
  BY <1>1 DEF Status
<1> QED
  BY <1>2 DEF Gate!gateVars, Status, Acted

\* A step of a walk whose status does change.
LEMMA Moves ==
  ASSUME Typed, Typed', NEW w \in Walks, Receive(w) \/ Advance(w)
  PROVE  Status' = [Status EXCEPT ![w] = StatusOf(w)']
<1>1. ASSUME NEW u \in Walks, u # w PROVE StatusOf(u)' = StatusOf(u)
  BY <1>1, WalksAreApart DEF SameWalk, StatusOf
<1> QED
  BY <1>1 DEF Status

\* A walk that raises, or waits for review, is refused.
LEMMA Refusal ==
  ASSUME Typed, Typed', NEW w \in Walks, Advance(w), stage[w] \notin After \cup Ended \cup {"idle"},
         stage'[w] \in {"review", "blocked"}, UNCHANGED <<crisis, fault, intents, bmo>>
  PROVE  Gate!Refuse(w)
<1>1. StatusOf(w)' = "refused" /\ StatusOf(w) \in {"open", "vetting"}
  BY DEF StatusOf, After, Ended, Typed, TypeOK, Stages
<1>2. Status' = [Status EXCEPT ![w] = "refused"]
  BY <1>1, Moves
<1>3. fault[w] # NoFault
  BY FaultKnown, RemediationAssumption
<1> QED
  BY <1>1, <1>2, <1>3 DEF Gate!Refuse, Status

LEMMA OwnStepIsGateStep ==
  ASSUME IInv, IInv', NEW w \in Walks, Receive(w) \/ Advance(w)
  PROVE  [Gate!Next]_(Gate!gateVars)
<1> Typed /\ Typed' /\ WalkInv(w)
  BY DEF IInv
<1> USE DEF Goto, Typed, TypeOK
<1> DEFINE Quiet == UNCHANGED <<crisis, fault>> /\ StatusOf(w)' = StatusOf(w) /\ Acted' = Acted
<1> DEFINE Stops == /\ stage[w] \notin After \cup Ended \cup {"idle"}
                    /\ stage'[w] \in {"review", "blocked"}
                    /\ UNCHANGED <<crisis, fault, intents, bmo>>
<1>1. CASE Receive(w)
  <2>1. PICK f \in Faults : fault' = [fault EXCEPT ![w] = f]
    BY <1>1 DEF Receive
  <2>2. StatusOf(w) = "open" /\ StatusOf(w)' = "open" /\ fault[w] = NoFault
    BY <1>1 DEF Receive, StatusOf
  <2>3. Status' = Status
    BY <1>1, <2>2, Moves, ZenonT(30) DEF Status
  <2>4. UNCHANGED <<crisis, Acted>>
    BY <1>1 DEF Receive, Acted
  <2>5. Gate!Open(w)
    BY <2>1, <2>2, <2>3, <2>4 DEF Gate!Open, Status, Acted
  <2> QED
    BY <2>5 DEF Gate!Next
<1>2. CASE Stops /\ Advance(w)
  BY <1>2, Refusal DEF Gate!Next
<1>3. CASE Quiet /\ Advance(w)
  BY <1>3, Inside
<1>4. CASE Classify(w) \/ AssistAmbiguity(w) \/ RouteRejects(w) \/ SandboxRaises(w)
  <2>1. Advance(w) /\ (Quiet \/ Stops)
    BY <1>4 DEF Advance, Classify, AssistAmbiguity, RouteRejects, AtRouter, SandboxRaises,
                Block, StatusOf, After, Ended, Acted
  <2> QED
    BY <2>1, <1>2, <1>3
<1>5. CASE RouteInfra(w) \/ RouteService(w) \/ AttachVerdict(w)
  <2>1. Advance(w) /\ Quiet
    BY <1>5 DEF Advance, RouteInfra, RouteService, AtRouter, AttachVerdict, StatusOf, Acted
  <2> QED
    BY <2>1, <1>3
<1>6. CASE Vet(w)
  <2>1. CASE crisis
    BY <1>2, <1>6, <2>1 DEF Advance, Vet, Block, After, Ended
  <2>2. CASE ~crisis
    <3>1. StatusOf(w) = "open" /\ StatusOf(w)' = "vetting" /\ fault[w] # NoFault
      BY <1>6, <2>2, FaultKnown, RemediationAssumption DEF Vet, StatusOf
    <3>2. Status' = [Status EXCEPT ![w] = "vetting"] /\ UNCHANGED <<crisis, fault, Acted>>
      BY <1>6, <2>2, <3>1, Moves DEF Advance, Vet, Acted
    <3>3. Gate!StartVetting(w)
      BY <2>2, <3>1, <3>2 DEF Gate!StartVetting, Status, Acted
    <3> QED
      BY <3>3 DEF Gate!Next
  <2> QED
    BY <2>1, <2>2
<1>7. CASE Evaluate(w)
  <2>1. CASE ~Admissible(w)
    BY <1>2, <1>7, <2>1 DEF Advance, Evaluate, Block, After, Ended
  <2>2. CASE Admissible(w)
    <3>1. StatusOf(w) = "vetting" /\ StatusOf(w)' = "audited"
      BY <1>7, <2>2 DEF Evaluate, StatusOf
    <3>2. Status' = [Status EXCEPT ![w] = "audited"] /\ UNCHANGED <<crisis, fault, Acted>>
      BY <1>7, <2>2, <3>1, Moves DEF Advance, Evaluate, Acted
    <3>3. /\ fault[w] \in Faults /\ Stub[fault[w]] # NoStub
          /\ Stub[fault[w]].verdict = "allow" /\ WithinCaps(Stub[fault[w]].blast)
      BY <1>7, <2>2, FaultKnown DEF Evaluate, Admissible, WalkInv, VerdictOf, HasStub, StubOf, After
    <3>4. Gate!Admit(w)
      BY <3>1, <3>2, <3>3 DEF Gate!Admit, Status, Acted
    <3> QED
      BY <3>4 DEF Gate!Next
  <2> QED
    BY <2>1, <2>2
<1>8. CASE Return(w) \/ FollowTask(w)
  <2>1. Advance(w) /\ Quiet
    BY <1>8 DEF Advance, Return, FollowTask, StatusOf, Acted
  <2> QED
    BY <2>1, <1>3
<1>9. CASE EmitIntent(w) \/ PushPhase(w)
  <2>1. /\ StatusOf(w) = "audited" /\ StatusOf(w)' = "audited"
        /\ UNCHANGED <<crisis, fault>>
    BY <1>9 DEF EmitIntent, PushPhase, StatusOf
  <2>2. Status' = Status
    BY <1>9, <2>1, Moves DEF Advance, Status
  <2>3. Acted' = Acted \cup {w}
    BY <1>9 DEF EmitIntent, PushPhase, Acted, BmoPhases
  <2>4. Gate!Act(w)
    BY <2>1, <2>2, <2>3 DEF Gate!Act, Status, Acted
  <2> QED
    BY <2>4 DEF Gate!Next
<1> QED
  BY <1>1, <1>4, <1>5, <1>6, <1>7, <1>8, <1>9 DEF Advance

\* The pipeline implements the gate: every run of it, seen through the statuses,
\* is a run of RemediationGate.
THEOREM PipelineKeepsGate == Spec => KeepsGate
<1>1. Init => Gate!Init
  BY DEF Init, Gate!Init, StatusOf
<1>2. IInv /\ IInv' /\ [Next]_vars => [Gate!Next]_(Gate!gateVars)
  <2> SUFFICES ASSUME IInv, IInv', [Next]_vars PROVE [Gate!Next]_(Gate!gateVars)
    OBVIOUS
  <2>1. CASE \E w \in Walks : Receive(w) \/ Advance(w)
    BY <2>1, OwnStepIsGateStep
  <2>2. CASE SwitchCrisis
    BY <2>2 DEF SwitchCrisis, Gate!SwitchCrisis, Gate!Next, StatusOf
  <2>3. CASE UNCHANGED vars
    BY <2>3 DEF vars, Gate!gateVars, StatusOf
  <2> QED
    BY <2>1, <2>2, <2>3 DEF Next
<1> QED
  BY <1>1, <1>2, Invariance, PTL DEF Spec, KeepsGate, Gate!Spec
==============================================================================
