# Verification of oran-agent-harness

TLA+ models of the control logic of this repository, the TLC configurations
that check them on small instances, and theorems about them whose proofs TLAPS
checks.  `PROJECT.json` holds the same information for tools: components, runs,
mutated forms, the map from definitions to source lines, findings, hazards and
theorems.

`HARNESS` below is `src/harness/runtime`, `SIM` is `src/5G_O-RAN_SIM`, and
`EMU` is `SIM/open-digital-platform-2_0/5G_Emulator_API`.

## 1. Inventory of the system

The repository is a research harness for agent-driven O-RAN remediation and the
emulated network it acts on.

| Part | State | Operations | Interacts with | Hard behaviour | What makes it correct |
|---|---|---|---|---|---|
| **Remediation pipeline** (`HARNESS`: walker, router, guardrail, taxonomy_graph; `SIM/bench/runner.py`) | one proposal per walk; the crisis flag | agents, classify, route, sandbox, evaluate, actuate | stub actuators (O2 IMS, Metal3, Redfish, TMF921 SMO), contracts in `src/harness` | walks run on the HTTP server's worker threads; the flag moves under them; effects (dispatch, intent, firmware) happen between the gates | nothing is audited, announced or flashed that a gate refused; the taxonomy decides which side a fault goes to; every walk ends |
| **VNF manager** (`EMU/etsi/nfv/vnfm.py`) | VNF instances, LCM operation occurrences | create, instantiate, terminate, delete; two background tasks | ZSM closed loop, clients | tasks check before a sleep and act after it | a VNF runs exactly on resources of its own; a COMPLETED operation has taken effect; operations end |
| **Near-RT RIC and E2 nodes** (`EMU/ran/ric/near_rt_ric.py`, `ran/du.py`, `ran/cu.py`) | subscriptions on both sides, xApps, report tasks | E2 setup, subscribe, delete, unregister xApp | HTTP between processes | lost and late answers, rival deletions, restarts of nodes, in-flight creations | both sides agree about a subscription, or the disagreement has a cause one can name; deletions are final |
| **O-Cloud accounting** (`EMU/etsi/o2/fake_cluster.py`, `o2_dms.py`) | allocation and placement list of each node, deployments, a gauge | deploy, scale, terminate | SMO, O2 IMS views | admission by the sum over nodes, placement by node; lists that scaling does not maintain | no node overcommitted, books agree with what is placed |
| **ZSM closed loop** (`EMU/etsi/zsm/closed_loop.py`) | loops and their tasks, actions, metrics | create, start, stop, observe, analyze, act | VNFM, service assurance, over HTTP | a loop re-created under its running task; cancellation in mid-action; statuses not read | one running task per loop, an action reported COMPLETED happened |
| **SMO orchestrator** (`EMU/etsi/o2/smo.py`) | workflows, intents | deployNf, scaleNf, terminateNf, deploy-and-configure | O2 IMS, O2 DMS, A1 | timeouts that hide a success, steps whose failure is not read | a request's outcome is what happened on the O-Cloud |
| **O2 IMS, notifications** (`EMU/etsi/o2/o2_ims.py`, `o_cloud_notification.py`) | inventory, alarms, subscriptions, event history | queries, alarms, subscribe, notify | cluster | the cluster singleton is per process; a history of bounded length | a subscriber's history is the newest events it asked for |
| **Non-RT RIC, A1, rApp SDK** (`EMU/ran/ric/non_rt_ric.py`, `a1_interface.py`, `rapp_sdk.py`) | policies at each hop, enrichment jobs, connection state | create, update, delete, stop; heartbeat | Near-RT RIC | a policy replaced or deleted while another call about it waits; answers that are late or lost | the hops hold the same policies |
| **xApp SDK** (`EMU/ran/ric/xapp_sdk.py`) | dictionary of subscriptions | start, stop, subscribe, control rounds | Near-RT RIC | a loop over a dictionary that changes between its awaits | SDK and RIC list the same subscriptions |
| **Service assurance** (`EMU/service_assurance`) | metric windows, cached indicators, anomalies, violations | collect, compute, detect, check, analyse | RAN and core metrics | three threads and clients over one cache, callbacks on the finding thread | an analysis sees what triggered it; a lasting breach is noticed |
| **RAN slicing** (`EMU/ran/slicing/oran_slicing.py`) | slices, subnets, PRB policies | create, delete, adopt, report | client | slices and subnets refer to each other; a report rounds what it compares | no reference dangles; a report is right but for the rounding |
| **PDU sessions** (`EMU/core_network/amf.py`, `smf.py`, `upf.py`) | UE contexts, SM contexts, PFCP sessions, one forwarding rule | register, create session, N4, restart | each other over blocking HTTP | two nested five-second limits; restarts with empty memory | the three agree on a session |
| **NRF, NSSF** (`nrf.py`, `nssf.py`) | profiles, tokens, slice configuration | register, patch, deregister, search, select | every function | two generations of interfaces on one dictionary; a ranked search cut at a limit | search and selection offer what is registered and allowed |
| **Authentication, registration** (`amf_nas.py`, `ausf.py`, `udm.py`; `protocols/nas/nas_5g.py`, `protocols/crypto/aka_5g.py`) | authentication contexts, registrations, keys, sequence numbers | authenticate, register, resynchronise, encode, decode | each other | replayed challenges; two dictionaries about one subscriber; optional elements | both ends derive and decode the same |
| **PCF, BSF, CHF** | decisions, bindings with their indexes, charging sessions and records | create, update, delete, charge | SMF, AF | any order of updates, several rating groups, an exhausted quota | rules have their QoS, indexes lead to bindings, charges add up |
| **EPC** (`mme.py`, `sgw.py`, `pgw.py`, `hss.py`) | UE contexts under four indexes, sessions, bearers, address pools | attach, detach, update, create and delete sessions | a client walks a UE through them | stale GUTIs, counters that follow sessions, requests that raise half-way | an index leads to the right UE or nowhere |
| **IMS, MRF** (`pcscf.py`, `icscf.py`, `scscf.py`, `ims_hss.py`, `mrf.py`) | registrations, contacts, S-CSCF pool; conferences, ports | REGISTER, assign, deregister; conference, transcode | S-CSCF waits for the HSS | a silent HSS counts as a success and may still act later; one state for all identities of a subscription | registrar and HSS agree; ports are in the pool or in one use |
| **SCP, NEF, N3IWF** | instances, circuit breakers; event subscriptions; tunnels and addresses | forward with retries; report; register | all functions | a success and a failure of two forwards about one breaker; reports posted before they are counted | a breaker counts, a quota ends |
| **Enhanced UPF, PFCP, NGAP transports** (`upf_enhanced.py`, `protocols/pfcp/pfcp.py`, `transport.py`, `protocols/sctp/sctp_transport.py`) | sessions, tunnels, pools; pending responses; readers | establish, modify, delete; send and wait; accept, receive | SMF, gNB | sequence numbers that lose bits; a reader replaced between header and body; updates that raise half-way | a response belongs to its request, frames come whole |
| **gNB, DU, CU** (`EMU/ran/gnb.py`, `du.py`, `cu.py`) | UE contexts and their ids, F1 contexts, RLC and PDCP numbers | initial UE message, set-up, hand-over, release; receive PDUs | AMF; each other | ids and statuses nobody compares; numbers wrap | messages reach the UE they name, SDUs come in order |
| **Trace log and lab wrappers** (`SIM/shared_trace/writer.py`, `src/macbook_lab/http_wrappers`) | one JSON-lines file per scenario, caches | append, read | all stubs | concurrent runs of one scenario, errors swallowed | a trace is the sequence of its run's steps |
| **IPsec, fronthaul, E2 service models, energy, MEC, OAM, SMO framework, security, UDR, SEPP** | dictionaries behind CRUD endpoints, encoders | many | each other over HTTP | sequential | see section 5 |
| **N6 firewall, dashboards, documents, scripts** | none of its own here | | | | |

The hazards of the code, each at its line and with the property that covers it
or the reason none does, are listed in `PROJECT.json` under `hazards`.

## 2. Modules

| Module | Models | Kind |
|---|---|---|
| `HarnessPolicy` | taxonomy, routing rule, allowlist and blast-radius caps, stubs | contracts as sets and functions |
| `RemediationGate` | what the guardrail promises | abstract specification |
| `Remediation` | the stages of walker, graph and bench for concurrent walks | specification; refines `RemediationGate` |
| `VNFM` | the VNF manager and its tasks | specification |
| `SubscriptionService` | what RIC and nodes promise about a subscription | abstract specification |
| `E2Subscriptions` | RIC, nodes and the network between them | specification; refines `SubscriptionService` |
| `OCloud` | resource accounting | specification |
| `LoopEngine` | what the ZSM engine promises of its loops | abstract specification |
| `ClosedLoop` | the ZSM engine's loops, tasks and actions | specification; refines `LoopEngine` |
| `PduSession` | AMF, SMF and UPF about a PDU session | specification |
| `NfRegistry`, `SliceSelection` | NRF registry and search; NSSF selection | specifications |
| `CoreRegistration` | NAS front end, AUSF, UDM about a subscriber | specification |
| `PolicyCharging` | decisions (PCF), bindings (BSF), charging (CHF) | specification |
| `Epc` | MME, SGW, PGW, HSS | specification |
| `Ims`, `MediaResource` | IMS registration; conferences and ports | specifications |
| `A1Policy`, `XappSdk` | policies over three hops; an xApp and the RIC | specifications |
| `SmoWorkflow` | the SMO's deployments; O2 IMS alarms and notifications | specification |
| `Assurance`, `Slicing` | assurance threads; slices and subnets | specifications |
| `Interworking` | SCP, NEF, N3IWF | specification |
| `UserPlane` | enhanced UPF, PFCP responses, the NGAP transports | specification |
| `Ran` | gNB contexts, F1 contexts, RLC and PDCP | specification |
| `NasCodec`, `PfcpCodec`, `Aka` | NAS and PFCP octets; 5G-AKA keys | algorithms, with one exchange as behaviour |
| `MC*` | small instances for TLC | model checking |
| `*_proofs` | inductive invariants and theorems | proofs |

### Remediation

`stage[w]` is the place of walk `w` in the code; a stage of the Python call chain
is an action: `Receive` (the stubbed agents), `Classify` and `AssistAmbiguity`
(nodes of the taxonomy graph), `RouteInfra`, `RouteService` and `RouteRejects`
(`router.route`), `AttachVerdict` and `SandboxRaises`
(`walker.sandbox_simulation`), `Vet` and `Evaluate` (`guardrail.evaluate`, in two
steps since the crisis flag is read first and once), then `EmitIntent`,
`PushPhase` and `FollowTask` (`bench.runner.run_scenario`) or `Return`.  Raising
is `Block`: what earlier stages did stays done.  `dispatches`, `audits`,
`intents` and `bmo` record the effects that leave the walk.  `SwitchCrisis` is
the kill switch.

The refinement mapping reads the gate's status off the stage (`StatusOf`),
`Passing` off the stubs and `acted` off intents and firmware phases; `KeepsGate`
states that the pipeline implements `RemediationGate` under it.

### VNFM

`lcm_op_occs` holds the operations, `instantiationState` and
`instantiatedVnfInfo` the VNFs.  `InstantiateVnf`, `TerminateVnf`,
`CreateVnfInstance` and `DeleteVnfInstance` are the handlers, which never await.
`StartInstantiation` is the task up to its sleep, `FinishInstantiation` and
`FinishTermination` the tasks after it, with the `KeyError` of a VNF deleted in
between as the failing alternative.  The sleeps' lengths are left out, so the
tasks wake in any order: an over-approximation of the event loop.

### E2Subscriptions

`object` holds the `RicSubscription` objects, `subscriptions` the ids the RIC's
dictionary lists, `call` where each coroutine stands (a call waits while its HTTP
request is out), `net` requests and answers on their way, `held` and `reporters`
the nodes' dictionaries and report tasks.  `StoreUnanswered` and
`DeleteUnanswered` are the `RequestError` (no connection, or a timeout): the
request can still be in `net` and reach the node later.  `UnregisterXapp`
schedules one deletion per listed subscription; `BeginDelete` is a client's
deletion or the event loop getting to a scheduled one.  `NodeRestarts` clears a
node's memory; an answer the node had sent before is still on its way.  `unanswered` and `dropped` are history: they name the two causes
for which the two sides may disagree.

`SubscriptionService` has neither calls nor messages: a subscription is requested,
listed and removed once; it is listed as active only if its node serves it, or lost it
in a crash (the answer may come after that); the deletion that removes it succeeds, any other fails; and what has gone is
served only after an answer went missing.  The mapping reads the phase off the
creation's call, the dictionary and the waiting deletions (`PhaseOf`), a deletion's
outcome off its call (`OutcomeOf`) and what is served off the nodes; a node's
restart is the service's crash.  `KeepsService` states the refinement.

### OCloud

`allocated_cpu`, `allocated_ram` and `placed` are the nodes' accounts and lists.
The allocation loop is modelled by what it arrives at (`FillsInOrder`), not
replica by replica.  `ScaleUp` places replicas without listing them and
`ScaleDown` releases from the first node that lists the deployment, as the code
does; `TerminateDeployment` releases by the lists.  `scaled` and `shrunk` are history:
the deployments that were scaled, and those scaled down.

### ClosedLoop

`version` and `state` hold the loop objects created under each id, `running` is
`_running_loops`, `task[t]` where a task's coroutine waits and which object it
has bound, `action` the actions.  `Begin` binds the object when the task first
runs, not when it is created.  `Observed` and `Answered` resume a task after its
calls and take it to its next await (`Proceed`), since nothing between two
awaits can be interrupted; `Cancelled` is the `CancelledError` that `stop_closed_loop`
has thrown into it.  Which intents ask for a scale-out is left open; the VNF
manager's answer is not modelled, as the code does not read its status.

`LoopEngine` has neither tasks nor objects: a loop that is on carries out one action
at a time and settles it before the next; to switch it off abandons the action under
way, which then is never settled.  A loop is on while `running` has a task for it,
and an action is abandoned once its task is cancelled (`ProgressOf`), before the task
notices.  `KeepsEngine` states the refinement.

### PduSession

`call[c]` is a session request with how far it has come at each function;
`AmfFree` and `SmfFree` say that a process that waits for its peer serves nothing
else.  `CreateSmContext` and `EstablishN4` also serve requests whose client has
given up.  `StartAmf`, `StartSmf` and `StartUpf` are starts and restarts, each
with the one discovery of the peer and an empty memory.

### NfRegistry, SliceSelection, CoreRegistration

`nfProfile` is what both generations of the NRF's interfaces write;
`RanksBefore` and `FindNfInstances` are the ranked search and its limit;
`LegacyDiscover` is the older one, which skips a profile without an endpoint and
compares the type in upper case, so that it never finds a gNodeB.  `SelectionIsSound`
is about the NSSF's choices over the built-in configuration.  In
`CoreRegistration` a handler of the NAS front end is one step with its whole
chain of blocking calls, wherever the chain ends.

### PolicyCharging, Epc

Stores that requests change in any order, with their secondary indexes and
counters as variables of their own: `RulesHaveTheirQos`, `BindingsFindable`,
`ChargesAddUp`, `MmeIndexesAgree`, `GatewaysAgree` and `NumbersLeadToOwners` relate the
two.  The CHF charges by volume and by time, while a group's used units count volume
only; usage reports are taken to be non-negative, and the total usage that a record
shows is the session's own dictionary, so it is no variable of its own.  At the
gateways the client names the bearers (`MaxEbi`), the same one twice included; a
session request that raises after some of its bearers leaves them counted, which
`sgwStray` and `pgwStray` record.

### Ims, MediaResource

A procedure of the S-CSCF waits at the HSS; `TimedOut` takes success for granted
and leaves the request on its way, `HssHandles` may come later.  The S-CSCF has a state
for each public identity, the HSS one for each subscription, whatever identities it
holds (`imsSub`).  `Operate` is the operator's interface of the HSS: a subscription created
takes over the index entries of its identities, one deleted removes them even when they
are another's by then.  `reconciled` is history: the identities settled by an exchange
that nothing overlapped, that the HSS answered and that nothing has touched since, be it
the operator or another identity of the subscription; `RegistrarsAgree` is about those.  In `MediaResource` every port is free or has one user.

### A1Policy, XappSdk, SmoWorkflow

Calls wait at a hop while its handler awaits the next one, and each hop's limit
may expire first: the peer then still acts.  History says which policies were
touched by two calls at once or by a call nobody answered.  `XappSdk` keeps the
dictionary of subscriptions as a sequence with holes (`EntryAt`), since Python's
iteration goes by position.  `SmoWorkflow` keeps O2 DMS's and the Non-RT RIC's truth
beside what the SMO has heard.

### Assurance, Slicing

The three monitor threads are actions that read what the others write;
`CheckThreshold` and `AnalyzeKqi` include the callback they run, up to the analysis.
`ComputeOver` is a client's request with a window of its own choosing, whose result
overwrites the cache that the SLA monitor reads; `HidesKqi` marks a result that is not what the
metrics give, and `OrchestrationProgresses` promises that a lasting breach is noticed only
where clients leave such results a finite number of times.
`Slicing` has a step per handler, as none awaits.  Throughputs are in hundredths of a
Mbit/s, since the report rounds what was achieved to tenths and the limit not:
`ReportsFollowTheLimit` says what it shows then.

### Interworking, UserPlane, Ran

Three groups each, with variables and a next-state relation of their own.  The
networks differ: SCP's calls fail or return in any order; PFCP's datagrams are
lost, repeated and reordered; a TCP connection only breaks; RLC PDUs are lost, repeated
and reordered without limit.

The SCP's configuration is taken as it is at the start, with the breaker enabled and
types in upper case, and a request names no service; its `retryEnabled` is never read by the
code.  `RoutingIsSound` says where calls go: to an instance registered under their type, or one that has left since
it was chosen (`parted`).  The NEF posts a report before it counts it, so
`QuotaIsKept` bounds the reports by the quota and those under way when it was used up.

In `UserPlane`, `AskForIpv6` is a session whose search for an IPv6 address never ends well
(`upf_enhanced.py:329`), after its IPv4 address was taken (`leaked`);
`ModifySessionRaises` is an update that changes a rule and raises before the enforcer hears of
it, and `apart` names the rules last changed without their entry, or the reverse.  The entry
holds the maximum rates only, as the update copies no others.  `enforce_qos` looks a tunnel's
id up among the keys of this table, which are session and rule, so that it never finds one:
the table is what the code keeps, and nothing in it is enforced.  A peer may also send a frame of no
legal length, at which the server closes the connection.

In `Ran` the AMF relays whatever pair of ids its caller names, and the gNB binds it
(`unpaired`).  The ids the AMF draws at random are taken as new ones.  Its contexts can also be
written through `/amf/ue/{ue_id}` and by the registration, under other keys, which is left out.  The DU takes any status of the CU for success
(`refusedUes`).  RLC numbers wrap under PDUs that are still on their way.

### NasCodec, PfcpCodec, Aka

The codecs are octet sequences and operators over them; one message is encoded
and decoded, with every optional part present and absent.  `DecodeMessage` is `decode_message`,
which the peer runs: of a registration it tells key set and type, of an authentication
response RES*, of any other message the type.  `DecodeRegistrationRequest` is the message
class's own decoder, which reads the rest.  `Understood` is about the first, `Recovered`
about the second, and `DecodeInvertsEncode` states both.  `PfcpCodec` writes a
message as the tree of its elements.  `NotDecoded` stands for the exception of a NAS
decoder, on octets that are missing or on a value its enumeration does not have; `NotDecodedAssumption` keeps it apart from what a decoder returns.  The
readings are recursive functions of the octet's place, one step for each turn of the
code's loops.  `Aka`'s functions are symbolic: two results
are equal exactly when their inputs are.

### MCCloud, MCCore, MCOrchestration, MCAccess

Groups of modules that share no state and exchange no messages.  Their product
would only interleave steps that commute, so `focus` picks one group per
behaviour and the others rest in an initial state.  An invariant of these modules
is a conjunction with a part for each group, named in the group's own module;
it says nothing of a group that rests.  `MCCloud` does the same with `VNFM`, `OCloud` and
`ClosedLoop` and checks their properties one by one.

## 3. Runs

| Run | Instance | Asks | Answer |
|---|---|---|---|
| `Remediation` | 2 walks, 12 faults, each with its own way through the gates | `TypeOK`, `AuditsPassedEveryGate`, `GraphKeepsTheBoundary`, `FirmwareFollowsAuditAndNotice`, `WalksEnd`, `KeepsGate` | hold |
| `SandboxBeforeDispatch` | same | does the sandbox precede the dispatch? | no |
| `Cloud` | 2 VNFs, 3 operations; 2 nodes, 2 shapes, 3 deployments, up to 2 replicas; 1 loop id, 2 objects, 3 tasks, 2 actions | `VnfmTypeOK`, `RunsOnOwnResources`, `OutcomesTakeEffect`, `OperationsEnd`; `TypeOK`, `NeverOvercommitted`, `BooksBalanceUntilScaled`, `GaugeCoversRunning`; `LoopTypeOK`, `OneTaskPerLoop`, `StoppedLoopsFallSilent`, `LoopsKeepObserving`, `KeepsEngine` | hold |
| `NoDoubleInstantiation` | same | is a running VNF never instantiated over? | it is |
| `AvailableWithinTotal` | same | is available never more than total? | it can be |
| `E2Subscriptions` | 1 node, 1 xApp, 2 subscriptions, 1 restart | `TypeOK`, `ActiveIsHeld`, `HeldIsKnown`, `CleanupCompletes`, `KeepsService` | hold |
| `Core` | 2 UEs, 2 session calls, 2 restarts; 2 NFs; 3 bindings; 2 IMSIs, 3 bearers; 3 REGISTERs of 2 identities; 3 ports | `SessionInv`, `RegistrationInv`, `PolicyInv`, `EpcInv`, `ImsInv`, `MediaInv`, `CreateCallsEnd`, `RegistersEnd` | hold |
| `Orchestration` | 1 policy and 2 calls; 2 SMO requests; 3 subscriptions and a control round; a window of 2; 2 slices | `PolicyAgreement`, `ReportsAreTrue`, `SubscriptionsInv`, `OrchestrationProgresses` | hold |
| `Access` | 2 instances and 2 forwards; 2 UPF sessions; 3 PFCP calls; 2 connections; 3 UEs; 5 RLC SDUs over 4 numbers; 2 subscribers and 2 networks; NAS and PFCP messages | `InterworkingInv`, `UserPlaneInv`, `RanInv`, `BothSidesAgree` | hold |
| `ResponseIsToTheRequest` | same | is what PFCP returns the response to the request? | not always |
| `MessagesAreFramed` | same | is what the TCP fallback receives always the body of a frame? | not with a second connection |
| `DeliveredInSequence` | same | does RLC hand SDUs on in the order they were sent? | not when the numbers wrap |

Why these bounds are enough.  Two walks interleave every pair of stages, and a
walk reads no state of another one, so a third adds no new pair.  Three
operations let two of one VNF race each other while a third races on it or on
the second VNF.  Two subscriptions tell apart a call about one from a call about the other;
rival deletions, a creation in flight and a restart all need one only.  Two
nodes and two shapes, one bound by vCPUs and one by memory, leave gaps that
admission counts and placement cannot use, and let a deployment span nodes.
Two objects under one loop id are the replaced and the replacing one; three tasks
are one being cancelled, one running and one to come; loops share nothing.

In `Core`, two calls let one be late while the other is served, and two restarts
let two functions, or one twice, lose what they knew; a third REGISTER meets the
answer the second one missed.  In `Orchestration` two calls about one policy, or two
slices about one subnet, are the conflict; three subscriptions are the least for a
control round to skip one.  In `Access`, PFCP numbers run from 254 to 256, across
the change of the key; five SDUs use one of four RLC numbers twice, more
than the window of two, so that one can be taken for the other; the octets are two element identifiers, so that
values look like elements.  In `Core`, three EBIs and as many bearers let a client name
the default bearer, leave it out, or name one twice, and a later bearer take the id after
the highest; the two public identities share one
subscription or have none; three megabytes or minutes are reported in up to three steps.  In
`Orchestration`, promises and limits of 0.10, 0.14 and 0.20 Mbit/s fall on both sides of a
rounding.

`PROJECT.json` lists for each property of each run a mutated form of the code that breaks it
(those marked "mutated form" beside the definition they change).  The parts of a composed
invariant, type invariants aside, have each been seen violated by a change of their module.

Deadlock is checked for `Remediation`; as the crisis switch can always move, it is
`WalksEnd` that says no walk gets stuck.  The others draw ids from a bounded set and
really stop when it is used up, so their configurations switch the check off.

### Fairness

* `Remediation`: `WF(Advance(w))` for each walk, since a worker thread runs its
  request to the end.  No request is obliged to arrive.
* `Cloud`: `WF(Task(o))`, since the event loop wakes the VNF manager's sleeping tasks, and
  `WF(Step(t))`, since a loop's sleeps are finite, every HTTP call ends by httpx's default
  timeout and the event loop resumes what is ready.  The accounts need none.
* `E2Subscriptions`: a waiting call ends by its answer or by httpx's timeout, a
  scheduled deletion runs, a report task wakes from its sleep.  Neither network
  nor clients are fair: a request may be lost or be on its way for ever.
* `Core`: the calls of a PDU session and of a REGISTER are weakly fair: both ends of
  each have a limit of five seconds and the processes serve what is queued.
* `Orchestration`: weak fairness of the SMO's and the xApp's calls (each has a limit),
  of the heartbeat and the assurance threads (loops that sleep a fixed time).  The
  rApp's stop is strongly fair, for a reason of the model's: its next call needs one
  of the bounded call slots, which others take and free again; the code has no such
  bound.
* `Access` states no liveness and assumes no fairness.

### Where code and documents disagree

Shown by a run:

1. `docs/4_dual_route_coordination_sequence.md:73` has the sandbox run before any
   external dispatch; `router.py:87` dispatches inside the router.
2. `vnfm.py:206` refuses a VNF that is instantiated, but checks before the sleep:
   two accepted instantiations both complete.
3. `fake_cluster.py:530-537` and `573-577` release the same replica twice, after
   which a node has more available than it has (`fake_cluster.py:38`).
4. `pfcp.py:1329` waits for the response to a message; the encoder puts the number
   into four octets (839-857) and both readers drop the lowest (876, 880, 1331), so
   256 numbers share one pending entry.
5. `sctp_transport.py:377-378` and 486 promise messages with framing; 434-437 replace the
   reader under a receive in progress when a second connection comes, so that it takes
   its header from one peer and its body from the other (492-504).
   `OneConnectionIsFramed` holds for one.
6. `du.py:285` speaks of delivering SDUs in sequence; the sender (242-270) does not
   wait for the window, so that a number used again puts one SDU in another's place (284-290).
   `RlcDeliversInOrder` says what is left of the order: in the i-th place comes the i-th SDU or one whole
   laps of numbers after it.

Seen while modelling, and modelled as the code has it, without a run of its own:

7. `talk/killswitch.md:37` has crisis mode revoke write access to O2 IMS; only
   the guardrail reads the switch, after the dispatch.
8. `near_rt_ric.py:401` stores an unanswered subscription "for retry"; nothing
   retries.  `near_rt_ric.py:587` cleans up an xApp's subscriptions, but misses one
   whose creation is in flight.
9. `closed_loop.py:173` takes a registered task for a running loop; a loop created
   again under its id leaves a task on the replaced object, or one that has ended.
10. `pfcp.py:838` speaks of a header of 16 octets; two spare ones make it 18 (10
    without a SEID), while `decode` reads 16 (8): `decode_message` takes the spare
    octets for an element of type 0 and the first element's type for its length.
    `PfcpReadBack` is therefore about the octets after the encoder's header.
11. `nas_5g.py:894-898` cannot decode the 5G-GUTI or the 5GSM header its encoders
    write; `DecodeInvertsEncode` leaves both out.
12. `sctp_transport.py:669-675` is a loop that never yields.
13. `rapp_sdk.py` expects 200 for an updated policy, which the Non-RT RIC answers
    with 201: the rApp counts its own success as a failure.
14. `nssf.py:728-754` stores an availability document into its own argument and
    always answers 500.
15. `du.py:229` reads a receive state that never moves, so that no more than the first
    window is ever handed on; `du.py:285` returns none of the SDUs that were.
16. `pgw.py` returns an address to a pool from which it never takes it again.
17. `fake_cluster.py:48` is a singleton per process: O2 IMS and O2 DMS see different
    clusters.
18. `nrf.py:684-686` compares a type with its value in upper case, so that the older search
    finds no gNodeB, whose value is not.
19. `ims_hss.py:632-651` keeps one state for all identities of a subscription: when one
    deregisters, the others stay registered at the S-CSCF only.
20. `upf_enhanced.py:329` lists the hosts of a /64 to take the first: a session with an IPv6
    address is never made, and its IPv4 address is lost; 788-798 change a rule before the
    rates are read, which may raise.
21. `oran_slicing.py:248-251` rounds what was measured and compares it with an unrounded promise.
22. `assurance_api.py:249-272` lets a client's window decide what the SLA monitor reads.
23. `amf.py:810-811` and `gnb.py:273-309` relay and bind any pair of ids; `du.py:604-609`
    reports what the CU refused as a success.

## 4. Theorems

Each theorem holds for every value of the constants that satisfies the module's
named assumptions.

* **`Remediation_proofs`**, from `RemediationAssumption` (faults, their RCAs and
  stubs are what the contracts allow) and `NoProposalAssumption`.  First
  `Typed`, then for each walk `WalkInv`: what the walk has done so far is
  what its stage says, e.g. a walk past the sandbox carries its stub's verdict and
  one past `Evaluate` is admissible.  The named properties do not say what a walk
  in between carries, so none is inductive alone.  A walk's step leaves the
  others' part untouched (`WalksAreApart`).  From it: `TypesHold`,
  `AuditsAreVetted`, `BoundaryHolds`, `FirmwareIsAnnounced`, and
  `PipelineKeepsGate`, the refinement, with one lemma for the steps inside a
  status and one for those that change it.
* **`E2Subscriptions_proofs`**, from `E2Assumption`.  The strengthening
  orders the calls of a subscription (`CallsInOrder`), ties every message on its way
  to a call (`MailIsCurrent`, one per creation: `AnsweredOnce`) and says what an
  acknowledgement tells of the node's entries (`AnswersAreTrue`).  Without it a late
  answer could make the RIC list what the node does not hold.  `DeletionsAreFinal` says
  of the two deletions what `DeletedStaysDeleted` does.  The refinement,
  `RicKeepsService`, has a lemma per action that names the service's step.  A positive answer
  can outlive the restart of the node that gave it: `AnswersAreTrue` is about
  subscriptions that no restart has dropped, and the service lets a creation end either way.
* **`Cloud_proofs`**, for two modules that share nothing.
  - `VNFM`, from `NoOpAssumption`: `VnfmTypeOK /\ RunsOnOwnResources` is inductive, as a
    running VNF points to an operation and a completed operation never changes.
    `CompletionIsEffect` is an action property by cases on the step.
  - `OCloud`, from `OCloudAssumption` and `NoDeploymentAssumption`.
    `TypeOK /\ AccountsFit` is inductive (`IInv`): a placement only uses nodes that fit, and a
    release takes off no less than nothing.  That the lists fit as well, until something is
    scaled down, follows from `AccountsCoverLists`: up to then an account is no less than what its
    list adds up to.  The books and the gauge are sums over
    sets of any finite size, written as recursive functions on sets, of which the provers
    know nothing.  `AdderExists` shows that a function with the defining equations exists,
    by looking at the smallest set for which none did; `AnyOfThem` that any element
    may be the one taken out first; `OneMore` and `OneLess` what a sum becomes when one
    value changes.  With them `BooksAlwaysBalanceUntilScaled` and
    `GaugeAlwaysCoversRunning` go by cases on the step.
* **`ClosedLoop_proofs`**, from `ClosedLoopAssumption`.  `OneTaskPerLoop` needs that a
  registered task is its loop's and not cancelled (`Registered`) and that a bound
  object was created (`Bound`), else a re-creation could switch it off under its
  task; `OpenActionsExplained` needs that a waiting task waits for an action of its
  own (`Awaited`).  The refinement, `TasksKeepEngine`, adds that every action has the
  task that began it (`Owned`) and that nobody else settles what a task waits for
  (`AwaitedIsOpen`); `UnderWayIsRegistered` then makes the action under way that of the
  registered task, so that a stop abandons it and no other.

* **`Core_proofs`**, from the assumptions of the modules `MCCore` composes, for the six
  invariants of the run.  Each function has an inductive invariant over its own
  variables; `CoreIInv` is their conjunction, which every state has, in focus or not.
  - `PduIInv`: `SessionsAgree` is not inductive, as a restart of the SMF makes orphans of
    sessions it listed, which some request has to explain.  `CallsInOrder` orders what the
    three functions do for a request, `InstalledByCall` says that some request
    installed what the UPF holds and was not undone since.
  - NRF: `OrderIsStrict`, the order of the dictionary as a relation; a ranked search that
    is cut at a limit then always has a first choice (`FiniteSetHasMinimum`).
  - BSF, CHF, PCF: `IndexPointsToHolders`, the QoS each rule names, and for the CHF
    `Balanced` (totals and groups), `RecordsFollow` (a record states what its session had come
    to) and `ChargesWithinUnits`.
  - EPC: `GutisLeadBack` (a GUTI is given out once; a stale one leads home or nowhere),
    `AddressesHeld` (addresses lie below the counter), `DefaultsKept` (EBI 5 is
    there exactly if the client asked for it) and `NewEbiIsFree`; `Accounted` counts bearers by
    cardinality, those of failed requests apart.
  - IMS: `AloneMeansUndisturbed` says what an undisturbed request knows of the HSS,
    `ReconciledMeansExplained` that no late change waits to be taken back, `IndexHolds` that the
    index leads to a subscription with the identity; by `OvertakenEffect` a change by another
    identity costs a request its quiet and nothing else.
  - MRF: `OnePlaceEach`: pool, members, inputs and outputs share no port.
* **`Orchestration_proofs`**, from the assumptions of the modules `MCOrchestration` composes,
  for its three invariants.
  - `A1IInv` says of each call how far it is at each hop (`CallSound`), and of each policy
    that both RICs agree or that a call, or one nobody answered, accounts for it.
  - `OutcomeIInv` says what a request of the SMO has done by each step (`SoFar`), and
    that an answer past the limit changes that request's call only; `OcnIInv` the
    history of notifications, `AssIInv` that an analysis saw what triggered it.
  - `SdkIInv` follows the xApp's owner through its life (`Registration`, `Dictionary`),
    the requests that can still arrive (`LateCalls`), both lists up to the call being
    answered (`BothSides`), and what a round of controls still owes (`RoundGoesOn`).
  - `SliceIInv`: `ParentsListThem`.
* **`Codec_proofs`**, from `PfcpCodecAssumption`, `NasAssumption` and
  `NotDecodedAssumption`.  The state is simple (`CodecIInv`, `NasIInv`: the wire is the
  encoding of the message, what was received the decoding of the wire); the work is in
  showing that decoding inverts encoding.  The decoders are recursive functions over the
  octets, which to the prover are some function with an equation, if there is one.
  - `RecursionHasSolution`: there is one whenever every call lowers a bounded measure, for
    among the measures up to which no function meets the equation none is least.
    `SplitEquation`, `NssaiEquation`, `ElementsEquation` and `ResEquation` are its uses;
    what they need of the code is that every branch of a loop moves on.
  - `Holds` says where a run of octets stands in a longer one, `InTurn` that several stand
    one after the other; `ShortRead` and `LongRead` that a number is read from the octets
    it was packed into, `NibblesRead` the same of two digits in one octet.
  - PFCP: `SplitInverts` finds any elements again whose types and lengths fit 16 bits, by
    going back from the end of the octets; `SplitDeepInvertsContent` the trees that
    groups make of them, whose sizes it bounds; `MessagesShaped` that every message
    consists of such trees, the F-SEID, the F-TEIDs and the node ids in the places
    where the readers look.  With `HeaderIsFound`: `CodecImplies`.
  - NAS: each encoded part is decoded where it stands and leads to the octet after it
    (`SnssaiReadBack`, `CapabilityReadBack`, `NssaiReadBack`), so the loop over optional
    elements finds each part once (`ElementsReadBack`), whatever octets the parts hold.
    `RegistrationUnderstood` (by `decode_message` and by the class's decoder),
    `ResponseUnderstood` and `AcceptOctets` put the messages together: `NasImplies`.
* **`Access_proofs`**, from the assumptions of the modules `MCAccess` composes, for
  `InterworkingInv`, `UserPlaneInv`, `RanInv` and, by `Codec_proofs`, `BothSidesAgree`.
  - SCP: `BreakersCount` (a breaker counts the failures since its last success), `CallsReach`
    (where a call goes) and `IndexIsSound`; NEF: reports left, made and under way against the
    quota; N3IWF: no
    two addresses or ids alike, as both come from counters (`N3iwfIInv`).
  - `UpfIInv`: addresses, tunnels and rates each belong to one session, or are lost or apart; `PfcpIInv`: what is
    pending is a call that has not returned.
  - `NgapIInv`, `FallbackIInv`: what is on the wire continues what was read (`OnWire`).  The
    two transports share their variables, so each is claimed where it is in focus.
  - `GnbIInv` relates the gNB's and the AMF's ids, `F1IInv` the DU's and the CU's contexts;
    `RlcIInv` says that an SDU on its way carries its place as its number, whole laps aside,
    and that the receiver's number counts what it handed on.
  - `AkaIInv` says what a vector and an answer are made of; equal expected responses then
    come from equal inputs (`HresStarInjective`), hence equal keys (`KeysAgree`).

The theorems about the composed modules hold for any number of functions, subscribers and
calls, with the bounds the models name (`MaxGuti`, `MaxFrames` and so on) at any value.  Three
assumptions bound a number: `PfcpCodecAssumption` has the numbers in fields of 32 and 64
bits end at 2^31 - 1, as far as TLC counts; `XappSdkAssumption` has at most five subscriptions, since
beyond that Python moves a dictionary's entries and `EntryAt` would have to follow them,
and `UserPlaneAssumption` has `MaxSeq` below 2^24, where the counter of PFCP numbers
starts again.

The codecs' lemmas follow the decoders over what was encoded; of octets that no encoder
made they only say that the reading moves on.

Left to TLC:

* liveness, which needs fairness and ENABLED: `WalksEnd`, `OperationsEnd`,
  `CleanupCompletes`, `StoppedLoopsFallSilent`, `LoopsKeepObserving`, `CreateCallsEnd`,
  `RegistersEnd`, `OrchestrationProgresses`.

Every other property of a passing run is stated by a theorem.

## 5. Not modelled

Of the components modelled in part, what `PROJECT.json` names with each: mainly
handover and mobility of UEs between cells, session set-up of the IMS (INVITE and BYE),
E2 indications and control beyond the xApp's round, a restart of the Near-RT RIC (it
loses everything and the nodes sign on no more), the contents of intents, rules and
notifications, and the real AES and HMAC.

Left out as a whole, with the reason:

* the trace log (text nothing in the program reads back; concurrent runs of one scenario append
  to one file without a lock, and an append that fails is swallowed), the PTP stub and the LLM
  client (canned records, an answer no decision uses);
* UDR, SEPP, database and launcher of the core: document stores behind CRUD
  endpoints with no rule that relates two of them, header rewriting, a process
  launcher;
* IPsec and the post-quantum code: computations whose result library functions decide;
* fronthaul, E2 service models, Y1: layouts and random measurements; subscriptions
  nobody notifies;
* energy saving, MEC, OAM, the SMO framework, R1, AI/ML, X-haul, the gateway and the
  security services: registries and views whose entries are written by one request
  and read by another, without a second actor between;
* the N6 firewall simulation: a packet filter in C and two services, pure input and
  output;
* dashboards, scripts, tests and documents: no part of the system.

## 6. Plan

1. All modules of section 2 and their runs: done.
2. Theorems for every safety invariant and action property: done.
3. Abstract specifications that `Remediation`, `E2Subscriptions` and `ClosedLoop`
   implement, with the refinements proved: done.
4. Open: a composition of `ClosedLoop` with `VNFM` over the HTTP interface between them.
