------------------------------ MODULE SmoWorkflow ------------------------------
(***************************************************************************)
(* The SMO's deployment workflow (etsi/o2/smo.py) across three servers: O2  *)
(* IMS (o2_ims.py) for the inventory, O2 DMS (o2_dms.py) for the            *)
(* deployment, the Non-RT RIC for the policy. A call that times out may     *)
(* still take effect. Then O2 IMS's alarms and the O-Cloud notification     *)
(* service (o_cloud_notification.py).                                       *)
(***************************************************************************)
EXTENDS Integers, Sequences, FiniteSets, SequencesExt

CONSTANTS
  Requests,   \* POST /smo/v1/deployNf
  Capacity,   \* replicas the O-Cloud has room for
  Alarms,     \* alarm ids
  OSubs, EventKinds, MaxHistory, MaxEvents,  \* notification: _MAX_HISTORY, and a bound on events
  None

ASSUME SmoAssumption == Capacity \in Nat /\ MaxHistory \in Nat \ {0} /\ MaxEvents \in Nat

\* What the SMO knows of a request it works on, with the fate of its call to O2 DMS.
Steps == {"check", "deploy", "policy", "ended"}
WorkflowRecord ==
  [at : Steps, replicas : 1..2, qos : BOOLEAN, deployment : BOOLEAN, success : BOOLEAN,
   call : {"none", "sent", "created", "rejected"},
   policy : {"none", "success", "failed", "unheard", "skipped"}]

ASSUME NoWorkflowAssumption == IsFiniteSet(Requests) /\ None \notin WorkflowRecord \cup Nat

VARIABLES
  workflow,     \* each request: where it is, what was asked and what it found
  dms,          \* O2 DMS: request -> the replicas it runs, or None
  policyOf,     \* Non-RT RIC: requests whose policy was put
  unheard       \* history: requests whose deployment call was not answered

smoVars == <<workflow, dms, policyOf, unheard>>

\* The replicas that run, and how many they are.
Replicas == {x \in Requests \X (1..2) : dms[x[1]] # None /\ x[2] <= dms[x[1]]}
Used     == Cardinality(Replicas)

SmoInit ==
  /\ workflow = [r \in Requests |-> None] /\ dms = [r \in Requests |-> None]
  /\ policyOf = {} /\ unheard = {}

Goes(r, f) == workflow' = [workflow EXCEPT ![r] = f]

DeployNf(r) ==
  /\ workflow[r] = None
  /\ \E n \in 1..2, q \in BOOLEAN :
       Goes(r, [at |-> "check", replicas |-> n, qos |-> q, call |-> "none",
                deployment |-> FALSE, policy |-> "none", success |-> FALSE])
  /\ UNCHANGED <<dms, policyOf, unheard>>

\* What is available is reported and compared with nothing; only a silent or
\* failing O2 IMS ends the request.
CheckResources(r) ==
  /\ workflow[r] # None /\ workflow[r].at = "check"
  /\ \E up \in BOOLEAN :
       Goes(r, IF up THEN [workflow[r] EXCEPT !.at = "deploy", !.call = "sent"]
               ELSE [workflow[r] EXCEPT !.at = "ended"])
  /\ UNCHANGED <<dms, policyOf, unheard>>

\* create_deployment at O2 DMS, also after the SMO stopped waiting.
DmsHandles(r) ==
  /\ workflow[r] # None /\ workflow[r].call = "sent"
  /\ LET room == Used + workflow[r].replicas <= Capacity
     IN /\ dms' = IF room THEN [dms EXCEPT ![r] = workflow[r].replicas] ELSE dms
        /\ Goes(r, [workflow[r] EXCEPT !.call = IF room THEN "created" ELSE "rejected"])
  /\ UNCHANGED <<policyOf, unheard>>

\* mutated form: the status is not looked at
DeployAnsweredUnread(r) ==
  /\ workflow[r] # None /\ workflow[r].at = "deploy" /\ workflow[r].call \in {"created", "rejected"}
  /\ Goes(r, [workflow[r] EXCEPT !.at = "policy", !.deployment = TRUE])
  /\ UNCHANGED <<dms, policyOf, unheard>>
DeployAnswered(r) ==
  /\ workflow[r] # None /\ workflow[r].at = "deploy" /\ workflow[r].call \in {"created", "rejected"}
  /\ Goes(r, IF workflow[r].call = "created"
             THEN [workflow[r] EXCEPT !.at = "policy", !.deployment = TRUE]
             ELSE [workflow[r] EXCEPT !.at = "ended"])
  /\ UNCHANGED <<dms, policyOf, unheard>>
\* Thirty seconds, or a broken connection: a failure is reported and nothing
\* undone.
DeployUnanswered(r) ==
  /\ workflow[r] # None /\ workflow[r].at = "deploy"
  /\ Goes(r, [workflow[r] EXCEPT !.at = "ended"]) /\ unheard' = unheard \cup {r}
  /\ UNCHANGED <<dms, policyOf>>

\* Whatever becomes of the policy, the request succeeds.
CreatePolicy(r) ==
  /\ workflow[r] # None /\ workflow[r].at = "policy"
  /\ \E s \in IF workflow[r].qos THEN {"success", "failed", "unheard"} ELSE {"skipped"} :
       /\ Goes(r, [workflow[r] EXCEPT !.at = "ended", !.policy = s, !.success = TRUE])
       /\ policyOf' \in CASE s = "success" -> {policyOf \cup {r}}
                          [] s = "unheard" -> {policyOf, policyOf \cup {r}}
                          [] OTHER -> {policyOf}
  /\ UNCHANGED <<dms, unheard>>

\* scale_nf, and a DELETE at O2 DMS.
ScaleNf(r, n) ==
  /\ dms[r] # None /\ dms[r] # n /\ Used - dms[r] + n <= Capacity /\ dms' = [dms EXCEPT ![r] = n]
  /\ UNCHANGED <<workflow, policyOf, unheard>>
Terminate(r) ==
  /\ dms[r] # None /\ dms' = [dms EXCEPT ![r] = None]
  /\ UNCHANGED <<workflow, policyOf, unheard>>

SmoNext ==
  \E r \in Requests :
    \/ DeployNf(r) \/ CheckResources(r) \/ DmsHandles(r) \/ DeployAnswered(r) \/ DeployUnanswered(r)
    \/ CreatePolicy(r) \/ Terminate(r) \/ \E n \in 1..2 : ScaleNf(r, n)

\* A request that reports success made its deployment and, when it says so, its
\* policy; one that reports failure left a deployment or a policy behind only
\* if O2 DMS was not heard (smo.py:330-412).
OutcomeIsTrue ==
  \A r \in Requests : workflow[r] # None /\ workflow[r].at = "ended" =>
    /\ workflow[r].success => workflow[r].call = "created" /\ workflow[r].deployment
    /\ workflow[r].policy = "success" => r \in policyOf
    /\ ~workflow[r].success => /\ r \notin policyOf
                               /\ workflow[r].call \in {"sent", "created"} => r \in unheard

SmoTypeOK ==
  /\ workflow \in [Requests -> WorkflowRecord \cup {None}]
  /\ dms \in [Requests -> 1..2 \cup {None}] /\ Used <= Capacity
  /\ policyOf \subseteq Requests /\ unheard \subseteq Requests

SmoProgress(r) == CheckResources(r) \/ DeployAnswered(r) \/ DeployUnanswered(r) \/ CreatePolicy(r)
\* Every request is answered (smo.py:297-412: each call has its limit).
WorkflowsEnd ==
  \A r \in Requests : (workflow[r] # None) ~> (workflow[r] # None /\ workflow[r].at = "ended")
-----------------------------------------------------------------------------
(* Alarms at O2 IMS; the notification service, whose handler delivers to    *)
(* one subscriber after the other without giving way.                       *)

VARIABLES
  alarm,       \* Alarms -> acknowledged and severity, or None
  oSubs,       \* OSubs -> the kinds of events subscribed to, or None
  history,     \* _EVENT_HISTORY
  published    \* history: how many events were published

ocnVars == <<alarm, oSubs, history, published>>

OcnInit ==
  /\ alarm = [a \in Alarms |-> None] /\ oSubs = [s \in OSubs |-> None]
  /\ history = <<>> /\ published = 0

CreateAlarm(a) ==
  /\ alarm[a] = None /\ alarm' = [alarm EXCEPT ![a] = [acknowledged |-> FALSE, severity |-> "raised"]]
  /\ UNCHANGED <<oSubs, history, published>>
PatchAlarm(a, acknowledged, clear) ==
  /\ alarm[a] # None
  /\ alarm' = [alarm EXCEPT ![a] = [acknowledged |-> acknowledged \/ @.acknowledged,
                                    severity |-> IF clear THEN "cleared" ELSE @.severity]]
  /\ UNCHANGED <<oSubs, history, published>>

CreateSubscription(s, kinds) ==
  /\ oSubs[s] = None /\ oSubs' = [oSubs EXCEPT ![s] = kinds] /\ UNCHANGED <<alarm, history, published>>
DeleteSubscription(s) ==
  /\ oSubs[s] # None /\ oSubs' = [oSubs EXCEPT ![s] = None] /\ UNCHANGED <<alarm, history, published>>

\* An event type list that is empty takes everything.
Matches(s, kind) == oSubs[s] # None /\ (oSubs[s] = {} \/ kind \in oSubs[s])

Trimmed(h) == IF Len(h) > MaxHistory THEN SubSeq(h, Len(h) - MaxHistory + 1, Len(h)) ELSE h

PublishEvent(kind) ==
  /\ published < MaxEvents /\ published' = published + 1
  /\ \E reached \in SUBSET {s \in OSubs : Matches(s, kind)} :
       history' = Trimmed(Append(history,
         [id |-> published + 1, matched |-> {s \in OSubs : Matches(s, kind)}, delivered |-> reached]))
  /\ UNCHANGED <<alarm, oSubs>>

OcnNext ==
  \/ \E a \in Alarms : CreateAlarm(a) \/ \E k, l \in BOOLEAN : PatchAlarm(a, k, l)
  \/ \E s \in OSubs : DeleteSubscription(s) \/ \E kinds \in SUBSET EventKinds : CreateSubscription(s, kinds)
  \/ \E kind \in EventKinds : PublishEvent(kind)

\* The history holds the newest events, in order and without a gap, and no
\* delivery is recorded for a subscription that did not match
\* (o_cloud_notification.py:249-271).
HistoryIsTheNewest ==
  /\ Len(history) = IF published < MaxHistory THEN published ELSE MaxHistory
  /\ \A i \in 1..Len(history) : /\ history[i].id = published - Len(history) + i
                                /\ history[i].delivered \subseteq history[i].matched
=============================================================================
