------------------------------- MODULE A1Policy -------------------------------
(***************************************************************************)
(* An A1 policy on its way from an rApp (ran/ric/rapp_sdk.py) through the   *)
(* Non-RT RIC (non_rt_ric.py) to the Near-RT RIC (near_rt_ric.py), each hop *)
(* a request with a five-second limit, and what watches the last hop        *)
(* (A1ConnectionManager, a1_interface.py). Enrichment jobs are at the end.  *)
(***************************************************************************)
EXTENDS Integers, FiniteSets

CONSTANTS
  Policies,   \* policy ids
  A1Calls,    \* calls under way at once
  PolicyData, \* what a policy may say
  EiTypes, EiJobs,
  NoPolicy    \* no policy, no call, no job

VARIABLES
  managed,    \* rApp: managed_policies
  used,       \* ids the rApp has drawn (uuid4: never twice)
  rapp,       \* "running", "stopping", "stopped"
  toDelete,   \* stop(): policies still to be deleted
  policies,   \* Non-RT RIC: data, status, and the call whose object it is
  a1Policies, \* Near-RT RIC: the data it holds
  nearUp,  \* Near-RT RIC is there; A1ConnectionManager.connected
  a1Call,     \* each call under way
  agreed,     \* history: policies whose last change ran alone and was answered
  disowned    \* history: policies the rApp lost track of, or others deleted

a1Vars == <<managed, used, rapp, toDelete, policies, a1Policies, nearUp, a1Call, agreed, disowned>>

\* An operator may use the Non-RT RIC's interface as well, on policies that
\* exist; `client` says that the rApp waits for the answer.
A1CallType ==
  [op : {"put", "update", "delete"}, policy : Policies, data : PolicyData, client : BOOLEAN,
   ric : {"sent", "waiting", "done", "refused"}, near : {"none", "sent", "handled"}, alone : BOOLEAN]

\* What the Non-RT RIC keeps of a policy and of an enrichment job.
PolicyRecords == [data : PolicyData, status : {"NOT_ENFORCED", "ENFORCED"}, by : A1Calls]
EiJobRecords  == [type : EiTypes, status : {"ACTIVE", "DELIVERING"}]

ASSUME A1Assumption ==
  PolicyData # {} /\ NoPolicy \notin A1CallType \cup PolicyData \cup PolicyRecords \cup EiJobRecords

A1Init ==
  /\ managed = {} /\ used = {} /\ rapp = "running" /\ toDelete = {}
  /\ policies = [p \in Policies |-> NoPolicy] /\ a1Policies = [p \in Policies |-> NoPolicy]
  /\ nearUp \in BOOLEAN
  /\ a1Call = [c \in A1Calls |-> NoPolicy] /\ agreed = Policies /\ disowned = {}
-----------------------------------------------------------------------------
AnyData == CHOOSE d \in PolicyData : TRUE  \* of a delete, which has none; and at first
On(p) == {c \in A1Calls : a1Call[c] # NoPolicy /\ a1Call[c].policy = p}

\* A call is over when nobody waits and no message of it travels.
Slot(k) == IF ~k.client /\ k.ric \in {"done", "refused"} /\ k.near # "sent" THEN NoPolicy ELSE k
Becomes(c, k) == a1Call' = [a1Call EXCEPT ![c] = Slot(k)]

Begin(c, op, p, d, client) ==
  /\ a1Call[c] = NoPolicy
  /\ a1Call' = [b \in A1Calls |->
       IF b = c THEN [op |-> op, policy |-> p, data |-> d, client |-> client,
                      ric |-> "sent", near |-> "none", alone |-> On(p) = {}]
       ELSE IF b \in On(p) THEN [a1Call[b] EXCEPT !.alone = FALSE] ELSE a1Call[b]]

\* create_policy draws a new id; update_policy and delete_policy need one it
\* manages; stop deletes, one after the other, those it managed when called.
RappCreates(c, p) ==
  /\ rapp # "stopped" /\ p \notin used /\ Begin(c, "put", p, AnyData, TRUE)
  /\ used' = used \cup {p}
  /\ UNCHANGED <<managed, rapp, toDelete, policies, a1Policies, nearUp, agreed, disowned>>
RappUpdates(c, p, d) ==
  /\ rapp # "stopped" /\ p \in managed /\ Begin(c, "update", p, d, TRUE)
  /\ UNCHANGED <<managed, used, rapp, toDelete, policies, a1Policies, nearUp, agreed, disowned>>
RappDeletes(c, p) ==
  /\ p \in managed /\ Begin(c, "delete", p, AnyData, TRUE)
  /\ \/ rapp = "running" /\ UNCHANGED toDelete
     \/ /\ rapp = "stopping" /\ p \in toDelete /\ toDelete' = toDelete \ {p}
        /\ \A b \in A1Calls : a1Call[b] # NoPolicy => ~(a1Call[b].client /\ a1Call[b].op = "delete")
  /\ UNCHANGED <<managed, used, rapp, policies, a1Policies, nearUp, agreed, disowned>>
RappStops ==
  /\ rapp = "running" /\ rapp' = "stopping" /\ toDelete' = managed
  /\ UNCHANGED <<managed, used, policies, a1Policies, nearUp, a1Call, agreed, disowned>>
\* delete_policy of one no longer managed returns at once.
RappSkips(p) ==
  /\ rapp = "stopping" /\ p \in toDelete \ managed /\ toDelete' = toDelete \ {p}
  /\ UNCHANGED <<managed, used, rapp, policies, a1Policies, nearUp, a1Call, agreed, disowned>>
RappStopped ==
  /\ rapp = "stopping" /\ toDelete = {}
  /\ \A b \in A1Calls : a1Call[b] # NoPolicy => ~(a1Call[b].client /\ a1Call[b].op = "delete")
  /\ rapp' = "stopped"
  /\ UNCHANGED <<managed, used, toDelete, policies, a1Policies, nearUp, a1Call, agreed, disowned>>

OperatorCalls(c, op, p, d) ==
  /\ p \in used /\ (op = "put" \/ d = AnyData) /\ Begin(c, op, p, d, FALSE)
  /\ disowned' = disowned \cup {p}
  /\ UNCHANGED <<managed, used, rapp, toDelete, policies, a1Policies, nearUp, agreed>>

\* The Non-RT RIC replaces the policy's object, then tells the Near-RT RIC;
\* a delete tells it first.
RicReceives(c) ==
  LET k == a1Call[c]
  IN /\ k # NoPolicy /\ k.ric = "sent"
     /\ IF k.op = "delete" /\ policies[k.policy] = NoPolicy
        THEN Becomes(c, [k EXCEPT !.ric = "refused"]) /\ UNCHANGED <<policies, agreed>>
        ELSE /\ Becomes(c, [k EXCEPT !.ric = "waiting", !.near = "sent"])
             /\ policies' = IF k.op = "delete" THEN policies
                            ELSE [policies EXCEPT ![k.policy] =
                                    [data |-> k.data, status |-> "NOT_ENFORCED", by |-> c]]
             /\ agreed' = agreed \ {k.policy}
  /\ UNCHANGED <<managed, used, rapp, toDelete, a1Policies, nearUp, disowned>>

NearHandles(c) ==
  LET k == a1Call[c]
  IN /\ nearUp /\ k # NoPolicy /\ k.near = "sent"
     /\ a1Policies' = [a1Policies EXCEPT ![k.policy] = IF k.op = "delete" THEN NoPolicy ELSE k.data]
     /\ Becomes(c, [k EXCEPT !.near = "handled"])
  /\ UNCHANGED <<managed, used, rapp, toDelete, policies, nearUp, agreed, disowned>>

\* A request nobody waits for any longer may be lost.
RequestLost(c) ==
  LET k == a1Call[c]
  IN /\ k # NoPolicy /\ k.near = "sent" /\ k.ric # "waiting"
     /\ Becomes(c, [k EXCEPT !.near = "handled"])
  /\ UNCHANGED <<managed, used, rapp, toDelete, policies, a1Policies, nearUp, agreed, disowned>>

\* mutated form: a delete keeps the policy unless the Near-RT RIC answers
ConcludeIfAnswered(c, answered) ==
  LET k == a1Call[c]
      mine == policies[k.policy] # NoPolicy /\ policies[k.policy].by = c
  IN /\ policies' = IF k.op = "delete" THEN policies
                    ELSE IF mine THEN [policies EXCEPT ![k.policy].status =
                                         IF answered THEN "ENFORCED" ELSE "NOT_ENFORCED"]
                    ELSE policies
     /\ Becomes(c, [k EXCEPT !.ric = "done", !.near = IF @ = "sent" /\ ~nearUp THEN "handled" ELSE @])

\* What follows the await: a status for the object this call made, which may
\* have been replaced; a delete removes what is there, or fails when another
\* delete has.
Conclude(c, answered) ==
  LET k == a1Call[c]
      mine == policies[k.policy] # NoPolicy /\ policies[k.policy].by = c
  IN /\ policies' = IF k.op = "delete" THEN [policies EXCEPT ![k.policy] = NoPolicy]
                    ELSE IF mine THEN [policies EXCEPT ![k.policy].status =
                                         IF answered THEN "ENFORCED" ELSE "NOT_ENFORCED"]
                    ELSE policies
     /\ Becomes(c, [k EXCEPT
          !.ric = IF k.op = "delete" /\ policies[k.policy] = NoPolicy THEN "refused" ELSE "done",
          !.near = IF @ = "sent" /\ ~nearUp THEN "handled" ELSE @])

RicAnswered(c) ==
  /\ a1Call[c] # NoPolicy /\ a1Call[c].ric = "waiting" /\ a1Call[c].near = "handled"
  /\ Conclude(c, TRUE)
  /\ agreed' = IF a1Call[c].alone THEN agreed \cup {a1Call[c].policy} ELSE agreed \ {a1Call[c].policy}
  /\ UNCHANGED <<managed, used, rapp, toDelete, a1Policies, nearUp, disowned>>
\* httpx.RequestError: refused, or five seconds. The request may still arrive.
RicUnanswered(c) ==
  /\ a1Call[c] # NoPolicy /\ a1Call[c].ric = "waiting" /\ Conclude(c, FALSE)
  /\ agreed' = agreed \ {a1Call[c].policy}
  /\ UNCHANGED <<managed, used, rapp, toDelete, a1Policies, nearUp, disowned>>

\* A PUT is answered 201 also when it replaces: update_policy, which expects
\* 200, changes nothing. A policy that could not be deleted stays managed.
ClientAnswered(c) ==
  LET k == a1Call[c]
  IN /\ k # NoPolicy /\ k.client /\ k.ric \in {"done", "refused"}
     /\ managed' = IF k.ric = "refused" \/ k.op = "update" THEN managed
                   ELSE IF k.op = "put" THEN managed \cup {k.policy} ELSE managed \ {k.policy}
     /\ Becomes(c, [k EXCEPT !.client = FALSE])
  /\ UNCHANGED <<used, rapp, toDelete, policies, a1Policies, nearUp, agreed, disowned>>
ClientTimesOut(c) ==
  LET k == a1Call[c]
  IN /\ k # NoPolicy /\ k.client
     /\ Becomes(c, [k EXCEPT !.client = FALSE]) /\ disowned' = disowned \cup {k.policy}
  /\ UNCHANGED <<managed, used, rapp, toDelete, policies, a1Policies, nearUp, agreed>>

\* The Near-RT RIC keeps its policies in memory.
NearStops ==
  /\ nearUp /\ nearUp' = FALSE /\ a1Policies' = [p \in Policies |-> NoPolicy] /\ agreed' = {}
  /\ a1Call' = [c \in A1Calls |-> IF a1Call[c] = NoPolicy THEN NoPolicy ELSE
                  Slot([a1Call[c] EXCEPT !.alone = FALSE, !.near = IF @ = "sent" THEN "handled" ELSE @])]
  /\ UNCHANGED <<managed, used, rapp, toDelete, policies, disowned>>
NearStarts ==
  /\ ~nearUp /\ nearUp' = TRUE
  /\ UNCHANGED <<managed, used, rapp, toDelete, policies, a1Policies, a1Call, agreed, disowned>>
A1Next ==
  \/ \E c \in A1Calls :
       \/ \E p \in Policies :
            \/ RappCreates(c, p) \/ RappDeletes(c, p)
            \/ \E d \in PolicyData :
                 \/ RappUpdates(c, p, d)
                 \/ \E op \in {"put", "delete"} : OperatorCalls(c, op, p, d)
       \/ RicReceives(c) \/ NearHandles(c) \/ RequestLost(c) \/ RicAnswered(c) \/ RicUnanswered(c)
       \/ ClientAnswered(c) \/ ClientTimesOut(c)
  \/ RappStops \/ RappStopped \/ (\E p \in Policies : RappSkips(p))
  \/ NearStops \/ NearStarts

A1TypeOK ==
  /\ managed \subseteq Policies /\ used \subseteq Policies /\ toDelete \subseteq Policies
  /\ rapp \in {"running", "stopping", "stopped"} /\ nearUp \in BOOLEAN
  /\ policies \in [Policies -> PolicyRecords \cup {NoPolicy}]
  /\ a1Policies \in [Policies -> PolicyData \cup {NoPolicy}]
  /\ a1Call \in [A1Calls -> A1CallType \cup {NoPolicy}]
  /\ agreed \subseteq Policies /\ disowned \subseteq Policies

\* When a policy's last change met no other and was answered, both RICs hold
\* it, with the same content and marked ENFORCED, or neither does; and what
\* the rApp believes it manages the Non-RT RIC has, unless a call of it timed
\* out or an operator touched the policy (non_rt_ric.py:344-373, 399-414,
\* near_rt_ric.py:608-616, rapp_sdk.py:231-239, 295-300).
PoliciesAgree ==
  \A p \in Policies : On(p) = {} =>
    /\ p \in agreed => /\ policies[p] = NoPolicy <=> a1Policies[p] = NoPolicy
                       /\ policies[p] # NoPolicy =>
                            policies[p].status = "ENFORCED" /\ policies[p].data = a1Policies[p]
    /\ p \in managed \ disowned => policies[p] # NoPolicy

A1Progress(c) ==
  \/ RicReceives(c) \/ RicAnswered(c) \/ RicUnanswered(c) \/ NearHandles(c) \/ RequestLost(c)
  \/ ClientAnswered(c) \/ ClientTimesOut(c)
RappProgress ==
  /\ rapp = "stopping"
  /\ RappStopped \/ \E p \in Policies : RappSkips(p) \/ \E c \in A1Calls : RappDeletes(c, p)
\* stop() ends, whoever is silent (rapp_sdk.py:128-144, 281-304).
StopEnds == rapp = "stopping" ~> rapp = "stopped"
-----------------------------------------------------------------------------
(* Enrichment information: types and jobs at the Non-RT RIC, whose delivery *)
(* waits for the Near-RT RIC; and the connection manager's heartbeats.      *)

VARIABLES
  eiTypes,     \* types created
  eiJobs,      \* EiJobs -> [type, status], or NoPolicy
  delivery,    \* deliveries whose request is under way: job and type
  enrichment,  \* Near-RT RIC: types it has information about
  peerUp, connected  \* the Near-RT RIC is there; A1ConnectionManager.connected

eiVars == <<eiTypes, eiJobs, delivery, enrichment, peerUp, connected>>

EiInit ==
  /\ eiTypes = {} /\ eiJobs = [j \in EiJobs |-> NoPolicy] /\ delivery = {} /\ enrichment = {}
  /\ peerUp \in BOOLEAN /\ connected = FALSE

CreateEiType(t) == eiTypes' = eiTypes \cup {t} /\ UNCHANGED <<eiJobs, delivery, enrichment, peerUp, connected>>
CreateEiJob(j, t) ==
  /\ t \in eiTypes /\ eiJobs' = [eiJobs EXCEPT ![j] = [type |-> t, status |-> "ACTIVE"]]
  /\ UNCHANGED <<eiTypes, delivery, enrichment, peerUp, connected>>
DeleteEiJob(j) ==
  /\ eiJobs[j] # NoPolicy /\ eiJobs' = [eiJobs EXCEPT ![j] = NoPolicy]
  /\ UNCHANGED <<eiTypes, delivery, enrichment, peerUp, connected>>
\* The job is DELIVERING from here on: nothing sets it back.
Deliver(j) ==
  /\ eiJobs[j] # NoPolicy
  /\ eiJobs' = [eiJobs EXCEPT ![j].status = "DELIVERING"]
  /\ delivery' = delivery \cup {[job |-> j, type |-> eiJobs[j].type]}
  /\ UNCHANGED <<eiTypes, enrichment, peerUp, connected>>
Delivered(d) ==
  /\ d \in delivery /\ delivery' = delivery \ {d}
  /\ enrichment' \in {enrichment, enrichment \cup {d.type}}
  /\ UNCHANGED <<eiTypes, eiJobs, peerUp, connected>>

PeerComesOrGoes == peerUp' = ~peerUp /\ UNCHANGED <<eiTypes, eiJobs, delivery, enrichment, connected>>

\* mutated form: the loop stops at the first heartbeat that fails
HeartbeatUntilLost ==
  /\ connected /\ connected' = peerUp /\ UNCHANGED <<eiTypes, eiJobs, delivery, enrichment, peerUp>>
\* connect and start_heartbeat_loop.
Heartbeat ==
  connected' = peerUp /\ UNCHANGED <<eiTypes, eiJobs, delivery, enrichment, peerUp>>

EiNext ==
  \/ \E t \in EiTypes : CreateEiType(t) \/ \E j \in EiJobs : CreateEiJob(j, t)
  \/ \E j \in EiJobs : DeleteEiJob(j) \/ Deliver(j)
  \/ (\E d \in delivery : Delivered(d)) \/ PeerComesOrGoes \/ Heartbeat

EiTypeOK ==
  /\ eiTypes \subseteq EiTypes /\ enrichment \subseteq eiTypes
  /\ eiJobs \in [EiJobs -> EiJobRecords \cup {NoPolicy}]
  /\ \A j \in EiJobs : eiJobs[j] # NoPolicy => eiJobs[j].type \in eiTypes
  /\ delivery \subseteq [job : EiJobs, type : eiTypes]
  /\ peerUp \in BOOLEAN /\ connected \in BOOLEAN

\* A Near-RT RIC that stays is noticed (a1_interface.py:392-433).
ConnectionNoticed == <>[]peerUp => <>[]connected
=============================================================================
