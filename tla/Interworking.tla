------------------------------ MODULE Interworking ------------------------------
(***************************************************************************)
(* Three functions at the edge of the core: the service communication      *)
(* proxy (core_network/scp.py), which forwards a request to an instance of  *)
(* a type, retries it and opens a circuit breaker; the exposure function    *)
(* (core_network/nef.py), which reports events to subscribers; and the      *)
(* non-3GPP interworking function (core_network/n3iwf.py).  They share      *)
(* nothing: each has its own variables and next-state relation.             *)
(***************************************************************************)
EXTENDS Integers, Sequences, FiniteSets, Functions

CONSTANTS
  Instances, NfTypes,          \* network functions the proxy may be told of, and types
  TypesOf,                     \* the types an instance registers under, over time
  Forwards,                    \* calls of forward_request at one time
  MaxRetries, Threshold,       \* SCPConfig.maxRetries, circuitBreakerThreshold
  MaxFailures,                 \* bound: failures recorded for one instance
  EventSubs, Triggers,         \* monitoring subscriptions; reports under way
  MaxReports,                  \* bound: maximumNumberOfReports asked for
  NonTgppUes, Tunnels,         \* UEs and tunnel identities of the N3IWF
  MaxAddress, MaxNgapId,       \* bounds: addresses and NGAP ids handed out
  Nil                          \* no entry

NfRecords    == [type : NfTypes, status : {"REGISTERED", "SUSPENDED"}, host : BOOLEAN]
BreakerStates == [failures : Nat, open : {"no", "open", "expired"}]
ForwardRecords == [type : NfTypes, retries : 0 .. MaxRetries, target : Instances]
ContextRecords == [state : {"CONNECTING", "CONNECTED"}, tunnel : Tunnels \cup {Nil},
                   sessions : SUBSET (1 .. MaxAddress)]

ASSUME InterworkingAssumption ==
  /\ IsFiniteSet(Instances) /\ IsFiniteSet(Triggers)
  /\ TypesOf \in [Instances -> SUBSET NfTypes]
  /\ MaxRetries \in Nat /\ Threshold \in Nat \ {0} /\ MaxFailures \in Nat
  /\ MaxReports \in Nat /\ MaxAddress \in Nat /\ MaxNgapId \in Nat
  /\ Nil \notin NfRecords \cup BreakerStates \cup ForwardRecords \cup ContextRecords
              \cup EventSubs \cup Tunnels \cup {"stored", "deleted"}

VARIABLES
  nfCache,      \* nf_instance_cache: Instances -> [type, status, host: has an address], or Nil
  typeIndex,    \* nf_type_index: NfTypes -> a sequence of instances
  turn,         \* round_robin_counters
  breaker,      \* circuit_breaker_state: Instances -> [failures, open], or Nil
  forward,      \* Forwards -> [type, retries, target], or Nil
  failedSince,  \* history: calls that failed since one was answered or the breaker forgotten
  moved,        \* history: instances that registered again under another type
  parted        \* history: calls under way whose target has left since it was chosen

scpVars == <<nfCache, typeIndex, turn, breaker, forward, failedSince, moved, parted>>

ScpInit ==
  /\ nfCache = [n \in Instances |-> Nil] /\ typeIndex = [t \in NfTypes |-> <<>>]
  /\ turn = [t \in NfTypes |-> 0] /\ breaker = [n \in Instances |-> Nil]
  /\ forward = [f \in Forwards |-> Nil] /\ failedSince = [n \in Instances |-> 0]
  /\ moved = {} /\ parted = {}

\* The calls under way to an instance.
Calls(n) == {f \in Forwards : forward[f] # Nil /\ forward[f].target = n}

\* Registering again under another type leaves the old index entry behind.
RegisterWithScp(n, t, s, h) ==
  /\ nfCache' = [nfCache EXCEPT ![n] = [type |-> t, status |-> s, host |-> h]]
  /\ typeIndex' = IF n \in Range(typeIndex[t]) THEN typeIndex
                  ELSE [typeIndex EXCEPT ![t] = Append(@, n)]
  /\ moved' = IF nfCache[n] # Nil /\ nfCache[n].type # t THEN moved \cup {n} ELSE moved
  /\ parted' = parted \cup {f \in Calls(n) : s # "REGISTERED" \/ ~h \/ forward[f].type # t}
  /\ UNCHANGED <<turn, breaker, forward, failedSince>>

\* list.remove: the entries after the first n move up.
Removed(list, n) ==
  LET k == CHOOSE i \in DOMAIN list : list[i] = n /\ \A j \in DOMAIN list : list[j] = n => i <= j
  IN [i \in 1 .. Len(list) - 1 |-> IF i < k THEN list[i] ELSE list[i + 1]]

DeregisterFromScp(n) ==
  /\ nfCache[n] # Nil /\ nfCache' = [nfCache EXCEPT ![n] = Nil]
  /\ LET t == nfCache[n].type IN
     typeIndex' = IF n \in Range(typeIndex[t])
                  THEN [typeIndex EXCEPT ![t] = Removed(typeIndex[t], n)] ELSE typeIndex
  /\ parted' = parted \cup Calls(n)
  /\ UNCHANGED <<turn, breaker, forward, failedSince, moved>>

\* The breaker's timeout passes; the entry itself goes when it is next looked at.
BreakerTimesOut(n) ==
  /\ breaker[n] # Nil /\ breaker[n].open = "open"
  /\ breaker' = [breaker EXCEPT ![n].open = "expired"]
  /\ UNCHANGED <<nfCache, typeIndex, turn, forward, failedSince, moved, parted>>

Registered(n) == nfCache[n] # Nil /\ nfCache[n].status = "REGISTERED"
Is(b, n, how) == b[n] # Nil /\ b[n].open = how

\* Which of the candidates stand before n in the type's index.
Before(n, t, candidates) ==
  {m \in candidates : \E i, j \in DOMAIN typeIndex[t] :
                        i < j /\ typeIndex[t][i] = m /\ typeIndex[t][j] = n}

\* Select an instance (round robin, or by load, priority or chance: any of them) and
\* send to it; the scan forgets the expired breakers of registered instances.  A pick
\* that has no address uses up a try, and the next is made at once: k of them come
\* first, or all the tries go that way.
\* b and failed: the breakers and the history so far in this step.
SelectAndSend(f, t, retries, b, failed) ==
  LET listed == {n \in Range(typeIndex[t]) : Registered(n)}
      candidates == {n \in listed : ~Is(b, n, "open")}
      looked == {n \in listed : Is(b, n, "expired")}
      hosted == {n \in candidates : nfCache[n].host}
      count == Cardinality(candidates)
      At(n, i) == Cardinality(Before(n, t, candidates)) = i % count
      Skips(k) == \A i \in 0 .. k - 1 : \E n \in candidates \ hosted : At(n, turn[t] + i)
      Turned(picks) == turn' = [turn EXCEPT ![t] = (@ + picks) % count]
  IN /\ breaker' = [n \in Instances |-> IF n \in looked THEN Nil ELSE b[n]]
     /\ failedSince' = [n \in Instances |-> IF n \in looked THEN 0 ELSE failed[n]]
     /\ UNCHANGED <<nfCache, typeIndex, moved>> /\ parted' = parted \ {f}
     /\ \/ candidates = {} /\ forward' = [forward EXCEPT ![f] = Nil] /\ UNCHANGED turn
        \/ \E n \in hosted, k \in 0 .. MaxRetries - retries :
             /\ forward' = [forward EXCEPT ![f] = [type |-> t, retries |-> retries + k, target |-> n]]
             /\ \/ Skips(k) /\ At(n, turn[t] + k) /\ Turned(k + 1)
                \/ (k > 0 => hosted # candidates) /\ UNCHANGED turn
        \/ /\ hosted # candidates /\ forward' = [forward EXCEPT ![f] = Nil]
           /\ \/ Skips(MaxRetries - retries + 1) /\ Turned(MaxRetries - retries + 1)
              \/ UNCHANGED turn

ForwardRequest(f, t) == forward[f] = Nil /\ SelectAndSend(f, t, 0, breaker, failedSince)

\* mutated form: an answer does not reset the count of failures
AnsweredUncounted(f) ==
  /\ forward[f] # Nil /\ forward' = [forward EXCEPT ![f] = Nil]
  /\ failedSince' = [failedSince EXCEPT ![forward[f].target] = 0] /\ parted' = parted \ {f}
  /\ UNCHANGED <<nfCache, typeIndex, turn, breaker, moved>>

\* Any status is an answer; an open breaker stays open.
ForwardAnswered(f) ==
  /\ forward[f] # Nil /\ forward' = [forward EXCEPT ![f] = Nil]
  /\ LET n == forward[f].target IN
     /\ breaker' = IF breaker[n] = Nil THEN breaker ELSE [breaker EXCEPT ![n].failures = 0]
     /\ failedSince' = [failedSince EXCEPT ![n] = 0]
  /\ parted' = parted \ {f} /\ UNCHANGED <<nfCache, typeIndex, turn, moved>>

\* record_failure
Failed(n) ==
  LET before == IF breaker[n] = Nil THEN [failures |-> 0, open |-> "no"] ELSE breaker[n]
      count == before.failures + 1
  IN [breaker EXCEPT ![n] =
        [failures |-> count, open |-> IF count >= Threshold THEN "open" ELSE before.open]]

\* A timeout or a connection error: the next attempt at once, or the 503.
ForwardFailed(f) ==
  /\ forward[f] # Nil
  /\ LET n == forward[f].target
         failed == [failedSince EXCEPT ![n] = @ + 1]
     IN /\ failedSince[n] < MaxFailures
        /\ \/ /\ forward[f].retries < MaxRetries
              /\ SelectAndSend(f, forward[f].type, forward[f].retries + 1, Failed(n), failed)
           \/ /\ forward[f].retries = MaxRetries /\ forward' = [forward EXCEPT ![f] = Nil]
              /\ breaker' = Failed(n) /\ failedSince' = failed
              /\ parted' = parted \ {f} /\ UNCHANGED <<nfCache, typeIndex, turn, moved>>

ScpNext ==
  \/ \E n \in Instances :
       \/ \E t \in TypesOf[n], s \in {"REGISTERED", "SUSPENDED"}, h \in BOOLEAN :
            RegisterWithScp(n, t, s, h)
       \/ DeregisterFromScp(n) \/ BreakerTimesOut(n)
  \/ \E f \in Forwards : \/ \E t \in NfTypes : ForwardRequest(f, t)
                         \/ ForwardAnswered(f) \/ ForwardFailed(f)

\* A call can go where c says.
Reaches(c) ==
  Registered(c.target) /\ nfCache[c.target].host /\ c.target \in Range(typeIndex[c.type])

\* The proxy neither loses an instance nor shuts it out without cause: a cached
\* instance stands in its type's index, once; an index entry whose instance is gone
\* or of another type is one that moved; a call under way is with an instance that is
\* registered, has an address and stands under the call's type, or has left since it
\* was chosen; and however its calls interleave, a breaker counts the failures since the
\* last answer and has opened when they reach Threshold (scp.py:115-312).
RoutingIsSound ==
  /\ \A t \in NfTypes :
       /\ IsInjective(typeIndex[t])
       /\ \A n \in Range(typeIndex[t]) :
            nfCache[n] = Nil \/ nfCache[n].type # t => n \in moved
  /\ \A n \in Instances :
       /\ nfCache[n] # Nil => n \in Range(typeIndex[nfCache[n].type])
       /\ failedSince[n] = IF breaker[n] = Nil THEN 0 ELSE breaker[n].failures
       /\ failedSince[n] >= Threshold => breaker[n].open # "no"
  /\ \A f \in Forwards : forward[f] # Nil /\ f \notin parted => Reaches(forward[f])

-----------------------------------------------------------------------------
VARIABLES
  eventSub,    \* monitoring_subscriptions: EventSubs -> "stored", "deleted", or Nil before
  reportsLeft, \* the object's maximumNumberOfReports; 0: none was set
  report,      \* Triggers -> the subscription whose report is being posted, or Nil
  quota,       \* history: the maximumNumberOfReports asked for
  reported     \* history: reports concluded for the subscription

nefVars == <<eventSub, reportsLeft, report, quota, reported>>

NefInit ==
  /\ eventSub = [s \in EventSubs |-> Nil] /\ report = [c \in Triggers |-> Nil]
  /\ reportsLeft = [s \in EventSubs |-> 0] /\ quota = [s \in EventSubs |-> 0]
  /\ reported = [s \in EventSubs |-> 0]

CreateMonitoring(s) ==
  /\ eventSub[s] = Nil /\ eventSub' = [eventSub EXCEPT ![s] = "stored"]
  /\ \E q \in 0 .. MaxReports :
       reportsLeft' = [reportsLeft EXCEPT ![s] = q] /\ quota' = [quota EXCEPT ![s] = q]
  /\ UNCHANGED <<report, reported>>

DeleteMonitoring(s) ==
  /\ eventSub[s] = "stored" /\ eventSub' = [eventSub EXCEPT ![s] = "deleted"]
  /\ UNCHANGED <<reportsLeft, report, quota, reported>>

\* The subscription is looked up before the post is awaited, and its object kept.
TriggerEvent(c, s) ==
  /\ report[c] = Nil /\ eventSub[s] = "stored" /\ report' = [report EXCEPT ![c] = s]
  /\ UNCHANGED <<eventSub, reportsLeft, quota, reported>>

\* The post was answered or failed; both use up one report.  An object that reached
\* 0 is not counted down again; deleting an entry already deleted raises, after the count.
ReportConcluded(c) ==
  /\ report[c] # Nil
  /\ LET s == report[c]
         left == reportsLeft[s] - 1
     IN /\ reportsLeft' = IF reportsLeft[s] = 0 THEN reportsLeft
                          ELSE [reportsLeft EXCEPT ![s] = left]
        /\ eventSub' = IF reportsLeft[s] # 0 /\ left <= 0
                       THEN [eventSub EXCEPT ![s] = "deleted"] ELSE eventSub
        /\ reported[s] < MaxReports + Cardinality(Triggers)
        /\ reported' = [reported EXCEPT ![s] = @ + 1]
  /\ report' = [report EXCEPT ![c] = Nil] /\ UNCHANGED quota

NefNext ==
  \/ \E s \in EventSubs : \/ CreateMonitoring(s) \/ DeleteMonitoring(s)
                          \/ \E c \in Triggers : TriggerEvent(c, s)
  \/ \E c \in Triggers : ReportConcluded(c)

\* A subscription ends with its last report: while it is stored with a quota, the
\* reports concluded are fewer than the quota.  The code posts before it counts, so
\* the quota itself may be passed, but only by reports already under way when the last
\* one was counted: fewer than there are triggers (nef.py:281-314).
QuotaIsKept ==
  \A s \in EventSubs : quota[s] > 0 =>
    /\ eventSub[s] = "stored" => reported[s] + reportsLeft[s] = quota[s] /\ reportsLeft[s] > 0
    /\ reported[s] < quota[s] + Cardinality(Triggers)

-----------------------------------------------------------------------------
VARIABLES
  ueContext,    \* ue_contexts: NonTgppUes -> [state, tunnel, sessions], or Nil
  ipsecTunnel,  \* the keys of ipsec_tunnels
  innerAddress, \* Tunnels -> ue_inner_ip, 0 before the tunnel is made
  orphan,       \* history: tunnels no context links: made without one, or replaced
  ranUeNgapId,  \* ran_ue_ngap_ids, 0 when there is none
  amfUeNgapId,  \* the UEs that amf_ue_ngap_ids knows
  nextNgapId, nextAddress   \* next_ran_ue_ngap_id, ip_pool_current

n3iwfVars == <<ueContext, ipsecTunnel, innerAddress, orphan, ranUeNgapId, amfUeNgapId,
               nextNgapId, nextAddress>>

N3iwfInit ==
  /\ ueContext = [u \in NonTgppUes |-> Nil] /\ ipsecTunnel = {} /\ orphan = {}
  /\ innerAddress = [t \in Tunnels |-> 0]
  /\ ranUeNgapId = [u \in NonTgppUes |-> 0] /\ amfUeNgapId = {}
  /\ nextNgapId = 1 /\ nextAddress = 1

\* A tunnel is linked to the UE's context if there is one, replacing the link it had.
EstablishTunnel(u, t) ==
  /\ innerAddress[t] = 0 /\ nextAddress <= MaxAddress
  /\ ipsecTunnel' = ipsecTunnel \cup {t}
  /\ innerAddress' = [innerAddress EXCEPT ![t] = nextAddress] /\ nextAddress' = nextAddress + 1
  /\ orphan' = orphan \cup (IF ueContext[u] = Nil THEN {t} ELSE {ueContext[u].tunnel} \ {Nil})
  /\ ueContext' = IF ueContext[u] = Nil THEN ueContext
                  ELSE [ueContext EXCEPT ![u].tunnel = t]
  /\ UNCHANGED <<ranUeNgapId, amfUeNgapId, nextNgapId>>

\* The context keeps its link to a tunnel that is deleted by itself.
DeleteTunnel(t) ==
  /\ t \in ipsecTunnel /\ ipsecTunnel' = ipsecTunnel \ {t}
  /\ UNCHANGED <<ueContext, innerAddress, orphan, ranUeNgapId, amfUeNgapId, nextNgapId, nextAddress>>

HandleRegistration(u) ==
  /\ nextNgapId <= MaxNgapId
  /\ ueContext' = [ueContext EXCEPT ![u] =
       IF @ = Nil THEN [state |-> "CONNECTING", tunnel |-> Nil, sessions |-> {}]
       ELSE [@ EXCEPT !.state = "CONNECTING"]]
  /\ ranUeNgapId' = [ranUeNgapId EXCEPT ![u] = nextNgapId] /\ nextNgapId' = nextNgapId + 1
  /\ UNCHANGED <<ipsecTunnel, innerAddress, orphan, amfUeNgapId, nextAddress>>

\* The AMF's answer may name the id it gave the UE, or not.
CompleteRegistration(u) ==
  /\ ueContext[u] # Nil /\ ueContext' = [ueContext EXCEPT ![u].state = "CONNECTED"]
  /\ amfUeNgapId' \in {amfUeNgapId, amfUeNgapId \cup {u}}
  /\ UNCHANGED <<ipsecTunnel, innerAddress, orphan, ranUeNgapId, nextNgapId, nextAddress>>

\* One session per UE is told apart by its address; a second with its id replaces it.
EstablishN3iwfSession(u) ==
  /\ ueContext[u] # Nil /\ ueContext[u].state = "CONNECTED" /\ nextAddress <= MaxAddress
  /\ \E kept \in {ueContext[u].sessions} \cup {ueContext[u].sessions \ {a} : a \in ueContext[u].sessions} :
       ueContext' = [ueContext EXCEPT ![u].sessions = kept \cup {nextAddress}]
  /\ nextAddress' = nextAddress + 1
  /\ UNCHANGED <<ipsecTunnel, innerAddress, orphan, ranUeNgapId, amfUeNgapId, nextNgapId>>

ReleaseN3iwfSession(u) ==
  /\ ueContext[u] # Nil
  /\ \E a \in ueContext[u].sessions : ueContext' = [ueContext EXCEPT ![u].sessions = @ \ {a}]
  /\ UNCHANGED <<ipsecTunnel, innerAddress, orphan, ranUeNgapId, amfUeNgapId, nextNgapId, nextAddress>>

DeregisterUe(u) ==
  /\ ueContext[u] # Nil /\ ueContext' = [ueContext EXCEPT ![u] = Nil]
  /\ ipsecTunnel' = ipsecTunnel \ {ueContext[u].tunnel}
  /\ ranUeNgapId' = [ranUeNgapId EXCEPT ![u] = 0] /\ amfUeNgapId' = amfUeNgapId \ {u}
  /\ UNCHANGED <<innerAddress, orphan, nextNgapId, nextAddress>>

N3iwfNext ==
  \/ \E u \in NonTgppUes :
       \/ \E t \in Tunnels : EstablishTunnel(u, t)
       \/ HandleRegistration(u) \/ CompleteRegistration(u) \/ DeregisterUe(u)
       \/ EstablishN3iwfSession(u) \/ ReleaseN3iwfSession(u)
  \/ \E t \in Tunnels : DeleteTunnel(t)

\* No two tunnels or sessions have one address and no two UEs one NGAP id; ids exist
\* exactly for the UEs with a context; and a tunnel in use is linked by a context or is
\* one of the known orphans, whatever order tunnels, registrations and deregistrations
\* come in (n3iwf.py:170-438, 554-561).
N3iwfAgrees ==
  LET Connected == {u \in NonTgppUes : ueContext[u] # Nil}
      tunnelled == {innerAddress[t] : t \in ipsecTunnel}
  IN /\ \A t, o \in ipsecTunnel : innerAddress[t] = innerAddress[o] => t = o
     /\ ipsecTunnel \subseteq orphan \cup {ueContext[u].tunnel : u \in Connected}
     /\ Connected = {u \in NonTgppUes : ranUeNgapId[u] # 0} /\ amfUeNgapId \subseteq Connected
     /\ \A u \in Connected :
          /\ ueContext[u].sessions \cap tunnelled = {}
          /\ \A v \in Connected \ {u} : /\ ueContext[u].sessions \cap ueContext[v].sessions = {}
                                        /\ ranUeNgapId[u] # ranUeNgapId[v]

InterworkingTypeOK ==
  /\ nfCache \in [Instances -> NfRecords \cup {Nil}]
  /\ breaker \in [Instances -> BreakerStates \cup {Nil}]
  /\ forward \in [Forwards -> ForwardRecords \cup {Nil}]
  /\ \A t \in NfTypes : typeIndex[t] \in Seq(Instances) /\ turn[t] \in 0 .. Cardinality(Instances)
  /\ \A s \in EventSubs : eventSub[s] \in {Nil, "stored", "deleted"} /\ reportsLeft[s] \in Int
  /\ \A c \in Triggers : report[c] \in EventSubs \cup {Nil}
  /\ ueContext \in [NonTgppUes -> ContextRecords \cup {Nil}]
=============================================================================
