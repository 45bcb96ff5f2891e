--------------------------- MODULE E2Subscriptions ---------------------------
(***************************************************************************)
(* RIC subscriptions between the Near-RT RIC (ran/ric/near_rt_ric.py), its *)
(* E2 nodes (ran/du.py, ran/cu.py) and the xApps that own them.  The RIC's *)
(* coroutines give the event loop up while an HTTP call to a node is out:  *)
(* other calls run in between, the answer can be late or never come, and a *)
(* request the RIC has given up on can still reach the node.               *)
(***************************************************************************)
EXTENDS Naturals

CONSTANTS
  Nodes,        \* E2 nodes, each with its own process
  XApps,        \* xAppIds, as register_xapp draws them
  MaxRequests,  \* bound: subscriptions requested
  MaxRestarts,  \* bound: restarts of nodes
  NoSub         \* no such subscription object

Ids == 1..MaxRequests

Subscriptions == [node  : Nodes,
                  owner : XApps,
                  state : {"PENDING", "ACTIVE", "FAILED", "DELETED"}]

\* The calls about one subscription: its creation, the deletion a client asks
\* for and the deletion unregister_xapp schedules for its owner.
Deletions == {"client", "cleanup"}
Calls     == {"create"} \cup Deletions
Standing  == {"idle", "scheduled", "waiting", "ended", "raised"}

\* HTTP requests to a node and its answers, each to one call.
Messages == [kind : {"request", "accepted", "refused"},
             id   : Ids,
             call : Calls,
             node : Nodes]

ASSUME E2Assumption ==
  /\ MaxRequests \in Nat
  /\ MaxRestarts \in Nat
  /\ NoSub \notin Subscriptions

VARIABLES
  e2_nodes,        \* nodes the RIC knows
  xapps,           \* xApps registered at the RIC
  gone,            \* xApps that have been unregistered
  counter,         \* ric_request_id_counter
  object,          \* the RicSubscription objects, by ricRequestId
  subscriptions,   \* the ids of those in the RIC's dictionary
  call,            \* where each call to the RIC stands
  unanswered,      \* ids of which a call ended in a RequestError
  net,             \* requests and answers on their way
  held,            \* e2_subscriptions of each node
  reporters,       \* its periodic report tasks, by ricRequestId
  dropped,         \* ids a node forgot by restarting
  restarts

ricVars  == <<e2_nodes, xapps, gone, counter, object, subscriptions, call, unanswered>>
nodeVars == <<held, reporters, dropped, restarts>>
vars     == <<ricVars, net, nodeVars>>

Init ==
  /\ e2_nodes = {}
  /\ xapps = {}
  /\ gone = {}
  /\ counter = 1
  /\ object = [i \in Ids |-> NoSub]
  /\ subscriptions = {}
  /\ call = [i \in Ids |-> [c \in Calls |-> "idle"]]
  /\ unanswered = {}
  /\ net = {}
  /\ held = [n \in Nodes |-> {}]
  /\ reporters = [n \in Nodes |-> {}]
  /\ dropped = {}
  /\ restarts = 0

Message(kind, i, c) == [kind |-> kind, id |-> i, call |-> c, node |-> object[i].node]

Requests(i, c) == {m \in net : m.id = i /\ m.call = c /\ m.kind = "request"}
Answers(i, c)  == {m \in net : m.id = i /\ m.call = c /\ m.kind # "request"}

Stand(i, c, s) == call' = [call EXCEPT ![i][c] = s]
------------------------------------------------------------------------------
(* Registrations *)

\* register_with_ric and handle_e2_setup: a node that starts signs on, once.
Setup(n) ==
  /\ n \notin e2_nodes
  /\ e2_nodes' = e2_nodes \cup {n}
  /\ UNCHANGED <<xapps, gone, counter, object, subscriptions, call, unanswered, net, nodeVars>>

RegisterXapp(x) ==
  /\ x \notin xapps \cup gone
  /\ xapps' = xapps \cup {x}
  /\ UNCHANGED <<e2_nodes, gone, counter, object, subscriptions, call, unanswered, net, nodeVars>>

\* unregister_xapp: a deletion task for each subscription the dictionary holds.
UnregisterXapp(x) ==
  /\ x \in xapps
  /\ xapps' = xapps \ {x}
  /\ gone' = gone \cup {x}
  /\ call' = [i \in Ids |->
       IF i \in subscriptions /\ object[i].owner = x
         THEN [call[i] EXCEPT !["cleanup"] = "scheduled"] ELSE call[i]]
  /\ UNCHANGED <<e2_nodes, counter, object, subscriptions, unanswered, net, nodeVars>>
------------------------------------------------------------------------------
(* create_subscription *)

\* Up to the POST: the object exists, but the dictionary does not hold it yet.
\* The RIC does not check that the owner is registered.
CreateReusingId(x, n) ==   \* mutated form: the counter is not advanced
  /\ n \in e2_nodes
  /\ counter <= MaxRequests
  /\ call[counter]["create"] # "waiting"
  /\ object' = [object EXCEPT ![counter] = [node |-> n, owner |-> x, state |-> "PENDING"]]
  /\ Stand(counter, "create", "waiting")
  /\ net' = net \cup {[kind |-> "request", id |-> counter, call |-> "create", node |-> n]}
  /\ UNCHANGED <<e2_nodes, xapps, gone, counter, subscriptions, unanswered, nodeVars>>

CreateSubscription(x, n) ==
  /\ n \in e2_nodes
  /\ counter <= MaxRequests
  /\ counter' = counter + 1
  /\ object' = [object EXCEPT ![counter] = [node |-> n, owner |-> x, state |-> "PENDING"]]
  /\ Stand(counter, "create", "waiting")
  /\ net' = net \cup {[kind |-> "request", id |-> counter, call |-> "create", node |-> n]}
  /\ UNCHANGED <<e2_nodes, xapps, gone, subscriptions, unanswered, nodeVars>>

\* The node answered.
StoreAnsweredByStatus(i) ==   \* mutated form: a refusal is stored as no state of the API
  /\ call[i]["create"] = "waiting"
  /\ \E m \in Answers(i, "create") :
       /\ object' = [object EXCEPT ![i].state = IF m.kind = "accepted" THEN "ACTIVE" ELSE "REFUSED"]
       /\ net' = net \ {m}
  /\ subscriptions' = subscriptions \cup {i}
  /\ Stand(i, "create", "ended")
  /\ UNCHANGED <<e2_nodes, xapps, gone, counter, unanswered, nodeVars>>

StoreAnswered(i) ==
  /\ call[i]["create"] = "waiting"
  /\ \E m \in Answers(i, "create") :
       /\ object' = [object EXCEPT ![i].state = IF m.kind = "accepted" THEN "ACTIVE" ELSE "FAILED"]
       /\ net' = net \ {m}
  /\ subscriptions' = subscriptions \cup {i}
  /\ Stand(i, "create", "ended")
  /\ UNCHANGED <<e2_nodes, xapps, gone, counter, unanswered, nodeVars>>

\* RequestError: no connection, or a timeout, which may hide an answer.
StoreAsActive(i) ==   \* mutated form: no answer is taken for a positive one
  /\ call[i]["create"] = "waiting"
  /\ object' = [object EXCEPT ![i].state = "ACTIVE"]
  /\ net' = net \ Answers(i, "create")
  /\ subscriptions' = subscriptions \cup {i}
  /\ unanswered' = unanswered \cup {i}
  /\ Stand(i, "create", "ended")
  /\ UNCHANGED <<e2_nodes, xapps, gone, counter, nodeVars>>

StoreUnanswered(i) ==
  /\ call[i]["create"] = "waiting"
  /\ object' = [object EXCEPT ![i].state = "PENDING"]
  /\ net' = net \ Answers(i, "create")
  /\ subscriptions' = subscriptions \cup {i}
  /\ unanswered' = unanswered \cup {i}
  /\ Stand(i, "create", "ended")
  /\ UNCHANGED <<e2_nodes, xapps, gone, counter, nodeVars>>
------------------------------------------------------------------------------
(* delete_subscription *)

\* A client's call, or a scheduled cleanup that the event loop gets to.
BeginDeleteForgetting(i, c) ==   \* mutated form: the entry goes before the answer
  /\ c \in Deletions
  /\ call[i][c] = IF c = "client" THEN "idle" ELSE "scheduled"
  /\ IF i \in subscriptions
       THEN /\ net' = net \cup {Message("request", i, c)}
            /\ Stand(i, c, "waiting")
       ELSE c = "cleanup" /\ Stand(i, c, "raised") /\ UNCHANGED net
  /\ subscriptions' = subscriptions \ {i}
  /\ UNCHANGED <<e2_nodes, xapps, gone, counter, object, unanswered, nodeVars>>

BeginDeleteOfActive(i, c) ==   \* mutated form: only an ACTIVE subscription is deleted
  /\ c \in Deletions
  /\ call[i][c] = IF c = "client" THEN "idle" ELSE "scheduled"
  /\ IF i \in subscriptions /\ object[i].state = "ACTIVE"
       THEN /\ net' = net \cup {Message("request", i, c)}
            /\ Stand(i, c, "waiting")
       ELSE c = "cleanup" /\ Stand(i, c, "raised") /\ UNCHANGED net
  /\ UNCHANGED <<e2_nodes, xapps, gone, counter, object, subscriptions, unanswered, nodeVars>>

BeginDelete(i, c) ==
  /\ c \in Deletions
  /\ call[i][c] = IF c = "client" THEN "idle" ELSE "scheduled"
  /\ IF i \in subscriptions
       THEN /\ net' = net \cup {Message("request", i, c)}
            /\ Stand(i, c, "waiting")
       ELSE /\ c = "cleanup"   \* 404 inside the task; a client's 404 changes nothing
            /\ Stand(i, c, "raised")
            /\ UNCHANGED net
  /\ UNCHANGED <<e2_nodes, xapps, gone, counter, object, subscriptions, unanswered, nodeVars>>

\* After the node's answer, whatever it says, or after a RequestError: the entry
\* goes, and it is a KeyError when another deletion took it first.
Forget(i, c) ==
  /\ object' = [object EXCEPT ![i].state = "DELETED"]
  /\ subscriptions' = subscriptions \ {i}
  /\ Stand(i, c, IF i \in subscriptions THEN "ended" ELSE "raised")
  /\ net' = net \ Answers(i, c)
  /\ UNCHANGED <<e2_nodes, xapps, gone, counter, nodeVars>>

DeleteAnswered(i, c) ==
  /\ c \in Deletions /\ call[i][c] = "waiting" /\ Answers(i, c) # {}
  /\ Forget(i, c)
  /\ UNCHANGED unanswered

DeleteUnanswered(i, c) ==
  /\ c \in Deletions /\ call[i][c] = "waiting"
  /\ Forget(i, c)
  /\ unanswered' = unanswered \cup {i}
------------------------------------------------------------------------------
(* The E2 node and the network *)

\* handle_e2_subscription: the entry and its report task.
NodeSubscribes(m) ==
  /\ m.kind = "request" /\ m.call = "create"
  /\ held' = [held EXCEPT ![m.node] = @ \cup {m.id}]
  /\ reporters' = [reporters EXCEPT ![m.node] = @ \cup {m.id}]
  /\ net' = (net \ {m}) \cup
       (IF call[m.id][m.call] = "waiting" THEN {[m EXCEPT !.kind = "accepted"]} ELSE {})
  /\ UNCHANGED <<ricVars, dropped, restarts>>

\* delete_e2_subscription: "deleted", whether or not the node knew the id.
NodeDeletes(m) ==
  /\ m.kind = "request" /\ m.call \in Deletions
  /\ held' = [held EXCEPT ![m.node] = @ \ {m.id}]
  /\ net' = (net \ {m}) \cup
       (IF call[m.id][m.call] = "waiting" THEN {[m EXCEPT !.kind = "accepted"]} ELSE {})
  /\ UNCHANGED <<ricVars, reporters, dropped, restarts>>

\* A node that cannot take a subscription answers its request with an error
\* status; a deletion it always acknowledges.
NodeRefuses(m) ==
  /\ m.kind = "request" /\ m.call = "create" /\ call[m.id][m.call] = "waiting"
  /\ net' = (net \ {m}) \cup {[m EXCEPT !.kind = "refused"]}
  /\ UNCHANGED <<ricVars, nodeVars>>

Lose(m) ==
  /\ net' = net \ {m}
  /\ UNCHANGED <<ricVars, nodeVars>>

\* e2_periodic_report leaves its loop once the entry is gone.
ReporterExits(n, i) ==
  /\ i \in reporters[n] \ held[n]
  /\ reporters' = [reporters EXCEPT ![n] = @ \ {i}]
  /\ UNCHANGED <<ricVars, net, held, dropped, restarts>>

\* A node's subscriptions and tasks are in its memory.  What it has answered by
\* then still reaches the RIC; what its end takes from the network, Lose does.
NodeRestarts(n) ==
  /\ restarts < MaxRestarts
  /\ restarts' = restarts + 1
  /\ dropped' = dropped \cup held[n]
  /\ held' = [held EXCEPT ![n] = {}]
  /\ reporters' = [reporters EXCEPT ![n] = {}]
  /\ UNCHANGED <<ricVars, net>>
------------------------------------------------------------------------------
Next ==
  \/ \E n \in Nodes : Setup(n) \/ NodeRestarts(n)
  \/ \E x \in XApps : RegisterXapp(x) \/ UnregisterXapp(x)
  \/ \E x \in XApps, n \in Nodes : CreateSubscription(x, n)
  \/ \E i \in Ids : StoreAnswered(i) \/ StoreUnanswered(i)
  \/ \E i \in Ids, c \in Deletions :
       BeginDelete(i, c) \/ DeleteAnswered(i, c) \/ DeleteUnanswered(i, c)
  \/ \E m \in net : NodeSubscribes(m) \/ NodeDeletes(m) \/ NodeRefuses(m) \/ Lose(m)
  \/ \E n \in Nodes, i \in Ids : ReporterExits(n, i)

Spec == Init /\ [][Next]_vars

\* A call ends at its answer or at httpx's timeout, the event loop gets to the
\* tasks it was given and a reporter wakes from its sleep.  Neither the network
\* nor a client owes anything.
Fairness ==
  /\ \A i \in Ids : WF_vars(StoreAnswered(i) \/ StoreUnanswered(i))
  /\ \A i \in Ids, c \in Deletions : WF_vars(DeleteAnswered(i, c) \/ DeleteUnanswered(i, c))
  /\ \A i \in Ids : WF_vars(BeginDelete(i, "cleanup"))
  /\ \A n \in Nodes, i \in Ids : WF_vars(ReporterExits(n, i))

FairSpec == Spec /\ Fairness
------------------------------------------------------------------------------
\* Both sides hold the kinds of value the code stores, and calls stand where a
\* coroutine can stand.
TypeOK ==
  /\ e2_nodes \subseteq Nodes
  /\ xapps \subseteq XApps /\ gone \subseteq XApps
  /\ counter \in 1..MaxRequests + 1
  /\ object \in [Ids -> Subscriptions \cup {NoSub}]
  /\ subscriptions \subseteq Ids
  /\ call \in [Ids -> [Calls -> Standing]]
  /\ unanswered \subseteq Ids
  /\ net \subseteq Messages
  /\ held \in [Nodes -> SUBSET Ids]
  /\ reporters \in [Nodes -> SUBSET Ids]
  /\ dropped \subseteq Ids
  /\ restarts \in 0..MaxRestarts

\* What the RIC lists as ACTIVE, and is not about to delete, its node holds and
\* reports on, unless that node has lost it by restarting, of which the RIC
\* never learns.
ActiveIsHeld ==
  \A i \in subscriptions \ dropped :
    object[i].state = "ACTIVE" /\ (\A c \in Deletions : call[i][c] # "waiting")
      => i \in held[object[i].node] \cap reporters[object[i].node]

\* A node holds nothing the RIC has forgotten: an entry belongs to a listed
\* subscription or to a creation that still waits for the node's answer.  Only
\* a call that ended without an answer can leave an orphan behind.
HeldIsKnown ==
  \A n \in Nodes : \A i \in held[n] :
    i \in subscriptions \/ call[i]["create"] = "waiting" \/ i \in unanswered

\* A deletion that got as far as the node settles the matter: no late answer to
\* the creation and no rival deletion brings the entry back, and of two rivals
\* one alone reports success, the other ends in the KeyError.
DeletedStaysDeleted ==
  \A i \in Ids :
    /\ (\E c \in Deletions : call[i][c] \in {"ended", "raised"}) => i \notin subscriptions
    /\ ~ \A c \in Deletions : call[i][c] = "ended"

\* Every deletion unregister_xapp schedules is carried out: for good, the RIC
\* lists the subscription no more and, when every call about it was answered,
\* nobody reports on it either.
CleanupCompletes ==
  \A i \in Ids :
    call[i]["cleanup"] = "scheduled" ~>
      [](i \notin subscriptions /\ (i \in unanswered \/ \A n \in Nodes : i \notin reporters[n]))
------------------------------------------------------------------------------
\* What the calls and the nodes amount to, seen from the service.
PhaseOf(i) ==
  CASE call[i]["create"] = "idle"    -> "unused"
    [] call[i]["create"] = "waiting" -> "pending"
    [] call[i]["create"] = "ended" /\ i \in subscriptions ->
         IF \E c \in Deletions : call[i][c] = "waiting" THEN "leaving" ELSE "listed"
    [] OTHER -> "gone"

OutcomeOf(i, c) ==
  CASE call[i][c] = "ended"  -> "done"
    [] call[i][c] = "raised" -> "failed"
    [] OTHER -> "none"

Phases   == [i \in Ids |-> PhaseOf(i)]
Outcomes == [i \in Ids |-> [c \in Deletions |-> OutcomeOf(i, c)]]
Active   == {i \in subscriptions : object[i].state = "ACTIVE"}
Served   == UNION {held[n] : n \in Nodes}

Service == INSTANCE SubscriptionService WITH
  Deleters <- Deletions,
  phase    <- Phases,
  active   <- Active,
  served   <- Served,
  unsure   <- unanswered,
  lost     <- dropped,
  outcome  <- Outcomes

\* The RIC and its nodes keep the service's promise: one life per id, ACTIVE
\* only on the word of a node that holds the subscription or has lost it by
\* restarting since, one deletion alone successful, and no orphan but after an
\* answer that went missing.
KeepsService == Service!Spec
==============================================================================
