------------------------- MODULE SubscriptionService -------------------------
(***************************************************************************)
(* What the Near-RT RIC and the E2 nodes promise about a subscription,     *)
(* without the calls and messages that bring it about: it is requested,    *)
(* listed and removed once, it is listed as active only if its node serves *)
(* it or lost it in a crash, one deletion succeeds and the others fail,    *)
(* and a subscription that has gone is served only if an answer went       *)
(* missing.                                                                *)
(***************************************************************************)
CONSTANTS
  Ids,        \* subscriptions that can be requested
  Deleters    \* those who can ask for the deletion of one

VARIABLES
  phase,      \* "unused", "pending", "listed", "leaving" or "gone"
  active,     \* subscriptions listed as taken up by their nodes
  served,     \* subscriptions the nodes serve
  unsure,     \* subscriptions about which an answer went missing
  lost,       \* subscriptions a crash took from a node
  outcome     \* what each deleter was told: "none", "done" or "failed"

serviceVars == <<phase, active, served, unsure, lost, outcome>>

Init ==
  /\ phase = [i \in Ids |-> "unused"]
  /\ active = {}
  /\ served = {}
  /\ unsure = {}
  /\ lost = {}
  /\ outcome = [i \in Ids |-> [d \in Deleters |-> "none"]]

Moves(i, from, to) == phase[i] = from /\ phase' = [phase EXCEPT ![i] = to]
Tells(i, d, what)  == outcome[i][d] = "none" /\ outcome' = [outcome EXCEPT ![i][d] = what]
MayMiss(i)         == unsure' = unsure \/ unsure' = unsure \cup {i}

Request(i) ==
  /\ Moves(i, "unused", "pending")
  /\ UNCHANGED <<active, served, unsure, lost, outcome>>

\* The node has taken the subscription up, and only a crash can have ended that.
ListActive(i) ==
  /\ Moves(i, "pending", "listed")
  /\ i \in served \cup lost
  /\ active' = active \cup {i}
  /\ UNCHANGED <<served, unsure, lost, outcome>>

\* The node refused, or its answer went missing.
ListInactive(i) ==
  /\ Moves(i, "pending", "listed")
  /\ MayMiss(i)
  /\ UNCHANGED <<active, served, lost, outcome>>

AskDeletion(i) ==
  /\ Moves(i, "listed", "leaving")
  /\ UNCHANGED <<active, served, unsure, lost, outcome>>

\* The deletion that removes the entry is the one that succeeds.
Remove(i, d) ==
  /\ Moves(i, "leaving", "gone")
  /\ Tells(i, d, "done")
  /\ MayMiss(i)
  /\ i \notin served \/ i \in unsure'
  /\ active' = active \ {i}
  /\ UNCHANGED <<served, lost>>

FailDeletion(i, d) ==
  /\ phase[i] = "gone"
  /\ Tells(i, d, "failed")
  /\ MayMiss(i)
  /\ UNCHANGED <<phase, active, served, lost>>

\* A node takes up what is being created, or what was given up unanswered.
Serve(i) ==
  /\ phase[i] = "pending" \/ i \in unsure
  /\ served' = served \cup {i}
  /\ UNCHANGED <<phase, active, unsure, lost, outcome>>

Withdraw(i) ==
  /\ phase[i] \in {"leaving", "gone"}
  /\ served' = served \ {i}
  /\ UNCHANGED <<phase, active, unsure, lost, outcome>>

Crash(those) ==
  /\ served' = served \ those
  /\ lost' = lost \cup those
  /\ UNCHANGED <<phase, active, unsure, outcome>>

Next ==
  \/ \E i \in Ids : \/ Request(i) \/ ListActive(i) \/ ListInactive(i) \/ AskDeletion(i)
                    \/ Serve(i) \/ Withdraw(i)
  \/ \E i \in Ids, d \in Deleters : Remove(i, d) \/ FailDeletion(i, d)
  \/ \E those \in SUBSET served : Crash(those)

Spec == Init /\ [][Next]_serviceVars
==============================================================================
